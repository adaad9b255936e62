----------------------------- MODULE DcbxProofs -----------------------------
(* The sequence numbers of DCBX at the two ends of a link, for any features, *)
(* settings, versions, commands and faults.                                  *)
EXTENDS Dcbx, TLAPS

\* The members of a port's stores that carry the numbers.
CtlFields == {"state", "seq", "ack", "myack", "ver"}

Numbered(s) == /\ "ctl" \in DOMAIN s /\ CtlFields \subseteq DOMAIN s.ctl
               /\ s.ctl.seq \in Nat

\* The inductive invariant.
SeqInv == DOMAIN node = Node /\ \A n \in Node : Numbered(node[n])

\* A change of other members.
Same(s, t) == /\ Numbered(t)
              /\ t.ctl.seq = s.ctl.seq /\ t.ctl.myack = s.ctl.myack

\* What the machines do to the numbers for a local change: MyAckNo stays, and
\* SeqNo goes up only from an acknowledged number, by one.
Steps(s, t) == /\ Numbered(t)
               /\ t.ctl.myack = s.ctl.myack
               /\ \/ t.ctl.seq = s.ctl.seq
                  \/ s.ctl.seq = s.ctl.myack /\ t.ctl.seq = s.ctl.seq + 1

\* What OneInFlight allows a handler to do.
Allowed(s, t) ==
    /\ Numbered(t)
    /\ t.ctl.seq > s.ctl.seq => /\ s.ctl.seq = t.ctl.myack
                                /\ t.ctl.seq = s.ctl.seq + 1

-----------------------------------------------------------------------------
(* Steps                                                                     *)

LEMMA SameSteps ==
    ASSUME NEW s, NEW t, Same(s, t)
    PROVE  Steps(s, t)
BY DEF Same, Steps

LEMMA StepsAllowed ==
    ASSUME NEW s, NEW t, Numbered(s), Steps(s, t)
    PROVE  Allowed(s, t)
BY DEF Steps, Allowed, Numbered

\* At most one run of several takes a number: after it the last number is not
\* acknowledged.
LEMMA StepsCompose ==
    ASSUME NEW s, NEW t, NEW u, Numbered(s), Steps(s, t), Steps(t, u)
    PROVE  Steps(s, u)
BY DEF Steps, Numbered

LEMMA SameThenSteps ==
    ASSUME NEW s, NEW t, NEW u, Same(s, t), Steps(t, u)
    PROVE  Steps(s, u)
BY DEF Steps, Same

LEMMA StepsThenSame ==
    ASSUME NEW s, NEW t, NEW u, Steps(s, t), Same(t, u)
    PROVE  Steps(s, u)
BY DEF Steps, Same, Numbered

LEMMA SameCompose ==
    ASSUME NEW s, NEW t, NEW u, Same(s, t), Same(t, u)
    PROVE  Same(s, u)
BY DEF Same

LEMMA SameThenAllowed ==
    ASSUME NEW s, NEW t, NEW u, Same(s, t), Allowed(t, u)
    PROVE  Allowed(s, u)
BY DEF Same, Allowed

LEMMA ChooseOnly == ASSUME NEW a PROVE (CHOOSE e \in {a} : TRUE) = a
OBVIOUS

-----------------------------------------------------------------------------
(* The machines                                                              *)

\* The feature machines leave the numbers alone.
LEMMA FeatureKeeps ==
    ASSUME NEW n, NEW f, NEW ev, NEW s, Numbered(s)
    PROVE  Same(s, run_feature_protocol(n, f, ev, s))
BY DEF run_feature_protocol, Same, Numbered

LEMMA RunFeatureKeeps ==
    ASSUME NEW n, NEW f, NEW ev, NEW fs, NEW s, Numbered(s)
    PROVE  Same(s, RunFeature(n, f, ev, fs, s))
<1> DEFINE Run(u) == IF u.bad THEN u ELSE run_feature_protocol(n, f, ev, u)
<1>1. Same(s, Run(s))
    BY FeatureKeeps DEF Same
<1>2. {Run(u) : u \in {s}} = {Run(s)}
    OBVIOUS
<1> HIDE DEF Run
<1>3. (CHOOSE e \in {Run(u) : u \in {s}} : TRUE) = Run(s)
    BY <1>2, ChooseOnly
<1>4. RunFeature(n, f, ev, fs, s) \in {s, Run(s)}
    BY <1>3 DEF RunFeature, Apply, Run
<1> QED
    BY <1>1, <1>4 DEF Same

\* The label send takes a number only when the last one is acknowledged.
LEMMA SendSteps ==
    ASSUME NEW s, NEW again, Numbered(s)
    PROVE  Steps(s, Send(s, again))
<1> DEFINE u == update_feature_syncd(s)
<1>1. Same(s, u)
    BY DEF update_feature_syncd, Same, Numbered
<1> HIDE DEF u
<1>2. Send(s, again) \in {[u EXCEPT !.ctl.seq = @ + 1, !.tx = TRUE],
                          [s EXCEPT !.tx = @ \/ again]}
    BY DEF Send, u
<1>3. s.ctl.seq = s.ctl.myack \/ Send(s, again) = [s EXCEPT !.tx = @ \/ again]
    BY DEF Send
<1>4. Steps(s, [s EXCEPT !.tx = @ \/ again])
    BY DEF Steps, Numbered
<1>5. Numbered(u) /\ u.ctl.seq = s.ctl.seq /\ u.ctl.myack = s.ctl.myack
    BY <1>1 DEF Same, Numbered
<1>6. s.ctl.seq = s.ctl.myack =>
        Steps(s, [u EXCEPT !.ctl.seq = @ + 1, !.tx = TRUE])
    BY <1>5 DEF Steps, Numbered, CtlFields
<1> QED
    BY <1>2, <1>3, <1>4, <1>6

\* ... as it is called.
LEMMA SendApplied ==
    ASSUME NEW s, NEW again
    PROVE  Apply(LAMBDA u : Send(u, again), s) = Send(s, again)
<1> DEFINE F(u) == Send(u, again)
<1>1. {F(u) : u \in {s}} = {F(s)}
    OBVIOUS
<1> HIDE DEF F
<1>2. (CHOOSE e \in {F(u) : u \in {s}} : TRUE) = F(s)
    BY <1>1, ChooseOnly
<1> QED
    BY <1>2 DEF Apply, F

LEMMA ControlLocal ==
    ASSUME NEW n, NEW s, Numbered(s)
    PROVE  Steps(s, run_control_protocol(n, "local", s))
<1> DEFINE c == IF s.ctl.state = "LISTEN" THEN s
                ELSE [s EXCEPT !.ctl.state = "LISTEN",
                               !.ctl.ver = MaxVersion[n]]
           d == [c EXCEPT !.ctl.ver = c.ctl.ver]
<1>1. Same(s, c)
    BY DEF Same, Numbered, CtlFields
<1>2. run_control_protocol(n, "local", s) = Apply(LAMBDA u : Send(u, FALSE), d)
    BY DEF run_control_protocol
<1> HIDE DEF c
<1>3. Same(c, d)
    BY <1>1 DEF Same, Numbered, CtlFields
<1> HIDE DEF d
<1>4. Same(s, d) /\ Numbered(d)
    BY <1>1, <1>3, SameCompose DEF Same
<1>5. Steps(d, Send(d, FALSE))
    BY <1>4, SendSteps
<1> QED
    BY <1>2, <1>4, <1>5, SendApplied, SameThenSteps

\* The neighbour has aged out: the numbers start over.
LEMMA ExpiredAllowed ==
    ASSUME NEW n, NEW s, Numbered(s)
    PROVE  Allowed(s, Expired(n, s))
<1> DEFINE r == [s EXCEPT !.ctl.seq = 0, !.ctl.ack = 0, !.ctl.myack = 0,
                          !.ctl.ver = MaxVersion[n], !.peer.rx = "RESET"]
<1>1. Numbered(r) /\ r.ctl.seq = 0 /\ r.ctl.myack = 0
    BY DEF Numbered, CtlFields
<1>2. Expired(n, s) = IF subtype = 2 THEN r
                      ELSE Apply(LAMBDA u : Send(u, TRUE), r)
    BY DEF Expired
<1> HIDE DEF r
<1>3. Expired(n, s) \in {r, Send(r, TRUE)}
    BY <1>2, SendApplied
<1>4. Steps(r, Send(r, TRUE))
    BY <1>1, SendSteps
<1>5. Steps(r, r)
    BY <1>1 DEF Steps
<1>6. Steps(r, Expired(n, s))
    BY <1>3, <1>4, <1>5
<1> QED
    BY <1>1, <1>6 DEF Steps, Allowed, Numbered

\* A frame of the neighbour: MyAckNo is what it acknowledges.
LEMMA AcknowledgeAllowed ==
    ASSUME NEW s, Numbered(s)
    PROVE  Allowed(s, Acknowledge(s))
<1> DEFINE r == [s EXCEPT !.ctl.myack = s.peer.ack]
           ack == (s.ctl.ack # s.peer.seq \/ s.peer.ack = 0) /\ ~s.peer.many
           q == [r EXCEPT !.ctl.ack = IF ack THEN s.peer.seq ELSE r.ctl.ack]
<1>1. Numbered(r) /\ r.ctl.seq = s.ctl.seq
    BY DEF Numbered, CtlFields
<1>2. Acknowledge(s) = Apply(LAMBDA u : Send(u, ack), q)
    BY DEF Acknowledge
<1> HIDE DEF r, ack
<1>3. Numbered(q) /\ q.ctl.seq = s.ctl.seq
    BY <1>1 DEF Numbered, CtlFields
<1> HIDE DEF q
<1>4. Acknowledge(s) = Send(q, ack)
    BY <1>2, SendApplied
<1>5. Steps(q, Send(q, ack))
    BY <1>3, SendSteps
<1> QED
    BY <1>3, <1>4, <1>5 DEF Steps, Allowed, Numbered

LEMMA ControlAllowed ==
    ASSUME NEW n, NEW ev, NEW s, Numbered(s)
    PROVE  Allowed(s, run_control_protocol(n, ev, s))
<1> DEFINE c == IF s.ctl.state = "LISTEN" THEN s
                ELSE [s EXCEPT !.ctl.state = "LISTEN",
                               !.ctl.ver = MaxVersion[n]]
           ver == MinV(c.peer.max, MaxVersion[n])
           d(again) == [c EXCEPT !.ctl.ver = IF again THEN ver ELSE c.ctl.ver]
<1>1. Same(s, c)
    BY DEF Same, Numbered, CtlFields
<1>2. run_control_protocol(n, ev, s) \in
        {Apply(LAMBDA u : Send(u, TRUE), d(TRUE)),
         Apply(LAMBDA u : Send(u, FALSE), d(FALSE)),
         Expired(n, c), Acknowledge(c)}
    BY DEF run_control_protocol
<1> HIDE DEF c, ver
<1>3. ASSUME NEW again
      PROVE  Same(c, d(again))
    BY <1>1 DEF Same, Numbered, CtlFields
<1>4. ASSUME NEW again
      PROVE  Same(s, d(again))
    BY <1>1, <1>3, SameCompose
<1> HIDE DEF d
<1>5. ASSUME NEW again
      PROVE  Allowed(s, Send(d(again), again))
    <2>1. Steps(d(again), Send(d(again), again))
        BY <1>4, SendSteps DEF Same
    <2> QED
        BY <1>4, <2>1, SameThenSteps, StepsAllowed
<1>6. Allowed(c, Expired(n, c)) /\ Allowed(c, Acknowledge(c))
    BY <1>1, ExpiredAllowed, AcknowledgeAllowed DEF Same
<1>7. Allowed(s, Expired(n, c)) /\ Allowed(s, Acknowledge(c))
    BY <1>1, <1>6, SameThenAllowed
<1>8. run_control_protocol(n, ev, s) \in
        {Send(d(TRUE), TRUE), Send(d(FALSE), FALSE), Expired(n, c), Acknowledge(c)}
    BY <1>2, SendApplied
<1> QED
    BY <1>5, <1>7, <1>8

\* The machines of all features and then the control machine.
LEMMA ProtocolRuns ==
    ASSUME NEW n, NEW fs, NEW ev, NEW s, Numbered(s)
    PROVE  /\ Allowed(s, run_dcb_protocol(n, fs, ev, s))
           /\ ev = "local" => Steps(s, run_dcb_protocol(n, fs, ev, s))
<1> DEFINE a == RunFeature(n, Order[1], ev, fs, s)
           b == RunFeature(n, Order[2], ev, fs, a)
           c == RunFeature(n, Order[3], ev, fs, b)
           t == RunFeature(n, Order[4], ev, fs, c)
           q == [t EXCEPT !.bad = FALSE]
           Run(u) == run_control_protocol(n, ev, u)
<1>1. Same(s, a)
    BY RunFeatureKeeps
<1>2. Same(a, b)
    BY <1>1, RunFeatureKeeps DEF Same
<1>3. Same(b, c)
    BY <1>2, RunFeatureKeeps DEF Same
<1>4. Same(c, t)
    BY <1>3, RunFeatureKeeps DEF Same
<1>5. Same(t, q)
    BY <1>4 DEF Same, Numbered
<1>6. Same(s, q)
    BY <1>1, <1>2, <1>3, <1>4, <1>5 DEF Same
<1>7. {Run(u) : u \in {q}} = {Run(q)}
    OBVIOUS
<1> HIDE DEF Run
<1>8. (CHOOSE e \in {Run(u) : u \in {q}} : TRUE) = Run(q)
    BY <1>7, ChooseOnly
<1>9. run_dcb_protocol(n, fs, ev, s) \in {s, Run(q)}
    BY <1>8 DEF run_dcb_protocol, Apply, Run
<1> HIDE DEF q
<1>10. Allowed(s, Run(q))
    BY <1>6, ControlAllowed, SameThenAllowed DEF Run, Same
<1>11. ev = "local" => Steps(s, Run(q))
    BY <1>6, ControlLocal, SameThenSteps DEF Run, Same
<1>12. Allowed(s, s) /\ Steps(s, s)
    BY DEF Allowed, Steps, Numbered
<1> QED
    BY <1>9, <1>10, <1>11, <1>12

-----------------------------------------------------------------------------
(* Commands                                                                  *)

LEMMA PutSteps ==
    ASSUME NEW n, NEW f \in {"PFC", "PG", "APP", "LLINK"}, NEW x, NEW s, Numbered(s)
    PROVE  Steps(s, Put(n, f, x, s))
<1> DEFINE t == [s EXCEPT !.feat[f] = Set(s.feat[f], x)]
<1>1. Same(s, t)
    BY DEF Same, Numbered
<1> HIDE DEF t
<1>2. Steps(s, run_dcb_protocol(n, {f}, "local", t))
    BY <1>1, ProtocolRuns, SameThenSteps DEF Same
<1>3. Steps(s, s)
    BY DEF Steps
<1>4. Steps(s, put_pfc(n, f, x, s))
    BY <1>2, <1>3 DEF put_pfc, t
<1> QED
    BY <1>3, <1>4 DEF Put, put_pg, put_app, put_llink

LEMMA AdvertiseSteps ==
    ASSUME NEW n, NEW f \in {"PFC", "PG", "APP", "LLINK"}, NEW ad, NEW s, Numbered(s)
    PROVE  Steps(s, Advertise(n, f, ad, s))
<1> DEFINE P(u) == Put(n, f, [SetOf(u.feat[f]) EXCEPT !.adv = ad], u)
<1>1. {P(u) : u \in {s}} = {P(s)}
    OBVIOUS
<1>2. Steps(s, P(s))
    BY PutSteps
<1> HIDE DEF P
<1>3. (CHOOSE e \in {P(u) : u \in {s}} : TRUE) = P(s)
    BY <1>1, ChooseOnly
<1>4. Advertise(n, f, ad, s) \in {s, P(s)}
    BY <1>3 DEF Advertise, Apply, P
<1>5. Steps(s, s)
    BY DEF Steps
<1> QED
    BY <1>2, <1>4, <1>5

\* Several changes in one command take one number at most.
LEMMA AdvertiseAllSteps ==
    ASSUME NEW n, NEW ad, NEW s, Numbered(s)
    PROVE  Steps(s, dont_advertise_dcbx_all(n, ad, s))
<1> DEFINE a == Advertise(n, "PG", ad, s)
           b == Advertise(n, "PFC", ad, a)
           c == Advertise(n, "APP", ad, b)
           d == Advertise(n, "LLINK", ad, c)
<1>1. Steps(s, a)
    BY AdvertiseSteps
<1> HIDE DEF a
<1>2. Steps(a, b)
    BY <1>1, AdvertiseSteps DEF Steps
<1>3. Steps(s, b)
    BY <1>1, <1>2, StepsCompose
<1> HIDE DEF b
<1>4. Steps(b, c)
    BY <1>3, AdvertiseSteps DEF Steps
<1>5. Steps(s, c)
    BY <1>3, <1>4, StepsCompose
<1> HIDE DEF c
<1>6. Steps(c, d)
    BY <1>5, AdvertiseSteps DEF Steps
<1>7. Steps(s, d)
    BY <1>5, <1>6, StepsCompose
<1> QED
    BY <1>7 DEF dont_advertise_dcbx_all, a, b, c

LEMMA TurnsOnKeeps ==
    ASSUME NEW l, NEW x, NEW s, Numbered(s)
    PROVE  Same(s, TurnsOn(l, x, s))
BY DEF TurnsOn, Same, Numbered

LEMMA AppDataSteps ==
    ASSUME NEW n, NEW x, NEW s, Numbered(s)
    PROVE  Steps(s, set_app_protocol_data(n, x, s))
<1> DEFINE l == s.feat["APP"]
           a == put_app(n, [x EXCEPT !.en = l.en, !.will = l.will], s)
           b == TurnsOn(l, x, a)
           P(u) == put_app(n, x, u)
           c == P(b)
           d == [c EXCEPT !.tx = TRUE]
<1>1. ASSUME NEW y, NEW u, Numbered(u)
      PROVE  Steps(u, put_app(n, y, u))
    <2>1. Put(n, "APP", y, u) = put_app(n, y, u)
        BY DEF Put
    <2> QED
        BY <1>1, <2>1, PutSteps
<1>2. {P(u) : u \in {b}} = {P(b)}
    OBVIOUS
<1> HIDE DEF P
<1>3. (CHOOSE e \in {P(u) : u \in {b}} : TRUE) = P(b)
    BY <1>2, ChooseOnly
<1>4. set_app_protocol_data(n, x, s) = d
    BY <1>3 DEF set_app_protocol_data, Apply, P
<1>5. Steps(s, a)
    BY <1>1
<1> HIDE DEF a
<1>6. Same(a, b)
    BY <1>5, TurnsOnKeeps DEF Steps
<1>7. Steps(s, b)
    BY <1>5, <1>6, StepsThenSame
<1> HIDE DEF b
<1>8. Steps(b, c)
    BY <1>1, <1>7 DEF P, Steps
<1>9. Steps(s, c)
    BY <1>7, <1>8, StepsCompose
<1> HIDE DEF c
<1>10. Same(c, d)
    BY <1>9 DEF Steps, Same, Numbered
<1> QED
    BY <1>4, <1>9, <1>10, StepsThenSame

-----------------------------------------------------------------------------
(* Frames and faults                                                         *)

LEMMA HeardAllowed ==
    ASSUME NEW n, NEW fr, Numbered(node[n])
    PROVE  Allowed(node[n], Heard(n, fr))
<1> DEFINE s == [node[n] EXCEPT
                   !.last = fr,
                   !.msap = IF node[n].msap = None THEN fr.from ELSE @,
                   !.many = @ \/ (node[n].msap # None /\ node[n].msap # fr.from)]
           t == [s EXCEPT !.active = TRUE, !.tx = @ \/ ~s.active]
           New(f) == IF fr.tlv[f] = None
                     THEN check_feature_not_present(f, t.pf[f])
                     ELSE process_dcbx_pg_tlv(fr.tlv[f], fr.dup)
           u == [t EXCEPT !.peer = process_dcbx_ctrl_tlv(t, fr),
                          !.pf = [f \in Features |-> New(f)]]
           v == run_dcb_protocol(n, Features, "remote", u)
<1>1. Same(node[n], s)
    BY DEF Same, Numbered
<1>2. Heard(n, fr) \in {node[n], dcbx_rchange(n, s, fr)}
    BY DEF Heard
<1> HIDE DEF s
<1>3. Same(s, t)
    BY <1>1 DEF Same, Numbered
<1>4. dcbx_rchange(n, s, fr) \in {s, mibUpdateObjects(n, t, fr)}
    BY DEF dcbx_rchange
<1> HIDE DEF t
<1>5. Same(t, u)
    BY <1>3 DEF Same, Numbered
<1>6. mibUpdateObjects(n, t, fr) = v
    BY DEF mibUpdateObjects
<1> HIDE DEF u
<1>7. Same(node[n], u)
    BY <1>1, <1>3, <1>5 DEF Same
<1>8. Allowed(node[n], v)
    BY <1>7, ProtocolRuns, SameThenAllowed DEF Same
<1> HIDE DEF v
<1>9. Allowed(node[n], s) /\ Allowed(node[n], node[n])
    BY <1>1 DEF Same, Allowed, Numbered
<1> QED
    BY <1>2, <1>4, <1>6, <1>8, <1>9

LEMMA DeleteAllowed ==
    ASSUME NEW n, NEW s, Numbered(s)
    PROVE  Allowed(s, dcbx_mibDeleteObjects(n, s))
<1> DEFINE fs == {f \in Features : s.pf[f].present}
           err == s.peer.many \/ s.peer.dup
           t == [s EXCEPT !.pf = [f \in Features |->
                                    [s.pf[f] EXCEPT !.present = FALSE]],
                          !.peer.rx = IF err THEN @ ELSE "EXPIRED"]
           u == run_dcb_protocol(n, fs, "remote", t)
<1>1. Same(s, t)
    BY DEF Same, Numbered
<1>2. dcbx_mibDeleteObjects(n, s) \in {t, u}
    BY DEF dcbx_mibDeleteObjects
<1> HIDE DEF t, fs
<1>3. Allowed(s, u)
    BY <1>1, ProtocolRuns, SameThenAllowed DEF Same
<1>4. Allowed(s, t)
    BY <1>1 DEF Same, Allowed, Numbered
<1> HIDE DEF u
<1> QED
    BY <1>2, <1>3, <1>4

\* The stores of a port that is set up have the numbers they are given.
LEMMA AdapterNumbers ==
    ASSUME NEW n, NEW x, NEW hw, NEW seq \in Nat, NEW ack, NEW act
    PROVE  LET s == dcbx_add_adapter(n, x, hw, seq, ack, act)
           IN  Numbered(s) /\ s.ctl.seq = seq
BY DEF dcbx_add_adapter, init_control_prot, Numbered, CtlFields

-----------------------------------------------------------------------------
(* Steps of the specification                                                *)

\* One end takes a step that OneInFlight allows, the other none.
LEMMA OneEnd ==
    ASSUME SeqInv, NEW n \in Node, NEW t, Allowed(node[n], t),
           node' = [node EXCEPT ![n] = t]
    PROVE  SeqInv' /\ \A m \in Node : Allowed(node[m], node'[m])
<1>1. DOMAIN node' = Node /\ node'[n] = t
      /\ \A m \in Node : m # n => node'[m] = node[m]
    BY DEF SeqInv
<1>2. \A m \in Node : Numbered(node[m])
    BY DEF SeqInv
<1>3. \A m \in Node : Allowed(node[m], node[m])
    BY <1>2 DEF Allowed, Numbered
<1> QED
    BY <1>1, <1>3 DEF SeqInv, Allowed

LEMMA Idle ==
    ASSUME SeqInv, node' = node
    PROVE  SeqInv' /\ \A m \in Node : Allowed(node[m], node'[m])
<1>1. \A m \in Node : Numbered(node[m])
    BY DEF SeqInv
<1> QED
    BY <1>1 DEF SeqInv, Allowed, Numbered

LEMMA CommandStep ==
    ASSUME SeqInv, NEW n \in Node,
           \/ \E f \in Features, x \in Settings : dcbx_clif_cmd(n, f, x)
           \/ set_arg_tlvtxenable(n)
    PROVE  SeqInv' /\ \A m \in Node : Allowed(node[m], node'[m])
<1> DEFINE s == node[n]
<1>0. Numbered(s) /\ DOMAIN node = Node
    BY DEF SeqInv
<1>1. ASSUME NEW f \in Features, NEW x \in Settings, dcbx_clif_cmd(n, f, x)
      PROVE  \E t : Steps(s, t) /\ node' = [node EXCEPT ![n] = t]
    <2>1. CASE f = "APP"
        <3>1. node' = [node EXCEPT ![n] = set_app_protocol_data(n, x, s)]
            BY <1>1, <2>1 DEF dcbx_clif_cmd
        <3> QED
            BY <1>0, <3>1, AppDataSteps
    <2>2. CASE f # "APP"
        <3> DEFINE t == TurnsOn(s.feat[f], x, s)
        <3>1. node' = [node EXCEPT ![n] = Put(n, f, x, t)]
            BY <1>1, <2>2 DEF dcbx_clif_cmd, set_protocol_data
        <3>2. Same(s, t)
            BY <1>0, TurnsOnKeeps
        <3> HIDE DEF t
        <3>3. Steps(t, Put(n, f, x, t))
            BY <3>2, PutSteps, FeaturesAssumption DEF Same
        <3>4. Steps(s, Put(n, f, x, t))
            BY <3>2, <3>3, SameThenSteps
        <3> QED
            BY <3>1, <3>4
    <2> QED
        BY <2>1, <2>2
<1>2. ASSUME set_arg_tlvtxenable(n)
      PROVE  \E t : Steps(s, t) /\ node' = [node EXCEPT ![n] = t]
    <2> DEFINE on == ~node[n].txon
               a == [s EXCEPT !.txon = on]
               b == dont_advertise_dcbx_all(n, on, a)
               c == [b EXCEPT !.tx = TRUE]
    <2>1. node' = [node EXCEPT ![n] = c]
        BY <1>2 DEF set_arg_tlvtxenable
    <2>2. Same(s, a)
        BY <1>0 DEF Same, Numbered
    <2> HIDE DEF a, on
    <2>3. Steps(a, b)
        BY <2>2, AdvertiseAllSteps DEF Same
    <2> HIDE DEF b
    <2>4. Same(b, c)
        BY <2>3 DEF Steps, Same, Numbered
    <2>5. Steps(s, c)
        BY <2>2, <2>3, <2>4, SameThenSteps, StepsThenSame
    <2> QED
        BY <2>1, <2>5
<1>3. PICK t : Steps(s, t) /\ node' = [node EXCEPT ![n] = t]
    BY <1>1, <1>2
<1>4. Allowed(node[n], t)
    BY <1>0, <1>3, StepsAllowed
<1> QED
    BY <1>3, <1>4, OneEnd

LEMMA FrameStep ==
    ASSUME SeqInv, NEW n \in Node,
           \/ Transmit(n) \/ Receive(n) \/ Lose(n) \/ Repeat(n) \/ Stranger(n)
           \/ StrangerGone(n) \/ Expire(n)
    PROVE  SeqInv' /\ \A m \in Node : Allowed(node[m], node'[m])
<1> DEFINE s == node[n]
<1>0. Numbered(s) /\ DOMAIN node = Node
    BY DEF SeqInv
<1>1. ASSUME NEW t, Same(s, t), node' = [node EXCEPT ![n] = t]
      PROVE  SeqInv' /\ \A m \in Node : Allowed(node[m], node'[m])
    BY <1>0, <1>1, SameSteps, StepsAllowed, OneEnd
<1>2. CASE Transmit(n)
    <2> DEFINE sent == [f \in Features |-> [s.feat[f] EXCEPT !.sent = TRUE]]
               a == [s EXCEPT !.tx = FALSE]
               b == [a EXCEPT !.feat = sent]
    <2>1. node' \in {[node EXCEPT ![n] = a], [node EXCEPT ![n] = b]}
        BY <1>0, <1>2 DEF Transmit
    <2>2. Same(s, a) /\ Same(s, b)
        BY <1>0 DEF Same, Numbered
    <2> HIDE DEF a, b
    <2> QED
        BY <1>1, <2>1, <2>2
<1>3. CASE Receive(n) \/ Stranger(n)
    <2>1. \E fr : node' = [node EXCEPT ![n] = Heard(n, fr)]
        BY <1>3 DEF Receive, Stranger
    <2> QED
        BY <1>0, <2>1, HeardAllowed, OneEnd
<1>4. CASE Lose(n) \/ Repeat(n)
    BY <1>4, Idle DEF Lose, Repeat
<1>5. CASE StrangerGone(n)
    <2> DEFINE a == [s EXCEPT !.many = FALSE]
    <2>1. node' = [node EXCEPT ![n] = a]
        BY <1>0, <1>5 DEF StrangerGone
    <2>2. Same(s, a)
        BY <1>0 DEF Same, Numbered
    <2> HIDE DEF a
    <2> QED
        BY <1>1, <2>1, <2>2
<1>6. CASE Expire(n)
    <2> DEFINE a == [s EXCEPT !.last = None, !.msap = None, !.many = FALSE]
    <2>1. node' = [node EXCEPT ![n] = dcbx_mibDeleteObjects(n, a)]
        BY <1>0, <1>6 DEF Expire
    <2>2. Same(s, a)
        BY <1>0 DEF Same, Numbered
    <2> HIDE DEF a
    <2>3. Allowed(s, dcbx_mibDeleteObjects(n, a))
        BY <2>2, DeleteAllowed, SameThenAllowed DEF Same
    <2> QED
        BY <2>1, <2>3, OneEnd
<1> QED
    BY <1>2, <1>3, <1>4, <1>5, <1>6

LEMMA RestartStep ==
    ASSUME SeqInv, NEW n \in Node,
           Replug(n) \/ \E saved \in BOOLEAN : Restart(n, saved)
    PROVE  SeqInv' /\ \A m \in Node : Allowed(node[m], node'[m])
<1>0. node[n].ctl.seq \in Nat
    BY DEF SeqInv, Numbered
<1>1. ASSUME NEW x, NEW hw, NEW seq \in {0, node[n].ctl.seq}, NEW ack, NEW act,
             node' = [node EXCEPT ![n] =
                        dcbx_add_adapter(n, x, hw, seq, ack, act)]
      PROVE  SeqInv' /\ \A m \in Node : Allowed(node[m], node'[m])
    <2> DEFINE t == dcbx_add_adapter(n, x, hw, seq, ack, act)
    <2>1. Numbered(t) /\ t.ctl.seq = seq
        BY <1>0, <1>1, AdapterNumbers
    <2>2. node' = [node EXCEPT ![n] = t]
        BY <1>1
    <2> HIDE DEF t
    <2>3. Allowed(node[n], t)
        BY <1>0, <1>1, <2>1 DEF Allowed
    <2> QED
        BY <2>2, <2>3, OneEnd
<1>2. CASE Replug(n)
    BY <1>1, <1>2 DEF Replug
<1>3. CASE \E saved \in BOOLEAN : Restart(n, saved)
    <2>1. PICK saved \in BOOLEAN : Restart(n, saved)
        BY <1>3
    <2> DEFINE st == save_dcbx_state(node[n], saved)
    <2>2. st.seq \in {0, node[n].ctl.seq}
        BY DEF save_dcbx_state
    <2> HIDE DEF st
    <2>3. node' = [node EXCEPT ![n] =
             dcbx_add_adapter(n, get_persistent(node[n]),
                              dcbx_free_app_config(node[n], saved),
                              st.seq, st.ack, node[n].active \/ n \in Forced)]
        BY <2>1 DEF Restart, st
    <2> QED
        BY <1>1, <2>2, <2>3
<1> QED
    BY <1>2, <1>3

\* A control machine of DCBX takes a sequence number only when its peer has
\* acknowledged the one before, and takes one at a time, for any features,
\* versions and settings of the two ends, whatever commands, lost and repeated
\* frames, strangers, expiries and restarts come in between and although a
\* command may run the machine several times (the label send of
\* run_control_protocol(), dont_advertise_dcbx_all()).
THEOREM OneNumberInFlight == Spec => OneInFlight
<1>1. Init => SeqInv
    <2> SUFFICES ASSUME Init PROVE SeqInv
        OBVIOUS
    <2>1. ASSUME NEW n \in Node PROVE Numbered(node[n])
        BY AdapterNumbers DEF Init
    <2> QED
        BY <2>1 DEF Init, SeqInv
<1>2. SeqInv /\ [Next]_vars =>
        SeqInv' /\ \A m \in Node : Allowed(node[m], node'[m])
    <2> SUFFICES ASSUME SeqInv, [Next]_vars
                 PROVE  SeqInv' /\ \A m \in Node : Allowed(node[m], node'[m])
        OBVIOUS
    <2>1. CASE UNCHANGED vars
        BY <2>1, Idle DEF vars
    <2>2. CASE Next
        BY <2>2, CommandStep, FrameStep, RestartStep DEF Next
    <2> QED
        BY <2>1, <2>2
<1> DEFINE Step == \A n \in Node :
                     node'[n].ctl.seq > node[n].ctl.seq
                       => /\ node[n].ctl.seq = node'[n].ctl.myack
                          /\ node'[n].ctl.seq = node[n].ctl.seq + 1
<1>3. SeqInv /\ [Next]_vars => SeqInv' /\ [Step]_vars
    BY <1>2 DEF Allowed
<1>4. Spec => [][Step]_vars
    BY <1>1, <1>3, PTL DEF Spec
<1> QED
    BY <1>4 DEF OneInFlight

-----------------------------------------------------------------------------
(* OperatesWithPeer                                                          *)

\* Both ends have the same DCB_MAX_VERSION, as two of this program do.
OneVersion == \A n, m \in Node : MaxVersion[n] = MaxVersion[m]

PortFields == {"active", "txon", "tx", "ctl", "peer", "feat", "pf", "many",
               "msap", "last", "bad"}
PeerFields == {"seq", "ack", "ver", "max", "rx", "many", "dup"}
FeatFields == {"state", "adv", "prev", "en", "will", "cfg", "syncd", "sent",
               "oper", "mode", "err", "fseq", "ver", "force", "hw"}
PeerFeatFields == {"present", "en", "will", "err", "ver", "max", "cfg", "dup"}

Local(l) == FeatFields \subseteq DOMAIN l
Remote(p) == PeerFeatFields \subseteq DOMAIN p

\* The stores of a port have their members.
Stores(s) ==
    /\ PortFields \subseteq DOMAIN s
    /\ CtlFields \subseteq DOMAIN s.ctl /\ PeerFields \subseteq DOMAIN s.peer
    /\ DOMAIN s.feat = Features /\ DOMAIN s.pf = Features
    /\ \A f \in Features : Local(s.feat[f]) /\ Remote(s.pf[f])

\* The feature l operates against what the peer said in p.
Works(l, p) == /\ l.state = "LISTEN" /\ l.adv /\ l.syncd /\ l.mode
               /\ ~l.force /\ l.ver = p.ver

\* While the peer's control version is v, what operates is what the peer
\* advertises and enables, and the peer is alone.
Backed(v, f, s) ==
    Works(s.feat[f], s.pf[f]) /\ s.peer.ver = v
        => s.pf[f].present /\ s.pf[f].en /\ ~s.peer.many

\* No feature has run yet.
Fresh(s) == \A f \in Features : s.feat[f].state = "INIT"

\* The version numbers that an end of version v has and hears of.
Versioned(v, s) == /\ s.ctl.state = "LISTEN" => s.ctl.ver = v
                   /\ s.peer.max = v

Machines == {"PFC", "PG", "APP"}

\* A port between two handlers.
PortInv(v, s) ==
    /\ Stores(s) /\ Versioned(v, s) /\ ~s.bad
    /\ s.ctl.state # "LISTEN" \/ ~s.active => Fresh(s)
    /\ \A f \in Features \cap Machines : Backed(v, f, s)

\* The inductive invariant of OperatesWithPeer.
PeerInv ==
    /\ DOMAIN node = Node /\ DOMAIN wire = Node
    /\ \A n \in Node :
         /\ PortInv(MaxVersion[n], node[n])
         /\ "seq" \in DOMAIN wire[n] => wire[n].max = MaxVersion[n]

-----------------------------------------------------------------------------
(* One feature                                                               *)

\* A change of a feature's store that leaves the machine's state and what is
\* advertised alone.
Moves(l, t) == /\ DOMAIN t = DOMAIN l /\ t.state = l.state /\ t.adv = l.adv

LEMMA HardwareKeeps ==
    ASSUME NEW n, NEW f, NEW ev, NEW l
    PROVE  LET t == set_configuration(n, f, ev, l)
           IN  /\ DOMAIN t = DOMAIN l
               /\ \A x \in DOMAIN l : x # "hw" => t[x] = l[x]
<1> DEFINE h == set_hw(f, l)
<1>1. set_configuration(n, f, ev, l) \in {l, [l EXCEPT !.hw = h]}
    BY DEF set_configuration
<1> HIDE DEF h
<1> QED
    BY <1>1

\* The members a proof below looks at.
LEMMA HardwareMembers ==
    ASSUME NEW n, NEW f, NEW ev, NEW l, Local(l)
    PROVE  LET t == set_configuration(n, f, ev, l)
           IN  /\ Moves(l, t) /\ Local(t)
               /\ t.syncd = l.syncd /\ t.mode = l.mode /\ t.force = l.force
               /\ t.ver = l.ver /\ t.err = l.err
BY HardwareKeeps DEF Local, FeatFields, Moves

\* F16 to F22 turn the feature on only with the mode they are given.
LEMMA TakeMoves ==
    ASSUME NEW n, NEW f, NEW l, NEW c, NEW m, Local(l)
    PROVE  LET t == Take(n, f, l, c, m)
           IN  Moves(l, t) /\ Local(t) /\ t.mode = m
<1> DEFINE t == [l EXCEPT !.oper = c, !.mode = m]
           u == [t EXCEPT !.syncd = IF subtype = 2 THEN ~l.err ELSE t.syncd,
                          !.err = subtype = 1 /\ ConfigFails(n, f, "remote", t)]
<1>1. Take(n, f, l, c, m) = set_configuration(n, f, "remote", u)
    BY DEF Take
<1>2. Local(u) /\ Moves(l, u) /\ u.mode = m
    BY DEF Local, FeatFields, Moves
<1> HIDE DEF u
<1> QED
    BY <1>1, <1>2, HardwareMembers DEF Moves

\* F23, F9.1, F8 and F6.2 turn it off.
LEMMA OffMoves ==
    ASSUME NEW n, NEW f, NEW l, Local(l)
    PROVE  \A t \in {Mismatch(n, f, l), Duplicate(n, f, l), NotPresent(n, f, l),
                     PeerExpired(n, f, l)} :
             Moves(l, t) /\ Local(t) /\ t.mode = FALSE
<1> DEFINE a == [l EXCEPT !.oper = l.cfg, !.mode = FALSE, !.err = TRUE,
                          !.syncd = IF subtype = 2 THEN l.err ELSE l.syncd]
           b == [l EXCEPT !.oper = l.cfg, !.mode = FALSE, !.err = TRUE,
                          !.force = TRUE]
           c == [l EXCEPT !.oper = l.cfg, !.mode = FALSE, !.syncd = TRUE,
                          !.ver = MaxVersion[n], !.err = subtype = 2]
           d == [l EXCEPT !.oper = l.cfg, !.mode = FALSE, !.syncd = FALSE,
                          !.err = TRUE, !.fseq = 1]
<1>1. /\ Mismatch(n, f, l) = set_configuration(n, f, "remote", a)
      /\ Duplicate(n, f, l) = set_configuration(n, f, "remote", b)
      /\ NotPresent(n, f, l) = set_configuration(n, f, "remote", c)
      /\ PeerExpired(n, f, l) = set_configuration(n, f, "remote", d)
    BY DEF Mismatch, Duplicate, NotPresent, PeerExpired
<1>2. \A u \in {a, b, c, d} : Local(u) /\ Moves(l, u) /\ u.mode = FALSE
    BY ZenonT(40) DEF Local, FeatFields, Moves
<1> HIDE DEF a, b, c, d
<1> QED
    BY <1>1, <1>2, HardwareMembers DEF Moves

\* F15 to F23 leave the feature on only when the peer enables it too.
LEMMA NegotiateBacked ==
    ASSUME NEW n, NEW f, NEW l, NEW p, Local(l)
    PROVE  LET t == Negotiate(n, f, l, p)
           IN  Moves(l, t) /\ Local(t) /\ (t.mode => p.en)
<1>1. \/ Negotiate(n, f, l, p) = Take(n, f, l, l.cfg, FALSE)
      \/ p.en /\ Negotiate(n, f, l, p) \in
            {Take(n, f, l, l.cfg, FALSE), Take(n, f, l, p.cfg, TRUE),
             Take(n, f, l, l.cfg, subtype = 1 \/ ~p.err), Mismatch(n, f, l)}
    BY DEF Negotiate
<1> DEFINE t == Negotiate(n, f, l, p)
           off == FALSE
           on == TRUE
           m == subtype = 1 \/ ~p.err
           a == Take(n, f, l, l.cfg, off)
           b == Take(n, f, l, p.cfg, on)
           c == Take(n, f, l, l.cfg, m)
           d == Mismatch(n, f, l)
<1>2. t = a \/ (p.en /\ t \in {a, b, c, d})
    BY <1>1
<1>3. off = FALSE
    OBVIOUS
<1> HIDE DEF t, off, on, m
<1>4. /\ Moves(l, a) /\ Local(a) /\ a.mode = off
      /\ Moves(l, b) /\ Local(b) /\ Moves(l, c) /\ Local(c)
    BY TakeMoves
<1>5. Moves(l, d) /\ Local(d)
    BY OffMoves
<1> HIDE DEF a, b, c, d
<1> QED
    BY <1>2, <1>3, <1>4, <1>5 DEF t

\* ErrProt turns nothing on.
LEMMA ErrProtKeeps ==
    ASSUME NEW n, NEW f, NEW l, NEW t, NEW p, NEW seq, Local(t)
    PROVE  LET e == ErrProt(n, f, l, t, p, seq)
           IN  Moves(t, e) /\ Local(e) /\ (e.mode => t.mode)
<1> DEFINE off == subtype = 1 /\ (t.err \/ p.err) /\ t.mode
           a == [t EXCEPT !.mode = FALSE]
           u == IF off THEN set_configuration(n, f, "remote", a) ELSE t
           e == [u EXCEPT !.fseq = seq + 1,
                          !.syncd = IF subtype = 1 THEN FALSE ELSE u.syncd]
<1>1. Local(a) /\ Moves(t, a) /\ a.mode = FALSE
    BY DEF Local, FeatFields, Moves
<1> HIDE DEF a
<1>2. Moves(t, u) /\ Local(u) /\ (u.mode => t.mode)
    BY <1>1, HardwareMembers DEF Moves
<1>3. ErrProt(n, f, l, t, p, seq) \in {u, e}
    BY DEF ErrProt, a
<1> HIDE DEF u
<1>4. Moves(t, e) /\ Local(e) /\ (e.mode => t.mode)
    BY <1>2 DEF Local, FeatFields, Moves
<1> HIDE DEF e
<1> QED
    BY <1>2, <1>3, <1>4

\* A remote change, with the versions agreed: what operates afterwards is
\* what the peer advertises and enables.
LEMMA RemoteBacked ==
    ASSUME NEW n, NEW f, NEW l, NEW p, NEW peer, NEW seq, Local(l)
    PROVE  LET t == RemoteChange(n, f, l, p, peer, seq)
           IN  Moves(l, t) /\ Local(t) /\ (Works(t, p) => p.present /\ p.en)
<1> DEFINE ver == MinV(p.max, MaxVersion[n])
           s == [l EXCEPT !.syncd = TRUE]
           w == [l EXCEPT !.ver = ver, !.syncd = FALSE, !.fseq = seq + 1]
           E(u) == ErrProt(n, f, l, u, p, seq)
           t == RemoteChange(n, f, l, p, peer, seq)
           d == Duplicate(n, f, l)
           g == Negotiate(n, f, s, p)
           x == PeerExpired(n, f, l)
           y == NotPresent(n, f, l)
<1>1. /\ Apply(LAMBDA u : ErrProt(n, f, l, u, p, seq), d) = E(d)
      /\ Apply(LAMBDA u : ErrProt(n, f, l, u, p, seq), g) = E(g)
    <2> HIDE DEF d, g
    <2>1. ASSUME NEW v PROVE {E(u) : u \in {v}} = {E(v)}
        OBVIOUS
    <2> HIDE DEF E
    <2>2. ASSUME NEW v PROVE (CHOOSE e \in {E(u) : u \in {v}} : TRUE) = E(v)
        BY <2>1, ChooseOnly
    <2> QED
        BY <2>2 DEF Apply, E
<1>2. \/ t = x \/ t = y
      \/ p.present /\ \/ t = l /\ ~l.syncd
                      \/ t = E(d) \/ t = w
                      \/ t = s /\ l.ver = ver /\ p.ver # ver
                      \/ t = E(g)
    BY <1>1 DEF RemoteChange
<1>3. /\ Moves(l, s) /\ Local(s) /\ s.ver = l.ver
      /\ Moves(l, w) /\ Local(w) /\ w.syncd = FALSE
    BY DEF Local, FeatFields, Moves
<1> HIDE DEF s, w, ver
<1>4. /\ Moves(l, d) /\ Local(d) /\ d.mode = FALSE
      /\ Moves(l, x) /\ Local(x) /\ x.mode = FALSE
      /\ Moves(l, y) /\ Local(y) /\ y.mode = FALSE
    BY OffMoves
<1>5. Moves(s, g) /\ Local(g) /\ (g.mode => p.en)
    BY <1>3, NegotiateBacked
<1> HIDE DEF d, g, x, y
<1>6. /\ Moves(d, E(d)) /\ Local(E(d)) /\ (E(d).mode => d.mode)
      /\ Moves(g, E(g)) /\ Local(E(g)) /\ (E(g).mode => g.mode)
    BY <1>4, <1>5, ErrProtKeeps
<1> DEFINE ed == E(d)
           eg == E(g)
<1>7. /\ Moves(d, ed) /\ Local(ed) /\ (ed.mode => d.mode)
      /\ Moves(g, eg) /\ Local(eg) /\ (eg.mode => g.mode)
    BY <1>6
<1>8. \/ t = x \/ t = y
      \/ p.present /\ \/ t = l /\ ~l.syncd
                      \/ t = ed \/ t = w
                      \/ t = s /\ l.ver = ver /\ p.ver # ver
                      \/ t = eg
    BY <1>2
<1> HIDE DEF E, ed, eg, t
<1>9. Moves(l, t) /\ Local(t)
    BY <1>3, <1>4, <1>5, <1>7, <1>8 DEF Moves
<1>10. Works(t, p) => p.present /\ p.en
    BY <1>3, <1>4, <1>5, <1>7, <1>8 DEF Works
<1> QED
    BY <1>9, <1>10 DEF t

\* State DCB_INIT: the feature is not in operation when it enters DCB_LISTEN.
LEMMA EnterMoves ==
    ASSUME NEW n, NEW l, NEW seq, Local(l)
    PROVE  LET i == EnterListen(n, l, seq)
           IN  /\ Local(i)
               /\ l.state = "INIT" => ~i.mode
               /\ l.state # "INIT" => i = l
BY DEF EnterListen, Local, FeatFields

\* A local change leaves an advertised feature out of sync.
LEMMA LocalMoves ==
    ASSUME NEW l, NEW seq, Local(l)
    PROVE  LET t == LocalChange(l, seq)
           IN  /\ Moves(l, t) /\ Local(t) /\ t.mode = l.mode
               /\ t.adv => ~t.syncd
BY DEF LocalChange, Local, FeatFields, Moves

\* State DCB_LISTEN.
LEMMA ListenBacked ==
    ASSUME NEW n, NEW f, NEW ev, NEW added, NEW p, NEW s, NEW l, Local(l)
    PROVE  LET t == Listen(n, f, ev, added, p, s, l)
           IN  /\ Moves(l, t) /\ Local(t)
               /\ Works(t, p) => \/ Works(l, p) /\ (ev = "remote" => added \/ ~CtrlVersionOK(n, s))
                                 \/ ev = "remote" /\ p.present /\ p.en
<1> DEFINE a == [l EXCEPT !.oper = l.cfg, !.err = FALSE, !.mode = l.en]
           b == [l EXCEPT !.oper = l.cfg]
           t == Listen(n, f, ev, added, p, s, l)
           r == RemoteChange(n, f, l, p, s.peer, s.ctl.seq)
           ha == set_configuration(n, f, ev, a)
           hb == set_configuration(n, f, ev, b)
<1>1. \/ ~l.adv /\ t = ha
      \/ l.adv /\ added /\ t = hb
      \/ ev = "remote" /\ t = r
      \/ (ev = "remote" => ~CtrlVersionOK(n, s)) /\ t = l
    BY DEF Listen, NotAdvertised
<1>2. /\ Local(a) /\ Moves(l, a)
      /\ Local(b) /\ Moves(l, b) /\ b.syncd = l.syncd /\ b.mode = l.mode
      /\ b.force = l.force /\ b.ver = l.ver
    BY DEF Local, FeatFields, Moves
<1> HIDE DEF a, b
<1>3. /\ Moves(l, ha) /\ Local(ha)
      /\ Moves(l, hb) /\ Local(hb)
      /\ hb.syncd = l.syncd /\ hb.mode = l.mode
      /\ hb.force = l.force /\ hb.ver = l.ver
    BY <1>2, HardwareMembers DEF Moves
<1>4. Moves(l, r) /\ Local(r) /\ (Works(r, p) => p.present /\ p.en)
    BY RemoteBacked
<1> HIDE DEF ha, hb, r, t
<1>5. Moves(l, t) /\ Local(t)
    BY <1>1, <1>3, <1>4 DEF Moves
<1>6. CASE ~l.adv /\ t = ha
    BY <1>3, <1>5, <1>6 DEF Works, Moves, t
<1>7. CASE l.adv /\ added /\ t = hb
    BY <1>3, <1>5, <1>7 DEF Works, Moves, t
<1>8. CASE ev = "remote" /\ t = r
    BY <1>4, <1>5, <1>8 DEF t
<1>9. CASE (ev = "remote" => ~CtrlVersionOK(n, s)) /\ t = l
    BY <1>5, <1>9 DEF t
<1> QED
    BY <1>1, <1>6, <1>7, <1>8, <1>9

-----------------------------------------------------------------------------
(* All features of a port                                                    *)

\* What a run of feature f leaves alone.
OnlyFeature(f, s, t) ==
    /\ Stores(t)
    /\ t.ctl = s.ctl /\ t.peer = s.peer /\ t.active = s.active
    /\ \A g \in Features : g # f => t.feat[g] = s.feat[g] /\ t.pf[g] = s.pf[g]

Early(f, s) == s.ctl.state # "LISTEN" => s.feat[f].state = "INIT"

\* Between ends of one version the control versions agree as soon as the
\* control machine of the peer has run too.
LEMMA VersionsAgree ==
    ASSUME NEW n, NEW s, Versioned(MaxVersion[n], s), s.ctl.state = "LISTEN"
    PROVE  CtrlVersionOK(n, s) <=> s.peer.ver = MaxVersion[n]
BY DEF Versioned, CtrlVersionOK, MinV

LEMMA FeatureBacked ==
    ASSUME NEW n, NEW f \in Features, NEW ev \in {"local", "remote"}, NEW s,
           Stores(s), Versioned(MaxVersion[n], s), Early(f, s)
    PROVE  LET t == run_feature_protocol(n, f, ev, s)
           IN  /\ OnlyFeature(f, s, t)
               /\ t.bad => ~CtrlVersionOK(n, t)
               /\ Backed(MaxVersion[n], f, t)
<1> DEFINE p == IF s.peer.many THEN [s.pf[f] EXCEPT !.present = FALSE]
                ELSE s.pf[f]
           i == EnterListen(n, s.feat[f], s.ctl.seq)
           l == IF ev = "local" THEN LocalChange(i, s.ctl.seq) ELSE i
           added == f = "PFC" /\ ev = "local" /\ s.feat[f].state = "INIT"
           L(u) == Listen(n, f, ev, added, p, s, u)
           x == L(l)
           bad == ev = "remote" /\ s.feat[f].adv /\ ~CtrlVersionOK(n, s)
           t == run_feature_protocol(n, f, ev, s)
<1>1. Apply(LAMBDA u : Listen(n, f, ev, added, p, s, u), l) = x
    <2> HIDE DEF l, p, added
    <2>1. {L(u) : u \in {l}} = {L(l)}
        OBVIOUS
    <2> HIDE DEF L
    <2>2. (CHOOSE e \in {L(u) : u \in {l}} : TRUE) = L(l)
        BY <2>1, ChooseOnly
    <2> QED
        BY <2>2 DEF Apply, L
<1>2. t = [s EXCEPT !.feat[f] = x, !.pf[f] = p, !.bad = bad]
    BY <1>1 DEF run_feature_protocol
<1>3. Local(s.feat[f]) /\ Remote(s.pf[f])
    BY DEF Stores
<1>4. Remote(p) /\ (p.present => ~s.peer.many)
    BY <1>3 DEF Remote, PeerFeatFields
<1>5. /\ Local(i)
      /\ s.feat[f].state = "INIT" => ~i.mode
      /\ s.feat[f].state # "INIT" => i = s.feat[f]
    <2> DEFINE o == s.feat[f]
               seq == s.ctl.seq
    <2>1. Local(o)
        BY <1>3
    <2> HIDE DEF o, seq
    <2>2. /\ Local(EnterListen(n, o, seq))
          /\ o.state = "INIT" => ~EnterListen(n, o, seq).mode
          /\ o.state # "INIT" => EnterListen(n, o, seq) = o
        BY <2>1, EnterMoves
    <2> QED
        BY <2>2 DEF o, seq
<1>6. /\ Local(l) /\ l.mode = i.mode
      /\ ev = "local" /\ l.adv => ~l.syncd
    <2> HIDE DEF i
    <2> QED
        BY <1>5, LocalMoves
<1>7. ev = "remote" => ~added
    OBVIOUS
<1> HIDE DEF l, p, added
<1>8. /\ Local(x)
      /\ Works(x, p) =>
           \/ Works(l, p) /\ (ev = "remote" => added \/ ~CtrlVersionOK(n, s))
           \/ ev = "remote" /\ p.present /\ p.en
    BY <1>6, ListenBacked
<1>9. Works(x, p) /\ s.peer.ver = MaxVersion[n] => p.present /\ p.en
    <2> SUFFICES ASSUME Works(l, p), s.peer.ver = MaxVersion[n],
                        ev = "remote" => ~CtrlVersionOK(n, s)
                 PROVE  FALSE
        BY <1>7, <1>8
    <2>1. ev = "remote"
        BY <1>6 DEF Works
    <2>2. s.feat[f].state # "INIT"
        BY <1>5, <1>6 DEF Works
    <2>3. s.ctl.state = "LISTEN"
        BY <2>2 DEF Early
    <2> QED
        BY <2>1, <2>3, VersionsAgree
<1> HIDE DEF x, bad, t
<1>10. /\ DOMAIN t = DOMAIN s
       /\ t.feat = [s.feat EXCEPT ![f] = x] /\ t.pf = [s.pf EXCEPT ![f] = p]
       /\ t.ctl = s.ctl /\ t.peer = s.peer /\ t.active = s.active /\ t.bad = bad
    BY <1>2 DEF Stores, PortFields
<1>11. t.feat[f] = x /\ t.pf[f] = p
       /\ \A g \in Features : g # f => t.feat[g] = s.feat[g] /\ t.pf[g] = s.pf[g]
    BY <1>10 DEF Stores
<1>12. Stores(t)
    BY <1>4, <1>8, <1>10, <1>11 DEF Stores
<1>13. OnlyFeature(f, s, t)
    BY <1>10, <1>11, <1>12 DEF OnlyFeature
<1>14. t.bad => ~CtrlVersionOK(n, t)
    BY <1>10 DEF bad, CtrlVersionOK
<1>15. Backed(MaxVersion[n], f, t)
    BY <1>4, <1>9, <1>10, <1>11 DEF Backed
<1> QED
    BY <1>13, <1>14, <1>15 DEF t

\* A feature runs unless an earlier one found that the versions differ.
LEMMA RunFeatureBacked ==
    ASSUME NEW n, NEW f, NEW ev \in {"local", "remote"}, NEW fs \in SUBSET Features,
           NEW s, Stores(s), Versioned(MaxVersion[n], s), f \in Features => Early(f, s),
           s.bad => ~CtrlVersionOK(n, s)
    PROVE  LET t == RunFeature(n, f, ev, fs, s)
           IN  /\ OnlyFeature(f, s, t)
               /\ t.bad => ~CtrlVersionOK(n, t)
               /\ f # "LLINK" /\ (f \in fs \/ Backed(MaxVersion[n], f, s))
                    => Backed(MaxVersion[n], f, t)
<1> DEFINE Run(u) == IF u.bad THEN u ELSE run_feature_protocol(n, f, ev, u)
           t == RunFeature(n, f, ev, fs, s)
<1>1. {Run(u) : u \in {s}} = {Run(s)}
    OBVIOUS
<1> HIDE DEF Run
<1>2. (CHOOSE e \in {Run(u) : u \in {s}} : TRUE) = Run(s)
    BY <1>1, ChooseOnly
<1>3. t = IF f \notin fs \/ (f = "LLINK" /\ ev = "local") THEN s ELSE Run(s)
    BY <1>2 DEF RunFeature, Apply, Run
<1> HIDE DEF t
<1>4. OnlyFeature(f, s, s)
    BY DEF OnlyFeature
<1>5. CASE t = s /\ (f \in fs /\ f # "LLINK" => s.bad)
    <2>1. f \in fs /\ f # "LLINK" => Backed(MaxVersion[n], f, s)
        <3> SUFFICES ASSUME f \in fs, s.bad, Works(s.feat[f], s.pf[f])
                     PROVE  s.peer.ver # MaxVersion[n]
            BY <1>5 DEF Backed
        <3>1. s.ctl.state = "LISTEN"
            BY DEF Works, Early
        <3> QED
            BY <3>1, VersionsAgree
    <2> QED
        BY <1>4, <1>5, <2>1 DEF t
<1>6. CASE t = run_feature_protocol(n, f, ev, s) /\ f \in Features
    BY <1>6, FeatureBacked DEF t
<1> QED
    BY <1>3, <1>5, <1>6 DEF Run

-----------------------------------------------------------------------------
(* The control machine                                                       *)

\* What the control machine does to the features: it counts as synchronised
\* what is not advertised or has seen a duplicate, and no more.
Answers(s, t) ==
    /\ Stores(t)
    /\ t.active = s.active /\ t.bad = s.bad /\ t.pf = s.pf
    /\ t.peer.ver = s.peer.ver /\ t.peer.max = s.peer.max
    /\ t.peer.many = s.peer.many
    /\ \A f \in Features :
         /\ t.feat[f].state = s.feat[f].state /\ t.feat[f].adv = s.feat[f].adv
         /\ t.feat[f].mode = s.feat[f].mode /\ t.feat[f].force = s.feat[f].force
         /\ t.feat[f].ver = s.feat[f].ver
         /\ t.feat[f].syncd => s.feat[f].syncd \/ ~s.feat[f].adv \/ s.feat[f].force

LEMMA AnswersCompose ==
    ASSUME NEW s, NEW t, NEW u, Answers(s, t), Answers(t, u)
    PROVE  Answers(s, u)
BY DEF Answers

LEMMA AnswersBacked ==
    ASSUME NEW s, NEW t, NEW v, NEW f \in Features, Answers(s, t), Backed(v, f, s)
    PROVE  Backed(v, f, t)
<1> DEFINE a == s.feat[f]
           b == t.feat[f]
<1>1. /\ b.state = a.state /\ b.adv = a.adv /\ b.mode = a.mode
      /\ b.force = a.force /\ b.ver = a.ver
      /\ b.syncd => a.syncd \/ ~a.adv \/ a.force
      /\ t.pf = s.pf /\ t.peer.ver = s.peer.ver /\ t.peer.many = s.peer.many
    BY DEF Answers
<1>2. ASSUME NEW p, Works(b, p) PROVE Works(a, p)
    <2> HIDE DEF a, b
    <2> QED
        BY <1>1, <1>2 DEF Works
<1> QED
    BY <1>1, <1>2 DEF Backed

\* A change of the numbers, of the wish to transmit and of LLDP's own state.
Aside == {"ctl", "tx", "txon", "last", "msap", "many"}

LEMMA CtlAnswers ==
    ASSUME NEW s, Stores(s), NEW t, DOMAIN t = DOMAIN s,
           \A x \in DOMAIN s : x \notin Aside => t[x] = s[x],
           CtlFields \subseteq DOMAIN t.ctl
    PROVE  Answers(s, t)
<1>1. /\ t.active = s.active /\ t.bad = s.bad /\ t.pf = s.pf
      /\ t.peer = s.peer /\ t.feat = s.feat
    BY DEF Stores, PortFields, Aside
<1>2. Stores(t)
    BY <1>1 DEF Stores
<1> QED
    BY <1>1, <1>2 DEF Answers

LEMMA SyncAnswers ==
    ASSUME NEW s, Stores(s)
    PROVE  LET t == update_feature_syncd(s)
           IN  Answers(s, t) /\ t.ctl = s.ctl
<1> DEFINE t == update_feature_syncd(s)
           U(f) == [s.feat[f] EXCEPT
                      !.syncd = @ \/ ~s.feat[f].adv \/ s.feat[f].force]
           fs == [f \in Features |-> U(f)]
<1>1. t = [s EXCEPT !.feat = fs]
    BY DEF update_feature_syncd
<1>2. ASSUME NEW f \in Features
      PROVE  /\ Local(U(f))
             /\ U(f).state = s.feat[f].state /\ U(f).adv = s.feat[f].adv
             /\ U(f).mode = s.feat[f].mode /\ U(f).force = s.feat[f].force
             /\ U(f).ver = s.feat[f].ver
             /\ U(f).syncd => s.feat[f].syncd \/ ~s.feat[f].adv \/ s.feat[f].force
    <2>1. Local(s.feat[f])
        BY DEF Stores
    <2> QED
        BY <2>1 DEF Local, FeatFields
<1>3. /\ DOMAIN fs = Features /\ \A f \in Features : fs[f] = U(f)
    OBVIOUS
<1> HIDE DEF t, U, fs
<1>4. /\ DOMAIN t = DOMAIN s /\ t.ctl = s.ctl
      /\ t.active = s.active /\ t.bad = s.bad /\ t.pf = s.pf
      /\ t.peer = s.peer /\ t.feat = fs
    BY <1>1 DEF Stores, PortFields
<1>5. Stores(t)
    BY <1>2, <1>3, <1>4 DEF Stores
<1>6. Answers(s, t)
    BY <1>2, <1>3, <1>4, <1>5 DEF Answers
<1> QED
    BY <1>4, <1>6 DEF t

\* The label send changes SeqNo and keeps the state and the version.
LEMMA SendAnswers ==
    ASSUME NEW s, NEW again, Stores(s)
    PROVE  LET t == Send(s, again)
           IN  Answers(s, t) /\ t.ctl.state = s.ctl.state /\ t.ctl.ver = s.ctl.ver
<1> DEFINE u == update_feature_syncd(s)
           a == [u EXCEPT !.ctl.seq = @ + 1, !.tx = TRUE]
           b == [s EXCEPT !.tx = @ \/ again]
           t == Send(s, again)
<1>1. Answers(s, u) /\ u.ctl = s.ctl /\ Stores(u)
    BY SyncAnswers DEF Answers
<1>2. t \in {a, b}
    BY DEF Send
<1> HIDE DEF u, t
<1>3. /\ DOMAIN a = DOMAIN u
      /\ \A x \in DOMAIN u : x \notin Aside => a[x] = u[x]
      /\ CtlFields \subseteq DOMAIN a.ctl
      /\ a.ctl.state = s.ctl.state /\ a.ctl.ver = s.ctl.ver
    BY <1>1 DEF Stores, PortFields, CtlFields, Aside
<1>4. /\ DOMAIN b = DOMAIN s
      /\ \A x \in DOMAIN s : x \notin Aside => b[x] = s[x]
      /\ CtlFields \subseteq DOMAIN b.ctl /\ b.ctl = s.ctl
    BY DEF Stores, PortFields, Aside
<1> HIDE DEF a, b
<1>5. Answers(u, a)
    BY <1>1, <1>3, CtlAnswers
<1>6. Answers(s, b)
    BY <1>4, CtlAnswers
<1>7. Answers(s, a)
    BY <1>1, <1>5, AnswersCompose
<1> QED
    BY <1>2, <1>3, <1>4, <1>6, <1>7 DEF t

\* A neighbour that has aged out, and the frame of one that has not.
LEMMA ExpiredAnswers ==
    ASSUME NEW n, NEW s, Stores(s)
    PROVE  LET t == Expired(n, s)
           IN  /\ Answers(s, t)
               /\ t.ctl.state = s.ctl.state /\ t.ctl.ver = MaxVersion[n]
<1> DEFINE r == [s EXCEPT !.ctl.seq = 0, !.ctl.ack = 0, !.ctl.myack = 0,
                          !.ctl.ver = MaxVersion[n], !.peer.rx = "RESET"]
           t == Expired(n, s)
<1>1. t = IF subtype = 2 THEN r ELSE Apply(LAMBDA u : Send(u, TRUE), r)
    BY DEF Expired
<1>2. /\ DOMAIN r = DOMAIN s
      /\ r.active = s.active /\ r.bad = s.bad /\ r.pf = s.pf /\ r.feat = s.feat
      /\ PeerFields \subseteq DOMAIN r.peer /\ CtlFields \subseteq DOMAIN r.ctl
      /\ r.peer.ver = s.peer.ver /\ r.peer.max = s.peer.max
      /\ r.peer.many = s.peer.many
      /\ r.ctl.state = s.ctl.state /\ r.ctl.ver = MaxVersion[n]
    BY DEF Stores, PortFields, PeerFields, CtlFields
<1> HIDE DEF r
<1>3. Stores(r)
    BY <1>2 DEF Stores
<1>4. Answers(s, r)
    BY <1>2, <1>3 DEF Answers
<1> DEFINE u == Send(r, TRUE)
<1>5. t \in {r, u}
    BY <1>1, SendApplied
<1>6. Answers(r, u) /\ u.ctl.state = r.ctl.state /\ u.ctl.ver = r.ctl.ver
    BY <1>3, SendAnswers
<1> HIDE DEF t, u
<1>7. Answers(s, u)
    BY <1>4, <1>6, AnswersCompose
<1> QED
    BY <1>2, <1>4, <1>5, <1>6, <1>7 DEF t

LEMMA AcknowledgeAnswers ==
    ASSUME NEW s, Stores(s)
    PROVE  LET t == Acknowledge(s)
           IN  /\ Answers(s, t)
               /\ t.ctl.state = s.ctl.state /\ t.ctl.ver = s.ctl.ver
<1> DEFINE r == [s EXCEPT !.ctl.myack = s.peer.ack]
           ack == (s.ctl.ack # s.peer.seq \/ s.peer.ack = 0) /\ ~s.peer.many
           q == [r EXCEPT !.ctl.ack = IF ack THEN s.peer.seq ELSE r.ctl.ack]
           t == Acknowledge(s)
<1>1. t = Apply(LAMBDA u : Send(u, ack), q)
    BY DEF Acknowledge
<1>2. /\ DOMAIN r = DOMAIN s
      /\ \A x \in DOMAIN s : x # "ctl" => r[x] = s[x]
      /\ CtlFields \subseteq DOMAIN r.ctl
      /\ r.ctl.state = s.ctl.state /\ r.ctl.ver = s.ctl.ver
    BY DEF Stores, PortFields, CtlFields
<1> HIDE DEF r, ack
<1>3. /\ DOMAIN q = DOMAIN s
      /\ \A x \in DOMAIN s : x \notin Aside => q[x] = s[x]
      /\ CtlFields \subseteq DOMAIN q.ctl
      /\ q.ctl.state = s.ctl.state /\ q.ctl.ver = s.ctl.ver
    BY <1>2 DEF Stores, PortFields, CtlFields, Aside
<1> HIDE DEF q
<1>4. Answers(s, q) /\ Stores(q)
    BY <1>3, CtlAnswers DEF Answers
<1> DEFINE u == Send(q, ack)
<1>5. t = u
    BY <1>1, SendApplied
<1>6. Answers(q, u) /\ u.ctl.state = q.ctl.state /\ u.ctl.ver = q.ctl.ver
    BY <1>4, SendAnswers
<1> HIDE DEF t, u
<1>7. Answers(s, u)
    BY <1>4, <1>6, AnswersCompose
<1> QED
    BY <1>3, <1>5, <1>6, <1>7 DEF t

\* After the control machine the port listens with its own version.
LEMMA ControlAnswers ==
    ASSUME NEW n, NEW ev, NEW s, Stores(s), Versioned(MaxVersion[n], s)
    PROVE  LET t == run_control_protocol(n, ev, s)
           IN  /\ Answers(s, t)
               /\ t.ctl.state = "LISTEN" /\ t.ctl.ver = MaxVersion[n]
<1> DEFINE c == IF s.ctl.state = "LISTEN" THEN s
                ELSE [s EXCEPT !.ctl.state = "LISTEN",
                               !.ctl.ver = MaxVersion[n]]
           ver == MinV(c.peer.max, MaxVersion[n])
           d(again) == [c EXCEPT !.ctl.ver = IF again THEN ver ELSE c.ctl.ver]
           t == run_control_protocol(n, ev, s)
<1>1. t \in {Apply(LAMBDA u : Send(u, TRUE), d(TRUE)),
             Apply(LAMBDA u : Send(u, FALSE), d(FALSE)),
             Expired(n, c), Acknowledge(c)}
    BY DEF run_control_protocol
<1>2. /\ DOMAIN c = DOMAIN s
      /\ \A x \in DOMAIN s : x \notin Aside => c[x] = s[x]
      /\ CtlFields \subseteq DOMAIN c.ctl
      /\ c.ctl.state = "LISTEN" /\ c.ctl.ver = MaxVersion[n]
    BY DEF Stores, PortFields, CtlFields, Versioned, Aside
<1>3. ver = MaxVersion[n]
    BY DEF Stores, PortFields, Versioned, MinV
<1> HIDE DEF c, ver
<1>4. Answers(s, c) /\ Stores(c)
    BY <1>2, CtlAnswers DEF Answers
<1>5. ASSUME NEW again
      PROVE  /\ DOMAIN d(again) = DOMAIN s
             /\ \A x \in DOMAIN s : x \notin Aside => d(again)[x] = s[x]
             /\ CtlFields \subseteq DOMAIN d(again).ctl
             /\ d(again).ctl.state = "LISTEN" /\ d(again).ctl.ver = MaxVersion[n]
    BY <1>2, <1>3, <1>4 DEF Stores, PortFields, CtlFields, Aside
<1> DEFINE yes == TRUE
           no == FALSE
           a == d(yes)
           b == d(no)
<1>6. \A x \in {a, b} : /\ Answers(s, x) /\ Stores(x)
                        /\ x.ctl.state = "LISTEN" /\ x.ctl.ver = MaxVersion[n]
    <2> HIDE DEF d, yes, no
    <2>1. ASSUME NEW again PROVE Answers(s, d(again)) /\ Stores(d(again))
        BY <1>5, CtlAnswers DEF Answers
    <2> QED
        BY <1>5, <2>1
<1> HIDE DEF a, b
<1> DEFINE sa == Send(a, TRUE)
           sb == Send(b, FALSE)
           e == Expired(n, c)
           k == Acknowledge(c)
<1>7. t \in {sa, sb, e, k}
    BY <1>1, SendApplied DEF a, b
<1>8. /\ Answers(a, sa) /\ sa.ctl.state = a.ctl.state /\ sa.ctl.ver = a.ctl.ver
      /\ Answers(b, sb) /\ sb.ctl.state = b.ctl.state /\ sb.ctl.ver = b.ctl.ver
    BY <1>6, SendAnswers
<1>9. /\ Answers(c, e) /\ e.ctl.state = c.ctl.state /\ e.ctl.ver = MaxVersion[n]
      /\ Answers(c, k) /\ k.ctl.state = c.ctl.state /\ k.ctl.ver = c.ctl.ver
    BY <1>4, ExpiredAnswers, AcknowledgeAnswers
<1> HIDE DEF sa, sb, e, k, t
<1>10. \A x \in {sa, sb, e, k} :
         Answers(s, x) /\ x.ctl.state = "LISTEN" /\ x.ctl.ver = MaxVersion[n]
    BY <1>2, <1>4, <1>6, <1>8, <1>9, AnswersCompose
<1> QED
    BY <1>7, <1>10 DEF t

-----------------------------------------------------------------------------
(* Handlers                                                                  *)

\* A port when the machines are called for the features in fs: what does not
\* run is in order already.
Called(v, fs, s) ==
    /\ Stores(s) /\ Versioned(v, s) /\ ~s.bad
    /\ s.ctl.state # "LISTEN" \/ ~s.active => Fresh(s)
    /\ \A f \in Features \cap Machines : f \in fs \/ Backed(v, f, s)

\* The machines leave the port in order.
LEMMA ProtocolBacked ==
    ASSUME NEW n, NEW fs \in SUBSET Features, NEW ev \in {"local", "remote"},
           NEW s, Called(MaxVersion[n], fs, s)
    PROVE  PortInv(MaxVersion[n], run_dcb_protocol(n, fs, ev, s))
<1> DEFINE v == MaxVersion[n]
           a == RunFeature(n, "PFC", ev, fs, s)
           b == RunFeature(n, "PG", ev, fs, a)
           c == RunFeature(n, "APP", ev, fs, b)
           t == RunFeature(n, "LLINK", ev, fs, c)
           q == [t EXCEPT !.bad = FALSE]
           Run(u) == run_control_protocol(n, ev, u)
           r == run_dcb_protocol(n, fs, ev, s)
<1>1. CASE ~s.active
    <2>1. r = s
        BY <1>1 DEF run_dcb_protocol
    <2>2. \A f \in Features \cap Machines : Backed(v, f, s)
        BY <1>1 DEF Called, Fresh, Backed, Works
    <2> QED
        BY <2>1, <2>2 DEF Called, PortInv
<1>2. CASE s.active
    <2>0. /\ Stores(s) /\ Versioned(v, s) /\ ~s.bad
          /\ \A f \in Features : Early(f, s)
          /\ \A f \in Features \cap Machines : f \in fs \/ Backed(v, f, s)
        BY DEF Called, Early, Fresh
    <2>1. /\ OnlyFeature("PFC", s, a) /\ (a.bad => ~CtrlVersionOK(n, a))
          /\ "PFC" \in fs \/ Backed(v, "PFC", s) => Backed(v, "PFC", a)
        BY <2>0, RunFeatureBacked
    <2> HIDE DEF a
    <2>2. Stores(a) /\ Versioned(v, a) /\ ("PG" \in Features => Early("PG", a))
        BY <2>0, <2>1 DEF OnlyFeature, Versioned, Early
    <2>3. /\ OnlyFeature("PG", a, b) /\ (b.bad => ~CtrlVersionOK(n, b))
          /\ "PG" \in fs \/ Backed(v, "PG", a) => Backed(v, "PG", b)
        BY <2>1, <2>2, RunFeatureBacked
    <2> HIDE DEF b
    <2>4. Stores(b) /\ Versioned(v, b) /\ ("APP" \in Features => Early("APP", b))
        BY <2>0, <2>1, <2>2, <2>3 DEF OnlyFeature, Versioned, Early
    <2>5. /\ OnlyFeature("APP", b, c) /\ (c.bad => ~CtrlVersionOK(n, c))
          /\ "APP" \in fs \/ Backed(v, "APP", b) => Backed(v, "APP", c)
        BY <2>3, <2>4, RunFeatureBacked
    <2> HIDE DEF c
    <2>6. Stores(c) /\ Versioned(v, c) /\ ("LLINK" \in Features => Early("LLINK", c))
        BY <2>0, <2>1, <2>3, <2>4, <2>5 DEF OnlyFeature, Versioned, Early
    <2>7. OnlyFeature("LLINK", c, t)
        BY <2>5, <2>6, RunFeatureBacked
    <2> HIDE DEF t
    <2>8. Stores(t) /\ Versioned(v, t) /\ t.active = s.active
        BY <2>1, <2>3, <2>5, <2>6, <2>7 DEF OnlyFeature, Versioned
    <2>9. \A f \in Features \cap Machines : Backed(v, f, t)
        <3>1. ASSUME NEW g, NEW x, NEW y, OnlyFeature(g, x, y),
                     NEW f \in Features, f # g
              PROVE  Backed(v, f, x) <=> Backed(v, f, y)
            BY <3>1 DEF OnlyFeature, Backed
        <3>2. "PFC" \in Features => Backed(v, "PFC", t)
            BY <2>0, <2>1, <2>3, <2>5, <2>7, <3>1 DEF Machines
        <3>3. "PG" \in Features => Backed(v, "PG", t)
            BY <2>0, <2>1, <2>3, <2>5, <2>7, <3>1 DEF Machines
        <3>4. "APP" \in Features => Backed(v, "APP", t)
            BY <2>0, <2>1, <2>3, <2>5, <2>7, <3>1 DEF Machines
        <3> QED
            BY <3>2, <3>3, <3>4 DEF Machines
    <2>10. /\ DOMAIN q = DOMAIN t /\ q.bad = FALSE
           /\ q.active = t.active /\ q.ctl = t.ctl /\ q.peer = t.peer
           /\ q.feat = t.feat /\ q.pf = t.pf
        BY <2>8 DEF Stores, PortFields
    <2>11. {Run(u) : u \in {q}} = {Run(q)}
        OBVIOUS
    <2> HIDE DEF Run
    <2>12. (CHOOSE e \in {Run(u) : u \in {q}} : TRUE) = Run(q)
        BY <2>11, ChooseOnly
    <2>13. r = Run(q)
        BY <1>2, <2>12 DEF run_dcb_protocol, Apply, Run, Order, a, b, c, t
    <2> HIDE DEF q, r
    <2>14. Stores(q) /\ Versioned(v, q)
        BY <2>8, <2>10 DEF Stores, Versioned
    <2>15. /\ Answers(q, r)
           /\ r.ctl.state = "LISTEN" /\ r.ctl.ver = v
        BY <2>13, <2>14, ControlAnswers DEF Run
    <2>16. \A f \in Features \cap Machines : Backed(v, f, r)
        <3>1. \A f \in Features \cap Machines : Backed(v, f, q)
            BY <2>9, <2>10 DEF Backed
        <3> QED
            BY <2>15, <3>1, AnswersBacked
    <2>17. Stores(r) /\ Versioned(v, r) /\ ~r.bad /\ r.active
        BY <1>2, <2>8, <2>10, <2>14, <2>15 DEF Answers, Versioned
    <2> QED
        BY <2>15, <2>16, <2>17 DEF PortInv, r
<1> QED
    BY <1>1, <1>2

\* A change that touches neither the machines nor what the peer said.
LEMMA AsidePort ==
    ASSUME NEW v, NEW s, PortInv(v, s), NEW t, Answers(s, t), t.ctl = s.ctl
    PROVE  PortInv(v, t)
<1>1. Stores(t) /\ Versioned(v, t) /\ ~t.bad
    BY DEF PortInv, Answers, Versioned
<1>2. t.ctl.state # "LISTEN" \/ ~t.active => Fresh(t)
    BY DEF PortInv, Answers, Fresh
<1>3. \A f \in Features \cap Machines : Backed(v, f, t)
    BY AnswersBacked DEF PortInv
<1> QED
    BY <1>1, <1>2, <1>3 DEF PortInv

LEMMA AsideChange ==
    ASSUME NEW v, NEW s, PortInv(v, s), NEW t, DOMAIN t = DOMAIN s,
           \A x \in DOMAIN s : x \notin Aside \ {"ctl"} => t[x] = s[x]
    PROVE  PortInv(v, t)
<1>1. Stores(s)
    BY DEF PortInv
<1>2. t.ctl = s.ctl /\ CtlFields \subseteq DOMAIN t.ctl
    BY <1>1 DEF Stores, PortFields, Aside
<1>3. Answers(s, t)
    BY <1>1, <1>2, CtlAnswers
<1> QED
    BY <1>2, <1>3, AsidePort

\* A command of a client.
LEMMA PutBacked ==
    ASSUME NEW n, NEW f \in Features, NEW x, NEW s, PortInv(MaxVersion[n], s)
    PROVE  PortInv(MaxVersion[n], Put(n, f, x, s))
<1> DEFINE l == Set(s.feat[f], x)
           t == [s EXCEPT !.feat[f] = l]
<1>1. Stores(s)
    BY DEF PortInv
<1>2. Local(l) /\ l.state = s.feat[f].state
    BY <1>1 DEF Stores, Local, FeatFields, Set
<1> HIDE DEF l
<1>3. /\ DOMAIN t = DOMAIN s /\ t.feat = [s.feat EXCEPT ![f] = l]
      /\ t.ctl = s.ctl /\ t.peer = s.peer /\ t.active = s.active
      /\ t.bad = s.bad /\ t.pf = s.pf
    BY <1>1 DEF Stores, PortFields
<1> HIDE DEF t
<1>4. /\ t.feat[f] = l
      /\ \A g \in Features : g # f => t.feat[g] = s.feat[g]
    BY <1>1, <1>3 DEF Stores
<1>5. Stores(t)
    BY <1>1, <1>2, <1>3, <1>4 DEF Stores
<1>6. Fresh(s) => Fresh(t)
    BY <1>2, <1>4 DEF Fresh
<1>7. \A g \in Features \cap Machines : g \in {f} \/ Backed(MaxVersion[n], g, t)
    BY <1>3, <1>4 DEF PortInv, Backed
<1>8. Called(MaxVersion[n], {f}, t)
    BY <1>3, <1>5, <1>6, <1>7 DEF PortInv, Called, Versioned
<1>9. PortInv(MaxVersion[n], run_dcb_protocol(n, {f}, "local", t))
    BY <1>8, ProtocolBacked
<1>10. PortInv(MaxVersion[n], put_pfc(n, f, x, s))
    BY <1>9 DEF put_pfc, t, l
<1> QED
    BY <1>10, FeaturesAssumption DEF Put, put_pg, put_app, put_llink

LEMMA TurnsOnBacked ==
    ASSUME NEW v, NEW l, NEW x, NEW s, PortInv(v, s)
    PROVE  PortInv(v, TurnsOn(l, x, s))
<1> DEFINE t == [s EXCEPT !.txon = TRUE, !.tx = TRUE]
<1>1. Stores(s)
    BY DEF PortInv
<1>2. /\ DOMAIN t = DOMAIN s
      /\ \A y \in DOMAIN s : y \notin Aside \ {"ctl"} => t[y] = s[y]
    BY <1>1 DEF Stores, PortFields, Aside
<1> HIDE DEF t
<1>3. PortInv(v, t)
    BY <1>2, AsideChange
<1> QED
    BY <1>3 DEF TurnsOn, t

LEMMA AdvertiseBacked ==
    ASSUME NEW n, NEW f, NEW ad, NEW s, PortInv(MaxVersion[n], s)
    PROVE  PortInv(MaxVersion[n], Advertise(n, f, ad, s))
<1> DEFINE P(u) == Put(n, f, [SetOf(u.feat[f]) EXCEPT !.adv = ad], u)
<1>1. {P(u) : u \in {s}} = {P(s)}
    OBVIOUS
<1>2. f \in Features => PortInv(MaxVersion[n], P(s))
    BY PutBacked
<1> HIDE DEF P
<1>3. (CHOOSE e \in {P(u) : u \in {s}} : TRUE) = P(s)
    BY <1>1, ChooseOnly
<1>4. Advertise(n, f, ad, s) = IF f \notin Features THEN s ELSE P(s)
    BY <1>3 DEF Advertise, Apply, P
<1> QED
    BY <1>2, <1>4

LEMMA AdvertiseAllBacked ==
    ASSUME NEW n, NEW ad, NEW s, PortInv(MaxVersion[n], s)
    PROVE  PortInv(MaxVersion[n], dont_advertise_dcbx_all(n, ad, s))
<1> DEFINE a == Advertise(n, "PG", ad, s)
           b == Advertise(n, "PFC", ad, a)
           c == Advertise(n, "APP", ad, b)
           d == Advertise(n, "LLINK", ad, c)
<1>1. PortInv(MaxVersion[n], a)
    BY AdvertiseBacked
<1> HIDE DEF a
<1>2. PortInv(MaxVersion[n], b)
    BY <1>1, AdvertiseBacked
<1> HIDE DEF b
<1>3. PortInv(MaxVersion[n], c)
    BY <1>2, AdvertiseBacked
<1> HIDE DEF c
<1>4. PortInv(MaxVersion[n], d)
    BY <1>3, AdvertiseBacked
<1> QED
    BY <1>4 DEF dont_advertise_dcbx_all, a, b, c

LEMMA AppDataBacked ==
    ASSUME NEW n, NEW x, NEW s, PortInv(MaxVersion[n], s), "APP" \in Features
    PROVE  PortInv(MaxVersion[n], set_app_protocol_data(n, x, s))
<1> DEFINE l == s.feat["APP"]
           a == put_app(n, [x EXCEPT !.en = l.en, !.will = l.will], s)
           b == TurnsOn(l, x, a)
           P(u) == put_app(n, x, u)
           c == P(b)
           d == [c EXCEPT !.tx = TRUE]
<1>1. ASSUME NEW y, NEW u, PortInv(MaxVersion[n], u)
      PROVE  PortInv(MaxVersion[n], put_app(n, y, u))
    <2>1. Put(n, "APP", y, u) = put_app(n, y, u)
        BY DEF Put
    <2> QED
        BY <1>1, <2>1, PutBacked
<1>2. {P(u) : u \in {b}} = {P(b)}
    OBVIOUS
<1> HIDE DEF P
<1>3. (CHOOSE e \in {P(u) : u \in {b}} : TRUE) = P(b)
    BY <1>2, ChooseOnly
<1>4. set_app_protocol_data(n, x, s) = d
    BY <1>3 DEF set_app_protocol_data, Apply, P
<1>5. PortInv(MaxVersion[n], a)
    BY <1>1
<1> HIDE DEF a
<1>6. PortInv(MaxVersion[n], b)
    BY <1>5, TurnsOnBacked
<1> HIDE DEF b
<1>7. PortInv(MaxVersion[n], c)
    BY <1>1, <1>6 DEF P
<1> HIDE DEF c
<1>8. /\ DOMAIN d = DOMAIN c
      /\ \A y \in DOMAIN c : y \notin Aside \ {"ctl"} => d[y] = c[y]
    BY <1>7 DEF PortInv, Stores, PortFields, Aside
<1> HIDE DEF d
<1> QED
    BY <1>4, <1>7, <1>8, AsideChange

\* What an end of the other one's version says.
Said(n, fr) == "seq" \in DOMAIN fr => fr.max = MaxVersion[n]

\* A frame: every feature runs on what it brings.
LEMMA HeardBacked ==
    ASSUME NEW n, NEW fr, PortInv(MaxVersion[n], node[n]), Said(n, fr)
    PROVE  PortInv(MaxVersion[n], Heard(n, fr))
<1> DEFINE v == MaxVersion[n]
           s == [node[n] EXCEPT
                   !.last = fr,
                   !.msap = IF node[n].msap = None THEN fr.from ELSE @,
                   !.many = @ \/ (node[n].msap # None /\ node[n].msap # fr.from)]
           t == [s EXCEPT !.active = TRUE, !.tx = @ \/ ~s.active]
           New(f) == IF fr.tlv[f] = None
                     THEN check_feature_not_present(f, t.pf[f])
                     ELSE process_dcbx_pg_tlv(fr.tlv[f], fr.dup)
           p == process_dcbx_ctrl_tlv(t, fr)
           fs == [f \in Features |-> New(f)]
           u == [t EXCEPT !.peer = p, !.pf = fs]
<1>0. Stores(node[n])
    BY DEF PortInv
<1>1. Heard(n, fr) \in {node[n], dcbx_rchange(n, s, fr)}
    BY DEF Heard
<1>2. /\ DOMAIN s = DOMAIN node[n]
      /\ \A x \in DOMAIN node[n] : x \notin Aside \ {"ctl"} => s[x] = node[n][x]
    BY <1>0 DEF Stores, PortFields, Aside
<1> HIDE DEF s
<1>3. PortInv(v, s)
    BY <1>2, AsideChange
<1>4. dcbx_rchange(n, s, fr) = IF "seq" \notin DOMAIN fr THEN s
                               ELSE mibUpdateObjects(n, t, fr)
    BY DEF dcbx_rchange
<1>5. CASE "seq" \notin DOMAIN fr
    BY <1>1, <1>3, <1>4, <1>5
<1>6. CASE "seq" \in DOMAIN fr
    <2>1. /\ DOMAIN t = DOMAIN s /\ t.active = TRUE
          /\ t.ctl = s.ctl /\ t.peer = s.peer /\ t.feat = s.feat
          /\ t.pf = s.pf /\ t.bad = s.bad
        BY <1>3 DEF PortInv, Stores, PortFields
    <2> HIDE DEF t
    <2>2. mibUpdateObjects(n, t, fr) = run_dcb_protocol(n, Features, "remote", u)
        BY DEF mibUpdateObjects
    <2>3. PeerFields \subseteq DOMAIN p /\ p.max = v
        <3>1. PeerFields \subseteq DOMAIN s.peer /\ s.peer.max = v
            BY <1>3 DEF PortInv, Stores, Versioned
        <3> QED
            BY <1>6, <2>1, <3>1 DEF process_dcbx_ctrl_tlv, PeerFields, Said
    <2>4. \A f \in Features : Remote(New(f))
        <3>1. \A f \in Features : Remote(t.pf[f])
            BY <1>3, <2>1 DEF PortInv, Stores
        <3> QED
            BY <3>1 DEF check_feature_not_present, process_dcbx_pg_tlv,
                        init_peer_pg, Remote, PeerFeatFields
    <2>5. DOMAIN fs = Features /\ \A f \in Features : Remote(fs[f])
        BY <2>4
    <2> HIDE DEF New, p, fs
    <2>6. /\ DOMAIN u = DOMAIN t /\ u.peer = p /\ u.pf = fs
          /\ u.active = t.active /\ u.ctl = t.ctl /\ u.feat = t.feat
          /\ u.bad = t.bad
        BY <1>3, <2>1 DEF PortInv, Stores, PortFields
    <2> HIDE DEF u
    <2>7. Stores(u)
        BY <1>3, <2>1, <2>3, <2>5, <2>6 DEF PortInv, Stores
    <2>8. Called(v, Features, u)
        BY <1>3, <2>1, <2>3, <2>6, <2>7 DEF PortInv, Called, Versioned, Fresh
    <2>9. PortInv(v, run_dcb_protocol(n, Features, "remote", u))
        BY <2>8, ProtocolBacked
    <2> QED
        BY <1>1, <1>3, <1>4, <1>6, <2>2, <2>9
<1> QED
    BY <1>5, <1>6

\* The neighbour has aged out: the features it had advertised run.
LEMMA DeleteBacked ==
    ASSUME NEW n, NEW s, PortInv(MaxVersion[n], s)
    PROVE  PortInv(MaxVersion[n], dcbx_mibDeleteObjects(n, s))
<1> DEFINE v == MaxVersion[n]
           fs == {f \in Features : s.pf[f].present}
           err == s.peer.many \/ s.peer.dup
           rx == IF err THEN s.peer.rx ELSE "EXPIRED"
           gone == [f \in Features |-> [s.pf[f] EXCEPT !.present = FALSE]]
           t == [s EXCEPT !.pf = gone, !.peer.rx = rx]
<1>0. Stores(s)
    BY DEF PortInv
<1>1. dcbx_mibDeleteObjects(n, s) =
        IF fs = {} THEN t ELSE run_dcb_protocol(n, fs, "remote", t)
    BY DEF dcbx_mibDeleteObjects
<1>2. /\ DOMAIN gone = Features
      /\ \A f \in Features : Remote(gone[f]) /\ gone[f].ver = s.pf[f].ver
    BY <1>0 DEF Stores, Remote, PeerFeatFields
<1> HIDE DEF gone, rx
<1>3. /\ DOMAIN t = DOMAIN s /\ t.pf = gone
      /\ PeerFields \subseteq DOMAIN t.peer
      /\ t.peer.ver = s.peer.ver /\ t.peer.max = s.peer.max
      /\ t.ctl = s.ctl /\ t.feat = s.feat /\ t.active = s.active
      /\ t.bad = s.bad
    BY <1>0 DEF Stores, PortFields, PeerFields
<1> HIDE DEF t
<1>4. Stores(t)
    BY <1>0, <1>2, <1>3 DEF Stores
<1>5. \A f \in Features \cap Machines : f \in fs \/ Backed(v, f, t)
    BY <1>2, <1>3 DEF PortInv, Backed, Works
<1>6. Called(v, fs, t)
    BY <1>3, <1>4, <1>5 DEF PortInv, Called, Versioned, Fresh
<1>7. PortInv(v, run_dcb_protocol(n, fs, "remote", t))
    BY <1>6, ProtocolBacked
<1>8. fs = {} => PortInv(v, t)
    BY <1>6 DEF Called, PortInv
<1> QED
    BY <1>1, <1>7, <1>8

LEMMA AdapterBacked ==
    ASSUME NEW n, NEW x, NEW hw, NEW seq, NEW ack, NEW act
    PROVE  PortInv(MaxVersion[n], dcbx_add_adapter(n, x, hw, seq, ack, act))
<1> DEFINE s == dcbx_add_adapter(n, x, hw, seq, ack, act)
<1>1. /\ PortFields \subseteq DOMAIN s
      /\ s.ctl = init_control_prot(seq, ack) /\ ~s.bad
      /\ s.peer = init_peer_control_prot(MaxVersion[n])
      /\ s.feat = [f \in Features |-> init_pg(x[f], hw[f])]
      /\ s.pf = [f \in Features |-> init_peer_pg]
    BY DEF dcbx_add_adapter, PortFields
<1> HIDE DEF s
<1>2. CtlFields \subseteq DOMAIN s.ctl /\ s.ctl.state = "INIT"
    BY <1>1 DEF init_control_prot, CtlFields
<1>3. PeerFields \subseteq DOMAIN s.peer /\ s.peer.max = MaxVersion[n]
    BY <1>1 DEF init_peer_control_prot, PeerFields
<1>4. \A f \in Features : Local(s.feat[f]) /\ s.feat[f].state = "INIT"
    BY <1>1 DEF init_pg, Local, FeatFields
<1>5. \A f \in Features : Remote(s.pf[f])
    BY <1>1 DEF init_peer_pg, Remote, PeerFeatFields
<1>6. Stores(s)
    BY <1>1, <1>2, <1>3, <1>4, <1>5 DEF Stores
<1>7. \A f \in Features : Backed(MaxVersion[n], f, s)
    BY <1>4 DEF Backed, Works
<1> QED
    BY <1>1, <1>2, <1>3, <1>4, <1>6, <1>7 DEF PortInv, Versioned, Fresh, s

-----------------------------------------------------------------------------
(* Steps of the specification                                                *)

\* One port is in order after the step, the other does not take one, and what
\* is on the wire comes from an end of the same version.
LEMMA OnePort ==
    ASSUME PeerInv, NEW n \in Node, NEW t, PortInv(MaxVersion[n], t),
           node' = [node EXCEPT ![n] = t], DOMAIN wire' = Node,
           \A m \in Node : wire'[m] = wire[m] \/ Said(m, wire'[m])
    PROVE  PeerInv'
BY DEF PeerInv, Said

LEMMA FrameVersion ==
    ASSUME NEW n, NEW s
    PROVE  dcbx_bld_tlv(n, s).max = MaxVersion[n]
BY DEF dcbx_bld_tlv, bld_dcbx1_tlv, bld_dcbx2_tlv, bld_dcbx_ctrl_tlv

LEMMA NoFrame ==
    ASSUME NEW n
    PROVE  Said(n, None)
BY DEF Said, None

LEMMA CommandBacked ==
    ASSUME PeerInv, NEW n \in Node,
           \/ \E f \in Features, x \in Settings : dcbx_clif_cmd(n, f, x)
           \/ set_arg_tlvtxenable(n)
    PROVE  PeerInv'
<1> DEFINE v == MaxVersion[n]
           s == node[n]
<1>0. PortInv(v, s) /\ DOMAIN node = Node /\ DOMAIN wire = Node
    BY DEF PeerInv
<1>1. ASSUME NEW f \in Features, NEW x \in Settings, dcbx_clif_cmd(n, f, x)
      PROVE  wire' = wire /\ \E t : PortInv(v, t) /\ node' = [node EXCEPT ![n] = t]
    <2>1. CASE f = "APP"
        <3>1. node' = [node EXCEPT ![n] = set_app_protocol_data(n, x, s)]
            BY <1>1, <2>1 DEF dcbx_clif_cmd
        <3>2. PortInv(v, set_app_protocol_data(n, x, s))
            BY <1>0, <2>1, AppDataBacked
        <3> QED
            BY <1>1, <3>1, <3>2 DEF dcbx_clif_cmd
    <2>2. CASE f # "APP"
        <3> DEFINE t == TurnsOn(s.feat[f], x, s)
        <3>1. node' = [node EXCEPT ![n] = Put(n, f, x, t)]
            BY <1>1, <2>2 DEF dcbx_clif_cmd, set_protocol_data
        <3>2. PortInv(v, t)
            BY <1>0, TurnsOnBacked
        <3> HIDE DEF t
        <3>3. PortInv(v, Put(n, f, x, t))
            BY <3>2, PutBacked
        <3> QED
            BY <1>1, <3>1, <3>3 DEF dcbx_clif_cmd
    <2> QED
        BY <2>1, <2>2
<1>2. ASSUME set_arg_tlvtxenable(n)
      PROVE  wire' = wire /\ \E t : PortInv(v, t) /\ node' = [node EXCEPT ![n] = t]
    <2> DEFINE on == ~node[n].txon
               a == [s EXCEPT !.txon = on]
               b == dont_advertise_dcbx_all(n, on, a)
               c == [b EXCEPT !.tx = TRUE]
    <2>1. node' = [node EXCEPT ![n] = c] /\ wire' = wire
        BY <1>2 DEF set_arg_tlvtxenable
    <2>2. /\ DOMAIN a = DOMAIN s
          /\ \A y \in DOMAIN s : y \notin Aside \ {"ctl"} => a[y] = s[y]
        BY <1>0 DEF PortInv, Stores, PortFields, Aside
    <2> HIDE DEF a, on
    <2>3. PortInv(v, a)
        BY <1>0, <2>2, AsideChange
    <2>4. PortInv(v, b)
        BY <2>3, AdvertiseAllBacked
    <2> HIDE DEF b
    <2>5. /\ DOMAIN c = DOMAIN b
          /\ \A y \in DOMAIN b : y \notin Aside \ {"ctl"} => c[y] = b[y]
        BY <2>4 DEF PortInv, Stores, PortFields, Aside
    <2> HIDE DEF c
    <2>6. PortInv(v, c)
        BY <2>4, <2>5, AsideChange
    <2> QED
        BY <2>1, <2>6
<1>3. wire' = wire /\ \E t : PortInv(v, t) /\ node' = [node EXCEPT ![n] = t]
    BY <1>1, <1>2
<1> QED
    BY <1>0, <1>3, OnePort

LEMMA TransmitBacked ==
    ASSUME PeerInv, OneVersion, NEW n \in Node, Transmit(n)
    PROVE  PeerInv'
<1> DEFINE v == MaxVersion[n]
           s == node[n]
           Sent(f) == [s.feat[f] EXCEPT !.sent = TRUE]
           sent == [f \in Features |-> Sent(f)]
           a == [s EXCEPT !.tx = FALSE]
           b == [a EXCEPT !.feat = sent]
           m == Other(n)
           fr == dcbx_bld_tlv(n, s)
<1>0. PortInv(v, s) /\ Stores(s) /\ DOMAIN node = Node /\ DOMAIN wire = Node
    BY DEF PeerInv, PortInv
<1>1. /\ node' \in {[node EXCEPT ![n] = a], [node EXCEPT ![n] = b]}
      /\ \/ wire' = [wire EXCEPT ![m] = fr]
         \/ wire' = [wire EXCEPT ![m] = [from |-> n]]
    BY <1>0 DEF Transmit
<1>2. /\ DOMAIN a = DOMAIN s /\ a.feat = s.feat
      /\ \A y \in DOMAIN s : y \notin Aside \ {"ctl"} => a[y] = s[y]
    BY <1>0 DEF Stores, PortFields, Aside
<1> HIDE DEF a
<1>3. PortInv(v, a) /\ Stores(a)
    BY <1>0, <1>2, AsideChange DEF PortInv
<1>4. ASSUME NEW f \in Features
      PROVE  /\ Local(Sent(f))
             /\ Sent(f).state = s.feat[f].state /\ Sent(f).adv = s.feat[f].adv
             /\ Sent(f).mode = s.feat[f].mode /\ Sent(f).force = s.feat[f].force
             /\ Sent(f).ver = s.feat[f].ver /\ Sent(f).syncd = s.feat[f].syncd
    <2>1. Local(s.feat[f])
        BY <1>0 DEF Stores
    <2> QED
        BY <2>1 DEF Local, FeatFields
<1>5. DOMAIN sent = Features /\ \A f \in Features : sent[f] = Sent(f)
    OBVIOUS
<1> HIDE DEF Sent, sent
<1>6. /\ DOMAIN b = DOMAIN a /\ b.feat = sent /\ b.ctl = a.ctl
      /\ b.active = a.active /\ b.bad = a.bad /\ b.pf = a.pf /\ b.peer = a.peer
    BY <1>3 DEF Stores, PortFields
<1> HIDE DEF b
<1>7. Stores(b)
    BY <1>3, <1>4, <1>5, <1>6 DEF Stores
<1>8. Answers(a, b)
    BY <1>2, <1>4, <1>5, <1>6, <1>7 DEF Answers
<1>9. PortInv(v, b)
    BY <1>3, <1>6, <1>8, AsidePort
<1>10. fr.max = v
    BY FrameVersion
<1> HIDE DEF fr, m
<1>11. ASSUME NEW k \in Node PROVE wire'[k] = wire[k] \/ Said(k, wire'[k])
    <2>1. wire'[k] = wire[k] \/ wire'[k] = fr \/ wire'[k] = [from |-> n]
        BY <1>0, <1>1
    <2>2. Said(k, [from |-> n])
        BY DEF Said
    <2>3. Said(k, fr)
        BY <1>10 DEF Said, OneVersion
    <2> QED
        BY <2>1, <2>2, <2>3
<1>12. DOMAIN wire' = Node
    BY <1>0, <1>1
<1>13. \E t : PortInv(v, t) /\ node' = [node EXCEPT ![n] = t]
    BY <1>1, <1>3, <1>9
<1> QED
    BY <1>11, <1>12, <1>13, OnePort

LEMMA HeardStep ==
    ASSUME PeerInv, NEW n \in Node, Receive(n) \/ Stranger(n)
    PROVE  PeerInv'
<1>0. PortInv(MaxVersion[n], node[n]) /\ DOMAIN wire = Node /\ Said(n, wire[n])
    BY DEF PeerInv, Said
<1>1. CASE Receive(n)
    <2>1. /\ node' = [node EXCEPT ![n] = Heard(n, wire[n])]
          /\ wire' = [wire EXCEPT ![n] = None]
        BY <1>1 DEF Receive
    <2>2. PortInv(MaxVersion[n], Heard(n, wire[n]))
        BY <1>0, HeardBacked
    <2>3. DOMAIN wire' = Node /\ \A m \in Node : wire'[m] = wire[m] \/ Said(m, wire'[m])
        BY <1>0, <2>1, NoFrame
    <2> QED
        BY <2>1, <2>2, <2>3, OnePort
<1>2. CASE Stranger(n)
    <2> DEFINE a == dcbx_add_adapter(n, [f \in Features |-> Start[n]],
                                     [f \in Features |-> Default], 0, 0, TRUE)
               tlv == dcbx_bld_tlv(n, a)
               fr == [tlv EXCEPT !.from = Stray]
    <2>1. node' = [node EXCEPT ![n] = Heard(n, fr)] /\ wire' = wire
        BY <1>2 DEF Stranger
    <2>2. tlv.max = MaxVersion[n]
        BY FrameVersion
    <2> HIDE DEF tlv
    <2>3. Said(n, fr)
        BY <2>2 DEF Said
    <2> HIDE DEF fr
    <2>4. PortInv(MaxVersion[n], Heard(n, fr))
        BY <1>0, <2>3, HeardBacked
    <2> QED
        BY <1>0, <2>1, <2>4, OnePort
<1> QED
    BY <1>1, <1>2

LEMMA WireStep ==
    ASSUME PeerInv, NEW n \in Node, Lose(n) \/ Repeat(n)
    PROVE  PeerInv'
<1>1. node' = node
    BY DEF Lose, Repeat
<1>2. DOMAIN wire = Node /\ \A m \in Node : Said(m, wire[m])
    BY DEF PeerInv, Said
<1>3. wire' = [wire EXCEPT ![n] = None] \/ wire' = [wire EXCEPT ![n].dup = TRUE]
    BY DEF Lose, Repeat
<1>4. Said(n, [wire[n] EXCEPT !.dup = TRUE])
    BY <1>2 DEF Said
<1>5. DOMAIN wire' = Node /\ \A m \in Node : Said(m, wire'[m])
    BY <1>2, <1>3, <1>4, NoFrame
<1> QED
    BY <1>1, <1>5 DEF PeerInv, Said

LEMMA FaultBacked ==
    ASSUME PeerInv, NEW n \in Node,
           \/ StrangerGone(n) \/ Expire(n) \/ Replug(n)
           \/ \E saved \in BOOLEAN : Restart(n, saved)
    PROVE  PeerInv'
<1> DEFINE v == MaxVersion[n]
           s == node[n]
<1>0. PortInv(v, s) /\ Stores(s) /\ DOMAIN node = Node /\ DOMAIN wire = Node
    BY DEF PeerInv, PortInv
<1>1. CASE StrangerGone(n)
    <2> DEFINE a == [s EXCEPT !.many = FALSE]
    <2>1. node' = [node EXCEPT ![n] = a] /\ wire' = wire
        BY <1>0, <1>1 DEF StrangerGone
    <2>2. /\ DOMAIN a = DOMAIN s
          /\ \A y \in DOMAIN s : y \notin Aside \ {"ctl"} => a[y] = s[y]
        BY <1>0 DEF Stores, PortFields, Aside
    <2> HIDE DEF a
    <2>3. PortInv(v, a)
        BY <1>0, <2>2, AsideChange
    <2> QED
        BY <1>0, <2>1, <2>3, OnePort
<1>2. CASE Expire(n)
    <2> DEFINE a == [s EXCEPT !.last = None, !.msap = None, !.many = FALSE]
    <2>1. node' = [node EXCEPT ![n] = dcbx_mibDeleteObjects(n, a)] /\ wire' = wire
        BY <1>0, <1>2 DEF Expire
    <2>2. /\ DOMAIN a = DOMAIN s
          /\ \A y \in DOMAIN s : y \notin Aside \ {"ctl"} => a[y] = s[y]
        BY <1>0 DEF Stores, PortFields, Aside
    <2> HIDE DEF a
    <2>3. PortInv(v, dcbx_mibDeleteObjects(n, a))
        BY <1>0, <2>2, AsideChange, DeleteBacked
    <2> QED
        BY <1>0, <2>1, <2>3, OnePort
<1>3. ASSUME NEW x, NEW hw, NEW seq, NEW ack, NEW act,
             node' = [node EXCEPT ![n] = dcbx_add_adapter(n, x, hw, seq, ack, act)],
             wire' = [wire EXCEPT ![n] = None]
      PROVE  PeerInv'
    <2>1. DOMAIN wire' = Node /\ \A m \in Node : wire'[m] = wire[m] \/ Said(m, wire'[m])
        BY <1>0, <1>3, NoFrame
    <2>2. PortInv(v, dcbx_add_adapter(n, x, hw, seq, ack, act))
        BY AdapterBacked
    <2> QED
        BY <1>3, <2>1, <2>2, OnePort
<1>4. CASE Replug(n)
    BY <1>3, <1>4 DEF Replug
<1>5. CASE \E saved \in BOOLEAN : Restart(n, saved)
    <2>1. PICK saved \in BOOLEAN : Restart(n, saved)
        BY <1>5
    <2> DEFINE st == save_dcbx_state(s, saved)
               x == get_persistent(s)
               hw == dcbx_free_app_config(s, saved)
               act == s.active \/ n \in Forced
               seq == st.seq
               ack == st.ack
    <2>2. /\ node' = [node EXCEPT ![n] = dcbx_add_adapter(n, x, hw, seq, ack, act)]
          /\ wire' = [wire EXCEPT ![n] = None]
        BY <2>1 DEF Restart
    <2> HIDE DEF x, hw, act, seq, ack
    <2> QED
        BY <1>3, <2>2
<1> QED
    BY <1>1, <1>2, <1>4, <1>5

\* Between two ends of one version, a feature that its machine counts as
\* synchronised operates only while the peer advertises and enables it, for
\* any features, settings and hardware rules, whatever commands, lost and
\* repeated frames, strangers, expiries and restarts come in between
\* (run_feature_protocol() and run_dcb_protocol() in dcb_protocol.c).
THEOREM OperatesOnlyWithPeer == OneVersion => (Spec => []OperatesWithPeer)
<1> SUFFICES ASSUME OneVersion PROVE Spec => []OperatesWithPeer
    OBVIOUS
<1>1. Init => PeerInv
    <2> SUFFICES ASSUME Init PROVE PeerInv
        OBVIOUS
    <2>1. DOMAIN node = Node /\ DOMAIN wire = Node
        BY DEF Init
    <2>2. ASSUME NEW n \in Node PROVE PortInv(MaxVersion[n], node[n])
        BY AdapterBacked DEF Init
    <2>3. ASSUME NEW n \in Node PROVE Said(n, wire[n])
        BY NoFrame DEF Init
    <2> QED
        BY <2>1, <2>2, <2>3 DEF PeerInv, Said
<1>2. PeerInv /\ [Next]_vars => PeerInv'
    <2> SUFFICES ASSUME PeerInv, [Next]_vars PROVE PeerInv'
        OBVIOUS
    <2>1. CASE UNCHANGED vars
        BY <2>1 DEF vars, PeerInv
    <2>2. CASE Next
        BY <2>2, CommandBacked, TransmitBacked, HeardStep, WireStep, FaultBacked
           DEF Next
    <2> QED
        BY <2>1, <2>2
<1>3. PeerInv => OperatesWithPeer
    <2> SUFFICES ASSUME PeerInv, NEW n \in Node, NEW f \in Features \ {"LLINK"},
                        node[n].feat[f].state = "LISTEN",
                        CtrlVersionOK(n, node[n]),
                        Works(node[n].feat[f], node[n].pf[f])
                 PROVE  node[n].pf[f].present /\ node[n].pf[f].en
        BY DEF OperatesWithPeer, Works
    <2>1. PortInv(MaxVersion[n], node[n]) /\ f \in Features \cap Machines
        BY FeaturesAssumption DEF PeerInv, Machines
    <2>2. node[n].ctl.state = "LISTEN"
        BY <2>1 DEF PortInv, Fresh
    <2>3. node[n].peer.ver = MaxVersion[n]
        BY <2>1, <2>2, VersionsAgree DEF PortInv
    <2> QED
        BY <2>1, <2>3 DEF PortInv, Backed
<1> QED
    BY <1>1, <1>2, <1>3, PTL DEF Spec
=============================================================================
