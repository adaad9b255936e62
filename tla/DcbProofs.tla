------------------------------ MODULE DcbProofs ------------------------------
(* Proofs about DCB: IEEE 802.1Qaz at the two ends of a link (Qaz), for any   *)
(* settings, applications, drivers, commands and faults; then the path of a  *)
(* priority-group configuration to the driver (DcbRules), for any number of  *)
(* priorities up to eight, any groups, shares, strict and paused priorities  *)
(* and any number of classes on the device.                                  *)
EXTENDS Qaz, DcbRules, FiniteSetTheorems, WellFoundedInduction, TLAPS

-----------------------------------------------------------------------------
(* IEEE 802.1Qaz or the older DCBX                                           *)

\* The two members of a node's record that say who drives its port, the mark
\* in shared memory that decides it when the port comes up, and the history of
\* discarded frames.
Drivers == {"active", "dcbx", "shm", "torn"}

\* A record with those members, at most one of them in charge if not torn.
Sound(s) == Drivers \subseteq DOMAIN s /\ (s.active /\ s.dcbx => s.torn)

\* The inductive invariant: every end's record is one.
ActiveInv == /\ DOMAIN node = Node
             /\ \A n \in Node : Sound(node[n])

\* A change of other members changes nothing here.
Same(s, t) == /\ Drivers \subseteq DOMAIN t
              /\ t.active = s.active /\ t.dcbx = s.dcbx /\ t.torn = s.torn

\* run_all_sm() and what it calls tell the driver and leave the two alone.
LEMMA RunKeeps ==
  ASSUME NEW n, NEW s, Drivers \subseteq DOMAIN s
  PROVE  Same(s, run_all_sm(n, s))
<1>1. ASSUME NEW t, Drivers \subseteq DOMAIN t
      PROVE  Same(t, ieee8021qaz_app_sethw(t))
  BY <1>1 DEF Same, Drivers, ieee8021qaz_app_sethw
<1> DEFINE e == ets_sm(s)
           p == pfc_sm(n, s)
           h == set_ieee_hw(s.hw, ets_to_ieee(s, e),
                            IF p = "RX" THEN s.rem.pfc ELSE s.conf.pfc)
           t == [s EXCEPT !.ets = e, !.pfc = p, !.hw = h]
<1> HIDE DEF e, p, h
<1>2. Same(s, t) /\ Same(s, [s EXCEPT !.ets = e, !.pfc = p])
  BY DEF Same, Drivers
<1>3. run_all_sm(n, s) = IF ieee8021qaz_check_active(s)
                         THEN ieee8021qaz_app_sethw(t)
                         ELSE [s EXCEPT !.ets = e, !.pfc = p]
  BY DEF run_all_sm, e, p, h
<1> HIDE DEF t
<1> QED
  BY <1>1, <1>2, <1>3 DEF Same

\* An end that comes up: both modules look at the same two things.
LEMMA IfupSound ==
  ASSUME NEW n, NEW s, Drivers \subseteq DOMAIN s
  PROVE  Sound(oper_add_device(n, s))
<1> DEFINE q == [s EXCEPT !.torn = FALSE]
           t == dcbx_ifup(n, q)
<1>0. Drivers \subseteq DOMAIN q /\ q.shm = s.shm
  BY DEF Drivers
<1> HIDE DEF q
<1>1. /\ Drivers \subseteq DOMAIN t /\ t.shm = s.shm
      /\ t.dcbx => n \in force \/ s.shm
  BY <1>0 DEF dcbx_ifup, Drivers
<1> HIDE DEF t
<1>2. /\ Drivers \subseteq DOMAIN ieee8021qaz_ifup(n, t)
      /\ ieee8021qaz_ifup(n, t).active = ~(n \in force \/ t.shm)
      /\ ieee8021qaz_ifup(n, t).dcbx = t.dcbx
  BY <1>1 DEF ieee8021qaz_ifup, Drivers
<1> QED
  BY <1>1, <1>2 DEF Sound, oper_add_device, t, q

\* A frame: the older DCBX becomes active only for a peer that makes IEEE DCBX
\* inactive.
LEMMA FrameSound ==
  ASSUME NEW n, NEW s, Sound(s), NEW fr
  PROVE  Sound(ieee8021qaz_rchange(n, dcbx_rchange(n, s, fr), fr))
<1> DEFINE t == dcbx_rchange(n, s, fr)
           turns == dcbx_tlvs_rxed(n, fr) /\ ~ieee8021qaz_tlvs_rxed(fr)
<1>1. /\ Drivers \subseteq DOMAIN t /\ t.active = s.active /\ t.torn = s.torn
      /\ t.dcbx => s.dcbx \/ turns
  BY DEF dcbx_rchange, Sound, Drivers
<1> HIDE DEF t
<1>2. CASE RemainsActive(n, t, fr)
  <2>1. s.active /\ ~turns
    BY <1>1, <1>2 DEF RemainsActive
  <2>2. t.active /\ t.dcbx => t.torn
    BY <1>1, <2>1 DEF Sound
  <2> DEFINE q == [t EXCEPT !.pending = @ /\ ~ieee8021qaz_tlvs_rxed(fr),
                            !.last = fr]
  <2>3. Same(t, q)
    BY <1>1 DEF Same, Drivers
  <2> HIDE DEF q
  <2>4. Same(t, EnableTx(q, fr))
    BY <2>3 DEF Same, Drivers, EnableTx
  <2>5. Same(t, ieee8021qaz_mibUpdateObjects(EnableTx(q, fr), fr))
    BY <2>4 DEF Same, Drivers, ieee8021qaz_mibUpdateObjects
  <2> QED
    BY <1>2, <2>2, <2>5 DEF Sound, Same, ieee8021qaz_rchange, t, q
<1>3. CASE ~RemainsActive(n, t, fr)
  BY <1>1, <1>3 DEF Sound, Drivers, ieee8021qaz_rchange, t
<1> QED
  BY <1>2, <1>3

\* A discarded frame: if it makes the older DCBX active the port is torn.
LEMMA RefusedSound ==
  ASSUME NEW n, NEW s, Sound(s), NEW fr
  PROVE  Sound(LeavesFrame(n, s, fr))
<1> DEFINE t == dcbx_rchange(n, s, fr)
<1>1. /\ Drivers \subseteq DOMAIN t /\ t.active = s.active /\ t.torn = s.torn
  BY DEF dcbx_rchange, Sound, Drivers
<1> HIDE DEF t
<1> DEFINE q == [t EXCEPT !.last = fr, !.torn = @ \/ (t.dcbx /\ ~s.dcbx)]
<1>2. /\ Drivers \subseteq DOMAIN q /\ q.active = t.active /\ q.dcbx = t.dcbx
      /\ q.torn = (t.torn \/ (t.dcbx /\ ~s.dcbx))
  BY <1>1 DEF Drivers
<1>3. q.active /\ q.dcbx => q.torn
  BY <1>1, <1>2 DEF Sound
<1> QED
  BY <1>2, <1>3 DEF Sound, LeavesFrame, t

\* Every step keeps the invariant: one step per operation.
LEMMA StepActive == ActiveInv /\ [Next]_vars => ActiveInv'
<1> SUFFICES ASSUME ActiveInv, [Next]_vars PROVE ActiveInv'
  OBVIOUS
<1>1. ASSUME NEW n \in Node, NEW s, Sound(s), node' = [node EXCEPT ![n] = s]
      PROVE  ActiveInv'
  BY <1>1 DEF ActiveInv
<1>2. ASSUME NEW n \in Node, NEW s, Same(node[n], s),
             node' = [node EXCEPT ![n] = s]
      PROVE  ActiveInv'
  BY <1>1, <1>2 DEF ActiveInv, Same, Sound
<1>3. ASSUME node' = node PROVE ActiveInv'
  BY <1>3 DEF ActiveInv
<1>4. \A n \in Node : Sound(node[n]) /\ Drivers \subseteq DOMAIN node[n]
  BY DEF ActiveInv, Sound
<1>5. CASE UNCHANGED vars
  BY <1>3, <1>5 DEF vars
<1>6. ASSUME NEW n \in Node, ieee8021qaz_check_pending(n) PROVE ActiveInv'
  <2> DEFINE s == [node[n] EXCEPT !.wait = FALSE]
             t == [node[n] EXCEPT !.wait = FALSE, !.pending = FALSE,
                                  !.apps = ieee8021qaz_app_reset(@)]
  <2>1. Same(node[n], s) /\ Same(node[n], t)
    BY <1>4 DEF Same, Drivers
  <2> HIDE DEF s, t
  <2>2. Same(node[n], run_all_sm(n, t))
    BY <2>1, RunKeeps DEF Same
  <2>3. \/ node' = [node EXCEPT ![n] = s]
        \/ node' = [node EXCEPT ![n] = run_all_sm(n, t)]
    BY <1>6 DEF ieee8021qaz_check_pending, s, t
  <2> QED
    BY <1>2, <2>1, <2>2, <2>3
<1>7. ASSUME NEW n \in Node, ieee8021qaz_gettlv(n) PROVE ActiveInv'
  BY <1>2, <1>4, <1>7, RunKeeps DEF ieee8021qaz_gettlv
<1>8. ASSUME NEW n \in Node, Receive(n) PROVE ActiveInv'
  <2> DEFINE t == ieee8021qaz_rchange(n, dcbx_rchange(n, node[n], wire[n]), wire[n])
  <2>1. Sound(t)
    BY <1>4, FrameSound
  <2> HIDE DEF t
  <2>2. Sound(run_all_sm(n, t))
    BY <2>1, RunKeeps DEF Sound, Same
  <2>3. \/ node' = node
        \/ node' = [node EXCEPT ![n] = t]
        \/ node' = [node EXCEPT ![n] = run_all_sm(n, t)]
        \/ node' = [node EXCEPT ![n] = LeavesFrame(n, node[n], wire[n])]
    BY <1>8 DEF Receive, t
  <2>4. Sound(LeavesFrame(n, node[n], wire[n]))
    BY <1>4, RefusedSound
  <2> QED
    BY <1>1, <1>3, <2>1, <2>2, <2>3, <2>4
<1>9. ASSUME NEW n \in Node, Lose(n) PROVE ActiveInv'
  BY <1>3, <1>9 DEF Lose
<1>10. ASSUME NEW n \in Node, NEW s, Same(node[n], s), Command(n, s) PROVE ActiveInv'
  BY <1>2, <1>10 DEF Command
<1>11. ASSUME NEW n \in Node,
              set_arg_willing(n) \/ set_arg_enabled(n) \/ set_arg_tlvtxenable(n)
                \/ set_arg_dcbx_mode(n) \/ set_dcb_state(n)
                \/ set_arg_up2tc(n) \/ set_arg_tcbw(n) \/ set_arg_tsa(n)
       PROVE  ActiveInv'
  <2>1. \A c : Same(node[n], [node[n] EXCEPT !.conf = c])
    BY <1>4 DEF Same, Drivers
  <2>2. Same(node[n], [node[n] EXCEPT !.shm = FALSE])
    BY <1>4 DEF Same, Drivers
  <2>3. \E s : Same(node[n], s) /\ Command(n, s)
    BY <1>11, <2>1, <2>2 DEF set_arg_willing, set_arg_enabled,
       set_arg_tlvtxenable, set_arg_dcbx_mode, set_dcb_state, set_arg_up2tc,
       set_arg_tcbw, set_arg_tsa, SetEts
  <2> QED
    BY <1>10, <2>3
<1>12. ASSUME NEW n \in Node, set_arg_app(n) PROVE ActiveInv'
  <2>1. PICK a \in App, del \in BOOLEAN :
          LET s == [node[n] EXCEPT
                     !.apps = ieee8021qaz_mod_app(@, a, FALSE, del),
                     !.conf.apps = IF del THEN @ \ {a} ELSE @ \cup {a}]
          IN  Command(n, IF ieee8021qaz_check_active(s)
                         THEN ieee8021qaz_app_sethw(s) ELSE s)
    BY <1>12 DEF set_arg_app
  <2> DEFINE s == [node[n] EXCEPT
                     !.apps = ieee8021qaz_mod_app(@, a, FALSE, del),
                     !.conf.apps = IF del THEN @ \ {a} ELSE @ \cup {a}]
  <2>2. Same(node[n], s)
    BY <1>4 DEF Same, Drivers
  <2>3. Command(n, IF ieee8021qaz_check_active(s) THEN ieee8021qaz_app_sethw(s) ELSE s)
    BY <2>1
  <2> HIDE DEF s
  <2>4. Same(node[n], ieee8021qaz_app_sethw(s))
    BY <2>2 DEF Same, Drivers, ieee8021qaz_app_sethw
  <2> QED
    BY <1>10, <2>2, <2>3, <2>4
<1>13. ASSUME NEW n \in Node, NEW s, Sound(s), Fault(n, s) PROVE ActiveInv'
  BY <1>1, <1>13 DEF Fault
<1>14. ASSUME NEW n \in Node
       PROVE  Same(node[n], ieee8021qaz_mibDeleteObject(node[n]))
  BY <1>4 DEF Same, Drivers, ieee8021qaz_mibDeleteObject
<1>15. ASSUME NEW n \in Node, Expire(n) PROVE ActiveInv'
  BY <1>4, <1>13, <1>14, <1>15 DEF Expire, Same, Sound
<1>16. ASSUME NEW n \in Node, Flap(n) PROVE ActiveInv'
  <2> DEFINE s == [ieee8021qaz_mibDeleteObject(node[n])
                     EXCEPT !.shm = FALSE, !.wait = TRUE]
  <2>1. Drivers \subseteq DOMAIN s
    BY <1>14 DEF Same, Drivers
  <2> HIDE DEF s
  <2>2. Sound(oper_add_device(n, s))
    BY <2>1, IfupSound
  <2> QED
    BY <1>13, <1>16, <2>2 DEF Flap, s
<1>17. ASSUME NEW n \in Node, NEW crash \in BOOLEAN, Restart(n, crash)
       PROVE  ActiveInv'
  <2> DEFINE left == IF crash THEN node[n].hw ELSE ieee8021qaz_free_tlv(node[n])
             d == ieee8021qaz_data(n, node[n].conf, left, node[n].shm)
             s == oper_add_device(n, d)
             t == [s EXCEPT !.crashed = node[n].crashed \/ crash]
  <2>1. Drivers \subseteq DOMAIN d
    BY DEF ieee8021qaz_data, Drivers
  <2> HIDE DEF d
  <2>2. Sound(s)
    BY <2>1, IfupSound
  <2> HIDE DEF s
  <2>3. Sound(t)
    BY <2>2 DEF Sound, Drivers
  <2>4. Fault(n, t)
    BY <1>17 DEF Restart, t, s, d
  <2> QED
    BY <1>13, <2>3, <2>4
<1>18. ASSUME NEW n \in Node, LinkEvent(n) PROVE ActiveInv'
  <2>1. Sound(oper_add_device(n, node[n]))
    BY <1>4, IfupSound
  <2> QED
    BY <1>1, <1>18, <2>1 DEF LinkEvent
<1>19. ASSUME NEW n \in Node, Malformed(n) PROVE ActiveInv'
  BY <1>3, <1>19 DEF Malformed
<1> QED
  BY <1>5, <1>6, <1>7, <1>8, <1>9, <1>11, <1>12, <1>15, <1>16, <1>17, <1>18,
     <1>19
  DEF Next

\* IEEE DCBX and the older DCBX drive one port together only after a frame
\* that made the older one active and was then discarded, for any drivers and
\* settings of the two ends and any number of commands and faults: otherwise
\* both modules decide from the same frame and from the same mark in shared
\* memory (ieee8021qaz_ifup(), dcbx_ifup(), ieee8021qaz_rchange(),
\* dcbx_rchange()).
THEOREM OnlyTornPortsHaveBoth == Spec => []BothOnlyIfTorn
<1>1. Init => ActiveInv
  <2> SUFFICES ASSUME Init PROVE ActiveInv
    OBVIOUS
  <2>1. ASSUME NEW n \in Node PROVE Sound(node[n])
    <3> DEFINE d == ieee8021qaz_data(n, Start[n],
                      [ets |-> Start[n].ets, pfc |-> Start[n].pfc, app |-> {}],
                      FALSE)
    <3>1. Drivers \subseteq DOMAIN d
      BY DEF ieee8021qaz_data, Drivers
    <3> HIDE DEF d
    <3>2. Sound(oper_add_device(n, d))
      BY <3>1, IfupSound
    <3> QED
      BY <3>2 DEF Init, d
  <2> QED
    BY <2>1 DEF Init, ActiveInv
<1>2. ActiveInv => BothOnlyIfTorn
  BY DEF ActiveInv, Sound, BothOnlyIfTorn
<1> QED
  BY <1>1, <1>2, StepActive, PTL DEF Spec

-----------------------------------------------------------------------------
(* Priority groups: smallest and greatest members                           *)

\* A set of natural numbers has a smallest member.
LEMMA MinOfNats ==
    ASSUME NEW S \in SUBSET Nat, S # {}
    PROVE  Min(S) \in S /\ \A y \in S : Min(S) <= y
<1>1. PICK x \in S : \A y \in S : ~(<<y, x>> \in OpToRel(<, Nat))
    BY NatLessThanWellFounded, WFMin
<1>2. \A y \in S : x <= y
    <2>1. ASSUME NEW y \in S PROVE ~(y < x)
        <3>1. y \in Nat /\ x \in Nat
            OBVIOUS
        <3>2. y < x => <<y, x>> \in OpToRel(<, Nat)
            BY <3>1, Zenon DEF OpToRel
        <3> QED
            BY <1>1, <3>2, Zenon
    <2> QED
        BY <2>1
<1> QED
    BY <1>2 DEF Min

\* The smaller of two numbers.
LEMMA MinOfTwo ==
    ASSUME NEW a \in Int, NEW b \in Int
    PROVE  Min({a, b}) = IF a <= b THEN a ELSE b
BY DEF Min

-----------------------------------------------------------------------------
(* Folding groups onto classes                                              *)

\* The three kinds of traffic.
KindNames == {"strict", "pfc", "be"}

\* Every group has one of them.
LEMMA KindType ==
    ASSUME NEW c, NEW flow, NEW g
    PROVE  Kind(c, flow, g) \in KindNames
BY DEF Kind, KindNames

\* The groups of a configuration are few.
LEMMA GroupsFinite ==
    ASSUME NEW c, c.pgid \in [UP -> UP], NEW flow
    PROVE  /\ Groups(c) \subseteq 0..N /\ Groups(c) # {} /\ IsFiniteSet(Groups(c))
           /\ \A k : /\ IsFiniteSet(OfKind(c, flow, k))
                     /\ Cardinality(OfKind(c, flow, k)) \in Nat
                     /\ Cardinality(OfKind(c, flow, k)) = 0 <=> OfKind(c, flow, k) = {}
<1>1. N \in Nat /\ N >= 1 /\ 0 \in UP
    BY NAssumption DEF UP
<1>2. Groups(c) \subseteq 0..N /\ Groups(c) # {}
    <2>1. \A u \in UP : c.pgid[u] \in UP /\ c.pgid[u] \in 0..N
        BY <1>1 DEF UP
    <2> QED
        BY <1>1, <2>1 DEF Groups
<1>3. IsFiniteSet(0..N)
    BY <1>1, FS_Interval
<1>4. IsFiniteSet(Groups(c))
    BY <1>2, <1>3, FS_Subset
<1>5. ASSUME NEW k
      PROVE  /\ IsFiniteSet(OfKind(c, flow, k))
             /\ Cardinality(OfKind(c, flow, k)) \in Nat
             /\ Cardinality(OfKind(c, flow, k)) = 0 <=> OfKind(c, flow, k) = {}
    <2>1. OfKind(c, flow, k) \in SUBSET Groups(c)
        BY DEF OfKind
    <2>2. IsFiniteSet(OfKind(c, flow, k))
        BY <1>4, <2>1, FS_Subset
    <2> QED
        BY <2>2, FS_CardinalityType, FS_EmptySet
<1> QED
    BY <1>2, <1>4, <1>5

\* A kind occurs among the groups.
Occurs(c, flow, k) == IF Cardinality(OfKind(c, flow, k)) > 0 THEN 1 ELSE 0

\* The number of kinds that occur.
LEMMA KindsCounted ==
    ASSUME NEW c, c.pgid \in [UP -> UP], NEW flow
    PROVE  Cardinality(Kinds(c, flow))
           = Occurs(c, flow, "strict") + Occurs(c, flow, "pfc") + Occurs(c, flow, "be")
<1> DEFINE K == Kinds(c, flow)
<1>1. K \subseteq KindNames
    BY KindType DEF Kinds
<1>2. ASSUME NEW k PROVE Occurs(c, flow, k) = IF k \in K THEN 1 ELSE 0
    <2>1. k \in K <=> OfKind(c, flow, k) # {}
        BY DEF Kinds, OfKind
    <2>2. /\ Cardinality(OfKind(c, flow, k)) \in Nat
          /\ Cardinality(OfKind(c, flow, k)) = 0 <=> OfKind(c, flow, k) = {}
        BY GroupsFinite
    <2> QED
        BY <2>1, <2>2 DEF Occurs
<1> DEFINE A == IF "strict" \in K THEN {"strict"} ELSE {}
           B == IF "pfc" \in K THEN A \cup {"pfc"} ELSE A
           D == IF "be" \in K THEN B \cup {"be"} ELSE B
<1>3. K = D
    BY <1>1 DEF KindNames
<1>4. /\ IsFiniteSet(A) /\ "pfc" \notin A /\ "be" \notin A
      /\ Cardinality(A) = IF "strict" \in K THEN 1 ELSE 0
    <2>1. CASE "strict" \in K
        BY <2>1, FS_Singleton
    <2>2. CASE "strict" \notin K
        BY <2>2, FS_EmptySet
    <2> QED
        BY <2>1, <2>2
<1>5. /\ IsFiniteSet(B) /\ "be" \notin B
      /\ Cardinality(B) = Cardinality(A) + (IF "pfc" \in K THEN 1 ELSE 0)
    <2>1. CASE "pfc" \in K
        BY <2>1, <1>4, FS_AddElement
    <2>2. CASE "pfc" \notin K
        BY <2>2, <1>4
    <2> QED
        BY <2>1, <2>2
<1>6. Cardinality(D) = Cardinality(B) + (IF "be" \in K THEN 1 ELSE 0)
    <2>1. CASE "be" \in K
        BY <2>1, <1>5, FS_AddElement, ZenonT(60)
    <2>2. CASE "be" \notin K
        <3>1. Cardinality(B) \in Nat
            BY <1>5, FS_CardinalityType
        <3> QED
            BY <2>2, <3>1
    <2> QED
        BY <2>1, <2>2
<1> HIDE DEF K, A, B, D
<1> QED
    BY <1>2, <1>3, <1>4, <1>5, <1>6 DEF K

\* Every kind that occurs gets a class, and together they get no more than
\* there are.
LEMMA ClassSizes ==
    ASSUME NEW c, c.pgid \in [UP -> UP], NEW flow, NEW n \in 1..N,
           n >= Cardinality(Kinds(c, flow))
    PROVE  LET s == Classes(c, flow, n)
           IN  /\ s.strict \in Nat /\ s.pfc \in Nat /\ s.be \in Nat
               /\ s.be + s.pfc + s.strict <= n
               /\ \A k \in KindNames : s[k] >= Occurs(c, flow, k)
<1> DEFINE cs == Cardinality(OfKind(c, flow, "strict"))
           cp == Cardinality(OfKind(c, flow, "pfc"))
           cb == Cardinality(OfKind(c, flow, "be"))
           hs == Occurs(c, flow, "strict")
           hp == Occurs(c, flow, "pfc")
           hb == Occurs(c, flow, "be")
           st == Min({cs, n - hb - hp})
           fl == Min({cp, n - st - hb})
           be == Min({cb, n - st - fl})
<1>1. n \in Nat /\ cs \in Nat /\ cp \in Nat /\ cb \in Nat
    BY GroupsFinite, NAssumption
<1>2. /\ hs = IF cs > 0 THEN 1 ELSE 0
      /\ hp = IF cp > 0 THEN 1 ELSE 0
      /\ hb = IF cb > 0 THEN 1 ELSE 0
    BY DEF Occurs
<1>3. n >= hs + hp + hb
    BY KindsCounted
<1>4. Classes(c, flow, n) = [strict |-> st, pfc |-> fl, be |-> be]
    BY DEF Classes, Occurs
<1> HIDE DEF cs, cp, cb, hs, hp, hb
<1>5. st \in Nat /\ st >= hs /\ st <= n - hb - hp
    <2>1. n - hb - hp \in Int
        BY <1>1, <1>2
    <2>2. st = IF cs <= n - hb - hp THEN cs ELSE n - hb - hp
        BY <1>1, <2>1, MinOfTwo
    <2> HIDE DEF st
    <2> QED
        BY <1>1, <1>2, <1>3, <2>2
<1> HIDE DEF st
<1>6. fl \in Nat /\ fl >= hp /\ fl <= n - st - hb
    <2>1. n - st - hb \in Int
        BY <1>1, <1>2, <1>5
    <2>2. fl = IF cp <= n - st - hb THEN cp ELSE n - st - hb
        BY <1>1, <2>1, MinOfTwo
    <2> HIDE DEF fl
    <2> QED
        BY <1>1, <1>2, <1>5, <2>2
<1> HIDE DEF fl
<1>7. be \in Nat /\ be >= hb /\ be <= n - st - fl
    <2>1. n - st - fl \in Int
        BY <1>1, <1>5, <1>6
    <2>2. be = IF cb <= n - st - fl THEN cb ELSE n - st - fl
        BY <1>1, <2>1, MinOfTwo
    <2> HIDE DEF be
    <2> QED
        BY <1>1, <1>2, <1>5, <1>6, <2>2
<1> HIDE DEF be
<1>8. be + fl + st <= n
    BY <1>1, <1>5, <1>6, <1>7
<1> QED
    BY <1>4, <1>5, <1>6, <1>7, <1>8 DEF KindNames, hs, hp, hb

\* Where the classes of a kind begin.
Base(size, k) == CASE k = "be" -> 0 [] k = "pfc" -> size.be [] OTHER -> size.be + size.pfc

\* The new group is one of the classes of its kind.
LEMMA NewPgidRange ==
    ASSUME NEW c, c.pgid \in [UP -> UP], NEW flow, NEW n \in 1..N,
           n >= Cardinality(Kinds(c, flow)), NEW g \in Groups(c)
    PROVE  LET s == Classes(c, flow, n)
               k == Kind(c, flow, g)
               p == NewPgid(c, flow, s, g)
           IN  /\ p \in Int /\ s[k] \in Nat /\ Base(s, k) \in Nat
               /\ Base(s, k) <= p /\ p < Base(s, k) + s[k] /\ p < n
<1> DEFINE s == Classes(c, flow, n)
           k == Kind(c, flow, g)
           turn == Cardinality({h \in OfKind(c, flow, k) : h < g})
<1>1. /\ s.strict \in Nat /\ s.pfc \in Nat /\ s.be \in Nat
      /\ s.be + s.pfc + s.strict <= n
      /\ \A j \in KindNames : s[j] >= Occurs(c, flow, j)
    BY ClassSizes
<1>2. k \in KindNames
    BY KindType
<1>3. Occurs(c, flow, k) = 1
    <2>1. g \in OfKind(c, flow, k)
        BY DEF OfKind
    <2> QED
        BY <2>1, GroupsFinite DEF Occurs
<1>4. turn \in Nat
    <2>1. {h \in OfKind(c, flow, k) : h < g} \in SUBSET OfKind(c, flow, k)
        OBVIOUS
    <2> QED
        BY <2>1, GroupsFinite, FS_Subset, FS_CardinalityType
<1>5. NewPgid(c, flow, s, g) = Base(s, k) + (turn % s[k])
    BY DEF NewPgid, Base
<1> HIDE DEF s, k, turn
<1>6. s[k] \in Nat /\ s[k] >= 1
    BY <1>1, <1>2, <1>3 DEF KindNames
<1>7. turn % s[k] \in 0..(s[k] - 1)
    BY <1>4, <1>6
<1>8. Base(s, k) \in Nat /\ Base(s, k) + s[k] <= n
    BY <1>1, <1>2, NAssumption DEF KindNames, Base
<1> DEFINE p == NewPgid(c, flow, s, g)
<1>9. p \in Int /\ Base(s, k) <= p /\ p < Base(s, k) + s[k] /\ p < n
    <2>1. n \in Nat
        BY NAssumption
    <2> QED
        BY <1>5, <1>6, <1>7, <1>8, <2>1
<1> HIDE DEF p
<1> QED
    BY <1>6, <1>8, <1>9 DEF s, k, p

\* Classes of different kinds do not overlap.
LEMMA FoldSeparates ==
    ASSUME NEW c, c.pgid \in [UP -> UP], NEW flow, NEW n \in 1..N,
           n >= Cardinality(Kinds(c, flow)), NEW g \in Groups(c), NEW h \in Groups(c),
           NewPgid(c, flow, Classes(c, flow, n), g) = NewPgid(c, flow, Classes(c, flow, n), h)
    PROVE  Kind(c, flow, g) = Kind(c, flow, h)
<1> DEFINE s == Classes(c, flow, n)
           k == Kind(c, flow, g)
           j == Kind(c, flow, h)
           p == NewPgid(c, flow, s, g)
<1>1. /\ p \in Int /\ s[k] \in Nat /\ Base(s, k) \in Nat
      /\ Base(s, k) <= p /\ p < Base(s, k) + s[k]
    BY NewPgidRange
<1>2. /\ s[j] \in Nat /\ Base(s, j) \in Nat
      /\ Base(s, j) <= p /\ p < Base(s, j) + s[j]
    BY NewPgidRange
<1>3. s.strict \in Nat /\ s.pfc \in Nat /\ s.be \in Nat
    BY ClassSizes
<1>4. k \in KindNames /\ j \in KindNames
    BY KindType
<1> HIDE DEF s, k, j, p
<1>5. k = j
    BY <1>1, <1>2, <1>3, <1>4 DEF KindNames, Base
<1> QED
    BY <1>5 DEF k, j

\* What every configuration has.
Fields == {"pgid", "bwg", "rbwg", "strict", "cap", "pct"}
Whole(c) == DOMAIN c = Fields /\ c.pgid \in [UP -> UP]

\* The check repairs a configuration; one that it accepts has no more groups
\* than there are classes, and none that mixes kinds of traffic.
LEMMA CheckSound ==
    ASSUME NEW c, Whole(c), NEW flow, NEW n \in 1..N
    PROVE  LET r == dcb_check_config(c, flow, n)
           IN  /\ Whole(r.cfg) /\ r.cfg.strict = c.strict
               /\ r.status = "cmd_success" =>
                    /\ \A u \in UP : r.cfg.pgid[u] < n
                    /\ \A u, v \in UP : r.cfg.pgid[u] = r.cfg.pgid[v] =>
                          Kind(c, flow, c.pgid[u]) = Kind(c, flow, c.pgid[v])
                    /\ r.cfg.bwg = Own /\ Judges(r.cfg)
<1> DEFINE r == dcb_check_config(c, flow, n)
           f == dcb_fixup_pg(c, flow, n)
<1>1. DOMAIN c = Fields /\ c.pgid \in [UP -> UP]
    BY DEF Whole
<1>2. n \in Nat /\ n <= N /\ N \in Nat
    BY NAssumption
<1>3. CASE Folds(c, n) /\ n < Cardinality(Kinds(c, flow))
    BY <1>3 DEF dcb_check_config
<1>4. CASE ~Folds(c, n)
    <2>0. r.status = "cmd_success" => Judges(f)
        BY <1>4 DEF dcb_check_config
    <2>1. r.cfg = f /\ f = [c EXCEPT !.bwg = Own, !.rbwg = Own]
        BY <1>4 DEF dcb_check_config, dcb_fixup_pg
    <2>2. DOMAIN f = Fields /\ f.pgid = c.pgid /\ f.bwg = Own /\ f.strict = c.strict
        BY <1>1, <2>1 DEF Fields
    <2>3. \A u \in UP : c.pgid[u] < n
        <3>1. \A u \in UP : c.pgid[u] \in Int /\ ~(c.pgid[u] + 1 > n)
            BY <1>1, <1>2, <1>4 DEF Folds, UP
        <3> QED
            BY <1>2, <3>1
    <2> HIDE DEF f, r
    <2> QED
        BY <1>1, <2>0, <2>1, <2>2, <2>3 DEF Whole, r
<1>5. CASE Folds(c, n) /\ ~(n < Cardinality(Kinds(c, flow)))
    <2> DEFINE size == Classes(c, flow, n)
               new == [u \in UP |-> NewPgid(c, flow, size, c.pgid[u])]
    <2>1. r.cfg = f /\ (r.status = "cmd_success" => Judges(f))
        BY <1>5 DEF dcb_check_config
    <2>2. DOMAIN f = Fields /\ f.pgid = new /\ f.bwg = Own /\ f.strict = c.strict
        <3>1. [u \in UP |-> IF c.pgid[u] \in UP
                             THEN NewPgid(c, flow, size, c.pgid[u]) ELSE c.pgid[u]] = new
            BY <1>1
        <3>2. f = [c EXCEPT !.pgid = new, !.bwg = Own,
                       !.cap = [u \in UP |-> IF c.strict[u] THEN 0 ELSE BW_PERCENT],
                       !.pct = tcbw(c, flow, n)]
            BY <1>5, <3>1 DEF dcb_fixup_pg
        <3> HIDE DEF f, new
        <3> QED
            BY <1>1, <3>2 DEF Fields
    <2>3. n >= Cardinality(Kinds(c, flow))
        <3>1. Cardinality(Kinds(c, flow)) \in Nat
            BY <1>1, KindsCounted DEF Occurs
        <3> QED
            BY <1>2, <1>5, <3>1
    <2>4. \A u \in UP : c.pgid[u] \in Groups(c)
        BY <1>1 DEF Groups
    <2>5. ASSUME NEW u \in UP PROVE new[u] \in UP /\ new[u] < n
        <3>1. new[u] = NewPgid(c, flow, size, c.pgid[u])
            OBVIOUS
        <3>2. new[u] \in Int /\ 0 <= new[u] /\ new[u] < n
            BY <1>1, <2>3, <2>4, <3>1, NewPgidRange
        <3> QED
            BY <1>2, <3>2 DEF UP
    <2>6. ASSUME NEW u \in UP, NEW v \in UP, new[u] = new[v]
          PROVE  Kind(c, flow, c.pgid[u]) = Kind(c, flow, c.pgid[v])
        <3>1. NewPgid(c, flow, size, c.pgid[u]) = NewPgid(c, flow, size, c.pgid[v])
            BY <2>6
        <3> QED
            BY <1>1, <2>3, <2>4, <3>1, FoldSeparates
    <2>7. new \in [UP -> UP]
        BY <2>5
    <2> HIDE DEF new, f, r
    <2>8. Whole(r.cfg)
        BY <2>1, <2>2, <2>7 DEF Whole
    <2>9. /\ \A u \in UP : r.cfg.pgid[u] < n
          /\ \A u, v \in UP : r.cfg.pgid[u] = r.cfg.pgid[v] =>
                Kind(c, flow, c.pgid[u]) = Kind(c, flow, c.pgid[v])
        BY <2>1, <2>2, <2>5, <2>6
    <2> QED
        BY <2>1, <2>2, <2>8, <2>9 DEF r
<1> QED
    BY <1>3, <1>4, <1>5

\* Once accepted, always accepted: there is nothing left to fold, and what the
\* rules looked at is as it was.
LEMMA CheckAgain ==
    ASSUME NEW c, Whole(c), NEW n \in 1..N, NEW flow,
           \A u \in UP : c.pgid[u] < n, c.bwg = Own, Judges(c)
    PROVE  dcb_check_config(c, flow, n).status = "cmd_success"
<1> DEFINE f == [c EXCEPT !.bwg = Own, !.rbwg = Own]
<1>1. DOMAIN c = Fields /\ c.pgid \in [UP -> UP] /\ N \in Nat /\ n \in Nat
    BY NAssumption DEF Whole
<1>2. ~Folds(c, n)
    <2>1. \A u \in UP : c.pgid[u] \in Int /\ c.pgid[u] < n
        BY <1>1 DEF UP
    <2> QED
        BY <1>1, <2>1 DEF Folds
<1>3. dcb_fixup_pg(c, flow, n) = f
    BY <1>2 DEF dcb_fixup_pg
<1>4. /\ f.pgid = c.pgid /\ f.strict = c.strict /\ f.cap = c.cap /\ f.pct = c.pct
      /\ f.bwg = Own /\ f.rbwg = Own
    BY <1>1 DEF Fields
<1> HIDE DEF f
<1>5. OneStrictGroup(f) /\ LinkAddsUp(f) /\ \A u \in UP : f.strict[u] <=> f.cap[u] = 0
    BY <1>4 DEF Judges, OneStrictGroup, LinkAddsUp
<1>6. SharesAddUp(f, Own)
    BY <1>4 DEF Judges, SharesAddUp
<1>7. Judges(f)
    BY <1>4, <1>5, <1>6 DEF Judges
<1> QED
    BY <1>2, <1>3, <1>7 DEF dcb_check_config

\* Even shares change no group and no kind of traffic.
LEMMA RebalanceSound ==
    ASSUME NEW c, Whole(c)
    PROVE  LET b == rebalance_uppcts(c)
           IN  Whole(b) /\ b.pgid = c.pgid /\ b.strict = c.strict
<1>1. DOMAIN c = Fields /\ c.pgid \in [UP -> UP]
    BY DEF Whole
<1>2. \E x : rebalance_uppcts(c) = [c EXCEPT !.cap = x]
    BY DEF rebalance_uppcts
<1>3. PICK x : rebalance_uppcts(c) = [c EXCEPT !.cap = x]
    BY <1>2
<1> QED
    BY <1>1, <1>3 DEF Whole, Fields

\* Link strict priorities leave a group unused: fewer than N priorities are
\* left to use the N groups.
LEMMA FirstUnusedIsGroup ==
    ASSUME NEW pgid \in [UP -> UP \cup {LINK_STRICT_PGID}],
           NEW s \in UP, pgid[s] = LINK_STRICT_PGID,
           NEW used, used = {pgid[u] : u \in UP} \cap UP
    PROVE  FirstUnused(used) \in UP /\ FirstUnused(used) \notin used
<1>1. N \in Nat /\ N >= 1 /\ N \notin UP /\ UP = 0..(N - 1)
    BY NAssumption DEF UP
<1>2. ASSUME UP \subseteq used PROVE FALSE
    <2> DEFINE S == UP \ {s}
               f == [u \in S |-> IF pgid[u] \in UP THEN pgid[u] ELSE 0]
    <2>1. \A u \in S : f[u] \in UP
        BY <1>1
    <2>2. f \in [S -> UP]
        BY <2>1
    <2>3. \A y \in UP : \E u \in S : f[u] = y
        <3> TAKE y \in UP
        <3>1. PICK u \in UP : y = pgid[u]
            BY <1>2
        <3>2. u # s
            BY <3>1, <1>1, StraysAssumption DEF LINK_STRICT_PGID
        <3> QED
            BY <3>1, <3>2
    <2>4. f \in Surjection(S, UP)
        BY <2>2, <2>3 DEF Surjection
    <2>5. IsFiniteSet(UP) /\ Cardinality(UP) = N
        BY <1>1, FS_Interval
    <2>6. IsFiniteSet(S) /\ Cardinality(S) = N - 1
        BY <2>5, FS_RemoveElement
    <2>7. Cardinality(UP) <= Cardinality(S)
        BY <2>4, <2>6, FS_Surjection
    <2> QED
        BY <1>1, <2>5, <2>6, <2>7
<1>3. PICK x \in UP : x \notin used
    BY <1>2
<1>4. (0..N) \ used \in SUBSET Nat /\ x \in (0..N) \ used
    <2>1. x \in 0..N
        BY <1>1
    <2>2. 0..N \subseteq Nat
        BY <1>1
    <2> QED
        BY <1>3, <2>1, <2>2
<1>5. /\ FirstUnused(used) \in (0..N) \ used
      /\ \A y \in (0..N) \ used : FirstUnused(used) <= y
    BY <1>4, MinOfNats DEF FirstUnused
<1>6. FirstUnused(used) \in 0..N /\ FirstUnused(used) \notin used /\ FirstUnused(used) <= x
    BY <1>4, <1>5
<1>7. x \in 0..(N - 1)
    BY <1>1
<1>8. FirstUnused(used) \in 0..(N - 1)
    BY <1>1, <1>6, <1>7
<1> QED
    BY <1>1, <1>6, <1>8

\* The groups that link strict priorities are put in, by a TLV or a command.
Given(pgid, used) ==
    [u \in UP |-> IF pgid[u] = LINK_STRICT_PGID THEN FirstUnused(used) ELSE pgid[u]]

\* They are groups, and those of different groups stay apart.
LEMMA GivenGroups ==
    ASSUME NEW pgid \in [UP -> UP \cup {LINK_STRICT_PGID}],
           NEW used, used = {pgid[u] : u \in UP} \cap UP
    PROVE  /\ Given(pgid, used) \in [UP -> UP]
           /\ \A u, v \in UP : Given(pgid, used)[u] = Given(pgid, used)[v] <=> pgid[u] = pgid[v]
<1>1. ASSUME NEW u \in UP, pgid[u] = LINK_STRICT_PGID
      PROVE  FirstUnused(used) \in UP /\ FirstUnused(used) \notin used
    BY <1>1, FirstUnusedIsGroup
<1>2. \A u \in UP : pgid[u] # LINK_STRICT_PGID => pgid[u] \in UP /\ pgid[u] \in used
    OBVIOUS
<1>3. \A u \in UP : Given(pgid, used)[u] \in UP
    BY <1>1, <1>2 DEF Given
<1>4. Given(pgid, used) \in [UP -> UP]
    BY <1>3 DEF Given
<1>5. ASSUME NEW u \in UP, NEW v \in UP
      PROVE  Given(pgid, used)[u] = Given(pgid, used)[v] <=> pgid[u] = pgid[v]
    BY <1>1, <1>2 DEF Given
<1> QED
    BY <1>4, <1>5

\* What process_dcbx2_pg_tlv makes of a neighbour's groups.
LEMMA CeeGroups ==
    ASSUME NEW pgid \in [UP -> UP \cup {LINK_STRICT_PGID}], NEW pct
    PROVE  LET c == process_dcbx2_pg_tlv(pgid, pct)
           IN  /\ Whole(c)
               /\ c.strict = [u \in UP |-> pgid[u] = LINK_STRICT_PGID]
               /\ \A u, v \in UP : c.pgid[u] = c.pgid[v] <=> pgid[u] = pgid[v]
<1> DEFINE strict == [u \in UP |-> pgid[u] = LINK_STRICT_PGID]
           used == {pgid[u] : u \in {v \in UP : ~strict[v]}}
           c == process_dcbx2_pg_tlv(pgid, pct)
<1>1. used = {pgid[u] : u \in UP} \cap UP
    <2>1. LINK_STRICT_PGID \notin UP
        BY NAssumption, StraysAssumption DEF LINK_STRICT_PGID, UP
    <2> QED
        BY <2>1
<1>2. [u \in UP |-> IF strict[u] THEN FirstUnused(used) ELSE pgid[u]] = Given(pgid, used)
    BY DEF Given
<1>3. c = [pgid |-> Given(pgid, used), bwg |-> Own, rbwg |-> Own, strict |-> strict,
           cap |-> [u \in UP |-> 0], pct |-> pct]
    BY <1>2 DEF process_dcbx2_pg_tlv
<1>4. /\ Given(pgid, used) \in [UP -> UP]
      /\ \A u, v \in UP : Given(pgid, used)[u] = Given(pgid, used)[v] <=> pgid[u] = pgid[v]
    <2> HIDE DEF used
    <2> QED
        BY <1>1, GivenGroups
<1>5. DOMAIN c = Fields /\ c.pgid = Given(pgid, used) /\ c.strict = strict
    <2> HIDE DEF c, strict, used
    <2> QED
        BY <1>3 DEF Fields
<1>6. Whole(c)
    <2> HIDE DEF c, used
    <2> QED
        BY <1>4, <1>5 DEF Whole
<1>7. \A u, v \in UP : c.pgid[u] = c.pgid[v] <=> pgid[u] = pgid[v]
    <2> HIDE DEF c, used
    <2> QED
        BY <1>4, <1>5
<1>8. c.strict = [u \in UP |-> pgid[u] = LINK_STRICT_PGID]
    BY <1>5
<1> HIDE DEF c
<1> QED
    BY <1>6, <1>7, <1>8 DEF c

\* The kind of traffic asked for with these groups.
AskedFor(pgid, flow, u) ==
    LET first == Min({v \in UP : pgid[v] = pgid[u]})
    IN  CASE pgid[u] = LINK_STRICT_PGID -> "strict"
          [] pgid[u] # LINK_STRICT_PGID /\ first \in flow -> "pfc"
          [] OTHER -> "be"

\* The kind of traffic of a group is what the neighbour asked for.
LEMMA CeeKinds ==
    ASSUME NEW pgid \in [UP -> UP \cup {LINK_STRICT_PGID}], NEW c, NEW flow, NEW u \in UP,
           c.strict = [w \in UP |-> pgid[w] = LINK_STRICT_PGID],
           \A w, v \in UP : c.pgid[w] = c.pgid[v] <=> pgid[w] = pgid[v]
    PROVE  Kind(c, flow, c.pgid[u]) = AskedFor(pgid, flow, u)
<1> DEFINE S == {v \in UP : pgid[v] = pgid[u]}
           first == Min(S)
<1>1. {v \in UP : c.pgid[v] = c.pgid[u]} = S
    OBVIOUS
<1>2. S \in SUBSET Nat /\ S # {}
    BY NAssumption DEF UP
<1>3. first \in UP /\ pgid[first] = pgid[u]
    BY <1>2, MinOfNats
<1>4. c.strict[first] <=> pgid[u] = LINK_STRICT_PGID
    <2> HIDE DEF S, first
    <2>1. c.strict[first] = (pgid[first] = LINK_STRICT_PGID)
        BY <1>3
    <2> QED
        BY <1>3, <2>1
<1>5. Kind(c, flow, c.pgid[u]) =
         CASE c.strict[first] -> "strict"
           [] ~c.strict[first] /\ first \in flow -> "pfc"
           [] OTHER -> "be"
    BY <1>1 DEF Kind
<1> HIDE DEF first, S
<1>6. CASE pgid[u] = LINK_STRICT_PGID
    BY <1>4, <1>5, <1>6 DEF first, S, AskedFor
<1>7. CASE pgid[u] # LINK_STRICT_PGID
    BY <1>4, <1>5, <1>7 DEF first, S, AskedFor
<1> QED
    BY <1>6, <1>7

\* A fold of groups stays in the matrix, and in the classes too unless every
\* group is link strict.
LEMMA FoldInside ==
    ASSUME NEW c, Whole(c), NEW flow, NEW n \in 1..N
    PROVE  /\ WildFold(c, flow, n) \subseteq {"tcbw"}
           /\ "tcbw" \in WildFold(c, flow, n) =>
                 Folds(c, n) /\ \A g \in Groups(c) : Kind(c, flow, g) = "strict"
<1>1. c.pgid \in [UP -> UP] /\ n \in Nat /\ n <= N /\ N \in Nat
    BY NAssumption DEF Whole
<1>2. WildFold(c, flow, n) \subseteq {"tcbw"}
    BY <1>1 DEF WildFold
<1>3. ASSUME "tcbw" \in WildFold(c, flow, n)
      PROVE  /\ Folds(c, n) /\ n >= Cardinality(Kinds(c, flow))
             /\ Leftover(c, flow, n) \notin UP
    BY <1>3 DEF WildFold, Kinds
<1>4. ASSUME "tcbw" \in WildFold(c, flow, n), NEW g \in Groups(c),
             Kind(c, flow, g) # "strict"
      PROVE  FALSE
    <2> DEFINE s == Classes(c, flow, n)
               k == Kind(c, flow, g)
    <2>1. /\ s.strict \in Nat /\ s.pfc \in Nat /\ s.be \in Nat
          /\ s.be + s.pfc + s.strict <= n
          /\ \A j \in KindNames : s[j] >= Occurs(c, flow, j)
        BY <1>1, <1>3, <1>4, ClassSizes
    <2>2. k \in KindNames /\ k # "strict"
        BY <1>4, KindType
    <2>3. Occurs(c, flow, k) = 1
        <3>1. g \in OfKind(c, flow, k)
            BY DEF OfKind
        <3> QED
            BY <1>1, <3>1, GroupsFinite DEF Occurs
    <2>4. Leftover(c, flow, n) = n - s.strict - 1
        BY DEF Leftover
    <2> HIDE DEF s, k
    <2>5. s.strict + 1 <= n
        BY <1>1, <2>1, <2>2, <2>3 DEF KindNames
    <2>6. Leftover(c, flow, n) \in UP
        BY <1>1, <2>1, <2>4, <2>5 DEF UP
    <2> QED
        BY <1>3, <1>4, <2>6
<1> QED
    BY <1>2, <1>3, <1>4

\* A group is link strict only if one of its priorities is.
LEMMA StrictKind ==
    ASSUME NEW c, Whole(c), NEW flow, NEW g \in Groups(c), Kind(c, flow, g) = "strict"
    PROVE  \E u \in UP : c.pgid[u] = g /\ c.strict[u]
<1> DEFINE S == {u \in UP : c.pgid[u] = g}
<1>1. S \in SUBSET Nat /\ S # {}
    BY NAssumption DEF UP, Groups
<1>2. Min(S) \in S
    BY <1>1, MinOfNats
<1>3. c.strict[Min(S)]
    BY DEF Kind
<1> QED
    BY <1>2, <1>3

\* Without link strict priorities the leftover bandwidth has a class.
LEMMA NotStrictNotWild ==
    ASSUME NEW c, Whole(c), NEW flow, NEW n \in 1..N, \A u \in UP : ~c.strict[u]
    PROVE  WildFold(c, flow, n) = {}
<1>1. Groups(c) # {}
    BY GroupsFinite DEF Whole
<1>2. PICK g \in Groups(c) : TRUE
    BY <1>1
<1>3. Kind(c, flow, g) # "strict"
    BY StrictKind
<1> QED
    BY <1>2, <1>3, FoldInside

\* Configurations a port starts with.
LEMMA AdapterSound ==
    ASSUME NEW flow, NEW n \in 1..N
    PROVE  /\ Whole(dcbx_add_adapter(flow, n))
           /\ \A u \in UP : ~dcbx_add_adapter(flow, n).strict[u]
           /\ WildFold(add_pg_defaults, flow, n) = {}
<1>1. /\ DOMAIN add_pg_defaults = Fields /\ add_pg_defaults.pgid = Own
      /\ add_pg_defaults.strict = [u \in UP |-> FALSE]
    BY DEF add_pg_defaults, Fields
<1>2. Whole(add_pg_defaults)
    BY <1>1 DEF Own, Whole
<1>3. /\ Whole(dcbx_add_adapter(flow, n))
      /\ dcbx_add_adapter(flow, n).strict = add_pg_defaults.strict
    BY <1>2, CheckSound DEF dcbx_add_adapter
<1>4. \A u \in UP : ~add_pg_defaults.strict[u]
    BY <1>1
<1>5. WildFold(add_pg_defaults, flow, n) = {}
    BY <1>2, <1>4, NotStrictNotWild
<1> QED
    BY <1>3, <1>4, <1>5

\* Fits the device and satisfies the rules.
Settled(c, n) == (\A u \in UP : c.pgid[u] < n) /\ c.bwg = Own /\ Judges(c)

\* What a command is checked to.
LEMMA CommandSound ==
    ASSUME NEW c, Whole(c), NEW shares, NEW n \in 1..N
    PROVE  LET r == CheckedCommand(c, shares, n)
           IN  Whole(r.cfg) /\ (r.status = "cmd_success" => Settled(r.cfg, n))
<1> DEFINE first == dcb_check_config(c, {}, n)
<1>1. Whole(first.cfg) /\ (first.status = "cmd_success" => Settled(first.cfg, n))
    BY CheckSound DEF Settled
<1>2. Whole(rebalance_uppcts(first.cfg))
    BY <1>1, RebalanceSound
<1> DEFINE second == dcb_check_config(rebalance_uppcts(first.cfg), {}, n)
<1>3. Whole(second.cfg) /\ (second.status = "cmd_success" => Settled(second.cfg, n))
    BY <1>2, CheckSound DEF Settled
<1>4. CheckedCommand(c, shares, n) \in {first, second}
    BY DEF CheckedCommand
<1> HIDE DEF first, second
<1> QED
    BY <1>1, <1>3, <1>4

\* A user's groups.
LEMMA UserSound ==
    ASSUME Whole(cfg), NEW pgid \in [UP -> UP \cup {LINK_STRICT_PGID}], NEW pct
    PROVE  /\ Whole(UserGroups(pgid, pct))
           /\ UserGroups(pgid, pct).strict = [u \in UP |-> pgid[u] = LINK_STRICT_PGID]
           /\ UserGroups(pgid, pct).pgid = Given(pgid, {pgid[u] : u \in UP} \cap UP)
<1> DEFINE used == {pgid[u] : u \in UP} \cap UP
           strict == [u \in UP |-> pgid[u] = LINK_STRICT_PGID]
<1>1. [u \in UP |-> IF strict[u] THEN FirstUnused(used) ELSE pgid[u]] = Given(pgid, used)
    BY DEF Given
<1>2. UserGroups(pgid, pct) =
        [cfg EXCEPT !.pgid = Given(pgid, used), !.strict = strict, !.pct = pct]
    BY <1>1 DEF UserGroups
<1>3. Given(pgid, used) \in [UP -> UP]
    BY GivenGroups
<1>4. DOMAIN cfg = Fields
    BY DEF Whole
<1>5. /\ Whole(UserGroups(pgid, pct)) /\ UserGroups(pgid, pct).strict = strict
      /\ UserGroups(pgid, pct).pgid = Given(pgid, used)
    <2> HIDE DEF used, strict
    <2> QED
        BY <1>2, <1>3, <1>4 DEF Whole, Fields
<1> QED
    BY <1>5

\* Priorities that are all link strict are put in group 0.
LEMMA AllStrictInZero ==
    ASSUME NEW pgid, \A u \in UP : pgid[u] = LINK_STRICT_PGID
    PROVE  \A u \in UP : Given(pgid, {pgid[v] : v \in UP} \cap UP)[u] = 0
<1> DEFINE used == {pgid[v] : v \in UP} \cap UP
<1>1. N \in Nat /\ LINK_STRICT_PGID \notin UP
    BY NAssumption, StraysAssumption DEF LINK_STRICT_PGID, UP
<1>2. used = {}
    BY <1>1
<1>3. (0..N) \ used \in SUBSET Nat /\ 0 \in (0..N) \ used
    BY <1>1, <1>2
<1>4. FirstUnused(used) \in Nat /\ FirstUnused(used) <= 0
    BY <1>3, MinOfNats DEF FirstUnused
<1> HIDE DEF used
<1>5. \A u \in UP : Given(pgid, used)[u] = 0
    BY <1>4 DEF Given
<1> QED
    BY <1>5 DEF used

\* A user's groups are folded inside the arrays.
LEMMA UserNotWild ==
    ASSUME Whole(cfg), NEW pgid \in [UP -> UP \cup {LINK_STRICT_PGID}], NEW pct,
           NEW n \in 1..N
    PROVE  WildFold(UserGroups(pgid, pct), {}, n) = {}
<1> DEFINE c == UserGroups(pgid, pct)
           used == {pgid[u] : u \in UP} \cap UP
<1>1. /\ Whole(c) /\ c.strict = [u \in UP |-> pgid[u] = LINK_STRICT_PGID]
      /\ c.pgid = Given(pgid, used)
    BY UserSound
<1>2. \A u, v \in UP : c.pgid[u] = c.pgid[v] <=> pgid[u] = pgid[v]
    BY <1>1, GivenGroups
<1> HIDE DEF c
<1>3. CASE \A u \in UP : pgid[u] = LINK_STRICT_PGID
    <2>1. \A u \in UP : c.pgid[u] = 0
        BY <1>1, <1>3, AllStrictInZero
    <2>2. ~Folds(c, n)
        BY <2>1, NAssumption DEF Folds
    <2> QED
        BY <2>2 DEF WildFold, c
<1>4. CASE \E u \in UP : pgid[u] # LINK_STRICT_PGID
    <2>1. PICK u \in UP : pgid[u] # LINK_STRICT_PGID
        BY <1>4
    <2>2. Kind(c, {}, c.pgid[u]) # "strict"
        <3>1. c.strict = [w \in UP |-> pgid[w] = LINK_STRICT_PGID]
            BY <1>1
        <3>2. ASSUME NEW flow PROVE Kind(c, flow, c.pgid[u]) = AskedFor(pgid, flow, u)
            BY <3>1, <1>2, CeeKinds
        <3>3. Kind(c, {}, c.pgid[u]) = AskedFor(pgid, {}, u)
            BY <3>2
        <3> QED
            BY <2>1, <3>3 DEF AskedFor
    <2>3. c.pgid[u] \in Groups(c)
        BY <1>1 DEF Groups, Whole
    <2> QED
        BY <1>1, <2>2, <2>3, FoldInside DEF c
<1> QED
    BY <1>3, <1>4

-----------------------------------------------------------------------------
(* From a TLV or a command to the driver                                    *)

\* What hw says of each class.
Told(h, c) == \A t \in UP : h[t].ups = {u \in UP : c.pgid[u] = t}

\* Where the configuration is: what a neighbour's TLV was unpacked to has the
\* kinds it asked for, and is in group 0 if it is all link strict, or all apart
\* if it is CIN; what the check accepted fits the device and keeps the kinds
\* apart; commands are not a neighbour's.
KindsAsked ==
    /\ asked.st = 2 => \A u \in UP : Kind(cfg, pfc, cfg.pgid[u]) = AskedKind(u)
    /\ asked.st = 2 /\ (\A u \in UP : asked.pgid[u] = LINK_STRICT_PGID) =>
          \A u \in UP : cfg.pgid[u] = 0
    /\ asked.st = 1 => cfg.pgid = Own
    /\ asked.st \in {1, 2}
Accepted ==
    /\ \A u \in UP : cfg.pgid[u] < tcs
    /\ asked.st = 2 => \A u, v \in UP : cfg.pgid[u] = cfg.pgid[v] => AskedKind(u) = AskedKind(v)

\* The driver was told of this configuration, or of the defaults.
ToldOf == IF hw.oper THEN Told(hw.tc, cfg) ELSE Told(hw.tc, add_pg_defaults)

\* With groups that are groups.
Path ==
    /\ Whole(cfg)
    /\ pc \in {"unpacked", "stored"} => KindsAsked
    /\ pc = "checked" => asked.st # 2 /\ Settled(cfg, tcs)
    /\ pc \in {"oper", "hw"} => Accepted
    /\ hw # Nothing => pc = "hw" /\ ToldOf
    /\ wild \subseteq {"tcbw"}
    /\ "tcbw" \in wild => asked.st = 1 /\ \A u \in UP : cfg.strict[u]

RuleInv ==
    /\ tcs \in 1..N
    /\ pc = "idle" => asked = Nothing /\ wild = {} /\ \A u \in UP : ~cfg.strict[u]
    /\ pc = "checked" => ~StrayAsked
    /\ pc # "lost"
    /\ ~StrayAsked => Path

\* A port that was just added.
LEMMA RulesInitially == RulesInit => RuleInv
BY AdapterSound DEF RulesInit, RuleInv, Path

\* The check before the driver is told.
LEMMA CheckAccepts ==
    ASSUME tcs \in 1..N, Whole(cfg), KindsAsked \/ asked.st \notin {1, 2},
           UNCHANGED <<tcs, pfc, asked>>, cfg' = dcb_check_config(cfg, pfc, tcs).cfg
    PROVE  /\ Whole(cfg)' /\ cfg'.strict = cfg.strict
           /\ dcb_check_config(cfg, pfc, tcs).status = "cmd_success" => Accepted'
<1> DEFINE r == dcb_check_config(cfg, pfc, tcs)
<1>1. /\ Whole(r.cfg) /\ r.cfg.strict = cfg.strict
      /\ r.status = "cmd_success" =>
            /\ \A u \in UP : r.cfg.pgid[u] < tcs
            /\ \A u, v \in UP : r.cfg.pgid[u] = r.cfg.pgid[v] =>
                  Kind(cfg, pfc, cfg.pgid[u]) = Kind(cfg, pfc, cfg.pgid[v])
    BY CheckSound
<1> HIDE DEF r
<1>2. cfg' = r.cfg
    BY DEF r
<1>3. Whole(cfg)' /\ cfg'.strict = cfg.strict
    BY <1>1, <1>2 DEF Whole
<1>4. ASSUME r.status = "cmd_success" PROVE Accepted'
    <2>1. \A u \in UP : cfg'.pgid[u] < tcs'
        BY <1>1, <1>2, <1>4
    <2>2. ASSUME asked'.st = 2, NEW u \in UP, NEW v \in UP, cfg'.pgid[u] = cfg'.pgid[v]
          PROVE  AskedKind(u)' = AskedKind(v)'
        <3>1. Kind(cfg, pfc, cfg.pgid[u]) = Kind(cfg, pfc, cfg.pgid[v])
            BY <1>1, <1>2, <1>4, <2>2
        <3>2. AskedKind(u) = AskedKind(v)
            BY <2>2, <3>1 DEF KindsAsked
        <3> QED
            BY <3>2 DEF AskedKind
    <2> QED
        BY <2>1, <2>2 DEF Accepted
<1> QED
    BY <1>3, <1>4 DEF r

\* What a neighbour asked for is folded inside the arrays, unless it is CIN and
\* all link strict.
LEMMA PeerInside ==
    ASSUME tcs \in 1..N, Whole(cfg), KindsAsked
    PROVE  LET w == WildFold(cfg, pfc, tcs)
           IN  /\ w \subseteq {"tcbw"}
               /\ "tcbw" \in w => asked.st = 1 /\ \A u \in UP : cfg.strict[u]
<1> DEFINE w == WildFold(cfg, pfc, tcs)
<1>1. /\ w \subseteq {"tcbw"}
      /\ "tcbw" \in w => Folds(cfg, tcs) /\ \A g \in Groups(cfg) : Kind(cfg, pfc, g) = "strict"
    BY FoldInside
<1> HIDE DEF w
<1>2. cfg.pgid \in [UP -> UP] /\ \A u \in UP : cfg.pgid[u] \in Groups(cfg)
    BY DEF Whole, Groups
<1>3. ASSUME "tcbw" \in w, asked.st = 2 PROVE FALSE
    <2>1. \A u \in UP : AskedKind(u) = "strict"
        BY <1>1, <1>2, <1>3 DEF KindsAsked
    <2>2. \A u \in UP : asked.pgid[u] = LINK_STRICT_PGID
        BY <2>1 DEF AskedKind
    <2>3. \A u \in UP : cfg.pgid[u] = 0
        BY <1>3, <2>2 DEF KindsAsked
    <2>4. ~Folds(cfg, tcs)
        BY <2>3, NAssumption DEF Folds
    <2> QED
        BY <1>1, <1>3, <2>4
<1>4. ASSUME "tcbw" \in w, asked.st = 1, NEW u \in UP PROVE cfg.strict[u]
    <2>1. Kind(cfg, pfc, cfg.pgid[u]) = "strict"
        BY <1>1, <1>2, <1>4
    <2>2. PICK v \in UP : cfg.pgid[v] = cfg.pgid[u] /\ cfg.strict[v]
        BY <1>2, <2>1, StrictKind
    <2>3. v = u
        BY <1>4, <2>2 DEF KindsAsked, Own
    <2> QED
        BY <2>2, <2>3
<1> QED
    BY <1>1, <1>3, <1>4 DEF KindsAsked, w

\* The path of a configuration, step by step.
LEMMA RuleStep == RuleInv /\ [RulesNext]_ruleVars => RuleInv'
<1> SUFFICES ASSUME RuleInv, [RulesNext]_ruleVars PROVE RuleInv'
    OBVIOUS
<1>0. tcs \in 1..N /\ (pc = "idle" => Path)
    BY DEF RuleInv, StrayAsked
<1>1. CASE ReceiveCee
    <2>1. PICK pgid \in [UP -> 0..LINK_STRICT_PGID], pct \in Pcts :
             /\ cfg' = process_dcbx2_pg_tlv(pgid, pct)
             /\ asked' = [st |-> 2, pgid |-> pgid, pct |-> pct, folds |-> Folds(cfg', tcs)]
             /\ wild' = IF \E u \in UP : pgid[u] \in Stray THEN {"used"} ELSE {}
        BY <1>1 DEF ReceiveCee
    <2>2. pc = "idle" /\ pc' = "unpacked" /\ UNCHANGED <<tcs, pfc, hw>>
        BY <1>1 DEF ReceiveCee
    <2>3. asked'.pgid = pgid /\ asked'.st = 2
        BY <2>1
    <2>4. ASSUME ~StrayAsked' PROVE Path'
        <3>1. asked' # Nothing
            BY <2>1 DEF Nothing
        <3>2. \A u \in UP : pgid[u] \notin Stray
            BY <2>3, <2>4, <3>1 DEF StrayAsked
        <3>3. pgid \in [UP -> UP \cup {LINK_STRICT_PGID}]
            <4>1. 0..LINK_STRICT_PGID = UP \cup Stray \cup {LINK_STRICT_PGID}
                BY NAssumption, StraysAssumption DEF LINK_STRICT_PGID, UP, Stray
            <4> QED
                BY <3>2, <4>1
        <3>4. /\ Whole(cfg)'
              /\ cfg'.strict = [u \in UP |-> pgid[u] = LINK_STRICT_PGID]
              /\ \A u, v \in UP : cfg'.pgid[u] = cfg'.pgid[v] <=> pgid[u] = pgid[v]
            BY <2>1, <3>3, CeeGroups DEF Whole
        <3>5. ASSUME NEW u \in UP PROVE Kind(cfg', pfc', cfg'.pgid[u]) = AskedKind(u)'
            <4>1. AskedKind(u)' = AskedFor(pgid, pfc', u)
                BY <2>3 DEF AskedKind, AskedFor
            <4> QED
                BY <4>1, <3>3, <3>4, CeeKinds
        <3>6. ASSUME \A u \in UP : pgid[u] = LINK_STRICT_PGID, NEW u \in UP
              PROVE  cfg'.pgid[u] = 0
            <4>1. cfg'.pgid[u] = FirstUnused({})
                <5> DEFINE strict == [v \in UP |-> pgid[v] = LINK_STRICT_PGID]
                           used == {pgid[w] : w \in {v \in UP : ~strict[v]}}
                <5>1. used = {} /\ strict[u]
                    BY <3>6
                <5>2. cfg'.pgid = [v \in UP |-> IF strict[v] THEN FirstUnused(used) ELSE pgid[v]]
                    <6>1. cfg' = [pgid |-> [v \in UP |-> IF strict[v] THEN FirstUnused(used)
                                                                   ELSE pgid[v]],
                                  bwg |-> Own, rbwg |-> Own, strict |-> strict,
                                  cap |-> [v \in UP |-> 0], pct |-> pct]
                        BY <2>1, Zenon DEF process_dcbx2_pg_tlv
                    <6> HIDE DEF strict, used
                    <6> QED
                        BY <6>1
                <5> HIDE DEF strict, used
                <5> QED
                    BY <5>1, <5>2
            <4>2. FirstUnused({}) = 0
                <5>1. (0..N) \ {} \in SUBSET Nat /\ 0 \in (0..N) \ {}
                    BY NAssumption
                <5> DEFINE S == (0..N) \ {}
                <5>2. Min(S) \in S /\ \A y \in S : Min(S) <= y
                    BY <5>1, MinOfNats
                <5>3. Min(S) \in Nat /\ Min(S) <= 0
                    BY <5>1, <5>2
                <5> QED
                    BY <5>3 DEF FirstUnused
            <4> QED
                BY <4>1, <4>2
        <3>7. KindsAsked'
            BY <2>3, <3>5, <3>6 DEF KindsAsked
        <3>8. wild' = {} /\ hw' = Nothing
            BY <1>0, <2>1, <2>2, <3>2 DEF Path
        <3> QED
            BY <2>2, <3>4, <3>7, <3>8 DEF Path
    <2> QED
        BY <1>0, <2>2, <2>4 DEF RuleInv
<1>2. CASE ReceiveCin
    <2>1. PICK bwg, strict, cap, pct :
             /\ cfg' = process_dcbx1_pg_tlv(bwg, strict, cap, pct)
             /\ asked' = [st |-> 1, pgid |-> Own, pct |-> pct, folds |-> N > tcs]
        BY <1>2 DEF ReceiveCin
    <2>2. /\ pc = "idle" /\ pc' = "unpacked" /\ UNCHANGED <<tcs, pfc, hw>>
          /\ wild' = {}
        BY <1>2 DEF ReceiveCin
    <2>3. DOMAIN cfg' = Fields /\ cfg'.pgid = Own /\ asked'.st = 1
        BY <2>1 DEF process_dcbx1_pg_tlv, Fields
    <2>4. Whole(cfg)'
        BY <2>3 DEF Whole, Own
    <2>5. Path'
        BY <1>0, <2>2, <2>3, <2>4 DEF Path, KindsAsked
    <2> QED
        BY <1>0, <2>2, <2>5 DEF RuleInv
<1>3. CASE put_peer_pg
    <2>1. /\ pc = "unpacked" /\ pc' = "stored" /\ UNCHANGED <<tcs, pfc, asked, hw, wild>>
          /\ cfg' = IF asked.st = 2 THEN rebalance_uppcts(cfg) ELSE cfg
        BY <1>3 DEF put_peer_pg
    <2>2. ASSUME ~StrayAsked PROVE Path'
        <3>0. Path
            BY <2>2 DEF RuleInv
        <3>1. Whole(cfg)' /\ cfg'.pgid = cfg.pgid /\ cfg'.strict = cfg.strict
            BY <2>1, <3>0, RebalanceSound DEF Path, Whole
        <3>2. ASSUME NEW u \in UP, asked.st = 2
              PROVE  Kind(cfg', pfc', cfg'.pgid[u]) = AskedKind(u)'
            <4>1. Kind(cfg', pfc', cfg'.pgid[u]) = Kind(cfg, pfc, cfg.pgid[u])
                BY <2>1, <3>1 DEF Kind
            <4>2. AskedKind(u)' = AskedKind(u)
                BY <2>1 DEF AskedKind
            <4> QED
                BY <2>1, <3>0, <3>2, <4>1, <4>2 DEF Path, KindsAsked
        <3>3. KindsAsked'
            BY <2>1, <3>0, <3>1, <3>2 DEF Path, KindsAsked
        <3> QED
            BY <2>1, <3>0, <3>1, <3>3 DEF Path
    <2>3. StrayAsked' = StrayAsked
        BY <2>1 DEF StrayAsked
    <2> QED
        BY <1>0, <2>1, <2>2, <2>3 DEF RuleInv
<1>4. CASE set_configuration
    <2>1. /\ pc = "stored" /\ UNCHANGED <<tcs, pfc, asked, hw>>
          /\ cfg' = dcb_check_config(cfg, pfc, tcs).cfg
          /\ pc' = IF dcb_check_config(cfg, pfc, tcs).status = "cmd_success"
                   THEN "oper" ELSE "refused"
          /\ wild' = wild \cup WildFold(cfg, pfc, tcs)
        BY <1>4 DEF set_configuration
    <2>2. ASSUME ~StrayAsked PROVE Path'
        <3>0. Path /\ KindsAsked /\ Whole(cfg)
            BY <2>1, <2>2 DEF RuleInv, Path
        <3>1. /\ Whole(cfg)' /\ cfg'.strict = cfg.strict
              /\ dcb_check_config(cfg, pfc, tcs).status = "cmd_success" => Accepted'
            BY <1>0, <2>1, <3>0, CheckAccepts
        <3>2. /\ WildFold(cfg, pfc, tcs) \subseteq {"tcbw"}
              /\ "tcbw" \in WildFold(cfg, pfc, tcs) =>
                    asked.st = 1 /\ \A u \in UP : cfg.strict[u]
            BY <1>0, <3>0, PeerInside
        <3>3. wild' \subseteq {"tcbw"} /\
              ("tcbw" \in wild' => asked'.st = 1 /\ \A u \in UP : cfg'.strict[u])
            BY <2>1, <3>0, <3>1, <3>2 DEF Path
        <3>4. pc' \in {"oper", "refused"} /\ hw' = Nothing /\ (pc' = "oper" => Accepted')
            BY <2>1, <3>0, <3>1 DEF Path
        <3> QED
            BY <3>1, <3>3, <3>4 DEF Path
    <2>3. StrayAsked' = StrayAsked
        BY <2>1 DEF StrayAsked
    <2> QED
        BY <1>0, <2>1, <2>2, <2>3 DEF RuleInv
<1>5. CASE set_pg_config
    <2>0. /\ pc = "idle" /\ UNCHANGED <<tcs, pfc, hw>> /\ Path
          /\ \A u \in UP : ~cfg.strict[u]
        BY <1>0, <1>5 DEF set_pg_config, RuleInv
    <2>1. ASSUME NEW c, NEW shares, NEW groups, Whole(c), WildFold(c, {}, tcs) = {},
                 Accept(c, shares, groups), groups \in [UP -> UP \cup {LINK_STRICT_PGID}]
          PROVE  RuleInv'
        <3> DEFINE k == CheckedCommand(c, shares, tcs)
        <3>1. Whole(k.cfg) /\ (k.status = "cmd_success" => Settled(k.cfg, tcs))
            BY <1>0, <2>1, CommandSound
        <3>2. /\ asked' = [st |-> 0, pgid |-> groups, pct |-> c.pct,
                           folds |-> ~shares /\ Folds(c, tcs)]
              /\ cfg' = k.cfg /\ wild' = {}
              /\ pc' = IF k.status = "cmd_success" THEN "checked" ELSE "refused"
            BY <2>1 DEF Accept
        <3> HIDE DEF k
        <3>3. asked'.st = 0 /\ asked'.pgid = groups
            BY <3>2
        <3>4. ~StrayAsked'
            <4>1. \A u \in UP : groups[u] \notin Stray
                <5>1. LINK_STRICT_PGID \notin Stray /\ \A x \in UP : x \notin Stray
                    BY NAssumption, StraysAssumption DEF LINK_STRICT_PGID, UP, Stray
                <5> QED
                    BY <2>1, <5>1
            <4> QED
                BY <3>3, <4>1 DEF StrayAsked
        <3>5. Whole(cfg)' /\ (pc' = "checked" => Settled(cfg, tcs)')
            BY <2>0, <3>1, <3>2
        <3>6. hw' = Nothing /\ pc' \in {"checked", "refused"}
            BY <2>0, <3>2 DEF Path
        <3>7. Path'
            BY <3>2, <3>3, <3>5, <3>6 DEF Path
        <3> QED
            BY <1>0, <2>0, <3>4, <3>6, <3>7 DEF RuleInv
    <2>2. ASSUME NEW pgid \in [UP -> UP \cup {LINK_STRICT_PGID}], NEW pct \in UserPcts,
                 Accept(UserGroups(pgid, pct), FALSE, pgid)
          PROVE  RuleInv'
        <3>1. Whole(UserGroups(pgid, pct)) /\ WildFold(UserGroups(pgid, pct), {}, tcs) = {}
            BY <1>0, <2>0, UserSound, UserNotWild DEF Path
        <3> QED
            BY <2>1, <2>2, <3>1
    <2>3. ASSUME NEW cap \in UserPcts, Accept([cfg EXCEPT !.cap = cap], TRUE, cfg.pgid)
          PROVE  RuleInv'
        <3> DEFINE c == [cfg EXCEPT !.cap = cap]
        <3>1. Whole(c) /\ c.strict = cfg.strict
            BY <2>0 DEF Path, Whole, Fields
        <3>2. cfg.pgid \in [UP -> UP \cup {LINK_STRICT_PGID}]
            BY <2>0 DEF Path, Whole
        <3> HIDE DEF c
        <3>3. WildFold(c, {}, tcs) = {}
            BY <1>0, <2>0, <3>1, NotStrictNotWild
        <3> QED
            BY <2>1, <2>3, <3>1, <3>2, <3>3 DEF c
    <2> QED
        BY <1>5, <2>2, <2>3 DEF set_pg_config
<1>6. CASE put_pg
    <2>1. /\ pc = "checked" /\ UNCHANGED <<tcs, pfc, asked, hw>>
          /\ cfg' = dcb_check_config(cfg, pfc, tcs).cfg
          /\ pc' = IF dcb_check_config(cfg, pfc, tcs).status = "cmd_success"
                   THEN "oper" ELSE "lost"
          /\ wild' = wild \cup WildFold(cfg, pfc, tcs)
        BY <1>6 DEF put_pg
    <2>2. /\ ~StrayAsked /\ Path /\ Whole(cfg) /\ Settled(cfg, tcs)
          /\ asked.st # 2
        BY <2>1 DEF RuleInv, Path
    <2>3. pc' = "oper"
        BY <1>0, <2>1, <2>2, CheckAgain DEF Settled
    <2>4. /\ Whole(cfg)' /\ cfg'.strict = cfg.strict
          /\ \A u \in UP : cfg'.pgid[u] < tcs
        BY <1>0, <2>1, <2>2, <2>3, CheckSound DEF Whole
    <2>5. WildFold(cfg, pfc, tcs) = {}
        <3>1. \A u \in UP : cfg.pgid[u] \in Int /\ cfg.pgid[u] < tcs /\ tcs \in Int
            BY <1>0, <2>2, NAssumption DEF Settled, Whole, UP
        <3>2. ~Folds(cfg, tcs)
            BY <3>1 DEF Folds
        <3> QED
            BY <3>2 DEF WildFold
    <2>6. Accepted'
        BY <2>1, <2>2, <2>4 DEF Accepted
    <2>7. Path'
        BY <2>1, <2>2, <2>3, <2>4, <2>5, <2>6 DEF Path
    <2> QED
        BY <1>0, <2>1, <2>3, <2>7 DEF RuleInv
<1>7. CASE set_hw_pg
    <2>1. pc = "oper" /\ pc' = "hw" /\ UNCHANGED <<tcs, pfc, asked, cfg, wild>>
        BY <1>7 DEF set_hw_pg
    <2>2. ASSUME ~StrayAsked PROVE Path'
        <3>0. Path /\ Accepted
            BY <2>1, <2>2 DEF RuleInv, Path
        <3>1. PICK b \in BOOLEAN :
                LET c == IF b THEN cfg ELSE add_pg_defaults
                IN  hw' = [oper |-> b,
                           tc |-> [t \in UP |->
                             LET ups == {u \in UP : c.pgid[u] = t}
                             IN  [ups |-> ups, strict |-> ups # {} /\ c.strict[Max(ups)],
                                  bwg |-> c.bwg[t], pct |-> c.pct[t]]]]
            BY <1>7 DEF set_hw_pg
        <3> DEFINE c == IF b THEN cfg ELSE add_pg_defaults
        <3>2. hw'.oper = b /\ \A t \in UP : hw'.tc[t].ups = {u \in UP : c.pgid[u] = t}
            BY <3>1
        <3>3. ToldOf'
            BY <2>1, <3>2 DEF ToldOf, Told
        <3>4. Accepted'
            BY <2>1, <3>0 DEF Accepted, AskedKind
        <3> QED
            BY <2>1, <3>0, <3>3, <3>4 DEF Path
    <2>3. StrayAsked' = StrayAsked
        BY <2>1 DEF StrayAsked
    <2> QED
        BY <1>0, <2>1, <2>2, <2>3 DEF RuleInv
<1>8. CASE Finish
    <2>1. /\ cfg' = dcbx_add_adapter(pfc, tcs) /\ asked' = Nothing /\ pc' = "idle"
          /\ hw' = Nothing /\ wild' = WildFold(add_pg_defaults, pfc, tcs) /\ tcs' = tcs
        BY <1>8 DEF Finish
    <2>2. /\ Whole(cfg)' /\ wild' = {} /\ \A u \in UP : ~cfg'.strict[u]
        BY <1>0, <2>1, AdapterSound DEF Whole
    <2>3. Path'
        BY <2>1, <2>2 DEF Path
    <2> QED
        BY <1>0, <2>1, <2>2, <2>3 DEF RuleInv
<1>9. CASE UNCHANGED ruleVars
    <2>1. UNCHANGED <<tcs, pfc, asked, cfg, hw, pc, wild>>
        BY <1>9 DEF ruleVars
    <2>2. Accepted' = Accepted
        BY <2>1 DEF Accepted, AskedKind
    <2>3. KindsAsked' = KindsAsked
        BY <2>1 DEF KindsAsked, AskedKind
    <2>4. ToldOf' = ToldOf /\ StrayAsked' = StrayAsked
        BY <2>1 DEF ToldOf, StrayAsked
    <2>5. Whole(cfg)' = Whole(cfg) /\ Settled(cfg, tcs)' = Settled(cfg, tcs)
        BY <2>1
    <2>6. Path' = Path
        BY <2>1, <2>2, <2>3, <2>4, <2>5 DEF Path
    <2> QED
        BY <2>1, <2>4, <2>6 DEF RuleInv
<1> QED
    BY <1>1, <1>2, <1>3, <1>4, <1>5, <1>6, <1>7, <1>8, <1>9 DEF RulesNext

\* Along every path from a TLV or a command to the driver.
LEMMA RulesInvariant == RulesSpec => []RuleInv
BY RulesInitially, RuleStep, PTL DEF RulesSpec

\* The arrays of groups and classes are left only for a CEE neighbour's id that
\* is no group, or for the leftover bandwidth of a CIN neighbour that is all link
\* strict; otherwise groups are indexes: link strict priorities always find an
\* unused one (process_dcbx2_pg_tlv, set_pg_config), and a fold ends among the
\* classes of the device (dcb_fixup_pg).
THEOREM ArraysAreLeftTwice == RulesSpec => []IndexesInside
<1>1. RuleInv => IndexesInside
    BY DEF RuleInv, Path, Whole, IndexesInside
<1> QED
    BY <1>1, RulesInvariant, PTL

\* The driver finds every priority in exactly one class, of those the device has
\* when the feature operates and of the defaults when it does not, however many
\* groups were asked for and whatever was strict or paused (dcb_fixup_pg,
\* set_hw_pg).
THEOREM EveryPriorityIsMapped == RulesSpec => []EveryPriorityHasAClass
<1>1. RuleInv => EveryPriorityHasAClass
    <2> SUFFICES ASSUME RuleInv, hw # Nothing, ~StrayAsked, NEW u \in UP
                 PROVE  Cardinality({t \in DriverClasses : u \in hw.tc[t].ups}) = 1
        BY DEF EveryPriorityHasAClass
    <2>1. /\ cfg.pgid[u] \in UP /\ cfg.pgid[u] < tcs /\ ToldOf /\ tcs \in 1..N
        BY DEF RuleInv, Path, Accepted, Whole
    <2>2. CASE hw.oper
        <3>1. 0..(tcs - 1) \subseteq UP /\ cfg.pgid[u] \in 0..(tcs - 1)
            BY <2>1, NAssumption DEF UP
        <3>2. {t \in DriverClasses : u \in hw.tc[t].ups} = {cfg.pgid[u]}
            BY <2>1, <2>2, <3>1 DEF ToldOf, Told, DriverClasses
        <3> QED
            BY <3>2, FS_Singleton
    <2>3. CASE ~hw.oper
        <3>1. add_pg_defaults.pgid[u] = u
            BY DEF add_pg_defaults, Own
        <3>2. {t \in DriverClasses : u \in hw.tc[t].ups} = {u}
            BY <2>1, <2>3, <3>1 DEF ToldOf, Told, DriverClasses
        <3> QED
            BY <3>2, FS_Singleton
    <2> QED
        BY <2>2, <2>3
<1> QED
    BY <1>1, RulesInvariant, PTL

\* Priorities of a neighbour that share a class carry one kind of traffic, also
\* after groups were folded onto fewer classes (dcb_fixup_pg).
THEOREM KindsStayApart == RulesSpec => []KindsApart
<1>1. RuleInv => KindsApart
    <2> SUFFICES ASSUME RuleInv, hw # Nothing, ~StrayAsked, asked.st = 2, NEW t \in UP,
                        NEW u \in hw.tc[t].ups, NEW v \in hw.tc[t].ups
                 PROVE  AskedKind(u) = AskedKind(v)
        BY DEF KindsApart
    <2>1. Accepted /\ ToldOf
        BY DEF RuleInv, Path
    <2>2. CASE hw.oper
        BY <2>1, <2>2 DEF ToldOf, Told, Accepted
    <2>3. CASE ~hw.oper
        <3>1. \A w \in UP : add_pg_defaults.pgid[w] = w
            BY DEF add_pg_defaults, Own
        <3>2. u = v
            BY <2>1, <2>3, <3>1 DEF ToldOf, Told
        <3> QED
            BY <3>2
    <2> QED
        BY <2>2, <2>3
<1> QED
    BY <1>1, RulesInvariant, PTL

\* What set_pg_config accepted, put_pg does not refuse when it checks it once
\* more with the PFC settings (dcb_check_config).
THEOREM NoneIsLost == RulesSpec => []CheckedStaysAccepted
<1>1. RuleInv => CheckedStaysAccepted
    BY DEF RuleInv, CheckedStaysAccepted
<1> QED
    BY <1>1, RulesInvariant, PTL
=============================================================================
