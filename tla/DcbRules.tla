------------------------------ MODULE DcbRules ------------------------------
(* Priority groups: how the PG TLV of a neighbour, or a command, becomes the  *)
(* configuration the driver gets (tlv_dcbx.c, dcb_protocol.c,                 *)
(* lldp_dcbx_cmds.c, dcb_rule_chk.c, lldp_dcbx_nl.c).  A configuration maps   *)
(* each user priority to a priority group (pgid) and a bandwidth group (bwg;  *)
(* rbwg on the receive side, the only field the two sides can differ in),     *)
(* says which priorities are link strict, which share of its bandwidth group  *)
(* a priority gets (cap), and which share of the link a group gets (pct).     *)
(* The device has tcs traffic classes, of which dcb_fixup_pg must make do.    *)
EXTENDS Integers, FiniteSets, FiniteSetsExt

CONSTANTS
    N,          \* MAX_USER_PRIORITIES, MAX_BANDWIDTH_GROUPS, MAX_TRAFFIC_CLASS
    Strays,     \* how many group ids of a CEE TLV are no groups: 8 to 14
    Share,      \* the percentages that occur, bytes nobody has looked at
    Subtypes    \* versions of DCBX: 1 (CIN), 2 (CEE)

ASSUME NAssumption == N \in 1..8
ASSUME StraysAssumption == Strays \in 0..(N - 1)
ASSUME ShareAssumption == Share \subseteq 0..255
ASSUME SubtypesAssumption == Subtypes \subseteq {1, 2}

VARIABLES
    tcs,        \* num_tcs, what the driver reports
    pfc,        \* the priorities with flow control in the PFC configuration
    asked,      \* the groups as the neighbour or the user sees them
    cfg,        \* the configuration on its way to the driver
    pc,         \* where it is
    hw,         \* what the driver was told; Nothing before
    wild        \* the arrays this request was read from or written to outside

ruleVars == <<tcs, pfc, asked, cfg, pc, hw, wild>>

UP == 0..(N - 1)
Stray == N..(N + Strays - 1)
Nothing == [none |-> TRUE]
LINK_STRICT_PGID == N + Strays
BW_PERCENT == 100

SumOver(f, S) == MapThenSumSet(LAMBDA i : f[i], S)
Sum(f) == SumOver(f, DOMAIN f)
Own == [u \in UP |-> u]

\* A TLV may carry any shares; dcbtool refuses those above 100, and nobody
\* looks at their sum before the check.
Pcts == [UP -> Share]
UserPcts == [UP -> (Share \cup {BW_PERCENT}) \cap 0..BW_PERCENT]

\* The default configuration: each priority a group of its own.
add_pg_defaults ==
    [pgid |-> Own, bwg |-> Own, rbwg |-> Own, strict |-> [u \in UP |-> FALSE],
     cap |-> [u \in UP |-> BW_PERCENT],
     pct |-> [g \in UP |-> BW_PERCENT \div N + (IF g < BW_PERCENT % N THEN 1 ELSE 0)]]

-----------------------------------------------------------------------------
(* Reading the neighbour's TLV.                                              *)

UnusedFromOne(used) == Min((1..N) \ used)

FirstUnused(used) == Min((0..N) \ used)

\* A CEE TLV: link strict priorities share the first group nobody else uses.
\* Other ids are stored as received, and marked as used at used[id].
process_dcbx2_pg_tlv(pgid, pct) ==
    LET strict == [u \in UP |-> pgid[u] = LINK_STRICT_PGID]
        used   == {pgid[u] : u \in {v \in UP : ~strict[v]}}
    IN  [pgid |-> [u \in UP |-> IF strict[u] THEN FirstUnused(used) ELSE pgid[u]],
         bwg |-> Own, rbwg |-> Own, strict |-> strict,
         cap |-> [u \in UP |-> 0], pct |-> pct]

\* A CIN TLV: every priority is a group of its own.
process_dcbx1_pg_tlv(bwg, strict, cap, pct) ==
    [pgid |-> Own, bwg |-> bwg, rbwg |-> bwg, strict |-> strict,
     cap |-> cap, pct |-> pct]

bw_fixup == <<0, 0, 1, 0, 0, 4, 2, 4>>

\* An even split of each bandwidth group among its priorities; the first ones
\* get what the division leaves over.
rebalance_uppcts(c) ==
    LET mates(u)  == {v \in UP : c.bwg[v] = c.bwg[u]}
        rank(u)   == Cardinality({v \in mates(u) : v < u})
        share(u)  == BW_PERCENT \div Cardinality(mates(u))
                     + (IF rank(u) < bw_fixup[Cardinality(mates(u))] THEN 1 ELSE 0)
        linked(u) == \E v \in mates(u) : c.strict[v]
    IN  [c EXCEPT !.cap = [u \in UP |->
            CASE c.strict[u] -> 0
              [] ~c.strict[u] /\ linked(u) -> c.cap[u]
              [] OTHER -> share(u)]]

-----------------------------------------------------------------------------
(* The rules.                                                                *)

KindIgnoresPfc(c, flow, g) ==
    IF c.strict[Min({u \in UP : c.pgid[u] = g})] THEN "strict" ELSE "be"

\* The kind of traffic of a group is that of its lowest priority.
Kind(c, flow, g) ==
    LET first == Min({u \in UP : c.pgid[u] = g})
    IN  CASE c.strict[first] -> "strict"
          [] ~c.strict[first] /\ first \in flow -> "pfc"
          [] OTHER -> "be"

\* The rows of the matrix of groups and priorities that the fold walks.
Groups(c) == {c.pgid[u] : u \in UP} \cap UP
OfKind(c, flow, k) == {g \in Groups(c) : Kind(c, flow, g) = k}

\* How many classes each kind gets: strict first, then PFC, then best effort,
\* every kind that occurs at least one.
Classes(c, flow, n) ==
    LET count(k) == Cardinality(OfKind(c, flow, k))
        has(k)   == IF count(k) > 0 THEN 1 ELSE 0
        strict   == Min({count("strict"), n - has("be") - has("pfc")})
        flows    == Min({count("pfc"), n - strict - has("be")})
    IN  [strict |-> strict, pfc |-> flows, be |-> Min({count("be"), n - strict - flows})]

\* The class a group is folded onto: those of its kind take turns.
NewPgid(c, flow, size, g) ==
    LET k    == Kind(c, flow, g)
        base == CASE k = "be" -> 0 [] k = "pfc" -> size.be [] OTHER -> size.be + size.pfc
        turn == Cardinality({h \in OfKind(c, flow, k) : h < g})
    IN  base + (turn % size[k])

LeftoverPastLast(c, flow, n) == n - Classes(c, flow, n).strict

\* Bandwidth of a group nobody maps to, and what is missing from or beyond
\* 100, goes to the highest class that is not strict.  With nothing but strict
\* classes the index is -1.
Leftover(c, flow, n) == n - Classes(c, flow, n).strict - 1

\* Added up in an int, stored in a u8.
tcbw(c, flow, n) ==
    LET size    == Classes(c, flow, n)
        last    == Leftover(c, flow, n)
        mine(t) == {g \in Groups(c) : NewPgid(c, flow, size, g) = t}
        total   == SumOver(c.pct, Groups(c))
    IN  [t \in UP |-> (SumOver(c.pct, mine(t))
                       + (IF t = last THEN BW_PERCENT - total ELSE 0)) % 256]

FoldsLate(c, n) == \E u \in UP : c.pgid[u] > n

Folds(c, n) == \E u \in UP : c.pgid[u] + 1 > n

\* The arrays a fold leaves: a row of the matrix that is not there, and the
\* class before the first.  What such a write hits is up to the compiler; the
\* model loses the value, and no property speaks of the request from then on.
WildFold(c, flow, n) ==
    IF ~Folds(c, n) THEN {}
    ELSE {a \in {"matrix", "tcbw"} :
            \/ a = "matrix" /\ \E u \in UP : c.pgid[u] \notin UP
            \/ /\ a = "tcbw" /\ n >= Cardinality({Kind(c, flow, g) : g \in Groups(c)})
               /\ SumOver(c.pct, Groups(c)) # BW_PERCENT
               /\ Leftover(c, flow, n) \notin UP}

\* Groups that fit are left alone; others are folded.  The fold sets the
\* transmit side's bandwidth groups only.
dcb_fixup_pg(c, flow, n) ==
    IF ~Folds(c, n) THEN [c EXCEPT !.bwg = Own, !.rbwg = Own]
    ELSE LET size == Classes(c, flow, n)
         IN  [c EXCEPT !.pgid = [u \in UP |-> IF c.pgid[u] \in UP
                                    THEN NewPgid(c, flow, size, c.pgid[u]) ELSE c.pgid[u]],
                       !.bwg = Own,
                       !.cap = [u \in UP |-> IF c.strict[u] THEN 0 ELSE BW_PERCENT],
                       !.pct = tcbw(c, flow, n)]

Kinds(c, flow) == {Kind(c, flow, g) : g \in Groups(c)}

OneStrictGroup(c) == Cardinality({c.pgid[u] : u \in {v \in UP : c.strict[v]}}) <= 1

LinkAddsUp(c) ==
    LET strict == {c.pgid[u] : u \in {v \in UP : c.strict[v]}}
        total  == SumOver(c.pct, UP \ strict) % 256
    IN  total = BW_PERCENT \/ (total = 0 /\ \A u \in UP : c.strict[u])

SharesAddUp(c, bwg) ==
    \A g \in UP :
        LET in    == {u \in UP : bwg[u] = g}
            total == SumOver(c.cap, in) % 256
        IN  IF \E u \in in : c.strict[u] THEN total = 0 \/ c.pct[g] = 0
                                         ELSE total \in {0, BW_PERCENT}

Judges(f) ==
    /\ OneStrictGroup(f)
    /\ LinkAddsUp(f)
    /\ \A u \in UP : f.strict[u] <=> f.cap[u] = 0
    /\ SharesAddUp(f, f.bwg)
    /\ SharesAddUp(f, f.rbwg)

\* The check repairs first and judges what it made of the configuration.
dcb_check_config(c, flow, n) ==
    IF Folds(c, n) /\ n < Cardinality(Kinds(c, flow))
    THEN [status |-> "cmd_failed", cfg |-> c]
    ELSE LET f == dcb_fixup_pg(c, flow, n)
         IN  [status |-> IF Judges(f) THEN "cmd_success" ELSE "cmd_bad_params",
              cfg |-> f]

-----------------------------------------------------------------------------
\* A port's configuration as it is added: repaired, and kept even when the
\* rules refuse it.
dcbx_add_adapter(flow, n) == dcb_check_config(add_pg_defaults, flow, n).cfg

RulesInit ==
    /\ tcs \in 1..N
    /\ pfc \in SUBSET UP
    /\ asked = Nothing
    /\ cfg = dcbx_add_adapter(pfc, tcs)
    /\ pc = "idle"
    /\ hw = Nothing
    /\ wild = WildFold(add_pg_defaults, pfc, tcs)

\* Any four bits for a priority's group.
ReceiveCee ==
    /\ pc = "idle" /\ 2 \in Subtypes
    /\ \E pgid \in [UP -> 0..LINK_STRICT_PGID], pct \in Pcts :
        /\ cfg' = process_dcbx2_pg_tlv(pgid, pct)
        /\ asked' = [st |-> 2, pgid |-> pgid, pct |-> pct, folds |-> Folds(cfg', tcs)]
        /\ wild' = IF \E u \in UP : pgid[u] \in Stray THEN {"used"} ELSE {}
    /\ pc' = "unpacked"
    /\ UNCHANGED <<tcs, pfc, hw>>

\* A bound: a priority has its whole bandwidth group or nothing of it, or all
\* have the same share.
Caps == [UP -> {0, BW_PERCENT}] \cup {[u \in UP |-> x] : x \in Share}

\* No flow control in the instance: the fold of CIN treats it as CEE does.
ReceiveCin ==
    /\ pc = "idle" /\ 1 \in Subtypes /\ pfc = {}
    /\ \E bwg \in [UP -> UP], strict \in [UP -> BOOLEAN], cap \in Caps, pct \in Pcts :
        /\ cfg' = process_dcbx1_pg_tlv(bwg, strict, cap, pct)
        /\ asked' = [st |-> 1, pgid |-> Own, pct |-> pct, folds |-> N > tcs]
    /\ pc' = "unpacked" /\ wild' = {}
    /\ UNCHANGED <<tcs, pfc, hw>>

\* Only CEE leaves the priorities' shares to the receiver.
put_peer_pg ==
    /\ pc = "unpacked"
    /\ cfg' = IF asked.st = 2 THEN rebalance_uppcts(cfg) ELSE cfg
    /\ pc' = "stored"
    /\ UNCHANGED <<tcs, pfc, asked, hw, wild>>

\* A user's groups and percentages; link strict ones get the lowest unused
\* group.  The configuration is checked without the PFC settings, and once
\* more with even shares when it fails and the user gave none.
UserGroups(pgid, pct) ==
    LET used == {pgid[u] : u \in UP} \cap UP
        strict == [u \in UP |-> pgid[u] = LINK_STRICT_PGID]
    IN  [cfg EXCEPT !.pgid = [u \in UP |-> IF strict[u] THEN FirstUnused(used) ELSE pgid[u]],
                    !.strict = strict, !.pct = pct]

CheckedCommand(c, shares, n) ==
    LET first == dcb_check_config(c, {}, n)
    IN  IF first.status = "cmd_bad_params" /\ ~shares
        THEN dcb_check_config(rebalance_uppcts(first.cfg), {}, n)
        ELSE first

\* What the first check folded needs no second fold.
Accept(c, shares, groups) ==
    LET r == CheckedCommand(c, shares, tcs)
    IN  /\ asked' = [st |-> 0, pgid |-> groups, pct |-> c.pct,
                     folds |-> ~shares /\ Folds(c, tcs)]
        /\ cfg' = r.cfg
        /\ wild' = WildFold(c, {}, tcs)
        /\ pc' = IF r.status = "cmd_success" THEN "checked" ELSE "refused"

set_pg_config ==
    /\ pc = "idle"
    /\ \/ \E pgid \in [UP -> UP \cup {LINK_STRICT_PGID}], pct \in UserPcts :
            Accept(UserGroups(pgid, pct), FALSE, pgid)
       \/ \E cap \in UserPcts : Accept([cfg EXCEPT !.cap = cap], TRUE, cfg.pgid)
    /\ UNCHANGED <<tcs, pfc, hw>>

\* put_pg checks again, now with the PFC settings.
put_pg ==
    /\ pc = "checked"
    /\ LET r == dcb_check_config(cfg, pfc, tcs)
       IN  /\ cfg' = r.cfg
           /\ pc' = IF r.status = "cmd_success" THEN "oper" ELSE "lost"
    /\ wild' = wild \cup WildFold(cfg, pfc, tcs)
    /\ UNCHANGED <<tcs, pfc, asked, hw>>

\* set_configuration on a remote change: the rules decide whether the driver
\* is told.
set_configuration ==
    /\ pc = "stored"
    /\ LET r == dcb_check_config(cfg, pfc, tcs)
       IN  /\ cfg' = r.cfg
           /\ pc' = IF r.status = "cmd_success" THEN "oper" ELSE "refused"
    /\ wild' = wild \cup WildFold(cfg, pfc, tcs)
    /\ UNCHANGED <<tcs, pfc, asked, hw>>

\* What the driver is told of each class; settings of its last priority win.
\* When the feature does not operate, these are the defaults, as they are.
set_hw_pg ==
    /\ pc = "oper"
    /\ \E OperMode \in BOOLEAN :
        LET c == IF OperMode THEN cfg ELSE add_pg_defaults
        IN  hw' = [oper |-> OperMode,
                   tc |-> [t \in UP |->
                     LET ups == {u \in UP : c.pgid[u] = t}
                     IN  [ups |-> ups, strict |-> ups # {} /\ c.strict[Max(ups)],
                          bwg |-> c.bwg[t], pct |-> c.pct[t]]]]
    /\ pc' = "hw"
    /\ UNCHANGED <<tcs, pfc, asked, cfg, wild>>

\* The end of a request, perhaps with the daemon, when an array was left: the
\* next one starts from the defaults.
Finish ==
    /\ pc \in {"hw", "refused"} \/ (wild # {} /\ pc # "idle")
    /\ cfg' = dcbx_add_adapter(pfc, tcs) /\ asked' = Nothing /\ pc' = "idle" /\ hw' = Nothing
    /\ wild' = WildFold(add_pg_defaults, pfc, tcs)
    /\ UNCHANGED <<tcs, pfc>>

RulesNext == \/ ReceiveCee \/ ReceiveCin \/ put_peer_pg \/ set_configuration
        \/ set_pg_config \/ put_pg \/ set_hw_pg \/ Finish

RulesSpec == RulesInit /\ [][RulesNext]_ruleVars

-----------------------------------------------------------------------------
StrayAsked == asked # Nothing /\ \E u \in UP : asked.pgid[u] \in Stray

\* The arrays of groups and classes are left in two cases only: a CEE
\* neighbour sends a group id that is no group, which used[] and the matrix are
\* indexed by as it is, or every priority of a CIN neighbour is link strict and
\* the leftover bandwidth has no class to go to.  Otherwise groups stay groups:
\* link strict priorities find an unused one and a fold ends among the classes
\* (tlv_dcbx.c:1274, 1290, dcb_rule_chk.c:135, 220, 231).
IndexesInside ==
    /\ ~StrayAsked => cfg.pgid \in [UP -> UP] /\ wild \cap {"used", "matrix"} = {}
    /\ "tcbw" \in wild => StrayAsked \/ (asked.st = 1 /\ \A u \in UP : cfg.strict[u])

\* The classes the driver is told of: those the device has, or, when the feature
\* does not operate, one for each priority, whether the device has it or not.
DriverClasses == IF hw.oper THEN 0..(tcs - 1) ELSE UP

\* The driver finds every priority in exactly one class, of those it has when
\* the feature operates, however many groups were asked for
\* (dcb_rule_chk.c:183-260, lldp_dcbx_nl.c:669-690).
EveryPriorityHasAClass ==
    hw # Nothing /\ ~StrayAsked =>
        \A u \in UP : Cardinality({t \in DriverClasses : u \in hw.tc[t].ups}) = 1

AskedKind(u) ==
    LET first == Min({v \in UP : asked.pgid[v] = asked.pgid[u]})
    IN  CASE asked.pgid[u] = LINK_STRICT_PGID -> "strict"
          [] asked.pgid[u] # LINK_STRICT_PGID /\ first \in pfc -> "pfc"
          [] OTHER -> "be"

\* Groups of the neighbour of different kinds of traffic never share a class:
\* a paused class holds nothing that must not be paused (dcb_rule_chk.c:38).
KindsApart ==
    hw # Nothing /\ ~StrayAsked /\ asked.st = 2 =>
        \A t \in UP : \A u, v \in hw.tc[t].ups : AskedKind(u) = AskedKind(v)

\* A fold that stays in its arrays loses no bandwidth: the u8 shares of the
\* classes add up to the whole link in a u8, and really do when those asked for
\* did not exceed it (dcb_rule_chk.c:229-232, 264-268).
FoldKeepsBandwidth ==
    hw # Nothing /\ asked.folds /\ wild = {} =>
        LET total == MapThenSumSet(LAMBDA t : hw.tc[t].pct, DriverClasses)
        IN  /\ total % 256 = BW_PERCENT
            /\ Sum(asked.pct) <= BW_PERCENT => total = BW_PERCENT

\* Checking is idempotent: put_pg, which checks with the PFC settings what
\* set_pg_config has repaired and accepted without them, does not refuse it
\* (lldp_dcbx_cmds.c:1054, dcb_protocol.c:1588).
CheckedStaysAccepted == pc # "lost"

=============================================================================
