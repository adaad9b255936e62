----------------------------- MODULE TlvsProofs -----------------------------
(* What holds of the TLVs of an agent's frames for any addresses, device     *)
(* types, commands and bounds.                                               *)
EXTENDS Tlvs, TLAPS

(***************************************************************************)
(* Shapes.                                                                 *)
(***************************************************************************)
Data == [has : BOOLEAN, chassis : Ids, portid : Ids, ttl : BOOLEAN,
         rebuild_chassis : BOOLEAN, rebuild_portid : BOOLEAN, read_shm : BOOLEAN]
IdPairs == [chassis : Ids, portid : Ids]
ConfFiles == [chassis : Subtypes, portid : Subtypes, devtype : Defined \cup {"none"},
              tx : SUBSET Tlvs, denied : SUBSET Tlvs, info : SUBSET FileOnly,
              saved : [Families -> Addresses \cup {0}]]
\* A device type comes with its Capabilities TLV, unless the operator said no.
Confs == {c \in ConfFiles : c.devtype # "none" => "medCap" \in c.tx \cup c.denied}
Hosts == [Families \cup {"mac"} -> Addresses \cup {0}]

\* TypeOK and the records' shapes.
Typed ==
  /\ type \in {"nearest_bridge", "other"} /\ room \in BOOLEAN
  /\ running \in BOOLEAN /\ link \in BOOLEAN
  /\ host \in Hosts /\ conf \in Confs
  /\ md \in Data /\ shm \in IdPairs /\ said \in IdPairs
  /\ removed \in BOOLEAN
  /\ md.portid # NoId => md.ttl
  /\ bd \subseteq {"basman", "ieee8023", "med"}
  /\ bd # {} => running /\ link
  /\ ~running => md = NoData

\* What a build works on.
States == [md : Data, shm : IdPairs]

LEMMA NoIdDifferent ==
  /\ IfName # NoId
  /\ Id("reserved", 0) # NoId
  /\ \A f \in Families \cup {"mac"}, a \in Addresses : Id(f, a) # NoId
BY DEF IfName, NoId, Id, Families

LEMMA IdsIn ==
  /\ NoId \in Ids /\ IfName \in Ids /\ Id("reserved", 0) \in Ids
  /\ \A f \in Families \cup {"mac"}, a \in Addresses : Id(f, a) \in Ids
BY DEF Ids

LEMMA HostIn ==
  ASSUME host \in Hosts, NEW f \in Families \cup {"mac"}
  PROVE  host[f] \in Addresses \cup {0}
BY DEF Hosts

LEMMA NoDataIn == NoData \in Data /\ NoIds \in IdPairs
BY IdsIn DEF NoData, NoIds, Data, IdPairs

LEMMA IpIn ==
  ASSUME host \in Hosts
  PROVE  mand_bld_ip_chassis \in Ids
<1>1. /\ host.ipv4 \in Addresses \cup {0}
      /\ host.ipv6 \in Addresses \cup {0}
  BY HostIn DEF Families
<1>2. "ipv4" \in Families /\ "ipv6" \in Families
  BY DEF Families
<1> QED
  BY <1>1, <1>2, IdsIn DEF mand_bld_ip_chassis

LEMMA MacIn ==
  ASSUME host \in Hosts
  PROVE  mand_bld_mac_chassis \in Ids /\ mand_bld_mac_chassis # NoId
<1>1. host.mac \in Addresses \cup {0}
  BY HostIn
<1> QED
  BY <1>1, IdsIn, NoIdDifferent DEF mand_bld_mac_chassis

LEMMA ChassisIn ==
  ASSUME host \in Hosts
  PROVE  ChassisFrom \in Ids
<1> DEFINE e == is_tlv_txenabled("LLDP-MED")
           d == get_med_devtype \in Endpoints
<1> HIDE DEF e, d
<1>1. ChassisFrom = CASE e /\ d -> mand_bld_ip_chassis
    [] e /\ ~d -> IfName
    [] ~e /\ conf.chassis = "ifname" -> IfName
    [] ~e /\ conf.chassis = "ip" -> mand_bld_ip_chassis
    [] OTHER -> mand_bld_mac_chassis
  BY DEF ChassisFrom, e, d
<1> QED
  BY <1>1, IpIn, MacIn, IdsIn

\* The port identifier always has a last resort, the interface's name.
LEMMA PortidIn ==
  ASSUME host \in Hosts
  PROVE  PortidFrom \in Ids /\ PortidFrom # NoId
<1>1. host.mac \in Addresses \cup {0}
  BY HostIn
<1> DEFINE subtype == IF get_med_devtype \in Defined /\ is_tlv_txenabled("LLDP-MED")
                      THEN "mac" ELSE conf.portid
           a == subtype = "mac" /\ host.mac # 0
           b == subtype # "ifname" /\ ~(subtype = "mac" /\ host.mac # 0)
                  /\ mand_bld_ip_chassis # NoId
<1>2. PortidFrom = CASE a -> Id("mac", host.mac) [] b -> mand_bld_ip_chassis [] OTHER -> IfName
  BY DEF PortidFrom
<1>3. a => Id("mac", host.mac) \in Ids /\ Id("mac", host.mac) # NoId
  BY <1>1, IdsIn, NoIdDifferent
<1>4. b => mand_bld_ip_chassis \in Ids /\ mand_bld_ip_chassis # NoId
  BY IpIn
<1>5. ~(a /\ b)
  OBVIOUS
<1> HIDE DEF a, b
<1> QED
  BY <1>2, <1>3, <1>4, <1>5, IdsIn, NoIdDifferent

(***************************************************************************)
(* The builds of the mandatory TLVs.                                       *)
(***************************************************************************)
\* The value in shared memory when there is one to use, else the own one.
LEMMA BuiltIn ==
  ASSUME NEW s \in States, NEW k \in {"chassis", "portid"}, NEW own \in Ids
  PROVE  /\ Built(s, k, own) \in Ids
         /\ own # NoId => Built(s, k, own) # NoId
         /\ Outlives /\ ~s.md.read_shm /\ s.shm[k] # NoId => Built(s, k, own) = s.shm[k]
<1>1. s.shm[k] \in Ids
  BY DEF States, IdPairs
<1> DEFINE stored == lldpad_shm_get_msap(s, k)
           use == ~s.md.read_shm /\ type = "nearest_bridge" /\ stored # NoId
<1>2. Built(s, k, own) = IF use THEN stored ELSE own
  BY DEF Built
<1>3. stored = IF room THEN s.shm[k] ELSE NoId
  BY DEF lldpad_shm_get_msap
<1> HIDE DEF stored
<1> QED
  BY <1>1, <1>2, <1>3, IdsIn DEF Outlives

\* What the shared memory holds after a build that made id.
LEMMA StoredIn ==
  ASSUME NEW s \in States, NEW k \in {"chassis", "portid"}, NEW id \in Ids
  PROVE  /\ StoredBack(s, k, id) \in IdPairs
         /\ id = NoId => StoredBack(s, k, id) = s.shm
         /\ Outlives /\ id # NoId => StoredBack(s, k, id)[k] = id
         /\ \A j \in {"chassis", "portid"} : j # k => StoredBack(s, k, id)[j] = s.shm[j]
<1>1. s.shm \in IdPairs
  BY DEF States
<1>2. [s.shm EXCEPT ![k] = id] \in IdPairs
  BY <1>1 DEF IdPairs
<1> QED
  BY <1>1, <1>2 DEF StoredBack, lldpad_shm_set_msap, Outlives, IdPairs

\* A build of the chassis identifier.
LEMMA ChassisBuild ==
  ASSUME host \in Hosts, NEW s \in States
  PROVE  LET c == mand_bld_chassis_tlv(s)
         IN  /\ c \in States
             /\ \/ c = s /\ s.md.chassis # NoId /\ ~s.md.rebuild_chassis
                \/ \E id \in Ids :
                     /\ s.md.chassis = NoId \/ s.md.rebuild_chassis
                     /\ c.md = [s.md EXCEPT !.chassis = id, !.rebuild_chassis = (id = NoId)]
                     /\ id = NoId => c.shm = s.shm
                     /\ Outlives /\ id # NoId => c.shm.chassis = id
                     /\ c.shm.portid = s.shm.portid
                     /\ Outlives /\ ~s.md.read_shm /\ s.shm.chassis # NoId => id = s.shm.chassis
<1> DEFINE id == Built(s, "chassis", ChassisFrom)
           m == [s.md EXCEPT !.chassis = id, !.rebuild_chassis = (id = NoId)]
           b == StoredBack(s, "chassis", id)
<1>1. /\ id \in Ids
      /\ Outlives /\ ~s.md.read_shm /\ s.shm.chassis # NoId => id = s.shm.chassis
  BY ChassisIn, BuiltIn
<1>2. mand_bld_chassis_tlv(s) = IF ~s.md.rebuild_chassis /\ s.md.chassis # NoId THEN s
                                ELSE [md |-> m, shm |-> b]
  BY DEF mand_bld_chassis_tlv
<1> HIDE DEF id
<1>3. /\ b \in IdPairs
      /\ id = NoId => b = s.shm
      /\ Outlives /\ id # NoId => b.chassis = id
      /\ b.portid = s.shm.portid
  BY <1>1, StoredIn
<1> HIDE DEF b
<1>4. m \in Data
  BY <1>1 DEF States, Data
<1>5. [md |-> m, shm |-> b] \in States
  BY <1>3, <1>4 DEF States
<1>6. s.md.rebuild_chassis \in BOOLEAN
  BY DEF States, Data
<1>7. CASE ~s.md.rebuild_chassis /\ s.md.chassis # NoId
  BY <1>2, <1>7
<1>8. CASE s.md.rebuild_chassis \/ s.md.chassis = NoId
  <2> DEFINE c == mand_bld_chassis_tlv(s)
  <2>1. c = [md |-> m, shm |-> b]
    BY <1>2, <1>8
  <2>2. c.md = m /\ c.shm = b /\ c \in States
    BY <2>1, <1>5
  <2> HIDE DEF c
  <2>3. /\ s.md.chassis = NoId \/ s.md.rebuild_chassis
        /\ c.md = [s.md EXCEPT !.chassis = id, !.rebuild_chassis = (id = NoId)]
        /\ id = NoId => c.shm = s.shm
        /\ Outlives /\ id # NoId => c.shm.chassis = id
        /\ c.shm.portid = s.shm.portid
        /\ Outlives /\ ~s.md.read_shm /\ s.shm.chassis # NoId => id = s.shm.chassis
    BY <2>2, <1>1, <1>3, <1>8, SMTT(30)
  <2> QED
    BY <2>2, <2>3, <1>1 DEF c
<1> QED
  BY <1>6, <1>7, <1>8

\* A build of the port identifier, which never fails.
LEMMA PortidBuild ==
  ASSUME host \in Hosts, NEW s \in States
  PROVE  LET c == mand_bld_portid_tlv(s)
         IN  /\ c \in States
             /\ \/ c = s /\ s.md.portid # NoId /\ ~s.md.rebuild_portid
                \/ \E id \in Ids \ {NoId} :
                     /\ s.md.portid = NoId \/ s.md.rebuild_portid
                     /\ c.md = [s.md EXCEPT !.portid = id, !.rebuild_portid = FALSE]
                     /\ Outlives => c.shm.portid = id
                     /\ c.shm.chassis = s.shm.chassis
                     /\ Outlives /\ ~s.md.read_shm /\ s.shm.portid # NoId => id = s.shm.portid
<1> DEFINE id == Built(s, "portid", PortidFrom)
           m == [s.md EXCEPT !.portid = id, !.rebuild_portid = FALSE]
           b == StoredBack(s, "portid", id)
<1>1. /\ id \in Ids \ {NoId}
      /\ Outlives /\ ~s.md.read_shm /\ s.shm.portid # NoId => id = s.shm.portid
  BY PortidIn, BuiltIn
<1>2. mand_bld_portid_tlv(s) = IF ~s.md.rebuild_portid /\ s.md.portid # NoId THEN s
                                ELSE [md |-> m, shm |-> b]
  BY DEF mand_bld_portid_tlv
<1> HIDE DEF id
<1>3. /\ b \in IdPairs
      /\ Outlives => b.portid = id
      /\ b.chassis = s.shm.chassis
  BY <1>1, StoredIn
<1> HIDE DEF b
<1>4. m \in Data
  BY <1>1 DEF States, Data
<1>5. [md |-> m, shm |-> b] \in States
  BY <1>3, <1>4 DEF States
<1>6. s.md.rebuild_portid \in BOOLEAN
  BY DEF States, Data
<1>7. CASE ~s.md.rebuild_portid /\ s.md.portid # NoId
  BY <1>2, <1>7
<1>8. CASE s.md.rebuild_portid \/ s.md.portid = NoId
  <2> DEFINE c == mand_bld_portid_tlv(s)
  <2>1. c = [md |-> m, shm |-> b]
    BY <1>2, <1>8
  <2>2. c.md = m /\ c.shm = b /\ c \in States
    BY <2>1, <1>5
  <2> HIDE DEF c
  <2>3. /\ s.md.portid = NoId \/ s.md.rebuild_portid
        /\ c.md = [s.md EXCEPT !.portid = id, !.rebuild_portid = FALSE]
        /\ Outlives => c.shm.portid = id
        /\ c.shm.chassis = s.shm.chassis
        /\ Outlives /\ ~s.md.read_shm /\ s.shm.portid # NoId => id = s.shm.portid
    BY <2>2, <1>1, <1>3, <1>8
  <2> QED
    BY <2>2, <2>3, <1>1 DEF c
<1> QED
  BY <1>6, <1>7, <1>8

\* Both identifiers are built and not to be rebuilt.
Known(m) == /\ m.chassis # NoId /\ ~m.rebuild_chassis
            /\ m.portid # NoId /\ ~m.rebuild_portid
\* If the chassis identifier has to be built, so has the other one.
Together(m) == m.chassis = NoId \/ m.rebuild_chassis => m.portid = NoId \/ m.rebuild_portid
\* What is built is also in shared memory.
Stored(s) == /\ s.md.chassis # NoId /\ ~s.md.rebuild_chassis => s.shm.chassis = s.md.chassis
             /\ s.md.portid # NoId /\ ~s.md.rebuild_portid => s.shm.portid = s.md.portid
\* A port identifier comes with a time to live.
Timed(m) == m.portid # NoId => m.ttl

\* A whole build: what it keeps, what it makes, and that a start finds the
\* identity of the instance before.
LEMMA Build ==
  ASSUME host \in Hosts, NEW s \in States
  PROVE  LET t == mand_bld_tlv(s)
         IN  /\ t \in States
             /\ t.md.has = s.md.has /\ t.md.read_shm = s.md.read_shm
             /\ t.md.chassis # NoId => Known(t.md)
             /\ Timed(s.md) => Timed(t.md)
             /\ Together(s.md) => Together(t.md)
             /\ Known(s.md) => /\ t.md = [s.md EXCEPT !.ttl = TRUE]
                               /\ t.shm = s.shm
             /\ Outlives /\ Stored(s) => Stored(t)
             /\ Outlives /\ Together(s.md) /\ s.md.chassis = NoId => Stored(t)
             /\ Outlives /\ ~s.md.read_shm /\ s.md.chassis = NoId /\ s.md.portid = NoId
                  /\ s.shm.chassis # NoId /\ s.shm.portid # NoId
                  => /\ t.md.chassis = s.shm.chassis /\ t.md.portid = s.shm.portid
                     /\ t.shm = s.shm
<1> DEFINE c == mand_bld_chassis_tlv(s)
           p == mand_bld_portid_tlv(c)
           q == [p EXCEPT !.md.ttl = TRUE]
           t == mand_bld_tlv(s)
<1>1. t = IF c.md.chassis = NoId THEN c ELSE q
  BY DEF mand_bld_tlv, mand_bld_ttl_tlv
<1> USE DEF Known, Together, Stored, Timed
<1>2. /\ c \in States
      /\ \/ c = s /\ s.md.chassis # NoId /\ ~s.md.rebuild_chassis
         \/ \E id \in Ids :
              /\ s.md.chassis = NoId \/ s.md.rebuild_chassis
              /\ c.md = [s.md EXCEPT !.chassis = id, !.rebuild_chassis = (id = NoId)]
              /\ id = NoId => c.shm = s.shm
              /\ Outlives /\ id # NoId => c.shm.chassis = id
              /\ c.shm.portid = s.shm.portid
              /\ Outlives /\ ~s.md.read_shm /\ s.shm.chassis # NoId => id = s.shm.chassis
  BY ChassisBuild, ZenonT(60)
<1> HIDE DEF c
<1>3. /\ p \in States
      /\ \/ p = c /\ c.md.portid # NoId /\ ~c.md.rebuild_portid
         \/ \E id \in Ids \ {NoId} :
              /\ c.md.portid = NoId \/ c.md.rebuild_portid
              /\ p.md = [c.md EXCEPT !.portid = id, !.rebuild_portid = FALSE]
              /\ Outlives => p.shm.portid = id
              /\ p.shm.chassis = c.shm.chassis
              /\ Outlives /\ ~c.md.read_shm /\ c.shm.portid # NoId => id = c.shm.portid
  BY <1>2, PortidBuild, ZenonT(60)
<1> HIDE DEF p
<1>4. q \in States /\ q.md = [p.md EXCEPT !.ttl = TRUE] /\ q.shm = p.shm
  BY <1>3 DEF States, Data
<1> HIDE DEF q, t
<1>5. s.md \in Data /\ s.shm \in IdPairs /\ c.md \in Data /\ c.shm \in IdPairs
      /\ p.md \in Data /\ p.shm \in IdPairs
  BY <1>2, <1>3 DEF States
\* What the first half keeps and changes.
<1>6. /\ c.md.has = s.md.has /\ c.md.read_shm = s.md.read_shm /\ c.md.ttl = s.md.ttl
      /\ c.md.portid = s.md.portid /\ c.md.rebuild_portid = s.md.rebuild_portid
      /\ c.md.chassis # NoId => ~c.md.rebuild_chassis
      /\ c.shm.portid = s.shm.portid
      /\ s.md.chassis # NoId /\ ~s.md.rebuild_chassis => c = s
      /\ c # s => s.md.chassis = NoId \/ s.md.rebuild_chassis
      /\ c.md.chassis = NoId => c.shm = s.shm
      /\ Outlives /\ c # s /\ c.md.chassis # NoId => c.shm.chassis = c.md.chassis
      /\ Outlives /\ ~s.md.read_shm /\ s.md.chassis = NoId /\ s.shm.chassis # NoId
           => c.md.chassis = s.shm.chassis /\ c.shm.chassis = s.shm.chassis
  BY <1>2, <1>5 DEF Data
\* What the second half keeps and changes.
<1>7. /\ p.md.has = c.md.has /\ p.md.read_shm = c.md.read_shm
      /\ p.md.chassis = c.md.chassis /\ p.md.rebuild_chassis = c.md.rebuild_chassis
      /\ p.md.portid # NoId /\ ~p.md.rebuild_portid
      /\ p.shm.chassis = c.shm.chassis
      /\ c.md.portid # NoId /\ ~c.md.rebuild_portid => p = c
      /\ Outlives /\ (c.md.portid = NoId \/ c.md.rebuild_portid) => p.shm.portid = p.md.portid
      /\ Outlives /\ ~c.md.read_shm /\ c.md.portid = NoId /\ c.shm.portid # NoId
           => p.md.portid = c.shm.portid /\ p.shm.portid = c.shm.portid
  BY <1>3, <1>5 DEF Data
<1>8. /\ q.md.has = p.md.has /\ q.md.read_shm = p.md.read_shm /\ q.md.ttl
      /\ q.md.chassis = p.md.chassis /\ q.md.rebuild_chassis = p.md.rebuild_chassis
      /\ q.md.portid = p.md.portid /\ q.md.rebuild_portid = p.md.rebuild_portid
      /\ q.shm = p.shm
  BY <1>4, <1>5 DEF Data
<1>9. t \in States
  BY <1>1, <1>2, <1>4
<1>10. \A x, y \in IdPairs : x.chassis = y.chassis /\ x.portid = y.portid => x = y
  BY DEF IdPairs
<1>11. CASE c.md.chassis = NoId
  <2>1. t = c
    BY <1>1, <1>11
  <2> QED
    BY <2>1, <1>6, <1>9, <1>11 DEF t
<1>12. CASE c.md.chassis # NoId
  <2>1. t = q
    BY <1>1, <1>12
  <2>2. /\ q.md.has = s.md.has /\ q.md.read_shm = s.md.read_shm
        /\ Known(q.md) /\ Timed(q.md) /\ Together(q.md)
    BY <1>6, <1>7, <1>8, <1>12
  <2>3. Known(s.md) => q.md = [s.md EXCEPT !.ttl = TRUE] /\ q.shm = s.shm
    BY <1>4, <1>6, <1>7
  <2>4. Outlives /\ Stored(s) => Stored(q)
    BY <1>6, <1>7, <1>8, <1>12
  <2>5. Outlives /\ Together(s.md) /\ s.md.chassis = NoId => Stored(q)
    BY <1>6, <1>7, <1>8, <1>12
  <2>6. ASSUME Outlives, ~s.md.read_shm, s.md.chassis = NoId, s.md.portid = NoId,
               s.shm.chassis # NoId, s.shm.portid # NoId
        PROVE  /\ q.md.chassis = s.shm.chassis /\ q.md.portid = s.shm.portid
               /\ q.shm.chassis = s.shm.chassis /\ q.shm.portid = s.shm.portid
    BY <2>6, <1>6, <1>7, <1>8, <1>12
  <2>7. q.shm \in IdPairs
    BY <1>4 DEF States
  <2> HIDE DEF Known, Together, Stored, Timed
  <2> QED
    BY <2>1, <2>2, <2>3, <2>4, <2>5, <2>6, <2>7, <1>5, <1>9, <1>10 DEF t
<1> QED
  BY <1>11, <1>12

(***************************************************************************)
(* The inductive invariant.                                                *)
(***************************************************************************)
Now == [md |-> md, shm |-> shm]

\* A frame has been sent since the link came up, and not forgotten.
Announced == said # NoIds

IdInv ==
  /\ ~md.has => md = NoData
  /\ Together(md)
  /\ Outlives /\ ~removed => Stored(Now)
  /\ ~link => ~Announced
  /\ Announced => said.chassis # NoId /\ said.portid # NoId
  /\ running /\ Announced =>
       Known(md) /\ md.chassis = said.chassis /\ md.portid = said.portid
  /\ ~running /\ Announced /\ ~removed => Outlives /\ shm = said

\* Which modules keep data, and the property itself.
FrameInv ==
  /\ bd # {} => "ieee8023" \in bd
  /\ MedComplete

Inv == Typed /\ IdInv /\ FrameInv

LEMMA NowIn ==
  ASSUME Typed
  PROVE  Now \in States /\ Now.md = md /\ Now.shm = shm
BY DEF Now, Typed, States

LEMMA PairsEqual ==
  ASSUME NEW x \in IdPairs, NEW y \in IdPairs,
         x.chassis = y.chassis, x.portid = y.portid
  PROVE  x = y
BY DEF IdPairs

LEMMA NoIdsFields == NoIds.chassis = NoId /\ NoIds.portid = NoId
BY DEF NoIds

LEMMA NoDataFields ==
  /\ ~NoData.has /\ NoData.chassis = NoId /\ NoData.portid = NoId
  /\ ~NoData.ttl /\ ~NoData.read_shm
  /\ ~NoData.rebuild_chassis /\ ~NoData.rebuild_portid
BY DEF NoData

\* A frame's or a shutdown frame's mandatory TLVs.
LEMMA Gettlv ==
  ASSUME Inv
  PROVE  LET t == mand_gettlv
         IN  /\ t \in States
             /\ ~t.md.has => t.md = NoData
             /\ Timed(t.md) /\ Together(t.md)
             /\ Outlives /\ ~removed => Stored(t)
             /\ t.md.chassis # NoId => Known(t.md)
             /\ ~running => t.md = NoData
             /\ running /\ Announced => /\ t.md.chassis = said.chassis
                                        /\ t.md.portid = said.portid
                                        /\ t.shm = shm
<1>1. /\ host \in Hosts /\ Now \in States /\ Now.md = md /\ Now.shm = shm
      /\ md \in Data /\ Timed(md) /\ Together(md)
  BY NowIn DEF Inv, Typed, IdInv, Timed
<1> DEFINE b == mand_bld_tlv(Now)
<1>2. mand_gettlv = IF md.has THEN b ELSE Now
  BY DEF mand_gettlv, Now
<1>3. /\ b \in States
      /\ b.md.has = md.has
      /\ b.md.chassis # NoId => Known(b.md)
      /\ Timed(b.md) /\ Together(b.md)
      /\ Known(md) => b.md = [md EXCEPT !.ttl = TRUE] /\ b.shm = shm
      /\ Outlives /\ Stored(Now) => Stored(b)
  BY <1>1, Build
<1> HIDE DEF b
<1>4. Known(md) => b.md.chassis = md.chassis /\ b.md.portid = md.portid
  BY <1>1, <1>3 DEF Data
<1>5. CASE md.has
  <2>1. mand_gettlv = b
    BY <1>2, <1>5
  <2>2. running
    BY <1>5, NoDataFields DEF Inv, Typed
  <2> QED
    BY <2>1, <2>2, <1>3, <1>4, <1>5 DEF Inv, IdInv
<1>6. CASE ~md.has
  <2>1. mand_gettlv = Now /\ md = NoData
    BY <1>2, <1>6 DEF Inv, IdInv
  <2> QED
    BY <2>1, <1>1, <1>6, NoDataFields DEF Inv, IdInv, Known
<1> QED
  BY <1>5, <1>6

\* What a port comes up with.
LEMMA Ifup ==
  ASSUME Inv
  PROVE  LET t == mand_ifup
         IN  /\ t \in States
             /\ ~t.md.has => t.md = NoData
             /\ Timed(t.md) /\ Together(t.md)
             /\ Outlives /\ (~removed \/ md.chassis = NoId) => Stored(t)
             /\ running /\ Announced => /\ Known(t.md)
                                        /\ t.md.chassis = said.chassis
                                        /\ t.md.portid = said.portid
             /\ ~running /\ Announced /\ ~removed => /\ Known(t.md)
                                                     /\ t.md.chassis = said.chassis
                                                     /\ t.md.portid = said.portid
<1> DEFINE found == IF md.has THEN md ELSE [NoData EXCEPT !.has = TRUE]
           f == [md |-> found, shm |-> shm]
           s == mand_bld_tlv(f)
           t == mand_ifup
<1>1. t = IF Failed(s) THEN [s EXCEPT !.md = NoData] ELSE [s EXCEPT !.md.read_shm = TRUE]
  BY DEF mand_ifup
<1>2. /\ host \in Hosts /\ md \in Data /\ shm \in IdPairs /\ said \in IdPairs
      /\ Timed(md) /\ Together(md)
      /\ Outlives /\ ~removed => Stored(Now)
  BY DEF Inv, Typed, IdInv, Timed
<1>3. /\ found \in Data /\ found.has
      /\ found.chassis = md.chassis /\ found.portid = md.portid
      /\ Timed(found) /\ Together(found)
      /\ Outlives /\ ~removed => Stored([md |-> found, shm |-> shm])
      /\ md.has => found = md
      /\ ~md.has => ~found.read_shm
  <2>1. CASE md.has
    BY <2>1, <1>2 DEF Now
  <2>2. CASE ~md.has
    <3>1. md = NoData
      BY <2>2 DEF Inv, IdInv
    <3>2. found = [NoData EXCEPT !.has = TRUE]
      BY <2>2
    <3>3. /\ found \in Data /\ found.has
          /\ found.chassis = NoId /\ found.portid = NoId /\ ~found.read_shm
      BY <3>2, NoDataIn, NoDataFields DEF Data
    <3> HIDE DEF found
    <3> QED
      BY <3>1, <3>3, <2>2, NoDataFields DEF Timed, Together, Stored
  <2> QED
    BY <2>1, <2>2
<1> HIDE DEF found
<1>4. f \in States /\ f.md = found /\ f.shm = shm
  BY <1>2, <1>3 DEF States
<1>5. Outlives /\ ~removed => Stored(f)
  BY <1>3
<1> HIDE DEF f
<1>6. /\ s \in States
      /\ s.md.has
      /\ s.md.chassis # NoId => Known(s.md)
      /\ Timed(s.md) /\ Together(s.md)
      /\ Known(found) => s.md = [found EXCEPT !.ttl = TRUE] /\ s.shm = shm
      /\ Outlives /\ ~removed => Stored(s)
      /\ Outlives /\ found.chassis = NoId => Stored(s)
      /\ Outlives /\ ~found.read_shm /\ found.chassis = NoId /\ found.portid = NoId
           /\ shm.chassis # NoId /\ shm.portid # NoId
           => s.md.chassis = shm.chassis /\ s.md.portid = shm.portid
  BY <1>2, <1>3, <1>4, <1>5, Build
<1> HIDE DEF s, t
<1>7. s.md \in Data /\ s.shm \in IdPairs
  BY <1>6 DEF States
<1>8. CASE Failed(s)
  <2>1. t \in States /\ t.md = NoData /\ t.shm = s.shm
    BY <1>1, <1>6, <1>8, NoDataIn DEF States
  <2>2. ~(running /\ Announced)
    <3> SUFFICES ASSUME running, Announced PROVE FALSE
      OBVIOUS
    <3>1. Known(md) /\ md.has
      BY NoDataFields DEF Inv, IdInv, Known
    <3>2. s.md.chassis = md.chassis
      BY <3>1, <1>2, <1>3, <1>6 DEF Data
    <3> QED
      BY <3>1, <3>2, <1>8 DEF Known, Failed
  <2>3. ~(~running /\ Announced /\ ~removed)
    <3> SUFFICES ASSUME ~running, Announced, ~removed PROVE FALSE
      OBVIOUS
    <3>1. md = NoData /\ Outlives /\ shm = said /\ said.chassis # NoId /\ said.portid # NoId
      BY DEF Inv, Typed, IdInv
    <3>2. s.md.chassis = shm.chassis
      BY <3>1, <1>3, <1>6, NoDataFields
    <3> QED
      BY <3>1, <3>2, <1>8 DEF Failed
  <2> QED
    BY <2>1, <2>2, <2>3, NoDataFields DEF t, Timed, Together, Stored
<1>9. CASE ~Failed(s)
  <2>1. /\ t \in States /\ t.shm = s.shm /\ t.md.has
        /\ t.md.chassis = s.md.chassis /\ t.md.portid = s.md.portid /\ t.md.ttl = s.md.ttl
        /\ t.md.rebuild_chassis = s.md.rebuild_chassis
        /\ t.md.rebuild_portid = s.md.rebuild_portid
    BY <1>1, <1>6, <1>7, <1>9 DEF States, Data
  <2>2. Known(s.md)
    BY <1>6, <1>9 DEF Failed
  <2>3. Known(t.md) /\ Timed(t.md) /\ Together(t.md)
    BY <2>1, <2>2, <1>6 DEF Known, Timed, Together
  <2>4. Stored(s) => Stored(t)
    BY <2>1 DEF Stored
  <2>5. ASSUME running, Announced
        PROVE  t.md.chassis = said.chassis /\ t.md.portid = said.portid
    <3>1. Known(md) /\ md.has /\ md.chassis = said.chassis /\ md.portid = said.portid
      BY <2>5, NoDataFields DEF Inv, IdInv, Known
    <3>2. s.md.chassis = md.chassis /\ s.md.portid = md.portid
      BY <3>1, <1>2, <1>3, <1>6 DEF Data
    <3> QED
      BY <3>1, <3>2, <2>1
  <2>6. ASSUME ~running, Announced, ~removed
        PROVE  t.md.chassis = said.chassis /\ t.md.portid = said.portid
    <3>1. md = NoData /\ Outlives /\ shm = said /\ said.chassis # NoId /\ said.portid # NoId
      BY <2>6 DEF Inv, Typed, IdInv
    <3>2. s.md.chassis = shm.chassis /\ s.md.portid = shm.portid
      BY <3>1, <1>3, <1>6, NoDataFields
    <3> QED
      BY <3>1, <3>2, <2>1
  <2> QED
    BY <2>1, <2>3, <2>4, <2>5, <2>6, <1>3, <1>6 DEF t
<1> QED
  BY <1>8, <1>9

(***************************************************************************)
(* The steps.                                                              *)
(***************************************************************************)
\* What SameIdentity asks of a step.
Constant == Announced /\ Announced' => said' = said

LEMMA SavedIn ==
  ASSUME Typed
  PROVE  [conf EXCEPT !.saved = ManSaved] \in Confs
<1>1. conf \in Confs /\ conf.saved \in [Families -> Addresses \cup {0}] /\ host \in Hosts
  BY DEF Typed, Confs, ConfFiles
<1>2. ManFamily \in Families
  BY DEF ManFamily, Families
<1>3. ManAddr(ManFamily) \in Addresses \cup {0}
  BY <1>1, <1>2, HostIn DEF ManAddr
<1>4. [conf.saved EXCEPT ![ManFamily] = ManAddr(ManFamily)] \in [Families -> Addresses \cup {0}]
  BY <1>1, <1>2, <1>3
<1>5. ManSaved \in [Families -> Addresses \cup {0}]
  BY <1>1, <1>4 DEF ManSaved
<1> QED
  BY <1>1, <1>5 DEF Confs, ConfFiles

\* The identity in a step that sends a frame.
LEMMA SaysSame ==
  ASSUME Inv
  PROVE  LET t == mand_gettlv
         IN  /\ Said(t.md) \in IdPairs
             /\ running /\ Announced => Said(t.md) = said
             /\ Said(t.md) # NoIds => /\ Said(t.md).chassis # NoId /\ Said(t.md).portid # NoId
                                      /\ running => /\ Known(t.md)
                                                    /\ t.md.chassis = Said(t.md).chassis
                                                    /\ t.md.portid = Said(t.md).portid
<1> DEFINE t == mand_gettlv
           p == [chassis |-> t.md.chassis, portid |-> t.md.portid]
<1>1. /\ t \in States
      /\ t.md.chassis # NoId => Known(t.md)
      /\ running /\ Announced => t.md.chassis = said.chassis /\ t.md.portid = said.portid
  BY Gettlv
<1>2. Said(t.md) = IF t.md.chassis # NoId THEN p ELSE said
  BY DEF Said
<1> HIDE DEF t
<1>3. /\ p \in IdPairs /\ said \in IdPairs
      /\ p.chassis = t.md.chassis /\ p.portid = t.md.portid
  BY <1>1 DEF States, Data, IdPairs, Inv, Typed
<1> HIDE DEF p
<1>4. running /\ Announced => p = said
  BY <1>1, <1>3, PairsEqual
<1>5. Announced => said.chassis # NoId /\ said.portid # NoId
  BY DEF Inv, IdInv
<1>6. t.md.chassis # NoId => Said(t.md) = p /\ Known(t.md)
  BY <1>1, <1>2
<1>7. t.md.chassis = NoId => Said(t.md) = said
  BY <1>2
<1>8. t.md.chassis = NoId => ~(running /\ Announced)
  BY <1>1, <1>5
<1> QED
  BY <1>3, <1>4, <1>5, <1>6, <1>7, <1>8 DEF t, Announced, Known

\* What sending a frame keeps, whichever frame it is.
LEMMA Sends ==
  ASSUME Inv, running, link,
         md' = mand_gettlv.md, shm' = mand_gettlv.shm, said' = Said(mand_gettlv.md),
         UNCHANGED <<type, room, running, link, host, bd, removed>>, conf' \in Confs
  PROVE  Typed' /\ IdInv' /\ Constant
<1> DEFINE t == mand_gettlv
<1>1. /\ t \in States
      /\ ~t.md.has => t.md = NoData
      /\ Timed(t.md) /\ Together(t.md)
      /\ Outlives /\ ~removed => Stored(t)
  BY Gettlv
<1>2. /\ Said(t.md) \in IdPairs
      /\ Announced => Said(t.md) = said
      /\ Said(t.md) # NoIds => /\ Said(t.md).chassis # NoId /\ Said(t.md).portid # NoId
                               /\ Known(t.md)
                               /\ t.md.chassis = Said(t.md).chassis
                               /\ t.md.portid = Said(t.md).portid
  BY SaysSame
<1>3. md' = t.md /\ shm' = t.shm /\ said' = Said(t.md)
  OBVIOUS
<1> HIDE DEF t
<1>4. t.md \in Data /\ t.shm \in IdPairs
  BY <1>1 DEF States
<1>5. Typed'
  BY <1>1, <1>2, <1>3, <1>4 DEF Inv, Typed, Timed
<1>6. Stored(t) => Stored(Now)'
  BY <1>3 DEF Stored, Now
<1>7. IdInv'
  BY <1>1, <1>2, <1>3, <1>6 DEF Inv, IdInv, Announced, Outlives, Together, Known
<1>8. Constant
  BY <1>2, <1>3 DEF Constant
<1> QED
  BY <1>5, <1>7, <1>8

\* What the three modules put in a frame is complete.
LEMMA FrameComplete ==
  ASSUME Inv, NEW tlvs,
         tlvs = UNION {[basman |-> basman_gettlv, med |-> med_gettlv,
                        ieee8023 |-> ieee8023_gettlv][m] : m \in bd},
         tlvs \cap MedTlvs # {}
  PROVE  /\ "macPhyCfg" \in tlvs
         /\ "medCap" \in tlvs \cup conf.denied
         /\ get_med_devtype \in Defined
         /\ get_med_devtype \in {"class2", "class3"} => "medPolicy" \in tlvs
<1> DEFINE sets == [basman |-> basman_gettlv, med |-> med_gettlv, ieee8023 |-> ieee8023_gettlv]
<1>1. /\ sets["basman"] = basman_gettlv /\ sets["med"] = med_gettlv
      /\ sets["ieee8023"] = ieee8023_gettlv
  OBVIOUS
<1>2. tlvs = UNION {sets[m] : m \in bd}
  OBVIOUS
<1> HIDE DEF sets
<1>3. bd \subseteq {"basman", "ieee8023", "med"}
  BY DEF Inv, Typed
<1>4. PICK x \in MedTlvs : x \in tlvs
  OBVIOUS
<1>5. PICK m \in bd : x \in sets[m]
  BY <1>2, <1>4
<1>6. basman_gettlv \subseteq BasicTlvs /\ ieee8023_gettlv \subseteq Ieee8023Tlvs
  BY DEF basman_gettlv, basman_bld, ieee8023_gettlv, ieee8023_bld
<1>7. x \notin BasicTlvs /\ x \notin Ieee8023Tlvs
  BY <1>4 DEF MedTlvs, BasicTlvs, Ieee8023Tlvs, Inventory
<1>8. m = "med" /\ x \in med_gettlv
  BY <1>1, <1>3, <1>5, <1>6, <1>7
<1>9. is_tlv_txenabled("LLDP-MED") /\ ~med_bld_fails
  BY <1>8 DEF med_gettlv
<1>10. /\ get_med_devtype \in Defined
       /\ is_tlv_txenabled("macPhyCfg")
       /\ get_med_devtype \in {"class2", "class3"} => med_get_netpoli
  BY <1>9 DEF med_bld_fails, med_bld_netpoli_fails
<1>11. "macPhyCfg" \in ieee8023_gettlv
  BY <1>10 DEF ieee8023_gettlv, ieee8023_bld, Ieee8023Tlvs
<1>12. "ieee8023" \in bd
  BY <1>5 DEF Inv, FrameInv
<1>13. "macPhyCfg" \in tlvs
  BY <1>1, <1>2, <1>11, <1>12
<1>14. med_get_netpoli => "medPolicy" \in med_gettlv
  BY <1>9 DEF med_gettlv, MedTlvs
<1>15. med_get_netpoli => "medPolicy" \in tlvs
  BY <1>1, <1>2, <1>5, <1>8, <1>14
<1>16. "medCap" \in conf.tx \cup conf.denied
  BY <1>10 DEF Inv, Typed, Confs, get_med_devtype, Defined, Endpoints
<1>17. "medCap" \in conf.tx => "medCap" \in med_gettlv
  BY <1>9 DEF med_gettlv, MedTlvs, med_bld_medcaps_tlv, is_tlv_txenabled
<1>18. "medCap" \in tlvs \cup conf.denied
  BY <1>1, <1>2, <1>5, <1>8, <1>16, <1>17
<1> QED
  BY <1>10, <1>13, <1>15, <1>18

LEMMA InfoStep == ASSUME Inv, mibConstrInfoLLDPDU PROVE Inv' /\ Constant
<1>1. /\ running /\ link
      /\ md' = mand_gettlv.md /\ shm' = mand_gettlv.shm /\ said' = Said(mand_gettlv.md)
      /\ UNCHANGED <<type, room, running, link, host, bd, removed>>
  BY DEF mibConstrInfoLLDPDU
<1>2. conf' \in Confs
  BY SavedIn DEF mibConstrInfoLLDPDU, Inv, Typed
<1>3. Typed' /\ IdInv' /\ Constant
  BY <1>1, <1>2, Sends
<1> DEFINE tlvs == UNION {[basman |-> basman_gettlv, med |-> med_gettlv,
                           ieee8023 |-> ieee8023_gettlv][m] : m \in bd}
<1>4. \E c \in BOOLEAN : frame' = [sent |-> TRUE, chassis |-> c, tlvs |-> tlvs, devtype |-> get_med_devtype,
                                       denied |-> conf.denied]
  BY DEF mibConstrInfoLLDPDU
<1>5. tlvs \cap MedTlvs # {} =>
        /\ "macPhyCfg" \in tlvs
        /\ "medCap" \in tlvs \cup conf.denied
        /\ get_med_devtype \in Defined
        /\ get_med_devtype \in {"class2", "class3"} => "medPolicy" \in tlvs
  BY FrameComplete
<1> HIDE DEF tlvs
<1>6. /\ frame'.tlvs = tlvs /\ frame'.devtype = get_med_devtype
      /\ frame'.denied = conf.denied
  BY <1>4
<1>7. MedComplete'
  BY <1>5, <1>6 DEF MedComplete
<1>8. FrameInv'
  BY <1>1, <1>7 DEF Inv, FrameInv
<1> QED
  BY <1>3, <1>8 DEF Inv

\* A frame with mandatory TLVs only has nothing to complete.
LEMMA NoMed ==
  ASSUME ShutdownFrame
  PROVE  MedComplete'
<1>1. frame'.tlvs = {}
  BY DEF ShutdownFrame, NoFrame
<1> QED
  BY <1>1 DEF MedComplete

LEMMA ShutdownStep == ASSUME Inv, mibConstrShutdownLLDPDU PROVE Inv' /\ Constant
<1>1. /\ running /\ link
      /\ md' = mand_gettlv.md /\ shm' = mand_gettlv.shm /\ said' = Said(mand_gettlv.md)
      /\ UNCHANGED <<type, room, running, link, host, bd, removed>> /\ conf' = conf
      /\ ShutdownFrame
  BY DEF mibConstrShutdownLLDPDU, ShutdownFrame
<1>2. conf' \in Confs
  BY <1>1 DEF Inv, Typed
<1>3. Typed' /\ IdInv' /\ Constant
  BY <1>1, <1>2, Sends
<1>4. FrameInv'
  BY <1>1, NoMed DEF Inv, FrameInv
<1> QED
  BY <1>3, <1>4 DEF Inv

\* A port that comes up, in a daemon that runs afterwards.
LEMMA IfupKeeps ==
  ASSUME Inv, ifup, running', link', UNCHANGED <<type, room, host, frame>>,
         said' = IF ~running /\ removed THEN NoIds ELSE said
  PROVE  Inv' /\ Constant
<1> DEFINE t == mand_ifup
<1>1. /\ t \in States
      /\ ~t.md.has => t.md = NoData
      /\ Timed(t.md) /\ Together(t.md)
      /\ Outlives /\ (~removed \/ md.chassis = NoId) => Stored(t)
      /\ running /\ Announced => /\ Known(t.md)
                                 /\ t.md.chassis = said.chassis
                                 /\ t.md.portid = said.portid
      /\ ~running /\ Announced /\ ~removed => /\ Known(t.md)
                                              /\ t.md.chassis = said.chassis
                                              /\ t.md.portid = said.portid
  BY Ifup
<1>2. /\ md' = t.md /\ shm' = t.shm
      /\ bd' = bd \cup basman_ifup \cup ieee8023_ifup \cup med_ifup
      /\ conf' = IF "basman" \in bd THEN conf ELSE [conf EXCEPT !.saved = ManSaved]
      /\ removed' = (removed /\ md.chassis # NoId)
  BY DEF ifup
<1> HIDE DEF t
<1>3. t.md \in Data /\ t.shm \in IdPairs
  BY <1>1 DEF States
<1>4. conf' \in Confs
  BY <1>2, SavedIn DEF Inv, Typed
<1>5. bd' \subseteq {"basman", "ieee8023", "med"} /\ "ieee8023" \in bd'
  BY <1>2 DEF Inv, Typed, basman_ifup, ieee8023_ifup, med_ifup
<1>6. said' \in IdPairs /\ (Announced' => said' = said)
  BY NoDataIn DEF Inv, Typed, Announced
<1>7. Typed'
  BY <1>1, <1>2, <1>3, <1>4, <1>5, <1>6 DEF Inv, Typed, Timed
<1>8. Stored(t) => Stored(Now)'
  BY <1>2 DEF Stored, Now
<1>9. Outlives' /\ ~removed' => Stored(Now)'
  BY <1>1, <1>2, <1>8 DEF Outlives
<1>10. Announced' => Known(t.md) /\ t.md.chassis = said'.chassis /\ t.md.portid = said'.portid
  BY <1>1, <1>6 DEF Announced
<1>11. Known(md)' <=> Known(t.md)
  BY <1>2 DEF Known
<1>12. Together(md)' /\ (~md'.has => md' = NoData)
  BY <1>1, <1>2 DEF Together
<1>13. IdInv'
  BY <1>2, <1>6, <1>9, <1>10, <1>11, <1>12 DEF Inv, IdInv, Announced
<1>14. FrameInv'
  BY <1>5 DEF Inv, FrameInv, MedComplete
<1>15. Constant
  BY <1>6 DEF Constant
<1> QED
  BY <1>7, <1>13, <1>14, <1>15 DEF Inv

LEMMA LinkUpStep == ASSUME Inv, LinkUp PROVE Inv' /\ Constant
<1>1. CASE running
  BY <1>1, IfupKeeps DEF LinkUp
<1>2. CASE ~running
  <2>1. UNCHANGED <<type, room, running, host, frame, said, md, shm, bd, conf, removed>> /\ link'
    BY <1>2 DEF LinkUp
  <2> QED
    BY <2>1, <1>2 DEF Inv, Typed, IdInv, FrameInv, MedComplete, Constant, Announced, Together,
                      Stored, Now, Outlives, Known
<1> QED
  BY <1>1, <1>2

LEMMA AddDeviceStep == ASSUME Inv, oper_add_device PROVE Inv' /\ Constant
BY IfupKeeps DEF oper_add_device

LEMMA StartStep == ASSUME Inv, Start PROVE Inv' /\ Constant
<1>1. CASE link
  BY <1>1, IfupKeeps DEF Start
<1>2. CASE ~link
  <2>1. /\ UNCHANGED <<type, room, link, host, frame, md, shm, bd, conf, removed>> /\ running'
        /\ said' = IF removed THEN NoIds ELSE said
    BY <1>2 DEF Start
  <2>2. ~Announced /\ said' = said /\ ~running
    BY <2>1, <1>2 DEF Inv, IdInv, Announced, Start
  <2> QED
    BY <2>1, <2>2, <1>2 DEF Inv, Typed, IdInv, FrameInv, MedComplete, Constant, Announced,
                      Together, Stored, Now, Outlives, Known
<1> QED
  BY <1>1, <1>2

LEMMA LinkDownStep == ASSUME Inv, LinkDown PROVE Inv' /\ Constant
<1>1. /\ UNCHANGED <<type, room, running, host, conf, shm, frame, removed>>
      /\ link' = FALSE /\ md' = mand_ifdown /\ bd' = {} /\ said' = NoIds
  BY DEF LinkDown
<1>2. /\ md' \in Data
      /\ ~md'.has => md' = NoData
      /\ md'.has => /\ md'.chassis = NoId /\ md'.portid = NoId
                    /\ md'.rebuild_chassis /\ md'.rebuild_portid
  BY <1>1, IdsIn DEF mand_ifdown, Inv, Typed, IdInv, Data
<1>3. ~running => md' = NoData
  BY <1>1, NoDataFields DEF mand_ifdown, Inv, Typed
<1>4. Typed'
  BY <1>1, <1>2, <1>3, NoDataIn, NoDataFields DEF Inv, Typed
<1>5. IdInv'
  BY <1>1, <1>2, NoDataFields DEF Inv, IdInv, Announced, Together, Stored, Now
<1>6. FrameInv' /\ Constant
  BY <1>1 DEF Inv, FrameInv, MedComplete, Constant, Announced
<1> QED
  BY <1>4, <1>5, <1>6 DEF Inv

LEMMA AddressStep == ASSUME Inv, AddressChange PROVE Inv' /\ Constant
<1>1. UNCHANGED <<type, room, running, link, conf, md, bd, shm, frame, said, removed>>
  BY DEF AddressChange
<1>2. host' \in Hosts
  BY DEF AddressChange, Inv, Typed, Hosts
<1> QED
  BY <1>1, <1>2 DEF Inv, Typed, IdInv, FrameInv, MedComplete, Constant, Announced, Together,
                    Stored, Now, Outlives, Known

LEMMA RemovalStep == ASSUME Inv, mark_lldpad_shm_for_removal PROVE Inv' /\ Constant
<1>1. /\ UNCHANGED <<type, room, running, link, host, conf, md, bd, frame, said>>
      /\ shm' = NoIds /\ removed' = TRUE
  BY DEF mark_lldpad_shm_for_removal
<1> QED
  BY <1>1, NoDataIn DEF Inv, Typed, IdInv, FrameInv, MedComplete, Constant, Announced, Together,
                    Outlives, Known

LEMMA StopStep == ASSUME Inv, Stop PROVE Inv' /\ Constant
<1>1. PICK sends \in {link, FALSE} :
        /\ IF sends THEN ShutdownFrame ELSE UNCHANGED <<shm, frame>>
        /\ said' = CASE ~Outlives -> NoIds
                     [] Outlives /\ sends -> Said(mand_gettlv.md)
                     [] OTHER -> said
  BY DEF Stop
<1>2. /\ running /\ running' = FALSE /\ md' = NoData /\ bd' = {}
      /\ UNCHANGED <<type, room, link, host, conf, removed>>
  BY DEF Stop
<1> DEFINE t == mand_gettlv
<1>3. /\ t \in States
      /\ Outlives /\ ~removed => Stored(t)
      /\ t.md.chassis # NoId => Known(t.md)
      /\ Announced => t.shm = shm
  BY <1>2, Gettlv
<1>4. /\ Said(t.md) \in IdPairs
      /\ Announced => Said(t.md) = said
      /\ Said(t.md) # NoIds => /\ Said(t.md).chassis # NoId /\ Said(t.md).portid # NoId
                               /\ Known(t.md)
                               /\ t.md.chassis = Said(t.md).chassis
                               /\ t.md.portid = Said(t.md).portid
  BY <1>2, SaysSame
<1> HIDE DEF t
<1>5. t.shm \in IdPairs /\ shm \in IdPairs /\ said \in IdPairs
  BY <1>3 DEF States, Inv, Typed
<1>6. sends => shm' = t.shm /\ MedComplete'
  BY <1>1, NoMed DEF ShutdownFrame, t
<1>7. ~sends => shm' = shm /\ MedComplete'
  BY <1>1 DEF Inv, FrameInv, MedComplete
<1>8. /\ ~Outlives => said' = NoIds
      /\ Outlives /\ sends => said' = Said(t.md)
      /\ Outlives /\ ~sends => said' = said
  BY <1>1 DEF t
<1>9. said' \in IdPairs /\ shm' \in IdPairs
  BY <1>4, <1>5, <1>6, <1>7, <1>8, NoDataIn
<1>10. Announced' => said'.chassis # NoId /\ said'.portid # NoId
  BY <1>4, <1>8 DEF Announced, Inv, IdInv
<1>11. ASSUME Announced', ~removed
       PROVE  Outlives /\ shm' = said'
  <2>1. Outlives
    BY <1>8, <1>11 DEF Announced
  <2>2. CASE sends
    <3>1. Stored(t) /\ Known(t.md) /\ t.md.chassis = said'.chassis /\ t.md.portid = said'.portid
      BY <2>1, <2>2, <1>3, <1>4, <1>8, <1>11 DEF Announced
    <3>2. shm'.chassis = said'.chassis /\ shm'.portid = said'.portid
      BY <3>1, <2>2, <1>6 DEF Stored, Known
    <3> QED
      BY <3>2, <2>1, <1>9, PairsEqual
  <2>3. CASE ~sends
    <3>1. said' = said /\ shm' = shm /\ Announced
      BY <2>1, <2>3, <1>7, <1>8, <1>11 DEF Announced
    <3>2. Known(md) /\ md.chassis = said.chassis /\ md.portid = said.portid /\ Stored(Now)
      BY <3>1, <2>1, <1>2, <1>11 DEF Inv, IdInv
    <3>3. shm.chassis = said.chassis /\ shm.portid = said.portid
      BY <3>2 DEF Stored, Known, Now
    <3> QED
      BY <3>1, <3>3, <2>1, <1>5, PairsEqual
  <2> QED
    BY <2>2, <2>3
<1>12. Announced' => link
  <2>1. Announced => link
    BY DEF Inv, IdInv
  <2>2. sends => link
    BY <1>1
  <2> QED
    BY <2>1, <2>2, <1>8 DEF Announced
<1>13. Typed'
  BY <1>2, <1>9, NoDataIn, NoDataFields DEF Inv, Typed
<1>14. IdInv'
  BY <1>2, <1>10, <1>11, <1>12, NoDataFields
     DEF IdInv, Together, Stored, Now, Outlives
<1>15. FrameInv'
  BY <1>2, <1>6, <1>7 DEF FrameInv
<1>16. Constant
  BY <1>4, <1>8 DEF Constant, Announced
<1> QED
  BY <1>13, <1>14, <1>15, <1>16 DEF Inv

\* A command that leaves the identifiers alone.
LEMMA CommandKeeps ==
  ASSUME Inv, conf' \in Confs,
         UNCHANGED <<type, room, running, link, host, md, bd, shm, frame, said, removed>>
  PROVE  Inv' /\ Constant
BY DEF Inv, Typed, IdInv, FrameInv, MedComplete, Constant, Announced, Together, Stored, Now,
       Outlives, Known

LEMMA EnableStep ==
  ASSUME Inv, NEW tlvs, SetEnableTx(tlvs)
  PROVE  Inv' /\ Constant
<1>1. UNCHANGED <<type, room, running, link, host, md, bd, shm, frame, said, removed>>
  BY DEF SetEnableTx, Accepts
<1>2. PICK t \in tlvs \cap CommandTlvs :
        \/ conf' = [conf EXCEPT !.tx = @ \cup {t}, !.denied = @ \ {t}]
        \/ conf' = [conf EXCEPT !.tx = @ \ {t}, !.denied = @ \cup {t}]
  BY DEF SetEnableTx, Accepts
<1>3. t \in Tlvs /\ conf \in Confs
  BY TlvsAssumption DEF Inv, Typed
<1>4. conf' \in ConfFiles
  <2>1. conf \in ConfFiles /\ conf.tx \in SUBSET Tlvs /\ conf.denied \in SUBSET Tlvs
    BY <1>3 DEF Confs, ConfFiles
  <2>2. \A x, y \in SUBSET Tlvs : [conf EXCEPT !.tx = x, !.denied = y] \in ConfFiles
    BY <2>1 DEF ConfFiles
  <2>3. {conf.tx \cup {t}, conf.tx \ {t}, conf.denied \cup {t}, conf.denied \ {t}}
          \subseteq SUBSET Tlvs
    BY <1>3, <2>1
  <2> QED
    BY <1>2, <2>2, <2>3
<1>5. /\ conf'.devtype = conf.devtype
      /\ conf.tx \cup conf.denied \subseteq conf'.tx \cup conf'.denied
  <2>1. DOMAIN conf = {"chassis", "portid", "devtype", "tx", "denied", "info", "saved"}
    BY <1>3 DEF Confs, ConfFiles
  <2>2. conf'.devtype = conf.devtype
    BY <1>2, <2>1
  <2>3. \/ conf'.tx = conf.tx \cup {t} /\ conf'.denied = conf.denied \ {t}
        \/ conf'.tx = conf.tx \ {t} /\ conf'.denied = conf.denied \cup {t}
    BY <1>2, <2>1
  <2> QED
    BY <2>2, <2>3
<1>6. conf' \in Confs
  BY <1>3, <1>4, <1>5 DEF Confs
<1> QED
  BY <1>1, <1>6, CommandKeeps

LEMMA DevTypeStep == ASSUME Inv, set_arg_med_devtype PROVE Inv' /\ Constant
<1>1. UNCHANGED <<type, room, running, link, host, md, bd, shm, frame, said, removed>>
  BY DEF set_arg_med_devtype, Accepts
<1>2. PICK d \in DevTypes :
        conf' = [conf EXCEPT !.devtype = d, !.tx = DevTypeTx(d), !.denied = {}]
  BY DEF set_arg_med_devtype, Accepts
<1>3. d \in Defined \cup {"none"} /\ conf \in Confs
  BY TlvsAssumption DEF Inv, Typed
<1>4. DevTypeTx(d) \subseteq Tlvs /\ (d # "none" => "medCap" \in DevTypeTx(d))
  BY <1>3 DEF DevTypeTx, Confs, ConfFiles, Tlvs, MedTlvs, BasicTlvs, Ieee8023Tlvs
<1>5. conf' \in Confs
  BY <1>2, <1>3, <1>4 DEF Confs, ConfFiles
<1> QED
  BY <1>1, <1>5, CommandKeeps

LEMMA SavedStep == ASSUME Inv, set_arg_ipv4_ipv6 PROVE Inv' /\ Constant
<1>1. UNCHANGED <<type, room, running, link, host, md, bd, shm, frame, said, removed>>
  BY DEF set_arg_ipv4_ipv6, Accepts
<1>2. PICK f \in Families, a \in Addresses : conf' = [conf EXCEPT !.saved[f] = a]
  BY DEF set_arg_ipv4_ipv6, Accepts
<1>3. conf \in Confs
  BY DEF Inv, Typed
<1>4. conf' \in Confs
  BY <1>2, <1>3 DEF Confs, ConfFiles
<1> QED
  BY <1>1, <1>4, CommandKeeps

\* Another subtype: both identifiers are built again and the old identity is
\* forgotten.
LEMMA SubtypeStep == ASSUME Inv, set_mand_subtype PROVE Inv' /\ Constant
<1>1. /\ UNCHANGED <<type, room, running, link, host, bd, shm, frame, removed>> /\ running
      /\ said' = NoIds
      /\ md' = IF md.has THEN [md EXCEPT !.read_shm = TRUE, !.rebuild_chassis = TRUE,
                                         !.rebuild_portid = TRUE] ELSE md
  BY DEF set_mand_subtype, Accepts
<1>2. PICK k \in DOMAIN NoIds, v \in Subtypes : conf' = [conf EXCEPT ![k] = v]
  BY DEF set_mand_subtype, Accepts
<1>3. conf' \in Confs
  <2>1. k \in {"chassis", "portid"} /\ conf \in Confs
    BY DEF Inv, Typed, NoIds
  <2>2. CASE k = "chassis"
    BY <2>1, <2>2, <1>2 DEF Confs, ConfFiles
  <2>3. CASE k = "portid"
    BY <2>1, <2>3, <1>2 DEF Confs, ConfFiles
  <2> QED
    BY <2>1, <2>2, <2>3
<1>4. md \in Data
  BY DEF Inv, Typed
<1>5. /\ md' \in Data /\ md'.has = md.has
      /\ md'.chassis = md.chassis /\ md'.portid = md.portid /\ md'.ttl = md.ttl
      /\ md.has => md'.rebuild_chassis /\ md'.rebuild_portid
      /\ ~md.has => md' = md
  BY <1>1, <1>4 DEF Data
<1>6. Typed'
  BY <1>1, <1>3, <1>5, NoDataIn DEF Inv, Typed
<1>7. IdInv'
  BY <1>1, <1>5, NoDataFields DEF Inv, IdInv, Announced, Together, Stored, Now, Outlives
<1>8. FrameInv' /\ Constant
  BY <1>1 DEF Inv, FrameInv, MedComplete, Constant, Announced
<1> QED
  BY <1>6, <1>7, <1>8 DEF Inv

-----------------------------------------------------------------------------
LEMMA InitInv == Init => Inv
<1> SUFFICES ASSUME Init PROVE Inv
  OBVIOUS
<1>1. PICK v4 \in Addresses \cup {0}, mac \in Addresses :
        host = [mac |-> mac, ipv4 |-> v4, ipv6 |-> 0]
  BY DEF Init
<1>2. host \in Hosts
  BY <1>1 DEF Hosts, Families
<1>3. conf \in Confs
  BY DEF Init, Confs, ConfFiles, Subtypes, Tlvs
<1>4. Typed
  BY <1>2, <1>3, NoDataIn, NoDataFields DEF Init, Typed
<1>5. IdInv
  BY NoDataFields DEF Init, IdInv, Announced, Together, Stored, Now
<1>6. FrameInv
  BY DEF Init, FrameInv, MedComplete, NoFrame
<1> QED
  BY <1>4, <1>5, <1>6 DEF Inv

LEMMA StepInv == Inv /\ [Next]_vars => Inv' /\ Constant
<1> SUFFICES ASSUME Inv, [Next]_vars PROVE Inv' /\ Constant
  OBVIOUS
<1>1. CASE UNCHANGED vars
  BY <1>1, CommandKeeps DEF vars, Inv, Typed
<1>2. CASE Next
  BY <1>2, InfoStep, ShutdownStep, LinkUpStep, AddDeviceStep, LinkDownStep, AddressStep,
     RemovalStep, StartStep, StopStep, SubtypeStep, DevTypeStep, SavedStep, EnableStep
     DEF Next, basman_set_arg_tlvtxenable, ieee8023_set_arg_tlvtxenable, med_set_arg_tlvtxenable
<1> QED
  BY <1>1, <1>2

LEMMA AlwaysInv == Spec => []Inv
BY InitInv, StepInv, PTL DEF Spec

\* Type correctness, with the port identifier that never comes without a time
\* to live (mand_bld_tlv) and the modules that keep nothing while the link is
\* down or the daemon does not run.
THEOREM TlvsTyped == Spec => []TypeOK
<1>1. Inv => TypeOK
  BY DEF Inv, Typed, TypeOK, Hosts, Confs, ConfFiles, Data, IdPairs
<1> QED
  BY <1>1, AlwaysInv, PTL

\* A frame with any LLDP-MED TLV has the MAC/PHY TLV of the 802.3 module, the
\* network policy its device type demands, and the Capabilities TLV unless the
\* operator has switched that one off since choosing the type (med_bld_tlv,
\* med_bld_medcaps_tlv, ieee8023_gettlv, _set_arg_med_devtype), whatever else
\* the operator switches and whichever modules keep data for the port.
THEOREM MedFramesComplete == Spec => []MedComplete
<1>1. Inv => MedComplete
  BY DEF Inv, FrameInv
<1> QED
  BY <1>1, AlwaysInv, PTL

\* The identifiers remain constant while the connection remains operational
\* (mand_bld_chassis_tlv), over any number of address changes, commands,
\* link events, removals of the shared memory and restarts of the daemon.
THEOREM IdentityKept == Spec => SameIdentity
<1>1. Constant => [said # NoIds /\ said' # NoIds => said' = said]_vars
  BY DEF Constant, Announced
<1>2. Inv /\ [Next]_vars => [said # NoIds /\ said' # NoIds => said' = said]_vars
  BY <1>1, StepInv
<1> QED
  BY <1>2, AlwaysInv, PTL DEF Spec, SameIdentity
=============================================================================
