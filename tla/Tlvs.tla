-------------------------------- MODULE Tlvs --------------------------------
(***************************************************************************)
(* The TLVs of one LLDP agent's frames: the mandatory ones (lldp_mand.c),  *)
(* the basic management set (lldp_basman.c), IEEE 802.3 (lldp_8023.c) and  *)
(* LLDP-MED (lldp_med.c), with the commands that configure them, the       *)
(* configuration file, and the identity kept in shared memory              *)
(* (lldpad_shm.c) over a restart of the daemon.                            *)
(*                                                                         *)
(* When a frame is due is the business of LldpTx; what is in it is decided *)
(* here, by what each module keeps per port, what the operator configured  *)
(* and the addresses the interface has at that moment.                     *)
(***************************************************************************)
EXTENDS Naturals

CONSTANTS
  Addresses,    \* the values of an address of the interface
  DevTypes,     \* the LLDP-MED device types the operator tries
  CommandTlvs,  \* the TLVs whose enableTx the operator sets
  MaxHost,      \* bound: changes of an address, of the link, of shared memory
  MaxCommands,  \* bound: accepted commands
  MaxRestarts   \* bound: ends of the daemon

Families == {"ipv4", "ipv6"}

BasicTlvs == {"portDesc", "sysName", "sysDesc", "sysCap", "mngAddr"}
Ieee8023Tlvs == {"macPhyCfg", "powerMdi", "linkAgg", "MTU"}
Inventory == "inventory"   \* the seven inventory TLVs
\* "LLDP-MED" is LLDP_MED_RESERVED, the switch for all the others
MedTlvs == {"LLDP-MED", "medCap", "medPolicy", "medLoc", "medPower", Inventory}
Tlvs == BasicTlvs \cup Ieee8023Tlvs \cup MedTlvs
\* what is sent only if the configuration file holds its value
FileOnly == {"medPolicy", "medLoc", "powerMdi"}

Endpoints == {"class1", "class2", "class3"}
Defined == Endpoints \cup {"netcon"}
Subtypes == {"mac", "ip", "ifname"}

ASSUME TlvsAssumption ==
  /\ 0 \notin Addresses /\ DevTypes \subseteq Defined \cup {"none"}
  /\ CommandTlvs \subseteq Tlvs
  /\ MaxHost \in Nat /\ MaxCommands \in Nat /\ MaxRestarts \in Nat

VARIABLES
  type,     \* the agent: nearest bridge, or another one
  room,     \* the shared-memory table has a place for this port
  running,  \* the daemon runs
  link,     \* the link is up
  host,     \* the interface's addresses, 0 for none (of mac: an invalid one)
  conf,     \* the configuration file; conf.denied is a history: the TLVs whose
            \* enableTx the operator set to "no" since choosing a device type
  md,       \* mand_data of the port
  bd,       \* the optional modules that keep data for the port
  shm,      \* the port's identity in shared memory
  frame,    \* the last frame handed to the driver
  said,     \* history: the identity frames carried since the link came up
            \* or the operator chose another
  removed,  \* history: lldpad -s since the port came up
  left      \* what is left of the bounds

vars == <<type, room, running, link, host, conf, md, bd, shm, frame, said, removed, left>>

Id(sub, val) == [sub |-> sub, val |-> val]
NoId == Id("none", 0)
NoIds == [chassis |-> NoId, portid |-> NoId]
NoData == [has |-> FALSE, chassis |-> NoId, portid |-> NoId, ttl |-> FALSE,
           rebuild_chassis |-> FALSE, rebuild_portid |-> FALSE, read_shm |-> FALSE]

is_tlv_txenabled(t) == t \in conf.tx
get_med_devtype == conf.devtype

-----------------------------------------------------------------------------
(***************************************************************************)
(* Mandatory TLVs.  A build works on the pair of the module's data and the *)
(* shared memory.                                                          *)
(***************************************************************************)
IfName == Id("ifname", 0)

\* get_ipaddr, then get_ipaddr6
mand_bld_ip_chassis == IF host.ipv4 # 0 THEN Id("ipv4", host.ipv4)
                       ELSE IF host.ipv6 # 0 THEN Id("ipv6", host.ipv6)
                       ELSE NoId

\* An invalid MAC leaves the subtype 0, which is reserved.
mand_bld_mac_chassis == IF host.mac # 0 THEN Id("mac", host.mac) ELSE Id("reserved", 0)

\* The -1 of mand_bld_ip_chassis becomes a large size_t, so the fall-through
\* to the next alternative is never taken: the build fails in malloc.
ChassisFrom ==
  CASE is_tlv_txenabled("LLDP-MED") /\ get_med_devtype \in Endpoints -> mand_bld_ip_chassis
    [] is_tlv_txenabled("LLDP-MED") /\ get_med_devtype \notin Endpoints -> IfName
    [] ~is_tlv_txenabled("LLDP-MED") /\ conf.chassis = "ifname" -> IfName
    [] ~is_tlv_txenabled("LLDP-MED") /\ conf.chassis = "ip" -> mand_bld_ip_chassis
    [] OTHER -> mand_bld_mac_chassis

\* Here the fall-through works: MAC, then an IP address, then the name.
PortidFrom ==
  LET forced == get_med_devtype \in Defined /\ is_tlv_txenabled("LLDP-MED")
      subtype == IF forced THEN "mac" ELSE conf.portid
  IN  CASE subtype = "mac" /\ host.mac # 0 -> Id("mac", host.mac)
        [] subtype # "ifname" /\ ~(subtype = "mac" /\ host.mac # 0)
             /\ mand_bld_ip_chassis # NoId -> mand_bld_ip_chassis
        [] OTHER -> IfName

lldpad_shm_get_msap(s, k) == IF room THEN s.shm[k] ELSE NoId
lldpad_shm_set_msap(s, k, id) == IF room THEN [s.shm EXCEPT ![k] = id] ELSE s.shm

\* a daemon that ignores what an earlier instance announced
BuiltAfresh(s, k, own) == own

\* Where mand_bld_chassis_tlv and mand_bld_portid_tlv agree: the value in
\* shared memory first, as long as nothing was built since the start.
Built(s, k, own) ==
  LET stored == lldpad_shm_get_msap(s, k)
      use == ~s.md.read_shm /\ type = "nearest_bridge" /\ stored # NoId
  IN  IF use THEN stored ELSE own

StoredBack(s, k, id) == IF id # NoId /\ type = "nearest_bridge"
                        THEN lldpad_shm_set_msap(s, k, id) ELSE s.shm

mand_bld_chassis_tlv(s) ==
  LET id == Built(s, "chassis", ChassisFrom)
  IN  IF ~s.md.rebuild_chassis /\ s.md.chassis # NoId THEN s
      ELSE [md |-> [s.md EXCEPT !.chassis = id, !.rebuild_chassis = (id = NoId)],
            shm |-> StoredBack(s, "chassis", id)]

mand_bld_portid_tlv(s) ==
  LET id == Built(s, "portid", PortidFrom)
  IN  IF ~s.md.rebuild_portid /\ s.md.portid # NoId THEN s
      ELSE [md |-> [s.md EXCEPT !.portid = id, !.rebuild_portid = FALSE],
            shm |-> StoredBack(s, "portid", id)]

mand_bld_ttl_tlv(s) == [s EXCEPT !.md.ttl = TRUE]

\* Chassis first; a failure ends the build and leaves the others as they were.
mand_bld_tlv(s) ==
  LET c == mand_bld_chassis_tlv(s)
  IN  IF c.md.chassis = NoId THEN c ELSE mand_bld_ttl_tlv(mand_bld_portid_tlv(c))

Failed(s) == s.md.chassis = NoId

mand_ifup ==
  LET found == IF md.has THEN md ELSE [NoData EXCEPT !.has = TRUE]
      s == mand_bld_tlv([md |-> found, shm |-> shm])
  IN  IF Failed(s) THEN [s EXCEPT !.md = NoData] ELSE [s EXCEPT !.md.read_shm = TRUE]

mand_ifdown ==
  IF md.has THEN [md EXCEPT !.rebuild_chassis = TRUE, !.rebuild_portid = TRUE,
                            !.chassis = NoId, !.portid = NoId, !.ttl = FALSE]
  ELSE md

\* The error of the build is ignored: what there is is packed.
mand_gettlv == IF md.has THEN mand_bld_tlv([md |-> md, shm |-> shm])
               ELSE [md |-> md, shm |-> shm]

-----------------------------------------------------------------------------
(***************************************************************************)
(* The optional modules.  A builder gives the set of TLVs it made, and     *)
(* says whether it failed; a module whose builder failed adds nothing.     *)
(***************************************************************************)
\* basman_get_manaddr_sub: the configuration's address, else the interface's
ManAddr(f) == IF conf.saved[f] # 0 THEN conf.saved[f] ELSE host[f]

\* ipv4, else ipv6; the MAC that is tried last does not undo the failure
ManFamily == IF ManAddr("ipv4") # 0 THEN "ipv4" ELSE "ipv6"

basman_bld_manaddr_fails == is_tlv_txenabled("mngAddr") /\ ManAddr(ManFamily) = 0

\* the address that was built is written to the configuration
ManSaved == IF is_tlv_txenabled("mngAddr") /\ ~basman_bld_manaddr_fails
            THEN [conf.saved EXCEPT ![ManFamily] = ManAddr(ManFamily)] ELSE conf.saved

\* port description, system name, description and capabilities: when enabled
basman_bld == {t \in BasicTlvs : is_tlv_txenabled(t)}

basman_gettlv == IF basman_bld_manaddr_fails THEN {} ELSE basman_bld

\* Power via MDI comes from the file only, and not along with LLDP-MED.
ieee8023_bld_powvmdi_tlv == "powerMdi" \in conf.info /\ ~is_tlv_txenabled("LLDP-MED")

\* MAC/PHY, link aggregation, frame size: when enabled.  No builder fails.
ieee8023_bld == {t \in Ieee8023Tlvs : is_tlv_txenabled(t)}

ieee8023_gettlv == {t \in ieee8023_bld : t = "powerMdi" => ieee8023_bld_powvmdi_tlv}

med_bld_medcaps_tlv == is_tlv_txenabled("medCap")
med_bld_locid_tlv == is_tlv_txenabled("medLoc") /\ "medLoc" \in conf.info
med_bld_inventory_tlv == is_tlv_txenabled(Inventory)
\* med_is_pd and med_is_pse never recognise a device that should send it
med_bld_powvmdi_tlv == FALSE

med_get_netpoli == is_tlv_txenabled("medPolicy") /\ "medPolicy" \in conf.info

\* Mandatory for classes II and III; for network connectivity an enabled
\* policy must be configured.
med_bld_netpoli_fails ==
  \/ get_med_devtype \in {"class2", "class3"} /\ ~med_get_netpoli
  \/ get_med_devtype = "netcon" /\ is_tlv_txenabled("medPolicy") /\ ~med_get_netpoli

\* a builder that leaves the MAC/PHY TLV to the 802.3 module
ForgetsMacPhy ==
  /\ is_tlv_txenabled("LLDP-MED")
  /\ get_med_devtype \notin Defined \/ med_bld_netpoli_fails

med_bld_fails ==
  /\ is_tlv_txenabled("LLDP-MED")
  /\ \/ get_med_devtype \notin Defined
     \/ ~is_tlv_txenabled("macPhyCfg")
     \/ med_bld_netpoli_fails

med_gettlv ==
  IF ~is_tlv_txenabled("LLDP-MED") \/ med_bld_fails THEN {}
  ELSE {t \in MedTlvs : \/ t = "medCap" /\ med_bld_medcaps_tlv
                        \/ t = "medPolicy" /\ med_get_netpoli
                        \/ t = "medLoc" /\ med_bld_locid_tlv
                        \/ t = "medPower" /\ med_bld_powvmdi_tlv
                        \/ t = Inventory /\ med_bld_inventory_tlv}

-----------------------------------------------------------------------------
(***************************************************************************)
(* Frames.                                                                 *)
(***************************************************************************)
NoFrame == [sent |-> FALSE, chassis |-> FALSE, tlvs |-> {}, devtype |-> "none", denied |-> {}]

\* The identity a frame announces; one without a chassis identifier is
\* discarded by its receivers.
Said(m) == IF m.chassis # NoId THEN [chassis |-> m.chassis, portid |-> m.portid] ELSE said

\* The modules are asked in the order of the table in lldpad.c.
mibConstrInfoLLDPDU ==
  /\ running /\ link
  /\ \E s \in {mand_gettlv}, sets \in {[basman |-> basman_gettlv, med |-> med_gettlv,
                                        ieee8023 |-> ieee8023_gettlv]} :
       /\ md' = s.md /\ shm' = s.shm
       /\ said' = Said(s.md)
       /\ frame' = [sent |-> TRUE, chassis |-> s.md.chassis # NoId,
                    tlvs |-> UNION {sets[m] : m \in bd}, devtype |-> get_med_devtype,
                    denied |-> conf.denied]
  /\ conf' = IF "basman" \in bd THEN [conf EXCEPT !.saved = ManSaved] ELSE conf
  /\ UNCHANGED <<type, room, running, link, host, bd, removed, left>>

\* The shutdown frame has the mandatory TLVs only, its time to live zeroed.
ShutdownFrame ==
  /\ shm' = mand_gettlv.shm
  /\ frame' = [NoFrame EXCEPT !.sent = TRUE, !.chassis = mand_gettlv.md.chassis # NoId]

\* transmission is switched off for a while
mibConstrShutdownLLDPDU ==
  /\ running /\ link
  /\ ShutdownFrame
  /\ md' = mand_gettlv.md
  /\ said' = Said(mand_gettlv.md)
  /\ UNCHANGED <<type, room, running, link, host, conf, bd, removed, left>>

-----------------------------------------------------------------------------
(***************************************************************************)
(* Links, addresses and the daemon.                                        *)
(***************************************************************************)
Spend(bound) == left[bound] > 0 /\ left' = [left EXCEPT ![bound] = @ - 1]

\* A module keeps the port's data only if the first build succeeded.
basman_ifup == IF basman_bld_manaddr_fails THEN {} ELSE {"basman"}
ieee8023_ifup == {"ieee8023"}
med_ifup == IF med_bld_fails THEN {} ELSE {"med"}

ifup == /\ md' = mand_ifup.md /\ shm' = mand_ifup.shm
        /\ bd' = bd \cup basman_ifup \cup ieee8023_ifup \cup med_ifup
        /\ conf' = IF "basman" \in bd THEN conf ELSE [conf EXCEPT !.saved = ManSaved]
        /\ removed' = (removed /\ md.chassis # NoId)

LinkUp ==
  /\ ~link /\ Spend("host")
  /\ link' = TRUE
  /\ IF running THEN ifup ELSE UNCHANGED <<md, shm, bd, conf, removed>>
  /\ UNCHANGED <<type, room, running, host, frame, said>>

\* Any RTM_NEWLINK of an interface that is up calls oper_add_device again.
oper_add_device ==
  /\ running /\ link /\ Spend("host")
  /\ ifup
  /\ UNCHANGED <<type, room, running, link, host, frame, said>>

LinkDown ==
  /\ link /\ Spend("host")
  /\ link' = FALSE
  /\ md' = mand_ifdown /\ bd' = {}
  /\ said' = NoIds
  /\ UNCHANGED <<type, room, running, host, conf, shm, frame, removed>>

AddressChange ==
  /\ Spend("host")
  /\ \E f \in DOMAIN host, a \in Addresses \cup {0} :
       a # host[f] /\ host' = [host EXCEPT ![f] = a]
  /\ UNCHANGED <<type, room, running, link, conf, md, bd, shm, frame, said, removed>>

\* lldpad -s; an instance that runs on does not store its identity again
mark_lldpad_shm_for_removal ==
  /\ shm # NoIds /\ Spend("host")
  /\ shm' = NoIds /\ removed' = TRUE
  /\ UNCHANGED <<type, room, running, link, host, conf, md, bd, frame, said>>

Start ==
  /\ ~running
  /\ running' = TRUE
  /\ IF link THEN ifup ELSE UNCHANGED <<md, shm, bd, conf, removed>>
  /\ said' = IF removed THEN NoIds ELSE said
  /\ UNCHANGED <<type, room, link, host, frame, left>>

\* Only the nearest bridge's identity outlives the daemon.
Outlives == type = "nearest_bridge" /\ room

\* SIGTERM: clean_lldp_agents sends the shutdown frame, the modules are
\* unregistered.  SIGKILL, and a port in DCB mode: no frame.
Stop ==
  /\ running /\ Spend("restarts")
  /\ running' = FALSE
  /\ md' = NoData /\ bd' = {}
  /\ \E sends \in {link, FALSE} :
       /\ IF sends THEN ShutdownFrame ELSE UNCHANGED <<shm, frame>>
       /\ said' = CASE ~Outlives -> NoIds
                    [] Outlives /\ sends -> Said(mand_gettlv.md)
                    [] OTHER -> said
  /\ UNCHANGED <<type, room, link, host, conf, removed>>

-----------------------------------------------------------------------------
(***************************************************************************)
(* Commands.  Each writes the configuration and calls                      *)
(* somethingChangedLocal, after which a frame is due; none builds a TLV.   *)
(***************************************************************************)
Accepts(newConf) ==
  /\ running /\ Spend("commands")
  /\ conf' = newConf
  /\ UNCHANGED <<type, room, running, link, host, bd, shm, frame, removed>>

\* of the chassis identifier or of the port identifier
set_mand_subtype ==
  /\ \E k \in DOMAIN NoIds, v \in Subtypes : Accepts([conf EXCEPT ![k] = v])
  /\ md' = IF md.has THEN [md EXCEPT !.read_shm = TRUE, !.rebuild_chassis = TRUE,
                                     !.rebuild_portid = TRUE] ELSE md
  /\ said' = NoIds

SetEnableTx(tlvs) ==
  /\ \E t \in tlvs \cap CommandTlvs :
       \/ Accepts([conf EXCEPT !.tx = @ \cup {t}, !.denied = @ \ {t}])
       \/ Accepts([conf EXCEPT !.tx = @ \ {t}, !.denied = @ \cup {t}])
  /\ UNCHANGED <<md, said>>

basman_set_arg_tlvtxenable == SetEnableTx(BasicTlvs)
ieee8023_set_arg_tlvtxenable == SetEnableTx(Ieee8023Tlvs)
med_set_arg_tlvtxenable == SetEnableTx(MedTlvs)

\* A device type switches its TLVs on; none switches the MED ones off.
DevTypeTx(d) ==
  CASE d = "none" -> conf.tx \ MedTlvs
    [] d \in {"class2", "class3"} ->
         conf.tx \cup {"LLDP-MED", "medCap", "medPolicy", Inventory, "sysCap", "macPhyCfg"}
    [] OTHER -> conf.tx \cup {"LLDP-MED", "medCap", Inventory, "sysCap", "macPhyCfg"}

set_arg_med_devtype ==
  /\ \E d \in DevTypes :
       Accepts([conf EXCEPT !.devtype = d, !.tx = DevTypeTx(d), !.denied = {}])
  /\ UNCHANGED <<md, said>>

set_arg_ipv4_ipv6 ==
  /\ \E f \in Families, a \in Addresses : Accepts([conf EXCEPT !.saved[f] = a])
  /\ UNCHANGED <<md, said>>

-----------------------------------------------------------------------------
\* A daemon before its first start, on an interface that is up.  The default
\* subtypes are MAC addresses; TLVs are off by default, or an earlier
\* configuration switched them on.
Init ==
  /\ type \in {"nearest_bridge", "other"} /\ room \in {TRUE, type # "nearest_bridge"}
  /\ running = FALSE /\ link = TRUE
  /\ \E v4 \in Addresses \cup {0}, mac \in Addresses :
       host = [mac |-> mac, ipv4 |-> v4, ipv6 |-> 0]
  /\ \E tx \in {{}, BasicTlvs \cup Ieee8023Tlvs}, info \in {{}, FileOnly} :
       conf = [chassis |-> "mac", portid |-> "mac", devtype |-> "none", tx |-> tx,
               denied |-> {}, info |-> info, saved |-> [f \in Families |-> 0]]
  /\ md = NoData /\ bd = {} /\ shm = NoIds
  /\ frame = NoFrame /\ said = NoIds /\ removed = FALSE
  /\ left = [host |-> MaxHost, commands |-> MaxCommands, restarts |-> MaxRestarts]

Next ==
  \/ mibConstrInfoLLDPDU \/ mibConstrShutdownLLDPDU
  \/ LinkUp \/ oper_add_device \/ LinkDown \/ AddressChange \/ mark_lldpad_shm_for_removal
  \/ Start \/ Stop
  \/ set_mand_subtype \/ set_arg_med_devtype \/ set_arg_ipv4_ipv6
  \/ basman_set_arg_tlvtxenable \/ ieee8023_set_arg_tlvtxenable \/ med_set_arg_tlvtxenable

Spec == Init /\ [][Next]_vars

-----------------------------------------------------------------------------
Ids == {NoId, IfName, Id("reserved", 0)}
         \cup {Id(sub, a) : sub \in Families \cup {"mac"}, a \in Addresses}

\* Type correctness.  Beyond the ranges: a module keeps data for the port only
\* while the daemon runs and the link is up, and a built port identifier comes
\* with a built time to live, as the build that stops early needs.
TypeOK ==
  /\ type \in {"nearest_bridge", "other"} /\ room \in BOOLEAN
  /\ running \in BOOLEAN /\ link \in BOOLEAN
  /\ host \in [Families \cup {"mac"} -> Addresses \cup {0}]
  /\ conf.chassis \in Subtypes /\ conf.portid \in Subtypes
  /\ conf.devtype \in Defined \cup {"none"} /\ conf.tx \subseteq Tlvs
  /\ conf.saved \in [Families -> Addresses \cup {0}]
  /\ {md.chassis, md.portid, shm.chassis, shm.portid} \subseteq Ids
  /\ md.portid # NoId => md.ttl
  /\ bd \subseteq {"basman", "ieee8023", "med"}
  /\ bd # {} => running /\ link
  /\ ~running => md = NoData

\* The comment of mand_bld_chassis_tlv: the identifiers remain constant for all
\* LLDPDUs while the connection remains operational.  A neighbour identifies
\* the agent by them, so a change leaves a ghost of the old identity until its
\* time to live ends, and a shutdown frame that names another identity
\* withdraws nothing.  Addresses come and go, LLDP-MED is switched on and off,
\* frames and shutdown frames alternate, the daemon is killed and restarted:
\* as long as the link stays up and no other subtype is chosen, the identifiers
\* frames carry are the same.  (Over a restart: of the nearest bridge's agent.)
SameIdentity ==
  [][said # NoIds /\ said' # NoIds => said' = said]_vars

\* A frame that has any LLDP-MED TLV is complete for its device type, but for
\* a Capabilities TLV the operator has switched off: three modules decide by
\* themselves what they add, and data for the port may be missing in any of
\* them, but the 802.3 MAC/PHY TLV is in the frame, and the network policy if
\* the type demands it.  "MED Cap is always mandatory for MED" (lldp_med.c:710)
\* too, but med_bld_medcaps_tlv reports no failure when its enableTx is "no"
\* (163-170), so that TLV is in the frame only while the operator has not said
\* so since choosing the device type.
MedComplete ==
  frame.tlvs \cap MedTlvs # {} =>
    /\ "macPhyCfg" \in frame.tlvs
    /\ "medCap" \in frame.tlvs \cup frame.denied
    /\ frame.devtype \in Defined
    /\ frame.devtype \in {"class2", "class3"} => "medPolicy" \in frame.tlvs

=============================================================================
