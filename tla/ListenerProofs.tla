--------------------------- MODULE ListenerProofs ---------------------------
(***************************************************************************)
(* Proofs about Listener, for any network, any number of receptions and    *)
(* any registry to begin with.  What upsert does to the registry is taken  *)
(* from StoreProofs.                                                       *)
(***************************************************************************)
EXTENDS Listener, StoreProofs

\* listen_mdns, and no other thread, announces an address, the one in its hand.
HandInv == \A t \in DOMAIN pc : pc[t] = "announce" => t = "listen_mdns" /\ hand \in Ips

TypeInv == TypeOK /\ HandInv

\* What the loop has captured is known.  It stays known because no entry and no
\* service event comes without a mac, and upsert neither re-keys nor replaces a
\* record that has one.
KnownInv == AllSound(store) /\ AllMacs(store) /\ CapturedIsKnown

\* The registries a scan or a listener left that met no host without a mac.
HostsOnly == \A recs \in InitialStores : AllSound(recs) /\ AllMacs(recs)

-----------------------------------------------------------------------------
(***************************************************************************)
(* Operators.                                                              *)
(***************************************************************************)

LEMMA SightingType ==
    ASSUME NEW ip \in Ips, NEW mac \in Macs, NEW services \in SUBSET Services
    PROVE  /\ sighting(ip, mac, services) \in Device
           /\ sighting(ip, mac, services).ip = ip
           /\ sighting(ip, mac, services).mac # NONE
<1>1. oui(mac) \in [Facts -> Option(Values)] /\ mac # NONE
  BY ListenerAssumption, StoreAssumption
<1>2. NONE \in Option(Categories) /\ mac \in Option(Macs)
  BY DEF Option
<1> QED
  BY <1>1, <1>2 DEF sighting, Device

\* What sniff_raw sends are pairs of an address and a mac.
LEMMA PairsType ==
    ASSUME NEW f \in Frame, NEW already \in SUBSET Entry
    PROVE  pairs(f, already) \in Seq(Entry)
<1>1. \A e \in Entry : \A s : unseen(f, e, s) \in Seq(Entry)
  BY DEF unseen
<1>2. CASE f.type = "arp"
  <2>1. f.sender \in Entry /\ f.target \in Entry
    BY <1>2 DEF Frame
  <2> DEFINE first == unseen(f, f.sender, already)
             second == unseen(f, f.target, already \cup {first[i] : i \in DOMAIN first})
  <2>2. first \in Seq(Entry) /\ second \in Seq(Entry)
    BY <1>1, <2>1
  <2>3. pairs(f, already) = first \o second
    BY <1>2 DEF pairs
  <2> QED
    BY <2>2, <2>3
<1>3. CASE f.type = "ipv4"
  <2>1. [ip |-> f.ip, mac |-> f.src] \in Entry
    BY <1>3 DEF Frame, Entry
  <2> QED
    BY <1>1, <1>3, <2>1 DEF pairs
<1>4. CASE f.type = "other"
  <2>1. [ip |-> Unspecified, mac |-> f.src] \in Entry
    BY <1>4, ListenerAssumption DEF Frame, Entry
  <2> QED
    BY <1>1, <1>4, <2>1 DEF pairs
<1> QED
  BY <1>2, <1>3, <1>4 DEF Frame

-----------------------------------------------------------------------------
(***************************************************************************)
(* The steps.                                                              *)
(***************************************************************************)

LEMMA ListenerInit == Init => TypeInv /\ DiskIsCurrent
<1> SUFFICES ASSUME Init PROVE TypeInv /\ DiskIsCurrent
  OBVIOUS
<1>1. IsRegistry(store) /\ disk = store
  BY ListenerAssumption DEF Init
<1>2. hand \in Option(Ips) /\ received \in 0..MaxReceived
  BY ListenerAssumption DEF Init, Option
<1>3. rx \in Seq(Entry) /\ service_rx \in Seq(Packet)
  BY DEF Init
<1>4. /\ pc \in [threads(cap) -> {"start", "check", "receive", "announce", "done"}]
      /\ seen \in [threads(cap) -> SUBSET Entry]
      /\ \A t \in DOMAIN pc : pc[t] = "start"
  BY DEF Init
<1>5. DOMAIN seen_local \subseteq Ips /\ seen_local \in [DOMAIN seen_local -> Macs]
  BY DEF Init
<1>6. /\ cap \in Capabilities /\ shutdown \in BOOLEAN /\ save_failed \in BOOLEAN
      /\ loop \in {"select", "waiting", "joining", "stopped"}
  BY DEF Init
<1> QED
  BY <1>1, <1>2, <1>3, <1>4, <1>5, <1>6 DEF TypeInv, TypeOK, HandInv, DiskIsCurrent

\* A producer's step leaves the registry alone.
LEMMA ThreadType ==
    ASSUME TypeInv, NEW t \in DOMAIN pc, ThreadStep(t)
    PROVE  TypeInv' /\ UNCHANGED registry_vars
<1>1. PICK l \in {"check", "receive", "done"} :
        /\ pc' = [pc EXCEPT ![t] = l]
        /\ UNCHANGED <<cap, seen, hand, received, channels, shutdown, loop, registry_vars>>
  BY DEF ThreadStep, Open, CheckShutdown, Quiet, goto
<1> QED
  BY <1>1 DEF TypeInv, TypeOK, HandInv, channels, registry_vars

LEMMA SniffType ==
    ASSUME TypeInv, NEW f \in Frames, Sniff(f)
    PROVE  TypeInv' /\ UNCHANGED registry_vars
<1> DEFINE sent == IF f.src \in {Nil, Broadcast} THEN <<>> ELSE pairs(f, seen["sniff_raw"])
<1>1. /\ "sniff_raw" \in DOMAIN pc /\ received < MaxReceived /\ received' = received + 1
      /\ pc' = [pc EXCEPT !["sniff_raw"] = "check"]
      /\ rx' = rx \o sent
      /\ seen' = [seen EXCEPT !["sniff_raw"] = @ \cup {sent[i] : i \in DOMAIN sent}]
      /\ UNCHANGED <<cap, hand, service_rx, shutdown, loop, registry_vars>>
  BY DEF Sniff, goto
<1>2. seen["sniff_raw"] \in SUBSET Entry
  BY <1>1 DEF TypeInv, TypeOK
<1>3. sent \in Seq(Entry)
  BY <1>2, PairsType, ListenerAssumption
<1> HIDE DEF sent
<1>4. rx' \in Seq(Entry) /\ {sent[i] : i \in DOMAIN sent} \subseteq Entry
  BY <1>1, <1>3 DEF TypeInv, TypeOK
<1>5. received' \in 0..MaxReceived
  BY <1>1, ListenerAssumption DEF TypeInv, TypeOK
<1>6. /\ pc' \in [threads(cap) -> {"start", "check", "receive", "announce", "done"}]
      /\ seen' \in [threads(cap) -> SUBSET Entry]
      /\ HandInv'
  BY <1>1, <1>2, <1>4 DEF TypeInv, TypeOK, HandInv
<1> QED
  BY <1>1, <1>4, <1>5, <1>6 DEF TypeInv, TypeOK, registry_vars

LEMMA PollType ==
    ASSUME TypeInv, NEW e \in ArpTable, Poll(e)
    PROVE  TypeInv' /\ UNCHANGED registry_vars
<1>1. e \in Entry
  BY ListenerAssumption
<1>2. rx' \in Seq(Entry) /\ received' \in 0..MaxReceived
  BY <1>1, ListenerAssumption DEF Poll, TypeInv, TypeOK
<1>3. seen' \in [threads(cap) -> SUBSET Entry]
  BY <1>1 DEF Poll, TypeInv, TypeOK
<1> QED
  BY <1>2, <1>3 DEF Poll, TypeInv, TypeOK, HandInv, registry_vars

LEMMA MdnsType ==
    ASSUME TypeInv, (\E p \in Packets : Receive(p)) \/ Announce
    PROVE  TypeInv' /\ UNCHANGED registry_vars
<1>1. ASSUME NEW p \in Packets, Receive(p) PROVE TypeInv' /\ UNCHANGED registry_vars
  <2>1. p \in Packet /\ p.ip \in Ips
    BY ListenerAssumption DEF Packet
  <2>2. service_rx' \in Seq(Packet) /\ received' \in 0..MaxReceived
    BY <1>1, <2>1, ListenerAssumption DEF Receive, TypeInv, TypeOK
  <2>3. /\ pc' \in [threads(cap) -> {"start", "check", "receive", "announce", "done"}]
        /\ hand' \in Ips /\ hand' \in Option(Ips) /\ HandInv'
    BY <1>1, <2>1 DEF Receive, goto, TypeInv, TypeOK, HandInv, Option
  <2> QED
    BY <1>1, <2>2, <2>3 DEF Receive, TypeInv, TypeOK, registry_vars
<1>2. CASE Announce
  <2>1. hand \in Ips
    BY <1>2 DEF Announce, TypeInv, HandInv
  <2>2. [ip |-> hand, mac |-> Broadcast] \in Entry
    BY <2>1, ListenerAssumption DEF Entry
  <2>3. rx' \in Seq(Entry)
    BY <1>2, <2>2 DEF Announce, TypeInv, TypeOK
  <2>4. /\ pc' \in [threads(cap) -> {"start", "check", "receive", "announce", "done"}]
        /\ \A t \in DOMAIN pc' : pc'[t] # "announce"
        /\ hand' \in Option(Ips)
    BY <1>2 DEF Announce, goto, TypeInv, TypeOK, HandInv, Option
  <2> QED
    BY <1>2, <2>3, <2>4 DEF Announce, TypeInv, TypeOK, HandInv, registry_vars
<1> QED
  BY <1>1, <1>2

\* Taking a message from a channel leaves a channel.
LEMMA TakeType ==
    ASSUME NEW S, NEW s \in Seq(S), s # <<>>
    PROVE  Head(s) \in S /\ Tail(s) \in Seq(S)
OBVIOUS

\* The registry after an upsert and a save, whether the save succeeds or not.
LEMMA RecordedType ==
    ASSUME TypeOK, NEW d \in Device, record_and_save(d)
    PROVE  /\ IsRegistry(store') /\ IsRegistry(disk')
           /\ save_failed' \in BOOLEAN /\ DiskIsCurrent'
<1>0. PICK now \in Times : \E res \in upsert(store, d, now) : store' = res.records /\ Save(store')
  BY DEF record_and_save
<1>1. PICK res \in upsert(store, d, now) : store' = res.records /\ Save(store')
  BY <1>0
<1>2. IsRegistry(store')
  BY <1>1, UpsertType DEF TypeOK
<1>3. IsRegistry(EmptyRegistry)
  BY DEF IsRegistry, EmptyRegistry
<1> QED
  BY <1>1, <1>2, <1>3 DEF Save, TypeOK, DiskIsCurrent

\* An entry that is recorded, and the services of a host that is known.
EntrySeen(e) ==
    /\ seen_local' = [ip \in DOMAIN seen_local \cup {e.ip} |->
                         IF ip = e.ip THEN e.mac ELSE seen_local[ip]]
    /\ record_and_save(sighting(e.ip, e.mac, {}))
ServicesSeen(ev) ==
    /\ ev.ip \in DOMAIN seen_local /\ seen_local' = seen_local
    /\ record_and_save(sighting(ev.ip, seen_local[ev.ip], ev.services))

\* What a step of the loop may do to the registry: nothing, or one of the two.
LEMMA LoopType ==
    ASSUME TypeInv, DiskIsCurrent, LoopStep
    PROVE  /\ TypeInv' /\ DiskIsCurrent'
           /\ \/ UNCHANGED registry_vars
              \/ \E e \in Entry : EntrySeen(e)
              \/ \E ev \in Packet : ServicesSeen(ev)
<1> USE DEF TypeInv
<1>0. ASSUME UNCHANGED registry_vars PROVE DiskIsCurrent'
  BY <1>0 DEF DiskIsCurrent, registry_vars
<1>1. CASE SkipEntry
  <2>1. rx' \in Seq(Entry)
    BY <1>1, TakeType DEF SkipEntry, TypeOK
  <2>2. TypeInv' /\ UNCHANGED registry_vars
    BY <1>1, <2>1 DEF SkipEntry, selecting, producer_vars, registry_vars, TypeOK, HandInv
  <2> QED
    BY <1>0, <2>2
<1>2. CASE DropService
  <2>1. service_rx' \in Seq(Packet)
    BY <1>2, TakeType DEF DropService, TypeOK
  <2>2. TypeInv' /\ UNCHANGED registry_vars
    BY <1>2, <2>1 DEF DropService, selecting, producer_vars, registry_vars, TypeOK, HandInv
  <2> QED
    BY <1>0, <2>2
<1>3. CASE Wait \/ Timeout \/ Join
  <2>1. TypeInv' /\ UNCHANGED registry_vars
    BY <1>3 DEF Wait, Timeout, Join, producer_vars, channels, registry_vars, TypeOK, HandInv
  <2> QED
    BY <1>0, <2>1
<1>4. CASE HandleEntry
  <2> DEFINE e == Head(rx)
  <2>1. e \in Entry /\ rx' \in Seq(Entry)
    BY <1>4, TakeType DEF HandleEntry, TypeOK
  <2>2. EntrySeen(e) /\ loop' = "select" /\ UNCHANGED <<cap, producer_vars, service_rx, shutdown>>
    BY <1>4 DEF HandleEntry, EntrySeen, selecting
  <2> HIDE DEF e
  <2>3. e.ip \in Ips /\ e.mac \in Macs
    BY <2>1 DEF Entry
  <2>4. sighting(e.ip, e.mac, {}) \in Device
    BY <2>3, SightingType
  <2>5. /\ IsRegistry(store') /\ IsRegistry(disk')
        /\ save_failed' \in BOOLEAN /\ DiskIsCurrent'
    BY <2>2, <2>4, RecordedType DEF EntrySeen
  <2>6. DOMAIN seen_local' \subseteq Ips /\ seen_local' \in [DOMAIN seen_local' -> Macs]
    BY <2>2, <2>3 DEF EntrySeen, TypeOK
  <2>7. TypeInv'
    BY <2>1, <2>2, <2>5, <2>6 DEF producer_vars, TypeOK, HandInv
  <2> QED
    BY <2>1, <2>2, <2>5, <2>7
<1>5. CASE HandleService
  <2> DEFINE ev == Head(service_rx)
  <2>1. ev \in Packet /\ service_rx' \in Seq(Packet)
    BY <1>5, TakeType DEF HandleService, TypeOK
  <2>2. ServicesSeen(ev) /\ loop' = "select" /\ UNCHANGED <<cap, producer_vars, rx, shutdown>>
    BY <1>5 DEF HandleService, ServicesSeen, selecting
  <2> HIDE DEF ev
  <2>3. ev.ip \in Ips /\ ev.services \in SUBSET Services /\ seen_local[ev.ip] \in Macs
    BY <2>1, <2>2 DEF Packet, ServicesSeen, TypeOK
  <2>4. sighting(ev.ip, seen_local[ev.ip], ev.services) \in Device
    BY <2>3, SightingType
  <2>5. /\ IsRegistry(store') /\ IsRegistry(disk')
        /\ save_failed' \in BOOLEAN /\ DiskIsCurrent'
    BY <2>2, <2>4, RecordedType DEF ServicesSeen
  <2>6. TypeInv'
    BY <2>1, <2>2, <2>5 DEF ServicesSeen, producer_vars, TypeOK, HandInv
  <2> QED
    BY <2>1, <2>2, <2>5, <2>6
<1> QED
  BY <1>1, <1>2, <1>3, <1>4, <1>5 DEF LoopStep

\* What any step may do to the registry.
LEMMA ListenerStep ==
    ASSUME TypeInv, DiskIsCurrent, [Next]_vars
    PROVE  /\ TypeInv' /\ DiskIsCurrent'
           /\ \/ UNCHANGED registry_vars
              \/ \E e \in Entry : EntrySeen(e)
              \/ \E ev \in Packet : ServicesSeen(ev)
<1>1. CASE LoopStep
  BY <1>1, LoopType
<1>2. CASE ~ LoopStep
  <2>1. TypeInv' /\ UNCHANGED registry_vars
    <3>1. CASE \E t \in DOMAIN pc : ThreadStep(t)
      BY <3>1, ThreadType
    <3>2. CASE Reception \/ Announce
      BY <3>2, SniffType, PollType, MdnsType DEF Reception
    <3>3. CASE CtrlC \/ UNCHANGED vars
      BY <3>3 DEF CtrlC, vars, producer_vars, channels, registry_vars, TypeInv, TypeOK, HandInv
    <3> QED
      BY <1>2, <3>1, <3>2, <3>3 DEF Next
  <2> QED
    BY <2>1 DEF DiskIsCurrent, registry_vars
<1> QED
  BY <1>1, <1>2

LEMMA ListenerInvariant == Spec => [](TypeInv /\ DiskIsCurrent)
<1>1. TypeInv /\ DiskIsCurrent /\ [Next]_vars => (TypeInv /\ DiskIsCurrent)'
  BY ListenerStep
<1> QED
  BY <1>1, ListenerInit, PTL DEF Spec

\* The threads, the channels and the registry of listen keep their types: no
\* entry without a mac or an address reaches the select loop.
THEOREM ListenerTypeCorrect == Spec => []TypeOK
<1>1. TypeInv => TypeOK
  BY DEF TypeInv
<1> QED
  BY <1>1, ListenerInvariant, PTL

\* Whatever the select loop has recorded is in the file, unless the last save
\* returned an error.
THEOREM ListenerSaves == Spec => []DiskIsCurrent
BY ListenerInvariant, PTL

\* An address that was printed as NEW is in the history of some record for the
\* rest of the session, if every record the listener found in the file was of a
\* host with a mac.
THEOREM ListenerRemembers ==
    ASSUME HostsOnly
    PROVE  Spec => []CapturedIsKnown
<1>1. Init => KnownInv
  BY DEF Init, HostsOnly, KnownInv, CapturedIsKnown
<1>2. TypeInv /\ DiskIsCurrent /\ KnownInv /\ [Next]_vars => KnownInv'
  <2> SUFFICES ASSUME TypeInv, DiskIsCurrent, KnownInv, [Next]_vars PROVE KnownInv'
    OBVIOUS
  <2> USE DEF KnownInv
  <2>0. IsRegistry(store) /\ DOMAIN seen_local \subseteq Ips
        /\ \A ip \in DOMAIN seen_local : seen_local[ip] \in Macs
    BY DEF TypeInv, TypeOK
  <2>1. CASE UNCHANGED registry_vars
    BY <2>1 DEF registry_vars, CapturedIsKnown
  <2>2. ASSUME NEW d \in Device, d.mac # NONE, record_and_save(d),
               DOMAIN seen_local' \subseteq DOMAIN seen_local \cup {d.ip}
        PROVE  KnownInv'
    <3>0. PICK now \in Times : \E res \in upsert(store, d, now) : store' = res.records
      BY <2>2 DEF record_and_save
    <3>1. PICK res \in upsert(store, d, now) : store' = res.records
      BY <3>0
    <3>2. /\ AllSound(store') /\ AllMacs(store')
          /\ \E k \in DOMAIN store' : d.ip \in store'[k].ips
          /\ \A k \in DOMAIN store : k \in DOMAIN store' /\ store[k].ips \subseteq store'[k].ips
      BY <2>0, <2>2, <3>1, UpsertRemembers
    <3> QED
      BY <2>2, <3>2 DEF CapturedIsKnown
  <2>3. ASSUME NEW e \in Entry, EntrySeen(e) PROVE KnownInv'
    <3>1. e.ip \in Ips /\ e.mac \in Macs
      BY DEF Entry
    <3>2. /\ sighting(e.ip, e.mac, {}) \in Device
          /\ sighting(e.ip, e.mac, {}).ip = e.ip /\ sighting(e.ip, e.mac, {}).mac # NONE
      BY <3>1, SightingType
    <3>3. DOMAIN seen_local' \subseteq DOMAIN seen_local \cup {e.ip}
      BY <2>3 DEF EntrySeen
    <3> QED
      BY <2>2, <2>3, <3>2, <3>3 DEF EntrySeen
  <2>4. ASSUME NEW ev \in Packet, ServicesSeen(ev) PROVE KnownInv'
    <3>1. ev.ip \in Ips /\ seen_local[ev.ip] \in Macs /\ ev.services \in SUBSET Services
      BY <2>0, <2>4 DEF Packet, ServicesSeen
    <3>2. /\ sighting(ev.ip, seen_local[ev.ip], ev.services) \in Device
          /\ sighting(ev.ip, seen_local[ev.ip], ev.services).mac # NONE
      BY <3>1, SightingType
    <3>3. seen_local' = seen_local
      BY <2>4 DEF ServicesSeen
    <3> QED
      BY <2>2, <2>4, <3>2, <3>3 DEF ServicesSeen
  <2> QED
    BY <2>1, <2>3, <2>4, ListenerStep
<1>3. KnownInv => CapturedIsKnown
  BY DEF KnownInv
<1> QED
  BY <1>1, <1>2, <1>3, ListenerInvariant, PTL DEF Spec
=============================================================================
