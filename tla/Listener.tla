------------------------------ MODULE Listener ------------------------------
(***************************************************************************)
(* `gannet listen` (src/src/discovery/passive.rs): the producer threads of *)
(* the tier that detect_capability selects, the two unbounded channels     *)
(* they send on, the select loop that owns the registry, and shutdown.     *)
(*                                                                         *)
(*   RawSocket  sniff_raw        frames -> entries, subnet-filtered        *)
(*   ArpTable   poll_arp_table   the kernel's ARP table -> entries         *)
(*              listen_mdns      mDNS packets -> service events, entries   *)
(*   MdnsOnly   listen_mdns                                                *)
(*                                                                         *)
(* Abstractions.  A frame is what its headers say (ethertype, source mac,  *)
(* address pairs), an mDNS packet the services parsed from it.  The two    *)
(* sends of one ARP frame are one step: sniff_raw is then the only sender. *)
(* The select loop's 500 ms sleep is armed anew in every turn, so the turn *)
(* waits only if it finds both channels empty; a message may still come at *)
(* the moment the sleep ends.  save is one step here; RegistryFile takes   *)
(* it apart.                                                               *)
(***************************************************************************)
EXTENDS StoreOps, Sequences

CONSTANTS
    Broadcast, Nil,     \* ff:ff:ff:ff:ff:ff and 00:00:00:00:00:00
    Unspecified,        \* 0.0.0.0
    Loopback, Multicast,\* sets of addresses
    LocalSubnet,        \* the addresses ip_in_subnet admits
    oui(_),             \* the facts oui::lookup knows of a mac
    Capabilities,       \* the tiers the host may offer
    Frames, ArpTable, Packets,  \* what the network shows to the three threads
    InitialStores,      \* what Store::load may return
    SaveMayFail,        \* whether store.save may return an error
    MaxReceived         \* bound on frames, table entries and packets received

Entry == [ip : Ips, mac : Macs]
Packet == [ip : Ips, services : SUBSET Services]
Frame ==
    [type : {"arp"}, src : Macs, sender : Entry, target : Entry]
    \cup [type : {"ipv4"}, src : Macs, ip : Ips] \cup [type : {"other"}, src : Macs]

ASSUME ListenerAssumption ==
    /\ {Broadcast, Nil} \subseteq Macs
    /\ {Unspecified} \cup Loopback \cup Multicast \cup LocalSubnet \subseteq Ips
    /\ \A m \in Macs : oui(m) \in [Facts -> Option(Values)]
    /\ Capabilities \subseteq {"RawSocket", "ArpTable", "MdnsOnly"}
    /\ Frames \subseteq Frame /\ ArpTable \subseteq Entry /\ Packets \subseteq Packet
    /\ \A recs \in InitialStores : IsRegistry(recs)
    /\ SaveMayFail \in BOOLEAN /\ MaxReceived \in Nat

VARIABLES
    cap,          \* the tier in use
    pc,           \* where each producer thread is
    seen,         \* the threads' local `seen` sets of entries
    hand,         \* the address listen_mdns has still to announce
    rx,           \* channel of entries
    service_rx,   \* channel of service events
    shutdown,     \* the flag Ctrl-C sets
    loop,         \* "select", "waiting", "joining" or "stopped"
    seen_local,   \* the loop's address -> mac map
    store,        \* Store::records in memory
    disk,         \* what Store::load would now return
    save_failed,  \* whether the last save returned an error
    received      \* receptions so far

producer_vars == <<pc, seen, hand, received>>
channels == <<rx, service_rx>>
registry_vars == <<seen_local, store, disk, save_failed>>
vars == <<cap, producer_vars, channels, shutdown, loop, registry_vars>>

threads(c) ==
    CASE c = "RawSocket" -> {"sniff_raw"}
      [] c = "ArpTable"  -> {"poll_arp_table", "listen_mdns"}
      [] c = "MdnsOnly"  -> {"listen_mdns"}

Init ==
    /\ cap \in Capabilities
    /\ pc = [t \in threads(cap) |-> "start"]
    /\ seen = [t \in threads(cap) |-> {}]
    /\ hand = NONE
    /\ rx = <<>> /\ service_rx = <<>>
    /\ shutdown = FALSE
    /\ loop = "select"
    /\ seen_local = [ip \in {} |-> NONE]
    /\ store \in InitialStores
    /\ disk = store
    /\ save_failed = FALSE
    /\ received = 0

-----------------------------------------------------------------------------
(***************************************************************************)
(* The producer threads.                                                   *)
(***************************************************************************)

goto(t, l) == pc' = [pc EXCEPT ![t] = l]

\* The thread opens its socket or channel; without one it returns at once.
Open(t) ==
    /\ pc[t] = "start"
    /\ \/ goto(t, "check")
       \/ t # "poll_arp_table" /\ goto(t, "done")
    /\ UNCHANGED <<cap, seen, hand, received, channels, shutdown, loop, registry_vars>>

\* Mutant: the loop of the thread does not look at the flag.
CheckShutdown_never(t) ==
    /\ pc[t] = "check"
    /\ goto(t, "receive")
    /\ UNCHANGED <<cap, seen, hand, received, channels, shutdown, loop, registry_vars>>

\* while !shutdown.load(..)
CheckShutdown(t) ==
    /\ pc[t] = "check"
    /\ goto(t, IF shutdown THEN "done" ELSE "receive")
    /\ UNCHANGED <<cap, seen, hand, received, channels, shutdown, loop, registry_vars>>

\* Nothing (more) to receive: read timeout, empty socket, end of the table.
Quiet(t) ==
    /\ pc[t] = "receive"
    /\ goto(t, "check")
    /\ UNCHANGED <<cap, seen, hand, received, channels, shutdown, loop, registry_vars>>

\* The conditions of each branch of sniff_raw's match on a pair it takes from f.
acceptable(f, e) ==
    CASE f.type = "arp"   -> /\ e.ip \notin {Unspecified} \cup Loopback
                             /\ e.mac # Nil
                             /\ e.ip \in LocalSubnet
      [] f.type = "ipv4"  -> /\ e.ip \notin {Unspecified} \cup Loopback \cup Multicast
                             /\ e.ip \in LocalSubnet
      [] f.type = "other" -> TRUE

\* seen.insert(..) lets each pair through once.
unseen(f, e, already) == IF acceptable(f, e) /\ e \notin already THEN <<e>> ELSE <<>>

\* The pairs sniff_raw sends for a frame: sender and target of an ARP packet, or
\* the frame's source with the address it gives, if any.
pairs(f, already) ==
    CASE f.type = "arp" ->
            LET first == unseen(f, f.sender, already)
            IN  first \o unseen(f, f.target, already \cup {first[i] : i \in DOMAIN first})
      [] f.type = "ipv4"  -> unseen(f, [ip |-> f.ip, mac |-> f.src], already)
      [] f.type = "other" -> unseen(f, [ip |-> Unspecified, mac |-> f.src], already)

Sniff(f) ==
    /\ "sniff_raw" \in DOMAIN pc /\ pc["sniff_raw"] = "receive"
    /\ received < MaxReceived
    /\ received' = received + 1
    /\ goto("sniff_raw", "check")
    /\ LET sent == IF f.src \in {Nil, Broadcast} THEN <<>> ELSE pairs(f, seen["sniff_raw"])
       IN  /\ rx' = rx \o sent
           /\ seen' = [seen EXCEPT !["sniff_raw"] = @ \cup {sent[i] : i \in DOMAIN sent}]
    /\ UNCHANGED <<cap, hand, service_rx, shutdown, loop, registry_vars>>

\* One entry of the table poll_arp_table walks over.
Poll(e) ==
    /\ "poll_arp_table" \in DOMAIN pc /\ pc["poll_arp_table"] = "receive"
    /\ received < MaxReceived
    /\ e \notin seen["poll_arp_table"]
    /\ received' = received + 1
    /\ seen' = [seen EXCEPT !["poll_arp_table"] = @ \cup {e}]
    /\ rx' = Append(rx, e)
    /\ UNCHANGED <<cap, pc, hand, service_rx, shutdown, loop, registry_vars>>

\* listen_mdns receives a packet and sends its services, if it has any.
Receive(p) ==
    /\ "listen_mdns" \in DOMAIN pc /\ pc["listen_mdns"] = "receive"
    /\ received < MaxReceived
    /\ received' = received + 1
    /\ service_rx' = IF p.services = {} THEN service_rx ELSE Append(service_rx, p)
    /\ hand' = p.ip
    /\ goto("listen_mdns", "announce")
    /\ UNCHANGED <<cap, seen, rx, shutdown, loop, registry_vars>>

\* Mutant: the address is announced without a mac.
Announce_no_mac ==
    /\ "listen_mdns" \in DOMAIN pc /\ pc["listen_mdns"] = "announce"
    /\ rx' = Append(rx, [ip |-> hand, mac |-> NONE])
    /\ hand' = NONE
    /\ goto("listen_mdns", "check")
    /\ UNCHANGED <<cap, seen, received, service_rx, shutdown, loop, registry_vars>>

\* Then it announces the address, under the broadcast mac.
Announce ==
    /\ "listen_mdns" \in DOMAIN pc /\ pc["listen_mdns"] = "announce"
    /\ rx' = Append(rx, [ip |-> hand, mac |-> Broadcast])
    /\ hand' = NONE
    /\ goto("listen_mdns", "check")
    /\ UNCHANGED <<cap, seen, received, service_rx, shutdown, loop, registry_vars>>

-----------------------------------------------------------------------------
(***************************************************************************)
(* The select loop.                                                        *)
(***************************************************************************)

\* store.save: the file becomes the registry, or the save fails and leaves
\* the old contents or a file that load reads as an empty registry.
Save(recs) ==
    \/ disk' = recs /\ save_failed' = FALSE
    \/ /\ SaveMayFail
       /\ disk' \in {disk, EmptyRegistry}
       /\ save_failed' = TRUE

\* The sighting that an entry, or a service event, of a mac stands for.
sighting(ip, mac, services) ==
    [ip |-> ip, mac |-> mac, facts |-> oui(mac), services |-> services, category |-> NONE]

\* upsert followed by save.
record_and_save(d) ==
    \E now \in Times : \E res \in upsert(store, d, now) :
        store' = res.records /\ Save(store')

\* A message is taken from the channels, at once or while waiting.
selecting == loop \in {"select", "waiting"} /\ loop' = "select"

\* The two `continue`s of the entry branch.
skipped(e) ==
    \/ e.ip = Unspecified /\ e.mac # Broadcast
    \/ e.ip \in DOMAIN seen_local

SkipEntry ==
    /\ selecting /\ rx # <<>>
    /\ skipped(Head(rx))
    /\ rx' = Tail(rx)
    /\ UNCHANGED <<cap, producer_vars, service_rx, shutdown, registry_vars>>

HandleEntry ==
    /\ selecting /\ rx # <<>>
    /\ ~ skipped(Head(rx))
    /\ rx' = Tail(rx)
    /\ LET e == Head(rx)
       IN  /\ seen_local' = [ip \in DOMAIN seen_local \cup {e.ip} |->
                                IF ip = e.ip THEN e.mac ELSE seen_local[ip]]
           /\ record_and_save(sighting(e.ip, e.mac, {}))
    /\ UNCHANGED <<cap, producer_vars, service_rx, shutdown>>

\* Mutant: the services are stored in memory and the save is left out.
HandleService_unsaved ==
    /\ selecting /\ service_rx # <<>>
    /\ Head(service_rx).ip \in DOMAIN seen_local
    /\ service_rx' = Tail(service_rx)
    /\ LET ev == Head(service_rx)
           d == sighting(ev.ip, seen_local[ev.ip], ev.services)
       IN  \E now \in Times : \E res \in upsert(store, d, now) : store' = res.records
    /\ UNCHANGED <<cap, producer_vars, rx, shutdown, seen_local, disk, save_failed>>

\* Mutant: the event's services are not passed on.
HandleService_empty ==
    /\ selecting /\ service_rx # <<>>
    /\ Head(service_rx).ip \in DOMAIN seen_local
    /\ service_rx' = Tail(service_rx)
    /\ LET ev == Head(service_rx)
       IN  record_and_save(sighting(ev.ip, seen_local[ev.ip], {}))
    /\ UNCHANGED <<cap, producer_vars, rx, shutdown, seen_local>>

HandleService ==
    /\ selecting /\ service_rx # <<>>
    /\ Head(service_rx).ip \in DOMAIN seen_local
    /\ service_rx' = Tail(service_rx)
    /\ LET ev == Head(service_rx)
       IN  record_and_save(sighting(ev.ip, seen_local[ev.ip], ev.services))
    /\ UNCHANGED <<cap, producer_vars, rx, shutdown, seen_local>>

\* An event of a host that no entry announced yet is dropped.
DropService ==
    /\ selecting /\ service_rx # <<>>
    /\ Head(service_rx).ip \notin DOMAIN seen_local
    /\ service_rx' = Tail(service_rx)
    /\ UNCHANGED <<cap, producer_vars, rx, shutdown, registry_vars>>

\* Both channels are empty: the loop sleeps.
Wait ==
    /\ loop = "select" /\ rx = <<>> /\ service_rx = <<>>
    /\ loop' = "waiting"
    /\ UNCHANGED <<cap, producer_vars, channels, shutdown, registry_vars>>

\* 500 ms later: leave the loop if the flag is set.
Timeout ==
    /\ loop = "waiting"
    /\ loop' = IF shutdown THEN "joining" ELSE "select"
    /\ UNCHANGED <<cap, producer_vars, channels, shutdown, registry_vars>>

\* thread.join() for every thread.
Join ==
    /\ loop = "joining"
    /\ \A t \in DOMAIN pc : pc[t] = "done"
    /\ loop' = "stopped"
    /\ UNCHANGED <<cap, producer_vars, channels, shutdown, registry_vars>>

\* The spawned task that waits for the signal.
CtrlC ==
    /\ ~ shutdown
    /\ shutdown' = TRUE
    /\ UNCHANGED <<cap, producer_vars, channels, loop, registry_vars>>

ThreadStep(t) == Open(t) \/ CheckShutdown(t) \/ Quiet(t)
LoopStep == SkipEntry \/ HandleEntry \/ HandleService \/ DropService \/ Wait \/ Timeout \/ Join
Reception ==
    \/ \E f \in Frames : Sniff(f)
    \/ \E e \in ArpTable : Poll(e)
    \/ \E p \in Packets : Receive(p)

Next ==
    \/ \E t \in DOMAIN pc : ThreadStep(t)
    \/ Reception
    \/ Announce
    \/ LoopStep
    \/ CtrlC

\* Each thread is scheduled, and returns from its receive (read timeout or
\* non-blocking socket); the runtime polls the select loop.
Fairness ==
    /\ \A t \in {"sniff_raw", "poll_arp_table", "listen_mdns"} :
          WF_vars(t \in DOMAIN pc /\ ThreadStep(t))
    /\ WF_vars(Announce)
    /\ WF_vars(LoopStep)

Spec == Init /\ [][Next]_vars
FairSpec == Spec /\ Fairness

-----------------------------------------------------------------------------
(***************************************************************************)
(* Properties.                                                             *)
(***************************************************************************)

\* The variables have their types.
TypeOK ==
    /\ cap \in Capabilities
    /\ pc \in [threads(cap) -> {"start", "check", "receive", "announce", "done"}]
    /\ seen \in [threads(cap) -> SUBSET Entry]
    /\ hand \in Option(Ips)
    /\ rx \in Seq(Entry) /\ service_rx \in Seq(Packet)
    /\ shutdown \in BOOLEAN /\ save_failed \in BOOLEAN
    /\ loop \in {"select", "waiting", "joining", "stopped"}
    /\ DOMAIN seen_local \subseteq Ips /\ seen_local \in [DOMAIN seen_local -> Macs]
    /\ IsRegistry(store) /\ IsRegistry(disk)
    /\ received \in 0..MaxReceived

\* Whatever the loop has recorded is on disk, unless the last save failed: no
\* path through the select loop changes the registry and leaves it unsaved.
DiskIsCurrent == ~ save_failed => disk = store

\* A host that was printed as NEW stays known for the rest of the session:
\* some record has its address in its history, whatever was recorded since.
\* (For a registry loaded without records keyed by an address.)
CapturedIsKnown ==
    \A ip \in DOMAIN seen_local : \E k \in DOMAIN store : ip \in store[k].ips

\* Once Ctrl-C is pressed the listener stops, although the loop looks at the
\* flag only after 500 ms without a message: the threads see it too and stop
\* sending.
ShutdownCompletes == shutdown ~> loop = "stopped"

\* The services that a known host announces are recorded, unless the listener
\* is stopped first (events of unknown hosts are dropped).
known(ip, s) == \E k \in DOMAIN store : ip \in store[k].ips /\ s \in store[k].services
pending(ip, s) ==
    \E i \in DOMAIN service_rx : service_rx[i].ip = ip /\ s \in service_rx[i].services
ServiceRecorded ==
    \A ip \in Ips, s \in Services :
        (pending(ip, s) /\ ip \in DOMAIN seen_local) ~>
            (known(ip, s) \/ loop \in {"joining", "stopped"})
=============================================================================
