-------------------------------- MODULE Scan --------------------------------
(***************************************************************************)
(* gannet scan: scan of src/src/cli/commands.rs and what it drives,        *)
(* mdns.rs (resolve_bulk) and fingerprint.rs (probe_bulk).                 *)
(*                                                                         *)
(* The stages follow each other: ARP scan, sweep, names, fingerprints,     *)
(* description, registry.  Within a stage one task per device runs, and    *)
(* results are filed by address as the tasks end.                          *)
(*                                                                         *)
(* Abstractions.  Of the ARP scan and of the sweep only the result is      *)
(* chosen (ArpScan and Sweep model how it comes about).  A datagram is     *)
(* what parse_mdns_records finds in it.  A probe of fingerprint.rs hears   *)
(* the SYN+ACK it asked for or nothing: segments of others that have its   *)
(* ports, which wait_syn_ack would take as well, are left out here and     *)
(* modelled in Sweep.                                                      *)
(***************************************************************************)
EXTENDS Session, Classify

CONSTANTS
    Replies,          \* ARP replies that can be heard, [ip, mac]
    Alive,            \* addresses that answer the probes of the sweep
    Datagrams,        \* mDNS and DNS answers, [src, names, services]
    stack(_, _),      \* [ttl, window] of the SYN+ACK of an address and port, or NONE
    Ports,            \* FALLBACK_PORTS
    BlockingThreads,  \* size of tokio's blocking pool
    score(_),         \* rank of a host name, 0 if best_hostname drops it
    oui(_),           \* oui::lookup
    MaxFound,         \* bound on the devices of a scan
    MaxHeard          \* bound on the datagrams that reach a socket

ASSUME ScanAssumption ==
    /\ Alive \subseteq Ips /\ Replies \subseteq [ip : Ips, mac : Macs]
    /\ IsFiniteSet(Alive) /\ IsFiniteSet(Replies) /\ IsFiniteSet(Ports)
    /\ Datagrams \subseteq [src : Ips, names : Seq(Values), services : Seq(Services)]
    /\ \A g \in Datagrams : \A name \in ToSet(g.names) : score(name) \in Nat
    /\ \A m \in Macs : oui(m) \in Option(Values)
    /\ {BlockingThreads, MaxFound, MaxHeard} \subseteq Nat \ {0}

\* The rules decide for categories.
ASSUME CategoryAssumption ==
    /\ Unknown = "Unknown" /\ "Phone" \in Categories
    /\ \A rules \in {ServiceRules, VendorRules, HostnameRules, OsRules, FallbackRules} :
          \A i \in DOMAIN rules : rules[i][2] \in Option(Categories)

VARIABLES
    subnet,    \* [base, prefix]
    entries,   \* arp_entries
    swept,     \* sweep_results, in the order the set yields them
    pending,   \* tasks of the JoinSet that have not ended, by their position in all_ips
    queries,   \* per task: what its query_ip has returned
    names,     \* mdns_results
    jobs,      \* the blocking closures of probe_syn, per task and port
    answered,  \* tasks one of whose closures, started at once, was sent a SYN+ACK in time
    stacks     \* fingerprints: the SYN+ACK per address, or NONE

found_vars == <<subnet, entries, swept>>
name_vars == <<queries, names>>
print_vars == <<jobs, answered, stacks>>
scan_vars == <<found_vars, pending, name_vars, print_vars>>

Nothing == [x \in {} |-> NONE]   \* an empty HashMap
insert(map, k, v) == [x \in DOMAIN map \cup {k} |-> IF x = k THEN v ELSE map[x]]

ScanInit ==
    /\ subnet = NONE /\ entries = <<>> /\ swept = <<>>
    /\ pending = {} /\ queries = Nothing /\ names = Nothing
    /\ jobs = Nothing /\ answered = {} /\ stacks = Nothing

interface == find_interface(host, request.interface)
source_ip == find_source_ip(host, request.interface)
all_ips == [n \in DOMAIN entries |-> entries[n].ip] \o swept

-----------------------------------------------------------------------------
(***************************************************************************)
(* Which subnet, and who is there.                                         *)
(***************************************************************************)

\* Mutant: the prefix is checked one too late.
ParseSubnet_33 ==
    /\ stage = "scan" /\ request.subnet # NONE
    /\ IF request.subnet.ip = NONE \/ request.subnet.prefix > 33
       THEN stage' = "exited" /\ UNCHANGED subnet
       ELSE /\ stage' = "arp"
            /\ subnet' = [base |-> request.subnet.ip, prefix |-> request.subnet.prefix]
    /\ UNCHANGED <<entries, swept, pending, name_vars, print_vars>>

\* parse_subnet exits on a text it does not understand.
ParseSubnet ==
    /\ stage = "scan" /\ request.subnet # NONE
    /\ IF request.subnet.ip = NONE \/ request.subnet.prefix > 32
       THEN stage' = "exited" /\ UNCHANGED subnet
       ELSE /\ stage' = "arp"
            /\ subnet' = [base |-> request.subnet.ip, prefix |-> request.subnet.prefix]
    /\ UNCHANGED <<entries, swept, pending, name_vars, print_vars>>

\* auto_subnet computes a base, which may overflow.
AutoSubnet ==
    /\ stage = "scan" /\ request.subnet = NONE
    /\ subnet' = auto_subnet(host, request.interface)
    /\ stage' = IF panics(subnet'.prefix) THEN "panicked" ELSE "arp"
    /\ UNCHANGED <<entries, swept, pending, name_vars, print_vars>>

\* The reports of scan_subnet: hosts that were heard, of whatever subnet, in the
\* order of their addresses.
reports ==
    {s \in SetToAllKPermutations(Replies) :
        Len(s) <= MaxFound /\ IsSorted(s, LAMBDA a, b : ~ precedes(b.ip, a.ip))}

\* scan_subnet gives up without an interface or its mac, then lists its targets.
ArpScan ==
    /\ stage = "arp"
    /\ IF interface = NONE \/ ~ interface.mac
       THEN stage' = "sweep" /\ entries' = <<>>
       ELSE IF panics(subnet.prefix)
       THEN stage' = "panicked" /\ UNCHANGED entries
       ELSE stage' = "sweep" /\ entries' \in reports
    /\ UNCHANGED <<subnet, swept, pending, name_vars, print_vars>>

targets ==
    {ip \in Ips : /\ subnet_iter(ip, subnet.base, subnet.prefix)
                  /\ ip # source_ip
                  /\ \A n \in DOMAIN entries : entries[n].ip # ip}

\* sweep_subnet gives up without a source address; scan returns if neither way
\* has found anybody.
SweepSubnet ==
    /\ stage = "sweep"
    /\ IF source_ip # NONE /\ panics(subnet.prefix)
       THEN stage' = "panicked" /\ UNCHANGED swept
       ELSE /\ IF source_ip = NONE
               THEN swept' = <<>>
               ELSE \E found \in SUBSET (Alive \cap targets) :
                       /\ Len(entries) + Cardinality(found) <= MaxFound
                       /\ swept' \in SetToSeqs(found)
            /\ stage' = IF entries = <<>> /\ swept' = <<>> THEN "returned" ELSE "names"
    /\ UNCHANGED <<subnet, entries, pending, name_vars, print_vars>>

-----------------------------------------------------------------------------
(***************************************************************************)
(* Names (mdns.rs).                                                        *)
(***************************************************************************)

\* The retained names are the first occurrences of those with a score; max_by_key
\* takes the last one of the highest score.
best_hostname(names_) ==
    LET kept == {i \in DOMAIN names_ :
                    score(names_[i]) > 0 /\ \A j \in 1..(i - 1) : names_[j] # names_[i]}
        best == {i \in kept : \A j \in kept : score(names_[j]) <= score(names_[i])}
    IN  IF kept = {} THEN NONE ELSE names_[Max(best)]

\* An MdnsResult; services heard from a host without a name are dropped.
mdns_result(heard) ==
    LET hostname == best_hostname(FlattenSeq([n \in DOMAIN heard |-> heard[n].names]))
    IN  IF hostname = NONE THEN NONE
        ELSE [hostname |-> hostname,
              services |-> FlattenSeq([n \in DOMAIN heard |-> heard[n].services])]

\* A datagram of another host than ip is skipped: it adds nothing.
heard_from(ip, heard) ==
    [n \in DOMAIN heard |-> IF heard[n].src = ip THEN heard[n]
                            ELSE [heard[n] EXCEPT !.names = <<>>, !.services = <<>>]]

unicast_mdns(ip, heard) == mdns_result(heard_from(ip, heard))

\* Mutant: whoever answers the multicast question is believed.
multicast_passive_any(ip, heard) == mdns_result(heard)

multicast_passive(ip, heard) == mdns_result(heard_from(ip, heard))

\* One datagram, not filtered: only the host asked knows the port.
unicast_dns_reverse(heard) == mdns_result(heard)

\* What query_ip may return: the three threads' results in the order of preference.
\* A socket that fails, a thread that panics and an answer that is late are all
\* silence.
query_ip(ip) ==
    LET heard == SeqOf(Datagrams, MaxHeard)
    IN  {or(unicast, or(multicast, reverse)) :
            unicast \in {unicast_mdns(ip, h) : h \in heard},
            multicast \in {multicast_passive(ip, h) : h \in heard},
            reverse \in {unicast_dns_reverse(h) : h \in SeqOf({d \in Datagrams : d.src = ip}, 1)}}

\* query_ip panics if it cannot start a thread.
Failed == [hostname |-> NONE, services |-> <<>>]

\* resolve_bulk spawns a task per host.
ResolveBulk ==
    /\ stage = "names"
    /\ stage' = "resolve"
    /\ pending' = DOMAIN all_ips
    /\ UNCHANGED <<found_vars, name_vars, print_vars>>

\* The query of a task ends.
Query(i) ==
    /\ stage = "resolve" /\ i \notin DOMAIN queries
    /\ \E result \in query_ip(all_ips[i]) \cup {Failed} : queries' = insert(queries, i, result)
    /\ UNCHANGED <<stage, found_vars, pending, names, print_vars>>

\* Mutant: a query that panics takes its task along, and collecting stops.
Join_until_failure(i) ==
    /\ stage = "resolve" /\ i \in pending \cap DOMAIN queries
    /\ pending' = IF queries[i] = Failed THEN {} ELSE pending \ {i}
    /\ names' = IF queries[i] \in {NONE, Failed} THEN names ELSE insert(names, all_ips[i], queries[i])
    /\ UNCHANGED <<stage, found_vars, queries, print_vars>>

\* Mutant: a query that panics is waited for.
Join_never(i) ==
    /\ stage = "resolve" /\ i \in pending \cap DOMAIN queries /\ queries[i] # Failed
    /\ pending' = pending \ {i}
    /\ names' = IF queries[i] = NONE THEN names ELSE insert(names, all_ips[i], queries[i])
    /\ UNCHANGED <<stage, found_vars, queries, print_vars>>

\* A task has ended, in any order, and is joined; .ok().flatten() makes a panic of
\* its query a None, so that collecting goes on.
Join(i) ==
    /\ stage = "resolve" /\ i \in pending \cap DOMAIN queries
    /\ pending' = pending \ {i}
    /\ names' = IF queries[i] \in {NONE, Failed} THEN names ELSE insert(names, all_ips[i], queries[i])
    /\ UNCHANGED <<stage, found_vars, queries, print_vars>>

-----------------------------------------------------------------------------
(***************************************************************************)
(* Fingerprints (fingerprint.rs).                                          *)
(***************************************************************************)

Jobs == (DOMAIN all_ips) \X Ports
busy(js) == {j \in DOMAIN js : js[j] \in {"prompt", "late"}}

\* The n-th device, with the vendor of its mac and what mDNS knows of its address.
device(n) ==
    LET d == IF n <= Len(entries) THEN from_entry(entries[n]) ELSE from_sweep(all_ips[n])
        m == IF d.ip \in DOMAIN names THEN names[d.ip] ELSE [hostname |-> NONE, services |-> <<>>]
    IN  [d EXCEPT !.services = m.services,
                  !.facts = [vendor |-> IF d.mac = NONE THEN NONE ELSE oui(d.mac),
                             hostname |-> m.hostname, os_hint |-> NONE]]

\* The devices are listed, and probe_bulk spawns a task for each, which gives up
\* without a source address, else hands one closure per port to the blocking
\* pool.  The pool starts as many as it has threads and queues the others.
ProbeBulk ==
    /\ stage = "resolve" /\ pending = {}
    /\ stage' = "fingerprint"
    /\ IF source_ip = NONE
       THEN UNCHANGED <<pending, jobs>>
       ELSE /\ pending' = DOMAIN all_ips
            /\ jobs' \in [Jobs -> {"prompt", "queued"}]
            /\ Cardinality(busy(jobs')) = Min({BlockingThreads, Cardinality(Jobs)})
    /\ devices' = [n \in DOMAIN all_ips |-> device(n)]
    /\ queries' = Nothing
    /\ UNCHANGED <<found_vars, names, answered, stacks>>

\* A thread is free; that the task may have ended does not matter.
StartJob(j) ==
    /\ stage = "fingerprint"
    /\ j \in DOMAIN jobs /\ jobs[j] = "queued"
    /\ Cardinality(busy(jobs)) < BlockingThreads
    /\ jobs' = [jobs EXCEPT ![j] = "late"]
    /\ UNCHANGED <<stage, found_vars, pending, name_vars, answered, stacks>>

\* As in Sweep: the protocol that wait_syn_ack reads.
Sequence == 31337
Tcp == 6
get_next_level_protocol(acknowledgement) ==
    IF skips THEN (acknowledgement \div 2^16) % 2^8 ELSE Tcp

\* What wait_syn_ack makes of the SYN+ACK s that arrives in its 2 s, if any does.
wait_syn_ack(s) ==
    IF s # NONE /\ get_next_level_protocol(Sequence + 1) = Tcp THEN s ELSE NONE

\* What may arrive for a closure.  A channel that cannot be opened and an answer
\* that is lost or late are silence.
arrivals(j) == {NONE, stack(all_ips[j[1]], j[2])}

\* Whom the fingerprints owe a result: the host answered a closure that did not
\* have to wait for a thread.
answered_by(j, arrived) ==
    IF arrived # NONE /\ jobs[j] = "prompt" THEN answered \cup {j[1]} ELSE answered

\* Task i ends with a FingerprintResult.
settle(i, s) ==
    /\ pending' = pending \ {i}
    /\ stacks' = insert(stacks, all_ips[i], s)

\* Mutant: the first closure to end decides.
EndJob_first(j) ==
    /\ stage = "fingerprint"
    /\ j \in DOMAIN jobs /\ jobs[j] \in {"prompt", "late"}
    /\ jobs' = [jobs EXCEPT ![j] = "ended"]
    /\ \E arrived \in arrivals(j) :
          /\ answered' = answered_by(j, arrived)
          /\ IF j[1] \in pending
             THEN settle(j[1], wait_syn_ack(arrived))
             ELSE UNCHANGED <<pending, stacks>>
    /\ UNCHANGED <<stage, found_vars, name_vars>>

\* A closure ends after at most 2 s, with a SYN+ACK or with nothing.  The task
\* takes the first SYN+ACK, or ends with nothing when all closures have ended.
EndJob(j) ==
    /\ stage = "fingerprint"
    /\ j \in DOMAIN jobs /\ jobs[j] \in {"prompt", "late"}
    /\ jobs' = [jobs EXCEPT ![j] = "ended"]
    /\ \E arrived \in arrivals(j) :
          /\ answered' = answered_by(j, arrived)
          /\ IF /\ j[1] \in pending
                /\ \/ wait_syn_ack(arrived) # NONE
                   \/ \A port \in Ports : jobs'[<<j[1], port>>] = "ended"
             THEN settle(j[1], wait_syn_ack(arrived))
             ELSE UNCHANGED <<pending, stacks>>
    /\ UNCHANGED <<stage, found_vars, name_vars>>

\* The 3 s of probe_syn are over.  A closure that was started at once has ended
\* by then, after its 2 s; one that had to wait for a thread may not have.
GiveUp(i) ==
    /\ stage = "fingerprint" /\ i \in pending
    /\ \A port \in Ports : jobs[<<i, port>>] # "prompt"
    /\ \E port \in Ports : jobs[<<i, port>>] \in {"queued", "late"}
    /\ settle(i, NONE)
    /\ UNCHANGED <<stage, found_vars, name_vars, jobs, answered>>

\* parse_stack_fingerprint.  The slice of the options starts at the length of the
\* IP header within the TCP segment: a SYN+ACK without data is too short for it,
\* and no option is ever read.
parse_stack_fingerprint(s) ==
    [ttl |-> s.ttl, window |-> s.window, mss |-> NONE, scale |-> NONE,
     timestamp |-> FALSE, sack |-> FALSE]

\* What a stack is taken for is a value of os_hint.
ASSUME StackAssumption ==
    \A ip \in Ips, port \in Ports :
        stack(ip, port) # NONE => guess_os(parse_stack_fingerprint(stack(ip, port))) \in Option(Values)

-----------------------------------------------------------------------------
(***************************************************************************)
(* Description and registry.                                               *)
(***************************************************************************)

\* apply_fingerprint is called for the first device of an address.
apply_fingerprint(n) ==
    LET d == devices[n]
    IN  IF \/ \E k \in 1..(n - 1) : devices[k].ip = d.ip
           \/ d.ip \notin DOMAIN stacks \/ stacks[d.ip] = NONE
        THEN d
        ELSE [d EXCEPT !.facts["os_hint"] = guess_os(parse_stack_fingerprint(stacks[d.ip]))]

\* Closures that were given up run on and are heard by nobody.
ApplyFingerprints ==
    /\ stage = "fingerprint" /\ pending = {}
    /\ stage' = "classify"
    /\ jobs' = Nothing /\ answered' = {}
    /\ devices' = [n \in DOMAIN devices |-> apply_fingerprint(n)]
    /\ UNCHANGED <<found_vars, pending, name_vars, stacks>>

evidence(d) ==
    [services |-> d.services, vendor |-> d.facts["vendor"],
     hostname |-> d.facts["hostname"], os_hint |-> d.facts["os_hint"]]

\* Every device is classified, and the list is sorted (stably) by address.
ClassifyAndSort ==
    /\ stage = "classify"
    /\ stage' = "record"
    /\ \E order \in SetToSeqs(DOMAIN devices) :
          /\ \A m, n \in DOMAIN order :
                m < n => \/ precedes(devices[order[m]].ip, devices[order[n]].ip)
                         \/ devices[order[m]].ip = devices[order[n]].ip /\ order[m] < order[n]
          /\ devices' = [n \in DOMAIN order |->
                           [devices[order[n]] EXCEPT !.category = classify(evidence(devices[order[n]]))]]
    /\ UNCHANGED <<found_vars, pending, name_vars, print_vars>>

\* The steps of scan up to its registry part.
ScanStep ==
    /\ \/ ProbeBulk \/ ApplyFingerprints \/ ClassifyAndSort
       \/ /\ \/ ParseSubnet \/ AutoSubnet \/ ArpScan \/ SweepSubnet \/ ResolveBulk
             \/ \E i \in pending : Query(i) \/ Join(i) \/ GiveUp(i)
             \/ \E j \in DOMAIN jobs : StartJob(j) \/ EndJob(j)
          /\ UNCHANGED devices
    /\ UNCHANGED <<input_vars, disk>>

-----------------------------------------------------------------------------
(***************************************************************************)
(* Safety.                                                                 *)
(***************************************************************************)

ScanTypeOK ==
    /\ subnet \in Option([base : Ips, prefix : 0..32])
    /\ \A n \in DOMAIN entries : entries[n] \in Replies
    /\ ToSet(swept) \subseteq Ips
    /\ pending \subseteq DOMAIN all_ips
    /\ DOMAIN queries \subseteq DOMAIN all_ips
    /\ \A ip \in DOMAIN names : names[ip].hostname \in Values /\ ToSet(names[ip].services) \subseteq Services
    /\ \A j \in DOMAIN jobs : j \in Jobs /\ jobs[j] \in {"queued", "prompt", "late", "ended"}
    /\ answered \subseteq DOMAIN all_ips
    /\ DOMAIN stacks \subseteq ToSet(all_ips)

\* The masks of arp.rs:22, sweep.rs:174 and commands.rs:285 cut out the subnet
\* that was asked for, bit by bit: the sweep asks each of its hosts that ARP has
\* not found, and nobody else.  /0 is the exception: the shift by 32 wraps, and a
\* build without checks sweeps the one address.
SubnetCovered ==
    stage = "sweep" /\ subnet.prefix > 0 =>
        LET asked == {ip \in Alive : ip[4] \in 1..254 /\ same_prefix(ip, subnet.base, subnet.prefix)}
        IN  Alive \cap targets = asked \ ({source_ip} \cup {entries[n].ip : n \in DOMAIN entries})

\* A name that a query returned is in the results, whichever other queries panic
\* and in whatever order they end (the `while let Some(Ok(..))` of mdns.rs:420).
NamesSurviveFailures ==
    stage = "resolve" /\ pending = {} =>
        \A i \in DOMAIN queries : queries[i] \notin {NONE, Failed} => all_ips[i] \in DOMAIN names

\* What is said of a device was said by the host at its address, not by one that
\* answered the same multicast question or is next to it in a list: results are
\* filed by address (commands.rs:55, 63, 79).
DescribedByItself ==
    stage = "record" =>
        \A n \in DOMAIN devices :
            LET d == devices[n]
                own == {g \in Datagrams : g.src = d.ip}
            IN  /\ d.facts["hostname"] # NONE => \E g \in own : Contains(g.names, d.facts["hostname"])
                /\ ToSet(d.services) \subseteq UNION {ToSet(g.services) : g \in own}
                /\ d.facts["os_hint"] # NONE =>
                      \E port \in Ports :
                          /\ stack(d.ip, port) # NONE
                          /\ d.facts["os_hint"] = guess_os(parse_stack_fingerprint(stack(d.ip, port)))

\* With a pnet that shows wait_syn_ack the protocol of a packet: when all tasks
\* have ended, a host that answered in time a probe that did not have to wait for a
\* thread has its stack in the results, in whatever order closures start and end and
\* however many threads the pool has.  One that comes late, or whose answer nobody
\* waits for any more, does not decide for the others (fingerprint.rs:289).  Two
\* devices with one address overwrite each other's result and are exempt.
\* Nothing is said of the vendored pnet (skips): no answer is recognised there, and
\* the "OS hints" of README.md:10 do not come about (fingerprint.rs:193).
AnsweredIsFingerprinted ==
    ~ skips /\ stage = "fingerprint" /\ pending = {} =>
        \A i \in answered :
            (\A k \in DOMAIN all_ips : all_ips[k] = all_ips[i] => k = i)
                => stacks[all_ips[i]] # NONE

\* STATUS.md:82: "mDNS services > vendor OUI > hostname > OS hint > vendor keyword
\* fallbacks".  The category is the decision of the strongest evidence that the
\* finished scan holds about a device.
StrongestEvidenceDecides ==
    stage = "record" /\ request.command = "scan" =>
        \A n \in DOMAIN devices :
            LET d == devices[n]
                decisions == <<service_category(d.services), vendor_category(d.facts["vendor"]),
                               hostname_category(d.facts["hostname"]), os_category(d.facts["os_hint"]),
                               first_match(FallbackRules, words_of(d.facts["vendor"]))>>
            IN  IF \A k \in DOMAIN decisions : decisions[k] = NONE
                THEN d.category = "Unknown"
                ELSE \E k \in DOMAIN decisions :
                        /\ d.category = decisions[k] /\ decisions[k] # NONE
                        /\ \A l \in 1..(k - 1) : decisions[l] = NONE

\* A saved scan has a record that knows the address and the services of every
\* device it found, two with one address included (commands.rs:93-102).  Only
\* the promotion of a record without a mac from an earlier command may replace
\* one that this scan has just credited (store.rs:124).
FoundIsKept ==
    [][disk' # disk /\ (\A k \in DOMAIN disk : disk[k].mac # NONE) =>
          \A n \in DOMAIN devices : \E k \in DOMAIN disk' :
              /\ devices[n].ip \in disk'[k].ips
              /\ ToSet(devices[n].services) \subseteq disk'[k].services]_session_vars
=============================================================================
