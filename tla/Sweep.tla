-------------------------------- MODULE Sweep --------------------------------
(***************************************************************************)
(* sweep_subnet (src/src/discovery/sweep.rs): one task per target, a       *)
(* semaphore of MAX_CONCURRENT permits, and for each target a blocking     *)
(* closure (probe_host) that starts one ICMP and two TCP probe threads and *)
(* joins them in order, leaving the rest running once one has answered.    *)
(* The set of found hosts is behind an Arc that is unwrapped at the end.   *)
(*                                                                         *)
(* Abstractions.  next_probe_port is one step (PortAllocator shows that it *)
(* is).  A probe's 800 ms may be over at any time; transport_channel and   *)
(* send errors end a probe with FALSE, like an answer that is late.  TCP   *)
(* segments are told apart by ports alone, as the code does: the network   *)
(* may deliver answers to these probes, in time or late, and any segment   *)
(* of other traffic.  The port counter is shared with other sweeps.        *)
(***************************************************************************)
EXTENDS Integers, FiniteSets

CONSTANTS
    Targets,        \* addresses to probe
    TcpPorts,       \* TCP_PROBE_PORTS, in the order they are joined
    MaxConcurrent,  \* MAX_CONCURRENT
    Lo, Hi,         \* range of the source ports
    Pingable,       \* targets that answer an echo request
    Listening,      \* targets that answer a SYN, with RST or SYN+ACK
    SkipsHeader,    \* whether pnet's iterator skips the IP header: {TRUE}, as the
                    \* vendored one does, or {TRUE, FALSE} for either
    MaxOthers       \* bound on the ports that other sweeps take meanwhile: 0 for
                    \* scan; survey runs a sweep per subnet on the same counter

ASSUME SweepAssumption ==
    /\ IsFiniteSet(Targets)
    /\ TcpPorts \subseteq Nat /\ TcpPorts # {} /\ IsFiniteSet(TcpPorts)
    /\ MaxConcurrent \in Nat \ {0}
    /\ Lo \in Nat /\ Hi \in Nat /\ Lo < Hi
    /\ Pingable \subseteq Targets /\ Listening \subseteq Targets
    /\ SkipsHeader \subseteq BOOLEAN
    /\ MaxOthers \in Nat

VARIABLES
    skips,     \* the pnet in use
    task,      \* per target: "queued", "probing", "joined_icmp", "done"
    permits,   \* free permits of the semaphore
    icmp,      \* per target: "off", "running", or the probe's result
    tcp,       \* the same per target and port
    src_port,  \* the source port of each TCP probe
    PORT,      \* the static of next_probe_port
    others,    \* how many ports other sweeps have taken
    answered,  \* TCP probes that were answered in time
    strays,    \* TCP probes that took a segment of other traffic for their answer
    found,     \* the set behind the mutex
    refs,      \* strong count of the Arc
    main       \* "joining", "returned" or "panicked"

vars == <<skips, task, permits, icmp, tcp, src_port, PORT, others, answered, strays, found, refs, main>>

Probes == Targets \X TcpPorts

Init ==
    /\ skips \in SkipsHeader
    /\ task = [t \in Targets |-> "queued"]
    /\ permits = MaxConcurrent
    /\ icmp = [t \in Targets |-> "off"]
    /\ tcp = [p \in Probes |-> "off"]
    /\ src_port = [p \in Probes |-> 0]
    /\ PORT = Lo
    /\ others = 0
    /\ answered = {} /\ strays = {} /\ found = {}
    /\ refs = 1 + Cardinality(Targets)   \* the caller's and one clone per task
    /\ main = "joining"

\* Mutant: the probe starts without a permit.
Acquire_unbounded(t) ==
    /\ task[t] = "queued"
    /\ permits' = permits - 1
    /\ task' = [task EXCEPT ![t] = "probing"]
    /\ icmp' = [icmp EXCEPT ![t] = "running"]
    /\ tcp' = [p \in Probes |-> IF p[1] = t THEN "starting" ELSE tcp[p]]
    /\ UNCHANGED <<skips, src_port, PORT, others, answered, strays, found, refs, main>>

\* permit.acquire().await, then spawn_blocking and probe_host's three spawns.
Acquire(t) ==
    /\ task[t] = "queued"
    /\ permits > 0
    /\ permits' = permits - 1
    /\ task' = [task EXCEPT ![t] = "probing"]
    /\ icmp' = [icmp EXCEPT ![t] = "running"]
    /\ tcp' = [p \in Probes |-> IF p[1] = t THEN "starting" ELSE tcp[p]]
    /\ UNCHANGED <<skips, src_port, PORT, others, answered, strays, found, refs, main>>

\* icmp_probe: an echo reply from the target, or none in time.
IcmpProbe(t) ==
    /\ icmp[t] = "running"
    /\ \/ icmp' = [icmp EXCEPT ![t] = "no"]
       \/ t \in Pingable /\ icmp' = [icmp EXCEPT ![t] = "yes"]
    /\ UNCHANGED <<skips, task, permits, tcp, src_port, PORT, others, answered, strays, found, refs, main>>

\* Mutant: the counter wraps a port early, and the range is one port short.
next_probe_port_short(port) == IF port >= Hi - 1 THEN Lo ELSE port + 1

next_probe_port(port) == IF port >= Hi THEN Lo ELSE port + 1

\* tcp_probe takes its source port and sends the SYN.
TcpStart(p) ==
    /\ tcp[p] = "starting"
    /\ PORT' = next_probe_port(PORT)
    /\ src_port' = [src_port EXCEPT ![p] = PORT']
    /\ tcp' = [tcp EXCEPT ![p] = "running"]
    /\ UNCHANGED <<skips, task, permits, icmp, others, answered, strays, found, refs, main>>

\* A probe of another sweep of the process takes the next port.
OthersTake ==
    /\ others < MaxOthers
    /\ others' = others + 1
    /\ PORT' = next_probe_port(PORT)
    /\ UNCHANGED <<skips, task, permits, icmp, tcp, src_port, answered, strays, found, refs, main>>

\* The sequence number of every SYN, and the acknowledgement of its answer.
Sequence == 12345
Acknowledgement == Sequence + 1

\* pnet's ipv4_packet_iter on a Layer4 channel skips the IP header before it
\* builds the Ipv4Packet: its "protocol" is then byte 9 of the TCP header, the
\* second byte of the acknowledgement number.
Tcp == 6
get_next_level_protocol(acknowledgement) ==
    IF skips THEN (acknowledgement \div 2^16) % 2^8 ELSE Tcp

\* The kernel hands every TCP segment to every raw socket; the loop of tcp_probe
\* takes a RST or SYN+ACK for its own if both ports match, whoever sent it.
matching(port, dst) == {p \in Probes : tcp[p] = "running" /\ p[2] = port /\ src_port[p] = dst}

\* An answer to probe q arrives, while q waits or late.
Answer(q) ==
    /\ tcp[q] \in {"running", "yes", "no"}
    /\ q[1] \in Listening
    /\ answered' = IF tcp[q] = "running" THEN answered \cup {q} ELSE answered
    /\ tcp' = [p \in Probes |->
                 IF /\ get_next_level_protocol(Acknowledgement) = Tcp
                    /\ p \in matching(q[2], src_port[q])
                 THEN "yes" ELSE tcp[p]]
    /\ UNCHANGED <<skips, task, permits, icmp, src_port, PORT, others, strays, found, refs, main>>

\* A segment that answers none of these probes: one for another process, whose
\* ephemeral ports overlap the range, or for another sweep.  It may have any ports
\* and, behind the shifted view of a skipped header, any bytes in their place.
Stray(port, dst) ==
    /\ matching(port, dst) # {}
    /\ tcp' = [p \in Probes |-> IF p \in matching(port, dst) THEN "yes" ELSE tcp[p]]
    /\ strays' = strays \cup matching(port, dst)
    /\ UNCHANGED <<skips, task, permits, icmp, src_port, PORT, others, answered, found, refs, main>>

\* The deadline passes.
TcpTimeout(p) ==
    /\ tcp[p] = "running"
    /\ tcp' = [tcp EXCEPT ![p] = "no"]
    /\ UNCHANGED <<skips, task, permits, icmp, src_port, PORT, others, answered, strays, found, refs, main>>

\* Mutant: the permit is forgotten.
finish_keeps_permit(t) ==
    /\ task' = [task EXCEPT ![t] = "done"]
    /\ permits' = permits
    /\ refs' = refs - 1

\* The closure ends: it drops its clone of the Arc, the task its permit.
finish(t) ==
    /\ task' = [task EXCEPT ![t] = "done"]
    /\ permits' = permits + 1
    /\ refs' = refs - 1

\* icmp.join(): an answer settles it, and the TCP threads are left alone.
JoinIcmp(t) ==
    /\ task[t] = "probing"
    /\ \/ icmp[t] = "yes" /\ found' = found \cup {t} /\ finish(t)
       \/ /\ icmp[t] = "no"
          /\ task' = [task EXCEPT ![t] = "joined_icmp"]
          /\ UNCHANGED <<found, permits, refs>>
    /\ UNCHANGED <<skips, icmp, tcp, src_port, PORT, others, answered, strays, main>>

\* Mutant: the first TCP thread to end decides.
JoinTcp_first(t) ==
    /\ task[t] = "joined_icmp"
    /\ \E p \in {t} \X TcpPorts :
          /\ tcp[p] \in {"yes", "no"}
          /\ found' = IF tcp[p] = "yes" THEN found \cup {t} ELSE found
    /\ finish(t)
    /\ UNCHANGED <<skips, icmp, tcp, src_port, PORT, others, answered, strays, main>>

\* any(join): the first TRUE settles it, else all threads were joined.
JoinTcp(t) ==
    /\ task[t] = "joined_icmp"
    /\ \/ /\ \E port \in TcpPorts :
                /\ tcp[<<t, port>>] = "yes"
                /\ \A earlier \in TcpPorts : earlier < port => tcp[<<t, earlier>>] = "no"
          /\ found' = found \cup {t}
       \/ /\ \A port \in TcpPorts : tcp[<<t, port>>] = "no"
          /\ UNCHANGED found
    /\ finish(t)
    /\ UNCHANGED <<skips, icmp, tcp, src_port, PORT, others, answered, strays, main>>

\* Mutant: the set is taken out as soon as every probe has started.
Return_early ==
    /\ main = "joining"
    /\ \A t \in Targets : task[t] # "queued"
    /\ main' = IF refs = 1 THEN "returned" ELSE "panicked"
    /\ UNCHANGED <<skips, task, permits, icmp, tcp, src_port, PORT, others, answered, strays, found, refs>>

\* join_next() until the JoinSet is empty, then Arc::try_unwrap(found).unwrap().
Return ==
    /\ main = "joining"
    /\ \A t \in Targets : task[t] = "done"
    /\ main' = IF refs = 1 THEN "returned" ELSE "panicked"
    /\ UNCHANGED <<skips, task, permits, icmp, tcp, src_port, PORT, others, answered, strays, found, refs>>

TargetStep(t) ==
    \/ Acquire(t) \/ IcmpProbe(t) \/ JoinIcmp(t) \/ JoinTcp(t)
    \/ \E port \in TcpPorts : TcpStart(<<t, port>>) \/ TcpTimeout(<<t, port>>)

Next ==
    \/ \E t \in Targets : TargetStep(t)
    \/ \E q \in Probes : Answer(q)
    \/ \E port \in TcpPorts, dst \in Lo..Hi : Stray(port, dst)
    \/ OthersTake
    \/ Return

\* Every thread is scheduled and every wait has a deadline; the semaphore is
\* fair (tokio queues its waiters).  Nothing has to arrive, and no other sweep has to run.
Spec == Init /\ [][Next]_vars
FairSpec == Spec /\ WF_vars(Return) /\ \A t \in Targets : WF_vars(TargetStep(t))

-----------------------------------------------------------------------------
\* The variables have their types.
TypeOK ==
    /\ skips \in BOOLEAN
    /\ task \in [Targets -> {"queued", "probing", "joined_icmp", "done"}]
    /\ permits \in 0..MaxConcurrent
    /\ icmp \in [Targets -> {"off", "running", "yes", "no"}]
    /\ tcp \in [Probes -> {"off", "starting", "running", "yes", "no"}]
    /\ src_port \in [Probes -> {0} \cup Lo..Hi]
    /\ PORT \in Lo..Hi /\ others \in 0..MaxOthers
    /\ strays \subseteq Probes
    /\ answered \subseteq Probes /\ found \subseteq Targets
    /\ refs \in 0..(1 + Cardinality(Targets))
    /\ main \in {"joining", "returned", "panicked"}

\* Arc::try_unwrap(..).unwrap() never panics: every clone is dropped before the
\* last task is joined, although TCP threads may still be running.
NoPanic == main # "panicked"

\* Until the counter has gone round its range, no answer to one probe of the sweep
\* counts for another, late answers and threads that run on included: a reported
\* host answered a probe of its own, or a segment of other traffic had the very
\* ports of one.  Then the host may be silent: the loop of sweep.rs:120-135 looks
\* at the ports alone.  Beyond the range (many sweeps of one survey, or a large
\* subnet) an answer that is late by a whole turn may count for another host, too.
answers(t) == icmp[t] = "yes" \/ \E port \in TcpPorts : <<t, port>> \in answered
Taken == others + Cardinality({p \in Probes : tcp[p] \in {"running", "yes", "no"}})
CreditedByPorts ==
    Taken <= Hi - Lo + 1 =>
        \A t \in found : answers(t) \/ \E port \in TcpPorts : <<t, port>> \in strays

\* Every host that one of its own probes has heard is in the result, whatever
\* the order in which the threads end and are joined.
HeardAreFound ==
    main = "returned" =>
        \A t \in Targets :
            (icmp[t] = "yes" \/ \E port \in TcpPorts : tcp[<<t, port>>] = "yes") => t \in found

\* Every host that answered one of its probes in time is in the result.
\* README.md:8 says so of both kinds of probe: "ICMP + TCP sweep - find quieter
\* hosts".
RespondersFound == main = "returned" => \A t \in Targets : answers(t) => t \in found

\* The sweep returns.
SweepReturns == <>(main = "returned")
=============================================================================
