--------------------------- MODULE PortAllocator ---------------------------
(***************************************************************************)
(* next_probe_port (src/src/discovery/sweep.rs, ports 51000..60000) and    *)
(* next_src_port (src/src/discovery/fingerprint.rs, ports 43210..50000):   *)
(* a load and a compare_exchange loop on a static AtomicU16, called from   *)
(* many probe threads at once.  A thread may be delayed between the two    *)
(* while the counter goes round the whole range.                           *)
(***************************************************************************)
EXTENDS Integers, Sequences

CONSTANTS
    Threads,
    Lo, Hi,       \* first and last port of the range
    NoPort,       \* a thread has no port yet
    MaxGrants     \* bound on the number of ports granted

ASSUME PortAssumption ==
    /\ Lo \in Nat /\ Hi \in Nat /\ Lo < Hi
    /\ NoPort \notin Lo..Hi
    /\ MaxGrants \in Nat

VARIABLES
    PORT,         \* the static atomic
    pc,           \* "idle", "loaded" (about to compare_exchange) or "returned"
    current,      \* the local variable `current` of each thread
    port,       \* the port returned to its caller
    grants        \* the ports returned so far, in the order of the exchanges

port_vars == <<PORT, pc, current, port, grants>>

PortInit ==
    /\ PORT = Lo
    /\ pc = [t \in Threads |-> "idle"]
    /\ current = [t \in Threads |-> NoPort]
    /\ port = [t \in Threads |-> NoPort]
    /\ grants = <<>>

next(c) == IF c >= Hi THEN Lo ELSE c + 1

\* PORT.load(..)
Load(t) ==
    /\ pc[t] = "idle"
    /\ current' = [current EXCEPT ![t] = PORT]
    /\ pc' = [pc EXCEPT ![t] = "loaded"]
    /\ UNCHANGED <<PORT, port, grants>>

\* Mutant: a plain store in place of the compare_exchange.
Exchange_store(t) ==
    /\ pc[t] = "loaded"
    /\ Len(grants) < MaxGrants
    /\ PORT' = next(current[t])
    /\ port' = [port EXCEPT ![t] = next(current[t])]
    /\ grants' = Append(grants, next(current[t]))
    /\ pc' = [pc EXCEPT ![t] = "returned"]
    /\ UNCHANGED current

\* compare_exchange(current, next, ..) returns Ok.
Exchange(t) ==
    /\ pc[t] = "loaded"
    /\ Len(grants) < MaxGrants
    /\ PORT = current[t]
    /\ PORT' = next(current[t])
    /\ port' = [port EXCEPT ![t] = next(current[t])]
    /\ grants' = Append(grants, next(current[t]))
    /\ pc' = [pc EXCEPT ![t] = "returned"]
    /\ UNCHANGED current

\* It returns Err(actual), and the loop tries again.
Retry(t) ==
    /\ pc[t] = "loaded"
    /\ PORT # current[t]
    /\ current' = [current EXCEPT ![t] = PORT]
    /\ UNCHANGED <<PORT, pc, port, grants>>

\* The caller has used its port and probes again.
Again(t) ==
    /\ pc[t] = "returned"
    /\ pc' = [pc EXCEPT ![t] = "idle"]
    /\ port' = [port EXCEPT ![t] = NoPort]
    /\ UNCHANGED <<PORT, current, grants>>

PortNext == \E t \in Threads : Load(t) \/ Exchange(t) \/ Retry(t) \/ Again(t)

PortSpec == PortInit /\ [][PortNext]_port_vars

-----------------------------------------------------------------------------
\* The variables have their types, the ports their range.
PortTypeOK ==
    /\ PORT \in Lo..Hi
    /\ pc \in [Threads -> {"idle", "loaded", "returned"}]
    /\ current \in [Threads -> Lo..Hi \cup {NoPort}]
    /\ port \in [Threads -> Lo..Hi \cup {NoPort}]
    /\ grants \in Seq(Lo..Hi)

\* A port is not granted again before all the others were: replies are matched
\* by port alone, so two probes in flight must not share one.
RangeSize == Hi - Lo + 1
DistinctInAnyRange ==
    \A i, j \in DOMAIN grants :
        i < j /\ j < i + RangeSize => grants[i] # grants[j]

\* The loop is one atomic step to its callers, whatever the interleaving of
\* loads and exchanges, and however stale a loaded value that comes round
\* again is.
T == INSTANCE TicketCounter WITH last <- PORT, got <- port
AtomicGrant == T!Spec
=============================================================================
