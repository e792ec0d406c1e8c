------------------------------ MODULE ArpScan ------------------------------
(***************************************************************************)
(* scan_subnet (src/src/discovery/arp.rs): a task that collects ARP        *)
(* replies until 2.5 s after the last one, or 10 s in all, while the       *)
(* caller sends a request to every address, pauses, sends all of them      *)
(* again and then waits for the task, for 11 s at most.                    *)
(*                                                                         *)
(* Abstractions.  Time is discrete and the waits are constants, taken as   *)
(* exact and the sends as free: a loaded host is slower, and its first     *)
(* pass may not fit where that of the model does.  Addresses               *)
(* are taken in blocks, each with one host of interest, whose requests     *)
(* take one wait.  The receiver's loop looks at the clock every 50 ms,     *)
(* below the grain of the model: it ends in the tick in which a deadline   *)
(* passes, before or after the replies of that tick.  The thread that      *)
(* reads the socket may fail to open it or stop on an error.               *)
(***************************************************************************)
EXTENDS Integers

CONSTANTS
    Blocks,               \* number of blocks of the subnet
    Live,                 \* blocks whose host answers
    Settle, SendTime, Pause, RetryTime,   \* waits of scan_subnet
    Quiet, HardCap,       \* deadlines of receive_arp_responses
    JoinTimeout,          \* of the wait for the task
    Latency,              \* longest time to answer
    NONE                  \* no reply yet

ASSUME ArpAssumption ==
    /\ Blocks \in Nat \ {0} /\ Live \subseteq 1..Blocks
    /\ {Settle, SendTime, Pause, RetryTime, Latency} \subseteq Nat
    /\ {Quiet, HardCap, JoinTimeout} \subseteq Nat \ {0}
    /\ HardCap < JoinTimeout
    /\ NONE \notin Nat

VARIABLES
    now,
    phase,      \* "first", "retry", "joining" or "returned"
    i, due,     \* the next block to send to, and when
    inflight,   \* replies under way: block and time of arrival
    thread,     \* "listening" or "stopped"
    receiver,   \* "collecting" or "closed"
    last_seen,  \* time of the last reply
    entries,    \* hosts collected
    answered,   \* hosts whose reply to the first request came in
    result      \* what scan_subnet returns

sender_vars == <<phase, i, due>>
receiver_vars == <<receiver, last_seen, entries>>
vars == <<now, sender_vars, inflight, thread, receiver_vars, answered, result>>

Init ==
    /\ now = 0
    /\ phase = "first" /\ i = 1 /\ due = Settle
    /\ inflight = {}
    /\ thread \in {"listening", "stopped"}
    /\ receiver = "collecting" /\ last_seen = NONE
    /\ entries = {} /\ answered = {} /\ result = {}

wait == IF phase = "first" THEN SendTime ELSE RetryTime

\* Mutant: one block too many.
Send_past_end ==
    /\ phase \in {"first", "retry"} /\ i <= Blocks + 1 /\ now = due
    /\ \/ UNCHANGED inflight
       \/ /\ i \in Live
          /\ \E l \in 0..Latency : inflight' = inflight \cup {<<i, now + l, phase>>}
    /\ i' = i + 1
    /\ due' = now + wait
    /\ UNCHANGED <<now, phase, thread, receiver_vars, answered, result>>

\* send_arp_request to the addresses of a block; a live host answers, or the
\* request or its reply is lost.
Send ==
    /\ phase \in {"first", "retry"} /\ i <= Blocks /\ now = due
    /\ \/ UNCHANGED inflight
       \/ /\ i \in Live
          /\ \E l \in 0..Latency : inflight' = inflight \cup {<<i, now + l, phase>>}
    /\ i' = i + 1
    /\ due' = now + wait
    /\ UNCHANGED <<now, phase, thread, receiver_vars, answered, result>>

\* After the first pass: the pause, and all over again.
Repeat ==
    /\ phase = "first" /\ i > Blocks /\ now = due
    /\ phase' = "retry"
    /\ i' = 1 /\ due' = now + Pause
    /\ UNCHANGED <<now, inflight, thread, receiver_vars, answered, result>>

\* After the second pass: timeout(11 s, recv_handle).
Await ==
    /\ phase = "retry" /\ i > Blocks /\ now = due
    /\ phase' = "joining" /\ due' = now + JoinTimeout
    /\ UNCHANGED <<now, i, inflight, thread, receiver_vars, answered, result>>

\* A reply arrives and goes through the thread and its channel to the task.
Reply(r) ==
    /\ r \in inflight /\ r[2] = now
    /\ inflight' = inflight \ {r}
    /\ IF thread = "listening" /\ receiver = "collecting"
       THEN entries' = entries \cup {r[1]} /\ last_seen' = now
       ELSE UNCHANGED <<entries, last_seen>>
    /\ answered' = IF thread = "listening" /\ r[3] = "first"
                   THEN answered \cup {r[1]} ELSE answered
    /\ UNCHANGED <<now, sender_vars, thread, receiver, result>>

\* The socket fails; the task goes on to one of its deadlines.
ThreadStops ==
    /\ thread = "listening"
    /\ thread' = "stopped"
    /\ UNCHANGED <<now, sender_vars, inflight, receiver_vars, answered, result>>

\* Mutant: no reply yet counts as quiet.
expired_at_once ==
    now >= HardCap \/ (IF last_seen = NONE THEN TRUE ELSE now >= last_seen + Quiet)

expired == now >= HardCap \/ (last_seen # NONE /\ now >= last_seen + Quiet)

Close ==
    /\ receiver = "collecting" /\ expired
    /\ receiver' = "closed"
    /\ UNCHANGED <<now, sender_vars, inflight, thread, last_seen, entries, answered, result>>

\* Mutant: the wait for the task does not last as long as the task may.
Return_impatient ==
    /\ phase = "joining"
    /\ phase' = "returned"
    /\ result' = IF receiver = "closed" THEN entries ELSE {}
    /\ UNCHANGED <<now, i, due, inflight, thread, receiver_vars, answered>>

\* Mutant: the thread, which reads the socket without a timeout, is joined too.
Return_joins_thread ==
    /\ phase = "joining" /\ thread = "stopped"
    /\ phase' = "returned"
    /\ receiver = "closed" /\ result' = entries
    /\ UNCHANGED <<now, i, due, inflight, thread, receiver_vars, answered>>

\* The task's entries, or nothing if it did not end in time.
Return ==
    /\ phase = "joining"
    /\ phase' = "returned"
    /\ receiver = "collecting" => now = due
    /\ result' = IF receiver = "closed" THEN entries ELSE {}
    /\ UNCHANGED <<now, i, due, inflight, thread, receiver_vars, answered>>

\* Time passes when nothing is due.
Tick ==
    /\ phase # "returned"
    /\ now < due
    /\ phase = "joining" => receiver = "collecting"
    /\ \A r \in inflight : r[2] > now
    /\ receiver = "collecting" => ~ expired
    /\ now' = now + 1
    /\ UNCHANGED <<sender_vars, inflight, thread, receiver_vars, answered, result>>

Step ==
    \/ Send \/ Repeat \/ Await \/ Return
    \/ \E r \in inflight : Reply(r)
    \/ Close \/ Tick

Next == Step \/ ThreadStops

Spec == Init /\ [][Next]_vars

\* Timers fire, and runnable tasks and threads run; the socket need not fail.
FairSpec == Spec /\ WF_vars(Step)

-----------------------------------------------------------------------------
\* The variables have their types.
TypeOK ==
    /\ now \in Nat /\ due \in Nat /\ i \in 1..(Blocks + 1)
    /\ phase \in {"first", "retry", "joining", "returned"}
    /\ inflight \subseteq (Live \X Nat \X {"first", "retry"})
    /\ thread \in {"listening", "stopped"}
    /\ receiver \in {"collecting", "closed"}
    /\ last_seen \in Nat \cup {NONE}
    /\ entries \subseteq Live /\ answered \subseteq Live /\ result \subseteq Live

\* Every host whose reply to the first request came in is reported, if the
\* first pass is over before the quiet window of its first reply: neither
\* deadline of the receiver, nor the wait for it, cuts the first pass off.
FirstPassReported == phase = "returned" => answered \subseteq result

\* The wait for the task never runs out: what it collected is returned.
NothingDiscarded == phase = "returned" => result = entries

\* scan_subnet returns, even when nothing answers and the socket fails.
ScanReturns == <>(phase = "returned")
=============================================================================
