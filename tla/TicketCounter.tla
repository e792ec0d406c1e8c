--------------------------- MODULE TicketCounter ---------------------------
(***************************************************************************)
(* What a port allocator promises its callers: each allocation takes the   *)
(* next port of a ring in one step.                                        *)
(***************************************************************************)
EXTENDS Integers

CONSTANTS Threads, Lo, Hi, NoPort

VARIABLES
    last,   \* the port granted last
    got     \* the port each caller was granted in its call

succ(port) == IF port >= Hi THEN Lo ELSE port + 1

Init == last = Lo /\ got = [t \in Threads |-> NoPort]

Grant(t) ==
    /\ got[t] = NoPort
    /\ last' = succ(last)
    /\ got' = [got EXCEPT ![t] = succ(last)]

Return(t) ==
    /\ got[t] # NoPort
    /\ got' = [got EXCEPT ![t] = NoPort]
    /\ UNCHANGED last

Next == \E t \in Threads : Grant(t) \/ Return(t)

Spec == Init /\ [][Next]_<<last, got>>
=============================================================================
