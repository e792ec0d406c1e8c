------------------------------- MODULE Ledger -------------------------------
(***************************************************************************)
(* What a persistent registry promises (README.md:11): the set of edits it *)
(* holds only grows, and each save adds its edits in one step; until it is *)
(* spoiled, after which it promises nothing.                               *)
(***************************************************************************)
CONSTANT Edits     \* what upsert and set_tag do to the registry

VARIABLES
    durable,       \* the edits that the next command will load
    intact

Init == durable = {} /\ intact = TRUE

Commit(E) == intact /\ intact' /\ durable' = durable \cup E

Spoil == ~ intact'

Next == (\E E \in SUBSET Edits : Commit(E)) \/ Spoil

Spec == Init /\ [][Next]_<<durable, intact>>
=============================================================================
