---------------------------- MODULE RegistryFile ----------------------------
(***************************************************************************)
(* devices.json and the gannet commands that share it.  Store::load turns  *)
(* a missing or unparsable file into an empty registry; Store::save is     *)
(* std::fs::write, which truncates the file and then writes it.  There is  *)
(* no lock: scan, survey and tag load, edit and save once, listen loads    *)
(* once and saves after every edit (src/src/cli/commands.rs,               *)
(* src/src/discovery/passive.rs).                                          *)
(*                                                                         *)
(* Abstraction.  A registry is the set of the edits (upserts, taggings)    *)
(* made to it; each edit is made once, which bounds the model.             *)
(***************************************************************************)
CONSTANTS
    Edits,
    Commands,    \* processes: one invocation of gannet after another
    Listeners    \* those that run `gannet listen`

ASSUME FileAssumption == Listeners \subseteq Commands

VARIABLES
    file,        \* devices.json
    pc,          \* where each command is
    mem,         \* its Store
    unsaved,     \* the edits it made since its last save
    made,        \* the edits made so far
    before,      \* what its author's registry held when an edit was made
    acked,       \* the edits in registries whose save returned Ok
    overlapped,  \* a command was started while another one ran
    wiped        \* a fault hit a command between truncation and end of write

vars == <<file, pc, mem, unsaved, made, before, acked, overlapped, wiped>>

\* The file is absent, just truncated, unparsable, or a whole registry.
Files == [kind : {"missing", "empty", "garbled", "whole"}, edits : SUBSET Edits]

no_registry(k) == [kind |-> k, edits |-> {}]
whole(E) == [kind |-> "whole", edits |-> E]

\* Mutant: the registry starts empty in place of being read.
load_nothing(f) == {}

load(f) == IF f.kind = "whole" THEN f.edits ELSE {}

Init ==
    /\ file = no_registry("missing")
    /\ pc = [p \in Commands |-> "off"]
    /\ mem = [p \in Commands |-> {}]
    /\ unsaved = [p \in Commands |-> {}]
    /\ made = {} /\ acked = {}
    /\ before = [e \in Edits |-> {}]
    /\ overlapped = FALSE /\ wiped = FALSE

\* Store::load at the start of a command.
Load(p) ==
    /\ pc[p] = "off"
    /\ mem' = [mem EXCEPT ![p] = load(file)]
    /\ unsaved' = [unsaved EXCEPT ![p] = {}]
    /\ pc' = [pc EXCEPT ![p] = "loaded"]
    /\ overlapped' = (overlapped \/ \E q \in Commands : pc[q] # "off")
    /\ UNCHANGED <<file, made, before, acked, wiped>>

\* upsert or set_tag; the listener saves before its next edit.
Edit(p, e) ==
    /\ pc[p] \in IF p \in Listeners THEN {"loaded"} ELSE {"loaded", "edited"}
    /\ e \notin made
    /\ made' = made \cup {e}
    /\ before' = [before EXCEPT ![e] = mem[p]]
    /\ mem' = [mem EXCEPT ![p] = @ \cup {e}]
    /\ unsaved' = [unsaved EXCEPT ![p] = @ \cup {e}]
    /\ pc' = [pc EXCEPT ![p] = "edited"]
    /\ UNCHANGED <<file, acked, overlapped, wiped>>

\* First half of save: the directory, the JSON, and open with O_TRUNC.
Truncate(p) ==
    /\ pc[p] = "edited"
    /\ file' = no_registry("empty")
    /\ pc' = [pc EXCEPT ![p] = "writing"]
    /\ UNCHANGED <<mem, unsaved, made, before, acked, overlapped, wiped>>

\* After a save the listener goes on, any other command ends.
after_save(p) ==
    pc' = [pc EXCEPT ![p] = IF p \in Listeners THEN "loaded" ELSE "off"]

\* Mutant: only what changed since the last save is written.
Write_delta(p) ==
    /\ pc[p] = "writing"
    /\ \/ file' = whole(unsaved[p])
       \/ file.kind # "empty" /\ file' = no_registry("garbled")
    /\ acked' = acked \cup mem[p]
    /\ unsaved' = [unsaved EXCEPT ![p] = {}]
    /\ after_save(p)
    /\ UNCHANGED <<mem, made, before, overlapped, wiped>>

\* Second half of save.  If another command wrote since the truncation, its
\* longer text may stick out behind this one's.
Write(p) ==
    /\ pc[p] = "writing"
    /\ \/ file' = whole(mem[p])
       \/ file.kind # "empty" /\ file' = no_registry("garbled")
    /\ acked' = acked \cup mem[p]
    /\ unsaved' = [unsaved EXCEPT ![p] = {}]
    /\ after_save(p)
    /\ UNCHANGED <<mem, made, before, overlapped, wiped>>

\* save returns an error before it has touched the file; the edits stay in the
\* listener's memory, and its next save includes them.
FailToOpen(p) ==
    /\ pc[p] = "edited"
    /\ after_save(p)
    /\ UNCHANGED <<file, mem, unsaved, made, before, acked, overlapped, wiped>>

\* save returns an error after it has truncated the file.
FailToWrite(p) ==
    /\ pc[p] = "writing"
    /\ file' \in {file, no_registry("garbled")}
    /\ wiped' = TRUE
    /\ after_save(p)
    /\ UNCHANGED <<mem, unsaved, made, before, acked, overlapped>>

\* The process dies.
Crash(p) ==
    /\ pc[p] # "off"
    /\ pc' = [pc EXCEPT ![p] = "off"]
    /\ wiped' = (wiped \/ pc[p] = "writing")
    /\ UNCHANGED <<file, mem, unsaved, made, before, acked, overlapped>>

\* A command that has nothing to save ends.
Quit(p) ==
    /\ pc[p] = "loaded"
    /\ pc' = [pc EXCEPT ![p] = "off"]
    /\ UNCHANGED <<file, mem, unsaved, made, before, acked, overlapped, wiped>>

Next ==
    \E p \in Commands :
        \/ Load(p)
        \/ \E e \in Edits : Edit(p, e)
        \/ Truncate(p) \/ Write(p)
        \/ FailToOpen(p) \/ FailToWrite(p) \/ Crash(p)
        \/ Quit(p)

Spec == Init /\ [][Next]_vars

-----------------------------------------------------------------------------
(***************************************************************************)
(* Properties.                                                             *)
(***************************************************************************)

\* The variables have their types.
TypeOK ==
    /\ file \in Files
    /\ pc \in [Commands -> {"off", "loaded", "edited", "writing"}]
    /\ mem \in [Commands -> SUBSET Edits]
    /\ unsaved \in [Commands -> SUBSET Edits]
    /\ made \in SUBSET Edits /\ acked \in SUBSET Edits
    /\ before \in [Edits -> SUBSET Edits]
    /\ overlapped \in BOOLEAN /\ wiped \in BOOLEAN

\* Commands ran one after the other, and no save was cut short.
intact == ~ overlapped /\ ~ wiped

\* Only two things lose an edit that a save has reported as written (the store
\* is "Persistent", README.md:11 and store.rs:2): commands that overlap, and a
\* fault between the truncation and the end of the write.  A crash at any other
\* moment, or a save that fails before it touches the file, loses nothing.
LostOnlyByWipe ==
    (intact /\ \A p \in Commands : pc[p] # "writing") => acked \subseteq load(file)

\* However commands overlap, crash and overwrite each other's file, what load
\* returns is a registry that a command held: no edit appears in it without
\* those its author's registry held when it was made.
CausallyClosed == \A e \in load(file) : before[e] \subseteq load(file)

\* What the next command would load if the save under way, if any, had not
\* begun: the truncated file stands for the registry its writer loaded.
Effective ==
    IF \E p \in Commands : pc[p] = "writing"
    THEN UNION {mem[p] \ unsaved[p] : p \in {q \in Commands : pc[q] = "writing"}}
    ELSE load(file)

\* As long as the file is intact, load-edit-truncate-write is an atomic commit
\* to a registry that never loses an edit: truncation is invisible, and crashes
\* and failing saves outside the window leave the old registry.
L == INSTANCE Ledger WITH durable <- Effective, intact <- intact
CommitsAtomically == L!Spec
=============================================================================
