------------------------- MODULE RegistryFileProofs -------------------------
(***************************************************************************)
(* Proofs about RegistryFile, for any sets of commands and edits.          *)
(***************************************************************************)
EXTENDS RegistryFile, TLAPS

LEMMA LoadType == ASSUME NEW f \in Files PROVE load(f) \in SUBSET Edits
BY DEF load, Files

LEMMA LoadValues ==
    /\ \A E : load(whole(E)) = E
    /\ \A k \in {"missing", "empty", "garbled"} : load(no_registry(k)) = {}
BY DEF load, whole, no_registry

LEMMA FileValues ==
    /\ \A E \in SUBSET Edits : whole(E) \in Files
    /\ \A k \in {"missing", "empty", "garbled"} : no_registry(k) \in Files
BY DEF Files, whole, no_registry

LEMMA TypeStep == TypeOK /\ [Next]_vars => TypeOK'
<1> SUFFICES ASSUME TypeOK, [Next]_vars PROVE TypeOK'
  OBVIOUS
<1> USE DEF TypeOK
<1>1. ASSUME NEW p \in Commands, Load(p) PROVE TypeOK'
  BY <1>1, LoadType DEF Load
<1>2. ASSUME NEW p \in Commands, NEW e \in Edits, Edit(p, e) PROVE TypeOK'
  BY <1>2 DEF Edit
<1>3. ASSUME NEW p \in Commands, Truncate(p) PROVE TypeOK'
  BY <1>3, FileValues DEF Truncate
<1>4. ASSUME NEW p \in Commands, Write(p) PROVE TypeOK'
  BY <1>4, FileValues DEF Write, after_save
<1>5. ASSUME NEW p \in Commands, FailToOpen(p) PROVE TypeOK'
  BY <1>5 DEF FailToOpen, after_save
<1>6. ASSUME NEW p \in Commands, FailToWrite(p) PROVE TypeOK'
  BY <1>6, FileValues DEF FailToWrite, after_save
<1>7. ASSUME NEW p \in Commands, Crash(p) PROVE TypeOK'
  BY <1>7 DEF Crash
<1>8. ASSUME NEW p \in Commands, Quit(p) PROVE TypeOK'
  BY <1>8 DEF Quit
<1>9. CASE UNCHANGED vars
  BY <1>9 DEF vars
<1> QED
  BY <1>1, <1>2, <1>3, <1>4, <1>5, <1>6, <1>7, <1>8, <1>9 DEF Next

LEMMA InitType == Init => TypeOK
BY FileValues DEF Init, TypeOK

\* The file and the registries in memory keep their types.
THEOREM FileTypeCorrect == Spec => []TypeOK
BY InitType, TypeStep, PTL DEF Spec

-----------------------------------------------------------------------------
\* A registry closed under what its edits were made on top of.
Closed(S) == S \subseteq made /\ \A e \in S : before[e] \subseteq S

\* Memory and file are closed at all times: load and save copy one to the
\* other, and an edit adds itself to the registry it was made on top of.
ClosedInv == Closed(load(file)) /\ \A p \in Commands : Closed(mem[p])

LEMMA ClosedStep == TypeOK /\ ClosedInv /\ [Next]_vars => ClosedInv'
<1> SUFFICES ASSUME TypeOK, ClosedInv, [Next]_vars PROVE ClosedInv'
  OBVIOUS
<1>1. ASSUME NEW p \in Commands, Load(p) PROVE ClosedInv'
  BY <1>1 DEF Load, ClosedInv, Closed, TypeOK
<1>2. ASSUME NEW p \in Commands, NEW e \in Edits, Edit(p, e) PROVE ClosedInv'
  <2>1. /\ e \notin made /\ made' = made \cup {e} /\ file' = file
        /\ mem' = [mem EXCEPT ![p] = @ \cup {e}]
        /\ before' = [before EXCEPT ![e] = mem[p]]
    BY <1>2 DEF Edit
  <2>2. \A S : Closed(S) => Closed(S)'
    BY <2>1 DEF Closed, TypeOK
  <2>3. Closed(mem[p])
    BY DEF ClosedInv
  <2>4. Closed(mem[p] \cup {e})'
    BY <2>1, <2>3 DEF Closed, TypeOK
  <2> QED
    BY <2>1, <2>2, <2>4 DEF ClosedInv, Closed, TypeOK
<1>3. ASSUME NEW p \in Commands, Truncate(p) PROVE ClosedInv'
  BY <1>3, LoadValues DEF Truncate, ClosedInv, Closed
<1>4. ASSUME NEW p \in Commands, Write(p) PROVE ClosedInv'
  BY <1>4, LoadValues DEF Write, ClosedInv, Closed
<1>5. ASSUME NEW p \in Commands, FailToOpen(p) PROVE ClosedInv'
  BY <1>5 DEF FailToOpen, ClosedInv, Closed
<1>6. ASSUME NEW p \in Commands, FailToWrite(p) PROVE ClosedInv'
  BY <1>6, LoadValues DEF FailToWrite, ClosedInv, Closed
<1>7. ASSUME NEW p \in Commands, Crash(p) PROVE ClosedInv'
  BY <1>7 DEF Crash, ClosedInv, Closed
<1>8. ASSUME NEW p \in Commands, Quit(p) PROVE ClosedInv'
  BY <1>8 DEF Quit, ClosedInv, Closed
<1>9. CASE UNCHANGED vars
  BY <1>9 DEF vars, ClosedInv, Closed
<1> QED
  BY <1>1, <1>2, <1>3, <1>4, <1>5, <1>6, <1>7, <1>8, <1>9 DEF Next

\* Whatever commands overlap, fail or die, no load returns a mixture: each
\* edit comes with those it was made on top of.
THEOREM ClosedCorrect == Spec => []CausallyClosed
<1>1. Init => ClosedInv
  BY LoadValues DEF Init, ClosedInv, Closed
<1>2. ClosedInv => CausallyClosed
  BY DEF ClosedInv, Closed, CausallyClosed
<1> QED
  BY <1>1, <1>2, InitType, TypeStep, ClosedStep, PTL DEF Spec

-----------------------------------------------------------------------------
\* What was overlapped or wiped stays so, and a command that starts alone
\* starts when all others are off.
LEMMA Intactness ==
    ASSUME TypeOK, [Next]_vars, intact'
    PROVE  /\ intact
           /\ \A p \in Commands : Load(p) => \A q \in Commands : pc[q] = "off"
           /\ \A p \in Commands : ~ FailToWrite(p)
           /\ \A p \in Commands : Crash(p) => pc[p] # "writing"
<1>1. ~ overlapped' /\ ~ wiped'
  BY DEF intact
<1>2. ASSUME NEW p \in Commands, Load(p)
      PROVE  intact /\ \A q \in Commands : pc[q] = "off"
  BY <1>1, <1>2 DEF Load, intact
<1>3. ASSUME NEW p \in Commands, Crash(p) PROVE intact /\ pc[p] # "writing"
  BY <1>1, <1>3 DEF Crash, intact
<1>4. ASSUME NEW p \in Commands, FailToWrite(p) PROVE FALSE
  BY <1>1, <1>4 DEF FailToWrite
<1>5. ASSUME UNCHANGED <<overlapped, wiped>> PROVE intact
  BY <1>1, <1>5 DEF intact
<1>6. ASSUME NEW p \in Commands,
             (\E e \in Edits : Edit(p, e)) \/ Truncate(p) \/ Write(p) \/ FailToOpen(p) \/ Quit(p)
      PROVE  intact
  BY <1>5, <1>6 DEF Edit, Truncate, Write, FailToOpen, Quit
<1>7. ASSUME UNCHANGED vars PROVE intact
  BY <1>5, <1>7 DEF vars
<1>8. intact
  BY <1>2, <1>3, <1>4, <1>6, <1>7 DEF Next
<1> QED
  BY <1>2, <1>3, <1>4, <1>8

\* One command at a time.
Solo == \A p, q \in Commands : pc[p] # "off" /\ pc[q] # "off" => p = q

\* While a command holds the registry, the file is the registry it has in
\* memory without its unsaved edits, or the truncated file it will write.
BaseKept ==
    \A p \in Commands :
        /\ pc[p] # "off" => unsaved[p] \subseteq mem[p]
        /\ mem[p] \subseteq made
        /\ pc[p] \in {"loaded", "edited"} => load(file) = mem[p] \ unsaved[p]
        /\ pc[p] = "writing" => file.kind = "empty"

\* What was acknowledged is in the file, or in the memory of the command that
\* is rewriting it.
Kept ==
    /\ (\A p \in Commands : pc[p] # "writing") => acked \subseteq load(file)
    /\ \A p \in Commands : pc[p] = "writing" => acked \subseteq mem[p] \ unsaved[p]

Whole == Solo /\ BaseKept /\ Kept /\ load(file) \subseteq made

\* The inductive invariant: all this holds until commands overlap or a save is
\* cut short.
AtomicInv == intact => Whole

LEMMA AtomicStep == TypeOK /\ AtomicInv /\ [Next]_vars => AtomicInv' /\ [L!Next]_<<Effective, intact>>
<1> SUFFICES ASSUME TypeOK, AtomicInv, [Next]_vars
             PROVE  AtomicInv' /\ [L!Next]_<<Effective, intact>>
  OBVIOUS
<1>a. CASE ~ intact'
  BY <1>a DEF AtomicInv, L!Next, L!Spoil
<1>b. CASE intact'
  <2>0. /\ intact /\ Whole
        /\ \A p \in Commands : Load(p) => \A q \in Commands : pc[q] = "off"
        /\ \A p \in Commands : ~ FailToWrite(p)
        /\ \A p \in Commands : Crash(p) => pc[p] # "writing"
    BY <1>b, Intactness DEF AtomicInv
  <2>w. ASSUME NEW p \in Commands, pc[p] = "writing"
        PROVE  Effective = mem[p] \ unsaved[p]
    <3>1. {q \in Commands : pc[q] = "writing"} = {p}
      BY <2>0, <2>w DEF Whole, Solo
    <3> QED
      BY <2>w, <3>1 DEF Effective
  <2> USE DEF Whole, Solo, BaseKept, Kept, TypeOK
  <2>1. ASSUME NEW p \in Commands, Load(p) PROVE Whole' /\ Effective' = Effective
    BY <2>0, <2>1 DEF Load, Effective
  <2>2. ASSUME NEW p \in Commands, NEW e \in Edits, Edit(p, e)
        PROVE  Whole' /\ Effective' = Effective
    <3>1. /\ pc[p] \in {"loaded", "edited"} /\ e \notin made /\ file' = file
          /\ made' = made \cup {e} /\ pc' = [pc EXCEPT ![p] = "edited"]
          /\ mem' = [mem EXCEPT ![p] = @ \cup {e}]
          /\ unsaved' = [unsaved EXCEPT ![p] = @ \cup {e}] /\ acked' = acked
      BY <2>2 DEF Edit
    <3>2. \A q \in Commands : q # p => pc[q] = "off"
      BY <2>0, <3>1
    <3>3. (mem[p] \cup {e}) \ (unsaved[p] \cup {e}) = mem[p] \ unsaved[p]
      BY <2>0, <3>1
    <3>4. Whole'
      BY <2>0, <3>1, <3>2, <3>3
    <3>5. Effective = load(file) /\ Effective' = load(file)
      BY <3>1, <3>2 DEF Effective
    <3> QED
      BY <3>4, <3>5
  <2>3. ASSUME NEW p \in Commands, Truncate(p) PROVE Whole' /\ Effective' = Effective
    <3>1. /\ pc[p] = "edited" /\ pc' = [pc EXCEPT ![p] = "writing"]
          /\ mem' = mem /\ unsaved' = unsaved /\ made' = made /\ acked' = acked
      BY <2>3 DEF Truncate
    <3>2. load(file') = {} /\ file'.kind = "empty"
      BY <2>3, LoadValues DEF Truncate, no_registry
    <3>3. \A q \in Commands : q # p => pc[q] = "off"
      BY <2>0, <3>1
    <3>4. Whole'
      BY <2>0, <3>1, <3>2, <3>3
    <3>5. Effective = mem[p] \ unsaved[p]
      BY <2>0, <3>1, <3>3 DEF Effective
    <3>6. {q \in Commands : pc'[q] = "writing"} = {p}
      BY <3>1, <3>3
    <3>7. Effective' = mem[p] \ unsaved[p]
      BY <3>1, <3>6 DEF Effective
    <3> QED
      BY <3>4, <3>5, <3>7
  <2>4. ASSUME NEW p \in Commands, Write(p)
        PROVE  Whole' /\ Effective' = Effective \cup unsaved[p]
    <3>1. /\ pc[p] = "writing" /\ pc'[p] \in {"loaded", "off"}
          /\ mem' = mem /\ made' = made /\ unsaved' = [unsaved EXCEPT ![p] = {}]
          /\ acked' = acked \cup mem[p]
          /\ \A q \in Commands : q # p => pc[q] = "off" /\ pc'[q] = "off"
      BY <2>0, <2>4 DEF Write, after_save
    <3>2. load(file') = mem[p]
      BY <2>0, <2>4, LoadValues DEF Write
    <3>3. Whole'
      BY <2>0, <3>1, <3>2
    <3>4. Effective' = mem[p]
      BY <3>1, <3>2 DEF Effective
    <3>5. Effective \cup unsaved[p] = mem[p]
      BY <2>0, <2>w, <3>1
    <3> QED
      BY <3>3, <3>4, <3>5
  <2>5. ASSUME NEW p \in Commands, FailToOpen(p) PROVE Whole' /\ Effective' = Effective
    BY <2>0, <2>5 DEF FailToOpen, after_save, Effective
  <2>6. ASSUME NEW p \in Commands, Crash(p) PROVE Whole' /\ Effective' = Effective
    BY <2>0, <2>6 DEF Crash, Effective
  <2>7. ASSUME NEW p \in Commands, Quit(p) PROVE Whole' /\ Effective' = Effective
    BY <2>0, <2>7 DEF Quit, Effective
  <2>8. ASSUME UNCHANGED vars PROVE Whole' /\ Effective' = Effective
    BY <2>0, <2>8 DEF vars, Effective
  <2>9. ASSUME NEW p \in Commands, Write(p) PROVE L!Next
    <3>1. unsaved[p] \in SUBSET Edits
      OBVIOUS
    <3> QED
      BY <1>b, <2>0, <2>4, <2>9, <3>1 DEF L!Next, L!Commit
  <2>10. Whole' /\ (Effective' = Effective \/ L!Next)
    BY <2>0, <2>1, <2>2, <2>3, <2>4, <2>5, <2>6, <2>7, <2>8, <2>9 DEF Next
  <2>11. intact' = intact
    BY <1>b, <2>0 DEF intact
  <2> QED
    BY <2>10, <2>11 DEF AtomicInv
<1> QED
  BY <1>a, <1>b

LEMMA AtomicInit == Init => AtomicInv /\ L!Init
<1> SUFFICES ASSUME Init PROVE AtomicInv /\ L!Init
  OBVIOUS
<1>1. load(file) = {}
  BY LoadValues DEF Init
<1>2. AtomicInv
  BY <1>1 DEF Init, AtomicInv, Whole, Solo, BaseKept, Kept
<1>3. Effective = {}
  BY <1>1 DEF Init, Effective
<1>4. intact = TRUE
  BY DEF Init, intact
<1> QED
  BY <1>2, <1>3, <1>4 DEF L!Init

\* Only overlapping commands, or a fault inside the truncate-and-write window
\* of a save, lose an edit that a save acknowledged.
THEOREM LossCorrect == Spec => []LostOnlyByWipe
<1>1. AtomicInv => LostOnlyByWipe
  BY DEF AtomicInv, Whole, Kept, LostOnlyByWipe
<1>2. TypeOK /\ AtomicInv /\ [Next]_vars => AtomicInv'
  BY AtomicStep
<1> QED
  BY <1>1, <1>2, AtomicInit, InitType, TypeStep, PTL DEF Spec

\* Until then the file implements the ledger: truncation is invisible, each
\* save commits its edits at once, and other faults change nothing.
THEOREM RefinesLedger == Spec => CommitsAtomically
<1>1. Init => AtomicInv /\ L!Init
  BY AtomicInit
<1>2. TypeOK /\ AtomicInv /\ [Next]_vars => AtomicInv' /\ [L!Next]_<<Effective, intact>>
  BY AtomicStep
<1> QED
  BY <1>1, <1>2, InitType, TypeStep, PTL DEF Spec, CommitsAtomically, L!Spec
=============================================================================
