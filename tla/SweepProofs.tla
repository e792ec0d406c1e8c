----------------------------- MODULE SweepProofs -----------------------------
(***************************************************************************)
(* Proofs about Sweep, for any number of targets, ports and permits.       *)
(***************************************************************************)
EXTENDS Sweep, FiniteSetTheorems, TLAPS

\* The tasks that hold a permit, the ones that hold a clone of the Arc, and the
\* TCP probes that have taken a source port.
Holding == {t \in Targets : task[t] \in {"probing", "joined_icmp"}}
Unfinished == {t \in Targets : task[t] # "done"}
Started == {p \in Probes : tcp[p] \in {"running", "yes", "no"}}

\* permits and refs count what they stand for, and the Arc is unwrapped only
\* when every task is done.
CountInv ==
    /\ permits = MaxConcurrent - Cardinality(Holding)
    /\ refs = 1 + Cardinality(Unfinished)
    /\ main # "panicked"

\* A probe of a queued target has not begun; the threads a finished task was
\* waiting for have ended, or one of them has put the target into the set.
StageInv ==
    /\ \A t \in Targets :
          /\ task[t] = "queued" =>
                /\ icmp[t] = "off"
                /\ \A port \in TcpPorts : tcp[<<t, port>>] = "off"
          /\ task[t] = "joined_icmp" => icmp[t] = "no"
          /\ task[t] = "done" =>
                \/ t \in found
                \/ /\ icmp[t] = "no"
                   /\ \A port \in TcpPorts : tcp[<<t, port>>] = "no"
    /\ main = "returned" => \A t \in Targets : task[t] = "done"

\* How many ports were taken since q was, for fewer than the size of the range.
Size == Hi - Lo + 1
age(q) == IF q <= PORT THEN PORT - q ELSE PORT - q + Size

\* Within the first turn of the counter the probes that have started hold
\* different ports among those taken; so a probe hears no answer but its own, and
\* strays.
PortInv ==
    /\ \A p \in Started : src_port[p] \in Lo..Hi /\ age(src_port[p]) < Taken
    /\ \A p, q \in Started : src_port[p] = src_port[q] => p = q
    /\ \A p \in Probes : tcp[p] = "yes" => p \in answered \cup strays
heard(t) == answers(t) \/ \E port \in TcpPorts : <<t, port>> \in strays
Credited == \A t \in found : heard(t)

Inv == TypeOK /\ CountInv /\ StageInv
RangeInv == Taken <= Size => PortInv /\ Credited

-----------------------------------------------------------------------------
LEMMA SweepFinite ==
    /\ IsFiniteSet(Holding) /\ Cardinality(Holding) \in Nat
    /\ IsFiniteSet(Unfinished) /\ Cardinality(Unfinished) \in 0..Cardinality(Targets)
    /\ Cardinality(Targets) \in Nat
<1>1. Holding \in SUBSET Targets /\ Unfinished \in SUBSET Targets
  BY DEF Holding, Unfinished
<1>2. IsFiniteSet(Holding) /\ IsFiniteSet(Unfinished)
      /\ Cardinality(Unfinished) <= Cardinality(Targets)
  BY <1>1, FS_Subset, SweepAssumption
<1>3. Cardinality(Holding) \in Nat /\ Cardinality(Unfinished) \in Nat /\ Cardinality(Targets) \in Nat
  BY <1>2, FS_CardinalityType, SweepAssumption
<1> QED
  BY <1>2, <1>3

LEMMA SweepInit == Init => Inv
<1> SUFFICES ASSUME Init PROVE Inv
  OBVIOUS
<1> USE SweepAssumption
<1>1. Holding = {} /\ Unfinished = Targets
  BY DEF Init, Holding, Unfinished
<1>2. CountInv
  BY <1>1, FS_EmptySet DEF Init, CountInv
<1>3. TypeOK
  BY FS_CardinalityType DEF Init, TypeOK, Probes
<1>4. StageInv
  BY DEF Init, StageInv, Probes
<1> QED
  BY <1>2, <1>3, <1>4 DEF Inv

\* A task that takes a permit, or ends, changes the two counts by itself alone.
LEMMA AcquireCounts ==
    ASSUME TypeOK, CountInv, NEW t \in Targets, Acquire(t)
    PROVE  CountInv' /\ permits' \in 0..MaxConcurrent /\ refs' = refs
<1>1. /\ task[t] = "queued" /\ permits > 0 /\ permits' = permits - 1
      /\ task' = [task EXCEPT ![t] = "probing"] /\ UNCHANGED <<refs, main>>
  BY DEF Acquire
<1>2. Holding' = Holding \cup {t} /\ t \notin Holding /\ Unfinished' = Unfinished
  BY <1>1 DEF TypeOK, Holding, Unfinished
<1>3. Cardinality(Holding') = Cardinality(Holding) + 1
  BY <1>2, SweepFinite, FS_AddElement
<1> QED
  BY <1>1, <1>2, <1>3, SweepFinite, SweepAssumption DEF TypeOK, CountInv

LEMMA FinishCounts ==
    ASSUME TypeOK, CountInv, NEW t \in Targets, finish(t), main' = main,
           task[t] \in {"probing", "joined_icmp"}
    PROVE  /\ CountInv' /\ permits' \in 0..MaxConcurrent
           /\ refs' \in 0..(1 + Cardinality(Targets))
<1>1. /\ permits' = permits + 1 /\ refs' = refs - 1
      /\ task' = [task EXCEPT ![t] = "done"]
  BY DEF finish
<1>2. /\ Holding' = Holding \ {t} /\ t \in Holding
      /\ Unfinished' = Unfinished \ {t} /\ t \in Unfinished
  BY <1>1 DEF TypeOK, Holding, Unfinished
<1>3. /\ Cardinality(Holding') = Cardinality(Holding) - 1
      /\ Cardinality(Unfinished') = Cardinality(Unfinished) - 1
  BY <1>2, SweepFinite, FS_RemoveElement
<1>4. Cardinality(Holding') \in Nat /\ Cardinality(Unfinished') \in Nat
  <2>1. IsFiniteSet(Holding') /\ IsFiniteSet(Unfinished')
    BY <1>2, SweepFinite, FS_RemoveElement
  <2> QED
    BY <2>1, FS_CardinalityType
<1> QED
  BY <1>1, <1>3, <1>4, SweepFinite, SweepAssumption DEF TypeOK, CountInv

LEMMA SweepStep == Inv /\ [Next]_vars => Inv'
<1> SUFFICES ASSUME Inv, [Next]_vars PROVE Inv'
  OBVIOUS
<1> USE SweepAssumption DEF Inv
<1>0. \A t \in Targets, port \in TcpPorts : <<t, port>> \in Probes
  BY DEF Probes
<1>1. ASSUME NEW t \in Targets, Acquire(t) PROVE Inv'
  <2>1. CountInv' /\ permits' \in 0..MaxConcurrent /\ refs' = refs
    BY <1>1, AcquireCounts
  <2>2. TypeOK'
    BY <1>1, <2>1 DEF Acquire, TypeOK
  <2>3. StageInv'
    BY <1>0, <1>1 DEF Acquire, TypeOK, StageInv
  <2> QED
    BY <2>1, <2>2, <2>3
<1>2. ASSUME NEW t \in Targets, IcmpProbe(t) PROVE Inv'
  <2>1. CountInv'
    BY <1>2 DEF IcmpProbe, CountInv, Holding, Unfinished
  <2>2. TypeOK'
    BY <1>2 DEF IcmpProbe, TypeOK
  <2>3. StageInv'
    BY <1>2 DEF IcmpProbe, TypeOK, StageInv
  <2> QED
    BY <2>1, <2>2, <2>3
<1>3. ASSUME NEW t \in Targets, JoinIcmp(t) PROVE Inv'
  <2>1. CASE icmp[t] = "yes" /\ found' = found \cup {t} /\ finish(t)
    <3>1. /\ CountInv' /\ permits' \in 0..MaxConcurrent
          /\ refs' \in 0..(1 + Cardinality(Targets))
      BY <1>3, <2>1, FinishCounts DEF JoinIcmp
    <3>2. TypeOK'
      BY <1>3, <2>1, <3>1 DEF JoinIcmp, finish, TypeOK
    <3>3. StageInv'
      BY <1>3, <2>1 DEF JoinIcmp, finish, TypeOK, StageInv
    <3> QED
      BY <3>1, <3>2, <3>3
  <2>2. CASE /\ icmp[t] = "no" /\ task' = [task EXCEPT ![t] = "joined_icmp"]
             /\ UNCHANGED <<found, permits, refs>>
    <3>1. Holding' = Holding /\ Unfinished' = Unfinished
      BY <1>3, <2>2 DEF JoinIcmp, TypeOK, Holding, Unfinished
    <3>2. CountInv'
      BY <1>3, <2>2, <3>1 DEF JoinIcmp, CountInv
    <3>3. TypeOK'
      BY <1>3, <2>2 DEF JoinIcmp, TypeOK
    <3>4. StageInv'
      BY <1>3, <2>2 DEF JoinIcmp, TypeOK, StageInv
    <3> QED
      BY <3>2, <3>3, <3>4
  <2> QED
    BY <1>3, <2>1, <2>2 DEF JoinIcmp
<1>4. ASSUME NEW t \in Targets, JoinTcp(t) PROVE Inv'
  <2>1. /\ task[t] = "joined_icmp" /\ finish(t)
        /\ \/ found' = found \cup {t}
           \/ found' = found /\ \A port \in TcpPorts : tcp[<<t, port>>] = "no"
        /\ UNCHANGED <<skips, icmp, tcp, src_port, PORT, others, answered, strays, main>>
    BY <1>4 DEF JoinTcp
  <2>2. /\ CountInv' /\ permits' \in 0..MaxConcurrent
        /\ refs' \in 0..(1 + Cardinality(Targets))
    BY <2>1, FinishCounts
  <2>3. TypeOK'
    BY <2>1, <2>2 DEF finish, TypeOK
  <2>4. StageInv'
    BY <2>1 DEF finish, TypeOK, StageInv
  <2> QED
    BY <2>2, <2>3, <2>4
<1>5. ASSUME NEW p \in Probes, TcpStart(p) \/ TcpTimeout(p) PROVE Inv'
  <2>1. CountInv'
    BY <1>5 DEF TcpStart, TcpTimeout, CountInv, Holding, Unfinished
  <2>2. next_probe_port(PORT) \in Lo..Hi
    BY DEF TypeOK, next_probe_port
  <2>3. TypeOK'
    BY <1>5, <2>2 DEF TcpStart, TcpTimeout, TypeOK
  <2>4. /\ tcp[p] \in {"starting", "running"}
        /\ \A q \in Probes \ {p} : tcp'[q] = tcp[q]
        /\ UNCHANGED <<task, icmp, found, main>>
    BY <1>5 DEF TcpStart, TcpTimeout, TypeOK
  <2>5. StageInv'
    BY <1>0, <2>4 DEF StageInv
  <2> QED
    BY <2>1, <2>3, <2>5
<1>6. ASSUME NEW q \in Probes, Answer(q) PROVE Inv'
  <2>1. CountInv'
    BY <1>6 DEF Answer, CountInv, Holding, Unfinished
  <2>2. TypeOK'
    BY <1>6 DEF Answer, matching, TypeOK
  <2>3. /\ \A p \in Probes : tcp[p] \in {"off", "no"} => tcp'[p] = tcp[p]
        /\ UNCHANGED <<task, icmp, found, main>>
    BY <1>6 DEF Answer, matching
  <2>4. StageInv'
    BY <1>0, <2>3 DEF StageInv
  <2> QED
    BY <2>1, <2>2, <2>4
<1>9. ASSUME NEW port \in TcpPorts, NEW dst \in Lo..Hi, Stray(port, dst) PROVE Inv'
  <2>1. CountInv'
    BY <1>9 DEF Stray, CountInv, Holding, Unfinished
  <2>2. TypeOK'
    BY <1>9 DEF Stray, matching, TypeOK
  <2>3. /\ \A p \in Probes : tcp[p] \in {"off", "no"} => tcp'[p] = tcp[p]
        /\ UNCHANGED <<task, icmp, found, main>>
    BY <1>9 DEF Stray, matching
  <2>4. StageInv'
    BY <1>0, <2>3 DEF StageInv
  <2> QED
    BY <2>1, <2>2, <2>4
<1>10. CASE OthersTake
  <2>1. next_probe_port(PORT) \in Lo..Hi
    BY DEF TypeOK, next_probe_port
  <2>2. TypeOK'
    BY <1>10, <2>1 DEF OthersTake, TypeOK
  <2>3. CountInv' /\ StageInv'
    BY <1>10 DEF OthersTake, CountInv, StageInv, Holding, Unfinished
  <2> QED
    BY <2>2, <2>3
<1>7. CASE Return
  <2>1. Unfinished = {}
    BY <1>7 DEF Return, Unfinished
  <2>2. refs = 1
    BY <2>1, FS_EmptySet DEF CountInv
  <2>3. CountInv'
    BY <1>7, <2>2 DEF Return, CountInv, Holding, Unfinished
  <2>4. TypeOK' /\ StageInv'
    BY <1>7 DEF Return, TypeOK, StageInv
  <2> QED
    BY <2>3, <2>4
<1>8. CASE UNCHANGED vars
  BY <1>8 DEF vars, TypeOK, CountInv, StageInv, Holding, Unfinished
<1> QED
  BY <1>0, <1>1, <1>2, <1>3, <1>4, <1>5, <1>6, <1>7, <1>8, <1>9, <1>10 DEF Next, TargetStep

\* The semaphore never has fewer than no permits nor more than it began with,
\* and every source port is in the range.
THEOREM SweepTypeCorrect == Spec => []TypeOK
<1>1. Inv => TypeOK
  BY DEF Inv
<1> QED
  BY <1>1, SweepInit, SweepStep, PTL DEF Spec

\* Arc::try_unwrap(found).unwrap() never panics: however the detached TCP threads
\* are scheduled, every clone of the Arc is gone when the last task is joined.
THEOREM SweepNeverPanics == Spec => []NoPanic
<1>1. Inv => NoPanic
  BY DEF Inv, CountInv, NoPanic
<1> QED
  BY <1>1, SweepInit, SweepStep, PTL DEF Spec

\* What a probe of probe_host has heard when sweep_subnet returns is in the
\* result: joining in order drops no answer.
THEOREM SweepKeepsWhatItHeard == Spec => []HeardAreFound
<1>1. Inv => HeardAreFound
  BY DEF Inv, StageInv, HeardAreFound
<1> QED
  BY <1>1, SweepInit, SweepStep, PTL DEF Spec

-----------------------------------------------------------------------------
LEMMA StartedFinite == IsFiniteSet(Started) /\ Cardinality(Started) \in Nat
                       /\ Cardinality(Started) <= Cardinality(Probes) /\ Cardinality(Probes) \in Nat
<1>1. IsFiniteSet(Probes)
  BY FS_Product, SweepAssumption DEF Probes
<1>2. Started \in SUBSET Probes
  BY DEF Started
<1>3. IsFiniteSet(Started) /\ Cardinality(Started) <= Cardinality(Probes)
  BY <1>1, <1>2, FS_Subset
<1> QED
  BY <1>1, <1>3, FS_CardinalityType

\* No probe returns its port, and no other sweep does.
LEMMA TakenGrows ==
    ASSUME Inv, [Next]_vars
    PROVE  Taken \in Nat /\ Taken = others + Cardinality(Started) /\ Taken <= Taken'
<1> USE SweepAssumption
<1>1. /\ TypeOK /\ TypeOK'
      /\ \A t \in Targets, port \in TcpPorts : <<t, port>> \in Probes
      /\ \A t \in Targets : task[t] = "queued" => \A port \in TcpPorts : tcp[<<t, port>>] = "off"
      /\ \A p \in Probes : p[1] \in Targets /\ p[2] \in TcpPorts /\ p = <<p[1], p[2]>>
  <2>1. \A t \in Targets, port \in TcpPorts : <<t, port>> \in Probes
    BY DEF Probes
  <2>2. \A p \in Probes : p[1] \in Targets /\ p[2] \in TcpPorts /\ p = <<p[1], p[2]>>
    BY DEF Probes
  <2>3. Inv'
    BY SweepStep
  <2> QED
    BY <2>1, <2>2, <2>3 DEF Inv, StageInv
<1>2. Started \subseteq Started' /\ others <= others'
  <2>1. ASSUME NEW t \in Targets, Acquire(t) PROVE Started \subseteq Started' /\ others <= others'
    BY <1>1, <2>1 DEF Acquire, TypeOK, Started
  <2>2. ASSUME NEW p \in Probes, TcpStart(p) \/ TcpTimeout(p) PROVE Started \subseteq Started' /\ others <= others'
    BY <1>1, <2>2 DEF TcpStart, TcpTimeout, TypeOK, Started
  <2>3. ASSUME NEW q \in Probes, Answer(q) PROVE Started \subseteq Started' /\ others <= others'
    BY <1>1, <2>3 DEF Answer, TypeOK, Started
  <2>4. ASSUME NEW port \in TcpPorts, NEW dst \in Lo..Hi, Stray(port, dst)
        PROVE  Started \subseteq Started' /\ others <= others'
    BY <1>1, <2>4 DEF Stray, TypeOK, Started
  <2>5. CASE OthersTake
    BY <1>1, <2>5 DEF OthersTake, TypeOK, Started
  <2>6. ASSUME NEW t \in Targets, IcmpProbe(t) \/ JoinIcmp(t) \/ JoinTcp(t)
        PROVE  Started \subseteq Started' /\ others <= others'
    BY <1>1, <2>6 DEF IcmpProbe, JoinIcmp, JoinTcp, TypeOK, Started
  <2>7. CASE Return \/ UNCHANGED vars
    BY <1>1, <2>7 DEF Return, vars, TypeOK, Started
  <2> QED
    BY <1>1, <2>1, <2>2, <2>3, <2>4, <2>5, <2>6, <2>7 DEF Next, TargetStep
<1>3. Started' \in SUBSET Probes /\ IsFiniteSet(Probes)
  BY FS_Product DEF Probes, Started
<1>4. IsFiniteSet(Started') /\ Cardinality(Started') \in Nat
  BY <1>3, FS_Subset, FS_CardinalityType
<1>5. Cardinality(Started) <= Cardinality(Started')
  BY <1>2, <1>4, FS_Subset
<1>6. Taken = others + Cardinality(Started) /\ Taken' = others' + Cardinality(Started')
  BY DEF Taken, Started
<1> QED
  BY <1>1, <1>2, <1>4, <1>5, <1>6, StartedFinite DEF TypeOK

LEMMA RangeInit == Init => RangeInv
BY DEF Init, RangeInv, PortInv, Credited, Started, Probes

\* A step that neither takes a port nor ends a TCP probe keeps the ports apart.
LEMMA PortsKept ==
    ASSUME PortInv, Started' = Started, UNCHANGED <<src_port, PORT, others>>,
           \A p \in Probes : tcp'[p] = "yes" => p \in answered' \cup strays'
    PROVE  PortInv'
<1>1. Taken = others + Cardinality(Started) /\ Taken' = others' + Cardinality(Started')
  BY DEF Taken, Started
<1> QED
  BY <1>1 DEF PortInv, age

\* The counter moves on: what was taken before is a step older, and differs from
\* the new port, as long as no more than the whole range is taken.
LEMMA Older ==
    ASSUME TypeOK, NEW q \in Lo..Hi, Taken \in Nat, age(q) < Taken,
           PORT' = next_probe_port(PORT), Taken' = Taken + 1, Taken' <= Size
    PROVE  /\ q # PORT' /\ age(q)' = age(q) + 1 /\ age(q)' < Taken'
           /\ PORT' \in Lo..Hi /\ age(PORT)' = 0
<1> USE SweepAssumption
<1>1. PORT \in Lo..Hi /\ PORT' \in Lo..Hi
  BY DEF TypeOK, next_probe_port
<1>2. age(q) \in Nat /\ age(q) + 1 < Size
  BY <1>1 DEF age, Size
<1>3. /\ q # PORT'
      /\ age(q) + 1 = IF q <= PORT' THEN PORT' - q ELSE PORT' - q + Size
  BY <1>1, <1>2 DEF age, next_probe_port, Size
<1> QED
  BY <1>1, <1>2, <1>3 DEF age, Size

LEMMA RangeStep == Inv /\ RangeInv /\ [Next]_vars => RangeInv'
<1> SUFFICES ASSUME Inv, RangeInv, [Next]_vars, Taken' <= Size'
             PROVE  PortInv' /\ Credited'
  BY DEF RangeInv
<1> USE SweepAssumption
<1>0. /\ TypeOK /\ StageInv /\ PortInv /\ Credited
      /\ Taken' <= Size /\ Taken \in Nat /\ Taken = others + Cardinality(Started)
      /\ \A t \in Targets, port \in TcpPorts : <<t, port>> \in Probes
      /\ \A p \in Probes : p[1] \in Targets /\ p[2] \in TcpPorts /\ p = <<p[1], p[2]>>
  <2>1. Size' = Size /\ Size \in Int
    BY DEF Size
  <2>2. Taken' \in Int
    <3>1. Started' \in SUBSET Probes /\ IsFiniteSet(Probes)
      BY FS_Product DEF Probes, Started
    <3>2. Cardinality(Started') \in Nat /\ TypeOK'
      BY <3>1, FS_Subset, FS_CardinalityType, SweepStep DEF Inv
    <3> QED
      BY <3>2 DEF Taken, Started, TypeOK
  <2>3. Taken \in Nat /\ Taken = others + Cardinality(Started) /\ Taken <= Taken'
    BY TakenGrows
  <2>4. Taken <= Size /\ Taken' <= Size
    BY <2>1, <2>2, <2>3
  <2> QED
    BY <2>3, <2>4 DEF Inv, Probes, RangeInv
<1>1. ASSUME NEW t \in Targets, Acquire(t) PROVE PortInv' /\ Credited'
  <2>1. /\ \A p \in Probes : tcp[p] # "off" => tcp'[p] = tcp[p]
        /\ \A p \in Probes : tcp[p] = "off" => tcp'[p] \in {"off", "starting"}
        /\ icmp[t] = "off" /\ icmp' = [icmp EXCEPT ![t] = "running"]
        /\ UNCHANGED <<src_port, PORT, others, answered, strays, found>>
    BY <1>0, <1>1 DEF Acquire, StageInv
  <2>2. Started' = Started
    BY <2>1, <1>0 DEF Started, TypeOK
  <2>3. PortInv'
    BY <1>0, <2>1, <2>2, PortsKept DEF PortInv
  <2>4. Credited'
    BY <1>0, <2>1 DEF Credited, heard, answers, TypeOK
  <2> QED
    BY <2>3, <2>4
<1>2. ASSUME NEW t \in Targets, IcmpProbe(t) PROVE PortInv' /\ Credited'
  <2>1. PortInv'
    BY <1>0, <1>2, PortsKept DEF IcmpProbe, PortInv, Started
  <2>2. Credited'
    BY <1>0, <1>2 DEF IcmpProbe, Credited, heard, answers, TypeOK
  <2> QED
    BY <2>1, <2>2
<1>3. ASSUME NEW t \in Targets, JoinIcmp(t) PROVE PortInv' /\ Credited'
  <2>1. PortInv'
    BY <1>0, <1>3, PortsKept DEF JoinIcmp, PortInv, Started
  <2>2. \/ found' = found
        \/ found' = found \cup {t} /\ heard(t)
    BY <1>3 DEF JoinIcmp, heard, answers
  <2>3. Credited'
    BY <1>0, <1>3, <2>2 DEF JoinIcmp, Credited, heard, answers
  <2> QED
    BY <2>1, <2>3
<1>4. ASSUME NEW t \in Targets, JoinTcp(t) PROVE PortInv' /\ Credited'
  <2>1. PortInv'
    BY <1>0, <1>4, PortsKept DEF JoinTcp, PortInv, Started
  <2>2. found' = found \/ (found' = found \cup {t} /\ heard(t))
    BY <1>0, <1>4 DEF JoinTcp, PortInv, heard, answers
  <2>3. Credited'
    BY <1>0, <1>4, <2>2 DEF JoinTcp, Credited, heard, answers
  <2> QED
    BY <2>1, <2>3
<1>5. ASSUME NEW p \in Probes, TcpStart(p) PROVE PortInv' /\ Credited'
  <2>1. /\ tcp[p] = "starting" /\ tcp' = [tcp EXCEPT ![p] = "running"]
        /\ PORT' = next_probe_port(PORT) /\ src_port' = [src_port EXCEPT ![p] = PORT']
        /\ UNCHANGED <<icmp, others, answered, strays, found>>
    BY <1>5 DEF TcpStart
  <2>2. Started' = Started \cup {p} /\ p \notin Started
    BY <1>0, <2>1 DEF TypeOK, Started
  <2>3. Taken' = Taken + 1
    <3>1. Cardinality(Started') = Cardinality(Started) + 1
      BY <2>2, StartedFinite, FS_AddElement
    <3>2. Taken' = others' + Cardinality(Started')
      BY DEF Taken, Started
    <3> QED
      BY <1>0, <2>1, <3>1, <3>2, StartedFinite DEF TypeOK
  <2>4. PORT' \in Lo..Hi /\ age(PORT)' = 0 /\ 0 < Taken'
    BY <1>0, <2>1, <2>3 DEF TypeOK, next_probe_port, age
  <2>5. ASSUME NEW q \in Started
        PROVE  /\ src_port'[q] = src_port[q] /\ src_port[q] \in Lo..Hi
               /\ src_port[q] # PORT' /\ age(src_port[q])' < Taken'
    <3>1. src_port'[q] = src_port[q]
      BY <1>0, <2>1, <2>2 DEF TypeOK, Started
    <3>2. src_port[q] \in Lo..Hi /\ age(src_port[q]) < Taken
      BY <1>0 DEF PortInv
    <3>3. \A s \in Lo..Hi : age(s) < Taken => s # PORT' /\ age(s)' < Taken'
      BY <1>0, <2>1, <2>3, Older
    <3> QED
      BY <3>1, <3>2, <3>3 DEF age, Size
  <2>6. src_port'[p] = PORT'
    BY <1>0, <2>1 DEF TypeOK
  <2>7. PortInv'
    <3>1. \A q \in Started' : src_port'[q] \in Lo..Hi /\ age(src_port[q])' < Taken'
      BY <2>2, <2>4, <2>5, <2>6 DEF age
    <3>2. \A q, r \in Started' : src_port'[q] = src_port'[r] => q = r
      BY <1>0, <2>2, <2>5, <2>6 DEF PortInv
    <3>3. \A q \in Probes : tcp'[q] = "yes" => q \in answered' \cup strays'
      BY <1>0, <2>1 DEF TypeOK, PortInv
    <3> QED
      BY <3>1, <3>2, <3>3 DEF PortInv
  <2>8. Credited'
    BY <1>0, <2>1 DEF Credited, heard, answers
  <2> QED
    BY <2>7, <2>8
<1>6. CASE OthersTake
  <2>1. /\ PORT' = next_probe_port(PORT) /\ others' = others + 1
        /\ UNCHANGED <<tcp, icmp, src_port, answered, strays, found>>
    BY <1>6 DEF OthersTake
  <2>2. Started' = Started
    BY <2>1 DEF Started
  <2>3. Taken' = Taken + 1
    BY <1>0, <2>1, StartedFinite DEF Taken, Started, TypeOK
  <2>4. \A s \in Lo..Hi : age(s) < Taken => age(s)' < Taken'
    BY <1>0, <2>1, <2>3, Older
  <2>5. PortInv'
    BY <1>0, <2>1, <2>2, <2>4 DEF PortInv, age, Size
  <2>6. Credited'
    BY <1>0, <2>1 DEF Credited, heard, answers
  <2> QED
    BY <2>5, <2>6
<1>7. ASSUME NEW p \in Probes, TcpTimeout(p) PROVE PortInv' /\ Credited'
  <2>1. Started' = Started
    BY <1>0, <1>7 DEF TcpTimeout, TypeOK, Started
  <2>2. PortInv'
    BY <1>0, <1>7, <2>1, PortsKept DEF TcpTimeout, TypeOK, PortInv
  <2>3. Credited'
    BY <1>0, <1>7 DEF TcpTimeout, Credited, heard, answers
  <2> QED
    BY <2>2, <2>3
<1>8. ASSUME NEW q \in Probes, Answer(q) PROVE PortInv' /\ Credited'
  <2>1. /\ tcp[q] \in {"running", "yes", "no"}
        /\ answered' = IF tcp[q] = "running" THEN answered \cup {q} ELSE answered
        /\ \A p \in Probes : \/ tcp'[p] = tcp[p]
                             \/ /\ tcp[p] = "running" /\ tcp'[p] = "yes"
                                /\ src_port[p] = src_port[q]
        /\ UNCHANGED <<icmp, src_port, PORT, others, strays, found>>
    BY <1>8 DEF Answer, matching
  <2>2. Started' = Started
    BY <1>0, <2>1 DEF TypeOK, Started
  <2>3. \A p \in Probes : tcp'[p] = "yes" => p \in answered' \cup strays'
    BY <1>0, <2>1 DEF PortInv, Started
  <2>4. PortInv'
    BY <1>0, <2>1, <2>2, <2>3, PortsKept
  <2>5. Credited'
    BY <1>0, <2>1 DEF Credited, heard, answers
  <2> QED
    BY <2>4, <2>5
<1>9. ASSUME NEW port \in TcpPorts, NEW dst \in Lo..Hi, Stray(port, dst) PROVE PortInv' /\ Credited'
  <2>1. /\ \A p \in Probes : \/ tcp'[p] = tcp[p]
                             \/ tcp[p] = "running" /\ tcp'[p] = "yes" /\ p \in strays'
        /\ strays \subseteq strays'
        /\ UNCHANGED <<icmp, src_port, PORT, others, answered, found>>
    BY <1>9 DEF Stray, matching
  <2>2. Started' = Started
    BY <1>0, <2>1 DEF TypeOK, Started
  <2>3. \A p \in Probes : tcp'[p] = "yes" => p \in answered' \cup strays'
    BY <1>0, <2>1 DEF PortInv
  <2>4. PortInv'
    BY <1>0, <2>1, <2>2, <2>3, PortsKept
  <2>5. Credited'
    BY <1>0, <2>1 DEF Credited, heard, answers
  <2> QED
    BY <2>4, <2>5
<1>10. CASE Return \/ UNCHANGED vars
  <2>1. UNCHANGED <<tcp, src_port, PORT, others, answered, strays, icmp, found>>
    BY <1>10 DEF Return, vars
  <2>2. PortInv'
    BY <1>0, <2>1, PortsKept DEF PortInv, Started
  <2> QED
    BY <1>0, <2>1, <2>2 DEF Credited, heard, answers
<1> QED
  BY <1>0, <1>1, <1>2, <1>3, <1>4, <1>5, <1>6, <1>7, <1>8, <1>9, <1>10 DEF Next, TargetStep

\* A probe of sweep.rs knows its answer by the ports alone.  While all ports that
\* were taken, by this sweep and others, are no more than the range has, that
\* suffices to tell the hosts of the sweep apart, probes left behind by probe_host
\* included: a reported host answered a probe of its own, or other traffic of the
\* machine had the ports of one.
THEOREM SweepCreditsByPorts == Spec => []CreditedByPorts
<1>1. Inv /\ RangeInv => CreditedByPorts
  BY DEF RangeInv, CreditedByPorts, Credited, heard, Size
<1>2. Inv /\ RangeInv /\ [Next]_vars => (Inv /\ RangeInv)'
  BY SweepStep, RangeStep
<1>3. Init => Inv /\ RangeInv
  BY SweepInit, RangeInit
<1> QED
  BY <1>1, <1>2, <1>3, PTL DEF Spec
=============================================================================
