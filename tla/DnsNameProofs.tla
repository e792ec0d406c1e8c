--------------------------- MODULE DnsNameProofs ---------------------------
(***************************************************************************)
(* Proofs about decode_label for every packet and every start position.    *)
(* The inductive invariant describes the walk: where it is (Bounds), where *)
(* the name ends (Ending), and which positions it has seen (Walk): those   *)
(* lead only to each other and to the current one, none of them is a root, *)
(* and every closed set with the start has them all.                       *)
(***************************************************************************)
EXTENDS DnsName, TLAPS

Bounds ==
    /\ data \in Seq(Byte) /\ start \in Nat
    /\ TypeOK
    /\ NoOverread

Ending ==
    /\ (status = "running" /\ end_pos = NONE) => start <= pos
    /\ end_pos # NONE => start < end_pos /\ end_pos <= Len(data)
    /\ status = "some" => end_pos # NONE

Walk ==
    status = "running" =>
        /\ start \in visited \cup {pos}
        /\ \A p \in visited : byte(data, p) # 0
        /\ \A p \in visited : \A q \in Nat :
              leads(data, p, q) => q \in visited \cup {pos}
        /\ \A S \in SUBSET positions(data) :
              (start \in S /\ closed(data, S)) =>
                 /\ visited \subseteq S
                 /\ pos \in positions(data) => pos \in S

IInv == Bounds /\ Ending /\ Walk /\ DecodesExactly

\* A byte is a byte and a pointer is a position, in range or not.
LEMMA ByteType ==
    ASSUME NEW d \in Seq(Byte), NEW i \in Nat
    PROVE  byte(d, i) \in Byte /\ pointer(d, i) \in Nat
<1>1. ASSUME NEW j \in Nat PROVE byte(d, j) \in Byte
  <2>1. Len(d) \in Nat /\ \A n \in 1..Len(d) : d[n] \in Byte
    OBVIOUS
  <2>2. CASE j < Len(d)
    BY <2>1, <2>2 DEF byte
  <2>3. CASE ~ (j < Len(d))
    BY <2>3 DEF byte, Byte
  <2>. QED  BY <2>2, <2>3
<1>2. byte(d, i) \in 0..255 /\ byte(d, i + 1) \in 0..255
  BY <1>1 DEF Byte
<1>3. \A a, b \in 0..255 : (a % 64) * 256 + b \in Nat
  OBVIOUS
<1>4. pointer(d, i) \in Nat
  BY <1>2, <1>3 DEF pointer
<1>. QED  BY <1>1, <1>4

\* A closed set without a root refutes that the name is well formed.
LEMMA Refuted ==
    ASSUME NEW d \in Seq(Byte), NEW s, NEW S \in SUBSET positions(d),
           s \in S, \A p \in S : byte(d, p) # 0,
           \A p \in S : \A q \in positions(d) : leads(d, p, q) => q \in S
    PROVE  ~ well_formed(d, s)
BY DEF well_formed, closed

LEMMA InitIInv == Init => IInv
<1>. SUFFICES ASSUME Init PROVE IInv
  OBVIOUS
<1>1. data \in Seq(Byte) /\ start \in Nat
  BY PacketAssumption DEF Init
<1>2. Bounds
  BY <1>1 DEF Init, Bounds, TypeOK, NoOverread, positions
<1>3. Ending
  BY <1>1, PacketAssumption DEF Init, Ending
<1>4. Walk
  BY <1>1 DEF Init, Walk
<1>. QED  BY <1>2, <1>3, <1>4 DEF IInv, Init, DecodesExactly

\* The position a turn of the loop begins at is added to the walk, and all that
\* was seen leads to positions seen.
LEMMA TurnFacts ==
    ASSUME IInv, turn
    PROVE  /\ data \in Seq(Byte) /\ start \in Nat /\ pos \in Nat /\ reach \in Nat
           /\ Len(data) \in Nat /\ reach <= Len(data)
           /\ pos < Len(data) /\ pos \in positions(data)
           /\ visited' = visited \cup {pos} /\ visited' \subseteq positions(data)
           /\ byte(data, pos) \in 0..255 /\ pointer(data, pos) \in Nat
           /\ start \in visited'
           /\ \A p \in visited : byte(data, p) # 0
           /\ \A p \in visited : \A q \in Nat : leads(data, p, q) => q \in visited'
           /\ \A S \in SUBSET positions(data) :
                 (start \in S /\ closed(data, S)) => visited' \subseteq S
<1>1. /\ data \in Seq(Byte) /\ start \in Nat /\ pos \in Nat /\ reach \in Nat
      /\ Len(data) \in Nat /\ reach <= Len(data)
      /\ pos < Len(data) /\ visited \subseteq positions(data)
      /\ visited' = visited \cup {pos}
      /\ status = "running"
  BY DEF IInv, Bounds, TypeOK, NoOverread, turn
<1>2. pos \in positions(data) /\ visited' \subseteq positions(data)
  BY <1>1 DEF positions
<1>3. byte(data, pos) \in 0..255 /\ pointer(data, pos) \in Nat
  BY <1>1, ByteType DEF Byte
<1>4. Walk
  BY DEF IInv
<1>. QED  BY <1>1, <1>2, <1>3, <1>4 DEF Walk

\* The walk goes on to the position that the current one leads to.
LEMMA WalkOn ==
    ASSUME IInv, turn, NEW to \in Nat, byte(data, pos) # 0,
           leads(data, pos, to), \A q \in Nat : leads(data, pos, q) => q = to,
           data' = data, start' = start, pos' = to, status' = status
    PROVE  Walk'
<1>. USE TurnFacts
<1>1. start \in visited' \cup {to}
  OBVIOUS
<1>2. \A p \in visited' : byte(data, p) # 0
  OBVIOUS
<1>3. \A p \in visited' : \A q \in Nat : leads(data, p, q) => q \in visited' \cup {to}
  OBVIOUS
<1>4. ASSUME NEW S \in SUBSET positions(data), start \in S, closed(data, S)
      PROVE  visited' \subseteq S /\ (to \in positions(data) => to \in S)
  BY <1>4 DEF closed
<1>. QED  BY <1>1, <1>2, <1>3, <1>4 DEF Walk

\* The walk stops at a position that leads nowhere.
LEMMA DeadEnd ==
    ASSUME IInv, turn, byte(data, pos) # 0,
           \A q \in positions(data) : ~ leads(data, pos, q)
    PROVE  ~ well_formed(data, start)
<1>. USE TurnFacts
<1>1. \A p \in visited' : byte(data, p) # 0
  OBVIOUS
<1>2. \A p \in visited' : \A q \in positions(data) : leads(data, p, q) => q \in visited'
  BY DEF positions
<1>. QED  BY <1>1, <1>2, Refuted

LEMMA RejectIInv == IInv /\ Reject => IInv'
<1>. SUFFICES ASSUME IInv, Reject PROVE IInv'
  OBVIOUS
<1>1. /\ data' = data /\ start' = start /\ pos' = pos /\ visited' = visited
      /\ end_pos' = end_pos /\ parts' = parts /\ reach' = reach
      /\ status = "running" /\ status' = "none"
  BY DEF Reject, refuse
<1>2. Bounds'
  BY <1>1 DEF IInv, Bounds, TypeOK, NoOverread
<1>3. Ending' /\ Walk'
  BY <1>1 DEF IInv, Ending, Walk
<1>4. ~ well_formed(data, start)
  <2>1. data \in Seq(Byte) /\ pos \in Nat /\ visited \in SUBSET positions(data)
    BY DEF IInv, Bounds, TypeOK
  <2>2. /\ start \in visited \cup {pos}
        /\ \A p \in visited : byte(data, p) # 0
        /\ \A p \in visited : \A q \in Nat :
              leads(data, p, q) => q \in visited \cup {pos}
    BY <1>1 DEF IInv, Walk
  <2>3. pos \in visited \/ pos \notin positions(data)
    BY <2>1 DEF Reject, positions
  <2>4. \A p \in visited : \A q \in positions(data) : leads(data, p, q) => q \in visited
    BY <2>1, <2>2, <2>3 DEF positions
  <2>5. CASE start \in visited
    BY <2>1, <2>2, <2>4, <2>5, Refuted
  <2>6. CASE start \notin visited
    BY <2>2, <2>3, <2>6 DEF well_formed
  <2>. QED  BY <2>5, <2>6
<1>. QED  BY <1>1, <1>2, <1>3, <1>4 DEF IInv, DecodesExactly

LEMMA RootIInv == IInv /\ Root => IInv'
<1>. SUFFICES ASSUME IInv, Root PROVE IInv'
  OBVIOUS
<1>1. turn /\ byte(data, pos) = 0
  BY DEF Root
<1>2. /\ data' = data /\ start' = start /\ pos' = pos /\ parts' = parts
      /\ end_pos' = IF end_pos = NONE THEN pos + 1 ELSE end_pos
      /\ reach' = IF pos + 1 > reach THEN pos + 1 ELSE reach
      /\ status = "running" /\ status' = "some"
  BY DEF Root, set_end, reading, turn
<1>. USE <1>1, TurnFacts
<1>3. Bounds'
  BY <1>2 DEF IInv, Bounds, TypeOK, NoOverread
<1>4. Ending'
  BY <1>2, PacketAssumption DEF IInv, Bounds, TypeOK, Ending
<1>5. Walk'
  BY <1>2 DEF Walk
<1>6. well_formed(data, start)
  BY <1>2 DEF well_formed
<1>. QED  BY <1>2, <1>3, <1>4, <1>5, <1>6 DEF IInv, DecodesExactly

LEMMA PointerIInv == IInv /\ Pointer => IInv'
<1>. SUFFICES ASSUME IInv, Pointer PROVE IInv'
  OBVIOUS
<1>1. turn /\ byte(data, pos) >= 192 /\ data' = data /\ start' = start
  BY DEF Pointer, is_pointer
<1>. USE <1>1
<1>a. /\ start \in Nat /\ pos \in Nat /\ reach \in Nat
      /\ Len(data) \in Nat /\ reach <= Len(data) /\ pos < Len(data)
      /\ visited' \subseteq positions(data)
      /\ byte(data, pos) \in 0..255 /\ pointer(data, pos) \in Nat
  BY TurnFacts
<1>b. byte(data, pos) # 0 /\ byte(data, pos) \notin 1..191
  <2>1. byte(data, pos) \in 0..255
    BY TurnFacts
  <2>. QED  BY <2>1
<1>2. CASE /\ pos + 1 >= Len(data)
           /\ refuse /\ reading(pos + 1)
  <2>1. /\ pos' = pos /\ parts' = parts /\ end_pos' = end_pos
        /\ reach' = IF pos + 1 > reach THEN pos + 1 ELSE reach
        /\ status = "running" /\ status' = "none"
    BY <1>2 DEF refuse, reading, turn
  <2>2. Bounds'
    BY <1>a, <2>1 DEF IInv, Bounds, TypeOK, NoOverread
  <2>3. Ending' /\ Walk'
    BY <2>1 DEF IInv, Ending, Walk
  <2>4. \A q \in positions(data) : ~ leads(data, pos, q)
    BY <1>a, <1>b, <1>2 DEF leads
  <2>5. ~ well_formed(data, start)
    BY <1>b, <2>4, DeadEnd
  <2>. QED  BY <2>1, <2>2, <2>3, <2>5 DEF IInv, DecodesExactly
<1>3. CASE /\ pos + 1 < Len(data)
           /\ set_end(pos + 2) /\ pos' = pointer(data, pos)
           /\ reading(pos + 2) /\ UNCHANGED <<parts, status>>
  <2>1. /\ pos' = pointer(data, pos) /\ parts' = parts
        /\ end_pos' = IF end_pos = NONE THEN pos + 2 ELSE end_pos
        /\ reach' = IF pos + 2 > reach THEN pos + 2 ELSE reach
        /\ status = "running" /\ status' = "running"
    BY <1>3 DEF set_end, reading, turn
  <2>2. Bounds'
    BY <1>a, <1>3, <2>1 DEF IInv, Bounds, TypeOK, NoOverread
  <2>3. Ending'
    BY <1>a, <1>3, <2>1, PacketAssumption DEF IInv, Bounds, TypeOK, Ending
  <2>4. /\ leads(data, pos, pointer(data, pos))
        /\ \A q \in Nat : leads(data, pos, q) => q = pointer(data, pos)
    BY <1>b, <1>3 DEF leads, is_pointer
  <2>5. Walk'
    <3>1. pointer(data, pos) \in Nat
      BY <1>a
    <3>. QED  BY <1>b, <2>1, <2>4, <3>1, WalkOn
  <2>. QED  BY <2>1, <2>2, <2>3, <2>5 DEF IInv, DecodesExactly
<1>. QED  BY <1>2, <1>3 DEF Pointer

LEMMA LabelIInv == IInv /\ Label => IInv'
<1>. SUFFICES ASSUME IInv, Label PROVE IInv'
  OBVIOUS
<1>. DEFINE end == pos + 1 + byte(data, pos)
<1>1. /\ turn /\ byte(data, pos) # 0 /\ ~ (byte(data, pos) >= 192)
      /\ data' = data /\ start' = start
  BY DEF Label, is_pointer
<1>. USE <1>1
<1>a. /\ start \in Nat /\ pos \in Nat /\ reach \in Nat
      /\ Len(data) \in Nat /\ reach <= Len(data) /\ pos < Len(data)
      /\ visited' \subseteq positions(data)
      /\ byte(data, pos) \in 0..255
  BY TurnFacts
<1>2. byte(data, pos) \in 1..191 /\ end \in Nat /\ end > pos
  <2>1. byte(data, pos) \in 0..255
    BY TurnFacts
  <2>2. byte(data, pos) \in 1..191
    BY <2>1
  <2>3. pos \in Nat
    BY <1>a
  <2>. QED  BY <2>2, <2>3
<1>3. CASE /\ end > Len(data)
           /\ refuse /\ reading(pos + 1)
  <2>1. /\ pos' = pos /\ parts' = parts /\ end_pos' = end_pos
        /\ reach' = IF pos + 1 > reach THEN pos + 1 ELSE reach
        /\ status = "running" /\ status' = "none"
    BY <1>3 DEF refuse, reading, turn
  <2>2. Bounds'
    BY <1>a, <2>1 DEF IInv, Bounds, TypeOK, NoOverread
  <2>3. Ending' /\ Walk'
    BY <2>1 DEF IInv, Ending, Walk
  <2>4. \A q \in positions(data) : ~ leads(data, pos, q)
    BY <1>a, <1>2, <1>3 DEF leads, is_pointer, positions
  <2>5. ~ well_formed(data, start)
    BY <2>4, DeadEnd
  <2>. QED  BY <2>1, <2>2, <2>3, <2>5 DEF IInv, DecodesExactly
<1>4. CASE /\ end <= Len(data)
           /\ parts' = Append(parts, <<pos + 1, end>>) /\ pos' = end
           /\ reading(end) /\ UNCHANGED <<end_pos, status>>
  <2>1. /\ pos' = end /\ parts' = Append(parts, <<pos + 1, end>>)
        /\ end_pos' = end_pos
        /\ reach' = IF end > reach THEN end ELSE reach
        /\ status = "running" /\ status' = "running"
    BY <1>4 DEF reading, turn
  <2>2. parts' \in Seq(Nat \X Nat)
    BY <1>a, <1>2, <2>1 DEF IInv, Bounds, TypeOK
  <2>3. Bounds'
    BY <1>a, <1>2, <1>4, <2>1, <2>2 DEF IInv, Bounds, TypeOK, NoOverread
  <2>4. Ending'
    BY <1>a, <1>2, <1>4, <2>1 DEF IInv, Ending
  <2>5. /\ leads(data, pos, end)
        /\ \A q \in Nat : leads(data, pos, q) => q = end
    BY <1>2 DEF leads, is_pointer
  <2>6. Walk'
    BY <1>2, <2>1, <2>5, WalkOn
  <2>. QED  BY <2>1, <2>3, <2>4, <2>6 DEF IInv, DecodesExactly
<1>. QED  BY <1>3, <1>4 DEF Label

\* The invariant holds throughout: the walk of decode_label.
THEOREM Invariance == Spec => []IInv
<1>1. IInv /\ UNCHANGED vars => IInv'
  BY DEF IInv, vars, Bounds, TypeOK, NoOverread, Ending, Walk, DecodesExactly
<1>2. IInv /\ [Next]_vars => IInv'
  BY <1>1, RejectIInv, RootIInv, PointerIInv, LabelIInv DEF Next
<1>. QED  BY <1>2, InitIInv, PTL DEF Spec

\* The variables of decode_label keep their types, whatever the packet.
THEOREM NameTypeCorrect == Spec => []TypeOK
<1>1. IInv => TypeOK
  BY DEF IInv, Bounds
<1>. QED  BY <1>1, Invariance, PTL

\* decode_label never indexes or slices beyond the end of any packet.
THEOREM NameInBounds == Spec => []NoOverread
<1>1. IInv => NoOverread
  BY DEF IInv, Bounds
<1>. QED  BY <1>1, Invariance, PTL

\* The position decode_label returns is after its argument and in the packet.
THEOREM NameAdvances == Spec => []Advances
<1>1. IInv => Advances
  BY DEF IInv, Bounds, TypeOK, Ending, Advances
<1>. QED  BY <1>1, Invariance, PTL

\* decode_label returns a name for the well-formed names of every packet, and
\* for nothing else.
THEOREM NameDecodedExactly == Spec => []DecodesExactly
<1>1. IInv => DecodesExactly
  BY DEF IInv
<1>. QED  BY <1>1, Invariance, PTL
=============================================================================
