-------------------------- MODULE DnsMessageProofs --------------------------
(***************************************************************************)
(* Proofs about the message walk for every length, every count and every   *)
(* content.  The bounds follow from where the walk stands (Position): each *)
(* turn of a loop moved it on, and a record is entered only if its fixed   *)
(* part is there.                                                          *)
(***************************************************************************)
EXTENDS DnsMessage, TLAPS

Position ==
    /\ phase = "header" => asked = 0 /\ walked = 0
    /\ phase \in {"questions", "records", "rdata", "txt"} =>
          12 <= len /\ 12 + 5 * asked + 11 * walked <= pos
    /\ phase \in {"rdata", "txt"} => pos <= len
    /\ phase = "questions" => walked = 0

IInv == TypeOK /\ NoOverread /\ BoundedWork /\ Position

\* The header has room for the four counts, and nothing was read before it.
LEMMA InitIInv == Init => IInv
<1>1. 0 \in U16
  BY DEF U16
<1>. QED
  BY <1>1, MessageAssumption
     DEF Init, IInv, TypeOK, NoOverread, BoundedWork, Position

\* The types that the arithmetic of each step rests on.
LEMMA Types ==
    ASSUME TypeOK
    PROVE  /\ len \in Nat /\ questions \in Nat /\ total_rrs \in Nat
           /\ pos \in Nat /\ rdlen \in Nat /\ p \in Nat /\ reach \in Nat
           /\ asked \in Nat /\ walked \in Nat
<1>1. rdlen \in Nat
  BY DEF TypeOK, U16
<1>. QED  BY <1>1, MessageAssumption DEF TypeOK

LEMMA StepIInv == IInv /\ [Next]_vars => IInv'
<1>. SUFFICES ASSUME IInv, [Next]_vars PROVE IInv'
  OBVIOUS
<1>. USE Types, MessageAssumption DEF IInv, TypeOK, NoOverread, BoundedWork, Position, loop_vars
<1>1. CASE TooShort
  BY <1>1 DEF TooShort, done
<1>2. CASE Header
  BY <1>2 DEF Header, done, reading
<1>3. CASE Question
  BY <1>3 DEF Question, decode_label
<1>4. CASE QuestionFails
  BY <1>4 DEF QuestionFails
<1>5. CASE QuestionsDone
  BY <1>5 DEF QuestionsDone
<1>6. CASE Record
  BY <1>6 DEF Record, decode_label, reading
<1>7. CASE RecordsDone
  BY <1>7 DEF RecordsDone, done
<1>8. CASE Skip
  BY <1>8 DEF Skip
<1>9. CASE Txt
  BY <1>9 DEF Txt
<1>10. CASE Text
  <2>1. PICK n \in TxtLengths :
          \/ /\ p + 1 + n <= txt_end /\ p' = p + 1 + n
             /\ reading(p + 1 + n) /\ UNCHANGED <<pos, phase>>
          \/ /\ p + 1 + n > txt_end /\ pos' = pos + rdlen
             /\ phase' = "records" /\ reading(p + 1) /\ UNCHANGED p
    BY <1>10 DEF Text
  <2>2. n \in Nat
    <3>1. n \in U8
      OBVIOUS
    <3>. QED  BY <3>1 DEF U8
  <2>3. /\ phase = "txt" /\ p < txt_end
        /\ UNCHANGED <<parser, len, loop_vars, rdlen>>
    BY <1>10 DEF Text
  <2>. QED  BY <2>1, <2>2, <2>3 DEF txt_end, reading
<1>11. CASE TxtDone
  BY <1>11 DEF TxtDone
<1>12. CASE UNCHANGED vars
  BY <1>12 DEF vars
<1>. QED
  BY <1>1, <1>2, <1>3, <1>4, <1>5, <1>6, <1>7, <1>8, <1>9, <1>10, <1>11, <1>12
     DEF Next

\* The walk stands where Position says, throughout.
THEOREM Invariance == Spec => []IInv
BY InitIInv, StepIInv, PTL DEF Spec

\* The variables of the two parsers keep their types, whatever the message.
THEOREM MessageTypeCorrect == Spec => []TypeOK
<1>1. IInv => TypeOK
  BY DEF IInv
<1>. QED  BY <1>1, Invariance, PTL

\* Neither parser reads beyond the end of any message.
THEOREM MessageInBounds == Spec => []NoOverread
<1>1. IInv => NoOverread
  BY DEF IInv
<1>. QED  BY <1>1, Invariance, PTL

\* The work either parser does is bounded by the length of the message.
THEOREM MessageWorkBounded == Spec => []BoundedWork
<1>1. IInv => BoundedWork
  BY DEF IInv
<1>. QED  BY <1>1, Invariance, PTL
=============================================================================
