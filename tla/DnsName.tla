------------------------------- MODULE DnsName -------------------------------
(***************************************************************************)
(* decode_label, which src/src/discovery/mdns.rs and passive.rs both have: *)
(* reads one possibly compressed DNS name from a received packet.  A       *)
(* pointer may lead anywhere in the packet, forwards and to itself too;    *)
(* the set of visited positions is what ends the loop.                     *)
(*                                                                         *)
(* Abstraction.  A label is the slice of the packet it was read from.      *)
(***************************************************************************)
EXTENDS Integers, Sequences

CONSTANTS
    Packets,     \* byte sequences
    Starts,      \* positions at which a name is looked for
    NONE         \* Rust's None

Byte == 0..255

ASSUME PacketAssumption ==
    /\ Packets \subseteq Seq(Byte)
    /\ Starts \subseteq Nat
    /\ NONE \notin Nat

VARIABLES
    data,        \* the packet
    start, pos,  \* first and current position
    visited,     \* positions at which a turn of the loop began
    end_pos,     \* where the name ends in its place, once known
    parts,       \* labels read, as slices <<from, to>>
    reach,       \* end of the bytes of the packet that were indexed
    status       \* "running", "some" or "none"

vars == <<data, start, pos, visited, end_pos, parts, reach, status>>

Init ==
    /\ data \in Packets /\ start \in Starts
    /\ pos = start
    /\ visited = {} /\ parts = <<>>
    /\ end_pos = NONE
    /\ reach = 0
    /\ status = "running"

\* d[i]; what lies beyond the end is read only if NoOverread fails.
byte(d, i) == IF i < Len(d) THEN d[i + 1] ELSE 0
reading(to) == reach' = IF to > reach THEN to ELSE reach

is_pointer(b) == b >= 192                 \* b & 0xC0 == 0xC0
pointer(d, i) == (byte(d, i) % 64) * 256 + byte(d, i + 1)

\* Only the first pointer, or the zero byte, tells where the name ends.
set_end(p) == end_pos' = IF end_pos = NONE THEN p ELSE end_pos

\* Mutant: the check for a position visited before is missing.
turn_unvisited ==
    /\ status = "running"
    /\ pos < Len(data)
    /\ visited' = visited \cup {pos}

\* A turn of the loop gets past the checks at its head.
turn ==
    /\ status = "running"
    /\ pos < Len(data)
    /\ pos \notin visited
    /\ visited' = visited \cup {pos}

refuse == status' = "none" /\ UNCHANGED <<pos, end_pos, parts>>

\* The checks at the head fail.
Reject ==
    /\ status = "running"
    /\ pos >= Len(data) \/ pos \in visited
    /\ refuse
    /\ UNCHANGED <<data, start, visited, reach>>

\* The zero byte ends the name.
Root ==
    /\ turn /\ byte(data, pos) = 0
    /\ set_end(pos + 1)
    /\ status' = "some"
    /\ reading(pos + 1)
    /\ UNCHANGED <<data, start, pos, parts>>

\* Mutant: the second byte of a pointer is taken to be there.
Pointer_truncated ==
    /\ turn /\ is_pointer(byte(data, pos))
    /\ set_end(pos + 2)
    /\ pos' = pointer(data, pos)
    /\ reading(pos + 2)
    /\ UNCHANGED <<data, start, parts, status>>

\* Mutant: pointers may only lead backwards.
Pointer_backwards ==
    /\ turn /\ is_pointer(byte(data, pos))
    /\ \/ /\ pos + 1 >= Len(data) \/ pointer(data, pos) >= pos
          /\ refuse
          /\ reading(pos + 1)
       \/ /\ pos + 1 < Len(data) /\ pointer(data, pos) < pos
          /\ set_end(pos + 2)
          /\ pos' = pointer(data, pos)
          /\ reading(pos + 2)
          /\ UNCHANGED <<parts, status>>
    /\ UNCHANGED <<data, start>>

\* A compression pointer.
Pointer ==
    /\ turn /\ is_pointer(byte(data, pos))
    /\ \/ /\ pos + 1 >= Len(data)
          /\ refuse
          /\ reading(pos + 1)
       \/ /\ pos + 1 < Len(data)
          /\ set_end(pos + 2)
          /\ pos' = pointer(data, pos)
          /\ reading(pos + 2)
          /\ UNCHANGED <<parts, status>>
    /\ UNCHANGED <<data, start>>

\* A label; lengths of 64 to 191, which DNS reserves, are taken as they are.
Label ==
    /\ turn /\ byte(data, pos) # 0 /\ ~ is_pointer(byte(data, pos))
    /\ LET end == pos + 1 + byte(data, pos)
       IN  \/ /\ end > Len(data)
              /\ refuse
              /\ reading(pos + 1)
           \/ /\ end <= Len(data)
              /\ parts' = Append(parts, <<pos + 1, end>>)
              /\ pos' = end
              /\ reading(end)
              /\ UNCHANGED <<end_pos, status>>
    /\ UNCHANGED <<data, start>>

Next == Reject \/ Root \/ Pointer \/ Label

Spec == Init /\ [][Next]_vars
FairSpec == Spec /\ WF_vars(Next)

-----------------------------------------------------------------------------
(***************************************************************************)
(* What a name is.                                                         *)
(***************************************************************************)

positions(d) == 0..(Len(d) - 1)

\* The position q that the bytes at p lead to, if they are all there.
leads(d, p, q) ==
    \/ is_pointer(byte(d, p)) /\ p + 1 < Len(d) /\ q = pointer(d, p)
    \/ byte(d, p) \in 1..191 /\ q = p + 1 + byte(d, p)

\* S contains whatever its members lead to.
closed(d, S) == \A p \in S, q \in positions(d) : leads(d, p, q) => q \in S

\* Following labels and pointers from p comes to a zero byte: every closed set
\* that contains p contains one.
well_formed(d, p) ==
    /\ p \in positions(d)
    /\ \A S \in SUBSET positions(d) :
          p \in S /\ closed(d, S) => \E r \in S : byte(d, r) = 0

-----------------------------------------------------------------------------
\* The variables have their types.
TypeOK ==
    /\ data \in Packets /\ start \in Starts
    /\ pos \in Nat /\ reach \in Nat
    /\ visited \subseteq positions(data)
    /\ end_pos \in Nat \cup {NONE}
    /\ parts \in Seq(Nat \X Nat)
    /\ status \in {"running", "some", "none"}

\* No index and no slice expression of decode_label reaches beyond the packet,
\* whatever its bytes are: the loop cannot panic.
NoOverread == reach <= Len(data)

\* The position decode_label returns lies after the one it was given and not
\* beyond the end: its callers' loops make progress.
Advances ==
    status = "some" => end_pos \in Nat /\ start < end_pos /\ end_pos <= Len(data)

\* A name is returned for exactly the well-formed names: pointer loops and
\* truncated names are refused, and the visited set refuses nothing else.
DecodesExactly ==
    /\ status = "some" => well_formed(data, start)
    /\ status = "none" => ~ well_formed(data, start)

\* The loop ends on every packet.
Terminates == <>(status # "running")
=============================================================================
