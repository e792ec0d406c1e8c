----------------------------- MODULE DnsMessage -----------------------------
(***************************************************************************)
(* The walk over a received DNS message: parse_mdns_records of             *)
(* src/src/discovery/mdns.rs ("records") and parse_mdns_for_services of    *)
(* src/src/discovery/passive.rs ("services").  The counts of the header    *)
(* are whatever the sender wrote.                                          *)
(*                                                                         *)
(* Abstractions.  The bytes are arbitrary, so a name, a type or a length   *)
(* is an arbitrary choice at the moment it is read; decode_label is what   *)
(* DnsName shows of it: it fails, or it returns a position after its       *)
(* argument and within the message.  Which names and services are kept     *)
(* changes nothing in the walk and is left out.                            *)
(***************************************************************************)
EXTENDS Integers

CONSTANTS
    Parsers,      \* which of the two functions runs
    Lengths,      \* lengths of the message
    Counts,       \* values of its question and record counts
    RdLengths,    \* values of a record's length field
    TxtLengths    \* values of a text's length byte

U8 == 0..255
U16 == 0..65535

ASSUME MessageAssumption ==
    /\ Parsers \subseteq {"records", "services"}
    /\ Lengths \subseteq Nat /\ Counts \subseteq Nat
    /\ RdLengths \subseteq U16 /\ TxtLengths \subseteq U8

VARIABLES
    parser, len,
    questions,    \* turns left of the question loop
    total_rrs,    \* turns left of the record loop
    phase,        \* "header", "questions", "records", "rdata", "txt" or "done"
    pos,          \* the position in the message
    rdlen,        \* length field of the record at hand
    p,            \* the position in a TXT record
    reach,        \* end of the bytes that were indexed
    asked, walked \* names of questions and headers of records read

loop_vars == <<questions, total_rrs, asked, walked>>
vars == <<parser, len, loop_vars, phase, pos, rdlen, p, reach>>

Init ==
    /\ parser \in Parsers /\ len \in Lengths
    /\ questions \in Counts /\ total_rrs \in Counts
    /\ phase = "header"
    /\ pos = 0 /\ rdlen = 0 /\ p = 0 /\ reach = 0
    /\ asked = 0 /\ walked = 0

reading(to) == reach' = IF to > reach THEN to ELSE reach
done == phase' = "done"

\* The positions decode_label(data, from) may return; it may also fail.
decode_label(from) == (from + 1)..len

TooShort ==
    /\ phase = "header" /\ len < 12
    /\ done
    /\ UNCHANGED <<parser, len, loop_vars, pos, rdlen, p, reach>>

\* mdns.rs returns at once if no records are announced.
Header ==
    /\ phase = "header" /\ len >= 12
    /\ reading(12)
    /\ IF parser = "records" /\ total_rrs = 0
       THEN done /\ UNCHANGED pos
       ELSE phase' = "questions" /\ pos' = 12
    /\ UNCHANGED <<parser, len, loop_vars, rdlen, p>>

\* Mutant: the turn is counted and the name left where it is.
Question_stays ==
    /\ phase = "questions" /\ questions > 0
    /\ \E next \in decode_label(pos) : pos' = pos
    /\ questions' = questions - 1
    /\ asked' = asked + 1
    /\ UNCHANGED <<parser, len, total_rrs, walked, phase, rdlen, p, reach>>

Question ==
    /\ phase = "questions" /\ questions > 0
    /\ \E next \in decode_label(pos) : pos' = next + 4
    /\ questions' = questions - 1
    /\ asked' = asked + 1
    /\ UNCHANGED <<parser, len, total_rrs, walked, phase, rdlen, p, reach>>

\* passive.rs returns what it has, mdns.rs goes on to the records.
QuestionFails ==
    /\ phase = "questions" /\ questions > 0
    /\ phase' = IF parser = "services" THEN "done" ELSE "records"
    /\ UNCHANGED <<parser, len, loop_vars, pos, rdlen, p, reach>>

QuestionsDone ==
    /\ phase = "questions" /\ questions = 0
    /\ phase' = "records"
    /\ UNCHANGED <<parser, len, loop_vars, pos, rdlen, p, reach>>

\* Mutant: only the type and the class are known to be there.
Record_short ==
    /\ phase = "records" /\ total_rrs > 0 /\ pos < len
    /\ \E next \in decode_label(pos) :
          /\ next + 4 <= len
          /\ pos' = next + 10
          /\ reading(next + 10)
    /\ rdlen' \in RdLengths
    /\ total_rrs' = total_rrs - 1 /\ walked' = walked + 1
    /\ phase' = "rdata"
    /\ UNCHANGED <<parser, len, questions, asked, p>>

\* The name and the fixed part of a record.
Record ==
    /\ phase = "records" /\ total_rrs > 0 /\ pos < len
    /\ \E next \in decode_label(pos) :
          /\ next + 10 <= len
          /\ pos' = next + 10
          /\ reading(next + 10)
    /\ rdlen' \in RdLengths
    /\ total_rrs' = total_rrs - 1 /\ walked' = walked + 1
    /\ phase' = "rdata"
    /\ UNCHANGED <<parser, len, questions, asked, p>>

\* The loop ends, or one of its breaks is taken: nothing left, a name that
\* cannot be decoded, a fixed part that is cut off.
RecordsDone ==
    /\ phase = "records"
    /\ done
    /\ UNCHANGED <<parser, len, loop_vars, pos, rdlen, p, reach>>

\* PTR, SRV and A records decode names, at pos, pos + 6 and before; other types
\* are skipped.
Skip ==
    /\ phase = "rdata"
    /\ pos' = pos + rdlen
    /\ phase' = "records"
    /\ UNCHANGED <<parser, len, loop_vars, rdlen, p, reach>>

\* A TXT record, for mdns.rs.
Txt ==
    /\ phase = "rdata" /\ parser = "records"
    /\ p' = pos
    /\ phase' = "txt"
    /\ UNCHANGED <<parser, len, loop_vars, pos, rdlen, reach>>

txt_end == IF pos + rdlen < len THEN pos + rdlen ELSE len

\* A text of the record: it is sliced only if it ends within the record.
Text ==
    /\ phase = "txt" /\ p < txt_end
    /\ \E n \in TxtLengths :
          \/ /\ p + 1 + n <= txt_end
             /\ p' = p + 1 + n
             /\ reading(p + 1 + n)
             /\ UNCHANGED <<pos, phase>>
          \/ /\ p + 1 + n > txt_end
             /\ pos' = pos + rdlen
             /\ phase' = "records"
             /\ reading(p + 1)
             /\ UNCHANGED p
    /\ UNCHANGED <<parser, len, loop_vars, rdlen>>

TxtDone ==
    /\ phase = "txt" /\ p >= txt_end
    /\ pos' = pos + rdlen
    /\ phase' = "records"
    /\ UNCHANGED <<parser, len, loop_vars, rdlen, p, reach>>

Next ==
    \/ TooShort \/ Header
    \/ Question \/ QuestionFails \/ QuestionsDone
    \/ Record \/ RecordsDone
    \/ Skip \/ Txt \/ Text \/ TxtDone

Spec == Init /\ [][Next]_vars

-----------------------------------------------------------------------------
\* The variables have their types; in particular the loop counters, which are
\* unsigned in the code, never pass zero.
TypeOK ==
    /\ parser \in Parsers /\ len \in Lengths
    /\ questions \in Nat /\ total_rrs \in Nat
    /\ phase \in {"header", "questions", "records", "rdata", "txt", "done"}
    /\ pos \in Nat /\ rdlen \in U16 /\ p \in Nat /\ reach \in Nat
    /\ asked \in Nat /\ walked \in Nat

\* No index and no slice expression of the two parsers reaches beyond the
\* message, whatever its bytes and counts are: they cannot panic.
NoOverread == reach <= len

\* The work is bounded by the length of the message and not by the counts it
\* claims, of up to 65535 each: every question takes five bytes at least and
\* every record eleven.
BoundedWork == 5 * asked + 11 * walked <= len
=============================================================================
