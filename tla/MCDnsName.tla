----------------------------- MODULE MCDnsName -----------------------------
(***************************************************************************)
(* Every packet of up to MaxLen bytes over an alphabet with the root, short*)
(* labels, a label longer than any packet, pointers to low positions and a *)
(* pointer beyond the end (193 is 256 and more).                           *)
(***************************************************************************)
EXTENDS DnsName

CONSTANTS Alphabet, MaxLen

MCPackets == UNION {[1..n -> Alphabet] : n \in 0..MaxLen}
MCStarts == 0..MaxLen
=============================================================================
