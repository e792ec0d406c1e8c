------------------------------- MODULE Subnet -------------------------------
(***************************************************************************)
(* The IPv4 arithmetic of gannet.  Five files build a mask by              *)
(* !((1u32 << (32 - prefix)) - 1) and apply it with &: arp.rs, sweep.rs,   *)
(* passive.rs, survey.rs and commands.rs (all under src/src/).             *)
(*                                                                         *)
(* An address is the tuple of its four octets, and the mask is applied to  *)
(* each of them, which is what & does to the 32-bit number.                *)
(***************************************************************************)
EXTENDS Integers

Octet == 0..255
IsAddress(ip) == DOMAIN ip = 1..4 /\ \A i \in 1..4 : ip[i] \in Octet

\* 1u32 << (32 - prefix) shifts by the full width if prefix is 0: a panic in a
\* build with overflow checks, a shift by 0 in one without.
overflows(prefix) == prefix = 0

\* Mutant: the mask is built for one bit more.
kept_bits_short(prefix) == IF overflows(prefix) THEN 32 ELSE prefix - 1

\* The number of leading bits that the mask keeps.
kept_bits(prefix) == IF overflows(prefix) THEN 32 ELSE prefix

\* Those of octet i.
kept_in(prefix, i) ==
    LET rest == kept_bits(prefix) - 8 * (i - 1)
    IN  IF rest < 0 THEN 0 ELSE IF rest > 8 THEN 8 ELSE rest

\* u32::from(ip) & mask
network_base(ip, prefix) ==
    [i \in 1..4 |-> ip[i] - (ip[i] % 2^(8 - kept_in(prefix, i)))]

ip_in_subnet(ip, base, prefix) ==
    network_base(ip, prefix) = network_base(base, prefix)

\* The addresses subnet_iter yields: the block of the mask without last octets
\* 0 and 255.
subnet_iter(ip, base, prefix) ==
    ip_in_subnet(ip, base, prefix) /\ ip[4] \notin {0, 255}

\* Ipv4Addr::is_private and is_unspecified of the standard library.
is_private(ip) ==
    \/ ip[1] = 10
    \/ ip[1] = 172 /\ ip[2] \in 16..31
    \/ ip[1] = 192 /\ ip[2] = 168
is_unspecified(ip) == \A i \in 1..4 : ip[i] = 0

\* The order of u32::from(ip).
precedes(a, b) ==
    \E i \in 1..4 : a[i] < b[i] /\ \A j \in 1..(i - 1) : a[j] = b[j]

-----------------------------------------------------------------------------
\* Reference: ip and base agree in their first prefix bits.
bit(ip, n) == (ip[((n - 1) \div 8) + 1] \div 2^(7 - ((n - 1) % 8))) % 2
same_prefix(ip, base, prefix) == \A n \in 1..prefix : bit(ip, n) = bit(base, n)
=============================================================================
