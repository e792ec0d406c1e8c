----------------------------- MODULE MCListener -----------------------------
(***************************************************************************)
(* Instances of Listener for TLC: two hosts, i1/m1 and i2/m2, and one      *)
(* host o1/m1 beyond the local subnet, reached through host 1 (a router).  *)
(***************************************************************************)
EXTENDS Listener

CONSTANTS m1, m2, i1, i2, o1, s1, v1, vendor

MCgenerate(key) == key
MCTags == Keys
MCoui(mac) == [f \in Facts |-> IF mac = m1 THEN v1 ELSE NONE]

pair(ip, mac) == [ip |-> ip, mac |-> mac]

\* ARP requests and replies of the two hosts, a gratuitous ARP, an ARP frame
\* with unset fields, IPv4 traffic from inside and from beyond the subnet, an
\* IPv6 frame, a frame with a source no host has, and host 2 at host 1's address.
MCFrames ==
    {[type |-> "arp", src |-> m1, sender |-> pair(i1, m1), target |-> pair(i2, m2)],
     [type |-> "arp", src |-> m2, sender |-> pair(i2, m2), target |-> pair(i2, m2)],
     [type |-> "arp", src |-> m2, sender |-> pair(Unspecified, m2), target |-> pair(i1, Nil)],
     [type |-> "arp", src |-> m1, sender |-> pair(o1, m1), target |-> pair(i2, Nil)],
     [type |-> "ipv4", src |-> m1, ip |-> i1],
     [type |-> "ipv4", src |-> m1, ip |-> o1],
     [type |-> "other", src |-> m2],
     [type |-> "ipv4", src |-> Nil, ip |-> i2],
     [type |-> "ipv4", src |-> m2, ip |-> i1]}

MCArpTable == {pair(i1, m1), pair(i2, m2), pair(o1, m2)}
MCPackets ==
    {[ip |-> i1, services |-> {s1}], [ip |-> i2, services |-> {s1}],
     [ip |-> i2, services |-> {}]}

\* A smaller network, for liveness: host 1 is in the ARP table and answers mDNS.
LiveFrames ==
    {[type |-> "arp", src |-> m1, sender |-> pair(i1, m1), target |-> pair(i2, Nil)]}
LiveArpTable == {pair(i1, m1)}
LivePackets == {[ip |-> i1, services |-> {s1}], [ip |-> i2, services |-> {}]}

\* The registry an earlier scan left: host 1, at another address.
known_host(key, mac, ip) ==
    [key |-> key, mac |-> mac, last_ip |-> ip, ips |-> {ip}, tag |-> key,
     facts |-> [f \in Facts |-> NONE], services |-> {}, category |-> Unknown,
     first_seen |-> 0, last_seen |-> 0, seen_count |-> 1]

Fresh == {EmptyRegistry}
Scanned ==
    {EmptyRegistry,
     insert_record(EmptyRegistry, known_host(mac_key(m1), m1, i2))}
=============================================================================
