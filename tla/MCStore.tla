------------------------------ MODULE MCStore ------------------------------
(***************************************************************************)
(* Instances of Store for TLC.                                             *)
(***************************************************************************)
EXTENDS Store

CONSTANTS m1, i1

\* Tags are distinct per key, so that a tag tells whose record it was.
MCgenerate(key) == key
MCTags == Keys \cup {<<"user", "alice">>}
MCUserTags == {<<"user", "alice">>}
MCTimes == 0..1

plain(mac, ip) ==
    [ip |-> ip, mac |-> mac, facts |-> [f \in Facts |-> NONE], services |-> {},
     category |-> NONE]

\* Sightings of all hosts everywhere, with and without a mac, and at one address
\* those that say more: one descriptive field each.
MCDevices ==
    {plain(mac, ip) : mac \in Option(Macs), ip \in Ips}
    \cup {[plain(mac, i1) EXCEPT !.facts = f] : mac \in {m1, NONE}, f \in [Facts -> Values]}
    \cup {[plain(mac, i1) EXCEPT !.services = Services] : mac \in {m1, NONE}}
    \cup {[plain(mac, i1) EXCEPT !.category = c] : mac \in {m1, NONE}, c \in Categories}
=============================================================================
