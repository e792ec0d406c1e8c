------------------------------ MODULE StoreOps ------------------------------
(***************************************************************************)
(* The data of the device registry of src/src/identity/store.rs, a map     *)
(* from keys to records, and the operations that change it, as operators   *)
(* on such a map.  The modules that keep a registry in a variable (Store,  *)
(* Listener) apply them to it.                                             *)
(*                                                                         *)
(* Abstractions.  vendor, hostname and os_hint are overwritten by the same *)
(* rule and are the fields of `facts`.  ips and services are vectors the   *)
(* code only extends by absent elements, and are sets here.  The tag       *)
(* generator (namer.rs) is an arbitrary function of the key.               *)
(***************************************************************************)
EXTENDS Naturals, Options

CONSTANTS
    Macs,         \* hardware addresses
    Ips,          \* IPv4 addresses
    Tags,         \* human-readable labels, generated or chosen by the user
    Facts,        \* names of the optional descriptive fields
    Values,       \* values of those fields
    Services,     \* mDNS service names
    Categories,   \* device categories, Unknown included
    Unknown,      \* the category of a device that no rule recognises
    Times,        \* readings of the wall clock, which may step back
    generate(_)   \* namer::generate

mac_key(mac) == <<"mac", mac>>
ip_key(ip) == <<"ip", ip>>

MacKeys == {mac_key(m) : m \in Macs}
IpKeys == {ip_key(i) : i \in Ips}
Keys == MacKeys \cup IpKeys

ASSUME StoreAssumption ==
    /\ NONE \notin Macs /\ NONE \notin Ips /\ NONE \notin Tags
    /\ NONE \notin Values /\ NONE \notin Categories
    /\ Unknown \in Categories
    /\ Times \subseteq Nat
    /\ \A k \in Keys : generate(k) \in Tags

\* device.rs: what one sighting tells about a host.
Device == [ip : Ips, mac : Option(Macs), facts : [Facts -> Option(Values)],
           services : SUBSET Services, category : Option(Categories)]

Record == [key : Keys, mac : Option(Macs), last_ip : Ips, ips : SUBSET Ips,
           tag : Tags, facts : [Facts -> Option(Values)],
           services : SUBSET Services, category : Option(Categories),
           first_seen : Nat, last_seen : Nat, seen_count : Nat]

\* A registry: the records of some of the keys.
IsRegistry(recs) == DOMAIN recs \subseteq Keys /\ recs \in [DOMAIN recs -> Record]

EmptyRegistry == [k \in {} |-> NONE]

-----------------------------------------------------------------------------
(***************************************************************************)
(* The helpers of store.rs.                                                *)
(***************************************************************************)

\* Mutant: the last sighting's category wins.
merge_category_latest(existing, incoming) ==
    IF incoming # NONE THEN incoming ELSE existing

merge_category(existing, incoming) ==
    IF \/ existing = NONE
       \/ existing = Unknown /\ incoming \notin {NONE, Unknown}
    THEN incoming
    ELSE existing

merge_facts(existing, incoming) ==
    [f \in Facts |-> IF incoming[f] # NONE THEN incoming[f] ELSE existing[f]]

insert_record(recs, r) ==
    [k \in DOMAIN recs \cup {r.key} |-> IF k = r.key THEN r ELSE recs[k]]

remove(recs, key) == [k \in DOMAIN recs \ {key} |-> recs[k]]

\* Mutant: the address history is replaced, not extended.
refresh_forgets_ips(r, d, now) ==
    [r EXCEPT !.last_ip = d.ip,
              !.ips = {d.ip},
              !.last_seen = now,
              !.seen_count = @ + 1,
              !.facts = merge_facts(@, d.facts),
              !.services = @ \cup d.services,
              !.category = merge_category(@, d.category)]

\* The update every path of upsert applies to the record it selected.
refresh(r, d, now) ==
    [r EXCEPT !.last_ip = d.ip,
              !.ips = @ \cup {d.ip},
              !.last_seen = now,
              !.seen_count = @ + 1,
              !.facts = merge_facts(@, d.facts),
              !.services = @ \cup d.services,
              !.category = merge_category(@, d.category)]

\* The or_insert_with closures: the record of a key met for the first time.
new_record(key, d, now) ==
    [key |-> key, mac |-> d.mac, last_ip |-> d.ip, ips |-> {d.ip},
     tag |-> generate(key), facts |-> d.facts, services |-> d.services,
     category |-> d.category, first_seen |-> now, last_seen |-> now,
     seen_count |-> 0]

\* Mutant: insert in place of entry().or_insert_with().
touch_afresh(recs, key, d, now) ==
    [records |-> insert_record(recs, refresh(new_record(key, d, now), d, now)),
     key |-> key]

\* entry(key).or_insert_with(..) followed by the update.
touch(recs, key, d, now) ==
    LET r == IF key \in DOMAIN recs THEN recs[key] ELSE new_record(key, d, now)
    IN  [records |-> insert_record(recs, refresh(r, d, now)), key |-> key]

\* Mutant: only the record keyed by the address itself is looked for.
existing_by_ip_key_only(recs, mkey, ip) == {ip_key(ip)} \cap DOMAIN recs

\* The keys existing_by_ip may hold for a host seen at ip: HashMap::values()
\* has no order, so any record of another key that was last seen there.
existing_by_ip(recs, mkey, ip) ==
    LET found == {r \in {recs[k] : k \in DOMAIN recs} :
                     r.last_ip = ip /\ r.key # mkey}
    IN  IF found # {} THEN {r.key : r \in found}
                      ELSE {ip_key(ip)} \cap DOMAIN recs

\* Mutant: the record keeps the key of its address.
promote_keeps_key(r, mac) ==
    IF r.mac = NONE THEN [r EXCEPT !.mac = mac] ELSE r

\* A record that has no mac yet takes the sighting's mac, and its key.
promote(r, mac) ==
    IF r.mac = NONE THEN [r EXCEPT !.mac = mac, !.key = mac_key(mac)] ELSE r

\* The sighting is credited to the record `old`, whatever its mac.
adopt(recs, old, d, now) ==
    LET r == promote(refresh(recs[old], d, now), d.mac)
    IN  [records |-> insert_record(remove(recs, old), r), key |-> r.key]

\* The outcomes of upsert: the new map and the key of the record it returns.
upsert(recs, d, now) ==
    IF d.mac = NONE
    THEN {touch(recs, ip_key(d.ip), d, now)}
    ELSE LET olds == existing_by_ip(recs, mac_key(d.mac), d.ip)
         IN  IF olds = {}
             THEN {touch(recs, mac_key(d.mac), d, now)}
             ELSE {IF old \in DOMAIN recs
                   THEN adopt(recs, old, d, now)
                   ELSE touch(recs, mac_key(d.mac), d, now) : old \in olds}

\* set_tag looks the mac's key up first and the ip's key second.
lookup_key(recs, mac, ip) ==
    IF mac # NONE /\ mac_key(mac) \in DOMAIN recs
    THEN mac_key(mac)
    ELSE ip_key(ip)

set_tag(recs, mac, ip, tag) ==
    LET k == lookup_key(recs, mac, ip)
    IN  IF k \in DOMAIN recs THEN [recs EXCEPT ![k].tag = tag] ELSE recs

-----------------------------------------------------------------------------
(***************************************************************************)
(* What a registry may be relied on for, as predicates on a map.           *)
(***************************************************************************)

\* A record is stored under the key it carries, and that key is the one of
\* its mac if it has one (upsert's remove / re-key / insert_record sequence).
KeyMatchesMac(recs) ==
    \A k \in DOMAIN recs :
        /\ recs[k].key = k
        /\ recs[k].mac = NONE => k \in IpKeys
        /\ recs[k].mac # NONE => k = mac_key(recs[k].mac)

\* The address history holds the last address.
HistoryHasLastIp(recs) == \A k \in DOMAIN recs : recs[k].last_ip \in recs[k].ips

\* A record without a mac never left the address it is keyed by.
IpRecordStays(recs) ==
    \A ip \in Ips : ip_key(ip) \in DOMAIN recs =>
        recs[ip_key(ip)].last_ip = ip /\ recs[ip_key(ip)].ips = {ip}

\* No two records claim the same last address.
DistinctLastIps(recs) ==
    \A k, l \in DOMAIN recs : recs[k].last_ip = recs[l].last_ip => k = l
=============================================================================
