-------------------------------- MODULE Store --------------------------------
(***************************************************************************)
(* The registry of src/src/identity/store.rs as a state machine: any       *)
(* sequence of upserts and taggings, starting from no file.                *)
(***************************************************************************)
EXTENDS StoreOps, Functions

CONSTANTS
    Devices,      \* the sightings the run feeds to upsert
    UserTags,     \* the labels the run feeds to the tag command
    MaxSightings  \* bound on the number of upserts

ASSUME RunAssumption ==
    /\ Devices \subseteq Device
    /\ UserTags \subseteq Tags
    /\ MaxSightings \in Nat

VARIABLES
    records,      \* Store::records
    returned,     \* what the last upsert returned, for which sighting
    sightings,    \* number of upserts so far
    macless       \* whether one of them was of a host whose mac is not known

store_vars == <<records, returned, sightings, macless>>

StoreInit ==
    /\ records = EmptyRegistry
    /\ returned = NONE
    /\ sightings = 0
    /\ macless = FALSE

\* Store::upsert, called by scan, survey and listen.
Upsert(d) ==
    /\ sightings < MaxSightings
    /\ \E now \in Times : \E res \in upsert(records, d, now) :
         /\ records' = res.records
         /\ returned' = [mac |-> d.mac, ip |-> d.ip, key |-> res.key]
    /\ sightings' = sightings + 1
    /\ macless' = (macless \/ d.mac = NONE)

\* Store::set_tag as `gannet tag <ip> <tag>` calls it, without a mac.
SetTag(ip, tag) ==
    /\ ip_key(ip) \in DOMAIN records
    /\ records' = set_tag(records, NONE, ip, tag)
    /\ returned' = NONE
    /\ UNCHANGED <<sightings, macless>>

StoreNext ==
    \/ \E d \in Devices : Upsert(d)
    \/ \E ip \in Ips, tag \in UserTags : SetTag(ip, tag)

StoreSpec == StoreInit /\ [][StoreNext]_store_vars

-----------------------------------------------------------------------------
(***************************************************************************)
(* Safety.                                                                 *)
(***************************************************************************)

\* Every record has its type.  In particular upsert always leaves a tag, so
\* the "-" that scan and list print in place of a missing one never shows.
StoreTypeOK ==
    /\ IsRegistry(records)
    /\ returned \in Option([mac : Option(Macs), ip : Ips, key : Keys])
    /\ sightings \in Nat /\ macless \in BOOLEAN

\* The identity of a record: key, mac, last address and history agree after
\* any sequence of upserts and taggings, whichever record upsert picks.  It
\* makes existing_by_ip's second lookup redundant: a record keyed by an
\* address is always found by its last_ip.
IdentityInv ==
    KeyMatchesMac(records) /\ HistoryHasLastIp(records) /\ IpRecordStays(records)

\* upsert returns a reference to a record that is in the map (no panic in
\* &self.records[&key]) and that was last seen where the host was sighted.
ReturnedIsCurrent ==
    returned # NONE =>
        /\ returned.key \in DOMAIN records
        /\ records[returned.key].last_ip = returned.ip

\* As long as every sighting carries a mac, as the listener's and those of the
\* ARP scan do, no two records claim the same last address ...
UniqueLastIp == macless \/ DistinctLastIps(records)

\* ... and no sighting is lost: the counts of the records add up to the number
\* of upserts.
EverySightingCounted ==
    macless \/ sightings = SumFunction([k \in DOMAIN records |-> records[k].seen_count])

-----------------------------------------------------------------------------
(***************************************************************************)
(* What a step may do to what is known about a host.                       *)
(***************************************************************************)

\* s knows all that r knows.
Continues(r, s) ==
    /\ r.mac # NONE => s.mac = r.mac
    /\ s.first_seen = r.first_seen
    /\ s.seen_count >= r.seen_count
    /\ r.ips \subseteq s.ips
    /\ r.services \subseteq s.services
    /\ r.category \notin {NONE, Unknown} => s.category = r.category
    /\ r.category # NONE => s.category # NONE
    /\ \A f \in Facts : r.facts[f] # NONE => s.facts[f] # NONE

\* The record of address key k is promoted to mac key m by this step.
PromotedTo(k, m) ==
    /\ k \in IpKeys \cap DOMAIN records /\ k \notin DOMAIN records'
    /\ m \in MacKeys \cap DOMAIN records'
    /\ Continues(records[k], records'[m])
    /\ records'[m].tag = records[k].tag

\* What a step may do to the record of key k: it lives on under its key, or is
\* promoted with its tag from an address key to a mac key; the one record that
\* may vanish is the one a promoted record replaces (store.rs:124).
Evolves(k) ==
    \/ k \in DOMAIN records' /\ Continues(records[k], records'[k])
    \/ \E m \in MacKeys : PromotedTo(k, m)
    \/ k \in MacKeys /\ \E i \in IpKeys : PromotedTo(i, k)

\* No upsert and no tagging forgets anything else about a host: addresses,
\* services, a known category, first_seen and known facts only grow.
RecordsEvolve == [][\A k \in DOMAIN records : Evolves(k)]_store_vars

\* What STATUS.md:95 says: "Categories survive IP changes and cross-scan
\* merges".  Here: the category known for a mac is still known after a step.
CategorySurvives ==
    [][\A k \in DOMAIN records \cap MacKeys :
          records[k].category \notin {NONE, Unknown} =>
             /\ k \in DOMAIN records'
             /\ records'[k].category = records[k].category]_store_vars

=============================================================================
