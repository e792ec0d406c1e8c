---------------------------- MODULE StoreProofs ----------------------------
(***************************************************************************)
(* Proofs about Store, for any sets of addresses, labels and descriptions  *)
(* and any number of sightings.                                            *)
(*                                                                         *)
(* upsert is a set of outcomes; UpsertShape says that each of them either  *)
(* touches the record of the sighting's own key or adopts a record last    *)
(* seen at its address.  The lemmas that follow say what each of the two   *)
(* does to the registry, and the theorems apply them to the actions.       *)
(***************************************************************************)
EXTENDS Store, FiniteSetTheorems, WellFoundedInduction, TLAPS

\* The key under which upsert files a sighting that adopts no other record.
OwnKey(d) == IF d.mac = NONE THEN ip_key(d.ip) ELSE mac_key(d.mac)

\* A record whose fields agree, filed under k.
Sound(k, r) ==
    /\ r.key = k
    /\ r.mac = NONE => k = ip_key(r.last_ip) /\ r.ips = {r.last_ip}
    /\ r.mac # NONE => k = mac_key(r.mac)
    /\ r.last_ip \in r.ips

\* The inductive invariant, record by record.
AllSound(recs) == \A k \in DOMAIN recs : Sound(k, recs[k])

\* Every record has a mac.
AllMacs(recs) == \A k \in DOMAIN recs : recs[k].mac # NONE

LEMMA KeysDiffer ==
    /\ \A m \in Macs, i \in Ips : mac_key(m) # ip_key(i)
    /\ \A m, n \in Macs : mac_key(m) = mac_key(n) => m = n
    /\ \A i, j \in Ips : ip_key(i) = ip_key(j) => i = j
    /\ \A m \in Macs : mac_key(m) \in Keys
    /\ \A i \in Ips : ip_key(i) \in Keys
BY DEF mac_key, ip_key, Keys, MacKeys, IpKeys

\* AllSound is IdentityInv's three parts, folded into one.
LEMMA SoundIsIdentity ==
    ASSUME NEW recs, IsRegistry(recs)
    PROVE  AllSound(recs) => /\ KeyMatchesMac(recs)
                             /\ HistoryHasLastIp(recs)
                             /\ IpRecordStays(recs)
<1> SUFFICES ASSUME AllSound(recs) PROVE /\ KeyMatchesMac(recs)
                                         /\ HistoryHasLastIp(recs)
                                         /\ IpRecordStays(recs)
  OBVIOUS
<1>1. \A k \in DOMAIN recs : recs[k].last_ip \in Ips /\ recs[k].mac \in Option(Macs)
  BY DEF IsRegistry, Record
<1>2. KeyMatchesMac(recs)
  BY <1>1 DEF AllSound, Sound, KeyMatchesMac, IpKeys
<1>3. HistoryHasLastIp(recs)
  BY DEF AllSound, Sound, HistoryHasLastIp
<1>4. IpRecordStays(recs)
  <2> SUFFICES ASSUME NEW ip \in Ips, ip_key(ip) \in DOMAIN recs
               PROVE  recs[ip_key(ip)].last_ip = ip /\ recs[ip_key(ip)].ips = {ip}
    BY DEF IpRecordStays
  <2> DEFINE r == recs[ip_key(ip)]
  <2>1. Sound(ip_key(ip), r)
    BY DEF AllSound
  <2>2. r.mac = NONE
    BY <2>1, <1>1, KeysDiffer DEF Sound, Option
  <2> QED
    BY <2>1, <2>2, <1>1, KeysDiffer DEF Sound
<1> QED
  BY <1>2, <1>3, <1>4

\* The new record of a key, and the refreshed one, are records.
LEMMA MergeCategoryType ==
    ASSUME NEW a \in Option(Categories), NEW b \in Option(Categories)
    PROVE  merge_category(a, b) \in Option(Categories)
BY DEF merge_category

LEMMA MergeFactsType ==
    ASSUME NEW a \in [Facts -> Option(Values)], NEW b \in [Facts -> Option(Values)]
    PROVE  merge_facts(a, b) \in [Facts -> Option(Values)]
BY DEF merge_facts

LEMMA RefreshType ==
    ASSUME NEW r \in Record, NEW d \in Device, NEW now \in Times
    PROVE  LET s == refresh(r, d, now) IN
           /\ s \in Record
           /\ s.key = r.key /\ s.mac = r.mac /\ s.tag = r.tag
           /\ s.last_ip = d.ip /\ s.ips = r.ips \cup {d.ip}
           /\ s.seen_count = r.seen_count + 1
<1> DEFINE cat == merge_category(r.category, d.category)
           fac == merge_facts(r.facts, d.facts)
<1>1. cat \in Option(Categories)
  BY MergeCategoryType DEF Record, Device
<1>2. fac \in [Facts -> Option(Values)]
  BY MergeFactsType DEF Record, Device
<1>3. now \in Nat
  BY StoreAssumption
<1> HIDE DEF cat, fac
<1> DEFINE s == [key |-> r.key, mac |-> r.mac, last_ip |-> d.ip,
                 ips |-> r.ips \cup {d.ip}, tag |-> r.tag, facts |-> fac,
                 services |-> r.services \cup d.services, category |-> cat,
                 first_seen |-> r.first_seen, last_seen |-> now,
                 seen_count |-> r.seen_count + 1]
<1>4. refresh(r, d, now) = s
  <2>1. r = [key |-> r.key, mac |-> r.mac, last_ip |-> r.last_ip,
             ips |-> r.ips, tag |-> r.tag, facts |-> r.facts,
             services |-> r.services, category |-> r.category,
             first_seen |-> r.first_seen, last_seen |-> r.last_seen,
             seen_count |-> r.seen_count]
    BY DEF Record
  <2>2. refresh(r, d, now) =
          [r EXCEPT !.last_ip = d.ip, !.ips = r.ips \cup {d.ip},
                    !.last_seen = now, !.seen_count = r.seen_count + 1,
                    !.facts = fac, !.services = r.services \cup d.services,
                    !.category = cat]
    BY DEF refresh, cat, fac
  <2> QED
    BY <2>1, <2>2
<1>5. s \in Record
  BY <1>1, <1>2, <1>3 DEF Record, Device
<1> QED
  BY <1>4, <1>5

LEMMA NewRecordType ==
    ASSUME NEW d \in Device, NEW now \in Times
    PROVE  LET s == new_record(OwnKey(d), d, now) IN
           /\ s \in Record
           /\ s.key = OwnKey(d) /\ s.mac = d.mac
           /\ s.last_ip = d.ip /\ s.ips = {d.ip} /\ s.seen_count = 0
<1>1. OwnKey(d) \in Keys
  BY KeysDiffer DEF OwnKey, Device, Option
<1>2. generate(OwnKey(d)) \in Tags /\ now \in Nat
  BY <1>1, StoreAssumption
<1> QED
  BY <1>1, <1>2 DEF new_record, Record, Device

LEMMA PromoteType ==
    ASSUME NEW r \in Record, NEW mac \in Macs
    PROVE  LET s == promote(r, mac) IN
           /\ s \in Record
           /\ s.last_ip = r.last_ip /\ s.ips = r.ips /\ s.tag = r.tag
           /\ s.seen_count = r.seen_count
           /\ r.mac = NONE => s.mac = mac /\ s.key = mac_key(mac)
           /\ r.mac # NONE => s = r
BY KeysDiffer DEF promote, Record, Option

\* What insert_record and remove do to a registry.
LEMMA InsertType ==
    ASSUME NEW recs, IsRegistry(recs), NEW r \in Record
    PROVE  LET new == insert_record(recs, r) IN
           /\ IsRegistry(new)
           /\ DOMAIN new = DOMAIN recs \cup {r.key}
           /\ new[r.key] = r
           /\ \A k \in DOMAIN recs : k # r.key => new[k] = recs[k]
<1>1. r.key \in Keys
  BY DEF Record
<1> QED
  BY <1>1 DEF insert_record, IsRegistry

LEMMA RemoveType ==
    ASSUME NEW recs, IsRegistry(recs), NEW key
    PROVE  LET new == remove(recs, key) IN
           /\ IsRegistry(new)
           /\ DOMAIN new = DOMAIN recs \ {key}
           /\ \A k \in DOMAIN new : new[k] = recs[k]
BY DEF remove, IsRegistry

-----------------------------------------------------------------------------
(***************************************************************************)
(* The two things an upsert can do.                                        *)
(***************************************************************************)

\* The sighting is filed under its own key ...
Touched(recs, d, now, out) == out = touch(recs, OwnKey(d), d, now)

\* ... or credited to the record of another key that was last seen there.
Adopted(recs, d, now, out, old) ==
    /\ d.mac # NONE
    /\ old \in DOMAIN recs /\ old # mac_key(d.mac)
    /\ recs[old].last_ip = d.ip
    /\ out = adopt(recs, old, d, now)

LEMMA UpsertShape ==
    ASSUME NEW recs, IsRegistry(recs), AllSound(recs),
           NEW d \in Device, NEW now \in Times, NEW out \in upsert(recs, d, now)
    PROVE  Touched(recs, d, now, out) \/ \E old : Adopted(recs, d, now, out, old)
<1>1. CASE d.mac = NONE
  BY <1>1 DEF upsert, Touched, OwnKey
<1>2. CASE d.mac # NONE
  <2> DEFINE mkey == mac_key(d.mac)
             olds == existing_by_ip(recs, mkey, d.ip)
  <2>1. CASE olds = {}
    BY <1>2, <2>1 DEF upsert, Touched, OwnKey
  <2>2. CASE olds # {}
    <3>1. PICK old \in olds :
            out = IF old \in DOMAIN recs THEN adopt(recs, old, d, now)
                                         ELSE touch(recs, mkey, d, now)
      BY <1>2, <2>2 DEF upsert
    <3>2. CASE old \notin DOMAIN recs
      BY <1>2, <3>1, <3>2 DEF Touched, OwnKey
    <3>3. CASE old \in DOMAIN recs
      <4>1. Sound(old, recs[old])
        BY <3>3 DEF AllSound
      <4>2. CASE \E k \in DOMAIN recs : recs[k].last_ip = d.ip /\ recs[k].key # mkey
        <5>1. PICK k \in DOMAIN recs :
                recs[k].last_ip = d.ip /\ recs[k].key # mkey /\ old = recs[k].key
          BY <3>1, <4>2 DEF existing_by_ip
        <5>2. k = old
          BY <5>1 DEF AllSound, Sound
        <5> QED
          BY <1>2, <3>1, <3>3, <5>1, <5>2 DEF Adopted
      <4>3. CASE ~ \E k \in DOMAIN recs : recs[k].last_ip = d.ip /\ recs[k].key # mkey
        <5>1. old = ip_key(d.ip)
          BY <3>1, <4>3 DEF existing_by_ip
        <5>2. d.mac \in Macs /\ d.ip \in Ips
          BY <1>2 DEF Device, Option
        <5>3. recs[old].mac \in Option(Macs) /\ recs[old].last_ip \in Ips
          BY <3>3 DEF IsRegistry, Record
        <5>4. recs[old].mac = NONE
          BY <4>1, <5>1, <5>2, <5>3, KeysDiffer DEF Sound, Option
        <5>5. recs[old].last_ip = d.ip /\ old # mkey
          BY <4>1, <5>1, <5>2, <5>3, <5>4, KeysDiffer DEF Sound
        <5> QED
          BY <1>2, <3>1, <3>3, <5>5 DEF Adopted
      <4> QED
        BY <4>2, <4>3
    <3> QED
      BY <3>2, <3>3
  <2> QED
    BY <2>1, <2>2
<1> QED
  BY <1>1, <1>2

\* touch changes the record of the sighting's own key and no other.
LEMMA TouchEffect ==
    ASSUME NEW recs, IsRegistry(recs), AllSound(recs),
           NEW d \in Device, NEW now \in Times
    PROVE  LET out == touch(recs, OwnKey(d), d, now) IN
           /\ IsRegistry(out.records) /\ AllSound(out.records)
           /\ out.key = OwnKey(d) /\ out.key \in Keys
           /\ DOMAIN out.records = DOMAIN recs \cup {out.key}
           /\ \A k \in DOMAIN recs : k # out.key => out.records[k] = recs[k]
           /\ out.key \in DOMAIN recs =>
                 out.records[out.key] = refresh(recs[out.key], d, now)
           /\ out.records[out.key].last_ip = d.ip
           /\ out.records[out.key].seen_count =
                 (IF out.key \in DOMAIN recs THEN recs[out.key].seen_count ELSE 0) + 1
<1> DEFINE key == OwnKey(d)
           r == IF key \in DOMAIN recs THEN recs[key] ELSE new_record(key, d, now)
           s == refresh(r, d, now)
           out == touch(recs, key, d, now)
<1>0. /\ d.ip \in Ips /\ d.mac \in Option(Macs) /\ key \in Keys
      /\ d.mac = NONE => key = ip_key(d.ip)
      /\ d.mac # NONE => key = mac_key(d.mac) /\ d.mac \in Macs
  BY KeysDiffer DEF Device, OwnKey, Option
<1>1. r \in Record /\ r.key = key
  BY NewRecordType DEF IsRegistry, AllSound, Sound
<1>2. Sound(key, r)
  <2>1. CASE key \in DOMAIN recs
    BY <2>1 DEF AllSound
  <2>2. CASE key \notin DOMAIN recs
    BY <2>2, <1>0, NewRecordType DEF Sound
  <2> QED
    BY <2>1, <2>2
<1>3. /\ s \in Record /\ s.key = key /\ s.mac = r.mac
      /\ s.last_ip = d.ip /\ s.ips = r.ips \cup {d.ip}
  BY <1>1, RefreshType
<1>4. s.seen_count = r.seen_count + 1
  BY <1>1, RefreshType
<1> HIDE DEF s
<1>5. Sound(key, s)
  <2>1. CASE r.mac = NONE
    <3>1. key = ip_key(r.last_ip) /\ r.ips = {r.last_ip} /\ r.last_ip \in Ips
      BY <1>1, <1>2, <2>1 DEF Sound, Record
    <3>2. r.last_ip = d.ip
      BY <1>0, <3>1, KeysDiffer
    <3> QED
      BY <1>3, <2>1, <3>1, <3>2 DEF Sound
  <2>2. CASE r.mac # NONE
    BY <1>2, <1>3, <2>2 DEF Sound
  <2> QED
    BY <2>1, <2>2
<1>6. out.records = insert_record(recs, s) /\ out.key = key
  BY DEF touch, s
<1>7. /\ IsRegistry(out.records)
      /\ DOMAIN out.records = DOMAIN recs \cup {key}
      /\ out.records[key] = s
      /\ \A k \in DOMAIN recs : k # key => out.records[k] = recs[k]
  BY <1>3, <1>6, InsertType
<1>8. AllSound(out.records)
  BY <1>5, <1>7 DEF AllSound
<1>9. key \in DOMAIN recs => s = refresh(recs[key], d, now)
  BY DEF s
<1>10. s.seen_count = (IF key \in DOMAIN recs THEN recs[key].seen_count ELSE 0) + 1
  BY <1>4, NewRecordType
<1> QED
  BY <1>0, <1>3, <1>6, <1>7, <1>8, <1>9, <1>10

\* adopt removes the adopted record and files it again: under its own key, or,
\* if it had no mac, under the sighting's mac key.
LEMMA AdoptEffect ==
    ASSUME NEW recs, IsRegistry(recs), AllSound(recs),
           NEW d \in Device, NEW now \in Times, NEW out, NEW old,
           Adopted(recs, d, now, out, old)
    PROVE  /\ IsRegistry(out.records) /\ AllSound(out.records)
           /\ out.key \in Keys
           /\ out.key = IF recs[old].mac = NONE THEN mac_key(d.mac) ELSE old
           /\ DOMAIN out.records = (DOMAIN recs \ {old}) \cup {out.key}
           /\ \A k \in DOMAIN recs \ {old, out.key} : out.records[k] = recs[k]
           /\ out.records[out.key] = promote(refresh(recs[old], d, now), d.mac)
           /\ out.records[out.key].last_ip = d.ip
           /\ recs[old].mac = NONE => old = ip_key(d.ip)
<1> DEFINE r == recs[old]
           s == refresh(r, d, now)
           t == promote(s, d.mac)
<1>1. /\ old \in DOMAIN recs /\ r.last_ip = d.ip
      /\ out = adopt(recs, old, d, now)
      /\ d.mac \in Macs /\ d.ip \in Ips
  BY DEF Adopted, Device, Option
<1>2. r \in Record /\ Sound(old, r)
  BY <1>1 DEF IsRegistry, AllSound
<1>3. /\ s \in Record /\ s.key = r.key /\ s.mac = r.mac
      /\ s.last_ip = d.ip /\ s.ips = r.ips \cup {d.ip}
  BY <1>2, RefreshType
<1>4. /\ t \in Record /\ t.last_ip = d.ip /\ t.ips = r.ips \cup {d.ip}
      /\ r.mac = NONE => t.mac = d.mac /\ t.key = mac_key(d.mac)
      /\ r.mac # NONE => t.mac = r.mac /\ t.key = r.key
  BY <1>1, <1>3, PromoteType
<1>5. out.records = insert_record(remove(recs, old), t) /\ out.key = t.key
  BY <1>1 DEF adopt
<1> HIDE DEF s, t
<1>6. Sound(t.key, t)
  <2>1. d.mac # NONE
    BY DEF Adopted
  <2> QED
    BY <1>2, <1>4, <2>1 DEF Sound
<1>7. /\ IsRegistry(out.records)
      /\ DOMAIN out.records = (DOMAIN recs \ {old}) \cup {t.key}
      /\ out.records[t.key] = t
      /\ \A k \in DOMAIN recs \ {old} : k # t.key => out.records[k] = recs[k]
  <2> DEFINE rest == remove(recs, old)
  <2>1. /\ IsRegistry(rest) /\ DOMAIN rest = DOMAIN recs \ {old}
        /\ \A k \in DOMAIN rest : rest[k] = recs[k]
    BY RemoveType
  <2> HIDE DEF rest
  <2>2. LET new == insert_record(rest, t) IN
        /\ IsRegistry(new)
        /\ DOMAIN new = DOMAIN rest \cup {t.key}
        /\ new[t.key] = t
        /\ \A k \in DOMAIN rest : k # t.key => new[k] = rest[k]
    BY <1>4, <2>1, InsertType
  <2> QED
    BY <1>5, <2>1, <2>2 DEF rest
<1>8. AllSound(out.records)
  BY <1>6, <1>7 DEF AllSound
<1>9. t.key \in Keys
  BY <1>4 DEF Record
<1>10. r.mac = NONE => old = ip_key(d.ip)
  BY <1>1, <1>2 DEF Sound
<1>11. t.key = IF r.mac = NONE THEN mac_key(d.mac) ELSE old
  BY <1>2, <1>4 DEF Sound
<1>12. t = promote(refresh(recs[old], d, now), d.mac)
  BY DEF s, t
<1> QED
  BY <1>4, <1>5, <1>7, <1>8, <1>9, <1>10, <1>11, <1>12

\* An upsert keeps the registry well formed and returns a record of it that
\* was last seen where the host was sighted.
LEMMA UpsertEffect ==
    ASSUME NEW recs, IsRegistry(recs), AllSound(recs),
           NEW d \in Device, NEW now \in Times, NEW out \in upsert(recs, d, now)
    PROVE  /\ IsRegistry(out.records) /\ AllSound(out.records)
           /\ out.key \in DOMAIN out.records /\ out.key \in Keys
           /\ out.records[out.key].last_ip = d.ip
<1>1. CASE Touched(recs, d, now, out)
  BY <1>1, TouchEffect DEF Touched
<1>2. CASE \E old : Adopted(recs, d, now, out, old)
  <2>1. PICK old : Adopted(recs, d, now, out, old)
    BY <1>2
  <2>2. /\ IsRegistry(out.records) /\ AllSound(out.records)
        /\ out.key \in Keys
        /\ DOMAIN out.records = (DOMAIN recs \ {old}) \cup {out.key}
        /\ out.records[out.key].last_ip = d.ip
    BY <2>1, AdoptEffect
  <2> QED
    BY <2>2
<1> QED
  BY <1>1, <1>2, UpsertShape

\* Any registry stays one, also one whose records are not sound (a file that
\* was edited by hand).
LEMMA UpsertType ==
    ASSUME NEW recs, IsRegistry(recs), NEW d \in Device, NEW now \in Times,
           NEW out \in upsert(recs, d, now)
    PROVE  IsRegistry(out.records)
<1>1. ASSUME out = touch(recs, OwnKey(d), d, now) PROVE IsRegistry(out.records)
  <2> DEFINE r == IF OwnKey(d) \in DOMAIN recs THEN recs[OwnKey(d)]
                                               ELSE new_record(OwnKey(d), d, now)
  <2>1. r \in Record
    BY NewRecordType DEF IsRegistry
  <2> HIDE DEF r
  <2>2. refresh(r, d, now) \in Record
    BY <2>1, RefreshType
  <2>3. IsRegistry(insert_record(recs, refresh(r, d, now)))
    BY <2>2, InsertType
  <2> QED
    BY <1>1, <2>3 DEF touch, r
<1>2. ASSUME NEW old \in DOMAIN recs, d.mac # NONE, out = adopt(recs, old, d, now)
      PROVE  IsRegistry(out.records)
  <2>1. recs[old] \in Record /\ d.mac \in Macs
    BY <1>2 DEF IsRegistry, Device, Option
  <2>2. refresh(recs[old], d, now) \in Record
    BY <2>1, RefreshType
  <2>3. promote(refresh(recs[old], d, now), d.mac) \in Record
    BY <2>1, <2>2, PromoteType
  <2>4. IsRegistry(remove(recs, old))
    BY RemoveType
  <2>5. IsRegistry(insert_record(remove(recs, old),
                                 promote(refresh(recs[old], d, now), d.mac)))
    BY <2>3, <2>4, InsertType
  <2> QED
    BY <1>2, <2>5 DEF adopt
<1>3. \/ out = touch(recs, OwnKey(d), d, now)
      \/ d.mac # NONE /\ \E old \in DOMAIN recs : out = adopt(recs, old, d, now)
  BY DEF upsert, OwnKey
<1> QED
  BY <1>1, <1>2, <1>3

\* An upsert of a sighting with a mac into a registry of records with macs
\* forgets no address, and learns the one of the sighting.
LEMMA UpsertRemembers ==
    ASSUME NEW recs, IsRegistry(recs), AllSound(recs), AllMacs(recs),
           NEW d \in Device, d.mac # NONE, NEW now \in Times,
           NEW out \in upsert(recs, d, now)
    PROVE  /\ AllSound(out.records) /\ AllMacs(out.records)
           /\ \E k \in DOMAIN out.records : d.ip \in out.records[k].ips
           /\ \A k \in DOMAIN recs :
                 k \in DOMAIN out.records /\ recs[k].ips \subseteq out.records[k].ips
<1> DEFINE new == out.records
<1>1. /\ IsRegistry(new) /\ AllSound(new)
      /\ out.key \in DOMAIN new /\ new[out.key].last_ip = d.ip
  BY UpsertEffect
<1>2. d.ip \in new[out.key].ips
  BY <1>1 DEF AllSound, Sound
<1>3. d.mac \in Macs
  BY DEF Device, Option
<1>4. \A k \in DOMAIN recs : recs[k] \in Record /\ recs[k].mac \in Macs
  BY DEF IsRegistry, Record, Option, AllMacs
<1>5. CASE Touched(recs, d, now, out)
  <2>1. /\ out.key = mac_key(d.mac)
        /\ DOMAIN new = DOMAIN recs \cup {out.key}
        /\ \A k \in DOMAIN recs : k # out.key => new[k] = recs[k]
        /\ out.key \in DOMAIN recs => new[out.key] = refresh(recs[out.key], d, now)
    BY <1>5, TouchEffect DEF Touched, OwnKey
  <2>2. new[out.key].mac # NONE
    <3>1. new[out.key].mac = NONE => out.key = ip_key(new[out.key].last_ip)
      BY <1>1 DEF AllSound, Sound
    <3>2. new[out.key].last_ip \in Ips
      BY <1>1 DEF IsRegistry, Record
    <3> QED
      BY <1>3, <2>1, <3>1, <3>2, KeysDiffer
  <2>3. \A k \in DOMAIN recs : recs[k].ips \subseteq new[k].ips
    BY <1>4, <2>1, RefreshType
  <2> QED
    BY <1>1, <1>2, <2>1, <2>2, <2>3 DEF AllMacs
<1>6. CASE \E old : Adopted(recs, d, now, out, old)
  <2>1. PICK old : Adopted(recs, d, now, out, old)
    BY <1>6
  <2>2. old \in DOMAIN recs
    BY <2>1 DEF Adopted
  <2>3. /\ out.key = old /\ DOMAIN new = DOMAIN recs
        /\ \A k \in DOMAIN recs \ {old} : new[k] = recs[k]
        /\ new[old] = promote(refresh(recs[old], d, now), d.mac)
    <3>1. recs[old].mac # NONE
      BY <2>2 DEF AllMacs
    <3>2. /\ out.key = IF recs[old].mac = NONE THEN mac_key(d.mac) ELSE old
          /\ DOMAIN new = (DOMAIN recs \ {old}) \cup {out.key}
          /\ \A k \in DOMAIN recs \ {old, out.key} : new[k] = recs[k]
          /\ new[out.key] = promote(refresh(recs[old], d, now), d.mac)
      BY <2>1, AdoptEffect
    <3> QED
      BY <2>2, <3>1, <3>2
  <2>4. /\ refresh(recs[old], d, now) \in Record
        /\ refresh(recs[old], d, now).mac = recs[old].mac
        /\ refresh(recs[old], d, now).ips = recs[old].ips \cup {d.ip}
    BY <1>4, <2>2, RefreshType
  <2>5. new[old].mac # NONE /\ recs[old].ips \subseteq new[old].ips
    BY <1>3, <2>2, <2>3, <2>4, PromoteType DEF AllMacs
  <2> QED
    BY <1>1, <1>2, <2>3, <2>5 DEF AllMacs
<1> QED
  BY <1>5, <1>6, UpsertShape

\* set_tag changes the tag of one record.
LEMMA SetTagEffect ==
    ASSUME NEW recs, IsRegistry(recs), NEW ip \in Ips, NEW tag \in Tags,
           ip_key(ip) \in DOMAIN recs
    PROVE  LET new == set_tag(recs, NONE, ip, tag) IN
           /\ IsRegistry(new)
           /\ DOMAIN new = DOMAIN recs
           /\ \A k \in DOMAIN recs : k # ip_key(ip) => new[k] = recs[k]
           /\ new[ip_key(ip)] = [recs[ip_key(ip)] EXCEPT !.tag = tag]
<1> DEFINE key == ip_key(ip)
           r == [recs[key] EXCEPT !.tag = tag]
<1>1. set_tag(recs, NONE, ip, tag) = [recs EXCEPT ![key] = r]
  BY DEF set_tag, lookup_key
<1>2. r \in Record
  BY DEF Record, IsRegistry
<1> HIDE DEF r
<1>3. IsRegistry([recs EXCEPT ![key] = r])
  BY <1>2 DEF IsRegistry
<1> QED
  BY <1>1, <1>3 DEF IsRegistry, r

-----------------------------------------------------------------------------
(***************************************************************************)
(* The theorems.                                                           *)
(***************************************************************************)

\* The inductive invariant of StoreSpec.
StoreInv == StoreTypeOK /\ AllSound(records)

LEMMA StoreInitInv == StoreInit => StoreInv
<1> SUFFICES ASSUME StoreInit PROVE StoreInv
  OBVIOUS
<1>1. IsRegistry(records) /\ AllSound(records)
  BY DEF StoreInit, IsRegistry, AllSound, EmptyRegistry
<1>2. returned \in Option([mac : Option(Macs), ip : Ips, key : Keys]) /\ sightings \in Nat
  BY DEF StoreInit, Option
<1>3. macless \in BOOLEAN
  BY DEF StoreInit
<1> QED
  BY <1>1, <1>2, <1>3 DEF StoreInv, StoreTypeOK

LEMMA UpsertInv ==
    ASSUME StoreInv, NEW d \in Devices, Upsert(d)
    PROVE  StoreInv' /\ ReturnedIsCurrent'
<1>1. d \in Device
  BY RunAssumption
<1>0. PICK now \in Times : \E out \in upsert(records, d, now) :
        /\ records' = out.records
        /\ returned' = [mac |-> d.mac, ip |-> d.ip, key |-> out.key]
  BY DEF Upsert
<1>2. PICK out \in upsert(records, d, now) :
        /\ records' = out.records
        /\ returned' = [mac |-> d.mac, ip |-> d.ip, key |-> out.key]
  BY <1>0
<1>3. /\ IsRegistry(out.records) /\ AllSound(out.records)
      /\ out.key \in DOMAIN out.records /\ out.key \in Keys
      /\ out.records[out.key].last_ip = d.ip
  BY <1>1, UpsertEffect DEF StoreInv, StoreTypeOK
<1>4. returned' \in Option([mac : Option(Macs), ip : Ips, key : Keys])
  BY <1>1, <1>2, <1>3 DEF Device, Option
<1>5. sightings' \in Nat /\ macless' \in BOOLEAN
  BY DEF StoreInv, StoreTypeOK, Upsert
<1> QED
  BY <1>2, <1>3, <1>4, <1>5 DEF StoreInv, StoreTypeOK, ReturnedIsCurrent

LEMMA SetTagInv ==
    ASSUME StoreInv, NEW ip \in Ips, NEW tag \in UserTags, SetTag(ip, tag)
    PROVE  StoreInv' /\ ReturnedIsCurrent'
<1>1. tag \in Tags /\ ip_key(ip) \in DOMAIN records
  BY RunAssumption DEF SetTag
<1>2. IsRegistry(records)
  BY DEF StoreInv, StoreTypeOK
<1>3. records' = set_tag(records, NONE, ip, tag) /\ returned' = NONE
  BY DEF SetTag
<1>4. /\ IsRegistry(records')
      /\ DOMAIN records' = DOMAIN records
      /\ \A k \in DOMAIN records : k # ip_key(ip) => records'[k] = records[k]
      /\ records'[ip_key(ip)] = [records[ip_key(ip)] EXCEPT !.tag = tag]
  BY <1>1, <1>2, <1>3, SetTagEffect
<1>5. records[ip_key(ip)] \in Record
  BY <1>1, <1>2 DEF IsRegistry
<1>6. AllSound(records')
  BY <1>1, <1>4, <1>5 DEF StoreInv, AllSound, Sound, Record
<1> QED
  BY <1>3, <1>4, <1>6 DEF StoreInv, StoreTypeOK, Option, SetTag, ReturnedIsCurrent

LEMMA StoreNextInv == StoreInv /\ ReturnedIsCurrent /\ [StoreNext]_store_vars => StoreInv' /\ ReturnedIsCurrent'
<1> SUFFICES ASSUME StoreInv, ReturnedIsCurrent, [StoreNext]_store_vars
             PROVE  StoreInv' /\ ReturnedIsCurrent'
  OBVIOUS
<1>1. CASE \E d \in Devices : Upsert(d)
  BY <1>1, UpsertInv
<1>2. CASE \E ip \in Ips, tag \in UserTags : SetTag(ip, tag)
  BY <1>2, SetTagInv
<1>3. CASE UNCHANGED store_vars
  BY <1>3 DEF store_vars, StoreInv, StoreTypeOK, ReturnedIsCurrent
<1> QED
  BY <1>1, <1>2, <1>3 DEF StoreNext

LEMMA StoreInvHolds == StoreSpec => [](StoreInv /\ ReturnedIsCurrent)
<1>1. StoreInit => ReturnedIsCurrent
  BY DEF StoreInit, ReturnedIsCurrent
<1> QED
  BY <1>1, StoreInitInv, StoreNextInv, PTL DEF StoreSpec

\* Every reachable registry is well typed: each record of upsert and set_tag
\* keeps all its fields, its tag included.
THEOREM StoreTypeCorrect == StoreSpec => []StoreTypeOK
<1>1. StoreInv => StoreTypeOK
  BY DEF StoreInv
<1> QED
  BY <1>1, StoreInvHolds, PTL

\* Key, mac, last address and address history of every record agree in every
\* reachable registry, whichever record upsert's unordered search picks.
THEOREM IdentityCorrect == StoreSpec => []IdentityInv
<1>1. StoreInv => IdentityInv
  BY SoundIsIdentity DEF StoreInv, StoreTypeOK, IdentityInv
<1> QED
  BY <1>1, StoreInvHolds, PTL

\* upsert never panics on its final lookup, and the record it returns is at
\* the sighting's address.
THEOREM ReturnedCorrect == StoreSpec => []ReturnedIsCurrent
BY StoreInvHolds, PTL

-----------------------------------------------------------------------------
\* With a mac in the sighting, the record it is credited to is the only one
\* left at that address.
LEMMA UpsertDistinct ==
    ASSUME NEW recs, IsRegistry(recs), AllSound(recs), DistinctLastIps(recs),
           NEW d \in Device, d.mac # NONE, NEW now \in Times,
           NEW out \in upsert(recs, d, now)
    PROVE  DistinctLastIps(out.records)
<1>1. CASE Touched(recs, d, now, out) /\ ~ \E old : Adopted(recs, d, now, out, old)
  <2>1. /\ out.key = mac_key(d.mac)
        /\ DOMAIN out.records = DOMAIN recs \cup {out.key}
        /\ \A k \in DOMAIN recs : k # out.key => out.records[k] = recs[k]
        /\ out.records[out.key].last_ip = d.ip
    BY <1>1, TouchEffect DEF Touched, OwnKey
  <2>2. \A k \in DOMAIN recs : k # mac_key(d.mac) => recs[k].last_ip # d.ip
    <3> SUFFICES ASSUME NEW k \in DOMAIN recs, k # mac_key(d.mac),
                        recs[k].last_ip = d.ip
                 PROVE  FALSE
      OBVIOUS
    <3> DEFINE olds == existing_by_ip(recs, mac_key(d.mac), d.ip)
    <3>1. olds # {} /\ olds \subseteq DOMAIN recs
      BY DEF existing_by_ip, AllSound, Sound
    <3>2. PICK old \in olds : out = adopt(recs, old, d, now)
      BY <3>1 DEF upsert
    <3>3. recs[old].last_ip = d.ip /\ old # mac_key(d.mac)
      BY DEF existing_by_ip, AllSound, Sound
    <3> QED
      BY <1>1, <3>1, <3>2, <3>3 DEF Adopted
  <2> QED
    BY <2>1, <2>2 DEF DistinctLastIps
<1>2. CASE \E old : Adopted(recs, d, now, out, old)
  <2>1. PICK old : Adopted(recs, d, now, out, old)
    BY <1>2
  <2>2. /\ DOMAIN out.records = (DOMAIN recs \ {old}) \cup {out.key}
        /\ \A k \in DOMAIN recs \ {old, out.key} : out.records[k] = recs[k]
        /\ out.records[out.key].last_ip = d.ip
    BY <2>1, AdoptEffect
  <2>3. \A k \in DOMAIN recs \ {old} : recs[k].last_ip # d.ip
    BY <2>1 DEF Adopted, DistinctLastIps
  <2> QED
    BY <2>2, <2>3 DEF DistinctLastIps
<1> QED
  BY <1>1, <1>2, UpsertShape

\* As long as every sighting carries a mac no two records claim the same last
\* address: adoption and filing under a mac key each leave one record there.
THEOREM UniqueCorrect == StoreSpec => []UniqueLastIp
<1>1. StoreInit => UniqueLastIp
  BY DEF StoreInit, UniqueLastIp, DistinctLastIps, EmptyRegistry
<1>2. StoreInv /\ UniqueLastIp /\ [StoreNext]_store_vars => UniqueLastIp'
  <2> SUFFICES ASSUME StoreInv, UniqueLastIp, [StoreNext]_store_vars PROVE UniqueLastIp'
    OBVIOUS
  <2>1. ASSUME NEW d \in Devices, Upsert(d) PROVE UniqueLastIp'
    <3>1. CASE macless \/ d.mac = NONE
      BY <2>1, <3>1 DEF Upsert, UniqueLastIp
    <3>2. CASE ~ macless /\ d.mac # NONE
      <4>1. d \in Device /\ DistinctLastIps(records)
        BY <3>2, RunAssumption DEF UniqueLastIp
      <4>2. PICK now \in Times : \E out \in upsert(records, d, now) : records' = out.records
        BY <2>1 DEF Upsert
      <4> QED
        BY <3>2, <4>1, <4>2, UpsertDistinct DEF StoreInv, StoreTypeOK, UniqueLastIp
    <3> QED
      BY <3>1, <3>2
  <2>2. ASSUME NEW ip \in Ips, NEW tag \in UserTags, SetTag(ip, tag)
        PROVE  UniqueLastIp'
    <3>1. IsRegistry(records) /\ tag \in Tags /\ ip_key(ip) \in DOMAIN records
      BY <2>2, RunAssumption DEF StoreInv, StoreTypeOK, SetTag
    <3>2. /\ DOMAIN records' = DOMAIN records
          /\ \A k \in DOMAIN records : k # ip_key(ip) => records'[k] = records[k]
          /\ records'[ip_key(ip)] = [records[ip_key(ip)] EXCEPT !.tag = tag]
      BY <2>2, <3>1, SetTagEffect DEF SetTag
    <3>3. records[ip_key(ip)] \in Record
      BY <3>1 DEF IsRegistry
    <3>4. \A k \in DOMAIN records : records'[k].last_ip = records[k].last_ip
      BY <3>2, <3>3 DEF Record
    <3>5. macless' = macless
      BY <2>2 DEF SetTag
    <3> QED
      BY <3>2, <3>4, <3>5 DEF UniqueLastIp, DistinctLastIps
  <2>3. CASE UNCHANGED store_vars
    BY <2>3 DEF store_vars, UniqueLastIp
  <2> QED
    BY <2>1, <2>2, <2>3 DEF StoreNext
<1> QED
  BY <1>1, <1>2, StoreInvHolds, PTL DEF StoreSpec

-----------------------------------------------------------------------------
LEMMA RefreshContinues ==
    ASSUME NEW r \in Record, NEW d \in Device, NEW now \in Times
    PROVE  Continues(r, refresh(r, d, now))
<1> DEFINE s == refresh(r, d, now)
<1>1. /\ s.mac = r.mac /\ s.first_seen = r.first_seen
      /\ s.seen_count = r.seen_count + 1
      /\ s.ips = r.ips \cup {d.ip} /\ s.services = r.services \cup d.services
      /\ s.category = merge_category(r.category, d.category)
      /\ s.facts = merge_facts(r.facts, d.facts)
  BY DEF refresh, Record
<1>2. r.category # NONE => s.category # NONE
  BY <1>1, StoreAssumption DEF merge_category
<1>3. r.category \notin {NONE, Unknown} => s.category = r.category
  BY <1>1 DEF merge_category
<1>4. \A f \in Facts : r.facts[f] # NONE => s.facts[f] # NONE
  BY <1>1 DEF merge_facts
<1>5. r.seen_count \in Nat
  BY DEF Record
<1> QED
  BY <1>1, <1>2, <1>3, <1>4, <1>5 DEF Continues

LEMMA PromoteContinues ==
    ASSUME NEW r, NEW s \in Record, NEW mac \in Macs,
           r.mac = s.mac, Continues(r, s)
    PROVE  Continues(r, promote(s, mac))
<1>1. CASE s.mac # NONE
  BY <1>1 DEF promote
<1>2. CASE s.mac = NONE
  <2>1. LET t == promote(s, mac) IN
        /\ t.first_seen = s.first_seen /\ t.seen_count = s.seen_count
        /\ t.ips = s.ips /\ t.services = s.services
        /\ t.category = s.category /\ t.facts = s.facts
    BY <1>2 DEF promote, Record
  <2> QED
    BY <1>2, <2>1 DEF Continues
<1> QED
  BY <1>1, <1>2

LEMMA ContinuesSame == ASSUME NEW r \in Record PROVE Continues(r, r)
BY DEF Continues, Record

\* What an upsert does to each record.
LEMMA UpsertEvolves ==
    ASSUME StoreInv, NEW d \in Devices, Upsert(d), NEW k \in DOMAIN records
    PROVE  Evolves(k)
<1>1. d \in Device /\ IsRegistry(records) /\ AllSound(records)
  BY RunAssumption DEF StoreInv, StoreTypeOK
<1>2. PICK now \in Times : \E out \in upsert(records, d, now) : records' = out.records
  BY DEF Upsert
<1>3. PICK out \in upsert(records, d, now) : records' = out.records
  BY <1>2
<1>4. records[k] \in Record
  BY <1>1 DEF IsRegistry
<1>5. CASE Touched(records, d, now, out)
  <2>1. /\ DOMAIN records' = DOMAIN records \cup {out.key}
        /\ k # out.key => records'[k] = records[k]
        /\ out.key \in DOMAIN records =>
              records'[out.key] = refresh(records[out.key], d, now)
    BY <1>1, <1>3, <1>5, TouchEffect DEF Touched
  <2>2. Continues(records[k], records'[k])
    BY <1>1, <1>4, <2>1, RefreshContinues, ContinuesSame
  <2> QED
    BY <2>1, <2>2 DEF Evolves
<1>6. CASE \E old : Adopted(records, d, now, out, old)
  <2>1. PICK old : Adopted(records, d, now, out, old)
    BY <1>6
  <2> DEFINE r == records[old]
             s == refresh(r, d, now)
             t == promote(s, d.mac)
  <2>2. /\ out.key = IF r.mac = NONE THEN mac_key(d.mac) ELSE old
        /\ DOMAIN records' = (DOMAIN records \ {old}) \cup {out.key}
        /\ \A l \in DOMAIN records \ {old, out.key} : records'[l] = records[l]
        /\ records'[out.key] = t
        /\ r.mac = NONE => old = ip_key(d.ip)
    BY <1>1, <1>3, <2>1, AdoptEffect
  <2>3. /\ old \in DOMAIN records /\ old # mac_key(d.mac)
        /\ d.mac \in Macs /\ d.ip \in Ips
    BY <1>1, <2>1 DEF Adopted, Device, Option
  <2>4. r \in Record
    BY <1>1, <2>3 DEF IsRegistry
  <2>5. /\ s \in Record /\ s.mac = r.mac /\ s.tag = r.tag
        /\ Continues(r, s)
    BY <1>1, <2>4, RefreshType, RefreshContinues
  <2> HIDE DEF s
  <2>6. Continues(r, t) /\ t.tag = r.tag
    BY <2>3, <2>5, PromoteContinues, PromoteType
  <2> HIDE DEF t
  <2>7. CASE k \notin {old, out.key}
    BY <1>4, <2>2, <2>7, ContinuesSame DEF Evolves
  <2>8. CASE r.mac # NONE /\ k \in {old, out.key}
    BY <2>2, <2>6, <2>8 DEF Evolves
  <2>9. CASE r.mac = NONE /\ k \in {old, out.key}
    <3>1. PromotedTo(old, out.key)
      BY <2>2, <2>3, <2>6, <2>9 DEF PromotedTo, MacKeys, IpKeys
    <3>2. old \in IpKeys /\ out.key \in MacKeys
      BY <2>2, <2>3, <2>9 DEF MacKeys, IpKeys
    <3> QED
      BY <2>9, <3>1, <3>2 DEF Evolves
  <2> QED
    BY <2>7, <2>8, <2>9
<1> QED
  BY <1>1, <1>3, <1>5, <1>6, UpsertShape

\* What a tagging does to each record.
LEMMA SetTagEvolves ==
    ASSUME StoreInv, NEW ip \in Ips, NEW tag \in UserTags, SetTag(ip, tag),
           NEW k \in DOMAIN records
    PROVE  Evolves(k)
<1>1. IsRegistry(records) /\ tag \in Tags /\ ip_key(ip) \in DOMAIN records
  BY RunAssumption DEF StoreInv, StoreTypeOK, SetTag
<1>2. /\ DOMAIN records' = DOMAIN records
      /\ k # ip_key(ip) => records'[k] = records[k]
      /\ k = ip_key(ip) => records'[k] = [records[k] EXCEPT !.tag = tag]
  <2>1. records' = set_tag(records, NONE, ip, tag)
    BY DEF SetTag
  <2>2. /\ DOMAIN records' = DOMAIN records
        /\ \A l \in DOMAIN records : l # ip_key(ip) => records'[l] = records[l]
        /\ records'[ip_key(ip)] = [records[ip_key(ip)] EXCEPT !.tag = tag]
    BY <1>1, <2>1, SetTagEffect
  <2> QED
    BY <2>2
<1>3. records[k] \in Record
  BY <1>1 DEF IsRegistry
<1>4. Continues(records[k], [records[k] EXCEPT !.tag = tag])
  <2>1. ASSUME NEW r \in Record PROVE Continues(r, [r EXCEPT !.tag = tag])
    BY DEF Continues, Record
  <2> QED
    BY <1>3, <2>1
<1> QED
  BY <1>2, <1>3, <1>4, ContinuesSame DEF Evolves

\* Along every behaviour, what the registry knows about a host only grows; a
\* record vanishes only when a promoted one takes its mac key.
THEOREM EvolutionCorrect == StoreSpec => RecordsEvolve
<1>1. StoreInv /\ [StoreNext]_store_vars => [\A k \in DOMAIN records : Evolves(k)]_store_vars
  <2> SUFFICES ASSUME StoreInv, StoreNext, NEW k \in DOMAIN records PROVE Evolves(k)
    OBVIOUS
  <2> QED
    BY UpsertEvolves, SetTagEvolves DEF StoreNext
<1> QED
  BY <1>1, StoreInvHolds, PTL DEF StoreSpec, RecordsEvolve
-----------------------------------------------------------------------------
(***************************************************************************)
(* Induction.  The induction theorems of the library range over operators, *)
(* which no backend instantiates; over sets, well-foundedness is enough.   *)
(***************************************************************************)

LEMMA LessThan == \A x, y \in Nat : <<x, y>> \in OpToRel(<, Nat) <=> x < y
BY Zenon DEF OpToRel

LEMMA NatSetInduction ==
    ASSUME NEW N \in SUBSET Nat, 0 \in N, \A n \in N : n + 1 \in N
    PROVE  N = Nat
<1> DEFINE T == Nat \ N
           R == OpToRel(<, Nat)
<1> SUFFICES ASSUME T # {} PROVE FALSE
  OBVIOUS
<1>1. IsWellFoundedOn(R, Nat)
  BY NatLessThanWellFounded
<1>2. T \subseteq Nat
  OBVIOUS
<1> HIDE DEF R, T
<1>3. PICK x \in T : \A y \in T : ~ (<<y, x>> \in R)
  BY <1>1, <1>2, WFMin
<1>4. \A y \in T : ~ (y < x)
  BY <1>2, <1>3, LessThan DEF R
<1>5. x \in Nat /\ x # 0 /\ x - 1 \in Nat /\ x - 1 < x
  BY DEF T
<1>6. x - 1 \in N
  BY <1>4, <1>5 DEF T
<1> QED
  BY <1>5, <1>6 DEF T

\* A set of subsets that has the empty one, and one that lacks an element of a
\* subset, has that subset.
LEMMA SubsetInduction ==
    ASSUME NEW S, IsFiniteSet(S), NEW W, {} \in W,
           \A s \in SUBSET S : s # {} /\ (\A x \in s : s \ {x} \in W) => s \in W
    PROVE  SUBSET S \subseteq W
<1> DEFINE N == {n \in Nat : \A s \in SUBSET S : Cardinality(s) = n => s \in W}
<1>1. \A s \in SUBSET S : IsFiniteSet(s) /\ Cardinality(s) \in Nat
  BY FS_Subset, FS_CardinalityType
<1>2. 0 \in N
  BY <1>1, FS_EmptySet
<1>3. ASSUME NEW n \in N PROVE n + 1 \in N
  <2>1. n \in Nat /\ \A s \in SUBSET S : Cardinality(s) = n => s \in W
    OBVIOUS
  <2> HIDE DEF N
  <2>2. ASSUME NEW s \in SUBSET S, Cardinality(s) = n + 1 PROVE s \in W
    <3>1. s # {}
      BY <1>1, <2>1, <2>2, FS_EmptySet
    <3>2. ASSUME NEW x \in s PROVE s \ {x} \in W
      <4>1. Cardinality(s \ {x}) = n
        BY <1>1, <2>1, <2>2, FS_RemoveElement
      <4> QED
        BY <2>1, <4>1
    <3> QED
      BY <3>1, <3>2
  <2> QED
    BY <2>1, <2>2 DEF N
<1> HIDE DEF N
<1>4. N = Nat
  BY <1>2, <1>3, NatSetInduction DEF N
<1> QED
  BY <1>1, <1>4 DEF N

-----------------------------------------------------------------------------
(***************************************************************************)
(* Sums.  SumFunction takes the elements in the order of CHOOSE; the       *)
(* result does not depend on it.                                           *)
(***************************************************************************)

FirstOf(s) == CHOOSE x \in s : TRUE
SumStep(f, it, s) == IF s = {} THEN 0 ELSE f[FirstOf(s)] + it[s \ {FirstOf(s)}]

\* it holds the sum of f over every subset of S.
ArePartialSums(f, S, it) == it = [s \in SUBSET S |-> SumStep(f, it, s)]
PartialSums(f, S) == CHOOSE it : ArePartialSums(f, S, it)

LEMMA PickElement == \A s : s # {} => FirstOf(s) \in s
BY Zenon DEF FirstOf

LEMMA SumDefined ==
    ASSUME NEW f, NEW S PROVE SumFunctionOnSet(f, S) = PartialSums(f, S)[S]
BY Zenon DEF SumFunctionOnSet, FoldFunctionOnSet, MapThenFoldSet, PartialSums, ArePartialSums, SumStep, FirstOf

LEMMA SumExists ==
    ASSUME NEW f, NEW S, IsFiniteSet(S)
    PROVE  ArePartialSums(f, S, PartialSums(f, S))
<1> DEFINE Upto(n, g) == \A s \in SUBSET S : Cardinality(s) <= n => g[s] = SumStep(f, g, s)
           N == {n \in Nat : \E g : Upto(n, g)}
<1>1. \A s \in SUBSET S : IsFiniteSet(s) /\ Cardinality(s) \in Nat /\ Cardinality(s) <= Cardinality(S)
  BY FS_Subset, FS_CardinalityType
<1>2. \A s \in SUBSET S : s # {} => /\ s \ {FirstOf(s)} \in SUBSET S
                                    /\ Cardinality(s \ {FirstOf(s)}) = Cardinality(s) - 1
  BY <1>1, PickElement, FS_RemoveElement
<1>3. 0 \in N
  <2>1. \A s \in SUBSET S : Cardinality(s) <= 0 => s = {}
    BY <1>1, FS_EmptySet
  <2>2. Upto(0, [s \in SUBSET S |-> 0])
    BY <2>1 DEF SumStep
  <2> QED
    BY <2>2
<1>4. ASSUME NEW n \in N PROVE n + 1 \in N
  <2>1. PICK g : Upto(n, g)
    OBVIOUS
  <2> DEFINE h == [s \in SUBSET S |-> IF Cardinality(s) <= n THEN g[s] ELSE SumStep(f, g, s)]
  <2>2. ASSUME NEW s \in SUBSET S, Cardinality(s) <= n + 1 PROVE h[s] = SumStep(f, h, s)
    <3>1. h[s] = SumStep(f, g, s)
      BY <2>1
    <3>2. s # {} => h[s \ {FirstOf(s)}] = g[s \ {FirstOf(s)}]
      BY <1>1, <1>2, <2>2
    <3> QED
      BY <3>1, <3>2 DEF SumStep
  <2>3. Upto(n + 1, h)
    BY <2>2
  <2>4. n + 1 \in Nat
    OBVIOUS
  <2> HIDE DEF h, Upto
  <2> QED
    BY <2>3, <2>4
<1> HIDE DEF N
<1>5. N = Nat
  BY <1>3, <1>4, NatSetInduction DEF N
<1>6. Cardinality(S) \in Nat
  BY FS_CardinalityType
<1>7. PICK g : Upto(Cardinality(S), g)
  BY <1>5, <1>6 DEF N
<1>8. \A s \in SUBSET S : g[s] = SumStep(f, g, s)
  BY <1>1, <1>7
<1> DEFINE it == [s \in SUBSET S |-> g[s]]
<1>9. \A s \in SUBSET S : SumStep(f, it, s) = SumStep(f, g, s)
  BY <1>2 DEF SumStep
<1>10. ArePartialSums(f, S, it)
  BY <1>8, <1>9 DEF ArePartialSums
<1> QED
  BY <1>10, Zenon DEF PartialSums

\* Sums of functions that agree on T.
LEMMA SumSame ==
    ASSUME NEW f, NEW g, NEW S, NEW T, T \subseteq S, IsFiniteSet(S),
           \A x \in T : f[x] = g[x]
    PROVE  \A s \in SUBSET T : PartialSums(f, S)[s] = PartialSums(g, T)[s]
<1> DEFINE it == PartialSums(f, S)
           jt == PartialSums(g, T)
           W == {s \in SUBSET T : it[s] = jt[s]}
<1>0. IsFiniteSet(T)
  BY FS_Subset
<1>1. ArePartialSums(f, S, it) /\ ArePartialSums(g, T, jt)
  BY <1>0, SumExists
<1> HIDE DEF it, jt
<1>2. \A s \in SUBSET T : it[s] = SumStep(f, it, s) /\ jt[s] = SumStep(g, jt, s)
  BY <1>1 DEF ArePartialSums
<1>3. {} \in W
  BY <1>2 DEF SumStep
<1>4. ASSUME NEW s \in SUBSET T, s # {}, \A x \in s : s \ {x} \in W PROVE s \in W
  <2>1. FirstOf(s) \in s
    BY <1>4, PickElement
  <2>2. it[s \ {FirstOf(s)}] = jt[s \ {FirstOf(s)}] /\ f[FirstOf(s)] = g[FirstOf(s)]
    BY <1>4, <2>1
  <2> QED
    BY <1>2, <1>4, <2>2 DEF SumStep
<1> HIDE DEF W
<1>5. SUBSET T \subseteq W
  BY <1>0, <1>3, <1>4, SubsetInduction
<1> QED
  BY <1>5 DEF W, it, jt

\* The sum is a number ...
LEMMA SumType ==
    ASSUME NEW f, NEW S, IsFiniteSet(S), \A x \in S : f[x] \in Nat
    PROVE  \A s \in SUBSET S : PartialSums(f, S)[s] \in Nat
<1> DEFINE it == PartialSums(f, S)
           W == {s \in SUBSET S : it[s] \in Nat}
<1>1. ArePartialSums(f, S, it)
  BY SumExists
<1> HIDE DEF it
<1>2. \A s \in SUBSET S : it[s] = SumStep(f, it, s)
  BY <1>1 DEF ArePartialSums
<1>3. {} \in W
  <2>1. SumStep(f, it, {}) = 0
    BY DEF SumStep
  <2> QED
    BY <1>2, <2>1
<1>4. ASSUME NEW s \in SUBSET S, s # {}, \A x \in s : s \ {x} \in W PROVE s \in W
  <2>1. FirstOf(s) \in s /\ it[s] = f[FirstOf(s)] + it[s \ {FirstOf(s)}]
    BY <1>2, <1>4, PickElement DEF SumStep
  <2>2. f[FirstOf(s)] \in Nat /\ it[s \ {FirstOf(s)}] \in Nat
    BY <1>4, <2>1
  <2> QED
    BY <2>1, <2>2
<1> HIDE DEF W
<1>5. SUBSET S \subseteq W
  BY <1>3, <1>4, SubsetInduction
<1> QED
  BY <1>5 DEF W, it

\* ... and any element may be taken out first.
LEMMA SumRemove ==
    ASSUME NEW f, NEW S, IsFiniteSet(S), \A x \in S : f[x] \in Nat
    PROVE  \A s \in SUBSET S : \A x \in s : PartialSums(f, S)[s] = f[x] + PartialSums(f, S)[s \ {x}]
<1> DEFINE it == PartialSums(f, S)
           W == {s \in SUBSET S : \A x \in s : it[s] = f[x] + it[s \ {x}]}
<1>1. ArePartialSums(f, S, it) /\ \A s \in SUBSET S : it[s] \in Nat
  BY SumExists, SumType
<1> HIDE DEF it
<1>2. \A s \in SUBSET S : it[s] = SumStep(f, it, s)
  BY <1>1 DEF ArePartialSums
<1>3. {} \in W
  OBVIOUS
<1>4. ASSUME NEW s \in SUBSET S, s # {}, \A x \in s : s \ {x} \in W PROVE s \in W
  <2> DEFINE p == FirstOf(s)
  <2>1. p \in s /\ it[s] = f[p] + it[s \ {p}]
    BY <1>2, <1>4, PickElement DEF SumStep
  <2> HIDE DEF p
  <2>2. ASSUME NEW x \in s, x # p PROVE it[s] = f[x] + it[s \ {x}]
    <3>1. it[s \ {p}] = f[x] + it[(s \ {p}) \ {x}]
      BY <1>4, <2>1, <2>2
    <3>2. it[s \ {x}] = f[p] + it[(s \ {x}) \ {p}]
      BY <1>4, <2>1, <2>2
    <3>3. (s \ {p}) \ {x} = (s \ {x}) \ {p}
      OBVIOUS
    <3> DEFINE rest == (s \ {p}) \ {x}
    <3>4. rest \in SUBSET S
      OBVIOUS
    <3>5. it[rest] \in Nat
      BY <1>1, <3>4
    <3>6. f[x] \in Nat /\ f[p] \in Nat
      BY <2>1
    <3> DEFINE R == it[rest]
    <3>7. it[s] = f[p] + (f[x] + R) /\ it[s \ {x}] = f[p] + R /\ R \in Nat
      BY <2>1, <3>1, <3>2, <3>3, <3>5
    <3> HIDE DEF R
    <3> QED
      BY <3>6, <3>7
  <2> QED
    BY <2>1, <2>2
<1> HIDE DEF W
<1>5. SUBSET S \subseteq W
  BY <1>3, <1>4, SubsetInduction
<1> QED
  BY <1>5 DEF W, it

\* Raising one entry by one, or adding an entry of one, raises the sum by one.
LEMMA SumBump ==
    ASSUME NEW S, NEW f, NEW g, NEW x, IsFiniteSet(S),
           \A y \in S : f[y] \in Nat,
           \A y \in S \ {x} : g[y] = f[y],
           g[x] = (IF x \in S THEN f[x] ELSE 0) + 1
    PROVE  /\ SumFunctionOnSet(f, S) \in Nat
           /\ SumFunctionOnSet(g, S \cup {x}) = SumFunctionOnSet(f, S) + 1
<1> DEFINE T == S \cup {x}
           rest == S \ {x}
<1>1. IsFiniteSet(T) /\ IsFiniteSet(rest) /\ rest \in SUBSET S /\ rest \in SUBSET T /\ T \ {x} = rest
  BY FS_AddElement, FS_Subset
<1>2. \A y \in T : g[y] \in Nat
  OBVIOUS
<1>3. PartialSums(f, S)[rest] = PartialSums(f, rest)[rest]
  BY <1>1, SumSame
<1>4. PartialSums(g, T)[rest] = PartialSums(f, rest)[rest]
  BY <1>1, SumSame
<1>5. PartialSums(g, T)[T] = g[x] + PartialSums(g, T)[rest]
  BY <1>1, <1>2, SumRemove
<1>6. PartialSums(f, S)[S] \in Nat /\ PartialSums(f, S)[rest] \in Nat
  BY <1>1, SumType
<1>7. x \in S => PartialSums(f, S)[S] = f[x] + PartialSums(f, S)[rest]
  BY SumRemove
<1>8. x \notin S => rest = S
  OBVIOUS
<1> DEFINE left == PartialSums(f, S)[rest]
           all == PartialSums(f, S)[S]
           new == PartialSums(g, T)[T]
<1>9. new = all + 1
  <2>1. new = g[x] + left /\ left \in Nat /\ all \in Nat
    BY <1>3, <1>4, <1>5, <1>6
  <2>2. x \in S => all = f[x] + left /\ f[x] \in Nat
    BY <1>7
  <2>3. x \notin S => all = left
    BY <1>8
  <2> HIDE DEF left, all, new
  <2> QED
    BY <2>1, <2>2, <2>3
<1> QED
  BY <1>6, <1>9, SumDefined
-----------------------------------------------------------------------------
(***************************************************************************)
(* The counts of the records.                                              *)
(***************************************************************************)
Count(recs) == SumFunction([k \in DOMAIN recs |-> recs[k].seen_count])

\* A sighting with a mac, into records that all have one, counts once.
LEMMA UpsertCounts ==
    ASSUME NEW recs, IsRegistry(recs), AllSound(recs), AllMacs(recs),
           IsFiniteSet(DOMAIN recs),
           NEW d \in Device, d.mac # NONE, NEW now \in Times,
           NEW out \in upsert(recs, d, now)
    PROVE  /\ IsFiniteSet(DOMAIN out.records)
           /\ Count(out.records) = Count(recs) + 1
<1> DEFINE new == out.records
           S == DOMAIN recs
           x == out.key
           f == [k \in S |-> recs[k].seen_count]
           g == [k \in DOMAIN new |-> new[k].seen_count]
<1>1. \A k \in S : recs[k] \in Record /\ recs[k].seen_count \in Nat
  BY DEF IsRegistry, Record
<1>2. /\ DOMAIN new = S \cup {x}
      /\ \A k \in S \ {x} : new[k] = recs[k]
      /\ new[x].seen_count = (IF x \in S THEN recs[x].seen_count ELSE 0) + 1
  <2>1. CASE Touched(recs, d, now, out)
    BY <2>1, TouchEffect DEF Touched
  <2>2. CASE \E old : Adopted(recs, d, now, out, old)
    <3>1. PICK old : Adopted(recs, d, now, out, old)
      BY <2>2
    <3>2. old \in S /\ recs[old] \in Record /\ recs[old].mac # NONE /\ d.mac \in Macs
      BY <1>1, <3>1 DEF Adopted, AllMacs, Device, Option
    <3>3. /\ x = IF recs[old].mac = NONE THEN mac_key(d.mac) ELSE old
          /\ DOMAIN new = (S \ {old}) \cup {x}
          /\ \A k \in S \ {old, x} : new[k] = recs[k]
          /\ new[x] = promote(refresh(recs[old], d, now), d.mac)
      BY <3>1, AdoptEffect
    <3>4. /\ refresh(recs[old], d, now) \in Record
          /\ refresh(recs[old], d, now).seen_count = recs[old].seen_count + 1
      BY <3>2, RefreshType
    <3>5. new[x].seen_count = recs[old].seen_count + 1
      BY <3>2, <3>3, <3>4, PromoteType
    <3> QED
      BY <3>2, <3>3, <3>5
  <2> QED
    BY <2>1, <2>2, UpsertShape
<1>3. /\ \A y \in S : f[y] \in Nat
      /\ \A y \in S \ {x} : g[y] = f[y]
      /\ g[x] = (IF x \in S THEN f[x] ELSE 0) + 1
  BY <1>1, <1>2
<1>4. Count(recs) = SumFunctionOnSet(f, S) /\ Count(new) = SumFunctionOnSet(g, S \cup {x})
  BY <1>2 DEF Count, SumFunction
<1> HIDE DEF f, g, S, x
<1>5. SumFunctionOnSet(g, S \cup {x}) = SumFunctionOnSet(f, S) + 1
  BY <1>3, SumBump DEF S
<1>6. IsFiniteSet(S \cup {x})
  BY FS_AddElement DEF S
<1> QED
  BY <1>2, <1>4, <1>5, <1>6

\* The inductive form of EverySightingCounted.
CountInv == macless \/ /\ AllMacs(records)
                       /\ IsFiniteSet(DOMAIN records)
                       /\ sightings = Count(records)

\* As long as every sighting carries a mac, the counts of the records add up to
\* the number of upserts: none is lost and none is credited twice.
THEOREM SightingsCounted == StoreSpec => []EverySightingCounted
<1>1. StoreInit => CountInv
  <2> SUFFICES ASSUME StoreInit PROVE CountInv
    OBVIOUS
  <2>1. DOMAIN records = {} /\ sightings = 0
    BY DEF StoreInit, EmptyRegistry
  <2> DEFINE f == [k \in DOMAIN records |-> records[k].seen_count]
  <2>2. SumFunctionOnSet(f, {}) = 0
    <3>1. ArePartialSums(f, {}, PartialSums(f, {}))
      BY FS_EmptySet, SumExists
    <3>2. PartialSums(f, {})[{}] = 0
      BY <3>1 DEF ArePartialSums, SumStep
    <3> QED
      BY <3>2, SumDefined
  <2>3. DOMAIN f = {}
    BY <2>1
  <2> QED
    BY <2>1, <2>2, <2>3, FS_EmptySet DEF CountInv, Count, SumFunction, AllMacs
<1>2. StoreInv /\ CountInv /\ [StoreNext]_store_vars => CountInv'
  <2> SUFFICES ASSUME StoreInv, CountInv, [StoreNext]_store_vars PROVE CountInv'
    OBVIOUS
  <2>1. ASSUME NEW d \in Devices, Upsert(d) PROVE CountInv'
    <3>1. CASE macless \/ d.mac = NONE
      BY <2>1, <3>1 DEF Upsert, CountInv
    <3>2. CASE ~ macless /\ d.mac # NONE
      <4>1. /\ d \in Device /\ AllMacs(records) /\ IsFiniteSet(DOMAIN records)
            /\ sightings = Count(records)
            /\ IsRegistry(records) /\ AllSound(records)
        BY <3>2, RunAssumption DEF CountInv, StoreInv, StoreTypeOK
      <4>2. PICK now \in Times : \E out \in upsert(records, d, now) : records' = out.records
        BY <2>1 DEF Upsert
      <4>3. /\ AllMacs(records') /\ IsFiniteSet(DOMAIN records')
            /\ Count(records') = Count(records) + 1
        BY <3>2, <4>1, <4>2, UpsertCounts, UpsertRemembers
      <4>4. sightings' = sightings + 1
        BY <2>1 DEF Upsert
      <4> QED
        BY <4>1, <4>3, <4>4 DEF CountInv, Count
    <3> QED
      BY <3>1, <3>2
  <2>2. ASSUME NEW ip \in Ips, NEW tag \in UserTags, SetTag(ip, tag)
        PROVE  CountInv'
    <3>1. IsRegistry(records) /\ tag \in Tags /\ ip_key(ip) \in DOMAIN records
      BY <2>2, RunAssumption DEF StoreInv, StoreTypeOK, SetTag
    <3>2. /\ DOMAIN records' = DOMAIN records
          /\ \A k \in DOMAIN records : k # ip_key(ip) => records'[k] = records[k]
          /\ records'[ip_key(ip)] = [records[ip_key(ip)] EXCEPT !.tag = tag]
      BY <2>2, <3>1, SetTagEffect DEF SetTag
    <3>3. records[ip_key(ip)] \in Record
      BY <3>1 DEF IsRegistry
    <3>4. \A k \in DOMAIN records : /\ records'[k].seen_count = records[k].seen_count
                                    /\ records'[k].mac = records[k].mac
      BY <3>2, <3>3 DEF Record
    <3>5. [k \in DOMAIN records' |-> records'[k].seen_count]
            = [k \in DOMAIN records |-> records[k].seen_count]
      BY <3>2, <3>4
    <3>6. Count(records') = Count(records)
      BY <3>5 DEF Count
    <3> QED
      BY <2>2, <3>2, <3>4, <3>6 DEF CountInv, AllMacs, SetTag, Count
  <2>3. CASE UNCHANGED store_vars
    BY <2>3 DEF store_vars, CountInv, AllMacs, Count
  <2> QED
    BY <2>1, <2>2, <2>3 DEF StoreNext
<1>3. CountInv => EverySightingCounted
  BY DEF CountInv, EverySightingCounted, Count
<1> QED
  BY <1>1, <1>2, <1>3, StoreInvHolds, PTL DEF StoreSpec

-----------------------------------------------------------------------------
(***************************************************************************)
(* Series of upserts, of which scan and survey make one.  What they rely   *)
(* on takes no more than the keys: nothing is said here of the types of    *)
(* the other fields.                                                       *)
(***************************************************************************)

RecordFields == {"key", "mac", "last_ip", "ips", "tag", "facts", "services", "category",
                 "first_seen", "last_seen", "seen_count"}

\* r is a record that is filed under k.
Filed(k, r) ==
    /\ DOMAIN r = RecordFields
    /\ r.key = k
    /\ r.mac = NONE => k = ip_key(r.last_ip)
    /\ r.mac # NONE => k = mac_key(r.mac)

AllFiled(recs) == \A k \in DOMAIN recs : Filed(k, recs[k])

\* The record s holds the addresses and the services of r.
Grown(r, s) == r.ips \subseteq s.ips /\ r.services \subseteq s.services

\* r holds the address and the services of a sighting.
Knows(r, d) == d.ip \in r.ips /\ d.services \subseteq r.services

LEMMA AnyKeysDiffer ==
    /\ \A m, i : mac_key(m) # ip_key(i)
    /\ \A m, n : mac_key(m) = mac_key(n) => m = n
    /\ \A i, j : ip_key(i) = ip_key(j) => i = j
BY DEF mac_key, ip_key

LEMMA RefreshFields ==
    ASSUME NEW r, NEW d, NEW now, DOMAIN r = RecordFields
    PROVE  /\ DOMAIN refresh(r, d, now) = RecordFields
           /\ refresh(r, d, now).key = r.key
           /\ refresh(r, d, now).mac = r.mac
           /\ refresh(r, d, now).last_ip = d.ip
           /\ refresh(r, d, now).ips = r.ips \cup {d.ip}
           /\ refresh(r, d, now).services = r.services \cup d.services
BY DEF refresh, RecordFields

LEMMA NewRecordFields ==
    ASSUME NEW key, NEW d, NEW now
    PROVE  /\ DOMAIN new_record(key, d, now) = RecordFields
           /\ new_record(key, d, now).key = key
           /\ new_record(key, d, now).mac = d.mac
BY DEF new_record, RecordFields

\* What an upsert does to a registry; only where a record without a mac is keyed
\* by the address of a sighting with one may it replace a record.
UpsertKeeps(recs, d, out) ==
    /\ AllFiled(out)
    /\ \E k \in DOMAIN out : Knows(out[k], d)
    /\ \A k \in DOMAIN recs : recs[k].mac # NONE => k \in DOMAIN out
    /\ d.mac = NONE => \A k \in DOMAIN recs : recs[k].mac # NONE => out[k] = recs[k]
    /\ d.mac = NONE \/ ip_key(d.ip) \notin DOMAIN recs =>
          \A k \in DOMAIN recs : k \in DOMAIN out /\ Grown(recs[k], out[k])
    /\ \A k \in DOMAIN out :
          out[k].mac = NONE => k \in DOMAIN recs \/ (d.mac = NONE /\ k = ip_key(d.ip))

LEMMA TouchKeeps ==
    ASSUME NEW recs, AllFiled(recs), NEW d, NEW now
    PROVE  UpsertKeeps(recs, d, touch(recs, OwnKey(d), d, now).records)
<1> DEFINE own == OwnKey(d)
           r == IF own \in DOMAIN recs THEN recs[own] ELSE new_record(own, d, now)
           s == refresh(r, d, now)
           out == insert_record(recs, s)
<1>1. touch(recs, own, d, now).records = out
  BY DEF touch
<1>2. /\ own = IF d.mac = NONE THEN ip_key(d.ip) ELSE mac_key(d.mac)
  BY DEF OwnKey
<1>3. DOMAIN r = RecordFields /\ r.key = own /\ r.mac = d.mac
  <2>1. CASE own \in DOMAIN recs
    BY <1>2, <2>1, AnyKeysDiffer DEF AllFiled, Filed
  <2>2. CASE own \notin DOMAIN recs
    BY <2>2, NewRecordFields
  <2> QED
    BY <2>1, <2>2
<1>4. own \in DOMAIN recs => r = recs[own]
  OBVIOUS
<1> HIDE DEF r, own
<1>5. /\ DOMAIN s = RecordFields /\ s.key = own /\ s.mac = d.mac /\ s.last_ip = d.ip
      /\ s.ips = r.ips \cup {d.ip} /\ s.services = r.services \cup d.services
  BY <1>3, RefreshFields
<1> HIDE DEF s
<1>6. /\ DOMAIN out = DOMAIN recs \cup {own} /\ out[own] = s
      /\ \A k \in DOMAIN recs : k # own => out[k] = recs[k]
  BY <1>5 DEF insert_record
<1> HIDE DEF out
<1>7. Filed(own, s)
  BY <1>2, <1>5 DEF Filed
<1>8. AllFiled(out)
  BY <1>6, <1>7 DEF AllFiled
<1>9. Knows(s, d)
  BY <1>5 DEF Knows
<1>10. ASSUME NEW k \in DOMAIN recs
       PROVE  /\ k \in DOMAIN out /\ Grown(recs[k], out[k])
              /\ d.mac = NONE /\ recs[k].mac # NONE => out[k] = recs[k]
  <2>1. CASE k = own
    BY <1>3, <1>4, <1>5, <1>6, <2>1 DEF Grown
  <2>2. CASE k # own
    BY <1>6, <2>2 DEF Grown
  <2> QED
    BY <2>1, <2>2
<1>11. ASSUME NEW k \in DOMAIN out, out[k].mac = NONE
       PROVE  k \in DOMAIN recs \/ (d.mac = NONE /\ k = ip_key(d.ip))
  BY <1>2, <1>5, <1>6, <1>11
<1> QED
  BY <1>1, <1>6, <1>8, <1>9, <1>10, <1>11 DEF UpsertKeeps, own

LEMMA AdoptKeeps ==
    ASSUME NEW recs, AllFiled(recs), NEW d, NEW now, d.mac # NONE,
           NEW old \in DOMAIN recs, recs[old].last_ip = d.ip \/ old = ip_key(d.ip)
    PROVE  UpsertKeeps(recs, d, adopt(recs, old, d, now).records)
<1> DEFINE s == refresh(recs[old], d, now)
           p == promote(s, d.mac)
           rest == remove(recs, old)
           out == insert_record(rest, p)
<1>1. adopt(recs, old, d, now).records = out
  BY DEF adopt
<1>2. Filed(old, recs[old])
  BY DEF AllFiled
<1>3. /\ DOMAIN s = RecordFields /\ s.key = old /\ s.mac = recs[old].mac /\ s.last_ip = d.ip
      /\ s.ips = recs[old].ips \cup {d.ip} /\ s.services = recs[old].services \cup d.services
  BY <1>2, RefreshFields DEF Filed
<1> HIDE DEF s
<1>4. recs[old].mac = NONE => old = ip_key(d.ip)
  BY <1>2 DEF Filed
<1>5. /\ DOMAIN p = RecordFields /\ p.ips = s.ips /\ p.services = s.services
      /\ p.last_ip = d.ip /\ p.mac # NONE
      /\ recs[old].mac = NONE => p.mac = d.mac /\ p.key = mac_key(d.mac)
      /\ recs[old].mac # NONE => p = s
  <2>1. CASE recs[old].mac = NONE
    BY <1>3, <2>1 DEF promote, RecordFields
  <2>2. CASE recs[old].mac # NONE
    BY <1>3, <2>2 DEF promote
  <2> QED
    BY <2>1, <2>2
<1> HIDE DEF p
<1>6. DOMAIN rest = DOMAIN recs \ {old} /\ \A k \in DOMAIN rest : rest[k] = recs[k]
  BY DEF remove
<1> HIDE DEF rest
<1>7. /\ DOMAIN out = (DOMAIN recs \ {old}) \cup {p.key} /\ out[p.key] = p
      /\ \A k \in DOMAIN recs : k # old /\ k # p.key => out[k] = recs[k]
  BY <1>6 DEF insert_record
<1> HIDE DEF out
<1>8. Filed(p.key, p)
  BY <1>2, <1>3, <1>5 DEF Filed
<1>9. AllFiled(out)
  BY <1>7, <1>8 DEF AllFiled
<1>10. Knows(p, d)
  BY <1>3, <1>5 DEF Knows
<1>11. ASSUME NEW k \in DOMAIN recs, recs[k].mac # NONE PROVE k \in DOMAIN out
  BY <1>3, <1>5, <1>7, <1>11
<1>12. ASSUME NEW k \in DOMAIN recs, ip_key(d.ip) \notin DOMAIN recs
       PROVE  k \in DOMAIN out /\ Grown(recs[k], out[k])
  <2>1. p = s /\ p.key = old
    BY <1>3, <1>4, <1>5, <1>12
  <2> QED
    BY <1>3, <1>7, <2>1 DEF Grown
<1>13. ASSUME NEW k \in DOMAIN out, out[k].mac = NONE PROVE k \in DOMAIN recs
  BY <1>5, <1>7, <1>13
<1> QED
  BY <1>1, <1>7, <1>9, <1>10, <1>11, <1>12, <1>13 DEF UpsertKeeps

LEMMA UpsertFiled ==
    ASSUME NEW recs, AllFiled(recs), NEW d, NEW now, NEW res \in upsert(recs, d, now)
    PROVE  UpsertKeeps(recs, d, res.records)
<1>1. CASE res = touch(recs, OwnKey(d), d, now)
  BY <1>1, TouchKeeps
<1>2. CASE d.mac = NONE
  BY <1>1, <1>2 DEF upsert, OwnKey
<1>3. CASE d.mac # NONE
  <2> DEFINE mkey == mac_key(d.mac)
             olds == existing_by_ip(recs, mkey, d.ip)
  <2>1. CASE olds = {}
    BY <1>1, <1>3, <2>1 DEF upsert, OwnKey
  <2>2. CASE olds # {}
    <3>1. PICK old \in olds :
            res = IF old \in DOMAIN recs THEN adopt(recs, old, d, now)
                                         ELSE touch(recs, mkey, d, now)
      BY <1>3, <2>2 DEF upsert
    <3>2. CASE old \notin DOMAIN recs
      BY <1>1, <1>3, <3>1, <3>2 DEF OwnKey
    <3>3. CASE old \in DOMAIN recs
      <4>1. recs[old].last_ip = d.ip \/ old = ip_key(d.ip)
        BY DEF existing_by_ip, AllFiled, Filed
      <4> QED
        BY <1>3, <3>1, <3>3, <4>1, AdoptKeeps
    <3> QED
      BY <3>2, <3>3
  <2> QED
    BY <2>1, <2>2
<1> QED
  BY <1>2, <1>3
=============================================================================
