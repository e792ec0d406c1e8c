---------------------------- MODULE GannetProofs ----------------------------
(***************************************************************************)
(* Proofs about Gannet, for any hosts and command lines, any replies, any  *)
(* number of devices and any network masks.                                *)
(*                                                                         *)
(* The masks come first: MaskIsPrefix says that the arithmetic of Subnet   *)
(* cuts out the addresses that agree in their first bits.  Then one        *)
(* invariant per part of a command: which command is at which stage, its   *)
(* subnet, its names, its fingerprints, its devices, its subnets, and the  *)
(* types of them all at the end.                                           *)
(***************************************************************************)
EXTENDS Gannet, StoreProofs

-----------------------------------------------------------------------------
(***************************************************************************)
(* Masks.                                                                  *)
(***************************************************************************)

\* The powers of two that the masks are made of.
LEMMA Powers ==
    ASSUME NEW m \in 0..8
    PROVE  /\ m = 0 => 2^(8 - m) = 256
           /\ m = 1 => 2^(8 - m) = 128
           /\ m = 2 => 2^(8 - m) = 64
           /\ m = 3 => 2^(8 - m) = 32
           /\ m = 4 => 2^(8 - m) = 16
           /\ m = 5 => 2^(8 - m) = 8
           /\ m = 6 => 2^(8 - m) = 4
           /\ m = 7 => 2^(8 - m) = 2
           /\ m = 8 => 2^(8 - m) = 1
<1>0. /\ 2^0 = 1 /\ 2^1 = 2 /\ 2^2 = 4 /\ 2^3 = 8 /\ 2^4 = 16
      /\ 2^5 = 32 /\ 2^6 = 64 /\ 2^7 = 128 /\ 2^8 = 256
  OBVIOUS
<1>1. CASE m = 0
  BY <1>0, <1>1
<1>2. CASE m = 1
  BY <1>0, <1>2
<1>3. CASE m = 2
  BY <1>0, <1>3
<1>4. CASE m = 3
  BY <1>0, <1>4
<1>5. CASE m = 4
  BY <1>0, <1>5
<1>6. CASE m = 5
  BY <1>0, <1>6
<1>7. CASE m = 6
  BY <1>0, <1>7
<1>8. CASE m = 7
  BY <1>0, <1>8
<1>9. CASE m = 8
  BY <1>0, <1>9
<1> QED
  BY <1>1, <1>2, <1>3, <1>4, <1>5, <1>6, <1>7, <1>8, <1>9

\* Bit m of an octet, counted from the left, and the number its first m bits make.
octet_bit(x, m) == (x \div 2^(8 - m)) % 2
leading(x, m) == x \div 2^(8 - m)

\* What they are used for: 2^(8 - m) is one of these numbers, and half of the one
\* before it.
LEMMA Steps ==
    ASSUME NEW m \in 0..8
    PROVE  /\ 2^(8 - m) \in {1, 2, 4, 8, 16, 32, 64, 128, 256}
           /\ m # 0 => /\ 2^(8 - m) \in {1, 2, 4, 8, 16, 32, 64, 128}
                       /\ 2^(8 - (m - 1)) = 2 * 2^(8 - m)
<1> DEFINE p == 2^(8 - m)
           q == 2^(8 - (m - 1))
<1>1. /\ m = 0 => p = 256
      /\ m = 1 => p = 128
      /\ m = 2 => p = 64
      /\ m = 3 => p = 32
      /\ m = 4 => p = 16
      /\ m = 5 => p = 8
      /\ m = 6 => p = 4
      /\ m = 7 => p = 2
      /\ m = 8 => p = 1
  BY Powers, Zenon
<1>2. m # 0 => m - 1 \in 0..8
  OBVIOUS
<1>3. m # 0 =>
        /\ m - 1 = 0 => q = 256
        /\ m - 1 = 1 => q = 128
        /\ m - 1 = 2 => q = 64
        /\ m - 1 = 3 => q = 32
        /\ m - 1 = 4 => q = 16
        /\ m - 1 = 5 => q = 8
        /\ m - 1 = 6 => q = 4
        /\ m - 1 = 7 => q = 2
        /\ m - 1 = 8 => q = 1
  BY <1>2, Powers, Zenon
<1> HIDE DEF p, q
<1>4. /\ p \in {1, 2, 4, 8, 16, 32, 64, 128, 256}
      /\ m # 0 => p \in {1, 2, 4, 8, 16, 32, 64, 128} /\ q = 2 * p
  BY <1>1, <1>3
<1> QED
  BY <1>4 DEF p, q

LEMMA Halves ==
    ASSUME NEW x \in Octet, NEW d \in {1, 2, 4, 8, 16, 32, 64, 128}
    PROVE  x \div d = 2 * (x \div (2 * d)) + ((x \div d) % 2)
BY DEF Octet

LEMMA LeadingBits ==
    ASSUME NEW x \in Octet
    PROVE  /\ leading(x, 0) = 0
           /\ \A m \in 1..8 : leading(x, m) = 2 * leading(x, m - 1) + octet_bit(x, m)
           /\ \A m \in 0..8 : leading(x, m) \in Nat
           /\ \A m \in 1..8 : octet_bit(x, m) \in {0, 1}
<1>1. leading(x, 0) = 0
  <2>1. 2^(8 - 0) = 256
    BY Powers
  <2>2. x \div 256 = 0
    BY DEF Octet
  <2> QED
    BY <2>1, <2>2 DEF leading
<1>2. ASSUME NEW m \in 1..8
      PROVE  /\ leading(x, m) = 2 * leading(x, m - 1) + octet_bit(x, m)
             /\ leading(x, m) \in Nat /\ octet_bit(x, m) \in {0, 1}
  <2>1. PICK d \in {1, 2, 4, 8, 16, 32, 64, 128} : 2^(8 - m) = d /\ 2^(8 - (m - 1)) = 2 * d
    <3>1. m \in 0..8 /\ m # 0
      OBVIOUS
    <3> QED
      BY <3>1, Steps, Zenon
  <2>2. x \div d \in Nat /\ (x \div d) % 2 \in {0, 1}
    BY DEF Octet
  <2> QED
    BY <2>1, <2>2, Halves DEF leading, octet_bit
<1> QED
  BY <1>1, <1>2

\* To mask an octet is to cut its last bits off.
LEMMA MaskIsLeading ==
    ASSUME NEW x \in Octet, NEW y \in Octet, NEW r \in 0..8
    PROVE  x - (x % 2^(8 - r)) = y - (y % 2^(8 - r)) <=> leading(x, r) = leading(y, r)
<1>1. 2^(8 - r) \in {1, 2, 4, 8, 16, 32, 64, 128, 256}
  BY Steps, Zenon
<1>2. \A d \in {1, 2, 4, 8, 16, 32, 64, 128, 256} :
        x - (x % d) = y - (y % d) <=> x \div d = y \div d
  BY DEF Octet
<1> QED
  BY <1>1, <1>2, Zenon DEF leading

LEMMA LeadingIsBits ==
    ASSUME NEW x \in Octet, NEW y \in Octet, NEW r \in 0..8
    PROVE  leading(x, r) = leading(y, r) <=> \A m \in 1..r : octet_bit(x, m) = octet_bit(y, m)
<1> DEFINE eq(k) == leading(x, k) = leading(y, k) 
           bt(k) == octet_bit(x, k) = octet_bit(y, k)
<1>1. eq(0)
  BY LeadingBits
<1>2. \A m \in 1..8 : eq(m) <=> eq(m - 1) /\ bt(m)
  <2> SUFFICES ASSUME NEW m \in 1..8 PROVE eq(m) <=> eq(m - 1) /\ bt(m)
    OBVIOUS
  <2> DEFINE a == leading(x, m - 1)
             b == leading(y, m - 1)
             c == octet_bit(x, m)
             d == octet_bit(y, m)
  <2>1. /\ a \in Nat /\ b \in Nat /\ c \in {0, 1} /\ d \in {0, 1}
        /\ leading(x, m) = 2 * a + c /\ leading(y, m) = 2 * b + d
    BY LeadingBits
  <2> HIDE DEF a, b, c, d
  <2>2. 2 * a + c = 2 * b + d <=> a = b /\ c = d
    BY <2>1
  <2> QED
    BY <2>1, <2>2 DEF a, b, c, d
<1> HIDE DEF eq, bt
<1>3. /\ eq(1) <=> bt(1)
      /\ eq(2) <=> eq(1) /\ bt(2)
      /\ eq(3) <=> eq(2) /\ bt(3)
      /\ eq(4) <=> eq(3) /\ bt(4)
      /\ eq(5) <=> eq(4) /\ bt(5)
      /\ eq(6) <=> eq(5) /\ bt(6)
      /\ eq(7) <=> eq(6) /\ bt(7)
      /\ eq(8) <=> eq(7) /\ bt(8)
  BY <1>1, <1>2
<1>4. eq(r) <=> \A m \in 1..r : bt(m)
  BY <1>1, <1>3
<1> QED
  BY <1>4 DEF eq, bt

-----------------------------------------------------------------------------
\* The masks of the code cut out the subnet bit by bit, whatever the addresses.
LEMMA MaskIsPrefix ==
    ASSUME NEW ip, IsAddress(ip), NEW base, IsAddress(base), NEW prefix \in 1..32
    PROVE  ip_in_subnet(ip, base, prefix) <=> same_prefix(ip, base, prefix)
<1> DEFINE kept(i) == kept_in(prefix, i)
<1>1. \A i \in 1..4 : /\ kept(i) \in 0..8 /\ ip[i] \in Octet /\ base[i] \in Octet
                      /\ \A m \in 1..8 : m <= kept(i) <=> 8 * (i - 1) + m <= prefix
  BY DEF kept_in, kept_bits, overflows, IsAddress
<1> HIDE DEF kept
<1>2. ip_in_subnet(ip, base, prefix) <=>
        \A i \in 1..4 : ip[i] - (ip[i] % 2^(8 - kept(i))) = base[i] - (base[i] % 2^(8 - kept(i)))
  BY Zenon DEF ip_in_subnet, network_base, kept
<1>3. ip_in_subnet(ip, base, prefix) <=>
        \A i \in 1..4 : \A m \in 1..kept(i) : octet_bit(ip[i], m) = octet_bit(base[i], m)
  BY <1>1, <1>2, MaskIsLeading, LeadingIsBits, Zenon
<1> DEFINE octet(n) == ((n - 1) \div 8) + 1
           place(n) == ((n - 1) % 8) + 1
<1>4. \A n \in 1..32 : /\ octet(n) \in 1..4 /\ place(n) \in 1..8
                       /\ n = 8 * (octet(n) - 1) + place(n)
                       /\ 7 - ((n - 1) % 8) = 8 - place(n)
  OBVIOUS
<1>5. \A i \in 1..4 : \A m \in 1..8 :
        LET n == 8 * (i - 1) + m IN n \in 1..32 /\ octet(n) = i /\ place(n) = m
  OBVIOUS
<1>6. \A n \in 1..32 : /\ bit(ip, n) = octet_bit(ip[octet(n)], place(n))
                       /\ bit(base, n) = octet_bit(base[octet(n)], place(n))
  BY <1>4, Zenon DEF bit, octet_bit
<1> HIDE DEF octet, place
<1>7. same_prefix(ip, base, prefix) <=>
        \A i \in 1..4 : \A m \in 1..kept(i) : octet_bit(ip[i], m) = octet_bit(base[i], m)
  <2>1. ASSUME same_prefix(ip, base, prefix), NEW i \in 1..4, NEW m \in 1..kept(i)
        PROVE  octet_bit(ip[i], m) = octet_bit(base[i], m)
    <3> DEFINE n == 8 * (i - 1) + m
    <3>1. m \in 1..8 /\ n \in 1..prefix
      BY <1>1
    <3>2. n \in 1..32 /\ octet(n) = i /\ place(n) = m
      BY <1>5, <3>1
    <3> QED
      BY <1>6, <2>1, <3>1, <3>2 DEF same_prefix
  <2>2. ASSUME \A i \in 1..4 : \A m \in 1..kept(i) : octet_bit(ip[i], m) = octet_bit(base[i], m),
               NEW n \in 1..prefix
        PROVE  bit(ip, n) = bit(base, n)
    <3>1. n \in 1..32 /\ n <= prefix
      OBVIOUS
    <3>2. /\ octet(n) \in 1..4 /\ place(n) \in 1..8
          /\ 8 * (octet(n) - 1) + place(n) <= prefix
      BY <1>4, <3>1
    <3>3. kept(octet(n)) \in 0..8 /\ place(n) <= kept(octet(n))
      BY <1>1, <3>2
    <3>4. place(n) \in 1..kept(octet(n))
      BY <3>2, <3>3
    <3> QED
      BY <1>6, <2>2, <3>1, <3>2, <3>4
  <2> QED
    BY <2>1, <2>2 DEF same_prefix
<1> QED
  BY <1>3, <1>7

-----------------------------------------------------------------------------
(***************************************************************************)
(* Which command is at which stage, and on what host.                      *)
(***************************************************************************)

ScanStages == {"scan", "arp", "sweep", "names", "resolve", "fingerprint", "classify"}
SurveyStages == {"survey", "gateways", "upnp", "probe"}

StageInv ==
    /\ host \in Host /\ request \in Request
    /\ stage \in ScanStages => request.command = "scan"
    /\ stage \in SurveyStages => request.command = "survey"
    /\ stage \in {"main", "record"} \cup ScanStages \cup SurveyStages \cup Ended

\* What each step does to the stage, and which leave the devices alone.
ScanMoves ==
    \/ ProbeBulk /\ stage = "resolve" /\ stage' = "fingerprint"
    \/ ApplyFingerprints /\ stage = "fingerprint" /\ stage' = "classify"
    \/ ClassifyAndSort /\ stage = "classify" /\ stage' = "record"
    \/ /\ UNCHANGED devices
       /\ \/ ParseSubnet /\ stage = "scan" /\ stage' \in {"exited", "arp"}
          \/ AutoSubnet /\ stage = "scan" /\ stage' \in {"panicked", "arp"}
          \/ ArpScan /\ stage = "arp" /\ stage' \in {"panicked", "sweep"}
          \/ SweepSubnet /\ stage = "sweep" /\ stage' \in {"panicked", "returned", "names"}
          \/ ResolveBulk /\ stage = "names" /\ stage' = "resolve"
          \/ (\E i \in pending : Query(i) \/ Join(i)) /\ stage = "resolve" /\ stage' = stage
          \/ (\E i \in pending : GiveUp(i)) /\ stage = "fingerprint" /\ stage' = stage
          \/ (\E j \in DOMAIN jobs : StartJob(j) \/ EndJob(j)) /\ stage = "fingerprint" /\ stage' = stage

SurveyMoves ==
    \/ Probe /\ stage = "probe" /\ stage' = "record"
    \/ /\ UNCHANGED devices
       /\ \/ FindInterface /\ stage = "survey" /\ stage' \in {"returned", "gateways"}
          \/ DetectGateways /\ stage = "gateways" /\ stage' = "upnp"
          \/ Interrogate /\ stage = "upnp" /\ stage' \in {"panicked", "upnp"}
          \/ AddNeighbours /\ stage = "upnp" /\ stage' \in {"panicked", "probe"}

SessionMoves ==
    \/ Dispatch /\ stage = "main" /\ stage' = request.command
    \/ RecordAndSave /\ stage = "record" /\ stage' = "returned"

LEMMA Moves ==
    ASSUME [Next]_vars
    PROVE  /\ UNCHANGED input_vars
           /\ \/ SessionMoves /\ UNCHANGED <<scan_vars, survey_vars>>
              \/ ScanMoves /\ UNCHANGED <<disk, survey_vars>>
              \/ SurveyMoves /\ UNCHANGED <<disk, scan_vars>>
              \/ UNCHANGED vars
<1>1. CASE UNCHANGED vars
  BY <1>1 DEF vars, session_vars, input_vars
<1>2. CASE (Dispatch \/ RecordAndSave) /\ UNCHANGED <<scan_vars, survey_vars>>
  BY <1>2 DEF SessionMoves, Dispatch, RecordAndSave, input_vars
<1>3. CASE ScanStep /\ UNCHANGED survey_vars
  <2>1. UNCHANGED input_vars /\ UNCHANGED disk
    BY <1>3 DEF ScanStep
  <2>2. ScanStep => ScanMoves
    <3>1. /\ ProbeBulk => stage = "resolve" /\ stage' = "fingerprint"
          /\ ApplyFingerprints => stage = "fingerprint" /\ stage' = "classify"
          /\ ClassifyAndSort => stage = "classify" /\ stage' = "record"
      BY Zenon DEF ProbeBulk, ApplyFingerprints, ClassifyAndSort
    <3>2. /\ ParseSubnet => stage = "scan" /\ stage' \in {"exited", "arp"}
          /\ AutoSubnet => stage = "scan" /\ stage' \in {"panicked", "arp"}
          /\ ArpScan => stage = "arp" /\ stage' \in {"panicked", "sweep"}
          /\ SweepSubnet => stage = "sweep" /\ stage' \in {"panicked", "returned", "names"}
          /\ ResolveBulk => stage = "names" /\ stage' = "resolve"
      BY DEF ParseSubnet, AutoSubnet, ArpScan, SweepSubnet, ResolveBulk
    <3>3. /\ \A i : Query(i) \/ Join(i) => stage = "resolve" /\ stage' = stage
          /\ \A i : GiveUp(i) => stage = "fingerprint" /\ stage' = stage
          /\ \A j : StartJob(j) \/ EndJob(j) => stage = "fingerprint" /\ stage' = stage
      BY Zenon DEF Query, Join, GiveUp, StartJob, EndJob
    <3> QED
      BY <3>1, <3>2, <3>3 DEF ScanStep, ScanMoves
  <2> QED
    BY <1>3, <2>1, <2>2
<1>4. CASE SurveyStep /\ UNCHANGED scan_vars
  <2>1. SurveyStep => SurveyMoves
    BY DEF SurveyStep, SurveyMoves, FindInterface, DetectGateways, Interrogate, AddNeighbours, Probe
  <2> QED
    BY <1>4, <2>1 DEF SurveyStep
<1> QED
  BY <1>1, <1>2, <1>3, <1>4 DEF Next

LEMMA StageInit == Init => StageInv
BY SessionAssumption DEF Init, SessionInit, StageInv, Request, ScanStages, SurveyStages

LEMMA StageNext == StageInv /\ [Next]_vars => StageInv'
<1> SUFFICES ASSUME StageInv, [Next]_vars PROVE StageInv'
  OBVIOUS
<1>1. request.command \in {"scan", "survey"}
  BY DEF StageInv, Request
<1>2. /\ request' = request /\ host' = host
      /\ SessionMoves \/ ScanMoves \/ SurveyMoves \/ stage' = stage
  BY Moves DEF input_vars, vars, session_vars
<1> QED
  BY <1>1, <1>2 DEF StageInv, SessionMoves, ScanMoves, SurveyMoves,
                    ScanStages, SurveyStages, Ended

-----------------------------------------------------------------------------
(***************************************************************************)
(* The addresses of a host.                                                *)
(***************************************************************************)

\* What `find` finds: the least of a set of positions.
LEMMA FirstWhere ==
    ASSUME NEW D \in SUBSET Nat, D # {}
    PROVE  \E n \in D : \A m \in 1..(n - 1) : m \notin D
<1> DEFINE R == OpToRel(<, Nat)
<1>1. IsWellFoundedOn(R, Nat)
  BY NatLessThanWellFounded
<1> HIDE DEF R
<1>2. PICK n \in D : \A m \in D : ~ (<<m, n>> \in R)
  BY <1>1, WFMin
<1>3. \A m \in D : ~ (m < n)
  BY <1>2, LessThan DEF R
<1> QED
  BY <1>3

LEMMA FirstIpv4 ==
    ASSUME NEW ips \in Seq(IfAddress), ipv4(ips) # {}
    PROVE  first_ipv4(ips).ip \in Ips /\ first_ipv4(ips).prefix \in 0..32
<1> DEFINE D == {n \in DOMAIN ips : ips[n].v4}
           found(n) == ips[n].v4 /\ \A m \in 1..(n - 1) : ~ ips[m].v4
           N == CHOOSE n \in DOMAIN ips : found(n)
<1>1. D \in SUBSET Nat /\ D # {} /\ DOMAIN ips = 1..Len(ips) /\ Len(ips) \in Nat
  BY DEF ipv4
<1>2. PICK n \in D : \A m \in 1..(n - 1) : m \notin D
  BY <1>1, FirstWhere
<1>3. n \in DOMAIN ips /\ found(n)
  BY <1>1, <1>2
<1>4. N \in DOMAIN ips /\ ips[N].v4
  BY <1>3, Zenon
<1>5. first_ipv4(ips) = ips[N]
  BY <1>3, Zenon DEF first_ipv4, find
<1>6. ips[N] \in IfAddress
  BY <1>4
<1> HIDE DEF N
<1>7. ASSUME NEW a \in IfAddress, a.v4 PROVE a.ip \in Ips /\ a.prefix \in 0..32
  <2>1. a.ip \in Ips /\ a.prefix <= 32 /\ a.prefix \in 0..128
    BY <1>7, Zenon DEF IfAddress
  <2>2. \A x \in 0..128 : x <= 32 => x \in 0..32
    OBVIOUS
  <2> QED
    BY <2>1, <2>2, Zenon
<1> QED
  BY <1>4, <1>5, <1>6, <1>7

LEMMA HostType ==
    ASSUME NEW h \in Host
    PROVE  /\ DOMAIN h.pnet = 1..Len(h.pnet) /\ Len(h.pnet) \in Nat
           /\ DOMAIN h.sysfs = 1..Len(h.sysfs) /\ Len(h.sysfs) \in Nat
           /\ \A n \in DOMAIN h.pnet : h.pnet[n].ips \in Seq(IfAddress)
           /\ \A n \in DOMAIN h.sysfs : h.sysfs[n].ips \in Seq(IfAddress)
<1>1. h.pnet \in Seq(PnetEntry) /\ h.sysfs \in Seq(SysfsEntry)
  BY DEF Host
<1>2. /\ \A i \in PnetEntry : i.ips \in Seq(IfAddress)
      /\ \A i \in SysfsEntry : i.ips \in Seq(IfAddress)
  BY DEF PnetEntry, SysfsEntry
<1> QED
  BY <1>1, <1>2

\* An interface is found or not; if it is, it has an IPv4 address.
LEMMA FindInterfaceType ==
    ASSUME NEW h \in Host, NEW name, find_interface(h, name) # NONE
    PROVE  /\ find_interface(h, name).ips \in Seq(IfAddress)
           /\ ipv4(find_interface(h, name).ips) # {}
<1> DEFINE P(i) == (name = NONE \/ i.name = name) /\ suitable(i)
           D == {n \in DOMAIN h.pnet : P(h.pnet[n])}
           found(n) == P(h.pnet[n]) /\ \A m \in 1..(n - 1) : ~ P(h.pnet[m])
           N == CHOOSE n \in DOMAIN h.pnet : found(n)
<1>1. /\ \E n \in DOMAIN h.pnet : P(h.pnet[n])
      /\ find_interface(h, name) = h.pnet[N]
  BY Zenon DEF find_interface, find
<1>2. /\ DOMAIN h.pnet = 1..Len(h.pnet) /\ Len(h.pnet) \in Nat
      /\ \A n \in DOMAIN h.pnet : h.pnet[n].ips \in Seq(IfAddress)
  BY HostType
<1>3. D \in SUBSET Nat /\ D # {}
  BY <1>1, <1>2
<1>4. PICK n \in D : \A m \in 1..(n - 1) : m \notin D
  BY <1>3, FirstWhere
<1>5. n \in DOMAIN h.pnet /\ found(n)
  BY <1>2, <1>4
<1>6. N \in DOMAIN h.pnet /\ P(h.pnet[N])
  BY <1>5, Zenon
<1> QED
  BY <1>1, <1>2, <1>6, Zenon DEF suitable

LEMMA LocalInterfacesType ==
    ASSUME NEW h \in Host
    PROVE  /\ \E k \in Nat : DOMAIN local_interfaces(h) = 1..k
           /\ \A n \in DOMAIN local_interfaces(h) : local_interfaces(h)[n].ips \in Seq(IfAddress)
<1>1. /\ DOMAIN h.pnet = 1..Len(h.pnet) /\ Len(h.pnet) \in Nat
      /\ DOMAIN h.sysfs = 1..Len(h.sysfs) /\ Len(h.sysfs) \in Nat
      /\ \A n \in DOMAIN h.pnet : h.pnet[n].ips \in Seq(IfAddress)
      /\ \A n \in DOMAIN h.sysfs : h.sysfs[n].ips \in Seq(IfAddress)
  BY HostType
<1>2. ASSUME NEW i, i.ips \in Seq(IfAddress)
      PROVE  read_ipv4_addrs(i) \in Seq(IfAddress)
  <2> DEFINE shown(a) == [a EXCEPT !.prefix = IF i.hex_netmask THEN @ ELSE 24]
             ips == [n \in DOMAIN i.ips |-> shown(i.ips[n])]
  <2>1. ASSUME NEW a \in IfAddress PROVE shown(a) \in IfAddress
    <3> DEFINE bits == IF i.hex_netmask THEN a.prefix ELSE 24
    <3>0. bits \in {a.prefix, 24} /\ shown(a) = [a EXCEPT !.prefix = bits]
      OBVIOUS
    <3> HIDE DEF bits, shown
    <3> QED
      BY <3>0 DEF IfAddress
  <2> HIDE DEF shown
  <2>2. ips \in Seq(IfAddress)
    BY <1>2, <2>1
  <2>3. read_ipv4_addrs(i) \in {i.ips, <<>>, ips}
    BY DEF read_ipv4_addrs, shown
  <2> HIDE DEF ips
  <2>4. <<>> \in Seq(IfAddress)
    OBVIOUS
  <2> QED
    BY <1>2, <2>2, <2>3, <2>4
<1>3. ASSUME NEW n \in DOMAIN sysfs_interfaces(h)
      PROVE  sysfs_interfaces(h)[n].ips \in Seq(IfAddress)
  BY <1>1, <1>2, <1>3 DEF sysfs_interfaces
<1>4. \A n \in DOMAIN pnet_interfaces_from(h) : pnet_interfaces_from(h)[n].ips \in Seq(IfAddress)
  BY <1>1 DEF pnet_interfaces_from
<1>5. DOMAIN sysfs_interfaces(h) = DOMAIN h.sysfs /\ DOMAIN pnet_interfaces_from(h) = DOMAIN h.pnet
  BY DEF sysfs_interfaces, pnet_interfaces_from
<1> QED
  BY <1>1, <1>3, <1>4, <1>5 DEF local_interfaces

LEMMA FindLocalInterfaceType ==
    ASSUME NEW h \in Host, NEW name, find_local_interface(h, name) # NONE
    PROVE  /\ find_local_interface(h, name).ips \in Seq(IfAddress)
           /\ ipv4(find_local_interface(h, name).ips) # {}
<1> DEFINE L == local_interfaces(h)
           P(i) == (name = NONE \/ i.name = name) /\ i.up /\ ~ i.loopback /\ ipv4(i.ips) # {}
           D == {n \in DOMAIN L : P(L[n])}
           found(n) == P(L[n]) /\ \A m \in 1..(n - 1) : ~ P(L[m])
           N == CHOOSE n \in DOMAIN L : found(n)
<1>1. /\ \E n \in DOMAIN L : P(L[n])
      /\ find_local_interface(h, name) = L[N]
  BY Zenon DEF find_local_interface, find
<1>2. PICK k \in Nat : DOMAIN L = 1..k
  BY LocalInterfacesType
<1>3. \A n \in DOMAIN L : L[n].ips \in Seq(IfAddress)
  BY LocalInterfacesType
<1>4. D \subseteq DOMAIN L /\ D # {} /\ \A n \in DOMAIN L : n \in D <=> P(L[n])
  BY <1>1, Zenon
<1> HIDE DEF D, P, L
<1>5. PICK n \in D : \A m \in 1..(n - 1) : m \notin D
  <2>1. D \in SUBSET Nat
    BY <1>2, <1>4
  <2> QED
    BY <1>4, <2>1, FirstWhere
<1>6. n \in DOMAIN L /\ found(n)
  BY <1>2, <1>4, <1>5
<1>7. N \in DOMAIN L /\ P(L[N])
  BY <1>6, Zenon
<1> QED
  BY <1>1, <1>3, <1>7, Zenon DEF P

\* The address a command sends from, if it has one.
LEMMA SourceIpType ==
    ASSUME NEW h \in Host, NEW name
    PROVE  find_source_ip(h, name) \in Option(Ips)
<1> DEFINE i == or(find_interface(h, name), find_local_interface(h, name))
<1>1. CASE i = NONE
  BY <1>1 DEF find_source_ip, Option
<1>2. CASE i # NONE
  <2>1. i.ips \in Seq(IfAddress) /\ ipv4(i.ips) # {}
    BY <1>2, FindInterfaceType, FindLocalInterfaceType, Zenon DEF or
  <2> HIDE DEF i
  <2>2. first_ipv4(i.ips).ip \in Ips
    BY <2>1, FirstIpv4
  <2> QED
    BY <1>2, <2>2 DEF find_source_ip, Option, i
<1> QED
  BY <1>1, <1>2

\* An address that is masked is an address.
LEMMA BaseIsAddress ==
    ASSUME NEW ip, IsAddress(ip), NEW prefix \in 0..32
    PROVE  IsAddress(network_base(ip, prefix))
<1> DEFINE D == {1, 2, 4, 8, 16, 32, 64, 128, 256}
<1>1. \A x \in Octet : \A d \in D : x - (x % d) \in Octet
  BY DEF Octet
<1>2. \A i \in 1..4 : kept_in(prefix, i) \in 0..8
  BY DEF kept_in, kept_bits, overflows
<1>3. \A i \in 1..4 : 2^(8 - kept_in(prefix, i)) \in D
  BY <1>2, Steps, Zenon
<1> HIDE DEF D
<1>4. \A i \in 1..4 : ip[i] - (ip[i] % 2^(8 - kept_in(prefix, i))) \in Octet
  BY <1>1, <1>3, Zenon DEF IsAddress
<1> QED
  BY <1>4, Zenon DEF IsAddress, network_base

\* A subnet whose base is an address.
IsSubnet(net) == IsAddress(net.base) /\ net.prefix \in 0..32

LEMMA AutoSubnetType ==
    ASSUME NEW h \in Host, NEW name
    PROVE  IsSubnet(auto_subnet(h, name))
<1> DEFINE i == or(find_interface(h, name), find_local_interface(h, name))
<1>1. CASE i = NONE
  <2>1. auto_subnet(h, name) = DefaultSubnet
    BY <1>1 DEF auto_subnet
  <2> QED
    BY <2>1 DEF IsSubnet, DefaultSubnet, IsAddress, Octet
<1>2. CASE i # NONE
  <2>1. i.ips \in Seq(IfAddress) /\ ipv4(i.ips) # {}
    BY <1>2, FindInterfaceType, FindLocalInterfaceType, Zenon DEF or
  <2>2. auto_subnet(h, name) = subnet_of(first_ipv4(i.ips))
    BY <1>2 DEF auto_subnet
  <2> HIDE DEF i
  <2>3. /\ first_ipv4(i.ips).prefix \in 0..32
        /\ IsAddress(first_ipv4(i.ips).ip)
    BY <2>1, FirstIpv4, SessionAssumption
  <2>4. IsAddress(network_base(first_ipv4(i.ips).ip, first_ipv4(i.ips).prefix))
    BY <2>3, BaseIsAddress
  <2> QED
    BY <2>2, <2>3, <2>4 DEF IsSubnet, subnet_of
<1> QED
  BY <1>1, <1>2

-----------------------------------------------------------------------------
(***************************************************************************)
(* The subnet of a scan.                                                   *)
(***************************************************************************)

\* The inductive form of SubnetCovered.
SubnetInv == stage \in {"arp", "sweep"} => IsSubnet(subnet)

LEMMA SubnetInit == Init => SubnetInv
BY DEF Init, SessionInit, SubnetInv

LEMMA SubnetNext == StageInv /\ SubnetInv /\ [Next]_vars => SubnetInv'
<1> SUFFICES ASSUME StageInv, SubnetInv, [Next]_vars PROVE SubnetInv'
  OBVIOUS
<1>1. CASE ScanMoves
  <2>1. CASE ParseSubnet /\ stage' = "arp"
    <3>1. /\ request.subnet # NONE /\ request.subnet.ip # NONE
          /\ ~ (request.subnet.prefix > 32)
          /\ subnet' = [base |-> request.subnet.ip, prefix |-> request.subnet.prefix]
      BY <2>1 DEF ParseSubnet
    <3>2. request.subnet.ip \in Ips /\ request.subnet.prefix \in Nat
      BY <3>1 DEF StageInv, Request, Option
    <3> QED
      BY <3>1, <3>2, SessionAssumption DEF SubnetInv, IsSubnet
  <2>2. CASE AutoSubnet
    <3>1. subnet' = auto_subnet(host, request.interface) /\ host \in Host
      BY <2>2 DEF AutoSubnet, StageInv
    <3>2. IsSubnet(auto_subnet(host, request.interface))
      BY <3>1, AutoSubnetType
    <3> QED
      BY <3>1, <3>2 DEF SubnetInv
  <2>3. CASE ArpScan /\ stage = "arp"
    BY <2>3 DEF ArpScan, SubnetInv
  <2>4. CASE stage' \notin {"arp", "sweep"}
    BY <2>4 DEF SubnetInv
  <2> QED
    BY <1>1, <2>1, <2>2, <2>3, <2>4 DEF ScanMoves
<1>2. CASE SessionMoves \/ SurveyMoves
  <2>1. stage' \notin {"arp", "sweep"}
    BY <1>2 DEF SessionMoves, SurveyMoves, StageInv, Request
  <2> QED
    BY <2>1 DEF SubnetInv
<1>3. CASE UNCHANGED vars
  BY <1>3 DEF vars, session_vars, scan_vars, found_vars, SubnetInv
<1> QED
  BY <1>1, <1>2, <1>3, Moves

\* The sweep asks exactly the hosts of the subnet that ARP has not found, for
\* every prefix but 0 and every base.
THEOREM SubnetIsCovered == Spec => []SubnetCovered
<1>1. SubnetInv => SubnetCovered
  <2> SUFFICES ASSUME SubnetInv, stage = "sweep", subnet.prefix > 0
               PROVE  SubnetCovered
    BY DEF SubnetCovered
  <2>1. IsAddress(subnet.base) /\ subnet.prefix \in 1..32
    BY DEF SubnetInv, IsSubnet
  <2>2. ASSUME NEW ip \in Alive
        PROVE  subnet_iter(ip, subnet.base, subnet.prefix) <=>
                 ip[4] \in 1..254 /\ same_prefix(ip, subnet.base, subnet.prefix)
    <3>1. IsAddress(ip)
      BY ScanAssumption, SessionAssumption
    <3>2. ip_in_subnet(ip, subnet.base, subnet.prefix) <=> same_prefix(ip, subnet.base, subnet.prefix)
      BY <2>1, <3>1, MaskIsPrefix
    <3>3. ip[4] \notin {0, 255} <=> ip[4] \in 1..254
      BY <3>1 DEF IsAddress, Octet
    <3> QED
      BY <3>2, <3>3 DEF subnet_iter
  <2>3. Alive \subseteq Ips
    BY ScanAssumption
  <2> QED
    BY <2>2, <2>3, Zenon DEF SubnetCovered, targets
<1> QED
  BY <1>1, StageInit, StageNext, SubnetInit, SubnetNext, PTL DEF Spec

-----------------------------------------------------------------------------
(***************************************************************************)
(* Where the subnets of a survey come from.                                *)
(***************************************************************************)

\* The key of the local subnet, and the bases whose last octet a /24 has cut off.
LocalKey == <<local_subnet.base, local_subnet.prefix>>
Bases24 == {net \in [1..4 -> Octet] : net[4] = 0}

\* A subnet whose base need not be cut to its prefix.
IsNet(key) == IsAddress(key[1]) /\ key[2] \in 0..32

\* The inductive invariant: which subnets are listed at each stage, and who
\* proposed them.
SurveyInv ==
    /\ stage \in {"gateways", "upnp", "probe"} => local_interface # NONE
    /\ gateways \in Seq(Ips) /\ interrogated \in Nat
    /\ \A key \in DOMAIN all_subnets : IsNet(key)
    /\ stage \in {"main", "survey", "gateways"} => DOMAIN all_subnets = {}
    /\ stage = "upnp" =>
          \A key \in DOMAIN all_subnets :
              \/ all_subnets[key] = "UpnpDiscovery"
              \/ all_subnets[key] = "GatewayRoute" /\ key = LocalKey
    /\ stage = "probe" =>
          \A key \in DOMAIN all_subnets :
              \/ all_subnets[key] = "UpnpDiscovery"
              \/ key = LocalKey
              \/ local_subnet.prefix = 24 /\ key \in at24(Bases24)

LEMMA LocalSubnetType ==
    ASSUME host \in Host, local_interface # NONE
    PROVE  /\ IsSubnet(local_subnet) /\ local_subnet.base \in [1..4 -> Octet]
           /\ local_subnet.prefix = 24 => local_subnet.base \in Bases24
<1> DEFINE a == first_ipv4(local_interface.ips)
<1>1. a.ip \in Ips /\ a.prefix \in 0..32
  BY FindInterfaceType, FirstIpv4 DEF local_interface
<1>2. local_subnet = [base |-> network_base(a.ip, a.prefix), prefix |-> a.prefix]
  BY DEF local_subnet, subnet_of
<1> HIDE DEF a
<1>3. IsAddress(a.ip)
  BY <1>1, SessionAssumption
<1>4. IsAddress(network_base(a.ip, a.prefix))
  BY <1>1, <1>3, BaseIsAddress
<1>5. network_base(a.ip, a.prefix) \in [1..4 -> Octet]
  BY <1>4 DEF IsAddress, network_base
<1>6. a.prefix = 24 => network_base(a.ip, a.prefix)[4] = 0
  <2> SUFFICES ASSUME a.prefix = 24 PROVE network_base(a.ip, 24)[4] = 0
    OBVIOUS
  <2>1. kept_in(24, 4) = 0 /\ 0 \in 0..8
    BY DEF kept_in, kept_bits, overflows
  <2>2. \A i \in 1..4 : network_base(a.ip, 24)[i] = a.ip[i] - (a.ip[i] % 2^(8 - kept_in(24, i)))
    BY Zenon DEF network_base
  <2>3. 2^(8 - kept_in(24, 4)) = 256
    BY <2>1, Powers, Zenon
  <2>4. a.ip[4] \in Octet
    BY <1>3 DEF IsAddress
  <2>5. 4 \in 1..4
    OBVIOUS
  <2>6. \A x \in Octet : x - (x % 256) = 0
    BY DEF Octet
  <2> DEFINE cut == 2^(8 - kept_in(24, 4))
  <2>7. network_base(a.ip, 24)[4] = a.ip[4] - (a.ip[4] % cut)
    BY <2>2, <2>5, Zenon
  <2> HIDE DEF cut
  <2>8. cut = 256
    BY <2>3 DEF cut
  <2> QED
    BY <2>4, <2>6, <2>7, <2>8
<1> QED
  BY <1>1, <1>2, <1>4, <1>5, <1>6 DEF IsSubnet, Bases24

\* Every proposal is a /24 of its own.
LEMMA ProposalsType ==
    ASSUME NEW base \in Bases24
    PROVE  /\ neighbours(base) \subseteq Bases24
           /\ DOMAIN proposals(base) \subseteq at24(Bases24)
           /\ DOMAIN proposals(base) = at24(neighbours(base)) \cup at24(common_private(base))
           /\ \A key \in DOMAIN proposals(base) :
                 /\ proposals(base)[key] \in {"AdjacentSweep", "CommonPrivate"}
                 /\ proposals(base)[key] = "AdjacentSweep" <=> key \in at24(neighbours(base))
<1>1. neighbours(base) \subseteq Bases24
  <2>1. /\ \A i \in 1..4 : base[i] \in Octet
        /\ \A n \in Octet : saturating_sub(n, 1) \in Octet /\ n + 1 \in 0..256
        /\ \A n \in 0..256 : n % 256 \in Octet
        /\ \A n \in Octet : n \in 0..256
        /\ 0 \in Octet
    BY DEF Bases24, saturating_sub, Octet
  <2> DEFINE adjacent == {saturating_sub(base[2], 1), base[2], base[2] + 1}
             rows == {i \in Octet : saturating_sub(base[3], 1) <= i /\ i <= base[3] + 1}
                     \cup (IF base[2] + 1 > 255 THEN {0} ELSE {})
  <2>2. \A b \in adjacent : b % 256 \in Octet
    BY <2>1
  <2>3. \A c \in rows : c \in Octet
    BY DEF Octet
  <2>4. neighbours(base) = {<<base[1], bc[1] % 256, bc[2], 0>> : bc \in (adjacent \X rows) \ {<<base[2], base[3]>>}}
    BY Zenon DEF neighbours
  <2> HIDE DEF adjacent, rows
  <2>5. \A bc \in adjacent \X rows : bc[1] \in adjacent /\ bc[2] \in rows
    OBVIOUS
  <2>6. \A a, b, c \in Octet : <<a, b, c, 0>> \in Bases24
    BY <2>1 DEF Bases24
  <2> QED
    <3> SUFFICES ASSUME NEW net \in neighbours(base) PROVE net \in Bases24
      OBVIOUS
    <3>1. PICK bc \in adjacent \X rows : net = <<base[1], bc[1] % 256, bc[2], 0>>
      BY <2>4, Zenon
    <3>2. bc[1] % 256 \in Octet /\ bc[2] \in Octet /\ base[1] \in Octet
      BY <2>1, <2>2, <2>3, <2>5
    <3> QED
      BY <2>6, <3>1, <3>2, Zenon
<1>2. common_private(base) \subseteq Bases24
  BY DEF common_private, CommonPrivate, Bases24, Octet
<1>3. /\ DOMAIN proposals(base) = at24(neighbours(base)) \cup at24(common_private(base))
      /\ \A key \in DOMAIN proposals(base) :
            proposals(base)[key] = IF key \in at24(neighbours(base)) THEN "AdjacentSweep" ELSE "CommonPrivate"
  BY Zenon DEF proposals
<1> QED
  BY <1>1, <1>2, <1>3 DEF at24

\* An address is in one /24 only.
LEMMA Disjoint24 ==
    ASSUME NEW m \in Bases24, NEW n \in Bases24, same_prefix(m, n, 24)
    PROVE  m = n
<1>1. IsAddress(m) /\ IsAddress(n)
  BY DEF Bases24, IsAddress
<1>2. network_base(m, 24) = network_base(n, 24)
  BY <1>1, MaskIsPrefix DEF ip_in_subnet
<1>3. kept_in(24, 1) = 8 /\ kept_in(24, 2) = 8 /\ kept_in(24, 3) = 8
  BY DEF kept_in, kept_bits, overflows
<1>4. 2^(8 - 8) = 1
  BY Powers
<1>5. \A x \in Octet : x - (x % 1) = x
  BY DEF Octet
<1>6. \A ip : IsAddress(ip) => \A i \in 1..3 : network_base(ip, 24)[i] = ip[i]
  <2> SUFFICES ASSUME NEW ip, IsAddress(ip), NEW i \in 1..3
               PROVE  network_base(ip, 24)[i] = ip[i]
    OBVIOUS
  <2>1. network_base(ip, 24)[i] = ip[i] - (ip[i] % 2^(8 - kept_in(24, i)))
    BY DEF network_base
  <2>2. kept_in(24, i) = 8 /\ ip[i] \in Octet
    BY <1>3 DEF IsAddress
  <2> QED
    BY <1>4, <1>5, <2>1, <2>2
<1>7. \A i \in 1..3 : m[i] = n[i]
  BY <1>1, <1>2, <1>6
<1> QED
  BY <1>7 DEF Bases24

\* What the candidates of adjacent_subnets_from come to, if no octet wraps.
around(base) ==
    LET near(o) == {o - 1, o, o + 1} \cap Octet
    IN  {<<base[1], b, c, 0>> : b \in near(base[2]), c \in near(base[3])} \ {base}

LEMMA NeighboursAreAround ==
    ASSUME NEW base \in Bases24, base[2] < 255
    PROVE  neighbours(base) = around(base)
<1> DEFINE adjacent == {saturating_sub(base[2], 1), base[2], base[2] + 1}
           rows == {i \in Octet : saturating_sub(base[3], 1) <= i /\ i <= base[3] + 1}
                   \cup (IF base[2] + 1 > 255 THEN {0} ELSE {})
           near(o) == {o - 1, o, o + 1} \cap Octet
           net(b, c) == <<base[1], b, c, 0>>
<1>1. /\ base[2] \in 0..254 /\ base[3] \in Octet
      /\ \A b, c : net(b, c) = base <=> b = base[2] /\ c = base[3]
  BY DEF Bases24, Octet
<1>2. adjacent = near(base[2]) /\ rows = near(base[3]) /\ \A b \in adjacent : b % 256 = b
  <2> DEFINE second == base[2]
             third == base[3]
  <2>1. second \in 0..254 /\ third \in 0..255
    BY <1>1 DEF Octet
  <2>2. /\ \A b : b \in adjacent <=> b \in {saturating_sub(second, 1), second, second + 1}
        /\ \A b : b \in near(base[2]) <=> b \in {second - 1, second, second + 1} /\ b \in 0..255
        /\ \A c : c \in near(base[3]) <=> c \in {third - 1, third, third + 1} /\ c \in 0..255
    BY Zenon DEF Octet
  <2>8. \A c : c \in rows <=>
           \/ c \in 0..255 /\ saturating_sub(third, 1) <= c /\ c <= third + 1
           \/ second + 1 > 255 /\ c = 0
    BY DEF Octet
  <2> HIDE DEF second, third, adjacent, rows, near
  <2>3. saturating_sub(second, 1) = (IF second = 0 THEN 0 ELSE second - 1)
    BY <2>1 DEF saturating_sub
  <2>4. saturating_sub(third, 1) = (IF third = 0 THEN 0 ELSE third - 1)
    BY <2>1 DEF saturating_sub
  <2>5. adjacent = near(base[2])
    <3>1. ASSUME NEW b \in 0..255 PROVE b \in adjacent <=> b \in near(base[2])
      BY <2>1, <2>2, <2>3
    <3>2. \A b \in adjacent : b \in 0..255
      BY <2>1, <2>2, <2>3
    <3> QED
      BY <2>2, <3>1, <3>2
  <2>6. rows = near(base[3])
    <3>1. ASSUME NEW c \in 0..255 PROVE c \in rows <=> c \in near(base[3])
      BY <2>1, <2>2, <2>4, <2>8
    <3>2. \A c \in rows : c \in 0..255
      BY <2>1, <2>8
    <3> QED
      BY <2>2, <3>1, <3>2
  <2>7. \A b \in adjacent : b % 256 = b
    BY <2>1, <2>2, <2>3
  <2> QED
    BY <2>5, <2>6, <2>7
<1>3. neighbours(base) = {net(bc[1] % 256, bc[2]) : bc \in (adjacent \X rows) \ {<<base[2], base[3]>>}}
  BY Zenon DEF neighbours
<1>4. around(base) = {net(b, c) : b \in near(base[2]), c \in near(base[3])} \ {base}
  BY DEF around
<1> HIDE DEF adjacent, rows, near, net
<1>5. ASSUME NEW n \in neighbours(base) PROVE n \in around(base)
  <2>1. PICK bc \in adjacent \X rows : bc # <<base[2], base[3]>> /\ n = net(bc[1] % 256, bc[2])
    BY <1>3, Zenon
  <2>2. bc[1] \in adjacent /\ bc[2] \in rows /\ bc = <<bc[1], bc[2]>>
    BY <2>1
  <2>3. n = net(bc[1], bc[2]) /\ ~ (bc[1] = base[2] /\ bc[2] = base[3])
    BY <1>2, <2>1, <2>2
  <2> QED
    BY <1>1, <1>2, <1>4, <2>2, <2>3
<1>6. ASSUME NEW n \in around(base) PROVE n \in neighbours(base)
  <2>1. PICK b \in near(base[2]), c \in near(base[3]) : n = net(b, c)
    BY <1>4
  <2>2. ~ (b = base[2] /\ c = base[3])
    BY <1>1, <1>4, <2>1
  <2>3. <<b, c>> \in (adjacent \X rows) \ {<<base[2], base[3]>>}
    BY <1>2, <2>2
  <2>4. n = net(<<b, c>>[1] % 256, <<b, c>>[2])
    BY <1>2, <2>1
  <2> QED
    BY <1>3, <2>3, <2>4, Zenon
<1> QED
  BY <1>5, <1>6

\* The elements of a set in some order.
LEMMA OrderType ==
    ASSUME NEW S, IsFiniteSet(S), NEW s \in SetToSeqs(S)
    PROVE  s \in Seq(S)
<1>1. Cardinality(S) \in Nat
  BY FS_CardinalityType
<1> QED
  BY <1>1 DEF SetToSeqs

LEMMA ImageIsFinite ==
    ASSUME NEW f, IsFiniteSet(DOMAIN f)
    PROVE  IsFiniteSet({f[x] : x \in DOMAIN f})
<1> DEFINE T == {f[x] : x \in DOMAIN f}
           g == [x \in DOMAIN f |-> f[x]]
<1>1. g \in Surjection(DOMAIN f, T)
  BY DEF Surjection
<1> HIDE DEF g, T
<1>2. IsFiniteSet(T)
  BY <1>1, FS_Surjection
<1> QED
  BY <1>2 DEF T

\* Gateways are addresses that were in a frame.
LEMMA GatewaysType ==
    ASSUME NEW heard \in SUBSET Frames, NEW list \in gateway_lists(heard)
    PROVE  list \in Seq(Ips)
<1> DEFINE arp == arp_gateways(heard)
           dhcp == dhcp_servers(heard) \ arp
<1>1. IsFiniteSet(heard)
  BY SurveyAssumption, FS_Subset
<1>2. arp \subseteq Ips /\ IsFiniteSet(arp)
  <2> DEFINE senders == {f.sender.ip : f \in heard}
             targets_ == {f.target.ip : f \in heard}
  <2>1. arp \subseteq senders \cup targets_
    BY DEF arp_gateways
  <2>2. \A f \in heard : f.type = "arp" => {f.sender.ip, f.target.ip} \subseteq Ips
    BY SurveyAssumption
  <2>3. arp \subseteq Ips
    BY <2>2 DEF arp_gateways
  <2>4. IsFiniteSet(senders) /\ IsFiniteSet(targets_)
    <3> DEFINE f == [x \in heard |-> x.sender.ip]
               g == [x \in heard |-> x.target.ip]
    <3>1. DOMAIN f = heard /\ DOMAIN g = heard
      OBVIOUS
    <3>2. senders = {f[x] : x \in DOMAIN f} /\ targets_ = {g[x] : x \in DOMAIN g}
      OBVIOUS
    <3> HIDE DEF f, g
    <3> QED
      BY <1>1, <3>1, <3>2, ImageIsFinite
  <2> HIDE DEF senders, targets_, arp
  <2>5. IsFiniteSet(senders \cup targets_)
    BY <2>4, FS_Union
  <2> QED
    BY <2>1, <2>3, <2>5, FS_Subset
<1>3. dhcp \subseteq Ips /\ IsFiniteSet(dhcp)
  <2> DEFINE sources == {f.src : f \in {g \in heard : g.type = "dhcp"}}
             ends == {f.dst : f \in {g \in heard : g.type = "dhcp"}}
  <2>1. dhcp \subseteq sources \cup ends
    BY DEF dhcp_servers
  <2>2. \A f \in heard : f.type = "dhcp" => {f.src, f.dst} \subseteq Ips
    BY SurveyAssumption
  <2>3. sources \subseteq Ips /\ ends \subseteq Ips
    BY <2>2
  <2>4. IsFiniteSet({g \in heard : g.type = "dhcp"})
    BY <1>1, FS_Subset
  <2>5. IsFiniteSet(sources) /\ IsFiniteSet(ends)
    <3> DEFINE packets == {g \in heard : g.type = "dhcp"}
               f == [x \in packets |-> x.src]
               g == [x \in packets |-> x.dst]
    <3>1. DOMAIN f = packets /\ DOMAIN g = packets
      OBVIOUS
    <3>2. sources = {f[x] : x \in DOMAIN f} /\ ends = {g[x] : x \in DOMAIN g}
      OBVIOUS
    <3>3. IsFiniteSet(packets)
      BY <2>4
    <3> HIDE DEF f, g, packets, sources, ends
    <3> QED
      BY <3>1, <3>2, <3>3, ImageIsFinite
  <2> HIDE DEF sources, ends, dhcp
  <2>6. IsFiniteSet(sources \cup ends)
    BY <2>5, FS_Union
  <2> QED
    BY <2>1, <2>3, <2>6, FS_Subset
<1> HIDE DEF arp, dhcp
<1>4. PICK a \in SetToSeqs(arp), d \in SetToSeqs(dhcp) : list = a \o d
  <2> DEFINE lists(x, y) == {a \o d : a \in SetToSeqs(x), d \in SetToSeqs(y)}
  <2>1. gateway_lists(heard) = lists(arp_gateways(heard), dhcp_servers(heard) \ arp_gateways(heard))
    BY DEF gateway_lists
  <2> HIDE DEF lists
  <2>2. gateway_lists(heard) = lists(arp, dhcp)
    BY <2>1 DEF arp, dhcp
  <2>3. list \in lists(arp, dhcp)
    BY <2>2
  <2> QED
    BY <2>3 DEF lists
<1>5. a \in Seq(arp) /\ d \in Seq(dhcp)
  BY <1>2, <1>3, OrderType
<1>6. a \in Seq(Ips) /\ d \in Seq(Ips)
  BY <1>2, <1>3, <1>5
<1> QED
  BY <1>4, <1>6

\* What a gateway tells are subnets.
LEMMA AnswerType ==
    ASSUME NEW gateway \in Ips, NEW answers \in igd(gateway)
    PROVE  \A key \in query_upnp_wan(answers) : IsNet(key)
<1> SUFFICES ASSUME NEW a \in answers, NEW key \in answer_subnets(a)
             PROVE  IsNet(key)
  BY DEF query_upnp_wan
<1>1. /\ a.external # NONE => IsAddress(a.external)
      /\ a.mask \in Option(0..32)
      /\ \A r \in a.routers : IsAddress(r)
  BY SurveyAssumption, SessionAssumption
<1>2. CASE key \in {<<network_base(a.external, p), p>> : p \in {24, 28, 29, 30}} /\ a.external # NONE
  <2>1. PICK p \in {24, 28, 29, 30} : key = <<network_base(a.external, p), p>>
    BY <1>2
  <2>2. p \in 0..32 /\ IsAddress(network_base(a.external, p))
    BY <1>1, <1>2, BaseIsAddress
  <2> QED
    BY <2>1, <2>2 DEF IsNet
<1>3. CASE key = <<network_base(a.external, a.mask), a.mask>> /\ a.external # NONE /\ a.mask # NONE
  <2>1. a.mask \in 0..32
    BY <1>1, <1>3 DEF Option
  <2>2. IsAddress(network_base(a.external, a.mask))
    BY <1>1, <1>3, <2>1, BaseIsAddress
  <2> QED
    BY <1>3, <2>1, <2>2 DEF IsNet
<1>4. CASE key \in {<<r, p>> : r \in a.routers, p \in {24, 16}}
  BY <1>1, <1>4 DEF IsNet
<1> QED
  BY <1>2, <1>3, <1>4 DEF answer_subnets

LEMMA SurveyInitInv == Init => SurveyInv
<1> SUFFICES ASSUME Init PROVE SurveyInv
  OBVIOUS
<1>1. /\ stage = "main" /\ gateways = <<>> /\ interrogated = 0
      /\ DOMAIN all_subnets = {}
  BY DEF Init, SessionInit, SurveyInit
<1>2. gateways \in Seq(Ips)
  BY <1>1
<1> QED
  BY <1>1, <1>2 DEF SurveyInv

LEMMA SurveyNext == StageInv /\ SurveyInv /\ [Next]_vars => SurveyInv'
<1> SUFFICES ASSUME StageInv, SurveyInv, [Next]_vars PROVE SurveyInv'
  OBVIOUS
<1>0. /\ host \in Host /\ UNCHANGED <<host, request>>
      /\ local_interface' = local_interface /\ local_subnet' = local_subnet /\ LocalKey' = LocalKey
  BY Moves DEF StageInv, input_vars, local_interface, local_subnet, LocalKey
<1>1. CASE FindInterface /\ stage = "survey"
  <2>1. /\ UNCHANGED survey_vars
        /\ stage' = IF local_interface = NONE THEN "returned" ELSE "gateways"
    BY <1>1 DEF FindInterface
  <2> QED
    BY <1>0, <1>1, <2>1 DEF SurveyInv, survey_vars
<1>2. CASE DetectGateways /\ stage = "gateways"
  <2>1. /\ stage' = "upnp" /\ interrogated' = interrogated
        /\ \E heard \in IF panics(local_subnet.prefix) THEN {{}} ELSE SUBSET Frames :
              gateways' \in gateway_lists(heard)
        /\ IF gateways' = <<>>
           THEN UNCHANGED all_subnets
           ELSE \E key \in {LocalKey} : all_subnets' = or_insert(all_subnets, {key}, "GatewayRoute")
    BY <1>2 DEF DetectGateways, LocalKey
  <2>2. gateways' \in Seq(Ips)
    BY <2>1, GatewaysType
  <2>3. DOMAIN all_subnets = {} /\ local_interface # NONE
    BY <1>2 DEF SurveyInv
  <2>4. ASSUME NEW key \in DOMAIN all_subnets'
        PROVE  key = LocalKey /\ all_subnets'[key] = "GatewayRoute"
    BY <2>1, <2>3 DEF or_insert, or_insert_all
  <2>5. IsNet(LocalKey)
    BY <1>0, <2>3, LocalSubnetType DEF IsNet, LocalKey, IsSubnet
  <2> QED
    BY <1>0, <2>1, <2>2, <2>3, <2>4, <2>5 DEF SurveyInv
<1>3. CASE Interrogate /\ stage = "upnp"
  <2>1. /\ interrogated < Len(gateways) /\ interrogated' = interrogated + 1
        /\ gateways' = gateways
        /\ \E answers \in igd(gateways[interrogated']) :
              \/ stage' = "panicked" /\ UNCHANGED all_subnets
              \/ /\ UNCHANGED stage
                 /\ all_subnets' = or_insert(all_subnets, query_upnp_wan(answers), "UpnpDiscovery")
    BY <1>3 DEF Interrogate
  <2>2. gateways[interrogated'] \in Ips /\ interrogated' \in Nat
    BY <2>1 DEF SurveyInv
  <2>3. CASE stage' = "panicked" /\ UNCHANGED all_subnets
    BY <2>1, <2>2, <2>3 DEF SurveyInv
  <2>4. ASSUME NEW answers \in igd(gateways[interrogated']), UNCHANGED stage,
               all_subnets' = or_insert(all_subnets, query_upnp_wan(answers), "UpnpDiscovery")
        PROVE  SurveyInv'
    <3>1. \A key \in query_upnp_wan(answers) : IsNet(key)
      BY <2>2, AnswerType
    <3>2. /\ DOMAIN all_subnets' = DOMAIN all_subnets \cup query_upnp_wan(answers)
          /\ \A key \in DOMAIN all_subnets' :
                all_subnets'[key] = IF key \in DOMAIN all_subnets THEN all_subnets[key] ELSE "UpnpDiscovery"
      BY <2>4 DEF or_insert, or_insert_all
    <3>3. \A key \in DOMAIN all_subnets : IsNet(key)
      BY DEF SurveyInv
    <3>4. \A key \in DOMAIN all_subnets :
              \/ all_subnets[key] = "UpnpDiscovery"
              \/ all_subnets[key] = "GatewayRoute" /\ key = LocalKey
      BY <1>3 DEF SurveyInv
    <3>5. \A key \in DOMAIN all_subnets' :
              \/ all_subnets'[key] = "UpnpDiscovery"
              \/ all_subnets'[key] = "GatewayRoute" /\ key = LocalKey'
      BY <1>0, <3>2, <3>4
    <3> QED
      BY <1>0, <1>3, <2>1, <2>2, <2>4, <3>1, <3>2, <3>3, <3>5 DEF SurveyInv
  <2> QED
    BY <2>1, <2>3, <2>4
<1>4. CASE AddNeighbours /\ stage = "upnp"
  <2>1. /\ UNCHANGED <<gateways, interrogated>>
        /\ \/ stage' = "panicked" /\ UNCHANGED all_subnets
           \/ /\ stage' = "probe"
              /\ all_subnets' = adjacent_subnets_from(local_subnet.base, local_subnet.prefix, all_subnets)
    BY <1>4 DEF AddNeighbours
  <2>2. CASE stage' = "panicked" /\ UNCHANGED all_subnets
    BY <2>1, <2>2 DEF SurveyInv
  <2>3. CASE /\ stage' = "probe"
             /\ all_subnets' = adjacent_subnets_from(local_subnet.base, local_subnet.prefix, all_subnets)
    <3>1. /\ local_interface # NONE
          /\ \A key \in DOMAIN all_subnets :
                IsNet(key) /\ (all_subnets[key] = "UpnpDiscovery" \/ key = LocalKey)
      BY <1>4 DEF SurveyInv
    <3>2. /\ IsSubnet(local_subnet)
          /\ local_subnet.prefix = 24 => local_subnet.base \in Bases24
      BY <1>0, <3>1, LocalSubnetType
    <3>3. IsNet(LocalKey)
      BY <3>2 DEF IsNet, LocalKey, IsSubnet
    <3>4. CASE local_subnet.prefix # 24
      <4>1. /\ DOMAIN all_subnets' = DOMAIN all_subnets \cup {LocalKey}
            /\ \A key \in DOMAIN all_subnets : all_subnets'[key] = all_subnets[key]
        BY <2>3, <3>4 DEF adjacent_subnets_from, or_insert, or_insert_all, LocalKey
      <4>2. \A key \in DOMAIN all_subnets' :
               IsNet(key) /\ (all_subnets'[key] = "UpnpDiscovery" \/ key = LocalKey')
        BY <1>0, <3>1, <3>3, <4>1
      <4> QED
        BY <1>0, <2>1, <2>3, <3>1, <4>2 DEF SurveyInv
    <3>5. CASE local_subnet.prefix = 24
      <4> DEFINE new == proposals(local_subnet.base)
      <4>1. /\ DOMAIN all_subnets' = DOMAIN all_subnets \cup DOMAIN new
            /\ \A key \in DOMAIN all_subnets : all_subnets'[key] = all_subnets[key]
        BY <2>3, <3>5 DEF adjacent_subnets_from, or_insert_all
      <4>2. DOMAIN new \subseteq at24(Bases24)
        BY <3>2, <3>5, ProposalsType
      <4> HIDE DEF new
      <4>3. \A key \in at24(Bases24) : IsNet(key)
        BY DEF at24, Bases24, IsNet, IsAddress
      <4>4. \A key \in DOMAIN all_subnets' :
               /\ IsNet(key)
               /\ \/ all_subnets'[key] = "UpnpDiscovery" \/ key = LocalKey'
                  \/ key \in at24(Bases24)
        BY <1>0, <3>1, <4>1, <4>2, <4>3
      <4> QED
        BY <1>0, <2>1, <2>3, <3>1, <3>5, <4>4 DEF SurveyInv
    <3> QED
      BY <3>4, <3>5
  <2> QED
    BY <2>1, <2>2, <2>3
<1>5. CASE Probe /\ stage = "probe" /\ stage' = "record"
  <2>1. UNCHANGED <<gateways, interrogated, all_subnets>>
    BY <1>5 DEF Probe
  <2> QED
    BY <1>5, <2>1 DEF SurveyInv
<1>6. CASE SessionMoves /\ UNCHANGED survey_vars
  <2>1. \/ stage = "main" /\ stage' \in {"scan", "survey"}
        \/ stage' = "returned"
    BY <1>6 DEF SessionMoves, StageInv, Request
  <2> QED
    BY <1>6, <2>1 DEF SurveyInv, survey_vars
<1>7. CASE ScanMoves /\ UNCHANGED survey_vars
  <2>1. stage' \notin {"main", "survey", "gateways", "upnp", "probe"}
    BY <1>7 DEF ScanMoves
  <2> QED
    BY <1>7, <2>1 DEF SurveyInv, survey_vars
<1>8. CASE UNCHANGED vars
  BY <1>0, <1>8 DEF vars, session_vars, survey_vars, SurveyInv
<1> QED
  BY <1>1, <1>2, <1>3, <1>4, <1>5, <1>6, <1>7, <1>8, Moves DEF SurveyMoves

LEMMA SurveyInvHolds == Spec => [](StageInv /\ SurveyInv)
BY StageInit, StageNext, SurveyInitInv, SurveyNext, PTL DEF Spec

\* Only a gateway's UPnP answer can make two of the probed subnets overlap,
\* whatever the local subnet is: no host is counted twice otherwise.
THEOREM SubnetsOverlapOnlyByUpnp == Spec => []OverlapOnlyByUpnp
<1>1. StageInv /\ SurveyInv => OverlapOnlyByUpnp
  <2> SUFFICES ASSUME StageInv, SurveyInv, stage = "probe",
                      NEW k \in DOMAIN all_subnets, NEW l \in DOMAIN all_subnets,
                      all_subnets[k] # "UpnpDiscovery", all_subnets[l] # "UpnpDiscovery",
                      same_prefix(k[1], l[1], Min({k[2], l[2]}))
               PROVE  k = l
    BY DEF OverlapOnlyByUpnp
  <2>1. /\ local_subnet.prefix = 24 => local_subnet.base \in Bases24
    BY LocalSubnetType DEF StageInv, SurveyInv
  <2>2. \A key \in {k, l} : key = LocalKey \/ (local_subnet.prefix = 24 /\ key \in at24(Bases24))
    BY DEF SurveyInv
  <2>3. CASE local_subnet.prefix # 24
    BY <2>2, <2>3
  <2>4. CASE local_subnet.prefix = 24
    <3>1. LocalKey \in at24(Bases24)
      BY <2>1, <2>4 DEF LocalKey, at24
    <3>2. k \in at24(Bases24) /\ l \in at24(Bases24)
      BY <2>2, <3>1
    <3>3. PICK m \in Bases24, n \in Bases24 : k = <<m, 24>> /\ l = <<n, 24>>
      BY <3>2 DEF at24
    <3>4. Min({k[2], l[2]}) = 24
      BY <3>3 DEF Min
    <3>5. m = n
      BY <3>3, <3>4, Disjoint24
    <3> QED
      BY <3>3, <3>5
  <2> QED
    BY <2>3, <2>4
<1> QED
  BY <1>1, SurveyInvHolds, PTL

\* The neighbours of the local /24 are proposed, and nothing else is called one,
\* for every base whose second octet is not 255.
THEOREM NeighboursAreProposed == Spec => []NeighboursProposed
<1>1. Init => NeighboursProposed
  BY DEF Init, SessionInit, NeighboursProposed
<1>2. StageInv /\ SurveyInv /\ NeighboursProposed /\ [Next]_vars => NeighboursProposed'
  <2> SUFFICES ASSUME StageInv, SurveyInv, NeighboursProposed, [Next]_vars, stage' = "probe",
                      local_subnet'.prefix = 24, local_subnet'.base[2] < 255
               PROVE  NeighboursProposed'
    BY DEF NeighboursProposed
  <2>1. local_subnet' = local_subnet /\ host \in Host
    BY Moves DEF StageInv, input_vars, local_interface, local_subnet
  <2>2. CASE AddNeighbours /\ stage = "upnp"
    <3> DEFINE base == local_subnet.base
               new == proposals(base)
    <3>1. base \in Bases24
      BY <2>1, <2>2, LocalSubnetType DEF SurveyInv
    <3>2. all_subnets' = or_insert_all(all_subnets, new)
      BY <2>1, <2>2 DEF AddNeighbours, adjacent_subnets_from
    <3>3. /\ DOMAIN new = at24(neighbours(base)) \cup at24(common_private(base))
          /\ \A key \in DOMAIN new : new[key] = "AdjacentSweep" => key \in at24(neighbours(base))
      BY <3>1, ProposalsType
    <3>4. \A key \in DOMAIN all_subnets : all_subnets[key] # "AdjacentSweep"
      BY <2>2 DEF SurveyInv
    <3> HIDE DEF new
    <3>5. /\ at24(neighbours(base)) \subseteq DOMAIN all_subnets'
          /\ \A key \in DOMAIN all_subnets' :
                all_subnets'[key] = "AdjacentSweep" => key \in at24(neighbours(base))
      BY <3>2, <3>3, <3>4 DEF or_insert_all
    <3>6. neighbours(base) = around(base)
      BY <2>1, <3>1, NeighboursAreAround
    <3> HIDE DEF base
    <3>7. base = local_subnet'.base
      BY <2>1 DEF base
    <3> QED
      BY <3>5, <3>6, <3>7 DEF NeighboursProposed, around
  <2>3. CASE UNCHANGED <<stage, all_subnets>>
    BY <2>1, <2>3 DEF NeighboursProposed
  <2>4. (AddNeighbours /\ stage = "upnp") \/ UNCHANGED <<stage, all_subnets>>
    <3>1. request.command \in {"scan", "survey"}
      BY DEF StageInv, Request
    <3> QED
      BY <3>1, Moves DEF SessionMoves, ScanMoves, SurveyMoves, vars, session_vars, survey_vars
  <2> QED
    BY <2>2, <2>3, <2>4
<1> QED
  BY <1>1, <1>2, SurveyInvHolds, PTL DEF Spec

\* A subnet that a survey reports live, and records, has a host of its own that
\* answered, whatever the subnets and however many replies of others there were.
THEOREM LiveSubnetsAnswered == Spec => []LiveMeansAnswered
<1>1. Init => LiveMeansAnswered
  BY DEF Init, SessionInit, LiveMeansAnswered
<1>2. StageInv /\ SurveyInv /\ LiveMeansAnswered /\ [Next]_vars => LiveMeansAnswered'
  <2> SUFFICES ASSUME StageInv, SurveyInv, LiveMeansAnswered, [Next]_vars,
                      stage' = "record", request'.command = "survey", ~ request'.verbose,
                      NEW key \in DOMAIN report', report'[key] \notin {NONE, 0}
               PROVE  \E ip \in answering' : same_prefix(ip, key[1], key[2])
    BY DEF LiveMeansAnswered
  <2>1. request' = request
    BY Moves DEF input_vars
  <2>2. CASE Probe
    <3>1. PICK ips \in SUBSET Responders : \E replies :
            /\ answering' = ips
            /\ DOMAIN report' = DOMAIN all_subnets
            /\ report'[key] = host_count(key, in_sweep(key, ips), replies)
      <4> DEFINE found(i) == [k \in DOMAIN all_subnets |-> in_sweep(k, i)]
                 counts(i, r) == [k \in DOMAIN found(i) |-> host_count(k, found(i)[k], r)]
      <4>1. \E i \in SUBSET (Responders \ {find_source_ip(host, request.interface)}) :
               \E r : answering' = i /\ report' = counts(i, r)
        BY <2>2, Zenon DEF Probe
      <4> QED
        BY <4>1
    <3>2. probed(key) /\ in_sweep(key, ips) # {}
      BY <2>1, <3>1 DEF host_count, arp_scanned
    <3>3. PICK ip \in ips : subnet_iter(ip, key[1], key[2])
      BY <3>2 DEF in_sweep
    <3>4. IsAddress(ip) /\ IsAddress(key[1]) /\ key[2] \in 1..32
      BY <3>1, <3>2, SurveyAssumption, SessionAssumption DEF SurveyInv, IsNet, probed
    <3>5. same_prefix(ip, key[1], key[2])
      BY <3>3, <3>4, MaskIsPrefix DEF subnet_iter
    <3> QED
      BY <3>1, <3>5
  <2>3. CASE UNCHANGED <<stage, report, answering>>
    BY <2>1, <2>3 DEF LiveMeansAnswered
  <2>4. Probe \/ UNCHANGED <<stage, report, answering>>
    <3>1. request.command = "survey"
      BY <2>1
    <3> QED
      BY <2>1, <3>1, Moves DEF SessionMoves, ScanMoves, SurveyMoves, StageInv, ScanStages,
                               vars, session_vars, survey_vars
  <2> QED
    BY <2>2, <2>3, <2>4
<1> QED
  BY <1>1, <1>2, SurveyInvHolds, PTL DEF Spec

-----------------------------------------------------------------------------
(***************************************************************************)
(* The names of a scan.                                                    *)
(***************************************************************************)

\* The inductive form of NamesSurviveFailures: what a task that has been joined
\* returned is in the results.
NamesInv ==
    /\ stage \in {"main", "survey", "scan", "arp", "sweep", "names"} => DOMAIN queries = {}
    /\ stage = "resolve" =>
          \A i \in DOMAIN queries \ pending :
              queries[i] \notin {NONE, Failed} => all_ips[i] \in DOMAIN names

LEMMA NamesInit == Init => NamesInv
BY DEF Init, SessionInit, ScanInit, Nothing, NamesInv

LEMMA NamesNext == StageInv /\ NamesInv /\ [Next]_vars => NamesInv'
<1> SUFFICES ASSUME StageInv, NamesInv, [Next]_vars PROVE NamesInv'
  OBVIOUS
<1>1. CASE ResolveBulk /\ stage = "names"
  BY <1>1 DEF ResolveBulk, name_vars, NamesInv
<1>2. ASSUME NEW i \in pending, Query(i), stage = "resolve", stage' = stage
      PROVE  NamesInv'
  <2>1. UNCHANGED <<pending, names>> /\ all_ips' = all_ips
    BY <1>2 DEF Query, found_vars, all_ips
  <2>2. /\ DOMAIN queries' = DOMAIN queries \cup {i}
        /\ \A k \in DOMAIN queries \ {i} : queries'[k] = queries[k]
    BY <1>2 DEF Query, insert
  <2> QED
    BY <1>2, <2>1, <2>2 DEF NamesInv
<1>3. ASSUME NEW i \in pending, Join(i), stage = "resolve", stage' = stage
      PROVE  NamesInv'
  <2>1. /\ UNCHANGED queries /\ all_ips' = all_ips /\ pending' = pending \ {i}
        /\ names' = IF queries[i] \in {NONE, Failed} THEN names
                    ELSE insert(names, all_ips[i], queries[i])
    BY <1>3 DEF Join, found_vars, all_ips
  <2>2. /\ DOMAIN names \subseteq DOMAIN names'
        /\ queries[i] \notin {NONE, Failed} => all_ips[i] \in DOMAIN names'
    BY <2>1 DEF insert
  <2> QED
    BY <1>3, <2>1, <2>2 DEF NamesInv
<1>4. CASE stage' \notin {"main", "survey", "scan", "arp", "sweep", "names", "resolve"}
  BY <1>4 DEF NamesInv
<1>5. CASE /\ stage' \in {"survey", "scan", "arp", "sweep", "names"} /\ UNCHANGED queries
           /\ stage \in {"main", "survey", "scan", "arp", "sweep", "names"}
  BY <1>5 DEF NamesInv
<1>6. CASE UNCHANGED <<stage, queries, pending, names, all_ips>>
  BY <1>6 DEF NamesInv
<1>7. CASE SessionMoves /\ UNCHANGED scan_vars
  BY <1>4, <1>5, <1>7 DEF SessionMoves, StageInv, Request, scan_vars, name_vars
<1>8. CASE SurveyMoves
  BY <1>4, <1>8 DEF SurveyMoves
<1>9. CASE ScanMoves
  <2>1. CASE ParseSubnet \/ AutoSubnet \/ ArpScan \/ SweepSubnet
    <3>1. UNCHANGED queries
      BY <2>1 DEF ParseSubnet, AutoSubnet, ArpScan, SweepSubnet, name_vars
    <3> QED
      BY <1>4, <1>5, <1>9, <2>1, <3>1 DEF ScanMoves, ParseSubnet, AutoSubnet, ArpScan, SweepSubnet
  <2> QED
    BY <1>1, <1>2, <1>3, <1>4, <1>9, <2>1 DEF ScanMoves
<1>10. CASE UNCHANGED vars
  BY <1>6, <1>10 DEF vars, session_vars, scan_vars, found_vars, name_vars, all_ips
<1> QED
  BY <1>7, <1>8, <1>9, <1>10, Moves

\* No query that panics and no order of the answers loses the name another query
\* has returned.
THEOREM NamesSurvive == Spec => []NamesSurviveFailures
<1>1. NamesInv => NamesSurviveFailures
  BY DEF NamesInv, NamesSurviveFailures
<1> QED
  BY <1>1, StageInit, StageNext, NamesInit, NamesNext, PTL DEF Spec

-----------------------------------------------------------------------------
(***************************************************************************)
(* The categories of a scan.                                               *)
(***************************************************************************)

\* What is decided about a device, and the evidence it is decided from.
decisions_of(d) ==
    <<service_category(d.services), vendor_category(d.facts["vendor"]),
      hostname_category(d.facts["hostname"]), os_category(d.facts["os_hint"]),
      first_match(FallbackRules, words_of(d.facts["vendor"]))>>

StrongestOf(decisions, category) ==
    IF \A k \in DOMAIN decisions : decisions[k] = NONE
    THEN category = "Unknown"
    ELSE \E k \in DOMAIN decisions :
            /\ category = decisions[k] /\ decisions[k] # NONE
            /\ \A l \in 1..(k - 1) : decisions[l] = NONE

\* classify takes the first decision in that order.
LEMMA ClassifyTakesFirst ==
    ASSUME NEW d
    PROVE  StrongestOf(decisions_of(d), classify(evidence(d)))
<1> DEFINE s == service_category(d.services)
           v == vendor_category(d.facts["vendor"])
           h == hostname_category(d.facts["hostname"])
           o == os_category(d.facts["os_hint"])
           f == first_match(FallbackRules, words_of(d.facts["vendor"]))
           e == evidence(d)
           decided == IF s # NONE THEN s ELSE IF v # NONE THEN v ELSE IF h # NONE THEN h
                      ELSE IF o # NONE THEN o ELSE IF f # NONE THEN f ELSE "Unknown"
<1>1. /\ e.services = d.services /\ e.vendor = d.facts["vendor"]
      /\ e.hostname = d.facts["hostname"] /\ e.os_hint = d.facts["os_hint"]
  BY DEF evidence
<1> HIDE DEF e
<1>2. classify(e) = decided
  BY <1>1, Zenon DEF classify
<1>3. decisions_of(d) = <<s, v, h, o, f>>
  BY Zenon DEF decisions_of
<1> HIDE DEF s, v, h, o, f
<1>4. StrongestOf(<<s, v, h, o, f>>, decided)
  <2> DEFINE all == <<s, v, h, o, f>>
  <2>1. /\ DOMAIN all = 1..5 /\ all[1] = s /\ all[2] = v /\ all[3] = h /\ all[4] = o /\ all[5] = f
    OBVIOUS
  <2> HIDE DEF all
  <2>2. CASE s # NONE
    BY <2>1, <2>2 DEF StrongestOf
  <2>3. CASE s = NONE /\ v # NONE
    BY <2>1, <2>3 DEF StrongestOf
  <2>4. CASE s = NONE /\ v = NONE /\ h # NONE
    BY <2>1, <2>4 DEF StrongestOf
  <2>5. CASE s = NONE /\ v = NONE /\ h = NONE /\ o # NONE
    BY <2>1, <2>5 DEF StrongestOf
  <2>6. CASE s = NONE /\ v = NONE /\ h = NONE /\ o = NONE /\ f # NONE
    BY <2>1, <2>6 DEF StrongestOf
  <2>7. CASE s = NONE /\ v = NONE /\ h = NONE /\ o = NONE /\ f = NONE
    BY <2>1, <2>7 DEF StrongestOf
  <2> QED
    BY <2>2, <2>3, <2>4, <2>5, <2>6, <2>7
<1> QED
  BY <1>2, <1>3, <1>4 DEF e

\* A device has the fields of one; its category does not change the others.
HasFields(d) ==
    /\ DOMAIN d = {"ip", "mac", "services", "category", "facts"}
    /\ DOMAIN d.facts = Facts

\* The inductive form of StrongestEvidenceDecides.
CategoryInv ==
    /\ stage \in {"fingerprint", "classify"} => \A n \in DOMAIN devices : HasFields(devices[n])
    /\ StrongestEvidenceDecides

LEMMA DeviceFields ==
    ASSUME NEW n PROVE HasFields(device(n))
<1>1. \A ip : HasFields(from_sweep(ip))
  BY DEF from_sweep, HasFields
<1>2. \A x : HasFields(from_entry(x))
  BY <1>1 DEF from_entry, HasFields
<1>3. \A d, services, vendor, hostname, os_hint :
        HasFields(d) => HasFields([d EXCEPT !.services = services,
                                            !.facts = [vendor |-> vendor, hostname |-> hostname,
                                                       os_hint |-> os_hint]])
  BY SessionAssumption DEF HasFields
<1> QED
  BY <1>1, <1>2, <1>3, Zenon DEF device

LEMMA CategoryNext == StageInv /\ CategoryInv /\ [Next]_vars => CategoryInv'
<1> SUFFICES ASSUME StageInv, CategoryInv, [Next]_vars PROVE CategoryInv'
  OBVIOUS
<1>0. UNCHANGED request
  BY Moves DEF input_vars
<1>1. CASE ProbeBulk /\ stage' = "fingerprint"
  <2>1. devices' = [n \in DOMAIN all_ips |-> device(n)]
    BY <1>1 DEF ProbeBulk
  <2>2. \A n \in DOMAIN devices' : HasFields(devices'[n])
    BY <2>1, DeviceFields
  <2> QED
    BY <1>1, <2>2 DEF CategoryInv, StrongestEvidenceDecides
<1>2. CASE ApplyFingerprints /\ stage = "fingerprint" /\ stage' = "classify"
  <2>1. devices' = [n \in DOMAIN devices |-> apply_fingerprint(n)]
    BY <1>2 DEF ApplyFingerprints
  <2>2. \A d, hint : HasFields(d) => HasFields([d EXCEPT !.facts["os_hint"] = hint])
    BY DEF HasFields
  <2>3. ASSUME NEW n \in DOMAIN devices PROVE HasFields(apply_fingerprint(n))
    <3>1. HasFields(devices[n])
      BY <1>2 DEF CategoryInv
    <3> QED
      BY <2>2, <3>1, Zenon DEF apply_fingerprint
  <2> QED
    BY <1>2, <2>1, <2>3 DEF CategoryInv, StrongestEvidenceDecides
<1>3. CASE ClassifyAndSort /\ stage = "classify" /\ stage' = "record"
  <2> DEFINE sorted(d) == [d EXCEPT !.category = classify(evidence(d))]
  <2>1. PICK order \in SetToSeqs(DOMAIN devices) :
          devices' = [n \in DOMAIN order |-> sorted(devices[order[n]])]
    BY <1>3, Zenon DEF ClassifyAndSort
  <2>2. \A n \in DOMAIN order : order[n] \in DOMAIN devices
    BY DEF SetToSeqs
  <2>3. ASSUME NEW d, HasFields(d)
        PROVE  StrongestOf(decisions_of(sorted(d)), sorted(d).category)
    <3>1. /\ sorted(d).services = d.services /\ sorted(d).facts = d.facts
          /\ sorted(d).category = classify(evidence(d))
      BY <2>3 DEF HasFields
    <3> HIDE DEF sorted
    <3>2. decisions_of(sorted(d)) = decisions_of(d)
      BY <3>1, Zenon DEF decisions_of
    <3> QED
      BY <3>1, <3>2, ClassifyTakesFirst
  <2> HIDE DEF sorted
  <2>4. ASSUME NEW n \in DOMAIN devices'
        PROVE  StrongestOf(decisions_of(devices'[n]), devices'[n].category)
    <3>1. /\ HasFields(devices[order[n]])
          /\ devices'[n] = sorted(devices[order[n]])
      BY <1>3, <2>1, <2>2 DEF CategoryInv
    <3> QED
      BY <2>3, <3>1
  <2>5. StrongestEvidenceDecides'
    BY <2>4, Zenon DEF StrongestEvidenceDecides, StrongestOf, decisions_of
  <2> QED
    BY <1>3, <2>5 DEF CategoryInv
<1>4. CASE UNCHANGED <<stage, devices>>
  BY <1>0, <1>4 DEF CategoryInv, StrongestEvidenceDecides
<1>5. CASE \/ stage' \notin {"fingerprint", "classify", "record"}
           \/ stage' = "record" /\ request.command = "survey"
  BY <1>0, <1>5 DEF CategoryInv, StrongestEvidenceDecides
<1>6. request.command = "scan" \/ request.command = "survey"
  BY DEF StageInv, Request
<1>7. CASE SessionMoves
  BY <1>5, <1>7 DEF SessionMoves, StageInv, Request
<1>8. CASE ScanMoves
  BY <1>1, <1>2, <1>3, <1>4, <1>5, <1>8 DEF ScanMoves
<1>9. CASE SurveyMoves
  BY <1>5, <1>9 DEF SurveyMoves, StageInv, SurveyStages
<1>10. CASE UNCHANGED vars
  BY <1>4, <1>10 DEF vars, session_vars
<1> QED
  BY <1>7, <1>8, <1>9, <1>10, Moves

\* A finished scan has given every device the category that the strongest of the
\* evidence it holds about it decides on.
THEOREM StrongestDecides == Spec => []StrongestEvidenceDecides
<1>1. Init => CategoryInv
  BY DEF Init, SessionInit, CategoryInv, StrongestEvidenceDecides
<1>2. CategoryInv => StrongestEvidenceDecides
  BY DEF CategoryInv
<1> QED
  BY <1>1, <1>2, StageInit, StageNext, CategoryNext, PTL DEF Spec

-----------------------------------------------------------------------------
(***************************************************************************)
(* The devices a scan finds.                                               *)
(***************************************************************************)

FoundInv == entries \in Seq(Replies) /\ swept \in Seq(Ips)

LEMMA FoundInit == Init => FoundInv
<1>1. <<>> \in Seq(Replies) /\ <<>> \in Seq(Ips)
  OBVIOUS
<1> QED
  BY <1>1, Zenon DEF Init, ScanInit, FoundInv

LEMMA FoundNext == FoundInv /\ [Next]_vars => FoundInv'
<1> SUFFICES ASSUME FoundInv, [Next]_vars PROVE FoundInv'
  OBVIOUS
<1>1. CASE ArpScan
  <2>1. entries' = <<>> \/ entries' = entries \/ entries' \in reports
    BY <1>1 DEF ArpScan
  <2>2. ASSUME NEW s \in reports PROVE s \in Seq(Replies)
    <3>1. PICK r \in SUBSET Replies : s \in SetToSeqs(r)
      BY <2>2 DEF reports, SetToAllKPermutations
    <3>2. s \in Seq(r)
      BY <3>1, ScanAssumption, FS_Subset, OrderType
    <3> QED
      BY <3>2
  <2>3. <<>> \in Seq(Replies)
    OBVIOUS
  <2>4. swept' = swept
    BY <1>1 DEF ArpScan
  <2> QED
    BY <2>1, <2>2, <2>3, <2>4 DEF FoundInv
<1>2. CASE SweepSubnet
  <2>1. \/ swept' = <<>> \/ swept' = swept
        \/ \E found \in SUBSET (Alive \cap targets) : swept' \in SetToSeqs(found)
    BY <1>2, Zenon DEF SweepSubnet
  <2>2. ASSUME NEW found \in SUBSET (Alive \cap targets), NEW s \in SetToSeqs(found)
        PROVE  s \in Seq(Ips)
    <3>1. found \subseteq Alive /\ Alive \subseteq Ips
      BY ScanAssumption
    <3>2. s \in Seq(found)
      BY <3>1, ScanAssumption, FS_Subset, OrderType
    <3> QED
      BY <3>1, <3>2
  <2>3. <<>> \in Seq(Ips)
    OBVIOUS
  <2>4. entries' = entries
    BY <1>2 DEF SweepSubnet
  <2> QED
    BY <2>1, <2>2, <2>3, <2>4 DEF FoundInv
<1>3. CASE UNCHANGED <<entries, swept>>
  BY <1>3 DEF FoundInv
<1>4. CASE ScanMoves
  <2>1. \/ ArpScan \/ SweepSubnet \/ UNCHANGED <<entries, swept>>
    BY <1>4, Zenon DEF ScanMoves, ParseSubnet, AutoSubnet, ResolveBulk, Query, Join, ProbeBulk, GiveUp,
                       StartJob, EndJob, ApplyFingerprints, ClassifyAndSort, found_vars
  <2> QED
    BY <1>1, <1>2, <1>3, <2>1
<1> QED
  BY <1>3, <1>4, Moves DEF vars, scan_vars, found_vars

\* The devices' addresses, and their number.
LEMMA AllIpsType ==
    ASSUME FoundInv
    PROVE  /\ all_ips \in Seq(Ips)
           /\ DOMAIN all_ips = 1..Len(all_ips) /\ Len(all_ips) \in Nat
           /\ IsFiniteSet(DOMAIN all_ips)
<1> DEFINE heard == [n \in DOMAIN entries |-> entries[n].ip]
<1>1. heard \in Seq(Ips)
  <2>1. \A n \in DOMAIN entries : entries[n].ip \in Ips
    BY ScanAssumption DEF FoundInv
  <2> QED
    BY <2>1 DEF FoundInv
<1>2. all_ips = heard \o swept
  BY Zenon DEF all_ips
<1> HIDE DEF heard
<1>3. all_ips \in Seq(Ips)
  BY <1>1, <1>2 DEF FoundInv
<1>4. DOMAIN all_ips = 1..Len(all_ips) /\ Len(all_ips) \in Nat
  BY <1>3
<1> QED
  BY <1>3, <1>4, FS_Interval

-----------------------------------------------------------------------------
(***************************************************************************)
(* The fingerprints of a scan.                                             *)
(***************************************************************************)

\* No other device has the address of the i-th one.
Alone(i) == \A k \in DOMAIN all_ips : all_ips[k] = all_ips[i] => k = i
Printed(i) == all_ips[i] \in DOMAIN stacks /\ stacks[all_ips[i]] # NONE

\* The inductive form of AnsweredIsFingerprinted.  A task ends early only with a
\* SYN+ACK, or when its 3 s are over and no closure of it that was started at once
\* is left: one that has ended while such a closure runs has a fingerprint, which
\* is what a late answer to that closure relies on.
Owed ==
    /\ \A i \in answered : i \notin pending /\ (Alone(i) => Printed(i))
    /\ \A j \in DOMAIN jobs :
          j[1] \notin pending /\ jobs[j] = "prompt" /\ Alone(j[1]) => Printed(j[1])

PrintInv ==
    /\ stage # "fingerprint" => answered = {} /\ DOMAIN jobs = {}
    /\ stage = "fingerprint" =>
          /\ answered \subseteq DOMAIN all_ips /\ pending \subseteq DOMAIN all_ips
          /\ DOMAIN jobs = Jobs \/ (DOMAIN jobs = {} /\ pending = {})
          /\ ~ skips => Owed

LEMMA PrintInit == Init => PrintInv
BY DEF Init, SessionInit, ScanInit, Nothing, PrintInv

LEMMA StartAll ==
    ASSUME FoundInv, ProbeBulk, DOMAIN jobs = {}, answered = {}, stage = "resolve"
    PROVE  PrintInv'
<1>1. /\ stage' = "fingerprint" /\ answered' = answered /\ pending = {}
      /\ all_ips' = all_ips /\ Jobs' = Jobs
  BY DEF ProbeBulk, found_vars, all_ips, Jobs
<1>2. CASE source_ip = NONE
  <2>1. pending' = pending /\ jobs' = jobs
    BY <1>2 DEF ProbeBulk
  <2> QED
    BY <1>1, <2>1 DEF PrintInv, Owed
<1>3. CASE source_ip # NONE
  <2>1. pending' = DOMAIN all_ips /\ jobs' \in [Jobs -> {"prompt", "queued"}]
    BY <1>3 DEF ProbeBulk
  <2>2. DOMAIN jobs' = Jobs /\ \A j \in Jobs : j[1] \in pending'
    BY <2>1 DEF Jobs
  <2> QED
    BY <1>1, <2>1, <2>2 DEF PrintInv, Owed
<1> QED
  BY <1>2, <1>3

\* wait_syn_ack takes what arrives if it sees the protocol.
LEMMA TakenIfSeen == ASSUME ~ skips, NEW s PROVE wait_syn_ack(s) = s
BY DEF wait_syn_ack, get_next_level_protocol, Tcp

LEMMA EndKeeps ==
    ASSUME FoundInv, PrintInv, stage = "fingerprint", skips' = skips,
           NEW j \in DOMAIN jobs, EndJob(j)
    PROVE  PrintInv'
<1> DEFINE i == j[1]
<1>1. PICK arrived :
        /\ answered' = answered_by(j, arrived)
        /\ IF /\ i \in pending
              /\ \/ wait_syn_ack(arrived) # NONE
                 \/ \A port \in Ports : jobs'[<<i, port>>] = "ended"
           THEN settle(i, wait_syn_ack(arrived))
           ELSE UNCHANGED <<pending, stacks>>
  BY Zenon DEF EndJob
<1>2. /\ jobs' = [jobs EXCEPT ![j] = "ended"] /\ jobs[j] \in {"prompt", "late"}
      /\ stage' = stage /\ all_ips' = all_ips /\ Jobs' = Jobs
  BY DEF EndJob, found_vars, all_ips, Jobs
<1>3. /\ DOMAIN jobs' = DOMAIN jobs
      /\ jobs'[j] = "ended" /\ \A k \in DOMAIN jobs \ {j} : jobs'[k] = jobs[k]
  BY <1>2
<1>4. /\ answered \subseteq DOMAIN all_ips /\ pending \subseteq DOMAIN all_ips
      /\ DOMAIN jobs = Jobs
      /\ \A k \in Jobs : k[1] \in DOMAIN all_ips /\ k[2] \in Ports /\ k = <<k[1], k[2]>>
  BY DEF PrintInv, Jobs
<1>5. answered' = IF arrived # NONE /\ jobs[j] = "prompt" THEN answered \cup {i} ELSE answered
  BY <1>1 DEF answered_by
<1>6. /\ answered' \subseteq DOMAIN all_ips /\ pending' \subseteq DOMAIN all_ips
      /\ DOMAIN jobs' = Jobs
  BY <1>1, <1>3, <1>4, <1>5 DEF settle
<1>7. i = j[1] /\ i \in DOMAIN all_ips
  BY <1>4
<1> HIDE DEF i
<1>8. ASSUME ~ skips PROVE Owed'
  <2>1. /\ \A n \in answered : n \notin pending /\ (Alone(n) => Printed(n))
        /\ \A k \in DOMAIN jobs :
              k[1] \notin pending /\ jobs[k] = "prompt" /\ Alone(k[1]) => Printed(k[1])
    BY <1>8 DEF PrintInv, Owed
  <2>2. \A n : Alone(n)' <=> Alone(n)
    BY <1>2 DEF Alone
  <2>3. \A k \in DOMAIN jobs' : jobs'[k] = "prompt" => k \in DOMAIN jobs /\ k # j /\ jobs[k] = "prompt"
    BY <1>3
  <2>4. wait_syn_ack(arrived) = arrived
    BY <1>8, TakenIfSeen
  <2> SUFFICES /\ \A n \in answered' : n \notin pending' /\ (Alone(n) => Printed(n)')
               /\ \A k \in DOMAIN jobs' :
                     k[1] \notin pending' /\ jobs'[k] = "prompt" /\ Alone(k[1]) => Printed(k[1])'
    BY <2>2 DEF Owed
  <2>5. CASE UNCHANGED <<pending, stacks>>
    <3>1. \A n : Printed(n)' <=> Printed(n)
      BY <1>2, <2>5 DEF Printed
    <3>2. answered' = answered \/ (i \notin pending /\ jobs[j] = "prompt" /\ answered' = answered \cup {i})
      BY <1>1, <1>5, <2>4, <2>5 DEF settle
    <3> QED
      BY <1>7, <2>1, <2>3, <2>5, <3>1, <3>2
  <2>6. CASE /\ i \in pending /\ settle(i, arrived)
             /\ arrived # NONE \/ \A port \in Ports : jobs'[<<i, port>>] = "ended"
    <3>1. i \notin answered /\ pending' = pending \ {i}
      BY <2>1, <2>6 DEF settle
    <3>2. /\ all_ips[i] \in DOMAIN stacks' /\ stacks'[all_ips[i]] = arrived
          /\ \A ip \in DOMAIN stacks : ip # all_ips[i] => ip \in DOMAIN stacks' /\ stacks'[ip] = stacks[ip]
      BY <2>6 DEF settle, insert
    <3>3. \A n \in DOMAIN all_ips : n # i /\ Alone(n) /\ Printed(n) => Printed(n)'
      BY <1>2, <1>7, <3>2 DEF Printed, Alone
    <3>4. arrived # NONE => Printed(i)'
      BY <1>2, <3>2 DEF Printed
    <3>5. ASSUME NEW n \in answered'
          PROVE  n \notin pending' /\ (Alone(n) => Printed(n)')
      <4>1. CASE n = i
        BY <1>5, <3>1, <3>4, <4>1
      <4>2. CASE n # i
        BY <1>4, <1>5, <2>1, <3>1, <3>3, <4>2
      <4> QED
        BY <4>1, <4>2
    <3>6. ASSUME NEW k \in DOMAIN jobs', k[1] \notin pending', jobs'[k] = "prompt", Alone(k[1])
          PROVE  Printed(k[1])'
      <4>1. k \in Jobs
        BY <1>6
      <4>2. CASE k[1] = i
        <5>1. jobs'[<<i, k[2]>>] # "ended" /\ k[2] \in Ports
          BY <1>4, <3>6, <4>1, <4>2
        <5> QED
          BY <2>6, <3>4, <4>2, <5>1
      <4>3. CASE k[1] # i
        <5>1. k \in DOMAIN jobs /\ jobs[k] = "prompt" /\ k[1] \notin pending
          BY <2>3, <3>1, <3>6, <4>3
        <5> QED
          BY <1>4, <2>1, <3>3, <3>6, <4>1, <4>3, <5>1
      <4> QED
        BY <4>2, <4>3
    <3> QED
      BY <3>5, <3>6
  <2> QED
    BY <1>1, <2>4, <2>5, <2>6
<1> QED
  BY <1>2, <1>6, <1>8 DEF PrintInv

LEMMA GiveUpKeeps ==
    ASSUME FoundInv, PrintInv, stage = "fingerprint", skips' = skips, NEW i \in pending, GiveUp(i)
    PROVE  PrintInv'
<1>1. /\ pending' = pending \ {i} /\ stage' = stage /\ UNCHANGED <<jobs, answered>>
      /\ stacks' = insert(stacks, all_ips[i], NONE)
      /\ all_ips' = all_ips /\ Jobs' = Jobs
  BY DEF GiveUp, settle, found_vars, all_ips, Jobs
<1>2. DOMAIN jobs = Jobs /\ i \in DOMAIN all_ips /\ answered \subseteq DOMAIN all_ips
  BY DEF PrintInv
<1>3. \A j \in Jobs : j[1] \in DOMAIN all_ips /\ (j[1] = i => jobs[j] # "prompt")
  BY DEF GiveUp, Jobs
<1>4. \A ip \in DOMAIN stacks : ip # all_ips[i] => ip \in DOMAIN stacks' /\ stacks'[ip] = stacks[ip]
  BY <1>1 DEF insert
<1>5. \A n : Alone(n)' <=> Alone(n)
  BY <1>1 DEF Alone
<1>6. \A n \in DOMAIN all_ips : n # i /\ Alone(n) /\ Printed(n) => Printed(n)'
  BY <1>1, <1>2, <1>4 DEF Printed, Alone
<1>7. ASSUME ~ skips PROVE Owed'
  <2>1. /\ \A n \in answered : n \notin pending /\ (Alone(n) => Printed(n))
        /\ \A k \in DOMAIN jobs :
              k[1] \notin pending /\ jobs[k] = "prompt" /\ Alone(k[1]) => Printed(k[1])
    BY <1>7 DEF PrintInv, Owed
  <2>2. \A n \in answered' : n \notin pending' /\ (Alone(n)' => Printed(n)')
    BY <1>1, <1>2, <1>5, <1>6, <2>1
  <2>3. \A k \in DOMAIN jobs' :
            k[1] \notin pending' /\ jobs'[k] = "prompt" /\ Alone(k[1])' => Printed(k[1])'
    BY <1>1, <1>2, <1>3, <1>5, <1>6, <2>1
  <2> QED
    BY <2>2, <2>3 DEF Owed
<1> QED
  BY <1>1, <1>2, <1>7 DEF PrintInv

LEMMA StartKeeps ==
    ASSUME FoundInv, PrintInv, stage = "fingerprint", skips' = skips,
           NEW j \in DOMAIN jobs, StartJob(j)
    PROVE  PrintInv'
<1>1. /\ jobs' = [jobs EXCEPT ![j] = "late"]
      /\ stage' = stage /\ UNCHANGED <<pending, answered, stacks>>
      /\ all_ips' = all_ips /\ Jobs' = Jobs
  BY DEF StartJob, found_vars, all_ips, Jobs
<1>2. /\ DOMAIN jobs' = DOMAIN jobs
      /\ \A k \in DOMAIN jobs : jobs'[k] = "prompt" => jobs[k] = "prompt"
  BY <1>1
<1>3. \A n : (Alone(n)' <=> Alone(n)) /\ (Printed(n)' <=> Printed(n))
  BY <1>1 DEF Alone, Printed
<1> QED
  BY <1>1, <1>2, <1>3 DEF PrintInv, Owed

LEMMA PrintNext == StageInv /\ FoundInv /\ PrintInv /\ [Next]_vars => PrintInv'
<1> SUFFICES ASSUME StageInv, FoundInv, PrintInv, [Next]_vars PROVE PrintInv'
  OBVIOUS
<1>0. skips' = skips
  BY Moves DEF input_vars
<1>1. CASE ProbeBulk /\ stage = "resolve"
  BY <1>1, StartAll DEF PrintInv
<1>2. CASE ApplyFingerprints /\ stage' = "classify"
  <2>1. answered' = {} /\ DOMAIN jobs' = {}
    BY <1>2 DEF ApplyFingerprints, Nothing
  <2> QED
    BY <1>2, <2>1 DEF PrintInv
<1>3. CASE UNCHANGED <<answered, jobs>> /\ stage # "fingerprint" /\ stage' # "fingerprint"
  BY <1>3 DEF PrintInv
<1>4. CASE UNCHANGED scan_vars /\ UNCHANGED stage
  <2>1. all_ips' = all_ips /\ UNCHANGED <<pending, jobs, answered, stacks>>
    BY <1>4 DEF scan_vars, found_vars, print_vars, all_ips
  <2> QED
    BY <1>0, <1>4, <2>1 DEF PrintInv, Owed, Jobs, Alone, Printed
<1>5. CASE SessionMoves /\ UNCHANGED scan_vars
  BY <1>3, <1>5 DEF SessionMoves, StageInv, Request, scan_vars, print_vars
<1>6. CASE SurveyMoves /\ UNCHANGED scan_vars
  BY <1>3, <1>6 DEF SurveyMoves, scan_vars, print_vars
<1>7. CASE ScanMoves
  <2>1. CASE ParseSubnet \/ AutoSubnet \/ ArpScan \/ SweepSubnet \/ ResolveBulk \/ ClassifyAndSort
    <3>1. UNCHANGED <<answered, jobs>>
      BY <2>1, Zenon DEF ParseSubnet, AutoSubnet, ArpScan, SweepSubnet, ResolveBulk, ClassifyAndSort, print_vars
    <3>2. stage # "fingerprint" /\ stage' # "fingerprint"
      BY <2>1 DEF ParseSubnet, AutoSubnet, ArpScan, SweepSubnet, ResolveBulk, ClassifyAndSort
    <3> QED
      BY <1>3, <3>1, <3>2
  <2>2. ASSUME NEW i \in pending, Query(i) \/ Join(i) PROVE PrintInv'
    BY <1>3, <2>2 DEF Query, Join, print_vars
  <2> QED
    BY <1>0, <1>1, <1>2, <1>7, <2>1, <2>2, EndKeeps, StartKeeps, GiveUpKeeps DEF ScanMoves
<1>8. CASE UNCHANGED vars
  BY <1>4, <1>8 DEF vars, session_vars
<1> QED
  BY <1>5, <1>6, <1>7, <1>8, Moves

\* If pnet shows wait_syn_ack the protocol, every host that answered in time a
\* probe which did not have to wait for a thread is fingerprinted, in whatever order
\* closures start and end, however many devices, ports and threads there are, unless
\* another device has its address.  (The vendored pnet does not show it, and no host
\* is: fingerprint.rs:193.)
THEOREM AnsweredHostsArePrinted == Spec => []AnsweredIsFingerprinted
<1>1. PrintInv => AnsweredIsFingerprinted
  BY DEF PrintInv, Owed, AnsweredIsFingerprinted, Alone, Printed
<1> QED
  BY <1>1, StageInit, StageNext, FoundInit, FoundNext, PrintInit, PrintNext, PTL DEF Spec

-----------------------------------------------------------------------------
(***************************************************************************)
(* The registry part: the upserts of RecordAndSave.                        *)
(***************************************************************************)

\* it[n] holds the registries that the first n upserts may lead to.
AfterStep(recs, ds, it, n) ==
    IF n = 0 THEN {recs}
    ELSE UNION {{res.records : res \in upsert(r, sighted(ds[n]), 0)} : r \in it[n - 1]}
AreAfter(recs, ds, N, it) == it = [n \in 0..N |-> AfterStep(recs, ds, it, n)]
After(recs, ds) == CHOOSE it : AreAfter(recs, ds, Len(ds), it)

LEMMA UpsertAllDefined ==
    ASSUME NEW recs, NEW ds PROVE upsert_all(recs, ds) = After(recs, ds)[Len(ds)]
BY Zenon DEF upsert_all, After, AreAfter, AfterStep

LEMMA AfterExists ==
    ASSUME NEW recs, NEW ds, NEW N \in Nat PROVE \E it : AreAfter(recs, ds, N, it)
<1> DEFINE M == {n \in Nat : \E it : AreAfter(recs, ds, n, it)}
<1>1. 0 \in M
  <2> DEFINE it == [n \in 0..0 |-> {recs}]
  <2>1. it = [n \in 0..0 |-> AfterStep(recs, ds, it, n)]
    BY DEF AfterStep
  <2> HIDE DEF it
  <2> QED
    BY <2>1 DEF AreAfter
<1>2. ASSUME NEW n \in M PROVE n + 1 \in M
  <2>1. n \in Nat
    OBVIOUS
  <2>2. PICK it : AreAfter(recs, ds, n, it)
    OBVIOUS
  <2> DEFINE longer == [k \in 0..(n + 1) |-> IF k = n + 1 THEN AfterStep(recs, ds, it, n + 1)
                                                          ELSE it[k]]
  <2>3. \A k \in 0..n : longer[k] = it[k] /\ it[k] = AfterStep(recs, ds, it, k)
    <3>1. \A k \in 0..n : longer[k] = it[k]
      BY <2>1
    <3>2. it = [k \in 0..n |-> AfterStep(recs, ds, it, k)]
      BY <2>2, Zenon DEF AreAfter
    <3>3. \A k \in 0..n : it[k] = AfterStep(recs, ds, it, k)
      BY <3>2, Zenon
    <3> QED
      BY <3>1, <3>3
  <2>4. longer[n + 1] = AfterStep(recs, ds, it, n + 1)
    BY <2>1
  <2>5. DOMAIN longer = 0..(n + 1) /\ longer = [k \in 0..(n + 1) |-> longer[k]]
    OBVIOUS
  <2> HIDE DEF longer
  <2>6. ASSUME NEW k \in 0..(n + 1)
        PROVE  AfterStep(recs, ds, longer, k) = AfterStep(recs, ds, it, k)
    <3>1. CASE k = 0
      BY <3>1 DEF AfterStep
    <3>2. CASE k # 0
      <4>1. k - 1 \in 0..n
        BY <2>1, <3>2
      <4> QED
        BY <2>3, <4>1 DEF AfterStep
    <3> QED
      BY <3>1, <3>2
  <2>7. ASSUME NEW k \in 0..(n + 1) PROVE longer[k] = AfterStep(recs, ds, longer, k)
    <3>1. k \in 0..n \/ k = n + 1
      BY <2>1
    <3> QED
      BY <2>3, <2>4, <2>6, <3>1
  <2>8. longer = [k \in 0..(n + 1) |-> AfterStep(recs, ds, longer, k)]
    BY <2>5, <2>7
  <2>9. AreAfter(recs, ds, n + 1, longer)
    BY <2>8 DEF AreAfter
  <2> QED
    BY <2>1, <2>9
<1> HIDE DEF M
<1>3. M = Nat
  BY <1>1, <1>2, NatSetInduction DEF M
<1> QED
  BY <1>3 DEF M

\* No two of a command's devices have one address, one with and one without a mac.
Apart(ds) ==
    \A m, n \in DOMAIN ds : ds[m].mac = NONE /\ ds[n].mac # NONE => ds[m].ip # ds[n].ip
Macless(ds) == \A n \in DOMAIN ds : ds[n].mac = NONE

\* What holds of a registry r that the first n of a series of upserts make of recs.
SeriesKeeps(recs, ds, n, r) ==
    /\ AllFiled(r)
    /\ \A k \in DOMAIN recs : recs[k].mac # NONE => k \in DOMAIN r
    /\ Macless(ds) => \A k \in DOMAIN recs : recs[k].mac # NONE => r[k] = recs[k]
    /\ Apart(ds) /\ AllMacs(recs) =>
          /\ \A m \in 1..n : \E k \in DOMAIN r : Knows(r[k], sighted(ds[m]))
          /\ \A k \in DOMAIN r :
                r[k].mac = NONE => \E m \in DOMAIN ds : ds[m].mac = NONE /\ k = ip_key(ds[m].ip)

LEMMA SightedFields ==
    ASSUME NEW d, HasFields(d)
    PROVE  /\ sighted(d).ip = d.ip /\ sighted(d).mac = d.mac
           /\ sighted(d).services = ToSet(d.services)
BY DEF HasFields, sighted

LEMMA SeriesStep ==
    ASSUME NEW recs, AllFiled(recs), NEW ds, NEW n \in Nat, n + 1 \in DOMAIN ds,
           HasFields(ds[n + 1]),
           NEW r, SeriesKeeps(recs, ds, n, r), NEW res \in upsert(r, sighted(ds[n + 1]), 0)
    PROVE  SeriesKeeps(recs, ds, n + 1, res.records)
<1> DEFINE d == sighted(ds[n + 1])
           out == res.records
<1>1. /\ d.ip = ds[n + 1].ip /\ d.mac = ds[n + 1].mac
  BY SightedFields
<1>2. UpsertKeeps(r, d, out)
  BY UpsertFiled DEF SeriesKeeps
<1> HIDE DEF d, out
<1>3. AllFiled(r) /\ AllFiled(out)
  BY <1>2 DEF SeriesKeeps, UpsertKeeps
<1>4. ASSUME NEW k \in DOMAIN recs, recs[k].mac # NONE
      PROVE  /\ k \in DOMAIN r /\ r[k].mac # NONE /\ k \in DOMAIN out
             /\ Macless(ds) => out[k] = recs[k]
  <2>1. k \in DOMAIN r /\ (Macless(ds) => r[k] = recs[k])
    BY <1>4 DEF SeriesKeeps
  <2>2. Filed(k, recs[k]) /\ Filed(k, r[k])
    BY <1>3, <2>1 DEF AllFiled
  <2>3. r[k].mac # NONE
    BY <1>4, <2>2, AnyKeysDiffer DEF Filed
  <2>4. Macless(ds) => d.mac = NONE
    BY <1>1 DEF Macless
  <2> QED
    BY <1>2, <2>1, <2>3, <2>4 DEF UpsertKeeps
<1>5. ASSUME Apart(ds), AllMacs(recs)
      PROVE  /\ \A m \in 1..(n + 1) : \E k \in DOMAIN out : Knows(out[k], sighted(ds[m]))
             /\ \A k \in DOMAIN out : out[k].mac = NONE =>
                   \E m \in DOMAIN ds : ds[m].mac = NONE /\ k = ip_key(ds[m].ip)
  <2>1. /\ \A m \in 1..n : \E k \in DOMAIN r : Knows(r[k], sighted(ds[m]))
        /\ \A k \in DOMAIN r : r[k].mac = NONE =>
              \E m \in DOMAIN ds : ds[m].mac = NONE /\ k = ip_key(ds[m].ip)
    BY <1>5 DEF SeriesKeeps
  <2>2. d.mac = NONE \/ ip_key(d.ip) \notin DOMAIN r
    <3> SUFFICES ASSUME d.mac # NONE, ip_key(d.ip) \in DOMAIN r PROVE FALSE
      OBVIOUS
    <3>1. r[ip_key(d.ip)].mac = NONE
      BY <1>3, AnyKeysDiffer DEF AllFiled, Filed
    <3>2. PICK m \in DOMAIN ds : ds[m].mac = NONE /\ ip_key(d.ip) = ip_key(ds[m].ip)
      BY <2>1, <3>1
    <3>3. ds[m].ip = d.ip
      BY <3>2, AnyKeysDiffer
    <3> QED
      BY <1>1, <1>5, <3>2, <3>3 DEF Apart
  <2>3. \A k \in DOMAIN r : k \in DOMAIN out /\ Grown(r[k], out[k])
    BY <1>2, <2>2 DEF UpsertKeeps
  <2>4. ASSUME NEW m \in 1..(n + 1)
        PROVE  \E k \in DOMAIN out : Knows(out[k], sighted(ds[m]))
    <3>1. CASE m = n + 1
      BY <1>2, <3>1 DEF UpsertKeeps, d
    <3>2. CASE m # n + 1
      <4>1. m \in 1..n
        BY <3>2
      <4>2. PICK k \in DOMAIN r : Knows(r[k], sighted(ds[m]))
        BY <2>1, <4>1
      <4>3. k \in DOMAIN out /\ Knows(out[k], sighted(ds[m]))
        BY <2>3, <4>2 DEF Grown, Knows
      <4> QED
        BY <4>3
    <3> QED
      BY <3>1, <3>2
  <2>5. ASSUME NEW k \in DOMAIN out, out[k].mac = NONE
        PROVE  \E m \in DOMAIN ds : ds[m].mac = NONE /\ k = ip_key(ds[m].ip)
    <3>1. CASE k \in DOMAIN r
      <4>1. Filed(k, r[k]) /\ Filed(k, out[k])
        BY <1>3, <3>1 DEF AllFiled
      <4>2. r[k].mac = NONE
        BY <2>5, <4>1, AnyKeysDiffer DEF Filed
      <4> QED
        BY <2>1, <3>1, <4>2
    <3>2. CASE d.mac = NONE /\ k = ip_key(d.ip)
      BY <1>1, <3>2
    <3> QED
      BY <1>2, <2>5, <3>1, <3>2 DEF UpsertKeeps
  <2> QED
    BY <2>4, <2>5
<1>6. SeriesKeeps(recs, ds, n + 1, out)
  BY <1>3, <1>4, <1>5 DEF SeriesKeeps
<1> QED
  BY <1>6 DEF out

\* it is what upsert_all is made of: upserts, one after the other.
IsSeries(recs, ds, it) ==
    /\ it[0] = {recs} /\ upsert_all(recs, ds) = it[Len(ds)]
    /\ \A n \in Nat : n + 1 <= Len(ds) =>
          \A r \in it[n + 1] : \E q \in it[n] :
             \E res \in upsert(q, sighted(ds[n + 1]), 0) : r = res.records

LEMMA SeriesUnfolds ==
    ASSUME NEW recs, NEW ds, Len(ds) \in Nat
    PROVE  \E it : IsSeries(recs, ds, it)
<1> DEFINE it == After(recs, ds)
           N == Len(ds)
<1>1. AreAfter(recs, ds, N, it)
  BY AfterExists, Zenon DEF After
<1>2. \A n \in 0..N : it[n] = AfterStep(recs, ds, it, n)
  BY <1>1 DEF AreAfter
<1>3. upsert_all(recs, ds) = it[N]
  BY UpsertAllDefined
<1> HIDE DEF it
<1>4. it[0] = {recs}
  <2>1. AfterStep(recs, ds, it, 0) = {recs} /\ 0 \in 0..N
    BY DEF AfterStep
  <2> QED
    BY <1>2, <2>1
<1>5. ASSUME NEW n \in Nat, n + 1 <= N, NEW r \in it[n + 1]
      PROVE  \E q \in it[n] : \E res \in upsert(q, sighted(ds[n + 1]), 0) : r = res.records
  <2> DEFINE outcomes(q) == {res.records : res \in upsert(q, sighted(ds[n + 1]), 0)}
  <2>1. n + 1 \in 0..N /\ n + 1 # 0 /\ (n + 1) - 1 = n
    BY <1>5
  <2>2. AfterStep(recs, ds, it, n + 1) = UNION {outcomes(q) : q \in it[(n + 1) - 1]}
    BY <2>1, Zenon DEF AfterStep
  <2>3. it[n + 1] = UNION {outcomes(q) : q \in it[n]}
    BY <1>2, <2>1, <2>2
  <2>4. \A q : r \in outcomes(q) => \E res \in upsert(q, sighted(ds[n + 1]), 0) : r = res.records
    OBVIOUS
  <2> HIDE DEF outcomes
  <2>5. \E q \in it[n] : r \in outcomes(q)
    BY <1>5, <2>3
  <2> QED
    BY <2>4, <2>5
<1>6. IsSeries(recs, ds, it)
  BY <1>3, <1>4, <1>5, Zenon DEF IsSeries
<1> QED
  BY <1>6

\* Every registry that a series of upserts may lead to.
LEMMA UpsertAllKeeps ==
    ASSUME NEW recs, AllFiled(recs), NEW ds, Len(ds) \in Nat, DOMAIN ds = 1..Len(ds),
           \A n \in DOMAIN ds : HasFields(ds[n])
    PROVE  \A r \in upsert_all(recs, ds) : SeriesKeeps(recs, ds, Len(ds), r)
<1> DEFINE N == Len(ds)
<1>0. PICK it : IsSeries(recs, ds, it)
  BY SeriesUnfolds
<1>1. /\ it[0] = {recs} /\ upsert_all(recs, ds) = it[N]
      /\ \A n \in Nat : n + 1 <= N =>
            \A r \in it[n + 1] : \E q \in it[n] :
               \E res \in upsert(q, sighted(ds[n + 1]), 0) : r = res.records
  BY <1>0, Zenon DEF IsSeries
<1> DEFINE M == {n \in Nat : n <= N => \A r \in it[n] : SeriesKeeps(recs, ds, n, r)}
<1>2. 0 \in M
  <2>1. SeriesKeeps(recs, ds, 0, recs)
    BY DEF SeriesKeeps, AllMacs
  <2> QED
    BY <1>1, <2>1
<1>3. ASSUME NEW n \in M PROVE n + 1 \in M
  <2> SUFFICES ASSUME n + 1 <= N, NEW r \in it[n + 1] PROVE SeriesKeeps(recs, ds, n + 1, r)
    OBVIOUS
  <2>1. n \in Nat /\ n <= N /\ n + 1 \in DOMAIN ds
    OBVIOUS
  <2>2. PICK q \in it[n] : \E res \in upsert(q, sighted(ds[n + 1]), 0) : r = res.records
    BY <1>1, <2>1
  <2>3. PICK res \in upsert(q, sighted(ds[n + 1]), 0) : r = res.records
    BY <2>2, Zenon
  <2>4. SeriesKeeps(recs, ds, n, q)
    BY <2>1
  <2> HIDE DEF M, N
  <2> QED
    BY <2>1, <2>3, <2>4, SeriesStep
<1> HIDE DEF M
<1>4. M = Nat
  BY <1>2, <1>3, NatSetInduction DEF M
<1> QED
  BY <1>1, <1>4 DEF M

-----------------------------------------------------------------------------
(***************************************************************************)
(* FlattenSeq.                                                             *)
(***************************************************************************)

FlatStep(s, it, i) == IF i = 1 THEN s[i] ELSE it[i - 1] \o s[i]
AreFlat(s, N, it) == it = [i \in 1..N |-> FlatStep(s, it, i)]
Flat(s) == CHOOSE it : AreFlat(s, Len(s), it)

LEMMA FlattenDefined ==
    ASSUME NEW s, Len(s) # 0 PROVE FlattenSeq(s) = Flat(s)[Len(s)]
BY Zenon DEF FlattenSeq, Flat, AreFlat, FlatStep

LEMMA FlatExists ==
    ASSUME NEW s, NEW N \in Nat PROVE \E it : AreFlat(s, N, it)
<1> DEFINE M == {n \in Nat : \E it : AreFlat(s, n, it)}
<1>1. 0 \in M
  <2> DEFINE it == [i \in 1..0 |-> s]
  <2>1. it = [i \in 1..0 |-> FlatStep(s, it, i)]
    OBVIOUS
  <2> HIDE DEF it
  <2> QED
    BY <2>1 DEF AreFlat
<1>2. ASSUME NEW n \in M PROVE n + 1 \in M
  <2>1. n \in Nat
    OBVIOUS
  <2>2. PICK it : AreFlat(s, n, it)
    OBVIOUS
  <2> DEFINE longer == [i \in 1..(n + 1) |-> IF i = n + 1 THEN FlatStep(s, it, n + 1) ELSE it[i]]
  <2>3. \A i \in 1..n : longer[i] = it[i] /\ it[i] = FlatStep(s, it, i)
    <3>1. \A i \in 1..n : longer[i] = it[i]
      BY <2>1
    <3>2. it = [i \in 1..n |-> FlatStep(s, it, i)]
      BY <2>2, Zenon DEF AreFlat
    <3>3. \A i \in 1..n : it[i] = FlatStep(s, it, i)
      BY <3>2, Zenon
    <3> QED
      BY <3>1, <3>3
  <2>4. longer[n + 1] = FlatStep(s, it, n + 1)
    BY <2>1
  <2>5. DOMAIN longer = 1..(n + 1) /\ longer = [i \in 1..(n + 1) |-> longer[i]]
    OBVIOUS
  <2> HIDE DEF longer
  <2>6. ASSUME NEW i \in 1..(n + 1) PROVE FlatStep(s, longer, i) = FlatStep(s, it, i)
    <3>1. CASE i = 1
      BY <3>1 DEF FlatStep
    <3>2. CASE i # 1
      <4>1. i - 1 \in 1..n
        BY <2>1, <3>2
      <4> QED
        BY <2>3, <4>1 DEF FlatStep
    <3> QED
      BY <3>1, <3>2
  <2>7. ASSUME NEW i \in 1..(n + 1) PROVE longer[i] = FlatStep(s, longer, i)
    <3>1. i \in 1..n \/ i = n + 1
      BY <2>1
    <3> QED
      BY <2>3, <2>4, <2>6, <3>1
  <2>8. longer = [i \in 1..(n + 1) |-> FlatStep(s, longer, i)]
    BY <2>5, <2>7
  <2>9. AreFlat(s, n + 1, longer)
    BY <2>8 DEF AreFlat
  <2> QED
    BY <2>1, <2>9
<1> HIDE DEF M
<1>3. M = Nat
  BY <1>1, <1>2, NatSetInduction DEF M
<1> QED
  BY <1>3 DEF M

\* All elements of a flattened sequence come from the sequences it is made of.
LEMMA FlattenType ==
    ASSUME NEW T, NEW s \in Seq(Seq(T)) PROVE FlattenSeq(s) \in Seq(T)
<1>1. CASE Len(s) = 0
  <2>1. s = <<>> /\ s \in Seq(T)
    BY <1>1
  <2>2. FlattenSeq(s) = s
    BY <1>1, Zenon DEF FlattenSeq
  <2> QED
    BY <2>1, <2>2
<1>2. CASE Len(s) # 0
  <2> DEFINE it == Flat(s)
             N == Len(s)
             M == {n \in Nat : n + 1 <= N => it[n + 1] \in Seq(T)}
  <2>1. N \in Nat /\ N # 0 /\ \A i \in 1..N : s[i] \in Seq(T)
    BY <1>2
  <2>2. AreFlat(s, N, it)
    BY <2>1, FlatExists, Zenon DEF Flat
  <2>3. \A i \in 1..N : it[i] = FlatStep(s, it, i)
    BY <2>2 DEF AreFlat
  <2>4. FlattenSeq(s) = it[N]
    BY <1>2, FlattenDefined
  <2> HIDE DEF it, N
  <2>5. 0 \in M
    <3>1. 1 <= N => it[1] = s[1]
      BY <2>1, <2>3 DEF FlatStep
    <3> QED
      BY <2>1, <3>1
  <2>6. ASSUME NEW n \in M PROVE n + 1 \in M
    <3> SUFFICES ASSUME (n + 1) + 1 <= N PROVE it[(n + 1) + 1] \in Seq(T)
      OBVIOUS
    <3>1. n \in Nat /\ it[n + 1] \in Seq(T)
      BY <2>1
    <3>2. PICK i \in 1..N : i = (n + 1) + 1 /\ i # 1 /\ i - 1 = n + 1
      BY <2>1, <3>1
    <3>3. it[i] = it[i - 1] \o s[i]
      BY <2>3, <3>2 DEF FlatStep
    <3>4. it[i - 1] \in Seq(T) /\ s[i] \in Seq(T)
      BY <2>1, <3>1, <3>2
    <3> QED
      BY <3>2, <3>3, <3>4
  <2> HIDE DEF M
  <2>7. M = Nat
    BY <2>5, <2>6, NatSetInduction DEF M
  <2>8. N - 1 \in M /\ (N - 1) + 1 = N
    BY <2>1, <2>7
  <2> QED
    BY <2>1, <2>4, <2>8 DEF M
<1> QED
  BY <1>1, <1>2

-----------------------------------------------------------------------------
(***************************************************************************)
(* Survey's subnets are finitely many, so that they can be listed.         *)
(***************************************************************************)

LEMMA Bases24Finite == IsFiniteSet(at24(Bases24))
<1> DEFINE D == (Octet \X Octet) \X Octet
           f == [x \in D |-> <<<<x[1][1], x[1][2], x[2], 0>>, 24>>]
<1>1. IsFiniteSet(Octet)
  <2>1. 0 \in Int /\ 255 \in Int /\ Octet = 0..255
    BY DEF Octet
  <2> QED
    BY <2>1, FS_Interval
<1>2. IsFiniteSet(D)
  BY <1>1, FS_Product
<1>3. DOMAIN f = D
  OBVIOUS
<1>4. IsFiniteSet({f[x] : x \in DOMAIN f})
  <2> HIDE DEF f, D
  <2> QED
    BY <1>2, <1>3, ImageIsFinite
<1>5. ASSUME NEW n \in Bases24 PROVE <<n, 24>> \in {f[x] : x \in DOMAIN f}
  <2>1. n[1] \in Octet /\ n[2] \in Octet /\ n[3] \in Octet /\ n = <<n[1], n[2], n[3], 0>>
    BY DEF Bases24
  <2>2. <<<<n[1], n[2]>>, n[3]>> \in D
    BY <2>1
  <2>3. f[<<<<n[1], n[2]>>, n[3]>>] = <<n, 24>>
    BY <2>1, <2>2
  <2> HIDE DEF f, D
  <2> QED
    BY <1>3, <2>2, <2>3
<1> HIDE DEF f, D
<1>6. at24(Bases24) \subseteq {f[x] : x \in DOMAIN f}
  BY <1>5 DEF at24
<1> QED
  BY <1>4, <1>6, FS_Subset

LEMMA AnswerFinite ==
    ASSUME NEW gateway \in Ips, NEW answers \in igd(gateway)
    PROVE  IsFiniteSet(query_upnp_wan(answers))
<1>1. IsFiniteSet(answers) /\ \A a \in answers : IsFiniteSet(a.routers)
  BY SurveyAssumption
<1>2. ASSUME NEW a \in answers PROVE IsFiniteSet(answer_subnets(a))
  <2> DEFINE guess(p) == <<network_base(a.external, p), p>>
             guesses == {guess(24), guess(28), guess(29), guess(30)}
             net == {<<network_base(a.external, a.mask), a.mask>>}
             f == [r \in a.routers |-> <<r, 24>>]
             g == [r \in a.routers |-> <<r, 16>>]
  <2>1. IsFiniteSet(guesses)
    <3>1. guesses = {guess(24)} \cup {guess(28)} \cup {guess(29)} \cup {guess(30)}
      OBVIOUS
    <3> HIDE DEF guess, guesses
    <3>2. \A x : IsFiniteSet({x})
      BY FS_Singleton
    <3> QED
      BY <3>1, <3>2, FS_Union
  <2>2. IsFiniteSet(net)
    BY FS_Singleton
  <2>3. DOMAIN f = a.routers /\ DOMAIN g = a.routers
    OBVIOUS
  <2>4. IsFiniteSet({f[r] : r \in DOMAIN f}) /\ IsFiniteSet({g[r] : r \in DOMAIN g})
    BY <1>1, <2>3, ImageIsFinite
  <2> DEFINE all == guesses \cup net \cup {f[r] : r \in DOMAIN f} \cup {g[r] : r \in DOMAIN g}
  <2>5. IsFiniteSet(all)
    <3> HIDE DEF guesses, net, f, g
    <3> QED
      BY <2>1, <2>2, <2>4, FS_Union
  <2>6. ASSUME NEW key \in answer_subnets(a) PROVE key \in all
    <3>1. CASE key \in {<<network_base(a.external, p), p>> : p \in {24, 28, 29, 30}}
      BY <3>1
    <3>2. CASE key \in {<<network_base(a.external, a.mask), a.mask>>}
      BY <3>2
    <3>3. CASE key \in {<<r, p>> : r \in a.routers, p \in {24, 16}}
      <4>1. PICK r \in a.routers : key = f[r] \/ key = g[r]
        BY <3>3
      <4> QED
        BY <2>3, <4>1
    <3> QED
      BY <3>1, <3>2, <3>3 DEF answer_subnets
  <2> HIDE DEF all
  <2>7. answer_subnets(a) \subseteq all
    BY <2>6
  <2> QED
    BY <2>5, <2>7, FS_Subset
<1>3. IsFiniteSet({answer_subnets(a) : a \in answers})
  <2> DEFINE f == [a \in answers |-> answer_subnets(a)]
  <2>1. DOMAIN f = answers /\ {f[a] : a \in DOMAIN f} = {answer_subnets(a) : a \in answers}
    OBVIOUS
  <2> HIDE DEF f
  <2> QED
    BY <1>1, <2>1, ImageIsFinite
<1>4. \A S \in {answer_subnets(a) : a \in answers} : IsFiniteSet(S)
  BY <1>2
<1> QED
  BY <1>3, <1>4, FS_UNION DEF query_upnp_wan

FiniteInv == IsFiniteSet(DOMAIN all_subnets)

LEMMA FiniteNext == StageInv /\ SurveyInv /\ FiniteInv /\ [Next]_vars => FiniteInv'
<1> SUFFICES ASSUME StageInv, SurveyInv, FiniteInv, [Next]_vars PROVE FiniteInv'
  OBVIOUS
<1> USE DEF FiniteInv
<1>0. \A x : IsFiniteSet({x})
  BY FS_Singleton
<1>1. CASE DetectGateways
  <2>1. all_subnets' = all_subnets \/ \E key : all_subnets' = or_insert(all_subnets, {key}, "GatewayRoute")
    BY <1>1 DEF DetectGateways
  <2>2. \A key : DOMAIN or_insert(all_subnets, {key}, "GatewayRoute") = DOMAIN all_subnets \cup {key}
    BY DEF or_insert, or_insert_all
  <2>3. CASE all_subnets' = all_subnets
    BY <2>3
  <2>4. ASSUME NEW key, all_subnets' = or_insert(all_subnets, {key}, "GatewayRoute")
        PROVE  FiniteInv'
    <3>1. DOMAIN all_subnets' = DOMAIN all_subnets \cup {key}
      BY <2>2, <2>4
    <3> QED
      BY <3>1, FS_AddElement
  <2> QED
    BY <2>1, <2>3, <2>4
<1>2. CASE Interrogate
  <2>1. /\ interrogated < Len(gateways) /\ interrogated' = interrogated + 1
        /\ \E answers \in igd(gateways[interrogated']) :
              \/ all_subnets' = all_subnets
              \/ all_subnets' = or_insert(all_subnets, query_upnp_wan(answers), "UpnpDiscovery")
    BY <1>2 DEF Interrogate
  <2>2. gateways[interrogated'] \in Ips
    BY <2>1 DEF SurveyInv
  <2>3. ASSUME NEW answers \in igd(gateways[interrogated']),
               all_subnets' = or_insert(all_subnets, query_upnp_wan(answers), "UpnpDiscovery")
        PROVE  FiniteInv'
    <3>1. DOMAIN all_subnets' = DOMAIN all_subnets \cup query_upnp_wan(answers)
      BY <2>3 DEF or_insert, or_insert_all
    <3>2. IsFiniteSet(query_upnp_wan(answers))
      BY <2>2, AnswerFinite
    <3> QED
      BY <3>1, <3>2, FS_Union
  <2> QED
    BY <2>1, <2>3
<1>3. CASE AddNeighbours /\ stage = "upnp"
  <2>1. \/ all_subnets' = all_subnets
        \/ all_subnets' = adjacent_subnets_from(local_subnet.base, local_subnet.prefix, all_subnets)
    BY <1>3 DEF AddNeighbours
  <2>2. CASE all_subnets' = or_insert(all_subnets, {LocalKey}, "AdjacentSweep")
    <3>1. DOMAIN all_subnets' = DOMAIN all_subnets \cup {LocalKey}
      BY <2>2 DEF or_insert, or_insert_all
    <3> QED
      BY <1>0, <3>1, FS_Union
  <2>3. CASE local_subnet.prefix = 24 /\ all_subnets' = or_insert_all(all_subnets, proposals(local_subnet.base))
    <3>1. host \in Host /\ local_interface # NONE
      BY <1>3 DEF SurveyInv, StageInv
    <3>2. local_subnet.base \in Bases24
      BY <2>3, <3>1, LocalSubnetType
    <3>3. DOMAIN proposals(local_subnet.base) \subseteq at24(Bases24)
      BY <3>2, ProposalsType
    <3>4. IsFiniteSet(DOMAIN proposals(local_subnet.base))
      BY <3>3, Bases24Finite, FS_Subset
    <3>5. DOMAIN all_subnets' = DOMAIN all_subnets \cup DOMAIN proposals(local_subnet.base)
      BY <2>3 DEF or_insert_all
    <3> QED
      BY <3>4, <3>5, FS_Union
  <2> QED
    BY <2>1, <2>2, <2>3 DEF adjacent_subnets_from, LocalKey
<1>4. CASE UNCHANGED all_subnets
  BY <1>4
<1>5. CASE SurveyMoves
  BY <1>1, <1>2, <1>3, <1>4, <1>5 DEF SurveyMoves, FindInterface, Probe, survey_vars
<1> QED
  BY <1>4, <1>5, Moves DEF vars, survey_vars

-----------------------------------------------------------------------------
(***************************************************************************)
(* What the registry part is given.                                        *)
(***************************************************************************)

LEMMA ListedType ==
    ASSUME NEW S, IsFiniteSet(S) PROVE SetToSeq(S) \in Seq(S)
<1>1. PICK n \in Nat : ExistsBijection(1..n, S)
  BY FS_NatBijection
<1>2. Cardinality(S) = n
  BY <1>1, FS_CountingElements
<1>3. \E f \in [1..n -> S] : IsInjective(f)
  BY <1>1 DEF ExistsBijection, Bijection, Injection, IsInjective
<1>4. SetToSeq(S) \in [1..n -> S]
  BY <1>2, <1>3, Zenon DEF SetToSeq
<1> QED
  BY <1>4

LEMMA BySourceType ==
    ASSUME NEW keys, IsFiniteSet(keys) PROVE by_source(keys) \in Seq(keys)
<1> DEFINE sources == <<"GatewayRoute", "UpnpDiscovery", "AdjacentSweep", "CommonPrivate">>
           of(n) == {key \in keys : all_subnets[key] = sources[n]}
           lists == [n \in 1..4 |-> SetToSeq(of(n))]
<1>1. ASSUME NEW n \in 1..4 PROVE SetToSeq(of(n)) \in Seq(keys)
  <2>1. of(n) \subseteq keys
    OBVIOUS
  <2> HIDE DEF of
  <2>2. SetToSeq(of(n)) \in Seq(of(n))
    BY <2>1, FS_Subset, ListedType
  <2> QED
    BY <2>1, <2>2
<1>2. by_source(keys) = FlattenSeq(lists)
  BY Zenon DEF by_source
<1> HIDE DEF of
<1>3. lists \in Seq(Seq(keys))
  BY <1>1
<1> QED
  BY <1>2, <1>3, FlattenType

\* The devices of a command can be recorded one by one: they have the fields that
\* upsert looks at, none is seen both with and without a mac at one address, and
\* survey's have no mac at all.
Recordable ==
    /\ Len(devices) \in Nat /\ DOMAIN devices = 1..Len(devices)
    /\ \A n \in DOMAIN devices : HasFields(devices[n])
    /\ Apart(devices)
    /\ request.command = "survey" => Macless(devices)

\* ARP and the sweep find different addresses.
FoundApart == \A n \in DOMAIN entries, m \in DOMAIN swept : entries[n].ip # swept[m]

RecordInv ==
    /\ AllFiled(disk)
    /\ stage \in {"main", "scan", "arp", "sweep", "survey"} => swept = <<>>
    /\ FoundApart
    /\ stage \in {"fingerprint", "classify", "record"} => Recordable

LEMMA RecordInit == Init => RecordInv
<1> SUFFICES ASSUME Init PROVE RecordInv
  OBVIOUS
<1>1. PICK s \in Sessions : disk = s.disk
  BY DEF Init, SessionInit
<1>2. IsRegistry(disk) /\ KeyMatchesMac(disk) /\ IpRecordStays(disk)
  BY <1>1, SessionAssumption
<1>3. ASSUME NEW k \in DOMAIN disk PROVE Filed(k, disk[k])
  <2>1. disk[k] \in Record
    BY <1>2 DEF IsRegistry
  <2>2. DOMAIN disk[k] = RecordFields
    BY <2>1 DEF Record, RecordFields
  <2>3. /\ disk[k].key = k
        /\ disk[k].mac = NONE => k \in IpKeys
        /\ disk[k].mac # NONE => k = mac_key(disk[k].mac)
    BY <1>2 DEF KeyMatchesMac
  <2>4. disk[k].mac = NONE => k = ip_key(disk[k].last_ip)
    BY <1>2, <2>3 DEF IpKeys, IpRecordStays
  <2> QED
    BY <2>2, <2>3, <2>4 DEF Filed
<1>4. stage = "main" /\ swept = <<>> /\ entries = <<>>
  BY DEF Init, SessionInit, ScanInit
<1> QED
  BY <1>3, <1>4 DEF RecordInv, AllFiled, FoundApart

\* The n-th device has the n-th address, and a mac if ARP has found it.
LEMMA DeviceIs ==
    ASSUME FoundInv, NEW n \in DOMAIN all_ips
    PROVE  /\ device(n).ip = all_ips[n]
           /\ n \in DOMAIN entries => /\ device(n).mac \in Macs /\ device(n).mac # NONE
                                      /\ all_ips[n] = entries[n].ip
           /\ n \notin DOMAIN entries =>
                 /\ device(n).mac = NONE
                 /\ \E m \in DOMAIN swept : all_ips[n] = swept[m]
<1>1. /\ Len(entries) \in Nat /\ Len(swept) \in Nat
      /\ DOMAIN entries = 1..Len(entries) /\ DOMAIN swept = 1..Len(swept)
  BY DEF FoundInv
<1>2. \A k \in DOMAIN entries : entries[k].mac \in Macs /\ entries[k].mac # NONE
  BY ScanAssumption, StoreAssumption DEF FoundInv
<1> DEFINE heard == [k \in DOMAIN entries |-> entries[k].ip]
<1>3. heard \in Seq(Ips)
  BY ScanAssumption DEF FoundInv
<1>4. Len(heard) = Len(entries) /\ \A k \in DOMAIN entries : heard[k] = entries[k].ip
  BY <1>1, <1>3
<1>5. all_ips = heard \o swept
  BY Zenon DEF all_ips
<1> HIDE DEF heard
<1>6. /\ n \in 1..(Len(entries) + Len(swept))
      /\ all_ips[n] = IF n <= Len(entries) THEN heard[n] ELSE swept[n - Len(entries)]
  BY <1>1, <1>3, <1>4, <1>5 DEF FoundInv
<1> DEFINE d == IF n <= Len(entries) THEN from_entry(entries[n]) ELSE from_sweep(all_ips[n])
<1>7. /\ HasFields(d) /\ d.ip = all_ips[n]
      /\ n <= Len(entries) => d.mac = entries[n].mac
      /\ ~ (n <= Len(entries)) => d.mac = NONE
  BY <1>1, <1>4, <1>6 DEF from_entry, from_sweep, HasFields
<1>8. device(n).ip = d.ip /\ device(n).mac = d.mac
  <2>1. \A e, services, facts :
           HasFields(e) => /\ [e EXCEPT !.services = services, !.facts = facts].ip = e.ip
                           /\ [e EXCEPT !.services = services, !.facts = facts].mac = e.mac
    BY DEF HasFields
  <2> HIDE DEF d
  <2>2. \E services, facts : device(n) = [d EXCEPT !.services = services, !.facts = facts]
    BY Zenon DEF device, d
  <2> QED
    BY <1>7, <2>1, <2>2
<1> HIDE DEF d
<1>9. CASE n <= Len(entries)
  BY <1>1, <1>2, <1>4, <1>6, <1>7, <1>8, <1>9
<1>10. CASE ~ (n <= Len(entries))
  <2>1. n - Len(entries) \in DOMAIN swept
    BY <1>1, <1>6, <1>10
  <2> QED
    BY <1>1, <1>6, <1>7, <1>8, <1>10, <2>1
<1> QED
  BY <1>9, <1>10

LEMMA FoundApartNext ==
    ASSUME StageInv, FoundInv, RecordInv, [Next]_vars
    PROVE  /\ FoundApart'
           /\ stage' \in {"main", "scan", "arp", "sweep", "survey"} => swept' = <<>>
<1>1. CASE UNCHANGED <<entries, swept>>
  <2>1. FoundApart'
    BY <1>1 DEF RecordInv, FoundApart
  <2>2. ASSUME stage' \in {"main", "scan", "arp", "sweep", "survey"}
        PROVE  stage \in {"main", "scan", "arp", "sweep", "survey"}
    BY <2>2, Moves DEF ScanMoves, SurveyMoves, SessionMoves, vars, session_vars
  <2> QED
    BY <1>1, <2>1, <2>2 DEF RecordInv
<1>2. CASE ArpScan /\ stage = "arp"
  BY <1>2 DEF ArpScan, RecordInv, FoundApart
<1>3. CASE SweepSubnet /\ stage = "sweep" /\ stage' \in {"panicked", "returned", "names"}
  <2>1. entries' = entries /\ swept = <<>>
    BY <1>3 DEF SweepSubnet, RecordInv
  <2>2. \/ swept' = <<>>
        \/ \E found \in SUBSET (Alive \cap targets) : swept' \in SetToSeqs(found)
    BY <1>3, <2>1, Zenon DEF SweepSubnet
  <2>3. CASE swept' = <<>>
    BY <1>3, <2>3 DEF FoundApart
  <2>4. ASSUME NEW found \in SUBSET (Alive \cap targets), swept' \in SetToSeqs(found)
        PROVE  FoundApart'
    <3>1. \A m \in DOMAIN swept' : swept'[m] \in targets
      BY <2>4 DEF SetToSeqs
    <3>2. \A ip \in targets : \A n \in DOMAIN entries : entries[n].ip # ip
      BY DEF targets
    <3> QED
      BY <2>1, <3>1, <3>2 DEF FoundApart
  <2> QED
    BY <1>3, <2>2, <2>3, <2>4
<1>4. CASE ScanMoves
  <2>1. \/ ArpScan /\ stage = "arp"
        \/ SweepSubnet /\ stage = "sweep" /\ stage' \in {"panicked", "returned", "names"}
        \/ UNCHANGED <<entries, swept>>
    BY <1>4, Zenon DEF ScanMoves, ParseSubnet, AutoSubnet, ResolveBulk, Query, Join, ProbeBulk, GiveUp,
                       StartJob, EndJob, ApplyFingerprints, ClassifyAndSort, found_vars
  <2> QED
    BY <1>1, <1>2, <1>3, <2>1
<1> QED
  BY <1>1, <1>4, Moves DEF vars, scan_vars, found_vars

\* The three steps of scan that make or change the list of devices.
LEMMA ListedRecordable ==
    ASSUME StageInv, FoundInv, RecordInv, [Next]_vars, ProbeBulk, stage' = "fingerprint"
    PROVE  Recordable'
<1>1. devices' = [n \in DOMAIN all_ips |-> device(n)]
  BY DEF ProbeBulk
<1>2. DOMAIN all_ips = 1..Len(all_ips) /\ Len(all_ips) \in Nat
  BY AllIpsType
<1>3. Len(devices') \in Nat /\ DOMAIN devices' = 1..Len(devices')
  BY <1>1, <1>2
<1>4. \A n \in DOMAIN devices' : devices'[n] = device(n) /\ HasFields(devices'[n])
  BY <1>1, DeviceFields
<1>5. ASSUME NEW m \in DOMAIN devices', NEW n \in DOMAIN devices',
             devices'[m].mac = NONE, devices'[n].mac # NONE
      PROVE  devices'[m].ip # devices'[n].ip
  <2>1. m \in DOMAIN all_ips /\ n \in DOMAIN all_ips
    BY <1>1
  <2>2. m \notin DOMAIN entries /\ n \in DOMAIN entries
    BY <1>4, <1>5, <2>1, DeviceIs
  <2>3. PICK k \in DOMAIN swept : all_ips[m] = swept[k]
    BY <2>1, <2>2, DeviceIs
  <2>4. all_ips[n] = entries[n].ip
    BY <2>1, <2>2, DeviceIs
  <2>5. all_ips[m] # all_ips[n]
    BY <2>2, <2>3, <2>4 DEF RecordInv, FoundApart
  <2> QED
    BY <1>4, <2>1, <2>5, DeviceIs
<1>6. request' = request /\ request.command = "scan"
  BY Moves DEF StageInv, input_vars, ScanStages, ProbeBulk
<1> QED
  BY <1>3, <1>4, <1>5, <1>6 DEF Recordable, Apart

LEMMA PrintedRecordable ==
    ASSUME Recordable, ApplyFingerprints, UNCHANGED request
    PROVE  Recordable'
<1>1. devices' = [n \in DOMAIN devices |-> apply_fingerprint(n)]
  BY DEF ApplyFingerprints
<1>2. ASSUME NEW n \in DOMAIN devices
      PROVE  /\ HasFields(devices'[n])
             /\ devices'[n].ip = devices[n].ip /\ devices'[n].mac = devices[n].mac
  <2>1. \/ devices'[n] = devices[n]
        \/ \E hint : devices'[n] = [devices[n] EXCEPT !.facts["os_hint"] = hint]
    BY <1>1, Zenon DEF apply_fingerprint
  <2> DEFINE old == devices[n]
             new == devices'[n]
  <2>2. HasFields(old)
    BY DEF Recordable
  <2>3. CASE new = old
    BY <2>2, <2>3
  <2>4. ASSUME NEW hint, new = [old EXCEPT !.facts["os_hint"] = hint]
        PROVE  HasFields(new) /\ new.ip = old.ip /\ new.mac = old.mac
    <3> HIDE DEF old, new
    <3> QED
      BY <2>2, <2>4 DEF HasFields
  <2> QED
    BY <2>1, <2>3, <2>4, Zenon
<1>3. DOMAIN devices' = DOMAIN devices /\ Len(devices') = Len(devices)
  BY <1>1 DEF Recordable
<1> QED
  BY <1>2, <1>3 DEF Recordable, Apart, Macless

LEMMA SortedRecordable ==
    ASSUME Recordable, ClassifyAndSort, UNCHANGED request
    PROVE  Recordable'
<1> DEFINE sorted(d) == [d EXCEPT !.category = classify(evidence(d))]
<1>1. PICK order \in SetToSeqs(DOMAIN devices) :
        devices' = [n \in DOMAIN order |-> sorted(devices[order[n]])]
  BY Zenon DEF ClassifyAndSort
<1>2. IsFiniteSet(DOMAIN devices)
  BY FS_Interval DEF Recordable
<1>3. order \in Seq(DOMAIN devices)
  BY <1>2, OrderType
<1>4. \A d : HasFields(d) => HasFields(sorted(d)) /\ sorted(d).ip = d.ip /\ sorted(d).mac = d.mac
  BY DEF HasFields
<1> HIDE DEF sorted
<1>5. ASSUME NEW n \in DOMAIN devices'
      PROVE  \E k \in DOMAIN devices : /\ HasFields(devices'[n])
                                       /\ devices'[n].ip = devices[k].ip
                                       /\ devices'[n].mac = devices[k].mac
  BY <1>1, <1>3, <1>4 DEF Recordable
<1>6. DOMAIN devices' = 1..Len(order) /\ Len(devices') = Len(order) /\ Len(order) \in Nat
  BY <1>1, <1>3
<1>7. ASSUME NEW m \in DOMAIN devices', NEW n \in DOMAIN devices',
             devices'[m].mac = NONE, devices'[n].mac # NONE
      PROVE  devices'[m].ip # devices'[n].ip
  BY <1>5, <1>7 DEF Recordable, Apart
<1> QED
  BY <1>5, <1>6, <1>7 DEF Recordable, Apart, Macless

LEMMA ReportRecordable ==
    ASSUME FiniteInv, Probe
    PROVE  /\ Len(devices') \in Nat /\ DOMAIN devices' = 1..Len(devices')
           /\ \A n \in DOMAIN devices' : \E ip : devices'[n] = from_sweep(ip)
<1> DEFINE live == {key \in DOMAIN report' : report'[key] \notin {NONE, 0}}
<1>1. devices' = networks(live)
  BY Zenon DEF Probe
<1>2. DOMAIN report' = DOMAIN all_subnets
  <2> DEFINE found(i) == [k \in DOMAIN all_subnets |-> in_sweep(k, i)]
             counts(i, r) == [k \in DOMAIN found(i) |-> host_count(k, found(i)[k], r)]
  <2>1. \E i \in SUBSET (Responders \ {find_source_ip(host, request.interface)}) :
           \E r : answering' = i /\ report' = counts(i, r)
    BY Zenon DEF Probe
  <2> QED
    BY <2>1
<1>3. live \in SUBSET DOMAIN all_subnets
  BY <1>2
<1> HIDE DEF live
<1>4. by_source(live) \in Seq(live)
  BY <1>3, FS_Subset, BySourceType DEF FiniteInv
<1> QED
  BY <1>1, <1>4 DEF networks

LEMMA RecordNext == StageInv /\ FoundInv /\ FiniteInv /\ RecordInv /\ [Next]_vars => RecordInv'
<1> SUFFICES ASSUME StageInv, FoundInv, FiniteInv, RecordInv, [Next]_vars PROVE RecordInv'
  OBVIOUS
<1>0. request' = request
  BY Moves DEF input_vars
<1>1. AllFiled(disk) => AllFiled(disk)'
  <2>1. CASE RecordAndSave /\ stage = "record"
    <3>1. disk' = disk \/ disk' \in upsert_all(disk, devices)
      BY <2>1 DEF RecordAndSave
    <3>2. \A r \in upsert_all(disk, devices) : AllFiled(r)
      BY <2>1, UpsertAllKeeps DEF RecordInv, Recordable, SeriesKeeps
    <3> QED
      BY <3>1, <3>2 DEF AllFiled
  <2>2. CASE disk' = disk
    BY <2>2 DEF AllFiled
  <2>3. CASE SessionMoves
    BY <2>1, <2>2, <2>3 DEF SessionMoves, Dispatch
  <2> QED
    BY <2>2, <2>3, Moves DEF vars, session_vars
<1>2. stage' \in {"fingerprint", "classify", "record"} => Recordable'
  <2>1. CASE UNCHANGED devices /\ stage \in {"fingerprint", "classify", "record"}
    BY <1>0, <2>1 DEF RecordInv, Recordable, Apart, Macless
  <2>2. CASE stage' \notin {"fingerprint", "classify", "record"}
    BY <2>2
  <2>3. CASE ScanMoves
    BY <1>0, <2>1, <2>2, <2>3, ListedRecordable, PrintedRecordable, SortedRecordable
       DEF ScanMoves, RecordInv
  <2>4. CASE SurveyMoves
    <3>1. CASE Probe
      <4>1. /\ Len(devices') \in Nat /\ DOMAIN devices' = 1..Len(devices')
            /\ \A n \in DOMAIN devices' : \E ip : devices'[n] = from_sweep(ip)
        BY <3>1, ReportRecordable
      <4>2. \A ip : HasFields(from_sweep(ip)) /\ from_sweep(ip).mac = NONE
        BY DEF from_sweep, HasFields
      <4>3. \A n \in DOMAIN devices' : HasFields(devices'[n]) /\ devices'[n].mac = NONE
        BY <4>1, <4>2
      <4> QED
        BY <4>1, <4>3 DEF Recordable, Apart, Macless
    <3> QED
      BY <2>2, <2>4, <3>1 DEF SurveyMoves
  <2>5. CASE SessionMoves
    BY <2>2, <2>5 DEF SessionMoves, StageInv, Request
  <2>6. CASE UNCHANGED vars
    BY <2>1, <2>2, <2>6 DEF vars, session_vars
  <2> QED
    BY <2>3, <2>4, <2>5, <2>6, Moves
<1> QED
  BY <1>1, <1>2, FoundApartNext DEF RecordInv

LEMMA RecordInvHolds == Spec => [](StageInv /\ RecordInv)
<1>1. Init => FiniteInv
  <2>1. Init => DOMAIN all_subnets = {}
    BY DEF Init, SurveyInit
  <2> QED
    BY <2>1, FS_EmptySet DEF FiniteInv
<1> QED
  BY <1>1, StageInit, StageNext, FoundInit, FoundNext, SurveyInitInv, SurveyNext, FiniteNext,
     RecordInit, RecordNext, PTL DEF Spec

\* The registry part is the only step that changes the file.
LEMMA OnlySaves ==
    ASSUME [Next]_vars, disk' # disk
    PROVE  /\ stage = "record" /\ disk' \in upsert_all(disk, devices)
           /\ UNCHANGED request
BY Moves DEF SessionMoves, Dispatch, RecordAndSave, vars, session_vars, input_vars

\* No record that is filed under a mac is lost by a scan, and a survey leaves it
\* as it is.
THEOREM HostsStay == Spec => SavedHostsStay
<1> DEFINE Stays == \A k \in DOMAIN disk \cap MacKeys :
                       /\ k \in DOMAIN disk'
                       /\ request.command = "survey" => disk'[k] = disk[k]
<1>1. StageInv /\ RecordInv /\ [Next]_vars => Stays
  <2> SUFFICES ASSUME StageInv, RecordInv, [Next]_vars, disk' # disk,
                      NEW k \in DOMAIN disk \cap MacKeys
               PROVE  /\ k \in DOMAIN disk'
                      /\ request.command = "survey" => disk'[k] = disk[k]
    OBVIOUS
  <2>1. stage = "record" /\ disk' \in upsert_all(disk, devices)
    BY OnlySaves
  <2>2. Recordable /\ AllFiled(disk)
    BY <2>1 DEF RecordInv
  <2>3. SeriesKeeps(disk, devices, Len(devices), disk')
    BY <2>1, <2>2, UpsertAllKeeps DEF Recordable
  <2>4. disk[k].mac # NONE
    BY <2>2, AnyKeysDiffer DEF AllFiled, Filed, MacKeys
  <2> QED
    BY <2>2, <2>3, <2>4 DEF SeriesKeeps, Recordable
<1>2. StageInv /\ RecordInv /\ [Next]_vars => [Stays]_vars
  BY <1>1
<1> QED
  BY <1>2, RecordInvHolds, PTL DEF Spec, SavedHostsStay

\* A saved scan has a record with the address and the services of every device it
\* found, for any number of devices, macs and addresses.
THEOREM DevicesAreKept == Spec => FoundIsKept
<1> DEFINE Kept == disk' # disk /\ (\A k \in DOMAIN disk : disk[k].mac # NONE) =>
                      \A n \in DOMAIN devices : \E k \in DOMAIN disk' :
                          /\ devices[n].ip \in disk'[k].ips
                          /\ ToSet(devices[n].services) \subseteq disk'[k].services
<1>1. StageInv /\ RecordInv /\ [Next]_vars => Kept
  <2> SUFFICES ASSUME StageInv, RecordInv, [Next]_vars, disk' # disk,
                      \A k \in DOMAIN disk : disk[k].mac # NONE,
                      NEW n \in DOMAIN devices
               PROVE  \E k \in DOMAIN disk' :
                          /\ devices[n].ip \in disk'[k].ips
                          /\ ToSet(devices[n].services) \subseteq disk'[k].services
    OBVIOUS
  <2>1. stage = "record" /\ disk' \in upsert_all(disk, devices)
    BY OnlySaves
  <2>2. Recordable /\ AllFiled(disk)
    BY <2>1 DEF RecordInv
  <2>3. SeriesKeeps(disk, devices, Len(devices), disk')
    BY <2>1, <2>2, UpsertAllKeeps DEF Recordable
  <2>4. PICK k \in DOMAIN disk' : Knows(disk'[k], sighted(devices[n]))
    BY <2>2, <2>3 DEF SeriesKeeps, Recordable, AllMacs
  <2>5. /\ sighted(devices[n]).ip = devices[n].ip
        /\ sighted(devices[n]).services = ToSet(devices[n].services)
    BY <2>2, SightedFields DEF Recordable
  <2> QED
    BY <2>4, <2>5 DEF Knows
<1>2. StageInv /\ RecordInv /\ [Next]_vars => [Kept]_session_vars
  BY <1>1
<1> QED
  BY <1>2, RecordInvHolds, PTL DEF Spec, FoundIsKept

-----------------------------------------------------------------------------
(***************************************************************************)
(* What a scan says of a host.                                             *)
(***************************************************************************)

\* The names and services that the host of an address has told.
OwnDatagrams(ip) == {g \in Datagrams : g.src = ip}
OwnNames(ip) == UNION {ToSet(g.names) : g \in OwnDatagrams(ip)}
OwnServices(ip) == UNION {ToSet(g.services) : g \in OwnDatagrams(ip)}

\* A finite set of positions has one of highest value, and a last one.
LEMMA HighestExists ==
    ASSUME NEW n \in Nat, NEW f, NEW S \in SUBSET (1..n), S # {},
           \A i \in S : f[i] \in Nat
    PROVE  \E i \in S : \A j \in S : f[j] <= f[i]
<1> DEFINE U == {m \in Nat : \A T \in SUBSET S :
                    T \subseteq 1..m /\ T # {} => \E i \in T : \A j \in T : f[j] <= f[i]}
<1>1. 0 \in U
  <2>1. \A T : T \subseteq 1..0 => T = {}
    OBVIOUS
  <2> QED
    BY <2>1
<1>2. ASSUME NEW m \in U PROVE m + 1 \in U
  <2> SUFFICES ASSUME NEW T \in SUBSET S, T \subseteq 1..(m + 1), T # {}
               PROVE  \E i \in T : \A j \in T : f[j] <= f[i]
    OBVIOUS
  <2>1. m \in Nat /\ T \ {m + 1} \in SUBSET S /\ T \ {m + 1} \subseteq 1..m
    OBVIOUS
  <2>2. CASE T \ {m + 1} = {}
    <3>1. T = {m + 1}
      BY <2>2
    <3> QED
      BY <3>1
  <2>3. CASE T \ {m + 1} # {}
    <3>1. PICK i \in T \ {m + 1} : \A j \in T \ {m + 1} : f[j] <= f[i]
      BY <2>1, <2>3
    <3>2. CASE m + 1 \in T /\ f[i] <= f[m + 1]
      BY <3>1, <3>2
    <3>3. CASE ~ (m + 1 \in T /\ f[i] <= f[m + 1])
      BY <3>1, <3>3
    <3> QED
      BY <3>2, <3>3
  <2> QED
    BY <2>2, <2>3
<1> HIDE DEF U
<1>3. U = Nat
  BY <1>1, <1>2, NatSetInduction DEF U
<1>4. n \in U
  BY <1>3
<1> QED
  BY <1>4 DEF U

LEMMA LastOf ==
    ASSUME NEW n \in Nat, NEW S \in SUBSET (1..n), S # {}
    PROVE  Max(S) \in S
<1> DEFINE f == [i \in S |-> i]
<1>1. \A i \in S : f[i] = i /\ f[i] \in Nat
  OBVIOUS
<1> HIDE DEF f
<1>2. PICK i \in S : \A j \in S : f[j] <= f[i]
  BY <1>1, HighestExists
<1>3. \A j \in S : i >= j
  BY <1>1, <1>2
<1> QED
  BY <1>3, Zenon DEF Max

\* best_hostname picks one of the names, or none.
LEMMA BestIsOne ==
    ASSUME NEW N, NEW s \in Seq(N), \A name \in N : score(name) \in Nat
    PROVE  best_hostname(s) \in N \cup {NONE}
<1> DEFINE kept == {i \in DOMAIN s :
                      score(s[i]) > 0 /\ \A j \in 1..(i - 1) : s[j] # s[i]}
           best == {i \in kept : \A j \in kept : score(s[j]) <= score(s[i])}
           f == [i \in kept |-> score(s[i])]
<1>1. best_hostname(s) = IF kept = {} THEN NONE ELSE s[Max(best)]
  BY Zenon DEF best_hostname
<1>2. CASE kept = {}
  BY <1>1, <1>2
<1>3. CASE kept # {}
  <2>1. DOMAIN s = 1..Len(s) /\ Len(s) \in Nat /\ kept \in SUBSET (1..Len(s))
    OBVIOUS
  <2>2. \A i \in kept : s[i] \in N /\ f[i] = score(s[i])
    OBVIOUS
  <2>3. \A i \in kept : f[i] \in Nat
    BY <2>2
  <2> HIDE DEF kept, f
  <2>4. PICK i \in kept : \A j \in kept : f[j] <= f[i]
    BY <1>3, <2>1, <2>3, HighestExists
  <2>5. i \in best
    BY <2>2, <2>4
  <2>6. best \in SUBSET (1..Len(s)) /\ best # {} /\ best \subseteq kept
    BY <2>1, <2>5
  <2> HIDE DEF best
  <2>7. Max(best) \in best
    BY <2>1, <2>6, LastOf
  <2> QED
    BY <1>1, <1>3, <2>2, <2>6, <2>7
<1> QED
  BY <1>2, <1>3

\* What a thread of query_ip has heard of the host it asks about.
OwnResult(ip, r) == r.hostname \in OwnNames(ip) /\ r.services \in Seq(OwnServices(ip))

\* Datagrams, those of other hosts emptied.
Emptied(ip) ==
    {d \in [src : Ips, names : Seq(Values), services : Seq(Services)] :
        d.names \in Seq(OwnNames(ip)) /\ d.services \in Seq(OwnServices(ip))}

LEMMA OwnDatagram ==
    ASSUME NEW ip, NEW g \in Datagrams, g.src = ip PROVE g \in Emptied(ip)
<1>1. /\ g \in [src : Ips, names : Seq(Values), services : Seq(Services)]
      /\ ToSet(g.names) \subseteq OwnNames(ip) /\ ToSet(g.services) \subseteq OwnServices(ip)
  BY ScanAssumption DEF OwnNames, OwnServices, OwnDatagrams
<1>2. \A S : g.names \in Seq(Values) /\ ToSet(g.names) \subseteq S => g.names \in Seq(S)
  BY DEF ToSet
<1>3. \A S : g.services \in Seq(Services) /\ ToSet(g.services) \subseteq S => g.services \in Seq(S)
  BY DEF ToSet
<1> QED
  BY <1>1, <1>2, <1>3 DEF Emptied

LEMMA HeardFrom ==
    ASSUME NEW ip, NEW heard \in Seq(Datagrams)
    PROVE  heard_from(ip, heard) \in Seq(Emptied(ip))
<1> DEFINE own(g) == IF g.src = ip THEN g ELSE [g EXCEPT !.names = <<>>, !.services = <<>>]
<1>1. ASSUME NEW g \in Datagrams PROVE own(g) \in Emptied(ip)
  <2>1. CASE g.src = ip
    BY <2>1, OwnDatagram
  <2>2. CASE g.src # ip
    <3>1. g \in [src : Ips, names : Seq(Values), services : Seq(Services)]
      BY ScanAssumption
    <3>2. \A S : <<>> \in Seq(S)
      OBVIOUS
    <3> QED
      BY <2>2, <3>1, <3>2 DEF Emptied
  <2> QED
    BY <2>1, <2>2
<1>2. heard_from(ip, heard) = [n \in DOMAIN heard |-> own(heard[n])]
  BY Zenon DEF heard_from
<1> HIDE DEF own
<1> QED
  BY <1>1, <1>2

LEMMA ResultIsOwn ==
    ASSUME NEW ip, NEW heard \in Seq(Emptied(ip))
    PROVE  mdns_result(heard) # NONE => OwnResult(ip, mdns_result(heard))
<1> DEFINE said == FlattenSeq([n \in DOMAIN heard |-> heard[n].names])
           offered == FlattenSeq([n \in DOMAIN heard |-> heard[n].services])
           hostname == best_hostname(said)
<1>1. \A n \in DOMAIN heard : /\ heard[n].names \in Seq(OwnNames(ip))
                              /\ heard[n].services \in Seq(OwnServices(ip))
  BY DEF Emptied
<1>2. said \in Seq(OwnNames(ip))
  <2>1. [n \in DOMAIN heard |-> heard[n].names] \in Seq(Seq(OwnNames(ip)))
    BY <1>1
  <2> QED
    BY <2>1, FlattenType
<1>3. offered \in Seq(OwnServices(ip))
  <2>1. [n \in DOMAIN heard |-> heard[n].services] \in Seq(Seq(OwnServices(ip)))
    BY <1>1
  <2> QED
    BY <2>1, FlattenType
<1>4. \A name \in OwnNames(ip) : score(name) \in Nat
  BY ScanAssumption DEF OwnNames, OwnDatagrams
<1>5. hostname \in OwnNames(ip) \cup {NONE}
  <2> HIDE DEF said
  <2> QED
    BY <1>2, <1>4, BestIsOne
<1>6. mdns_result(heard) = IF hostname = NONE THEN NONE
                           ELSE [hostname |-> hostname, services |-> offered]
  BY Zenon DEF mdns_result
<1> HIDE DEF hostname, offered
<1> QED
  BY <1>3, <1>5, <1>6 DEF OwnResult

\* Whichever thread's result query_ip takes, it comes from the host that was asked.
LEMMA QueryIsOwn ==
    ASSUME NEW ip, NEW result \in query_ip(ip), result # NONE
    PROVE  OwnResult(ip, result)
<1>1. \A S, n : n \in Nat => SeqOf(S, n) \subseteq Seq(S)
  BY DEF SeqOf
<1>2. MaxHeard \in Nat /\ 1 \in Nat
  BY ScanAssumption
<1> DEFINE heard == SeqOf(Datagrams, MaxHeard)
           U == {unicast_mdns(ip, h) : h \in heard}
           M == {multicast_passive(ip, h) : h \in heard}
           R == {unicast_dns_reverse(h) : h \in SeqOf(OwnDatagrams(ip), 1)}
<1>3. \E u \in U, m \in M, r \in R : result = or(u, or(m, r))
  <2>1. query_ip(ip) = {or(u, or(m, r)) : u \in U, m \in M, r \in R}
    BY DEF query_ip, OwnDatagrams
  <2> HIDE DEF U, M, R
  <2> QED
    BY <2>1
<1>4. PICK h1 \in Seq(Datagrams), h2 \in Seq(Datagrams), h3 \in Seq(OwnDatagrams(ip)) :
         result = or(unicast_mdns(ip, h1), or(multicast_passive(ip, h2), unicast_dns_reverse(h3)))
  BY <1>1, <1>2, <1>3, Zenon
<1>5. h3 \in Seq(Emptied(ip))
  <2>1. \A n \in DOMAIN h3 : h3[n] \in Emptied(ip)
    BY OwnDatagram DEF OwnDatagrams
  <2> QED
    BY <2>1
<1>6. /\ unicast_mdns(ip, h1) # NONE => OwnResult(ip, unicast_mdns(ip, h1))
      /\ multicast_passive(ip, h2) # NONE => OwnResult(ip, multicast_passive(ip, h2))
      /\ unicast_dns_reverse(h3) # NONE => OwnResult(ip, unicast_dns_reverse(h3))
  BY <1>5, HeardFrom, ResultIsOwn, Zenon DEF unicast_mdns, multicast_passive, unicast_dns_reverse
<1> QED
  BY <1>4, <1>6, Zenon DEF or

\* The inductive form of what names and stacks hold: every entry comes from the
\* host of its address.
SaidInv ==
    /\ stage \in {"main", "survey", "scan", "arp", "sweep", "names"} => DOMAIN names = {}
    /\ stage = "resolve" =>
          \A i \in DOMAIN queries : queries[i] \notin {NONE, Failed} => OwnResult(all_ips[i], queries[i])
    /\ stage = "resolve" => \A ip \in DOMAIN names : OwnResult(ip, names[ip])

StackInv ==
    /\ stage \in {"main", "survey"} \cup (ScanStages \ {"fingerprint", "classify"}) => DOMAIN stacks = {}
    /\ stage = "fingerprint" =>
          \A ip \in DOMAIN stacks : stacks[ip] # NONE => \E port \in Ports : stacks[ip] = stack(ip, port)

LEMMA SaidInit == Init => SaidInv /\ StackInv
BY DEF Init, SessionInit, ScanInit, Nothing, SaidInv, StackInv, ScanStages

LEMMA SaidNext == StageInv /\ NamesInv /\ SaidInv /\ [Next]_vars => SaidInv'
<1> SUFFICES ASSUME StageInv, NamesInv, SaidInv, [Next]_vars PROVE SaidInv'
  OBVIOUS
<1>1. CASE ResolveBulk /\ stage = "names"
  BY <1>1 DEF ResolveBulk, name_vars, NamesInv, SaidInv
<1>2. ASSUME NEW i \in pending, Query(i), stage = "resolve", stage' = stage
      PROVE  SaidInv'
  <2>1. UNCHANGED names /\ all_ips' = all_ips
    BY <1>2 DEF Query, found_vars, all_ips
  <2>2. PICK result \in query_ip(all_ips[i]) \cup {Failed} : queries' = insert(queries, i, result)
    BY <1>2 DEF Query
  <2>3. result \notin {NONE, Failed} => OwnResult(all_ips[i], result)
    BY <2>2, QueryIsOwn
  <2>4. /\ DOMAIN queries' = DOMAIN queries \cup {i} /\ queries'[i] = result
        /\ \A k \in DOMAIN queries \ {i} : queries'[k] = queries[k]
    BY <2>2 DEF insert
  <2>5. ASSUME NEW k \in DOMAIN queries', queries'[k] \notin {NONE, Failed}
        PROVE  OwnResult(all_ips[k], queries'[k])
    <3>1. CASE k = i
      BY <2>3, <2>4, <2>5, <3>1
    <3>2. CASE k # i
      BY <1>2, <2>4, <2>5, <3>2 DEF SaidInv
    <3> QED
      BY <3>1, <3>2
  <2> QED
    BY <1>2, <2>1, <2>5 DEF SaidInv, OwnResult, Failed
<1>3. ASSUME NEW i \in pending, Join(i), stage = "resolve", stage' = stage
      PROVE  SaidInv'
  <2>1. /\ UNCHANGED queries /\ all_ips' = all_ips /\ i \in DOMAIN queries
        /\ names' = IF queries[i] \in {NONE, Failed} THEN names
                    ELSE insert(names, all_ips[i], queries[i])
    BY <1>3 DEF Join, found_vars, all_ips
  <2>2. \A ip \in DOMAIN names' : \/ ip \in DOMAIN names /\ names'[ip] = names[ip]
                                  \/ /\ ip = all_ips[i] /\ names'[ip] = queries[i]
                                     /\ queries[i] \notin {NONE, Failed}
    BY <2>1 DEF insert
  <2>3. \A ip \in DOMAIN names' : OwnResult(ip, names'[ip])
    BY <1>3, <2>1, <2>2 DEF SaidInv
  <2> QED
    BY <1>3, <2>1, <2>3 DEF SaidInv, OwnResult, Failed
<1>4. CASE stage' \notin {"main", "survey", "scan", "arp", "sweep", "names", "resolve"}
  BY <1>4 DEF SaidInv
<1>5. CASE /\ stage' \in {"survey", "scan", "arp", "sweep", "names"} /\ UNCHANGED names
           /\ stage \in {"main", "survey", "scan", "arp", "sweep", "names"}
  BY <1>5 DEF SaidInv
<1>6. CASE UNCHANGED <<stage, queries, names, all_ips>>
  BY <1>6 DEF SaidInv, OwnResult, Failed
<1>7. CASE SessionMoves /\ UNCHANGED scan_vars
  BY <1>4, <1>5, <1>7 DEF SessionMoves, StageInv, Request, scan_vars, name_vars
<1>8. CASE SurveyMoves
  BY <1>4, <1>8 DEF SurveyMoves
<1>9. CASE ScanMoves
  <2>1. CASE ParseSubnet \/ AutoSubnet \/ ArpScan \/ SweepSubnet
    <3>1. UNCHANGED names
      BY <2>1 DEF ParseSubnet, AutoSubnet, ArpScan, SweepSubnet, name_vars
    <3> QED
      BY <1>4, <1>5, <1>9, <2>1, <3>1 DEF ScanMoves, ParseSubnet, AutoSubnet, ArpScan, SweepSubnet
  <2> QED
    BY <1>1, <1>2, <1>3, <1>4, <1>9, <2>1 DEF ScanMoves
<1>10. CASE UNCHANGED vars
  BY <1>6, <1>10 DEF vars, session_vars, scan_vars, found_vars, name_vars, all_ips
<1> QED
  BY <1>7, <1>8, <1>9, <1>10, Moves

LEMMA StackNext == StageInv /\ PrintInv /\ StackInv /\ [Next]_vars => StackInv'
<1> SUFFICES ASSUME StageInv, PrintInv, StackInv, [Next]_vars PROVE StackInv'
  OBVIOUS
<1>1. CASE UNCHANGED stacks /\ stage = "fingerprint" /\ stage' = "fingerprint"
  BY <1>1 DEF StackInv, ScanStages
<1>2. CASE /\ UNCHANGED stacks /\ stage \in {"main", "survey"} \cup (ScanStages \ {"fingerprint", "classify"})
  BY <1>2 DEF StackInv
<1>3. CASE stage' \notin {"main", "survey"} \cup (ScanStages \ {"classify"})
  BY <1>3 DEF StackInv, ScanStages
<1>4. ASSUME NEW ip, NEW s, stacks' = insert(stacks, ip, s), stage = "fingerprint", stage' = stage,
             s # NONE => \E port \in Ports : s = stack(ip, port)
      PROVE  StackInv'
  <2>1. /\ DOMAIN stacks' = DOMAIN stacks \cup {ip} /\ stacks'[ip] = s
        /\ \A k \in DOMAIN stacks \ {ip} : stacks'[k] = stacks[k]
    BY <1>4 DEF insert
  <2> QED
    BY <1>4, <2>1 DEF StackInv, ScanStages
<1>5. ASSUME NEW j \in DOMAIN jobs, EndJob(j), stage = "fingerprint", stage' = stage
      PROVE  StackInv'
  <2>1. j[2] \in Ports
    BY <1>5 DEF PrintInv, Jobs
  <2>2. PICK arrived \in arrivals(j) :
           stacks' = insert(stacks, all_ips[j[1]], wait_syn_ack(arrived)) \/ stacks' = stacks
    BY <1>5, Zenon DEF EndJob, settle
  <2>3. wait_syn_ack(arrived) # NONE => wait_syn_ack(arrived) = stack(all_ips[j[1]], j[2])
    BY <2>2 DEF wait_syn_ack, arrivals
  <2> QED
    BY <1>1, <1>4, <1>5, <2>1, <2>2, <2>3
<1>6. CASE SessionMoves /\ UNCHANGED scan_vars
  BY <1>2, <1>3, <1>6 DEF SessionMoves, StageInv, Request, scan_vars, print_vars, ScanStages
<1>7. CASE SurveyMoves
  BY <1>3, <1>7 DEF SurveyMoves, ScanStages
<1>8. CASE ScanMoves
  <2>1. CASE ParseSubnet \/ AutoSubnet \/ ArpScan \/ SweepSubnet \/ ResolveBulk \/ ProbeBulk
    <3>1. UNCHANGED stacks
      BY <2>1, Zenon DEF ParseSubnet, AutoSubnet, ArpScan, SweepSubnet, ResolveBulk, ProbeBulk, print_vars
    <3>2. stage \in ScanStages \ {"fingerprint", "classify"}
      BY <2>1 DEF ParseSubnet, AutoSubnet, ArpScan, SweepSubnet, ResolveBulk, ProbeBulk, ScanStages
    <3> QED
      BY <1>2, <3>1, <3>2
  <2>2. ASSUME NEW i \in pending, Query(i) \/ Join(i), stage = "resolve" PROVE StackInv'
    BY <1>2, <2>2 DEF Query, Join, print_vars, ScanStages
  <2>3. ASSUME NEW i \in pending, GiveUp(i), stage = "fingerprint", stage' = stage PROVE StackInv'
    BY <1>4, <2>3 DEF GiveUp, settle
  <2>4. ASSUME NEW j \in DOMAIN jobs, StartJob(j), stage = "fingerprint", stage' = stage PROVE StackInv'
    BY <1>1, <2>4 DEF StartJob
  <2> QED
    BY <1>3, <1>5, <1>8, <2>1, <2>2, <2>3, <2>4 DEF ScanMoves, ScanStages
<1>9. CASE UNCHANGED vars
  BY <1>9 DEF StackInv, vars, session_vars, scan_vars, print_vars
<1> QED
  BY <1>6, <1>7, <1>8, <1>9, Moves

\* What DescribedByItself says of one device.
NameIsOwn(d) == d.facts["hostname"] # NONE => d.facts["hostname"] \in OwnNames(d.ip)
ServicesAreOwn(d) == d.services \in Seq(OwnServices(d.ip))
PrintIsOwn(d) ==
    d.facts["os_hint"] # NONE =>
        \E port \in Ports :
            /\ stack(d.ip, port) # NONE
            /\ d.facts["os_hint"] = guess_os(parse_stack_fingerprint(stack(d.ip, port)))
Described(d) == HasFields(d) /\ NameIsOwn(d) /\ ServicesAreOwn(d) /\ PrintIsOwn(d)

DescribedInv ==
    stage \in {"fingerprint", "classify", "record"} => \A n \in DOMAIN devices : Described(devices[n])

\* A description that differs in its category alone is as good.
LEMMA SameDescription ==
    ASSUME NEW d, NEW e, Described(d), HasFields(e), e.ip = d.ip, e.services = d.services, e.facts = d.facts
    PROVE  Described(e)
<1>1. /\ NameIsOwn(d) => NameIsOwn(e)
      /\ ServicesAreOwn(d) => ServicesAreOwn(e)
      /\ PrintIsOwn(d) => PrintIsOwn(e)
  BY Zenon DEF NameIsOwn, ServicesAreOwn, PrintIsOwn
<1> QED
  BY <1>1 DEF Described

LEMMA ListedDescribed ==
    ASSUME FoundInv, SaidInv, stage = "resolve", NEW n \in DOMAIN all_ips
    PROVE  Described(device(n))
<1> DEFINE d == IF n <= Len(entries) THEN from_entry(entries[n]) ELSE from_sweep(all_ips[n])
           m == IF d.ip \in DOMAIN names THEN names[d.ip] ELSE [hostname |-> NONE, services |-> <<>>]
           vendor == IF d.mac = NONE THEN NONE ELSE oui(d.mac)
           facts == [vendor |-> vendor, hostname |-> m.hostname, os_hint |-> NONE]
<1>1. HasFields(d)
  BY DEF from_entry, from_sweep, HasFields
<1>2. device(n) = [d EXCEPT !.services = m.services, !.facts = facts]
  BY Zenon DEF device
<1>3. /\ m.hostname # NONE => m.hostname \in OwnNames(d.ip)
      /\ m.services \in Seq(OwnServices(d.ip))
  <2> HIDE DEF d
  <2>1. CASE d.ip \in DOMAIN names
    BY <2>1 DEF SaidInv, OwnResult
  <2>2. CASE d.ip \notin DOMAIN names
    <3>1. m.hostname = NONE /\ m.services = <<>>
      BY <2>2
    <3>2. \A S : <<>> \in Seq(S)
      OBVIOUS
    <3> HIDE DEF m
    <3> QED
      BY <3>1, <3>2
  <2> QED
    BY <2>1, <2>2
<1>4. facts["hostname"] = m.hostname /\ facts["os_hint"] = NONE
  OBVIOUS
<1> HIDE DEF d, m, facts
<1>5. device(n).ip = d.ip /\ device(n).services = m.services /\ device(n).facts = facts
  BY <1>1, <1>2 DEF HasFields
<1> QED
  BY <1>3, <1>4, <1>5, DeviceFields, Zenon DEF Described, NameIsOwn, ServicesAreOwn, PrintIsOwn

LEMMA PrintedDescribed ==
    ASSUME StackInv, stage = "fingerprint", NEW n, Described(devices[n])
    PROVE  Described(apply_fingerprint(n))
<1> DEFINE d == devices[n]
           hint == guess_os(parse_stack_fingerprint(stacks[d.ip]))
           e == [d EXCEPT !.facts["os_hint"] = hint]
<1>1. \/ apply_fingerprint(n) = d
      \/ apply_fingerprint(n) = e /\ d.ip \in DOMAIN stacks /\ stacks[d.ip] # NONE
  BY Zenon DEF apply_fingerprint
<1>2. CASE apply_fingerprint(n) = d
  BY <1>2
<1>3. CASE apply_fingerprint(n) = e /\ d.ip \in DOMAIN stacks /\ stacks[d.ip] # NONE
  <2>1. PICK port \in Ports : stacks[d.ip] = stack(d.ip, port)
    BY <1>3 DEF StackInv
  <2>2. hint = guess_os(parse_stack_fingerprint(stack(d.ip, port)))
    BY <2>1
  <2>3. Described(d) /\ HasFields(d) /\ "os_hint" \in Facts
    BY SessionAssumption DEF Described
  <2> HIDE DEF d, hint
  <2>4. /\ HasFields(e) /\ e.ip = d.ip /\ e.services = d.services
        /\ e.facts["hostname"] = d.facts["hostname"] /\ e.facts["os_hint"] = hint
    BY <2>3 DEF HasFields
  <2> HIDE DEF e
  <2>5. NameIsOwn(e) /\ ServicesAreOwn(e)
    BY <2>3, <2>4, Zenon DEF Described, NameIsOwn, ServicesAreOwn
  <2>6. PrintIsOwn(e)
    BY <1>3, <2>1, <2>2, <2>4 DEF PrintIsOwn
  <2> QED
    BY <1>3, <2>4, <2>5, <2>6 DEF Described
<1> QED
  BY <1>1, <1>2, <1>3

LEMMA FromSweepDescribed ==
    ASSUME NEW ip PROVE Described(from_sweep(ip))
<1> DEFINE d == from_sweep(ip)
<1>1. /\ HasFields(d) /\ d.services = <<>>
      /\ d.facts["hostname"] = NONE /\ d.facts["os_hint"] = NONE
  BY SessionAssumption DEF from_sweep, HasFields
<1>2. \A S : <<>> \in Seq(S)
  OBVIOUS
<1>3. Described(d)
  <2> HIDE DEF d
  <2> QED
    BY <1>1, <1>2 DEF Described, NameIsOwn, ServicesAreOwn, PrintIsOwn
<1> QED
  BY <1>3

LEMMA DescribedNext ==
    StageInv /\ FoundInv /\ FiniteInv /\ SaidInv /\ StackInv /\ DescribedInv /\ [Next]_vars => DescribedInv'
<1> SUFFICES ASSUME StageInv, FoundInv, FiniteInv, SaidInv, StackInv, DescribedInv, [Next]_vars
             PROVE  DescribedInv'
  OBVIOUS
<1>0. \A d : Described(d)' = Described(d)
  BY DEF Described, HasFields, NameIsOwn, ServicesAreOwn, PrintIsOwn
<1>1. CASE UNCHANGED <<stage, devices>>
  BY <1>1 DEF DescribedInv
<1>2. CASE stage' \notin {"fingerprint", "classify", "record"}
  BY <1>2 DEF DescribedInv
<1>3. CASE ProbeBulk /\ stage = "resolve"
  <2>1. devices' = [n \in DOMAIN all_ips |-> device(n)]
    BY <1>3 DEF ProbeBulk
  <2>2. \A n \in DOMAIN devices' : Described(devices'[n])
    BY <1>3, <2>1, ListedDescribed
  <2> QED
    BY <2>2 DEF DescribedInv
<1>4. CASE ApplyFingerprints /\ stage = "fingerprint"
  <2>1. devices' = [n \in DOMAIN devices |-> apply_fingerprint(n)]
    BY <1>4 DEF ApplyFingerprints
  <2>2. \A n \in DOMAIN devices' : Described(devices'[n])
    BY <1>4, <2>1, PrintedDescribed DEF DescribedInv
  <2> QED
    BY <2>2 DEF DescribedInv
<1>5. CASE ClassifyAndSort /\ stage = "classify"
  <2> DEFINE sorted(d) == [d EXCEPT !.category = classify(evidence(d))]
  <2>1. PICK order \in SetToSeqs(DOMAIN devices) :
          devices' = [n \in DOMAIN order |-> sorted(devices[order[n]])]
    BY <1>5, Zenon DEF ClassifyAndSort
  <2>2. \A n \in DOMAIN order : order[n] \in DOMAIN devices
    BY DEF SetToSeqs
  <2>3. \A d : HasFields(d) => /\ HasFields(sorted(d)) /\ sorted(d).ip = d.ip
                               /\ sorted(d).services = d.services /\ sorted(d).facts = d.facts
    BY DEF HasFields
  <2> HIDE DEF sorted
  <2>4. \A d : Described(d) => Described(sorted(d))
    <3> SUFFICES ASSUME NEW d, Described(d) PROVE Described(sorted(d))
      OBVIOUS
    <3> QED
      BY <2>3, SameDescription DEF Described
  <2>5. \A n \in DOMAIN devices' : Described(devices'[n])
    BY <1>5, <2>1, <2>2, <2>4 DEF DescribedInv
  <2> QED
    BY <2>5 DEF DescribedInv
<1>6. CASE Probe
  <2>1. \A n \in DOMAIN devices' : \E ip : devices'[n] = from_sweep(ip)
    BY <1>6, ReportRecordable
  <2>2. \A n \in DOMAIN devices' : Described(devices'[n])
    BY <2>1, FromSweepDescribed
  <2> QED
    BY <2>2 DEF DescribedInv
<1>7. CASE SessionMoves
  BY <1>2, <1>7 DEF SessionMoves, StageInv, Request
<1>8. CASE ScanMoves
  BY <1>1, <1>2, <1>3, <1>4, <1>5, <1>8 DEF ScanMoves
<1>9. CASE SurveyMoves
  BY <1>2, <1>6, <1>9 DEF SurveyMoves
<1>10. CASE UNCHANGED vars
  BY <1>1, <1>10 DEF vars, session_vars
<1> QED
  BY <1>7, <1>8, <1>9, <1>10, Moves

\* Every name, service and fingerprint that a finished scan holds about a device
\* came from the host at its address, in whatever order queries and closures end,
\* whoever else answers, and for any number of hosts.
THEOREM DevicesDescribeThemselves == Spec => []DescribedByItself
<1>1. Init => FiniteInv /\ DescribedInv
  <2>1. Init => DOMAIN all_subnets = {} /\ stage = "main"
    BY DEF Init, SurveyInit, SessionInit
  <2> QED
    BY <2>1, FS_EmptySet DEF FiniteInv, DescribedInv
<1>2. DescribedInv => DescribedByItself
  <2> SUFFICES ASSUME NEW d, Described(d)
               PROVE  /\ d.facts["hostname"] # NONE =>
                            \E g \in OwnDatagrams(d.ip) : Contains(g.names, d.facts["hostname"])
                      /\ ToSet(d.services) \subseteq UNION {ToSet(g.services) : g \in OwnDatagrams(d.ip)}
                      /\ d.facts["os_hint"] # NONE =>
                            \E port \in Ports :
                                /\ stack(d.ip, port) # NONE
                                /\ d.facts["os_hint"] = guess_os(parse_stack_fingerprint(stack(d.ip, port)))
    BY DEF DescribedInv, DescribedByItself, OwnDatagrams
  <2>1. ASSUME NEW name \in OwnNames(d.ip)
        PROVE  \E g \in OwnDatagrams(d.ip) : Contains(g.names, name)
    <3>1. PICK g \in OwnDatagrams(d.ip) : name \in ToSet(g.names)
      BY DEF OwnNames
    <3>2. g.names \in Seq(Values)
      BY ScanAssumption DEF OwnDatagrams
    <3>3. Contains(g.names, name)
      BY <3>1, <3>2 DEF ToSet, Contains
    <3> QED
      BY <3>3
  <2>2. ToSet(d.services) \subseteq OwnServices(d.ip)
    BY DEF Described, ServicesAreOwn, ToSet
  <2> QED
    BY <2>1, <2>2, Zenon DEF Described, NameIsOwn, PrintIsOwn, OwnServices
<1> QED
  BY <1>1, <1>2, StageInit, StageNext, FoundInit, FoundNext, SurveyInitInv, SurveyNext, FiniteNext,
     NamesInit, NamesNext, PrintInit, PrintNext, SaidInit, SaidNext, StackNext, DescribedNext,
     PTL DEF Spec

-----------------------------------------------------------------------------
(***************************************************************************)
(* Types.                                                                  *)
(***************************************************************************)

\* The program may meet every address.
EveryAddress == [1..4 -> Octet] \subseteq Ips

LEMMA BaseIsIp ==
    ASSUME EveryAddress, NEW ip, IsAddress(ip), NEW prefix \in 0..32
    PROVE  network_base(ip, prefix) \in Ips
<1>1. IsAddress(network_base(ip, prefix))
  BY BaseIsAddress
<1>2. network_base(ip, prefix) \in [1..4 -> Octet]
  BY <1>1 DEF IsAddress, network_base
<1> QED
  BY <1>2 DEF EveryAddress

LEMMA AutoSubnetIp ==
    ASSUME EveryAddress, NEW h \in Host, NEW name
    PROVE  auto_subnet(h, name) \in [base : Ips, prefix : 0..32]
<1> DEFINE i == or(find_interface(h, name), find_local_interface(h, name))
<1>1. CASE i = NONE
  <2>1. auto_subnet(h, name) = DefaultSubnet
    BY <1>1 DEF auto_subnet
  <2>2. <<192, 168, 1, 0>> \in [1..4 -> Octet]
    BY DEF Octet
  <2> QED
    BY <2>1, <2>2 DEF DefaultSubnet, EveryAddress
<1>2. CASE i # NONE
  <2>1. i.ips \in Seq(IfAddress) /\ ipv4(i.ips) # {}
    BY <1>2, FindInterfaceType, FindLocalInterfaceType, Zenon DEF or
  <2>2. auto_subnet(h, name) = subnet_of(first_ipv4(i.ips))
    BY <1>2 DEF auto_subnet
  <2> HIDE DEF i
  <2>3. /\ first_ipv4(i.ips).prefix \in 0..32
        /\ IsAddress(first_ipv4(i.ips).ip)
    BY <2>1, FirstIpv4, SessionAssumption
  <2>4. network_base(first_ipv4(i.ips).ip, first_ipv4(i.ips).prefix) \in Ips
    BY <2>3, BaseIsIp
  <2> QED
    BY <2>2, <2>3, <2>4 DEF subnet_of
<1> QED
  BY <1>1, <1>2

\* The least of a set of positions is one of them.
LEMMA LeastOf ==
    ASSUME NEW D \in SUBSET (Nat \ {0}), D # {}
    PROVE  Min(D) \in D
<1>1. PICK n \in D : \A m \in 1..(n - 1) : m \notin D
  BY FirstWhere
<1>2. \A m \in D : n <= m
  BY <1>1
<1>3. \E x \in D : \A y \in D : x <= y
  BY <1>2
<1> QED
  BY <1>3, Zenon DEF Min

\* A table of rules decides for what is in its second column, or not at all.
LEMMA FirstMatchType ==
    ASSUME NEW rules, DOMAIN rules \in SUBSET (Nat \ {0}), NEW S,
           \A i \in DOMAIN rules : rules[i][2] \in Option(S), NEW text
    PROVE  first_match(rules, text) \in Option(S)
<1> DEFINE hits == {i \in DOMAIN rules : rules[i][1] \cap text # {}}
<1>1. first_match(rules, text) = IF hits = {} THEN NONE ELSE rules[Min(hits)][2]
  BY Zenon DEF first_match
<1>2. hits \in SUBSET (Nat \ {0}) /\ hits \subseteq DOMAIN rules
  OBVIOUS
<1> HIDE DEF hits
<1>3. hits # {} => Min(hits) \in DOMAIN rules
  BY <1>2, LeastOf
<1> QED
  BY <1>1, <1>3 DEF Option

LEMMA CategoryType ==
    ASSUME NEW d
    PROVE  classify(evidence(d)) \in Categories
<1>1. /\ DOMAIN ServiceRules \in SUBSET (Nat \ {0}) /\ DOMAIN VendorRules \in SUBSET (Nat \ {0})
      /\ DOMAIN HostnameRules \in SUBSET (Nat \ {0}) /\ DOMAIN OsRules \in SUBSET (Nat \ {0})
      /\ DOMAIN FallbackRules \in SUBSET (Nat \ {0})
  BY DEF ServiceRules, VendorRules, HostnameRules, OsRules, FallbackRules
<1>2. \A text : /\ first_match(ServiceRules, text) \in Option(Categories)
                /\ first_match(VendorRules, text) \in Option(Categories)
                /\ first_match(HostnameRules, text) \in Option(Categories)
                /\ first_match(OsRules, text) \in Option(Categories)
                /\ first_match(FallbackRules, text) \in Option(Categories)
  BY <1>1, CategoryAssumption, FirstMatchType
<1>3. service_category(d.services) \in Option(Categories)
  <2> DEFINE by(i) == first_match(ServiceRules, words(d.services[i]))
             recognised == {i \in DOMAIN d.services : by(i) # NONE}
  <2>1. \/ recognised # {} /\ service_category(d.services) = by(Min(recognised))
        \/ service_category(d.services) = "Phone"
        \/ service_category(d.services) = NONE
    BY Zenon DEF service_category
  <2>2. by(Min(recognised)) \in Option(Categories)
    BY <1>2
  <2> QED
    BY <2>1, <2>2, CategoryAssumption DEF Option
<1> DEFINE s == service_category(d.services)
           v == vendor_category(d.facts["vendor"])
           h == hostname_category(d.facts["hostname"])
           o == os_category(d.facts["os_hint"])
           f == first_match(FallbackRules, words_of(d.facts["vendor"]))
           c == classify(evidence(d))
<1>4. /\ s \in Option(Categories) /\ v \in Option(Categories) /\ h \in Option(Categories)
      /\ o \in Option(Categories) /\ f \in Option(Categories)
  BY <1>2, <1>3 DEF vendor_category, hostname_category, os_category
<1>5. decisions_of(d) = <<s, v, h, o, f>>
  BY Zenon DEF decisions_of
<1>6. StrongestOf(<<s, v, h, o, f>>, c)
  BY <1>5, ClassifyTakesFirst
<1> HIDE DEF s, v, h, o, f, c
<1>7. c = "Unknown" \/ (c \in {s, v, h, o, f} /\ c # NONE)
  BY <1>6 DEF StrongestOf
<1>8. "Unknown" \in Categories
  BY CategoryAssumption, StoreAssumption
<1> QED
  BY <1>4, <1>7, <1>8 DEF Option, c

\* What a scan is working on belongs to devices it has found.
ScanWorkInv ==
    /\ stage \in {"main", "scan", "arp", "sweep"} => pending = {} /\ DOMAIN queries = {}
    /\ ScanTypeOK

LEMMA ScanWorkInit == Init => ScanWorkInv
<1> SUFFICES ASSUME Init PROVE ScanWorkInv
  OBVIOUS
<1>1. /\ subnet = NONE /\ entries = <<>> /\ swept = <<>> /\ pending = {} /\ answered = {}
      /\ DOMAIN queries = {} /\ DOMAIN names = {} /\ DOMAIN jobs = {} /\ DOMAIN stacks = {}
  BY DEF Init, ScanInit, Nothing
<1>2. DOMAIN entries = {} /\ ToSet(swept) = {}
  BY <1>1 DEF ToSet
<1> QED
  BY <1>1, <1>2 DEF ScanWorkInv, ScanTypeOK, Option

\* What a name query has heard are values.
LEMMA OwnResultType ==
    ASSUME NEW ip, NEW r, OwnResult(ip, r)
    PROVE  r.hostname \in Values /\ ToSet(r.services) \subseteq Services
<1>1. OwnNames(ip) \subseteq Values /\ OwnServices(ip) \subseteq Services
  <2>1. \A g \in Datagrams : ToSet(g.names) \subseteq Values /\ ToSet(g.services) \subseteq Services
    BY ScanAssumption DEF ToSet
  <2> QED
    BY <2>1 DEF OwnNames, OwnServices, OwnDatagrams
<1>2. r.hostname \in OwnNames(ip) /\ r.services \in Seq(OwnServices(ip))
  BY DEF OwnResult
<1>3. \A S : \A s \in Seq(S) : ToSet(s) \subseteq S
  BY DEF ToSet
<1> QED
  BY <1>1, <1>2, <1>3

\* The first steps find out where to look and who is there.
LEMMA FoundTypeNext ==
    ASSUME EveryAddress, StageInv, FoundInv, FoundInv', PrintInv, StackInv, ScanWorkInv, UNCHANGED input_vars,
           ParseSubnet \/ AutoSubnet \/ ArpScan \/ SweepSubnet
    PROVE  ScanWorkInv'
<1>1. /\ stage \in {"scan", "arp", "sweep"}
      /\ UNCHANGED <<pending, queries, names, jobs, answered, stacks>>
  BY Zenon DEF ParseSubnet, AutoSubnet, ArpScan, SweepSubnet, name_vars, print_vars
<1>2. pending = {} /\ DOMAIN queries = {}
  BY <1>1 DEF ScanWorkInv
<1>3. answered = {} /\ DOMAIN jobs = {}
  BY <1>1 DEF PrintInv
<1>4. DOMAIN stacks = {}
  BY <1>1 DEF StackInv, ScanStages
<1>5. subnet' \in Option([base : Ips, prefix : 0..32])
  <2>1. CASE UNCHANGED subnet
    BY <2>1 DEF ScanWorkInv, ScanTypeOK
  <2>2. CASE ParseSubnet /\ ~ UNCHANGED subnet
    <3>1. /\ request.subnet # NONE /\ request.subnet.ip # NONE
          /\ ~ (request.subnet.prefix > 32)
          /\ subnet' = [base |-> request.subnet.ip, prefix |-> request.subnet.prefix]
      BY <2>2 DEF ParseSubnet
    <3>2. request.subnet.ip \in Ips /\ request.subnet.prefix \in Nat
      BY <3>1 DEF StageInv, Request, Option
    <3> QED
      BY <3>1, <3>2 DEF Option
  <2>3. CASE AutoSubnet
    <3>1. subnet' = auto_subnet(host, request.interface) /\ host \in Host
      BY <2>3 DEF AutoSubnet, StageInv
    <3> QED
      BY <3>1, AutoSubnetIp DEF Option
  <2>4. CASE ArpScan \/ SweepSubnet
    BY <2>1, <2>4 DEF ArpScan, SweepSubnet
  <2> QED
    BY <2>1, <2>2, <2>3, <2>4
<1>6. \A n \in DOMAIN entries' : entries'[n] \in Replies
  BY DEF FoundInv
<1>7. ToSet(swept') \subseteq Ips
  BY DEF FoundInv, ToSet
<1>8. \A ip \in DOMAIN names : names[ip].hostname \in Values /\ ToSet(names[ip].services) \subseteq Services
  BY DEF ScanWorkInv, ScanTypeOK
<1> QED
  BY <1>1, <1>2, <1>3, <1>4, <1>5, <1>6, <1>7, <1>8 DEF ScanWorkInv, ScanTypeOK, ToSet

\* The steps on the devices that were found: names, closures and results belong to
\* one of them each.
LEMMA WorkTypeNext ==
    ASSUME StageInv, PrintInv, SaidInv, ScanWorkInv, ScanMoves,
           UNCHANGED found_vars, stage' \notin {"main", "scan", "arp", "sweep"}
    PROVE  ScanWorkInv'
<1>0. all_ips' = all_ips /\ Jobs' = Jobs
  BY DEF found_vars, all_ips, Jobs
<1>1. /\ pending \subseteq DOMAIN all_ips /\ DOMAIN queries \subseteq DOMAIN all_ips
      /\ \A ip \in DOMAIN names : names[ip].hostname \in Values /\ ToSet(names[ip].services) \subseteq Services
      /\ \A j \in DOMAIN jobs : j \in Jobs /\ jobs[j] \in {"queued", "prompt", "late", "ended"}
      /\ answered \subseteq DOMAIN all_ips /\ DOMAIN stacks \subseteq ToSet(all_ips)
  BY DEF ScanWorkInv, ScanTypeOK
<1>2. /\ subnet' \in Option([base : Ips, prefix : 0..32])
      /\ \A n \in DOMAIN entries' : entries'[n] \in Replies
      /\ ToSet(swept') \subseteq Ips
  BY DEF ScanWorkInv, ScanTypeOK, found_vars, ToSet
<1> DEFINE Works ==
      /\ pending' \subseteq DOMAIN all_ips /\ DOMAIN queries' \subseteq DOMAIN all_ips
      /\ \A ip \in DOMAIN names' : names'[ip].hostname \in Values /\ ToSet(names'[ip].services) \subseteq Services
      /\ \A j \in DOMAIN jobs' : j \in Jobs /\ jobs'[j] \in {"queued", "prompt", "late", "ended"}
      /\ answered' \subseteq DOMAIN all_ips /\ DOMAIN stacks' \subseteq ToSet(all_ips)
<1> SUFFICES Works
  BY <1>0, <1>2 DEF ScanWorkInv, ScanTypeOK, ToSet
<1>3. ASSUME NEW i \in pending, NEW s, settle(i, s)
      PROVE  pending' \subseteq DOMAIN all_ips /\ DOMAIN stacks' \subseteq ToSet(all_ips)
  <2>1. all_ips[i] \in ToSet(all_ips)
    BY <1>1 DEF ToSet
  <2> QED
    BY <1>1, <1>3, <2>1 DEF settle, insert
<1>4. CASE ResolveBulk
  BY <1>1, <1>4 DEF ResolveBulk, name_vars, print_vars
<1>5. ASSUME NEW i \in pending, Query(i) PROVE Works
  <2>1. /\ UNCHANGED <<pending, names, jobs, answered, stacks>>
        /\ \E result : queries' = insert(queries, i, result)
    BY <1>5, Zenon DEF Query, print_vars
  <2> QED
    BY <1>1, <2>1 DEF insert
<1>6. ASSUME NEW i \in pending, Join(i), stage = "resolve" PROVE Works
  <2>1. /\ UNCHANGED <<queries, jobs, answered, stacks>> /\ pending' = pending \ {i}
        /\ i \in DOMAIN queries
        /\ names' = IF queries[i] \in {NONE, Failed} THEN names ELSE insert(names, all_ips[i], queries[i])
    BY <1>6 DEF Join, print_vars
  <2>2. queries[i] \notin {NONE, Failed} =>
           queries[i].hostname \in Values /\ ToSet(queries[i].services) \subseteq Services
    BY <1>6, <2>1, OwnResultType DEF SaidInv
  <2>3. ASSUME NEW ip \in DOMAIN names'
        PROVE  names'[ip].hostname \in Values /\ ToSet(names'[ip].services) \subseteq Services
    <3>1. \/ ip \in DOMAIN names /\ names'[ip] = names[ip]
          \/ queries[i] \notin {NONE, Failed} /\ names'[ip] = queries[i]
      BY <2>1, <2>3 DEF insert
    <3> QED
      BY <1>1, <2>2, <3>1
  <2> QED
    BY <1>1, <2>1, <2>3
<1>7. CASE ProbeBulk
  <2>1. /\ UNCHANGED <<names, answered, stacks>> /\ DOMAIN queries' = {}
        /\ \/ UNCHANGED <<pending, jobs>>
           \/ pending' = DOMAIN all_ips /\ jobs' \in [Jobs -> {"prompt", "queued"}]
    BY <1>7 DEF ProbeBulk, Nothing
  <2> QED
    BY <1>1, <2>1
<1>8. ASSUME NEW i \in pending, GiveUp(i) PROVE Works
  <2>1. UNCHANGED <<queries, names, jobs, answered>> /\ settle(i, NONE)
    BY <1>8 DEF GiveUp, name_vars
  <2> QED
    BY <1>1, <1>3, <2>1
<1>9. ASSUME NEW j \in DOMAIN jobs, StartJob(j) PROVE Works
  BY <1>1, <1>9 DEF StartJob, name_vars
<1>10. ASSUME NEW j \in DOMAIN jobs, EndJob(j) PROVE Works
  <2>1. \E s :
           /\ answered' \subseteq answered \cup {j[1]}
           /\ (j[1] \in pending /\ settle(j[1], s)) \/ UNCHANGED <<pending, stacks>>
    <3>1. PICK arrived \in arrivals(j) :
             /\ answered' = answered_by(j, arrived)
             /\ \/ j[1] \in pending /\ settle(j[1], wait_syn_ack(arrived))
                \/ UNCHANGED <<pending, stacks>>
      BY <1>10, Zenon DEF EndJob
    <3> QED
      BY <3>1 DEF answered_by
  <2>2. UNCHANGED <<queries, names>> /\ jobs' = [jobs EXCEPT ![j] = "ended"]
    BY <1>10 DEF EndJob, name_vars
  <2>3. j[1] \in DOMAIN all_ips
    BY <1>1 DEF Jobs
  <2>4. pending' \subseteq DOMAIN all_ips /\ DOMAIN stacks' \subseteq ToSet(all_ips)
    BY <1>1, <1>3, <2>1
  <2>5. \A k \in DOMAIN jobs' : k \in Jobs /\ jobs'[k] \in {"queued", "prompt", "late", "ended"}
    BY <1>1, <2>2
  <2> QED
    BY <1>1, <2>1, <2>2, <2>3, <2>4, <2>5
<1>11. CASE ApplyFingerprints
  <2>1. /\ UNCHANGED <<pending, queries, names, stacks>> /\ DOMAIN jobs' = {} /\ answered' = {}
    BY <1>11 DEF ApplyFingerprints, name_vars, Nothing
  <2> QED
    BY <1>1, <2>1
<1>12. CASE ClassifyAndSort
  BY <1>1, <1>12 DEF ClassifyAndSort, name_vars, print_vars
<1>13. CASE ParseSubnet \/ AutoSubnet \/ ArpScan \/ SweepSubnet
  BY <1>1, <1>13, Zenon DEF ParseSubnet, AutoSubnet, ArpScan, SweepSubnet, name_vars, print_vars
<1> QED
  <2> HIDE DEF Works
  <2> QED
    BY <1>4, <1>5, <1>6, <1>7, <1>8, <1>9, <1>10, <1>11, <1>12, <1>13 DEF ScanMoves

LEMMA ScanWorkNext ==
    ASSUME EveryAddress
    PROVE  /\ StageInv /\ FoundInv /\ FoundInv' /\ PrintInv /\ StackInv /\ SaidInv /\ ScanWorkInv
           /\ [Next]_vars
           => ScanWorkInv'
<1> SUFFICES ASSUME StageInv, FoundInv, FoundInv', PrintInv, StackInv, SaidInv, ScanWorkInv, [Next]_vars
             PROVE  ScanWorkInv'
  OBVIOUS
<1>1. CASE UNCHANGED scan_vars /\ (stage' \in {"main", "scan", "arp", "sweep"} => stage \in {"main", "scan", "arp", "sweep"})
  BY <1>1 DEF ScanWorkInv, ScanTypeOK, scan_vars, found_vars, name_vars, print_vars, all_ips, Jobs, ToSet
<1>2. CASE SessionMoves /\ UNCHANGED scan_vars
  BY <1>1, <1>2 DEF SessionMoves
<1>3. CASE SurveyMoves /\ UNCHANGED scan_vars
  BY <1>1, <1>3 DEF SurveyMoves
<1>4. CASE UNCHANGED vars
  BY <1>1, <1>4 DEF vars, session_vars
<1>5. CASE ScanMoves
  <2>1. CASE ParseSubnet \/ AutoSubnet \/ ArpScan \/ SweepSubnet
    BY <2>1, FoundTypeNext, Moves
  <2>2. CASE /\ stage' \notin {"main", "scan", "arp", "sweep"} /\ UNCHANGED found_vars
    BY <1>5, <2>2, WorkTypeNext
  <2>3. \/ ParseSubnet \/ AutoSubnet \/ ArpScan \/ SweepSubnet
        \/ stage' \notin {"main", "scan", "arp", "sweep"} /\ UNCHANGED found_vars
    BY <1>5, Zenon DEF ScanMoves, ResolveBulk, Query, Join, ProbeBulk, GiveUp,
                       StartJob, EndJob, ApplyFingerprints, ClassifyAndSort
  <2> QED
    BY <2>1, <2>2, <2>3
<1> QED
  BY <1>2, <1>3, <1>4, <1>5, Moves

\* What a gateway tells are subnets of addresses the program may meet.
LEMMA AnswerIsIp ==
    ASSUME EveryAddress, NEW gateway \in Ips, NEW answers \in igd(gateway)
    PROVE  \A key \in query_upnp_wan(answers) : key[1] \in Ips
<1> SUFFICES ASSUME NEW a \in answers, NEW key \in answer_subnets(a)
             PROVE  key[1] \in Ips
  BY DEF query_upnp_wan
<1>1. /\ a.external # NONE => IsAddress(a.external)
      /\ a.mask \in Option(0..32)
      /\ a.routers \subseteq Ips
  BY SurveyAssumption
<1>2. CASE key \in {<<network_base(a.external, p), p>> : p \in {24, 28, 29, 30}} /\ a.external # NONE
  <2>1. PICK p \in {24, 28, 29, 30} : key = <<network_base(a.external, p), p>>
    BY <1>2
  <2>2. p \in 0..32 /\ network_base(a.external, p) \in Ips
    BY <1>1, <1>2, BaseIsIp
  <2> QED
    BY <2>1, <2>2
<1>3. CASE key = <<network_base(a.external, a.mask), a.mask>> /\ a.external # NONE /\ a.mask # NONE
  <2>1. a.mask \in 0..32
    BY <1>1, <1>3 DEF Option
  <2>2. network_base(a.external, a.mask) \in Ips
    BY <1>1, <1>3, <2>1, BaseIsIp
  <2> QED
    BY <1>3, <2>2
<1>4. CASE key \in {<<r, p>> : r \in a.routers, p \in {24, 16}}
  BY <1>1, <1>4
<1> QED
  BY <1>2, <1>3, <1>4 DEF answer_subnets

\* What a survey is working on belongs to gateways and subnets it has listed.
SurveyWorkInv ==
    /\ stage \in {"main", "survey", "gateways"} => interrogated = 0
    /\ \A key \in DOMAIN all_subnets : key[1] \in Ips
    /\ SurveyTypeOK

LEMMA SurveyWorkInit == Init => SurveyWorkInv
<1> SUFFICES ASSUME Init PROVE SurveyWorkInv
  OBVIOUS
<1>1. /\ gateways = <<>> /\ interrogated = 0 /\ answering = {}
      /\ DOMAIN all_subnets = {} /\ DOMAIN gateway_map = {} /\ DOMAIN report = {}
  BY DEF Init, SurveyInit
<1>2. ToSet(gateways) = {} /\ Len(gateways) = 0
  BY <1>1 DEF ToSet
<1> QED
  BY <1>1, <1>2 DEF SurveyWorkInv, SurveyTypeOK

LEMMA DetectTyped ==
    ASSUME EveryAddress, StageInv, SurveyInv, SurveyInv', SurveyWorkInv,
           DetectGateways, stage = "gateways"
    PROVE  SurveyWorkInv'
<1>1. /\ stage' = "upnp" /\ interrogated' = 0 /\ UNCHANGED <<answering, report>>
      /\ DOMAIN all_subnets = {} /\ DOMAIN gateway_map = {}
  BY DEF DetectGateways, SurveyInv, SurveyWorkInv, SurveyTypeOK
<1>2. gateways' \in Seq(Ips)
  BY DEF SurveyInv
<1>3. ToSet(gateways') \subseteq Ips /\ 0 \in 0..Len(gateways')
  BY <1>2 DEF ToSet
<1>4. \/ gateways' = <<>> /\ UNCHANGED <<all_subnets, gateway_map>>
      \/ /\ gateways' # <<>>
         /\ all_subnets' = or_insert(all_subnets, {LocalKey}, "GatewayRoute")
         /\ gateway_map' = or_insert(gateway_map, {LocalKey}, Head(gateways'))
  BY DEF DetectGateways, LocalKey
<1>5. LocalKey[1] \in Ips
  <2>1. local_interface # NONE /\ host \in Host
    BY DEF SurveyInv, StageInv
  <2>2. local_subnet.base \in [1..4 -> Octet]
    BY <2>1, LocalSubnetType
  <2> QED
    BY <2>2 DEF EveryAddress, LocalKey
<1>6. CASE UNCHANGED <<all_subnets, gateway_map>>
  BY <1>1, <1>3, <1>6 DEF SurveyWorkInv, SurveyTypeOK
<1>7. CASE /\ gateways' # <<>>
           /\ all_subnets' = or_insert(all_subnets, {LocalKey}, "GatewayRoute")
           /\ gateway_map' = or_insert(gateway_map, {LocalKey}, Head(gateways'))
  <2>1. Head(gateways') \in ToSet(gateways')
    BY <1>2, <1>7 DEF ToSet
  <2>2. /\ DOMAIN all_subnets' = {LocalKey} /\ DOMAIN gateway_map' = {LocalKey}
        /\ \A k \in DOMAIN all_subnets' : all_subnets'[k] = "GatewayRoute"
        /\ \A k \in DOMAIN gateway_map' : gateway_map'[k] = Head(gateways')
    BY <1>1, <1>7 DEF or_insert, or_insert_all
  <2>3. \A key \in DOMAIN all_subnets' : IsAddress(key[1]) /\ key[2] \in 0..32
    BY DEF SurveyInv, IsNet
  <2>4. "GatewayRoute" \in Sources
    BY DEF Sources
  <2>5. UNCHANGED <<answering, report>> /\ answering \subseteq Responders
        /\ \A key \in DOMAIN report : report[key] \in Option(Nat)
    BY <1>1 DEF SurveyWorkInv, SurveyTypeOK
  <2> QED
    BY <1>1, <1>3, <1>5, <2>1, <2>2, <2>3, <2>4, <2>5 DEF SurveyWorkInv, SurveyTypeOK
<1> QED
  BY <1>4, <1>6, <1>7

LEMMA InterrogateTyped ==
    ASSUME EveryAddress, SurveyInv, SurveyInv', SurveyWorkInv, Interrogate, stage = "upnp",
           stage' \in {"panicked", "upnp"}
    PROVE  SurveyWorkInv'
<1>1. /\ interrogated < Len(gateways) /\ interrogated' = interrogated + 1
      /\ UNCHANGED <<gateways, answering, report>>
      /\ \E answers \in igd(gateways[interrogated']) :
            \/ UNCHANGED <<all_subnets, gateway_map>>
            \/ /\ all_subnets' = or_insert(all_subnets, query_upnp_wan(answers), "UpnpDiscovery")
               /\ gateway_map' = or_insert(gateway_map, query_upnp_wan(answers), gateways[interrogated'])
  BY DEF Interrogate
<1>2. /\ gateways[interrogated'] \in Ips /\ gateways[interrogated'] \in ToSet(gateways)
      /\ interrogated' \in 0..Len(gateways)
  BY <1>1 DEF SurveyInv, ToSet
<1>3. /\ \A key \in DOMAIN all_subnets' : IsAddress(key[1]) /\ key[2] \in 0..32
      /\ \A key \in DOMAIN all_subnets : key[1] \in Ips /\ all_subnets[key] \in Sources
      /\ DOMAIN gateway_map \subseteq DOMAIN all_subnets
      /\ \A key \in DOMAIN gateway_map : gateway_map[key] \in ToSet(gateways)
      /\ ToSet(gateways) \subseteq Ips /\ answering \subseteq Responders
      /\ \A key \in DOMAIN report : report[key] \in Option(Nat)
  BY DEF SurveyInv, IsNet, SurveyWorkInv, SurveyTypeOK
<1>4. CASE UNCHANGED <<all_subnets, gateway_map>>
  BY <1>1, <1>2, <1>3, <1>4 DEF SurveyWorkInv, SurveyTypeOK
<1>5. ASSUME NEW answers \in igd(gateways[interrogated']),
             all_subnets' = or_insert(all_subnets, query_upnp_wan(answers), "UpnpDiscovery"),
             gateway_map' = or_insert(gateway_map, query_upnp_wan(answers), gateways[interrogated'])
      PROVE  SurveyWorkInv'
  <2>1. \A key \in query_upnp_wan(answers) : key[1] \in Ips
    BY <1>2, AnswerIsIp
  <2>2. "UpnpDiscovery" \in Sources
    BY DEF Sources
  <2>3. /\ DOMAIN all_subnets' = DOMAIN all_subnets \cup query_upnp_wan(answers)
        /\ \A key \in DOMAIN all_subnets' : all_subnets'[key] \in Sources
    BY <1>3, <1>5, <2>2 DEF or_insert, or_insert_all
  <2>4. /\ DOMAIN gateway_map' = DOMAIN gateway_map \cup query_upnp_wan(answers)
        /\ \A key \in DOMAIN gateway_map' : gateway_map'[key] \in ToSet(gateways)
    BY <1>2, <1>3, <1>5 DEF or_insert, or_insert_all
  <2> QED
    BY <1>1, <1>2, <1>3, <2>1, <2>3, <2>4 DEF SurveyWorkInv, SurveyTypeOK
<1> QED
  BY <1>1, <1>4, <1>5

LEMMA NeighboursTyped ==
    ASSUME EveryAddress, StageInv, SurveyInv, SurveyInv', SurveyWorkInv, AddNeighbours, stage = "upnp",
           stage' \in {"panicked", "probe"}
    PROVE  SurveyWorkInv'
<1>1. /\ UNCHANGED <<gateways, interrogated, gateway_map, answering, report>>
      /\ \/ UNCHANGED all_subnets
         \/ all_subnets' = adjacent_subnets_from(local_subnet.base, local_subnet.prefix, all_subnets)
  BY DEF AddNeighbours
<1>2. /\ \A key \in DOMAIN all_subnets' : IsAddress(key[1]) /\ key[2] \in 0..32
      /\ \A key \in DOMAIN all_subnets : key[1] \in Ips /\ all_subnets[key] \in Sources
  BY DEF SurveyInv, IsNet, SurveyWorkInv, SurveyTypeOK
<1>3. /\ DOMAIN all_subnets \subseteq DOMAIN all_subnets'
      /\ \A key \in DOMAIN all_subnets' : key[1] \in Ips /\ all_subnets'[key] \in Sources
  <2>1. CASE UNCHANGED all_subnets
    BY <1>2, <2>1
  <2>2. CASE all_subnets' = adjacent_subnets_from(local_subnet.base, local_subnet.prefix, all_subnets)
    <3>1. /\ local_subnet.base \in [1..4 -> Octet]
          /\ local_subnet.prefix = 24 => local_subnet.base \in Bases24
      BY LocalSubnetType DEF SurveyInv, StageInv
    <3>2. local_subnet.base \in Ips
      BY <3>1 DEF EveryAddress
    <3>3. {"AdjacentSweep", "CommonPrivate"} \subseteq Sources
      BY DEF Sources
    <3>4. CASE local_subnet.prefix # 24
      <4>1. all_subnets' = or_insert(all_subnets, {<<local_subnet.base, local_subnet.prefix>>}, "AdjacentSweep")
        BY <2>2, <3>4 DEF adjacent_subnets_from
      <4>2. /\ DOMAIN all_subnets' = DOMAIN all_subnets \cup {<<local_subnet.base, local_subnet.prefix>>}
            /\ \A key \in DOMAIN all_subnets' : all_subnets'[key] \in Sources
        BY <1>2, <3>3, <4>1 DEF or_insert, or_insert_all
      <4> QED
        BY <1>2, <3>2, <4>2
    <3>5. CASE local_subnet.prefix = 24
      <4> DEFINE new == proposals(local_subnet.base)
      <4>1. all_subnets' = or_insert_all(all_subnets, new)
        BY <2>2, <3>5 DEF adjacent_subnets_from
      <4>2. /\ DOMAIN new \subseteq at24(Bases24)
            /\ \A key \in DOMAIN new : new[key] \in Sources
        BY <3>1, <3>3, <3>5, ProposalsType
      <4> HIDE DEF new
      <4>3. /\ DOMAIN all_subnets' = DOMAIN all_subnets \cup DOMAIN new
            /\ \A key \in DOMAIN all_subnets' : all_subnets'[key] \in Sources
        BY <1>2, <4>1, <4>2 DEF or_insert_all
      <4>4. \A key \in at24(Bases24) : key[1] \in Ips
        BY DEF at24, Bases24, EveryAddress
      <4> QED
        BY <1>2, <4>2, <4>3, <4>4
    <3> QED
      BY <3>4, <3>5
  <2> QED
    BY <1>1, <2>1, <2>2
<1>4. /\ DOMAIN gateway_map \subseteq DOMAIN all_subnets
      /\ \A key \in DOMAIN gateway_map : gateway_map[key] \in ToSet(gateways)
      /\ ToSet(gateways) \subseteq Ips /\ interrogated \in 0..Len(gateways)
      /\ answering \subseteq Responders
      /\ \A key \in DOMAIN report : report[key] \in Option(Nat)
  BY DEF SurveyWorkInv, SurveyTypeOK
<1> QED
  BY <1>1, <1>2, <1>3, <1>4 DEF SurveyWorkInv, SurveyTypeOK

LEMMA GreaterOfTwo ==
    ASSUME NEW a \in Nat, NEW b \in Nat PROVE Max({a, b}) \in Nat
<1>1. \E x \in {a, b} : \A y \in {a, b} : x >= y
  OBVIOUS
<1>2. Max({a, b}) \in {a, b}
  BY <1>1, Zenon DEF Max
<1> QED
  BY <1>2

\* What one step of Probe reports of a subnet is a number of hosts, or nothing.
LEMMA HostCountTyped ==
    ASSUME NEW key, NEW ips \in SUBSET Responders, NEW replies,
           arp_scanned(key, in_sweep(key, ips)) => replies[key] \in Nat
    PROVE  host_count(key, in_sweep(key, ips), replies) \in Option(Nat)
<1> DEFINE found == in_sweep(key, ips)
<1>1. found \in SUBSET Responders
  BY DEF in_sweep
<1>2. Cardinality(found) \in Nat
  BY <1>1, SurveyAssumption, FS_Subset, FS_CardinalityType
<1> HIDE DEF found
<1>3. arp_scanned(key, found) => Max({Cardinality(found), replies[key]}) \in Nat
  BY <1>2, GreaterOfTwo DEF found
<1>4. host_count(key, found, replies) \in {NONE, 0}
         \/ (/\ arp_scanned(key, found)
             /\ host_count(key, found, replies) = Max({Cardinality(found), replies[key]}))
  BY Zenon DEF host_count
<1>5. host_count(key, found, replies) \in Option(Nat)
  BY <1>3, <1>4 DEF Option
<1> QED
  BY <1>5 DEF found

LEMMA ProbeTyped ==
    ASSUME SurveyWorkInv, Probe, stage' = "record"
    PROVE  SurveyWorkInv'
<1>1. UNCHANGED <<gateways, interrogated, all_subnets, gateway_map>>
  BY DEF Probe
<1>2. /\ answering' \subseteq Responders
      /\ \A key \in DOMAIN report' : report'[key] \in Option(Nat)
  <2> DEFINE found(i) == [k \in DOMAIN all_subnets |-> in_sweep(k, i)]
             scanned(i) == {k \in DOMAIN found(i) : arp_scanned(k, found(i)[k])}
             most == IF local_interface.mac THEN MaxReplies ELSE 0
             counts(i, r) == [k \in DOMAIN found(i) |-> host_count(k, found(i)[k], r)]
  <2>1. \E i \in SUBSET (Responders \ {find_source_ip(host, request.interface)}) :
           \E r \in [scanned(i) -> 0..most] : answering' = i /\ report' = counts(i, r)
    BY Zenon DEF Probe
  <2>2. most \in Nat
    BY SurveyAssumption
  <2> HIDE DEF most
  <2>3. PICK ips \in SUBSET Responders :
           \E r \in [scanned(ips) -> 0..most] : answering' = ips /\ report' = counts(ips, r)
    BY <2>1
  <2>4. PICK r \in [scanned(ips) -> 0..most] : answering' = ips /\ report' = counts(ips, r)
    BY <2>3
  <2>5. ASSUME NEW key \in DOMAIN report' PROVE report'[key] \in Option(Nat)
    <3>1. key \in DOMAIN all_subnets /\ report'[key] = host_count(key, in_sweep(key, ips), r)
      BY <2>4
    <3>2. arp_scanned(key, in_sweep(key, ips)) => r[key] \in Nat
      BY <2>2, <3>1
    <3> QED
      BY <3>1, <3>2, HostCountTyped
  <2> QED
    BY <2>4, <2>5
<1> QED
  BY <1>1, <1>2 DEF SurveyWorkInv, SurveyTypeOK

LEMMA SurveyWorkNext ==
    ASSUME EveryAddress
    PROVE  StageInv /\ SurveyInv /\ SurveyInv' /\ SurveyWorkInv /\ [Next]_vars => SurveyWorkInv'
<1> SUFFICES ASSUME StageInv, SurveyInv, SurveyInv', SurveyWorkInv, [Next]_vars PROVE SurveyWorkInv'
  OBVIOUS
<1>1. CASE /\ UNCHANGED survey_vars
           /\ stage' \in {"main", "survey", "gateways"} => stage \in {"main", "survey", "gateways"}
  BY <1>1 DEF SurveyWorkInv, SurveyTypeOK, survey_vars
<1>2. CASE SessionMoves /\ UNCHANGED survey_vars
  BY <1>1, <1>2 DEF SessionMoves
<1>3. CASE ScanMoves /\ UNCHANGED survey_vars
  BY <1>1, <1>3 DEF ScanMoves
<1>4. CASE FindInterface /\ stage = "survey"
  <2>1. UNCHANGED survey_vars
    BY <1>4 DEF FindInterface
  <2> QED
    BY <1>1, <1>4, <2>1
<1>5. CASE UNCHANGED vars
  BY <1>1, <1>5 DEF vars, session_vars
<1> QED
  BY <1>2, <1>3, <1>4, <1>5, DetectTyped, InterrogateTyped, NeighboursTyped, ProbeTyped, Moves
     DEF SurveyMoves

\* A device before what it offers is made a set.
Typed(d) ==
    /\ HasFields(d)
    /\ d.ip \in Ips /\ d.mac \in Option(Macs) /\ d.facts \in [Facts -> Option(Values)]
    /\ ToSet(d.services) \subseteq Services /\ d.category \in Option(Categories)

LEMMA TypedIsDevice == ASSUME NEW d, Typed(d) PROVE sighted(d) \in Device
BY DEF Typed, HasFields, sighted, Device

DeviceInv == \A n \in DOMAIN devices : Typed(devices[n])

LEMMA FromSweepTyped == ASSUME NEW ip \in Ips PROVE Typed(from_sweep(ip))
<1>1. ToSet(<<>>) = {}
  BY DEF ToSet
<1> QED
  BY <1>1 DEF Typed, HasFields, from_sweep, Option

LEMMA ListedTyped ==
    ASSUME FoundInv, ScanWorkInv, NEW n \in DOMAIN all_ips
    PROVE  Typed(device(n))
<1> DEFINE d == IF n <= Len(entries) THEN from_entry(entries[n]) ELSE from_sweep(all_ips[n])
           m == IF d.ip \in DOMAIN names THEN names[d.ip] ELSE [hostname |-> NONE, services |-> <<>>]
           vendor == IF d.mac = NONE THEN NONE ELSE oui(d.mac)
           facts == [vendor |-> vendor, hostname |-> m.hostname, os_hint |-> NONE]
<1>1. HasFields(d) /\ d.category = NONE
  BY DEF from_entry, from_sweep, HasFields
<1>2. device(n) = [d EXCEPT !.services = m.services, !.facts = facts]
  BY Zenon DEF device
<1>3. m.hostname \in Option(Values) /\ ToSet(m.services) \subseteq Services
  <2> HIDE DEF d
  <2>1. CASE d.ip \in DOMAIN names
    BY <2>1 DEF ScanWorkInv, ScanTypeOK, Option
  <2>2. CASE d.ip \notin DOMAIN names
    <3>1. m.hostname = NONE /\ m.services = <<>>
      BY <2>2
    <3>2. ToSet(<<>>) = {}
      BY DEF ToSet
    <3> HIDE DEF m
    <3> QED
      BY <3>1, <3>2 DEF Option
  <2> QED
    BY <2>1, <2>2
<1>4. d.mac \in Option(Macs)
  <2>1. CASE n <= Len(entries)
    <3>1. entries[n] \in Replies
      BY <2>1, AllIpsType DEF FoundInv
    <3>2. d.mac = entries[n].mac
      BY <2>1 DEF from_entry, from_sweep
    <3> QED
      BY <3>1, <3>2, ScanAssumption DEF Option
  <2>2. CASE ~ (n <= Len(entries))
    BY <2>2 DEF from_sweep, Option
  <2> QED
    BY <2>1, <2>2
<1> HIDE DEF d, m
<1>5. vendor \in Option(Values)
  BY <1>4, ScanAssumption DEF Option
<1> HIDE DEF vendor
<1>6. facts \in [Facts -> Option(Values)]
  BY <1>3, <1>5, SessionAssumption DEF Option
<1> HIDE DEF facts
<1>7. /\ device(n).mac = d.mac /\ device(n).category = NONE
      /\ device(n).services = m.services /\ device(n).facts = facts
  BY <1>1, <1>2 DEF HasFields
<1>8. device(n).ip \in Ips
  BY DeviceIs, AllIpsType
<1> QED
  BY <1>3, <1>4, <1>6, <1>7, <1>8, DeviceFields DEF Typed, Option

LEMMA PrintedTyped ==
    ASSUME StackInv, stage = "fingerprint", NEW n, Typed(devices[n])
    PROVE  Typed(apply_fingerprint(n))
<1> DEFINE d == devices[n]
           hint == guess_os(parse_stack_fingerprint(stacks[d.ip]))
           e == [d EXCEPT !.facts["os_hint"] = hint]
<1>1. \/ apply_fingerprint(n) = d
      \/ apply_fingerprint(n) = e /\ d.ip \in DOMAIN stacks /\ stacks[d.ip] # NONE
  BY Zenon DEF apply_fingerprint
<1>2. CASE apply_fingerprint(n) = e /\ d.ip \in DOMAIN stacks /\ stacks[d.ip] # NONE
  <2>1. PICK port \in Ports : stacks[d.ip] = stack(d.ip, port)
    BY <1>2 DEF StackInv
  <2>2. hint = guess_os(parse_stack_fingerprint(stack(d.ip, port)))
    BY <2>1
  <2>3. d.ip \in Ips /\ stack(d.ip, port) # NONE
    BY <1>2, <2>1 DEF Typed
  <2>4. hint \in Option(Values)
    BY <2>2, <2>3, StackAssumption
  <2>5. Typed(d) /\ "os_hint" \in Facts
    BY SessionAssumption
  <2> HIDE DEF d, hint
  <2>6. Typed(e)
    BY <2>4, <2>5 DEF Typed, HasFields
  <2> QED
    BY <1>2, <2>6
<1> QED
  BY <1>1, <1>2

LEMMA SortedTyped ==
    ASSUME DeviceInv, ClassifyAndSort
    PROVE  DeviceInv'
<1> DEFINE sorted(d) == [d EXCEPT !.category = classify(evidence(d))]
<1>1. PICK order \in SetToSeqs(DOMAIN devices) :
        devices' = [n \in DOMAIN order |-> sorted(devices[order[n]])]
  BY Zenon DEF ClassifyAndSort
<1>2. \A n \in DOMAIN order : order[n] \in DOMAIN devices
  BY DEF SetToSeqs
<1>3. ASSUME NEW d, Typed(d) PROVE Typed(sorted(d))
  <2>1. classify(evidence(d)) \in Option(Categories)
    BY CategoryType DEF Option
  <2> DEFINE c == classify(evidence(d))
  <2> HIDE DEF c
  <2>2. Typed([d EXCEPT !.category = c])
    BY <1>3, <2>1 DEF c, Typed, HasFields
  <2> QED
    BY <2>2 DEF c
<1> HIDE DEF sorted
<1> QED
  BY <1>1, <1>2, <1>3 DEF DeviceInv, Typed, HasFields

LEMMA ReportTyped ==
    ASSUME FiniteInv, SurveyWorkInv, Probe
    PROVE  \A n \in DOMAIN devices' : Typed(devices'[n])
<1> DEFINE live == {key \in DOMAIN report' : report'[key] \notin {NONE, 0}}
<1>1. devices' = networks(live)
  BY Zenon DEF Probe
<1>2. DOMAIN report' = DOMAIN all_subnets
  <2> DEFINE found(i) == [k \in DOMAIN all_subnets |-> in_sweep(k, i)]
             counts(i, r) == [k \in DOMAIN found(i) |-> host_count(k, found(i)[k], r)]
  <2>1. \E i \in SUBSET (Responders \ {find_source_ip(host, request.interface)}) :
           \E r : answering' = i /\ report' = counts(i, r)
    BY Zenon DEF Probe
  <2> QED
    BY <2>1
<1>3. live \in SUBSET DOMAIN all_subnets
  BY <1>2
<1> HIDE DEF live
<1>4. by_source(live) \in Seq(live)
  BY <1>3, FS_Subset, BySourceType DEF FiniteInv
<1>5. \A key \in live : key[1] \in Ips
  BY <1>3 DEF SurveyWorkInv
<1>6. ASSUME NEW n \in DOMAIN devices' PROVE Typed(devices'[n])
  <2>1. n \in DOMAIN by_source(live) /\ devices'[n] = from_sweep(by_source(live)[n][1])
    BY <1>1 DEF networks
  <2>2. by_source(live)[n] \in live
    BY <1>4, <2>1
  <2> QED
    BY <1>5, <2>1, <2>2, FromSweepTyped
<1> QED
  BY <1>6

LEMMA DeviceNext ==
    FoundInv /\ FiniteInv /\ StackInv /\ ScanWorkInv /\ SurveyWorkInv /\ DeviceInv /\ [Next]_vars
    => DeviceInv'
<1> SUFFICES ASSUME FoundInv, FiniteInv, StackInv, ScanWorkInv, SurveyWorkInv, DeviceInv, [Next]_vars
             PROVE  DeviceInv'
  OBVIOUS
<1>0. \A d : Typed(d)' = Typed(d)
  BY DEF Typed, HasFields
<1>1. CASE UNCHANGED devices
  BY <1>1 DEF DeviceInv, Typed, HasFields
<1>2. CASE ProbeBulk
  <2>1. devices' = [n \in DOMAIN all_ips |-> device(n)]
    BY <1>2 DEF ProbeBulk
  <2>2. \A n \in DOMAIN devices' : Typed(devices'[n])
    BY <2>1, ListedTyped
  <2> QED
    BY <2>2 DEF DeviceInv, Typed, HasFields
<1>3. CASE ApplyFingerprints /\ stage = "fingerprint"
  <2>1. devices' = [n \in DOMAIN devices |-> apply_fingerprint(n)]
    BY <1>3 DEF ApplyFingerprints
  <2>2. \A n \in DOMAIN devices' : Typed(devices'[n])
    BY <1>3, <2>1, PrintedTyped DEF DeviceInv
  <2> QED
    BY <2>2 DEF DeviceInv, Typed, HasFields
<1>4. CASE Probe
  <2>1. \A n \in DOMAIN devices' : Typed(devices'[n])
    BY <1>4, ReportTyped
  <2> QED
    BY <2>1 DEF DeviceInv, Typed, HasFields
<1>5. CASE ClassifyAndSort
  BY <1>5, SortedTyped
<1>6. CASE SessionMoves
  BY <1>1, <1>6 DEF SessionMoves, Dispatch, RecordAndSave
<1>7. CASE UNCHANGED vars
  BY <1>1, <1>7 DEF vars, session_vars
<1> QED
  BY <1>1, <1>2, <1>3, <1>4, <1>5, <1>6, <1>7, Moves DEF ScanMoves, SurveyMoves

\* A series of upserts makes a registry of a registry.
LEMMA UpsertAllTyped ==
    ASSUME NEW recs, IsRegistry(recs), NEW ds, Len(ds) \in Nat, DOMAIN ds = 1..Len(ds),
           \A n \in DOMAIN ds : sighted(ds[n]) \in Device
    PROVE  \A r \in upsert_all(recs, ds) : IsRegistry(r)
<1> DEFINE N == Len(ds)
<1>0. PICK it : IsSeries(recs, ds, it)
  BY SeriesUnfolds
<1>1. /\ it[0] = {recs} /\ upsert_all(recs, ds) = it[N]
      /\ \A n \in Nat : n + 1 <= N =>
            \A r \in it[n + 1] : \E q \in it[n] :
               \E res \in upsert(q, sighted(ds[n + 1]), 0) : r = res.records
  BY <1>0, Zenon DEF IsSeries
<1> DEFINE M == {n \in Nat : n <= N => \A r \in it[n] : IsRegistry(r)}
<1>2. 0 \in M
  BY <1>1
<1>3. ASSUME NEW n \in M PROVE n + 1 \in M
  <2> SUFFICES ASSUME n + 1 <= N, NEW r \in it[n + 1] PROVE IsRegistry(r)
    OBVIOUS
  <2>1. n \in Nat /\ n <= N /\ n + 1 \in DOMAIN ds
    OBVIOUS
  <2>2. PICK q \in it[n] : \E res \in upsert(q, sighted(ds[n + 1]), 0) : r = res.records
    BY <1>1, <2>1
  <2>3. PICK res \in upsert(q, sighted(ds[n + 1]), 0) : r = res.records
    BY <2>2, Zenon
  <2>4. IsRegistry(q)
    BY <2>1
  <2>5. sighted(ds[n + 1]) \in Device /\ 0 \in Times
    BY <2>1, SessionAssumption
  <2> HIDE DEF M, N
  <2> QED
    BY <2>3, <2>4, <2>5, UpsertType
<1> HIDE DEF M
<1>4. M = Nat
  BY <1>2, <1>3, NatSetInduction DEF M
<1> QED
  BY <1>1, <1>4 DEF M

\* The build, and the file.
FileInv == {checked, skips} \subseteq BOOLEAN /\ IsRegistry(disk)

LEMMA FileInit == Init => FileInv
BY SessionAssumption DEF Init, SessionInit, FileInv

LEMMA FileNext == RecordInv /\ DeviceInv /\ FileInv /\ [Next]_vars => FileInv'
<1> SUFFICES ASSUME RecordInv, DeviceInv, FileInv, [Next]_vars PROVE FileInv'
  OBVIOUS
<1>1. UNCHANGED <<checked, skips>>
  BY Moves DEF input_vars
<1>2. IsRegistry(disk')
  <2>1. CASE disk' = disk
    BY <2>1 DEF FileInv
  <2>2. CASE disk' # disk
    <3>1. stage = "record" /\ disk' \in upsert_all(disk, devices)
      BY <2>2, OnlySaves
    <3>2. Len(devices) \in Nat /\ DOMAIN devices = 1..Len(devices)
      BY <3>1 DEF RecordInv, Recordable
    <3>3. \A n \in DOMAIN devices : sighted(devices[n]) \in Device
      BY TypedIsDevice DEF DeviceInv
    <3>4. IsRegistry(disk)
      BY DEF FileInv
    <3> QED
      BY <3>1, <3>2, <3>3, <3>4, UpsertAllTyped
  <2> QED
    BY <2>1, <2>2
<1> QED
  BY <1>1, <1>2 DEF FileInv, IsRegistry

\* A command keeps its data in shape at every step, whatever hosts, datagrams and
\* gateways it meets and whatever earlier commands have recorded: what is named,
\* fingerprinted or waited for is a device that was found, what is probed is a
\* subnet, and what goes into devices.json is a registry again.
THEOREM CommandTypeCorrect == ASSUME EveryAddress PROVE Spec => []TypeOK
<1>1. Init => FiniteInv /\ DeviceInv
  <2>1. Init => DOMAIN all_subnets = {} /\ devices = <<>>
    BY DEF Init, SurveyInit, SessionInit
  <2> QED
    BY <2>1, FS_EmptySet DEF FiniteInv, DeviceInv
<1> DEFINE Inv ==
      /\ StageInv /\ FoundInv /\ PrintInv /\ NamesInv /\ SaidInv /\ StackInv
      /\ SurveyInv /\ FiniteInv /\ RecordInv
      /\ ScanWorkInv /\ SurveyWorkInv /\ DeviceInv /\ FileInv
<1>2. Init => Inv
  BY <1>1, StageInit, FoundInit, PrintInit, NamesInit, SaidInit, SurveyInitInv, RecordInit,
     ScanWorkInit, SurveyWorkInit, FileInit
<1>3. Inv /\ [Next]_vars => Inv'
  <2> SUFFICES ASSUME Inv, [Next]_vars PROVE Inv'
    OBVIOUS
  <2>1. StageInv' /\ FoundInv' /\ PrintInv' /\ NamesInv' /\ SaidInv' /\ StackInv'
    BY StageNext, FoundNext, PrintNext, NamesNext, SaidNext, StackNext
  <2>2. SurveyInv' /\ FiniteInv' /\ RecordInv'
    BY SurveyNext, FiniteNext, RecordNext
  <2>3. ScanWorkInv' /\ SurveyWorkInv'
    BY <2>1, <2>2, ScanWorkNext, SurveyWorkNext
  <2>4. DeviceInv' /\ FileInv'
    BY DeviceNext, FileNext
  <2> QED
    BY <2>1, <2>2, <2>3, <2>4
<1>4. Inv => TypeOK
  <2> SUFFICES ASSUME Inv PROVE TypeOK
    OBVIOUS
  <2>1. \A n \in DOMAIN devices : sighted(devices[n]) \in Device
    BY TypedIsDevice DEF DeviceInv
  <2> QED
    BY <2>1 DEF TypeOK, StageInv, FileInv, ScanWorkInv, SurveyWorkInv
<1> HIDE DEF Inv
<1> QED
  BY <1>2, <1>3, <1>4, PTL DEF Spec
=============================================================================
