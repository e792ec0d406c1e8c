---------------------------- MODULE ProbeProofs ----------------------------
(***************************************************************************)
(* Proofs about what the active probes share and about the probe that is   *)
(* not TCP or ICMP: the allocator of source ports, for any range and any   *)
(* number of threads, and the ARP scan, for any subnet and any waits.      *)
(* Both specifications have their own names and variables.                 *)
(***************************************************************************)
EXTENDS PortAllocator, ArpScan, TLAPS

-----------------------------------------------------------------------------
(***************************************************************************)
(* Source ports.                                                           *)
(***************************************************************************)

LEMMA NextPort == ASSUME NEW c \in Lo..Hi PROVE next(c) \in Lo..Hi /\ next(c) = T!succ(c)
BY PortAssumption DEF next, T!succ

\* A thread about to exchange holds a port it read; a thread that has not
\* returned holds no port.
HoldInv ==
    \A t \in Threads :
        /\ pc[t] = "loaded" => current[t] \in Lo..Hi
        /\ pc[t] = "returned" <=> port[t] # NoPort

PortInv == PortTypeOK /\ HoldInv

LEMMA PortStart == PortInit => PortInv /\ T!Init
BY PortAssumption DEF PortInit, PortInv, PortTypeOK, HoldInv, T!Init

LEMMA PortStep == PortInv /\ [PortNext]_port_vars => PortInv' /\ [T!Next]_<<PORT, port>>
<1> SUFFICES ASSUME PortInv, [PortNext]_port_vars PROVE PortInv' /\ [T!Next]_<<PORT, port>>
  OBVIOUS
<1> USE PortAssumption DEF PortInv, PortTypeOK, HoldInv
<1>1. ASSUME NEW t \in Threads, Load(t) PROVE PortInv' /\ UNCHANGED <<PORT, port>>
  BY <1>1 DEF Load
<1>2. ASSUME NEW t \in Threads, Exchange(t) PROVE PortInv' /\ T!Grant(t)
  <2>1. /\ pc[t] = "loaded" /\ port[t] = NoPort /\ current[t] = PORT
        /\ PORT' = next(PORT) /\ port' = [port EXCEPT ![t] = next(PORT)]
        /\ grants' = Append(grants, next(PORT))
        /\ pc' = [pc EXCEPT ![t] = "returned"] /\ current' = current
    BY <1>2 DEF Exchange
  <2>2. next(PORT) \in Lo..Hi /\ next(PORT) = T!succ(PORT)
    BY NextPort
  <2>3. PortTypeOK'
    BY <2>1, <2>2
  <2>4. HoldInv'
    BY <2>1, <2>2
  <2>5. T!Grant(t)
    BY <2>1, <2>2 DEF T!Grant
  <2> QED
    BY <2>3, <2>4, <2>5
<1>3. ASSUME NEW t \in Threads, Retry(t) PROVE PortInv' /\ UNCHANGED <<PORT, port>>
  BY <1>3 DEF Retry
<1>4. ASSUME NEW t \in Threads, Again(t) PROVE PortInv' /\ T!Return(t)
  BY <1>4 DEF Again, T!Return
<1>5. CASE UNCHANGED port_vars
  BY <1>5 DEF port_vars
<1> QED
  BY <1>1, <1>2, <1>3, <1>4, <1>5 DEF PortNext, T!Next

\* No port outside the range is ever stored or returned, at either end of it.
THEOREM PortTypeCorrect == PortSpec => []PortTypeOK
<1>1. PortInv => PortTypeOK
  BY DEF PortInv
<1> QED
  BY <1>1, PortStart, PortStep, PTL DEF PortSpec

\* The load and compare_exchange loop implements the atomic counter.
THEOREM PortsAtomic == PortSpec => AtomicGrant
BY PortStart, PortStep, PTL DEF PortSpec, AtomicGrant, T!Spec

-----------------------------------------------------------------------------
\* The port d grants before p, for d less than the size of the range.
back(p, d) == IF p - d >= Lo THEN p - d ELSE p - d + RangeSize

\* The grants go round the range: the distance of two of them tells the
\* difference of their ports, and the counter holds the last one.
RingInv ==
    /\ Len(grants) > 0 => PORT = grants[Len(grants)]
    /\ \A m, k \in 1..Len(grants) :
          m < k /\ k < m + RangeSize => grants[m] = back(grants[k], k - m)

LEMMA BackOne == ASSUME NEW c \in Lo..Hi PROVE c = back(next(c), 1)
BY PortAssumption DEF back, next, RangeSize

LEMMA BackMore ==
    ASSUME NEW c \in Lo..Hi, NEW d \in Nat, d + 1 < RangeSize
    PROVE  back(c, d) = back(next(c), d + 1)
BY PortAssumption DEF back, next, RangeSize

LEMMA BackDiffers ==
    ASSUME NEW c \in Lo..Hi, NEW d \in Nat, 0 < d, d < RangeSize
    PROVE  c # back(c, d)
BY PortAssumption DEF back, RangeSize

LEMMA RingStep == PortInv /\ RingInv /\ [PortNext]_port_vars => RingInv'
<1> SUFFICES ASSUME PortInv, RingInv, [PortNext]_port_vars PROVE RingInv'
  OBVIOUS
<1>1. ASSUME NEW t \in Threads, Exchange(t) PROVE RingInv'
  <2> DEFINE n == Len(grants)
  <2>1. /\ PORT' = next(PORT) /\ grants' = Append(grants, next(PORT))
        /\ PORT \in Lo..Hi /\ grants \in Seq(Lo..Hi)
    BY <1>1 DEF Exchange, PortInv, PortTypeOK
  <2>2. /\ n \in Nat /\ Len(grants') = n + 1 /\ grants'[n + 1] = next(PORT)
        /\ \A m \in 1..n : grants'[m] = grants[m]
    BY <2>1
  <2>3. ASSUME NEW m \in 1..n, n + 1 < m + RangeSize
        PROVE  grants[m] = back(next(PORT), n + 1 - m)
    <3>0. RangeSize \in Int
      BY PortAssumption DEF RangeSize
    <3>1. CASE m = n
      <4>1. grants[m] = PORT
        BY <3>1, <2>2 DEF RingInv
      <4> QED
        BY <2>1, <2>2, <3>1, <4>1, BackOne
    <3>2. CASE m < n
      <4>1. grants[m] = back(PORT, n - m)
        BY <2>2, <2>3, <3>0, <3>2 DEF RingInv
      <4>2. n - m \in Nat /\ (n - m) + 1 < RangeSize /\ (n - m) + 1 = n + 1 - m
        BY <2>2, <2>3, <3>0, <3>2
      <4> QED
        BY <2>1, <4>1, <4>2, BackMore
    <3> QED
      BY <2>2, <3>1, <3>2
  <2>4. ASSUME NEW m \in 1..Len(grants'), NEW k \in 1..Len(grants'),
               m < k, k < m + RangeSize
        PROVE  grants'[m] = back(grants'[k], k - m)
    <3>1. CASE k = n + 1
      BY <2>2, <2>3, <2>4, <3>1
    <3>2. CASE k # n + 1
      BY <2>2, <2>4, <3>2 DEF RingInv
    <3> QED
      BY <3>1, <3>2
  <2> QED
    BY <2>1, <2>2, <2>4 DEF RingInv, back, RangeSize
<1>2. CASE UNCHANGED <<PORT, grants>>
  BY <1>2 DEF RingInv, back, RangeSize
<1>3. \A t \in Threads : Load(t) \/ Retry(t) \/ Again(t) => UNCHANGED <<PORT, grants>>
  BY DEF Load, Retry, Again
<1> QED
  BY <1>1, <1>2, <1>3 DEF PortNext, port_vars

\* A port is granted again only after all the others, for ever and across the
\* end of the range.
THEOREM GrantsDistinct == PortSpec => []DistinctInAnyRange
<1>1. PortInit => RingInv
  BY DEF PortInit, RingInv
<1>2. PortInv /\ RingInv => DistinctInAnyRange
  <2> SUFFICES ASSUME PortInv, RingInv, NEW m \in DOMAIN grants, NEW k \in DOMAIN grants,
                      m < k, k < m + RangeSize
               PROVE  grants[m] # grants[k]
    BY DEF DistinctInAnyRange
  <2>1. /\ m \in 1..Len(grants) /\ k \in 1..Len(grants) /\ grants[k] \in Lo..Hi
        /\ RangeSize \in Int
    BY PortAssumption DEF PortInv, PortTypeOK, RangeSize
  <2>2. grants[m] = back(grants[k], k - m)
    BY <2>1 DEF RingInv
  <2>3. k - m \in Nat /\ 0 < k - m /\ k - m < RangeSize
    BY <2>1
  <2> QED
    BY <2>1, <2>2, <2>3, BackDiffers
<1> QED
  BY <1>1, <1>2, PortStart, PortStep, RingStep, PTL DEF PortSpec

-----------------------------------------------------------------------------
(***************************************************************************)
(* The ARP scan.                                                           *)
(***************************************************************************)

\* No timer is overdue and no reply late; the task ends at its hard cap at the
\* latest, which is before the wait for it can end.
TimeInv ==
    /\ phase # "returned" => now <= due
    /\ \A r \in inflight : now <= r[2]
    /\ receiver = "collecting" => now <= HardCap
    /\ phase = "joining" => JoinTimeout <= due
    /\ phase = "returned" => receiver = "closed" /\ result = entries

ArpInv == TypeOK /\ TimeInv

LEMMA ArpInit == Init => ArpInv
BY ArpAssumption DEF Init, ArpInv, TypeOK, TimeInv

LEMMA SendKeeps == ASSUME ArpInv, Send PROVE ArpInv'
<1> USE ArpAssumption DEF ArpInv, TypeOK, TimeInv, receiver_vars
<1>1. wait \in Nat
  BY DEF wait
<1>2. /\ phase' = phase /\ now' = now /\ i \in 1..Blocks /\ i' = i + 1 /\ due' = now + wait
      /\ UNCHANGED <<thread, receiver, last_seen, entries, answered, result>>
      /\ phase \in {"first", "retry"}
  BY DEF Send
<1>3. \/ inflight' = inflight
      \/ i \in Live /\ \E l \in 0..Latency : inflight' = inflight \cup {<<i, now + l, phase>>}
  BY DEF Send
<1>4. \A r \in inflight' : r \in Live \X Nat \X {"first", "retry"} /\ now <= r[2]
  <2>1. CASE inflight' = inflight
    BY <2>1
  <2>2. ASSUME NEW l \in 0..Latency, inflight' = inflight \cup {<<i, now + l, phase>>}, i \in Live
        PROVE  \A r \in inflight' : r \in Live \X Nat \X {"first", "retry"} /\ now <= r[2]
    BY <1>2, <2>2
  <2> QED
    BY <1>3, <2>1, <2>2
<1> QED
  BY <1>1, <1>2, <1>4

LEMMA ReplyKeeps == ASSUME ArpInv, NEW r \in inflight, Reply(r) PROVE ArpInv'
<1> USE ArpAssumption DEF ArpInv, TypeOK, TimeInv, sender_vars
<1>1. /\ r[1] \in Live /\ r[2] = now /\ inflight' = inflight \ {r}
      /\ UNCHANGED <<now, phase, i, due, thread, receiver, result>>
  BY DEF Reply
<1>2. /\ \/ UNCHANGED <<entries, last_seen>>
         \/ receiver = "collecting" /\ entries' = entries \cup {r[1]} /\ last_seen' = now
      /\ answered' \in {answered, answered \cup {r[1]}}
  BY Zenon DEF Reply
<1> QED
  BY <1>1, <1>2

LEMMA ArpNext == ArpInv /\ [Next]_vars => ArpInv'
<1> SUFFICES ASSUME ArpInv, [Next]_vars PROVE ArpInv'
  OBVIOUS
<1> USE ArpAssumption DEF ArpInv, TypeOK, TimeInv, sender_vars, receiver_vars
<1>1. CASE Repeat
  BY <1>1 DEF Repeat
<1>2. CASE Await
  BY <1>2 DEF Await
<1>3. CASE ThreadStops
  BY <1>3 DEF ThreadStops
<1>4. CASE Close
  BY <1>4 DEF Close
<1>5. CASE Return
  <2>1. receiver = "closed"
    BY <1>5 DEF Return
  <2> QED
    BY <1>5, <2>1 DEF Return
<1>6. CASE Tick
  <2>1. receiver = "collecting" => now < HardCap
    BY <1>6 DEF Tick, expired
  <2> QED
    BY <1>6, <2>1 DEF Tick
<1>7. CASE UNCHANGED vars
  BY <1>7 DEF vars
<1> QED
  BY <1>1, <1>2, <1>3, <1>4, <1>5, <1>6, <1>7, SendKeeps, ReplyKeeps DEF Next, Step

\* Times, positions and what is collected have their types, for any subnet, any
\* waits and any deadlines.
THEOREM ArpTypeCorrect == Spec => []TypeOK
<1>1. ArpInv => TypeOK
  BY DEF ArpInv
<1> QED
  BY <1>1, ArpInit, ArpNext, PTL DEF Spec

\* What the task has collected is never thrown away: with a hard cap below the
\* timeout of the wait for it, it ends first, whatever the other waits are.
THEOREM ArpKeepsWhatItHeard == Spec => []NothingDiscarded
<1>1. ArpInv => NothingDiscarded
  BY DEF ArpInv, TimeInv, NothingDiscarded
<1> QED
  BY <1>1, ArpInit, ArpNext, PTL DEF Spec

\* When the last reply to a first request can come in, and what it takes for the
\* first pass to be over by then.
FirstPassEnd == Settle + (Blocks - 1) * SendTime + Latency
FirstPassFits ==
    /\ FirstPassEnd < HardCap
    /\ (Blocks - 1) * SendTime + Latency < Quiet

\* The requests of the first pass go out one after the other, so that their
\* replies come in before the task can close; nothing comes in before Settle.
FirstPassInv ==
    /\ phase = "first" => due = Settle + (i - 1) * SendTime
    /\ phase # "first" => Settle <= now
    /\ \A r \in inflight : Settle <= r[2] /\ (r[3] = "first" => r[2] <= FirstPassEnd)
    /\ last_seen # NONE => Settle <= last_seen
    /\ receiver = "closed" => FirstPassEnd < now
    /\ answered \subseteq entries

LEMMA Products ==
    ASSUME NEW a \in Nat, NEW b \in Nat, NEW c \in Nat, a <= b
    PROVE  a * c \in Nat /\ b * c \in Nat /\ a * c <= b * c /\ (a + 1) * c = a * c + c
<1>1. a * c \in Nat /\ b * c \in Nat /\ (a + 1) * c = a * c + c
  OBVIOUS
<1>2. b - a \in Nat /\ (b - a) * c \in Nat
  OBVIOUS
<1>3. b * c = a * c + (b - a) * c
  OBVIOUS
<1> QED
  BY <1>1, <1>2, <1>3

LEMMA FirstPassTime ==
    ASSUME ArpInv
    PROVE  /\ FirstPassEnd \in Nat
           /\ (i - 1) * SendTime \in Nat /\ i * SendTime = (i - 1) * SendTime + SendTime
           /\ i <= Blocks => Settle + (i - 1) * SendTime + Latency <= FirstPassEnd
<1> DEFINE last == (Blocks - 1) * SendTime
           next_ == (i - 1) * SendTime
<1>1. /\ Blocks - 1 \in Nat /\ i - 1 \in Nat /\ SendTime \in Nat /\ Settle \in Nat /\ Latency \in Nat
      /\ (i - 1) + 1 = i /\ (i <= Blocks => i - 1 <= Blocks - 1)
  BY ArpAssumption DEF ArpInv, TypeOK
<1>2. last \in Nat /\ next_ \in Nat /\ i * SendTime = next_ + SendTime
  BY <1>1, Products
<1>3. i <= Blocks => next_ <= last
  BY <1>1, Products
<1> HIDE DEF last, next_
<1>4. FirstPassEnd = Settle + last + Latency
  BY Zenon DEF FirstPassEnd, last
<1>5. /\ FirstPassEnd \in Nat
      /\ next_ \in Nat /\ i * SendTime = next_ + SendTime
      /\ i <= Blocks => Settle + next_ + Latency <= FirstPassEnd
  BY <1>1, <1>2, <1>3, <1>4
<1> QED
  BY <1>5, Zenon DEF next_

LEMMA SendKeepsFirst == ASSUME ArpInv, FirstPassInv, Send PROVE FirstPassInv'
<1> DEFINE next_ == (i - 1) * SendTime
<1>1. /\ phase' = phase /\ now' = now /\ now = due /\ i \in 1..Blocks /\ i' = i + 1 /\ due' = now + wait
      /\ UNCHANGED <<receiver, last_seen, entries, answered>>
      /\ phase \in {"first", "retry"}
      /\ {now, due, Settle, SendTime, Latency} \subseteq Nat
  BY ArpAssumption DEF Send, ArpInv, TypeOK, receiver_vars
<1>2. /\ FirstPassEnd \in Nat /\ next_ \in Nat /\ i * SendTime = next_ + SendTime
      /\ Settle + next_ + Latency <= FirstPassEnd
  BY <1>1, FirstPassTime
<1>3. FirstPassEnd' = FirstPassEnd /\ (i' - 1) * SendTime = i * SendTime
  <2>1. i' - 1 = i
    BY <1>1
  <2> QED
    BY <2>1 DEF FirstPassEnd
<1>4. phase = "first" => due = Settle + next_ /\ wait = SendTime
  BY DEF FirstPassInv, wait
<1> HIDE DEF next_
<1>5. /\ Settle <= now
      /\ phase' = "first" => due' = Settle + (i' - 1) * SendTime
  <2>1. CASE phase = "first"
    BY <1>1, <1>2, <1>3, <1>4, <2>1
  <2>2. CASE phase # "first"
    BY <1>1, <2>2 DEF FirstPassInv
  <2> QED
    BY <2>1, <2>2
<1>6. \A r \in inflight' : Settle <= r[2] /\ (r[3] = "first" => r[2] <= FirstPassEnd)
  <2>1. \/ inflight' = inflight
        \/ \E l \in 0..Latency : inflight' = inflight \cup {<<i, now + l, phase>>}
    BY Zenon DEF Send
  <2>2. \A r \in inflight : Settle <= r[2] /\ (r[3] = "first" => r[2] <= FirstPassEnd)
    BY DEF FirstPassInv
  <2>3. CASE inflight' = inflight
    BY <2>2, <2>3
  <2>4. ASSUME NEW l \in 0..Latency, inflight' = inflight \cup {<<i, now + l, phase>>}
        PROVE  \A r \in inflight' : Settle <= r[2] /\ (r[3] = "first" => r[2] <= FirstPassEnd)
    <3>1. Settle <= now + l /\ (phase = "first" => now + l <= FirstPassEnd)
      BY <1>1, <1>2, <1>4, <1>5
    <3> QED
      BY <2>2, <2>4, <3>1
  <2> QED
    BY <2>1, <2>3, <2>4
<1> QED
  BY <1>1, <1>3, <1>5, <1>6 DEF FirstPassInv

LEMMA ReplyKeepsFirst == ASSUME ArpInv, FirstPassInv, NEW r \in inflight, Reply(r) PROVE FirstPassInv'
<1>1. /\ r[2] = now /\ inflight' = inflight \ {r} /\ FirstPassEnd' = FirstPassEnd
      /\ UNCHANGED <<now, phase, i, due, thread, receiver>>
  BY DEF Reply, sender_vars, FirstPassEnd
<1>2. /\ Settle <= now /\ (r[3] = "first" => now <= FirstPassEnd)
  BY <1>1 DEF FirstPassInv
<1>3. r[3] = "first" => receiver = "collecting"
  <2>1. FirstPassEnd \in Nat /\ now \in Nat /\ receiver \in {"collecting", "closed"}
    BY FirstPassTime DEF ArpInv, TypeOK
  <2>2. receiver = "closed" => FirstPassEnd < now
    BY DEF FirstPassInv
  <2> QED
    BY <1>2, <2>1, <2>2
<1>4. CASE thread = "listening" /\ receiver = "collecting"
  <2>1. entries' = entries \cup {r[1]} /\ last_seen' = now
        /\ answered' \subseteq answered \cup {r[1]}
    BY <1>4 DEF Reply
  <2> QED
    BY <1>1, <1>2, <2>1 DEF FirstPassInv
<1>5. CASE ~ (thread = "listening" /\ receiver = "collecting")
  <2>1. UNCHANGED <<entries, last_seen, answered>>
    BY <1>3, <1>5 DEF Reply
  <2> QED
    BY <1>1, <2>1 DEF FirstPassInv
<1> QED
  BY <1>4, <1>5

LEMMA FirstPassNext ==
    ASSUME FirstPassFits PROVE ArpInv /\ FirstPassInv /\ [Next]_vars => FirstPassInv'
<1> SUFFICES ASSUME ArpInv, FirstPassInv, [Next]_vars PROVE FirstPassInv'
  OBVIOUS
<1> USE DEF sender_vars, receiver_vars
<1>0. /\ FirstPassEnd' = FirstPassEnd /\ FirstPassEnd \in Nat
      /\ {now, due, Settle, HardCap, Quiet, Latency, Pause} \subseteq Nat
      /\ last_seen \in Nat \cup {NONE}
  BY FirstPassTime, ArpAssumption DEF FirstPassEnd, ArpInv, TypeOK
<1>1. CASE Repeat
  <2>1. (i - 1) * SendTime \in Nat /\ due = Settle + (i - 1) * SendTime
    BY <1>1, FirstPassTime DEF Repeat, FirstPassInv
  <2>2. Settle <= now
    BY <1>0, <1>1, <2>1 DEF Repeat
  <2> QED
    BY <1>0, <1>1, <2>2 DEF Repeat, FirstPassInv
<1>2. CASE Await \/ ThreadStops \/ Return
  <2>1. /\ UNCHANGED <<now, i, inflight, receiver, last_seen, entries, answered>>
        /\ (phase # "first" /\ phase' # "first") \/ (phase' = phase /\ due' = due)
    BY <1>2 DEF Await, ThreadStops, Return
  <2> QED
    BY <1>0, <2>1 DEF FirstPassInv
<1>3. CASE Close
  <2>1. /\ UNCHANGED <<now, phase, i, due, inflight, last_seen, entries, answered>>
        /\ expired
    BY <1>3 DEF Close
  <2>2. FirstPassEnd < now
    <3>1. CASE now >= HardCap
      BY <1>0, <3>1 DEF FirstPassFits
    <3>2. CASE last_seen # NONE /\ now >= last_seen + Quiet
      <4> DEFINE last == (Blocks - 1) * SendTime
      <4>1. last \in Nat
        BY ArpAssumption, Products
      <4>2. last + Latency < Quiet /\ FirstPassEnd = Settle + last + Latency
        BY Zenon DEF FirstPassFits, FirstPassEnd
      <4> HIDE DEF last
      <4>3. Settle <= last_seen
        BY <3>2 DEF FirstPassInv
      <4> QED
        BY <1>0, <3>2, <4>1, <4>2, <4>3
    <3> QED
      BY <2>1, <3>1, <3>2 DEF expired
  <2> QED
    BY <1>0, <2>1, <2>2 DEF FirstPassInv
<1>4. CASE Tick
  BY <1>0, <1>4 DEF Tick, FirstPassInv
<1>5. CASE UNCHANGED vars
  BY <1>0, <1>5 DEF vars, FirstPassInv
<1> QED
  BY <1>1, <1>2, <1>3, <1>4, <1>5, SendKeepsFirst, ReplyKeepsFirst DEF Next, Step

\* If the first pass and the answers to it fit before the deadlines of the task,
\* every host whose reply to the first request came in is reported, for any number
\* of hosts, and however replies are timed, lost or cut off by a failing socket.
THEOREM ArpReportsTheFirstPass ==
    ASSUME FirstPassFits PROVE Spec => []FirstPassReported
<1>1. Init => FirstPassInv
  <2>1. (1 - 1) * SendTime = 0
    BY ArpAssumption
  <2> QED
    BY <2>1, ArpAssumption DEF Init, FirstPassInv
<1>2. ArpInv /\ FirstPassInv => FirstPassReported
  BY DEF ArpInv, TimeInv, FirstPassInv, FirstPassReported
<1> QED
  BY <1>1, <1>2, ArpInit, ArpNext, FirstPassNext, PTL DEF Spec
=============================================================================
