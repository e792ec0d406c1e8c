# gannet: TLA+ models, checks and proofs

gannet is a local network scanner written in Rust: it finds the hosts of a
subnet (ARP, ICMP and TCP probes, passive listening, mDNS), describes them
(vendor, host name, operating system, services, category) and keeps what it
knows in a JSON registry, `devices.json`.  The modules in this directory model
the parts of it that keep state, run concurrently, or decide.  TLC checks them on small
instances; TLAPS proves their safety properties for all values of the constants.

Paths below are relative to the repository's `src/` directory (`store.rs` is
`src/identity/store.rs` there, and so on); `PROJECT.json` maps every definition
to its lines.

## 1. The system

| component | state | operations | interacts with |
|---|---|---|---|
| identity store (`identity/store.rs`) | map from key (`mac:` or the address) to record | `upsert`, `set_tag`, `get`, `all` | called by scan, survey, listen, tag, list |
| registry file (`store.rs` `load`/`save`) | `devices.json` | read, truncate, write | shared without a lock by all commands |
| passive listener (`discovery/passive.rs`) | tier, `seen` sets, two channels, `seen_local`, the registry, a shutdown flag | three producer threads, a select loop, Ctrl-C | upserts and saves at every event |
| ARP scan (`discovery/arp.rs`) | a receiver task with two deadlines, a reader thread | two passes of requests, collection, join with timeout | first step of scan |
| ICMP/TCP sweep (`discovery/sweep.rs`) | a task per address, 256 permits, a shared result set, a port counter | probes, joins, result | second step of scan |
| source ports (`sweep.rs`, `fingerprint.rs`) | two static atomics | `next_probe_port`, `next_src_port` | called from many threads |
| DNS parsing (`discovery/mdns.rs`, `passive.rs`) | position, visited set, loop counters | `decode_label`, `parse_mdns_records`, `parse_mdns_for_services` | reads packets from the network |
| mDNS resolution (`mdns.rs`) | a task and three query threads per host, a map by address | `query_ip`, `resolve_bulk` | third step of scan |
| fingerprinting (`discovery/fingerprint.rs`) | a task per host, a closure per port in the blocking pool, a deadline of 3 s | `probe_bulk`, `probe_syn`, `guess_os` | fourth step of scan |
| scan and survey (`cli/commands.rs`), command line (`main.rs`) | list of devices of the run | the pipeline, then upserts and a save | all of the above |
| survey (`discovery/survey.rs`) | maps from subnet to source and to gateway | gateway detection, UPnP, neighbours, probes, report | runs sweeps and ARP scans |
| interfaces (`net/interface.rs`) | none; asks the host each time | choice of interface, source address, subnet | every command |
| classification (`identity/classify.rs`) | none | a decision by tables of keywords | scan |
| tags (`namer.rs`), vendors (`oui.rs`) | none | pure functions | upsert, scan, listen |

What is hard here, and hardly reached by a test:

- identity over a long sequence of sightings: hosts that change address, take
  over each other's address, are seen now with and now without a MAC; `upsert`
  picks *any* record last seen at the address (a `HashMap` has no order);
- the file: commands that overlap, die, or fail between truncation and the end
  of the write; a file that cannot be parsed is loaded as an empty registry;
- the listener: three kinds of threads, two channels read by a `select!` that
  picks at random, saves that fail, a shutdown flag that is read only when the
  channels are idle;
- timeouts: the receiver of the ARP scan stops 2.5 s after the last reply while
  requests are still being sent; the wait for it has a timeout of its own;
- threads that are not joined: probe threads outlive the probe they belong to,
  read the same raw traffic as later ones, and must not hold the result set;
- counters that wrap while a thread still holds an old value of them;
- bytes from the network: names with pointers in circles, counts and lengths
  that lie;
- the pipeline of a scan: hundreds of tasks that end in any order, panic or run
  late, and whose results meet again by address, while two hosts may claim one;
- the survey: three sources that propose subnets, gateways that tell anything,
  replies of one subnet that are heard by the scan of another;
- address arithmetic at its edges: prefixes 0 and 32, octets 0 and 255.

`PROJECT.json` lists each of these hazards with its line and the properties that
would show it going wrong.

What makes each component correct: the store never files a record under a wrong
key and never forgets what it knows; the file holds what successful saves wrote;
the listener loses nothing it has captured and always stops; the two scans
report who answered, nobody else as far as ports can tell, and always return; the allocator never hands out a
port that is in use; the parsers never index beyond a packet and do work bounded
by its length; scan probes the subnet it was asked for, credits every result to
the host it came from and keeps what it found; survey proposes the right subnets
and reports only those that answered; both end whatever fails, but for a gateway
that keeps a survey reading.

## 2. Modules

| module | models | uses |
|---|---|---|
| `Options` | Rust's `Option` | |
| `StoreOps` | `upsert`, `set_tag` and their helpers, as operators on a map | `Options` |
| `Store` | the registry under any sequence of upserts and taggings | `StoreOps` |
| `Ledger` | abstract: a set of edits that grows atomically until it is spoiled | |
| `RegistryFile` | `devices.json` and the processes that share it | refines `Ledger` |
| `Listener` | `gannet listen` | `StoreOps` |
| `TicketCounter` | abstract: an atomic counter that goes round a range | |
| `PortAllocator` | `next_probe_port`, `next_src_port` | refines `TicketCounter` |
| `Sweep` | `sweep_subnet`, `probe_host`, the probes | |
| `ArpScan` | `scan_subnet`, `receive_arp_responses`, in discrete time | |
| `DnsName` | `decode_label` | |
| `DnsMessage` | the two message parsers | what `DnsName` shows of a name |
| `Subnet` | masks, blocks and order of IPv4 addresses | |
| `Interface` | choice of interface, source address and subnet | `Options`, `Subnet` |
| `Classify` | `classify` with its tables, `guess_os` | `Options` |
| `Session` | what scan and survey share: host, command line, dispatch, registry part | `StoreOps`, `Interface` |
| `Scan` | `gannet scan`: the pipeline, `resolve_bulk`, `probe_bulk` | `Session`, `Classify` |
| `Survey` | `gannet survey` | `Session` |
| `Gannet` | one invocation of either | `Scan`, `Survey` |
| `MC*` | values of the constants for TLC | |
| `*Proofs` | theorems | |

**Store.** A record has the fields of `Record`; vendor, host name and OS are one
function `facts`, address and service lists are sets (the code never repeats an
element).  A key is tagged as a MAC's or an address's, so the two never
coincide.  `upsert` is a *set* of outcomes, one for each record that
`existing_by_ip` may find; `touch` is the `entry().or_insert_with()` path,
`adopt` the remove / re-key / `insert_record` path.  The clock is any member of
`Times` at each call, so it may step back.  `returned`, `sightings` and
`macless` record what the properties talk about.

**RegistryFile.** A registry is the set of edits made to it.  A save is two
steps, `Truncate` and `Write`, since `std::fs::write` opens with truncation and
then writes; if another process wrote in between, the result is the new text or
an unparsable mixture.  `FailToOpen`, `FailToWrite` and `Crash` are the faults;
`Load` may happen while other commands run.  `overlapped` and `wiped` record
whether commands overlapped and whether a fault hit the window.

**Listener.** `threads` gives the producers of each tier; `Sniff`, `Poll`,
`Receive` and `Announce` are what they do with one frame, table entry or packet;
`HandleEntry`, `SkipEntry`, `HandleService`, `DropService` are the arms of the
select loop, including the trailing `upsert` and `save`; `Wait` and `Timeout`
are its 500 ms sleep, `Join` the end.  A frame is what its headers say; a packet
is the services parsed from it.

**PortAllocator.** `Load`, `Exchange` (Ok) and `Retry` (Err) are the atomic
operations of the loop, per thread.  The range is a parameter: 51000..60000 for
the sweep, 43210..50000 for the fingerprints.

**Sweep.** One action for each step of a task (`Acquire`, `JoinIcmp`, `JoinTcp`,
with `finish` for the end of the closure), of a probe (`IcmpProbe`, `TcpStart`,
`TcpTimeout`), for a segment that arrives (`Answer`, `Stray`), and for the caller
(`Return`).  A segment reaches every TCP probe that is still running, as it does
in the kernel, and is matched by its ports alone, as in the code: whoever sent
it.  `Answer` is an answer to a probe of this sweep, in time or late; `Stray` is
any other RST or SYN+ACK the machine receives, for another process (whose
ephemeral ports overlap 51000 to 60000) or another sweep, with any ports.
`OthersTake` is a probe of another sweep that takes a port: `survey` runs one per
subnet on the same counter.  `skips` says
whether the packet iterator skips the IP header on a Layer4 channel; the
vendored `pnet_transport` does (`vendor/pnet_transport/src/lib.rs:338-353`).

**ArpScan.** Time is a counter; `Tick` lets it pass when nothing is due.  `Send`,
`Repeat`, `Await` are the sender, `Reply` and `Close` the receiver, `Return` the
join.

**DnsName, DnsMessage.** `reach` is the end of the bytes that were indexed so
far; an index or slice beyond the packet would be a panic.  `DnsName` works on
concrete bytes; in `DnsMessage` a value read from the message is an arbitrary
choice, and `decode_label` is what `DnsName` shows of it (it fails, or returns a
position after its argument and within the message).

**Subnet, Interface.** An address is its four octets, and a mask is a number of
leading bits, taken octet by octet.  `1u32 << (32 - prefix)` overflows for prefix
0: `overflows` marks the case, a panic in a build with overflow checks and a mask
of all 32 bits in one without (`checked` is part of a session).  A host shows what
`pnet` enumerates and what `/sys/class/net` and the two tools show; the lookups
are functions of that.

**Classify.** Every chain of `contains` is a table of keyword sets and decisions;
a text is the set of keywords it contains.  `guess_os` is its list of rules with
their scores.

**Session, Scan, Survey, Gannet.** `stage` is how far the command has come.  In
`Scan` the ARP scan and the sweep are one step each with any result they may have
(`ArpScan` and `Sweep` say how it comes about).  `ResolveBulk` spawns a task per
host, `Query` ends its query with whatever the three threads may have heard or
with a panic, `Join` files its result; `ProbeBulk` hands a closure per host and
port to a pool of `BlockingThreads`, `StartJob` and `EndJob` are those closures,
`GiveUp` is the deadline, which can only be missed by a closure that had to wait
for a thread; `answered` records whose SYN+ACK reached a closure started at once,
whether or not `wait_syn_ack` recognises it; `ApplyFingerprints` and `ClassifyAndSort` finish the list and
`RecordAndSave` is the registry part, with a save that may fail.  In `Survey`,
`DetectGateways`, `Interrogate` (the end of one gateway's answers, which need not
come) and `AddNeighbours` are the three layers, and `Probe` the sweeps, ARP scans and the report.  The two
commands share `Session`'s variables; `Gannet` is their composition.  A session
starts with a `devices.json` that earlier commands have written, which `Store`
shows to file its records under their own keys.

## 3. Runs

| run | shows | size |
|---|---|---|
| `store` | key, MAC, last address and history agree (`IdentityInv`); no step forgets anything but a record that a promotion replaces (`RecordsEvolve`); while all sightings carry a MAC, no address is claimed twice (`UniqueLastIp`) and no sighting is lost (`EverySightingCounted`) | 1.2 M states, 1 min |
| `category_lost` | **violated**: a known category survives merges | |
| `registry_file` | no load returns a mixture of registries (`CausallyClosed`); saved edits are lost only by an overlap or a fault in the window (`LostOnlyByWipe`); until then the file is an atomic ledger (`CommitsAtomically`) | 120 k, 6 s |
| `listen` | nothing recorded stays unsaved (`DiskIsCurrent`); captured addresses stay known (`CapturedIsKnown`) | 2.3 M, 70 s |
| `listen_live` | Ctrl-C ends threads and loop (`ShutdownCompletes`); services of known hosts are recorded (`ServiceRecorded`) | 15 k, 12 s |
| `ports` | the loop is an atomic counter (`AtomicGrant`); no port is granted again before the others (`DistinctInAnyRange`) | seconds |
| `sweep` | no panic in `Arc::try_unwrap` (`NoPanic`); until the counter has gone round, whoever is reported answered a probe of its own, or a segment of other traffic had the very ports of one (`CreditedByPorts`); whom a probe heard is reported (`HeardAreFound`); the sweep returns (`SweepReturns`) | 806 k, 75 s |
| `sweep_vendored` | **violated**: hosts that answer a SYN are found | |
| `arp_scan` | whoever answers the first request is reported (`FirstPassReported`); the join never times out, since it waits longer than the hard cap of the task (`NothingDiscarded`); the scan returns (`ScanReturns`) | 3.7 k, seconds |
| `dns_name` | no read beyond the packet, exactly the well-formed names, termination | 141 k, 36 s |
| `dns_message` | no read beyond the message, work bounded by its length | 109 k, 3 s |
| `commands` | the hosts of the subnet that was asked for are probed, bit by bit, and nobody else (`SubnetCovered`); a panicking query costs no other host its name (`NamesSurviveFailures`); names, services and fingerprints reach the host they came from (`DescribedByItself`); with a pnet that shows the protocol, a host that answers in time a probe started at once is fingerprinted, also if the pool is too small for all probes (`AnsweredIsFingerprinted`); the strongest evidence decides the category (`StrongestEvidenceDecides`, STATUS.md:82); what was found is in the registry (`FoundIsKept`) and earlier hosts stay there (`SavedHostsStay`); survey proposes exactly the neighbours (`NeighboursProposed`), probes no address twice unless UPnP told of the subnet (`OverlapOnlyByUpnp`) and calls live only what answered (`LiveMeansAnswered`); a command ends, or waits for ever for a gateway's UPnP response (`CommandReturns`) | 57 k, 1.75 min |

The type invariants of the store, the registry file, the ports and the DNS
parsers, and two more properties (`ReturnedIsCurrent`, `Advances`), hold by
theorem and are not part of the runs.

**Bounds, and why they are enough.**

- `store`: two MACs, three addresses, four upserts, any number of taggings.  The
  worst known case (a record replaced by a promotion) takes three upserts, and
  every record involved in one upsert is either the one of its MAC or last seen
  at its address: two hosts and a third address to move to cover all the
  combinations.  Sightings that describe the host are confined to one address;
  the descriptive fields are merged independently of each other.
- `registry_file`: three processes (one a listener) and three edits: one to
  lose, one under way, one on top.
- `listen`: four receptions over nine kinds of frames, three table entries and
  three packets, from an empty registry and from one that knows a host at
  another's address.  `listen_live` uses a smaller network and no failing saves:
  liveness needs one host that is known and one that is not.
- `ports`: three threads, three ports, seven grants: more than two turns of the
  range, so that a stale value comes round again.
- `sweep`: two targets that answer an echo request, of which one answers a SYN,
  two TCP ports each, one permit, four source ports, of which another sweep may
  take one: the counter wraps, also while the ports taken still fit in the range.
  `sweep_vendored` has no other sweep and two targets that answer a SYN.
- `arp_scan`: a tick is 250 ms and a block 125 addresses (2 ms each); the eight
  blocks of the run are a /22, with sends that take no time.  The waits are the code's, in whole ticks:
  100 ms to settle and 3 ms per retried address (both rounded up), 1.5 s pause,
  2.5 s quiet, 10 s in all, 11 s for the join.
  `FirstPassReported` is the reason for the size: beyond a /22 the first pass
  takes longer than the 2.5 s quiet window, and a subnet whose only early host
  answers at once can close the receiver before its last blocks are asked.  A
  host that answers only the retry is not promised anything: the window may be
  over by then.
- `dns_name`: all packets of up to five bytes over end-of-name, labels of one to
  three bytes and two pointer bytes, which give self-loops, mutual loops,
  forward and outside pointers and truncated labels.
- `dns_message`: messages of 0 to 40 bytes, counts 0, 1 and 9 (more than fit),
  record lengths that fit, are cut off, or are 65535.

- `commands`: a /24 with an address conflict, a host only the sweep finds and one
  of another network whose ARP replies are heard all the same; at most two devices
  per scan (every property relates two results, or one result and one failure),
  two datagrams per socket, two ports and a pool of three threads, one less than
  the closures of two hosts: with two hosts one closure comes late, with one none.  The sessions combine privileged and unprivileged
  hosts, `ip` and `ifconfig`, tunnels without a MAC, prefixes 0, 16, 22, 24, 28,
  30 and 33, builds with and without overflow checks, both views of a packet (see
  `Sweep`), and registries that are empty, know a host at another's address, or
  hold a record without a MAC.  Survey hears any subset of four frames around a
  gateway that has no UPnP, tells a public address, routers, or an empty mask; its
  sessions have a local 192.168.1.0/24, a 10.9.0.0/24 (third octet at its edge, one
  neighbour that is also a usual private subnet), a second octet of 255, and
  prefixes 16 and 28.

Deadlock checking is off where the system may stop: all these models have final
states (a scan that returned, a listener that stopped) or a bound on inputs.

**Fairness.** `listen_live`: every producer thread is scheduled and returns from
its receive (`sniff_raw` has a read timeout, the mDNS socket is non-blocking,
the table is finite), and the runtime polls the select loop; nothing is assumed
about what the network sends.  `sweep`: each task and its threads make progress,
since every wait of a probe has a deadline and tokio's semaphore is fair; answers
are not assumed.  `arp_scan`: timers fire and runnable tasks run; the socket need
not fail, nor anybody answer.  `dns_name`: the loop runs.  `commands`: weak
fairness of every step but one: the runtime does not stop, and a command takes
finitely many steps, since every query, probe and task has a deadline and is
waited for once, and the programs that `net/interface.rs` runs are supposed to end.
The exception is the end of a gateway's UPnP response (`Interrogate`, the only step
that changes `interrogated`): `read_to_string` (`survey.rs:240`) has a timeout for
each read and none over all, and `survey` calls it on its own way (`survey.rs:567`),
so nothing in the code makes it come.  `CommandReturns` therefore ends in one of two
ways, and TLC finds the second one if it is left out.

## 4. Proofs

| module | theorems | inductive invariants |
|---|---|---|
| `StoreProofs` | `StoreTypeCorrect`, `IdentityCorrect`, `ReturnedCorrect`, `UniqueCorrect`, `EvolutionCorrect`, `SightingsCounted`: all of run `store`, types, and that `upsert` returns a current record | `StoreInv`: types, and every record sound (`AllSound`) |
| `RegistryFileProofs` | `FileTypeCorrect`, `ClosedCorrect`, `LossCorrect`, `RefinesLedger`: types and all of run `registry_file`, the refinement included | `ClosedInv`; `AtomicInv` |
| `ListenerProofs` | `ListenerTypeCorrect`, `ListenerSaves`, `ListenerRemembers`: all of run `listen` | `TypeInv`; `KnownInv` |
| `SweepProofs` | `SweepTypeCorrect`, `SweepNeverPanics`, `SweepKeepsWhatItHeard`, `SweepCreditsByPorts`: the safety of run `sweep` | `Inv` (`CountInv`, `StageInv`); `RangeInv` |
| `ProbeProofs` | `PortTypeCorrect`, `PortsAtomic`, `GrantsDistinct`: types and all of run `ports`, the refinement included; `ArpTypeCorrect`, `ArpKeepsWhatItHeard`, `ArpReportsTheFirstPass`: the safety of run `arp_scan` | `PortInv`; `RingInv`; `ArpInv`; `FirstPassInv` |
| `DnsNameProofs` | `NameTypeCorrect`, `NameInBounds`, `NameAdvances`, `NameDecodedExactly`: types, progress and the safety of run `dns_name` | `Bounds`, `Ending`, `Walk` |
| `DnsMessageProofs` | `MessageTypeCorrect`, `MessageInBounds`, `MessageWorkBounded`: types and all of run `dns_message` | `Position` |
| `GannetProofs`, scan | `SubnetIsCovered`, `NamesSurvive`, `AnsweredHostsArePrinted`, `DevicesDescribeThemselves`, `StrongestDecides` | `SubnetInv`; `NamesInv`; `PrintInv`; `SaidInv`, `StackInv`, `DescribedInv`; `CategoryInv` |
| `GannetProofs`, survey | `NeighboursAreProposed`, `SubnetsOverlapOnlyByUpnp`, `LiveSubnetsAnswered` | `SurveyInv` |
| `GannetProofs`, registry | `DevicesAreKept`, `HostsStay` | `RecordInv` |
| `GannetProofs`, types | `CommandTypeCorrect` | `ScanWorkInv`; `SurveyWorkInv`; `DeviceInv`, `FileInv` |

The assumptions are the named ASSUMEs of the modules: constants have their types,
`NONE` is not a member of the sets it stands apart from, ranges are not empty.
TLC evaluates them in every run.  Three theorems have a hypothesis of their own,
and each is a fact about this program or the very limit of it: `FirstPassReported` that the first pass and its answers fit before the deadlines of the receiver
(`FirstPassFits`: the first pass of a subnet of n hosts takes 2n ms, so the 2.5 s
quiet window ends it at about a thousand); `CapturedIsKnown` that every record of the file is of a host
with a MAC (`HostsOnly`), since a promotion may replace one of a host without; the types of a
command that the addresses considered are all there are (`EveryAddress`), since
the base of a subnet and a guessed neighbour are computed, and may be any.

- *Store.* `IdentityInv` alone is not inductive record by record; `Sound` adds
  that a record without a MAC has exactly the address it is keyed by as its
  history.  `UpsertShape` reduces every outcome of `upsert` to one of two
  shapes, "touched its own record" or "adopted a record last seen at the
  address"; `TouchEffect` and `AdoptEffect` say what each does to the map, and
  the theorems use only these.  `EverySightingCounted` is about a sum over the
  map: one record's counter goes up by one, or a new record starts at one, and
  `SumBump` and `SumRemove` say what that does to a sum (see *Induction* below).
- *RegistryFile.* For `CausallyClosed` the registries in memory must be closed
  too, since the file is a copy of one of them.  For the other two, as long as
  nothing has overlapped or wiped the file: at most one command is active
  (`Solo`), the file is what it loaded (`BaseKept`), and what was acknowledged is
  in the file or in the memory of the one command that is rewriting it (`Kept`).
  The refinement maps a file under truncation to the registry its writer
  started from.
- *Listener.* Extends the store: `UpsertEffect`, `UpsertType` and
  `UpsertRemembers` are all it needs to know about an upsert.  (The definitions
  of `Store` and `PortAllocator` have names of their own so that other
  specifications can stand on their proofs.)  `KnownInv` adds to `CapturedIsKnown`
  what is still in the hands of a thread or in a channel.
- *Sweep.* `try_unwrap` succeeds when every clone of the `Arc` is gone: `CountInv`
  says that permits and reference count are what the tasks hold, and the
  caller gets there only when all of them are done.  `StageInv` says that the
  threads a finished task was waiting for have ended, or one of them put the
  target into the result.  `PortInv` says that the ports of the probes that have
  started are the last ones of the ring, all different while they and those other sweeps took fit in it (`Older`: a
  port taken longer ago lies further behind the counter): an answer matched by its
  ports alone belongs to its probe, and what is left are the strays, which
  `CreditedByPorts` names.  It has no hypothesis on the number of probes; once more
  ports are taken than the range has (9001: two probes each for the hosts of a /20,
  or of seventeen /24s of a survey), it says nothing any more.
- *ArpScan.* Time: `ArpInv` bounds what every deadline may be, `NothingDiscarded`
  follows from the hard cap being before the end of the join.  (With a join that
  ends *with* the cap the proof fails: a reply at that very instant is lost.  The
  code's 11 s and 10 s are apart, and `ArpAssumption` asks for that.)  For
  `FirstPassReported`, replies to the first request are heard within the latency
  after the request, and that is before the receiver may close.
- *PortAllocator.* `HoldInv` says that a thread about to exchange holds a port of
  the range; the grants form a ring (`RingInv`: within a turn of the range, a
  grant lies as many ports behind a later one as there were grants in between),
  from which distinctness within any turn follows.  A stale value that comes round again is harmless since only its value
  matters.
- *DnsName.* The loop is an exploration: `Walk` says that everything visited
  leads on to what was visited or to the current position, so the visited set is
  a closed set without a zero byte when the walk comes back to it, which refutes
  `well_formed`.  `Ending` ties `end_pos` to the first pointer.
- *DnsMessage.* `Position` bounds the position in each phase by the bytes already
  accounted for by questions and records.

- *Gannet, addresses.* `MaskIsPrefix` is the core: the mask arithmetic of
  `Subnet` agrees with "same first bits" for all addresses and prefixes 1 to 32,
  octet by octet (`leading` is the number that the first bits make, `LeadingIsBits`
  compares it bit by bit).  `SubnetInv` and `SurveyInv` carry it through the
  stages; survey's says that a proposed subnet that is not UPnP's is the local
  one or, if that is a /24, one of the /24s around it: no two of these overlap
  (`Disjoint24`).
- *Gannet, results.* `NamesInv`, `PrintInv` relate results filed by address to the
  tasks that have ended, with any number of tasks in any order.  `PrintInv` says
  that a task that ended before one of its closures that were started at once has a
  fingerprint (`Owed`), which is what the answer to that closure relies on: giving up after 3 s
  cannot be the reason, since such a closure ends after 2 s.  Neither bounds the
  closures by the pool: late ones may end as they like.  `SaidInv` says that every name filed under an address is in a datagram of
  that address; `best_hostname` is shown to return one of the names it is given
  (`BestIsOne`: there is a highest score, and a last one among equals), and the
  concatenation of what was heard contains nothing else (`FlatExists`, `FlattenType`).
- *Gannet, registry.* The devices of a command are credited by a series of
  upserts.  `AfterExists` unfolds the recursive function that describes it;
  `UpsertAllKeeps` carries `UpsertFiled` (an upsert files its sighting under the
  key of the record it credits, and keeps every record that has a MAC) through a
  series of any length.  `RecordInv` says that the devices of a scan are apart
  enough for that: two devices may share an address, but then both have MACs.
- *Gannet, types.* The invariants above say where a command's data comes from;
  the types put them together.  `ScanWorkInv` says that tasks, closures and results
  belong to devices that were found, `SurveyWorkInv` that routes and counts belong
  to listed subnets and gateways, `DeviceInv` that a device has its type from the
  step that lists it on (`CategoryType`: whatever the evidence, `classify` ends
  with a category), and `UpsertAllTyped` carries the store's `UpsertType` through a
  series of any length, so that the file is a registry again.
- *Induction.* The library's induction theorems take an operator as a parameter,
  which none of the provers can instantiate.  Where an argument goes by induction
  over numbers or finite sets, it is put as one about *sets* instead:
  `NatSetInduction` (a set of numbers with 0 and all successors is `Nat`) and
  `SubsetInduction` (a set of subsets of a finite S with {} that is closed under adding an
  element contains S), both proved from the well-foundedness of `<` on the
  naturals.  The induction hypothesis becomes membership in such a set.

Only model-checked: liveness (`ShutdownCompletes`, `ServiceRecorded`,
`SweepReturns`, `ScanReturns`, `Terminates`, `CommandReturns`), which is out of the
prover's reach.  Every other property of the passing runs is stated by a theorem.

## 5. Where code and documents disagree

Shown by a run:

- `category_lost`: a host known by MAC that one scan finds without it gets a
  second record; when it is next seen with its MAC, that record is promoted and
  replaces the first (`store.rs:124`), category, tag and history included.
  STATUS.md:95: "Categories survive IP changes and cross-scan merges".
- `sweep_vendored`: `tcp_probe` reads a Layer4 channel with `ipv4_packet_iter`,
  which skips the IP header, so the protocol check reads a byte of the TCP header
  and never succeeds: the TCP half of the sweep finds nobody (but for a stray
  segment whose bytes happen to fit).  README.md:8: "ICMP + TCP sweep — find
  quieter hosts".

Known limits that follow directly from a line and are part of the models:

- `upsert` credits a sighting to the record last seen at its address even if that
  record has another MAC (`store.rs:99`): after an address changes hands, the
  new host's sightings go to the old host's record.
- the registry survives neither overlapping commands (the last save wins) nor a
  fault between truncation and the end of the write; `LostOnlyByWipe` states
  that nothing else loses saved edits.
- hosts heard by mDNS all get the MAC ff:ff:ff:ff:ff:ff and share one record
  (`passive.rs:304`); the ARP-table and mDNS tiers do not filter by subnet
  (`passive.rs:328`).
- a service event that arrives before the entry of its host is dropped
  (`passive.rs:660`); since both go through different channels, the first event
  of a host usually is.
- `gannet tag <ip> <tag>` looks up only the key of the address, but a device whose
  MAC is known is stored under its MAC (`store.rs:219`); the example of
  README.md:29-30 finds no record for a device that ARP discovered.
- a SYN+ACK or RST of anybody that has the ports of a probe makes its target a
  found host: the source address is not looked at (`sweep.rs:129`).
- `fingerprint.rs:193` makes the same mistake as the sweep with the vendored pnet:
  no SYN+ACK is accepted, and no device gets an OS, against README.md:10: "OS hints
  (TTL, window, options)".  `AnsweredIsFingerprinted` is about a pnet that shows
  the protocol.  Even then the options would never be read: their slice starts after
  the IP header a second time (`fingerprint.rs:203-208`), and a SYN+ACK is too short
  for that.  A host that
  answers only probes which had to wait for a thread may be given up.
- the total of survey (`commands.rs:189`) adds up, for each live subnet, at least
  the ARP replies heard on the whole link (`survey.rs:526-529`): hosts are counted
  once for each of several live subnets, disjoint or not.
- a gateway that keeps sending its UPnP response keeps survey waiting for ever
  (`survey.rs:240`).
- `guess_os` cannot return "Embedded/IoT": "Linux" has the same score and comes
  first (`fingerprint.rs:118, 143`).
- services heard from a host without a name are dropped (`mdns.rs:300`).
- with two ARP entries for one address, the later task's fingerprint overwrites
  the earlier one's, and only the first device gets it (`commands.rs:79`).
- prefix 0, which `parse_subnet` accepts ("Prefix must be 0-32", `commands.rs:300`),
  panics, or scans one address, depending on the build (`commands.rs:285`,
  `arp.rs:22`, `sweep.rs:174`).
- `/sys/class/net/*/flags` starts with 0x, which `from_str_radix` refuses: no
  interface is taken for a loopback there (`interface.rs:96`).
- survey takes both ends of a DHCP packet for gateways (`survey.rs:111`); ARP
  gateways are listed first.  It probes the local /24 only if it heard a gateway.
- survey's neighbours of a second octet of 255 wrap round to 0 (`survey.rs:489`),
  and the subnets around a router are not cut to their prefix (`survey.rs:382`).
- with `--verbose` survey counts ARP replies of other subnets as live hosts of
  one where nobody answered (`survey.rs:526`).

## 6. Not modelled

Text: the UPnP exchange (SSDP, HTTP, SOAP, XML; its answers are inputs of
`Survey`), the output of `ip` and `ifconfig` beyond what is read from it, the
bytes of mDNS questions, printing, argument parsing.  The layout of frames and
packets, except where a parser indexes bytes; the loop over TCP options, which
never gets any bytes (section 5).  The `termux` build, whose fingerprint
connects to three ports and never gives a hint.  The embedded vendor table and the word lists of tags
(arbitrary functions of the MAC and of the key).  `Store::all`, which only
iterates, `Store::get`, which nobody calls, and `gannet list`, which prints.

## 7. Plan

1. Every safety property of a passing run has its theorem.  A new one should come
   with its own, on the invariants of section 4.
2. The loop over TCP options, should the code come to read any.
