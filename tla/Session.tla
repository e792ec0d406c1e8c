------------------------------ MODULE Session -------------------------------
(***************************************************************************)
(* What the commands scan and survey of src/src/cli/commands.rs have in    *)
(* common: a host to run on, a command line, a list of devices they end    *)
(* up with, and the registry they add it to.  Scan and Survey extend this  *)
(* module by what each command does in between, Gannet composes the two.   *)
(***************************************************************************)
EXTENDS StoreOps, Interface, SequencesExt

CONSTANT
    Sessions   \* the hosts, command lines, builds and contents of devices.json
               \* to consider, [host, request, checked, skips, disk]

\* A subnet that does not parse has no ip, or a prefix beyond 32.
Request == [command : {"scan", "survey"}, interface : Option(STRING), verbose : BOOLEAN,
            subnet : Option([ip : Option(Ips), prefix : Nat])]

\* The interfaces of a host, as the two lists of Interface show them.
IfAddress == {a \in [v4 : BOOLEAN, ip : Option(Ips), prefix : 0..128] :
                a.v4 => a.ip \in Ips /\ a.prefix <= 32}
PnetEntry == [name : STRING, up : BOOLEAN, loopback : BOOLEAN, mac : BOOLEAN, ips : Seq(IfAddress)]
SysfsEntry == [name : STRING, up : BOOLEAN, loopback : BOOLEAN, ips : Seq(IfAddress),
               ip_runs : BOOLEAN, ifconfig_runs : BOOLEAN, hex_netmask : BOOLEAN]
Host == [pnet : Seq(PnetEntry), sysfs : Seq(SysfsEntry)]

\* devices.json is what earlier commands have written: Store's IdentityInv holds.
ASSUME SessionAssumption ==
    /\ Facts = {"vendor", "hostname", "os_hint"} /\ 0 \in Times
    /\ \A ip \in Ips : IsAddress(ip)
    /\ \A s \in Sessions :
          /\ s.host \in Host /\ s.request \in Request
          /\ {s.checked, s.skips} \subseteq BOOLEAN
          /\ IsRegistry(s.disk) /\ KeyMatchesMac(s.disk) /\ IpRecordStays(s.disk)

VARIABLES
    host,      \* its network interfaces (see Interface)
    request,   \* the command line
    checked,   \* whether arithmetic overflow panics
    skips,     \* whether pnet's iterator skips the IP header (see Sweep)
    stage,     \* how far the command has come, or how it ended
    devices,   \* what it has to record, in order
    disk       \* the registry in the file

session_vars == <<host, request, checked, skips, stage, devices, disk>>
input_vars == <<host, request, checked, skips>>

Ended == {"returned", "exited", "panicked"}

SessionInit ==
    /\ \E s \in Sessions :
          /\ host = s.host /\ request = s.request /\ disk = s.disk
          /\ checked = s.checked /\ skips = s.skips
    /\ stage = "main"
    /\ devices = <<>>

\* The match of main: which command runs.
Dispatch ==
    /\ stage = "main"
    /\ stage' = request.command
    /\ UNCHANGED <<input_vars, devices, disk>>

\* !((1u32 << (32 - prefix)) - 1) in a build with overflow checks.
panics(prefix) == checked /\ overflows(prefix)

\* Device::from_sweep, and From<&ArpEntry> if the mac is known.
from_sweep(ip) ==
    [ip |-> ip, mac |-> NONE, services |-> <<>>, category |-> NONE,
     facts |-> [f \in Facts |-> NONE]]
from_entry(e) == [from_sweep(e.ip) EXCEPT !.mac = e.mac]

\* What upsert looks at: the services it has not got yet.
sighted(d) == [d EXCEPT !.services = ToSet(@)]

\* The registries that a series of upserts may lead to.
upsert_all(recs, ds) ==
    LET after[n \in 0..Len(ds)] ==
          IF n = 0 THEN {recs}
          ELSE UNION {{res.records : res \in upsert(r, sighted(ds[n]), 0)} : r \in after[n - 1]}
    IN  after[Len(ds)]

\* Mutant: the registry is built from this command's devices alone.
RecordAndSave_afresh ==
    /\ stage = "record"
    /\ stage' = "returned"
    /\ \/ UNCHANGED disk
       \/ devices # <<>> /\ disk' \in upsert_all(EmptyRegistry, devices)
    /\ UNCHANGED <<input_vars, devices>>

\* Store::load, an upsert for each device, Store::save, which may fail with a
\* warning; survey saves only if it has recorded something.
RecordAndSave ==
    /\ stage = "record"
    /\ stage' = "returned"
    /\ \/ UNCHANGED disk
       \/ devices # <<>> /\ disk' \in upsert_all(disk, devices)
    /\ UNCHANGED <<input_vars, devices>>
=============================================================================
