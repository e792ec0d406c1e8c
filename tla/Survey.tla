------------------------------- MODULE Survey -------------------------------
(***************************************************************************)
(* gannet survey: src/src/discovery/survey.rs and survey of                *)
(* src/src/cli/commands.rs.  Three layers propose subnets: gateways heard  *)
(* on the link, what they tell by UPnP, and neighbours of the local one.   *)
(* All of them are probed, and those where somebody answers are recorded.  *)
(*                                                                         *)
(* Abstractions.  A frame is its addresses.  A gateway's UPnP services are *)
(* the set of its answers that parse (the requests, their URLs and         *)
(* the search for tags in XML are left out); query_upnp_routes only prints *)
(* what it is told.  Of a sweep and an ARP scan only the result is chosen. *)
(***************************************************************************)
EXTENDS Session

CONSTANTS
    Frames,      \* [type |-> "arp", sender, target] with [ip, nil] each, or
                 \* [type |-> "dhcp", src, dst], as they are heard on the link
    igd(_),      \* the UPnP answers a gateway may give: sets of
                 \* [external, mask, routers]
    Responders,  \* addresses that answer the probes of the sweep
    MaxReplies   \* bound on the ARP replies heard during the probes

\* A frame has addresses, and what a gateway answers has been parsed.
ASSUME SurveyAssumption ==
    /\ Responders \subseteq Ips /\ MaxReplies \in Nat
    /\ IsFiniteSet(Frames) /\ IsFiniteSet(Responders)
    /\ \A f \in Frames : IF f.type = "arp" THEN {f.sender.ip, f.target.ip} \subseteq Ips
                                           ELSE {f.src, f.dst} \subseteq Ips
    /\ \A gateway \in Ips : \A answers \in igd(gateway) :
          /\ IsFiniteSet(answers)
          /\ \A a \in answers :
                /\ a.external # NONE => IsAddress(a.external)
                /\ a.mask \in Option(0..32)
                /\ IsFiniteSet(a.routers) /\ a.routers \subseteq Ips

VARIABLES
    gateways,      \* the addresses of GatewayInfo, in order
    interrogated,  \* how many of them layer 2 is done with
    all_subnets,   \* (network, prefix) to source
    gateway_map,   \* (network, prefix) to gateway
    answering,     \* who answered the sweeps
    report         \* (network, prefix) to host count

survey_vars == <<gateways, interrogated, all_subnets, gateway_map, answering, report>>

SurveyInit ==
    /\ gateways = <<>> /\ interrogated = 0
    /\ all_subnets = [x \in {} |-> NONE] /\ gateway_map = [x \in {} |-> NONE]
    /\ answering = {} /\ report = [x \in {} |-> NONE]

\* The interface of survey, and its subnet (subnet_from_interface).
local_interface == find_interface(host, request.interface)
local_subnet == subnet_of(first_ipv4(local_interface.ips))

\* HashMap::entry(..).or_insert(..) for each of a set of keys, or of entries.
or_insert_all(map, new) ==
    [k \in DOMAIN map \cup DOMAIN new |-> IF k \in DOMAIN map THEN map[k] ELSE new[k]]
or_insert(map, keys, value) == or_insert_all(map, [k \in keys |-> value])

-----------------------------------------------------------------------------
(***************************************************************************)
(* Layer 1: gateways.                                                      *)
(***************************************************************************)

\* survey returns nothing without an interface, and the command returns.
FindInterface ==
    /\ stage = "survey"
    /\ stage' = IF local_interface = NONE THEN "returned" ELSE "gateways"
    /\ UNCHANGED <<devices, survey_vars>>

is_gateway(ip) == ~ is_unspecified(ip) /\ ip[4] \in {1, 254}

\* Sender and target of the ARP frames whose sender is local and has a mac.
arp_gateways(frames) ==
    LET local == {f \in frames : /\ f.type = "arp" /\ ~ f.sender.nil
                                 /\ ip_in_subnet(f.sender.ip, local_subnet.base, local_subnet.prefix)}
    IN  {ip \in {f.sender.ip : f \in local} \cup {f.target.ip : f \in {g \in local : ~ g.target.nil}} :
            is_gateway(ip)}

\* Both ends of every packet from or to port 67, a client's and the broadcast
\* address included.
dhcp_servers(frames) ==
    LET dhcp == {f \in frames : f.type = "dhcp"}
    IN  {ip \in {f.src : f \in dhcp} \cup {f.dst : f \in dhcp} : ~ is_unspecified(ip)}

\* The map of ARP gateways in any order, then the other DHCP addresses in any.
gateway_lists(frames) ==
    LET arp == arp_gateways(frames)
        dhcp == dhcp_servers(frames)
    IN  {a \o d : a \in SetToSeqs(arp), d \in SetToSeqs(dhcp \ arp)}

\* detect_gateways_passive runs in a blocking task: if it panics, or the channel
\* cannot be opened, there are no gateways.  The local subnet is entered for the
\* first of them.
DetectGateways ==
    /\ stage = "gateways"
    /\ stage' = "upnp"
    /\ \E heard \in IF panics(local_subnet.prefix) THEN {{}} ELSE SUBSET Frames :
          gateways' \in gateway_lists(heard)
    /\ IF gateways' = <<>>
       THEN UNCHANGED <<all_subnets, gateway_map>>
       ELSE \E key \in {<<local_subnet.base, local_subnet.prefix>>} :
                /\ all_subnets' = or_insert(all_subnets, {key}, "GatewayRoute")
                /\ gateway_map' = or_insert(gateway_map, {key}, Head(gateways'))
    /\ UNCHANGED <<devices, interrogated, answering, report>>

-----------------------------------------------------------------------------
(***************************************************************************)
(* Layer 2: what the gateways tell.                                        *)
(***************************************************************************)

\* The subnets of one answer: guesses around a public address, the one the mask
\* gives, and two around each router, whose addresses are not cut to the prefix.
answer_subnets(a) ==
    (IF a.external = NONE \/ is_unspecified(a.external) \/ is_private(a.external) THEN {}
     ELSE {<<network_base(a.external, p), p>> : p \in {24, 28, 29, 30}})
    \cup (IF a.external = NONE \/ a.mask = NONE THEN {}
          ELSE {<<network_base(a.external, a.mask), a.mask>>})
    \cup {<<r, p>> : r \in a.routers, p \in {24, 16}}

query_upnp_wan(answers) == UNION {answer_subnets(a) : a \in answers}

mask_panics(answers) ==
    \E a \in answers : a.external # NONE /\ a.mask # NONE /\ panics(a.mask)

\* The next gateway has been asked; a subnet that is known already keeps its
\* source and its gateway.  This is the end of the gateway's answers, which need
\* not come: read_to_string (survey.rs:240) reads on as long as each read brings
\* something within its timeout, and survey waits.
Interrogate ==
    /\ stage = "upnp" /\ interrogated < Len(gateways)
    /\ interrogated' = interrogated + 1
    /\ \E answers \in igd(gateways[interrogated']) :
          IF mask_panics(answers)
          THEN stage' = "panicked" /\ UNCHANGED <<all_subnets, gateway_map>>
          ELSE /\ UNCHANGED stage
               /\ all_subnets' = or_insert(all_subnets, query_upnp_wan(answers), "UpnpDiscovery")
               /\ gateway_map' = or_insert(gateway_map, query_upnp_wan(answers), gateways[interrogated'])
    /\ UNCHANGED <<devices, gateways, answering, report>>

-----------------------------------------------------------------------------
(***************************************************************************)
(* Layer 3: neighbours.                                                    *)
(***************************************************************************)

saturating_sub(n, k) == IF n < k THEN 0 ELSE n - k

\* Mutant: the row of the second octet only.
neighbours_row(base) ==
    {<<base[1], b, base[3], 0>> : b \in {saturating_sub(base[2], 1), base[2], (base[2] + 1) % 256}} \ {base}

\* Second octets and third octets around the local ones.  A second octet of 256
\* is not among the first candidates, which then are too few to skip third octet
\* 0, and is cut to 0 by `as u8`.
neighbours(base) ==
    LET second == base[2]
        third == base[3]
        adjacent == {saturating_sub(second, 1), second, second + 1}
        rows == {i \in Octet : saturating_sub(third, 1) <= i /\ i <= third + 1}
                \cup (IF second + 1 > 255 THEN {0} ELSE {})
    IN  {<<base[1], bc[1] % 256, bc[2], 0>> : bc \in (adjacent \X rows) \ {<<second, third>>}}

CommonPrivate ==
    {<<10, 0, 0, 0>>, <<10, 0, 1, 0>>, <<10, 0, 10, 0>>, <<10, 10, 0, 0>>, <<10, 10, 10, 0>>,
     <<172, 16, 0, 0>>, <<172, 16, 1, 0>>, <<172, 17, 0, 0>>,
     <<192, 168, 0, 0>>, <<192, 168, 1, 0>>, <<192, 168, 10, 0>>, <<192, 168, 100, 0>>}

\* The usual private subnets but the local one.
common_private(base) == CommonPrivate \ {n \in CommonPrivate : \A i \in 1..3 : n[i] = base[i]}

at24(nets) == {<<n, 24>> : n \in nets}

\* What is proposed in both ways is a neighbour, which comes first.
proposals(base) ==
    LET near == at24(neighbours(base))
    IN  [k \in near \cup at24(common_private(base)) |->
            IF k \in near THEN "AdjacentSweep" ELSE "CommonPrivate"]

\* Mutant: a local subnet of any prefix has neighbours.
adjacent_any_prefix(base, prefix, map) ==
    or_insert_all(map, proposals(base))

\* adjacent_subnets_from and its or_insert loop.  A local subnet that is not a
\* /24 has no neighbours but itself.
adjacent_subnets_from(base, prefix, map) ==
    IF prefix # 24
    THEN or_insert(map, {<<base, prefix>>}, "AdjacentSweep")
    ELSE or_insert_all(map, proposals(base))

AddNeighbours ==
    /\ stage = "upnp" /\ interrogated = Len(gateways)
    /\ \E net \in {local_subnet} :
          IF panics(net.prefix)
          THEN stage' = "panicked" /\ UNCHANGED all_subnets
          ELSE /\ stage' = "probe"
               /\ all_subnets' = adjacent_subnets_from(net.base, net.prefix, all_subnets)
    /\ UNCHANGED <<devices, gateways, interrogated, gateway_map, answering, report>>

-----------------------------------------------------------------------------
(***************************************************************************)
(* Probes and report.                                                      *)
(***************************************************************************)

\* The result of sweep_subnet, which is only asked for prefixes of 24 to 30.
probed(key) == key[2] \in 24..30
in_sweep(key, ips) == {ip \in ips : probed(key) /\ subnet_iter(ip, key[1], key[2])}

\* Mutant: the subnet of a gateway is scanned in any case.
arp_scanned_routes(key, found) ==
    probed(key) /\ (found # {} \/ request.verbose \/ all_subnets[key] = "GatewayRoute")

\* probe_subnet_for_hosts: an ARP scan only where the sweep found somebody, unless
\* verbose is set.
arp_scanned(key, found) == probed(key) /\ (found # {} \/ request.verbose)

\* The ARP scan counts every reply on the link.
host_count(key, found, replies) ==
    IF ~ probed(key) THEN NONE
    ELSE IF arp_scanned(key, found) THEN Max({Cardinality(found), replies[key]})
    ELSE 0

\* The keys, the sources of their subnets in this order.
by_source(keys) ==
    LET sources == <<"GatewayRoute", "UpnpDiscovery", "AdjacentSweep", "CommonPrivate">>
    IN  FlattenSeq([n \in 1..4 |-> SetToSeq({key \in keys : all_subnets[key] = sources[n]})])

\* The devices that stand for networks.
networks(keys) == [n \in DOMAIN by_source(keys) |-> from_sweep(by_source(keys)[n][1])]

\* One task per subnet, joined as they end; none of them panics (Sweep, ArpScan).
\* The report is sorted by source, and the networks with live hosts become
\* devices to record; the order of those of one source does not matter, since
\* upsert files each under its own address.
Probe ==
    /\ stage = "probe"
    /\ stage' = "record"
    /\ \E ips \in SUBSET (Responders \ {find_source_ip(host, request.interface)}) :
          LET found == [key \in DOMAIN all_subnets |-> in_sweep(key, ips)]
              scanned == {key \in DOMAIN found : arp_scanned(key, found[key])}
          IN  \E replies \in [scanned -> 0..(IF local_interface.mac THEN MaxReplies ELSE 0)] :
                 /\ answering' = ips
                 /\ report' = [key \in DOMAIN found |-> host_count(key, found[key], replies)]
    /\ devices' = networks({key \in DOMAIN report' : report'[key] \notin {NONE, 0}})
    /\ UNCHANGED <<gateways, interrogated, all_subnets, gateway_map>>

SurveyStep ==
    /\ \/ FindInterface \/ DetectGateways \/ Interrogate \/ AddNeighbours \/ Probe
    /\ UNCHANGED <<input_vars, disk>>

-----------------------------------------------------------------------------
(***************************************************************************)
(* Safety.                                                                 *)
(***************************************************************************)

Sources == {"GatewayRoute", "UpnpDiscovery", "AdjacentSweep", "CommonPrivate"}

SurveyTypeOK ==
    /\ ToSet(gateways) \subseteq Ips /\ interrogated \in 0..Len(gateways)
    /\ \A key \in DOMAIN all_subnets :
          IsAddress(key[1]) /\ key[2] \in 0..32 /\ all_subnets[key] \in Sources
    /\ DOMAIN gateway_map \subseteq DOMAIN all_subnets
    /\ \A key \in DOMAIN gateway_map : gateway_map[key] \in ToSet(gateways)
    /\ answering \subseteq Responders
    /\ \A key \in DOMAIN report : report[key] \in Option(Nat)

\* No address lies in two of the subnets that are probed, and so none is swept
\* twice, unless a gateway's UPnP answer proposed one of the two.  This is about
\* the subnets, not about the total of commands.rs:189: the ARP scan of each live
\* subnet counts every reply on the link (host_count).
OverlapOnlyByUpnp ==
    stage = "probe" =>
        \A k, l \in DOMAIN all_subnets :
            \/ k = l
            \/ "UpnpDiscovery" \in {all_subnets[k], all_subnets[l]}
            \/ ~ same_prefix(k[1], l[1], Min({k[2], l[2]}))

\* The neighbours of a /24 are the subnets whose second and third octets differ
\* from its own by at most one, within 0..255; all of them are probed.  A second
\* octet of 255 is the exception: 256 wraps round to 0 (survey.rs:478, 489).
NeighboursProposed ==
    stage = "probe" /\ local_subnet.prefix = 24 /\ local_subnet.base[2] < 255 =>
        LET base == local_subnet.base
            near(o) == {o - 1, o, o + 1} \cap Octet
            around == {<<base[1], b, c, 0>> : b \in near(base[2]), c \in near(base[3])} \ {base}
        IN  /\ at24(around) \subseteq DOMAIN all_subnets
            /\ \A key \in DOMAIN all_subnets :
                  all_subnets[key] = "AdjacentSweep" => key \in at24(around)

\* A subnet is reported live, and recorded, only if one of its own hosts answered
\* a probe; replies of other subnets' hosts, which its ARP scan counts too, do
\* not make it live.  With verbose they do (survey.rs:526).
LiveMeansAnswered ==
    stage = "record" /\ request.command = "survey" /\ ~ request.verbose =>
        \A key \in DOMAIN report :
            report[key] \notin {NONE, 0} =>
                \E ip \in answering : same_prefix(ip, key[1], key[2])
=============================================================================
