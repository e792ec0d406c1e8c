----------------------------- MODULE Interface ------------------------------
(***************************************************************************)
(* src/src/net/interface.rs: which interface, address and subnet a command *)
(* works with.  The host shows two lists, the one pnet enumerates and the  *)
(* one of /sys/class/net, to be combined with `ip addr` or `ifconfig`.     *)
(*                                                                         *)
(*   pnet entry   [name, up, loopback, mac, ips], mac whether it has one   *)
(*   sysfs entry  the same with the addresses as the two tools show them   *)
(*   ips          a sequence of [v4, ip, prefix]                           *)
(*                                                                         *)
(* Abstraction.  The texts of the tools are read to the last field; what   *)
(* each reading loses is kept.                                             *)
(***************************************************************************)
EXTENDS Options, Subnet

\* Those of other versions are passed over wherever an address is looked for.
ipv4(ips) == {ips[n] : n \in {m \in DOMAIN ips : ips[m].v4}}
first_ipv4(ips) == find(ips, LAMBDA a : a.v4)

suitable(i) == i.up /\ ~ i.loopback /\ ipv4(i.ips) # {}

\* The interface called name, or the first one if name is NONE.
find_interface(host, name) ==
    find(host.pnet, LAMBDA i : (name = NONE \/ i.name = name) /\ suitable(i))

\* read_ipv4_addrs: `ip -4 -o addr` if it runs, else ifconfig, whose netmask is
\* only understood in hexadecimal and taken for 24 bits otherwise.
read_ipv4_addrs(i) ==
    IF i.ip_runs
    THEN i.ips
    ELSE IF ~ i.ifconfig_runs
    THEN <<>>
    ELSE [n \in DOMAIN i.ips |->
             [i.ips[n] EXCEPT !.prefix = IF i.hex_netmask THEN @ ELSE 24]]

\* /sys shows the flags as 0x.., which from_str_radix refuses: no interface is
\* taken for a loopback.
sysfs_interfaces(host) ==
    [n \in DOMAIN host.sysfs |->
        LET i == host.sysfs[n]
        IN  [name |-> i.name, up |-> i.up, loopback |-> FALSE,
             ips |-> read_ipv4_addrs(i)]]

pnet_interfaces_from(host) ==
    [n \in DOMAIN host.pnet |->
        LET i == host.pnet[n]
        IN  [name |-> i.name, up |-> i.up, loopback |-> i.loopback,
             ips |-> i.ips]]

\* /sys is only consulted if pnet knows of no IPv4 address at all.
local_interfaces(host) ==
    IF \E n \in DOMAIN host.pnet : ipv4(host.pnet[n].ips) # {}
    THEN pnet_interfaces_from(host)
    ELSE sysfs_interfaces(host)

find_local_interface(host, name) ==
    find(local_interfaces(host),
         LAMBDA i : (name = NONE \/ i.name = name) /\ i.up /\ ~ i.loopback /\ ipv4(i.ips) # {})

\* The first IPv4 address of the interface pnet finds, else of the local one.
find_source_ip(host, name) ==
    LET i == or(find_interface(host, name), find_local_interface(host, name))
    IN  IF i = NONE THEN NONE ELSE first_ipv4(i.ips).ip

-----------------------------------------------------------------------------
(***************************************************************************)
(* The subnet of a command (commands.rs, survey.rs).                       *)
(***************************************************************************)

DefaultSubnet == [base |-> <<192, 168, 1, 0>>, prefix |-> 24]

subnet_of(a) == [base |-> network_base(a.ip, a.prefix), prefix |-> a.prefix]

\* auto_subnet of commands.rs
auto_subnet(host, name) ==
    LET i == or(find_interface(host, name), find_local_interface(host, name))
    IN  IF i = NONE THEN DefaultSubnet ELSE subnet_of(first_ipv4(i.ips))
=============================================================================
