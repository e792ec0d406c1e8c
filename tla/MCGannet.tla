------------------------------ MODULE MCGannet ------------------------------
(***************************************************************************)
(* An instance of Gannet for TLC: a local network 192.168.1.0/24 with two  *)
(* hosts that answer ARP, one more that claims the address of the first,   *)
(* and one that only the sweep finds; hosts of other networks beside it.   *)
(***************************************************************************)
EXTENDS Gannet

CONSTANTS mA, mB

i1 == <<192, 168, 1, 20>>
i2 == <<192, 168, 1, 78>>
i3 == <<10, 9, 0, 5>>
own == <<192, 168, 1, 10>>
gw == <<192, 168, 1, 1>>
client == <<192, 168, 1, 33>>
broadcast == <<255, 255, 255, 255>>
wan == <<203, 0, 113, 77>>
peer == <<203, 0, 113, 66>>
beside == <<192, 168, 0, 7>>
edge == <<10, 255, 7, 2>>
router == <<10, 0, 1, 7>>

MCReplies == {[ip |-> i1, mac |-> mA], [ip |-> i1, mac |-> mB], [ip |-> i3, mac |-> mB]}
MCAlive == {i1, i2, i3, own}

\* Names and services as parse_mdns_records returns them; "local" is a label
\* that best_hostname drops.
MCDatagrams ==
    {[src |-> i1, names |-> <<"Office-TV", "local">>, services |-> <<"googlecast">>],
     [src |-> i1, names |-> <<"gaming-pc">>, services |-> <<>>],
     [src |-> i2, names |-> <<>>, services |-> <<"ssh">>],
     [src |-> i3, names |-> <<"nas-1">>, services |-> <<"ssh">>]}
MCscore(name) ==
    CASE name = "Office-TV" -> 3 [] name \in {"gaming-pc", "nas-1"} -> 2 [] name = "local" -> 0

MCstack(ip, port) ==
    CASE ip = i1 -> [ttl |-> 128, window |-> 8192]
      [] ip = i2 /\ port = 443 -> [ttl |-> 64, window |-> 64240]
      [] OTHER -> NONE

MCoui(mac) == IF mac = mA THEN "TP-Link" ELSE "Dell"

MCwords(text) ==
    CASE text = "TP-Link" -> {"tp-link"} [] text = "Dell" -> {"dell"}
      [] text = "Office-TV" -> {"tv"} [] text = "gaming-pc" -> {"gaming"} [] text = "Windows 7/2008" -> {"windows"}
      [] text = "Linux" -> {"linux"} [] text \in {"googlecast", "ssh"} -> {text}
      [] OTHER -> {}

MCValues == {"TP-Link", "Dell", "Office-TV", "local", "gaming-pc", "nas-1", "Windows 7/2008", "Linux"}
MCServices == {"googlecast", "ssh"}
MCCategories == {"Phone", "Laptop", "Desktop", "Router", "IoT", "Printer", "TvStreaming", "Unknown"}
MCFacts == {"vendor", "hostname", "os_hint"}

-----------------------------------------------------------------------------
\* Layer 1 and 2 of the survey: the gateway as sender and as target, the same of
\* another network, a DHCP offer to everybody.
end(ip, nil) == [ip |-> ip, nil |-> nil]
MCFrames ==
    {[type |-> "arp", sender |-> end(gw, FALSE), target |-> end(own, TRUE)],
     [type |-> "arp", sender |-> end(client, FALSE), target |-> end(<<10, 9, 0, 254>>, FALSE)],
     [type |-> "arp", sender |-> end(i3, FALSE), target |-> end(gw, FALSE)],
     [type |-> "dhcp", src |-> gw, dst |-> broadcast]}

\* The gateway has no UPnP, or a public address with a mask, or routers; one mask
\* is empty.
MCigd(gateway) ==
    IF gateway # gw THEN {{}}
    ELSE {{}, {[external |-> wan, mask |-> 29, routers |-> {}],
               [external |-> NONE, mask |-> NONE, routers |-> {router}]},
          {[external |-> wan, mask |-> 0, routers |-> {}]}}

MCResponders == {i1, own, peer, beside}

-----------------------------------------------------------------------------
v4(ip, prefix) == [v4 |-> TRUE, ip |-> ip, prefix |-> prefix]
v6 == [v4 |-> FALSE, ip |-> NONE, prefix |-> 64]
nic(name, mac, ips) == [name |-> name, up |-> TRUE, loopback |-> FALSE, mac |-> mac, ips |-> ips]
loopback == [name |-> "lo", up |-> TRUE, loopback |-> TRUE, mac |-> FALSE,
             ips |-> <<v4(<<127, 0, 0, 1>>, 8)>>]
sys(ips, ip_runs, hex) ==
    [name |-> "eth0", up |-> TRUE, loopback |-> FALSE, ips |-> ips, ip_runs |-> ip_runs,
     ifconfig_runs |-> TRUE, hex_netmask |-> hex]

pnet(s) == [pnet |-> s, sysfs |-> <<>>]
Office == pnet(<<loopback, nic("eth0", TRUE, <<v6, v4(own, 24), v4(<<10, 9, 0, 2>>, 16)>>)>>)
Tunnel(ip, prefix) == pnet(<<loopback, nic("tun0", FALSE, <<v4(ip, prefix)>>)>>)
Unprivileged(hex) == [pnet |-> <<>>, sysfs |-> <<sys(<<v4(own, 28)>>, hex, hex)>>]
Offline == pnet(<<loopback>>)

scan(interface_, subnet_) ==
    [command |-> "scan", interface |-> interface_, verbose |-> FALSE, subnet |-> subnet_]
survey(verbose_) ==
    [command |-> "survey", interface |-> NONE, verbose |-> verbose_, subnet |-> NONE]
-----------------------------------------------------------------------------
\* Every address a record may be filed under.
Networks == CommonPrivate \cup neighbours(<<192, 168, 1, 0>>) \cup neighbours(<<10, 9, 0, 0>>)
            \cup neighbours(<<10, 255, 7, 0>>)
MCIps == {i1, i2, i3, own, gw, client, broadcast, peer, beside, edge, router, <<10, 9, 0, 254>>,
          <<127, 0, 0, 1>>, <<10, 9, 0, 2>>,
          <<192, 168, 0, 0>>, <<203, 0, 113, 0>>, <<203, 0, 113, 64>>, <<203, 0, 113, 72>>,
          <<203, 0, 113, 76>>} \cup Networks
MCTags == Keys
MCgenerate(key) == key

\* Registries: the second host's record at the first one's address, and in
\* addition that of an address whose mac was not seen.
known(key, mac, ip) ==
    [key |-> key, mac |-> mac, last_ip |-> ip, ips |-> {ip}, tag |-> key,
     facts |-> [f \in Facts |-> NONE], services |-> {}, category |-> Unknown,
     first_seen |-> 0, last_seen |-> 0, seen_count |-> 1]
Earlier == insert_record(EmptyRegistry, known(mac_key(mB), mB, i1))
Unnamed == insert_record(Earlier, known(ip_key(i3), NONE, i3))

-----------------------------------------------------------------------------
session(host_, request_, checked_, disk_) ==
    [host |-> host_, request |-> request_, checked |-> checked_, skips |-> FALSE, disk |-> disk_]
at(ip, prefix) == [ip |-> ip, prefix |-> prefix]

MCSessions ==
    {session(Office, scan(NONE, NONE), FALSE, disk_) : disk_ \in {EmptyRegistry, Earlier}}
    \cup {[session(Office, scan(NONE, NONE), FALSE, Earlier) EXCEPT !.skips = TRUE]}
    \cup {session(Office, scan("wlan0", NONE), FALSE, Earlier),
          session(Offline, scan(NONE, NONE), FALSE, Earlier),
          session(Unprivileged(TRUE), scan(NONE, NONE), FALSE, Earlier),
          session(Unprivileged(FALSE), scan(NONE, NONE), FALSE, Earlier),
          session(Office, scan(NONE, at(own, 0)), TRUE, Earlier)}
    \cup {session(Tunnel(own, 24), scan("tun0", at(ip, prefix)), checked_, Unnamed) :
             ip \in {i2, NONE}, prefix \in {0, 22, 30, 33}, checked_ \in BOOLEAN}
    \cup {session(Tunnel(own, 0), r, checked_, Earlier) :
             r \in {scan(NONE, NONE), survey(FALSE)}, checked_ \in BOOLEAN}
    \cup {session(Office, survey(FALSE), FALSE, Earlier), session(Tunnel(edge, 24), survey(FALSE), FALSE, Earlier),
          session(Tunnel(i3, 24), survey(FALSE), FALSE, Earlier),
          session(Tunnel(own, 16), survey(FALSE), TRUE, Unnamed),
          session(Tunnel(own, 28), survey(TRUE), FALSE, Earlier),
          session(Offline, survey(FALSE), FALSE, Earlier)}
=============================================================================
