------------------------------ MODULE Classify ------------------------------
(***************************************************************************)
(* src/src/identity/classify.rs and guess_os of                            *)
(* src/src/discovery/fingerprint.rs: decisions by tables of rules.         *)
(*                                                                         *)
(* Abstraction.  A text is known by `words`, the keywords of the tables it *)
(* contains once in lower case (a text that contains "iphone" contains     *)
(* "phone").                                                               *)
(***************************************************************************)
EXTENDS Options, FiniteSetsExt

CONSTANT words(_)

\* The first rule, a pair of keywords and a decision, that the text meets.
first_match(rules, text) ==
    LET hits == {i \in DOMAIN rules : rules[i][1] \cap text # {}}
    IN  IF hits = {} THEN NONE ELSE rules[Min(hits)][2]

words_of(text) == IF text = NONE THEN {} ELSE words(text)

ServiceRules ==
    << <<{"googlecast", "androidtvremote2", "raop", "airplay", "spotify-connect",
          "spotifyconnect", "privet"}, "TvStreaming">>,
       <<{"companion-link", "companionlink"}, "Phone">>,
       <<{"printer", "scanner", "ipp"}, "Printer">>,
       <<{"workstation", "ssh", "smb", "nfs"}, "Laptop">> >>

VendorRules ==
    << <<{"cisco", "mikrotik", "ubiquiti", "zyxel", "d-link", "dlink", "netgear",
          "tp-link", "tplink", "linksys", "asus", "fritz", "avm"}, "Router">>,
       <<{"brother", "epson", "canon", "xerox", "printer"}, "Printer">>,
       <<{"sony", "samsung", "lg electronics", "roku", "nvidia", "philips", "tcl"},
         "TvStreaming">>,
       <<{"raspberry", "arduino", "espressif", "sonoff", "shelly", "tuya"}, "IoT">>,
       <<{"xiaomi", "huawei", "oneplus", "motorola", "google", "pixel"}, "Phone">>,
       <<{"apple"}, "Laptop">> >>

HostnameRules ==
    << <<{"phone", "android", "pixel", "galaxy", "oneplus"}, "Phone">>,
       <<{"laptop", "macbook", "thinkpad", "xps", "precision", "latitude"}, "Laptop">>,
       <<{"desktop", "gaming", "workstation"}, "Desktop">>,
       <<{"router", "gateway", "fritz", "ap-", "mesh"}, "Router">>,
       <<{"tv", "shield", "roku", "chromecast"}, "TvStreaming">>,
       <<{"printer", "inkjet", "laser"}, "Printer">>,
       <<{"sensor", "light", "plug", "bulb", "switch", "esp", "shelly", "sonoff"}, "IoT">> >>

\* Linux and macOS say nothing about the kind of device.
OsRules ==
    << <<{"windows"}, "Desktop">>,
       <<{"android", "ios"}, "Phone">>,
       <<{"linux", "macos"}, NONE>>,
       <<{"bsd", "solaris", "network device"}, "Router">>,
       <<{"embedded", "iot"}, "IoT">> >>

\* The keywords tried on the vendor when nothing else has decided.  Those also
\* in VendorRules have decided before and are left out.
FallbackRules ==
    << <<{"router", "gateway", "network", "switch", "access point"}, "Router">>,
       <<{"intel", "dell", "lenovo", "hp", "acer", "msi", "gigabyte", "framework"}, "Laptop">>,
       <<{"nodemcu", "tasmota", "esp"}, "IoT">>,
       <<{"lg"}, "TvStreaming">> >>

\* The first service, in the order they were heard, that a rule recognises.
service_category(services) ==
    LET by(i) == first_match(ServiceRules, words(services[i]))
        recognised == {i \in DOMAIN services : by(i) # NONE}
    IN  IF recognised # {}
        THEN by(Min(recognised))
        ELSE IF \E i \in DOMAIN services : "apple-mobdev2" \in words(services[i])
        THEN "Phone" ELSE NONE

vendor_category(vendor) == first_match(VendorRules, words_of(vendor))
hostname_category(hostname) == first_match(HostnameRules, words_of(hostname))
os_category(os_hint) == first_match(OsRules, words_of(os_hint))

\* Mutant: the host name is believed before the vendor.
classify_by_name_first(d) ==
    LET service == service_category(d.services)
        hostname == hostname_category(d.hostname)
        vendor == vendor_category(d.vendor)
        os == os_category(d.os_hint)
        fallback == first_match(FallbackRules, words_of(d.vendor))
    IN  IF service # NONE THEN service
        ELSE IF hostname # NONE THEN hostname
        ELSE IF vendor # NONE THEN vendor
        ELSE IF os # NONE THEN os
        ELSE IF fallback # NONE THEN fallback
        ELSE "Unknown"

classify(d) ==
    LET service == service_category(d.services)
        vendor == vendor_category(d.vendor)
        hostname == hostname_category(d.hostname)
        os == os_category(d.os_hint)
        fallback == first_match(FallbackRules, words_of(d.vendor))
    IN  IF service # NONE THEN service
        ELSE IF vendor # NONE THEN vendor
        ELSE IF hostname # NONE THEN hostname
        ELSE IF os # NONE THEN os
        ELSE IF fallback # NONE THEN fallback
        ELSE "Unknown"

-----------------------------------------------------------------------------
(***************************************************************************)
(* guess_os: the rule of the highest score that the stack of a SYN+ACK     *)
(* meets, the first one listed among equals (the sort is stable).          *)
(***************************************************************************)

OsScores(fp) ==
    LET full == fp.timestamp /\ fp.sack
        usual == fp.mss = 1460
    IN << <<"Linux", 3, fp.ttl <= 64>>,
          <<"Linux (kernel 4.x+)", 8, fp.ttl <= 64 /\ fp.window = 65535 /\ usual /\ fp.scale # NONE>>,
          <<"Linux (kernel 3.x)", 6, fp.ttl <= 64 /\ fp.window = 29200 /\ usual>>,
          <<"macOS 10.15+", 9, fp.ttl = 64 /\ fp.window = 65535 /\ full>>,
          <<"macOS 10.15+", 7, fp.ttl = 64 /\ fp.window = 65535 /\ usual>>,
          <<"macOS/Linux", 3, fp.ttl = 64>>,
          <<"Windows", 3, fp.ttl = 128>>,
          <<"Windows 7/2008", 7, fp.ttl = 128 /\ fp.window = 8192>>,
          <<"Windows 10/11", 8, fp.ttl = 128 /\ fp.window = 65535 /\ fp.scale = 8>>,
          <<"Windows 10/11", 9, fp.ttl = 128 /\ fp.window = 65535 /\ full /\ fp.scale = 8>>,
          <<"BSD/Solaris/Network Device", 4, fp.ttl = 255>>,
          <<"OpenBSD", 7, fp.ttl = 255 /\ fp.window = 16384>>,
          <<"FreeBSD", 6, fp.ttl = 255 /\ fp.window = 65535>>,
          <<"Embedded/IoT", 3, fp.ttl <= 32>> >>

guess_os(fp) ==
    LET scores == SelectSeq(OsScores(fp), LAMBDA s : s[3])
        best == {i \in DOMAIN scores : \A j \in DOMAIN scores : scores[j][2] <= scores[i][2]}
    IN  IF scores = <<>> THEN NONE ELSE scores[Min(best)][1]
=============================================================================
