----------------------------- MODULE MCRequests ----------------------------
(***************************************************************************)
(* Instances for TLC of what decides about a connection or a request: the  *)
(* validation of TLS servers, the HTTP handlers, the settings, permissions *)
(* and the ACME manager.  A behaviour is one of a single part while the    *)
(* others stay as they start.                                              *)
(***************************************************************************)
EXTENDS TLSValidate, WebHandlers, Settings, Permissions, CertManager

VARIABLE part

\* A validator without options, and others that differ from it.
Plain == [ipv4Only |-> FALSE, expand |-> TRUE, validFor |-> 0, issuers |-> {}, rootCAs |-> FALSE,
          pemFile |-> "none", checkSerial |-> FALSE, checkSignature |-> FALSE,
          checkCipherSuite |-> FALSE, tlsMinVer |-> 2, ciphersuites |-> {}, allowed |-> {},
          denied |-> {}, deniedSuites |-> {}, zeroCheck |-> TRUE]
Validators ==
  {Plain,
   [Plain EXCEPT !.expand = FALSE],
   [Plain EXCEPT !.ipv4Only = TRUE, !.checkSerial = TRUE],
   [Plain EXCEPT !.ipv4Only = TRUE, !.expand = FALSE],
   [Plain EXCEPT !.pemFile = "bad"],
   [Plain EXCEPT !.pemFile = "bad", !.rootCAs = TRUE, !.zeroCheck = FALSE],
   [Plain EXCEPT !.checkSerial = TRUE, !.checkSignature = TRUE, !.checkCipherSuite = TRUE],
   CommandOptions(Plain, TRUE, TRUE, 2, {"ca"}, TRUE),
   [Plain EXCEPT !.ciphersuites = {"s1"}],
   [Plain EXCEPT !.allowed = {"ecdsa"}, !.deniedSuites = {"s2"}],
   [Plain EXCEPT !.denied = {"rsa"}, !.tlsMinVer = 3]}

\* A server without fault, and others that differ from it.
Sound == [up |-> TRUE, version |-> 3, suite |-> "s1", trusted |-> TRUE, chain |-> <<5, 7>>,
          issuer |-> "ca", validFor |-> 2, alg |-> "ecdsa"]
FleetSeq ==
  <<Sound,
   [Sound EXCEPT !.up = FALSE],
   [Sound EXCEPT !.version = 2, !.suite = "s2"],
   [Sound EXCEPT !.trusted = FALSE],
   [Sound EXCEPT !.chain = <<0, 7>>],
   [Sound EXCEPT !.chain = <<6, 7>>, !.validFor = 1],
   [Sound EXCEPT !.issuer = "other", !.alg = "rsa"]>>
Fleet == Range(FleetSeq)

Text(form, ip, ips) == [form |-> form, ip |-> ip, ips |-> ips]
Addr(ip) == Text("addr", ip, {ip})
Wide == Text("prefix", "p1", {"p1", "p2", "q1"})
Narrow == Text("prefix", "p1", {"p1", "p2"})
Bad == Text("bad", "p1", {})

\* Lists that overlap, prefixes, a nil list, lists and subnets that are refused.
Base == [allow |-> {}, deny |-> {}, direct |-> TRUE, proxy |-> FALSE, subnet |-> {Narrow}]
Configs ==
  {Base,
   [Base EXCEPT !.allow = {{Narrow, Addr("q1")}}, !.deny = {{Addr("p1")}}, !.subnet = {Addr("p2")}],
   [Base EXCEPT !.allow = {{Narrow}}, !.direct = FALSE, !.proxy = TRUE, !.subnet = {Wide}],
   [Base EXCEPT !.deny = {{Wide}}, !.subnet = {}],
   [Base EXCEPT !.proxy = TRUE], [Base EXCEPT !.deny = {{}}],
   [Base EXCEPT !.allow = {{Bad}}], [Base EXCEPT !.subnet = {Addr("q1")}],
   [Base EXCEPT !.subnet = {Text("bracket", "p1", {"p1"})}]}

\* Requests from private and public addresses, direct and through proxies.
Get == [scheme |-> "https", host |-> "site", port |-> "443", urlhost |-> "none", sni |-> TRUE, get |-> TRUE,
        goget |-> FALSE, path |-> "/app", remote |-> Text("port", "p1", {"p1"}),
        forwarded |-> <<Addr("q1"), Addr("p1")>>]
DemandSeq ==
  <<Get,
   [Get EXCEPT !.path = "/index.html", !.remote = Addr("q1"), !.forwarded = <<>>, !.sni = FALSE],
   [Get EXCEPT !.scheme = "http", !.host = "none", !.goget = TRUE, !.path = "/mod/", !.sni = FALSE,
               !.remote = Text("port", "p2", {"p2"}), !.forwarded = <<Addr("p2")>>],
   [Get EXCEPT !.goget = TRUE, !.path = "/mod", !.urlhost = "other", !.forwarded = <<Addr("p1")>>],
   [Get EXCEPT !.scheme = "http", !.path = "/challenge"],
   [Get EXCEPT !.path = "/data", !.get = FALSE, !.remote = Bad, !.forwarded = <<Bad, Addr("p1")>>],
   [Get EXCEPT !.path = "/data", !.forwarded = <<Text("port", "p1", {"p1"})>>, !.remote = Addr("p2")]>>
Demands == Range(DemandSeq)

\* Files that are right, in several forms, and wrong: a name, a number or a field
\* that is not known.
Few(S) == UNION {[1..n -> S] : n \in 0..2}
Single(S) == [1..1 -> S]
Files ==
  [schemes |-> Few({Named(1), Named(12), Named(13)}),
   curves |-> Few({Named(1), Named(7), Named(8)}),
   suites |-> Few({Named(1), Named(5), Named(6), Word("insecure")}),
   algorithms |-> Few({Named(1), Named(16), Word("rsa"), Word("dsa")})
                    \union Single({Word("ecdsa"), Word("ed25519"), Word("rsa-pss")}),
   versions |-> Few({Named(772), Number("hex", 772), Number("dec", 65535), Number("dec", 65536)})
                  \union Single({Named(768), Number("hex", 768), Number("dec", 0)}),
   webhook |-> [1..2 -> {Number("size", 0), Number("size", 7), Number("size", -1), Word("unknown")}]]

\* All patterns of one and two components, those of three without empty ones, and two
\* that are too long.
Grants ==
  UNION {[1..n -> {"", "a", "b", "*"}] : n \in 1..2} \union [1..3 -> {"a", "*"}]
    \union {<<"a", "a", "a", "a">>, <<"a", "a", "a", "*">>}

UserSecrets == [u1 |-> <<"s1", "s2">>, u2 |-> <<"s1">>, u3 |-> <<>>]
AllKeys == {<<"u1", "s1">>, <<"u1", "s2">>, <<"u2", "s1">>, <<"u2", "s2">>}

Offers ==
  [schemes : {{}, {{}}, {{"pss"}}, {{"pss", "ecdsa-p256"}}}, curves : {{}, {{"X25519"}}, {{"P256"}}},
   suites : {{"tls13"}, {"rsa-aes256"}, {"ecdsa-aes128", "tls13"}}, host : {"managed", "stranger"}]

\* The two IPv4 addresses, and the two requests, are interchangeable: of the behaviours
\* that differ only by their exchange one is kept, in which they are in order.
InOrder(seq, v, w) == v \in Range(seq) /\ w \in Range(seq) =>
  \E i \in DOMAIN seq : \E j \in i..Len(seq) : seq[i] = v /\ seq[j] = w
AddressesInOrder ==
  /\ 2 \in resolved => 1 \in resolved
  /\ {1, 2} \subseteq DOMAIN server => InOrder(FleetSeq, server[1], server[2])
RequestsInOrder == InOrder(DemandSeq, origin'[1], origin'[2])

\* The lists do not look at the files: headers and files change for one of the lists.
ChangesForOneList == setup = Base \/ (regs' = <<>> /\ changes' = 0)
-----------------------------------------------------------------------------
NoValidation == ValidateInit /\ opts = Plain /\ resolved = {}
NoRequests == WebInit /\ setup = Base
NoSettings == SettingsInit /\ topic = "tokens" /\ keys = {}
OneDecision == PermissionsInit /\ ManagerInit

RequestsInit ==
  /\ \/ part = "validate" /\ ValidateInit /\ AddressesInOrder /\ NoRequests /\ NoSettings
     \/ part = "web" /\ NoValidation /\ WebInit /\ NoSettings
     \/ part = "settings" /\ NoValidation /\ NoRequests /\ SettingsInit
     \/ part \in {"permissions", "manager"} /\ NoValidation /\ NoRequests /\ NoSettings
  /\ OneDecision

RequestsNext ==
  /\ \/ part = "validate" /\ ValidateNext /\ UNCHANGED <<webVars, settingsVars, decided, answer>>
     \/ /\ part = "web" /\ WebNext /\ RequestsInOrder /\ ChangesForOneList
        /\ UNCHANGED <<validateVars, settingsVars, decided, answer>>
     \/ part = "settings" /\ SettingsNext /\ UNCHANGED <<validateVars, webVars, decided, answer>>
     \/ part = "permissions" /\ PermissionsNext /\ UNCHANGED <<validateVars, webVars, settingsVars, answer>>
     \/ part = "manager" /\ ManagerNext /\ UNCHANGED <<validateVars, webVars, settingsVars, decided>>
  /\ UNCHANGED part

\* The goroutines of a validation run.
RequestsSpec ==
  /\ RequestsInit
  /\ [][RequestsNext]_<<part, validateVars, webVars, settingsVars, decided, answer>>
  /\ WF_validateVars(part = "validate" /\ ValidateStep)
=============================================================================
