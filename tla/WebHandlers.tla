---------------------------- MODULE WebHandlers ----------------------------
(***************************************************************************)
(* The HTTP handlers of the library, chained as their constructors let     *)
(* them be: the port 80 redirects, the TLS configuration for clients that  *)
(* send no server name, the address lists of ipacl, the go-get handler,    *)
(* and the handlers that serve files with headers.  Requests run           *)
(* concurrently with each other, with SetHeaders and with changes of the   *)
(* files served.  A text that stands for an address or a prefix is a       *)
(* record of its form, of the address it names and of those it covers.     *)
(***************************************************************************)
EXTENDS Integers, Sequences, FiniteSets

CONSTANTS
  Reqs,       \* requests
  Asks,       \* what a request may ask for, and how it arrives
  Setups,     \* configurations of the address lists and of the private subnet
  Private,    \* the private and loopback addresses
  MaxRegs,    \* bound on the calls of SetHeaders
  MaxChanges  \* bound on the changes of files

VARIABLES
  setup,    \* the configuration the handlers were built from
  asked,    \* the request a client currently makes, NoAsk before it arrives
  origin,   \* the request as first made (history)
  stage,    \* the handler that has the request
  skipped,  \* what SkipHandler said of the request: "unasked", "skip" or "keep"
  special,  \* whether the TLS configuration for clients without a name was used
  reply,    \* the response
  picked,   \* the entry read under the lock by ServeFSWithHeaders
  regs,     \* the calls of SetHeaders made, in order
  entries,  \* ServeFSWithHeaders.entries: the number of the last call for a path, or 0
  missing,  \* the files that cannot be read
  changes,  \* how often a file appeared or disappeared
  counts,   \* the counters given to the handlers
  seen      \* the calls of SetHeaders that clients had seen when the request arrived (history)

webVars == <<setup, asked, origin, stage, skipped, special, reply, picked, regs, entries,
             missing, changes, counts, seen>>

Unknown == "unknown"
NoAsk == [scheme |-> "none"]
NoReply == [code |-> 0, reg |-> 0]
Paths == {"/mod", "/mod/", "/index.html", "/app", "/data", "/challenge"}

AddressText == [form : {"addr", "prefix", "port", "bracket", "bad"}, ip : STRING, ips : SUBSET STRING]
HTTPRequest ==
  [scheme : {"http", "https"}, host : {"none", "site", "acme"}, port : {"none", "443"},
   urlhost : {"none", "site", "other"}, sni : BOOLEAN, get : BOOLEAN, goget : BOOLEAN,
   path : Paths, remote : AddressText, forwarded : Seq(AddressText)]
HandlerSetup ==
  [allow : SUBSET SUBSET AddressText, deny : SUBSET SUBSET AddressText, direct : BOOLEAN,
   proxy : BOOLEAN, subnet : SUBSET AddressText]

\* There is at most one list of those allowed, and a single address covers itself.
ASSUME WebAssumption ==
  /\ IsFiniteSet(Reqs)
  /\ Asks \subseteq HTTPRequest
  /\ \A s \in Setups : /\ s \in HandlerSetup
                       /\ \A l, m \in s.allow : l = m
                       /\ \A t \in s.subnet : t.form = "addr" => t.ips = {t.ip}
-----------------------------------------------------------------------------
(* Addresses.                                                              *)

ParseAddrOrPrefix(t) == IF t.form \in {"addr", "prefix"} THEN t.ips ELSE {Unknown}
ParseOptionalPort(t) == IF t.form \in {"addr", "port"} THEN t.ip ELSE Unknown

RemoteAddrExtractor(r) == ParseOptionalPort(r.remote)

\* Only the first address of the header is used.
XForwardedForExtractor(r) ==
  IF r.forwarded = <<>> THEN Unknown ELSE ParseOptionalPort(Head(r.forwarded))

\* NewACL refuses an empty list and one with a text it cannot parse.
NewACL(texts) ==
  IF texts = {} THEN {Unknown} ELSE UNION {ParseAddrOrPrefix(t) : t \in texts}
ACLFails(texts) == Unknown \in NewACL(texts)

\* Config.AddressExtractor wants exactly one of direct and proxy.
ExtractorFails(s) == s.direct = s.proxy
Extract(s, r) == IF s.direct THEN RemoteAddrExtractor(r) ELSE XForwardedForExtractor(r)

\* NewHandler and NewSkipHandler take a list or nil, here a set of at most one list;
\* without a list everyone is allowed and no one denied.
Denied(s, ip) == \E l \in s.deny : ip \in NewACL(l)
NotAllowed(s, ip) == \E l \in s.allow : ip \notin NewACL(l)

\* The address is what counts, whatever the length of the prefix; a port and
\* brackets are taken off.
IsPrivateIP(t) == t.form # "bad" /\ t.ip \in Private

NewPrivateSubnet(texts) ==
  IF \E t \in texts : ~ IsPrivateIP(t) THEN {Unknown}
  ELSE UNION {ParseAddrOrPrefix(t) : t \in texts}
PrivateContains(s, t) ==
  ParseOptionalPort(t) # Unknown /\ ParseOptionalPort(t) \in NewPrivateSubnet(s.subnet)

\* A program whose handlers cannot be built does not serve.
Built(s) ==
  /\ ~ ExtractorFails(s)
  /\ \A l \in s.allow \union s.deny : ~ ACLFails(l)
  /\ Unknown \notin NewPrivateSubnet(s.subnet)

WebInit ==
  /\ setup \in {s \in Setups : Built(s)}
  /\ asked = [r \in Reqs |-> NoAsk]
  /\ origin = asked
  /\ stage = [r \in Reqs |-> "none"]
  /\ skipped = [r \in Reqs |-> "unasked"]
  /\ special = [r \in Reqs |-> FALSE]
  /\ reply = [r \in Reqs |-> NoReply]
  /\ picked = [r \in Reqs |-> 0]
  /\ regs = <<>>
  /\ entries = [p \in Paths |-> 0]
  /\ missing = {}
  /\ changes = 0
  /\ counts = [error |-> 0, denied |-> 0, notAllowed |-> 0, goget |-> 0]
  /\ seen = [r \in Reqs |-> {}]

Stay == UNCHANGED <<setup, origin, regs, entries, missing, changes, seen>>
Goes(r, to) == stage' = [stage EXCEPT ![r] = to]
Answers(r, code, reg) ==
  /\ Goes(r, "done")
  /\ reply' = [reply EXCEPT ![r] = [code |-> code, reg |-> reg]]

\* A client asks; what it has seen of earlier responses is remembered.
Ask(r, a) ==
  /\ stage[r] = "none"
  /\ asked' = [asked EXCEPT ![r] = a]
  /\ origin' = [origin EXCEPT ![r] = a]
  /\ Goes(r, IF a.scheme = "http" THEN "redirect" ELSE "tls")
  /\ seen' = [seen EXCEPT ![r] = {reply[q].reg : q \in Reqs}]
  /\ UNCHANGED <<setup, skipped, special, reply, picked, regs, entries, missing, changes, counts>>
-----------------------------------------------------------------------------
(* The server of RedirectPort80, with the ACME redirect on its pattern and *)
(* the https redirect on all other paths.                                  *)

ChallengeRewrite(host, a) ==
  [a EXCEPT !.host = host, !.port = "none", !.goget = FALSE, !.urlhost = "none"]

\* Mutant: the target is built from the path alone.
HTTPSTargetPathOnly(host, port, a) ==
  [ChallengeRewrite(host, a) EXCEPT !.scheme = "https", !.port = "443"]

\* The target of RedirectToHTTPSPort for a server given the address host:port.
HTTPSTarget(host, port, a) ==
  [a EXCEPT !.scheme = "https", !.host = IF a.host = "none" THEN host ELSE a.host,
            !.port = IF port = "none" THEN "443" ELSE port]

Port80(r) ==
  /\ stage[r] = "redirect"
  /\ IF asked[r].path = "/challenge"
     THEN /\ asked' = [asked EXCEPT ![r] = ChallengeRewrite("acme", @)]
          /\ Answers(r, 307, 0)
     ELSE /\ asked' = [asked EXCEPT ![r] = HTTPSTarget("site", "none", @)]
          /\ Goes(r, "moved")
          /\ reply' = [reply EXCEPT ![r].code = 301]
  /\ UNCHANGED <<skipped, special, picked, counts>> /\ Stay

\* The client follows the redirect; its URL becomes the target of a new request,
\* which carries the path, the query and the host header.  Every host name used leads
\* to this server.
Follow(r) ==
  /\ stage[r] = "moved"
  /\ asked' = [asked EXCEPT ![r].urlhost = "none"]
  /\ reply' = [reply EXCEPT ![r] = NoReply]
  /\ Goes(r, "tls")
  /\ UNCHANGED <<skipped, special, picked, counts>> /\ Stay

\* GetConfigForClientNoSNI with PrivateSubnet.Contains as its matcher.
NoSNI(s, a) == ~ a.sni /\ PrivateContains(s, a.remote)

Accept(r) ==
  /\ stage[r] = "tls"
  /\ special' = [special EXCEPT ![r] = NoSNI(setup, asked[r])]
  /\ Goes(r, "acl")
  /\ UNCHANGED <<asked, skipped, reply, picked, counts>> /\ Stay
-----------------------------------------------------------------------------
(* aclHandler.ServeHTTP and SkipHandler.Skip.                              *)

\* The counter an address adds to, "none" when the request may go on.
AclCounter(s, ip) ==
  CASE ip = Unknown -> "error"
    [] ip # Unknown /\ Denied(s, ip) -> "denied"
    [] ip # Unknown /\ ~ Denied(s, ip) /\ NotAllowed(s, ip) -> "notAllowed"
    [] OTHER -> "none"

AclServeHTTP(r) ==
  LET c == AclCounter(setup, Extract(setup, asked[r])) IN
  /\ stage[r] = "acl"
  /\ IF c = "none" THEN Goes(r, "goget") /\ UNCHANGED <<reply, counts>>
     ELSE Answers(r, 403, 0) /\ counts' = [counts EXCEPT ![c] = @ + 1]
  /\ UNCHANGED <<asked, skipped, special, picked>> /\ Stay

\* Mutant: only the list of those denied is looked at.
SkipResultDenied(s, ip) == ip # Unknown /\ Denied(s, ip)

SkipResult(s, ip) == ip # Unknown /\ (Denied(s, ip) \/ NotAllowed(s, ip))

\* Its counters are its own and are not modelled.
Skip(r) ==
  /\ stage[r] \in {"acl", "goget", "files", "read", "done"} /\ reply[r].code # 307
  /\ skipped[r] = "unasked"
  /\ skipped' = [skipped EXCEPT ![r] = IF SkipResult(setup, Extract(setup, asked[r])) THEN "skip" ELSE "keep"]
  /\ UNCHANGED <<asked, stage, special, reply, picked, counts>> /\ Stay
-----------------------------------------------------------------------------
(* The go-get handler for the import path site/mod, and the file handlers. *)

TrimSlash(p) == IF p = "/mod/" THEN "/mod" ELSE p
SplitHostnamePath(import) == [host |-> import[1], path |-> TrimSlash(import[2])]
Import == SplitHostnamePath(<<"site", "/mod/">>)

IsGoGet(a) ==
  /\ a.goget
  /\ TrimSlash(a.path) = Import.path
  /\ a.urlhost \in {"none", Import.host}

GoGetServeHTTP(r) ==
  /\ stage[r] = "goget"
  /\ IF IsGoGet(asked[r])
     THEN Answers(r, 200, 0) /\ counts' = [counts EXCEPT !.goget = @ + 1]
     ELSE Goes(r, "files") /\ UNCHANGED <<reply, counts>>
  /\ UNCHANGED <<asked, skipped, special, picked>> /\ Stay

\* ServeWithHeaders.ServeHTTP, the handler after ServeFSWithHeaders, serves /data.
StaticCode(a) == IF ~ a.get THEN 405 ELSE IF a.path # "/data" THEN 404 ELSE 200

\* ServeFSWithHeaders.ServeHTTP up to the unlock, and the next handler.
Lookup(r) ==
  /\ stage[r] = "files"
  /\ IF entries[asked[r].path] = 0
     THEN Answers(r, StaticCode(asked[r]), 0) /\ UNCHANGED picked
     ELSE /\ picked' = [picked EXCEPT ![r] = entries[asked[r].path]]
          /\ Goes(r, "read")
          /\ UNCHANGED reply
  /\ UNCHANGED <<asked, skipped, special, counts>> /\ Stay

\* The path of the file, computed by SetHeaders: /app is rewritten to /index.html and
\* the leading slash is taken off.
FsPath(p) == IF p \in {"/app", "/index.html"} THEN "index.html" ELSE p

\* http.ServeFileFS sends a request for index.html to its directory.
ServeFileFS(a) ==
  IF a.path = "/index.html" THEN 301 ELSE IF FsPath(a.path) \in missing THEN 404 ELSE 200

\* The rest of ServeFSWithHeaders.ServeHTTP: the headers are set before the file is
\* read, and stay on the 404 of a file that cannot be.
Read(r) ==
  LET headers == regs[picked[r]].headers
      code == IF headers = "empty" THEN ServeFileFS(asked[r])
              ELSE IF FsPath(asked[r].path) \in missing THEN 404 ELSE 200
  IN /\ stage[r] = "read"
     /\ Answers(r, code, picked[r])
     /\ UNCHANGED <<asked, skipped, special, picked, counts>> /\ Stay

\* Mutant: only one of the paths gets the new headers.
SetHeadersOnce(headers, paths) ==
  /\ Len(regs) < MaxRegs
  /\ regs' = Append(regs, [headers |-> headers, paths |-> paths])
  /\ entries' = [entries EXCEPT !["/app"] = Len(regs) + 1]
  /\ UNCHANGED <<setup, asked, origin, stage, skipped, special, reply, picked, missing, changes, counts, seen>>

SetHeaders(headers, paths) ==
  /\ Len(regs) < MaxRegs
  /\ regs' = Append(regs, [headers |-> headers, paths |-> paths])
  /\ entries' = [p \in Paths |-> IF p \in paths THEN Len(regs) + 1 ELSE entries[p]]
  /\ UNCHANGED <<setup, asked, origin, stage, skipped, special, reply, picked, missing, changes, counts, seen>>

\* A file of the fs.FS appears or disappears.
ChangeFile(f) ==
  /\ changes < MaxChanges
  /\ changes' = changes + 1
  /\ missing' = (missing \ {f}) \union ({f} \ missing)
  /\ UNCHANGED <<setup, asked, origin, stage, skipped, special, reply, picked, regs, entries, counts, seen>>

Handle(r) ==
  Port80(r) \/ Follow(r) \/ Accept(r) \/ AclServeHTTP(r) \/ GoGetServeHTTP(r) \/ Lookup(r) \/ Read(r)

WebNext ==
  \/ \E r \in Reqs, a \in Asks : Ask(r, a)
  \/ \E r \in Reqs : Handle(r) \/ Skip(r)
  \/ \E h \in {"set", "empty"}, ps \in {{"/app", "/index.html"}, {"/app"}} : SetHeaders(h, ps)
  \/ ChangeFile("index.html")

WebSpec == WebInit /\ [][WebNext]_webVars
-----------------------------------------------------------------------------
Finished == {r \in Reqs : stage[r] = "done"}

\* The request handled was checked against the lists, not redirected to another host.
IsChecked(r) == stage[r] = "done" /\ reply[r].code # 307
Checked == {r \in Reqs : IsChecked(r)}

Stages == {"none", "redirect", "moved", "tls", "acl", "goget", "files", "read", "done"}
Reply == [code : {0, 200, 301, 307, 403, 404, 405}, reg : Nat]
Registration == [headers : {"set", "empty"}, paths : SUBSET Paths]
Counters == [{"error", "denied", "notAllowed", "goget"} -> Nat]

\* The variables keep their types.
WebTypeOK ==
  /\ setup \in Setups /\ Built(setup)
  /\ asked \in [Reqs -> HTTPRequest \union {NoAsk}] /\ origin \in [Reqs -> HTTPRequest \union {NoAsk}]
  /\ stage \in [Reqs -> Stages] /\ reply \in [Reqs -> Reply] /\ picked \in [Reqs -> Nat]
  /\ skipped \in [Reqs -> {"unasked", "skip", "keep"}] /\ special \in [Reqs -> BOOLEAN]
  /\ regs \in Seq(Registration) /\ entries \in [Paths -> Nat] /\ seen \in [Reqs -> SUBSET Nat]
  /\ counts \in Counters

\* What the lists say of a request.
Verdict(r) == AclCounter(setup, Extract(setup, asked[r]))

\* A go-get request for the module, as it was first made: the redirect takes the host
\* off the URL.
AsksForModule(a) ==
  /\ a.goget /\ a.path \in {"/mod", "/mod/"}
  /\ a.urlhost # "other" \/ a.scheme = "http"

\* A request that the handlers look at is, but for a redirect, the one first made; it
\* has passed the handlers before the one that has it, and what was said of it on the
\* way is what would be said of it now.
Handled(r) ==
  /\ IF stage[r] = "none" THEN asked[r] = NoAsk ELSE asked[r] # NoAsk /\ origin[r] # NoAsk
  /\ stage[r] # "none" => asked[r].remote = origin[r].remote /\ asked[r].forwarded = origin[r].forwarded
  /\ stage[r] = "redirect" => asked[r] = origin[r] /\ origin[r].scheme = "http"
  /\ stage[r] = "moved" => /\ asked[r].goget = origin[r].goget /\ asked[r].path = origin[r].path
                           /\ origin[r].scheme = "http"
  /\ stage[r] \notin {"moved", "done"} => reply[r] = NoReply
  /\ reply[r].code = 307 => stage[r] = "done"
  /\ stage[r] \in {"tls", "acl", "goget", "files", "read"} \/ IsChecked(r)
       => (IsGoGet(asked[r]) <=> AsksForModule(origin[r]))
  /\ stage[r] \in {"goget", "files", "read"} => Verdict(r) = "none"
  /\ stage[r] \in {"files", "read"} => ~ IsGoGet(asked[r])
  /\ IsChecked(r) => (reply[r].code = 403 <=> Verdict(r) # "none")
  /\ skipped[r] # "unasked" =>
       /\ stage[r] \in {"acl", "goget", "files", "read"} \/ IsChecked(r)
       /\ skipped[r] = "skip" <=> SkipResult(setup, Extract(setup, asked[r]))
  /\ special[r] => stage[r] \in {"acl", "goget", "files", "read", "done"} /\ NoSNI(setup, asked[r])

HandledInOrder == \A r \in Reqs : Handled(r)

\* However the requests interleave, each is forbidden exactly when its address is
\* unreadable, on the list of those denied, or off the list of those allowed, and
\* is counted once, by the counter of the first of these reasons (aclHandler.ServeHTTP).
ForbiddenCountedOnce ==
  LET ip(r) == Extract(setup, origin[r])
      unread == {r \in Checked : ip(r) = Unknown}
      denied == {r \in Checked : \E t \in UNION setup.deny : ip(r) \in t.ips}
      listed == {r \in Checked : setup.allow = {} \/ \E t \in UNION setup.allow : ip(r) \in t.ips}
      unlisted == Checked \ (listed \union unread)
  IN /\ {r \in Checked : reply[r].code = 403} = denied \union unlisted \union unread
     /\ counts.error = Cardinality(unread)
     /\ counts.denied = Cardinality(denied)
     /\ counts.notAllowed = Cardinality(unlisted \ denied)

\* A request that SkipHandler leaves out of the log is one that the handler built
\* from the same lists forbids, and one it keeps is forbidden only because its
\* address could not be read (SkipHandler.Skip against aclHandler.ServeHTTP).
SkipAgrees ==
  \A r \in Checked :
    /\ skipped[r] = "skip" => reply[r].code = 403
    /\ skipped[r] = "keep" /\ reply[r].code = 403 => Extract(setup, asked[r]) = Unknown

\* A request made at port 80 is answered as the same request made over https is:
\* go-get requests for the module reach the go-get handler, with or without a
\* slash and a redirect, unless the URL they arrive with names another host, and
\* each adds one to its counter (RedirectToHTTPSPort, goget.handler.ServeHTTP).
GoGetAnswered ==
  LET allowed == {r \in Checked : reply[r].code # 403}
  IN counts.goget = Cardinality({r \in allowed : AsksForModule(origin[r])})

\* A path is served with the headers of the last call of SetHeaders for it, and a
\* request for it keeps an entry no older than any a client had seen before.
EntriesAreLatest ==
  /\ \A p \in Paths : /\ entries[p] <= Len(regs)
                      /\ \A n \in 1..Len(regs) : p \in regs[n].paths => n <= entries[p]
  /\ \A r \in Reqs :
       /\ picked[r] <= Len(regs) /\ reply[r].reg <= Len(regs)
       /\ \A m \in seen[r] : m <= Len(regs)
       /\ stage[r] = "read" =>
            \A m \in seen[r] : \A n \in 1..m : asked[r].path \in regs[n].paths => n <= picked[r]

\* A client that has seen the headers of one call of SetHeaders never gets, in a
\* later request for another path of that call, the headers of an earlier call:
\* the paths of a call change together (ServeFSWithHeaders.SetHeaders).
RegistrationsInOrder ==
  /\ EntriesAreLatest
  /\ \A r \in Finished :
       reply[r].code \in {200, 301, 404} =>
         \A m \in seen[r] : \A n \in 1..m :
           asked[r].path \in regs[n].paths /\ ~ IsGoGet(asked[r]) => n <= reply[r].reg

\* With prefixes no wider than the private ranges, only a client at a private
\* address that sends no server name is given the configuration for clients
\* without one (GetConfigForClientNoSNI, NewPrivateSubnet).
SpecialOnlyPrivate ==
  \A r \in Reqs :
    special[r] =>
      /\ ~ asked[r].sni
      /\ (\A t \in setup.subnet : t.form = "prefix" => t.ips \subseteq Private) => asked[r].remote.ip \in Private

\* The address of the client decides, in the same way at each place that looks at it:
\* in the handler with its counters, for the log, and for clients without a server
\* name (aclHandler.ServeHTTP, SkipHandler.Skip, GetConfigForClientNoSNI).
AddressDecides ==
  WebTypeOK /\ HandledInOrder /\ ForbiddenCountedOnce /\ SkipAgrees /\ SpecialOnlyPrivate
=============================================================================
