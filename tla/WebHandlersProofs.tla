------------------------- MODULE WebHandlersProofs --------------------------
(***************************************************************************)
(* The chain of HTTP handlers, for any requests, allow and deny lists and  *)
(* registrations of headers, in any order: what answers a request, what is *)
(* counted for it, and which headers it gets.                              *)
(***************************************************************************)
EXTENDS WebHandlers, FiniteSetTheorems, TLAPS

\* What the redirects and the client that follows them make of a request.
LEMMA RedirectKeeps ==
  ASSUME NEW a \in HTTPRequest
  PROVE  /\ HTTPSTarget("site", "none", a) \in HTTPRequest
         /\ HTTPSTarget("site", "none", a).remote = a.remote
         /\ HTTPSTarget("site", "none", a).forwarded = a.forwarded
         /\ HTTPSTarget("site", "none", a).goget = a.goget
         /\ HTTPSTarget("site", "none", a).path = a.path
         /\ ChallengeRewrite("acme", a) \in HTTPRequest
         /\ ChallengeRewrite("acme", a).remote = a.remote
         /\ ChallengeRewrite("acme", a).forwarded = a.forwarded
         /\ [a EXCEPT !.urlhost = "none"] \in HTTPRequest
         /\ [a EXCEPT !.urlhost = "none"].remote = a.remote
         /\ [a EXCEPT !.urlhost = "none"].forwarded = a.forwarded
         /\ [a EXCEPT !.urlhost = "none"].goget = a.goget
         /\ [a EXCEPT !.urlhost = "none"].path = a.path
         /\ [a EXCEPT !.urlhost = "none"].urlhost = "none"
BY Zenon DEF HTTPRequest, HTTPSTarget, ChallengeRewrite

\* A request is one of the module as the handler sees it.
LEMMA ModuleRequest ==
  ASSUME NEW a \in HTTPRequest
  PROVE  /\ IsGoGet(a) <=> a.goget /\ a.path \in {"/mod", "/mod/"} /\ a.urlhost # "other"
         /\ a # NoAsk /\ a.path \in Paths
BY DEF HTTPRequest, Paths, IsGoGet, Import, SplitHostnamePath, TrimSlash, NoAsk

\* The variables that hold something for each request.
LEMMA Domains ==
  ASSUME WebTypeOK
  PROVE  /\ DOMAIN asked = Reqs /\ DOMAIN origin = Reqs /\ DOMAIN stage = Reqs /\ DOMAIN skipped = Reqs
         /\ DOMAIN special = Reqs /\ DOMAIN reply = Reqs /\ DOMAIN picked = Reqs /\ DOMAIN seen = Reqs
BY Zenon DEF WebTypeOK

\* A request that no step is about is handled as before.
LEMMA HandledFrame ==
  ASSUME NEW p \in Reqs, Handled(p), setup' = setup,
         asked'[p] = asked[p], origin'[p] = origin[p], stage'[p] = stage[p],
         skipped'[p] = skipped[p], special'[p] = special[p], reply'[p] = reply[p]
  PROVE  Handled(p)'
BY DEF Handled, IsChecked, Verdict

\* A request that arrives is handled by no one yet.
LEMMA AskHandled ==
  ASSUME WebTypeOK, HandledInOrder, NEW r \in Reqs, NEW a \in Asks, Ask(r, a)
  PROVE  WebTypeOK' /\ HandledInOrder'
<1>1. a \in HTTPRequest /\ a # NoAsk
  BY ModuleRequest, WebAssumption, Zenon
<1>2. WebTypeOK'
  BY <1>1 DEF WebTypeOK, Stages, Reply, Ask, Goes
<1>3. Handled(r)'
  <2>1. stage[r] = "none" /\ reply[r] = NoReply /\ skipped[r] = "unasked" /\ ~ special[r]
    BY DEF HandledInOrder, Handled, Ask, IsChecked
  <2>2. /\ asked'[r] = a /\ origin'[r] = a /\ reply'[r] = NoReply
        /\ stage'[r] = IF a.scheme = "http" THEN "redirect" ELSE "tls"
        /\ skipped'[r] = "unasked" /\ ~ special'[r]
    BY <2>1, Domains, Zenon DEF Ask, Goes
  <2>3. a.scheme # "http" => (IsGoGet(a) <=> AsksForModule(a))
    BY <1>1, ModuleRequest, Zenon DEF AsksForModule
  <2>4. QED
    BY <1>1, <2>2, <2>3 DEF Handled, IsChecked, NoReply
<1>4. ASSUME NEW p \in Reqs, p # r
      PROVE  Handled(p)'
  BY <1>4, HandledFrame, Zenon DEF WebTypeOK, HandledInOrder, Ask, Goes
<1>5. QED
  BY <1>2, <1>3, <1>4, Zenon DEF HandledInOrder

\* A handler works on one request.
LEMMA OneAtATime ==
  ASSUME WebTypeOK, HandledInOrder, NEW r \in Reqs, Handle(r) \/ Skip(r)
  PROVE  /\ \A p \in Reqs : p # r =>
              (/\ asked'[p] = asked[p] /\ stage'[p] = stage[p] /\ skipped'[p] = skipped[p]
               /\ special'[p] = special[p] /\ reply'[p] = reply[p] /\ picked'[p] = picked[p]
               /\ Handled(p)')
         /\ UNCHANGED <<setup, origin, regs, entries, seen>>
<1>1. UNCHANGED <<setup, origin, regs, entries, seen>>
  BY Zenon DEF Handle, Port80, Follow, Accept, AclServeHTTP, GoGetServeHTTP, Lookup, Read, Skip, Stay
<1>2. ASSUME NEW p \in Reqs, p # r
      PROVE  /\ asked'[p] = asked[p] /\ stage'[p] = stage[p] /\ skipped'[p] = skipped[p]
             /\ special'[p] = special[p] /\ reply'[p] = reply[p] /\ picked'[p] = picked[p]
  BY <1>2, Domains DEF Handle, Port80, Follow, Accept, AclServeHTTP, GoGetServeHTTP, Lookup, Read, Skip,
              Goes, Answers
<1>3. QED
  BY <1>1, <1>2, HandledFrame, Zenon DEF HandledInOrder

\* A step of a handler keeps the types.
LEMMA StepTypes ==
  ASSUME WebTypeOK, HandledInOrder, NEW r \in Reqs, Handle(r) \/ Skip(r)
  PROVE  WebTypeOK'
<1> DEFINE Some == HTTPRequest \union {NoAsk}
           Typed(as, st, sk, sp, re, pi, co) ==
             /\ as \in [Reqs -> Some] /\ st \in [Reqs -> Stages] /\ sk \in [Reqs -> {"unasked", "skip", "keep"}]
             /\ sp \in [Reqs -> BOOLEAN] /\ re \in [Reqs -> Reply] /\ pi \in [Reqs -> Nat] /\ co \in Counters
<1>1. Typed(asked, stage, skipped, special, reply, picked, counts)
  BY Zenon DEF WebTypeOK
<1>2. SUFFICES Typed(asked', stage', skipped', special', reply', picked', counts')
  BY OneAtATime, Zenon DEF WebTypeOK
<1>3. asked[r] \in HTTPRequest /\ asked[r].path \in Paths
  <2>1. stage[r] # "none"
    BY Zenon DEF Handle, Port80, Follow, Accept, AclServeHTTP, GoGetServeHTTP, Lookup, Read, Skip
  <2>2. QED
    BY <1>1, <2>1, ModuleRequest DEF HandledInOrder, Handled
<1>4. /\ \A code \in {200, 301, 307, 403, 404, 405}, n \in Nat : [code |-> code, reg |-> n] \in Reply
      /\ NoReply \in Reply /\ [reply[r] EXCEPT !.code = 301] \in Reply
  BY <1>1 DEF Reply, NoReply
<1>5. \A c \in {"error", "denied", "notAllowed", "goget"} : [counts EXCEPT ![c] = @ + 1] \in Counters
  BY <1>1 DEF Counters
<1>6. {"moved", "tls", "acl", "goget", "files", "read", "done"} \subseteq Stages
  BY Zenon DEF Stages
<1>7. HTTPRequest \subseteq Some
  BY Zenon
<1> HIDE DEF Some
<1>8. CASE Port80(r) \/ Follow(r)
  <2>1. PICK a \in HTTPRequest : asked' = [asked EXCEPT ![r] = a]
    BY <1>3, <1>8, RedirectKeeps, Zenon DEF Port80, Follow
  <2>2. QED
    BY <1>1, <1>4, <1>6, <1>7, <1>8, <2>1 DEF Port80, Follow, Answers, Goes
<1>9. CASE Accept(r) \/ Skip(r)
  <2>1. NoSNI(setup, asked[r]) \in BOOLEAN
    BY Zenon DEF NoSNI
  <2>2. QED
    BY <1>1, <1>6, <1>9, <2>1 DEF Accept, Goes, Skip
<1>10. CASE AclServeHTTP(r)
  <2> DEFINE c == AclCounter(setup, Extract(setup, asked[r]))
  <2>1. c \in {"error", "denied", "notAllowed", "none"}
    BY Zenon DEF AclCounter
  <2>2. c # "none" => [counts EXCEPT ![c] = @ + 1] \in Counters
    BY <1>5, <2>1, Zenon
  <2>3. QED
    BY <1>1, <1>4, <1>6, <1>10, <2>2 DEF AclServeHTTP, Answers, Goes
<1>11. CASE GoGetServeHTTP(r)
  <2>1. [counts EXCEPT !.goget = @ + 1] \in Counters
    BY <1>1 DEF Counters
  <2>2. QED
    BY <1>1, <1>4, <1>6, <1>11, <2>1 DEF GoGetServeHTTP, Answers, Goes
<1>12. CASE Lookup(r)
  <2>1. entries[asked[r].path] \in Nat
    BY <1>3, Zenon DEF WebTypeOK
  <2>2. QED
    BY <1>1, <1>4, <1>6, <1>12, <2>1 DEF Lookup, StaticCode, Answers, Goes
<1>13. CASE Read(r)
  BY <1>1, <1>4, <1>6, <1>13 DEF Read, ServeFileFS, Answers, Goes
<1>14. QED
  BY <1>8, <1>9, <1>10, <1>11, <1>12, <1>13, Zenon DEF Handle

\* A step of a handler leaves its request handled in order.
LEMMA StepHandled ==
  ASSUME WebTypeOK, HandledInOrder, NEW r \in Reqs, Handle(r) \/ Skip(r)
  PROVE  Handled(r)'
<1>1. /\ stage[r] # "none" => asked[r] \in HTTPRequest /\ origin[r] \in HTTPRequest
      /\ reply[r] \in Reply
      /\ Handled(r) /\ UNCHANGED <<setup, origin>>
  BY OneAtATime DEF WebTypeOK, HandledInOrder, Handled
<1>2. CASE Port80(r) /\ asked[r].path = "/challenge"
  <2>1. PICK a \in HTTPRequest : /\ a.remote = asked[r].remote /\ a.forwarded = asked[r].forwarded
                                 /\ asked' = [asked EXCEPT ![r] = a]
    BY <1>1, <1>2, RedirectKeeps, Zenon DEF Port80
  <2>2. QED
    BY <1>1, <1>2, <2>1, ModuleRequest, Domains DEF Handled, IsChecked, Port80, Answers, Goes
<1>3. CASE Port80(r) /\ asked[r].path # "/challenge"
  <2>1. PICK a \in HTTPRequest : /\ a.remote = asked[r].remote /\ a.forwarded = asked[r].forwarded
                                 /\ a.goget = asked[r].goget /\ a.path = asked[r].path
                                 /\ asked' = [asked EXCEPT ![r] = a]
    BY <1>1, <1>3, RedirectKeeps, Zenon DEF Port80
  <2>2. QED
    BY <1>1, <1>3, <2>1, ModuleRequest, Domains DEF Handled, IsChecked, Port80, Goes, Reply
<1>4. CASE Follow(r)
  <2>1. PICK a \in HTTPRequest : /\ a.remote = asked[r].remote /\ a.forwarded = asked[r].forwarded
                                 /\ a.goget = asked[r].goget /\ a.path = asked[r].path
                                 /\ a.urlhost = "none" /\ asked' = [asked EXCEPT ![r] = a]
    BY <1>1, <1>4, RedirectKeeps, Zenon DEF Follow
  <2>2. IsGoGet(a) <=> AsksForModule(origin[r])
    BY <1>1, <1>4, <2>1, ModuleRequest DEF Handled, AsksForModule, Follow
  <2>3. QED
    BY <1>1, <1>4, <2>1, <2>2, ModuleRequest, Domains DEF Handled, IsChecked, Follow, Goes, NoReply
<1>5. CASE Accept(r)
  BY <1>1, <1>5, Domains DEF Handled, IsChecked, Verdict, Accept, Goes, NoReply
<1>6. CASE Skip(r)
  BY <1>1, <1>6, Domains DEF Handled, IsChecked, Verdict, Skip
<1>7. CASE AclServeHTTP(r)
  BY <1>1, <1>7, Domains DEF Handled, IsChecked, Verdict, AclServeHTTP, Answers, Goes, NoReply
<1>8. CASE GoGetServeHTTP(r)
  BY <1>1, <1>8, Domains DEF Handled, IsChecked, Verdict, GoGetServeHTTP, Answers, Goes, NoReply
<1>9. CASE Lookup(r)
  BY <1>1, <1>9, Domains DEF Handled, IsChecked, Verdict, Lookup, StaticCode, Answers, Goes, NoReply
<1>10. CASE Read(r)
  BY <1>1, <1>10, Domains DEF Handled, IsChecked, Verdict, Read, ServeFileFS, Answers, Goes
<1>11. QED
  BY <1>2, <1>3, <1>4, <1>5, <1>6, <1>7, <1>8, <1>9, <1>10, ZenonT(30) DEF Handle
-----------------------------------------------------------------------------
(* The counters.                                                           *)

Counted(c) == {r \in Checked : Verdict(r) = c}
Modules == {r \in Checked : reply[r].code # 403 /\ IsGoGet(asked[r])}

\* The counters count the requests that are done.
CountsKept ==
  /\ \A c \in {"error", "denied", "notAllowed"} : counts[c] = Cardinality(Counted(c))
  /\ counts["goget"] = Cardinality(Modules)

\* One more request is counted.
LEMMA OneMore ==
  ASSUME NEW S \in SUBSET Reqs, NEW r \in Reqs, r \notin S
  PROVE  Cardinality(S \union {r}) = Cardinality(S) + 1
BY FS_Subset, FS_AddElement, WebAssumption, Zenon

\* The counters keep counting when no request is done.
LEMMA CountsFrame ==
  ASSUME CountsKept, Checked' = Checked, UNCHANGED <<setup, counts>>,
         \A p \in Checked : asked'[p] = asked[p] /\ reply'[p] = reply[p]
  PROVE  CountsKept'
<1>1. ASSUME NEW c PROVE Counted(c)' = Counted(c)
  BY Zenon DEF Counted, Verdict
<1>2. Modules' = Modules
  BY DEF Modules
<1>3. QED
  BY <1>1, <1>2, Zenon DEF CountsKept

\* A request that is done adds to the counter of what was said of it, if any.
LEMMA CountsStep ==
  ASSUME WebTypeOK, CountsKept, NEW r \in Reqs, r \notin Checked, Checked' = Checked \union {r},
         UNCHANGED setup, \A p \in Checked : asked'[p] = asked[p] /\ reply'[p] = reply[p],
         reply'[r].code = 403 <=> Verdict(r)' # "none",
         \/ Verdict(r)' = "none" /\ ~ IsGoGet(asked'[r]) /\ counts' = counts
         \/ Verdict(r)' = "none" /\ IsGoGet(asked'[r]) /\ counts' = [counts EXCEPT !["goget"] = @ + 1]
         \/ /\ Verdict(r)' \in {"error", "denied", "notAllowed"}
            /\ counts' = [counts EXCEPT ![Verdict(r)'] = @ + 1]
  PROVE  CountsKept'
<1>1. counts \in [{"error", "denied", "notAllowed", "goget"} -> Nat]
  BY Zenon DEF WebTypeOK, Counters
<1>2. ASSUME NEW c
      PROVE  /\ Counted(c)' = IF Verdict(r)' = c THEN Counted(c) \union {r} ELSE Counted(c)
             /\ Counted(c) \in SUBSET Reqs /\ r \notin Counted(c)
  BY DEF Counted, Verdict, Checked, IsChecked
<1>3. /\ Modules' = IF Verdict(r)' = "none" /\ IsGoGet(asked'[r]) THEN Modules \union {r} ELSE Modules
      /\ Modules \in SUBSET Reqs /\ r \notin Modules
  BY DEF Modules, Checked, IsChecked
<1>4. /\ \A c \in {"error", "denied", "notAllowed"} :
           Cardinality(Counted(c)') = IF Verdict(r)' = c THEN Cardinality(Counted(c)) + 1 ELSE Cardinality(Counted(c))
      /\ Cardinality(Modules') = IF Verdict(r)' = "none" /\ IsGoGet(asked'[r]) THEN Cardinality(Modules) + 1
                                 ELSE Cardinality(Modules)
  BY <1>2, <1>3, OneMore
<1>5. QED
  BY <1>1, <1>4 DEF CountsKept

\* The counters keep counting when a handler takes a step.
LEMMA CountsNext ==
  ASSUME WebTypeOK, HandledInOrder, CountsKept, NEW r \in Reqs, Handle(r) \/ Skip(r)
  PROVE  CountsKept'
<1>1. /\ \A p \in Reqs : p # r => asked'[p] = asked[p] /\ stage'[p] = stage[p] /\ reply'[p] = reply[p]
      /\ UNCHANGED setup
  BY OneAtATime, Zenon
<1>2. \A p \in Reqs : p # r => (p \in Checked' <=> p \in Checked)
  BY <1>1 DEF Checked, IsChecked
<1>3. DOMAIN stage = Reqs /\ DOMAIN reply = Reqs
  BY Zenon DEF WebTypeOK
<1>4. CASE Port80(r) \/ Follow(r) \/ Accept(r)
  <2>1. r \notin Checked /\ r \notin Checked' /\ UNCHANGED counts
    BY <1>3, <1>4 DEF Port80, Follow, Accept, Checked, IsChecked, Goes, Answers
  <2>2. QED
    BY <1>1, <1>2, <2>1, CountsFrame DEF Checked, IsChecked
<1>5. CASE Skip(r)
  <2>1. UNCHANGED <<asked, stage, reply, counts>>
    BY <1>5, Zenon DEF Skip
  <2>2. QED
    BY <1>1, <2>1, CountsFrame, Zenon DEF Checked, IsChecked
<1>6. ASSUME AclServeHTTP(r) \/ GoGetServeHTTP(r) \/ Lookup(r) \/ Read(r)
      PROVE  CountsKept'
  <2>1. /\ stage[r] # "done" /\ UNCHANGED asked
        /\ Verdict(r)' = Verdict(r) /\ Verdict(r) \in {"error", "denied", "notAllowed", "none"}
    BY <1>1, <1>6, Zenon DEF AclServeHTTP, GoGetServeHTTP, Lookup, Read, Verdict, AclCounter
  <2>2. r \notin Checked
    BY <2>1, Zenon DEF Checked, IsChecked
  <2>3. CASE stage'[r] # "done"
    <3>1. UNCHANGED counts
      BY <1>3, <1>6, <2>3, ZenonT(30) DEF AclServeHTTP, GoGetServeHTTP, Lookup, Read, Answers, Goes
    <3>2. r \notin Checked'
      BY <2>3, Zenon DEF Checked, IsChecked
    <3>3. QED
      BY <1>1, <1>2, <2>1, <2>2, <3>1, <3>2, CountsFrame DEF Checked, IsChecked
  <2>4. CASE stage'[r] = "done"
    <3>1. Handled(r)'
      BY <1>6, StepHandled, Zenon DEF Handle
    <3>2. reply'[r].code # 307
      BY <1>3, <1>6, <2>4 DEF AclServeHTTP, GoGetServeHTTP, Lookup, Read, Answers, Goes, StaticCode, ServeFileFS
    <3>3. r \in Checked'
      BY <2>4, <3>2, Zenon DEF Checked, IsChecked
    <3>4. reply'[r].code = 403 <=> Verdict(r)' # "none"
      BY <2>4, <3>1, <3>2, Zenon DEF Handled, IsChecked
    <3>5. Checked' = Checked \union {r} /\ \A p \in Checked : asked'[p] = asked[p] /\ reply'[p] = reply[p]
      BY <1>1, <1>2, <2>2, <3>3 DEF Checked, IsChecked
    <3>6. CASE AclServeHTTP(r)
      <4>1. Verdict(r) # "none" /\ counts' = [counts EXCEPT ![Verdict(r)] = @ + 1]
        BY <1>3, <2>4, <3>6, Zenon DEF AclServeHTTP, Verdict, Goes
      <4>2. /\ Verdict(r)' \in {"error", "denied", "notAllowed"}
            /\ counts' = [counts EXCEPT ![Verdict(r)'] = @ + 1]
        BY <2>1, <4>1, Zenon
      <4>3. QED
        BY <1>1, <2>2, <3>4, <3>5, <4>2, CountsStep, ZenonT(30)
    <3>7. CASE GoGetServeHTTP(r)
      <4>1. IsGoGet(asked[r]) /\ counts' = [counts EXCEPT !["goget"] = @ + 1] /\ Verdict(r) = "none"
        BY <1>3, <2>4, <3>7, ZenonT(30) DEF GoGetServeHTTP, Goes, HandledInOrder, Handled
      <4>2. QED
        BY <1>1, <2>1, <2>2, <3>4, <3>5, <4>1, CountsStep, ZenonT(30)
    <3>8. CASE Lookup(r) \/ Read(r)
      <4>1. ~ IsGoGet(asked[r]) /\ counts' = counts /\ Verdict(r) = "none"
        BY <3>8 DEF Lookup, Read, HandledInOrder, Handled
      <4>2. QED
        BY <1>1, <2>1, <2>2, <3>4, <3>5, <4>1, CountsStep, ZenonT(30)
    <3>9. QED
      BY <1>6, <3>6, <3>7, <3>8, Zenon
  <2>5. QED
    BY <2>3, <2>4, Zenon
<1>7. QED
  BY <1>4, <1>5, <1>6, Zenon DEF Handle
-----------------------------------------------------------------------------
(* The headers.                                                            *)

\* A step that registers nothing keeps the entries, and those of other requests.
LEMMA EntriesNext ==
  ASSUME WebTypeOK, HandledInOrder, RegistrationsInOrder, NEW r \in Reqs, Handle(r) \/ Skip(r)
  PROVE  RegistrationsInOrder'
<1> DEFINE n == Len(regs)
           Newest(e) == \A m \in seen[r] : \A k \in 1..m : asked[r].path \in regs[k].paths => k <= e
<1>1. /\ n \in Nat /\ seen[r] \subseteq Nat /\ reply[r] \in Reply
      /\ stage[r] = "files" => asked[r].path \in Paths
  BY ModuleRequest DEF WebTypeOK, HandledInOrder, Handled
<1>2. /\ picked[r] <= n /\ reply[r].reg <= n /\ (\A m \in seen[r] : m <= n)
      /\ stage[r] = "read" => Newest(picked[r])
      /\ stage[r] = "done" /\ reply[r].code \in {200, 301, 404} /\ ~ IsGoGet(asked[r]) => Newest(reply[r].reg)
      /\ \A p \in Paths : entries[p] <= n /\ \A k \in 1..n : p \in regs[k].paths => k <= entries[p]
  BY DEF RegistrationsInOrder, EntriesAreLatest, Finished
<1>3. stage[r] = "files" => entries[asked[r].path] <= n /\ Newest(entries[asked[r].path])
  BY <1>1, <1>2
<1> HIDE DEF Newest, n
<1>4. /\ picked'[r] <= n /\ reply'[r].reg <= n
      /\ stage'[r] = "read" => asked'[r] = asked[r] /\ Newest(picked'[r])
      /\ stage'[r] = "done" /\ reply'[r].code \in {200, 301, 404} =>
           asked'[r] = asked[r] /\ (~ IsGoGet(asked[r]) => Newest(reply'[r].reg))
  <2>1. CASE Port80(r) \/ Follow(r)
    BY <1>1, <1>2, <2>1, Domains DEF Port80, Follow, Answers, Goes, NoReply, Reply
  <2>2. CASE Accept(r) \/ Skip(r) \/ AclServeHTTP(r) \/ GoGetServeHTTP(r)
    BY <1>1, <1>2, <2>2, Domains DEF Accept, Skip, AclServeHTTP, GoGetServeHTTP, Answers, Goes
  <2>3. CASE Lookup(r)
    BY <1>1, <1>2, <1>3, <2>3, Domains DEF Lookup, Answers, Goes
  <2>4. CASE Read(r)
    BY <1>2, <2>4, Domains DEF Read, Answers, Goes
  <2>5. QED
    BY <2>1, <2>2, <2>3, <2>4, Zenon DEF Handle
<1>5. EntriesAreLatest'
  BY <1>4, OneAtATime, ZenonT(30) DEF RegistrationsInOrder, EntriesAreLatest, Newest, n
<1>6. ASSUME NEW p \in Finished', reply'[p].code \in {200, 301, 404}, NEW m \in seen'[p], NEW k \in 1..m,
             asked'[p].path \in regs'[k].paths, ~ IsGoGet(asked'[p])
      PROVE  k <= reply'[p].reg
  BY <1>4, <1>6, OneAtATime DEF RegistrationsInOrder, Finished, Newest
<1>7. QED
  BY <1>5, <1>6 DEF RegistrationsInOrder

\* A call of SetHeaders is newer than any call before.
LEMMA SetHeadersKeeps ==
  ASSUME WebTypeOK, HandledInOrder, RegistrationsInOrder, NEW h \in {"set", "empty"},
         NEW ps \in SUBSET Paths, SetHeaders(h, ps)
  PROVE  WebTypeOK' /\ RegistrationsInOrder'
<1> DEFINE n == Len(regs)
<1>1. /\ regs' = Append(regs, [headers |-> h, paths |-> ps])
      /\ entries' = [p \in Paths |-> IF p \in ps THEN n + 1 ELSE entries[p]]
      /\ UNCHANGED <<setup, asked, origin, stage, skipped, special, reply, picked, counts, seen>>
  BY Zenon DEF SetHeaders
<1>2. /\ n \in Nat /\ entries \in [Paths -> Nat] /\ seen \in [Reqs -> SUBSET Nat] /\ picked \in [Reqs -> Nat]
      /\ regs \in Seq(Registration)
      /\ \A p \in Reqs : reply[p].reg \in Nat
  BY DEF WebTypeOK, Reply
<1>3. /\ regs' \in Seq(Registration)
      /\ Len(regs') = n + 1 /\ regs'[n + 1].paths = ps /\ \A k \in 1..n : regs'[k] = regs[k]
  BY <1>1, <1>2 DEF Registration
<1>4. entries' \in [Paths -> Nat]
  BY <1>1, <1>2
<1>5. WebTypeOK'
  BY <1>1, <1>3, <1>4, Zenon DEF WebTypeOK
<1> HIDE DEF n
<1>6. /\ \A p \in Paths : /\ entries[p] \in Nat /\ entries[p] <= n
                           /\ \A k \in 1..n : p \in regs[k].paths => k <= entries[p]
      /\ \A p \in Reqs : \A m \in seen[p] : m \in Nat /\ m <= n
  BY <1>2, Zenon DEF RegistrationsInOrder, EntriesAreLatest, n
<1>7. ASSUME NEW p \in Paths
      PROVE  /\ entries'[p] <= n + 1
             /\ \A k \in 1..n + 1 : p \in regs'[k].paths => k <= entries'[p]
  BY <1>1, <1>2, <1>3, <1>6
<1>8. \A p \in Reqs : \A m \in seen[p] : \A k \in 1..m : regs'[k] = regs[k]
  BY <1>2, <1>3, <1>6
<1>9. \A p \in Reqs : /\ picked[p] <= n + 1 /\ reply[p].reg <= n + 1
                      /\ \A m \in seen[p] : m <= n + 1
  BY <1>2, <1>6 DEF RegistrationsInOrder, EntriesAreLatest, n
<1>10. EntriesAreLatest'
  <2>1. \A p \in Reqs : stage[p] = "read" =>
          \A m \in seen[p] : \A k \in 1..m : asked[p].path \in regs'[k].paths => k <= picked[p]
    BY <1>8, ZenonT(30) DEF RegistrationsInOrder, EntriesAreLatest
  <2>2. QED
    BY <1>1, <1>3, <1>7, <1>9, <2>1, ZenonT(30) DEF EntriesAreLatest
<1>11. ASSUME NEW p \in Finished', reply'[p].code \in {200, 301, 404}, NEW m \in seen'[p], NEW k \in 1..m,
              asked'[p].path \in regs'[k].paths, ~ IsGoGet(asked'[p])
       PROVE  k <= reply'[p].reg
  <2>1. p \in Finished /\ p \in Reqs /\ m \in seen[p] /\ regs'[k] = regs[k]
    BY <1>1, <1>8, <1>11, ZenonT(30) DEF Finished
  <2>2. QED
    BY <1>1, <1>11, <2>1, ZenonT(30) DEF RegistrationsInOrder
<1>12. QED
  BY <1>5, <1>10, <1>11 DEF RegistrationsInOrder

\* A request that arrives is not counted, and has seen no headers newer than the last.
LEMMA AskKeeps ==
  ASSUME WebTypeOK, HandledInOrder, CountsKept, RegistrationsInOrder,
         NEW r \in Reqs, NEW a \in Asks, Ask(r, a)
  PROVE  CountsKept' /\ RegistrationsInOrder'
<1>1. /\ stage[r] = "none" /\ stage'[r] \in {"redirect", "tls"}
      /\ seen'[r] = {reply[q].reg : q \in Reqs}
      /\ \A p \in Reqs : p # r => asked'[p] = asked[p] /\ stage'[p] = stage[p] /\ seen'[p] = seen[p]
      /\ UNCHANGED <<setup, reply, picked, regs, entries, counts>>
  BY Zenon DEF WebTypeOK, Ask, Goes
<1>2. Checked' = Checked /\ r \notin Checked /\ Finished' = Finished /\ r \notin Finished
  BY <1>1 DEF Checked, IsChecked, Finished
<1>3. CountsKept'
  BY <1>1, <1>2, CountsFrame DEF Checked, IsChecked
<1>4. EntriesAreLatest'
  BY <1>1 DEF RegistrationsInOrder, EntriesAreLatest
<1>5. QED
  BY <1>1, <1>2, <1>3, <1>4 DEF RegistrationsInOrder, Finished
-----------------------------------------------------------------------------
(* What the lists say, in terms of the texts they were built from.         *)

\* An address is on a list when it is covered by one of its texts.
LEMMA ListsSay ==
  ASSUME NEW s \in Setups, Built(s), NEW ip
  PROVE  /\ Denied(s, ip) <=> \E t \in UNION s.deny : ip \in t.ips
         /\ ~ Denied(s, Unknown)
         /\ NotAllowed(s, ip) <=> ~ (s.allow = {} \/ \E t \in UNION s.allow : ip \in t.ips)
<1>1. ASSUME NEW l \in s.allow \union s.deny, NEW i
      PROVE  /\ i \in NewACL(l) <=> \E t \in l : i \in t.ips
             /\ Unknown \notin NewACL(l)
  <2>1. l # {} /\ \A t \in l : Unknown \notin ParseAddrOrPrefix(t)
    BY Zenon DEF Built, ACLFails, NewACL
  <2>2. \A t \in l : ParseAddrOrPrefix(t) = t.ips
    BY <2>1, Zenon DEF ParseAddrOrPrefix
  <2>3. QED
    BY <2>1, <2>2, Zenon DEF NewACL
<1>2. \A l, m \in s.allow : l = m
  BY WebAssumption, Zenon
<1>3. QED
  BY <1>1, <1>2 DEF Denied, NotAllowed

\* A request that was checked is refused for the reason the lists give.
LEMMA VerdictSays ==
  ASSUME WebTypeOK, HandledInOrder, NEW r \in Checked
  PROVE  LET ip == Extract(setup, origin[r])
             onDeny == \E t \in UNION setup.deny : ip \in t.ips
             onAllow == setup.allow = {} \/ \E t \in UNION setup.allow : ip \in t.ips
         IN /\ ip = Extract(setup, asked[r])
            /\ Verdict(r) = "error" <=> ip = Unknown
            /\ Verdict(r) = "denied" <=> onDeny
            /\ Verdict(r) = "notAllowed" <=> ~ onAllow /\ ip # Unknown /\ ~ onDeny
            /\ reply[r].code = 403 <=> ip = Unknown \/ onDeny \/ ~ onAllow
            /\ SkipResult(setup, ip) <=> ip # Unknown /\ (onDeny \/ ~ onAllow)
<1> DEFINE ip == Extract(setup, origin[r])
           onDeny == \E t \in UNION setup.deny : ip \in t.ips
           onAllow == setup.allow = {} \/ \E t \in UNION setup.allow : ip \in t.ips
<1>1. /\ r \in Reqs /\ stage[r] = "done" /\ setup \in Setups /\ Built(setup)
      /\ asked[r].remote = origin[r].remote /\ asked[r].forwarded = origin[r].forwarded
      /\ reply[r].code = 403 <=> Verdict(r) # "none"
  BY DEF WebTypeOK, HandledInOrder, Handled, Checked, IsChecked
<1>2. ip = Extract(setup, asked[r])
  BY <1>1, ZenonT(30) DEF Extract, RemoteAddrExtractor, XForwardedForExtractor
<1>3. /\ Denied(setup, ip) <=> onDeny
      /\ ip = Unknown => ~ onDeny
      /\ NotAllowed(setup, ip) <=> ~ onAllow
  BY <1>1, ListsSay
<1> HIDE DEF ip, onDeny, onAllow
<1>4. /\ Verdict(r) = "error" <=> ip = Unknown
      /\ Verdict(r) = "denied" <=> onDeny
      /\ Verdict(r) = "notAllowed" <=> ~ onAllow /\ ip # Unknown /\ ~ onDeny
      /\ Verdict(r) = "none" <=> onAllow /\ ip # Unknown /\ ~ onDeny
  BY <1>2, <1>3, Zenon DEF Verdict, AclCounter
<1>5. reply[r].code = 403 <=> ip = Unknown \/ onDeny \/ ~ onAllow
  BY <1>1, <1>4, ZenonT(30)
<1>6. SkipResult(setup, ip) <=> ip # Unknown /\ (onDeny \/ ~ onAllow)
  BY <1>3, Zenon DEF SkipResult
<1>7. QED
  BY <1>2, <1>4, <1>5, <1>6, Zenon DEF ip, onDeny, onAllow

\* What the invariant says of the address lists.
LEMMA InvariantDecides ==
  ASSUME WebTypeOK, HandledInOrder, CountsKept
  PROVE  AddressDecides
<1>1. ForbiddenCountedOnce
  <2> DEFINE ip(r) == Extract(setup, origin[r])
             unread == {r \in Checked : ip(r) = Unknown}
             denied == {r \in Checked : \E t \in UNION setup.deny : ip(r) \in t.ips}
             listed == {r \in Checked : setup.allow = {} \/ \E t \in UNION setup.allow : ip(r) \in t.ips}
             unlisted == Checked \ (listed \union unread)
  <2>1. \A r \in Checked : /\ Verdict(r) = "error" <=> r \in unread
                           /\ Verdict(r) = "denied" <=> r \in denied
                           /\ Verdict(r) = "notAllowed" <=> r \in unlisted \ denied
                           /\ reply[r].code = 403 <=> r \in denied \union unlisted \union unread
    BY VerdictSays
  <2>2. unread \subseteq Checked /\ denied \subseteq Checked /\ unlisted \subseteq Checked
    BY Zenon
  <2> HIDE DEF unread, denied, unlisted
  <2>3. unread = Counted("error") /\ denied = Counted("denied") /\ unlisted \ denied = Counted("notAllowed")
    BY <2>1, <2>2, Zenon DEF Counted
  <2>4. {r \in Checked : reply[r].code = 403} = denied \union unlisted \union unread
    BY <2>1, <2>2
  <2>5. /\ counts.error = Cardinality(unread) /\ counts.denied = Cardinality(denied)
        /\ counts.notAllowed = Cardinality(unlisted \ denied)
    BY <2>3, Zenon DEF CountsKept
  <2>6. QED
    BY <2>4, <2>5, Zenon DEF ForbiddenCountedOnce, unread, denied, unlisted
<1>2. SkipAgrees
  <2>1. ASSUME NEW r \in Checked
        PROVE  /\ skipped[r] = "skip" => reply[r].code = 403
               /\ skipped[r] = "keep" /\ reply[r].code = 403 => Extract(setup, asked[r]) = Unknown
    <3>1. r \in Reqs /\ (skipped[r] # "unasked" =>
                           (skipped[r] = "skip" <=> SkipResult(setup, Extract(setup, asked[r]))))
      BY ZenonT(30) DEF HandledInOrder, Handled, Checked, IsChecked
    <3>2. QED
      BY <3>1, VerdictSays
  <2>2. QED
    BY <2>1, Zenon DEF SkipAgrees
<1>3. SpecialOnlyPrivate
  <2>1. ASSUME NEW r \in Reqs, special[r]
        PROVE  /\ ~ asked[r].sni
               /\ (\A t \in setup.subnet : t.form = "prefix" => t.ips \subseteq Private)
                    => asked[r].remote.ip \in Private
    <3>1. NoSNI(setup, asked[r]) /\ setup \in Setups /\ Built(setup)
      BY <2>1, Zenon DEF HandledInOrder, Handled, WebTypeOK
    <3>2. /\ ~ asked[r].sni /\ ParseOptionalPort(asked[r].remote) = asked[r].remote.ip
          /\ asked[r].remote.ip \in NewPrivateSubnet(setup.subnet) /\ Unknown \notin NewPrivateSubnet(setup.subnet)
      BY <3>1, Zenon DEF NoSNI, PrivateContains, ParseOptionalPort, Built
    <3>3. PICK t \in setup.subnet : IsPrivateIP(t) /\ asked[r].remote.ip \in ParseAddrOrPrefix(t)
                                     /\ Unknown \notin ParseAddrOrPrefix(t)
      BY <3>2, Zenon DEF NewPrivateSubnet
    <3>4. t.form \in {"addr", "prefix"} /\ asked[r].remote.ip \in t.ips /\ t.ip \in Private
      BY <3>3, Zenon DEF ParseAddrOrPrefix, IsPrivateIP
    <3>5. t.form = "addr" => t.ips = {t.ip}
      BY <3>1, WebAssumption, Zenon
    <3>6. QED
      BY <3>2, <3>4, <3>5, Zenon
  <2>2. QED
    BY <2>1, Zenon DEF SpecialOnlyPrivate
<1>4. QED
  BY <1>1, <1>2, <1>3, Zenon DEF AddressDecides

\* What the invariant says of go-get requests.
LEMMA InvariantAnswersGoGet ==
  ASSUME WebTypeOK, HandledInOrder, CountsKept
  PROVE  GoGetAnswered
<1>1. \A r \in Checked : IsGoGet(asked[r]) <=> AsksForModule(origin[r])
  BY ZenonT(30) DEF HandledInOrder, Handled, Checked, IsChecked
<1>2. Modules = {r \in {q \in Checked : reply[q].code # 403} : AsksForModule(origin[r])}
  BY <1>1, Zenon DEF Modules
<1>3. QED
  BY <1>2, Zenon DEF CountsKept, GoGetAnswered

\* The inductive invariant: a request is where it is because of what was said of it,
\* the counters count the requests that are done, and entries are never replaced by
\* older ones.
WebInv == WebTypeOK /\ HandledInOrder /\ CountsKept /\ RegistrationsInOrder

\* The invariant holds before any request.
LEMMA WebInitInv == WebInit => WebInv
<1> SUFFICES ASSUME WebInit PROVE WebInv
  BY Zenon
<1>1. WebTypeOK
  BY DEF WebInit, WebTypeOK, NoReply, Reply, Stages, Counters
<1>2. HandledInOrder
  BY DEF WebInit, HandledInOrder, Handled, NoReply, Checked, IsChecked
<1>3. CountsKept
  <2>1. Checked = {}
    BY Zenon DEF WebInit, Checked, IsChecked
  <2>2. Modules = {} /\ \A c : Counted(c) = {}
    BY <2>1, Zenon DEF Modules, Counted
  <2>3. counts = [error |-> 0, denied |-> 0, notAllowed |-> 0, goget |-> 0]
    BY Zenon DEF WebInit
  <2>4. QED
    BY <2>2, <2>3, FS_EmptySet DEF CountsKept
<1>4. RegistrationsInOrder
  BY DEF WebInit, RegistrationsInOrder, EntriesAreLatest, Finished, NoReply
<1>5. QED
  BY <1>1, <1>2, <1>3, <1>4, Zenon DEF WebInv

\* Every step keeps the invariant.
LEMMA WebNextInv == WebInv /\ [WebNext]_webVars => WebInv'
<1> SUFFICES ASSUME WebInv, [WebNext]_webVars PROVE WebInv'
  BY Zenon
<1> USE DEF WebInv
<1>1. ASSUME NEW r \in Reqs, NEW a \in Asks, Ask(r, a)
      PROVE  WebInv'
  BY <1>1, AskHandled, AskKeeps, Zenon
<1>2. ASSUME NEW r \in Reqs, Handle(r) \/ Skip(r)
      PROVE  WebInv'
  <2>1. WebTypeOK' /\ Handled(r)'
    BY <1>2, StepTypes, StepHandled, Zenon
  <2>2. HandledInOrder'
    BY <1>2, <2>1, OneAtATime, Zenon DEF HandledInOrder
  <2>3. QED
    BY <1>2, <2>1, <2>2, CountsNext, EntriesNext, Zenon
<1>3. ASSUME NEW h \in {"set", "empty"}, NEW ps \in SUBSET Paths, SetHeaders(h, ps)
      PROVE  WebInv'
  <2>1. UNCHANGED <<setup, asked, origin, stage, skipped, special, reply, counts>>
    BY <1>3, Zenon DEF SetHeaders
  <2>2. HandledInOrder' /\ CountsKept'
    BY <2>1, HandledFrame, CountsFrame, Zenon DEF HandledInOrder, Checked, IsChecked
  <2>3. QED
    BY <1>3, <2>2, SetHeadersKeeps, Zenon
<1>4. ASSUME UNCHANGED <<setup, asked, origin, stage, skipped, special, reply, picked, regs, entries, counts, seen>>
      PROVE  WebInv'
  <2>1. HandledInOrder' /\ CountsKept'
    BY <1>4, HandledFrame, CountsFrame, ZenonT(30) DEF HandledInOrder, Checked, IsChecked
  <2>2. WebTypeOK'
    BY <1>4, Zenon DEF WebTypeOK
  <2>3. RegistrationsInOrder'
    BY <1>4 DEF RegistrationsInOrder, EntriesAreLatest, Finished
  <2>4. QED
    BY <2>1, <2>2, <2>3, Zenon
<1>5. QED
  <2>1. \A ps \in {{"/app", "/index.html"}, {"/app"}} : ps \in SUBSET Paths
    BY Zenon DEF Paths
  <2>2. QED
    BY <1>1, <1>2, <1>3, <1>4, <2>1, Zenon DEF WebNext, ChangeFile, webVars

\* Whatever the lists, the subnet and the requests, the address of a client decides.
THEOREM AddressIsDecisive == WebSpec => []AddressDecides
<1>1. WebInv => AddressDecides
  BY InvariantDecides, Zenon DEF WebInv
<1>2. QED
  BY <1>1, WebInitInv, WebNextInv, PTL DEF WebSpec

\* Whatever the requests, go-get requests for the module are answered and counted.
THEOREM ModulesAreAnswered == WebSpec => []GoGetAnswered
<1>1. WebInv => GoGetAnswered
  BY InvariantAnswersGoGet, Zenon DEF WebInv
<1>2. QED
  BY <1>1, WebInitInv, WebNextInv, PTL DEF WebSpec

\* However calls of SetHeaders and requests interleave, headers are never older than
\* those a client had seen.
THEOREM HeadersAreInOrder == WebSpec => []RegistrationsInOrder
<1>1. WebInv => RegistrationsInOrder
  BY Zenon DEF WebInv
<1>2. QED
  BY <1>1, WebInitInv, WebNextInv, PTL DEF WebSpec
=============================================================================
