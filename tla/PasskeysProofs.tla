--------------------------- MODULE PasskeysProofs ---------------------------
(***************************************************************************)
(* Passkeys, for any set of clients and any number of ceremonies and       *)
(* requests: the invariant of its maps, cookies and requests, what follows *)
(* from it for ceremonies, logins and counters, and that sessions are      *)
(* one-time tickets.  Then, for any patterns, that permissions are         *)
(* inclusion.                                                              *)
(***************************************************************************)
EXTENDS Passkeys, Permissions, SequenceTheorems, TLAPS

\* The sequences and the records of a state that has its types.
LEMMA Shapes ==
  ASSUME TypeOK
  PROVE  /\ Len(ceremony) \in Nat /\ DOMAIN ceremony = 1..Len(ceremony) /\ Ceremonies = 1..Len(ceremony)
         /\ Len(req) \in Nat /\ DOMAIN req = 1..Len(req)
         /\ \A k \in Ceremonies : ceremony[k] \in Ceremony /\ k \in Keys
         /\ \A i \in DOMAIN req : req[i] \in Request
         /\ \A c \in Clients : jar[c] \in Jar
BY PasskeysAssumption DEF TypeOK, Ceremonies, Keys

\* What is in a cookie jar, by the kind of ceremony.
LEMMA Cookies ==
  ASSUME NEW cookies \in Jar, NEW op \in Ops, NEW key \in Keys \cup {None}
  PROVE  /\ cookies[op] \in Keys \cup {None} /\ cookies.login \in Login
         /\ SetCookie(cookies, op, key) \in Jar
         /\ SetCookie(cookies, op, key)[op] = key
         /\ SetCookie(cookies, op, key).login = cookies.login
         /\ \A o \in Ops \ {op} : SetCookie(cookies, op, key)[o] = cookies[o]
<1>1. CASE op = "registration"
  BY <1>1, Zenon DEF Jar, Ops, SetCookie
<1>2. CASE op = "authentication"
  BY <1>2, Zenon DEF Jar, Ops, SetCookie
<1>3. QED
  BY <1>1, <1>2, Zenon DEF Ops

\* Begin: the ceremony and its session are new.
LEMMA BeginKeeps ==
  ASSUME PasskeysSound, NEW c \in Clients, NEW op \in Ops, NEW n \in Keys,
         NewCeremony(c, op), n = FreshKey,
         sessions' = Put(sessions, n, IF op = "registration" THEN n ELSE None)
  PROVE  PasskeysSound'
<1> DEFINE r == [client |-> c, op |-> op, seen |-> FALSE, alone |-> Settled(c, op)]
<1>1. TypeOK /\ TicketInv /\ CookieInv /\ UserInv /\ \A k \in Ceremonies : Lone(k) => Undisturbed(k)
  BY Zenon DEF PasskeysSound
<1>2. n = Len(ceremony) + 1 /\ ceremony' = Append(ceremony, r) /\ UNCHANGED <<now, users, req, jar, passkey>>
  BY Zenon DEF NewCeremony, FreshKey
<1>3. r \in Ceremony /\ r.client = c /\ r.op = op /\ r.seen = FALSE /\ r.alone = Settled(c, op)
  BY Zenon DEF Ceremony, Settled
<1> HIDE DEF r
<1>4. /\ ceremony' \in Seq(Ceremony) /\ Len(ceremony') = n /\ Ceremonies' = 1..n
      /\ ceremony'[n] = r /\ \A k \in Ceremonies : ceremony'[k] = ceremony[k]
      /\ n \notin Ceremonies /\ Ceremonies' = Ceremonies \cup {n}
      /\ \A k \in Ceremonies : k < n
  BY <1>1, <1>2, <1>3, Shapes DEF Ceremonies, TypeOK
<1>5. /\ DOMAIN sessions' = DOMAIN sessions \cup {n}
      /\ sessions'[n] = IF op = "registration" THEN n ELSE None
      /\ \A k \in DOMAIN sessions : sessions'[k] = sessions[k]
      /\ sessions' \in [DOMAIN sessions' -> Keys \cup {None}]
  BY <1>1, <1>2, <1>4, Zenon DEF Put, TypeOK, TicketInv
<1>6. TypeOK'
  BY <1>1, <1>2, <1>4, <1>5, PasskeysAssumption DEF TypeOK, Keys
<1>7. TicketInv'
  BY <1>1, <1>2, <1>3, <1>4, <1>5 DEF TicketInv
<1>8. ASSUME NEW c1, NEW o1
      PROVE  Of(c1, o1)' = Of(c1, o1) \cup (IF c1 = c /\ o1 = op THEN {n} ELSE {})
  BY <1>3, <1>4, Zenon DEF Of
<1>9. \A c1, o1 : \A k \in Of(c1, o1) : k \in Ceremonies /\ k \in Of(c1, o1)'
  BY <1>8 DEF Of
<1>10. CookieInv'
  BY <1>1, <1>2, <1>4, <1>9 DEF CookieInv
<1>11. UserInv'
  BY <1>1, <1>2, SMTT(30) DEF UserInv
<1>12. ASSUME NEW k \in Ceremonies, Lone(k)'
       PROVE  Undisturbed(k)'
  <2>1. ceremony'[k] = ceremony[k] /\ \A j \in Kind(k)' : j <= k
    BY <1>4, <1>12, Zenon DEF Lone
  <2>2. Kind(k)' = Kind(k)
    BY <1>3, <1>4, <2>1 DEF Kind, Of
  <2>3. Lone(k)
    BY <1>2, <1>12, <2>1, <2>2, Zenon DEF Lone
  <2>4. Undisturbed(k) /\ \A j \in Kind(k) : j \in Ceremonies
    BY <1>1, <2>3, Zenon DEF Kind, Of
  <2>5. QED
    BY <1>2, <1>4, <1>5, <2>1, <2>2, <2>4 DEF Undisturbed
<1>13. ASSUME Lone(n)'
       PROVE  Undisturbed(n)'
  <2>1. Settled(c, op) /\ Kind(n)' = Of(c, op) \cup {n}
    BY <1>3, <1>4, <1>13, Zenon DEF Lone, Kind, Of
  <2>2. \A i \in DOMAIN req : /\ req[i].chal \in Ceremonies /\ req[i].chal # n
                              /\ ceremony[req[i].chal].seen
                              /\ req[i].chal \in Of(c, op) => req[i].pc = "done"
    BY <1>1, <1>4, <2>1 DEF CookieInv, Settled, Of
  <2>3. \A j \in Of(c, op) : ceremony'[j].seen /\ \E i \in DOMAIN req : req[i].chal = j
    BY <1>4, <2>1, <2>2 DEF Settled
  <2>4. QED
    BY <1>2, <1>3, <1>4, <1>5, <2>1, <2>2, <2>3, ZenonT(30) DEF Undisturbed
<1>14. QED
  BY <1>4, <1>6, <1>7, <1>10, <1>11, <1>12, <1>13, Zenon DEF PasskeysSound

\* A Finish handler is handed a session that nobody had, or nothing.
LEMMA SendGrants ==
  ASSUME PasskeysSound, NEW key, NEW n, n = Len(req) + 1, n <= MaxRequests,
         DOMAIN sessions' = DOMAIN sessions \ {key},
         DOMAIN req' = DOMAIN req \cup {n}, \A i \in DOMAIN req : req'[i] = req[i],
         req'[n].key = key, req'[n].got <=> key \in DOMAIN sessions
  PROVE  [Ticket!Next]_<<DOMAIN sessions, Holder>>
<1>1. n \in 1..MaxRequests /\ n \notin DOMAIN req
  BY Shapes, PasskeysAssumption DEF PasskeysSound
<1>2. CASE key \notin DOMAIN sessions
  <2>1. \A k \in Keys : {i \in DOMAIN req' : req'[i].key = k /\ req'[i].got}
                          = {i \in DOMAIN req : req[i].key = k /\ req[i].got}
    BY <1>1, <1>2, Zenon
  <2>2. Holder' = Holder /\ DOMAIN sessions' = DOMAIN sessions
    BY <1>2, <2>1, ZenonT(30) DEF Holder
  <2>3. QED
    BY <2>2, Zenon
<1>3. CASE key \in DOMAIN sessions
  <2>1. key \in Keys /\ \A i \in DOMAIN req : ~ (req[i].key = key /\ req[i].got)
    BY <1>3, Shapes, Zenon DEF PasskeysSound, TicketInv
  <2>2. Holder[key] = {}
    BY <2>1, Zenon DEF Holder
  <2>3. \A k \in Keys : {i \in DOMAIN req' : req'[i].key = k /\ req'[i].got}
                          = IF k = key THEN {n} ELSE {i \in DOMAIN req : req[i].key = k /\ req[i].got}
    BY <1>1, <1>3, <2>1
  <2>4. Holder' = [Holder EXCEPT ![key] = {n}]
    BY <2>1, <2>3, ZenonT(30) DEF Holder
  <2>5. Ticket!Grant(key, n)
    BY <1>3, <2>2, <2>4, Zenon DEF Ticket!Grant
  <2>6. QED
    BY <1>1, <2>1, <2>5, Zenon DEF Ticket!Next
<1>4. QED
  BY <1>2, <1>3, Zenon

\* Finish: the request is new, it gets the session of its cookie if that is there, and
\* the session is gone.
LEMMA SendKeeps ==
  ASSUME PasskeysSound, NEW c \in Clients, NEW op \in Ops, NEW chal, NEW user \in Keys,
         NEW count \in Nat, count <= Len(req) + 1,
         NEW status \in {0, 400, 500}, NEW key, key = jar[c][op], NEW n, n = Len(req) + 1,
         Finish(c, op, chal, user, count, status),
         sessions' = Remove(sessions, key),
         status = 0 => key \in DOMAIN sessions,
         key \in DOMAIN sessions /\ (op = "registration" => sessions[key] # None) => status = 0
  PROVE  PasskeysSound' /\ [Ticket!Next]_<<DOMAIN sessions, Holder>> /\ UNCHANGED users
<1> DEFINE r == [pc |-> IF status = 0 THEN "took" ELSE "answered",
                 op |-> op, client |-> c, key |-> key, chal |-> chal,
                 user |-> user, count |-> count, read |-> 0,
                 got |-> key \in DOMAIN sessions, known |-> user \in DOMAIN users,
                 status |-> status, login |-> NoLogin]
<1>1. TypeOK /\ TicketInv /\ CookieInv /\ UserInv /\ \A k \in Ceremonies : Lone(k) => Undisturbed(k)
  BY Zenon DEF PasskeysSound
<1>2. /\ req' = Append(req, r) /\ passkey' = [passkey EXCEPT ![c] = Put(@, user, count)]
      /\ Len(req) < MaxRequests /\ chal \in Of(c, op) /\ ceremony[chal].seen
      /\ UNCHANGED <<now, users, ceremony, jar>>
  BY Zenon DEF Finish
<1>3. key \in Keys \cup {None} /\ chal \in Ceremonies /\ chal \in Keys /\ NoLogin \in Login
  BY <1>1, <1>2, Shapes, Cookies DEF Of, NoLogin, Login
<1>4. /\ r \in Request /\ r.op = op /\ r.client = c /\ r.key = key /\ r.chal = chal /\ r.user = user
      /\ r.count = count /\ r.status = status /\ r.login = NoLogin
      /\ r.pc = IF status = 0 THEN "took" ELSE "answered"
      /\ (r.got <=> key \in DOMAIN sessions) /\ (r.known <=> user \in DOMAIN users)
  <2>1. (key \in DOMAIN sessions) \in BOOLEAN /\ (user \in DOMAIN users) \in BOOLEAN /\ 0 \in Nat
    OBVIOUS
  <2>2. r \in Request
    BY <1>3, <2>1 DEF Request
  <2>3. QED
    BY <2>2, ZenonT(30)
<1> HIDE DEF r
<1>5. /\ req' \in Seq(Request) /\ Len(req') = n /\ DOMAIN req' = DOMAIN req \cup {n} /\ n \notin DOMAIN req
      /\ req'[n] = r /\ \A i \in DOMAIN req : req'[i] = req[i]
      /\ Len(req) \in Nat /\ Len(req) < n
  BY <1>1, <1>2, <1>4, Shapes, SMTT(30) DEF TypeOK
<1>6. /\ DOMAIN sessions' = DOMAIN sessions \ {key}
      /\ \A k \in DOMAIN sessions' : sessions'[k] = sessions[k]
      /\ sessions' \in [DOMAIN sessions' -> Keys \cup {None}]
  BY <1>1 DEF Remove, TypeOK
<1>7. /\ DOMAIN passkey' = Clients /\ DOMAIN passkey'[c] = DOMAIN passkey[c] \cup {user}
      /\ passkey'[c][user] = count
      /\ \A u \in DOMAIN passkey[c] \ {user} : passkey'[c][u] = passkey[c][u]
      /\ \A d \in Clients \ {c} : passkey'[d] = passkey[d]
      /\ passkey'[c] \in [DOMAIN passkey'[c] -> Nat]
  BY <1>1, <1>2, SMTT(30) DEF Put, TypeOK
<1>8. TypeOK'
  BY <1>1, <1>2, <1>5, <1>6, <1>7, PasskeysAssumption, SMTT(30) DEF TypeOK
<1>9. Ceremonies' = Ceremonies /\ \A c1, o1 : Of(c1, o1)' = Of(c1, o1)
  BY <1>2, ZenonT(30) DEF Ceremonies, Of
<1>10. TicketInv'
  BY <1>1, <1>2, <1>4, <1>5, <1>6, <1>9, SMTT(20) DEF TicketInv
<1>11. CookieInv'
  BY <1>1, <1>2, <1>3, <1>4, <1>5, <1>9, SMTT(20) DEF CookieInv, Of
<1>12. UserInv'
  <2>1. \A i \in DOMAIN req : req[i] \in Request
    BY <1>1, Shapes, Zenon
  <2>2. ASSUME NEW d \in Clients, NEW u \in DOMAIN passkey'[d]
        PROVE  passkey'[d][u] <= n
    <3>1. u \in DOMAIN passkey[d] => passkey[d][u] \in Nat /\ passkey[d][u] <= Len(req)
      BY <1>1 DEF UserInv, TypeOK
    <3>2. QED
      BY <1>5, <1>7, <3>1
  <2>3. \A u \in DOMAIN users : users[u] <= n
    BY <1>1, <1>5 DEF UserInv, TypeOK
  <2>4. \A i \in DOMAIN req : req[i].count <= n /\ req[i].user \in DOMAIN passkey'[req[i].client]
    <3>1. \A i \in DOMAIN req : /\ req[i].count \in Nat /\ req[i].count <= Len(req)
                                /\ req[i].client \in Clients
                                /\ req[i].user \in DOMAIN passkey[req[i].client]
      BY <1>1, <2>1 DEF UserInv, Request
    <3>2. QED
      BY <1>5, <1>7, <3>1, SMTT(30)
  <2>5. QED
    BY <1>1, <1>2, <1>4, <1>5, <1>7, <2>2, <2>3, <2>4, SMTT(30) DEF UserInv
<1>13. ASSUME NEW k \in Ceremonies, Lone(k)'
       PROVE  Undisturbed(k)'
  <2>1. Kind(k)' = Kind(k) /\ ceremony'[k] = ceremony[k]
    BY <1>2, Zenon DEF Kind, Of, Ceremonies
  <2>2. Lone(k)
    BY <1>5, <1>13, <2>1, SMTT(20) DEF Lone
  <2>3. Undisturbed(k)
    BY <1>1, <2>2, Zenon
  <2>4. CASE chal \in Kind(k)
    <3>1. c = ceremony[k].client /\ op = ceremony[k].op
      BY <1>2, <2>4, ZenonT(30) DEF Kind, Of
    <3>2. \A i \in DOMAIN req : req[i].chal # chal
      BY <1>4, <1>5, <1>13, <2>1, <2>4, SMTT(30) DEF Lone
    <3>3. chal = k
      BY <2>3, <2>4, <3>2, SMTT(30) DEF Undisturbed
    <3>4. key = k /\ k \in DOMAIN sessions
      BY <1>2, <2>3, <3>1, <3>2, <3>3, ZenonT(30) DEF Undisturbed
    <3>5. status = 0
      BY <1>1, <3>1, <3>4, Shapes, SMTT(20) DEF TicketInv, Keys, None
    <3>6. QED
      BY <1>2, <1>4, <1>5, <2>1, <2>3, <3>3, <3>4, <3>5, SMTT(30) DEF Undisturbed
  <2>5. CASE chal \notin Kind(k)
    <3>1. ~ (c = ceremony[k].client /\ op = ceremony[k].op) /\ chal # k
      BY <1>2, <2>5, Zenon DEF Kind, Of
    <3>2. key # k
      BY <1>1, <3>1, Shapes, SMTT(30) DEF CookieInv, Of, Keys, None
    <3>3. QED
      BY <1>2, <1>4, <1>5, <1>6, <2>1, <2>3, <2>5, <3>1, <3>2, SMTT(30) DEF Undisturbed
  <2>6. QED
    BY <2>4, <2>5, Zenon
<1>14. PasskeysSound'
  BY <1>8, <1>9, <1>10, <1>11, <1>12, <1>13, Zenon DEF PasskeysSound
<1>15. [Ticket!Next]_<<DOMAIN sessions, Holder>>
  <2>1. n <= MaxRequests /\ req'[n].key = key /\ (req'[n].got <=> key \in DOMAIN sessions)
    BY <1>2, <1>4, <1>5, PasskeysAssumption
  <2>2. QED
    BY <1>5, <1>6, <2>1, SendGrants, ZenonT(30)
<1>16. QED
  BY <1>2, <1>14, <1>15, Zenon

\* A ceremony that its client has seen.
LEMMA SeenCeremony ==
  ASSUME NEW r \in Ceremony
  PROVE  LET e == [r EXCEPT !.seen = TRUE]
         IN  e \in Ceremony /\ e.client = r.client /\ e.op = r.op /\ e.alone = r.alone /\ e.seen
BY ZenonT(30) DEF Ceremony

\* The answer to Begin sets the cookie of the ceremony.
LEMMA BeginAnsweredKeeps ==
  ASSUME PasskeysSound, NEW n \in Ceremonies, BeginAnswered(n)
  PROVE  PasskeysSound' /\ Ceremonies' = Ceremonies /\ UNCHANGED <<sessions, req>>
<1> DEFINE c == ceremony[n].client
           op == ceremony[n].op
<1>1. TypeOK /\ TicketInv /\ CookieInv /\ UserInv /\ \A k \in Ceremonies : Lone(k) => Undisturbed(k)
  BY Zenon DEF PasskeysSound
<1>2. /\ ~ ceremony[n].seen /\ ceremony' = [ceremony EXCEPT ![n].seen = TRUE]
      /\ jar' = [jar EXCEPT ![c] = SetCookie(@, op, n)]
      /\ UNCHANGED <<now, sessions, users, req, passkey>>
  BY Zenon DEF BeginAnswered
<1>3. /\ \A k \in Ceremonies : ceremony[k] \in Ceremony /\ k \in Keys
      /\ c \in Clients /\ op \in Ops /\ jar[c] \in Jar /\ Ceremonies = 1..Len(ceremony)
      /\ DOMAIN ceremony = Ceremonies
  BY <1>1, Shapes, Zenon DEF Ceremony
<1>4. [ceremony[n] EXCEPT !.seen = TRUE] \in Ceremony /\ ceremony' = [ceremony EXCEPT ![n] = [@ EXCEPT !.seen = TRUE]]
  BY <1>2, <1>3, SeenCeremony, ZenonT(30)
<1>5. ceremony' \in Seq(Ceremony) /\ Len(ceremony') = Len(ceremony) /\ Ceremonies' = Ceremonies
  BY <1>1, <1>3, <1>4, ExceptSeq DEF TypeOK, Ceremonies
<1>6. /\ \A k \in Ceremonies : /\ ceremony'[k].client = ceremony[k].client /\ ceremony'[k].op = ceremony[k].op
                               /\ ceremony'[k].alone = ceremony[k].alone
                               /\ ceremony'[k].seen <=> (ceremony[k].seen \/ k = n)
  BY <1>3, <1>4, SeenCeremony, Zenon
<1>7. /\ SetCookie(jar[c], op, n) \in Jar /\ SetCookie(jar[c], op, n)[op] = n
      /\ SetCookie(jar[c], op, n).login = jar[c].login
      /\ \A o \in Ops \ {op} : SetCookie(jar[c], op, n)[o] = jar[c][o]
  BY <1>3, Cookies, SMTT(30)
<1>8. /\ jar' \in [Clients -> Jar] /\ jar'[c][op] = n
      /\ \A d \in Clients : jar'[d].login = jar[d].login
      /\ \A d \in Clients, o \in Ops : d # c \/ o # op => jar'[d][o] = jar[d][o]
  BY <1>1, <1>2, <1>3, <1>7, Zenon DEF TypeOK
<1>9. TypeOK'
  BY <1>1, <1>2, <1>5, <1>8, Zenon DEF TypeOK
<1>10. TicketInv'
  BY <1>1, <1>2, <1>5, <1>6, SMTT(20) DEF TicketInv
<1>11. \A d, o : Of(d, o)' = Of(d, o) /\ n \in Of(c, op)
  BY <1>5, <1>6, Zenon DEF Of
<1>12. CookieInv'
  <2>1. \A i \in DOMAIN req : /\ req[i].chal \in Of(req[i].client, req[i].op)
                              /\ ceremony'[req[i].chal].seen
                              /\ req[i].key # None => req[i].key \in Of(req[i].client, req[i].op)
    BY <1>1, <1>6, Zenon DEF CookieInv, Of
  <2>2. \A d \in Clients, o \in Ops : jar'[d][o] # None => jar'[d][o] \in Of(d, o)
    BY <1>1, <1>8, <1>11, Zenon DEF CookieInv
  <2>3. QED
    BY <1>2, <1>11, <2>1, <2>2, Zenon DEF CookieInv
<1>13. UserInv'
  BY <1>1, <1>2, <1>8, SMTT(20) DEF UserInv
<1>14. ASSUME NEW k \in Ceremonies, Lone(k)'
       PROVE  Undisturbed(k)'
  <2>1. Kind(k)' = Kind(k)
    BY <1>5, <1>6, Zenon DEF Kind, Of
  <2>2. Lone(k)
    BY <1>2, <1>6, <1>14, <2>1, SMTT(20) DEF Lone
  <2>3. Undisturbed(k)
    BY <1>1, <2>2, Zenon
  <2>4. n \in Kind(k) => n = k
    BY <1>2, <2>3, Zenon DEF Undisturbed
  <2>5. \A j \in Kind(k) : j \in Ceremonies
    BY SMTT(30) DEF Kind, Of
  <2>6. ceremony'[k].seen /\ k \in DOMAIN sessions =>
          \/ jar'[ceremony'[k].client][ceremony'[k].op] = k
          \/ \E i \in DOMAIN req : req[i].chal = k
    BY <1>3, <1>6, <1>8, <2>3, <2>4, SMTT(20) DEF Undisturbed, Kind, Of, Ceremony
  <2>7. QED
    BY <1>2, <1>6, <2>1, <2>3, <2>5, <2>6, SMTT(20) DEF Undisturbed
<1>15. QED
  BY <1>2, <1>5, <1>9, <1>10, <1>12, <1>13, <1>14, Zenon DEF PasskeysSound
-----------------------------------------------------------------------------
\* What no step changes of a request.
SameRequest(e, r) ==
  /\ e.op = r.op /\ e.client = r.client /\ e.key = r.key /\ e.chal = r.chal
  /\ e.user = r.user /\ e.got = r.got /\ e.known = r.known

\* Why a handler fails, and the cookies that the answer to a request clears.
FailsOnlyIf(e, n) ==
  e.status \in {400, 500} =>
    \/ e.status = req[n].status
    \/ req[n].chal # req[n].key
    \/ req[n].op = "authentication" /\ req[n].user \notin DOMAIN users
ClearsOnly(n) ==
  /\ jar' \in [Clients -> Jar]
  /\ \A c \in Clients, op \in Ops :
       \/ jar'[c][op] = jar[c][op]
       \/ c = req[n].client /\ op = req[n].op /\ jar'[c][op] = None

\* A handler, or the client that gets its answer, takes its request on.
LEMMA RequestKeeps ==
  ASSUME PasskeysSound, NEW n \in DOMAIN req, NEW e \in Request, req' = [req EXCEPT ![n] = e],
         SameRequest(e, req[n]), req[n].pc # "done",
         FailsOnlyIf(e, n), ClearsOnly(n), UNCHANGED <<now, sessions, ceremony, passkey>>,
         users' \in [DOMAIN users' -> Nat]
  PROVE  /\ TypeOK' /\ TicketInv' /\ CookieInv' /\ Ceremonies' = Ceremonies
         /\ \A k \in Ceremonies : Lone(k)' => Undisturbed(k)'
         /\ DOMAIN req' = DOMAIN req /\ Len(req') = Len(req)
         /\ req'[n] = e /\ \A j \in DOMAIN req \ {n} : req'[j] = req[j]
         /\ \A j \in DOMAIN req : SameRequest(req'[j], req[j])
<1>1. TypeOK /\ TicketInv /\ CookieInv /\ UserInv /\ \A k \in Ceremonies : Lone(k) => Undisturbed(k)
  BY Zenon DEF PasskeysSound
<1>2. /\ req' \in Seq(Request) /\ DOMAIN req' = DOMAIN req /\ Len(req') = Len(req)
      /\ req'[n] = e /\ \A j \in DOMAIN req \ {n} : req'[j] = req[j]
  BY <1>1, Shapes, ExceptSeq, Zenon DEF TypeOK
<1>3. \A j \in DOMAIN req : SameRequest(req'[j], req[j])
  BY <1>2, Zenon DEF SameRequest
<1>4. TypeOK' /\ Ceremonies' = Ceremonies
  BY <1>1, <1>2, Zenon DEF TypeOK, Ceremonies, ClearsOnly
<1>5. TicketInv'
  BY <1>1, <1>2, <1>3, <1>4, SMTT(20) DEF TicketInv, SameRequest
<1>6. CookieInv'
  <2>1. \A d, o : Of(d, o)' = Of(d, o)
    BY <1>4, Zenon DEF Of
  <2>2. \A c \in Clients, op \in Ops : jar'[c][op] # None => jar'[c][op] \in Of(c, op)
    BY <1>1, Zenon DEF CookieInv, ClearsOnly
  <2>3. QED
    BY <1>1, <1>2, <1>3, <2>1, <2>2, SMTT(20) DEF CookieInv, SameRequest
<1>7. ASSUME NEW k \in Ceremonies, Lone(k)'
      PROVE  Undisturbed(k)'
  <2>1. Kind(k)' = Kind(k) /\ ceremony'[k] = ceremony[k]
    BY Zenon DEF Kind, Of, Ceremonies
  <2>2. \A j \in DOMAIN req : /\ req'[j].chal = req[j].chal /\ req'[j].key = req[j].key
                              /\ req'[j].got = req[j].got /\ req'[j].known = req[j].known
                              /\ req'[j].op = req[j].op
    BY <1>3, Zenon DEF SameRequest
  <2>3. Lone(k)
    BY <1>2, <1>7, <2>1, <2>2, SMTT(20) DEF Lone
  <2>4. Undisturbed(k)
    BY <1>1, <2>3, Zenon
  <2>5. req[n].chal \in Kind(k) => req[n].chal = k
    BY <2>4, Zenon DEF Undisturbed
  <2>6. req[n].chal = k /\ e.status \in {400, 500} => e.op = "authentication" /\ ~ e.known
    BY <1>1, <2>4, SMTT(20) DEF Undisturbed, UserInv, SameRequest, FailsOnlyIf
  <2>7. \/ \E j \in DOMAIN req' : req'[j].chal = k
        \/ ceremony[k].seen => jar'[ceremony[k].client][ceremony[k].op] = k
    <3>1. SUFFICES ASSUME \A j \in DOMAIN req : req[j].chal # k, ceremony[k].seen
                   PROVE  jar'[ceremony[k].client][ceremony[k].op] = k
      BY <1>2, <2>2, Zenon
    <3>2. jar[ceremony[k].client][ceremony[k].op] = k
      BY <2>4, <3>1, Zenon DEF Undisturbed
    <3>3. ~ (req[n].client = ceremony[k].client /\ req[n].op = ceremony[k].op)
      BY <1>1, <2>5, <3>1, Zenon DEF CookieInv, Kind
    <3>4. QED
      BY <1>1, <3>2, <3>3, Shapes, Zenon DEF Ceremony, ClearsOnly
  <2>8. \A j \in DOMAIN req' :
         IF req'[j].chal = k
         THEN /\ req'[j].key = k /\ req'[j].got
              /\ req'[j].status \in {400, 500} => req'[j].op = "authentication" /\ ~ req'[j].known
         ELSE req'[j].chal \in Kind(k) => req'[j].pc = "done"
    BY <1>2, <2>2, <2>4, <2>5, <2>6, SMTT(20) DEF Undisturbed
  <2>9. QED
    BY <1>2, <2>1, <2>2, <2>4, <2>7, <2>8, SMTT(20) DEF Undisturbed
<1>8. QED
  BY <1>2, <1>3, <1>4, <1>5, <1>6, <1>7, Zenon

\* What of the invariant on users a step changes when it takes one request on.
LEMMA UserKeeps ==
  ASSUME PasskeysSound, NEW n \in DOMAIN req, NEW e \in Request, SameRequest(e, req[n]),
         DOMAIN req' = DOMAIN req, Len(req') = Len(req), req'[n] = e, UNCHANGED <<now, passkey>>,
         \A j \in DOMAIN req \ {n} : req'[j] = req[j],
         DOMAIN users \subseteq DOMAIN users',
         \A u \in DOMAIN users' : users'[u] <= Len(req) /\ (u \in DOMAIN users \/ (u = e.key /\ e.op = "registration" /\ e.got /\ e.status = 200)),
         req[n].status = 200 => e.status = 200,
         e.count <= Len(req), e.status = 0 <=> e.pc \in {"took", "checked"},
         e.pc # "took", e.pc = "checked" => e.read <= e.count,
         e.pc = "checked" => e.user \in DOMAIN users,
         req[n].login # NoLogin => e.login = req[n].login,
         e.login # NoLogin => /\ e.status = 200 /\ e.login.user = e.user
                              /\ e.login.exp <= now + Duration /\ e.user \in DOMAIN users,
         \A c \in Clients : \/ jar'[c].login = jar[c].login
                            \/ c = req[n].client /\ jar'[c].login = e.login
  PROVE  UserInv'
<1>1. TypeOK /\ UserInv
  BY SMTT(30) DEF PasskeysSound
<1>2. \A u \in DOMAIN users' :
        /\ users'[u] <= Len(req')
        /\ \E i \in DOMAIN req' : /\ req'[i].op = "registration" /\ req'[i].status = 200
                                  /\ req'[i].got /\ req'[i].key = u
  BY <1>1, SMTT(20) DEF UserInv, SameRequest
<1>3. \A i \in DOMAIN req' :
       /\ req'[i].user \in DOMAIN passkey'[req'[i].client]
       /\ req'[i].count <= Len(req')
       /\ req'[i].status = 0 <=> req'[i].pc \in {"took", "checked"}
       /\ req'[i].pc = "took" => req'[i].got
       /\ req'[i].pc = "checked" => req'[i].read <= req'[i].count
       /\ req'[i].pc = "checked" \/ req'[i].known \/ req'[i].login # NoLogin => req'[i].user \in DOMAIN users'
       /\ req'[i].login # NoLogin => /\ req'[i].status = 200
                                    /\ req'[i].login.user = req'[i].user
                                    /\ req'[i].login.exp <= now' + Duration
  BY <1>1, SMTT(20) DEF UserInv, SameRequest
<1>4. \A c \in Clients : jar'[c].login # NoLogin =>
        \E i \in DOMAIN req' : req'[i].client = c /\ req'[i].login = jar'[c].login
  BY <1>1, SMTT(20) DEF UserInv, SameRequest
<1>5. QED
  BY <1>1, <1>2, <1>3, <1>4, SMTT(30) DEF UserInv

\* A handler that answers changes nothing else of its request.
LEMMA Answered ==
  ASSUME NEW n \in DOMAIN req, req[n] \in Request, NEW st \in {0, 200, 400, 500}, NEW lg \in Login,
         Answer(n, st, lg)
  PROVE  \E e \in Request : /\ req' = [req EXCEPT ![n] = e] /\ SameRequest(e, req[n])
                            /\ e.pc = "answered" /\ e.status = st /\ e.login = lg
                            /\ e.count = req[n].count
<1> DEFINE p == [req[n] EXCEPT !.pc = "answered"]
           q == [p EXCEPT !.status = st]
           e == [q EXCEPT !.login = lg]
<1>1. req' = [req EXCEPT ![n] = e]
  BY ZenonT(30) DEF Answer
<1>2. p \in Request /\ p.pc = "answered" /\ SameRequest(p, req[n]) /\ p.count = req[n].count
  BY DEF Request, SameRequest
<1> HIDE DEF p
<1>3. /\ q \in Request /\ q.pc = p.pc /\ q.status = st /\ SameRequest(q, p) /\ q.count = p.count
  BY <1>2 DEF Request, SameRequest
<1> HIDE DEF q
<1>4. /\ e \in Request /\ e.pc = q.pc /\ e.status = q.status /\ e.login = lg /\ SameRequest(e, q)
      /\ e.count = q.count
  BY <1>3 DEF Request, SameRequest
<1> HIDE DEF e
<1>5. SameRequest(e, req[n]) /\ e.pc = "answered" /\ e.status = st /\ e.count = req[n].count
  BY <1>2, <1>3, <1>4 DEF SameRequest
<1>6. QED
  BY <1>1, <1>4, <1>5, ZenonT(30)

\* AddCredential and Store.
LEMMA StoreUserKeeps ==
  ASSUME PasskeysSound, NEW n \in DOMAIN req, StoreUser(n)
  PROVE  /\ PasskeysSound' /\ DOMAIN req' = DOMAIN req /\ \A j \in DOMAIN req : SameRequest(req'[j], req[j])
         /\ \A u \in DOMAIN users : u \in DOMAIN users' /\ users'[u] = users[u]
<1> DEFINE st == IF AnswersSession(n) THEN 200 ELSE 400
<1>1. TypeOK /\ TicketInv /\ UserInv /\ req[n] \in Request /\ NoLogin \in Login
  BY Shapes, Zenon DEF PasskeysSound, NoLogin, Login
<1>2. /\ req[n].op = "registration" /\ req[n].pc = "took" /\ UNCHANGED <<now, sessions, ceremony, jar, passkey>>
      /\ Answer(n, st, NoLogin)
      /\ users' = IF AnswersSession(n) THEN Put(users, req[n].key, 0) ELSE users
  BY Zenon DEF StoreUser, Went, Store
<1>3. PICK e \in Request : /\ req' = [req EXCEPT ![n] = e] /\ SameRequest(e, req[n])
                           /\ e.pc = "answered" /\ e.status = st /\ e.login = NoLogin
                           /\ e.count = req[n].count
  BY <1>1, <1>2, Answered, SMTT(30)
<1>4. /\ req[n].got /\ req[n].status = 0 /\ req[n].login = NoLogin
      /\ req[n].count <= Len(req) /\ \A u \in DOMAIN users : users[u] <= Len(req)
      /\ Len(req) \in Nat
  BY <1>1, <1>2, Shapes, SMTT(30) DEF UserInv
<1>5. req[n].key \notin DOMAIN users
  BY <1>1, <1>4 DEF UserInv, TicketInv
<1>6. /\ users' \in [DOMAIN users' -> Nat]
      /\ \A u \in DOMAIN users : u \in DOMAIN users' /\ users'[u] = users[u]
      /\ \A u \in DOMAIN users' : \/ u \in DOMAIN users /\ users'[u] = users[u]
                                  \/ AnswersSession(n) /\ u = req[n].key /\ users'[u] = 0
  BY <1>1, <1>2, <1>5, Zenon DEF TypeOK, Put
<1>7. /\ TypeOK' /\ TicketInv' /\ CookieInv' /\ Ceremonies' = Ceremonies
      /\ \A k \in Ceremonies : Lone(k)' => Undisturbed(k)'
      /\ DOMAIN req' = DOMAIN req /\ Len(req') = Len(req)
      /\ req'[n] = e /\ \A j \in DOMAIN req \ {n} : req'[j] = req[j]
      /\ \A j \in DOMAIN req : SameRequest(req'[j], req[j])
  <2>1. FailsOnlyIf(e, n) /\ ClearsOnly(n) /\ req[n].pc # "done"
    BY <1>1, <1>2, <1>3, SMTT(30) DEF AnswersSession, FailsOnlyIf, ClearsOnly, TypeOK
  <2>2. QED
    BY <1>2, <1>3, <1>6, <2>1, RequestKeeps, ZenonT(30)
<1>8. UserInv'
  <2>1. \A u \in DOMAIN users' : /\ users'[u] <= Len(req)
                                 /\ \/ u \in DOMAIN users
                                    \/ u = e.key /\ e.op = "registration" /\ e.got /\ e.status = 200
    BY <1>2, <1>3, <1>4, <1>6, SMTT(30) DEF SameRequest
  <2>2. QED
    BY <1>2, <1>3, <1>4, <1>6, <1>7, <2>1, UserKeeps, SMTT(30)
<1>9. QED
  BY <1>6, <1>7, <1>8, Zenon DEF PasskeysSound

\* FinishPasskeyLogin.
LEMMA LookupKeeps ==
  ASSUME PasskeysSound, NEW n \in DOMAIN req, Lookup(n)
  PROVE  /\ PasskeysSound' /\ DOMAIN req' = DOMAIN req /\ \A j \in DOMAIN req : SameRequest(req'[j], req[j])
         /\ UNCHANGED users
<1> DEFINE u == req[n].user
<1>1. TypeOK /\ UserInv /\ req[n] \in Request /\ NoLogin \in Login
  BY Shapes, Zenon DEF PasskeysSound, NoLogin, Login
<1>2. /\ req[n].op = "authentication" /\ req[n].pc = "took"
      /\ UNCHANGED <<now, sessions, ceremony, users, jar, passkey>>
  BY SMTT(30) DEF Lookup, Went
<1>3. /\ req[n].status = 0 /\ req[n].login = NoLogin
      /\ req[n].count <= Len(req) /\ \A w \in DOMAIN users : users[w] \in Nat /\ users[w] <= Len(req)
      /\ Len(req) \in Nat /\ req[n].count \in Nat
  BY <1>1, <1>2, Shapes, SMTT(30) DEF UserInv, Request, TypeOK
<1>4. PICK e \in Request :
        /\ req' = [req EXCEPT ![n] = e] /\ SameRequest(e, req[n])
        /\ e.login = NoLogin /\ e.count <= Len(req)
        /\ \/ /\ e.pc = "checked" /\ e.status = 0 /\ u \in DOMAIN users /\ e.read <= e.count
           \/ /\ e.pc = "answered" /\ e.status = 500
              /\ u \notin DOMAIN users \/ req[n].chal # req[n].key
  <2>1. CASE u \in DOMAIN users /\ AnswersSession(n)
    <3> DEFINE p == [req[n] EXCEPT !.pc = "checked"]
               q == [p EXCEPT !.read = users[u]]
               m == UpdateCounter(users[u], req[n].count)
               e == [q EXCEPT !.count = m]
    <3>1. req' = [req EXCEPT ![n].pc = "checked", ![n].read = users[u], ![n].count = UpdateCounter(users[u], @)]
      BY <2>1, Zenon DEF Lookup, Known
    <3>2. m \in Nat /\ m <= Len(req) /\ users[u] <= m /\ users[u] \in Nat
      BY <1>3, <2>1 DEF UpdateCounter
    <3>3. req' = [req EXCEPT ![n] = e]
      BY <3>1, ZenonT(30)
    <3> HIDE DEF m
    <3>4. p \in Request /\ p.pc = "checked" /\ SameRequest(p, req[n]) /\ p.status = req[n].status /\ p.login = req[n].login
      BY <1>1 DEF Request, SameRequest
    <3> HIDE DEF p
    <3>5. /\ q \in Request /\ q.pc = p.pc /\ q.read = users[u] /\ SameRequest(q, p) /\ q.status = p.status
          /\ q.login = p.login
      BY <3>2, <3>4, SMTT(30) DEF Request, SameRequest
    <3> HIDE DEF q
    <3>6. /\ e \in Request /\ e.pc = q.pc /\ e.read = q.read /\ SameRequest(e, q) /\ e.status = q.status
          /\ e.login = q.login /\ e.count = m
      BY <3>2, <3>5, SMTT(30) DEF Request, SameRequest
    <3> HIDE DEF e
    <3>7. /\ SameRequest(e, req[n]) /\ e.login = NoLogin /\ e.count <= Len(req) /\ e.pc = "checked" /\ e.status = 0
          /\ e.read <= e.count
      BY <1>3, <3>2, <3>4, <3>5, <3>6, Zenon DEF SameRequest
    <3>8. QED
      BY <2>1, <3>3, <3>6, <3>7, ZenonT(30)
  <2>2. CASE ~ (u \in DOMAIN users /\ AnswersSession(n))
    <3>1. Answer(n, 500, NoLogin)
      BY <2>2, Zenon DEF Lookup, Known
    <3>2. PICK e \in Request : /\ req' = [req EXCEPT ![n] = e] /\ SameRequest(e, req[n])
                               /\ e.pc = "answered" /\ e.status = 500 /\ e.login = NoLogin
                               /\ e.count = req[n].count
      BY <1>1, <3>1, Answered
    <3>3. e.count <= Len(req) /\ (u \notin DOMAIN users \/ req[n].chal # req[n].key)
      BY <1>3, <2>2, <3>2, Zenon DEF AnswersSession
    <3>4. QED
      BY <3>2, <3>3, ZenonT(30)
  <2>3. QED
    BY <2>1, <2>2, Zenon
<1>5. /\ TypeOK' /\ TicketInv' /\ CookieInv' /\ Ceremonies' = Ceremonies
      /\ \A k \in Ceremonies : Lone(k)' => Undisturbed(k)'
      /\ DOMAIN req' = DOMAIN req /\ Len(req') = Len(req)
      /\ req'[n] = e /\ \A j \in DOMAIN req \ {n} : req'[j] = req[j]
      /\ \A j \in DOMAIN req : SameRequest(req'[j], req[j])
  <2>1. FailsOnlyIf(e, n) /\ ClearsOnly(n) /\ users' \in [DOMAIN users' -> Nat] /\ req[n].pc # "done"
    BY <1>1, <1>2, <1>4 DEF FailsOnlyIf, ClearsOnly, TypeOK
  <2>2. QED
    BY <1>2, <1>4, <2>1, RequestKeeps, ZenonT(30)
<1>6. UserInv'
  BY <1>2, <1>3, <1>4, <1>5, UserKeeps, SMTT(30) DEF SameRequest
<1>7. QED
  BY <1>2, <1>5, <1>6, Zenon DEF PasskeysSound

\* UpdateCredential and UserAuthenticated.
LEMMA UpdateCredentialKeeps ==
  ASSUME PasskeysSound, NEW n \in DOMAIN req, UpdateCredential(n)
  PROVE  /\ PasskeysSound' /\ DOMAIN req' = DOMAIN req /\ \A j \in DOMAIN req : SameRequest(req'[j], req[j])
         /\ \A u \in DOMAIN users : users'[u] < users[u] => /\ u = req[n].user /\ req[n].read # users[u]
                                                            /\ req'[n].pc = "answered"
<1> DEFINE u == req[n].user
           lg == UserAuthenticated(u)
<1>1. TypeOK /\ UserInv /\ req[n] \in Request
  BY Shapes, Zenon DEF PasskeysSound
<1>2. /\ req[n].op = "authentication" /\ req[n].pc = "checked" /\ Answer(n, 200, lg)
      /\ users' = Put(users, u, req[n].count)
      /\ UNCHANGED <<now, sessions, ceremony, jar, passkey>>
  BY SMTT(30) DEF UpdateCredential, Went, Store
<1>3. /\ u \in DOMAIN users /\ u \in Keys /\ req[n].status = 0 /\ req[n].login = NoLogin
      /\ req[n].count <= Len(req) /\ \A w \in DOMAIN users : users[w] \in Nat /\ users[w] <= Len(req)
      /\ Len(req) \in Nat /\ req[n].count \in Nat /\ req[n].read \in Nat /\ req[n].read <= req[n].count
  <2>1. \A w \in DOMAIN users : users[w] \in Nat /\ users[w] <= Len(req)
    BY <1>1, ZenonT(30) DEF UserInv, TypeOK
  <2>2. req[n].login = NoLogin /\ u \in DOMAIN users /\ req[n].status = 0 /\ req[n].count <= Len(req) /\ req[n].read <= req[n].count
    BY <1>1, <1>2, SMTT(30) DEF UserInv
  <2>3. QED
    BY <1>1, <2>1, <2>2, Shapes, Zenon DEF Request
<1>4. lg \in Login /\ lg.user = u /\ lg.exp = now + Duration /\ now + Duration \in Nat
  <2>1. Duration \in Nat /\ now \in Nat
    BY <1>1, PasskeysAssumption, Zenon DEF TypeOK, Duration, SetDefaults
  <2>2. QED
    BY <1>3, <2>1 DEF Login, UserAuthenticated
<1> HIDE DEF lg
<1>5. PICK e \in Request : /\ req' = [req EXCEPT ![n] = e] /\ SameRequest(e, req[n])
                           /\ e.pc = "answered" /\ e.status = 200 /\ e.login = lg
                           /\ e.count = req[n].count
  BY <1>1, <1>2, <1>4, Answered, SMTT(30)
<1>6. /\ users' \in [DOMAIN users' -> Nat] /\ DOMAIN users' = DOMAIN users
      /\ users'[u] = req[n].count /\ \A w \in DOMAIN users \ {u} : users'[w] = users[w]
  BY <1>1, <1>2, <1>3, Zenon DEF TypeOK, Put
<1>7. /\ TypeOK' /\ TicketInv' /\ CookieInv' /\ Ceremonies' = Ceremonies
      /\ \A k \in Ceremonies : Lone(k)' => Undisturbed(k)'
      /\ DOMAIN req' = DOMAIN req /\ Len(req') = Len(req)
      /\ req'[n] = e /\ \A j \in DOMAIN req \ {n} : req'[j] = req[j]
      /\ \A j \in DOMAIN req : SameRequest(req'[j], req[j])
  <2>1. FailsOnlyIf(e, n) /\ ClearsOnly(n) /\ req[n].pc # "done"
    BY <1>1, <1>2, <1>5 DEF FailsOnlyIf, ClearsOnly, TypeOK
  <2>2. QED
    BY <1>2, <1>5, <1>6, <2>1, RequestKeeps, ZenonT(30)
<1>8. UserInv'
  <2>1. \A w \in DOMAIN users' : users'[w] <= Len(req) /\ w \in DOMAIN users
    BY <1>3, <1>6, Zenon
  <2>2. e.login.user = e.user /\ e.login.exp <= now + Duration /\ e.user \in DOMAIN users
    BY <1>3, <1>4, <1>5, SMTT(30) DEF SameRequest
  <2>3. QED
    BY <1>2, <1>3, <1>5, <1>6, <1>7, <2>1, <2>2, UserKeeps, SMTT(30)
<1>9. \A w \in DOMAIN users : users'[w] < users[w] => w = u /\ req[n].read # users[w] /\ req'[n].pc = "answered"
  BY <1>3, <1>5, <1>6, <1>7
<1>10. QED
  BY <1>7, <1>8, <1>9, Zenon DEF PasskeysSound

\* The answer to Finish clears the cookie of its kind and may bring a login.
LEMMA FinishAnsweredKeeps ==
  ASSUME PasskeysSound, NEW n \in DOMAIN req, FinishAnswered(n)
  PROVE  /\ PasskeysSound' /\ DOMAIN req' = DOMAIN req /\ \A j \in DOMAIN req : SameRequest(req'[j], req[j])
         /\ UNCHANGED users
<1> DEFINE c == req[n].client
           op == req[n].op
           e == [req[n] EXCEPT !.pc = "done"]
           cleared == ClearCookie(jar[c], op)
           cookies == SetLogin(cleared, req[n].login)
<1>1. TypeOK /\ UserInv /\ req[n] \in Request /\ c \in Clients /\ op \in Ops /\ jar[c] \in Jar /\ req[n].login \in Login
  BY Shapes DEF PasskeysSound, Request
<1>2. /\ req[n].pc = "answered" /\ UNCHANGED <<now, sessions, users, ceremony, passkey>>
      /\ req' = [req EXCEPT ![n] = e] /\ jar' = [jar EXCEPT ![c] = cookies]
  BY ZenonT(30) DEF FinishAnswered
<1>3. /\ e \in Request /\ SameRequest(e, req[n]) /\ e.pc = "done" /\ e.status = req[n].status
      /\ e.login = req[n].login /\ e.count = req[n].count /\ e.read = req[n].read
  BY <1>1, SMTT(30) DEF Request, SameRequest
<1> HIDE DEF e
<1>4. /\ cleared \in Jar /\ cleared[op] = None /\ cleared.login = jar[c].login
      /\ \A o \in Ops \ {op} : cleared[o] = jar[c][o]
  BY <1>1, Cookies, SMTT(30) DEF SetCookie, ClearCookie
<1> HIDE DEF cleared
<1>5. /\ cookies \in Jar /\ cookies.login \in {cleared.login, req[n].login}
      /\ \A o \in Ops : cookies[o] = cleared[o]
  BY <1>1, <1>4, Zenon DEF Jar, Ops, SetLogin
<1> HIDE DEF cookies
<1>6. /\ jar' \in [Clients -> Jar] /\ jar'[c] = cookies /\ \A d \in Clients \ {c} : jar'[d] = jar[d]
  BY <1>1, <1>2, <1>5, Zenon DEF TypeOK
<1>7. /\ ClearsOnly(n)
      /\ \A d \in Clients : jar'[d].login = jar[d].login \/ (d = c /\ jar'[d].login = e.login)
  BY <1>3, <1>4, <1>5, <1>6 DEF ClearsOnly
<1>8. /\ TypeOK' /\ TicketInv' /\ CookieInv' /\ Ceremonies' = Ceremonies
      /\ \A k \in Ceremonies : Lone(k)' => Undisturbed(k)'
      /\ DOMAIN req' = DOMAIN req /\ Len(req') = Len(req)
      /\ req'[n] = e /\ \A j \in DOMAIN req \ {n} : req'[j] = req[j]
      /\ \A j \in DOMAIN req : SameRequest(req'[j], req[j])
  <2>1. FailsOnlyIf(e, n) /\ users' \in [DOMAIN users' -> Nat] /\ req[n].pc # "done"
    BY <1>1, <1>2, <1>3, Zenon DEF FailsOnlyIf, TypeOK
  <2>2. QED
    BY <1>2, <1>3, <1>7, <2>1, RequestKeeps, ZenonT(30)
<1>9. UserInv'
  <2>1. /\ e.count <= Len(req) /\ (e.status = 0 <=> e.pc \in {"took", "checked"})
        /\ (e.login # NoLogin => /\ e.status = 200 /\ e.login.user = e.user
                                 /\ e.login.exp <= now + Duration /\ e.user \in DOMAIN users)
        /\ e.pc # "took" /\ e.pc # "checked"
    BY <1>1, <1>2, <1>3, SMTT(30) DEF UserInv, SameRequest
  <2>2. \A u \in DOMAIN users' : users'[u] <= Len(req) /\ u \in DOMAIN users
    BY <1>1, <1>2, Zenon DEF UserInv
  <2>3. QED
    BY <1>2, <1>3, <1>7, <1>8, <2>1, <2>2, UserKeeps, SMTT(30)
<1>10. QED
  BY <1>2, <1>8, <1>9, Zenon DEF PasskeysSound
-----------------------------------------------------------------------------
(* Every step.                                                             *)

\* A session that is begun has a key of its own, which no handler has had.
LEMMA BeginIssues ==
  ASSUME PasskeysSound, NEW n \in Keys, n = FreshKey, DOMAIN sessions' = DOMAIN sessions \cup {n}, UNCHANGED req
  PROVE  Ticket!Next
<1>1. n \notin Ceremonies
  BY Shapes, SMTT(30) DEF FreshKey, PasskeysSound
<1>2. n \notin DOMAIN sessions /\ Holder[n] = {}
  BY <1>1, Zenon DEF Holder, TicketInv, PasskeysSound
<1>3. Ticket!Issue(n)
  BY <1>2, Zenon DEF Ticket!Issue, Holder
<1>4. QED
  BY <1>3, Zenon DEF Ticket!Next

\* The other steps leave the sessions alone, and of the requests what they were handed.
LEMMA OthersStutter ==
  ASSUME UNCHANGED sessions, DOMAIN req' = DOMAIN req, \A j \in DOMAIN req : SameRequest(req'[j], req[j])
  PROVE  UNCHANGED <<DOMAIN sessions, Holder>>
BY Zenon DEF Holder, SameRequest

\* Begin.
LEMMA BeginStep ==
  ASSUME PasskeysSound, NEW c \in Clients, Begin(c)
  PROVE  PasskeysSound' /\ Ticket!Next /\ UNCHANGED users
<1>1. PICK op \in Ops : /\ NewCeremony(c, op)
                        /\ sessions' = Put(sessions, FreshKey, IF op = "registration" THEN FreshKey ELSE None)
  BY Zenon DEF Begin, BeginRegistration, BeginDiscoverableAuthentication, Registering, Authenticating, NewUser, FreshKey, Ops
<1>2. PICK n \in Keys : n = FreshKey
  BY <1>1, Zenon DEF NewCeremony
<1>3. PasskeysSound'
  BY <1>1, <1>2, BeginKeeps, Zenon
<1>4. DOMAIN sessions' = DOMAIN sessions \cup {n} /\ UNCHANGED <<req, users>>
  BY <1>1, <1>2, Zenon DEF Put, NewCeremony
<1>5. QED
  BY <1>2, <1>3, <1>4, BeginIssues, Zenon

\* Either kind of Finish request.
LEMMA SendStep ==
  ASSUME PasskeysSound, NEW c \in Clients, Send(c)
  PROVE  PasskeysSound' /\ [Ticket!Next]_<<DOMAIN sessions, Holder>> /\ UNCHANGED users
<1>1. TypeOK /\ TicketInv /\ UserInv /\ None \notin DOMAIN sessions /\ Len(req) \in Nat
  BY Shapes, SMTT(30) DEF PasskeysSound, TicketInv, Keys, None
<1>2. \A u \in DOMAIN passkey[c] : passkey[c][u] \in Nat /\ passkey[c][u] <= Len(req)
  BY <1>1, ZenonT(30) DEF TypeOK, UserInv
<1>3. \A key : /\ SessionStatus(key) \in {0, 400, 500} /\ UserStatus(key) \in {0, 400, 500}
               /\ SessionStatus(key) = 0 <=> key \in DOMAIN sessions
               /\ UserStatus(key) = 0 <=> key \in DOMAIN sessions /\ sessions[key] # None
  BY <1>1 DEF SessionStatus, UserStatus
<1>4. PICK chal \in Ceremonies : FinishRegistration(c, chal) \/ \E u \in Keys : FinishAuthentication(c, chal, u)
  BY SMTT(30) DEF Send
<1>5. CASE FinishRegistration(c, chal)
  <2>1. PICK n, key, count, status : /\ n = Len(req) + 1 /\ key = jar[c]["registration"] /\ status = UserStatus(key)
                                  /\ count = IF chal \in DOMAIN passkey[c] THEN passkey[c][chal] ELSE 0
    BY SMTT(30)
  <2>2. Finish(c, "registration", chal, chal, count, status) /\ sessions' = Remove(sessions, key)
    BY <1>5, <2>1, Zenon DEF FinishRegistration, Registered
  <2>3. count \in Nat /\ count <= Len(req) + 1 /\ chal \in Keys /\ "registration" \in Ops
    BY <1>1, <1>2, <2>1, Shapes, SMTT(30) DEF Ops
  <2>4. status \in {0, 400, 500} /\ (status = 0 <=> key \in DOMAIN sessions /\ sessions[key] # None)
    BY <1>3, <2>1, SMTT(30)
  <2>5. QED
    BY <2>1, <2>2, <2>3, <2>4, SendKeeps
<1>6. ASSUME NEW u \in Keys, FinishAuthentication(c, chal, u)
      PROVE  PasskeysSound' /\ [Ticket!Next]_<<DOMAIN sessions, Holder>> /\ UNCHANGED users
  <2>1. PICK n, key, count, status : /\ n = Len(req) + 1 /\ key = jar[c]["authentication"] /\ status = SessionStatus(key)
                                  /\ count = passkey[c][u] + 1
    BY SMTT(30)
  <2>2. /\ Finish(c, "authentication", chal, u, count, status) /\ sessions' = Remove(sessions, key)
        /\ u \in DOMAIN passkey[c]
    BY <1>6, <2>1, Zenon DEF FinishAuthentication, Authenticated
  <2>3. count \in Nat /\ count <= Len(req) + 1 /\ "authentication" \in Ops
    BY <1>1, <1>2, <2>1, <2>2, SMTT(30) DEF Ops
  <2>4. status \in {0, 400, 500} /\ (status = 0 <=> key \in DOMAIN sessions)
    BY <1>3, <2>1, SMTT(30)
  <2>5. QED
    BY <2>1, <2>2, <2>3, <2>4, SendKeeps
<1>7. QED
  BY <1>4, <1>5, <1>6, Zenon

\* Every step keeps the invariant, is a step of the abstract tickets or leaves them
\* alone, and takes a counter back only as said above.
LEMMA Steps ==
  ASSUME PasskeysSound, [Next]_vars
  PROVE  PasskeysSound' /\ [Ticket!Next]_<<DOMAIN sessions, Holder>> /\ CounterStep
<1>1. \A u \in DOMAIN users : users[u] \in Nat
  BY Zenon DEF PasskeysSound, TypeOK
<1>2. CASE \E c \in Clients : Begin(c) \/ Send(c)
  BY <1>1, <1>2, BeginStep, SendStep, SMTT(30) DEF CounterStep
<1>3. CASE \E k \in Ceremonies : BeginAnswered(k)
  <2>1. PasskeysSound' /\ UNCHANGED <<sessions, req, users>>
    BY <1>3, BeginAnsweredKeeps, ZenonT(30) DEF BeginAnswered
  <2>2. QED
    BY <1>1, <2>1 DEF Holder, CounterStep
<1>4. ASSUME NEW i \in DOMAIN req, Handle(i) \/ FinishAnswered(i)
      PROVE  PasskeysSound' /\ [Ticket!Next]_<<DOMAIN sessions, Holder>> /\ CounterStep
  <2>1. UNCHANGED sessions
    BY <1>4, Zenon DEF Handle, StoreUser, Lookup, UpdateCredential, FinishAnswered
  <2>2. PasskeysSound' /\ DOMAIN req' = DOMAIN req /\ \A j \in DOMAIN req : SameRequest(req'[j], req[j])
    BY <1>4, StoreUserKeeps, LookupKeeps, UpdateCredentialKeeps, FinishAnsweredKeeps, Zenon DEF Handle
  <2>3. ASSUME StoreUser(i) \/ Lookup(i) \/ FinishAnswered(i)
        PROVE  CounterStep
    <3>1. \A u \in DOMAIN users : users'[u] = users[u]
      BY <2>3, StoreUserKeeps, LookupKeeps, FinishAnsweredKeeps, Zenon
    <3>2. \A u \in DOMAIN users : ~ (users'[u] < users[u])
      BY <1>1, <3>1, SMTT(30)
    <3>3. QED
      BY <3>2, ZenonT(30) DEF CounterStep
  <2>4. ASSUME UpdateCredential(i)
        PROVE  CounterStep
    <3>1. Went(i, "authentication", "checked")
      BY <2>4, Zenon DEF UpdateCredential
    <3>2. \A u \in DOMAIN users : users'[u] < users[u] => /\ u = req[i].user /\ req[i].read # users[u]
                                                           /\ req'[i].pc = "answered"
      BY <2>4, UpdateCredentialKeeps, Zenon
    <3>3. ASSUME NEW u \in DOMAIN users, users'[u] < users[u]
          PROVE  \E j \in DOMAIN req : /\ Went(j, "authentication", "checked") /\ req[j].user = u
                                       /\ req'[j].pc = "answered" /\ req[j].read # users[u]
      <4>1. u = req[i].user /\ req[i].read # users[u] /\ req'[i].pc = "answered"
        BY <3>2, <3>3, Zenon
      <4>2. QED
        BY <3>1, <4>1, Zenon
    <3>4. QED
      BY <3>3, Zenon DEF CounterStep
  <2>5. QED
    BY <1>4, <2>1, <2>2, <2>3, <2>4, OthersStutter, Zenon DEF Handle
<1>5. CASE Tick \/ UNCHANGED vars
  <2>1. /\ UNCHANGED <<sessions, users, ceremony, req, jar, passkey>> /\ now' \in Nat /\ now <= now'
        /\ now \in Nat /\ Duration \in Nat
    BY <1>5, PasskeysAssumption, SMTT(30) DEF Tick, vars, PasskeysSound, TypeOK, Duration, SetDefaults
  <2>2. TypeOK' /\ TicketInv' /\ CookieInv' /\ Ceremonies' = Ceremonies
    <3>1. Ceremonies' = Ceremonies
      BY <2>1, Zenon DEF Ceremonies
    <3>2. TypeOK'
      BY <2>1, Zenon DEF PasskeysSound, TypeOK
    <3>3. TicketInv'
      BY <2>1, <3>1, Zenon DEF PasskeysSound, TicketInv
    <3>4. CookieInv'
      BY <2>1, <3>1, ZenonT(30) DEF PasskeysSound, CookieInv, Of
    <3>5. QED
      BY <3>1, <3>2, <3>3, <3>4
  <2>3. \A k \in Ceremonies : Lone(k)' => Undisturbed(k)'
    BY <2>1, SMTT(30) DEF PasskeysSound, Ceremonies, Lone, Undisturbed, Kind, Of
  <2>4. \A i \in DOMAIN req : req[i].login.exp \in Nat
    BY Shapes, SMTT(30) DEF PasskeysSound, Request, Login
  <2>5. UserInv'
    BY <2>1, <2>4, SMTT(30) DEF PasskeysSound, UserInv
  <2>6. QED
    BY <1>1, <2>1, <2>2, <2>3, <2>5, SMTT(30) DEF PasskeysSound, Holder, CounterStep
<1>6. QED
  BY <1>2, <1>3, <1>4, <1>5, Zenon DEF Next

\* The maps of sessions and users, the cookies and the requests keep the invariant,
\* whatever requests are repeated, overtake each other or are answered late.
THEOREM PasskeysAreSound == Spec => []PasskeysSound
<1>1. Init => PasskeysSound
  BY PasskeysAssumption, SMTT(30) DEF Init, PasskeysSound, TypeOK, TicketInv, CookieInv, UserInv, Ceremonies, Of,
     NoLogin, Login, Jar, Ops
<1>2. PasskeysSound /\ [Next]_vars => PasskeysSound'
  BY Steps, Zenon
<1>3. QED
  BY <1>1, <1>2, PTL DEF Spec

\* A ceremony that its client carries out alone succeeds: in BeginRegistration and
\* FinishRegistration, or their counterparts, whatever other clients do.
THEOREM LoneCeremoniesSucceed == Spec => []AloneSucceeds
<1>1. PasskeysSound => AloneSucceeds
  <2> SUFFICES ASSUME PasskeysSound, NEW i \in DOMAIN req, req[i].status \in {400, 500},
                      ceremony[req[i].chal].alone,
                      ~ \E k \in Of(req[i].client, req[i].op) : k > req[i].chal,
                      ~ \E j, l \in DOMAIN req : /\ j # l
                                                 /\ req[j].chal = req[l].chal
                                                 /\ req[j].chal \in Of(req[i].client, req[i].op)
               PROVE  req[i].op = "authentication" /\ ~ req[i].known
    BY SMTT(30) DEF AloneSucceeds
  <2>1. req[i].chal \in Of(req[i].client, req[i].op) /\ req[i].chal \in Ceremonies
    BY SMTT(30) DEF PasskeysSound, CookieInv, Of
  <2>2. Kind(req[i].chal) = Of(req[i].client, req[i].op)
    BY <2>1, SMTT(30) DEF Kind, Of
  <2>3. \A j \in Of(req[i].client, req[i].op) : j <= req[i].chal
    BY <2>1, Shapes, SMTT(30) DEF PasskeysSound, Of
  <2>4. Lone(req[i].chal)
    BY <2>2, <2>3, SMTT(30) DEF Lone
  <2>5. QED
    BY <2>1, <2>4, SMTT(30) DEF PasskeysSound, Undisturbed
<1>2. QED
  BY <1>1, PasskeysAreSound, PTL

\* Whom VerifyAuthentication accepts has logged in with a passkey of that user, less than
\* Duration ago, and the user is found.
THEOREM LoginsAreBacked == Spec => []VerifiedMeansLoggedIn
<1>1. PasskeysSound => VerifiedMeansLoggedIn
  <2> SUFFICES ASSUME PasskeysSound, NEW c \in Clients, AuthenticateUser(c) # None
               PROVE  /\ VerifyAuthentication(c) = 200
                      /\ \E i \in DOMAIN req : /\ req[i].client = c
                                               /\ req[i].status = 200
                                               /\ req[i].login = jar[c].login
                                               /\ AuthenticateUser(c) \in DOMAIN passkey[c]
                      /\ jar[c].login.exp - now <= Duration
    BY SMTT(30) DEF VerifiedMeansLoggedIn
  <2>1. /\ now < jar[c].login.exp /\ AuthenticateUser(c) = jar[c].login.user
        /\ now \in Nat /\ jar[c].login.exp \in Nat /\ Duration \in Nat
    BY Shapes, PasskeysAssumption, Zenon DEF AuthenticateUser, ParseAndValidate, PasskeysSound, TypeOK, Jar, Login, Duration, SetDefaults
  <2>2. jar[c].login # NoLogin
    BY <2>1, SMTT(30) DEF NoLogin
  <2>3. PICK i \in DOMAIN req : req[i].client = c /\ req[i].login = jar[c].login
    BY <2>2, ZenonT(30) DEF PasskeysSound, UserInv
  <2>4. /\ req[i].status = 200 /\ req[i].login.user = req[i].user /\ req[i].user \in DOMAIN users
        /\ req[i].login.exp <= now + Duration /\ req[i].user \in DOMAIN passkey[c]
    BY <2>2, <2>3 DEF PasskeysSound, UserInv
  <2>5. QED
    BY <2>1, <2>3, <2>4, SMTT(30) DEF VerifyAuthentication, Known
<1>2. QED
  BY <1>1, PasskeysAreSound, PTL

\* The session manager with its handlers implements one-time tickets: whatever cookies
\* and repeated requests arrive, a session is issued once and handed out once.
THEOREM SessionsAreTickets == Spec => IsOneTimeTicket
<1>1. Init => Ticket!Init
  BY DEF Init, Holder, Ticket!Init
<1>2. PasskeysSound /\ [Next]_vars => [Ticket!Next]_<<DOMAIN sessions, Holder>>
  BY Steps, Zenon
<1>3. QED
  BY <1>1, <1>2, PasskeysAreSound, PTL DEF Spec, IsOneTimeTicket, Ticket!Spec

\* The counter of a credential goes back only in UpdateCredential, of an authentication
\* whose Lookup came before another one's update.
THEOREM CountersGoForward == Spec => CounterBackOnlyOnOverlap
<1>1. PasskeysSound /\ [Next]_vars => [CounterStep]_vars
  BY Steps, Zenon
<1>2. QED
  BY <1>1, PasskeysAreSound, PTL DEF Spec, CounterBackOnlyOnOverlap
-----------------------------------------------------------------------------
(* Permissions.                                                            *)

\* Texts that differ.
LEMMA BlankIsNoWord == Star # Blank /\ "user" # Blank /\ "GET" # Blank
BY ZenonT(30) DEF Star, Blank

\* What a pattern is, position by position.
LEMMA PatternShape ==
  ASSUME NEW p \in Patterns
  PROVE  /\ Len(p) \in Nat \ {0} /\ DOMAIN p = 1..Len(p)
         /\ \A i \in 1..Len(p) : p[i] \in Components \union {Star}
         /\ ~ Empty(p) => ~ (Len(p) = 1 /\ p[1] = Blank)
<1>1. p \in Seq(Components \union {Star}) /\ p # <<>>
  BY PatternsAssumption, Zenon
<1>2. Len(p) \in Nat \ {0} /\ DOMAIN p = 1..Len(p)
  BY <1>1
<1>3. \A i \in 1..Len(p) : p[i] \in Components \union {Star}
  BY <1>1
<1>4. ASSUME Len(p) = 1, p[1] = Blank
      PROVE  Empty(p)
  <2>1. p \in Seq(Components \union {Star, Blank}) /\ <<Blank>> \in Seq(Components \union {Star, Blank})
    BY <1>1
  <2>2. Len(<<Blank>>) = 1 /\ <<Blank>>[1] = Blank
    BY Zenon
  <2>3. QED
    BY <1>4, <2>1, <2>2, SeqEqual DEF Empty
<1>5. QED
  BY <1>2, <1>3, <1>4, Zenon

\* Allowed is inclusion of what the patterns stand for, for patterns that are not empty
\* and not too long: no request of the required pattern is left out, and none that the
\* granted pattern does not stand for is let in.
LEMMA AllowedExactly ==
  ASSUME NEW r \in Patterns, NEW q \in Patterns, ~ Empty(r), ~ Empty(q),
         Len(r) <= MaxComponents, Len(q) <= MaxComponents
  PROVE  Allowed(r, q) <=> \A c \in Requests : Matches(q, c) => Matches(r, c)
<1>0. /\ Len(r) \in Nat \ {0} /\ DOMAIN r = 1..Len(r)
      /\ Len(q) \in Nat \ {0} /\ DOMAIN q = 1..Len(q)
      /\ \A i \in 1..Len(q) : q[i] \in Components \union {Star}
      /\ ~ (Len(q) = 1 /\ q[1] = Blank)
  BY PatternShape, Zenon
<1>1. ASSUME Allowed(r, q), NEW c \in Requests, Matches(q, c)
      PROVE  Matches(r, c)
  <2>1. Len(c) \in Nat
    <3>1. PICK n \in 1..MaxComponents : c \in [1..n -> Components]
      BY <1>0, <1>1, Zenon DEF Requests
    <3>2. QED
      BY <1>0, <3>1, PatternsAssumption
  <2>2. CASE r = q
    BY <1>0, <1>1, <2>2, Zenon
  <2>3. CASE StarEnd(r) /\ Len(q) >= Len(r) /\ \A i \in 1..Len(r) - 1 : r[i] = q[i]
    BY <1>0, <1>1, <2>1, <2>3, SMTT(30) DEF Matches, StarEnd
  <2>4. CASE Fits(r, q) /\ IF StarEnd(r) THEN Len(r) <= Len(q) ELSE Len(r) = Len(q)
    <3>0. Len(r) \in Nat /\ Len(q) \in Nat
      BY <1>0, Zenon
    <3>1. Len(r) <= Len(q) /\ (Len(r) < Len(q) => StarEnd(r))
      BY <2>4, <3>0 DEF StarEnd
    <3>2. \A i \in 1..Len(r) : i \in 1..Len(q) /\ (r[i] = Star \/ r[i] = q[i])
      <4>1. \A i \in 1..Len(r) : r[i] = Star \/ r[i] = q[i]
        BY <1>0, <2>4, ZenonT(30) DEF Fits
      <4>2. QED
        BY <3>0, <3>1, <4>1
    <3>3. StarEnd(q) => StarEnd(r)
      BY <1>0, <3>1, <3>2 DEF StarEnd
    <3>4. /\ Len(c) >= Len(q)
          /\ Len(c) > Len(q) => StarEnd(q)
      BY <1>0, <1>1, <2>1 DEF Matches
    <3>5. IF StarEnd(r) THEN Len(c) >= Len(r) ELSE Len(c) = Len(r)
      BY <2>1, <3>0, <3>1, <3>3, <3>4, SMTT(30)
    <3>6. \A i \in 1..Len(r) : r[i] \in {Star, c[i]}
      BY <1>0, <1>1, <3>2, Zenon DEF Matches, StarEnd
    <3>7. QED
      BY <1>0, <3>5, <3>6, Zenon DEF Matches, StarEnd
  <2>5. QED
    BY <1>0, <1>1, <2>2, <2>3, <2>4, ZenonT(30) DEF Allowed
<1>2. ASSUME \A c \in Requests : Matches(q, c) => Matches(r, c)
      PROVE  Allowed(r, q)
  <2>1. PICK x \in Components \ {Star, Blank} : \A p \in Patterns : \A i \in DOMAIN p : p[i] # x
    BY <1>0, PatternsAssumption, Zenon
  <2> DEFINE c == [i \in 1..Len(q) |-> IF q[i] = Star THEN x ELSE q[i]]
  <2>2. c \in [1..Len(q) -> Components] /\ Len(q) \in 1..MaxComponents
    BY <1>0, <2>1, PatternsAssumption
  <2>3. c # <<Blank>>
    BY <1>0, <2>1
  <2>5. Len(c) = Len(q)
    BY <1>0
  <2>6. Matches(q, c)
    BY <1>0, <2>5 DEF Matches, StarEnd
  <2>4. c \in Requests
    <3>1. PICK n \in 1..MaxComponents : c \in [1..n -> Components]
      BY <2>2, Zenon
    <3> HIDE DEF c
    <3>2. c \in UNION {[1..m -> Components] : m \in 1..MaxComponents}
      BY <3>1, ZenonT(30)
    <3>3. QED
      BY <2>3, <3>2, Zenon DEF Requests
  <2>7. Matches(r, c)
    BY <1>0, <1>2, <2>4, <2>6, Zenon
  <2>8. IF StarEnd(r) THEN Len(r) <= Len(q) ELSE Len(r) = Len(q)
    BY <1>0, <2>5, <2>7, ZenonT(30) DEF Matches, StarEnd
  <2>9. Fits(r, q)
    <3>1. \A i \in 1..Len(r) : i \in 1..Len(q) /\ r[i] # x /\ r[i] \in {Star, c[i]}
      <4>0. Len(r) \in Nat /\ Len(q) \in Nat
        BY <1>0, Zenon
      <4>1. Len(r) <= Len(q)
        BY <4>0, <2>8, SMTT(30) DEF StarEnd
      <4>2. \A i \in 1..Len(r) : r[i] \in {Star, c[i]}
        BY <1>0, <2>7, ZenonT(30) DEF Matches
      <4>3. QED
        BY <1>0, <2>1, <4>1, <4>2, SMTT(30)
    <3>2. QED
      BY <1>0, <3>1, ZenonT(30) DEF Fits
  <2>10. QED
    BY <1>0, <2>8, <2>9, ZenonT(30) DEF Allowed
<1>3. QED
  BY <1>1, <1>2, Zenon

\* A permission is satisfied by the one grant with its role and method.
LEMMA SatisfiesExactly ==
  ASSUME NEW r \in Patterns, NEW q \in Patterns, NEW role
  PROVE  Satisfies({Grant(r, r), [Grant(<<Star>>, <<Star>>) EXCEPT !.method = "PUT"]},
                   [Grant(q, q) EXCEPT !.role = role])
           <=> role = "user" /\ Allowed(r, q)
<1> DEFINE s == [Grant(q, q) EXCEPT !.role = role]
           g == Grant(r, r)
           h == [Grant(<<Star>>, <<Star>>) EXCEPT !.method = "PUT"]
<1>1. s.role = role /\ s.method = "GET" /\ s.action = q /\ s.resource = q
  BY Zenon DEF Grant
<1>2. g.role = "user" /\ g.method = "GET" /\ g.action = r /\ g.resource = r
  BY Zenon DEF Grant
<1>3. h.method = "PUT"
  BY Zenon DEF Grant
<1> HIDE DEF s, g, h
<1>4. Valid(s) <=> role # Blank /\ ~ Empty(q)
  BY <1>1, BlankIsNoWord, Zenon DEF Valid
<1>5. Satisfies({g, h}, s) <=> Valid(s) /\ role = "user" /\ Allowed(r, q)
  BY <1>1, <1>2, <1>3, Zenon DEF Satisfies
<1>6. Allowed(r, q) => ~ Empty(q)
  BY Zenon DEF Allowed
<1>7. QED
  BY <1>4, <1>5, <1>6, BlankIsNoWord, Zenon DEF s, g, h

\* Whatever patterns are granted and required, permissions are decided by inclusion.
THEOREM PermissionsAreInclusion == PermissionsSpec => []AllowedIsInclusion
<1>1. PermissionsInit => AllowedIsInclusion
  BY Zenon DEF PermissionsInit, AllowedIsInclusion
<1>2. AllowedIsInclusion /\ [PermissionsNext]_decided => AllowedIsInclusion'
  <2>1. ASSUME NEW r \in Patterns, NEW q \in Patterns, NEW role, CheckPermission(r, q, role)
        PROVE  AllowedIsInclusion'
    <3>1. /\ decided'[1] = r /\ decided'[2] = q /\ decided'[3] = role
          /\ decided'[4] <=> role = "user" /\ Allowed(r, q)
      BY <2>1, SatisfiesExactly, ZenonT(30) DEF CheckPermission
    <3>2. Allowed(r, q) => /\ ~ Empty(r) /\ ~ Empty(q)
                           /\ Len(r) <= MaxComponents /\ Len(q) <= MaxComponents
      BY Zenon DEF Allowed
    <3>3. role = "user" /\ Allowed(r, q) <=>
            /\ role = "user" /\ ~ Empty(r) /\ ~ Empty(q)
            /\ Len(r) <= MaxComponents /\ Len(q) <= MaxComponents
            /\ \A c \in Requests : Matches(q, c) => Matches(r, c)
      BY <3>2, AllowedExactly, Zenon
    <3>4. QED
      BY <3>1, <3>3, Zenon DEF AllowedIsInclusion
  <2>2. ASSUME AllowedIsInclusion, UNCHANGED decided
        PROVE  AllowedIsInclusion'
    BY <2>2, Zenon DEF AllowedIsInclusion
  <2>3. QED
    BY <2>1, <2>2, Zenon DEF PermissionsNext
<1>3. QED
  BY <1>1, <1>2, PTL DEF PermissionsSpec
=============================================================================
