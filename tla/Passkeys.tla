----------------------------- MODULE Passkeys ------------------------------
(***************************************************************************)
(* Passkey registration and authentication (webauth/webauthn/passkeys):    *)
(* each is a ceremony of two requests, Begin and Finish, tied together by  *)
(* a session kept in memory whose key the browser holds in a cookie.       *)
(* Finish requests run concurrently and touch the sessions and the users   *)
(* in separate critical sections; responses may be late, lost or overtake  *)
(* each other.                                                             *)
(*                                                                         *)
(* The random key of a session, the challenge of its ceremony and the      *)
(* random id of the user a registration creates are one number, the        *)
(* ceremony's.  A handler that fails before it has changed anything        *)
(* (parsing, the email validator, the random source) is a stuttering step. *)
(***************************************************************************)
EXTENDS Naturals, Sequences

CONSTANTS
  Clients,       \* browsers, each with its cookies and its authenticator
  MaxCeremonies, \* bound on the Begin requests
  MaxRequests,   \* bound on the Finish requests
  LoginDuration, \* how long a login lasts as configured, 0 for the default
  DefaultDuration,
  MaxTime        \* bound on the clock

ASSUME PasskeysAssumption ==
  MaxCeremonies \in Nat /\ MaxRequests \in Nat /\ MaxTime \in Nat
  /\ LoginDuration \in Nat /\ DefaultDuration \in Nat \ {0}

VARIABLES
  now,       \* the clock
  sessions,  \* sessionManager.sessions: the key of a session to its user
  users,     \* userDatabase.users: a user to the counter of its credential
  ceremony,  \* the Begin requests in order, what the client knows, and history
  req,       \* the Finish requests in order of arrival
  jar,       \* jar[c]: the cookies of c
  passkey    \* passkey[c]: the users whose passkey c holds, with its counter

vars == <<now, sessions, users, ceremony, req, jar, passkey>>

Keys == 1..MaxCeremonies
None == 0      \* no user, no key
NoLogin == [user |-> None, exp |-> 0]
Ceremonies == DOMAIN ceremony
Of(c, op) == {k \in Ceremonies : ceremony[k].client = c /\ ceremony[k].op = op}

\* f with its value at x set to v.
Put(f, x, v) == [y \in DOMAIN f \cup {x} |-> IF y = x THEN v ELSE f[y]]
Remove(f, x) == [y \in DOMAIN f \ {x} |-> f[y]]

Init ==
  /\ now = 0
  /\ sessions = <<>>
  /\ users = <<>>
  /\ ceremony = <<>>
  /\ req = <<>>
  /\ jar = [c \in Clients |-> [registration |-> None, authentication |-> None, login |-> NoLogin]]
  /\ passkey = [c \in Clients |-> <<>>]

-----------------------------------------------------------------------------
(***************************************************************************)
(* Begin.                                                                  *)
(***************************************************************************)

\* c has finished its ceremonies of this kind and seen the answers.
Settled(c, op) ==
  /\ \A k \in Of(c, op) : \E i \in DOMAIN req : req[i].chal = k
  /\ \A i \in DOMAIN req : req[i].client = c /\ req[i].op = op => req[i].pc = "done"

\* Both are drawn at random, the second whatever the email address.
FreshKey == Len(ceremony) + 1
NewUser == Len(ceremony) + 1

\* Mutant: a session for an authentication is given a user.
AuthenticatingAnyone == sessions' = Put(sessions, FreshKey, FreshKey)

\* The sessions of both kinds are in one map.
Registering(user) == sessions' = Put(sessions, FreshKey, user)
Authenticating == sessions' = Put(sessions, FreshKey, None)

NewCeremony(c, op) ==
  /\ FreshKey \in Keys
  /\ ceremony' = Append(ceremony, [client |-> c, op |-> op, seen |-> FALSE,
                                   alone |-> Settled(c, op)])
  /\ UNCHANGED <<now, users, req, jar, passkey>>

BeginRegistration(c) == NewCeremony(c, "registration") /\ Registering(NewUser)

BeginDiscoverableAuthentication(c) == NewCeremony(c, "authentication") /\ Authenticating

\* Mutant: both kinds of ceremony use one cookie.
OneCookie(cookies, op, key) == [cookies EXCEPT !.registration = key, !.authentication = key]

\* Secure.Set: each kind of ceremony has its cookie.
SetCookie(cookies, op, key) == [cookies EXCEPT ![op] = key]

\* The answer to Begin reaches the client.
BeginAnswered(k) ==
  /\ ~ ceremony[k].seen
  /\ ceremony' = [ceremony EXCEPT ![k].seen = TRUE]
  /\ jar' = [jar EXCEPT ![ceremony[k].client] = SetCookie(@, ceremony[k].op, k)]
  /\ UNCHANGED <<now, sessions, users, req, passkey>>

-----------------------------------------------------------------------------
(***************************************************************************)
(* Finish: the cookie is read and the session taken.                       *)
(***************************************************************************)

\* Mutant: the session stays in the map.
Peek(key) == UNCHANGED sessions

\* A session is removed when it is retrieved.
Registered(key) == sessions' = Remove(sessions, key)
Authenticated(key) == sessions' = Remove(sessions, key)

\* The handler's status after its cookie and its session, 0 to go on.
SessionStatus(key) == IF key = None THEN 400 ELSE IF key \notin DOMAIN sessions THEN 500 ELSE 0

\* A registration needs a session that has a user.
UserStatus(key) == IF SessionStatus(key) = 0 /\ sessions[key] = None THEN 400 ELSE SessionStatus(key)

\* A request with an answer to challenge chal, signed for the passkey of user.
Finish(c, op, chal, user, count, status) ==
  LET key == jar[c][op]
  IN  /\ Len(req) < MaxRequests
      /\ chal \in Of(c, op)
      /\ ceremony[chal].seen
      /\ req' = Append(req, [pc |-> IF status = 0 THEN "took" ELSE "answered",
                             op |-> op, client |-> c, key |-> key, chal |-> chal,
                             user |-> user, count |-> count, read |-> 0,
                             got |-> key \in DOMAIN sessions, known |-> user \in DOMAIN users,
                             status |-> status, login |-> NoLogin])
      /\ passkey' = [passkey EXCEPT ![c] = Put(@, user, count)]
      /\ UNCHANGED <<now, users, ceremony, jar>>

\* The browser creates a passkey, whose counter starts at zero, before the server
\* knows of it.
FinishRegistration(c, chal) ==
  LET key == jar[c].registration
  IN  /\ Finish(c, "registration", chal, chal,
                IF chal \in DOMAIN passkey[c] THEN passkey[c][chal] ELSE 0, UserStatus(key))
      /\ Registered(key)

FinishAuthentication(c, chal, user) ==
  LET key == jar[c].authentication
  IN  /\ user \in DOMAIN passkey[c]
      /\ Finish(c, "authentication", chal, user, passkey[c][user] + 1, SessionStatus(key))
      /\ Authenticated(key)

-----------------------------------------------------------------------------
(***************************************************************************)
(* Finish: the rest of the handlers.                                       *)
(***************************************************************************)
Went(i, op, from) == req[i].op = op /\ req[i].pc = from

Answer(i, status, login) ==
  req' = [req EXCEPT ![i].pc = "answered", ![i].status = status, ![i].login = login]

\* The library accepts an answer to the challenge of the session it is given.
AnswersSession(i) == req[i].chal = req[i].key

\* userDatabase.Store and Lookup.
Store(user, count) == users' = Put(users, user, count)
Known(user) == user \in DOMAIN users

\* AddCredential and Store, of the user of the session.
StoreUser(i) ==
  /\ Went(i, "registration", "took")
  /\ IF AnswersSession(i)
     THEN /\ Answer(i, 200, NoLogin)
          /\ Store(req[i].key, 0)
     ELSE /\ Answer(i, 400, NoLogin)
          /\ UNCHANGED users
  /\ UNCHANGED <<now, sessions, ceremony, jar, passkey>>

\* Mutant: the counter of the answer is taken as it is.
CounterAsSent(stored, sent) == sent

\* The library keeps the counter it was given unless the answer's is larger.
UpdateCounter(stored, sent) == IF sent > stored THEN sent ELSE stored

\* FinishPasskeyLogin, with Lookup as its handler.
Lookup(i) ==
  LET u == req[i].user
  IN  /\ Went(i, "authentication", "took")
      /\ IF Known(u) /\ AnswersSession(i)
         THEN req' = [req EXCEPT ![i].pc = "checked", ![i].read = users[u],
                                 ![i].count = UpdateCounter(users[u], @)]
         ELSE Answer(i, 500, NoLogin)
      /\ UNCHANGED <<now, sessions, users, ceremony, jar, passkey>>

\* ScopeAndDuration.SetDefaults, for the duration, and its use for the login.
SetDefaults(duration, default) == IF duration = 0 THEN default ELSE duration
Duration == SetDefaults(LoginDuration, DefaultDuration)

\* Mutant: logins last one unit longer than they should.
LoginTooLong(user) == [user |-> user, exp |-> now + Duration + 1]

\* JWTCookieLoginManager.UserAuthenticated.
UserAuthenticated(user) == [user |-> user, exp |-> now + Duration]

\* UpdateCredential writes the credential that Lookup found, which the stored user
\* shares; Store stores the same user again.
UpdateCredential(i) ==
  /\ Went(i, "authentication", "checked")
  /\ Store(req[i].user, req[i].count)
  /\ Answer(i, 200, UserAuthenticated(req[i].user))
  /\ UNCHANGED <<now, sessions, ceremony, jar, passkey>>

\* readAndClearCookie, which clears a cookie by its name.
ClearCookie(cookies, op) == [cookies EXCEPT ![op] = None]

\* The login cookie, which is set when there is one.
SetLogin(cookies, login) == IF login = NoLogin THEN cookies ELSE [cookies EXCEPT !.login = login]

\* The answer to Finish reaches the client.
FinishAnswered(i) ==
  /\ req[i].pc = "answered"
  /\ req' = [req EXCEPT ![i].pc = "done"]
  /\ jar' = [jar EXCEPT ![req[i].client] = SetLogin(ClearCookie(@, req[i].op), req[i].login)]
  /\ UNCHANGED <<now, sessions, users, ceremony, passkey>>

-----------------------------------------------------------------------------
(***************************************************************************)
(* VerifyAuthentication, which changes nothing.                            *)
(***************************************************************************)

\* What the signer accepts of its own tokens.
ParseAndValidate(token) == now < token.exp

\* The user of c's login token, or None.
AuthenticateUser(c) == IF ParseAndValidate(jar[c].login) THEN jar[c].login.user ELSE None

VerifyAuthentication(c) ==
  LET u == AuthenticateUser(c)
  IN  IF u = None THEN 401 ELSE IF Known(u) THEN 200 ELSE 500

Tick ==
  /\ now < MaxTime
  /\ now' = now + 1
  /\ UNCHANGED <<sessions, users, ceremony, req, jar, passkey>>

Begin(c) == BeginRegistration(c) \/ BeginDiscoverableAuthentication(c)
Send(c) == \E k \in Ceremonies : FinishRegistration(c, k) \/ \E u \in Keys : FinishAuthentication(c, k, u)
Handle(i) == StoreUser(i) \/ Lookup(i) \/ UpdateCredential(i)

Next ==
  \/ \E c \in Clients : Begin(c) \/ Send(c)
  \/ \E k \in Ceremonies : BeginAnswered(k)
  \/ \E i \in DOMAIN req : Handle(i) \/ FinishAnswered(i)
  \/ Tick

Spec == Init /\ [][Next]_vars

-----------------------------------------------------------------------------
(***************************************************************************)
(* Properties.                                                             *)
(***************************************************************************)

Ops == {"registration", "authentication"}
Login == [user : Keys \cup {None}, exp : Nat]
Jar == [registration : Keys \cup {None}, authentication : Keys \cup {None}, login : Login]
Ceremony == [client : Clients, op : Ops, seen : BOOLEAN, alone : BOOLEAN]
Request == [pc : {"took", "checked", "answered", "done"}, op : Ops, client : Clients,
            key : Keys \cup {None}, chal : Keys, user : Keys, count : Nat, read : Nat,
            got : BOOLEAN, known : BOOLEAN, status : {0, 200, 400, 500}, login : Login]

\* The maps of the server, the requests and what the browsers hold have their types.
TypeOK ==
  /\ now \in Nat
  /\ sessions \in [DOMAIN sessions -> Keys \cup {None}]
  /\ users \in [DOMAIN users -> Nat]
  /\ ceremony \in Seq(Ceremony) /\ Len(ceremony) <= MaxCeremonies
  /\ req \in Seq(Request) /\ Len(req) <= MaxRequests
  /\ jar \in [Clients -> Jar]
  /\ DOMAIN passkey = Clients
  /\ \A c \in Clients : passkey[c] \in [DOMAIN passkey[c] -> Nat]

\* What makes the sessions one-time tickets: the key of a session belongs to a ceremony
\* that was begun, its user is the one its registration created, or none, and a session
\* that was handed to a Finish handler is gone.
TicketInv ==
  /\ DOMAIN sessions \subseteq Ceremonies
  /\ \A k \in DOMAIN sessions : sessions[k] = IF ceremony[k].op = "registration" THEN k ELSE None
  /\ \A i \in DOMAIN req : req[i].got => req[i].key \in Ceremonies \ DOMAIN sessions
  /\ \A i, j \in DOMAIN req : req[i].got /\ req[j].got /\ req[i].key = req[j].key => i = j

\* A cookie holds the key of a ceremony of its kind that its browser began, and so does
\* the key of a request.
CookieInv ==
  /\ \A c \in Clients, op \in Ops : jar[c][op] # None => jar[c][op] \in Of(c, op)
  /\ \A i \in DOMAIN req :
       /\ req[i].chal \in Of(req[i].client, req[i].op) /\ ceremony[req[i].chal].seen
       /\ req[i].key # None => req[i].key \in Of(req[i].client, req[i].op)

\* A stored user was registered, a handler that goes on has its session, one that has
\* looked a user up found it, and a login is that of a stored user.  No counter exceeds
\* the number of requests.
UserInv ==
  /\ \A u \in DOMAIN users :
       /\ users[u] <= Len(req)
       /\ \E i \in DOMAIN req : /\ req[i].op = "registration" /\ req[i].status = 200
                                /\ req[i].got /\ req[i].key = u
  /\ \A i \in DOMAIN req :
       /\ req[i].user \in DOMAIN passkey[req[i].client]
       /\ req[i].count <= Len(req)
       /\ req[i].status = 0 <=> req[i].pc \in {"took", "checked"}
       /\ req[i].pc = "took" => req[i].got
       /\ req[i].pc = "checked" => req[i].read <= req[i].count
       /\ req[i].pc = "checked" \/ req[i].known \/ req[i].login # NoLogin => req[i].user \in DOMAIN users
       /\ req[i].login # NoLogin => /\ req[i].status = 200
                                    /\ req[i].login.user = req[i].user
                                    /\ req[i].login.exp <= now + Duration
  /\ \A c \in Clients :
       /\ \A u \in DOMAIN passkey[c] : passkey[c][u] <= Len(req)
       /\ jar[c].login # NoLogin => \E i \in DOMAIN req : /\ req[i].client = c
                                                          /\ req[i].login = jar[c].login

\* Ceremony k is the last of its kind of its client, who had settled the others when it
\* began and has answered none of them twice.
Kind(k) == Of(ceremony[k].client, ceremony[k].op)
Lone(k) ==
  /\ ceremony[k].alone
  /\ \A j \in Kind(k) : j <= k
  /\ \A i, j \in DOMAIN req : req[i].chal = req[j].chal /\ req[i].chal \in Kind(k) => i = j

\* Until such a ceremony is finished its session and its cookie are there, and the
\* request that finishes it finds both.
Undisturbed(k) ==
  /\ \A j \in Kind(k) \ {k} : ceremony[j].seen /\ \E i \in DOMAIN req : req[i].chal = j
  /\ \A i \in DOMAIN req :
       IF req[i].chal = k
       THEN /\ req[i].key = k /\ req[i].got
            /\ req[i].status \in {400, 500} => req[i].op = "authentication" /\ ~ req[i].known
       ELSE req[i].chal \in Kind(k) => req[i].pc = "done"
  /\ \/ \E i \in DOMAIN req : req[i].chal = k
     \/ /\ k \in DOMAIN sessions
        /\ ceremony[k].seen => jar[ceremony[k].client][ceremony[k].op] = k

\* The session manager's map, the cookies and the handlers keep their types and the
\* invariants above, whatever requests are repeated or answered late.
PasskeysSound ==
  TypeOK /\ TicketInv /\ CookieInv /\ UserInv /\ \A k \in Ceremonies : Lone(k) => Undisturbed(k)

\* The requests that were handed the session of each key.
Holder == [k \in Keys |-> {i \in DOMAIN req : req[i].key = k /\ req[i].got}]
Ticket == INSTANCE OneTimeTicket WITH
  Tickets <- Keys, Holders <- 1..MaxRequests, valid <- DOMAIN sessions, holder <- Holder

\* The sessions are one-time tickets: however requests are repeated and cookies
\* outlive them, a session is handed to one Finish handler, and it stays in the
\* map, abandoned or not, until then.
IsOneTimeTicket == Ticket!Spec

\* A ceremony that its client carries out alone succeeds, whatever other clients
\* and other ceremonies do: a Finish handler fails only if the client had another
\* ceremony of the same kind open, sent an answer twice, or used a passkey whose
\* registration the server had not stored.
AloneSucceeds ==
  \A i \in DOMAIN req :
    req[i].status \in {400, 500} =>
      \/ ~ ceremony[req[i].chal].alone
      \/ \E k \in Of(req[i].client, req[i].op) : k > req[i].chal
      \/ \E j, l \in DOMAIN req : /\ j # l
                                  /\ req[j].chal = req[l].chal
                                  /\ req[j].chal \in Of(req[i].client, req[i].op)
      \/ req[i].op = "authentication" /\ ~ req[i].known

\* A client that VerifyAuthentication accepts has authenticated with a passkey of
\* that user less than Duration ago, and the user is always found.
VerifiedMeansLoggedIn ==
  \A c \in Clients :
    LET u == AuthenticateUser(c)
    IN  u # None =>
          /\ VerifyAuthentication(c) = 200
          /\ \E i \in DOMAIN req : /\ req[i].client = c
                                   /\ req[i].status = 200
                                   /\ req[i].login = jar[c].login
                                   /\ u \in DOMAIN passkey[c]
          /\ jar[c].login.exp - now <= Duration

\* The stored counter of a credential goes back only when two authentications
\* overlap, in the step of one that looked the user up before the other's update.
CounterStep ==
  \A u \in DOMAIN users : users'[u] < users[u] =>
    \E i \in DOMAIN req : /\ Went(i, "authentication", "checked")
                          /\ req[i].user = u
                          /\ req'[i].pc = "answered"
                          /\ req[i].read # users[u]
CounterBackOnlyOnOverlap == [][CounterStep]_vars
=============================================================================
