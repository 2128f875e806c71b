------------------------------ MODULE WaitFor ------------------------------
(***************************************************************************)
(* WaitForServers and WaitForURLs (shutdown.go): wait until every address  *)
(* answers, by one goroutine per address in an errgroup whose context is   *)
(* cancelled by the first of them that fails.  With a single address there *)
(* is no group, and its error is returned as it is; with none the answer   *)
(* is nil: both are instances of what follows.                             *)
(***************************************************************************)
CONSTANT
  Addrs      \* the addresses or URLs to wait for

VARIABLES
  urls,      \* the call is one of WaitForURLs, not of WaitForServers
  bad,       \* the URLs for which no request can be made
  up,        \* the addresses that answer in time, with a good status for a URL
  answered,  \* history: the addresses that have answered a ping
  pinger,    \* the goroutine of each address: where it is, or what it returned
  parent,    \* ctx.Err() of the caller's context
  ctxErr,    \* ctx.Err() of the group's context
  err,       \* the errgroup's first error
  returned   \* what the function returned, "none" before

waitVars == <<urls, bad, up, answered, pinger, parent, ctxErr, err, returned>>

ContextErrors == {"canceled", "deadline"}
PingErrors == ContextErrors \cup {"badurl"}
Ended == PingErrors \cup {"nil"}

WaitInit ==
  /\ urls \in BOOLEAN
  /\ bad \in IF urls THEN SUBSET Addrs ELSE {{}}
  /\ up \in SUBSET (Addrs \ bad)
  /\ answered = {}
  /\ pinger = [a \in Addrs |-> "loop"]
  /\ parent = "nil"
  /\ ctxErr = "nil"
  /\ err = "nil"
  /\ returned = "none"

Move(a, from, to) ==
  /\ pinger[a] = from
  /\ pinger' = [pinger EXCEPT ![a] = to]

-----------------------------------------------------------------------------
(***************************************************************************)
(* The goroutines.                                                         *)
(***************************************************************************)

\* Mutants: the last error is kept; an error does not cancel the others.
FailKeepsLast(a, from, e) ==
  /\ Move(a, from, e)
  /\ err' = e
  /\ ctxErr' = IF ctxErr = "nil" THEN "canceled" ELSE ctxErr
  /\ UNCHANGED <<urls, bad, up, answered, parent, returned>>

FailCancelsNothing(a, from, e) ==
  /\ Move(a, from, e)
  /\ err' = IF err = "nil" THEN e ELSE err
  /\ UNCHANGED <<urls, bad, up, answered, parent, ctxErr, returned>>

\* The function of errgroup.Go returns an error: the first one is kept, and it
\* cancels the group's context.
Fail(a, from, e) ==
  /\ Move(a, from, e)
  /\ err' = IF err = "nil" THEN e ELSE err
  /\ ctxErr' = IF ctxErr = "nil" THEN "canceled" ELSE ctxErr
  /\ UNCHANGED <<urls, bad, up, answered, parent, returned>>

\* The dial or the request begins.  net.DialTimeout is given no context, client.Do
\* fails at once if the context is done.
Begin(a) ==
  /\ a \notin bad
  /\ urls => ctxErr = "nil"
  /\ Move(a, "loop", "pinging")
  /\ UNCHANGED <<urls, bad, up, answered, parent, ctxErr, err, returned>>

\* http.NewRequestWithContext fails.
BadURL(a) ==
  /\ a \in bad
  /\ Fail(a, "loop", "badurl")

\* An answer may win over a context that is done while the request is under way.
Answered(a) ==
  /\ a \in up
  /\ Move(a, "pinging", "nil")
  /\ answered' = answered \cup {a}
  /\ UNCHANGED <<urls, bad, up, parent, ctxErr, err, returned>>

\* No answer, or an error other than context.Canceled: the select comes next.
Unavailable(a) ==
  /\ \/ a \notin up /\ Move(a, "pinging", "select")
     \/ /\ urls /\ ctxErr = "deadline" /\ a \notin bad
        /\ \E from \in {"loop", "pinging"} : Move(a, from, "select")
  /\ UNCHANGED <<urls, bad, up, answered, parent, ctxErr, err, returned>>

\* errors.Is(err, context.Canceled).
Cancelled(a) ==
  /\ urls /\ ctxErr = "canceled" /\ a \notin bad
  /\ \E from \in {"loop", "pinging"} : Fail(a, from, "canceled")

\* The select: the context is done, or the ticker fires.
SelectDone(a) ==
  /\ ctxErr # "nil"
  /\ Fail(a, "select", ctxErr)

SelectTick(a) ==
  /\ Move(a, "select", "loop")
  /\ UNCHANGED <<urls, bad, up, answered, parent, ctxErr, err, returned>>

Pinger(a) == Begin(a) \/ BadURL(a) \/ Answered(a) \/ Unavailable(a)
             \/ Cancelled(a) \/ SelectDone(a) \/ SelectTick(a)

-----------------------------------------------------------------------------
(***************************************************************************)
(* The caller and the world.                                               *)
(***************************************************************************)

\* g.Wait: every goroutine has returned.
Wait ==
  /\ returned = "none"
  /\ \A a \in Addrs : pinger[a] \in Ended
  /\ returned' = err
  /\ UNCHANGED <<urls, bad, up, answered, pinger, parent, ctxErr, err>>

\* The caller's context ends, and with it the group's.
ParentDone(e) ==
  /\ parent = "nil"
  /\ parent' = e
  /\ ctxErr' = IF ctxErr = "nil" THEN e ELSE ctxErr
  /\ UNCHANGED <<urls, bad, up, answered, pinger, err, returned>>

ComesUp(a) ==
  /\ a \notin up \cup bad
  /\ up' = up \cup {a}
  /\ UNCHANGED <<urls, bad, answered, pinger, parent, ctxErr, err, returned>>

GoesDown(a) ==
  /\ a \in up
  /\ up' = up \ {a}
  /\ UNCHANGED <<urls, bad, answered, pinger, parent, ctxErr, err, returned>>

WaitNext ==
  \/ \E a \in Addrs : Pinger(a) \/ ComesUp(a) \/ GoesDown(a)
  \/ Wait
  \/ \E e \in ContextErrors : ParentDone(e)

WaitSpec == WaitInit /\ [][WaitNext]_waitVars

-----------------------------------------------------------------------------
(***************************************************************************)
(* Properties.                                                             *)
(***************************************************************************)

\* The type of every variable of the group and its goroutines (shutdown.go).
WaitTypeOK ==
  /\ urls \in BOOLEAN
  /\ bad \subseteq Addrs
  /\ up \subseteq Addrs \ bad
  /\ answered \subseteq Addrs \ bad
  /\ pinger \in [Addrs -> Ended \cup {"loop", "pinging", "select"}]
  /\ parent \in ContextErrors \cup {"nil"}
  /\ ctxErr \in ContextErrors \cup {"nil"}
  /\ err \in Ended
  /\ returned \in Ended \cup {"none"}

\* When WaitForServers or WaitForURLs returns nil every address has answered at
\* some time, also if contexts and goroutines ended in an unfortunate order.
NilMeansAllSeen == returned = "nil" => answered = Addrs

\* The cause is reported, never its consequence: goroutines that stop because
\* another one failed do not make the call look cancelled by its caller.
CauseReported == returned \in ContextErrors => returned = parent

\* When the call returns no goroutine of it is still pinging.
NoneLeft == returned # "none" => \A a \in Addrs : pinger[a] \in Ended

\* What makes the three inductive: a goroutine returns nil only for an address that
\* has answered and an error only after one was kept; a context error that was kept,
\* or that the group's context has while none is kept, is the caller's; and what was
\* returned is what was kept (the errgroup in WaitForServers and WaitForURLs).
WaitInv ==
  /\ WaitTypeOK
  /\ \A a \in Addrs : /\ pinger[a] = "nil" => a \in answered
                      /\ pinger[a] \in PingErrors => err # "nil"
  /\ err \in ContextErrors => err = parent
  /\ ctxErr # "nil" /\ err = "nil" => ctxErr = parent
  /\ returned # "none" => returned = err /\ \A a \in Addrs : pinger[a] \in Ended

\* The call returns once its context is done or one of the URLs is malformed,
\* whatever the servers do meanwhile.
EndsWhenDone == (parent # "nil" \/ bad # {}) ~> (returned # "none")

\* The call returns if from some time on every server stays up.
EndsWhenUp == <>[](up = Addrs) => <>(returned # "none")

\* The call ends: with its context, by a malformed URL, or when all servers are up.
WaitEnds == EndsWhenDone /\ EndsWhenUp
=============================================================================
