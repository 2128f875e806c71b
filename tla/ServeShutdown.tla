--------------------------- MODULE ServeShutdown ---------------------------
(***************************************************************************)
(* ServeWithShutdown and ServeTLSWithShutdown (shutdown.go): a goroutine   *)
(* runs srv.Serve, the caller waits for it to fail or for its context to   *)
(* be cancelled, and then shuts the server down within a grace period.     *)
(*                                                                         *)
(* http.Server and its connections are external: Serve accepts requests    *)
(* until it fails or Shutdown has begun; Shutdown closes the listener and  *)
(* then waits until no request is active or its context is done.           *)
(* Requests are the processes that make it hard: a request is "patient"    *)
(* when its handler ends with its context, as the long polls of the        *)
(* webhook relay do, and runs for as long as it likes otherwise.           *)
(***************************************************************************)

CONSTANTS
  Reqs,            \* the requests that may arrive
  Patient,         \* those whose handler returns when its context is done
  BaseContexts,    \* whose context srv.BaseContext may return: "nil" when it is not
                   \* set, "ctx" (as NewHTTPServerOnly sets it) or "other"
  Configs,         \* "http", "tls", or "none" for ServeTLS without a TLSConfig
  OthersShutdown   \* the caller may also shut srv down itself

ASSUME ShutdownAssumption ==
  /\ Patient \subseteq Reqs
  /\ BaseContexts \subseteq {"nil", "ctx", "other"}
  /\ Configs \subseteq {"http", "tls", "none"}
  /\ OthersShutdown \in BOOLEAN

VARIABLES
  config, base, \* the server's configuration and BaseContext
  pc,        \* where serveWithShutdown is
  result,    \* what it returned
  ctxDone,   \* the caller's context is done
  grace,     \* the grace period's context: "off", "running" or "expired"
  serving,   \* the goroutine: "none", "start", "serve", what fn returned, then "ended"
  chan,      \* serveErrCh's buffer: the empty set or one error
  failure,   \* history: the error Serve failed with, "nil" when it did not
  closing,   \* srv.inShutdown
  listening, \* the listener is open
  active,    \* the requests whose handlers run
  done       \* the requests whose handlers have returned

vars == <<config, base, pc, result, ctxDone, grace, serving, chan, failure, closing, listening, active, done>>

\* What Serve may return: "closed" is http.ErrServerClosed, "canceled" an error
\* that wraps context.Canceled, "failed" any other.
Errors == {"closed", "canceled", "failed"}

Init ==
  /\ config \in Configs
  /\ base \in BaseContexts
  /\ pc = "start"
  /\ result = "none"
  /\ ctxDone \in BOOLEAN
  /\ grace = "off"
  /\ serving = "none"
  /\ chan = {}
  /\ failure = "nil"
  /\ closing = FALSE
  /\ listening = TRUE
  /\ active = {}
  /\ done = {}

(***************************************************************************)
(* http.Server.                                                            *)
(***************************************************************************)

\* srv.Serve, or the set-up of srv.ServeTLS before it; once Shutdown has begun
\* it returns at once.
Serve ==
  /\ serving = "start"
  /\ serving' = IF closing THEN "closed" ELSE "serve"
  /\ listening' = ~closing
  /\ UNCHANGED <<config, base, pc, result, ctxDone, grace, chan, failure, closing, active, done>>

\* A connection is accepted and a handler started for it.
Accept(r) ==
  /\ serving = "serve" /\ listening
  /\ r \notin active \cup done
  /\ active' = active \cup {r}
  /\ UNCHANGED <<config, base, pc, result, ctxDone, grace, serving, chan, failure, closing, listening, done>>

\* The contexts of the requests, which derive from BaseContext, are done.
RequestCancelled == base = "ctx" /\ ctxDone

\* A handler returns: whenever it likes, or because its context is done.
Finish(r) ==
  /\ r \in active
  /\ active' = active \ {r}
  /\ done' = done \cup {r}
  /\ UNCHANGED <<config, base, pc, result, ctxDone, grace, serving, chan, failure, closing, listening>>

\* Serve gives up on an error of its own; its deferred close closes the listener.
ServeFails(e) ==
  /\ serving \in {"start", "serve"} /\ ~closing
  /\ serving' = e
  /\ failure' = e
  /\ listening' = FALSE
  /\ UNCHANGED <<config, base, pc, result, ctxDone, grace, chan, closing, active, done>>

\* Serve notices that Shutdown has closed the listener.
ServeClosed ==
  /\ serving = "serve" /\ closing
  /\ serving' = "closed"
  /\ UNCHANGED <<config, base, pc, result, ctxDone, grace, chan, failure, closing, listening, active, done>>

\* Somebody else, who has srv too, shuts it down.
OtherShutdown ==
  /\ OthersShutdown
  /\ ~closing
  /\ closing' = TRUE
  /\ listening' = (listening /\ serving = "start")
  /\ UNCHANGED <<config, base, pc, result, ctxDone, grace, serving, chan, failure, active, done>>

(***************************************************************************)
(* serveWithShutdown.                                                      *)
(***************************************************************************)

Return(value) ==
  /\ result' = value
  /\ pc' = "returned"

\* Mutant: BaseContext is left alone.
StartLeavesBase ==
  /\ pc = "start"
  /\ \/ config = "none" /\ Return("noTLSConfig") /\ UNCHANGED serving
     \/ config # "none" /\ serving' = "start" /\ pc' = "serve" /\ UNCHANGED result
  /\ UNCHANGED <<config, base, ctxDone, grace, chan, failure, closing, listening, active, done>>

\* ServeTLSWithShutdown refuses a server without a TLSConfig; otherwise BaseContext
\* is filled in and the goroutine started.
Start ==
  /\ pc = "start"
  /\ \/ config = "none" /\ Return("noTLSConfig") /\ UNCHANGED <<base, serving>>
     \/ /\ config # "none"
        /\ base' = IF base = "nil" THEN "ctx" ELSE base
        /\ serving' = "start"
        /\ pc' = "serve"
        /\ UNCHANGED result
  /\ UNCHANGED <<config, ctxDone, grace, chan, failure, closing, listening, active, done>>

\* Mutant: the channel has no buffer.
ReportUnbuffered ==
  /\ serving \in Errors
  /\ pc \in {"serve", "drained"}
  /\ chan' = {IF serving = "closed" THEN "nil" ELSE serving}
  /\ serving' = "ended"
  /\ UNCHANGED <<config, base, pc, result, ctxDone, grace, failure, closing, listening, active, done>>

\* The goroutine sends what fn returned, nil for http.ErrServerClosed.
Report ==
  /\ serving \in Errors
  /\ chan = {}
  /\ chan' = {IF serving = "closed" THEN "nil" ELSE serving}
  /\ serving' = "ended"
  /\ UNCHANGED <<config, base, pc, result, ctxDone, grace, failure, closing, listening, active, done>>

\* The first select, case serveErrCh.
ServerStopped ==
  /\ pc = "serve"
  /\ \E e \in chan : Return(e)
  /\ chan' = {}
  /\ UNCHANGED <<config, base, ctxDone, grace, serving, failure, closing, listening, active, done>>

\* The first select, case ctx.Done, and the call of srv.Shutdown it leads to: the
\* listener is closed, if Serve has been called by then, and the grace period starts.
ShutdownBegins ==
  /\ pc = "serve"
  /\ ctxDone
  /\ pc' = "shutdown"
  /\ grace' = "running"
  /\ closing' = TRUE
  /\ listening' = (listening /\ serving = "start")
  /\ UNCHANGED <<config, base, result, ctxDone, serving, chan, failure, active, done>>

\* srv.Shutdown looks for active requests, once before it looks at its context and
\* then again and again.
ShutdownChecks ==
  /\ pc = "shutdown"
  /\ pc' = IF active = {} THEN "drained" ELSE "polling"
  /\ UNCHANGED <<config, base, result, ctxDone, grace, serving, chan, failure, closing, listening, active, done>>

ShutdownDrained ==
  /\ pc = "polling"
  /\ active = {}
  /\ pc' = "drained"
  /\ UNCHANGED <<config, base, result, ctxDone, grace, serving, chan, failure, closing, listening, active, done>>

\* srv.Shutdown gives up, its context is done.
ShutdownFails ==
  /\ pc = "polling"
  /\ grace = "expired"
  /\ Return("shutdownFailed")
  /\ UNCHANGED <<config, base, ctxDone, grace, serving, chan, failure, closing, listening, active, done>>

\* Mutant: what the goroutine reports during a shutdown is ignored.
ServerReportIgnored ==
  /\ pc = "drained"
  /\ chan # {}
  /\ Return("nil")
  /\ chan' = {}
  /\ UNCHANGED <<config, base, ctxDone, grace, serving, failure, closing, listening, active, done>>

\* The second select, case serveErrCh.
ServerReported ==
  /\ pc = "drained"
  /\ \E e \in chan : Return(IF e = "canceled" THEN "nil" ELSE e)
  /\ chan' = {}
  /\ UNCHANGED <<config, base, ctxDone, grace, serving, failure, closing, listening, active, done>>

\* The second select, case ctx.Done.
GraceOver ==
  /\ pc = "drained"
  /\ grace = "expired"
  /\ Return("deadlineExceeded")
  /\ UNCHANGED <<config, base, ctxDone, grace, serving, chan, failure, closing, listening, active, done>>

\* The caller's context is cancelled; the grace period runs out.
CancelContext ==
  /\ ~ctxDone
  /\ ctxDone' = TRUE
  /\ UNCHANGED <<config, base, pc, result, grace, serving, chan, failure, closing, listening, active, done>>

GraceExpires ==
  /\ grace = "running"
  /\ grace' = "expired"
  /\ UNCHANGED <<config, base, pc, result, ctxDone, serving, chan, failure, closing, listening, active, done>>

Goroutine == Serve \/ ServeClosed \/ Report
Caller == Start \/ ServerStopped \/ ShutdownBegins \/ ShutdownChecks \/ ShutdownDrained
          \/ ShutdownFails \/ ServerReported \/ GraceOver

Next ==
  \/ Goroutine \/ Caller \/ CancelContext \/ GraceExpires \/ OtherShutdown
  \/ \E e \in {"canceled", "failed"} : ServeFails(e)
  \/ \E r \in Reqs : Accept(r) \/ Finish(r)

Spec == Init /\ [][Next]_vars

-----------------------------------------------------------------------------
(***************************************************************************)
(* Properties.                                                             *)
(***************************************************************************)

\* The type of every variable (shutdown.go, serveWithShutdown's locals and srv).
TypeOK ==
  /\ config \in Configs
  /\ base \in {"nil", "ctx", "other"}
  /\ pc \in {"start", "serve", "shutdown", "polling", "drained", "returned"}
  /\ result \in {"none", "nil", "canceled", "failed", "noTLSConfig",
                 "shutdownFailed", "deadlineExceeded"}
  /\ ctxDone \in BOOLEAN
  /\ grace \in {"off", "running", "expired"}
  /\ serving \in Errors \cup {"none", "start", "serve", "ended"}
  /\ chan \subseteq {"nil", "canceled", "failed"}
  /\ failure \in {"nil", "canceled", "failed"}
  /\ closing \in BOOLEAN
  /\ listening \in BOOLEAN
  /\ active \subseteq Reqs
  /\ done \subseteq Reqs

\* When a shutdown the context asked for returns nil, or only ran out of time
\* waiting for the goroutine, no request is being served, and none will be.
DrainedWhenReturned ==
  grace # "off" /\ result \in {"nil", "deadlineExceeded"} => active = {}

\* An unexpected error of Serve is never answered with nil, whichever of the two
\* selects sees it and however it races with the cancellation; and an error is
\* reported only when Serve had it.
ErrorNotMasked ==
  /\ result = "nil" => failure # "failed"
  /\ result \in {"canceled", "failed"} => result = failure

\* What makes the two inductive: the error on the channel is the one Serve had, and is
\* put there once; a call that is draining or has drained the server has closed it,
\* and a server that was closed does not accept.
ShutdownInv ==
  /\ TypeOK /\ DrainedWhenReturned /\ ErrorNotMasked
  /\ result = "none" <=> pc # "returned"
  /\ pc = "start" => serving = "none"
  /\ pc \in {"start", "serve"} => grace = "off"
  /\ pc \in {"shutdown", "polling", "drained"} => grace # "off"
  /\ grace # "off" => closing
  /\ pc = "drained" => active = {}
  /\ closing /\ serving = "serve" => ~ listening
  /\ serving \in {"none", "start", "serve", "closed"} => failure = "nil"
  /\ serving \in {"canceled", "failed"} => failure = serving
  /\ \A e \in chan : serving = "ended" /\ e = failure
  /\ result \in {"nil", "canceled", "failed"} => serving = "ended"

\* No request is accepted once a shutdown has begun, not even when the goroutine
\* had not come to call Serve before.
NothingNewAfterShutdown == [][closing => active' \subseteq active]_vars

\* A cancelled context leads to a return, whatever the handlers do, because the
\* grace period's timer fires.
ReturnsAfterCancel == WF_vars(GraceExpires) => (ctxDone ~> (pc = "returned"))

\* When every handler heeds its context, as long polls do, and the requests have
\* the caller's, which is what BaseContext is filled in for, a cancelled context
\* leads to a return without the timer.
PollsDoNotDelay ==
  [](base # "other" /\ active \subseteq Patient) => (ctxDone ~> (pc = "returned"))

\* The goroutine is never left behind: what it reports fits into the channel even
\* when nobody waits for it any more.
GoroutineEnds == (pc = "returned" /\ serving # "none") ~> (serving = "ended")

\* Neither the call nor its goroutine is left behind.
ShutdownEnds == ReturnsAfterCancel /\ GoroutineEnds
=============================================================================
