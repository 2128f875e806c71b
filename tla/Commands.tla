------------------------------ MODULE Commands -----------------------------
(***************************************************************************)
(* The commands that serve: acme cert-manager, which composes a challenge  *)
(* server with the client of AcmeClient, acme redirect-test, and the       *)
(* production and development servers of the webapp command.  Each is a    *)
(* list of steps; the first that fails ends the command, and what it       *)
(* started in the background goes on.  A server goes on until its context  *)
(* is done or it fails, as ServeShutdown shows.                            *)
(***************************************************************************)
EXTENDS AcmeClient, Sequences

CONSTANT MainStop  \* the call of stop made by the certificate manager

ASSUME CommandAssumption == MainStop \in Stops

VARIABLES
  cmd,          \* the command
  at,           \* its next step
  interrupted,  \* the context given to the command is done
  up,           \* the servers that run: "main" and "port80"
  served,       \* what serving on the main server returned
  clientUp,     \* AcmeClient runs
  failedAt,     \* the step that failed (history)
  result        \* what the command returned

commandVars == <<cmd, at, interrupted, up, served, clientUp, failedAt, result>>

\* manageCerts, redirect, prodServe and devServe, step by step.
ManageSteps == <<"store", "manager", "httpclient", "listen", "go", "wait", "start", "receive", "stop">>
RedirectSteps == <<"host", "port80", "store", "tlsconfig", "listen", "serve">>
ProdSteps == <<"tlsconfig", "listen", "port80", "serve">>
DevSteps == <<"tlsconfig", "listen", "assets", "serve">>
Steps == [manage |-> ManageSteps, redirect |-> RedirectSteps, prod |-> ProdSteps, dev |-> DevSteps]

Step == Steps[cmd][at]

\* Mutant: a context that outlives the command.
ContextDoneInterrupted == interrupted

\* All but the certificate manager use a context of signal.NotifyContext, which is
\* done when they return.
ContextDone == interrupted \/ (cmd # "manage" /\ result # "none")

CommandInit ==
  /\ cmd \in DOMAIN Steps
  /\ at = 1 /\ up = {}
  /\ interrupted = FALSE /\ clientUp = FALSE
  /\ served = "none" /\ failedAt = "none" /\ result = "none"

ReturnError(step) == result' = "error" /\ failedAt' = step /\ UNCHANGED at

\* A step up to those that serve: the flags, the store, the manager, the TLS
\* configuration, the development server of the assets or the listener fail, or the
\* port 80 server and the challenge server are started in the background.
\* WaitForServers may time out or find the context done.
SetUp ==
  /\ result = "none" /\ Step \notin {"receive", "stop", "serve", "start"}
  /\ \/ /\ at' = at + 1
        /\ up' = up \union (CASE Step = "go" -> {"main"} [] Step = "port80" -> {"port80"} [] OTHER -> {})
        /\ UNCHANGED <<failedAt, result>>
     \/ Step # "go" /\ ReturnError(Step) /\ UNCHANGED up
  /\ UNCHANGED <<cmd, interrupted, served, clientUp, vars>>

\* Start of the ACME client, with a context derived from the command's.
StartClient ==
  /\ result = "none" /\ Step = "start"
  /\ at' = at + 1
  /\ clientUp' = TRUE
  /\ ctxDone' = interrupted
  /\ UNCHANGED <<cmd, interrupted, up, served, failedAt, result, pc, outcome, metric, group, errCh, stop>>

\* ServeTLSWithShutdown in the foreground.
Serve ==
  /\ result = "none" /\ Step = "serve"
  /\ \/ up' = up \union {"main"} /\ "main" \notin up /\ served = "none" /\ UNCHANGED result
     \/ served # "none" /\ result' = served /\ UNCHANGED up
  /\ UNCHANGED <<cmd, at, interrupted, served, clientUp, failedAt, vars>>

\* A server ends with nil or an error when its context is done, or with an error.
\* Only the error of the main server is returned.
ServerEnds(s) ==
  /\ s \in up
  /\ up' = up \ {s}
  /\ \E e \in {"nil", "error"} :
       /\ e = "nil" => ContextDone
       /\ served' = IF s = "main" THEN e ELSE served
  /\ UNCHANGED <<cmd, at, interrupted, clientUp, failedAt, result, vars>>

\* The certificate manager receives what serving returned, and calls stop.
Receive ==
  /\ result = "none" /\ Step = "receive"
  /\ served # "none"
  /\ at' = at + 1
  /\ StopCalled(MainStop)
  /\ UNCHANGED <<cmd, interrupted, up, served, clientUp, failedAt, result>>

\* Mutant: what stop returned is not looked at.
StoppedIgnored ==
  /\ result = "none" /\ Step = "stop"
  /\ StopReceives(MainStop) \/ StopTimesOut(MainStop)
  /\ result' = served
  /\ UNCHANGED <<cmd, at, interrupted, up, served, clientUp, failedAt>>

\* stop returns; its error and that of the server are put together.
Stopped ==
  /\ result = "none" /\ Step = "stop"
  /\ StopReceives(MainStop) \/ StopTimesOut(MainStop)
  /\ result' = IF served = "nil" /\ stop'[MainStop] = "nil" THEN "nil" ELSE "error"
  /\ UNCHANGED <<cmd, at, interrupted, up, served, clientUp, failedAt>>

\* The context is cancelled, or a signal arrives.
Interrupt ==
  /\ ~ interrupted
  /\ interrupted' = TRUE
  /\ ctxDone' = (ctxDone \/ clientUp)
  /\ UNCHANGED <<cmd, at, up, served, clientUp, failedAt, result, pc, outcome, metric, group, errCh, stop>>

ClientRuns ==
  /\ clientUp
  /\ (\E h \in Hosts : HostStep(h)) \/ GroupWait \/ Send
  /\ UNCHANGED commandVars

CommandStep == SetUp \/ StartClient \/ Serve \/ Receive \/ Stopped
ServersStop == ContextDone /\ \E s \in up : ServerEnds(s)
CommandNext == CommandStep \/ Interrupt \/ ClientRuns \/ \E s \in {"main", "port80"} : ServerEnds(s)

CommandSpec == Init /\ ~ ctxDone /\ CommandInit /\ [][CommandNext]_<<commandVars, vars>>
-----------------------------------------------------------------------------
\* The variables keep their types.
CommandTypeOK ==
  /\ cmd \in DOMAIN Steps /\ at \in DOMAIN Steps[cmd]
  /\ {interrupted, clientUp} \subseteq BOOLEAN
  /\ up \subseteq {"main", "port80"}
  /\ served \in {"none", "nil", "error"} /\ result \in {"none", "nil", "error"}
  /\ failedAt # "none" => result = "error"
  /\ "main" \in up => served = "none"

\* A command that returns nil was interrupted, its main server has ended without
\* error and, of the certificate manager, nothing of the ACME client runs (manageCerts,
\* prodServe, devServe and redirect, with Client.Start and stop).
NilMeansAllEnded ==
  result = "nil" =>
    /\ interrupted /\ served = "nil" /\ "main" \notin up
    /\ cmd = "manage" => clientUp /\ group = "ended" /\ \A h \in Hosts : pc[h] = "ended"

\* The certificate manager returns with its challenge server still running only when
\* waiting for that server failed, and with the ACME client still running only when
\* stop gave up waiting for it (the early returns of manageCerts).
LeavesRunningOnlyIf ==
  cmd = "manage" /\ result # "none" =>
    /\ "main" \in up => failedAt = "wait"
    /\ clientUp /\ group # "ended" => stop[MainStop] = "timeout"

\* An interrupted command returns, whatever step it is at, also while the ACME client
\* waits for an answer that heeds no context.
ReturnsWhenInterrupted == interrupted ~> result # "none"

\* Every server a command started ends after an interrupt, and without one when a
\* command other than the certificate manager has returned, also by an early return
\* after RedirectPort80 (the contexts of signal.NotifyContext).
ServersEnd == interrupted \/ (cmd # "manage" /\ result # "none") ~> up = {}

\* What makes the two inductive: the step a command is at, or failed at, tells which of
\* the main server, the client and the call of stop have begun, and which have ended.
StepTells ==
  /\ "main" \in up \/ served # "none" => IF cmd = "manage" THEN at > 5 ELSE Step = "serve"
  /\ "main" \in up /\ result # "none" => cmd = "manage"
  /\ served = "nil" => interrupted
  /\ failedAt # "none" => failedAt = Step /\ Step \notin {"go", "receive", "stop", "serve", "start"}
  /\ result = "nil" => served = "nil"
  /\ cmd = "manage" =>
       /\ clientUp <=> at > 7
       /\ at = 9 => served # "none"
       /\ stop[MainStop] = "idle" <=> at < 9
       /\ result # "none" /\ failedAt = "none" => at = 9 /\ stop[MainStop] # "waiting"
       /\ result = "nil" => stop[MainStop] = "nil"

CommandInv == ClientInv /\ CommandTypeOK /\ StepTells

\* What a command returns tells what has ended, and what it may have left running.
CommandSound == CommandInv /\ NilMeansAllEnded /\ LeavesRunningOnlyIf

\* An interrupt ends a command and its servers, and a command that fails takes the
\* servers it had started with it.
CommandEnds == ReturnsWhenInterrupted /\ ServersEnd
=============================================================================
