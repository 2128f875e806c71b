---------------------------- MODULE ChildProcess ---------------------------
(***************************************************************************)
(* Servers run as child processes: pebble, a test ACME server              *)
(* (webauth/acme/pebble, and pebbletest which drives it), and the          *)
(* development servers of webpack and vite (devserver).  A filter forwards *)
(* the child's output and sends each line to a channel of fixed capacity;  *)
(* the caller waits for certain lines, for a connection, or for a          *)
(* certificate file.                                                       *)
(*                                                                         *)
(* A scenario is what the child prints and the calls that are made, in     *)
(* order.  The filter (executil.LineFilter) is not part of the repository: *)
(* it is taken to block while the channel is full.                         *)
(***************************************************************************)
EXTENDS Naturals, Sequences, FiniteSets

CONSTANTS
  Scenarios,   \* records: lines, calls, periods (of the configurations) and cap
  PipeSize     \* the lines that the pipe from the child holds

\* pebble prints once that its ACME server, and that its management server, is there;
\* WaitForReady counts the two.
ASSUME ChildAssumption ==
  /\ PipeSize \in Nat
  /\ \A s \in Scenarios :
       /\ s.lines \in Seq(STRING) /\ s.calls \in Seq(STRING) \ {<<>>} /\ s.cap \in Nat
       /\ \A i, j \in DOMAIN s.lines : s.lines[i] = s.lines[j] /\ s.lines[i] \in {"acme", "mgmt"} => i = j

VARIABLES
  scene,       \* the scenario
  child,       \* "new", "running" or "stopped"
  written,     \* how many lines the child has written
  pipe,        \* the lines in the pipe
  ch,          \* the lines in the channel
  closed,      \* the filter was closed
  accepting, \* the child accepts connections
  certFile,    \* the file of a certificate: "absent", "old", "partial" or "new"
  profiles,    \* the period in the parsed configuration all Configs share
  configs,     \* configs[i]: the period in the file written by call i
  at,          \* the current call
  seen,        \* the lines WaitForReady has counted
  waitOver,    \* the context of the waits is done
  outcome      \* "running", "finished" or "failed"

childVars == <<scene, child, written, pipe, ch, closed, accepting, certFile, profiles, configs,
               at, seen, waitOver, outcome>>
output == <<written, pipe, ch>>
driver == <<at, seen, outcome>>

ChildInit ==
  /\ scene \in Scenarios
  /\ child = "new"
  /\ written = 0
  /\ pipe = <<>>
  /\ ch = <<>>
  /\ closed = FALSE
  /\ accepting = FALSE
  /\ certFile \in {"absent", "old"}
  /\ profiles = 0
  /\ configs = [i \in DOMAIN scene.calls |-> 0]
  /\ at = 1
  /\ seen = 0
  /\ waitOver = FALSE
  /\ outcome = "running"

Printed(line) == \E i \in 1..written : scene.lines[i] = line

-----------------------------------------------------------------------------
(***************************************************************************)
(* The child, the filter, and an ACME client that writes a certificate.    *)
(***************************************************************************)
ChildWrites ==
  /\ child = "running"
  /\ written < Len(scene.lines)
  /\ Len(pipe) < PipeSize \/ closed
  /\ written' = written + 1
  /\ pipe' = IF closed THEN pipe ELSE Append(pipe, scene.lines[written + 1])
  /\ UNCHANGED <<scene, child, ch, closed, accepting, certFile, profiles, configs, at, seen, waitOver, outcome>>

\* pebble prints that it is available before it is.
Listens ==
  /\ child = "running"
  /\ Printed("acme")
  /\ ~ accepting
  /\ accepting' = TRUE
  /\ UNCHANGED <<scene, child, written, pipe, ch, closed, certFile, profiles, configs, at, seen, waitOver, outcome>>

FilterSends ==
  /\ ~ closed
  /\ pipe # <<>>
  /\ Len(ch) < scene.cap
  /\ pipe' = Tail(pipe)
  /\ ch' = Append(ch, Head(pipe))
  /\ UNCHANGED <<scene, child, written, closed, accepting, certFile, profiles, configs, at, seen, waitOver, outcome>>

\* The file is truncated, then written.
CertFileChanges ==
  /\ Printed("issued")
  /\ \/ certFile \in {"absent", "old"} /\ certFile' = "partial"
     \/ certFile = "partial" /\ certFile' = "new"
  /\ UNCHANGED <<scene, child, written, pipe, ch, closed, accepting, profiles, configs, at, seen, waitOver, outcome>>

EndWait ==
  /\ ~ waitOver
  /\ waitOver' = TRUE
  /\ UNCHANGED <<scene, child, written, pipe, ch, closed, accepting, certFile, profiles, configs, at, seen, outcome>>

-----------------------------------------------------------------------------
(***************************************************************************)
(* The calls, one after the other until one fails.                         *)
(***************************************************************************)
Calling(call) == outcome = "running" /\ scene.calls[at] = call

Returns ==
  /\ at' = at + 1
  /\ seen' = 0
  /\ outcome' = IF at = Len(scene.calls) THEN "finished" ELSE "running"

Fails == outcome' = "failed" /\ UNCHANGED <<at, seen>>
Continues == UNCHANGED driver

\* NewConfig and CreateCertsAndUpdateConfig: a copy of the configuration that all
\* share, with the period asked for, is written to a file.
CreateCertsAndUpdateConfig ==
  /\ Calling("config")
  /\ \/ /\ configs' = [configs EXCEPT ![at] = IF scene.periods[at] = 0 THEN profiles ELSE scene.periods[at]]
        /\ Returns
     \/ UNCHANGED configs /\ Fails
  /\ UNCHANGED <<scene, child, output, closed, accepting, certFile, profiles, waitOver>>

StartChild ==
  /\ Calling("start")
  /\ \/ child' = "running" /\ Returns
     \/ UNCHANGED child /\ Fails
  /\ UNCHANGED <<scene, output, closed, accepting, certFile, profiles, configs, waitOver>>

Receives(call) ==
  /\ Calling(call)
  /\ ch # <<>>
  /\ ch' = Tail(ch)
  /\ UNCHANGED <<scene, child, written, pipe, closed, accepting, certFile, profiles, configs, waitOver>>

\* Mutant: the first of the two lines is enough.
WaitForReadyHalf ==
  /\ Receives("ready")
  /\ IF Head(ch) \in {"acme", "mgmt"} THEN Returns ELSE Continues

\* It counts the lines of the ACME and of the management server.
WaitForReady ==
  /\ Receives("ready")
  /\ LET n == IF Head(ch) \in {"acme", "mgmt"} THEN seen + 1 ELSE seen
     IN  IF n = 2 THEN Returns ELSE seen' = n /\ UNCHANGED <<at, outcome>>

\* waitForRe: WaitForOrderAuthorized and WaitForIssuedCertificateSerial.  The lines
\* that do not match are gone.
WaitForRe ==
  \E call \in {"authorized", "issued"} :
    /\ Receives(call)
    /\ IF Head(ch) = call THEN Returns ELSE Continues

\* The extractors of webpack and vite: a line that does not match is passed over,
\* one that matches has to have a URL.
Extract(line) == CASE line = "url" -> "url" [] line = "badurl" -> "error" [] OTHER -> "none"

StartAndWaitForURL ==
  /\ Receives("url")
  /\ CASE Extract(Head(ch)) = "none" -> Continues
       [] Extract(Head(ch)) = "error" -> Fails
       [] OTHER -> Returns

WaitForConnection ==
  /\ Calling("connect")
  /\ accepting
  /\ Returns
  /\ UNCHANGED <<scene, child, output, closed, accepting, certFile, profiles, configs, waitOver>>

\* A tick of WaitForNewCert: it goes on while there is no file or the old one, and
\* gives up when the file has no certificate (getCerts).
WaitForNewCert ==
  /\ Calling("newcert")
  /\ certFile \in {"partial", "new"}
  /\ IF certFile = "new" THEN Returns ELSE Fails
  /\ UNCHANGED <<scene, child, output, closed, accepting, certFile, profiles, configs, waitOver>>

\* The contexts of the waits.
WaitTimesOut ==
  /\ waitOver
  /\ \E call \in {"ready", "authorized", "issued", "url", "connect", "newcert"} : Calling(call)
  /\ Fails
  /\ UNCHANGED <<scene, child, output, closed, accepting, certFile, profiles, configs, waitOver>>

EnsureStopped ==
  /\ Calling("stop")
  /\ child' = "stopped"
  /\ Returns
  /\ UNCHANGED <<scene, output, closed, accepting, certFile, profiles, configs, waitOver>>

\* Mutant: Close does nothing.
CloseNothing ==
  /\ Calling("close")
  /\ Returns
  /\ UNCHANGED <<scene, child, output, closed, accepting, certFile, profiles, configs, waitOver>>

\* DevServer.Close: the rest of the output is thrown away.
Close ==
  /\ Calling("close")
  /\ closed' = TRUE
  /\ pipe' = <<>>
  /\ Returns
  /\ UNCHANGED <<scene, child, written, ch, accepting, certFile, profiles, configs, waitOver>>

DriverStep ==
  \/ CreateCertsAndUpdateConfig \/ StartChild \/ WaitForReady \/ WaitForRe \/ StartAndWaitForURL
  \/ WaitForConnection \/ WaitForNewCert \/ WaitTimesOut \/ EnsureStopped \/ Close
OutputStep == ChildWrites \/ Listens \/ FilterSends
ChildNext == DriverStep \/ OutputStep \/ CertFileChanges \/ EndWait

ChildSpec == ChildInit /\ [][ChildNext]_childVars

-----------------------------------------------------------------------------
(***************************************************************************)
(* Properties.                                                             *)
(***************************************************************************)

\* The variables keep their types, and the channel and the pipe their capacities.
ChildTypeOK ==
  /\ scene \in Scenarios
  /\ written \in 0..Len(scene.lines)
  /\ pipe \in Seq(STRING) /\ Len(pipe) <= PipeSize
  /\ ch \in Seq(STRING) /\ Len(ch) <= scene.cap
  /\ closed \in BOOLEAN
  /\ profiles = 0 /\ DOMAIN configs = DOMAIN scene.calls
  /\ at \in 1..Len(scene.calls) + 1 /\ seen \in 0..1
  /\ outcome \in {"running", "finished", "failed"}
  /\ outcome = "running" => at <= Len(scene.calls)

\* The first "received" lines were received: the channel, and until it is closed the
\* pipe, hold the lines that follow.
Forwarded(received) ==
  /\ received + Len(ch) <= written
  /\ \A i \in DOMAIN ch : ch[i] = scene.lines[received + i]
  /\ ~ closed => /\ received + Len(ch) + Len(pipe) = written
                 /\ \A i \in DOMAIN pipe : pipe[i] = scene.lines[received + Len(ch) + i]
  /\ seen = 1 => \E j \in 1..received : scene.lines[j] \in {"acme", "mgmt"}

\* Every line that the child writes is received in order, or waits in order; none is
\* lost between the child and its driver before the output is closed.
OutputInOrder == \E received \in 0..written : Forwarded(received)

\* What call i waited for.
Satisfied(i) ==
  CASE scene.calls[i] = "ready" -> Printed("acme") /\ Printed("mgmt")
    [] scene.calls[i] \in {"authorized", "issued", "url"} -> Printed(scene.calls[i])
    [] scene.calls[i] = "connect" -> accepting
    [] scene.calls[i] = "newcert" -> certFile = "new"
    [] OTHER -> TRUE

\* A wait that has returned without an error was satisfied: the server is ready,
\* the line was printed, the certificate is the new one.
ReturnMeansSatisfied == \A i \in 1..at - 1 : Satisfied(i)

\* Every configuration is written with its own validity period, or the one of the
\* defaults: two of them in one process do not influence each other.
ConfigsIndependent ==
  \A i \in 1..at - 1 : scene.calls[i] = "config" => configs[i] = scene.periods[i]

\* A test is failed for a reason: the configuration or the process could not be
\* made, the wait was over, the line had no URL, or the certificate was read while
\* it was being written.
FailureHasCause ==
  [][outcome = "running" /\ outcome' = "failed" =>
       \/ scene.calls[at] \in {"config", "start"}
       \/ waitOver
       \/ scene.calls[at] = "url" /\ Head(ch) = "badurl"
       \/ scene.calls[at] = "newcert" /\ certFile = "partial"]_childVars

\* The lines that no call has received, and that the current call waits for.
StillToCome(lines) ==
  {i \in written + 1 - Len(ch \o pipe)..Len(scene.lines) : scene.lines[i] \in lines}
WaitsForLine ==
  /\ outcome = "running" /\ child = "running" /\ ~ closed
  /\ \/ Calling("ready") /\ seen + Cardinality(StillToCome({"acme", "mgmt"})) >= 2
     \/ \E call \in {"authorized", "issued", "url"} : Calling(call) /\ StillToCome({call}) # {}

\* A wait for lines that no earlier wait has received returns, however much else
\* the child prints and however small the channel is.
WaitReturns == WaitsForLine ~> ~ WaitsForLine

\* The child is held up for good by its own output only when its output was
\* abandoned: no call receives any more, and Close was not called.
StallsOnlyIfAbandoned ==
  <>[](child = "running" /\ written < Len(scene.lines) /\ Len(pipe) = PipeSize)
    => <>[](outcome # "running" /\ \A i \in 1..at - 1 : scene.calls[i] # "close")

\* In every state: the output passes through the pipe and the channel in order and
\* once, and a call that has returned (WaitForReady, StartAndWaitForURL and the
\* others) has seen what it was called for.
ChildInv == ChildTypeOK /\ OutputInOrder /\ ReturnMeansSatisfied /\ ConfigsIndependent

\* A call on a child process returns only with what it was called for, and fails only
\* for a cause of its own, whatever was configured, printed or awaited before it.
CallsSound ==
  /\ [](ChildTypeOK /\ OutputInOrder /\ ReturnMeansSatisfied /\ ConfigsIndependent)
  /\ FailureHasCause

\* Neither a wait nor the child is held up for good by the channel and the pipe
\* between them, as long as the output is not abandoned.
OutputFlows == WaitReturns /\ StallsOnlyIfAbandoned
=============================================================================
