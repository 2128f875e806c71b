------------------------- MODULE CertificateProofs --------------------------
(***************************************************************************)
(* Certificates, for any hosts, servers, clients and options, and any      *)
(* order of events: the ACME client's stop, the commands that run it or    *)
(* serve, the verdict of the validation of TLS servers, the ACME manager,  *)
(* and the lists of TLS settings and the secrets that are configured.      *)
(***************************************************************************)
EXTENDS Commands, TLSValidate, CertManager, Settings, TLAPS

(* The ACME client.                                                        *)

\* A step of a host's goroutine preserves the invariant: a goroutine that has ended
\* takes no step, so that what is known after grp.Wait stays true.
LEMMA HostStepPreserves ==
  ASSUME ClientInv, NEW h \in Hosts, HostStep(h)
  PROVE  ClientInv'
<1> USE AcmeClientAssumption DEF ClientInv, TypeOK, OneStopIsTold, Host
<1>1. ASSUME NEW o \in Outcomes, RefreshHost(h, o)
      PROVE  ClientInv'
  BY <1>1, Zenon DEF RefreshHost
<1>2. CASE Tick(h)
  BY <1>2, Zenon DEF Tick
<1>3. CASE RetryDone(h)
  BY <1>3, Zenon DEF RetryDone
<1>4. CASE WaitDone(h)
  BY <1>4, Zenon DEF WaitDone
<1>5. QED
  BY <1>1, <1>2, <1>3, <1>4, Zenon DEF HostStep, Refresh

\* Only the call of stop that takes the answer returns nil.
LEMMA StopReceivesPreserves ==
  ASSUME ClientInv, NEW s \in Stops, StopReceives(s)
  PROVE  ClientInv'
<1> USE DEF ClientInv, TypeOK, StopReceives
<1>1. errCh = 1 /\ errCh' = 0 /\ group = "ended"
  OBVIOUS
<1>2. \A t \in Stops : stop[t] # "nil"
  BY <1>1
<1>3. OneStopIsTold'
  BY <1>2, Zenon DEF OneStopIsTold
<1>4. QED
  BY <1>1, <1>2, <1>3, Zenon

\* The invariant holds throughout, in whatever order refreshes, retries, timeouts and
\* calls of stop come (Client.Start and the function it returns).
THEOREM ClientInvariance == Spec => []ClientInv
<1>1. Init => ClientInv
  BY DEF Init, ClientInv, TypeOK, OneStopIsTold
<1>2. ClientInv /\ [Next]_vars => ClientInv'
  <2> SUFFICES ASSUME ClientInv, [Next]_vars
               PROVE  ClientInv'
    BY Zenon
  <2> USE DEF ClientInv, TypeOK, OneStopIsTold
  <2>1. ASSUME NEW h \in Hosts, HostStep(h)
        PROVE  ClientInv'
    BY <2>1, HostStepPreserves, Zenon
  <2>2. CASE GroupWait
    BY <2>2, Zenon DEF GroupWait
  <2>3. CASE Send
    BY <2>3, Zenon DEF Send
  <2>4. ASSUME NEW s \in Stops, StopCalled(s)
        PROVE  ClientInv'
    BY <2>4, ZenonT(30) DEF StopCalled
  <2>5. ASSUME NEW s \in Stops, StopReceives(s)
        PROVE  ClientInv'
    BY <2>5, StopReceivesPreserves, Zenon
  <2>6. ASSUME NEW s \in Stops, StopTimesOut(s)
        PROVE  ClientInv'
    BY <2>6, ZenonT(30) DEF StopTimesOut
  <2>7. CASE CancelParent
    BY <2>7, Zenon DEF CancelParent
  <2>8. CASE UNCHANGED vars
    BY <2>8, Zenon DEF vars
  <2>9. QED
    BY <2>1, <2>2, <2>3, <2>4, <2>5, <2>6, <2>7, <2>8, Zenon DEF Next
<1>3. QED
  BY <1>1, <1>2, PTL DEF Spec

\* When a call of stop returns nil, every goroutine of the client has ended.
THEOREM StopWaits == Spec => []StoppedMeansEnded
<1>1. ClientInv => StoppedMeansEnded
  BY Zenon DEF ClientInv, StoppedMeansEnded
<1>2. QED
  BY <1>1, ClientInvariance, PTL

\* At most one call of stop returns nil, however many there are.
THEOREM OnlyOneStop == Spec => []OneStopIsTold
<1>1. ClientInv => OneStopIsTold
  BY Zenon DEF ClientInv
<1>2. QED
  BY <1>1, ClientInvariance, PTL
-----------------------------------------------------------------------------
(* The commands that serve.                                                *)

\* The steps of the commands, by number.
Numbered ==
  /\ cmd \in {"manage", "redirect", "prod", "dev"}
  /\ cmd = "manage" => /\ at \in 1..9 /\ DOMAIN Steps[cmd] = 1..9
                       /\ Step = "go" <=> at = 5
                       /\ Step = "wait" <=> at = 6
                       /\ Step = "start" <=> at = 7
                       /\ Step = "receive" <=> at = 8
                       /\ Step = "stop" <=> at = 9
                       /\ Step # "serve"
  /\ cmd # "manage" => /\ at \in Nat /\ Step \notin {"go", "wait", "start", "receive", "stop"}
                       /\ Step # "serve" => at + 1 \in DOMAIN Steps[cmd]

\* The lists of steps are in this order, before and after a step.
LEMMA StepNumbers == (CommandTypeOK => Numbered) /\ (CommandTypeOK => Numbered)'
  BY DEF Numbered, CommandTypeOK, Step, Steps, ManageSteps, RedirectSteps, ProdSteps, DevSteps

\* The steps of a command up to those that serve.
LEMMA SetUpTells ==
  ASSUME CommandInv, SetUp
  PROVE  CommandInv'
<1> USE DEF CommandInv
<1>1. ClientInv'
  BY Zenon DEF SetUp, vars, ClientInv, TypeOK, OneStopIsTold
<1>2. CommandTypeOK'
  BY StepNumbers DEF SetUp, CommandTypeOK, StepTells, ReturnError, Numbered
<1>3. StepTells'
  <2>1. CASE UNCHANGED <<at, up>> /\ ReturnError(Step)
    <3>1. Step' = Step /\ UNCHANGED <<cmd, at, interrupted, up, served, clientUp, stop>>
      BY <2>1, Zenon DEF SetUp, Step, vars
    <3>2. result' = "error" /\ failedAt' = Step /\ Step \notin {"go", "receive", "stop", "serve", "start"}
      BY <2>1, Zenon DEF SetUp, ReturnError, CommandTypeOK, StepTells
    <3>3. failedAt' # "none"
      BY <3>2 DEF Step, CommandTypeOK, Steps, ManageSteps, RedirectSteps, ProdSteps, DevSteps
    <3>4. QED
      BY <2>1, <3>1, <3>2, <3>3, StepNumbers DEF SetUp, CommandTypeOK, StepTells, Numbered
  <2>2. CASE at' = at + 1 /\ UNCHANGED <<failedAt, result>>
    BY <2>2, <1>2, StepNumbers DEF SetUp, CommandTypeOK, StepTells, ReturnError, vars, Numbered
  <2>3. QED
    BY <2>1, <2>2, Zenon DEF SetUp, ReturnError
<1>4. QED
  BY <1>1, <1>2, <1>3, Zenon

\* The steps that serve, and the end of a server.
LEMMA ServingTells ==
  ASSUME CommandInv, StartClient \/ Serve \/ Interrupt \/ ClientRuns \/ \E s \in {"main", "port80"} : ServerEnds(s)
  PROVE  CommandInv'
<1> USE DEF CommandInv
<1>1. CASE StartClient
  <2>1. ClientInv'
    BY <1>1, Zenon DEF StartClient, ClientInv, TypeOK, OneStopIsTold, CommandTypeOK
  <2>2. CommandTypeOK'
    BY <1>1, StepNumbers DEF StartClient, CommandTypeOK, Numbered
  <2>3. StepTells'
    BY <1>1, <2>2, StepNumbers DEF StartClient, CommandTypeOK, StepTells, Numbered
  <2>4. QED
    BY <2>1, <2>2, <2>3, Zenon
<1>2. CASE Serve
  <2>1. ClientInv'
    BY <1>2, Zenon DEF Serve, vars, ClientInv, TypeOK, OneStopIsTold
  <2>2. CommandTypeOK'
    BY <1>2, StepNumbers, ZenonT(30) DEF Serve, CommandTypeOK, StepTells, Numbered
  <2>3. StepTells'
    BY <1>2, StepNumbers, Zenon DEF Serve, CommandTypeOK, StepTells, Step, vars, Numbered
  <2>4. QED
    BY <2>1, <2>2, <2>3, Zenon
<1>3. CASE Interrupt
  BY <1>3 DEF Interrupt, ClientInv, TypeOK, OneStopIsTold, CommandTypeOK, StepTells, Step
<1>4. CASE ClientRuns
  <2>1. ClientInv' /\ UNCHANGED stop
    <3>1. ASSUME NEW h \in Hosts, HostStep(h)
          PROVE  ClientInv' /\ UNCHANGED stop
      BY <3>1, HostStepPreserves, Zenon DEF HostStep, Refresh, RefreshHost, Tick, RetryDone, WaitDone
    <3>2. CASE GroupWait
      BY <3>2, Zenon DEF GroupWait, ClientInv, TypeOK, OneStopIsTold
    <3>3. CASE Send
      BY <3>3, Zenon DEF Send, ClientInv, TypeOK, OneStopIsTold
    <3>4. QED
      BY <1>4, <3>1, <3>2, <3>3, Zenon DEF ClientRuns
  <2>2. QED
    BY <1>4, <2>1, Zenon DEF ClientRuns, commandVars, CommandTypeOK, StepTells, Step
<1>5. ASSUME NEW s \in {"main", "port80"}, ServerEnds(s)
      PROVE  CommandInv'
  <2>1. ClientInv'
    BY <1>5, Zenon DEF ServerEnds, vars, ClientInv, TypeOK, OneStopIsTold
  <2>2. CommandTypeOK'
    BY <1>5, Zenon DEF ServerEnds, CommandTypeOK
  <2>3. StepTells'
    BY <1>5, Zenon DEF ServerEnds, CommandTypeOK, StepTells, Step, vars, ContextDone
  <2>4. QED
    BY <2>1, <2>2, <2>3, Zenon
<1>6. QED
  BY <1>1, <1>2, <1>3, <1>4, <1>5, Zenon

\* The end of the certificate manager.
LEMMA StoppingTells ==
  ASSUME CommandInv, Receive \/ Stopped
  PROVE  CommandInv'
<1> USE CommandAssumption DEF CommandInv
<1>1. CASE Receive
  <2>1. ClientInv'
    BY <1>1, ZenonT(30) DEF Receive, StopCalled, ClientInv, TypeOK, OneStopIsTold
  <2>2. CommandTypeOK'
    BY <1>1, StepNumbers DEF Receive, CommandTypeOK, Numbered
  <2>3. stop'[MainStop] = "waiting"
    BY <1>1, Zenon DEF Receive, StopCalled, ClientInv, TypeOK
  <2>4. StepTells'
    BY <1>1, <2>2, <2>3, StepNumbers DEF Receive, CommandTypeOK, StepTells, Numbered
  <2>5. QED
    BY <2>1, <2>2, <2>4, Zenon
<1>2. CASE Stopped
  <2>1. ClientInv'
    BY <1>2, StopReceivesPreserves DEF Stopped, StopTimesOut, ClientInv, TypeOK, OneStopIsTold
  <2>2. CommandTypeOK'
    BY <1>2, Zenon DEF Stopped, CommandTypeOK
  <2>3. stop'[MainStop] \in {"nil", "timeout"}
    BY <1>2, Zenon DEF Stopped, StopReceives, StopTimesOut, ClientInv, TypeOK
  <2>4. cmd = "manage" /\ at = 9
    BY <1>2, StepNumbers, Zenon DEF Stopped, Numbered
  <2>5. StepTells'
    BY <1>2, <2>3, <2>4 DEF Stopped, CommandTypeOK, StepTells, Step
  <2>6. QED
    BY <2>1, <2>2, <2>5, Zenon
<1>3. QED
  BY <1>1, <1>2, Zenon

\* What a command returns tells what has ended, for any hosts and any order of events: nil
\* only when its main server has ended without error and nothing of the client runs; and
\* the certificate manager leaves its server running only when waiting for it failed, the
\* client only when stop gave up (manageCerts, redirect, prodServe, devServe).
THEOREM CommandsTellWhatEnded == CommandSpec => []CommandSound
<1>1. Init /\ CommandInit => CommandInv
  <2> SUFFICES ASSUME Init, CommandInit
               PROVE  CommandInv
    BY Zenon
  <2>1. ClientInv
    BY DEF Init, ClientInv, TypeOK, OneStopIsTold
  <2>2. CommandTypeOK
    <3>1. \A c \in DOMAIN Steps : 1 \in DOMAIN Steps[c]
      BY DEF Steps, ManageSteps, RedirectSteps, ProdSteps, DevSteps
    <3>2. QED
      BY <3>1, ZenonT(30) DEF CommandInit, CommandTypeOK
  <2>3. StepTells
    BY CommandAssumption DEF Init, CommandInit, StepTells
  <2>4. QED
    BY <2>1, <2>2, <2>3, Zenon DEF CommandInv
<1>2. CommandInv /\ [CommandNext]_<<commandVars, vars>> => CommandInv'
  <2>1. CommandInv /\ UNCHANGED <<commandVars, vars>> => CommandInv'
    BY DEF commandVars, vars, CommandInv, ClientInv, TypeOK, OneStopIsTold, CommandTypeOK, StepTells, Step
  <2>2. QED
    BY <2>1, SetUpTells, ServingTells, StoppingTells, Zenon DEF CommandNext, CommandStep
<1>3. CommandInv => CommandSound
  <2> SUFFICES ASSUME CommandInv
               PROVE  CommandSound
    BY Zenon
  <2> USE StepNumbers, CommandAssumption DEF CommandInv
  <2>1. NilMeansAllEnded
    BY DEF NilMeansAllEnded, StepTells, ClientInv, CommandTypeOK, TypeOK, Numbered
  <2>2. LeavesRunningOnlyIf
    BY DEF LeavesRunningOnlyIf, StepTells, ClientInv, CommandTypeOK, TypeOK, Numbered
  <2>3. QED
    BY <2>1, <2>2, Zenon DEF CommandSound
<1>4. QED
  BY <1>1, <1>2, <1>3, PTL DEF CommandSpec
-----------------------------------------------------------------------------
(* Validation of TLS servers.                                              *)

\* A goroutine that ends with a connection adds it, once.
LEMMA HandshakeKeeps ==
  ASSUME ValidateTypeOK, NEW a \in DOMAIN link, Handshake(a)
  PROVE  ValidateTypeOK'
<1>1. /\ a \in Considered /\ link[a] = "shake" /\ server[a].up /\ ~ Saw(a)
      /\ link' = [link EXCEPT ![a] = "done"]
      /\ UNCHANGED <<opts, resolved, server, ctxEnded, verdict>>
  BY Zenon DEF ValidateTypeOK, Handshake, Leaves
<1>2. Considered' = Considered
  BY <1>1, Zenon DEF Considered, IgnoreIPv6, ExpandHost
<1>3. CASE HandshakeSucceeds(server[a])
  <2>1. states' = Append(states, a) /\ UNCHANGED groupErr
    BY <1>3, Zenon DEF Handshake
  <2>2. /\ states' \in Seq(Considered) /\ Len(states) \in Nat
        /\ DOMAIN states' = 1..Len(states) + 1 /\ DOMAIN states = 1..Len(states)
        /\ states'[Len(states) + 1] = a
        /\ \A i \in 1..Len(states) : states'[i] = states[i]
    BY <1>1, <2>1 DEF ValidateTypeOK
  <2>3. \A b \in Considered : Saw(b)' <=> (Saw(b) \/ b = a)
    BY <2>2 DEF Saw
  <2>4. \A i, j \in DOMAIN states' : states'[i] = states'[j] => i = j
    BY <1>1, <2>2 DEF Saw, ValidateTypeOK
  <2>5. \A b \in Considered :
          /\ Saw(b)' => link'[b] = "done" /\ server[b].up /\ HandshakeSucceeds(server[b])
          /\ link'[b] = "shake" => server[b].up
          /\ link'[b] = "done" => groupErr \/ Saw(b)'
    BY <1>1, <1>3, <2>3, Zenon DEF ValidateTypeOK
  <2>6. link' \in [Considered -> {"dial", "shake", "done"}]
    BY <1>1, Zenon DEF ValidateTypeOK
  <2>7. QED
    BY <1>1, <1>2, <2>1, <2>2, <2>4, <2>5, <2>6, Zenon DEF ValidateTypeOK, HandshakeSucceeds, Unreachable
<1>4. CASE ~ HandshakeSucceeds(server[a])
  <2>1. groupErr' = TRUE /\ UNCHANGED states
    BY <1>4, Zenon DEF Handshake
  <2>2. Unreachable(a)
    BY <1>4, Zenon DEF Unreachable
  <2>3. \A b \in Considered : Saw(b)' <=> Saw(b)
    BY <2>1, Zenon DEF Saw
  <2>4. \A b \in Considered :
          /\ Saw(b)' => link'[b] = "done" /\ server[b].up /\ HandshakeSucceeds(server[b])
          /\ link'[b] = "shake" => server[b].up
    BY <1>1, <2>3, Zenon DEF ValidateTypeOK
  <2>5. link' \in [Considered -> {"dial", "shake", "done"}]
    BY <1>1, Zenon DEF ValidateTypeOK
  <2>6. QED
    BY <1>1, <1>2, <2>1, <2>2, <2>4, <2>5, ZenonT(30) DEF ValidateTypeOK, HandshakeSucceeds, Unreachable
<1>5. QED
  BY <1>3, <1>4, Zenon

\* A connection is made or given up; the context may end; the list is left alone.
LEMMA DialKeeps ==
  ASSUME ValidateTypeOK, NEW a \in DOMAIN link, Dial(a)
  PROVE  ValidateTypeOK'
<1>1. /\ a \in Considered /\ link[a] = "dial" /\ ~ Saw(a)
      /\ UNCHANGED <<opts, resolved, server, states, ctxEnded, verdict>>
  BY Zenon DEF ValidateTypeOK, Dial
<1>2. Considered' = Considered /\ \A b \in Considered : Saw(b)' <=> Saw(b)
  BY <1>1, Zenon DEF Considered, IgnoreIPv6, ExpandHost, Saw
<1>3. \/ server[a].up /\ link' = [link EXCEPT ![a] = "shake"] /\ groupErr' = groupErr
      \/ /\ ~ server[a].up \/ ctxEnded \/ groupErr
         /\ link' = [link EXCEPT ![a] = "done"] /\ groupErr' = TRUE
  BY Zenon DEF Dial, Leaves
<1>4. link' \in [Considered -> {"dial", "shake", "done"}]
  BY <1>1, <1>3, Zenon DEF ValidateTypeOK
<1>5. \A b \in Considered :
        /\ Saw(b)' => link'[b] = "done" /\ server[b].up /\ HandshakeSucceeds(server[b])
        /\ link'[b] = "shake" => server[b].up
        /\ link'[b] = "done" => groupErr' \/ Saw(b)'
  BY <1>1, <1>2, <1>3 DEF ValidateTypeOK
<1>6. groupErr' => ctxEnded \/ \E b \in Considered : Unreachable(b)
  <2>1. CASE groupErr' = groupErr
    BY <2>1, Zenon DEF ValidateTypeOK
  <2>2. CASE ~ server[a].up \/ ctxEnded \/ groupErr
    BY <1>1, <2>2, Zenon DEF ValidateTypeOK, Unreachable
  <2>3. QED
    BY <1>3, <2>1, <2>2, ZenonT(30)
<1>7. QED
  BY <1>1, <1>2, <1>3, <1>4, <1>5, <1>6, ZenonT(30) DEF ValidateTypeOK, HandshakeSucceeds, Unreachable

\* An address whose state is refused is not acceptable.
LEMMA InvalidIsNotAcceptable ==
  ASSUME NEW s \in Servers, opts \in Options
  PROVE  InvalidState(s) <=> ~ Acceptable(s)
BY DurationsAssumption DEF InvalidState, Acceptable

\* Once every goroutine has ended without an error, the list holds every address.
LEMMA ListIsComplete ==
  ASSUME ValidateTypeOK, ~ groupErr, \A a \in DOMAIN link : link[a] = "done"
  PROVE  /\ \A a \in Considered : \E i \in DOMAIN states : states[i] = a
         /\ \A i \in DOMAIN states : states[i] \in Considered
         /\ \A a \in Considered : ~ Unreachable(a)
         /\ states # <<>> => 1 \in DOMAIN states
<1>1. /\ DOMAIN link = Considered /\ states \in Seq(Considered)
      /\ Len(states) \in Nat /\ DOMAIN states = 1..Len(states)
  BY DEF ValidateTypeOK
<1>2. \A a \in Considered : Saw(a)
  BY <1>1, Zenon DEF ValidateTypeOK
<1>3. \A i \in DOMAIN states : states[i] \in Considered
  BY <1>1
<1>4. states # <<>> => 1 \in DOMAIN states
  BY <1>1
<1>5. QED
  BY <1>2, <1>3, <1>4, Zenon DEF Saw, Unreachable, ValidateTypeOK

\* The states agree with the first of them on what the options ask for exactly if they
\* agree with each other, when each has a certificate.
LEMMA FirstStandsForAll ==
  ASSUME ValidateTypeOK, ~ groupErr, \A a \in DOMAIN link : link[a] = "done",
         states # <<>>, \A a \in Considered : server[a].chain # <<>>
  PROVE  ~ DifferAcrossHosts(states) <=>
           /\ opts.checkSerial => Agree(LeafSerial)
           /\ opts.checkSignature => Agree(Alg)
           /\ opts.checkCipherSuite => Agree(Suite)
<1>1. /\ Len(states) \in Nat /\ DOMAIN states = 1..Len(states)
      /\ \A a \in Considered : \E i \in 1..Len(states) : states[i] = a
      /\ \A i \in 1..Len(states) : states[i] \in Considered
      /\ 1 \in 1..Len(states)
  BY ListIsComplete, SMTT(30) DEF ValidateTypeOK
<1> DEFINE first == server[states[1]]
<1>2. ~ DifferAcrossHosts(states) <=>
        \A i \in 1..Len(states) :
          /\ opts.checkSerial => first.chain[1] = server[states[i]].chain[1]
          /\ opts.checkSignature => first.alg = server[states[i]].alg
          /\ opts.checkCipherSuite => first.suite = server[states[i]].suite
  BY <1>1, SMTT(30) DEF DifferAcrossHosts
<1>3. ~ DifferAcrossHosts(states) <=>
        \A a \in Considered :
          /\ opts.checkSerial => first.chain[1] = server[a].chain[1]
          /\ opts.checkSignature => first.alg = server[a].alg
          /\ opts.checkCipherSuite => first.suite = server[a].suite
  BY <1>1, <1>2
<1>4. QED
  BY <1>1, <1>3, Zenon DEF Agree, LeafSerial, Alg, Suite

\* What the verdict is about does not change once Validate has begun.
LEMMA SameQuestion ==
  ASSUME [ValidateNext]_validateVars
  PROVE  /\ Considered' = Considered /\ opts' = opts
         /\ HostAtFault' <=> HostAtFault
         /\ HostValid' <=> HostValid
         /\ ctxEnded => ctxEnded'
<1>1. opts' = opts /\ resolved' = resolved /\ server' = server
  BY Zenon DEF ValidateNext, ValidateStep, Judge, Dial, EndContext, Handshake, validateVars
<1>2. Considered' = Considered
  BY <1>1, Zenon DEF Considered, IgnoreIPv6, ExpandHost
<1>3. (HostAtFault' <=> HostAtFault) /\ (HostValid' <=> HostValid)
  BY <1>1, <1>2 DEF HostAtFault, HostValid, Unreachable, HandshakeSucceeds, Acceptable, ZeroSerial, Agree, LeafSerial, Alg, Suite
<1>4. ctxEnded => ctxEnded'
  BY ZenonT(30) DEF ValidateNext, ValidateStep, Judge, Dial, EndContext, Handshake, validateVars
<1>5. QED
  BY <1>1, <1>2, <1>3, <1>4, Zenon

\* The verdict is the one that the properties describe.
LEMMA JudgeDecides ==
  ASSUME ValidateTypeOK, Judge
  PROVE  /\ verdict' \in {"nil", "error", "panic"}
         /\ verdict' = "nil" => HostValid
         /\ verdict' = "error" => ctxEnded \/ HostAtFault
         /\ verdict' = "panic" => Considered = {} /\ opts.ipv4Only /\ ~ CertPoolFails(opts)
                                  /\ (opts.expand => resolved # {})
<1>1. verdict = "none" /\ \A a \in DOMAIN link : link[a] = "done"
  BY Zenon DEF Judge
<1>2. opts \in Options /\ \A a \in Considered : server[a] \in Servers
  BY Zenon DEF ValidateTypeOK
<1>3. \A a \in Considered : InvalidState(server[a]) <=> ~ Acceptable(server[a])
  BY <1>2, InvalidIsNotAcceptable, Zenon
<1>4. CASE groupErr
  BY <1>4, Zenon DEF Judge, ValidateTypeOK, HostAtFault
<1>5. CASE ~ groupErr /\ states = <<>>
  <2>1. verdict' = "panic"
    BY <1>5, Zenon DEF Judge
  <2>2. Considered = {}
    BY <1>1, <1>5, ListIsComplete
  <2>3. ~ CertPoolFails(opts) /\ (opts.expand => resolved # {})
    BY <1>1, Zenon DEF ValidateTypeOK
  <2>4. opts.ipv4Only
    BY <2>2, <2>3, Zenon DEF Considered, IgnoreIPv6, ExpandHost
  <2>5. QED
    BY <2>1, <2>2, <2>3, <2>4, Zenon
<1>6. CASE ~ groupErr /\ states # <<>>
  <2> DEFINE Bad == \/ \E i \in DOMAIN states : InvalidState(server[states[i]])
                    \/ ZeroSerial(server[states[1]])
                    \/ DifferAcrossHosts(states)
  <2>1. verdict' = IF Bad THEN "error" ELSE "nil"
    BY <1>6, Zenon DEF Judge
  <2>2. /\ \A a \in Considered : \E i \in DOMAIN states : states[i] = a
        /\ \A i \in DOMAIN states : states[i] \in Considered
        /\ \A a \in Considered : ~ Unreachable(a)
        /\ states[1] \in Considered
    BY <1>1, <1>6, ListIsComplete, Zenon
  <2>3. CASE \E a \in Considered : ~ Acceptable(server[a])
    <3>1. Bad
      BY <1>3, <2>2, <2>3, Zenon
    <3>2. QED
      BY <2>1, <2>3, <3>1, Zenon DEF HostAtFault
  <2>4. CASE \A a \in Considered : Acceptable(server[a])
    <3>1. \A a \in Considered : server[a].chain # <<>>
      BY <2>4, Zenon DEF Acceptable
    <3>2. ~ DifferAcrossHosts(states) <=>
           /\ opts.checkSerial => Agree(LeafSerial)
           /\ opts.checkSignature => Agree(Alg)
           /\ opts.checkCipherSuite => Agree(Suite)
      BY <1>1, <1>6, <3>1, FirstStandsForAll, Zenon
    <3>3. CASE Bad
      <4>1. ZeroSerial(server[states[1]]) \/ DifferAcrossHosts(states)
        BY <1>3, <2>2, <2>4, <3>3, Zenon
      <4>2. HostAtFault
        BY <2>2, <3>2, <4>1, Zenon DEF HostAtFault
      <4>3. QED
        BY <2>1, <3>3, <4>2, Zenon
    <3>4. CASE ~ Bad
      <4>1. HostValid
        BY <2>2, <2>4, <3>2, <3>4, ZenonT(30) DEF HostValid
      <4>2. QED
        BY <2>1, <3>4, <4>1, Zenon
    <3>5. QED
      BY <3>3, <3>4, Zenon
  <2>5. QED
    BY <2>3, <2>4, Zenon
<1>7. QED
  BY <1>4, <1>5, <1>6, Zenon

\* Judge changes the verdict and nothing else.
LEMMA JudgeKeeps ==
  ASSUME ValidateTypeOK, Judge
  PROVE  ValidateTypeOK'
<1>1. UNCHANGED <<opts, resolved, server, link, states, ctxEnded, groupErr>>
  BY Zenon DEF Judge
<1>2. Considered' = Considered
  BY <1>1, Zenon DEF Considered, IgnoreIPv6, ExpandHost
<1>3. QED
  BY <1>1, <1>2, JudgeDecides DEF ValidateTypeOK, Saw, Unreachable, HandshakeSucceeds

\* The end of the context is remembered.
LEMMA EndContextKeeps ==
  ASSUME ValidateTypeOK, EndContext \/ UNCHANGED validateVars
  PROVE  ValidateTypeOK'
<1>1. UNCHANGED <<opts, resolved, server, link, states, groupErr, verdict>> /\ ctxEnded' \in {ctxEnded, TRUE}
  BY ZenonT(30) DEF EndContext, validateVars
<1>2. Considered' = Considered
  BY <1>1, Zenon DEF Considered, IgnoreIPv6, ExpandHost
<1>3. QED
  BY <1>1, <1>2, ZenonT(30) DEF ValidateTypeOK, Saw, Unreachable, HandshakeSucceeds

\* A verdict stays, and what it means.
LEMMA NextVerdict ==
  ASSUME VerdictSound, [ValidateNext]_validateVars
  PROVE  VerdictSound'
<1>1. ValidateTypeOK
  BY Zenon DEF VerdictSound
<1>2. ValidateTypeOK'
  BY <1>1, HandshakeKeeps, DialKeeps, JudgeKeeps, EndContextKeeps, Zenon DEF ValidateNext, ValidateStep
<1>3. verdict' = verdict \/ Judge
  BY Zenon DEF ValidateNext, ValidateStep, Dial, EndContext, Handshake, validateVars
<1>4. /\ verdict' = "nil" => HostValid
      /\ verdict' = "error" => ctxEnded \/ HostAtFault
      /\ verdict' = "panic" => Considered = {} /\ opts.ipv4Only
  <2>1. CASE Judge
    BY <1>1, <2>1, JudgeDecides, Zenon
  <2>2. CASE verdict' = verdict
    BY <2>2, Zenon DEF VerdictSound, NilMeansValid, ErrorHasCause, PanicOnlyWithoutAddress
  <2>3. QED
    BY <1>3, <2>1, <2>2, Zenon
<1>5. NilMeansValid' /\ ErrorHasCause'
  <2>1. (verdict' = "nil" => HostValid') /\ (verdict' = "error" => ctxEnded' \/ HostAtFault')
    BY <1>4, SameQuestion, Zenon
  <2>2. QED
    BY <2>1, Zenon DEF NilMeansValid, ErrorHasCause
<1>6. PanicOnlyWithoutAddress'
  BY <1>4, SameQuestion, Zenon DEF PanicOnlyWithoutAddress
<1>7. QED
  BY <1>2, <1>5, <1>6, Zenon DEF VerdictSound

\* Validate accepts, refuses and fails for its reasons only, for any validator, any
\* addresses of the host and any servers behind them, in whatever order they answer.
THEOREM ValidateAnswersRightly == ValidateSpec => []VerdictSound
<1>1. ValidateInit => VerdictSound
  <2> SUFFICES ASSUME ValidateInit PROVE VerdictSound
    BY Zenon
  <2>1. ValidateTypeOK
    <3>1. states \in Seq(Considered) /\ DOMAIN states = {}
      BY DEF ValidateInit
    <3>2. link \in [Considered -> {"dial", "shake", "done"}] /\ \A a \in Considered : link[a] = "dial"
      BY Zenon DEF ValidateInit
    <3>3. QED
      BY <3>1, <3>2, ZenonT(30) DEF ValidateInit, ValidateTypeOK, Saw
  <2>2. QED
    BY <2>1, Zenon DEF ValidateInit, VerdictSound, NilMeansValid, ErrorHasCause, HostAtFault, PanicOnlyWithoutAddress
<1>2. QED
  BY <1>1, NextVerdict, PTL DEF ValidateSpec
-----------------------------------------------------------------------------
(* The ACME manager.                                                       *)

\* Texts that differ.
LEMMA ProvidersDiffer == "letsencrypt" # NoProvider /\ "bad" # NoProvider
BY ZenonT(30) DEF NoProvider

\* The clients of the library support ECDSA, whatever the host.
LEMMA ClientsSupportECDSA ==
  ASSUME NEW host
  PROVE  /\ SupportsECDSA(NewHTTPClient(host)) /\ NewHTTPClient(host).host = host
         /\ SupportsECDSA(RefreshCertificate(host)) /\ RefreshCertificate(host).host = host
<1>1. "ecdsa-p256" \in EcdsaSchemes /\ "ecdsa-aes128" \in EcdsaSuites
  BY Zenon DEF EcdsaSchemes, EcdsaSuites
<1>2. "ecdsa-aes128" \in PreferredCipherSuites /\ "ecdsa-p256" \in PreferredSignatureSchemes
  BY <1>1, Zenon DEF PreferredCipherSuites, PreferredSignatureSchemes
<1>3. QED
  BY <1>1, <1>2 DEF SupportsECDSA, NewHTTPClient, ClientHello, RefreshCertificate

\* What the manager decides.
LEMMA AskManagerServes ==
  ASSUME NEW p, NEW rsa \in BOOLEAN, NEW port \in {80, 5002}, NEW h \in Hellos,
         NEW from \in {"client", "refresh", "other"}, AskManager(p, rsa, port, h, from)
  PROVE  ManagerServes'
<1> DEFINE hello == CASE from = "client" -> NewHTTPClient(h.host)
                      [] from = "refresh" -> RefreshCertificate(h.host)
                      [] OTHER -> h
           issued == IF rsa \/ from = "refresh" THEN Issue(port, hello)
                     ELSE GetCertificateECDSAOnly(port, hello)
<1>1. answer' = IF ManagerURL(p) = "refused" THEN [made |-> "refused"]
                ELSE [made |-> "decided", from |-> from, host |-> h.host, rsa |-> rsa, issued |-> issued,
                      challenge |-> HostPolicy(port, h.host, port # 80),
                      revokeAt |-> DirectoryURL(p), issuedBy |-> ManagerURL(p)]
  BY DEF AskManager
<1>2. from # "other" => SupportsECDSA(hello) /\ hello.host = h.host
  BY ClientsSupportECDSA
<1> HIDE DEF hello
<1>3. from # "other" => (issued = "ecdsa" <=> h.host = "managed")
  BY <1>2 DEF Issue, GetCertificateECDSAOnly, HostPolicy
<1>4. HostPolicy(port, h.host, port # 80) <=> h.host = "managed"
  BY DEF HostPolicy
<1>5. ~ rsa /\ from # "refresh" => issued # "rsa"
  <2>1. CASE SupportsECDSA(hello)
    BY <2>1 DEF Issue, GetCertificateECDSAOnly
  <2>2. CASE ~ SupportsECDSA(hello)
    BY <2>2 DEF GetCertificateECDSAOnly
  <2>3. QED
    BY <2>1, <2>2
<1>6. ~ rsa /\ from = "refresh" => issued # "rsa"
  BY <1>2 DEF Issue
<1>7. ManagerURL(p) # "refused" => DirectoryURL(p) = ManagerURL(p)
  BY ProvidersDiffer DEF ManagerURL, DirectoryURL
<1> HIDE DEF issued
<1>8. QED
  BY <1>1, <1>3, <1>4, <1>5, <1>6, <1>7 DEF ManagerServes, LibraryClientsServed, SameService

\* Whatever clients offer, the choices the manager makes agree.
THEOREM ManagerAgrees == ManagerSpec => []ManagerServes
<1>1. ManagerInit => ManagerServes
  BY DEF ManagerInit, NoAnswer, ManagerServes, LibraryClientsServed, SameService
<1>2. ManagerServes /\ [ManagerNext]_answer => ManagerServes'
  <2>1. ASSUME ManagerServes, UNCHANGED answer
        PROVE  ManagerServes'
    BY <2>1, Zenon DEF ManagerServes, LibraryClientsServed, SameService
  <2>2. QED
    BY <2>1, AskManagerServes DEF ManagerNext
<1>3. QED
  BY <1>1, <1>2, PTL DEF ManagerSpec
-----------------------------------------------------------------------------
(* Settings and secrets.                                                   *)

\* The case of every kind of list in Values, Parse and Written.
LEMMA KindCases ==
  ASSUME NEW t
  PROVE  /\ Values("schemes") = 1..12 /\ Values("curves") = 1..7 /\ Values("suites") = 1..5
         /\ Values("algorithms") = 1..15 /\ Values("versions") = 0..MaxUint16 /\ Values("webhook") = Int \ {0}
         /\ Parse("schemes", t) = ParseIn(1..12, t) /\ Parse("curves", t) = ParseIn(1..7, t)
         /\ Parse("suites", t) = CipherSuiteText(t) /\ Parse("algorithms", t) = SignatureAlgorithmText(t)
         /\ Parse("versions", t) = ParseTLSVersion(t) /\ Parse("webhook", t) = WebhookText(t)
         /\ \A k \in {"schemes", "curves", "suites", "algorithms"} : Written(k, t) = Named(t)
         /\ Written("versions", t) = VersionName(t)
         /\ Written("webhook", t) = Number("size", OrDefault(t))
<1>1. secureSuites \union Range(insecureSuites) = 1..5
  BY DEF secureSuites, insecureSuites, Range
<1>2. /\ Values("schemes") = 1..12 /\ Values("curves") = 1..7 /\ Values("suites") = 1..5
      /\ Values("algorithms") = 1..15 /\ Values("versions") = 0..MaxUint16 /\ Values("webhook") = Int \ {0}
  BY <1>1, Zenon DEF Values, signatureSchemes, curveIDs, signatureAlgorithms
<1>3. /\ Parse("schemes", t) = ParseIn(1..12, t) /\ Parse("curves", t) = ParseIn(1..7, t)
      /\ Parse("suites", t) = CipherSuiteText(t) /\ Parse("algorithms", t) = SignatureAlgorithmText(t)
      /\ Parse("versions", t) = ParseTLSVersion(t) /\ Parse("webhook", t) = WebhookText(t)
  BY Zenon DEF Parse, ParseSignatureScheme, ParseCurveID, signatureSchemes, curveIDs
<1>4. /\ \A k \in {"schemes", "curves", "suites", "algorithms"} : Written(k, t) = Named(t)
      /\ Written("versions", t) = VersionName(t)
      /\ Written("webhook", t) = Number("size", OrDefault(t))
  BY Zenon DEF Written
<1> QED
  BY <1>2, <1>3, <1>4, Zenon

\* The parsers, without their special names and forms.
LEMMA ParserCases ==
  ASSUME NEW t \in FileText
  PROVE  /\ CipherSuiteText(t) \in {<<4, 5>>, ParseIn(1..5, t)}
         /\ t.form = "name" => CipherSuiteText(t) = ParseIn(1..5, t)
         /\ SignatureAlgorithmText(t) \in {<<3, 4, 5>>, <<6, 7>>, <<8, 9, 10, 11>>, <<15>>, <<12, 13, 14>>,
                                           ParseIn(1..15, t)}
         /\ t.form = "name" => SignatureAlgorithmText(t) = ParseIn(1..15, t)
         /\ ParseTLSVersion(t) \in {<<t.n>>, Fail}
         /\ ParseTLSVersion(t) # Fail => t.n \in 0..MaxUint16
         /\ t.form = "name" => ParseTLSVersion(t) = ParseIn(tlsVersions, t)
         /\ t.form = "hex" /\ t.n \in 0..MaxUint16 => ParseTLSVersion(t) = <<t.n>>
<1>1. secureSuites \union Range(insecureSuites) = 1..5
  BY DEF secureSuites, insecureSuites, Range
<1>2. CipherSuiteText(t) = IF t = Word("insecure") THEN <<4, 5>> ELSE ParseIn(1..5, t)
  BY <1>1, Zenon DEF CipherSuiteText, ParseCipherSuite, insecureSuites
<1>3. SignatureAlgorithmText(t) \in {<<3, 4, 5>>, <<6, 7>>, <<8, 9, 10, 11>>, <<15>>, <<12, 13, 14>>,
                                     ParseIn(1..15, t)}
  BY Zenon DEF SignatureAlgorithmText, ParseSignatureAlgorithm, signatureAlgorithms
<1>4. ASSUME t.form = "name"
      PROVE  \A w : t # Word(w)
  BY <1>4 DEF Word
<1>5. t.form = "name" => SignatureAlgorithmText(t) = ParseIn(1..15, t)
  BY <1>4, Zenon DEF SignatureAlgorithmText, ParseSignatureAlgorithm, signatureAlgorithms
<1>6. ParseTLSVersion(t) = IF t.form = "name" THEN ParseIn(tlsVersions, t)
                           ELSE IF t.form \in {"hex", "dec"} /\ t.n \in 0..MaxUint16 THEN <<t.n>> ELSE Fail
  <2>1. CASE t.form = "name"
    BY <2>1, Zenon DEF ParseTLSVersion
  <2>2. CASE t.form \in {"hex", "dec"}
    <3>1. t.form # "name"
      BY <2>2, Zenon
    <3> QED
      BY <2>2, <3>1, Zenon DEF ParseTLSVersion
  <2>3. CASE t.form # "name" /\ t.form \notin {"hex", "dec"}
    BY <2>3, Zenon DEF ParseTLSVersion
  <2> QED
    BY <2>1, <2>2, <2>3, Zenon
<1>7. tlsVersions \subseteq 0..MaxUint16
  BY DEF tlsVersions, MaxUint16
<1>8. /\ ParseTLSVersion(t) \in {<<t.n>>, Fail}
      /\ ParseTLSVersion(t) # Fail => t.n \in 0..MaxUint16
  BY <1>6, <1>7, Zenon DEF ParseIn
<1> QED
  BY <1>2, <1>3, <1>4, <1>5, <1>6, <1>8, Zenon

\* A text gives values of its list, or none.
LEMMA ParseGivesValues ==
  ASSUME NEW k \in Kinds, NEW t \in FileText
  PROVE  Parse(k, t) \in Seq(Values(k))
<1>1. \A K : ParseIn(K, t) \in Seq(K)
  BY DEF ParseIn, Fail
<1>2. <<4, 5>> \in Seq(1..5)
  OBVIOUS
<1>3. /\ <<3, 4, 5>> \in Seq(1..15) /\ <<6, 7>> \in Seq(1..15) /\ <<8, 9, 10, 11>> \in Seq(1..15)
      /\ <<15>> \in Seq(1..15) /\ <<12, 13, 14>> \in Seq(1..15)
  OBVIOUS
<1>4. \A K : Fail \in Seq(K) /\ (t.n \in K => <<t.n>> \in Seq(K))
  BY DEF Fail
<1>5. WebhookText(t) \in Seq(Int \ {0})
  <2>1. OrDefault(t.n) \in Int \ {0}
    BY DEF OrDefault, DefaultSize, FileText
  <2>2. <<OrDefault(t.n)>> \in Seq(Int \ {0})
    BY <2>1
  <2> QED
    BY <1>4, <2>2, Zenon DEF WebhookText
<1>6. CASE k \in {"schemes", "curves", "webhook"}
  BY <1>1, <1>5, <1>6, KindCases, Zenon
<1>7. CASE k = "suites"
  BY <1>1, <1>2, <1>7, KindCases, ParserCases, Zenon
<1>8. CASE k = "algorithms"
  <2>1. Parse(k, t) = SignatureAlgorithmText(t) /\ Values(k) = 1..15
    BY <1>8, KindCases, Zenon
  <2>2. SignatureAlgorithmText(t) \in {<<3, 4, 5>>, <<6, 7>>, <<8, 9, 10, 11>>, <<15>>, <<12, 13, 14>>,
                                       ParseIn(1..15, t)}
    BY ParserCases, Zenon
  <2> QED
    BY <1>1, <1>3, <2>1, <2>2, Zenon
<1>9. CASE k = "versions"
  BY <1>4, <1>9, KindCases, ParserCases, Zenon
<1> QED
  BY <1>6, <1>7, <1>8, <1>9, Zenon DEF Kinds

\* What is written of a value is a text, and it is read back as that value alone,
\* except for the version of SSL 3.0.
LEMMA WrittenReadsBack ==
  ASSUME NEW k \in Kinds, NEW v \in Values(k)
  PROVE  /\ Written(k, v) \in FileText
         /\ Parse(k, Written(k, v)) \in {<<v>>, Fail}
         /\ Parse(k, Written(k, v)) = Fail => k = "versions" /\ v = SSL30
<1>1. /\ v \in Int => Named(v) \in FileText /\ Number("hex", v) \in FileText /\ Number("size", v) \in FileText
      /\ Named(v).form = "name" /\ Named(v).n = v
      /\ Number("hex", v).form = "hex" /\ Number("hex", v).n = v
      /\ Number("size", v).form = "size" /\ Number("size", v).n = v
  <2>1. ASSUME NEW f \in {"name", "hex", "size"}
        PROVE  /\ v \in Int => Number(f, v) \in FileText
               /\ Number(f, v).form = f /\ Number(f, v).n = v
    BY Zenon DEF Number, FileText, Forms, Words
  <2> QED
    BY <2>1, Zenon DEF Named
<1>2. v \in Int
  <2>1. Values(k) \in {1..12, 1..7, 1..5, 1..15, 0..MaxUint16, Int \ {0}}
    BY KindCases, Zenon DEF Kinds
  <2>2. /\ 1..12 \subseteq Int /\ 1..7 \subseteq Int /\ 1..5 \subseteq Int /\ 1..15 \subseteq Int
        /\ 0..MaxUint16 \subseteq Int
    BY DEF MaxUint16
  <2> QED
    BY <2>1, <2>2, Zenon
<1>3. \A S : v \in S => ParseIn(S, Named(v)) = <<v>> /\ <<v>> # Fail
  BY <1>1 DEF ParseIn, Fail
<1>4. CASE k = "schemes"
  BY <1>1, <1>2, <1>3, <1>4, KindCases, Zenon
<1>5. CASE k = "curves"
  BY <1>1, <1>2, <1>3, <1>5, KindCases, Zenon
<1>6. CASE k = "suites"
  <2>1. Named(v) \in FileText
    BY <1>1, <1>2, Zenon
  <2> QED
    <3>1. v \in 1..5 /\ Written(k, v) = Named(v) /\ Parse(k, Named(v)) = CipherSuiteText(Named(v))
      BY <1>6, KindCases, Zenon
    <3>2. CipherSuiteText(Named(v)) = ParseIn(1..5, Named(v))
      BY <1>1, <2>1, ParserCases, Zenon
    <3> QED
      BY <1>3, <2>1, <3>1, <3>2, Zenon
<1>7. CASE k = "algorithms"
  <2>1. Named(v) \in FileText
    BY <1>1, <1>2, Zenon
  <2> QED
    <3>1. v \in 1..15 /\ Written(k, v) = Named(v) /\ Parse(k, Named(v)) = SignatureAlgorithmText(Named(v))
      BY <1>7, KindCases, Zenon
    <3>2. SignatureAlgorithmText(Named(v)) = ParseIn(1..15, Named(v))
      BY <1>1, <2>1, ParserCases, Zenon
    <3> QED
      BY <1>3, <2>1, <3>1, <3>2, Zenon
<1>8. CASE k = "versions"
  <2>1. v \in 0..MaxUint16 /\ Written(k, v) = VersionName(v) /\ Parse(k, VersionName(v)) = ParseTLSVersion(VersionName(v))
    BY <1>8, KindCases, Zenon
  <2>2. CASE v \in tlsVersions
    <3>1. VersionName(v) = Named(v)
      BY <2>2, Zenon DEF VersionName
    <3> QED
      BY <1>1, <1>2, <1>3, <2>1, <2>2, <3>1, ParserCases, Zenon
  <2>3. CASE v = SSL30
    <3>1. VersionName(v) = Named(v)
      BY <2>3, Zenon DEF VersionName
    <3> QED
      BY <1>1, <1>2, <1>8, <2>1, <2>3, <3>1, ParserCases, Zenon
  <2>4. CASE v \notin tlsVersions /\ v # SSL30
    <3>1. VersionName(v) = Number("hex", v) /\ <<v>> # Fail
      BY <2>4 DEF VersionName, Fail
    <3> QED
      BY <1>1, <1>2, <2>1, <3>1, ParserCases, Zenon
  <2> QED
    BY <2>2, <2>3, <2>4, Zenon
<1>9. CASE k = "webhook"
  <2>1. OrDefault(v) = v
    BY <1>9, KindCases, Zenon DEF OrDefault
  <2>2. Written(k, v) = Number("size", v) /\ Parse(k, Number("size", v)) = WebhookText(Number("size", v))
    BY <1>9, <2>1, KindCases, Zenon
  <2> QED
    <3>1. WebhookText(Number("size", v)) = <<v>> /\ <<v>> # Fail
      BY <1>1, <2>1 DEF WebhookText, Fail
    <3> QED
      BY <1>1, <1>2, <2>2, <3>1, Zenon
<1> QED
  BY <1>4, <1>5, <1>6, <1>7, <1>8, <1>9, Zenon DEF Kinds

\* What the lists and the specifications of secrets are.
LEMMA SettingsFacts ==
  /\ Lists \subseteq Kinds /\ "tokens" \notin Lists
  /\ \A k \in Lists : Texts[k] \subseteq Seq(FileText)
  /\ \A s : s \in Specs <=> \E u \in DOMAIN Secrets : \E x \in Range(Secrets[u]) : s = <<u, x>>
<1>1. Lists \subseteq Kinds /\ "tokens" \notin Lists
  BY SettingsAssumption, Zenon DEF Lists, Kinds
<1>2. \A k \in Lists : Texts[k] \subseteq Seq(FileText)
  BY SettingsAssumption, Zenon DEF Lists
<1>3. \A s : s \in Specs <=> \E u \in DOMAIN Secrets : \E x \in Range(Secrets[u]) : s = <<u, x>>
  BY DEF Specs
<1> QED
  BY <1>1, <1>2, <1>3, Zenon

LEMMA SettingsStart == SettingsInit => SettingsSound
<1> SUFFICES ASSUME SettingsInit
             PROVE  SettingsSound
  BY Zenon
<1>1. CASE topic \in Lists
  <2>1. \A S : <<>> \in Seq(S)
    OBVIOUS
  <2>3. SettingsTypeOK
    BY <1>1, <2>1, Zenon DEF SettingsInit, SettingsTypeOK
  <2> QED
    BY <1>1, <2>3, Zenon DEF SettingsInit, SettingsSound, SavedLoadsAgain, FailedLoadKeeps, TokensAllOrNone,
                            LoadsBack, FetchedSoFar
<1>2. CASE topic \notin Lists
  <2>1. topic = "tokens" /\ users = DOMAIN Secrets /\ held = <<>> /\ mem = <<>> /\ status = "new"
    BY <1>2, Zenon DEF SettingsInit
  <2>2. SettingsTypeOK
    BY <1>2, <2>1 DEF SettingsTypeOK
  <2>3. Range(held) = {}
    BY <2>1 DEF Range
  <2>4. \A s \in Specs : s[1] \in DOMAIN Secrets
    BY SettingsFacts
  <2>5. Range(held) = {s \in Specs : s[1] \notin users}
    BY <2>1, <2>3, <2>4, Zenon
  <2> QED
    BY <1>2, <2>1, <2>2, <2>5, Zenon DEF SettingsSound, SavedLoadsAgain, FailedLoadKeeps, TokensAllOrNone,
                                        LoadsBack, FetchedSoFar
<1> QED
  BY <1>1, <1>2, Zenon

\* The lists: editing a file and the start of a load.
LEMMA EditKeeps ==
  ASSUME SettingsSound, topic \in Lists, NEW ts \in Texts[topic], EditFile(ts)
  PROVE  SettingsSound'
<1>1. topic' = topic /\ topic' \in Lists /\ resaved' = FALSE /\ status' = "new"
  BY Zenon DEF EditFile
<1>2. SettingsTypeOK'
  <2>1. ts \in Seq(FileText)
    BY SettingsFacts, Zenon
  <2> QED
    BY <1>1, <2>1, Zenon DEF EditFile, SettingsSound, SettingsTypeOK
<1> QED
  BY <1>1, <1>2, Zenon DEF SettingsSound, SavedLoadsAgain, FailedLoadKeeps, TokensAllOrNone, LoadsBack, FetchedSoFar

LEMMA LoadKeeps ==
  ASSUME SettingsSound, Load
  PROVE  SettingsSound'
<1>1. /\ topic' = topic /\ topic' \in Lists /\ status' = "loading" /\ entry' = 1 /\ parsed' = <<>>
      /\ prior' = held /\ held' = held /\ text' = text /\ resaved' = resaved
  BY Zenon DEF Load
<1>2. SettingsTypeOK'
  <2>1. entry' \in 1..Len(text') + 1 /\ parsed' \in Seq(Values(topic'))
    BY <1>1 DEF SettingsSound, SettingsTypeOK
  <2> QED
    BY <1>1, <2>1, Zenon DEF SettingsSound, SettingsTypeOK
<1>3. LoadsBack'
  <2>1. Len(parsed') = entry' - 1 /\ 1..entry' - 1 = {}
    BY <1>1
  <2>2. resaved => status = "saved"
    BY <1>1, Zenon DEF Load, SettingsSound, LoadsBack
  <2>3. resaved => text = Saved(topic, held)
    BY <1>1, <2>2, Zenon DEF SettingsSound, LoadsBack
  <2>4. resaved' => text' = Saved(topic', IF status' = "saved" THEN held' ELSE prior')
    BY <1>1, <2>3, Zenon
  <2> QED
    BY <1>1, <2>1, <2>4, Zenon DEF LoadsBack
<1> QED
  BY <1>1, <1>2, <1>3, Zenon DEF SettingsSound, SavedLoadsAgain, FailedLoadKeeps, TokensAllOrNone, FetchedSoFar

\* One iteration of a load: the next entry is parsed.
LEMMA ParseKeeps ==
  ASSUME SettingsSound, status = "loading", topic \in Lists,
         entry <= Len(text), Parse(topic, text[entry]) # Fail,
         parsed' = parsed \o Parse(topic, text[entry]), entry' = entry + 1,
         UNCHANGED <<held, status, topic, text, users, prior, resaved, loads, keys, mem>>
  PROVE  SettingsSound'
<1>1. /\ text \in Seq(FileText) /\ entry \in 1..Len(text) /\ parsed \in Seq(Values(topic))
      /\ prior \in Seq(Values(topic)) /\ topic \in Kinds
  BY SettingsFacts DEF SettingsSound, SettingsTypeOK
<1>2. Parse(topic, text[entry]) \in Seq(Values(topic))
  BY <1>1, ParseGivesValues
<1>3. parsed' \in Seq(Values(topic)) /\ entry' \in 1..Len(text) + 1
  BY <1>1, <1>2
<1>4. SettingsTypeOK'
  BY <1>3, Zenon DEF SettingsSound, SettingsTypeOK
<1>5. ASSUME resaved
      PROVE  Len(parsed') = entry' - 1 /\ \A i \in 1..entry' - 1 : parsed'[i] = prior[i]
  <2>1. /\ text = Saved(topic, prior)
        /\ Len(parsed) = entry - 1 /\ \A i \in 1..entry - 1 : parsed[i] = prior[i]
    BY <1>5, Zenon DEF SettingsSound, LoadsBack
  <2>2. entry \in DOMAIN prior /\ prior[entry] \in Values(topic) /\ text[entry] = Written(topic, prior[entry])
    BY <1>1, <2>1 DEF Saved
  <2>3. Parse(topic, text[entry]) = <<prior[entry]>>
    BY <1>1, <2>2, WrittenReadsBack, Zenon
  <2> QED
    BY <1>1, <2>1, <2>2, <2>3
<1>6. LoadsBack'
  BY <1>5, Zenon DEF SettingsSound, LoadsBack
<1> QED
  BY <1>4, <1>6, Zenon DEF SettingsSound, SavedLoadsAgain, FailedLoadKeeps, TokensAllOrNone, FetchedSoFar

\* A load that meets an error ends and keeps what was held.
LEMMA FailKeeps ==
  ASSUME SettingsSound, status = "loading", topic \in Lists,
         entry <= Len(text), Parse(topic, text[entry]) = Fail,
         status' = "failed", parsed' = <<>>, entry' = 1,
         UNCHANGED <<held, topic, text, users, prior, resaved, loads, keys, mem>>
  PROVE  SettingsSound'
<1>1. /\ text \in Seq(FileText) /\ entry \in 1..Len(text) /\ prior \in Seq(Values(topic)) /\ topic \in Kinds
  BY SettingsFacts DEF SettingsSound, SettingsTypeOK
<1>2. <<>> \in Seq(Values(topic))
  OBVIOUS
<1>3. SettingsTypeOK'
  BY <1>2, Zenon DEF SettingsSound, SettingsTypeOK
<1>4. held = prior
  BY Zenon DEF SettingsSound, LoadsBack
<1>5. LoadsBack'
  BY Zenon DEF SettingsSound, LoadsBack
<1>6. ASSUME resaved
      PROVE  topic = "versions" /\ SSL30 \in Range(prior)
  <2>1. text = Saved(topic, prior)
    BY <1>6, Zenon DEF SettingsSound, LoadsBack
  <2>2. entry \in DOMAIN prior /\ prior[entry] \in Values(topic) /\ text[entry] = Written(topic, prior[entry])
    BY <1>1, <2>1 DEF Saved
  <2>3. topic = "versions" /\ prior[entry] = SSL30
    BY <1>1, <2>2, WrittenReadsBack, Zenon
  <2> QED
    BY <2>2, <2>3, Zenon DEF Range
<1>7. SavedLoadsAgain'
  BY <1>6, Zenon DEF SavedLoadsAgain
<1> QED
  BY <1>3, <1>4, <1>5, <1>7, Zenon DEF SettingsSound, FailedLoadKeeps, TokensAllOrNone, FetchedSoFar

\* A load at the end of its file holds what was parsed.
LEMMA EndKeeps ==
  ASSUME SettingsSound, status = "loading", topic \in Lists, entry > Len(text),
         held' = parsed, status' = "loaded", parsed' = <<>>, entry' = 1,
         UNCHANGED <<topic, text, users, prior, resaved, loads, keys, mem>>
  PROVE  SettingsSound'
<1>1. /\ text \in Seq(FileText) /\ entry = Len(text) + 1
      /\ prior \in Seq(Values(topic)) /\ parsed \in Seq(Values(topic))
  BY DEF SettingsSound, SettingsTypeOK
<1>2. <<>> \in Seq(Values(topic))
  OBVIOUS
<1>3. SettingsTypeOK'
  BY <1>1, <1>2, Zenon DEF SettingsSound, SettingsTypeOK
<1>4. LoadsBack'
  BY Zenon DEF SettingsSound, LoadsBack
<1>5. ASSUME resaved
      PROVE  parsed = prior
  <2>1. /\ text = Saved(topic, prior)
        /\ Len(parsed) = entry - 1 /\ \A i \in 1..entry - 1 : parsed[i] = prior[i]
    BY <1>5, Zenon DEF SettingsSound, LoadsBack
  <2>2. Len(text) = Len(prior)
    BY <1>1, <2>1 DEF Saved
  <2> QED
    BY <1>1, <2>1, <2>2
<1>6. SavedLoadsAgain'
  BY <1>5, Zenon DEF SavedLoadsAgain
<1> QED
  BY <1>3, <1>4, <1>6, Zenon DEF SettingsSound, FailedLoadKeeps, TokensAllOrNone, FetchedSoFar

\* A list that is saved is the file.
LEMMA SaveKeeps ==
  ASSUME SettingsSound, Save
  PROVE  SettingsSound'
<1>1. topic \in Lists /\ topic \in Kinds /\ held \in Seq(Values(topic))
  BY SettingsFacts, Zenon DEF Save, SettingsSound, SettingsTypeOK
<1>2. \A i \in DOMAIN held : Written(topic, held[i]) \in FileText
  BY <1>1, WrittenReadsBack
<1>3. Saved(topic, held) \in Seq(FileText)
  BY <1>1, <1>2 DEF Saved
<1>4. SettingsTypeOK'
  <2>1. status = "loaded" /\ entry = 1
    BY <1>1, Zenon DEF Save, SettingsSound, SettingsTypeOK
  <2> QED
    BY <1>1, <1>3, <2>1, Zenon DEF Save, SettingsSound, SettingsTypeOK
<1>5. LoadsBack'
  BY <1>1, Zenon DEF Save, LoadsBack
<1> QED
  BY <1>1, <1>4, <1>5, Zenon DEF Save, SettingsSound, SavedLoadsAgain, FailedLoadKeeps, TokensAllOrNone, FetchedSoFar

\* The elements of a sequence that is appended are added.
LEMMA RangeOfConcat ==
  ASSUME NEW S, NEW s \in Seq(S), NEW t \in Seq(S)
  PROVE  s \o t \in Seq(S) /\ Range(s \o t) = Range(s) \union Range(t)
<1>1. DOMAIN s = 1..Len(s) /\ DOMAIN t = 1..Len(t) /\ Len(s) \in Nat /\ Len(t) \in Nat
  OBVIOUS
<1>2. /\ s \o t \in Seq(S) /\ DOMAIN (s \o t) = 1..Len(s) + Len(t)
      /\ \A i \in 1..Len(s) + Len(t) : (s \o t)[i] = IF i <= Len(s) THEN s[i] ELSE t[i - Len(s)]
  OBVIOUS
<1>3. \A i \in DOMAIN s : i \in DOMAIN (s \o t) /\ (s \o t)[i] = s[i]
  BY <1>1, <1>2
<1>4. \A j \in DOMAIN t : Len(s) + j \in DOMAIN (s \o t) /\ (s \o t)[Len(s) + j] = t[j]
  BY <1>1, <1>2
<1>5. \A i \in DOMAIN (s \o t) :
        i \in DOMAIN s \/ (i - Len(s) \in DOMAIN t /\ (s \o t)[i] = t[i - Len(s)])
  BY <1>1, <1>2
<1>6. ASSUME NEW x \in Range(s \o t)
      PROVE  x \in Range(s) \union Range(t)
  BY <1>3, <1>5, Zenon DEF Range
<1>7. ASSUME NEW x \in Range(s) \union Range(t)
      PROVE  x \in Range(s \o t)
  BY <1>3, <1>4, Zenon DEF Range
<1> QED
  BY <1>2, <1>6, <1>7, Zenon

\* The secrets of one user more are listed, or all are.
LEMMA UnmarshalSecretsKeeps ==
  ASSUME SettingsSound, UnmarshalSecrets
  PROVE  SettingsSound'
<1>1. /\ topic = "tokens" /\ topic \notin Lists /\ topic' = topic /\ topic' \notin Lists
      /\ status = "new" /\ mem = <<>> /\ mem' = <<>> /\ UNCHANGED keys
  BY SettingsFacts, Zenon DEF UnmarshalSecrets, SettingsSound, FetchedSoFar
<1>2. /\ held \in Seq(Specs) /\ users \subseteq DOMAIN Secrets /\ mem \in Seq({"secret", "zero"})
      /\ Range(held) = {s \in Specs : s[1] \notin users}
  BY <1>1, Zenon DEF SettingsSound, SettingsTypeOK, FetchedSoFar
<1>3. ASSUME NEW u \in users, held' = held \o SecretSpecs(u), users' = users \ {u}, UNCHANGED status
      PROVE  /\ held' \in Seq(Specs) /\ users' \subseteq DOMAIN Secrets
             /\ Range(held') = {s \in Specs : s[1] \notin users'}
  <2>1. u \in DOMAIN Secrets /\ Secrets[u] \in Seq(Range(Secrets[u]))
    BY <1>2, SettingsAssumption, Zenon
  <2>2. /\ Len(SecretSpecs(u)) = Len(Secrets[u]) /\ DOMAIN SecretSpecs(u) = DOMAIN Secrets[u]
        /\ \A j \in DOMAIN Secrets[u] : SecretSpecs(u)[j] = <<u, Secrets[u][j]>> /\ SecretSpecs(u)[j] \in Specs
        /\ SecretSpecs(u) \in Seq(Specs)
    <3>1. \A j \in DOMAIN Secrets[u] : <<u, Secrets[u][j]>> \in Specs
      BY <2>1, SettingsFacts, Zenon DEF Range
    <3> QED
      BY <2>1, <3>1 DEF SecretSpecs
  <2>3. Range(held') = Range(held) \union Range(SecretSpecs(u))
    BY <1>2, <1>3, <2>2, RangeOfConcat
  <2>4. Range(SecretSpecs(u)) = {s \in Specs : s[1] = u}
    <3>1. ASSUME NEW s \in Specs, s[1] = u
          PROVE  \E j \in DOMAIN Secrets[u] : s = <<u, Secrets[u][j]>>
      <4>1. PICK w \in DOMAIN Secrets : \E x \in Range(Secrets[w]) : s = <<w, x>>
        BY <3>1, SettingsFacts, Zenon
      <4>2. w = u
        BY <3>1, <4>1
      <4> QED
        BY <4>1, <4>2, Zenon DEF Range
    <3>2. \A j \in DOMAIN SecretSpecs(u) : SecretSpecs(u)[j] \in Specs /\ SecretSpecs(u)[j][1] = u
      BY <2>2
    <3>3. ASSUME NEW s \in Specs, s[1] = u
          PROVE  s \in Range(SecretSpecs(u))
      <4>1. PICK j \in DOMAIN Secrets[u] : s = <<u, Secrets[u][j]>>
        BY <3>1, <3>3, Zenon
      <4>2. j \in DOMAIN SecretSpecs(u) /\ s = SecretSpecs(u)[j]
        BY <2>2, <4>1, Zenon
      <4> QED
        BY <4>2, Zenon DEF Range
    <3>4. ASSUME NEW s \in Range(SecretSpecs(u))
          PROVE  s \in Specs /\ s[1] = u
      BY <3>2, Zenon DEF Range
    <3> QED
      BY <3>3, <3>4, Zenon
  <2>5. held' \in Seq(Specs)
    BY <1>2, <1>3, <2>2, RangeOfConcat
  <2> QED
    BY <1>2, <1>3, <2>3, <2>4, <2>5, Zenon
<1>4. ASSUME users = {}, status' = "fetching", UNCHANGED <<held, users>>
      PROVE  SettingsSound'
  <2>1. mem' \in Seq({"secret", "zero"}) /\ Len(mem') <= Len(held') /\ DOMAIN mem' = {}
    BY <1>1, <1>2, <1>4
  <2> QED
    BY <1>1, <1>2, <1>4, <2>1, Zenon DEF SettingsSound, SettingsTypeOK, SavedLoadsAgain, FailedLoadKeeps,
                                         TokensAllOrNone, LoadsBack, FetchedSoFar
<1>5. ASSUME NEW u \in users, held' = held \o SecretSpecs(u), users' = users \ {u}, UNCHANGED status
      PROVE  SettingsSound'
  BY <1>1, <1>2, <1>3, <1>5, Zenon DEF SettingsSound, SettingsTypeOK, SavedLoadsAgain, FailedLoadKeeps,
                                      TokensAllOrNone, LoadsBack, FetchedSoFar
<1> QED
  BY <1>4, <1>5, Zenon DEF UnmarshalSecrets

\* One token more is fetched, or all are, or all are cleared.
LEMMA FetchTokenKeeps ==
  ASSUME SettingsSound, FetchToken
  PROVE  SettingsSound'
<1>1. /\ topic = "tokens" /\ topic \notin Lists /\ topic' = topic /\ topic' \notin Lists
      /\ status = "fetching" /\ UNCHANGED <<users, held, keys>> /\ users = {}
      /\ held \in Seq(Specs) /\ mem \in Seq({"secret", "zero"}) /\ Len(mem) <= Len(held)
      /\ \A i \in DOMAIN mem : mem[i] = "secret" /\ held[i] \in keys
  BY SettingsFacts, Zenon DEF FetchToken, SettingsSound, SettingsTypeOK, FetchedSoFar
<1>2. Range(held) = Specs
  BY <1>1, Zenon DEF SettingsSound, FetchedSoFar
<1>3. CASE Len(mem) + 1 > Len(held)
  <2>1. status' = "loaded" /\ UNCHANGED mem
    BY <1>3, Zenon DEF FetchToken
  <2>2. Len(mem) = Len(held) /\ DOMAIN mem = DOMAIN held
    BY <1>1, <1>3
  <2>3. Specs \subseteq keys
    BY <1>1, <1>2, <2>2, Zenon DEF Range
  <2> QED
    BY <1>1, <1>2, <2>1, <2>2, <2>3, Zenon DEF SettingsSound, SettingsTypeOK, SavedLoadsAgain, FailedLoadKeeps,
                                               TokensAllOrNone, LoadsBack, FetchedSoFar
<1>4. CASE ~ (Len(mem) + 1 > Len(held)) /\ held[Len(mem) + 1] \in keys
  <2>1. mem' = Append(mem, "secret") /\ UNCHANGED status
    BY <1>4, Zenon DEF FetchToken
  <2>2. /\ mem' \in Seq({"secret", "zero"}) /\ Len(mem') <= Len(held')
        /\ \A i \in DOMAIN mem' : mem'[i] = "secret" /\ held'[i] \in keys'
    BY <1>1, <1>4, <2>1
  <2> QED
    BY <1>1, <1>2, <2>1, <2>2, Zenon DEF SettingsSound, SettingsTypeOK, SavedLoadsAgain, FailedLoadKeeps,
                                         TokensAllOrNone, LoadsBack, FetchedSoFar
<1>5. CASE ~ (Len(mem) + 1 > Len(held)) /\ held[Len(mem) + 1] \notin keys
  <2>1. mem' = Cleared(mem) /\ status' = "failed"
    BY <1>5, Zenon DEF FetchToken
  <2>2. mem' \in Seq({"secret", "zero"}) /\ \A i \in DOMAIN mem' : mem'[i] = "zero"
    BY <1>1, <2>1 DEF Cleared
  <2>3. Len(mem) + 1 \in DOMAIN held
    BY <1>1, <1>5
  <2>4. ~ (Specs \subseteq keys)
    BY <1>2, <1>5, <2>3, Zenon DEF Range
  <2> QED
    BY <1>1, <1>2, <2>1, <2>2, <2>4, Zenon DEF SettingsSound, SettingsTypeOK, SavedLoadsAgain, FailedLoadKeeps,
                                               TokensAllOrNone, LoadsBack, FetchedSoFar
<1> QED
  BY <1>3, <1>4, <1>5, Zenon

LEMMA SettingsStep == SettingsSound /\ [SettingsNext]_settingsVars => SettingsSound'
<1> SUFFICES ASSUME SettingsSound, [SettingsNext]_settingsVars
             PROVE  SettingsSound'
  BY Zenon
<1>1. ASSUME NEW ts \in (IF topic \in Lists THEN Texts[topic] ELSE {}), EditFile(ts)
      PROVE  SettingsSound'
  <2>1. topic \in Lists /\ ts \in Texts[topic]
    BY <1>1, Zenon
  <2> QED
    BY <1>1, <2>1, EditKeeps, Zenon
<1>2. CASE LoadEntry
  <2>1. topic \in Lists
    BY <1>2, SettingsFacts, Zenon DEF LoadEntry, SettingsSound, SettingsTypeOK
  <2> QED
    BY <1>2, <2>1, ParseKeeps, FailKeeps, EndKeeps, Zenon DEF LoadEntry
<1>3. CASE UNCHANGED settingsVars
  BY <1>3, Zenon DEF settingsVars, SettingsSound, SettingsTypeOK, SavedLoadsAgain, FailedLoadKeeps,
                     TokensAllOrNone, LoadsBack, FetchedSoFar
<1> QED
  BY <1>1, <1>2, <1>3, LoadKeeps, SaveKeeps, UnmarshalSecretsKeeps, FetchTokenKeeps, Zenon DEF SettingsNext

\* Loading, saving and fetching are all or nothing, whatever the files, the lists
\* held before, the users, their secrets and the keys of the context: a file with an
\* error leaves a list as it was, a saved list loads again as the same list unless it
\* holds SSL 3.0, and TokensFromContext returns every token or clears those it had.
THEOREM SettingsAreSound == SettingsSpec => []SettingsSound
BY SettingsStart, SettingsStep, PTL DEF SettingsSpec
=============================================================================
