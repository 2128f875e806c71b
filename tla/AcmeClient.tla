----------------------------- MODULE AcmeClient -----------------------------
(***************************************************************************)
(* The ACME client (webauth/acme/acme_client.go): one goroutine per host   *)
(* asks the certificate manager for the host's certificate periodically,   *)
(* and sooner after a failure, until the client is stopped.                *)
(***************************************************************************)
EXTENDS Naturals

CONSTANTS
  Hosts,     \* the hosts given to Start
  Stops,     \* the calls of the function Start returns
  Outcomes   \* what the manager may answer

ASSUME AcmeClientAssumption == Outcomes \subseteq {"ok", "expired", "failed"}

VARIABLES
  ctxDone,   \* the refresh context is done
  pc,        \* pc[h]: "refresh", "retry", "wait" or "ended"
  outcome,   \* history: the outcome of h's latest refresh
  metric,    \* history: the status with which that refresh was counted
  group,     \* the goroutine that waits for the others: "wait", "send", "ended"
  errCh,     \* the number of errors in errCh, which holds at most one
  stop       \* stop[s]: "idle", "waiting", or what the call returned

vars == <<ctxDone, pc, outcome, metric, group, errCh, stop>>

\* Start.
Init ==
  /\ ctxDone \in BOOLEAN
  /\ pc = [h \in Hosts |-> "refresh"]
  /\ outcome = [h \in Hosts |-> "none"]
  /\ metric = [h \in Hosts |-> "none"]
  /\ group = "wait"
  /\ errCh = 0
  /\ stop = [s \in Stops |-> "idle"]

-----------------------------------------------------------------------------
(***************************************************************************)
(* The goroutine of a host.                                                *)
(***************************************************************************)
Host(h, from, to) ==
  /\ pc[h] = from
  /\ pc' = [pc EXCEPT ![h] = to]

\* Mutant: a failed refresh ends the host's loop.
RefreshGivesUp(h, o) ==
  /\ Host(h, "refresh", IF o = "failed" THEN "ended" ELSE "wait")
  /\ outcome' = [outcome EXCEPT ![h] = o]
  /\ metric' = [metric EXCEPT ![h] = IF o = "expired" THEN "none" ELSE o]
  /\ UNCHANGED <<ctxDone, group, errCh, stop>>

\* refreshHost, whose call of the manager heeds no context.  An expired
\* certificate is no error and is not counted.
RefreshHost(h, o) ==
  /\ Host(h, "refresh", IF o = "failed" THEN "retry" ELSE "wait")
  /\ outcome' = [outcome EXCEPT ![h] = o]
  /\ metric' = [metric EXCEPT ![h] = IF o = "expired" THEN "none" ELSE o]
  /\ UNCHANGED <<ctxDone, group, errCh, stop>>

\* The selects of getCertificate and of refresh: the ticker fires, or the context
\* is done.
Tick(h) ==
  /\ \E from \in {"retry", "wait"} : Host(h, from, "refresh")
  /\ UNCHANGED <<ctxDone, outcome, metric, group, errCh, stop>>

RetryDone(h) ==
  /\ ctxDone
  /\ Host(h, "retry", "wait")
  /\ UNCHANGED <<ctxDone, outcome, metric, group, errCh, stop>>

WaitDone(h) ==
  /\ ctxDone
  /\ Host(h, "wait", "ended")
  /\ UNCHANGED <<ctxDone, outcome, metric, group, errCh, stop>>

-----------------------------------------------------------------------------
(***************************************************************************)
(* The end.                                                                *)
(***************************************************************************)

\* Mutant: the error is sent as soon as one of the goroutines has ended.
GroupWaitAny ==
  /\ group = "wait"
  /\ Hosts # {} => \E h \in Hosts : pc[h] = "ended"
  /\ group' = "send"
  /\ UNCHANGED <<ctxDone, pc, outcome, metric, errCh, stop>>

\* grp.Wait, and the send to errCh.
GroupWait ==
  /\ group = "wait"
  /\ \A h \in Hosts : pc[h] = "ended"
  /\ group' = "send"
  /\ UNCHANGED <<ctxDone, pc, outcome, metric, errCh, stop>>

\* Mutant: errCh has no buffer and the send needs somebody who receives.
SendUnbuffered ==
  /\ group = "send"
  /\ \E s \in Stops : /\ stop[s] = "waiting"
                      /\ stop' = [stop EXCEPT ![s] = "nil"]
  /\ group' = "ended"
  /\ UNCHANGED <<ctxDone, pc, outcome, metric, errCh>>

Send ==
  /\ group = "send"
  /\ errCh = 0
  /\ errCh' = 1
  /\ group' = "ended"
  /\ UNCHANGED <<ctxDone, pc, outcome, metric, stop>>

\* stop: cancel, then wait for errCh or for five seconds.
StopCalled(s) ==
  /\ stop[s] = "idle"
  /\ stop' = [stop EXCEPT ![s] = "waiting"]
  /\ ctxDone' = TRUE
  /\ UNCHANGED <<pc, outcome, metric, group, errCh>>

StopReceives(s) ==
  /\ stop[s] = "waiting"
  /\ errCh > 0
  /\ errCh' = errCh - 1
  /\ stop' = [stop EXCEPT ![s] = "nil"]
  /\ UNCHANGED <<ctxDone, pc, outcome, metric, group>>

StopTimesOut(s) ==
  /\ stop[s] = "waiting"
  /\ stop' = [stop EXCEPT ![s] = "timeout"]
  /\ UNCHANGED <<ctxDone, pc, outcome, metric, group, errCh>>

\* The context given to Start ends.
CancelParent ==
  /\ ~ctxDone
  /\ ctxDone' = TRUE
  /\ UNCHANGED <<pc, outcome, metric, group, errCh, stop>>

Refresh(h) == \E o \in Outcomes : RefreshHost(h, o)
HostStep(h) == Refresh(h) \/ Tick(h) \/ RetryDone(h) \/ WaitDone(h)

Next ==
  \/ \E h \in Hosts : HostStep(h)
  \/ GroupWait
  \/ Send
  \/ \E s \in Stops : StopCalled(s) \/ StopReceives(s) \/ StopTimesOut(s)
  \/ CancelParent

Spec == Init /\ [][Next]_vars

-----------------------------------------------------------------------------
(***************************************************************************)
(* Properties.                                                             *)
(***************************************************************************)

\* The type of every variable of the client (acme_client.go).
TypeOK ==
  /\ ctxDone \in BOOLEAN
  /\ pc \in [Hosts -> {"refresh", "retry", "wait", "ended"}]
  /\ outcome \in [Hosts -> {"none", "ok", "expired", "failed"}]
  /\ metric \in [Hosts -> {"none", "ok", "failed"}]
  /\ group \in {"wait", "send", "ended"}
  /\ errCh \in {0, 1}
  /\ stop \in [Stops -> {"idle", "waiting", "nil", "timeout"}]

\* When stop returns nil nothing of the client runs any more, although it was
\* cancelled in the middle of refreshes that do not heed the context.
StoppedMeansEnded ==
  \A s \in Stops : stop[s] = "nil" => group = "ended" /\ \A h \in Hosts : pc[h] = "ended"

\* There is one answer on errCh, so only one of several calls of stop gets it; the
\* others report a timeout although the client has ended.
OneStopIsTold ==
  \A s, t \in Stops : stop[s] = "nil" /\ stop[t] = "nil" => s = t

\* What makes the two inductive: the answer is sent once, after every goroutine has
\* ended, and is either on errCh or with the one call of stop that took it.
ClientInv ==
  /\ TypeOK
  /\ group # "wait" => \A h \in Hosts : pc[h] = "ended"
  /\ errCh = 1 => group = "ended"
  /\ \A s \in Stops : stop[s] = "nil" => group = "ended" /\ errCh = 0
  /\ OneStopIsTold

\* A host's certificate is asked for again and again until the client is told to
\* stop, whatever the manager answered before, for this host and for the others.
KeepsRefreshing == \A h \in Hosts : []<>(pc[h] = "refresh" \/ ctxDone)

\* Once the context is done all goroutines end, also if no call of stop waits for
\* them or the one that did has given up.
EndsWhenDone == ctxDone ~> group = "ended"

\* What the documentation says of WithRefreshMetric: the metric is incremented with
\* the outcome of each refresh.
EveryOutcomeCounted == \A h \in Hosts : metric[h] = outcome[h]

=============================================================================
