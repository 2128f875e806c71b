---------------------------- MODULE MCAcmeClient ----------------------------
(***************************************************************************)
(* Instances of AcmeClient, of the commands and of the certificate store   *)
(* for TLC.  A behaviour is one of a single part: the client alone, a      *)
(* command, which may be the one that runs the client, or the store; the   *)
(* other variables stay as they start.  Of the calls of stop the client    *)
(* alone gets all but the certificate manager's.                           *)
(***************************************************************************)
EXTENDS Commands, CertStore

VARIABLE part

acmeVars == <<part, vars, commandVars, storeVars>>

\* A manager that saves the account key under its default alias shares the directory
\* with a command that revokes, another manager, or a process without alias that
\* allows RSA keys.
CONSTANTS p1, p2
Store(readonly, alias, rsa) == [readonly |-> readonly, alias |-> alias, rsa |-> rsa]
Manager == Store(FALSE, "account.key", FALSE)
Team(secrets, other) == NewCertStore(secrets, [p \in {p1, p2} |-> IF p = p1 THEN Manager ELSE other])
Teams ==
  {Team(s, o) : s \in BOOLEAN, o \in {Manager, Store(TRUE, "account.key", FALSE), Store(FALSE, "", TRUE)}}

Idle == CommandInit /\ cmd = "manage"
NoStore == StoreInit /\ fleet = Team(TRUE, Manager)

AcmeInit ==
  \/ part = "client" /\ Init /\ Idle /\ NoStore
  \/ part = "command" /\ Init /\ ~ ctxDone /\ CommandInit /\ NoStore
  \/ part = "store" /\ Init /\ ~ ctxDone /\ Idle /\ StoreInit

AcmeNext ==
  /\ \/ part = "client" /\ Next /\ UNCHANGED <<stop[MainStop], commandVars, storeVars>>
     \/ part = "command" /\ CommandNext /\ UNCHANGED storeVars
     \/ part = "store" /\ StoreNext /\ UNCHANGED <<vars, commandVars>>
  /\ UNCHANGED part

AcmeSpec == AcmeInit /\ [][AcmeNext]_acmeVars

\* Goroutines run, tickers and timers fire, the manager answers; a select with two ready
\* cases picks one at random, so that neither is passed over for ever.  A command's steps
\* are taken, and a server whose context is done ends.
FairAcmeSpec ==
  /\ AcmeSpec
  /\ \A h \in Hosts :
       /\ WF_acmeVars((part = "client" \/ (part = "command" /\ clientUp)) /\ HostStep(h) /\ UNCHANGED <<part, commandVars, storeVars>>)
       /\ SF_acmeVars((part = "client" \/ (part = "command" /\ clientUp)) /\ RetryDone(h) /\ UNCHANGED <<part, commandVars, storeVars>>)
       /\ SF_acmeVars((part = "client" \/ (part = "command" /\ clientUp)) /\ WaitDone(h) /\ UNCHANGED <<part, commandVars, storeVars>>)
  /\ WF_acmeVars((part = "client" \/ (part = "command" /\ clientUp)) /\ (GroupWait \/ Send) /\ UNCHANGED <<part, commandVars, storeVars>>)
  /\ \A s \in Stops : WF_acmeVars(part = "client" /\ (StopReceives(s) \/ StopTimesOut(s)) /\ UNCHANGED <<part, commandVars, storeVars>>)
  /\ WF_acmeVars(part = "command" /\ CommandStep /\ UNCHANGED <<part, storeVars>>)
  /\ WF_acmeVars(part = "command" /\ ServersStop /\ UNCHANGED <<part, storeVars>>)
=============================================================================
