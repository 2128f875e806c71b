---------------------------- MODULE ProcessProofs ---------------------------
(***************************************************************************)
(* The safety of the functions of shutdown.go: of WaitForServers and       *)
(* WaitForURLs, for any set of addresses, and of ServeWithShutdown and     *)
(* ServeTLSWithShutdown, for any set of requests and any configuration;    *)
(* and of the certificate store, for any processes that share it, any      *)
(* names and calls, wherever they fail or die.                             *)
(***************************************************************************)
EXTENDS WaitFor, ServeShutdown, CertStore, TLAPS

\* A goroutine that returns an error preserves the invariant, if the error is that of
\* the group's context or no context error at all.
LEMMA FailPreserves ==
  ASSUME WaitInv, NEW a \in Addrs, NEW from \in {"loop", "pinging", "select"}, NEW e \in PingErrors,
         e \in ContextErrors => e = ctxErr, Fail(a, from, e)
  PROVE  WaitInv'
<1> USE DEF WaitInv, WaitTypeOK, Fail, Move, Ended, PingErrors, ContextErrors
<1>1. WaitTypeOK'
  BY Zenon
<1>2. returned = "none"
  BY Zenon
<1>3. QED
  BY <1>1, <1>2, Zenon

\* A goroutine that goes on preserves the invariant.
LEMMA MovePreserves ==
  ASSUME WaitInv, NEW a \in Addrs, NEW from \in {"loop", "pinging", "select"},
         NEW to \in {"loop", "pinging", "select"}, Move(a, from, to),
         UNCHANGED <<urls, bad, up, answered, parent, ctxErr, err, returned>>
  PROVE  WaitInv'
  BY Zenon DEF WaitInv, WaitTypeOK, Move, Ended, PingErrors, ContextErrors

\* Every step of a goroutine preserves the invariant.
LEMMA PingerPreserves ==
  ASSUME WaitInv, NEW a \in Addrs, Pinger(a)
  PROVE  WaitInv'
<1>1. CASE Begin(a)
  BY <1>1, MovePreserves, Zenon DEF Begin
<1>2. CASE BadURL(a)
  BY <1>2, FailPreserves, Zenon DEF BadURL, PingErrors, ContextErrors
<1>3. CASE Answered(a)
  BY <1>3, Zenon DEF Answered, WaitInv, WaitTypeOK, Move, Ended, PingErrors, ContextErrors
<1>4. CASE Unavailable(a)
  BY <1>4, MovePreserves, Zenon DEF Unavailable
<1>5. CASE Cancelled(a)
  BY <1>5, FailPreserves, Zenon DEF Cancelled, PingErrors, ContextErrors
<1>6. CASE SelectDone(a)
  <2>1. ctxErr \in ContextErrors
    BY <1>6, Zenon DEF SelectDone, WaitInv, WaitTypeOK
  <2>2. QED
    BY <1>6, <2>1, FailPreserves, Zenon DEF SelectDone, PingErrors
<1>7. CASE SelectTick(a)
  BY <1>7, MovePreserves, Zenon DEF SelectTick
<1>8. QED
  BY <1>1, <1>2, <1>3, <1>4, <1>5, <1>6, <1>7, Zenon DEF Pinger

\* The invariant holds throughout: the errgroup keeps the first error, and with it
\* the cause, in whatever order the goroutines of WaitForURLs and contexts end.
THEOREM WaitInvariance == WaitSpec => []WaitInv
<1>1. WaitInit => WaitInv
  BY SMTT(30) DEF WaitInit, WaitInv, WaitTypeOK, Ended, PingErrors, ContextErrors
<1>2. WaitInv /\ [WaitNext]_waitVars => WaitInv'
  <2> SUFFICES ASSUME WaitInv, [WaitNext]_waitVars
               PROVE  WaitInv'
    BY Zenon
  <2> USE DEF WaitInv, WaitTypeOK, Ended, PingErrors, ContextErrors
  <2>1. ASSUME NEW a \in Addrs, Pinger(a)
        PROVE  WaitInv'
    BY <2>1, PingerPreserves, Zenon
  <2>2. ASSUME NEW a \in Addrs, ComesUp(a) \/ GoesDown(a)
        PROVE  WaitInv'
    BY <2>2, Zenon DEF ComesUp, GoesDown
  <2>3. CASE Wait
    BY <2>3, Zenon DEF Wait
  <2>4. ASSUME NEW e \in ContextErrors, ParentDone(e)
        PROVE  WaitInv'
    BY <2>4, Zenon DEF ParentDone
  <2>5. CASE UNCHANGED waitVars
    BY <2>5, Zenon DEF waitVars
  <2>6. QED
    BY <2>1, <2>2, <2>3, <2>4, <2>5, Zenon DEF WaitNext
<1>3. QED
  BY <1>1, <1>2, PTL DEF WaitSpec

\* When WaitForServers or WaitForURLs returns nil every address has answered.
THEOREM NilMeansSeen == WaitSpec => []NilMeansAllSeen
<1>1. WaitInv => NilMeansAllSeen
  BY Zenon DEF WaitInv, WaitTypeOK, NilMeansAllSeen, Ended
<1>2. QED
  BY <1>1, WaitInvariance, PTL

\* A context error that is returned is that of the caller's own context.
THEOREM CauseIsReported == WaitSpec => []CauseReported
<1>1. WaitInv => CauseReported
  BY Zenon DEF WaitInv, CauseReported, ContextErrors
<1>2. QED
  BY <1>1, WaitInvariance, PTL

\* No goroutine is left behind when the call returns.
THEOREM NoGoroutineLeft == WaitSpec => []NoneLeft
<1>1. WaitInv => NoneLeft
  BY ZenonT(30) DEF WaitInv, NoneLeft
<1>2. QED
  BY <1>1, WaitInvariance, PTL

-----------------------------------------------------------------------------
USE DEF TypeOK, DrainedWhenReturned, ErrorNotMasked, Errors

\* The server accepts and finishes requests, and its goroutine serves, fails, notices a
\* shutdown and reports, without disturbing what the call relies on.
LEMMA ServerPreserves ==
  ASSUME ShutdownInv,
         \/ Goroutine \/ OtherShutdown
         \/ \E e \in {"canceled", "failed"} : ServeFails(e)
         \/ \E r \in Reqs : Accept(r) \/ Finish(r)
  PROVE  ShutdownInv'
<1> USE DEF ShutdownInv
<1>1. CASE Serve
  BY <1>1 DEF Serve
<1>2. CASE ServeClosed
  BY <1>2, ZenonT(30) DEF ServeClosed
<1>3. CASE Report
  BY <1>3 DEF Report
<1>4. CASE OtherShutdown
  BY <1>4 DEF OtherShutdown
<1>5. ASSUME NEW e \in {"canceled", "failed"}, ServeFails(e)
      PROVE  ShutdownInv'
  BY <1>5, ZenonT(30) DEF ServeFails
<1>6. ASSUME NEW r \in Reqs, Accept(r)
      PROVE  ShutdownInv'
  <2>1. ~ closing
    BY <1>6, Zenon DEF Accept
  <2>2. QED
    BY <1>6, <2>1, Zenon DEF Accept
<1>7. ASSUME NEW r \in Reqs, Finish(r)
      PROVE  ShutdownInv'
  BY <1>7 DEF Finish
<1>8. QED
  BY <1>1, <1>2, <1>3, <1>4, <1>5, <1>6, <1>7, ZenonT(30) DEF Goroutine

\* Every step of the call itself, from its first select to its return, preserves the
\* invariant.
LEMMA CallerPreserves ==
  ASSUME ShutdownInv, Caller
  PROVE  ShutdownInv'
<1> USE DEF ShutdownInv, Return
<1>1. CASE Start
  BY <1>1, Zenon DEF Start
<1>2. CASE ServerStopped
  <2>1. PICK e \in chan : Return(e)
    BY <1>2, Zenon DEF ServerStopped
  <2>2. e = failure /\ e \in {"nil", "canceled", "failed"} /\ serving = "ended"
    BY <2>1, Zenon
  <2>3. QED
    BY <1>2, <2>1, <2>2, Zenon DEF ServerStopped
<1>3. CASE ShutdownBegins
  BY <1>3, Zenon DEF ShutdownBegins
<1>4. CASE ShutdownChecks
  BY <1>4 DEF ShutdownChecks
<1>5. CASE ShutdownDrained
  BY <1>5 DEF ShutdownDrained
<1>6. CASE ShutdownFails
  BY <1>6, Zenon DEF ShutdownFails
<1>7. CASE ServerReported
  <2>1. PICK e \in chan : Return(IF e = "canceled" THEN "nil" ELSE e)
    BY <1>7, Zenon DEF ServerReported
  <2>2. e = failure /\ e \in {"nil", "canceled", "failed"} /\ serving = "ended"
    BY <2>1, Zenon
  <2>3. QED
    BY <1>7, <2>1, <2>2, Zenon DEF ServerReported
<1>8. CASE GraceOver
  BY <1>8, Zenon DEF GraceOver
<1>9. QED
  BY <1>1, <1>2, <1>3, <1>4, <1>5, <1>6, <1>7, <1>8, ZenonT(30) DEF Caller

\* The invariant holds throughout, however failures, the cancellation, another
\* shutdown and the end of the grace period race each other.
THEOREM ShutdownInvariance == Spec => []ShutdownInv
<1>1. Init => ShutdownInv
  BY ShutdownAssumption, ZenonT(30) DEF Init, ShutdownInv
<1>2. ShutdownInv /\ [Next]_vars => ShutdownInv'
  <2> SUFFICES ASSUME ShutdownInv, [Next]_vars
               PROVE  ShutdownInv'
    BY Zenon
  <2>1. CASE CancelContext
    BY <2>1 DEF CancelContext, ShutdownInv
  <2>2. CASE GraceExpires
    BY <2>2 DEF GraceExpires, ShutdownInv
  <2>3. CASE UNCHANGED vars
    BY <2>3 DEF vars, ShutdownInv
  <2>4. QED
    BY <2>1, <2>2, <2>3, ServerPreserves, CallerPreserves, Zenon DEF Next
<1>3. QED
  BY <1>1, <1>2, PTL DEF Spec

\* When a cancelled call returns nil or runs out of time, no request is being served.
THEOREM Drained == Spec => []DrainedWhenReturned
<1>1. ShutdownInv => DrainedWhenReturned
  BY Zenon DEF ShutdownInv
<1>2. QED
  BY <1>1, ShutdownInvariance, PTL

\* The error of Serve is the one that is returned, and nil hides none.
THEOREM NoErrorMasked == Spec => []ErrorNotMasked
<1>1. ShutdownInv => ErrorNotMasked
  BY Zenon DEF ShutdownInv
<1>2. QED
  BY <1>1, ShutdownInvariance, PTL

\* Once srv.Shutdown has begun, in this call or elsewhere, no request is accepted.
THEOREM NothingNew == Spec => NothingNewAfterShutdown
<1>1. ShutdownInv /\ [Next]_vars => [closing => active' \subseteq active]_vars
  <2> SUFFICES ASSUME ShutdownInv, Next, closing
               PROVE  active' \subseteq active
    BY Zenon
  <2>1. ASSUME NEW r \in Reqs, Accept(r)
        PROVE  FALSE
    BY <2>1, Zenon DEF Accept, ShutdownInv
  <2>2. QED
    BY <2>1, ZenonT(30) DEF Next, Goroutine, Caller, Serve, ServeClosed, Report, Start, ServerStopped,
       ShutdownBegins, ShutdownChecks, ShutdownDrained, ShutdownFails, ServerReported, GraceOver,
       CancelContext, GraceExpires, OtherShutdown, ServeFails, Finish
<1>2. QED
  BY <1>1, ShutdownInvariance, PTL DEF Spec, NothingNewAfterShutdown
-----------------------------------------------------------------------------
(* The certificate store.                                                  *)

\* Where a name is kept, and what it stands for.
LEMMA Places ==
  ASSUME fleet \in Fleets, NEW p \in Procs, NEW n \in Names
  PROVE  /\ Opts(p).alias \in Aliases \union {""} /\ Opts(p).rsa \in BOOLEAN
         /\ UseBackingStore(p, n).name \in StoreFiles /\ UseBackingStore(p, n).backing \in BOOLEAN
         /\ n \in StoreFiles /\ Entry(p, n) \in StoreEntries
         /\ UseBackingStore(p, n).name # n => n \in AccountNames
         /\ ~ UseBackingStore(p, n).backing => UseBackingStore(p, n).name = n /\ IsLocalName(n, Opts(p).rsa)
<1>1. fleet.options \in [Procs -> [readonly : BOOLEAN, alias : Aliases \union {""}, rsa : BOOLEAN]]
  BY StoreAssumption, ZenonT(30)
<1>2. Opts(p).alias \in Aliases \union {""} /\ Opts(p).rsa \in BOOLEAN
  BY <1>1, ZenonT(30) DEF Opts
<1>3. QED
  BY <1>2, ZenonT(30) DEF UseBackingStore, Entry, StoreEntries, StoreFiles, Names, IsLocalName, IsAcmeAccountKey

\* Names that stand for the same are kept in the same place, and the others are not.
LEMMA SamePlace ==
  ASSUME fleet \in Fleets, NEW p \in Procs, NEW m \in Names, NEW q \in Procs, NEW n \in Names
  PROVE  Entry(p, m) = Entry(q, n)
           <=> /\ UseBackingStore(p, m).name = UseBackingStore(q, n).name
               /\ UseBackingStore(p, m).backing <=> UseBackingStore(q, n).backing
<1>1. Opts(p).alias \in Aliases \union {""} /\ Opts(q).alias \in Aliases \union {""}
  BY Places, ZenonT(30)
<1>2. \A a \in Aliases : a \in Names => a \in AccountNames
  BY StoreAssumption, ZenonT(30) DEF Names
<1>3. \A a \in AccountNames : a \notin {"host+token", "http-01", "cert+rsa"}
  BY Zenon DEF AccountNames
<1>4. QED
  BY <1>1, <1>2, <1>3, ZenonT(30) DEF UseBackingStore, Entry, IsLocalName, IsAcmeAccountKey

\* Where names are kept depends on the options only.
LEMMA PlacesFrame ==
  ASSUME UNCHANGED fleet, NEW p, NEW n
  PROVE  /\ Opts(p)' = Opts(p) /\ UseBackingStore(p, n)' = UseBackingStore(p, n)
         /\ Entry(p, n)' = Entry(p, n)
  BY Zenon DEF Opts, UseBackingStore, Entry, IsLocalName, IsAcmeAccountKey

\* A process goes on to another call.
LEMMA CallChanges ==
  ASSUME StoreTypeOK, UNCHANGED fleet, calls' \in Nat, calls <= calls', marred \subseteq marred',
         NEW p \in Procs, NEW c \in Call, CallAllowed(p, c)', call' = [call EXCEPT ![p] = c]
  PROVE  call' \in [Procs -> Call] /\ \A q \in Procs : CallAllowed(q, call[q])'
<1>1. call' \in [Procs -> Call]
  BY Zenon DEF StoreTypeOK
<1>2. ASSUME NEW q \in Procs
      PROVE  CallAllowed(q, call[q])'
  <2>1. CASE q = p
    BY <2>1, Zenon DEF StoreTypeOK
  <2>2. CASE q # p
    <3>1. call'[q] = call[q] /\ call[q] \in Call /\ CallAllowed(q, call[q])
      BY <2>2, Zenon DEF StoreTypeOK
    <3>2. call[q].value <= calls => call[q].value <= calls'
      BY <3>1 DEF StoreTypeOK, Call
    <3>3. QED
      BY <3>1, <3>2, PlacesFrame, Zenon DEF CallAllowed
  <2>3. QED
    BY <2>1, <2>2, Zenon
<1>3. QED
  BY <1>1, <1>2, Zenon

\* The files stay as they are.
LEMMA FilesFrame ==
  ASSUME StoreSound, UNCHANGED <<fleet, local, backing, torn, latest, marred>>, calls' \in Nat, calls <= calls'
  PROVE  /\ StoreIsLatest' /\ PrivateStaysLocal'
         /\ local' \in [StoreFiles -> 0..calls'] /\ backing' \in [StoreFiles -> 0..calls'] /\ latest' \in [StoreEntries -> 0..calls']
<1>1. 0..calls \subseteq 0..calls'
  BY SMTT(30) DEF StoreSound, StoreTypeOK
<1>2. StoreIsLatest'
  BY PlacesFrame DEF StoreSound, StoreIsLatest, Found
<1>3. PrivateStaysLocal'
  BY PlacesFrame, ZenonT(30) DEF StoreSound, PrivateStaysLocal, IsLocalName, IsAcmeAccountKey
<1>4. QED
  BY <1>1, <1>2, <1>3, Zenon DEF StoreSound, StoreTypeOK

\* The files and what was read stay as they are: a call begins, fails or is cut short.
LEMMA CallOnly ==
  ASSUME StoreSound, UNCHANGED <<fleet, local, backing, torn, latest, marred, got>>, calls' \in Nat, calls <= calls',
         NEW p \in Procs, NEW c \in Call, CallAllowed(p, c)', call' = [call EXCEPT ![p] = c]
  PROVE  StoreSound'
<1>1. StoreIsLatest' /\ PrivateStaysLocal' /\ StoreTypeOK'
  BY FilesFrame, CallChanges, ZenonT(30) DEF StoreSound, StoreTypeOK
<1>2. WholeMeansLatest' /\ TornOnlyByOverlap'
  BY Zenon DEF StoreSound, WholeMeansLatest, TornOnlyByOverlap
<1>3. QED
  BY <1>1, <1>2, Zenon DEF StoreSound

\* A value is read: if whole, it is the one last put.
LEMMA ReadOnly ==
  ASSUME StoreSound, UNCHANGED <<fleet, local, backing, torn, calls, latest, marred>>,
         NEW p \in Procs, NEW c \in Call, CallAllowed(p, c)', call' = [call EXCEPT ![p] = c],
         NEW n \in Names, Reads(p, n)
  PROVE  StoreSound'
<1> DEFINE f == Found(p, n)
           g == [value |-> f.value, want |-> latest[Entry(p, n)], torn |-> f.torn, marred |-> f.marred]
<1>1. /\ f.value = latest[Entry(p, n)] /\ f.torn \in BOOLEAN /\ f.marred \in BOOLEAN
      /\ f.torn => f.marred /\ fleet.backing = "files"
  <2>1. f.value = latest[Entry(p, n)]
    BY Zenon DEF StoreSound, StoreIsLatest
  <2>2. f.torn \in BOOLEAN /\ f.marred \in BOOLEAN
    <3>1. CASE UseBackingStore(p, n).backing
      <4> DEFINE b == UseBackingStore(p, n)
      <4>1. f = [value |-> backing[b.name], torn |-> b.name \in torn, marred |-> b.name \in marred]
        BY <3>1, ZenonT(30) DEF Found
      <4> HIDE DEF b, f
      <4>2. f.torn = (b.name \in torn) /\ f.marred = (b.name \in marred)
        BY <4>1, ZenonT(30)
      <4>3. (b.name \in torn) \in BOOLEAN /\ (b.name \in marred) \in BOOLEAN
        OBVIOUS
      <4>4. QED
        BY <4>2, <4>3, Zenon
    <3>2. CASE ~ UseBackingStore(p, n).backing
      BY <3>2, ZenonT(30) DEF Found
    <3>3. QED
      BY <3>1, <3>2, Zenon
  <2>3. f.torn => f.marred /\ fleet.backing = "files"
    <3>1. torn \subseteq marred /\ (torn # {} => fleet.backing = "files")
      BY StoreAssumption, ZenonT(30) DEF StoreSound, StoreTypeOK
    <3>2. QED
      BY <3>1, ZenonT(30) DEF Found
  <2>4. QED
    BY <2>1, <2>2, <2>3, Zenon
<1>2. latest[Entry(p, n)] \in Nat
  <2>1. fleet \in Fleets /\ calls \in Nat /\ latest \in [StoreEntries -> 0..calls]
    BY Zenon DEF StoreSound, StoreTypeOK
  <2>2. Entry(p, n) \in StoreEntries
    BY <2>1, Places, ZenonT(30)
  <2>3. QED
    BY <2>1, <2>2
<1>3. got' = [got EXCEPT ![p] = g]
  BY Zenon DEF Reads
<1>4. g \in Reading /\ (~ g.torn => g.value = g.want) /\ (g.torn => g.marred /\ fleet.backing = "files")
  <2> HIDE DEF f
  <2>1. g.value = f.value /\ g.want = latest[Entry(p, n)] /\ g.torn = f.torn /\ g.marred = f.marred
    BY Zenon
  <2>2. f.value \in Nat
    BY <1>1, <1>2, Zenon
  <2>3. g \in Reading
    BY <1>1, <1>2, <2>2, ZenonT(30) DEF Reading
  <2>4. QED
    BY <1>1, <2>1, <2>3, ZenonT(30)
<1> HIDE DEF g
<1>5. got' \in [Procs -> Reading] /\ got'[p] = g /\ \A q \in Procs : q # p => got'[q] = got[q]
  BY <1>3, <1>4, Zenon DEF StoreSound, StoreTypeOK
<1>6. WholeMeansLatest' /\ TornOnlyByOverlap'
  BY <1>4, <1>5, Zenon DEF StoreSound, WholeMeansLatest, TornOnlyByOverlap
<1>7. StoreIsLatest' /\ PrivateStaysLocal' /\ StoreTypeOK'
  <2>1. calls' = calls /\ calls \in Nat
    BY Zenon DEF StoreSound, StoreTypeOK
  <2>2. call' \in [Procs -> Call] /\ \A q \in Procs : CallAllowed(q, call[q])'
    <3>1. StoreTypeOK /\ calls' \in Nat /\ calls <= calls' /\ marred \subseteq marred'
      BY <2>1 DEF StoreSound
    <3>2. QED
      BY <3>1, CallChanges, ZenonT(30)
  <2>3. StoreIsLatest' /\ PrivateStaysLocal'
    BY <2>1, FilesFrame, SMTT(30)
  <2>4. StoreTypeOK'
    BY <1>5, <2>1, <2>2, Zenon DEF StoreSound, StoreTypeOK
  <2>5. QED
    BY <2>3, <2>4, Zenon
<1>8. QED
  BY <1>6, <1>7, Zenon DEF StoreSound

\* The value a process finds is that of the place the name is kept in.
LEMMA FoundValue ==
  ASSUME NEW p, NEW n
  PROVE  LET b == UseBackingStore(p, n)
         IN  /\ Found(p, n).value = IF b.backing THEN backing[b.name] ELSE local[n]
             /\ (Found(p, n).value = IF b.backing THEN backing[b.name] ELSE local[n])'
<1>1. Found(p, n).value = IF UseBackingStore(p, n).backing THEN backing[UseBackingStore(p, n).name] ELSE local[n]
  BY SMTT(30) DEF Found
<1>2. (Found(p, n).value = IF UseBackingStore(p, n).backing THEN backing[UseBackingStore(p, n).name] ELSE local[n])'
  BY Zenon DEF Found
<1>3. QED
  BY <1>1, <1>2, ZenonT(30)

\* A value is put, or deleted, where all names of an entry are kept.
InPlace(shared, f, e) ==
  \A q \in Procs, n \in Names :
    Entry(q, n) = e <=> UseBackingStore(q, n).name = f /\ (UseBackingStore(q, n).backing <=> shared)

\* A write of one place that is recorded for the entry kept there keeps every entry the
\* latest, and what is private local.
LEMMA Written ==
  ASSUME StoreSound, UNCHANGED <<fleet, calls>>,
         NEW shared, NEW f \in StoreFiles, NEW e \in StoreEntries, NEW v \in 0..calls,
         shared => backing' = [backing EXCEPT ![f] = v] /\ UNCHANGED local,
         ~ shared => local' = [local EXCEPT ![f] = v] /\ UNCHANGED backing,
         latest' = [latest EXCEPT ![e] = v], InPlace(shared, f, e),
         shared /\ v # 0 /\ f \in Names /\ IsLocalName(f, TRUE) =>
           IsAcmeAccountKey(f) /\ \E p \in Procs : Opts(p).alias = f
  PROVE  /\ StoreIsLatest' /\ PrivateStaysLocal'
         /\ local' \in [StoreFiles -> 0..calls] /\ backing' \in [StoreFiles -> 0..calls] /\ latest' \in [StoreEntries -> 0..calls]
<1>1. /\ fleet \in Fleets /\ local \in [StoreFiles -> 0..calls] /\ backing \in [StoreFiles -> 0..calls]
      /\ latest \in [StoreEntries -> 0..calls]
  BY Zenon DEF StoreSound, StoreTypeOK
<1>2. local' \in [StoreFiles -> 0..calls] /\ backing' \in [StoreFiles -> 0..calls] /\ latest' \in [StoreEntries -> 0..calls]
  BY <1>1, Zenon
<1>3. ASSUME NEW q \in Procs, NEW n \in Names
      PROVE  Found(q, n)'.value = latest'[Entry(q, n)]
  <2> DEFINE b == UseBackingStore(q, n)
  <2>1. b.name \in StoreFiles /\ n \in StoreFiles /\ Entry(q, n) \in StoreEntries /\ (~ b.backing => b.name = n)
    BY <1>1, Places, ZenonT(30)
  <2>2. Found(q, n).value = (IF b.backing THEN backing[b.name] ELSE local[n])
        /\ Found(q, n)'.value = (IF b.backing THEN backing'[b.name] ELSE local'[n])
    <3>1. b' = b
      BY PlacesFrame, ZenonT(30)
    <3>2. /\ Found(q, n).value = IF b.backing THEN backing[b.name] ELSE local[n]
          /\ (Found(q, n).value = IF b.backing THEN backing[b.name] ELSE local[n])'
      BY FoundValue, ZenonT(30)
    <3>3. QED
      BY <3>1, <3>2, ZenonT(30)
  <2>3. Found(q, n).value = latest[Entry(q, n)]
    BY ZenonT(30) DEF StoreSound, StoreIsLatest
  <2>4. Entry(q, n) = e <=> b.name = f /\ (b.backing <=> shared)
    BY SMTT(30) DEF InPlace
  <2> HIDE DEF b
  <2>5. latest'[Entry(q, n)] = IF Entry(q, n) = e THEN v ELSE latest[Entry(q, n)]
    BY <1>1, <2>1, ZenonT(30)
  <2>6. CASE shared
    <3>1. backing'[b.name] = (IF b.name = f THEN v ELSE backing[b.name]) /\ local'[n] = local[n]
      BY <1>1, <2>1, <2>6, ZenonT(30)
    <3>2. QED
      BY <2>2, <2>3, <2>4, <2>5, <2>6, <3>1, ZenonT(30)
  <2>7. CASE ~ shared
    <3>1. local'[n] = (IF n = f THEN v ELSE local[n]) /\ backing'[b.name] = backing[b.name]
      BY <1>1, <2>1, <2>7, ZenonT(30)
    <3>2. QED
      BY <2>1, <2>2, <2>3, <2>4, <2>5, <2>7, <3>1, ZenonT(30)
  <2>8. QED
    BY <2>6, <2>7, ZenonT(30)
<1>4. StoreIsLatest'
  BY <1>3, PlacesFrame, SMTT(30) DEF StoreIsLatest
<1>5. PrivateStaysLocal'
  <2> SUFFICES ASSUME NEW n \in Names, IsLocalName(n, TRUE), backing'[n] # 0
               PROVE  IsAcmeAccountKey(n) /\ \E p \in Procs : Opts(p).alias = n
    BY PlacesFrame, Zenon DEF PrivateStaysLocal, IsLocalName, IsAcmeAccountKey
  <2>1. n \in StoreFiles
    BY Zenon DEF StoreFiles
  <2>2. CASE shared /\ n = f
    BY <1>1, <2>1, <2>2, Zenon
  <2>3. CASE ~ shared \/ n # f
    BY <1>1, <2>1, <2>3, ZenonT(30) DEF StoreSound, PrivateStaysLocal
  <2>4. QED
    BY <2>2, <2>3, Zenon
<1>6. QED
  BY <1>2, <1>4, <1>5, Zenon

\* Where a Put writes.
LEMMA PutPlace ==
  ASSUME fleet \in Fleets, NEW p \in Procs, NEW m \in Names
  PROVE  /\ InPlace(UseBackingStore(p, m).backing, UseBackingStore(p, m).name, Entry(p, m))
         /\ LET f == UseBackingStore(p, m).name
            IN  UseBackingStore(p, m).backing /\ f \in Names /\ IsLocalName(f, TRUE) =>
                  IsAcmeAccountKey(f) /\ \E q \in Procs : Opts(q).alias = f
<1>1. InPlace(UseBackingStore(p, m).backing, UseBackingStore(p, m).name, Entry(p, m))
  BY SamePlace, Zenon DEF InPlace
<1>2. \A a \in Aliases : a \in Names => a \in AccountNames
  BY StoreAssumption, ZenonT(30) DEF Names
<1>3. Opts(p).alias \in Aliases \union {""}
  BY Places, ZenonT(30)
<1>4. QED
  BY <1>1, <1>2, <1>3, ZenonT(30) DEF UseBackingStore, IsLocalName, IsAcmeAccountKey

\* A process without a call is allowed to have none.
LEMMA NoCallAllowed == NoCall \in Call /\ \A p \in Procs : CallAllowed(p, NoCall) /\ CallAllowed(p, NoCall)'
  BY Zenon DEF NoCall, Call, CallAllowed

\* The calls that read or write nothing.
LEMMA CallsKeep ==
  ASSUME StoreSound, NEW p \in Procs
  PROVE  /\ \A op \in {"get", "put", "delete"}, n \in StoreNames : BeginCall(p, op, n) => StoreSound'
         /\ \A op \in {"account", "revoke"} : BeginCall(p, op, "account+key") => StoreSound'
         /\ Fails(p) \/ Crash(p) => StoreSound'
<1>1. calls \in Nat
  BY SMTT(30) DEF StoreSound, StoreTypeOK
<1>2. ASSUME NEW op \in {"get", "put", "delete", "account", "revoke"}, NEW n \in Names, BeginCall(p, op, n)
      PROVE  StoreSound'
  <2>0. PICK c : c = [op |-> op, name |-> n, value |-> calls + 1, step |-> "begun", seen |-> 0, unlinked |-> FALSE]
    BY ZenonT(30)
  <2>1. calls' = calls + 1 /\ UNCHANGED <<fleet, local, backing, torn, latest, marred, got>>
    BY <1>2, Zenon DEF BeginCall
  <2>2. CASE UNCHANGED call
    <3>1. call' = [call EXCEPT ![p] = call[p]] /\ call[p] \in Call /\ CallAllowed(p, call[p])
      BY <2>2, Zenon DEF StoreSound, StoreTypeOK
    <3>2. call[p].value <= calls => call[p].value <= calls'
      BY <1>1, <2>1, <3>1, SMTT(30) DEF Call
    <3>3. \A d : d = call[p] => CallAllowed(p, d)'
      BY <2>1, <3>1, <3>2, PlacesFrame, Zenon DEF CallAllowed
    <3>4. calls' \in Nat /\ calls <= calls'
      BY <1>1, <2>1
    <3>5. QED
      BY <2>1, <3>1, <3>3, <3>4, CallOnly, ZenonT(30)
  <2>3. CASE call' = [call EXCEPT ![p] = c] /\ (op \in {"put", "delete"} => ~ Opts(p).readonly)
    <3>1. c \in Call
      BY <1>1, <2>0, SMTT(30) DEF Call
    <3>2. c.op = op /\ c.name = n /\ c.value = calls' /\ c.step = "begun" /\ calls' \in Nat /\ calls <= calls'
      BY <1>1, <2>0, <2>1
    <3>3. CallAllowed(p, c)'
      BY <2>1, <2>3, <3>2, PlacesFrame, SMTT(30) DEF CallAllowed
    <3>4. QED
      BY <2>1, <2>3, <3>1, <3>2, <3>3, CallOnly, ZenonT(30)
  <2>4. QED
    BY <1>2, <2>0, <2>2, <2>3, Zenon DEF BeginCall
<1>3. ASSUME Fails(p) \/ Crash(p)
      PROVE  StoreSound'
  BY <1>1, <1>3, NoCallAllowed, CallOnly DEF Fails, Crash, EndCall
<1>4. "account+key" \in Names /\ StoreNames \subseteq Names
  BY Zenon DEF Names, AccountNames
<1>5. QED
  BY <1>2, <1>3, <1>4, Zenon

\* The calls that read.
LEMMA ReadsKeep ==
  ASSUME StoreSound, NEW p \in Procs, StoreGet(p) \/ GetAccountKey(p) \/ RevokeUsingKey(p)
  PROVE  StoreSound'
<1>1. calls \in Nat /\ call[p] \in Call /\ CallAllowed(p, call[p])
  BY Zenon DEF StoreSound, StoreTypeOK
<1>2. {"account+key", "account.key", "cert"} \subseteq Names
  BY StoreAssumption, ZenonT(30) DEF Names, AccountNames
<1>3. CASE StoreGet(p)
  <2>1. call[p].name \in Names
    BY <1>1, <1>3, Zenon DEF StoreGet, CallAllowed
  <2>2. QED
    BY <1>3, <2>1, NoCallAllowed, ReadOnly, ZenonT(30) DEF StoreGet, EndCall
<1>4. CASE RevokeUsingKey(p)
  BY <1>2, <1>4, NoCallAllowed, ReadOnly, ZenonT(30) DEF RevokeUsingKey, EndCall
<1>5. CASE GetAccountKey(p)
  <2>1. UNCHANGED <<fleet, local, backing, torn, calls, latest, marred>> /\ call[p].op \in {"account", "revoke"}
    BY <1>5, Zenon DEF GetAccountKey
  <2>2. ASSUME NEW next \in {"certificate", "second"}, NEW c, c = [call[p] EXCEPT !.step = next]
        PROVE  c \in Call /\ CallAllowed(p, c)'
    <3>1. c \in Call /\ c.step = next /\ c.op = call[p].op /\ c.name = call[p].name /\ c.value = call[p].value
      BY <1>1, <2>2, Zenon DEF Call
    <3>2. QED
      BY <1>1, <2>1, <3>1, PlacesFrame, ZenonT(30) DEF CallAllowed
  <2>3. PICK n \in {"account+key", "account.key"}, c \in Call :
          (Reads(p, n) \/ UNCHANGED got) /\ call' = [call EXCEPT ![p] = c] /\ CallAllowed(p, c)'
    BY <1>5, <2>2, NoCallAllowed, Zenon DEF GetAccountKey, EndCall
  <2>4. CASE Reads(p, n)
    BY <1>2, <2>1, <2>3, <2>4, ReadOnly, ZenonT(30)
  <2>5. CASE UNCHANGED got
    <3>1. calls' \in Nat /\ calls <= calls'
      BY <1>1, <2>1, SMTT(30)
    <3>2. QED
      BY <2>1, <2>3, <2>5, <3>1, CallOnly, ZenonT(30)
  <2>6. QED
    BY <2>3, <2>4, <2>5, Zenon
<1>6. QED
  BY <1>3, <1>4, <1>5, Zenon

\* What was read stays as it is, and so does the soundness of it.
LEMMA GotFrame ==
  ASSUME StoreSound, UNCHANGED <<fleet, got>>
  PROVE  WholeMeansLatest' /\ TornOnlyByOverlap' /\ got' \in [Procs -> Reading]
  BY SMTT(30) DEF StoreSound, StoreTypeOK, WholeMeansLatest, TornOnlyByOverlap

\* What a call of Put has at hand.
LEMMA PutFacts ==
  ASSUME StoreSound, NEW p \in Procs, call[p].op = "put"
  PROVE  /\ fleet \in Fleets /\ calls \in Nat /\ call[p] \in Call /\ CallAllowed(p, call[p])
         /\ call[p].name \in Names /\ call[p].value \in 0..calls
         /\ UseBackingStore(p, call[p].name).name \in StoreFiles /\ Entry(p, call[p].name) \in StoreEntries
<1>1. fleet \in Fleets /\ calls \in Nat /\ call[p] \in Call /\ CallAllowed(p, call[p])
  BY SMTT(30) DEF StoreSound, StoreTypeOK
<1>2. call[p].name \in Names /\ call[p].value \in 0..calls
  BY <1>1 DEF CallAllowed, Call
<1>3. QED
  BY <1>1, <1>2, Places, ZenonT(30)

\* StorePut writes in one step, to the directory or to a store of secrets.
LEMMA PutKeeps ==
  ASSUME StoreSound, NEW p \in Procs, StorePut(p)
  PROVE  StoreSound'
<1> DEFINE b == UseBackingStore(p, call[p].name)
<1>1. call[p].op = "put" /\ UNCHANGED <<fleet, torn, calls, crashes, marred, got>>
  BY SMTT(30) DEF StorePut
<1>2. /\ StoreIsLatest' /\ PrivateStaysLocal'
      /\ local' \in [StoreFiles -> 0..calls] /\ backing' \in [StoreFiles -> 0..calls] /\ latest' \in [StoreEntries -> 0..calls]
  <2>1. /\ b.backing => backing' = [backing EXCEPT ![b.name] = call[p].value] /\ UNCHANGED local
        /\ ~ b.backing => local' = [local EXCEPT ![b.name] = call[p].value] /\ UNCHANGED backing
        /\ latest' = [latest EXCEPT ![Entry(p, call[p].name)] = call[p].value]
    BY ZenonT(30) DEF StorePut
  <2>2. QED
    BY <1>1, <2>1, PutFacts, PutPlace, Written, ZenonT(30)
<1>3. call' \in [Procs -> Call] /\ \A q \in Procs : CallAllowed(q, call[q])'
  <2>1. StoreTypeOK /\ calls' \in Nat /\ calls <= calls' /\ marred \subseteq marred'
    BY <1>1, SMTT(30) DEF StoreSound, StoreTypeOK
  <2>2. call' = [call EXCEPT ![p] = NoCall]
    BY Zenon DEF StorePut, EndCall
  <2>3. QED
    BY <1>1, <2>1, <2>2, NoCallAllowed, CallChanges, ZenonT(30)
<1>4. WholeMeansLatest' /\ TornOnlyByOverlap' /\ got' \in [Procs -> Reading]
  BY <1>1, GotFrame, Zenon
<1>5. StoreTypeOK'
  BY <1>1, <1>2, <1>3, <1>4, Zenon DEF StoreSound, StoreTypeOK
<1>6. QED
  BY <1>2, <1>4, <1>5, Zenon DEF StoreSound

\* The first half of a Put to a plain file tears it and marks it as marred.
LEMMA TruncateKeeps ==
  ASSUME StoreSound, NEW p \in Procs, Truncate(p)
  PROVE  StoreSound'
<1> DEFINE b == UseBackingStore(p, call[p].name)
<1>1. /\ call[p].op = "put" /\ b.backing /\ fleet.backing = "files"
      /\ torn' = torn \union {b.name} /\ marred' = marred \union {b.name}
      /\ UNCHANGED <<fleet, local, backing, calls, crashes, latest, got>>
  BY Zenon DEF Truncate
<1>2. b.name \in StoreFiles /\ backing[b.name] \in Nat
  <2>1. b.name \in StoreFiles
    BY <1>1, PutFacts, ZenonT(30)
  <2>2. backing \in [StoreFiles -> 0..calls] /\ calls \in Nat
    BY Zenon DEF StoreSound, StoreTypeOK
  <2>3. QED
    BY <2>1, <2>2, SMTT(30)
<1>3. PICK d, c : d = [call[p] EXCEPT !.step = "truncated"] /\ c = [d EXCEPT !.seen = backing[b.name]]
  BY ZenonT(30)
<1>4. c \in Call /\ c.op = "put" /\ c.name = call[p].name /\ c.value = call[p].value /\ c.step = "truncated"
  <2>1. d \in Call /\ d.op = "put" /\ d.name = call[p].name /\ d.value = call[p].value /\ d.step = "truncated"
    BY <1>1, <1>3, PutFacts, Zenon DEF Call
  <2>2. QED
    BY <1>2, <1>3, <2>1, ZenonT(30) DEF Call
<1>5. call' = [call EXCEPT ![p] = c]
  BY <1>3, ZenonT(30) DEF Truncate
<1>6. CallAllowed(p, c)'
  <2>1. CallAllowed(p, call[p])
    BY <1>1, PutFacts, Zenon
  <2>2. QED
    BY <1>1, <1>4, <2>1, PlacesFrame, ZenonT(30) DEF CallAllowed
<1>7. call' \in [Procs -> Call] /\ \A q \in Procs : CallAllowed(q, call[q])'
  <2>1. StoreTypeOK /\ calls' \in Nat /\ calls <= calls' /\ marred \subseteq marred'
    BY <1>1 DEF StoreSound, StoreTypeOK
  <2>2. QED
    BY <1>1, <1>4, <1>5, <1>6, <2>1, CallChanges, ZenonT(30)
<1>8. WholeMeansLatest' /\ TornOnlyByOverlap' /\ got' \in [Procs -> Reading]
  BY <1>1, GotFrame, ZenonT(30)
<1>9. StoreTypeOK'
  BY <1>1, <1>2, <1>7, <1>8, Zenon DEF StoreSound, StoreTypeOK
<1>10. StoreIsLatest' /\ PrivateStaysLocal'
  <2>1. StoreIsLatest'
    <3> SUFFICES ASSUME NEW q \in Procs, NEW n \in Names
                 PROVE  (Found(q, n).value = latest[Entry(q, n)])'
      BY SMTT(30) DEF StoreIsLatest
    <3>1. Found(q, n).value = latest[Entry(q, n)]
      BY Zenon DEF StoreSound, StoreIsLatest
    <3>2. UseBackingStore(q, n)' = UseBackingStore(q, n) /\ Entry(q, n)' = Entry(q, n)
      BY <1>1, PlacesFrame, ZenonT(30)
    <3>3. LET u == UseBackingStore(q, n)
          IN  /\ Found(q, n).value = IF u.backing THEN backing[u.name] ELSE local[n]
              /\ (Found(q, n).value = IF u.backing THEN backing[u.name] ELSE local[n])'
      BY FoundValue, ZenonT(30)
    <3>4. QED
      BY <1>1, <3>1, <3>2, <3>3, ZenonT(30)
  <2>2. PrivateStaysLocal'
    BY <1>1, PlacesFrame, ZenonT(30) DEF StoreSound, PrivateStaysLocal, IsLocalName, IsAcmeAccountKey
  <2>3. QED
    BY <2>1, <2>2, Zenon
<1>11. QED
  BY <1>8, <1>9, <1>10, Zenon DEF StoreSound

\* A file stops being marred only when the one Put under way has written it, alone.
LEMMA WriteBackKeeps ==
  ASSUME StoreSound, NEW p \in Procs, WriteBack(p)
  PROVE  StoreSound'
<1> DEFINE f == UseBackingStore(p, call[p].name).name
<1>1. /\ call[p].op = "put" /\ call[p].step = "truncated" /\ call' = [call EXCEPT ![p] = NoCall]
      /\ UNCHANGED <<fleet, local, calls, crashes, got>>
  BY ZenonT(30) DEF WriteBack, EndCall
<1>2. UseBackingStore(p, call[p].name).backing /\ fleet.backing = "files" /\ f \in marred
  BY <1>1, PutFacts, Zenon DEF CallAllowed
<1>3. CASE UNCHANGED <<backing, latest, torn, marred>>
  <2>1. calls' \in Nat /\ calls <= calls'
    BY <1>1 DEF StoreSound, StoreTypeOK
  <2>2. QED
    BY <1>1, <1>3, <2>1, NoCallAllowed, CallOnly, ZenonT(30)
<1>4. CASE /\ backing' = [backing EXCEPT ![f] = call[p].value]
           /\ latest' = [latest EXCEPT ![Entry(p, call[p].name)] = call[p].value]
           /\ torn' \in {torn \ {f}, torn \union {f}}
           /\ marred' = marred \/ (torn' = torn \ {f} /\ marred' = marred \ {f} /\ Writers(f) = {p})
  <2>1. /\ StoreIsLatest' /\ PrivateStaysLocal'
        /\ local' \in [StoreFiles -> 0..calls] /\ backing' \in [StoreFiles -> 0..calls] /\ latest' \in [StoreEntries -> 0..calls]
    BY <1>1, <1>2, <1>4, PutFacts, PutPlace, Written, ZenonT(30)
  <2>2. call' \in [Procs -> Call] /\ \A q \in Procs : CallAllowed(q, call[q])'
    <3>1. call \in [Procs -> Call] /\ \A q \in Procs : CallAllowed(q, call[q])
      BY Zenon DEF StoreSound, StoreTypeOK
    <3>2. ASSUME NEW q \in Procs
          PROVE  CallAllowed(q, call[q])'
      <4>1. CASE q = p
        BY <1>1, <3>1, <4>1, NoCallAllowed, Zenon
      <4>2. CASE q # p
        <5>1. call'[q] = call[q] /\ CallAllowed(q, call[q])
          BY <1>1, <3>1, <4>2, Zenon
        <5>2. Writers(f) = {p} /\ call[q].op = "put" /\ call[q].step = "truncated"
                => UseBackingStore(q, call[q].name).name # f
          BY <4>2, Zenon DEF Writers
        <5>3. QED
          BY <1>1, <1>4, <5>1, <5>2, PlacesFrame, Zenon DEF CallAllowed
      <4>3. QED
        BY <4>1, <4>2, Zenon
    <3>3. QED
      BY <1>1, <3>1, <3>2, NoCallAllowed, Zenon
  <2>3. WholeMeansLatest' /\ TornOnlyByOverlap' /\ got' \in [Procs -> Reading]
    BY <1>1, GotFrame, Zenon
  <2>4. StoreTypeOK'
    BY <1>1, <1>2, <1>4, <2>1, <2>2, <2>3, Zenon DEF StoreSound, StoreTypeOK
  <2>5. QED
    BY <2>1, <2>3, <2>4, Zenon DEF StoreSound
<1>5. QED
  BY <1>3, <1>4, ZenonT(30) DEF WriteBack

\* Where a Delete writes.
LEMMA DeletePlace ==
  ASSUME fleet \in Fleets, NEW p \in Procs, NEW n \in Names
  PROVE  InPlace(~ IsLocalName(n, Opts(p).rsa), n, IF IsAcmeAccountKey(n) THEN <<"name", n>> ELSE Entry(p, n))
<1>1. CASE IsAcmeAccountKey(n)
  <2>1. \A q \in Procs, m \in Names : UseBackingStore(q, m).name = n /\ ~ UseBackingStore(q, m).backing
                                        <=> m = n /\ Opts(q).alias = ""
    BY <1>1, Places, ZenonT(30) DEF UseBackingStore, IsLocalName, IsAcmeAccountKey, AccountNames
  <2>2. \A q \in Procs, m \in Names : Entry(q, m) = <<"name", n>> <=> m = n /\ Opts(q).alias = ""
    BY <1>1, ZenonT(30) DEF Entry, IsAcmeAccountKey, AccountNames
  <2>3. IsLocalName(n, Opts(p).rsa)
    BY <1>1, Zenon DEF IsLocalName
  <2>4. QED
    BY <1>1, <2>1, <2>2, <2>3, ZenonT(30) DEF InPlace
<1>2. CASE ~ IsAcmeAccountKey(n)
  <2>1. UseBackingStore(p, n).name = n /\ (UseBackingStore(p, n).backing <=> ~ IsLocalName(n, Opts(p).rsa))
    BY <1>2, ZenonT(30) DEF UseBackingStore
  <2>2. \A q \in Procs, m \in Names :
          Entry(q, m) = Entry(p, n) <=> /\ UseBackingStore(q, m).name = UseBackingStore(p, n).name
                                        /\ UseBackingStore(q, m).backing <=> UseBackingStore(p, n).backing
    BY SamePlace, Zenon
  <2>3. QED
    BY <1>2, <2>1, <2>2, ZenonT(30) DEF InPlace
<1>3. QED
  BY <1>1, <1>2, Zenon

\* A call that has lost its file is allowed as before.
LEMMA AllowedAlike ==
  ASSUME UNCHANGED <<fleet, calls, marred>>, NEW p, NEW c, NEW d, CallAllowed(p, c),
         d.op = c.op, d.name = c.name, d.value = c.value, d.step = c.step
  PROVE  CallAllowed(p, d)'
<1>1. CallAllowed(p, d)
  BY ZenonT(30) DEF CallAllowed
<1>2. Opts(p)' = Opts(p) /\ UseBackingStore(p, d.name)' = UseBackingStore(p, d.name)
  BY PlacesFrame, ZenonT(30)
<1>3. QED
  BY <1>1, <1>2, ZenonT(30) DEF CallAllowed

\* StoreDelete removes the local file of a name, whatever its alias.
LEMMA DeleteKeeps ==
  ASSUME StoreSound, NEW p \in Procs, StoreDelete(p)
  PROVE  StoreSound'
<1> DEFINE n == call[p].name
           e == IF IsAcmeAccountKey(n) THEN <<"name", n>> ELSE Entry(p, n)
<1>1. /\ fleet \in Fleets /\ calls \in Nat /\ call \in [Procs -> Call] /\ \A q \in Procs : CallAllowed(q, call[q])
      /\ torn \subseteq marred
  BY Zenon DEF StoreSound, StoreTypeOK
<1>2. n \in Names /\ 0 \in 0..calls
  BY <1>1, SMTT(30) DEF StoreDelete, CallAllowed
<1>3. n \in StoreFiles /\ e \in StoreEntries
  BY <1>1, <1>2, Places, ZenonT(30) DEF StoreEntries
<1>4. /\ ~ IsLocalName(n, Opts(p).rsa) => backing' = [backing EXCEPT ![n] = 0] /\ UNCHANGED local
      /\ IsLocalName(n, Opts(p).rsa) => local' = [local EXCEPT ![n] = 0] /\ UNCHANGED backing
      /\ latest' = [latest EXCEPT ![e] = 0]
      /\ UNCHANGED <<fleet, calls, crashes, marred, got>> /\ torn' \subseteq torn
  BY SMTT(30) DEF StoreDelete
<1>5. /\ StoreIsLatest' /\ PrivateStaysLocal'
      /\ local' \in [StoreFiles -> 0..calls] /\ backing' \in [StoreFiles -> 0..calls] /\ latest' \in [StoreEntries -> 0..calls]
  <2>1. InPlace(~ IsLocalName(n, Opts(p).rsa), n, e)
    BY <1>1, <1>2, DeletePlace, Zenon
  <2> HIDE DEF n, e
  <2>2. QED
    BY <1>2, <1>3, <1>4, <2>1, Written, ZenonT(30)
<1>6. \A q \in Procs : /\ call'[q] \in Call
                       /\ \/ call'[q] = NoCall
                          \/ /\ call'[q].op = call[q].op /\ call'[q].name = call[q].name
                             /\ call'[q].value = call[q].value /\ call'[q].step = call[q].step
  <2>1. CASE call' = [call EXCEPT ![p] = NoCall]
    BY <1>1, <2>1, NoCallAllowed, Zenon
  <2>2. CASE call' = [q \in Procs |-> IF q = p THEN NoCall
                                       ELSE [call[q] EXCEPT !.unlinked = @ \/ q \in Writers(n)]]
    <3> SUFFICES ASSUME NEW q \in Procs, q # p
                 PROVE  /\ call'[q] \in Call
                        /\ call'[q].op = call[q].op /\ call'[q].name = call[q].name
                        /\ call'[q].value = call[q].value /\ call'[q].step = call[q].step
      BY <2>2, NoCallAllowed, Zenon
    <3>1. PICK u \in BOOLEAN : u = (call[q].unlinked \/ q \in Writers(n))
      BY ZenonT(30)
    <3>2. call'[q] = [call[q] EXCEPT !.unlinked = u] /\ call[q] \in Call
      BY <1>1, <2>2, <3>1, Zenon
    <3>3. QED
      BY <3>2, Zenon DEF Call
  <2>3. QED
    BY <2>1, <2>2, Zenon DEF StoreDelete
<1>7. \A q \in Procs : CallAllowed(q, call[q])'
  <2> SUFFICES ASSUME NEW q \in Procs
               PROVE  CallAllowed(q, call[q])'
    BY Zenon
  <2>1. CASE call'[q] = NoCall
    BY <2>1, NoCallAllowed, ZenonT(30)
  <2>2. CASE call'[q] # NoCall
    <3>1. CallAllowed(q, call[q]) /\ UNCHANGED <<fleet, calls, marred>>
      BY <1>1, <1>4, Zenon
    <3>2. /\ call'[q].op = call[q].op /\ call'[q].name = call[q].name
          /\ call'[q].value = call[q].value /\ call'[q].step = call[q].step
      BY <1>6, <2>2, Zenon
    <3>3. QED
      BY <3>1, <3>2, AllowedAlike, ZenonT(30)
  <2>3. QED
    BY <2>1, <2>2, Zenon
<1>8. call' \in [Procs -> Call]
  BY <1>1, <1>6, Zenon DEF StoreDelete
<1>9. WholeMeansLatest' /\ TornOnlyByOverlap' /\ got' \in [Procs -> Reading]
  BY <1>4, GotFrame, Zenon
<1>10. StoreTypeOK'
  BY <1>1, <1>4, <1>5, <1>7, <1>8, <1>9, Zenon DEF StoreSound, StoreTypeOK
<1>11. QED
  BY <1>5, <1>9, <1>10, Zenon DEF StoreSound

\* A store that holds nothing is sound.
LEMMA InitStore ==
  ASSUME StoreInit
  PROVE  StoreSound
<1>1. /\ fleet \in Fleets /\ calls = 0 /\ torn = {} /\ marred = {}
      /\ local = [n \in StoreFiles |-> 0] /\ backing = [n \in StoreFiles |-> 0]
      /\ latest = [e \in StoreEntries |-> 0]
      /\ call = [p \in Procs |-> NoCall] /\ got = [p \in Procs |-> NotRead]
  BY Zenon DEF StoreInit
<1>2. StoreTypeOK
  <2>1. \A p \in Procs : call[p] \in Call /\ CallAllowed(p, call[p])
    BY <1>1, NoCallAllowed, Zenon
  <2>2. NotRead \in Reading
    BY Zenon DEF Reading, NotRead
  <2>3. local \in [StoreFiles -> 0..calls] /\ backing \in [StoreFiles -> 0..calls]
    BY <1>1
  <2>4. latest \in [StoreEntries -> 0..calls]
    BY <1>1
  <2>5. call \in [Procs -> Call] /\ got \in [Procs -> Reading]
    BY <1>1, <2>1, <2>2, NoCallAllowed, Zenon
  <2>6. QED
    BY <1>1, <2>1, <2>3, <2>4, <2>5, Zenon DEF StoreTypeOK
<1>3. StoreIsLatest
  <2>1. ASSUME NEW p \in Procs, NEW n \in Names
        PROVE  Found(p, n).value = latest[Entry(p, n)]
    <3>1. UseBackingStore(p, n).name \in StoreFiles /\ n \in StoreFiles /\ Entry(p, n) \in StoreEntries
      BY <1>2, Places, Zenon DEF StoreTypeOK
    <3>2. backing[UseBackingStore(p, n).name] = 0 /\ local[n] = 0 /\ latest[Entry(p, n)] = 0
      BY <1>1, <3>1, Zenon
    <3>3. QED
      BY <3>2, FoundValue, Zenon
  <2>2. QED
    BY <2>1, Zenon DEF StoreIsLatest
<1>4. WholeMeansLatest /\ TornOnlyByOverlap /\ PrivateStaysLocal
  BY <1>1, Zenon DEF WholeMeansLatest, TornOnlyByOverlap, PrivateStaysLocal, NotRead, StoreFiles
<1>5. QED
  BY <1>2, <1>3, <1>4, Zenon DEF StoreSound

\* A step of a process, whatever the others do, leaves a sound store sound.
LEMMA NextStore ==
  ASSUME StoreSound, [StoreNext]_storeVars
  PROVE  StoreSound'
<1>1. CASE UNCHANGED storeVars
  <2>1. calls' \in Nat /\ calls <= calls' /\ UNCHANGED <<fleet, local, backing, torn, call, latest, marred, got>>
    BY <1>1 DEF storeVars, StoreSound, StoreTypeOK
  <2>2. WholeMeansLatest' /\ TornOnlyByOverlap' /\ StoreIsLatest' /\ PrivateStaysLocal'
    BY <2>1, GotFrame, FilesFrame, Zenon
  <2>3. \A p \in Procs : CallAllowed(p, call[p])'
    BY <1>1, PlacesFrame, ZenonT(30) DEF storeVars, StoreSound, StoreTypeOK, CallAllowed
  <2>4. StoreTypeOK'
    BY <1>1, <2>3, Zenon DEF storeVars, StoreSound, StoreTypeOK
  <2>5. QED
    BY <2>2, <2>4, Zenon DEF StoreSound
<1>2. QED
  BY <1>1, CallsKeep, ReadsKeep, PutKeeps, TruncateKeeps, WriteBackKeeps, DeleteKeeps, Zenon DEF StoreNext, StoreStep

\* Whatever a process reads from the store is what was last put there, by any process, or
\* is in part, and is in part only by writes to plain files that overlap or are cut short;
\* and what is private stays in the directory.  This holds for any number of processes,
\* names and calls, wherever they fail or die (CachingStore.Get, Put, Delete,
\* GetAccountKey).
THEOREM StoreIsSound == StoreSpec => []StoreSound
<1>1. StoreInit => StoreSound
  BY InitStore, Zenon
<1>2. StoreSound /\ [StoreNext]_storeVars => StoreSound'
  BY NextStore, Zenon
<1>3. QED
  BY <1>1, <1>2, PTL DEF StoreSpec
=============================================================================
