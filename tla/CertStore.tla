----------------------------- MODULE CertStore -----------------------------
(***************************************************************************)
(* The certificate store of certcache: a directory shared by the processes *)
(* of one machine, guarded by a file lock, in front of a backing store,    *)
(* shared by all.  Names of certificates are kept in the backing store,    *)
(* names that are private to a machine in the directory, and the ACME      *)
(* account key in either.  Processes get, put and delete concurrently; a   *)
(* backing store made of plain files is written in two steps, and a        *)
(* process may die between them.                                           *)
(***************************************************************************)
EXTENDS Integers, FiniteSets

CONSTANTS
  Procs,       \* processes, each with a CachingStore of its own
  Fleets,      \* the options of each process, and the backing store
  StoreNames,  \* the names used
  MaxCalls,    \* bound on the calls made
  MaxCrashes   \* bound on the processes that die in a call

AccountNames == {"account+key", "account.key"}
Names == StoreNames \union AccountNames
Aliases == {F.options[p].alias : F \in Fleets, p \in Procs} \ {""}

\* The account key is saved under no name that is in use for something else; revoking
\* reads a certificate.
ASSUME StoreAssumption ==
  /\ \A F \in Fleets :
       /\ F.options \in [Procs -> [readonly : BOOLEAN, alias : Aliases \union {""}, rsa : BOOLEAN]]
       /\ F.backing \in {"secrets", "files"}
  /\ Aliases \intersect StoreNames \subseteq AccountNames
  /\ "cert" \in StoreNames

VARIABLES
  fleet,    \* [options, backing]: options of each process, kind of the backing store
  local,    \* the directory: the value of each name, 0 when there is none
  backing,  \* the backing store, likewise
  torn,     \* the files of the backing store with part of a value
  call,     \* the call each process is in
  calls,    \* the number of calls made, which is also the value a Put writes
  crashes,  \* the number of processes that died in a call
  latest,   \* the value of the last Put that succeeded (history), 0 after a Delete
  marred,   \* files with a Put under way, cut short, or overlapped by another (history)
  got       \* the last value each process read, with what it should be (history)

storeVars == <<fleet, local, backing, torn, call, calls, crashes, latest, marred, got>>

NoCall == [op |-> "none", name |-> "none", value |-> 0, step |-> "none", seen |-> 0, unlinked |-> FALSE]
NotRead == [value |-> 0, want |-> 0, torn |-> FALSE, marred |-> FALSE]

Opts(p) == fleet.options[p]
-----------------------------------------------------------------------------
IsAcmeAccountKey(n) == n \in AccountNames

IsLocalName(n, allowRSA) ==
  n \in {"host+token", "http-01"} \/ (n = "cert+rsa" /\ ~ allowRSA) \/ IsAcmeAccountKey(n)

IsRSAKeyAllowed(p, n) == n # "cert+rsa" \/ Opts(p).rsa

\* Whether the backing store is used for a name, and the name it has there.
UseBackingStore(p, n) ==
  CASE ~ IsLocalName(n, Opts(p).rsa) -> [name |-> n, backing |-> TRUE]
    [] IsAcmeAccountKey(n) /\ Opts(p).alias # "" -> [name |-> Opts(p).alias, backing |-> TRUE]
    [] OTHER -> [name |-> n, backing |-> FALSE]

\* What a name stands for: the processes that save the account key under the same
\* alias share one key, whichever of its names they use, and those that allow no RSA
\* keys share none with the others.
Entry(p, n) ==
  CASE IsAcmeAccountKey(n) /\ Opts(p).alias # "" -> <<"alias", Opts(p).alias>>
    [] n = "cert+rsa" /\ ~ Opts(p).rsa -> <<"refused", n>>
    [] OTHER -> <<"name", n>>

StoreFiles == Names \union Aliases
StoreEntries == {"alias", "refused", "name"} \X StoreFiles

\* newCertStore keeps certificates in the secrets manager, or in files beside the
\* directory.
NewCertStore(secrets, options) ==
  [backing |-> IF secrets THEN "secrets" ELSE "files", options |-> options]

StoreInit ==
  /\ fleet \in Fleets
  /\ local = [n \in StoreFiles |-> 0]
  /\ backing = [n \in StoreFiles |-> 0]
  /\ torn = {} /\ marred = {}
  /\ call = [p \in Procs |-> NoCall]
  /\ calls = 0 /\ crashes = 0
  /\ latest = [e \in StoreEntries |-> 0]
  /\ got = [p \in Procs |-> NotRead]
-----------------------------------------------------------------------------
\* A call begins; the ones that are refused at once change nothing.
BeginCall(p, op, n) ==
  /\ call[p] = NoCall /\ calls < MaxCalls
  /\ calls' = calls + 1
  /\ IF \/ op = "put" /\ (~ IsRSAKeyAllowed(p, n) \/ Opts(p).readonly)
        \/ op = "delete" /\ Opts(p).readonly
     THEN UNCHANGED call
     ELSE call' = [call EXCEPT ![p] = [op |-> op, name |-> n, value |-> calls + 1, step |-> "begun",
                                           seen |-> 0, unlinked |-> FALSE]]
  /\ UNCHANGED <<fleet, local, backing, torn, crashes, latest, marred, got>>

EndCall(p) == call' = [call EXCEPT ![p] = NoCall]

\* The backing store or the lock fails: the call returns an error, and what it wrote
\* so far stays.
Fails(p) ==
  /\ call[p].step \in {"begun", "truncated", "certificate"} /\ call[p].op # "account"
  /\ call[p].op = "revoke" => call[p].step = "certificate"
  /\ EndCall(p)
  /\ UNCHANGED <<fleet, local, backing, torn, calls, crashes, latest, marred, got>>

Writers(f) ==
  {p \in Procs : /\ call[p].op = "put" /\ call[p].step = "truncated"
                 /\ UseBackingStore(p, call[p].name).name = f}

\* Mutant: the account key is read from the directory, wherever it was put.
FoundLocalAccount(p, n) ==
  IF IsAcmeAccountKey(n) THEN [value |-> local[n], torn |-> FALSE, marred |-> FALSE]
  ELSE [value |-> backing[n], torn |-> FALSE, marred |-> FALSE]

\* What a Get finds, and whether it may be in part.
Found(p, n) ==
  LET b == UseBackingStore(p, n) IN
  IF b.backing
  THEN [value |-> backing[b.name], torn |-> b.name \in torn, marred |-> b.name \in marred]
  ELSE [value |-> local[n], torn |-> FALSE, marred |-> FALSE]

Reads(p, n) ==
  LET f == Found(p, n) IN
  got' = [got EXCEPT ![p] = [value |-> f.value, want |-> latest[Entry(p, n)],
                             torn |-> f.torn, marred |-> f.marred]]

\* CachingStore.Get after its early steps: the lock is held while a file of the
\* directory is read.
StoreGet(p) ==
  /\ call[p].op = "get" /\ call[p].step = "begun"
  /\ Reads(p, call[p].name)
  /\ EndCall(p)
  /\ UNCHANGED <<fleet, local, backing, torn, calls, crashes, latest, marred>>

\* CachingStore.Put to the directory, which autocert.DirCache replaces atomically, or
\* to a backing store that does.
StorePut(p) ==
  LET b == UseBackingStore(p, call[p].name) IN
  /\ call[p].op = "put" /\ call[p].step = "begun"
  /\ b.backing => fleet.backing = "secrets"
  /\ IF b.backing
     THEN backing' = [backing EXCEPT ![b.name] = call[p].value] /\ UNCHANGED local
     ELSE local' = [local EXCEPT ![b.name] = call[p].value] /\ UNCHANGED backing
  /\ latest' = [latest EXCEPT ![Entry(p, call[p].name)] = call[p].value]
  /\ EndCall(p)
  /\ UNCHANGED <<fleet, torn, calls, crashes, marred, got>>

\* localCache.WriteFileCtx, that is os.WriteFile: the file is truncated and then
\* written.
Truncate(p) ==
  LET b == UseBackingStore(p, call[p].name) IN
  /\ call[p].op = "put" /\ call[p].step = "begun"
  /\ b.backing /\ fleet.backing = "files"
  /\ torn' = torn \union {b.name}
  /\ marred' = marred \union {b.name}
  /\ call' = [call EXCEPT ![p].step = "truncated", ![p].seen = backing[b.name]]
  /\ UNCHANGED <<fleet, local, backing, calls, crashes, latest, got>>

\* The second step: what another Put wrote since the first may remain in part, and
\* what is written to a file deleted since then is lost.
WriteBack(p) ==
  LET f == UseBackingStore(p, call[p].name).name
      alone == backing[f] = call[p].seen
  IN /\ call[p].op = "put" /\ call[p].step = "truncated"
     /\ \/ call[p].unlinked /\ UNCHANGED <<backing, latest, torn, marred>>
        \/ /\ ~ call[p].unlinked
           /\ backing' = [backing EXCEPT ![f] = call[p].value]
           /\ latest' = [latest EXCEPT ![Entry(p, call[p].name)] = call[p].value]
           /\ torn' \in IF alone THEN {torn \ {f}} ELSE {torn \ {f}, torn \union {f}}
           /\ marred' = IF alone /\ Writers(f) = {p} THEN marred \ {f} ELSE marred
     /\ EndCall(p)
     /\ UNCHANGED <<fleet, local, calls, crashes, got>>

\* CachingStore.Delete looks at the name and not at the alias of the account key.  A
\* plain file that does not exist cannot be removed, which leaves all as it is.
StoreDelete(p) ==
  LET n == call[p].name IN
  /\ call[p].op = "delete" /\ call[p].step = "begun"
  /\ IF IsLocalName(n, Opts(p).rsa)
     THEN /\ local' = [local EXCEPT ![n] = 0]
          /\ call' = [call EXCEPT ![p] = NoCall]
          /\ UNCHANGED <<backing, torn>>
     ELSE /\ backing' = [backing EXCEPT ![n] = 0]
          /\ torn' = torn \ {n}
          /\ call' = [q \in Procs |-> IF q = p THEN NoCall
                                       ELSE [call[q] EXCEPT !.unlinked = @ \/ q \in Writers(n)]]
          /\ UNCHANGED local
  /\ latest' = [latest EXCEPT ![IF IsAcmeAccountKey(n) THEN <<"name", n>> ELSE Entry(p, n)] = 0]
  /\ UNCHANGED <<fleet, calls, crashes, marred, got>>

\* GetAccountKey tries both names; any failure of the first leads to the second.
GetAccountKey(p) ==
  /\ call[p].op \in {"account", "revoke"} /\ call[p].step \in {"begun", "second"}
  /\ LET n == IF call[p].step = "begun" THEN "account+key" ELSE "account.key"
         f == Found(p, n)
     IN \/ /\ f.value # 0
           /\ Reads(p, n)
           /\ IF call[p].op = "account" \/ f.torn THEN EndCall(p)
              ELSE call' = [call EXCEPT ![p].step = "certificate"]
        \/ /\ UNCHANGED got
           /\ IF n = "account.key" THEN EndCall(p)
              ELSE call' = [call EXCEPT ![p].step = "second"]
  /\ UNCHANGED <<fleet, local, backing, torn, calls, crashes, latest, marred>>

\* revokeUsingKey reads the certificate after the account key and gives up when either
\* is not there or not whole.
RevokeUsingKey(p) ==
  /\ call[p].step = "certificate"
  /\ Reads(p, "cert")
  /\ EndCall(p)
  /\ UNCHANGED <<fleet, local, backing, torn, calls, crashes, latest, marred>>

\* The process dies; the system releases its lock and a new one takes its place.
Crash(p) ==
  /\ call[p] # NoCall /\ crashes < MaxCrashes
  /\ crashes' = crashes + 1
  /\ EndCall(p)
  /\ UNCHANGED <<fleet, local, backing, torn, calls, latest, marred, got>>

StoreStep(p) ==
  \/ Fails(p) \/ StoreGet(p) \/ StorePut(p) \/ Truncate(p) \/ WriteBack(p) \/ StoreDelete(p)
  \/ GetAccountKey(p) \/ RevokeUsingKey(p)

StoreNext ==
  \E p \in Procs :
    \/ \E op \in {"get", "put", "delete"}, n \in StoreNames : BeginCall(p, op, n)
    \/ \E op \in {"account", "revoke"} : BeginCall(p, op, "account+key")
    \/ StoreStep(p) \/ Crash(p)

StoreSpec == StoreInit /\ [][StoreNext]_storeVars
-----------------------------------------------------------------------------
Call ==
  [op : {"none", "get", "put", "delete", "account", "revoke"}, name : Names \union {"none"}, value : Nat,
   step : {"none", "begun", "second", "truncated", "certificate"}, seen : Nat, unlinked : BOOLEAN]
Reading == [value : Nat, want : Nat, torn : BOOLEAN, marred : BOOLEAN]

\* A call is one that its process may make, and a Put to a plain file is known to be
\* under way.
CallAllowed(p, c) ==
  /\ c.op # "none" => c.name \in Names /\ c.value <= calls
  /\ c.op \in {"put", "delete"} => ~ Opts(p).readonly
  /\ c.step = "truncated" =>
       /\ c.op = "put" /\ fleet.backing = "files"
       /\ UseBackingStore(p, c.name).backing /\ UseBackingStore(p, c.name).name \in marred

\* The variables keep their types, calls are allowed, and only plain files are ever
\* there in part.
StoreTypeOK ==
  /\ fleet \in Fleets /\ calls \in Nat
  /\ local \in [StoreFiles -> 0..calls] /\ backing \in [StoreFiles -> 0..calls] /\ latest \in [StoreEntries -> 0..calls]
  /\ torn \subseteq marred /\ marred \subseteq StoreFiles
  /\ fleet.backing = "secrets" => torn = {}
  /\ call \in [Procs -> Call] /\ \A p \in Procs : CallAllowed(p, call[p])
  /\ got \in [Procs -> Reading]

\* Whatever process looks for whatever name, it finds the value of the last Put of that
\* entry, or part of it.
StoreIsLatest == \A p \in Procs, n \in Names : Found(p, n).value = latest[Entry(p, n)]

\* A value read whole is the one of the last Put of that entry, by any process, that
\* had succeeded, and there is none after a Delete; the account key put under either
\* of its names is the one every process with the same alias finds under both
\* (CachingStore.Get, Put, Delete, GetAccountKey).
WholeMeansLatest == \A p \in Procs : ~ got[p].torn => got[p].value = got[p].want

\* A value is read in part only from a backing store of plain files, when its Put is
\* under way, was cut short, or overlapped another (localCache.WriteFileCtx).
TornOnlyByOverlap == \A p \in Procs : got[p].torn => got[p].marred /\ fleet.backing = "files"

\* Tokens and challenges never leave the directory, and the account key does only
\* under an alias some process was given (IsLocalName, useBackingStore).
PrivateStaysLocal ==
  \A n \in Names : IsLocalName(n, TRUE) /\ backing[n] # 0 =>
    IsAcmeAccountKey(n) /\ \E p \in Procs : Opts(p).alias = n

\* What a process reads from the store is what was last put there, in part only when
\* writes overlap, and what is private is found nowhere else.
StoreSound ==
  StoreTypeOK /\ StoreIsLatest /\ WholeMeansLatest /\ TornOnlyByOverlap /\ PrivateStaysLocal
=============================================================================
