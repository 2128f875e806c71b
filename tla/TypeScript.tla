---------------------------- MODULE TypeScript -----------------------------
(***************************************************************************)
(* Pages that compile their TypeScript when they are requested             *)
(* (devtest/ts.go, devtest/js.go): requests run concurrently, and the      *)
(* sources are edited at any time.                                         *)
(***************************************************************************)
EXTENDS Naturals

CONSTANTS
  Sources,   \* the TypeScript files
  Pages,     \* the requests, each made once
  MaxEdits,  \* bound on the edits
  MaxClock   \* bound on the clock

VARIABLES
  clock,     \* the time as file times and time.Now show it
  source,    \* source[f]: the number of edits of f
  modTime,   \* modTime[f]: the time of the latest one
  lateEdits, \* history: lateEdits[f]: the edits of f that were made during a
             \*   compilation, or in the instant in which one ended
  built,     \* built[f]: the edit that the compiled file of f is from
  last,      \* TypescriptSources.last
  page       \* page[p]: the state of a request

tsVars == <<clock, source, modTime, lateEdits, built, last, page>>

Nothing == [f \in Sources |-> 0]
Idle == [pc |-> "idle", modified |-> {}, read |-> Nothing, wanted |-> Nothing]

\* SetDirAndFiles: everything is newer than the zero time.
TypeScriptInit ==
  /\ clock = 1
  /\ source = [f \in Sources |-> 1]
  /\ modTime = [f \in Sources |-> 1]
  /\ lateEdits = [f \in Sources |-> {}]
  /\ built = Nothing
  /\ last = 0
  /\ page = [p \in Pages |-> Idle]

Compiling == {p \in Pages : page[p].pc \in {"compile", "emit"}}

Edit(f) ==
  /\ source[f] < MaxEdits
  /\ source' = [source EXCEPT ![f] = @ + 1]
  /\ modTime' = [modTime EXCEPT ![f] = clock]
  /\ lateEdits' = IF Compiling # {} \/ clock = last
                  THEN [lateEdits EXCEPT ![f] = @ \cup {source[f] + 1}]
                  ELSE lateEdits
  /\ UNCHANGED <<clock, built, last, page>>

ClockTicks ==
  /\ clock < MaxClock
  /\ clock' = clock + 1
  /\ UNCHANGED <<source, modTime, lateEdits, built, last, page>>

-----------------------------------------------------------------------------
\* ServeJS calls Compile, which looks for files that are newer than the end of the
\* last compilation; without any it has nothing to do.
ServeJS(p) ==
  /\ page[p].pc = "idle"
  /\ LET modified == {f \in Sources : modTime[f] > last}
     IN  page' = [page EXCEPT ![p] = [pc |-> IF modified = {} THEN "ok" ELSE "compile",
                                      modified |-> modified, read |-> Nothing, wanted |-> source]]
  /\ UNCHANGED <<clock, source, modTime, lateEdits, built, last>>

\* The compiler reads the files.
CompilerReads(p) ==
  /\ page[p].pc = "compile"
  /\ page' = [page EXCEPT ![p].pc = "emit", ![p].read = source]
  /\ UNCHANGED <<clock, source, modTime, lateEdits, built, last>>

\* Mutant: the time is kept for a compilation that failed.
CompileFailsButKeeps(p) ==
  /\ page[p].pc \in {"compile", "emit"}
  /\ page' = [page EXCEPT ![p] = [Idle EXCEPT !.pc = "error"]]
  /\ last' = clock
  /\ UNCHANGED <<clock, source, modTime, lateEdits, built>>

\* The compiler has written its output: the time is taken now, and the page is
\* answered.
CompileEnds(p) ==
  /\ page[p].pc = "emit"
  /\ built' = [f \in Sources |-> IF f \in page[p].modified THEN page[p].read[f] ELSE built[f]]
  /\ last' = clock
  /\ page' = [page EXCEPT ![p].pc = "ok"]
  /\ UNCHANGED <<clock, source, modTime, lateEdits>>

\* The compiler is missing, or reports an error: writeError.
CompileFails(p) ==
  /\ page[p].pc \in {"compile", "emit"}
  /\ page' = [page EXCEPT ![p] = [Idle EXCEPT !.pc = "error"]]
  /\ UNCHANGED <<clock, source, modTime, lateEdits, built, last>>

TypeScriptNext ==
  \/ \E f \in Sources : Edit(f)
  \/ \E p \in Pages : ServeJS(p) \/ CompilerReads(p) \/ CompileEnds(p) \/ CompileFails(p)
  \/ ClockTicks

TypeScriptSpec == TypeScriptInit /\ [][TypeScriptNext]_tsVars

-----------------------------------------------------------------------------
Versions == [Sources -> Nat]
Page == [pc : {"idle", "compile", "emit", "ok", "error"}, modified : SUBSET Sources,
         read : Versions, wanted : Versions]

\* The clock is not behind the files or the last compilation, and nothing is compiled
\* or wanted that is not in the sources.
TypeScriptTypeOK ==
  /\ clock \in Nat /\ last \in 0..clock /\ modTime \in [Sources -> 0..clock]
  /\ {source, built} \subseteq Versions /\ lateEdits \in [Sources -> SUBSET Nat]
  /\ page \in [Pages -> Page]
  /\ \A p \in Pages, f \in Sources : page[p].wanted[f] <= source[f]

\* The file that is compiled from edit v of f is as new as edit w, or w was late.
Covers(f, v, w) == v >= w \/ w \in lateEdits[f]

\* A page that is answered loads files compiled from sources at least as new as
\* those at the time of the request, except for edits that fell into a compilation or
\* into the instant of its end.
ServedIsCurrent ==
  \A p \in Pages : page[p].pc = "ok" => \A f \in Sources : Covers(f, built[f], page[p].wanted[f])

\* An edit that is passed over, because its file is out of date and yet no newer
\* than the last compilation, was made during a compilation or in the instant of
\* its end.
PassedOverOnlyIfLate ==
  \A f \in Sources : modTime[f] <= last => Covers(f, built[f], source[f])

\* What a compilation has read misses only late edits, and what it leaves as it is misses
\* only those too.
CompilationsCover ==
  \A p \in Compiling, f \in Sources :
    IF f \in page[p].modified
    THEN page[p].pc = "emit" => /\ page[p].read[f] >= page[p].wanted[f]
                                /\ \A w \in page[p].read[f] + 1..source[f] : w \in lateEdits[f]
    ELSE Covers(f, built[f], source[f]) /\ Covers(f, built[f], page[p].wanted[f])

\* Pages are current, and no edit is forgotten, except for edits during a compilation
\* (TypescriptSources.Compile, JSServer.ServeJS).
PagesCurrent == TypeScriptTypeOK /\ ServedIsCurrent /\ PassedOverOnlyIfLate /\ CompilationsCover
=============================================================================
