----------------------------- MODULE MCProcesses ---------------------------
(***************************************************************************)
(* Instances for TLC of what waits for a process or a goroutine: serving   *)
(* and shutting down, waiting for servers, and the tools for development   *)
(* and tests (child processes, browser events and TypeScript pages).  They *)
(* share nothing, and a behaviour is one of a single part while the others *)
(* stay as they start.                                                     *)
(***************************************************************************)
EXTENDS ServeShutdown, WaitFor, ChildProcess, BrowserEvents, TypeScript

VARIABLE part

\* Two pebble configurations in one process, the waits of pebbletest with channels
\* of two sizes, and waits in the wrong order.
Pebble(cap) ==
  [lines |-> <<"mgmt", "noise", "acme", "noise", "authorized", "issued", "noise">>,
   calls |-> <<"config", "config", "start", "ready", "connect", "authorized", "issued", "newcert", "stop">>,
   periods |-> <<3, 0, 0, 0, 0, 0, 0, 0, 0>>, cap |-> cap]
WrongOrder ==
  [Pebble(2) EXCEPT !.calls = <<"start", "issued", "authorized", "stop">>, !.periods = <<0, 0, 0, 0>>]

\* A development server whose URL is found, or malformed, and which goes on printing.
DevServer(calls, line) ==
  [lines |-> <<"noise", line, "noise", "noise", "noise">>, calls |-> calls,
   periods |-> <<0, 0, 0>>, cap |-> 1]

Plays ==
  {Pebble(1), Pebble(2), WrongOrder, DevServer(<<"start", "url">>, "url"),
   DevServer(<<"start", "url", "close">>, "url"), DevServer(<<"start", "url">>, "badurl")}

HandlerLists ==
  {<<"console">>, <<"console", "exception", "any">>, <<"exception">>, <<"any", "console">>}

\* The two pages, and the two sources, are interchangeable: of the behaviours that differ
\* only by their exchange one is kept, in which the first is requested, or edited, first.
PagesInOrder ==
  /\ page'[1].pc = "idle" => page'[2].pc = "idle"
  /\ source'[1] = 1 => source'[2] = 1

NoChild == ChildInit /\ scene = WrongOrder /\ certFile = "absent"
NoBrowser == BrowserInit /\ handlers = <<"console">>
NoServer == Init /\ config = "http" /\ base = "ctx" /\ ~ ctxDone
NoWait == WaitInit /\ ~ urls /\ up = {}

allVars == <<part, vars, waitVars, childVars, browserVars, tsVars>>

ProcessInit ==
  /\ part \in {"serve", "wait", "child", "browser", "typescript"}
  /\ IF part = "serve" THEN Init ELSE NoServer
  /\ IF part = "wait" THEN WaitInit ELSE NoWait
  /\ IF part = "child" THEN ChildInit ELSE NoChild
  /\ IF part = "browser" THEN BrowserInit ELSE NoBrowser
  /\ TypeScriptInit

ProcessNext ==
  /\ \/ part = "serve" /\ Next /\ UNCHANGED <<waitVars, childVars, browserVars, tsVars>>
     \/ part = "wait" /\ WaitNext /\ UNCHANGED <<vars, childVars, browserVars, tsVars>>
     \/ part = "child" /\ ChildNext /\ UNCHANGED <<vars, waitVars, browserVars, tsVars>>
     \/ part = "browser" /\ BrowserNext /\ UNCHANGED <<vars, waitVars, childVars, tsVars>>
     \/ /\ part = "typescript" /\ TypeScriptNext /\ PagesInOrder
        /\ UNCHANGED <<vars, waitVars, childVars, browserVars>>
  /\ UNCHANGED part

\* The server's goroutines run, and a handler that heeds its context returns once it
\* is done.  Every pinger runs and its ticker fires; a select with two ready cases
\* picks one at random, so that it does not pass over the context for ever.  The
\* child prints and its output is forwarded; a call that can go on does.  The
\* browser answers, its loop runs, and so do the listener and its goroutines.
ProcessSpec ==
  /\ ProcessInit
  /\ [][ProcessNext]_allVars
  /\ WF_vars(part = "serve" /\ Goroutine)
  /\ WF_vars(part = "serve" /\ Caller)
  /\ \A r \in Patient : WF_vars(part = "serve" /\ RequestCancelled /\ Finish(r))
  /\ WF_waitVars(part = "wait" /\ Wait)
  /\ \A a \in Addrs : /\ WF_waitVars(part = "wait" /\ Pinger(a))
                      /\ SF_waitVars(part = "wait" /\ SelectDone(a))
  /\ WF_childVars(part = "child" /\ DriverStep)
  /\ WF_childVars(part = "child" /\ ChildWrites)
  /\ WF_childVars(part = "child" /\ Listens)
  /\ WF_childVars(part = "child" /\ FilterSends)
  /\ WF_browserVars(part = "browser" /\ Loop)
  /\ WF_browserVars(part = "browser" /\ Receive)
  /\ WF_browserVars(part = "browser" /\ (ListenerStops \/ ListenerEnds))
  /\ WF_browserVars(part = "browser" /\ \E e \in Events : Reply(e))
  /\ WF_browserVars(part = "browser" /\ \E e \in Events : ConsoleLogs(e))
=============================================================================
