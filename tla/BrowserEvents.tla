--------------------------- MODULE BrowserEvents ---------------------------
(***************************************************************************)
(* Logging a browser's events (devtest/chromedputil/listener.go).  The     *)
(* loop of chromedp, which is not part of the repository, handles the      *)
(* messages of the browser one at a time: an event is passed to the        *)
(* handlers, which send it to a channel, and the reply to a call is passed *)
(* to the caller.  The listener receives from the channels; to log a       *)
(* console event it has to call the browser, so that it depends on the     *)
(* loop that depends on it.                                                *)
(***************************************************************************)
EXTENDS Naturals, Sequences, FiniteSets, Functions

CONSTANTS
  Kinds,      \* the kinds of events, "console" among them
  HandlerSets,\* the sequences of handlers: kinds, or "any"
  MaxEvents,  \* bound on the events
  ChanCap     \* the capacity of the channels, 10 in the code

ASSUME BrowserAssumption ==
  HandlerSets \subseteq Seq(Kinds \cup {"any"}) /\ ChanCap \in Nat

VARIABLES
  handlers,   \* loggingOptions.handlers
  kind,       \* the kinds of the events so far, in order
  place,      \* place[e]: where event e is
  inbox,      \* the messages for the loop: events, and negative for replies
  chans,      \* chans[h]: the events in the channel of handler h
  sending,    \* the event that the loop is sending, 0 for none
  listener,   \* "select", "busy", "draining" or "ended" (doneCh is closed)
  browserDone \* the context is done

browserVars == <<handlers, kind, place, inbox, chans, sending, listener, browserDone>>

Events == DOMAIN kind

\* RunLoggingListener.
BrowserInit ==
  /\ handlers \in HandlerSets
  /\ kind = <<>>
  /\ place = <<>>
  /\ inbox = <<>>
  /\ chans = [h \in Kinds \cup {"any"} |-> <<>>]
  /\ sending = 0
  /\ listener = "select"
  /\ browserDone = FALSE

-----------------------------------------------------------------------------
(***************************************************************************)
(* The browser and the loop.                                               *)
(***************************************************************************)
Emit ==
  /\ Len(kind) < MaxEvents
  /\ \E k \in Kinds : kind' = Append(kind, k)
  /\ place' = Append(place, "inbox")
  /\ inbox' = Append(inbox, [reply |-> FALSE, event |-> Len(kind) + 1])
  /\ UNCHANGED <<handlers, chans, sending, listener, browserDone>>

Reply(e) ==
  /\ place[e] = "asking"
  /\ place' = [place EXCEPT ![e] = "replied"]
  /\ inbox' = Append(inbox, [reply |-> TRUE, event |-> e])
  /\ UNCHANGED <<handlers, kind, chans, sending, listener, browserDone>>

\* Listen: the handlers are tried in turn, and the first that takes the event stops
\* the search.
Takers(e) == {i \in DOMAIN handlers : handlers[i] \in {kind[e], "any"}}
TakenBy(e, h) == \E i \in Takers(e) : handlers[i] = h /\ \A j \in Takers(e) : i <= j

LoopTakes ==
  /\ sending = 0
  /\ inbox # <<>>
  /\ inbox' = Tail(inbox)
  /\ LET e == Head(inbox).event
     IN  IF Head(inbox).reply
         THEN /\ place' = [place EXCEPT ![e] = IF @ = "replied" THEN "answered" ELSE @]
              /\ UNCHANGED sending
         ELSE /\ place' = [place EXCEPT ![e] = IF Takers(e) = {} THEN "dropped" ELSE "sending"]
              /\ sending' = IF Takers(e) = {} THEN 0 ELSE e
  /\ UNCHANGED <<handlers, kind, chans, listener, browserDone>>

\* NewListenHandler's select.
HandlerSends ==
  /\ sending # 0
  /\ \E h \in DOMAIN chans :
       /\ TakenBy(sending, h)
       /\ Len(chans[h]) < ChanCap
       /\ chans' = [chans EXCEPT ![h] = Append(@, sending)]
  /\ place' = [place EXCEPT ![sending] = "queued"]
  /\ sending' = 0
  /\ UNCHANGED <<handlers, kind, inbox, listener, browserDone>>

HandlerGivesUp ==
  /\ sending # 0
  /\ browserDone
  /\ place' = [place EXCEPT ![sending] = "dropped"]
  /\ sending' = 0
  /\ UNCHANGED <<handlers, kind, inbox, chans, listener, browserDone>>

-----------------------------------------------------------------------------
(***************************************************************************)
(* The listener.                                                           *)
(***************************************************************************)

\* Mutant: console events are handled in the listener itself.
ListenerReceivesInTurn(h) ==
  /\ listener = "select"
  /\ chans[h] # <<>>
  /\ chans' = [chans EXCEPT ![h] = Tail(@)]
  /\ place' = [place EXCEPT ![Head(chans[h])] = IF h = "console" THEN "asking" ELSE "logged"]
  /\ listener' = IF h = "console" THEN "busy" ELSE "select"
  /\ UNCHANGED <<handlers, kind, inbox, sending, browserDone>>

\* A console event is handled by a goroutine of its own, the others are logged.
ListenerReceives(h) ==
  /\ listener = "select"
  /\ chans[h] # <<>>
  /\ chans' = [chans EXCEPT ![h] = Tail(@)]
  /\ place' = [place EXCEPT ![Head(chans[h])] = IF h = "console" THEN "asking" ELSE "logged"]
  /\ UNCHANGED <<handlers, kind, inbox, sending, listener, browserDone>>

\* The goroutine: ConsoleArgsAsJSON, which fails when the context is done.
ConsoleLogs(e) ==
  /\ \/ place[e] = "answered" /\ place' = [place EXCEPT ![e] = "logged"]
     \/ /\ place[e] \in {"asking", "replied"} /\ browserDone
        /\ place' = [place EXCEPT ![e] = "dropped"]
  /\ listener' = IF listener = "busy" THEN "select" ELSE listener
  /\ UNCHANGED <<handlers, kind, inbox, chans, sending, browserDone>>

ListenerStops ==
  /\ listener = "select"
  /\ browserDone
  /\ listener' = "draining"
  /\ UNCHANGED <<handlers, kind, place, inbox, chans, sending, browserDone>>

Outstanding == {e \in Events : place[e] \in {"asking", "replied", "answered"}}

\* wg.Wait, close(doneCh).
ListenerEnds ==
  /\ listener = "draining"
  /\ Outstanding = {}
  /\ listener' = "ended"
  /\ UNCHANGED <<handlers, kind, place, inbox, chans, sending, browserDone>>

BrowserCancel ==
  /\ ~ browserDone
  /\ browserDone' = TRUE
  /\ UNCHANGED <<handlers, kind, place, inbox, chans, sending, listener>>

Loop == LoopTakes \/ HandlerSends \/ HandlerGivesUp
Receive == \E h \in DOMAIN chans : ListenerReceives(h)
BrowserNext ==
  \/ Emit \/ Loop \/ Receive \/ ListenerStops \/ ListenerEnds \/ BrowserCancel
  \/ \E e \in Events : Reply(e) \/ ConsoleLogs(e)

BrowserSpec == BrowserInit /\ [][BrowserNext]_browserVars
-----------------------------------------------------------------------------
(***************************************************************************)
(* Properties.                                                             *)
(***************************************************************************)

Places == {"inbox", "sending", "queued", "asking", "replied", "answered", "logged", "dropped"}

\* The variables keep their types.
BrowserTypeOK ==
  /\ handlers \in HandlerSets
  /\ kind \in Seq(Kinds) /\ place \in Seq(Places) /\ Len(place) = Len(kind)
  /\ inbox \in Seq([reply : BOOLEAN, event : Events])
  /\ chans \in [Kinds \cup {"any"} -> Seq(Events)]
  /\ sending \in Events \cup {0}
  /\ listener \in {"select", "busy", "draining", "ended"}

\* Every event is in one place, and no event is lost: the loop has one message for each
\* that is new, and one for each reply;
InboxHolds ==
  /\ \A i \in DOMAIN inbox : place[inbox[i].event] \in IF inbox[i].reply THEN {"replied", "dropped"} ELSE {"inbox"}
  /\ \A i, j \in DOMAIN inbox : inbox[i].event = inbox[j].event => i = j
  /\ \A e \in Events :
       /\ place[e] = "inbox" => \E i \in DOMAIN inbox : inbox[i].event = e /\ ~ inbox[i].reply
       /\ place[e] = "replied" => \E i \in DOMAIN inbox : inbox[i].event = e /\ inbox[i].reply

\* it sends one at a time, which some handler takes;
OneSending ==
  /\ \A e \in Events : place[e] = "sending" <=> sending = e
  /\ sending # 0 => Takers(sending) # {}

\* and the channels hold exactly the queued events, once, each in the channel of the
\* first handler that takes it, within their capacity.
ChannelsHold ==
  /\ \A e \in Events : place[e] = "queued" => \E h \in DOMAIN chans : TakenBy(e, h)
  /\ \A h \in DOMAIN chans :
       /\ Len(chans[h]) <= ChanCap /\ IsInjective(chans[h])
       /\ Range(chans[h]) = {e \in Events : place[e] = "queued" /\ TakenBy(e, h)}

\* doneCh is closed when nothing of the listener runs any more: no goroutine that
\* would still log is left behind.
DoneMeansQuiet == listener = "ended" => Outstanding = {}

\* Every event that some handler takes is logged, or the context is done: the
\* listener, the loop and the goroutines never wait for each other in a circle, not
\* even when the channels are full of console events.
EventsLogged ==
  \A n \in 1..MaxEvents :
    (n \in Events /\ Takers(n) # {}) ~> (browserDone \/ (n \in Events /\ place[n] = "logged"))

\* The listener ends after the context is done, whatever was queued or on its way.
ListenerEndsWhenDone == browserDone ~> listener = "ended"

\* Where the events and the replies are, in every state (Listen, NewListenHandler and
\* RunLoggingListener).
BrowserInv == BrowserTypeOK /\ InboxHolds /\ OneSending /\ ChannelsHold /\ DoneMeansQuiet

\* The listener loses nothing, waits for nobody in a circle, ends with its context and
\* leaves nothing behind (RunLoggingListener).
ListenerSound == []BrowserInv /\ EventsLogged /\ ListenerEndsWhenDone
=============================================================================
