---------------------------- MODULE WebhookRelay ----------------------------
(***************************************************************************)
(* The webhook relay of package webhooks: POST requests that carry a       *)
(* webhook are validated and put into a bounded FIFO that drops its oldest *)
(* entry when it is full; long polling GET requests take them out again.   *)
(*                                                                         *)
(* Every HTTP request is a process: net/http runs its handler in a         *)
(* goroutine of its own and cancels the request's context when the client  *)
(* goes away.  A handler is split into one action per point at which it    *)
(* can block or be overtaken (reading the body, the two selects, the       *)
(* counter and response that follow a select).  The FIFO is the goroutine  *)
(* of patterns.FIFO, an external package: one step of it per rendezvous on *)
(* In() or Out(), and one per delivery its periodic scan looks at.         *)
(*                                                                         *)
(* A delivery is known by the request that brought it; its payload and the *)
(* forwarded headers are not looked at by the relay and are left out.      *)
(***************************************************************************)
EXTENDS Integers, Sequences, FiniteSets

CONSTANTS
  Reqs,            \* the HTTP requests that may arrive
  RequestKinds,    \* what a request may look like (see RequestType)
  Validator,       \* "noop" or "signature"
  Tokens,          \* the secrets getTokens returns, in order
  QueueSize,       \* WithQueueSize; 0 selects DefaultQueueSize
  DefaultQueueSize,
  MaxPayloadSize,  \* WithMaxPayloadSize; 0 selects DefaultPayloadLimit
  DefaultPayloadLimit,
  Expiry,          \* WithExpiry's ttl; <= 0 disables expiry
  ScanInterval,    \* WithExpiry's scanInterval; <= 0 selects the ttl
  MaxTime          \* bound on the clock

RequestType ==
  [path   : {"delivery", "relay", "other"},
   method : {"GET", "POST"},
   length : Int,        \* the declared Content-Length, -1 when unknown
   size   : Nat,        \* the bytes that are really sent
   json   : BOOLEAN,    \* Content-Type is application/json
   body   : BOOLEAN,    \* req.Body is not nil
   sig    : {"missing", "malformed", "s1", "s2", "s3"}]
                        \* the signature header, or the secret it was made with

ASSUME RelayAssumption ==
  /\ RequestKinds \subseteq RequestType
  /\ Validator \in {"noop", "signature"}
  /\ Tokens \in Seq({"s1", "s2", "s3"})
  /\ QueueSize \in Nat
  /\ DefaultQueueSize \in Nat \ {0}
  /\ MaxPayloadSize \in Nat
  /\ DefaultPayloadLimit \in Nat \ {0}
  /\ Expiry \in Int
  /\ ScanInterval \in Int
  /\ MaxTime \in Nat

\* Only finitely many requests arrive while the relay runs: the counters are numbers.
ASSUME FiniteRequests == IsFiniteSet(Reqs)

VARIABLES
  now,      \* time.Now(), in ticks
  running,  \* the FIFO's goroutine has not been stopped
  due,      \* ticks until the ticker of the periodic scan fires
  scan,     \* 0, or the position the periodic scan looks at next
  queue,    \* the FIFO's buffer, oldest delivery first
  pc,       \* pc[r]: where the handler of r is
  req,      \* req[r]: what request r looks like
  gone,     \* the requests whose context has been cancelled
  job,      \* job[r]: the delivery the handler of r is sending or has received
  code,     \* code[r]: the status written for r, 0 when none was
  denied, relayed, read,  \* the three counters of WithCounters
  sent,     \* history: how many deliveries the FIFO has accepted
  last,     \* history: the number of the delivery taken last
  fate      \* history: fate[r]: what became of the delivery r brought

vars == <<now, running, due, scan, queue, pc, req, gone, job, code,
          denied, relayed, read, sent, last, fate>>

(***************************************************************************)
(* The options, with the defaults NewRelay and expiryScan fill in.         *)
(***************************************************************************)
Size == IF QueueSize = 0 THEN DefaultQueueSize ELSE QueueSize

PayloadLimit == IF MaxPayloadSize = 0 THEN DefaultPayloadLimit ELSE MaxPayloadSize

ExpiryEnabled == Expiry > 0

Interval == IF ScanInterval <= 0 THEN Expiry ELSE ScanInterval

\* A delivery: who brought it, its expiration, and two history fields, its
\* number in the order of acceptance and the time at which it was accepted.
Delivery == [from : Reqs, expiration : Int, n : Nat, at : Nat]

\* The delivery of r before the FIFO has it.
NewDelivery(r, expiration) == [from |-> r, expiration |-> expiration, n |-> 0, at |-> 0]

Codes == {0, 200, 202, 400, 401, 404, 405, 413, 415, 500}
Fates == {"none", "queued", "taken", "delivered", "unsent",
          "dropped", "expired", "discarded"}
PCs == {"idle", "validate", "select", "sent", "wait", "got", "done"}

Init ==
  /\ now = 0
  /\ running = TRUE
  /\ due = Interval
  /\ scan = 0
  /\ queue = <<>>
  /\ pc = [r \in Reqs |-> "idle"]
  /\ req \in [Reqs -> RequestKinds]
  /\ gone = {}
  /\ job = [r \in Reqs |-> NewDelivery(r, 0)]
  /\ code = [r \in Reqs |-> 0]
  /\ denied = 0
  /\ relayed = 0
  /\ read = 0
  /\ sent = 0
  /\ last = 0
  /\ fate = [r \in Reqs |-> "none"]

(***************************************************************************)
(* Handler: routing, and the checks both handlers make before anything     *)
(* else.  0 stands for "go on".                                            *)
(***************************************************************************)
ServeWebhookCheck(q) ==
  IF q.length > PayloadLimit THEN 413
  ELSE IF ~q.json THEN 415
  ELSE IF q.method # "POST" THEN 405
  ELSE IF ~q.body THEN 400
  ELSE 0

WaitForWebhookCheck(q) == IF q.method # "GET" THEN 405 ELSE 0

Handler(r) ==
  LET q == req[r]
      check == CASE q.path = "delivery" -> ServeWebhookCheck(q)
                 [] q.path = "relay"    -> WaitForWebhookCheck(q)
                 [] q.path = "other"    -> 404
  IN  /\ pc[r] = "idle"
      /\ code' = [code EXCEPT ![r] = check]
      /\ pc' = [pc EXCEPT ![r] = CASE check # 0 -> "done"
                                   [] check = 0 /\ q.path = "delivery" -> "validate"
                                   [] check = 0 /\ q.path = "relay" -> "wait"]
      /\ UNCHANGED <<now, running, due, scan, queue, req, gone, job,
                     denied, relayed, read, sent, last, fate>>

(***************************************************************************)
(* Validation.  Both validators read the whole body first; the read fails  *)
(* when http.MaxBytesReader's limit is hit, and may fail when the client   *)
(* has gone.  Each operator is the set of statuses a call may return: the  *)
(* fetch of the tokens, for one, may fail.                                 *)
(***************************************************************************)
\* Mutant: the body is read without http.MaxBytesReader.
ReadUnlimited(q, cancelled) == {b \in BOOLEAN : b => cancelled}

ReadAllFails(q, cancelled) ==
  {b \in BOOLEAN : /\ q.size > PayloadLimit => b
                   /\ b => q.size > PayloadLimit \/ cancelled}

SHA256SignatureFromHeader(q) == IF q.sig \in {"missing", "malformed"} THEN 400 ELSE 200

SignatureMatches(q) == \E i \in DOMAIN Tokens : Tokens[i] = q.sig

SignatureValidator(q, readFails) ==
  IF readFails THEN {400}
  ELSE IF SHA256SignatureFromHeader(q) # 200 THEN {SHA256SignatureFromHeader(q)}
  ELSE {500} \cup (IF SignatureMatches(q) THEN {200} ELSE {401})

NoopValidator(q, readFails) == IF readFails THEN {400} ELSE {200}

Validate(q, readFails) ==
  IF Validator = "noop" THEN NoopValidator(q, readFails) ELSE SignatureValidator(q, readFails)

\* ServeWebhook rejects the payload.
Reject(r, status) ==
  /\ status # 200
  /\ code' = [code EXCEPT ![r] = status]
  /\ denied' = IF status >= 400 /\ status < 500 THEN denied + 1 ELSE denied
  /\ pc' = [pc EXCEPT ![r] = "done"]
  /\ UNCHANGED job

\* The context is already cancelled: ServeWebhook returns without a response.
Abandon(r, status) ==
  /\ status = 200
  /\ r \in gone
  /\ pc' = [pc EXCEPT ![r] = "done"]
  /\ UNCHANGED <<code, denied, job>>

\* ServeWebhook enters its select, which evaluates the delivery to be sent, and
\* with it the expiration, before the FIFO is ready to receive it.
EnterSelect(r, status) ==
  /\ status = 200
  /\ r \notin gone
  /\ job' = [job EXCEPT ![r] = NewDelivery(r, now + Expiry)]
  /\ pc' = [pc EXCEPT ![r] = "select"]
  /\ UNCHANGED <<code, denied>>

ServeWebhookValidate(r) ==
  /\ pc[r] = "validate"
  /\ \E readFails \in ReadAllFails(req[r], r \in gone) :
       \E status \in Validate(req[r], readFails) :
         Reject(r, status) \/ Abandon(r, status) \/ EnterSelect(r, status)
  /\ UNCHANGED <<now, running, due, scan, queue, req, gone, relayed, read, sent, last, fate>>

(***************************************************************************)
(* The FIFO, as the relay uses it.  Its goroutine serves one request at a  *)
(* time: a receive from In(), a send on Out(), or a periodic scan.         *)
(***************************************************************************)
Serving == running /\ scan = 0

Full == Len(queue) = Size

\* Mutant: the newest delivery makes room, not the oldest.
EnqueueDropsNewest(d) == IF Full THEN Append(SubSeq(queue, 1, Len(queue) - 1), d) ELSE Append(queue, d)

Enqueue(d) == IF Full THEN Append(Tail(queue), d) ELSE Append(queue, d)

\* The delivery of r as it enters the FIFO.
Accepted(r) == [from |-> r, expiration |-> job[r].expiration, n |-> sent + 1, at |-> now]

\* The select of ServeWebhook, first case: the FIFO receives the delivery.
ServeWebhookSend(r) ==
  /\ pc[r] = "select"
  /\ Serving
  /\ queue' = Enqueue(Accepted(r))
  /\ sent' = sent + 1
  /\ fate' = IF Full
             THEN [fate EXCEPT ![Head(queue).from] = "dropped", ![r] = "queued"]
             ELSE [fate EXCEPT ![r] = "queued"]
  /\ pc' = [pc EXCEPT ![r] = "sent"]
  /\ UNCHANGED <<now, running, due, scan, req, gone, job, code, denied, relayed, read, last>>

\* Mutant: the context is looked at only while the FIFO serves.
CancelledWhileServing(r) ==
  /\ pc[r] = "select"
  /\ r \in gone
  /\ Serving
  /\ pc' = [pc EXCEPT ![r] = "done"]
  /\ UNCHANGED <<now, running, due, scan, queue, req, gone, job, code,
                 denied, relayed, read, sent, last, fate>>

\* Second case: the context is done.  Nothing is written.
ServeWebhookCancelled(r) ==
  /\ pc[r] = "select"
  /\ r \in gone
  /\ pc' = [pc EXCEPT ![r] = "done"]
  /\ UNCHANGED <<now, running, due, scan, queue, req, gone, job, code,
                 denied, relayed, read, sent, last, fate>>

\* What follows the first case: the relayed counter, then 202.
ServeWebhookAccepted(r) ==
  /\ pc[r] = "sent"
  /\ relayed' = relayed + 1
  /\ code' = [code EXCEPT ![r] = 202]
  /\ pc' = [pc EXCEPT ![r] = "done"]
  /\ UNCHANGED <<now, running, due, scan, queue, req, gone, job, denied, read, sent, last, fate>>

\* Mutant: the delivery is handed out and stays in the buffer.
ReceivePeeks(r) ==
  /\ pc[r] = "wait"
  /\ Serving
  /\ queue # <<>>
  /\ job' = [job EXCEPT ![r] = Head(queue)]
  /\ last' = Head(queue).n
  /\ fate' = [fate EXCEPT ![Head(queue).from] = "taken"]
  /\ pc' = [pc EXCEPT ![r] = "got"]
  /\ UNCHANGED <<now, running, due, scan, queue, req, gone, code, denied, relayed, read, sent>>

\* The select of WaitForWebhook, first case: a delivery is taken from the FIFO.
WaitForWebhookReceive(r) ==
  /\ pc[r] = "wait"
  /\ Serving
  /\ queue # <<>>
  /\ job' = [job EXCEPT ![r] = Head(queue)]
  /\ queue' = Tail(queue)
  /\ last' = Head(queue).n
  /\ fate' = [fate EXCEPT ![Head(queue).from] = "taken"]
  /\ pc' = [pc EXCEPT ![r] = "got"]
  /\ UNCHANGED <<now, running, due, scan, req, gone, code, denied, relayed, read, sent>>

\* Mutant: Stop does not close Out(), only the client's leaving ends the wait.
ClosedNeedsCancel(r) ==
  /\ pc[r] = "wait"
  /\ ~running
  /\ r \in gone
  /\ pc' = [pc EXCEPT ![r] = "done"]
  /\ UNCHANGED <<now, running, due, scan, queue, req, gone, job, code,
                 denied, relayed, read, sent, last, fate>>

\* Same case with !ok: Out() was closed by Stop.  Nothing is written.
WaitForWebhookClosed(r) ==
  /\ pc[r] = "wait"
  /\ ~running
  /\ pc' = [pc EXCEPT ![r] = "done"]
  /\ UNCHANGED <<now, running, due, scan, queue, req, gone, job, code,
                 denied, relayed, read, sent, last, fate>>

\* Second case: the context is done.  Nothing is written.
WaitForWebhookCancelled(r) ==
  /\ pc[r] = "wait"
  /\ r \in gone
  /\ pc' = [pc EXCEPT ![r] = "done"]
  /\ UNCHANGED <<now, running, due, scan, queue, req, gone, job, code,
                 denied, relayed, read, sent, last, fate>>

\* Mutant: the read counter skips writes that failed.
WriteCountsSuccess(r) ==
  /\ pc[r] = "got"
  /\ code' = [code EXCEPT ![r] = 200]
  /\ fate' = [fate EXCEPT ![job[r].from] = IF r \in gone THEN "unsent" ELSE "delivered"]
  /\ read' = IF r \in gone THEN read ELSE read + 1
  /\ pc' = [pc EXCEPT ![r] = "done"]
  /\ UNCHANGED <<now, running, due, scan, queue, req, gone, job, denied, relayed, sent, last>>

\* What follows a receive: headers and payload are written, an error of the
\* write is ignored, and the read counter is incremented.  A client that has
\* gone does not get the payload.
WaitForWebhookWrite(r) ==
  /\ pc[r] = "got"
  /\ code' = [code EXCEPT ![r] = 200]
  /\ fate' = [fate EXCEPT ![job[r].from] = IF r \in gone THEN "unsent" ELSE "delivered"]
  /\ read' = read + 1
  /\ pc' = [pc EXCEPT ![r] = "done"]
  /\ UNCHANGED <<now, running, due, scan, queue, req, gone, job, denied, relayed, sent, last>>

\* Mutant: a delivery is taken out in its last tick.
ExpiredEarly(d) == now >= d.expiration

\* The FIFO's periodic scan calls remove on the delivery at position scan.
Expired(d) == now > d.expiration
RemoveAt(s, i) == SubSeq(s, 1, i - 1) \o SubSeq(s, i + 1, Len(s))

\* Mutants: the scan skips the delivery that moved up into the removed one's
\* place; the scan never gives the goroutine back.
ScanSkips ==
  /\ scan > 0
  /\ IF scan > Len(queue)
     THEN scan' = 0 /\ UNCHANGED <<queue, fate>>
     ELSE /\ scan' = scan + 1
          /\ IF Expired(queue[scan])
             THEN /\ queue' = RemoveAt(queue, scan)
                  /\ fate' = [fate EXCEPT ![queue[scan].from] = "expired"]
             ELSE UNCHANGED <<queue, fate>>
  /\ UNCHANGED <<now, running, due, pc, req, gone, job, code, denied, relayed, read, sent, last>>
ScanNeverEnds ==
  /\ scan > 0
  /\ scan <= Len(queue)
  /\ scan' = scan + 1
  /\ UNCHANGED <<queue, fate>>
  /\ UNCHANGED <<now, running, due, pc, req, gone, job, code, denied, relayed, read, sent, last>>

Scan ==
  /\ scan > 0
  /\ IF scan > Len(queue)
     THEN scan' = 0 /\ UNCHANGED <<queue, fate>>
     ELSE IF Expired(queue[scan])
     THEN /\ queue' = RemoveAt(queue, scan)
          /\ fate' = [fate EXCEPT ![queue[scan].from] = "expired"]
          /\ UNCHANGED scan
     ELSE scan' = scan + 1 /\ UNCHANGED <<queue, fate>>
  /\ UNCHANGED <<now, running, due, pc, req, gone, job, code, denied, relayed, read, sent, last>>

\* Mutant: Stop leaves what is queued where it is.
StopLeavesQueue ==
  /\ Serving
  /\ running' = FALSE
  /\ UNCHANGED <<now, due, scan, queue, pc, req, gone, job, code,
                 denied, relayed, read, sent, last, fate>>

\* Stop, or the cancellation of the context given to NewRelay: the goroutine
\* exits between two requests, what is still queued is lost, Out() is closed.
Stop ==
  /\ Serving
  /\ running' = FALSE
  /\ queue' = <<>>
  /\ fate' = [r \in Reqs |-> IF fate[r] = "queued" THEN "discarded" ELSE fate[r]]
  /\ UNCHANGED <<now, due, scan, pc, req, gone, job, code, denied, relayed, read, sent, last>>

\* The client of r goes away: net/http cancels the request's context.
Cancel(r) ==
  /\ pc[r] \notin {"idle", "done"}
  /\ r \notin gone
  /\ gone' = gone \cup {r}
  /\ UNCHANGED <<now, running, due, scan, queue, pc, req, job, code,
                 denied, relayed, read, sent, last, fate>>

\* The clock advances; the ticker of the periodic scan fires every Interval
\* ticks.  A scan takes no time: the clock waits for it.
Tick ==
  /\ now < MaxTime
  /\ scan = 0
  /\ now' = now + 1
  /\ IF running /\ ExpiryEnabled
     THEN IF due = 1 THEN due' = Interval /\ scan' = 1
                     ELSE due' = due - 1 /\ UNCHANGED scan
     ELSE UNCHANGED <<due, scan>>
  /\ UNCHANGED <<running, queue, pc, req, gone, job, code,
                 denied, relayed, read, sent, last, fate>>

\* The steps of the goroutine that serves request r.
HandlerStep(r) ==
  \/ ServeWebhookValidate(r)
  \/ ServeWebhookSend(r)
  \/ ServeWebhookCancelled(r)
  \/ ServeWebhookAccepted(r)
  \/ WaitForWebhookReceive(r)
  \/ WaitForWebhookClosed(r)
  \/ WaitForWebhookCancelled(r)
  \/ WaitForWebhookWrite(r)

Next ==
  \/ \E r \in Reqs : Handler(r) \/ HandlerStep(r) \/ Cancel(r)
  \/ Scan
  \/ Stop
  \/ Tick

Spec == Init /\ [][Next]_vars

\* A goroutine whose next step stays possible takes it.  Requests need not
\* arrive, clients need not go away, nobody need call Stop.
Fairness == WF_vars(Scan) /\ \A r \in Reqs : WF_vars(HandlerStep(r))

FairSpec == Spec /\ Fairness

-----------------------------------------------------------------------------
(***************************************************************************)
(* Properties.                                                             *)
(***************************************************************************)

\* The type of every variable (relay.go, the fields of Relay and delivery).
TypeOK ==
  /\ now \in Nat
  /\ running \in BOOLEAN
  /\ due \in Int
  /\ scan \in Nat
  /\ queue \in Seq(Delivery)
  /\ pc \in [Reqs -> PCs]
  /\ req \in [Reqs -> RequestKinds]
  /\ gone \subseteq Reqs
  /\ job \in [Reqs -> Delivery]
  /\ code \in [Reqs -> Codes]
  /\ denied \in Nat
  /\ relayed \in Nat
  /\ read \in Nat
  /\ sent \in Nat
  /\ last \in Nat
  /\ fate \in [Reqs -> Fates]

\* The buffer holds at most Size deliveries, in the order in which ServeWebhook
\* handed them over, all of them newer than any delivery a poll has taken:
\* whatever is dropped, expired or taken in between, order is kept.
QueueOrdered ==
  /\ Len(queue) <= Size
  /\ \A i \in 1..Len(queue) : queue[i].n > last /\ queue[i].n <= sent
  /\ \A i, j \in 1..Len(queue) : i < j => queue[i].n < queue[j].n

\* Every accepted delivery is in one place only: in the buffer once, in the hands
\* of one poll (between the receive and the write of WaitForWebhook), or gone for
\* good.  No delivery reaches two polls, none vanishes without a recorded reason.
InQueue(r) == \E i \in 1..Len(queue) : queue[i].from = r
HeldBy(r, p) == pc[p] = "got" /\ job[p].from = r
OnePlace ==
  /\ \A r \in Reqs : fate[r] = "queued" <=> InQueue(r)
  /\ \A r \in Reqs : fate[r] = "taken" <=> \E p \in Reqs : HeldBy(r, p)
  /\ \A i, j \in 1..Len(queue) : queue[i].from = queue[j].from => i = j
  /\ \A p, q \in Reqs : pc[p] = "got" /\ pc[q] = "got" /\ job[p].from = job[q].from => p = q

\* The requests whose delivery entered the FIFO, those whose handler has not yet
\* counted it, those whose delivery a poll has written, the polls that wrote one, and
\* the requests that the validator turned away with a 4xx.
Entered == {r \in Reqs : fate[r] # "none"}
Uncounted == {r \in Reqs : pc[r] = "sent"}
Written == {r \in Reqs : fate[r] \in {"delivered", "unsent"}}
Answered == {r \in Reqs : code[r] = 200}
TurnedAway == {r \in Reqs : /\ req[r].path = "delivery"
                            /\ ServeWebhookCheck(req[r]) = 0
                            /\ code[r] \in {400, 401}}

\* The counters add up: relayed lags the FIFO by exactly the handlers that have
\* sent and not yet counted, and read counts the writes, so read may run ahead of
\* relayed by as much (relayedCounter and readCounter of WithCounters).
Counted ==
  /\ relayed + Cardinality(Uncounted) = Cardinality(Entered)
  /\ read = Cardinality(Written)
  /\ read <= relayed + Cardinality(Uncounted)

\* A sender is told 202 exactly when its delivery entered the FIFO, and a poll is
\* answered with a payload at most once per delivery (ServeWebhook, WaitForWebhook).
AcceptedIffRelayed ==
  /\ \A r \in Reqs : code[r] = 202 => fate[r] # "none"
  /\ \A r \in Reqs : pc[r] = "done" /\ fate[r] # "none" => code[r] = 202
  /\ Cardinality(Answered) = Cardinality(Written)

\* A delivery is handed over at most once and in order, and both sides are told so:
\* the buffer, the polls and the answers tell the same story in every interleaving.
DeliveriesSound == TypeOK /\ QueueOrdered /\ OnePlace /\ AcceptedIffRelayed

\* The denied counter counts the requests the validator turned away with a 4xx:
\* not the ones the earlier checks answer with a 4xx, not a failure to get the
\* tokens (deniedCounter of WithCounters).
Denied == denied = Cardinality(TurnedAway)

\* Only a payload within the limit, sent as it should be and signed with one of
\* the tokens (when signatures are asked for) ever gets into the FIFO.
Admissible(q) ==
  /\ q.path = "delivery" /\ q.method = "POST" /\ q.json
  /\ q.size <= PayloadLimit
  /\ Validator = "signature" => \E i \in DOMAIN Tokens : Tokens[i] = q.sig
OnlyValidRelayed == \A r \in Reqs : fate[r] # "none" => Admissible(req[r])

\* WithExpiry: with a ttl, no delivery stays in the buffer for more than one scan
\* interval after it expired (or was accepted, if it was sent so late that it had
\* expired by then).
StalenessBound ==
  ExpiryEnabled =>
    \A i \in 1..Len(queue) :
      \/ now <= queue[i].expiration + Interval
      \/ now <= queue[i].at + Interval

\* What may happen to a queued delivery in one step.
LostOnlyStep ==
  \A r \in Reqs : fate[r] = "queued" /\ fate'[r] # "queued" =>
    \/ fate'[r] = "taken" /\ Head(queue).from = r
    \/ fate'[r] = "dropped" /\ Len(queue) = Size /\ Head(queue).from = r
    \/ /\ fate'[r] = "expired" /\ ExpiryEnabled
       /\ \E i \in 1..Len(queue) : queue[i].from = r /\ now > queue[i].expiration
    \/ fate'[r] = "discarded" /\ running /\ ~running'

\* The documented losses are the only ones: the FIFO drops a delivery only when it
\* is full, and then the oldest; the scan drops only expired ones, and only when
\* expiry is enabled; nothing is discarded unless the relay is stopped.
LostOnly == [][LostOnlyStep]_vars

\* A request whose client has gone is finished with eventually, even when the
\* relay has been stopped and In() will never again be received from.
CancelledFinish == \A r \in Reqs : (r \in gone) ~> (pc[r] = "done")

\* Stop releases every poll that waits in WaitForWebhook.
StopReleasesPolls == \A r \in Reqs : (~running /\ pc[r] = "wait") ~> (pc[r] = "done")

\* A poll does not sleep on a buffer that has something for it.
NoLostWakeup == \A r \in Reqs :
  (pc[r] = "wait" /\ queue # <<>>) ~> (pc[r] # "wait" \/ queue = <<>>)

(***************************************************************************)
(* The inductive invariant behind the safety properties.                   *)
(***************************************************************************)

\* A stopped FIFO holds nothing and does not scan, nor does one without expiry;
\* only what has been accepted has been taken.
FifoInv ==
  /\ ~running => queue = <<>> /\ scan = 0
  /\ scan > 0 => ExpiryEnabled
  /\ last <= sent

\* A delivery has no fate before its handler's select has sent it.
UnsentInv == \A r \in Reqs : pc[r] \in {"idle", "validate", "select"} => fate[r] = "none"

\* What the last scan, Interval - due ticks ago, has looked at expired later than
\* it or was accepted later; what a running scan has not yet looked at was fresh
\* at the scan before.
FreshAt(d, t) == d.expiration >= t \/ d.at >= t
ScanInv ==
  ExpiryEnabled =>
    /\ due \in 1..Interval
    /\ scan > 0 => due = Interval
    /\ \A i \in 1..Len(queue) :
         FreshAt(queue[i], IF scan = 0 \/ i < scan THEN now - (Interval - due)
                                                   ELSE now - Interval)

\* The conjunction, which every action preserves: it is what makes QueueOrdered,
\* OnePlace and StalenessBound hold after a step of any handler.
IInv == TypeOK /\ QueueOrdered /\ OnePlace /\ FifoInv /\ UnsentInv /\ ScanInv

\* The handler of r is where the checks of its request and the fate of its delivery
\* allow it to be, has answered only when done, and has then told what happened.
RequestInv(r) ==
  /\ pc[r] = "validate" => req[r].path = "delivery" /\ ServeWebhookCheck(req[r]) = 0
  /\ pc[r] \in {"select", "sent"} \/ fate[r] # "none" => Admissible(req[r])
  /\ pc[r] \in {"wait", "got"} => fate[r] = "none"
  /\ pc[r] = "sent" => fate[r] # "none"
  /\ pc[r] # "done" => code[r] = 0
  /\ code[r] = 202 => fate[r] # "none"
  /\ pc[r] = "done" /\ fate[r] # "none" => code[r] = 202

\* The validator's verdict is final, and the answers and the counters agree with what
\* became of the deliveries, also beside requests that are turned away for other
\* reasons.  With IInv every action preserves it; OnlyValidRelayed and
\* AcceptedIffRelayed follow (ServeWebhook, WaitForWebhook, WithCounters).
AnswerInv ==
  /\ \A r \in Reqs : RequestInv(r)
  /\ Cardinality(Answered) = Cardinality(Written)
  /\ Counted /\ Denied

\* The refinement mapping: the numbers of the buffered deliveries are pending.
Pending == {queue[i].n : i \in 1..Len(queue)}
Queue == INSTANCE LossyQueue WITH
  Size     <- Size,
  Expires  <- ExpiryEnabled,
  open     <- running,
  accepted <- sent,
  pending  <- Pending,
  taken    <- last

\* The relay is a lossy queue: every step of a handler, of the scan, of the clock or of
\* Stop is a step of LossyQueue or leaves it alone.
IsLossyQueue == Queue!Spec

-----------------------------------------------------------------------------
(***************************************************************************)
(* What the repository's comments say and the code does not do.            *)
(***************************************************************************)

\* relay.go, WithCounters: "readCounter is incremented when a payload is
\* successfully read from the FIFO and sent to a client."
ReadMeansSent == read = Cardinality({r \in Reqs : fate[r] = "delivered"})

\* relay_test.go: "a poll whose context is already cancelled returns without a
\* body only if there is nothing to deliver."
EmptyAnswerMeansEmptyQueue ==
  [][\A r \in Reqs : pc[r] = "wait" /\ pc'[r] = "done" => queue = <<>>]_vars

=============================================================================
