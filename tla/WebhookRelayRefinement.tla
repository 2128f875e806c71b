----------------------- MODULE WebhookRelayRefinement -----------------------
(***************************************************************************)
(* The proof that WebhookRelay implements LossyQueue: with the numbers of  *)
(* the queued deliveries for pending, every step of the relay is a step of *)
(* the abstract queue or leaves it alone.                                  *)
(***************************************************************************)
EXTENDS WebhookRelayProofs, FunctionTheorems, FiniteSetTheorems

\* There are as many pending numbers as queued deliveries, and the first queued
\* delivery is the oldest: this is where the order of the queue is used.
LEMMA PendingFacts ==
  ASSUME IInv
  PROVE  /\ Cardinality(Pending) = Len(queue)
         /\ \A i \in 1..Len(queue) : queue[i].n \in Pending
         /\ queue # <<>> => Queue!Oldest(queue[1].n)
<1> DEFINE f == [i \in 1..Len(queue) |-> queue[i].n]
<1>1. /\ Len(queue) \in Nat
      /\ \A i \in 1..Len(queue) : queue[i].n \in Nat
      /\ \A i, j \in 1..Len(queue) : i < j => queue[i].n < queue[j].n
  BY QueueFacts, Zenon
<1>2. f \in Surjection(1..Len(queue), Pending)
  BY Zenon DEF Surjection, Pending
<1>3. \A i, j \in 1..Len(queue) : queue[i].n = queue[j].n => i = j
  BY <1>1
<1>4. f \in Injection(1..Len(queue), Pending)
  <2>1. f \in [1..Len(queue) -> Pending]
    BY Zenon DEF Pending
  <2>2. \A i, j \in 1..Len(queue) : f[i] = f[j] => i = j
    BY <1>3, Zenon
  <2>3. QED
    BY <2>1, <2>2, Fun_IsInj, Zenon
<1>5. IsFiniteSet(1..Len(queue)) /\ Cardinality(1..Len(queue)) = Len(queue)
  <2>1. 1 \in Int /\ Len(queue) \in Int
    BY <1>1
  <2>2. /\ IsFiniteSet(1..Len(queue))
        /\ Cardinality(1..Len(queue)) = IF 1 > Len(queue) THEN 0 ELSE Len(queue) - 1 + 1
    BY <2>1, FS_Interval, Zenon
  <2>3. QED
    BY <1>1, <2>2
<1>6. Cardinality(Pending) = Len(queue)
  <2> HIDE DEF f
  <2>1. QED
    BY <1>2, <1>4, <1>5, FS_Surjection, Zenon
<1>7. \A i \in 1..Len(queue) : queue[i].n \in Pending
  BY Zenon DEF Pending
<1>8. ASSUME queue # <<>> PROVE Queue!Oldest(queue[1].n)
  <2>1. 1 \in 1..Len(queue)
    BY <1>1, <1>8, EmptySeq, QueueFacts
  <2>2. \A m \in Pending : queue[1].n <= m
    BY <1>1, <2>1 DEF Pending
  <2>3. QED
    BY <1>7, <2>1, <2>2, Zenon DEF Queue!Oldest
<1>9. QED
  BY <1>6, <1>7, <1>8

\* Taking out the delivery at position k takes out its number and no other.
LEMMA PendingRemove ==
  ASSUME IInv, NEW k \in 1..Len(queue),
         Len(queue') = Len(queue) - 1,
         \A j \in 1..(Len(queue) - 1) :
           queue'[j] = IF j < k THEN queue[j] ELSE queue[j + 1]
  PROVE  Pending' = Pending \ {queue[k].n}
<1>1. /\ Len(queue) \in Nat
      /\ \A i \in 1..Len(queue) : queue[i].n \in Nat
      /\ \A i, j \in 1..Len(queue) : i < j => queue[i].n < queue[j].n
  BY QueueFacts, Zenon
<1>2. ASSUME NEW j \in 1..Len(queue') PROVE queue'[j].n \in Pending \ {queue[k].n}
  <2>1. PICK i \in 1..Len(queue) : i # k /\ queue'[j] = queue[i]
    BY <1>1
  <2>2. queue[i].n # queue[k].n
    BY <1>1, <2>1
  <2>3. QED
    BY <2>1, <2>2, Zenon DEF Pending
<1>3. ASSUME NEW i \in 1..Len(queue), i # k
      PROVE  \E j \in 1..Len(queue') : queue'[j] = queue[i]
  <2>1. CASE i < k
    <3>1. i \in 1..Len(queue') /\ queue'[i] = queue[i]
      BY <1>1, <2>1
    <3>2. QED
      BY <3>1, Zenon
  <2>2. CASE i > k
    <3>1. i - 1 \in 1..Len(queue') /\ queue'[i - 1] = queue[i]
      BY <1>1, <2>2
    <3>2. QED
      BY <3>1, Zenon
  <2>3. QED
    BY <1>1, <1>3, <2>1, <2>2
<1>4. Pending' \subseteq Pending \ {queue[k].n}
  BY <1>2, Zenon DEF Pending
<1>5. Pending \ {queue[k].n} \subseteq Pending'
  <2>1. SUFFICES ASSUME NEW m \in Pending, m # queue[k].n PROVE m \in Pending'
    BY Zenon
  <2>2. PICK i \in 1..Len(queue) : m = queue[i].n
    BY Zenon DEF Pending
  <2>3. PICK j \in 1..Len(queue') : queue'[j] = queue[i]
    BY <1>3, <2>1, <2>2, Zenon
  <2>4. QED
    BY <2>2, <2>3, Zenon DEF Pending
<1>6. QED
  BY <1>4, <1>5, Zenon

\* A receive from In() is an Accept: of a free place, or of the oldest one's.
LEMMA SendRefines ==
  ASSUME IInv, NEW r \in Reqs, ServeWebhookSend(r)
  PROVE  Queue!Accept
<1>1. /\ queue' = Enqueue(Accepted(r)) /\ running /\ sent' = sent + 1
      /\ UNCHANGED <<running, last>>
  BY Zenon DEF ServeWebhookSend, Serving
<1>2. Accepted(r) \in Delivery /\ Accepted(r).n = sent + 1
  BY DEF Accepted, Delivery, IInv, TypeOK
<1>3. /\ queue \in Seq(Delivery) /\ Len(queue) \in Nat /\ Len(queue) <= Size
      /\ \A i \in 1..Len(queue) : queue[i].n \in Nat /\ queue[i].n <= sent
      /\ \A i, j \in 1..Len(queue) : i < j => queue[i].n < queue[j].n
  BY QueueFacts, Zenon
<1>4. CASE Full
  <2>1. /\ queue # <<>>
        /\ Len(queue') = Len(queue)
        /\ \A i \in 1..(Len(queue) - 1) : queue'[i] = queue[i + 1]
        /\ queue'[Len(queue)] = Accepted(r)
    BY <1>1, <1>2, <1>3, <1>4, EnqueueProperties, Zenon
  <2>2. Len(queue) \in 1..Len(queue) /\ 1 \in 1..Len(queue)
    BY <1>3, <2>1, EmptySeq
  <2>3. Pending' \subseteq (Pending \ {queue[1].n}) \cup {sent + 1}
    <3>1. SUFFICES ASSUME NEW i \in 1..Len(queue)
                   PROVE  queue'[i].n \in (Pending \ {queue[1].n}) \cup {sent + 1}
      BY <2>1, Zenon DEF Pending
    <3>2. CASE i = Len(queue)
      BY <1>2, <2>1, <3>2, Zenon
    <3>3. CASE i \in 1..(Len(queue) - 1)
      <4>1. i + 1 \in 1..Len(queue) /\ 1 < i + 1 /\ queue'[i] = queue[i + 1]
        BY <1>3, <2>1, <3>3
      <4>2. queue[i + 1].n # queue[1].n
        BY <1>3, <2>2, <4>1
      <4>3. QED
        BY <4>1, <4>2 DEF Pending
    <3>4. QED
      BY <1>3, <3>2, <3>3
  <2>4. (Pending \ {queue[1].n}) \cup {sent + 1} \subseteq Pending'
    <3>1. sent + 1 \in Pending'
      BY <1>2, <2>1, <2>2, Zenon DEF Pending
    <3>2. ASSUME NEW i \in 1..Len(queue), queue[i].n # queue[1].n
          PROVE  queue[i].n \in Pending'
      <4>1. i - 1 \in 1..(Len(queue) - 1) /\ queue'[i - 1] = queue[i]
        BY <1>3, <2>1, <2>2, <3>2
      <4>2. i - 1 \in 1..Len(queue')
        BY <1>3, <2>1, <4>1
      <4>3. QED
        BY <4>1, <4>2, Zenon DEF Pending
    <3>3. QED
      BY <3>1, <3>2, Zenon DEF Pending
  <2>5. Cardinality(Pending) = Size /\ queue[1].n \in Pending /\ Queue!Oldest(queue[1].n)
    BY <1>4, <2>1, <2>2, PendingFacts, Zenon DEF Full
  <2>6. QED
    <3>1. Queue!Cardinality(Pending) = Size
      BY <2>5, Zenon DEF Cardinality, Queue!Cardinality
    <3>2. Pending' = (Pending \ {queue[1].n}) \cup {sent + 1}
      BY <2>3, <2>4
    <3>3. QED
      BY <1>1, <2>5, <3>1, <3>2, Zenon DEF Queue!Accept
<1>5. CASE ~Full
  <2>1. /\ Len(queue) < Size
        /\ Len(queue') = Len(queue) + 1
        /\ \A i \in 1..Len(queue) : queue'[i] = queue[i]
        /\ queue'[Len(queue) + 1] = Accepted(r)
    BY <1>1, <1>2, <1>3, <1>5, EnqueueProperties, Zenon
  <2>2. \A i \in 1..Len(queue') : i \in 1..Len(queue) \/ i = Len(queue) + 1
    BY <1>3, <2>1
  <2>3. Len(queue) + 1 \in 1..Len(queue') /\ \A i \in 1..Len(queue) : i \in 1..Len(queue')
    BY <1>3, <2>1
  <2>4. Pending' \subseteq Pending \cup {sent + 1}
    BY <1>2, <2>1, <2>2, Zenon DEF Pending
  <2>5. Pending \subseteq Pending'
    BY <2>1, <2>3, Zenon DEF Pending
  <2>6. sent + 1 \in Pending'
    BY <1>2, <2>1, <2>3, Zenon DEF Pending
  <2>7. Cardinality(Pending) < Size
    BY <2>1, PendingFacts, Zenon
  <2>8. QED
    <3>1. Queue!Cardinality(Pending) < Size
      BY <2>7, Zenon DEF Cardinality, Queue!Cardinality
    <3>2. Pending' = Pending \cup {sent + 1}
      BY <2>4, <2>5, <2>6
    <3>3. QED
      BY <1>1, <3>1, <3>2 DEF Queue!Accept
<1>6. QED
  BY <1>4, <1>5, Zenon

\* A receive from Out() takes the oldest, which is newer than any taken before.
LEMMA ReceiveRefines ==
  ASSUME IInv, NEW r \in Reqs, WaitForWebhookReceive(r)
  PROVE  Queue!Take
<1>1. /\ queue # <<>> /\ queue' = Tail(queue) /\ running /\ last' = Head(queue).n
      /\ UNCHANGED <<running, sent>>
  BY Zenon DEF WaitForWebhookReceive, Serving
<1>2. queue \in Seq(Delivery) /\ Len(queue) \in Nat
  BY QueueFacts, Zenon
<1>3. 1 \in 1..Len(queue)
  BY <1>1, <1>2, EmptySeq
<1>4. /\ Head(queue) = queue[1]
      /\ Len(queue') = Len(queue) - 1
      /\ \A j \in 1..(Len(queue) - 1) : queue'[j] = queue[j + 1]
  BY <1>1, <1>2, HeadTailProperties
<1>5. \A j \in 1..(Len(queue) - 1) : queue'[j] = IF j < 1 THEN queue[j] ELSE queue[j + 1]
  BY <1>2, <1>4
<1>6. Pending' = Pending \ {queue[1].n}
  BY <1>3, <1>4, <1>5, PendingRemove, Zenon
<1>7. queue[1].n \in Pending /\ Queue!Oldest(queue[1].n) /\ queue[1].n > last
  BY <1>1, <1>3, PendingFacts, QueueFacts
<1>8. QED
  BY <1>1, <1>4, <1>6, <1>7 DEF Queue!Take

\* A step of the scan expires the delivery it looks at, or changes nothing.
LEMMA ScanRefines ==
  ASSUME IInv, Scan
  PROVE  Queue!Expire \/ UNCHANGED <<running, sent, Pending, last>>
<1>1. /\ scan \in Nat /\ scan > 0 /\ running /\ ExpiryEnabled
      /\ UNCHANGED <<running, sent, last>>
  BY DEF Scan, IInv, FifoInv, TypeOK
<1>2. queue \in Seq(Delivery) /\ Len(queue) \in Nat
  BY QueueFacts, Zenon
<1>3. CASE scan <= Len(queue) /\ Expired(queue[scan])
  <2>1. queue' = RemoveAt(queue, scan) /\ scan \in 1..Len(queue)
    BY <1>1, <1>2, <1>3 DEF Scan
  <2>2. /\ Len(queue') = Len(queue) - 1
        /\ \A j \in 1..(Len(queue) - 1) :
             queue'[j] = IF j < scan THEN queue[j] ELSE queue[j + 1]
    BY <1>2, <2>1, RemoveAtProperties, Zenon
  <2>3. Pending' = Pending \ {queue[scan].n} /\ queue[scan].n \in Pending
    BY <2>1, <2>2, PendingRemove, PendingFacts, Zenon
  <2>4. QED
    BY <1>1, <2>3, Zenon DEF Queue!Expire
<1>4. CASE ~(scan <= Len(queue) /\ Expired(queue[scan]))
  <2>1. UNCHANGED queue
    BY <1>1, <1>2, <1>4 DEF Scan
  <2>2. QED
    BY <1>1, <2>1 DEF Pending
<1>5. QED
  BY <1>3, <1>4, Zenon

\* The relay implements LossyQueue: deliveries are taken oldest first and at most
\* once, and lost only as the abstract queue may lose them.
THEOREM Refinement == Spec => IsLossyQueue
<1>1. Init => Queue!Init
  <2>1. SUFFICES ASSUME Init PROVE Queue!Init
    BY Zenon
  <2>2. Len(queue) = 0
    BY <2>1, Zenon DEF Init
  <2>3. Pending = {}
    BY <2>2 DEF Pending
  <2>4. QED
    BY <2>1, <2>3, Zenon DEF Init, Queue!Init
<1>2. IInv /\ [Next]_vars => [Queue!Next]_(Queue!vars)
  <2>1. SUFFICES ASSUME IInv, [Next]_vars PROVE [Queue!Next]_(Queue!vars)
    BY Zenon
  <2>2. CASE UNCHANGED <<running, queue, sent, last>>
    BY <2>2, Zenon DEF Queue!vars, Pending
  <2>3. ASSUME NEW r \in Reqs, HandlerStep(r) PROVE [Queue!Next]_(Queue!vars)
    <3>1. CASE ServeWebhookSend(r)
      BY <2>1, <3>1, SendRefines, Zenon DEF Queue!Next
    <3>2. CASE WaitForWebhookReceive(r)
      BY <2>1, <3>2, ReceiveRefines DEF Queue!Next
    <3>3. CASE \/ ServeWebhookValidate(r) \/ ServeWebhookCancelled(r) \/ ServeWebhookAccepted(r)
               \/ WaitForWebhookClosed(r) \/ WaitForWebhookCancelled(r) \/ WaitForWebhookWrite(r)
      BY <2>2, <3>3, Zenon DEF ServeWebhookValidate, ServeWebhookCancelled, ServeWebhookAccepted,
                        WaitForWebhookClosed, WaitForWebhookCancelled, WaitForWebhookWrite
    <3>4. QED
      BY <2>3, <3>1, <3>2, <3>3 DEF HandlerStep
  <2>4. CASE \E r \in Reqs : Handler(r) \/ Cancel(r)
    BY <2>2, <2>4, Zenon DEF Handler, Cancel
  <2>5. CASE Scan
    BY <2>1, <2>5, ScanRefines, Zenon DEF Queue!Next, Queue!vars
  <2>6. CASE Stop
    <3>1. running /\ ~running' /\ queue' = <<>> /\ Len(queue') = 0 /\ UNCHANGED <<sent, last>>
      BY <2>6, Zenon DEF Stop, Serving
    <3>2. Pending' = {}
      BY <3>1 DEF Pending
    <3>3. QED
      BY <2>6, <3>1, <3>2 DEF Stop, Queue!Next, Queue!Close
  <2>7. CASE Tick \/ UNCHANGED vars
    BY <2>2, <2>7, Zenon DEF Tick, vars
  <2>8. QED
    BY <2>1, <2>3, <2>4, <2>5, <2>6, <2>7, ZenonT(30) DEF Next
<1>3. QED
  BY <1>1, <1>2, Invariance, PTL DEF Spec, IsLossyQueue, Queue!Spec

=============================================================================
