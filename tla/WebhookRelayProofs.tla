------------------------- MODULE WebhookRelayProofs --------------------------
(***************************************************************************)
(* Lemmas about the operators on the queue of WebhookRelay, its type       *)
(* correctness, and the proof that the steps of the handlers preserve its  *)
(* inductive invariant.                                                    *)
(***************************************************************************)
EXTENDS WebhookRelay, SequenceTheorems, TLAPS

\* The options have the types NewRelay gives them once the defaults are in: the
\* FIFO holds at least one delivery, and a ticker that is used has a positive
\* period.
LEMMA OptionTypes ==
  /\ Size \in Nat /\ Size > 0
  /\ PayloadLimit \in Nat
  /\ Interval \in Int
  /\ ExpiryEnabled => Interval > 0
BY RelayAssumption DEF Size, PayloadLimit, Interval, ExpiryEnabled

\* Removing a delivery (the FIFO does so when remove returns true) leaves the
\* earlier ones where they are and moves the later ones up by one.
LEMMA RemoveAtProperties ==
  ASSUME NEW S, NEW s \in Seq(S), NEW i \in 1..Len(s)
  PROVE  /\ RemoveAt(s, i) \in Seq(S)
         /\ Len(RemoveAt(s, i)) = Len(s) - 1
         /\ \A j \in 1..(Len(s) - 1) :
              RemoveAt(s, i)[j] = IF j < i THEN s[j] ELSE s[j + 1]
<1> DEFINE front == SubSeq(s, 1, i - 1)
           back == SubSeq(s, i + 1, Len(s))
<1>1. Len(s) \in Nat /\ \A k \in 1..Len(s) : s[k] \in S
  BY LenProperties, ElementOfSeq, Zenon
<1>2. /\ front \in Seq(S)
      /\ Len(front) = i - 1
      /\ \A k \in 1..(i - 1) : front[k] = s[k]
  <2>1. \A k \in 1..(i - 1) : s[k] \in S
    BY <1>1
  <2>2. QED
    BY <1>1, <2>1, SubSeqProperties
<1>3. /\ back \in Seq(S)
      /\ Len(back) = Len(s) - i
      /\ \A k \in 1..(Len(s) - i) : back[k] = s[i + k]
  <2>1. \A k \in (i + 1)..Len(s) : s[k] \in S
    BY <1>1
  <2>2. QED
    BY <1>1, <2>1, SubSeqProperties
<1>4. /\ front \o back \in Seq(S)
      /\ Len(front \o back) = Len(s) - 1
      /\ \A j \in 1..(Len(s) - 1) :
           (front \o back)[j] = IF j < i THEN front[j] ELSE back[j - (i - 1)]
  <2> HIDE DEF front, back
  <2>1. /\ front \o back \in Seq(S)
        /\ Len(front \o back) = Len(front) + Len(back)
        /\ \A j \in 1..(Len(front) + Len(back)) :
             (front \o back)[j] = IF j <= Len(front) THEN front[j] ELSE back[j - Len(front)]
    BY <1>2, <1>3, ConcatProperties, Zenon
  <2>2. QED
    BY <1>1, <1>2, <1>3, <2>1
<1>5. \A j \in 1..(Len(s) - 1) :
           (front \o back)[j] = IF j < i THEN s[j] ELSE s[j + 1]
  <2> HIDE DEF front, back
  <2>1. QED
    BY <1>1, <1>2, <1>3, <1>4
<1>6. QED
  BY <1>4, <1>5, Zenon DEF RemoveAt

\* What the FIFO's buffer holds after a receive from In(), whether or not the
\* oldest delivery had to make room.
LEMMA EnqueueProperties ==
  ASSUME queue \in Seq(Delivery), NEW d \in Delivery, Len(queue) <= Size
  PROVE  /\ Enqueue(d) \in Seq(Delivery)
         /\ Full => /\ queue # <<>>
                    /\ Head(queue) = queue[1]
                    /\ Head(queue) \in Delivery
                    /\ Len(Enqueue(d)) = Len(queue)
                    /\ \A i \in 1..(Len(queue) - 1) : Enqueue(d)[i] = queue[i + 1]
                    /\ Enqueue(d)[Len(queue)] = d
         /\ ~Full => /\ Len(queue) < Size
                     /\ Len(Enqueue(d)) = Len(queue) + 1
                     /\ \A i \in 1..Len(queue) : Enqueue(d)[i] = queue[i]
                     /\ Enqueue(d)[Len(queue) + 1] = d
<1>1. Len(queue) \in Nat
  BY LenProperties, Zenon
<1>2. CASE Full
  <2>1. queue # <<>>
    BY <1>2, OptionTypes, EmptySeq DEF Full
  <2>2. /\ Tail(queue) \in Seq(Delivery)
        /\ Len(Tail(queue)) = Len(queue) - 1
        /\ \A i \in 1..Len(Tail(queue)) : Tail(queue)[i] = queue[i + 1]
        /\ Head(queue) = queue[1]
        /\ Head(queue) \in Delivery
    BY <2>1, HeadTailProperties
  <2>3. QED
    BY <1>1, <1>2, <2>1, <2>2, AppendProperties DEF Enqueue
<1>3. CASE ~Full
  BY <1>1, <1>3, OptionTypes, AppendProperties DEF Enqueue, Full
<1>4. QED
  BY <1>2, <1>3, Zenon

\* The validators answer with one of the statuses the handler may write.
LEMMA ValidateCodes ==
  ASSUME NEW q, NEW b, NEW status \in Validate(q, b)
  PROVE  status \in {200, 400, 401, 500}
BY DEF Validate, NoopValidator, SignatureValidator, SHA256SignatureFromHeader

-----------------------------------------------------------------------------
(***************************************************************************)
(* Types.                                                                  *)
(***************************************************************************)

\* Every step of a handler, of the FIFO and of the clock keeps every variable in
\* its type, as long as the buffer is not over its size.
LEMMA TypeStep ==
  ASSUME TypeOK, Len(queue) <= Size, [Next]_vars
  PROVE  TypeOK'
<1> USE DEF TypeOK
<1>1. ASSUME NEW r \in Reqs, Handler(r) PROVE TypeOK'
  <2>1. req[r] \in RequestType
    BY RelayAssumption, Zenon
  <2>2. code' \in [Reqs -> Codes] /\ pc' \in [Reqs -> PCs]
    BY <1>1, <2>1 DEF Handler, ServeWebhookCheck, WaitForWebhookCheck, Codes, PCs, RequestType
  <2>3. QED
    BY <1>1, <2>2, Zenon DEF Handler
<1>2. ASSUME NEW r \in Reqs, ServeWebhookValidate(r) PROVE TypeOK'
  <2>1. PICK status \in {200, 400, 401, 500} :
          Reject(r, status) \/ Abandon(r, status) \/ EnterSelect(r, status)
    BY <1>2, ValidateCodes DEF ServeWebhookValidate
  <2>2. CASE Reject(r, status)
    BY <1>2, <2>1, <2>2 DEF ServeWebhookValidate, Reject, Codes, PCs
  <2>3. CASE Abandon(r, status)
    BY <1>2, <2>3 DEF ServeWebhookValidate, Abandon, PCs
  <2>4. CASE EnterSelect(r, status)
    <3>1. now + Expiry \in Int
      BY RelayAssumption
    <3>2. job' \in [Reqs -> Delivery]
      BY <2>4, <3>1 DEF EnterSelect, NewDelivery, Delivery
    <3>3. QED
      BY <1>2, <2>4, <3>2, ZenonT(30) DEF ServeWebhookValidate, EnterSelect, PCs
  <2>5. QED
    BY <2>1, <2>2, <2>3, <2>4, Zenon
<1>3. ASSUME NEW r \in Reqs, ServeWebhookSend(r) PROVE TypeOK'
  <2>1. Accepted(r) \in Delivery
    BY DEF Accepted, Delivery
  <2>2. Enqueue(Accepted(r)) \in Seq(Delivery) /\ (Full => Head(queue) \in Delivery)
    BY <2>1, EnqueueProperties, Zenon
  <2>3. fate' \in [Reqs -> Fates]
    BY <1>3, <2>2, Zenon DEF ServeWebhookSend, Delivery, Fates
  <2>4. QED
    BY <1>3, <2>2, <2>3 DEF ServeWebhookSend, PCs
<1>4. ASSUME NEW r \in Reqs, ServeWebhookCancelled(r) PROVE TypeOK'
  BY <1>4, Zenon DEF ServeWebhookCancelled, PCs
<1>5. ASSUME NEW r \in Reqs, ServeWebhookAccepted(r) PROVE TypeOK'
  BY <1>5 DEF ServeWebhookAccepted, PCs, Codes
<1>6. ASSUME NEW r \in Reqs, WaitForWebhookReceive(r) PROVE TypeOK'
  <2>1. Head(queue) \in Delivery /\ Tail(queue) \in Seq(Delivery)
    BY <1>6, HeadTailProperties, Zenon DEF WaitForWebhookReceive
  <2>2. fate' \in [Reqs -> Fates] /\ last' \in Nat
    BY <1>6, <2>1, Zenon DEF WaitForWebhookReceive, Fates, Delivery
  <2>3. QED
    BY <1>6, <2>1, <2>2, Zenon DEF WaitForWebhookReceive, PCs
<1>7. ASSUME NEW r \in Reqs, WaitForWebhookClosed(r) PROVE TypeOK'
  BY <1>7, Zenon DEF WaitForWebhookClosed, PCs
<1>8. ASSUME NEW r \in Reqs, WaitForWebhookCancelled(r) PROVE TypeOK'
  BY <1>8, Zenon DEF WaitForWebhookCancelled, PCs
<1>9. ASSUME NEW r \in Reqs, WaitForWebhookWrite(r) PROVE TypeOK'
  BY <1>9 DEF WaitForWebhookWrite, PCs, Codes, Fates, Delivery
<1>10. ASSUME NEW r \in Reqs, Cancel(r) PROVE TypeOK'
  BY <1>10, Zenon DEF Cancel
<1>11. CASE Scan
  <2>1. CASE scan > Len(queue)
    BY <1>11, <2>1 DEF Scan
  <2>2. CASE scan <= Len(queue)
    <3>1. Len(queue) \in Nat /\ scan \in 1..Len(queue)
      BY <1>11, <2>2, LenProperties DEF Scan
    <3>2. RemoveAt(queue, scan) \in Seq(Delivery) /\ queue[scan] \in Delivery
      BY <3>1, RemoveAtProperties, ElementOfSeq, Zenon
    <3>3. QED
      BY <1>11, <3>1, <3>2 DEF Scan, Fates
  <2>3. QED
    BY <2>1, <2>2, LenProperties
<1>12. CASE Stop
  BY <1>12, EmptySeq, Zenon DEF Stop, Fates
<1>13. CASE Tick
  BY <1>13, OptionTypes DEF Tick
<1>14. CASE UNCHANGED vars
  BY <1>14, Zenon DEF vars
<1>15. QED
  BY <1>1, <1>2, <1>3, <1>4, <1>5, <1>6, <1>7, <1>8, <1>9, <1>10, <1>11, <1>12, <1>13, <1>14, Zenon
  DEF Next, HandlerStep

-----------------------------------------------------------------------------
(***************************************************************************)
(* The inductive invariant: one lemma per action that touches the FIFO or  *)
(* the fate of a delivery, and one for all the steps that touch neither.   *)
(***************************************************************************)

\* The part of the invariant that is about the queue and about where each
\* delivery is.
RelayInv == QueueOrdered /\ OnePlace /\ FifoInv /\ UnsentInv /\ ScanInv

\* What the invariant says of the deliveries in the queue, spelled out.
LEMMA QueueFacts ==
  ASSUME IInv
  PROVE  /\ queue \in Seq(Delivery) /\ Len(queue) \in Nat /\ Len(queue) <= Size
         /\ \A i \in 1..Len(queue) :
              queue[i] \in Delivery /\ queue[i].from \in Reqs /\ queue[i].n \in Nat
         /\ \A i \in 1..Len(queue) : queue[i].n > last /\ queue[i].n <= sent
         /\ \A i, j \in 1..Len(queue) : i < j => queue[i].n < queue[j].n
         /\ \A i, j \in 1..Len(queue) : queue[i].from = queue[j].from => i = j
         /\ \A q \in Reqs : fate[q] = "queued" <=> InQueue(q)
<1>1. queue \in Seq(Delivery)
  BY Zenon DEF IInv, TypeOK
<1>2. Len(queue) \in Nat /\ \A i \in 1..Len(queue) : queue[i] \in Delivery
  BY <1>1, LenProperties, ElementOfSeq, Zenon
<1>3. \A d \in Delivery : d.from \in Reqs /\ d.n \in Nat
  BY Zenon DEF Delivery
<1>4. QueueOrdered /\ OnePlace
  BY Zenon DEF IInv
<1>5. QED
  BY <1>1, <1>2, <1>3, <1>4, Zenon DEF QueueOrdered, OnePlace

\* A handler step that neither uses the FIFO nor ends a receive.
LEMMA QuietStep ==
  ASSUME IInv, NEW r \in Reqs, NEW x,
         pc[r] # "got", x # "got",
         x \in {"idle", "validate", "select"} => pc[r] \in {"idle", "validate", "select"},
         pc' = [pc EXCEPT ![r] = x],
         \A p \in Reqs : p # r => job'[p] = job[p],
         UNCHANGED <<now, running, due, scan, queue, sent, last, fate>>
  PROVE  RelayInv'
<1>1. pc \in [Reqs -> PCs]
  BY Zenon DEF IInv, TypeOK
<1>2. QueueOrdered' /\ FifoInv' /\ ScanInv'
  BY Zenon DEF IInv, QueueOrdered, FifoInv, ScanInv, FreshAt
<1>3. UnsentInv'
  BY <1>1, Zenon DEF IInv, UnsentInv
<1>4. \A q, p \in Reqs : HeldBy(q, p)' <=> HeldBy(q, p)
  BY <1>1, Zenon DEF HeldBy
<1>5. OnePlace'
  BY <1>1, <1>4 DEF IInv, OnePlace, InQueue, HeldBy
<1>6. QED
  BY <1>2, <1>3, <1>5, Zenon DEF RelayInv

\* The FIFO receives a delivery: it is the newest, and what makes room for it is
\* the oldest.
LEMMA SendStep ==
  ASSUME IInv, NEW r \in Reqs, ServeWebhookSend(r)
  PROVE  RelayInv'
<1> DEFINE d == Accepted(r)
<1>1. /\ TypeOK /\ Len(queue) \in Nat /\ Len(queue) <= Size
      /\ \A i \in 1..Len(queue) : queue[i] \in Delivery
  BY LenProperties, ElementOfSeq, Zenon DEF IInv, TypeOK, QueueOrdered
<1>2. d \in Delivery /\ d.from = r /\ d.n = sent + 1 /\ d.at = now
  BY <1>1 DEF Accepted, Delivery, TypeOK
<1>3. /\ queue' = Enqueue(d) /\ pc[r] = "select" /\ fate[r] = "none"
      /\ running /\ scan = 0
      /\ pc' = [pc EXCEPT ![r] = "sent"]
      /\ sent' = sent + 1
      /\ UNCHANGED <<now, running, due, scan, job, last>>
  BY Zenon DEF ServeWebhookSend, Serving, IInv, UnsentInv
<1> DEFINE k == IF Full THEN 1 ELSE 0
<1>4. /\ k \in 0..Len(queue) /\ k = (IF Full THEN 1 ELSE 0)
      /\ Len(queue') \in Nat
      /\ Len(queue') = Len(queue) - k + 1
      /\ Len(queue') <= Size
      /\ \A i \in 1..(Len(queue') - 1) : i + k \in 1..Len(queue) /\ queue'[i] = queue[i + k]
      /\ queue'[Len(queue')] = d
  <2> HIDE DEF d
  <2>1. CASE Full
    <3>1. Len(queue) > 0
      BY <1>1, <2>1, OptionTypes, Zenon DEF Full
    <3>2. /\ Len(queue') = Len(queue)
          /\ \A i \in 1..(Len(queue) - 1) : queue'[i] = queue[i + 1]
          /\ queue'[Len(queue)] = d
      BY <1>1, <1>2, <1>3, <2>1, EnqueueProperties, Zenon DEF TypeOK
    <3>3. QED
      BY <1>1, <2>1, <3>1, <3>2
  <2>2. CASE ~Full
    BY <1>1, <1>2, <1>3, <2>2, EnqueueProperties, OptionTypes DEF TypeOK
  <2>3. QED
    BY <2>1, <2>2, Zenon
<1> HIDE DEF d, k
<1>5. QueueOrdered'
  <2>1. /\ \A i \in 1..Len(queue) :
             queue[i].n \in Nat /\ queue[i].n > last /\ queue[i].n <= sent
        /\ \A i, j \in 1..Len(queue) : i < j => queue[i].n < queue[j].n
        /\ sent \in Nat /\ last \in Nat /\ last <= sent
    BY QueueFacts, Zenon DEF IInv, TypeOK, FifoInv
  <2>2. \A i \in 1..Len(queue') :
          \/ i = Len(queue') /\ queue'[i].n = sent + 1
          \/ /\ i \in 1..(Len(queue') - 1) /\ i + k \in 1..Len(queue)
             /\ queue'[i].n = queue[i + k].n
    BY <1>2, <1>4
  <2>3. \A i \in 1..Len(queue') : queue'[i].n > last /\ queue'[i].n <= sent + 1
    <3>1. SUFFICES ASSUME NEW i \in 1..Len(queue')
                   PROVE  queue'[i].n > last /\ queue'[i].n <= sent + 1
      BY Zenon
    <3>2. CASE queue'[i].n = sent + 1
      BY <2>1, <3>2
    <3>3. CASE i + k \in 1..Len(queue) /\ queue'[i].n = queue[i + k].n
      BY <2>1, <3>3
    <3>4. QED
      BY <2>2, <3>2, <3>3, Zenon
  <2>4. \A i, j \in 1..Len(queue') : i < j => queue'[i].n < queue'[j].n
    <3>1. SUFFICES ASSUME NEW i \in 1..Len(queue'), NEW j \in 1..Len(queue'), i < j
                   PROVE  queue'[i].n < queue'[j].n
      BY Zenon
    <3>2. i # Len(queue') /\ k \in Nat
      BY <1>1, <1>4, <3>1
    <3>3. i + k \in 1..Len(queue) /\ queue'[i].n = queue[i + k].n
      BY <2>2, <3>2, Zenon
    <3>4. CASE queue'[j].n = sent + 1
      BY <2>1, <3>3, <3>4
    <3>5. CASE j + k \in 1..Len(queue) /\ queue'[j].n = queue[j + k].n
      <4>1. i + k < j + k
        BY <3>1, <3>2
      <4>2. QED
        BY <2>1, <3>3, <3>5, <4>1, Zenon
    <3>6. QED
      BY <2>2, <3>4, <3>5, Zenon
  <2>5. QED
    BY <1>3, <1>4, <2>3, <2>4, OptionTypes, Zenon DEF QueueOrdered
<1>6. FifoInv'
  BY <1>1, <1>3 DEF IInv, FifoInv, TypeOK
<1>7. UnsentInv' /\ \A q \in Reqs :
        fate'[q] = IF q = r THEN "queued"
                   ELSE IF Full /\ q = queue[1].from THEN "dropped" ELSE fate[q]
  <2>1. Full => Head(queue) = queue[1] /\ queue[1].from \in Reqs /\ 1 \in 1..Len(queue)
    BY <1>1, <1>2, EnqueueProperties, OptionTypes, SMTT(30) DEF TypeOK, Delivery, Full
  <2>2. \A q \in Reqs :
        fate'[q] = IF q = r THEN "queued"
                   ELSE IF Full /\ q = queue[1].from THEN "dropped" ELSE fate[q]
    BY <1>1, <2>1, Zenon DEF ServeWebhookSend, TypeOK
  <2>3. Full => fate[queue[1].from] = "queued"
    BY <2>1, Zenon DEF IInv, OnePlace, InQueue
  <2>4. UnsentInv'
    BY <1>1, <1>3, <2>1, <2>2, <2>3, Zenon DEF UnsentInv, IInv, TypeOK
  <2>5. QED
    BY <2>2, <2>4, Zenon
<1>8. ScanInv'
  <2>1. SUFFICES ASSUME ExpiryEnabled PROVE ScanInv'
    BY Zenon DEF ScanInv, ExpiryEnabled
  <2>2. due \in 1..Interval
    BY <2>1, Zenon DEF IInv, ScanInv
  <2>3. \A i \in 1..Len(queue) : FreshAt(queue[i], now - (Interval - due))
    BY <1>3, <2>1, Zenon DEF IInv, ScanInv
  <2>4. FreshAt(d, now - (Interval - due))
    BY <1>1, <1>2, <2>2, OptionTypes DEF FreshAt, TypeOK
  <2>5. \A i \in 1..Len(queue') : FreshAt(queue'[i], now - (Interval - due))
    <3>1. TAKE i \in 1..Len(queue')
    <3>2. CASE i = Len(queue')
      BY <1>4, <2>4, <3>2, Zenon
    <3>3. CASE i \in 1..(Len(queue') - 1)
      BY <1>4, <2>3, <3>3, Zenon
    <3>4. QED
      BY <1>4, <3>2, <3>3
  <2>6. QED
    BY <1>1, <1>3, <2>1, <2>2, <2>5 DEF ScanInv, FreshAt, TypeOK
<1>9. OnePlace'
  <2>1. /\ \A q \in Reqs : fate[q] = "queued" <=> InQueue(q)
        /\ \A q \in Reqs : fate[q] = "taken" <=> \E p \in Reqs : HeldBy(q, p)
        /\ \A i, j \in 1..Len(queue) : queue[i].from = queue[j].from => i = j
    BY SMTT(30) DEF IInv, OnePlace
  <2>2. ~InQueue(r)
    BY <1>3, <2>1, Zenon
  <2>3. \A q \in Reqs : q # r =>
          (InQueue(q)' <=> \E i \in 1..Len(queue) : i > k /\ queue[i].from = q)
    <3>1. SUFFICES ASSUME NEW q \in Reqs, q # r
                   PROVE  InQueue(q)' <=> \E i \in 1..Len(queue) : i > k /\ queue[i].from = q
      BY Zenon
    <3>2. ASSUME NEW i \in 1..Len(queue), i > k, queue[i].from = q
          PROVE  InQueue(q)'
      <4>1. i - k \in 1..(Len(queue') - 1) /\ queue'[i - k] = queue[i]
        BY <1>1, <1>4, <3>2
      <4>2. QED
        BY <1>4, <3>2, <4>1 DEF InQueue
    <3>3. ASSUME NEW i \in 1..Len(queue'), queue'[i].from = q
          PROVE  \E j \in 1..Len(queue) : j > k /\ queue[j].from = q
      <4>1. i \in 1..(Len(queue') - 1)
        BY <1>2, <1>4, <3>1, <3>3
      <4>2. i + k \in 1..Len(queue) /\ i + k > k /\ queue'[i] = queue[i + k]
        BY <1>4, <4>1
      <4>3. QED
        BY <3>3, <4>2, Zenon
    <3>4. QED
      BY <3>2, <3>3, Zenon DEF InQueue
  <2>4. \A q \in Reqs : fate'[q] = "queued" <=> InQueue(q)'
    <3>1. InQueue(r)'
      BY <1>2, <1>4 DEF InQueue
    <3>2. ASSUME NEW q \in Reqs, q # r PROVE fate'[q] = "queued" <=> InQueue(q)'
      <4>1. CASE Full /\ q = queue[1].from
        BY <1>1, <1>4, <1>7, <2>1, <2>3, <3>2, <4>1
      <4>2. CASE ~(Full /\ q = queue[1].from)
        BY <1>1, <1>4, <1>7, <2>1, <2>3, <3>2, <4>2 DEF InQueue
      <4>3. QED
        BY <4>1, <4>2, Zenon
    <3>3. QED
      BY <1>7, <3>1, <3>2, Zenon
  <2>5. \A q, p \in Reqs : HeldBy(q, p)' <=> HeldBy(q, p)
    BY <1>1, <1>3, Zenon DEF HeldBy, TypeOK
  <2>6. \A q \in Reqs : fate'[q] = "taken" <=> fate[q] = "taken"
    <3>1. Full => fate[queue[1].from] = "queued"
      <4>1. Full => 1 \in 1..Len(queue)
        BY <1>1, <1>4
      <4>2. \A i \in 1..Len(queue) : queue[i].from \in Reqs
        BY <1>1 DEF Delivery
      <4>3. QED
        BY <2>1, <4>1, <4>2, Zenon DEF InQueue
    <3>2. QED
      BY <1>3, <1>7, <3>1, Zenon
  <2>7. \A i, j \in 1..Len(queue') : queue'[i].from = queue'[j].from => i = j
    <3>1. SUFFICES ASSUME NEW i \in 1..Len(queue'), NEW j \in 1..Len(queue'),
                          queue'[i].from = queue'[j].from
                   PROVE  i = j
      BY Zenon
    <3>2. \A m \in 1..(Len(queue') - 1) : queue'[m].from # r
      BY <1>4, <2>2, Zenon DEF InQueue
    <3>3. CASE i = Len(queue') \/ j = Len(queue')
      <4>1. queue'[Len(queue')].from = r /\ Len(queue') \in Nat
        BY <1>2, <1>4, Zenon
      <4>2. \A m \in 1..Len(queue') : m # Len(queue') => queue'[m].from # r
        BY <3>2, <4>1
      <4>3. QED
        BY <3>1, <3>3, <4>1, <4>2, Zenon
    <3>4. CASE i \in 1..(Len(queue') - 1) /\ j \in 1..(Len(queue') - 1)
      <4>1. /\ i + k \in 1..Len(queue) /\ queue'[i] = queue[i + k]
            /\ j + k \in 1..Len(queue) /\ queue'[j] = queue[j + k]
        BY <1>4, <3>4, Zenon
      <4>2. i + k = j + k
        BY <2>1, <3>1, <4>1, Zenon
      <4>3. QED
        BY <1>4, <4>2
    <3>5. Len(queue') \in Nat
      BY <1>4, Zenon
    <3>6. QED
      BY <3>3, <3>4, <3>5
  <2>8. \A p, q \in Reqs : pc'[p] = "got" /\ pc'[q] = "got" /\ job'[p].from = job'[q].from => p = q
    BY <1>1, <1>3, Zenon DEF IInv, OnePlace, TypeOK
  <2>9. QED
    BY <2>1, <2>4, <2>5, <2>6, <2>7, <2>8, Zenon DEF OnePlace
<1>10. QED
  BY <1>5, <1>6, <1>7, <1>8, <1>9, Zenon DEF RelayInv

\* Taking out the delivery at position k, as a poll does with the first and a
\* scan with any: the rest keeps its order, and only the delivery taken out
\* leaves the queue.
LEMMA RemoveStep ==
  ASSUME IInv, NEW k \in 1..Len(queue), NEW f, f # "queued",
         Len(queue') = Len(queue) - 1,
         \A j \in 1..(Len(queue) - 1) :
           queue'[j] = IF j < k THEN queue[j] ELSE queue[j + 1],
         fate' = [fate EXCEPT ![queue[k].from] = f]
  PROVE  /\ \A j \in 1..Len(queue') : \E i \in 1..Len(queue) :
              i # k /\ queue'[j] = queue[i] /\ i = IF j < k THEN j ELSE j + 1
         /\ \A i, j \in 1..Len(queue') : i < j => queue'[i].n < queue'[j].n
         /\ \A i, j \in 1..Len(queue') : queue'[i].from = queue'[j].from => i = j
         /\ \A q \in Reqs : fate'[q] = "queued" <=> InQueue(q)'
         /\ fate[queue[k].from] = "queued"
<1>1. /\ fate \in [Reqs -> Fates] /\ Len(queue) \in Nat
      /\ \A i \in 1..Len(queue) : queue[i].from \in Reqs
      /\ \A i, j \in 1..Len(queue) : i < j => queue[i].n < queue[j].n
      /\ \A i, j \in 1..Len(queue) : queue[i].from = queue[j].from => i = j
      /\ \A q \in Reqs : fate[q] = "queued" <=> InQueue(q)
  BY QueueFacts, Zenon DEF IInv, TypeOK
<1> DEFINE pos(j) == IF j < k THEN j ELSE j + 1
<1>2. \A j \in 1..Len(queue') :
        pos(j) \in 1..Len(queue) /\ pos(j) # k /\ queue'[j] = queue[pos(j)]
  BY <1>1
<1>3. \A i, j \in 1..Len(queue') : i < j <=> pos(i) < pos(j)
  BY <1>1
<1>4. \A i, j \in 1..Len(queue') : pos(i) = pos(j) => i = j
  BY <1>1
<1>5. \A i \in 1..Len(queue) : i # k => \E j \in 1..Len(queue') : pos(j) = i
  <2>1. SUFFICES ASSUME NEW i \in 1..Len(queue), i # k
                 PROVE  \E j \in 1..Len(queue') : pos(j) = i
    BY Zenon
  <2>2. CASE i < k
    <3>1. i \in 1..Len(queue') /\ pos(i) = i
      BY <1>1, <2>2
    <3>2. QED
      BY <3>1, Zenon
  <2>3. CASE i > k
    <3>1. i - 1 \in 1..Len(queue') /\ pos(i - 1) = i
      BY <1>1, <2>3
    <3>2. QED
      BY <3>1, Zenon
  <2>4. QED
    BY <1>1, <2>1, <2>2, <2>3
<1>6. fate[queue[k].from] = "queued"
  BY <1>1, Zenon DEF InQueue
<1>7. \A j \in 1..Len(queue') : \E i \in 1..Len(queue) :
        i # k /\ queue'[j] = queue[i] /\ i = IF j < k THEN j ELSE j + 1
  BY <1>2, Zenon
<1> HIDE DEF pos
<1>8. \A i, j \in 1..Len(queue') : i < j => queue'[i].n < queue'[j].n
  BY <1>1, <1>2, <1>3
<1>9. \A i, j \in 1..Len(queue') : queue'[i].from = queue'[j].from => i = j
  BY <1>1, <1>2, <1>4
<1>10. \A q \in Reqs : fate'[q] = "queued" <=> InQueue(q)'
  <2>1. SUFFICES ASSUME NEW q \in Reqs PROVE fate'[q] = "queued" <=> InQueue(q)'
    BY Zenon
  <2>2. CASE q = queue[k].from
    <3>1. fate'[q] = f
      BY <1>1, <2>2, Zenon
    <3>2. ~InQueue(q)'
      BY <1>1, <1>2, <2>2 DEF InQueue
    <3>3. QED
      BY <3>1, <3>2, Zenon
  <2>3. CASE q # queue[k].from
    <3>1. fate'[q] = fate[q]
      BY <1>1, <2>3, Zenon
    <3>2. InQueue(q)' => InQueue(q)
      BY <1>2, Zenon DEF InQueue
    <3>3. ASSUME NEW i \in 1..Len(queue), queue[i].from = q PROVE InQueue(q)'
      <4>1. PICK j \in 1..Len(queue') : pos(j) = i
        BY <1>5, <2>3, <3>3, Zenon
      <4>2. queue'[j].from = q
        BY <1>2, <3>3, <4>1, Zenon
      <4>3. QED
        BY <4>2, Zenon DEF InQueue
    <3>4. QED
      BY <1>1, <3>1, <3>2, <3>3, Zenon DEF InQueue
  <2>4. QED
    BY <2>2, <2>3, Zenon
<1>11. QED
  BY <1>6, <1>7, <1>8, <1>9, <1>10, Zenon

\* A poll takes the oldest delivery into its hands.
LEMMA ReceiveStep ==
  ASSUME IInv, NEW r \in Reqs, WaitForWebhookReceive(r)
  PROVE  RelayInv'
<1>1. /\ queue # <<>> /\ Head(queue) = queue[1] /\ queue' = Tail(queue)
      /\ Len(queue) \in Nat /\ 1 \in 1..Len(queue)
      /\ Len(queue') = Len(queue) - 1
      /\ \A j \in 1..(Len(queue) - 1) : queue'[j] = queue[j + 1]
      /\ queue[1].from \in Reqs /\ queue[1].n \in Nat
  <2>1. queue # <<>> /\ queue' = Tail(queue) /\ queue \in Seq(Delivery) /\ Len(queue) \in Nat
    BY QueueFacts, Zenon DEF WaitForWebhookReceive
  <2>2. /\ Head(queue) = queue[1]
        /\ Len(Tail(queue)) = Len(queue) - 1
        /\ \A j \in 1..Len(Tail(queue)) : Tail(queue)[j] = queue[j + 1]
    BY <2>1, HeadTailProperties
  <2>3. 1 \in 1..Len(queue)
    BY <2>1, EmptySeq, SMTT(30)
  <2>4. QED
    BY <2>1, <2>2, <2>3, QueueFacts, Zenon
<1>2. /\ pc[r] = "wait" /\ running /\ scan = 0
      /\ pc' = [pc EXCEPT ![r] = "got"] /\ pc \in [Reqs -> PCs]
      /\ job' = [job EXCEPT ![r] = queue[1]] /\ job \in [Reqs -> Delivery]
      /\ fate' = [fate EXCEPT ![queue[1].from] = "taken"] /\ fate \in [Reqs -> Fates]
      /\ last' = queue[1].n
      /\ UNCHANGED <<now, running, due, scan, sent>>
  BY <1>1, Zenon DEF WaitForWebhookReceive, Serving, IInv, TypeOK
<1>3. /\ \A j \in 1..Len(queue') : \E i \in 1..Len(queue) :
           i # 1 /\ queue'[j] = queue[i] /\ i = j + 1
      /\ \A i, j \in 1..Len(queue') : i < j => queue'[i].n < queue'[j].n
      /\ \A i, j \in 1..Len(queue') : queue'[i].from = queue'[j].from => i = j
      /\ \A q \in Reqs : fate'[q] = "queued" <=> InQueue(q)'
      /\ fate[queue[1].from] = "queued"
  <2>1. \A j \in 1..(Len(queue) - 1) : queue'[j] = IF j < 1 THEN queue[j] ELSE queue[j + 1]
    BY <1>1
  <2>2. /\ \A i, j \in 1..Len(queue') : i < j => queue'[i].n < queue'[j].n
        /\ \A i, j \in 1..Len(queue') : queue'[i].from = queue'[j].from => i = j
        /\ \A q \in Reqs : fate'[q] = "queued" <=> InQueue(q)'
        /\ fate[queue[1].from] = "queued"
    BY <1>1, <1>2, <2>1, RemoveStep, Zenon
  <2>3. \A j \in 1..Len(queue') : j + 1 \in 1..Len(queue) /\ j + 1 # 1 /\ queue'[j] = queue[j + 1]
    BY <1>1
  <2>4. QED
    BY <2>2, <2>3, Zenon
<1>4. QueueOrdered' /\ FifoInv'
  <2>1. \A j \in 1..Len(queue') : queue'[j].n > last' /\ queue'[j].n <= sent'
    <3>1. TAKE j \in 1..Len(queue')
    <3>2. PICK i \in 1..Len(queue) : i # 1 /\ queue'[j] = queue[i]
      BY <1>3, Zenon
    <3>3. 1 < i
      BY <1>1, <3>2, SMTT(30)
    <3>4. QED
      BY <1>1, <1>2, <3>2, <3>3, QueueFacts, Zenon
  <2>2. Len(queue') <= Size
    BY <1>1, QueueFacts, OptionTypes
  <2>3. QueueOrdered'
    BY <1>3, <2>1, <2>2, OptionTypes, Zenon DEF QueueOrdered
  <2>4. FifoInv'
    BY <1>1, <1>2, QueueFacts, SMTT(30) DEF FifoInv
  <2>5. QED
    BY <2>3, <2>4, Zenon
<1>5. UnsentInv'
  BY <1>1, <1>2, <1>3, Zenon DEF IInv, UnsentInv
<1>6. ScanInv'
  BY <1>1, <1>2, <1>3, Zenon DEF IInv, ScanInv, FreshAt
<1>7. OnePlace'
  <2>1. /\ \A q \in Reqs : fate[q] = "taken" <=> \E p \in Reqs : HeldBy(q, p)
        /\ \A p, q \in Reqs : pc[p] = "got" /\ pc[q] = "got" /\ job[p].from = job[q].from => p = q
    BY SMTT(30) DEF IInv, OnePlace
  <2>2. \A p \in Reqs : ~HeldBy(queue[1].from, p)
    BY <1>1, <1>3, <2>1, Zenon
  <2>3. \A q, p \in Reqs :
          HeldBy(q, p)' <=> IF p = r THEN q = queue[1].from ELSE HeldBy(q, p)
    BY <1>1, <1>2, Zenon DEF HeldBy
  <2>4. \A q \in Reqs : fate'[q] = "taken" <=> \E p \in Reqs : HeldBy(q, p)'
    BY <1>1, <1>2, <2>1, <2>2, <2>3 DEF HeldBy
  <2>5. \A p, q \in Reqs : pc'[p] = "got" /\ pc'[q] = "got" /\ job'[p].from = job'[q].from => p = q
    BY <1>1, <1>2, <2>1, <2>2 DEF HeldBy
  <2>6. QED
    BY <1>3, <2>4, <2>5, Zenon DEF OnePlace
<1>8. QED
  BY <1>4, <1>5, <1>6, <1>7, Zenon DEF RelayInv

\* A poll is done with the delivery it has taken, whether its client got it or not.
LEMMA WriteStep ==
  ASSUME IInv, NEW r \in Reqs, WaitForWebhookWrite(r)
  PROVE  RelayInv'
<1> DEFINE f == job[r].from
           x == IF r \in gone THEN "unsent" ELSE "delivered"
<1>1. /\ pc[r] = "got" /\ pc' = [pc EXCEPT ![r] = "done"] /\ pc \in [Reqs -> PCs]
      /\ fate' = [fate EXCEPT ![f] = x] /\ fate \in [Reqs -> Fates]
      /\ f \in Reqs /\ x \in {"unsent", "delivered"}
      /\ UNCHANGED <<now, running, due, scan, queue, job, sent, last>>
  BY Zenon DEF WaitForWebhookWrite, IInv, TypeOK, Delivery
<1> HIDE DEF f, x
<1>2. fate[f] = "taken"
  BY <1>1, Zenon DEF f, IInv, OnePlace, HeldBy
<1>3. QueueOrdered' /\ FifoInv' /\ ScanInv'
  BY <1>1, Zenon DEF IInv, QueueOrdered, FifoInv, ScanInv, FreshAt
<1>4. UnsentInv'
  BY <1>1, <1>2, Zenon DEF IInv, UnsentInv
<1>5. OnePlace'
  <2>1. \A q \in Reqs : (fate'[q] = "queued" <=> fate[q] = "queued") /\ (InQueue(q)' <=> InQueue(q))
    BY <1>1, <1>2, Zenon DEF InQueue
  <2>2. \A q, p \in Reqs : HeldBy(q, p)' <=> p # r /\ HeldBy(q, p)
    BY <1>1, Zenon DEF HeldBy
  <2>3. HeldBy(f, r) /\ \A p \in Reqs : HeldBy(f, p) => p = r
    BY <1>1, ZenonT(30) DEF f, HeldBy, IInv, OnePlace
  <2>4. \A q \in Reqs : q # f => ~HeldBy(q, r)
    BY Zenon DEF f, HeldBy
  <2>5. \A q \in Reqs : fate'[q] = "taken" <=> \E p \in Reqs : HeldBy(q, p)'
    BY <1>1, <2>2, <2>3, <2>4, SMTT(30) DEF IInv, OnePlace
  <2>6. QED
    BY <1>1, <2>1, <2>5 DEF IInv, OnePlace
<1>6. QED
  BY <1>3, <1>4, <1>5, Zenon DEF RelayInv
-----------------------------------------------------------------------------

\* A step of the running scan that leaves the queue alone concerns the scan only.
LEMMA ScanFrame ==
  ASSUME IInv, running, ExpiryEnabled, UNCHANGED <<queue, fate, pc, job, sent, last, running>>
  PROVE  QueueOrdered' /\ OnePlace' /\ FifoInv' /\ UnsentInv'
<1>1. QueueOrdered'
  BY Zenon DEF IInv, QueueOrdered
<1>2. OnePlace'
  <2>1. \A r \in Reqs : InQueue(r)' <=> InQueue(r)
    BY Zenon DEF InQueue
  <2>2. \A r, p \in Reqs : HeldBy(r, p)' <=> HeldBy(r, p)
    BY Zenon DEF HeldBy
  <2>3. QED
    BY <2>1, <2>2, Zenon DEF IInv, OnePlace
<1>3. FifoInv' /\ UnsentInv'
  BY Zenon DEF IInv, FifoInv, UnsentInv
<1>4. QED
  BY <1>1, <1>2, <1>3

\* The scan looks at one delivery, and removes it if it has expired.
LEMMA ScanStep ==
  ASSUME IInv, Scan
  PROVE  RelayInv'
<1>1. /\ scan \in Nat /\ scan > 0 /\ Len(queue) \in Nat /\ now \in Nat /\ due \in Int
      /\ running /\ ExpiryEnabled /\ Interval \in Nat /\ due = Interval
      /\ fate \in [Reqs -> Fates]
      /\ \A i \in 1..Len(queue) : queue[i].expiration \in Int /\ queue[i].at \in Nat
      /\ \A i \in 1..Len(queue) : FreshAt(queue[i], IF i < scan THEN now ELSE now - Interval)
      /\ UNCHANGED <<now, running, due, pc, job, sent, last>>
  <2>1. scan \in Nat /\ scan > 0 /\ now \in Nat /\ due \in Int /\ fate \in [Reqs -> Fates]
    BY SMTT(30) DEF Scan, IInv, TypeOK
  <2>2. running /\ ExpiryEnabled
    BY <2>1 DEF IInv, FifoInv, TypeOK
  <2>3. Interval \in Nat /\ due = Interval
    BY <2>1, <2>2, OptionTypes DEF IInv, ScanInv
  <2>4. \A i \in 1..Len(queue) : queue[i].expiration \in Int /\ queue[i].at \in Nat
    BY QueueFacts, Zenon DEF Delivery
  <2>5. now - (Interval - due) = now
    BY <2>1, <2>3
  <2>6. \A i \in 1..Len(queue) : FreshAt(queue[i], IF i < scan THEN now ELSE now - Interval)
    BY <2>1, <2>2, <2>5, SMTT(30) DEF IInv, ScanInv
  <2>7. QED
    BY <2>1, <2>2, <2>3, <2>4, <2>6, QueueFacts, Zenon DEF Scan
<1>2. CASE scan > Len(queue)
  <2>1. scan' = 0 /\ UNCHANGED <<queue, fate>>
    BY <1>2, Zenon DEF Scan
  <2>2. \A i \in 1..Len(queue) : FreshAt(queue[i], now)
    BY <1>1, <1>2
  <2>3. now - (Interval - due) = now
    BY <1>1, SMTT(30)
  <2>4. ScanInv'
    BY <1>1, <2>1, <2>2, <2>3, ZenonT(30) DEF ScanInv, IInv, FreshAt
  <2>5. QED
    BY <1>1, <2>1, <2>4, ScanFrame, Zenon DEF RelayInv
<1>3. CASE scan <= Len(queue) /\ ~Expired(queue[scan])
  <2>1. scan' = scan + 1 /\ UNCHANGED <<queue, fate>> /\ scan \in 1..Len(queue)
    <3>1. scan \in Nat /\ scan > 0 /\ Len(queue) \in Nat
      BY <1>1, Zenon
    <3>2. ~(scan > Len(queue)) /\ scan \in 1..Len(queue)
      BY <1>3, <3>1
    <3>3. QED
      BY <1>3, <3>2, Zenon DEF Scan
  <2>2. FreshAt(queue[scan], now)
    BY <1>1, <1>3, <2>1, SMTT(30) DEF FreshAt, Expired
  <2>3. now - (Interval - due) = now
    BY <1>1
  <2>4. \A i \in 1..Len(queue) : FreshAt(queue[i], IF i < scan + 1 THEN now ELSE now - Interval)
    <3>1. TAKE i \in 1..Len(queue)
    <3>2. CASE i < scan
      BY <1>1, <3>2
    <3>3. CASE i = scan
      BY <1>1, <2>2, <3>3
    <3>4. CASE i > scan
      BY <1>1, <3>4, SMTT(30)
    <3>5. QED
      BY <1>1, <3>2, <3>3, <3>4
  <2>5. ScanInv'
    <3>1. /\ queue' = queue /\ scan' = scan + 1 /\ scan' > 0
          /\ running' /\ now' = now /\ due' = due /\ due = Interval /\ ExpiryEnabled
      BY <1>1, <2>1
    <3>2. due \in 1..Interval
      BY <1>1, Zenon DEF IInv, ScanInv
    <3>3. \A i \in 1..Len(queue) :
            FreshAt(queue[i], IF scan' = 0 \/ i < scan' THEN now - (Interval - due)
                                                       ELSE now - Interval)
      BY <2>3, <2>4, <3>1
    <3>4. QED
      BY <3>1, <3>2, <3>3, Zenon DEF ScanInv, FreshAt
  <2>6. QED
    BY <1>1, <2>1, <2>5, ScanFrame, Zenon DEF RelayInv
<1>4. CASE scan <= Len(queue) /\ Expired(queue[scan])
  <2>1. /\ queue' = RemoveAt(queue, scan) /\ UNCHANGED scan /\ scan \in 1..Len(queue)
        /\ fate' = [fate EXCEPT ![queue[scan].from] = "expired"]
    BY <1>1, <1>4 DEF Scan
  <2>2. /\ Len(queue') = Len(queue) - 1
        /\ \A j \in 1..(Len(queue) - 1) :
             queue'[j] = IF j < scan THEN queue[j] ELSE queue[j + 1]
    <3>1. queue \in Seq(Delivery)
      BY QueueFacts, Zenon
    <3>2. QED
      BY <2>1, <3>1, RemoveAtProperties, Zenon
  <2>3. /\ \A j \in 1..Len(queue') : \E i \in 1..Len(queue) :
             i # scan /\ queue'[j] = queue[i] /\ i = IF j < scan THEN j ELSE j + 1
        /\ \A i, j \in 1..Len(queue') : i < j => queue'[i].n < queue'[j].n
        /\ \A i, j \in 1..Len(queue') : queue'[i].from = queue'[j].from => i = j
        /\ \A q \in Reqs : fate'[q] = "queued" <=> InQueue(q)'
        /\ fate[queue[scan].from] = "queued"
    BY <2>1, <2>2, RemoveStep, Zenon
  <2>4. QueueOrdered'
    <3>1. /\ Len(queue) <= Size /\ Size \in Nat
          /\ \A i \in 1..Len(queue) : queue[i].n > last /\ queue[i].n <= sent
      BY QueueFacts, OptionTypes, Zenon
    <3>2. Len(queue') <= Size
      BY <1>1, <2>2, <3>1
    <3>3. \A j \in 1..Len(queue') : queue'[j].n > last /\ queue'[j].n <= sent
      BY <2>3, <3>1, Zenon
    <3>4. last' = last /\ sent' = sent
      BY <1>1, Zenon
    <3>5. QED
      BY <2>3, <3>2, <3>3, <3>4, Zenon DEF QueueOrdered
  <2>5. FifoInv'
    BY <1>1, <2>1, Zenon DEF IInv, FifoInv
  <2>6. \A q \in Reqs : fate'[q] = IF q = queue[scan].from THEN "expired" ELSE fate[q]
    BY <1>1, <2>1, QueueFacts, Zenon
  <2>7. UnsentInv'
    BY <1>1, <2>3, <2>6, Zenon DEF IInv, UnsentInv
  <2>8. OnePlace'
    <3>1. \A q, p \in Reqs : HeldBy(q, p)' <=> HeldBy(q, p)
      BY <1>1, Zenon DEF HeldBy
    <3>2. \A q \in Reqs : fate'[q] = "taken" <=> \E p \in Reqs : HeldBy(q, p)'
      BY <2>3, <2>6, <3>1, Zenon DEF IInv, OnePlace
    <3>3. QED
      <4>1. pc' = pc /\ job' = job
        BY <1>1, Zenon
      <4>2. QED
        BY <2>3, <3>2, <4>1, Zenon DEF IInv, OnePlace
  <2>9. ScanInv'
    <3>1. \A j \in 1..Len(queue') : FreshAt(queue'[j], IF j < scan THEN now ELSE now - Interval)
      <4>1. TAKE j \in 1..Len(queue')
      <4>2. PICK i \in 1..Len(queue) :
              i # scan /\ queue'[j] = queue[i] /\ i = IF j < scan THEN j ELSE j + 1
        BY <2>3, Zenon
      <4>3. i < scan <=> j < scan
        <5>1. scan \in Nat /\ Len(queue) \in Nat
          BY <1>1, Zenon
        <5>2. j \in Nat
          BY <2>2, <4>1, <5>1
        <5>3. QED
          BY <4>2, <5>1, <5>2
      <4>4. QED
        BY <1>1, <4>2, <4>3, Zenon
    <3>2. now - (Interval - due) = now
      BY <1>1
    <3>3. \A j \in 1..Len(queue') :
            FreshAt(queue'[j], IF scan = 0 \/ j < scan THEN now - (Interval - due)
                                                      ELSE now - Interval)
      <4>1. scan # 0
        BY <2>1
      <4>2. QED
        BY <3>1, <3>2, <4>1, Zenon
    <3>4. due \in 1..Interval
      BY <1>1, Zenon DEF IInv, ScanInv
    <3>5. now' = now /\ due' = due /\ scan' = scan
      BY <1>1, <2>1, Zenon
    <3>6. QED
      BY <1>1, <3>3, <3>4, <3>5, Zenon DEF ScanInv, FreshAt
  <2>10. QED
    BY <2>4, <2>5, <2>7, <2>8, <2>9, Zenon DEF RelayInv
<1>5. QED
  BY <1>1, <1>2, <1>3, <1>4

\* Stop discards whatever is queued, and nothing else.
LEMMA StopStep ==
  ASSUME IInv, Stop
  PROVE  RelayInv'
<1>1. /\ queue' = <<>> /\ Len(queue') = 0 /\ scan = 0
      /\ \A q \in Reqs : fate'[q] = IF fate[q] = "queued" THEN "discarded" ELSE fate[q]
      /\ UNCHANGED <<now, due, scan, pc, job, sent, last>>
  BY SMTT(30) DEF Stop, Serving
<1>2. QueueOrdered' /\ FifoInv' /\ UnsentInv'
  BY <1>1, OptionTypes, SMTT(30) DEF IInv, QueueOrdered, FifoInv, UnsentInv
<1>3. ScanInv'
  BY <1>1, SMTT(30) DEF IInv, ScanInv
<1>4. OnePlace'
  BY <1>1 DEF IInv, OnePlace, InQueue, HeldBy
<1>5. QED
  BY <1>2, <1>3, <1>4, Zenon DEF RelayInv

\* The clock moves on; when the ticker fires, the scan starts at the first
\* delivery, and what was fresh at the last scan is an Interval old at most.
LEMMA TickStep ==
  ASSUME IInv, Tick
  PROVE  RelayInv'
<1>1. /\ now \in Nat /\ due \in Int /\ scan = 0 /\ now' = now + 1 /\ Interval \in Int
      /\ UNCHANGED <<running, queue, pc, job, sent, last, fate>>
  BY OptionTypes, Zenon DEF IInv, TypeOK, Tick
<1>2. QueueOrdered' /\ UnsentInv' /\ OnePlace'
  <2>1. QueueOrdered'
    BY <1>1, Zenon DEF IInv, QueueOrdered
  <2>2. UnsentInv'
    BY <1>1, Zenon DEF IInv, UnsentInv
  <2>3. /\ \A q \in Reqs : InQueue(q)' <=> InQueue(q)
        /\ \A q, p \in Reqs : HeldBy(q, p)' <=> HeldBy(q, p)
    BY <1>1, Zenon DEF InQueue, HeldBy
  <2>4. OnePlace'
    BY <1>1, <2>3, Zenon DEF IInv, OnePlace
  <2>5. QED
    BY <2>1, <2>2, <2>4, Zenon
<1>3. CASE running /\ ExpiryEnabled
  <2>1. \A i \in 1..Len(queue) : FreshAt(queue[i], now - (Interval - due))
    BY <1>1, <1>3, Zenon DEF IInv, ScanInv
  <2>2. Interval > 0 /\ due \in 1..Interval
    BY <1>3, OptionTypes, Zenon DEF IInv, ScanInv
  <2>3. CASE due = 1
    <3>1. due' = Interval /\ scan' = 1
      BY <1>3, <2>3, Zenon DEF Tick
    <3>2. now' - Interval = now - (Interval - due)
      BY <1>1, <2>3
    <3>3. \A i \in 1..Len(queue) : ~(i < 1)
      BY QueueFacts, SMTT(30)
    <3>4. ScanInv'
      BY <1>1, <2>1, <2>2, <3>1, <3>2, <3>3 DEF ScanInv, FreshAt
    <3>5. QED
      BY <1>1, <1>2, <1>3, <3>1, <3>4, Zenon DEF IInv, RelayInv, FifoInv
  <2>4. CASE due # 1
    <3>1. due' = due - 1 /\ scan' = 0
      BY <1>1, <1>3, <2>4, Zenon DEF Tick
    <3>2. now' - (Interval - due') = now - (Interval - due) /\ due' \in 1..Interval
      BY <1>1, <2>2, <2>4, <3>1, SMTT(30)
    <3>3. ScanInv'
      <4>1. \A i \in 1..Len(queue) : FreshAt(queue[i], now' - (Interval - due'))
        BY <2>1, <3>2, Zenon
      <4>2. queue' = queue
        BY <1>1, Zenon
      <4>3. QED
        BY <3>1, <3>2, <4>1, <4>2, SMTT(30) DEF ScanInv, FreshAt
    <3>4. QED
      BY <1>1, <1>2, <1>3, <3>1, <3>3, Zenon DEF IInv, RelayInv, FifoInv
  <2>5. QED
    BY <2>3, <2>4, Zenon
<1>4. CASE ~(running /\ ExpiryEnabled)
  <2>1. UNCHANGED <<due, scan>>
    BY <1>4, Zenon DEF Tick
  <2>2. ScanInv'
    BY <1>1, <1>4, <2>1 DEF IInv, ScanInv, FifoInv
  <2>3. QED
    BY <1>1, <1>2, <2>1, <2>2, Zenon DEF IInv, RelayInv, FifoInv
<1>5. QED
  BY <1>3, <1>4, Zenon

\* The initial state of NewRelay: an empty FIFO, no request served yet.
LEMMA InitInv == Init => IInv
<1>1. SUFFICES ASSUME Init PROVE IInv
  BY Zenon
<1>2. TypeOK
  <2>1. job \in [Reqs -> Delivery]
    BY <1>1 DEF Init, NewDelivery, Delivery
  <2>2. QED
    BY <1>1, <2>1, OptionTypes, EmptySeq DEF Init, TypeOK, PCs, Codes, Fates
<1>3. Len(queue) = 0 /\ queue = <<>> /\ scan = 0 /\ running /\ due = Interval
  BY <1>1, Zenon DEF Init
<1>4. QueueOrdered /\ FifoInv /\ UnsentInv
  BY <1>1, <1>3, OptionTypes, SMTT(30) DEF Init, QueueOrdered, FifoInv, UnsentInv
<1>5. OnePlace
  BY <1>1, <1>3 DEF Init, OnePlace, InQueue, HeldBy
<1>6. ScanInv
  BY <1>3, OptionTypes DEF ScanInv
<1>7. QED
  BY <1>2, <1>4, <1>5, <1>6, Zenon DEF IInv

\* Every step preserves the invariant.
LEMMA NextInv == IInv /\ [Next]_vars => IInv'
<1>1. SUFFICES ASSUME IInv, [Next]_vars PROVE IInv'
  BY Zenon
<1>2. TypeOK'
  BY <1>1, QueueFacts, TypeStep, Zenon DEF IInv
<1>3. RelayInv'
  <2>1. ASSUME NEW r \in Reqs, Handler(r) PROVE RelayInv'
    <3>1. req[r].path \in {"delivery", "relay", "other"}
      BY <1>1, RelayAssumption DEF IInv, TypeOK, RequestType
    <3>2. PICK x \in {"done", "validate", "wait"} : pc' = [pc EXCEPT ![r] = x]
      <4> DEFINE check == CASE req[r].path = "delivery" -> ServeWebhookCheck(req[r])
                            [] req[r].path = "relay"    -> WaitForWebhookCheck(req[r])
                            [] req[r].path = "other"    -> 404
      <4>1. pc' = [pc EXCEPT ![r] =
                     CASE check # 0 -> "done"
                       [] check = 0 /\ req[r].path = "delivery" -> "validate"
                       [] check = 0 /\ req[r].path = "relay" -> "wait"]
        BY <2>1, Zenon DEF Handler
      <4>2. check = 0 => req[r].path # "other"
        OBVIOUS
      <4> HIDE DEF check
      <4>3. QED
        BY <3>1, <4>1, <4>2, Zenon
    <3>3. QED
      BY <1>1, <2>1, <3>2, QuietStep, Zenon DEF Handler
  <2>2. ASSUME NEW r \in Reqs, ServeWebhookValidate(r) PROVE RelayInv'
    <3>1. /\ pc[r] = "validate"
          /\ \E x \in {"done", "select"} : pc' = [pc EXCEPT ![r] = x]
          /\ \A p \in Reqs : p # r => job'[p] = job[p]
          /\ UNCHANGED <<now, running, due, scan, queue, sent, last, fate>>
      BY <1>1, <2>2 DEF ServeWebhookValidate, Reject, Abandon, EnterSelect, IInv, TypeOK
    <3>2. QED
      BY <1>1, <3>1, QuietStep, Zenon
  <2>3. ASSUME NEW r \in Reqs, ServeWebhookCancelled(r) PROVE RelayInv'
    BY <1>1, <2>3, QuietStep, Zenon DEF ServeWebhookCancelled
  <2>4. ASSUME NEW r \in Reqs, ServeWebhookAccepted(r) PROVE RelayInv'
    BY <1>1, <2>4, QuietStep, Zenon DEF ServeWebhookAccepted
  <2>5. ASSUME NEW r \in Reqs, WaitForWebhookClosed(r) PROVE RelayInv'
    BY <1>1, <2>5, QuietStep, Zenon DEF WaitForWebhookClosed
  <2>6. ASSUME NEW r \in Reqs, WaitForWebhookCancelled(r) PROVE RelayInv'
    BY <1>1, <2>6, QuietStep, Zenon DEF WaitForWebhookCancelled
  <2>7. CASE UNCHANGED <<now, running, due, scan, queue, pc, job, sent, last, fate>>
    BY <1>1, <2>7
    DEF IInv, RelayInv, QueueOrdered, OnePlace, InQueue, HeldBy, FifoInv, UnsentInv, ScanInv, FreshAt
  <2>8. ASSUME NEW r \in Reqs, Cancel(r) PROVE RelayInv'
    BY <2>7, <2>8, Zenon DEF Cancel
  <2>9. CASE UNCHANGED vars
    BY <2>7, <2>9, Zenon DEF vars
  <2>10. QED
    BY <1>1, <2>1, <2>2, <2>3, <2>4, <2>5, <2>6, <2>8, <2>9,
       SendStep, ReceiveStep, WriteStep, ScanStep, StopStep, TickStep, Zenon
    DEF Next, HandlerStep
<1>4. QED
  BY <1>2, <1>3, Zenon DEF IInv, RelayInv

-----------------------------------------------------------------------------
(***************************************************************************)
(* The theorems.                                                           *)
(***************************************************************************)

\* The inductive invariant holds for any requests, options and clock bound.
THEOREM Invariance == Spec => []IInv
BY InitInv, NextInv, PTL DEF Spec

\* Type correctness: the relay's state is always well formed.
THEOREM TypeCorrect == Spec => []TypeOK
<1>1. IInv => TypeOK
  BY Zenon DEF IInv
<1>2. QED
  BY <1>1, Invariance, PTL

\* The buffer never exceeds its size and never reorders deliveries.
THEOREM Ordered == Spec => []QueueOrdered
<1>1. IInv => QueueOrdered
  BY Zenon DEF IInv
<1>2. QED
  BY <1>1, Invariance, PTL

\* No delivery is in two places, reaches two polls, or vanishes.
THEOREM ExactlyOnePlace == Spec => []OnePlace
<1>1. IInv => OnePlace
  BY Zenon DEF IInv
<1>2. QED
  BY <1>1, Invariance, PTL

\* With expiry, nothing outlives its expiration by more than one scan interval,
\* whatever the ttl, the interval and the traffic are.
THEOREM Stale == Spec => []StalenessBound
<1>1. IInv => StalenessBound
  <2>1. SUFFICES ASSUME IInv, ExpiryEnabled, NEW i \in 1..Len(queue)
                 PROVE  now <= queue[i].expiration + Interval \/ now <= queue[i].at + Interval
    BY SMTT(30) DEF StalenessBound
  <2>2. /\ queue[i].expiration \in Int /\ queue[i].at \in Int
        /\ now \in Int /\ Interval \in Int /\ due \in 1..Interval
    <3>1. queue[i] \in Delivery
      BY <2>1, QueueFacts, Zenon
    <3>2. now \in Int /\ Interval \in Int /\ due \in 1..Interval
      BY <2>1, OptionTypes DEF IInv, TypeOK, ScanInv
    <3>3. QED
      BY <3>1, <3>2 DEF Delivery
  <2>3. FreshAt(queue[i], now - (Interval - due)) \/ FreshAt(queue[i], now - Interval)
    BY <2>1, Zenon DEF IInv, ScanInv
  <2>4. QED
    BY <2>2, <2>3, SMTT(30) DEF FreshAt
<1>2. QED
  BY <1>1, Invariance, PTL

\* The documented losses are the only ones.  The invariant is needed to know that
\* the delivery whose fate a step changes is the one the step takes out.
THEOREM OnlyDocumentedLosses == Spec => LostOnly
<1>1. ASSUME IInv, [Next]_vars PROVE LostOnlyStep \/ UNCHANGED vars
  <2> SUFFICES ASSUME NEW q \in Reqs, fate[q] = "queued", fate'[q] # "queued"
               PROVE  \/ fate'[q] = "taken" /\ Head(queue).from = q
                      \/ fate'[q] = "dropped" /\ Len(queue) = Size /\ Head(queue).from = q
                      \/ /\ fate'[q] = "expired" /\ ExpiryEnabled
                         /\ \E i \in 1..Len(queue) : queue[i].from = q /\ now > queue[i].expiration
                      \/ fate'[q] = "discarded" /\ running /\ ~running'
    BY SMTT(30) DEF LostOnlyStep
  <2>1. fate \in [Reqs -> Fates] /\ fate' # fate
    BY <1>1, Zenon DEF IInv, TypeOK
  <2>2. CASE \E r \in Reqs : ServeWebhookSend(r)
    BY <2>1, <2>2, Zenon DEF ServeWebhookSend, Full
  <2>3. CASE \E r \in Reqs : WaitForWebhookReceive(r)
    BY <2>1, <2>3, Zenon DEF WaitForWebhookReceive
  <2>4. CASE \E r \in Reqs : WaitForWebhookWrite(r)
    <3>1. PICK r \in Reqs : WaitForWebhookWrite(r)
      BY <2>4, Zenon
    <3>2. job[r].from \in Reqs /\ HeldBy(job[r].from, r)
      BY <1>1, <3>1, Zenon DEF IInv, TypeOK, Delivery, HeldBy, WaitForWebhookWrite
    <3>3. fate[job[r].from] = "taken"
      BY <1>1, <3>2, Zenon DEF IInv, OnePlace
    <3>4. QED
      BY <2>1, <3>1, <3>3, Zenon DEF WaitForWebhookWrite
  <2>5. CASE Scan
    <3>1. scan \in Nat /\ scan > 0 /\ Len(queue) \in Nat /\ ExpiryEnabled
      BY <1>1, <2>5, QueueFacts, Zenon DEF IInv, FifoInv, TypeOK, Scan
    <3>2. /\ scan \in 1..Len(queue) /\ Expired(queue[scan])
          /\ fate' = [fate EXCEPT ![queue[scan].from] = "expired"]
      <4>1. ~(scan > Len(queue)) /\ Expired(queue[scan])
        BY <2>1, <2>5, Zenon DEF Scan
      <4>2. fate' = [fate EXCEPT ![queue[scan].from] = "expired"]
        BY <2>5, <4>1, Zenon DEF Scan
      <4>3. scan \in 1..Len(queue)
        BY <3>1, <4>1
      <4>4. QED
        BY <4>1, <4>2, <4>3, Zenon
    <3>3. queue[scan].from = q
      BY <2>1, <3>2, Zenon
    <3>4. QED
      BY <2>1, <3>1, <3>2, <3>3, Zenon DEF Expired
  <2>6. CASE Stop
    BY <2>1, <2>6, Zenon DEF Stop, Serving
  <2>7. QED
    BY <1>1, <2>1, <2>2, <2>3, <2>4, <2>5, <2>6, ZenonT(30)
    DEF Next, HandlerStep, Handler, ServeWebhookValidate, ServeWebhookCancelled,
        ServeWebhookAccepted, WaitForWebhookClosed, WaitForWebhookCancelled, Cancel, Tick, vars
<1>2. QED
  BY <1>1, Invariance, PTL DEF Spec, LostOnly

=============================================================================
