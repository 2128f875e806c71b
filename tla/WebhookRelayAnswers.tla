------------------------ MODULE WebhookRelayAnswers -------------------------
(***************************************************************************)
(* Proofs about the answers and the counters of WebhookRelay: each agrees  *)
(* with what became of the deliveries.  The sets that are counted are      *)
(* finite, and a step adds at most one request to each.                    *)
(***************************************************************************)
EXTENDS WebhookRelayProofs, FiniteSetTheorems

\* Sets of requests can be counted: a new member adds one, one that leaves takes one.
LEMMA Counting ==
  ASSUME NEW S \in SUBSET Reqs
  PROVE  /\ IsFiniteSet(S) /\ Cardinality(S) \in Nat
         /\ \A x : x \notin S => Cardinality(S \cup {x}) = Cardinality(S) + 1
         /\ \A x : x \in S => Cardinality(S \ {x}) = Cardinality(S) - 1
<1>1. IsFiniteSet(S)
  BY FiniteRequests, FS_Subset, Zenon
<1>2. Cardinality(S) \in Nat
  BY <1>1, FS_CardinalityType, Zenon
<1>3. ASSUME NEW x, x \notin S PROVE Cardinality(S \cup {x}) = Cardinality(S) + 1
  BY <1>1, <1>3, FS_AddElement, Zenon
<1>4. ASSUME NEW x, x \in S PROVE Cardinality(S \ {x}) = Cardinality(S) - 1
  BY <1>1, <1>4, FS_RemoveElement, Zenon
<1>5. QED
  BY <1>1, <1>2, <1>3, <1>4, Zenon

\* The requests that are counted.
LEMMA CountedSets ==
  /\ Entered \in SUBSET Reqs /\ Uncounted \in SUBSET Reqs /\ Written \in SUBSET Reqs
  /\ Answered \in SUBSET Reqs /\ TurnedAway \in SUBSET Reqs
BY Zenon DEF Entered, Uncounted, Written, Answered, TurnedAway

\* The counted sets and the counters may stay as they are.
LEMMA SameCounts ==
  ASSUME AnswerInv, UNCHANGED <<denied, relayed, read>>,
         Entered' = Entered, Uncounted' = Uncounted, Written' = Written,
         Answered' = Answered, TurnedAway' = TurnedAway
  PROVE  Counted' /\ Denied' /\ Cardinality(Answered') = Cardinality(Written')
BY Zenon DEF AnswerInv, Counted, Denied

\* A delivery in the buffer is one that was sent and is queued.
LEMMA Held ==
  ASSUME IInv, NEW i \in 1..Len(queue)
  PROVE  queue[i].from \in Reqs /\ fate[queue[i].from] = "queued"
<1>1. queue[i] \in Delivery
  BY ElementOfSeq, Zenon DEF IInv, TypeOK
<1>2. queue[i].from \in Reqs
  BY <1>1, Zenon DEF Delivery
<1>3. InQueue(queue[i].from)
  BY Zenon DEF InQueue
<1>4. QED
  BY <1>2, <1>3, Zenon DEF IInv, OnePlace

\* The requests of handlers that a step leaves alone keep their promises.
LEMMA Others ==
  ASSUME AnswerInv, NEW p \in Reqs, UNCHANGED req, pc'[p] = pc[p], code'[p] = code[p],
         fate'[p] = "none" <=> fate[p] = "none"
  PROVE  RequestInv(p)'
<1>1. RequestInv(p) /\ req'[p] = req[p]
  BY Zenon DEF AnswerInv
<1>2. Admissible(req'[p]) <=> Admissible(req[p])
  BY <1>1, Zenon
<1>3. ServeWebhookCheck(req'[p]) = ServeWebhookCheck(req[p])
  BY <1>1, Zenon
<1>4. QED
  BY <1>1, <1>2, <1>3 DEF RequestInv, Admissible, ServeWebhookCheck, PayloadLimit

\* The checks of the Handler answer requests that the validator never sees.
LEMMA HandlerAnswers ==
  ASSUME IInv, AnswerInv, NEW r \in Reqs, Handler(r)
  PROVE  AnswerInv'
<1> DEFINE q == req[r]
           check == CASE q.path = "delivery" -> ServeWebhookCheck(q)
                      [] q.path = "relay"    -> WaitForWebhookCheck(q)
                      [] q.path = "other"    -> 404
<1>1. /\ q.path \in {"delivery", "relay", "other"}
      /\ pc \in [Reqs -> PCs] /\ code \in [Reqs -> Codes] /\ fate[r] = "none" /\ code[r] = 0
  <2>1. req[r] \in RequestType /\ pc \in [Reqs -> PCs] /\ code \in [Reqs -> Codes]
    BY RelayAssumption, Zenon DEF IInv, TypeOK
  <2>2. pc[r] = "idle" /\ RequestInv(r)
    BY Zenon DEF Handler, AnswerInv
  <2>3. QED
    BY <2>1, <2>2, Zenon DEF IInv, RequestType, UnsentInv, RequestInv
<1>2. /\ check \in {0, 400, 404, 405, 413, 415}
      /\ check = 0 => q.path # "other"
      /\ q.path = "delivery" => check = ServeWebhookCheck(q)
  BY <1>1 DEF ServeWebhookCheck, WaitForWebhookCheck
<1>3. /\ code' = [code EXCEPT ![r] = check]
      /\ pc' = [pc EXCEPT ![r] = CASE check # 0 -> "done"
                                   [] check = 0 /\ q.path = "delivery" -> "validate"
                                   [] check = 0 /\ q.path = "relay" -> "wait"]
      /\ UNCHANGED <<req, fate, denied, relayed, read>>
  BY Zenon DEF Handler
<1> HIDE DEF check
<1>4. /\ pc'[r] \in {"done", "validate", "wait"} /\ code'[r] = check
      /\ pc'[r] # "done" => check = 0
      /\ pc'[r] = "validate" => q.path = "delivery"
      /\ \A p \in Reqs \ {r} : pc'[p] = pc[p] /\ code'[p] = code[p]
  BY <1>1, <1>2, <1>3
<1>5. pc[r] = "idle"
  BY Zenon DEF Handler
<1>6. ASSUME NEW p \in Reqs PROVE RequestInv(p)'
  <2>1. CASE p = r
    BY <1>1, <1>2, <1>3, <1>4, <2>1 DEF RequestInv, ServeWebhookCheck, PayloadLimit
  <2>2. CASE p # r
    BY <1>3, <1>4, <2>2, Others, Zenon
  <2>3. QED
    BY <2>1, <2>2, Zenon
<1>7. /\ Entered' = Entered /\ Uncounted' = Uncounted /\ Written' = Written
      /\ Answered' = Answered /\ TurnedAway' = TurnedAway
  <2>1. Entered' = Entered /\ Written' = Written
    BY <1>3, Zenon DEF Entered, Written
  <2>2. Uncounted' = Uncounted
    BY <1>4, <1>5, Zenon DEF Uncounted
  <2>3. Answered' = Answered
    BY <1>1, <1>2, <1>4 DEF Answered
  <2>4. TurnedAway' = TurnedAway
    BY <1>1, <1>2, <1>3, <1>4, SMTT(20) DEF TurnedAway, ServeWebhookCheck, PayloadLimit
  <2>5. QED
    BY <2>1, <2>2, <2>3, <2>4, Zenon
<1>8. QED
  BY <1>3, <1>6, <1>7, SameCounts, Zenon DEF AnswerInv

\* What the validator lets through is admissible.
LEMMA LetThrough ==
  ASSUME NEW q \in RequestType, NEW c \in BOOLEAN, NEW fails \in ReadAllFails(q, c),
         200 \in Validate(q, fails), q.path = "delivery", ServeWebhookCheck(q) = 0
  PROVE  Admissible(q)
<1>1. ~ fails
  BY DEF Validate, NoopValidator, SignatureValidator
<1>2. q.size <= PayloadLimit
  <2>1. PayloadLimit \in Nat /\ q.size \in Nat
    BY RelayAssumption, Zenon DEF PayloadLimit, RequestType
  <2>2. ~ (q.size > PayloadLimit)
    BY <1>1, Zenon DEF ReadAllFails
  <2>3. QED
    BY <2>1, <2>2
<1>3. q.method = "POST" /\ q.json
  BY DEF ServeWebhookCheck, RequestType
<1>4. Validator = "signature" => \E i \in DOMAIN Tokens : Tokens[i] = q.sig
  BY <1>1 DEF Validate, SignatureValidator, SHA256SignatureFromHeader, SignatureMatches
<1>5. QED
  BY <1>2, <1>3, <1>4, Zenon DEF Admissible

\* The validator's verdict: a 4xx is counted once, anything else is not.
LEMMA ValidateAnswers ==
  ASSUME IInv, AnswerInv, NEW r \in Reqs, ServeWebhookValidate(r)
  PROVE  AnswerInv'
<1>1. /\ req[r] \in RequestType /\ pc \in [Reqs -> PCs] /\ code \in [Reqs -> Codes] /\ denied \in Nat
  BY RelayAssumption, Zenon DEF IInv, TypeOK
<1>2. pc[r] = "validate" /\ RequestInv(r) /\ UNCHANGED <<req, fate, relayed, read>>
  BY Zenon DEF ServeWebhookValidate, AnswerInv
<1>3. /\ fate[r] = "none" /\ code[r] = 0
      /\ req[r].path = "delivery" /\ ServeWebhookCheck(req[r]) = 0
  BY <1>2, Zenon DEF IInv, UnsentInv, RequestInv
<1>4. PICK fails \in ReadAllFails(req[r], r \in gone) :
        \E status \in Validate(req[r], fails) :
          Reject(r, status) \/ Abandon(r, status) \/ EnterSelect(r, status)
  BY Zenon DEF ServeWebhookValidate
<1>5. PICK status \in Validate(req[r], fails) :
        Reject(r, status) \/ Abandon(r, status) \/ EnterSelect(r, status)
  BY <1>4, Zenon
<1>6. status \in {200, 400, 401, 500}
  BY <1>5, ValidateCodes
<1>7. Entered' = Entered /\ Written' = Written
  BY <1>2, Zenon DEF Entered, Written
<1>8. CASE Reject(r, status)
  <2>1. /\ status # 200 /\ pc' = [pc EXCEPT ![r] = "done"] /\ code' = [code EXCEPT ![r] = status]
        /\ denied' = IF status \in {400, 401} THEN denied + 1 ELSE denied
    BY <1>6, <1>8 DEF Reject
  <2>2. ASSUME NEW p \in Reqs PROVE RequestInv(p)'
    <3>1. CASE p = r
      BY <1>1, <1>2, <1>3, <1>6, <2>1, <3>1 DEF RequestInv
    <3>2. CASE p # r
      BY <1>1, <1>2, <2>1, <3>2, Others, Zenon
    <3>3. QED
      BY <3>1, <3>2, Zenon
  <2>3. Uncounted' = Uncounted
    BY <1>1, <1>2, <2>1 DEF Uncounted
  <2>4. Answered' = Answered
    BY <1>1, <1>3, <1>6, <2>1 DEF Answered
  <2>5. TurnedAway' = IF status \in {400, 401} THEN TurnedAway \cup {r} ELSE TurnedAway
    BY <1>1, <1>2, <1>3, <1>6, <2>1 DEF TurnedAway, ServeWebhookCheck, PayloadLimit
  <2>6. r \notin TurnedAway
    BY <1>3 DEF TurnedAway
  <2>7. denied' = Cardinality(TurnedAway')
    BY <1>1, <2>1, <2>5, <2>6, Counting, CountedSets DEF AnswerInv, Denied
  <2>8. Counted'
    BY <1>2, <1>7, <2>3, Zenon DEF AnswerInv, Counted
  <2>9. QED
    BY <1>7, <2>2, <2>4, <2>7, <2>8, Zenon DEF AnswerInv, Denied
<1>9. CASE Abandon(r, status) \/ EnterSelect(r, status)
  <2>1. /\ status = 200 /\ UNCHANGED <<code, denied>>
        /\ pc' = [pc EXCEPT ![r] = "done"] \/ pc' = [pc EXCEPT ![r] = "select"]
    BY <1>9, Zenon DEF Abandon, EnterSelect
  <2>2. Admissible(req[r])
    <3>1. 200 \in Validate(req[r], fails) /\ (r \in gone) \in BOOLEAN
      BY <1>5, <2>1
    <3>2. QED
      BY <1>1, <1>3, <1>4, <3>1, LetThrough, Zenon
  <2>3. ASSUME NEW p \in Reqs PROVE RequestInv(p)'
    <3>1. CASE p = r
      <4>1. pc'[r] \in {"done", "select"} /\ code'[r] = 0 /\ fate'[r] = "none" /\ req'[r] = req[r]
        BY <1>1, <1>2, <1>3, <2>1, Zenon
      <4>2. Admissible(req'[r])
        BY <2>2, <4>1, Zenon
      <4>3. QED
        BY <3>1, <4>1, <4>2 DEF RequestInv, Admissible, PayloadLimit
    <3>2. CASE p # r
      <4>1. pc'[p] = pc[p]
        BY <1>1, <2>1, <3>2, Zenon
      <4>2. QED
        BY <1>2, <2>1, <4>1, Others
    <3>3. QED
      BY <3>1, <3>2, Zenon
  <2>4. Uncounted' = Uncounted
    BY <1>1, <1>2, <2>1, Zenon DEF Uncounted
  <2>5. Answered' = Answered /\ TurnedAway' = TurnedAway
    BY <1>2, <2>1 DEF Answered, TurnedAway, ServeWebhookCheck, PayloadLimit
  <2>6. QED
    BY <1>2, <1>7, <2>1, <2>3, <2>4, <2>5, SameCounts DEF AnswerInv
<1>10. QED
  BY <1>5, <1>8, <1>9, Zenon

\* A select that ends by its context or by Stop leaves nothing to be counted.
LEMMA EndAnswers ==
  ASSUME IInv, AnswerInv, NEW r \in Reqs,
         ServeWebhookCancelled(r) \/ WaitForWebhookClosed(r) \/ WaitForWebhookCancelled(r)
  PROVE  AnswerInv'
<1>1. /\ pc[r] \in {"select", "wait"} /\ pc' = [pc EXCEPT ![r] = "done"]
      /\ UNCHANGED <<req, fate, code, denied, relayed, read>>
  BY Zenon DEF ServeWebhookCancelled, WaitForWebhookClosed, WaitForWebhookCancelled
<1>2. RequestInv(r) /\ pc \in [Reqs -> PCs]
  BY Zenon DEF AnswerInv, IInv, TypeOK
<1>3. fate[r] = "none" /\ code[r] = 0
  BY <1>1, <1>2, Zenon DEF IInv, UnsentInv, RequestInv
<1>4. ASSUME NEW p \in Reqs PROVE RequestInv(p)'
  <2>1. CASE p = r
    BY <1>1, <1>2, <1>3, <2>1, SMTT(20) DEF RequestInv
  <2>2. CASE p # r
    BY <1>1, <1>2, <2>2, Others, Zenon
  <2>3. QED
    BY <2>1, <2>2, Zenon
<1>5. Uncounted' = Uncounted
  BY <1>1, <1>2, Zenon DEF Uncounted
<1>6. /\ Entered' = Entered /\ Written' = Written
      /\ Answered' = Answered /\ TurnedAway' = TurnedAway
  BY <1>1 DEF Entered, Written, Answered, TurnedAway, ServeWebhookCheck, PayloadLimit
<1>7. QED
  BY <1>1, <1>4, <1>5, <1>6, SameCounts, Zenon DEF AnswerInv

\* A delivery that the FIFO receives is entered, and its handler has yet to count it.
LEMMA SendAnswers ==
  ASSUME IInv, AnswerInv, NEW r \in Reqs, ServeWebhookSend(r)
  PROVE  AnswerInv'
<1>1. /\ pc[r] = "select" /\ pc' = [pc EXCEPT ![r] = "sent"]
      /\ UNCHANGED <<req, code, denied, relayed, read>>
      /\ fate' = IF Full THEN [fate EXCEPT ![Head(queue).from] = "dropped", ![r] = "queued"]
                         ELSE [fate EXCEPT ![r] = "queued"]
  BY Zenon DEF ServeWebhookSend
<1>2. RequestInv(r) /\ pc \in [Reqs -> PCs] /\ fate \in [Reqs -> Fates] /\ relayed \in Nat
  BY Zenon DEF AnswerInv, IInv, TypeOK
<1>3. fate[r] = "none" /\ code[r] = 0 /\ Admissible(req[r])
  BY <1>1, <1>2, Zenon DEF IInv, UnsentInv, RequestInv
<1>4. Full => Head(queue).from \in Reqs /\ fate[Head(queue).from] = "queued"
  BY QueueFacts, OptionTypes, Held DEF Full
<1>5. /\ fate'[r] = "queued"
      /\ \A p \in Reqs : p # r => (fate'[p] = "none" <=> fate[p] = "none")
      /\ \A p \in Reqs : p # r => (fate'[p] \in {"delivered", "unsent"} <=> fate[p] \in {"delivered", "unsent"})
  BY <1>1, <1>2, <1>3, <1>4, Zenon
<1>6. pc'[r] = "sent" /\ \A p \in Reqs \ {r} : pc'[p] = pc[p]
  BY <1>1, <1>2, Zenon
<1>7. UNCHANGED <<req, code, denied, relayed, read>>
  BY <1>1, ZenonT(30)
<1>8. ASSUME NEW p \in Reqs PROVE RequestInv(p)'
  <2>1. CASE p = r
    BY <1>3, <1>5, <1>6, <1>7, <2>1 DEF RequestInv, Admissible, PayloadLimit
  <2>2. CASE p # r
    BY <1>5, <1>6, <1>7, <2>2, Others, Zenon
  <2>3. QED
    BY <2>1, <2>2, Zenon
<1>9. Uncounted' = Uncounted \cup {r} /\ r \notin Uncounted
  BY <1>1, <1>6, Zenon DEF Uncounted
<1>10. Entered' = Entered \cup {r} /\ r \notin Entered
  BY <1>3, <1>5, Zenon DEF Entered
<1>11. Written' = Written
  BY <1>3, <1>5, Zenon DEF Written
<1>12. Answered' = Answered /\ TurnedAway' = TurnedAway
  BY <1>7 DEF Answered, TurnedAway, ServeWebhookCheck, PayloadLimit
<1>13. Counted'
  <2>1. /\ Cardinality(Uncounted') = Cardinality(Uncounted) + 1 /\ Cardinality(Uncounted) \in Nat
        /\ Cardinality(Entered') = Cardinality(Entered) + 1 /\ Cardinality(Entered) \in Nat
    BY <1>9, <1>10, Counting, CountedSets, Zenon
  <2>2. Counted /\ Cardinality(Written) \in Nat
    BY Counting, CountedSets DEF AnswerInv
  <2>3. QED
    BY <1>1, <1>2, <1>11, <2>1, <2>2 DEF Counted
<1>14. QED
  BY <1>1, <1>8, <1>11, <1>12, <1>13, Zenon DEF AnswerInv, Denied

\* The relayed counter and the answer 202.
LEMMA AcceptedAnswers ==
  ASSUME IInv, AnswerInv, NEW r \in Reqs, ServeWebhookAccepted(r)
  PROVE  AnswerInv'
<1>1. /\ pc[r] = "sent" /\ pc' = [pc EXCEPT ![r] = "done"] /\ code' = [code EXCEPT ![r] = 202]
      /\ relayed' = relayed + 1 /\ UNCHANGED <<req, fate, denied, read>>
  BY Zenon DEF ServeWebhookAccepted
<1>2. RequestInv(r) /\ pc \in [Reqs -> PCs] /\ code \in [Reqs -> Codes] /\ relayed \in Nat
  BY Zenon DEF AnswerInv, IInv, TypeOK
<1>3. fate[r] # "none" /\ code[r] = 0 /\ Admissible(req[r])
  BY <1>1, <1>2, SMTT(20) DEF RequestInv
<1>4. ASSUME NEW p \in Reqs PROVE RequestInv(p)'
  <2>1. CASE p = r
    BY <1>1, <1>2, <1>3, <2>1, SMTT(20) DEF RequestInv, Admissible, PayloadLimit
  <2>2. CASE p # r
    BY <1>1, <1>2, <2>2, Others, Zenon
  <2>3. QED
    BY <2>1, <2>2, Zenon
<1>5. Uncounted' = Uncounted \ {r} /\ r \in Uncounted
  BY <1>1, <1>2, Zenon DEF Uncounted
<1>6. Entered' = Entered /\ Written' = Written
  BY <1>1 DEF Entered, Written
<1>7. Answered' = Answered
  BY <1>1, <1>2, <1>3 DEF Answered
<1>8. TurnedAway' = TurnedAway
  BY <1>1, <1>2, <1>3 DEF TurnedAway, ServeWebhookCheck, PayloadLimit
<1>9. Counted'
  <2>1. Cardinality(Uncounted') = Cardinality(Uncounted) - 1 /\ Cardinality(Uncounted) \in Nat
    BY <1>5, Counting, CountedSets, Zenon
  <2>2. Counted /\ Cardinality(Written) \in Nat /\ Cardinality(Entered) \in Nat
    BY Counting, CountedSets, Zenon DEF AnswerInv
  <2>3. QED
    BY <1>1, <1>2, <1>6, <2>1, <2>2 DEF Counted
<1>10. QED
  BY <1>1, <1>4, <1>6, <1>7, <1>8, <1>9, Zenon DEF AnswerInv, Denied

\* What the FIFO does with deliveries it holds, and what happens to no delivery at
\* all, changes neither answers nor counters.
LEMMA FifoAnswers ==
  ASSUME AnswerInv, UNCHANGED <<req, code, denied, relayed, read>>,
         \A p \in Reqs : fate'[p] = "none" <=> fate[p] = "none",
         \A p \in Reqs : fate'[p] \in {"delivered", "unsent"} <=> fate[p] \in {"delivered", "unsent"},
         \A p \in Reqs : pc'[p] # pc[p] => pc[p] = "wait" /\ pc'[p] = "got"
  PROVE  AnswerInv'
<1>1. ASSUME NEW p \in Reqs PROVE RequestInv(p)'
  <2>1. CASE pc'[p] = pc[p]
    BY <2>1, Others, Zenon
  <2>2. CASE pc[p] = "wait" /\ pc'[p] = "got"
    BY <2>2, Zenon DEF AnswerInv, RequestInv
  <2>3. QED
    BY <2>1, <2>2, Zenon
<1>2. Entered' = Entered /\ Written' = Written
  BY Zenon DEF Entered, Written
<1>3. Uncounted' = Uncounted
  BY Zenon DEF Uncounted
<1>4. Answered' = Answered /\ TurnedAway' = TurnedAway
  BY DEF Answered, TurnedAway, ServeWebhookCheck, PayloadLimit
<1>5. QED
  BY <1>1, <1>2, <1>3, <1>4, SameCounts, Zenon DEF AnswerInv

\* A poll receives a delivery.
LEMMA ReceiveAnswers ==
  ASSUME IInv, AnswerInv, NEW r \in Reqs, WaitForWebhookReceive(r)
  PROVE  AnswerInv'
<1>1. /\ pc[r] = "wait" /\ pc' = [pc EXCEPT ![r] = "got"] /\ queue # <<>>
      /\ fate' = [fate EXCEPT ![Head(queue).from] = "taken"]
      /\ UNCHANGED <<req, code, denied, relayed, read>>
  BY Zenon DEF WaitForWebhookReceive
<1>2. pc \in [Reqs -> PCs] /\ fate \in [Reqs -> Fates] /\ queue \in Seq(Delivery)
  BY Zenon DEF IInv, TypeOK
<1>3. Head(queue) = queue[1] /\ 1 \in 1..Len(queue)
  BY <1>1, <1>2, LenProperties
<1>4. Head(queue).from \in Reqs /\ fate[Head(queue).from] = "queued"
  BY <1>3, Held, Zenon
<1>5. \A p \in Reqs : fate'[p] = fate[p] \/ (fate[p] = "queued" /\ fate'[p] = "taken")
  BY <1>1, <1>2, <1>4, Zenon
<1>6. \A p \in Reqs : pc'[p] # pc[p] => pc[p] = "wait" /\ pc'[p] = "got"
  BY <1>1, <1>2, Zenon
<1>7. /\ \A p \in Reqs : fate'[p] = "none" <=> fate[p] = "none"
      /\ \A p \in Reqs : fate'[p] \in {"delivered", "unsent"} <=> fate[p] \in {"delivered", "unsent"}
  BY <1>5
<1>8. QED
  BY <1>1, <1>6, <1>7, FifoAnswers, Zenon

\* A poll writes its delivery, for which it alone answers.
LEMMA WriteAnswers ==
  ASSUME IInv, AnswerInv, NEW r \in Reqs, WaitForWebhookWrite(r)
  PROVE  AnswerInv'
<1> DEFINE d == job[r].from
<1>1. /\ pc[r] = "got" /\ pc' = [pc EXCEPT ![r] = "done"] /\ code' = [code EXCEPT ![r] = 200]
      /\ fate' = [fate EXCEPT ![d] = IF r \in gone THEN "unsent" ELSE "delivered"]
      /\ read' = read + 1 /\ UNCHANGED <<req, denied, relayed>>
  BY Zenon DEF WaitForWebhookWrite
<1>2. /\ RequestInv(r) /\ pc \in [Reqs -> PCs] /\ code \in [Reqs -> Codes] /\ fate \in [Reqs -> Fates]
      /\ read \in Nat /\ relayed \in Nat /\ job[r] \in Delivery
  BY Zenon DEF AnswerInv, IInv, TypeOK
<1>3. fate[r] = "none" /\ code[r] = 0
  BY <1>1, <1>2, Zenon DEF RequestInv
<1>4. d \in Reqs /\ fate[d] = "taken"
  <2>1. d \in Reqs /\ HeldBy(d, r)
    BY <1>1, <1>2, Zenon DEF Delivery, HeldBy
  <2>2. QED
    BY <2>1, Zenon DEF IInv, OnePlace
<1> HIDE DEF d
<1>5. d # r
  BY <1>3, <1>4, Zenon
<1>6. /\ fate'[d] \in {"delivered", "unsent"} /\ pc'[r] = "done" /\ code'[r] = 200
      /\ \A p \in Reqs : p # d => fate'[p] = fate[p]
      /\ \A p \in Reqs : p # r => pc'[p] = pc[p] /\ code'[p] = code[p]
  BY <1>1, <1>2, <1>4, ZenonT(30)
<1>7. ASSUME NEW p \in Reqs PROVE RequestInv(p)'
  <2>1. CASE p = r
    BY <1>3, <1>5, <1>6, <2>1 DEF RequestInv
  <2>2. CASE p # r
    <3>1. fate'[p] = "none" <=> fate[p] = "none"
      BY <1>4, <1>6, ZenonT(30)
    <3>2. QED
      BY <1>1, <1>6, <2>2, <3>1, Others, Zenon
  <2>3. QED
    BY <2>1, <2>2, Zenon
<1>8. Written' = Written \cup {d} /\ d \notin Written
  BY <1>4, <1>6 DEF Written
<1>9. Answered' = Answered \cup {r} /\ r \notin Answered
  BY <1>3, <1>6 DEF Answered
<1>10. Entered' = Entered
  BY <1>4, <1>6 DEF Entered
<1>11. Uncounted' = Uncounted
  BY <1>1, <1>6 DEF Uncounted
<1>12. TurnedAway' = TurnedAway
  BY <1>1, <1>3, <1>6 DEF TurnedAway, ServeWebhookCheck, PayloadLimit
<1>13. /\ Cardinality(Written') = Cardinality(Written) + 1 /\ Cardinality(Written) \in Nat
       /\ Cardinality(Answered') = Cardinality(Answered) + 1 /\ Cardinality(Answered) \in Nat
  BY <1>8, <1>9, Counting, CountedSets, Zenon
<1>14. Counted'
  <2>1. Counted /\ Cardinality(Uncounted) \in Nat /\ Cardinality(Entered) \in Nat
    BY Counting, CountedSets, Zenon DEF AnswerInv
  <2>2. Cardinality(Written') <= Cardinality(Entered')
    <3>1. Written' \subseteq Entered' /\ Entered' \in SUBSET Reqs
      BY Zenon DEF Written, Entered
    <3>2. QED
      BY <3>1, FiniteRequests, FS_Subset, Zenon
  <2>3. QED
    BY <1>1, <1>2, <1>10, <1>11, <1>13, <2>1, <2>2 DEF Counted
<1>15. QED
  BY <1>1, <1>7, <1>12, <1>13, <1>14, ZenonT(30) DEF AnswerInv, Denied

\* The scan removes deliveries that are queued, and Stop all of them.
LEMMA LossAnswers ==
  ASSUME IInv, AnswerInv, Scan \/ Stop
  PROVE  AnswerInv'
<1>1. UNCHANGED <<pc, req, code, denied, relayed, read>>
  BY Zenon DEF Scan, Stop
<1>2. fate \in [Reqs -> Fates] /\ scan \in Nat /\ Len(queue) \in Nat
  BY QueueFacts, Zenon DEF IInv, TypeOK
<1>3. \A p \in Reqs : fate'[p] = fate[p] \/ (fate[p] = "queued" /\ fate'[p] \in {"expired", "discarded"})
  <2>1. CASE Scan
    <3>1. CASE fate' = fate
      BY <3>1, Zenon
    <3>2. CASE fate' # fate
      <4>1. ~ (scan > Len(queue)) /\ scan > 0
        BY <2>1, <3>2, Zenon DEF Scan
      <4>2. fate' = [fate EXCEPT ![queue[scan].from] = "expired"]
        BY <2>1, <3>2, <4>1, Zenon DEF Scan
      <4>3. queue[scan].from \in Reqs /\ fate[queue[scan].from] = "queued"
        BY <1>2, <4>1, Held
      <4>4. QED
        BY <1>2, <4>2, <4>3, Zenon
    <3>3. QED
      BY <3>1, <3>2, Zenon
  <2>2. CASE Stop
    BY <1>2, <2>2, Zenon DEF Stop
  <2>3. QED
    BY <2>1, <2>2, Zenon
<1>4. /\ \A p \in Reqs : fate'[p] = "none" <=> fate[p] = "none"
      /\ \A p \in Reqs : fate'[p] \in {"delivered", "unsent"} <=> fate[p] \in {"delivered", "unsent"}
  BY <1>3, Zenon
<1>5. QED
  BY <1>1, <1>4, FifoAnswers, Zenon

\* At the start nothing is answered and nothing is counted.
LEMMA InitAnswers == Init => AnswerInv
<1>1. SUFFICES ASSUME Init PROVE AnswerInv
  BY Zenon
<1>2. ASSUME NEW r \in Reqs PROVE RequestInv(r)
  BY <1>1 DEF Init, RequestInv
<1>3. /\ Entered = {} /\ Uncounted = {} /\ Written = {} /\ Answered = {} /\ TurnedAway = {}
  BY <1>1 DEF Init, Entered, Uncounted, Written, Answered, TurnedAway
<1>4. QED
  BY <1>1, <1>2, <1>3, FS_EmptySet DEF Init, AnswerInv, Counted, Denied

\* Every step preserves what the answers and the counters say.
LEMMA NextAnswers == IInv /\ AnswerInv /\ [Next]_vars => AnswerInv'
<1>1. SUFFICES ASSUME IInv, AnswerInv, [Next]_vars PROVE AnswerInv'
  BY Zenon
<1>2. CASE UNCHANGED <<pc, req, code, denied, relayed, read, fate>>
  BY <1>1, <1>2, FifoAnswers, Zenon
<1>3. ASSUME NEW r \in Reqs, Cancel(r) PROVE AnswerInv'
  BY <1>2, <1>3, Zenon DEF Cancel
<1>4. CASE Tick
  BY <1>2, <1>4, Zenon DEF Tick
<1>5. CASE UNCHANGED vars
  BY <1>2, <1>5 DEF vars
<1>6. QED
  BY <1>1, <1>3, <1>4, <1>5, HandlerAnswers, ValidateAnswers, SendAnswers, EndAnswers,
     AcceptedAnswers, ReceiveAnswers, WriteAnswers, LossAnswers, ZenonT(30)
  DEF Next, HandlerStep

-----------------------------------------------------------------------------
(***************************************************************************)
(* The theorems.                                                           *)
(***************************************************************************)

\* The answers of both handlers and the counters of WithCounters agree with what
\* became of the deliveries.
THEOREM AnswersAgree == Spec => []AnswerInv
BY Invariance, InitAnswers, NextAnswers, PTL DEF Spec

\* Nothing that ServeWebhook or its validator refuses reaches the FIFO.
THEOREM ValidOnly == Spec => []OnlyValidRelayed
<1>1. AnswerInv => OnlyValidRelayed
  BY Zenon DEF AnswerInv, RequestInv, OnlyValidRelayed
<1>2. QED
  BY <1>1, AnswersAgree, PTL

\* The relayed and read counters add up in every interleaving.
THEOREM CountersAddUp == Spec => []Counted
<1>1. AnswerInv => Counted
  BY Zenon DEF AnswerInv
<1>2. QED
  BY <1>1, AnswersAgree, PTL

\* Deliveries are handed over at most once and in order, and both sides are told so.
THEOREM HandedOverOnce == Spec => []DeliveriesSound
<1>1. IInv /\ AnswerInv => DeliveriesSound
  BY ZenonT(30) DEF IInv, AnswerInv, RequestInv, DeliveriesSound, AcceptedIffRelayed
<1>2. QED
  BY <1>1, Invariance, AnswersAgree, PTL
=============================================================================
