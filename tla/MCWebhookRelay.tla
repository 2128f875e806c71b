--------------------------- MODULE MCWebhookRelay ---------------------------
(***************************************************************************)
(* Instances of WebhookRelay for TLC.                                      *)
(***************************************************************************)
EXTENDS WebhookRelay, TLC

Good == [path |-> "delivery", method |-> "POST", length |-> 1, size |-> 1,
         json |-> TRUE, body |-> TRUE, sig |-> "s1"]
Poll == [path |-> "relay", method |-> "GET", length |-> 0, size |-> 0,
         json |-> FALSE, body |-> TRUE, sig |-> "missing"]

\* Well-formed traffic only: all the interleavings are in the queue.
Traffic == {Good, Poll}

\* One request for each way a request can fail before or in validation.
Malformed == Traffic \cup
  { [Good EXCEPT !.length = 3],            \* declared too large: 413
    [Good EXCEPT !.length = -1, !.size = 3], \* really too large: 400 from the reader
    [Good EXCEPT !.json = FALSE],          \* 415
    [Good EXCEPT !.method = "GET"],        \* 405
    [Good EXCEPT !.body = FALSE],          \* 400
    [Good EXCEPT !.sig = "missing"],       \* 400
    [Good EXCEPT !.sig = "malformed"],     \* 400
    [Good EXCEPT !.sig = "s2"],            \* matches the second token
    [Good EXCEPT !.sig = "s3"],            \* 401
    [Poll EXCEPT !.method = "POST"],       \* 405
    [Poll EXCEPT !.path = "other"] }       \* 404

OneToken == <<"s1">>
TwoTokens == <<"s1", "s2">>

Symmetric == Permutations(Reqs)
=============================================================================
