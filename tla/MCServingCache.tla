--------------------------- MODULE MCServingCache ---------------------------
(***************************************************************************)
(* Instances of ServingCache for TLC: the files a store may hold, and the  *)
(* names clients may ask for.                                              *)
(***************************************************************************)
EXTENDS ServingCache, FiniteSets, TLC

CONSTANTS h1, h2, i1, i2, i3

VARIABLE part

Leaf(h, key, notAfter) == [ca |-> FALSE, subject |-> h, issuer |-> "sub",
                           key |-> key, notAfter |-> notAfter, garbled |-> FALSE]
CA == [ca |-> TRUE, subject |-> "sub", issuer |-> "root",
       key |-> "k0", notAfter |-> 9, garbled |-> FALSE]
Rogue == [CA EXCEPT !.issuer = "elsewhere"]
Garbled == [CA EXCEPT !.garbled = TRUE]
File(certs, keys) == [certs |-> certs, keys |-> keys, missing |-> FALSE]

Good(h, notAfter) == File(<<Leaf(h, "k1", notAfter), CA>>, <<"k1">>)

\* One good file per host, and one file for each way in which a load fails.
AllFiles ==
  {Good(h1, 9), Good(h2, 9),
   File(<<>>, <<"k1">>),
   File(<<Leaf(h1, "k1", 9), CA>>, <<>>),
   File(<<Leaf(h1, "k1", 9), Garbled>>, <<"k1">>),
   File(<<Leaf(h1, "k1", 9)>>, <<"k1">>),
   File(<<Leaf(h1, "k1", 9), Rogue>>, <<"k1">>),
   File(<<Leaf(h1, "k1", 9), Leaf(h1, "k2", 9), CA>>, <<"k1">>),
   File(<<CA>>, <<"k0">>),
   File(<<CA, Leaf(h1, "k1", 9)>>, <<"k0">>),
   File(<<Leaf(h1, "k1", 9), CA>>, <<"k2", "k1">>)}

\* A certificate that expires soon and the ones that may replace it.
Renewals == {Good(h1, 1), Good(h1, 3)}

OneRoot == {"root"}
TwoHosts == {h1, h2}
AllowFirst == {h1}
EveryFile == AllFiles \cup Renewals

Names == {"h1", "H1", "h2", "", "localhost", "h_1"}
NamesToASCII == [n \in Names |->
  CASE n \in {"h1", "H1"} -> h1 [] n = "h2" -> h2 [] n = "" -> "missing"
    [] n = "localhost" -> "unqualified" [] n = "h_1" -> "invalid"]

ThreeHandshakes == {i1, i2, i3}
Symmetric == Permutations(Handshakes)

\* Two questions: what can be served from files of every kind, by two handshakes and
\* while the clock stands still; and for how long, by three handshakes for one host
\* whose good certificate is renewed.
ServingInit ==
  /\ Init
  /\ \/ part = "files" /\ \A h \in Hosts : store[h] \notin Renewals
     \/ part = "time" /\ store[h1] \in Renewals \cup {NoFile} /\ store[h2] = NoFile

Under == Cardinality({i \in Handshakes : pc[i] # "idle"})

ServingNext ==
  /\ \/ \E i \in Handshakes : Get(i) \/ Read(i) \/ Load(i)
     \/ part = "files" /\ \E i \in Handshakes, n \in Names : Under < 2 /\ Hello(i, n)
     \/ part = "files" /\ \E h \in Hosts, f \in AllFiles : StoreWrite(h, f)
     \/ part = "time" /\ \E i \in Handshakes : Hello(i, "h1")
     \/ part = "time" /\ \E f \in Renewals : StoreWrite(h1, f)
     \/ part = "time" /\ Tick
  /\ UNCHANGED part

ServingSpec == ServingInit /\ [][ServingNext]_<<part, vars>>
=============================================================================
