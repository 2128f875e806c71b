------------------------------ MODULE Settings -----------------------------
(***************************************************************************)
(* The configuration the library reads: lists of TLS versions, suites,     *)
(* curves, schemes and algorithms loaded from and saved to YAML, and the   *)
(* webhook configuration and its secrets.                                  *)
(* A constant of crypto/tls or crypto/x509 is its place in the list of the *)
(* source, a version its number; a text is a record of its form and of the *)
(* number or the word it holds.                                            *)
(***************************************************************************)
EXTENDS Integers, Sequences, Functions

CONSTANTS
  Texts,          \* for each kind of list, what a file may hold
  Secrets,        \* the secrets of each user
  Keyring,        \* the keys a context may hold
  MaxLoads        \* bound on the loads of a list

Kinds == {"schemes", "curves", "suites", "algorithms", "versions", "webhook"}

\* The texts of a file: names and numbers of constants, sizes, and words, of which
\* "unknown" is any that the library gives no meaning.
Forms == {"name", "hex", "dec", "size", "word"}
Words == {"insecure", "rsa", "dsa", "ecdsa", "ed25519", "rsa-pss", "unknown", "none"}
FileText == [form : Forms, n : Int, word : Words]

\* Files are lists of texts, and every user has a list of secrets.
ASSUME SettingsAssumption ==
  /\ DOMAIN Texts \subseteq Kinds
  /\ \A k \in DOMAIN Texts : Texts[k] \subseteq Seq(FileText)
  /\ \A u \in DOMAIN Secrets : Secrets[u] \in Seq(Range(Secrets[u]))

VARIABLES
  topic,    \* what is done: a kind of list or "tokens"
  status,   \* "new", "loading", "loaded", "failed", "saved", "fetching"
  text,     \* the file
  entry,    \* the entry of it that is parsed next
  parsed,   \* the list parsed so far
  users,    \* the users whose secrets are not yet listed
  held,     \* the list held
  prior,    \* the list held before the last load (history)
  resaved,  \* the file is one that was saved (history)
  loads,    \* the number of loads
  keys,     \* the keys of the context
  mem       \* the memory of the tokens fetched: "secret", or "zero" once cleared

settingsVars == <<topic, status, text, entry, parsed, users, held, prior, resaved, loads, keys, mem>>

\* No value: what a text with an error stands for.
Fail == <<>>
SSL30 == 768
MaxUint16 == 65535
-----------------------------------------------------------------------------
(* Lists.                                                                  *)

signatureSchemes == 1..12
curveIDs == 1..7
secureSuites == 1..3
insecureSuites == <<4, 5>>
signatureAlgorithms == 1..15
tlsVersions == 769..772

Word(w) == [form |-> "word", n |-> 0, word |-> w]
Number(f, n) == [form |-> f, n |-> n, word |-> "none"]
Named(n) == Number("name", n)

ParseIn(known, t) == IF t.form = "name" /\ t.n \in known THEN <<t.n>> ELSE Fail

ParseSignatureScheme(t) == ParseIn(signatureSchemes, t)
ParseCurveID(t) == ParseIn(curveIDs, t)
ParseCipherSuite(t) == ParseIn(secureSuites \union Range(insecureSuites), t)
ParseSignatureAlgorithm(t) == ParseIn(signatureAlgorithms, t)

\* Names, and numbers of 16 bits in hex or decimal.
ParseTLSVersion(t) ==
  CASE t.form = "name" -> ParseIn(tlsVersions, t)
    [] t.form \in {"hex", "dec"} /\ t.n \in 0..MaxUint16 -> <<t.n>>
    [] OTHER -> Fail

\* The special names of CipherSuites and of SignatureAlgorithms.
CipherSuiteText(t) == IF t = Word("insecure") THEN insecureSuites ELSE ParseCipherSuite(t)
SignatureAlgorithmText(t) ==
  CASE t = Word("rsa") -> <<3, 4, 5>>
    [] t = Word("dsa") -> <<6, 7>>
    [] t = Word("ecdsa") -> <<8, 9, 10, 11>>
    [] t = Word("ed25519") -> <<15>>
    [] t = Word("rsa-pss") -> <<12, 13, 14>>
    [] OTHER -> ParseSignatureAlgorithm(t)

\* The sizes of a webhook configuration; a field that is not known is an error.
DefaultSize == 100
OrDefault(n) == IF n = 0 THEN DefaultSize ELSE n
WebhookText(t) == IF t.form = "size" THEN <<OrDefault(t.n)>> ELSE Fail

Parse(kind, t) ==
  CASE kind = "schemes" -> ParseSignatureScheme(t)
    [] kind = "curves" -> ParseCurveID(t)
    [] kind = "suites" -> CipherSuiteText(t)
    [] kind = "algorithms" -> SignatureAlgorithmText(t)
    [] kind = "versions" -> ParseTLSVersion(t)
    [] kind = "webhook" -> WebhookText(t)

\* tls.VersionName gives names to SSL 3.0 too, and hex numbers to what it does not know.
VersionName(v) == IF v \in tlsVersions \union {SSL30} THEN Named(v) ELSE Number("hex", v)

Written(kind, v) ==
  CASE kind = "versions" -> VersionName(v)
    [] kind = "webhook" -> Number("size", OrDefault(v))
    [] OTHER -> Named(v)

Lists == DOMAIN Texts

SettingsInit ==
  /\ topic \in Lists \union {"tokens"}
  /\ status = "new"
  /\ text = <<>> /\ held = <<>> /\ prior = <<>>
  /\ entry = 1 /\ parsed = <<>>
  /\ resaved = FALSE /\ loads = 0
  /\ users = IF topic = "tokens" THEN DOMAIN Secrets ELSE {}
  /\ keys \in IF topic = "tokens" THEN SUBSET Keyring ELSE {{}}
  /\ mem = <<>>

\* A file is edited.
EditFile(ts) ==
  /\ topic \in Lists /\ loads < MaxLoads /\ status # "loading"
  /\ text' = ts /\ resaved' = FALSE /\ status' = "new"
  /\ text # ts
  /\ UNCHANGED <<topic, entry, parsed, users, held, prior, loads, keys, mem>>

\* UnmarshalYAML of every list: the file is decoded into its texts.
Load ==
  /\ topic \in Lists /\ loads < MaxLoads /\ status \in {"new", "saved"}
  /\ status' = "loading"
  /\ entry' = 1 /\ parsed' = <<>>
  /\ prior' = held
  /\ loads' = loads + 1
  /\ UNCHANGED <<topic, text, users, held, resaved, keys, mem>>

\* Mutant: what was parsed before the first error is kept.
LoadEntryPart ==
  /\ status = "loading"
  /\ IF entry <= Len(text) /\ Parse(topic, text[entry]) # Fail
     THEN /\ parsed' = parsed \o Parse(topic, text[entry]) /\ entry' = entry + 1
          /\ UNCHANGED <<held, status>>
     ELSE /\ held' = parsed /\ parsed' = <<>> /\ entry' = 1
          /\ status' = IF entry > Len(text) THEN "loaded" ELSE "failed"
  /\ UNCHANGED <<topic, text, users, prior, resaved, loads, keys, mem>>

\* One iteration of its loop, and its end: all or nothing.
LoadEntry ==
  /\ status = "loading"
  /\ \/ /\ entry <= Len(text) /\ Parse(topic, text[entry]) # Fail
        /\ parsed' = parsed \o Parse(topic, text[entry]) /\ entry' = entry + 1
        /\ UNCHANGED <<held, status>>
     \/ /\ entry <= Len(text) /\ Parse(topic, text[entry]) = Fail
        /\ status' = "failed" /\ parsed' = <<>> /\ entry' = 1
        /\ UNCHANGED held
     \/ /\ entry > Len(text)
        /\ held' = parsed
        /\ status' = "loaded" /\ parsed' = <<>> /\ entry' = 1
  /\ UNCHANGED <<topic, text, users, prior, resaved, loads, keys, mem>>

\* MarshalYAML of every list.
Saved(kind, list) == [i \in DOMAIN list |-> Written(kind, list[i])]
Save ==
  /\ topic \in Lists /\ status = "loaded"
  /\ text' = Saved(topic, held)
  /\ resaved' = TRUE /\ status' = "saved"
  /\ UNCHANGED <<topic, entry, parsed, users, held, prior, loads, keys, mem>>
-----------------------------------------------------------------------------
(* The secrets of a webhook: SecretsConfig.                                *)

\* The map of users is walked in any order, the secrets of a user in theirs.
SecretSpecs(u) == [j \in DOMAIN Secrets[u] |-> <<u, Secrets[u][j]>>]

UnmarshalSecrets ==
  /\ topic = "tokens" /\ status = "new"
  /\ \/ \E u \in users : held' = held \o SecretSpecs(u) /\ users' = users \ {u} /\ UNCHANGED status
     \/ users = {} /\ status' = "fetching" /\ UNCHANGED <<held, users>>
  /\ UNCHANGED <<topic, text, entry, parsed, prior, resaved, loads, keys, mem>>

Cleared(m) == [i \in DOMAIN m |-> "zero"]

\* One iteration of TokensFromContext, and its end.
FetchToken ==
  LET i == Len(mem) + 1 IN
  /\ topic = "tokens" /\ status = "fetching"
  /\ IF i > Len(held) THEN status' = "loaded" /\ UNCHANGED mem
     ELSE IF held[i] \in keys THEN mem' = Append(mem, "secret") /\ UNCHANGED status
     ELSE mem' = Cleared(mem) /\ status' = "failed"
  /\ UNCHANGED <<topic, text, entry, parsed, users, held, prior, resaved, loads, keys>>
-----------------------------------------------------------------------------
SettingsNext ==
  \/ \E ts \in (IF topic \in Lists THEN Texts[topic] ELSE {}) : EditFile(ts)
  \/ Load \/ LoadEntry \/ Save \/ UnmarshalSecrets \/ FetchToken

SettingsSpec == SettingsInit /\ [][SettingsNext]_settingsVars
-----------------------------------------------------------------------------
\* What the lists of a kind may hold, and the specifications of all the secrets.
Values(kind) ==
  CASE kind = "schemes" -> signatureSchemes
    [] kind = "curves" -> curveIDs
    [] kind = "suites" -> secureSuites \union Range(insecureSuites)
    [] kind = "algorithms" -> signatureAlgorithms
    [] kind = "versions" -> 0..MaxUint16
    [] kind = "webhook" -> Int \ {0}
Specs == UNION {{u} \X Range(Secrets[u]) : u \in DOMAIN Secrets}

\* Lists hold only constants that the library knows, versions of 16 bits, and sizes that
\* are set, however the file writes them; no token is in memory but of a list of secrets.
SettingsTypeOK ==
  /\ topic \in Lists =>
       /\ status \in {"new", "loading", "loaded", "failed", "saved"}
       /\ text \in Seq(FileText)
       /\ held \in Seq(Values(topic)) /\ prior \in Seq(Values(topic))
       /\ parsed \in Seq(Values(topic))
       /\ entry \in IF status = "loading" THEN 1..Len(text) + 1 ELSE {1}
  /\ topic \notin Lists =>
       /\ topic = "tokens"
       /\ status \in {"new", "fetching", "loaded", "failed"}
       /\ held \in Seq(Specs) /\ users \subseteq DOMAIN Secrets
       /\ mem \in Seq({"secret", "zero"})

\* A list that was loaded and saved loads again as the same list, whatever forms and
\* short names the first file used, except one with the version of SSL 3.0, whose
\* name is not known (the UnmarshalYAML and MarshalYAML methods).
SavedLoadsAgain ==
  resaved /\ topic \in Lists =>
    /\ status = "loaded" => held = prior
    /\ status = "failed" => topic = "versions" /\ SSL30 \in Range(prior)

\* A file with an error in it leaves the list held as it was.
FailedLoadKeeps == topic \in Lists /\ status = "failed" => held = prior

\* TokensFromContext returns the tokens of all secrets of all users, or an error after
\* every token it had fetched is cleared, wherever in the order of the map the missing
\* key is.
TokensAllOrNone ==
  topic \notin Lists =>
    /\ status = "loaded" => /\ Len(mem) = Len(held) /\ Range(held) = Specs /\ Specs \subseteq keys
                            /\ \A i \in DOMAIN mem : mem[i] = "secret"
    /\ status = "failed" => /\ ~ (Specs \subseteq keys)
                            /\ \A i \in DOMAIN mem : mem[i] = "zero"

\* What a load has parsed of a file that was saved is the list it was saved from.
LoadsBack ==
  topic \in Lists =>
    /\ status = "loading" => held = prior
    /\ resaved => /\ status # "new"
                  /\ text = Saved(topic, IF status = "saved" THEN held ELSE prior)
                  /\ status = "loading" => /\ Len(parsed) = entry - 1
                                           /\ \A i \in 1..entry - 1 : parsed[i] = prior[i]

\* What is listed of the secrets, and which of those listed were fetched.
FetchedSoFar ==
  topic \notin Lists =>
    /\ Range(held) = {s \in Specs : s[1] \notin users}
    /\ status # "new" => users = {}
    /\ status = "new" => mem = <<>>
    /\ status = "fetching" => /\ Len(mem) <= Len(held)
                              /\ \A i \in DOMAIN mem : mem[i] = "secret" /\ held[i] \in keys

\* Loading, saving and fetching are all or nothing: what was held survives a file with
\* an error, what was saved is what is loaded, and tokens are complete or cleared.
SettingsSound ==
  /\ SettingsTypeOK /\ SavedLoadsAgain /\ FailedLoadKeeps /\ TokensAllOrNone
  /\ LoadsBack /\ FetchedSoFar
=============================================================================
