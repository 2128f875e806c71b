---------------------------- MODULE TLSValidate ----------------------------
(***************************************************************************)
(* Validation of the certificates that a host serves                       *)
(* (tlsvalidate/tls_validate.go): one goroutine per address connects and   *)
(* records what it saw, in the order in which they finish; the verdict is  *)
(* computed from the list.                                                 *)
(***************************************************************************)
EXTENDS Integers, Sequences, FiniteSets

CONSTANTS
  Name,      \* the host's name, when it is not expanded
  IPv4,      \* its IPv4 addresses
  IPv6,      \* its IPv6 addresses
  Options,   \* the validators: what NewValidator is given
  Servers    \* what may answer at an address

ASSUME DurationsAssumption ==
  (\A o \in Options : o.validFor \in Int) /\ (\A s \in Servers : s.validFor \in Int)

VARIABLES
  opts,      \* Validator.opts
  resolved,  \* what the lookup of the host yields, {} for an error
  server,    \* server[a]: what answers at address a
  link,      \* link[a]: "dial", "shake" or "done", the goroutine of a
  states,    \* tlsStates.states, as addresses
  ctxEnded,  \* the context given to Validate is done
  groupErr,  \* the group has its first error, which cancels its context
  verdict    \* "none", then "nil", "error" or "panic"

validateVars == <<opts, resolved, server, link, states, ctxEnded, groupErr, verdict>>

-----------------------------------------------------------------------------
(***************************************************************************)
(* The addresses.                                                          *)
(***************************************************************************)
ExpandHost(o, found) == IF o.expand THEN found ELSE {Name}

\* A name is not an IPv4 address.
IgnoreIPv6(o, addrs) == IF o.ipv4Only THEN addrs \cap IPv4 ELSE addrs

Considered == IgnoreIPv6(opts, ExpandHost(opts, resolved))

\* Validate, up to the start of the goroutines: a CA file that cannot be used and a
\* lookup that fails are errors.  The root CAs given as a pool make the file moot.
CertPoolFails(o) == ~ o.rootCAs /\ o.pemFile = "bad"

\* validateCerts: the validator of the acme command, from its flags.
CommandOptions(default, allHosts, serials, validFor, issuers, customRoot) ==
  [default EXCEPT !.expand = allHosts, !.checkSerial = serials, !.validFor = validFor,
                  !.issuers = issuers, !.rootCAs = customRoot]

ValidateInit ==
  /\ opts \in Options
  /\ resolved \in SUBSET (IPv4 \cup IPv6)
  /\ server \in [Considered -> Servers]
  /\ link = [a \in Considered |-> "dial"]
  /\ states = <<>>
  /\ ctxEnded = FALSE
  /\ groupErr = FALSE
  /\ verdict = IF CertPoolFails(opts) \/ (opts.expand /\ resolved = {}) THEN "error" ELSE "none"

-----------------------------------------------------------------------------
(***************************************************************************)
(* getStates.                                                              *)
(***************************************************************************)
Leaves(a) == link' = [link EXCEPT ![a] = "done"]

\* Mutant: a connection that is not answered is waited for.
DialForEver(a) ==
  /\ verdict = "none"
  /\ link[a] = "dial"
  /\ server[a].up
  /\ link' = [link EXCEPT ![a] = "shake"]
  /\ UNCHANGED <<opts, resolved, server, states, ctxEnded, groupErr, verdict>>

\* DialContext heeds the group's context.
Dial(a) ==
  /\ verdict = "none"
  /\ link[a] = "dial"
  /\ \/ /\ server[a].up /\ ~ ctxEnded /\ ~ groupErr
        /\ link' = [link EXCEPT ![a] = "shake"]
        /\ UNCHANGED groupErr
     \/ /\ ~ server[a].up \/ ctxEnded \/ groupErr
        /\ Leaves(a)
        /\ groupErr' = TRUE
  /\ UNCHANGED <<opts, resolved, server, states, ctxEnded, verdict>>

\* The client refuses an old version and a chain it does not trust, and the two
\* must have a cipher suite in common.
HandshakeSucceeds(s) ==
  /\ s.version >= opts.tlsMinVer
  /\ opts.ciphersuites = {} \/ s.suite \in opts.ciphersuites
  /\ s.trusted

\* getTLSState's handshake heeds no context; tlsStates.add.
Handshake(a) ==
  /\ link[a] = "shake"
  /\ Leaves(a)
  /\ IF HandshakeSucceeds(server[a])
     THEN states' = Append(states, a) /\ UNCHANGED groupErr
     ELSE groupErr' = TRUE /\ UNCHANGED states
  /\ UNCHANGED <<opts, resolved, server, ctxEnded, verdict>>

-----------------------------------------------------------------------------
(***************************************************************************)
(* The verdict.                                                            *)
(***************************************************************************)

\* validateConnectionState fails.
InvalidState(s) ==
  \/ s.chain = <<>>
  \/ opts.issuers # {} /\ s.issuer \notin opts.issuers
  \/ opts.validFor > 0 /\ s.validFor < opts.validFor
  \/ opts.allowed # {} /\ s.alg \notin opts.allowed
  \/ s.alg \in opts.denied
  \/ s.suite \in opts.deniedSuites

\* ensureNonZeroSerialNumbers fails.
ZeroSerial(s) == opts.zeroCheck /\ \E i \in DOMAIN s.chain : s.chain[i] = 0

\* Mutant: the neighbours in the list are compared up to the one before the last.
DifferAcrossHostsShort(seen) ==
  \E i \in 2..Len(seen) - 1 : opts.checkSerial /\ server[seen[i]].chain[1] # server[seen[1]].chain[1]

\* verifyAcrossHosts fails: every other state is compared with the first.
DifferAcrossHosts(seen) ==
  /\ seen # <<>>
  /\ server[seen[1]].chain # <<>>
  /\ \E i \in 2..Len(seen) :
       LET first == server[seen[1]]
           s == server[seen[i]]
       IN  \/ s.chain = <<>>
           \/ opts.checkSerial /\ first.chain[1] # s.chain[1]
           \/ opts.checkSignature /\ first.alg # s.alg
           \/ opts.checkCipherSuite /\ first.suite # s.suite

\* Validate, once every goroutine has returned.  Only the first state is checked
\* for a zero serial number, and an empty list has none.
Judge ==
  /\ verdict = "none"
  /\ \A a \in DOMAIN link : link[a] = "done"
  /\ verdict' =
       IF groupErr THEN "error"
       ELSE IF states = <<>> THEN "panic"
       ELSE IF \/ \E i \in DOMAIN states : InvalidState(server[states[i]])
               \/ ZeroSerial(server[states[1]])
               \/ DifferAcrossHosts(states)
       THEN "error" ELSE "nil"
  /\ UNCHANGED <<opts, resolved, server, link, states, ctxEnded, groupErr>>

EndContext ==
  /\ verdict = "none"
  /\ ~ ctxEnded
  /\ ctxEnded' = TRUE
  /\ UNCHANGED <<opts, resolved, server, link, states, groupErr, verdict>>

ValidateStep == Judge \/ \E a \in DOMAIN link : Dial(a)
ValidateNext == ValidateStep \/ EndContext \/ \E a \in DOMAIN link : Handshake(a)
ValidateSpec == ValidateInit /\ [][ValidateNext]_validateVars

-----------------------------------------------------------------------------
(***************************************************************************)
(* Properties.                                                             *)
(***************************************************************************)

Saw(a) == \E i \in DOMAIN states : states[i] = a
Unreachable(a) == ~ server[a].up \/ ~ HandshakeSucceeds(server[a])

\* The list has one state for each goroutine that succeeded and no other, a goroutine
\* that ended without one has left an error, and the group has an error only because
\* of an address or of the caller's context.
ValidateTypeOK ==
  /\ opts \in Options
  /\ server \in [Considered -> Servers]
  /\ link \in [Considered -> {"dial", "shake", "done"}]
  /\ states \in Seq(Considered)
  /\ \A i, j \in DOMAIN states : states[i] = states[j] => i = j
  /\ \A a \in Considered :
       /\ Saw(a) => link[a] = "done" /\ server[a].up /\ HandshakeSucceeds(server[a])
       /\ link[a] = "shake" => server[a].up
       /\ link[a] = "done" => groupErr \/ Saw(a)
  /\ groupErr => ctxEnded \/ \E a \in Considered : Unreachable(a)
  /\ {ctxEnded, groupErr} \subseteq BOOLEAN
  /\ verdict \in {"none", "nil", "error", "panic"}
  /\ verdict \in {"none", "panic"} => ~ CertPoolFails(opts) /\ (opts.expand => resolved # {})

\* What the options ask of a certificate that was seen.
Acceptable(s) ==
  /\ s.chain # <<>>
  /\ opts.issuers # {} => s.issuer \in opts.issuers
  /\ opts.validFor > 0 => s.validFor >= opts.validFor
  /\ opts.allowed # {} => s.alg \in opts.allowed
  /\ s.alg \notin opts.denied
  /\ s.suite \notin opts.deniedSuites

Agree(f(_)) == \A a, b \in Considered : f(server[a]) = f(server[b])
LeafSerial(s) == s.chain[1]
Alg(s) == s.alg
Suite(s) == s.suite

\* What Validate is to establish of a host, whatever the order in which its addresses
\* are reached.
HostValid ==
  /\ Considered # {}
  /\ \A a \in Considered : ~ Unreachable(a) /\ Acceptable(server[a])
  /\ opts.checkSerial => Agree(LeafSerial)
  /\ opts.checkSignature => Agree(Alg)
  /\ opts.checkCipherSuite => Agree(Suite)
  /\ \E a \in Considered : ~ ZeroSerial(server[a])

\* What there is to complain about.
HostAtFault ==
  \/ CertPoolFails(opts)
  \/ opts.expand /\ resolved = {}
  \/ \E a \in Considered : Unreachable(a) \/ ~ Acceptable(server[a]) \/ ZeroSerial(server[a])
  \/ opts.checkSerial /\ ~ Agree(LeafSerial)
  \/ opts.checkSignature /\ ~ Agree(Alg)
  \/ opts.checkCipherSuite /\ ~ Agree(Suite)

\* Validate accepts a host only if every address it was to consider was reached and
\* serves a certificate within the limits, all of them agree on what the options
\* ask them to agree on, and some address has no zero serial number.
NilMeansValid == verdict = "nil" => HostValid

\* Validate complains only about something: an address it could not reach, one
\* whose certificate is refused or has a zero serial number, two that disagree, or
\* the caller's context.
ErrorHasCause == verdict = "error" => ctxEnded \/ HostAtFault

\* Validate indexes an empty list exactly when no address is left to consider: all
\* were IPv6, or the name was not expanded, with a validator for IPv4 only.
PanicOnlyWithoutAddress == verdict = "panic" => Considered = {} /\ opts.ipv4Only

\* When the caller's context ends, Validate returns or waits for a handshake that
\* its peer does not complete: connections that are being made are given up.
EndsUnlessHandshaking ==
  ctxEnded ~> (verdict # "none" \/ \E a \in DOMAIN link : link[a] = "shake")

\* What Validate answers is right, and so is what it collected: it accepts, refuses
\* and fails exactly for the reasons above.
VerdictSound == ValidateTypeOK /\ NilMeansValid /\ ErrorHasCause /\ PanicOnlyWithoutAddress
=============================================================================
