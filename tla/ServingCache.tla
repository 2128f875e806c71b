---------------------------- MODULE ServingCache ----------------------------
(***************************************************************************)
(* CertServingCache (servingcache.go, certs.go): concurrent TLS handshakes *)
(* take their certificates from an in-memory cache that is filled from a   *)
(* store somebody else writes to.  A certificate is verified when it is    *)
(* loaded, with the time read when the handshake began, and not when it is *)
(* used.                                                                   *)
(***************************************************************************)
EXTENDS Naturals, Sequences, Functions

CONSTANTS
  Handshakes,    \* the calls of GetCertificate
  Hosts,         \* the canonical names of hosts
  ServerNames,   \* the names clients ask for
  ToASCII,       \* ToASCII[n]: n's host, or "missing", "unqualified", "invalid"
  AllowedHosts,  \* WithCertCacheAllowedHosts, {} when absent
  Files,         \* the contents a file of the store may have
  RootCAs,       \* WithCertCacheRootCAs
  TTL,           \* WithCertCacheTTL
  MaxHandshake,  \* a handshake takes at most this long
  MaxTime        \* the bound on time

BadNames == {"missing", "unqualified", "invalid"}
NoFile == [certs |-> <<>>, keys |-> <<>>, missing |-> TRUE]

ASSUME ServingCacheAssumption ==
  /\ Hosts # {}
  /\ ToASCII \in [ServerNames -> Hosts \cup BadNames]
  /\ AllowedHosts \subseteq Hosts
  /\ TTL \in Nat \ {0}
  /\ MaxHandshake \in Nat
  /\ MaxTime \in Nat

ASSUME FilesAssumption ==
  /\ NoFile \notin Files
  /\ \A f \in Files :
       /\ f.certs \in Seq(Range(f.certs))
       /\ \A c \in Range(f.certs) : c.ca \in BOOLEAN /\ c.notAfter \in Nat

VARIABLES
  now,       \* nowFunc()
  store,     \* store[h]: the content of h's file, NoFile if there is none
  replaced,  \* history: when a content of h's file was last replaced
  cache,     \* cache[h]: NoEntry, or a file and when it expires
  pc,        \* pc[i]: "idle", "get", "read", "load", "served" or "failed"
  host,      \* host[i]: the canonical name i asks for
  started,   \* started[i]: the variable now of i's call
  data,      \* data[i]: the file i has read, or the one it serves
  ended      \* history: when i returned

vars == <<now, store, replaced, cache, pc, host, started, data, ended>>

NoEntry == [file |-> NoFile, expiry |-> 0]

Init ==
  /\ now = 0
  /\ store \in [Hosts -> Files \cup {NoFile}]
  /\ replaced = [h \in Hosts |-> [f \in Files |-> 0]]
  /\ cache = [h \in Hosts |-> NoEntry]
  /\ pc = [i \in Handshakes |-> "idle"]
  /\ host = [i \in Handshakes |-> CHOOSE h \in Hosts : TRUE]
  /\ started = [i \in Handshakes |-> 0]
  /\ data = [i \in Handshakes |-> NoFile]
  /\ ended = [i \in Handshakes |-> 0]

-----------------------------------------------------------------------------
(***************************************************************************)
(* Certificates.  A file holds certificates and private keys, in order; a  *)
(* certificate has the fields ca, subject, issuer, key, notAfter and       *)
(* garbled.                                                                *)
(***************************************************************************)
Leaves(certs) == {i \in 1..Len(certs) : ~certs[i].ca}
Intermediates(certs) == {c \in Range(certs) : c.ca}

\* x509.Certificate.Verify of a leaf below a root or one intermediate.
LeafVerify(leaf, intermediates, h, when) ==
  /\ leaf.subject = h
  /\ when <= leaf.notAfter
  /\ \/ leaf.issuer \in RootCAs
     \/ \E ca \in intermediates : /\ ca.subject = leaf.issuer
                                  /\ ca.issuer \in RootCAs
                                  /\ when <= ca.notAfter

\* Exactly one certificate is not a CA, and it verifies.
verifyCertChainOpts(certs, h, when) ==
  \E i \in Leaves(certs) :
    /\ Leaves(certs) = {i}
    /\ LeafVerify(certs[i], Intermediates(certs), h, when)

\* ParsePEM and parseCertsPEM.
Parses(f) ==
  /\ f.certs # <<>>
  /\ f.keys # <<>>
  /\ \A c \in Range(f.certs) : ~c.garbled

\* tls.X509KeyPair: the first key has to be that of the first certificate.
X509KeyPair(f) == f.keys[1] = f.certs[1].key

Loads(f, h, when) ==
  /\ Parses(f)
  /\ verifyCertChainOpts(f.certs, h, when)
  /\ ~f.certs[1].ca
  /\ X509KeyPair(f)

-----------------------------------------------------------------------------
(***************************************************************************)
(* GetCertificate.                                                         *)
(***************************************************************************)
Accepted(n) ==
  /\ ToASCII[n] \notin BadNames
  /\ AllowedHosts # {} => ToASCII[n] \in AllowedHosts

Return(i, how) ==
  /\ pc' = [pc EXCEPT ![i] = how]
  /\ ended' = [ended EXCEPT ![i] = now]

\* The checks of the name, and the reading of the clock.
Hello(i, n) ==
  /\ pc[i] = "idle"
  /\ \/ /\ ~Accepted(n)
        /\ Return(i, "failed")
        /\ UNCHANGED <<host, started>>
     \/ /\ Accepted(n)
        /\ pc' = [pc EXCEPT ![i] = "get"]
        /\ host' = [host EXCEPT ![i] = ToASCII[n]]
        /\ started' = [started EXCEPT ![i] = now]
        /\ UNCHANGED ended
  /\ UNCHANGED <<now, store, replaced, cache, data>>

\* Mutant: every use keeps the entry alive.
GetExtends(i) ==
  /\ pc[i] = "get"
  /\ LET e == cache[host[i]] IN
     \/ /\ e.expiry > started[i]
        /\ data' = [data EXCEPT ![i] = e.file]
        /\ cache' = [cache EXCEPT ![host[i]].expiry = now + TTL]
        /\ Return(i, "served")
     \/ /\ e.expiry <= started[i]
        /\ pc' = [pc EXCEPT ![i] = "read"]
        /\ UNCHANGED <<cache, data, ended>>
  /\ UNCHANGED <<now, store, replaced, host, started>>

\* get, under cacheMu.
Get(i) ==
  /\ pc[i] = "get"
  /\ LET e == cache[host[i]] IN
     \/ /\ e.expiry > started[i]
        /\ data' = [data EXCEPT ![i] = e.file]
        /\ Return(i, "served")
     \/ /\ e.expiry <= started[i]
        /\ pc' = [pc EXCEPT ![i] = "read"]
        /\ UNCHANGED <<data, ended>>
  /\ UNCHANGED <<now, store, replaced, cache, host, started>>

\* certStore.ReadFileCtx, which may fail.
Read(i) ==
  /\ pc[i] = "read"
  /\ \/ /\ store[host[i]] # NoFile
        /\ data' = [data EXCEPT ![i] = store[host[i]]]
        /\ pc' = [pc EXCEPT ![i] = "load"]
        /\ UNCHANGED ended
     \/ /\ Return(i, "failed")
        /\ UNCHANGED data
  /\ UNCHANGED <<now, store, replaced, cache, host, started>>

\* Mutant: the file is cached before it is verified.
LoadCachesFirst(i) ==
  /\ pc[i] = "load"
  /\ cache' = [cache EXCEPT ![host[i]] = [file |-> data[i], expiry |-> now + TTL]]
  /\ Return(i, IF Loads(data[i], host[i], started[i]) THEN "served" ELSE "failed")
  /\ UNCHANGED <<now, store, replaced, host, started, data>>

\* Verification as of the beginning of the call, and put, under cacheMu, which
\* reads the clock again.
Load(i) ==
  /\ pc[i] = "load"
  /\ \/ /\ Loads(data[i], host[i], started[i])
        /\ cache' = [cache EXCEPT ![host[i]] = [file |-> data[i], expiry |-> now + TTL]]
        /\ Return(i, "served")
     \/ /\ ~Loads(data[i], host[i], started[i])
        /\ Return(i, "failed")
        /\ UNCHANGED cache
  /\ UNCHANGED <<now, store, replaced, host, started, data>>

\* A refresher writes another file to the store.
StoreWrite(h, f) ==
  /\ f # store[h]
  /\ store' = [store EXCEPT ![h] = f]
  /\ replaced' = IF store[h] = NoFile THEN replaced
                 ELSE [replaced EXCEPT ![h][store[h]] = now]
  /\ UNCHANGED <<now, cache, pc, host, started, data, ended>>

\* Time passes, but no handshake is under way for longer than MaxHandshake.
Tick ==
  /\ now < MaxTime
  /\ \A i \in Handshakes :
       pc[i] \in {"get", "read", "load"} => now < started[i] + MaxHandshake
  /\ now' = now + 1
  /\ UNCHANGED <<store, replaced, cache, pc, host, started, data, ended>>

Next ==
  \/ \E i \in Handshakes :
       (\E n \in ServerNames : Hello(i, n)) \/ Get(i) \/ Read(i) \/ Load(i)
  \/ \E h \in Hosts, f \in Files : StoreWrite(h, f)
  \/ Tick

Spec == Init /\ [][Next]_vars

-----------------------------------------------------------------------------
(***************************************************************************)
(* Properties.                                                             *)
(***************************************************************************)

\* The type of every variable of the cache and its callers (servingcache.go).
TypeOK ==
  /\ now \in 0..MaxTime
  /\ store \in [Hosts -> Files \cup {NoFile}]
  /\ replaced \in [Hosts -> [Files -> 0..MaxTime]]
  /\ cache \in [Hosts -> [file : Files \cup {NoFile}, expiry : 0..(MaxTime + TTL)]]
  /\ pc \in [Handshakes -> {"idle", "get", "read", "load", "served", "failed"}]
  /\ host \in [Handshakes -> Hosts]
  /\ started \in [Handshakes -> 0..MaxTime]
  /\ data \in [Handshakes -> Files \cup {NoFile}]
  /\ ended \in [Handshakes -> 0..MaxTime]

\* A chain a client can verify: the leaf of the host comes first, with its private
\* key, there is no second leaf, and the issuers needed to reach a root are there.
Usable(f, h) ==
  /\ f.certs # <<>> /\ f.keys # <<>>
  /\ f.certs[1].subject = h
  /\ f.certs[1].key = f.keys[1]
  /\ \A k \in 1..Len(f.certs) : f.certs[k].ca <=> k > 1
  /\ \/ f.certs[1].issuer \in RootCAs
     \/ \E k \in 2..Len(f.certs) : /\ f.certs[k].subject = f.certs[1].issuer
                                   /\ f.certs[k].issuer \in RootCAs

Allowed(h) == AllowedHosts # {} => h \in AllowedHosts

\* Whatever GetCertificate serves, loaded by this call or by another one, is a chain
\* a client can verify for the host that was asked for, and the host is allowed.
ServedIsUsable ==
  \A i \in Handshakes : pc[i] = "served" => Usable(data[i], host[i]) /\ Allowed(host[i])

\* A certificate that has expired goes on being served, because it is verified on
\* loading only, but for no longer than the TTL and two handshakes.
ExpiredServedBound ==
  \A i \in Handshakes : pc[i] = "served" =>
    ended[i] < data[i].certs[1].notAfter + TTL + 2 * MaxHandshake

\* A file that was replaced in the store goes on being served, also when a slow
\* load puts it over its successor, but for no longer than the same bound.
ReplacedServedBound ==
  \A i \in Handshakes : pc[i] = "served" /\ data[i] # store[host[i]] =>
    ended[i] < replaced[host[i]][data[i]] + TTL + 2 * MaxHandshake

\* A certificate that has expired or was replaced is served for a bounded time only.
StaleServedBound == ExpiredServedBound /\ ReplacedServedBound

\* An entry of the cache is usable; it lives no longer than the TTL, nor than the TTL
\* and one handshake after its leaf expired or its file was replaced.
EntrySound(h, e) ==
  \/ e = NoEntry
  \/ /\ e.file \in Files
     /\ Usable(e.file, h)
     /\ e.expiry <= now + TTL
     /\ e.expiry <= e.file.certs[1].notAfter + TTL + MaxHandshake
     /\ e.file # store[h] => e.expiry <= replaced[h][e.file] + TTL + MaxHandshake

\* A handshake under way is young; the file it has read was the store's when it began
\* or later; and what it serves is a file.
HandshakeSound(i) ==
  /\ pc[i] \in {"get", "read", "load"} => /\ started[i] <= now
                                         /\ now <= started[i] + MaxHandshake
                                         /\ Allowed(host[i])
  /\ pc[i] \in {"load", "served"} => data[i] \in Files
  /\ pc[i] = "load" /\ data[i] # store[host[i]] => started[i] <= replaced[host[i]][data[i]]
  /\ ended[i] <= now

\* What makes the properties of the cache inductive: its entries, written by put after
\* a verification that is one handshake old, and the calls of GetCertificate that will
\* write or read them, are sound; so is everything that was served.
ServingInv ==
  /\ TypeOK
  /\ \A h \in Hosts : EntrySound(h, cache[h])
  /\ \A h \in Hosts, f \in Files : replaced[h][f] <= now
  /\ \A i \in Handshakes : HandshakeSound(i)
  /\ ServedIsUsable
  /\ StaleServedBound
=============================================================================
