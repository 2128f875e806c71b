---------------------------- MODULE ServingProofs ---------------------------
(***************************************************************************)
(* What the servers answer out of a cache: the certificates of the serving *)
(* cache, for any files of the store and any order of handshakes and       *)
(* writes, and the pages of devtest, for any set of TypeScript sources,    *)
(* any set of requests and any edits.  Then what else devtest and          *)
(* devserver run: the listener of the browser's events, for any handlers,  *)
(* events and capacity of the channels, and a child process and the calls  *)
(* on it, for any output, any pipe and channel and any sequence of calls.  *)
(***************************************************************************)
EXTENDS ServingCache, TypeScript, BrowserEvents, ChildProcess, TLAPS

\* What a verified file is: a chain a client can use, whose leaf had not expired at
\* the time of the verification.  The one leaf is the first certificate, so that an
\* issuer found among the intermediates comes after it.
LEMMA LoadsUsable ==
  ASSUME NEW f \in Files, NEW h, NEW when \in Nat, Loads(f, h, when)
  PROVE  Usable(f, h) /\ when <= f.certs[1].notAfter /\ f.certs[1].notAfter \in Nat
<1> DEFINE certs == f.certs
<1>1. /\ certs \in Seq(Range(certs))
      /\ \A c \in Range(certs) : c.ca \in BOOLEAN /\ c.notAfter \in Nat
  BY FilesAssumption, Zenon
<1>2. /\ Len(certs) \in Nat /\ DOMAIN certs = 1..Len(certs)
      /\ certs # <<>> => Len(certs) >= 1
  BY <1>1
<1>3. \A k \in 1..Len(certs) : certs[k] \in Range(certs)
  BY <1>2, Zenon DEF Range
<1>4. certs # <<>> /\ f.keys # <<>> /\ ~certs[1].ca /\ f.keys[1] = certs[1].key
  BY Zenon DEF Loads, Parses, X509KeyPair
<1>5. 1 \in Leaves(certs)
  BY <1>2, <1>4 DEF Leaves
<1>6. /\ Leaves(certs) = {1}
      /\ LeafVerify(certs[1], Intermediates(certs), h, when)
  BY <1>5, Zenon DEF Loads, verifyCertChainOpts
<1>7. \A k \in 1..Len(certs) : certs[k].ca <=> k > 1
  BY <1>1, <1>2, <1>3, <1>4, <1>6 DEF Leaves
<1>8. \/ certs[1].issuer \in RootCAs
      \/ \E k \in 2..Len(certs) : /\ certs[k].subject = certs[1].issuer
                                  /\ certs[k].issuer \in RootCAs
  <2>1. CASE certs[1].issuer \notin RootCAs
    <3>1. PICK ca \in Intermediates(certs) : /\ ca.subject = certs[1].issuer
                                             /\ ca.issuer \in RootCAs
      BY <1>6, <2>1, Zenon DEF LeafVerify
    <3>2. PICK k \in 1..Len(certs) : certs[k] = ca
      BY <1>2, <3>1, Zenon DEF Intermediates, Range
    <3>3. k > 1
      BY <1>7, <3>1, <3>2, Zenon DEF Intermediates
    <3>4. QED
      BY <1>2, <3>1, <3>2, <3>3
  <2>2. QED
    BY <2>1, Zenon
<1>9. certs[1].subject = h /\ when <= certs[1].notAfter /\ certs[1].notAfter \in Nat
  BY <1>1, <1>2, <1>3, <1>4, <1>6 DEF LeafVerify
<1>10. QED
  BY <1>4, <1>7, <1>8, <1>9, Zenon DEF Usable

\* The expiry of a leaf that is served or cached is a number.
LEMMA LeafExpiry ==
  ASSUME NEW f \in Files, NEW h, Usable(f, h)
  PROVE  f.certs[1].notAfter \in Nat
<1>1. /\ f.certs \in Seq(Range(f.certs))
      /\ \A c \in Range(f.certs) : c.notAfter \in Nat
  BY FilesAssumption, Zenon
<1>2. f.certs # <<>>
  BY Zenon DEF Usable
<1>3. 1 \in DOMAIN f.certs
  BY <1>1, <1>2
<1>4. QED
  BY <1>1, <1>3, Zenon DEF Range

\* The times of the model are natural numbers, and the TTL is not zero.
LEMMA Times ==
  ASSUME TypeOK
  PROVE  /\ now \in Nat /\ TTL \in Nat /\ TTL >= 1 /\ MaxHandshake \in Nat /\ MaxTime \in Nat
         /\ \A i \in Handshakes : started[i] \in Nat /\ ended[i] \in Nat /\ host[i] \in Hosts
         /\ \A h \in Hosts : cache[h].expiry \in Nat
         /\ \A h \in Hosts, f \in Files : replaced[h][f] \in Nat
BY ServingCacheAssumption DEF TypeOK

\* What a step of a handshake may assign, and that it keeps the types.
Assigns(i) ==
  /\ \E how \in {"get", "read", "load", "served", "failed"} : pc' = [pc EXCEPT ![i] = how]
  /\ ended' = ended \/ ended' = [ended EXCEPT ![i] = now]
  /\ host' = host \/ \E h \in Hosts : host' = [host EXCEPT ![i] = h]
  /\ started' = started \/ started' = [started EXCEPT ![i] = now]
  /\ data' = data \/ \E f \in Files \cup {NoFile} : data' = [data EXCEPT ![i] = f]
  /\ \/ cache' = cache
     \/ \E h \in Hosts, f \in Files \cup {NoFile} :
          cache' = [cache EXCEPT ![h] = [file |-> f, expiry |-> now + TTL]]
  /\ UNCHANGED <<now, store, replaced>>

\* Such a step keeps the types.
LEMMA HandshakeTypes ==
  ASSUME TypeOK, NEW i \in Handshakes, Assigns(i)
  PROVE  TypeOK'
<1>1. pc' \in [Handshakes -> {"idle", "get", "read", "load", "served", "failed"}]
  <2>1. PICK how \in {"get", "read", "load", "served", "failed"} : pc' = [pc EXCEPT ![i] = how]
    BY ZenonT(30) DEF Assigns
  <2>2. pc \in [Handshakes -> {"idle", "get", "read", "load", "served", "failed"}]
    BY Zenon DEF TypeOK
  <2>3. QED
    BY <2>1, <2>2, Zenon
<1>2. now \in 0..MaxTime
  BY Zenon DEF TypeOK
<1>3. ended' \in [Handshakes -> 0..MaxTime]
  <2>1. ended \in [Handshakes -> 0..MaxTime]
    BY Zenon DEF TypeOK
  <2>2. ended' = ended \/ ended' = [ended EXCEPT ![i] = now]
    BY Zenon DEF Assigns
  <2>3. QED
    BY <1>2, <2>1, <2>2, Zenon
<1>4. started' \in [Handshakes -> 0..MaxTime]
  <2>1. started \in [Handshakes -> 0..MaxTime]
    BY Zenon DEF TypeOK
  <2>2. started' = started \/ started' = [started EXCEPT ![i] = now]
    BY Zenon DEF Assigns
  <2>3. QED
    BY <1>2, <2>1, <2>2, Zenon
<1>5. host' \in [Handshakes -> Hosts]
  <2>1. host \in [Handshakes -> Hosts]
    BY Zenon DEF TypeOK
  <2>2. host' = host \/ \E h \in Hosts : host' = [host EXCEPT ![i] = h]
    BY Zenon DEF Assigns
  <2>3. QED
    BY <2>1, <2>2, Zenon
<1>6. data' \in [Handshakes -> Files \cup {NoFile}]
  <2>1. data \in [Handshakes -> Files \cup {NoFile}]
    BY Zenon DEF TypeOK
  <2>2. data' = data \/ \E f \in Files \cup {NoFile} : data' = [data EXCEPT ![i] = f]
    BY Zenon DEF Assigns
  <2>3. QED
    BY <2>1, <2>2, Zenon
<1>7. cache' \in [Hosts -> [file : Files \cup {NoFile}, expiry : 0..(MaxTime + TTL)]]
  <2> DEFINE Entries == [file : Files \cup {NoFile}, expiry : 0..(MaxTime + TTL)]
  <2>1. cache \in [Hosts -> Entries]
    BY Zenon DEF TypeOK
  <2>2. now + TTL \in 0..(MaxTime + TTL)
    BY <1>2, ServingCacheAssumption
  <2>3. \A f \in Files \cup {NoFile} : [file |-> f, expiry |-> now + TTL] \in Entries
    BY <2>2, Zenon
  <2> HIDE DEF Entries
  <2>4. \/ cache' = cache
        \/ \E h \in Hosts, f \in Files \cup {NoFile} :
             cache' = [cache EXCEPT ![h] = [file |-> f, expiry |-> now + TTL]]
    BY ZenonT(30) DEF Assigns
  <2>5. cache' \in [Hosts -> Entries]
    BY <2>1, <2>3, <2>4, Zenon
  <2>6. QED
    BY <2>5, Zenon DEF Entries
<1>8. UNCHANGED <<now, store, replaced>>
  BY Zenon DEF Assigns
<1>9. QED
  BY <1>1, <1>3, <1>4, <1>5, <1>6, <1>7, <1>8, Zenon DEF TypeOK

\* No certificate is served and none is cached at first.
LEMMA InitServing == Init => ServingInv
BY ServingCacheAssumption DEF Init, ServingInv, TypeOK, EntrySound, NoEntry, HandshakeSound,
  ServedIsUsable, StaleServedBound, ExpiredServedBound, ReplacedServedBound

\* A call begins: it reads the clock, and it goes on for an allowed host only.
LEMMA HelloServing ==
  ASSUME ServingInv, NEW i \in Handshakes, NEW n \in ServerNames, Hello(i, n)
  PROVE  ServingInv'
<1>1. TypeOK /\ TypeOK'
  <2>1. TypeOK
    BY Zenon DEF ServingInv
  <2>2. Accepted(n) => ToASCII[n] \in Hosts
    BY ServingCacheAssumption, Zenon DEF Accepted
  <2>3. Assigns(i)
    BY <2>2, Zenon DEF Hello, Return, Assigns
  <2>4. QED
    BY <2>1, <2>3, HandshakeTypes, Zenon
<1>2. \A h \in Hosts : EntrySound(h, cache[h])'
  BY Zenon DEF ServingInv, EntrySound, Hello
<1>3. \A h \in Hosts, f \in Files : (replaced[h][f] <= now)'
  BY SMTT(30) DEF ServingInv, Hello
<1>4. \A j \in Handshakes : HandshakeSound(j)'
  BY <1>1, Times DEF ServingInv, TypeOK, HandshakeSound, Hello, Return, Accepted, Allowed
<1>5. \A j \in Handshakes : pc'[j] = "served" =>
        /\ pc[j] = "served"
        /\ UNCHANGED <<host[j], data[j], ended[j]>>
  BY <1>1, ZenonT(30) DEF TypeOK, Hello, Return
<1>6. ServedIsUsable' /\ StaleServedBound'
  BY <1>5, Zenon DEF ServingInv, ServedIsUsable, StaleServedBound, ExpiredServedBound,
    ReplacedServedBound, Hello
<1>7. QED
  BY <1>1, <1>2, <1>3, <1>4, <1>6, Zenon DEF ServingInv

\* A hit of the cache: the entry had not expired when the call began, one handshake
\* ago at most.
LEMMA GetServing ==
  ASSUME ServingInv, NEW i \in Handshakes, Get(i)
  PROVE  ServingInv'
<1> DEFINE e == cache[host[i]]
<1>1. TypeOK /\ TypeOK'
  <2>1. TypeOK
    BY Zenon DEF ServingInv
  <2>2. cache[host[i]].file \in Files \cup {NoFile}
    BY <2>1, Zenon DEF TypeOK
  <2>3. Assigns(i)
    BY <2>2, Zenon DEF Get, Return, Assigns
  <2>4. QED
    BY <2>1, <2>3, HandshakeTypes, Zenon
<1>2. \A h \in Hosts : EntrySound(h, cache[h])'
  BY SMTT(30) DEF ServingInv, EntrySound, Get
<1>3. \A h \in Hosts, f \in Files : (replaced[h][f] <= now)'
  BY Zenon DEF ServingInv, Get
<1>4. /\ host[i] \in Hosts /\ Allowed(host[i])
      /\ started[i] <= now /\ now <= started[i] + MaxHandshake
  BY <1>1, Times, Zenon DEF ServingInv, HandshakeSound, Get
<1>5. CASE e.expiry <= started[i] /\ pc' = [pc EXCEPT ![i] = "read"] /\ UNCHANGED <<data, ended>>
  <2>1. \A j \in Handshakes : HandshakeSound(j)'
    BY <1>1, <1>5, Zenon DEF ServingInv, TypeOK, HandshakeSound, Get, Allowed
  <2>2. ServedIsUsable' /\ StaleServedBound'
    BY <1>1, <1>5, Zenon DEF ServingInv, TypeOK, ServedIsUsable, StaleServedBound, ExpiredServedBound,
      ReplacedServedBound, Get
  <2>3. QED
    BY <1>1, <1>2, <1>3, <2>1, <2>2, Zenon DEF ServingInv
<1>6. CASE e.expiry > started[i] /\ data' = [data EXCEPT ![i] = e.file] /\ Return(i, "served")
  <2>1. e # NoEntry
    BY <1>1, <1>4, <1>6, Times, SMTT(30) DEF NoEntry
  <2>2. /\ e.file \in Files /\ Usable(e.file, host[i])
        /\ e.expiry <= e.file.certs[1].notAfter + TTL + MaxHandshake
        /\ e.file # store[host[i]] =>
             e.expiry <= replaced[host[i]][e.file] + TTL + MaxHandshake
    BY <1>4, <2>1, Zenon DEF ServingInv, EntrySound
  <2>3. /\ pc' = [pc EXCEPT ![i] = "served"]
        /\ data' = [data EXCEPT ![i] = e.file]
        /\ ended' = [ended EXCEPT ![i] = now]
        /\ UNCHANGED <<now, store, replaced, cache, host, started>>
    BY <1>6, Zenon DEF Return, Get
  <2>4. now < e.file.certs[1].notAfter + TTL + 2 * MaxHandshake
    BY <1>1, <1>4, <1>6, <2>2, Times, LeafExpiry, SMTT(30)
  <2>5. e.file # store[host[i]] =>
          now < replaced[host[i]][e.file] + TTL + 2 * MaxHandshake
    BY <1>1, <1>4, <1>6, <2>2, Times, SMTT(20)
  <2>6. \A j \in Handshakes : HandshakeSound(j)'
    BY <1>1, <2>2, <2>3, Times, SMTT(20) DEF ServingInv, TypeOK, HandshakeSound, Allowed
  <2>7. ServedIsUsable'
    BY <1>1, <1>4, <2>2, <2>3, Zenon DEF ServingInv, TypeOK, ServedIsUsable
  <2>8. StaleServedBound'
    BY <1>1, <2>3, <2>4, <2>5, ZenonT(30) DEF ServingInv, TypeOK, StaleServedBound, ExpiredServedBound,
      ReplacedServedBound
  <2>9. QED
    BY <1>1, <1>2, <1>3, <2>6, <2>7, <2>8, Zenon DEF ServingInv
<1>7. QED
  BY <1>5, <1>6, Zenon DEF Get

\* The file that is read is the store's, or the call fails.
LEMMA ReadServing ==
  ASSUME ServingInv, NEW i \in Handshakes, Read(i)
  PROVE  ServingInv'
<1>1. TypeOK /\ TypeOK'
  <2>1. TypeOK
    BY Zenon DEF ServingInv
  <2>2. store[host[i]] \in Files \cup {NoFile}
    BY <2>1, Zenon DEF TypeOK
  <2>3. Assigns(i)
    BY <2>2, Zenon DEF Read, Return, Assigns
  <2>4. QED
    BY <2>1, <2>3, HandshakeTypes, Zenon
<1>2. \A h \in Hosts : EntrySound(h, cache[h])'
  BY Zenon DEF ServingInv, EntrySound, Read
<1>3. \A h \in Hosts, f \in Files : (replaced[h][f] <= now)'
  BY SMTT(30) DEF ServingInv, Read
<1>4. \A j \in Handshakes : HandshakeSound(j)'
  BY <1>1, Times DEF ServingInv, TypeOK, HandshakeSound, Read, Return, Allowed
<1>5. \A j \in Handshakes : pc'[j] = "served" =>
        /\ pc[j] = "served"
        /\ UNCHANGED <<host[j], data[j], ended[j]>>
  BY <1>1, ZenonT(30) DEF TypeOK, Read, Return
<1>6. ServedIsUsable' /\ StaleServedBound'
  BY <1>5, Zenon DEF ServingInv, ServedIsUsable, StaleServedBound, ExpiredServedBound,
    ReplacedServedBound, Read
<1>7. QED
  BY <1>1, <1>2, <1>3, <1>4, <1>6, Zenon DEF ServingInv

\* A file that verifies as of the beginning of the call is cached and served.  It may
\* have expired or been replaced since, one handshake ago at most.
LEMMA LoadServing ==
  ASSUME ServingInv, NEW i \in Handshakes, Load(i)
  PROVE  ServingInv'
<1> DEFINE f == data[i]
           h == host[i]
<1>1. TypeOK /\ TypeOK'
  <2>1. TypeOK
    BY Zenon DEF ServingInv
  <2>2. data[i] \in Files \cup {NoFile} /\ host[i] \in Hosts
    BY <2>1, Zenon DEF TypeOK
  <2>3. /\ \E how \in {"get", "read", "load", "served", "failed"} : pc' = [pc EXCEPT ![i] = how]
        /\ ended' = [ended EXCEPT ![i] = now]
        /\ UNCHANGED <<now, store, replaced, host, started, data>>
    BY SMTT(30) DEF Load, Return
  <2>4. \/ cache' = cache
        \/ cache' = [cache EXCEPT ![host[i]] = [file |-> data[i], expiry |-> now + TTL]]
    BY Zenon DEF Load
  <2>5. Assigns(i)
    BY <2>2, <2>3, <2>4, ZenonT(30) DEF Assigns
  <2>6. QED
    BY <2>1, <2>5, HandshakeTypes, Zenon
<1>2. \A g \in Hosts, d \in Files : (replaced[g][d] <= now)'
  BY SMTT(30) DEF ServingInv, Load
<1>3. /\ h \in Hosts /\ Allowed(h) /\ f \in Files
      /\ started[i] <= now /\ now <= started[i] + MaxHandshake
      /\ f # store[h] => started[i] <= replaced[h][f]
  BY <1>1, Times, Zenon DEF ServingInv, HandshakeSound, Load
<1>4. CASE ~Loads(f, h, started[i]) /\ Return(i, "failed") /\ UNCHANGED cache
  <2>1. \A g \in Hosts : EntrySound(g, cache[g])'
    BY <1>4, Zenon DEF ServingInv, EntrySound, Load
  <2>2. \A j \in Handshakes : HandshakeSound(j)'
    BY <1>1, <1>4, Times, SMTT(20) DEF ServingInv, TypeOK, HandshakeSound, Load, Return, Allowed
  <2>3. ServedIsUsable' /\ StaleServedBound'
    BY <1>1, <1>4, Zenon DEF ServingInv, TypeOK, ServedIsUsable, StaleServedBound, ExpiredServedBound,
      ReplacedServedBound, Load, Return
  <2>4. QED
    BY <1>1, <1>2, <2>1, <2>2, <2>3, Zenon DEF ServingInv
<1>5. CASE /\ Loads(f, h, started[i])
           /\ cache' = [cache EXCEPT ![h] = [file |-> f, expiry |-> now + TTL]]
           /\ Return(i, "served")
  <2>1. /\ Usable(f, h) /\ started[i] <= f.certs[1].notAfter
        /\ f.certs[1].notAfter \in Nat
    BY <1>1, <1>3, <1>5, Times, LoadsUsable, Zenon
  <2>2. /\ pc' = [pc EXCEPT ![i] = "served"]
        /\ ended' = [ended EXCEPT ![i] = now]
        /\ UNCHANGED <<now, store, replaced, host, started, data>>
    BY <1>5, Zenon DEF Return, Load
  <2>3. /\ now + TTL <= f.certs[1].notAfter + TTL + MaxHandshake
        /\ f # store[h] => now + TTL <= replaced[h][f] + TTL + MaxHandshake
        /\ now < f.certs[1].notAfter + TTL + 2 * MaxHandshake
        /\ f # store[h] => now < replaced[h][f] + TTL + 2 * MaxHandshake
    BY <1>1, <1>3, <2>1, Times, SMTT(30)
  <2>4. EntrySound(h, cache[h])'
    <3>1. cache'[h] = [file |-> f, expiry |-> now + TTL]
      BY <1>1, <1>3, <1>5, Zenon DEF TypeOK
    <3>2. Usable(f, h)'
      BY <2>1, <2>2, Zenon DEF Usable
    <3>3. QED
      BY <1>1, <1>3, <2>2, <2>3, <3>1, <3>2, Times DEF EntrySound
  <2>5. \A g \in Hosts : g # h => EntrySound(g, cache[g])'
    BY <1>1, <1>5, <2>2, Zenon DEF ServingInv, TypeOK, EntrySound
  <2>6. \A j \in Handshakes : HandshakeSound(j)'
    BY <1>1, <1>3, <2>2, Times, SMTT(20) DEF ServingInv, TypeOK, HandshakeSound, Allowed
  <2>7. ServedIsUsable'
    BY <1>1, <1>3, <2>1, <2>2, Zenon DEF ServingInv, TypeOK, ServedIsUsable
  <2>8. StaleServedBound'
    BY <1>1, <2>2, <2>3, Zenon DEF ServingInv, TypeOK, StaleServedBound, ExpiredServedBound,
      ReplacedServedBound
  <2>9. QED
    BY <1>1, <1>2, <2>2, <2>4, <2>5, <2>6, <2>7, <2>8, Zenon DEF ServingInv
<1>6. QED
  BY <1>4, <1>5, Zenon DEF Load

\* A write to the store replaces a file now, whose entry has at most the TTL to live.
LEMMA StoreWriteServing ==
  ASSUME ServingInv, NEW h \in Hosts, NEW f \in Files, StoreWrite(h, f)
  PROVE  ServingInv'
<1>1. TypeOK /\ TypeOK'
  BY ServingCacheAssumption, Zenon DEF ServingInv, TypeOK, StoreWrite
<1>2. \A g \in Hosts, d \in Files : (replaced[g][d] <= now)'
  BY <1>1, Times, SMTT(30) DEF ServingInv, TypeOK, StoreWrite
<1>3. \A g \in Hosts, d \in Files : replaced[g][d] <= replaced'[g][d]
  BY <1>1, Times, SMTT(30) DEF ServingInv, TypeOK, StoreWrite
<1>4. \A g \in Hosts, d \in Files :
        d # store'[g] => d # store[g] \/ replaced'[g][d] = now
  BY <1>1, FilesAssumption DEF TypeOK, StoreWrite
<1>5. UNCHANGED <<now, cache, pc, host, started, data, ended>>
  BY SMTT(30) DEF StoreWrite
<1>6. ASSUME NEW g \in Hosts
      PROVE  EntrySound(g, cache[g])'
  <2>1. CASE cache[g] = NoEntry
    BY <1>5, <2>1, ZenonT(30) DEF EntrySound, NoEntry
  <2>2. CASE cache[g] # NoEntry
    <3> DEFINE d == cache[g].file
    <3>1. /\ d \in Files /\ Usable(d, g)
          /\ cache[g].expiry <= now + TTL
          /\ cache[g].expiry <= d.certs[1].notAfter + TTL + MaxHandshake
          /\ d # store[g] => cache[g].expiry <= replaced[g][d] + TTL + MaxHandshake
      BY <2>2, Zenon DEF ServingInv, EntrySound
    <3>2. replaced[g][d] \in Nat /\ replaced'[g][d] \in Nat /\ cache[g].expiry \in Nat
      BY <1>1, <3>1, SMTT(30) DEF TypeOK
    <3>3. d # store'[g] => cache[g].expiry <= replaced'[g][d] + TTL + MaxHandshake
      BY <1>1, <1>3, <1>4, <3>1, <3>2, Times, SMTT(30)
    <3>4. QED
      BY <1>5, <3>1, <3>3, Zenon DEF EntrySound
  <2>3. QED
    BY <2>1, <2>2, Zenon
<1>7. ASSUME NEW j \in Handshakes
      PROVE  HandshakeSound(j)'
  <2>1. HandshakeSound(j)
    BY SMTT(30) DEF ServingInv
  <2>2. ASSUME pc[j] = "load", data[j] # store'[host[j]]
        PROVE  started[j] <= replaced'[host[j]][data[j]]
    <3>1. data[j] \in Files /\ host[j] \in Hosts /\ started[j] <= now
      BY <1>1, <2>1, <2>2, Times, Zenon DEF HandshakeSound
    <3>2. CASE data[j] # store[host[j]]
      <4>1. started[j] <= replaced[host[j]][data[j]]
        BY <2>1, <2>2, <3>2, Zenon DEF HandshakeSound
      <4>2. /\ replaced[host[j]][data[j]] \in Nat
            /\ replaced'[host[j]][data[j]] \in Nat
        BY <1>1, <3>1, SMTT(30) DEF TypeOK
      <4>3. QED
        BY <1>1, <1>3, <3>1, <4>1, <4>2, Times, SMTT(30)
    <3>3. CASE data[j] = store[host[j]]
      BY <1>4, <2>2, <3>1, <3>3, Zenon
    <3>4. QED
      BY <3>2, <3>3, Zenon
  <2>3. QED
    BY <1>5, <2>1, <2>2, Zenon DEF HandshakeSound, Allowed
<1>8. ServedIsUsable'
  BY <1>5, Zenon DEF ServingInv, ServedIsUsable, Usable, Allowed
<1>9. StaleServedBound'
  <2>1. ExpiredServedBound'
    BY <1>5, Zenon DEF ServingInv, StaleServedBound, ExpiredServedBound
  <2>2. ASSUME NEW j \in Handshakes, pc[j] = "served", data[j] # store'[host[j]]
        PROVE  ended[j] < replaced'[host[j]][data[j]] + TTL + 2 * MaxHandshake
    <3>1. host[j] \in Hosts /\ data[j] \in Files /\ ended[j] <= now
      BY <1>1, <2>2, Zenon DEF ServingInv, TypeOK, HandshakeSound
    <3>2. /\ replaced[host[j]][data[j]] \in Nat
          /\ replaced'[host[j]][data[j]] \in Nat
          /\ ended[j] \in Nat
      BY <1>1, <3>1, SMTT(30) DEF TypeOK
    <3>3. \/ ended[j] < replaced[host[j]][data[j]] + TTL + 2 * MaxHandshake
          \/ replaced'[host[j]][data[j]] = now
      BY <1>4, <2>2, <3>1, Zenon DEF ServingInv, StaleServedBound, ReplacedServedBound
    <3>4. QED
      BY <1>1, <1>3, <3>1, <3>2, <3>3, Times, SMTT(30)
  <2>3. QED
    BY <1>5, <2>1, <2>2, Zenon DEF StaleServedBound, ReplacedServedBound
<1>10. QED
  BY <1>1, <1>2, <1>6, <1>7, <1>8, <1>9, Zenon DEF ServingInv

\* Time passes: only the age of the handshakes under way changes, and Tick bounds it.
LEMMA TickServing ==
  ASSUME ServingInv, Tick
  PROVE  ServingInv'
<1>1. TypeOK /\ TypeOK'
  BY ServingCacheAssumption DEF ServingInv, TypeOK, Tick
<1>2. \A h \in Hosts, f \in Files : (replaced[h][f] <= now)'
  BY <1>1, Times, SMTT(30) DEF ServingInv, Tick
<1>3. ASSUME NEW h \in Hosts
      PROVE  EntrySound(h, cache[h])'
  <2>1. EntrySound(h, cache[h]) /\ UNCHANGED <<cache, store, replaced>>
    BY Zenon DEF ServingInv, Tick
  <2>2. cache[h].expiry <= now + TTL => cache[h].expiry <= now' + TTL
    BY <1>1, Times, SMTT(30) DEF Tick
  <2>3. QED
    BY <2>1, <2>2, Zenon DEF EntrySound
<1>4. \A j \in Handshakes : HandshakeSound(j)'
  BY <1>1, Times, SMTT(20) DEF ServingInv, HandshakeSound, Tick, Allowed
<1>5. ServedIsUsable' /\ StaleServedBound'
  BY Zenon DEF ServingInv, ServedIsUsable, StaleServedBound, ExpiredServedBound,
    ReplacedServedBound, Tick, Usable, Allowed
<1>6. QED
  BY <1>1, <1>2, <1>3, <1>4, <1>5, Zenon DEF ServingInv

\* Every step preserves the invariant.
LEMMA NextServing ==
  ASSUME ServingInv, [Next]_vars
  PROVE  ServingInv'
<1>1. CASE UNCHANGED vars
  <2>1. UNCHANGED <<now, store, replaced, cache, pc, host, started, data, ended>>
    BY <1>1, Zenon DEF vars
  <2>2. TypeOK'
    BY <2>1, Zenon DEF ServingInv, TypeOK
  <2>3. \A h \in Hosts : EntrySound(h, cache[h])'
    BY <2>1, Zenon DEF ServingInv, EntrySound
  <2>4. \A h \in Hosts, f \in Files : (replaced[h][f] <= now)'
    BY <2>1, Zenon DEF ServingInv
  <2>5. \A i \in Handshakes : HandshakeSound(i)'
    BY <2>1, Zenon DEF ServingInv, HandshakeSound
  <2>6. ServedIsUsable' /\ StaleServedBound'
    BY <2>1, Zenon DEF ServingInv, ServedIsUsable, StaleServedBound, ExpiredServedBound,
      ReplacedServedBound
  <2>7. QED
    BY <2>2, <2>3, <2>4, <2>5, <2>6, Zenon DEF ServingInv
<1>2. CASE Next
  BY <1>2, HelloServing, GetServing, ReadServing, LoadServing, StoreWriteServing, TickServing, Zenon
    DEF Next
<1>3. QED
  BY <1>1, <1>2, Zenon

-----------------------------------------------------------------------------
\* ServingInv holds in every state, for any number of handshakes of GetCertificate,
\* any store and any TTL.
THEOREM ServingInvariant == Spec => []ServingInv
BY InitServing, NextServing, PTL DEF Spec

\* GetCertificate serves a complete chain with its key, for the allowed host that was
\* asked for, whether the call loaded it itself or found it in the cache.
THEOREM OnlyUsableServed == Spec => []ServedIsUsable
<1>1. ServingInv => ServedIsUsable
  BY Zenon DEF ServingInv
<1>2. QED
  BY <1>1, ServingInvariant, PTL

\* A certificate that expired or was replaced is served for less than the TTL and two
\* handshakes, whatever the order in which overlapping loads fill the cache.
THEOREM StaleBounded == Spec => []StaleServedBound
<1>1. ServingInv => StaleServedBound
  BY Zenon DEF ServingInv
<1>2. QED
  BY <1>1, ServingInvariant, PTL
-----------------------------------------------------------------------------
(* The pages of devtest.                                                  *)

\* The conjuncts of the type invariant, as the provers take them.
LEMMA PageTypes ==
  ASSUME TypeScriptTypeOK
  PROVE  /\ clock \in Nat /\ last \in Nat /\ last <= clock
         /\ \A f \in Sources : /\ modTime[f] \in Nat /\ modTime[f] <= clock
                               /\ source[f] \in Nat /\ built[f] \in Nat
         /\ \A p \in Pages : page[p] \in Page
         /\ \A p \in Pages, f \in Sources : /\ page[p].wanted[f] \in Nat /\ page[p].read[f] \in Nat
                                            /\ page[p].wanted[f] <= source[f]
  BY DEF TypeScriptTypeOK, Versions, Page

\* An edit is late while a compilation is under way.
LEMMA EditKeeps ==
  ASSUME PagesCurrent, NEW f \in Sources, Edit(f)
  PROVE  PagesCurrent'
<1> USE DEF PagesCurrent
<1>1. TypeScriptTypeOK'
  BY PageTypes DEF TypeScriptTypeOK, Edit, Versions
<1>2. \A g \in Sources, v, w \in Nat : Covers(g, v, w) => Covers(g, v, w)'
  BY Zenon DEF Edit, Covers, TypeScriptTypeOK
<1>3. ServedIsCurrent'
  BY <1>2, PageTypes, Zenon DEF ServedIsCurrent, Edit
<1>4. \A g \in Sources : g # f => source'[g] = source[g] /\ modTime'[g] = modTime[g] /\ lateEdits'[g] = lateEdits[g]
  BY Zenon DEF Edit, TypeScriptTypeOK, Versions
<1>5. source'[f] = source[f] + 1 /\ modTime'[f] = clock
  BY Zenon DEF Edit, TypeScriptTypeOK, Versions
<1>6. Compiling # {} \/ clock = last => lateEdits'[f] = lateEdits[f] \cup {source[f] + 1}
  BY Zenon DEF Edit, TypeScriptTypeOK
<1>7. PassedOverOnlyIfLate'
  BY <1>2, <1>4, <1>5, <1>6, PageTypes, SMTT(30) DEF PassedOverOnlyIfLate, Edit, Covers
<1>8. CompilationsCover'
  <2> SUFFICES ASSUME NEW p \in Compiling, NEW g \in Sources
               PROVE  IF g \in page[p].modified
                      THEN page[p].pc = "emit" =>
                             /\ page[p].read[g] >= page[p].wanted[g]
                             /\ \A w \in page[p].read[g] + 1..source'[g] : w \in lateEdits'[g]
                      ELSE Covers(g, built[g], source[g])' /\ Covers(g, built[g], page[p].wanted[g])'
    BY SMTT(30) DEF CompilationsCover, Edit, Compiling
  <2>1. CASE g # f
    BY <2>1, <1>2, <1>4, PageTypes, Zenon DEF CompilationsCover, Compiling, Edit, Covers
  <2>2. CASE g = f
    <3>1. /\ p \in Compiling /\ Compiling # {}
          /\ page[p].read[g] \in Nat /\ page[p].wanted[g] \in Nat /\ built[g] \in Nat
          /\ source[g] \in Nat
      BY PageTypes, Zenon DEF Compiling
    <3>2. CASE g \in page[p].modified
      BY <2>2, <1>5, <1>6, <3>1, <3>2 DEF CompilationsCover
    <3>3. CASE g \notin page[p].modified
      BY <2>2, <1>2, <1>5, <1>6, <3>1, <3>3, Zenon DEF CompilationsCover, Covers, Edit
    <3>4. QED
      BY <3>2, <3>3, Zenon
  <2>3. QED
    BY <2>1, <2>2, Zenon
<1>9. QED
  BY <1>1, <1>3, <1>7, <1>8, Zenon

\* A request compiles every file that may miss an edit that was not late.
LEMMA ServeKeeps ==
  ASSUME PagesCurrent, NEW p \in Pages, ServeJS(p)
  PROVE  PagesCurrent'
<1> USE DEF PagesCurrent
<1> DEFINE modified == {f \in Sources : modTime[f] > last}
           next == [pc |-> IF modified = {} THEN "ok" ELSE "compile",
                    modified |-> modified, read |-> Nothing, wanted |-> source]
<1>1. page' = [page EXCEPT ![p] = next] /\ next \in Page
  BY Zenon DEF ServeJS, Page, Versions, Nothing, TypeScriptTypeOK
<1>2. page'[p] = next /\ \A q \in Pages : q # p => page'[q] = page[q]
  BY <1>1, Zenon DEF TypeScriptTypeOK
<1>3. UNCHANGED <<clock, source, modTime, lateEdits, built, last>>
  BY Zenon DEF ServeJS
<1>4. TypeScriptTypeOK'
  BY <1>1, <1>2, <1>3, PageTypes DEF TypeScriptTypeOK, Versions
<1>5. \A f \in Sources : f \notin modified => Covers(f, built[f], source[f])
  BY PageTypes, SMTT(30) DEF PassedOverOnlyIfLate
<1>6. ServedIsCurrent'
  BY <1>2, <1>3, <1>5 DEF ServedIsCurrent, Covers
<1>7. PassedOverOnlyIfLate'
  BY <1>3, Zenon DEF PassedOverOnlyIfLate, Covers
<1>8. CompilationsCover'
  BY <1>2, <1>3, <1>5 DEF CompilationsCover, Compiling, Covers
<1>9. QED
  BY <1>4, <1>6, <1>7, <1>8, Zenon

\* What the compiler reads is as new as can be.
LEMMA ReadKeeps ==
  ASSUME PagesCurrent, NEW p \in Pages, CompilerReads(p)
  PROVE  PagesCurrent'
<1> USE DEF PagesCurrent
<1> DEFINE r == [page[p] EXCEPT !.pc = "emit"]
           next == [r EXCEPT !.read = source]
<1>1. r \in Page
  BY PageTypes, Zenon DEF Page
<1>2. next \in Page /\ next.pc = "emit" /\ next.read = source /\ next.wanted = page[p].wanted
      /\ next.modified = page[p].modified
  <2> HIDE DEF r
  <2>1. next \in Page
    BY <1>1, Zenon DEF Page, TypeScriptTypeOK
  <2>2. r.pc = "emit" /\ r.wanted = page[p].wanted /\ r.modified = page[p].modified
    BY PageTypes, Zenon DEF r, Page
  <2>3. QED
    BY <1>1, <2>1, <2>2, Zenon DEF Page
<1>3. page' = [page EXCEPT ![p] = next]
  BY ZenonT(30) DEF CompilerReads
<1> HIDE DEF next
<1>4. page'[p] = next /\ \A q \in Pages : q # p => page'[q] = page[q]
  BY <1>3, Zenon DEF TypeScriptTypeOK
<1>5. UNCHANGED <<clock, source, modTime, lateEdits, built, last>>
  BY Zenon DEF CompilerReads
<1>6. TypeScriptTypeOK'
  BY <1>2, <1>3, <1>4, <1>5, Zenon DEF TypeScriptTypeOK
<1>7. ServedIsCurrent' /\ PassedOverOnlyIfLate'
  BY <1>2, <1>4, <1>5, Zenon DEF ServedIsCurrent, PassedOverOnlyIfLate, Covers
<1>8. CompilationsCover'
  <2>1. page[p].pc = "compile" /\ p \in Compiling
    BY Zenon DEF CompilerReads, Compiling
  <2>2. \A f \in Sources, w \in Int : ~ w \in source[f] + 1..source[f]
    <3>1. \A f \in Sources : source[f] \in Nat
      BY PageTypes, Zenon
    <3>2. QED
      BY <3>1
  <2>3. \A f \in Sources : page[p].wanted[f] <= source[f]
    BY PageTypes, Zenon
  <2>4. QED
    BY <1>2, <1>4, <1>5, <2>1, <2>2, <2>3, PageTypes DEF CompilationsCover, Compiling, Covers
<1>9. QED
  BY <1>6, <1>7, <1>8, Zenon

\* A compilation that ends may take a file back to an edit that another had gone beyond:
\* what is missing then was edited in the meantime.
LEMMA EndKeeps ==
  ASSUME PagesCurrent, NEW p \in Pages, CompileEnds(p)
  PROVE  PagesCurrent'
<1> USE DEF PagesCurrent
<1> DEFINE next == [page[p] EXCEPT !.pc = "ok"]
<1>1. next \in Page /\ next.pc = "ok" /\ next.wanted = page[p].wanted
  BY PageTypes, Zenon DEF Page
<1>2. page' = [page EXCEPT ![p] = next] /\ UNCHANGED <<clock, source, modTime, lateEdits>> /\ last' = clock
  BY Zenon DEF CompileEnds
<1> HIDE DEF next
<1>3. page'[p] = next /\ \A q \in Pages : q # p => page'[q] = page[q]
  BY <1>2, Zenon DEF TypeScriptTypeOK
<1>4. \A f \in Sources : built'[f] = IF f \in page[p].modified THEN page[p].read[f] ELSE built[f]
  BY Zenon DEF CompileEnds
<1>5. built' \in Versions
  BY PageTypes, Zenon DEF CompileEnds, Versions
<1>6. TypeScriptTypeOK'
  BY <1>1, <1>2, <1>3, <1>5, PageTypes DEF TypeScriptTypeOK, Versions
<1>7. p \in Compiling /\ page[p].pc = "emit"
  BY Zenon DEF Compiling, CompileEnds
<1>8. \A f \in Sources : Covers(f, built[f], source[f])' /\ Covers(f, built[f], page[p].wanted[f])'
  <2> SUFFICES ASSUME NEW f \in Sources
               PROVE  /\ built'[f] >= source[f] \/ source[f] \in lateEdits[f]
                      /\ built'[f] >= next.wanted[f] \/ next.wanted[f] \in lateEdits[f]
    BY <1>2, <1>3, Zenon DEF Covers
  <2>1. CASE f \in page[p].modified
    BY <2>1, <1>1, <1>4, <1>7, PageTypes, SMTT(30) DEF CompilationsCover
  <2>2. CASE f \notin page[p].modified
    BY <2>2, <1>1, <1>4, <1>7, Zenon DEF CompilationsCover, Covers
  <2>3. QED
    BY <2>1, <2>2, Zenon
<1>9. \A f \in Sources, w \in Nat : w <= source[f] /\ Covers(f, built[f], w) => Covers(f, built'[f], w)
  BY <1>4, <1>7, PageTypes, SMTT(30) DEF CompilationsCover, Covers
<1>10. ServedIsCurrent' /\ PassedOverOnlyIfLate'
  BY <1>2, <1>3, <1>8, <1>9, PageTypes, Zenon DEF ServedIsCurrent, PassedOverOnlyIfLate, Covers
<1>11. CompilationsCover'
  BY <1>1, <1>2, <1>3, <1>8, <1>9, PageTypes, ZenonT(30) DEF CompilationsCover, Compiling, Covers
<1>12. QED
  BY <1>6, <1>10, <1>11, Zenon

\* A compilation that fails leaves what there is to compile to the next.
LEMMA FailureKeeps ==
  ASSUME PagesCurrent, NEW p \in Pages, CompileFails(p)
  PROVE  PagesCurrent'
<1> USE DEF PagesCurrent
<1> DEFINE next == [Idle EXCEPT !.pc = "error"]
<1>1. next \in Page /\ next.pc = "error" /\ next.wanted = Nothing
  BY SMTT(30) DEF Page, Idle, Versions, Nothing
<1>2. page' = [page EXCEPT ![p] = next] /\ UNCHANGED <<clock, source, modTime, lateEdits, built, last>>
  BY Zenon DEF CompileFails
<1> HIDE DEF next
<1>3. page'[p] = next /\ \A q \in Pages : q # p => page'[q] = page[q]
  BY <1>2, Zenon DEF TypeScriptTypeOK
<1>4. TypeScriptTypeOK'
  BY <1>1, <1>2, <1>3, PageTypes, SMTT(30) DEF TypeScriptTypeOK, Nothing
<1>5. ServedIsCurrent' /\ PassedOverOnlyIfLate' /\ CompilationsCover'
  BY <1>1, <1>2, <1>3, ZenonT(30) DEF ServedIsCurrent, PassedOverOnlyIfLate, CompilationsCover, Compiling, Covers
<1>6. QED
  BY <1>4, <1>5, Zenon

\* No step of a request, of an editor or of the clock makes a page out of date.
LEMMA NextPages ==
  ASSUME PagesCurrent, [TypeScriptNext]_tsVars
  PROVE  PagesCurrent'
<1>1. CASE ClockTicks
  BY <1>1, PageTypes DEF ClockTicks, PagesCurrent, TypeScriptTypeOK, ServedIsCurrent,
     PassedOverOnlyIfLate, CompilationsCover, Compiling, Covers
<1>2. CASE UNCHANGED tsVars
  BY <1>2, Zenon DEF tsVars, PagesCurrent, TypeScriptTypeOK, ServedIsCurrent, PassedOverOnlyIfLate,
     CompilationsCover, Compiling, Covers
<1>3. QED
  BY <1>1, <1>2, EditKeeps, ServeKeeps, ReadKeeps, EndKeeps, FailureKeeps, Zenon DEF TypeScriptNext

\* Pages are current, and no edit is forgotten, except for edits during a compilation or
\* in the instant of its end, for any number of sources, requests and edits
\* (TypescriptSources.Compile, JSServer.ServeJS).
THEOREM PagesAreCurrent == TypeScriptSpec => []PagesCurrent
<1>1. TypeScriptInit => PagesCurrent
  BY DEF TypeScriptInit, PagesCurrent, TypeScriptTypeOK, ServedIsCurrent, PassedOverOnlyIfLate,
         CompilationsCover, Compiling, Covers, Page, Versions, Idle, Nothing
<1>2. PagesCurrent /\ [TypeScriptNext]_tsVars => PagesCurrent'
  BY NextPages, Zenon
<1>3. QED
  BY <1>1, <1>2, PTL DEF TypeScriptSpec

-----------------------------------------------------------------------------
(* The events of the browser and their listener.                          *)

\* The places of the events are a list as long as that of the kinds.
LEMMA PlaceIsSet ==
  ASSUME BrowserTypeOK, NEW e \in Events, NEW p \in Places, place' = [place EXCEPT ![e] = p]
  PROVE  /\ place' \in Seq(Places) /\ Len(place') = Len(kind) /\ DOMAIN place = Events
         /\ place'[e] = p /\ \A f \in Events : f # e => place'[f] = place[f]
<1>1. /\ kind \in Seq(Kinds) /\ place \in Seq(Places) /\ Len(place) = Len(kind) /\ e \in DOMAIN kind
  BY Zenon DEF BrowserTypeOK, Events
<1>2. DOMAIN place = Events
  BY <1>1 DEF Events
<1>3. place' \in Seq(Places) /\ Len(place') = Len(place)
  BY <1>1
<1>4. place'[e] = p /\ \A f \in Events : f # e => place'[f] = place[f]
  BY <1>2, Zenon
<1> QED
  BY <1>1, <1>2, <1>3, <1>4, Zenon

\* An event is taken by the channel of one handler.
LEMMA TakenByOne ==
  ASSUME BrowserTypeOK, NEW e, NEW g, NEW h, TakenBy(e, g), TakenBy(e, h)
  PROVE  g = h
<1>1. Takers(e) \subseteq Nat
  BY BrowserAssumption DEF BrowserTypeOK, Takers
<1>2. PICK i \in Takers(e) : handlers[i] = g /\ \A j \in Takers(e) : i <= j
  BY Zenon DEF TakenBy
<1>3. PICK k \in Takers(e) : handlers[k] = h /\ \A j \in Takers(e) : k <= j
  BY Zenon DEF TakenBy
<1>4. i <= k /\ k <= i
  BY <1>2, <1>3, Zenon
<1>5. i = k
  BY <1>1, <1>4
<1> QED
  BY <1>2, <1>3, <1>5, Zenon

\* What a send to a channel, and a receive from it, does to what it holds.
LEMMA SendAdds ==
  ASSUME NEW S, NEW s \in Seq(S), NEW x \in S, x \notin Range(s), IsInjective(s)
  PROVE  /\ Append(s, x) \in Seq(S) /\ Len(Append(s, x)) = Len(s) + 1
         /\ Range(Append(s, x)) = Range(s) \union {x} /\ IsInjective(Append(s, x))
<1>1. /\ Append(s, x) \in Seq(S) /\ Len(Append(s, x)) = Len(s) + 1 /\ Len(s) + 1 \in DOMAIN Append(s, x)
      /\ Append(s, x)[Len(s) + 1] = x
      /\ \A i \in DOMAIN Append(s, x) : i \in DOMAIN s \/ i = Len(s) + 1
      /\ \A i \in DOMAIN s : i \in DOMAIN Append(s, x) /\ Append(s, x)[i] = s[i]
  OBVIOUS
<1>2. ASSUME NEW y \in Range(Append(s, x))
      PROVE  y \in Range(s) \union {x}
  BY <1>1, Zenon DEF Range
<1>3. ASSUME NEW y \in Range(s) \union {x}
      PROVE  y \in Range(Append(s, x))
  BY <1>1, Zenon DEF Range
<1>4. \A i \in DOMAIN s : s[i] # x
  BY Zenon DEF Range
<1>5. IsInjective(Append(s, x))
  BY <1>1, <1>4, Zenon DEF IsInjective
<1> QED
  BY <1>1, <1>2, <1>3, <1>5, Zenon

LEMMA ReceiveTakes ==
  ASSUME NEW S, NEW s \in Seq(S), s # <<>>, IsInjective(s)
  PROVE  /\ Tail(s) \in Seq(S) /\ Len(Tail(s)) <= Len(s) /\ Head(s) \in Range(s)
         /\ Range(Tail(s)) = Range(s) \ {Head(s)} /\ IsInjective(Tail(s))
<1>1. /\ Tail(s) \in Seq(S) /\ Len(Tail(s)) <= Len(s) /\ 1 \in DOMAIN s /\ Head(s) = s[1]
      /\ \A i \in DOMAIN Tail(s) : i + 1 \in DOMAIN s /\ i + 1 # 1 /\ Tail(s)[i] = s[i + 1]
      /\ \A i \in DOMAIN s : i = 1 \/ (i - 1 \in DOMAIN Tail(s) /\ Tail(s)[i - 1] = s[i])
      /\ \A i, j \in DOMAIN Tail(s) : i + 1 = j + 1 => i = j
  OBVIOUS
<1>2. ASSUME NEW y \in Range(Tail(s))
      PROVE  y \in Range(s) \ {Head(s)}
  <2>1. PICK i \in DOMAIN Tail(s) : y = Tail(s)[i]
    BY <1>2, Zenon DEF Range
  <2>2. i + 1 \in DOMAIN s /\ i + 1 # 1 /\ y = s[i + 1]
    BY <1>1, <2>1, Zenon
  <2> QED
    BY <1>1, <2>2, Zenon DEF Range, IsInjective
<1>3. ASSUME NEW y \in Range(s) \ {Head(s)}
      PROVE  y \in Range(Tail(s))
  <2>1. PICK i \in DOMAIN s : y = s[i] /\ i # 1
    BY <1>1, <1>3, Zenon DEF Range
  <2> QED
    BY <1>1, <2>1, Zenon DEF Range
<1>4. Head(s) \in Range(s)
  BY <1>1, Zenon DEF Range
<1>5. IsInjective(Tail(s))
  <2>1. ASSUME NEW i \in DOMAIN Tail(s), NEW j \in DOMAIN Tail(s), Tail(s)[i] = Tail(s)[j]
        PROVE  i = j
    <3>1. s[i + 1] = s[j + 1]
      BY <1>1, <2>1, Zenon
    <3>2. i + 1 = j + 1
      BY <1>1, <3>1, Zenon DEF IsInjective
    <3> QED
      BY <1>1, <3>2, Zenon
  <2> QED
    BY <2>1, Zenon DEF IsInjective
<1> QED
  BY <1>1, <1>2, <1>3, <1>4, <1>5, Zenon

\* The messages are about events.
LEMMA MessagesOfEvents ==
  ASSUME BrowserTypeOK, NEW i \in DOMAIN inbox
  PROVE  inbox[i].event \in Events /\ inbox[i].reply \in BOOLEAN
<1> DEFINE Msg == [reply : BOOLEAN, event : Events]
<1>1. inbox \in Seq(Msg)
  BY Zenon DEF BrowserTypeOK
<1> HIDE DEF Msg
<1>2. inbox[i] \in Msg
  BY <1>1
<1> QED
  BY <1>2, Zenon DEF Msg

\* The messages, the event that is sent and the channels, after a step that does not
\* move them.
LEMMA InboxStays ==
  ASSUME BrowserTypeOK, InboxHolds, UNCHANGED <<kind, inbox>>,
         \A e \in Events : /\ place[e] = "inbox" <=> place'[e] = "inbox"
                           /\ place'[e] = "replied" => place[e] = "replied"
                           /\ place[e] \in {"replied", "dropped"} => place'[e] \in {"replied", "dropped"}
  PROVE  InboxHolds'
<1>1. \A i \in DOMAIN inbox : inbox[i].event \in Events
  BY MessagesOfEvents, Zenon
<1>2. Events' = Events
  BY Zenon DEF Events
<1>3. \A i \in DOMAIN inbox : place'[inbox[i].event] \in IF inbox[i].reply THEN {"replied", "dropped"} ELSE {"inbox"}
  BY <1>1, Zenon DEF InboxHolds
<1> QED
  BY <1>2, <1>3, Zenon DEF InboxHolds

LEMMA SendingStays ==
  ASSUME OneSending, UNCHANGED <<kind, handlers, sending>>,
         \A e \in Events : place[e] = "sending" <=> place'[e] = "sending"
  PROVE  OneSending'
BY Zenon DEF OneSending, Events, Takers

LEMMA ChannelsStay ==
  ASSUME ChannelsHold, UNCHANGED <<kind, handlers, chans>>,
         \A e \in Events : place[e] = "queued" <=> place'[e] = "queued"
  PROVE  ChannelsHold'
<1>1. Events' = Events /\ \A e, h : TakenBy(e, h)' <=> TakenBy(e, h)
  BY Zenon DEF Events, TakenBy, Takers
<1>2. \A h : {e \in Events' : place'[e] = "queued" /\ TakenBy(e, h)'} = {e \in Events : place[e] = "queued" /\ TakenBy(e, h)}
  BY <1>1, Zenon
<1> QED
  BY <1>1, <1>2, Zenon DEF ChannelsHold

LEMMA BrowserStart == BrowserInit => BrowserInv
<1> SUFFICES ASSUME BrowserInit
             PROVE  BrowserInv
  BY Zenon
<1>1. \A S : <<>> \in Seq(S) /\ Len(<<>>) = 0 /\ DOMAIN <<>> = {}
  OBVIOUS
<1>2. Events = {} /\ DOMAIN inbox = {} /\ DOMAIN chans = Kinds \cup {"any"} /\ \A h \in DOMAIN chans : chans[h] = <<>>
  BY <1>1, Zenon DEF BrowserInit, Events
<1>3. BrowserTypeOK
  BY <1>1, Zenon DEF BrowserInit, BrowserTypeOK
<1>4. Len(<<>>) <= ChanCap
  BY BrowserAssumption
<1>5. ChannelsHold
  BY <1>1, <1>2, <1>4, Zenon DEF ChannelsHold, IsInjective, Range
<1> QED
  BY <1>2, <1>3, <1>5, Zenon DEF BrowserInit, BrowserInv, InboxHolds, OneSending, DoneMeansQuiet

\* A new event is in the inbox alone.
LEMMA EmitKeeps ==
  ASSUME BrowserInv, Emit
  PROVE  BrowserInv'
<1> DEFINE n == Len(kind) + 1
           m == [reply |-> FALSE, event |-> n]
<1>1. /\ BrowserTypeOK /\ InboxHolds /\ OneSending /\ ChannelsHold /\ DoneMeansQuiet
      /\ kind \in Seq(Kinds) /\ place \in Seq(Places) /\ Len(place) = Len(kind)
  BY Zenon DEF BrowserInv, BrowserTypeOK
<1>2. PICK k \in Kinds : kind' = Append(kind, k)
  BY Zenon DEF Emit
<1>3. /\ place' = Append(place, "inbox") /\ inbox' = Append(inbox, m)
      /\ UNCHANGED <<handlers, chans, sending, listener, browserDone>>
  BY Zenon DEF Emit
<1>4. /\ kind' \in Seq(Kinds) /\ Events' = Events \union {n} /\ n \notin Events /\ n # 0 /\ Len(kind') = n
      /\ \A e \in Events : kind'[e] = kind[e]
  BY <1>1, <1>2 DEF Events
<1>5. /\ place' \in Seq(Places) /\ Len(place') = Len(kind')
      /\ place'[n] = "inbox" /\ \A e \in Events : place'[e] = place[e]
  <2>1. "inbox" \in Places
    BY Zenon DEF Places
  <2> QED
    BY <1>1, <1>2, <1>3, <2>1 DEF Events
<1>6. inbox \in Seq([reply : BOOLEAN, event : Events']) /\ m \in [reply : BOOLEAN, event : Events']
  <2> DEFINE Msg == [reply : BOOLEAN, event : Events]
             MsgNext == [reply : BOOLEAN, event : Events']
  <2>1. Msg \subseteq MsgNext /\ inbox \in Seq(Msg)
    BY <1>1, <1>4, Zenon DEF BrowserTypeOK
  <2>2. \A S, T : S \subseteq T => Seq(S) \subseteq Seq(T)
    OBVIOUS
  <2>3. inbox \in Seq(MsgNext)
    <3> HIDE DEF Msg, MsgNext
    <3> QED
      BY <2>1, <2>2, Zenon
  <2>4. m \in [reply : BOOLEAN, event : Events']
    BY <1>4, Zenon
  <2> QED
    BY <2>3, <2>4, Zenon
<1>7. /\ inbox' \in Seq([reply : BOOLEAN, event : Events'])
      /\ Len(inbox) + 1 \in DOMAIN inbox' /\ inbox'[Len(inbox) + 1] = m
      /\ \A i \in DOMAIN inbox : i \in DOMAIN inbox' /\ inbox'[i] = inbox[i]
      /\ \A i \in DOMAIN inbox' : i \in DOMAIN inbox \/ i = Len(inbox) + 1
  <2> HIDE DEF m
  <2> QED
    BY <1>3, <1>6
<1>8. BrowserTypeOK'
  <2>1. \A h \in DOMAIN chans : chans[h] \in Seq(Events')
    <3>1. \A S, T : S \subseteq T => Seq(S) \subseteq Seq(T)
      OBVIOUS
    <3> QED
      BY <1>1, <1>4, <3>1 DEF BrowserTypeOK
  <2>2. chans \in [Kinds \cup {"any"} -> Seq(Events')]
    BY <1>1, <2>1, Zenon DEF BrowserTypeOK
  <2> QED
    BY <1>1, <1>3, <1>4, <1>5, <1>7, <2>2, Zenon DEF BrowserTypeOK
<1>9. m.event = n /\ ~ m.reply
  BY Zenon
<1> HIDE DEF m, n
<1>10. InboxHolds'
  <2>1. \A i \in DOMAIN inbox : inbox[i].event \in Events /\ inbox[i].event # n
    BY <1>1, <1>4, MessagesOfEvents, Zenon
  <2>2. \A i \in DOMAIN inbox' : place'[inbox'[i].event] \in IF inbox'[i].reply THEN {"replied", "dropped"} ELSE {"inbox"}
    BY <1>1, <1>5, <1>7, <1>9, <2>1 DEF InboxHolds
  <2>3. \A i, j \in DOMAIN inbox' : inbox'[i].event = inbox'[j].event => i = j
    BY <1>1, <1>7, <1>9, <2>1 DEF InboxHolds
  <2>4. \A e \in Events' :
         /\ place'[e] = "inbox" => \E i \in DOMAIN inbox' : inbox'[i].event = e /\ ~ inbox'[i].reply
         /\ place'[e] = "replied" => \E i \in DOMAIN inbox' : inbox'[i].event = e /\ inbox'[i].reply
    <3>1. \A e \in Events :
           /\ place'[e] = "inbox" => \E i \in DOMAIN inbox' : inbox'[i].event = e /\ ~ inbox'[i].reply
           /\ place'[e] = "replied" => \E i \in DOMAIN inbox' : inbox'[i].event = e /\ inbox'[i].reply
      BY <1>1, <1>5, <1>7 DEF InboxHolds
    <3> QED
      BY <1>4, <1>5, <1>7, <1>9, <3>1
  <2> QED
    BY <2>2, <2>3, <2>4, Zenon DEF InboxHolds
<1>11. /\ \A e \in Events : Takers(e)' = Takers(e)
       /\ \A e \in Events : \A h : TakenBy(e, h)' <=> TakenBy(e, h)
  <2>1. \A e \in Events : Takers(e)' = Takers(e)
    BY <1>3, <1>4, Zenon DEF Takers
  <2> QED
    BY <1>3, <2>1, Zenon DEF TakenBy
<1>12. OneSending'
  <2>1. sending' = sending /\ sending \in Events \cup {0} /\ sending # n
    BY <1>1, <1>3, <1>4, Zenon DEF BrowserTypeOK
  <2>2. sending' # 0 => Takers(sending)' # {}
    BY <1>1, <1>11, <2>1, Zenon DEF OneSending
  <2> QED
    BY <1>1, <1>4, <1>5, <2>1, <2>2, Zenon DEF OneSending
<1>13. ChannelsHold'
  <2>1. \A h : {e \in Events' : place'[e] = "queued" /\ TakenBy(e, h)'} = {e \in Events : place[e] = "queued" /\ TakenBy(e, h)}
    BY <1>4, <1>5, <1>11, Zenon
  <2>2. \A e \in Events' : place'[e] = "queued" => \E h \in DOMAIN chans' : TakenBy(e, h)'
    BY <1>1, <1>3, <1>4, <1>5, <1>11, Zenon DEF ChannelsHold
  <2> QED
    BY <1>1, <1>3, <2>1, <2>2, Zenon DEF ChannelsHold
<1>14. DoneMeansQuiet'
  BY <1>1, <1>3, <1>4, <1>5, Zenon DEF DoneMeansQuiet, Outstanding
<1> QED
  BY <1>8, <1>10, <1>12, <1>13, <1>14, Zenon DEF BrowserInv

\* The reply to a call for event e.
LEMMA ReplyKeeps ==
  ASSUME BrowserInv, NEW e \in Events, Reply(e)
  PROVE  BrowserInv'
<1> DEFINE m == [reply |-> TRUE, event |-> e]
<1>1. /\ BrowserTypeOK /\ InboxHolds /\ OneSending /\ ChannelsHold /\ DoneMeansQuiet /\ place[e] = "asking"
      /\ UNCHANGED <<handlers, kind, chans, sending, listener, browserDone>> /\ Events' = Events
      /\ inbox' = Append(inbox, m)
  BY Zenon DEF BrowserInv, Reply, Events
<1>2. /\ place' \in Seq(Places) /\ Len(place') = Len(kind)
      /\ place'[e] = "replied" /\ \A f \in Events : f # e => place'[f] = place[f]
  <2>1. "replied" \in Places
    BY Zenon DEF Places
  <2> QED
    BY <1>1, <2>1, PlaceIsSet, Zenon DEF Reply
<1>3. inbox \in Seq([reply : BOOLEAN, event : Events]) /\ m \in [reply : BOOLEAN, event : Events]
  BY <1>1, Zenon DEF BrowserTypeOK
<1>4. m.event = e /\ m.reply
  BY Zenon
<1> HIDE DEF m
<1>5. /\ inbox' \in Seq([reply : BOOLEAN, event : Events])
      /\ Len(inbox) + 1 \in DOMAIN inbox' /\ inbox'[Len(inbox) + 1] = m
      /\ \A i \in DOMAIN inbox : i \in DOMAIN inbox' /\ inbox'[i] = inbox[i]
      /\ \A i \in DOMAIN inbox' : i \in DOMAIN inbox \/ i = Len(inbox) + 1
  BY <1>1, <1>3
<1>6. BrowserTypeOK'
  BY <1>1, <1>2, <1>5, Zenon DEF BrowserTypeOK
<1>7. InboxHolds'
  <2>1. \A i \in DOMAIN inbox : inbox[i].event \in Events /\ inbox[i].event # e
    BY <1>1, MessagesOfEvents, Zenon DEF InboxHolds
  <2>2. \A i \in DOMAIN inbox' : place'[inbox'[i].event] \in IF inbox'[i].reply THEN {"replied", "dropped"} ELSE {"inbox"}
    BY <1>1, <1>2, <1>4, <1>5, <2>1, SMTT(20) DEF InboxHolds
  <2>3. \A i, j \in DOMAIN inbox' : inbox'[i].event = inbox'[j].event => i = j
    BY <1>1, <1>4, <1>5, <2>1, SMTT(20) DEF InboxHolds
  <2>4. \A f \in Events' :
         /\ place'[f] = "inbox" => \E i \in DOMAIN inbox' : inbox'[i].event = f /\ ~ inbox'[i].reply
         /\ place'[f] = "replied" => \E i \in DOMAIN inbox' : inbox'[i].event = f /\ inbox'[i].reply
    BY <1>1, <1>2, <1>4, <1>5 DEF InboxHolds
  <2> QED
    BY <2>2, <2>3, <2>4, Zenon DEF InboxHolds
<1>8. OneSending'
  <2>1. \A f \in Events : place[f] = "sending" <=> place'[f] = "sending"
    BY <1>1, <1>2, Zenon
  <2> QED
    BY <1>1, <2>1, SendingStays, Zenon
<1>9. ChannelsHold'
  <2>1. \A f \in Events : place[f] = "queued" <=> place'[f] = "queued"
    BY <1>1, <1>2, Zenon
  <2> QED
    BY <1>1, <2>1, ChannelsStay, Zenon
<1>10. DoneMeansQuiet'
  <2>1. e \in Outstanding
    BY <1>1, Zenon DEF Outstanding
  <2> QED
    BY <1>1, <2>1, Zenon DEF DoneMeansQuiet
<1> QED
  BY <1>6, <1>7, <1>8, <1>9, <1>10, Zenon DEF BrowserInv

\* A step of event e that does not move the messages: the place that it leaves, or the
\* one that it goes to, is not one of theirs.
LEMMA QuietStep ==
  ASSUME BrowserInv, NEW e \in Events, NEW p \in {"logged", "dropped"},
         place' = [place EXCEPT ![e] = p], place[e] \in {"asking", "replied", "answered"},
         p = "logged" => place[e] = "answered",
         UNCHANGED <<handlers, kind, inbox, chans, sending>>,
         listener' \in {"select", "busy", "draining", "ended"}, listener' = "ended" => listener = "ended"
  PROVE  BrowserInv'
<1>1. /\ BrowserTypeOK /\ InboxHolds /\ OneSending /\ ChannelsHold /\ DoneMeansQuiet /\ Events' = Events
  BY Zenon DEF BrowserInv, Events
<1>2. /\ place' \in Seq(Places) /\ Len(place') = Len(kind)
      /\ place'[e] = p /\ \A f \in Events : f # e => place'[f] = place[f]
  <2>1. p \in Places
    BY Zenon DEF Places
  <2> QED
    BY <1>1, <2>1, PlaceIsSet, Zenon
<1>3. BrowserTypeOK'
  BY <1>1, <1>2, Zenon DEF BrowserTypeOK
<1>4. \A f \in Events : /\ place[f] = "inbox" <=> place'[f] = "inbox"
                        /\ place'[f] = "replied" => place[f] = "replied"
                        /\ place[f] \in {"replied", "dropped"} => place'[f] \in {"replied", "dropped"}
                        /\ place[f] = "sending" <=> place'[f] = "sending"
                        /\ place[f] = "queued" <=> place'[f] = "queued"
  BY <1>2, Zenon
<1>5. InboxHolds'
  BY <1>1, <1>4, InboxStays, Zenon
<1>6. OneSending' /\ ChannelsHold'
  BY <1>1, <1>4, SendingStays, ChannelsStay, Zenon
<1>7. DoneMeansQuiet'
  <2>1. e \in Outstanding
    BY Zenon DEF Outstanding
  <2> QED
    BY <1>1, <2>1, Zenon DEF DoneMeansQuiet
<1> QED
  BY <1>3, <1>5, <1>6, <1>7, Zenon DEF BrowserInv

LEMMA ConsoleLogsKeeps ==
  ASSUME BrowserInv, NEW e \in Events, ConsoleLogs(e)
  PROVE  BrowserInv'
<1>1. /\ UNCHANGED <<handlers, kind, inbox, chans, sending>>
      /\ listener' \in {"select", "busy", "draining", "ended"} /\ (listener' = "ended" => listener = "ended")
  BY Zenon DEF ConsoleLogs, BrowserInv, BrowserTypeOK
<1>2. CASE place[e] = "answered" /\ place' = [place EXCEPT ![e] = "logged"]
  BY <1>1, <1>2, QuietStep, Zenon
<1>3. CASE place[e] \in {"asking", "replied"} /\ place' = [place EXCEPT ![e] = "dropped"]
  BY <1>1, <1>3, QuietStep, Zenon
<1> QED
  BY <1>2, <1>3, Zenon DEF ConsoleLogs

\* What the listener, or the context, does without an event.
LEMMA NoEventKeeps ==
  ASSUME BrowserInv, UNCHANGED <<handlers, kind, place, inbox, chans, sending>>,
         listener' \in {listener, "draining"} \/ (listener' = "ended" /\ Outstanding = {})
  PROVE  BrowserInv'
<1>1. BrowserTypeOK'
  BY Zenon DEF BrowserInv, BrowserTypeOK, Events
<1>2. InboxHolds' /\ OneSending' /\ ChannelsHold'
  BY InboxStays, SendingStays, ChannelsStay, Zenon DEF BrowserInv
<1>3. DoneMeansQuiet'
  BY Zenon DEF BrowserInv, DoneMeansQuiet, Outstanding, Events
<1> QED
  BY <1>1, <1>2, <1>3, Zenon DEF BrowserInv

\* The loop takes its first message: a reply, or an event that it drops or sends.
LEMMA LoopTakesKeeps ==
  ASSUME BrowserInv, LoopTakes
  PROVE  BrowserInv'
<1>1. /\ BrowserTypeOK /\ InboxHolds /\ OneSending /\ ChannelsHold /\ DoneMeansQuiet
      /\ UNCHANGED <<handlers, kind, chans, listener, browserDone>> /\ Events' = Events
      /\ sending = 0 /\ inbox # <<>> /\ inbox' = Tail(inbox)
  BY Zenon DEF BrowserInv, LoopTakes, Events
<1> DEFINE Msg == [reply : BOOLEAN, event : Events]
<1>2. inbox \in Seq(Msg)
  BY <1>1, Zenon DEF BrowserTypeOK
<1> HIDE DEF Msg
<1>3. /\ inbox' \in Seq(Msg) /\ 1 \in DOMAIN inbox /\ Head(inbox) = inbox[1]
      /\ \A i \in DOMAIN inbox' : i + 1 \in DOMAIN inbox /\ i + 1 # 1 /\ inbox'[i] = inbox[i + 1]
      /\ \A i \in DOMAIN inbox : i = 1 \/ (i - 1 \in DOMAIN inbox' /\ inbox'[i - 1] = inbox[i])
      /\ \A i, j \in DOMAIN inbox' : i + 1 = j + 1 => i = j
  BY <1>1, <1>2
<1>4. PICK e \in Events : e = inbox[1].event
  BY <1>1, <1>3, MessagesOfEvents, Zenon
<1>5. PICK p \in Places :
        /\ place' = [place EXCEPT ![e] = p]
        /\ \/ /\ place[e] \in {"replied", "dropped"} /\ sending' = sending
              /\ p = IF place[e] = "replied" THEN "answered" ELSE "dropped"
           \/ /\ place[e] = "inbox" /\ Takers(e) = {} /\ p = "dropped" /\ sending' = sending
           \/ /\ place[e] = "inbox" /\ Takers(e) # {} /\ p = "sending" /\ sending' = e
  <2>1. {"answered", "dropped", "sending"} \subseteq Places
    BY Zenon DEF Places
  <2>2. CASE inbox[1].reply
    <3>1. /\ place' = [place EXCEPT ![e] = IF @ = "replied" THEN "answered" ELSE @] /\ sending' = sending
      BY <1>3, <1>4, <2>2, Zenon DEF LoopTakes
    <3>2. place[e] \in {"replied", "dropped"}
      BY <1>1, <1>3, <1>4, <2>2, Zenon DEF InboxHolds
    <3>3. CASE place[e] = "replied"
      <4>1. place' = [place EXCEPT ![e] = "answered"]
        BY <3>1, <3>3, Zenon
      <4> QED
        BY <2>1, <3>1, <3>3, <4>1, Zenon
    <3>4. CASE place[e] = "dropped"
      <4>1. place[e] # "replied"
        BY <3>4, Zenon
      <4>2. place' = [place EXCEPT ![e] = "dropped"]
        BY <3>1, <3>4, <4>1, Zenon
      <4> QED
        BY <2>1, <3>1, <3>4, <4>1, <4>2, Zenon
    <3> QED
      BY <3>2, <3>3, <3>4, Zenon
  <2>3. CASE ~ inbox[1].reply
    <3>1. /\ place' = [place EXCEPT ![e] = IF Takers(e) = {} THEN "dropped" ELSE "sending"]
          /\ sending' = IF Takers(e) = {} THEN 0 ELSE e
      BY <1>3, <1>4, <2>3, Zenon DEF LoopTakes
    <3>2. place[e] = "inbox"
      BY <1>1, <1>3, <1>4, <2>3, Zenon DEF InboxHolds
    <3>3. CASE Takers(e) = {}
      BY <1>1, <2>1, <3>1, <3>2, <3>3, Zenon
    <3>4. CASE Takers(e) # {}
      BY <1>1, <2>1, <3>1, <3>2, <3>4, Zenon
    <3> QED
      BY <3>3, <3>4, Zenon
  <2> QED
    BY <2>2, <2>3, Zenon
<1>6. /\ place' \in Seq(Places) /\ Len(place') = Len(kind)
      /\ place'[e] = p /\ \A f \in Events : f # e => place'[f] = place[f]
  BY <1>1, <1>5, PlaceIsSet, Zenon
<1>7. p \notin {"inbox", "replied", "queued"} /\ place[e] # "queued" /\ place[e] # "sending"
  BY <1>5, Zenon
<1>8. BrowserTypeOK'
  <2>1. sending' \in Events \cup {0}
    BY <1>1, <1>5, Zenon
  <2> QED
    BY <1>1, <1>3, <1>6, <2>1, Zenon DEF BrowserTypeOK, Msg
<1>9. InboxHolds'
  <2>1. \A i \in DOMAIN inbox' : inbox'[i].event \in Events /\ inbox'[i].event # e
    BY <1>1, <1>3, <1>4, MessagesOfEvents DEF InboxHolds
  <2>2. \A i \in DOMAIN inbox' : place'[inbox'[i].event] \in IF inbox'[i].reply THEN {"replied", "dropped"} ELSE {"inbox"}
    <3>1. ASSUME NEW i \in DOMAIN inbox'
          PROVE  place'[inbox'[i].event] \in IF inbox'[i].reply THEN {"replied", "dropped"} ELSE {"inbox"}
      <4>1. i + 1 \in DOMAIN inbox /\ inbox'[i] = inbox[i + 1]
        BY <1>3, Zenon
      <4>2. place[inbox[i + 1].event] \in IF inbox[i + 1].reply THEN {"replied", "dropped"} ELSE {"inbox"}
        BY <1>1, <4>1, Zenon DEF InboxHolds
      <4>3. place'[inbox'[i].event] = place[inbox'[i].event]
        BY <1>6, <2>1, Zenon
      <4> QED
        BY <4>1, <4>2, <4>3, Zenon
    <3> QED
      BY <3>1, Zenon
  <2>3. \A i, j \in DOMAIN inbox' : inbox'[i].event = inbox'[j].event => i = j
    BY <1>1, <1>3 DEF InboxHolds
  <2>4. \A f \in Events :
         /\ place'[f] = "inbox" => \E i \in DOMAIN inbox' : inbox'[i].event = f /\ ~ inbox'[i].reply
         /\ place'[f] = "replied" => \E i \in DOMAIN inbox' : inbox'[i].event = f /\ inbox'[i].reply
    <3>1. ASSUME NEW f \in Events, place'[f] \in {"inbox", "replied"}
          PROVE  f # e /\ place[f] = place'[f]
      BY <1>6, <1>7, <3>1, Zenon
    <3>2. ASSUME NEW f \in Events, f # e, NEW i \in DOMAIN inbox, inbox[i].event = f
          PROVE  i - 1 \in DOMAIN inbox' /\ inbox'[i - 1] = inbox[i]
      BY <1>3, <1>4, <3>2, Zenon
    <3>3. ASSUME NEW f \in Events, place'[f] = "inbox"
          PROVE  \E i \in DOMAIN inbox' : inbox'[i].event = f /\ ~ inbox'[i].reply
      <4>1. PICK i \in DOMAIN inbox : inbox[i].event = f /\ ~ inbox[i].reply
        BY <1>1, <3>1, <3>3 DEF InboxHolds
      <4>2. i - 1 \in DOMAIN inbox' /\ inbox'[i - 1] = inbox[i]
        BY <3>1, <3>2, <3>3, <4>1, Zenon
      <4> QED
        BY <4>1, <4>2, Zenon
    <3>4. ASSUME NEW f \in Events, place'[f] = "replied"
          PROVE  \E i \in DOMAIN inbox' : inbox'[i].event = f /\ inbox'[i].reply
      <4>1. PICK i \in DOMAIN inbox : inbox[i].event = f /\ inbox[i].reply
        BY <1>1, <3>1, <3>4 DEF InboxHolds
      <4>2. i - 1 \in DOMAIN inbox' /\ inbox'[i - 1] = inbox[i]
        BY <3>1, <3>2, <3>4, <4>1, Zenon
      <4> QED
        BY <4>1, <4>2, Zenon
    <3> QED
      BY <3>3, <3>4, Zenon
  <2> QED
    BY <1>1, <2>2, <2>3, <2>4, Zenon DEF InboxHolds
<1>10. OneSending'
  <2>1. \A f : Takers(f)' = Takers(f)
    BY <1>1, Zenon DEF Takers
  <2>2. 0 \notin Events
    BY <1>1 DEF BrowserTypeOK, Events
  <2>3. CASE p = "sending"
    <3>1. sending' = e /\ Takers(e)' # {}
      BY <1>5, <2>1, <2>3, Zenon
    <3> QED
      BY <1>1, <1>6, <2>2, <2>3, <3>1, Zenon DEF OneSending
  <2>4. CASE p # "sending"
    <3>1. sending' = sending
      BY <1>5, <2>4, Zenon
    <3>2. \A f \in Events : place[f] = "sending" <=> place'[f] = "sending"
      BY <1>6, <1>7, <2>4, Zenon
    <3> QED
      BY <1>1, <3>1, <3>2, SendingStays, Zenon
  <2> QED
    BY <2>3, <2>4, Zenon
<1>11. ChannelsHold'
  <2>1. \A f \in Events : place[f] = "queued" <=> place'[f] = "queued"
    BY <1>6, <1>7, Zenon
  <2> QED
    BY <1>1, <2>1, ChannelsStay, Zenon
<1>12. DoneMeansQuiet'
  <2>1. ASSUME Outstanding = {}
        PROVE  Outstanding' = {}
    <3>1. place[e] \notin {"asking", "replied", "answered"}
      BY <2>1, Zenon DEF Outstanding
    <3>2. p \notin {"asking", "replied", "answered"}
      BY <1>5, <3>1, Zenon
    <3> QED
      BY <1>1, <1>6, <2>1, <3>2, Zenon DEF Outstanding
  <2> QED
    BY <1>1, <2>1, Zenon DEF DoneMeansQuiet
<1> QED
  BY <1>8, <1>9, <1>10, <1>11, <1>12, Zenon DEF BrowserInv

\* The event that the loop sends goes to the channel of the first handler that takes it.
LEMMA HandlerSendsKeeps ==
  ASSUME BrowserInv, HandlerSends
  PROVE  BrowserInv'
<1>1. /\ BrowserTypeOK /\ InboxHolds /\ OneSending /\ ChannelsHold /\ DoneMeansQuiet
      /\ UNCHANGED <<handlers, kind, inbox, listener, browserDone>> /\ Events' = Events
      /\ sending # 0 /\ sending' = 0
  BY Zenon DEF BrowserInv, HandlerSends, Events
<1>2. PICK s \in Events : s = sending
  BY <1>1, Zenon DEF BrowserTypeOK
<1>3. PICK h \in DOMAIN chans :
        TakenBy(s, h) /\ Len(chans[h]) < ChanCap /\ chans' = [chans EXCEPT ![h] = Append(@, s)]
  BY <1>2, Zenon DEF HandlerSends
<1>4. place[s] = "sending"
  BY <1>1, <1>2, Zenon DEF OneSending
<1>5. /\ place' \in Seq(Places) /\ Len(place') = Len(kind)
      /\ place'[s] = "queued" /\ \A f \in Events : f # s => place'[f] = place[f]
  <2>1. "queued" \in Places /\ place' = [place EXCEPT ![s] = "queued"]
    BY <1>2, Zenon DEF Places, HandlerSends
  <2> QED
    BY <1>1, <2>1, PlaceIsSet, Zenon
<1>6. /\ chans \in [Kinds \cup {"any"} -> Seq(Events)] /\ h \in Kinds \cup {"any"}
      /\ chans[h] \in Seq(Events) /\ IsInjective(chans[h])
      /\ Range(chans[h]) = {e \in Events : place[e] = "queued" /\ TakenBy(e, h)}
  BY <1>1, <1>3, Zenon DEF BrowserTypeOK, ChannelsHold
<1>7. s \notin Range(chans[h])
  BY <1>4, <1>6, Zenon
<1>8. /\ Append(chans[h], s) \in Seq(Events) /\ Len(Append(chans[h], s)) = Len(chans[h]) + 1
      /\ Range(Append(chans[h], s)) = Range(chans[h]) \union {s} /\ IsInjective(Append(chans[h], s))
  BY <1>6, <1>7, SendAdds, Zenon
<1>9. /\ chans' \in [Kinds \cup {"any"} -> Seq(Events)]
      /\ chans'[h] = Append(chans[h], s) /\ \A g \in DOMAIN chans : g # h => chans'[g] = chans[g]
      /\ DOMAIN chans' = DOMAIN chans
  BY <1>3, <1>6, <1>8, Zenon
<1>10. Len(chans'[h]) <= ChanCap
  <2>1. Len(chans[h]) \in Nat /\ ChanCap \in Nat
    BY <1>6, BrowserAssumption
  <2> QED
    BY <1>3, <1>8, <1>9, <2>1
<1>11. \A e, g : TakenBy(e, g)' <=> TakenBy(e, g)
  BY <1>1, Zenon DEF TakenBy, Takers
<1>12. BrowserTypeOK'
  BY <1>1, <1>5, <1>9, Zenon DEF BrowserTypeOK
<1>13. InboxHolds'
  <2>1. \A f \in Events : /\ place[f] = "inbox" <=> place'[f] = "inbox"
                          /\ place'[f] = "replied" => place[f] = "replied"
                          /\ place[f] \in {"replied", "dropped"} => place'[f] \in {"replied", "dropped"}
    BY <1>4, <1>5, Zenon
  <2> QED
    BY <1>1, <2>1, InboxStays, Zenon
<1>14. OneSending'
  <2>1. 0 \notin Events
    BY <1>1 DEF BrowserTypeOK, Events
  <2>2. \A f \in Events : place'[f] # "sending"
    BY <1>1, <1>2, <1>5, Zenon DEF OneSending
  <2> QED
    BY <1>1, <2>1, <2>2, Zenon DEF OneSending
<1>15. ChannelsHold'
  <2>1. Range(chans'[h]) = {e \in Events' : place'[e] = "queued" /\ TakenBy(e, h)'}
    <3>1. chans'[h] = Append(chans[h], s) /\ s \in Events /\ TakenBy(s, h)
      BY <1>3, <1>9, Zenon
    <3>2. Range(chans'[h]) = {e \in Events : place[e] = "queued" /\ TakenBy(e, h)} \union {s}
      BY <1>6, <1>8, <3>1, Zenon
    <3>3. \A e \in Events : (place'[e] = "queued" /\ TakenBy(e, h)') <=> ((place[e] = "queued" /\ TakenBy(e, h)) \/ e = s)
      BY <1>5, <1>11, <3>1, Zenon
    <3> QED
      BY <1>1, <3>1, <3>2, <3>3, Zenon
  <2>2. ASSUME NEW g \in DOMAIN chans, g # h
        PROVE  Range(chans'[g]) = {e \in Events' : place'[e] = "queued" /\ TakenBy(e, g)'}
    <3>1. Range(chans'[g]) = {e \in Events : place[e] = "queued" /\ TakenBy(e, g)}
      BY <1>1, <1>9, <2>2, Zenon DEF ChannelsHold
    <3>2. ~ TakenBy(s, g) /\ place[s] # "queued"
      BY <1>1, <1>3, <1>4, <2>2, TakenByOne, Zenon
    <3> QED
      BY <1>1, <1>5, <1>11, <3>1, <3>2, Zenon
  <2>3. \A e \in Events' : place'[e] = "queued" => \E g \in DOMAIN chans' : TakenBy(e, g)'
    <3>1. \A e \in Events : place'[e] = "queued" => \E g \in DOMAIN chans : TakenBy(e, g)
      BY <1>1, <1>3, <1>5, Zenon DEF ChannelsHold
    <3> QED
      BY <1>1, <1>9, <1>11, <3>1, Zenon
  <2>4. \A g \in DOMAIN chans : g # h => Len(chans'[g]) <= ChanCap /\ IsInjective(chans'[g])
    BY <1>1, <1>9, Zenon DEF ChannelsHold
  <2>5. IsInjective(chans'[h])
    BY <1>8, <1>9, Zenon
  <2>6. \A g \in DOMAIN chans' :
          /\ Len(chans'[g]) <= ChanCap /\ IsInjective(chans'[g])
          /\ Range(chans'[g]) = {e \in Events' : place'[e] = "queued" /\ TakenBy(e, g)'}
    <3>1. ASSUME NEW g \in DOMAIN chans, g = h
          PROVE  /\ Len(chans'[g]) <= ChanCap /\ IsInjective(chans'[g])
                 /\ Range(chans'[g]) = {e \in Events' : place'[e] = "queued" /\ TakenBy(e, g)'}
      BY <1>10, <2>1, <2>5, <3>1, Zenon
    <3> QED
      BY <1>9, <2>2, <2>4, <3>1, Zenon
  <2> QED
    BY <2>3, <2>6, Zenon DEF ChannelsHold
<1>16. DoneMeansQuiet'
  <2>1. \A f \in Events : place'[f] \in {"asking", "replied", "answered"} => place[f] \in {"asking", "replied", "answered"}
    BY <1>5, Zenon
  <2> QED
    BY <1>1, <2>1, Zenon DEF DoneMeansQuiet, Outstanding
<1> QED
  BY <1>12, <1>13, <1>14, <1>15, <1>16, Zenon DEF BrowserInv

LEMMA HandlerGivesUpKeeps ==
  ASSUME BrowserInv, HandlerGivesUp
  PROVE  BrowserInv'
<1>1. /\ BrowserTypeOK /\ InboxHolds /\ OneSending /\ ChannelsHold /\ DoneMeansQuiet
      /\ UNCHANGED <<handlers, kind, inbox, chans, listener>> /\ Events' = Events
      /\ sending # 0 /\ sending' = 0
  BY Zenon DEF BrowserInv, HandlerGivesUp, Events
<1>2. PICK s \in Events : s = sending
  BY <1>1, Zenon DEF BrowserTypeOK
<1>3. place[s] = "sending"
  BY <1>1, <1>2, Zenon DEF OneSending
<1>4. /\ place' \in Seq(Places) /\ Len(place') = Len(kind)
      /\ place'[s] = "dropped" /\ \A f \in Events : f # s => place'[f] = place[f]
  <2>1. "dropped" \in Places /\ place' = [place EXCEPT ![s] = "dropped"]
    BY <1>2, Zenon DEF Places, HandlerGivesUp
  <2> QED
    BY <1>1, <2>1, PlaceIsSet, Zenon
<1>5. BrowserTypeOK'
  BY <1>1, <1>4, Zenon DEF BrowserTypeOK
<1>6. \A f \in Events : /\ place[f] = "inbox" <=> place'[f] = "inbox"
                        /\ place'[f] = "replied" => place[f] = "replied"
                        /\ place[f] \in {"replied", "dropped"} => place'[f] \in {"replied", "dropped"}
                        /\ place[f] = "queued" <=> place'[f] = "queued"
                        /\ place'[f] \in {"asking", "replied", "answered"} => place[f] \in {"asking", "replied", "answered"}
  BY <1>3, <1>4, Zenon
<1>7. InboxHolds' /\ ChannelsHold'
  BY <1>1, <1>6, InboxStays, ChannelsStay, Zenon
<1>8. OneSending'
  <2>1. 0 \notin Events
    BY <1>1 DEF BrowserTypeOK, Events
  <2>2. \A f \in Events : place'[f] # "sending"
    BY <1>1, <1>2, <1>4, Zenon DEF OneSending
  <2> QED
    BY <1>1, <2>1, <2>2, Zenon DEF OneSending
<1>9. DoneMeansQuiet'
  BY <1>1, <1>6, Zenon DEF DoneMeansQuiet, Outstanding
<1> QED
  BY <1>5, <1>7, <1>8, <1>9, Zenon DEF BrowserInv

\* The listener takes the first event of the channel of handler h.
LEMMA ListenerReceivesKeeps ==
  ASSUME BrowserInv, NEW h \in DOMAIN chans, ListenerReceives(h)
  PROVE  BrowserInv'
<1>1. /\ BrowserTypeOK /\ InboxHolds /\ OneSending /\ ChannelsHold
      /\ UNCHANGED <<handlers, kind, inbox, sending>> /\ Events' = Events
      /\ listener' = "select" /\ chans[h] # <<>> /\ chans' = [chans EXCEPT ![h] = Tail(chans[h])]
  BY Zenon DEF BrowserInv, ListenerReceives, Events
<1>2. /\ chans \in [Kinds \cup {"any"} -> Seq(Events)] /\ h \in Kinds \cup {"any"}
      /\ chans[h] \in Seq(Events) /\ IsInjective(chans[h]) /\ Len(chans[h]) <= ChanCap
      /\ Range(chans[h]) = {e \in Events : place[e] = "queued" /\ TakenBy(e, h)}
  BY <1>1, Zenon DEF BrowserTypeOK, ChannelsHold
<1>3. /\ Tail(chans[h]) \in Seq(Events) /\ Len(Tail(chans[h])) <= Len(chans[h]) /\ Head(chans[h]) \in Range(chans[h])
      /\ Range(Tail(chans[h])) = Range(chans[h]) \ {Head(chans[h])} /\ IsInjective(Tail(chans[h]))
  BY <1>1, <1>2, ReceiveTakes, Zenon
<1>4. PICK s \in Events : s = Head(chans[h]) /\ place[s] = "queued" /\ TakenBy(s, h)
  BY <1>2, <1>3, Zenon
<1>5. PICK p \in {"asking", "logged"} : place' = [place EXCEPT ![s] = p]
  BY <1>4, Zenon DEF ListenerReceives
<1>6. /\ place' \in Seq(Places) /\ Len(place') = Len(kind)
      /\ place'[s] = p /\ \A f \in Events : f # s => place'[f] = place[f]
  <2>1. p \in Places
    BY Zenon DEF Places
  <2> QED
    BY <1>1, <1>5, <2>1, PlaceIsSet, Zenon
<1>7. /\ chans' \in [Kinds \cup {"any"} -> Seq(Events)]
      /\ chans'[h] = Tail(chans[h]) /\ \A g \in DOMAIN chans : g # h => chans'[g] = chans[g]
      /\ DOMAIN chans' = DOMAIN chans
  BY <1>1, <1>2, <1>3, Zenon
<1>8. \A e, g : TakenBy(e, g)' <=> TakenBy(e, g)
  BY <1>1, Zenon DEF TakenBy, Takers
<1>9. BrowserTypeOK'
  BY <1>1, <1>6, <1>7, Zenon DEF BrowserTypeOK
<1>10. InboxHolds' /\ OneSending'
  <2>1. \A f \in Events : /\ place[f] = "inbox" <=> place'[f] = "inbox"
                          /\ place'[f] = "replied" => place[f] = "replied"
                          /\ place[f] \in {"replied", "dropped"} => place'[f] \in {"replied", "dropped"}
                          /\ place[f] = "sending" <=> place'[f] = "sending"
    BY <1>4, <1>6, Zenon
  <2> QED
    BY <1>1, <2>1, InboxStays, SendingStays, Zenon
<1>11. ChannelsHold'
  <2>1. \A e \in Events : place'[e] = "queued" <=> place[e] = "queued" /\ e # s
    BY <1>4, <1>6, Zenon
  <2>2. Range(chans'[h]) = {e \in Events' : place'[e] = "queued" /\ TakenBy(e, h)'}
    <3>1. Range(chans'[h]) = {e \in Events : place[e] = "queued" /\ TakenBy(e, h)} \ {s}
      BY <1>2, <1>3, <1>4, <1>7, Zenon
    <3> QED
      BY <1>1, <1>8, <2>1, <3>1, Zenon
  <2>3. Len(chans'[h]) <= ChanCap /\ IsInjective(chans'[h])
    <3>1. Len(Tail(chans[h])) \in Nat /\ Len(chans[h]) \in Nat /\ ChanCap \in Nat
      BY <1>2, <1>3, BrowserAssumption
    <3>2. Len(Tail(chans[h])) <= ChanCap
      BY <1>2, <1>3, <3>1
    <3> QED
      BY <1>3, <1>7, <3>2, Zenon
  <2>4. ASSUME NEW g \in DOMAIN chans, g # h
        PROVE  /\ Len(chans'[g]) <= ChanCap /\ IsInjective(chans'[g])
               /\ Range(chans'[g]) = {e \in Events' : place'[e] = "queued" /\ TakenBy(e, g)'}
    <3>1. /\ Len(chans'[g]) <= ChanCap /\ IsInjective(chans'[g])
          /\ Range(chans'[g]) = {e \in Events : place[e] = "queued" /\ TakenBy(e, g)}
      BY <1>1, <1>7, <2>4, Zenon DEF ChannelsHold
    <3>2. ~ TakenBy(s, g)
      BY <1>1, <1>4, <2>4, TakenByOne, Zenon
    <3>3. {e \in Events' : place'[e] = "queued" /\ TakenBy(e, g)'} = {e \in Events : place[e] = "queued" /\ TakenBy(e, g)}
      BY <1>1, <1>8, <2>1, <3>2, Zenon
    <3> QED
      BY <3>1, <3>3, Zenon
  <2>5. \A e \in Events' : place'[e] = "queued" => \E g \in DOMAIN chans' : TakenBy(e, g)'
    BY <1>1, <1>7, <1>8, <2>1, Zenon DEF ChannelsHold
  <2>6. ASSUME NEW g \in DOMAIN chans, g = h
        PROVE  /\ Len(chans'[g]) <= ChanCap /\ IsInjective(chans'[g])
               /\ Range(chans'[g]) = {e \in Events' : place'[e] = "queued" /\ TakenBy(e, g)'}
    BY <2>2, <2>3, <2>6, Zenon
  <2>7. \A g \in DOMAIN chans' :
          /\ Len(chans'[g]) <= ChanCap /\ IsInjective(chans'[g])
          /\ Range(chans'[g]) = {e \in Events' : place'[e] = "queued" /\ TakenBy(e, g)'}
    BY <1>7, <2>4, <2>6, Zenon
  <2> QED
    BY <2>5, <2>7, Zenon DEF ChannelsHold
<1>12. DoneMeansQuiet'
  BY <1>1, Zenon DEF DoneMeansQuiet
<1> QED
  BY <1>9, <1>10, <1>11, <1>12, Zenon DEF BrowserInv

LEMMA BrowserStep == BrowserInv /\ [BrowserNext]_browserVars => BrowserInv'
<1> SUFFICES ASSUME BrowserInv, [BrowserNext]_browserVars
             PROVE  BrowserInv'
  BY Zenon
<1>1. CASE Emit
  BY <1>1, EmitKeeps, Zenon
<1>2. CASE Loop
  BY <1>2, LoopTakesKeeps, HandlerSendsKeeps, HandlerGivesUpKeeps, Zenon DEF Loop
<1>3. CASE Receive
  BY <1>3, ListenerReceivesKeeps, Zenon DEF Receive
<1>4. CASE ListenerStops
  BY <1>4, NoEventKeeps, Zenon DEF ListenerStops
<1>5. CASE ListenerEnds
  BY <1>5, NoEventKeeps, Zenon DEF ListenerEnds
<1>6. CASE BrowserCancel
  BY <1>6, NoEventKeeps, Zenon DEF BrowserCancel
<1>7. CASE \E e \in Events : Reply(e) \/ ConsoleLogs(e)
  BY <1>7, ReplyKeeps, ConsoleLogsKeeps, Zenon
<1>8. CASE UNCHANGED browserVars
  BY <1>8, NoEventKeeps, Zenon DEF browserVars
<1> QED
  BY <1>1, <1>2, <1>3, <1>4, <1>5, <1>6, <1>7, <1>8, Zenon DEF BrowserNext

\* The listener of the browser's events (RunLoggingListener, Listen and
\* NewListenHandler): no event is lost or handled twice, the channels hold what the
\* first handler that takes it was sent and never more than their capacity, and when
\* the done channel is closed nothing of the listener is still at work.
THEOREM ListenerIsSafe == BrowserSpec => []BrowserInv
BY BrowserStart, BrowserStep, PTL DEF BrowserSpec

-----------------------------------------------------------------------------
(* Child processes and their output.                                      *)

\* What the scenarios are.
LEMMA SceneFacts ==
  ASSUME NEW s \in Scenarios
  PROVE  /\ PipeSize \in Nat /\ s.cap \in Nat
         /\ s.lines \in Seq(STRING) /\ Len(s.lines) \in Nat /\ DOMAIN s.lines = 1..Len(s.lines)
         /\ s.calls \in Seq(STRING) /\ Len(s.calls) \in Nat \ {0} /\ DOMAIN s.calls = 1..Len(s.calls)
         /\ \A i, j \in DOMAIN s.lines : s.lines[i] = s.lines[j] /\ s.lines[i] \in {"acme", "mgmt"} => i = j
<1>1. /\ PipeSize \in Nat /\ s.cap \in Nat /\ s.lines \in Seq(STRING) /\ s.calls \in Seq(STRING) \ {<<>>}
      /\ \A i, j \in DOMAIN s.lines : s.lines[i] = s.lines[j] /\ s.lines[i] \in {"acme", "mgmt"} => i = j
  BY ChildAssumption, Zenon
<1>2. Len(s.lines) \in Nat /\ DOMAIN s.lines = 1..Len(s.lines)
  BY <1>1
<1>3. Len(s.calls) \in Nat \ {0} /\ DOMAIN s.calls = 1..Len(s.calls)
  BY <1>1
<1> QED
  BY <1>1, <1>2, <1>3, Zenon

LEMMA ChildStart == ChildInit => ChildInv
<1> SUFFICES ASSUME ChildInit
             PROVE  ChildInv
  BY Zenon
<1>1. ChildTypeOK
  <2>1. /\ scene \in Scenarios /\ PipeSize \in Nat /\ scene.cap \in Nat /\ Len(scene.lines) \in Nat
        /\ Len(scene.calls) \in Nat \ {0}
    BY SceneFacts, Zenon DEF ChildInit
  <2>2. <<>> \in Seq(STRING) /\ Len(<<>>) <= PipeSize /\ Len(<<>>) <= scene.cap
    BY <2>1
  <2>3. /\ 0 \in 0..Len(scene.lines) /\ 1 \in 1..Len(scene.calls) + 1 /\ 1 <= Len(scene.calls)
        /\ 0 \in 0..1
    BY <2>1
  <2>4. DOMAIN configs = DOMAIN scene.calls
    BY Zenon DEF ChildInit
  <2> QED
    BY <2>1, <2>2, <2>3, <2>4, Zenon DEF ChildInit, ChildTypeOK
<1>2. 0 \in 0..written /\ Forwarded(0)
  BY DEF ChildInit, Forwarded
<1>3. 1..at - 1 = {}
  BY DEF ChildInit
<1> QED
  BY <1>1, <1>2, <1>3, Zenon DEF ChildInv, OutputInOrder, ReturnMeansSatisfied, ConfigsIndependent

\* What was printed stays printed, an open port open and a new certificate new, so
\* that a wait that was satisfied stays so.
LEMMA SatisfiedStays ==
  ASSUME ChildTypeOK, UNCHANGED scene, written' \in {written, written + 1},
         accepting => accepting', certFile = "new" => certFile' = "new",
         NEW i, Satisfied(i)
  PROVE  Satisfied(i)'
<1>1. ASSUME NEW line, Printed(line)
      PROVE  Printed(line)'
  <2>1. 1..written \subseteq 1..written'
    BY DEF ChildTypeOK
  <2> QED
    BY <1>1, <2>1, Zenon DEF Printed
<1>2. CASE scene.calls[i] = "ready"
  BY <1>1, <1>2, Zenon DEF Satisfied
<1>3. CASE scene.calls[i] \in {"authorized", "issued", "url"}
  <2>1. scene.calls[i] # "ready"
    BY <1>3, Zenon
  <2>2. Printed(scene.calls[i])
    BY <1>3, <2>1, Zenon DEF Satisfied
  <2> QED
    BY <1>1, <1>3, <2>1, <2>2, Zenon DEF Satisfied
<1>4. CASE scene.calls[i] = "connect"
  BY <1>4, Zenon DEF Satisfied
<1>5. CASE scene.calls[i] = "newcert"
  BY <1>5, Zenon DEF Satisfied
<1>6. CASE scene.calls[i] \notin {"ready", "authorized", "issued", "url", "connect", "newcert"}
  BY <1>6, Zenon DEF Satisfied
<1> QED
  BY <1>2, <1>3, <1>4, <1>5, <1>6, Zenon

\* The calls that have returned, after a step that returns from no call.
LEMMA NoReturn ==
  ASSUME ChildInv, UNCHANGED <<scene, at, configs>>, written' \in {written, written + 1},
         accepting => accepting', certFile = "new" => certFile' = "new"
  PROVE  ReturnMeansSatisfied' /\ ConfigsIndependent'
<1>1. ReturnMeansSatisfied'
  BY SatisfiedStays, Zenon DEF ChildInv, ReturnMeansSatisfied
<1>2. ConfigsIndependent'
  BY Zenon DEF ChildInv, ConfigsIndependent
<1> QED
  BY <1>1, <1>2, Zenon

\* And after one that returns from the current call.
LEMMA OneReturns ==
  ASSUME ChildInv, outcome = "running", Returns, UNCHANGED <<scene, written, accepting, certFile>>,
         \A i \in DOMAIN configs : i # at => configs'[i] = configs[i],
         \A i : i = at => Satisfied(i)', scene.calls[at] = "config" => configs'[at] = scene.periods[at]
  PROVE  /\ ReturnMeansSatisfied' /\ ConfigsIndependent'
         /\ at' \in 1..Len(scene.calls) + 1 /\ seen' = 0
         /\ outcome' \in {"running", "finished"} /\ (outcome' = "running" => at' <= Len(scene.calls))
<1>1. /\ scene \in Scenarios /\ at \in 1..Len(scene.calls) /\ DOMAIN configs = 1..Len(scene.calls)
      /\ Len(scene.calls) \in Nat
  BY SceneFacts DEF ChildInv, ChildTypeOK
<1>2. at' = at + 1 /\ seen' = 0 /\ outcome' = IF at = Len(scene.calls) THEN "finished" ELSE "running"
  BY Zenon DEF Returns
<1>3. /\ at' \in 1..Len(scene.calls) + 1 /\ outcome' \in {"running", "finished"}
      /\ outcome' = "running" => at' <= Len(scene.calls)
  BY <1>1, <1>2
<1>4. \A i \in 1..at' - 1 : i = at \/ (i \in 1..at - 1 /\ i # at /\ i \in DOMAIN configs)
  BY <1>1, <1>2
<1>5. ReturnMeansSatisfied'
  <2>1. \A i : Satisfied(i) => Satisfied(i)'
    BY SatisfiedStays, Zenon DEF ChildInv
  <2> QED
    BY <1>4, <2>1, Zenon DEF ChildInv, ReturnMeansSatisfied
<1>6. ConfigsIndependent'
  <2>1. ASSUME NEW i \in 1..at' - 1, scene.calls[i] = "config"
        PROVE  configs'[i] = scene.periods[i]
    <3>1. CASE i = at
      BY <2>1, <3>1, Zenon
    <3>2. CASE i \in 1..at - 1 /\ i # at /\ i \in DOMAIN configs
      <4>1. configs'[i] = configs[i] /\ configs[i] = scene.periods[i]
        BY <2>1, <3>2, Zenon DEF ChildInv, ConfigsIndependent
      <4> QED
        BY <4>1, Zenon
    <3> QED
      BY <1>4, <3>1, <3>2, Zenon
  <2> QED
    BY <2>1, Zenon DEF ConfigsIndependent
<1> QED
  BY <1>2, <1>3, <1>5, <1>6, Zenon

\* The output, after a step that does not move it.
LEMMA OutputStays ==
  ASSUME OutputInOrder, UNCHANGED <<scene, written, pipe, ch, closed>>, seen' \in {0, seen}
  PROVE  OutputInOrder'
<1>1. PICK received \in 0..written : Forwarded(received)
  BY Zenon DEF OutputInOrder
<1>2. seen' = 1 => seen = 1
  OBVIOUS
<1>3. received \in 0..written' /\ Forwarded(received)'
  BY <1>1, <1>2, Zenon DEF Forwarded
<1> QED
  BY <1>3, Zenon DEF OutputInOrder

\* A step that moves neither output nor calls.
LEMMA ElsewhereKeeps ==
  ASSUME ChildInv, UNCHANGED <<scene, written, pipe, ch, closed, profiles, configs, at, seen, outcome>>,
         accepting => accepting', certFile = "new" => certFile' = "new"
  PROVE  ChildInv'
<1>1. ChildTypeOK'
  BY Zenon DEF ChildInv, ChildTypeOK
<1>2. OutputInOrder'
  BY OutputStays, Zenon DEF ChildInv
<1>3. ReturnMeansSatisfied' /\ ConfigsIndependent'
  BY NoReturn, Zenon
<1> QED
  BY <1>1, <1>2, <1>3, Zenon DEF ChildInv

LEMMA ChildWritesKeeps ==
  ASSUME ChildInv, ChildWrites
  PROVE  ChildInv'
<1>1. /\ scene \in Scenarios /\ written \in 0..Len(scene.lines) /\ written < Len(scene.lines)
      /\ pipe \in Seq(STRING) /\ Len(pipe) <= PipeSize /\ ch \in Seq(STRING) /\ closed \in BOOLEAN
      /\ PipeSize \in Nat /\ scene.lines \in Seq(STRING) /\ Len(scene.lines) \in Nat
  BY SceneFacts, Zenon DEF ChildInv, ChildTypeOK, ChildWrites
<1>2. scene.lines[written + 1] \in STRING /\ written' = written + 1 /\ written' \in 0..Len(scene.lines)
  BY <1>1 DEF ChildWrites
<1>3. PICK received \in 0..written : Forwarded(received)
  BY Zenon DEF ChildInv, OutputInOrder
<1>4. received \in 0..written' /\ received + Len(ch) <= written'
  BY <1>1, <1>2, <1>3 DEF Forwarded
<1>5. CASE closed
  <2>1. pipe' = pipe /\ closed' /\ UNCHANGED <<scene, ch, seen>>
    BY <1>5, Zenon DEF ChildWrites
  <2>2. Forwarded(received)'
    BY <1>3, <1>4, <2>1, Zenon DEF Forwarded
  <2>3. ChildTypeOK'
    BY <1>2, <2>1, Zenon DEF ChildInv, ChildTypeOK, ChildWrites
  <2> QED
    BY <1>4, <2>2, <2>3, NoReturn, Zenon DEF ChildInv, OutputInOrder, ChildWrites
<1>6. CASE ~ closed
  <2>1. /\ pipe' = Append(pipe, scene.lines[written + 1]) /\ Len(pipe) < PipeSize /\ ~ closed'
        /\ UNCHANGED <<scene, ch, seen>>
    BY <1>6, Zenon DEF ChildWrites
  <2>2. pipe' \in Seq(STRING) /\ Len(pipe') = Len(pipe) + 1 /\ Len(pipe') <= PipeSize
    BY <1>1, <1>2, <2>1
  <2>3. received + Len(ch) + Len(pipe) = written
    BY <1>3, <1>6, Zenon DEF Forwarded
  <2>4. received + Len(ch) + Len(pipe') = written'
    BY <1>1, <1>2, <2>2, <2>3
  <2>5. ASSUME NEW i \in DOMAIN pipe'
        PROVE  pipe'[i] = scene.lines[received + Len(ch) + i]
    <3>1. CASE i \in DOMAIN pipe
      <4>1. pipe'[i] = pipe[i]
        BY <1>1, <1>2, <2>1, <3>1
      <4> QED
        BY <1>3, <1>6, <3>1, <4>1, Zenon DEF Forwarded
    <3>2. CASE i = Len(pipe) + 1
      <4>1. pipe'[i] = scene.lines[written + 1] /\ received + Len(ch) + i = written + 1
        BY <1>1, <1>2, <2>1, <2>3, <3>2
      <4> QED
        BY <4>1, Zenon
    <3>3. i \in DOMAIN pipe \/ i = Len(pipe) + 1
      BY <1>1, <2>2
    <3> QED
      BY <3>1, <3>2, <3>3, Zenon
  <2>6. Forwarded(received)'
    BY <1>3, <1>4, <2>1, <2>4, <2>5, Zenon DEF Forwarded
  <2>7. ChildTypeOK'
    BY <1>2, <2>1, <2>2, Zenon DEF ChildInv, ChildTypeOK, ChildWrites
  <2> QED
    BY <1>4, <2>6, <2>7, NoReturn, Zenon DEF ChildInv, OutputInOrder, ChildWrites
<1> QED
  BY <1>5, <1>6, Zenon

LEMMA FilterSendsKeeps ==
  ASSUME ChildInv, FilterSends
  PROVE  ChildInv'
<1>1. /\ scene \in Scenarios /\ written \in Nat /\ scene.cap \in Nat /\ PipeSize \in Nat
      /\ pipe \in Seq(STRING) /\ pipe # <<>> /\ Len(pipe) <= PipeSize
      /\ ch \in Seq(STRING) /\ Len(ch) < scene.cap
  BY SceneFacts DEF ChildInv, ChildTypeOK, FilterSends
<1>2. pipe' = Tail(pipe) /\ ch' = Append(ch, Head(pipe)) /\ UNCHANGED <<scene, written, closed, seen>> /\ ~ closed
  BY Zenon DEF FilterSends
<1>3. /\ pipe' \in Seq(STRING) /\ Len(pipe') = Len(pipe) - 1 /\ Len(pipe') <= PipeSize
      /\ \A i \in DOMAIN pipe' : pipe'[i] = pipe[i + 1] /\ i + 1 \in DOMAIN pipe
      /\ 1 \in DOMAIN pipe /\ Head(pipe) = pipe[1]
  BY <1>1, <1>2
<1>4. /\ ch' \in Seq(STRING) /\ Len(ch') = Len(ch) + 1 /\ Len(ch') <= scene.cap
      /\ \A i \in DOMAIN ch : ch'[i] = ch[i]
      /\ \A i \in DOMAIN ch' : i \in DOMAIN ch \/ (i = Len(ch) + 1 /\ ch'[i] = Head(pipe))
  BY <1>1, <1>2, <1>3
<1>5. PICK received \in 0..written : Forwarded(received)
  BY Zenon DEF ChildInv, OutputInOrder
<1>6. /\ received + Len(ch) + Len(pipe) = written
      /\ \A i \in DOMAIN ch : ch[i] = scene.lines[received + i]
      /\ \A i \in DOMAIN pipe : pipe[i] = scene.lines[received + Len(ch) + i]
  BY <1>2, <1>5, Zenon DEF Forwarded
<1>7. received + Len(ch') <= written' /\ received + Len(ch') + Len(pipe') = written'
  <2>1. received \in Nat /\ Len(ch) \in Nat /\ Len(pipe) \in Nat /\ Len(pipe') \in Nat
    BY <1>1, <1>3
  <2>2. Len(pipe') = Len(pipe) - 1 /\ Len(ch') = Len(ch) + 1 /\ written' = written
    BY <1>2, <1>3, <1>4, Zenon
  <2>3. received + Len(ch) + Len(pipe) = written
    BY <1>6, Zenon
  <2> QED
    BY <2>1, <2>2, <2>3
<1>8. \A i \in DOMAIN ch' : ch'[i] = scene.lines[received + i]
  <2>1. ASSUME NEW i \in DOMAIN ch'
        PROVE  ch'[i] = scene.lines[received + i]
    <3>1. CASE i \in DOMAIN ch
      BY <1>4, <1>6, <3>1, Zenon
    <3>2. CASE i = Len(ch) + 1 /\ ch'[i] = Head(pipe)
      <4>1. received + Len(ch) + 1 = received + i
        BY <1>1, <3>2
      <4>2. pipe[1] = scene.lines[received + Len(ch) + 1]
        BY <1>3, <1>6, Zenon
      <4> QED
        BY <1>3, <3>2, <4>1, <4>2, Zenon
    <3> QED
      BY <1>4, <3>1, <3>2, Zenon
  <2> QED
    BY <2>1, Zenon
<1>9. \A i \in DOMAIN pipe' : pipe'[i] = scene.lines[received + Len(ch') + i]
  <2>1. ASSUME NEW i \in DOMAIN pipe'
        PROVE  pipe'[i] = scene.lines[received + Len(ch') + i]
    <3>1. received + Len(ch) + (i + 1) = received + Len(ch') + i
      BY <1>1, <1>3, <1>4
    <3>2. pipe'[i] = scene.lines[received + Len(ch) + (i + 1)]
      BY <1>3, <1>6, Zenon
    <3> QED
      BY <3>1, <3>2, Zenon
  <2> QED
    BY <2>1, Zenon
<1>10. Forwarded(received)'
  BY <1>2, <1>5, <1>7, <1>8, <1>9, Zenon DEF Forwarded
<1>11. ChildTypeOK'
  BY <1>3, <1>4, Zenon DEF ChildInv, ChildTypeOK, FilterSends
<1> QED
  BY <1>2, <1>5, <1>10, <1>11, NoReturn, Zenon DEF ChildInv, OutputInOrder, FilterSends

\* A receive takes the first line of the channel, which the child has written.
LEMMA ReceiveMoves ==
  ASSUME ChildInv, NEW call, Receives(call)
  PROVE  /\ ch' \in Seq(STRING) /\ Len(ch') <= scene.cap
         /\ \A line : line = Head(ch) => Printed(line)'
         /\ Head(ch) \in {"acme", "mgmt"} /\ seen = 1 => Printed("acme") /\ Printed("mgmt")
         /\ \/ seen' \in {0, seen}
            \/ seen' = 1 /\ Head(ch) \in {"acme", "mgmt"}
            => OutputInOrder'
<1>1. /\ scene \in Scenarios /\ written \in 0..Len(scene.lines) /\ scene.cap \in Nat /\ pipe \in Seq(STRING)
      /\ ch \in Seq(STRING) /\ ch # <<>> /\ Len(ch) <= scene.cap
      /\ scene.lines \in Seq(STRING) /\ Len(scene.lines) \in Nat /\ DOMAIN scene.lines = 1..Len(scene.lines)
      /\ \A i, j \in DOMAIN scene.lines :
           scene.lines[i] = scene.lines[j] /\ scene.lines[i] \in {"acme", "mgmt"} => i = j
  BY SceneFacts, Zenon DEF ChildInv, ChildTypeOK, Receives
<1>2. ch' = Tail(ch) /\ UNCHANGED <<scene, written, pipe, closed>>
  BY Zenon DEF Receives
<1>3. /\ ch' \in Seq(STRING) /\ Len(ch') = Len(ch) - 1 /\ Len(ch') <= scene.cap
      /\ \A i \in DOMAIN ch' : ch'[i] = ch[i + 1] /\ i + 1 \in DOMAIN ch
      /\ 1 \in DOMAIN ch /\ Head(ch) = ch[1] /\ Len(ch) \in Nat \ {0}
  BY <1>1, <1>2
<1>4. PICK received \in 0..written : Forwarded(received)
  BY Zenon DEF ChildInv, OutputInOrder
<1>5. received + 1 \in 1..written /\ Head(ch) = scene.lines[received + 1]
  <2>1. received + Len(ch) <= written /\ ch[1] = scene.lines[received + 1]
    BY <1>3, <1>4, Zenon DEF Forwarded
  <2>2. written \in Nat /\ received \in Nat /\ Len(ch) \in Nat \ {0}
    BY <1>1, <1>3
  <2>3. received + 1 \in 1..written
    BY <2>1, <2>2
  <2> QED
    BY <1>3, <2>1, <2>3, Zenon
<1>6. \A line : line = Head(ch) => Printed(line)'
  BY <1>2, <1>5, Zenon DEF Printed
<1>7. ASSUME Head(ch) \in {"acme", "mgmt"}, seen = 1
      PROVE  Printed("acme") /\ Printed("mgmt")
  <2>1. PICK j \in 1..received : scene.lines[j] \in {"acme", "mgmt"}
    BY <1>4, <1>7, Zenon DEF Forwarded
  <2>2. j \in 1..written /\ j # received + 1 /\ j \in DOMAIN scene.lines /\ received + 1 \in DOMAIN scene.lines
    BY <1>1, <1>5, <2>1
  <2>3. scene.lines[j] # scene.lines[received + 1]
    BY <1>1, <2>1, <2>2, Zenon
  <2> QED
    BY <1>5, <1>7, <2>1, <2>2, <2>3, Zenon DEF Printed
<1>8. ASSUME \/ seen' \in {0, seen}
             \/ seen' = 1 /\ Head(ch) \in {"acme", "mgmt"}
      PROVE  OutputInOrder'
  <2>1. /\ received + 1 \in 0..written' /\ (received + 1) + Len(ch') <= written'
        /\ ~ closed' => (received + 1) + Len(ch') + Len(pipe') = written'
    <3>1. /\ written \in Nat /\ received \in Nat /\ Len(ch) \in Nat \ {0} /\ Len(pipe) \in Nat
          /\ Len(ch') = Len(ch) - 1
      BY <1>1, <1>3
    <3>2. UNCHANGED <<written, closed, pipe>>
      BY <1>2, Zenon
    <3>3. received + Len(ch) <= written /\ (~ closed => received + Len(ch) + Len(pipe) = written)
      BY <1>4, Zenon DEF Forwarded
    <3>4. /\ received + 1 \in 0..written /\ (received + 1) + Len(ch') <= written
          /\ ~ closed => (received + 1) + Len(ch') + Len(pipe) = written
      BY <3>1, <3>3
    <3> QED
      BY <3>2, <3>4, Zenon
  <2>2. ASSUME NEW i \in DOMAIN ch'
        PROVE  ch'[i] = scene.lines[(received + 1) + i]
    <3>1. ch'[i] = scene.lines[received + (i + 1)]
      BY <1>3, <1>4, Zenon DEF Forwarded
    <3>2. i \in Nat /\ received \in Nat
      BY <1>3, <1>4
    <3>3. received + (i + 1) = (received + 1) + i
      BY <3>2
    <3> QED
      BY <3>1, <3>3, Zenon
  <2>3. ASSUME ~ closed, NEW i \in DOMAIN pipe
        PROVE  pipe[i] = scene.lines[(received + 1) + Len(ch') + i]
    <3>1. pipe[i] = scene.lines[received + Len(ch) + i]
      BY <1>4, <2>3, Zenon DEF Forwarded
    <3>2. received + Len(ch) + i = (received + 1) + Len(ch') + i
      BY <1>1, <1>3, <1>4
    <3> QED
      BY <3>1, <3>2, Zenon
  <2>4. ASSUME seen' = 1
        PROVE  \E j \in 1..received + 1 : scene.lines[j] \in {"acme", "mgmt"}
    <3>1. received + 1 \in 1..received + 1 /\ 1..received \subseteq 1..received + 1
      BY <1>4
    <3>2. seen = 1 \/ Head(ch) \in {"acme", "mgmt"}
      BY <1>8, <2>4
    <3> QED
      BY <1>4, <1>5, <3>1, <3>2, Zenon DEF Forwarded
  <2>5. Forwarded(received + 1)'
    BY <1>2, <2>1, <2>2, <2>3, <2>4, Zenon DEF Forwarded
  <2> QED
    BY <2>1, <2>5, Zenon DEF OutputInOrder
<1> QED
  BY <1>3, <1>6, <1>7, <1>8, Zenon

\* A call that leaves the output alone and returns, and any call that fails.
LEMMA CallReturns ==
  ASSUME ChildInv, outcome = "running", Returns, scene.calls[at] # "config",
         UNCHANGED <<scene, written, pipe, ch, closed, accepting, certFile, profiles, configs>>,
         \A i : i = at => Satisfied(i)'
  PROVE  ChildInv'
<1>1. /\ ReturnMeansSatisfied' /\ ConfigsIndependent'
      /\ at' \in 1..Len(scene.calls) + 1 /\ seen' = 0
      /\ outcome' \in {"running", "finished"} /\ (outcome' = "running" => at' <= Len(scene.calls))
  <2>1. \A i \in DOMAIN configs : i # at => configs'[i] = configs[i]
    BY Zenon
  <2> QED
    BY <2>1, OneReturns, Zenon
<1>2. OutputInOrder'
  BY <1>1, OutputStays, Zenon DEF ChildInv
<1>3. seen' \in 0..1
  BY <1>1
<1>4. ChildTypeOK'
  BY <1>1, <1>3, Zenon DEF ChildInv, ChildTypeOK
<1> QED
  BY <1>1, <1>2, <1>4, Zenon DEF ChildInv

LEMMA CallFails ==
  ASSUME ChildInv, Fails, UNCHANGED <<scene, written, pipe, ch, closed, accepting, certFile, profiles, configs>>
  PROVE  ChildInv'
<1>1. OutputInOrder' /\ ReturnMeansSatisfied' /\ ConfigsIndependent'
  BY OutputStays, NoReturn, Zenon DEF ChildInv, Fails
<1>2. ChildTypeOK'
  BY Zenon DEF ChildInv, ChildTypeOK, Fails
<1> QED
  BY <1>1, <1>2, Zenon DEF ChildInv

\* A call that receives a line, and returns or does not.
LEMMA ReceiveReturns ==
  ASSUME ChildInv, NEW call, Receives(call), Returns, call # "config", \A i : i = at => Satisfied(i)'
  PROVE  ChildInv'
<1>1. outcome = "running" /\ scene.calls[at] # "config"
  BY Zenon DEF Receives, Calling
<1>2. /\ ReturnMeansSatisfied' /\ ConfigsIndependent'
      /\ at' \in 1..Len(scene.calls) + 1 /\ seen' = 0
      /\ outcome' \in {"running", "finished"} /\ (outcome' = "running" => at' <= Len(scene.calls))
  <2>1. /\ \A i \in DOMAIN configs : i # at => configs'[i] = configs[i]
        /\ UNCHANGED <<scene, written, accepting, certFile>>
    BY Zenon DEF Receives
  <2> QED
    BY <1>1, <2>1, OneReturns, Zenon
<1>3. ch' \in Seq(STRING) /\ Len(ch') <= scene.cap /\ OutputInOrder'
  BY <1>2, ReceiveMoves, Zenon
<1>4. seen' \in 0..1
  BY <1>2
<1>5. ChildTypeOK'
  BY <1>2, <1>3, <1>4, Zenon DEF ChildInv, ChildTypeOK, Receives
<1> QED
  BY <1>2, <1>3, <1>5, Zenon DEF ChildInv

LEMMA ReceiveGoesOn ==
  ASSUME ChildInv, NEW call, Receives(call), UNCHANGED at, outcome' \in {outcome, "failed"},
         seen' = seen \/ (seen' = 1 /\ Head(ch) \in {"acme", "mgmt"})
  PROVE  ChildInv'
<1>1. ch' \in Seq(STRING) /\ Len(ch') <= scene.cap /\ OutputInOrder'
  BY ReceiveMoves, Zenon
<1>2. ReturnMeansSatisfied' /\ ConfigsIndependent'
  BY NoReturn, Zenon DEF Receives
<1>3. seen' \in 0..1
  BY DEF ChildInv, ChildTypeOK
<1>4. outcome' \in {"running", "finished", "failed"} /\ (outcome' = "running" => outcome = "running")
  BY Zenon DEF ChildInv, ChildTypeOK
<1>5. ChildTypeOK'
  BY <1>1, <1>3, <1>4, Zenon DEF ChildInv, ChildTypeOK, Receives
<1> QED
  BY <1>1, <1>2, <1>5, Zenon DEF ChildInv

LEMMA WaitForReadyKeeps ==
  ASSUME ChildInv, WaitForReady
  PROVE  ChildInv'
<1>1. Receives("ready") /\ scene' = scene /\ scene.calls[at] = "ready" /\ UNCHANGED written
  BY Zenon DEF WaitForReady, Receives, Calling
<1>2. seen \in 0..1
  BY Zenon DEF ChildInv, ChildTypeOK
<1>3. CASE Head(ch) \in {"acme", "mgmt"} /\ seen = 1
  <2>1. Printed("acme") /\ Printed("mgmt")
    BY <1>1, <1>3, ReceiveMoves, Zenon
  <2>2. Printed("acme")' /\ Printed("mgmt")'
    BY <1>1, <2>1, Zenon DEF Printed
  <2>3. \A i : i = at => Satisfied(i)'
    BY <1>1, <2>2, Zenon DEF Satisfied
  <2>4. Returns
    <3>1. seen + 1 = 2
      BY <1>3
    <3> QED
      BY <1>3, <3>1, Zenon DEF WaitForReady
  <2> QED
    BY <1>1, <2>3, <2>4, ReceiveReturns, Zenon
<1>4. CASE Head(ch) \in {"acme", "mgmt"} /\ seen = 0
  <2>1. seen + 1 # 2 /\ seen + 1 = 1
    BY <1>4
  <2>2. seen' = 1 /\ UNCHANGED <<at, outcome>>
    BY <1>4, <2>1, Zenon DEF WaitForReady
  <2> QED
    BY <1>1, <1>4, <2>2, ReceiveGoesOn, Zenon
<1>5. CASE Head(ch) \notin {"acme", "mgmt"}
  <2>1. seen # 2
    BY <1>2
  <2>2. seen' = seen /\ UNCHANGED <<at, outcome>>
    BY <1>5, <2>1, Zenon DEF WaitForReady
  <2> QED
    BY <1>1, <2>2, ReceiveGoesOn, Zenon
<1>6. seen = 0 \/ seen = 1
  BY <1>2
<1> QED
  BY <1>3, <1>4, <1>5, <1>6, Zenon

LEMMA WaitForReKeeps ==
  ASSUME ChildInv, WaitForRe
  PROVE  ChildInv'
<1>1. PICK call \in {"authorized", "issued"} :
        Receives(call) /\ IF Head(ch) = call THEN Returns ELSE Continues
  BY Zenon DEF WaitForRe
<1>2. scene' = scene /\ scene.calls[at] = call /\ call # "config"
  BY <1>1, Zenon DEF Receives, Calling
<1>3. CASE Head(ch) = call
  <2>1. Printed(call)'
    BY <1>1, <1>3, ReceiveMoves, Zenon
  <2>2. \A i : i = at => Satisfied(i)'
    <3>1. call # "ready"
      BY <1>1, Zenon
    <3> QED
      BY <1>1, <1>2, <2>1, <3>1, Zenon DEF Satisfied
  <2> QED
    BY <1>1, <1>2, <1>3, <2>2, ReceiveReturns, Zenon
<1>4. CASE Head(ch) # call
  BY <1>1, <1>4, ReceiveGoesOn, Zenon DEF Continues, driver
<1> QED
  BY <1>3, <1>4, Zenon

\* What a line says to StartAndWaitForURL.
LEMMA ExtractCases ==
  ASSUME NEW line
  PROVE  /\ Extract(line) \in {"url", "error", "none"}
         /\ Extract(line) = "url" => line = "url"
         /\ Extract(line) = "error" => line = "badurl"
<1>1. CASE line = "url"
  BY <1>1, Zenon DEF Extract
<1>2. CASE line = "badurl"
  BY <1>2, Zenon DEF Extract
<1>3. CASE line # "url" /\ line # "badurl"
  <2>1. Extract(line) = "none"
    BY <1>3, Zenon DEF Extract
  <2> QED
    BY <2>1, Zenon
<1> QED
  BY <1>1, <1>2, <1>3, Zenon

\* Its three outcomes.
LEMMA URLCases ==
  ASSUME StartAndWaitForURL
  PROVE  /\ Receives("url")
         /\ \/ Continues
            \/ Fails /\ Head(ch) = "badurl"
            \/ Returns /\ Head(ch) = "url"
<1>1. CASE Extract(Head(ch)) = "none"
  BY <1>1, Zenon DEF StartAndWaitForURL
<1>2. CASE Extract(Head(ch)) = "error"
  <2>1. Extract(Head(ch)) # "none"
    BY <1>2, Zenon
  <2> QED
    BY <1>2, <2>1, ExtractCases, Zenon DEF StartAndWaitForURL
<1>3. CASE Extract(Head(ch)) = "url"
  <2>1. Extract(Head(ch)) # "none" /\ Extract(Head(ch)) # "error"
    BY <1>3, Zenon
  <2> QED
    BY <1>3, <2>1, ExtractCases, Zenon DEF StartAndWaitForURL
<1> QED
  BY <1>1, <1>2, <1>3, ExtractCases, Zenon

LEMMA StartAndWaitForURLKeeps ==
  ASSUME ChildInv, StartAndWaitForURL
  PROVE  ChildInv'
<1>1. Receives("url") /\ scene' = scene /\ scene.calls[at] = "url"
  BY URLCases, Zenon DEF Receives, Calling
<1>2. CASE Continues
  BY <1>1, <1>2, ReceiveGoesOn, Zenon DEF Continues, driver
<1>3. CASE Fails
  BY <1>1, <1>3, ReceiveGoesOn, Zenon DEF Fails
<1>4. CASE Returns /\ Head(ch) = "url"
  <2>1. Printed("url")'
    BY <1>1, <1>4, ReceiveMoves, Zenon
  <2>2. \A i : i = at => Satisfied(i)'
    BY <1>1, <2>1, Zenon DEF Satisfied
  <2> QED
    BY <1>1, <1>4, <2>2, ReceiveReturns, Zenon
<1> QED
  BY <1>2, <1>3, <1>4, URLCases, Zenon

\* NewConfig: the period of the shared defaults is never changed.
LEMMA ConfigKeeps ==
  ASSUME ChildInv, CreateCertsAndUpdateConfig
  PROVE  ChildInv'
<1>1. /\ outcome = "running" /\ scene.calls[at] = "config"
      /\ UNCHANGED <<scene, child, written, pipe, ch, closed, accepting, certFile, profiles, waitOver>>
  BY Zenon DEF CreateCertsAndUpdateConfig, Calling, output
<1>2. CASE Returns /\ configs' = [configs EXCEPT ![at] = IF scene.periods[at] = 0 THEN profiles ELSE scene.periods[at]]
  <2>1. at \in DOMAIN configs /\ profiles = 0
    BY <1>1, SceneFacts DEF ChildInv, ChildTypeOK
  <2>2. configs'[at] = scene.periods[at]
    BY <1>2, <2>1, Zenon
  <2>3. DOMAIN configs' = DOMAIN configs /\ \A i \in DOMAIN configs : i # at => configs'[i] = configs[i]
    BY <1>2, Zenon
  <2>4. \A i : i = at => Satisfied(i)'
    BY <1>1, Zenon DEF Satisfied
  <2>5. /\ ReturnMeansSatisfied' /\ ConfigsIndependent'
        /\ at' \in 1..Len(scene.calls) + 1 /\ seen' = 0
        /\ outcome' \in {"running", "finished"} /\ (outcome' = "running" => at' <= Len(scene.calls))
    BY <1>1, <1>2, <2>2, <2>3, <2>4, OneReturns, Zenon
  <2>6. OutputInOrder'
    BY <1>1, <2>5, OutputStays, Zenon DEF ChildInv
  <2>7. seen' \in 0..1
    BY <2>5
  <2>8. ChildTypeOK'
    BY <1>1, <2>3, <2>5, <2>7, Zenon DEF ChildInv, ChildTypeOK
  <2> QED
    BY <2>5, <2>6, <2>8, Zenon DEF ChildInv
<1>3. CASE UNCHANGED configs /\ Fails
  BY <1>1, <1>3, CallFails, Zenon
<1> QED
  BY <1>2, <1>3, Zenon DEF CreateCertsAndUpdateConfig

\* The other calls.
LEMMA OtherCallsKeep ==
  ASSUME ChildInv, StartChild \/ WaitForConnection \/ WaitForNewCert \/ WaitTimesOut \/ EnsureStopped
  PROVE  ChildInv'
<1>1. /\ outcome = "running"
      /\ UNCHANGED <<scene, written, pipe, ch, closed, accepting, certFile, profiles, configs>>
  BY Zenon DEF StartChild, WaitForConnection, WaitForNewCert, WaitTimesOut, EnsureStopped, Calling, output
<1>2. CASE Fails
  BY <1>1, <1>2, CallFails, Zenon
<1>3. ASSUME NEW call \in {"start", "stop"}, Calling(call), Returns
      PROVE  ChildInv'
  <2>1. \A i : i = at => Satisfied(i)'
    BY <1>1, <1>3, Zenon DEF Satisfied, Calling
  <2> QED
    BY <1>1, <1>3, <2>1, CallReturns, Zenon DEF Calling
<1>4. CASE WaitForConnection
  <2>1. \A i : i = at => Satisfied(i)'
    <3>1. accepting /\ accepting' = accepting /\ scene' = scene /\ scene.calls[at] = "connect"
      BY <1>1, <1>4, Zenon DEF WaitForConnection, Calling
    <3>2. accepting'
      BY <3>1, Zenon
    <3> QED
      BY <3>1, <3>2, Zenon DEF Satisfied
  <2> QED
    BY <1>1, <1>4, <2>1, CallReturns, Zenon DEF WaitForConnection, Calling
<1>5. CASE WaitForNewCert /\ certFile = "new"
  <2>1. \A i : i = at => Satisfied(i)'
    BY <1>1, <1>5, Zenon DEF WaitForNewCert, Satisfied, Calling
  <2> QED
    BY <1>1, <1>5, <2>1, CallReturns, Zenon DEF WaitForNewCert, Calling
<1> QED
  BY <1>2, <1>3, <1>4, <1>5, Zenon DEF StartChild, WaitForNewCert, WaitTimesOut, EnsureStopped

\* Close throws the pipe away; what is in the channel stays.
LEMMA CloseKeeps ==
  ASSUME ChildInv, Close
  PROVE  ChildInv'
<1>1. /\ outcome = "running" /\ scene.calls[at] = "close" /\ Returns /\ closed' = TRUE /\ pipe' = <<>>
      /\ UNCHANGED <<scene, written, ch, accepting, certFile, profiles, configs>>
  BY Zenon DEF Close, Calling
<1>2. \A i : i = at => Satisfied(i)'
  BY <1>1, Zenon DEF Satisfied
<1>3. /\ ReturnMeansSatisfied' /\ ConfigsIndependent'
      /\ at' \in 1..Len(scene.calls) + 1 /\ seen' = 0
      /\ outcome' \in {"running", "finished"} /\ (outcome' = "running" => at' <= Len(scene.calls))
  <2>1. \A i \in DOMAIN configs : i # at => configs'[i] = configs[i]
    BY <1>1, Zenon
  <2>2. scene.calls[at] = "config" => configs'[at] = scene.periods[at]
    BY <1>1, Zenon
  <2> QED
    BY <1>1, <1>2, <2>1, <2>2, OneReturns, Zenon
<1>4. seen' \in 0..1 /\ seen' # 1
  BY <1>3
<1>5. <<>> \in Seq(STRING) /\ Len(<<>>) <= PipeSize
  BY ChildAssumption
<1>6. ChildTypeOK'
  BY <1>1, <1>3, <1>4, <1>5, Zenon DEF ChildInv, ChildTypeOK
<1>7. PICK received \in 0..written : Forwarded(received)
  BY Zenon DEF ChildInv, OutputInOrder
<1>8. Forwarded(received)'
  BY <1>1, <1>4, <1>7, Zenon DEF Forwarded
<1> QED
  BY <1>1, <1>3, <1>6, <1>7, <1>8, Zenon DEF ChildInv, OutputInOrder

LEMMA ChildStep == ChildInv /\ [ChildNext]_childVars => ChildInv'
<1> SUFFICES ASSUME ChildInv, [ChildNext]_childVars
             PROVE  ChildInv'
  BY Zenon
<1>1. CASE DriverStep
  BY <1>1, ConfigKeeps, WaitForReadyKeeps, WaitForReKeeps, StartAndWaitForURLKeeps, OtherCallsKeep, CloseKeeps,
     Zenon DEF DriverStep
<1>2. CASE Listens
  BY <1>2, ElsewhereKeeps, Zenon DEF Listens
<1>3. CASE CertFileChanges
  BY <1>3, ElsewhereKeeps, Zenon DEF CertFileChanges
<1>4. CASE EndWait
  BY <1>4, ElsewhereKeeps, Zenon DEF EndWait
<1>5. CASE UNCHANGED childVars
  BY <1>5, ElsewhereKeeps, Zenon DEF childVars
<1> QED
  BY <1>1, <1>2, <1>3, <1>4, <1>5, ChildWritesKeeps, FilterSendsKeeps, Zenon DEF ChildNext, OutputStep

\* A step that fails a call has one of the four causes.
LEMMA FailsForACause ==
  ASSUME [ChildNext]_childVars, outcome = "running", outcome' = "failed"
  PROVE  \/ scene.calls[at] \in {"config", "start"}
         \/ waitOver
         \/ scene.calls[at] = "url" /\ Head(ch) = "badurl"
         \/ scene.calls[at] = "newcert" /\ certFile = "partial"
<1>1. ~ Returns /\ outcome' # outcome
  BY Zenon DEF Returns
<1>2. ~ Continues /\ ~ (seen' = seen /\ UNCHANGED <<at, outcome>>)
  BY <1>1, Zenon DEF Continues, driver
<1>3. ~ OutputStep /\ ~ CertFileChanges /\ ~ EndWait /\ ~ UNCHANGED childVars
  BY <1>1, Zenon DEF OutputStep, ChildWrites, Listens, FilterSends, CertFileChanges, EndWait, childVars
<1>4. DriverStep
  BY <1>3, Zenon DEF ChildNext
<1>5. ~ WaitForReady /\ ~ WaitForRe /\ ~ WaitForConnection /\ ~ EnsureStopped /\ ~ Close
  BY <1>1, <1>2, Zenon DEF WaitForReady, WaitForRe, WaitForConnection, EnsureStopped, Close
<1>6. CASE CreateCertsAndUpdateConfig \/ StartChild \/ WaitTimesOut
  BY <1>6, Zenon DEF CreateCertsAndUpdateConfig, StartChild, WaitTimesOut, Calling
<1>7. CASE StartAndWaitForURL
  BY <1>1, <1>2, <1>7, URLCases, Zenon DEF Receives, Calling
<1>8. CASE WaitForNewCert
  BY <1>1, <1>8, Zenon DEF WaitForNewCert, Calling
<1> QED
  BY <1>4, <1>5, <1>6, <1>7, <1>8, Zenon DEF DriverStep

\* For any output, calls and capacities: the lines of a child reach its driver in order
\* and none is lost; a wait returns only when what it waits for has come, WaitForReady
\* when both servers are there; the configurations written do not influence each
\* other; and a call fails only for a cause of its own.
THEOREM CallsAreSound == ChildSpec => CallsSound
<1>1. ChildSpec => []ChildInv
  BY ChildStart, ChildStep, PTL DEF ChildSpec
<1>2. ChildSpec => FailureHasCause
  <2>1. [ChildNext]_childVars =>
          [outcome = "running" /\ outcome' = "failed" =>
             \/ scene.calls[at] \in {"config", "start"}
             \/ waitOver
             \/ scene.calls[at] = "url" /\ Head(ch) = "badurl"
             \/ scene.calls[at] = "newcert" /\ certFile = "partial"]_childVars
    BY FailsForACause, Zenon
  <2> QED
    BY <2>1, PTL DEF ChildSpec, FailureHasCause
<1> QED
  BY <1>1, <1>2, PTL DEF CallsSound, ChildInv
=============================================================================
