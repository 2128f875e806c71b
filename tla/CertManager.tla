---------------------------- MODULE CertManager ----------------------------
(***************************************************************************)
(* The ACME certificate manager (webauth/acme/mgr_config.go): its choice   *)
(* of service, its host policy and the type of certificate it gives, and   *)
(* what the clients of the library offer it (client.go, certcache).        *)
(***************************************************************************)
EXTENDS Naturals

CONSTANTS Hellos   \* what clients may offer

VARIABLE answer    \* what a manager that was asked answered

NoAnswer == [made |-> "none"]

ManagerInit == answer = NoAnswer

NoProvider == ""

DirectoryURL(provider) ==
  IF provider = "letsencrypt" THEN "production"
  ELSE IF provider \in {"letsencrypt-staging", NoProvider} THEN "staging" ELSE provider

\* NewAutocertManager makes the same choice again, and refuses what is no URL.
ManagerURL(provider) ==
  CASE provider = "letsencrypt" -> "production"
    [] provider \in {"letsencrypt-staging", NoProvider} -> "staging"
    [] provider = "bad" -> "refused"
    [] OTHER -> provider

\* A field of a hello that is absent is a set with no set in it.
EcdsaSchemes == {"ecdsa-sha1", "ecdsa-p256", "ecdsa-p384", "ecdsa-p521"}
EcdsaSuites == {"ecdsa-aes256", "ecdsa-chacha", "ecdsa-aes128"}
SupportsECDSA(h) ==
  /\ \A s \in h.schemes : s \cap EcdsaSchemes # {}
  /\ \A c \in h.curves : "P256" \in c
  /\ h.suites \cap EcdsaSuites # {}

\* A client whose minimum version is TLS 1.3 offers the fixed suites of TLS 1.3 only;
\* the rest of its hello is that of crypto/tls.
PreferredCipherSuites == EcdsaSuites \union {"rsa-aes256", "rsa-chacha", "rsa-aes128"}
PreferredSignatureSchemes == {"ecdsa-p256", "ecdsa-p384", "ecdsa-p521"}
ClientHello(min, suites, host) ==
  [schemes |-> {{"pss", "ecdsa-p256", "ed25519"}}, curves |-> {{"X25519", "P256"}},
   suites |-> IF min = 13 THEN {"tls13"} ELSE suites \union {"tls13"}, host |-> host]

\* Mutant: the minimum version of the client is TLS 1.3.
NewHTTPClient13(host) == ClientHello(13, PreferredCipherSuites, host)
NewHTTPClient(host) == ClientHello(12, PreferredCipherSuites, host)
RefreshCertificate(host) ==
  [schemes |-> {PreferredSignatureSchemes}, curves |-> {}, suites |-> PreferredCipherSuites, host |-> host]

\* The hosts of the manager, and WrapHostPolicyNoPort around them when challenges
\* arrive at a port other than 80, as they then name the port.
HostPolicy(httpPort, host, withPort) == host = "managed" /\ (withPort => httpPort # 80)

\* The autocert manager itself, and GetCertificateECDSAOnly around it.
Issue(httpPort, h) ==
  IF ~ HostPolicy(httpPort, h.host, FALSE) THEN "host" ELSE IF SupportsECDSA(h) THEN "ecdsa" ELSE "rsa"
GetCertificateECDSAOnly(httpPort, h) == IF ~ SupportsECDSA(h) THEN "noecdsa" ELSE Issue(httpPort, h)

\* A manager is made and asked for a certificate, by a client that connects or by a
\* refresh, which goes to the autocert manager directly.
AskManager(provider, allowRSA, httpPort, h, from) ==
  LET hello == CASE from = "client" -> NewHTTPClient(h.host)
                 [] from = "refresh" -> RefreshCertificate(h.host)
                 [] OTHER -> h
  IN /\ answer = NoAnswer
     /\ answer' =
          IF ManagerURL(provider) = "refused" THEN [made |-> "refused"]
          ELSE [made |-> "decided", from |-> from, host |-> h.host, rsa |-> allowRSA,
                issued |-> IF allowRSA \/ from = "refresh" THEN Issue(httpPort, hello)
                           ELSE GetCertificateECDSAOnly(httpPort, hello),
                challenge |-> HostPolicy(httpPort, h.host, httpPort # 80),
                revokeAt |-> DirectoryURL(provider), issuedBy |-> ManagerURL(provider)]

Providers == {"letsencrypt", "letsencrypt-staging", NoProvider, "url", "bad"}

ManagerNext ==
  \E p \in Providers, rsa \in BOOLEAN, port \in {80, 5002}, h \in Hellos, from \in {"client", "refresh", "other"} :
    AskManager(p, rsa, port, h, from)

ManagerSpec == ManagerInit /\ [][ManagerNext]_answer
-----------------------------------------------------------------------------
\* A manager serves the HTTP client of the library and the refreshes, and answers the
\* challenges, for exactly the hosts it manages; what it gives them is an ECDSA
\* certificate, and unless RSA is allowed nobody is given another (NewHTTPClient and
\* RefreshCertificate against GetCertificateECDSAOnly and the host policy).
LibraryClientsServed ==
  answer.made = "decided" =>
    /\ answer.from # "other" => (answer.issued = "ecdsa" <=> answer.host = "managed")
    /\ answer.challenge <=> answer.host = "managed"
    /\ ~ answer.rsa => answer.issued # "rsa"

\* The service that certificates are revoked at is the one that issued them: the two
\* choices of it agree (DirectoryURL and NewAutocertManager).
SameService == answer.made = "decided" => answer.revokeAt = answer.issuedBy

\* The choices the manager makes at different times agree with each other and with the
\* clients of the library.
ManagerServes == LibraryClientsServed /\ SameService
=============================================================================
