--------------------------- MODULE OneTimeTicket ---------------------------
(***************************************************************************)
(* What a session manager promises (webauth/webauthn/passkeys/session.go): *)
(* a ticket is issued once, stays valid for as long as nobody has          *)
(* presented it, and is granted to one holder.                             *)
(***************************************************************************)
EXTENDS Naturals

CONSTANTS
  Tickets,   \* the tickets that may be issued
  Holders    \* those who may present one

VARIABLES
  valid,     \* the tickets issued and not yet presented
  holder     \* holder[t]: those to whom t was granted

Init ==
  /\ valid = {}
  /\ holder = [t \in Tickets |-> {}]

Issue(t) ==
  /\ t \notin valid
  /\ holder[t] = {}
  /\ valid' = valid \cup {t}
  /\ UNCHANGED holder

Grant(t, h) ==
  /\ t \in valid
  /\ holder[t] = {}
  /\ valid' = valid \ {t}
  /\ holder' = [holder EXCEPT ![t] = {h}]

Next == \E t \in Tickets : Issue(t) \/ \E h \in Holders : Grant(t, h)

Spec == Init /\ [][Next]_<<valid, holder>>
=============================================================================
