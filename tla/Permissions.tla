---------------------------- MODULE Permissions ----------------------------
(***************************************************************************)
(* Permissions (webauth/permissions): what is granted and what is required *)
(* are patterns, sequences of components some of which are wildcards.      *)
(***************************************************************************)
EXTENDS Naturals, Sequences

CONSTANTS
  Patterns,       \* the patterns granted and required
  Components,     \* the components of requests, one of them in no pattern
  MaxComponents   \* DefaultMaxComponentsAllowed

Star == "*"
Blank == ""

\* A text split at separators has a component, and components may be of any form.
ASSUME PatternsAssumption ==
  /\ MaxComponents \in Nat
  /\ Patterns \subseteq Seq(Components \union {Star}) \ {<<>>}
  /\ \E x \in Components \ {Star, Blank} : \A p \in Patterns : \A i \in DOMAIN p : p[i] # x

VARIABLE decided   \* what was granted, what is required, by whom, and the answer

PermissionsInit == decided = <<>>

Empty(p) == p = <<Blank>>
StarEnd(p) == Len(p) > 1 /\ p[Len(p)] = Star

Fits(r, q) == \A i \in DOMAIN r : r[i] = Star \/ r[i] = q[i]

\* Mutant: a lone * is a trailing wildcard as well.
AllowedStar(r, q) ==
  /\ ~ Empty(r) /\ ~ Empty(q)
  /\ Len(r) <= MaxComponents /\ Len(q) <= MaxComponents
  /\ IF r[Len(r)] = Star THEN Len(r) <= Len(q) ELSE Len(r) = Len(q)
  /\ Fits(r, q)

\* Allowed(request, requirement, sep) on the components of both.
Allowed(r, q) ==
  /\ ~ Empty(r) /\ ~ Empty(q)
  /\ Len(r) <= MaxComponents /\ Len(q) <= MaxComponents
  /\ \/ r = q
     \/ StarEnd(r) /\ Len(q) >= Len(r) /\ \A i \in 1..Len(r) - 1 : r[i] = q[i]
     \/ /\ IF StarEnd(r) THEN Len(r) <= Len(q) ELSE Len(r) = Len(q)
        /\ Fits(r, q)

Valid(s) == s.role # Blank /\ s.method # Blank /\ ~ Empty(s.resource) /\ ~ Empty(s.action)

Satisfies(set, s) ==
  /\ Valid(s)
  /\ \E p \in set : /\ p.role = s.role /\ p.method = s.method
                    /\ Allowed(p.action, s.action) /\ Allowed(p.resource, s.resource)

Grant(action, resource) == [role |-> "user", method |-> "GET", action |-> action, resource |-> resource]

\* What was granted, and what is required.
CheckPermission(r, q, role) ==
  LET granted == {Grant(r, r), [Grant(<<Star>>, <<Star>>) EXCEPT !.method = "PUT"]}
      required == [Grant(q, q) EXCEPT !.role = role]
  IN decided = <<>> /\ decided' = <<r, q, role, Satisfies(granted, required)>>

PermissionsNext ==
  \E r, q \in Patterns, role \in {"user", "other", Blank} : CheckPermission(r, q, role)

PermissionsSpec == PermissionsInit /\ [][PermissionsNext]_decided
-----------------------------------------------------------------------------
\* The requests a pattern stands for: a trailing wildcard is one or more components,
\* any other exactly one.
Matches(p, c) ==
  /\ IF StarEnd(p) THEN Len(c) >= Len(p) ELSE Len(c) = Len(p)
  /\ \A i \in DOMAIN p : p[i] \in {Star, c[i]}
Requests == (UNION {[1..n -> Components] : n \in 1..MaxComponents}) \ {<<Blank>>}

\* A granted pattern allows a required one exactly when every request the required
\* one stands for is one the granted one stands for, and neither is empty or too
\* long (Allowed and Satisfies, whose shortcuts are not in this definition).
AllowedIsInclusion ==
  decided # <<>> =>
    LET r == decided[1]
        q == decided[2]
    IN decided[4] <=> /\ decided[3] = "user" /\ ~ Empty(r) /\ ~ Empty(q)
                      /\ Len(r) <= MaxComponents /\ Len(q) <= MaxComponents
                      /\ \A c \in Requests : Matches(q, c) => Matches(r, c)
=============================================================================
