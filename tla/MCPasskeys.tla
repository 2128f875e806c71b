---------------------------- MODULE MCPasskeys -----------------------------
(***************************************************************************)
(* Instances of Passkeys for TLC.                                          *)
(***************************************************************************)
EXTENDS Passkeys, TLC

Symmetric == Permutations(Clients)
=============================================================================
