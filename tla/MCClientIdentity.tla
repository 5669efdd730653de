-------------------------- MODULE MCClientIdentity --------------------------
(***************************************************************************)
(* Interchangeable calls and keys.                                         *)
(***************************************************************************)
EXTENDS ClientIdentity, TLC

Symmetry == Permutations(Caller) \cup Permutations(Secret)

=============================================================================
