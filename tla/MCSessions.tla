----------------------------- MODULE MCSessions -----------------------------
(* Small instances of Sessions for TLC. *)
EXTENDS Sessions, TLC

\* Requests are interchangeable.
RequestSymmetry == Permutations(Requests)
=============================================================================
