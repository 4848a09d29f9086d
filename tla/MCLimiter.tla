------------------------------ MODULE MCLimiter ------------------------------
(* Small instances of Limiter for TLC. *)
EXTENDS Limiter, TLC

\* Requests are interchangeable, and so are addresses.
Symmetry == Permutations(Requests) \cup Permutations(Entries)
=============================================================================
