----------------------------- MODULE MCListings -----------------------------
(* Small instances of Listings for TLC. *)
EXTENDS Listings, TLC

\* One slot that is sold at once, or two that are sold together or one by one.
MCUnits == 1..2

\* No action and no property tells one image or one request from another.
Symmetry == Permutations(Images) \cup Permutations(Admins)
=============================================================================
