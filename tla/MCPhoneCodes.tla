---------------------------- MODULE MCPhoneCodes ----------------------------
(* Small instances of PhoneCodes for TLC. *)
EXTENDS PhoneCodes, TLC

\* Requests are interchangeable.
RequestSymmetry == Permutations(Requests)

\* Every code is good for ten minutes: those created later do not expire earlier.
InOrder == \A c, d \in Ids : d < c /\ code[d].fresh /\ code[c].status # "none" => code[c].fresh

\* Bound: codes of one hour with a save that was lost, or with two requests at once.
OneContested == Cardinality(contested) <= 1
=============================================================================
