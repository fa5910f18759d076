---------------------------- MODULE MCOwnerReads ----------------------------
(* Small instances of OwnerReads for TLC. *)
EXTENDS OwnerReads

\* Absent, not a number, too small, the sizes that are allowed, too large.
AllRawSizes == {None, Text} \cup 0..(MaxPageSize + 1)

OwnerSymmetry == Permutations(Owners) \cup Permutations(Zips)
=============================================================================
