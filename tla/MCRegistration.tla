--------------------------- MODULE MCRegistration ---------------------------
(* Registration on a small server.                                         *)
EXTENDS Registration, TLC

CONSTANTS p1, t1, t2, t3, t4, t5, t6, s1, s2

Alike == Permutations({t1, t2, t3, t4, t5, t6}) \cup Permutations({s1, s2})
=============================================================================
