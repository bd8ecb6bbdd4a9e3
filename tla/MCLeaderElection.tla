-------------------------- MODULE MCLeaderElection --------------------------
(* Small instances of LeaderElection for TLC. *)
EXTENDS LeaderElection, TLC

CONSTANTS i1, i2, i3, s1, s2, s3

\* Sessions are interchangeable; the instances are not, because the runs treat
\* them differently.
Symmetry == Permutations(Sessions)
=============================================================================
