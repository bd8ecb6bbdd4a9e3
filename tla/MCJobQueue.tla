----------------------------- MODULE MCJobQueue -----------------------------
(* Small instances of JobQueue for TLC. *)
EXTENDS JobQueue, TLC

CONSTANTS j1, j2, w1, w2, w3, a, b

\* Two instances with one worker each.
OnePerInstance == w1 :> a @@ w2 :> b

\* Two workers on one instance, one on the other.
TwoAndOne == w1 :> a @@ w2 :> a @@ w3 :> b

\* One instance with two workers.
TwoOnOne == w1 :> a @@ w2 :> a
=============================================================================
