----------------------------- MODULE TokenGrants -----------------------------
(***************************************************************************)
(* What the sessions promise to the holder of a token: a grant (a pair of  *)
(* an access and a refresh token) is live from the moment it is handed out *)
(* until it is redeemed for its successor or ended, and never again; and   *)
(* whoever is told that a token is signed out may rely on it.              *)
(***************************************************************************)
EXTENDS Naturals

CONSTANT Grants

VARIABLES
    issued,     \* grants handed out
    live,       \* grants that can be redeemed
    parent,     \* the grant that each was redeemed from; 0 for a sign-in
    signedOut   \* grants that somebody was told to be signed out
vars == <<issued, live, parent, signedOut>>

Init ==
    /\ issued = {} /\ live = {} /\ signedOut = {}
    /\ parent = [g \in Grants |-> 0]

SignIn(g) ==
    /\ g \notin issued
    /\ issued' = issued \union {g} /\ live' = live \union {g}
    /\ UNCHANGED <<parent, signedOut>>

\* A live grant is exchanged for a new one, in one step.
Redeem(g, h) ==
    /\ g \in live /\ h \notin issued
    /\ issued' = issued \union {h}
    /\ live' = (live \ {g}) \union {h}
    /\ parent' = [parent EXCEPT ![h] = g]
    /\ UNCHANGED signedOut

\* Some grants end, and somebody is told so of grants that are no longer live.
End(E, T) ==
    /\ live' = live \ E
    /\ T \subseteq issued \ live'
    /\ signedOut' = signedOut \union T
    /\ UNCHANGED <<issued, parent>>

Next ==
    \/ \E g \in Grants : SignIn(g)
    \/ \E g, h \in Grants : Redeem(g, h)
    \/ \E E, T \in SUBSET Grants : End(E, T)

Spec == Init /\ [][Next]_vars

\* What the holder of a token gets from it: a grant has one successor at most, and one
\* that has a successor, or of which somebody was told that it is signed out, is not live.
Kept ==
    /\ signedOut \intersect live = {}
    /\ \A g \in Grants : parent[g] # 0 => parent[g] \notin live
    /\ \A g, h \in Grants : parent[g] = parent[h] /\ parent[g] # 0 => g = h
=============================================================================
