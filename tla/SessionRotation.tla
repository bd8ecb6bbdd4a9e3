-------------------------- MODULE SessionRotation --------------------------
(***************************************************************************)
(* The sessions of a user and their tokens (internal/auth/session.go and   *)
(* SignIn, RefreshToken, SignOut, RevokeAccountAccess of the service).  A  *)
(* grant is the pair of an access and a refresh token; the row of a session*)
(* holds the hashes of one grant.  A refresh and a sign-out are statements *)
(* of their own, between which others come.                                *)
(***************************************************************************)
EXTENDS Integers, FiniteSets

CONSTANTS
    Clients,        \* requests being served
    MaxGrants,      \* bound of the model: grants issued
    MaxBroken       \* bound of the model: statements that fail

ASSUME RotationAssumption == MaxGrants \in Nat /\ MaxBroken \in Nat

Grants == 1..MaxGrants
NoGrant == 0

VARIABLES
    session,    \* auth.sessions: the grant of each session, named by its first one
    lapsed,     \* sessions past expires_at
    parent,     \* the grant each grant was refreshed from, if any
    issued,     \* grants handed out
    blacklist,  \* auth.token_blacklist
    serving,    \* what each request does, for which grant and session
    signedOut,  \* history: grants with which a sign-out reported success
    broken      \* statements that failed

sessionVars == <<session, lapsed, parent, issued, blacklist, serving, signedOut, broken>>

Unserved == [op |-> "idle", grant |-> NoGrant, session |-> NoGrant]

RotationInit ==
    /\ session = [s \in Grants |-> NoGrant]
    /\ lapsed = {}
    /\ parent = [g \in Grants |-> NoGrant]
    /\ issued = {}
    /\ blacklist = {}
    /\ serving = [c \in Clients |-> Unserved]
    /\ signedOut = {}
    /\ broken = 0

Breaks == broken < MaxBroken /\ broken' = broken + 1
NextGrant == Cardinality(issued) + 1
Done(c) == serving' = [serving EXCEPT ![c] = Unserved]

\* GenerateTokenPair and SessionRepository.Create, at the end of SignUp and SignIn.
CreateSession ==
    /\ NextGrant \in Grants
    /\ session' = [session EXCEPT ![NextGrant] = NextGrant]
    /\ issued' = issued \union {NextGrant}
    /\ UNCHANGED <<lapsed, parent, blacklist, serving, signedOut, broken>>

\* GetByRefreshToken, and by access token: the row that holds the grant.
Holds(s, g) == g # NoGrant /\ session[s] = g

\* RefreshToken up to UpdateTokens: a session that has not expired is found.
GetByRefreshToken(c, g) ==
    /\ serving[c] = Unserved
    /\ g \in issued
    /\ \E s \in Grants \ lapsed :
         /\ Holds(s, g)
         /\ serving' = [serving EXCEPT ![c] =
                          [op |-> "refresh", grant |-> g, session |-> s]]
    /\ UNCHANGED <<session, lapsed, parent, issued, blacklist, signedOut, broken>>

\* Mutant of Matches: the row is found by its id only.
MatchesId(s, g) == session[s] # NoGrant

\* WHERE id = $1 AND refresh_token_hash = $2.
Matches(s, g) == session[s] = g

\* UpdateTokens: the new grant is handed out when the row still matches; else
\* the answer is that the token was rotated.
UpdateTokens(c) ==
    LET s == serving[c].session
    IN  /\ serving[c].op = "refresh"
        /\ IF Matches(s, serving[c].grant)
           THEN /\ NextGrant \in Grants
                /\ session' = [session EXCEPT ![s] = NextGrant]
                /\ lapsed' = lapsed \ {s}
                /\ parent' = [parent EXCEPT ![NextGrant] = serving[c].grant]
                /\ issued' = issued \union {NextGrant}
           ELSE UNCHANGED <<session, lapsed, parent, issued>>
        /\ Done(c)
        /\ UNCHANGED <<blacklist, signedOut, broken>>

UpdateTokensFails(c) ==
    /\ serving[c].op = "refresh"
    /\ Breaks
    /\ Done(c)
    /\ UNCHANGED <<session, lapsed, parent, issued, blacklist, signedOut>>

\* Mutant of SignOut: a failure to blacklist the token ends the call.
SignOutAborts(c, g) ==
    /\ serving[c] = Unserved /\ g \in issued
    /\ \/ /\ blacklist' = blacklist \union {g} /\ UNCHANGED <<broken, signedOut>>
          /\ serving' = [serving EXCEPT ![c] = [Unserved EXCEPT !.op = "signout", !.grant = g]]
       \/ Breaks /\ signedOut' = signedOut \union {g} /\ UNCHANGED <<blacklist, serving>>
    /\ UNCHANGED <<session, lapsed, parent, issued>>

\* SignOut: the access token is blacklisted, or the failure is logged.
SignOut(c, g) ==
    /\ serving[c] = Unserved /\ g \in issued
    /\ \/ blacklist' = blacklist \union {g} /\ UNCHANGED broken
       \/ Breaks /\ UNCHANGED blacklist
    /\ serving' = [serving EXCEPT ![c] = [Unserved EXCEPT !.op = "signout", !.grant = g]]
    /\ UNCHANGED <<session, lapsed, parent, issued, signedOut>>

\* GetByAccessToken: a token that no session holds is taken for signed out, one
\* whose session has expired is an error.
FindSession(c) ==
    LET g == serving[c].grant
        S == {s \in Grants : Holds(s, g)}
    IN  /\ serving[c].op = "signout"
        /\ \/ /\ \E s \in S \ lapsed :
                   serving' = [serving EXCEPT ![c].op = "delete", ![c].session = s]
              /\ UNCHANGED <<signedOut, broken>>
           \/ S = {} /\ Done(c) /\ signedOut' = signedOut \union {g} /\ UNCHANGED broken
           \/ S \intersect lapsed # {} /\ Done(c) /\ UNCHANGED <<signedOut, broken>>
           \/ Breaks /\ Done(c) /\ UNCHANGED signedOut
        /\ UNCHANGED <<session, lapsed, parent, issued, blacklist>>

\* Delete by id, whatever grant the row holds by now; no row is an error.
DeleteSession(c) ==
    LET s == serving[c].session
    IN  /\ serving[c].op = "delete"
        /\ \/ /\ session[s] # NoGrant
              /\ session' = [session EXCEPT ![s] = NoGrant]
              /\ signedOut' = signedOut \union {serving[c].grant, session[s]}
              /\ UNCHANGED broken
           \/ session[s] = NoGrant /\ UNCHANGED <<session, signedOut, broken>>
           \/ Breaks /\ UNCHANGED <<session, signedOut>>
        /\ Done(c)
        /\ UNCHANGED <<lapsed, parent, issued, blacklist>>

\* RevokeSession of the administrator, for one session, RevokeUserSessions and
\* the end of RevokeAccountAccess, for all of them.
DeleteSessions(S) ==
    /\ \E s \in S : session[s] # NoGrant
    /\ session' = [s \in Grants |-> IF s \in S THEN NoGrant ELSE session[s]]
    /\ UNCHANGED <<lapsed, parent, issued, blacklist, serving, signedOut, broken>>

\* expires_at is reached.
SessionLapses(s) ==
    /\ session[s] # NoGrant /\ s \notin lapsed
    /\ lapsed' = lapsed \union {s}
    /\ UNCHANGED <<session, parent, issued, blacklist, serving, signedOut, broken>>

RotationNext ==
    \/ CreateSession
    \/ \E c \in Clients, g \in Grants : GetByRefreshToken(c, g) \/ SignOut(c, g)
    \/ \E c \in Clients : \/ UpdateTokens(c) \/ UpdateTokensFails(c)
                          \/ FindSession(c) \/ DeleteSession(c)
    \/ \E s \in Grants : DeleteSessions({s}) \/ SessionLapses(s)
    \/ DeleteSessions(Grants)

RotationSpec == RotationInit /\ [][RotationNext]_sessionVars

(***************************************************************************)
(* Properties.                                                             *)
(***************************************************************************)
RotationTypeOK ==
    /\ session \in [Grants -> Grants \union {NoGrant}]
    /\ lapsed \subseteq Grants
    /\ parent \in [Grants -> Grants \union {NoGrant}]
    /\ issued \subseteq Grants /\ blacklist \subseteq issued
    /\ serving \in [Clients -> [op : {"idle", "refresh", "signout", "delete"},
                                grant : Grants \union {NoGrant},
                                session : Grants \union {NoGrant}]]
    /\ signedOut \subseteq Grants
    /\ broken \in 0..MaxBroken

\* Of the refreshes that race with one refresh token, one wins, and a session
\* keeps the tokens of the winner: no refresh token is redeemed twice, and the
\* one that a session holds was never redeemed.
RedeemedOnce ==
    /\ \A g, h \in Grants : parent[g] = parent[h] /\ parent[g] # NoGrant => g = h
    /\ \A s, g \in Grants : session[s] # NoGrant => parent[g] # session[s]

\* A sign-out that reported success ended the session of its token, in any
\* order of its statements with those of a refresh: no session holds the token.
\* (One that a refresh gave another token before SignOut looked goes on.)
SignOutEnds == \A s \in Grants : session[s] \notin signedOut

\* The sessions keep the promise of TokenGrants: the grants that sessions hold are the
\* live ones.  A grant is redeemed at most once and only while it is live, whatever
\* refreshes, sign-outs and revocations meet between its lookup and the update.
Promise == INSTANCE TokenGrants WITH live <- {session[s] : s \in Grants} \ {NoGrant}
RefinesGrants == Promise!Spec
=============================================================================
