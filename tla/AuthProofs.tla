----------------------------- MODULE AuthProofs -----------------------------
(***************************************************************************)
(* Proofs about the sign-in state, for any number of requests and          *)
(* instances: sessions and their refresh tokens, the lockout after wrong   *)
(* passwords, and the revocation of all tokens of a user.                  *)
(***************************************************************************)
EXTENDS SessionRotation, LoginLockout, TokenRevocation, FiniteSetTheorems, TLAPS

(***************************************************************************)
(* SessionRotation: refresh tokens are redeemed once, and a sign-out that  *)
(* reported success has ended the session of its token.                    *)
(***************************************************************************)

\* What the compare and swap of UpdateTokens relies on: grants are handed out in order,
\* a session holds a grant that was handed out, and no two sessions the same one.
InOrder == \E n \in 0..MaxGrants : issued = 1..n
OfIssued ==
    /\ \A s \in Grants : session[s] # NoGrant => session[s] \in issued /\ s \in issued
    /\ \A g \in Grants : parent[g] # NoGrant => g \in issued /\ parent[g] \in issued
    /\ \A c \in Clients : serving[c].op # "idle" => serving[c].grant \in issued
    /\ \A c \in Clients : serving[c].op \in {"refresh", "delete"} => serving[c].session \in Grants
    /\ signedOut \subseteq issued
OneHolder == \A s, t \in Grants : session[s] = session[t] /\ session[s] # NoGrant => s = t

\* What Delete by id relies on: once FindSession has found the session of a grant, no
\* other session comes to hold the grant.
FoundAlone ==
    \A c \in Clients : serving[c].op = "delete" =>
      \A s \in Grants : session[s] = serving[c].grant => s = serving[c].session

RotationInv == RotationTypeOK /\ InOrder /\ OfIssued /\ OneHolder /\ FoundAlone
        /\ RedeemedOnce /\ SignOutEnds

\* The grant that is handed out next is new.
LEMMA NextIsNew ==
  ASSUME InOrder
  PROVE  /\ NextGrant \in Nat \ {0} /\ NextGrant \notin issued
         /\ NextGrant \in Grants => \E n \in 0..MaxGrants : issued \union {NextGrant} = 1..n
<1>1. PICK n \in 0..MaxGrants : issued = 1..n
  BY DEF InOrder
<1>2. n \in Nat /\ MaxGrants \in Nat
  BY RotationAssumption, SMT
<1>3. Cardinality(issued) = n
  BY <1>1, <1>2, FS_Interval, SMT
<1>4. NextGrant = n + 1
  BY <1>3 DEF NextGrant
<1>5. issued \union {n + 1} = 1..(n + 1)
  BY <1>1, <1>2, SMT
<1> QED BY <1>1, <1>2, <1>4, <1>5, SMT DEF Grants

\* Initially there is no session.
LEMMA RotationStarts == RotationInit => RotationInv
<1> SUFFICES ASSUME RotationInit PROVE RotationInv
  OBVIOUS
<1>1. RotationTypeOK
  BY RotationAssumption DEF RotationInit, RotationTypeOK, Unserved, Grants, NoGrant
<1>2. InOrder
  <2>1. 0 \in 0..MaxGrants /\ 1..0 = {}
    BY RotationAssumption, SMT
  <2> QED BY <2>1 DEF RotationInit, InOrder
<1>3. OfIssued /\ OneHolder /\ FoundAlone
  BY DEF RotationInit, OfIssued, OneHolder, FoundAlone, Unserved
<1>4. RedeemedOnce /\ SignOutEnds
  BY DEF RotationInit, RedeemedOnce, SignOutEnds
<1> QED BY <1>1, <1>2, <1>3, <1>4 DEF RotationInv

\* A sign-in creates a session with a new grant.
LEMMA CreateKeeps == ASSUME RotationInv, CreateSession PROVE RotationInv'
<1> DEFINE n == NextGrant
<1>1. /\ n \in Grants /\ n \notin issued /\ n # NoGrant
      /\ \E k \in 0..MaxGrants : issued \union {n} = 1..k
  BY NextIsNew DEF RotationInv, CreateSession, NoGrant
<1> HIDE DEF n
<1>2. /\ session' = [session EXCEPT ![n] = n] /\ issued' = issued \union {n}
      /\ UNCHANGED <<lapsed, parent, blacklist, serving, signedOut, broken>>
  BY DEF CreateSession, n
<1>3. RotationTypeOK'
  BY <1>1, <1>2 DEF RotationInv, RotationTypeOK
<1>4. InOrder'
  BY <1>1, <1>2 DEF InOrder
<1>5. OfIssued'
  BY <1>1, <1>2 DEF RotationInv, RotationTypeOK, OfIssued
<1>6. OneHolder'
  BY <1>1, <1>2 DEF RotationInv, RotationTypeOK, OfIssued, OneHolder
<1>7. FoundAlone'
  BY <1>1, <1>2 DEF RotationInv, RotationTypeOK, OfIssued, FoundAlone
<1>8. RedeemedOnce'
  BY <1>1, <1>2 DEF RotationInv, RotationTypeOK, OfIssued, RedeemedOnce
<1>9. SignOutEnds'
  BY <1>1, <1>2 DEF RotationInv, RotationTypeOK, OfIssued, SignOutEnds
<1> QED BY <1>3, <1>4, <1>5, <1>6, <1>7, <1>8, <1>9 DEF RotationInv

\* The compare and swap: the row still holds the grant that is redeemed, which therefore
\* was not redeemed before.
LEMMA UpdateKeeps == ASSUME RotationInv, NEW c \in Clients, UpdateTokens(c) PROVE RotationInv'
<1> DEFINE n == NextGrant
           s == serving[c].session
           g == serving[c].grant
<1>0. s \in Grants /\ g \in issued /\ g # NoGrant /\ g \in Grants
  BY DEF RotationInv, RotationTypeOK, OfIssued, UpdateTokens, Grants, NoGrant
<1>1. n \notin issued /\ n # NoGrant
  BY NextIsNew DEF RotationInv, NoGrant
<1>2. serving' = [serving EXCEPT ![c] = Unserved] /\ UNCHANGED <<blacklist, signedOut, broken>>
  BY DEF UpdateTokens, Done
<1>3. CASE session[s] = g
  <2>1. /\ n \in Grants
        /\ session' = [session EXCEPT ![s] = n] /\ lapsed' = lapsed \ {s}
        /\ parent' = [parent EXCEPT ![n] = g] /\ issued' = issued \union {n}
    BY <1>3 DEF UpdateTokens, Matches
  <2>2. \E k \in 0..MaxGrants : issued \union {n} = 1..k
    BY <2>1, NextIsNew DEF RotationInv
  <2> HIDE DEF n, s, g
  <2>3. RotationTypeOK'
    BY <1>0, <1>2, <2>1 DEF RotationInv, RotationTypeOK, Unserved, NoGrant
  <2>4. InOrder'
    BY <2>1, <2>2 DEF InOrder
  <2>5. OfIssued'
    <3>1. s \in issued
      BY <1>0, <1>3 DEF RotationInv, OfIssued, s, g
    <3> QED BY <3>1, <1>0, <1>1, <1>2, <2>1 DEF RotationInv, RotationTypeOK, OfIssued, Unserved
  <2>6. OneHolder'
    BY <1>0, <1>1, <1>2, <2>1 DEF RotationInv, RotationTypeOK, OfIssued, OneHolder
  <2>7. FoundAlone'
    BY <1>0, <1>1, <1>2, <2>1 DEF RotationInv, RotationTypeOK, OfIssued, FoundAlone, Unserved
  <2>8. RedeemedOnce'
    <3>1. \A h \in Grants : parent[h] # g
      BY <1>0, <1>3 DEF RotationInv, RedeemedOnce, g, s
    <3>2. \A h \in Grants : parent[h] # n
      BY <1>1 DEF RotationInv, OfIssued
    <3>3. \A h, k \in Grants : parent'[h] = parent'[k] /\ parent'[h] # NoGrant => h = k
      BY <3>1, <1>0, <2>1 DEF RotationInv, RotationTypeOK, RedeemedOnce
    <3>4. \A t \in Grants : t # s /\ session[t] # NoGrant => session[t] # g
      BY <1>0, <1>3 DEF RotationInv, OneHolder, g, s
    <3>5. \A t, h \in Grants : session'[t] # NoGrant => parent'[h] # session'[t]
      BY <3>1, <3>2, <3>4, <1>0, <1>1, <2>1 DEF RotationInv, RotationTypeOK, RedeemedOnce
    <3> QED BY <3>3, <3>5 DEF RedeemedOnce
  <2>9. SignOutEnds'
    BY <1>0, <1>1, <1>2, <2>1 DEF RotationInv, RotationTypeOK, OfIssued, SignOutEnds
  <2> QED BY <2>3, <2>4, <2>5, <2>6, <2>7, <2>8, <2>9 DEF RotationInv
<1>4. CASE session[s] # g
  <2>1. UNCHANGED <<session, lapsed, parent, issued>>
    BY <1>4 DEF UpdateTokens, Matches
  <2> QED BY <1>2, <2>1 DEF RotationInv, RotationTypeOK, InOrder, OfIssued, OneHolder, FoundAlone,
             RedeemedOnce, SignOutEnds, Unserved, NoGrant
<1> QED BY <1>3, <1>4

\* A sign-out looks for the session of its grant.
LEMMA FindKeeps == ASSUME RotationInv, NEW c \in Clients, FindSession(c) PROVE RotationInv'
<1> DEFINE g == serving[c].grant
           S == {s \in Grants : Holds(s, g)}
<1>1. serving[c].op = "signout" /\ g \in issued /\ g \in Grants /\ g # NoGrant
      /\ UNCHANGED <<session, lapsed, parent, issued, blacklist>>
  BY DEF FindSession, RotationInv, OfIssued, RotationTypeOK, Grants, NoGrant
<1>2. signedOut' = signedOut \/ (S = {} /\ signedOut' = signedOut \union {g})
  BY DEF FindSession
<1>3. broken' \in 0..MaxBroken
  BY RotationAssumption DEF FindSession, Breaks, RotationInv, RotationTypeOK
<1>4. \/ \E s \in S : serving' = [serving EXCEPT ![c].op = "delete", ![c].session = s]
      \/ serving' = [serving EXCEPT ![c] = Unserved]
  BY DEF FindSession, Done
<1>5. S \subseteq Grants /\ (\A s \in Grants : session[s] = g => s \in S)
      /\ \A s \in S : session[s] = g
  BY <1>1 DEF Holds
<1> HIDE DEF g, S
<1>6. RotationTypeOK'
  BY <1>1, <1>2, <1>3, <1>4, <1>5 DEF RotationInv, RotationTypeOK, Unserved, NoGrant
<1>7. InOrder' /\ OneHolder' /\ RedeemedOnce'
  BY <1>1 DEF RotationInv, InOrder, OneHolder, RedeemedOnce
<1>8. OfIssued'
  BY <1>1, <1>2, <1>4, <1>5 DEF RotationInv, RotationTypeOK, OfIssued, Unserved
<1>9. FoundAlone'
  BY <1>1, <1>4, <1>5 DEF RotationInv, RotationTypeOK, FoundAlone, OneHolder, Unserved, g
<1>10. SignOutEnds'
  BY <1>1, <1>2, <1>5 DEF RotationInv, SignOutEnds
<1> QED BY <1>6, <1>7, <1>8, <1>9, <1>10 DEF RotationInv

\* A sign-out deletes the session, which may hold a later grant by now.
LEMMA DeleteKeeps == ASSUME RotationInv, NEW c \in Clients, DeleteSession(c) PROVE RotationInv'
<1> DEFINE s == serving[c].session
           g == serving[c].grant
<1>1. /\ s \in Grants /\ g \in issued /\ g # NoGrant
      /\ serving' = [serving EXCEPT ![c] = Unserved]
      /\ UNCHANGED <<lapsed, parent, issued, blacklist>>
      /\ \A t \in Grants : session[t] = g => t = s
  BY DEF DeleteSession, Done, RotationInv, OfIssued, FoundAlone, RotationTypeOK, Grants, NoGrant
<1>2. \/ /\ session[s] # NoGrant /\ session' = [session EXCEPT ![s] = NoGrant]
         /\ signedOut' = signedOut \union {g, session[s]}
      \/ UNCHANGED <<session, signedOut>>
  BY DEF DeleteSession
<1>3. broken' \in 0..MaxBroken
  BY RotationAssumption DEF DeleteSession, Breaks, RotationInv, RotationTypeOK
<1> HIDE DEF s, g
<1>4. RotationTypeOK'
  BY <1>1, <1>2, <1>3 DEF RotationInv, RotationTypeOK, OfIssued, Unserved, NoGrant
<1>5. InOrder'
  BY <1>1 DEF RotationInv, InOrder
<1>6. OfIssued'
  BY <1>1, <1>2 DEF RotationInv, RotationTypeOK, OfIssued, Unserved
<1>7. OneHolder' /\ RedeemedOnce'
  BY <1>1, <1>2 DEF RotationInv, RotationTypeOK, OneHolder, RedeemedOnce
<1>8. FoundAlone'
  <2> SUFFICES ASSUME NEW d \in Clients, serving'[d].op = "delete",
                      NEW t \in Grants, session'[t] = serving'[d].grant
               PROVE  t = serving'[d].session
    BY DEF FoundAlone
  <2>1. serving'[d] = serving[d]
    BY <1>1 DEF RotationInv, RotationTypeOK, Unserved
  <2>2. serving[d].grant # NoGrant
    BY <2>1 DEF RotationInv, OfIssued, RotationTypeOK, Grants, NoGrant
  <2>3. session[t] = serving[d].grant
    BY <1>1, <1>2, <2>1, <2>2 DEF RotationInv, RotationTypeOK
  <2> QED BY <2>1, <2>3 DEF RotationInv, FoundAlone
<1>9. SignOutEnds'
  <2>1. CASE UNCHANGED <<session, signedOut>>
    BY <2>1 DEF RotationInv, SignOutEnds
  <2>2. CASE /\ session[s] # NoGrant /\ session' = [session EXCEPT ![s] = NoGrant]
             /\ signedOut' = signedOut \union {g, session[s]}
    <3> SUFFICES ASSUME NEW t \in Grants PROVE session'[t] \notin signedOut'
      BY DEF SignOutEnds
    <3>1. NoGrant \notin signedOut
      BY DEF RotationInv, OfIssued, RotationTypeOK, Grants, NoGrant
    <3>2. CASE t = s
      BY <1>1, <2>2, <3>1, <3>2 DEF RotationInv, RotationTypeOK
    <3>3. CASE t # s
      <4>1. session'[t] = session[t] /\ session[t] # g /\ session[t] # session[s]
        BY <1>1, <2>2, <3>3 DEF RotationInv, RotationTypeOK, OneHolder
      <4> QED BY <4>1, <2>2 DEF RotationInv, SignOutEnds
    <3> QED BY <3>2, <3>3
  <2> QED BY <1>2, <2>1, <2>2
<1> QED BY <1>4, <1>5, <1>6, <1>7, <1>8, <1>9 DEF RotationInv

\* Sessions are deleted by others.
LEMMA DeleteAllKeeps == ASSUME RotationInv, NEW S \in SUBSET Grants, DeleteSessions(S) PROVE RotationInv'
<1>1. /\ session' = [s \in Grants |-> IF s \in S THEN NoGrant ELSE session[s]]
      /\ UNCHANGED <<lapsed, parent, issued, blacklist, serving, signedOut, broken>>
  BY DEF DeleteSessions
<1>2. RotationTypeOK' /\ InOrder' /\ OfIssued' /\ OneHolder' /\ RedeemedOnce'
  BY <1>1 DEF RotationInv, RotationTypeOK, InOrder, OfIssued, OneHolder, RedeemedOnce
<1>3. FoundAlone' /\ SignOutEnds'
  BY <1>1 DEF RotationInv, RotationTypeOK, FoundAlone, SignOutEnds, OfIssued, Grants, NoGrant
<1> QED BY <1>2, <1>3 DEF RotationInv

\* The steps that change neither sessions nor grants.
LEMMA OthersKeep ==
  ASSUME RotationInv, NEW c \in Clients, NEW g \in Grants,
         GetByRefreshToken(c, g) \/ SignOut(c, g) \/ UpdateTokensFails(c)
  PROVE  RotationInv'
<1>1. UNCHANGED <<session, lapsed, parent, issued, signedOut>>
  BY DEF GetByRefreshToken, SignOut, UpdateTokensFails
<1>2. InOrder' /\ OneHolder' /\ RedeemedOnce' /\ SignOutEnds'
  BY <1>1 DEF RotationInv, InOrder, OneHolder, RedeemedOnce, SignOutEnds
<1>3. CASE GetByRefreshToken(c, g)
  <2>1. PICK s \in Grants : serving' = [serving EXCEPT ![c] =
                               [op |-> "refresh", grant |-> g, session |-> s]]
    BY <1>3 DEF GetByRefreshToken
  <2>2. g \in issued /\ UNCHANGED <<blacklist, broken>>
    BY <1>3 DEF GetByRefreshToken
  <2>3. RotationTypeOK'
    BY <1>1, <2>1, <2>2 DEF RotationInv, RotationTypeOK
  <2>4. OfIssued' /\ FoundAlone'
    BY <1>1, <2>1, <2>2 DEF RotationInv, RotationTypeOK, OfIssued, FoundAlone
  <2> QED BY <1>2, <2>3, <2>4 DEF RotationInv
<1>4. CASE SignOut(c, g)
  <2> DEFINE u == [Unserved EXCEPT !.op = "signout", !.grant = g]
  <2>1. /\ serving' = [serving EXCEPT ![c] = u]
        /\ g \in issued /\ blacklist' \subseteq blacklist \union {g}
    BY <1>4 DEF SignOut
  <2>2. u.op = "signout" /\ u.grant = g
        /\ u \in [op : {"idle", "refresh", "signout", "delete"},
                  grant : Grants \union {NoGrant}, session : Grants \union {NoGrant}]
    BY DEF Unserved
  <2> HIDE DEF u
  <2>3. broken' \in 0..MaxBroken
    BY <1>4, RotationAssumption DEF SignOut, Breaks, RotationInv, RotationTypeOK
  <2>4. RotationTypeOK'
    BY <1>1, <2>1, <2>2, <2>3 DEF RotationInv, RotationTypeOK
  <2>5. OfIssued' /\ FoundAlone'
    BY <1>1, <2>1, <2>2 DEF RotationInv, RotationTypeOK, OfIssued, FoundAlone
  <2> QED BY <1>2, <2>4, <2>5 DEF RotationInv
<1>5. CASE UpdateTokensFails(c)
  <2>1. serving' = [serving EXCEPT ![c] = Unserved] /\ blacklist' = blacklist
    BY <1>5 DEF UpdateTokensFails, Done
  <2>2. broken' \in 0..MaxBroken
    BY <1>5, RotationAssumption DEF UpdateTokensFails, Breaks, RotationInv, RotationTypeOK
  <2>3. RotationTypeOK'
    BY <1>1, <2>1, <2>2 DEF RotationInv, RotationTypeOK, Unserved, NoGrant
  <2>4. OfIssued' /\ FoundAlone'
    BY <1>1, <2>1 DEF RotationInv, RotationTypeOK, OfIssued, FoundAlone, Unserved
  <2> QED BY <1>2, <2>3, <2>4 DEF RotationInv
<1> QED BY <1>3, <1>4, <1>5

\* Every step preserves the invariant.
LEMMA RotationSteps == RotationInv /\ [RotationNext]_sessionVars => RotationInv'
<1> SUFFICES ASSUME RotationInv, [RotationNext]_sessionVars PROVE RotationInv'
  OBVIOUS
<1>1. CASE CreateSession
  BY <1>1, CreateKeeps
<1>2. CASE \E c \in Clients, g \in Grants : GetByRefreshToken(c, g) \/ SignOut(c, g)
  BY <1>2, OthersKeep
<1>3. ASSUME NEW c \in Clients,
             UpdateTokens(c) \/ UpdateTokensFails(c) \/ FindSession(c) \/ DeleteSession(c)
      PROVE  RotationInv'
  <2>1. CASE UpdateTokensFails(c)
    <3>1. serving[c].grant \in Grants
      BY <2>1 DEF UpdateTokensFails, RotationInv, OfIssued, RotationTypeOK
    <3> QED BY <2>1, <3>1, OthersKeep
  <2> QED BY <1>3, <2>1, UpdateKeeps, FindKeeps, DeleteKeeps
<1>4. ASSUME NEW s \in Grants, SessionLapses(s) PROVE RotationInv'
  <2>1. UNCHANGED <<session, parent, issued, blacklist, serving, signedOut, broken>>
    BY <1>4 DEF SessionLapses
  <2>2. lapsed' \subseteq Grants
    BY <1>4 DEF SessionLapses, RotationInv, RotationTypeOK
  <2>3. RotationTypeOK' /\ InOrder' /\ OfIssued'
    BY <2>1, <2>2 DEF RotationInv, RotationTypeOK, InOrder, OfIssued
  <2>4. OneHolder' /\ FoundAlone' /\ RedeemedOnce' /\ SignOutEnds'
    BY <2>1 DEF RotationInv, OneHolder, FoundAlone, RedeemedOnce, SignOutEnds
  <2> QED BY <2>3, <2>4 DEF RotationInv
<1>5. CASE \E s \in Grants : DeleteSessions({s})
  BY <1>5, DeleteAllKeeps
<1>6. CASE DeleteSessions(Grants)
  BY <1>6, DeleteAllKeeps
<1>7. CASE UNCHANGED sessionVars
  <2>1. RotationTypeOK' /\ InOrder' /\ OfIssued'
    BY <1>7 DEF sessionVars, RotationInv, RotationTypeOK, InOrder, OfIssued
  <2>2. OneHolder' /\ FoundAlone' /\ RedeemedOnce' /\ SignOutEnds'
    BY <1>7 DEF sessionVars, RotationInv, OneHolder, FoundAlone, RedeemedOnce, SignOutEnds
  <2> QED BY <2>1, <2>2 DEF RotationInv
<1> QED BY <1>1, <1>2, <1>3, <1>4, <1>5, <1>6, <1>7 DEF RotationNext

\* The variables of the sessions keep their types.
THEOREM RotationTypeCorrect == RotationSpec => []RotationTypeOK
<1>1. RotationInv => RotationTypeOK
  BY DEF RotationInv
<1> QED BY <1>1, RotationStarts, RotationSteps, PTL DEF RotationSpec

\* However many refreshes race with one token, one of them wins it.
THEOREM TokensRedeemedOnce == RotationSpec => []RedeemedOnce
<1>1. RotationInv => RedeemedOnce
  BY DEF RotationInv
<1> QED BY <1>1, RotationStarts, RotationSteps, PTL DEF RotationSpec

\* A sign-out that reported success has ended the session of its token.
THEOREM SignOutIsFinal == RotationSpec => []SignOutEnds
<1>1. RotationInv => SignOutEnds
  BY DEF RotationInv
<1> QED BY <1>1, RotationStarts, RotationSteps, PTL DEF RotationSpec

\* A step hands out a first grant, redeems a live one, ends some, or leaves them alone.
Held == {session[s] : s \in Grants} \ {NoGrant}

LEMMA GrantHeld == ASSUME NEW g PROVE g \in Held <=> g # NoGrant /\ \E s \in Grants : session[s] = g
BY DEF Held

\* A sign-in adds a grant to the live ones.
LEMMA CreateSignsIn == ASSUME RotationInv, CreateSession PROVE Promise!SignIn(NextGrant)
<1> DEFINE n == NextGrant
<1>1. n \in Grants /\ n \notin issued /\ n # NoGrant
  BY NextIsNew DEF RotationInv, CreateSession, NoGrant
<1>2. /\ session' = [session EXCEPT ![n] = n] /\ issued' = issued \union {n}
      /\ UNCHANGED <<parent, signedOut>>
  BY DEF CreateSession
<1> HIDE DEF n
<1>3. session \in [Grants -> Grants \union {NoGrant}] /\ session[n] = NoGrant
  BY <1>1 DEF RotationInv, RotationTypeOK, OfIssued
<1>4. Held' = Held \union {n}
  BY <1>1, <1>2, <1>3 DEF Held
<1> QED BY <1>1, <1>2, <1>4 DEF Promise!SignIn, Held, n

\* A refresh whose row still matches redeems the grant of the row.
LEMMA UpdateRedeems ==
  ASSUME RotationInv, NEW c \in Clients, UpdateTokens(c)
  PROVE  \/ \E g, h \in Grants : Promise!Redeem(g, h)
         \/ UNCHANGED <<session, parent, issued, signedOut>>
<1> DEFINE n == NextGrant
           s == serving[c].session
           g == serving[c].grant
<1>1. s \in Grants /\ g \in issued /\ g # NoGrant /\ g \in Grants /\ signedOut' = signedOut
  BY DEF RotationInv, RotationTypeOK, OfIssued, UpdateTokens, Grants, NoGrant
<1>2. n \notin issued /\ n # NoGrant
  BY NextIsNew DEF RotationInv, NoGrant
<1>3. CASE session[s] = g
  <2>1. /\ n \in Grants /\ session' = [session EXCEPT ![s] = n]
        /\ parent' = [parent EXCEPT ![n] = g] /\ issued' = issued \union {n}
    BY <1>3 DEF UpdateTokens, Matches
  <2>2. session \in [Grants -> Grants \union {NoGrant}]
    BY DEF RotationInv, RotationTypeOK
  <2>3. \A t \in Grants : session[t] = g => t = s
    BY <1>1, <1>3 DEF RotationInv, OneHolder
  <2> HIDE DEF n, s, g
  <2>4. g \in Held
    BY <1>1, <1>3 DEF Held
  <2>5. Held' = (Held \ {g}) \union {n}
    BY <1>1, <1>2, <1>3, <2>1, <2>2, <2>3 DEF Held
  <2>6. Promise!Redeem(g, n)
    BY <1>1, <1>2, <2>1, <2>4, <2>5 DEF Promise!Redeem, Held
  <2> QED BY <1>1, <2>1, <2>6 DEF Promise!Redeem
<1>4. CASE session[s] # g
  BY <1>1, <1>4 DEF UpdateTokens, Matches
<1> QED BY <1>3, <1>4

\* Whatever only takes sessions away, and reports of grants that no session holds then.
LEMMA EndingEnds ==
  ASSUME RotationInv, RotationInv', UNCHANGED <<issued, parent>>,
         \A s \in Grants : session'[s] \in {session[s], NoGrant},
         signedOut \subseteq signedOut'
  PROVE  \E E, T \in SUBSET Grants : Promise!End(E, T)
<1> DEFINE E == Held \ Held'
           T == signedOut' \ signedOut
<1>1. Held \subseteq Grants
  BY DEF RotationInv, RotationTypeOK, Held
<1>2. Held' \subseteq Held
  BY GrantHeld DEF Held
<1>3. Held' = Held \ E
  BY <1>2
<1>4. T \subseteq issued \ Held'
  <2>1. signedOut' \subseteq issued
    BY DEF RotationInv, OfIssued
  <2>2. \A g \in Held' : g \notin signedOut'
    BY DEF RotationInv, SignOutEnds, Held
  <2> QED BY <2>1, <2>2
<1>5. T \subseteq Grants
  BY DEF RotationInv, RotationTypeOK
<1>6. Promise!End(E, T)
  BY <1>3, <1>4 DEF Promise!End, Held
<1> HIDE DEF E, T
<1>7. E \in SUBSET Grants /\ T \in SUBSET Grants
  BY <1>1, <1>5 DEF E
<1> QED BY <1>6, <1>7 DEF Promise!End

\* Every step of the requests is a step of the promise, or none.
LEMMA GrantsMove == RotationInv /\ [RotationNext]_sessionVars => [Promise!Next]_Promise!vars
<1> SUFFICES ASSUME RotationInv, [RotationNext]_sessionVars PROVE [Promise!Next]_Promise!vars
  OBVIOUS
<1>0. RotationInv'
  BY RotationSteps
<1>1. ASSUME UNCHANGED <<session, parent, issued, signedOut>> PROVE UNCHANGED Promise!vars
  BY <1>1 DEF Promise!vars
<1>2. CASE CreateSession
  <2>1. NextGrant \in Grants
    BY <1>2 DEF CreateSession
  <2> QED BY <1>2, <2>1, CreateSignsIn DEF Promise!Next, Promise!SignIn
<1>3. ASSUME NEW c \in Clients, NEW g \in Grants, GetByRefreshToken(c, g) \/ SignOut(c, g)
      PROVE  UNCHANGED Promise!vars
  BY <1>1, <1>3 DEF GetByRefreshToken, SignOut
<1>4. ASSUME NEW c \in Clients, UpdateTokens(c) PROVE [Promise!Next]_Promise!vars
  BY <1>1, <1>4, UpdateRedeems DEF Promise!Next
<1>5. ASSUME NEW c \in Clients, UpdateTokensFails(c) PROVE UNCHANGED Promise!vars
  BY <1>1, <1>5 DEF UpdateTokensFails
<1>6. ASSUME NEW c \in Clients, FindSession(c) PROVE Promise!Next
  <2>1. UNCHANGED <<session, issued, parent>> /\ signedOut \subseteq signedOut'
    BY <1>6 DEF FindSession
  <2> QED BY <1>0, <2>1, EndingEnds DEF Promise!Next
<1>7. ASSUME NEW c \in Clients, DeleteSession(c) PROVE Promise!Next
  <2>1. UNCHANGED <<issued, parent>> /\ signedOut \subseteq signedOut'
    BY <1>7 DEF DeleteSession
  <2>2. \A s \in Grants : session'[s] \in {session[s], NoGrant}
    BY <1>7 DEF DeleteSession, RotationInv, RotationTypeOK
  <2> QED BY <1>0, <2>1, <2>2, EndingEnds DEF Promise!Next
<1>8. ASSUME NEW S \in SUBSET Grants, DeleteSessions(S) PROVE Promise!Next
  <2>1. UNCHANGED <<issued, parent, signedOut>>
    BY <1>8 DEF DeleteSessions
  <2>2. \A s \in Grants : session'[s] \in {session[s], NoGrant}
    BY <1>8 DEF DeleteSessions
  <2> QED BY <1>0, <2>1, <2>2, EndingEnds DEF Promise!Next
<1>9. ASSUME NEW s \in Grants, SessionLapses(s) PROVE UNCHANGED Promise!vars
  BY <1>1, <1>9 DEF SessionLapses
<1>10. CASE UNCHANGED sessionVars
  BY <1>1, <1>10 DEF sessionVars
<1>11. ASSUME NEW s \in Grants, DeleteSessions({s}) PROVE Promise!Next
  BY <1>8, <1>11
<1>12. CASE DeleteSessions(Grants)
  BY <1>8, <1>12
<1> QED BY <1>2, <1>3, <1>4, <1>5, <1>6, <1>7, <1>9, <1>10, <1>11, <1>12 DEF RotationNext

\* The sessions implement TokenGrants: a grant is redeemed once, in one step with the end
\* of its own life, and nothing brings back one that was redeemed or ended.
THEOREM SessionsKeepThePromise == RotationSpec => RefinesGrants
<1>1. RotationInit => Promise!Init
  BY DEF RotationInit, Promise!Init, NoGrant
<1>2. RotationSpec => []RotationInv
  BY RotationStarts, RotationSteps, PTL DEF RotationSpec
<1> QED BY <1>1, <1>2, GrantsMove, PTL DEF RotationSpec, RefinesGrants, Promise!Spec

\* Whatever implements TokenGrants keeps the promise: the argument looks at its three
\* steps only.
PromiseTyped ==
    /\ Held \subseteq issued /\ signedOut \subseteq issued
    /\ parent \in [Grants -> issued \union {NoGrant}]
    /\ \A g \in Grants : parent[g] # NoGrant => g \in issued

LEMMA PromiseSteps ==
  PromiseTyped /\ Promise!Kept /\ [Promise!Next]_Promise!vars => PromiseTyped' /\ Promise!Kept'
<1> SUFFICES ASSUME PromiseTyped, Promise!Kept, [Promise!Next]_Promise!vars
             PROVE  PromiseTyped' /\ Promise!Kept'
  OBVIOUS
<1> USE DEF NoGrant
<1>0. NoGrant \notin Held
  BY DEF Held
<1>1. ASSUME NEW g \in Grants, Promise!SignIn(g) PROVE PromiseTyped' /\ Promise!Kept'
  <2>1. /\ g \notin issued /\ issued' = issued \union {g} /\ Held' = Held \union {g}
        /\ UNCHANGED <<parent, signedOut>>
    BY <1>1 DEF Promise!SignIn, Held
  <2>2. PromiseTyped'
    BY <2>1 DEF PromiseTyped
  <2>3. Promise!Kept'
    BY <2>1 DEF PromiseTyped, Promise!Kept, Held
  <2> QED BY <2>2, <2>3
<1>2. ASSUME NEW g \in Grants, NEW h \in Grants, Promise!Redeem(g, h)
      PROVE  PromiseTyped' /\ Promise!Kept'
  <2>1. /\ g \in Held /\ h \notin issued /\ issued' = issued \union {h}
        /\ Held' = (Held \ {g}) \union {h}
        /\ parent' = [parent EXCEPT ![h] = g] /\ signedOut' = signedOut
    BY <1>2 DEF Promise!Redeem, Held
  <2>2. PromiseTyped'
    BY <2>1 DEF PromiseTyped
  <2>3. Promise!Kept <=>
          /\ signedOut \intersect Held = {}
          /\ \A k \in Grants : parent[k] # 0 => parent[k] \notin Held
          /\ \A j, k \in Grants : parent[j] = parent[k] /\ parent[j] # 0 => j = k
    BY DEF Promise!Kept, Held
  <2>4. signedOut' \intersect Held' = {}
    BY <2>1, <2>3 DEF PromiseTyped
  <2>5. \A k \in Grants : parent'[k] # 0 => parent'[k] \notin Held'
    BY <2>1, <2>3, <1>0 DEF PromiseTyped
  <2>6. \A k \in Grants : parent[k] # g
    BY <2>1, <2>3, <1>0
  <2>7. \A j, k \in Grants : parent'[j] = parent'[k] /\ parent'[j] # 0 => j = k
    BY <2>1, <2>3, <2>6 DEF PromiseTyped
  <2>8. Promise!Kept'
    BY <2>4, <2>5, <2>7 DEF Promise!Kept, Held
  <2> QED BY <2>2, <2>8
<1>3. ASSUME NEW E \in SUBSET Grants, NEW T \in SUBSET Grants, Promise!End(E, T)
      PROVE  PromiseTyped' /\ Promise!Kept'
  <2>1. /\ Held' = Held \ E /\ T \subseteq issued \ Held' /\ signedOut' = signedOut \union T
        /\ UNCHANGED <<issued, parent>>
    BY <1>3 DEF Promise!End, Held
  <2>2. PromiseTyped'
    BY <2>1 DEF PromiseTyped
  <2>3. Promise!Kept'
    BY <2>1 DEF Promise!Kept, Held
  <2> QED BY <2>2, <2>3
<1>4. CASE UNCHANGED Promise!vars
  BY <1>4 DEF Promise!vars, Promise!Kept, PromiseTyped, Held
<1> QED BY <1>1, <1>2, <1>3, <1>4 DEF Promise!Next

\* A grant that was redeemed, or of which somebody was told that it is signed out, is never
\* live again, for every system that keeps to TokenGrants.
THEOREM PromiseIsKept == Promise!Spec => []Promise!Kept
<1>1. Promise!Init => PromiseTyped /\ Promise!Kept
  BY DEF Promise!Init, Promise!Kept, PromiseTyped, Held, NoGrant
<1> QED BY <1>1, PromiseSteps, PTL DEF Promise!Spec

(***************************************************************************)
(* LoginLockout: the guesses are bounded, and a lock lasts.                *)
(***************************************************************************)

\* The types, without the bounds of the model.
LockUsers == [attempts : Nat, locked : BOOLEAN, until : {"null", "ahead", "past"}]
Steps == {"idle", "unlock", "compare", "right", "wrong"}
LockTyped ==
    /\ user \in LockUsers /\ login \in [Logins -> [step : Steps, read : LockUsers]]
    /\ wrong \in Nat /\ unwritten \in Nat

AtStep(step) == {p \in Logins : login[p].step = step}

\* A wrong password is in the counter, still to be written, or its statement failed.
Counted == wrong <= user.attempts + Cardinality(AtStep("wrong")) + unwritten

\* Each request that is about to compare may add one.
Foreseen ==
    wrong + Cardinality(AtStep("compare")) <= Threshold - 1 + Cardinality(Logins) + unwritten

\* The counter is at the threshold only if the user is locked.
CounterLocks == user.attempts >= Threshold => user.locked

\* A lock of the administrator that found no request and no locked_until finds none later.
QuietLock ==
    adminLock = "quiet" =>
      user.locked /\ user.until = "null" /\ \A p \in Logins : login[p] = NoLogin

LockInv == LockTyped /\ Counted /\ Foreseen /\ CounterLocks /\ LockHasTime /\ QuietLock

\* The users that the statements write.
LEMMA UsersWritten ==
  /\ FreshUser \in LockUsers /\ NoLogin \in [step : Steps, read : LockUsers]
  /\ FreshUser.attempts = 0 /\ FreshUser.locked = FALSE
  /\ \A u \in LockUsers : \A r : LET v == Incremented(u, r)
       IN /\ v \in LockUsers /\ v.attempts = u.attempts + 1
          /\ u.attempts >= Threshold - 1 => v.locked
          /\ v.locked => v.until = "ahead"
<1>1. FreshUser \in LockUsers /\ FreshUser.attempts = 0 /\ FreshUser.locked = FALSE
  BY DEF FreshUser, LockUsers
<1>2. NoLogin \in [step : Steps, read : LockUsers]
  BY <1>1 DEF NoLogin, Steps
<1>3. ASSUME NEW u \in LockUsers, NEW r
      PROVE  /\ Incremented(u, r) \in LockUsers /\ Incremented(u, r).attempts = u.attempts + 1
             /\ u.attempts >= Threshold - 1 => Incremented(u, r).locked
             /\ Incremented(u, r).locked => Incremented(u, r).until = "ahead"
  <2>1. u.attempts \in Nat /\ u.attempts + 1 \in Nat /\ (u.attempts >= Threshold - 1) \in BOOLEAN
    BY DEF LockUsers
  <2> QED BY <2>1 DEF Incremented, LockUsers
<1> QED BY <1>1, <1>2, <1>3

\* How many requests are at a step, as one request comes to it or leaves it.
LEMMA StepCounts ==
  ASSUME LockTyped, NEW p \in Logins, NEW to \in Steps, NEW step,
         login' \in [Logins -> [step : Steps, read : LockUsers]],
         \A q \in Logins : login'[q].step = IF q = p THEN to ELSE login[q].step
  PROVE  /\ Cardinality(AtStep(step)) \in Nat /\ Cardinality(AtStep(step))' \in Nat
         /\ Cardinality(AtStep(step))' =
              Cardinality(AtStep(step)) + (IF to = step /\ login[p].step # step THEN 1 ELSE 0)
                - (IF login[p].step = step /\ to # step THEN 1 ELSE 0)
<1>1. IsFiniteSet(AtStep(step)) /\ Cardinality(AtStep(step)) \in Nat
  <2>1. IsFiniteSet(AtStep(step))
    BY LockoutAssumption, FS_Subset DEF AtStep
  <2> QED BY <2>1, FS_CardinalityType
<1>2. CASE to = step /\ login[p].step # step
  <2>1. AtStep(step)' = AtStep(step) \union {p} /\ p \notin AtStep(step)
    BY <1>2 DEF AtStep
  <2>2. Cardinality(AtStep(step))' = Cardinality(AtStep(step)) + 1
    BY <1>1, <2>1, FS_AddElement
  <2> QED BY <1>1, <1>2, <2>2
<1>3. CASE to # step /\ login[p].step = step
  <2>1. AtStep(step)' = AtStep(step) \ {p} /\ p \in AtStep(step)
    BY <1>3 DEF AtStep
  <2>2. Cardinality(AtStep(step))' = Cardinality(AtStep(step)) - 1
    BY <1>1, <2>1, FS_RemoveElement
  <2>3. IsFiniteSet(AtStep(step))'
    BY <1>1, <2>1, FS_RemoveElement
  <2>4. Cardinality(AtStep(step))' \in Nat
    BY <2>3, FS_CardinalityType
  <2> QED BY <1>1, <1>3, <2>2, <2>4
<1>4. CASE (to = step) <=> (login[p].step = step)
  <2>1. AtStep(step)' = AtStep(step)
    BY <1>4 DEF AtStep
  <2> QED BY <1>1, <1>4, <2>1
<1> QED BY <1>2, <1>3, <1>4

\* There are no more requests at two steps than there are requests.
LEMMA StepsDisjoint ==
  ASSUME NEW A \in SUBSET Logins, NEW B \in SUBSET Logins, A \intersect B = {}
  PROVE  /\ Cardinality(A) \in Nat /\ Cardinality(B) \in Nat /\ Cardinality(Logins) \in Nat
         /\ Cardinality(A) + Cardinality(B) <= Cardinality(Logins)
<1>1. /\ IsFiniteSet(A) /\ IsFiniteSet(B) /\ IsFiniteSet(A \union B)
      /\ Cardinality(A \union B) <= Cardinality(Logins)
  BY LockoutAssumption, FS_Subset
<1>2. Cardinality(A \union B) = Cardinality(A) + Cardinality(B) - Cardinality(A \intersect B)
  BY <1>1, FS_Union
<1>3. /\ Cardinality(A) \in Nat /\ Cardinality(B) \in Nat
      /\ Cardinality(Logins) \in Nat /\ Cardinality({}) = 0
  BY <1>1, LockoutAssumption, FS_CardinalityType, FS_EmptySet
<1>4. Cardinality(A \union B) = Cardinality(A) + Cardinality(B)
  BY <1>2, <1>3
<1> QED BY <1>1, <1>3, <1>4

\* Initially nobody has tried.
LEMMA LockStarts == LockoutInit => LockInv
<1> SUFFICES ASSUME LockoutInit PROVE LockInv
  OBVIOUS
<1>1. LockTyped
  BY UsersWritten DEF LockoutInit, LockTyped
<1>2. CounterLocks
  <2>1. user.attempts = 0
    BY UsersWritten DEF LockoutInit
  <2> QED BY <2>1, LockoutAssumption DEF CounterLocks
<1>3. LockTyped /\ CounterLocks /\ LockHasTime /\ QuietLock
  BY <1>1, <1>2, UsersWritten DEF LockoutInit, LockHasTime, QuietLock
<1>4. AtStep("wrong") = {} /\ AtStep("compare") = {}
  BY DEF LockoutInit, AtStep, NoLogin
<1>5. Cardinality({}) = 0 /\ Cardinality(Logins) \in Nat
  BY LockoutAssumption, FS_EmptySet, FS_CardinalityType
<1>6. Counted /\ Foreseen
  <2>1. user.attempts = 0 /\ wrong = 0 /\ unwritten = 0
    BY UsersWritten DEF LockoutInit
  <2>2. 0 <= Threshold - 1 + Cardinality(Logins)
    BY <1>5, LockoutAssumption
  <2> QED BY <1>4, <1>5, <2>1, <2>2, LockoutAssumption DEF Counted, Foreseen
<1> QED BY <1>3, <1>6 DEF LockInv

\* What every step of a request does to the typing and to the administrator's lock: a
\* quiet lock lets no request in.
LEMMA LockRequestStep ==
  ASSUME LockInv, NEW p \in Logins,
         ReadUser(p) \/ UnlockExpired(p) \/ ComparePassword(p) \/ WrongPassword(p) \/ RightPassword(p)
  PROVE  LockTyped' /\ CounterLocks' /\ LockHasTime' /\ QuietLock'
<1>1. CASE ReadUser(p)
  <2>1. LockTyped'
    BY <1>1 DEF LockInv, LockTyped, ReadUser, Steps
  <2>2. adminLock # "quiet"
    BY <1>1 DEF LockInv, QuietLock, ReadUser, Admits
  <2> QED BY <1>1, <2>1, <2>2 DEF LockInv, ReadUser, CounterLocks, LockHasTime, QuietLock
<1>2. CASE ~ReadUser(p)
  <2>1. login[p].step # "idle" /\ UNCHANGED adminLock
    BY <1>2 DEF UnlockExpired, ComparePassword, WrongPassword, RightPassword
  <2>2. adminLock # "quiet" /\ QuietLock'
    BY <2>1 DEF LockInv, QuietLock, NoLogin
  <2>3. login' \in [Logins -> [step : Steps, read : LockUsers]]
    <3>1. \/ login' = [login EXCEPT ![p] = NoLogin]
          \/ \E step \in Steps : login' = [login EXCEPT ![p].step = step]
      BY <1>2 DEF UnlockExpired, ComparePassword, WrongPassword, RightPassword, GoesOn, Steps
    <3> QED BY <3>1, UsersWritten DEF LockInv, LockTyped
  <2>4. wrong' \in Nat /\ unwritten' \in Nat
    BY <1>2 DEF LockInv, LockTyped, UnlockExpired, ComparePassword, WrongPassword, RightPassword,
       Reset, Unwritten
  <2>5. user' \in {user, FreshUser} \/ user' = Incremented(user, login[p].read)
    BY <1>2 DEF UnlockExpired, ComparePassword, WrongPassword, RightPassword, Reset
  <2>6. user' \in LockUsers
    BY <2>5, UsersWritten DEF LockInv, LockTyped
  <2>7. CounterLocks'
    <3>1. user.attempts \in Nat /\ user \in LockUsers /\ CounterLocks /\ Threshold \in Nat \ {0}
      BY LockoutAssumption DEF LockInv, LockTyped, LockUsers
    <3>2. CASE user' = Incremented(user, login[p].read)
      <4>1. user'.attempts = user.attempts + 1 /\ (user.attempts >= Threshold - 1 => user'.locked)
        BY <3>1, <3>2, UsersWritten
      <4> QED BY <3>1, <4>1 DEF CounterLocks
    <3>3. CASE user' \in {user, FreshUser}
      BY <3>1, <3>3, UsersWritten DEF CounterLocks
    <3> QED BY <2>5, <3>2, <3>3
  <2>8. LockHasTime'
    BY <2>1, <2>5, UsersWritten DEF LockInv, LockTyped, LockHasTime
  <2> QED BY <2>2, <2>3, <2>4, <2>6, <2>7, <2>8 DEF LockTyped
<1> QED BY <1>1, <1>2

\* The counts of requests are bounded before and after each step.
Counts ==
    LET W == Cardinality(AtStep("wrong"))
        C == Cardinality(AtStep("compare"))
    IN  W \in Nat /\ C \in Nat /\ Cardinality(Logins) \in Nat /\ W + C <= Cardinality(Logins)

\* That follows from the steps being distinct.
LEMMA AlwaysCounts == Counts /\ Counts'
<1>1. AtStep("wrong") \in SUBSET Logins /\ AtStep("compare") \in SUBSET Logins
      /\ AtStep("wrong") \intersect AtStep("compare") = {}
  BY DEF AtStep
<1>2. AtStep("wrong")' \in SUBSET Logins /\ AtStep("compare")' \in SUBSET Logins
      /\ AtStep("wrong")' \intersect AtStep("compare")' = {}
  BY DEF AtStep
<1> QED BY <1>1, <1>2, StepsDisjoint DEF Counts

\* A request that reads the user finds fewer attempts than lock it.
LEMMA ReadCounted ==
  ASSUME LockInv, NEW p \in Logins, ReadUser(p)
  PROVE  Counted' /\ Foreseen'
<1> DEFINE to == IF user.locked THEN "unlock" ELSE "compare"
           W == Cardinality(AtStep("wrong"))
           C == Cardinality(AtStep("compare"))
<1>1. /\ login[p].step = "idle" /\ to \in Steps /\ UNCHANGED <<user, wrong, unwritten>>
      /\ login' \in [Logins -> [step : Steps, read : LockUsers]]
      /\ \A q \in Logins : login'[q].step = IF q = p THEN to ELSE login[q].step
  <2>1. LockTyped'
    BY LockRequestStep
  <2> QED BY <2>1 DEF LockInv, LockTyped, ReadUser, NoLogin, Steps
<1>2. W' = W /\ C' = C + (IF to = "compare" THEN 1 ELSE 0)
  <2>1. to # "wrong" /\ LockTyped
    BY DEF to, LockInv
  <2>2. W' = W + 0 - 0
    BY <1>1, <2>1, StepCounts
  <2>3. C' = C + (IF to = "compare" THEN 1 ELSE 0) - 0
    BY <1>1, <2>1, StepCounts
  <2> QED BY <2>2, <2>3, AlwaysCounts DEF Counts
<1>3. Counted'
  BY <1>1, <1>2 DEF LockInv, Counted
<1>4. /\ W \in Nat /\ C \in Nat /\ C' \in Nat /\ W + C' <= Cardinality(Logins)
      /\ Cardinality(Logins) \in Nat
  BY <1>2, AlwaysCounts DEF Counts
<1> HIDE DEF W, C, to
<1>5. Foreseen'
  <2>1. wrong \in Nat /\ unwritten \in Nat /\ user.attempts \in Nat /\ Threshold \in Nat
    BY LockoutAssumption DEF LockInv, LockTyped, LockUsers
  <2>2. CASE to # "compare"
    <3>1. C' = C
      BY <1>2, <1>4, <2>2
    <3> QED BY <1>1, <3>1 DEF LockInv, Foreseen, C
  <2>3. CASE to = "compare"
    <3>1. user.attempts <= Threshold - 1
      BY <2>1, <2>3 DEF to, LockInv, CounterLocks
    <3>2. wrong <= user.attempts + W + unwritten
      BY DEF LockInv, Counted, W
    <3>3. wrong + C' <= Threshold - 1 + Cardinality(Logins) + unwritten
      BY <1>4, <2>1, <3>1, <3>2
    <3> QED BY <1>1, <3>3 DEF Foreseen, C
  <2> QED BY <2>2, <2>3
<1> QED BY <1>3, <1>5

\* The counts as a request goes from one step to another.
LEMMA GoingCounts ==
  ASSUME LockInv, NEW p \in Logins, NEW to \in Steps, LockTyped',
         \/ login' = [login EXCEPT ![p].step = to]
         \/ login' = [login EXCEPT ![p] = NoLogin] /\ to = "idle",
         login[p].step # to
  PROVE  /\ Cardinality(AtStep("wrong"))' = Cardinality(AtStep("wrong"))
              + (IF to = "wrong" THEN 1 ELSE 0) - (IF login[p].step = "wrong" THEN 1 ELSE 0)
         /\ Cardinality(AtStep("compare"))' = Cardinality(AtStep("compare"))
              + (IF to = "compare" THEN 1 ELSE 0) - (IF login[p].step = "compare" THEN 1 ELSE 0)
<1>1. /\ LockTyped /\ login' \in [Logins -> [step : Steps, read : LockUsers]]
      /\ \A q \in Logins : login'[q].step = IF q = p THEN to ELSE login[q].step
  BY DEF LockInv, LockTyped, NoLogin
<1>2. ASSUME NEW step
      PROVE  Cardinality(AtStep(step))' = Cardinality(AtStep(step))
              + (IF to = step THEN 1 ELSE 0) - (IF login[p].step = step THEN 1 ELSE 0)
  <2>1. Cardinality(AtStep(step))' =
          Cardinality(AtStep(step)) + (IF to = step /\ login[p].step # step THEN 1 ELSE 0)
            - (IF login[p].step = step /\ to # step THEN 1 ELSE 0)
    BY <1>1, StepCounts
  <2>2. (to = step /\ login[p].step # step) = (to = step)
        /\ (login[p].step = step /\ to # step) = (login[p].step = step)
    OBVIOUS
  <2> QED BY <2>1, <2>2
<1> QED BY <1>2

\* A successful reset empties the counters.
LEMMA ResetCounted ==
  ASSUME LockTyped', user' = FreshUser, wrong' = 0
  PROVE  Counted' /\ Foreseen'
<1>1. /\ user'.attempts = 0 /\ unwritten' \in Nat /\ Threshold - 1 \in Nat
  BY LockoutAssumption, UsersWritten DEF LockTyped
<1>2. /\ Cardinality(AtStep("wrong"))' \in Nat /\ Cardinality(AtStep("compare"))' \in Nat
      /\ Cardinality(Logins) \in Nat
      /\ Cardinality(AtStep("wrong"))' + Cardinality(AtStep("compare"))' <= Cardinality(Logins)
  BY AlwaysCounts DEF Counts
<1>3. Counted'
  BY <1>1, <1>2 DEF Counted
<1>4. Cardinality(AtStep("compare"))' <= Cardinality(Logins)
  BY <1>2
<1>5. Foreseen'
  BY <1>1, <1>2, <1>4 DEF Foreseen
<1> QED BY <1>3, <1>5

\* The other steps of a request.
LEMMA RequestCounted ==
  ASSUME LockInv, NEW p \in Logins, LockTyped',
         UnlockExpired(p) \/ ComparePassword(p) \/ WrongPassword(p) \/ RightPassword(p)
  PROVE  Counted' /\ Foreseen'
<1> DEFINE W == Cardinality(AtStep("wrong"))
           C == Cardinality(AtStep("compare"))
           L == Cardinality(Logins)
<1>1. /\ W \in Nat /\ C \in Nat /\ W' \in Nat /\ C' \in Nat /\ L \in Nat
      /\ wrong \in Nat /\ unwritten \in Nat /\ user.attempts \in Nat /\ Threshold \in Nat
  BY AlwaysCounts, LockoutAssumption DEF Counts, LockInv, LockTyped, LockUsers
<1>2. wrong <= user.attempts + W + unwritten /\ wrong + C <= Threshold - 1 + L + unwritten
  BY DEF LockInv, Counted, Foreseen
<1>3. CASE user' = FreshUser /\ wrong' = 0
  BY <1>3, ResetCounted
<1>4. CASE UnlockExpired(p) /\ Unwritten /\ UNCHANGED <<user, wrong>>
  <2>1. W' = W + 0 - 0 /\ C' = C + 1 - 0
    BY <1>4, GoingCounts DEF UnlockExpired, GoesOn, Steps
  <2>2. unwritten' = unwritten + 1
    BY <1>4 DEF Unwritten
  <2> HIDE DEF W, C, L
  <2>3. /\ wrong <= user.attempts + W' + unwritten'
        /\ wrong + C' <= Threshold - 1 + L + unwritten'
    BY <1>1, <1>2, <2>1, <2>2
  <2> QED BY <1>4, <2>3 DEF Counted, Foreseen, W, C, L
<1>5. CASE ComparePassword(p)
  <2>1. \/ W' = W + 0 - 0 /\ C' = C + 0 - 1 /\ wrong' = wrong
        \/ W' = W + 1 - 0 /\ C' = C + 0 - 1 /\ wrong' = wrong + 1
    BY <1>5, GoingCounts DEF ComparePassword, GoesOn, Steps
  <2> HIDE DEF W, C, L
  <2>2. /\ wrong' <= user.attempts + W' + unwritten
        /\ wrong' + C' <= Threshold - 1 + L + unwritten
    BY <1>1, <1>2, <2>1
  <2> QED BY <1>5, <2>2 DEF ComparePassword, Counted, Foreseen, W, C, L
<1>6. CASE WrongPassword(p)
  <2>1. W' = W + 0 - 1 /\ C' = C + 0 - 0
    BY <1>6, GoingCounts DEF WrongPassword, Steps
  <2>2. /\ wrong' = wrong
        /\ \/ user'.attempts = user.attempts + 1 /\ unwritten' = unwritten
           \/ user'.attempts = user.attempts /\ unwritten' = unwritten + 1
    BY <1>6, UsersWritten DEF WrongPassword, Unwritten, LockInv, LockTyped
  <2> HIDE DEF W, C, L
  <2>3. /\ wrong <= user'.attempts + W' + unwritten'
        /\ wrong + C' <= Threshold - 1 + L + unwritten'
    BY <1>1, <1>2, <2>1, <2>2
  <2> QED BY <2>2, <2>3 DEF Counted, Foreseen, W, C, L
<1>7. CASE /\ RightPassword(p) /\ UNCHANGED <<user, wrong>>
           /\ unwritten' = unwritten \/ unwritten' = unwritten + 1
  <2>1. W' = W + 0 - 0 /\ C' = C + 0 - 0
    BY <1>7, GoingCounts DEF RightPassword, Steps
  <2> HIDE DEF W, C, L
  <2>2. /\ wrong <= user.attempts + W' + unwritten'
        /\ wrong + C' <= Threshold - 1 + L + unwritten'
    BY <1>1, <1>2, <1>7, <2>1
  <2> QED BY <1>7, <2>2 DEF Counted, Foreseen, W, C, L
<1> QED BY <1>3, <1>4, <1>5, <1>6, <1>7 DEF UnlockExpired, RightPassword, Reset, Unwritten

\* What happens to the user outside of the requests.
LEMMA LockRest ==
  ASSUME LockInv, LockTimePasses \/ LockUser \/ UnlockUser
  PROVE  LockInv'
<1>1. UNCHANGED <<login, unwritten>> /\ UNCHANGED <<AtStep("wrong"), AtStep("compare")>>
  BY DEF LockTimePasses, LockUser, UnlockUser, AtStep
<1>2. /\ user' \in LockUsers
      /\ \/ user'.attempts = user.attempts /\ wrong' = wrong /\ (user.locked => user'.locked)
         \/ user'.attempts = 0 /\ wrong' = 0
  <2>1. CASE LockTimePasses
    BY <2>1 DEF LockTimePasses, LockInv, LockTyped, LockUsers
  <2>2. CASE LockUser
    BY <2>2 DEF LockUser, LockInv, LockTyped, LockUsers
  <2>3. CASE UnlockUser
    BY <2>3 DEF UnlockUser, LockInv, LockTyped, LockUsers
  <2> QED BY <2>1, <2>2, <2>3
<1>3. LockTyped'
  BY <1>1, <1>2 DEF LockInv, LockTyped
<1>4. Counted' /\ Foreseen' /\ CounterLocks'
  <2>1. CASE user'.attempts = user.attempts /\ wrong' = wrong /\ (user.locked => user'.locked)
    BY <1>1, <2>1 DEF LockInv, Counted, Foreseen, CounterLocks
  <2>2. CASE user'.attempts = 0 /\ wrong' = 0
    <3>1. /\ Cardinality(AtStep("wrong")) \in Nat /\ Cardinality(AtStep("compare")) \in Nat
          /\ Cardinality(Logins) \in Nat /\ Cardinality(AtStep("compare")) <= Cardinality(Logins)
          /\ unwritten \in Nat /\ Threshold \in Nat /\ Threshold >= 1
      BY AlwaysCounts, LockoutAssumption DEF Counts, LockInv, LockTyped
    <3>2. Counted'
      BY <1>1, <2>2, <3>1 DEF Counted
    <3>3. Foreseen' /\ CounterLocks'
      BY <1>1, <2>2, <3>1 DEF Foreseen, CounterLocks
    <3> QED BY <3>2, <3>3
  <2> QED BY <1>2, <2>1, <2>2
<1>5. LockHasTime' /\ QuietLock'
  BY DEF LockTimePasses, LockUser, UnlockUser, LockInv, LockTyped, LockUsers, LockHasTime, QuietLock
<1> QED BY <1>3, <1>4, <1>5 DEF LockInv

\* Every step preserves the invariant of the lock.
LEMMA LockSteps == LockInv /\ [LockoutNext]_lockoutVars => LockInv'
<1>1. ASSUME LockInv, NEW p \in Logins,
             ReadUser(p) \/ UnlockExpired(p) \/ ComparePassword(p) \/ WrongPassword(p) \/ RightPassword(p)
      PROVE  LockInv'
  BY <1>1, LockRequestStep, ReadCounted, RequestCounted DEF LockInv
<1>2. ASSUME LockInv, UNCHANGED lockoutVars PROVE LockInv'
  BY <1>2 DEF lockoutVars, LockInv, LockTyped, Counted, Foreseen, AtStep, CounterLocks, LockHasTime,
     QuietLock
<1> QED BY <1>1, <1>2, LockRest DEF LockoutNext

\* Requests that race with each other compare no more wrong passwords than the threshold
\* allows plus one per other request and one per count that could not be written.
THEOREM GuessesLimited == LockoutSpec => []GuessesBounded
<1>1. LockInv => GuessesBounded
  <2>1. Counts
    BY AlwaysCounts
  <2> QED BY <2>1, LockoutAssumption DEF Counts, LockInv, LockTyped, Foreseen, GuessesBounded
<1> QED BY LockStarts, LockSteps, <1>1, PTL DEF LockoutSpec

\* A lock lasts: that of an administrator which met no request, and that of the counter
\* until its time is over.
THEOREM LockKept == LockoutSpec => []LockHolds
<1>1. LockInv => LockHolds
  BY DEF LockInv, QuietLock, QuietLockHolds, LockHolds
<1> QED BY LockStarts, LockSteps, <1>1, PTL DEF LockoutSpec

(***************************************************************************)
(* TokenRevocation: a revocation reaches every check in time, and no later *)
(* token.                                                                  *)
(***************************************************************************)

\* The types, without the bounds of the model.
Times == Nat \union {Never}
CheckSteps == {"idle", "cache", "query", "store", "accepted", "refused"}
ACheck == [step : CheckSteps, token : Tokens \union {Never}, auth : Auths \union {Never},
           began : Times, read : Times]
AnEntry == [at : Times, revoked : Times]

RevocationTyped ==
    /\ clock \in Nat /\ marker \in Times
    /\ born \in [Tokens -> Times] /\ killed \in [Tokens -> Times]
    /\ cache \in [Auths -> AnEntry] /\ check \in [Checks -> ACheck]

\* Nothing has happened later than now, and no marker is later than the last one.
Past ==
    /\ marker <= clock
    /\ \A k \in Tokens : killed[k] # Never =>
         born[k] # Never /\ born[k] < killed[k] /\ killed[k] <= marker
    /\ \A i \in Auths : cache[i].at <= clock /\ cache[i].revoked <= marker
    /\ \A c \in Checks : check[c].began <= clock /\ check[c].read <= marker

\* A check that has begun has a token, and takes no longer than it may.
ChecksInTime ==
    \A c \in Checks : check[c].step # "idle" =>
      /\ check[c].token \in Tokens /\ check[c].auth \in Auths /\ check[c].began \in Nat
      /\ born[check[c].token] \in Nat
      /\ check[c].step \in {"cache", "query", "store"} => clock <= check[c].began + Patience

\* What a check has read of the markers covers the tokens that were revoked before it
\* began, and an entry of a cache those that were revoked some time before it was stored.
ReadCovers ==
    \A c \in Checks, k \in Tokens : check[c].step = "store" /\ killed[k] # Never =>
      check[c].read >= killed[k] \/ killed[k] >= check[c].began
EntryCovers ==
    \A i \in Auths, k \in Tokens : cache[i].at # Never /\ killed[k] # Never =>
      cache[i].revoked >= killed[k] \/ cache[i].at <= killed[k] + Patience

\* Only a token of a second that a marker has passed is refused.
RefusedBefore ==
    \A c \in Checks : check[c].step = "refused" => IssuedBefore(check[c].token, marker)

RevocationInv ==
    /\ RevocationTyped /\ Past /\ ChecksInTime /\ ReadCovers /\ EntryCovers
    /\ RevokedSoonRefused /\ RefusedBefore

\* The second of a time, and its remainder.
LEMMA SecondOf ==
  ASSUME NEW n \in Nat
  PROVE  /\ n % Second \in 0..(Second - 1)
         /\ n - (n % Second) \in Nat /\ n - (n % Second) <= n
         /\ \E q \in Nat : n = Second * q + (n % Second)
<1>1. n % Second \in 0..(Second - 1)
  BY RevocationAssumption
<1>2. n - (n % Second) \in Nat /\ n - (n % Second) <= n
  BY RevocationAssumption
<1>3. n = Second * (n \div Second) + (n % Second) /\ n \div Second \in Nat
  BY RevocationAssumption
<1> QED BY <1>1, <1>2, <1>3

\* A time after the begin of a second is in that second or a later one.
LEMMA SecondsInOrder ==
  ASSUME NEW x \in Nat, NEW y \in Nat, x - (x % Second) < y
  PROVE  x - (x % Second) <= y - (y % Second)
<1>1. PICK q \in Nat : x = Second * q + (x % Second)
  BY SecondOf
<1>2. PICK p \in Nat : y = Second * p + (y % Second)
  BY SecondOf
<1>3. /\ x % Second \in 0..(Second - 1) /\ y % Second \in 0..(Second - 1)
      /\ Second * q \in Nat /\ Second * p \in Nat
  BY SecondOf, RevocationAssumption
<1>4. Second * q < Second * p + Second
  BY <1>1, <1>2, <1>3, RevocationAssumption
<1>5. q <= p
  <2>1. SUFFICES ASSUME q > p PROVE FALSE
    OBVIOUS
  <2>2. PICK d \in Nat : q = p + 1 + d
    BY <2>1
  <2>3. Second * q = Second * p + Second + Second * d /\ Second * d \in Nat
    BY <2>2, RevocationAssumption
  <2> QED BY <1>3, <1>4, <2>3, RevocationAssumption
<1>6. Second * q <= Second * p
  <2>1. PICK d \in Nat : p = q + d
    BY <1>5
  <2>2. Second * p = Second * q + Second * d /\ Second * d \in Nat
    BY <2>1, RevocationAssumption
  <2> QED BY <1>3, <2>2, RevocationAssumption
<1> QED BY <1>1, <1>2, <1>3, <1>6

\* Initially there is no token and no marker.
LEMMA RevocationStarts == RevocationInit => RevocationInv
<1> SUFFICES ASSUME RevocationInit PROVE RevocationInv
  OBVIOUS
<1>1. RevocationTyped
  BY DEF RevocationInit, RevocationTyped, NoEntry, NoCheck, ACheck, AnEntry, CheckSteps, Times
<1>2. Past
  BY DEF RevocationInit, Past, NoEntry, NoCheck, Never
<1>3. ChecksInTime /\ ReadCovers /\ EntryCovers /\ RevokedSoonRefused /\ RefusedBefore
  BY DEF RevocationInit, ChecksInTime, ReadCovers, EntryCovers, RevokedSoonRefused, RefusedBefore,
     NoEntry, NoCheck
<1> QED BY <1>1, <1>2, <1>3 DEF RevocationInv

\* Time passes for the checks that may still take it.
LEMMA TickStep == RevocationInv /\ Tick => RevocationInv'
<1> SUFFICES ASSUME RevocationInv, Tick PROVE RevocationInv'
  OBVIOUS
<1>1. clock \in Nat /\ clock' = clock + 1 /\ UNCHANGED <<born, marker, killed, cache, check>>
  BY DEF Tick, RevocationInv, RevocationTyped
<1>2. RevocationTyped'
  BY <1>1 DEF RevocationInv, RevocationTyped
<1>3. Past'
  BY <1>1 DEF RevocationInv, RevocationTyped, Past, Times, Never, ACheck, AnEntry
<1>4. ChecksInTime'
  <2>1. SUFFICES ASSUME NEW c \in Checks, check[c].step # "idle"
                 PROVE  /\ check[c].token \in Tokens /\ check[c].auth \in Auths /\ check[c].began \in Nat
                        /\ born[check[c].token] \in Nat
                        /\ check[c].step \in {"cache", "query", "store"} =>
                             clock' <= check[c].began + Patience
    BY <1>1 DEF ChecksInTime
  <2>2. check[c].began \in Nat
    BY <2>1 DEF RevocationInv, ChecksInTime
  <2>3. check[c].step \in {"cache", "query", "store"} => clock' <= check[c].began + Patience
    BY <1>1, <2>1, <2>2, RevocationAssumption DEF Tick
  <2> QED BY <2>1, <2>3 DEF RevocationInv, ChecksInTime
<1>5. ReadCovers' /\ EntryCovers' /\ RevokedSoonRefused' /\ RefusedBefore'
  BY <1>1 DEF RevocationInv, ReadCovers, EntryCovers, RevokedSoonRefused, RefusedBefore,
     IssuedBefore
<1> QED BY <1>2, <1>3, <1>4, <1>5 DEF RevocationInv

\* A token is issued, of which no marker and no check knows.
LEMMA IssueStep ==
  ASSUME RevocationInv, NEW k \in Tokens, IssueToken(k)
  PROVE  RevocationInv'
<1>1. /\ UNCHANGED <<clock, marker, killed, cache, check>> /\ born[k] = Never
      /\ born' = [born EXCEPT ![k] = clock]
  BY DEF IssueToken
<1>2. RevocationTyped'
  BY <1>1 DEF RevocationInv, RevocationTyped, Times
<1>3. killed[k] = Never /\ \A c \in Checks : check[c].step # "idle" => check[c].token # k
  BY <1>1 DEF RevocationInv, Past, ChecksInTime, Never
<1>4. \A j \in Tokens : j # k => born'[j] = born[j]
  BY <1>1 DEF RevocationInv, RevocationTyped
<1>5. Past' /\ ChecksInTime' /\ RefusedBefore'
  BY <1>1, <1>3, <1>4 DEF RevocationInv, Past, ChecksInTime, RefusedBefore, IssuedBefore
<1>6. ReadCovers' /\ EntryCovers' /\ RevokedSoonRefused'
  BY <1>1 DEF RevocationInv, ReadCovers, EntryCovers, RevokedSoonRefused
<1> QED BY <1>2, <1>5, <1>6 DEF RevocationInv

\* The tokens that were revoked are older than every marker since, to the second.
LEMMA OldRefused ==
  ASSUME RevocationInv, NEW k \in Tokens, killed[k] # Never, NEW t \in Times, t >= killed[k]
  PROVE  t # Never /\ IssuedBefore(k, t)
<1>1. born[k] \in Nat /\ killed[k] \in Nat /\ born[k] < killed[k]
  BY DEF RevocationInv, RevocationTyped, Past, Times, Never
<1>2. born[k] - (born[k] % Second) \in Nat /\ born[k] - (born[k] % Second) <= born[k]
  BY <1>1, SecondOf
<1> QED BY <1>1, <1>2 DEF IssuedBefore, Times, Never

\* What decides a check: the last marker, read since it began or from an entry that was
\* fresh, covers what was revoked in time.
LEMMA DecideStep ==
  ASSUME RevocationInv, NEW c \in Checks, NEW t \in Times, t <= marker, Decide(c, t),
         check[c].step # "idle",
         \A k \in Tokens : killed[k] # Never =>
           t >= killed[k] \/ check[c].began < killed[k] + CacheTTL + Patience,
         UNCHANGED <<clock, born, marker, killed>>
  PROVE  /\ check' \in [Checks -> ACheck]
         /\ check'[c].step \in {"accepted", "refused"} /\ check'[c].token = check[c].token
         /\ check'[c].auth = check[c].auth /\ check'[c].began = check[c].began
         /\ check'[c].read = check[c].read
         /\ \A d \in Checks : d # c => check'[d] = check[d]
         /\ ChecksInTime' /\ ReadCovers' /\ RevokedSoonRefused' /\ RefusedBefore'
<1> DEFINE k == check[c].token
           step == IF t # Never /\ IssuedBefore(k, t) THEN "refused" ELSE "accepted"
<1>1. /\ check' \in [Checks -> ACheck]
      /\ check'[c].step = step /\ check'[c].token = check[c].token
      /\ check'[c].auth = check[c].auth /\ check'[c].began = check[c].began
      /\ check'[c].read = check[c].read
      /\ \A d \in Checks : d # c => check'[d] = check[d]
  BY DEF Decide, RevocationInv, RevocationTyped, ACheck, CheckSteps
<1>2. k \in Tokens /\ born[k] \in Nat /\ check[c].began \in Nat
  BY DEF RevocationInv, ChecksInTime
<1>3. step \in {"accepted", "refused"}
  OBVIOUS
<1>4. step = "refused" => IssuedBefore(k, marker)
  <2>1. born[k] - (born[k] % Second) \in Nat
    BY <1>2, SecondOf
  <2> QED BY <1>2, <2>1 DEF IssuedBefore, RevocationInv, RevocationTyped, Times, Never
<1>5. step = "accepted" /\ killed[k] # Never => check[c].began < killed[k] + CacheTTL + Patience
  BY <1>2, OldRefused
<1> HIDE DEF k, step
<1>6. ChecksInTime' /\ ReadCovers'
  BY <1>1, <1>3 DEF RevocationInv, ChecksInTime, ReadCovers
<1>7. RevokedSoonRefused'
  BY <1>1, <1>3, <1>5 DEF RevocationInv, RevokedSoonRefused, k
<1>8. RefusedBefore'
  BY <1>1, <1>3, <1>4 DEF RevocationInv, RefusedBefore, IssuedBefore, k
<1> QED BY <1>1, <1>3, <1>6, <1>7, <1>8

\* A check that uses an entry of the cache, or removes it.
LEMMA LookStep ==
  ASSUME RevocationInv, NEW c \in Checks, LookInCache(c)
  PROVE  RevocationInv'
<1> DEFINE i == check[c].auth
<1>1. /\ UNCHANGED <<clock, born, marker, killed>> /\ check[c].step = "cache"
      /\ i \in Auths /\ check[c].began \in Nat
      /\ \/ Fresh(i) /\ Decide(c, cache[i].revoked) /\ UNCHANGED cache
         \/ /\ check' = [check EXCEPT ![c].step = "query"]
            /\ cache' = [cache EXCEPT ![i] = NoEntry]
  BY DEF LookInCache, RevocationInv, ChecksInTime
<1> HIDE DEF i
<1>2. CASE Fresh(i) /\ Decide(c, cache[i].revoked) /\ UNCHANGED cache
  <2>1. cache[i].revoked \in Times /\ cache[i].revoked <= marker /\ cache[i].at \in Nat
    BY <1>1, <1>2 DEF RevocationInv, RevocationTyped, AnEntry, Past, Fresh, Times
  <2>2. ASSUME NEW k \in Tokens, killed[k] # Never
        PROVE  cache[i].revoked >= killed[k] \/ check[c].began < killed[k] + CacheTTL + Patience
    <3>1. cache[i].revoked >= killed[k] \/ cache[i].at <= killed[k] + Patience
      BY <1>1, <1>2, <2>2 DEF RevocationInv, EntryCovers, Fresh
    <3>2. clock < cache[i].at + CacheTTL /\ check[c].began <= clock /\ clock \in Nat
      BY <1>2, <2>1, RevocationAssumption DEF Fresh, RevocationInv, RevocationTyped, Past
    <3>3. killed[k] \in Nat
      BY <2>2 DEF RevocationInv, RevocationTyped, Times
    <3> QED BY <1>1, <2>1, <3>1, <3>2, <3>3, RevocationAssumption
  <2>3. /\ check' \in [Checks -> ACheck] /\ check'[c].began = check[c].began
        /\ check'[c].read = check[c].read /\ \A d \in Checks : d # c => check'[d] = check[d]
        /\ ChecksInTime' /\ ReadCovers' /\ RevokedSoonRefused' /\ RefusedBefore'
    BY <1>1, <1>2, <2>1, <2>2, DecideStep
  <2>4. RevocationTyped'
    BY <1>1, <1>2, <2>3 DEF RevocationInv, RevocationTyped
  <2>5. Past' /\ EntryCovers'
    BY <1>1, <1>2, <2>3 DEF RevocationInv, Past, EntryCovers
  <2> QED BY <2>3, <2>4, <2>5 DEF RevocationInv
<1>3. CASE /\ check' = [check EXCEPT ![c].step = "query"]
           /\ cache' = [cache EXCEPT ![i] = NoEntry]
  <2>1. /\ check' \in [Checks -> ACheck] /\ check'[c] = [check[c] EXCEPT !.step = "query"]
        /\ \A d \in Checks : d # c => check'[d] = check[d]
    BY <1>3 DEF RevocationInv, RevocationTyped, ACheck, CheckSteps
  <2>2. check'[c].step = "query" /\ check'[c].token = check[c].token /\ check'[c].auth = check[c].auth
        /\ check'[c].began = check[c].began /\ check'[c].read = check[c].read
    BY <2>1 DEF RevocationInv, RevocationTyped, ACheck
  <2>3. /\ cache' \in [Auths -> AnEntry] /\ cache'[i] = NoEntry
        /\ \A j \in Auths : j # i => cache'[j] = cache[j]
    BY <1>1, <1>3 DEF RevocationInv, RevocationTyped, AnEntry, NoEntry, Times
  <2>4. RevocationTyped'
    BY <1>1, <2>1, <2>3 DEF RevocationInv, RevocationTyped
  <2>5. NoEntry.at = Never /\ NoEntry.at <= clock /\ NoEntry.revoked <= marker
    BY DEF NoEntry, Never, RevocationInv, RevocationTyped, Times
  <2>6. Past'
    BY <1>1, <2>1, <2>2, <2>3, <2>5 DEF RevocationInv, Past
  <2>7. ChecksInTime' /\ ReadCovers' /\ RevokedSoonRefused' /\ RefusedBefore'
    BY <1>1, <2>1, <2>2 DEF RevocationInv, ChecksInTime, ReadCovers, RevokedSoonRefused,
       RefusedBefore, IssuedBefore
  <2>8. EntryCovers'
    BY <1>1, <2>3, <2>5 DEF RevocationInv, EntryCovers
  <2> QED BY <2>4, <2>6, <2>7, <2>8 DEF RevocationInv
<1> QED BY <1>1, <1>2, <1>3

\* A check comes to be n, one that has not been decided.
Undecided(c, n) ==
    /\ n \in ACheck /\ check' = [check EXCEPT ![c] = n]
    /\ n.step \in {"idle", "cache", "store"} /\ n.began <= clock /\ n.read <= marker
    /\ n.step # "idle" =>
         /\ n.token \in Tokens /\ n.auth \in Auths /\ n.began \in Nat
         /\ born[n.token] \in Nat /\ clock <= n.began + Patience
    /\ n.step = "store" => n.read = marker

\* A check begins, reads the last marker, or is given up.
LEMMA CheckStep ==
  ASSUME RevocationInv, NEW c \in Checks,
         QueryMarker(c) \/ \E k \in Tokens, i \in Auths : BeginCheck(c, k, i)
  PROVE  RevocationInv'
<1>1. UNCHANGED <<clock, born, marker, killed, cache>>
  BY DEF QueryMarker, BeginCheck
<1>2. \E n : Undecided(c, n)
  <2>1. clock \in Nat /\ marker \in Times /\ -1 <= clock /\ -1 <= marker
    BY DEF RevocationInv, RevocationTyped, Times, Never
  <2>2. ASSUME NEW k \in Tokens, NEW i \in Auths, BeginCheck(c, k, i) PROVE \E n : Undecided(c, n)
    <3> DEFINE n == [step |-> "cache", token |-> k, auth |-> i, began |-> clock, read |-> Never]
    <3>1. n \in ACheck
      BY <2>1 DEF ACheck, CheckSteps, Times
    <3>2. born[k] \in Nat
      BY <2>2 DEF BeginCheck, RevocationInv, RevocationTyped, Times
    <3>3. check' = [check EXCEPT ![c] = n]
      BY <2>2 DEF BeginCheck
    <3>4. n.read <= marker /\ clock <= n.began + Patience /\ n.began <= clock
      BY <2>1, RevocationAssumption DEF Never
    <3>5. n.step = "cache" /\ n.token = k /\ n.auth = i /\ n.began = clock
      OBVIOUS
    <3> HIDE DEF n
    <3>6. Undecided(c, n)
      BY <2>1, <3>1, <3>2, <3>3, <3>4, <3>5 DEF Undecided
    <3> QED BY <3>6
  <2>3. ASSUME check[c].step = "query", check' = [check EXCEPT ![c].step = "store",
               ![c].read = marker]
        PROVE  \E n : Undecided(c, n)
    <3> DEFINE n == [check[c] EXCEPT !.step = "store", !.read = marker]
    <3>1. /\ n \in ACheck /\ n.step = "store" /\ n.read = marker /\ n.token = check[c].token
          /\ n.auth = check[c].auth /\ n.began = check[c].began
      BY <2>1 DEF ACheck, CheckSteps, RevocationInv, RevocationTyped
    <3>2. check' = [check EXCEPT ![c] = n]
      BY <2>3 DEF RevocationInv, RevocationTyped, ACheck
    <3> HIDE DEF n
    <3>3. /\ check[c].token \in Tokens /\ check[c].auth \in Auths /\ check[c].began \in Nat
          /\ born[check[c].token] \in Nat /\ clock <= check[c].began + Patience
          /\ check[c].began <= clock
      BY <2>3 DEF RevocationInv, Past, ChecksInTime
    <3>4. marker <= marker
      BY <2>1 DEF Times, Never
    <3> QED BY <3>1, <3>2, <3>3, <3>4 DEF Undecided
  <2>4. ASSUME check' = [check EXCEPT ![c] = NoCheck] PROVE \E n : Undecided(c, n)
    <3>1. NoCheck \in ACheck /\ NoCheck.step = "idle" /\ NoCheck.began = -1 /\ NoCheck.read = -1
      BY DEF NoCheck, ACheck, CheckSteps, Times, Never
    <3> QED BY <2>1, <2>4, <3>1 DEF Undecided
  <2> QED BY <2>2, <2>3, <2>4 DEF QueryMarker
<1>3. PICK n : Undecided(c, n)
  BY <1>2
<1>4. /\ check' \in [Checks -> ACheck] /\ check'[c] = n
      /\ \A d \in Checks : d # c => check'[d] = check[d]
  BY <1>3 DEF Undecided, RevocationInv, RevocationTyped
<1>5. RevocationTyped'
  BY <1>1, <1>4 DEF RevocationInv, RevocationTyped
<1>6. Past' /\ ChecksInTime'
  BY <1>1, <1>3, <1>4 DEF Undecided, RevocationInv, Past, ChecksInTime
<1>7. ReadCovers'
  BY <1>1, <1>3, <1>4 DEF Undecided, RevocationInv, RevocationTyped, Times, Never, Past, ReadCovers
<1>8. EntryCovers' /\ RevokedSoonRefused' /\ RefusedBefore'
  BY <1>1, <1>3, <1>4 DEF Undecided, RevocationInv, EntryCovers, RevokedSoonRefused,
     RefusedBefore, IssuedBefore
<1> QED BY <1>5, <1>6, <1>7, <1>8 DEF RevocationInv

\* What a check has read is stored, and decides it.
LEMMA StoreStep ==
  ASSUME RevocationInv, NEW c \in Checks, StoreEntry(c)
  PROVE  RevocationInv'
<1> DEFINE i == check[c].auth
           t == check[c].read
<1>1. /\ UNCHANGED <<clock, born, marker, killed>> /\ check[c].step = "store"
      /\ i \in Auths /\ check[c].began \in Nat /\ clock <= check[c].began + Patience
      /\ check[c].began <= clock /\ clock \in Nat
      /\ t \in Times /\ t <= marker /\ Decide(c, t) /\ cache' = [cache EXCEPT ![i] = Entry(t)]
  BY DEF StoreEntry, RevocationInv, RevocationTyped, ACheck, ChecksInTime, Past
<1>2. ASSUME NEW k \in Tokens, killed[k] # Never
      PROVE  t >= killed[k] \/ (killed[k] \in Nat /\ killed[k] >= check[c].began)
  BY <1>1, <1>2 DEF RevocationInv, RevocationTyped, Times, ReadCovers
<1>3. /\ cache' \in [Auths -> AnEntry] /\ cache'[i].at = clock /\ cache'[i].revoked = t
      /\ \A j \in Auths : j # i => cache'[j] = cache[j]
  BY <1>1 DEF RevocationInv, RevocationTyped, AnEntry, Entry, Times
<1> HIDE DEF i, t
<1>4. ASSUME NEW k \in Tokens, killed[k] # Never
      PROVE  t >= killed[k] \/ check[c].began < killed[k] + CacheTTL + Patience
  BY <1>1, <1>2, <1>4, RevocationAssumption
<1>5. /\ check' \in [Checks -> ACheck] /\ check'[c].began = check[c].began
      /\ check'[c].read = check[c].read /\ \A d \in Checks : d # c => check'[d] = check[d]
      /\ ChecksInTime' /\ ReadCovers' /\ RevokedSoonRefused' /\ RefusedBefore'
  BY <1>1, <1>4, DecideStep
<1>6. RevocationTyped'
  BY <1>1, <1>3, <1>5 DEF RevocationInv, RevocationTyped
<1>7. Past'
  BY <1>1, <1>3, <1>5 DEF RevocationInv, Past
<1>8. EntryCovers'
  <2>1. ASSUME NEW k \in Tokens, killed[k] # Never
        PROVE  t >= killed[k] \/ clock <= killed[k] + Patience
    BY <1>1, <1>2, <2>1, RevocationAssumption
  <2> QED BY <1>1, <1>3, <2>1 DEF RevocationInv, EntryCovers
<1> QED BY <1>5, <1>6, <1>7, <1>8 DEF RevocationInv

\* A revocation, whose marker is later than the tokens it is for.
LEMMA RevokeStep ==
  ASSUME RevocationInv, NEW v \in Revokers,
         InsertMarker(v) \/ \E i \in Auths : InvalidateUserCache(v, i)
  PROVE  RevocationInv'
<1>1. CASE \E i \in Auths : InvalidateUserCache(v, i)
  <2>1. PICK i \in Auths : InvalidateUserCache(v, i)
    BY <1>1
  <2>2. UNCHANGED <<clock, born, marker, killed, check>>
    BY <2>1 DEF InvalidateUserCache
  <2>3. /\ cache' \in [Auths -> AnEntry] /\ cache'[i] = NoEntry
        /\ \A j \in Auths : j # i => cache'[j] = cache[j]
    BY <2>1 DEF InvalidateUserCache, RevocationInv, RevocationTyped, AnEntry, NoEntry, Times
  <2>4. RevocationTyped'
    BY <2>2, <2>3 DEF RevocationInv, RevocationTyped
  <2>5. NoEntry.at = Never /\ NoEntry.at <= clock /\ NoEntry.revoked <= marker
    BY DEF NoEntry, Never, RevocationInv, RevocationTyped, Times
  <2>6. Past' /\ EntryCovers'
    BY <2>2, <2>3, <2>5 DEF RevocationInv, Past, EntryCovers
  <2>7. ChecksInTime' /\ ReadCovers' /\ RevokedSoonRefused' /\ RefusedBefore'
    BY <2>2 DEF RevocationInv, ChecksInTime, ReadCovers, RevokedSoonRefused, RefusedBefore,
       IssuedBefore
  <2> QED BY <2>4, <2>6, <2>7 DEF RevocationInv
<1>2. CASE InsertMarker(v)
  <2>1. /\ UNCHANGED <<clock, born, cache, check>> /\ clock \in Nat /\ marker \in Times
        /\ marker <= clock
    BY <1>2 DEF InsertMarker, RevocationInv, RevocationTyped, Past
  <2>2. CASE UNCHANGED <<marker, killed>>
    BY <2>1, <2>2 DEF RevocationInv, RevocationTyped, Past, ChecksInTime, ReadCovers, EntryCovers,
       RevokedSoonRefused, RefusedBefore, IssuedBefore
  <2>3. CASE /\ marker' = clock
             /\ killed' = [k \in Tokens |-> IF born[k] \in 0..(clock - 1) /\ killed[k] = Never
                                           THEN clock ELSE killed[k]]
    <3>1. /\ marker' \in Times /\ marker <= marker'
          /\ killed' \in [Tokens -> Times]
          /\ \A k \in Tokens : killed'[k] = killed[k] \/ (killed'[k] = clock /\ born[k] \in 0..(clock - 1))
      BY <2>1, <2>3 DEF RevocationInv, RevocationTyped, Times
    <3>2. RevocationTyped'
      BY <2>1, <3>1 DEF RevocationInv, RevocationTyped
    <3>3. ASSUME NEW k \in Tokens, killed'[k] # Never
          PROVE  born[k] # Never /\ born[k] < killed'[k] /\ killed'[k] <= marker'
      <4>1. CASE killed'[k] = killed[k]
        BY <2>1, <3>1, <3>3, <4>1 DEF RevocationInv, RevocationTyped, Past, Times, Never
      <4>2. CASE killed'[k] = clock /\ born[k] \in 0..(clock - 1)
        BY <2>1, <2>3, <4>2 DEF Never
      <4> QED BY <3>1, <4>1, <4>2
    <3>4. /\ \A i \in Auths : cache[i].revoked <= marker'
          /\ \A c \in Checks : check[c].read <= marker'
      BY <2>1, <3>1 DEF RevocationInv, RevocationTyped, Past, Times, Never, AnEntry, ACheck
    <3>5. Past'
      BY <2>1, <2>3, <3>3, <3>4 DEF RevocationInv, Past
    <3>6. ChecksInTime'
      BY <2>1 DEF RevocationInv, ChecksInTime
    <3>7. ReadCovers'
      BY <2>1, <3>1 DEF RevocationInv, Past, ReadCovers
    <3>8. EntryCovers'
      <4>1. \A i \in Auths : cache[i].at <= clock + Patience
        BY <2>1, RevocationAssumption DEF RevocationInv, RevocationTyped, Past, AnEntry, Times,
           Never
      <4> QED BY <2>1, <3>1, <4>1 DEF RevocationInv, EntryCovers
    <3>9. RevokedSoonRefused'
      <4>1. \A c \in Checks : check[c].began < clock + CacheTTL + Patience
        BY <2>1, RevocationAssumption DEF RevocationInv, RevocationTyped, Past, ACheck, Times, Never
      <4>2. \A c \in Checks : check[c].step = "accepted" => check[c].token \in Tokens
        BY DEF RevocationInv, ChecksInTime
      <4> QED BY <2>1, <3>1, <4>1, <4>2 DEF RevocationInv, RevokedSoonRefused
    <3>10. RefusedBefore'
      <4>1. ASSUME NEW c \in Checks, check[c].step = "refused"
            PROVE  IssuedBefore(check[c].token, marker)'
        <5>1. born[check[c].token] \in Nat /\ IssuedBefore(check[c].token, marker)
          BY <4>1 DEF RevocationInv, ChecksInTime, RefusedBefore
        <5>2. born[check[c].token] - (born[check[c].token] % Second) \in Nat
          BY <5>1, SecondOf
        <5> QED BY <2>1, <3>1, <5>1, <5>2 DEF IssuedBefore, Times, Never
      <4> QED BY <2>1, <4>1 DEF RefusedBefore
    <3> QED BY <3>2, <3>5, <3>6, <3>7, <3>8, <3>9, <3>10 DEF RevocationInv
  <2> QED BY <1>2, <2>2, <2>3 DEF InsertMarker
<1> QED BY <1>1, <1>2

\* Every step preserves the invariant of revocation.
LEMMA RevocationSteps == RevocationInv /\ [RevocationNext]_revocationVars => RevocationInv'
<1>1. ASSUME RevocationInv, UNCHANGED revocationVars PROVE RevocationInv'
  BY <1>1 DEF revocationVars, RevocationInv, RevocationTyped, Past, ChecksInTime, ReadCovers,
     EntryCovers, RevokedSoonRefused, RefusedBefore, IssuedBefore
<1> QED BY <1>1, TickStep, IssueStep, LookStep, CheckStep, StoreStep, RevokeStep DEF RevocationNext

\* A token that was revoked is refused by every check that begins once the caches have
\* expired, and none is refused that was issued in a second after the last marker.
THEOREM RevocationReaches == RevocationSpec => []RevocationExact
<1>1. RevocationInv => RevocationExact
  <2>1. SUFFICES ASSUME RevocationInv, NEW c \in Checks, check[c].step = "refused"
                 PROVE  marker - (marker % Second) >= born[check[c].token] - (born[check[c].token] % Second)
    BY DEF RevocationInv, RevocationExact, LaterTokensLive
  <2>2. born[check[c].token] \in Nat /\ IssuedBefore(check[c].token, marker)
    BY <2>1 DEF RevocationInv, ChecksInTime, RefusedBefore
  <2>3. born[check[c].token] - (born[check[c].token] % Second) \in Nat
    BY <2>2, SecondOf
  <2>4. marker \in Nat
    <3>1. PICK x \in Nat : x < marker
      BY <2>2, <2>3 DEF IssuedBefore
    <3> QED BY <2>1, <3>1 DEF RevocationInv, RevocationTyped, Times, Never
  <2>5. marker - (marker % Second) \in Nat
    BY <2>4, SecondOf
  <2>6. born[check[c].token] - (born[check[c].token] % Second) <= marker - (marker % Second)
    BY <2>2, <2>4, SecondsInOrder DEF IssuedBefore
  <2> QED BY <2>3, <2>5, <2>6
<1> QED BY RevocationStarts, RevocationSteps, <1>1, PTL DEF RevocationSpec
=============================================================================
