------------------------ MODULE LeaderElectionProofs ------------------------
(***************************************************************************)
(* Proofs about LeaderElection, for every set of instances and sessions.   *)
(* Leaders are exclusive as long as no checked-out connection breaks: the  *)
(* inductive invariant ties isLeader to the session of dedicatedConn.      *)
(***************************************************************************)
EXTENDS LeaderElection, TLAPS

\* What tryAcquireLock relies on.  Connections belong to one instance each,
\* one session holds the lock, and an instance that is, or is about to become,
\* the leader has it checked out.
ConnOwned == \A i \in Instances :
    shut[i] # "gone" /\ conn[i] # NoSession => owner[conn[i]] = i
OneHolder == \A s, t \in Holders : s = t
LeaderHolds == \A i \in Instances :
    shut[i] = "no" /\ (leader[i] \/ stage[i] = "locked") =>
      conn[i] # NoSession /\ holds[conn[i]] > 0
Inv == ConnOwned /\ OneHolder /\ LeaderHolds

\* Initially nothing is held and nobody leads.
LEMMA InitInv == Init => TypeOK /\ Inv
  BY CountsAssumption
  DEF Init, Inv, TypeOK, Stages, ShutStages, ConnOwned, OneHolder, LeaderHolds, Holders

\* The end of sessions.
LEMMA EndSessionsType ==
  ASSUME TypeOK, NEW S, EndSessions(S)
  PROVE  /\ holds' \in [Sessions -> 0..MaxHolds]
         /\ owner' \in [Sessions -> Instances \union {Nobody}]
  BY CountsAssumption DEF TypeOK, EndSessions

\* The steps of the loop preserve the types.
LEMMA LoopTypeOK ==
  ASSUME TypeOK, NEW i \in Instances, LoopStep(i) PROVE TypeOK'
<1> USE DEF dbVars, cronVars, clockVars, At, Stages
<1>1. CASE StartElector(i)
  BY <1>1 DEF StartElector, TypeOK
<1>2. CASE AcquireConn(i)
  BY <1>2 DEF AcquireConn, TypeOK
<1>3. CASE ResetLeadership(i)
  BY <1>3 DEF ResetLeadership, TypeOK
<1>4. CASE UseConn(i)
  BY <1>4 DEF UseConn, TypeOK
<1>5. CASE LoopEnds(i)
  BY <1>5 DEF LoopEnds, TypeOK
<1>6. CASE QueryAnswered(i)
  <2>1. holds' \in [Sessions -> 0..MaxHolds]
    <3>1. conn[i] \in Sessions
      BY <1>6 DEF QueryAnswered, TypeOK
    <3>2. holds[conn[i]] \in 0..MaxHolds
      BY <3>1 DEF TypeOK
    <3>3. holds[conn[i]] < MaxHolds => holds[conn[i]] + 1 \in 0..MaxHolds
      BY <3>2, CountsAssumption
    <3> QED BY <1>6, <3>2, <3>3 DEF QueryAnswered, TypeOK
  <2> QED BY <1>6, <2>1 DEF QueryAnswered, TypeOK
<1>7. CASE QueryFails(i)
  <2>1. /\ holds' \in [Sessions -> 0..MaxHolds]
        /\ owner' \in [Sessions -> Instances \union {Nobody}]
    BY <1>7, EndSessionsType DEF QueryFails, TypeOK
  <2> QED BY <1>7, <2>1 DEF QueryFails, GiveUp, TypeOK
<1>8. CASE QueryFindsNoSession(i)
  BY <1>8 DEF QueryFindsNoSession, GiveUp, TypeOK
<1>9. CASE QueryPanics(i)
  BY <1>9 DEF QueryPanics, TypeOK
<1>10. CASE StoreAnswer(i)
  BY <1>10 DEF StoreAnswer, TypeOK
<1>11. CASE BecomeLeader(i)
  <2>1. due' \in [Instances -> 0..(MaxTicks + 1)]
    BY <1>11, CountsAssumption DEF BecomeLeader, TypeOK
  <2> QED BY <1>11, <2>1 DEF BecomeLeader, TypeOK
<1>12. CASE LoseLeadership(i)
  BY <1>12 DEF LoseLeadership, StopCron, TypeOK
<1> QED BY <1>1, <1>2, <1>3, <1>4, <1>5, <1>6, <1>7, <1>8, <1>9, <1>10, <1>11, <1>12
        DEF LoopStep

\* The other steps preserve the types.
LEMMA OtherTypeOK ==
  ASSUME TypeOK, NEW i \in Instances,
         ShutdownStep(i) \/ StopElector(i) \/ Crash(i) \/ Fire(i)
  PROVE  TypeOK'
<1> USE DEF dbVars, electorVars, cronVars, clockVars, Shut, ShutStages
<1>1. CASE ReleaseLock(i)
  <2>1. /\ holds' \in [Sessions -> 0..MaxHolds]
        /\ owner' \in [Sessions -> Instances \union {Nobody}]
    <3>1. CASE UNCHANGED <<holds, owner>>
      BY <3>1 DEF TypeOK
    <3>2. CASE EndSessions({conn[i]})
      BY <3>2, EndSessionsType
    <3>3. ASSUME conn[i] # NoSession,
                 holds' = [holds EXCEPT ![conn[i]] = IF @ > 0 THEN @ - 1 ELSE 0]
          PROVE  holds' \in [Sessions -> 0..MaxHolds]
      <4>1. holds[conn[i]] \in 0..MaxHolds
        BY <3>3 DEF TypeOK
      <4>2. 0 \in 0..MaxHolds /\ (holds[conn[i]] > 0 => holds[conn[i]] - 1 \in 0..MaxHolds)
        BY <4>1, CountsAssumption
      <4> QED BY <3>3, <4>2 DEF TypeOK
    <3> QED BY <1>1, <3>1, <3>2, <3>3 DEF ReleaseLock, TypeOK
  <2> QED BY <1>1, <2>1 DEF ReleaseLock, TypeOK
<1>2. CASE ClearLeader(i)
  BY <1>2 DEF ClearLeader, TypeOK
<1>3. CASE StopScheduler(i)
  BY <1>3 DEF StopScheduler, StopCron, TypeOK
<1>4. CASE ProcessExit(i)
  <2>1. /\ holds' \in [Sessions -> 0..MaxHolds]
        /\ owner' \in [Sessions -> Instances \union {Nobody}]
    BY <1>4, EndSessionsType DEF ProcessExit
  <2> QED BY <1>4, <2>1 DEF ProcessExit, EndProcess, TypeOK, Stages
<1>5. CASE StopElector(i)
  BY <1>5 DEF StopElector, TypeOK
<1>6. CASE Crash(i)
  BY <1>6 DEF Crash, EndProcess, TypeOK, Stages
<1>7. CASE Fire(i)
  <2>1. due' \in [Instances -> 0..(MaxTicks + 1)]
    BY <1>7, CountsAssumption DEF Fire, TypeOK
  <2>2. enqueued' \in [1..MaxTicks -> Nat]
    <3>1. ASSUME tick \in 1..MaxTicks
          PROVE  [enqueued EXCEPT ![tick] = @ + 1] \in [1..MaxTicks -> Nat]
      <4>1. enqueued[tick] \in Nat
        BY <3>1 DEF TypeOK
      <4>2. enqueued[tick] + 1 \in Nat
        BY <4>1
      <4> QED BY <4>2 DEF TypeOK
    <3>2. ASSUME tick \notin 1..MaxTicks
          PROVE  [enqueued EXCEPT ![tick] = @ + 1] \in [1..MaxTicks -> Nat]
      BY <3>2 DEF TypeOK
    <3> QED BY <1>7, <3>1, <3>2 DEF Fire, TypeOK
  <2> QED BY <1>7, <2>1, <2>2 DEF Fire, TypeOK
<1> QED BY <1>1, <1>2, <1>3, <1>4, <1>5, <1>6, <1>7 DEF ShutdownStep

LEMMA NextTypeOK == TypeOK /\ [Next]_vars => TypeOK'
<1> SUFFICES ASSUME TypeOK, [Next]_vars PROVE TypeOK' OBVIOUS
<1> USE DEF dbVars, electorVars, cronVars, clockVars
<1>1. ASSUME NEW i \in Instances,
             LoopStep(i) \/ ShutdownStep(i) \/ StopElector(i) \/ Crash(i) \/ Fire(i)
      PROVE  TypeOK'
  BY <1>1, LoopTypeOK, OtherTypeOK
<1>2. ASSUME NEW s \in Sessions, SessionEnds(s) PROVE TypeOK'
  <2>1. /\ holds' \in [Sessions -> 0..MaxHolds]
        /\ owner' \in [Sessions -> Instances \union {Nobody}]
    BY <1>2, EndSessionsType DEF SessionEnds
  <2> QED BY <1>2, <2>1 DEF SessionEnds, TypeOK
<1>3. CASE ClockTicks
  BY <1>3, CountsAssumption DEF ClockTicks, TypeOK
<1>4. CASE UNCHANGED vars
  BY <1>4 DEF vars, TypeOK
<1> QED BY <1>1, <1>2, <1>3, <1>4 DEF Next

\* The elector, its scheduler and the database keep their types.
THEOREM TypeCorrect == Spec => []TypeOK
<1>1. Init => TypeOK
  BY InitInv
<1> QED BY <1>1, NextTypeOK, PTL DEF Spec

-----------------------------------------------------------------------------
(***************************************************************************)
(* The inductive invariant, when no checked-out connection breaks.         *)
(***************************************************************************)
\* The end of sessions that no live instance keeps checked out.
LEMMA EndSessionsInv ==
  ASSUME TypeOK, Inv, NEW S, EndSessions(S),
         \A i \in Instances :
           /\ shut'[i] # "gone" /\ conn'[i] # NoSession =>
                shut[i] # "gone" /\ conn'[i] = conn[i] /\ conn[i] \notin S
           /\ shut'[i] = "no" /\ (leader'[i] \/ stage'[i] = "locked") =>
                /\ shut[i] = "no" /\ (leader[i] \/ stage[i] = "locked")
                /\ conn'[i] = conn[i]
  PROVE  Inv'
<1> USE DEF Inv
<1>1. ASSUME NEW i \in Instances, conn[i] # NoSession, conn[i] \notin S
      PROVE  holds'[conn[i]] = holds[conn[i]] /\ owner'[conn[i]] = owner[conn[i]]
  BY <1>1 DEF TypeOK, EndSessions
<1>2. ConnOwned'
  BY <1>1 DEF ConnOwned
<1>3. OneHolder'
  BY DEF OneHolder, Holders, EndSessions, TypeOK
<1>4. LeaderHolds'
  BY <1>1 DEF LeaderHolds
<1> QED BY <1>2, <1>3, <1>4

\* A step that leaves the database alone, and gives nobody leadership or a
\* connection.
LEMMA NothingGained ==
  ASSUME TypeOK, Inv, UNCHANGED <<holds, owner>>,
         \A i \in Instances :
           /\ shut'[i] # "gone" /\ conn'[i] # NoSession =>
                shut[i] # "gone" /\ conn'[i] = conn[i]
           /\ shut'[i] = "no" /\ (leader'[i] \/ stage'[i] = "locked") =>
                /\ shut[i] = "no" /\ (leader[i] \/ stage[i] = "locked")
                /\ conn'[i] = conn[i]
  PROVE  Inv'
<1> USE DEF Inv
<1>1. ConnOwned'
  BY DEF ConnOwned
<1>2. OneHolder'
  BY DEF OneHolder, Holders
<1>3. LeaderHolds'
  BY DEF LeaderHolds
<1> QED BY <1>1, <1>2, <1>3

\* The steps of the loop.
LEMMA LoopInv ==
  ASSUME Droppable = {}, TypeOK, Inv, NEW i \in Instances, LoopStep(i)
  PROVE  Inv'
<1> USE DEF dbVars, cronVars, clockVars, At
<1>t. /\ stage \in [Instances -> Stages] /\ leader \in [Instances -> BOOLEAN]
      /\ conn \in [Instances -> Sessions \union {NoSession}]
      /\ shut \in [Instances -> ShutStages]
  BY DEF TypeOK
<1>1. CASE StartElector(i)
  BY <1>1, <1>t, NothingGained DEF StartElector
<1>2. CASE AcquireConn(i)
  <2>0. PICK s \in Sessions : /\ owner[s] \in {i, Nobody}
                              /\ conn' = [conn EXCEPT ![i] = s]
                              /\ owner' = [owner EXCEPT ![s] = i]
    BY <1>2 DEF AcquireConn
  <2>s. shut' = shut /\ owner \in [Sessions -> Instances \union {Nobody}]
    BY <1>2 DEF AcquireConn, TypeOK
  <2>1. ConnOwned'
    <3> SUFFICES ASSUME NEW k \in Instances, shut[k] # "gone", conn'[k] # NoSession
                 PROVE  owner'[conn'[k]] = k
      BY <2>s DEF ConnOwned
    <3>1. CASE k = i
      BY <2>0, <2>s, <1>t, <3>1
    <3>2. CASE k # i
      <4>1. conn'[k] = conn[k] /\ owner[conn[k]] = k
        BY <2>0, <1>t, <3>2 DEF ConnOwned, Inv
      <4>2. conn[k] # s
        BY <4>1, <3>2, <2>0, NoSessionAssumption
      <4> QED BY <4>1, <4>2, <2>0, <2>s, <1>t
    <3> QED BY <3>1, <3>2
  <2>2. OneHolder' /\ LeaderHolds'
    BY <1>2, <1>t DEF AcquireConn, OneHolder, Holders, LeaderHolds, Inv
  <2> QED BY <2>1, <2>2 DEF Inv
<1>3. CASE ResetLeadership(i)
  BY <1>3, <1>t, NothingGained DEF ResetLeadership
<1>4. CASE UseConn(i)
  BY <1>4, <1>t, NothingGained DEF UseConn
<1>5. CASE LoopEnds(i)
  BY <1>5, <1>t, NothingGained DEF LoopEnds
<1>6. CASE QueryAnswered(i)
  <2> DEFINE s == conn[i]
  <2>1. s \in Sessions /\ UNCHANGED <<owner, conn, leader, shut>>
    BY <1>6, <1>t DEF QueryAnswered
  <2>2. ConnOwned'
    BY <2>1 DEF ConnOwned, Inv
  <2>3. CASE At(i, "query", "refused") /\ UNCHANGED holds
    BY <2>1, <2>2, <2>3, <1>t DEF Inv, OneHolder, Holders, LeaderHolds
  <2>4. CASE /\ At(i, "query", "locked") /\ MayLock(s)
             /\ holds' = [holds EXCEPT ![s] = IF @ < MaxHolds THEN @ + 1 ELSE @]
    <3>1. holds[s] \in 0..MaxHolds
      BY <2>1 DEF TypeOK
    <3>2. (IF holds[s] < MaxHolds THEN holds[s] + 1 ELSE holds[s]) > 0
      BY <3>1, CountsAssumption
    <3>3. holds'[s] > 0 /\ \A r \in Sessions \ {s} : holds'[r] = holds[r]
      BY <2>1, <2>4, <3>2 DEF TypeOK
    <3>4. OneHolder'
      BY <2>4, <3>3 DEF MayLock, OneHolder, Holders
    <3>5. LeaderHolds'
      BY <2>1, <2>4, <3>3, <1>t, NoSessionAssumption DEF LeaderHolds, Inv
    <3> QED BY <2>2, <3>4, <3>5 DEF Inv
  <2> QED BY <1>6, <2>3, <2>4 DEF QueryAnswered
<1>7. CASE QueryFails(i)
  <2>1. CASE UNCHANGED <<holds, owner>>
    BY <1>7, <2>1, <1>t, NothingGained DEF QueryFails, GiveUp
  <2>2. CASE Cancelled(i) /\ EndSessions({conn[i]})
    <3>1. \A k \in Instances \ {i} :
            shut[k] # "gone" /\ conn[k] # NoSession => conn[k] # conn[i]
      BY <1>7 DEF QueryFails, ConnOwned, Inv
    <3>2. /\ conn' = [conn EXCEPT ![i] = NoSession]
          /\ leader' = [leader EXCEPT ![i] = FALSE]
          /\ stage' = [stage EXCEPT ![i] = IF leader[i] THEN "lose" ELSE "idle"]
          /\ shut' = shut
      BY <1>7 DEF QueryFails, GiveUp
    <3> QED BY <2>2, <3>1, <3>2, <1>t, EndSessionsInv
  <2> QED BY <1>7, <2>1, <2>2 DEF QueryFails
<1>8. CASE QueryFindsNoSession(i)
  BY <1>8, <1>t, NothingGained DEF QueryFindsNoSession, GiveUp
<1>9. CASE QueryPanics(i)
  BY <1>9, <1>t, NothingGained DEF QueryPanics
<1>10. CASE StoreAnswer(i)
  BY <1>10, <1>t, NothingGained DEF StoreAnswer
<1>11. CASE BecomeLeader(i)
  BY <1>11, <1>t, NothingGained DEF BecomeLeader
<1>12. CASE LoseLeadership(i)
  BY <1>12, <1>t, NothingGained DEF LoseLeadership
<1> QED BY <1>1, <1>2, <1>3, <1>4, <1>5, <1>6, <1>7, <1>8, <1>9, <1>10, <1>11, <1>12
        DEF LoopStep

\* The steps of a shutdown, of crashes and of the scheduler.
LEMMA OtherInv ==
  ASSUME TypeOK, Inv, NEW i \in Instances,
         ShutdownStep(i) \/ StopElector(i) \/ Crash(i) \/ Fire(i)
  PROVE  Inv'
<1> USE DEF dbVars, electorVars, cronVars, clockVars, Shut
<1>t. /\ stage \in [Instances -> Stages] /\ leader \in [Instances -> BOOLEAN]
      /\ conn \in [Instances -> Sessions \union {NoSession}]
      /\ shut \in [Instances -> ShutStages]
  BY DEF TypeOK
<1>o. \A k \in Instances \ {i} :
        shut[k] # "gone" /\ shut[i] # "gone" /\ conn[k] # NoSession =>
          owner[conn[k]] = k /\ conn[k] # conn[i]
  BY DEF ConnOwned, Inv
<1>1. CASE ReleaseLock(i)
  <2>1. /\ conn' = [conn EXCEPT ![i] = NoSession]
        /\ shut' = [shut EXCEPT ![i] = "clearing"]
        /\ shut[i] = "unlocking" /\ leader' = leader /\ stage' = stage
    BY <1>1 DEF ReleaseLock
  <2>2. CASE UNCHANGED <<holds, owner>>
    BY <2>1, <2>2, <1>t, NothingGained
  <2>3. CASE EndSessions({conn[i]})
    BY <2>1, <2>3, <1>t, <1>o, EndSessionsInv
  <2>4. CASE /\ conn[i] # NoSession /\ UNCHANGED owner
             /\ holds' = [holds EXCEPT ![conn[i]] = IF @ > 0 THEN @ - 1 ELSE 0]
    <3>1. conn[i] \in Sessions
      BY <2>4, <1>t
    <3>2. \A s \in Sessions \ {conn[i]} : holds'[s] = holds[s]
      BY <2>4, <3>1 DEF TypeOK
    <3>3. holds'[conn[i]] > 0 => holds[conn[i]] > 0
      BY <2>4, <3>1 DEF TypeOK
    <3>4. ConnOwned'
      BY <2>1, <2>4, <1>t DEF ConnOwned, Inv
    <3>5. OneHolder'
      BY <3>1, <3>2, <3>3 DEF OneHolder, Holders, Inv
    <3>6. LeaderHolds'
      <4> SUFFICES ASSUME NEW k \in Instances, shut'[k] = "no",
                          leader'[k] \/ stage'[k] = "locked"
                   PROVE  conn'[k] # NoSession /\ holds'[conn'[k]] > 0
        BY DEF LeaderHolds
      <4>1. k # i /\ shut[k] = "no" /\ conn'[k] = conn[k]
        BY <2>1, <1>t
      <4>2. conn[k] # NoSession /\ holds[conn[k]] > 0
        BY <2>1, <4>1 DEF LeaderHolds, Inv
      <4>3. conn[k] # conn[i]
        BY <2>1, <4>1, <4>2, <1>o
      <4> QED BY <4>1, <4>2, <4>3, <3>2, <1>t
    <3> QED BY <3>4, <3>5, <3>6 DEF Inv
  <2> QED BY <1>1, <2>2, <2>3, <2>4 DEF ReleaseLock
<1>2. CASE ClearLeader(i)
  BY <1>2, <1>t, NothingGained DEF ClearLeader
<1>3. CASE StopScheduler(i)
  BY <1>3, <1>t, NothingGained DEF StopScheduler
<1>4. CASE ProcessExit(i)
  <2>1. /\ shut[i] = "stopped" /\ shut' = [shut EXCEPT ![i] = "gone"]
        /\ stage' = [stage EXCEPT ![i] = "ended"]
        /\ leader' = [leader EXCEPT ![i] = FALSE] /\ conn' = conn
        /\ EndSessions({s \in Sessions : owner[s] = i})
    BY <1>4 DEF ProcessExit, EndProcess
  <2> QED BY <2>1, <1>t, <1>o, EndSessionsInv
<1>5. CASE StopElector(i)
  BY <1>5, <1>t, NothingGained DEF StopElector
<1>6. CASE Crash(i)
  BY <1>6, <1>t, NothingGained DEF Crash, EndProcess
<1>7. CASE Fire(i)
  BY <1>7, <1>t, NothingGained DEF Fire
<1> QED BY <1>1, <1>2, <1>3, <1>4, <1>5, <1>6, <1>7 DEF ShutdownStep

LEMMA NextInv ==
  ASSUME Droppable = {}, TypeOK, Inv, [Next]_vars PROVE Inv'
<1> USE DEF dbVars, electorVars, cronVars, clockVars
<1>1. ASSUME NEW i \in Instances,
             LoopStep(i) \/ ShutdownStep(i) \/ StopElector(i) \/ Crash(i) \/ Fire(i)
      PROVE  Inv'
  BY <1>1, LoopInv, OtherInv
<1>2. ASSUME NEW s \in Sessions, SessionEnds(s) PROVE Inv'
  <2>1. PICK k \in Instances : owner[s] = k /\ (shut[k] = "gone" \/ s \in Pooled(k))
    BY <1>2 DEF SessionEnds
  <2>2. \A i \in Instances :
          shut[i] # "gone" /\ conn[i] # NoSession => conn[i] \notin {s}
    BY <2>1 DEF Pooled, ConnOwned, Inv
  <2> QED BY <1>2, <2>2, EndSessionsInv DEF SessionEnds
<1>3. CASE ClockTicks
  BY <1>3, NothingGained DEF ClockTicks
<1>4. CASE UNCHANGED vars
  BY <1>4, NothingGained DEF vars
<1> QED BY <1>1, <1>2, <1>3, <1>4 DEF Next

\* Two leaders would hold the lock with the same session, which belongs to one
\* of them.
LEMMA InvExclusive == TypeOK /\ Inv => LeadersExclusive
<1> SUFFICES ASSUME TypeOK, Inv, NEW i \in Instances, NEW k \in Instances,
                    Leads(i), Leads(k)
             PROVE  i = k
  BY DEF LeadersExclusive
<1>1. conn[i] # NoSession /\ holds[conn[i]] > 0 /\ owner[conn[i]] = i
  BY DEF Inv, LeaderHolds, ConnOwned, Leads, Cancelled
<1>2. conn[k] # NoSession /\ holds[conn[k]] > 0 /\ owner[conn[k]] = k
  BY DEF Inv, LeaderHolds, ConnOwned, Leads, Cancelled
<1>3. conn[i] \in Holders /\ conn[k] \in Holders
  BY <1>1, <1>2 DEF TypeOK, Holders
<1> QED BY <1>1, <1>2, <1>3 DEF Inv, OneHolder

\* Leaders are exclusive whatever queries fail, instances crash, shut down or
\* come and go, as long as the connection of an elector does not break.
THEOREM ExclusiveLeadership == Droppable = {} => (Spec => []LeadersExclusive)
<1> SUFFICES ASSUME Droppable = {} PROVE Spec => []LeadersExclusive OBVIOUS
<1>1. Init => Inv
  BY InitInv
<1>2. TypeOK /\ Inv /\ [Next]_vars => Inv'
  BY NextInv
<1> QED BY <1>1, <1>2, InvExclusive, TypeCorrect, PTL DEF Spec

-----------------------------------------------------------------------------
(***************************************************************************)
(* The end of a scheduler: its context, once cancelled, stays so.          *)
(***************************************************************************)
ContextGone == \A i \in Instances : shut[i] = "stopped" => ~live[i]

\* No step revives a context, and only StopScheduler, which cancels it, ends
\* the shutdown of the modules.
LEMMA ContextStaysGone ==
  TypeOK /\ ContextGone /\ [Next]_vars => ContextGone'
<1> SUFFICES ASSUME TypeOK, ContextGone, [Next]_vars, NEW k \in Instances,
                    shut'[k] = "stopped"
             PROVE  ~live'[k]
  BY DEF ContextGone
<1> USE DEF dbVars, electorVars, cronVars, clockVars
<1>t. /\ shut \in [Instances -> ShutStages] /\ live \in [Instances -> BOOLEAN]
      /\ shut[k] = "stopped" => ~live[k]
  BY DEF TypeOK, ContextGone
<1>1. ASSUME NEW i \in Instances, LoopStep(i) PROVE ~live'[k]
  <2>1. shut' = shut
    BY <1>1 DEF LoopStep, StartElector, AcquireConn, ResetLeadership, UseConn,
                LoopEnds, QueryAnswered, QueryFails, QueryFindsNoSession,
                QueryPanics, StoreAnswer, BecomeLeader, LoseLeadership
  <2>2. live' = live \/ live' = [live EXCEPT ![i] = FALSE]
    BY <1>1 DEF LoopStep, StartElector, AcquireConn, ResetLeadership, UseConn,
                LoopEnds, QueryAnswered, QueryFails, QueryFindsNoSession,
                QueryPanics, StoreAnswer, BecomeLeader, LoseLeadership, StopCron
  <2> QED BY <2>1, <2>2, <1>t
<1>2. ASSUME NEW i \in Instances, ShutdownStep(i) PROVE ~live'[k]
  <2>1. CASE StopScheduler(i)
    <3>1. live' = [live EXCEPT ![i] = FALSE] /\ shut' = [shut EXCEPT ![i] = "stopped"]
      BY <2>1 DEF StopScheduler, StopCron, Shut
    <3> QED BY <3>1, <1>t
  <2>2. CASE ReleaseLock(i) \/ ClearLeader(i) \/ ProcessExit(i)
    <3>1. live' = live /\ \E to \in {"clearing", "released", "gone"} :
                            shut' = [shut EXCEPT ![i] = to]
      BY <2>2 DEF ReleaseLock, ClearLeader, ProcessExit, EndProcess, Shut
    <3> QED BY <3>1, <1>t
  <2> QED BY <1>2, <2>1, <2>2 DEF ShutdownStep
<1>3. ASSUME NEW i \in Instances, StopElector(i) \/ Crash(i) \/ Fire(i)
      PROVE  ~live'[k]
  <2>1. live' = live /\ \/ shut' = shut
                        \/ \E to \in {"unlocking", "gone"} : shut' = [shut EXCEPT ![i] = to]
    BY <1>3 DEF StopElector, Crash, EndProcess, Fire, Shut
  <2> QED BY <2>1, <1>t
<1>4. ASSUME NEW s \in Sessions, SessionEnds(s) PROVE ~live'[k]
  BY <1>4, <1>t DEF SessionEnds
<1>5. CASE ClockTicks
  BY <1>5, <1>t DEF ClockTicks
<1>6. CASE UNCHANGED vars
  BY <1>6, <1>t DEF vars
<1> QED BY <1>1, <1>2, <1>3, <1>4, <1>5, <1>6 DEF Next

\* When the modules of an instance are shut down nothing is enqueued any more,
\* although the loop, which Stop does not wait for, may start the runner again.
THEOREM NothingAfterShutdown == Spec => []ShutdownIsFinal
<1>1. Init => ContextGone
  BY DEF Init, ContextGone
<1>2. TypeOK /\ ContextGone => ShutdownIsFinal
  BY DEF ContextGone, ShutdownIsFinal, Schedules, Up
<1> QED BY <1>1, <1>2, ContextStaysGone, TypeCorrect, PTL DEF Spec

-----------------------------------------------------------------------------
(***************************************************************************)
(* The ticks of the schedule, when queries do not fail and nobody shuts    *)
(* down: the runner is on at the leader only, and what it will do next is  *)
(* later than all that was done.                                           *)
(***************************************************************************)
Undisturbed == Droppable = {} /\ Stoppable = {} /\ ~QueryMayFail

NobodyStops == \A i \in Instances :
    shut[i] = "no" \/ (shut[i] = "gone" /\ stage[i] = "ended")
RunnerLeads == \A i \in Instances :
    /\ cron[i] \/ stage[i] = "become" => leader[i]
    /\ leader[i] => shut[i] = "no" /\ stage[i] # "refused"
TicksAhead == \A t \in 1..MaxTicks :
    enqueued[t] > 0 => t <= tick /\ \A i \in Instances : cron[i] => t < due[i]
TickInv == NobodyStops /\ RunnerLeads /\ TicksAhead /\ EnqueuedOnce

\* The leader keeps its connection and its lock.
LEMMA LeaderKeeps ==
  ASSUME TypeOK, Inv, TickInv, NEW i \in Instances, leader[i]
  PROVE  /\ shut[i] = "no" /\ stage[i] # "refused"
         /\ conn[i] # NoSession /\ owner[conn[i]] = i /\ MayLock(conn[i])
<1>1. shut[i] = "no" /\ stage[i] # "refused"
  BY DEF TickInv, RunnerLeads
<1>2. conn[i] # NoSession /\ holds[conn[i]] > 0 /\ owner[conn[i]] = i
  BY <1>1 DEF Inv, LeaderHolds, ConnOwned
<1>3. conn[i] \in Holders
  BY <1>2 DEF TypeOK, Holders
<1> QED BY <1>1, <1>2, <1>3 DEF Inv, OneHolder, MayLock

\* A step that fires nothing and starts no runner.
LEMMA NothingFired ==
  ASSUME TypeOK, TickInv, enqueued' = enqueued, tick' \in Nat, tick <= tick',
         due' = due, \A i \in Instances : cron'[i] => cron[i],
         NobodyStops', RunnerLeads'
  PROVE  TickInv'
<1>1. TicksAhead'
  BY DEF TicksAhead, TickInv, TypeOK
<1>2. EnqueuedOnce'
  BY DEF EnqueuedOnce, TickInv
<1> QED BY <1>1, <1>2 DEF TickInv

\* The steps of the loop: none ends the leadership.
LEMMA LoopTicks ==
  ASSUME Undisturbed, TypeOK, Inv, TickInv, NEW i \in Instances, LoopStep(i)
  PROVE  TickInv'
<1> USE DEF dbVars, cronVars, clockVars, At
<1>t. /\ stage \in [Instances -> Stages] /\ leader \in [Instances -> BOOLEAN]
      /\ shut \in [Instances -> ShutStages] /\ cron \in [Instances -> BOOLEAN]
      /\ due \in [Instances -> 0..(MaxTicks + 1)] /\ tick \in 0..MaxTicks
      /\ tick \in Nat
  BY CountsAssumption DEF TypeOK
<1>k. leader[i] => /\ shut[i] = "no" /\ stage[i] # "refused" /\ conn[i] # NoSession
                   /\ owner[conn[i]] = i /\ MayLock(conn[i])
  BY LeaderKeeps
<1>n. NobodyStops /\ RunnerLeads
  BY DEF TickInv
<1>1. ASSUME UNCHANGED <<shut, leader, cron, due, tick, enqueued>>,
             NEW to \in Stages, stage' = [stage EXCEPT ![i] = to],
             stage[i] # "ended", to # "become", leader[i] => to # "refused"
      PROVE  TickInv'
  <2>1. NobodyStops'
    BY <1>1, <1>n DEF NobodyStops
  <2>2. RunnerLeads'
    BY <1>1, <1>n, <1>t DEF RunnerLeads
  <2> QED BY <1>1, <2>1, <2>2, <1>t, NothingFired
<1>2. CASE StartElector(i) \/ AcquireConn(i) \/ UseConn(i) \/ QueryPanics(i)
  BY <1>1, <1>2 DEF StartElector, AcquireConn, UseConn, QueryPanics, Stages
<1>3. CASE LoopEnds(i)
  BY <1>1, <1>3 DEF LoopEnds, Stages
<1>4. CASE QueryAnswered(i)
  BY <1>1, <1>4, <1>k DEF QueryAnswered, Stages
<1>5. CASE ResetLeadership(i)
  BY <1>5, <1>k DEF ResetLeadership
<1>6. CASE QueryFails(i)
  <2>1. stage[i] = "query" /\ Cancelled(i)
    BY <1>6 DEF QueryFails, GiveUp, Undisturbed
  <2> QED BY <2>1, <1>n DEF NobodyStops, Cancelled
<1>7. CASE QueryFindsNoSession(i)
  <2>1. ~leader[i]
    BY <1>7, <1>k DEF QueryFindsNoSession
  <2>2. leader' = leader /\ stage' = [stage EXCEPT ![i] = "idle"]
    BY <1>7, <2>1, <1>t DEF QueryFindsNoSession, GiveUp
  <2>3. stage[i] = "query" /\ "idle" \in Stages
    BY <1>7 DEF QueryFindsNoSession, GiveUp, Stages
  <2>4. UNCHANGED <<shut, cron, due, tick, enqueued>>
    BY <1>7 DEF QueryFindsNoSession
  <2> QED BY <1>1, <2>2, <2>3, <2>4
<1>8. CASE StoreAnswer(i)
  <2>1. /\ UNCHANGED <<shut, cron, due, tick, enqueued>>
        /\ shut[i] = "no"
        /\ \/ /\ leader' = [leader EXCEPT ![i] = TRUE]
              /\ \E to \in {"idle", "become"} : stage' = [stage EXCEPT ![i] = to]
           \/ leader' = leader /\ ~leader[i] /\ stage' = [stage EXCEPT ![i] = "idle"]
    <3>1. CASE At(i, "locked", IF leader[i] THEN "idle" ELSE "become")
      <4>1. leader' = [leader EXCEPT ![i] = TRUE]
        BY <1>8, <3>1 DEF StoreAnswer
      <4> QED BY <1>8, <3>1, <4>1, <1>n DEF StoreAnswer, NobodyStops
    <3>2. CASE At(i, "refused", IF leader[i] THEN "lose" ELSE "idle")
      <4>1. ~leader[i]
        BY <3>2, <1>k
      <4>2. leader' = [leader EXCEPT ![i] = FALSE]
        BY <1>8, <3>2 DEF StoreAnswer
      <4>3. leader' = leader
        BY <4>1, <4>2, <1>t
      <4> QED BY <1>8, <3>2, <4>1, <4>3, <1>n DEF StoreAnswer, NobodyStops
    <3> QED BY <1>8, <3>1, <3>2 DEF StoreAnswer
  <2>2. NobodyStops' /\ RunnerLeads'
    BY <2>1, <1>n, <1>t DEF NobodyStops, RunnerLeads
  <2> QED BY <2>1, <2>2, <1>t, NothingFired
<1>9. CASE BecomeLeader(i)
  <2>1. /\ UNCHANGED <<shut, leader, tick, enqueued>> /\ stage[i] = "become"
        /\ stage' = [stage EXCEPT ![i] = "idle"] /\ cron' = [cron EXCEPT ![i] = TRUE]
        /\ due' = [due EXCEPT ![i] = IF cron[i] THEN due[i] ELSE tick + 1]
    BY <1>9 DEF BecomeLeader
  <2>2. NobodyStops' /\ RunnerLeads'
    BY <2>1, <1>n, <1>t DEF NobodyStops, RunnerLeads
  <2>3. ASSUME NEW t \in 1..MaxTicks, enqueued[t] > 0, NEW k \in Instances, cron'[k]
        PROVE  t < due'[k]
    <3>1. t <= tick /\ (cron[k] => t < due[k])
      BY <2>3 DEF TickInv, TicksAhead
    <3>2. CASE cron[k]
      BY <2>1, <3>1, <3>2, <1>t
    <3>3. CASE ~cron[k]
      <4>1. k = i /\ due'[k] = tick + 1
        BY <2>1, <2>3, <3>3, <1>t
      <4> QED BY <3>1, <4>1, <1>t
    <3> QED BY <3>2, <3>3
  <2>4. TicksAhead' /\ EnqueuedOnce'
    BY <2>1, <2>3 DEF TicksAhead, EnqueuedOnce, TickInv
  <2> QED BY <2>2, <2>4 DEF TickInv
<1>10. CASE LoseLeadership(i)
  <2>1. /\ UNCHANGED <<shut, leader, due, tick, enqueued>>
        /\ stage' = [stage EXCEPT ![i] = "idle"] /\ cron' = [cron EXCEPT ![i] = FALSE]
        /\ stage[i] = "lose"
    BY <1>10 DEF LoseLeadership, StopCron
  <2>2. NobodyStops' /\ RunnerLeads'
    BY <2>1, <1>n, <1>t DEF NobodyStops, RunnerLeads
  <2> QED BY <2>1, <2>2, <1>t, NothingFired
<1> QED BY <1>2, <1>3, <1>4, <1>5, <1>6, <1>7, <1>8, <1>9, <1>10 DEF LoopStep

\* The runner fires at the leader only, and for a tick that nobody fired yet.
LEMMA FireTicks ==
  ASSUME TypeOK, Inv, TickInv, NEW i \in Instances, Fire(i)
  PROVE  TickInv'
<1>1. /\ cron[i] /\ due[i] <= tick /\ due' = [due EXCEPT ![i] = tick + 1]
      /\ UNCHANGED <<electorVars, cron, tick>>
      /\ \/ enqueued' = [enqueued EXCEPT ![tick] = @ + 1]
         \/ enqueued' = enqueued
  BY DEF Fire
<1>t. /\ due \in [Instances -> 0..(MaxTicks + 1)] /\ tick \in Nat
      /\ enqueued \in [1..MaxTicks -> Nat] /\ MaxTicks \in Nat
  BY CountsAssumption DEF TypeOK
<1>2. NobodyStops' /\ RunnerLeads'
  BY <1>1 DEF electorVars, TickInv, NobodyStops, RunnerLeads
<1>3. \A k \in Instances : cron[k] => k = i
  BY <1>1, InvExclusive
  DEF LeadersExclusive, Leads, Cancelled, TickInv, RunnerLeads
<1>4. \A t \in 1..MaxTicks : enqueued[t] > 0 => t < tick
  BY <1>1, <1>t DEF TickInv, TicksAhead
<1>5. \A t \in 1..MaxTicks :
        \/ enqueued'[t] = enqueued[t]
        \/ t = tick /\ enqueued'[t] = enqueued[t] + 1
  BY <1>1, <1>t
<1>6. due'[i] = tick + 1
  BY <1>1, <1>t
<1>7. ASSUME NEW t \in 1..MaxTicks
      PROVE  /\ enqueued'[t] <= 1
             /\ enqueued'[t] > 0 => t <= tick
  <2>1. enqueued[t] \in Nat /\ enqueued[t] <= 1
    BY <1>t DEF TickInv, EnqueuedOnce
  <2> QED BY <2>1, <1>4, <1>5, <1>t
<1>8. TicksAhead'
  <2> SUFFICES ASSUME NEW t \in 1..MaxTicks, enqueued'[t] > 0
               PROVE  t <= tick' /\ \A k \in Instances : cron'[k] => t < due'[k]
    BY DEF TicksAhead
  <2> QED BY <1>1, <1>3, <1>6, <1>7, <1>t
<1> QED BY <1>2, <1>7, <1>8 DEF TickInv, EnqueuedOnce

\* All steps.
LEMMA NextTicks ==
  Undisturbed /\ TypeOK /\ Inv /\ TickInv /\ [Next]_vars => TickInv'
<1> SUFFICES ASSUME Undisturbed, TypeOK, Inv, TickInv, [Next]_vars PROVE TickInv'
  OBVIOUS
<1> USE DEF electorVars, cronVars, clockVars
<1>t. /\ stage \in [Instances -> Stages] /\ leader \in [Instances -> BOOLEAN]
      /\ shut \in [Instances -> ShutStages] /\ cron \in [Instances -> BOOLEAN]
      /\ tick \in Nat
  BY CountsAssumption DEF TypeOK
<1>n. NobodyStops /\ RunnerLeads
  BY DEF TickInv
<1>0. ASSUME UNCHANGED <<electorVars, cron, due, enqueued>>, tick' \in Nat, tick <= tick'
      PROVE  TickInv'
  BY <1>0, <1>n, NothingFired DEF NobodyStops, RunnerLeads
<1>1. ASSUME NEW i \in Instances, ShutdownStep(i) \/ StopElector(i) PROVE FALSE
  BY <1>1, <1>n
  DEF ShutdownStep, ReleaseLock, ClearLeader, StopScheduler, ProcessExit, StopElector,
      Shut, Undisturbed, NobodyStops
<1>2. ASSUME NEW i \in Instances, Crash(i) PROVE TickInv'
  <2>1. /\ shut' = [shut EXCEPT ![i] = "gone"] /\ stage' = [stage EXCEPT ![i] = "ended"]
        /\ leader' = [leader EXCEPT ![i] = FALSE] /\ cron' = [cron EXCEPT ![i] = FALSE]
        /\ UNCHANGED <<due, tick, enqueued>>
    BY <1>2 DEF Crash, EndProcess
  <2>2. NobodyStops' /\ RunnerLeads'
    BY <2>1, <1>n, <1>t DEF NobodyStops, RunnerLeads
  <2> QED BY <2>1, <2>2, <1>t, NothingFired
<1>3. ASSUME NEW s \in Sessions, SessionEnds(s) PROVE TickInv'
  BY <1>0, <1>3, <1>t DEF SessionEnds
<1>4. CASE ClockTicks
  BY <1>0, <1>4, <1>t DEF ClockTicks
<1>5. CASE UNCHANGED vars
  BY <1>0, <1>5, <1>t DEF vars
<1> QED BY <1>1, <1>2, <1>3, <1>4, <1>5, LoopTicks, FireTicks DEF Next

\* If no connection breaks, no query fails and nobody shuts down, no tick of
\* the schedule is enqueued twice, whichever leaders are killed and whenever
\* the next one starts its runner.
THEOREM TicksEnqueuedOnce == Undisturbed => (Spec => []EnqueuedOnce)
<1> SUFFICES ASSUME Undisturbed PROVE Spec => []EnqueuedOnce
  OBVIOUS
<1>1. Init => Inv /\ TickInv
  BY InitInv, CountsAssumption
  DEF Init, TickInv, NobodyStops, RunnerLeads, TicksAhead, EnqueuedOnce
<1>2. TypeOK /\ Inv /\ [Next]_vars => Inv'
  BY NextInv DEF Undisturbed
<1>3. TypeOK /\ Inv /\ TickInv /\ [Next]_vars => TickInv'
  BY NextTicks
<1>4. TickInv => EnqueuedOnce
  BY DEF TickInv
<1> QED BY <1>1, <1>2, <1>3, <1>4, TypeCorrect, PTL DEF Spec
=============================================================================
