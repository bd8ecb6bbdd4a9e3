---------------------------- MODULE JobLifecycle ----------------------------
(***************************************************************************)
(* What the job queue promises to a user: the states a job passes through, *)
(* whatever workers, instances and tables do underneath.  It is the state  *)
(* machine that the columns status and retry_count of jobs.queue follow,   *)
(* with the recovery step that the diagram of the guide leaves out.        *)
(***************************************************************************)
EXTENDS Naturals

CONSTANTS Jobs, MaxRetries

VARIABLES status, retries
vars == <<status, retries>>

Init == /\ status = [j \in Jobs |-> "none"]
        /\ retries = [j \in Jobs |-> 0]

Move(j, from, to) ==
    /\ status[j] \in from
    /\ status' = [status EXCEPT ![j] = to]

Submit(j) == Move(j, {"none"}, "pending") /\ UNCHANGED retries
Claim(j)  == Move(j, {"pending"}, "running") /\ UNCHANGED retries
Finish(j) == \E to \in {"completed", "failed"} :
                Move(j, {"running"}, to) /\ UNCHANGED retries
Cancel(j) == Move(j, {"pending", "running"}, "cancelled") /\ UNCHANGED retries

\* A failed attempt, or a failed job, goes back to the queue at the price of
\* one retry.
Retry(j) == /\ retries[j] < MaxRetries
            /\ Move(j, {"running", "failed"}, "pending")
            /\ retries' = [retries EXCEPT ![j] = @ + 1]

\* The jobs of workers that are held to be dead go back for free.
Recover(S) ==
    /\ \A j \in S : status[j] = "running"
    /\ status' = [j \in Jobs |-> IF j \in S THEN "pending" ELSE status[j]]
    /\ UNCHANGED retries

Next == \/ \E j \in Jobs : \/ Submit(j) \/ Claim(j) \/ Finish(j)
                           \/ Cancel(j) \/ Retry(j)
        \/ \E S \in SUBSET Jobs : Recover(S)

Spec == Init /\ [][Next]_vars
=============================================================================
