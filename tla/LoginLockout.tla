---------------------------- MODULE LoginLockout ----------------------------
(***************************************************************************)
(* The lock of a user account (SignIn in internal/auth/service.go,         *)
(* IncrementFailedLoginAttempts and ResetFailedLoginAttempts in user.go,   *)
(* setUserLockStatus in user_management.go).  SignIn reads the user once   *)
(* and writes the counter afterwards, in a statement of its own.           *)
(***************************************************************************)
EXTENDS Integers, FiniteSets

CONSTANTS
    Logins,         \* requests to sign in
    Threshold,      \* wrong passwords that lock the account
    MaxWrong,       \* bound of the model: wrong passwords
    MaxLocks,       \* bound of the model: locks by an administrator
    MaxUnwritten    \* bound of the model: statements that fail

ASSUME LockoutAssumption ==
    /\ IsFiniteSet(Logins)
    /\ Threshold \in Nat \ {0} /\ MaxWrong \in Nat
    /\ MaxLocks \in Nat /\ MaxUnwritten \in Nat

VARIABLES
    user,       \* auth.users: failed_login_attempts, is_locked and locked_until
    login,      \* the step of each request, and the user it read
    wrong,      \* history: wrong passwords compared since the last reset
    wrongs,     \* wrong passwords compared
    adminLock,  \* history: what holds of the lock of the administrator
    locks,      \* locks by an administrator
    unwritten   \* statements that failed

lockoutVars == <<user, login, wrong, wrongs, adminLock, locks, unwritten>>

User == [attempts : 0..MaxWrong, locked : BOOLEAN, until : {"null", "ahead", "past"}]
FreshUser == [attempts |-> 0, locked |-> FALSE, until |-> "null"]
NoLogin == [step |-> "idle", read |-> FreshUser]

LockoutInit ==
    /\ user = FreshUser
    /\ login = [p \in Logins |-> NoLogin]
    /\ wrong = 0 /\ wrongs = 0
    /\ adminLock = "none"
    /\ locks = 0 /\ unwritten = 0

GoesOn(p, step) == login' = [login EXCEPT ![p].step = step]
Unwritten == unwritten < MaxUnwritten /\ unwritten' = unwritten + 1

\* Mutant of Admits: a lock without a time counts as expired.
AdmitsUntimed(u) == u.until # "ahead"

\* Of a locked user: LockedUntil != nil and past.
Admits(u) == u.until = "past"

\* GetByEmail and the check of the lock.
ReadUser(p) ==
    /\ login[p] = NoLogin
    /\ user.locked => Admits(user)
    /\ login' = [login EXCEPT ![p] = [step |-> IF user.locked THEN "unlock" ELSE "compare",
                                      read |-> user]]
    /\ UNCHANGED <<user, wrong, wrongs, adminLock, locks, unwritten>>

\* ResetFailedLoginAttempts; an error is logged.
Reset ==
    \/ user' = FreshUser /\ wrong' = 0 /\ UNCHANGED unwritten
    \/ Unwritten /\ UNCHANGED <<user, wrong>>

\* The lock has expired.
UnlockExpired(p) ==
    /\ login[p].step = "unlock"
    /\ Reset
    /\ GoesOn(p, "compare")
    /\ UNCHANGED <<wrongs, adminLock, locks>>

ComparePassword(p) ==
    /\ login[p].step = "compare"
    /\ \/ GoesOn(p, "right") /\ UNCHANGED <<wrong, wrongs>>
       \/ /\ GoesOn(p, "wrong") /\ wrongs < MaxWrong
          /\ wrong' = wrong + 1 /\ wrongs' = wrongs + 1
    /\ UNCHANGED <<user, adminLock, locks, unwritten>>

\* Mutant of Incremented: the count that the request read is incremented.
IncrementedStale(u, r) ==
    [u EXCEPT !.attempts = r.attempts + 1, !.locked = r.attempts >= Threshold - 1,
              !.until = IF r.attempts >= Threshold - 1 THEN "ahead" ELSE @]

\* The update of IncrementFailedLoginAttempts, which also unlocks below the
\* threshold; what the request read of the user plays no part.
Incremented(u, r) ==
    [u EXCEPT !.attempts = @ + 1, !.locked = u.attempts >= Threshold - 1,
              !.until = IF u.attempts >= Threshold - 1 THEN "ahead" ELSE @]

WrongPassword(p) ==
    /\ login[p].step = "wrong"
    /\ \/ user' = Incremented(user, login[p].read) /\ UNCHANGED unwritten
       \/ Unwritten /\ UNCHANGED user
    /\ login' = [login EXCEPT ![p] = NoLogin]
    /\ UNCHANGED <<wrong, wrongs, adminLock, locks>>

\* The counter is reset if the user that was read had attempts.
RightPassword(p) ==
    /\ login[p].step = "right"
    /\ IF login[p].read.attempts > 0 THEN Reset ELSE UNCHANGED <<user, wrong, unwritten>>
    /\ login' = [login EXCEPT ![p] = NoLogin]
    /\ UNCHANGED <<wrongs, adminLock, locks>>

LockTimePasses ==
    /\ user.until = "ahead"
    /\ user' = [user EXCEPT !.until = "past"]
    /\ UNCHANGED <<login, wrong, wrongs, adminLock, locks, unwritten>>

\* LockUser: locked_until is left, a lock is quiet if it finds none and no request.
LockUser ==
    /\ locks < MaxLocks /\ locks' = locks + 1
    /\ user' = [user EXCEPT !.locked = TRUE]
    /\ adminLock' = IF user.until = "null" /\ \A p \in Logins : login[p] = NoLogin
                    THEN "quiet" ELSE "set"
    /\ UNCHANGED <<login, wrong, wrongs, unwritten>>

\* UnlockUser: locked_until is left as well.
UnlockUser ==
    /\ user.locked
    /\ user' = [user EXCEPT !.locked = FALSE, !.attempts = 0]
    /\ wrong' = 0
    /\ adminLock' = "none"
    /\ UNCHANGED <<login, wrongs, locks, unwritten>>

LockoutNext ==
    \/ \E p \in Logins : \/ ReadUser(p) \/ UnlockExpired(p) \/ ComparePassword(p)
                         \/ WrongPassword(p) \/ RightPassword(p)
    \/ LockTimePasses \/ LockUser \/ UnlockUser

LockoutSpec == LockoutInit /\ [][LockoutNext]_lockoutVars

(***************************************************************************)
(* Properties.                                                             *)
(***************************************************************************)
LockoutTypeOK ==
    /\ user \in User
    /\ login \in [Logins -> [step : {"idle", "unlock", "compare", "right", "wrong"},
                             read : User]]
    /\ wrong \in 0..wrongs /\ wrongs \in 0..MaxWrong
    /\ adminLock \in {"none", "set", "quiet"}
    /\ locks \in 0..MaxLocks /\ unwritten \in 0..MaxUnwritten

\* Between two resets no more wrong passwords are compared than the threshold,
\* and one for each other request that read the user before the lock; or for each
\* statement that failed.
GuessesBounded ==
    wrong <= Threshold - 1 + Cardinality(Logins) + unwritten

\* Failed logins lock an account for a time only: a lock without a time is the
\* administrator's.
LockHasTime == user.locked /\ user.until = "null" => adminLock # "none"

\* A lock of the administrator that finds no request on its way and no earlier
\* locked_until holds until the administrator lifts it.
QuietLockHolds == adminLock = "quiet" => user.locked

\* The automatic lock ends by itself and the administrator's does not.
LockHolds == LockHasTime /\ QuietLockHolds
=============================================================================
