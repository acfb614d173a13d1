------------------------------- MODULE ScanLock -------------------------------
(***************************************************************************)
(* What lockScan and LockForMaintenance promise their callers: at most one *)
(* scan is accepted at a time, a second one is refused and not queued, an  *)
(* accepted scan waits for running maintenance to end, and maintenance     *)
(* never starts once a scan is accepted.                                   *)
(***************************************************************************)
CONSTANTS Callers, Maintenance, NoOne

VARIABLES
    accepted,  \* the caller whose scan was accepted, or NoOne
    user       \* who works on the database: a caller, Maintenance or NoOne

lockVars == <<accepted, user>>

LockInit == accepted = NoOne /\ user = NoOne

Accept(c) == accepted = NoOne /\ accepted' = c /\ UNCHANGED user

Enter(c) == accepted = c /\ user = NoOne /\ user' = c /\ UNCHANGED accepted

Leave(c) == user = c /\ user' = NoOne /\ UNCHANGED accepted

Withdraw(c) == accepted = c /\ user # c /\ accepted' = NoOne /\ UNCHANGED user

StartMaintenance ==
    accepted = NoOne /\ user = NoOne /\ user' = Maintenance /\ UNCHANGED accepted

EndMaintenance == user = Maintenance /\ user' = NoOne /\ UNCHANGED accepted

\* The process dies: nothing of the lock survives it.
Vanish == accepted' = NoOne /\ user' = NoOne

LockNext ==
    \/ \E c \in Callers : Accept(c) \/ Enter(c) \/ Leave(c) \/ Withdraw(c)
    \/ StartMaintenance \/ EndMaintenance \/ Vanish

LockSpec == LockInit /\ [][LockNext]_lockVars
===============================================================================
