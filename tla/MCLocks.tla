------------------------------ MODULE MCLocks ------------------------------
(***************************************************************************)
(* The locks, each on an instance of its own: the robust mutex with its    *)
(* condition, and rw_lock.  They do not interact; part says which one      *)
(* moves, and the other stays in its initial state, in which no fair       *)
(* action is enabled.                                                      *)
(***************************************************************************)
EXTENDS Robust, RwLock

VARIABLE part

LocksInit ==
  /\ part \in {"robust", "rw_lock"}
  /\ RobustInit /\ RwInit /\ (part # "robust" => lib = "a0")

LocksNext ==
  \/ part = "robust" /\ RobustNext /\ UNCHANGED <<part, rwVars>>
  \/ part = "rw_lock" /\ RwNext /\ UNCHANGED <<part, robustVars>>

LocksSpec == /\ LocksInit /\ [][LocksNext]_<<part, robustVars, rwVars>>
             /\ RobustFairness /\ RwFairness

-----------------------------------------------------------------------------
\* A thread in a call that blocks, and out of it: one formula for both locks,
\* since one of them moves.
Blocked(t) ==
  \/ part = "robust" /\ th[t].pc \in {"lock", "sleep"}
  \/ part = "rw_lock" /\ lpc[t] = "waiting"

Unblocked(t) ==
  \/ part = "robust" /\ th[t].pc \notin {"lock", "sleep"}
  \/ part = "rw_lock" /\ lpc[t] = "writing"

\* A call that blocks ends.  lock of the robust mutex returns, with or without
\* the lock, or its caller dies: no death, hand-over or time-out of others
\* leaves it asleep.  A writer that has set its claim on rw_lock gets in: no
\* stream of readers keeps it out.
LockReturns == \A t \in Threads : Blocked(t) ~> Unblocked(t)
=============================================================================
