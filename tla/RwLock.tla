------------------------------- MODULE RwLock -------------------------------
(***************************************************************************)
(* ipc::rw_lock, the spinning reader-writer lock: one atomic word lc_ that *)
(* holds the number of readers and, in its top bit, a writer's claim.  A   *)
(* writer sets the bit first and then waits for the readers to leave; a    *)
(* reader counts itself in with a compare-exchange on a word without the   *)
(* bit.  Every access to the word is a step.                               *)
(***************************************************************************)
EXTENDS Naturals, FiniteSets

CONSTANT LockThreads

ASSUME LockThreadsAssumption == IsFiniteSet(LockThreads)

VARIABLES
  claim,  \* w_flag of lc_
  count,  \* the other bits of lc_: the readers inside
  lpc,    \* where each thread is
  old     \* lock_shared's copy of lc_

rwVars == <<claim, count, lpc, old>>

Unlocked == <<FALSE, 0>>
Words    == BOOLEAN \X Nat

RwInit ==
  /\ claim = FALSE /\ count = 0
  /\ lpc = [t \in LockThreads |-> "idle"]
  /\ old = [t \in LockThreads |-> Unlocked]

LockGoto(t, from, to) == lpc[t] = from /\ lpc' = [lpc EXCEPT ![t] = to]

-----------------------------------------------------------------------------
\* lock: fetch_or of w_flag.  Nobody inside: the lock is taken.
LockFree(t) ==
  /\ LockGoto(t, "idle", "writing")
  /\ ~claim /\ count = 0
  /\ claim' = TRUE
  /\ UNCHANGED <<count, old>>

\* Only readers inside: the claim is ours, wait for them to finish.
LockClaim(t) ==
  /\ LockGoto(t, "idle", "waiting")
  /\ ~claim /\ count > 0
  /\ claim' = TRUE
  /\ UNCHANGED <<count, old>>

\* The loop that waits for the reading to finish ends.
LockEnter(t) ==
  /\ LockGoto(t, "waiting", "writing")
  /\ count = 0
  /\ UNCHANGED <<claim, count, old>>

\* unlock stores 0, readers' count included.
Unlock(t) ==
  /\ LockGoto(t, "writing", "idle")
  /\ claim' = FALSE /\ count' = 0
  /\ UNCHANGED old

\* lock_shared loads the word, again and again while the claim is set.
LoadShared(t) ==
  /\ LockGoto(t, "idle", "sharing")
  /\ old' = [old EXCEPT ![t] = <<claim, count>>]
  /\ UNCHANGED <<claim, count>>

ReloadShared(t) ==
  /\ lpc[t] = "sharing" /\ old[t][1]
  /\ old' = [old EXCEPT ![t] = <<claim, count>>]
  /\ UNCHANGED <<claim, count, lpc>>

\* Slip: counting in on a word that has changed.
CountInBlind(t) ==
  /\ LockGoto(t, "sharing", "reading")
  /\ ~old[t][1]
  /\ count' = count + 1
  /\ UNCHANGED <<claim, old>>

\* The compare-exchange of old by old + 1.
CountIn(t) ==
  /\ LockGoto(t, "sharing", "reading")
  /\ ~old[t][1] /\ old[t] = <<claim, count>>
  /\ count' = count + 1
  /\ UNCHANGED <<claim, old>>

\* It fails, or fails for no reason (the weak form), and reloads old.
CountInFails(t) ==
  /\ lpc[t] = "sharing" /\ ~old[t][1]
  /\ old' = [old EXCEPT ![t] = <<claim, count>>]
  /\ UNCHANGED <<claim, count, lpc>>

\* Slip: leaving the count as it is.
UnlockSharedUncounted(t) ==
  /\ LockGoto(t, "reading", "idle")
  /\ UNCHANGED <<claim, count, old>>

\* unlock_shared: fetch_sub.
UnlockShared(t) ==
  /\ LockGoto(t, "reading", "idle")
  /\ count' = count - 1
  /\ UNCHANGED <<claim, old>>

RwNext == \E t \in LockThreads :
  \/ LockFree(t) \/ LockClaim(t) \/ LockEnter(t) \/ Unlock(t)
  \/ LoadShared(t) \/ ReloadShared(t) \/ CountIn(t) \/ CountInFails(t) \/ UnlockShared(t)

RwSpec == RwInit /\ [][RwNext]_rwVars

\* Threads leave their critical sections and go on spinning.
RwFairness == \A t \in LockThreads :
  WF_rwVars(LockEnter(t)) /\ WF_rwVars(UnlockShared(t)) /\ WF_rwVars(Unlock(t))

-----------------------------------------------------------------------------
(* Properties. *)

In(s) == {t \in LockThreads : lpc[t] = s}

\* Types: the two parts of the word lc_ and the words threads have read.
RwTypeOK ==
  /\ claim \in BOOLEAN /\ count \in Nat
  /\ lpc \in [LockThreads -> {"idle", "waiting", "writing", "sharing", "reading"}]
  /\ old \in [LockThreads -> Words]

\* A writer is alone: no other writer and no reader is inside.
Exclusive == \A t, u \in LockThreads :
  lpc[t] = "writing" /\ t # u => lpc[u] \notin {"writing", "reading"}

\* The inductive invariant: the word says who is inside, so the store of
\* unlock never wipes out a reader that has counted itself in.
LockInv ==
  /\ RwTypeOK
  /\ count = Cardinality(In("reading"))
  /\ claim <=> In("waiting") \cup In("writing") # {}
  /\ \A t, u \in In("waiting") \cup In("writing") : t = u
  /\ In("writing") # {} => count = 0
=============================================================================
