------------------------------- MODULE Robust -------------------------------
(***************************************************************************)
(* The inter-process mutex and condition when users die: a0/mtx.c over the *)
(* futex calls of a0/ftx.h, with robust_mutex (linux/mutex.h), the mutex   *)
(* of posix/mutex.h and condition (linux/condition.h) on top, for one      *)
(* mutex, one condition and threads of any number of processes.            *)
(*                                                                         *)
(* ftx is the futex word: who (FUTEX_TID_MASK), died (FUTEX_OWNER_DIED)    *)
(* and more (FUTEX_WAITERS); who = "bork" is FTX_NOTRECOVERABLE.  The      *)
(* kernel's part is external: lockq holds the sleepers of FUTEX_LOCK_PI in *)
(* the order it serves them, condq those of FUTEX_WAIT_REQUEUE_PI.  When a *)
(* thread ends, the kernel marks the word of every mutex on its robust     *)
(* list, and of the one in list_op_pending, that names the thread.         *)
(* lib = "pthread" stands for a platform whose pthread mutex plays the part*)
(* of mtx.c; only what the library does with its answers differs.          *)
(***************************************************************************)
EXTENDS Integers, Sequences, FiniteSets

CONSTANTS Threads,    \* threads of all processes
          MaxCrashes, \* bound: threads that die
          MaxWakes    \* bound: notify and broadcast calls

ASSUME RobustAssumption ==
  /\ MaxCrashes \in Nat /\ MaxWakes \in Nat
  /\ IsFiniteSet(Threads) /\ "none" \notin Threads /\ "bork" \notin Threads

VARIABLES lib,      \* "a0" or "pthread", fixed in Init
          ftx,      \* the mutex word
          cnd,      \* the condition word, a count of wake-ups
          lockq,    \* sleepers on the mutex, in order
          condq,    \* sleepers on the condition, in order
          th,       \* thread -> where it is and its robust list
          crashes,  \* threads that have died
          sawDeath, \* history: a condition wait came back to a dead owner's lock
          cutShort, \* history: a waker died between counting and moving sleepers
          leftOver  \* history: the last requeue was a signal that left sleepers

robustVars == <<lib, ftx, cnd, lockq, condq, th, crashes, sawDeath, cutShort, leftOver>>

Zero == [who |-> "none", died |-> FALSE, more |-> FALSE]
Bork == [who |-> "bork", died |-> TRUE, more |-> FALSE]

\* A thread between calls: pend is list_op_pending, on its robust list.
Back(pc, on) == [pc |-> pc, pend |-> FALSE, on |-> on, how |-> "lock",
                 seen |-> 0, broken |-> FALSE, then |-> "out"]

RobustInit ==
  /\ lib \in {"a0", "pthread"}
  /\ ftx = Zero /\ cnd = 0 /\ lockq = <<>> /\ condq = <<>>
  /\ crashes = 0 /\ sawDeath = FALSE /\ cutShort = FALSE /\ leftOver = FALSE
  /\ th = [t \in Threads |-> Back("out", FALSE)]

robust_op_start(r) == [r EXCEPT !.pend = TRUE]
robust_op_del(r) == [r EXCEPT !.on = FALSE]

At(t, pc) == th[t].pc = pc
Borked == ftx.who = "bork"
\* A queue without thread t, which is in it at most once.
Rest(q, t) == IF \E i \in 1..Len(q) : q[i] = t
                THEN LET at == CHOOSE i \in 1..Len(q) : q[i] = t
                     IN  SubSeq(q, 1, at - 1) \o SubSeq(q, at + 1, Len(q))
                ELSE q
Calm == UNCHANGED <<lib, cnd, condq, crashes, sawDeath, cutShort, leftOver>>

(***************************************************************************)
(* lock, timed lock, try_lock                                              *)
(***************************************************************************)
\* robust_mutex::lock and try_lock: robust_op_start names the mutex before
\* the word is touched.  A try_lock is a timed lock whose time is now; the two
\* differ when they find a dead owner.
lock_start(t, how) ==
  /\ At(t, "out")
  /\ th' = [th EXCEPT ![t] = [robust_op_start(@) EXCEPT !.pc = "lock", !.how = how]]
  /\ UNCHANGED <<ftx, lockq>> /\ Calm

\* a0_mtx_timedlock_robust up to the kernel call and the part of the kernel
\* that decides at once: refuse, take a free word (keeping FUTEX_OWNER_DIED),
\* or sleep and announce it in the word.
timedlock_robust(t, got, sleep, fail) ==
  \/ /\ Borked
     /\ th' = [th EXCEPT ![t].pc = fail]
     /\ UNCHANGED <<ftx, lockq>>
  \/ /\ ftx.who = "none" /\ lockq = <<>>
     /\ ftx' = [ftx EXCEPT !.who = t]
     /\ th' = [th EXCEPT ![t].pc = got]
     /\ UNCHANGED lockq
  \/ /\ ~Borked /\ ~(ftx.who = "none" /\ lockq = <<>>)
     /\ lockq' = Append(lockq, t)
     /\ ftx' = [ftx EXCEPT !.more = TRUE]
     /\ th' = [th EXCEPT ![t].pc = sleep]
lock_word(t) == At(t, "lock") /\ timedlock_robust(t, "got", "sleep", "fail") /\ Calm

\* The time of a timed lock is up (ETIMEDOUT).
lock_timeout(t) ==
  /\ At(t, "sleep") /\ th[t].how # "lock"
  /\ lockq' = Rest(lockq, t)
  /\ th' = [th EXCEPT ![t].pc = "fail"]
  /\ UNCHANGED ftx /\ Calm

\* a0_mtx_timedlock_impl after a success: robust_op_add, then robust_op_end
\* forgets the pending operation.
SlipEndFirst(t) ==
  /\ At(t, "got")
  /\ th' = [th EXCEPT ![t].pc = "added", ![t].pend = FALSE]
  /\ UNCHANGED <<ftx, lockq>> /\ Calm
op_add(t) ==
  /\ At(t, "got")
  /\ th' = [th EXCEPT ![t].pc = "added", ![t].on = TRUE]
  /\ UNCHANGED <<ftx, lockq>> /\ Calm
op_end(t) ==
  /\ At(t, "added")
  /\ th' = [th EXCEPT ![t] = IF ftx.died THEN [@ EXCEPT !.pend = FALSE, !.pc = "dead"] ELSE Back("in", @.on)]
  /\ UNCHANGED <<ftx, lockq>> /\ Calm
op_fail(t) ==
  /\ At(t, "fail")
  /\ th' = [th EXCEPT ![t] = Back("out", @.on)]
  /\ UNCHANGED <<ftx, lockq>> /\ Calm

\* a0_mtx_consistent after EOWNERDEAD, by the owner of the word.
Repair(t, pc, next) ==
  /\ At(t, "dead") /\ ftx.died /\ ftx.who = t
  /\ ftx' = [ftx EXCEPT !.died = FALSE]
  /\ th' = [th EXCEPT ![t] = IF pc = "in" THEN Back("in", @.on) ELSE [@ EXCEPT !.pc = pc, !.then = next]]
  /\ UNCHANGED lockq /\ Calm

\* robust_mutex::lock repairs, unlocks and starts over; its try_lock repairs,
\* unlocks and throws; the posix mutex repairs and returns with the lock.
SlipForget(t) ==
  /\ lib = "a0" /\ At(t, "dead")
  /\ th' = [th EXCEPT ![t].pc = "unlock", ![t].then = "again"]
  /\ UNCHANGED <<ftx, lockq>> /\ Calm
lock_dead(t) == lib = "a0" /\ Repair(t, "unlock", "again")
try_dead(t) == lib = "a0" /\ th[t].how = "timed" /\ Repair(t, "unlock", "out")
posix_dead(t) == lib = "pthread" /\ Repair(t, "in", "out")

\* a0_mtx_consistent refuses a word that became unrecoverable meanwhile: the
\* lock fails, with the mutex still on the thread's list.
dead_fail(t) ==
  /\ At(t, "dead") /\ ~(ftx.died /\ ftx.who = t)
  /\ th' = [th EXCEPT ![t] = Back("out", @.on)]
  /\ UNCHANGED <<ftx, lockq>> /\ Calm

(***************************************************************************)
(* unlock                                                                  *)
(***************************************************************************)
unlock_start(t) ==
  /\ At(t, "in")
  /\ th' = [th EXCEPT ![t].pc = "unlock", ![t].then = "out"]
  /\ UNCHANGED <<ftx, lockq>> /\ Calm

\* a0_mtx_unlock: only the owner; what is not consistent by now never will be.
unlock_del(t) ==
  /\ At(t, "unlock")
  /\ th' = [th EXCEPT ![t] = IF ftx.who # t THEN Back("out", @.on)
              ELSE [robust_op_del(robust_op_start(@)) EXCEPT !.pc = "give", !.broken = ftx.died]]
  /\ UNCHANGED <<ftx, lockq>> /\ Calm

\* The word alone says nobody sleeps: cleared without the kernel; otherwise
\* FUTEX_UNLOCK_PI hands it to the first sleeper, if the caller still is the
\* owner by the word.
Granted(u) == IF th[u].pc = "sleep" THEN "got" ELSE "wgot"
SlipNoKernel(t) ==
  /\ At(t, "give")
  /\ ftx' = IF ftx.who = t THEN Zero ELSE ftx
  /\ th' = [th EXCEPT ![t].pc = "given"]
  /\ UNCHANGED lockq /\ Calm
unlock_give(t) ==
  /\ At(t, "give")
  /\ \/ /\ ftx.who # t
        /\ th' = [th EXCEPT ![t].pc = "given"]
        /\ UNCHANGED <<ftx, lockq>>
     \/ /\ ftx.who = t /\ (~ftx.more \/ lockq = <<>>)
        /\ ftx' = Zero
        /\ th' = [th EXCEPT ![t].pc = "given"]
        /\ UNCHANGED lockq
     \/ /\ ftx.who = t /\ ftx.more /\ lockq # <<>>
        /\ ftx' = [who |-> Head(lockq), died |-> FALSE, more |-> TRUE]
        /\ lockq' = Tail(lockq)
        /\ th' = [th EXCEPT ![t].pc = "given", ![Head(lockq)].pc = Granted(Head(lockq))]
  /\ Calm
unlock_end(t) ==
  /\ At(t, "given")
  /\ ftx' = IF th[t].broken THEN Bork ELSE ftx
  /\ th' = [th EXCEPT ![t] = CASE @.then = "again" -> [@ EXCEPT !.pc = "lock", !.then = "out", !.broken = FALSE]
                              [] @.then = "wait" -> [@ EXCEPT !.pc = "wait", !.then = "out", !.broken = FALSE]
                              [] OTHER -> Back("out", FALSE)]
  /\ UNCHANGED lockq /\ Calm

(***************************************************************************)
(* condition                                                               *)
(***************************************************************************)
\* a0_cnd_timedwait_impl: the condition word is read under the lock, then
\* the mutex is unlocked as above.
wait_start(t, how) ==
  /\ At(t, "in")
  /\ th' = [th EXCEPT ![t].pc = "unlock", ![t].then = "wait", ![t].seen = cnd, ![t].how = how]
  /\ UNCHANGED <<ftx, lockq>> /\ Calm

cond_wait(t) == lib = "a0" /\ \E how \in {"lock", "timed"} : wait_start(t, how)
posix_wait(t) == lib = "pthread" /\ \E how \in {"lock", "timed"} : wait_start(t, how)

\* FUTEX_WAIT_REQUEUE_PI: EAGAIN when the word has moved on since, then the
\* thread locks for itself.
SlipSleepOn(t) ==
  /\ At(t, "wait")
  /\ th' = [th EXCEPT ![t].pc = "wsleep"]
  /\ condq' = Append(condq, t)
  /\ UNCHANGED <<lib, ftx, cnd, lockq, crashes, sawDeath, cutShort, leftOver>>
wait_sleep(t) ==
  /\ At(t, "wait")
  /\ IF cnd # th[t].seen
       THEN th' = [th EXCEPT ![t].pc = "wlock"] /\ UNCHANGED condq
       ELSE th' = [th EXCEPT ![t].pc = "wsleep"] /\ condq' = Append(condq, t)
  /\ UNCHANGED <<lib, ftx, cnd, lockq, crashes, sawDeath, cutShort, leftOver>>

\* ETIMEDOUT, before or after the wait was moved to the mutex.
SlipNoRelock(t) ==
  /\ th[t].pc \in {"wsleep", "wblk"} /\ th[t].how # "lock"
  /\ condq' = Rest(condq, t) /\ lockq' = Rest(lockq, t)
  /\ th' = [th EXCEPT ![t].pc = "wgot", ![t].how = "lock"]
  /\ UNCHANGED <<lib, ftx, cnd, crashes, sawDeath, cutShort, leftOver>>
wait_timeout(t) ==
  /\ th[t].pc \in {"wsleep", "wblk"} /\ th[t].how # "lock"
  /\ condq' = Rest(condq, t) /\ lockq' = Rest(lockq, t)
  /\ th' = [th EXCEPT ![t].pc = "wlock", ![t].how = "lock"]
  /\ UNCHANGED <<lib, ftx, cnd, crashes, sawDeath, cutShort, leftOver>>
wait_lock(t) == At(t, "wlock") /\ timedlock_robust(t, "wgot", "wblk", "wgot") /\ Calm

\* The end of the wait: the mutex joins the list whatever the lock said.
\* Nobody calls a0_mtx_consistent here, so a lock that came from a dead owner
\* keeps FUTEX_OWNER_DIED until the caller unlocks it.
wait_add(t) ==
  /\ At(t, "wgot")
  /\ th' = [th EXCEPT ![t].pc = "wadded", ![t].on = TRUE]
  /\ UNCHANGED <<ftx, lockq>> /\ Calm
wait_end(t) ==
  /\ At(t, "wadded")
  /\ th' = [th EXCEPT ![t] = Back("in", TRUE)]
  /\ sawDeath' = (sawDeath \/ ftx.died)
  /\ UNCHANGED <<lib, ftx, cnd, lockq, condq, crashes, cutShort, leftOver>>

\* a0_cnd_wake: the word counts up, then sleepers are moved to the mutex if
\* the word is still the one this caller has seen, else it looks again.
wake_start(t) ==
  /\ At(t, "out") /\ cnd < MaxWakes
  /\ cnd' = cnd + 1
  /\ th' = [th EXCEPT ![t].pc = "wake", ![t].seen = cnd + 1]
  /\ UNCHANGED <<lib, ftx, lockq, condq, crashes, sawDeath, cutShort, leftOver>>
wake_retry(t) ==
  /\ At(t, "wake") /\ cnd # th[t].seen
  /\ th' = [th EXCEPT ![t].seen = cnd]
  /\ UNCHANGED <<ftx, lockq>> /\ Calm

\* FUTEX_CMP_REQUEUE_PI with one wake-up and n to move: the first sleeper
\* takes a free mutex, the others queue for it; a mutex that cannot be
\* recovered has no owner to queue behind (ESRCH) and they sleep on.
requeue(t, n) ==
  /\ At(t, "wake") /\ cnd = th[t].seen
  /\ LET k == IF Borked THEN 0 ELSE IF Len(condq) < n + 1 THEN Len(condq) ELSE n + 1
         take == k > 0 /\ ftx.who = "none" /\ lockq = <<>>
         moved == SubSeq(condq, IF take THEN 2 ELSE 1, k)
         InMoved(u) == \E i \in 1..Len(moved) : moved[i] = u IN
     /\ condq' = SubSeq(condq, k + 1, Len(condq))
     /\ lockq' = lockq \o moved
     /\ ftx' = [ftx EXCEPT !.who = IF take THEN condq[1] ELSE @, !.more = @ \/ moved # <<>>]
     /\ th' = [u \in Threads |->
                 IF u = t THEN Back("out", th[u].on)
                 ELSE IF take /\ u = condq[1] THEN [th[u] EXCEPT !.pc = "wgot"]
                 ELSE IF InMoved(u) THEN [th[u] EXCEPT !.pc = "wblk"] ELSE th[u]]
     /\ leftOver' = (~Borked /\ k < Len(condq))
  /\ UNCHANGED <<lib, cnd, crashes, sawDeath, cutShort>>
signal(t) == requeue(t, 1)
broadcast(t) == requeue(t, Cardinality(Threads))

(***************************************************************************)
(* death, external                                                         *)
(***************************************************************************)
\* A thread ends anywhere: the kernel walks its robust list and the pending
\* entry and marks the word if it names the thread.
crash(t) ==
  /\ crashes < MaxCrashes /\ ~At(t, "gone")
  /\ crashes' = crashes + 1
  /\ ftx' = IF ftx.who = t /\ (th[t].on \/ th[t].pend)
              THEN [ftx EXCEPT !.who = "none", !.died = TRUE] ELSE ftx
  /\ lockq' = Rest(lockq, t) /\ condq' = Rest(condq, t)
  /\ th' = [th EXCEPT ![t] = Back("gone", FALSE)]
  /\ cutShort' = (cutShort \/ At(t, "wake"))
  /\ UNCHANGED <<lib, cnd, sawDeath, leftOver>>

\* The mutex of a dead owner goes to the first sleeper.
inherit ==
  /\ ftx.who = "none" /\ ftx.died /\ lockq # <<>>
  /\ LET u == Head(lockq) IN
       /\ ftx' = [ftx EXCEPT !.who = u, !.more = TRUE]
       /\ lockq' = Tail(lockq)
       /\ th' = [th EXCEPT ![u].pc = Granted(u)]
  /\ Calm

\* What a thread does by itself once it has called, and what it chooses.
Proceed(t) ==
  \/ lock_word(t) \/ op_add(t) \/ op_end(t) \/ op_fail(t)
  \/ lock_dead(t) \/ try_dead(t) \/ posix_dead(t) \/ dead_fail(t)
  \/ unlock_del(t) \/ unlock_give(t) \/ unlock_end(t)
  \/ wait_sleep(t) \/ wait_lock(t) \/ wait_add(t) \/ wait_end(t)
  \/ wake_retry(t) \/ broadcast(t)
Choose(t) ==
  \/ \E how \in {"lock", "timed"} : lock_start(t, how)
  \/ cond_wait(t) \/ posix_wait(t)
  \/ lock_timeout(t) \/ wait_timeout(t) \/ wake_start(t) \/ signal(t) \/ crash(t)

RobustNext == inherit \/ \E t \in Threads : Proceed(t) \/ unlock_start(t) \/ Choose(t)

RobustSpec == RobustInit /\ [][RobustNext]_robustVars

\* A thread that has called runs on, one in the critical section leaves it,
\* and the kernel passes a dead owner's mutex on.
RobustFairness ==
  /\ WF_robustVars(inherit)
  /\ \A t \in Threads : WF_robustVars(Proceed(t)) /\ WF_robustVars(unlock_start(t))

(***************************************************************************)
(* properties                                                              *)
(***************************************************************************)
\* Whoever dies where, the mutex never stays with a dead thread: at every
\* step of lock, unlock and wait the owner has the mutex on its robust list
\* or pending (mtx.c:213-220, 326-339, 357-382: robust_op_start, add, del
\* and end are ordered around the word).
\* And the deaths of owners alone never make the mutex unrecoverable: lock and
\* try_lock repair what they find (linux/mutex.h:38-49, posix/mutex.h:224);
\* only a condition wait that comes back to a dead owner's lock does.
OwnerAlive ==
  /\ ftx.who \in Threads => /\ th[ftx.who].pc # "gone"
                            /\ th[ftx.who].on \/ th[ftx.who].pend
  /\ Borked => sawDeath

\* The callers that lock or a wait let in exclude each other, through deaths,
\* hand-overs, time-outs and requeues, as long as the mutex is recoverable.
Inside(t) == th[t].pc \in {"in", "dead", "wadded"}
OneInside == Borked \/ \A t, u \in Threads : Inside(t) /\ Inside(u) => t = u

\* No wake-up is lost between reading the condition word and sleeping on it:
\* while a thread sleeps with the word changed under it, somebody is about to
\* move it, unless the mutex cannot be recovered, the waker died half way, or
\* the last call was a signal, which moves two, with more than two asleep
\* (mtx.c:348, 401-411).
WakeComes == \A t \in Threads :
  At(t, "wsleep") /\ th[t].seen # cnd =>
    (\E u \in Threads : At(u, "wake")) \/ Borked \/ cutShort \/ leftOver
=============================================================================
