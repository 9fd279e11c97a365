------------------------------ MODULE WinSync ------------------------------
(***************************************************************************)
(* ipc::sync::condition on Windows: a counter of waiters in shared memory, *)
(* a semaphore they wait on and a mutex for the counter.  wait counts the  *)
(* caller, releases its mutex and waits for a permit of the semaphore in   *)
(* SignalObjectAndWait, which is not one step; notify and broadcast post   *)
(* as many permits as there are waiters and take them off the counter.  A  *)
(* waiter whose time is up takes itself off, too late if a notifier has    *)
(* done so meanwhile: the counter may fall below 0.                        *)
(*                                                                         *)
(* Mutexes and semaphores are kernel objects; a mutex whose owner has died *)
(* is abandoned, and lock releases an abandoned mutex and tries again.     *)
(***************************************************************************)
EXTENDS Integers, FiniteSets

CONSTANTS
  Waiters, Notifiers,
  MaxPost,    \* bound on the calls of notify and broadcast
  MaxDeath    \* bound on the threads that die

Unowned == "free"
Abandoned == "abandoned"

ASSUME WinAssumption ==
  /\ Waiters \cap Notifiers = {} /\ {Unowned, Abandoned} \cap (Waiters \cup Notifiers) = {}
  /\ IsFiniteSet(Waiters) /\ MaxPost \in Nat /\ MaxDeath \in Nat

WinThreads == Waiters \cup Notifiers

VARIABLES
  mtx, guard, \* owners of the caller's mutex and of lock_
  cnt,        \* counter()
  permits,    \* permits of sem_
  win,        \* where each thread is
  posts,      \* calls of notify and broadcast so far
  deaths

winVars == <<mtx, guard, cnt, permits, win, posts, deaths>>

WinInit ==
  /\ mtx = Unowned /\ guard = Unowned /\ cnt = 0 /\ permits = 0 /\ posts = 0 /\ deaths = 0
  /\ win = [t \in WinThreads |-> "idle"]

Move(t, from, to) == win[t] = from /\ win' = [win EXCEPT ![t] = to]

\* mutex::lock: an abandoned mutex is taken, released and tried again.
mutex_abandoned ==
  /\ \/ mtx = Abandoned /\ mtx' = Unowned /\ UNCHANGED guard
     \/ guard = Abandoned /\ guard' = Unowned /\ UNCHANGED mtx
  /\ UNCHANGED <<cnt, permits, win, posts, deaths>>

-----------------------------------------------------------------------------
(* wait *)

\* The caller of wait has locked its mutex.
enter(t) ==
  /\ Move(t, "idle", "count")
  /\ mtx = Unowned /\ mtx' = t
  /\ UNCHANGED <<guard, cnt, permits, posts, deaths>>

\* The caller is counted, under lock_; what is below 0 is made good.
wait_count(t) ==
  /\ Move(t, "count", "counted")
  /\ guard = Unowned /\ guard' = t
  /\ cnt' = IF cnt < 0 THEN 1 ELSE cnt + 1
  /\ UNCHANGED <<mtx, permits, posts, deaths>>

wait_counted(t) ==
  /\ Move(t, "counted", "signal")
  /\ guard' = Unowned
  /\ UNCHANGED <<mtx, cnt, permits, posts, deaths>>

\* SignalObjectAndWait releases the mutex ...
wait_signal(t) ==
  /\ Move(t, "signal", "asleep")
  /\ mtx' = Unowned
  /\ UNCHANGED <<guard, cnt, permits, posts, deaths>>

\* ... and waits for a permit, ...
wait_permit(t) ==
  /\ Move(t, "asleep", "woken")
  /\ permits > 0 /\ permits' = permits - 1
  /\ UNCHANGED <<mtx, guard, cnt, posts, deaths>>

\* ... or until the time is up.
win_timeout(t) ==
  /\ Move(t, "asleep", "late")
  /\ UNCHANGED <<mtx, guard, cnt, permits, posts, deaths>>

\* The mutex again, in either case.
wait_relock(t) ==
  /\ win[t] \in {"woken", "late"}
  /\ mtx = Unowned /\ mtx' = t
  /\ win' = [win EXCEPT ![t] = IF @ = "late" THEN "uncount" ELSE "awake"]
  /\ UNCHANGED <<guard, cnt, permits, posts, deaths>>

\* Whoever was not woken is no longer to be counted.
wait_uncount(t) ==
  /\ Move(t, "uncount", "uncounted")
  /\ guard = Unowned /\ guard' = t
  /\ cnt' = cnt - 1
  /\ UNCHANGED <<mtx, permits, posts, deaths>>

wait_uncounted(t) ==
  /\ Move(t, "uncounted", "awake")
  /\ guard' = Unowned
  /\ UNCHANGED <<mtx, cnt, permits, posts, deaths>>

\* wait has returned: the caller waits again, its mutex locked, or goes.
again(t) ==
  /\ Move(t, "awake", "count")
  /\ UNCHANGED <<mtx, guard, cnt, permits, posts, deaths>>

go(t) ==
  /\ Move(t, "awake", "idle")
  /\ mtx' = Unowned
  /\ UNCHANGED <<guard, cnt, permits, posts, deaths>>

-----------------------------------------------------------------------------
(* notify and broadcast *)

call(n) ==
  /\ win[n] = "idle" /\ posts < MaxPost
  /\ guard = Unowned /\ guard' = n
  /\ posts' = posts + 1
  /\ \E f \in {"notify", "broadcast"} : win' = [win EXCEPT ![n] = f]
  /\ UNCHANGED <<mtx, cnt, permits, deaths>>

\* A permit for one waiter, if there is any.
notify(n) ==
  /\ Move(n, "notify", "posted")
  /\ IF cnt > 0 THEN permits' = permits + 1 /\ cnt' = cnt - 1 ELSE UNCHANGED <<permits, cnt>>
  /\ UNCHANGED <<mtx, guard, posts, deaths>>

\* Slip: one permit for all of them.
SlipWinBroadcast(n) ==
  /\ Move(n, "broadcast", "posted")
  /\ IF cnt > 0 THEN permits' = permits + 1 /\ cnt' = 0 ELSE UNCHANGED <<permits, cnt>>
  /\ UNCHANGED <<mtx, guard, posts, deaths>>

\* Permits for all of them.
win_broadcast(n) ==
  /\ Move(n, "broadcast", "posted")
  /\ IF cnt > 0 THEN permits' = permits + cnt /\ cnt' = 0 ELSE UNCHANGED <<permits, cnt>>
  /\ UNCHANGED <<mtx, guard, posts, deaths>>

return(n) ==
  /\ Move(n, "posted", "idle")
  /\ guard' = Unowned
  /\ UNCHANGED <<mtx, cnt, permits, posts, deaths>>

\* A thread dies where it is; what it has locked is abandoned.
die(t) ==
  /\ deaths < MaxDeath /\ deaths' = deaths + 1
  /\ win[t] # "dead" /\ win' = [win EXCEPT ![t] = "dead"]
  /\ mtx' = IF mtx = t THEN Abandoned ELSE mtx
  /\ guard' = IF guard = t THEN Abandoned ELSE guard
  /\ UNCHANGED <<cnt, permits, posts>>

WinNext ==
  \/ mutex_abandoned
  \/ \E t \in Waiters :
       \/ enter(t) \/ wait_count(t) \/ wait_counted(t) \/ wait_signal(t) \/ wait_permit(t)
       \/ win_timeout(t) \/ wait_relock(t) \/ wait_uncount(t) \/ wait_uncounted(t)
       \/ again(t) \/ go(t)
  \/ \E n \in Notifiers : call(n) \/ notify(n) \/ win_broadcast(n) \/ return(n)
  \/ \E t \in WinThreads : die(t)

WinSpec == WinInit /\ [][WinNext]_winVars

-----------------------------------------------------------------------------
(* Properties. *)

\* A waiter that is counted and neither woken nor off the counter again.
Counted(t) == win[t] \in {"counted", "signal", "asleep", "late", "uncount"}

\* Nobody waits uncounted: the counter and the permits together make up for
\* all who wait, whoever times out, dies or takes the permit of another.  A
\* notifier that finds no waiter to count therefore leaves nobody asleep
\* without a permit.
PermitsCover == cnt + permits >= Cardinality({t \in Waiters : Counted(t)})
=============================================================================
