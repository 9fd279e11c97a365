----------------------------- MODULE SyncProofs -----------------------------
(***************************************************************************)
(* rw_lock, the waiter, the condition on Windows, and the robust mutex     *)
(* with its condition, each for any finite set of threads.                 *)
(*                                                                         *)
(* LockInv, of rw_lock, is inductive.  Its heart is that count is the      *)
(* number of threads inside as readers: the two steps that change that set *)
(* change count with it, and unlock, which stores 0 in the whole word,     *)
(* runs only when the set is empty.                                        *)
(*                                                                         *)
(* NoLostWakeup, of the waiter, is not inductive by itself: a receiver     *)
(* that has found nothing and is about to sleep must not be overtaken by a *)
(* waker that broadcasts before it sleeps.  WaiterInv says why it is not:  *)
(* it holds the mutex, and the waker, which has to pass the barrier,       *)
(* cannot.                                                                 *)
(*                                                                         *)
(* WinInv counts: the waiters the counter knows of and the permits cover   *)
(* whoever waits.                                                          *)
(*                                                                         *)
(* RobustInv, of the robust mutex, ties four pieces of state together:     *)
(* where a thread is, what its robust list and list_op_pending say         *)
(* (ThreadOK), whom the futex word names (WordOK), and who is in the       *)
(* kernel's two queues (QueueOK, Served).                                  *)
(***************************************************************************)
EXTENDS Robust, RwLock, Waiter, WinSync, FiniteSetTheorems, TLAPS

-----------------------------------------------------------------------------
(* rw_lock *)

\* What a step of thread t from one place to another does to the sets In(_).
LEMMA Moves ==
  ASSUME RwTypeOK, NEW t \in LockThreads, NEW from, NEW to, LockGoto(t, from, to), from # to
  PROVE  /\ In(from)' = In(from) \ {t} /\ t \in In(from)
         /\ In(to)' = In(to) \cup {t} /\ t \notin In(to)
         /\ \A s : s # from /\ s # to => In(s)' = In(s)
BY DEF LockGoto, In, RwTypeOK

\* The readers inside can be counted.
LEMMA Countable == \A s : IsFiniteSet(In(s)) /\ Cardinality(In(s)) \in Nat
  <1>1. \A s : In(s) \subseteq LockThreads
    BY DEF In
  <1> QED BY <1>1, LockThreadsAssumption, FS_Subset, FS_CardinalityType

\* The lock starts free, with nobody inside.
LEMMA LockInit == RwInit => LockInv
  <1> SUFFICES ASSUME RwInit PROVE LockInv
    OBVIOUS
  <1>1. RwTypeOK
    BY DEF RwInit, RwTypeOK, Unlocked, Words
  <1>2. \A s : s # "idle" => In(s) = {}
    BY DEF RwInit, In
  <1>3. Cardinality(In("reading")) = 0
    BY <1>2, FS_EmptySet
  <1> QED BY <1>1, <1>2, <1>3 DEF RwInit, LockInv

\* Every step keeps the word in agreement with who is inside.
LEMMA LockStep == LockInv /\ [RwNext]_rwVars => LockInv'
  <1> SUFFICES ASSUME LockInv, [RwNext]_rwVars PROVE LockInv'
    OBVIOUS
  <1> USE DEF LockInv
  <1>1. ASSUME NEW t \in LockThreads, LockFree(t) PROVE LockInv'
    <2>1. RwTypeOK'
      BY <1>1 DEF RwTypeOK, LockFree, LockGoto
    <2>2. /\ In("writing")' = In("writing") \cup {t}
          /\ In("waiting")' = In("waiting") /\ In("reading")' = In("reading")
      BY <1>1, Moves DEF LockFree
    <2> QED BY <1>1, <2>1, <2>2 DEF LockFree
  <1>2. ASSUME NEW t \in LockThreads, LockClaim(t) PROVE LockInv'
    <2>1. RwTypeOK'
      BY <1>2 DEF RwTypeOK, LockClaim, LockGoto
    <2>2. /\ In("waiting")' = In("waiting") \cup {t}
          /\ In("writing")' = In("writing") /\ In("reading")' = In("reading")
      BY <1>2, Moves DEF LockClaim
    <2> QED BY <1>2, <2>1, <2>2 DEF LockClaim
  <1>3. ASSUME NEW t \in LockThreads, LockEnter(t) PROVE LockInv'
    <2>1. RwTypeOK'
      BY <1>3 DEF RwTypeOK, LockEnter, LockGoto
    <2>2. /\ In("waiting")' = In("waiting") \ {t} /\ t \in In("waiting")
          /\ In("writing")' = In("writing") \cup {t}
          /\ In("reading")' = In("reading")
      BY <1>3, Moves DEF LockEnter
    <2> QED BY <1>3, <2>1, <2>2 DEF LockEnter
  <1>4. ASSUME NEW t \in LockThreads, Unlock(t) PROVE LockInv'
    <2>1. RwTypeOK'
      BY <1>4 DEF RwTypeOK, Unlock, LockGoto
    <2>2. /\ In("writing")' = In("writing") \ {t} /\ t \in In("writing")
          /\ In("waiting")' = In("waiting") /\ In("reading")' = In("reading")
      BY <1>4, Moves DEF Unlock
    <2>3. t \notin In("waiting")
      BY <2>2 DEF In
    <2>4. \A u \in In("waiting") \cup In("writing") : u = t
      BY <2>2
    <2>5. In("waiting")' = {} /\ In("writing")' = {}
      BY <2>2, <2>3, <2>4
    <2>6. count' = Cardinality(In("reading"))' /\ count' = 0 /\ claim' = FALSE
      BY <1>4, <2>2 DEF Unlock
    <2> QED BY <2>1, <2>5, <2>6
  <1>5. ASSUME NEW t \in LockThreads, LoadShared(t) PROVE LockInv'
    <2>1. RwTypeOK'
      BY <1>5 DEF RwTypeOK, LoadShared, LockGoto, Words
    <2>2. /\ In("writing")' = In("writing") /\ In("waiting")' = In("waiting")
          /\ In("reading")' = In("reading")
      BY <1>5, Moves DEF LoadShared
    <2> QED BY <1>5, <2>1, <2>2 DEF LoadShared
  <1>6. ASSUME NEW t \in LockThreads, CountIn(t) PROVE LockInv'
    <2>1. RwTypeOK'
      BY <1>6 DEF RwTypeOK, CountIn, LockGoto
    <2>2. /\ In("reading")' = In("reading") \cup {t} /\ t \notin In("reading")
          /\ In("writing")' = In("writing") /\ In("waiting")' = In("waiting")
      BY <1>6, Moves DEF CountIn
    <2>3. Cardinality(In("reading") \cup {t}) = Cardinality(In("reading")) + 1
      BY <2>2, Countable, FS_AddElement
    <2>4. ~claim
      BY <1>6 DEF CountIn
    <2> QED BY <1>6, <2>1, <2>2, <2>3, <2>4 DEF CountIn
  <1>7. ASSUME NEW t \in LockThreads, UnlockShared(t) PROVE LockInv'
    <2>1. /\ In("reading")' = In("reading") \ {t} /\ t \in In("reading")
          /\ In("writing")' = In("writing") /\ In("waiting")' = In("waiting")
      BY <1>7, Moves DEF UnlockShared
    <2>2. Cardinality(In("reading") \ {t}) = Cardinality(In("reading")) - 1
      BY <2>1, Countable, FS_RemoveElement
    <2>3. Cardinality(In("reading") \ {t}) \in Nat
      BY <2>1, Countable, FS_RemoveElement, FS_CardinalityType
    <2>4. count - 1 \in Nat
      BY <2>2, <2>3
    <2>5. RwTypeOK'
      BY <1>7, <2>4 DEF RwTypeOK, UnlockShared, LockGoto
    <2>6. count > 0
      BY <2>4, Countable
    <2> QED BY <1>7, <2>1, <2>2, <2>5, <2>6 DEF UnlockShared
  <1>8. ASSUME NEW t \in LockThreads, ReloadShared(t) \/ CountInFails(t) PROVE LockInv'
    <2>1. RwTypeOK'
      BY <1>8 DEF RwTypeOK, ReloadShared, CountInFails, Words
    <2>2. \A s : In(s)' = In(s)
      BY <1>8 DEF In, ReloadShared, CountInFails
    <2> QED BY <1>8, <2>1, <2>2 DEF ReloadShared, CountInFails
  <1>9. CASE UNCHANGED rwVars
    <2>1. RwTypeOK' /\ \A s : In(s)' = In(s)
      BY <1>9 DEF rwVars, RwTypeOK, In
    <2> QED BY <1>9, <2>1 DEF rwVars
  <1> QED BY <1>1, <1>2, <1>3, <1>4, <1>5, <1>6, <1>7, <1>8, <1>9 DEF RwNext

\* The word of the lock always says who is inside.
THEOREM LockInvariance == RwSpec => []LockInv
  BY LockInit, LockStep, PTL DEF RwSpec

\* A thread between lock and unlock is alone, whatever the number of threads.
THEOREM RwLockExclusive == RwSpec => []Exclusive
  <1>1. LockInv => Exclusive
    <2> SUFFICES ASSUME LockInv, NEW t \in LockThreads, NEW u \in LockThreads,
                        lpc[t] = "writing", t # u
                 PROVE  lpc[u] \notin {"writing", "reading"}
      BY DEF Exclusive
    <2>1. t \in In("writing") /\ In("writing") # {}
      BY DEF In
    <2>2. Cardinality(In("reading")) = 0
      BY <2>1 DEF LockInv
    <2>3. In("reading") = {}
      BY <2>2, Countable, FS_EmptySet
    <2>4. lpc[u] # "writing"
      BY <2>1 DEF LockInv, In
    <2> QED BY <2>3, <2>4 DEF In
  <1> QED BY <1>1, LockInvariance, PTL

-----------------------------------------------------------------------------
(* The waiter *)

\* Nothing is put and nobody waits at first.
LEMMA WaiterInvInit == WaiterInit => WaiterInv
  <1> SUFFICES ASSUME WaiterInit PROVE WaiterInv
    OBVIOUS
  <1>1. quit \in [Receivers -> BOOLEAN] /\ got \in [Receivers -> BOOLEAN]
    BY Zenon DEF WaiterInit
  <1>2. WaiterTypeOK
    BY <1>1, WaiterAssumption DEF WaiterInit, WaiterTypeOK, RecvStates, WakeStates
  <1> QED BY <1>2, ThreadsAssumption DEF WaiterInit, WaiterInv, NoLostWakeup

\* The parts of WaiterInv that a step can disturb.
MutexInv ==
  /\ \A t \in Receivers : pc[t] \in {"check", "wait"} <=> mutex = t
  /\ \A w \in Wakers : pc[w] = "unbarrier" <=> mutex = w
WaitInv == \A t \in Receivers :
  pc[t] = "wait" /\ Reason(t) => \E w \in Wakers : pc[w] = "barrier"

\* A step of a receiver that does not take it to wait or asleep wakes nobody
\* and gives nobody a new reason.
LEMMA ReceiverStep ==
  ASSUME WaiterInv, NEW t \in Receivers, NEW to, to \notin {"wait", "asleep"},
         pc' = [pc EXCEPT ![t] = to], quit' = quit, avail' > 0 => avail > 0
  PROVE  WaitInv' /\ NoLostWakeup'
  <1>1. \A u \in Receivers : pc'[u] \in {"wait", "asleep"} => pc'[u] = pc[u]
    BY DEF WaiterInv, WaiterTypeOK
  <1>2. \A w \in Wakers : pc'[w] = pc[w]
    BY ThreadsAssumption DEF WaiterInv, WaiterTypeOK
  <1>3. \A u \in Receivers : Reason(u)' => Reason(u)
    BY DEF Reason
  <1> QED BY <1>1, <1>2, <1>3 DEF WaiterInv, WaitInv, NoLostWakeup

\* Every step of a receiver or of a waker keeps the invariant.
LEMMA WaiterInvStep == WaiterInv /\ [WaiterNext]_waiterVars => WaiterInv'
  <1> SUFFICES ASSUME WaiterInv, [WaiterNext]_waiterVars PROVE WaiterInv'
    OBVIOUS
  <1> USE WaiterAssumption, ThreadsAssumption
  <1>0. SUFFICES WaiterTypeOK' /\ MutexInv' /\ WaitInv' /\ NoLostWakeup'
    BY DEF WaiterInv, MutexInv, WaitInv
  <1>1. WaiterTypeOK /\ MutexInv /\ WaitInv /\ NoLostWakeup
    BY DEF WaiterInv, MutexInv, WaitInv
  <1>2. ASSUME NEW t \in Receivers,
               \/ BlockingRecv(t) \/ SpinTake(t) \/ SpinAgain(t) \/ TimeUp(t) \/ GiveUpWait(t) \/ Received(t)
        PROVE  WaiterTypeOK' /\ MutexInv' /\ WaitInv' /\ NoLostWakeup'
    <2>1. WaiterTypeOK'
      <3>1. CASE BlockingRecv(t)
        BY <1>1, <3>1 DEF WaiterTypeOK, BlockingRecv, Step, RecvStates
      <3>2. CASE SpinTake(t)
        BY <1>1, <3>2 DEF WaiterTypeOK, SpinTake, Take, Step, RecvStates
      <3>3. CASE SpinAgain(t)
        BY <1>1, <3>3 DEF WaiterTypeOK, SpinAgain, RecvStates
      <3>4. CASE TimeUp(t) \/ GiveUpWait(t) \/ Received(t)
        BY <1>1, <3>4 DEF WaiterTypeOK, TimeUp, GiveUpWait, Received, Step, RecvStates
      <3> QED BY <1>2, <3>1, <3>2, <3>3, <3>4
    <2>2. MutexInv'
      BY <1>1, <1>2 DEF MutexInv, WaiterTypeOK, BlockingRecv, SpinTake, SpinAgain, TimeUp, GiveUpWait, Received, Step
    <2>3. PICK to \in {"idle", "spin", "true", "lock", "relock"} : pc' = [pc EXCEPT ![t] = to]
      <3>1. pc = [pc EXCEPT ![t] = pc[t]]
        BY <1>1 DEF WaiterTypeOK
      <3> QED BY <1>2, <3>1 DEF BlockingRecv, SpinTake, SpinAgain, TimeUp, GiveUpWait, Received, Step
    <2>4. quit' = quit /\ (avail' > 0 => avail > 0)
      BY <1>1, <1>2 DEF WaiterTypeOK, BlockingRecv, SpinTake, SpinAgain, Take, TimeUp, GiveUpWait, Received
    <2> QED BY <2>1, <2>2, <2>3, <2>4, ReceiverStep
  <1>3. ASSUME NEW t \in Receivers, Lock(t) \/ CheckQuit(t) \/ CheckTake(t)
        PROVE  WaiterTypeOK' /\ MutexInv' /\ WaitInv' /\ NoLostWakeup'
    <2>1. WaiterTypeOK'
      <3>1. CASE Lock(t) \/ CheckQuit(t)
        BY <1>1, <3>1 DEF WaiterTypeOK, Lock, CheckQuit, Step, RecvStates
      <3>2. CASE CheckTake(t)
        BY <1>1, <3>2 DEF WaiterTypeOK, CheckTake, Take, Step, RecvStates
      <3> QED BY <1>3, <3>1, <3>2
    <2>2. MutexInv'
      BY <1>1, <1>3 DEF MutexInv, WaiterTypeOK, Lock, CheckQuit, CheckTake, Step
    <2>3. PICK to \in {"check", "true"} : pc' = [pc EXCEPT ![t] = to]
      BY <1>3 DEF Lock, CheckQuit, CheckTake, Step
    <2>4. quit' = quit /\ (avail' > 0 => avail > 0)
      BY <1>1, <1>3 DEF WaiterTypeOK, Lock, CheckQuit, CheckTake, Take
    <2> QED BY <2>1, <2>2, <2>3, <2>4, ReceiverStep
  <1>4. ASSUME NEW t \in Receivers, CheckNone(t)
        PROVE  WaiterTypeOK' /\ MutexInv' /\ WaitInv' /\ NoLostWakeup'
    <2>1. WaiterTypeOK'
      BY <1>1, <1>4 DEF WaiterTypeOK, CheckNone, Step, RecvStates
    <2>2. MutexInv'
      BY <1>1, <1>4 DEF MutexInv, WaiterTypeOK, CheckNone, Step
    <2>3. \A w \in Wakers : pc'[w] = pc[w]
      BY <1>1, <1>4 DEF WaiterTypeOK, CheckNone, Step
    <2>4. ~Reason(t)' /\ \A u \in Receivers : Reason(u)' = Reason(u)
      BY <1>1, <1>4 DEF WaiterTypeOK, CheckNone, Reason
    <2>5. \A u \in Receivers \ {t} : pc'[u] = pc[u]
      BY <1>1, <1>4 DEF WaiterTypeOK, CheckNone, Step
    <2> QED BY <1>1, <2>1, <2>2, <2>3, <2>4, <2>5 DEF WaitInv, NoLostWakeup
  <1>5. ASSUME NEW t \in Receivers, Sleep(t)
        PROVE  WaiterTypeOK' /\ MutexInv' /\ WaitInv' /\ NoLostWakeup'
    <2>1. WaiterTypeOK'
      BY <1>1, <1>5 DEF WaiterTypeOK, Sleep, Step, RecvStates
    <2>2. MutexInv'
      BY <1>1, <1>5 DEF MutexInv, WaiterTypeOK, Sleep, Step
    <2>3. \A w \in Wakers : pc'[w] = pc[w]
      BY <1>1, <1>5 DEF WaiterTypeOK, Sleep, Step
    <2>4. pc[t] = "wait" /\ \A u \in Receivers : Reason(u)' = Reason(u)
      BY <1>5 DEF Sleep, Step, Reason
    <2>5. \A u \in Receivers \ {t} : pc'[u] = pc[u]
      BY <1>1, <1>5 DEF WaiterTypeOK, Sleep, Step
    <2>6. pc'[t] = "asleep"
      BY <1>1, <1>5 DEF WaiterTypeOK, Sleep, Step
    <2> QED BY <1>1, <2>1, <2>2, <2>3, <2>4, <2>5, <2>6 DEF WaitInv, NoLostWakeup
  <1>6. ASSUME NEW w \in Wakers, Put(w) \/ \E t \in Receivers : Quit(w, t)
        PROVE  WaiterTypeOK' /\ MutexInv' /\ WaitInv' /\ NoLostWakeup'
    <2>1. WaiterTypeOK'
      <3>1. CASE Put(w)
        BY <1>1, <3>1 DEF WaiterTypeOK, Put, Step, WakeStates
      <3>2. ASSUME NEW t \in Receivers, Quit(w, t) PROVE WaiterTypeOK'
        <4>1. quit' \in [Receivers -> BOOLEAN]
          BY <1>1, <3>2 DEF WaiterTypeOK, Quit
        <4> QED BY <1>1, <3>2, <4>1 DEF WaiterTypeOK, Quit, Step, WakeStates
      <3> QED BY <1>6, <3>1, <3>2
    <2>2. MutexInv'
      BY <1>1, <1>6 DEF MutexInv, WaiterTypeOK, Put, Quit, Step
    <2>3. pc'[w] = "barrier"
      BY <1>1, <1>6 DEF WaiterTypeOK, Put, Quit, Step
    <2> QED BY <2>1, <2>2, <2>3 DEF WaitInv, NoLostWakeup
  <1>7. ASSUME NEW w \in Wakers, Barrier(w)
        PROVE  WaiterTypeOK' /\ MutexInv' /\ WaitInv' /\ NoLostWakeup'
    <2>1. WaiterTypeOK'
      BY <1>1, <1>7 DEF WaiterTypeOK, Barrier, Step, WakeStates
    <2>2. MutexInv'
      BY <1>1, <1>7 DEF MutexInv, WaiterTypeOK, Barrier, Step
    <2>3. \A t \in Receivers : pc'[t] = pc[t] /\ pc[t] # "wait"
      BY <1>1, <1>7 DEF WaiterTypeOK, MutexInv, Barrier, Step
    <2>4. pc'[w] = "unbarrier"
      BY <1>1, <1>7 DEF WaiterTypeOK, Barrier, Step
    <2> QED BY <2>1, <2>2, <2>3, <2>4 DEF WaitInv, NoLostWakeup
  <1>8. ASSUME NEW w \in Wakers, Unbarrier(w)
        PROVE  WaiterTypeOK' /\ MutexInv' /\ WaitInv' /\ NoLostWakeup'
    <2>1. WaiterTypeOK'
      BY <1>1, <1>8 DEF WaiterTypeOK, Unbarrier, Step, WakeStates
    <2>2. MutexInv'
      BY <1>1, <1>8 DEF MutexInv, WaiterTypeOK, Unbarrier, Step
    <2>3. \A t \in Receivers : pc'[t] = pc[t] /\ pc[t] # "wait"
      BY <1>1, <1>8 DEF WaiterTypeOK, MutexInv, Unbarrier, Step
    <2>4. pc'[w] = "broadcast"
      BY <1>1, <1>8 DEF WaiterTypeOK, Unbarrier, Step
    <2> QED BY <2>1, <2>2, <2>3, <2>4 DEF WaitInv, NoLostWakeup
  <1>9. ASSUME NEW w \in Wakers, Broadcast(w)
        PROVE  WaiterTypeOK' /\ MutexInv' /\ WaitInv' /\ NoLostWakeup'
    <2>1. WaiterTypeOK'
      BY <1>1, <1>9 DEF WaiterTypeOK, Broadcast, RecvStates, WakeStates
    <2>2. MutexInv'
      BY <1>1, <1>9 DEF MutexInv, WaiterTypeOK, Broadcast
    <2>3. \A t \in Receivers : pc'[t] # "asleep" /\ (pc'[t] = "wait" => pc[t] = "wait")
      BY <1>1, <1>9 DEF WaiterTypeOK, Broadcast
    <2>4. \A v \in Wakers : pc[v] = "barrier" => pc'[v] = "barrier"
      BY <1>1, <1>9 DEF WaiterTypeOK, Broadcast
    <2>5. \A t \in Receivers : Reason(t)' = Reason(t)
      BY <1>9 DEF Broadcast, Reason
    <2> QED BY <1>1, <2>1, <2>2, <2>3, <2>4, <2>5 DEF WaitInv, NoLostWakeup
  <1>10. CASE UNCHANGED waiterVars
    BY <1>1, <1>10 DEF waiterVars, WaiterTypeOK, MutexInv, WaitInv, NoLostWakeup, Reason
  <1> QED BY <1>2, <1>3, <1>4, <1>5, <1>6, <1>7, <1>8, <1>9, <1>10 DEF WaiterNext, Receiving, Waking

\* The invariant of the waiter.
THEOREM WaiterInvariance == WaiterSpec => []WaiterInv
  BY WaiterInvInit, WaiterInvStep, PTL DEF WaiterSpec

\* No receiver sleeps through a message or through the end of its handle
\* unless a waker is on its way: the barrier of waiter::broadcast is enough.
THEOREM WaiterNoLostWakeup == WaiterSpec => []NoLostWakeup
  <1>1. WaiterInv => NoLostWakeup
    BY DEF WaiterInv
  <1> QED BY <1>1, WaiterInvariance, PTL

-----------------------------------------------------------------------------
(* The condition on Windows *)

WinPlaces == {"idle", "count", "counted", "signal", "asleep", "woken", "late", "uncount",
              "uncounted", "awake", "notify", "broadcast", "posted", "dead"}

WinTypeOK == cnt \in Int /\ permits \in Nat /\ win \in [WinThreads -> WinPlaces]

\* The waiters that cnt and the permits have to make up for.
Waiting == {t \in Waiters : Counted(t)}

\* PermitsCover with the types it needs is inductive.
WinInv == WinTypeOK /\ cnt + permits >= Cardinality(Waiting)

\* They can be counted.
LEMMA WaitingFinite == IsFiniteSet(Waiting) /\ Cardinality(Waiting) \in Nat
  <1>1. Waiting \in SUBSET Waiters
    BY DEF Waiting
  <1> QED BY <1>1, WinAssumption, FS_Subset, FS_CardinalityType

\* What a step of one thread makes of them.
LEMMA WaitingStep ==
  ASSUME NEW t \in WinThreads, \A u \in WinThreads \ {t} : win'[u] = win[u]
  PROVE  /\ t \in Waiters /\ Counted(t)' /\ ~Counted(t)
                 => Waiting' = Waiting \cup {t} /\ Cardinality(Waiting') = Cardinality(Waiting) + 1
         /\ t \in Waiters /\ ~Counted(t)' /\ Counted(t)
                 => Waiting' = Waiting \ {t} /\ Cardinality(Waiting') = Cardinality(Waiting) - 1
         /\ (Counted(t)' <=> Counted(t)) => Waiting' = Waiting
         /\ ~Counted(t)' => Cardinality(Waiting') <= Cardinality(Waiting)
  <1>0. \A u \in Waiters \ {t} : Counted(u)' <=> Counted(u)
    BY DEF Counted, WinThreads
  <1>1. ASSUME t \in Waiters, Counted(t)', ~Counted(t)
        PROVE  Waiting' = Waiting \cup {t} /\ Cardinality(Waiting') = Cardinality(Waiting) + 1
    <2>1. Waiting' = Waiting \cup {t} /\ t \notin Waiting
      BY <1>0, <1>1 DEF Waiting
    <2>2. Cardinality(Waiting \cup {t}) = Cardinality(Waiting) + 1
      BY <2>1, WaitingFinite, FS_AddElement
    <2> QED BY <2>1, <2>2
  <1>2. ASSUME t \in Waiters, ~Counted(t)', Counted(t)
        PROVE  Waiting' = Waiting \ {t} /\ Cardinality(Waiting') = Cardinality(Waiting) - 1
    <2>1. Waiting' = Waiting \ {t} /\ t \in Waiting
      BY <1>0, <1>2 DEF Waiting
    <2>2. Cardinality(Waiting \ {t}) = Cardinality(Waiting) - 1
      BY <2>1, WaitingFinite, FS_RemoveElement
    <2> QED BY <2>1, <2>2
  <1>3. ASSUME Counted(t)' <=> Counted(t) PROVE Waiting' = Waiting
    BY <1>0, <1>3 DEF Waiting
  <1>4. ASSUME ~Counted(t)' PROVE Cardinality(Waiting') <= Cardinality(Waiting)
    <2>1. CASE t \in Waiters /\ Counted(t)
      BY <1>2, <1>4, <2>1, WaitingFinite
    <2>2. CASE ~(t \in Waiters /\ Counted(t))
      <3>1. Waiting' = Waiting
        BY <1>0, <1>4, <2>2 DEF Waiting
      <3> QED BY <3>1, WaitingFinite
    <2> QED BY <2>1, <2>2
  <1> QED BY <1>1, <1>2, <1>3, <1>4

\* A step of a thread from one place to another, types and places.
LEMMA WinMove ==
  ASSUME WinTypeOK, NEW t \in WinThreads, NEW from, NEW to \in WinPlaces, Move(t, from, to)
  PROVE  /\ win' \in [WinThreads -> WinPlaces] /\ win[t] = from /\ win'[t] = to
         /\ \A u \in WinThreads \ {t} : win'[u] = win[u]
  BY DEF WinTypeOK, Move

\* Every step keeps the counter and the permits in line with those who wait.
LEMMA WinStep == WinInv /\ [WinNext]_winVars => WinInv'
  <1> SUFFICES ASSUME WinInv, [WinNext]_winVars PROVE WinInv'
    OBVIOUS
  <1>0. /\ WinTypeOK /\ cnt \in Int /\ permits \in Nat /\ cnt + permits >= Cardinality(Waiting)
        /\ Cardinality(Waiting) \in Nat
    BY WaitingFinite DEF WinInv, WinTypeOK
  <1>1. ASSUME UNCHANGED <<cnt, permits, win>> PROVE WinInv'
    <2>1. Waiting' = Waiting
      BY <1>1 DEF Waiting, Counted
    <2> QED BY <1>0, <1>1, <2>1 DEF WinInv, WinTypeOK
  <1>2. CASE mutex_abandoned \/ UNCHANGED winVars
    BY <1>1, <1>2 DEF mutex_abandoned, winVars
  <1>3. ASSUME NEW t \in Waiters, wait_count(t) PROVE WinInv'
    <2>1. /\ win' \in [WinThreads -> WinPlaces] /\ win[t] = "count" /\ win'[t] = "counted"
          /\ \A u \in WinThreads \ {t} : win'[u] = win[u]
      BY <1>0, <1>3, WinMove DEF wait_count, WinThreads, WinPlaces
    <2>2. Cardinality(Waiting') = Cardinality(Waiting) + 1
      BY <2>1, WaitingStep DEF Counted, WinThreads
    <2>3. permits' = permits /\ cnt' = IF cnt < 0 THEN 1 ELSE cnt + 1
      BY <1>3 DEF wait_count
    <2> QED BY <1>0, <2>1, <2>2, <2>3 DEF WinInv, WinTypeOK
  <1>4. ASSUME NEW t \in Waiters, wait_permit(t) PROVE WinInv'
    <2>1. /\ win' \in [WinThreads -> WinPlaces] /\ win[t] = "asleep" /\ win'[t] = "woken"
          /\ \A u \in WinThreads \ {t} : win'[u] = win[u]
      BY <1>0, <1>4, WinMove DEF wait_permit, WinThreads, WinPlaces
    <2>2. Cardinality(Waiting') = Cardinality(Waiting) - 1
      BY <2>1, WaitingStep DEF Counted, WinThreads
    <2>3. permits > 0 /\ permits' = permits - 1 /\ cnt' = cnt
      BY <1>4 DEF wait_permit
    <2> QED BY <1>0, <2>1, <2>2, <2>3 DEF WinInv, WinTypeOK
  <1>5. ASSUME NEW t \in Waiters, wait_uncount(t) PROVE WinInv'
    <2>1. /\ win' \in [WinThreads -> WinPlaces] /\ win[t] = "uncount" /\ win'[t] = "uncounted"
          /\ \A u \in WinThreads \ {t} : win'[u] = win[u]
      BY <1>0, <1>5, WinMove DEF wait_uncount, WinThreads, WinPlaces
    <2>2. Cardinality(Waiting') = Cardinality(Waiting) - 1
      BY <2>1, WaitingStep DEF Counted, WinThreads
    <2>3. permits' = permits /\ cnt' = cnt - 1
      BY <1>5 DEF wait_uncount
    <2> QED BY <1>0, <2>1, <2>2, <2>3 DEF WinInv, WinTypeOK
  <1>6. ASSUME NEW t \in WinThreads, UNCHANGED <<cnt, permits>>,
               win' \in [WinThreads -> WinPlaces], \A u \in WinThreads \ {t} : win'[u] = win[u],
               Counted(t)' => Counted(t)
        PROVE  WinInv'
    <2>1. Cardinality(Waiting') <= Cardinality(Waiting)
      <3>1. CASE ~Counted(t)'
        BY <1>6, <3>1, WaitingStep
      <3>2. CASE Counted(t)'
        BY <1>0, <1>6, <3>2, WaitingStep
      <3> QED BY <3>1, <3>2
    <2>2. Cardinality(Waiting') \in Nat
      <3>1. Waiting' \in SUBSET Waiters
        BY DEF Waiting
      <3> QED BY <3>1, WinAssumption, FS_Subset, FS_CardinalityType
    <2> QED BY <1>0, <1>6, <2>1, <2>2 DEF WinInv, WinTypeOK
  <1>7. ASSUME NEW t \in Waiters,
               \/ enter(t) \/ wait_counted(t) \/ wait_signal(t) \/ win_timeout(t)
               \/ wait_uncounted(t) \/ again(t) \/ go(t)
        PROVE  WinInv'
    <2>1. /\ t \in WinThreads /\ UNCHANGED <<cnt, permits>>
          /\ \/ Move(t, "idle", "count") \/ Move(t, "counted", "signal") \/ Move(t, "signal", "asleep")
             \/ Move(t, "asleep", "late") \/ Move(t, "uncounted", "awake") \/ Move(t, "awake", "count")
             \/ Move(t, "awake", "idle")
      BY <1>7 DEF enter, wait_counted, wait_signal, win_timeout, wait_uncounted, again, go, WinThreads
    <2>2. /\ win' \in [WinThreads -> WinPlaces] /\ \A u \in WinThreads \ {t} : win'[u] = win[u]
          /\ Counted(t)' => Counted(t)
      BY <1>0, <2>1, WinMove DEF Counted, WinPlaces
    <2> QED BY <1>6, <2>1, <2>2
  <1>8. ASSUME NEW t \in Waiters, wait_relock(t) PROVE WinInv'
    <2>1. /\ t \in WinThreads /\ UNCHANGED <<cnt, permits>> /\ win[t] \in {"woken", "late"}
          /\ win' = [win EXCEPT ![t] = IF @ = "late" THEN "uncount" ELSE "awake"]
      BY <1>8 DEF wait_relock, WinThreads
    <2>2. /\ win' \in [WinThreads -> WinPlaces] /\ \A u \in WinThreads \ {t} : win'[u] = win[u]
          /\ Counted(t)' => Counted(t)
      BY <1>0, <2>1 DEF WinTypeOK, Counted, WinPlaces
    <2> QED BY <1>6, <2>1, <2>2
  <1>9. ASSUME NEW n \in Notifiers, call(n) \/ return(n) PROVE WinInv'
    <2>1. n \in WinThreads /\ n \notin Waiters /\ UNCHANGED <<cnt, permits>>
      BY <1>9, WinAssumption DEF call, return, WinThreads
    <2>2. /\ win' \in [WinThreads -> WinPlaces] /\ \A u \in WinThreads \ {n} : win'[u] = win[u]
          /\ ~Counted(n)'
      BY <1>0, <1>9, <2>1 DEF WinTypeOK, call, return, Move, Counted, WinPlaces
    <2> QED BY <1>6, <2>1, <2>2
  <1>10. ASSUME NEW n \in Notifiers, notify(n) \/ win_broadcast(n) PROVE WinInv'
    <2>1. n \in WinThreads /\ (Move(n, "notify", "posted") \/ Move(n, "broadcast", "posted"))
      BY <1>10 DEF notify, win_broadcast, WinThreads
    <2>2. /\ win' \in [WinThreads -> WinPlaces] /\ \A u \in WinThreads \ {n} : win'[u] = win[u]
          /\ ~Counted(n)' /\ ~Counted(n)
      BY <1>0, <2>1, WinMove DEF Counted, WinPlaces
    <2>3. Waiting' = Waiting
      BY <2>1, <2>2, WaitingStep
    <2>4. cnt' \in Int /\ permits' \in Nat /\ cnt' + permits' = cnt + permits
      BY <1>0, <1>10 DEF notify, win_broadcast
    <2> QED BY <1>0, <2>2, <2>3, <2>4 DEF WinInv, WinTypeOK
  <1>11. ASSUME NEW t \in WinThreads, die(t) PROVE WinInv'
    <2>1. /\ win' \in [WinThreads -> WinPlaces] /\ \A u \in WinThreads \ {t} : win'[u] = win[u]
          /\ ~Counted(t)' /\ UNCHANGED <<cnt, permits>>
      BY <1>0, <1>11 DEF WinTypeOK, die, Counted, WinPlaces
    <2> QED BY <1>6, <2>1
  <1> QED BY <1>2, <1>3, <1>4, <1>5, <1>7, <1>8, <1>9, <1>10, <1>11 DEF WinNext

\* The counter and the permits make up for all who wait on the Windows
\* condition, however many threads wait, time out, die or take the permit of
\* another, although the counter may fall below 0.
THEOREM WinPermitsCover == WinSpec => []PermitsCover
  <1>1. WinInit => WinInv
    <2> SUFFICES ASSUME WinInit PROVE WinInv
      OBVIOUS
    <2>1. Waiting = {}
      BY DEF WinInit, Waiting, Counted, WinThreads
    <2> QED BY <2>1, FS_EmptySet DEF WinInit, WinInv, WinTypeOK, WinPlaces
  <1>2. WinInv => PermitsCover
    BY DEF WinInv, PermitsCover, Waiting
  <1> QED BY <1>1, <1>2, WinStep, PTL DEF WinSpec

-----------------------------------------------------------------------------
(* The robust mutex *)

\* The places where list_op_pending must name the mutex, those where it must
\* be on the robust list, and those of an owner of the word.
Pending == {"lock", "sleep", "got", "give", "given", "wait", "wsleep", "wlock", "wblk", "wgot"}
Listed == {"added", "dead", "in", "unlock", "wadded"}
Owning == {"got", "added", "dead", "in", "unlock", "give", "wgot", "wadded"}
Asleep == {"sleep", "wblk", "wsleep"}
Places == Pending \cup Listed \cup {"out", "fail", "wake", "gone"}

ThreadRecords == [pc : Places,
                  pend : BOOLEAN, on : BOOLEAN, how : {"lock", "timed"}, seen : Nat,
                  broken : BOOLEAN, then : {"out", "again", "wait"}]
FutexWords == [who : Threads \cup {"none", "bork"}, died : BOOLEAN, more : BOOLEAN]

RobustTypeOK ==
  /\ ftx \in FutexWords /\ cnd \in Nat /\ sawDeath \in BOOLEAN
  /\ lockq \in Seq(Threads) /\ condq \in Seq(Threads)
  /\ th \in [Threads -> ThreadRecords]

\* Every place a queue holds is another thread's; t is in the queue.
Once(q) == \A i, j \in 1..Len(q) : q[i] = q[j] => i = j
Among(q, t) == \E i \in 1..Len(q) : q[i] = t

ThreadOK(r) == /\ r.pc \in Pending => r.pend
               /\ r.pc \in Listed => r.on
               /\ r.broken => sawDeath

WordOK ==
  /\ \A t \in Threads : th[t].pc \in Owning => ftx.who \in {t, "bork"}
  /\ \A t \in Threads : ftx.who = t => th[t].pc \in Owning
  /\ Borked => sawDeath
  /\ \A t \in Threads : ftx.who = t /\ th[t].pc \in {"in", "unlock"} /\ ftx.died => sawDeath
  /\ \A t \in Threads : ftx.who = t /\ th[t].pc = "dead" => ftx.died

QueueOK ==
  /\ Once(lockq) /\ Once(condq)
  /\ \A t \in Threads : Among(lockq, t) <=> th[t].pc \in {"sleep", "wblk"}
  /\ \A t \in Threads : Among(condq, t) <=> th[t].pc = "wsleep"

\* Whoever sleeps on the mutex has an owner whose unlock must go through the
\* kernel (FUTEX_WAITERS is set), or a dead owner to inherit from.
Served == lockq # <<>> =>
  Borked \/ (ftx.who \in Threads /\ ftx.more) \/ (ftx.who = "none" /\ ftx.died)

RobustInv == /\ RobustTypeOK /\ \A t \in Threads : ThreadOK(th[t])
             /\ WordOK /\ QueueOK /\ Served /\ WakeComes

-----------------------------------------------------------------------------
(***************************************************************************)
(* The kernel's queues                                                     *)
(***************************************************************************)
\* A thread that falls asleep joins the queue at its end.
LEMMA QueueAppend ==
  ASSUME NEW q \in Seq(Threads), NEW t \in Threads, Once(q), ~Among(q, t)
  PROVE  /\ Append(q, t) \in Seq(Threads) /\ Once(Append(q, t)) /\ Append(q, t) # <<>>
         /\ \A u \in Threads : Among(Append(q, t), u) <=> Among(q, u) \/ u = t
  <1> DEFINE a == Append(q, t)
  <1>1. a \in Seq(Threads) /\ Len(a) = Len(q) + 1 /\ a[Len(q) + 1] = t
    OBVIOUS
  <1>2. \A i \in 1..Len(q) : a[i] = q[i]
    OBVIOUS
  <1> HIDE DEF a
  <1>3. Once(a)
    BY <1>1, <1>2 DEF Once, Among
  <1>4. \A u \in Threads : Among(a, u) <=> Among(q, u) \/ u = t
    BY <1>1, <1>2 DEF Among
  <1>5. a # <<>>
    BY <1>1
  <1> QED BY <1>1, <1>3, <1>4, <1>5 DEF a

\* The kernel serves the first sleeper.
LEMMA QueueTail ==
  ASSUME NEW q \in Seq(Threads), Once(q), q # <<>>
  PROVE  /\ Head(q) \in Threads /\ Among(q, Head(q))
         /\ Tail(q) \in Seq(Threads) /\ Once(Tail(q))
         /\ \A u \in Threads : Among(Tail(q), u) <=> Among(q, u) /\ u # Head(q)
  <1> DEFINE a == Tail(q)
  <1>1. a \in Seq(Threads) /\ Len(a) = Len(q) - 1 /\ Len(q) \in Nat \ {0}
    OBVIOUS
  <1>2. \A i \in 1..Len(a) : a[i] = q[i + 1]
    OBVIOUS
  <1>3. Head(q) = q[1] /\ q[1] \in Threads
    OBVIOUS
  <1> HIDE DEF a
  <1>4. Once(a)
    BY <1>1, <1>2 DEF Once
  <1>5. ASSUME NEW u \in Threads, Among(a, u) PROVE Among(q, u) /\ u # Head(q)
    BY <1>1, <1>2, <1>3, <1>5 DEF Among, Once
  <1>6. ASSUME NEW u \in Threads, Among(q, u), u # Head(q) PROVE Among(a, u)
    <2>1. PICK i \in 1..Len(q) : q[i] = u
      BY <1>6 DEF Among
    <2>2. i # 1 /\ i - 1 \in 1..Len(a) /\ a[i - 1] = u
      BY <2>1, <1>6, <1>1, <1>2, <1>3
    <2> QED BY <2>2 DEF Among
  <1>7. Among(q, Head(q))
    BY <1>1, <1>3 DEF Among
  <1> QED BY <1>1, <1>3, <1>4, <1>5, <1>6, <1>7 DEF a

\* Sleepers moved from the condition queue behind those of the mutex.
LEMMA QueueConcat ==
  ASSUME NEW p \in Seq(Threads), NEW q \in Seq(Threads), Once(p), Once(q),
         \A u \in Threads : ~(Among(p, u) /\ Among(q, u))
  PROVE  /\ p \o q \in Seq(Threads) /\ Once(p \o q)
         /\ \A u \in Threads : Among(p \o q, u) <=> Among(p, u) \/ Among(q, u)
  <1> DEFINE a == p \o q
  <1>1. a \in Seq(Threads) /\ Len(a) = Len(p) + Len(q) /\ Len(p) \in Nat /\ Len(q) \in Nat
    OBVIOUS
  <1>2. \A i \in 1..Len(p) : a[i] = p[i] /\ p[i] \in Threads
    OBVIOUS
  <1>3. \A i \in 1..Len(a) : i > Len(p) => a[i] = q[i - Len(p)] /\ i - Len(p) \in 1..Len(q)
    OBVIOUS
  <1>4. \A i \in 1..Len(q) : a[Len(p) + i] = q[i] /\ Len(p) + i \in 1..Len(a)
    OBVIOUS
  <1>5. \A i \in 1..Len(p) : i \in 1..Len(a)
    BY <1>1
  <1> HIDE DEF a
  <1>6. Once(a)
    <2> SUFFICES ASSUME NEW i \in 1..Len(a), NEW j \in 1..Len(a), a[i] = a[j] PROVE i = j
      BY DEF Once
    <2>1. CASE i <= Len(p) /\ j <= Len(p)
      BY <2>1, <1>1, <1>2 DEF Once
    <2>2. CASE i > Len(p) /\ j > Len(p)
      BY <2>2, <1>1, <1>3 DEF Once
    <2>3. CASE i <= Len(p) /\ j > Len(p)
      <3>1. i \in 1..Len(p) /\ a[i] = p[i] /\ p[i] \in Threads
        BY <2>3, <1>1, <1>2
      <3>2. a[j] = q[j - Len(p)] /\ j - Len(p) \in 1..Len(q)
        BY <2>3, <1>3
      <3>3. Among(p, p[i]) /\ Among(q, p[i])
        BY <3>1, <3>2 DEF Among
      <3> QED BY <3>1, <3>3
    <2>4. CASE i > Len(p) /\ j <= Len(p)
      <3>1. j \in 1..Len(p) /\ a[j] = p[j] /\ p[j] \in Threads
        BY <2>4, <1>1, <1>2
      <3>2. a[i] = q[i - Len(p)] /\ i - Len(p) \in 1..Len(q)
        BY <2>4, <1>3
      <3>3. Among(p, p[j]) /\ Among(q, p[j])
        BY <3>1, <3>2 DEF Among
      <3> QED BY <3>1, <3>3
    <2> QED BY <2>1, <2>2, <2>3, <2>4, <1>1
  <1>7. ASSUME NEW u \in Threads, Among(a, u) PROVE Among(p, u) \/ Among(q, u)
    <2>1. PICK i \in 1..Len(a) : a[i] = u
      BY <1>7 DEF Among
    <2> QED BY <2>1, <1>1, <1>2, <1>3 DEF Among
  <1>8. \A u \in Threads : Among(p, u) => Among(a, u)
    BY <1>2, <1>5 DEF Among
  <1>9. \A u \in Threads : Among(q, u) => Among(a, u)
    BY <1>4 DEF Among
  <1> QED BY <1>1, <1>6, <1>7, <1>8, <1>9 DEF a

\* A stretch of a queue.
LEMMA QueuePart ==
  ASSUME NEW q \in Seq(Threads), Once(q), NEW m \in 1..(Len(q) + 1), NEW n \in 0..Len(q)
  PROVE  /\ SubSeq(q, m, n) \in Seq(Threads) /\ Once(SubSeq(q, m, n))
         /\ \A u \in Threads : Among(SubSeq(q, m, n), u) <=> \E i \in m..n : q[i] = u
         /\ m > n => SubSeq(q, m, n) = <<>>
  <1> DEFINE a == SubSeq(q, m, n)
  <1>1. a \in Seq(Threads) /\ Len(a) = IF m <= n THEN n - m + 1 ELSE 0
    OBVIOUS
  <1>2. \A i \in 1..Len(a) : a[i] = q[m + i - 1] /\ m + i - 1 \in m..n /\ m + i - 1 \in 1..Len(q)
    OBVIOUS
  <1>3. \A i \in m..n : i - m + 1 \in 1..Len(a) /\ a[i - m + 1] = q[i]
    OBVIOUS
  <1>4. m > n => a = <<>>
    BY <1>1
  <1> HIDE DEF a
  <1>5. Once(a)
    <2> SUFFICES ASSUME NEW i \in 1..Len(a), NEW j \in 1..Len(a), a[i] = a[j] PROVE i = j
      BY DEF Once
    <2>1. m + i - 1 = m + j - 1
      BY <1>2 DEF Once
    <2> QED BY <2>1, <1>1
  <1>6. ASSUME NEW u \in Threads PROVE Among(a, u) <=> \E i \in m..n : q[i] = u
    BY <1>2, <1>3 DEF Among
  <1> QED BY <1>1, <1>4, <1>5, <1>6 DEF a

\* A queue nobody is in is empty.
LEMMA EmptyQueue ==
  ASSUME NEW q \in Seq(Threads)
  PROVE  (\A u \in Threads : ~Among(q, u)) <=> q = <<>>
  <1>1. ASSUME q # <<>> PROVE \E u \in Threads : Among(q, u)
    <2>1. Len(q) \in Nat /\ Len(q) > 0 /\ q[1] \in Threads
      BY <1>1
    <2> QED BY <2>1 DEF Among
  <1>2. q = <<>> => \A u \in Threads : ~Among(q, u)
    BY DEF Among
  <1> QED BY <1>1, <1>2

\* A sleeper that times out or dies leaves its queue, and nobody else does.
LEMMA QueueRest ==
  ASSUME NEW q \in Seq(Threads), NEW t \in Threads, Once(q)
  PROVE  /\ Rest(q, t) \in Seq(Threads) /\ Once(Rest(q, t))
         /\ \A u \in Threads : Among(Rest(q, t), u) <=> Among(q, u) /\ u # t
  <1>1. CASE ~Among(q, t)
    BY <1>1 DEF Rest, Among
  <1>2. CASE Among(q, t)
    <2> DEFINE at == CHOOSE i \in 1..Len(q) : q[i] = t
               p == SubSeq(q, 1, at - 1)
               r == SubSeq(q, at + 1, Len(q))
    <2>1. at \in 1..Len(q) /\ q[at] = t
      BY <1>2 DEF Among
    <2>2. Rest(q, t) = p \o r
      BY <1>2 DEF Rest, Among
    <2>3. Len(q) \in Nat /\ \A i \in 1..Len(q) : q[i] \in Threads
      OBVIOUS
    <2> HIDE DEF at
    <2>4. /\ 1 \in 1..(Len(q) + 1) /\ at - 1 \in 0..Len(q)
          /\ at + 1 \in 1..(Len(q) + 1) /\ Len(q) \in 0..Len(q)
      BY <2>1, <2>3
    <2>5. /\ p \in Seq(Threads) /\ Once(p)
          /\ \A u \in Threads : Among(p, u) <=> \E i \in 1..(at - 1) : q[i] = u
      BY <2>4, QueuePart
    <2>6. /\ r \in Seq(Threads) /\ Once(r)
          /\ \A u \in Threads : Among(r, u) <=> \E i \in (at + 1)..Len(q) : q[i] = u
      BY <2>4, QueuePart
    <2> HIDE DEF p, r
    <2>7. \A u \in Threads : ~(Among(p, u) /\ Among(r, u))
      BY <2>1, <2>3, <2>5, <2>6 DEF Once
    <2>8. /\ p \o r \in Seq(Threads) /\ Once(p \o r)
          /\ \A u \in Threads : Among(p \o r, u) <=> Among(p, u) \/ Among(r, u)
      BY <2>5, <2>6, <2>7, QueueConcat
    <2>9. ASSUME NEW u \in Threads PROVE Among(p, u) \/ Among(r, u) <=> Among(q, u) /\ u # t
      <3>1. ASSUME Among(q, u), u # t PROVE Among(p, u) \/ Among(r, u)
        <4>1. PICK i \in 1..Len(q) : q[i] = u
          BY <3>1 DEF Among
        <4>2. i # at
          BY <4>1, <3>1, <2>1
        <4>3. i \in 1..(at - 1) \/ i \in (at + 1)..Len(q)
          BY <4>2, <2>1, <2>3
        <4> QED BY <4>1, <4>3, <2>5, <2>6
      <3>2. ASSUME Among(p, u) \/ Among(r, u) PROVE Among(q, u) /\ u # t
        <4>1. PICK i \in 1..Len(q) : q[i] = u /\ i # at
          BY <3>2, <2>1, <2>3, <2>5, <2>6
        <4> QED BY <4>1, <2>1 DEF Among, Once
      <3> QED BY <3>1, <3>2
    <2> QED BY <2>2, <2>8, <2>9
  <1> QED BY <1>1, <1>2

-----------------------------------------------------------------------------
(***************************************************************************)
(* The steps                                                               *)
(***************************************************************************)
\* A step that changes the record of thread t only, and leaves it well-formed.
Alone(t) == /\ th' \in [Threads -> ThreadRecords]
            /\ \A u \in Threads \ {t} : th'[u] = th[u]

\* What a step of t may do to the word: announce a sleeper, take or give up a
\* word that is free or its own, or mark it as unrecoverable.
OwnWord(t) == /\ ftx' \in FutexWords
              /\ \/ ftx'.who = ftx.who /\ ftx'.died = ftx.died
                 \/ ftx.who \in {t, "none"} /\ ftx'.who \in {t, "none"}
                 \/ ftx'.who = "bork"

\* A thread between calls has a record like any other.
LEMMA BackRecord ==
  ASSUME NEW to \in Places, NEW on \in BOOLEAN
  PROVE  /\ Back(to, on) \in ThreadRecords /\ Back(to, on).pc = to /\ Back(to, on).on = on
         /\ ~Back(to, on).broken
  BY DEF Back, ThreadRecords

\* The mutex starts free, with nobody about.
LEMMA RobustStarts == RobustInit => RobustInv
  <1> SUFFICES ASSUME RobustInit PROVE RobustInv
    OBVIOUS
  <1>1. RobustTypeOK
    <2>1. "out" \in Places
      BY DEF Places
    <2>2. Zero \in FutexWords
      BY DEF Zero, FutexWords
    <2>3. Back("out", FALSE) \in ThreadRecords
      BY <2>1, BackRecord
    <2>4. th \in [Threads -> ThreadRecords]
      BY <2>3 DEF RobustInit
    <2>5. lockq \in Seq(Threads) /\ condq \in Seq(Threads)
      BY DEF RobustInit
    <2> QED BY <2>2, <2>4, <2>5 DEF RobustInit, RobustTypeOK
  <1>2. \A t \in Threads : th[t].pc = "out" /\ ~th[t].broken
    BY DEF RobustInit, Back
  <1>3. ftx.who = "none" /\ ~ftx.died /\ lockq = <<>> /\ condq = <<>>
    BY DEF RobustInit, Zero
  <1>4. \A t \in Threads : ThreadOK(th[t])
    BY <1>2 DEF ThreadOK, Pending, Listed
  <1>5. WordOK
    BY <1>2, <1>3, RobustAssumption DEF WordOK, Owning, Borked
  <1>6. QueueOK
    BY <1>2, <1>3 DEF QueueOK, Once, Among
  <1>7. Served /\ WakeComes
    BY <1>2, <1>3 DEF Served, WakeComes, At
  <1> QED BY <1>1, <1>4, <1>5, <1>6, <1>7 DEF RobustInv

\* A step that changes the record of one thread keeps the invariant when its
\* place, its list and the word still agree and the queues are in order.
LEMMA CoreStep ==
  ASSUME RobustInv, NEW t \in Threads, Alone(t), OwnWord(t),
         cnd' \in Nat, sawDeath' \in BOOLEAN, sawDeath => sawDeath',
         lockq' \in Seq(Threads), condq' \in Seq(Threads), QueueOK', Served', WakeComes',
         ThreadOK(th[t])',
         th'[t].pc \in Owning => ftx'.who \in {t, "bork"},
         ftx'.who = t => th'[t].pc \in Owning,
         ftx'.who = "bork" => sawDeath',
         ftx'.who = t /\ th'[t].pc \in {"in", "unlock"} /\ ftx'.died => sawDeath',
         ftx'.who = t /\ th'[t].pc = "dead" => ftx'.died
  PROVE  RobustInv'
  <1>1. RobustTypeOK'
    BY DEF RobustInv, RobustTypeOK, Alone, OwnWord
  <1>2. \A u \in Threads : ThreadOK(th[u])'
    BY DEF RobustInv, Alone, ThreadOK
  <1>3. WordOK'
    <2>1. \A u \in Threads : u # t => th'[u] = th[u] /\ u # "none" /\ u # "bork"
      BY RobustAssumption DEF Alone
    <2>2. ASSUME NEW u \in Threads, th'[u].pc \in Owning PROVE ftx'.who \in {u, "bork"}
      <3>1. CASE u = t
        BY <3>1, <2>2
      <3>2. CASE u # t
        <4>1. th'[u] = th[u] /\ u # "none" /\ ftx.who \in {u, "bork"}
          BY <3>2, <2>1, <2>2 DEF RobustInv, WordOK
        <4> QED BY <4>1, <3>2, RobustAssumption DEF OwnWord
      <3> QED BY <3>1, <3>2
    <2>3. ASSUME NEW u \in Threads, ftx'.who = u PROVE th'[u].pc \in Owning
      <3>1. CASE u = t
        BY <3>1, <2>3
      <3>2. CASE u # t
        <4>1. ftx'.who = ftx.who /\ ftx'.died = ftx.died /\ th'[u] = th[u]
          BY <3>2, <2>1, <2>3 DEF OwnWord
        <4> QED BY <4>1, <2>3 DEF RobustInv, WordOK
      <3> QED BY <3>1, <3>2
    <2>4. ASSUME NEW u \in Threads, ftx'.who = u, th'[u].pc \in {"in", "unlock"}, ftx'.died
          PROVE  sawDeath'
      <3>1. CASE u = t
        BY <3>1, <2>4
      <3>2. CASE u # t
        <4>1. ftx'.who = ftx.who /\ ftx'.died = ftx.died /\ th'[u] = th[u]
          BY <3>2, <2>1, <2>4 DEF OwnWord
        <4> QED BY <4>1, <2>4 DEF RobustInv, WordOK
      <3> QED BY <3>1, <3>2
    <2>5. ASSUME NEW u \in Threads, ftx'.who = u, th'[u].pc = "dead" PROVE ftx'.died
      <3>1. CASE u = t
        BY <3>1, <2>5
      <3>2. CASE u # t
        <4>1. ftx'.who = ftx.who /\ ftx'.died = ftx.died /\ th'[u] = th[u]
          BY <3>2, <2>1, <2>5 DEF OwnWord
        <4> QED BY <4>1, <2>5 DEF RobustInv, WordOK
      <3> QED BY <3>1, <3>2
    <2> QED BY <2>2, <2>3, <2>4, <2>5 DEF WordOK, Borked
  <1> QED BY <1>1, <1>2, <1>3 DEF RobustInv

\* The wake-up of a sleeper stays due over a step that moves no condition word
\* and finishes no waker's call.
LEMMA WakeStep ==
  ASSUME RobustInv, NEW t \in Threads, Alone(t), OwnWord(t),
         cnd' = cnd, leftOver' = leftOver, cutShort => cutShort',
         th[t].pc = "wake" => th'[t].pc = "wake" \/ cutShort',
         th'[t].pc = "wsleep" => th'[t].seen = cnd
  PROVE  WakeComes'
  <1> SUFFICES ASSUME NEW u \in Threads, th'[u].pc = "wsleep", th'[u].seen # cnd'
               PROVE  (\E v \in Threads : th'[v].pc = "wake") \/ ftx'.who = "bork" \/ cutShort' \/ leftOver'
    BY DEF WakeComes, At, Borked
  <1>1. u # t /\ th'[u] = th[u] /\ cnd' = cnd
    BY DEF Alone
  <1>2. (\E v \in Threads : th[v].pc = "wake") \/ ftx.who = "bork" \/ cutShort \/ leftOver
    BY <1>1 DEF RobustInv, WakeComes, At, Borked
  <1>3. \A v \in Threads : th[v].pc = "wake" => th'[v].pc = "wake" \/ cutShort'
    BY DEF Alone
  <1>4. ftx.who = "bork" => ftx'.who = "bork"
    BY RobustAssumption DEF OwnWord
  <1> QED BY <1>2, <1>3, <1>4

\* The same for a thread that is awake before and after the step, which leaves
\* the queues and the condition word alone.
LEMMA OwnStep ==
  ASSUME RobustInv, NEW t \in Threads, Alone(t), OwnWord(t),
         UNCHANGED <<lockq, condq, cnd, cutShort, leftOver>>,
         sawDeath' \in BOOLEAN, sawDeath => sawDeath',
         th[t].pc \notin Asleep, th'[t].pc \notin Asleep,
         th[t].pc = "wake" => th'[t].pc = "wake",
         ThreadOK(th[t])',
         th'[t].pc \in Owning => ftx'.who \in {t, "bork"},
         ftx'.who = t => th'[t].pc \in Owning,
         ftx'.who = "bork" => sawDeath',
         ftx'.who = t /\ th'[t].pc \in {"in", "unlock"} /\ ftx'.died => sawDeath',
         ftx'.who = t /\ th'[t].pc = "dead" => ftx'.died,
         Served'
  PROVE  RobustInv'
  <1>1. QueueOK'
    BY DEF RobustInv, QueueOK, Alone, Asleep, Once, Among
  <1>2. WakeComes'
    BY WakeStep DEF Asleep
  <1>3. cnd' \in Nat /\ lockq' \in Seq(Threads) /\ condq' \in Seq(Threads)
    BY DEF RobustInv, RobustTypeOK
  <1> QED BY <1>1, <1>2, <1>3, CoreStep

\* The part of the invariant that thread t's own steps start from.
LEMMA ThreadFacts ==
  ASSUME RobustInv, NEW t \in Threads
  PROVE  /\ t # "none" /\ t # "bork" /\ th \in [Threads -> ThreadRecords] /\ th[t] \in ThreadRecords
         /\ sawDeath \in BOOLEAN /\ ftx \in FutexWords /\ Served
         /\ ThreadOK(th[t]) /\ (th[t].pc \in Owning => ftx.who \in {t, "bork"})
         /\ (ftx.who = t => th[t].pc \in Owning) /\ (ftx.who = "bork" => sawDeath)
         /\ (ftx.who = t /\ th[t].pc \in {"in", "unlock"} /\ ftx.died => sawDeath)
         /\ (ftx.who = t /\ th[t].pc = "dead" => ftx.died)
  BY RobustAssumption DEF RobustInv, RobustTypeOK, WordOK, Borked

\* A step of one thread, awake before and after it, that touches neither the
\* word nor a queue.
LEMMA QuietStep ==
  ASSUME RobustInv, NEW t \in Threads, Alone(t),
         UNCHANGED <<ftx, lockq, condq, cnd, cutShort, leftOver>>,
         sawDeath' \in BOOLEAN, sawDeath => sawDeath',
         th[t].pc \notin Asleep, th'[t].pc \notin Asleep,
         th[t].pc = "wake" => th'[t].pc = "wake",
         ThreadOK(th[t])',
         th'[t].pc \in Owning => th[t].pc \in Owning,
         ftx.who = t => th'[t].pc \in Owning,
         ftx.who = t /\ th'[t].pc \in {"in", "unlock"} /\ ftx.died => sawDeath',
         ftx.who = t /\ th'[t].pc = "dead" => ftx.died
  PROVE  RobustInv'
  <1>1. OwnWord(t) /\ Served'
    BY ThreadFacts DEF OwnWord, Served, Borked
  <1> QED BY <1>1, ThreadFacts, OwnStep

\* The steps of lock and try_lock around the word: robust_op_start, the add
\* and end of a success, the end of a failure, and the failed repair.
LEMMA LockKeeps ==
  ASSUME RobustInv, NEW t \in Threads,
         \/ \E how \in {"lock", "timed"} : lock_start(t, how)
         \/ op_add(t) \/ wait_add(t) \/ op_end(t) \/ op_fail(t) \/ dead_fail(t)
  PROVE  RobustInv'
  <1>1. th[t] \in ThreadRecords /\ th \in [Threads -> ThreadRecords]
    BY ThreadFacts
  <1>2. UNCHANGED <<ftx, lockq, condq, cnd, cutShort, leftOver, sawDeath>>
    BY DEF lock_start, op_add, wait_add, op_end, op_fail, dead_fail, Calm
  <1>3. ASSUME NEW how \in {"lock", "timed"}, lock_start(t, how) PROVE RobustInv'
    <2>1. /\ Alone(t) /\ th'[t].pc = "lock" /\ th'[t].pend /\ th'[t].broken = th[t].broken
          /\ th[t].pc = "out"
      BY <1>1, <1>3 DEF lock_start, robust_op_start, ThreadRecords, Places, Pending, Alone, At
    <2>2. ThreadOK(th[t])'
      BY <1>2, <2>1, ThreadFacts DEF ThreadOK, Listed
    <2> QED BY <1>2, <2>1, <2>2, ThreadFacts, QuietStep DEF Asleep, Owning
  <1>4. CASE op_add(t) \/ wait_add(t)
    <2>1. /\ Alone(t) /\ th'[t].pc \in {"added", "wadded"} /\ th'[t].on
          /\ th'[t].broken = th[t].broken /\ th[t].pc \in {"got", "wgot"}
      BY <1>1, <1>4 DEF op_add, wait_add, ThreadRecords, Places, Listed, Alone, At
    <2>2. ThreadOK(th[t])'
      BY <1>2, <2>1, ThreadFacts DEF ThreadOK, Listed, Pending
    <2> QED BY <1>2, <2>1, <2>2, ThreadFacts, QuietStep DEF Asleep, Owning
  <1>5. CASE op_end(t)
    <2>1. th[t].pc = "added" /\ th[t].on
      BY <1>5, ThreadFacts DEF op_end, At, ThreadOK, Listed
    <2>2. CASE ftx.died
      <3>1. /\ Alone(t) /\ th'[t].pc = "dead" /\ th'[t].on /\ th'[t].broken = th[t].broken
        BY <1>1, <1>5, <2>1, <2>2 DEF op_end, ThreadRecords, Places, Listed, Alone
      <3>2. ThreadOK(th[t])'
        BY <1>2, <3>1, ThreadFacts DEF ThreadOK, Listed, Pending
      <3> QED BY <1>2, <2>1, <2>2, <3>1, <3>2, ThreadFacts, QuietStep DEF Asleep, Owning
    <2>3. CASE ~ftx.died
      <3>1. "in" \in Places
        BY DEF Places, Listed
      <3>2. Alone(t) /\ th'[t].pc = "in" /\ th'[t].on /\ ~th'[t].broken
        BY <1>1, <1>5, <2>1, <2>3, <3>1, BackRecord DEF op_end, Alone
      <3>3. ThreadOK(th[t])'
        BY <3>2 DEF ThreadOK, Listed, Pending
      <3> QED BY <1>2, <2>1, <2>3, <3>2, <3>3, ThreadFacts, QuietStep DEF Asleep, Owning
    <2> QED BY <2>2, <2>3
  <1>6. CASE op_fail(t) \/ dead_fail(t)
    <2>1. "out" \in Places /\ th[t].on \in BOOLEAN
      BY <1>1 DEF Places, ThreadRecords
    <2>2. Alone(t) /\ th'[t].pc = "out" /\ ~th'[t].broken
      BY <1>1, <1>6, <2>1, BackRecord DEF op_fail, dead_fail, Alone
    <2>3. ThreadOK(th[t])'
      BY <2>2 DEF ThreadOK, Listed, Pending
    <2>4. th[t].pc \in {"fail", "dead"} /\ ftx.who # t
      <3>1. CASE op_fail(t)
        BY <3>1, ThreadFacts DEF op_fail, At, Owning
      <3>2. CASE dead_fail(t)
        BY <3>2, ThreadFacts DEF dead_fail, At, Owning
      <3> QED BY <1>6, <3>1, <3>2
    <2> QED BY <1>2, <2>2, <2>3, <2>4, ThreadFacts, QuietStep DEF Asleep, Owning
  <1> QED BY <1>3, <1>4, <1>5, <1>6

\* The steps of a caller inside that leaves it, and of a wait around its sleep:
\* unlock and wait begin, the list entry goes, the wait ends, a waker looks
\* again.
LEMMA LeaveKeeps ==
  ASSUME RobustInv, NEW t \in Threads,
         \/ unlock_start(t) \/ (\E how \in {"lock", "timed"} : wait_start(t, how))
         \/ unlock_del(t) \/ wait_end(t) \/ wake_retry(t)
  PROVE  RobustInv'
  <1>1. th[t] \in ThreadRecords /\ th \in [Threads -> ThreadRecords] /\ cnd \in Nat
    BY ThreadFacts DEF RobustInv, RobustTypeOK
  <1>2. UNCHANGED <<ftx, lockq, condq, cnd, cutShort, leftOver>>
    BY DEF unlock_start, wait_start, unlock_del, wait_end, wake_retry, Calm
  <1>3. CASE unlock_start(t) \/ (\E how \in {"lock", "timed"} : wait_start(t, how))
    <2>1. /\ Alone(t) /\ th'[t].pc = "unlock" /\ th'[t].on = th[t].on /\ th'[t].broken = th[t].broken
          /\ th[t].pc = "in" /\ sawDeath' = sawDeath
      BY <1>1, <1>3 DEF unlock_start, wait_start, ThreadRecords, Places, Listed, Alone, At, Calm
    <2>2. ThreadOK(th[t])'
      BY <2>1, ThreadFacts DEF ThreadOK, Listed, Pending
    <2> QED BY <1>2, <2>1, <2>2, ThreadFacts, QuietStep DEF Asleep, Owning
  <1>4. CASE unlock_del(t)
    <2>1. th[t].pc = "unlock" /\ sawDeath' = sawDeath
      BY <1>4 DEF unlock_del, At, Calm
    <2>2. CASE ftx.who # t
      <3>1. "out" \in Places /\ th[t].on \in BOOLEAN
        BY <1>1 DEF Places, ThreadRecords
      <3>2. Alone(t) /\ th'[t].pc = "out" /\ ~th'[t].broken
        BY <1>1, <1>4, <2>2, <3>1, BackRecord DEF unlock_del, Alone
      <3>3. ThreadOK(th[t])'
        BY <3>2 DEF ThreadOK, Listed, Pending
      <3> QED BY <1>2, <2>1, <2>2, <3>2, <3>3, ThreadFacts, QuietStep DEF Asleep, Owning
    <2>3. CASE ftx.who = t
      <3>1. ftx.died \in BOOLEAN
        BY ThreadFacts DEF FutexWords
      <3>2. /\ Alone(t) /\ th'[t].pc = "give" /\ th'[t].pend /\ th'[t].broken = ftx.died
        BY <1>1, <1>4, <2>3, <3>1
           DEF unlock_del, robust_op_del, robust_op_start, ThreadRecords, Places, Pending, Alone
      <3>3. ThreadOK(th[t])'
        BY <2>1, <2>3, <3>2, ThreadFacts DEF ThreadOK, Listed, Pending
      <3> QED BY <1>2, <2>1, <2>3, <3>2, <3>3, ThreadFacts, QuietStep DEF Asleep, Owning
    <2> QED BY <2>2, <2>3
  <1>5. CASE wait_end(t)
    <2>1. "in" \in Places
      BY DEF Places, Listed
    <2>2. /\ Alone(t) /\ th'[t].pc = "in" /\ th'[t].on /\ ~th'[t].broken
          /\ th[t].pc = "wadded" /\ sawDeath' = (sawDeath \/ ftx.died)
      BY <1>1, <1>5, <2>1, BackRecord DEF wait_end, Alone, At
    <2>3. ThreadOK(th[t])'
      BY <2>2 DEF ThreadOK, Listed, Pending
    <2> QED BY <1>2, <2>2, <2>3, ThreadFacts, QuietStep DEF Asleep, Owning
  <1>6. CASE wake_retry(t)
    <2>1. /\ Alone(t) /\ th'[t].pc = "wake" /\ th'[t].broken = th[t].broken
          /\ th[t].pc = "wake" /\ sawDeath' = sawDeath
      BY <1>1, <1>6 DEF wake_retry, ThreadRecords, Places, Alone, At, Calm
    <2>2. ThreadOK(th[t])'
      BY <2>1, ThreadFacts DEF ThreadOK, Listed, Pending
    <2> QED BY <1>2, <2>1, <2>2, ThreadFacts, QuietStep DEF Asleep, Owning
  <1> QED BY <1>3, <1>4, <1>5, <1>6

\* a0_mtx_timedlock_robust in lock and at the end of a wait: the word refuses,
\* is won, or puts the thread to sleep behind an owner or a dead owner.
LEMMA WordKeeps ==
  ASSUME RobustInv, NEW t \in Threads, lock_word(t) \/ wait_lock(t)
  PROVE  RobustInv'
  <1>1. /\ th[t] \in ThreadRecords /\ th \in [Threads -> ThreadRecords]
        /\ ftx \in FutexWords /\ t # "none" /\ t # "bork"
    BY ThreadFacts
  <1>2. UNCHANGED <<cnd, condq, cutShort, leftOver, sawDeath>>
    BY DEF lock_word, wait_lock, Calm
  <1>3. PICK locked \in {"got", "wgot"}, sleep \in {"sleep", "wblk"}, fail \in {"fail", "wgot"} :
          timedlock_robust(t, locked, sleep, fail) /\ th[t].pc \in {"lock", "wlock"}
    BY DEF lock_word, wait_lock, At
  <1>4. th[t].pend /\ (th[t].broken => sawDeath) /\ ftx.who # t
    BY <1>3, ThreadFacts DEF ThreadOK, Pending, Owning
  <1>5. ASSUME NEW to \in Places, th' = [th EXCEPT ![t].pc = to]
        PROVE  Alone(t) /\ th'[t].pc = to /\ th'[t].pend /\ th'[t].broken = th[t].broken
    BY <1>1, <1>4, <1>5 DEF ThreadRecords, Alone
  <1>6. locked \in Places /\ sleep \in Places /\ fail \in Places
    BY <1>3 DEF Places, Pending
  <1>7. CASE Borked /\ th' = [th EXCEPT ![t].pc = fail] /\ UNCHANGED <<ftx, lockq>>
    <2>1. Alone(t) /\ th'[t].pc = fail /\ th'[t].pend /\ th'[t].broken = th[t].broken
      BY <1>5, <1>6, <1>7
    <2>2. ThreadOK(th[t])'
      BY <1>2, <1>3, <1>4, <2>1 DEF ThreadOK, Listed
    <2>3. OwnWord(t) /\ Served'
      BY <1>1, <1>7, ThreadFacts DEF OwnWord, Served, Borked
    <2>4. ftx'.who = "bork" /\ sawDeath'
      BY <1>2, <1>7, ThreadFacts DEF Borked
    <2> QED BY <1>1, <1>2, <1>3, <1>7, <2>1, <2>2, <2>3, <2>4, ThreadFacts, OwnStep DEF Asleep, Owning
  <1>8. CASE /\ ftx.who = "none" /\ lockq = <<>> /\ ftx' = [ftx EXCEPT !.who = t]
             /\ th' = [th EXCEPT ![t].pc = locked] /\ UNCHANGED lockq
    <2>1. Alone(t) /\ th'[t].pc = locked /\ th'[t].pend /\ th'[t].broken = th[t].broken
      BY <1>5, <1>6, <1>8
    <2>2. ThreadOK(th[t])'
      BY <1>2, <1>3, <1>4, <2>1 DEF ThreadOK, Listed
    <2>3. ftx' \in FutexWords /\ ftx'.who = t
      BY <1>1, <1>8 DEF FutexWords
    <2>4. OwnWord(t) /\ Served'
      BY <1>8, <2>3 DEF OwnWord, Served
    <2> QED BY <1>1, <1>2, <1>3, <1>8, <2>1, <2>2, <2>3, <2>4, ThreadFacts, OwnStep DEF Asleep, Owning
  <1>9. CASE /\ ~Borked /\ ~(ftx.who = "none" /\ lockq = <<>>)
             /\ lockq' = Append(lockq, t) /\ ftx' = [ftx EXCEPT !.more = TRUE]
             /\ th' = [th EXCEPT ![t].pc = sleep]
    <2>1. Alone(t) /\ th'[t].pc = sleep /\ th'[t].pend /\ th'[t].broken = th[t].broken
      BY <1>5, <1>6, <1>9
    <2>2. ThreadOK(th[t])'
      BY <1>2, <1>3, <1>4, <2>1 DEF ThreadOK, Listed
    <2>3. ftx' \in FutexWords /\ ftx'.who = ftx.who /\ ftx'.died = ftx.died /\ ftx'.more
      BY <1>1, <1>9 DEF FutexWords
    <2>4. lockq \in Seq(Threads) /\ condq \in Seq(Threads) /\ cnd \in Nat /\ QueueOK
      BY DEF RobustInv, RobustTypeOK
    <2>5. ~Among(lockq, t) /\ Once(lockq)
      BY <1>3, <2>4 DEF QueueOK
    <2>6. /\ lockq' \in Seq(Threads) /\ Once(lockq')
          /\ \A u \in Threads : Among(lockq', u) <=> Among(lockq, u) \/ u = t
      BY <1>9, <2>4, <2>5, QueueAppend
    <2>7. QueueOK'
      BY <1>2, <1>3, <2>1, <2>4, <2>6 DEF QueueOK, Alone
    <2>8. OwnWord(t) /\ Served'
      BY <1>1, <1>9, <2>3, ThreadFacts DEF OwnWord, Served, Borked, FutexWords
    <2>9. WakeComes'
      BY <1>2, <1>3, <2>1, <2>8, WakeStep
    <2> QED BY <1>2, <1>3, <1>4, <2>1, <2>2, <2>3, <2>4, <2>6, <2>7, <2>8, <2>9, ThreadFacts, CoreStep
            DEF Owning
  <1> QED BY <1>3, <1>7, <1>8, <1>9 DEF timedlock_robust

\* a0_mtx_consistent by the owner of a word that a dead owner left.
LEMMA RepairKeeps ==
  ASSUME RobustInv, NEW t \in Threads, lock_dead(t) \/ try_dead(t) \/ posix_dead(t)
  PROVE  RobustInv'
  <1>1. /\ th[t] \in ThreadRecords /\ th \in [Threads -> ThreadRecords]
        /\ ftx \in FutexWords /\ t # "none" /\ t # "bork"
    BY ThreadFacts
  <1>2. UNCHANGED <<cnd, condq, lockq, cutShort, leftOver, sawDeath>>
    BY DEF lock_dead, try_dead, posix_dead, Repair, Calm
  <1>3. /\ th[t].pc = "dead" /\ th[t].on /\ (th[t].broken => sawDeath)
        /\ ftx.who = t /\ ftx' = [ftx EXCEPT !.died = FALSE]
    BY ThreadFacts DEF lock_dead, try_dead, posix_dead, Repair, At, ThreadOK, Listed
  <1>4. ftx' \in FutexWords /\ ftx'.who = t /\ ~ftx'.died /\ ftx'.more = ftx.more
    BY <1>1, <1>3 DEF FutexWords
  <1>5. OwnWord(t) /\ Served'
    BY <1>1, <1>2, <1>3, <1>4, ThreadFacts DEF OwnWord, Served, Borked
  <1>6. Alone(t) /\ th'[t].pc \in {"in", "unlock"} /\ th'[t].on /\ (th'[t].broken => sawDeath)
    <2>1. CASE posix_dead(t)
      <3>1. "in" \in Places
        BY DEF Places, Listed
      <3> QED BY <1>1, <1>3, <2>1, <3>1, BackRecord DEF posix_dead, Repair, Alone
    <2>2. CASE lock_dead(t) \/ try_dead(t)
      <3>1. PICK next \in {"again", "out"} : Repair(t, "unlock", next)
        BY <2>2 DEF lock_dead, try_dead
      <3>2. th' = [th EXCEPT ![t] = [@ EXCEPT !.pc = "unlock", !.then = next]]
        BY <3>1 DEF Repair
      <3>3. "unlock" \in Places
        BY DEF Places, Listed
      <3> QED BY <1>1, <1>3, <3>2, <3>3 DEF Alone, ThreadRecords
    <2> QED BY <2>1, <2>2
  <1>7. ThreadOK(th[t])'
    BY <1>2, <1>6 DEF ThreadOK, Pending
  <1> QED BY <1>1, <1>2, <1>3, <1>4, <1>5, <1>6, <1>7, ThreadFacts, OwnStep DEF Asleep, Owning

\* a0_mtx_unlock when it wakes nobody: the word is cleared, or is no longer
\* the caller's, and at the end the word of an unrepaired mutex is ruined.
LEMMA ReleaseKeeps ==
  ASSUME RobustInv, NEW t \in Threads,
         \/ unlock_give(t) /\ ~(ftx.who = t /\ ftx.more /\ lockq # <<>>)
         \/ unlock_end(t)
  PROVE  RobustInv'
  <1>1. /\ th[t] \in ThreadRecords /\ th \in [Threads -> ThreadRecords]
        /\ ftx \in FutexWords /\ t # "none" /\ t # "bork"
    BY ThreadFacts
  <1>2. UNCHANGED <<cnd, condq, cutShort, leftOver, sawDeath>>
    BY DEF unlock_give, unlock_end, Calm
  <1>3. CASE unlock_give(t) /\ ~(ftx.who = t /\ ftx.more /\ lockq # <<>>)
    <2>1. /\ th[t].pc = "give" /\ th[t].pend /\ (th[t].broken => sawDeath)
      BY <1>3, ThreadFacts DEF unlock_give, At, ThreadOK, Pending
    <2>2. /\ Alone(t) /\ th'[t].pc = "given" /\ th'[t].pend /\ th'[t].broken = th[t].broken
      BY <1>1, <1>3, <2>1 DEF unlock_give, ThreadRecords, Places, Pending, Alone
    <2>3. ThreadOK(th[t])'
      BY <1>2, <2>1, <2>2 DEF ThreadOK, Listed
    <2>4. CASE ftx.who # t
      <3>1. UNCHANGED <<ftx, lockq>>
        BY <1>3, <2>4 DEF unlock_give
      <3> QED BY <1>1, <1>2, <2>1, <2>2, <2>3, <2>4, <3>1, ThreadFacts, QuietStep DEF Asleep, Owning
    <2>5. CASE ftx.who = t
      <3>1. ftx' = Zero /\ UNCHANGED lockq
        BY <1>3, <2>5 DEF unlock_give
      <3>2. lockq = <<>>
        BY <1>1, <1>3, <2>5, ThreadFacts DEF unlock_give, Served, Borked
      <3>3. ftx' \in FutexWords /\ ftx'.who = "none"
        BY <3>1 DEF Zero, FutexWords
      <3>4. OwnWord(t) /\ Served'
        BY <2>5, <3>1, <3>2, <3>3 DEF OwnWord, Served
      <3> QED BY <1>1, <1>2, <2>1, <2>2, <2>3, <3>1, <3>3, <3>4, ThreadFacts, OwnStep DEF Asleep, Owning
    <2> QED BY <2>4, <2>5
  <1>4. CASE unlock_end(t)
    <2>1. /\ th[t].pc = "given" /\ th[t].pend /\ (th[t].broken => sawDeath) /\ UNCHANGED lockq
          /\ ftx' = IF th[t].broken THEN Bork ELSE ftx
      BY <1>4, ThreadFacts DEF unlock_end, At, ThreadOK, Pending
    <2>2. /\ Alone(t) /\ th'[t].pc \in {"lock", "wait", "out"} /\ ~th'[t].broken
          /\ th'[t].pc # "out" => th'[t].pend
      <3>1. CASE th[t].then = "again" \/ th[t].then = "wait"
        BY <1>1, <1>4, <2>1, <3>1 DEF unlock_end, ThreadRecords, Places, Pending, Alone
      <3>2. CASE ~(th[t].then = "again" \/ th[t].then = "wait")
        <4>1. "out" \in Places
          BY DEF Places
        <4>2. th' = [th EXCEPT ![t] = Back("out", FALSE)]
          BY <1>4, <3>2 DEF unlock_end
        <4> QED BY <1>1, <4>1, <4>2, BackRecord DEF Alone
      <3> QED BY <3>1, <3>2
    <2>3. ThreadOK(th[t])'
      BY <2>2 DEF ThreadOK, Listed, Pending
    <2>4. ftx.who # t
      BY <2>1, ThreadFacts DEF Owning
    <2>5. CASE th[t].broken
      <3>1. ftx' \in FutexWords /\ ftx'.who = "bork" /\ sawDeath'
        BY <1>2, <2>1, <2>5 DEF Bork, FutexWords
      <3>2. OwnWord(t) /\ Served'
        BY <3>1 DEF OwnWord, Served, Borked
      <3> QED BY <1>1, <1>2, <2>1, <2>2, <2>3, <3>1, <3>2, ThreadFacts, OwnStep DEF Asleep, Owning
    <2>6. CASE ~th[t].broken
      BY <1>2, <2>1, <2>2, <2>3, <2>4, <2>6, ThreadFacts, QuietStep DEF Asleep, Owning
    <2> QED BY <2>5, <2>6
  <1> QED BY <1>3, <1>4

\* A thread falls asleep on the condition, unless the word has moved on.
LEMMA SleepKeeps ==
  ASSUME RobustInv, NEW t \in Threads, wait_sleep(t)
  PROVE  RobustInv'
  <1>1. th[t] \in ThreadRecords /\ th \in [Threads -> ThreadRecords] /\ ftx \in FutexWords
    BY ThreadFacts
  <1>2. /\ UNCHANGED <<ftx, cnd, lockq, cutShort, leftOver, sawDeath>>
        /\ th[t].pc = "wait" /\ th[t].pend /\ (th[t].broken => sawDeath) /\ ftx.who # t
    BY ThreadFacts DEF wait_sleep, At, ThreadOK, Pending, Owning
  <1>3. ASSUME NEW to \in Places, th' = [th EXCEPT ![t].pc = to]
        PROVE  /\ Alone(t) /\ th'[t].pc = to /\ th'[t].pend /\ th'[t].broken = th[t].broken
               /\ th'[t].seen = th[t].seen
    BY <1>1, <1>2, <1>3 DEF ThreadRecords, Alone
  <1>4. "wlock" \in Places /\ "wsleep" \in Places
    BY DEF Places, Pending
  <1>5. CASE cnd # th[t].seen
    <2>1. th' = [th EXCEPT ![t].pc = "wlock"] /\ UNCHANGED condq
      BY <1>5 DEF wait_sleep
    <2>2. Alone(t) /\ th'[t].pc = "wlock" /\ th'[t].pend /\ th'[t].broken = th[t].broken
      BY <1>3, <1>4, <2>1
    <2>3. ThreadOK(th[t])'
      BY <1>2, <2>2 DEF ThreadOK, Listed
    <2> QED BY <1>2, <2>1, <2>2, <2>3, ThreadFacts, QuietStep DEF Asleep, Owning
  <1>6. CASE cnd = th[t].seen
    <2>1. th' = [th EXCEPT ![t].pc = "wsleep"] /\ condq' = Append(condq, t)
      BY <1>6 DEF wait_sleep
    <2>2. /\ Alone(t) /\ th'[t].pc = "wsleep" /\ th'[t].pend /\ th'[t].broken = th[t].broken
          /\ th'[t].seen = cnd
      BY <1>3, <1>4, <1>6, <2>1
    <2>3. ThreadOK(th[t])'
      BY <1>2, <2>2 DEF ThreadOK, Listed
    <2>4. lockq \in Seq(Threads) /\ condq \in Seq(Threads) /\ cnd \in Nat /\ QueueOK
      BY DEF RobustInv, RobustTypeOK
    <2>5. /\ condq' \in Seq(Threads) /\ Once(condq')
          /\ \A u \in Threads : Among(condq', u) <=> Among(condq, u) \/ u = t
      BY <1>2, <2>1, <2>4, QueueAppend DEF QueueOK
    <2>6. QueueOK'
      BY <1>2, <2>2, <2>4, <2>5 DEF QueueOK, Alone
    <2>7. OwnWord(t) /\ Served'
      BY <1>1, <1>2, ThreadFacts DEF OwnWord, Served, Borked
    <2>8. WakeComes'
      BY <1>2, <2>2, <2>7, WakeStep
    <2> QED BY <1>2, <2>2, <2>3, <2>4, <2>5, <2>6, <2>7, <2>8, ThreadFacts, CoreStep DEF Owning
  <1> QED BY <1>5, <1>6

\* A lock or a wait runs out of time: the thread leaves the queue it is in.
LEMMA TimeoutKeeps ==
  ASSUME RobustInv, NEW t \in Threads, lock_timeout(t) \/ wait_timeout(t)
  PROVE  RobustInv'
  <1>1. /\ th[t] \in ThreadRecords /\ th \in [Threads -> ThreadRecords] /\ ftx \in FutexWords
        /\ lockq \in Seq(Threads) /\ condq \in Seq(Threads) /\ cnd \in Nat /\ QueueOK
    BY ThreadFacts DEF RobustInv, RobustTypeOK
  <1>2. UNCHANGED <<ftx, cnd, cutShort, leftOver, sawDeath>>
    BY DEF lock_timeout, wait_timeout, Calm
  <1>3. th[t].pc \in Asleep /\ th[t].pend /\ (th[t].broken => sawDeath) /\ ftx.who # t
    BY ThreadFacts DEF lock_timeout, wait_timeout, At, ThreadOK, Pending, Owning, Asleep
  <1>4. "wlock" \in Places /\ "fail" \in Places
    BY DEF Places, Pending
  <1>5. Alone(t) /\ th'[t].pc \in {"fail", "wlock"} /\ th'[t].pend /\ th'[t].broken = th[t].broken
    <2>1. CASE lock_timeout(t)
      BY <1>1, <1>3, <1>4, <2>1 DEF lock_timeout, ThreadRecords, Alone
    <2>2. CASE wait_timeout(t)
      BY <1>1, <1>3, <1>4, <2>2 DEF wait_timeout, ThreadRecords, Alone
    <2> QED BY <2>1, <2>2
  <1>6. ThreadOK(th[t])'
    BY <1>2, <1>3, <1>5 DEF ThreadOK, Listed
  <1>7. /\ lockq' \in Seq(Threads) /\ Once(lockq')
        /\ \A u \in Threads : Among(lockq', u) <=> Among(lockq, u) /\ u # t
    <2>1. lockq' = Rest(lockq, t) /\ Once(lockq)
      BY <1>1 DEF lock_timeout, wait_timeout, QueueOK
    <2> QED BY <1>1, <2>1, QueueRest
  <1>8. /\ condq' \in Seq(Threads) /\ Once(condq')
        /\ \A u \in Threads : Among(condq', u) <=> Among(condq, u) /\ u # t
    <2>1. CASE lock_timeout(t)
      BY <1>1, <2>1 DEF lock_timeout, QueueOK, Calm, At
    <2>2. CASE wait_timeout(t)
      BY <1>1, <2>2, QueueRest DEF wait_timeout, QueueOK
    <2> QED BY <2>1, <2>2
  <1>9. QueueOK'
    BY <1>1, <1>5, <1>7, <1>8 DEF QueueOK, Alone
  <1>10. OwnWord(t)
    BY <1>1, <1>2 DEF OwnWord
  <1>11. Served'
    <2>1. lockq' # <<>> => lockq # <<>>
      BY <1>1, <1>7, EmptyQueue
    <2> QED BY <1>2, <2>1, ThreadFacts DEF Served, Borked
  <1>12. WakeComes'
    BY <1>2, <1>3, <1>5, <1>10, WakeStep DEF Asleep
  <1> QED BY <1>1, <1>2, <1>3, <1>5, <1>6, <1>7, <1>8, <1>9, <1>10, <1>11, <1>12, ThreadFacts, CoreStep
          DEF Owning

\* A thread dies: the kernel marks the word when the robust list or the
\* pending entry names it, and the thread leaves the queues.
LEMMA CrashKeeps ==
  ASSUME RobustInv, NEW t \in Threads, crash(t)
  PROVE  RobustInv'
  <1>1. /\ th[t] \in ThreadRecords /\ th \in [Threads -> ThreadRecords] /\ ftx \in FutexWords
        /\ t # "none" /\ t # "bork"
        /\ lockq \in Seq(Threads) /\ condq \in Seq(Threads) /\ cnd \in Nat /\ QueueOK
    BY ThreadFacts DEF RobustInv, RobustTypeOK
  <1>2. UNCHANGED <<cnd, sawDeath, leftOver>> /\ cutShort' = (cutShort \/ th[t].pc = "wake")
    BY DEF crash, At
  <1>3. "gone" \in Places
    BY DEF Places
  <1>4. Alone(t) /\ th'[t].pc = "gone" /\ ~th'[t].broken
    BY <1>1, <1>3, BackRecord DEF crash, Alone
  <1>5. ThreadOK(th[t])'
    BY <1>4 DEF ThreadOK, Pending, Listed
  <1>6. /\ lockq' \in Seq(Threads) /\ Once(lockq')
        /\ \A u \in Threads : Among(lockq', u) <=> Among(lockq, u) /\ u # t
    BY <1>1, QueueRest DEF crash, QueueOK
  <1>7. /\ condq' \in Seq(Threads) /\ Once(condq')
        /\ \A u \in Threads : Among(condq', u) <=> Among(condq, u) /\ u # t
    BY <1>1, QueueRest DEF crash, QueueOK
  <1>8. QueueOK'
    BY <1>1, <1>4, <1>6, <1>7 DEF QueueOK, Alone
  <1>9. lockq' # <<>> => lockq # <<>>
    BY <1>1, <1>6, EmptyQueue
  <1>10. /\ OwnWord(t) /\ Served' /\ ftx'.who # t /\ (ftx'.who = "bork" => sawDeath)
    <2>1. CASE ftx.who = t
      <3>1. th[t].on \/ th[t].pend
        BY <2>1, ThreadFacts DEF ThreadOK, Owning, Listed, Pending
      <3>2. ftx' = [ftx EXCEPT !.who = "none", !.died = TRUE]
        BY <2>1, <3>1 DEF crash
      <3>3. ftx' \in FutexWords /\ ftx'.who = "none" /\ ftx'.died
        BY <1>1, <3>2 DEF FutexWords
      <3> QED BY <1>1, <2>1, <3>3 DEF OwnWord, Served
    <2>2. CASE ftx.who # t
      <3>1. ftx' = ftx
        BY <2>2 DEF crash
      <3> QED BY <1>1, <1>9, <2>2, <3>1, ThreadFacts DEF OwnWord, Served, Borked
    <2> QED BY <2>1, <2>2
  <1>11. WakeComes'
    BY <1>2, <1>4, <1>10, WakeStep
  <1> QED BY <1>1, <1>2, <1>4, <1>5, <1>6, <1>7, <1>8, <1>10, <1>11, ThreadFacts, CoreStep DEF Owning

\* A dead owner's mutex goes to the first sleeper.
LEMMA InheritKeeps ==
  ASSUME RobustInv, inherit
  PROVE  RobustInv'
  <1>1. /\ lockq \in Seq(Threads) /\ condq \in Seq(Threads) /\ cnd \in Nat /\ QueueOK
        /\ lockq # <<>> /\ ftx \in FutexWords /\ ftx.who = "none" /\ ftx.died
    BY DEF RobustInv, RobustTypeOK, inherit
  <1>2. PICK u \in Threads :
          /\ u = Head(lockq) /\ Among(lockq, u)
          /\ Tail(lockq) \in Seq(Threads) /\ Once(Tail(lockq))
          /\ \A v \in Threads : Among(Tail(lockq), v) <=> Among(lockq, v) /\ v # u
    BY <1>1, QueueTail DEF QueueOK
  <1>3. /\ lockq' = Tail(lockq) /\ ftx' = [ftx EXCEPT !.who = u, !.more = TRUE]
        /\ th' = [th EXCEPT ![u].pc = Granted(u)] /\ UNCHANGED <<cnd, condq, cutShort, leftOver, sawDeath>>
    BY <1>2 DEF inherit, Calm
  <1>4. th[u].pc \in {"sleep", "wblk"}
    BY <1>1, <1>2 DEF QueueOK
  <1>5. /\ th[u] \in ThreadRecords /\ th \in [Threads -> ThreadRecords] /\ u # "none" /\ u # "bork"
        /\ th[u].pend /\ (th[u].broken => sawDeath)
    BY <1>2, <1>4, ThreadFacts DEF ThreadOK, Pending
  <1>6. Granted(u) \in {"got", "wgot"} /\ Granted(u) \in Places
    BY DEF Granted, Places, Pending
  <1>7. Alone(u) /\ th'[u].pc \in {"got", "wgot"} /\ th'[u].pend /\ th'[u].broken = th[u].broken
    BY <1>2, <1>3, <1>5, <1>6 DEF ThreadRecords, Alone
  <1>8. ThreadOK(th[u])'
    BY <1>3, <1>5, <1>7 DEF ThreadOK, Listed
  <1>9. ftx' \in FutexWords /\ ftx'.who = u /\ ftx'.more
    BY <1>1, <1>2, <1>3 DEF FutexWords
  <1>10. OwnWord(u) /\ Served'
    BY <1>1, <1>2, <1>9 DEF OwnWord, Served
  <1>11. QueueOK'
    BY <1>1, <1>2, <1>3, <1>4, <1>7 DEF QueueOK, Alone
  <1>12. WakeComes'
    BY <1>2, <1>3, <1>4, <1>7, <1>10, WakeStep
  <1> QED BY <1>1, <1>2, <1>3, <1>5, <1>7, <1>8, <1>9, <1>10, <1>11, <1>12, ThreadFacts, CoreStep
          DEF Owning

\* FUTEX_UNLOCK_PI: the word passes from its owner to the first sleeper.
LEMMA HandOverKeeps ==
  ASSUME RobustInv, NEW t \in Threads, unlock_give(t), ftx.who = t, ftx.more, lockq # <<>>
  PROVE  RobustInv'
  <1>1. /\ lockq \in Seq(Threads) /\ condq \in Seq(Threads) /\ cnd \in Nat /\ QueueOK
        /\ th \in [Threads -> ThreadRecords] /\ sawDeath \in BOOLEAN
        /\ th[t].pc = "give" /\ th[t].pend
    BY ThreadFacts DEF RobustInv, RobustTypeOK, unlock_give, At, ThreadOK, Pending
  <1>2. PICK u \in Threads :
          /\ u = Head(lockq) /\ Among(lockq, u)
          /\ Tail(lockq) \in Seq(Threads) /\ Once(Tail(lockq))
          /\ \A v \in Threads : Among(Tail(lockq), v) <=> Among(lockq, v) /\ v # u
    BY <1>1, QueueTail DEF QueueOK
  <1>3. /\ lockq' = Tail(lockq) /\ ftx' = [who |-> u, died |-> FALSE, more |-> TRUE]
        /\ th' = [th EXCEPT ![t].pc = "given", ![u].pc = Granted(u)]
        /\ UNCHANGED <<cnd, condq, cutShort, leftOver, sawDeath>>
    BY <1>2 DEF unlock_give, Calm
  <1>4. th[u].pc \in {"sleep", "wblk"} /\ u # t
    BY <1>1, <1>2 DEF QueueOK
  <1>5. th[u].pend /\ (th[u].broken => sawDeath) /\ (th[t].broken => sawDeath)
    BY <1>2, <1>4, ThreadFacts DEF ThreadOK, Pending
  <1>6. Granted(u) \in {"got", "wgot"} /\ Granted(u) \in Places /\ "given" \in Places
    BY DEF Granted, Places, Pending
  <1>7. /\ th' \in [Threads -> ThreadRecords]
        /\ th'[t].pc = "given" /\ th'[t].pend /\ th'[t].broken = th[t].broken
        /\ th'[u].pc \in {"got", "wgot"} /\ th'[u].pend /\ th'[u].broken = th[u].broken
        /\ \A v \in Threads : v # t /\ v # u => th'[v] = th[v]
    <2>1. /\ th'[t] = [th[t] EXCEPT !.pc = "given"] /\ th'[u] = [th[u] EXCEPT !.pc = Granted(u)]
          /\ \A v \in Threads : v # t /\ v # u => th'[v] = th[v]
          /\ th' = [v \in Threads |-> th'[v]]
      BY <1>1, <1>2, <1>3, <1>4
    <2>2. /\ th'[t] \in ThreadRecords /\ th'[t].pc = "given" /\ th'[t].pend /\ th'[t].broken = th[t].broken
      <3>1. th[t] \in ThreadRecords /\ th[t].pend /\ "given" \in Places
        BY <1>1, <1>6
      <3>2. th'[t] = [th[t] EXCEPT !.pc = "given"]
        BY <2>1
      <3> QED BY <3>1, <3>2 DEF ThreadRecords
    <2>3. /\ th'[u] \in ThreadRecords /\ th'[u].pc \in {"got", "wgot"} /\ th'[u].pend
          /\ th'[u].broken = th[u].broken
      BY <1>1, <1>2, <1>5, <1>6, <2>1, ZenonT(40) DEF ThreadRecords
    <2>4. \A v \in Threads : th'[v] \in ThreadRecords
      BY <1>1, <2>1, <2>2, <2>3, ZenonT(40)
    <2> QED BY <2>1, <2>2, <2>3, <2>4
  <1>8. ftx' \in FutexWords /\ ftx'.who = u /\ ftx'.more /\ ~ftx'.died /\ u # "bork"
    BY <1>2, <1>3, RobustAssumption DEF FutexWords
  <1>9. RobustTypeOK'
    BY <1>1, <1>2, <1>3, <1>7, <1>8 DEF RobustTypeOK
  <1>10. ASSUME NEW v \in Threads PROVE ThreadOK(th[v])'
    <2>1. CASE v # t /\ v # u
      BY <1>3, <1>7, <2>1 DEF ThreadOK, RobustInv
    <2>2. CASE v = t \/ v = u
      BY <1>3, <1>5, <1>7, <2>2 DEF ThreadOK, Listed
    <2> QED BY <2>1, <2>2
  <1>11. WordOK'
    <2>1. \A v \in Threads : th'[v].pc \in Owning => v = u
      BY <1>7, ThreadFacts DEF Owning
    <2> QED BY <1>7, <1>8, <2>1 DEF WordOK, Owning, Borked
  <1>12. QueueOK'
    BY <1>1, <1>2, <1>3, <1>4, <1>7 DEF QueueOK
  <1>13. Served'
    BY <1>2, <1>8 DEF Served
  <1>14. WakeComes'
    <2>1. \A v \in Threads : /\ th'[v].pc = "wsleep" => th'[v] = th[v]
                             /\ th[v].pc = "wake" => th'[v] = th[v]
      BY <1>1, <1>4, <1>7
    <2>2. ftx.who # "bork" /\ cnd' = cnd /\ cutShort' = cutShort /\ leftOver' = leftOver
      BY <1>3, RobustAssumption
    <2> QED BY <2>1, <2>2 DEF RobustInv, WakeComes, At, Borked
  <1> QED BY <1>9, <1>10, <1>11, <1>12, <1>13, <1>14 DEF RobustInv

\* notify and broadcast count first.
LEMMA WakeStartKeeps ==
  ASSUME RobustInv, NEW t \in Threads, wake_start(t)
  PROVE  RobustInv'
  <1>1. /\ th[t] \in ThreadRecords /\ th \in [Threads -> ThreadRecords] /\ ftx \in FutexWords
        /\ lockq \in Seq(Threads) /\ condq \in Seq(Threads) /\ cnd \in Nat /\ QueueOK
    BY ThreadFacts DEF RobustInv, RobustTypeOK
  <1>2. /\ UNCHANGED <<ftx, lockq, condq, cutShort, leftOver, sawDeath>> /\ cnd' = cnd + 1
        /\ th[t].pc = "out"
    BY DEF wake_start, At
  <1>3. "wake" \in Places /\ cnd + 1 \in Nat
    BY <1>1 DEF Places
  <1>4. Alone(t) /\ th'[t].pc = "wake" /\ th'[t].broken = th[t].broken
    BY <1>1, <1>3 DEF wake_start, ThreadRecords, Alone
  <1>5. ThreadOK(th[t])'
    BY <1>2, <1>4, ThreadFacts DEF ThreadOK, Pending, Listed
  <1>6. OwnWord(t) /\ Served'
    BY <1>1, <1>2, ThreadFacts DEF OwnWord, Served, Borked
  <1>7. QueueOK'
    BY <1>1, <1>2, <1>4 DEF QueueOK, Alone
  <1>8. WakeComes'
    BY <1>4 DEF WakeComes, At
  <1>9. th[t].pc \notin Owning /\ ftx.who # t
    BY <1>2, ThreadFacts DEF Owning
  <1> QED BY <1>1, <1>2, <1>3, <1>4, <1>5, <1>6, <1>7, <1>8, <1>9, ThreadFacts, CoreStep DEF Owning

\* FUTEX_CMP_REQUEUE_PI: the first sleeper takes a free mutex, the others that
\* are moved queue for it, and whoever is left sleeps on.
LEMMA RequeueKeeps ==
  ASSUME RobustInv, NEW t \in Threads, NEW n \in Nat, requeue(t, n)
  PROVE  RobustInv'
  <1>1. /\ th \in [Threads -> ThreadRecords] /\ ftx \in FutexWords /\ sawDeath \in BOOLEAN
        /\ lockq \in Seq(Threads) /\ condq \in Seq(Threads) /\ cnd \in Nat
        /\ Once(lockq) /\ Once(condq) /\ th[t].on \in BOOLEAN /\ Len(condq) \in Nat
    BY ThreadFacts DEF RobustInv, RobustTypeOK, QueueOK, ThreadRecords
  <1>2. /\ th[t].pc = "wake" /\ ftx.who # t
        /\ UNCHANGED <<cnd, cutShort, sawDeath>>
    BY ThreadFacts DEF requeue, At, Owning
  <1>3. /\ \A u \in Threads : Among(lockq, u) <=> th[u].pc \in {"sleep", "wblk"}
        /\ \A u \in Threads : Among(condq, u) <=> th[u].pc = "wsleep"
    BY DEF RobustInv, QueueOK
  <1>4. PICK cut \in 0..Len(condq) :
          cut = IF Borked THEN 0 ELSE IF Len(condq) < n + 1 THEN Len(condq) ELSE n + 1
    BY <1>1
  <1>5. PICK take \in BOOLEAN : take <=> cut > 0 /\ ftx.who = "none" /\ lockq = <<>>
    OBVIOUS
  <1>6. PICK m \in 1..(Len(condq) + 1) : m = IF take THEN 2 ELSE 1
    BY <1>1, <1>5
  <1>7. PICK moved \in Seq(Threads) :
          /\ moved = SubSeq(condq, m, cut) /\ Once(moved) /\ (m > cut => moved = <<>>)
          /\ \A u \in Threads : Among(moved, u) <=> \E i \in m..cut : condq[i] = u
    BY <1>1, QueuePart
  <1>8. /\ condq' = SubSeq(condq, cut + 1, Len(condq)) /\ lockq' = lockq \o moved
        /\ ftx' = [ftx EXCEPT !.who = IF take THEN condq[1] ELSE @, !.more = @ \/ moved # <<>>]
        /\ leftOver' <=> ~Borked /\ cut < Len(condq)
        /\ th' = [u \in Threads |->
                    IF u = t THEN Back("out", th[u].on)
                    ELSE IF take /\ u = condq[1] THEN [th[u] EXCEPT !.pc = "wgot"]
                    ELSE IF Among(moved, u) THEN [th[u] EXCEPT !.pc = "wblk"] ELSE th[u]]
    <2>1. SubSeq(condq, IF take THEN 2 ELSE 1, cut) = moved
      BY <1>6, <1>7
    <2> QED BY <1>4, <1>5, <2>1 DEF requeue, Among
  <1>9. /\ condq' \in Seq(Threads) /\ Once(condq') /\ (cut + 1 > Len(condq) => condq' = <<>>)
        /\ \A u \in Threads : Among(condq', u) <=> \E i \in (cut + 1)..Len(condq) : condq[i] = u
    <2>1. cut + 1 \in 1..(Len(condq) + 1) /\ Len(condq) \in 0..Len(condq)
      BY <1>1
    <2> QED BY <1>1, <1>8, <2>1, QueuePart, ZenonT(40)
  <1>10. \A u \in Threads : Among(moved, u) => Among(condq, u)
    BY <1>1, <1>7 DEF Among
  <1>11. /\ lockq' \in Seq(Threads) /\ Once(lockq')
         /\ \A u \in Threads : Among(lockq', u) <=> Among(lockq, u) \/ Among(moved, u)
    <2>1. \A u \in Threads : ~(Among(lockq, u) /\ Among(moved, u))
      BY <1>3, <1>10
    <2> QED BY <1>1, <1>7, <1>8, <2>1, QueueConcat
  <1>12. take => condq[1] \in Threads /\ Among(condq, condq[1]) /\ ~Among(moved, condq[1])
    BY <1>1, <1>5, <1>6, <1>7 DEF Among, Once
  <1>13. ASSUME NEW u \in Threads
         PROVE  Among(condq', u) <=> Among(condq, u) /\ ~Among(moved, u) /\ ~(take /\ u = condq[1])
    <2>1. ASSUME NEW i \in 1..Len(condq), condq[i] = u
          PROVE  Among(condq', u) <=> ~Among(moved, u) /\ ~(take /\ u = condq[1])
      <3>1. \A j \in 1..Len(condq) : condq[j] = u => j = i
        BY <1>1, <2>1 DEF Once
      <3>2. Among(moved, u) <=> i \in m..cut
        BY <1>1, <1>6, <1>7, <2>1, <3>1
      <3>3. Among(condq', u) <=> i \in (cut + 1)..Len(condq)
        BY <1>1, <1>9, <2>1, <3>1
      <3>4. (take /\ u = condq[1]) <=> take /\ i = 1
        BY <1>1, <2>1, <3>1
      <3>5. i \in (cut + 1)..Len(condq) <=> ~(i \in m..cut) /\ ~(take /\ i = 1)
        <4>1. CASE take
          BY <1>1, <1>5, <1>6, <4>1
        <4>2. CASE ~take
          BY <1>1, <1>5, <1>6, <4>2
        <4> QED BY <4>1, <4>2
      <3> QED BY <3>2, <3>3, <3>4, <3>5
    <2>2. Among(condq', u) => Among(condq, u)
      BY <1>1, <1>9 DEF Among
    <2> QED BY <2>1, <2>2 DEF Among
  <1>14. "out" \in Places /\ "wgot" \in Places /\ "wblk" \in Places
    BY DEF Places, Pending
  <1>15. /\ th'[t] \in ThreadRecords /\ th'[t].pc = "out" /\ ~th'[t].broken
    BY <1>1, <1>8, <1>14, BackRecord
  <1>16. ASSUME NEW u \in Threads, u # t
         PROVE  /\ th'[u] \in ThreadRecords
                /\ th'[u].pend = th[u].pend /\ th'[u].on = th[u].on
                /\ th'[u].broken = th[u].broken /\ th'[u].seen = th[u].seen
                /\ th'[u].pc = IF take /\ u = condq[1] THEN "wgot"
                               ELSE IF Among(moved, u) THEN "wblk" ELSE th[u].pc
    BY <1>1, <1>8, <1>14, <1>16 DEF ThreadRecords
  <1>17. ftx' \in FutexWords /\ ftx'.died = ftx.died
         /\ ftx'.who = (IF take THEN condq[1] ELSE ftx.who)
         /\ ftx'.more = (ftx.more \/ moved # <<>>)
    BY <1>1, <1>8, <1>12 DEF FutexWords
  <1>18. RobustTypeOK'
    <2>1. th' \in [Threads -> ThreadRecords]
      BY <1>8, <1>15, <1>16
    <2> QED BY <1>1, <1>2, <1>9, <1>11, <1>17, <2>1 DEF RobustTypeOK
  <1>19. ASSUME NEW u \in Threads PROVE ThreadOK(th[u])'
    <2>1. CASE u = t
      BY <1>15, <2>1 DEF ThreadOK, Pending, Listed
    <2>2. CASE u # t
      <3>1. ThreadOK(th[u])
        BY ThreadFacts
      <3>2. th'[u].pc = th[u].pc \/ (th[u].pc = "wsleep" /\ th'[u].pc \in {"wgot", "wblk"})
        BY <1>3, <1>10, <1>12, <1>16, <2>2
      <3> QED BY <1>2, <1>16, <2>2, <3>1, <3>2 DEF ThreadOK, Pending, Listed
    <2> QED BY <2>1, <2>2
  <1>20. QueueOK'
    <2>1. ASSUME NEW u \in Threads PROVE Among(lockq', u) <=> th'[u].pc \in {"sleep", "wblk"}
      BY <1>2, <1>3, <1>10, <1>11, <1>12, <1>15, <1>16
    <2>2. ASSUME NEW u \in Threads PROVE Among(condq', u) <=> th'[u].pc = "wsleep"
      BY <1>2, <1>3, <1>10, <1>12, <1>13, <1>15, <1>16
    <2> QED BY <1>9, <1>11, <2>1, <2>2 DEF QueueOK
  <1>21. WordOK'
    <2>1. CASE take
      <3>1. \A u \in Threads : th'[u].pc \in Owning => u = condq[1]
        BY <1>5, <1>15, <1>16, <2>1, ThreadFacts DEF Owning
      <3>2. th'[condq[1]].pc = "wgot" /\ ftx'.who = condq[1] /\ condq[1] # "bork"
        BY <1>2, <1>3, <1>12, <1>16, <1>17, <2>1, ThreadFacts
      <3> QED BY <1>12, <2>1, <3>1, <3>2 DEF WordOK, Owning, Borked
    <2>2. CASE ~take
      <3>1. ftx'.who = ftx.who /\ ftx'.died = ftx.died
        BY <1>17, <2>2
      <3>2. \A u \in Threads : th'[u].pc \in Owning => th'[u].pc = th[u].pc
        BY <1>15, <1>16, <2>2 DEF Owning
      <3>3. \A u \in Threads : th[u].pc \in Owning => th'[u].pc = th[u].pc
        BY <1>2, <1>3, <1>10, <1>16, <2>2 DEF Owning
      <3>4. \A u \in Threads : th'[u].pc \in Owning => ftx'.who \in {u, "bork"}
        BY <3>1, <3>2, ThreadFacts
      <3>5. \A u \in Threads : ftx'.who = u => th'[u].pc \in Owning /\ th'[u].pc = th[u].pc
        BY <3>1, <3>3, ThreadFacts
      <3> QED BY <1>2, <3>1, <3>4, <3>5 DEF RobustInv, WordOK, Borked
    <2> QED BY <2>1, <2>2
  <1>22. Served'
    <2> SUFFICES ASSUME lockq' # <<>>
                 PROVE  \/ ftx'.who = "bork" \/ (ftx'.who \in Threads /\ ftx'.more)
                        \/ (ftx'.who = "none" /\ ftx'.died)
      BY DEF Served, Borked
    <2>1. lockq # <<>> \/ moved # <<>>
      BY <1>8
    <2>2. lockq # <<>> =>
            ftx.who = "bork" \/ (ftx.who \in Threads /\ ftx.more) \/ (ftx.who = "none" /\ ftx.died)
      BY DEF RobustInv, Served, Borked
    <2>3. moved # <<>> => cut > 0
      BY <1>6, <1>7
    <2>4. CASE take
      BY <1>5, <1>12, <1>17, <2>1, <2>4
    <2>5. CASE ~take
      BY <1>1, <1>5, <1>17, <2>1, <2>2, <2>3, <2>5 DEF FutexWords
    <2> QED BY <2>4, <2>5
  <1>23. WakeComes'
    <2>1. CASE Borked
      <3>1. ftx'.who = "bork"
        BY <1>4, <1>5, <1>17, <2>1 DEF Borked
      <3> QED BY <3>1 DEF WakeComes, Borked
    <2>2. CASE leftOver'
      BY <2>2 DEF WakeComes
    <2>3. CASE ~Borked /\ ~leftOver'
      <3>1. condq' = <<>>
        BY <1>1, <1>8, <1>9, <2>3
      <3>2. \A u \in Threads : th'[u].pc # "wsleep"
        BY <1>9, <1>20, <3>1, EmptyQueue DEF QueueOK
      <3> QED BY <3>2 DEF WakeComes, At
    <2> QED BY <2>1, <2>2, <2>3
  <1> QED BY <1>18, <1>19, <1>20, <1>21, <1>22, <1>23 DEF RobustInv

\* Every step of every thread and of the kernel keeps the invariant.
LEMMA RobustStep == RobustInv /\ [RobustNext]_robustVars => RobustInv'
  <1> SUFFICES ASSUME RobustInv, [RobustNext]_robustVars PROVE RobustInv'
    OBVIOUS
  <1>1. CASE inherit
    BY <1>1, InheritKeeps
  <1>2. ASSUME NEW t \in Threads, Proceed(t) \/ unlock_start(t) \/ Choose(t) PROVE RobustInv'
    <2>1. CASE \/ lock_word(t) \/ wait_lock(t)
      BY <2>1, WordKeeps
    <2>2. CASE \/ \E how \in {"lock", "timed"} : lock_start(t, how)
               \/ op_add(t) \/ wait_add(t) \/ op_end(t) \/ op_fail(t) \/ dead_fail(t)
      BY <2>2, LockKeeps
    <2>3. CASE lock_dead(t) \/ try_dead(t) \/ posix_dead(t)
      BY <2>3, RepairKeeps
    <2>4. CASE unlock_give(t) \/ unlock_end(t)
      BY <2>4, ReleaseKeeps, HandOverKeeps
    <2>5. CASE \/ unlock_start(t) \/ cond_wait(t) \/ posix_wait(t)
               \/ unlock_del(t) \/ wait_end(t) \/ wake_retry(t)
      BY <2>5, LeaveKeeps DEF cond_wait, posix_wait
    <2>6. CASE wait_sleep(t)
      BY <2>6, SleepKeeps
    <2>7. CASE lock_timeout(t) \/ wait_timeout(t)
      BY <2>7, TimeoutKeeps
    <2>8. CASE wake_start(t)
      BY <2>8, WakeStartKeeps
    <2>9. CASE signal(t) \/ broadcast(t)
      <3>1. 1 \in Nat /\ Cardinality(Threads) \in Nat
        BY RobustAssumption, FS_CardinalityType
      <3> QED BY <2>9, <3>1, RequeueKeeps DEF signal, broadcast
    <2>10. CASE crash(t)
      BY <2>10, CrashKeeps
    <2> QED BY <1>2, <2>1, <2>2, <2>3, <2>4, <2>5, <2>6, <2>7, <2>8, <2>9, <2>10 DEF Proceed, Choose
  <1>3. CASE UNCHANGED robustVars
    BY <1>3 DEF robustVars, RobustInv, RobustTypeOK, ThreadOK, WordOK, QueueOK, Served, WakeComes,
                Borked, At, Once, Among
  <1> QED BY <1>1, <1>2, <1>3 DEF RobustNext

-----------------------------------------------------------------------------
(***************************************************************************)
(* Results                                                                 *)
(***************************************************************************)
\* The robust lists, the word and the queues always agree.
THEOREM RobustInvariance == RobustSpec => []RobustInv
  BY RobustStarts, RobustStep, PTL DEF RobustSpec

\* The mutex never stays with a dead thread, and deaths of owners alone never
\* make it unrecoverable, for any number of threads and deaths (the order of
\* robust_op_start, add, del and end around the word, mtx.c).
THEOREM RobustOwnerAlive == RobustSpec => []OwnerAlive
  <1>1. RobustInv => OwnerAlive
    <2> SUFFICES ASSUME RobustInv PROVE OwnerAlive
      OBVIOUS
    <2>1. ASSUME NEW t \in Threads, ftx.who = t
          PROVE  th[t].pc # "gone" /\ (th[t].on \/ th[t].pend)
      BY <2>1, ThreadFacts DEF Owning, ThreadOK, Listed, Pending
    <2>2. Borked => sawDeath
      BY DEF RobustInv, WordOK
    <2> QED BY <2>1, <2>2 DEF OwnerAlive
  <1> QED BY <1>1, RobustInvariance, PTL

\* The callers that lock or a wait let in exclude each other while the mutex
\* is recoverable: each of them is the one the word names.
THEOREM RobustOneInside == RobustSpec => []OneInside
  <1>1. RobustInv => OneInside
    <2> SUFFICES ASSUME RobustInv, ~Borked, NEW t \in Threads, NEW u \in Threads, Inside(t), Inside(u)
                 PROVE  t = u
      BY DEF OneInside
    <2>1. ftx.who \in {t, "bork"} /\ ftx.who \in {u, "bork"}
      BY ThreadFacts DEF Inside, Owning
    <2> QED BY <2>1 DEF Borked
  <1> QED BY <1>1, RobustInvariance, PTL

\* No wake-up is lost between reading the condition word and sleeping on it.
THEOREM RobustWakeComes == RobustSpec => []WakeComes
  <1>1. RobustInv => WakeComes
    BY DEF RobustInv
  <1> QED BY <1>1, RobustInvariance, PTL

\* No sleeper on the mutex is forgotten: while somebody sleeps on a recoverable
\* mutex, it has an owner alive whose unlock must call the kernel because
\* FUTEX_WAITERS is set (mtx.c:328), or a dead owner the kernel passes it on
\* from; this is what the fast paths of lock and unlock must not break.
THEOREM RobustNobodyForgotten ==
  RobustSpec => [](\A t \in Threads : th[t].pc \in {"sleep", "wblk"} =>
                      Borked \/ (ftx.who \in Threads /\ ftx.more) \/ (ftx.who = "none" /\ ftx.died))
  <1>1. RobustInv => \A t \in Threads : th[t].pc \in {"sleep", "wblk"} =>
                      Borked \/ (ftx.who \in Threads /\ ftx.more) \/ (ftx.who = "none" /\ ftx.died)
    <2> SUFFICES ASSUME RobustInv, NEW t \in Threads, th[t].pc \in {"sleep", "wblk"}
                 PROVE  lockq # <<>>
      BY DEF RobustInv, Served
    <2>1. Among(lockq, t) /\ lockq \in Seq(Threads)
      BY DEF RobustInv, QueueOK, RobustTypeOK
    <2> QED BY <2>1, EmptyQueue
  <1> QED BY <1>1, RobustInvariance, PTL

\* A broadcast moves every sleeper there is (mtx.c:417 passes INT_MAX): only a
\* signal can leave some, the exception WakeComes makes.
THEOREM BroadcastReachesAll ==
  RobustSpec => [][\A t \in Threads : broadcast(t) => ~leftOver']_robustVars
  <1>1. ASSUME RobustInv, NEW t \in Threads, broadcast(t) PROVE ~leftOver'
    <2> DEFINE n == Cardinality(Threads)
    <2>1. n \in Nat /\ condq \in Seq(Threads) /\ Len(condq) \in Nat /\ Once(condq)
      BY <1>1, RobustAssumption, FS_CardinalityType DEF RobustInv, RobustTypeOK, QueueOK
    <2>2. Len(condq) <= n
      <3> SUFFICES ASSUME Len(condq) > n PROVE FALSE
        BY <2>1
      <3>1. IsFiniteSet(1..Len(condq)) /\ Cardinality(1..Len(condq)) = Len(condq)
        <4>1. 1 \in Int /\ Len(condq) \in Int /\ 1 <= Len(condq)
          BY <2>1
        <4>2. \A a, b \in Int : /\ IsFiniteSet(a..b)
                                /\ Cardinality(a..b) = IF a > b THEN 0 ELSE b - a + 1
          BY FS_Interval
        <4> QED BY <4>1, <4>2
      <3>2. condq \in [1..Len(condq) -> Threads]
        BY <2>1
      <3>3. PICK i, j \in 1..Len(condq) : i # j /\ condq[i] = condq[j]
        BY <3>1, <3>2, RobustAssumption, FS_PigeonHole
      <3> QED BY <2>1, <3>3 DEF Once
    <2> HIDE DEF n
    <2>3. requeue(t, n)
      BY <1>1 DEF broadcast, n
    <2>4. Len(condq) < n + 1
      BY <2>1, <2>2
    <2>5. leftOver' <=> ~Borked /\ (IF Borked THEN 0 ELSE Len(condq)) < Len(condq)
      BY <2>3, <2>4 DEF requeue
    <2> QED BY <2>1, <2>5
  <1>2. RobustInv /\ [RobustNext]_robustVars
          => [\A t \in Threads : broadcast(t) => ~leftOver']_robustVars
    BY <1>1
  <1> QED BY <1>2, RobustInvariance, PTL DEF RobustSpec
=============================================================================
