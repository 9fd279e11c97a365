------------------------------- MODULE Waiter -------------------------------
(***************************************************************************)
(* Blocking recv: wait_for of ipc.cpp on top of ipc::detail::waiter, whose *)
(* condition variable and mutex live in shared memory.  Receivers, each    *)
(* with a handle of its own, take messages out of a queue that is here     *)
(* only a number (pop on the ring is the subject of the ring modules).  A  *)
(* thread that has put a message in, or that closes a receiver's handle,   *)
(* wakes the sleepers: it takes and releases the mutex once, the "barrier",*)
(* and broadcasts.  send waits for room in the same way.                   *)
(*                                                                         *)
(* ipc::sync::mutex and ipc::sync::condition are taken as what they        *)
(* promise: wait releases the mutex and sleeps in one step.                *)
(***************************************************************************)
EXTENDS Naturals, FiniteSets

CONSTANTS
  Receivers,
  Wakers,   \* threads that send, or that disconnect a handle
  Spin,     \* number of tries before wait_for blocks (32 in the code)
  MaxPut    \* bound on the messages sent

ASSUME WaiterAssumption == Spin \in Nat /\ MaxPut \in Nat

Nobody == "nobody"

ASSUME ThreadsAssumption ==
  Receivers \cap Wakers = {} /\ Nobody \notin Receivers \cup Wakers

VARIABLES
  avail,  \* messages in the queue
  puts,   \* messages sent so far
  mutex,  \* who holds waiter::lock_
  quit,   \* waiter::quit_ of each receiver's handle
  pc,     \* where each thread is
  k,      \* wait_for's local k
  got     \* whether the receiver's last wait_for took a message

waiterVars == <<avail, puts, mutex, quit, pc, k, got>>

WaiterInit ==
  /\ avail = 0 /\ puts = 0
  /\ mutex = Nobody
  /\ quit = [t \in Receivers |-> FALSE]
  /\ pc = [t \in Receivers \cup Wakers |-> "idle"]
  /\ k = [t \in Receivers |-> 0]
  /\ got = [t \in Receivers |-> FALSE]

Step(t, from, to) == pc[t] = from /\ pc' = [pc EXCEPT ![t] = to]

\* The predicate of wait_for has a side effect: it takes a message if it can.
Take(t) ==
  /\ avail > 0
  /\ avail' = avail - 1
  /\ got' = [got EXCEPT ![t] = TRUE]

-----------------------------------------------------------------------------
(* A receiver in recv. *)

BlockingRecv(t) ==
  /\ Step(t, "idle", "spin")
  /\ k' = [k EXCEPT ![t] = 0] /\ got' = [got EXCEPT ![t] = FALSE]
  /\ UNCHANGED <<avail, puts, mutex, quit>>

\* A message at once: wait_for returns true.
SpinTake(t) ==
  /\ Step(t, "spin", "true")
  /\ Take(t)
  /\ UNCHANGED <<puts, mutex, quit, k>>

\* None: yield and try again, or go and block.
SpinAgain(t) ==
  /\ pc[t] = "spin"
  /\ avail = 0
  /\ IF k[t] < Spin
       THEN k' = [k EXCEPT ![t] = @ + 1] /\ UNCHANGED pc
       ELSE pc' = [pc EXCEPT ![t] = "lock"] /\ UNCHANGED k
  /\ UNCHANGED <<avail, puts, mutex, quit, got>>

\* wait_if locks the mutex, first and after every wake-up.
Lock(t) ==
  /\ Step(t, "lock", "check")
  /\ mutex = Nobody
  /\ mutex' = t
  /\ UNCHANGED <<avail, puts, quit, k, got>>

\* The handle has been told to quit: wait_if returns true.
CheckQuit(t) ==
  /\ Step(t, "check", "true")
  /\ quit[t]
  /\ mutex' = Nobody
  /\ UNCHANGED <<avail, puts, quit, k, got>>

CheckTake(t) ==
  /\ Step(t, "check", "true")
  /\ ~quit[t]
  /\ Take(t)
  /\ mutex' = Nobody
  /\ UNCHANGED <<puts, quit, k>>

\* Nothing: go and sleep, still holding the mutex.
CheckNone(t) ==
  /\ Step(t, "check", "wait")
  /\ ~quit[t] /\ avail = 0
  /\ UNCHANGED <<avail, puts, mutex, quit, k, got>>

\* cond_.wait unlocks and sleeps.
Sleep(t) ==
  /\ Step(t, "wait", "asleep")
  /\ mutex' = Nobody
  /\ UNCHANGED <<avail, puts, quit, k, got>>

\* The time is up: cond_.wait fails, wait_if and wait_for return false.
TimeUp(t) ==
  /\ Step(t, "asleep", "relock")
  /\ UNCHANGED <<avail, puts, mutex, quit, k, got>>

\* Before it fails, cond_.wait has the mutex again; the guard releases it.
GiveUpWait(t) ==
  /\ Step(t, "relock", "idle")
  /\ mutex = Nobody
  /\ UNCHANGED <<avail, puts, mutex, quit, k, got>>

\* wait_for returned true: recv goes on with the message.
Received(t) ==
  /\ Step(t, "true", "idle")
  /\ UNCHANGED <<avail, puts, mutex, quit, k, got>>

Receiving(t) ==
  \/ SpinTake(t) \/ SpinAgain(t) \/ Lock(t) \/ CheckQuit(t) \/ CheckTake(t)
  \/ CheckNone(t) \/ Sleep(t) \/ GiveUpWait(t) \/ Received(t)

-----------------------------------------------------------------------------
(* A waker. *)

\* push has succeeded, without the mutex; rd_waiter_.broadcast follows.
Put(w) ==
  /\ Step(w, "idle", "barrier")
  /\ puts < MaxPut
  /\ puts' = puts + 1 /\ avail' = avail + 1
  /\ UNCHANGED <<mutex, quit, k, got>>

\* disconnect of a receiver's handle, from another thread: quit_waiting.
Quit(w, t) ==
  /\ Step(w, "idle", "barrier")
  /\ ~quit[t]
  /\ quit' = [quit EXCEPT ![t] = TRUE]
  /\ UNCHANGED <<avail, puts, mutex, k, got>>

\* Slip: no barrier.
BarrierSkipped(w) ==
  /\ Step(w, "barrier", "broadcast")
  /\ UNCHANGED <<avail, puts, mutex, quit, k, got>>

\* The barrier: lock and unlock.  Nobody is then between its check and its
\* sleep who has not seen what was put.
Barrier(w) ==
  /\ Step(w, "barrier", "unbarrier")
  /\ mutex = Nobody
  /\ mutex' = w
  /\ UNCHANGED <<avail, puts, quit, k, got>>

Unbarrier(w) ==
  /\ Step(w, "unbarrier", "broadcast")
  /\ mutex' = Nobody
  /\ UNCHANGED <<avail, puts, quit, k, got>>

\* Slip: waking one sleeper, whose handle it may not be.
BroadcastOne(w) ==
  /\ pc[w] = "broadcast"
  /\ \/ \E t \in Receivers :
          pc[t] = "asleep" /\ pc' = [pc EXCEPT ![w] = "idle", ![t] = "lock"]
     \/ /\ \A t \in Receivers : pc[t] # "asleep"
        /\ pc' = [pc EXCEPT ![w] = "idle"]
  /\ UNCHANGED <<avail, puts, mutex, quit, k, got>>

\* cond_.broadcast wakes every sleeper.
Broadcast(w) ==
  /\ pc[w] = "broadcast"
  /\ pc' = [t \in Receivers \cup Wakers |->
              IF t = w THEN "idle" ELSE IF pc[t] = "asleep" THEN "lock" ELSE pc[t]]
  /\ UNCHANGED <<avail, puts, mutex, quit, k, got>>

Waking(w) == Barrier(w) \/ Unbarrier(w) \/ Broadcast(w)

-----------------------------------------------------------------------------
WaiterNext ==
  \/ \E t \in Receivers : BlockingRecv(t) \/ Receiving(t) \/ TimeUp(t)
  \/ \E w \in Wakers : Put(w) \/ (\E t \in Receivers : Quit(w, t)) \/ Waking(w)

WaiterSpec == WaiterInit /\ [][WaiterNext]_waiterVars

\* Threads inside these functions go on, and the mutex does not pass a thread
\* over for ever.
WaiterFairness ==
  /\ \A t \in Receivers : SF_waiterVars(Receiving(t))
  /\ \A w \in Wakers : SF_waiterVars(Waking(w))

-----------------------------------------------------------------------------
(* Properties. *)

RecvStates == {"idle", "spin", "lock", "check", "wait", "asleep", "relock", "true"}
WakeStates == {"idle", "barrier", "unbarrier", "broadcast"}

\* Types: who may hold the mutex and where receivers and wakers can be.
WaiterTypeOK ==
  /\ avail \in Nat /\ puts \in Nat
  /\ mutex \in Receivers \cup Wakers \cup {Nobody}
  /\ quit \in [Receivers -> BOOLEAN]
  /\ pc \in [Receivers \cup Wakers -> RecvStates \cup WakeStates]
  /\ \A t \in Receivers : pc[t] \in RecvStates
  /\ \A w \in Wakers : pc[w] \in WakeStates
  /\ k \in [Receivers -> 0 .. Spin]
  /\ got \in [Receivers -> BOOLEAN]

\* There is something to wake t for.
Reason(t) == avail > 0 \/ quit[t]

\* Nobody sleeps through a message or through the end of its handle: if there
\* is one, somebody is on the way to wake the sleeper.
NoLostWakeup == \A t \in Receivers :
  pc[t] = "asleep" /\ Reason(t) =>
    \E w \in Wakers : pc[w] \in {"barrier", "unbarrier", "broadcast"}

\* The inductive invariant: as long as t holds the mutex between its check
\* and its sleep, a waker with something for it is still before the barrier.
WaiterInv ==
  /\ WaiterTypeOK
  /\ \A t \in Receivers : pc[t] \in {"check", "wait"} <=> mutex = t
  /\ \A w \in Wakers : pc[w] = "unbarrier" <=> mutex = w
  /\ \A t \in Receivers :
       pc[t] = "wait" /\ Reason(t) => \E w \in Wakers : pc[w] = "barrier"
  /\ NoLostWakeup

\* A receiver asleep gets away when there is a message for it, and disconnect
\* ends a blocked recv.
Wakes == \A t \in Receivers :
  /\ (pc[t] = "asleep" /\ avail > 0) ~> (pc[t] # "asleep")
  /\ (quit[t] /\ pc[t] # "idle") ~> (pc[t] = "idle")

\* "pop failed, just return": recv goes on to look at a message only if pop
\* has taken one out.
PoppedOrReturns == \A t \in Receivers : pc[t] = "true" => got[t]
=============================================================================
