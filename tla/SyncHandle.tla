----------------------------- MODULE SyncHandle -----------------------------
(***************************************************************************)
(* The named mutex, condition and semaphore objects: how a process comes   *)
(* to share one with others and how the last user takes it away again.     *)
(*   kind "linux mutex"  platform/linux/mutex.h over sync_obj_impl.h       *)
(*        "posix mutex"  platform/posix/mutex.h                            *)
(*        "linux cond"   sync_obj_impl.h alone, one handle per object      *)
(*        "posix cond"   platform/posix/condition.h, likewise              *)
(*        "sem"          platform/posix/semaphore_impl.h, likewise         *)
(* A mutex goes through a registry of its process (curr_prog), which keeps *)
(* one segment handle per name and counts the mutex objects that use it.   *)
(* An object is a pair <<process, number>>; the handle belongs to the      *)
(* process.  Locking is one step here; module Robust has its detail.       *)
(***************************************************************************)
EXTENDS Segment

CONSTANTS Objs,      \* the mutex, condition and semaphore objects
          SemCount,  \* the count semaphores are opened with
          MaxValue   \* bound: value of a semaphore

ASSUME SyncAssumption ==
  /\ IsFiniteSet(SegHandles) /\ IsFiniteSet(Objs)
  /\ Objs \subseteq SegHandles \X (Nat \ {0})
  /\ SemCount \in Nat /\ MaxValue \in Nat

Proc(m) == m[1]
Single == {m \in Objs : m[2] = 1}   \* the objects that own their handle

VARIABLES reg,   \* process -> is the name registered, its ref, who locks it
          obj,   \* object -> its step, its pointer, the segment it locked
          sem,   \* the semaphore's name, its values, posts minus waits
          crossed \* history: an entry went, or an object was counted, too early

syncVars == <<reg, obj, sem, crossed>>

Kinds == {"linux mutex", "posix mutex", "linux cond", "posix cond", "sem"}
Mutex == kind \in {"linux mutex", "posix mutex"}
Posix == kind \in {"posix mutex", "posix cond"}

SyncInit == /\ SegInit
            /\ reg = [p \in SegHandles |-> [on |-> FALSE, ref |-> 0, lock |-> Nobody]]
            /\ obj = [m \in Objs |-> [pc |-> "idle", ptr |-> "null", self |-> 0, holds |-> 0]]
            /\ crossed = FALSE
            /\ sem = [name |-> 0, made |-> 0, net |-> 0,
                      val |-> [i \in 1..MaxSegs |-> 0], of |-> [p \in SegHandles |-> 0]]

SegOf(m) == hnd[Proc(m)].seg
Goto(m, pc) == obj' = [obj EXCEPT ![m].pc = pc]
LockFree(p) == reg[p].lock = Nobody
Others(m) == {n \in Objs \ {m} : Proc(n) = Proc(m) /\ obj[n].ptr = "live"}

\* Another process that has been told it is alone, or soon will be, and still
\* has to initialise or destroy the object in the segment.
Initialising(p) ==
  \E n \in Objs : /\ Proc(n) # p /\ obj[n].ptr # "dangling"
                  /\ \/ obj[n].pc \in {"wipe", "init", "destroy", "cleardestroy", "clear"}
                     \/ Posix /\ obj[n].pc \in {"ref", "made", "add", "chk"} /\ ~segs[SegOf(n)].init
                     \/ Posix /\ obj[n].pc = "erase"

(***************************************************************************)
(* open                                                                    *)
(***************************************************************************)
\* A null object is opened; open on another one is close followed by this.
Closed(m) == obj[m].pc = "idle" /\ obj[m].ptr = "null" /\ LockFree(Proc(m))
Acquire(m) == /\ shm_open(Proc(m), "create|open")
              /\ reg' = [reg EXCEPT ![Proc(m)].lock = m]
              /\ Goto(m, "shm")
              /\ UNCHANGED <<sem, crossed>>

\* acquire_mutex under info.lock, name found: the entry is used as it is.
acquire_mutex(m) ==
  /\ Mutex /\ Closed(m) /\ reg[Proc(m)].on
  /\ obj' = [obj EXCEPT ![m].ptr = "live", ![m].pc = "add"]
  /\ UNCHANGED <<segVars, reg, sem, crossed>>

\* Name not found: the entry's handle is opened while info.lock is held, by
\* robust_mutex::open on linux, directly on posix.
acquire_handle(m) == kind = "linux mutex" /\ Closed(m) /\ ~reg[Proc(m)].on /\ Acquire(m)
acquire_posix(m) == kind = "posix mutex" /\ Closed(m) /\ ~reg[Proc(m)].on /\ Acquire(m)

\* Conditions and semaphores open a handle of their own.
acquire_cond(m) == kind \in {"linux cond", "posix cond"} /\ m \in Single /\ Closed(m) /\ Acquire(m)
acquire_sem(m) == kind = "sem" /\ m \in Single /\ Closed(m) /\ Acquire(m)

\* shm::handle::acquire goes on; what follows it depends on the object.
acquire(m) ==
  /\ obj[m].pc = "shm"
  /\ \/ get_mem(Proc(m)) /\ UNCHANGED obj
     \/ /\ count(Proc(m), Initialising(Proc(m)))
        /\ Goto(m, CASE kind = "posix mutex" -> "made" [] kind = "sem" -> "semopen" [] OTHER -> "ref")
  /\ UNCHANGED <<reg, sem, crossed>>

\* obj_impl::open and condition::open of posix: the object is initialised by
\* the user that finds itself the only one.
open_ref(m) ==
  /\ ~Posix /\ obj[m].pc = "ref"
  /\ Goto(m, IF get_ref(Proc(m)) > 1 THEN "made" ELSE "wipe")
  /\ UNCHANGED <<segVars, reg, sem, crossed>>
open_cond(m) ==
  /\ Posix /\ obj[m].pc = "ref"
  /\ Goto(m, IF get_ref(Proc(m)) > 1 THEN "made" ELSE "init")
  /\ UNCHANGED <<segVars, reg, sem, crossed>>

\* *h_ = A0_EMPTY
open_wipe(m) ==
  /\ obj[m].pc = "wipe"
  /\ segs' = [segs EXCEPT ![SegOf(m)].owner = Nobody]
  /\ Goto(m, "made")
  /\ UNCHANGED <<kind, linked, created, hnd, raced, reg, sem, crossed>>

\* The handle is open: the registry has its entry, the object its pointer.
emplaced(m) ==
  LET p == Proc(m) IN
  /\ obj[m].pc = "made"
  /\ obj' = [obj EXCEPT ![m].ptr = "live", ![m].pc = IF Mutex THEN "add" ELSE "idle"]
  /\ reg' = [reg EXCEPT ![p] = [on |-> Mutex, ref |-> 0, lock |-> Nobody]]
  /\ UNCHANGED <<segVars, sem, crossed>>

\* mutex::open: the count of objects goes up after info.lock was given back.
open_add(m) ==
  LET p == Proc(m) IN
  /\ obj[m].pc = "add"
  /\ reg' = [reg EXCEPT ![p].ref = @ + 1]
  /\ obj' = [obj EXCEPT ![m].pc = IF Posix THEN "chk" ELSE "idle", ![m].self = reg[p].ref]
  /\ crossed' = (crossed \/ \E n \in Others(m) : obj[n].pc \in {"chk", "init"})
  /\ UNCHANGED <<segVars, sem>>

\* mutex::open of posix: only the first object of the only process initialises.
SlipReinit(m) ==
  /\ obj[m].pc = "chk"
  /\ Goto(m, IF get_ref(Proc(m)) > 1 THEN "idle" ELSE "init")
  /\ UNCHANGED <<segVars, reg, sem, crossed>>
open_chk(m) ==
  /\ obj[m].pc = "chk"
  /\ Goto(m, IF get_ref(Proc(m)) > 1 \/ obj[m].self > 0 THEN "idle" ELSE "init")
  /\ UNCHANGED <<segVars, reg, sem, crossed>>

\* pthread_mutex_init and pthread_cond_init over whatever is there.
Initialise(m, pc) ==
  /\ obj[m].pc = "init"
  /\ segs' = [segs EXCEPT ![SegOf(m)].owner = Nobody, ![SegOf(m)].init = TRUE]
  /\ Goto(m, pc)
  /\ UNCHANGED <<kind, linked, created, hnd, raced, reg, sem, crossed>>
open_init(m) == kind = "posix mutex" /\ Initialise(m, "idle")
init_cond(m) == kind = "posix cond" /\ Initialise(m, "made")

\* sem_open(O_CREAT): the semaphore has a name of its own; the count given
\* counts only for the user that creates it.
sem_open(m) ==
  LET p == Proc(m)
      new == sem.name = 0
      s == IF new THEN sem.made + 1 ELSE sem.name IN
  /\ obj[m].pc = "semopen" /\ s <= MaxSegs
  /\ sem' = [sem EXCEPT !.name = s, !.of[p] = s,
               !.made = IF new THEN s ELSE @, !.net = IF new THEN 0 ELSE @,
               !.val[s] = IF new THEN SemCount ELSE @]
  /\ crossed' = (crossed \/ \E n \in Single : obj[n].pc \in {"semunlink", "clear"})
  /\ Goto(m, "made")
  /\ UNCHANGED <<segVars, reg>>

(***************************************************************************)
(* close, clear, clear_storage                                             *)
(***************************************************************************)
valid(m) == /\ obj[m].ptr = "live" /\ hnd[Proc(m)].at = "held"
            /\ Posix => segs[SegOf(m)].init

\* An object is closed by its user while that user does not hold the lock;
\* posix mutex::open also closes when pthread_mutex_init fails.
MayClose(m) == /\ obj[m].ptr = "live" /\ LockFree(Proc(m))
               /\ \/ obj[m].pc = "idle" /\ obj[m].holds = 0
                  \/ Mutex /\ obj[m].pc = "init"

\* Another object of the process has the entry's address and has not counted
\* itself yet.
Uncounted(m) == \E n \in Others(m) : obj[n].pc = "add"

CountOut(m, pc) ==
  /\ MayClose(m)
  /\ reg' = [reg EXCEPT ![Proc(m)].ref = @ - 1, ![Proc(m)].lock = m]
  /\ Goto(m, pc)
  /\ crossed' = (crossed \/ (reg[Proc(m)].ref <= 1 /\ Uncounted(m)))
  /\ UNCHANGED <<segVars, sem>>

\* mutex::close of linux erases the entry when it counts the last object out.
close_linux(m) ==
  kind = "linux mutex" /\ CountOut(m, IF reg[Proc(m)].ref <= 1 THEN "erase" ELSE "keep")

\* mutex::close of posix does so only when no other process uses the segment
\* either; otherwise the entry stays, at count 0, as long as the process.
close_posix(m) ==
  kind = "posix mutex" /\ CountOut(m, IF reg[Proc(m)].ref <= 1 /\ get_ref(Proc(m)) <= 1
                                       THEN "destroy" ELSE "keep")

\* condition::close of posix destroys the condition first when it is alone.
close_cond(m) ==
  /\ kind \in {"linux cond", "posix cond"} /\ MayClose(m)
  /\ Goto(m, IF Posix /\ get_ref(Proc(m)) <= 1 THEN "destroy" ELSE "erase")
  /\ UNCHANGED <<segVars, reg, sem, crossed>>

\* pthread_mutex_unlock (by the closing thread) and pthread_mutex_destroy,
\* which leaves a locked mutex alone; pthread_cond_destroy.
destroy(m) ==
  /\ obj[m].pc \in {"destroy", "cleardestroy"}
  /\ segs' = [segs EXCEPT ![SegOf(m)] = IF @.owner = Nobody THEN [@ EXCEPT !.init = FALSE] ELSE @]
  /\ Goto(m, IF obj[m].pc = "destroy" THEN "erase" ELSE "clear")
  /\ UNCHANGED <<kind, linked, created, hnd, raced, reg, sem, crossed>>

\* The entry leaves the registry and its handle releases the segment; other
\* objects of the process that point to the entry are left dangling.
Gone(m) ==
  obj' = [n \in Objs |-> IF n = m THEN [obj[n] EXCEPT !.pc = "erased"]
                        ELSE IF n \in Others(m) THEN [obj[n] EXCEPT !.ptr = "dangling"]
                        ELSE obj[n]]
erase(m) ==
  /\ obj[m].pc = "erase"
  /\ release(Proc(m))
  /\ Gone(m)
  /\ UNCHANGED <<reg, sem, crossed>>

\* Somebody else uses the entry or the segment.
Shared(m) == Others(m) # {} \/ \E p \in SegHandles \ {Proc(m)} : hnd[p].at # "null"

\* clear: the name goes even if others count on it.
Clear(m, pc) ==
  /\ MayClose(m) /\ obj[m].pc = "idle"
  /\ reg' = [reg EXCEPT ![Proc(m)].lock = m]
  /\ Goto(m, pc)
  /\ crossed' = (crossed \/ Shared(m))
  /\ UNCHANGED segVars
clear_linux(m) == kind \in {"linux mutex", "linux cond"} /\ Clear(m, "clear") /\ UNCHANGED sem
clear_posix(m) == kind = "posix mutex" /\ Clear(m, "cleardestroy") /\ UNCHANGED sem
clear_cond(m) == /\ kind = "posix cond"
                 /\ Clear(m, IF get_ref(Proc(m)) <= 1 THEN "cleardestroy" ELSE "clear")
                 /\ UNCHANGED sem
clear_shm(m) ==
  /\ obj[m].pc = "clear"
  /\ remove(Proc(m))
  /\ Gone(m)
  /\ UNCHANGED <<reg, sem, crossed>>

\* The end of close and clear: the name is unlinked if the release said so,
\* info.lock is given back, the object forgets its pointers.
closed(m) ==
  LET p == Proc(m) IN
  /\ obj[m].pc \in {"erased", "keep"}
  /\ IF hnd[p].at = "unlink" THEN unlink(p) ELSE UNCHANGED segVars
  /\ reg' = [reg EXCEPT ![p] = [on |-> obj[m].pc = "keep", lock |-> Nobody,
                               ref |-> IF obj[m].pc = "keep" THEN @.ref ELSE 0]]
  /\ obj' = [obj EXCEPT ![m].pc = "idle", ![m].ptr = "null"]
  /\ UNCHANGED <<sem, crossed>>

\* semaphore::close: the user whose release returns 1 or less also unlinks the
\* semaphore's name.
SlipSemStays(m) ==
  LET p == Proc(m) IN
  /\ kind = "sem" /\ MayClose(m)
  /\ release(p)
  /\ sem' = [sem EXCEPT !.of[p] = 0]
  /\ Goto(m, "erased")
  /\ UNCHANGED <<reg, crossed>>
close_sem(m) ==
  LET p == Proc(m) IN
  /\ kind = "sem" /\ MayClose(m)
  /\ release(p)
  /\ sem' = [sem EXCEPT !.of[p] = 0]
  /\ Goto(m, IF get_ref(p) <= 1 THEN "semunlink" ELSE "erased")
  /\ UNCHANGED <<reg, crossed>>
sem_unlink(m) ==
  LET p == Proc(m) IN
  /\ obj[m].pc = "semunlink"
  /\ IF hnd[p].at = "unlink"
       THEN unlink(p) /\ UNCHANGED <<obj, sem>>
       ELSE /\ sem' = [sem EXCEPT !.name = 0]
            /\ Goto(m, "erased")
            /\ UNCHANGED segVars
  /\ UNCHANGED <<reg, crossed>>

\* semaphore::clear: the semaphore's name first, then the segment's.
clear_sem(m) == /\ kind = "sem" /\ Clear(m, "clear")
                /\ sem' = [sem EXCEPT !.name = 0, !.of[Proc(m)] = 0]

\* The static clear_storage, called by a process about a name others may use:
\* the registry's entry goes first, whoever points to it.
clear_entry(m) ==
  LET p == Proc(m) IN
  /\ Mutex /\ Closed(m) /\ reg[p].on
  /\ reg' = [reg EXCEPT ![p].lock = m]
  /\ Goto(m, "erase")
  /\ crossed' = (crossed \/ Shared(m))
  /\ UNCHANGED <<segVars, sem>>
clear_name(m) ==
  /\ Closed(m) /\ ~reg[Proc(m)].on
  /\ clear_storage
  /\ sem' = [sem EXCEPT !.name = 0]
  /\ UNCHANGED <<reg, obj, crossed>>

\* A process without open objects ends: curr_prog's destructor releases the
\* handles posix mutex::close has kept.
exit(m) ==
  LET p == Proc(m) IN
  /\ \A n \in Objs : Proc(n) = p => obj[n].ptr = "null" /\ obj[n].pc = "idle"
  /\ m[2] = 1 /\ reg[p].on
  /\ reg' = [reg EXCEPT ![p].lock = m]
  /\ Goto(m, "erase")
  /\ UNCHANGED <<segVars, sem, crossed>>

(***************************************************************************)
(* use                                                                     *)
(***************************************************************************)
lock(m) ==
  /\ Mutex /\ obj[m].pc = "idle" /\ valid(m) /\ obj[m].holds = 0
  /\ segs[SegOf(m)].owner = Nobody
  /\ segs' = [segs EXCEPT ![SegOf(m)].owner = m]
  /\ obj' = [obj EXCEPT ![m].holds = SegOf(m)]
  /\ UNCHANGED <<kind, linked, created, hnd, raced, reg, sem, crossed>>
unlock(m) ==
  /\ Mutex /\ obj[m].pc = "idle" /\ valid(m) /\ obj[m].holds # 0
  /\ segs' = [segs EXCEPT ![SegOf(m)].owner = IF @ = m THEN Nobody ELSE @]
  /\ obj' = [obj EXCEPT ![m].holds = 0]
  /\ UNCHANGED <<kind, linked, created, hnd, raced, reg, sem, crossed>>

\* semaphore::post(1) and wait; a wait that times out leaves no trace.
post(m) ==
  LET s == sem.of[Proc(m)] IN
  /\ kind = "sem" /\ obj[m].pc = "idle" /\ obj[m].ptr = "live" /\ sem.val[s] < MaxValue
  /\ sem' = [sem EXCEPT !.val[s] = @ + 1, !.net = @ + 1]
  /\ UNCHANGED <<segVars, reg, obj, crossed>>
wait(m) ==
  LET s == sem.of[Proc(m)] IN
  /\ kind = "sem" /\ obj[m].pc = "idle" /\ obj[m].ptr = "live" /\ sem.val[s] > 0
  /\ sem' = [sem EXCEPT !.val[s] = @ - 1, !.net = @ - 1]
  /\ UNCHANGED <<segVars, reg, obj, crossed>>

\* The public classes forward to these.  An entry that is gone is freed
\* memory; what the code does with an object that still points to it is
\* undefined and is not followed.
MutexStep(m) == \/ acquire_mutex(m) \/ acquire_handle(m) \/ acquire_posix(m)
                \/ open_add(m) \/ open_chk(m) \/ open_init(m)
                \/ close_linux(m) \/ close_posix(m) \/ clear_linux(m) \/ clear_posix(m)
                \/ clear_entry(m) \/ exit(m) \/ lock(m) \/ unlock(m)
CondStep(m) == acquire_cond(m) \/ open_cond(m) \/ init_cond(m) \/ close_cond(m) \/ clear_cond(m)
SemStep(m) == \/ acquire_sem(m) \/ sem_open(m) \/ close_sem(m) \/ sem_unlink(m)
              \/ clear_sem(m) \/ post(m) \/ wait(m)
SyncStep(m) ==
  /\ kind \in Kinds /\ obj[m].ptr # "dangling"
  /\ \/ MutexStep(m) \/ CondStep(m) \/ SemStep(m)
     \/ acquire(m) \/ open_ref(m) \/ open_wipe(m) \/ emplaced(m)
     \/ destroy(m) \/ erase(m) \/ clear_shm(m) \/ closed(m) \/ clear_name(m)

(***************************************************************************)
(* properties                                                              *)
(***************************************************************************)
\* As long as no open has overlapped another process's first initialisation,
\* last close or clear (raced) and no registry entry has gone from under an
\* object (crossed), every object that is open works on the one segment the
\* name stands for, initialised and, for a mutex, with at most one holder,
\* whose ownership no open, close or clear of others has wiped; semaphore
\* users share one semaphore whose value is its count plus posts less waits.
\* This is what open's "only user initialises" tests are for
\* (sync_obj_impl.h:55, posix/mutex.h:122, posix/condition.h:56).
ShareOne ==
  (kind # "shm" /\ ~raced /\ ~crossed) =>
    /\ \A m \in Objs : obj[m].pc = "idle" /\ obj[m].ptr # "null" =>
          /\ valid(m)
          /\ SegOf(m) = linked
          /\ obj[m].holds # 0 => segs[SegOf(m)].owner = m
          /\ kind = "sem" => /\ sem.of[Proc(m)] = sem.name
                             /\ sem.val[sem.name] = SemCount + sem.net
    /\ \A m, n \in Objs : obj[m].holds # 0 /\ obj[n].holds # 0 => m = n

\* However opens, closes, clears and failed opens of several users interleave,
\* when none of them has a handle any more nothing is left behind under the
\* name: neither the segment nor, unless a clear crossed an open, the
\* semaphore (shm_posix.cpp:182-189, semaphore_impl.h:66: the user that
\* counts itself out last unlinks).
NoLeftover ==
  (/\ \A h \in SegHandles : hnd[h].at = "null"
   /\ \A m \in Objs : obj[m].pc = "idle" /\ obj[m].ptr = "null") =>
    linked = 0 /\ (crossed \/ sem.name = 0)
=============================================================================
