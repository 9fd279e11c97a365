------------------------------- MODULE Buffer -------------------------------
(***************************************************************************)
(* Objects that run a function when they go: ipc::buffer, which holds what *)
(* recv returns and gives it back (to the heap or to the pool of chunks),  *)
(* and the guards scope_guard and scope_exit.  All of them can be moved    *)
(* and swapped, so what counts is that every function runs once.  A task   *)
(* stands for a function with its argument.                                *)
(***************************************************************************)
EXTENDS Naturals, FiniteSets

CONSTANTS
  Owners,    \* where objects live
  MaxTasks   \* bound on the tasks handed out

ASSUME BufferAssumption == MaxTasks \in Nat

Kinds == {"buffer", "scope_guard", "scope_exit"}
NoTask == 0
Nothing == [kind |-> "none", task |-> NoTask, dismissed |-> TRUE]

VARIABLES
  object,   \* what is at each place; an empty buffer has no task
  handed,   \* tasks handed out so far
  runs,     \* how often each task has run
  waived    \* tasks that are not to run: dismissed, or assigned over

bufferVars == <<object, handed, runs, waived>>

BufferInit ==
  /\ object = [p \in Owners |-> Nothing]
  /\ handed = 0 /\ waived = {}
  /\ runs = [i \in 1 .. MaxTasks |-> 0]

\* The task of an object that goes, unless it was dismissed.
Runs(o) == IF o.dismissed THEN runs ELSE [runs EXCEPT ![o.task] = @ + 1]

\* A new object with a task: buffer(p, s, d, a), guard(f), make_scope_exit(f).
make(p, kind) ==
  /\ object[p] = Nothing /\ handed < MaxTasks
  /\ handed' = handed + 1
  /\ object' = [object EXCEPT ![p] = [kind |-> kind, task |-> handed', dismissed |-> FALSE]]
  /\ UNCHANGED <<runs, waived>>

\* Slip: the source keeps its task.
SlipMove(p, q) ==
  /\ p # q /\ object[p] = Nothing /\ object[q] # Nothing
  /\ object' = [object EXCEPT ![p] = object[q]]
  /\ UNCHANGED <<handed, runs, waived>>

\* Move construction: the new object has the task, the source none.
move(p, q) ==
  /\ p # q /\ object[p] = Nothing /\ object[q] # Nothing
  /\ object' = [object EXCEPT ![p] = object[q], ![q].dismissed = TRUE]
  /\ UNCHANGED <<handed, runs, waived>>

\* buffer::operator= takes its argument by value and swaps: what was here goes
\* with the argument.  p = q moves the buffer out and in again.
assign_buffer(p, q) ==
  /\ object[p].kind = "buffer" /\ object[q].kind = "buffer"
  /\ LET left == [object EXCEPT ![q].dismissed = TRUE] IN
     /\ runs' = Runs(left[p])
     /\ object' = [left EXCEPT ![p] = object[q]]
  /\ UNCHANGED <<handed, waived>>

\* scope_exit::operator= takes the function over; the one it had is lost.
assign_exit(p, q) ==
  /\ p # q /\ object[p].kind = "scope_exit" /\ object[q].kind = "scope_exit"
  /\ object' = [object EXCEPT ![p] = object[q], ![q].dismissed = TRUE]
  /\ waived' = IF object[p].dismissed THEN waived ELSE waived \cup {object[p].task}
  /\ UNCHANGED <<handed, runs>>

swap(p, q) ==
  /\ p # q /\ object[p].kind = object[q].kind /\ object[p] # Nothing
  /\ object' = [object EXCEPT ![p] = object[q], ![q] = object[p]]
  /\ UNCHANGED <<handed, runs, waived>>

\* dismiss of a scope_guard, release of a scope_exit.
dismiss(p) ==
  /\ object[p].kind \in {"scope_guard", "scope_exit"}
  /\ object' = [object EXCEPT ![p].dismissed = TRUE]
  /\ waived' = IF object[p].dismissed THEN waived ELSE waived \cup {object[p].task}
  /\ UNCHANGED <<handed, runs>>

\* do_exit: now, and not again at the end.
do_exit(p) ==
  /\ object[p].kind \in {"scope_guard", "scope_exit"}
  /\ runs' = Runs(object[p])
  /\ object' = [object EXCEPT ![p].dismissed = TRUE]
  /\ UNCHANGED <<handed, waived>>

\* The destructor.
destroy(p) ==
  /\ object[p] # Nothing
  /\ runs' = Runs(object[p])
  /\ object' = [object EXCEPT ![p] = Nothing]
  /\ UNCHANGED <<handed, waived>>

BufferNext == \E p \in Owners :
  \/ \E kind \in Kinds : make(p, kind)
  \/ \E q \in Owners : move(p, q) \/ assign_buffer(p, q) \/ assign_exit(p, q) \/ swap(p, q)
  \/ dismiss(p) \/ do_exit(p) \/ destroy(p)

BufferSpec == BufferInit /\ [][BufferNext]_bufferVars

-----------------------------------------------------------------------------
(* Properties. *)

\* Every task has one object that will run it, or has run, or is not to: a
\* message's memory is given back once and not while it can still be read.
RunsOnce == \A i \in 1 .. handed :
  LET holders == {p \in Owners : object[p].task = i /\ ~object[p].dismissed}
  IN runs[i] + Cardinality(holders) + (IF i \in waived THEN 1 ELSE 0) = 1
=============================================================================
