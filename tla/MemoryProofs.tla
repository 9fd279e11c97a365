---------------------------- MODULE MemoryProofs ----------------------------
(***************************************************************************)
(* What is handed out comes back, once, and is what was asked for: the     *)
(* functions of buffers and guards, the chunks of large messages, the      *)
(* memory of a monotonic resource and of the pools by size, the blocks of  *)
(* a pool, and what the helpers make of values, texts, formats and times.  *)
(*                                                                         *)
(* BufferInv says of every task who is to run it, and that nobody else is. *)
(* A move, an assignment or a swap only passes tasks on.                   *)
(*                                                                         *)
(* LargeInv follows each chunk as long as calm holds (no element is pushed *)
(* over, nobody connects in the middle of a send or leaves with a buffer   *)
(* in hand): it is in the free list, or with one sender, or on its way to  *)
(* or in the hands of exactly the receivers it counts.  The free list is a *)
(* chain, so that what the recursive walk of Free computes is known.       *)
(*                                                                         *)
(* ResInv keeps what a monotonic resource has handed out below brk, each   *)
(* piece before or after every other and before or after what is left;     *)
(* that a new chunk has room for a piece and its padding is arithmetic.    *)
(*                                                                         *)
(* PoolInv gives every block of a pool one owner, and says that what an    *)
(* owner has is a list.  It holds while no aqueire overlaps a release.     *)
(*                                                                         *)
(* HelperInv has, for expected, every item in one place; for fmt, what was *)
(* given at the front of the buffer in use.  The rest of the helpers are   *)
(* functions: the fold of sbuf_cat is unfolded and cut once, a character's *)
(* units are read back as the character, and the recursions of FlattenSeq  *)
(* and decode are shown to be defined, then followed place by place.       *)
(***************************************************************************)
EXTENDS MCBase, RingArith, SequenceTheorems, FiniteSetTheorems, FunctionTheorems, TLAPS

-----------------------------------------------------------------------------
(* Buffers and guards. *)

\* An object that is not dismissed has a task.
ObjectRecords ==
  {o \in [kind : Kinds \cup {"none"}, task : Nat, dismissed : BOOLEAN] : o.dismissed \/ o.task # NoTask}

\* The task an object is going to run.
Pending(p) == IF object[p].dismissed THEN NoTask ELSE object[p].task

BufferTypeOK ==
  /\ object \in [Owners -> ObjectRecords] /\ handed \in 0 .. MaxTasks
  /\ runs \in [1 .. MaxTasks -> Nat] /\ waived \subseteq 1 .. handed

\* A task that is pending has not run, is not waived and has one object.
OnePending ==
  /\ \A p \in Owners : Pending(p) # NoTask =>
       Pending(p) \in 1 .. handed /\ runs[Pending(p)] = 0 /\ Pending(p) \notin waived
  /\ \A p, q \in Owners : Pending(p) # NoTask /\ Pending(p) = Pending(q) => p = q

\* One that is not has run once, or is waived.
AllSettled == \A i \in 1 .. MaxTasks :
  /\ i > handed => runs[i] = 0
  /\ i <= handed /\ (\A p \in Owners : Pending(p) # i) =>
       (runs[i] = 1 /\ i \notin waived) \/ (runs[i] = 0 /\ i \in waived)

BufferInv == BufferTypeOK /\ OnePending /\ AllSettled

\* Tasks are passed on among objects, and one of them, if any, ends: it runs
\* or is waived.
LEMMA PassedOn ==
  ASSUME BufferInv, NEW d \in Nat,
         object' \in [Owners -> ObjectRecords], handed' = handed,
         \A p \in Owners : Pending(p)' # NoTask =>
           Pending(p)' # d /\ \E q \in Owners : Pending(q) = Pending(p)',
         \A p, q \in Owners : Pending(p)' # NoTask /\ Pending(p)' = Pending(q)' => p = q,
         \A q \in Owners : (Pending(q) # NoTask /\ Pending(q) # d) =>
           \E p \in Owners : Pending(p)' = Pending(q),
         d # NoTask => \E q \in Owners : Pending(q) = d,
         \/ /\ runs' = IF d = NoTask THEN runs ELSE [runs EXCEPT ![d] = @ + 1]
            /\ waived' = waived
         \/ runs' = runs /\ waived' = IF d = NoTask THEN waived ELSE waived \cup {d}
  PROVE  BufferInv'
  <1>t. BufferTypeOK /\ MaxTasks \in Nat /\ handed \in Nat /\ handed <= MaxTasks
    BY BufferAssumption DEF BufferInv, BufferTypeOK
  <1>1. d # NoTask => d \in 1 .. handed /\ runs[d] = 0 /\ d \notin waived /\ d \in 1 .. MaxTasks
    <2>1. d # NoTask => d \in 1 .. handed /\ runs[d] = 0 /\ d \notin waived
      BY DEF BufferInv, OnePending
    <2> QED BY <1>t, <2>1
  <1>2. /\ runs' \in [1 .. MaxTasks -> Nat] /\ waived' \subseteq 1 .. handed
        /\ \A i \in 1 .. MaxTasks : i # d => runs'[i] = runs[i] /\ (i \in waived' <=> i \in waived)
        /\ d # NoTask => (runs'[d] = 1 /\ d \notin waived') \/ (runs'[d] = 0 /\ d \in waived')
    <2>0. /\ runs \in [1 .. MaxTasks -> Nat] /\ waived \subseteq 1 .. handed
      BY <1>t DEF BufferTypeOK
    <2>1. CASE d = NoTask
      <3>1. runs' = runs /\ waived' = waived
        BY <2>1
      <3> QED BY <2>0, <2>1, <3>1
    <2>2. CASE d # NoTask /\ runs' = [runs EXCEPT ![d] = @ + 1] /\ waived' = waived
      <3>1. d \in 1 .. MaxTasks /\ runs[d] = 0 /\ d \notin waived
        BY <1>1, <2>2
      <3> QED BY <2>0, <2>2, <3>1
    <2>3. CASE d # NoTask /\ runs' = runs /\ waived' = waived \cup {d}
      <3>1. d \in 1 .. handed /\ runs[d] = 0
        BY <1>1, <2>3
      <3> QED BY <2>0, <2>3, <3>1
    <2> QED BY <2>1, <2>2, <2>3
  <1>3. BufferTypeOK'
    BY <1>t, <1>2 DEF BufferTypeOK
  <1>4. OnePending'
    <2>1. ASSUME NEW p \in Owners, Pending(p)' # NoTask
          PROVE  Pending(p)' \in 1 .. handed' /\ runs'[Pending(p)'] = 0 /\ Pending(p)' \notin waived'
      <3>1. PICK q \in Owners : Pending(q) = Pending(p)'
        BY <2>1
      <3>2. Pending(q) \in 1 .. handed /\ runs[Pending(q)] = 0 /\ Pending(q) \notin waived
        BY <2>1, <3>1 DEF BufferInv, OnePending
      <3>3. Pending(q) \in 1 .. MaxTasks /\ Pending(q) # d
        BY <1>t, <2>1, <3>1, <3>2
      <3> QED BY <1>2, <3>1, <3>2, <3>3
    <2> QED BY <2>1 DEF OnePending
  <1>5. AllSettled'
    <2> SUFFICES ASSUME NEW i \in 1 .. MaxTasks
                 PROVE  /\ i > handed' => runs'[i] = 0
                        /\ i <= handed' /\ (\A p \in Owners : Pending(p)' # i) =>
                             (runs'[i] = 1 /\ i \notin waived') \/ (runs'[i] = 0 /\ i \in waived')
      BY <1>t DEF AllSettled
    <2>1. CASE i = d
      BY <1>t, <1>1, <1>2, <2>1 DEF NoTask
    <2>2. CASE i # d
      <3>1. i > handed => runs[i] = 0
        BY DEF BufferInv, AllSettled
      <3>2. (\A p \in Owners : Pending(p)' # i) => (\A p \in Owners : Pending(p) # i)
        BY <2>2 DEF NoTask
      <3>3. i <= handed /\ (\A p \in Owners : Pending(p) # i) =>
              (runs[i] = 1 /\ i \notin waived) \/ (runs[i] = 0 /\ i \in waived)
        BY DEF BufferInv, AllSettled
      <3> QED BY <1>2, <2>2, <3>1, <3>2, <3>3
    <2> QED BY <2>1, <2>2
  <1> QED BY <1>3, <1>4, <1>5 DEF BufferInv
\* What Runs does to the counts, in terms of the pending task.
LEMMA RunsPending ==
  ASSUME BufferInv, NEW p \in Owners
  PROVE  Runs(object[p]) = IF Pending(p) = NoTask THEN runs ELSE [runs EXCEPT ![Pending(p)] = @ + 1]
  <1>1. object[p] \in ObjectRecords
    BY DEF BufferInv, BufferTypeOK
  <1> QED BY <1>1 DEF Runs, Pending, ObjectRecords

\* A new object has the next task, which nobody has had before.
LEMMA MakeKeeps ==
  ASSUME BufferInv, NEW p \in Owners, NEW kind \in Kinds, make(p, kind)
  PROVE  BufferInv'
  <1>t. /\ object \in [Owners -> ObjectRecords] /\ handed \in 0 .. MaxTasks /\ MaxTasks \in Nat
        /\ runs \in [1 .. MaxTasks -> Nat] /\ waived \subseteq 1 .. handed
    BY BufferAssumption DEF BufferInv, BufferTypeOK
  <1>n. /\ handed' = handed + 1 /\ handed < MaxTasks /\ runs' = runs /\ waived' = waived
        /\ handed' \in 1 .. MaxTasks /\ handed' # NoTask
    BY <1>t DEF make, NoTask
  <1> DEFINE new == [kind |-> kind, task |-> handed', dismissed |-> FALSE]
  <1>1. new \in ObjectRecords
    BY <1>t, <1>n DEF ObjectRecords
  <1>2. object' = [object EXCEPT ![p] = new] /\ object[p] = Nothing
    BY DEF make
  <1>3. object' \in [Owners -> ObjectRecords]
    BY <1>t, <1>1, <1>2
  <1>4. Pending(p)' = handed' /\ Pending(p) = NoTask
    BY <1>t, <1>2 DEF Pending, Nothing
  <1>5. \A q \in Owners : q # p => Pending(q)' = Pending(q)
    BY <1>t, <1>2 DEF Pending
  <1>6. BufferTypeOK'
    BY <1>t, <1>n, <1>3 DEF BufferTypeOK
  <1>7. \A q \in Owners : Pending(q) # NoTask =>
          (Pending(q) \in 1 .. handed /\ runs[Pending(q)] = 0 /\ Pending(q) \notin waived)
    BY DEF BufferInv, OnePending
  <1>8. runs[handed'] = 0 /\ handed' \notin waived /\ handed' \notin 1 .. handed
    BY <1>t, <1>n DEF BufferInv, AllSettled
  <1>9. OnePending'
    <2>1. ASSUME NEW q \in Owners, Pending(q)' # NoTask
          PROVE  Pending(q)' \in 1 .. handed' /\ runs'[Pending(q)'] = 0 /\ Pending(q)' \notin waived'
      <3>1. CASE q = p
        BY <1>n, <1>4, <1>8, <1>t, <3>1
      <3>2. CASE q # p
        BY <1>n, <1>5, <1>7, <1>t, <2>1, <3>2
      <3> QED BY <3>1, <3>2
    <2>2. ASSUME NEW q \in Owners, NEW r \in Owners, Pending(q)' # NoTask, Pending(q)' = Pending(r)'
          PROVE  q = r
      <3>1. CASE q # p /\ r # p
        BY <1>5, <2>2, <3>1 DEF BufferInv, OnePending
      <3>2. CASE q = p /\ r # p
        BY <1>4, <1>5, <1>7, <1>8, <2>2, <3>2
      <3>3. CASE q # p /\ r = p
        BY <1>4, <1>5, <1>7, <1>8, <2>2, <3>3
      <3> QED BY <3>1, <3>2, <3>3
    <2> QED BY <2>1, <2>2 DEF OnePending
  <1>10. AllSettled'
    <2> SUFFICES ASSUME NEW i \in 1 .. MaxTasks
                 PROVE  /\ i > handed' => runs'[i] = 0
                        /\ i <= handed' /\ (\A q \in Owners : Pending(q)' # i) =>
                             (runs'[i] = 1 /\ i \notin waived') \/ (runs'[i] = 0 /\ i \in waived')
      BY DEF AllSettled
    <2>1. i > handed' => runs'[i] = 0
      BY <1>t, <1>n DEF BufferInv, AllSettled
    <2>2. ASSUME i <= handed', \A q \in Owners : Pending(q)' # i
          PROVE  (runs'[i] = 1 /\ i \notin waived') \/ (runs'[i] = 0 /\ i \in waived')
      <3>1. i # handed' /\ i <= handed
        BY <1>t, <1>n, <1>4, <2>2
      <3>2. \A q \in Owners : Pending(q) # i
        BY <1>4, <1>5, <2>2 DEF NoTask
      <3> QED BY <1>n, <3>1, <3>2 DEF BufferInv, AllSettled
    <2> QED BY <2>1, <2>2
  <1> QED BY <1>6, <1>9, <1>10 DEF BufferInv

\* An object's task ends: it runs or is waived, and the object has none.
LEMMA TaskEnds ==
  ASSUME BufferInv, NEW p \in Owners, handed' = handed, Pending(p)' = NoTask,
         object' \in [Owners -> ObjectRecords],
         \A q \in Owners : q # p => Pending(q)' = Pending(q),
         \/ /\ runs' = IF Pending(p) = NoTask THEN runs ELSE [runs EXCEPT ![Pending(p)] = @ + 1]
            /\ waived' = waived
         \/ /\ runs' = runs
            /\ waived' = IF Pending(p) = NoTask THEN waived ELSE waived \cup {Pending(p)}
  PROVE  BufferInv'
  <1>1. /\ Pending(p) \in Nat
        /\ \A q, r \in Owners : Pending(q) # NoTask /\ Pending(q) = Pending(r) => q = r
    BY DEF BufferInv, BufferTypeOK, OnePending, Pending, ObjectRecords, NoTask
  <1>2. \A q \in Owners : Pending(q)' # NoTask =>
          Pending(q)' # Pending(p) /\ \E r \in Owners : Pending(r) = Pending(q)'
    BY <1>1
  <1>3. \A q, r \in Owners : Pending(q)' # NoTask /\ Pending(q)' = Pending(r)' => q = r
    BY <1>1
  <1>4. \A q \in Owners : (Pending(q) # NoTask /\ Pending(q) # Pending(p)) =>
          \E r \in Owners : Pending(r)' = Pending(q)
    BY <1>1
  <1> HIDE DEF Pending
  <1> QED BY <1>1, <1>2, <1>3, <1>4, PassedOn

\* One object's task, if it has one, ends, and the task of another goes to it.
LEMMA TaskGoesOver ==
  ASSUME BufferInv, NEW p \in Owners, NEW q \in Owners, p # q, handed' = handed,
         Pending(p)' = Pending(q), Pending(q)' = NoTask,
         object' \in [Owners -> ObjectRecords],
         \A r \in Owners : (r # p /\ r # q) => Pending(r)' = Pending(r),
         \/ /\ runs' = IF Pending(p) = NoTask THEN runs ELSE [runs EXCEPT ![Pending(p)] = @ + 1]
            /\ waived' = waived
         \/ /\ runs' = runs
            /\ waived' = IF Pending(p) = NoTask THEN waived ELSE waived \cup {Pending(p)}
  PROVE  BufferInv'
  <1>1. /\ Pending(p) \in Nat
        /\ \A a, b \in Owners : Pending(a) # NoTask /\ Pending(a) = Pending(b) => a = b
    BY DEF BufferInv, BufferTypeOK, OnePending, Pending, ObjectRecords, NoTask
  <1>2. \A a \in Owners : Pending(a)' # NoTask =>
          Pending(a)' # Pending(p) /\ \E r \in Owners : Pending(r) = Pending(a)'
    BY <1>1
  <1>3. \A a, b \in Owners : Pending(a)' # NoTask /\ Pending(a)' = Pending(b)' => a = b
    BY <1>1
  <1>4. \A a \in Owners : (Pending(a) # NoTask /\ Pending(a) # Pending(p)) =>
          \E r \in Owners : Pending(r)' = Pending(a)
    BY <1>1
  <1> HIDE DEF Pending
  <1> QED BY <1>1, <1>2, <1>3, <1>4, PassedOn
\* Two objects exchange their tasks.
LEMMA SwapKeeps ==
  ASSUME BufferInv, NEW p \in Owners, NEW q \in Owners, swap(p, q)
  PROVE  BufferInv'
  <1>t. object \in [Owners -> ObjectRecords]
    BY DEF BufferInv, BufferTypeOK
  <1>0. p # q /\ handed' = handed /\ runs' = runs /\ waived' = waived
    BY DEF swap
  <1>1. object' \in [Owners -> ObjectRecords]
    BY <1>t DEF swap
  <1>2. /\ Pending(p)' = Pending(q) /\ Pending(q)' = Pending(p)
        /\ \A r \in Owners : (r # p /\ r # q) => Pending(r)' = Pending(r)
    BY <1>t DEF swap, Pending
  <1>3. \A a, b \in Owners : Pending(a) # NoTask /\ Pending(a) = Pending(b) => a = b
    BY DEF BufferInv, OnePending
  <1>4. \A a, b \in Owners : Pending(a)' # NoTask /\ Pending(a)' = Pending(b)' => a = b
    BY <1>0, <1>2, <1>3
  <1>5. \A a \in Owners : (\E r \in Owners : Pending(r) = Pending(a)') /\ (\E r \in Owners : Pending(r)' = Pending(a))
    BY <1>2
  <1>6. NoTask \in Nat
    BY DEF NoTask
  <1> HIDE DEF Pending
  <1> QED BY <1>0, <1>1, <1>4, <1>5, <1>6, PassedOn

\* Every step keeps BufferInv.
THEOREM BufferInvariance == BufferSpec => []BufferInv
<1>1. BufferInit => BufferInv
  <2> SUFFICES ASSUME BufferInit PROVE BufferInv
    OBVIOUS
  <2>1. Nothing \in ObjectRecords
    BY DEF Nothing, ObjectRecords, NoTask
  <2>2. BufferTypeOK
    BY <2>1, BufferAssumption DEF BufferInit, BufferTypeOK
  <2>3. \A p \in Owners : Pending(p) = NoTask
    BY DEF BufferInit, Nothing, Pending
  <2>4. OnePending /\ AllSettled
    BY <2>3, BufferAssumption DEF BufferInit, OnePending, AllSettled
  <2> QED BY <2>2, <2>4 DEF BufferInv
<1>2. BufferInv /\ [BufferNext]_bufferVars => BufferInv'
  <2> SUFFICES ASSUME BufferInv, [BufferNext]_bufferVars PROVE BufferInv'
    OBVIOUS
  <2>t. object \in [Owners -> ObjectRecords]
    BY DEF BufferInv, BufferTypeOK
  <2>0. CASE UNCHANGED bufferVars
    BY <2>0 DEF bufferVars, BufferInv, BufferTypeOK, OnePending, AllSettled, Pending
  <2>e. ASSUME NEW r \in ObjectRecords PROVE [r EXCEPT !.dismissed = TRUE] \in ObjectRecords
    BY DEF ObjectRecords
  <2>n. Nothing \in ObjectRecords
    BY DEF Nothing, ObjectRecords, NoTask
  <2>1. ASSUME NEW p \in Owners, NEW kind \in Kinds, make(p, kind) PROVE BufferInv'
    BY <2>1, MakeKeeps
  <2>2. ASSUME NEW p \in Owners, NEW q \in Owners, move(p, q) PROVE BufferInv'
    <3>1. /\ p # q /\ handed' = handed /\ runs' = runs /\ waived' = waived
          /\ object[p] = Nothing
          /\ object' = [object EXCEPT ![p] = object[q], ![q] = [object[q] EXCEPT !.dismissed = TRUE]]
      BY <2>2, <2>t DEF move
    <3>2. object' \in [Owners -> ObjectRecords]
      BY <2>t, <2>e, <3>1
    <3>3. /\ Pending(p) = NoTask /\ Pending(p)' = Pending(q) /\ Pending(q)' = NoTask
          /\ \A r \in Owners : (r # p /\ r # q) => Pending(r)' = Pending(r)
      BY <2>t, <3>1 DEF Pending, Nothing, ObjectRecords
    <3> HIDE DEF Pending
    <3> QED BY <3>1, <3>2, <3>3, TaskGoesOver
  <2>3. ASSUME NEW p \in Owners, NEW q \in Owners, assign_buffer(p, q) PROVE BufferInv'
    <3> DEFINE moved == [object EXCEPT ![q] = [object[q] EXCEPT !.dismissed = TRUE]]
    <3>1. /\ handed' = handed /\ waived' = waived
          /\ runs' = Runs(moved[p]) /\ object' = [moved EXCEPT ![p] = object[q]]
      BY <2>3, <2>t DEF assign_buffer
    <3>2. CASE p = q
      <4>1. moved[p].dismissed
        BY <2>t, <3>2 DEF ObjectRecords
      <4>2. runs' = runs /\ object' = object
        BY <2>t, <3>1, <3>2, <4>1 DEF Runs
      <4> QED BY <2>0, <3>1, <4>2 DEF bufferVars
    <3>3. CASE p # q
      <4>1. /\ moved[p] = object[p]
            /\ object' = [object EXCEPT ![p] = object[q], ![q] = [object[q] EXCEPT !.dismissed = TRUE]]
        BY <2>t, <3>1, <3>3
      <4>2. object' \in [Owners -> ObjectRecords]
        BY <2>t, <2>e, <4>1
      <4>3. /\ Pending(p)' = Pending(q) /\ Pending(q)' = NoTask
            /\ \A r \in Owners : (r # p /\ r # q) => Pending(r)' = Pending(r)
        BY <2>t, <3>3, <4>1 DEF Pending, ObjectRecords
      <4>4. runs' = IF Pending(p) = NoTask THEN runs ELSE [runs EXCEPT ![Pending(p)] = @ + 1]
        BY <3>1, <4>1, RunsPending
      <4> HIDE DEF Pending
      <4> QED BY <3>1, <3>3, <4>2, <4>3, <4>4, TaskGoesOver
    <3> QED BY <3>2, <3>3
  <2>4. ASSUME NEW p \in Owners, NEW q \in Owners, assign_exit(p, q) PROVE BufferInv'
    <3>1. /\ p # q /\ handed' = handed /\ runs' = runs
          /\ object' = [object EXCEPT ![p] = object[q], ![q] = [object[q] EXCEPT !.dismissed = TRUE]]
          /\ waived' = IF object[p].dismissed THEN waived ELSE waived \cup {object[p].task}
      BY <2>4, <2>t DEF assign_exit
    <3>2. object' \in [Owners -> ObjectRecords]
      BY <2>t, <2>e, <3>1
    <3>3. /\ Pending(p)' = Pending(q) /\ Pending(q)' = NoTask
          /\ \A r \in Owners : (r # p /\ r # q) => Pending(r)' = Pending(r)
      BY <2>t, <3>1 DEF Pending, ObjectRecords
    <3>4. waived' = IF Pending(p) = NoTask THEN waived ELSE waived \cup {Pending(p)}
      BY <2>t, <3>1 DEF Pending, ObjectRecords
    <3> HIDE DEF Pending
    <3> QED BY <3>1, <3>2, <3>3, <3>4, TaskGoesOver
  <2>5. ASSUME NEW p \in Owners, NEW q \in Owners, swap(p, q) PROVE BufferInv'
    BY <2>5, SwapKeeps
  <2>6. ASSUME NEW p \in Owners, dismiss(p) PROVE BufferInv'
    <3>1. /\ handed' = handed /\ runs' = runs
          /\ object' = [object EXCEPT ![p] = [object[p] EXCEPT !.dismissed = TRUE]]
          /\ waived' = IF object[p].dismissed THEN waived ELSE waived \cup {object[p].task}
      BY <2>6, <2>t DEF dismiss
    <3>2. object' \in [Owners -> ObjectRecords]
      BY <2>t, <2>e, <3>1
    <3>3. Pending(p)' = NoTask /\ \A r \in Owners : r # p => Pending(r)' = Pending(r)
      BY <2>t, <3>1 DEF Pending, ObjectRecords
    <3>4. waived' = IF Pending(p) = NoTask THEN waived ELSE waived \cup {Pending(p)}
      BY <2>t, <3>1 DEF Pending, ObjectRecords
    <3> HIDE DEF Pending
    <3> QED BY <3>1, <3>2, <3>3, <3>4, TaskEnds
  <2>7. ASSUME NEW p \in Owners, do_exit(p) \/ destroy(p) PROVE BufferInv'
    <3>1. /\ handed' = handed /\ waived' = waived /\ runs' = Runs(object[p])
          /\ object' = [object EXCEPT ![p] = [object[p] EXCEPT !.dismissed = TRUE]]
             \/ object' = [object EXCEPT ![p] = Nothing]
      BY <2>7, <2>t DEF do_exit, destroy
    <3>2. object' \in [Owners -> ObjectRecords]
      BY <2>t, <2>e, <2>n, <3>1
    <3>3. Pending(p)' = NoTask /\ \A r \in Owners : r # p => Pending(r)' = Pending(r)
      BY <2>t, <3>1 DEF Pending, ObjectRecords, Nothing
    <3>4. runs' = IF Pending(p) = NoTask THEN runs ELSE [runs EXCEPT ![Pending(p)] = @ + 1]
      BY <3>1, RunsPending
    <3> HIDE DEF Pending
    <3> QED BY <3>1, <3>2, <3>3, <3>4, TaskEnds
  <2> QED BY <2>0, <2>1, <2>2, <2>3, <2>4, <2>5, <2>6, <2>7 DEF BufferNext
<1> QED BY <1>1, <1>2, PTL DEF BufferSpec

\* Every function handed to a buffer or a guard runs exactly once, or never if
\* it was dismissed or assigned over, through any sequence of moves, swaps,
\* assignments (of a buffer to itself too) and destructions.
THEOREM BufferRunsOnce == BufferSpec => []RunsOnce
<1>1. BufferInv => RunsOnce
  <2> SUFFICES ASSUME BufferInv, NEW i \in 1 .. handed
               PROVE  runs[i] + Cardinality({p \in Owners : object[p].task = i /\ ~object[p].dismissed})
                        + (IF i \in waived THEN 1 ELSE 0) = 1
    BY DEF RunsOnce
  <2> DEFINE holders == {p \in Owners : object[p].task = i /\ ~object[p].dismissed}
  <2>t. i \in 1 .. MaxTasks /\ i # NoTask /\ i <= handed /\ runs[i] \in Nat
    BY BufferAssumption DEF BufferInv, BufferTypeOK, NoTask
  <2>1. holders = {p \in Owners : Pending(p) = i}
    BY <2>t DEF Pending
  <2>2. ASSUME \A p \in Owners : Pending(p) # i
        PROVE  runs[i] + Cardinality(holders) + (IF i \in waived THEN 1 ELSE 0) = 1
    <3>1. holders = {}
      BY <2>1, <2>2
    <3>2. Cardinality(holders) = 0
      BY <3>1, FS_EmptySet
    <3>3. (runs[i] = 1 /\ i \notin waived) \/ (runs[i] = 0 /\ i \in waived)
      BY <2>t, <2>2 DEF BufferInv, AllSettled
    <3> HIDE DEF holders
    <3> QED BY <3>2, <3>3
  <2>3. ASSUME NEW p \in Owners, Pending(p) = i
        PROVE  runs[i] + Cardinality(holders) + (IF i \in waived THEN 1 ELSE 0) = 1
    <3>1. runs[i] = 0 /\ i \notin waived /\ \A q \in Owners : Pending(q) = i => q = p
      BY <2>t, <2>3 DEF BufferInv, OnePending
    <3>2. holders = {p}
      BY <2>1, <2>3, <3>1
    <3>3. Cardinality(holders) = 1
      BY <3>2, FS_Singleton
    <3> HIDE DEF holders
    <3> QED BY <3>1, <3>3
  <2> QED BY <2>2, <2>3
<1> QED BY <1>1, BufferInvariance, PTL

-----------------------------------------------------------------------------
(* Large messages: the free list. *)

\* The list from head along link, as l: n ids, each once, and the end.
Chained(head, link, n, l) ==
  /\ n \in 0 .. Chunks /\ l \in [0 .. n -> 0 .. Chunks]
  /\ l[0] = head /\ l[n] = None
  /\ \A k \in 0 .. n - 1 : l[k] \in Ids /\ l[k + 1] = link[l[k]]
  /\ \A j, k \in 0 .. n : l[j] = l[k] => j = k

ListOK == \E n, l : Chained(first, next, n, l)

\* Free, as a function of the list's head and links.
Walk(head, link) ==
  LET reach[k \in 0 .. Chunks] ==
        IF k = 0 THEN {head} ELSE reach[k - 1] \cup {link[i] : i \in reach[k - 1] \ {None}}
  IN  reach[Chunks] \ {None}

\* The ids of the list are the ones Free walks to.
LEMMA WalkIsList ==
  ASSUME NEW head, NEW link, NEW n, NEW l, Chained(head, link, n, l)
  PROVE  Walk(head, link) = {l[k] : k \in 0 .. n - 1}
<1> DEFINE Low(k) == IF k < n THEN k ELSE n
           g == [k \in 0 .. Chunks |-> {l[j] : j \in 0 .. Low(k)}]
           Walked(f) == [k \in 0 .. Chunks |->
                         IF k = 0 THEN {head} ELSE f[k - 1] \cup {link[i] : i \in f[k - 1] \ {None}}]
           reach == CHOOSE f : f = Walked(f)
<1>t. /\ Chunks \in Nat /\ n \in Nat /\ n <= Chunks /\ l \in [0 .. n -> 0 .. Chunks]
      /\ l[0] = head /\ l[n] = None
      /\ \A k \in 0 .. n - 1 : l[k] \in Ids /\ l[k + 1] = link[l[k]]
      /\ \A j, k \in 0 .. n : l[j] = l[k] => j = k
  BY LargeAssumption DEF Chained
<1>1. g = Walked(g)
  <2> SUFFICES ASSUME NEW k \in 0 .. Chunks
               PROVE  g[k] = IF k = 0 THEN {head} ELSE g[k - 1] \cup {link[i] : i \in g[k - 1] \ {None}}
    BY Zenon
  <2>1. CASE k = 0
    <3>1. Low(k) = 0
      BY <1>t, <2>1
    <3>2. g[k] = {l[0]}
      BY <1>t, <3>1
    <3> QED BY <1>t, <2>1, <3>2
  <2>2. CASE k # 0
    <3>1. k - 1 \in 0 .. Chunks /\ g[k - 1] = {l[j] : j \in 0 .. Low(k - 1)}
      BY <1>t, <2>2
    <3>2. CASE k <= n
      <4>1. Low(k) = k /\ Low(k - 1) = k - 1
        BY <1>t, <3>2, <2>2
      <4>2. g[k] = {l[j] : j \in 0 .. k} /\ g[k - 1] = {l[j] : j \in 0 .. k - 1}
        BY <3>1, <4>1
      <4>3. \A j \in 0 .. k - 1 : l[j] # None /\ link[l[j]] = l[j + 1]
        BY <1>t, <3>2, <2>2 DEF Ids, None
      <4> HIDE DEF g
      <4>4. g[k - 1] \ {None} = g[k - 1]
        BY <4>2, <4>3
      <4>5. {link[i] : i \in g[k - 1]} = {l[j + 1] : j \in 0 .. k - 1}
        BY <4>2, <4>3
      <4>6. {l[j] : j \in 0 .. k} = {l[j] : j \in 0 .. k - 1} \cup {l[j + 1] : j \in 0 .. k - 1}
        <5>1. ASSUME NEW x \in {l[j] : j \in 0 .. k}
              PROVE  x \in {l[j] : j \in 0 .. k - 1} \cup {l[j + 1] : j \in 0 .. k - 1}
          <6>1. PICK j \in 0 .. k : x = l[j]
            OBVIOUS
          <6>2. CASE j = k
            <7>1. k - 1 \in 0 .. k - 1 /\ x = l[(k - 1) + 1]
              BY <2>2, <6>1, <6>2
            <7> QED BY <7>1
          <6>3. CASE j # k
            BY <6>1, <6>3
          <6> QED BY <6>2, <6>3
        <5>2. ASSUME NEW x \in {l[j] : j \in 0 .. k - 1} \cup {l[j + 1] : j \in 0 .. k - 1}
              PROVE  x \in {l[j] : j \in 0 .. k}
          OBVIOUS
        <5> QED BY <5>1, <5>2
      <4> QED BY <2>2, <4>2, <4>4, <4>5, <4>6
    <3>3. CASE k > n
      <4>1. Low(k) = n /\ Low(k - 1) = n
        BY <1>t, <3>3, <2>2
      <4>2. g[k] = {l[j] : j \in 0 .. n} /\ g[k - 1] = {l[j] : j \in 0 .. n}
        BY <3>1, <4>1
      <4>3. \A i \in g[k - 1] \ {None} : link[i] \in g[k - 1]
        <5> SUFFICES ASSUME NEW j \in 0 .. n, l[j] # None PROVE link[l[j]] \in {l[h] : h \in 0 .. n}
          BY <4>2
        <5>1. j \in 0 .. n - 1 /\ j + 1 \in 0 .. n
          BY <1>t
        <5>2. link[l[j]] = l[j + 1]
          BY <1>t, <5>1
        <5> QED BY <5>1, <5>2
      <4> HIDE DEF g
      <4> QED BY <2>2, <4>2, <4>3
    <3>4. k <= n \/ k > n
      BY <1>t
    <3> QED BY <3>2, <3>3, <3>4
  <2> QED BY <2>1, <2>2
<1>2. reach = Walked(reach)
  BY <1>1
<1>3. reach[Chunks] = g[Chunks]
  <2> DEFINE Differ == {k \in 0 .. Chunks : reach[k] # g[k]}
  <2>1. Differ = {}
    <3> SUFFICES ASSUME Differ # {} PROVE FALSE
      OBVIOUS
    <3>1. Differ \subseteq Nat
      OBVIOUS
    <3> HIDE DEF Differ
    <3>2. PICK k \in Differ : \A y \in Differ : k <= y
      BY <3>1, LeastNumber
    <3>3. k \in 0 .. Chunks /\ reach[k] # g[k]
      BY <3>2 DEF Differ
    <3>4. reach[k] = IF k = 0 THEN {head} ELSE reach[k - 1] \cup {link[i] : i \in reach[k - 1] \ {None}}
      BY <1>2, <3>3
    <3>5. g[k] = IF k = 0 THEN {head} ELSE g[k - 1] \cup {link[i] : i \in g[k - 1] \ {None}}
      BY <1>1, <3>3
    <3>6. k # 0 => reach[k - 1] = g[k - 1]
      <4>1. k # 0 => k - 1 \in 0 .. Chunks /\ k - 1 \notin Differ
        BY <1>t, <3>1, <3>2, <3>3
      <4> QED BY <4>1 DEF Differ
    <3> QED BY <3>3, <3>4, <3>5, <3>6
  <2>2. Chunks \in 0 .. Chunks
    BY <1>t
  <2> HIDE DEF g, reach
  <2> QED BY <2>1, <2>2
<1>4. Walk(head, link) = reach[Chunks] \ {None}
  BY DEF Walk
<1>5. g[Chunks] = {l[j] : j \in 0 .. n}
  <2>1. Low(Chunks) = n
    BY <1>t
  <2> QED BY <1>t, <2>1
<1>6. {l[j] : j \in 0 .. n} \ {None} = {l[k] : k \in 0 .. n - 1}
  <2>1. \A j \in 0 .. n : l[j] # None <=> j \in 0 .. n - 1
    BY <1>t DEF Ids, None
  <2>2. 0 .. n - 1 \subseteq 0 .. n
    BY <1>t
  <2> QED BY <2>1, <2>2
<1> HIDE DEF g, reach
<1> QED BY <1>3, <1>4, <1>5, <1>6

\* A walk along a list from its second element, and from a new head.
LEMMA ListTaken ==
  ASSUME ListOK, first # None, first' = next[first], next' = next
  PROVE  ListOK' /\ first \in Ids /\ first \in Free /\ Free' = Free \ {first}
<1>1. PICK n, l : Chained(first, next, n, l)
  BY DEF ListOK
<1>t. /\ Chunks \in Nat /\ n \in Nat /\ n <= Chunks /\ l \in [0 .. n -> 0 .. Chunks]
      /\ l[0] = first /\ l[n] = None
      /\ \A k \in 0 .. n - 1 : l[k] \in Ids /\ l[k + 1] = next[l[k]]
      /\ \A j, k \in 0 .. n : l[j] = l[k] => j = k
  BY <1>1, LargeAssumption DEF Chained
<1>2. n # 0 /\ n - 1 \in 0 .. Chunks /\ 0 \in 0 .. n - 1
  BY <1>t
<1> DEFINE m == n - 1
           h == [k \in 0 .. m |-> l[k + 1]]
<1>3. Chained(first', next', m, h)
  <2>1. m \in 0 .. Chunks /\ h \in [0 .. m -> 0 .. Chunks]
    BY <1>t, <1>2
  <2>2. h[0] = first' /\ h[m] = None
    BY <1>t, <1>2
  <2>3. \A k \in 0 .. m - 1 : h[k] \in Ids /\ h[k + 1] = next'[h[k]]
    BY <1>t, <1>2
  <2>4. \A j, k \in 0 .. m : h[j] = h[k] => j = k
    <3> SUFFICES ASSUME NEW j \in 0 .. m, NEW k \in 0 .. m, h[j] = h[k] PROVE j = k
      OBVIOUS
    <3>1. j + 1 \in 0 .. n /\ k + 1 \in 0 .. n /\ l[j + 1] = l[k + 1]
      BY <1>t
    <3> QED BY <1>t, <3>1
  <2> QED BY <2>1, <2>2, <2>3, <2>4 DEF Chained
<1>4. Free = {l[k] : k \in 0 .. n - 1}
  <2>1. Free = Walk(first, next)
    BY DEF Free, Walk
  <2> QED BY <1>1, <2>1, WalkIsList
<1>5. Free' = {h[k] : k \in 0 .. m - 1}
  <2>1. Free' = Walk(first', next')
    BY DEF Free, Walk
  <2> HIDE DEF h, m
  <2> QED BY <1>3, <2>1, WalkIsList
<1>6. {h[k] : k \in 0 .. m - 1} = {l[k] : k \in 1 .. n - 1}
  <2>1. ASSUME NEW k \in 0 .. m - 1 PROVE h[k] \in {l[j] : j \in 1 .. n - 1}
    <3>1. k + 1 \in 1 .. n - 1 /\ h[k] = l[k + 1]
      BY <1>t
    <3> QED BY <3>1
  <2>2. ASSUME NEW k \in 1 .. n - 1 PROVE l[k] \in {h[j] : j \in 0 .. m - 1}
    <3>1. k - 1 \in 0 .. m - 1 /\ h[k - 1] = l[k]
      BY <1>t
    <3> QED BY <3>1
  <2> QED BY <2>1, <2>2
<1>7. {l[k] : k \in 1 .. n - 1} = {l[k] : k \in 0 .. n - 1} \ {first}
  <2>1. \A k \in 0 .. n - 1 : l[k] = first <=> k = 0
    BY <1>t, <1>2
  <2>2. \A k : k \in 1 .. n - 1 <=> (k \in 0 .. n - 1 /\ k # 0)
    BY <1>t
  <2> QED BY <2>1, <2>2
<1>8. first \in Ids /\ first \in {l[k] : k \in 0 .. n - 1}
  BY <1>t, <1>2
<1> QED BY <1>3, <1>4, <1>5, <1>6, <1>7, <1>8 DEF ListOK

\* release puts an id that is not on the list at its head.
LEMMA ListGiven ==
  ASSUME ListOK, next \in [Ids -> 0 .. Chunks], NEW i \in Ids, i \notin Free, GiveBack(i)
  PROVE  ListOK' /\ Free' = Free \cup {i}
<1>1. PICK n, l : Chained(first, next, n, l)
  BY DEF ListOK
<1>t. /\ Chunks \in Nat /\ n \in Nat /\ n <= Chunks /\ l \in [0 .. n -> 0 .. Chunks]
      /\ l[0] = first /\ l[n] = None
      /\ \A k \in 0 .. n - 1 : l[k] \in Ids /\ l[k + 1] = next[l[k]]
      /\ \A j, k \in 0 .. n : l[j] = l[k] => j = k
  BY <1>1, LargeAssumption DEF Chained
<1>4. Free = {l[k] : k \in 0 .. n - 1}
  <2>1. Free = Walk(first, next)
    BY DEF Free, Walk
  <2> QED BY <1>1, <2>1, WalkIsList
<1>i. /\ i \in 0 .. Chunks /\ i # None
      /\ first' = i /\ next'[i] = first /\ \A j \in Ids : j # i => next'[j] = next[j]
  BY <1>t DEF GiveBack, Ids, None
<1>5. \A k \in 0 .. n : l[k] # i
  BY <1>t, <1>4, <1>i
<1>6. n < Chunks
  <2>1. IsFiniteSet(Ids) /\ Cardinality(Ids) = Chunks
    BY <1>t, FS_Interval DEF Ids
  <2>2. Free \subseteq Ids \ {i}
    BY <1>t, <1>4
  <2>3. IsFiniteSet(Ids \ {i}) /\ Cardinality(Ids \ {i}) = Chunks - 1
    BY <2>1, FS_RemoveElement
  <2>4. Cardinality(Free) <= Chunks - 1 /\ IsFiniteSet(Free)
    BY <2>2, <2>3, FS_Subset
  <2>5. Cardinality(Free) = n
    <3>1. IsFiniteSet(0 .. n - 1) /\ Cardinality(0 .. n - 1) = n
      <4>1. 0 \in Int /\ n - 1 \in Int
        BY <1>t
      <4>2. IsFiniteSet(0 .. n - 1) /\ Cardinality(0 .. n - 1) = IF 0 > n - 1 THEN 0 ELSE n - 1 - 0 + 1
        BY <4>1, FS_Interval
      <4> QED BY <1>t, <4>2
    <3> DEFINE f == [k \in 0 .. n - 1 |-> l[k]]
    <3>2. f \in Bijection(0 .. n - 1, Free)
      BY <1>t, <1>4 DEF Bijection, Injection, Surjection, IsInjective
    <3> QED BY <3>1, <3>2, FS_Bijection DEF ExistsBijection
  <2> QED BY <1>t, <2>4, <2>5
<1> DEFINE m == n + 1
           h == [k \in 0 .. m |-> IF k = 0 THEN i ELSE l[k - 1]]
<1>3. Chained(first', next', m, h)
  <2>1. m \in 0 .. Chunks /\ h \in [0 .. m -> 0 .. Chunks]
    BY <1>t, <1>i, <1>6
  <2>2. h[0] = first' /\ h[m] = None
    BY <1>t, <1>i
  <2>3. \A k \in 0 .. m - 1 : h[k] \in Ids /\ h[k + 1] = next'[h[k]]
    <3> SUFFICES ASSUME NEW k \in 0 .. m - 1 PROVE h[k] \in Ids /\ h[k + 1] = next'[h[k]]
      OBVIOUS
    <3>1. CASE k = 0
      BY <1>t, <1>i, <3>1
    <3>2. CASE k # 0
      <4>1. k - 1 \in 0 .. n - 1 /\ h[k] = l[k - 1] /\ h[k + 1] = l[k]
        BY <1>t, <3>2
      <4>2. l[k - 1] \in Ids /\ l[k - 1] # i /\ l[(k - 1) + 1] = next[l[k - 1]]
        BY <1>t, <1>5, <4>1
      <4>3. (k - 1) + 1 = k
        BY <1>t
      <4> QED BY <1>i, <4>1, <4>2, <4>3
    <3> QED BY <3>1, <3>2
  <2>4. \A j, k \in 0 .. m : h[j] = h[k] => j = k
    <3> SUFFICES ASSUME NEW j \in 0 .. m, NEW k \in 0 .. m, h[j] = h[k] PROVE j = k
      OBVIOUS
    <3>1. CASE j # 0 /\ k # 0
      <4>1. j - 1 \in 0 .. n /\ k - 1 \in 0 .. n /\ l[j - 1] = l[k - 1]
        BY <1>t, <3>1
      <4> QED BY <1>t, <4>1
    <3>2. CASE j = 0 /\ k # 0
      <4>1. k - 1 \in 0 .. n /\ l[k - 1] = i
        BY <1>t, <3>2
      <4> QED BY <1>5, <4>1
    <3>3. CASE j # 0 /\ k = 0
      <4>1. j - 1 \in 0 .. n /\ l[j - 1] = i
        BY <1>t, <3>3
      <4> QED BY <1>5, <4>1
    <3> QED BY <3>1, <3>2, <3>3
  <2> QED BY <2>1, <2>2, <2>3, <2>4 DEF Chained
<1>7. Free' = {h[k] : k \in 0 .. m - 1}
  <2>1. Free' = Walk(first', next')
    BY DEF Free, Walk
  <2> HIDE DEF h, m
  <2> QED BY <1>3, <2>1, WalkIsList
<1>8. {h[k] : k \in 0 .. m - 1} = {l[k] : k \in 0 .. n - 1} \cup {i}
  <2>1. ASSUME NEW k \in 0 .. m - 1 PROVE h[k] \in {l[j] : j \in 0 .. n - 1} \cup {i}
    <3>1. k = 0 \/ (k - 1 \in 0 .. n - 1 /\ h[k] = l[k - 1])
      BY <1>t
    <3>2. k = 0 => h[k] = i
      BY <1>t
    <3> QED BY <3>1, <3>2
  <2>2. ASSUME NEW k \in 0 .. n - 1 PROVE l[k] \in {h[j] : j \in 0 .. m - 1}
    <3>1. k + 1 \in 0 .. m - 1 /\ h[k + 1] = l[k]
      BY <1>t
    <3> QED BY <3>1
  <2>3. 0 \in 0 .. m - 1 /\ h[0] = i
    BY <1>t
  <2> HIDE DEF h, m
  <2> QED BY <2>1, <2>2, <2>3
<1> QED BY <1>3, <1>4, <1>7, <1>8 DEF ListOK

-----------------------------------------------------------------------------
(* Large messages: who has a chunk. *)

ElemRecords == [id : 0 .. Chunks, msg : Nat, from : Senders \cup {None}, bits : SUBSET Readers, ep : Nat]
BufRecords  == [id : 0 .. Chunks, msg : Nat, mask : SUBSET Readers]

PoolTypeOK ==
  /\ next \in [Ids -> 0 .. Chunks] /\ first \in 0 .. Chunks
  /\ conns \in [Ids -> SUBSET Readers] /\ content \in [Ids -> Nat]
RingTypeOK ==
  /\ cc \in SUBSET Readers /\ elem \in [0 .. N - 1 -> ElemRecords] /\ wt \in Nat /\ epoch \in Nat
  /\ cursor \in [Readers -> Nat] /\ buf \in [Readers -> BufRecords]
  /\ rpc \in [Readers -> {"idle", "release"}] /\ left \in Nat
SenderTypeOK ==
  /\ sent \in Nat /\ spc \in [Senders -> {"idle", "acquire", "fill", "push", "late"}]
  /\ sconns \in [Senders -> SUBSET Readers] /\ sid \in [Senders -> 0 .. Chunks]
  /\ smsg \in [Senders -> Nat] /\ calm \in BOOLEAN /\ whole \in BOOLEAN
LargeTypeOK == PoolTypeOK /\ RingTypeOK /\ SenderTypeOK

\* The element of a position.
At(k) == elem[SlotOf(k)]

\* No force_push yet.
Quiet == epoch = 0 /\ \A x \in 0 .. N - 1 : elem[x].ep = 0

\* A connected receiver is at most a round behind, and what it has not read is
\* marked for it.
Window == \A r \in cc :
  /\ cursor[r] <= wt /\ wt <= cursor[r] + N
  /\ \A k \in cursor[r] .. wt - 1 : r \in At(k).bits

\* A receiver with a buffer is connected.
BufOK == \A r \in Readers :
  /\ buf[r].id # None => r \in cc
  /\ buf[r].id = None => buf[r] = NoBuf /\ rpc[r] = "idle"

\* A sender has its chunk for itself, and writes it for all who are connected.
SidOK(s) ==
  /\ spc[s] \in {"idle", "acquire"} => sid[s] = None
  /\ spc[s] = "fill" => sid[s] # None
  /\ spc[s] # "idle" => cc \subseteq sconns[s] /\ (whole => sconns[s] \subseteq cc /\ s \notin cc)
  /\ sid[s] # None =>
       /\ sid[s] \notin Free
       /\ spc[s] # "fill" => content[sid[s]] = smsg[s] /\ conns[sid[s]] = sconns[s]
       /\ \A t \in Senders : sid[s] = sid[t] => s = t
SendersOK == \A s \in Senders : SidOK(s)

\* A chunk on its way to r: written, counted for r, and not in other hands
\* than those of receivers that know of r.
WayOK(r, k) ==
  /\ whole => At(k).from # r
  /\ At(k).id # None =>
       /\ At(k).id \notin Free /\ r \in conns[At(k).id] /\ content[At(k).id] = At(k).msg
       /\ \A s \in Senders : sid[s] # At(k).id
       /\ \A q \in Readers : \A h \in Unread(q) : At(h).id = At(k).id => h = k
       /\ \A q \in Readers : buf[q].id = At(k).id => q # r /\ rpc[q] = "idle" /\ r \in buf[q].mask
WaysOK == \A r \in Readers : \A k \in Unread(r) : WayOK(r, k)

\* A chunk in r's buffer: as it was sent, and counted for r until r releases it.
HandOK(r) == buf[r].id # None =>
  /\ buf[r].id \notin Free /\ content[buf[r].id] = buf[r].msg
  /\ \A s \in Senders : sid[s] # buf[r].id
  /\ r \notin buf[r].mask /\ (rpc[r] = "idle" => r \in conns[buf[r].id])
  /\ \A q \in Readers : (buf[q].id = buf[r].id /\ q # r) => rpc[r] = "idle" /\ q \in buf[r].mask
HandsOK == \A r \in Readers : HandOK(r)

\* r has still to read the chunk i, or is reading it.
Claim(r, i) == buf[r].id = i \/ \E k \in Unread(r) : At(k).id = i

\* No chunk is lost, and none waits for a receiver that does not know of it.
KeptOK(i) ==
  /\ i \in Free \/ (\E s \in Senders : sid[s] = i) \/ (\E r \in Readers : Claim(r, i))
  /\ \A q \in Readers : Claim(q, i) => \A r \in conns[i] : Claim(r, i)
AllKept == whole => \A i \in Ids : KeptOK(i)

CalmInv == Quiet /\ ListOK /\ Window /\ BufOK /\ SendersOK /\ WaysOK /\ HandsOK /\ AllKept
LargeInv == LargeTypeOK /\ (calm => CalmInv)

\* Every action has the types right, in whatever state.
LEMMA LargeTypes ==
  ASSUME LargeTypeOK, LargeNext
  PROVE  LargeTypeOK'
<1>c. Chunks \in Nat /\ N \in Nat \ {0} /\ None \in 0 .. Chunks /\ \A i \in 0 .. Chunks : i # None => i \in Ids
  BY LargeAssumption DEF None, Ids
<1> USE DEF LargeTypeOK, PoolTypeOK, RingTypeOK, SenderTypeOK
<1>s. \A k \in Nat : SlotOf(k) \in 0 .. N - 1
  BY <1>c, DivMod DEF SlotOf
<1>1. ASSUME NEW s \in Senders, Send(s) PROVE LargeTypeOK'
  BY <1>1, <1>c DEF Send, Goto, pool, chunk, ring, reader
<1>2. ASSUME NEW s \in Senders, AcquireStorage(s) PROVE LargeTypeOK'
  BY <1>2, <1>c DEF AcquireStorage, Goto, chunk, ring, reader, aux
<1>3. ASSUME NEW s \in Senders, PoolEmpty(s) \/ TimeOut(s) PROVE LargeTypeOK'
  BY <1>3, <1>c DEF PoolEmpty, TimeOut, Goto, pool, chunk, ring, reader, aux
<1>4. ASSUME NEW s \in Senders, FillChunk(s) PROVE LargeTypeOK'
  BY <1>4, <1>c DEF FillChunk, Goto, pool, ring, reader, aux
<1>5. ASSUME NEW s \in Senders, NEW bits \in SUBSET Readers, NEW e \in Nat, Place(s, bits, e)
      PROVE  elem' \in [0 .. N - 1 -> ElemRecords] /\ wt' \in Nat
  <2> DEFINE new == [id |-> sid[s], msg |-> smsg[s], from |-> s, bits |-> bits, ep |-> e]
  <2>1. new \in ElemRecords
    BY <1>c DEF ElemRecords
  <2>2. elem' = [elem EXCEPT ![SlotOf(wt)] = new] /\ wt' = wt + 1
    BY <1>5 DEF Place
  <2> HIDE DEF new
  <2>3. wt \in Nat /\ SlotOf(wt) \in 0 .. N - 1 /\ elem \in [0 .. N - 1 -> ElemRecords]
    BY <1>s
  <2>4. [elem EXCEPT ![SlotOf(wt)] = new] \in [0 .. N - 1 -> ElemRecords]
    BY <2>1, <2>3, Zenon
  <2>5. wt + 1 \in Nat
    BY <2>3
  <2> QED BY <2>2, <2>4, <2>5, Zenon
<1>6. ASSUME NEW s \in Senders, Finish(s)
      PROVE  sconns' \in [Senders -> SUBSET Readers] /\ sid' \in [Senders -> 0 .. Chunks] /\ smsg' \in [Senders -> Nat]
  BY <1>6, <1>c DEF Finish
<1>7. ASSUME NEW s \in Senders, Push(s) PROVE LargeTypeOK'
  <2>1. Place(s, cc, epoch) /\ Finish(s)
    BY <1>7 DEF Push
  <2>2. elem' \in [0 .. N - 1 -> ElemRecords] /\ wt' \in Nat
    BY <1>5, <2>1
  <2> QED BY <1>6, <1>7, <2>1, <2>2 DEF Push, Goto, pool, chunk, reader, aux
<1>8. ASSUME NEW s \in Senders, TrySendFails(s) PROVE LargeTypeOK'
  BY <1>6, <1>8 DEF TrySendFails, Goto, pool, chunk, ring, reader
<1>9. ASSUME NEW i \in 0 .. Chunks, GiveBack(i) PROVE next' \in [Ids -> 0 .. Chunks] /\ first' \in 0 .. Chunks
  BY <1>9 DEF GiveBack
<1>10. ASSUME NEW s \in Senders, ForcePush(s) PROVE LargeTypeOK'
  <2> DEFINE old == elem[SlotOf(wt)]
  <2>1. old \in ElemRecords
    BY <1>s
  <2>2. epoch' = epoch + 1 /\ cc' = cc \ old.bits /\ cc' \in SUBSET Readers /\ epoch' \in Nat
    BY <1>10 DEF ForcePush
  <2>3. elem' \in [0 .. N - 1 -> ElemRecords] /\ wt' \in Nat
    BY <1>5, <1>10, <2>2 DEF ForcePush
  <2>4. next' \in [Ids -> 0 .. Chunks] /\ first' \in 0 .. Chunks
    <3>1. old.id \in 0 .. Chunks
      BY <2>1 DEF ElemRecords
    <3>2. UNCHANGED pool \/ GiveBack(old.id)
      BY <1>10 DEF ForcePush, pool
    <3> QED BY <1>9, <3>1, <3>2 DEF pool
  <2>5. Finish(s) /\ spc' = [spc EXCEPT ![s] = "idle"] /\ calm' = FALSE /\ whole' = FALSE /\ UNCHANGED <<chunk, sent, reader>>
    BY <1>10 DEF ForcePush, Goto
  <2> QED BY <1>6, <2>2, <2>3, <2>4, <2>5 DEF chunk, reader
<1>11. ASSUME NEW r \in Readers, Connect(r) \/ Disconnect(r) PROVE LargeTypeOK'
  <2>1. CASE Connect(r)
    BY <2>1 DEF Connect, pool, chunk, sender
  <2>2. CASE Disconnect(r)
    BY <2>2 DEF Disconnect, pool, chunk, sender
  <2> QED BY <1>11, <2>1, <2>2
<1>12. ASSUME NEW r \in Readers, Pop(r) PROVE elem' \in [0 .. N - 1 -> ElemRecords] /\ cursor' \in [Readers -> Nat]
  <2> DEFINE x == SlotOf(cursor[r])
             e == [elem[x] EXCEPT !.bits = elem[x].bits \ {r}]
  <2>1. x \in 0 .. N - 1 /\ elem[x] \in ElemRecords
    BY <1>s
  <2>2. e \in ElemRecords
    BY <2>1 DEF ElemRecords
  <2>3. elem' = [elem EXCEPT ![x] = e] /\ cursor' = [cursor EXCEPT ![r] = cursor[r] + 1]
    BY <1>12, <2>1 DEF Pop
  <2> HIDE DEF e, x
  <2> QED BY <1>c, <2>1, <2>2, <2>3
<1>13. ASSUME NEW r \in Readers, RecvChunk(r) \/ RecvOther(r) PROVE LargeTypeOK'
  <2>1. Popped(r) \in ElemRecords
    BY <1>s DEF Popped
  <2>2. [id |-> Popped(r).id, msg |-> Popped(r).msg, mask |-> cc \ {r}] \in BufRecords
    BY <2>1 DEF ElemRecords, BufRecords
  <2>3. buf' \in [Readers -> BufRecords]
    BY <1>13, <2>2 DEF RecvChunk, RecvOther
  <2>4. Pop(r)
    BY <1>13 DEF RecvChunk, RecvOther
  <2> QED BY <1>12, <2>3, <2>4 DEF Pop, pool, chunk, sender, aux
<1>b. NoBuf \in BufRecords
  BY <1>c DEF NoBuf, BufRecords
<1>14. ASSUME NEW r \in Readers, SubRc(r) PROVE LargeTypeOK'
  <2>1. conns' \in [Ids -> SUBSET Readers]
    BY <1>14 DEF SubRc
  <2>2. buf' \in [Readers -> BufRecords] /\ rpc' \in [Readers -> {"idle", "release"}]
    <3>1. \/ rpc' = [rpc EXCEPT ![r] = "release"] /\ buf' = buf
          \/ rpc' = rpc /\ buf' = [buf EXCEPT ![r] = NoBuf]
      BY <1>14 DEF SubRc
    <3>2. rpc' \in [Readers -> {"idle", "release"}]
      BY <3>1
    <3>3. buf' \in [Readers -> BufRecords]
      BY <1>b, <3>1
    <3> QED BY <3>2, <3>3
  <2> QED BY <1>14, <2>1, <2>2 DEF SubRc, pool, ring, sender, aux
<1>15. ASSUME NEW r \in Readers, Recycle(r) PROVE LargeTypeOK'
  <2>1. buf[r].id \in 0 .. Chunks
    BY DEF BufRecords
  <2> QED BY <1>9, <1>15, <1>b, <2>1 DEF Recycle, chunk, ring, sender, aux
<1> QED BY <1>1, <1>2, <1>3, <1>4, <1>7, <1>8, <1>10, <1>11, <1>13, <1>14, <1>15
     DEF LargeNext, Sending, Receiving

\* Constants and ids.
LEMMA LargeConstants ==
  /\ Chunks \in Nat /\ N \in Nat \ {0} /\ None \in 0 .. Chunks
  /\ \A i \in 0 .. Chunks : i # None => i \in Ids
  /\ \A i \in Ids : i # None /\ i \in 0 .. Chunks
  /\ \A k \in Nat : SlotOf(k) \in 0 .. N - 1
<1>1. Chunks \in Nat /\ N \in Nat \ {0}
  BY LargeAssumption
<1>2. \A k \in Nat : SlotOf(k) \in 0 .. N - 1
  BY <1>1, DivMod DEF SlotOf
<1> QED BY <1>1, <1>2 DEF None, Ids

\* As long as the ring and the buffers do not change, neither does what is on
\* its way.
LEMMA SameView ==
  ASSUME UNCHANGED <<cc, elem, wt, cursor>>
  PROVE  /\ \A r : Unread(r)' = Unread(r)
         /\ \A k : At(k)' = At(k)
         /\ (buf' = buf => \A r, i : Claim(r, i)' <=> Claim(r, i))
         /\ (epoch' = epoch => (Quiet' <=> Quiet))
         /\ (Window' <=> Window)
<1>1. \A r : Unread(r)' = Unread(r)
  BY DEF Unread, SlotOf
<1>2. \A k : At(k)' = At(k)
  BY DEF At, SlotOf
<1>3. (buf' = buf => \A r, i : Claim(r, i)' <=> Claim(r, i))
  BY <1>1, <1>2 DEF Claim
<1>4. (epoch' = epoch => (Quiet' <=> Quiet))
  BY DEF Quiet
<1>5. Window' <=> Window
  BY <1>2 DEF Window
<1> QED BY <1>1, <1>2, <1>3, <1>4, <1>5

\* send begins.
LEMMA SendKeeps ==
  ASSUME LargeTypeOK, CalmInv, NEW s \in Senders, Send(s)
  PROVE  CalmInv'
<1>1. /\ UNCHANGED <<pool, chunk, ring, sid, reader>> /\ spc[s] = "idle"
      /\ (whole' => whole /\ s \notin cc)
      /\ spc' = [spc EXCEPT ![s] = "acquire"]
      /\ sconns' = [sconns EXCEPT ![s] = cc] /\ smsg' = [smsg EXCEPT ![s] = sent']
  BY DEF Send, Goto
<1>u. UNCHANGED <<next, first, conns, content, cc, elem, wt, epoch, sid, cursor, buf, rpc>>
  BY <1>1 DEF pool, chunk, ring, reader
<1>v. /\ \A r : Unread(r)' = Unread(r)
      /\ \A k : At(k)' = At(k)
      /\ \A r, i : Claim(r, i)' <=> Claim(r, i)
      /\ Quiet' /\ Window' /\ ListOK' /\ BufOK' /\ Free' = Free
  BY <1>u, SameView DEF CalmInv, ListOK, BufOK, Free
<1>t. /\ spc'[s] = "acquire" /\ sconns'[s] = cc
      /\ \A t \in Senders : t # s => spc'[t] = spc[t] /\ sconns'[t] = sconns[t] /\ smsg'[t] = smsg[t]
  BY <1>1 DEF LargeTypeOK, SenderTypeOK
<1>2. SendersOK'
  <2> SUFFICES ASSUME NEW t \in Senders PROVE SidOK(t)'
    BY DEF SendersOK
  <2>1. SidOK(t) /\ sid[s] = None
    BY <1>1 DEF CalmInv, SendersOK, SidOK
  <2>2. CASE t = s
    BY <1>1, <1>u, <1>t, <2>1, <2>2 DEF SidOK
  <2>3. CASE t # s
    BY <1>1, <1>u, <1>v, <1>t, <2>1, <2>3 DEF SidOK
  <2> QED BY <2>2, <2>3
<1>3. WaysOK'
  BY <1>1, <1>u, <1>v DEF CalmInv, WaysOK, WayOK
<1>4. HandsOK'
  BY <1>u, <1>v DEF CalmInv, HandsOK, HandOK
<1>5. AllKept'
  BY <1>1, <1>u, <1>v DEF CalmInv, AllKept, KeptOK
<1> QED BY <1>v, <1>2, <1>3, <1>4, <1>5 DEF CalmInv

\* acquire_storage takes the head of the list.
LEMMA AcquireKeeps ==
  ASSUME LargeTypeOK, CalmInv, NEW s \in Senders, AcquireStorage(s)
  PROVE  CalmInv'
<1>1. /\ UNCHANGED <<next, chunk, ring, sent, sconns, smsg, reader, aux>> /\ spc[s] = "acquire" /\ first # None
      /\ spc' = [spc EXCEPT ![s] = "fill"] /\ first' = next[first]
      /\ sid' = [sid EXCEPT ![s] = first]
  BY DEF AcquireStorage, Goto
<1>u. UNCHANGED <<next, conns, content, cc, elem, wt, epoch, sconns, smsg, cursor, buf, rpc, whole>>
  BY <1>1 DEF chunk, ring, reader, aux
<1>f. ListOK' /\ first \in Free /\ Free' = Free \ {first}
  BY <1>1, ListTaken DEF CalmInv
<1>v. /\ \A r : Unread(r)' = Unread(r)
      /\ \A k : At(k)' = At(k)
      /\ \A r, i : Claim(r, i)' <=> Claim(r, i)
      /\ Quiet' /\ Window' /\ BufOK'
  BY <1>u, SameView DEF CalmInv, BufOK
<1>t. /\ spc'[s] = "fill" /\ sid'[s] = first
      /\ \A t \in Senders : t # s => spc'[t] = spc[t] /\ sid'[t] = sid[t]
  BY <1>1 DEF LargeTypeOK, SenderTypeOK
<1>2. SendersOK'
  <2> SUFFICES ASSUME NEW t \in Senders PROVE SidOK(t)'
    BY DEF SendersOK
  <2>1. SidOK(t) /\ SidOK(s) /\ \A x \in Senders : sid[x] # None => sid[x] \notin Free
    BY DEF CalmInv, SendersOK, SidOK
  <2>2. CASE t = s
    <3>1. \A x \in Senders : sid'[s] = sid'[x] => s = x
      BY <1>1, <1>f, <1>t, <2>1
    <3> QED BY <1>1, <1>f, <1>u, <1>t, <2>1, <2>2, <3>1 DEF SidOK
  <2>3. CASE t # s
    <3>1. \A x \in Senders : (sid'[t] # None /\ sid'[t] = sid'[x]) => t = x
      BY <1>1, <1>f, <1>t, <2>1, <2>3 DEF SidOK
    <3> QED BY <1>1, <1>f, <1>u, <1>v, <1>t, <2>1, <2>3, <3>1 DEF SidOK
  <2> QED BY <2>2, <2>3
<1>3. WaysOK'
  <2> SUFFICES ASSUME NEW r \in Readers, NEW k \in Unread(r) PROVE WayOK(r, k)'
    BY <1>v DEF WaysOK
  <2>1. WayOK(r, k)
    BY DEF CalmInv, WaysOK
  <2> QED BY <2>1, <1>u, <1>v, <1>f, <1>t DEF WayOK
<1>4. HandsOK'
  <2> SUFFICES ASSUME NEW r \in Readers PROVE HandOK(r)'
    BY DEF HandsOK
  <2>1. HandOK(r)
    BY DEF CalmInv, HandsOK
  <2> QED BY <2>1, <1>u, <1>f, <1>t DEF HandOK
<1>5. AllKept'
  <2> SUFFICES ASSUME whole, NEW i \in Ids PROVE KeptOK(i)'
    BY <1>u DEF AllKept
  <2>1. KeptOK(i) /\ sid[s] = None
    BY <1>1 DEF CalmInv, AllKept, SendersOK, SidOK
  <2>2. i # None
    BY LargeConstants
  <2> QED BY <2>1, <2>2, <1>u, <1>v, <1>f, <1>t DEF KeptOK
<1> QED BY <1>v, <1>f, <1>2, <1>3, <1>4, <1>5 DEF CalmInv

\* No chunk is left, or push does not come through in time.
LEMMA StepKeeps ==
  ASSUME LargeTypeOK, CalmInv, NEW s \in Senders, PoolEmpty(s) \/ TimeOut(s)
  PROVE  CalmInv'
<1>1. \/ spc[s] = "acquire" /\ spc' = [spc EXCEPT ![s] = "push"]
      \/ spc[s] = "push" /\ spc' = [spc EXCEPT ![s] = "late"]
  BY DEF PoolEmpty, TimeOut, Goto
<1>u. UNCHANGED <<next, first, conns, content, cc, elem, wt, epoch, sid, sconns, smsg, cursor, buf, rpc, whole>>
  BY DEF PoolEmpty, TimeOut, pool, chunk, ring, reader, aux
<1>v. /\ \A r : Unread(r)' = Unread(r)
      /\ \A k : At(k)' = At(k)
      /\ \A r, i : Claim(r, i)' <=> Claim(r, i)
      /\ Quiet' /\ Window' /\ ListOK' /\ BufOK' /\ Free' = Free
  BY <1>u, SameView DEF CalmInv, ListOK, BufOK, Free
<1>t. \A t \in Senders : \/ spc'[t] = spc[t]
                         \/ spc[t] = "acquire" /\ spc'[t] = "push"
                         \/ spc[t] = "push" /\ spc'[t] = "late"
  BY <1>1 DEF LargeTypeOK, SenderTypeOK
<1>2. SendersOK'
  <2> SUFFICES ASSUME NEW t \in Senders PROVE SidOK(t)'
    BY DEF SendersOK
  <2>1. SidOK(t)
    BY DEF CalmInv, SendersOK
  <2> QED BY <1>u, <1>v, <1>t, <2>1 DEF SidOK
<1>3. WaysOK'
  BY <1>u, <1>v DEF CalmInv, WaysOK, WayOK
<1>4. HandsOK'
  BY <1>u, <1>v DEF CalmInv, HandsOK, HandOK
<1>5. AllKept'
  BY <1>u, <1>v DEF CalmInv, AllKept, KeptOK
<1> QED BY <1>v, <1>2, <1>3, <1>4, <1>5 DEF CalmInv

\* The sender writes its chunk, which nobody else has.
LEMMA FillKeeps ==
  ASSUME LargeTypeOK, CalmInv, NEW s \in Senders, FillChunk(s)
  PROVE  CalmInv'
<1> DEFINE i == sid[s]
<1>1. /\ spc[s] = "fill" /\ spc' = [spc EXCEPT ![s] = "push"]
      /\ conns' = [conns EXCEPT ![i] = sconns[s]] /\ content' = [content EXCEPT ![i] = smsg[s]]
  BY DEF FillChunk, Goto
<1>u. UNCHANGED <<next, first, cc, elem, wt, epoch, sid, sconns, smsg, cursor, buf, rpc, whole>>
  BY DEF FillChunk, pool, ring, reader, aux
<1>v. /\ \A r : Unread(r)' = Unread(r)
      /\ \A k : At(k)' = At(k)
      /\ \A r, j : Claim(r, j)' <=> Claim(r, j)
      /\ Quiet' /\ Window' /\ ListOK' /\ BufOK' /\ Free' = Free
  BY <1>u, SameView DEF CalmInv, ListOK, BufOK, Free
<1>i. i \in Ids /\ i # None
  <2>1. i # None /\ i \in 0 .. Chunks
    BY <1>1 DEF CalmInv, SendersOK, SidOK, LargeTypeOK, SenderTypeOK
  <2> QED BY <2>1, LargeConstants
<1>t. /\ spc'[s] = "push" /\ \A t \in Senders : t # s => spc'[t] = spc[t]
      /\ conns'[i] = sconns[s] /\ content'[i] = smsg[s]
      /\ \A j \in Ids : j # i => conns'[j] = conns[j] /\ content'[j] = content[j]
  BY <1>1, <1>i DEF LargeTypeOK, SenderTypeOK, PoolTypeOK
<1> HIDE DEF i
<1>2. SendersOK'
  <2> SUFFICES ASSUME NEW t \in Senders PROVE SidOK(t)'
    BY DEF SendersOK
  <2>1. SidOK(t) /\ SidOK(s)
    BY DEF CalmInv, SendersOK
  <2>2. CASE t = s
    BY <1>1, <1>i, <1>u, <1>v, <1>t, <2>1, <2>2 DEF SidOK, i
  <2>3. CASE t # s
    <3>1. sid[t] # None => sid[t] \in Ids /\ sid[t] # i
      BY <1>i, <2>1, <2>3, LargeConstants DEF SidOK, LargeTypeOK, SenderTypeOK, i
    <3> QED BY <1>u, <1>v, <1>t, <2>1, <2>3, <3>1 DEF SidOK
  <2> QED BY <2>2, <2>3
<1>w. \A r \in Readers : \A k \in Unread(r) : At(k).id # None => At(k).id \in Ids /\ At(k).id # i
  <2> SUFFICES ASSUME NEW r \in Readers, NEW k \in Unread(r), At(k).id # None PROVE At(k).id \in Ids /\ At(k).id # i
    OBVIOUS
  <2>1. k \in Nat
    BY DEF Unread, LargeTypeOK, RingTypeOK
  <2>2. At(k) \in ElemRecords
    BY <2>1, LargeConstants DEF At, LargeTypeOK, RingTypeOK
  <2>3. At(k).id # i
    BY DEF CalmInv, WaysOK, WayOK, i
  <2> QED BY <2>2, <2>3, LargeConstants DEF ElemRecords
<1>h. \A r \in Readers : buf[r].id # None => buf[r].id \in Ids /\ buf[r].id # i
  BY LargeConstants DEF CalmInv, HandsOK, HandOK, i, LargeTypeOK, RingTypeOK, BufRecords
<1>3. WaysOK'
  <2> SUFFICES ASSUME NEW r \in Readers, NEW k \in Unread(r) PROVE WayOK(r, k)'
    BY <1>v DEF WaysOK
  <2>1. WayOK(r, k)
    BY DEF CalmInv, WaysOK
  <2> QED BY <2>1, <1>u, <1>v, <1>w, <1>t DEF WayOK
<1>4. HandsOK'
  <2> SUFFICES ASSUME NEW r \in Readers PROVE HandOK(r)'
    BY DEF HandsOK
  <2>1. HandOK(r)
    BY DEF CalmInv, HandsOK
  <2> QED BY <2>1, <1>u, <1>v, <1>h, <1>t DEF HandOK
<1>5. AllKept'
  <2> SUFFICES ASSUME whole, NEW j \in Ids PROVE KeptOK(j)'
    BY <1>u DEF AllKept
  <2>1. KeptOK(j)
    BY DEF CalmInv, AllKept
  <2>2. \A q \in Readers : Claim(q, j) => j # i
    BY <1>i, <1>w, <1>h DEF Claim
  <2> QED BY <2>1, <2>2, <1>u, <1>v, <1>t DEF KeptOK
<1> QED BY <1>v, <1>2, <1>3, <1>4, <1>5 DEF CalmInv

\* try_send gives up.
LEMMA FailsKeeps ==
  ASSUME LargeTypeOK, CalmInv, NEW s \in Senders, TrySendFails(s)
  PROVE  CalmInv'
<1>1. /\ spc' = [spc EXCEPT ![s] = "idle"] /\ sid' = [sid EXCEPT ![s] = None]
      /\ sconns' = [sconns EXCEPT ![s] = {}] /\ smsg' = [smsg EXCEPT ![s] = 0]
      /\ (whole' => whole /\ sid[s] = None)
  BY DEF TrySendFails, Finish, Goto
<1>u. UNCHANGED <<next, first, conns, content, cc, elem, wt, epoch, cursor, buf, rpc>>
  BY DEF TrySendFails, pool, chunk, ring, reader
<1>v. /\ \A r : Unread(r)' = Unread(r)
      /\ \A k : At(k)' = At(k)
      /\ \A r, i : Claim(r, i)' <=> Claim(r, i)
      /\ Quiet' /\ Window' /\ ListOK' /\ BufOK' /\ Free' = Free
  BY <1>u, SameView DEF CalmInv, ListOK, BufOK, Free
<1>t. /\ spc'[s] = "idle" /\ sid'[s] = None
      /\ \A t \in Senders : t # s =>
           spc'[t] = spc[t] /\ sid'[t] = sid[t] /\ sconns'[t] = sconns[t] /\ smsg'[t] = smsg[t]
  BY <1>1 DEF LargeTypeOK, SenderTypeOK
<1>2. SendersOK'
  <2> SUFFICES ASSUME NEW t \in Senders PROVE SidOK(t)'
    BY DEF SendersOK
  <2>1. SidOK(t)
    BY DEF CalmInv, SendersOK
  <2> QED BY <1>1, <1>u, <1>v, <1>t, <2>1 DEF SidOK
<1>s. \A t \in Senders : sid'[t] = sid[t] \/ sid'[t] = None
  BY <1>t
<1>3. WaysOK'
  <2> SUFFICES ASSUME NEW r \in Readers, NEW k \in Unread(r) PROVE WayOK(r, k)'
    BY <1>v DEF WaysOK
  <2>1. WayOK(r, k)
    BY DEF CalmInv, WaysOK
  <2> QED BY <2>1, <1>1, <1>u, <1>v, <1>s DEF WayOK
<1>4. HandsOK'
  <2> SUFFICES ASSUME NEW r \in Readers PROVE HandOK(r)'
    BY DEF HandsOK
  <2>1. HandOK(r)
    BY DEF CalmInv, HandsOK
  <2> QED BY <2>1, <1>u, <1>v, <1>s DEF HandOK
<1>5. AllKept'
  <2> SUFFICES ASSUME whole', NEW i \in Ids PROVE KeptOK(i)'
    BY DEF AllKept
  <2>1. KeptOK(i) /\ sid' = sid
    BY <1>1 DEF CalmInv, AllKept, LargeTypeOK, SenderTypeOK
  <2> QED BY <2>1, <1>u, <1>v DEF KeptOK
<1> QED BY <1>v, <1>2, <1>3, <1>4, <1>5 DEF CalmInv

\* Positions that are unread are less than a round old, and have an element.
LEMMA UnreadIn ==
  ASSUME LargeTypeOK, Window, NEW r \in Readers, NEW k \in Unread(r)
  PROVE  /\ k \in Nat /\ r \in cc /\ cursor[r] <= k /\ k < wt /\ wt <= k + N /\ r \in At(k).bits
         /\ At(k) \in ElemRecords /\ (At(k).id # None => At(k).id \in Ids)
<1>t. cursor[r] \in Nat /\ wt \in Nat /\ N \in Nat
  BY LargeConstants DEF LargeTypeOK, RingTypeOK
<1>1. k \in cursor[r] .. wt - 1 /\ r \in cc /\ r \in At(k).bits
  BY DEF Unread, At
<1>2. k \in Nat /\ cursor[r] <= k /\ k < wt
  BY <1>t, <1>1
<1>3. wt <= cursor[r] + N
  BY <1>1 DEF Window
<1>4. At(k) \in ElemRecords
  BY <1>2, LargeConstants DEF At, LargeTypeOK, RingTypeOK
<1>5. At(k).id # None => At(k).id \in Ids
  BY <1>4, LargeConstants DEF ElemRecords
<1> QED BY <1>t, <1>1, <1>2, <1>3, <1>4, <1>5

\* What push does to the ring: one more position, unread by all who are
\* connected.
LEMMA PushView ==
  ASSUME LargeTypeOK, Quiet, Window, NEW s \in Senders, Push(s), NEW w \in Nat, w = wt
  PROVE  /\ At(w)' = [id |-> sid[s], msg |-> smsg[s], from |-> s, bits |-> cc, ep |-> epoch]
         /\ \A r \in Readers : \A k \in Unread(r) : k # w /\ At(k)' = At(k)
         /\ \A r \in cc : Unread(r)' = Unread(r) \cup {w}
         /\ \A r \in Readers \ cc : Unread(r)' = {} /\ Unread(r) = {}
         /\ Quiet' /\ Window'
<1>t. /\ wt \in Nat /\ N \in Nat \ {0} /\ cc \subseteq Readers /\ epoch \in Nat
      /\ elem \in [0 .. N - 1 -> ElemRecords] /\ SlotOf(wt) \in 0 .. N - 1
      /\ \A r \in Readers : cursor[r] \in Nat
  BY LargeConstants DEF LargeTypeOK, RingTypeOK
<1> DEFINE new == [id |-> sid[s], msg |-> smsg[s], from |-> s, bits |-> cc, ep |-> epoch]
<1>1. /\ elem' = [elem EXCEPT ![SlotOf(wt)] = new] /\ wt' = wt + 1 /\ cc' = cc /\ epoch' = epoch
      /\ cursor' = cursor /\ ~Unfinished
  BY DEF Push, Place, reader
<1>2. At(w)' = new /\ At(w)'.bits = cc
  <2>1. elem'[SlotOf(wt)] = new
    BY <1>t, <1>1
  <2> QED BY <2>1 DEF At, SlotOf
<1>n. new.ep = epoch
  OBVIOUS
<1> HIDE DEF new
<1>3. \A k \in Nat : (k < wt /\ wt < k + N) => At(k)' = At(k)
  <2> SUFFICES ASSUME NEW k \in Nat, k < wt, wt < k + N PROVE At(k)' = At(k)
    OBVIOUS
  <2>1. k % N # wt % N
    BY <1>t, OtherSlot
  <2> QED BY <1>t, <1>1, <2>1, LargeConstants DEF At, SlotOf
<1>4. \A r \in cc : wt < cursor[r] + N
  <2> SUFFICES ASSUME NEW r \in cc, wt = cursor[r] + N PROVE FALSE
    BY <1>t DEF Window
  <2>1. cursor[r] \in Nat /\ cursor[r] \in cursor[r] .. wt - 1
    BY <1>t
  <2>2. r \in At(cursor[r]).bits
    BY <2>1 DEF Window
  <2>3. SlotOf(wt) = SlotOf(cursor[r])
    BY <1>t, <2>1, SameSlot DEF SlotOf
  <2>4. r \in elem[SlotOf(wt)].bits /\ elem[SlotOf(wt)].ep = epoch
    BY <1>t, <2>2, <2>3 DEF At, Quiet
  <2> QED BY <1>1, <2>4 DEF Unfinished
<1>5. \A r \in Readers : \A k \in Unread(r) : k # w /\ k \in Nat /\ k < wt /\ wt < k + N
  <2> SUFFICES ASSUME NEW r \in Readers, NEW k \in Unread(r) PROVE k # w /\ k \in Nat /\ k < wt /\ wt < k + N
    OBVIOUS
  <2>1. k \in Nat /\ r \in cc /\ cursor[r] <= k /\ k < wt
    BY UnreadIn
  <2> QED BY <1>t, <1>4, <2>1
<1>6. \A r \in cc : \A k \in cursor[r] .. wt - 1 : At(k)' = At(k) /\ r \in At(k)'.bits
  <2> SUFFICES ASSUME NEW r \in cc, NEW k \in cursor[r] .. wt - 1 PROVE At(k)' = At(k) /\ r \in At(k)'.bits
    OBVIOUS
  <2>1. k \in Nat /\ k < wt /\ wt < k + N
    BY <1>t, <1>4
  <2>2. r \in At(k).bits
    BY DEF Window
  <2> QED BY <1>3, <2>1, <2>2
<1>7. \A r \in cc : cursor[r] <= wt
  BY DEF Window
<1>8. Window'
  <2> SUFFICES ASSUME NEW r \in cc
               PROVE  /\ cursor[r] <= wt + 1 /\ wt + 1 <= cursor[r] + N
                      /\ \A k \in cursor[r] .. (wt + 1) - 1 : r \in At(k)'.bits
    BY <1>1 DEF Window
  <2>1. cursor[r] <= wt + 1 /\ wt + 1 <= cursor[r] + N
    BY <1>t, <1>4, <1>7
  <2>2. \A k \in cursor[r] .. (wt + 1) - 1 : k = wt \/ k \in cursor[r] .. wt - 1
    BY <1>t
  <2> QED BY <1>2, <1>6, <2>1, <2>2
<1>9. Quiet'
  BY <1>t, <1>1, <1>n DEF Quiet
<1>10. ASSUME NEW r \in cc PROVE Unread(r)' = Unread(r) \cup {w}
  <2>1. Unread(r)' = {k \in cursor[r] .. (wt + 1) - 1 : r \in cc /\ r \in At(k)'.bits}
    BY <1>1 DEF Unread, At, SlotOf
  <2>2. Unread(r) = {k \in cursor[r] .. wt - 1 : r \in cc /\ r \in At(k).bits}
    BY DEF Unread, At, SlotOf
  <2>3. \A k : k \in cursor[r] .. (wt + 1) - 1 <=> (k = wt \/ k \in cursor[r] .. wt - 1)
    BY <1>t, <1>7
  <2> QED BY <1>2, <1>6, <2>1, <2>2, <2>3
<1>11. \A r \in Readers \ cc : Unread(r)' = {} /\ Unread(r) = {}
  BY <1>1 DEF Unread
<1> QED BY <1>2, <1>3, <1>5, <1>8, <1>9, <1>10, <1>11 DEF new

\* The sender's chunk goes on its way to all who are connected.
LEMMA PushKeeps ==
  ASSUME LargeTypeOK, CalmInv, NEW s \in Senders, Push(s)
  PROVE  CalmInv'
<1> DEFINE new == [id |-> sid[s], msg |-> smsg[s], from |-> s, bits |-> cc, ep |-> epoch]
<1>w. PICK w \in Nat : w = wt
  BY DEF LargeTypeOK, RingTypeOK
<1>1. /\ spc[s] = "push" /\ spc' = [spc EXCEPT ![s] = "idle"] /\ sid' = [sid EXCEPT ![s] = None]
      /\ sconns' = [sconns EXCEPT ![s] = {}] /\ smsg' = [smsg EXCEPT ![s] = 0] /\ cc # {}
  BY DEF Push, Finish, Goto
<1>u. UNCHANGED <<next, first, conns, content, cc, epoch, buf, rpc, whole>>
  BY DEF Push, pool, chunk, reader, aux
<1>p. /\ At(w)' = new
      /\ \A r \in Readers : \A k \in Unread(r) : k # w /\ At(k)' = At(k)
      /\ \A r \in cc : Unread(r)' = Unread(r) \cup {w}
      /\ \A r \in Readers \ cc : Unread(r)' = {} /\ Unread(r) = {}
      /\ Quiet' /\ Window'
  BY <1>w, PushView DEF CalmInv
<1>n. /\ At(w)'.id = sid[s] /\ At(w)'.msg = smsg[s] /\ At(w)'.from = s
  BY <1>p
<1> HIDE DEF new
<1>v. ListOK' /\ BufOK' /\ Free' = Free /\ cc \subseteq Readers
  BY <1>u DEF CalmInv, ListOK, BufOK, Free, LargeTypeOK, RingTypeOK
<1>t. /\ spc'[s] = "idle" /\ sid'[s] = None
      /\ \A t \in Senders : t # s =>
           spc'[t] = spc[t] /\ sid'[t] = sid[t] /\ sconns'[t] = sconns[t] /\ smsg'[t] = smsg[t]
  BY <1>1 DEF LargeTypeOK, SenderTypeOK
<1>s. \A t \in Senders : sid'[t] = sid[t] \/ sid'[t] = None
  BY <1>t
<1>o. SidOK(s)
  BY DEF CalmInv, SendersOK
<1>r. \A r \in Readers : \A k \in Unread(r)' : (k \in Unread(r) /\ At(k)' = At(k)) \/ (k = w /\ r \in cc)
  BY <1>p
<1>2. SendersOK'
  <2> SUFFICES ASSUME NEW t \in Senders PROVE SidOK(t)'
    BY DEF SendersOK
  <2>1. SidOK(t)
    BY DEF CalmInv, SendersOK
  <2> QED BY <1>1, <1>u, <1>v, <1>t, <2>1 DEF SidOK
<1>3. WaysOK'
  <2> SUFFICES ASSUME NEW r \in Readers, NEW k \in Unread(r)' PROVE WayOK(r, k)'
    BY DEF WaysOK
  <2>1. CASE k \in Unread(r) /\ At(k)' = At(k)
    <3>1. WayOK(r, k)
      BY <2>1 DEF CalmInv, WaysOK
    <3>2. At(k).id # None => \A q \in Readers : \A h \in Unread(q)' : At(h)'.id = At(k).id => h = k
      BY <1>n, <1>r, <2>1, <3>1 DEF WayOK
    <3>3. At(k).id # None => \A t \in Senders : sid'[t] # At(k).id
      BY <1>s, <3>1 DEF WayOK
    <3> QED BY <1>u, <1>v, <2>1, <3>1, <3>2, <3>3 DEF WayOK
  <2>2. CASE k = w /\ r \in cc
    <3>1. whole => s # r
      BY <1>1, <1>o, <2>2 DEF SidOK
    <3>2. ASSUME sid[s] # None
          PROVE  /\ sid[s] \notin Free /\ r \in conns[sid[s]] /\ content[sid[s]] = smsg[s]
                 /\ \A t \in Senders : sid'[t] # sid[s]
                 /\ \A q \in Readers : buf[q].id # sid[s]
      <4>1. sid[s] \notin Free /\ content[sid[s]] = smsg[s] /\ conns[sid[s]] = sconns[s] /\ cc \subseteq sconns[s]
        BY <1>1, <1>o, <3>2 DEF SidOK
      <4>2. \A t \in Senders : sid'[t] # sid[s]
        BY <1>t, <1>o, <3>2 DEF SidOK
      <4>3. \A q \in Readers : buf[q].id # sid[s]
        BY <3>2 DEF CalmInv, HandsOK, HandOK
      <4> QED BY <2>2, <4>1, <4>2, <4>3
    <3>3. sid[s] # None => \A q \in Readers : \A h \in Unread(q)' : At(h)'.id = sid[s] => h = w
      <4> SUFFICES ASSUME sid[s] # None, NEW q \in Readers, NEW h \in Unread(q), At(h).id = sid[s] PROVE FALSE
        BY <1>r
      <4> QED BY DEF CalmInv, WaysOK, WayOK
    <3> QED BY <1>n, <1>u, <1>v, <2>2, <3>1, <3>2, <3>3 DEF WayOK
  <2> QED BY <1>r, <2>1, <2>2
<1>4. HandsOK'
  <2> SUFFICES ASSUME NEW r \in Readers PROVE HandOK(r)'
    BY DEF HandsOK
  <2>1. HandOK(r)
    BY DEF CalmInv, HandsOK
  <2> QED BY <2>1, <1>u, <1>v, <1>s DEF HandOK
<1>5. AllKept'
  <2> SUFFICES ASSUME whole, NEW i \in Ids PROVE KeptOK(i)'
    BY <1>u DEF AllKept
  <2>1. KeptOK(i) /\ i # None
    BY LargeConstants DEF CalmInv, AllKept
  <2>2. CASE i = sid[s]
    <3>1. \A r \in cc : Claim(r, i)'
      BY <1>p, <1>n, <2>2 DEF Claim
    <3>2. conns[i] = sconns[s] /\ sconns[s] \subseteq cc
      BY <1>1, <1>o, <2>1, <2>2 DEF SidOK
    <3> QED BY <1>1, <1>u, <1>v, <3>1, <3>2 DEF KeptOK
  <2>3. CASE i # sid[s]
    <3>1. \A r \in Readers : Claim(r, i) => Claim(r, i)'
      <4> SUFFICES ASSUME NEW r \in Readers, Claim(r, i) PROVE Claim(r, i)'
        OBVIOUS
      <4>1. CASE buf[r].id = i
        BY <1>u, <4>1 DEF Claim
      <4>2. ASSUME NEW k \in Unread(r), At(k).id = i PROVE Claim(r, i)'
        <5>1. k \in Unread(r)' /\ At(k)' = At(k)
          BY <1>p, <4>2
        <5> QED BY <4>2, <5>1 DEF Claim
      <4> QED BY <4>1, <4>2 DEF Claim
    <3>2. \A r \in Readers : Claim(r, i)' => Claim(r, i)
      BY <1>u, <1>n, <1>r, <2>3 DEF Claim
    <3>3. \A t \in Senders : sid[t] = i => sid'[t] = i
      BY <1>t, <2>3
    <3>4. conns[i] \subseteq Readers
      BY DEF LargeTypeOK, PoolTypeOK
    <3> QED BY <1>u, <1>v, <2>1, <3>1, <3>2, <3>3, <3>4 DEF KeptOK
  <2> QED BY <2>2, <2>3
<1> QED BY <1>p, <1>v, <1>2, <1>3, <1>4, <1>5 DEF CalmInv

\* A receiver that connects has nothing to read yet.
LEMMA ConnectKeeps ==
  ASSUME LargeTypeOK, CalmInv, NEW r \in Readers, Connect(r), calm'
  PROVE  CalmInv'
<1>1. /\ cc' = cc \cup {r} /\ cursor' = [cursor EXCEPT ![r] = wt] /\ r \notin cc /\ ~MidSend
  BY DEF Connect
<1>u. UNCHANGED <<next, first, conns, content, elem, wt, epoch, spc, sid, sconns, smsg, buf, rpc, whole>>
  BY DEF Connect, pool, chunk, sender
<1>t. /\ cursor'[r] = wt /\ \A q \in Readers : q # r => cursor'[q] = cursor[q]
      /\ wt \in Nat /\ N \in Nat /\ cc \subseteq Readers
  BY <1>1, LargeConstants DEF LargeTypeOK, RingTypeOK
<1>v. \A k : At(k)' = At(k)
  BY <1>u DEF At, SlotOf
<1>2. \A q \in Readers : Unread(q)' = Unread(q)
  <2> SUFFICES ASSUME NEW q \in Readers PROVE Unread(q)' = Unread(q)
    OBVIOUS
  <2>1. CASE q = r
    <3>1. Unread(q) = {}
      BY <1>1, <2>1 DEF Unread
    <3>2. wt .. wt - 1 = {}
      BY <1>t
    <3>3. Unread(q)' = {}
      BY <1>t, <1>u, <2>1, <3>2 DEF Unread
    <3> QED BY <3>1, <3>3
  <2>2. CASE q # r
    BY <1>1, <1>t, <1>u, <2>2 DEF Unread, SlotOf
  <2> QED BY <2>1, <2>2
<1>3. \A q \in Readers : \A i : Claim(q, i)' <=> Claim(q, i)
  BY <1>u, <1>v, <1>2 DEF Claim
<1>4. Quiet' /\ ListOK' /\ BufOK' /\ Free' = Free
  BY <1>1, <1>u DEF CalmInv, Quiet, ListOK, BufOK, Free
<1>5. Window'
  <2> SUFFICES ASSUME NEW q \in cc \cup {r}
               PROVE  /\ cursor'[q] <= wt /\ wt <= cursor'[q] + N
                      /\ \A k \in cursor'[q] .. wt - 1 : q \in At(k).bits
    BY <1>1, <1>u, <1>v DEF Window
  <2>1. CASE q = r
    <3>1. wt .. wt - 1 = {}
      BY <1>t
    <3> QED BY <1>t, <2>1, <3>1
  <2>2. CASE q # r
    BY <1>t, <2>2 DEF CalmInv, Window
  <2> QED BY <2>1, <2>2
<1>6. SendersOK'
  <2> SUFFICES ASSUME NEW t \in Senders PROVE SidOK(t)'
    BY DEF SendersOK
  <2>1. SidOK(t) /\ spc[t] = "idle"
    BY <1>1 DEF CalmInv, SendersOK, MidSend
  <2> QED BY <1>u, <1>4, <2>1 DEF SidOK
<1>7. WaysOK'
  BY <1>u, <1>v, <1>2, <1>4 DEF CalmInv, WaysOK, WayOK
<1>8. HandsOK'
  BY <1>u, <1>4 DEF CalmInv, HandsOK, HandOK
<1>9. AllKept'
  <2> SUFFICES ASSUME whole, NEW i \in Ids PROVE KeptOK(i)'
    BY <1>u DEF AllKept
  <2>1. KeptOK(i) /\ conns[i] \subseteq Readers
    BY DEF CalmInv, AllKept, LargeTypeOK, PoolTypeOK
  <2> QED BY <1>u, <1>3, <1>4, <2>1 DEF KeptOK
<1> QED BY <1>4, <1>5, <1>6, <1>7, <1>8, <1>9 DEF CalmInv

\* A receiver that leaves has no buffer.
LEMMA DisconnectKeeps ==
  ASSUME LargeTypeOK, CalmInv, NEW r \in Readers, Disconnect(r), calm'
  PROVE  CalmInv'
<1>1. /\ cc' = cc \ {r} /\ buf[r] = NoBuf
      /\ (whole' => whole /\ Unread(r) = {} /\ ~MidSend)
  BY DEF Disconnect
<1>u. UNCHANGED <<next, first, conns, content, elem, wt, epoch, spc, sid, sconns, smsg, cursor, buf, rpc>>
  BY DEF Disconnect, pool, chunk, sender
<1>v. \A k : At(k)' = At(k)
  BY <1>u DEF At, SlotOf
<1>2. Unread(r)' = {} /\ \A q \in Readers : q # r => Unread(q)' = Unread(q)
  BY <1>1, <1>u DEF Unread, SlotOf
<1>3. Quiet' /\ ListOK' /\ Window' /\ Free' = Free
  BY <1>1, <1>u, <1>v DEF CalmInv, Quiet, ListOK, Window, Free
<1>4. BufOK'
  BY <1>1, <1>u DEF CalmInv, BufOK, NoBuf
<1>6. SendersOK'
  <2> SUFFICES ASSUME NEW t \in Senders PROVE SidOK(t)'
    BY DEF SendersOK
  <2>1. SidOK(t) /\ (whole' => spc[t] = "idle")
    BY <1>1 DEF CalmInv, SendersOK, MidSend
  <2> QED BY <1>1, <1>u, <1>3, <2>1 DEF SidOK
<1>7. WaysOK'
  <2> SUFFICES ASSUME NEW q \in Readers, NEW k \in Unread(q)' PROVE WayOK(q, k)'
    BY DEF WaysOK
  <2>1. \A p \in Readers : Unread(p)' \subseteq Unread(p)
    BY <1>2
  <2>2. WayOK(q, k)
    BY <2>1 DEF CalmInv, WaysOK
  <2> QED BY <1>1, <1>u, <1>v, <1>3, <2>1, <2>2 DEF WayOK
<1>8. HandsOK'
  BY <1>u, <1>3 DEF CalmInv, HandsOK, HandOK
<1>9. AllKept'
  <2> SUFFICES ASSUME whole', NEW i \in Ids PROVE KeptOK(i)'
    BY DEF AllKept
  <2>1. KeptOK(i) /\ conns[i] \subseteq Readers
    BY <1>1 DEF CalmInv, AllKept, LargeTypeOK, PoolTypeOK
  <2>2. \A q \in Readers : Unread(q)' = Unread(q)
    BY <1>1, <1>2
  <2>3. \A q \in Readers : Claim(q, i)' <=> Claim(q, i)
    BY <1>u, <1>v, <2>2 DEF Claim
  <2> QED BY <1>u, <1>3, <2>1, <2>3 DEF KeptOK
<1> QED BY <1>3, <1>4, <1>6, <1>7, <1>8, <1>9 DEF CalmInv

\* What pop does to the ring: r has one position less to read.
LEMMA PopView ==
  ASSUME LargeTypeOK, Quiet, Window, NEW r \in Readers, Pop(r), NEW c \in Nat, c = cursor[r]
  PROVE  /\ r \in cc /\ c \in Unread(r) /\ Popped(r) = At(c)
         /\ \A k \in Nat : At(k)'.id = At(k).id /\ At(k)'.msg = At(k).msg /\ At(k)'.from = At(k).from
         /\ Unread(r)' = Unread(r) \ {c}
         /\ \A q \in Readers : q # r => Unread(q)' = Unread(q)
         /\ Quiet' /\ Window'
<1>t. /\ wt \in Nat /\ N \in Nat \ {0} /\ cc \subseteq Readers
      /\ elem \in [0 .. N - 1 -> ElemRecords] /\ SlotOf(c) \in 0 .. N - 1
      /\ \A q \in Readers : cursor[q] \in Nat
  BY LargeConstants DEF LargeTypeOK, RingTypeOK
<1> DEFINE x == SlotOf(c)
           e == [elem[x] EXCEPT !.bits = elem[x].bits \ {r}]
<1>1. /\ elem' = [elem EXCEPT ![x] = e] /\ wt' = wt /\ cc' = cc /\ epoch' = epoch
      /\ cursor' = [cursor EXCEPT ![r] = c + 1] /\ r \in cc /\ c # wt
  BY <1>t DEF Pop
<1>2. c < wt /\ c \in cursor[r] .. wt - 1 /\ r \in At(c).bits /\ wt <= c + N
  BY <1>t, <1>1 DEF Window
<1>3. c \in Unread(r) /\ Popped(r) = At(c)
  BY <1>1, <1>2 DEF Unread, At, Popped
<1>e. e.id = elem[x].id /\ e.msg = elem[x].msg /\ e.from = elem[x].from /\ e.ep = elem[x].ep /\ e.bits = elem[x].bits \ {r}
  BY <1>t DEF ElemRecords
<1> HIDE DEF e
<1>4. \A k \in Nat : IF SlotOf(k) = x THEN At(k)' = e ELSE At(k)' = At(k)
  BY <1>t, <1>1, LargeConstants DEF At, SlotOf
<1>5. \A k \in Nat : At(k)'.id = At(k).id /\ At(k)'.msg = At(k).msg /\ At(k)'.from = At(k).from
  BY <1>4, <1>e DEF At
<1>6. \A k \in Nat : \A q : q # r => (q \in At(k)'.bits <=> q \in At(k).bits)
  BY <1>4, <1>e DEF At
<1>7. \A k \in Nat : (c < k /\ k < c + N) => At(k)' = At(k)
  <2> SUFFICES ASSUME NEW k \in Nat, c < k, k < c + N PROVE At(k)' = At(k)
    OBVIOUS
  <2>1. c % N # k % N
    BY <1>t, OtherSlot
  <2> QED BY <1>4, <2>1 DEF SlotOf
<1>8. Quiet'
  BY <1>t, <1>1, <1>e DEF Quiet
<1>c. cursor'[r] = c + 1 /\ \A q \in Readers : q # r => cursor'[q] = cursor[q]
  BY <1>1 DEF LargeTypeOK, RingTypeOK
<1>9. \A k \in c + 1 .. wt - 1 : k \in Nat /\ At(k)' = At(k) /\ r \in At(k).bits
  <2> SUFFICES ASSUME NEW k \in c + 1 .. wt - 1 PROVE k \in Nat /\ At(k)' = At(k) /\ r \in At(k).bits
    OBVIOUS
  <2>1. k \in Nat /\ c < k /\ k < c + N /\ k \in cursor[r] .. wt - 1
    BY <1>t, <1>2
  <2> QED BY <1>1, <1>7, <2>1 DEF Window
<1>10. Unread(r)' = Unread(r) \ {c}
  <2>1. Unread(r)' = {k \in c + 1 .. wt - 1 : r \in cc /\ r \in At(k)'.bits}
    BY <1>1, <1>c DEF Unread, At, SlotOf
  <2>2. Unread(r) = {k \in c .. wt - 1 : r \in cc /\ r \in At(k).bits}
    BY DEF Unread, At, SlotOf
  <2>3. \A k : k \in c + 1 .. wt - 1 <=> (k # c /\ k \in c .. wt - 1)
    BY <1>t
  <2> QED BY <1>9, <2>1, <2>2, <2>3
<1>11. ASSUME NEW q \in Readers, q # r PROVE Unread(q)' = Unread(q)
  <2>1. Unread(q)' = {k \in cursor[q] .. wt - 1 : q \in cc /\ q \in At(k)'.bits}
    BY <1>1, <1>c, <1>11 DEF Unread, At, SlotOf
  <2>2. Unread(q) = {k \in cursor[q] .. wt - 1 : q \in cc /\ q \in At(k).bits}
    BY DEF Unread, At, SlotOf
  <2>3. \A k \in cursor[q] .. wt - 1 : k \in Nat
    BY <1>t
  <2> QED BY <1>6, <1>11, <2>1, <2>2, <2>3
<1>12. Window'
  <2> SUFFICES ASSUME NEW q \in cc
               PROVE  /\ cursor'[q] <= wt /\ wt <= cursor'[q] + N
                      /\ \A k \in cursor'[q] .. wt - 1 : q \in At(k)'.bits
    BY <1>1 DEF Window
  <2>1. CASE q = r
    BY <1>t, <1>2, <1>c, <1>9, <2>1
  <2>2. CASE q # r
    <3>1. \A k \in cursor[q] .. wt - 1 : k \in Nat /\ q \in At(k).bits
      BY <1>t DEF Window
    <3> QED BY <1>t, <1>c, <1>6, <2>2, <3>1 DEF Window
  <2> QED BY <2>1, <2>2
<1> QED BY <1>1, <1>3, <1>5, <1>8, <1>10, <1>11, <1>12

\* A chunk that was on its way to r is in its buffer.
LEMMA RecvChunkKeeps ==
  ASSUME LargeTypeOK, CalmInv, NEW r \in Readers, RecvChunk(r)
  PROVE  CalmInv'
<1>c. PICK c \in Nat : c = cursor[r]
  BY DEF LargeTypeOK, RingTypeOK
<1>0. Pop(r) /\ rpc[r] = "idle" /\ buf[r] = NoBuf
  BY DEF RecvChunk, Pop
<1>u. UNCHANGED <<next, first, conns, content, cc, spc, sid, sconns, smsg, rpc, whole>>
  BY <1>0 DEF Pop, pool, chunk, sender, aux
<1>p. /\ r \in cc /\ c \in Unread(r) /\ Popped(r) = At(c)
      /\ \A k \in Nat : At(k)'.id = At(k).id /\ At(k)'.msg = At(k).msg /\ At(k)'.from = At(k).from
      /\ Unread(r)' = Unread(r) \ {c}
      /\ \A q \in Readers : q # r => Unread(q)' = Unread(q)
      /\ Quiet' /\ Window'
  BY <1>0, <1>c, PopView DEF CalmInv
<1> DEFINE i == At(c).id
           got == [id |-> i, msg |-> At(c).msg, mask |-> cc \ {r}]
<1>1. buf' = [buf EXCEPT ![r] = got] /\ i # None
  BY <1>p DEF RecvChunk
<1>b. /\ buf'[r] = got /\ buf'[r].id = i /\ buf'[r].msg = At(c).msg /\ buf'[r].mask = cc \ {r}
      /\ \A q \in Readers : q # r => buf'[q] = buf[q]
  BY <1>1 DEF LargeTypeOK, RingTypeOK
<1>n. buf[r].id = None
  BY <1>0 DEF NoBuf
<1> HIDE DEF got
<1>w. WayOK(r, c)
  BY <1>p DEF CalmInv, WaysOK
<1>s. \A q \in Readers : Unread(q)' \subseteq Unread(q) /\ \A k \in Unread(q) : k \in Nat /\ q \in cc
  BY <1>p, UnreadIn DEF CalmInv
<1>l. ListOK' /\ Free' = Free
  BY <1>u DEF CalmInv, ListOK, Free
<1>2. ListOK' /\ Free' = Free /\ SendersOK'
  BY <1>u, <1>l DEF CalmInv, SendersOK, SidOK
<1>3. BufOK'
  BY <1>b, <1>p, <1>u, <1>1 DEF CalmInv, BufOK
<1> HIDE DEF i
<1>4. WaysOK'
  <2> SUFFICES ASSUME NEW q \in Readers, NEW k \in Unread(q)' PROVE WayOK(q, k)'
    BY DEF WaysOK
  <2>1. k \in Unread(q) /\ k \in Nat /\ q \in cc /\ WayOK(q, k)
    BY <1>s DEF CalmInv, WaysOK
  <2>2. At(k)'.id = At(k).id /\ At(k)'.msg = At(k).msg /\ At(k)'.from = At(k).from
    BY <1>p, <2>1
  <2>3. At(k).id # None => \A p \in Readers : \A h \in Unread(p)' : At(h)'.id = At(k).id => h = k
    <3> SUFFICES ASSUME At(k).id # None, NEW p \in Readers, NEW h \in Unread(p)', At(h)'.id = At(k).id PROVE h = k
      OBVIOUS
    <3>1. h \in Unread(p) /\ At(h).id = At(k).id
      BY <1>p, <1>s
    <3> QED BY <2>1, <3>1 DEF WayOK
  <2>4. At(k).id # None => \A p \in Readers : buf'[p].id = At(k).id => p # q /\ rpc[p] = "idle" /\ q \in buf'[p].mask
    <3> SUFFICES ASSUME At(k).id # None, NEW p \in Readers, buf'[p].id = At(k).id
                 PROVE  p # q /\ rpc[p] = "idle" /\ q \in buf'[p].mask
      OBVIOUS
    <3>1. CASE p # r
      BY <1>b, <2>1, <3>1 DEF WayOK
    <3>2. CASE p = r
      <4>1. At(k).id = i
        BY <1>b, <3>2
      <4>2. k = c
        BY <1>1, <1>w, <2>1, <4>1 DEF WayOK, i
      <4>3. q # r
        BY <1>p, <4>2
      <4> QED BY <1>0, <1>b, <2>1, <3>2, <4>3
    <3> QED BY <3>1, <3>2
  <2> QED BY <1>u, <1>2, <2>1, <2>2, <2>3, <2>4 DEF WayOK
<1>5. HandsOK'
  <2> SUFFICES ASSUME NEW q \in Readers PROVE HandOK(q)'
    BY DEF HandsOK
  <2>1. CASE q = r
    <3>1. i \notin Free /\ r \in conns[i] /\ content[i] = At(c).msg /\ (\A s \in Senders : sid[s] # i)
      BY <1>1, <1>w DEF WayOK, i
    <3>2. \A p \in Readers : (buf'[p].id = i /\ p # r) => p \in cc \ {r}
      BY <1>1, <1>b DEF CalmInv, BufOK
    <3> QED BY <1>0, <1>b, <1>u, <1>2, <2>1, <3>1, <3>2 DEF HandOK
  <2>2. CASE q # r
    <3>1. HandOK(q) /\ buf'[q] = buf[q]
      BY <1>b, <2>2 DEF CalmInv, HandsOK
    <3>2. buf[q].id = i => rpc[q] = "idle" /\ r \in buf[q].mask
      BY <1>1, <1>w DEF WayOK, i
    <3>3. buf[q].id # None =>
            \A p \in Readers : (buf'[p].id = buf[q].id /\ p # q) => rpc[q] = "idle" /\ p \in buf[q].mask
      BY <1>b, <3>1, <3>2 DEF HandOK
    <3> QED BY <1>u, <1>2, <3>1, <3>3 DEF HandOK
  <2> QED BY <2>1, <2>2
<1>6. AllKept'
  <2> SUFFICES ASSUME whole, NEW j \in Ids PROVE KeptOK(j)'
    BY <1>u DEF AllKept
  <2>1. KeptOK(j) /\ conns[j] \subseteq Readers /\ j # None
    BY LargeConstants DEF CalmInv, AllKept, LargeTypeOK, PoolTypeOK
  <2>2. ASSUME NEW q \in Readers PROVE Claim(q, j)' <=> Claim(q, j)
    <3>1. CASE q # r
      BY <1>b, <1>p, <1>s, <3>1 DEF Claim
    <3>2. CASE q = r /\ j = i
      <4>1. Claim(q, j)
        BY <1>p, <3>2 DEF Claim, i
      <4>2. Claim(q, j)'
        BY <1>b, <3>2 DEF Claim
      <4> QED BY <4>1, <4>2
    <3>3. CASE q = r /\ j # i
      <4>1. buf[q].id # j /\ buf'[q].id # j
        BY <1>b, <1>n, <2>1, <3>3
      <4>2. ASSUME NEW k \in Unread(r), At(k).id = j PROVE k \in Unread(r)' /\ At(k)'.id = j
        BY <1>p, <1>s, <3>3, <4>2 DEF i
      <4>3. ASSUME NEW k \in Unread(r)', At(k)'.id = j PROVE k \in Unread(r) /\ At(k).id = j
        BY <1>p, <1>s, <4>3
      <4> QED BY <3>3, <4>1, <4>2, <4>3 DEF Claim
    <3> QED BY <3>1, <3>2, <3>3
  <2> QED BY <1>u, <1>2, <2>1, <2>2 DEF KeptOK
<1> QED BY <1>p, <1>2, <1>3, <1>4, <1>5, <1>6 DEF CalmInv

\* r reads a piece, or skips its own message.
LEMMA RecvOtherKeeps ==
  ASSUME LargeTypeOK, CalmInv, NEW r \in Readers, RecvOther(r)
  PROVE  CalmInv'
<1>c. PICK c \in Nat : c = cursor[r]
  BY DEF LargeTypeOK, RingTypeOK
<1>0. Pop(r) /\ rpc[r] = "idle"
  BY DEF RecvOther, Pop
<1>u. UNCHANGED <<next, first, conns, content, cc, spc, sid, sconns, smsg, buf, rpc, whole>>
  BY <1>0 DEF RecvOther, Pop, pool, chunk, sender, aux
<1>p. /\ r \in cc /\ c \in Unread(r) /\ Popped(r) = At(c)
      /\ \A k \in Nat : At(k)'.id = At(k).id /\ At(k)'.msg = At(k).msg /\ At(k)'.from = At(k).from
      /\ Unread(r)' = Unread(r) \ {c}
      /\ \A q \in Readers : q # r => Unread(q)' = Unread(q)
      /\ Quiet' /\ Window'
  BY <1>0, <1>c, PopView DEF CalmInv
<1>s. \A q \in Readers : Unread(q)' \subseteq Unread(q) /\ \A k \in Unread(q) : k \in Nat /\ q \in cc
  BY <1>p, UnreadIn DEF CalmInv
<1>l. ListOK' /\ Free' = Free /\ BufOK'
  BY <1>u DEF CalmInv, ListOK, Free, BufOK
<1>2. ListOK' /\ Free' = Free /\ SendersOK' /\ BufOK'
  BY <1>u, <1>l DEF CalmInv, SendersOK, SidOK
<1>4. WaysOK'
  <2> SUFFICES ASSUME NEW q \in Readers, NEW k \in Unread(q)' PROVE WayOK(q, k)'
    BY DEF WaysOK
  <2>1. k \in Unread(q) /\ k \in Nat /\ WayOK(q, k)
    BY <1>s DEF CalmInv, WaysOK
  <2>2. At(k)'.id = At(k).id /\ At(k)'.msg = At(k).msg /\ At(k)'.from = At(k).from
    BY <1>p, <2>1
  <2>3. At(k).id # None => \A p \in Readers : \A h \in Unread(p)' : At(h)'.id = At(k).id => h = k
    <3> SUFFICES ASSUME At(k).id # None, NEW p \in Readers, NEW h \in Unread(p)', At(h)'.id = At(k).id PROVE h = k
      OBVIOUS
    <3>1. h \in Unread(p) /\ At(h).id = At(k).id
      BY <1>p, <1>s
    <3> QED BY <2>1, <3>1 DEF WayOK
  <2> QED BY <1>u, <1>2, <2>1, <2>2, <2>3 DEF WayOK
<1>5. HandsOK'
  BY <1>u, <1>2 DEF CalmInv, HandsOK, HandOK
<1>6. AllKept'
  <2> SUFFICES ASSUME whole, NEW j \in Ids PROVE KeptOK(j)'
    BY <1>u DEF AllKept
  <2>1. KeptOK(j) /\ conns[j] \subseteq Readers /\ j # None
    BY LargeConstants DEF CalmInv, AllKept, LargeTypeOK, PoolTypeOK
  <2>2. At(c).id = None
    <3>1. At(c).id = None \/ At(c).from = r
      BY <1>p DEF RecvOther
    <3>2. WayOK(r, c)
      BY <1>p DEF CalmInv, WaysOK
    <3> QED BY <3>1, <3>2 DEF WayOK
  <2>3. ASSUME NEW q \in Readers PROVE Claim(q, j)' <=> Claim(q, j)
    <3>1. ASSUME NEW k \in Unread(q), At(k).id = j PROVE k \in Unread(q)' /\ At(k)'.id = j
      BY <1>p, <1>s, <2>1, <2>2, <3>1
    <3>2. ASSUME NEW k \in Unread(q)', At(k)'.id = j PROVE k \in Unread(q) /\ At(k).id = j
      BY <1>p, <1>s, <3>2
    <3> QED BY <1>u, <3>1, <3>2 DEF Claim
  <2> QED BY <1>u, <1>2, <2>1, <2>3 DEF KeptOK
<1> QED BY <1>p, <1>2, <1>4, <1>5, <1>6 DEF CalmInv

\* A buffer goes: r is no longer counted, and the others are.
LEMMA SubRcKeeps ==
  ASSUME LargeTypeOK, CalmInv, NEW r \in Readers, SubRc(r)
  PROVE  CalmInv'
<1> DEFINE i == buf[r].id
<1>1. /\ rpc[r] = "idle" /\ buf[r] # NoBuf
      /\ conns' = [conns EXCEPT ![i] = conns[i] \cap buf[r].mask]
      /\ \/ conns'[i] = {} /\ rpc' = [rpc EXCEPT ![r] = "release"] /\ buf' = buf
         \/ conns'[i] # {} /\ buf' = [buf EXCEPT ![r] = NoBuf] /\ rpc' = rpc
  BY DEF SubRc
<1>u. UNCHANGED <<next, first, content, cc, elem, wt, epoch, spc, sid, sconns, smsg, cursor, whole>>
  BY DEF SubRc, pool, ring, sender, aux
<1>i. i # None /\ i \in Ids
  <2>1. i # None /\ i \in 0 .. Chunks
    BY <1>1 DEF CalmInv, BufOK, LargeTypeOK, RingTypeOK, BufRecords
  <2> QED BY <2>1, LargeConstants
<1>v. /\ \A q : Unread(q)' = Unread(q)
      /\ \A k : At(k)' = At(k)
      /\ Quiet' /\ Window' /\ ListOK' /\ Free' = Free
  BY <1>u, SameView DEF CalmInv, ListOK, Free
<1>h. HandOK(r)
  BY DEF CalmInv, HandsOK
<1>c. /\ conns'[i] = conns[i] \cap buf[r].mask
      /\ \A j \in Ids : j # i => conns'[j] = conns[j]
  BY <1>1, <1>i DEF LargeTypeOK, PoolTypeOK
<1>b. /\ \A q \in Readers : q # r => buf'[q] = buf[q] /\ rpc'[q] = rpc[q]
      /\ \/ conns'[i] = {} /\ rpc'[r] = "release" /\ buf'[r] = buf[r]
         \/ conns'[i] # {} /\ buf'[r] = NoBuf /\ rpc'[r] = "idle"
  BY <1>1 DEF LargeTypeOK, RingTypeOK
<1>n. NoBuf.id = None
  BY DEF NoBuf
<1>d. \A q \in Readers : buf'[q].id # None => buf'[q] = buf[q] /\ buf[q].id # None
  BY <1>b, <1>n
<1> HIDE DEF i
<1>w. \A q \in Readers : \A k \in Unread(q) : At(k).id = i => q \in conns'[i]
  BY <1>c, <1>i DEF CalmInv, WaysOK, WayOK, i
<1>g. \A q \in Readers : (q # r /\ buf[q].id = i) => q \in conns'[i] /\ rpc[q] = "idle"
  <2> SUFFICES ASSUME NEW q \in Readers, q # r, buf[q].id = i PROVE q \in conns'[i] /\ rpc[q] = "idle"
    OBVIOUS
  <2>1. q \in buf[r].mask
    BY <1>h, <1>i DEF HandOK, i
  <2>2. HandOK(q) /\ buf[q].id # None
    BY <1>i DEF CalmInv, HandsOK
  <2>3. rpc[q] = "idle" /\ q \in conns[i]
    BY <2>2, <1>i DEF HandOK, i
  <2> QED BY <1>c, <2>1, <2>3
<1>2. BufOK'
  <2> SUFFICES ASSUME NEW q \in Readers
               PROVE  /\ buf'[q].id # None => q \in cc
                      /\ buf'[q].id = None => buf'[q] = NoBuf /\ rpc'[q] = "idle"
    BY <1>u DEF BufOK, NoBuf
  <2>1. /\ buf[q].id # None => q \in cc
        /\ buf[q].id = None => buf[q] = NoBuf /\ rpc[q] = "idle"
    BY DEF CalmInv, BufOK
  <2> QED BY <1>b, <1>n, <1>i, <2>1 DEF i
<1>3. SendersOK'
  <2> SUFFICES ASSUME NEW t \in Senders PROVE SidOK(t)'
    BY DEF SendersOK
  <2>1. SidOK(t) /\ sid[t] # i /\ (sid[t] # None => sid[t] \in Ids)
    BY <1>h, <1>i, LargeConstants DEF CalmInv, SendersOK, HandOK, i, LargeTypeOK, SenderTypeOK
  <2> QED BY <1>u, <1>v, <1>c, <2>1 DEF SidOK
<1>4. WaysOK'
  <2> SUFFICES ASSUME NEW q \in Readers, NEW k \in Unread(q) PROVE WayOK(q, k)'
    BY <1>v DEF WaysOK
  <2>1. WayOK(q, k) /\ (At(k).id # None => At(k).id \in Ids)
    BY UnreadIn DEF CalmInv, WaysOK
  <2>2. At(k).id # None => q \in conns'[At(k).id]
    BY <1>c, <1>w, <2>1 DEF WayOK
  <2>3. At(k).id # None => \A p \in Readers : buf'[p].id = At(k).id => p # q /\ rpc'[p] = "idle" /\ q \in buf'[p].mask
    <3> SUFFICES ASSUME At(k).id # None, NEW p \in Readers, buf'[p].id = At(k).id
                 PROVE  p # q /\ rpc'[p] = "idle" /\ q \in buf'[p].mask
      OBVIOUS
    <3>1. buf'[p] = buf[p] /\ p # q /\ rpc[p] = "idle" /\ q \in buf[p].mask
      BY <1>d, <2>1 DEF WayOK
    <3>2. rpc'[p] = "idle"
      <4>1. CASE p # r
        BY <1>b, <3>1, <4>1
      <4>2. CASE p = r
        <5>1. At(k).id = i
          BY <3>1, <4>2 DEF i
        <5>2. q \in conns'[i]
          BY <1>w, <5>1
        <5> QED BY <1>b, <4>2, <5>2
      <4> QED BY <4>1, <4>2
    <3> QED BY <3>1, <3>2
  <2> QED BY <1>u, <1>v, <2>1, <2>2, <2>3 DEF WayOK
<1>5. HandsOK'
  <2> SUFFICES ASSUME NEW q \in Readers, buf'[q].id # None PROVE HandOK(q)'
    BY DEF HandsOK, HandOK
  <2>1. buf'[q] = buf[q] /\ HandOK(q) /\ buf[q].id # None /\ buf[q].id \in Ids
    BY <1>d, LargeConstants DEF CalmInv, HandsOK, LargeTypeOK, RingTypeOK, BufRecords
  <2>2. rpc'[q] = "idle" => q \in conns'[buf[q].id]
    <3>1. CASE q = r
      BY <1>b, <1>i, <2>1, <3>1, <1>n DEF i
    <3>2. CASE q # r
      BY <1>b, <1>c, <1>g, <2>1, <3>2 DEF HandOK
    <3> QED BY <3>1, <3>2
  <2>3. \A p \in Readers : (buf'[p].id = buf[q].id /\ p # q) => rpc'[q] = "idle" /\ p \in buf[q].mask
    <3> SUFFICES ASSUME NEW p \in Readers, buf'[p].id = buf[q].id, p # q PROVE rpc'[q] = "idle" /\ p \in buf[q].mask
      OBVIOUS
    <3>1. buf[p].id = buf[q].id
      BY <1>d, <2>1
    <3>2. rpc[q] = "idle" /\ p \in buf[q].mask
      BY <2>1, <3>1 DEF HandOK
    <3>3. CASE q # r
      BY <1>b, <3>2, <3>3
    <3>4. CASE q = r
      <4>1. p \in conns'[i]
        BY <1>g, <3>1, <3>4 DEF i
      <4> QED BY <1>b, <3>2, <3>4, <4>1
    <3> QED BY <3>3, <3>4
  <2> QED BY <1>u, <1>v, <2>1, <2>2, <2>3 DEF HandOK
<1>6. AllKept'
  <2> SUFFICES ASSUME whole, NEW j \in Ids PROVE KeptOK(j)'
    BY <1>u DEF AllKept
  <2>1. KeptOK(j) /\ conns[j] \subseteq Readers /\ j # None
    BY LargeConstants DEF CalmInv, AllKept, LargeTypeOK, PoolTypeOK
  <2>2. \A q \in Readers : (q # r \/ j # i \/ conns'[i] = {}) => (Claim(q, j)' <=> Claim(q, j))
    <3> SUFFICES ASSUME NEW q \in Readers, q # r \/ j # i \/ conns'[i] = {}
                 PROVE  Claim(q, j)' <=> Claim(q, j)
      OBVIOUS
    <3>1. buf'[q].id = j <=> buf[q].id = j
      BY <1>b, <1>n, <2>1 DEF i
    <3> QED BY <1>v, <3>1 DEF Claim
  <2>3. CASE j # i
    BY <1>u, <1>v, <1>c, <2>1, <2>2, <2>3 DEF KeptOK
  <2>4. CASE j = i /\ conns'[i] = {}
    BY <1>u, <1>v, <2>1, <2>2, <2>4 DEF KeptOK
  <2>5. CASE j = i /\ conns'[i] # {}
    <3>1. \A q \in conns'[j] : q \in Readers /\ q # r /\ Claim(q, j)'
      <4> SUFFICES ASSUME NEW q \in conns'[j] PROVE q \in Readers /\ q # r /\ Claim(q, j)'
        OBVIOUS
      <4>1. q \in conns[i] /\ q \in buf[r].mask /\ q \in Readers /\ q # r
        BY <1>c, <1>h, <1>i, <2>1, <2>5 DEF HandOK, i
      <4>2. Claim(r, j)
        BY <2>5 DEF Claim, i
      <4>3. Claim(q, j)
        BY <2>1, <2>5, <4>1, <4>2 DEF KeptOK
      <4> QED BY <2>2, <2>5, <4>1, <4>3
    <3> QED BY <2>5, <3>1 DEF KeptOK
  <2> QED BY <2>3, <2>4, <2>5
<1> QED BY <1>v, <1>2, <1>3, <1>4, <1>5, <1>6 DEF CalmInv

\* The last owner's chunk goes back to the list.
LEMMA RecycleKeeps ==
  ASSUME LargeTypeOK, CalmInv, NEW r \in Readers, Recycle(r)
  PROVE  CalmInv'
<1> DEFINE i == buf[r].id
<1>1. /\ rpc[r] = "release" /\ GiveBack(i)
      /\ rpc' = [rpc EXCEPT ![r] = "idle"] /\ buf' = [buf EXCEPT ![r] = NoBuf]
  BY DEF Recycle
<1>u. UNCHANGED <<conns, content, cc, elem, wt, epoch, spc, sid, sconns, smsg, cursor, whole>>
  BY DEF Recycle, chunk, ring, sender, aux
<1>i. i # None /\ i \in Ids
  <2>1. i # None /\ i \in 0 .. Chunks
    BY <1>1 DEF CalmInv, BufOK, LargeTypeOK, RingTypeOK, BufRecords
  <2> QED BY <2>1, LargeConstants
<1>h. HandOK(r)
  BY DEF CalmInv, HandsOK
<1>b. /\ \A q \in Readers : q # r => buf'[q] = buf[q] /\ rpc'[q] = rpc[q]
      /\ buf'[r] = NoBuf /\ rpc'[r] = "idle"
  BY <1>1 DEF LargeTypeOK, RingTypeOK
<1>n. NoBuf.id = None
  BY DEF NoBuf
<1>f. ListOK' /\ Free' = Free \cup {i}
  <2>1. i \notin Free
    BY <1>h, <1>i DEF HandOK
  <2> QED BY <1>1, <1>i, <2>1, ListGiven DEF CalmInv, LargeTypeOK, PoolTypeOK
<1>v. /\ \A q : Unread(q)' = Unread(q)
      /\ \A k : At(k)' = At(k)
      /\ Quiet' /\ Window'
  BY <1>u, SameView DEF CalmInv
<1> HIDE DEF i
<1>w. \A q \in Readers : \A k \in Unread(q) : At(k).id # i
  BY <1>1, <1>i DEF CalmInv, WaysOK, WayOK, i
<1>g. \A q \in Readers : q # r => buf[q].id # i
  BY <1>1, <1>h, <1>i DEF HandOK, i
<1>d. \A q \in Readers : buf'[q].id # None => q # r /\ buf'[q] = buf[q] /\ rpc'[q] = rpc[q] /\ buf[q].id # i
  BY <1>b, <1>n, <1>g
<1>2. BufOK'
  <2> SUFFICES ASSUME NEW q \in Readers
               PROVE  /\ buf'[q].id # None => q \in cc
                      /\ buf'[q].id = None => buf'[q] = NoBuf /\ rpc'[q] = "idle"
    BY <1>u DEF BufOK, NoBuf
  <2> QED BY <1>b, <1>n DEF CalmInv, BufOK
<1>3. SendersOK'
  <2> SUFFICES ASSUME NEW t \in Senders PROVE SidOK(t)'
    BY DEF SendersOK
  <2>1. SidOK(t) /\ sid[t] # i
    BY <1>h, <1>i DEF CalmInv, SendersOK, HandOK, i
  <2> QED BY <1>u, <1>f, <2>1 DEF SidOK
<1>4. WaysOK'
  <2> SUFFICES ASSUME NEW q \in Readers, NEW k \in Unread(q) PROVE WayOK(q, k)'
    BY <1>v DEF WaysOK
  <2>1. WayOK(q, k) /\ At(k).id # i
    BY <1>w DEF CalmInv, WaysOK
  <2>2. At(k).id # None => \A p \in Readers : buf'[p].id = At(k).id => p # q /\ rpc'[p] = "idle" /\ q \in buf'[p].mask
    BY <1>d, <2>1 DEF WayOK
  <2> QED BY <1>u, <1>v, <1>f, <2>1, <2>2 DEF WayOK
<1>5. HandsOK'
  <2> SUFFICES ASSUME NEW q \in Readers, buf'[q].id # None PROVE HandOK(q)'
    BY DEF HandsOK, HandOK
  <2>1. buf'[q] = buf[q] /\ rpc'[q] = rpc[q] /\ HandOK(q) /\ buf[q].id # None /\ buf[q].id # i
    BY <1>d DEF CalmInv, HandsOK
  <2>3. \A p \in Readers : (buf'[p].id = buf[q].id /\ p # q) => rpc'[q] = "idle" /\ p \in buf[q].mask
    BY <1>d, <2>1 DEF HandOK
  <2> QED BY <1>u, <1>f, <2>1, <2>3 DEF HandOK
<1>6. AllKept'
  <2> SUFFICES ASSUME whole, NEW j \in Ids PROVE KeptOK(j)'
    BY <1>u DEF AllKept
  <2>1. KeptOK(j) /\ conns[j] \subseteq Readers /\ j # None
    BY LargeConstants DEF CalmInv, AllKept, LargeTypeOK, PoolTypeOK
  <2>2. CASE j # i
    <3>1. \A q \in Readers : Claim(q, j)' <=> Claim(q, j)
      <4> SUFFICES ASSUME NEW q \in Readers PROVE Claim(q, j)' <=> Claim(q, j)
        OBVIOUS
      <4>1. buf'[q].id = j <=> buf[q].id = j
        BY <1>b, <1>n, <2>1, <2>2 DEF i
      <4> QED BY <1>v, <4>1 DEF Claim
    <3> QED BY <1>u, <1>f, <2>1, <2>2, <3>1 DEF KeptOK
  <2>3. CASE j = i
    <3>1. \A q \in Readers : ~Claim(q, j)'
      BY <1>d, <1>v, <1>w, <1>i, <2>3 DEF Claim
    <3> QED BY <1>f, <2>3, <3>1 DEF KeptOK
  <2> QED BY <2>2, <2>3
<1> QED BY <1>v, <1>f, <1>2, <1>3, <1>4, <1>5, <1>6 DEF CalmInv

\* Every step keeps LargeInv; a force_push, a receiver that connects during a
\* send and one that leaves with a buffer end the calm.
THEOREM LargeInvariance == LargeSpec => []LargeInv
<1>1. LargeInit => LargeInv
  <2> SUFFICES ASSUME LargeInit PROVE LargeInv
    OBVIOUS
  <2>c. /\ Chunks \in Nat /\ N \in Nat \ {0} /\ None = Chunks /\ Ids = 0 .. Chunks - 1
        /\ None \in 0 .. Chunks /\ \A i \in Ids : i # None
    BY LargeConstants DEF None, Ids
  <2>1. NoElem \in ElemRecords /\ NoBuf \in BufRecords
    BY <2>c DEF NoElem, NoBuf, ElemRecords, BufRecords
  <2>2. PoolTypeOK
    BY <2>c DEF LargeInit, PoolTypeOK
  <2>3. RingTypeOK
    BY <2>c, <2>1 DEF LargeInit, RingTypeOK
  <2>4. SenderTypeOK
    BY <2>c DEF LargeInit, SenderTypeOK
  <2> DEFINE l == [k \in 0 .. Chunks |-> k]
  <2>5. Chained(first, next, Chunks, l)
    <3>1. \A k \in 0 .. Chunks - 1 : l[k] \in Ids /\ l[k + 1] = next[l[k]]
      BY <2>c DEF LargeInit
    <3> QED BY <2>c, <3>1 DEF LargeInit, Chained
  <2>6. Free = Ids
    <3>1. Free = Walk(first, next)
      BY DEF Free, Walk
    <3>2. \A k \in 0 .. Chunks - 1 : l[k] = k
      BY <2>c
    <3> HIDE DEF l
    <3>3. Free = {l[k] : k \in 0 .. Chunks - 1}
      BY <2>5, <3>1, WalkIsList
    <3> QED BY <2>c, <3>2, <3>3
  <2>7. \A r : Unread(r) = {}
    BY DEF LargeInit, Unread
  <2>8. Quiet /\ Window /\ BufOK /\ ListOK
    <3>1. Quiet
      BY DEF LargeInit, Quiet, NoElem
    <3>2. Window /\ BufOK /\ ListOK
      BY <2>5 DEF LargeInit, Window, BufOK, ListOK, NoBuf
    <3> QED BY <3>1, <3>2
  <2>9. SendersOK /\ WaysOK /\ HandsOK
    BY <2>7 DEF LargeInit, SendersOK, SidOK, WaysOK, HandsOK, HandOK, NoBuf
  <2>10. AllKept
    BY <2>c, <2>6, <2>7 DEF LargeInit, AllKept, KeptOK, Claim, NoBuf
  <2> QED BY <2>2, <2>3, <2>4, <2>8, <2>9, <2>10 DEF LargeInv, LargeTypeOK, CalmInv
<1>2. LargeInv /\ [LargeNext]_largeVars => LargeInv'
  <2> SUFFICES ASSUME LargeInv, [LargeNext]_largeVars PROVE LargeInv'
    OBVIOUS
  <2>0. CASE UNCHANGED largeVars
    <3>1. UNCHANGED <<next, first, conns, content, cc, elem, wt, epoch, sent, spc, sconns, sid, smsg, cursor, buf, rpc, left, calm, whole>>
      BY <2>0 DEF largeVars, pool, chunk, ring, sender, reader, aux
    <3>2. LargeTypeOK'
      BY <3>1 DEF LargeInv, LargeTypeOK, PoolTypeOK, RingTypeOK, SenderTypeOK
    <3>3. ASSUME CalmInv PROVE CalmInv'
      <4>1. /\ \A r : Unread(r)' = Unread(r)
            /\ \A k : At(k)' = At(k)
            /\ \A r, i : Claim(r, i)' <=> Claim(r, i)
            /\ Quiet' /\ Window' /\ ListOK' /\ BufOK' /\ Free' = Free
        BY <3>1, <3>3, SameView DEF CalmInv, ListOK, BufOK, Free
      <4>2. SendersOK'
        BY <3>1, <3>3, <4>1 DEF CalmInv, SendersOK, SidOK
      <4>3. WaysOK'
        BY <3>1, <3>3, <4>1 DEF CalmInv, WaysOK, WayOK
      <4>4. HandsOK'
        BY <3>1, <3>3, <4>1 DEF CalmInv, HandsOK, HandOK
      <4>5. AllKept'
        BY <3>1, <3>3, <4>1 DEF CalmInv, AllKept, KeptOK
      <4> QED BY <4>1, <4>2, <4>3, <4>4, <4>5 DEF CalmInv
    <3> QED BY <3>1, <3>2, <3>3 DEF LargeInv
  <2>1. CASE LargeNext
    <3>t. LargeTypeOK /\ LargeTypeOK'
      BY <2>1, LargeTypes DEF LargeInv
    <3> SUFFICES ASSUME calm' PROVE CalmInv'
      BY <3>t DEF LargeInv
    <3>1. ASSUME NEW s \in Senders, Sending(s) PROVE CalmInv'
      <4>1. ~ForcePush(s)
        BY DEF ForcePush
      <4>2. calm' = calm
        BY <3>1, <4>1 DEF Sending, Send, AcquireStorage, PoolEmpty, FillChunk, Push, TimeOut, TrySendFails, aux
      <4>3. CalmInv
        BY <4>2 DEF LargeInv
      <4> QED BY <3>t, <3>1, <4>1, <4>3, SendKeeps, AcquireKeeps, StepKeeps, FillKeeps, PushKeeps, FailsKeeps
           DEF Sending
    <3>2. ASSUME NEW r \in Readers, Receiving(r) PROVE CalmInv'
      <4>1. calm
        BY <3>2 DEF Receiving, Connect, Disconnect, RecvChunk, RecvOther, Pop, SubRc, Recycle, aux
      <4>2. CalmInv
        BY <4>1 DEF LargeInv
      <4> QED BY <3>t, <3>2, <4>2, ConnectKeeps, DisconnectKeeps, RecvChunkKeeps, RecvOtherKeeps, SubRcKeeps, RecycleKeeps
           DEF Receiving
    <3> QED BY <2>1, <3>1, <3>2 DEF LargeNext
  <2> QED BY <2>0, <2>1
<1> QED BY <1>1, <1>2, PTL DEF LargeSpec

\* The buffer recv returned keeps what was sent, for any number of chunks,
\* slots, senders and receivers, until somebody ends the calm.
THEOREM LargeBufferStable == LargeSpec => []BufferStable
<1>1. LargeInv => BufferStable
  <2> SUFFICES ASSUME LargeInv, NEW r \in Readers, calm, buf[r] # NoBuf
               PROVE  content[buf[r].id] = buf[r].msg
    BY DEF BufferStable
  <2>1. BufOK /\ HandOK(r)
    BY DEF LargeInv, CalmInv, HandsOK
  <2> QED BY <2>1 DEF BufOK, HandOK
<1> QED BY <1>1, LargeInvariance, PTL

\* A chunk is never on the free list while somebody writes, carries or reads
\* it, and every chunk comes back to it.
THEOREM LargeNoLeak == LargeSpec => []NoLeak
<1>1. LargeInv => NoLeak
  <2> SUFFICES ASSUME LargeInv, calm
               PROVE  Free \cap Used = {} /\ (whole /\ Used = {} => Cardinality(Free) = Chunks)
    BY DEF NoLeak
  <2>c. LargeTypeOK /\ CalmInv
    BY DEF LargeInv
  <2>1. \A i : i \in Used <=> (i # None /\ ((\E s \in Senders : sid[s] = i) \/ (\E r \in Readers : Claim(r, i))))
    BY DEF Used, Claim, At
  <2>2. ASSUME NEW i \in Free, i \in Used PROVE FALSE
    <3>1. CASE \E s \in Senders : sid[s] = i
      BY <2>c, <2>1, <2>2, <3>1 DEF CalmInv, SendersOK, SidOK
    <3>2. ASSUME NEW r \in Readers, Claim(r, i) PROVE FALSE
      BY <2>c, <2>1, <2>2, <3>2 DEF CalmInv, WaysOK, WayOK, HandsOK, HandOK, Claim
    <3> QED BY <2>1, <2>2, <3>1, <3>2
  <2>3. ASSUME whole, Used = {} PROVE Cardinality(Free) = Chunks
    <3>1. Free \subseteq Ids
      <4>1. PICK n, l : Chained(first, next, n, l)
        BY <2>c DEF CalmInv, ListOK
      <4>2. Free = Walk(first, next)
        BY DEF Free, Walk
      <4>3. Free = {l[k] : k \in 0 .. n - 1}
        BY <4>1, <4>2, WalkIsList
      <4> QED BY <4>1, <4>3 DEF Chained
    <3>2. ASSUME NEW i \in Ids PROVE i \in Free
      <4>1. KeptOK(i) /\ i # None /\ i \notin Used
        BY <2>c, <2>3, LargeConstants DEF CalmInv, AllKept
      <4> QED BY <2>1, <4>1 DEF KeptOK
    <3>3. Free = Ids
      BY <3>1, <3>2
    <3>4. Chunks \in Nat /\ Chunks - 1 \in Int /\ 0 \in Int
      BY LargeConstants
    <3>5. Cardinality(0 .. Chunks - 1) = IF 0 > Chunks - 1 THEN 0 ELSE Chunks - 1 - 0 + 1
      BY <3>4, FS_Interval
    <3>6. Cardinality(0 .. Chunks - 1) = Chunks
      BY <3>4, <3>5
    <3> QED BY <3>3, <3>6 DEF Ids
  <2> QED BY <2>2, <2>3
<1> QED BY <1>1, LargeInvariance, PTL

-----------------------------------------------------------------------------
(* Memory resources: rounding. *)

\* round_up is the least multiple of the alignment that is not below.
LEMMA RoundUp ==
  ASSUME NEW v \in Nat, NEW a \in Nat \ {0}
  PROVE  /\ round_up(v, a) \in Nat /\ v <= round_up(v, a) /\ round_up(v, a) < v + a
         /\ \E q \in Nat : round_up(v, a) = a * q
         /\ round_up(v, a) % a = 0
         /\ \A q \in Nat : v <= a * q => round_up(v, a) <= a * q
<1> DEFINE w == v + a - 1
           d == w \div a
           m == w % a
<1>1. w \in Nat
  OBVIOUS
<1>2. m \in Nat /\ m < a /\ d \in Nat /\ w = a * d + m
  BY <1>1, DivMod
<1> HIDE DEF d, m
<1>3. round_up(v, a) = a * d
  <2>1. round_up(v, a) = d * a
    BY DEF round_up, d
  <2> QED BY <1>2, <2>1, Z3
<1>4. a * d \in Nat
  BY <1>2, Z3
<1>5. v <= a * d /\ a * d < v + a
  BY <1>2, <1>4, SMT
<1>6. (a * d) % a = 0
  <2>1. (0 + a * d) % a = 0 % a
    BY <1>2, RoundsApart
  <2>2. 0 % a = 0
    BY Small
  <2>3. 0 + a * d = a * d
    BY <1>4
  <2> QED BY <2>1, <2>2, <2>3
<1>7. ASSUME NEW q \in Nat, v <= a * q PROVE a * d <= a * q
  <2> SUFFICES ASSUME a * q < a * d PROVE FALSE
    BY <1>4, <1>7, SMT
  <2>1. a * q \in Nat
    BY Z3
  <2>2. d - q >= 1
    <3> SUFFICES ASSUME d <= q PROVE FALSE
      BY <1>2, SMT
    <3>1. a * d <= a * q
      BY <1>2, Z3
    <3> QED BY <1>4, <2>1, <3>1, SMT
  <2>3. a * (d - q) >= a
    BY <1>2, <2>2, Z3
  <2>4. a * (d - q) = a * d - a * q
    BY <1>2, Z3
  <2>5. a * d - a * q >= a
    BY <2>3, <2>4
  <2> QED BY <1>4, <1>5, <1>7, <2>1, <2>5, SMT
<1> QED BY <1>2, <1>3, <1>4, <1>5, <1>6, <1>7

\* What is divisible is a multiple.
LEMMA Multiple ==
  ASSUME NEW v \in Nat, NEW a \in Nat \ {0}, v % a = 0
  PROVE  \E q \in Nat : v = a * q
<1>1. v \div a \in Nat /\ v = a * (v \div a) + (v % a)
  BY DivMod
<1>2. a * (v \div a) \in Nat
  BY <1>1, Z3
<1> QED BY <1>1, <1>2

\* A chunk aligned to MaxAlign has room for the padding that make_node asks for.
LEMMA PaddingFits ==
  ASSUME NEW x \in Nat, NEW al \in Alignments, x % MaxAlign = 0
  PROVE  round_up(x + NodeSize, al) <= x + round_up(NodeSize, al)
<1>c. /\ MaxAlign \in Nat \ {0} /\ NodeSize \in Nat /\ NodeSize <= MaxAlign /\ 0 < NodeSize
      /\ al \in Nat \ {0} /\ (al % MaxAlign = 0 \/ MaxAlign % al = 0) /\ x + NodeSize \in Nat
  BY ResourcesAssumption
<1>1. PICK m \in Nat : x = MaxAlign * m
  BY <1>c, Multiple
<1>2. /\ round_up(NodeSize, al) \in Nat /\ NodeSize <= round_up(NodeSize, al)
      /\ \E q \in Nat : round_up(NodeSize, al) = al * q
  BY <1>c, RoundUp
<1>3. /\ round_up(x + NodeSize, al) \in Nat /\ round_up(x + NodeSize, al) < x + NodeSize + al
      /\ \E q \in Nat : round_up(x + NodeSize, al) = al * q
      /\ \A q \in Nat : x + NodeSize <= al * q => round_up(x + NodeSize, al) <= al * q
  BY <1>c, RoundUp
<1>4. PICK p \in Nat : round_up(NodeSize, al) = al * p
  BY <1>2
<1>5. CASE MaxAlign % al = 0
  <2>1. PICK k \in Nat : MaxAlign = al * k
    BY <1>c, <1>5, Multiple
  <2>2. k * m \in Nat /\ k * m + p \in Nat
    BY Z3
  <2>3. x = al * (k * m)
    BY <1>c, <1>1, <2>1, Z3
  <2>4. al * (k * m + p) = al * (k * m) + al * p
    BY <1>c, <2>2, Z3
  <2>5. al * (k * m + p) = x + round_up(NodeSize, al)
    BY <1>4, <2>3, <2>4
  <2>6. x + NodeSize <= al * (k * m + p)
    BY <1>c, <1>2, <2>5
  <2> QED BY <1>3, <2>2, <2>5, <2>6
<1>6. CASE al % MaxAlign = 0
  <2>1. PICK k \in Nat : al = MaxAlign * k
    BY <1>c, <1>6, Multiple
  <2>2. PICK q \in Nat : round_up(x + NodeSize, al) = al * q
    BY <1>3
  <2>3. k * q \in Nat /\ m + k \in Nat /\ m + k + 1 \in Nat
    BY Z3
  <2>4. round_up(x + NodeSize, al) = MaxAlign * (k * q)
    BY <1>c, <2>1, <2>2, Z3
  <2>5. MaxAlign * (m + k) = x + al /\ MaxAlign * (m + k + 1) = x + al + MaxAlign
    BY <1>c, <1>1, <2>1, Z3
  <2>6. al <= round_up(NodeSize, al)
    <3>1. p # 0
      BY <1>c, <1>2, <1>4, Z3
    <3> QED BY <1>c, <1>4, <3>1, Z3
  <2>7. MaxAlign * (k * q) < MaxAlign * (m + k + 1)
    BY <1>c, <1>3, <2>4, <2>5
  <2>8. k * q <= m + k
    BY <1>c, <2>3, <2>7, Z3
  <2>9. MaxAlign * (k * q) <= MaxAlign * (m + k)
    BY <1>c, <2>3, <2>8, Z3
  <2> QED BY <1>c, <1>2, <1>3, <2>4, <2>5, <2>6, <2>9
<1> QED BY <1>c, <1>5, <1>6

-----------------------------------------------------------------------------
(* Memory resources: the pieces. *)

ChunkRecords == [addr : Nat, size : Nat]
ResTypeOK ==
  /\ res \in [head : Nat, tail : Nat, next_size : Nat, initial_buffer : Nat, initial_size : Nat,
              free_list : SUBSET ChunkRecords]
  /\ upstream \subseteq ChunkRecords /\ brk \in Nat
  /\ live \subseteq [p : Nat, bytes : Nat \ {0}, alignment : Nat \ {0}]

\* From lo to hi is in the initial buffer or in a chunk, off its node.
Lies(lo, hi) ==
  \/ res.initial_buffer # Null /\ res.initial_buffer <= lo /\ hi <= res.initial_buffer + res.initial_size
  \/ \E c \in upstream : c.addr + NodeSize <= lo /\ hi <= c.addr + c.size

\* Everything is below brk, where the next chunk comes from.
Below ==
  /\ Heap <= brk /\ res.head <= res.tail /\ res.tail <= brk
  /\ res.initial_buffer # Null => res.initial_buffer + res.initial_size <= Heap
  /\ \A x \in live : x.p + x.bytes <= brk

\* A piece is aligned and in place, before what is left or after it, and
\* before every other piece or after it.
PieceOK(x) ==
  /\ x.p % x.alignment = 0 /\ Lies(x.p, x.p + x.bytes)
  /\ x.p + x.bytes <= res.head \/ res.tail <= x.p
  /\ \A y \in live : x # y => x.p + x.bytes <= y.p \/ y.p + y.bytes <= x.p

ResInv ==
  /\ ResTypeOK /\ Below /\ ~ran /\ upstream = res.free_list
  /\ \A x \in live : PieceOK(x)
  /\ res.head # res.tail => Lies(res.head, res.tail)

\* The larger of two sizes.
LEMMA MaxOfTwo ==
  ASSUME NEW a \in Nat, NEW b \in Nat
  PROVE  Max({a, b}) \in Nat /\ a <= Max({a, b}) /\ b <= Max({a, b})
<1>1. \E x \in {a, b} : \A y \in {a, b} : x >= y
  <2>1. CASE a >= b
    BY <2>1
  <2>2. CASE b >= a
    BY <2>2
  <2> QED BY <2>1, <2>2
<1>2. Max({a, b}) \in {a, b} /\ \A y \in {a, b} : Max({a, b}) >= y
  BY <1>1 DEF Max
<1> QED BY <1>2

\* What Reset leaves: the whole buffer to hand out.
LEMMA ResetLeaves ==
  ASSUME NEW b \in Nat, NEW s \in Nat
  PROVE  LET r == Reset(b, s) IN
         /\ r \in [head : Nat, tail : Nat, next_size : Nat, initial_buffer : Nat, initial_size : Nat,
                   free_list : SUBSET ChunkRecords]
         /\ r.head = b /\ r.tail = (IF b = Null THEN Null ELSE b + s) /\ r.initial_buffer = b
         /\ r.initial_size = s /\ r.free_list = {}
<1>1. next_buffer_size(s) \in Nat
  <2>1. s * 3 \in Nat /\ 2 \in Nat \ {0}
    OBVIOUS
  <2> QED BY <2>1, DivMod DEF next_buffer_size
<1> QED BY <1>1 DEF Reset, Null

\* A resource as constructed has handed out nothing.
LEMMA ResetFits ==
  ASSUME NEW b \in Nat, NEW s \in Nat, b # Null => b + s <= Heap,
         res = Reset(b, s), upstream = {}, brk = Heap, live = {}, ran = FALSE
  PROVE  ResInv
<1>2. /\ res.head = b /\ res.tail = (IF b = Null THEN Null ELSE b + s) /\ res.initial_buffer = b
      /\ res.initial_size = s /\ res.free_list = {}
      /\ res \in [head : Nat, tail : Nat, next_size : Nat, initial_buffer : Nat, initial_size : Nat,
                  free_list : SUBSET ChunkRecords]
  BY ResetLeaves
<1>3. Heap \in Nat
  BY DEF Heap
<1>4. ResTypeOK /\ Below
  BY <1>2, <1>3 DEF ResTypeOK, Below, Null
<1>5. res.head # res.tail => Lies(res.head, res.tail)
  BY <1>2 DEF Lies
<1> QED BY <1>2, <1>4, <1>5 DEF ResInv

\* The piece comes from what is left.
LEMMA HereFits ==
  ASSUME ResInv, NEW b \in Requests, NEW a \in Alignments, allocate_here(b, a)
  PROVE  ResInv'
<1> DEFINE p == round_up(res.head, a)
           new == [p |-> p, bytes |-> b, alignment |-> a]
<1>t. /\ res \in [head : Nat, tail : Nat, next_size : Nat, initial_buffer : Nat, initial_size : Nat,
                  free_list : SUBSET ChunkRecords]
      /\ a \in Nat \ {0} /\ b \in Nat /\ NodeSize \in Nat /\ brk \in Nat
      /\ upstream \subseteq ChunkRecords
  BY ResourcesAssumption DEF ResInv, ResTypeOK
<1>h. res.head \in Nat /\ res.tail \in Nat /\ res.initial_buffer \in Nat /\ res.initial_size \in Nat
  BY <1>t
<1>p. p \in Nat /\ res.head <= p /\ p % a = 0
  BY <1>t, <1>h, RoundUp
<1>1. /\ p - res.head + b <= res.tail - res.head /\ b > 0
      /\ res' = [res EXCEPT !.head = p + b] /\ live' = live \cup {new}
      /\ upstream' = upstream /\ brk' = brk /\ ran' = ran
  BY <1>t, <1>h, <1>p DEF allocate_here, align, verify_args, Null
<1> HIDE DEF p
<1>2. p + b <= res.tail /\ res.head # res.tail
  BY <1>t, <1>h, <1>p, <1>1
<1>3. /\ res'.head = p + b /\ res'.tail = res.tail /\ res'.initial_buffer = res.initial_buffer
      /\ res'.initial_size = res.initial_size /\ res'.free_list = res.free_list
      /\ res' \in [head : Nat, tail : Nat, next_size : Nat, initial_buffer : Nat, initial_size : Nat,
                   free_list : SUBSET ChunkRecords]
  BY <1>t, <1>p, <1>1
<1>n. /\ new \in [p : Nat, bytes : Nat \ {0}, alignment : Nat \ {0}]
      /\ new.p = p /\ new.bytes = b /\ new.alignment = a
  BY <1>t, <1>p, <1>1
<1> HIDE DEF new
<1>v. \A lo, hi : Lies(lo, hi)' <=> Lies(lo, hi)
  BY <1>1, <1>3 DEF Lies
<1>l. \A x \in live : x.p \in Nat /\ x.bytes \in Nat
  BY DEF ResInv, ResTypeOK
<1>4. ResTypeOK'
  BY <1>1, <1>3, <1>n DEF ResInv, ResTypeOK
<1>5. Below'
  BY <1>t, <1>h, <1>p, <1>1, <1>2, <1>3, <1>n DEF ResInv, Below
<1>6. Lies(res.head, res.tail)
  BY <1>2 DEF ResInv
<1>7. Lies(p, p + b) /\ Lies(p + b, res.tail)
  <2>1. CASE res.initial_buffer # Null /\ res.initial_buffer <= res.head /\ res.tail <= res.initial_buffer + res.initial_size
    BY <1>t, <1>h, <1>p, <1>2, <2>1 DEF Lies
  <2>2. ASSUME NEW c \in upstream, c.addr + NodeSize <= res.head /\ res.tail <= c.addr + c.size
        PROVE  Lies(p, p + b) /\ Lies(p + b, res.tail)
    <3>1. c.addr \in Nat /\ c.size \in Nat
      BY <1>t DEF ChunkRecords
    <3>2. c.addr + NodeSize <= p /\ p + b <= c.addr + c.size /\ c.addr + NodeSize <= p + b
      BY <1>t, <1>h, <1>p, <1>2, <2>2, <3>1
    <3> QED BY <2>2, <3>2 DEF Lies
  <2> QED BY <1>6, <2>1, <2>2 DEF Lies
<1>8. ASSUME NEW x \in live' PROVE PieceOK(x)'
  <2>0. \A y \in live : y.p + y.bytes <= res.head \/ res.tail <= y.p
    BY DEF ResInv, PieceOK
  <2>1. CASE x = new
    <3>1. \A y \in live : new.p + new.bytes <= y.p \/ y.p + y.bytes <= new.p
      BY <1>t, <1>h, <1>p, <1>2, <1>n, <1>l, <2>0
    <3>2. new.p % new.alignment = 0 /\ Lies(new.p, new.p + new.bytes)
      BY <1>p, <1>n, <1>7
    <3>3. new.p + new.bytes <= p + b
      BY <1>t, <1>p, <1>n
    <3> QED BY <1>1, <1>3, <1>v, <2>1, <3>1, <3>2, <3>3 DEF PieceOK
  <2>2. CASE x \in live
    <3>0. PieceOK(x)
      BY <2>2 DEF ResInv
    <3>1. x.p + x.bytes <= new.p \/ new.p + new.bytes <= x.p
      BY <1>t, <1>h, <1>p, <1>2, <1>n, <1>l, <2>0, <2>2
    <3>2. x.p + x.bytes <= p + b \/ res.tail <= x.p
      BY <1>t, <1>h, <1>p, <1>l, <2>0, <2>2
    <3>3. \A y \in live : x # y => x.p + x.bytes <= y.p \/ y.p + y.bytes <= x.p
      BY <3>0 DEF PieceOK
    <3>4. x.p % x.alignment = 0 /\ Lies(x.p, x.p + x.bytes)
      BY <3>0 DEF PieceOK
    <3> QED BY <1>1, <1>3, <1>v, <3>1, <3>2, <3>3, <3>4 DEF PieceOK
  <2> QED BY <1>1, <2>1, <2>2
<1> QED BY <1>1, <1>3, <1>v, <1>4, <1>5, <1>7, <1>8 DEF ResInv

\* The piece comes from a new chunk, which has room for it.
LEMMA FromChunk ==
  ASSUME ResInv, NEW b \in Requests, NEW a \in Alignments, allocate_chunk(b, a)
  PROVE  ResInv'
<1> DEFINE size == Max({res.next_size, b})
           total == round_up(NodeSize, a) + size
<1>t. /\ res \in [head : Nat, tail : Nat, next_size : Nat, initial_buffer : Nat, initial_size : Nat,
                  free_list : SUBSET ChunkRecords]
      /\ a \in Nat \ {0} /\ b \in Nat /\ NodeSize \in Nat /\ 0 < NodeSize /\ brk \in Nat
      /\ upstream \subseteq ChunkRecords /\ MaxAlign \in Nat \ {0}
  BY ResourcesAssumption DEF ResInv, ResTypeOK
<1>h. res.head \in Nat /\ res.tail \in Nat /\ res.next_size \in Nat
  BY <1>t
<1>s. size \in Nat /\ b <= size
  BY <1>t, <1>h, MaxOfTwo
<1> HIDE DEF size
<1>r. round_up(NodeSize, a) \in Nat /\ NodeSize <= round_up(NodeSize, a) /\ total \in Nat
  <2>1. round_up(NodeSize, a) \in Nat /\ NodeSize <= round_up(NodeSize, a)
    BY <1>t, RoundUp
  <2> QED BY <1>s, <2>1
<1>1. PICK nd \in Fresh(total) :
        LET room == nd.size - NodeSize
            p    == align(a, b, nd.addr + NodeSize, room)
            more == [res EXCEPT !.next_size = next_buffer_size(size), !.free_list = @ \cup {nd}]
        IN /\ upstream' = upstream \cup {nd}
           /\ brk' = nd.addr + nd.size
           /\ IF p = Null
                THEN ran' = TRUE /\ res' = more /\ UNCHANGED live
                ELSE /\ res' = [more EXCEPT !.tail = tail_after(p, room, nd), !.head = p + b]
                     /\ live' = live \cup {[p |-> p, bytes |-> b, alignment |-> a]}
                     /\ UNCHANGED ran
  BY DEF allocate_chunk, make_node, size
<1>b. b > 0
  BY DEF allocate_chunk, verify_args
<1>c. /\ nd.size = total /\ nd.addr \in Nat /\ brk <= nd.addr /\ nd.addr % MaxAlign = 0
      /\ nd \in ChunkRecords
  <2> DEFINE z == round_up(brk, MaxAlign)
  <2>1. z \in Nat /\ brk <= z /\ z % MaxAlign = 0
    BY <1>t, RoundUp
  <2>2. PICK i \in 0 .. 1 : nd = [addr |-> z + i * MaxAlign, size |-> total]
    BY <1>1 DEF Fresh
  <2> HIDE DEF z, total
  <2>3. nd.addr = z \/ nd.addr = z + MaxAlign
    <3>1. i = 0 \/ i = 1
      OBVIOUS
    <3>2. 0 * MaxAlign = 0 /\ 1 * MaxAlign = MaxAlign
      BY <1>t
    <3> QED BY <1>t, <2>1, <2>2, <3>1, <3>2
  <2>4. (z + MaxAlign) % MaxAlign = z % MaxAlign
    BY <1>t, <2>1, SameSlot
  <2>5. nd.addr \in Nat /\ brk <= nd.addr /\ nd.addr % MaxAlign = 0
    BY <1>t, <2>1, <2>3, <2>4
  <2>6. nd.size = total
    BY <2>2
  <2>7. nd \in ChunkRecords
    BY <1>r, <1>t, <2>1, <2>2, <2>5 DEF ChunkRecords
  <2> QED BY <2>5, <2>6, <2>7
<1> DEFINE lo == nd.addr + NodeSize
           end == nd.addr + nd.size
           p == round_up(lo, a)
           new == [p |-> p, bytes |-> b, alignment |-> a]
<1>p. p \in Nat /\ lo <= p /\ p % a = 0 /\ p <= nd.addr + round_up(NodeSize, a) /\ lo \in Nat
  <2>1. lo \in Nat
    BY <1>t, <1>c
  <2>2. p <= nd.addr + round_up(NodeSize, a)
    BY <1>c, PaddingFits
  <2> QED BY <1>t, <2>1, <2>2, RoundUp
<1>f. p + b <= end /\ p # Null /\ end \in Nat /\ nd.size - NodeSize >= p - lo + b
  BY <1>t, <1>s, <1>r, <1>c, <1>p DEF Null
<1>2. align(a, b, lo, nd.size - NodeSize) = p
  BY <1>t, <1>f DEF align
<1>n. next_buffer_size(size) \in Nat
  <2>1. size * 3 \in Nat /\ 2 \in Nat \ {0}
    BY <1>s
  <2> QED BY <2>1, DivMod DEF next_buffer_size
<1>3. /\ upstream' = upstream \cup {nd} /\ brk' = end /\ ran' = ran /\ live' = live \cup {new}
      /\ res' = [[res EXCEPT !.next_size = next_buffer_size(size), !.free_list = @ \cup {nd}]
                   EXCEPT !.tail = tail_after(p, nd.size - NodeSize, nd), !.head = p + b]
  <2> HIDE DEF p
  <2> QED BY <1>1, <1>2, <1>f
<1>e. tail_after(p, nd.size - NodeSize, nd) = end
  BY <1>t, <1>p, <1>c, <1>r DEF tail_after
<1> HIDE DEF p
<1>4. /\ res'.head = p + b /\ res'.tail = end /\ res'.initial_buffer = res.initial_buffer
      /\ res'.initial_size = res.initial_size /\ res'.free_list = res.free_list \cup {nd}
      /\ res' \in [head : Nat, tail : Nat, next_size : Nat, initial_buffer : Nat, initial_size : Nat,
                   free_list : SUBSET ChunkRecords]
  <2> HIDE DEF end
  <2>1. p + b \in Nat /\ end \in Nat
    BY <1>t, <1>p, <1>f
  <2> QED BY <1>t, <1>n, <1>c, <1>3, <1>e, <2>1
<1>m. /\ new \in [p : Nat, bytes : Nat \ {0}, alignment : Nat \ {0}]
      /\ new.p = p /\ new.bytes = b /\ new.alignment = a
  BY <1>t, <1>p, <1>b
<1> HIDE DEF new
<1>v. \A x, y : Lies(x, y) => Lies(x, y)'
  BY <1>3, <1>4 DEF Lies
<1>l. \A x \in live : x.p \in Nat /\ x.bytes \in Nat /\ x.p + x.bytes <= brk
  BY DEF ResInv, ResTypeOK, Below
<1>o. \A x \in live : x.p + x.bytes <= p + b /\ x.p + x.bytes <= p
  BY <1>t, <1>c, <1>p, <1>b, <1>l
<1>5. ResTypeOK'
  <2> HIDE DEF end
  <2> QED BY <1>3, <1>4, <1>m, <1>c, <1>f DEF ResInv, ResTypeOK
<1>6. Below'
  <2>1. \A x \in live : x.p + x.bytes <= end
    BY <1>t, <1>o, <1>l, <1>p, <1>f
  <2>2. Heap <= end
    <3>1. Heap <= brk /\ Heap \in Nat
      BY DEF ResInv, Below, Heap
    <3> QED BY <1>t, <1>c, <1>r, <3>1
  <2>3. res.initial_buffer # Null => res.initial_buffer + res.initial_size <= Heap
    BY DEF ResInv, Below
  <2> HIDE DEF end
  <2>4. end <= end
    BY <1>f
  <2> QED BY <1>3, <1>4, <1>f, <1>m, <2>1, <2>2, <2>3, <2>4 DEF Below
<1>7. \A x, y : (lo <= x /\ y <= end) => Lies(x, y)'
  BY <1>3 DEF Lies
<1>9. ASSUME NEW x \in live' PROVE PieceOK(x)'
  <2>1. CASE x = new
    <3>1. \A y \in live : y.p + y.bytes <= x.p
      BY <1>m, <1>o, <2>1
    <3>2. x.p % x.alignment = 0 /\ x.p + x.bytes = p + b /\ x.p = p
      BY <1>p, <1>m, <2>1
    <3>3. lo <= x.p /\ x.p + x.bytes <= end /\ x.p + x.bytes <= res'.head
      BY <1>p, <1>f, <1>4, <3>2, <1>t
    <3>4. Lies(x.p, x.p + x.bytes)'
      BY <1>7, <3>3
    <3> QED BY <1>3, <2>1, <3>1, <3>2, <3>3, <3>4 DEF PieceOK
  <2>2. CASE x \in live
    <3>0. PieceOK(x)
      BY <2>2 DEF ResInv
    <3>1. x.p + x.bytes <= new.p /\ x.p + x.bytes <= res'.head
      BY <1>m, <1>o, <1>4, <2>2
    <3>2. Lies(x.p, x.p + x.bytes)'
      BY <1>v, <3>0 DEF PieceOK
    <3> QED BY <1>3, <3>0, <3>1, <3>2 DEF PieceOK
  <2> QED BY <1>3, <2>1, <2>2
<1>10. (res.head # res.tail => Lies(res.head, res.tail))'
  <2>1. lo <= res'.head /\ res'.tail <= end /\ nd \in upstream'
    BY <1>t, <1>p, <1>3, <1>4, <1>f
  <2> QED BY <2>1 DEF Lies
<1> QED BY <1>3, <1>4, <1>5, <1>6, <1>9, <1>10 DEF ResInv

\* Upstream has no memory, or all of it goes back.
LEMMA RestFits ==
  ASSUME ResInv, (\E b \in Requests, a \in Alignments : allocate_fails(b, a)) \/ release_all
  PROVE  ResInv'
<1>t. res \in [head : Nat, tail : Nat, next_size : Nat, initial_buffer : Nat, initial_size : Nat,
              free_list : SUBSET ChunkRecords]
  BY DEF ResInv, ResTypeOK
<1>1. ASSUME NEW b \in Requests, NEW a \in Alignments, allocate_fails(b, a) PROVE ResInv'
  <2>1. Max({res.next_size, b}) \in Nat
    BY <1>t, MaxOfTwo, ResourcesAssumption
  <2>2. /\ res' = [res EXCEPT !.next_size = Max({res.next_size, b})]
        /\ UNCHANGED <<upstream, brk, live, ran>>
    BY <1>1 DEF allocate_fails
  <2>3. /\ res'.head = res.head /\ res'.tail = res.tail /\ res'.initial_buffer = res.initial_buffer
        /\ res'.initial_size = res.initial_size /\ res'.free_list = res.free_list
        /\ res' \in [head : Nat, tail : Nat, next_size : Nat, initial_buffer : Nat, initial_size : Nat,
                     free_list : SUBSET ChunkRecords]
    BY <1>t, <2>1, <2>2
  <2>4. ResTypeOK' /\ Below'
    BY <2>2, <2>3 DEF ResInv, ResTypeOK, Below
  <2>5. \A lo, hi : Lies(lo, hi)' <=> Lies(lo, hi)
    BY <2>2, <2>3 DEF Lies
  <2>6. \A x \in live' : PieceOK(x)'
    BY <2>2, <2>3, <2>5 DEF ResInv, PieceOK
  <2>7. (res.head # res.tail => Lies(res.head, res.tail))'
    BY <2>2, <2>3 DEF ResInv, Lies
  <2> QED BY <2>2, <2>3, <2>4, <2>6, <2>7 DEF ResInv
<1>2. CASE release_all
  <2>1. /\ res' = Reset(res.initial_buffer, res.initial_size) /\ upstream' = {}
        /\ live' = {} /\ brk' = Heap /\ ran' = FALSE
    BY <1>2 DEF release_all, ResInv, ResTypeOK
  <2>2. PICK b \in Nat, s \in Nat : b = res.initial_buffer /\ s = res.initial_size
    BY <1>t
  <2>3. b # Null => b + s <= Heap
    BY <2>2 DEF ResInv, Below
  <2>4. res' = Reset(b, s)
    BY <2>1, <2>2
  <2>5. /\ res'.head = b /\ res'.tail = (IF b = Null THEN Null ELSE b + s) /\ res'.initial_buffer = b
        /\ res'.initial_size = s /\ res'.free_list = {}
        /\ res' \in [head : Nat, tail : Nat, next_size : Nat, initial_buffer : Nat, initial_size : Nat,
                     free_list : SUBSET ChunkRecords]
    BY <2>4, ResetLeaves
  <2>6. Heap \in Nat
    BY DEF Heap
  <2>7. ResTypeOK' /\ Below'
    BY <2>1, <2>3, <2>5, <2>6 DEF ResTypeOK, Below, Null
  <2>8. (res.head # res.tail => Lies(res.head, res.tail))'
    BY <2>5 DEF Lies
  <2> QED BY <2>1, <2>5, <2>7, <2>8 DEF ResInv
<1> QED BY <1>1, <1>2
\* The initial buffer, and then the steps.
LEMMA ResInductive ==
  /\ ResInit => ResInv
  /\ ResInv /\ ResNext => ResInv'
  /\ ResInv /\ UNCHANGED resVars => ResInv'
<1>1. ASSUME ResInit PROVE ResInv
  <2>0. upstream = {} /\ brk = Heap /\ live = {} /\ ran = FALSE
    BY <1>1 DEF ResInit
  <2>1. ASSUME NEW b \in Buffers, res = Reset(b.begin, b.size) PROVE ResInv
    <3>1. b.begin \in Nat /\ b.size \in Nat /\ b.begin + b.size <= Heap
      BY ResourcesAssumption
    <3> QED BY <2>0, <2>1, <3>1, ResetFits
  <2>2. ASSUME NEW s \in Requests \cup {0}, res = Reset(Null, s) PROVE ResInv
    <3>1. s \in Nat /\ Null \in Nat
      BY ResourcesAssumption DEF Null
    <3> QED BY <2>0, <2>2, <3>1, ResetFits
  <2> QED BY <1>1, <2>1, <2>2 DEF ResInit
<1>2. ASSUME ResInv, ResNext PROVE ResInv'
  BY <1>2, HereFits, FromChunk, RestFits DEF ResNext
<1>3. ASSUME ResInv, UNCHANGED resVars PROVE ResInv'
  <2>1. UNCHANGED <<res, upstream, brk, live, ran>>
    BY <1>3 DEF resVars
  <2>2. ResTypeOK' /\ Below'
    BY <1>3, <2>1 DEF ResInv, ResTypeOK, Below
  <2>3. \A lo, hi : Lies(lo, hi)' <=> Lies(lo, hi)
    BY <2>1 DEF Lies
  <2>4. \A x \in live' : PieceOK(x)'
    BY <1>3, <2>1, <2>3 DEF ResInv, PieceOK
  <2>5. (res.head # res.tail => Lies(res.head, res.tail))'
    BY <1>3, <2>1 DEF ResInv, Lies
  <2> QED BY <1>3, <2>1, <2>2, <2>4, <2>5 DEF ResInv
<1> QED BY <1>1, <1>2, <1>3

\* Pieces that are before or after each other have no byte in common.
LEMMA SpansApart ==
  ASSUME NEW p \in Nat, NEW m \in Nat, NEW q \in Nat, NEW n \in Nat, p + m <= q \/ q + n <= p
  PROVE  Span(p, m) \cap Span(q, n) = {}
BY DEF Span

\* What lies from lo to hi lies in one of the places.
LEMMA LiesInPlace ==
  ASSUME ResInv, NEW p \in Nat, NEW n \in Nat, Lies(p, p + n)
  PROVE  \E place \in Places : Span(p, n) \subseteq place
<1>t. res.initial_buffer \in Nat /\ res.initial_size \in Nat /\ NodeSize \in Nat
  BY ResourcesAssumption DEF ResInv, ResTypeOK
<1>1. CASE /\ res.initial_buffer # Null /\ res.initial_buffer <= p
           /\ p + n <= res.initial_buffer + res.initial_size
  <2>1. Span(res.initial_buffer, res.initial_size) \in Places
    BY <1>1 DEF Places
  <2>2. Span(p, n) \subseteq Span(res.initial_buffer, res.initial_size)
    BY <1>t, <1>1 DEF Span
  <2> QED BY <2>1, <2>2
<1>2. ASSUME NEW c \in upstream, c.addr + NodeSize <= p, p + n <= c.addr + c.size
      PROVE  \E place \in Places : Span(p, n) \subseteq place
  <2>1. Span(c.addr + NodeSize, c.size - NodeSize) \in Places
    BY DEF Places
  <2>2. c.addr \in Nat /\ c.size \in Nat
    BY DEF ResInv, ResTypeOK, ChunkRecords
  <2>3. Span(p, n) \subseteq Span(c.addr + NodeSize, c.size - NodeSize)
    BY <1>t, <1>2, <2>2 DEF Span
  <2> QED BY <2>1, <2>3
<1> QED BY <1>1, <1>2 DEF Lies

\* The invariant says that the pieces are apart.
LEMMA InvIsApart ==
  ASSUME ResInv
  PROVE  PiecesApart
<1>t. res.head \in Nat /\ res.tail \in Nat /\ res.head <= res.tail
  BY DEF ResInv, ResTypeOK, Below
<1>l. \A x \in live : x.p \in Nat /\ x.bytes \in Nat /\ x.p + x.bytes \in Nat
  BY DEF ResInv, ResTypeOK
<1>d. res.tail - res.head \in Nat /\ res.head + (res.tail - res.head) = res.tail
  BY <1>t
<1>1. ASSUME NEW x \in live
      PROVE  /\ x.p % x.alignment = 0
             /\ \E place \in Places : Span(x.p, x.bytes) \subseteq place
             /\ \A y \in live : x # y => Span(x.p, x.bytes) \cap Span(y.p, y.bytes) = {}
             /\ Span(x.p, x.bytes) \cap Span(res.head, res.tail - res.head) = {}
  <2>1. PieceOK(x)
    BY DEF ResInv
  <2>2. \E place \in Places : Span(x.p, x.bytes) \subseteq place
    BY <1>l, <2>1, LiesInPlace DEF PieceOK
  <2>3. ASSUME NEW y \in live, x # y PROVE Span(x.p, x.bytes) \cap Span(y.p, y.bytes) = {}
    <3>1. x.p + x.bytes <= y.p \/ y.p + y.bytes <= x.p
      BY <2>1, <2>3 DEF PieceOK
    <3> QED BY <1>l, <3>1, SpansApart
  <2>4. x.p + x.bytes <= res.head \/ res.head + (res.tail - res.head) <= x.p
    BY <1>d, <2>1 DEF PieceOK
  <2>5. Span(x.p, x.bytes) \cap Span(res.head, res.tail - res.head) = {}
    BY <1>t, <1>d, <1>l, <2>4, SpansApart
  <2>6. x.p % x.alignment = 0
    BY <2>1 DEF PieceOK
  <2> QED BY <2>2, <2>3, <2>5, <2>6
<1>2. ASSUME res.head # res.tail
      PROVE  \E place \in Places : Span(res.head, res.tail - res.head) \subseteq place
  <2>1. Lies(res.head, res.head + (res.tail - res.head))
    BY <1>d, <1>2 DEF ResInv
  <2> QED BY <1>t, <1>d, <2>1, LiesInPlace
<1> QED BY <1>1, <1>2 DEF PiecesApart, ResInv

-----------------------------------------------------------------------------
(* The pools by size. *)

PoolSizes == {16 * i : i \in 1 .. 8} \cup {128 * i : i \in 2 .. 8}
             \cup {1024 * i : i \in 2 .. 8} \cup {8192 * i : i \in 2 .. 8}

\* What rounding up finds: the least multiple not below.
Least(s, step, r) ==
  /\ r \in Nat /\ s <= r /\ r < s + step
  /\ \E q \in Nat : r = step * q
  /\ \A q \in Nat : s <= step * q => r <= step * q

\* RoundUp, for every size and step.
LEMMA RoundsToLeast ==
  \A s \in Nat : \A step \in Nat \ {0} : Least(s, step, round_up(s, step))
<1> SUFFICES ASSUME NEW s \in Nat, NEW step \in Nat \ {0}
             PROVE  Least(s, step, round_up(s, step))
  OBVIOUS
<1> QED BY RoundUp DEF Least

\* A level's pools are the multiples of its step, and every size above is one.
LEMMA LeastPool ==
  ASSUME NEW s \in Nat \ {0}, NEW step \in {16, 128, 1024, 8192},
         s <= 8 * step, step # 16 => step < s
  PROVE  /\ round_up(s, step) \in PoolSizes /\ s <= round_up(s, step)
         /\ \A z \in PoolSizes : s <= z => round_up(s, step) <= z
<1> DEFINE r == round_up(s, step)
<1>0. step \in Nat \ {0} /\ s \in Nat
  OBVIOUS
<1>1. /\ r \in Nat /\ s <= r /\ r < s + step
      /\ \E q \in Nat : r = step * q
      /\ \A q \in Nat : s <= step * q => r <= step * q
  <2>1. Least(s, step, round_up(s, step))
    BY <1>0, RoundsToLeast
  <2> QED BY <2>1 DEF Least
<1>2. PICK q \in Nat : r = step * q
  BY <1>1
<1> HIDE DEF r
<1>a. CASE step = 16
  <2>1. s <= 16 * 8 /\ 8 \in Nat
    BY <1>a
  <2>2. r <= 16 * 8
    BY <1>1, <1>a, <2>1
  <2>3. q \in 1 .. 8 /\ r = 16 * q
    BY <1>1, <1>2, <1>a, <2>2
  <2>4. r \in PoolSizes
    BY <2>3 DEF PoolSizes
  <2>5. ASSUME NEW z \in PoolSizes, s <= z PROVE r <= z
    <3>1. CASE \E i \in 1 .. 8 : z = 16 * i
      BY <1>1, <1>a, <2>5, <3>1
    <3>2. CASE \E i \in 2 .. 8 : z = 128 * i \/ z = 1024 * i \/ z = 8192 * i
      BY <1>1, <2>2, <3>2
    <3> QED BY <3>1, <3>2 DEF PoolSizes
  <2> QED BY <1>1, <2>4, <2>5 DEF r
<1>b. CASE step = 128
  <2>1. s <= 128 * 8 /\ 8 \in Nat
    BY <1>b
  <2>2. r <= 128 * 8
    BY <1>1, <1>b, <2>1
  <2>3. q \in 2 .. 8 /\ r = 128 * q
    BY <1>1, <1>2, <1>b, <2>2
  <2>4. r \in PoolSizes
    BY <2>3 DEF PoolSizes
  <2>5. ASSUME NEW z \in PoolSizes, s <= z PROVE r <= z
    <3>1. CASE \E i \in 1 .. 8 : z = 16 * i
      BY <1>b, <2>5, <3>1
    <3>2. CASE \E i \in 2 .. 8 : z = 128 * i
      BY <1>1, <1>b, <2>5, <3>2
    <3>3. CASE \E i \in 2 .. 8 : z = 1024 * i \/ z = 8192 * i
      BY <1>1, <2>2, <3>3
    <3> QED BY <3>1, <3>2, <3>3 DEF PoolSizes
  <2> QED BY <1>1, <2>4, <2>5 DEF r
<1>c. CASE step = 1024
  <2>1. s <= 1024 * 8 /\ 8 \in Nat
    BY <1>c
  <2>2. r <= 1024 * 8
    BY <1>1, <1>c, <2>1
  <2>3. q \in 2 .. 8 /\ r = 1024 * q
    BY <1>1, <1>2, <1>c, <2>2
  <2>4. r \in PoolSizes
    BY <2>3 DEF PoolSizes
  <2>5. ASSUME NEW z \in PoolSizes, s <= z PROVE r <= z
    <3>1. CASE (\E i \in 1 .. 8 : z = 16 * i) \/ (\E i \in 2 .. 8 : z = 128 * i)
      BY <1>c, <2>5, <3>1
    <3>2. CASE \E i \in 2 .. 8 : z = 1024 * i
      BY <1>1, <1>c, <2>5, <3>2
    <3>3. CASE \E i \in 2 .. 8 : z = 8192 * i
      BY <1>1, <2>2, <3>3
    <3> QED BY <3>1, <3>2, <3>3 DEF PoolSizes
  <2> QED BY <1>1, <2>4, <2>5 DEF r
<1>d. CASE step = 8192
  <2>1. s <= 8192 * 8 /\ 8 \in Nat
    BY <1>d
  <2>2. r <= 8192 * 8
    BY <1>1, <1>d, <2>1
  <2>3. q \in 2 .. 8 /\ r = 8192 * q
    BY <1>1, <1>2, <1>d, <2>2
  <2>4. r \in PoolSizes
    BY <2>3 DEF PoolSizes
  <2>5. ASSUME NEW z \in PoolSizes, s <= z PROVE r <= z
    <3>1. CASE (\E i \in 1 .. 8 : z = 16 * i) \/ (\E i \in 2 .. 8 : z = 128 * i \/ z = 1024 * i)
      BY <1>d, <2>5, <3>1
    <3>2. CASE \E i \in 2 .. 8 : z = 8192 * i
      BY <1>1, <1>d, <2>5, <3>2
    <3> QED BY <3>1, <3>2 DEF PoolSizes
  <2> QED BY <1>1, <2>4, <2>5 DEF r
<1> QED BY <1>a, <1>b, <1>c, <1>d

\* get_regular_resource finds the smallest pool with room.
LEMMA SmallestPool ==
  ASSUME NEW s \in Nat \ {0}
  PROVE  LET large == {z \in PoolSizes : z >= s} IN
         get_regular_resource(s) = (IF large = {} THEN 0 ELSE Min(large))
<1> DEFINE large == {z \in PoolSizes : z >= s}
           r == get_regular_resource(s)
<1>0. \A z \in PoolSizes : z \in Nat /\ z <= 65536
  BY DEF PoolSizes
<1>1. CASE s > 65536
  <2>1. r = 0
    BY <1>1 DEF get_regular_resource, regular_level
  <2>2. large = {}
    BY <1>0, <1>1
  <2> QED BY <2>1, <2>2
<1>2. CASE s <= 65536
  <2>1. PICK step \in {16, 128, 1024, 8192} :
          r = round_up(s, step) /\ s <= 8 * step /\ (step # 16 => step < s)
    <3>1. CASE s <= 128
      <4>1. r = round_up(s, 16)
        BY <3>1 DEF get_regular_resource, regular_level
      <4> QED BY <3>1, <4>1
    <3>2. CASE 128 < s /\ s <= 1024
      <4>1. r = round_up(s, 128)
        BY <3>2 DEF get_regular_resource, regular_level
      <4> QED BY <3>2, <4>1
    <3>3. CASE 1024 < s /\ s <= 8192
      <4>1. r = round_up(s, 1024)
        BY <3>3 DEF get_regular_resource, regular_level
      <4> QED BY <3>3, <4>1
    <3>4. CASE 8192 < s
      <4>1. r = round_up(s, 8192)
        BY <1>2, <3>4 DEF get_regular_resource, regular_level
      <4> QED BY <1>2, <3>4, <4>1
    <3> QED BY <3>1, <3>2, <3>3, <3>4
  <2>2. r \in PoolSizes /\ s <= r /\ \A z \in PoolSizes : s <= z => r <= z
    BY <2>1, LeastPool
  <2> HIDE DEF r
  <2>3. r \in large /\ \A z \in large : r <= z
    BY <1>0, <2>2
  <2>4. \A z \in large : z \in Nat
    BY <1>0
  <2> HIDE DEF large
  <2>5. Min(large) \in large /\ \A z \in large : Min(large) <= z
    BY <2>3 DEF Min
  <2>6. Min(large) = r
    BY <2>3, <2>4, <2>5
  <2> QED BY <2>3, <2>6 DEF r, large
<1> QED BY <1>1, <1>2

\* An object has the pool for what it and its head need, and that size is
\* the one given back.
Need(o) == o.bytes + (IF o.by = "new" THEN HeadSize ELSE 0)
ObjOK(o) == /\ Need(o) \in Nat \ {0} /\ o.free = Need(o)
            /\ o.pool = get_regular_resource(Need(o))
ObjInv == \A o \in objs : ObjOK(o)

\* A step of $new, of a container or of $delete keeps it.
LEMMA ObjInductive ==
  ASSUME ObjInv, ObjNext
  PROVE  ObjInv'
<1>1. ASSUME NEW b \in Objects, new_object(b) PROVE ObjInv'
  <2> DEFINE o == [by |-> "new", bytes |-> b, free |-> HeadSize + b,
                   pool |-> get_regular_resource(HeadSize + b)]
  <2>1. b \in Nat /\ b # 0 /\ HeadSize \in Nat /\ objs' = objs \cup {o}
    BY <1>1, ResourcesAssumption DEF new_object
  <2>2. o.by = "new" /\ o.bytes = b /\ o.free = HeadSize + b /\ o.pool = get_regular_resource(HeadSize + b)
    OBVIOUS
  <2> HIDE DEF o
  <2>3. Need(o) = HeadSize + b
    BY <2>1, <2>2 DEF Need
  <2>4. ObjOK(o)
    BY <2>1, <2>2, <2>3 DEF ObjOK
  <2> QED BY <2>1, <2>4 DEF ObjInv
<1>2. ASSUME NEW b \in Objects, container_allocate(b) PROVE ObjInv'
  <2> DEFINE o == [by |-> "container", bytes |-> b, free |-> b, pool |-> get_regular_resource(b)]
  <2>1. b \in Nat /\ b # 0 /\ objs' = objs \cup {o}
    BY <1>2, ResourcesAssumption DEF container_allocate
  <2>2. o.by # "new" /\ o.bytes = b /\ o.free = b /\ o.pool = get_regular_resource(b)
    OBVIOUS
  <2> HIDE DEF o
  <2>3. Need(o) = b
    BY <2>1, <2>2 DEF Need
  <2>4. ObjOK(o)
    BY <2>1, <2>2, <2>3 DEF ObjOK
  <2> QED BY <2>1, <2>4 DEF ObjInv
<1>3. ASSUME NEW o \in objs, delete_object(o) PROVE ObjInv'
  BY <1>3 DEF delete_object, ObjInv
<1> QED BY <1>1, <1>2, <1>3 DEF ObjNext

\* The smallest pool with room is the one found when the object goes.
LEMMA InvFits ==
  ASSUME ObjInv
  PROVE  PoolFits
<1> SUFFICES ASSUME NEW o \in objs
             PROVE  LET large == {z \in PoolSizes : z >= Need(o)}
                    IN /\ o.pool = (IF large = {} THEN 0 ELSE Min(large))
                       /\ get_regular_resource(o.free) = o.pool
  BY DEF PoolFits, PoolSizes, Need
<1>1. ObjOK(o)
  BY DEF ObjInv
<1> QED BY <1>1, SmallestPool DEF ObjOK

\* What monotonic_buffer_resource hands out is aligned, in place and apart,
\* whatever the alignments asked for, and the pool of an object is the
\* smallest with room for it and its head, and the one it goes back to.
THEOREM MemoryAlwaysFits == ResSpec => []MemoryFits
<1>1. ResInit /\ objs = {} => ResInv /\ ObjInv
  BY ResInductive DEF ObjInv
<1>2. ASSUME ResInv, ObjInv,
             [(ResNext /\ UNCHANGED objs) \/ (ObjNext /\ UNCHANGED resVars)]_<<resVars, objs>>
      PROVE  ResInv' /\ ObjInv'
  <2>1. CASE ResNext /\ UNCHANGED objs
    BY <1>2, <2>1, ResInductive DEF ObjInv, ObjOK, Need
  <2>2. CASE ObjNext /\ UNCHANGED resVars
    BY <1>2, <2>2, ResInductive, ObjInductive
  <2>3. CASE UNCHANGED <<resVars, objs>>
    BY <1>2, <2>3, ResInductive DEF ObjInv, ObjOK, Need
  <2> QED BY <1>2, <2>1, <2>2, <2>3
<1>3. ResInv /\ ObjInv => MemoryFits
  BY InvIsApart, InvFits DEF MemoryFits
<1> QED BY <1>1, <1>2, <1>3, PTL DEF ResSpec


-----------------------------------------------------------------------------
(* Pools: lists through a function that gives the next element. *)

\* The list that begins with x has exactly the elements of S, each once, and
\* ends: l is its elements in order, and Nil.
Strung(link, x, S, k, l) ==
  /\ k \in Nat /\ l \in [1 .. k + 1 -> S \cup {Nil}]
  /\ l[1] = x /\ l[k + 1] = Nil
  /\ \A i \in 1 .. k : l[i] \in S /\ l[i] # Nil /\ link[l[i]] = l[i + 1]
  /\ \A y \in S : \E i \in 1 .. k : l[i] = y
  /\ \A i, j \in 1 .. k : l[i] = l[j] => i = j

IsList(link, x, S) == \E k, l : Strung(link, x, S, k, l)

\* The list that begins with Nil is empty.
LEMMA EmptyList ==
  ASSUME NEW link
  PROVE  IsList(link, Nil, {})
<1> DEFINE l == [i \in 1 .. 0 + 1 |-> Nil]
<1>1. l \in [1 .. 0 + 1 -> {} \cup {Nil}] /\ l[1] = Nil /\ l[0 + 1] = Nil
  OBVIOUS
<1>2. 0 \in Nat /\ \A i \in 1 .. 0 : FALSE
  OBVIOUS
<1> HIDE DEF l
<1>3. Strung(link, Nil, {}, 0, l)
  BY <1>1, <1>2 DEF Strung
<1> QED BY <1>3 DEF IsList

\* A list is empty exactly if it begins with Nil; otherwise it has its first
\* element, and the end is in no list.
LEMMA ListHead ==
  ASSUME NEW link, NEW x, NEW S, IsList(link, x, S)
  PROVE  /\ Nil \notin S
         /\ x = Nil <=> S = {}
         /\ x # Nil => x \in S /\ link[x] \in S \cup {Nil}
<1>1. PICK k, l : Strung(link, x, S, k, l)
  BY DEF IsList
<1>2. /\ k \in Nat /\ l \in [1 .. k + 1 -> S \cup {Nil}]
      /\ l[1] = x /\ l[k + 1] = Nil
      /\ \A i \in 1 .. k : l[i] \in S /\ l[i] # Nil /\ link[l[i]] = l[i + 1]
      /\ \A y \in S : \E i \in 1 .. k : l[i] = y
      /\ \A i, j \in 1 .. k : l[i] = l[j] => i = j
  BY <1>1 DEF Strung
<1> k \in Nat
  BY <1>2
<1>3. CASE k = 0
  <2>1. \A i \in 1 .. k : FALSE
    BY <1>3
  <2>2. k + 1 = 1
    BY <1>3
  <2> QED BY <1>2, <2>1, <2>2
<1>4. CASE k # 0
  <2>1. 1 \in 1 .. k /\ 1 + 1 \in 1 .. k + 1
    BY <1>4
  <2> QED BY <1>2, <2>1
<1> QED BY <1>3, <1>4

\* A list stays as it is when the links of its elements do.
LEMMA ListFrame ==
  ASSUME NEW link, NEW link2, NEW x, NEW S, IsList(link, x, S),
         \A y \in S : link2[y] = link[y]
  PROVE  IsList(link2, x, S)
<1>1. PICK k, l : Strung(link, x, S, k, l)
  BY DEF IsList
<1>2. Strung(link2, x, S, k, l)
  BY <1>1 DEF Strung
<1> QED BY <1>2 DEF IsList

\* An element put before a list.
LEMMA ListPut ==
  ASSUME NEW link, NEW link2, NEW x, NEW S, IsList(link, x, S),
         \A y \in S : link2[y] = link[y],
         NEW b, b # Nil, b \notin S, link2[b] = x
  PROVE  IsList(link2, b, S \cup {b})
<1>1. PICK k, l : Strung(link, x, S, k, l)
  BY DEF IsList
<1>2. /\ k \in Nat /\ l \in [1 .. k + 1 -> S \cup {Nil}]
      /\ l[1] = x /\ l[k + 1] = Nil
      /\ \A i \in 1 .. k : l[i] \in S /\ l[i] # Nil /\ link[l[i]] = l[i + 1]
      /\ \A y \in S : \E i \in 1 .. k : l[i] = y
      /\ \A i, j \in 1 .. k : l[i] = l[j] => i = j
  BY <1>1 DEF Strung
<1> k \in Nat
  BY <1>2
<1> DEFINE T == S \cup {b}
           m == [i \in 1 .. (k + 1) + 1 |-> IF i = 1 THEN b ELSE l[i - 1]]
<1>3. /\ m[1] = b /\ m[(k + 1) + 1] = Nil
      /\ \A i \in 1 .. k + 1 : m[i + 1] = l[i]
      /\ \A i \in 1 .. k + 1 : i # 1 => i - 1 \in 1 .. k /\ m[i] = l[i - 1]
  <2>1. 1 \in 1 .. (k + 1) + 1 /\ (k + 1) + 1 \in 1 .. (k + 1) + 1 /\ (k + 1) + 1 # 1
        /\ ((k + 1) + 1) - 1 = k + 1
    OBVIOUS
  <2>2. \A i \in 1 .. k + 1 : i + 1 \in 1 .. (k + 1) + 1 /\ i + 1 # 1 /\ (i + 1) - 1 = i
    OBVIOUS
  <2>3. \A i \in 1 .. k + 1 : i \in 1 .. (k + 1) + 1 /\ (i # 1 => i - 1 \in 1 .. k)
    OBVIOUS
  <2> QED BY <1>2, <2>1, <2>2, <2>3
<1>4. m \in [1 .. (k + 1) + 1 -> T \cup {Nil}]
  <2> SUFFICES ASSUME NEW i \in 1 .. (k + 1) + 1, i # 1 PROVE l[i - 1] \in T \cup {Nil}
    OBVIOUS
  <2>1. i - 1 \in 1 .. k + 1
    OBVIOUS
  <2> QED BY <1>2, <2>1
<1> HIDE DEF m
<1>5. \A i \in 1 .. k + 1 : m[i] \in T /\ m[i] # Nil /\ link2[m[i]] = m[i + 1]
  <2> TAKE i \in 1 .. k + 1
  <2>1. CASE i = 1
    <3>1. m[i] = b /\ m[i + 1] = x
      BY <1>2, <1>3, <2>1
    <3> QED BY <3>1
  <2>2. CASE i # 1
    <3>1. i - 1 \in 1 .. k /\ m[i] = l[i - 1] /\ m[i + 1] = l[i] /\ (i - 1) + 1 = i
      BY <1>3, <2>2
    <3> QED BY <1>2, <3>1
  <2> QED BY <2>1, <2>2
<1>6. \A y \in T : \E i \in 1 .. k + 1 : m[i] = y
  <2> TAKE y \in T
  <2>1. CASE y = b
    <3>1. 1 \in 1 .. k + 1
      OBVIOUS
    <3> QED BY <1>3, <2>1, <3>1
  <2>2. CASE y \in S
    <3>1. PICK i \in 1 .. k : l[i] = y
      BY <1>2, <2>2
    <3>2. i + 1 \in 1 .. k + 1 /\ i \in 1 .. k + 1
      OBVIOUS
    <3> QED BY <1>3, <3>1, <3>2
  <2> QED BY <2>1, <2>2
<1>7. \A i, j \in 1 .. k + 1 : m[i] = m[j] => i = j
  <2> TAKE i, j \in 1 .. k + 1
  <2>1. CASE i = 1 /\ j # 1
    BY <1>2, <1>3, <2>1
  <2>2. CASE i # 1 /\ j = 1
    BY <1>2, <1>3, <2>2
  <2>3. CASE i # 1 /\ j # 1
    <3>1. m[i] = m[j] => i - 1 = j - 1
      BY <1>2, <1>3, <2>3
    <3> QED BY <3>1
  <2> QED BY <2>1, <2>2, <2>3
<1>8. k + 1 \in Nat
  OBVIOUS
<1> HIDE DEF T
<1>9. Strung(link2, b, T, k + 1, m)
  BY <1>3, <1>4, <1>5, <1>6, <1>7, <1>8 DEF Strung
<1> QED BY <1>9 DEF T, IsList

\* The first element taken off a list.
LEMMA ListTake ==
  ASSUME NEW link, NEW x, NEW S, IsList(link, x, S), x # Nil
  PROVE  IsList(link, link[x], S \ {x})
<1>1. PICK k, l : Strung(link, x, S, k, l)
  BY DEF IsList
<1>2. /\ k \in Nat /\ l \in [1 .. k + 1 -> S \cup {Nil}]
      /\ l[1] = x /\ l[k + 1] = Nil
      /\ \A i \in 1 .. k : l[i] \in S /\ l[i] # Nil /\ link[l[i]] = l[i + 1]
      /\ \A y \in S : \E i \in 1 .. k : l[i] = y
      /\ \A i, j \in 1 .. k : l[i] = l[j] => i = j
  BY <1>1 DEF Strung
<1> k \in Nat
  BY <1>2
<1>3. k # 0
  <2>1. k = 0 => k + 1 = 1
    OBVIOUS
  <2> QED BY <1>2, <2>1
<1> DEFINE T == S \ {x}
           m == [i \in 1 .. (k - 1) + 1 |-> l[i + 1]]
<1>4. /\ k - 1 \in Nat /\ (k - 1) + 1 = k /\ 1 \in 1 .. k /\ k \in 1 .. k /\ 1 + 1 \in 1 .. k + 1
      /\ \A i \in 1 .. k : i + 1 \in 1 .. k + 1
      /\ \A i \in 1 .. k - 1 : i \in 1 .. k /\ i + 1 \in 1 .. k /\ i + 1 # 1
  BY <1>3
<1>5. /\ \A i \in 1 .. k : m[i] = l[i + 1]
      /\ \A i \in 1 .. k - 1 : m[i + 1] = l[(i + 1) + 1]
  BY <1>4
<1>6. \A i \in 1 .. k - 1 : m[i] \in T /\ m[i] # Nil /\ link[m[i]] = m[i + 1]
  <2> HIDE DEF m
  <2> TAKE i \in 1 .. k - 1
  <2>1. i + 1 \in 1 .. k /\ m[i] = l[i + 1] /\ m[i + 1] = l[(i + 1) + 1] /\ i + 1 # 1
    BY <1>4, <1>5
  <2>2. l[i + 1] # l[1]
    BY <1>2, <1>4, <2>1
  <2> QED BY <1>2, <2>1, <2>2
<1>7. m \in [1 .. (k - 1) + 1 -> T \cup {Nil}]
  <2> SUFFICES ASSUME NEW i \in 1 .. k PROVE l[i + 1] \in T \cup {Nil}
    BY <1>4
  <2>1. CASE i = k
    BY <1>2, <2>1
  <2>2. CASE i # k
    <3>1. i \in 1 .. k - 1 /\ m[i] = l[i + 1]
      BY <1>5, <2>2
    <3> HIDE DEF m
    <3> QED BY <1>6, <3>1
  <2> QED BY <2>1, <2>2
<1> HIDE DEF m
<1>8. m[1] = link[x] /\ m[(k - 1) + 1] = Nil
  BY <1>2, <1>4, <1>5
<1>9. \A y \in T : \E i \in 1 .. k - 1 : m[i] = y
  <2> TAKE y \in T
  <2>1. PICK i \in 1 .. k : l[i] = y
    BY <1>2
  <2>2. i # 1
    BY <1>2, <2>1
  <2>3. i - 1 \in 1 .. k - 1 /\ i - 1 \in 1 .. k /\ (i - 1) + 1 = i
    BY <2>2
  <2> QED BY <1>5, <2>1, <2>3
<1>10. \A i, j \in 1 .. k - 1 : m[i] = m[j] => i = j
  <2> TAKE i, j \in 1 .. k - 1
  <2>1. m[i] = m[j] => i + 1 = j + 1
    BY <1>2, <1>4, <1>5
  <2> QED BY <2>1
<1> HIDE DEF T
<1>11. Strung(link, link[x], T, k - 1, m)
  BY <1>4, <1>6, <1>7, <1>8, <1>9, <1>10 DEF Strung
<1> QED BY <1>11 DEF T, IsList

\* A chunk linked up: each block to the one behind it, and the last to none.
LEMMA ListMade ==
  ASSUME NEW link, NEW a \in Nat, NEW e \in Nat \ {0},
         \A b \in a + 1 .. a + e : link[b] = IF b = a + e THEN Nil ELSE b + 1
  PROVE  IsList(link, a + 1, a + 1 .. a + e)
<1> DEFINE S == a + 1 .. a + e
           l == [i \in 1 .. e + 1 |-> IF i = e + 1 THEN Nil ELSE a + i]
<1>1. l \in [1 .. e + 1 -> S \cup {Nil}]
  <2> SUFFICES ASSUME NEW i \in 1 .. e + 1, i # e + 1 PROVE a + i \in S
    OBVIOUS
  <2> QED OBVIOUS
<1>2. /\ e \in Nat /\ 1 \in 1 .. e + 1 /\ e + 1 \in 1 .. e + 1 /\ 1 # e + 1
      /\ \A i \in 1 .. e : i \in 1 .. e + 1 /\ i + 1 \in 1 .. e + 1 /\ i # e + 1 /\ a + i \in S /\ a + i # 0
      /\ \A i \in 1 .. e : (i + 1 = e + 1 <=> a + i = a + e) /\ a + (i + 1) = (a + i) + 1
  OBVIOUS
<1>3. l[1] = a + 1 /\ l[e + 1] = Nil
  BY <1>2
<1>4. \A i \in 1 .. e : l[i] = a + i /\ l[i + 1] = IF a + i = a + e THEN Nil ELSE (a + i) + 1
  BY <1>2
<1> HIDE DEF l
<1>5. \A i \in 1 .. e : l[i] \in S /\ l[i] # Nil /\ link[l[i]] = l[i + 1]
  BY <1>2, <1>4 DEF Nil
<1>6. \A y \in S : \E i \in 1 .. e : l[i] = y
  <2> TAKE y \in S
  <2>1. y - a \in 1 .. e /\ a + (y - a) = y
    OBVIOUS
  <2> QED BY <1>4, <2>1
<1>7. \A i, j \in 1 .. e : l[i] = l[j] => i = j
  <2> TAKE i, j \in 1 .. e
  <2>1. a + i = a + j => i = j
    OBVIOUS
  <2> QED BY <1>4, <2>1
<1>8. Strung(link, a + 1, S, e, l)
  <2> HIDE DEF S
  <2> QED BY <1>1, <1>2, <1>3, <1>5, <1>6, <1>7 DEF Strung
<1> QED BY <1>8 DEF IsList

\* Linked walks a list to its end: it has no more elements than steps.
LEMMA LinkedIsList ==
  ASSUME NEW link, NEW x, NEW S, IsList(link, x, S), NEW m \in Nat, S \subseteq 1 .. m
  PROVE  Linked(link, x, m) = S
<1>1. PICK k, l : Strung(link, x, S, k, l)
  BY DEF IsList
<1>2. /\ k \in Nat /\ l \in [1 .. k + 1 -> S \cup {Nil}]
      /\ l[1] = x /\ l[k + 1] = Nil
      /\ \A i \in 1 .. k : l[i] \in S /\ l[i] # Nil /\ link[l[i]] = l[i + 1]
      /\ \A y \in S : \E i \in 1 .. k : l[i] = y
      /\ \A i, j \in 1 .. k : l[i] = l[j] => i = j
  BY <1>1 DEF Strung
<1> k \in Nat
  BY <1>2
<1>3. k <= m
  <2> DEFINE f == [i \in 1 .. k |-> l[i]]
  <2>1. f \in Injection(1 .. k, 1 .. m)
    BY <1>2 DEF Injection, IsInjective
  <2>2. IsFiniteSet(1 .. m) /\ Cardinality(1 .. m) = m /\ Cardinality(1 .. k) = k
    <3>1. 1 \in Int /\ m \in Int /\ k \in Int
      OBVIOUS
    <3>2. /\ IsFiniteSet(1 .. m) /\ Cardinality(1 .. m) = IF 1 > m THEN 0 ELSE m - 1 + 1
          /\ Cardinality(1 .. k) = IF 1 > k THEN 0 ELSE k - 1 + 1
      BY <3>1, FS_Interval
    <3> QED BY <3>2
  <2> HIDE DEF f
  <2>3. Cardinality(1 .. k) <= Cardinality(1 .. m)
    BY <2>1, <2>2, FS_Injection
  <2> QED BY <2>2, <2>3
<1> DEFINE g == [i \in 0 .. m |-> {l[j] : j \in {z \in 1 .. k : z <= i + 1}}]
           StepOf(f) == [i \in 0 .. m |->
              IF i = 0 THEN {x} \ {Nil} ELSE f[i - 1] \cup ({link[y] : y \in f[i - 1]} \ {Nil})]
           reach == CHOOSE f : f = StepOf(f)
<1>4. g = StepOf(g)
  <2> SUFFICES ASSUME NEW i \in 0 .. m
               PROVE  g[i] = IF i = 0 THEN {x} \ {Nil} ELSE g[i - 1] \cup ({link[y] : y \in g[i - 1]} \ {Nil})
    BY Zenon
  <2>1. CASE i = 0
    <3>1. g[i] = {l[j] : j \in {z \in 1 .. k : z <= 1}}
      BY <2>1
    <3>2. CASE k = 0
      <4>1. {z \in 1 .. k : z <= 1} = {} /\ k + 1 = 1
        BY <3>2
      <4> HIDE DEF g
      <4>2. g[i] = {} /\ x = Nil
        BY <1>2, <3>1, <4>1
      <4> QED BY <2>1, <4>2
    <3>3. CASE k # 0
      <4>1. {z \in 1 .. k : z <= 1} = {1} /\ 1 \in 1 .. k
        BY <3>3
      <4> HIDE DEF g
      <4>2. g[i] = {l[1]} /\ l[1] # Nil
        BY <1>2, <3>1, <4>1
      <4> QED BY <1>2, <2>1, <4>2
    <3> QED BY <3>2, <3>3
  <2>2. CASE i # 0
    <3>1. /\ i - 1 \in 0 .. m /\ (i - 1) + 1 = i
          /\ g[i] = {l[j] : j \in {z \in 1 .. k : z <= i + 1}}
          /\ g[i - 1] = {l[j] : j \in {z \in 1 .. k : z <= (i - 1) + 1}}
      BY <2>2
    <3> HIDE DEF g
    <3>2. g[i - 1] = {l[j] : j \in {z \in 1 .. k : z <= i}}
      BY <3>1
    <3>3. ASSUME NEW y \in g[i] PROVE y \in g[i - 1] \cup ({link[z] : z \in g[i - 1]} \ {Nil})
      <4>1. PICK j \in 1 .. k : j <= i + 1 /\ y = l[j]
        BY <3>1, <3>3
      <4>2. CASE j <= i
        BY <3>2, <4>1, <4>2
      <4>3. CASE j = i + 1
        <5>1. i \in 1 .. k /\ i <= i
          BY <2>2, <4>3
        <5>2. l[i] \in g[i - 1] /\ link[l[i]] = l[i + 1]
          BY <1>2, <3>2, <5>1
        <5> QED BY <1>2, <4>1, <4>3, <5>2
      <4>4. j <= i \/ j = i + 1
        BY <4>1
      <4> QED BY <4>2, <4>3, <4>4
    <3>4. ASSUME NEW y \in g[i - 1] PROVE y \in g[i] /\ (link[y] # Nil => link[y] \in g[i])
      <4>1. PICK j \in 1 .. k : j <= i /\ y = l[j]
        BY <3>2, <3>4
      <4>2. j <= i + 1 /\ j + 1 <= i + 1 /\ (j # k => j + 1 \in 1 .. k)
        BY <4>1
      <4>3. y \in g[i]
        BY <3>1, <4>1, <4>2
      <4>4. link[y] = l[j + 1] /\ (j = k => link[y] = Nil)
        BY <1>2, <4>1
      <4>5. j # k => link[y] \in g[i]
        BY <3>1, <4>2, <4>4
      <4> QED BY <4>3, <4>4, <4>5
    <3>5. g[i] = g[i - 1] \cup ({link[y] : y \in g[i - 1]} \ {Nil})
      BY <3>3, <3>4
    <3> QED BY <2>2, <3>5
  <2> QED BY <2>1, <2>2
<1>5. reach = StepOf(reach)
  BY <1>4
<1>6. reach[m] = g[m]
  <2> DEFINE Differ == {i \in 0 .. m : reach[i] # g[i]}
  <2>1. Differ = {}
    <3> SUFFICES ASSUME Differ # {} PROVE FALSE
      OBVIOUS
    <3>1. Differ \subseteq Nat
      OBVIOUS
    <3> HIDE DEF Differ
    <3>2. PICK i \in Differ : \A y \in Differ : i <= y
      BY <3>1, LeastNumber
    <3>3. i \in 0 .. m /\ reach[i] # g[i]
      BY <3>2 DEF Differ
    <3>4. reach[i] = IF i = 0 THEN {x} \ {Nil} ELSE reach[i - 1] \cup ({link[y] : y \in reach[i - 1]} \ {Nil})
      BY <1>5, <3>3
    <3>5. g[i] = IF i = 0 THEN {x} \ {Nil} ELSE g[i - 1] \cup ({link[y] : y \in g[i - 1]} \ {Nil})
      BY <1>4, <3>3
    <3>6. i # 0 => reach[i - 1] = g[i - 1]
      <4>1. i # 0 => i - 1 \in 0 .. m /\ i - 1 \notin Differ
        BY <3>1, <3>2, <3>3
      <4> QED BY <4>1 DEF Differ
    <3> QED BY <3>3, <3>4, <3>5, <3>6
  <2>2. m \in 0 .. m
    OBVIOUS
  <2> HIDE DEF g, reach
  <2> QED BY <2>1, <2>2
<1>7. Linked(link, x, m) = reach[m]
  BY DEF Linked
<1>8. g[m] = S
  <2>1. m \in 0 .. m /\ {z \in 1 .. k : z <= m + 1} = 1 .. k
    BY <1>3
  <2>2. g[m] = {l[j] : j \in 1 .. k}
    BY <2>1
  <2> HIDE DEF g
  <2>3. \A y \in g[m] : y \in S
    BY <1>2, <2>2
  <2>4. \A y \in S : y \in g[m]
    BY <1>2, <2>2
  <2> QED BY <2>3, <2>4
<1> HIDE DEF g, reach
<1> QED BY <1>6, <1>7, <1>8

-----------------------------------------------------------------------------
(* Pools: what holds while no aqueire overlaps a release. *)

AllPlaces == {"none", "live", "get", "a_pop", "a_next", "a_cas", "a_push", "a_pcas", "a_value", "a_none",
              "r_pop", "r_next", "r_cas", "r_node", "r_value", "r_push", "r_pcas"}
ThreadRecords == [pc : AllPlaces, cursor : Blocks \cup {Nil}, n : Nodes \cup {Nil},
                  old : Nodes \cup {Nil}, nx : Nodes \cup {Nil}, get : BOOLEAN]

MemTypeOK ==
  /\ central \in {"sized", "general"}
  /\ blocks \in Nat /\ blocks <= Expansion * MaxChunks
  /\ chain \in [Blocks -> Blocks \cup {Nil}]
  /\ node \in [Nodes -> [value : Blocks \cup {Nil}, next : Nodes \cup {Nil}]]
  /\ nodes \in 0 .. MaxNodes
  /\ top \in [{"cached", "aqueired"} -> Nodes \cup {Nil}]
  /\ thr \in [PoolThreads -> ThreadRecords]

\* No thread is in aqueire while another is in release.
PhaseOK == \A t, u \in PoolThreads : ~(Aqueiring(t) /\ Releasing(u))

\* A thread with a node that is on no stack, and one with a node at all: after
\* the push to aqueired_ it still reads the node's list.
InHand(t)  == thr[t].pc \in {"a_push", "a_pcas", "r_value", "r_push", "r_pcas"}
HasNode(t) == InHand(t) \/ thr[t].pc = "a_value"
Links      == [n \in Nodes |-> node[n].next]

\* C and A are the nodes on cached_ and aqueired_.  What a pop has read of a
\* node is right as long as the node is on the stack: nobody pushes to the
\* stack that is being popped.
StackOK(C, A) ==
  /\ IsList(Links, top["cached"], C) /\ IsList(Links, top["aqueired"], A)
  /\ C \subseteq 1 .. nodes /\ A \subseteq 1 .. nodes /\ C \cap A = {}

HandsApart(C, A) ==
  /\ \A t \in PoolThreads : InHand(t) => thr[t].n \in 1 .. nodes /\ thr[t].n \notin C /\ thr[t].n \notin A
  /\ \A t \in PoolThreads : thr[t].pc = "a_value" => thr[t].n \in A
  /\ \A t, u \in PoolThreads : HasNode(t) /\ HasNode(u) /\ thr[t].n = thr[u].n => t = u

SeenOK(C, A) == \A t \in PoolThreads :
  /\ thr[t].pc \in {"a_next", "a_cas", "r_next", "r_cas"} => thr[t].old \in Nodes
  /\ thr[t].pc = "a_cas" /\ thr[t].old \in C => thr[t].nx = node[thr[t].old].next
  /\ thr[t].pc = "r_cas" /\ thr[t].old \in A => thr[t].nx = node[thr[t].old].next
  /\ thr[t].pc \in {"a_pcas", "r_pcas"} => node[thr[t].n].next = thr[t].old

NodesOK(C, A) == StackOK(C, A) /\ HandsApart(C, A) /\ SeenOK(C, A)

\* own says of each block whose it is.
Users   == <<"users", Nil>>
Gone    == <<"lost", Nil>>
Mine(t) == <<"thread", t>>
In(n)   == <<"node", n>>
Keepers  == {Users, Gone} \cup {Mine(t) : t \in PoolThreads} \cup {In(n) : n \in Nodes}
Of(own, x) == {b \in DOMAIN own : own[b] = x}

\* The node's list is to be read: it is on cached_ or with a thread.
Carried(C, n) == n \in C \/ \E t \in PoolThreads :
  thr[t].n = n /\ thr[t].pc \in {"a_push", "a_pcas", "a_value", "r_push", "r_pcas"}

\* Users, threads and nodes have lists of their own.
ListsOK(C, own) ==
  /\ own \in [1 .. blocks -> Keepers]
  /\ held = Of(own, Users) /\ lost = Of(own, Gone)
  /\ \A t \in PoolThreads : IsList(chain, thr[t].cursor, Of(own, Mine(t)))
  /\ \A n \in Nodes : Carried(C, n) => IsList(chain, node[n].value, Of(own, In(n)))
  /\ \A n \in Nodes : ~Carried(C, n) => Of(own, In(n)) = {}

\* Only a thread that uses its list or gives it back has one, and blocks not
\* made yet have no next.
CursorOK == \A t \in PoolThreads : thr[t].cursor # Nil =>
  thr[t].pc \in {"live", "get", "r_pop", "r_next", "r_cas", "r_node", "r_value"}
FreshOK  == \A b \in Blocks : b > blocks => chain[b] = Nil

PoolInvOf(C, A, own) ==
  MemTypeOK /\ PhaseOK /\ NodesOK(C, A) /\ ListsOK(C, own) /\ CursorOK /\ FreshOK

PoolInv == \E C, A, own : PoolInvOf(C, A, own)

-----------------------------------------------------------------------------

\* The constants are naturals, and the blocks are a range of them.
LEMMA PoolConstants ==
  /\ Expansion \in Nat \ {0} /\ MaxChunks \in Nat \ {0} /\ MaxNodes \in Nat
  /\ Expansion * MaxChunks \in Nat /\ Expansion <= Expansion * MaxChunks
  /\ Blocks = 1 .. Expansion * MaxChunks /\ Nodes = 1 .. MaxNodes /\ Nil = 0
  /\ Cardinality(Blocks) = Expansion * MaxChunks
<1>1. Expansion \in Nat \ {0} /\ MaxChunks \in Nat \ {0} /\ MaxNodes \in Nat
  BY PoolAssumption
<1>2. PICK c \in Nat : MaxChunks = c + 1
  <2>1. MaxChunks - 1 \in Nat /\ MaxChunks = (MaxChunks - 1) + 1
    BY <1>1
  <2> QED BY <2>1
<1>3. Expansion * (c + 1) = Expansion * c + Expansion /\ Expansion * c \in Nat
  BY <1>1
<1>4. PICK z \in Nat : z = Expansion * MaxChunks
  BY <1>1, <1>2, <1>3
<1>5. Cardinality(1 .. z) = z
  BY FS_Interval
<1> QED BY <1>1, <1>2, <1>3, <1>4, <1>5 DEF Blocks, Nodes, Nil

\* The initial state.
LEMMA PoolStarts ==
  ASSUME PoolInit
  PROVE  PoolInv
<1> DEFINE own == [b \in 1 .. blocks |-> Users]
<1>0. /\ central \in {"sized", "general"} /\ chain = [b \in Blocks |-> Nil]
      /\ blocks = (IF central = "sized" THEN 0 ELSE Expansion)
      /\ held = 1 .. blocks /\ lost = {}
      /\ node = [n \in Nodes |-> [value |-> Nil, next |-> Nil]] /\ nodes = 0
      /\ top = [s \in {"cached", "aqueired"} |-> Nil]
      /\ thr = [t \in PoolThreads |-> NoThread]
  BY DEF PoolInit
<1>1. /\ \A t \in PoolThreads : thr[t] = NoThread
      /\ NoThread.pc = "none" /\ NoThread.cursor = Nil
  BY <1>0 DEF NoThread
<1>r. NoThread \in ThreadRecords
  BY DEF NoThread, ThreadRecords, AllPlaces
<1>2. MemTypeOK
  <2>1. blocks \in Nat /\ blocks <= Expansion * MaxChunks /\ nodes \in 0 .. MaxNodes
    <3> DEFINE z == Expansion * MaxChunks
    <3>1. Expansion \in Nat /\ MaxNodes \in Nat /\ z \in Nat /\ Expansion <= z
      BY PoolConstants, Zenon
    <3>2. (blocks = 0 \/ blocks = Expansion) /\ nodes = 0
      BY <1>0, Zenon
    <3> HIDE DEF z
    <3>3. blocks \in Nat /\ blocks <= z /\ nodes \in 0 .. MaxNodes
      BY <3>1, <3>2
    <3> QED BY <3>3, Zenon DEF z
  <2>2. thr \in [PoolThreads -> ThreadRecords]
    BY <1>0, <1>r
  <2> QED BY <1>0, <2>1, <2>2 DEF MemTypeOK
<1>3. PhaseOK /\ CursorOK /\ FreshOK
  BY <1>0, <1>1 DEF PhaseOK, Aqueiring, Releasing, CursorOK, FreshOK
<1>4. NodesOK({}, {})
  <2>1. StackOK({}, {})
    BY <1>0, EmptyList DEF StackOK
  <2>2. HandsApart({}, {}) /\ SeenOK({}, {})
    BY <1>1 DEF HandsApart, SeenOK, InHand, HasNode
  <2> QED BY <2>1, <2>2 DEF NodesOK
<1>5. ListsOK({}, own)
  <2>1. own \in [1 .. blocks -> Keepers] /\ Of(own, Users) = 1 .. blocks /\ Of(own, Gone) = {}
    BY DEF Keepers, Of, Users, Gone
  <2>2. /\ \A t \in PoolThreads : Of(own, Mine(t)) = {}
        /\ \A n \in Nodes : Of(own, In(n)) = {}
    BY DEF Of, Users, Mine, In
  <2>3. \A n \in Nodes : ~Carried({}, n)
    BY <1>1 DEF Carried
  <2>4. \A t \in PoolThreads : IsList(chain, thr[t].cursor, {})
    BY <1>1, EmptyList
  <2> HIDE DEF own
  <2> QED BY <1>0, <2>1, <2>2, <2>3, <2>4 DEF ListsOK
<1> HIDE DEF own
<1>6. PoolInvOf({}, {}, own)
  BY <1>2, <1>3, <1>4, <1>5 DEF PoolInvOf
<1> QED BY <1>6 DEF PoolInv
APlaces == {"a_pop", "a_next", "a_cas", "a_push", "a_pcas", "a_value"}
RPlaces == {"r_pop", "r_next", "r_cas", "r_node", "r_value", "r_push", "r_pcas"}
HandPlaces  == {"a_push", "a_pcas", "r_value", "r_push", "r_pcas"}
CarryPlaces == {"a_push", "a_pcas", "a_value", "r_push", "r_pcas"}
ListPlaces  == {"live", "get", "r_pop", "r_next", "r_cas", "r_node", "r_value"}

\* What a thread has read, in the record r of its place.
SeenIn(C, A, r) ==
  /\ r.pc \in {"a_next", "a_cas", "r_next", "r_cas"} => r.old \in Nodes
  /\ r.pc = "a_cas" /\ r.old \in C => r.nx = node[r.old].next
  /\ r.pc = "r_cas" /\ r.old \in A => r.nx = node[r.old].next
  /\ r.pc \in {"a_pcas", "r_pcas"} => node[r.n].next = r.old

\* A thread that goes to another place, with its list: the record of the other
\* threads is as before.
LEMMA OneMoves ==
  ASSUME MemTypeOK, NEW t \in PoolThreads, NEW r \in ThreadRecords, Step(t, r)
  PROVE  /\ thr' \in [PoolThreads -> ThreadRecords]
         /\ thr'[t] = r /\ \A u \in PoolThreads : u # t => thr'[u] = thr[u]
BY DEF MemTypeOK, Step

\* Who is in aqueire and who in release: whoever goes in finds nobody in the other.
LEMMA PhaseKept ==
  ASSUME PhaseOK, NEW t \in PoolThreads, NEW r, thr'[t] = r,
         \A u \in PoolThreads : u # t => thr'[u] = thr[u],
         r.pc \in APlaces => Aqueiring(t) \/ \A u \in PoolThreads : ~Releasing(u),
         r.pc \in RPlaces => Releasing(t) \/ \A u \in PoolThreads : ~Aqueiring(u)
  PROVE  PhaseOK'
<1>1. r.pc \in APlaces => r.pc \notin RPlaces
  BY DEF APlaces, RPlaces
<1>2. \A u \in PoolThreads : u # t => (Aqueiring(u)' <=> Aqueiring(u)) /\ (Releasing(u)' <=> Releasing(u))
  BY DEF Aqueiring, Releasing
<1>3. (Aqueiring(t)' <=> r.pc \in APlaces) /\ (Releasing(t)' <=> r.pc \in RPlaces)
  BY DEF Aqueiring, Releasing, APlaces, RPlaces
<1> QED BY <1>1, <1>2, <1>3 DEF PhaseOK

\* The lists are the same when the blocks, the cursors, and the lists of the
\* nodes that carry one are.
LEMMA ListsKept ==
  ASSUME NEW C, NEW C2, NEW own, ListsOK(C, own), UNCHANGED <<chain, blocks, held, lost>>,
         \A u \in PoolThreads : thr'[u].cursor = thr[u].cursor,
         \A n \in Nodes : node'[n].value = node[n].value,
         \A n \in Nodes : Carried(C2, n)' <=> Carried(C, n)
  PROVE  ListsOK(C2, own)'
<1>1. blocks' = blocks /\ chain' = chain /\ held' = held /\ lost' = lost
  OBVIOUS
<1>2. own \in [1 .. blocks' -> Keepers] /\ held' = Of(own, Users) /\ lost' = Of(own, Gone)
  BY <1>1 DEF ListsOK
<1>3. \A u \in PoolThreads : IsList(chain', thr'[u].cursor, Of(own, Mine(u)))
  BY <1>1 DEF ListsOK
<1>4. \A n \in Nodes : Carried(C2, n)' => IsList(chain', node'[n].value, Of(own, In(n)))
  BY <1>1 DEF ListsOK
<1>5. \A n \in Nodes : ~Carried(C2, n)' => Of(own, In(n)) = {}
  BY DEF ListsOK
<1> QED BY <1>2, <1>3, <1>4, <1>5 DEF ListsOK

\* A step that moves a thread only, and neither gives nor takes a node.
LEMMA ThreadMoves ==
  ASSUME NEW C, NEW A, NEW own, PoolInvOf(C, A, own),
         NEW t \in PoolThreads, NEW r \in ThreadRecords, Step(t, r),
         UNCHANGED <<central, chain, blocks, node, nodes, top, held, lost>>,
         r.cursor = thr[t].cursor, r.cursor # Nil => r.pc \in ListPlaces,
         r.pc \in APlaces => Aqueiring(t) \/ \A u \in PoolThreads : ~Releasing(u),
         r.pc \in RPlaces => Releasing(t) \/ \A u \in PoolThreads : ~Aqueiring(u),
         r.pc # "a_value", thr[t].pc # "a_value",
         r.pc \in HandPlaces => InHand(t),
         r.pc \in CarryPlaces <=> thr[t].pc \in CarryPlaces,
         r.pc \in HandPlaces \cup CarryPlaces => r.n = thr[t].n,
         SeenIn(C, A, r)
  PROVE  PoolInvOf(C, A, own)'
<1>0. MemTypeOK /\ PhaseOK /\ NodesOK(C, A) /\ ListsOK(C, own) /\ CursorOK /\ FreshOK
  BY DEF PoolInvOf
<1>1. /\ thr' \in [PoolThreads -> ThreadRecords]
      /\ thr'[t] = r /\ \A u \in PoolThreads : u # t => thr'[u] = thr[u]
  BY <1>0, OneMoves
<1>2. MemTypeOK'
  BY <1>0, <1>1 DEF MemTypeOK
<1>3. PhaseOK'
  BY <1>0, <1>1, PhaseKept
<1>4. StackOK(C, A)'
  BY <1>0 DEF NodesOK, StackOK, Links
<1>5. HandsApart(C, A)'
  <2>1. /\ InHand(t)' => InHand(t) /\ thr'[t].n = thr[t].n
        /\ thr'[t].pc # "a_value" /\ (HasNode(t)' => InHand(t) /\ HasNode(t))
    BY <1>1 DEF InHand, HasNode, HandPlaces
  <2>2. \A u \in PoolThreads : u # t => /\ InHand(u)' <=> InHand(u)
                                        /\ HasNode(u)' <=> HasNode(u)
                                        /\ thr'[u].n = thr[u].n /\ thr'[u].pc = thr[u].pc
    BY <1>1 DEF InHand, HasNode
  <2>3. HandsApart(C, A)
    BY <1>0 DEF NodesOK
  <2>4. nodes' = nodes
    OBVIOUS
  <2>5. \A u \in PoolThreads : InHand(u)' =>
          thr'[u].n \in 1 .. nodes' /\ thr'[u].n \notin C /\ thr'[u].n \notin A
    BY <2>1, <2>2, <2>3, <2>4 DEF HandsApart
  <2>6. \A u \in PoolThreads : thr'[u].pc = "a_value" => thr'[u].n \in A
    BY <2>1, <2>2, <2>3 DEF HandsApart
  <2>7. \A u, v \in PoolThreads : HasNode(u)' /\ HasNode(v)' /\ thr'[u].n = thr'[v].n => u = v
    <3>1. \A u \in PoolThreads : HasNode(u)' => HasNode(u) /\ thr'[u].n = thr[u].n
      BY <2>1, <2>2 DEF HasNode
    <3> QED BY <2>3, <3>1 DEF HandsApart
  <2> QED BY <2>5, <2>6, <2>7 DEF HandsApart
<1>6. SeenOK(C, A)'
  <2>1. SeenOK(C, A)
    BY <1>0 DEF NodesOK
  <2> QED BY <1>1, <2>1 DEF SeenOK, SeenIn
<1>7. ListsOK(C, own)'
  <2>1. \A n \in Nodes : Carried(C, n)' <=> Carried(C, n)
    BY <1>1 DEF Carried, CarryPlaces
  <2>2. \A u \in PoolThreads : thr'[u].cursor = thr[u].cursor
    BY <1>1
  <2> QED BY <1>0, <2>1, <2>2, ListsKept
<1>8. CursorOK' /\ FreshOK'
  BY <1>0, <1>1 DEF CursorOK, FreshOK, ListPlaces
<1> QED BY <1>2, <1>3, <1>4, <1>5, <1>6, <1>7, <1>8 DEF PoolInvOf, NodesOK

\* A pop of cached_ in aqueire.
LEMMA AqueirePops ==
  ASSUME NEW C, NEW A, NEW own, PoolInvOf(C, A, own), NEW t \in PoolThreads,
         stack_pop(t, "cached", "a_pop", "a_next", "a_cas", "a_none", "a_push")
  PROVE  PoolInv'
<1> DEFINE me == thr[t]
<1>0. MemTypeOK /\ PhaseOK /\ NodesOK(C, A) /\ ListsOK(C, own) /\ CursorOK /\ FreshOK
  BY DEF PoolInvOf
<1>1. me \in ThreadRecords /\ top["cached"] \in Nodes \cup {Nil} /\ top["aqueired"] \in Nodes \cup {Nil}
  BY <1>0 DEF MemTypeOK
<1>2. UNCHANGED <<central, chain, blocks, node, nodes, held, lost>>
  BY DEF stack_pop
<1>3. CASE /\ me.pc = "a_pop" /\ UNCHANGED top
           /\ Step(t, [me EXCEPT !.old = top["cached"], !.n = Nil,
                                 !.pc = IF top["cached"] = Nil THEN "a_none" ELSE "a_next"])
  <2>1. PICK p : p = IF top["cached"] = Nil THEN "a_none" ELSE "a_next"
    OBVIOUS
  <2>2. PICK r : r = [me EXCEPT !.old = top["cached"], !.n = Nil, !.pc = p]
    OBVIOUS
  <2>3. /\ r \in ThreadRecords /\ r.pc = p /\ r.old = top["cached"] /\ r.cursor = me.cursor
    BY <1>1, <2>1, <2>2 DEF ThreadRecords, AllPlaces
  <2>4. Step(t, r)
    BY <1>3, <2>1, <2>2 DEF Step
  <2>5. me.cursor = Nil
    BY <1>0, <1>3 DEF CursorOK
  <2>6. SeenIn(C, A, r) /\ Aqueiring(t)
    BY <1>1, <1>3, <2>1, <2>3 DEF SeenIn, Aqueiring
  <2>7. PoolInvOf(C, A, own)'
    <3>1. r.pc \notin RPlaces \cup HandPlaces \cup CarryPlaces /\ r.pc # "a_value"
          /\ me.pc \notin CarryPlaces /\ me.pc # "a_value"
      BY <1>3, <2>1, <2>3 DEF RPlaces, HandPlaces, CarryPlaces
    <3> QED BY <1>2, <1>3, <2>3, <2>4, <2>5, <2>6, <3>1, ThreadMoves
  <2> QED BY <2>7 DEF PoolInv
<1>4. CASE me.pc = "a_next" /\ Step(t, [me EXCEPT !.nx = node[me.old].next, !.pc = "a_cas"]) /\ UNCHANGED top
  <2>1. me.old \in Nodes
    BY <1>0, <1>4 DEF NodesOK, SeenOK
  <2>2. PICK z \in Nodes \cup {Nil} : z = node[me.old].next
    BY <1>0, <2>1 DEF MemTypeOK
  <2>3. PICK r : r = [me EXCEPT !.nx = z, !.pc = "a_cas"]
    OBVIOUS
  <2>4. r \in ThreadRecords /\ r.pc = "a_cas" /\ r.old = me.old /\ r.nx = z /\ r.cursor = me.cursor
    BY <1>1, <2>3 DEF ThreadRecords, AllPlaces
  <2>5. Step(t, r)
    BY <1>4, <2>2, <2>3 DEF Step
  <2>6. me.cursor = Nil
    BY <1>0, <1>4 DEF CursorOK
  <2>7. SeenIn(C, A, r) /\ Aqueiring(t)
    BY <1>4, <2>1, <2>2, <2>4 DEF SeenIn, Aqueiring
  <2>8. r.pc \notin RPlaces \cup HandPlaces \cup CarryPlaces /\ r.pc # "a_value"
        /\ me.pc \notin CarryPlaces /\ me.pc # "a_value"
    BY <1>4, <2>4 DEF RPlaces, HandPlaces, CarryPlaces
  <2>9. PoolInvOf(C, A, own)'
    BY <1>2, <1>4, <2>4, <2>5, <2>6, <2>7, <2>8, ThreadMoves
  <2> QED BY <2>9 DEF PoolInv
<1>5. CASE me.pc = "a_cas" /\ top["cached"] # me.old /\ Step(t, [me EXCEPT !.nx = Nil, !.pc = "a_pop"])
           /\ UNCHANGED top
  <2>3. PICK r : r = [me EXCEPT !.nx = Nil, !.pc = "a_pop"]
    OBVIOUS
  <2>4. r \in ThreadRecords /\ r.pc = "a_pop" /\ r.cursor = me.cursor
    BY <1>1, <2>3 DEF ThreadRecords, AllPlaces
  <2>5. Step(t, r)
    BY <1>5, <2>3 DEF Step
  <2>6. me.cursor = Nil
    BY <1>0, <1>5 DEF CursorOK
  <2>7. SeenIn(C, A, r) /\ Aqueiring(t)
    BY <1>5, <2>4 DEF SeenIn, Aqueiring
  <2>8. r.pc \notin RPlaces \cup HandPlaces \cup CarryPlaces /\ r.pc # "a_value"
        /\ me.pc \notin CarryPlaces /\ me.pc # "a_value"
    BY <1>5, <2>4 DEF RPlaces, HandPlaces, CarryPlaces
  <2>9. PoolInvOf(C, A, own)'
    BY <1>2, <1>5, <2>4, <2>5, <2>6, <2>7, <2>8, ThreadMoves
  <2> QED BY <2>9 DEF PoolInv
<1>6. CASE /\ me.pc = "a_cas" /\ top["cached"] = me.old /\ top' = [top EXCEPT !["cached"] = me.nx]
           /\ Step(t, [me EXCEPT !.n = me.old, !.old = Nil, !.nx = Nil, !.pc = "a_push"])
  <2>1. PICK x \in Nodes : x = me.old
    BY <1>0, <1>6 DEF NodesOK, SeenOK
  <2>2. x # Nil /\ x \in C /\ x \in 1 .. nodes /\ x \notin A
    <3>1. IsList(Links, x, C) /\ x # Nil
      BY <1>0, <1>6, <2>1, PoolConstants DEF NodesOK, StackOK
    <3>2. x \in C
      BY <3>1, ListHead
    <3> QED BY <1>0, <3>1, <3>2 DEF NodesOK, StackOK
  <2>3. me.nx = node[x].next
    BY <1>0, <1>6, <2>1, <2>2 DEF NodesOK, SeenOK
  <2>4. PICK r : r = [me EXCEPT !.n = x, !.old = Nil, !.nx = Nil, !.pc = "a_push"]
    OBVIOUS
  <2>5. r \in ThreadRecords /\ r.pc = "a_push" /\ r.n = x /\ r.cursor = me.cursor
    BY <1>1, <2>4 DEF ThreadRecords, AllPlaces
  <2>6. Step(t, r)
    BY <1>6, <2>1, <2>4 DEF Step
  <2>7. /\ thr' \in [PoolThreads -> ThreadRecords]
        /\ thr'[t] = r /\ \A u \in PoolThreads : u # t => thr'[u] = thr[u]
    BY <1>0, <2>5, <2>6, OneMoves
  <2> DEFINE C2 == C \ {x}
  <2>8. top'["cached"] = node[x].next /\ top'["aqueired"] = top["aqueired"]
    BY <1>0, <1>6, <2>3 DEF MemTypeOK
  <2>9. MemTypeOK'
    <3>1. me.nx \in Nodes \cup {Nil}
      BY <1>1 DEF ThreadRecords
    <3> QED BY <1>0, <1>2, <1>6, <2>7, <3>1 DEF MemTypeOK
  <2>10. PhaseOK'
    <3>1. Aqueiring(t) /\ r.pc \notin RPlaces
      BY <1>6, <2>5 DEF Aqueiring, RPlaces
    <3> QED BY <1>0, <2>7, <3>1, PhaseKept
  <2>11. StackOK(C2, A)'
    <3>1. IsList(Links, x, C) /\ IsList(Links, top["aqueired"], A) /\ Links[x] = node[x].next
      BY <1>0, <1>6, <2>1 DEF NodesOK, StackOK, Links
    <3>2. IsList(Links, Links[x], C2)
      BY <2>2, <3>1, ListTake
    <3>3. Links' = Links
      BY <1>2 DEF Links
    <3>4. IsList(Links', top'["cached"], C2) /\ IsList(Links', top'["aqueired"], A)
      BY <2>8, <3>1, <3>2, <3>3
    <3>5. C2 \subseteq 1 .. nodes' /\ A \subseteq 1 .. nodes' /\ C2 \cap A = {}
      BY <1>0, <1>2 DEF NodesOK, StackOK
    <3> HIDE DEF C2
    <3> QED BY <3>4, <3>5 DEF StackOK
  <2>12. HandsApart(C2, A)'
    <3>1. HandsApart(C, A) /\ nodes' = nodes
      BY <1>0, <1>2 DEF NodesOK
    <3>2. \A u \in PoolThreads : u # t => /\ InHand(u)' <=> InHand(u)
                                          /\ HasNode(u)' <=> HasNode(u)
                                          /\ thr'[u].n = thr[u].n /\ thr'[u].pc = thr[u].pc
      BY <2>7 DEF InHand, HasNode
    <3>3. thr'[t].n = x /\ thr'[t].pc = "a_push" /\ x \notin C2
      BY <2>5, <2>7
    <3>4. \A u \in PoolThreads : u # t /\ HasNode(u) => thr[u].n # x
      BY <2>2, <3>1 DEF HandsApart, HasNode
    <3>5. \A u \in PoolThreads : InHand(u)' =>
            thr'[u].n \in 1 .. nodes' /\ thr'[u].n \notin C2 /\ thr'[u].n \notin A
      BY <2>2, <3>1, <3>2, <3>3 DEF HandsApart
    <3>6. \A u \in PoolThreads : thr'[u].pc = "a_value" => thr'[u].n \in A
      BY <3>1, <3>2, <3>3 DEF HandsApart
    <3>7. \A u, v \in PoolThreads : HasNode(u)' /\ HasNode(v)' /\ thr'[u].n = thr'[v].n => u = v
      BY <3>1, <3>2, <3>3, <3>4 DEF HandsApart
    <3> HIDE DEF C2
    <3> QED BY <3>5, <3>6, <3>7 DEF HandsApart
  <2>13. SeenOK(C2, A)'
    <3>1. SeenOK(C, A)
      BY <1>0 DEF NodesOK
    <3> QED BY <1>2, <2>5, <2>7, <3>1 DEF SeenOK
  <2>14. ListsOK(C2, own)'
    <3>1. thr'[t].cursor = thr[t].cursor /\ \A u \in PoolThreads : thr'[u].cursor = thr[u].cursor
      BY <2>5, <2>7
    <3>2. \A n \in Nodes : Carried(C2, n)' <=> Carried(C, n)
      BY <1>6, <2>2, <2>5, <2>7 DEF Carried
    <3> HIDE DEF C2
    <3> QED BY <1>0, <1>2, <3>1, <3>2, ListsKept
  <2>15. CursorOK' /\ FreshOK'
    <3>1. me.cursor = Nil
      BY <1>0, <1>6 DEF CursorOK
    <3> QED BY <1>0, <1>2, <2>5, <2>7, <3>1 DEF CursorOK, FreshOK
  <2> HIDE DEF C2
  <2>16. PoolInvOf(C2, A, own)'
    BY <2>9, <2>10, <2>11, <2>12, <2>13, <2>14, <2>15 DEF PoolInvOf, NodesOK
  <2> QED BY <2>16 DEF PoolInv
<1> QED BY <1>3, <1>4, <1>5, <1>6 DEF stack_pop

\* A pop of aqueired_ in release.
LEMMA ReleasePops ==
  ASSUME NEW C, NEW A, NEW own, PoolInvOf(C, A, own), NEW t \in PoolThreads,
         stack_pop(t, "aqueired", "r_pop", "r_next", "r_cas", "r_node", "r_value")
  PROVE  PoolInv'
<1> DEFINE me == thr[t]
<1>0. MemTypeOK /\ PhaseOK /\ NodesOK(C, A) /\ ListsOK(C, own) /\ CursorOK /\ FreshOK
  BY DEF PoolInvOf
<1>1. me \in ThreadRecords /\ top["cached"] \in Nodes \cup {Nil} /\ top["aqueired"] \in Nodes \cup {Nil}
  BY <1>0 DEF MemTypeOK
<1>2. UNCHANGED <<central, chain, blocks, node, nodes, held, lost>>
  BY DEF stack_pop
<1>3. CASE /\ me.pc = "r_pop" /\ UNCHANGED top
           /\ Step(t, [me EXCEPT !.old = top["aqueired"], !.n = Nil,
                                 !.pc = IF top["aqueired"] = Nil THEN "r_node" ELSE "r_next"])
  <2>1. PICK p : p = IF top["aqueired"] = Nil THEN "r_node" ELSE "r_next"
    OBVIOUS
  <2>2. PICK r : r = [me EXCEPT !.old = top["aqueired"], !.n = Nil, !.pc = p]
    OBVIOUS
  <2>3. /\ r \in ThreadRecords /\ r.pc = p /\ r.old = top["aqueired"] /\ r.cursor = me.cursor
    BY <1>1, <2>1, <2>2 DEF ThreadRecords, AllPlaces
  <2>4. Step(t, r)
    BY <1>3, <2>1, <2>2 DEF Step
  <2>5. r.pc \in ListPlaces
    BY <2>1, <2>3 DEF ListPlaces
  <2>6. SeenIn(C, A, r) /\ Releasing(t)
    BY <1>1, <1>3, <2>1, <2>3 DEF SeenIn, Releasing
  <2>7. PoolInvOf(C, A, own)'
    <3>1. r.pc \notin APlaces \cup HandPlaces \cup CarryPlaces /\ r.pc # "a_value"
          /\ me.pc \notin CarryPlaces /\ me.pc # "a_value"
      BY <1>3, <2>1, <2>3 DEF APlaces, HandPlaces, CarryPlaces
    <3> QED BY <1>2, <1>3, <2>3, <2>4, <2>5, <2>6, <3>1, ThreadMoves
  <2> QED BY <2>7 DEF PoolInv
<1>4. CASE me.pc = "r_next" /\ Step(t, [me EXCEPT !.nx = node[me.old].next, !.pc = "r_cas"]) /\ UNCHANGED top
  <2>1. me.old \in Nodes
    BY <1>0, <1>4 DEF NodesOK, SeenOK
  <2>2. PICK z \in Nodes \cup {Nil} : z = node[me.old].next
    BY <1>0, <2>1 DEF MemTypeOK
  <2>3. PICK r : r = [me EXCEPT !.nx = z, !.pc = "r_cas"]
    OBVIOUS
  <2>4. r \in ThreadRecords /\ r.pc = "r_cas" /\ r.old = me.old /\ r.nx = z /\ r.cursor = me.cursor
    BY <1>1, <2>3 DEF ThreadRecords, AllPlaces
  <2>5. Step(t, r)
    BY <1>4, <2>2, <2>3 DEF Step
  <2>6. r.pc \in ListPlaces
    BY <2>4 DEF ListPlaces
  <2>7. SeenIn(C, A, r) /\ Releasing(t)
    BY <1>4, <2>1, <2>2, <2>4 DEF SeenIn, Releasing
  <2>8. r.pc \notin APlaces \cup HandPlaces \cup CarryPlaces /\ r.pc # "a_value"
        /\ me.pc \notin CarryPlaces /\ me.pc # "a_value"
    BY <1>4, <2>4 DEF APlaces, HandPlaces, CarryPlaces
  <2>9. PoolInvOf(C, A, own)'
    BY <1>2, <1>4, <2>4, <2>5, <2>6, <2>7, <2>8, ThreadMoves
  <2> QED BY <2>9 DEF PoolInv
<1>5. CASE me.pc = "r_cas" /\ top["aqueired"] # me.old /\ Step(t, [me EXCEPT !.nx = Nil, !.pc = "r_pop"])
           /\ UNCHANGED top
  <2>3. PICK r : r = [me EXCEPT !.nx = Nil, !.pc = "r_pop"]
    OBVIOUS
  <2>4. r \in ThreadRecords /\ r.pc = "r_pop" /\ r.cursor = me.cursor
    BY <1>1, <2>3 DEF ThreadRecords, AllPlaces
  <2>5. Step(t, r)
    BY <1>5, <2>3 DEF Step
  <2>6. r.pc \in ListPlaces
    BY <2>4 DEF ListPlaces
  <2>7. SeenIn(C, A, r) /\ Releasing(t)
    BY <1>5, <2>4 DEF SeenIn, Releasing
  <2>8. r.pc \notin APlaces \cup HandPlaces \cup CarryPlaces /\ r.pc # "a_value"
        /\ me.pc \notin CarryPlaces /\ me.pc # "a_value"
    BY <1>5, <2>4 DEF APlaces, HandPlaces, CarryPlaces
  <2>9. PoolInvOf(C, A, own)'
    BY <1>2, <1>5, <2>4, <2>5, <2>6, <2>7, <2>8, ThreadMoves
  <2> QED BY <2>9 DEF PoolInv
<1>6. CASE /\ me.pc = "r_cas" /\ top["aqueired"] = me.old /\ top' = [top EXCEPT !["aqueired"] = me.nx]
           /\ Step(t, [me EXCEPT !.n = me.old, !.old = Nil, !.nx = Nil, !.pc = "r_value"])
  <2>1. PICK x \in Nodes : x = me.old
    BY <1>0, <1>6 DEF NodesOK, SeenOK
  <2>2. x # Nil /\ x \in A /\ x \in 1 .. nodes /\ x \notin C
    <3>1. IsList(Links, x, A) /\ x # Nil
      BY <1>0, <1>6, <2>1, PoolConstants DEF NodesOK, StackOK
    <3>2. x \in A
      BY <3>1, ListHead
    <3> QED BY <1>0, <3>1, <3>2 DEF NodesOK, StackOK
  <2>3. me.nx = node[x].next
    BY <1>0, <1>6, <2>1, <2>2 DEF NodesOK, SeenOK
  <2>4. PICK r : r = [me EXCEPT !.n = x, !.old = Nil, !.nx = Nil, !.pc = "r_value"]
    OBVIOUS
  <2>5. r \in ThreadRecords /\ r.pc = "r_value" /\ r.n = x /\ r.cursor = me.cursor
    BY <1>1, <2>4 DEF ThreadRecords, AllPlaces
  <2>6. Step(t, r)
    BY <1>6, <2>1, <2>4 DEF Step
  <2>7. /\ thr' \in [PoolThreads -> ThreadRecords]
        /\ thr'[t] = r /\ \A u \in PoolThreads : u # t => thr'[u] = thr[u]
    BY <1>0, <2>5, <2>6, OneMoves
  <2> DEFINE A2 == A \ {x}
  <2>8. top'["aqueired"] = node[x].next /\ top'["cached"] = top["cached"]
    BY <1>0, <1>6, <2>3 DEF MemTypeOK
  <2>9. MemTypeOK'
    <3>1. me.nx \in Nodes \cup {Nil}
      BY <1>1 DEF ThreadRecords
    <3> QED BY <1>0, <1>2, <1>6, <2>7, <3>1 DEF MemTypeOK
  <2>10. PhaseOK'
    <3>1. Releasing(t) /\ r.pc \notin APlaces
      BY <1>6, <2>5 DEF Releasing, APlaces
    <3> QED BY <1>0, <2>7, <3>1, PhaseKept
  <2>11. StackOK(C, A2)'
    <3>1. IsList(Links, x, A) /\ IsList(Links, top["cached"], C) /\ Links[x] = node[x].next
      BY <1>0, <1>6, <2>1 DEF NodesOK, StackOK, Links
    <3>2. IsList(Links, Links[x], A2)
      BY <2>2, <3>1, ListTake
    <3>3. Links' = Links
      BY <1>2 DEF Links
    <3>4. IsList(Links', top'["cached"], C) /\ IsList(Links', top'["aqueired"], A2)
      BY <2>8, <3>1, <3>2, <3>3
    <3>5. C \subseteq 1 .. nodes' /\ A2 \subseteq 1 .. nodes' /\ C \cap A2 = {}
      BY <1>0, <1>2 DEF NodesOK, StackOK
    <3> HIDE DEF A2
    <3> QED BY <3>4, <3>5 DEF StackOK
  <2>12. HandsApart(C, A2)'
    <3>1. HandsApart(C, A) /\ nodes' = nodes
      BY <1>0, <1>2 DEF NodesOK
    <3>2. \A u \in PoolThreads : u # t => /\ InHand(u)' <=> InHand(u)
                                          /\ HasNode(u)' <=> HasNode(u)
                                          /\ thr'[u].n = thr[u].n /\ thr'[u].pc = thr[u].pc
      BY <2>7 DEF InHand, HasNode
    <3>3. thr'[t].n = x /\ thr'[t].pc = "r_value" /\ x \notin A2
      BY <2>5, <2>7
    <3>8. \A u \in PoolThreads : thr[u].pc # "a_value"
      BY <1>0, <1>6 DEF PhaseOK, Aqueiring, Releasing
    <3>4. \A u \in PoolThreads : u # t /\ HasNode(u) => thr[u].n # x
      BY <2>2, <3>1, <3>8 DEF HandsApart, HasNode
    <3>5. \A u \in PoolThreads : InHand(u)' =>
            thr'[u].n \in 1 .. nodes' /\ thr'[u].n \notin C /\ thr'[u].n \notin A2
      BY <2>2, <3>1, <3>2, <3>3 DEF HandsApart
    <3>6. \A u \in PoolThreads : thr'[u].pc = "a_value" => thr'[u].n \in A2
      BY <3>2, <3>3, <3>8
    <3>7. \A u, v \in PoolThreads : HasNode(u)' /\ HasNode(v)' /\ thr'[u].n = thr'[v].n => u = v
      BY <3>1, <3>2, <3>3, <3>4 DEF HandsApart
    <3> HIDE DEF A2
    <3> QED BY <3>5, <3>6, <3>7 DEF HandsApart
  <2>13. SeenOK(C, A2)'
    <3>1. SeenOK(C, A)
      BY <1>0 DEF NodesOK
    <3> QED BY <1>2, <2>5, <2>7, <3>1 DEF SeenOK
  <2>14. ListsOK(C, own)'
    <3>1. thr'[t].cursor = thr[t].cursor /\ \A u \in PoolThreads : thr'[u].cursor = thr[u].cursor
      BY <2>5, <2>7
    <3>2. \A n \in Nodes : Carried(C, n)' <=> Carried(C, n)
      BY <1>6, <2>2, <2>5, <2>7 DEF Carried
    <3> HIDE DEF A2
    <3> QED BY <1>0, <1>2, <3>1, <3>2, ListsKept
  <2>15. CursorOK' /\ FreshOK'
    BY <1>0, <1>2, <2>5, <2>7 DEF CursorOK, FreshOK
  <2> HIDE DEF A2
  <2>16. PoolInvOf(C, A2, own)'
    BY <2>9, <2>10, <2>11, <2>12, <2>13, <2>14, <2>15 DEF PoolInvOf, NodesOK
  <2> QED BY <2>16 DEF PoolInv
<1> QED BY <1>3, <1>4, <1>5, <1>6 DEF stack_pop

\* The first half of a push, to either stack: the node in hand is linked to the
\* top that was found.
LEMMA PushLoads ==
  ASSUME NEW C, NEW A, NEW own, PoolInvOf(C, A, own), NEW t \in PoolThreads,
         NEW x \in Nodes \cup {Nil}, NEW p,
         \/ thr[t].pc = "a_push" /\ p = "a_pcas"
         \/ thr[t].pc = "r_push" /\ p = "r_pcas",
         node' = [node EXCEPT ![thr[t].n].next = x],
         Step(t, [thr[t] EXCEPT !.old = x, !.pc = p]),
         UNCHANGED <<central, chain, blocks, nodes, top, held, lost>>
  PROVE  PoolInv'
<1> DEFINE me == thr[t]
<1>0. MemTypeOK /\ PhaseOK /\ NodesOK(C, A) /\ ListsOK(C, own) /\ CursorOK /\ FreshOK
  BY DEF PoolInvOf
<1>1. me \in ThreadRecords
  BY <1>0 DEF MemTypeOK
<1>2. StackOK(C, A) /\ HandsApart(C, A) /\ SeenOK(C, A) /\ nodes' = nodes /\ top' = top
  BY <1>0 DEF NodesOK
<1>3. PICK r : r = [me EXCEPT !.old = x, !.pc = p]
  OBVIOUS
<1>4. r \in ThreadRecords /\ r.pc = p /\ r.old = x /\ r.n = me.n /\ r.cursor = me.cursor
  BY <1>1, <1>3 DEF ThreadRecords, AllPlaces
<1>5. /\ thr' \in [PoolThreads -> ThreadRecords]
      /\ thr'[t] = r /\ \A u \in PoolThreads : u # t => thr'[u] = thr[u]
  BY <1>0, <1>3, <1>4, OneMoves
<1>6. PICK y \in Nodes : y = me.n /\ y \notin C /\ y \notin A
  BY <1>0, <1>2, PoolConstants DEF HandsApart, InHand, MemTypeOK
<1>7. /\ node' \in [Nodes -> [value : Blocks \cup {Nil}, next : Nodes \cup {Nil}]]
      /\ node'[y].next = x
      /\ \A z \in Nodes : node'[z].value = node[z].value
      /\ \A z \in Nodes : z # y => node'[z] = node[z]
  BY <1>0, <1>6 DEF MemTypeOK
<1>8. C \subseteq Nodes /\ A \subseteq Nodes
  BY <1>0, <1>2, PoolConstants DEF StackOK, MemTypeOK
<1>9. MemTypeOK'
  BY <1>0, <1>5, <1>7 DEF MemTypeOK
<1>10. PhaseOK'
  <2>1. (r.pc \in APlaces => Aqueiring(t)) /\ (r.pc \in RPlaces => Releasing(t))
    BY <1>4 DEF APlaces, RPlaces, Aqueiring, Releasing
  <2> QED BY <1>0, <1>5, <2>1, PhaseKept
<1>11. StackOK(C, A)'
  <2>1. /\ \A z \in C : Links'[z] = Links[z]
        /\ \A z \in A : Links'[z] = Links[z]
    BY <1>6, <1>7, <1>8 DEF Links
  <2>2. IsList(Links', top["cached"], C) /\ IsList(Links', top["aqueired"], A)
    BY <1>2, <2>1, ListFrame DEF StackOK
  <2> QED BY <1>2, <2>2 DEF StackOK
<1>12. HandsApart(C, A)'
  <2>1. \A u \in PoolThreads : /\ InHand(u)' <=> InHand(u)
                               /\ HasNode(u)' <=> HasNode(u)
                               /\ thr'[u].n = thr[u].n /\ (thr'[u].pc = "a_value" => thr[u].pc = "a_value")
    BY <1>4, <1>5 DEF InHand, HasNode
  <2> QED BY <1>2, <2>1 DEF HandsApart
<1>13. SeenOK(C, A)'
  <2> SUFFICES ASSUME NEW u \in PoolThreads
               PROVE  /\ thr'[u].pc \in {"a_next", "a_cas", "r_next", "r_cas"} => thr'[u].old \in Nodes
                      /\ thr'[u].pc = "a_cas" /\ thr'[u].old \in C => thr'[u].nx = node'[thr'[u].old].next
                      /\ thr'[u].pc = "r_cas" /\ thr'[u].old \in A => thr'[u].nx = node'[thr'[u].old].next
                      /\ thr'[u].pc \in {"a_pcas", "r_pcas"} => node'[thr'[u].n].next = thr'[u].old
    BY DEF SeenOK
  <2>1. CASE u = t
    <3>1. p \in {"a_pcas", "r_pcas"}
      OBVIOUS
    <3> QED BY <1>4, <1>5, <1>6, <1>7, <2>1, <3>1
  <2>2. CASE u # t
    <3>1. thr'[u] = thr[u]
      BY <1>5, <2>2
    <3>2. thr[u].pc \in {"a_pcas", "r_pcas"} => thr[u].n \in Nodes /\ thr[u].n # y
      <4>1. HasNode(t) /\ InHand(t)
        BY DEF HasNode, InHand
      <4>2. thr[u].pc \in {"a_pcas", "r_pcas"} => InHand(u) /\ HasNode(u)
        BY DEF HasNode, InHand
      <4> QED BY <1>0, <1>2, <1>6, <2>2, <4>1, <4>2, PoolConstants DEF HandsApart, MemTypeOK
    <3>3. \A z \in C \cup A : z \in Nodes /\ z # y
      BY <1>6, <1>8
    <3> QED BY <1>2, <1>7, <3>1, <3>2, <3>3 DEF SeenOK
  <2> QED BY <2>1, <2>2
<1>14. ListsOK(C, own)'
  <2>1. \A u \in PoolThreads : thr'[u].cursor = thr[u].cursor
    BY <1>4, <1>5
  <2>2. \A n \in Nodes : Carried(C, n)' <=> Carried(C, n)
    BY <1>4, <1>5 DEF Carried
  <2> QED BY <1>0, <1>7, <2>1, <2>2, ListsKept
<1>15. CursorOK' /\ FreshOK'
  <2>1. me.cursor = Nil
    BY <1>0 DEF CursorOK
  <2> QED BY <1>0, <1>4, <1>5, <2>1 DEF CursorOK, FreshOK
<1>16. PoolInvOf(C, A, own)'
  BY <1>9, <1>10, <1>11, <1>12, <1>13, <1>14, <1>15 DEF PoolInvOf, NodesOK
<1> QED BY <1>16 DEF PoolInv

\* A push whose compare-exchange fails begins anew.
LEMMA PushFails ==
  ASSUME NEW C, NEW A, NEW own, PoolInvOf(C, A, own), NEW t \in PoolThreads, NEW p,
         \/ thr[t].pc = "a_pcas" /\ p = "a_push"
         \/ thr[t].pc = "r_pcas" /\ p = "r_push",
         Step(t, [thr[t] EXCEPT !.pc = p]),
         UNCHANGED <<central, chain, blocks, node, nodes, top, held, lost>>
  PROVE  PoolInv'
<1> DEFINE me == thr[t]
<1>1. me \in ThreadRecords /\ me.cursor = Nil
  BY DEF PoolInvOf, MemTypeOK, CursorOK
<1>2. PICK r : r = [me EXCEPT !.pc = p]
  OBVIOUS
<1>3. r \in ThreadRecords /\ r.pc = p /\ r.n = me.n /\ r.cursor = me.cursor
  BY <1>1, <1>2 DEF ThreadRecords, AllPlaces
<1>4. /\ r.pc \in APlaces => Aqueiring(t)
      /\ r.pc \in RPlaces => Releasing(t)
      /\ r.pc # "a_value" /\ me.pc # "a_value" /\ InHand(t)
      /\ r.pc \in CarryPlaces /\ me.pc \in CarryPlaces
      /\ SeenIn(C, A, r)
  BY <1>3 DEF APlaces, RPlaces, Aqueiring, Releasing, InHand, CarryPlaces, SeenIn
<1>5. PoolInvOf(C, A, own)'
  BY <1>1, <1>2, <1>3, <1>4, ThreadMoves
<1> QED BY <1>5 DEF PoolInv

\* A push to aqueired_ that succeeds: the node is a spare one, its list still to
\* be read.  The top may have come and gone; the node's next is right all the same.
LEMMA SparePushed ==
  ASSUME NEW C, NEW A, NEW own, PoolInvOf(C, A, own), NEW t \in PoolThreads,
         thr[t].pc = "a_pcas", top["aqueired"] = thr[t].old,
         top' = [top EXCEPT !["aqueired"] = thr[t].n],
         Step(t, [thr[t] EXCEPT !.old = Nil, !.pc = "a_value"]),
         UNCHANGED <<central, chain, blocks, node, nodes, held, lost>>
  PROVE  PoolInv'
<1> DEFINE me == thr[t]
<1>0. MemTypeOK /\ PhaseOK /\ NodesOK(C, A) /\ ListsOK(C, own) /\ CursorOK /\ FreshOK
  BY DEF PoolInvOf
<1>1. me \in ThreadRecords
  BY <1>0 DEF MemTypeOK
<1>2. StackOK(C, A) /\ HandsApart(C, A) /\ SeenOK(C, A) /\ nodes' = nodes /\ node' = node
  BY <1>0 DEF NodesOK
<1>3. PICK r : r = [me EXCEPT !.old = Nil, !.pc = "a_value"]
  OBVIOUS
<1>4. r \in ThreadRecords /\ r.pc = "a_value" /\ r.n = me.n /\ r.cursor = me.cursor
  BY <1>1, <1>3 DEF ThreadRecords, AllPlaces
<1>5. /\ thr' \in [PoolThreads -> ThreadRecords]
      /\ thr'[t] = r /\ \A u \in PoolThreads : u # t => thr'[u] = thr[u]
  BY <1>0, <1>3, <1>4, OneMoves
<1>6. PICK y \in Nodes : y = me.n /\ y \in 1 .. nodes /\ y \notin C /\ y \notin A
  BY <1>0, <1>2, PoolConstants DEF HandsApart, InHand, MemTypeOK
<1>7. y # Nil /\ node[y].next = top["aqueired"]
  <2>1. y # Nil
    BY PoolConstants
  <2>2. node[me.n].next = me.old
    BY <1>2, Zenon DEF SeenOK
  <2> QED BY <1>6, <2>1, <2>2, Zenon
<1> DEFINE A2 == A \cup {y}
<1>8. top'["aqueired"] = y /\ top'["cached"] = top["cached"]
  BY <1>0, <1>6 DEF MemTypeOK
<1>9. MemTypeOK'
  BY <1>0, <1>5, <1>6 DEF MemTypeOK
<1>10. PhaseOK'
  <2>1. Aqueiring(t) /\ r.pc \notin RPlaces
    BY <1>4 DEF RPlaces, Aqueiring
  <2> QED BY <1>0, <1>5, <2>1, PhaseKept
<1>11. StackOK(C, A2)'
  <2>1. Links[y] = top["aqueired"] /\ Links' = Links
    BY <1>2, <1>7 DEF Links
  <2>2. IsList(Links, y, A2)
    BY <1>2, <1>6, <1>7, <2>1, ListPut DEF StackOK
  <2>3. IsList(Links', top'["cached"], C) /\ IsList(Links', top'["aqueired"], A2)
    BY <1>2, <1>8, <2>1, <2>2 DEF StackOK
  <2>4. C \subseteq 1 .. nodes' /\ A2 \subseteq 1 .. nodes' /\ C \cap A2 = {}
    BY <1>2, <1>6 DEF StackOK
  <2> HIDE DEF A2
  <2> QED BY <2>3, <2>4 DEF StackOK
<1>12. HandsApart(C, A2)'
  <2>1. \A u \in PoolThreads : u # t => /\ InHand(u)' <=> InHand(u)
                                        /\ HasNode(u)' <=> HasNode(u)
                                        /\ thr'[u].n = thr[u].n /\ thr'[u].pc = thr[u].pc
    BY <1>5 DEF InHand, HasNode
  <2>2. thr'[t].n = y /\ thr'[t].pc = "a_value" /\ ~InHand(t)' /\ HasNode(t)' /\ HasNode(t)
    BY <1>4, <1>5, <1>6 DEF InHand, HasNode
  <2>3. \A u \in PoolThreads : u # t /\ HasNode(u) => thr[u].n # y
    BY <1>2, <1>6, <2>2 DEF HandsApart
  <2>4. \A u \in PoolThreads : InHand(u)' =>
          thr'[u].n \in 1 .. nodes' /\ thr'[u].n \notin C /\ thr'[u].n \notin A2
    BY <1>2, <2>1, <2>2, <2>3 DEF HandsApart, HasNode
  <2>5. \A u \in PoolThreads : thr'[u].pc = "a_value" => thr'[u].n \in A2
    BY <1>2, <2>1, <2>2 DEF HandsApart
  <2>6. \A u, v \in PoolThreads : HasNode(u)' /\ HasNode(v)' /\ thr'[u].n = thr'[v].n => u = v
    BY <1>2, <2>1, <2>2, <2>3 DEF HandsApart
  <2> HIDE DEF A2
  <2> QED BY <2>4, <2>5, <2>6 DEF HandsApart
<1>13. SeenOK(C, A2)'
  <2>1. \A u \in PoolThreads : thr[u].pc # "r_cas"
    BY <1>0 DEF PhaseOK, Aqueiring, Releasing
  <2> QED BY <1>2, <1>4, <1>5, <2>1 DEF SeenOK
<1>14. ListsOK(C, own)'
  <2>1. \A u \in PoolThreads : thr'[u].cursor = thr[u].cursor
    BY <1>4, <1>5
  <2>2. \A n \in Nodes : Carried(C, n)' <=> Carried(C, n)
    BY <1>4, <1>5 DEF Carried
  <2> QED BY <1>0, <1>2, <2>1, <2>2, ListsKept
<1>15. CursorOK' /\ FreshOK'
  <2>1. me.cursor = Nil
    BY <1>0 DEF CursorOK
  <2> QED BY <1>0, <1>4, <1>5, <2>1 DEF CursorOK, FreshOK
<1> HIDE DEF A2
<1>16. PoolInvOf(C, A2, own)'
  BY <1>9, <1>10, <1>11, <1>12, <1>13, <1>14, <1>15 DEF PoolInvOf, NodesOK
<1> QED BY <1>16 DEF PoolInv

\* A push to cached_ that succeeds: the node's list is for whoever takes it.
LEMMA ListPushed ==
  ASSUME NEW C, NEW A, NEW own, PoolInvOf(C, A, own), NEW t \in PoolThreads,
         thr[t].pc = "r_pcas", top["cached"] = thr[t].old,
         top' = [top EXCEPT !["cached"] = thr[t].n],
         Step(t, [thr[t] EXCEPT !.old = Nil, !.pc = "none"]),
         UNCHANGED <<central, chain, blocks, node, nodes, held, lost>>
  PROVE  PoolInv'
<1> DEFINE me == thr[t]
<1>0. MemTypeOK /\ PhaseOK /\ NodesOK(C, A) /\ ListsOK(C, own) /\ CursorOK /\ FreshOK
  BY DEF PoolInvOf
<1>1. me \in ThreadRecords
  BY <1>0 DEF MemTypeOK
<1>2. StackOK(C, A) /\ HandsApart(C, A) /\ SeenOK(C, A) /\ nodes' = nodes /\ node' = node
  BY <1>0 DEF NodesOK
<1>3. PICK r : r = [me EXCEPT !.old = Nil, !.pc = "none"]
  OBVIOUS
<1>4. r \in ThreadRecords /\ r.pc = "none" /\ r.n = me.n /\ r.cursor = me.cursor
  BY <1>1, <1>3 DEF ThreadRecords, AllPlaces
<1>5. /\ thr' \in [PoolThreads -> ThreadRecords]
      /\ thr'[t] = r /\ \A u \in PoolThreads : u # t => thr'[u] = thr[u]
  BY <1>0, <1>3, <1>4, OneMoves
<1>6. PICK y \in Nodes : y = me.n /\ y \in 1 .. nodes /\ y \notin C /\ y \notin A
  BY <1>0, <1>2, PoolConstants DEF HandsApart, InHand, MemTypeOK
<1>7. y # Nil /\ node[y].next = top["cached"]
  <2>1. y # Nil
    BY PoolConstants
  <2>2. node[me.n].next = me.old
    BY <1>2, Zenon DEF SeenOK
  <2> QED BY <1>6, <2>1, <2>2, Zenon
<1> DEFINE C2 == C \cup {y}
<1>8. top'["cached"] = y /\ top'["aqueired"] = top["aqueired"]
  BY <1>0, <1>6 DEF MemTypeOK
<1>9. MemTypeOK'
  BY <1>0, <1>5, <1>6 DEF MemTypeOK
<1>10. PhaseOK'
  <2>1. r.pc \notin APlaces /\ r.pc \notin RPlaces
    BY <1>4 DEF RPlaces, APlaces
  <2> QED BY <1>0, <1>5, <2>1, PhaseKept
<1>11. StackOK(C2, A)'
  <2>1. Links[y] = top["cached"] /\ Links' = Links
    BY <1>2, <1>7 DEF Links
  <2>2. IsList(Links, y, C2)
    BY <1>2, <1>6, <1>7, <2>1, ListPut DEF StackOK
  <2>3. IsList(Links', top'["cached"], C2) /\ IsList(Links', top'["aqueired"], A)
    BY <1>2, <1>8, <2>1, <2>2 DEF StackOK
  <2>4. C2 \subseteq 1 .. nodes' /\ A \subseteq 1 .. nodes' /\ C2 \cap A = {}
    BY <1>2, <1>6 DEF StackOK
  <2> HIDE DEF C2
  <2> QED BY <2>3, <2>4 DEF StackOK
<1>12. HandsApart(C2, A)'
  <2>1. \A u \in PoolThreads : u # t => /\ InHand(u)' <=> InHand(u)
                                        /\ HasNode(u)' <=> HasNode(u)
                                        /\ thr'[u].n = thr[u].n /\ thr'[u].pc = thr[u].pc
    BY <1>5 DEF InHand, HasNode
  <2>2. thr'[t].pc = "none" /\ ~InHand(t)' /\ ~HasNode(t)' /\ HasNode(t)
    BY <1>4, <1>5 DEF InHand, HasNode
  <2>3. \A u \in PoolThreads : u # t /\ HasNode(u) => thr[u].n # y
    BY <1>2, <1>6, <2>2 DEF HandsApart
  <2>4. \A u \in PoolThreads : InHand(u)' =>
          thr'[u].n \in 1 .. nodes' /\ thr'[u].n \notin C2 /\ thr'[u].n \notin A
    BY <1>2, <2>1, <2>2, <2>3 DEF HandsApart, HasNode
  <2>5. \A u \in PoolThreads : thr'[u].pc = "a_value" => thr'[u].n \in A
    BY <1>2, <2>1, <2>2 DEF HandsApart
  <2>6. \A u, v \in PoolThreads : HasNode(u)' /\ HasNode(v)' /\ thr'[u].n = thr'[v].n => u = v
    BY <1>2, <2>1, <2>2, <2>3 DEF HandsApart
  <2> HIDE DEF C2
  <2> QED BY <2>4, <2>5, <2>6 DEF HandsApart
<1>13. SeenOK(C2, A)'
  <2>1. \A u \in PoolThreads : thr[u].pc # "a_cas"
    BY <1>0 DEF PhaseOK, Aqueiring, Releasing
  <2> QED BY <1>2, <1>4, <1>5, <2>1 DEF SeenOK
<1>14. ListsOK(C2, own)'
  <2>1. \A u \in PoolThreads : thr'[u].cursor = thr[u].cursor
    BY <1>4, <1>5
  <2>2. \A n \in Nodes : Carried(C2, n)' <=> Carried(C, n)
    BY <1>4, <1>5, <1>6 DEF Carried
  <2> HIDE DEF C2
  <2> QED BY <1>0, <1>2, <2>1, <2>2, ListsKept
<1>15. CursorOK' /\ FreshOK'
  <2>1. me.cursor = Nil
    BY <1>0 DEF CursorOK
  <2> QED BY <1>0, <1>4, <1>5, <2>1 DEF CursorOK, FreshOK
<1> HIDE DEF C2
<1>16. PoolInvOf(C2, A, own)'
  BY <1>9, <1>10, <1>11, <1>12, <1>13, <1>14, <1>15 DEF PoolInvOf, NodesOK
<1> QED BY <1>16 DEF PoolInv

\* aqueire and release as far as the stacks go.
LEMMA StacksKeep ==
  ASSUME NEW C, NEW A, NEW own, PoolInvOf(C, A, own), NEW t \in PoolThreads,
         aqueire(t) \/ pool_release(t)
  PROVE  PoolInv'
<1>0. top["cached"] \in Nodes \cup {Nil} /\ top["aqueired"] \in Nodes \cup {Nil}
  BY DEF PoolInvOf, MemTypeOK
<1>1. CASE stack_pop(t, "cached", "a_pop", "a_next", "a_cas", "a_none", "a_push")
  BY <1>1, AqueirePops
<1>2. CASE stack_pop(t, "aqueired", "r_pop", "r_next", "r_cas", "r_node", "r_value")
  BY <1>2, ReleasePops
<1>3. CASE stack_push(t, "aqueired", "a_push", "a_pcas", "a_value")
  <2>1. PICK x \in Nodes \cup {Nil} : x = top["aqueired"]
    BY <1>0
  <2>2. CASE thr[t].pc = "a_push" /\ node' = [node EXCEPT ![thr[t].n].next = x]
             /\ Step(t, [thr[t] EXCEPT !.old = x, !.pc = "a_pcas"]) /\ UNCHANGED top
    <3>1. UNCHANGED <<central, chain, blocks, nodes, top, held, lost>>
      BY <1>3, <2>2 DEF stack_push
    <3>2. PICK p : p = "a_pcas"
      OBVIOUS
    <3> QED BY <2>2, <3>1, <3>2, PushLoads
  <2>3. CASE thr[t].pc = "a_pcas" /\ top["aqueired"] = thr[t].old
             /\ top' = [top EXCEPT !["aqueired"] = thr[t].n]
             /\ Step(t, [thr[t] EXCEPT !.old = Nil, !.pc = "a_value"]) /\ UNCHANGED node
    <3>1. UNCHANGED <<central, chain, blocks, node, nodes, held, lost>>
      BY <1>3, <2>3 DEF stack_push
    <3> QED BY <2>3, <3>1, SparePushed
  <2>4. CASE thr[t].pc = "a_pcas" /\ Step(t, [thr[t] EXCEPT !.pc = "a_push"]) /\ UNCHANGED <<node, top>>
    <3>1. UNCHANGED <<central, chain, blocks, node, nodes, top, held, lost>>
      BY <1>3, <2>4 DEF stack_push
    <3>2. PICK p : p = "a_push"
      OBVIOUS
    <3> QED BY <2>4, <3>1, <3>2, PushFails
  <2> QED BY <1>3, <2>1, <2>2, <2>3, <2>4 DEF stack_push
<1>4. CASE stack_push(t, "cached", "r_push", "r_pcas", "none")
  <2>1. PICK x \in Nodes \cup {Nil} : x = top["cached"]
    BY <1>0
  <2>2. CASE thr[t].pc = "r_push" /\ node' = [node EXCEPT ![thr[t].n].next = x]
             /\ Step(t, [thr[t] EXCEPT !.old = x, !.pc = "r_pcas"]) /\ UNCHANGED top
    <3>1. UNCHANGED <<central, chain, blocks, nodes, top, held, lost>>
      BY <1>4, <2>2 DEF stack_push
    <3>2. PICK p : p = "r_pcas"
      OBVIOUS
    <3> QED BY <2>2, <3>1, <3>2, PushLoads
  <2>3. CASE thr[t].pc = "r_pcas" /\ top["cached"] = thr[t].old
             /\ top' = [top EXCEPT !["cached"] = thr[t].n]
             /\ Step(t, [thr[t] EXCEPT !.old = Nil, !.pc = "none"]) /\ UNCHANGED node
    <3>1. UNCHANGED <<central, chain, blocks, node, nodes, held, lost>>
      BY <1>4, <2>3 DEF stack_push
    <3> QED BY <2>3, <3>1, ListPushed
  <2>4. CASE thr[t].pc = "r_pcas" /\ Step(t, [thr[t] EXCEPT !.pc = "r_push"]) /\ UNCHANGED <<node, top>>
    <3>1. UNCHANGED <<central, chain, blocks, node, nodes, top, held, lost>>
      BY <1>4, <2>4 DEF stack_push
    <3>2. PICK p : p = "r_push"
      OBVIOUS
    <3> QED BY <2>4, <3>1, <3>2, PushFails
  <2> QED BY <1>4, <2>1, <2>2, <2>3, <2>4 DEF stack_push
<1> QED BY <1>1, <1>2, <1>3, <1>4 DEF aqueire, pool_release

-----------------------------------------------------------------------------
(* Pools: the owners of blocks. *)

\* x has nothing any more, y has what both had, and the others what they had.
Handed(own, own2, x, y) ==
  /\ Of(own2, y) = Of(own, x) \cup Of(own, y) /\ Of(own2, x) = {}
  /\ \A z : z # x /\ z # y => Of(own2, z) = Of(own, z)

\* The same for a single block.
HandedOne(own, own2, b, x, y) ==
  /\ Of(own2, y) = Of(own, y) \cup {b} /\ Of(own2, x) = Of(own, x) \ {b}
  /\ \A z : z # x /\ z # y => Of(own2, z) = Of(own, z)

\* All that belongs to one goes to another.
LEMMA Handover ==
  ASSUME NEW D, NEW own \in [D -> Keepers], NEW x, NEW y \in Keepers, x # y
  PROVE  \E own2 \in [D -> Keepers] : Handed(own, own2, x, y)
<1> DEFINE own2 == [b \in D |-> IF own[b] = x THEN y ELSE own[b]]
<1>1. own2 \in [D -> Keepers] /\ \A b \in D : own2[b] = IF own[b] = x THEN y ELSE own[b]
  OBVIOUS
<1> HIDE DEF own2
<1>2. \A z, b : (b \in Of(own2, z) <=> b \in D /\ own2[b] = z) /\ (b \in Of(own, z) <=> b \in D /\ own[b] = z)
  BY <1>1 DEF Of
<1>3. Of(own2, y) = Of(own, x) \cup Of(own, y)
  BY <1>1, <1>2
<1>4. Of(own2, x) = {}
  BY <1>1, <1>2
<1>5. ASSUME NEW z, z # x, z # y PROVE Of(own2, z) = Of(own, z)
  BY <1>1, <1>2, <1>5
<1>6. Handed(own, own2, x, y)
  BY <1>3, <1>4, <1>5 DEF Handed
<1> QED BY <1>1, <1>6

\* A single block goes from one to another.
LEMMA HandOne ==
  ASSUME NEW D, NEW own \in [D -> Keepers], NEW x, NEW b \in Of(own, x), NEW y \in Keepers, x # y
  PROVE  \E own2 \in [D -> Keepers] : HandedOne(own, own2, b, x, y)
<1> DEFINE own2 == [c \in D |-> IF c = b THEN y ELSE own[c]]
<1>1. own2 \in [D -> Keepers] /\ \A c \in D : own2[c] = IF c = b THEN y ELSE own[c]
  OBVIOUS
<1> HIDE DEF own2
<1>2. \A z, c : (c \in Of(own2, z) <=> c \in D /\ own2[c] = z) /\ (c \in Of(own, z) <=> c \in D /\ own[c] = z)
  BY <1>1 DEF Of
<1>3. b \in D /\ own[b] = x
  BY <1>2
<1>4. Of(own2, y) = Of(own, y) \cup {b}
  BY <1>1, <1>2, <1>3
<1>5. Of(own2, x) = Of(own, x) \ {b}
  BY <1>1, <1>2, <1>3
<1>6. ASSUME NEW z, z # x, z # y PROVE Of(own2, z) = Of(own, z)
  BY <1>1, <1>2, <1>3, <1>6
<1>7. HandedOne(own, own2, b, x, y)
  BY <1>4, <1>5, <1>6 DEF HandedOne
<1> QED BY <1>1, <1>7

\* Owners are told apart.
LEMMA OwnersDiffer ==
  /\ Users \in Keepers /\ Gone \in Keepers /\ Users # Gone
  /\ \A t \in PoolThreads : Mine(t) \in Keepers /\ Mine(t) # Users /\ Mine(t) # Gone
  /\ \A n \in Nodes : In(n) \in Keepers /\ In(n) # Users /\ In(n) # Gone
  /\ \A t, n : Mine(t) # In(n)
  /\ \A t, u : Mine(t) = Mine(u) => t = u
  /\ \A m, n : In(m) = In(n) => m = n
BY DEF Users, Gone, Mine, In, Keepers

\* Chain gives the blocks of a list that somebody owns.
LEMMA ChainIs ==
  ASSUME MemTypeOK, NEW own \in [1 .. blocks -> Keepers], NEW b, NEW x, IsList(chain, b, Of(own, x))
  PROVE  Chain(b) = Of(own, x) /\ Of(own, x) \subseteq 1 .. blocks
<1>1. Of(own, x) \subseteq 1 .. blocks /\ blocks \in Nat
  BY DEF Of, MemTypeOK
<1> QED BY <1>1, LinkedIsList DEF Chain

\* The stacks and the nodes in hand, when no node is linked anew.
LEMMA NodesKept ==
  ASSUME NEW C, NEW A, NodesOK(C, A), NEW t \in PoolThreads, NEW r, thr'[t] = r,
         \A u \in PoolThreads : u # t => thr'[u] = thr[u],
         \A n \in Nodes : node'[n].next = node[n].next,
         top' = top, nodes \in 0 .. MaxNodes, nodes' \in 0 .. MaxNodes, nodes <= nodes',
         r.pc \notin {"a_next", "a_cas", "r_next", "r_cas", "a_pcas", "r_pcas", "a_value"},
         r.pc \in HandPlaces => /\ r.n \in 1 .. nodes' /\ r.n \notin C /\ r.n \notin A
                                /\ \A u \in PoolThreads : u # t /\ HasNode(u) => thr[u].n # r.n
  PROVE  NodesOK(C, A)'
<1>0. StackOK(C, A) /\ HandsApart(C, A) /\ SeenOK(C, A)
  BY DEF NodesOK
<1>1. C \subseteq Nodes /\ A \subseteq Nodes /\ C \subseteq 1 .. nodes' /\ A \subseteq 1 .. nodes'
  BY <1>0, PoolConstants DEF StackOK
<1>2. StackOK(C, A)'
  <2>1. Links' = Links
    BY DEF Links
  <2> QED BY <1>0, <1>1, <2>1 DEF StackOK
<1>3. \A u \in PoolThreads : u # t => /\ InHand(u)' <=> InHand(u)
                                      /\ HasNode(u)' <=> HasNode(u)
                                      /\ thr'[u].n = thr[u].n /\ thr'[u].pc = thr[u].pc
  BY DEF InHand, HasNode
<1>4. (InHand(t)' <=> r.pc \in HandPlaces) /\ (HasNode(t)' <=> r.pc \in HandPlaces)
  BY DEF InHand, HasNode, HandPlaces
<1>5. HandsApart(C, A)'
  <2>1. \A u \in PoolThreads : InHand(u)' =>
          thr'[u].n \in 1 .. nodes' /\ thr'[u].n \notin C /\ thr'[u].n \notin A
    <3>1. \A z \in 1 .. nodes : z \in 1 .. nodes'
      OBVIOUS
    <3> QED BY <1>0, <1>3, <1>4, <3>1 DEF HandsApart
  <2>2. \A u \in PoolThreads : thr'[u].pc = "a_value" => thr'[u].n \in A
    BY <1>0, <1>3 DEF HandsApart
  <2>3. \A u, v \in PoolThreads : HasNode(u)' /\ HasNode(v)' /\ thr'[u].n = thr'[v].n => u = v
    BY <1>0, <1>3, <1>4 DEF HandsApart
  <2> QED BY <2>1, <2>2, <2>3 DEF HandsApart
<1>6. SeenOK(C, A)'
  <2>1. \A u \in PoolThreads : thr[u].pc \in {"a_pcas", "r_pcas"} => thr[u].n \in Nodes
    BY <1>0, PoolConstants DEF HandsApart, InHand
  <2> SUFFICES ASSUME NEW u \in PoolThreads
               PROVE  /\ thr'[u].pc \in {"a_next", "a_cas", "r_next", "r_cas"} => thr'[u].old \in Nodes
                      /\ thr'[u].pc = "a_cas" /\ thr'[u].old \in C => thr'[u].nx = node'[thr'[u].old].next
                      /\ thr'[u].pc = "r_cas" /\ thr'[u].old \in A => thr'[u].nx = node'[thr'[u].old].next
                      /\ thr'[u].pc \in {"a_pcas", "r_pcas"} => node'[thr'[u].n].next = thr'[u].old
    BY DEF SeenOK
  <2>2. CASE u = t
    BY <2>2
  <2>3. CASE u # t
    <3>1. thr'[u] = thr[u]
      BY <2>3
    <3>2. thr[u].pc \in {"a_next", "a_cas", "r_next", "r_cas"} => thr[u].old \in Nodes
      BY <1>0 DEF SeenOK
    <3>3. thr[u].pc = "a_cas" /\ thr[u].old \in C => thr[u].nx = node'[thr[u].old].next
      BY <1>0, <1>1 DEF SeenOK
    <3>4. thr[u].pc = "r_cas" /\ thr[u].old \in A => thr[u].nx = node'[thr[u].old].next
      BY <1>0, <1>1 DEF SeenOK
    <3>5. thr[u].pc \in {"a_pcas", "r_pcas"} => node'[thr[u].n].next = thr[u].old
      BY <1>0, <2>1 DEF SeenOK
    <3> QED BY <3>1, <3>2, <3>3, <3>4, <3>5
  <2> QED BY <2>2, <2>3
<1> QED BY <1>2, <1>5, <1>6 DEF NodesOK

\* The list of a node that has become a spare one is read: it is the thread's now.
LEMMA ValueKeeps ==
  ASSUME NEW C, NEW A, NEW own, PoolInvOf(C, A, own), NEW t \in PoolThreads, aqueire_value(t)
  PROVE  PoolInv'
<1> DEFINE me == thr[t]
<1>0. MemTypeOK /\ PhaseOK /\ NodesOK(C, A) /\ ListsOK(C, own) /\ CursorOK /\ FreshOK
  BY DEF PoolInvOf
<1>1. /\ me \in ThreadRecords /\ me.pc = "a_value" /\ Step(t, Got(t, node[me.n].value))
      /\ UNCHANGED <<central, chain, blocks, node, nodes, top, held, lost>>
  BY <1>0 DEF MemTypeOK, aqueire_value
<1>2. PICK y \in Nodes : y = me.n /\ y \in A /\ y \notin C
  <2>1. me.n \in A
    BY <1>0, <1>1 DEF NodesOK, HandsApart
  <2>2. A \subseteq Nodes /\ C \cap A = {}
    BY <1>0, PoolConstants DEF NodesOK, StackOK, MemTypeOK
  <2> QED BY <2>1, <2>2
<1>3. PICK v \in Blocks \cup {Nil} : v = node[y].value
  BY <1>0 DEF MemTypeOK
<1>4. PICK r : r = Got(t, v)
  OBVIOUS
<1>5. r \in ThreadRecords /\ r.pc \in {"get", "live"} /\ r.cursor = v
  BY <1>4 DEF Got, NoThread, ThreadRecords, AllPlaces
<1>6. /\ thr' \in [PoolThreads -> ThreadRecords]
      /\ thr'[t] = r /\ \A u \in PoolThreads : u # t => thr'[u] = thr[u]
  <2>1. Step(t, r)
    BY <1>1, <1>2, <1>3, <1>4
  <2> QED BY <1>0, <1>5, <2>1, OneMoves
<1>7. MemTypeOK'
  BY <1>0, <1>1, <1>6 DEF MemTypeOK
<1>8. PhaseOK'
  <2>1. r.pc \notin APlaces /\ r.pc \notin RPlaces
    BY <1>5 DEF RPlaces, APlaces
  <2> QED BY <1>0, <1>6, <2>1, PhaseKept
<1>9. NodesOK(C, A)'
  <2>1. r.pc \notin {"a_next", "a_cas", "r_next", "r_cas", "a_pcas", "r_pcas", "a_value"} /\ r.pc \notin HandPlaces
    BY <1>5 DEF HandPlaces
  <2>2. nodes \in 0 .. MaxNodes /\ nodes' = nodes /\ nodes <= nodes' /\ top' = top /\ node' = node
    BY <1>0, <1>1 DEF MemTypeOK
  <2> QED BY <1>0, <1>6, <2>1, <2>2, NodesKept
<1>10. own \in [1 .. blocks -> Keepers] /\ Mine(t) \in Keepers /\ In(y) # Mine(t)
  BY <1>0, OwnersDiffer DEF ListsOK
<1>h. PICK own2 \in [1 .. blocks -> Keepers] : Handed(own, own2, In(y), Mine(t))
  BY <1>10, Handover
<1>a. /\ Of(own2, Mine(t)) = Of(own, In(y)) \cup Of(own, Mine(t))
      /\ Of(own2, In(y)) = {}
      /\ \A z : z # In(y) /\ z # Mine(t) => Of(own2, z) = Of(own, z)
  BY <1>h DEF Handed
<1>11. Carried(C, y) /\ ~Carried(C, y)'
  <2>1. \A u \in PoolThreads : u # t /\ thr[u].pc \in CarryPlaces => thr[u].n # y
    <3>1. \A u \in PoolThreads : thr[u].pc \in CarryPlaces => HasNode(u)
      BY DEF HasNode, InHand, CarryPlaces
    <3>2. HasNode(t)
      BY <1>1 DEF HasNode
    <3> QED BY <1>0, <1>2, <3>1, <3>2 DEF NodesOK, HandsApart
  <2>2. ~Carried(C, y)'
    BY <1>2, <1>5, <1>6, <2>1 DEF Carried, CarryPlaces
  <2>3. Carried(C, y)
    BY <1>1, <1>2 DEF Carried
  <2> QED BY <2>2, <2>3
<1>12. \A n \in Nodes : n # y => (Carried(C, n)' <=> Carried(C, n))
  BY <1>1, <1>2, <1>5, <1>6 DEF Carried
<1>13. Of(own, Mine(t)) = {}
  <2>1. me.cursor = Nil
    BY <1>0, <1>1 DEF CursorOK
  <2> QED BY <1>0, <2>1, ListHead DEF ListsOK
<1>14. ListsOK(C, own2)'
  <2>1. /\ held' = Of(own2, Users) /\ lost' = Of(own2, Gone)
    BY <1>0, <1>1, <1>10, <1>a, OwnersDiffer DEF ListsOK
  <2>2. ASSUME NEW u \in PoolThreads PROVE IsList(chain', thr'[u].cursor, Of(own2, Mine(u)))
    <3>1. CASE u = t
      <4>1. IsList(chain, v, Of(own, In(y)))
        BY <1>0, <1>3, <1>11 DEF ListsOK
      <4>2. Of(own2, Mine(u)) = Of(own, In(y)) /\ thr'[u].cursor = v /\ chain' = chain
        BY <1>1, <1>5, <1>6, <1>10, <1>a, <1>13, <3>1
      <4> QED BY <4>1, <4>2
    <3>2. CASE u # t
      <4>1. Of(own2, Mine(u)) = Of(own, Mine(u)) /\ thr'[u].cursor = thr[u].cursor /\ chain' = chain
        BY <1>1, <1>6, <1>10, <1>a, <3>2, OwnersDiffer
      <4> QED BY <1>0, <4>1 DEF ListsOK
    <3> QED BY <3>1, <3>2
  <2>3. \A n \in Nodes : n # y => Of(own2, In(n)) = Of(own, In(n))
    BY <1>10, <1>a, OwnersDiffer
  <2>4. \A n \in Nodes : Carried(C, n)' => IsList(chain', node'[n].value, Of(own2, In(n)))
    BY <1>0, <1>1, <1>11, <1>12, <2>3 DEF ListsOK
  <2>5. \A n \in Nodes : ~Carried(C, n)' => Of(own2, In(n)) = {}
    BY <1>0, <1>10, <1>a, <1>12, <2>3 DEF ListsOK
  <2> QED BY <1>1, <1>10, <1>a, <2>1, <2>2, <2>4, <2>5 DEF ListsOK
<1>15. CursorOK' /\ FreshOK'
  BY <1>0, <1>1, <1>5, <1>6 DEF CursorOK, FreshOK
<1>16. PoolInvOf(C, A, own2)'
  BY <1>7, <1>8, <1>9, <1>14, <1>15 DEF PoolInvOf
<1> QED BY <1>16 DEF PoolInv

\* A new node for a release.
LEMMA NewNodeKeeps ==
  ASSUME NEW C, NEW A, NEW own, PoolInvOf(C, A, own), NEW t \in PoolThreads, release_node(t)
  PROVE  PoolInv'
<1> DEFINE me == thr[t]
<1>0. MemTypeOK /\ PhaseOK /\ NodesOK(C, A) /\ ListsOK(C, own) /\ CursorOK /\ FreshOK
  BY DEF PoolInvOf
<1>1. /\ me \in ThreadRecords /\ me.pc = "r_node" /\ Step(t, [me EXCEPT !.n = nodes', !.pc = "r_value"])
      /\ nodes \in 0 .. MaxNodes /\ nodes < MaxNodes /\ nodes' = nodes + 1
      /\ UNCHANGED <<central, chain, blocks, node, top, held, lost>>
  BY <1>0 DEF MemTypeOK, release_node
<1>2. PICK y \in Nodes : y = nodes + 1 /\ y = nodes'
  BY <1>1, PoolConstants
<1>3. PICK r : r = [me EXCEPT !.n = y, !.pc = "r_value"]
  OBVIOUS
<1>4. r \in ThreadRecords /\ r.pc = "r_value" /\ r.n = y /\ r.cursor = me.cursor
  BY <1>1, <1>3 DEF ThreadRecords, AllPlaces
<1>5. /\ thr' \in [PoolThreads -> ThreadRecords]
      /\ thr'[t] = r /\ \A u \in PoolThreads : u # t => thr'[u] = thr[u]
  <2>1. Step(t, r)
    BY <1>1, <1>2, <1>3
  <2> QED BY <1>0, <1>4, <2>1, OneMoves
<1>6. MemTypeOK'
  <2>1. nodes' \in 0 .. MaxNodes
    BY <1>1, PoolConstants
  <2> QED BY <1>0, <1>1, <1>5, <2>1 DEF MemTypeOK
<1>7. PhaseOK'
  <2>1. r.pc \notin APlaces /\ Releasing(t)
    BY <1>1, <1>4 DEF Releasing, APlaces
  <2> QED BY <1>0, <1>5, <2>1, PhaseKept
<1>8. NodesOK(C, A)'
  <2>1. r.pc \notin {"a_next", "a_cas", "r_next", "r_cas", "a_pcas", "r_pcas", "a_value"}
    BY <1>4
  <2>2. nodes \in 0 .. MaxNodes /\ nodes' \in 0 .. MaxNodes /\ nodes <= nodes' /\ top' = top /\ node' = node
    BY <1>1, PoolConstants
  <2>3. y \in 1 .. nodes' /\ y \notin 1 .. nodes
    BY <1>1, <1>2
  <2>4. /\ C \subseteq 1 .. nodes /\ A \subseteq 1 .. nodes
        /\ \A u \in PoolThreads : HasNode(u) => thr[u].n \in 1 .. nodes
    BY <1>0 DEF NodesOK, StackOK, HandsApart, HasNode
  <2>5. r.n \in 1 .. nodes' /\ r.n \notin C /\ r.n \notin A
        /\ \A u \in PoolThreads : u # t /\ HasNode(u) => thr[u].n # r.n
    BY <1>4, <2>3, <2>4
  <2> QED BY <1>0, <1>5, <2>1, <2>2, <2>5, NodesKept
<1>9. ListsOK(C, own)'
  <2>1. \A u \in PoolThreads : thr'[u].cursor = thr[u].cursor
    BY <1>4, <1>5
  <2>2. \A n \in Nodes : Carried(C, n)' <=> Carried(C, n)
    BY <1>1, <1>4, <1>5 DEF Carried
  <2>3. \A n \in Nodes : node'[n].value = node[n].value
    BY <1>1
  <2> QED BY <1>0, <1>1, <2>1, <2>2, <2>3, ListsKept
<1>10. CursorOK' /\ FreshOK'
  BY <1>0, <1>1, <1>4, <1>5 DEF CursorOK, FreshOK
<1>11. PoolInvOf(C, A, own)'
  BY <1>6, <1>7, <1>8, <1>9, <1>10 DEF PoolInvOf
<1> QED BY <1>11 DEF PoolInv

\* A thread gives its whole list away and has no node afterwards: to the users
\* (pool_adopt) or to nobody (release_fails).
LEMMA GivesAll ==
  ASSUME NEW C, NEW A, NEW own, PoolInvOf(C, A, own), NEW t \in PoolThreads,
         NEW r \in ThreadRecords, Step(t, r), r.pc \in {"none", "live"}, r.cursor = Nil,
         thr[t].pc \in {"live", "r_node"},
         NEW x, UNCHANGED <<central, chain, blocks, node, nodes, top>>,
         \/ x = Users /\ held' = held \cup Chain(thr[t].cursor) /\ lost' = lost
         \/ x = Gone /\ lost' = lost \cup Chain(thr[t].cursor) /\ held' = held
  PROVE  PoolInv'
<1>0. MemTypeOK /\ PhaseOK /\ NodesOK(C, A) /\ ListsOK(C, own) /\ CursorOK /\ FreshOK
  BY DEF PoolInvOf
<1>1. /\ thr' \in [PoolThreads -> ThreadRecords]
      /\ thr'[t] = r /\ \A u \in PoolThreads : u # t => thr'[u] = thr[u]
  BY <1>0, OneMoves
<1>2. own \in [1 .. blocks -> Keepers] /\ x \in Keepers /\ Mine(t) # x
  BY <1>0, OwnersDiffer DEF ListsOK
<1>3. PICK own2 \in [1 .. blocks -> Keepers] : Handed(own, own2, Mine(t), x)
  BY <1>2, Handover
<1>4. /\ Of(own2, x) = Of(own, Mine(t)) \cup Of(own, x)
      /\ Of(own2, Mine(t)) = {}
      /\ \A z : z # Mine(t) /\ z # x => Of(own2, z) = Of(own, z)
  BY <1>3 DEF Handed
<1>5. Chain(thr[t].cursor) = Of(own, Mine(t))
  <2>1. IsList(chain, thr[t].cursor, Of(own, Mine(t)))
    BY <1>0 DEF ListsOK
  <2> QED BY <1>0, <1>2, <2>1, ChainIs
<1>6. MemTypeOK'
  BY <1>0, <1>1 DEF MemTypeOK
<1>7. PhaseOK'
  <2>1. r.pc \notin APlaces /\ r.pc \notin RPlaces
    BY DEF APlaces, RPlaces
  <2> QED BY <1>0, <1>1, <2>1, PhaseKept
<1>8. NodesOK(C, A)'
  <2>1. r.pc \notin {"a_next", "a_cas", "r_next", "r_cas", "a_pcas", "r_pcas", "a_value"} /\ r.pc \notin HandPlaces
    BY DEF HandPlaces
  <2>2. nodes \in 0 .. MaxNodes /\ nodes' = nodes /\ nodes <= nodes' /\ top' = top /\ node' = node
    BY <1>0 DEF MemTypeOK
  <2> QED BY <1>0, <1>1, <2>1, <2>2, NodesKept
<1>9. \A n \in Nodes : Carried(C, n)' <=> Carried(C, n)
  BY <1>1 DEF Carried
<1>10. ListsOK(C, own2)'
  <2>1. held' = Of(own2, Users) /\ lost' = Of(own2, Gone)
    <3>1. held = Of(own, Users) /\ lost = Of(own, Gone) /\ Users # Gone /\ Users # Mine(t) /\ Gone # Mine(t)
      BY <1>0, OwnersDiffer DEF ListsOK
    <3> QED BY <1>4, <1>5, <3>1
  <2>2. ASSUME NEW u \in PoolThreads PROVE IsList(chain', thr'[u].cursor, Of(own2, Mine(u)))
    <3>1. CASE u = t
      BY <1>1, <1>4, <3>1, EmptyList
    <3>2. CASE u # t
      <4>1. Of(own2, Mine(u)) = Of(own, Mine(u)) /\ thr'[u].cursor = thr[u].cursor /\ chain' = chain
        BY <1>1, <1>4, <3>2, OwnersDiffer
      <4> QED BY <1>0, <4>1 DEF ListsOK
    <3> QED BY <3>1, <3>2
  <2>3. \A n \in Nodes : Of(own2, In(n)) = Of(own, In(n))
    BY <1>4, OwnersDiffer
  <2>4. \A n \in Nodes : Carried(C, n)' => IsList(chain', node'[n].value, Of(own2, In(n)))
    BY <1>0, <1>9, <2>3 DEF ListsOK
  <2>5. \A n \in Nodes : ~Carried(C, n)' => Of(own2, In(n)) = {}
    BY <1>0, <1>9, <2>3 DEF ListsOK
  <2> QED BY <2>1, <2>2, <2>4, <2>5 DEF ListsOK
<1>11. CursorOK' /\ FreshOK'
  BY <1>0, <1>1 DEF CursorOK, FreshOK
<1>12. PoolInvOf(C, A, own2)'
  BY <1>6, <1>7, <1>8, <1>10, <1>11 DEF PoolInvOf
<1> QED BY <1>12 DEF PoolInv

\* release without a node, and a sized pool that takes a general one's list over.
LEMMA AllGiven ==
  ASSUME NEW C, NEW A, NEW own, PoolInvOf(C, A, own), NEW t \in PoolThreads,
         release_fails(t) \/ pool_adopt(t)
  PROVE  PoolInv'
<1>0. thr[t] \in ThreadRecords
  BY DEF PoolInvOf, MemTypeOK
<1>1. CASE release_fails(t)
  <2>1. PICK r, x : r = NoThread /\ x = Gone
    OBVIOUS
  <2>2. r \in ThreadRecords /\ r.pc \in {"none", "live"} /\ r.cursor = Nil
    BY <2>1 DEF NoThread, ThreadRecords, AllPlaces
  <2>3. /\ Step(t, r) /\ thr[t].pc \in {"live", "r_node"}
        /\ x = Gone /\ lost' = lost \cup Chain(thr[t].cursor) /\ held' = held
        /\ UNCHANGED <<central, chain, blocks, node, nodes, top>>
    BY <1>1, <2>1 DEF release_fails
  <2> QED BY <2>2, <2>3, GivesAll
<1>2. CASE pool_adopt(t)
  <2>1. PICK r, x : r = [thr[t] EXCEPT !.cursor = Nil] /\ x = Users
    OBVIOUS
  <2>2. thr[t].pc = "live" /\ r \in ThreadRecords /\ r.pc \in {"none", "live"} /\ r.cursor = Nil
    BY <1>0, <1>2, <2>1 DEF pool_adopt, ThreadRecords
  <2>3. /\ Step(t, r) /\ thr[t].pc \in {"live", "r_node"}
        /\ x = Users /\ held' = held \cup Chain(thr[t].cursor) /\ lost' = lost
        /\ UNCHANGED <<central, chain, blocks, node, nodes, top>>
    BY <1>2, <2>1 DEF pool_adopt
  <2> QED BY <2>2, <2>3, GivesAll
<1> QED BY <1>1, <1>2

\* The node of a release takes the list.
LEMMA ReleaseValueKeeps ==
  ASSUME NEW C, NEW A, NEW own, PoolInvOf(C, A, own), NEW t \in PoolThreads, release_value(t)
  PROVE  PoolInv'
<1> DEFINE me == thr[t]
<1>0. MemTypeOK /\ PhaseOK /\ NodesOK(C, A) /\ ListsOK(C, own) /\ CursorOK /\ FreshOK
  BY DEF PoolInvOf
<1>1. /\ me \in ThreadRecords /\ me.pc = "r_value" /\ node' = [node EXCEPT ![me.n].value = me.cursor]
      /\ Step(t, [me EXCEPT !.cursor = Nil, !.pc = "r_push"])
      /\ UNCHANGED <<central, chain, blocks, nodes, top, held, lost>>
  BY <1>0 DEF MemTypeOK, release_value
<1>2. PICK y \in Nodes : y = me.n /\ y \in 1 .. nodes /\ y \notin C /\ y \notin A
  BY <1>0, <1>1, PoolConstants DEF NodesOK, HandsApart, InHand, MemTypeOK
<1>3. PICK v \in Blocks \cup {Nil} : v = me.cursor
  BY <1>1 DEF ThreadRecords
<1>4. /\ node' \in [Nodes -> [value : Blocks \cup {Nil}, next : Nodes \cup {Nil}]]
      /\ node'[y].value = v /\ node'[y].next = node[y].next
      /\ \A z \in Nodes : z # y => node'[z] = node[z]
  BY <1>0, <1>1, <1>2, <1>3 DEF MemTypeOK
<1>5. PICK r : r = [me EXCEPT !.cursor = Nil, !.pc = "r_push"]
  OBVIOUS
<1>6. r \in ThreadRecords /\ r.pc = "r_push" /\ r.n = y /\ r.cursor = Nil
  BY <1>1, <1>2, <1>5 DEF ThreadRecords, AllPlaces
<1>7. /\ thr' \in [PoolThreads -> ThreadRecords]
      /\ thr'[t] = r /\ \A u \in PoolThreads : u # t => thr'[u] = thr[u]
  BY <1>0, <1>1, <1>5, <1>6, OneMoves
<1>8. MemTypeOK'
  BY <1>0, <1>1, <1>4, <1>7 DEF MemTypeOK
<1>9. PhaseOK'
  <2>1. r.pc \notin APlaces /\ Releasing(t)
    BY <1>1, <1>6 DEF Releasing, APlaces
  <2> QED BY <1>0, <1>7, <2>1, PhaseKept
<1>10. HasNode(t) /\ \A u \in PoolThreads : u # t /\ HasNode(u) => thr[u].n # y
  <2>1. HasNode(t)
    BY <1>1 DEF HasNode, InHand
  <2> QED BY <1>0, <1>2, <2>1 DEF NodesOK, HandsApart
<1>11. NodesOK(C, A)'
  <2>1. r.pc \notin {"a_next", "a_cas", "r_next", "r_cas", "a_pcas", "r_pcas", "a_value"}
    BY <1>6
  <2>2. nodes \in 0 .. MaxNodes /\ nodes' = nodes /\ nodes <= nodes' /\ top' = top
    BY <1>0, <1>1 DEF MemTypeOK
  <2>3. \A n \in Nodes : node'[n].next = node[n].next
    BY <1>4
  <2>4. r.n \in 1 .. nodes' /\ r.n \notin C /\ r.n \notin A
        /\ \A u \in PoolThreads : u # t /\ HasNode(u) => thr[u].n # r.n
    BY <1>2, <1>6, <1>10, <2>2
  <2> QED BY <1>0, <1>7, <2>1, <2>2, <2>3, <2>4, NodesKept
<1>12. own \in [1 .. blocks -> Keepers] /\ In(y) \in Keepers /\ Mine(t) # In(y)
  BY <1>0, OwnersDiffer DEF ListsOK
<1>13. PICK own2 \in [1 .. blocks -> Keepers] : Handed(own, own2, Mine(t), In(y))
  BY <1>12, Handover
<1>14. /\ Of(own2, In(y)) = Of(own, Mine(t)) \cup Of(own, In(y))
       /\ Of(own2, Mine(t)) = {}
       /\ \A z : z # Mine(t) /\ z # In(y) => Of(own2, z) = Of(own, z)
  BY <1>13 DEF Handed
<1>15. ~Carried(C, y) /\ Carried(C, y)'
  <2>1. \A u \in PoolThreads : thr[u].pc \in CarryPlaces => HasNode(u) /\ u # t
    BY <1>1 DEF HasNode, InHand, CarryPlaces
  <2>2. ~Carried(C, y)
    BY <1>2, <1>10, <2>1 DEF Carried, CarryPlaces
  <2>3. Carried(C, y)'
    BY <1>6, <1>7 DEF Carried
  <2> QED BY <2>2, <2>3
<1>16. \A n \in Nodes : n # y => (Carried(C, n)' <=> Carried(C, n))
  BY <1>1, <1>2, <1>6, <1>7 DEF Carried
<1>17. ListsOK(C, own2)'
  <2>1. held' = Of(own2, Users) /\ lost' = Of(own2, Gone)
    BY <1>0, <1>1, <1>14, OwnersDiffer DEF ListsOK
  <2>2. ASSUME NEW u \in PoolThreads PROVE IsList(chain', thr'[u].cursor, Of(own2, Mine(u)))
    <3>1. CASE u = t
      BY <1>6, <1>7, <1>14, <3>1, EmptyList
    <3>2. CASE u # t
      <4>1. Of(own2, Mine(u)) = Of(own, Mine(u)) /\ thr'[u].cursor = thr[u].cursor /\ chain' = chain
        BY <1>1, <1>7, <1>14, <3>2, OwnersDiffer
      <4> QED BY <1>0, <4>1 DEF ListsOK
    <3> QED BY <3>1, <3>2
  <2>3. \A n \in Nodes : n # y => Of(own2, In(n)) = Of(own, In(n))
    BY <1>14, OwnersDiffer
  <2>4. IsList(chain', node'[y].value, Of(own2, In(y)))
    <3>1. Of(own, In(y)) = {} /\ IsList(chain, v, Of(own, Mine(t)))
      BY <1>0, <1>3, <1>15 DEF ListsOK
    <3>2. Of(own2, In(y)) = Of(own, Mine(t)) /\ chain' = chain
      BY <1>1, <1>14, <3>1
    <3> QED BY <1>4, <3>1, <3>2
  <2>5. ASSUME NEW n \in Nodes, n # y, Carried(C, n)' PROVE IsList(chain', node'[n].value, Of(own2, In(n)))
    <3>1. Carried(C, n) /\ node'[n].value = node[n].value /\ Of(own2, In(n)) = Of(own, In(n)) /\ chain' = chain
      BY <1>1, <1>4, <1>16, <2>3, <2>5
    <3> QED BY <1>0, <3>1 DEF ListsOK
  <2>6. \A n \in Nodes : ~Carried(C, n)' => Of(own2, In(n)) = {}
    BY <1>0, <1>15, <1>16, <2>3 DEF ListsOK
  <2> QED BY <1>1, <2>1, <2>2, <2>4, <2>5, <2>6 DEF ListsOK
<1>18. CursorOK' /\ FreshOK'
  BY <1>0, <1>1, <1>6, <1>7 DEF CursorOK, FreshOK
<1>19. PoolInvOf(C, A, own2)'
  BY <1>8, <1>9, <1>11, <1>17, <1>18 DEF PoolInvOf
<1> QED BY <1>19 DEF PoolInv

\* A new chunk: its blocks are the thread's.
LEMMA ChunkKeeps ==
  ASSUME NEW C, NEW A, NEW own, PoolInvOf(C, A, own), NEW t \in PoolThreads, aqueire_chunk(t)
  PROVE  PoolInv'
<1> DEFINE me == thr[t]
<1>0. MemTypeOK /\ PhaseOK /\ NodesOK(C, A) /\ ListsOK(C, own) /\ CursorOK /\ FreshOK
  BY DEF PoolInvOf
<1>1. /\ me \in ThreadRecords /\ me.pc = "a_none" /\ Step(t, Got(t, blocks + 1))
      /\ blocks \in Nat /\ blocks' = blocks + Expansion /\ blocks + Expansion <= Expansion * MaxChunks
      /\ chain' = [b \in Blocks |-> IF b \in blocks + 1 .. blocks + Expansion - 1 THEN b + 1 ELSE chain[b]]
      /\ UNCHANGED <<central, node, nodes, top, held, lost>>
  BY <1>0, PoolConstants DEF MemTypeOK, aqueire_chunk
<1>2. PICK v \in Blocks : v = blocks + 1
  BY <1>1, PoolConstants
<1>3. PICK r : r = Got(t, v)
  OBVIOUS
<1>4. r \in ThreadRecords /\ r.pc \in {"get", "live"} /\ r.cursor = v
  BY <1>3 DEF Got, NoThread, ThreadRecords, AllPlaces
<1>5. /\ thr' \in [PoolThreads -> ThreadRecords]
      /\ thr'[t] = r /\ \A u \in PoolThreads : u # t => thr'[u] = thr[u]
  <2>1. Step(t, r)
    BY <1>1, <1>2, <1>3
  <2> QED BY <1>0, <1>4, <2>1, OneMoves
<1>6. PICK e \in Nat \ {0} : e = Expansion
  BY PoolConstants
<1>7. /\ \A b \in 1 .. blocks : b \in Blocks /\ chain'[b] = chain[b]
      /\ \A b \in blocks + 1 .. blocks + e : b \in Blocks /\ chain'[b] = IF b = blocks + e THEN Nil ELSE b + 1
      /\ \A b \in Blocks : b > blocks' => chain'[b] = Nil
      /\ chain' \in [Blocks -> Blocks \cup {Nil}]
  <2>0. Blocks = 1 .. Expansion * MaxChunks /\ Expansion * MaxChunks \in Nat
    BY PoolConstants
  <2>1. \A b \in Blocks : chain'[b] = IF b \in blocks + 1 .. blocks + e - 1 THEN b + 1 ELSE chain[b]
    BY <1>1, <1>6
  <2>2. \A b \in Blocks : b > blocks => chain[b] = Nil
    BY <1>0 DEF FreshOK
  <2>3. \A b \in 1 .. blocks : b \in Blocks /\ b \notin blocks + 1 .. blocks + e - 1
    BY <1>1, <1>6, <2>0
  <2>4. \A b \in blocks + 1 .. blocks + e : /\ b \in Blocks /\ b > blocks
                                            /\ b \in blocks + 1 .. blocks + e - 1 <=> b # blocks + e
    BY <1>1, <1>6, <2>0
  <2>5. \A b \in Blocks : b > blocks' => b > blocks /\ b \notin blocks + 1 .. blocks + e - 1
    BY <1>1, <1>6, <2>0
  <2>6. \A b \in blocks + 1 .. blocks + e - 1 : b + 1 \in Blocks
    BY <1>1, <1>6, <2>0
  <2>7. chain' \in [Blocks -> Blocks \cup {Nil}]
    <3>1. chain \in [Blocks -> Blocks \cup {Nil}]
      BY <1>0 DEF MemTypeOK
    <3>2. \A b \in Blocks : (IF b \in blocks + 1 .. blocks + e - 1 THEN b + 1 ELSE chain[b]) \in Blocks \cup {Nil}
      BY <2>6, <3>1
    <3> QED BY <1>1, <1>6, <3>2
  <2> QED BY <2>1, <2>2, <2>3, <2>4, <2>5, <2>7
<1>8. MemTypeOK'
  <2>1. blocks' \in Nat /\ blocks' <= Expansion * MaxChunks
    BY <1>1, <1>6
  <2> QED BY <1>0, <1>1, <1>5, <1>7, <2>1 DEF MemTypeOK
<1>9. PhaseOK'
  <2>1. r.pc \notin APlaces /\ r.pc \notin RPlaces
    BY <1>4 DEF RPlaces, APlaces
  <2> QED BY <1>0, <1>5, <2>1, PhaseKept
<1>10. NodesOK(C, A)'
  <2>1. r.pc \notin {"a_next", "a_cas", "r_next", "r_cas", "a_pcas", "r_pcas", "a_value"} /\ r.pc \notin HandPlaces
    BY <1>4 DEF HandPlaces
  <2>2. nodes \in 0 .. MaxNodes /\ nodes' = nodes /\ nodes <= nodes' /\ top' = top /\ node' = node
    BY <1>0, <1>1 DEF MemTypeOK
  <2> QED BY <1>0, <1>5, <2>1, <2>2, NodesKept
<1>n. PICK new : new = blocks + 1 .. blocks + e
  OBVIOUS
<1>o. PICK own2 : own2 = [b \in 1 .. blocks' |-> IF b \in new THEN Mine(t) ELSE own[b]]
  OBVIOUS
<1>11. own \in [1 .. blocks -> Keepers] /\ Mine(t) \in Keepers
  BY <1>0, OwnersDiffer DEF ListsOK
<1>12. \A b \in 1 .. blocks' : (b \in 1 .. blocks \/ b \in new) /\ ~(b \in 1 .. blocks /\ b \in new)
  BY <1>1, <1>6, <1>n
<1>13. 1 .. blocks \subseteq 1 .. blocks' /\ new \subseteq 1 .. blocks'
  BY <1>1, <1>6, <1>n
<1>14. own2 \in [1 .. blocks' -> Keepers] /\ \A b \in 1 .. blocks' : own2[b] = IF b \in new THEN Mine(t) ELSE own[b]
  BY <1>11, <1>12, <1>o
<1>15. \A z, b : /\ b \in Of(own2, z) <=> b \in 1 .. blocks' /\ own2[b] = z
                 /\ b \in Of(own, z) <=> b \in 1 .. blocks /\ own[b] = z
  BY <1>11, <1>14 DEF Of
<1>16. Of(own2, Mine(t)) = Of(own, Mine(t)) \cup new
  BY <1>12, <1>13, <1>14, <1>15
<1>17. ASSUME NEW z, z # Mine(t) PROVE Of(own2, z) = Of(own, z)
  <2>1. \A b \in Of(own, z) : b \in Of(own2, z)
    BY <1>12, <1>13, <1>14, <1>15
  <2>2. \A b \in Of(own2, z) : b \in Of(own, z)
    BY <1>12, <1>14, <1>15, <1>17
  <2> QED BY <2>1, <2>2
<1>18. Of(own, Mine(t)) = {}
  <2>1. me.cursor = Nil
    BY <1>0, <1>1 DEF CursorOK
  <2> QED BY <1>0, <2>1, ListHead DEF ListsOK
<1>19. ASSUME NEW x, NEW z, IsList(chain, x, Of(own, z)) PROVE IsList(chain', x, Of(own, z))
  <2>1. \A b \in Of(own, z) : chain'[b] = chain[b]
    BY <1>7, <1>15
  <2> QED BY <1>19, <2>1, ListFrame
<1>20. ListsOK(C, own2)'
  <2>1. held' = Of(own2, Users) /\ lost' = Of(own2, Gone)
    BY <1>0, <1>1, <1>17, OwnersDiffer DEF ListsOK
  <2>2. ASSUME NEW u \in PoolThreads PROVE IsList(chain', thr'[u].cursor, Of(own2, Mine(u)))
    <3>1. CASE u = t
      <4>1. Of(own2, Mine(u)) = new /\ thr'[u].cursor = blocks + 1
        BY <1>2, <1>4, <1>5, <1>16, <1>18, <3>1
      <4>2. IsList(chain', blocks + 1, new)
        BY <1>1, <1>7, <1>n, ListMade
      <4> QED BY <4>1, <4>2
    <3>2. CASE u # t
      <4>1. Of(own2, Mine(u)) = Of(own, Mine(u)) /\ thr'[u].cursor = thr[u].cursor
        BY <1>5, <1>17, <3>2, OwnersDiffer
      <4> QED BY <1>0, <1>19, <4>1 DEF ListsOK
    <3> QED BY <3>1, <3>2
  <2>3. \A n \in Nodes : Of(own2, In(n)) = Of(own, In(n))
    BY <1>17, OwnersDiffer
  <2>4. \A n \in Nodes : Carried(C, n)' <=> Carried(C, n)
    BY <1>1, <1>4, <1>5 DEF Carried
  <2>5. \A n \in Nodes : Carried(C, n)' => IsList(chain', node'[n].value, Of(own2, In(n)))
    BY <1>0, <1>1, <1>19, <2>3, <2>4 DEF ListsOK
  <2>6. \A n \in Nodes : ~Carried(C, n)' => Of(own2, In(n)) = {}
    BY <1>0, <2>3, <2>4 DEF ListsOK
  <2> QED BY <1>14, <2>1, <2>2, <2>5, <2>6 DEF ListsOK
<1>21. CursorOK' /\ FreshOK'
  BY <1>0, <1>4, <1>5, <1>7 DEF CursorOK, FreshOK
<1>22. PoolInvOf(C, A, own2)'
  BY <1>8, <1>9, <1>10, <1>20, <1>21 DEF PoolInvOf
<1> QED BY <1>22 DEF PoolInv

\* Going into aqueire and release, and the ends that have nothing to hand over.
LEMMA MovesKeep ==
  ASSUME NEW C, NEW A, NEW own, PoolInvOf(C, A, own), NEW t \in PoolThreads, ~Overlap,
         \/ aqueire_none(t) \/ pool_start(t) \/ pool_end(t)
         \/ pool_allocate(t) /\ thr[t].pc = "live" /\ thr[t].cursor = Nil
  PROVE  PoolInv'
<1> DEFINE me == thr[t]
<1>0. me \in ThreadRecords /\ CursorOK
  BY DEF PoolInvOf, MemTypeOK
<1>1. ASSUME NEW r \in ThreadRecords, Step(t, r), r.cursor = me.cursor,
             UNCHANGED <<central, chain, blocks, node, nodes, top, held, lost>>,
             me.pc \in {"a_none", "none", "live"}, r.pc \in {"live", "none", "a_pop", "r_pop"},
             r.cursor # Nil => r.pc \in {"live", "r_pop"},
             r.pc = "a_pop" => \A u \in PoolThreads : ~Releasing(u),
             r.pc = "r_pop" => \A u \in PoolThreads : ~Aqueiring(u)
      PROVE  PoolInv'
  <2>1. /\ r.pc \in APlaces => r.pc = "a_pop"
        /\ r.pc \in RPlaces => r.pc = "r_pop"
        /\ r.pc \notin HandPlaces /\ r.pc \notin CarryPlaces /\ r.pc # "a_value"
        /\ me.pc \notin CarryPlaces /\ me.pc # "a_value"
        /\ r.cursor # Nil => r.pc \in ListPlaces
    BY <1>1 DEF APlaces, RPlaces, HandPlaces, CarryPlaces, ListPlaces
  <2>2. SeenIn(C, A, r)
    BY <1>1 DEF SeenIn
  <2>3. PoolInvOf(C, A, own)'
    BY <1>1, <2>1, <2>2, ThreadMoves
  <2> QED BY <2>3 DEF PoolInv
<1>2. NoThread \in ThreadRecords /\ NoThread.pc = "none" /\ NoThread.cursor = Nil
  BY DEF NoThread, ThreadRecords, AllPlaces
<1>3. CASE aqueire_none(t)
  <2>1. PICK r : r = Got(t, Nil)
    OBVIOUS
  <2>2. r \in ThreadRecords /\ r.pc = "live" /\ r.cursor = Nil
    BY <2>1 DEF Got, NoThread, ThreadRecords, AllPlaces
  <2>3. me.pc = "a_none" /\ Step(t, r) /\ UNCHANGED <<central, chain, blocks, node, nodes, top, held, lost>>
    BY <1>3, <2>1 DEF aqueire_none
  <2>4. me.cursor = Nil
    BY <1>0, <2>3 DEF CursorOK
  <2> QED BY <1>1, <2>2, <2>3, <2>4
<1>4. CASE pool_start(t)
  <2>1. PICK r : r = [NoThread EXCEPT !.pc = "a_pop"]
    OBVIOUS
  <2>2. r \in ThreadRecords /\ r.pc = "a_pop" /\ r.cursor = Nil
    BY <2>1 DEF NoThread, ThreadRecords, AllPlaces
  <2>3. me.pc = "none" /\ Step(t, r) /\ UNCHANGED <<central, chain, blocks, node, nodes, top, held, lost>>
        /\ \A u \in PoolThreads : ~Releasing(u)
    BY <1>4, <2>1 DEF pool_start, Apart
  <2>4. me.cursor = Nil
    BY <1>0, <2>3 DEF CursorOK
  <2> QED BY <1>1, <2>2, <2>3, <2>4
<1>5. CASE pool_end(t)
  <2>1. me.pc = "live" /\ UNCHANGED <<central, chain, blocks, node, nodes, top, held, lost>>
    BY <1>5 DEF pool_end
  <2>2. CASE me.cursor = Nil
    <3>1. PICK r : r = NoThread
      OBVIOUS
    <3>2. Step(t, r)
      BY <1>5, <2>2, <3>1 DEF pool_end
    <3> QED BY <1>1, <1>2, <2>1, <2>2, <3>1, <3>2
  <2>3. CASE me.cursor # Nil
    <3>1. PICK r : r = [me EXCEPT !.pc = "r_pop"]
      OBVIOUS
    <3>2. Step(t, r) /\ \A u \in PoolThreads : ~Aqueiring(u)
      BY <1>5, <2>3, <3>1 DEF pool_end, Apart
    <3>3. r \in ThreadRecords /\ r.pc = "r_pop" /\ r.cursor = me.cursor
      BY <1>0, <3>1 DEF ThreadRecords, AllPlaces
    <3> QED BY <1>1, <2>1, <3>2, <3>3
  <2> QED BY <2>2, <2>3
<1>6. CASE pool_allocate(t) /\ me.pc = "live" /\ me.cursor = Nil
  <2>1. PICK r : r = [NoThread EXCEPT !.pc = "a_pop", !.get = TRUE]
    OBVIOUS
  <2>2. r \in ThreadRecords /\ r.pc = "a_pop" /\ r.cursor = Nil
    BY <2>1 DEF NoThread, ThreadRecords, AllPlaces
  <2>3. Step(t, r) /\ held' = held /\ \A u \in PoolThreads : ~Releasing(u)
    BY <1>6, <2>1 DEF pool_allocate, Apart
  <2>4. UNCHANGED <<central, chain, blocks, node, nodes, top, held, lost>>
    BY <1>6, <2>3 DEF pool_allocate
  <2> QED BY <1>1, <1>6, <2>2, <2>3, <2>4
<1> QED BY <1>3, <1>4, <1>5, <1>6

\* One block goes between a thread and the users, and only its link changes.
LEMMA BlockMoves ==
  ASSUME NEW C, NEW A, NEW own, PoolInvOf(C, A, own), NEW t \in PoolThreads,
         NEW r \in ThreadRecords, Step(t, r), r.pc = "live", thr[t].pc \in {"live", "get"},
         UNCHANGED <<central, blocks, node, nodes, top, lost>>,
         NEW b \in 1 .. blocks, NEW own2 \in [1 .. blocks -> Keepers], NEW x, NEW y,
         HandedOne(own, own2, b, x, y), b \in Of(own, x),
         (x = Users /\ y = Mine(t)) \/ (x = Mine(t) /\ y = Users),
         held' = Of(own2, Users),
         NEW c \in Blocks \cup {Nil}, chain' = [chain EXCEPT ![b] = c],
         IsList(chain', r.cursor, Of(own2, Mine(t)))
  PROVE  PoolInv'
<1>0. MemTypeOK /\ PhaseOK /\ NodesOK(C, A) /\ ListsOK(C, own) /\ CursorOK /\ FreshOK
  BY DEF PoolInvOf
<1>1. /\ thr' \in [PoolThreads -> ThreadRecords]
      /\ thr'[t] = r /\ \A u \in PoolThreads : u # t => thr'[u] = thr[u]
  BY <1>0, OneMoves
<1>2. \A z : z # Users /\ z # Mine(t) => Of(own2, z) = Of(own, z)
  BY DEF HandedOne
<1>3. b \in Blocks /\ \A d \in Blocks : d # b => chain'[d] = chain[d]
  BY <1>0, PoolConstants DEF MemTypeOK
<1>4. MemTypeOK'
  BY <1>0, <1>1, <1>3 DEF MemTypeOK
<1>5. PhaseOK'
  <2>1. r.pc \notin APlaces /\ r.pc \notin RPlaces
    BY DEF RPlaces, APlaces
  <2> QED BY <1>0, <1>1, <2>1, PhaseKept
<1>6. NodesOK(C, A)'
  <2>1. r.pc \notin {"a_next", "a_cas", "r_next", "r_cas", "a_pcas", "r_pcas", "a_value"} /\ r.pc \notin HandPlaces
    BY DEF HandPlaces
  <2>2. nodes \in 0 .. MaxNodes /\ nodes' = nodes /\ nodes <= nodes' /\ top' = top /\ node' = node
    BY <1>0 DEF MemTypeOK
  <2> QED BY <1>0, <1>1, <2>1, <2>2, NodesKept
<1>7. \A z, d : d \in Of(own, z) => d \in Blocks /\ own[d] = z
  BY <1>0, PoolConstants DEF ListsOK, Of, MemTypeOK
<1>8. ASSUME NEW h, NEW z, z # Users, z # Mine(t), IsList(chain, h, Of(own, z))
      PROVE  IsList(chain', h, Of(own2, z))
  <2>1. \A d \in Of(own, z) : chain'[d] = chain[d]
    BY <1>3, <1>7, <1>8
  <2>2. Of(own2, z) = Of(own, z)
    BY <1>2, <1>8
  <2> QED BY <1>8, <2>1, <2>2, ListFrame
<1>9. ListsOK(C, own2)'
  <2>1. lost' = Of(own2, Gone)
    BY <1>0, <1>2, OwnersDiffer DEF ListsOK
  <2>2. ASSUME NEW u \in PoolThreads PROVE IsList(chain', thr'[u].cursor, Of(own2, Mine(u)))
    <3>1. CASE u = t
      BY <1>1, <3>1
    <3>2. CASE u # t
      <4>1. Mine(u) # Users /\ Mine(u) # Mine(t) /\ thr'[u].cursor = thr[u].cursor
        BY <1>1, <3>2, OwnersDiffer
      <4>2. IsList(chain, thr[u].cursor, Of(own, Mine(u)))
        BY <1>0 DEF ListsOK
      <4> QED BY <1>8, <4>1, <4>2
    <3> QED BY <3>1, <3>2
  <2>3. \A n \in Nodes : Carried(C, n)' <=> Carried(C, n)
    BY <1>1 DEF Carried
  <2>4. ASSUME NEW n \in Nodes, Carried(C, n)' PROVE IsList(chain', node'[n].value, Of(own2, In(n)))
    <3>1. In(n) # Users /\ In(n) # Mine(t) /\ node'[n].value = node[n].value
      BY OwnersDiffer
    <3>2. IsList(chain, node[n].value, Of(own, In(n)))
      BY <1>0, <2>3, <2>4 DEF ListsOK
    <3> QED BY <1>8, <3>1, <3>2
  <2>5. ASSUME NEW n \in Nodes, ~Carried(C, n)' PROVE Of(own2, In(n)) = {}
    <3>1. In(n) # Users /\ In(n) # Mine(t)
      BY OwnersDiffer
    <3> QED BY <1>0, <1>2, <2>3, <2>5, <3>1 DEF ListsOK
  <2> QED BY <2>1, <2>2, <2>4, <2>5 DEF ListsOK
<1>10. CursorOK' /\ FreshOK'
  <2>1. FreshOK'
    BY <1>0, <1>3 DEF FreshOK, MemTypeOK
  <2>2. CursorOK'
    BY <1>0, <1>1 DEF CursorOK
  <2> QED BY <2>1, <2>2
<1>11. PoolInvOf(C, A, own2)'
  BY <1>4, <1>5, <1>6, <1>9, <1>10 DEF PoolInvOf
<1> QED BY <1>11 DEF PoolInv

\* allocate with a list: its first block is the user's.
LEMMA AllocateKeeps ==
  ASSUME NEW C, NEW A, NEW own, PoolInvOf(C, A, own), NEW t \in PoolThreads,
         pool_allocate(t), thr[t].cursor # Nil
  PROVE  PoolInv'
<1> DEFINE me == thr[t]
<1>0. MemTypeOK /\ ListsOK(C, own) /\ own \in [1 .. blocks -> Keepers] /\ me \in ThreadRecords
  BY DEF PoolInvOf, MemTypeOK, ListsOK
<1>1. PICK b : b = me.cursor /\ b # Nil
  OBVIOUS
<1>2. PICK x, y : x = Mine(t) /\ y = Users /\ x # y /\ y \in Keepers
  BY OwnersDiffer
<1>3. IsList(chain, b, Of(own, x))
  BY <1>0, <1>1, <1>2 DEF ListsOK
<1>4. b \in Of(own, x) /\ b \in 1 .. blocks /\ b \notin Of(own, y) /\ b \in Blocks
  <2>1. b \in Of(own, x)
    BY <1>1, <1>3, ListHead
  <2> QED BY <1>0, <1>2, <2>1, PoolConstants DEF Of, MemTypeOK
<1>5. PICK own2 \in [1 .. blocks -> Keepers] : HandedOne(own, own2, b, x, y)
  BY <1>0, <1>2, <1>4, HandOne
<1>6. Of(own2, y) = Of(own, y) \cup {b} /\ Of(own2, x) = Of(own, x) \ {b}
  BY <1>5 DEF HandedOne
<1>7. PICK z \in Blocks \cup {Nil} : z = chain[b]
  BY <1>0, <1>4 DEF MemTypeOK
<1>8. PICK r : r = [NoThread EXCEPT !.pc = "live", !.cursor = z]
  OBVIOUS
<1>9. r \in ThreadRecords /\ r.pc = "live" /\ r.cursor = z
  BY <1>8 DEF NoThread, ThreadRecords, AllPlaces
<1>10. /\ Step(t, r) /\ thr[t].pc \in {"live", "get"} /\ held' = held \cup {b}
       /\ chain' = (IF held' = held THEN chain ELSE [chain EXCEPT ![b] = Nil])
       /\ UNCHANGED <<central, blocks, node, nodes, top, lost>>
  BY <1>1, <1>7, <1>8 DEF pool_allocate
<1>11. held = Of(own, y) /\ held' = Of(own2, Users)
  BY <1>0, <1>2, <1>6, <1>10 DEF ListsOK
<1>12. chain' = [chain EXCEPT ![b] = Nil]
  BY <1>4, <1>10, <1>11
<1>13. IsList(chain', r.cursor, Of(own2, Mine(t)))
  <2>1. IsList(chain, z, Of(own2, x))
    BY <1>1, <1>3, <1>6, <1>7, ListTake
  <2>2. \A d \in Of(own2, x) : chain'[d] = chain[d]
    <3>1. \A d \in Of(own2, x) : d \in Blocks /\ d # b
      BY <1>0, <1>6, PoolConstants DEF Of, MemTypeOK
    <3> QED BY <1>0, <1>12, <3>1 DEF MemTypeOK
  <2> QED BY <1>2, <1>9, <2>1, <2>2, ListFrame
<1>14. PICK c \in Blocks \cup {Nil} : c = Nil
  OBVIOUS
<1>15. /\ r \in ThreadRecords /\ Step(t, r) /\ r.pc = "live" /\ thr[t].pc \in {"live", "get"}
       /\ UNCHANGED <<central, blocks, node, nodes, top, lost>>
       /\ b \in 1 .. blocks /\ b \in Of(own, x)
       /\ (x = Users /\ y = Mine(t)) \/ (x = Mine(t) /\ y = Users)
       /\ held' = Of(own2, Users) /\ chain' = [chain EXCEPT ![b] = c]
       /\ IsList(chain', r.cursor, Of(own2, Mine(t)))
  BY <1>2, <1>4, <1>9, <1>10, <1>11, <1>12, <1>13, <1>14
<1> HIDE DEF me
<1> QED BY <1>5, <1>15, BlockMoves

\* deallocate: the block is the first of the list of the thread that frees it.
LEMMA DeallocateKeeps ==
  ASSUME NEW C, NEW A, NEW own, PoolInvOf(C, A, own), NEW t \in PoolThreads,
         NEW b \in Blocks, pool_deallocate(t, b)
  PROVE  PoolInv'
<1> DEFINE me == thr[t]
<1>0. MemTypeOK /\ ListsOK(C, own) /\ own \in [1 .. blocks -> Keepers] /\ me \in ThreadRecords
  BY DEF PoolInvOf, MemTypeOK, ListsOK
<1>1. /\ me.pc = "live" /\ b \in held /\ chain' = [chain EXCEPT ![b] = me.cursor]
      /\ Step(t, [me EXCEPT !.cursor = b]) /\ held' = held \ {b}
      /\ UNCHANGED <<central, blocks, node, nodes, top, lost>>
  BY DEF pool_deallocate
<1>2. PICK x, y : x = Users /\ y = Mine(t) /\ x # y /\ y \in Keepers
  BY OwnersDiffer
<1>3. b \in Of(own, x) /\ b \in 1 .. blocks /\ b \notin Of(own, y) /\ b # Nil
  <2>1. b \in Of(own, x)
    BY <1>0, <1>1, <1>2 DEF ListsOK
  <2> QED BY <1>0, <1>2, <2>1, PoolConstants DEF Of, MemTypeOK
<1>4. PICK own2 \in [1 .. blocks -> Keepers] : HandedOne(own, own2, b, x, y)
  BY <1>0, <1>2, <1>3, HandOne
<1>5. Of(own2, y) = Of(own, y) \cup {b} /\ Of(own2, x) = Of(own, x) \ {b}
  BY <1>4 DEF HandedOne
<1>6. PICK c \in Blocks \cup {Nil} : c = me.cursor
  BY <1>0 DEF ThreadRecords
<1>7. PICK r : r = [me EXCEPT !.cursor = b]
  OBVIOUS
<1>8. r \in ThreadRecords /\ r.pc = "live" /\ r.cursor = b /\ Step(t, r)
  BY <1>0, <1>1, <1>7 DEF ThreadRecords
<1>9. held' = Of(own2, Users)
  BY <1>0, <1>1, <1>2, <1>5 DEF ListsOK
<1>10. IsList(chain', r.cursor, Of(own2, Mine(t)))
  <2>1. IsList(chain, c, Of(own, y))
    BY <1>0, <1>2, <1>6 DEF ListsOK
  <2>2. chain'[b] = c /\ \A d \in Of(own, y) : chain'[d] = chain[d]
    <3>1. \A d \in Of(own, y) : d \in Blocks /\ d # b
      BY <1>0, <1>3, PoolConstants DEF Of, MemTypeOK
    <3> QED BY <1>0, <1>1, <1>6, <3>1 DEF MemTypeOK
  <2>3. IsList(chain', b, Of(own, y) \cup {b})
    BY <1>3, <2>1, <2>2, ListPut
  <2> QED BY <1>2, <1>5, <1>8, <2>3
<1>11. chain' = [chain EXCEPT ![b] = c] /\ me.pc \in {"live", "get"}
  BY <1>1, <1>6
<1>15. /\ r \in ThreadRecords /\ Step(t, r) /\ r.pc = "live" /\ thr[t].pc \in {"live", "get"}
       /\ UNCHANGED <<central, blocks, node, nodes, top, lost>>
       /\ b \in 1 .. blocks /\ b \in Of(own, x)
       /\ (x = Users /\ y = Mine(t)) \/ (x = Mine(t) /\ y = Users)
       /\ held' = Of(own2, Users) /\ chain' = [chain EXCEPT ![b] = c]
       /\ IsList(chain', r.cursor, Of(own2, Mine(t)))
  BY <1>1, <1>2, <1>3, <1>8, <1>9, <1>10, <1>11
<1> HIDE DEF me
<1> QED BY <1>4, <1>15, BlockMoves

\* Every step of the pool.
LEMMA PoolKeeps ==
  ASSUME ~Overlap, PoolInv, [PoolNext]_poolVars
  PROVE  PoolInv'
<1>1. PICK C, A, own : PoolInvOf(C, A, own)
  BY DEF PoolInv
<1>2. CASE UNCHANGED poolVars
  <2>1. /\ chain' = chain /\ blocks' = blocks /\ node' = node /\ nodes' = nodes /\ top' = top /\ thr' = thr
        /\ held' = held /\ lost' = lost /\ central' = central
    BY <1>2 DEF poolVars
  <2>2. MemTypeOK' /\ PhaseOK' /\ CursorOK' /\ FreshOK'
    BY <1>1, <2>1 DEF PoolInvOf, MemTypeOK, PhaseOK, Aqueiring, Releasing, CursorOK, FreshOK
  <2>3. NodesOK(C, A)'
    BY <1>1, <2>1 DEF PoolInvOf, NodesOK, StackOK, HandsApart, SeenOK, Links, InHand, HasNode
  <2>4. ListsOK(C, own)'
    BY <1>1, <2>1 DEF PoolInvOf, ListsOK, Carried
  <2>5. PoolInvOf(C, A, own)'
    BY <2>2, <2>3, <2>4 DEF PoolInvOf
  <2> QED BY <2>5 DEF PoolInv
<1>3. CASE PoolNext
  <2>1. PICK t \in PoolThreads :
          \/ pool_start(t) \/ pool_end(t) \/ pool_allocate(t) \/ pool_adopt(t)
          \/ \E b \in Blocks : pool_deallocate(t, b)
          \/ aqueire(t) \/ aqueire_value(t) \/ aqueire_chunk(t) \/ aqueire_none(t)
          \/ pool_release(t) \/ release_node(t) \/ release_fails(t) \/ release_value(t)
    BY <1>3 DEF PoolNext
  <2>2. CASE pool_start(t) \/ pool_end(t) \/ aqueire_none(t)
    BY <1>1, <2>2, MovesKeep
  <2>3. CASE pool_allocate(t)
    <3>1. CASE thr[t].cursor # Nil
      BY <1>1, <2>3, <3>1, AllocateKeeps
    <3>2. CASE thr[t].cursor = Nil
      <4>1. thr[t].pc = "live"
        BY <2>3, <3>2 DEF pool_allocate
      <4> QED BY <1>1, <2>3, <3>2, <4>1, MovesKeep
    <3> QED BY <3>1, <3>2
  <2>4. CASE pool_adopt(t) \/ release_fails(t)
    BY <1>1, <2>4, AllGiven
  <2>5. CASE \E b \in Blocks : pool_deallocate(t, b)
    BY <1>1, <2>5, DeallocateKeeps
  <2>6. CASE aqueire(t) \/ pool_release(t)
    BY <1>1, <2>6, StacksKeep
  <2>7. CASE aqueire_value(t)
    BY <1>1, <2>7, ValueKeeps
  <2>8. CASE aqueire_chunk(t)
    BY <1>1, <2>8, ChunkKeeps
  <2>9. CASE release_node(t)
    BY <1>1, <2>9, NewNodeKeeps
  <2>10. CASE release_value(t)
    BY <1>1, <2>10, ReleaseValueKeeps
  <2> QED BY <2>1, <2>2, <2>3, <2>4, <2>5, <2>6, <2>7, <2>8, <2>9, <2>10
<1> QED BY <1>2, <1>3

\* The lists of the invariant are the ones PoolOwned walks along.
LEMMA InvIsOwned ==
  ASSUME PoolInv
  PROVE  PoolOwned
<1>1. PICK C, A, own : PoolInvOf(C, A, own)
  BY DEF PoolInv
<1>2. MemTypeOK /\ NodesOK(C, A) /\ ListsOK(C, own) /\ own \in [1 .. blocks -> Keepers] /\ blocks \in Nat
  BY <1>1 DEF PoolInvOf, ListsOK, MemTypeOK
<1>3. Cached = C
  <2>1. IsList(Links, top["cached"], C) /\ C \subseteq 1 .. MaxNodes /\ MaxNodes \in Nat
    BY <1>2, PoolConstants DEF NodesOK, StackOK, MemTypeOK
  <2>2. Cached = Linked(Links, top["cached"], MaxNodes)
    BY DEF Cached, Links
  <2> QED BY <2>1, <2>2, LinkedIsList
<1>4. \A n : n \in Carrying <=> n \in Nodes /\ Carried(C, n)
  <2>1. \A t \in PoolThreads : thr[t].pc \in {"a_push", "a_pcas", "a_value", "r_push", "r_pcas"} => thr[t].n \in 1 .. nodes
    BY <1>2 DEF NodesOK, HandsApart, InHand, StackOK
  <2>2. C \subseteq 1 .. nodes /\ 1 .. nodes \subseteq Nodes
    BY <1>2, PoolConstants DEF NodesOK, StackOK, MemTypeOK
  <2> QED BY <1>3, <2>1, <2>2 DEF Carrying, Carried
<1>5. \A t \in PoolThreads : Chain(thr[t].cursor) = Of(own, Mine(t))
  BY <1>2, ChainIs DEF ListsOK
<1>6. \A n \in Carrying : n \in Nodes /\ Chain(node[n].value) = Of(own, In(n))
  BY <1>2, <1>4, ChainIs DEF ListsOK
<1> DEFINE K(x) == <<x[1], x[2]>>
<1>7. \A x \in Owned : \/ x = <<"users", Nil, Of(own, Users)>>
                       \/ \E t \in PoolThreads : x = <<"thread", t, Of(own, Mine(t))>>
                       \/ \E n \in Carrying : x = <<"node", n, Of(own, In(n))>>
  BY <1>2, <1>5, <1>6 DEF Owned, ListsOK
<1>8. \A x \in Owned : x[3] = Of(own, K(x)) /\ x = <<x[1], x[2], x[3]>>
  <2>1. ASSUME NEW s, NEW z, NEW S, S = Of(own, <<s, z>>), NEW x, x = <<s, z, S>>
        PROVE  x[3] = Of(own, K(x)) /\ x = <<x[1], x[2], x[3]>>
    BY <2>1
  <2>2. Users = <<"users", Nil>> /\ \A z : Mine(z) = <<"thread", z>> /\ In(z) = <<"node", z>>
    BY DEF Users, Mine, In
  <2> HIDE DEF K
  <2> QED BY <1>7, <2>1, <2>2
<1>9. OneOwnerEach
  <2> SUFFICES ASSUME NEW x \in Owned, NEW y \in Owned, NEW b, b \in x[3], b \in y[3] PROVE x = y
    BY DEF OneOwnerEach
  <2>1. own[b] = K(x) /\ own[b] = K(y)
    BY <1>8 DEF Of
  <2>2. x[1] = y[1] /\ x[2] = y[2] /\ x[3] = y[3]
    BY <1>8, <2>1
  <2> QED BY <1>8, <2>2
<1>10. ASSUME NEW b \in 1 .. blocks, b \notin lost PROVE \E x \in Owned : b \in x[3]
  <2>1. own[b] \in Keepers /\ \A z : own[b] = z => b \in Of(own, z)
    BY <1>2 DEF Of
  <2>2. own[b] # Gone
    BY <1>2, <1>10, <2>1 DEF ListsOK
  <2>3. CASE own[b] = Users
    <3>1. <<"users", Nil, held>> \in Owned /\ b \in held
      BY <1>2, <2>1, <2>3 DEF Owned, ListsOK
    <3> QED BY <3>1
  <2>4. ASSUME NEW t \in PoolThreads, own[b] = Mine(t) PROVE \E x \in Owned : b \in x[3]
    <3>1. <<"thread", t, Chain(thr[t].cursor)>> \in Owned /\ b \in Chain(thr[t].cursor)
      BY <1>5, <2>1, <2>4 DEF Owned
    <3> QED BY <3>1
  <2>5. ASSUME NEW n \in Nodes, own[b] = In(n) PROVE \E x \in Owned : b \in x[3]
    <3>1. b \in Of(own, In(n)) /\ Carried(C, n)
      BY <1>2, <2>1, <2>5 DEF ListsOK
    <3>2. n \in Carrying
      BY <1>4, <3>1
    <3>3. <<"node", n, Chain(node[n].value)>> \in Owned /\ b \in Chain(node[n].value)
      BY <1>6, <3>1, <3>2 DEF Owned
    <3> QED BY <3>3
  <2> QED BY <2>1, <2>2, <2>3, <2>4, <2>5 DEF Keepers
<1>11. ASSUME NEW x \in Owned, NEW b \in x[3] PROVE b \in (1 .. blocks) \ lost
  <2>1. b \in Of(own, K(x)) /\ K(x) # Gone
    BY <1>7, <1>8 DEF Gone
  <2>2. b \in 1 .. blocks /\ own[b] = K(x)
    BY <1>2, <2>1 DEF Of
  <2>3. b \notin lost
    BY <1>2, <2>1, <2>2 DEF ListsOK, Of
  <2> QED BY <2>2, <2>3
<1>12. UNION {x[3] : x \in Owned} = (1 .. blocks) \ lost
  BY <1>10, <1>11
<1> QED BY <1>9, <1>12 DEF PoolOwned

\* Threads that allocate, free, start, run out and end share the blocks of a
\* pool out: each block is with the users, in the list of one thread or in one
\* list of the central cache, and none is lost but for want of a node.  As long as
\* no aqueire overlaps a release: block_pool and central_cache_pool.
THEOREM PoolBlocksOwned == ~Overlap => (PoolSpec => []PoolOwned)
<1> SUFFICES ASSUME ~Overlap PROVE PoolSpec => []PoolOwned
  OBVIOUS
<1>1. PoolInit => PoolInv
  BY PoolStarts
<1>2. PoolInv /\ [PoolNext]_poolVars => PoolInv'
  BY PoolKeeps
<1>3. PoolInv => PoolOwned
  BY InvIsOwned
<1> QED BY <1>1, <1>2, <1>3, PTL DEF PoolSpec

-----------------------------------------------------------------------------
(* expected. *)

\* An expected, or the storage for one.
Holders == [live : BOOLEAN, has : BOOLEAN, item : Nat]

\* The item an object has is of the kind has_value_ says, in no other object
\* and not gone; an object that is not live has none; and no item is nowhere.
Keeps(st, ks, gn) ==
  /\ st \in [Homes -> Holders] /\ ks \in Seq(BOOLEAN) /\ gn \subseteq 1 .. Len(ks)
  /\ \A p \in Homes : st[p].item # NoItem =>
       /\ st[p].live /\ st[p].item \in 1 .. Len(ks) /\ st[p].has = ks[st[p].item]
       /\ st[p].item \notin gn
       /\ \A q \in Homes : st[q].item = st[p].item => q = p
  /\ \A i \in 1 .. Len(ks) : i \in gn \/ \E p \in Homes : st[p].item = i

KeepsInv == Keeps(stored, kinds, gone)

\* A new item goes into home p, and what p had is gone.
LEMMA ItemMade ==
  ASSUME KeepsInv, NEW p \in Homes, NEW has \in BOOLEAN,
         Makes(has), stored' = [stored EXCEPT ![p] = Object(has, NewItem)],
         Leaves(stored[p])
  PROVE  KeepsInv'
  <1> DEFINE k == Len(kinds)
  <1>1. /\ k \in Nat /\ kinds' \in Seq(BOOLEAN) /\ Len(kinds') = k + 1 /\ kinds'[k + 1] = has
        /\ \A i \in 1 .. k : kinds'[i] = kinds[i]
    BY DEF KeepsInv, Keeps, Makes
  <1>2. /\ stored' \in [Homes -> Holders] /\ stored'[p].live /\ stored'[p].has = has /\ stored'[p].item = k + 1
        /\ \A q \in Homes : q # p => stored'[q] = stored[q]
    BY <1>1 DEF KeepsInv, Keeps, Holders, Object, NewItem
  <1>3. \A q \in Homes : stored[q].item \in 0 .. k
    BY <1>1 DEF KeepsInv, Keeps, Holders, NoItem
  <1>4. gone' = gone \cup ({stored[p].item} \ {NoItem}) /\ gone' \subseteq 1 .. k
    <2>1. gone \subseteq 1 .. k /\ stored[p].item \in 0 .. k
      BY <1>3 DEF KeepsInv, Keeps
    <2>2. {stored[p].item} \ {0} \subseteq 1 .. k
      BY <1>1, <2>1
    <2> QED BY <2>1, <2>2 DEF Leaves, NoItem
  <1>5. ASSUME NEW q \in Homes, stored'[q].item # NoItem
        PROVE  /\ stored'[q].live /\ stored'[q].item \in 1 .. Len(kinds')
               /\ stored'[q].has = kinds'[stored'[q].item] /\ stored'[q].item \notin gone'
               /\ \A r \in Homes : stored'[r].item = stored'[q].item => r = q
    <2>1. CASE q = p
      BY <1>1, <1>2, <1>3, <1>4, <2>1
    <2>2. CASE q # p
      BY <1>1, <1>2, <1>3, <1>4, <1>5, <2>2 DEF KeepsInv, Keeps
    <2> QED BY <2>1, <2>2
  <1>6. ASSUME NEW i \in 1 .. Len(kinds') PROVE i \in gone' \/ \E q \in Homes : stored'[q].item = i
    <2>1. CASE i = k + 1
      BY <1>2, <2>1
    <2>2. CASE i \in 1 .. k
      BY <1>1, <1>2, <1>4, <2>2 DEF KeepsInv, Keeps, NoItem
    <2> QED BY <1>1, <2>1, <2>2
  <1> QED BY <1>1, <1>2, <1>4, <1>5, <1>6 DEF KeepsInv, Keeps

\* The items of p and q change places, or one goes where the other was; what
\* neither has afterwards is gone.
LEMMA ItemsMoved ==
  ASSUME KeepsInv, NEW p \in Homes, NEW q \in Homes, kinds' = kinds,
         stored' \in [Homes -> Holders],
         \A r \in Homes : r # p /\ r # q => stored'[r] = stored[r],
         \A r \in {p, q} : stored'[r].item # NoItem =>
           /\ stored'[r].live
           /\ \E s \in {p, q} : stored[s].item = stored'[r].item /\ stored[s].has = stored'[r].has,
         p # q /\ stored'[p].item = stored'[q].item => stored'[p].item = NoItem,
         gone' = gone \cup ({stored[p].item, stored[q].item} \ {stored'[p].item, stored'[q].item, NoItem})
  PROVE  KeepsInv'
  <1>1. gone' \subseteq 1 .. Len(kinds)
    BY ZenonT(40) DEF KeepsInv, Keeps
  <1>2. ASSUME NEW r \in Homes, stored'[r].item # NoItem
        PROVE  /\ stored'[r].live /\ stored'[r].item \in 1 .. Len(kinds)
               /\ stored'[r].has = kinds[stored'[r].item] /\ stored'[r].item \notin gone'
               /\ \A s \in Homes : stored'[s].item = stored'[r].item => s = r
    <2>1. CASE r \in {p, q}
      BY <1>2, <2>1 DEF KeepsInv, Keeps
    <2>2. CASE r \notin {p, q}
      BY <1>2, <2>2 DEF KeepsInv, Keeps
    <2> QED BY <2>1, <2>2
  <1>3. ASSUME NEW i \in 1 .. Len(kinds) PROVE i \in gone' \/ \E r \in Homes : stored'[r].item = i
    <2>1. CASE i \in gone
      BY <2>1
    <2>2. ASSUME NEW r \in Homes, stored[r].item = i PROVE i \in gone' \/ \E s \in Homes : stored'[s].item = i
      BY <2>2 DEF NoItem
    <2> QED BY <2>1, <2>2 DEF KeepsInv, Keeps
  <1> QED BY <1>1, <1>2, <1>3 DEF KeepsInv, Keeps

\* A move takes the item along.
LEMMA ExpMoveKeeps ==
  ASSUME KeepsInv, NEW p \in Homes, NEW q \in Homes, ~stored[p].live, stored[q].live,
         stored' = [stored EXCEPT ![p] = Moved(stored[q])[1], ![q] = Moved(stored[q])[2]],
         UNCHANGED <<kinds, gone>>
  PROVE  KeepsInv'
  <1>1. p # q /\ stored \in [Homes -> Holders] /\ stored[p].item = NoItem
    BY DEF KeepsInv, Keeps
  <1>2. /\ stored' \in [Homes -> Holders]
        /\ \A r \in Homes : r # p /\ r # q => stored'[r] = stored[r]
        /\ stored'[p].live /\ stored'[p].item = stored[q].item /\ stored'[p].has = stored[q].has
        /\ stored'[q].item = NoItem
    BY <1>1 DEF Moved, Object, Holders, NoItem
  <1> QED BY <1>1, <1>2, ItemsMoved DEF NoItem

\* A swap of p with q gives each the other's item, with what it is.
LEMMA SwappedTell ==
  ASSUME NEW a \in Holders, NEW b \in Holders, a.live, b.live
  PROVE  /\ Swapped(a, b)[1] = Object(b.has, b.item)
         /\ Swapped(a, b)[2] = Object(a.has, a.item)
  <1>1. CASE a.has = b.has
    BY <1>1 DEF Swapped, Object, Holders
  <1>2. CASE ~a.has /\ b.has
    BY <1>2 DEF Swapped, Object, Holders, reconstruct
  <1>3. CASE a.has /\ ~b.has
    BY <1>3 DEF Swapped, Object, Holders, reconstruct
  <1> QED BY <1>1, <1>2, <1>3 DEF Holders

\* A swap of two expecteds that are live.
LEMMA ExpSwapKeeps ==
  ASSUME KeepsInv, NEW p \in Homes, NEW q \in Homes, exp_swap(p, q)
  PROVE  KeepsInv'
  <1>1. stored \in [Homes -> Holders] /\ stored[p] \in Holders /\ stored[q] \in Holders
    BY DEF KeepsInv, Keeps
  <1>2. p # q /\ stored[p].live /\ stored[q].live /\ kinds' = kinds /\ gone' = gone
    BY DEF exp_swap
  <1>3. stored' = [stored EXCEPT ![p] = Object(stored[q].has, stored[q].item), ![q] = Object(stored[p].has, stored[p].item)]
    BY <1>1, <1>2, SwappedTell DEF exp_swap
  <1>4. /\ stored' \in [Homes -> Holders]
        /\ \A r \in Homes : r # p /\ r # q => stored'[r] = stored[r]
        /\ stored'[p] = Object(stored[q].has, stored[q].item)
        /\ stored'[q] = Object(stored[p].has, stored[p].item)
    BY <1>1, <1>2, <1>3 DEF Object, Holders
  <1>5. stored[p].item = stored[q].item => stored[p].item = NoItem
    BY <1>2 DEF KeepsInv, Keeps
  <1>6. \A r \in {p, q} : stored'[r].live /\ \E s \in {p, q} : stored[s].item = stored'[r].item /\ stored[s].has = stored'[r].has
    BY <1>4 DEF Object
  <1>7. gone' = gone \cup ({stored[p].item, stored[q].item} \ {stored'[p].item, stored'[q].item, NoItem})
    BY <1>2, <1>4 DEF Object
  <1>8. stored'[p].item = stored'[q].item => stored'[p].item = NoItem
    BY <1>4, <1>5 DEF Object
  <1> QED BY <1>2, <1>4, <1>6, <1>7, <1>8, ItemsMoved

\* An assignment moves its argument out and swaps with that, to itself too.
LEMMA ExpAssignKeeps ==
  ASSUME KeepsInv, NEW p \in Homes, NEW q \in Homes, exp_assign(p, q)
  PROVE  KeepsInv'
  <1> DEFINE arg == Moved(stored[q])[1]
             from == [stored EXCEPT ![q] = Moved(@)[2]]
             s == Swapped(from[p], arg)
  <1>1. stored \in [Homes -> Holders] /\ stored[p] \in Holders /\ stored[q] \in Holders
    BY DEF KeepsInv, Keeps
  <1>2. stored[p].live /\ stored[q].live /\ kinds' = kinds
    BY DEF exp_assign
  <1>3. arg = Object(stored[q].has, stored[q].item) /\ arg \in Holders /\ arg.live
        /\ arg.has = stored[q].has /\ arg.item = stored[q].item
    BY <1>1 DEF Moved, Object, Holders
  <1>4. /\ from \in [Homes -> Holders] /\ from[q].item = NoItem /\ from[q].has = stored[q].has /\ from[q].live
        /\ \A r \in Homes : r # q => from[r] = stored[r]
    BY <1>1, <1>2 DEF Moved, Holders, NoItem
  <1>5. from[p] \in Holders /\ from[p].live
    BY <1>2, <1>4
  <1>6. s[1] = Object(stored[q].has, stored[q].item) /\ s[2] = Object(from[p].has, from[p].item)
    BY <1>3, <1>5, SwappedTell
  <1>7. stored' = [from EXCEPT ![p] = s[1]] /\ gone' = gone \cup ({s[2].item} \ {NoItem})
    BY DEF exp_assign, Leaves
  <1> HIDE DEF arg, from, s
  <1>8. /\ s[1].live /\ s[1].has = stored[q].has /\ s[1].item = stored[q].item /\ s[2].item = from[p].item
        /\ s[1] \in Holders
    BY <1>1, <1>6 DEF Object, Holders
  <1>9. /\ stored' \in [Homes -> Holders] /\ stored'[p] = s[1]
        /\ \A r \in Homes : r # p => stored'[r] = from[r]
    BY <1>4, <1>7, <1>8
  <1>10. CASE p = q
    <2>1. gone' = gone /\ stored'[p].item = stored[p].item
      BY <1>4, <1>7, <1>8, <1>9, <1>10
    <2> QED BY <1>2, <1>4, <1>8, <1>9, <1>10, <2>1, ItemsMoved
  <1>11. CASE p # q
    <2>1. stored'[q].item = NoItem /\ stored'[p].item = stored[q].item /\ s[2].item = stored[p].item
      BY <1>4, <1>8, <1>9, <1>11
    <2>2. stored[p].item = stored[q].item => stored[p].item = NoItem
      BY <1>11 DEF KeepsInv, Keeps
    <2>3. gone' = gone \cup ({stored[p].item, stored[q].item} \ {stored'[p].item, stored'[q].item, NoItem})
      BY <1>7, <2>1, <2>2
    <2>4. \A r \in Homes : r # p /\ r # q => stored'[r] = stored[r]
      BY <1>4, <1>9
    <2> QED BY <1>2, <1>8, <1>9, <2>1, <2>3, <2>4, ItemsMoved
  <1> QED BY <1>10, <1>11

\* The item of an expected that ends is gone.
LEMMA ExpEndKeeps ==
  ASSUME KeepsInv, NEW p \in Homes, exp_end(p)
  PROVE  KeepsInv'
  <1>1. stored \in [Homes -> Holders] /\ kinds' = kinds
    BY DEF KeepsInv, Keeps, exp_end
  <1>2. /\ stored' \in [Homes -> Holders] /\ stored'[p].item = NoItem
        /\ \A r \in Homes : r # p => stored'[r] = stored[r]
    BY <1>1 DEF exp_end, NoObject, Holders, NoItem
  <1>3. gone' = gone \cup ({stored[p].item, stored[p].item} \ {stored'[p].item, stored'[p].item, NoItem})
    BY <1>2 DEF exp_end, Leaves
  <1> QED BY <1>1, <1>2, <1>3, ItemsMoved

\* Every operation of expected keeps the invariant.
LEMMA KeepsInductive ==
  ASSUME KeepsInv, ExpectedNext
  PROVE  KeepsInv'
  <1>1. PICK p \in Homes : \/ in_place(p) \/ unexpected(p) \/ emplace(p) \/ exp_end(p)
                           \/ \E q \in Homes : \/ exp_move(p, q) \/ exp_copy(p, q) \/ exp_swap(p, q)
                                               \/ exp_assign(p, q) \/ and_then(p, q) \/ or_else(p, q)
    BY DEF ExpectedNext
  <1>2. ~stored[p].live /\ UNCHANGED gone => Leaves(stored[p])
    BY DEF KeepsInv, Keeps, Leaves
  <1>3. \A q \in Homes : stored[q].has \in BOOLEAN
    BY DEF KeepsInv, Keeps, Holders
  <1>4. CASE in_place(p)
    BY <1>2, <1>4, ItemMade DEF in_place
  <1>5. CASE unexpected(p)
    BY <1>2, <1>5, ItemMade DEF unexpected
  <1>6. CASE emplace(p)
    BY <1>6, ItemMade DEF emplace, reconstruct
  <1>7. CASE exp_end(p)
    BY <1>7, ExpEndKeeps
  <1>8. ASSUME NEW q \in Homes, exp_move(p, q) PROVE KeepsInv'
    BY <1>8, ExpMoveKeeps DEF exp_move
  <1>9. ASSUME NEW q \in Homes, exp_copy(p, q) PROVE KeepsInv'
    BY <1>2, <1>3, <1>9, ItemMade DEF exp_copy
  <1>10. ASSUME NEW q \in Homes, and_then(p, q) PROVE KeepsInv'
    BY <1>2, <1>10, ExpMoveKeeps, ItemMade DEF and_then
  <1>11. ASSUME NEW q \in Homes, or_else(p, q) PROVE KeepsInv'
    BY <1>2, <1>11, ExpMoveKeeps, ItemMade DEF or_else
  <1> QED BY <1>1, <1>4, <1>5, <1>6, <1>7, <1>8, <1>9, <1>10, <1>11, ExpSwapKeeps, ExpAssignKeeps

\* At first there is nothing to keep.
LEMMA KeepsFirst == ExpectedInit => KeepsInv
  BY DEF ExpectedInit, KeepsInv, Keeps, NoObject, Holders, NoItem

\* What is kept is held once, as the value or the error it was made.
LEMMA HeldRight == KeepsInv => HeldOnce
  <1> SUFFICES ASSUME KeepsInv, NEW i \in 1 .. Len(kinds)
               PROVE  LET holders == {p \in Homes : stored[p].item = i}
                      IN /\ Cardinality(holders) + (IF i \in gone THEN 1 ELSE 0) = 1
                         /\ \A p \in holders : stored[p].has = kinds[i]
    BY DEF HeldOnce
  <1> DEFINE holders == {p \in Homes : stored[p].item = i}
  <1>1. i # NoItem
    BY DEF NoItem
  <1>2. CASE i \in gone
    <2>1. holders = {}
      BY <1>1, <1>2 DEF KeepsInv, Keeps
    <2>2. Cardinality(holders) = 0
      BY <2>1, FS_EmptySet
    <2> QED BY <1>2, <2>1, <2>2
  <1>3. CASE i \notin gone
    <2>1. PICK p \in Homes : stored[p].item = i
      BY <1>3 DEF KeepsInv, Keeps
    <2>2. holders = {p}
      BY <1>1, <2>1 DEF KeepsInv, Keeps
    <2>3. Cardinality(holders) = 1
      BY <2>2, FS_Singleton
    <2>4. stored[p].has = kinds[i]
      BY <1>1, <2>1 DEF KeepsInv, Keeps
    <2> QED BY <1>3, <2>2, <2>3, <2>4
  <1> QED BY <1>2, <1>3

-----------------------------------------------------------------------------
(* fmt_context. *)

\* The first n of a sequence.
LEMMA FirstOf ==
  ASSUME NEW S, NEW s \in Seq(S), NEW n \in 0 .. Len(s)
  PROVE  /\ SubSeq(s, 1, n) \in Seq(S) /\ Len(SubSeq(s, 1, n)) = n
         /\ \A i \in 1 .. n : SubSeq(s, 1, n)[i] = s[i]
  OBVIOUS

\* Rounding up leaves room for one more.
LEMMA RoundupAbove == ASSUME NEW n \in Nat PROVE Roundup(n) \in Nat /\ Roundup(n) > n
  <1>1. Rounding \in Nat \ {0}
    BY SupportAssumption
  <1>2. n = Rounding * (n \div Rounding) + (n % Rounding) /\ n % Rounding \in 0 .. Rounding - 1 /\ n \div Rounding \in Nat
    BY <1>1
  <1> QED BY <1>1, <1>2 DEF Roundup

\* resize keeps the front.
LEMMA ResizeIs ==
  ASSUME NEW s \in Seq(Nat), NEW size \in Nat
  PROVE  /\ Resize(s, size) \in Seq(Nat) /\ Len(Resize(s, size)) = size
         /\ \A i \in 1 .. size : i <= Len(s) => Resize(s, size)[i] = s[i]
  BY DEF Resize

\* Put changes what is behind the offset.
LEMMA PutIs ==
  ASSUME NEW s \in Seq(Nat), NEW n \in Nat, NEW c \in Nat, offset \in Nat
  PROVE  /\ Put(s, n, c) \in Seq(Nat) /\ Len(Put(s, n, c)) = Len(s)
         /\ \A i \in 1 .. Len(s) : Put(s, n, c)[i] = IF i \in offset + 1 .. offset + n THEN c ELSE s[i]
  BY DEF Put

\* What has been given is at the front of the buffer in use: the stack's as
\* long as the offset is below its size, then the string.
FmtInv ==
  /\ offset \in Nat /\ asked \in Nat /\ given \in Seq(Nat) /\ Len(given) = offset
  /\ sbuf \in Seq(Nat) /\ Len(sbuf) = BufSize /\ joined \in Seq(Nat)
  /\ offset < BufSize => \A i \in 1 .. offset : sbuf[i] = given[i]
  /\ offset >= BufSize => Len(joined) >= offset /\ \A i \in 1 .. offset : joined[i] = given[i]

\* buffer(size) has room for size and one more behind what has been given.
LEMMA BufferHas ==
  ASSUME FmtInv, NEW n \in Nat
  PROVE  /\ buffer(n) \in Seq(Nat) /\ Len(buffer(n)) > offset + n
         /\ \A i \in 1 .. offset : buffer(n)[i] = given[i]
         /\ InBuffer(n) => buffer(n) = sbuf /\ offset + n < BufSize
         /\ ~InBuffer(n) => offset + n >= BufSize
  <1>1. BufSize \in Nat /\ offset \in Nat
    BY SupportAssumption DEF FmtInv
  <1>2. CASE InBuffer(n)
    BY <1>1, <1>2 DEF FmtInv, InBuffer, Room, buffer
  <1>3. CASE offset < BufSize /\ ~Room(n)
    <2> DEFINE s == SubSeq(sbuf, 1, offset)
    <2>1. s \in Seq(Nat) /\ Len(s) = offset /\ \A i \in 1 .. offset : s[i] = given[i]
      BY <1>1, <1>3 DEF FmtInv
    <2>2. Roundup(offset + n) \in Nat /\ Roundup(offset + n) > offset + n
      BY <1>1, RoundupAbove
    <2>3. buffer(n) = Resize(s, Roundup(offset + n))
      BY <1>3 DEF buffer
    <2> HIDE DEF s
    <2>4. /\ Resize(s, Roundup(offset + n)) \in Seq(Nat) /\ Len(Resize(s, Roundup(offset + n))) = Roundup(offset + n)
          /\ \A i \in 1 .. Roundup(offset + n) : i <= Len(s) => Resize(s, Roundup(offset + n))[i] = s[i]
      BY <2>1, <2>2, ResizeIs, Zenon
    <2> QED BY <1>1, <1>3, <2>1, <2>2, <2>3, <2>4 DEF InBuffer, Room
  <1>4. CASE offset >= BufSize
    <2>1. joined \in Seq(Nat) /\ Len(joined) >= offset /\ \A i \in 1 .. offset : joined[i] = given[i]
      BY <1>4 DEF FmtInv
    <2>2. Roundup(offset + n) \in Nat /\ Roundup(offset + n) > offset + n
      BY <1>1, RoundupAbove
    <2>3. buffer(n) = IF offset + n >= Len(joined) THEN Resize(joined, Roundup(offset + n)) ELSE joined
      BY <1>1, <1>4 DEF buffer
    <2>4. /\ Resize(joined, Roundup(offset + n)) \in Seq(Nat)
          /\ Len(Resize(joined, Roundup(offset + n))) = Roundup(offset + n)
          /\ \A i \in 1 .. Roundup(offset + n) : i <= Len(joined) => Resize(joined, Roundup(offset + n))[i] = joined[i]
      BY <2>1, <2>2, ResizeIs, Zenon
    <2> QED BY <1>1, <1>4, <2>1, <2>2, <2>3, <2>4, SMTT(40) DEF InBuffer
  <1> QED BY <1>1, <1>2, <1>3, <1>4 DEF InBuffer

\* A piece of n characters goes to the buffer that is in use afterwards.
LEMMA PieceWritten ==
  ASSUME FmtInv, NEW n \in Nat, NEW t \in Seq(Nat), Len(t) >= offset + n,
         \A i \in 1 .. offset : t[i] = given[i],
         \A i \in offset + 1 .. offset + n : t[i] = asked + 1,
         Accept(n), sbuf' \in Seq(Nat), Len(sbuf') = BufSize, joined' \in Seq(Nat),
         IF offset + n < BufSize THEN sbuf' = t ELSE joined' = t
  PROVE  FmtInv'
  <1> DEFINE w == [i \in 1 .. n |-> asked + 1]
  <1>1. BufSize \in Nat /\ offset \in Nat /\ asked \in Nat /\ given \in Seq(Nat) /\ Len(given) = offset
    BY SupportAssumption DEF FmtInv
  <1>2. w \in Seq(Nat) /\ Len(w) = n /\ \A i \in 1 .. n : w[i] = asked + 1
    BY <1>1
  <1>3. offset' \in Nat /\ asked' \in Nat /\ offset' = offset + n
    BY <1>1 DEF Accept
  <1>4. given' = given \o w
    BY DEF Accept
  <1> HIDE DEF w
  <1>5. /\ given \o w \in Seq(Nat) /\ Len(given \o w) = Len(given) + Len(w)
        /\ \A i \in 1 .. Len(given) + Len(w) :
             (given \o w)[i] = IF i <= Len(given) THEN given[i] ELSE w[i - Len(given)]
    BY <1>1, <1>2, ConcatProperties, ZenonT(40)
  <1>6. /\ given' \in Seq(Nat) /\ Len(given') = Len(given) + Len(w)
        /\ \A i \in 1 .. Len(given) + Len(w) :
             given'[i] = IF i <= Len(given) THEN given[i] ELSE w[i - Len(given)]
    BY <1>4, <1>5, Zenon
  <1>7. \A i \in 1 .. offset' : given'[i] = t[i]
    <2> SUFFICES ASSUME NEW i \in 1 .. offset' PROVE given'[i] = t[i]
      OBVIOUS
    <2>1. CASE i <= offset
      BY <1>1, <1>2, <1>3, <1>6, <2>1
    <2>2. CASE i > offset
      <3>1. i - offset \in 1 .. n /\ i \in offset + 1 .. offset + n
        BY <1>1, <1>3, <2>2
      <3>2. w[i - offset] = asked + 1 /\ t[i] = asked + 1
        BY <1>2, <3>1
      <3> QED BY <1>1, <1>2, <1>3, <1>6, <2>2, <3>2
    <2> QED BY <1>1, <1>3, <2>1, <2>2
  <1>8. Len(given') = offset'
    BY <1>1, <1>2, <1>3, <1>6
  <1>9. CASE offset + n < BufSize
    <2>1. sbuf' = t /\ offset' < BufSize /\ ~(offset' >= BufSize)
      BY <1>1, <1>3, <1>9
    <2> QED BY <1>3, <1>6, <1>7, <1>8, <2>1, Zenon DEF FmtInv
  <1>10. CASE offset + n >= BufSize
    <2>1. joined' = t /\ ~(offset' < BufSize) /\ Len(t) >= offset'
      BY <1>1, <1>3, <1>10
    <2> QED BY <1>3, <1>6, <1>7, <1>8, <2>1, Zenon DEF FmtInv
  <1> QED BY <1>1, <1>9, <1>10

\* A buffer of m characters begins with what has been given and has room for n more.
Takes(b, n, c, m) ==
  /\ b \in Seq(Nat) /\ n \in Nat /\ c \in Nat /\ offset \in Nat /\ m \in Nat
  /\ Len(b) = m /\ m >= offset + n
  /\ \A i \in 1 .. offset : b[i] = given[i]

\* What Put leaves in such a buffer.
LEMMA PutHas ==
  ASSUME NEW b, NEW n, NEW c, NEW m, Takes(b, n, c, m)
  PROVE  /\ Put(b, n, c) \in Seq(Nat) /\ Len(Put(b, n, c)) = m
         /\ \A i \in 1 .. offset : Put(b, n, c)[i] = given[i]
         /\ \A i \in offset + 1 .. offset + n : Put(b, n, c)[i] = c
  <1>0. /\ b \in Seq(Nat) /\ n \in Nat /\ c \in Nat /\ offset \in Nat /\ m \in Nat
        /\ Len(b) = m /\ m >= offset + n
        /\ \A i \in 1 .. offset : b[i] = given[i]
    BY Zenon DEF Takes
  <1>1. /\ Put(b, n, c) \in Seq(Nat) /\ Len(Put(b, n, c)) = Len(b)
        /\ \A i \in 1 .. Len(b) : Put(b, n, c)[i] = IF i \in offset + 1 .. offset + n THEN c ELSE b[i]
    BY <1>0, PutIs, ZenonT(40)
  <1> HIDE DEF Put
  <1>2. ASSUME NEW i \in 1 .. offset PROVE Put(b, n, c)[i] = given[i]
    <2>1. i \in 1 .. Len(b) /\ i \notin offset + 1 .. offset + n
      BY <1>0
    <2> QED BY <1>0, <1>1, <2>1, Zenon
  <1>3. ASSUME NEW i \in offset + 1 .. offset + n PROVE Put(b, n, c)[i] = c
    <2>1. i \in 1 .. Len(b)
      BY <1>0
    <2> QED BY <1>1, <2>1, Zenon
  <1> QED BY <1>0, <1>1, <1>2, <1>3, Zenon

\* append writes into the buffer it has asked for.
LEMMA AppendKeeps ==
  ASSUME FmtInv, NEW n \in Nat, append(n)
  PROVE  FmtInv'
  <1> DEFINE t == Put(buffer(n), n, asked + 1)
  <1>1. offset \in Nat /\ asked + 1 \in Nat /\ BufSize \in Nat
    BY SupportAssumption DEF FmtInv
  <1>2. /\ buffer(n) \in Seq(Nat) /\ Len(buffer(n)) > offset + n
        /\ \A i \in 1 .. offset : buffer(n)[i] = given[i]
        /\ InBuffer(n) => buffer(n) = sbuf /\ offset + n < BufSize
        /\ ~InBuffer(n) => offset + n >= BufSize
    BY BufferHas, Zenon
  <1>3. Len(buffer(n)) \in Nat /\ Len(buffer(n)) >= offset + n
    BY <1>1, <1>2
  <1>4. /\ t \in Seq(Nat) /\ Len(t) = Len(buffer(n))
        /\ \A i \in 1 .. offset : t[i] = given[i]
        /\ \A i \in offset + 1 .. offset + n : t[i] = asked + 1
    <2>1. Takes(buffer(n), n, asked + 1, Len(buffer(n)))
      BY <1>1, <1>2, <1>3, Zenon DEF Takes
    <2> QED BY <2>1, PutHas, Zenon
  <1>5. Store(n, t) /\ Accept(n)
    BY DEF append
  <1> HIDE DEF t
  <1>6. /\ sbuf' \in Seq(Nat) /\ Len(sbuf') = BufSize /\ joined' \in Seq(Nat)
        /\ IF offset + n < BufSize THEN sbuf' = t ELSE joined' = t
    BY <1>1, <1>2, <1>4, <1>5 DEF Store, FmtInv
  <1>7. Len(t) >= offset + n
    BY <1>3, <1>4
  <1> QED BY <1>4, <1>5, <1>6, <1>7, PieceWritten, Zenon

\* snprintf at the first try: the zero it adds is behind the piece.
LEMMA SprintfFits ==
  ASSUME FmtInv, NEW n \in Nat, sprintf_fits(n)
  PROVE  FmtInv'
  <1> DEFINE p == Put(buffer(0), n, asked + 1)
             t == [p EXCEPT ![offset + n + 1] = 0]
  <1>1. offset \in Nat /\ asked + 1 \in Nat /\ BufSize \in Nat
    BY SupportAssumption DEF FmtInv
  <1>2. /\ buffer(0) \in Seq(Nat) /\ Len(buffer(0)) > offset + 0
        /\ \A i \in 1 .. offset : buffer(0)[i] = given[i]
        /\ InBuffer(0) => buffer(0) = sbuf /\ offset + 0 < BufSize
        /\ ~InBuffer(0) => offset + 0 >= BufSize
    BY BufferHas, Zenon
  <1>3. Store(0, t) /\ Accept(n) /\ n < Len(buffer(0)) - offset
    BY DEF sprintf_fits
  <1>4. Len(buffer(0)) \in Nat /\ Len(buffer(0)) >= offset + n /\ Len(buffer(0)) > offset + n
    BY <1>1, <1>2, <1>3
  <1>5. /\ p \in Seq(Nat) /\ Len(p) = Len(buffer(0))
        /\ \A i \in 1 .. offset : p[i] = given[i]
        /\ \A i \in offset + 1 .. offset + n : p[i] = asked + 1
    <2>1. Takes(buffer(0), n, asked + 1, Len(buffer(0)))
      BY <1>1, <1>2, <1>4, Zenon DEF Takes
    <2> QED BY <2>1, PutHas, Zenon
  <1> HIDE DEF p
  <1>6. /\ t \in Seq(Nat) /\ Len(t) = Len(p)
        /\ \A i \in 1 .. offset + n : t[i] = p[i]
    BY <1>1, <1>4, <1>5
  <1> HIDE DEF t
  <1>7. /\ \A i \in 1 .. offset : t[i] = given[i]
        /\ \A i \in offset + 1 .. offset + n : t[i] = asked + 1
    BY <1>1, <1>5, <1>6
  <1>8. /\ sbuf' \in Seq(Nat) /\ Len(sbuf') = BufSize /\ joined' \in Seq(Nat)
        /\ IF offset + n < BufSize THEN sbuf' = t ELSE joined' = t
    <2>1. CASE InBuffer(0)
      BY <1>1, <1>2, <1>3, <1>4, <1>5, <1>6, <2>1 DEF Store, FmtInv
    <2>2. CASE ~InBuffer(0)
      BY <1>1, <1>2, <1>3, <1>6, <2>2 DEF Store, FmtInv
    <2> QED BY <2>1, <2>2
  <1>9. Len(t) >= offset + n
    BY <1>4, <1>5, <1>6
  <1> QED BY <1>3, <1>6, <1>7, <1>8, <1>9, PieceWritten, Zenon

\* snprintf at the second try overwrites what the first has left.
LEMMA SprintfAgain ==
  ASSUME FmtInv, NEW n \in Nat, sprintf_again(n)
  PROVE  FmtInv'
  <1> DEFINE tried == buffer(0)
             k == Len(tried) - offset - 1
             p == Put(tried, k, asked + 1)
             put == [p EXCEPT ![Len(tried)] = 0]
             size == IF InBuffer(0) THEN Roundup(offset + n + 1)
                     ELSE IF offset + n + 1 >= Len(put) THEN Roundup(offset + n + 1) ELSE Len(put)
             old == IF InBuffer(0) THEN SubSeq(put, 1, offset) ELSE put
             grown == Resize(old, size)
             t == Put(grown, n, asked + 1)
  <1>1. offset \in Nat /\ asked + 1 \in Nat /\ BufSize \in Nat
    BY SupportAssumption DEF FmtInv
  <1>2. /\ tried \in Seq(Nat) /\ Len(tried) > offset + 0
        /\ \A i \in 1 .. offset : tried[i] = given[i]
        /\ InBuffer(0) => tried = sbuf /\ offset + 0 < BufSize
        /\ ~InBuffer(0) => offset + 0 >= BufSize
    BY BufferHas, Zenon
  <1>3. n >= Len(tried) - offset /\ Accept(n)
        /\ (IF InBuffer(0) THEN sbuf' = put /\ joined' = t ELSE joined' = t /\ sbuf' = sbuf)
    BY DEF sprintf_again
  <1> HIDE DEF tried
  <1>4. Len(tried) \in Nat /\ k \in Nat /\ Len(tried) >= offset + k
    BY <1>1, <1>2
  <1> HIDE DEF k
  <1>5. /\ p \in Seq(Nat) /\ Len(p) = Len(tried)
        /\ \A i \in 1 .. offset : p[i] = given[i]
    <2>1. Takes(tried, k, asked + 1, Len(tried))
      BY <1>1, <1>2, <1>4, Zenon DEF Takes
    <2>2. /\ p \in Seq(Nat) /\ Len(p) = Len(tried)
          /\ \A i \in 1 .. offset : p[i] = given[i]
          /\ \A i \in offset + 1 .. offset + k : p[i] = asked + 1
      BY <2>1, PutHas, Zenon
    <2> QED BY <2>2, Zenon
  <1> HIDE DEF p
  <1>6. put \in Seq(Nat) /\ Len(put) = Len(tried) /\ \A i \in 1 .. offset : put[i] = given[i]
    BY <1>1, <1>2, <1>4, <1>5
  <1> HIDE DEF put
  <1>7. offset + n + 1 \in Nat /\ Roundup(offset + n + 1) \in Nat /\ Roundup(offset + n + 1) > offset + n + 1
    BY <1>1, RoundupAbove
  <1>8. size \in Nat /\ size > offset + n
    BY <1>1, <1>4, <1>6, <1>7
  <1>9. old \in Seq(Nat) /\ Len(old) \in Nat /\ Len(old) >= offset /\ \A i \in 1 .. offset : old[i] = given[i]
    <2>1. CASE InBuffer(0)
      <3> DEFINE s == SubSeq(put, 1, offset)
      <3>1. offset \in 0 .. Len(put)
        BY <1>1, <1>2, <1>4, <1>6
      <3>2. s \in Seq(Nat) /\ Len(s) = offset /\ \A i \in 1 .. offset : s[i] = put[i]
        BY <1>6, <3>1, FirstOf, Zenon
      <3> HIDE DEF s
      <3>3. Len(s) \in Nat /\ Len(s) >= offset
        BY <1>1, <3>2
      <3>4. old = s
        BY <2>1, Zenon DEF s
      <3> HIDE DEF old
      <3> QED BY <1>6, <3>2, <3>3, <3>4, Zenon
    <2>2. CASE ~InBuffer(0)
      <3>1. Len(put) \in Nat /\ Len(put) >= offset
        BY <1>1, <1>2, <1>4, <1>6
      <3>2. old = put
        BY <2>2, Zenon
      <3> HIDE DEF old
      <3> QED BY <1>6, <3>1, <3>2, Zenon
    <2> QED BY <2>1, <2>2
  <1> HIDE DEF size, old
  <1>10. /\ grown \in Seq(Nat) /\ Len(grown) = size
         /\ \A i \in 1 .. size : i <= Len(old) => grown[i] = old[i]
    BY <1>8, <1>9, ResizeIs, Zenon
  <1> HIDE DEF grown
  <1>11. /\ \A i \in 1 .. offset : grown[i] = given[i]
         /\ size >= offset + n
    <2>1. size >= offset + n /\ \A i \in 1 .. offset : i \in 1 .. size /\ i <= Len(old)
      BY <1>1, <1>8, <1>9
    <2> QED BY <1>9, <1>10, <2>1, Zenon
  <1>12. /\ t \in Seq(Nat) /\ Len(t) = size
         /\ \A i \in 1 .. offset : t[i] = given[i]
         /\ \A i \in offset + 1 .. offset + n : t[i] = asked + 1
    <2>1. Takes(grown, n, asked + 1, size)
      BY <1>1, <1>8, <1>10, <1>11, Zenon DEF Takes
    <2> QED BY <2>1, PutHas, Zenon
  <1> HIDE DEF t
  <1>13. /\ sbuf' \in Seq(Nat) /\ Len(sbuf') = BufSize /\ joined' \in Seq(Nat)
         /\ IF offset + n < BufSize THEN sbuf' = t ELSE joined' = t
    <2>1. CASE InBuffer(0)
      <3>1. Len(sbuf) = BufSize
        BY DEF FmtInv
      <3> QED BY <1>1, <1>2, <1>3, <1>4, <1>6, <1>12, <2>1, <3>1
    <2>2. CASE ~InBuffer(0)
      BY <1>1, <1>2, <1>3, <1>12, <2>2 DEF FmtInv
    <2> QED BY <2>1, <2>2
  <1>14. Len(t) >= offset + n
    BY <1>11, <1>12
  <1> QED BY <1>3, <1>12, <1>13, <1>14, PieceWritten, Zenon

\* Every operation of fmt_context keeps the invariant.
LEMMA FmtInductive ==
  ASSUME FmtInv, FmtNext
  PROVE  FmtInv'
  <1>1. ASSUME NEW n \in Lengths, append_fails(n) PROVE FmtInv'
    <2>1. n \in Nat /\ BufSize \in Nat /\ offset \in Nat /\ sbuf \in Seq(Nat) /\ Len(sbuf) = BufSize
      BY SupportAssumption DEF FmtInv
    <2>2. CASE offset < BufSize
      <3>1. SubSeq(sbuf, 1, offset) \in Seq(Nat)
        BY <2>1, <2>2
      <3>2. joined' \in Seq(Nat)
        BY <1>1, <2>2, <3>1, Zenon DEF append_fails
      <3> QED BY <1>1, <2>1, <2>2, <3>2 DEF FmtInv, append_fails
    <2>3. CASE ~(offset < BufSize)
      BY <1>1, <2>1, <2>3 DEF FmtInv, append_fails
    <2> QED BY <2>2, <2>3
  <1>2. CASE fmt_reset
    <2>1. BufSize \in Nat \ {0}
      BY SupportAssumption
    <2>2. <<>> \in Seq(Nat) /\ Len(<<>>) = 0
      OBVIOUS
    <2> QED BY <1>2, <2>1, <2>2 DEF FmtInv, fmt_reset
  <1>3. \A n \in Lengths : n \in Nat
    BY SupportAssumption
  <1> QED BY <1>1, <1>2, <1>3, AppendKeeps, SprintfFits, SprintfAgain DEF FmtNext

\* Nothing has been given at first.
LEMMA FmtFirst == fmt_init => FmtInv
  <1>1. BufSize \in Nat \ {0}
    BY SupportAssumption
  <1> QED BY <1>1 DEF fmt_init, FmtInv

\* finish returns what has been given.
LEMMA FmtRight == FmtInv => FmtWhole
  <1> SUFFICES ASSUME FmtInv PROVE finish = given
    BY DEF FmtWhole
  <1>1. offset \in Nat /\ BufSize \in Nat /\ given \in Seq(Nat) /\ Len(given) = offset
    BY SupportAssumption DEF FmtInv
  <1>2. finish \in Seq(Nat) /\ Len(finish) = offset /\ \A i \in 1 .. offset : finish[i] = given[i]
    <2>1. CASE offset < BufSize
      <3>1. sbuf \in Seq(Nat) /\ Len(sbuf) = BufSize /\ \A i \in 1 .. offset : sbuf[i] = given[i]
        BY <2>1 DEF FmtInv
      <3>2. /\ SubSeq(sbuf, 1, offset) \in Seq(Nat) /\ Len(SubSeq(sbuf, 1, offset)) = offset
            /\ \A i \in 1 .. offset : SubSeq(sbuf, 1, offset)[i] = given[i]
        <4>1. offset \in 0 .. Len(sbuf)
          BY <1>1, <2>1, <3>1
        <4> QED BY <3>1, <4>1, FirstOf, Zenon
      <3> QED BY <2>1, <3>2, Zenon DEF finish
    <2>2. CASE ~(offset < BufSize)
      <3>1. joined \in Seq(Nat) /\ Len(joined) >= offset /\ \A i \in 1 .. offset : joined[i] = given[i]
        BY <1>1, <2>2 DEF FmtInv
      <3>2. /\ Resize(joined, offset) \in Seq(Nat) /\ Len(Resize(joined, offset)) = offset
            /\ \A i \in 1 .. offset : i <= Len(joined) => Resize(joined, offset)[i] = joined[i]
        BY <1>1, <3>1, ResizeIs, Zenon
      <3>3. finish = Resize(joined, offset)
        BY <2>2, Zenon DEF finish
      <3> QED BY <1>1, <3>1, <3>2, <3>3
    <2> QED BY <2>1, <2>2
  <1> HIDE DEF finish
  <1> QED BY <1>1, <1>2, SeqEqual

-----------------------------------------------------------------------------
(* calc_wait_time. *)

\* The units are positive.
LEMMA TimeUnits ==
  /\ NsPerMs \in Nat \ {0} /\ NsPerSec \in Nat \ {0} /\ NsPerMs = UsPerMs * NsPerUs /\ NsPerSec = MsPerSec * NsPerMs
  /\ MsPerSec \in Nat \ {0} /\ UsPerMs \in Nat \ {0} /\ NsPerUs \in Nat \ {0} /\ Word \in Nat \ {0}
  <1>1. MsPerSec \in Nat \ {0} /\ UsPerMs \in Nat \ {0} /\ NsPerUs \in Nat \ {0} /\ Word \in Nat \ {0}
    BY SupportAssumption
  <1>2. \A a, b \in Nat \ {0} : a * b \in Nat \ {0}
    OBVIOUS
  <1> QED BY <1>1, <1>2 DEF NsPerMs, NsPerSec

\* The time add nanoseconds after ts is a proper time.
LEMMA ClockAdds ==
  ASSUME NEW s \in Nat, NEW ns \in 0 .. NsPerSec - 1, NEW add \in Nat
  PROVE  LET ts == a0_clock_add([sec |-> s, nsec |-> ns], add)
         IN /\ ts.nsec \in 0 .. NsPerSec - 1
            /\ ts.sec * NsPerSec + ts.nsec = s * NsPerSec + ns + add
  <1> DEFINE n == NsPerSec
             q == add \div n
             r == add % n
  <1>1. n \in Nat \ {0}
    BY TimeUnits
  <1>2. q \in Nat /\ r \in Nat /\ r < n /\ add = n * q + r
    BY <1>1, DivMod
  <1>3. a0_clock_add([sec |-> s, nsec |-> ns], add) =
          IF ns + r >= n THEN [sec |-> s + q + 1, nsec |-> ns + r - n] ELSE [sec |-> s + q, nsec |-> ns + r]
    <2> DEFINE ts == [sec |-> s, nsec |-> ns]
    <2>1. ts.sec = s /\ ts.nsec = ns
      OBVIOUS
    <2> HIDE DEF ts
    <2>2. a0_clock_add(ts, add) =
            IF ns + r >= n THEN [sec |-> s + q + 1, nsec |-> ns + r - n] ELSE [sec |-> s + q, nsec |-> ns + r]
      BY <1>1, <1>2, <2>1 DEF a0_clock_add
    <2> QED BY <2>2 DEF ts
  <1> HIDE DEF q, r, n
  <1>4. ns \in Nat /\ ns < n
    BY <1>1 DEF n
  <1>5. (s + q) * n = s * n + n * q /\ (s + q + 1) * n = s * n + n * q + n
    BY <1>1, <1>2
  <1>6. CASE ns + r >= n
    <2>1. ns + r - n \in 0 .. n - 1
      BY <1>1, <1>2, <1>4, <1>6
    <2>2. (s + q + 1) * n + (ns + r - n) = s * n + ns + add
      BY <1>1, <1>2, <1>4, <1>5
    <2> QED BY <1>3, <1>6, <2>1, <2>2 DEF n
  <1>7. CASE ~(ns + r >= n)
    <2>1. ns + r \in 0 .. n - 1
      BY <1>1, <1>2, <1>4, <1>7
    <2>2. (s + q) * n + (ns + r) = s * n + ns + add
      BY <1>1, <1>2, <1>4, <1>5
    <2> QED BY <1>3, <1>7, <2>1, <2>2 DEF n
  <1> QED BY <1>6, <1>7

\* calc_wait_time is right on both platforms.
LEMMA ClockRight ==
  ASSUME clock \in Clocks
  PROVE  DeadlineRight
  <1> DEFINE K == NsPerMs
             n == NsPerSec
             tm == clock.tm
             ns == clock.nsec
             add == (tm * K) % Word
             now == [sec |-> 0, nsec |-> ns]
             Right(ts, from) == /\ ts.nsec \in 0 .. n - 1
                                /\ ts.sec * n + ts.nsec = from + tm * K
  <1>1. /\ K \in Nat \ {0} /\ n \in Nat \ {0} /\ MsPerSec \in Nat \ {0} /\ UsPerMs \in Nat \ {0} /\ NsPerUs \in Nat \ {0}
        /\ Word \in Nat \ {0} /\ K = UsPerMs * NsPerUs /\ n = MsPerSec * K
    BY TimeUnits
  <1>2. tm \in 0 .. (Word \div K) - 1 /\ ns \in 0 .. n - 1
    BY DEF Clocks
  <1>3. add = tm * K /\ add \in Nat
    <2> DEFINE w == Word \div K
    <2>1. w \in Nat /\ Word = K * w + (Word % K) /\ Word % K \in Nat
      BY <1>1, DivMod
    <2>2. tm \in Nat /\ tm <= w - 1
      BY <1>2, <2>1
    <2> HIDE DEF w, K, tm
    <2>3. tm * K <= (w - 1) * K
      BY <1>1, <2>1, <2>2
    <2>4. (w - 1) * K = K * w - K
      BY <1>1, <2>1
    <2>5. tm * K \in Nat
      BY <1>1, <2>2
    <2>6. tm * K < Word
      BY <1>1, <2>1, <2>3, <2>4, <2>5
    <2> QED BY <1>1, <2>5, <2>6, Small
  <1>4. IF tm * K >= Word \div 2 THEN wait_time_linux(now, tm) = NoTime
                                 ELSE Right(wait_time_linux(now, tm), ns)
    <2> HIDE DEF Right
    <2>1. wait_time_linux(now, tm) = IF add >= Word \div 2 THEN NoTime ELSE a0_clock_add(now, add)
      BY DEF wait_time_linux
    <2>2. Right(a0_clock_add(now, add), ns)
      <3> DEFINE ts == a0_clock_add(now, add)
      <3>1. ts.nsec \in 0 .. n - 1 /\ ts.sec * n + ts.nsec = 0 * n + ns + add
        BY <1>2, <1>3, ClockAdds
      <3> HIDE DEF ts, add, n, K, tm, ns
      <3>2. ns \in Nat /\ 0 * n = 0
        BY <1>1, <1>2
      <3> QED BY <1>1, <1>3, <3>1, <3>2 DEF Right, ts
    <2> HIDE DEF add, now, K, tm
    <2> QED BY <1>3, <2>1, <2>2
  <1>5. Right(wait_time_posix(now, tm), ns - (ns % NsPerUs))
    <2> DEFINE U == NsPerUs
               x == ns \div U
               q == tm \div MsPerSec
               r == tm % MsPerSec
               y == (x + r * UsPerMs) * U
               d == y \div n
               m == y % n
    <2>1. wait_time_posix(now, tm) = [sec |-> 0 + q + d, nsec |-> m]
      BY DEF wait_time_posix
    <2>20. ns \in Nat
      <3> HIDE DEF n, ns
      <3> QED BY <1>1, <1>2
    <2>2. x \in Nat /\ ns = U * x + (ns % U) /\ ns % U \in Nat
      BY <1>1, <2>20, DivMod
    <2>31. tm \in Nat
      <3>1. Word \div K \in Nat
        BY <1>1, DivMod
      <3> HIDE DEF K, tm
      <3> QED BY <1>2, <3>1
    <2>3. tm \in Nat /\ q \in Nat /\ r \in Nat /\ tm = MsPerSec * q + r
      BY <1>1, <2>31, DivMod
    <2> HIDE DEF x, q, r
    <2>4. y \in Nat
      BY <1>1, <2>2, <2>3
    <2>5. d \in Nat /\ m \in Nat /\ m < n /\ y = n * d + m
      BY <1>1, <2>4, DivMod
    <2>6. y = U * x + r * K
      <3>1. (x + r * UsPerMs) * U = x * U + (r * UsPerMs) * U
        BY <1>1, <2>2, <2>3
      <3>2. (r * UsPerMs) * U = r * (UsPerMs * U)
        BY <1>1, <2>3
      <3>3. x * U = U * x
        BY <1>1, <2>2
      <3> QED BY <1>1, <3>1, <3>2, <3>3
    <2> HIDE DEF d, m, y, U
    <2>7. (q + d) * n = q * n + n * d
      BY <1>1, <2>3, <2>5
    <2>8. q * n = (MsPerSec * q) * K
      <3> HIDE DEF K, n
      <3>1. q * (MsPerSec * K) = (MsPerSec * q) * K
        BY <1>1, <2>3
      <3> QED BY <1>1, <3>1
    <2>9. tm * K = (MsPerSec * q) * K + r * K
      <3> HIDE DEF K, tm
      <3>1. (MsPerSec * q + r) * K = (MsPerSec * q) * K + r * K
        BY <1>1, <2>3
      <3> QED BY <2>3, <3>1
    <2>10. (q + d) * n + m = ns - (ns % U) + tm * K
      <3> DEFINE A == (q + d) * n
                 B == q * n
                 C == n * d
                 D == (MsPerSec * q) * K
                 E == r * K
                 F == U * x
                 G == tm * K
                 rest == ns % U
      <3>1. A \in Int /\ B \in Int /\ C \in Int /\ D \in Int /\ E \in Int /\ F \in Int /\ G \in Int
        <4> HIDE DEF K, n, tm
        <4> QED BY <1>1, <2>2, <2>3, <2>5 DEF U
      <3>2. A = B + C /\ B = D /\ G = D + E /\ y = C + m /\ y = F + E /\ ns = F + rest
        BY <2>2, <2>5, <2>6, <2>7, <2>8, <2>9
      <3>3. ns \in Int /\ rest \in Int /\ y \in Int /\ m \in Int
        BY <1>2, <2>2, <2>4, <2>5
      <3> HIDE DEF A, B, C, D, E, F, G, rest, ns
      <3>4. A + m = ns - rest + G
        BY <3>1, <3>2, <3>3
      <3> QED BY <3>4 DEF A, G, rest
    <2> HIDE DEF now, K, n, tm, ns
    <2>11. m \in 0 .. n - 1 /\ 0 + q + d = q + d
      BY <1>1, <2>3, <2>5
    <2> QED BY <2>1, <2>10, <2>11 DEF U
  <1> QED BY <1>4, <1>5 DEF DeadlineRight

-----------------------------------------------------------------------------
(* The formats given to snprintf. *)

\* One step of sbuf_cat.
Cat(out, a) == out \o smem_cpy(SpecSize - Len(out), a)

\* The fold of sbuf_cat over three or four arguments, step by step.
LEMMA CatAll ==
  ASSUME NEW n \in {3, 4}, NEW args, DOMAIN args = 1 .. n
  PROVE  LET three == Cat(Cat(Cat(<<>>, args[1]), args[2]), args[3])
         IN  sbuf_cat(args) = IF n = 3 THEN three ELSE Cat(three, args[4])
  <1> DEFINE One(s) == IF 1 \in s THEN Cat(<<>>, args[1]) ELSE <<>>
             Two(s) == IF 2 \in s THEN Cat(One(s), args[2]) ELSE One(s)
             Three(s) == IF 3 \in s THEN Cat(Two(s), args[3]) ELSE Two(s)
             Four(s) == IF 4 \in s THEN Cat(Three(s), args[4]) ELSE Three(s)
             Turn(f, s) == IF s = {} THEN <<>> ELSE Cat(f[s \ {Max(s)}], args[Max(s)])
             g == [s \in SUBSET (1 .. n) |-> Four(s)]
             Folded(f) == [s \in SUBSET (1 .. n) |-> Turn(f, s)]
             iter == CHOOSE f : f = Folded(f)
  <1> HIDE DEF Cat
  <1>1. ASSUME NEW s \in SUBSET (1 .. n), NEW x \in s, \A y \in s : x >= y PROVE Max(s) = x
    <2>1. Max(s) \in s /\ \A y \in s : Max(s) >= y
      BY <1>1 DEF Max
    <2>2. s \subseteq Int
      OBVIOUS
    <2>3. Max(s) \in Int /\ x \in Int
      BY <1>1, <2>1, <2>2, Zenon
    <2> HIDE DEF Max
    <2> QED BY <1>1, <2>1, <2>3
  <1>2. g = Folded(g)
    <2> HIDE DEF Four, Turn
    <2> SUFFICES ASSUME NEW s \in SUBSET (1 .. n) PROVE Four(s) = Turn(g, s)
      BY Zenon
    <2> USE DEF Four, Turn
    <2>1. CASE s = {}
      BY <2>1
    <2>2. CASE 4 \in s
      <3>1. Max(s) = 4
        BY <1>1, <2>2
      <3>2. Four(s \ {4}) = Three(s)
        OBVIOUS
      <3>3. s # {} /\ s \ {4} \in SUBSET (1 .. n)
        BY <2>2
      <3>4. g[s \ {4}] = Four(s \ {4})
        BY <3>3
      <3> QED BY <2>2, <3>1, <3>2, <3>3, <3>4
    <2>3. CASE 3 \in s /\ 4 \notin s
      <3>1. Max(s) = 3
        BY <1>1, <2>3
      <3>2. Four(s \ {3}) = Two(s)
        BY <2>3
      <3>3. s # {} /\ s \ {3} \in SUBSET (1 .. n)
        BY <2>3
      <3>4. g[s \ {3}] = Four(s \ {3})
        BY <3>3
      <3> QED BY <2>3, <3>1, <3>2, <3>3, <3>4
    <2>4. CASE 2 \in s /\ 3 \notin s /\ 4 \notin s
      <3>1. Max(s) = 2
        BY <1>1, <2>4
      <3>2. Four(s \ {2}) = One(s)
        BY <2>4
      <3>3. s # {} /\ s \ {2} \in SUBSET (1 .. n)
        BY <2>4
      <3>4. g[s \ {2}] = Four(s \ {2})
        BY <3>3
      <3> QED BY <2>4, <3>1, <3>2, <3>3, <3>4
    <2>5. CASE s = {1}
      <3>1. Max(s) = 1
        BY <1>1, <2>5
      <3>2. g[{}] = Four({})
        OBVIOUS
      <3> QED BY <2>5, <3>1, <3>2
    <2>6. s \subseteq {1, 2, 3, 4}
      OBVIOUS
    <2>7. 4 \in s \/ 3 \in s \/ 2 \in s \/ s = {1} \/ s = {}
      BY <2>6
    <2> QED BY <2>1, <2>2, <2>3, <2>4, <2>5, <2>7, Zenon
  <1>3. iter = Folded(iter)
    BY <1>2, Zenon
  <1>4. sbuf_cat(args) = iter[1 .. n]
    BY Zenon DEF sbuf_cat, FoldLeft, MapThenFoldSet, Cat
  <1> HIDE DEF iter, g
  <1>5. \A s \in SUBSET (1 .. n) : iter[s] = Turn(iter, s)
    BY <1>3, Zenon
  <1>6. iter[{}] = <<>>
    BY <1>5
  <1>7. iter[{1}] = Cat(<<>>, args[1])
    <2>1. {1} \in SUBSET (1 .. n) /\ Max({1}) = 1 /\ {1} \ {1} = {}
      BY <1>1
    <2> QED BY <1>5, <1>6, <2>1
  <1>8. iter[{1, 2}] = Cat(iter[{1}], args[2])
    <2>1. {1, 2} \in SUBSET (1 .. n) /\ Max({1, 2}) = 2 /\ {1, 2} \ {2} = {1}
      BY <1>1
    <2> QED BY <1>5, <2>1
  <1>9. iter[{1, 2, 3}] = Cat(iter[{1, 2}], args[3])
    <2>1. {1, 2, 3} \in SUBSET (1 .. n) /\ Max({1, 2, 3}) = 3 /\ {1, 2, 3} \ {3} = {1, 2}
      BY <1>1
    <2> QED BY <1>5, <2>1
  <1>10. CASE n = 3
    <2>1. 1 .. n = {1, 2, 3}
      BY <1>10
    <2> QED BY <1>4, <1>7, <1>8, <1>9, <1>10, <2>1
  <1>11. CASE n = 4
    <2>1. 1 .. n = {1, 2, 3, 4} /\ {1, 2, 3, 4} \ {4} = {1, 2, 3}
      BY <1>11
    <2>2. Max({1, 2, 3, 4}) = 4
      BY <1>1, <2>1
    <2>3. iter[{1, 2, 3, 4}] = Cat(iter[{1, 2, 3}], args[4])
      BY <1>5, <2>1, <2>2
    <2> QED BY <1>4, <1>7, <1>8, <1>9, <1>11, <2>1, <2>3
  <1> QED BY <1>10, <1>11

\* The characters of a format.
Chars == {"%", "0", "h", "l", "L", "d", "u", "f", "x", "e", "G", Zero}

\* What of a format fits with a zero behind it.
Low(n) == IF n < SpecSize THEN n ELSE SpecSize - 1
Cut(w) == SubSeq(w, 1, Low(Len(w)))

\* The smaller of two numbers.
LEMMA MinIs ==
  ASSUME NEW a \in Int, NEW b \in Int
  PROVE  Min({a, b}) = IF a <= b THEN a ELSE b
  <1>1. \E x \in {a, b} : \A y \in {a, b} : x <= y
    OBVIOUS
  <1>2. Min({a, b}) \in {a, b} /\ \A y \in {a, b} : Min({a, b}) <= y
    BY <1>1 DEF Min
  <1> QED BY <1>2

\* It is a front of the format, and shorter than the buffer.
LEMMA CutIs ==
  ASSUME NEW w \in Seq(Chars)
  PROVE  /\ Low(Len(w)) \in 0 .. Len(w) /\ Low(Len(w)) < SpecSize
         /\ Cut(w) \in Seq(Chars) /\ Len(Cut(w)) = Low(Len(w))
         /\ \A i \in 1 .. Low(Len(w)) : Cut(w)[i] = w[i]
  <1>1. SpecSize \in Nat \ {0} /\ Len(w) \in Nat
    BY SupportAssumption
  <1>2. Low(Len(w)) \in 0 .. Len(w) /\ Low(Len(w)) < SpecSize
    BY <1>1 DEF Low
  <1> QED BY <1>2, FirstOf, Zenon DEF Cut

\* A step of sbuf_cat cuts what it appends to as if all had been there at once.
LEMMA CatCuts ==
  ASSUME NEW w \in Seq(Chars), NEW a, normalize(a) \in Seq(Chars)
  PROVE  Cat(Cut(w), a) = Cut(w \o normalize(a))
  <1> DEFINE b == normalize(a)
             n == Len(w)
             m == Len(b)
             c == Cut(w)
             k == Len(c)
             l == IF SpecSize - k - 1 <= m THEN SpecSize - k - 1 ELSE m
             t == SubSeq(b, 1, l)
             all == w \o b
  <1> HIDE DEF normalize
  <1>1. SpecSize \in Nat \ {0} /\ n \in Nat /\ m \in Nat
    BY SupportAssumption
  <1>2. /\ Low(n) \in 0 .. n /\ Low(n) < SpecSize /\ c \in Seq(Chars) /\ k = Low(n)
        /\ \A i \in 1 .. Low(n) : c[i] = w[i]
    BY CutIs, Zenon
  <1>3. k \in Nat /\ k <= n /\ k < SpecSize
    BY <1>1, <1>2
  <1>4. /\ all \in Seq(Chars) /\ Len(all) = n + m
        /\ \A i \in 1 .. n + m : all[i] = IF i <= n THEN w[i] ELSE b[i - n]
    BY ConcatProperties, Zenon
  <1> HIDE DEF c, b, n, m, all
  <1>5. SpecSize - k - 1 \in Int /\ m \in Int /\ l \in 0 .. m
    BY <1>1, <1>3
  <1>6. smem_cpy(SpecSize - k, a) = t
    <2>1. Min({SpecSize - k - 1, m}) = l
      BY <1>1, <1>5, MinIs, Zenon
    <2> HIDE DEF l
    <2> QED BY <2>1, Zenon DEF smem_cpy, b, m
  <1>7. t \in Seq(Chars) /\ Len(t) = l /\ \A i \in 1 .. l : t[i] = b[i]
    <2> HIDE DEF l
    <2> QED BY <1>5, FirstOf, Zenon DEF b, m
  <1> HIDE DEF l, t, k
  <1>8. /\ c \o t \in Seq(Chars) /\ Len(c \o t) = k + l
        /\ \A i \in 1 .. k + l : (c \o t)[i] = IF i <= k THEN c[i] ELSE t[i - k]
    BY <1>2, <1>7, ConcatProperties, Zenon DEF k
  <1>9. /\ Low(n + m) \in 0 .. n + m
        /\ Cut(all) \in Seq(Chars) /\ Len(Cut(all)) = Low(n + m)
        /\ \A i \in 1 .. Low(n + m) : Cut(all)[i] = all[i]
    BY <1>4, CutIs, Zenon
  <1>10. k + l = Low(n + m)
    BY <1>1, <1>2, <1>3 DEF Low, l
  <1>11. ASSUME NEW i \in 1 .. k + l PROVE (c \o t)[i] = Cut(all)[i]
    <2>1. l \in Nat /\ i \in 1 .. n + m /\ Cut(all)[i] = all[i]
      BY <1>1, <1>3, <1>5, <1>9, <1>10
    <2>2. CASE i <= k
      <3>1. i \in 1 .. Low(n) /\ i <= n
        BY <1>1, <1>2, <1>3, <2>1, <2>2
      <3> QED BY <1>2, <1>4, <1>8, <2>1, <2>2, <3>1, Zenon
    <2>3. CASE ~(i <= k)
      <3>1. k = n
        BY <1>1, <1>2, <1>3, <2>1, <2>3 DEF Low, l
      <3>2. i - k \in 1 .. l /\ ~(i <= n)
        BY <1>1, <1>3, <2>1, <2>3, <3>1
      <3> QED BY <1>4, <1>7, <1>8, <2>1, <2>3, <3>1, <3>2, Zenon
    <2> QED BY <2>2, <2>3
  <1>12. c \o t = Cut(all)
    BY <1>8, <1>9, <1>10, <1>11, SeqEqual, Zenon
  <1> QED BY <1>6, <1>12, Zenon DEF Cat, c, k, all, b

\* Nothing is cut of nothing.
LEMMA CutNothing == Cut(<<>>) = <<>>
  <1>1. <<>> \in Seq(Chars) /\ Len(<<>>) = 0
    OBVIOUS
  <1>2. Low(0) = 0
    BY SupportAssumption DEF Low
  <1>3. Cut(<<>>) \in Seq(Chars) /\ Len(Cut(<<>>)) = Low(Len(<<>>))
    BY <1>1, CutIs, Zenon
  <1>4. Cut(<<>>) \in Seq(Chars) /\ Len(Cut(<<>>)) = 0
    BY <1>1, <1>2, <1>3
  <1> QED BY <1>4, EmptySeq

\* Three arguments, cut once; and four.
LEMMA CatThree ==
  ASSUME NEW a, NEW b, NEW c, normalize(a) \in Seq(Chars), normalize(b) \in Seq(Chars), normalize(c) \in Seq(Chars)
  PROVE  sbuf_cat(<<a, b, c>>) = Cut((normalize(a) \o normalize(b)) \o normalize(c))
  <1> HIDE DEF normalize
  <1>1. sbuf_cat(<<a, b, c>>) = Cat(Cat(Cat(<<>>, a), b), c)
    <2> DEFINE args == <<a, b, c>>
    <2>1. DOMAIN args = 1 .. 3 /\ args[1] = a /\ args[2] = b /\ args[3] = c
      OBVIOUS
    <2> HIDE DEF args
    <2>2. sbuf_cat(args) = Cat(Cat(Cat(<<>>, args[1]), args[2]), args[3])
      BY <2>1, CatAll
    <2> QED BY <2>1, <2>2, Zenon DEF args
  <1>2. <<>> \in Seq(Chars) /\ <<>> \o normalize(a) = normalize(a)
    BY ConcatEmptySeq
  <1>3. Cat(<<>>, a) = Cut(normalize(a))
    BY <1>2, CutNothing, CatCuts, Zenon
  <1>4. normalize(a) \o normalize(b) \in Seq(Chars)
    BY ConcatProperties, Zenon
  <1>5. Cat(Cut(normalize(a)), b) = Cut(normalize(a) \o normalize(b))
    BY CatCuts, Zenon
  <1>6. Cat(Cut(normalize(a) \o normalize(b)), c) = Cut((normalize(a) \o normalize(b)) \o normalize(c))
    BY <1>4, CatCuts, Zenon
  <1> QED BY <1>1, <1>3, <1>5, <1>6, Zenon

\* As above.
LEMMA CatFour ==
  ASSUME NEW a, NEW b, NEW c, NEW d, normalize(a) \in Seq(Chars), normalize(b) \in Seq(Chars),
         normalize(c) \in Seq(Chars), normalize(d) \in Seq(Chars)
  PROVE  sbuf_cat(<<a, b, c, d>>) = Cut(((normalize(a) \o normalize(b)) \o normalize(c)) \o normalize(d))
  <1> HIDE DEF normalize
  <1>1. sbuf_cat(<<a, b, c, d>>) = Cat(sbuf_cat(<<a, b, c>>), d)
    <2> DEFINE args == <<a, b, c, d>>
               most == <<a, b, c>>
    <2>1. /\ DOMAIN args = 1 .. 4 /\ args[1] = a /\ args[2] = b /\ args[3] = c /\ args[4] = d
          /\ DOMAIN most = 1 .. 3 /\ most[1] = a /\ most[2] = b /\ most[3] = c
      OBVIOUS
    <2> HIDE DEF args, most
    <2>2. sbuf_cat(args) = Cat(Cat(Cat(Cat(<<>>, args[1]), args[2]), args[3]), args[4])
      BY <2>1, CatAll
    <2>3. sbuf_cat(most) = Cat(Cat(Cat(<<>>, most[1]), most[2]), most[3])
      BY <2>1, CatAll
    <2> QED BY <2>1, <2>2, <2>3, Zenon DEF args, most
  <1>2. (normalize(a) \o normalize(b)) \o normalize(c) \in Seq(Chars)
    BY ConcatProperties, Zenon
  <1>3. sbuf_cat(<<a, b, c>>) = Cut((normalize(a) \o normalize(b)) \o normalize(c))
    BY CatThree, Zenon
  <1>4. Cat(Cut((normalize(a) \o normalize(b)) \o normalize(c)), d)
          = Cut(((normalize(a) \o normalize(b)) \o normalize(c)) \o normalize(d))
    BY <1>2, CatCuts, Zenon
  <1> QED BY <1>1, <1>3, <1>4, Zenon

\* A literal is what is before its zero.
LEMMA LiteralIs ==
  ASSUME NEW x \in Seq(Chars)
  PROVE  normalize(Literal(x)) = x /\ Literal(x) # <<>> /\ Last(Literal(x)) = Zero
  <1> DEFINE l == Literal(x)
  <1>1. /\ Append(x, Zero) \in Seq(Chars) /\ Len(Append(x, Zero)) = Len(x) + 1 /\ Append(x, Zero)[Len(x) + 1] = Zero
        /\ \A i \in 1 .. Len(x) : Append(x, Zero)[i] = x[i]
    BY DEF Chars
  <1>2. l \in Seq(Chars) /\ Len(l) = Len(x) + 1 /\ l[Len(x) + 1] = Zero /\ \A i \in 1 .. Len(x) : l[i] = x[i]
    BY <1>1, Zenon DEF Literal
  <1> HIDE DEF l
  <1>3. l # <<>> /\ Last(l) = Zero /\ Len(l) - 1 = Len(x) /\ Len(x) \in 0 .. Len(l)
    BY <1>2 DEF Last
  <1>4. /\ SubSeq(l, 1, Len(x)) \in Seq(Chars) /\ Len(SubSeq(l, 1, Len(x))) = Len(x)
        /\ \A i \in 1 .. Len(x) : SubSeq(l, 1, Len(x))[i] = l[i]
    BY <1>2, <1>3, FirstOf, Zenon
  <1>5. SubSeq(l, 1, Len(x)) = x
    <2> DEFINE r == SubSeq(l, 1, Len(x))
    <2>1. r \in Seq(Chars) /\ Len(r) = Len(x) /\ \A i \in 1 .. Len(r) : r[i] = x[i]
      BY <1>2, <1>4, Zenon
    <2> HIDE DEF r
    <2>2. r = x
      BY <2>1, SeqEqual, Zenon
    <2> QED BY <2>2 DEF r
  <1>6. normalize(l) = x
    BY <1>3, <1>5, Zenon DEF normalize, Front
  <1> QED BY <1>3, <1>6 DEF l

\* What has no zero at its end stays as it is.
LEMMA NoZero ==
  ASSUME NEW x, x = <<>> \/ Last(x) # Zero
  PROVE  normalize(x) = x
  BY Zenon DEF normalize

\* The conversion a format is to have.
Asked(s) == IF s.conv = "none" THEN <<Own(s.type)>> ELSE Conv(s)

\* The parts of a spec.
LEMMA SpecParts ==
  ASSUME NEW s \in Specs
  PROVE  /\ s.flags \in Nat /\ s.type \in Types /\ s.conv \in {"none", "x", "u", "e", "G"} /\ s.given \in BOOLEAN
         /\ s.conv = "none" \/ s.conv \in Conversions(s.type)
         /\ s.given <=> s.flags > 0 \/ s.conv # "none"
         /\ Flags(s) \in Seq(Chars) /\ Len(Flags(s)) = s.flags /\ \A i \in 1 .. s.flags : Flags(s)[i] = "0"
         /\ Conv(s) \in Seq(Chars) /\ Conv(s) = IF s.conv = "none" THEN <<>> ELSE <<s.conv>>
         /\ Length(s.type) \in Seq(Chars)
         /\ Own(s.type) \in Chars \ {Zero}
  <1>1. MaxFlags \in Nat
    BY SupportAssumption
  <1>2. /\ s.flags \in 0 .. MaxFlags /\ s.type \in Types /\ s.conv \in {"none", "x", "u", "e", "G"} /\ s.given \in BOOLEAN
        /\ s.conv = "none" \/ s.conv \in Conversions(s.type)
        /\ s.given <=> s.flags > 0 \/ s.conv # "none"
    BY DEF Specs
  <1>3. s.flags \in Nat
    BY <1>1, <1>2
  <1>4. Flags(s) \in Seq(Chars) /\ Len(Flags(s)) = s.flags /\ \A i \in 1 .. s.flags : Flags(s)[i] = "0"
    BY <1>3 DEF Flags, Chars
  <1>5. Conv(s) \in Seq(Chars) /\ Conv(s) = IF s.conv = "none" THEN <<>> ELSE <<s.conv>>
    <2>1. <<>> \in Seq(Chars)
      OBVIOUS
    <2>2. s.conv # "none" => s.conv \in Chars
      BY <1>2 DEF Chars
    <2>3. s.conv # "none" => <<s.conv>> \in Seq(Chars)
      BY <2>2
    <2> QED BY <2>1, <2>3, Zenon DEF Conv
  <1>6. Length(s.type) \in Seq(Chars)
    <2>1. <<"h">> \in Seq(Chars) /\ <<"l">> \in Seq(Chars) /\ <<"l", "l">> \in Seq(Chars) /\ <<"L">> \in Seq(Chars) /\ <<>> \in Seq(Chars)
      BY DEF Chars
    <2> QED BY <2>1 DEF Length
  <1>7. Own(s.type) \in Chars \ {Zero}
    BY DEF Own, Zero, Chars
  <1> QED BY <1>2, <1>3, <1>4, <1>5, <1>6, <1>7, Zenon
\* What the caller asks for has no zero at its end; before a conversion are
\* the flags.
LEMMA SpecText ==
  ASSUME NEW s \in Specs, s.given
  PROVE  LET f == Flags(s) \o Conv(s)
         IN  /\ f \in Seq(Chars) /\ f # <<>> /\ normalize(f) = f
             /\ s.conv = "none" => f = Flags(s) /\ Last(f) = "0"
             /\ s.conv # "none" => Front(f) = Flags(s) /\ Last(f) = s.conv
  <1> DEFINE F == Flags(s)
             V == Conv(s)
             f == F \o V
             n == s.flags
  <1>1. /\ n \in Nat /\ s.conv \in {"none", "x", "u", "e", "G"} /\ (s.given <=> n > 0 \/ s.conv # "none")
        /\ F \in Seq(Chars) /\ Len(F) = n /\ \A i \in 1 .. n : F[i] = "0"
        /\ V \in Seq(Chars) /\ V = IF s.conv = "none" THEN <<>> ELSE <<s.conv>>
    BY SpecParts, Zenon
  <1> HIDE DEF F, V
  <1>2. /\ f \in Seq(Chars) /\ Len(f) = Len(F) + Len(V)
        /\ \A i \in 1 .. Len(F) + Len(V) : f[i] = IF i <= Len(F) THEN F[i] ELSE V[i - Len(F)]
    <2>1. F \in Seq(Chars) /\ V \in Seq(Chars)
      BY <1>1
    <2> QED BY <2>1, ConcatProperties, Zenon
  <1>3. CASE s.conv = "none"
    <2>1. f = F
      BY <1>1, <1>3, ConcatEmptySeq
    <2> HIDE DEF f
    <2>2. n > 0 /\ F # <<>> /\ Last(F) = "0"
      BY <1>1, <1>3 DEF Last
    <2>3. Last(f) # Zero
      BY <2>1, <2>2 DEF Zero
    <2> QED BY <1>2, <1>3, <2>1, <2>2, <2>3, NoZero, Zenon DEF F, V, f
  <1>4. CASE s.conv # "none"
    <2>1. Len(V) = 1 /\ V[1] = s.conv
      BY <1>1, <1>4
    <2> HIDE DEF f
    <2>2. Len(f) = n + 1 /\ f # <<>> /\ Last(f) = s.conv
      BY <1>1, <1>2, <2>1 DEF Last
    <2>3. Front(f) = F
      <3>1. n \in 0 .. Len(f) /\ Len(f) - 1 = n
        BY <1>1, <2>2
      <3> DEFINE g == SubSeq(f, 1, n)
      <3>2. g \in Seq(Chars) /\ Len(g) = n /\ \A i \in 1 .. n : g[i] = f[i]
        BY <1>2, <3>1, FirstOf, Zenon
      <3>3. Front(f) = g
        BY <3>1, Zenon DEF Front
      <3> HIDE DEF g
      <3>4. \A i \in 1 .. n : f[i] = F[i]
        BY <1>1, <1>2, <2>1
      <3>5. Len(g) = Len(F) /\ \A i \in 1 .. Len(g) : g[i] = F[i]
        BY <1>1, <3>2, <3>4, Zenon
      <3>6. g = F
        BY <1>1, <3>2, <3>5, SeqEqual, Zenon
      <3> QED BY <3>3, <3>6
    <2>4. Last(f) # Zero
      BY <1>1, <2>2 DEF Zero
    <2> QED BY <1>2, <1>4, <2>2, <2>3, <2>4, NoZero, Zenon DEF F, V, f
  <1> QED BY <1>3, <1>4

\* What snprintf is to be given.
Wanted(s) == ((<<"%">> \o Flags(s)) \o Length(s.type)) \o Asked(s)

\* fmt_by puts the parts in their order.
LEMMA FmtBy ==
  ASSUME NEW s \in Specs, s.given, NEW C,
         (s.conv # "none" /\ s.conv \in C) \/ (s.conv = "none" /\ "0" \notin C),
         NEW own, s.conv = "none" => own = Own(s.type),
         NEW fstr, fstr # <<>>, normalize(fstr) = Flags(s) \o Conv(s)
  PROVE  fmt_by(fstr, Literal(Length(s.type)), C, own) = Cut(Wanted(s))
  <1> DEFINE f == Flags(s) \o Conv(s)
             l == Literal(Length(s.type))
             h == Literal(<<"%">>)
  <1>1. /\ s.conv \in {"none", "x", "u", "e", "G"} /\ Flags(s) \in Seq(Chars)
        /\ Conv(s) = (IF s.conv = "none" THEN <<>> ELSE <<s.conv>>) /\ Length(s.type) \in Seq(Chars)
        /\ Own(s.type) \in Chars \ {Zero}
        /\ s.flags \in Nat /\ Len(Flags(s)) = s.flags /\ \A i \in 1 .. s.flags : Flags(s)[i] = "0"
    BY SpecParts, Zenon
  <1>2. /\ f \in Seq(Chars) /\ f # <<>> /\ normalize(f) = f
        /\ s.conv = "none" => f = Flags(s) /\ Last(f) = "0"
        /\ s.conv # "none" => Front(f) = Flags(s) /\ Last(f) = s.conv
    BY SpecText, Zenon
  <1>3. <<"%">> \in Seq(Chars)
    BY DEF Chars
  <1>4. normalize(h) = <<"%">> /\ normalize(l) = Length(s.type)
    BY <1>1, <1>3, LiteralIs, Zenon
  <1> HIDE DEF f, l, h
  <1>5. normalize(fstr) = f
    BY DEF f
  <1>6. CASE s.conv # "none" /\ s.conv \in C
    <2> DEFINE F == Front(f)
               c == <<Last(f)>>
    <2>1. F = Flags(s) /\ c = <<s.conv>>
      BY <1>2, <1>6, Zenon
    <2>2. fmt_by(fstr, l, C, own) = sbuf_cat(<<h, F, l, c>>)
      <3>1. Last(f) \in C
        BY <1>2, <1>6, Zenon
      <3> QED BY <1>5, <3>1, Zenon DEF fmt_by, h
    <2> HIDE DEF F, c
    <2>3. normalize(c) = c /\ c \in Seq(Chars)
      <3>1. s.conv \in Chars \ {Zero}
        BY <1>1, <1>6 DEF Chars, Zero
      <3>2. <<s.conv>> \in Seq(Chars) /\ Len(<<s.conv>>) = 1 /\ <<s.conv>>[1] = s.conv
        BY <3>1
      <3>3. Last(<<s.conv>>) # Zero
        BY <3>1, <3>2 DEF Last
      <3> QED BY <2>1, <3>2, <3>3, NoZero, Zenon
    <2>4. normalize(F) = F
      <3>1. Flags(s) = <<>> \/ Last(Flags(s)) = "0"
        <4> DEFINE n == s.flags
                   g == Flags(s)
        <4>1. n \in Nat /\ g \in Seq(Chars) /\ Len(g) = n /\ \A i \in 1 .. n : g[i] = "0"
          BY <1>1
        <4> HIDE DEF n, g
        <4>2. g = <<>> \/ Last(g) = "0"
          BY <4>1, EmptySeq DEF Last
        <4> QED BY <4>2 DEF g
      <3>2. Flags(s) = <<>> \/ Last(Flags(s)) # Zero
        BY <3>1 DEF Zero
      <3> QED BY <2>1, <3>2, NoZero, Zenon
    <2>5. sbuf_cat(<<h, F, l, c>>) = Cut(((normalize(h) \o normalize(F)) \o normalize(l)) \o normalize(c))
      <3>1. normalize(h) \in Seq(Chars) /\ normalize(F) \in Seq(Chars) /\ normalize(l) \in Seq(Chars) /\ normalize(c) \in Seq(Chars)
        BY <1>1, <1>3, <1>4, <2>1, <2>3, <2>4, Zenon
      <3> QED BY <3>1, CatFour, SMTT(30)
    <2>6. Asked(s) = c
      BY <1>1, <1>6, <2>1, Zenon DEF Asked
    <2>7. Wanted(s) = ((<<"%">> \o F) \o Length(s.type)) \o c
      BY <2>1, <2>6, Zenon DEF Wanted
    <2>8. fmt_by(fstr, l, C, own) = Cut(((<<"%">> \o F) \o Length(s.type)) \o c)
      BY <1>4, <2>2, <2>3, <2>4, <2>5, Zenon
    <2> QED BY <2>7, <2>8, Zenon DEF l
  <1>7. CASE s.conv = "none" /\ "0" \notin C
    <2> DEFINE c == Literal(<<own>>)
    <2>1. fmt_by(fstr, l, C, own) = sbuf_cat(<<h, f, l, c>>)
      <3>1. Last(f) \notin C
        BY <1>2, <1>7, Zenon
      <3> QED BY <1>5, <3>1, Zenon DEF fmt_by, h
    <2>2. <<own>> \in Seq(Chars) /\ normalize(c) = <<own>>
      <3>1. <<own>> \in Seq(Chars)
        BY <1>1, <1>7
      <3> QED BY <3>1, LiteralIs, Zenon
    <2> HIDE DEF c
    <2>3. sbuf_cat(<<h, f, l, c>>) = Cut(((normalize(h) \o normalize(f)) \o normalize(l)) \o normalize(c))
      <3>1. normalize(h) \in Seq(Chars) /\ normalize(f) \in Seq(Chars) /\ normalize(l) \in Seq(Chars) /\ normalize(c) \in Seq(Chars)
        BY <1>1, <1>2, <1>3, <1>4, <2>2, Zenon
      <3> QED BY <3>1, CatFour, SMTT(30)
    <2>4. Asked(s) = <<own>>
      BY <1>7, Zenon DEF Asked
    <2>5. Wanted(s) = ((<<"%">> \o Flags(s)) \o Length(s.type)) \o <<own>>
      BY <2>4, Zenon DEF Wanted
    <2>6. fmt_by(fstr, l, C, own) = Cut(((<<"%">> \o f) \o Length(s.type)) \o <<own>>)
      BY <1>2, <1>4, <2>1, <2>2, <2>3, Zenon
    <2>7. f = Flags(s)
      BY <1>2, <1>7
    <2> QED BY <2>5, <2>6, <2>7, Zenon DEF l
  <1> QED BY <1>6, <1>7

\* Without a spec the format is the type's own.
LEMMA FmtOwn ==
  ASSUME NEW s \in Specs, ~s.given, NEW C
  PROVE  fmt_by(<<>>, Literal(Length(s.type)), C, Own(s.type)) = Cut(Wanted(s))
  <1> DEFINE l == Literal(Length(s.type))
             h == Literal(<<"%">>)
             own == Own(s.type)
             c == Literal(<<own>>)
  <1>1. /\ s.conv = "none" /\ Flags(s) \in Seq(Chars) /\ Len(Flags(s)) = 0
        /\ Length(s.type) \in Seq(Chars) /\ own \in Chars \ {Zero}
    <2>1. /\ s.flags \in Nat /\ (s.given <=> s.flags > 0 \/ s.conv # "none") /\ Len(Flags(s)) = s.flags
          /\ Flags(s) \in Seq(Chars) /\ Length(s.type) \in Seq(Chars) /\ own \in Chars \ {Zero}
      BY SpecParts, Zenon
    <2> HIDE DEF own
    <2>2. s.flags = 0
      BY <2>1
    <2> QED BY <2>1, <2>2
  <1>2. Flags(s) = <<>>
    BY <1>1, EmptySeq
  <1> HIDE DEF own
  <1>3. <<"%">> \in Seq(Chars) /\ <<own>> \in Seq(Chars)
    BY <1>1 DEF Chars
  <1>4. /\ normalize(h) = <<"%">> /\ normalize(l) = Length(s.type) /\ normalize(c) = <<own>>
    BY <1>1, <1>3, LiteralIs, Zenon
  <1>5. fmt_by(<<>>, l, C, own) = sbuf_cat(<<h, l, c>>)
    BY Zenon DEF fmt_by, fmt_of
  <1> HIDE DEF l, h, c
  <1>6. sbuf_cat(<<h, l, c>>) = Cut((normalize(h) \o normalize(l)) \o normalize(c))
    <2>1. normalize(h) \in Seq(Chars) /\ normalize(l) \in Seq(Chars) /\ normalize(c) \in Seq(Chars)
      BY <1>1, <1>3, <1>4, Zenon
    <2> QED BY <2>1, CatThree, Zenon
  <1>7. <<"%">> \o Flags(s) = <<"%">>
    <2>1. <<"%">> \o <<>> = <<"%">>
      BY <1>3, ConcatEmptySeq, Zenon
    <2> QED BY <1>2, <2>1, Zenon
  <1>8. Asked(s) = <<own>>
    BY <1>1, Zenon DEF Asked, own
  <1>9. Wanted(s) = (<<"%">> \o Length(s.type)) \o <<own>>
    BY <1>7, <1>8, Zenon DEF Wanted
  <1>10. fmt_by(<<>>, l, C, own) = Cut((<<"%">> \o Length(s.type)) \o <<own>>)
    BY <1>4, <1>5, <1>6, Zenon
  <1> QED BY <1>9, <1>10, Zenon DEF l, own

\* to_string gives snprintf what the caller asks for, whatever the type.
LEMMA FormatsRight ==
  ASSUME spec \in Specs
  PROVE  FormatRight
  <1> DEFINE f == Flags(spec) \o Conv(spec)
             fstr == IF spec.given THEN Literal(f) ELSE <<>>
             l == Literal(Length(spec.type))
             got == to_string(spec.type, fstr)
             want == Wanted(spec)
  <1>1. /\ spec.type \in Types /\ spec.conv \in {"none", "x", "u", "e", "G"} /\ spec.given \in BOOLEAN
        /\ spec.conv = "none" \/ spec.conv \in Conversions(spec.type)
        /\ spec.given <=> spec.flags > 0 \/ spec.conv # "none"
        /\ Flags(spec) \in Seq(Chars) /\ Length(spec.type) \in Seq(Chars) /\ Own(spec.type) \in Chars \ {Zero}
        /\ Conv(spec) \in Seq(Chars)
    BY SpecParts, Zenon
  <1>2. spec.given =>
          /\ f \in Seq(Chars) /\ f # <<>> /\ normalize(f) = f
          /\ spec.conv = "none" => f = Flags(spec) /\ Last(f) = "0"
          /\ spec.conv # "none" => Front(f) = Flags(spec) /\ Last(f) = spec.conv
    BY SpecText, Zenon
  <1>3. spec.given => normalize(Literal(f)) = f /\ Literal(f) # <<>> /\ Last(Literal(f)) = Zero
    BY <1>2, LiteralIs, Zenon
  <1> HIDE DEF f
  <1>t. \/ spec.type[2] = "signed" \/ spec.type[2] = "unsigned" \/ spec.type[2] = "float"
    BY <1>1 DEF Types
  <1>4. got = Cut(want)
    <2>1. CASE ~spec.given
      <3>1. fstr = <<>>
        BY <2>1
      <3>2. \A C : fmt_by(<<>>, l, C, Own(spec.type)) = Cut(want)
        BY <2>1, FmtOwn, Zenon
      <3> HIDE DEF fstr, l, want
      <3>3. CASE spec.type[2] = "signed"
        <4>1. Own(spec.type) = "d"
          BY <3>3 DEF Own
        <4>2. got = fmt_by(<<>>, l, {}, "d")
          BY <3>1, <3>3 DEF to_string, fmt_of_signed, l
        <4> QED BY <3>2, <4>1, <4>2
      <3>4. CASE spec.type[2] = "unsigned"
        <4>1. Own(spec.type) = "u"
          BY <3>4 DEF Own
        <4>2. got = fmt_by(<<>>, l, {"o", "x", "X", "u"}, "u")
          BY <3>1, <3>4 DEF to_string, fmt_of_unsigned, l
        <4> QED BY <3>2, <4>1, <4>2
      <3>5. CASE spec.type[2] = "float"
        <4>1. Own(spec.type) = "f"
          BY <3>5 DEF Own
        <4>2. got = fmt_by(<<>>, l, {"e", "E", "g", "G"}, "f")
          BY <3>1, <3>5 DEF to_string, fmt_of_float, l
        <4> QED BY <3>2, <4>1, <4>2
      <3> QED BY <1>t, <3>3, <3>4, <3>5
    <2>2. CASE spec.given
      <3>1. fstr = Literal(f) /\ fstr # <<>> /\ normalize(fstr) = f
        BY <1>3, <2>2, Zenon
      <3>2. ASSUME NEW g, g # <<>>, normalize(g) = f, NEW C,
                   (spec.conv # "none" /\ spec.conv \in C) \/ (spec.conv = "none" /\ "0" \notin C),
                   NEW own, spec.conv = "none" => own = Own(spec.type)
            PROVE  fmt_by(g, l, C, own) = Cut(want)
        <4>1. normalize(g) = Flags(spec) \o Conv(spec)
          BY <3>2 DEF f
        <4> HIDE DEF fstr, l, want
        <4> QED BY <2>2, <3>2, <4>1, FmtBy, ZenonT(60) DEF l, want
      <3> HIDE DEF fstr, l, want
      <3>3. CASE spec.type[2] = "signed" /\ spec.conv = "none"
        <4>1. Own(spec.type) = "d"
          BY <3>3 DEF Own
        <4>2. Last(f) = "0" /\ Last(f) \notin {"o", "x", "X", "u"}
          BY <1>2, <2>2, <3>3
        <4>3. got = fmt_by(fstr, l, {}, "d")
          BY <3>1, <3>3, <4>2 DEF to_string, fmt_of_signed, l
        <4>4. fmt_by(fstr, l, {}, Own(spec.type)) = Cut(want)
          BY <3>1, <3>2, <3>3
        <4> QED BY <4>1, <4>3, <4>4
      <3>4. CASE spec.type[2] = "signed" /\ spec.conv # "none"
        <4>0. spec.conv \in {"o", "x", "X", "u"}
          BY <1>1, <3>4 DEF Conversions
        <4>1. Last(f) \in {"o", "x", "X", "u"} /\ f # <<>> /\ normalize(f) = f
          BY <1>2, <2>2, <3>4, <4>0
        <4>2. got = fmt_by(f, l, {"o", "x", "X", "u"}, "u")
          BY <3>1, <3>4, <4>1 DEF to_string, fmt_of_signed, fmt_of_unsigned, l
        <4>3. fmt_by(f, l, {"o", "x", "X", "u"}, "u") = Cut(want)
          BY <3>2, <3>4, <4>0, <4>1
        <4> QED BY <4>2, <4>3
      <3>5. CASE spec.type[2] = "unsigned"
        <4>1. Own(spec.type) = "u"
          BY <3>5 DEF Own
        <4>2. (spec.conv # "none" /\ spec.conv \in {"o", "x", "X", "u"}) \/ (spec.conv = "none" /\ "0" \notin {"o", "x", "X", "u"})
          BY <1>1, <3>5 DEF Conversions
        <4>3. got = fmt_by(fstr, l, {"o", "x", "X", "u"}, "u")
          BY <3>5 DEF to_string, fmt_of_unsigned, l
        <4>4. fmt_by(fstr, l, {"o", "x", "X", "u"}, Own(spec.type)) = Cut(want)
          BY <3>1, <3>2, <4>2
        <4> QED BY <4>1, <4>3, <4>4
      <3>6. CASE spec.type[2] = "float"
        <4>1. Own(spec.type) = "f"
          BY <3>6 DEF Own
        <4>2. (spec.conv # "none" /\ spec.conv \in {"e", "E", "g", "G"}) \/ (spec.conv = "none" /\ "0" \notin {"e", "E", "g", "G"})
          BY <1>1, <3>6 DEF Conversions
        <4>3. got = fmt_by(fstr, l, {"e", "E", "g", "G"}, "f")
          BY <3>6 DEF to_string, fmt_of_float, l
        <4>4. fmt_by(fstr, l, {"e", "E", "g", "G"}, Own(spec.type)) = Cut(want)
          BY <3>1, <3>2, <4>2
        <4> QED BY <4>1, <4>3, <4>4
      <3> QED BY <1>t, <3>3, <3>4, <3>5, <3>6
    <2> QED BY <1>1, <2>1, <2>2
  <1>5. want \in Seq(Chars)
    <2>1. <<"%">> \in Seq(Chars)
      BY DEF Chars
    <2>2. Asked(spec) \in Seq(Chars)
      <3>1. <<Own(spec.type)>> \in Seq(Chars)
        BY <1>1
      <3> QED BY <1>1, <3>1, Zenon DEF Asked
    <2>3. <<"%">> \o Flags(spec) \in Seq(Chars)
      BY <1>1, <2>1, ConcatProperties, Zenon
    <2>4. (<<"%">> \o Flags(spec)) \o Length(spec.type) \in Seq(Chars)
      BY <1>1, <2>3, ConcatProperties, Zenon
    <2> QED BY <2>2, <2>4, ConcatProperties, Zenon DEF Wanted
  <1>6. as_cstr(fstr) = normalize(fstr)
    BY <1>1, <1>3, Zenon DEF as_cstr
  <1>7. /\ Len(got) < SpecSize
        /\ IF Len(want) < SpecSize THEN got = want ELSE got = SubSeq(want, 1, SpecSize - 1)
    <2> HIDE DEF got, want
    <2>1. Low(Len(want)) < SpecSize /\ Len(Cut(want)) = Low(Len(want))
      BY <1>5, CutIs, Zenon
    <2>2. SubSeq(want, 1, Len(want)) = want
      BY <1>5, SubSeqFull, Zenon
    <2> QED BY <1>4, <2>1, <2>2, Zenon DEF Cut, Low
  <1>8. want = ((<<"%">> \o Flags(spec)) \o Length(spec.type)) \o
                 (IF spec.conv = "none" THEN <<Own(spec.type)>> ELSE Conv(spec))
    BY Zenon DEF Wanted, Asked
  <1> HIDE DEF got, want, fstr
  <1> QED BY <1>6, <1>7, <1>8, Zenon DEF FormatRight, got, fstr, f

-----------------------------------------------------------------------------
(* Characters in UTF-8 and UTF-16. *)

\* c without its last k - 1 groups of six bits, as the next group and the rest.
LEMMA SixBits ==
  ASSUME NEW c \in Nat
  PROVE  /\ \A k \in 1 .. 6 : c \div Shift[k] \in Nat /\ (c \div Shift[k]) % 64 \in 0 .. 63
         /\ \A k \in 1 .. 5 : c \div Shift[k] = (c \div Shift[k + 1]) * 64 + ((c \div Shift[k]) % 64)
         /\ c \div Shift[1] = c
  <1>1. /\ c \div 1 \in Nat /\ (c \div 1) % 64 \in 0 .. 63 /\ c \div 1 = (c \div 64) * 64 + ((c \div 1) % 64) /\ c \div 1 = c
    BY SMT
  <1>2. /\ c \div 64 \in Nat /\ (c \div 64) % 64 \in 0 .. 63 /\ c \div 64 = (c \div 4096) * 64 + ((c \div 64) % 64)
    BY SMT
  <1>3. /\ c \div 4096 \in Nat /\ (c \div 4096) % 64 \in 0 .. 63 /\ c \div 4096 = (c \div 262144) * 64 + ((c \div 4096) % 64)
    BY SMT
  <1>4. /\ c \div 262144 \in Nat /\ (c \div 262144) % 64 \in 0 .. 63
        /\ c \div 262144 = (c \div 16777216) * 64 + ((c \div 262144) % 64)
    BY SMT
  <1>5. /\ c \div 16777216 \in Nat /\ (c \div 16777216) % 64 \in 0 .. 63
        /\ c \div 16777216 = (c \div 1073741824) * 64 + ((c \div 16777216) % 64)
    BY SMT
  <1>6. /\ c \div 1073741824 \in Nat /\ (c \div 1073741824) % 64 \in 0 .. 63
    BY SMT
  <1>7. Shift[1] = 1 /\ Shift[2] = 64 /\ Shift[3] = 4096 /\ Shift[4] = 262144 /\ Shift[5] = 16777216 /\ Shift[6] = 1073741824
    BY SMT DEF Shift
  <1> QED BY <1>1, <1>2, <1>3, <1>4, <1>5, <1>6, <1>7, SMT

\* How long the UTF-8 form of c is, and the first byte's bits and marks.
Size8(c) == IF c < 128 THEN 1 ELSE IF c < 2048 THEN 2 ELSE IF c < 65536 THEN 3
            ELSE IF c < 2097152 THEN 4 ELSE IF c < 67108864 THEN 5 ELSE 6
Pre == <<0, 192, 224, 240, 248, 252>>
Mask == <<128, 32, 16, 8, 4, 2>>

\* c has a UTF-8 form.
Fits8(c) == c > 0 /\ c <= 2147483647

\* The UTF-8 form of c, byte by byte.
LEMMA Form8 ==
  ASSUME NEW c \in Nat, Fits8(c)
  PROVE  /\ Size8(c) \in 1 .. 6
         /\ utf8_of(c) = [i \in 1 .. Size8(c) |-> IF i = 1 THEN (c \div Shift[Size8(c)]) + Pre[Size8(c)]
                                                  ELSE ((c \div Shift[Size8(c) + 1 - i]) % 64) + 128]
  <1> DEFINE up  == <<128, 2048, 65536, 2097152, 67108864>>
             len == IF c >= up[5] THEN 6 ELSE CHOOSE i \in 1 .. 5 : c < up[i] /\ (i = 1 \/ c >= up[i - 1])
  <1>1. Size8(c) \in 1 .. 6
    BY SMT DEF Size8, Fits8
  <1>2. len = Size8(c)
    <2>0. up[1] = 128 /\ up[2] = 2048 /\ up[3] = 65536 /\ up[4] = 2097152 /\ up[5] = 67108864
      BY SMT
    <2> HIDE DEF up
    <2>1. CASE c >= 67108864
      BY <2>0, <2>1, SMT DEF Size8
    <2>2. CASE c < 67108864
      <3> DEFINE P(i) == c < up[i] /\ (i = 1 \/ c >= up[i - 1])
      <3>1. Size8(c) \in 1 .. 5 /\ P(Size8(c))
        BY <2>0, <2>2, SMT DEF Size8
      <3>2. ASSUME NEW i \in 1 .. 5, P(i) PROVE i = Size8(c)
        BY <2>0, <2>2, <3>2, SMT DEF Size8
      <3>3. len = CHOOSE i \in 1 .. 5 : P(i)
        BY <2>0, <2>2, SMT
      <3> HIDE DEF P
      <3> QED BY <3>1, <3>2, <3>3, SMT
    <2> QED BY <2>1, <2>2, SMT
  <1> HIDE DEF len
  <1>3. utf8_of(c) = [i \in 1 .. len |-> IF i = 1 THEN (c \div Shift[len]) + Pre[len]
                                         ELSE ((c \div Shift[len + 1 - i]) % 64) + 128]
    <2>1. ~(c = 0 \/ c > 2147483647)
      BY SMT DEF Fits8
    <2> HIDE DEF Shift
    <2> QED BY <2>1, SMT DEF utf8_of, len, Pre
  <1> QED BY <1>1, <1>2, <1>3, SMT

\* A function on 1 .. n is a sequence.
LEMMA FcnIsSeq ==
  ASSUME NEW S, NEW n \in Nat, NEW u \in [1 .. n -> S]
  PROVE  u \in Seq(S) /\ Len(u) = n
  OBVIOUS

\* The bytes of c: the first one tells how many there are.
LEMMA Bytes8 ==
  ASSUME NEW c \in Nat, Fits8(c)
  PROVE  LET n == Size8(c)
             u == utf8_of(c)
             q == c \div Shift[n]
         IN  /\ n \in 1 .. 6 /\ u \in Seq(Nat \ {0}) /\ Len(u) = n
             /\ q \in Nat /\ q < Mask[n] /\ u[1] = q + Pre[n]
             /\ \A j \in 2 .. n : u[j] = ((c \div Shift[n + 1 - j]) % 64) + 128 /\ u[j] \in 128 .. 191
  <1> DEFINE n == Size8(c)
             u == utf8_of(c)
             q == c \div Shift[n]
  <1>1. n \in 1 .. 6 /\ u = [i \in 1 .. n |-> IF i = 1 THEN q + Pre[n] ELSE ((c \div Shift[n + 1 - i]) % 64) + 128]
    BY Form8, SMT
  <1>2. /\ \A k \in 1 .. 6 : c \div Shift[k] \in Nat /\ (c \div Shift[k]) % 64 \in 0 .. 63
    BY SixBits, SMT
  <1>3. q \in Nat /\ q < Mask[n] /\ q + Pre[n] > 0
    <2>1. Shift[1] = 1 /\ Shift[2] = 64 /\ Shift[3] = 4096 /\ Shift[4] = 262144 /\ Shift[5] = 16777216 /\ Shift[6] = 1073741824
      BY SMT DEF Shift
    <2>2. Mask[1] = 128 /\ Mask[2] = 32 /\ Mask[3] = 16 /\ Mask[4] = 8 /\ Mask[5] = 4 /\ Mask[6] = 2
      BY SMT DEF Mask
    <2>3. Pre[1] = 0 /\ Pre[2] = 192 /\ Pre[3] = 224 /\ Pre[4] = 240 /\ Pre[5] = 248 /\ Pre[6] = 252
      BY SMT DEF Pre
    <2>4. CASE c < 128
      BY <2>1, <2>2, <2>3, <2>4, SMT DEF Size8, Fits8
    <2>5. CASE c >= 128 /\ c < 2048
      BY <2>1, <2>2, <2>3, <2>5, SMT DEF Size8, Fits8
    <2>6. CASE c >= 2048 /\ c < 65536
      BY <2>1, <2>2, <2>3, <2>6, SMT DEF Size8, Fits8
    <2>7. CASE c >= 65536 /\ c < 2097152
      BY <2>1, <2>2, <2>3, <2>7, SMT DEF Size8, Fits8
    <2>8. CASE c >= 2097152 /\ c < 67108864
      BY <2>1, <2>2, <2>3, <2>8, SMT DEF Size8, Fits8
    <2>9. CASE c >= 67108864
      BY <2>1, <2>2, <2>3, <2>9, SMT DEF Size8, Fits8
    <2> QED BY <2>4, <2>5, <2>6, <2>7, <2>8, <2>9, SMT
  <1>4. Pre[n] \in Nat
    BY <1>1, SMT DEF Pre
  <1> HIDE DEF n, u
  <1>5. ASSUME NEW j \in 2 .. n PROVE ((c \div Shift[n + 1 - j]) % 64) + 128 \in 128 .. 191
    <2>1. n + 1 - j \in 1 .. 6
      BY <1>1, SMT
    <2> QED BY <1>2, <2>1, SMT
  <1>6. \A j \in 1 .. n : j = 1 \/ j \in 2 .. n
    BY <1>1, SMT
  <1> HIDE DEF q
  <1>7. u \in Seq(Nat \ {0}) /\ Len(u) = n
    <2> DEFINE Byte(i) == IF i = 1 THEN q + Pre[n] ELSE ((c \div Shift[n + 1 - i]) % 64) + 128
    <2>1. ASSUME NEW i \in 1 .. n PROVE Byte(i) \in Nat \ {0}
      <3>1. CASE i = 1
        BY <1>3, <1>4, <3>1, SMT
      <3>2. CASE i # 1
        BY <1>5, <1>6, <3>2, SMT
      <3> QED BY <3>1, <3>2, SMT
    <2>2. u = [i \in 1 .. n |-> Byte(i)]
      BY <1>1, SMT
    <2> HIDE DEF Byte
    <2>3. u \in [1 .. n -> Nat \ {0}]
      BY <2>1, <2>2, SMT
    <2> QED BY <1>1, <2>3, FcnIsSeq, SMT
  <1>8. u[1] = q + Pre[n] /\ \A j \in 2 .. n : u[j] = ((c \div Shift[n + 1 - j]) % 64) + 128
    BY <1>1, SMT
  <1> QED BY <1>1, <1>3, <1>5, <1>7, <1>8, SMTT(40) DEF n, u, q

\* The bits of a character as utf32_of8 collects them.
Bits(s, i, m) == CHOOSE g : g = [j \in 1 .. 6 |-> IF j = 1 THEN s[i] % m ELSE g[j - 1] * 64 + (s[i + j - 1] % 64)]

\* They are what the definition says.
LEMMA BitsOf ==
  ASSUME NEW s, NEW i, NEW m
  PROVE  /\ Bits(s, i, m)[1] = s[i] % m
         /\ \A j \in 2 .. 6 : Bits(s, i, m)[j] = Bits(s, i, m)[j - 1] * 64 + (s[i + j - 1] % 64)
  <1> DEFINE Add(x, j) == x * 64 + (s[i + j - 1] % 64)
             Turn(g, j) == IF j = 1 THEN s[i] % m ELSE g[j - 1] * 64 + (s[i + j - 1] % 64)
             Whole(g) == [j \in 1 .. 6 |-> Turn(g, j)]
             f == CHOOSE g : g = Whole(g)
             one == s[i] % m
             two == Add(one, 2)
             three == Add(two, 3)
             four == Add(three, 4)
             five == Add(four, 5)
             six == Add(five, 6)
             w == [j \in 1 .. 6 |-> IF j = 1 THEN one ELSE IF j = 2 THEN two ELSE IF j = 3 THEN three
                                    ELSE IF j = 4 THEN four ELSE IF j = 5 THEN five ELSE six]
  <1>1. \A j \in 1 .. 6 : w[j] = Turn(w, j)
    <2> HIDE DEF one
    <2>1. two = Add(one, 2) /\ three = Add(two, 3) /\ four = Add(three, 4) /\ five = Add(four, 5) /\ six = Add(five, 6)
      OBVIOUS
    <2> HIDE DEF two, three, four, five, six
    <2>2. w[1] = one /\ w[2] = two /\ w[3] = three /\ w[4] = four /\ w[5] = five /\ w[6] = six
      OBVIOUS
    <2> HIDE DEF w
    <2>3. \A j \in 1 .. 6 : j = 1 \/ j = 2 \/ j = 3 \/ j = 4 \/ j = 5 \/ j = 6
      OBVIOUS
    <2>4. w[1] = Turn(w, 1)
      BY <2>2 DEF one
    <2>5. w[2] = Turn(w, 2) /\ w[3] = Turn(w, 3) /\ w[4] = Turn(w, 4) /\ w[5] = Turn(w, 5) /\ w[6] = Turn(w, 6)
      BY <2>1, <2>2
    <2> HIDE DEF Turn
    <2> QED BY <2>3, <2>4, <2>5
  <1>2. w = Whole(w)
    <2>1. w = [j \in 1 .. 6 |-> w[j]]
      OBVIOUS
    <2> HIDE DEF w, Turn
    <2> QED BY <1>1, <2>1, Zenon
  <1>3. f = Whole(f)
    <2> HIDE DEF w, Whole
    <2> QED BY <1>2, Zenon
  <1>4. \A j \in 1 .. 6 : f[j] = Turn(f, j)
    <2> HIDE DEF f, Turn
    <2> QED BY <1>3, Zenon
  <1>5. f[1] = Turn(f, 1) /\ \A j \in 2 .. 6 : f[j] = Turn(f, j) /\ j # 1
    <2> HIDE DEF f, Turn
    <2> QED BY <1>4
  <1>6. f[1] = s[i] % m /\ \A j \in 2 .. 6 : f[j] = f[j - 1] * 64 + (s[i + j - 1] % 64)
    <2> HIDE DEF f
    <2> QED BY <1>5, Zenon
  <1> QED BY <1>6, Zenon DEF Bits

\* The length the first byte announces.
Announced(b) == IF b < 224 THEN 2 ELSE IF b < 240 THEN 3 ELSE IF b < 248 THEN 4 ELSE IF b < 252 THEN 5 ELSE 6

\* utf32_of8, with the bits collected apart.
LEMMA Reads8 ==
  ASSUME NEW s, NEW i
  PROVE  utf32_of8(s, i) =
           IF s[i] = 0 THEN Bad
           ELSE IF s[i] < 128 THEN [len |-> 1, c |-> s[i]]
           ELSE IF s[i] < 192 \/ s[i] > 253 \/ i + Announced(s[i]) - 1 > Len(s) THEN Bad
           ELSE IF \E j \in 1 .. Announced(s[i]) - 1 : s[i + j] \notin 128 .. 191 THEN Bad
           ELSE [len |-> Announced(s[i]), c |-> Bits(s, i, Mask[Announced(s[i])])[Announced(s[i])]]
  BY Zenon DEF utf32_of8, Announced, Bits, Mask

\* A character's bytes, wherever they are, are read as the character.
LEMMA Back8 ==
  ASSUME NEW c \in Nat, Fits8(c), NEW e \in Seq(Nat \ {0}), NEW p \in Nat \ {0},
         p + Len(utf8_of(c)) - 1 <= Len(e),
         \A j \in 1 .. Len(utf8_of(c)) : e[p + j - 1] = utf8_of(c)[j]
  PROVE  utf32_of8(e, p) = [len |-> Len(utf8_of(c)), c |-> c]
  <1> DEFINE n == Size8(c)
             u == utf8_of(c)
             q == c \div Shift[n]
             b == e[p]
             m == Mask[n]
             bits == Bits(e, p, m)
  <1>1. /\ n \in 1 .. 6 /\ u \in Seq(Nat \ {0}) /\ Len(u) = n
        /\ q \in Nat /\ q < m /\ u[1] = q + Pre[n]
        /\ \A j \in 2 .. n : u[j] = ((c \div Shift[n + 1 - j]) % 64) + 128 /\ u[j] \in 128 .. 191
    BY Bytes8, Zenon
  <1>2. /\ \A k \in 1 .. 6 : c \div Shift[k] \in Nat /\ (c \div Shift[k]) % 64 \in 0 .. 63
        /\ \A k \in 1 .. 5 : c \div Shift[k] = (c \div Shift[k + 1]) * 64 + ((c \div Shift[k]) % 64)
        /\ c \div Shift[1] = c
    BY SixBits, Zenon
  <1>3. Mask[1] = 128 /\ Mask[2] = 32 /\ Mask[3] = 16 /\ Mask[4] = 8 /\ Mask[5] = 4 /\ Mask[6] = 2
    BY SMT DEF Mask
  <1>4. Pre[1] = 0 /\ Pre[2] = 192 /\ Pre[3] = 224 /\ Pre[4] = 240 /\ Pre[5] = 248 /\ Pre[6] = 252
    BY SMT DEF Pre
  <1> HIDE DEF n, u
  <1>n. n \in 1 .. 6 /\ q \in Nat /\ q < m /\ (n = 1 => q = c)
    BY <1>1, <1>2, Zenon
  <1>p. Pre[n] \in Nat
    BY <1>4, <1>n, SMTT(40)
  <1> HIDE DEF q, m
  <1>m. (n = 1 => m = 128) /\ (n = 2 => m = 32) /\ (n = 3 => m = 16) /\ (n = 4 => m = 8) /\ (n = 5 => m = 4) /\ (n = 6 => m = 2)
    BY <1>3, Zenon DEF m
  <1>5. p + n - 1 <= Len(e) /\ \A j \in 1 .. n : e[p + j - 1] = u[j]
    BY <1>1, Zenon DEF u
  <1>6. b = q + Pre[n]
    BY <1>1, <1>5, SMT
  <1>7. CASE n = 1
    <2>1. b = c /\ b < 128 /\ b # 0
      BY <1>4, <1>6, <1>7, <1>n, <1>m, SMT DEF Fits8
    <2> HIDE DEF b
    <2>2. utf32_of8(e, p) = [len |-> 1, c |-> b]
      BY <2>1, Reads8, Zenon DEF b
    <2> QED BY <1>1, <1>7, <2>1, <2>2, Zenon DEF u
  <1>8. CASE n # 1
    <2>0. n = 2 \/ n = 3 \/ n = 4 \/ n = 5 \/ n = 6
      BY <1>8, <1>n, SMT
    <2>1. Announced(b) = n /\ ~(b = 0) /\ ~(b < 128) /\ ~(b < 192) /\ ~(b > 253) /\ b % m = q
      <3> HIDE DEF b
      <3>1. CASE n = 2
        <4>1. b = q + 192 /\ q \in Nat /\ q < 32 /\ m = 32
          BY <1>4, <1>6, <1>n, <1>m, <3>1, SMT
        <4> QED BY <3>1, <4>1, SMT DEF Announced
      <3>2. CASE n = 3
        <4>1. b = q + 224 /\ q \in Nat /\ q < 16 /\ m = 16
          BY <1>4, <1>6, <1>n, <1>m, <3>2, SMT
        <4> QED BY <3>2, <4>1, SMT DEF Announced
      <3>3. CASE n = 4
        <4>1. b = q + 240 /\ q \in Nat /\ q < 8 /\ m = 8
          BY <1>4, <1>6, <1>n, <1>m, <3>3, SMT
        <4> QED BY <3>3, <4>1, SMT DEF Announced
      <3>4. CASE n = 5
        <4>1. b = q + 248 /\ q \in Nat /\ q < 4 /\ m = 4
          BY <1>4, <1>6, <1>n, <1>m, <3>4, SMT
        <4> QED BY <3>4, <4>1, SMT DEF Announced
      <3>5. CASE n = 6
        <4>1. b = q + 252 /\ q \in Nat /\ q < 2 /\ m = 2
          BY <1>4, <1>6, <1>n, <1>m, <3>5, SMT
        <4> QED BY <3>5, <4>1, SMT DEF Announced
      <3> QED BY <2>0, <3>1, <3>2, <3>3, <3>4, <3>5
    <2>2. b % m = q
      BY <2>1
    <2>3. ~(p + n - 1 > Len(e))
      BY <1>1, <1>5, SMT
    <2>4. ASSUME NEW j \in 1 .. n - 1 PROVE e[p + j] \in 128 .. 191
      <3>1. j + 1 \in 2 .. n /\ j + 1 \in 1 .. n /\ p + j = p + (j + 1) - 1
        BY <1>1, SMT
      <3>2. e[p + (j + 1) - 1] = u[j + 1] /\ u[j + 1] \in 128 .. 191
        BY <1>1, <1>5, <3>1, Zenon
      <3> QED BY <3>1, <3>2, SMT
    <2> HIDE DEF b
    <2>5. utf32_of8(e, p) = [len |-> n, c |-> bits[n]]
      BY <2>1, <2>3, <2>4, Reads8, Zenon DEF b, m
    <2>6. bits[1] = b % m /\ \A j \in 2 .. 6 : bits[j] = bits[j - 1] * 64 + (e[p + j - 1] % 64)
      <3>0. \A M : /\ Bits(e, p, M)[1] = e[p] % M
                   /\ \A j \in 2 .. 6 : Bits(e, p, M)[j] = Bits(e, p, M)[j - 1] * 64 + (e[p + j - 1] % 64)
        BY BitsOf
      <3>1. bits[1] = e[p] % m /\ \A j \in 2 .. 6 : bits[j] = bits[j - 1] * 64 + (e[p + j - 1] % 64)
        BY <3>0
      <3> QED BY <3>1, Zenon DEF b
    <2> HIDE DEF bits
    <2>7. \A j \in 2 .. n : bits[j] = bits[j - 1] * 64 + (u[j] % 64)
      <3> SUFFICES ASSUME NEW j \in 2 .. n PROVE bits[j] = bits[j - 1] * 64 + (u[j] % 64)
        OBVIOUS
      <3>1. j \in 1 .. n /\ j \in 2 .. 6
        BY <1>n, SMT
      <3> QED BY <1>5, <2>6, <3>1, Zenon
    <2>8. ASSUME NEW j \in 2 .. n, bits[j - 1] = c \div Shift[n + 1 - (j - 1)]
          PROVE  bits[j] = c \div Shift[n + 1 - j]
      <3> DEFINE k == n + 1 - j
                 d == (c \div Shift[k]) % 64
      <3>1. k \in 1 .. 5 /\ k \in 1 .. 6 /\ n + 1 - (j - 1) = k + 1
        BY <1>n, SMT
      <3>2. u[j] = d + 128 /\ d \in 0 .. 63
        BY <1>1, <1>2, <3>1, Zenon
      <3>3. c \div Shift[k] = (c \div Shift[k + 1]) * 64 + d
        BY <1>2, <3>1, Zenon
      <3> HIDE DEF k, d
      <3>4. u[j] % 64 = d
        BY <3>2, SMT
      <3> QED BY <2>7, <2>8, <3>1, <3>3, <3>4, SMT DEF k
    <2>9. bits[1] = c \div Shift[n + 1 - 1]
      <3>1. n + 1 - 1 = n
        BY <1>n, SMT
      <3> QED BY <2>2, <2>6, <3>1, Zenon DEF q
    <2>10. bits[n] = c \div Shift[1]
      <3>1. CASE n = 2
        <4>1. bits[2] = c \div Shift[n + 1 - 2]
          BY <2>8, <2>9, <3>1, SMT
        <4> QED BY <3>1, <4>1, SMT
      <3>2. CASE n = 3
        <4>1. bits[2] = c \div Shift[n + 1 - 2]
          BY <2>8, <2>9, <3>2, SMT
        <4>2. bits[3] = c \div Shift[n + 1 - 3]
          BY <2>8, <3>2, <4>1, SMT
        <4> QED BY <3>2, <4>2, SMT
      <3>3. CASE n = 4
        <4>1. bits[2] = c \div Shift[n + 1 - 2]
          BY <2>8, <2>9, <3>3, SMT
        <4>2. bits[3] = c \div Shift[n + 1 - 3]
          BY <2>8, <3>3, <4>1, SMT
        <4>3. bits[4] = c \div Shift[n + 1 - 4]
          BY <2>8, <3>3, <4>2, SMT
        <4> QED BY <3>3, <4>3, SMT
      <3>4. CASE n = 5
        <4>1. bits[2] = c \div Shift[n + 1 - 2]
          BY <2>8, <2>9, <3>4, SMT
        <4>2. bits[3] = c \div Shift[n + 1 - 3]
          BY <2>8, <3>4, <4>1, SMT
        <4>3. bits[4] = c \div Shift[n + 1 - 4]
          BY <2>8, <3>4, <4>2, SMT
        <4>4. bits[5] = c \div Shift[n + 1 - 5]
          BY <2>8, <3>4, <4>3, SMT
        <4> QED BY <3>4, <4>4, SMT
      <3>5. CASE n = 6
        <4>1. bits[2] = c \div Shift[n + 1 - 2]
          BY <2>8, <2>9, <3>5, SMT
        <4>2. bits[3] = c \div Shift[n + 1 - 3]
          BY <2>8, <3>5, <4>1, SMT
        <4>3. bits[4] = c \div Shift[n + 1 - 4]
          BY <2>8, <3>5, <4>2, SMT
        <4>4. bits[5] = c \div Shift[n + 1 - 5]
          BY <2>8, <3>5, <4>3, SMT
        <4>5. bits[6] = c \div Shift[n + 1 - 6]
          BY <2>8, <3>5, <4>4, SMT
        <4> QED BY <3>5, <4>5, SMT
      <3> QED BY <2>0, <3>1, <3>2, <3>3, <3>4, <3>5
    <2> QED BY <1>1, <1>2, <2>5, <2>10, Zenon DEF u
  <1> QED BY <1>7, <1>8

\* c has a UTF-16 form; it is not one of the halves of such a form.
Fits16(c) == c > 0 /\ c <= 983039
Half(c) == c >= 55296 /\ c <= 57343

Upper(w) == w >= 55296 /\ w <= 56319
Lower(w) == w >= 56320 /\ w <= 57343
Joint(hi, lo) == (lo % 1024) + ((hi % 1024) + 64) * 1024

\* The UTF-16 form of c: one unit, or one of the upper and one of the lower halves.
LEMMA Units16 ==
  ASSUME NEW c \in Nat, Fits16(c)
  PROVE  \/ utf16_of(c) = <<c>>
         \/ \E hi, lo \in Nat : Upper(hi) /\ Lower(lo) /\ Joint(hi, lo) = c /\ utf16_of(c) = <<hi, lo>>
  <1>1. CASE c <= 65535
    <2>1. c # 0
      BY SMT DEF Fits16
    <2>2. utf16_of(c) = <<c>>
      BY <1>1, <2>1, SMT DEF utf16_of
    <2> QED BY <2>2
  <1>2. CASE c > 65535
    <2> DEFINE hi == 55296 + c \div 1024 - 64
               lo == 56320 + (c % 1024)
    <2>0. c # 0 /\ ~(c <= 65535) /\ c <= 983039
      BY <1>2, SMT DEF Fits16
    <2>1. utf16_of(c) = <<hi, lo>>
      BY <2>0, SMT DEF utf16_of
    <2>2. hi \in Nat /\ lo \in Nat /\ Upper(hi) /\ Lower(lo)
      BY <1>2, SMT DEF Fits16, Upper, Lower
    <2>3. lo % 1024 = c % 1024 /\ hi % 1024 = c \div 1024 - 64
      BY <1>2, SMT DEF Fits16
    <2>4. (c % 1024) + (c \div 1024) * 1024 = c
      BY SMT
    <2>5. Joint(hi, lo) = c
      BY <2>3, <2>4, SMT DEF Joint
    <2> HIDE DEF hi, lo
    <2> QED BY <2>1, <2>2, <2>5, Zenon
  <1>3. c <= 65535 \/ c > 65535
    BY SMT
  <1> QED BY <1>1, <1>2, <1>3

\* The halves as ranges.
LEMMA Halves ==
  ASSUME NEW w \in Nat
  PROVE  /\ (w \in 56320 .. 57343) <=> Lower(w)
         /\ (w \in 55296 .. 56319) <=> Upper(w)
         /\ Half(w) <=> Upper(w) \/ Lower(w)
         /\ ~(Upper(w) /\ Lower(w)) /\ (Upper(w) => w # 0)
  <1>1. (w \in 56320 .. 57343) <=> Lower(w)
    BY SMT DEF Lower
  <1>2. (w \in 55296 .. 56319) <=> Upper(w)
    BY SMT DEF Upper
  <1>3. Half(w) => Upper(w) \/ Lower(w)
    BY SMT DEF Half, Upper, Lower
  <1>4. (Upper(w) => Half(w)) /\ (Lower(w) => Half(w))
    BY SMT DEF Half, Upper, Lower
  <1>5. ~(Upper(w) /\ Lower(w)) /\ (Upper(w) => w # 0)
    BY SMT DEF Upper, Lower
  <1> QED BY <1>1, <1>2, <1>3, <1>4, <1>5

\* How a unit, or two, are read.
LEMMA Reads16 ==
  ASSUME NEW e \in Seq(Nat), NEW i \in 1 .. Len(e)
  PROVE  /\ e[i] # 0 /\ ~Half(e[i]) => utf32_of16(e, i) = [len |-> 1, c |-> e[i]]
         /\ i # Len(e) /\ Upper(e[i]) /\ Lower(e[i + 1])
              => utf32_of16(e, i) = [len |-> 2, c |-> Joint(e[i], e[i + 1])]
         /\ \/ utf32_of16(e, i) = Bad
            \/ utf32_of16(e, i) = [len |-> 1, c |-> e[i]]
            \/ /\ i # Len(e)
               /\ utf32_of16(e, i) = [len |-> 2, c |-> Joint(e[i], e[i + 1])]
  <1> DEFINE w == e[i]
             x == e[i + 1]
  <1>1. w \in Nat /\ (i # Len(e) => x \in Nat)
    OBVIOUS
  <1> HIDE DEF w, x
  <1>2. ~(Upper(w) /\ Lower(w)) /\ (Upper(w) => w # 0) /\ (Half(w) <=> Upper(w) \/ Lower(w))
    BY <1>1, Halves
  <1>3. utf32_of16(e, i) =
          IF w = 0 \/ Lower(w) THEN Bad
          ELSE IF ~Upper(w) THEN [len |-> 1, c |-> w]
          ELSE IF i = Len(e) \/ ~Lower(x) THEN Bad
          ELSE [len |-> 2, c |-> Joint(w, x)]
    <2> DEFINE IsLow(y) == y \in 56320 .. 57343
               IsUp(y)  == y \in 55296 .. 56319
    <2>1. utf32_of16(e, i) =
            IF w = 0 \/ IsLow(w) THEN Bad
            ELSE IF ~IsUp(w) THEN [len |-> 1, c |-> w]
            ELSE IF i = Len(e) \/ ~IsLow(x) THEN Bad
            ELSE [len |-> 2, c |-> Joint(w, x)]
      BY SMT DEF utf32_of16, Joint, w, x
    <2>2. \A y \in Nat : (IsLow(y) <=> Lower(y)) /\ (IsUp(y) <=> Upper(y))
      BY Halves
    <2> HIDE DEF IsLow, IsUp
    <2>3. (IsLow(w) <=> Lower(w)) /\ (IsUp(w) <=> Upper(w)) /\ (i # Len(e) => (IsLow(x) <=> Lower(x)))
      BY <1>1, <2>2, Zenon
    <2> QED BY <2>1, <2>3, Zenon
  <1> QED BY <1>2, <1>3, Zenon DEF w, x

\* A character's units, wherever they are, are read as the character.
LEMMA Back16 ==
  ASSUME NEW c \in Nat, Fits16(c), ~Half(c), NEW e \in Seq(Nat \ {0}), NEW p \in Nat \ {0},
         p + Len(utf16_of(c)) - 1 <= Len(e),
         \A j \in 1 .. Len(utf16_of(c)) : e[p + j - 1] = utf16_of(c)[j]
  PROVE  utf32_of16(e, p) = [len |-> Len(utf16_of(c)), c |-> c]
  <1> DEFINE u == utf16_of(c)
  <1>1. p + Len(u) - 1 <= Len(e) /\ \A j \in 1 .. Len(u) : e[p + j - 1] = u[j]
    OBVIOUS
  <1>0. e \in Seq(Nat)
    OBVIOUS
  <1> HIDE DEF u
  <1>2. CASE u = <<c>>
    <2>1. Len(u) = 1 /\ u[1] = c
      BY <1>2, SMT
    <2>2. e[p] = c /\ p \in 1 .. Len(e)
      BY <1>1, <2>1, SMT
    <2>3. c # 0
      BY SMT DEF Fits16
    <2>4. utf32_of16(e, p) = [len |-> 1, c |-> e[p]]
      BY <1>0, <2>2, <2>3, Reads16, Zenon
    <2> QED BY <2>1, <2>2, <2>4, Zenon DEF u
  <1>3. ASSUME NEW hi \in Nat, NEW lo \in Nat, Upper(hi), Lower(lo), Joint(hi, lo) = c, u = <<hi, lo>>
        PROVE  utf32_of16(e, p) = [len |-> Len(u), c |-> c]
    <2>1. Len(u) = 2 /\ u[1] = hi /\ u[2] = lo
      BY <1>3, SMT
    <2>2. e[p] = hi /\ e[p + 1] = lo /\ p # Len(e) /\ p \in 1 .. Len(e)
      BY <1>1, <2>1, SMT
    <2>3. utf32_of16(e, p) = [len |-> 2, c |-> Joint(e[p], e[p + 1])]
      BY <1>0, <1>3, <2>2, Reads16, Zenon
    <2> QED BY <1>3, <2>1, <2>2, <2>3, Zenon
  <1> QED BY <1>2, <1>3, Units16, Zenon DEF u

\* A character in a form of text, and the character at a place of it.
Enc(c, form) == IF form = "utf8" THEN utf8_of(c) ELSE utf16_of(c)
Dec(e, i, form) == IF form = "utf8" THEN utf32_of8(e, i) ELSE utf32_of16(e, i)
Fits(c, form) == IF form = "utf8" THEN Fits8(c) ELSE Fits16(c)

\* A character that fits has units, none of them 0; another one has none.
LEMMA EncIs ==
  ASSUME NEW c \in Nat \ {0}, NEW form
  PROVE  /\ Fits(c, form) => Enc(c, form) \in Seq(Nat \ {0}) /\ Len(Enc(c, form)) > 0 /\ Enc(c, form) # <<>>
         /\ ~Fits(c, form) => Enc(c, form) = <<>>
  <1>1. Fits8(c) => utf8_of(c) \in Seq(Nat \ {0}) /\ Len(utf8_of(c)) > 0 /\ utf8_of(c) # <<>>
    <2> SUFFICES ASSUME Fits8(c) PROVE utf8_of(c) \in Seq(Nat \ {0}) /\ Len(utf8_of(c)) > 0 /\ utf8_of(c) # <<>>
      OBVIOUS
    <2>1. Size8(c) \in 1 .. 6 /\ utf8_of(c) \in Seq(Nat \ {0}) /\ Len(utf8_of(c)) = Size8(c)
      BY Bytes8, SMT
    <2> QED BY <2>1, SMT
  <1>2. ~Fits8(c) => utf8_of(c) = <<>>
    BY SMT DEF Fits8, utf8_of
  <1>3. Fits16(c) => utf16_of(c) \in Seq(Nat \ {0}) /\ Len(utf16_of(c)) > 0 /\ utf16_of(c) # <<>>
    <2> SUFFICES ASSUME Fits16(c) PROVE utf16_of(c) \in Seq(Nat \ {0}) /\ Len(utf16_of(c)) > 0 /\ utf16_of(c) # <<>>
      OBVIOUS
    <2>1. CASE utf16_of(c) = <<c>>
      BY <2>1, SMT
    <2>2. ASSUME NEW hi \in Nat, NEW lo \in Nat, Upper(hi), Lower(lo), utf16_of(c) = <<hi, lo>>
          PROVE  utf16_of(c) \in Seq(Nat \ {0}) /\ Len(utf16_of(c)) > 0 /\ utf16_of(c) # <<>>
      <3>1. hi # 0 /\ lo # 0
        BY <2>2, SMT DEF Upper, Lower
      <3> QED BY <2>2, <3>1, SMT
    <2> QED BY <2>1, <2>2, Units16, Zenon
  <1>4. ~Fits16(c) => utf16_of(c) = <<>>
    BY SMT DEF Fits16, utf16_of
  <1> QED BY <1>1, <1>2, <1>3, <1>4, Zenon DEF Enc, Fits

\* A character's units are read as the character.
LEMMA CharBack ==
  ASSUME NEW c \in Nat \ {0}, NEW form, Fits(c, form), form = "utf8" \/ ~Half(c),
         NEW e \in Seq(Nat \ {0}), NEW p \in Nat \ {0},
         p + Len(Enc(c, form)) - 1 <= Len(e),
         \A j \in 1 .. Len(Enc(c, form)) : e[p + j - 1] = Enc(c, form)[j]
  PROVE  Dec(e, p, form) = [len |-> Len(Enc(c, form)), c |-> c]
  <1>0. c \in Nat
    OBVIOUS
  <1>1. CASE form = "utf8"
    BY <1>0, <1>1, Back8, Zenon DEF Enc, Dec, Fits
  <1>2. CASE form # "utf8"
    BY <1>0, <1>2, Back16, Zenon DEF Enc, Dec, Fits
  <1> QED BY <1>1, <1>2

\* Reading a character moves on and not beyond the end, or fails.
LEMMA DecStep ==
  ASSUME NEW e \in Seq(Nat), NEW i \in 1 .. Len(e), NEW form
  PROVE  Dec(e, i, form).len \in Nat /\ i + Dec(e, i, form).len <= Len(e) + 1
  <1>1. CASE form = "utf8"
    <2> DEFINE b == e[i]
               n == Announced(b)
    <2>1. /\ Bad.len = 0
          /\ n \in 2 .. 6
      BY SMT DEF Bad, Announced
    <2> HIDE DEF b, n
    <2>2. \/ utf32_of8(e, i) = Bad
          \/ utf32_of8(e, i) = [len |-> 1, c |-> b]
          \/ /\ ~(i + n - 1 > Len(e))
             /\ utf32_of8(e, i) = [len |-> n, c |-> Bits(e, i, Mask[n])[n]]
      BY Reads8, Zenon DEF b, n
    <2> QED BY <1>1, <2>1, <2>2, SMT DEF Dec
  <1>2. CASE form # "utf8"
    <2>1. \/ utf32_of16(e, i) = Bad
          \/ utf32_of16(e, i) = [len |-> 1, c |-> e[i]]
          \/ /\ i # Len(e)
             /\ utf32_of16(e, i) = [len |-> 2, c |-> Joint(e[i], e[i + 1])]
      BY Reads16, Zenon
    <2>2. Bad.len = 0
      BY DEF Bad
    <2> QED BY <1>2, <2>1, <2>2, SMT DEF Dec
  <1> QED BY <1>1, <1>2

-----------------------------------------------------------------------------
(* Texts in UTF-8 and UTF-16. *)

\* What FlattenSeq collects, piece by piece.
Piled(seqs) == CHOOSE f : f = [i \in 1 .. Len(seqs) |-> IF i = 1 THEN seqs[i] ELSE f[i - 1] \o seqs[i]]

\* It is what the definition says.
LEMMA PiledIs ==
  ASSUME NEW seqs, Len(seqs) \in Nat
  PROVE  \A i \in 1 .. Len(seqs) : Piled(seqs)[i] = IF i = 1 THEN seqs[i] ELSE Piled(seqs)[i - 1] \o seqs[i]
  <1> DEFINE n == Len(seqs)
             Turn(g, i) == IF i = 1 THEN seqs[i] ELSE g[i - 1] \o seqs[i]
             Up(g, k) == \A i \in 1 .. k : g[i] = Turn(g, i)
             T == {k \in 0 .. n : \E g : Up(g, k)}
             Whole(g) == [i \in 1 .. n |-> Turn(g, i)]
             f == CHOOSE g : g = Whole(g)
  <1>0. n \in Nat
    OBVIOUS
  <1> HIDE DEF n
  <1>1. 0 \in T
    <2>1. Up(<<>>, 0)
      OBVIOUS
    <2> HIDE DEF Up
    <2>2. 0 \in 0 .. n
      BY <1>0
    <2> QED BY <2>1, <2>2, Zenon
  <1>2. ASSUME NEW k \in Nat, k < n, k \in T PROVE k + 1 \in T
    <2>1. PICK g : Up(g, k)
      <3> HIDE DEF Up
      <3> QED BY <1>2, Zenon
    <2> DEFINE h == [i \in 1 .. k + 1 |-> IF i = k + 1 THEN Turn(g, i) ELSE g[i]]
    <2>2. ASSUME NEW i \in 1 .. k + 1 PROVE h[i] = Turn(h, i)
      <3>1. h[i] = Turn(g, i)
        <4> HIDE DEF Turn
        <4>1. i = k + 1 \/ i \in 1 .. k
          OBVIOUS
        <4>2. i # k + 1 => g[i] = Turn(g, i)
          BY <2>1, <4>1, Zenon
        <4> QED BY <4>2, Zenon
      <3>2. i = 1 \/ (i - 1 \in 1 .. k + 1 /\ i - 1 # k + 1)
        OBVIOUS
      <3>3. i = 1 \/ h[i - 1] = g[i - 1]
        <4> HIDE DEF Turn
        <4> QED BY <3>2, Zenon
      <3> HIDE DEF h
      <3> QED BY <3>1, <3>3, Zenon
    <2> HIDE DEF h, Turn
    <2>3. Up(h, k + 1)
      BY <2>2
    <2>4. k + 1 \in 0 .. n
      BY <1>0, <1>2
    <2> HIDE DEF Up
    <2> QED BY <2>3, <2>4, Zenon
  <1>3. \E g : Up(g, n)
    <2> HIDE DEF Up
    <2>1. n \in 0 .. n
      BY <1>0
    <2>2. \A k \in 0 .. n : k \in T
      <3> HIDE DEF T
      <3> QED BY <1>0, <1>1, <1>2, CountUp
    <2> QED BY <2>1, <2>2, Zenon
  <1>4. PICK g : Up(g, n)
    BY <1>3, Zenon
  <1> DEFINE w == [i \in 1 .. n |-> g[i]]
  <1>5. w = Whole(w)
    <2> SUFFICES ASSUME NEW i \in 1 .. n PROVE g[i] = Turn(w, i)
      BY Zenon
    <2>1. i = 1 \/ i - 1 \in 1 .. n
      BY <1>0
    <2>2. i = 1 \/ w[i - 1] = g[i - 1]
      BY <2>1, Zenon
    <2> HIDE DEF w
    <2> QED BY <1>4, <2>2, Zenon
  <1>6. f = Whole(f)
    <2> HIDE DEF w, Whole
    <2> QED BY <1>5, Zenon
  <1>7. \A i \in 1 .. n : f[i] = Turn(f, i)
    <2> HIDE DEF f, Turn
    <2> QED BY <1>6, Zenon
  <1> QED BY <1>7, Zenon DEF Piled, n

\* FlattenSeq is the last of it.
LEMMA FlattenIs ==
  ASSUME NEW seqs, Len(seqs) \in Nat
  PROVE  FlattenSeq(seqs) = IF Len(seqs) = 0 THEN seqs ELSE Piled(seqs)[Len(seqs)]
  BY Zenon DEF FlattenSeq, Piled

\* The first k pieces, one behind the other.
Piece(seqs, k) == IF k = 0 THEN <<>> ELSE Piled(seqs)[k]

\* s goes on as t does.
Begins(s, t) == Len(s) <= Len(t) /\ \A i \in 1 .. Len(s) : t[i] = s[i]

\* A sequence with another behind it.
LEMMA Behind ==
  ASSUME NEW S, NEW s \in Seq(S), NEW t \in Seq(S)
  PROVE  /\ s \o t \in Seq(S) /\ Len(s \o t) = Len(s) + Len(t) /\ Begins(s, s \o t)
         /\ \A j \in 1 .. Len(t) : (s \o t)[Len(s) + j] = t[j]
  <1>1. s \o t \in Seq(S) /\ Len(s \o t) = Len(s) + Len(t)
    OBVIOUS
  <1>2. \A i \in 1 .. Len(s) : (s \o t)[i] = s[i]
    OBVIOUS
  <1>3. \A j \in 1 .. Len(t) : (s \o t)[Len(s) + j] = t[j]
    OBVIOUS
  <1>4. Len(s) <= Len(s) + Len(t)
    OBVIOUS
  <1> QED BY <1>1, <1>2, <1>3, <1>4, Zenon DEF Begins

\* A piece more.
LEMMA NextPiece ==
  ASSUME NEW S, NEW seqs \in Seq(Seq(S))
  PROVE  \A k \in 0 .. Len(seqs) :
           /\ Piece(seqs, k) \in Seq(S)
           /\ k > 0 => /\ Piece(seqs, k - 1) \in Seq(S) /\ seqs[k] \in Seq(S)
                       /\ Piece(seqs, k) = Piece(seqs, k - 1) \o seqs[k]
  <1> DEFINE n == Len(seqs)
             T == {k \in 0 .. n : Piece(seqs, k) \in Seq(S)}
  <1>0. n \in Nat /\ \A k \in 1 .. n : seqs[k] \in Seq(S)
    OBVIOUS
  <1> HIDE DEF n
  <1>1. ASSUME NEW k \in Nat, k < n, k \in T
        PROVE  /\ Piece(seqs, k + 1) = Piece(seqs, k) \o seqs[k + 1] /\ Piece(seqs, k) \in Seq(S)
               /\ seqs[k + 1] \in Seq(S) /\ k + 1 \in T
    <2>1. k + 1 \in 1 .. n /\ k + 1 \in 0 .. n /\ k + 1 # 0 /\ (k + 1 = 1 <=> k = 0) /\ k + 1 - 1 = k
      BY <1>0, <1>1
    <2>2. seqs[k + 1] \in Seq(S) /\ Piece(seqs, k) \in Seq(S)
      BY <1>0, <1>1, <2>1, Zenon
    <2>3. Piled(seqs)[k + 1] = IF k = 0 THEN seqs[k + 1] ELSE Piled(seqs)[k] \o seqs[k + 1]
      <3>1. Piled(seqs)[k + 1] = IF k + 1 = 1 THEN seqs[k + 1] ELSE Piled(seqs)[k + 1 - 1] \o seqs[k + 1]
        <4>1. \A i \in 1 .. Len(seqs) : Piled(seqs)[i] = IF i = 1 THEN seqs[i] ELSE Piled(seqs)[i - 1] \o seqs[i]
          BY <1>0, PiledIs DEF n
        <4> DEFINE i == k + 1
        <4>2. i \in 1 .. Len(seqs)
          BY <2>1, Zenon DEF n
        <4> HIDE DEF i
        <4>3. Piled(seqs)[i] = IF i = 1 THEN seqs[i] ELSE Piled(seqs)[i - 1] \o seqs[i]
          BY <4>1, <4>2, Zenon
        <4> QED BY <4>3 DEF i
      <3> QED BY <2>1, <3>1, Zenon
    <2>4. <<>> \o seqs[k + 1] = seqs[k + 1]
      BY <2>2
    <2>5. Piece(seqs, k + 1) = Piece(seqs, k) \o seqs[k + 1]
      BY <2>1, <2>3, <2>4, Zenon DEF Piece
    <2>6. Piece(seqs, k) \o seqs[k + 1] \in Seq(S)
      BY <2>2, Behind, Zenon
    <2> QED BY <2>1, <2>2, <2>5, <2>6, Zenon
  <1>2. 0 \in T
    BY <1>0 DEF Piece
  <1>3. \A k \in 0 .. n : k \in T
    <2> HIDE DEF T
    <2> QED BY <1>0, <1>1, <1>2, CountUp
  <1>4. ASSUME NEW k \in 0 .. n, k > 0
        PROVE  /\ Piece(seqs, k - 1) \in Seq(S) /\ seqs[k] \in Seq(S)
               /\ Piece(seqs, k) = Piece(seqs, k - 1) \o seqs[k]
    <2>1. k - 1 \in Nat /\ k - 1 < n /\ k - 1 + 1 = k /\ k - 1 \in 0 .. n
      BY <1>0, <1>4
    <2> HIDE DEF T
    <2>2. k - 1 \in T
      BY <1>3, <2>1, Zenon
    <2>3. Piece(seqs, k - 1 + 1) = Piece(seqs, k - 1) \o seqs[k - 1 + 1] /\ Piece(seqs, k - 1) \in Seq(S)
          /\ seqs[k - 1 + 1] \in Seq(S)
      BY <1>1, <2>1, <2>2, Zenon
    <2> QED BY <2>1, <2>3, Zenon
  <1>5. \A k \in 0 .. n : Piece(seqs, k) \in Seq(S)
    BY <1>3, Zenon
  <1> QED BY <1>4, <1>5, Zenon DEF n

\* All pieces together begin as the first of them do.
LEMMA AllBegin ==
  ASSUME NEW S, NEW seqs \in Seq(Seq(S)), NEW k \in 0 .. Len(seqs)
  PROVE  Begins(Piece(seqs, k), Piece(seqs, Len(seqs)))
  <1> DEFINE n == Len(seqs)
             P(l) == Piece(seqs, l)
             T == {d \in 0 .. n - k : Begins(P(k), P(k + d))}
  <1>0. n \in Nat /\ n - k \in Nat /\ k \in Nat /\ k \in 0 .. n /\ k + (n - k) = n /\ k + 0 = k
    OBVIOUS
  <1> HIDE DEF n
  <1>1. \A l \in 0 .. n : P(l) \in Seq(S)
    BY NextPiece, Zenon DEF n
  <1>2. 0 \in T
    <2>1. Begins(P(k), P(k))
      <3>1. Len(P(k)) <= Len(P(k))
        <4>1. P(k) \in Seq(S)
          BY <1>0, <1>1, Zenon
        <4> HIDE DEF P
        <4> QED BY <4>1
      <3> QED BY <3>1, Zenon DEF Begins
    <2>2. 0 \in 0 .. n - k
      BY <1>0
    <2> QED BY <1>0, <2>1, <2>2, Zenon
  <1>3. ASSUME NEW d \in Nat, d < n - k, d \in T PROVE d + 1 \in T
    <2> DEFINE l == k + d + 1
    <2>1. l \in 0 .. n /\ l > 0 /\ l - 1 = k + d /\ k + (d + 1) = l /\ d + 1 \in 0 .. n - k /\ k + d \in 0 .. n
      BY <1>0, <1>3
    <2> HIDE DEF l
    <2>2. P(l) = P(l - 1) \o seqs[l] /\ P(l - 1) \in Seq(S) /\ seqs[l] \in Seq(S)
      BY <2>1, NextPiece, Zenon DEF n
    <2>3. Begins(P(l - 1), P(l - 1) \o seqs[l])
      BY <2>2, Behind, Zenon
    <2>4. Begins(P(k), P(l - 1))
      BY <1>3, <2>1, Zenon
    <2>5. P(k) \in Seq(S) /\ P(l) \in Seq(S)
      BY <1>0, <1>1, <2>1, Zenon
    <2>6. Begins(P(l - 1), P(l))
      BY <2>2, <2>3, Zenon
    <2> HIDE DEF P
    <2>7. Begins(P(k), P(l))
      <3>0. P(k) \in Seq(S) /\ P(l - 1) \in Seq(S) /\ P(l) \in Seq(S)
        BY <2>2, <2>5, Zenon
      <3>1. Len(P(k)) \in Nat /\ Len(P(l - 1)) \in Nat /\ Len(P(l)) \in Nat
        BY <3>0
      <3> QED BY <2>4, <2>6, <3>1, SMT DEF Begins
    <2> QED BY <2>1, <2>7, Zenon
  <1>4. n - k \in T
    <2>1. \A d \in 0 .. n - k : d \in T
      <3> HIDE DEF T
      <3> QED BY <1>0, <1>2, <1>3, CountUp
    <2>2. n - k \in 0 .. n - k
      BY <1>0
    <2> QED BY <2>1, <2>2, Zenon
  <1> QED BY <1>0, <1>4, Zenon DEF n

\* Where the first k pieces end.
End(seqs, k) == Len(Piece(seqs, k))

\* FlattenSeq: every piece is in its place, right behind the one before it.
LEMMA Flattened ==
  ASSUME NEW S, NEW seqs \in Seq(Seq(S))
  PROVE  /\ FlattenSeq(seqs) \in Seq(S)
         /\ End(seqs, 0) = 0 /\ End(seqs, Len(seqs)) = Len(FlattenSeq(seqs))
         /\ \A k \in 0 .. Len(seqs) : End(seqs, k) \in Nat
         /\ \A k \in 1 .. Len(seqs) :
              /\ End(seqs, k) = End(seqs, k - 1) + Len(seqs[k]) /\ End(seqs, k) <= Len(FlattenSeq(seqs))
              /\ \A j \in 1 .. Len(seqs[k]) : FlattenSeq(seqs)[End(seqs, k - 1) + j] = seqs[k][j]
  <1> DEFINE n == Len(seqs)
             P(l) == Piece(seqs, l)
             e == FlattenSeq(seqs)
  <1>0. n \in Nat /\ 0 \in 0 .. n /\ n \in 0 .. n
    OBVIOUS
  <1>1. e = P(n)
    <2>1. n = 0 => seqs = <<>>
      OBVIOUS
    <2> QED BY <1>0, <2>1, FlattenIs, Zenon DEF Piece
  <1> HIDE DEF n, e
  <1>2. \A l \in 0 .. n : P(l) \in Seq(S)
    BY NextPiece, Zenon DEF n
  <1>3. \A l \in 0 .. n : End(seqs, l) \in Nat
    <2> SUFFICES ASSUME NEW l \in 0 .. n PROVE Len(P(l)) \in Nat
      BY DEF End
    <2>1. P(l) \in Seq(S)
      BY <1>2, Zenon
    <2> HIDE DEF P
    <2> QED BY <2>1
  <1>4. End(seqs, 0) = 0
    BY DEF End, Piece
  <1>5. ASSUME NEW k \in 1 .. n
        PROVE  /\ End(seqs, k) = End(seqs, k - 1) + Len(seqs[k]) /\ End(seqs, k) <= Len(e)
               /\ \A j \in 1 .. Len(seqs[k]) : e[End(seqs, k - 1) + j] = seqs[k][j]
    <2>1. k \in 0 .. n /\ k > 0
      BY <1>0
    <2>2. P(k) = P(k - 1) \o seqs[k] /\ P(k - 1) \in Seq(S) /\ seqs[k] \in Seq(S)
      BY <2>1, NextPiece, Zenon DEF n
    <2>3. Begins(P(k), e)
      BY <1>1, <2>1, AllBegin, Zenon DEF n
    <2>4. Len(P(k)) = Len(P(k - 1)) + Len(seqs[k]) /\ \A j \in 1 .. Len(seqs[k]) : P(k)[Len(P(k - 1)) + j] = seqs[k][j]
      <3>1. /\ Len(P(k - 1) \o seqs[k]) = Len(P(k - 1)) + Len(seqs[k])
            /\ \A j \in 1 .. Len(seqs[k]) : (P(k - 1) \o seqs[k])[Len(P(k - 1)) + j] = seqs[k][j]
        <4> DEFINE a == P(k - 1)
                   b == seqs[k]
        <4>1. a \in Seq(S) /\ b \in Seq(S)
          BY <2>2, Zenon
        <4> HIDE DEF a, b
        <4>2. Len(a \o b) = Len(a) + Len(b) /\ \A j \in 1 .. Len(b) : (a \o b)[Len(a) + j] = b[j]
          BY <4>1, Behind
        <4> QED BY <4>2, Zenon DEF a, b
      <3> QED BY <2>2, <3>1, Zenon
    <2>5. Len(P(k - 1)) \in Nat /\ Len(seqs[k]) \in Nat
      <3> HIDE DEF P
      <3> QED BY <2>2
    <2>6. ASSUME NEW j \in 1 .. Len(seqs[k]) PROVE e[Len(P(k - 1)) + j] = seqs[k][j]
      <3>1. Len(P(k - 1)) + j \in 1 .. Len(P(k))
        <4> HIDE DEF P
        <4> QED BY <2>4, <2>5
      <3> QED BY <2>3, <2>4, <3>1, Zenon DEF Begins
    <2> QED BY <2>3, <2>4, <2>6, Zenon DEF End, Begins
  <1> QED BY <1>0, <1>1, <1>2, <1>3, <1>4, <1>5, Zenon DEF n, e, End

\* What decode makes of e from i on, given what it makes of the places behind.
Onward(f, e, i, form) ==
  IF i > Len(e) THEN [ok |-> TRUE, t |-> <<>>]
  ELSE IF Dec(e, i, form).len = 0 THEN [ok |-> FALSE, t |-> <<>>]
  ELSE [f[i + Dec(e, i, form).len] EXCEPT !.t = <<Dec(e, i, form).c>> \o @]

From(e, form) == CHOOSE f : f = [i \in 1 .. Len(e) + 1 |-> Onward(f, e, i, form)]

\* decode is what is made of the whole, from its first place.
LEMMA DecodeIs ==
  ASSUME NEW units, NEW form
  PROVE  decode(units, form) = LET f == From(CStr(units), form) IN IF f[1].ok THEN f[1].t ELSE <<>>
  BY Zenon DEF decode, From, Onward, Dec

\* That is defined, as the places behind are defined before.
LEMMA FromIs ==
  ASSUME NEW e \in Seq(Nat), NEW form
  PROVE  \A i \in 1 .. Len(e) + 1 : From(e, form)[i] = Onward(From(e, form), e, i, form)
  <1> DEFINE m == Len(e) + 1
             Turn(g, i) == Onward(g, e, i, form)
             Up(g, k) == \A i \in 1 .. m : i >= m - k => g[i] = Turn(g, i)
             T == {k \in 0 .. m : \E g : Up(g, k)}
             Whole(g) == [i \in 1 .. m |-> Turn(g, i)]
             f == CHOOSE g : g = Whole(g)
  <1>0. m \in Nat /\ m >= 1 /\ Len(e) \in Nat /\ m > Len(e)
    OBVIOUS
  <1>s. ASSUME NEW g, NEW h, NEW i \in 1 .. m, \A j \in 1 .. m : j > i => g[j] = h[j]
        PROVE  Turn(g, i) = Turn(h, i)
    <2> DEFINE d == Dec(e, i, form).len
               ch == Dec(e, i, form).c
    <2>1. CASE i > Len(e)
      BY <2>1, Zenon DEF Onward
    <2>2. CASE ~(i > Len(e))
      <3>1. i \in 1 .. Len(e)
        BY <2>2, <1>0
      <3>2. d \in Nat /\ i + d <= Len(e) + 1
        BY <3>1, DecStep, Zenon
      <3> HIDE DEF d, ch
      <3>3. d = 0 \/ (i + d \in 1 .. m /\ i + d > i)
        BY <1>0, <3>2
      <3>4. d = 0 \/ g[i + d] = h[i + d]
        BY <1>s, <3>3, Zenon
      <3> QED BY <2>2, <3>4, Zenon DEF Onward, d, ch
    <2> QED BY <2>1, <2>2
  <1> HIDE DEF m, Turn
  <1>1. 0 \in T
    <2> DEFINE g == [i \in 1 .. m |-> Turn(<<>>, i)]
    <2>1. ASSUME NEW i \in 1 .. m, i >= m - 0 PROVE g[i] = Turn(g, i)
      <3>1. \A j \in 1 .. m : ~(j > i)
        BY <1>0, <2>1
      <3>2. g[i] = Turn(<<>>, i)
        BY Zenon
      <3> HIDE DEF g
      <3>3. Turn(<<>>, i) = Turn(g, i)
        BY <1>s, <3>1, Zenon
      <3> QED BY <3>2, <3>3, Zenon
    <2> HIDE DEF g
    <2>2. Up(g, 0)
      BY <2>1
    <2>3. 0 \in 0 .. m
      BY <1>0
    <2> HIDE DEF Up
    <2> QED BY <2>2, <2>3, Zenon
  <1>2. ASSUME NEW k \in Nat, k < m, k \in T PROVE k + 1 \in T
    <2>1. PICK g : Up(g, k)
      <3> HIDE DEF Up
      <3> QED BY <1>2, Zenon
    <2> DEFINE p == m - (k + 1)
               h == [i \in 1 .. m |-> IF i = p THEN Turn(g, i) ELSE g[i]]
    <2>2. ASSUME NEW i \in 1 .. m, i >= p PROVE h[i] = Turn(h, i)
      <3>1. i # p => i >= m - k
        BY <1>0, <2>2
      <3>2. g[i] = Turn(g, i) \/ i = p
        BY <2>1, <3>1, Zenon
      <3>3. h[i] = Turn(g, i)
        BY <3>2, Zenon
      <3>4. \A j \in 1 .. m : j > i => j # p
        BY <1>0, <2>2
      <3>5. \A j \in 1 .. m : j > i => g[j] = h[j]
        BY <3>4, Zenon
      <3> HIDE DEF h
      <3>6. Turn(g, i) = Turn(h, i)
        BY <1>s, <3>5, Zenon
      <3> QED BY <3>3, <3>6, Zenon
    <2> HIDE DEF h
    <2>3. Up(h, k + 1)
      BY <2>2
    <2>4. k + 1 \in 0 .. m
      BY <1>0, <1>2
    <2> HIDE DEF Up
    <2> QED BY <2>3, <2>4, Zenon
  <1>3. \E g : Up(g, m)
    <2> HIDE DEF Up
    <2>1. m \in 0 .. m
      BY <1>0
    <2>2. \A k \in 0 .. m : k \in T
      <3> HIDE DEF T
      <3> QED BY <1>0, <1>1, <1>2, CountUp
    <2> QED BY <2>1, <2>2, Zenon
  <1>4. PICK g : Up(g, m)
    BY <1>3, Zenon
  <1>a. \A i \in 1 .. m : g[i] = Turn(g, i)
    <2>1. \A i \in 1 .. m : i >= m - m
      BY <1>0
    <2> QED BY <1>4, <2>1, Zenon
  <1> DEFINE w == [i \in 1 .. m |-> g[i]]
  <1>5. w = Whole(w)
    <2> SUFFICES ASSUME NEW i \in 1 .. m PROVE g[i] = Turn(w, i)
      BY Zenon
    <2>1. \A j \in 1 .. m : j > i => g[j] = w[j]
      BY Zenon
    <2> HIDE DEF w
    <2>2. Turn(g, i) = Turn(w, i)
      BY <1>s, <2>1, Zenon
    <2> QED BY <1>a, <2>2, Zenon
  <1>6. f = Whole(f)
    <2> HIDE DEF w, Whole
    <2> QED BY <1>5, Zenon
  <1>7. \A i \in 1 .. m : f[i] = Turn(f, i)
    <2> HIDE DEF f
    <2> QED BY <1>6, Zenon
  <1> QED BY <1>7, Zenon DEF From, m, Turn

\* A text up to its first zero.
LEMMA CStrIs ==
  ASSUME NEW S, NEW s \in Seq(S)
  PROVE  /\ CStr(s) \in Seq(S) /\ Len(CStr(s)) <= Len(s)
         /\ \A i \in 1 .. Len(CStr(s)) : CStr(s)[i] = s[i] /\ s[i] # 0
         /\ (\A i \in 1 .. Len(s) : s[i] # 0) => CStr(s) = s
  <1> DEFINE Z == {i \in 1 .. Len(s) : s[i] = 0}
             Y == Z \cup {Len(s) + 1}
             m == Min(Y)
  <1>0. Len(s) \in Nat
    OBVIOUS
  <1>1. Y \subseteq Nat /\ Len(s) + 1 \in Y /\ \A i \in Y : i >= 1 /\ i <= Len(s) + 1
    BY <1>0
  <1>2. m \in Y /\ \A i \in Y : m <= i
    <2>1. \E x \in Y : \A y \in Y : x <= y
      <3> HIDE DEF Y
      <3> QED BY <1>1, LeastNumber, Zenon
    <2> HIDE DEF Y
    <2>2. m = CHOOSE x \in Y : \A y \in Y : x <= y
      BY Zenon DEF Min
    <2> HIDE DEF m
    <2> QED BY <2>1, <2>2, Zenon
  <1> HIDE DEF m
  <1>3. m \in Nat /\ m - 1 \in 0 .. Len(s)
    <2> HIDE DEF Y
    <2> QED BY <1>0, <1>1, <1>2
  <1>4. CStr(s) = SubSeq(s, 1, m - 1)
    BY Zenon DEF CStr, m
  <1>5. /\ SubSeq(s, 1, m - 1) \in Seq(S) /\ Len(SubSeq(s, 1, m - 1)) = m - 1
        /\ \A i \in 1 .. m - 1 : SubSeq(s, 1, m - 1)[i] = s[i]
    BY <1>3, FirstOf, Zenon
  <1>6. ASSUME NEW i \in 1 .. m - 1 PROVE s[i] # 0
    <2>1. i \in 1 .. Len(s) /\ ~(m <= i)
      BY <1>0, <1>3
    <2>2. i \notin Y
      BY <1>2, <2>1, Zenon
    <2> QED BY <2>1, <2>2, Zenon
  <1>7. ASSUME \A i \in 1 .. Len(s) : s[i] # 0 PROVE CStr(s) = s
    <2>1. m = Len(s) + 1
      <3>1. Z = {}
        BY <1>7, Zenon
      <3> HIDE DEF Z
      <3> QED BY <1>2, <3>1
    <2>2. m - 1 = Len(s)
      BY <1>0, <2>1
    <2>3. SubSeq(s, 1, Len(s)) = s
      OBVIOUS
    <2> QED BY <1>4, <2>2, <2>3, Zenon
  <1>8. CStr(s) \in Seq(S) /\ Len(CStr(s)) = m - 1 /\ \A i \in 1 .. m - 1 : CStr(s)[i] = s[i]
    BY <1>4, <1>5, Zenon
  <1>9. Len(CStr(s)) <= Len(s)
    BY <1>0, <1>3, <1>8
  <1> QED BY <1>6, <1>7, <1>8, <1>9, Zenon

\* The characters of s in their form, one by one.
Forms(s, form) == [i \in 1 .. Len(s) |-> Enc(s[i], form)]

\* Each is a sequence of units that is not empty.
LEMMA FormsAre ==
  ASSUME NEW s \in Seq(Nat \ {0}), NEW form, \A i \in 1 .. Len(s) : Fits(s[i], form)
  PROVE  /\ Forms(s, form) \in Seq(Seq(Nat \ {0})) /\ Len(Forms(s, form)) = Len(s)
         /\ \A i \in 1 .. Len(s) : /\ Forms(s, form)[i] = Enc(s[i], form)
                                   /\ Len(Enc(s[i], form)) \in Nat \ {0}
  <1> DEFINE n == Len(s)
             u == Forms(s, form)
  <1>0. n \in Nat /\ \A i \in 1 .. n : s[i] \in Nat \ {0}
    OBVIOUS
  <1>1. ASSUME NEW i \in 1 .. n
        PROVE  Enc(s[i], form) \in Seq(Nat \ {0}) /\ Len(Enc(s[i], form)) \in Nat \ {0}
    <2>1. Enc(s[i], form) \in Seq(Nat \ {0}) /\ Len(Enc(s[i], form)) > 0
      BY <1>0, EncIs, Zenon
    <2> QED BY <2>1
  <1>2. u = [i \in 1 .. n |-> Enc(s[i], form)]
    BY Zenon DEF Forms
  <1> HIDE DEF n, u
  <1>3. u \in [1 .. n -> Seq(Nat \ {0})]
    BY <1>1, <1>2, Zenon
  <1>4. u \in Seq(Seq(Nat \ {0})) /\ Len(u) = n
    BY <1>0, <1>3, FcnIsSeq
  <1>5. \A i \in 1 .. n : u[i] = Enc(s[i], form)
    BY <1>2, Zenon
  <1> QED BY <1>1, <1>4, <1>5, Zenon DEF n, u

\* encode: the forms one behind the other, or nothing if a character has none.
LEMMA EncodeIs ==
  ASSUME NEW x \in Seq(Nat), NEW form
  PROVE  /\ CStr(x) \in Seq(Nat \ {0})
         /\ encode(x, form) = IF \A i \in 1 .. Len(CStr(x)) : Fits(CStr(x)[i], form)
                                THEN FlattenSeq(Forms(CStr(x), form)) ELSE <<>>
  <1> DEFINE s == CStr(x)
             n == Len(s)
             u == Forms(s, form)
  <1>0. s \in Seq(Nat) /\ \A i \in 1 .. n : s[i] # 0
    BY CStrIs, Zenon
  <1> HIDE DEF s
  <1>1. s \in Seq(Nat \ {0})
    BY <1>0
  <1>2. n \in Nat /\ \A i \in 1 .. n : s[i] \in Nat \ {0}
    BY <1>1
  <1>3. encode(x, form) = IF \E i \in 1 .. n : u[i] = <<>> THEN <<>> ELSE FlattenSeq(u)
    BY Zenon DEF encode, Forms, Enc, s
  <1>4. \A i \in 1 .. n : u[i] = Enc(s[i], form)
    BY Zenon DEF Forms
  <1> HIDE DEF n, u
  <1>5. \A i \in 1 .. n : u[i] = <<>> <=> ~Fits(s[i], form)
    BY <1>2, <1>4, EncIs, Zenon
  <1> QED BY <1>1, <1>3, <1>5, Zenon DEF s, n, u

\* decode puts a character before the rest.
LEMMA PutBefore ==
  ASSUME NEW a, NEW r, NEW c
  PROVE  [[ok |-> a, t |-> r] EXCEPT !.t = <<c>> \o @] = [ok |-> a, t |-> <<c>> \o r]
  <1> DEFINE x == [ok |-> a, t |-> r]
             y == <<c>> \o r
  <1>1. x.t = r
    OBVIOUS
  <1>3. [x EXCEPT !.t = y] = [ok |-> a, t |-> y]
    <2> HIDE DEF y
    <2> QED OBVIOUS
  <1> HIDE DEF x
  <1>2. [x EXCEPT !.t = <<c>> \o @] = [x EXCEPT !.t = y]
    BY <1>1, Zenon
  <1> QED BY <1>2, <1>3, Zenon DEF x, y

\* A text whose characters have a form, and none of them a half, comes back.
LEMMA TextBack ==
  ASSUME NEW s \in Seq(Nat \ {0}), NEW form,
         \A i \in 1 .. Len(s) : Fits(s[i], form) /\ (form = "utf8" \/ ~Half(s[i]))
  PROVE  decode(FlattenSeq(Forms(s, form)), form) = s
  <1> DEFINE n == Len(s)
             u == Forms(s, form)
             e == FlattenSeq(u)
             f == From(e, form)
             E(k) == End(u, k)
             Rest(k) == [ok |-> TRUE, t |-> SubSeq(s, k + 1, n)]
             T == {d \in 0 .. n : f[E(n - d) + 1] = Rest(n - d)}
  <1>0. n \in Nat /\ \A i \in 1 .. n : s[i] \in Nat \ {0}
    OBVIOUS
  <1>1. /\ u \in Seq(Seq(Nat \ {0})) /\ Len(u) = n
        /\ \A i \in 1 .. n : u[i] = Enc(s[i], form) /\ Len(Enc(s[i], form)) \in Nat \ {0}
    BY FormsAre, Zenon
  <1> HIDE DEF u
  <1>2. /\ e \in Seq(Nat \ {0})
        /\ E(0) = 0 /\ E(n) = Len(e)
        /\ \A k \in 0 .. n : E(k) \in Nat
        /\ \A k \in 1 .. n : /\ E(k) = E(k - 1) + Len(u[k]) /\ E(k) <= Len(e)
                             /\ \A j \in 1 .. Len(u[k]) : e[E(k - 1) + j] = u[k][j]
    <2>1. /\ e \in Seq(Nat \ {0})
          /\ E(0) = 0 /\ E(Len(u)) = Len(e)
          /\ \A k \in 0 .. Len(u) : E(k) \in Nat
          /\ \A k \in 1 .. Len(u) : /\ E(k) = E(k - 1) + Len(u[k]) /\ E(k) <= Len(e)
                                    /\ \A j \in 1 .. Len(u[k]) : e[E(k - 1) + j] = u[k][j]
      BY <1>1, Flattened
    <2> QED BY <1>1, <2>1, Zenon
  <1> HIDE DEF e, E
  <1>3. e \in Seq(Nat) /\ Len(e) \in Nat /\ \A i \in 1 .. Len(e) : e[i] # 0
    BY <1>2
  <1>4. CStr(e) = e
    BY <1>3, CStrIs, Zenon
  <1>5. \A i \in 1 .. Len(e) + 1 : f[i] = Onward(f, e, i, form)
    BY <1>3, FromIs, Zenon
  <1> HIDE DEF f, n
  <1>6. 0 \in T
    <2>1. n - 0 = n /\ Len(e) + 1 > Len(e) /\ Len(e) + 1 \in 1 .. Len(e) + 1 /\ 0 \in 0 .. n
      BY <1>0, <1>3
    <2>2. f[Len(e) + 1] = [ok |-> TRUE, t |-> <<>>]
      BY <1>5, <2>1, Zenon DEF Onward
    <2>3. SubSeq(s, n + 1, n) = <<>>
      BY <1>0
    <2> QED BY <1>2, <2>1, <2>2, <2>3, Zenon
  <1>7. ASSUME NEW d \in Nat, d < n, d \in T PROVE d + 1 \in T
    <2> DEFINE k == n - d
               p == E(k - 1) + 1
               c == s[k]
               l == Len(Enc(c, form))
    <2>1. k \in 1 .. n /\ k - 1 \in 0 .. n /\ k \in 0 .. n /\ n - (d + 1) = k - 1 /\ d + 1 \in 0 .. n /\ k - 1 + 1 = k
      BY <1>0, <1>7
    <2> HIDE DEF k
    <2>2. f[E(k) + 1] = Rest(k)
      BY <1>7, Zenon DEF k
    <2>3. c \in Nat \ {0} /\ Fits(c, form) /\ (form = "utf8" \/ ~Half(c)) /\ u[k] = Enc(c, form) /\ l \in Nat \ {0}
      BY <1>0, <1>1, <2>1, Zenon DEF n
    <2> HIDE DEF c
    <2>4. /\ E(k - 1) \in Nat /\ E(k) \in Nat /\ E(k) = E(k - 1) + l /\ E(k) <= Len(e)
          /\ \A j \in 1 .. l : e[E(k - 1) + j] = Enc(c, form)[j]
      BY <1>2, <2>1, <2>3, Zenon
    <2> HIDE DEF l
    <2>5. p \in Nat \ {0} /\ p + l - 1 <= Len(e) /\ p + l = E(k) + 1 /\ p \in 1 .. Len(e) + 1 /\ ~(p > Len(e)) /\ ~(l = 0)
      <3>1. E(k - 1) \in Nat /\ E(k) \in Nat /\ E(k) = E(k - 1) + l /\ E(k) <= Len(e) /\ l \in Nat \ {0} /\ Len(e) \in Nat
        BY <1>3, <2>3, <2>4, Zenon
      <3> QED BY <3>1
    <2>6. ASSUME NEW j \in 1 .. l PROVE e[p + j - 1] = Enc(c, form)[j]
      <3>1. p + j - 1 = E(k - 1) + j
        BY <2>3, <2>4
      <3> QED BY <2>4, <3>1, Zenon
    <2> HIDE DEF p
    <2>7. Dec(e, p, form) = [len |-> l, c |-> c]
      BY <1>2, <2>3, <2>5, <2>6, CharBack, Zenon DEF l
    <2>8. f[p] = [f[p + l] EXCEPT !.t = <<c>> \o @]
      <3>1. Dec(e, p, form).len = l /\ Dec(e, p, form).c = c
        BY <2>7
      <3> QED BY <1>5, <2>5, <3>1, Zenon DEF Onward
    <2>9. f[p] = [ok |-> TRUE, t |-> <<c>> \o SubSeq(s, k + 1, n)]
      <3>1. f[p + l] = Rest(k)
        BY <2>2, <2>5, Zenon
      <3> DEFINE r == SubSeq(s, k + 1, n)
      <3> HIDE DEF r
      <3>2. f[p] = [[ok |-> TRUE, t |-> r] EXCEPT !.t = <<c>> \o @]
        BY <2>8, <3>1, Zenon DEF r
      <3>3. [[ok |-> TRUE, t |-> r] EXCEPT !.t = <<c>> \o @] = [ok |-> TRUE, t |-> <<c>> \o r]
        BY PutBefore
      <3> QED BY <3>2, <3>3, Zenon DEF r
    <2>10. <<c>> \o SubSeq(s, k + 1, n) = SubSeq(s, k, n)
      <3>1. k \in 1 .. Len(s) /\ n = Len(s)
        BY <2>1 DEF n
      <3>2. <<s[k]>> \o SubSeq(s, k + 1, Len(s)) = SubSeq(s, k, Len(s))
        BY <3>1
      <3> QED BY <3>1, <3>2, Zenon DEF c
    <2>11. f[p] = Rest(k - 1)
      BY <2>1, <2>9, <2>10, Zenon
    <2> QED BY <2>1, <2>11, Zenon DEF p
  <1>8. n \in T
    <2>1. \A d \in 0 .. n : d \in T
      <3> HIDE DEF T
      <3> QED BY <1>0, <1>6, <1>7, CountUp
    <2>2. n \in 0 .. n
      BY <1>0
    <2> QED BY <2>1, <2>2, Zenon
  <1>9. f[1] = [ok |-> TRUE, t |-> s]
    <2>1. n - n = 0 /\ 0 + 1 = 1
      BY <1>0
    <2>2. SubSeq(s, 1, n) = s
      BY DEF n
    <2> QED BY <1>2, <1>8, <2>1, <2>2, Zenon
  <1>10. decode(e, form) = s
    <2>1. f[1].ok /\ f[1].t = s
      <3>1. [ok |-> TRUE, t |-> s].ok /\ [ok |-> TRUE, t |-> s].t = s
        OBVIOUS
      <3> QED BY <1>9, <3>1, Zenon
    <2> QED BY <1>4, <2>1, DecodeIs, Zenon DEF f
  <1> QED BY <1>10, Zenon DEF e, u

\* The text converted.
TextInv == text \in Seq(CodePoints)

\* Too large for a form, and half of a UTF-16 form, as the texts have them.
LEMMA Limits ==
  ASSUME NEW c \in CodePoints, c # 0
  PROVE  /\ c \in Nat \ {0}
         /\ Fits(c, "utf8") <=> c \notin {x \in CodePoints : x > 2147483647}
         /\ Fits(c, "utf16") <=> c \notin {x \in CodePoints : x > 983039}
         /\ Half(c) <=> c \in 55296 .. 57343
  <1>1. c \in Nat \ {0}
    BY SupportAssumption
  <1>2. Fits8(c) <=> c \notin {x \in CodePoints : x > 2147483647}
    BY <1>1, SMT DEF Fits8
  <1>3. Fits16(c) <=> c \notin {x \in CodePoints : x > 983039}
    BY <1>1, SMT DEF Fits16
  <1>4. Half(c) <=> c \in 55296 .. 57343
    BY <1>1, SMT DEF Half
  <1>5. (Fits(c, "utf8") <=> Fits8(c)) /\ (Fits(c, "utf16") <=> Fits16(c))
    BY DEF Fits
  <1> QED BY <1>1, <1>2, <1>3, <1>4, <1>5

\* Every text comes back from the forms its characters have.
LEMMA TextRight ==
  ASSUME TextInv
  PROVE  RoundTrip
  <1> DEFINE s == CStr(text)
             n == Len(s)
             L8 == {c \in CodePoints : c > 2147483647}
             L16 == {c \in CodePoints : c > 983039}
             H == 55296 .. 57343
             Has(S) == \E i \in 1 .. n : s[i] \in S
             u8 == encode(text, "utf8")
             u16 == encode(text, "utf16")
             e8 == FlattenSeq(Forms(s, "utf8"))
             e16 == FlattenSeq(Forms(s, "utf16"))
  <1>0. CodePoints \subseteq Nat
    BY SupportAssumption
  <1>1. s \in Seq(CodePoints) /\ \A i \in 1 .. n : s[i] # 0
    BY CStrIs, Zenon DEF TextInv
  <1>2. text \in Seq(Nat)
    <2>1. Len(text) \in Nat /\ text = [i \in 1 .. Len(text) |-> text[i]] /\ \A i \in 1 .. Len(text) : text[i] \in CodePoints
      BY DEF TextInv
    <2>2. text \in [1 .. Len(text) -> Nat]
      BY <1>0, <2>1
    <2> QED BY <2>1, <2>2, FcnIsSeq
  <1>3. \A form : /\ s \in Seq(Nat \ {0})
                  /\ encode(text, form) = IF \A i \in 1 .. n : Fits(s[i], form)
                                            THEN FlattenSeq(Forms(s, form)) ELSE <<>>
    BY <1>2, EncodeIs, Zenon
  <1> HIDE DEF s
  <1>4. s \in Seq(Nat) /\ CStr(s) = s
    <2>1. s \in Seq(Nat)
      BY <1>3
    <2> QED BY <1>1, <2>1, CStrIs, Zenon
  <1>5. \A form : encode(s, form) = encode(text, form)
    <2>1. \A form : encode(s, form) = IF \A i \in 1 .. Len(CStr(s)) : Fits(CStr(s)[i], form)
                                        THEN FlattenSeq(Forms(CStr(s), form)) ELSE <<>>
      BY <1>4, EncodeIs, Zenon
    <2> QED BY <1>3, <1>4, <2>1, Zenon
  <1>6. \A i \in 1 .. n : /\ Fits(s[i], "utf8") <=> s[i] \notin L8
                          /\ Fits(s[i], "utf16") <=> s[i] \notin L16
                          /\ Half(s[i]) <=> s[i] \in H
    <2>1. \A i \in 1 .. n : s[i] \in CodePoints
      BY <1>1
    <2>2. \A c \in CodePoints : c # 0 => /\ Fits(c, "utf8") <=> c \notin L8
                                         /\ Fits(c, "utf16") <=> c \notin L16
                                         /\ Half(c) <=> c \in H
      BY Limits
    <2> HIDE DEF L8, L16, H
    <2> QED BY <1>1, <2>1, <2>2, Zenon
  <1> HIDE DEF L8, L16, H, n
  <1>7. /\ Has(L8) => u8 = <<>>
        /\ ~Has(L8) => u8 = e8 /\ \A i \in 1 .. n : Fits(s[i], "utf8")
    BY <1>3, <1>6, Zenon
  <1>8. /\ Has(L16) => u16 = <<>>
        /\ ~Has(L16) => u16 = e16 /\ \A i \in 1 .. n : Fits(s[i], "utf16")
    BY <1>3, <1>6, Zenon
  <1>9. s \in Seq(Nat \ {0})
    BY <1>3
  <1>10. ASSUME ~Has(L8) PROVE decode(u8, "utf8") = s /\ utf8_to_16(u8) = u16
    <2>1. decode(e8, "utf8") = s
      BY <1>7, <1>9, <1>10, TextBack, Zenon DEF n
    <2>2. decode(u8, "utf8") = s
      BY <1>7, <1>10, <2>1, Zenon
    <2>3. utf8_to_16(u8) = encode(s, "utf16")
      BY <2>2, Zenon DEF utf8_to_16
    <2> QED BY <1>5, <2>2, <2>3, Zenon
  <1>11. ASSUME ~Has(L16), ~Has(H) PROVE decode(u16, "utf16") = s /\ utf16_to_8(u16) = u8
    <2>0. \A i \in 1 .. n : ~Half(s[i])
      BY <1>6, <1>11, Zenon
    <2>1. decode(e16, "utf16") = s
      BY <1>8, <1>9, <1>11, <2>0, TextBack, Zenon DEF n
    <2>2. decode(u16, "utf16") = s
      BY <1>8, <1>11, <2>1, Zenon
    <2>3. utf16_to_8(u16) = encode(s, "utf8")
      BY <2>2, Zenon DEF utf16_to_8
    <2> QED BY <1>5, <2>2, <2>3, Zenon
  <1>12. /\ IF Has(L8) THEN u8 = <<>> ELSE decode(u8, "utf8") = s /\ utf8_to_16(u8) = u16
         /\ IF Has(L16) THEN u16 = <<>> ELSE Has(H) \/ (decode(u16, "utf16") = s /\ utf16_to_8(u16) = u8)
    BY <1>7, <1>8, <1>10, <1>11, Zenon
  <1> HIDE DEF u8, u16, e8, e16
  <1> QED BY <1>12, SMT DEF RoundTrip, L8, L16, H, n, s, u8, u16

-----------------------------------------------------------------------------
(* The helpers together. *)

\* What the helpers keep from one call to the next, and their inputs.
HelperInv ==
  /\ KeepsInv /\ FmtInv /\ TextInv
  /\ part = "spec" => spec \in Specs
  /\ part = "clock" => clock \in Clocks

\* A character more.
LEMMA TextGrows ==
  ASSUME TextInv, TextNext
  PROVE  TextInv'
  BY DEF TextInv, TextNext

\* No part changes what another one keeps.
LEMMA HelperInductive == HelperInv /\ [BaseNext]_baseVars => HelperInv'
  <1> SUFFICES ASSUME HelperInv, [BaseNext]_baseVars PROVE HelperInv'
    OBVIOUS
  <1>1. UNCHANGED expectedVars => KeepsInv'
    BY DEF HelperInv, KeepsInv, Keeps, expectedVars
  <1>2. UNCHANGED fmtVars => FmtInv'
    BY DEF HelperInv, FmtInv, fmtVars
  <1>3. UNCHANGED text => TextInv'
    BY DEF HelperInv, TextInv
  <1>4. UNCHANGED <<part, spec, clock>> =>
          (part = "spec" => spec \in Specs)' /\ (part = "clock" => clock \in Clocks)'
    BY DEF HelperInv
  <1>5. CASE UNCHANGED <<part, expectedVars, supportVars>>
    <2>1. UNCHANGED expectedVars /\ UNCHANGED fmtVars /\ UNCHANGED text /\ UNCHANGED <<part, spec, clock>>
      BY <1>5, Zenon DEF supportVars, fmtVars
    <2> QED BY <1>1, <1>2, <1>3, <1>4, <2>1, Zenon DEF HelperInv
  <1>6. CASE ExpectedNext /\ UNCHANGED <<part, supportVars>>
    <2>1. UNCHANGED fmtVars /\ UNCHANGED text /\ UNCHANGED <<part, spec, clock>>
      BY <1>6, Zenon DEF supportVars, fmtVars
    <2>2. KeepsInv'
      BY <1>6, KeepsInductive, Zenon DEF HelperInv
    <2> QED BY <1>2, <1>3, <1>4, <2>1, <2>2, Zenon DEF HelperInv
  <1>7. CASE FmtNext /\ UNCHANGED <<part, expectedVars, spec, text, clock>>
    <2>1. UNCHANGED expectedVars /\ UNCHANGED text /\ UNCHANGED <<part, spec, clock>>
      BY <1>7, Zenon
    <2>2. FmtInv'
      BY <1>7, FmtInductive, Zenon DEF HelperInv
    <2> QED BY <1>1, <1>3, <1>4, <2>1, <2>2, Zenon DEF HelperInv
  <1>8. CASE TextNext /\ UNCHANGED <<part, expectedVars, fmtVars, spec, clock>>
    <2>1. UNCHANGED expectedVars /\ UNCHANGED fmtVars /\ UNCHANGED <<part, spec, clock>>
      BY <1>8, Zenon
    <2>2. TextInv'
      BY <1>8, TextGrows, Zenon DEF HelperInv
    <2> QED BY <1>1, <1>2, <1>4, <2>1, <2>2, Zenon DEF HelperInv
  <1>9. \/ UNCHANGED <<part, expectedVars, supportVars>>
        \/ ExpectedNext /\ UNCHANGED <<part, supportVars>>
        \/ FmtNext /\ UNCHANGED <<part, expectedVars, spec, text, clock>>
        \/ TextNext /\ UNCHANGED <<part, expectedVars, fmtVars, spec, clock>>
    <2>1. UNCHANGED baseVars => UNCHANGED <<part, expectedVars, supportVars>>
      BY Zenon DEF baseVars
    <2> QED BY <2>1, Zenon DEF BaseNext
  <1> QED BY <1>5, <1>6, <1>7, <1>8, <1>9, Zenon

\* The helpers are right for every size of their buffers, every text, every
\* format and every time: fmt returns what it was given, snprintf gets the
\* format asked for, texts come back from UTF-8 and UTF-16, deadlines are
\* proper times, and an expected's value or error is in one place.
THEOREM HelpersAlwaysRight == BaseSpec => []HelpersRight
  <1>1. BaseInit => HelperInv
    <2> SUFFICES ASSUME BaseInit PROVE HelperInv
      OBVIOUS
    <2>1. KeepsInv /\ FmtInv
      BY KeepsFirst, FmtFirst, Zenon DEF BaseInit
    <2>2. TextInv
      BY DEF BaseInit, TextInv
    <2>3. (part = "spec" => spec \in Specs) /\ (part = "clock" => clock \in Clocks)
      BY Zenon DEF BaseInit
    <2> QED BY <2>1, <2>2, <2>3, Zenon DEF HelperInv
  <1>2. HelperInv => HelpersRight
    BY HeldRight, FmtRight, TextRight, FormatsRight, ClockRight, Zenon DEF HelperInv, HelpersRight
  <1> QED BY <1>1, <1>2, HelperInductive, PTL DEF BaseSpec
=============================================================================
