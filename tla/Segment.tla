------------------------------ MODULE Segment ------------------------------
(***************************************************************************)
(* Named shared memory on POSIX: shm::acquire, get_mem, release and remove *)
(* of platform/posix/shm_posix.cpp under the shm::handle of shm.cpp, for   *)
(* one name and the handles that open it.  The kernel (shm_open, ftruncate,*)
(* mmap, shm_unlink) is external: a segment lives on after its name is     *)
(* unlinked, until nobody maps it.  Every user opens the name with the same*)
(* size.  A handle is one id_info_t:                                       *)
(*   null     no id                                                        *)
(*   opened   shm_open done, fd held, nothing mapped                       *)
(*   mapped   sized and mapped, not yet counted                            *)
(*   held     counted in acc_                                              *)
(*   failed   get_mem failed: id without memory                            *)
(*   unlink   acc_ given up, shm_unlink of the name still to come          *)
(***************************************************************************)
EXTENDS Integers, FiniteSets

CONSTANTS SegHandles,   \* the handles that open the name
          MaxSegs    \* bound: segments created in a run

ASSUME SegmentAssumption == MaxSegs \in Nat \ {0}

VARIABLES kind,      \* what the segment holds, fixed in Init
          linked,    \* the segment the name is bound to, 0 when there is none
          created,   \* segments created so far
          segs,      \* segment -> its length, acc_ and the object in it
          hnd,       \* handle -> its state and its segment
          raced      \* history: two users' open and last close overlapped

segVars == <<kind, linked, created, segs, hnd, raced>>

OpenModes == {"open", "create", "create|open"}
Users(s) == {h \in SegHandles : hnd[h].seg = s /\ hnd[h].at \in {"opened", "mapped", "held"}}
Nobody == <<"none", 0>>
Null == [at |-> "null", seg |-> 0, mode |-> "create|open"]

SegInit == /\ linked = 0
           /\ created = 0
           /\ segs = [s \in 1..MaxSegs |->
                        [sized |-> FALSE, acc |-> 0, init |-> FALSE, owner |-> Nobody]]
           /\ hnd = [h \in SegHandles |-> Null]
           /\ raced = FALSE

\* A handle whose release is still to unlink the name, so that whoever opens
\* it now may be left with a segment nobody else can find.
GivingUp(h) == \E g \in SegHandles \ {h} : hnd[g].at = "unlink"

\* shm::acquire: O_EXCL fails on a bound name, plain open on an unbound one.
shm_open(h, mode) ==
  /\ hnd[h].at = "null"
  /\ IF linked = 0
       THEN IF mode = "open"
              THEN UNCHANGED <<linked, created, hnd, raced>>
              ELSE /\ created < MaxSegs
                   /\ created' = created + 1
                   /\ linked' = created'
                   /\ hnd' = [hnd EXCEPT ![h] = [at |-> "opened", seg |-> created', mode |-> mode]]
                   /\ raced' = (raced \/ GivingUp(h))
       ELSE IF mode = "create"
              THEN UNCHANGED <<linked, created, hnd, raced>>
              ELSE /\ hnd' = [hnd EXCEPT ![h] = [at |-> "opened", seg |-> linked, mode |-> mode]]
                   /\ raced' = (raced \/ GivingUp(h))
                   /\ UNCHANGED <<linked, created>>
  /\ UNCHANGED <<kind, segs>>

\* get_mem up to mmap: a user that only opens takes the length it finds and
\* refuses an empty segment; the others set the length.
get_mem(h) ==
  /\ hnd[h].at = "opened"
  /\ LET s == hnd[h].seg IN
       IF hnd[h].mode = "open" /\ ~segs[s].sized
         THEN /\ hnd' = [hnd EXCEPT ![h].at = "failed"]
              /\ UNCHANGED segs
         ELSE /\ segs' = [segs EXCEPT ![s].sized = TRUE]
              /\ hnd' = [hnd EXCEPT ![h].at = "mapped"]
  /\ UNCHANGED <<kind, linked, created, raced>>

\* get_mem's last step, acc_.fetch_add.  An opener that is counted while
\* another one has been told it is alone and is still initialising is a race.
count(h, initialising) ==
  /\ hnd[h].at = "mapped"
  /\ segs' = [segs EXCEPT ![hnd[h].seg].acc = @ + 1]
  /\ hnd' = [hnd EXCEPT ![h].at = "held"]
  /\ raced' = (raced \/ initialising)
  /\ UNCHANGED <<kind, linked, created>>

get_ref(h) == IF hnd[h].at = "held" THEN segs[hnd[h].seg].acc ELSE 0

\* release: a handle without memory is only deleted; the user that finds the
\* count at 1 goes on to unlink the name.
release(h) ==
  /\ hnd[h].at \in {"held", "failed"}
  /\ LET s == hnd[h].seg
         last == hnd[h].at = "held" /\ segs[s].acc <= 1 IN
       /\ segs' = [segs EXCEPT ![s].acc = IF hnd[h].at = "held" THEN @ - 1 ELSE @]
       /\ hnd' = [hnd EXCEPT ![h] = IF last THEN [@ EXCEPT !.at = "unlink"] ELSE Null]
       /\ raced' = (raced \/ (last /\ Users(s) # {h}))
  /\ UNCHANGED <<kind, linked, created>>

\* remove(id): gives the count up and unlinks whatever the count says.
remove(h) ==
  /\ hnd[h].at \in {"held", "failed"}
  /\ LET s == hnd[h].seg IN
       /\ segs' = [segs EXCEPT ![s].acc = IF hnd[h].at = "held" THEN @ - 1 ELSE @]
       /\ hnd' = [hnd EXCEPT ![h].at = "unlink"]
       /\ raced' = (raced \/ Users(s) \ {h} # {})
  /\ UNCHANGED <<kind, linked, created>>

\* shm_unlink at the end of release and remove: by name, so it takes away the
\* segment the name is bound to now, whoever created it.
unlink(h) ==
  /\ hnd[h].at = "unlink"
  /\ linked' = 0
  /\ hnd' = [hnd EXCEPT ![h] = Null]
  /\ UNCHANGED <<kind, created, segs, raced>>

\* remove(name), handle::clear_storage: the name goes, mapped segments stay.
clear_storage ==
  /\ linked # 0
  /\ raced' = (raced \/ \E h \in SegHandles : hnd[h].at # "null")
  /\ linked' = 0
  /\ UNCHANGED <<kind, created, segs, hnd>>

\* The bare handle of shm.cpp: acquire (a handle that is in use is released
\* first, which is release and unlink followed by acquire), release, clear
\* and the static clear_storage.
HandleStep(h) ==
  /\ kind = "shm"
  /\ \/ \E mode \in OpenModes : shm_open(h, mode)
     \/ get_mem(h)
     \/ count(h, FALSE)
     \/ release(h)
     \/ remove(h)
     \/ unlink(h)
     \/ clear_storage
=============================================================================
