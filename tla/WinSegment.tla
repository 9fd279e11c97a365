----------------------------- MODULE WinSegment -----------------------------
(***************************************************************************)
(* Named shared memory on Windows (platform/win/shm_win.cpp), for one name *)
(* and the ids that are acquired for it.  The object is the kernel's: it   *)
(* goes with the last handle or view of it, so nothing is unlinked.  The   *)
(* count of users is in its memory, behind what a user takes for its size: *)
(* the size it has asked for, or, asked for 0, what there is in whole      *)
(* pages.  Everybody who gives a size gives the same one.                  *)
(***************************************************************************)
EXTENDS Integers, FiniteSets

CONSTANTS
  Mappers,   \* the ids that are acquired
  WinSizes,  \* the sizes users may agree on
  InfoSize,  \* sizeof(info_t), and its alignment
  Page       \* the size of a page

ASSUME WinSegmentAssumption ==
  /\ {InfoSize, Page} \subseteq Nat \ {0} /\ Page % InfoSize = 0
  /\ WinSizes \subseteq Nat \ {0} /\ IsFiniteSet(Mappers)

VARIABLES
  agreed,   \* the size users give, fixed in Init
  words,    \* what has been added to each place where a user may look for acc_
  viewer,   \* id -> does it have a handle, a view of the memory, and its size_
  stray     \* a view that its id does not know of keeps the object

winSegVars == <<agreed, words, viewer, stray>>

calc_size(size) == ((size - 1) \div InfoSize + 1) * InfoSize + InfoSize
acc_of(size) == calc_size(size) - InfoSize

RegionSize == ((calc_size(agreed) - 1) \div Page + 1) * Page

Unused == [at |-> "none", size |-> 0]
NoWords == [i \in 0 .. RegionSize + InfoSize |-> 0]

WinSegInit ==
  /\ agreed \in WinSizes
  /\ words = NoWords /\ stray = FALSE
  /\ viewer = [v \in Mappers |-> Unused]

Exists(others) == stray \/ \E v \in others : viewer[v].at # "none"

\* acquire: open wants an object, create none; the handle that create gets of
\* an object there was is closed again.
map_open(v, mode, size) ==
  /\ viewer[v].at = "none"
  /\ (mode = "open") => Exists(Mappers)
  /\ (mode = "create") => ~Exists(Mappers)
  /\ viewer' = [viewer EXCEPT ![v] = [at |-> "opened", size |-> size]]
  /\ UNCHANGED <<agreed, words, stray>>

\* Slip: the count belongs to the size.
SlipMap(v) ==
  /\ viewer[v].at = "opened"
  /\ LET size == IF viewer[v].size = 0 THEN RegionSize ELSE viewer[v].size IN
     /\ viewer' = [viewer EXCEPT ![v] = [at |-> "mapped", size |-> size]]
     /\ words' = [words EXCEPT ![acc_of(size)] = @ + 1]
  /\ UNCHANGED <<agreed, stray>>

\* get_mem: who has no size takes what there is, less the count.
map_view(v) ==
  /\ viewer[v].at = "opened"
  /\ LET size == IF viewer[v].size = 0 THEN RegionSize - InfoSize ELSE viewer[v].size IN
     /\ viewer' = [viewer EXCEPT ![v] = [at |-> "mapped", size |-> size]]
     /\ words' = [words EXCEPT ![acc_of(size)] = @ + 1]
  /\ UNCHANGED <<agreed, stray>>

\* VirtualQuery fails: the view stays, unknown to the id.
map_fails(v) ==
  /\ viewer[v].at = "opened" /\ stray' = TRUE
  /\ UNCHANGED <<agreed, words, viewer>>

win_get_ref(v) == words[acc_of(viewer[v].size)]

\* release, and remove(id), which is the same here: the count first, then the
\* view and the handle.  With the last of them the memory is gone.
close_view(v) ==
  /\ viewer[v].at # "none"
  /\ viewer' = [viewer EXCEPT ![v] = Unused]
  /\ words' = IF ~Exists(Mappers \ {v}) THEN NoWords
              ELSE IF viewer[v].at = "mapped" THEN [words EXCEPT ![acc_of(viewer[v].size)] = @ - 1]
              ELSE words
  /\ UNCHANGED <<agreed, stray>>

WinSegNext == \E v \in Mappers :
  \/ \E size \in {0, agreed} : map_open(v, "open", size)
  \/ \E mode \in {"create", "create|open"} : map_open(v, mode, agreed)
  \/ map_view(v) \/ map_fails(v) \/ close_view(v)

-----------------------------------------------------------------------------
(* Properties. *)

\* Who uses the memory is counted, in a place inside it, from 0 for every new
\* object, and all count alike if they all give the size or the size fills its
\* pages; otherwise who gives no size counts apart from who does.
WinCounts ==
  LET users == {v \in Mappers : viewer[v].at = "mapped"}
      fills == calc_size(agreed) = RegionSize
  IN \A v \in users :
       /\ acc_of(viewer[v].size) + InfoSize <= RegionSize
       /\ win_get_ref(v) = Cardinality(IF fills THEN users ELSE {u \in users : viewer[u].size = viewer[v].size})
=============================================================================
