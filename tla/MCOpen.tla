------------------------------- MODULE MCOpen -------------------------------
(***************************************************************************)
(* What is opened, shared and closed by name, each part on an instance of  *)
(* its own: segments with the mutexes, conditions and semaphores in them,  *)
(* the head of a ring, the tables of chunks, the handles of users, and on  *)
(* Windows the condition made of a semaphore and the segments.  The parts  *)
(* do not interact; part says which one moves.                             *)
(***************************************************************************)
EXTENDS SyncHandle, ConnInit, Endpoint, WinSync, WinSegment

VARIABLE part

MCObjs == {<<"p", 1>>, <<"p", 2>>, <<"q", 1>>}
MCSegHandles == {"p", "q"}

handleVars == <<segVars, syncVars>>
openVars   == <<part, handleVars, connVars, endpointVars, winVars, winSegVars>>

OpenInit ==
  /\ part \in {"handles", "ring", "chunks", "endpoints", "windows", "views"}
  /\ SyncInit /\ kind \in (IF part = "handles" THEN Kinds \cup {"shm"} ELSE {"shm"})
  /\ RingInit /\ ChunkInit /\ EndpointInit /\ WinInit
  /\ WinSegInit /\ (part # "views" => agreed = CHOOSE size \in WinSizes : TRUE)

HandleNext == \/ \E h \in SegHandles : HandleStep(h) /\ UNCHANGED syncVars
              \/ \E m \in Objs : SyncStep(m)

OpenNext ==
  \/ part = "handles" /\ HandleNext /\ UNCHANGED <<part, connVars, endpointVars, winVars, winSegVars>>
  \/ part = "ring" /\ RingNext /\ UNCHANGED <<part, handleVars, chunkVars, endpointVars, winVars, winSegVars>>
  \/ part = "chunks" /\ ChunkNext /\ UNCHANGED <<part, handleVars, ringVars, endpointVars, winVars, winSegVars>>
  \/ part = "endpoints" /\ EndpointNext /\ UNCHANGED <<part, handleVars, connVars, winVars, winSegVars>>
  \/ part = "windows" /\ WinNext /\ UNCHANGED <<part, handleVars, connVars, endpointVars, winSegVars>>
  \/ part = "views" /\ WinSegNext /\ UNCHANGED <<part, handleVars, connVars, endpointVars, winVars>>

\* The users of a name share one object, or count each other where Windows
\* shares it for them.
OneObject == (part = "handles" => ShareOne) /\ (part = "views" => WinCounts)

OpenSpec == OpenInit /\ [][OpenNext]_openVars
=============================================================================
