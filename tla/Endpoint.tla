------------------------------ MODULE Endpoint ------------------------------
(***************************************************************************)
(* Handles of ipc::route and the roles they take: connect, reconnect,      *)
(* disconnect, destroy and release of chan_wrapper, down to the accesses   *)
(* they make to shared memory.  That a route has one sender is left to     *)
(* sender_checker::flag_, which ready_sending sets and shut_sending        *)
(* clears; every handle remembers in sender_flag_ that it has set it.      *)
(*                                                                         *)
(* An operation is a sequence of steps, kept in todo.  A receiver's        *)
(* connection bit is the handle itself.                                    *)
(***************************************************************************)
EXTENDS Sequences, Naturals, FiniteSets

CONSTANTS
  Handles,
  Names       \* names of routes

Modes == {"sender", "receiver"}
None == "none"

ASSUME EndpointAssumption == None \notin Names

VARIABLES
  flag, cc,  \* of each route: sender_checker::flag_, the connected receivers
  name,      \* conn_info_head::name_ of a handle, None before it is built
  sending,   \* queue_base::sender_flag_
  mode, up,  \* chan_wrapper::mode_ and connected_
  want,      \* the name connect was called with, until the handle is built
  todo,      \* what is left of the operation each handle is in
  kept,      \* auxiliary: no handle has changed its role so far
  orderly    \* auxiliary: no handle was released or lost so far

route  == <<flag, cc>>
handle == <<name, sending, mode, up, want>>
aux    == <<kept, orderly>>
endpointVars   == <<flag, cc, name, sending, mode, up, want, todo, kept, orderly>>

EndpointInit ==
  /\ flag = [n \in Names |-> FALSE]
  /\ cc = [n \in Names |-> {}]
  /\ name = [h \in Handles |-> None]
  /\ sending = [h \in Handles |-> FALSE]
  /\ mode = [h \in Handles |-> "sender"]
  /\ up = [h \in Handles |-> FALSE]
  /\ want = [h \in Handles |-> None]
  /\ todo = [h \in Handles |-> <<>>]
  /\ kept = TRUE /\ orderly = TRUE

Idle(h)  == todo[h] = <<>>
Built(h) == name[h] # None

-----------------------------------------------------------------------------
(* The operations, as steps to be taken. *)

\* detail_impl::disconnect, detail_impl::reconnect and detail_impl::connect.
Leaving == <<"shut", "leave">>
Entering(m) == IF m = "receiver" THEN <<"shut", "join">> ELSE <<"leave", "ready">>
Building(m) ==
  IF m = "receiver" THEN <<"build", "shut", "join">> ELSE <<"build", "leave", "ready">>

Begin(h, steps) == todo' = [todo EXCEPT ![h] = steps]

\* chan_wrapper::connect, which clears an old connection first.
Connect(h, n, m) ==
  /\ Idle(h)
  /\ Begin(h, IF Built(h) THEN Leaving \o Building(m) ELSE Building(m))
  /\ want' = [want EXCEPT ![h] = n]
  /\ mode' = [mode EXCEPT ![h] = m]
  /\ kept' = (kept /\ ~Built(h))
  /\ UNCHANGED <<route, name, sending, up, orderly>>

\* chan_wrapper::reconnect, unless it is connected in that mode.
Reconnect(h, m) ==
  /\ Idle(h) /\ Built(h)
  /\ ~(up[h] /\ mode[h] = m)
  /\ Begin(h, Entering(m))
  /\ mode' = [mode EXCEPT ![h] = m]
  /\ kept' = (kept /\ m = mode[h])
  /\ UNCHANGED <<route, name, sending, up, want, orderly>>

\* A sender that disconnects gives its role up, as far as others can see.
Disconnect(h) ==
  /\ Idle(h) /\ Built(h)
  /\ Begin(h, Leaving)
  /\ up' = [up EXCEPT ![h] = FALSE]
  /\ kept' = (kept /\ mode[h] = "receiver")
  /\ UNCHANGED <<route, name, sending, mode, want, orderly>>

Destroy(h) ==
  /\ Idle(h) /\ Built(h)
  /\ Begin(h, <<"shut", "leave", "free">>)
  /\ UNCHANGED <<route, handle, aux>>

\* "Release memory without waiting for the connection to disconnect"; a
\* process that dies leaves the same behind.
Release(h) ==
  /\ Idle(h) /\ Built(h)
  /\ Begin(h, <<"free">>)
  /\ orderly' = FALSE
  /\ UNCHANGED <<route, handle, kept>>

\* send, for a route with receivers.
Send(h) ==
  /\ Idle(h) /\ Built(h)
  /\ Begin(h, <<"ready", "push">>)
  /\ kept' = (kept /\ mode[h] = "sender")
  /\ UNCHANGED <<route, handle, orderly>>

\* recv finds that force_push has disconnected the handle and reconnects it.
Recv(h) ==
  /\ Idle(h) /\ Built(h)
  /\ up[h] /\ mode[h] = "receiver" /\ h \notin cc[name[h]]
  /\ Begin(h, Entering("receiver"))
  /\ UNCHANGED <<route, handle, aux>>

-----------------------------------------------------------------------------
(* The steps. *)

At(h, step) == ~Idle(h) /\ Head(todo[h]) = step
Done(h) == todo' = [todo EXCEPT ![h] = Tail(@)]

\* Slip: remembering, but not telling.
ShutForgets(h) ==
  /\ At(h, "shut")
  /\ Done(h)
  /\ UNCHANGED <<route, handle>>

\* queue_base::shut_sending: sender_flag_ stays as it is.
Shut(h) ==
  /\ At(h, "shut")
  /\ flag' = IF sending[h] THEN [flag EXCEPT ![name[h]] = FALSE] ELSE flag
  /\ Done(h)
  /\ UNCHANGED <<cc, handle>>

\* Slip: the handle forgets its bit, the ring does not.
LeaveForgets(h) ==
  /\ At(h, "leave")
  /\ Done(h)
  /\ UNCHANGED <<route, handle>>

\* disconnect_receiver.
Leave(h) ==
  /\ At(h, "leave")
  /\ cc' = [cc EXCEPT ![name[h]] = @ \ {h}]
  /\ Done(h)
  /\ UNCHANGED <<flag, handle>>

\* detail_impl::connect makes the conn_info_t, if there is none.
Build(h) ==
  /\ At(h, "build")
  /\ name' = [name EXCEPT ![h] = IF Built(h) THEN @ ELSE want[h]]
  /\ want' = [want EXCEPT ![h] = None]
  /\ Done(h)
  /\ UNCHANGED <<route, sending, mode, up>>

Join(h) ==
  /\ At(h, "join")
  /\ cc' = [cc EXCEPT ![name[h]] = @ \cup {h}]
  /\ up' = [up EXCEPT ![h] = TRUE]
  /\ Done(h)
  /\ UNCHANGED <<flag, name, sending, mode, want>>

\* Slip: a load in place of the test_and_set, and the flag never set.
ReadyByLoad(h) ==
  LET ok == sending[h] \/ ~flag[name[h]] IN
  /\ At(h, "ready")
  /\ sending' = [sending EXCEPT ![h] = ok]
  /\ IF Len(todo[h]) > 1
       THEN Begin(h, IF ok THEN <<"push">> ELSE <<>>) /\ UNCHANGED up
       ELSE Done(h) /\ up' = [up EXCEPT ![h] = ok]
  /\ UNCHANGED <<route, name, mode, want>>

\* queue_base::ready_sending, at the end of reconnect and at the start of
\* send, which fails if it does.
Ready(h) ==
  LET ok == sending[h] \/ ~flag[name[h]] IN
  /\ At(h, "ready")
  /\ flag' = IF sending[h] THEN flag ELSE [flag EXCEPT ![name[h]] = TRUE]
  /\ sending' = [sending EXCEPT ![h] = ok]
  /\ IF Len(todo[h]) > 1
       THEN Begin(h, IF ok THEN <<"push">> ELSE <<>>) /\ UNCHANGED up
       ELSE Done(h) /\ up' = [up EXCEPT ![h] = ok]
  /\ UNCHANGED <<cc, name, mode, want>>

\* push ends, or force_push, which disconnects the receivers in its way.
Push(h) ==
  /\ At(h, "push")
  /\ \E late \in SUBSET cc[name[h]] : cc' = [cc EXCEPT ![name[h]] = @ \ late]
  /\ Done(h)
  /\ UNCHANGED <<flag, handle>>

\* The handle is gone.  A new one in its place knows nothing of it.
Free(h) ==
  /\ At(h, "free")
  /\ name' = [name EXCEPT ![h] = None]
  /\ sending' = [sending EXCEPT ![h] = FALSE]
  /\ up' = [up EXCEPT ![h] = FALSE]
  /\ mode' = [mode EXCEPT ![h] = "sender"]
  /\ Done(h)
  /\ UNCHANGED <<route, want>>

Calling(h) ==
  \/ \E m \in Modes : Reconnect(h, m) \/ \E n \in Names : Connect(h, n, m)
  \/ Disconnect(h) \/ Destroy(h) \/ Release(h) \/ Send(h) \/ Recv(h)
Working(h) ==
  /\ Shut(h) \/ Leave(h) \/ Build(h) \/ Join(h) \/ Ready(h) \/ Push(h) \/ Free(h)
  /\ UNCHANGED aux

EndpointNext == \E h \in Handles : Calling(h) \/ Working(h)
EndpointSpec == EndpointInit /\ [][EndpointNext]_endpointVars

-----------------------------------------------------------------------------
(* Properties. *)

\* "A route could only be used in 1 to N (one producer/writer to multi
\* consumers/readers)": two handles are never in push of the same route,
\* whose index is written without regard to a second writer.
OneProducer == \A h, g \in Handles :
  At(h, "push") /\ At(g, "push") /\ name[h] = name[g] => h = g

\* So it is as long as every handle keeps to the role it was connected in: no
\* sender disconnects, no receiver sends, none connects anew in another mode.
\* Handles that are destroyed, released or lost do no harm.
OneWriter == kept => OneProducer

\* What is left of an operation, for a handle that keeps its role.
SenderSteps == {<<"build", "leave", "ready">>, <<"leave", "ready">>, <<"ready">>,
                <<"ready", "push">>, <<"push">>}
ReceiverSteps == {<<"build", "shut", "join">>, <<"shut", "join">>, <<"join">>,
                  <<"shut", "leave">>, <<"leave">>}
LastSteps == {<<"shut", "leave", "free">>, <<"leave", "free">>, <<"free">>}

\* The type invariant, for the same.
EndpointTypeOK ==
  /\ flag \in [Names -> BOOLEAN] /\ cc \in [Names -> SUBSET Handles]
  /\ name \in [Handles -> Names \cup {None}] /\ want \in [Handles -> Names \cup {None}]
  /\ sending \in [Handles -> BOOLEAN] /\ up \in [Handles -> BOOLEAN]
  /\ mode \in [Handles -> Modes]
  /\ todo \in [Handles -> SenderSteps \cup ReceiverSteps \cup LastSteps \cup {<<>>}]

\* The handle has set the flag and not cleared it.
Holds(h) == sending[h] /\ todo[h] \notin {<<"leave", "free">>, <<"free">>}

\* What a handle may do goes with its role.
KeepsRole(h) ==
  /\ todo[h] \in SenderSteps => mode[h] = "sender"
  /\ todo[h] \in ReceiverSteps => mode[h] = "receiver"
  /\ mode[h] = "receiver" => ~sending[h]
  /\ todo[h] # <<>> => (Built(h) <=> Head(todo[h]) # "build")
  /\ todo[h] # <<>> /\ Head(todo[h]) = "build" => want[h] \in Names
  /\ ~Built(h) => ~sending[h]
  /\ todo[h] = <<"push">> => sending[h]

\* Whoever may push holds the flag, and nobody else holds it.
Roles ==
  /\ EndpointTypeOK
  /\ \A h \in Handles : KeepsRole(h) /\ (Holds(h) => flag[name[h]])
  /\ \A h, g \in Handles : Holds(h) /\ Holds(g) /\ name[h] = name[g] => h = g

\* The inductive invariant behind OneWriter.
RoleInv == kept => Roles

\* No handle leaves its role behind, unless it was released or lost.  When no
\* handle holds the sender's role, the flag does not say that one does, so
\* that the route can be sent on; and every connection bit belongs to a handle
\* that receives on that route or is on its way in or out, whatever roles the
\* handles change to: push would otherwise wait for a reader that never reads.
NoGhost == orderly => \A n \in Names :
  /\ kept /\ (\A h \in Handles : name[h] = n => ~sending[h]) => ~flag[n]
  /\ \A h \in cc[n] : name[h] = n /\ (Idle(h) => mode[h] = "receiver")
=============================================================================
