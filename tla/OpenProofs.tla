----------------------------- MODULE OpenProofs -----------------------------
(***************************************************************************)
(* What is opened by name, for any number of handles, objects and routes.  *)
(*                                                                         *)
(* A route has one producer, if its handles keep to the role they were     *)
(* first connected in, handles destroyed, released or lost in between      *)
(* included: RoleInv says that who may push holds the flag.  And no handle *)
(* that ends in order leaves its role behind: GhostInv says that a flag    *)
(* that is set has a holder and that a connection bit has a receiver.      *)
(*                                                                         *)
(* Before that: handles are told apart by their identities, a ring that is *)
(* constructed by one handle at a time keeps their bits (HeadInv), and the *)
(* threads of a process agree on the tables of chunks (TableInv).          *)
(*                                                                         *)
(* After that: a segment is counted by who holds it and a bound name has a *)
(* user (SegInv), so nothing is left behind (LeftInv); while nothing has   *)
(* raced or crossed, who has an object open works in the one segment of    *)
(* the name, which is initialised by the only one that may (CalmSync).     *)
(* On Windows every place where users count holds their number (WinSegInv).*)
(***************************************************************************)
EXTENDS MCOpen, RingArith, SequenceTheorems, FiniteSetTheorems, TLAPS

AllSteps == SenderSteps \cup ReceiverSteps \cup LastSteps \cup {<<>>}

-----------------------------------------------------------------------------
(* The operations whose next step is a given one. *)

\* shut_sending comes in reconnect, in disconnect and in destroy.
LEMMA ShutSteps ==
  ASSUME NEW t \in AllSteps, t # <<>>, Head(t) = "shut"
  PROVE  t \in {<<"shut", "join">>, <<"shut", "leave">>, <<"shut", "leave", "free">>}
  <1>1. CASE t \in SenderSteps
    BY <1>1 DEF SenderSteps
  <1>2. CASE t \in ReceiverSteps
    BY <1>2 DEF ReceiverSteps
  <1>3. CASE t \in LastSteps
    BY <1>3 DEF LastSteps
  <1> QED BY <1>1, <1>2, <1>3 DEF AllSteps

\* disconnect_receiver comes in reconnect, in disconnect and in destroy.
LEMMA LeaveSteps ==
  ASSUME NEW t \in AllSteps, t # <<>>, Head(t) = "leave"
  PROVE  t \in {<<"leave", "ready">>, <<"leave">>, <<"leave", "free">>}
  <1>1. CASE t \in SenderSteps
    BY <1>1 DEF SenderSteps
  <1>2. CASE t \in ReceiverSteps
    BY <1>2 DEF ReceiverSteps
  <1>3. CASE t \in LastSteps
    BY <1>3 DEF LastSteps
  <1> QED BY <1>1, <1>2, <1>3 DEF AllSteps

\* The conn_info_t is made before reconnect.
LEMMA BuildSteps ==
  ASSUME NEW t \in AllSteps, t # <<>>, Head(t) = "build"
  PROVE  t \in {<<"build", "leave", "ready">>, <<"build", "shut", "join">>}
  <1>1. CASE t \in SenderSteps
    BY <1>1 DEF SenderSteps
  <1>2. CASE t \in ReceiverSteps
    BY <1>2 DEF ReceiverSteps
  <1>3. CASE t \in LastSteps
    BY <1>3 DEF LastSteps
  <1> QED BY <1>1, <1>2, <1>3 DEF AllSteps

\* ready_sending ends reconnect and begins send.
LEMMA ReadySteps ==
  ASSUME NEW t \in AllSteps, t # <<>>, Head(t) = "ready"
  PROVE  t \in {<<"ready">>, <<"ready", "push">>}
  <1>1. CASE t \in SenderSteps
    BY <1>1 DEF SenderSteps
  <1>2. CASE t \in ReceiverSteps
    BY <1>2 DEF ReceiverSteps
  <1>3. CASE t \in LastSteps
    BY <1>3 DEF LastSteps
  <1> QED BY <1>1, <1>2, <1>3 DEF AllSteps

\* The receiver's bit is the last thing connect sets.
LEMMA JoinSteps ==
  ASSUME NEW t \in AllSteps, t # <<>>, Head(t) = "join"
  PROVE  t \in {<<"join">>}
  <1>1. CASE t \in SenderSteps
    BY <1>1 DEF SenderSteps
  <1>2. CASE t \in ReceiverSteps
    BY <1>2 DEF ReceiverSteps
  <1>3. CASE t \in LastSteps
    BY <1>3 DEF LastSteps
  <1> QED BY <1>1, <1>2, <1>3 DEF AllSteps

\* push ends send.
LEMMA PushSteps ==
  ASSUME NEW t \in AllSteps, t # <<>>, Head(t) = "push"
  PROVE  t \in {<<"push">>}
  <1>1. CASE t \in SenderSteps
    BY <1>1 DEF SenderSteps
  <1>2. CASE t \in ReceiverSteps
    BY <1>2 DEF ReceiverSteps
  <1>3. CASE t \in LastSteps
    BY <1>3 DEF LastSteps
  <1> QED BY <1>1, <1>2, <1>3 DEF AllSteps

\* destroy and release end with the handle.
LEMMA FreeSteps ==
  ASSUME NEW t \in AllSteps, t # <<>>, Head(t) = "free"
  PROVE  t \in {<<"free">>}
  <1>1. CASE t \in SenderSteps
    BY <1>1 DEF SenderSteps
  <1>2. CASE t \in ReceiverSteps
    BY <1>2 DEF ReceiverSteps
  <1>3. CASE t \in LastSteps
    BY <1>3 DEF LastSteps
  <1> QED BY <1>1, <1>2, <1>3 DEF AllSteps

\* What is left after the first step.
LEMMA Tails ==
  /\ Tail(<<"build", "leave", "ready">>) = <<"leave", "ready">>
  /\ Tail(<<"build", "shut", "join">>) = <<"shut", "join">>
  /\ Tail(<<"shut", "leave", "free">>) = <<"leave", "free">>
  /\ Tail(<<"shut", "join">>) = <<"join">>
  /\ Tail(<<"shut", "leave">>) = <<"leave">> /\ Tail(<<"leave">>) = <<>>
  /\ Tail(<<"leave", "ready">>) = <<"ready">>
  /\ Tail(<<"leave", "free">>) = <<"free">>
  /\ Tail(<<"ready", "push">>) = <<"push">> /\ Len(<<"ready", "push">>) = 2
  /\ Tail(<<"ready">>) = <<>> /\ Len(<<"ready">>) = 1
  /\ Tail(<<"join">>) = <<>> /\ Tail(<<"push">>) = <<>> /\ Tail(<<"free">>) = <<>>
  OBVIOUS

\* Whose steps they are.
LEMMA StepKinds ==
  /\ \A t \in {<<"build", "leave", "ready">>, <<"leave", "ready">>, <<"ready">>,
               <<"ready", "push">>, <<"push">>} :
       t \in SenderSteps /\ t \notin ReceiverSteps /\ t # <<>>
  /\ \A t \in {<<"build", "shut", "join">>, <<"shut", "join">>, <<"join">>,
               <<"shut", "leave">>, <<"leave">>} :
       t \in ReceiverSteps /\ t \notin SenderSteps /\ t # <<>>
  /\ \A t \in {<<"shut", "leave", "free">>, <<"leave", "free">>, <<"free">>} :
       t \in LastSteps /\ t \notin SenderSteps /\ t \notin ReceiverSteps /\ t # <<>>
  /\ <<>> \notin SenderSteps /\ <<>> \notin ReceiverSteps /\ <<>> # <<"push">>
  BY DEF SenderSteps, ReceiverSteps, LastSteps

\* Which of them come before the conn_info_t is made, or end in push.
LEMMA Heads ==
  /\ \A t \in {<<"build", "leave", "ready">>, <<"build", "shut", "join">>} : Head(t) = "build"
  /\ \A t \in {<<"leave", "ready">>, <<"ready">>, <<"push">>, <<"shut", "join">>, <<"join">>,
               <<"ready", "push">>, <<"shut", "leave">>, <<"leave">>, <<"leave", "free">>, <<"free">>} : Head(t) # "build"
  /\ \A t \in {<<"leave", "ready">>, <<"ready">>, <<"shut", "join">>, <<"join">>,
               <<"build", "leave", "ready">>, <<"build", "shut", "join">>,
               <<"ready", "push">>, <<"shut", "leave">>, <<"leave">>, <<"leave", "free">>, <<"free">>} : t # <<"push">>
  /\ \A t \in {<<"leave", "ready">>, <<"ready">>, <<>>, <<"push">>, <<"leave">>} :
       t \notin {<<"leave", "free">>, <<"free">>}
  OBVIOUS

-----------------------------------------------------------------------------
(* The invariant. *)

\* Nothing is open and no handle is built at first.
LEMMA RoleInit == EndpointInit => Roles
  BY EndpointAssumption DEF EndpointInit, Roles, EndpointTypeOK, KeepsRole, Holds, Built, Modes,
     SenderSteps, ReceiverSteps, LastSteps

\* A step that leaves the flags and the other handles alone, and after which
\* the handle does not hold a flag it did not hold before.
LEMMA Elsewhere ==
  ASSUME Roles, NEW h \in Handles, EndpointTypeOK', KeepsRole(h)', flag' = flag,
         \A g \in Handles \ {h} : /\ todo'[g] = todo[g] /\ name'[g] = name[g]
                                 /\ sending'[g] = sending[g] /\ mode'[g] = mode[g]
                                 /\ want'[g] = want[g],
         Holds(h)' => Holds(h) /\ name'[h] = name[h]
  PROVE  Roles'
  <1>1. \A g \in Handles : KeepsRole(g)'
    BY DEF Roles, KeepsRole, Built
  <1>2. \A g \in Handles : Holds(g)' => Holds(g) /\ name'[g] = name[g]
    BY DEF Holds
  <1> QED BY <1>1, <1>2 DEF Roles

\* The calls of a handle that keeps its role: nothing changes but what it is
\* going to do.
LEMMA Calls ==
  ASSUME Roles, NEW h \in Handles, Calling(h), kept'
  PROVE  Roles'
  <1> USE DEF Begin, Idle, Built, route, handle
  <1>t. EndpointTypeOK /\ KeepsRole(h)
    BY DEF Roles
  <1>1. ASSUME NEW m \in Modes, NEW n \in Names, Connect(h, n, m)
        PROVE  Roles'
    <2>1. EndpointTypeOK'
      BY <1>1, <1>t DEF Connect, Building, EndpointTypeOK, Modes, SenderSteps, ReceiverSteps
    <2>2. KeepsRole(h)'
      <3>1. /\ mode'[h] = m /\ ~sending'[h] /\ name'[h] = None /\ want'[h] = n
            /\ todo'[h] = Building(m)
        BY <1>1, <1>t DEF Connect, EndpointTypeOK, KeepsRole
      <3>2. CASE m = "receiver"
        BY <3>1, <3>2, StepKinds, Heads DEF KeepsRole, Building
      <3>3. CASE m = "sender"
        BY <3>1, <3>3, StepKinds, Heads DEF KeepsRole, Building
      <3> QED BY <3>2, <3>3 DEF Modes
    <2>3. ~Holds(h)'
      BY <1>1, <1>t DEF Connect, KeepsRole, Holds
    <2> QED BY <1>1, <1>t, <2>1, <2>2, <2>3, Elsewhere DEF Connect, EndpointTypeOK
  <1>2. CASE Destroy(h)
    <2>1. EndpointTypeOK'
      BY <1>2, <1>t DEF Destroy, EndpointTypeOK, LastSteps
    <2>2. KeepsRole(h)'
      BY <1>2, <1>t DEF Destroy, EndpointTypeOK, KeepsRole, SenderSteps, ReceiverSteps
    <2>3. Holds(h)' => Holds(h)
      BY <1>2, <1>t DEF Destroy, Holds
    <2> QED BY <1>2, <1>t, <2>1, <2>2, <2>3, Elsewhere DEF Destroy, EndpointTypeOK
  <1>3. CASE Release(h)
    <2>1. EndpointTypeOK'
      BY <1>3, <1>t DEF Release, EndpointTypeOK, LastSteps
    <2>2. KeepsRole(h)'
      BY <1>3, <1>t DEF Release, EndpointTypeOK, KeepsRole, SenderSteps, ReceiverSteps
    <2>3. Holds(h)' => Holds(h)
      BY <1>3, <1>t DEF Release, Holds
    <2> QED BY <1>3, <1>t, <2>1, <2>2, <2>3, Elsewhere DEF Release, EndpointTypeOK
  <1>4. CASE Send(h)
    <2>1. EndpointTypeOK'
      BY <1>4, <1>t DEF Send, EndpointTypeOK, SenderSteps
    <2>2. KeepsRole(h)'
      <3>1. /\ mode'[h] = "sender" /\ name' = name /\ want' = want /\ sending' = sending
            /\ todo'[h] = <<"ready", "push">>
        BY <1>4, <1>t DEF Send, EndpointTypeOK
      <3> QED BY <1>4, <1>t, <3>1, StepKinds, Heads DEF KeepsRole, Send
    <2>3. Holds(h)' => Holds(h)
      BY <1>4, <1>t DEF Send, Holds
    <2> QED BY <1>4, <1>t, <2>1, <2>2, <2>3, Elsewhere DEF Send, EndpointTypeOK
  <1>5. CASE Recv(h)
    <2>1. EndpointTypeOK'
      BY <1>5, <1>t DEF Recv, Entering, EndpointTypeOK, ReceiverSteps
    <2>2. KeepsRole(h)'
      BY <1>5, <1>t DEF Recv, Entering, EndpointTypeOK, KeepsRole, SenderSteps
    <2>3. Holds(h)' => Holds(h)
      BY <1>5, <1>t DEF Recv, Entering, Holds
    <2> QED BY <1>5, <1>t, <2>1, <2>2, <2>3, Elsewhere DEF Recv, EndpointTypeOK
  <1>6. ASSUME NEW m \in Modes, Reconnect(h, m)
        PROVE  Roles'
    <2>1. mode' = mode /\ m = mode[h]
      BY <1>6, <1>t DEF Reconnect, EndpointTypeOK
    <2>2. EndpointTypeOK'
      BY <1>6, <1>t, <2>1 DEF Reconnect, Entering, EndpointTypeOK, Modes, SenderSteps, ReceiverSteps
    <2>3. KeepsRole(h)'
      BY <1>6, <1>t, <2>1 DEF Reconnect, Entering, EndpointTypeOK, KeepsRole, Modes, SenderSteps, ReceiverSteps
    <2>4. Holds(h)' => Holds(h)
      BY <1>6, <1>t DEF Reconnect, Entering, Holds
    <2> QED BY <1>6, <1>t, <2>1, <2>2, <2>3, <2>4, Elsewhere DEF Reconnect, EndpointTypeOK
  <1>7. CASE Disconnect(h)
    <2>1. EndpointTypeOK'
      BY <1>7, <1>t DEF Disconnect, Leaving, EndpointTypeOK, ReceiverSteps
    <2>2. KeepsRole(h)'
      <3>1. /\ mode'[h] = "receiver" /\ mode' = mode
            /\ name' = name /\ want' = want /\ sending' = sending
            /\ todo'[h] = <<"shut", "leave">>
        BY <1>7, <1>t DEF Disconnect, Leaving, EndpointTypeOK
      <3> QED BY <1>7, <1>t, <3>1, StepKinds, Heads DEF KeepsRole, Disconnect
    <2>3. Holds(h)' => Holds(h)
      BY <1>7, <1>t DEF Disconnect, Leaving, Holds
    <2> QED BY <1>7, <1>t, <2>1, <2>2, <2>3, Elsewhere DEF Disconnect, EndpointTypeOK
  <1> QED BY <1>1, <1>2, <1>3, <1>4, <1>5, <1>6, <1>7 DEF Calling

\* The steps.  Only ready_sending makes a handle hold a flag, one that was
\* clear, and only the holder clears it.
LEMMA Steps ==
  ASSUME Roles, NEW h \in Handles, Working(h)
  PROVE  Roles'
  <1> USE DEF At, Done, Begin, Idle, Built, route, handle
  <1>t. EndpointTypeOK /\ KeepsRole(h) /\ todo[h] \in AllSteps
    BY DEF Roles, EndpointTypeOK, AllSteps
  <1>1. CASE Leave(h)
    <2>1. todo[h] \in {<<"leave", "ready">>, <<"leave">>, <<"leave", "free">>}
      BY <1>1, <1>t, LeaveSteps DEF Leave
    <2>a. todo'[h] = Tail(todo[h])
      BY <1>1, <1>t DEF Leave, EndpointTypeOK
    <2>b. \/ todo[h] = <<"leave", "ready">> /\ todo'[h] = <<"ready">>
          \/ todo[h] = <<"leave">> /\ todo'[h] = <<>>
          \/ todo[h] = <<"leave", "free">> /\ todo'[h] = <<"free">>
      BY <2>1, <2>a, Tails
    <2>2. EndpointTypeOK'
      BY <1>1, <1>t, <2>1, Tails DEF Leave, EndpointTypeOK, SenderSteps, ReceiverSteps, LastSteps
    <2>3. KeepsRole(h)'
      <3>1. mode' = mode /\ sending' = sending /\ name' = name /\ want' = want
        BY <1>1, <1>t DEF Leave
      <3> QED BY <1>t, <2>b, <3>1, StepKinds, Heads, EndpointAssumption DEF KeepsRole
    <2>4. Holds(h)' => Holds(h) /\ name'[h] = name[h]
      <3>1. sending' = sending /\ name' = name
        BY <1>1 DEF Leave
      <3>2. todo'[h] \notin {<<"leave", "free">>, <<"free">>}
              => todo[h] \notin {<<"leave", "free">>, <<"free">>}
        BY <2>b, Heads
      <3> QED BY <3>1, <3>2 DEF Holds
    <2> QED BY <1>1, <1>t, <2>2, <2>3, <2>4, Elsewhere DEF Leave, EndpointTypeOK
  <1>2. CASE Build(h)
    <2>1. todo[h] \in {<<"build", "leave", "ready">>, <<"build", "shut", "join">>}
      BY <1>2, <1>t, BuildSteps DEF Build
    <2>a. todo'[h] = Tail(todo[h])
      BY <1>2, <1>t DEF Build, EndpointTypeOK
    <2>b. \/ todo[h] = <<"build", "leave", "ready">> /\ todo'[h] = <<"leave", "ready">>
          \/ todo[h] = <<"build", "shut", "join">> /\ todo'[h] = <<"shut", "join">>
      BY <2>1, <2>a, Tails
    <2>2. EndpointTypeOK'
      BY <1>2, <1>t, <2>1, Tails DEF Build, EndpointTypeOK, SenderSteps, ReceiverSteps, LastSteps
    <2>3. KeepsRole(h)'
      <3>1. mode' = mode /\ sending' = sending /\ name'[h] \in Names
        BY <1>2, <1>t, <2>1, Heads, StepKinds DEF Build, EndpointTypeOK, KeepsRole
      <3> QED BY <1>t, <2>b, <3>1, StepKinds, Heads, EndpointAssumption DEF KeepsRole
    <2>4. Holds(h)' => Holds(h) /\ name'[h] = name[h]
      BY <1>2, <1>t, <2>b, Heads DEF Build, EndpointTypeOK, KeepsRole, Holds
    <2> QED BY <1>2, <1>t, <2>2, <2>3, <2>4, Elsewhere DEF Build, EndpointTypeOK
  <1>3. CASE Join(h)
    <2>1. todo[h] \in {<<"join">>}
      BY <1>3, <1>t, JoinSteps DEF Join
    <2>a. todo'[h] = Tail(todo[h])
      BY <1>3, <1>t DEF Join, EndpointTypeOK
    <2>b. todo[h] = <<"join">> /\ todo'[h] = <<>>
      BY <2>1, <2>a, Tails
    <2>2. EndpointTypeOK'
      BY <1>3, <1>t, <2>1, Tails DEF Join, EndpointTypeOK, SenderSteps, ReceiverSteps, LastSteps
    <2>3. KeepsRole(h)'
      <3>1. mode' = mode /\ sending' = sending /\ name' = name /\ want' = want
        BY <1>3, <1>t DEF Join
      <3> QED BY <1>t, <2>b, <3>1, StepKinds, Heads, EndpointAssumption DEF KeepsRole
    <2>4. Holds(h)' => Holds(h) /\ name'[h] = name[h]
      BY <1>3, <1>t, <2>b, Heads DEF Join, EndpointTypeOK, KeepsRole, Holds
    <2> QED BY <1>3, <1>t, <2>2, <2>3, <2>4, Elsewhere DEF Join, EndpointTypeOK
  <1>4. CASE Push(h)
    <2>1. todo[h] \in {<<"push">>}
      BY <1>4, <1>t, PushSteps DEF Push
    <2>a. todo'[h] = Tail(todo[h])
      BY <1>4, <1>t DEF Push, EndpointTypeOK
    <2>b. todo[h] = <<"push">> /\ todo'[h] = <<>>
      BY <2>1, <2>a, Tails
    <2>2. EndpointTypeOK'
      BY <1>4, <1>t, <2>1, Tails DEF Push, EndpointTypeOK, SenderSteps, ReceiverSteps, LastSteps
    <2>3. KeepsRole(h)'
      <3>1. mode' = mode /\ sending' = sending /\ name' = name /\ want' = want
        BY <1>4, <1>t DEF Push
      <3> QED BY <1>t, <2>b, <3>1, StepKinds, Heads, EndpointAssumption DEF KeepsRole
    <2>4. Holds(h)' => Holds(h) /\ name'[h] = name[h]
      BY <1>4, <1>t, <2>b, Heads DEF Push, EndpointTypeOK, KeepsRole, Holds
    <2> QED BY <1>4, <1>t, <2>2, <2>3, <2>4, Elsewhere DEF Push, EndpointTypeOK
  <1>5. CASE Free(h)
    <2>1. todo[h] \in {<<"free">>}
      BY <1>5, <1>t, FreeSteps DEF Free
    <2>a. todo'[h] = Tail(todo[h])
      BY <1>5, <1>t DEF Free, EndpointTypeOK
    <2>b. todo[h] = <<"free">> /\ todo'[h] = <<>>
      BY <2>1, <2>a, Tails
    <2>2. EndpointTypeOK'
      BY <1>5, <1>t, <2>1, Tails DEF Free, EndpointTypeOK, SenderSteps, ReceiverSteps, LastSteps, Modes
    <2>3. KeepsRole(h)'
      <3>1. mode'[h] = "sender" /\ ~sending'[h] /\ name'[h] = None
        BY <1>5, <1>t DEF Free, EndpointTypeOK
      <3> QED BY <1>t, <2>b, <3>1, StepKinds, Heads, EndpointAssumption DEF KeepsRole
    <2>4. Holds(h)' => Holds(h) /\ name'[h] = name[h]
      BY <1>5, <1>t, <2>b, Heads DEF Free, EndpointTypeOK, KeepsRole, Holds
    <2> QED BY <1>5, <1>t, <2>2, <2>3, <2>4, Elsewhere DEF Free, EndpointTypeOK
  <1>6. CASE Shut(h)
    <2>1. todo[h] \in {<<"shut", "join">>, <<"shut", "leave">>, <<"shut", "leave", "free">>}
      BY <1>6, <1>t, ShutSteps DEF Shut
    <2>a. todo'[h] = Tail(todo[h])
      BY <1>6, <1>t DEF Shut, EndpointTypeOK
    <2>b. \/ todo[h] = <<"shut", "join">> /\ todo'[h] = <<"join">>
          \/ todo[h] = <<"shut", "leave">> /\ todo'[h] = <<"leave">>
          \/ todo[h] = <<"shut", "leave", "free">> /\ todo'[h] = <<"leave", "free">>
      BY <2>1, <2>a, Tails
    <2>2. EndpointTypeOK'
      BY <1>6, <1>t, <2>1, Tails DEF Shut, EndpointTypeOK, SenderSteps, ReceiverSteps, LastSteps
    <2>3. KeepsRole(h)'
      <3>1. mode' = mode /\ sending' = sending /\ name' = name /\ want' = want
        BY <1>6, <1>t DEF Shut
      <3> QED BY <1>t, <2>b, <3>1, StepKinds, Heads, EndpointAssumption DEF KeepsRole
    <2>4. CASE ~sending[h]
      <3>1. flag' = flag /\ ~Holds(h)'
        BY <1>6, <2>4 DEF Shut, Holds
      <3> QED BY <1>6, <1>t, <2>2, <2>3, <3>1, Elsewhere DEF Shut, EndpointTypeOK
    <2>5. CASE sending[h]
      <3>1. todo[h] = <<"shut", "leave", "free">> /\ Holds(h)
        BY <1>t, <2>1, <2>5 DEF KeepsRole, ReceiverSteps, Holds
      <3>2. ~Holds(h)'
        BY <1>6, <1>t, <3>1, Tails DEF Shut, Holds, EndpointTypeOK
      <3>3. \A g \in Handles \ {h} : Holds(g)' => Holds(g) /\ name[g] # name[h] /\ name'[g] = name[g]
        BY <1>6, <1>t, <3>1 DEF Shut, Holds, EndpointTypeOK, Roles
      <3>4. \A g \in Handles : Holds(g)' => flag'[name'[g]]
        BY <1>6, <1>t, <3>2, <3>3 DEF Shut, EndpointTypeOK, Roles
      <3>5. \A g \in Handles : KeepsRole(g)'
        BY <1>6, <1>t, <2>3 DEF Shut, EndpointTypeOK, Roles, KeepsRole
      <3> QED BY <2>2, <3>2, <3>3, <3>4, <3>5 DEF Roles
    <2> QED BY <2>4, <2>5, <1>t DEF EndpointTypeOK
  <1>7. CASE Ready(h)
    <2>1. todo[h] \in {<<"ready">>, <<"ready", "push">>}
      BY <1>7, <1>t, ReadySteps DEF Ready
    <2>2. todo'[h] \in {<<>>, <<"push">>} /\ (todo'[h] = <<"push">> => sending'[h])
      <3>1. CASE todo[h] = <<"ready">>
        <4>1. todo'[h] = Tail(todo[h])
          BY <1>7, <1>t, <3>1, Tails DEF Ready, EndpointTypeOK
        <4> QED BY <3>1, <4>1, Tails
      <3>2. CASE todo[h] = <<"ready", "push">>
        <4> DEFINE ok == sending[h] \/ ~flag[name[h]]
        <4>0. Len(todo[h]) > 1
          BY <3>2, Tails
        <4>1. /\ todo' = [todo EXCEPT ![h] = IF ok THEN <<"push">> ELSE <<>>]
              /\ sending' = [sending EXCEPT ![h] = ok]
          BY <1>7, <4>0 DEF Ready
        <4>2. todo'[h] = (IF ok THEN <<"push">> ELSE <<>>) /\ sending'[h] = ok
          BY <1>t, <4>1 DEF EndpointTypeOK
        <4> HIDE DEF ok
        <4> QED BY <4>2
      <3> QED BY <2>1, <3>1, <3>2
    <2>n. name[h] \in Names /\ mode[h] = "sender"
      BY <1>t, <2>1, SMTT(40) DEF KeepsRole, EndpointTypeOK, SenderSteps
    <2>3. EndpointTypeOK'
      <3>1. todo' \in [Handles -> AllSteps]
        BY <1>7, <1>t, <2>2 DEF Ready, EndpointTypeOK, AllSteps, SenderSteps
      <3> QED BY <1>7, <1>t, <2>n, <3>1 DEF Ready, EndpointTypeOK, AllSteps
    <2>4. KeepsRole(h)'
      <3>1. mode' = mode /\ name' = name /\ want' = want
        BY <1>7 DEF Ready
      <3> QED BY <1>t, <2>2, <2>n, <3>1, StepKinds, Heads, EndpointAssumption DEF KeepsRole
    <2>5. \A g \in Handles \ {h} : (Holds(g)' <=> Holds(g)) /\ name'[g] = name[g]
      BY <1>7, <1>t DEF Ready, EndpointTypeOK, Holds
    <2>6. \A g \in Handles : KeepsRole(g)'
      BY <1>7, <1>t, <2>4 DEF Ready, EndpointTypeOK, Roles, KeepsRole
    <2>7. CASE sending[h] \/ flag[name[h]]
      <3>1. flag' = flag /\ (Holds(h)' => Holds(h)) /\ name'[h] = name[h]
        BY <1>7, <1>t, <2>1, <2>7, <2>n DEF Ready, EndpointTypeOK, Holds
      <3> QED BY <1>7, <1>t, <2>3, <2>4, <3>1, Elsewhere DEF Ready, EndpointTypeOK
    <2>8. CASE ~sending[h] /\ ~flag[name[h]]
      <3>1. \A g \in Handles \ {h} : Holds(g) => name[g] # name[h]
        BY <2>8 DEF Roles
      <3>2. flag' = [flag EXCEPT ![name[h]] = TRUE] /\ name' = name
        BY <1>7, <2>8 DEF Ready
      <3>3. \A g \in Handles : Holds(g)' => flag'[name'[g]]
        BY <1>t, <2>5, <2>n, <3>1, <3>2 DEF EndpointTypeOK, Roles
      <3>4. \A g, k \in Handles : Holds(g)' /\ Holds(k)' /\ name'[g] = name'[k] => g = k
        BY <2>5, <3>1, <3>2 DEF Roles
      <3> QED BY <2>3, <2>6, <3>3, <3>4 DEF Roles
    <2> QED BY <2>7, <2>8
  <1> QED BY <1>1, <1>2, <1>3, <1>4, <1>5, <1>6, <1>7 DEF Working

\* The flag has at most one holder, and whoever may push is it, as long as
\* handles keep their role.
THEOREM RoleInvariance == EndpointSpec => []RoleInv
  <1>1. EndpointInit => RoleInv
    BY RoleInit DEF RoleInv
  <1>2. ASSUME RoleInv, [EndpointNext]_endpointVars PROVE RoleInv'
    <2> SUFFICES ASSUME kept' PROVE Roles'
      BY DEF RoleInv
    <2>1. kept
      BY <1>2 DEF EndpointNext, endpointVars, Calling, Working, aux, Connect, Reconnect, Disconnect,
                  Destroy, Release, Send, Recv
    <2>2. CASE EndpointNext
      BY <1>2, <2>1, <2>2, Calls, Steps DEF EndpointNext, RoleInv
    <2>3. CASE UNCHANGED endpointVars
      BY <1>2, <2>1, <2>3 DEF endpointVars, RoleInv, Roles, EndpointTypeOK, KeepsRole, Holds, Built
    <2> QED BY <1>2, <2>2, <2>3
  <1> QED BY <1>1, <1>2, PTL DEF EndpointSpec

\* "A route could only be used in 1 to N": two handles are never in push of
\* the same route, as long as each keeps to the role it was connected in.
THEOREM RouteOneProducer == EndpointSpec => []OneWriter
  <1>1. RoleInv => OneWriter
    <2> SUFFICES ASSUME Roles, NEW h \in Handles, NEW g \in Handles,
                        At(h, "push"), At(g, "push"), name[h] = name[g]
                 PROVE  h = g
      BY DEF OneWriter, OneProducer, RoleInv
    <2>1. \A k \in {h, g} : todo[k] = <<"push">>
      BY PushSteps DEF At, Idle, Roles, EndpointTypeOK, AllSteps
    <2>2. Holds(h) /\ Holds(g)
      BY <2>1 DEF Roles, KeepsRole, Holds
    <2> QED BY <2>2 DEF Roles
  <1> QED BY <1>1, RoleInvariance, PTL
-----------------------------------------------------------------------------
(* Nothing is left behind: the flag. *)

\* A flag that is set has a handle that holds it.
FlagsHeld == \A n \in Names : flag[n] => \E h \in Handles : name[h] = n /\ Holds(h)

\* A step that sets no flag and after which every handle holds what it held.
LEMMA StillHeld ==
  ASSUME FlagsHeld, \A n \in Names : flag'[n] => flag[n],
         \A g \in Handles : Holds(g) => Holds(g)' /\ name'[g] = name[g]
  PROVE  FlagsHeld'
  BY DEF FlagsHeld

\* No call but release makes a handle forget the flag it holds.
LEMMA CallsKeepFlags ==
  ASSUME Roles, FlagsHeld, NEW h \in Handles, Calling(h), kept', orderly'
  PROVE  FlagsHeld'
  <1>t. todo \in [Handles -> AllSteps]
    BY DEF Roles, EndpointTypeOK, AllSteps
  <1>1. ~Release(h)
    BY DEF Release
  <1>2. flag' = flag /\ name' = name /\ sending' = sending
    BY <1>1 DEF Calling, Connect, Reconnect, Disconnect, Destroy, Send, Recv, route, handle
  <1>3. \A g \in Handles : g # h => todo'[g] = todo[g]
    BY <1>t DEF Calling, Connect, Reconnect, Disconnect, Destroy, Release, Send, Recv, Begin
  <1>4. todo'[h] \notin {<<"leave", "free">>, <<"free">>}
    <2>1. ASSUME NEW m \in Modes, NEW n \in Names, Connect(h, n, m)
          PROVE  todo'[h] \notin {<<"leave", "free">>, <<"free">>}
      <3>1. ~Built(h)
        BY <2>1 DEF Connect
      <3> QED BY <2>1, <3>1, <1>t DEF Connect, Begin, Building
    <2>2. ASSUME NEW m \in Modes, Reconnect(h, m)
          PROVE  todo'[h] \notin {<<"leave", "free">>, <<"free">>}
      BY <2>2, <1>t DEF Reconnect, Begin, Entering
    <2>3. CASE Disconnect(h)
      BY <2>3, <1>t DEF Disconnect, Begin, Leaving
    <2>4. CASE Destroy(h)
      BY <2>4, <1>t DEF Destroy, Begin
    <2>5. CASE Send(h)
      BY <2>5, <1>t DEF Send, Begin
    <2>6. CASE Recv(h)
      BY <2>6, <1>t DEF Recv, Begin, Entering
    <2> QED BY <1>1, <2>1, <2>2, <2>3, <2>4, <2>5, <2>6 DEF Calling
  <1>5. \A g \in Handles : Holds(g) => Holds(g)'
    BY <1>2, <1>3, <1>4 DEF Holds
  <1> QED BY <1>2, <1>5, StillHeld

\* shut_sending clears the flag of the handle that holds it, ready_sending
\* sets one that the handle holds from then on.
LEMMA StepsKeepFlags ==
  ASSUME Roles, FlagsHeld, NEW h \in Handles, Working(h)
  PROVE  FlagsHeld'
  <1> USE DEF At, Done, Begin, Idle, Built, route, handle
  <1>t. EndpointTypeOK /\ KeepsRole(h) /\ todo[h] \in AllSteps
    BY DEF Roles, EndpointTypeOK, AllSteps
  <1>o. \A g \in Handles : g # h => todo'[g] = todo[g] /\ sending'[g] = sending[g] /\ name'[g] = name[g]
    BY <1>t DEF Working, Shut, Leave, Build, Join, Ready, Push, Free, EndpointTypeOK
  <1>g. \A g \in Handles : g # h => (Holds(g)' <=> Holds(g))
    BY <1>o DEF Holds
  <1>1. CASE Leave(h) \/ Join(h) \/ Push(h) \/ Build(h)
    <2>1. flag' = flag /\ sending' = sending
      BY <1>1 DEF Leave, Join, Push, Build
    <2>2. Holds(h) => name'[h] = name[h]
      BY <1>1, <1>t DEF Leave, Join, Push, Build, Holds, KeepsRole, EndpointTypeOK
    <2>3. todo'[h] = Tail(todo[h]) /\ todo[h] # <<>> /\ Head(todo[h]) \in {"leave", "join", "push", "build"}
      BY <1>1, <1>t DEF Leave, Join, Push, Build, EndpointTypeOK
    <2>4. todo[h] \in {<<"leave", "ready">>, <<"leave">>, <<"leave", "free">>, <<"join">>, <<"push">>,
                       <<"build", "leave", "ready">>, <<"build", "shut", "join">>}
      BY <1>t, <2>3, LeaveSteps, JoinSteps, PushSteps, BuildSteps
    <2>5. todo[h] \notin {<<"leave", "free">>, <<"free">>}
            => todo'[h] \in {<<"ready">>, <<>>, <<"leave", "ready">>, <<"shut", "join">>}
      BY <2>3, <2>4, Tails
    <2>6. Holds(h) => Holds(h)'
      BY <2>1, <2>5, SMTT(40) DEF Holds
    <2> QED BY <2>1, <2>2, <2>6, <1>g, <1>o, StillHeld
  <1>2. CASE Free(h)
    <2>1. todo[h] = <<"free">> /\ flag' = flag
      BY <1>2, <1>t, FreeSteps DEF Free
    <2>2. ~Holds(h)
      BY <2>1 DEF Holds
    <2> QED BY <2>1, <2>2, <1>g, <1>o, StillHeld
  <1>3. CASE Shut(h)
    <2>1. CASE ~sending[h]
      <3>1. flag' = flag /\ ~Holds(h)
        BY <1>3, <2>1 DEF Shut, Holds
      <3> QED BY <3>1, <1>g, <1>o, StillHeld
    <2>2. CASE sending[h]
      <3>1. name[h] \in Names
        BY <1>t, <2>2 DEF KeepsRole, EndpointTypeOK
      <3>2. flag' = [flag EXCEPT ![name[h]] = FALSE]
        BY <1>3, <2>2 DEF Shut
      <3>3. ~flag'[name[h]] /\ \A n \in Names : n # name[h] => flag'[n] = flag[n]
        BY <1>t, <3>1, <3>2 DEF EndpointTypeOK
      <3>4. ASSUME NEW n \in Names, flag'[n] PROVE \E g \in Handles : name'[g] = n /\ Holds(g)'
        <4>1. n # name[h] /\ flag[n]
          BY <3>3, <3>4
        <4>2. PICK g \in Handles : name[g] = n /\ Holds(g)
          BY <4>1 DEF FlagsHeld
        <4>3. g # h
          BY <4>1, <4>2
        <4> QED BY <4>2, <4>3, <1>g, <1>o
      <3> QED BY <3>4 DEF FlagsHeld
    <2> QED BY <2>1, <2>2
  <1>4. CASE Ready(h)
    <2>1. todo[h] \in {<<"ready">>, <<"ready", "push">>}
      BY <1>4, <1>t, ReadySteps DEF Ready
    <2>2. todo'[h] \in {<<>>, <<"push">>}
      <3>1. CASE todo[h] = <<"ready">>
        <4>1. todo'[h] = Tail(todo[h])
          BY <1>4, <1>t, <3>1, Tails DEF Ready, EndpointTypeOK
        <4> QED BY <3>1, <4>1, Tails
      <3>2. CASE todo[h] = <<"ready", "push">>
        <4>1. Len(todo[h]) > 1
          BY <3>2, Tails
        <4> QED BY <1>4, <1>t, <4>1 DEF Ready, EndpointTypeOK
      <3> QED BY <2>1, <3>1, <3>2
    <2>3. todo'[h] \notin {<<"leave", "free">>, <<"free">>}
      BY <2>2, Heads
    <2>4. name[h] \in Names /\ name' = name
      BY <1>4, <1>t, <2>1 DEF Ready, KeepsRole, EndpointTypeOK, SenderSteps
    <2>5. CASE sending[h]
      <3>1. flag' = flag /\ sending'[h]
        BY <1>4, <1>t, <2>5 DEF Ready, EndpointTypeOK
      <3>2. Holds(h)'
        BY <3>1, <2>3 DEF Holds
      <3> QED BY <3>1, <3>2, <2>4, <1>g, <1>o, StillHeld
    <2>6. CASE ~sending[h] /\ flag[name[h]]
      <3>1. flag' = flag /\ ~Holds(h)
        BY <1>4, <1>t, <2>4, <2>6 DEF Ready, EndpointTypeOK, Holds
      <3> QED BY <3>1, <2>4, <1>g, <1>o, StillHeld
    <2>7. CASE ~sending[h] /\ ~flag[name[h]]
      <3>1. flag' = [flag EXCEPT ![name[h]] = TRUE] /\ sending'[h]
        BY <1>4, <1>t, <2>7 DEF Ready, EndpointTypeOK
      <3>2. Holds(h)' /\ ~Holds(h)
        BY <3>1, <2>3, <2>7 DEF Holds
      <3>3. ASSUME NEW n \in Names, flag'[n] PROVE \E g \in Handles : name'[g] = n /\ Holds(g)'
        <4>1. CASE n = name[h]
          BY <4>1, <3>2, <2>4
        <4>2. CASE n # name[h]
          <5>1. flag[n]
            BY <4>2, <3>1, <3>3, <1>t DEF EndpointTypeOK
          <5>2. PICK g \in Handles : name[g] = n /\ Holds(g)
            BY <5>1 DEF FlagsHeld
          <5> QED BY <5>2, <4>2, <1>g, <2>4
        <4> QED BY <4>1, <4>2
      <3> QED BY <3>3 DEF FlagsHeld
    <2> QED BY <2>5, <2>6, <2>7
  <1> QED BY <1>1, <1>2, <1>3, <1>4 DEF Working
-----------------------------------------------------------------------------
(* Nothing is left behind: the connection bits, whatever the roles. *)

\* What is left of connect, for a handle that was connected before.
MoveSteps == {<<"shut", "leave", "build", "leave", "ready">>, <<"leave", "build", "leave", "ready">>,
              <<"shut", "leave", "build", "shut", "join">>, <<"leave", "build", "shut", "join">>}
AnySteps == AllSteps \cup MoveSteps

\* Operations that will clear the handle's bit, and that will set it.
LeavePending == MoveSteps \cup
  {<<"build", "leave", "ready">>, <<"leave", "ready">>, <<"shut", "leave">>, <<"leave">>,
   <<"shut", "leave", "free">>, <<"leave", "free">>}
JoinPending ==
  {<<"shut", "leave", "build", "shut", "join">>, <<"leave", "build", "shut", "join">>,
   <<"build", "shut", "join">>, <<"shut", "join">>, <<"join">>}

\* A handle has a bit on its own route only, as a receiver or on the way out.
Bits(h) ==
  /\ \A n \in Names : h \in cc[n] => /\ name[h] = n /\ todo[h] # <<"free">>
                                     /\ mode[h] = "receiver" \/ todo[h] \in LeavePending
  /\ todo[h] \in JoinPending => mode[h] = "receiver"

BitTypes ==
  /\ cc \in [Names -> SUBSET Handles] /\ mode \in [Handles -> Modes]
  /\ name \in [Handles -> Names \cup {None}] /\ want \in [Handles -> Names \cup {None}]
  /\ todo \in [Handles -> AnySteps]

AllBits == BitTypes /\ \A h \in Handles : Bits(h)

\* shut_sending and the making of the conn_info_t neither end an operation
\* nor are its way out or in.
LEMMA ShutOrBuild ==
  ASSUME NEW t \in AnySteps, t # <<>>, Head(t) \in {"shut", "build"}
  PROVE  /\ Tail(t) \in AnySteps /\ Tail(t) # <<"free">>
         /\ t \in LeavePending => Tail(t) \in LeavePending
         /\ Tail(t) \in JoinPending => t \in JoinPending
  <1>1. t \in {<<"shut", "leave", "build", "leave", "ready">>, <<"shut", "leave", "build", "shut", "join">>,
               <<"shut", "join">>, <<"shut", "leave">>, <<"shut", "leave", "free">>,
               <<"build", "leave", "ready">>, <<"build", "shut", "join">>}
    <2>1. CASE t \in MoveSteps
      BY <2>1 DEF MoveSteps
    <2> QED BY <2>1, ShutSteps, BuildSteps DEF AnySteps
  <1>2. CASE t = <<"shut", "leave", "build", "leave", "ready">>
    <2>1. Tail(t) = <<"leave", "build", "leave", "ready">>
      BY <1>2
    <2> QED BY <2>1 DEF AnySteps, MoveSteps, LeavePending, JoinPending
  <1>3. CASE t = <<"shut", "leave", "build", "shut", "join">>
    <2>1. Tail(t) = <<"leave", "build", "shut", "join">>
      BY <1>3
    <2> QED BY <1>3, <2>1 DEF AnySteps, MoveSteps, LeavePending, JoinPending
  <1>4. CASE t = <<"shut", "join">>
    <2>1. Tail(t) = <<"join">>
      BY <1>4
    <2> QED BY <1>4, <2>1, StepKinds DEF AnySteps, AllSteps, MoveSteps, LeavePending, JoinPending
  <1>5. CASE t = <<"shut", "leave">>
    <2>1. Tail(t) = <<"leave">>
      BY <1>5
    <2> QED BY <1>5, <2>1, StepKinds DEF AnySteps, AllSteps, LeavePending, JoinPending
  <1>6. CASE t = <<"shut", "leave", "free">>
    <2>1. Tail(t) = <<"leave", "free">>
      BY <1>6
    <2> QED BY <1>6, <2>1, StepKinds DEF AnySteps, AllSteps, LeavePending, JoinPending
  <1>7. CASE t = <<"build", "leave", "ready">>
    <2>1. Tail(t) = <<"leave", "ready">>
      BY <1>7
    <2> QED BY <1>7, <2>1, StepKinds DEF AnySteps, AllSteps, LeavePending, JoinPending
  <1>8. CASE t = <<"build", "shut", "join">>
    <2>1. Tail(t) = <<"shut", "join">>
      BY <1>8
    <2> QED BY <1>8, <2>1, StepKinds DEF AnySteps, AllSteps, MoveSteps, LeavePending, JoinPending
  <1> QED BY <1>1, <1>2, <1>3, <1>4, <1>5, <1>6, <1>7, <1>8

\* What comes after disconnect_receiver.
LEMMA AfterLeave ==
  ASSUME NEW t \in AnySteps, t # <<>>, Head(t) = "leave"
  PROVE  /\ Tail(t) \in AnySteps
         /\ Tail(t) \in JoinPending => t \in JoinPending
  <1>1. t \in {<<"leave", "build", "leave", "ready">>, <<"leave", "build", "shut", "join">>,
               <<"leave", "ready">>, <<"leave">>, <<"leave", "free">>}
    <2>1. CASE t \in MoveSteps
      BY <2>1 DEF MoveSteps
    <2> QED BY <2>1, LeaveSteps DEF AnySteps
  <1>2. CASE t = <<"leave", "build", "leave", "ready">>
    <2>1. Tail(t) = <<"build", "leave", "ready">>
      BY <1>2
    <2>2. <<"build", "leave", "ready">> \notin JoinPending
      BY DEF JoinPending
    <2>3. <<"build", "leave", "ready">> \in AnySteps
      BY StepKinds DEF AnySteps, AllSteps
    <2> QED BY <2>1, <2>2, <2>3
  <1>3. CASE t = <<"leave", "build", "shut", "join">>
    <2>1. Tail(t) = <<"build", "shut", "join">>
      BY <1>3
    <2> QED BY <1>3, <2>1, StepKinds DEF AnySteps, AllSteps, JoinPending
  <1>4. CASE t = <<"leave", "ready">>
    <2>1. Tail(t) = <<"ready">>
      BY <1>4
    <2>2. <<"ready">> \notin JoinPending
      BY DEF JoinPending
    <2>3. <<"ready">> \in AnySteps
      BY StepKinds DEF AnySteps, AllSteps
    <2> QED BY <2>1, <2>2, <2>3
  <1>5. CASE t = <<"leave">>
    <2>1. Tail(t) = <<>>
      BY <1>5
    <2> QED BY <2>1 DEF AnySteps, AllSteps, JoinPending
  <1>6. CASE t = <<"leave", "free">>
    <2>1. Tail(t) = <<"free">>
      BY <1>6
    <2>2. <<"free">> \notin JoinPending
      BY DEF JoinPending
    <2>3. <<"free">> \in AnySteps
      BY StepKinds DEF AnySteps, AllSteps
    <2> QED BY <2>1, <2>2, <2>3
  <1> QED BY <1>1, <1>2, <1>3, <1>4, <1>5, <1>6

\* The other steps come last, but for the ready_sending of send.
LEMMA LastOnes ==
  ASSUME NEW t \in AnySteps, t # <<>>
  PROVE  /\ Head(t) = "join" => t = <<"join">>
         /\ Head(t) = "push" => t = <<"push">>
         /\ Head(t) = "free" => t = <<"free">>
         /\ Head(t) = "ready" => t \in {<<"ready">>, <<"ready", "push">>}
  <1>1. CASE t \in MoveSteps
    BY <1>1 DEF MoveSteps
  <1> QED BY <1>1, JoinSteps, PushSteps, FreeSteps, ReadySteps DEF AnySteps

\* No bit is cleared, and none is set, by what these have left.
LEMMA Indifferent ==
  \A t \in {<<>>, <<"push">>, <<"ready">>, <<"ready", "push">>} :
     t \in AnySteps /\ t # <<"free">> /\ t \notin LeavePending /\ t \notin JoinPending
  BY StepKinds DEF AnySteps, AllSteps, MoveSteps, LeavePending, JoinPending

\* A step leaves the other handles alone and gives them no bit.
LEMMA OtherBits ==
  ASSUME AllBits, NEW h \in Handles, BitTypes', Bits(h)',
         \A g \in Handles : g # h => /\ todo'[g] = todo[g] /\ name'[g] = name[g] /\ mode'[g] = mode[g]
                                     /\ \A n \in Names : g \in cc'[n] => g \in cc[n]
  PROVE  AllBits'
  BY DEF AllBits, Bits

\* Two operations, one after the other.
LEMMA Joined ==
  ASSUME NEW S, NEW a \in S, NEW b \in S, NEW c \in S, NEW d \in S, NEW e \in S
  PROVE  <<a, b>> \o <<c, d, e>> = <<a, b, c, d, e>>
  <1> DEFINE s == <<a, b>> 
  <1> DEFINE t == <<c, d, e>>
  <1> DEFINE u == <<a, b, c, d, e>>
  <1>1. s \in Seq(S) /\ Len(s) = 2 /\ s[1] = a /\ s[2] = b
    OBVIOUS
  <1>2. t \in Seq(S) /\ Len(t) = 3 /\ t[1] = c /\ t[2] = d /\ t[3] = e
    OBVIOUS
  <1>6. u \in Seq(S) /\ Len(u) = 5 /\ u[1] = a /\ u[2] = b /\ u[3] = c /\ u[4] = d /\ u[5] = e
    OBVIOUS
  <1> HIDE DEF s, t, u
  <1>3. /\ s \o t \in Seq(S) /\ Len(s \o t) = Len(s) + Len(t)
        /\ \A i \in 1 .. Len(s) + Len(t) : (s \o t)[i] = IF i <= Len(s) THEN s[i] ELSE t[i - Len(s)]
    BY <1>1, <1>2, ConcatProperties
  <1>4. \A i \in 1 .. 5 : (s \o t)[i] = u[i]
    BY <1>1, <1>2, <1>3, <1>6
  <1>5. s \o t = u
    <2>1. Len(s \o t) = Len(u) /\ \A i \in 1 .. Len(s \o t) : (s \o t)[i] = u[i]
      BY <1>1, <1>2, <1>3, <1>4, <1>6
    <2> QED BY <2>1, <1>3, <1>6, SeqEqual
  <1> QED BY <1>5 DEF s, t, u

\* A call gives nobody a bit; one that changes the role begins with leaving.
LEMMA CallsKeepBits ==
  ASSUME AllBits, NEW h \in Handles, Calling(h), orderly'
  PROVE  AllBits'
  <1> USE DEF Begin, Idle, Built, route, handle, aux
  <1>t. BitTypes /\ Bits(h)
    BY DEF AllBits
  <1>c. cc' = cc /\ name' = name /\ todo[h] = <<>>
    BY DEF Calling, Connect, Reconnect, Disconnect, Destroy, Release, Send, Recv
  <1>o. \A g \in Handles : g # h => /\ todo'[g] = todo[g] /\ name'[g] = name[g] /\ mode'[g] = mode[g]
                                    /\ \A n \in Names : g \in cc'[n] => g \in cc[n]
    BY <1>c, <1>t DEF Calling, Connect, Reconnect, Disconnect, Destroy, Release, Send, Recv, BitTypes
  <1>n. \A n \in Names : h \in cc[n] => name[h] = n /\ mode[h] = "receiver"
    BY <1>t, <1>c, Indifferent DEF Bits
  \* It is enough that the rest begins with leaving, or that the role stays.
  <1>q. ASSUME BitTypes', todo'[h] # <<"free">>,
               ~Built(h) \/ todo'[h] \in LeavePending \/ mode'[h] = "receiver",
               todo'[h] \in JoinPending => mode'[h] = "receiver"
        PROVE  AllBits'
    <2>1. \A n \in Names : h \in cc'[n] => Built(h)
      BY <1>c, <1>n, EndpointAssumption
    <2>2. Bits(h)'
      BY <1>c, <1>n, <1>q, <2>1 DEF Bits
    <2> QED BY <1>o, <1>q, <2>2, OtherBits
  <1>1. ASSUME NEW m \in Modes, NEW n \in Names, Connect(h, n, m)
        PROVE  AllBits'
    <2>d. /\ todo' = [todo EXCEPT ![h] = IF Built(h) THEN Leaving \o Building(m) ELSE Building(m)]
          /\ want' = [want EXCEPT ![h] = n] /\ mode' = [mode EXCEPT ![h] = m]
      BY <1>1 DEF Connect
    <2>e. mode'[h] = m /\ mode' \in [Handles -> Modes] /\ want' \in [Handles -> Names \cup {None}]
      BY <2>d, <1>t DEF BitTypes
    <2>1. CASE Built(h) /\ m = "receiver"
      <3>1. Leaving \o Building(m) = <<"shut", "leave", "build", "shut", "join">>
        <4> DEFINE S == {"shut", "leave", "build", "join", "ready"}
        <4>1. /\ "shut" \in S /\ "leave" \in S /\ "build" \in S /\ "join" \in S /\ "ready" \in S
              /\ Leaving = <<"shut", "leave">> /\ Building(m) = <<"build", "shut", "join">>
          BY <2>1 DEF Leaving, Building
        <4> HIDE DEF S
        <4> QED BY <4>1, Joined
      <3>2. todo'[h] = <<"shut", "leave", "build", "shut", "join">> /\ todo' \in [Handles -> AnySteps]
        BY <1>t, <2>1, <2>d, <3>1 DEF BitTypes, AnySteps, MoveSteps
      <3>3. todo'[h] # <<"free">>
        BY <3>2
      <3>4. BitTypes'
        BY <1>t, <1>c, <2>e, <3>2 DEF BitTypes
      <3> QED BY <1>q, <2>1, <2>e, <3>3, <3>4
    <2>2. CASE Built(h) /\ m = "sender"
      <3>1. Leaving \o Building(m) = <<"shut", "leave", "build", "leave", "ready">>
        <4> DEFINE S == {"shut", "leave", "build", "join", "ready"}
        <4>1. /\ "shut" \in S /\ "leave" \in S /\ "build" \in S /\ "join" \in S /\ "ready" \in S
              /\ Leaving = <<"shut", "leave">> /\ Building(m) = <<"build", "leave", "ready">>
          BY <2>2 DEF Leaving, Building
        <4> HIDE DEF S
        <4> QED BY <4>1, Joined
      <3>2. todo'[h] = <<"shut", "leave", "build", "leave", "ready">> /\ todo' \in [Handles -> AnySteps]
        BY <1>t, <2>2, <2>d, <3>1 DEF BitTypes, AnySteps, MoveSteps
      <3>3. todo'[h] # <<"free">> /\ todo'[h] \notin JoinPending
        BY <3>2 DEF JoinPending
      <3>4. BitTypes'
        BY <1>t, <1>c, <2>e, <3>2 DEF BitTypes
      <3>5. todo'[h] \in LeavePending
        BY <3>2 DEF LeavePending, MoveSteps
      <3> QED BY <1>q, <3>3, <3>4, <3>5
    <2>3. CASE ~Built(h) /\ m = "receiver"
      <3>1. todo'[h] = <<"build", "shut", "join">> /\ todo' \in [Handles -> AnySteps]
        BY <1>t, <2>3, <2>d, StepKinds DEF Building, BitTypes, AnySteps, AllSteps
      <3>2. BitTypes'
        BY <1>t, <1>c, <2>e, <3>1 DEF BitTypes
      <3> QED BY <1>q, <2>3, <2>e, <3>1, <3>2
    <2>4. CASE ~Built(h) /\ m = "sender"
      <3>1. todo'[h] = <<"build", "leave", "ready">> /\ todo' \in [Handles -> AnySteps]
        BY <1>t, <2>4, <2>d, StepKinds DEF Building, BitTypes, AnySteps, AllSteps
      <3>2. BitTypes'
        BY <1>t, <1>c, <2>e, <3>1 DEF BitTypes
      <3>3. todo'[h] # <<"free">> /\ todo'[h] \notin JoinPending
        BY <3>1 DEF JoinPending
      <3> QED BY <1>q, <2>4, <3>2, <3>3
    <2> QED BY <2>1, <2>2, <2>3, <2>4 DEF Modes
  <1>2. ASSUME NEW m \in Modes, Reconnect(h, m)
        PROVE  AllBits'
    <2>d. /\ todo' = [todo EXCEPT ![h] = Entering(m)] /\ want' = want
          /\ mode' = [mode EXCEPT ![h] = m] /\ mode'[h] = m
      BY <1>2, <1>t DEF Reconnect, BitTypes
    <2>1. CASE m = "receiver"
      <3>1. todo'[h] = <<"shut", "join">> /\ todo' \in [Handles -> AnySteps]
        BY <1>t, <2>1, <2>d, StepKinds DEF Entering, BitTypes, AnySteps, AllSteps
      <3>2. BitTypes'
        BY <1>t, <1>c, <2>d, <3>1 DEF BitTypes
      <3> QED BY <1>q, <2>1, <2>d, <3>1, <3>2
    <2>2. CASE m = "sender"
      <3>1. todo'[h] = <<"leave", "ready">> /\ todo' \in [Handles -> AnySteps]
        BY <1>t, <2>2, <2>d, StepKinds DEF Entering, BitTypes, AnySteps, AllSteps
      <3>2. BitTypes'
        BY <1>t, <1>c, <2>d, <3>1 DEF BitTypes
      <3>3. todo'[h] # <<"free">> /\ todo'[h] \notin JoinPending
        BY <3>1 DEF JoinPending
      <3>4. todo'[h] \in LeavePending
        BY <3>1 DEF LeavePending
      <3> QED BY <1>q, <3>2, <3>3, <3>4
    <2> QED BY <2>1, <2>2 DEF Modes
  <1>3. CASE Disconnect(h)
    <2>1. todo'[h] = <<"shut", "leave">> /\ todo' \in [Handles -> AnySteps]
      BY <1>t, <1>3, StepKinds DEF Disconnect, Leaving, BitTypes, AnySteps, AllSteps
    <2>2. BitTypes'
      BY <1>t, <1>c, <1>3, <2>1 DEF BitTypes, Disconnect
    <2>3. todo'[h] # <<"free">> /\ todo'[h] \notin JoinPending
      BY <2>1 DEF JoinPending
    <2>4. todo'[h] \in LeavePending
      BY <2>1 DEF LeavePending
    <2> QED BY <1>q, <2>2, <2>3, <2>4
  <1>4. CASE Destroy(h)
    <2>1. todo'[h] = <<"shut", "leave", "free">> /\ todo' \in [Handles -> AnySteps]
      BY <1>t, <1>4, StepKinds DEF Destroy, BitTypes, AnySteps, AllSteps
    <2>2. BitTypes'
      BY <1>t, <1>c, <1>4, <2>1 DEF BitTypes, Destroy
    <2>3. todo'[h] # <<"free">> /\ todo'[h] \notin JoinPending
      BY <2>1 DEF JoinPending
    <2>4. todo'[h] \in LeavePending
      BY <2>1 DEF LeavePending
    <2> QED BY <1>q, <2>2, <2>3, <2>4
  <1>5. CASE Release(h)
    BY <1>5 DEF Release
  <1>6. CASE Send(h)
    <2>1. todo'[h] = <<"ready", "push">> /\ todo' \in [Handles -> AnySteps] /\ mode' = mode
      BY <1>t, <1>6, Indifferent DEF Send, BitTypes
    <2>2. BitTypes'
      BY <1>t, <1>c, <1>6, <2>1 DEF BitTypes, Send
    <2>3. Bits(h)'
      BY <1>c, <1>n, <2>1, Indifferent DEF Bits
    <2> QED BY <1>o, <2>2, <2>3, OtherBits
  <1>7. CASE Recv(h)
    <2>1. todo'[h] = <<"shut", "join">> /\ todo' \in [Handles -> AnySteps] /\ mode'[h] = "receiver"
      BY <1>t, <1>7, StepKinds DEF Recv, Entering, BitTypes, AnySteps, AllSteps
    <2>2. BitTypes'
      BY <1>t, <1>c, <1>7, <2>1 DEF BitTypes, Recv
    <2> QED BY <1>q, <2>1, <2>2
  <1> QED BY <1>1, <1>2, <1>3, <1>4, <1>5, <1>6, <1>7 DEF Calling

\* The steps.  Only a receiver sets its bit, and a handle that is about to
\* forget its route, or to send on it, has left it before.
LEMMA StepsKeepBits ==
  ASSUME AllBits, NEW h \in Handles, Working(h)
  PROVE  AllBits'
  <1> USE DEF At, Done, Begin, Idle, Built, route, handle
  <1>t. BitTypes /\ Bits(h) /\ todo[h] \in AnySteps
    BY DEF AllBits, BitTypes
  <1>o. \A g \in Handles : g # h => todo'[g] = todo[g] /\ name'[g] = name[g] /\ mode'[g] = mode[g]
    BY <1>t DEF Working, Shut, Leave, Build, Join, Ready, Push, Free, BitTypes
  <1>1. CASE Shut(h) \/ Build(h)
    <2>1. /\ todo' = [todo EXCEPT ![h] = Tail(@)] /\ cc' = cc /\ mode' = mode
          /\ todo[h] # <<>> /\ Head(todo[h]) \in {"shut", "build"}
      BY <1>1 DEF Shut, Build
    <2>2. todo'[h] = Tail(todo[h]) /\ Tail(todo[h]) \in AnySteps
      BY <1>t, <2>1, ShutOrBuild DEF BitTypes
    <2>3. BitTypes'
      <3>1. todo' \in [Handles -> AnySteps]
        BY <1>t, <2>1, <2>2 DEF BitTypes
      <3>2. name' \in [Handles -> Names \cup {None}] /\ want' \in [Handles -> Names \cup {None}]
        BY <1>t, <1>1 DEF Shut, Build, BitTypes
      <3> QED BY <1>t, <2>1, <3>1, <3>2 DEF BitTypes
    <2>4. name[h] # None => name'[h] = name[h]
      BY <1>t, <1>1 DEF Shut, Build, BitTypes
    <2>5. Bits(h)'
      <3>1. ASSUME NEW n \in Names, h \in cc'[n]
            PROVE  /\ name'[h] = n /\ todo'[h] # <<"free">>
                   /\ mode'[h] = "receiver" \/ todo'[h] \in LeavePending
        <4>1. name[h] = n /\ (mode[h] = "receiver" \/ todo[h] \in LeavePending)
          BY <1>t, <2>1, <3>1 DEF Bits
        <4> QED BY <1>t, <2>1, <2>2, <2>4, <4>1, ShutOrBuild, EndpointAssumption
      <3>2. todo'[h] \in JoinPending => mode'[h] = "receiver"
        BY <1>t, <2>1, <2>2, ShutOrBuild DEF Bits
      <3> QED BY <3>1, <3>2 DEF Bits
    <2> QED BY <1>o, <2>1, <2>3, <2>5, OtherBits
  <1>2. CASE Leave(h)
    <2>1. /\ todo' = [todo EXCEPT ![h] = Tail(@)] /\ cc' = [cc EXCEPT ![name[h]] = @ \ {h}]
          /\ mode' = mode /\ name' = name /\ want' = want /\ todo[h] # <<>> /\ Head(todo[h]) = "leave"
      BY <1>2 DEF Leave
    <2>2. todo'[h] = Tail(todo[h]) /\ Tail(todo[h]) \in AnySteps
      BY <1>t, <2>1, AfterLeave DEF BitTypes
    <2>3. BitTypes'
      BY <1>t, <2>1, <2>2 DEF BitTypes
    <2>4. \A n \in Names : h \notin cc'[n] /\ \A g \in Handles : g \in cc'[n] => g \in cc[n]
      BY <1>t, <2>1 DEF BitTypes, Bits
    <2>5. Bits(h)'
      BY <1>t, <2>1, <2>2, <2>4, AfterLeave DEF Bits
    <2> QED BY <1>o, <2>3, <2>4, <2>5, OtherBits
  <1>3. CASE Join(h)
    <2>1. /\ todo' = [todo EXCEPT ![h] = Tail(@)] /\ cc' = [cc EXCEPT ![name[h]] = @ \cup {h}]
          /\ mode' = mode /\ name' = name /\ want' = want /\ todo[h] = <<"join">>
      BY <1>3, <1>t, LastOnes DEF Join
    <2>2. todo'[h] = <<>> /\ mode[h] = "receiver"
      BY <1>t, <2>1, Tails DEF BitTypes, Bits, JoinPending
    <2>3. BitTypes'
      BY <1>t, <2>1, <2>2, Indifferent DEF BitTypes
    <2>4. \A n \in Names : /\ h \in cc'[n] => h \in cc[n] \/ name[h] = n
                           /\ \A g \in Handles : (g # h /\ g \in cc'[n]) => g \in cc[n]
      BY <1>t, <2>1 DEF BitTypes
    <2>5. Bits(h)'
      BY <1>t, <2>1, <2>2, <2>4, Indifferent DEF Bits
    <2> QED BY <1>o, <2>3, <2>4, <2>5, OtherBits
  <1>4. CASE Ready(h) \/ Push(h)
    <2>0. todo[h] \in {<<"ready">>, <<"ready", "push">>, <<"push">>}
      BY <1>4, <1>t, LastOnes DEF Ready, Push
    <2>1. todo'[h] \in {<<>>, <<"push">>} /\ todo' \in [Handles -> AnySteps]
      <3>1. \/ todo' = [todo EXCEPT ![h] = <<"push">>]
            \/ todo' = [todo EXCEPT ![h] = <<>>]
            \/ todo' = [todo EXCEPT ![h] = Tail(@)] /\ ~(Ready(h) /\ Len(todo[h]) > 1)
        BY <1>4 DEF Ready, Push
      <3>2. CASE todo' = [todo EXCEPT ![h] = Tail(@)] /\ ~(Ready(h) /\ Len(todo[h]) > 1)
        <4>1. todo[h] # <<"ready", "push">>
          <5> SUFFICES ASSUME todo[h] = <<"ready", "push">> PROVE FALSE
            OBVIOUS
          <5>1. Len(todo[h]) > 1 /\ Head(todo[h]) = "ready"
            BY Tails
          <5>2. ~Push(h)
            BY <5>1 DEF Push
          <5> QED BY <1>4, <3>2, <5>1, <5>2
        <4>2. Tail(todo[h]) = <<>>
          BY <2>0, <4>1, Tails
        <4> QED BY <1>t, <3>2, <4>2, Indifferent DEF BitTypes
      <3>3. CASE todo' = [todo EXCEPT ![h] = <<"push">>]
        BY <1>t, <3>3, Indifferent DEF BitTypes
      <3>4. CASE todo' = [todo EXCEPT ![h] = <<>>]
        BY <1>t, <3>4, Indifferent DEF BitTypes
      <3> QED BY <3>1, <3>2, <3>3, <3>4
    <2>2. mode' = mode /\ name' = name /\ want' = want
      BY <1>4 DEF Ready, Push
    <2>3. cc' \in [Names -> SUBSET Handles] /\ \A n \in Names : cc'[n] \subseteq cc[n]
      <3>1. CASE Ready(h)
        BY <1>t, <3>1 DEF Ready, BitTypes
      <3>2. CASE Push(h)
        <4>1. PICK late \in SUBSET cc[name[h]] : cc' = [cc EXCEPT ![name[h]] = @ \ late]
          BY <3>2 DEF Push
        <4> QED BY <1>t, <4>1 DEF BitTypes
      <3> QED BY <1>4, <3>1, <3>2
    <2>4. BitTypes'
      BY <1>t, <2>1, <2>2, <2>3 DEF BitTypes
    <2>5. \A n \in Names : h \in cc[n] => name[h] = n /\ mode[h] = "receiver"
      BY <1>t, <2>0, Indifferent DEF Bits
    <2>6. Bits(h)'
      BY <2>1, <2>2, <2>3, <2>5, Indifferent DEF Bits
    <2> QED BY <1>o, <2>3, <2>4, <2>6, OtherBits
  <1>5. CASE Free(h)
    <2>1. todo[h] = <<"free">> /\ cc' = cc /\ want' = want
      BY <1>5, <1>t, LastOnes DEF Free
    <2>2. todo'[h] = <<>>
      BY <1>5, <1>t, <2>1, Tails DEF Free, BitTypes
    <2>3. \A n \in Names : h \notin cc[n]
      BY <1>t, <2>1 DEF Bits
    <2>4. BitTypes'
      <3>1. todo' \in [Handles -> AnySteps]
        BY <1>5, <1>t, <2>2, Indifferent DEF Free, BitTypes
      <3> QED BY <1>5, <1>t, <2>1, <3>1 DEF Free, BitTypes, Modes
    <2>5. Bits(h)'
      BY <2>1, <2>2, <2>3, Indifferent DEF Bits
    <2> QED BY <1>o, <2>1, <2>4, <2>5, OtherBits
  <1> QED BY <1>1, <1>2, <1>3, <1>4, <1>5 DEF Working

-----------------------------------------------------------------------------
(* The invariant of orderly handles. *)

GhostInv == orderly => AllBits /\ (kept => FlagsHeld)

\* Unless a handle was released or lost, a flag that is set has a holder, if
\* the handles keep their roles, and a connection bit belongs to a receiver of
\* that route, if not.
THEOREM GhostInvariance == EndpointSpec => []GhostInv
  <1>1. EndpointInit => GhostInv
    <2> SUFFICES ASSUME EndpointInit PROVE AllBits /\ FlagsHeld
      BY DEF GhostInv
    <2>1. BitTypes
      BY Indifferent DEF EndpointInit, BitTypes, Modes
    <2>2. \A h \in Handles : Bits(h)
      BY Indifferent DEF EndpointInit, Bits
    <2>3. FlagsHeld
      BY DEF EndpointInit, FlagsHeld
    <2> QED BY <2>1, <2>2, <2>3 DEF AllBits
  <1>2. ASSUME RoleInv, GhostInv, [EndpointNext]_endpointVars PROVE GhostInv'
    <2> SUFFICES ASSUME orderly' PROVE AllBits' /\ (kept' => FlagsHeld')
      BY DEF GhostInv
    <2>1. CASE EndpointNext
      <3>1. PICK h \in Handles : Calling(h) \/ Working(h)
        BY <2>1 DEF EndpointNext
      <3>2. orderly /\ (kept' => kept)
        <4>1. orderly
          BY <3>1 DEF Calling, Working, aux, Connect, Reconnect, Disconnect, Destroy, Release, Send, Recv
        <4>2. ASSUME kept' PROVE kept
          BY <3>1, <4>2 DEF Calling, Working, aux, Connect, Reconnect, Disconnect, Destroy, Release, Send, Recv
        <4> QED BY <4>1, <4>2
      <3>3. AllBits'
        BY <1>2, <3>1, <3>2, CallsKeepBits, StepsKeepBits DEF GhostInv
      <3>4. ASSUME kept' PROVE FlagsHeld'
        BY <1>2, <3>1, <3>2, <3>4, CallsKeepFlags, StepsKeepFlags DEF GhostInv, RoleInv
      <3> QED BY <3>3, <3>4
    <2>2. CASE UNCHANGED endpointVars
      BY <1>2, <2>2 DEF endpointVars, GhostInv, AllBits, BitTypes, Bits, FlagsHeld, Holds
    <2> QED BY <1>2, <2>1, <2>2
  <1> QED BY <1>1, <1>2, RoleInvariance, PTL DEF EndpointSpec

\* No handle that ends in order leaves its role behind: a route without a
\* sender can be sent on, and push waits for no reader that is not there.
THEOREM RouteNoGhost == EndpointSpec => []NoGhost
  <1>1. GhostInv => NoGhost
    <2> SUFFICES ASSUME GhostInv, orderly, NEW n \in Names
                 PROVE  /\ kept /\ (\A h \in Handles : name[h] = n => ~sending[h]) => ~flag[n]
                        /\ \A h \in cc[n] : name[h] = n /\ (Idle(h) => mode[h] = "receiver")
      BY DEF NoGhost
    <2>1. kept /\ (\A h \in Handles : name[h] = n => ~sending[h]) => ~flag[n]
      BY DEF GhostInv, FlagsHeld, Holds
    <2>2. ASSUME NEW h \in cc[n] PROVE name[h] = n /\ (Idle(h) => mode[h] = "receiver")
      <3>1. h \in Handles
        BY <2>2 DEF GhostInv, AllBits, BitTypes
      <3>2. Bits(h)
        BY <3>1 DEF GhostInv, AllBits
      <3> QED BY <2>2, <3>2, Indifferent DEF Bits, Idle
    <2> QED BY <2>1, <2>2
  <1> QED BY <1>1, GhostInvariance, PTL
-----------------------------------------------------------------------------
(* The tables of chunks. *)

\* make_align rounds up to a multiple of the alignment.
LEMMA AlignUp ==
  ASSUME NEW align \in Nat \ {0}, NEW size \in Nat
  PROVE  /\ make_align(align, size) \in Nat /\ make_align(align, size) >= size
         /\ make_align(align, size) % align = 0
  <1> DEFINE q == (size + align - 1) \div align
             x == (size + align - 1) % align
  <1>0. size + align - 1 \in Nat
    OBVIOUS
  <1>1. size + align - 1 = align * q + x /\ q \in Nat /\ x \in Nat /\ x < align
    BY <1>0, DivMod
  <1>2. make_align(align, size) = q * align
    BY DEF make_align
  <1> HIDE DEF q, x
  <1>3. q * align = align * q /\ align * q \in Nat
    BY <1>1, Z3
  <1>4. q * align >= size
    BY <1>1, <1>3, SMT
  <1>5. (0 + align * q) % align = 0 % align
    BY <1>1, RoundsApart
  <1>6. 0 % align = 0
    BY Small
  <1>7. (q * align) % align = 0
    BY <1>3, <1>5, <1>6
  <1> QED BY <1>2, <1>3, <1>4, <1>7

\* calc_chunk_size: the conns, the payload and no misalignment.
LEMMA ChunkFits ==
  ASSUME NEW size \in Nat \ {0}
  PROVE  /\ calc_chunk_size(size) >= ChunkHead + size
         /\ calc_chunk_size(size) % MaxAlignOf = 0
  <1>1. ChunkHead \in Nat
    BY AlignUp, ConnAssumption DEF ChunkHead
  <1> DEFINE need == ChunkHead + size
             q == (ChunkHead + size - 1) \div ChunkAlign
             x == (ChunkHead + size - 1) % ChunkAlign
             chunk == (q + 1) * ChunkAlign
  <1>2. ChunkHead + size - 1 \in Nat /\ need \in Nat /\ need - 1 = ChunkHead + size - 1
    BY <1>1
  <1>3. need - 1 = ChunkAlign * q + x /\ q \in Nat /\ x \in Nat /\ x < ChunkAlign
    BY <1>2, DivMod, ConnAssumption
  <1>4. calc_chunk_size(size) = make_align(MaxAlignOf, chunk)
    BY DEF calc_chunk_size
  <1> HIDE DEF need, q, x
  <1>5. chunk = ChunkAlign * q + ChunkAlign /\ chunk \in Nat
    BY <1>3, ConnAssumption, Z3
  <1>6. chunk >= need
    BY <1>2, <1>3, <1>5, ConnAssumption, Z3
  <1> HIDE DEF chunk
  <1>7. make_align(MaxAlignOf, chunk) \in Nat /\ make_align(MaxAlignOf, chunk) >= chunk
    BY <1>5, AlignUp, ConnAssumption
  <1>8. make_align(MaxAlignOf, chunk) % MaxAlignOf = 0
    BY <1>5, AlignUp, ConnAssumption
  <1>9. make_align(MaxAlignOf, chunk) >= need
    BY <1>2, <1>5, <1>6, <1>7, SMT
  <1> QED BY <1>4, <1>8, <1>9 DEF need

ChunkSizes == {calc_chunk_size(size) : size \in Sizes}
CallRecords == [at : {"idle", "emplace", "get", "got"}, pref : Prefixes \cup {NoTable},
           size : Sizes \cup {0}, table : Nat]

\* What a thread has in hand is in its place, and stays there.
TableInv ==
  /\ tables \in Nat /\ storages \in [ChunkSizes -> Nat] /\ caller \in [Callers -> CallRecords]
  /\ \A t \in Callers :
       /\ caller[t].at # "idle" => caller[t].size \in Sizes
       /\ caller[t].at \in {"get", "got"} =>
            /\ storages[calc_chunk_size(caller[t].size)] = caller[t].table
            /\ caller[t].table # NoTable

\* chunk_storages only grows, and emplace under the exclusive lock finds what
\* another thread has put there since find.
LEMMA TableStep ==
  ASSUME TableInv, NEW t \in Callers,
         (\E p \in Prefixes, size \in Sizes : find(t, p, size))
           \/ emplace(t) \/ get_info(t) \/ get_fails(t) \/ done(t)
  PROVE  TableInv'
  <1>c. caller[t] \in CallRecords
    BY DEF TableInv
  <1>1. ASSUME NEW p \in Prefixes, NEW size \in Sizes, find(t, p, size)
        PROVE  TableInv'
    <2> DEFINE table == storages[calc_chunk_size(size)]
               rec == [at |-> IF table = NoTable THEN "emplace" ELSE "get",
                       pref |-> p, size |-> size, table |-> table]
    <2>1. caller' = [caller EXCEPT ![t] = rec] /\ UNCHANGED <<storages, tables>>
      BY <1>1 DEF find
    <2>2. calc_chunk_size(size) \in ChunkSizes
      BY DEF ChunkSizes
    <2>3. table \in Nat
      BY <2>2 DEF TableInv
    <2>4. rec \in CallRecords /\ rec.at # "idle" /\ rec.size = size /\ rec.table = table
      BY <2>3 DEF CallRecords
    <2>5. rec.at = "get" => rec.table # NoTable
      BY <2>4
    <2>6. rec.at # "got"
      OBVIOUS
    <2> HIDE DEF rec
    <2>7. caller' \in [Callers -> CallRecords] /\ caller'[t] = rec
      BY <2>1, <2>4 DEF TableInv
    <2>8. \A u \in Callers : u # t => caller'[u] = caller[u]
      BY <2>1 DEF TableInv
    <2> QED BY <2>1, <2>4, <2>5, <2>6, <2>7, <2>8 DEF TableInv
  <1>2. CASE emplace(t)
    <2> DEFINE chunk == calc_chunk_size(caller[t].size)
    <2>1. caller[t].at = "emplace" /\ caller[t].size \in Sizes
      BY <1>2 DEF emplace, TableInv
    <2>2. chunk \in ChunkSizes
      BY <2>1 DEF ChunkSizes
    <2>3. /\ tables' = tables + 1
          /\ storages' = [storages EXCEPT ![chunk] = IF @ = NoTable THEN tables' ELSE @]
          /\ caller' = [caller EXCEPT ![t].at = "get", ![t].table = storages'[chunk]]
      BY <1>2 DEF emplace
    <2> HIDE DEF chunk
    <2>4. tables' \in Nat /\ tables' # NoTable
      BY <2>3 DEF TableInv, NoTable
    <2>5. /\ storages' \in [ChunkSizes -> Nat] /\ storages'[chunk] # NoTable /\ storages'[chunk] \in Nat
          /\ \A c \in ChunkSizes : storages[c] # NoTable => storages'[c] = storages[c]
      BY <2>2, <2>3, <2>4 DEF TableInv
    <2>6. /\ caller'[t] = [caller[t] EXCEPT !.at = "get", !.table = storages'[chunk]]
          /\ \A u \in Callers : u # t => caller'[u] = caller[u]
      BY <2>3 DEF TableInv
    <2>7. caller'[t] \in CallRecords /\ caller'[t].at = "get" /\ caller'[t].size = caller[t].size
            /\ caller'[t].table = storages'[chunk]
      BY <1>c, <2>5, <2>6 DEF CallRecords
    <2>8. caller' \in [Callers -> CallRecords]
      BY <2>3, <2>6, <2>7 DEF TableInv
    <2>9. ASSUME NEW u \in Callers, u # t, caller[u].at \in {"get", "got"}
          PROVE  storages'[calc_chunk_size(caller[u].size)] = caller[u].table
      <3>1. caller[u].size \in Sizes
        BY <2>9 DEF TableInv
      <3>2. calc_chunk_size(caller[u].size) \in ChunkSizes
        BY <3>1 DEF ChunkSizes
      <3> QED BY <2>5, <2>9, <3>2 DEF TableInv
    <2>10. storages'[calc_chunk_size(caller'[t].size)] = caller'[t].table /\ caller'[t].table # NoTable
      BY <2>5, <2>7 DEF chunk
    <2>11. caller'[t].size \in Sizes
      BY <2>1, <2>7
    <2> QED BY <2>4, <2>5, <2>6, <2>7, <2>8, <2>9, <2>10, <2>11 DEF TableInv
  <1>3. CASE get_info(t)
    <2>1. /\ caller' = [caller EXCEPT ![t].at = "got"] /\ UNCHANGED <<storages, tables>>
          /\ caller[t].at = "get"
      BY <1>3 DEF get_info
    <2>2. /\ caller'[t] = [caller[t] EXCEPT !.at = "got"]
          /\ \A u \in Callers : u # t => caller'[u] = caller[u]
      BY <2>1 DEF TableInv
    <2>3. /\ caller'[t] \in CallRecords /\ caller'[t].size = caller[t].size
          /\ caller'[t].table = caller[t].table
      BY <1>c, <2>2 DEF CallRecords
    <2>4. caller' \in [Callers -> CallRecords]
      BY <2>1, <2>2, <2>3 DEF TableInv
    <2> QED BY <2>1, <2>2, <2>3, <2>4 DEF TableInv
  <1>4. CASE get_fails(t) \/ done(t)
    <2>1. caller' = [caller EXCEPT ![t] = NoCall] /\ UNCHANGED <<storages, tables>>
      BY <1>4 DEF get_fails, done
    <2>2. NoCall \in CallRecords /\ NoCall.at = "idle"
      BY DEF NoCall, NoTable, CallRecords
    <2>3. /\ caller' \in [Callers -> CallRecords] /\ caller'[t] = NoCall
          /\ \A u \in Callers : u # t => caller'[u] = caller[u]
      BY <2>1, <2>2 DEF TableInv
    <2> QED BY <2>1, <2>2, <2>3 DEF TableInv
  <1> QED BY <1>1, <1>2, <1>3, <1>4

\* Threads that ask for chunks of one size get them out of one table, whose
\* chunks are large enough and aligned: for every size of message.
THEOREM ChunksOneTable == ConnSpec => []OneTable
  <1>1. ChunkInit => TableInv
    <2> SUFFICES ASSUME ChunkInit PROVE TableInv
      OBVIOUS
    <2>1. NoCall \in CallRecords /\ NoCall.at = "idle"
      BY DEF NoCall, NoTable, CallRecords
    <2> QED BY <2>1 DEF ChunkInit, TableInv, ChunkSizes, NoTable
  <1>2. TableInv /\ [ConnNext]_connVars => TableInv'
    <2> SUFFICES ASSUME TableInv, [ConnNext]_connVars PROVE TableInv'
      OBVIOUS
    <2>1. CASE ChunkNext
      <3>1. PICK t \in Callers : (\E p \in Prefixes, size \in Sizes : find(t, p, size))
                                   \/ emplace(t) \/ get_info(t) \/ get_fails(t) \/ done(t)
        BY <2>1 DEF ChunkNext
      <3> QED BY <3>1, TableStep
    <2>2. CASE UNCHANGED chunkVars
      BY <2>2 DEF chunkVars, TableInv
    <2> QED BY <2>1, <2>2 DEF ConnNext, connVars
  <1>3. TableInv => OneTable
    <2> SUFFICES ASSUME TableInv, NEW t \in Callers, caller[t].at \in {"get", "got"}
                 PROVE  /\ storages[calc_chunk_size(caller[t].size)] = caller[t].table
                        /\ calc_chunk_size(caller[t].size) >= ChunkHead + caller[t].size
                        /\ calc_chunk_size(caller[t].size) % MaxAlignOf = 0
      BY DEF OneTable
    <2>1. caller[t].size \in Nat \ {0}
      BY ConnAssumption DEF TableInv
    <2> QED BY <2>1, ChunkFits DEF TableInv
  <1> QED BY <1>1, <1>2, <1>3, PTL DEF ConnSpec
-----------------------------------------------------------------------------
(* Identities. *)

Mapped == Starting \cup {"ready"}

IdTypeOK ==
  /\ accum \in Nat /\ births \in Nat
  /\ ident \in [Openers -> Nat] /\ born \in [Openers -> Nat]
  /\ opener \in [Openers -> Mapped \cup {"none", "again", "open", "invalid"}]

\* An identity is the number of its birth, up to the accumulator's width.
Numbered ==
  /\ accum = births % IdWrap
  /\ \A h \in Openers :
       /\ opener[h] \in {"none", "again"} => ident[h] = 0
       /\ opener[h] = "again" => born[h] < births /\ (born[h] + 1) % IdWrap = 0
       /\ ident[h] # 0 => born[h] < births /\ ident[h] = (born[h] + 1) % IdWrap
  /\ \A h, g \in Openers : ident[h] # 0 /\ ident[g] # 0 /\ born[h] = born[g] => h = g

\* A handle that has drawn 0 draws again before a whole round of identities
\* was given out, 2^32 in the code.
NotOvertaken == \A h \in Openers : opener[h] = "again" => births - born[h] < IdWrap

NonZero == \A h \in Openers : opener[h] \notin {"none", "again"} => ident[h] # 0

\* fetch_add on the accumulator.
LEMMA NextIdentity ==
  ASSUME NEW n \in Nat \ {0}, NEW a \in Nat
  PROVE  ((a % n) + 1) % n = (a + 1) % n
  <1> DEFINE m == a \div n
             x == a % n
  <1>1. a = n * m + x /\ m \in Nat /\ x \in Nat
    BY DivMod
  <1> HIDE DEF m, x
  <1>2. a + 1 = (x + 1) + n * m
    BY <1>1, Z3
  <1>3. ((x + 1) + n * m) % n = (x + 1) % n
    <2>1. x + 1 \in Nat
      BY <1>1
    <2> QED BY <1>1, <2>1, RoundsApart
  <1> QED BY <1>2, <1>3 DEF x

\* The steps of a handle that draw no identity and give none back.
Quiet(h) ==
  \/ open(h) \/ open_fails(h) \/ reopen(h) \/ init_check(h) \/ init_lock(h) \/ init_recheck(h)
  \/ construct(h) \/ init_store(h) \/ init_unlock(h) \/ connect(h) \/ disconnect(h)

\* An identity is drawn, for the first time or again.
Draws(h) ==
  /\ accum' = (accum + 1) % IdWrap
  /\ ident' = [ident EXCEPT ![h] = accum']
  /\ births' = births + 1 /\ born' = [born EXCEPT ![h] = births]

\* What drawing an identity does to the numbers.
LEMMA DrawStep ==
  ASSUME IdTypeOK, Numbered, NEW h \in Openers, Draws(h)
  PROVE  /\ accum' = births' % IdWrap /\ accum' \in Nat /\ births' \in Nat
         /\ ident' \in [Openers -> Nat] /\ born' \in [Openers -> Nat]
         /\ ident'[h] = accum' /\ born'[h] = births /\ births' = births + 1
         /\ accum' = (births + 1) % IdWrap
         /\ \A g \in Openers : g # h => ident'[g] = ident[g] /\ born'[g] = born[g]
  <1>1. births' = births + 1 /\ accum' = (births + 1) % IdWrap
    BY NextIdentity, ConnAssumption DEF Draws, Numbered, IdTypeOK
  <1>2. accum' \in Nat /\ births' \in Nat
    BY <1>1, DivMod, ConnAssumption DEF IdTypeOK
  <1> QED BY <1>1, <1>2 DEF Draws, IdTypeOK

\* Every step of a handle keeps the numbers, and a handle that is open has one
\* that is not 0, if it was not overtaken.
LEMMA NumberedStep ==
  ASSUME IdTypeOK, Numbered, [RingNext]_ringVars
  PROVE  IdTypeOK' /\ Numbered' /\ (NotOvertaken /\ NonZero => NonZero')
  <1>0. CASE UNCHANGED ringVars
    BY <1>0 DEF ringVars, IdTypeOK, Numbered, NonZero
  <1>1. ASSUME NEW h \in Openers, identify(h)
        PROVE  IdTypeOK' /\ Numbered' /\ (NonZero => NonZero')
    <2>1. Draws(h)
      BY <1>1 DEF identify, Draws
    <2>2. opener[h] = "none" /\ opener' = [opener EXCEPT ![h] = IF accum' = 0 THEN "again" ELSE "open"]
      BY <1>1 DEF identify, To
    <2>3. /\ opener' \in [Openers -> Mapped \cup {"none", "again", "open", "invalid"}]
          /\ opener'[h] = (IF accum' = 0 THEN "again" ELSE "open")
          /\ \A g \in Openers : g # h => opener'[g] = opener[g]
      BY <2>2 DEF IdTypeOK
    <2>4. IdTypeOK'
      BY <2>1, <2>3, DrawStep DEF IdTypeOK
    <2>5. Numbered'
      <3>1. /\ opener'[h] \in {"none", "again"} => ident'[h] = 0
            /\ opener'[h] = "again" => born'[h] < births' /\ (born'[h] + 1) % IdWrap = 0
            /\ ident'[h] # 0 => born'[h] < births' /\ ident'[h] = (born'[h] + 1) % IdWrap
        <4>1. births \in Nat
          BY DEF IdTypeOK
        <4> QED BY <2>1, <2>3, <4>1, DrawStep
      <3>2. ASSUME NEW g \in Openers, g # h
            PROVE  /\ opener'[g] \in {"none", "again"} => ident'[g] = 0
                   /\ opener'[g] = "again" => born'[g] < births' /\ (born'[g] + 1) % IdWrap = 0
                   /\ ident'[g] # 0 => /\ born'[g] < births' /\ ident'[g] = (born'[g] + 1) % IdWrap
                                       /\ born'[g] # born'[h]
        <4>1. births \in Nat /\ born[g] \in Nat
          BY DEF IdTypeOK
        <4> QED BY <2>1, <2>3, <3>2, <4>1, DrawStep DEF Numbered
      <3>3. \A g, k \in Openers : ident'[g] # 0 /\ ident'[k] # 0 /\ born'[g] = born'[k] => g = k
        BY <2>1, <3>2, DrawStep DEF Numbered
      <3>4. accum' = births' % IdWrap
        BY <2>1, DrawStep
      <3> QED BY <3>1, <3>2, <3>3, <3>4 DEF Numbered
    <2>6. NonZero => NonZero'
      BY <2>1, <2>3, DrawStep DEF NonZero
    <2> QED BY <2>4, <2>5, <2>6
  <1>2. ASSUME NEW h \in Openers, identify_again(h)
        PROVE  IdTypeOK' /\ Numbered' /\ (NotOvertaken /\ NonZero => NonZero')
    <2>1. Draws(h)
      BY <1>2 DEF identify_again, Draws
    <2>2. opener[h] = "again" /\ opener' = [opener EXCEPT ![h] = "open"]
      BY <1>2 DEF identify_again, To
    <2>3. /\ opener' \in [Openers -> Mapped \cup {"none", "again", "open", "invalid"}]
          /\ opener'[h] = "open"
          /\ \A g \in Openers : g # h => opener'[g] = opener[g]
      BY <2>2 DEF IdTypeOK
    <2>4. IdTypeOK'
      BY <2>1, <2>3, DrawStep DEF IdTypeOK
    <2>5. Numbered'
      <3>1. ident'[h] # 0 => born'[h] < births' /\ ident'[h] = (born'[h] + 1) % IdWrap
        <4>1. births \in Nat
          BY DEF IdTypeOK
        <4> QED BY <2>1, <4>1, DrawStep
      <3>2. ASSUME NEW g \in Openers, g # h
            PROVE  /\ opener'[g] \in {"none", "again"} => ident'[g] = 0
                   /\ opener'[g] = "again" => born'[g] < births' /\ (born'[g] + 1) % IdWrap = 0
                   /\ ident'[g] # 0 => /\ born'[g] < births' /\ ident'[g] = (born'[g] + 1) % IdWrap
                                       /\ born'[g] # born'[h]
        <4>1. births \in Nat /\ born[g] \in Nat
          BY DEF IdTypeOK
        <4> QED BY <2>1, <2>3, <3>2, <4>1, DrawStep DEF Numbered
      <3>3. \A g, k \in Openers : ident'[g] # 0 /\ ident'[k] # 0 /\ born'[g] = born'[k] => g = k
        BY <2>1, <3>2, DrawStep DEF Numbered
      <3>4. accum' = births' % IdWrap
        BY <2>1, DrawStep
      <3> QED BY <2>3, <3>1, <3>2, <3>3, <3>4 DEF Numbered
    <2>6. ASSUME NotOvertaken, NonZero PROVE NonZero'
      <3>1. births \in Nat /\ born[h] \in Nat /\ born[h] < births /\ births - born[h] < IdWrap
              /\ (born[h] + 1) % IdWrap = 0 /\ IdWrap \in Nat \ {0}
        BY <2>2, <2>6, ConnAssumption DEF IdTypeOK, Numbered, NotOvertaken
      <3>2. /\ born[h] + 1 \in Nat /\ births + 1 \in Nat /\ born[h] + 1 < births + 1
            /\ births + 1 < born[h] + 1 + IdWrap
        BY <3>1
      <3>3. (born[h] + 1) % IdWrap # (births + 1) % IdWrap
        BY <3>1, <3>2, OtherSlot
      <3> QED BY <2>1, <2>3, <2>6, <3>1, <3>3, DrawStep DEF NonZero
    <2> QED BY <2>4, <2>5, <2>6
  <1>3. ASSUME NEW h \in Openers, close(h)
        PROVE  IdTypeOK' /\ Numbered' /\ (NonZero => NonZero')
    <2>1. /\ opener' = [opener EXCEPT ![h] = "none"] /\ ident' = [ident EXCEPT ![h] = 0]
          /\ accum' = accum /\ births' = births /\ born' = born
      BY <1>3 DEF close, To
    <2> QED BY <2>1 DEF IdTypeOK, Numbered, NonZero
  <1>4. ASSUME NEW h \in Openers, Quiet(h)
        PROVE  IdTypeOK' /\ Numbered' /\ (NonZero => NonZero')
    <2>1. accum' = accum /\ births' = births /\ born' = born /\ ident' = ident
      BY <1>4 DEF Quiet, open, open_fails, reopen, init_check, init_lock, init_recheck, construct,
                  init_store, init_unlock, connect, disconnect
    <2>2. opener' = opener \/ \E to \in Mapped \cup {"open", "invalid"} :
            opener[h] \notin {"none", "again"} /\ opener' = [opener EXCEPT ![h] = to]
      BY <1>4 DEF Quiet, open, open_fails, reopen, init_check, init_lock, init_recheck, construct,
                  init_store, init_unlock, connect, disconnect, To, Mapped, Starting
    <2>3. CASE opener' = opener
      BY <2>1, <2>3 DEF IdTypeOK, Numbered, NonZero
    <2>4. ASSUME NEW to \in Mapped \cup {"open", "invalid"}, opener[h] \notin {"none", "again"},
                 opener' = [opener EXCEPT ![h] = to]
          PROVE  IdTypeOK' /\ Numbered' /\ (NonZero => NonZero')
      <3>1. to \notin {"none", "again"}
        BY DEF Mapped, Starting
      <3>2. /\ opener' \in [Openers -> Mapped \cup {"none", "again", "open", "invalid"}]
            /\ opener'[h] = to /\ \A g \in Openers : g # h => opener'[g] = opener[g]
        BY <2>4 DEF IdTypeOK
      <3> QED BY <2>1, <2>4, <3>1, <3>2 DEF IdTypeOK, Numbered, NonZero
    <2> QED BY <2>2, <2>3, <2>4
  <1> QED BY <1>0, <1>1, <1>2, <1>3, <1>4 DEF RingNext, Quiet
-----------------------------------------------------------------------------
(* The head of the ring. *)

HeadRecords == [lc : BOOLEAN, constructed : BOOLEAN, cc : SUBSET (0 .. Slots - 1)]

HeadTypeOK ==
  /\ users \subseteq Openers /\ ring \in HeadRecords
  /\ opener \in [Openers -> Mapped \cup {"none", "again", "open", "invalid"}]
  /\ wiping \in [Openers -> SUBSET {"lc", "constructed", "cc"}]
  /\ bit \in [Openers -> 0 .. Slots]

\* Who has mapped the ring, and who may be connected to it.
Here == \A h \in Openers :
  /\ (h \in users) <=> (opener[h] \in Mapped)
  /\ bit[h] # Slots => opener[h] = "ready"

\* Only one handle is on its way into the ring, and what it constructs nobody
\* uses yet.
OneStarts ==
  /\ \A h, g \in Openers : opener[h] \in Starting /\ opener[g] \in Starting => h = g
  /\ \A h \in Openers :
       /\ opener[h] \in {"lock", "recheck", "wipe", "store"} => users = {h}
       /\ opener[h] \in {"unlock", "ready"} => ring.constructed
       /\ opener[h] = "check" => users = {h} \/ ring.constructed

HeadInv == HeadTypeOK /\ Here /\ (calm => OneStarts /\ BitKept)

\* A step of a handle that is not connected before or after it, which leaves
\* the connections alone.
LEMMA BitsStay ==
  ASSUME BitKept, bit' = bit, ring'.cc = ring.cc
  PROVE  BitKept'
  BY DEF BitKept

\* The steps of init.
Starts(h) ==
  \/ init_check(h) \/ init_lock(h) \/ init_recheck(h) \/ construct(h) \/ init_store(h) \/ init_unlock(h)

\* A handle goes through init.
LEMMA StartStep ==
  ASSUME HeadInv, NEW h \in Openers, Starts(h)
  PROVE  HeadInv'
  <1>t. HeadTypeOK /\ Here
    BY DEF HeadInv
  <1>1. calm' = calm /\ users' = users /\ bit' = bit /\ opener[h] \in Starting
    BY DEF Starts, init_check, init_lock, init_recheck, construct, init_store, init_unlock, To, Starting
  <1>2. PICK to \in Mapped : opener' = [opener EXCEPT ![h] = to]
    BY <1>t DEF Starts, init_check, init_lock, init_recheck, construct, init_store, init_unlock, To,
                Mapped, Starting
  <1>3. /\ opener' \in [Openers -> Mapped \cup {"none", "again", "open", "invalid"}]
        /\ opener'[h] = to /\ \A g \in Openers : g # h => opener'[g] = opener[g]
    BY <1>t, <1>2 DEF HeadTypeOK
  <1>4. Here'
    <2>1. "ready" \notin Starting
      BY DEF Starting
    <2> QED BY <1>t, <1>1, <1>2, <1>3, <2>1 DEF Here, Mapped
  <1>5. HeadTypeOK'
    <2>1. wiping' \in [Openers -> SUBSET {"lc", "constructed", "cc"}]
      <3>1. CASE init_recheck(h)
        <4>1. DOMAIN ring = {"lc", "constructed", "cc"}
          BY <1>t DEF HeadTypeOK, HeadRecords
        <4> QED BY <3>1, <4>1, <1>t DEF init_recheck, HeadTypeOK
      <3>2. CASE construct(h)
        BY <3>2, <1>t DEF construct, HeadTypeOK
      <3> QED BY <3>1, <3>2, <1>t DEF Starts, init_check, init_lock, init_store, init_unlock, HeadTypeOK
    <2>2. ring' \in HeadRecords
      <3>1. CASE construct(h)
        <4>1. PICK m \in wiping[h] : ring' = [ring EXCEPT ![m] = Fresh[m]]
          BY <3>1 DEF construct
        <4>2. m \in {"lc", "constructed", "cc"}
          BY <1>t, <4>1 DEF HeadTypeOK
        <4>3. CASE m = "lc"
          BY <1>t, <4>1, <4>3 DEF HeadTypeOK, HeadRecords, Fresh
        <4>4. CASE m = "constructed"
          BY <1>t, <4>1, <4>4 DEF HeadTypeOK, HeadRecords, Fresh
        <4>5. CASE m = "cc"
          BY <1>t, <4>1, <4>5 DEF HeadTypeOK, HeadRecords, Fresh
        <4> QED BY <4>2, <4>3, <4>4, <4>5
      <3> QED BY <3>1, <1>t DEF Starts, init_check, init_lock, init_recheck, init_store, init_unlock,
                                HeadTypeOK, HeadRecords
    <2> QED BY <1>t, <1>1, <1>3, <2>1, <2>2 DEF HeadTypeOK
  <1>6. ASSUME calm' PROVE OneStarts' /\ BitKept'
    <2>0. OneStarts /\ BitKept
      BY <1>1, <1>6 DEF HeadInv
    <2>1. \A g, k \in Openers : opener'[g] \in Starting /\ opener'[k] \in Starting => g = k
      BY <2>0, <1>1, <1>3 DEF OneStarts
    \* The others are not in init.
    <2>2. \A g \in Openers : g # h => opener[g] \notin Starting
      BY <2>0, <1>1 DEF OneStarts
    <2>3. h \in users
      BY <1>t, <1>1 DEF Here, Mapped
    \* Nobody else has the ring, or it is constructed and stays so.
    <2>4. CASE init_check(h)
      <3>1. ring' = ring /\ opener[h] = "check" /\ to = (IF ring.constructed THEN "ready" ELSE "lock")
        BY <2>4, <1>3, <1>t DEF init_check, To, HeadTypeOK
      <3>2. OneStarts'
        BY <1>1, <1>3, <2>0, <2>1, <2>2, <3>1 DEF OneStarts, Starting
      <3> QED BY <1>1, <2>0, <3>1, <3>2, BitsStay
    <2>5. CASE init_lock(h)
      <3>1. /\ ring' = [ring EXCEPT !.lc = TRUE] /\ opener[h] = "lock" /\ to = "recheck"
        BY <2>5, <1>3, <1>t DEF init_lock, To, HeadTypeOK
      <3>2. ring'.constructed = ring.constructed /\ ring'.cc = ring.cc
        BY <1>t, <3>1 DEF HeadTypeOK, HeadRecords
      <3>3. OneStarts'
        BY <1>1, <1>3, <2>0, <2>1, <2>2, <3>1, <3>2 DEF OneStarts, Starting
      <3> QED BY <1>1, <2>0, <3>2, <3>3, BitsStay
    <2>6. CASE init_recheck(h)
      <3>1. ring' = ring /\ opener[h] = "recheck" /\ to = (IF ring.constructed THEN "unlock" ELSE "wipe")
        BY <2>6, <1>3, <1>t DEF init_recheck, To, HeadTypeOK
      <3>2. OneStarts'
        BY <1>1, <1>3, <2>0, <2>1, <2>2, <3>1 DEF OneStarts, Starting
      <3> QED BY <1>1, <2>0, <3>1, <3>2, BitsStay
    <2>7. CASE construct(h)
      <3>1. opener[h] = "wipe" /\ to \in {"wipe", "store"}
        BY <2>7, <1>3, <1>t DEF construct, HeadTypeOK
      <3>2. users = {h}
        BY <2>0, <3>1 DEF OneStarts
      <3>3. \A g \in Openers : opener'[g] \notin {"ready", "unlock", "check"}
        <4>1. \A g \in Openers : g # h => opener[g] \notin Mapped
          BY <1>t, <3>2 DEF Here
        <4> QED BY <1>3, <3>1, <4>1 DEF Mapped, Starting
      <3>4. \A g \in Openers : bit'[g] = Slots
        BY <1>4, <3>3 DEF Here
      <3>5. \A g \in Openers : opener'[g] \in {"lock", "recheck", "wipe", "store"} => users' = {g}
        BY <1>1, <1>3, <2>2, <3>2 DEF Starting
      <3>6. OneStarts'
        BY <2>1, <3>3, <3>5 DEF OneStarts
      <3> QED BY <3>4, <3>6 DEF BitKept
    <2>8. CASE init_store(h)
      <3>1. /\ ring' = [ring EXCEPT !.constructed = TRUE] /\ opener[h] = "store" /\ to = "unlock"
        BY <2>8, <1>3, <1>t DEF init_store, To, HeadTypeOK
      <3>2. ring'.constructed /\ ring'.cc = ring.cc
        BY <1>t, <3>1 DEF HeadTypeOK, HeadRecords
      <3>3. OneStarts'
        BY <1>1, <1>3, <2>0, <2>1, <2>2, <3>1, <3>2 DEF OneStarts, Starting
      <3> QED BY <1>1, <2>0, <3>2, <3>3, BitsStay
    <2>9. CASE init_unlock(h)
      <3>1. /\ ring' = [ring EXCEPT !.lc = FALSE] /\ opener[h] = "unlock" /\ to = "ready"
        BY <2>9, <1>3, <1>t DEF init_unlock, To, HeadTypeOK
      <3>2. ring'.constructed = ring.constructed /\ ring'.cc = ring.cc
        BY <1>t, <3>1 DEF HeadTypeOK, HeadRecords
      <3>3. OneStarts'
        BY <1>1, <1>3, <2>0, <2>1, <2>2, <3>1, <3>2 DEF OneStarts, Starting
      <3> QED BY <1>1, <2>0, <3>2, <3>3, BitsStay
    <2> QED BY <2>4, <2>5, <2>6, <2>7, <2>8, <2>9 DEF Starts
  <1> QED BY <1>4, <1>5, <1>6 DEF HeadInv

\* A handle that has not mapped the ring, before and after.
LEMMA OutsideStep ==
  ASSUME HeadInv, NEW h \in Openers,
         identify(h) \/ identify_again(h) \/ open_fails(h) \/ reopen(h)
  PROVE  HeadInv'
  <1>t. HeadTypeOK /\ Here
    BY DEF HeadInv
  <1>1. /\ calm' = calm /\ users' = users /\ bit' = bit /\ ring' = ring /\ wiping' = wiping
        /\ opener[h] \in {"none", "again", "open", "invalid"}
    BY DEF identify, identify_again, open_fails, reopen, To
  <1>2. PICK to \in {"again", "open", "invalid"} : opener' = [opener EXCEPT ![h] = to]
    BY DEF identify, identify_again, open_fails, reopen, To
  <1>3. /\ opener' \in [Openers -> Mapped \cup {"none", "again", "open", "invalid"}]
        /\ opener'[h] = to /\ \A g \in Openers : g # h => opener'[g] = opener[g]
    BY <1>t, <1>2 DEF HeadTypeOK
  <1>4. HeadTypeOK'
    BY <1>t, <1>1, <1>3 DEF HeadTypeOK
  <1>5. Here'
    BY <1>t, <1>1, <1>3 DEF Here, Mapped, Starting
  <1>6. OneStarts => OneStarts'
    BY <1>1, <1>3 DEF OneStarts, Starting
  <1>7. BitKept => BitKept'
    BY <1>1, BitsStay
  <1> QED BY <1>1, <1>4, <1>5, <1>6, <1>7 DEF HeadInv

\* A handle maps the ring.
LEMMA OpenStep ==
  ASSUME HeadInv, NEW h \in Openers, open(h)
  PROVE  HeadInv'
  <1>t. HeadTypeOK /\ Here
    BY DEF HeadInv
  <1>1. /\ opener[h] = "open" /\ opener' = [opener EXCEPT ![h] = "check"]
        /\ users' = users \cup {h} /\ ring' = (IF users = {} THEN Fresh ELSE ring)
        /\ bit' = bit /\ wiping' = wiping
    BY DEF open, To
  <1>2. /\ opener' \in [Openers -> Mapped \cup {"none", "again", "open", "invalid"}]
        /\ opener'[h] = "check" /\ \A g \in Openers : g # h => opener'[g] = opener[g]
    BY <1>t, <1>1 DEF HeadTypeOK, Mapped, Starting
  <1>3. Fresh \in HeadRecords /\ Fresh.cc = {}
    BY DEF Fresh, HeadRecords
  <1>4. HeadTypeOK'
    BY <1>t, <1>1, <1>2, <1>3 DEF HeadTypeOK
  <1>5. Here'
    BY <1>t, <1>1, <1>2 DEF Here, Mapped, Starting
  <1>6. ASSUME calm' PROVE OneStarts' /\ BitKept'
    <2>1. OneStarts /\ BitKept /\ \A g \in users : opener[g] \notin Starting
      BY <1>6 DEF open, HeadInv
    <2>2. \A g \in Openers : opener[g] \notin Starting
      BY <1>t, <2>1 DEF Here, Mapped
    <2>3. \A g \in Openers : opener'[g] \in Starting => g = h
      BY <1>2, <2>2
    <2>4. CASE users = {}
      <3>1. \A g \in Openers : opener[g] \notin Mapped
        BY <1>t, <2>4 DEF Here
      <3>2. \A g \in Openers : opener'[g] # "ready" /\ bit'[g] = Slots
        BY <1>t, <1>1, <1>2, <3>1 DEF Here, Mapped
      <3>3. users' = {h}
        BY <1>1, <2>4
      <3>4. OneStarts'
        BY <1>2, <2>3, <3>2, <3>3 DEF OneStarts, Starting
      <3> QED BY <3>2, <3>4 DEF BitKept
    <2>5. CASE users # {}
      <3>1. PICK g \in users : TRUE
        BY <2>5
      <3>2. g \in Openers /\ opener[g] = "ready"
        BY <1>t, <2>2, <3>1 DEF Here, HeadTypeOK, Mapped
      <3>3. ring' = ring /\ ring.constructed
        BY <1>1, <2>1, <2>5, <3>2 DEF OneStarts
      <3>4. OneStarts'
        BY <1>2, <2>3, <3>3 DEF OneStarts, Starting
      <3> QED BY <1>1, <2>1, <3>3, <3>4, BitsStay
    <2> QED BY <2>4, <2>5
  <1> QED BY <1>4, <1>5, <1>6 DEF HeadInv

\* A handle connects: the bit it gets was nobody's.
LEMMA ConnectStep ==
  ASSUME HeadInv, NEW h \in Openers, connect(h)
  PROVE  HeadInv'
  <1> DEFINE free == (0 .. Slots - 1) \ ring.cc
  <1>t. HeadTypeOK /\ Here /\ Slots \in Nat
    BY ConnAssumption DEF HeadInv
  <1>1. /\ opener[h] = "ready" /\ opener' = opener /\ calm' = calm /\ users' = users
        /\ wiping' = wiping
        /\ bit' = [bit EXCEPT ![h] = IF free = {} THEN Slots ELSE Min(free)]
        /\ ring' = [ring EXCEPT !.cc = IF free = {} THEN @ ELSE @ \cup {Min(free)}]
    BY DEF connect
  <1>2. free # {} => Min(free) \in free
    <2>1. free \subseteq Nat
      BY <1>t
    <2> HIDE DEF free
    <2>2. free # {} => \E x \in free : \A y \in free : x <= y
      BY <2>1, LeastNumber
    <2> QED BY <2>2 DEF Min
  <1>3. ring.cc \subseteq 0 .. Slots - 1
    BY <1>t DEF HeadTypeOK, HeadRecords
  <1> DEFINE new == IF free = {} THEN Slots ELSE Min(free)
  <1>4. new \in 0 .. Slots /\ new \notin ring.cc
    BY <1>t, <1>2, <1>3
  <1>5. /\ bit' = [bit EXCEPT ![h] = new] /\ ring'.constructed = ring.constructed
        /\ ring'.cc = (IF new = Slots THEN ring.cc ELSE ring.cc \cup {new})
        /\ ring' \in HeadRecords
    <2>1. free # {} => Min(free) \in 0 .. Slots - 1
      BY <1>2
    <2> HIDE DEF free
    <2>2. ring'.cc = (IF free = {} THEN ring.cc ELSE ring.cc \cup {Min(free)})
            /\ ring'.constructed = ring.constructed /\ ring'.lc = ring.lc /\ ring' \in HeadRecords
      BY <1>t, <1>1, <1>3, <2>1 DEF HeadTypeOK, HeadRecords
    <2> QED BY <1>t, <1>1, <2>1, <2>2
  <1> HIDE DEF new, free
  <1>6. HeadTypeOK'
    BY <1>t, <1>1, <1>4, <1>5 DEF HeadTypeOK
  <1>7. Here'
    BY <1>t, <1>1, <1>5 DEF Here, HeadTypeOK
  <1>8. OneStarts => OneStarts'
    BY <1>1, <1>5 DEF OneStarts
  <1>9. BitKept => BitKept'
    <2> SUFFICES ASSUME BitKept PROVE BitKept'
      OBVIOUS
    <2>1. bit'[h] = new /\ \A g \in Openers : g # h => bit'[g] = bit[g]
      BY <1>t, <1>5 DEF HeadTypeOK
    <2>2. \A g \in Openers : (g # h /\ bit[g] # Slots) => bit[g] \in ring.cc
      BY DEF BitKept
    <2> QED BY <1>4, <1>5, <2>1, <2>2 DEF BitKept
  <1> QED BY <1>1, <1>6, <1>7, <1>8, <1>9 DEF HeadInv

\* A handle disconnects, or closes with or without doing so: no bit but its
\* own goes.
LEMMA DisconnectStep ==
  ASSUME HeadInv, NEW h \in Openers, disconnect(h) \/ close(h)
  PROVE  HeadInv'
  <1>t. HeadTypeOK /\ Here /\ Slots \in Nat
    BY ConnAssumption DEF HeadInv
  <1>1. /\ opener[h] = "ready" /\ calm' = calm /\ wiping' = wiping
        /\ bit' = [bit EXCEPT ![h] = Slots]
    BY DEF disconnect, close, To
  <1>2. PICK bits \in {ring.cc, ring.cc \ {bit[h]}} : ring' = [ring EXCEPT !.cc = bits]
    BY DEF disconnect, close
  <1>3. /\ ring' \in HeadRecords /\ ring'.cc = bits /\ ring'.constructed = ring.constructed
    BY <1>t, <1>2 DEF HeadTypeOK, HeadRecords
  <1>4. /\ bit'[h] = Slots /\ bit' \in [Openers -> 0 .. Slots]
        /\ \A g \in Openers : g # h => bit'[g] = bit[g]
    BY <1>t, <1>1 DEF HeadTypeOK
  <1>5. PICK to \in {"ready", "none"} :
          /\ opener' = [opener EXCEPT ![h] = to]
          /\ users' = IF to = "none" THEN users \ {h} ELSE users
    <2>1. CASE disconnect(h)
      <3>1. opener' = [opener EXCEPT ![h] = "ready"] /\ users' = users
        BY <2>1, <1>1, <1>t DEF disconnect, HeadTypeOK
      <3> QED BY <3>1
    <2>2. CASE close(h)
      BY <2>2 DEF close, To
    <2> QED BY <2>1, <2>2
  <1>6. /\ opener' \in [Openers -> Mapped \cup {"none", "again", "open", "invalid"}]
        /\ opener'[h] = to /\ \A g \in Openers : g # h => opener'[g] = opener[g]
    BY <1>t, <1>5 DEF HeadTypeOK, Mapped
  <1>7. HeadTypeOK'
    <2>1. users' \subseteq Openers
      BY <1>t, <1>5 DEF HeadTypeOK
    <2> QED BY <1>t, <1>1, <1>3, <1>4, <1>6, <2>1 DEF HeadTypeOK
  <1>8. Here'
    <2>1. (h \in users') <=> (to \in Mapped)
      BY <1>t, <1>1, <1>5 DEF Here, Mapped, Starting
    <2> QED BY <1>t, <1>4, <1>5, <1>6, <2>1 DEF Here
  <1>9. OneStarts => OneStarts'
    <2> SUFFICES ASSUME OneStarts PROVE OneStarts'
      OBVIOUS
    <2>0. h \in users
      BY <1>t, <1>1 DEF Here, Mapped
    <2>1. \A g \in Openers : opener[g] \notin {"lock", "recheck", "wipe", "store"}
      <3>1. \A g \in Openers : opener[g] \in {"lock", "recheck", "wipe", "store"} => g = h
        BY <2>0 DEF OneStarts
      <3> QED BY <1>1, <3>1
    <2>2. ring.constructed
      BY <1>1 DEF OneStarts
    <2> QED BY <1>3, <1>6, <2>1, <2>2 DEF OneStarts, Starting
  <1>10. BitKept => BitKept'
    BY <1>2, <1>3, <1>4 DEF BitKept
  <1> QED BY <1>1, <1>7, <1>8, <1>9, <1>10 DEF HeadInv

\* Handles are told apart by identities that are not 0, and a ring that is
\* constructed by one handle before the next one opens it loses no connection.
THEOREM HandlesToldApart == ConnSpec /\ []NotOvertaken => []ToldApart
  <1> DEFINE Inv == IdTypeOK /\ Numbered /\ NonZero /\ HeadInv
  <1>1. RingInit => Inv
    <2> SUFFICES ASSUME RingInit PROVE Inv
      OBVIOUS
    <2>0. Slots \in Nat /\ IdWrap \in Nat \ {0}
      BY ConnAssumption
    <2>1. 0 % IdWrap = 0
      BY <2>0, Small
    <2>2. Fresh \in HeadRecords
      BY DEF Fresh, HeadRecords
    <2>3. IdTypeOK /\ Numbered /\ NonZero
      BY <2>1 DEF RingInit, IdTypeOK, Numbered, NonZero
    <2>4. HeadTypeOK
      BY <2>0, <2>2 DEF RingInit, HeadTypeOK
    <2>5. Here /\ OneStarts /\ BitKept
      BY DEF RingInit, Here, OneStarts, BitKept, Mapped, Starting
    <2> QED BY <2>3, <2>4, <2>5 DEF HeadInv
  <1>2. Inv /\ NotOvertaken /\ [ConnNext]_connVars => Inv'
    <2> SUFFICES ASSUME Inv, NotOvertaken, [ConnNext]_connVars PROVE Inv'
      OBVIOUS
    <2>1. [RingNext]_ringVars
      BY DEF ConnNext, connVars
    <2>2. IdTypeOK' /\ Numbered' /\ NonZero'
      BY <2>1, NumberedStep
    <2>3. HeadInv'
      <3>1. CASE UNCHANGED ringVars
        BY <3>1 DEF ringVars, HeadInv, HeadTypeOK, Here, OneStarts, BitKept
      <3>2. CASE RingNext
        BY <3>2, OutsideStep, OpenStep, StartStep, ConnectStep, DisconnectStep DEF RingNext, Starts
      <3> QED BY <2>1, <3>1, <3>2
    <2> QED BY <2>2, <2>3
  <1>3. Inv => ToldApart
    <2> SUFFICES ASSUME Inv PROVE ToldApart
      OBVIOUS
    <2>1. ASSUME NEW h \in Openers, NEW g \in Openers, h # g, ident[h] # 0, ident[h] = ident[g]
          PROVE  ~(born[g] - born[h] \in 0 .. IdWrap - 2)
      <3>1. /\ born[h] \in Nat /\ born[g] \in Nat /\ IdWrap \in Nat \ {0}
            /\ (born[h] + 1) % IdWrap = (born[g] + 1) % IdWrap /\ born[h] # born[g]
        BY <2>1, ConnAssumption DEF IdTypeOK, Numbered
      <3> SUFFICES ASSUME born[g] - born[h] \in 0 .. IdWrap - 2 PROVE FALSE
        OBVIOUS
      <3>2. /\ born[h] + 1 \in Nat /\ born[g] + 1 \in Nat /\ born[h] + 1 < born[g] + 1
            /\ born[g] + 1 < born[h] + 1 + IdWrap
        BY <3>1
      <3> QED BY <3>1, <3>2, OtherSlot
    <2>2. \A h, g \in Openers : h # g /\ ident[h] # 0 /\ ident[h] = ident[g]
            => ~(born[g] - born[h] \in 0 .. IdWrap - 2) /\ ~(born[h] - born[g] \in 0 .. IdWrap - 2)
      BY <2>1
    <2> QED BY <2>2 DEF ToldApart, NonZero, HeadInv
  <1> HIDE DEF Inv
  <1> QED BY <1>1, <1>2, <1>3, PTL DEF ConnSpec

-----------------------------------------------------------------------------
(* Segments, whatever is in them. *)

HandleRecords == [at : {"null", "opened", "mapped", "held", "failed", "unlink"},
                  seg : 0 .. MaxSegs, mode : OpenModes]
SegRecords == [sized : BOOLEAN, acc : Int, init : BOOLEAN, owner : Objs \cup {Nobody}]

SegTypeOK ==
  /\ created \in 0 .. MaxSegs /\ linked \in 0 .. created
  /\ segs \in [1 .. MaxSegs -> SegRecords]
  /\ hnd \in [SegHandles -> HandleRecords]
  /\ \A h \in SegHandles : hnd[h].at # "null" => hnd[h].seg \in 1 .. created

HeldOn(s) == {h \in SegHandles : hnd[h].at = "held" /\ hnd[h].seg = s}

\* acc_ counts the handles that hold the segment.
AccCounts == \A s \in 1 .. MaxSegs : segs[s].acc = Cardinality(HeldOn(s))

\* A segment that is linked has a user that goes on to be counted, or the name
\* is about to go.
Backs(h) ==
  /\ hnd[h].seg = linked /\ hnd[h].at \in {"opened", "mapped", "held"}
  /\ (hnd[h].at = "opened" /\ hnd[h].mode = "open") => segs[linked].sized
Backed == linked # 0 => \E h \in SegHandles : hnd[h].at = "unlink" \/ Backs(h)

SegInv == SegTypeOK /\ AccCounts /\ Backed

\* A step that changes at most what is in the segments.
Inside ==
  /\ UNCHANGED <<linked, created, hnd, raced>>
  /\ segs' \in [1 .. MaxSegs -> SegRecords]
  /\ \A s \in 1 .. MaxSegs : segs'[s].acc = segs[s].acc /\ segs'[s].sized = segs[s].sized

\* What a step does to the segments and the handle of h.
SegStep(h) ==
  \/ \E md \in OpenModes : shm_open(h, md)
  \/ get_mem(h)
  \/ \E i \in BOOLEAN : count(h, i)
  \/ release(h)
  \/ remove(h)
  \/ unlink(h)
  \/ clear_storage

\* The process of an object is one with a handle.
LEMMA ProcIn ==
  ASSUME NEW m \in Objs
  PROVE  Proc(m) \in SegHandles
  BY SyncAssumption DEF Proc

\* A handle that comes to hold a segment is one more.
LEMMA OneMore ==
  ASSUME NEW S, NEW T, IsFiniteSet(S), NEW x, x \notin S, T = S \cup {x}
  PROVE  IsFiniteSet(T) /\ Cardinality(T) = Cardinality(S) + 1
  BY FS_AddElement

\* One that gives it up is one less.
LEMMA OneLess ==
  ASSUME NEW S, NEW T, IsFiniteSet(S), NEW x \in S, T = S \ {x}
  PROVE  IsFiniteSet(T) /\ Cardinality(T) = Cardinality(S) - 1
  BY FS_RemoveElement

\* The users of a segment are finitely many.
LEMMA HeldFinite ==
  ASSUME NEW s
  PROVE  IsFiniteSet(HeldOn(s)) /\ Cardinality(HeldOn(s)) \in Nat
  <1>1. HeldOn(s) \subseteq SegHandles
    BY DEF HeldOn
  <1> QED BY <1>1, SyncAssumption, FS_Subset, FS_CardinalityType

\* The records keep their types.
LEMMA RecordTypes ==
  ASSUME SegTypeOK, NEW h \in SegHandles
  PROVE  /\ hnd[h].at \in {"null", "opened", "mapped", "held", "failed", "unlink"}
         /\ hnd[h].seg \in 0 .. MaxSegs /\ hnd[h].mode \in OpenModes
         /\ Null \in HandleRecords
         /\ \A a \in {"null", "opened", "mapped", "held", "failed", "unlink"}, s \in 0 .. MaxSegs, m \in OpenModes :
              [at |-> a, seg |-> s, mode |-> m] \in HandleRecords
         /\ \A r \in HandleRecords : [hnd EXCEPT ![h] = r] \in [SegHandles -> HandleRecords]
  <1>1. hnd[h] \in HandleRecords
    BY DEF SegTypeOK
  <1>2. Null \in HandleRecords
    BY SegmentAssumption DEF HandleRecords, Null, OpenModes
  <1>3. \A r \in HandleRecords : [hnd EXCEPT ![h] = r] \in [SegHandles -> HandleRecords]
    BY DEF SegTypeOK
  <1> QED BY <1>1, <1>2, <1>3 DEF HandleRecords

\* A handle that only goes on.
LEMMA AtTypes ==
  ASSUME SegTypeOK, NEW h \in SegHandles,
         NEW a \in {"null", "opened", "mapped", "held", "failed", "unlink"}
  PROVE  /\ [hnd EXCEPT ![h].at = a] \in [SegHandles -> HandleRecords]
         /\ [hnd EXCEPT ![h].at = a] = [hnd EXCEPT ![h] = [at |-> a, seg |-> hnd[h].seg, mode |-> hnd[h].mode]]
  <1>1. hnd[h] \in HandleRecords /\ hnd \in [SegHandles -> HandleRecords]
    BY DEF SegTypeOK
  <1>2. [hnd[h] EXCEPT !.at = a] = [at |-> a, seg |-> hnd[h].seg, mode |-> hnd[h].mode]
    BY <1>1 DEF HandleRecords
  <1>3. [hnd EXCEPT ![h].at = a] = [hnd EXCEPT ![h] = [hnd[h] EXCEPT !.at = a]]
    BY <1>1
  <1>4. [at |-> a, seg |-> hnd[h].seg, mode |-> hnd[h].mode] \in HandleRecords
    BY <1>1 DEF HandleRecords
  <1> QED BY <1>1, <1>2, <1>3, <1>4

\* The handle of h goes over to a, at segment s.
Moves(h, a, s, m) == hnd' = [hnd EXCEPT ![h] = [at |-> a, seg |-> s, mode |-> m]]

\* Segment s has count c and length z now, and is as it was otherwise.
Counts(s, c, z) ==
  segs' = [segs EXCEPT ![s] = [sized |-> z, acc |-> c, init |-> segs[s].init, owner |-> segs[s].owner]]

\* The segments and their handles after each operation.
Opened(h, md) ==
  /\ hnd[h].at = "null" /\ segs' = segs
  /\ \/ md # "create|open" /\ UNCHANGED <<linked, created, hnd, raced>>
     \/ /\ linked = 0 /\ md # "open" /\ created < MaxSegs
        /\ created' = created + 1 /\ linked' = created + 1
        /\ Moves(h, "opened", created + 1, md)
        /\ (raced \/ GivingUp(h) => raced')
     \/ /\ linked # 0 /\ UNCHANGED <<linked, created>>
        /\ Moves(h, "opened", linked, md)
        /\ (raced \/ GivingUp(h) => raced')
Sized(h) ==
  LET s == hnd[h].seg IN
  /\ hnd[h].at = "opened" /\ UNCHANGED <<linked, created, raced>>
  /\ \/ /\ hnd[h].mode = "open" /\ ~segs[s].sized /\ segs' = segs
        /\ Moves(h, "failed", s, hnd[h].mode)
     \/ /\ hnd[h].mode # "open" \/ segs[s].sized
        /\ Counts(s, segs[s].acc, TRUE) /\ Moves(h, "mapped", s, hnd[h].mode)
CountedIn(h, i) ==
  LET s == hnd[h].seg IN
  /\ hnd[h].at = "mapped" /\ UNCHANGED <<linked, created>> /\ (raced \/ i => raced')
  /\ Counts(s, segs[s].acc + 1, segs[s].sized) /\ Moves(h, "held", s, hnd[h].mode)
Released(h) ==
  LET s == hnd[h].seg IN
  /\ UNCHANGED <<linked, created>>
  /\ \/ /\ hnd[h].at = "failed" /\ segs' = segs /\ (raced => raced')
        /\ Moves(h, "null", 0, "create|open")
     \/ /\ hnd[h].at = "held" /\ segs[s].acc > 1 /\ (raced => raced')
        /\ Counts(s, segs[s].acc - 1, segs[s].sized) /\ Moves(h, "null", 0, "create|open")
     \/ /\ hnd[h].at = "held" /\ segs[s].acc <= 1 /\ (raced \/ Users(s) # {h} => raced')
        /\ Counts(s, segs[s].acc - 1, segs[s].sized) /\ Moves(h, "unlink", s, hnd[h].mode)
Removed(h) ==
  LET s == hnd[h].seg IN
  /\ UNCHANGED <<linked, created>> /\ (raced \/ Users(s) \ {h} # {} => raced')
  /\ Moves(h, "unlink", s, hnd[h].mode)
  /\ \/ hnd[h].at = "failed" /\ segs' = segs
     \/ hnd[h].at = "held" /\ Counts(s, segs[s].acc - 1, segs[s].sized)

\* A segment in use is one of the bounded many.
LEMMA SegIn ==
  ASSUME SegTypeOK, NEW h \in SegHandles, hnd[h].at # "null"
  PROVE  hnd[h].seg \in 1 .. MaxSegs /\ hnd[h].seg \in 1 .. created /\ segs[hnd[h].seg] \in SegRecords
  BY SegmentAssumption DEF SegTypeOK

\* Changing a field of a segment.
LEMMA FieldChange ==
  ASSUME SegTypeOK, NEW s \in 1 .. MaxSegs, NEW c, NEW z
  PROVE  /\ [segs EXCEPT ![s].acc = c] =
              [segs EXCEPT ![s] = [sized |-> segs[s].sized, acc |-> c, init |-> segs[s].init, owner |-> segs[s].owner]]
         /\ [segs EXCEPT ![s].sized = z] =
              [segs EXCEPT ![s] = [sized |-> z, acc |-> segs[s].acc, init |-> segs[s].init, owner |-> segs[s].owner]]
  <1>1. segs[s] \in SegRecords
    BY DEF SegTypeOK
  <1>2. [segs[s] EXCEPT !.acc = c] = [sized |-> segs[s].sized, acc |-> c, init |-> segs[s].init, owner |-> segs[s].owner]
    BY <1>1 DEF SegRecords
  <1>3. [segs[s] EXCEPT !.sized = z] = [sized |-> z, acc |-> segs[s].acc, init |-> segs[s].init, owner |-> segs[s].owner]
    BY <1>1 DEF SegRecords
  <1>4. [segs EXCEPT ![s].acc = c] = [segs EXCEPT ![s] = [segs[s] EXCEPT !.acc = c]]
    BY DEF SegTypeOK
  <1>5. [segs EXCEPT ![s].sized = z] = [segs EXCEPT ![s] = [segs[s] EXCEPT !.sized = z]]
    BY DEF SegTypeOK
  <1> QED BY <1>2, <1>3, <1>4, <1>5

\* shm_open.
LEMMA OpenEffect ==
  ASSUME SegTypeOK, NEW h \in SegHandles, NEW md \in OpenModes, shm_open(h, md)
  PROVE  Opened(h, md)
  <1>1. CASE linked = 0
    BY <1>1 DEF shm_open, Opened, Moves
  <1>2. CASE linked # 0
    BY <1>2 DEF shm_open, Opened, Moves
  <1> QED BY <1>1, <1>2

\* get_mem up to mmap.
LEMMA SizeEffect ==
  ASSUME SegTypeOK, NEW h \in SegHandles, get_mem(h)
  PROVE  Sized(h)
  <1>1. hnd[h].seg \in 1 .. MaxSegs
    BY SegIn DEF get_mem
  <1>2. CASE hnd[h].mode = "open" /\ ~segs[hnd[h].seg].sized
    <2>1. hnd' = [hnd EXCEPT ![h].at = "failed"] /\ segs' = segs
      BY <1>2 DEF get_mem
    <2> QED BY <1>2, <2>1, AtTypes DEF get_mem, Sized, Moves
  <1>3. CASE ~(hnd[h].mode = "open" /\ ~segs[hnd[h].seg].sized)
    <2>1. hnd' = [hnd EXCEPT ![h].at = "mapped"] /\ segs' = [segs EXCEPT ![hnd[h].seg].sized = TRUE]
      BY <1>3 DEF get_mem
    <2>2. Counts(hnd[h].seg, segs[hnd[h].seg].acc, TRUE)
      BY <1>1, <2>1, FieldChange DEF Counts
    <2>3. Moves(h, "mapped", hnd[h].seg, hnd[h].mode)
      BY <2>1, AtTypes DEF Moves
    <2> QED BY <1>3, <2>2, <2>3 DEF get_mem, Sized
  <1> QED BY <1>2, <1>3

\* acc_.fetch_add.
LEMMA CountEffect ==
  ASSUME SegTypeOK, NEW h \in SegHandles, NEW i, count(h, i)
  PROVE  CountedIn(h, i)
  <1>1. hnd[h].seg \in 1 .. MaxSegs
    BY SegIn DEF count
  <1>2. hnd' = [hnd EXCEPT ![h].at = "held"] /\ segs' = [segs EXCEPT ![hnd[h].seg].acc = segs[hnd[h].seg].acc + 1]
    BY <1>1 DEF count, SegTypeOK
  <1>3. Counts(hnd[h].seg, segs[hnd[h].seg].acc + 1, segs[hnd[h].seg].sized)
    BY <1>1, <1>2, FieldChange DEF Counts
  <1>4. Moves(h, "held", hnd[h].seg, hnd[h].mode)
    BY <1>2, AtTypes DEF Moves
  <1> QED BY <1>3, <1>4 DEF count, CountedIn

\* release without shm_unlink.
LEMMA ReleaseEffect ==
  ASSUME SegTypeOK, NEW h \in SegHandles, release(h)
  PROVE  Released(h)
  <1> DEFINE s == hnd[h].seg
  <1>1. s \in 1 .. MaxSegs /\ hnd[h].at \in {"held", "failed"} /\ segs[s] \in SegRecords
    BY SegIn DEF release
  <1>2. Null = [at |-> "null", seg |-> 0, mode |-> "create|open"]
    BY DEF Null
  <1>3. UNCHANGED <<linked, created>>
    BY DEF release
  <1>4. CASE hnd[h].at = "failed"
    <2>1. segs' = [segs EXCEPT ![s].acc = segs[s].acc]
      BY <1>1, <1>4 DEF release, SegTypeOK
    <2>2. segs' = segs
      BY <1>1, <2>1, FieldChange DEF SegTypeOK, SegRecords
    <2>3. Moves(h, "null", 0, "create|open") /\ (raced => raced')
      BY <1>2, <1>4 DEF release, Moves
    <2> QED BY <1>3, <1>4, <2>2, <2>3 DEF Released
  <1>5. CASE hnd[h].at = "held"
    <2>1. segs' = [segs EXCEPT ![s].acc = segs[s].acc - 1]
      BY <1>1, <1>5 DEF release, SegTypeOK
    <2>2. Counts(s, segs[s].acc - 1, segs[s].sized)
      BY <1>1, <2>1, FieldChange DEF Counts
    <2>3. CASE segs[s].acc <= 1
      <3>1. hnd' = [hnd EXCEPT ![h] = [hnd[h] EXCEPT !.at = "unlink"]] /\ raced' = (raced \/ Users(s) # {h})
        BY <1>5, <2>3 DEF release, SegTypeOK
      <3>2. [hnd[h] EXCEPT !.at = "unlink"] = [at |-> "unlink", seg |-> s, mode |-> hnd[h].mode]
        BY DEF SegTypeOK, HandleRecords
      <3> QED BY <1>3, <1>5, <2>2, <2>3, <3>1, <3>2 DEF Released, Moves
    <2>4. CASE ~(segs[s].acc <= 1)
      <3>1. hnd' = [hnd EXCEPT ![h] = Null] /\ (raced => raced')
        BY <1>5, <2>4 DEF release
      <3>2. segs[s].acc > 1
        BY <1>1, <2>4 DEF SegRecords
      <3> QED BY <1>2, <1>3, <1>5, <2>2, <3>1, <3>2 DEF Released, Moves
    <2> QED BY <2>3, <2>4
  <1> QED BY <1>1, <1>4, <1>5

\* remove(id) without shm_unlink.
LEMMA RemoveEffect ==
  ASSUME SegTypeOK, NEW h \in SegHandles, remove(h)
  PROVE  Removed(h)
  <1> DEFINE s == hnd[h].seg
  <1>1. s \in 1 .. MaxSegs /\ hnd[h].at \in {"held", "failed"} /\ segs[s] \in SegRecords
    BY SegIn DEF remove
  <1>2. hnd' = [hnd EXCEPT ![h].at = "unlink"]
    BY DEF remove
  <1>3. Moves(h, "unlink", s, hnd[h].mode)
    BY <1>2, AtTypes DEF Moves
  <1>4. CASE hnd[h].at = "failed"
    <2>1. segs' = [segs EXCEPT ![s].acc = segs[s].acc]
      BY <1>1, <1>4 DEF remove, SegTypeOK
    <2>2. segs' = segs
      BY <1>1, <2>1, FieldChange DEF SegTypeOK, SegRecords
    <2> QED BY <1>3, <1>4, <2>2 DEF Removed, remove
  <1>5. CASE hnd[h].at = "held"
    <2>1. segs' = [segs EXCEPT ![s].acc = segs[s].acc - 1]
      BY <1>1, <1>5 DEF remove, SegTypeOK
    <2>2. Counts(s, segs[s].acc - 1, segs[s].sized)
      BY <1>1, <2>1, FieldChange DEF Counts
    <2> QED BY <1>3, <1>5, <2>2 DEF Removed, remove
  <1> QED BY <1>1, <1>4, <1>5

\* Handles other than h, and what h has come to.
LEMMA MovePoints ==
  ASSUME SegTypeOK, NEW h \in SegHandles, NEW a \in {"null", "opened", "mapped", "held", "failed", "unlink"},
         NEW s \in 0 .. MaxSegs, NEW m \in OpenModes, Moves(h, a, s, m)
  PROVE  /\ hnd' \in [SegHandles -> HandleRecords]
         /\ \A g \in SegHandles \ {h} : hnd'[g] = hnd[g]
         /\ hnd'[h].at = a /\ hnd'[h].seg = s /\ hnd'[h].mode = m
  <1>1. [at |-> a, seg |-> s, mode |-> m] \in HandleRecords
    BY DEF HandleRecords
  <1> QED BY <1>1 DEF SegTypeOK, Moves

\* Segments other than s, and what s has come to.
LEMMA CountPoints ==
  ASSUME SegTypeOK, NEW s \in 1 .. MaxSegs, NEW c \in Int, NEW z \in BOOLEAN, Counts(s, c, z)
  PROVE  /\ segs' \in [1 .. MaxSegs -> SegRecords]
         /\ \A t \in 1 .. MaxSegs \ {s} : segs'[t] = segs[t]
         /\ segs'[s].acc = c /\ segs'[s].sized = z
         /\ segs'[s].init = segs[s].init /\ segs'[s].owner = segs[s].owner
  <1>1. [sized |-> z, acc |-> c, init |-> segs[s].init, owner |-> segs[s].owner] \in SegRecords
    BY DEF SegTypeOK, SegRecords
  <1>2. \A t \in 1 .. MaxSegs \ {s} : segs'[t] = segs[t]
    BY DEF SegTypeOK, Counts
  <1>3. segs' \in [1 .. MaxSegs -> SegRecords]
    BY <1>1 DEF SegTypeOK, Counts
  <1>4. segs'[s] = [sized |-> z, acc |-> c, init |-> segs[s].init, owner |-> segs[s].owner]
    BY DEF SegTypeOK, Counts
  <1> QED BY <1>2, <1>3, <1>4

\* Who holds a segment.
LEMMA HeldMoves ==
  ASSUME SegTypeOK, NEW h \in SegHandles, NEW a \in {"null", "opened", "mapped", "held", "failed", "unlink"},
         NEW s \in 0 .. MaxSegs, NEW m \in OpenModes, Moves(h, a, s, m), NEW t
  PROVE  /\ hnd[h].at # "held" /\ a # "held" => HeldOn(t)' = HeldOn(t)
         /\ hnd[h].at # "held" /\ a = "held" => HeldOn(t)' = IF t = s THEN HeldOn(t) \cup {h} ELSE HeldOn(t)
         /\ hnd[h].at = "held" /\ a # "held" =>
              HeldOn(t)' = IF t = hnd[h].seg THEN HeldOn(t) \ {h} ELSE HeldOn(t)
  BY MovePoints DEF HeldOn

\* A handle that does not come or go leaves the counts.
LEMMA CountsStay ==
  ASSUME SegTypeOK, AccCounts, NEW h \in SegHandles,
         NEW a \in {"null", "opened", "mapped", "failed", "unlink"}, hnd[h].at # "held",
         NEW s \in 0 .. MaxSegs, NEW m \in OpenModes, Moves(h, a, s, m),
         \A t \in 1 .. MaxSegs : segs'[t].acc = segs[t].acc
  PROVE  AccCounts'
  <1>1. \A t : HeldOn(t)' = HeldOn(t)
    BY HeldMoves
  <1> QED BY <1>1 DEF AccCounts

\* One comes.
LEMMA CountsIn ==
  ASSUME SegTypeOK, AccCounts, NEW h \in SegHandles, hnd[h].at \notin {"null", "held"},
         NEW m \in OpenModes, Moves(h, "held", hnd[h].seg, m),
         Counts(hnd[h].seg, segs[hnd[h].seg].acc + 1, segs[hnd[h].seg].sized)
  PROVE  AccCounts'
  <1>1. PICK s \in 1 .. MaxSegs : s = hnd[h].seg
    BY SegIn
  <1>2. h \notin HeldOn(s) /\ IsFiniteSet(HeldOn(s))
    BY HeldFinite DEF HeldOn
  <1>3. HeldOn(s)' = HeldOn(s) \cup {h} /\ \A t \in 1 .. MaxSegs \ {s} : HeldOn(t)' = HeldOn(t)
    BY <1>1, HeldMoves
  <1>4. Cardinality(HeldOn(s)') = Cardinality(HeldOn(s)) + 1
    BY <1>2, <1>3, OneMore
  <1>5. segs[s].acc \in Int /\ segs[s].sized \in BOOLEAN
    BY DEF SegTypeOK, SegRecords
  <1>6. segs'[s].acc = segs[s].acc + 1 /\ \A t \in 1 .. MaxSegs \ {s} : segs'[t] = segs[t]
    BY <1>1, <1>5, CountPoints
  <1> QED BY <1>3, <1>4, <1>6 DEF AccCounts

\* One goes.
LEMMA CountsOut ==
  ASSUME SegTypeOK, AccCounts, NEW h \in SegHandles, hnd[h].at = "held",
         NEW a \in {"null", "unlink"}, NEW r \in 0 .. MaxSegs, NEW m \in OpenModes, Moves(h, a, r, m),
         Counts(hnd[h].seg, segs[hnd[h].seg].acc - 1, segs[hnd[h].seg].sized)
  PROVE  AccCounts'
  <1>1. PICK s \in 1 .. MaxSegs : s = hnd[h].seg
    BY SegIn
  <1>2. h \in HeldOn(s) /\ IsFiniteSet(HeldOn(s))
    BY <1>1, HeldFinite DEF HeldOn
  <1>3. HeldOn(s)' = HeldOn(s) \ {h} /\ \A t \in 1 .. MaxSegs \ {s} : HeldOn(t)' = HeldOn(t)
    BY <1>1, HeldMoves
  <1>4. Cardinality(HeldOn(s)') = Cardinality(HeldOn(s)) - 1
    BY <1>2, <1>3, OneLess
  <1>5. segs[s].acc \in Int /\ segs[s].sized \in BOOLEAN
    BY DEF SegTypeOK, SegRecords
  <1>6. segs'[s].acc = segs[s].acc - 1 /\ \A t \in 1 .. MaxSegs \ {s} : segs'[t] = segs[t]
    BY <1>1, <1>5, CountPoints
  <1> QED BY <1>3, <1>4, <1>6 DEF AccCounts

\* Who finds more than itself is not the only one.
LEMMA AnotherHolds ==
  ASSUME SegTypeOK, AccCounts, NEW h \in SegHandles, hnd[h].at = "held", segs[hnd[h].seg].acc > 1
  PROVE  \E g \in SegHandles \ {h} : hnd[g].at = "held" /\ hnd[g].seg = hnd[h].seg
  <1>1. PICK s \in 1 .. MaxSegs : s = hnd[h].seg
    BY SegIn
  <1>2. Cardinality(HeldOn(s)) > 1
    BY <1>1 DEF AccCounts
  <1>3. HeldOn(s) # {h}
    BY <1>2, FS_Singleton
  <1>4. h \in HeldOn(s)
    BY <1>1 DEF HeldOn
  <1> QED BY <1>1, <1>3, <1>4 DEF HeldOn

\* Who finds only itself is.
LEMMA NobodyElse ==
  ASSUME SegTypeOK, AccCounts, NEW h \in SegHandles, hnd[h].at = "held", segs[hnd[h].seg].acc <= 1
  PROVE  \A g \in SegHandles : hnd[g].at = "held" /\ hnd[g].seg = hnd[h].seg => g = h
  <1>1. PICK s \in 1 .. MaxSegs : s = hnd[h].seg
    BY SegIn
  <1>2. Cardinality(HeldOn(s)) <= 1
    BY <1>1 DEF AccCounts
  <1>3. h \in HeldOn(s) /\ IsFiniteSet(HeldOn(s)) /\ Cardinality(HeldOn(s)) \in Nat
    BY <1>1, HeldFinite DEF HeldOn
  <1>4. Cardinality(HeldOn(s) \ {h}) = Cardinality(HeldOn(s)) - 1 /\ IsFiniteSet(HeldOn(s) \ {h})
    BY <1>3, OneLess
  <1>5. Cardinality(HeldOn(s) \ {h}) \in Nat
    BY <1>4, FS_CardinalityType
  <1>6. HeldOn(s) \ {h} = {}
    BY <1>2, <1>3, <1>4, <1>5, FS_EmptySet
  <1> QED BY <1>1, <1>6 DEF HeldOn

\* The invariant of segments, operation by operation.
LEMMA OpenedKeeps ==
  ASSUME SegInv, NEW h \in SegHandles, NEW md \in OpenModes, Opened(h, md)
  PROVE  SegInv'
  <1> USE DEF SegInv
  <1>1. CASE UNCHANGED <<linked, created, hnd, raced>>
    BY <1>1 DEF Opened, SegTypeOK, AccCounts, HeldOn, Backed, Backs
  <1>2. ASSUME NEW s \in 1 .. MaxSegs, Moves(h, "opened", s, md), segs' = segs, linked' = s,
               created' \in 0 .. MaxSegs, created <= created', s <= created', hnd[h].at = "null",
               s = linked \/ md # "open"
        PROVE  SegInv'
    <2>1. /\ hnd' \in [SegHandles -> HandleRecords]
          /\ \A g \in SegHandles \ {h} : hnd'[g] = hnd[g]
          /\ hnd'[h].at = "opened" /\ hnd'[h].seg = s /\ hnd'[h].mode = md
      BY <1>2, MovePoints
    <2>2. SegTypeOK'
      BY <1>2, <2>1, SegmentAssumption DEF SegTypeOK
    <2>3. AccCounts'
      BY <1>2, CountsStay
    <2>4. CASE md # "open"
      BY <1>2, <2>1, <2>2, <2>3, <2>4 DEF Backed, Backs
    <2>5. CASE s = linked
      <3>1. PICK g \in SegHandles : hnd[g].at = "unlink" \/ Backs(g)
        BY <1>2, <2>5 DEF Backed
      <3>2. g # h
        BY <1>2, <3>1 DEF Backs
      <3> QED BY <1>2, <2>1, <2>2, <2>3, <2>5, <3>1, <3>2 DEF Backed, Backs
    <2> QED BY <1>2, <2>4, <2>5
  <1> QED BY <1>1, <1>2, SegmentAssumption DEF Opened, SegTypeOK

\* get_mem keeps the invariant of segments.
LEMMA SizedKeeps ==
  ASSUME SegInv, NEW h \in SegHandles, Sized(h)
  PROVE  SegInv'
  <1> USE DEF SegInv
  <1>1. PICK s \in 1 .. MaxSegs : s = hnd[h].seg /\ s \in 1 .. created
    BY SegIn DEF Sized
  <1>2. segs[s].acc \in Int /\ segs[s].sized \in BOOLEAN /\ hnd[h].mode \in OpenModes
    BY RecordTypes DEF SegTypeOK, SegRecords
  <1>3. UNCHANGED <<linked, created>> /\ hnd[h].at = "opened"
    BY DEF Sized
  <1>4. CASE /\ hnd[h].mode = "open" /\ ~segs[s].sized /\ segs' = segs
             /\ Moves(h, "failed", s, hnd[h].mode)
    <2>1. /\ hnd' \in [SegHandles -> HandleRecords]
          /\ \A g \in SegHandles \ {h} : hnd'[g] = hnd[g]
          /\ hnd'[h].at = "failed" /\ hnd'[h].seg = s
      BY <1>2, <1>4, MovePoints
    <2>2. SegTypeOK'
      BY <1>1, <1>3, <1>4, <2>1 DEF SegTypeOK
    <2>3. AccCounts'
      BY <1>2, <1>3, <1>4, CountsStay
    <2> QED BY <1>1, <1>3, <1>4, <2>1, <2>2, <2>3 DEF Backed, Backs
  <1>5. CASE Counts(s, segs[s].acc, TRUE) /\ Moves(h, "mapped", s, hnd[h].mode)
    <2>1. /\ hnd' \in [SegHandles -> HandleRecords]
          /\ \A g \in SegHandles \ {h} : hnd'[g] = hnd[g]
          /\ hnd'[h].at = "mapped" /\ hnd'[h].seg = s
      BY <1>2, <1>5, MovePoints
    <2>2. /\ segs' \in [1 .. MaxSegs -> SegRecords]
          /\ \A t \in 1 .. MaxSegs \ {s} : segs'[t] = segs[t]
          /\ segs'[s].acc = segs[s].acc /\ segs'[s].sized = TRUE
      BY <1>2, <1>5, CountPoints
    <2>3. SegTypeOK'
      BY <1>1, <1>3, <2>1, <2>2 DEF SegTypeOK
    <2>4. AccCounts'
      BY <1>2, <1>3, <1>5, <2>2, CountsStay
    <2>5. linked # 0 => linked \in 1 .. MaxSegs
      BY SegmentAssumption DEF SegTypeOK
    <2>6. Backed'
      BY <1>1, <1>3, <2>1, <2>2, <2>5 DEF Backed, Backs
    <2> QED BY <2>3, <2>4, <2>6
  <1> QED BY <1>1, <1>4, <1>5 DEF Sized

\* The count in acc_ keeps it: one more holds the segment.
LEMMA CountedInKeeps ==
  ASSUME SegInv, NEW h \in SegHandles, NEW i, CountedIn(h, i)
  PROVE  SegInv'
  <1> USE DEF SegInv
  <1>1. PICK s \in 1 .. MaxSegs : s = hnd[h].seg /\ s \in 1 .. created
    BY SegIn DEF CountedIn
  <1>2. segs[s].acc \in Int /\ segs[s].sized \in BOOLEAN /\ hnd[h].mode \in OpenModes
    BY RecordTypes DEF SegTypeOK, SegRecords
  <1>3. /\ hnd[h].at = "mapped" /\ UNCHANGED <<linked, created>>
        /\ Counts(s, segs[s].acc + 1, segs[s].sized) /\ Moves(h, "held", s, hnd[h].mode)
    BY <1>1 DEF CountedIn
  <1>4. /\ hnd' \in [SegHandles -> HandleRecords]
        /\ \A g \in SegHandles \ {h} : hnd'[g] = hnd[g]
        /\ hnd'[h].at = "held" /\ hnd'[h].seg = s
    BY <1>2, <1>3, MovePoints
  <1>5. /\ segs' \in [1 .. MaxSegs -> SegRecords]
        /\ \A t \in 1 .. MaxSegs : segs'[t].sized = segs[t].sized
    BY <1>2, <1>3, CountPoints
  <1>6. SegTypeOK'
    BY <1>1, <1>3, <1>4, <1>5 DEF SegTypeOK
  <1>7. AccCounts'
    BY <1>1, <1>2, <1>3, CountsIn
  <1>8. linked # 0 => linked \in 1 .. MaxSegs
    BY SegmentAssumption DEF SegTypeOK
  <1>9. Backed'
    BY <1>1, <1>3, <1>4, <1>5, <1>8 DEF Backed, Backs
  <1> QED BY <1>6, <1>7, <1>9

\* release keeps it: one less holds, and the last one is to unlink.
LEMMA ReleasedKeeps ==
  ASSUME SegInv, NEW h \in SegHandles, Released(h)
  PROVE  SegInv'
  <1> USE DEF SegInv
  <1>1. PICK s \in 1 .. MaxSegs : s = hnd[h].seg /\ s \in 1 .. created
    BY SegIn DEF Released
  <1>2. segs[s].acc \in Int /\ segs[s].sized \in BOOLEAN /\ hnd[h].mode \in OpenModes
    BY RecordTypes DEF SegTypeOK, SegRecords
  <1>3. UNCHANGED <<linked, created>> /\ (linked # 0 => linked \in 1 .. MaxSegs)
    BY SegmentAssumption DEF Released, SegTypeOK
  <1>4. CASE hnd[h].at = "failed" /\ segs' = segs /\ Moves(h, "null", 0, "create|open")
    <2>1. /\ hnd' \in [SegHandles -> HandleRecords]
          /\ \A g \in SegHandles \ {h} : hnd'[g] = hnd[g]
          /\ hnd'[h].at = "null"
      BY <1>4, SegmentAssumption, MovePoints DEF OpenModes
    <2>2. SegTypeOK'
      BY <1>3, <1>4, <2>1 DEF SegTypeOK
    <2>3. AccCounts'
      BY <1>4, CountsStay, SegmentAssumption DEF OpenModes
    <2> QED BY <1>3, <1>4, <2>1, <2>2, <2>3 DEF Backed, Backs
  <1>5. CASE /\ hnd[h].at = "held" /\ segs[s].acc > 1
             /\ Counts(s, segs[s].acc - 1, segs[s].sized) /\ Moves(h, "null", 0, "create|open")
    <2>1. /\ hnd' \in [SegHandles -> HandleRecords]
          /\ \A g \in SegHandles \ {h} : hnd'[g] = hnd[g]
          /\ hnd'[h].at = "null"
      BY <1>5, SegmentAssumption, MovePoints DEF OpenModes
    <2>2. /\ segs' \in [1 .. MaxSegs -> SegRecords]
          /\ \A t \in 1 .. MaxSegs : segs'[t].sized = segs[t].sized
      <3>1. Counts(s, segs[s].acc - 1, segs[s].sized) /\ segs[s].acc - 1 \in Int
        BY <1>2, <1>5
      <3> QED BY <1>2, <3>1, CountPoints
    <2>3. SegTypeOK'
      BY <1>3, <2>1, <2>2 DEF SegTypeOK
    <2>4. AccCounts'
      BY <1>1, <1>5, CountsOut, SegmentAssumption DEF OpenModes
    <2>5. PICK g \in SegHandles \ {h} : hnd[g].at = "held" /\ hnd[g].seg = s
      BY <1>1, <1>5, AnotherHolds
    <2>6. CASE s = linked
      BY <1>1, <1>3, <2>1, <2>3, <2>4, <2>5, <2>6 DEF Backed, Backs
    <2>7. CASE s # linked
      BY <1>1, <1>3, <1>5, <2>1, <2>2, <2>3, <2>4, <2>7 DEF Backed, Backs
    <2> QED BY <2>6, <2>7
  <1>6. CASE /\ hnd[h].at = "held"
             /\ Counts(s, segs[s].acc - 1, segs[s].sized) /\ Moves(h, "unlink", s, hnd[h].mode)
    <2>1. /\ hnd' \in [SegHandles -> HandleRecords]
          /\ \A g \in SegHandles \ {h} : hnd'[g] = hnd[g]
          /\ hnd'[h].at = "unlink" /\ hnd'[h].seg = s
      BY <1>2, <1>6, MovePoints
    <2>2. segs' \in [1 .. MaxSegs -> SegRecords]
      BY <1>2, <1>6, CountPoints
    <2>3. SegTypeOK'
      BY <1>1, <1>3, <2>1, <2>2 DEF SegTypeOK
    <2>4. AccCounts'
      BY <1>1, <1>2, <1>6, CountsOut
    <2> QED BY <2>1, <2>3, <2>4 DEF Backed
  <1> QED BY <1>1, <1>4, <1>5, <1>6 DEF Released

\* remove(id) keeps it.
LEMMA RemovedKeeps ==
  ASSUME SegInv, NEW h \in SegHandles, Removed(h)
  PROVE  SegInv'
  <1> USE DEF SegInv
  <1>1. PICK s \in 1 .. MaxSegs : s = hnd[h].seg /\ s \in 1 .. created
    BY SegIn DEF Removed
  <1>2. segs[s].acc \in Int /\ segs[s].sized \in BOOLEAN /\ hnd[h].mode \in OpenModes
    BY RecordTypes DEF SegTypeOK, SegRecords
  <1>3. UNCHANGED <<linked, created>> /\ Moves(h, "unlink", s, hnd[h].mode)
    BY <1>1 DEF Removed
  <1>4. /\ hnd' \in [SegHandles -> HandleRecords]
        /\ \A g \in SegHandles \ {h} : hnd'[g] = hnd[g]
        /\ hnd'[h].at = "unlink" /\ hnd'[h].seg = s
    BY <1>2, <1>3, MovePoints
  <1>5. Backed'
    BY <1>4 DEF Backed
  <1>6. CASE hnd[h].at = "failed" /\ segs' = segs
    <2>1. SegTypeOK'
      BY <1>1, <1>3, <1>4, <1>6 DEF SegTypeOK
    <2>2. AccCounts'
      BY <1>2, <1>3, <1>6, CountsStay
    <2> QED BY <1>5, <2>1, <2>2
  <1>7. CASE hnd[h].at = "held" /\ Counts(s, segs[s].acc - 1, segs[s].sized)
    <2>1. segs' \in [1 .. MaxSegs -> SegRecords]
      BY <1>2, <1>7, CountPoints
    <2>2. SegTypeOK'
      BY <1>1, <1>3, <1>4, <2>1 DEF SegTypeOK
    <2>3. AccCounts'
      BY <1>1, <1>2, <1>3, <1>7, CountsOut
    <2> QED BY <1>5, <2>2, <2>3
  <1> QED BY <1>1, <1>6, <1>7 DEF Removed

\* shm_unlink keeps it.
LEMMA UnlinkKeeps ==
  ASSUME SegInv, NEW h \in SegHandles, unlink(h)
  PROVE  SegInv'
  <1> USE DEF SegInv
  <1>1. Moves(h, "null", 0, "create|open") /\ linked' = 0 /\ segs' = segs /\ created' = created /\ hnd[h].at = "unlink"
    BY DEF unlink, Moves, Null
  <1>2. /\ hnd' \in [SegHandles -> HandleRecords]
        /\ \A g \in SegHandles \ {h} : hnd'[g] = hnd[g]
        /\ hnd'[h].at = "null"
    BY <1>1, SegmentAssumption, MovePoints DEF OpenModes
  <1>3. SegTypeOK'
    BY <1>1, <1>2 DEF SegTypeOK
  <1>4. AccCounts'
    BY <1>1, CountsStay, SegmentAssumption DEF OpenModes
  <1> QED BY <1>1, <1>3, <1>4 DEF Backed

\* What happens inside the segment keeps it.
LEMMA InsideKeeps ==
  ASSUME SegInv, Inside
  PROVE  SegInv'
  <1>1. linked # 0 => linked \in 1 .. MaxSegs
    BY SegmentAssumption DEF SegTypeOK, SegInv
  <1> QED BY <1>1 DEF SegInv, SegTypeOK, AccCounts, HeldOn, Backed, Backs, Inside

\* Every operation on segments keeps it.
LEMMA SegStepKeeps ==
  ASSUME SegInv, NEW h \in SegHandles, SegStep(h)
  PROVE  SegInv'
  <1>1. SegTypeOK
    BY DEF SegInv
  <1>2. CASE clear_storage
    BY <1>2 DEF clear_storage, SegInv, SegTypeOK, AccCounts, HeldOn, Backed
  <1> QED BY <1>1, <1>2, OpenEffect, OpenedKeeps, SizeEffect, SizedKeeps, CountEffect, CountedInKeeps,
             ReleaseEffect, ReleasedKeeps, RemoveEffect, RemovedKeeps, UnlinkKeeps DEF SegStep

\* A segment whose object changes keeps its count and its length.
LEMMA ObjectChange ==
  ASSUME SegTypeOK, UNCHANGED <<linked, created, hnd, raced>>, NEW s,
         NEW o \in Objs \cup {Nobody}, NEW i \in BOOLEAN,
         segs' = [segs EXCEPT ![s] = [sized |-> segs[s].sized, acc |-> segs[s].acc, init |-> i, owner |-> o]]
  PROVE  Inside
  <1>1. CASE s \in 1 .. MaxSegs
    <2>1. segs[s] \in SegRecords
      BY <1>1 DEF SegTypeOK
    <2>2. [sized |-> segs[s].sized, acc |-> segs[s].acc, init |-> i, owner |-> o] \in SegRecords
      BY <2>1 DEF SegRecords
    <2> QED BY <1>1, <2>2 DEF SegTypeOK, Inside
  <1>2. CASE s \notin 1 .. MaxSegs
    <2>1. segs' = segs
      BY <1>2 DEF SegTypeOK
    <2> QED BY <2>1 DEF SegTypeOK, Inside
  <1> QED BY <1>1, <1>2

\* A segment with another owner, or initialised or destroyed.
Both(s, i, o) == [segs EXCEPT ![s].owner = o, ![s].init = i]
With(s, i, o) == [sized |-> segs[s].sized, acc |-> segs[s].acc, init |-> i, owner |-> o]

\* A segment whose owner is replaced.
LEMMA OwnerChange ==
  ASSUME SegTypeOK, NEW s \in 1 .. MaxSegs, NEW o, NEW i
  PROVE  /\ [segs EXCEPT ![s].owner = o] = [segs EXCEPT ![s] = With(s, segs[s].init, o)]
         /\ [segs[s] EXCEPT !.init = i] = With(s, i, segs[s].owner)
         /\ segs[s].init \in BOOLEAN /\ segs[s].owner \in Objs \cup {Nobody}
         /\ segs[s] = With(s, segs[s].init, segs[s].owner)
  <1>1. segs[s] \in SegRecords /\ segs \in [1 .. MaxSegs -> SegRecords]
    BY DEF SegTypeOK
  <1>2. [segs[s] EXCEPT !.owner = o] = With(s, segs[s].init, o)
    BY <1>1 DEF SegRecords, With
  <1>4. [segs[s] EXCEPT !.init = i] = With(s, i, segs[s].owner)
    BY <1>1 DEF SegRecords, With
  <1>5. [segs EXCEPT ![s].owner = o] = [segs EXCEPT ![s] = [segs[s] EXCEPT !.owner = o]]
    BY <1>1
  <1>7. segs[s] = With(s, segs[s].init, segs[s].owner)
    BY <1>1 DEF SegRecords, With
  <1> QED BY <1>1, <1>2, <1>4, <1>5, <1>7 DEF SegRecords

\* pthread_mutex_init over whatever is there.
LEMMA BothChange ==
  ASSUME SegTypeOK, NEW s \in 1 .. MaxSegs, NEW o, NEW i
  PROVE  Both(s, i, o) = [segs EXCEPT ![s] = With(s, i, o)]
  <1>1. segs[s] \in SegRecords /\ segs \in [1 .. MaxSegs -> SegRecords]
    BY DEF SegTypeOK
  <1>2. [segs[s] EXCEPT !.owner = o] = With(s, segs[s].init, o)
    BY <1>1 DEF SegRecords, With
  <1>3. [[segs[s] EXCEPT !.owner = o] EXCEPT !.init = i] = With(s, i, o)
    <2>1. [With(s, segs[s].init, o) EXCEPT !.init = i] = With(s, i, o)
      BY DEF With
    <2> QED BY <1>2, <2>1
  <1>6. [segs EXCEPT ![s].owner = o, ![s].init = i] = [segs EXCEPT ![s] = [[segs[s] EXCEPT !.owner = o] EXCEPT !.init = i]]
    BY <1>1
  <1> QED BY <1>3, <1>6 DEF Both

\* The object in segment s is written, to be initialised as i and owned by o.
Written(s, i, o) == segs' = [segs EXCEPT ![s] = With(s, i, o)]

\* What is written into a segment stays inside it.
LEMMA WrittenIn ==
  ASSUME SegTypeOK, UNCHANGED <<linked, created, hnd, raced>>, NEW s \in 1 .. MaxSegs,
         NEW o \in Objs \cup {Nobody}, NEW i \in BOOLEAN, Written(s, i, o)
  PROVE  /\ Inside
         /\ \A t \in 1 .. MaxSegs \ {s} : segs'[t] = segs[t]
         /\ segs'[s].init = i /\ segs'[s].owner = o
  <1>1. Inside
    BY ObjectChange DEF Written, With
  <1>2. \A t \in 1 .. MaxSegs \ {s} : segs'[t] = segs[t]
    BY DEF SegTypeOK, Written
  <1>3. segs'[s] = With(s, i, o)
    BY DEF SegTypeOK, Written
  <1> QED BY <1>1, <1>2, <1>3 DEF With

\* What open, close, lock and unlock write into the segment.
LEMMA OpenWipe ==
  ASSUME SegTypeOK, NEW m \in Objs, open_wipe(m)
  PROVE  Inside /\ (SegOf(m) \in 1 .. MaxSegs => Written(SegOf(m), segs[SegOf(m)].init, Nobody))
  <1>1. CASE SegOf(m) \in 1 .. MaxSegs
    <2>1. Written(SegOf(m), segs[SegOf(m)].init, Nobody)
      BY <1>1, OwnerChange DEF open_wipe, Written
    <2>2. segs[SegOf(m)].init \in BOOLEAN
      BY <1>1, OwnerChange
    <2>3. Inside
      BY <1>1, <2>1, <2>2, WrittenIn DEF open_wipe
    <2> QED BY <2>1, <2>3
  <1>2. CASE SegOf(m) \notin 1 .. MaxSegs
    BY <1>2 DEF open_wipe, SegTypeOK, Inside
  <1> QED BY <1>1, <1>2

\* pthread_mutex_init and pthread_cond_init write inside the segment.
LEMMA InitialiseIn ==
  ASSUME SegTypeOK, NEW m \in Objs, NEW pc, Initialise(m, pc)
  PROVE  Inside /\ (SegOf(m) \in 1 .. MaxSegs => Written(SegOf(m), TRUE, Nobody))
  <1>1. CASE SegOf(m) \in 1 .. MaxSegs
    <2>1. segs' = Both(SegOf(m), TRUE, Nobody)
      BY DEF Initialise, Both
    <2>2. Both(SegOf(m), TRUE, Nobody) = [segs EXCEPT ![SegOf(m)] = With(SegOf(m), TRUE, Nobody)]
      BY <1>1, BothChange
    <2>3. Written(SegOf(m), TRUE, Nobody)
      BY <2>1, <2>2 DEF Written
    <2> QED BY <1>1, <2>3, WrittenIn DEF Initialise
  <1>2. CASE SegOf(m) \notin 1 .. MaxSegs
    BY <1>2 DEF Initialise, SegTypeOK, Inside
  <1> QED BY <1>1, <1>2

\* pthread_mutex_destroy and pthread_cond_destroy do.
LEMMA DestroyIn ==
  ASSUME SegTypeOK, NEW m \in Objs, destroy(m)
  PROVE  Inside /\ (SegOf(m) \in 1 .. MaxSegs =>
                      \E i \in BOOLEAN : Written(SegOf(m), i, segs[SegOf(m)].owner))
  <1>1. CASE SegOf(m) \in 1 .. MaxSegs
    <2>1. CASE segs[SegOf(m)].owner = Nobody
      <3>1. segs' = [segs EXCEPT ![SegOf(m)] = [segs[SegOf(m)] EXCEPT !.init = FALSE]]
        BY <1>1, <2>1 DEF destroy, SegTypeOK
      <3>2. [segs[SegOf(m)] EXCEPT !.init = FALSE] = With(SegOf(m), FALSE, segs[SegOf(m)].owner)
        BY <1>1, OwnerChange
      <3>3. Written(SegOf(m), FALSE, segs[SegOf(m)].owner)
        BY <3>1, <3>2 DEF Written
      <3> QED BY <1>1, <3>3, OwnerChange, WrittenIn DEF destroy
    <2>2. CASE segs[SegOf(m)].owner # Nobody
      <3>1. segs' = [segs EXCEPT ![SegOf(m)] = segs[SegOf(m)]]
        BY <1>1, <2>2 DEF destroy, SegTypeOK
      <3>2. Written(SegOf(m), segs[SegOf(m)].init, segs[SegOf(m)].owner)
        BY <1>1, <3>1, OwnerChange DEF Written
      <3> QED BY <1>1, <3>2, OwnerChange, WrittenIn DEF destroy
    <2> QED BY <2>1, <2>2
  <1>2. CASE SegOf(m) \notin 1 .. MaxSegs
    BY <1>2 DEF destroy, SegTypeOK, Inside
  <1> QED BY <1>1, <1>2

\* lock does.
LEMMA LockIn ==
  ASSUME SegTypeOK, NEW m \in Objs, lock(m)
  PROVE  Inside /\ (SegOf(m) \in 1 .. MaxSegs => Written(SegOf(m), segs[SegOf(m)].init, m))
  <1>1. CASE SegOf(m) \in 1 .. MaxSegs
    <2>1. Written(SegOf(m), segs[SegOf(m)].init, m)
      <3>1. [segs EXCEPT ![SegOf(m)].owner = m] = [segs EXCEPT ![SegOf(m)] = With(SegOf(m), segs[SegOf(m)].init, m)]
        BY <1>1, OwnerChange
      <3>2. segs' = [segs EXCEPT ![SegOf(m)].owner = m]
        BY DEF lock
      <3> QED BY <3>1, <3>2 DEF Written
    <2>2. segs[SegOf(m)].init \in BOOLEAN
      BY <1>1, OwnerChange
    <2>3. Inside
      BY <1>1, <2>1, <2>2, WrittenIn DEF lock
    <2> QED BY <2>1, <2>3
  <1>2. CASE SegOf(m) \notin 1 .. MaxSegs
    BY <1>2 DEF lock, SegTypeOK, Inside
  <1> QED BY <1>1, <1>2

\* unlock does.
LEMMA UnlockIn ==
  ASSUME SegTypeOK, NEW m \in Objs, unlock(m)
  PROVE  Inside /\ (SegOf(m) \in 1 .. MaxSegs =>
                      Written(SegOf(m), segs[SegOf(m)].init,
                              IF segs[SegOf(m)].owner = m THEN Nobody ELSE segs[SegOf(m)].owner))
  <1>1. CASE SegOf(m) \in 1 .. MaxSegs
    <2> DEFINE o == IF segs[SegOf(m)].owner = m THEN Nobody ELSE segs[SegOf(m)].owner
    <2>1. segs' = [segs EXCEPT ![SegOf(m)].owner = o]
      BY <1>1 DEF unlock, SegTypeOK
    <2>2. o \in Objs \cup {Nobody}
      BY <1>1, OwnerChange
    <2> HIDE DEF o
    <2>3. Written(SegOf(m), segs[SegOf(m)].init, o)
      BY <1>1, <2>1, OwnerChange DEF Written
    <2>4. segs[SegOf(m)].init \in BOOLEAN
      BY <1>1, OwnerChange
    <2>5. Inside
      BY <1>1, <2>2, <2>3, <2>4, WrittenIn DEF unlock
    <2> QED BY <2>3, <2>5 DEF o
  <1>2. CASE SegOf(m) \notin 1 .. MaxSegs
    BY <1>2 DEF unlock, SegTypeOK, Inside
  <1> QED BY <1>1, <1>2

\* Steps that do not touch the segments.
LEMMA NoTouch ==
  ASSUME SegTypeOK, UNCHANGED segVars
  PROVE  Inside
  BY DEF SegTypeOK, Inside, segVars

\* An object's step is one of its process's handle, or inside the segment.
LEMMA SyncSeg ==
  ASSUME SegTypeOK, NEW m \in Objs, SyncStep(m)
  PROVE  SegStep(Proc(m)) \/ Inside
  <1>1. ASSUME MutexStep(m) PROVE SegStep(Proc(m)) \/ Inside
    <2>1. ASSUME acquire_handle(m) \/ acquire_posix(m) PROVE SegStep(Proc(m))
      BY <2>1 DEF acquire_handle, acquire_posix, Acquire, SegStep, OpenModes
    <2>2. ASSUME open_init(m) PROVE Inside
      BY <2>2, InitialiseIn DEF open_init
    <2>3. ASSUME acquire_mutex(m) \/ open_add(m) \/ open_chk(m) \/ clear_entry(m) \/ exit(m) PROVE Inside
      BY <2>3, NoTouch DEF acquire_mutex, open_add, open_chk, clear_entry, exit
    <2>4. ASSUME close_linux(m) \/ close_posix(m) \/ clear_linux(m) \/ clear_posix(m) PROVE Inside
      BY <2>4, NoTouch DEF close_linux, close_posix, clear_linux, clear_posix, CountOut, Clear
    <2> QED BY <1>1, <2>1, <2>2, <2>3, <2>4, LockIn, UnlockIn DEF MutexStep
  <1>2. ASSUME CondStep(m) PROVE SegStep(Proc(m)) \/ Inside
    <2>1. ASSUME acquire_cond(m) PROVE SegStep(Proc(m))
      BY <2>1 DEF acquire_cond, Acquire, SegStep, OpenModes
    <2>2. ASSUME init_cond(m) PROVE Inside
      BY <2>2, InitialiseIn DEF init_cond
    <2>3. ASSUME open_cond(m) \/ close_cond(m) \/ clear_cond(m) PROVE Inside
      BY <2>3, NoTouch DEF open_cond, close_cond, clear_cond, Clear
    <2> QED BY <1>2, <2>1, <2>2, <2>3 DEF CondStep
  <1>3. ASSUME SemStep(m) PROVE SegStep(Proc(m)) \/ Inside
    <2>1. ASSUME acquire_sem(m) \/ close_sem(m) PROVE SegStep(Proc(m))
      BY <2>1 DEF acquire_sem, close_sem, Acquire, SegStep, OpenModes
    <2>2. ASSUME sem_open(m) \/ clear_sem(m) \/ post(m) \/ wait(m) PROVE Inside
      BY <2>2, NoTouch DEF sem_open, clear_sem, post, wait, Clear
    <2>3. ASSUME sem_unlink(m) PROVE SegStep(Proc(m)) \/ Inside
      BY <2>3, NoTouch DEF sem_unlink, SegStep
    <2> QED BY <1>3, <2>1, <2>2, <2>3 DEF SemStep
  <1>4. ASSUME acquire(m) PROVE SegStep(Proc(m))
    <2>1. Initialising(Proc(m)) \in BOOLEAN
      BY DEF Initialising
    <2> QED BY <1>4, <2>1 DEF acquire, SegStep
  <1>5. ASSUME open_ref(m) \/ emplaced(m) PROVE Inside
    BY <1>5, NoTouch DEF open_ref, emplaced
  <1>6. ASSUME erase(m) \/ clear_shm(m) \/ clear_name(m) PROVE SegStep(Proc(m))
    BY <1>6 DEF erase, clear_shm, clear_name, SegStep
  <1>7. ASSUME closed(m) PROVE SegStep(Proc(m)) \/ Inside
    BY <1>7, NoTouch DEF closed, SegStep
  <1> QED BY <1>1, <1>2, <1>3, <1>4, <1>5, <1>6, <1>7, OpenWipe, DestroyIn DEF SyncStep

\* Every step keeps the invariant of segments.
LEMMA SegInductive ==
  ASSUME SegInv, HandleNext
  PROVE  SegInv'
  <1>1. SegTypeOK
    BY DEF SegInv
  <1>2. ASSUME NEW h \in SegHandles, HandleStep(h) PROVE SegInv'
    <2>1. SegStep(h)
      BY <1>2 DEF HandleStep, SegStep
    <2> QED BY <2>1, SegStepKeeps
  <1>3. ASSUME NEW m \in Objs, SyncStep(m) PROVE SegInv'
    BY <1>1, <1>3, SyncSeg, ProcIn, SegStepKeeps, InsideKeeps
  <1> QED BY <1>2, <1>3 DEF HandleNext
-----------------------------------------------------------------------------
(* The objects in a segment. *)

Pcs == {"idle", "shm", "ref", "wipe", "made", "semopen", "add", "chk", "init", "destroy", "erase", "keep",
        "cleardestroy", "clear", "erased", "semunlink"}
PcsOf(k) ==
  CASE k = "linux mutex" -> {"idle", "shm", "ref", "wipe", "made", "add", "erase", "keep", "clear", "erased"}
    [] k = "posix mutex" -> {"idle", "shm", "made", "add", "chk", "init", "destroy", "erase", "keep",
                             "cleardestroy", "clear", "erased"}
    [] k = "linux cond"  -> {"idle", "shm", "ref", "wipe", "made", "erase", "clear", "erased"}
    [] k = "posix cond"  -> {"idle", "shm", "ref", "init", "made", "destroy", "erase", "cleardestroy", "clear", "erased"}
    [] k = "sem"         -> {"idle", "shm", "semopen", "made", "semunlink", "clear", "erased"}
    [] OTHER -> {"idle"}

ObjRecords == [pc : Pcs, ptr : {"null", "live", "dangling"}, self : Int, holds : 0 .. MaxSegs]
RegRecords == [on : BOOLEAN, ref : Int, lock : Objs \cup {Nobody}]
SemRecords == [name : 0 .. MaxSegs, made : 0 .. MaxSegs, net : Int,
               val : [1 .. MaxSegs -> Int], of : [SegHandles -> 0 .. MaxSegs]]
SyncTypeOK ==
  /\ obj \in [Objs -> ObjRecords] /\ reg \in [SegHandles -> RegRecords] /\ sem \in SemRecords
  /\ \A m \in Objs : obj[m].pc \in PcsOf(kind)

\* Conditions and semaphores have no registry.
Alone(m) == ~Mutex => m \in Single
NoRegistry == ~Mutex => \A p \in SegHandles : ~reg[p].on
Registry == NoRegistry /\ \A m \in Objs : obj[m].pc # "idle" \/ obj[m].ptr # "null" => Alone(m)

\* A semaphore that has a name has a user or one that is about to unlink it.
SemBacked ==
  /\ kind # "sem" => sem.name = 0
  /\ kind = "sem" /\ ~crossed =>
       /\ sem.name # 0 => \/ \E h \in SegHandles : hnd[h].at = "held"
                          \/ \E m \in Objs : obj[m].pc = "semunlink"
       /\ (\E m \in Objs : obj[m].pc = "clear") => sem.name = 0

\* Who opens the semaphore has its segment.
SemHeld == \A m \in Objs : obj[m].pc = "semopen" => hnd[Proc(m)].at = "held"
LeftInv == SegInv /\ SyncTypeOK /\ Registry /\ SemBacked /\ SemHeld

\* The rest holds as long as nothing has raced or crossed.
Undisturbed == kind # "shm" /\ ~raced /\ ~crossed

OneSegment ==
  /\ \A h \in SegHandles : hnd[h].at \in {"opened", "mapped", "held"} => hnd[h].seg = linked /\ linked # 0
  /\ \A h \in SegHandles : hnd[h].at # "failed" /\ hnd[h].mode = "create|open"
  /\ \A h \in SegHandles : hnd[h].at = "unlink" => \A g \in SegHandles \ {h} : hnd[g].at = "null"

Opening == {"ref", "wipe", "made", "semopen"}
Departing == {"destroy", "cleardestroy", "clear", "erase"}
ObjOK(m) ==
  LET p == Proc(m)
      pc == obj[m].pc IN
  /\ obj[m].ptr # "dangling"
  /\ pc = "idle" /\ obj[m].ptr = "live" => hnd[p].at = "held" /\ (Mutex => reg[p].on) /\ (Posix => segs[linked].init)
  /\ pc = "shm" => obj[m].ptr = "null" /\ reg[p].lock = m /\ ~reg[p].on /\ hnd[p].at \in {"opened", "mapped"}
  /\ pc \in Opening \/ (pc = "init" /\ ~Mutex) =>
       obj[m].ptr = "null" /\ reg[p].lock = m /\ ~reg[p].on /\ hnd[p].at = "held"
  /\ pc \in {"add", "chk"} \/ (pc = "init" /\ Mutex) =>
       obj[m].ptr = "live" /\ reg[p].on /\ hnd[p].at = "held"
  /\ pc \in Departing => hnd[p].at = "held" /\ Others(m) = {} /\ (Mutex => reg[p].lock = m /\ reg[p].on)
  /\ pc = "keep" => obj[m].ptr = "live" /\ reg[p].lock = m /\ reg[p].on /\ hnd[p].at = "held"
  /\ pc = "erased" => hnd[p].at \in {"null", "unlink"} /\ Others(m) = {} /\ (Mutex => reg[p].lock = m /\ reg[p].on)
  /\ pc = "semunlink" => hnd[p].at \in {"null", "unlink"}
  /\ obj[m].holds # 0 => /\ Mutex /\ pc = "idle" /\ obj[m].ptr = "live" /\ segs[linked].owner = m

Tally(p) == {m \in Objs : /\ Proc(m) = p /\ obj[m].ptr = "live"
                          /\ obj[m].pc \in {"idle", "chk", "init", "cleardestroy", "clear"}}
RegOK(p) ==
  /\ reg[p].on => hnd[p].at = "held" \/ \E m \in Objs : Proc(m) = p /\ obj[m].pc = "erased"
  /\ (Mutex /\ \A m \in Objs : Proc(m) = p => obj[m].pc # "erased") => reg[p].ref = Cardinality(Tally(p))

\* Who initialises or destroys is the only process that is counted.
AloneIn == \A m \in Objs : obj[m].pc \in {"wipe", "init", "destroy", "cleardestroy", "clear"} =>
             \A g \in SegHandles \ {Proc(m)} : hnd[g].at # "held"

\* What is not initialised yet has one that will, or one that has destroyed it.
Unready(m) == \/ obj[m].pc \in Departing \cup {"init", "ref"}
              \/ Mutex /\ obj[m].pc \in {"made", "add"}
              \/ Mutex /\ obj[m].pc = "chk" /\ obj[m].self = 0
Prepared == Posix =>
  /\ \A p \in SegHandles : hnd[p].at = "held" /\ ~segs[linked].init =>
       /\ \A g \in SegHandles \ {p} : hnd[g].at # "held"
       /\ \E m \in Objs : Proc(m) = p /\ Unready(m)
  /\ \A m \in Objs : /\ obj[m].pc = "made" /\ ~Mutex => segs[linked].init
                     /\ obj[m].pc = "chk" => obj[m].self \in Nat
                     /\ obj[m].pc = "chk" /\ obj[m].self # 0 => segs[linked].init
                     /\ Mutex /\ (obj[m].pc = "init" \/ (obj[m].pc = "chk" /\ obj[m].self = 0)) =>
                          \A n \in Others(m) : obj[n].pc \in {"add", "keep"}

SemUser(m) == obj[m].pc = "made" \/ (obj[m].pc = "idle" /\ obj[m].ptr = "live")
SemOK == kind = "sem" =>
  /\ \A m \in Objs : SemUser(m) => sem.of[Proc(m)] = sem.name /\ sem.name # 0
  /\ sem.name # 0 => sem.val[sem.name] = SemCount + sem.net
  /\ (\E n \in Objs : obj[n].pc \in {"semunlink", "clear"}) => \A m \in Objs : ~SemUser(m)

CalmSync ==
  /\ OneSegment
  /\ \A m \in Objs : ObjOK(m)
  /\ \A p \in SegHandles : RegOK(p)
  /\ AloneIn /\ Prepared /\ SemOK
SyncInv == LeftInv /\ (Undisturbed => CalmSync)
-----------------------------------------------------------------------------
(* What the steps of an object change, point by point. *)

\* Object m goes over to pc a and pointer b, and the others stay.
Turns(m, a, b, c, d) ==
  /\ obj' \in [Objs -> ObjRecords]
  /\ \A n \in Objs \ {m} : obj'[n] = obj[n]
  /\ obj'[m].pc = a /\ obj'[m].ptr = b /\ obj'[m].self = c /\ obj'[m].holds = d

\* The registry of process p changes.
Enters(p, on, ref, lk) ==
  /\ reg' \in [SegHandles -> RegRecords]
  /\ \A q \in SegHandles \ {p} : reg'[q] = reg[q]
  /\ (reg'[p].on <=> on) /\ reg'[p].ref = ref /\ reg'[p].lock = lk

\* An object that is replaced.
LEMMA Becomes ==
  ASSUME SyncTypeOK, NEW m \in Objs, NEW a \in Pcs, NEW b \in {"null", "live", "dangling"},
         NEW c \in Int, NEW d \in 0 .. MaxSegs,
         obj' = [obj EXCEPT ![m] = [pc |-> a, ptr |-> b, self |-> c, holds |-> d]]
  PROVE  Turns(m, a, b, c, d)
  <1>1. [pc |-> a, ptr |-> b, self |-> c, holds |-> d] \in ObjRecords
    BY DEF ObjRecords
  <1>2. obj'[m] = [pc |-> a, ptr |-> b, self |-> c, holds |-> d]
    BY DEF SyncTypeOK
  <1> QED BY <1>1, <1>2 DEF SyncTypeOK, Turns

\* The fields of an object.
LEMMA ObjTypes ==
  ASSUME SyncTypeOK, NEW m \in Objs
  PROVE  /\ obj[m] \in ObjRecords /\ obj[m].pc \in Pcs /\ obj[m].ptr \in {"null", "live", "dangling"}
         /\ obj[m].self \in Int /\ obj[m].holds \in 0 .. MaxSegs
         /\ obj[m] = [pc |-> obj[m].pc, ptr |-> obj[m].ptr, self |-> obj[m].self, holds |-> obj[m].holds]
  <1>1. obj[m] \in ObjRecords
    BY DEF SyncTypeOK
  <1> QED BY <1>1 DEF ObjRecords

\* The steps that only go on.
LEMMA Goes ==
  ASSUME SyncTypeOK, NEW m \in Objs, NEW a \in Pcs, Goto(m, a)
  PROVE  Turns(m, a, obj[m].ptr, obj[m].self, obj[m].holds)
  <1>0. obj[m] \in ObjRecords
    BY DEF SyncTypeOK
  <1>a. obj[m].pc \in Pcs /\ obj[m].ptr \in {"null", "live", "dangling"} /\ obj[m].self \in Int /\ obj[m].holds \in 0 .. MaxSegs
    BY <1>0 DEF ObjRecords
  <1>1. [obj[m] EXCEPT !.pc = a] = [pc |-> a, ptr |-> obj[m].ptr, self |-> obj[m].self, holds |-> obj[m].holds]
    BY <1>0 DEF ObjRecords
  <1>2. obj' = [obj EXCEPT ![m] = [obj[m] EXCEPT !.pc = a]]
    BY DEF Goto, SyncTypeOK
  <1> QED BY <1>1, <1>2, <1>a, Becomes

\* The steps that change the pointer too.
Obj(a, b, c, d) == [pc |-> a, ptr |-> b, self |-> c, holds |-> d]

\* The steps that change the pointer too.
LEMMA Points ==
  ASSUME SyncTypeOK, NEW m \in Objs, NEW a \in Pcs, NEW b \in {"null", "live"},
         obj' = [obj EXCEPT ![m].ptr = b, ![m].pc = a] \/ obj' = [obj EXCEPT ![m].pc = a, ![m].ptr = b]
  PROVE  Turns(m, a, b, obj[m].self, obj[m].holds)
  <1>0. obj[m] \in ObjRecords
    BY DEF SyncTypeOK
  <1>a. obj[m].pc \in Pcs /\ obj[m].ptr \in {"null", "live", "dangling"} /\ obj[m].self \in Int /\ obj[m].holds \in 0 .. MaxSegs
    BY <1>0 DEF ObjRecords
  <1>1. [obj[m] EXCEPT !.ptr = b] = Obj(obj[m].pc, b, obj[m].self, obj[m].holds)
    BY <1>0 DEF ObjRecords, Obj
  <1>2. [obj[m] EXCEPT !.pc = a] = Obj(a, obj[m].ptr, obj[m].self, obj[m].holds)
    BY <1>0 DEF ObjRecords, Obj
  <1>3. [Obj(obj[m].pc, b, obj[m].self, obj[m].holds) EXCEPT !.pc = a] = Obj(a, b, obj[m].self, obj[m].holds)
    BY DEF Obj
  <1>4. [Obj(a, obj[m].ptr, obj[m].self, obj[m].holds) EXCEPT !.ptr = b] = Obj(a, b, obj[m].self, obj[m].holds)
    BY DEF Obj
  <1>5. obj' = [obj EXCEPT ![m] = [[obj[m] EXCEPT !.ptr = b] EXCEPT !.pc = a]]
        \/ obj' = [obj EXCEPT ![m] = [[obj[m] EXCEPT !.pc = a] EXCEPT !.ptr = b]]
    BY DEF SyncTypeOK
  <1>6. obj' = [obj EXCEPT ![m] = Obj(a, b, obj[m].self, obj[m].holds)]
    BY <1>1, <1>2, <1>3, <1>4, <1>5
  <1>7. obj' = [obj EXCEPT ![m] = [pc |-> a, ptr |-> b, self |-> obj[m].self, holds |-> obj[m].holds]]
    BY <1>6 DEF Obj
  <1>8. b \in {"null", "live", "dangling"}
    OBVIOUS
  <1> QED BY ONLY <1>7, <1>8, <1>a, Becomes, SyncTypeOK, m \in Objs, a \in Pcs

\* open_add.
LEMMA Adds ==
  ASSUME SyncTypeOK, NEW m \in Objs, NEW a \in Pcs, NEW c \in Int,
         obj' = [obj EXCEPT ![m].pc = a, ![m].self = c]
  PROVE  Turns(m, a, obj[m].ptr, c, obj[m].holds)
  <1>0. obj[m] \in ObjRecords
    BY DEF SyncTypeOK
  <1>a. obj[m].pc \in Pcs /\ obj[m].ptr \in {"null", "live", "dangling"} /\ obj[m].self \in Int /\ obj[m].holds \in 0 .. MaxSegs
    BY <1>0 DEF ObjRecords
  <1>1. [obj[m] EXCEPT !.pc = a] = Obj(a, obj[m].ptr, obj[m].self, obj[m].holds)
    BY <1>0 DEF ObjRecords, Obj
  <1>2. [Obj(a, obj[m].ptr, obj[m].self, obj[m].holds) EXCEPT !.self = c] = Obj(a, obj[m].ptr, c, obj[m].holds)
    BY DEF Obj
  <1>3. obj' = [obj EXCEPT ![m] = [[obj[m] EXCEPT !.pc = a] EXCEPT !.self = c]]
    BY DEF SyncTypeOK
  <1>4. obj' = [obj EXCEPT ![m] = Obj(a, obj[m].ptr, c, obj[m].holds)]
    BY <1>1, <1>2, <1>3
  <1> QED BY <1>4, <1>a, Becomes DEF Obj

\* lock and unlock.
LEMMA HoldsOn ==
  ASSUME SyncTypeOK, NEW m \in Objs, NEW d \in 0 .. MaxSegs, obj' = [obj EXCEPT ![m].holds = d]
  PROVE  Turns(m, obj[m].pc, obj[m].ptr, obj[m].self, d)
  <1>0. obj[m] \in ObjRecords
    BY DEF SyncTypeOK
  <1>a. obj[m].pc \in Pcs /\ obj[m].ptr \in {"null", "live", "dangling"} /\ obj[m].self \in Int /\ obj[m].holds \in 0 .. MaxSegs
    BY <1>0 DEF ObjRecords
  <1>1. [obj[m] EXCEPT !.holds = d] = Obj(obj[m].pc, obj[m].ptr, obj[m].self, d)
    BY <1>0 DEF ObjRecords, Obj
  <1>2. obj' = [obj EXCEPT ![m] = [obj[m] EXCEPT !.holds = d]]
    BY DEF SyncTypeOK
  <1>3. obj' = [obj EXCEPT ![m] = Obj(obj[m].pc, obj[m].ptr, obj[m].self, d)]
    BY <1>1, <1>2
  <1> QED BY <1>3, <1>a, Becomes DEF Obj

\* An entry that is taken, its count or its lock changed.
LEMMA EntryBecomes ==
  ASSUME SyncTypeOK, NEW p \in SegHandles, NEW on \in BOOLEAN, NEW ref \in Int, NEW lk \in Objs \cup {Nobody},
         reg' = [reg EXCEPT ![p] = [on |-> on, ref |-> ref, lock |-> lk]]
  PROVE  Enters(p, on, ref, lk)
  <1>1. [on |-> on, ref |-> ref, lock |-> lk] \in RegRecords
    BY DEF RegRecords
  <1>2. reg'[p] = [on |-> on, ref |-> ref, lock |-> lk]
    BY DEF SyncTypeOK
  <1>3. reg'[p].on = on /\ reg'[p].ref = ref /\ reg'[p].lock = lk
    BY <1>2
  <1> QED BY <1>1, <1>3 DEF SyncTypeOK, Enters

\* The fields of an entry.
LEMMA RegTypes ==
  ASSUME SyncTypeOK, NEW p \in SegHandles
  PROVE  /\ reg[p] \in RegRecords /\ reg[p].on \in BOOLEAN /\ reg[p].ref \in Int /\ reg[p].lock \in Objs \cup {Nobody}
         /\ reg[p] = [on |-> reg[p].on, ref |-> reg[p].ref, lock |-> reg[p].lock]
  <1>1. reg[p] \in RegRecords
    BY DEF SyncTypeOK
  <1> QED BY <1>1 DEF RegRecords

\* The lock of an entry is taken.
LEMMA Locks ==
  ASSUME SyncTypeOK, NEW p \in SegHandles, NEW lk \in Objs \cup {Nobody}, reg' = [reg EXCEPT ![p].lock = lk]
  PROVE  Enters(p, reg[p].on, reg[p].ref, lk)
  <1>0. reg[p] \in RegRecords
    BY DEF SyncTypeOK
  <1>a. reg[p].on \in BOOLEAN /\ reg[p].ref \in Int /\ reg[p].lock \in Objs \cup {Nobody}
    BY <1>0 DEF RegRecords
  <1>1. [reg[p] EXCEPT !.lock = lk] = [on |-> reg[p].on, ref |-> reg[p].ref, lock |-> lk]
    BY <1>0 DEF RegRecords
  <1>2. reg' = [reg EXCEPT ![p] = [reg[p] EXCEPT !.lock = lk]]
    BY DEF SyncTypeOK
  <1> QED BY <1>1, <1>2, <1>a, EntryBecomes

\* The count of an entry changes.
LEMMA Refs ==
  ASSUME SyncTypeOK, NEW p \in SegHandles, NEW r \in Int, reg' = [reg EXCEPT ![p].ref = r]
  PROVE  Enters(p, reg[p].on, r, reg[p].lock)
  <1>0. reg[p] \in RegRecords
    BY DEF SyncTypeOK
  <1>a. reg[p].on \in BOOLEAN /\ reg[p].ref \in Int /\ reg[p].lock \in Objs \cup {Nobody}
    BY <1>0 DEF RegRecords
  <1>1. [reg[p] EXCEPT !.ref = r] = [on |-> reg[p].on, ref |-> r, lock |-> reg[p].lock]
    BY <1>0 DEF RegRecords
  <1>2. reg' = [reg EXCEPT ![p] = [reg[p] EXCEPT !.ref = r]]
    BY DEF SyncTypeOK
  <1> QED BY <1>1, <1>2, <1>a, EntryBecomes

\* Both at once, in close.
LEMMA RefsLocks ==
  ASSUME SyncTypeOK, NEW p \in SegHandles, NEW r \in Int, NEW lk \in Objs \cup {Nobody},
         reg' = [reg EXCEPT ![p].ref = r, ![p].lock = lk]
  PROVE  Enters(p, reg[p].on, r, lk)
  <1>0. reg[p] \in RegRecords
    BY DEF SyncTypeOK
  <1>a. reg[p].on \in BOOLEAN /\ reg[p].ref \in Int /\ reg[p].lock \in Objs \cup {Nobody}
    BY <1>0 DEF RegRecords
  <1>1. [reg[p] EXCEPT !.ref = r] = [on |-> reg[p].on, ref |-> r, lock |-> reg[p].lock]
    BY <1>0 DEF RegRecords
  <1>2. reg' = [reg EXCEPT ![p] = [[reg[p] EXCEPT !.ref = r] EXCEPT !.lock = lk]]
    BY DEF SyncTypeOK
  <1>3. [[on |-> reg[p].on, ref |-> r, lock |-> reg[p].lock] EXCEPT !.lock = lk] = [on |-> reg[p].on, ref |-> r, lock |-> lk]
    OBVIOUS
  <1>4. reg' = [reg EXCEPT ![p] = [on |-> reg[p].on, ref |-> r, lock |-> lk]]
    BY <1>1, <1>2, <1>3
  <1> QED BY <1>4, <1>a, EntryBecomes

\* The semaphore with these fields.
Sem(a, b, c, d, e) == [name |-> a, made |-> b, net |-> c, val |-> d, of |-> e]

\* The semaphore, field by field.
LEMMA SemIs ==
  ASSUME SyncTypeOK
  PROVE  sem = Sem(sem.name, sem.made, sem.net, sem.val, sem.of)
  <1>1. sem \in SemRecords
    BY DEF SyncTypeOK
  <1> QED BY <1>1 DEF SemRecords, Sem

\* post and wait.
LEMMA Posts ==
  ASSUME SyncTypeOK, NEW s, NEW x, NEW y, sem' = [sem EXCEPT !.val[s] = x, !.net = y]
  PROVE  sem' = Sem(sem.name, sem.made, y, [sem.val EXCEPT ![s] = x], sem.of)
  <1>1. sem = Sem(sem.name, sem.made, sem.net, sem.val, sem.of)
    BY SemIs
  <1>2. PICK v, q : v = [sem.val EXCEPT ![s] = x] /\ q = [sem EXCEPT !.val = v]
    OBVIOUS
  <1>3. q = Sem(sem.name, sem.made, sem.net, v, sem.of)
    BY ONLY <1>1, <1>2 DEF Sem
  <1>4. sem' = [q EXCEPT !.net = y]
    BY <1>2
  <1> QED BY ONLY <1>2, <1>3, <1>4 DEF Sem

\* sem_open.
LEMMA SemOpens ==
  ASSUME SyncTypeOK, NEW m \in Objs, sem_open(m), NEW s, s = IF sem.name = 0 THEN sem.made + 1 ELSE sem.name
  PROVE  sem' = Sem(s, IF sem.name = 0 THEN s ELSE sem.made, IF sem.name = 0 THEN 0 ELSE sem.net,
                    [sem.val EXCEPT ![s] = IF sem.name = 0 THEN SemCount ELSE sem.val[s]], [sem.of EXCEPT ![Proc(m)] = s])
  <1>1. sem = Sem(sem.name, sem.made, sem.net, sem.val, sem.of)
    BY SemIs
  <1>2. PICK o, k, c, v : /\ o = [sem.of EXCEPT ![Proc(m)] = s]
                          /\ k = IF sem.name = 0 THEN s ELSE sem.made
                          /\ c = IF sem.name = 0 THEN 0 ELSE sem.net
                          /\ v = [sem.val EXCEPT ![s] = IF sem.name = 0 THEN SemCount ELSE sem.val[s]]
    OBVIOUS
  <1>3. sem' = [[[[[sem EXCEPT !.name = s] EXCEPT !.of = o] EXCEPT !.made = k] EXCEPT !.net = c] EXCEPT !.val = v]
    BY <1>2 DEF sem_open, SyncTypeOK, SemRecords
  <1>4. PICK q1, q2, q3, q4 : /\ q1 = [sem EXCEPT !.name = s] /\ q2 = [q1 EXCEPT !.of = o]
                              /\ q3 = [q2 EXCEPT !.made = k] /\ q4 = [q3 EXCEPT !.net = c]
    OBVIOUS
  <1>5. sem' = [q4 EXCEPT !.val = v]
    BY <1>3, <1>4
  <1>6. q1 = Sem(s, sem.made, sem.net, sem.val, sem.of)
    BY ONLY <1>1, <1>4 DEF Sem
  <1>7. q2 = Sem(s, sem.made, sem.net, sem.val, o)
    BY ONLY <1>6, <1>4 DEF Sem
  <1>8. q3 = Sem(s, k, sem.net, sem.val, o)
    BY ONLY <1>7, <1>4 DEF Sem
  <1>9. q4 = Sem(s, k, c, sem.val, o)
    BY ONLY <1>8, <1>4 DEF Sem
  <1> QED BY ONLY <1>2, <1>5, <1>9 DEF Sem

\* Unlinking, closing and clearing.
LEMMA SemForgets ==
  ASSUME SyncTypeOK, NEW p \in SegHandles
  PROVE  /\ [sem EXCEPT !.name = 0] = Sem(0, sem.made, sem.net, sem.val, sem.of)
         /\ [sem EXCEPT !.of[p] = 0] = Sem(sem.name, sem.made, sem.net, sem.val, [sem.of EXCEPT ![p] = 0])
         /\ [sem EXCEPT !.name = 0, !.of[p] = 0] = Sem(0, sem.made, sem.net, sem.val, [sem.of EXCEPT ![p] = 0])
  <1>1. sem = Sem(sem.name, sem.made, sem.net, sem.val, sem.of)
    BY SemIs
  <1>2. PICK o, q, r : o = [sem.of EXCEPT ![p] = 0] /\ q = [sem EXCEPT !.name = 0] /\ r = [sem EXCEPT !.of = o]
    OBVIOUS
  <1>3. q = Sem(0, sem.made, sem.net, sem.val, sem.of)
    BY ONLY <1>1, <1>2 DEF Sem
  <1>4. r = Sem(sem.name, sem.made, sem.net, sem.val, o)
    BY ONLY <1>1, <1>2 DEF Sem
  <1>5. q.of = sem.of
    BY <1>3 DEF Sem
  <1>6. [sem EXCEPT !.name = 0, !.of[p] = 0] = [q EXCEPT !.of = o]
    BY <1>2, <1>5
  <1>7. [q EXCEPT !.of = o] = Sem(0, sem.made, sem.net, sem.val, o)
    BY ONLY <1>3 DEF Sem
  <1> QED BY <1>2, <1>3, <1>4, <1>6, <1>7

\* The fields of the semaphore that results.
LEMMA SemFields ==
  ASSUME NEW a, NEW b, NEW c, NEW d, NEW e, sem' = Sem(a, b, c, d, e)
  PROVE  /\ sem'.name = a /\ sem'.made = b /\ sem'.net = c /\ sem'.val = d /\ sem'.of = e
         /\ a \in 0 .. MaxSegs /\ b \in 0 .. MaxSegs /\ c \in Int /\ d \in [1 .. MaxSegs -> Int]
              /\ e \in [SegHandles -> 0 .. MaxSegs] => sem' \in SemRecords
  BY DEF Sem, SemRecords

\* The object goes on and nothing but the registry may change.
Go(m, a) == Turns(m, a, obj[m].ptr, obj[m].self, obj[m].holds)

\* The first steps of open.
LEMMA AcquireEffect ==
  ASSUME SegTypeOK, SyncTypeOK, NEW m \in Objs, Acquire(m)
  PROVE  /\ Opened(Proc(m), "create|open") /\ Go(m, "shm")
         /\ Enters(Proc(m), reg[Proc(m)].on, reg[Proc(m)].ref, m) /\ UNCHANGED <<kind, sem, crossed>>
  <1>1. Proc(m) \in SegHandles
    BY ProcIn
  <1>2. Opened(Proc(m), "create|open")
    BY <1>1, OpenEffect DEF Acquire, OpenModes
  <1>3. Go(m, "shm")
    BY Goes DEF Acquire, Go, Pcs
  <1>4. Enters(Proc(m), reg[Proc(m)].on, reg[Proc(m)].ref, m)
    BY <1>1, Locks DEF Acquire
  <1> QED BY <1>2, <1>3, <1>4 DEF Acquire, shm_open

\* Where the handle is open, open goes on.
NextPc == CASE kind = "posix mutex" -> "made" [] kind = "sem" -> "semopen" [] OTHER -> "ref"

\* acquire, where the handle is open or opens.
LEMMA CountingEffect ==
  ASSUME SegTypeOK, SyncTypeOK, NEW m \in Objs, acquire(m)
  PROVE  /\ obj[m].pc = "shm" /\ UNCHANGED <<kind, reg, sem, crossed>>
         /\ \/ Sized(Proc(m)) /\ UNCHANGED obj
            \/ CountedIn(Proc(m), Initialising(Proc(m))) /\ Go(m, NextPc)
  <1>1. Proc(m) \in SegHandles /\ NextPc \in Pcs
    BY ProcIn DEF NextPc, Pcs
  <1>2. CASE get_mem(Proc(m)) /\ UNCHANGED obj
    BY <1>1, <1>2, SizeEffect DEF acquire, get_mem
  <1>3. CASE count(Proc(m), Initialising(Proc(m))) /\ Goto(m, NextPc)
    <2>1. Go(m, NextPc)
      BY <1>1, <1>3, Goes DEF Go
    <2>2. CountedIn(Proc(m), Initialising(Proc(m)))
      BY <1>1, <1>3, CountEffect
    <2> QED BY <1>3, <2>1, <2>2 DEF acquire, count
  <1> QED BY <1>2, <1>3 DEF acquire, NextPc

\* emplaced, field by field.
LEMMA EmplacedEffect ==
  ASSUME SyncTypeOK, NEW m \in Objs, emplaced(m)
  PROVE  /\ obj[m].pc = "made" /\ UNCHANGED <<segVars, sem, crossed>>
         /\ Turns(m, IF Mutex THEN "add" ELSE "idle", "live", obj[m].self, obj[m].holds)
         /\ Enters(Proc(m), Mutex, 0, Nobody)
  <1>1. Proc(m) \in SegHandles
    BY ProcIn
  <1>2. PICK a \in Pcs : a = IF Mutex THEN "add" ELSE "idle"
    BY DEF Pcs
  <1>3. obj' = [obj EXCEPT ![m].ptr = "live", ![m].pc = a]
    BY <1>2 DEF emplaced
  <1>4. Turns(m, a, "live", obj[m].self, obj[m].holds)
    BY <1>3, Points
  <1>5. PICK on \in BOOLEAN : on = (kind \in {"linux mutex", "posix mutex"})
    <2>1. (kind \in {"linux mutex", "posix mutex"}) \in BOOLEAN
      OBVIOUS
    <2> QED BY <2>1, Zenon
  <1>6. reg' = [reg EXCEPT ![Proc(m)] = [on |-> on, ref |-> 0, lock |-> Nobody]]
    BY <1>5 DEF emplaced, Mutex
  <1>7. Enters(Proc(m), on, 0, Nobody)
    <2>1. Nobody \in Objs \cup {Nobody} /\ 0 \in Int
      OBVIOUS
    <2> QED BY <1>1, <1>6, <2>1, EntryBecomes
  <1>8. Enters(Proc(m), Mutex, 0, Nobody)
    BY <1>5, <1>7 DEF Mutex
  <1> QED BY <1>2, <1>4, <1>8 DEF emplaced

\* open_add, field by field.
LEMMA AddEffect ==
  ASSUME SyncTypeOK, NEW m \in Objs, open_add(m)
  PROVE  /\ obj[m].pc = "add" /\ UNCHANGED <<segVars, sem>>
         /\ (crossed \/ \E n \in Others(m) : obj[n].pc \in {"chk", "init"}) => crossed'
         /\ Turns(m, IF Posix THEN "chk" ELSE "idle", obj[m].ptr, reg[Proc(m)].ref, obj[m].holds)
         /\ Enters(Proc(m), reg[Proc(m)].on, reg[Proc(m)].ref + 1, reg[Proc(m)].lock)
  <1>1. Proc(m) \in SegHandles /\ reg[Proc(m)].ref \in Int
    BY ProcIn, RegTypes
  <1>2. PICK a \in Pcs : a = IF Posix THEN "chk" ELSE "idle"
    BY DEF Pcs
  <1>3. obj' = [obj EXCEPT ![m].pc = a, ![m].self = reg[Proc(m)].ref]
    BY <1>2 DEF open_add
  <1>4. Turns(m, a, obj[m].ptr, reg[Proc(m)].ref, obj[m].holds)
    BY <1>1, <1>3, Adds
  <1>5. reg' = [reg EXCEPT ![Proc(m)].ref = reg[Proc(m)].ref + 1]
    BY <1>1 DEF open_add, SyncTypeOK
  <1>6. Enters(Proc(m), reg[Proc(m)].on, reg[Proc(m)].ref + 1, reg[Proc(m)].lock)
    <2>1. reg[Proc(m)].ref + 1 \in Int
      BY <1>1
    <2> QED BY <1>1, <1>5, <2>1, Refs
  <1> QED BY <1>2, <1>4, <1>6 DEF open_add

\* close of a mutex, field by field.
LEMMA CountOutEffect ==
  ASSUME SyncTypeOK, NEW m \in Objs, NEW a \in Pcs, CountOut(m, a)
  PROVE  /\ MayClose(m) /\ UNCHANGED <<segVars, sem>>
         /\ (crossed \/ (reg[Proc(m)].ref <= 1 /\ Uncounted(m))) => crossed'
         /\ Go(m, a) /\ Enters(Proc(m), reg[Proc(m)].on, reg[Proc(m)].ref - 1, m)
  <1>1. Proc(m) \in SegHandles /\ reg[Proc(m)].ref \in Int
    BY ProcIn, RegTypes
  <1>2. Go(m, a)
    BY Goes DEF CountOut, Go
  <1>3. reg' = [reg EXCEPT ![Proc(m)].ref = reg[Proc(m)].ref - 1, ![Proc(m)].lock = m]
    BY <1>1 DEF CountOut, SyncTypeOK
  <1>4. Enters(Proc(m), reg[Proc(m)].on, reg[Proc(m)].ref - 1, m)
    <2>1. reg[Proc(m)].ref - 1 \in Int
      BY <1>1
    <2> QED BY <1>1, <1>3, <2>1, RefsLocks
  <1> QED BY <1>2, <1>4 DEF CountOut

\* clear, field by field.
LEMMA ClearEffect ==
  ASSUME SyncTypeOK, NEW m \in Objs, NEW a \in Pcs, Clear(m, a)
  PROVE  /\ MayClose(m) /\ obj[m].pc = "idle" /\ UNCHANGED segVars
         /\ (crossed \/ Shared(m)) => crossed'
         /\ Go(m, a) /\ Enters(Proc(m), reg[Proc(m)].on, reg[Proc(m)].ref, m)
  <1>1. Proc(m) \in SegHandles
    BY ProcIn
  <1>2. Go(m, a)
    BY Goes DEF Clear, Go
  <1>3. Enters(Proc(m), reg[Proc(m)].on, reg[Proc(m)].ref, m)
    BY <1>1, Locks DEF Clear
  <1> QED BY <1>2, <1>3 DEF Clear

\* Gone: m is erased, and who else has the entry's address is left with it.
LEMMA GoneEffect ==
  ASSUME SyncTypeOK, NEW m \in Objs, Gone(m)
  PROVE  /\ obj' \in [Objs -> ObjRecords]
         /\ \A n \in Objs \ {m} : obj'[n].pc = obj[n].pc
         /\ obj'[m].pc = "erased"
         /\ \A n \in Objs \ {m} : obj[n].ptr = "null" => obj'[n].ptr = "null"
         /\ obj[m].ptr = "null" => obj'[m].ptr = "null"
         /\ Others(m) = {} => Go(m, "erased")
  <1>1. \A n \in Objs : /\ [obj[n] EXCEPT !.pc = "erased"] = Obj("erased", obj[n].ptr, obj[n].self, obj[n].holds)
                        /\ [obj[n] EXCEPT !.ptr = "dangling"] = Obj(obj[n].pc, "dangling", obj[n].self, obj[n].holds)
                        /\ obj[n].pc \in Pcs /\ obj[n].ptr \in {"null", "live", "dangling"}
                        /\ obj[n].self \in Int /\ obj[n].holds \in 0 .. MaxSegs
    <2> TAKE n \in Objs
    <2>1. obj[n] \in ObjRecords
      BY DEF SyncTypeOK
    <2> QED BY <2>1 DEF ObjRecords, Obj
  <1>2. obj'[m] = Obj("erased", obj[m].ptr, obj[m].self, obj[m].holds)
    BY <1>1 DEF Gone
  <1>3. \A n \in Objs \ {m} : obj'[n] = IF n \in Others(m) THEN Obj(obj[n].pc, "dangling", obj[n].self, obj[n].holds)
                                        ELSE obj[n]
    BY <1>1 DEF Gone
  <1>4. \A n \in Objs : obj'[n] \in ObjRecords
    <2>1. Obj("erased", obj[m].ptr, obj[m].self, obj[m].holds) \in ObjRecords
      BY <1>1 DEF Obj, ObjRecords, Pcs
    <2>2. \A n \in Objs : Obj(obj[n].pc, "dangling", obj[n].self, obj[n].holds) \in ObjRecords
      BY <1>1 DEF Obj, ObjRecords
    <2> QED BY <1>2, <1>3, <2>1, <2>2 DEF SyncTypeOK
  <1>5. obj' \in [Objs -> ObjRecords]
    BY <1>4 DEF Gone
  <1>6. \A n \in Objs \ {m} : n \in Others(m) => obj[n].ptr = "live"
    BY DEF Others
  <1> QED BY <1>2, <1>3, <1>5, <1>6 DEF Obj, Go, Turns

\* The end of close and clear, field by field.
LEMMA ClosedEffect ==
  ASSUME SyncTypeOK, NEW m \in Objs, closed(m)
  PROVE  /\ obj[m].pc \in {"erased", "keep"} /\ UNCHANGED <<sem, crossed, kind>>
         /\ hnd[Proc(m)].at = "unlink" => unlink(Proc(m))
         /\ hnd[Proc(m)].at # "unlink" => UNCHANGED segVars
         /\ Turns(m, "idle", "null", obj[m].self, obj[m].holds)
         /\ Enters(Proc(m), obj[m].pc = "keep", IF obj[m].pc = "keep" THEN reg[Proc(m)].ref ELSE 0, Nobody)
  <1>1. Proc(m) \in SegHandles /\ reg[Proc(m)].ref \in Int
    BY ProcIn, RegTypes
  <1>2. Turns(m, "idle", "null", obj[m].self, obj[m].holds)
    BY Points DEF closed, Pcs
  <1>3. PICK on \in BOOLEAN : on = (obj[m].pc = "keep")
    OBVIOUS
  <1>4. PICK r \in Int : r = IF obj[m].pc = "keep" THEN reg[Proc(m)].ref ELSE 0
    BY <1>1
  <1>5. reg' = [reg EXCEPT ![Proc(m)] = [on |-> on, ref |-> r, lock |-> Nobody]]
    <2>1. reg' = [reg EXCEPT ![Proc(m)] = [on |-> obj[m].pc = "keep", lock |-> Nobody,
                               ref |-> IF obj[m].pc = "keep" THEN reg[Proc(m)].ref ELSE 0]]
      BY <1>1 DEF closed, SyncTypeOK
    <2>2. reg' = [reg EXCEPT ![Proc(m)] = [on |-> on, lock |-> Nobody, ref |-> r]]
      BY <1>3, <1>4, <2>1
    <2>3. [on |-> on, lock |-> Nobody, ref |-> r] = [on |-> on, ref |-> r, lock |-> Nobody]
      OBVIOUS
    <2> QED BY <2>2, <2>3
  <1>6. Enters(Proc(m), on, r, Nobody)
    BY <1>1, <1>5, EntryBecomes
  <1>7. /\ hnd[Proc(m)].at = "unlink" => unlink(Proc(m))
        /\ hnd[Proc(m)].at # "unlink" => UNCHANGED segVars
        /\ UNCHANGED kind
    BY DEF closed, unlink, segVars
  <1> QED BY <1>2, <1>3, <1>4, <1>6, <1>7 DEF closed
-----------------------------------------------------------------------------
(* Nothing is left behind. *)

\* What a kind of object never does.
LEMMA PcFacts ==
  ASSUME SyncTypeOK, NEW m \in Objs
  PROVE  /\ obj[m].pc \in {"semopen", "semunlink"} => kind = "sem"
         /\ obj[m].pc \in {"add", "chk", "keep"} => Mutex
         /\ obj[m].pc \in {"chk", "init", "destroy", "cleardestroy"} => Posix
         /\ obj[m].pc \in {"ref", "erase"} => kind \in Kinds /\ kind # "sem"
         /\ obj[m].pc \in {"wipe"} => kind \in {"linux mutex", "linux cond"}
         /\ obj[m].pc = "ref" /\ Posix => kind = "posix cond"
         /\ kind = "posix cond" => obj[m].pc # "wipe"
  <1>1. obj[m].pc \in PcsOf(kind)
    BY DEF SyncTypeOK
  <1> QED BY <1>1 DEF PcsOf, Mutex, Posix, Kinds

\* The semaphore stays backed if no user goes.
LEMMA BackedStays ==
  ASSUME SemBacked, kind' = kind, sem'.name \in {sem.name, 0}, crossed => crossed',
         \A h \in SegHandles : hnd[h].at = "held" => hnd'[h].at = "held",
         \A m \in Objs : obj[m].pc = "semunlink" => obj'[m].pc = "semunlink",
         \A m \in Objs : obj'[m].pc = "clear" => obj[m].pc = "clear" \/ sem'.name = 0 \/ kind # "sem"
  PROVE  SemBacked'
  BY DEF SemBacked

\* Handles that go on keep being held.
LEMMA HeldStays ==
  ASSUME SegTypeOK, NEW p \in SegHandles, Opened(p, "create|open") \/ Sized(p) \/ \E i : CountedIn(p, i)
  PROVE  \A h \in SegHandles : hnd[h].at = "held" => hnd'[h].at = "held"
  <1>0. "create|open" \in OpenModes /\ hnd[p].mode \in OpenModes
    BY RecordTypes DEF OpenModes
  <1>1. CASE Opened(p, "create|open")
    <2>1. created + 1 \in 0 .. MaxSegs \/ ~(created < MaxSegs)
      BY SegmentAssumption DEF SegTypeOK
    <2>2. linked \in 0 .. MaxSegs
      BY SegmentAssumption DEF SegTypeOK
    <2> QED BY <1>0, <1>1, <2>1, <2>2, MovePoints DEF Opened
  <1>2. CASE Sized(p)
    <2>1. hnd[p].seg \in 0 .. MaxSegs
      BY RecordTypes
    <2> QED BY <1>0, <1>2, <2>1, MovePoints DEF Sized
  <1>3. ASSUME NEW i, CountedIn(p, i) PROVE \A h \in SegHandles : hnd[h].at = "held" => hnd'[h].at = "held"
    <2>1. hnd[p].seg \in 0 .. MaxSegs
      BY RecordTypes
    <2> QED BY <1>0, <1>3, <2>1, MovePoints DEF CountedIn
  <1> QED BY <1>1, <1>2, <1>3

LeftRest == SyncTypeOK /\ Registry /\ SemBacked

\* An object that only goes on, in a kind that has the step.
LEMMA GoLeft ==
  ASSUME LeftRest, NEW m \in Objs, NEW a \in PcsOf(kind), NEW b, NEW c, NEW d, Turns(m, a, b, c, d), Alone(m),
         kind' = kind, sem' \in SemRecords, reg' \in [SegHandles -> RegRecords],
         \A p \in SegHandles : reg'[p].on => reg[p].on \/ Mutex,
         sem'.name \in {sem.name, 0}, crossed => crossed',
         \A h \in SegHandles : hnd[h].at = "held" => hnd'[h].at = "held",
         obj[m].pc # "semunlink", a = "clear" => sem'.name = 0 \/ kind # "sem" \/ obj[m].pc = "clear"
  PROVE  LeftRest'
  <1> USE DEF LeftRest
  <1>1. SyncTypeOK'
    BY DEF SyncTypeOK, Turns
  <1>2. Registry'
    BY DEF Registry, NoRegistry, Alone, Turns, Mutex
  <1>3. SemBacked'
    BY BackedStays DEF Turns
  <1> QED BY <1>1, <1>2, <1>3

\* Opening, initialising, locking and unlocking, and the first step of closing.
LEMMA OnwardLeft ==
  ASSUME SegInv, LeftRest, NEW m \in Objs, kind \in Kinds,
         \/ acquire_mutex(m) \/ acquire_handle(m) \/ acquire_posix(m) \/ acquire_cond(m) \/ acquire_sem(m)
         \/ acquire(m) \/ emplaced(m) \/ open_add(m) \/ open_chk(m) \/ open_ref(m) \/ open_cond(m)
  PROVE  LeftRest'
  <1>0. SegTypeOK /\ SyncTypeOK /\ Registry /\ sem \in SemRecords /\ reg \in [SegHandles -> RegRecords]
        /\ Proc(m) \in SegHandles
    BY ProcIn DEF SegInv, LeftRest, SyncTypeOK
  <1>1. obj[m].pc # "idle" \/ obj[m].ptr # "null" \/ Mutex \/ m \in Single => Alone(m)
    BY <1>0 DEF Registry, Alone
  <1>2. CASE acquire_mutex(m)
    <2>1. Turns(m, "add", "live", obj[m].self, obj[m].holds)
      BY <1>0, <1>2, Points DEF acquire_mutex, Pcs
    <2>2. "add" \in PcsOf(kind)
      BY <1>2 DEF acquire_mutex, Mutex, PcsOf
    <2> QED BY <1>0, <1>1, <1>2, <2>1, <2>2, GoLeft DEF acquire_mutex, Closed, segVars
  <1>3. ASSUME Acquire(m), Alone(m), obj[m].pc = "idle" PROVE LeftRest'
    <2>1. "shm" \in PcsOf(kind)
      BY DEF PcsOf, Kinds
    <2>2. \A h \in SegHandles : hnd[h].at = "held" => hnd'[h].at = "held"
      BY <1>0, <1>3, AcquireEffect, HeldStays
    <2>3. Go(m, "shm") /\ Enters(Proc(m), reg[Proc(m)].on, reg[Proc(m)].ref, m) /\ UNCHANGED <<kind, sem, crossed>>
      BY <1>0, <1>3, AcquireEffect
    <2>4. \A p \in SegHandles : reg'[p].on => reg[p].on
      BY <1>0, <2>3 DEF Enters
    <2> QED BY <1>0, <1>3, <2>1, <2>2, <2>3, <2>4, GoLeft DEF Go, Enters
  <1>4. CASE acquire_handle(m) \/ acquire_posix(m)
    BY <1>1, <1>3, <1>4 DEF acquire_handle, acquire_posix, Closed, Mutex
  <1>5. CASE acquire_cond(m) \/ acquire_sem(m)
    BY <1>1, <1>3, <1>5 DEF acquire_cond, acquire_sem, Closed
  <1>6. CASE acquire(m)
    <2>1. obj[m].pc = "shm" /\ UNCHANGED <<kind, reg, sem, crossed>>
      BY <1>0, <1>6, CountingEffect
    <2>2. CASE Sized(Proc(m)) /\ UNCHANGED obj
      <3>1. \A h \in SegHandles : hnd[h].at = "held" => hnd'[h].at = "held"
        BY <1>0, <2>2, HeldStays
      <3>2. SemBacked'
        BY <2>1, <2>2, <3>1, BackedStays DEF LeftRest
      <3> QED BY <2>1, <2>2, <3>2 DEF LeftRest, SyncTypeOK, Registry, NoRegistry, Alone, Mutex
    <2>3. CASE CountedIn(Proc(m), Initialising(Proc(m))) /\ Go(m, NextPc)
      <3>1. \A h \in SegHandles : hnd[h].at = "held" => hnd'[h].at = "held"
        BY <1>0, <2>3, HeldStays
      <3>2. NextPc \in PcsOf(kind) /\ NextPc # "clear"
        BY DEF NextPc, PcsOf, Kinds
      <3>3. Alone(m)
        BY <1>1, <2>1
      <3> QED BY <1>0, <2>1, <2>3, <3>1, <3>2, <3>3, GoLeft DEF Go
    <2> QED BY <1>0, <1>6, <2>2, <2>3, CountingEffect
  <1>7. CASE emplaced(m)
    <2>1. /\ obj[m].pc = "made" /\ UNCHANGED <<segVars, sem, crossed>>
          /\ Turns(m, IF Mutex THEN "add" ELSE "idle", "live", obj[m].self, obj[m].holds)
          /\ Enters(Proc(m), Mutex, 0, Nobody)
      BY <1>0, <1>7, EmplacedEffect
    <2>2. PICK a \in PcsOf(kind) : a = (IF Mutex THEN "add" ELSE "idle") /\ a # "clear"
      BY DEF PcsOf, Mutex, Kinds
    <2>3. \A p \in SegHandles : reg'[p].on => reg[p].on \/ Mutex
      BY <1>0, <2>1 DEF Enters
    <2>4. Turns(m, a, "live", obj[m].self, obj[m].holds) /\ Alone(m) /\ reg' \in [SegHandles -> RegRecords]
      BY <1>1, <2>1, <2>2 DEF Enters
    <2> QED BY <1>0, <2>1, <2>2, <2>3, <2>4, GoLeft DEF segVars
  <1>8. CASE open_add(m)
    <2>1. /\ obj[m].pc = "add" /\ UNCHANGED <<segVars, sem>> /\ (crossed => crossed')
          /\ Turns(m, IF Posix THEN "chk" ELSE "idle", obj[m].ptr, reg[Proc(m)].ref, obj[m].holds)
          /\ Enters(Proc(m), reg[Proc(m)].on, reg[Proc(m)].ref + 1, reg[Proc(m)].lock)
      BY <1>0, <1>8, AddEffect
    <2>2. Mutex /\ Alone(m)
      BY <1>0, <1>1, <2>1, PcFacts
    <2>3. PICK a \in PcsOf(kind) : a = (IF Posix THEN "chk" ELSE "idle") /\ a # "clear"
      BY <2>2 DEF PcsOf, Mutex, Posix
    <2>4. Turns(m, a, obj[m].ptr, reg[Proc(m)].ref, obj[m].holds) /\ reg' \in [SegHandles -> RegRecords]
      BY <2>1, <2>3 DEF Enters
    <2> QED BY <1>0, <2>1, <2>2, <2>3, <2>4, GoLeft DEF segVars
  <1>9. ASSUME NEW a \in PcsOf(kind), a # "clear", Goto(m, a), obj[m].pc \notin {"idle", "semunlink"},
               UNCHANGED <<segVars, reg, sem, crossed>>
        PROVE  LeftRest'
    <2>1. a \in Pcs
      BY DEF PcsOf, Pcs
    <2>2. Go(m, a)
      BY <1>0, <1>9, <2>1, Goes DEF Go
    <2> QED BY <1>0, <1>1, <1>9, <2>2, GoLeft DEF Go, segVars
  <1>10. CASE open_chk(m)
    <2>1. kind = "posix mutex" /\ obj[m].pc = "chk"
      BY <1>0, <1>10, PcFacts DEF open_chk, Mutex, Posix
    <2> QED BY <1>9, <1>10, <2>1 DEF open_chk, PcsOf
  <1>11. CASE open_ref(m)
    <2>1. kind \in {"linux mutex", "linux cond"} /\ obj[m].pc = "ref"
      BY <1>0, <1>11, PcFacts DEF open_ref, Kinds, Posix
    <2> QED BY <1>9, <1>11, <2>1 DEF open_ref, PcsOf
  <1>12. CASE open_cond(m)
    <2>1. kind = "posix cond" /\ obj[m].pc = "ref"
      BY <1>0, <1>12, PcFacts DEF open_cond
    <2> QED BY <1>9, <1>12, <2>1 DEF open_cond, PcsOf
  <1> QED BY <1>2, <1>4, <1>5, <1>6, <1>7, <1>8, <1>10, <1>11, <1>12

\* Writing into the segment, locking, and the first steps of close and clear.
LEMMA InsideLeft ==
  ASSUME SegInv, LeftRest, NEW m \in Objs, kind \in Kinds,
         \/ open_wipe(m) \/ open_init(m) \/ init_cond(m) \/ destroy(m) \/ lock(m) \/ unlock(m)
         \/ close_linux(m) \/ close_posix(m) \/ close_cond(m)
         \/ clear_linux(m) \/ clear_posix(m) \/ clear_cond(m) \/ clear_entry(m) \/ exit(m)
  PROVE  LeftRest'
  <1>0. SegTypeOK /\ SyncTypeOK /\ Registry /\ sem \in SemRecords /\ reg \in [SegHandles -> RegRecords]
        /\ Proc(m) \in SegHandles
    BY ProcIn DEF SegInv, LeftRest, SyncTypeOK
  <1>1. obj[m].pc # "idle" \/ obj[m].ptr # "null" \/ Mutex => Alone(m)
    BY <1>0 DEF Registry, Alone
  <1>2. ASSUME NEW a \in PcsOf(kind), a = "clear" => kind # "sem", Goto(m, a), Alone(m), obj[m].pc # "semunlink",
               UNCHANGED <<kind, hnd, sem>>, crossed => crossed', reg' \in [SegHandles -> RegRecords],
               \A p \in SegHandles : reg'[p].on => reg[p].on
        PROVE  LeftRest'
    <2>1. a \in Pcs
      BY DEF PcsOf, Pcs
    <2>2. Go(m, a)
      BY <1>0, <1>2, <2>1, Goes DEF Go
    <2> QED BY <1>0, <1>2, <2>2, GoLeft DEF Go
  <1>3. CASE open_wipe(m)
    <2>1. kind \in {"linux mutex", "linux cond"} /\ obj[m].pc = "wipe"
      BY <1>0, <1>3, PcFacts DEF open_wipe
    <2> QED BY <1>0, <1>1, <1>2, <1>3, <2>1 DEF open_wipe, PcsOf
  <1>4. CASE open_init(m)
    BY <1>0, <1>1, <1>2, <1>4 DEF open_init, Initialise, PcsOf, Mutex
  <1>5. CASE init_cond(m)
    BY <1>0, <1>1, <1>2, <1>5 DEF init_cond, Initialise, PcsOf
  <1>6. CASE destroy(m)
    <2>1. kind \in {"posix mutex", "posix cond"}
      BY <1>0, <1>6, PcFacts DEF destroy, Posix
    <2>2. PICK a : a = IF obj[m].pc = "destroy" THEN "erase" ELSE "clear"
      OBVIOUS
    <2>3. a \in PcsOf(kind) /\ kind # "sem"
      BY <2>1, <2>2 DEF PcsOf
    <2> QED BY <1>0, <1>1, <1>2, <1>6, <2>2, <2>3 DEF destroy
  <1>7. CASE lock(m) \/ unlock(m)
    <2>1. SegOf(m) \in 0 .. MaxSegs /\ 0 \in 0 .. MaxSegs
      BY <1>0, RecordTypes, SegmentAssumption DEF SegOf
    <2>2. \E d \in 0 .. MaxSegs : obj' = [obj EXCEPT ![m].holds = d]
      BY <1>7, <2>1 DEF lock, unlock
    <2>3. PICK d \in 0 .. MaxSegs : Turns(m, obj[m].pc, obj[m].ptr, obj[m].self, d)
      BY <1>0, <2>2, HoldsOn
    <2>4. obj[m].pc \in PcsOf(kind) /\ obj[m].pc = "idle" /\ Mutex /\ UNCHANGED <<kind, hnd, reg, sem, crossed>>
      BY <1>0, <1>7 DEF lock, unlock, SyncTypeOK
    <2> QED BY <1>0, <1>1, <2>3, <2>4, GoLeft
  <1>8. ASSUME NEW a \in PcsOf(kind), CountOut(m, a), Mutex, a # "clear" PROVE LeftRest'
    <2>1. a \in Pcs
      BY DEF PcsOf, Pcs
    <2>2. /\ MayClose(m) /\ UNCHANGED <<segVars, sem>> /\ (crossed => crossed')
          /\ Enters(Proc(m), reg[Proc(m)].on, reg[Proc(m)].ref - 1, m)
      BY <1>0, <1>8, <2>1, CountOutEffect
    <2>3. reg' \in [SegHandles -> RegRecords] /\ \A p \in SegHandles : reg'[p].on => reg[p].on
      BY <1>0, <2>2 DEF Enters
    <2>4. obj[m].pc # "semunlink"
      BY <2>2 DEF MayClose
    <2> QED BY <1>0, <1>1, <1>2, <1>8, <2>2, <2>3, <2>4 DEF CountOut, segVars
  <1>9. CASE close_linux(m)
    <2>1. PICK a \in PcsOf(kind) : a = (IF reg[Proc(m)].ref <= 1 THEN "erase" ELSE "keep") /\ a # "clear"
      BY <1>9 DEF close_linux, PcsOf
    <2> QED BY <1>8, <1>9, <2>1 DEF close_linux, Mutex
  <1>10. CASE close_posix(m)
    <2>1. PICK a \in PcsOf(kind) : /\ a = IF reg[Proc(m)].ref <= 1 /\ get_ref(Proc(m)) <= 1 THEN "destroy" ELSE "keep"
                                   /\ a # "clear"
      BY <1>10 DEF close_posix, PcsOf
    <2> QED BY <1>8, <1>10, <2>1 DEF close_posix, Mutex
  <1>11. CASE close_cond(m)
    <2>1. PICK a \in PcsOf(kind) : /\ a = IF Posix /\ get_ref(Proc(m)) <= 1 THEN "destroy" ELSE "erase"
                                   /\ a # "clear"
      BY <1>11 DEF close_cond, PcsOf, Posix
    <2>2. obj[m].ptr = "live" /\ obj[m].pc # "semunlink"
      BY <1>11 DEF close_cond, MayClose
    <2> QED BY <1>0, <1>1, <1>2, <1>11, <2>1, <2>2 DEF close_cond, segVars
  <1>12. ASSUME NEW a \in PcsOf(kind), Clear(m, a), kind # "sem", UNCHANGED sem PROVE LeftRest'
    <2>1. a \in Pcs
      BY DEF PcsOf, Pcs
    <2>2. /\ MayClose(m) /\ obj[m].pc = "idle" /\ UNCHANGED segVars /\ (crossed => crossed')
          /\ Enters(Proc(m), reg[Proc(m)].on, reg[Proc(m)].ref, m)
      BY <1>0, <1>12, <2>1, ClearEffect
    <2>3. reg' \in [SegHandles -> RegRecords] /\ \A p \in SegHandles : reg'[p].on => reg[p].on
      BY <1>0, <2>2 DEF Enters
    <2>4. obj[m].ptr = "live"
      BY <2>2 DEF MayClose
    <2> QED BY <1>0, <1>1, <1>2, <1>12, <2>2, <2>3, <2>4 DEF Clear, segVars
  <1>13. CASE clear_linux(m)
    <2>1. "clear" \in PcsOf(kind)
      BY <1>13 DEF clear_linux, PcsOf
    <2> QED BY <1>12, <1>13, <2>1 DEF clear_linux
  <1>14. CASE clear_posix(m)
    <2>1. "cleardestroy" \in PcsOf(kind)
      BY <1>14 DEF clear_posix, PcsOf
    <2> QED BY <1>12, <1>14, <2>1 DEF clear_posix
  <1>15. CASE clear_cond(m)
    <2>1. PICK a \in PcsOf(kind) : a = IF get_ref(Proc(m)) <= 1 THEN "cleardestroy" ELSE "clear"
      BY <1>15 DEF clear_cond, PcsOf
    <2> QED BY <1>12, <1>15, <2>1 DEF clear_cond
  <1>16. CASE clear_entry(m) \/ exit(m)
    <2>1. reg' = [reg EXCEPT ![Proc(m)].lock = m] /\ UNCHANGED <<segVars, sem>> /\ (crossed => crossed')
      <3>1. CASE clear_entry(m)
        BY <3>1 DEF clear_entry
      <3>2. CASE exit(m)
        BY <3>2 DEF exit
      <3> QED BY <1>16, <3>1, <3>2
    <2>2. Enters(Proc(m), reg[Proc(m)].on, reg[Proc(m)].ref, m)
      BY <1>0, <2>1, Locks
    <2>3. reg' \in [SegHandles -> RegRecords] /\ \A p \in SegHandles : reg'[p].on => reg[p].on
      BY <1>0, <2>2 DEF Enters
    <2>4. Mutex
      BY <1>0, <1>16 DEF clear_entry, exit, Registry, NoRegistry
    <2>5. "erase" \in PcsOf(kind) /\ Goto(m, "erase") /\ obj[m].pc = "idle"
      BY <1>16, <2>4 DEF clear_entry, exit, PcsOf, Mutex, Closed
    <2> QED BY <1>0, <1>1, <1>2, <2>1, <2>3, <2>4, <2>5 DEF segVars
  <1> QED BY <1>3, <1>4, <1>5, <1>6, <1>7, <1>9, <1>10, <1>11, <1>13, <1>14, <1>15, <1>16

\* A step of an object moves the handle of its own process only.
LEMMA HandleIts ==
  ASSUME SegTypeOK, NEW h \in SegHandles, SegStep(h)
  PROVE  \A g \in SegHandles \ {h} : hnd'[g] = hnd[g]
  <1>1. CASE \E md \in OpenModes : shm_open(h, md)
    BY <1>1 DEF shm_open, SegTypeOK
  <1>2. CASE get_mem(h)
    BY <1>2 DEF get_mem, SegTypeOK
  <1>3. CASE \E i \in BOOLEAN : count(h, i)
    BY <1>3 DEF count, SegTypeOK
  <1>4. CASE release(h)
    BY <1>4 DEF release, SegTypeOK
  <1>5. CASE remove(h) \/ unlink(h) \/ clear_storage
    BY <1>5 DEF remove, unlink, clear_storage, SegTypeOK
  <1> QED BY <1>1, <1>2, <1>3, <1>4, <1>5 DEF SegStep

\* Who comes to open the semaphore has just been counted.
LEMMA OnlyIts ==
  ASSUME SegTypeOK, SyncTypeOK, NEW m \in Objs, SyncStep(m)
  PROVE  /\ \A n \in Objs \ {m} : obj'[n].pc = obj[n].pc
         /\ \A g \in SegHandles \ {Proc(m)} : hnd'[g] = hnd[g]
         /\ obj'[m].pc = "semopen" => hnd'[Proc(m)].at = "held"
  <1>0. Proc(m) \in SegHandles
    BY ProcIn
  <1>1. \A g \in SegHandles \ {Proc(m)} : hnd'[g] = hnd[g]
    BY <1>0, SyncSeg, HandleIts DEF Inside
  <1>2. ASSUME NEW a, Goto(m, a) PROVE (\A n \in Objs \ {m} : obj'[n].pc = obj[n].pc) /\ obj'[m].pc = a
    <2>1. obj[m] \in ObjRecords /\ \A n \in Objs \ {m} : obj'[n] = obj[n]
      BY <1>2 DEF Goto, SyncTypeOK
    <2>2. obj'[m] = [obj[m] EXCEPT !.pc = a]
      BY <1>2 DEF Goto, SyncTypeOK
    <2> QED BY <2>1, <2>2 DEF ObjRecords
  <1>3. ASSUME NEW a \in Pcs \ {"semopen"}, NEW b, NEW c, NEW d, Turns(m, a, b, c, d)
        PROVE (\A n \in Objs \ {m} : obj'[n].pc = obj[n].pc) /\ obj'[m].pc # "semopen"
    BY <1>3 DEF Turns
  <1> SUFFICES (\A n \in Objs \ {m} : obj'[n].pc = obj[n].pc) /\ (obj'[m].pc = "semopen" => hnd'[Proc(m)].at = "held")
    BY <1>1
  <1>4. CASE MutexStep(m)
    <2>1. CASE acquire_mutex(m)
      BY <1>3, <2>1, Points, ZenonT(40) DEF acquire_mutex, Pcs
    <2>2. CASE open_add(m)
      <3>1. PICK a \in Pcs \ {"semopen"} : a = IF Posix THEN "chk" ELSE "idle"
        BY DEF Pcs
      <3> QED BY <1>3, <2>2, <3>1, AddEffect
    <2>3. CASE lock(m) \/ unlock(m)
      <3>1. SegOf(m) \in 0 .. MaxSegs /\ 0 \in 0 .. MaxSegs
        BY <1>0, RecordTypes, SegmentAssumption DEF SegOf
      <3>2. \E d \in 0 .. MaxSegs : obj' = [obj EXCEPT ![m].holds = d]
        BY <2>3, <3>1 DEF lock, unlock
      <3>3. PICK d \in 0 .. MaxSegs : Turns(m, obj[m].pc, obj[m].ptr, obj[m].self, d)
        BY <3>2, HoldsOn
      <3> QED BY <2>3, <3>3 DEF lock, unlock, Turns
    <2>4. CASE acquire_handle(m) \/ acquire_posix(m) \/ open_chk(m) \/ open_init(m)
      <3>1. Goto(m, "shm") \/ Goto(m, "idle") \/ Goto(m, "init")
        BY <2>4 DEF acquire_handle, acquire_posix, Acquire, open_chk, open_init, Initialise
      <3> QED BY <1>2, <3>1
    <2>5. CASE close_linux(m) \/ close_posix(m) \/ clear_linux(m) \/ clear_posix(m) \/ clear_entry(m) \/ exit(m)
      <3>1. Goto(m, "erase") \/ Goto(m, "keep") \/ Goto(m, "destroy") \/ Goto(m, "clear") \/ Goto(m, "cleardestroy")
        BY <2>5 DEF close_linux, close_posix, clear_linux, clear_posix, clear_entry, exit, CountOut, Clear
      <3> QED BY <1>2, <3>1
    <2> QED BY <1>4, <2>1, <2>2, <2>3, <2>4, <2>5 DEF MutexStep
  <1>5. CASE CondStep(m)
    <2>1. \/ Goto(m, "shm") \/ Goto(m, "made") \/ Goto(m, "init") \/ Goto(m, "destroy") \/ Goto(m, "erase")
          \/ Goto(m, "clear") \/ Goto(m, "cleardestroy")
      BY <1>5 DEF CondStep, acquire_cond, open_cond, init_cond, close_cond, clear_cond, Acquire, Initialise, Clear
    <2> QED BY <1>2, <2>1
  <1>6. CASE SemStep(m)
    <2>1. CASE acquire_sem(m) \/ sem_open(m) \/ close_sem(m) \/ clear_sem(m)
      BY <1>2, <2>1 DEF acquire_sem, sem_open, close_sem, clear_sem, Acquire, Clear
    <2>2. CASE sem_unlink(m)
      <3>1. CASE hnd[Proc(m)].at = "unlink"
        BY <2>2, <3>1 DEF sem_unlink
      <3>2. CASE hnd[Proc(m)].at # "unlink"
        BY <1>2, <2>2, <3>2 DEF sem_unlink
      <3> QED BY <3>1, <3>2
    <2>3. CASE post(m) \/ wait(m)
      BY <2>3 DEF post, wait
    <2> QED BY <1>6, <2>1, <2>2, <2>3 DEF SemStep
  <1>7. CASE acquire(m)
    <2>1. CASE get_mem(Proc(m)) /\ UNCHANGED obj
      BY <1>7, <2>1 DEF acquire
    <2>2. CASE count(Proc(m), Initialising(Proc(m))) /\ Goto(m, NextPc)
      <3>1. CountedIn(Proc(m), Initialising(Proc(m)))
        BY <1>0, <2>2, CountEffect
      <3>2. hnd[Proc(m)].seg \in 0 .. MaxSegs /\ hnd[Proc(m)].mode \in OpenModes
        BY <1>0, RecordTypes
      <3>3. hnd'[Proc(m)].at = "held"
        BY <1>0, <3>1, <3>2, MovePoints DEF CountedIn
      <3> QED BY <1>2, <2>2, <3>3
    <2> QED BY <1>7, <2>1, <2>2 DEF acquire, NextPc
  <1>8. CASE emplaced(m)
    <2>1. PICK a \in Pcs \ {"semopen"} : a = IF Mutex THEN "add" ELSE "idle"
      BY DEF Pcs
    <2> QED BY <1>3, <1>8, <2>1, EmplacedEffect
  <1>9. CASE closed(m)
    BY <1>3, <1>9, ClosedEffect DEF Pcs
  <1>10. CASE open_ref(m) \/ open_wipe(m) \/ destroy(m)
    BY <1>2, <1>10 DEF open_ref, open_wipe, destroy
  <1>11. CASE erase(m) \/ clear_shm(m)
    BY <1>11, GoneEffect DEF erase, clear_shm
  <1>12. CASE clear_name(m)
    BY <1>12 DEF clear_name, Closed
  <1> QED BY <1>4, <1>5, <1>6, <1>7, <1>8, <1>9, <1>10, <1>11, <1>12 DEF SyncStep

\* Of a condition or semaphore a process has one object.
LEMMA OneEach ==
  ASSUME NEW m \in Single, NEW n \in Single, Proc(m) = Proc(n)
  PROVE  m = n
  BY SyncAssumption DEF Single, Proc

\* Who opens the semaphore keeps its segment meanwhile.
LEMMA SemHeldKept ==
  ASSUME SegInv, LeftRest, SemHeld, NEW m \in Objs, SyncStep(m)
  PROVE  SemHeld'
  <1>1. SegTypeOK /\ SyncTypeOK /\ Registry
    BY DEF SegInv, LeftRest
  <1> SUFFICES ASSUME NEW n \in Objs, obj'[n].pc = "semopen"
               PROVE  hnd'[Proc(n)].at = "held"
    BY DEF SemHeld
  <1>2. CASE n = m
    BY <1>1, <1>2, OnlyIts
  <1>3. CASE n # m
    <2>1. obj[n].pc = "semopen" /\ hnd[Proc(n)].at = "held"
      BY <1>1, <1>3, OnlyIts DEF SemHeld
    <2>2. kind = "sem" /\ n \in Single
      BY <1>1, <2>1, PcFacts DEF Registry, Alone, Mutex
    <2>3. obj[m].pc # "idle" \/ obj[m].ptr # "null" => Proc(n) # Proc(m)
      BY <1>1, <1>3, <2>2, OneEach DEF Registry, Alone, Mutex
    <2>4. CASE Proc(n) # Proc(m)
      BY <1>1, <2>1, <2>4, OnlyIts, ProcIn
    <2>5. CASE obj[m].pc = "idle" /\ obj[m].ptr = "null"
      <3>1. hnd' = hnd \/ m \in Single
        BY <2>2, <2>5 DEF SyncStep, MutexStep, CondStep, SemStep, Mutex, Posix, acquire_mutex, acquire_handle, acquire_posix,
           open_add, open_chk, open_init, close_linux, close_posix, clear_linux, clear_posix, clear_entry, exit,
           lock, unlock, acquire_cond, open_cond, init_cond, close_cond, clear_cond, acquire_sem, sem_open, close_sem,
           sem_unlink, clear_sem, post, wait, acquire, open_ref, open_wipe, emplaced, destroy, erase, clear_shm, closed,
           clear_name, CountOut, MayClose, Clear, Closed, clear_storage, segVars
      <3> QED BY <1>3, <2>1, <2>2, <2>4, <3>1, OneEach
    <2> QED BY <2>3, <2>4, <2>5
  <1> QED BY <1>2, <1>3

\* Releasing the segment, giving the entry or the object up, and the semaphore.
LEMMA AwayLeft ==
  ASSUME SegInv, LeftRest, SemHeld, NEW m \in Objs, kind \in Kinds,
         \/ erase(m) \/ clear_shm(m) \/ closed(m) \/ clear_name(m)
         \/ sem_open(m) \/ close_sem(m) \/ sem_unlink(m) \/ clear_sem(m) \/ post(m) \/ wait(m)
  PROVE  LeftRest'
  <1>0. SegTypeOK /\ SyncTypeOK /\ Registry /\ SemBacked /\ sem \in SemRecords /\ reg \in [SegHandles -> RegRecords]
        /\ Proc(m) \in SegHandles
    BY ProcIn DEF SegInv, LeftRest, SyncTypeOK
  <1>1. obj[m].pc # "idle" \/ obj[m].ptr # "null" \/ Mutex \/ m \in Single => Alone(m)
    BY <1>0 DEF Registry, Alone
  <1>2. CASE erase(m) \/ clear_shm(m)
    <2>1. obj[m].pc \in {"erase", "clear"} /\ Gone(m) /\ UNCHANGED <<kind, reg, sem, crossed>>
      BY <1>2 DEF erase, clear_shm, release, remove
    <2>2. /\ obj' \in [Objs -> ObjRecords]
          /\ \A n \in Objs \ {m} : obj'[n].pc = obj[n].pc
          /\ obj'[m].pc = "erased"
          /\ \A n \in Objs \ {m} : obj[n].ptr = "null" => obj'[n].ptr = "null"
      BY <1>0, <2>1, GoneEffect
    <2>3. "erased" \in PcsOf(kind)
      BY DEF PcsOf, Kinds
    <2>4. SyncTypeOK'
      BY <1>0, <2>1, <2>2, <2>3 DEF SyncTypeOK
    <2>5. Registry'
      BY <1>0, <1>1, <2>1, <2>2 DEF Registry, NoRegistry, Alone, Mutex
    <2>6. kind = "sem" => obj[m].pc = "clear"
      BY <1>0, <2>1, PcFacts
    <2>7. SemBacked'
      BY <1>0, <2>1, <2>2, <2>6 DEF SemBacked
    <2> QED BY <2>4, <2>5, <2>7 DEF LeftRest
  <1>3. CASE closed(m)
    <2>1. /\ obj[m].pc \in {"erased", "keep"} /\ UNCHANGED <<sem, crossed, kind>>
          /\ Turns(m, "idle", "null", obj[m].self, obj[m].holds)
          /\ Enters(Proc(m), obj[m].pc = "keep", IF obj[m].pc = "keep" THEN reg[Proc(m)].ref ELSE 0, Nobody)
      BY <1>0, <1>3, ClosedEffect
    <2>2. \A h \in SegHandles : hnd[h].at = "held" => hnd'[h].at = "held"
      BY <1>0, <1>3, ClosedEffect DEF unlink, segVars, SegTypeOK
    <2>3. \A p \in SegHandles : reg'[p].on => reg[p].on \/ Mutex
      BY <1>0, <2>1, PcFacts DEF Enters
    <2>4. "idle" \in PcsOf(kind) /\ Alone(m) /\ reg' \in [SegHandles -> RegRecords]
      BY <1>1, <2>1 DEF PcsOf, Kinds, Enters
    <2> QED BY <1>0, <2>1, <2>2, <2>3, <2>4, GoLeft
  <1>4. CASE clear_name(m)
    <2>1. sem' = Sem(0, sem.made, sem.net, sem.val, sem.of) /\ UNCHANGED <<kind, hnd, reg, obj, crossed>>
      BY <1>0, <1>4, SemForgets DEF clear_name, clear_storage
    <2>2. sem' \in SemRecords /\ sem'.name = 0
      BY <1>0, <2>1, SemFields, SegmentAssumption DEF SemRecords
    <2>3. SemBacked'
      BY <1>0, <2>1, <2>2, BackedStays
    <2> QED BY <1>0, <2>1, <2>2, <2>3 DEF LeftRest, SyncTypeOK, Registry, NoRegistry, Alone, Mutex
  <1>5. CASE sem_open(m)
    <2>1. PICK s : s = IF sem.name = 0 THEN sem.made + 1 ELSE sem.name
      OBVIOUS
    <2>2. PICK k, c, x : /\ k = IF sem.name = 0 THEN s ELSE sem.made
                         /\ c = IF sem.name = 0 THEN 0 ELSE sem.net
                         /\ x = IF sem.name = 0 THEN SemCount ELSE sem.val[s]
      OBVIOUS
    <2>3. sem' = Sem(s, k, c, [sem.val EXCEPT ![s] = x], [sem.of EXCEPT ![Proc(m)] = s])
      BY <1>0, <1>5, <2>1, <2>2, SemOpens
    <2>4. obj[m].pc = "semopen" /\ s <= MaxSegs /\ UNCHANGED <<segVars, reg>> /\ Goto(m, "made")
          /\ ((crossed \/ \E n \in Single : obj[n].pc \in {"semunlink", "clear"}) => crossed')
      BY <1>5, <2>1 DEF sem_open
    <2>5. s \in 1 .. MaxSegs /\ k \in 0 .. MaxSegs /\ c \in Int /\ x \in Int
      BY <1>0, <2>1, <2>2, <2>4, SegmentAssumption, SyncAssumption DEF SemRecords
    <2>6. [sem.val EXCEPT ![s] = x] \in [1 .. MaxSegs -> Int] /\ [sem.of EXCEPT ![Proc(m)] = s] \in [SegHandles -> 0 .. MaxSegs]
      BY <1>0, <2>5 DEF SemRecords
    <2>7. sem' \in SemRecords
      <3>1. PICK v, e : v = [sem.val EXCEPT ![s] = x] /\ e = [sem.of EXCEPT ![Proc(m)] = s]
        OBVIOUS
      <3>2. sem' = Sem(s, k, c, v, e) /\ v \in [1 .. MaxSegs -> Int] /\ e \in [SegHandles -> 0 .. MaxSegs] /\ s \in 0 .. MaxSegs
        BY <2>3, <2>5, <2>6, <3>1
      <3> QED BY <2>5, <3>2, SemFields
    <2>8. kind = "sem" /\ "made" \in PcsOf(kind) /\ "made" \in Pcs
      BY <1>0, <2>4, PcFacts DEF PcsOf, Pcs
    <2>9. Go(m, "made")
      BY <1>0, <2>4, <2>8, Goes DEF Go
    <2>10. SyncTypeOK'
      BY <1>0, <2>4, <2>7, <2>8, <2>9 DEF SyncTypeOK, Go, Turns, segVars
    <2>11. Registry'
      BY <1>0, <1>1, <2>4, <2>9 DEF Registry, NoRegistry, Alone, Mutex, Go, Turns, segVars
    <2>12. hnd'[Proc(m)].at = "held"
      BY <2>4 DEF SemHeld, segVars
    <2>13. crossed' \/ \A n \in Objs : obj'[n].pc # "clear"
      BY <1>0, <2>4, <2>8, <2>9 DEF Go, Turns, Registry, Alone, Mutex
    <2>14. SemBacked'
      BY <1>0, <2>4, <2>8, <2>12, <2>13 DEF SemBacked, segVars
    <2> QED BY <2>10, <2>11, <2>14 DEF LeftRest
  <1>6. CASE close_sem(m)
    <2>1. /\ kind = "sem" /\ MayClose(m) /\ release(Proc(m)) /\ UNCHANGED <<reg, crossed, kind>>
          /\ sem' = Sem(sem.name, sem.made, sem.net, sem.val, [sem.of EXCEPT ![Proc(m)] = 0])
      BY <1>0, <1>6, SemForgets DEF close_sem, release
    <2>2. PICK a : a = IF get_ref(Proc(m)) <= 1 THEN "semunlink" ELSE "erased"
      OBVIOUS
    <2>3. a \in PcsOf(kind) /\ a \in Pcs /\ Goto(m, a)
      BY <1>6, <2>1, <2>2 DEF close_sem, PcsOf, Pcs
    <2>4. Go(m, a)
      BY <1>0, <2>3, Goes DEF Go
    <2>5. [sem.of EXCEPT ![Proc(m)] = 0] \in [SegHandles -> 0 .. MaxSegs]
      BY <1>0, SegmentAssumption DEF SemRecords
    <2>6. sem' \in SemRecords /\ sem'.name = sem.name
      <3>1. PICK e : e = [sem.of EXCEPT ![Proc(m)] = 0]
        OBVIOUS
      <3>2. sem' = Sem(sem.name, sem.made, sem.net, sem.val, e) /\ e \in [SegHandles -> 0 .. MaxSegs]
        BY <2>1, <2>5, <3>1
      <3> QED BY <1>0, <3>2, SemFields DEF SemRecords
    <2>7. SyncTypeOK'
      BY <1>0, <2>1, <2>3, <2>4, <2>6 DEF SyncTypeOK, Go, Turns
    <2>8. obj[m].pc \notin {"semunlink", "clear"} /\ Alone(m)
      BY <1>1, <2>1 DEF MayClose, Mutex
    <2>9. Registry'
      BY <1>0, <2>1, <2>4, <2>8 DEF Registry, NoRegistry, Alone, Mutex, Go, Turns
    <2>10. a # "clear" /\ obj'[m].pc = a /\ \A n \in Objs \ {m} : obj'[n].pc = obj[n].pc
      BY <2>2, <2>4 DEF Go, Turns
    <2>11. CASE a = "semunlink"
      <3>1. SemBacked'
        BY <1>0, <2>1, <2>6, <2>10, <2>11 DEF SemBacked
      <3> QED BY <2>7, <2>9, <3>1 DEF LeftRest
    <2>12. CASE a # "semunlink"
      <3>1. ~(get_ref(Proc(m)) <= 1)
        BY <2>2, <2>12
      <3>2. hnd[Proc(m)].at = "held" /\ segs[hnd[Proc(m)].seg].acc > 1
        <4>1. hnd[Proc(m)].at = "held"
          BY <3>1 DEF get_ref
        <4>2. segs[hnd[Proc(m)].seg].acc \in Int
          BY <1>0, <4>1, SegIn DEF SegRecords
        <4> QED BY <3>1, <4>1, <4>2 DEF get_ref
      <3>3. PICK g \in SegHandles \ {Proc(m)} : hnd[g].at = "held"
        BY <1>0, <3>2, AnotherHolds DEF SegInv
      <3>4. hnd'[g].at = "held"
        BY <1>0, <2>1, <3>3 DEF release, SegTypeOK
      <3>5. SemBacked'
        BY <1>0, <2>1, <2>6, <2>10, <3>4 DEF SemBacked
      <3> QED BY <2>7, <2>9, <3>5 DEF LeftRest
    <2> QED BY <2>11, <2>12
  <1>7. CASE sem_unlink(m)
    <2>1. obj[m].pc = "semunlink" /\ kind = "sem" /\ UNCHANGED <<reg, crossed>> /\ Alone(m)
      BY <1>0, <1>1, <1>7, PcFacts DEF sem_unlink
    <2>2. CASE hnd[Proc(m)].at = "unlink"
      <3>1. unlink(Proc(m)) /\ UNCHANGED <<obj, sem, kind>>
        BY <1>7, <2>2 DEF sem_unlink, unlink
      <3>2. \A h \in SegHandles : hnd[h].at = "held" => hnd'[h].at = "held"
        BY <1>0, <3>1 DEF unlink, SegTypeOK
      <3>3. SemBacked'
        BY <1>0, <2>1, <3>1, <3>2, BackedStays
      <3> QED BY <1>0, <2>1, <3>1, <3>3 DEF LeftRest, SyncTypeOK, Registry, NoRegistry, Alone, Mutex
    <2>3. CASE hnd[Proc(m)].at # "unlink"
      <3>1. sem' = Sem(0, sem.made, sem.net, sem.val, sem.of) /\ UNCHANGED segVars /\ Goto(m, "erased")
        BY <1>0, <1>7, <2>3, SemForgets DEF sem_unlink
      <3>2. sem' \in SemRecords /\ sem'.name = 0
        BY <1>0, <3>1, SemFields, SegmentAssumption, SMTT(40) DEF SemRecords
      <3>3. "erased" \in PcsOf(kind) /\ Go(m, "erased")
        BY <1>0, <2>1, <3>1, Goes DEF Go, Pcs, PcsOf
      <3>4. SyncTypeOK'
        BY <1>0, <2>1, <3>1, <3>2, <3>3 DEF SyncTypeOK, Go, Turns, segVars
      <3>5. Registry'
        BY <1>0, <2>1, <3>1, <3>3 DEF Registry, NoRegistry, Alone, Mutex, Go, Turns, segVars
      <3>6. SemBacked'
        BY <1>0, <2>1, <3>1, <3>2 DEF SemBacked, segVars
      <3> QED BY <3>4, <3>5, <3>6 DEF LeftRest
    <2> QED BY <2>2, <2>3
  <1>8. CASE clear_sem(m)
    <2>1. /\ kind = "sem" /\ Clear(m, "clear")
          /\ sem' = Sem(0, sem.made, sem.net, sem.val, [sem.of EXCEPT ![Proc(m)] = 0])
      BY <1>0, <1>8, SemForgets DEF clear_sem
    <2>2. /\ MayClose(m) /\ obj[m].pc = "idle" /\ UNCHANGED segVars /\ (crossed => crossed')
          /\ Go(m, "clear") /\ Enters(Proc(m), reg[Proc(m)].on, reg[Proc(m)].ref, m)
      BY <1>0, <2>1, ClearEffect DEF Pcs
    <2>3. [sem.of EXCEPT ![Proc(m)] = 0] \in [SegHandles -> 0 .. MaxSegs]
      BY <1>0, SegmentAssumption DEF SemRecords
    <2>4. sem' \in SemRecords /\ sem'.name = 0
      <3>1. PICK e : e = [sem.of EXCEPT ![Proc(m)] = 0]
        OBVIOUS
      <3>2. sem' = Sem(0, sem.made, sem.net, sem.val, e) /\ e \in [SegHandles -> 0 .. MaxSegs]
        BY <2>1, <2>3, <3>1
      <3>3. 0 \in 0 .. MaxSegs /\ sem.made \in 0 .. MaxSegs /\ sem.net \in Int /\ sem.val \in [1 .. MaxSegs -> Int]
        BY <1>0, SegmentAssumption DEF SemRecords
      <3> QED BY <3>2, <3>3, SemFields
    <2>5. reg' \in [SegHandles -> RegRecords] /\ \A p \in SegHandles : reg'[p].on => reg[p].on
      BY <1>0, <2>2 DEF Enters
    <2>6. Alone(m) /\ "clear" \in PcsOf(kind)
      BY <1>1, <2>1, <2>2 DEF MayClose, PcsOf
    <2> QED BY <1>0, <2>1, <2>2, <2>4, <2>5, <2>6, GoLeft DEF Go, segVars
  <1>9. CASE post(m) \/ wait(m)
    <2>0. sem.net \in Int /\ (\A i \in 1 .. MaxSegs : sem.val[i] \in Int) /\ sem.val \in [1 .. MaxSegs -> Int]
      BY <1>0 DEF SemRecords
    <2>1. PICK s : s = sem.of[Proc(m)]
      OBVIOUS
    <2>2. PICK x, y : /\ (s \in 1 .. MaxSegs => x \in Int) /\ y \in Int
                      /\ sem' = Sem(sem.name, sem.made, y, [sem.val EXCEPT ![s] = x], sem.of)
      <3>1. CASE post(m)
        <4>1. PICK x, y : x = sem.val[s] + 1 /\ y = sem.net + 1
          OBVIOUS
        <4>2. sem' = [sem EXCEPT !.val[s] = x, !.net = y]
          BY <1>0, <2>1, <3>1, <4>1 DEF post, SemRecords
        <4>3. sem' = Sem(sem.name, sem.made, y, [sem.val EXCEPT ![s] = x], sem.of)
          BY <1>0, <4>2, Posts
        <4>4. (s \in 1 .. MaxSegs => x \in Int) /\ y \in Int
          BY <2>0, <4>1
        <4> QED BY ONLY <4>3, <4>4, Zenon
      <3>2. CASE wait(m)
        <4>1. PICK x, y : x = sem.val[s] - 1 /\ y = sem.net - 1
          OBVIOUS
        <4>2. sem' = [sem EXCEPT !.val[s] = x, !.net = y]
          BY <1>0, <2>1, <3>2, <4>1 DEF wait, SemRecords
        <4>3. sem' = Sem(sem.name, sem.made, y, [sem.val EXCEPT ![s] = x], sem.of)
          BY <1>0, <4>2, Posts
        <4>4. (s \in 1 .. MaxSegs => x \in Int) /\ y \in Int
          BY <2>0, <4>1
        <4> QED BY ONLY <4>3, <4>4, Zenon
      <3> QED BY <1>9, <3>1, <3>2
    <2>3. [sem.val EXCEPT ![s] = x] \in [1 .. MaxSegs -> Int]
      BY <2>0, <2>2
    <2>4. sem' \in SemRecords /\ sem'.name = sem.name
      <3>1. PICK v : v = [sem.val EXCEPT ![s] = x]
        OBVIOUS
      <3>2. sem' = Sem(sem.name, sem.made, y, v, sem.of) /\ v \in [1 .. MaxSegs -> Int]
        BY <2>2, <2>3, <3>1
      <3>3. sem.name \in 0 .. MaxSegs /\ sem.made \in 0 .. MaxSegs /\ y \in Int /\ sem.of \in [SegHandles -> 0 .. MaxSegs]
        BY <1>0, <2>2 DEF SemRecords
      <3> QED BY <3>2, <3>3, SemFields
    <2>5. UNCHANGED <<segVars, reg, obj, crossed>>
      BY <1>9 DEF post, wait
    <2>6. SemBacked'
      BY <1>0, <2>4, <2>5, BackedStays DEF segVars
    <2> QED BY <1>0, <2>4, <2>5, <2>6 DEF LeftRest, SyncTypeOK, Registry, NoRegistry, Alone, Mutex, segVars
  <1> QED BY <1>2, <1>3, <1>4, <1>5, <1>6, <1>7, <1>8, <1>9

\* Every step keeps the invariant.
LEMMA LeftInductive ==
  ASSUME LeftInv, HandleNext
  PROVE  LeftInv'
  <1>1. SegInv' /\ SegInv /\ LeftRest /\ SemHeld
    BY SegInductive DEF LeftInv, LeftRest
  <1>2. ASSUME NEW h \in SegHandles, HandleStep(h), UNCHANGED syncVars PROVE LeftRest' /\ SemHeld'
    <2>1. kind = "shm" /\ UNCHANGED <<kind, obj, reg, sem, crossed>>
      BY <1>2 DEF HandleStep, syncVars, shm_open, get_mem, count, release, remove, unlink, clear_storage
    <2>2. \A m \in Objs : obj[m].pc = "idle"
      BY <1>1, <2>1 DEF LeftRest, SyncTypeOK, PcsOf
    <2>3. SemHeld'
      BY <2>1, <2>2 DEF SemHeld
    <2>4. SemBacked'
      BY <1>1, <2>1 DEF LeftRest, SemBacked
    <2> QED BY <1>1, <2>1, <2>3, <2>4 DEF LeftRest, SyncTypeOK, Registry, NoRegistry, Alone, Mutex
  <1>3. ASSUME NEW m \in Objs, SyncStep(m) PROVE LeftRest' /\ SemHeld'
    <2>1. SemHeld' /\ kind \in Kinds
      BY <1>1, <1>3, SemHeldKept DEF SyncStep
    <2>2. LeftRest'
      BY <1>1, <1>3, <2>1, OnwardLeft, InsideLeft, AwayLeft DEF SyncStep, MutexStep, CondStep, SemStep
    <2> QED BY <2>1, <2>2
  <1> QED BY <1>1, <1>2, <1>3 DEF HandleNext, LeftInv, LeftRest

\* It holds when nobody has opened anything.
LEMMA LeftInit ==
  ASSUME SyncInit, kind \in Kinds \cup {"shm"}
  PROVE  LeftInv
  <1>1. /\ \A s \in 1 .. MaxSegs : segs[s].acc = 0
        /\ segs \in [1 .. MaxSegs -> SegRecords]
    BY DEF SyncInit, SegInit, SegRecords
  <1>2. \A h \in SegHandles : hnd[h] = Null
    BY DEF SyncInit, SegInit
  <1>3. hnd \in [SegHandles -> HandleRecords] /\ \A h \in SegHandles : hnd[h].at = "null"
    <2>1. Null \in HandleRecords /\ Null.at = "null"
      BY SegmentAssumption DEF HandleRecords, Null, OpenModes
    <2> QED BY <2>1, <1>2 DEF SyncInit, SegInit
  <1>4. SegTypeOK
    <2>1. created = 0 /\ linked = 0 /\ 0 \in 0 .. MaxSegs /\ 0 \in 0 .. 0
      BY SegmentAssumption DEF SyncInit, SegInit
    <2> QED BY <1>1, <1>3, <2>1 DEF SegTypeOK
  <1>5. AccCounts
    <2>1. \A s : HeldOn(s) = {}
      BY <1>3 DEF HeldOn
    <2> QED BY <1>1, <2>1, FS_EmptySet DEF AccCounts
  <1>6. Backed
    BY DEF Backed, SyncInit, SegInit
  <1>7. obj \in [Objs -> ObjRecords] /\ \A m \in Objs : obj[m].pc = "idle" /\ obj[m].ptr = "null"
    BY SegmentAssumption DEF SyncInit, ObjRecords, Pcs
  <1>8. reg \in [SegHandles -> RegRecords] /\ \A p \in SegHandles : ~reg[p].on
    BY DEF SyncInit, RegRecords
  <1>9. sem \in SemRecords /\ sem.name = 0
    <2>1. [i \in 1 .. MaxSegs |-> 0] \in [1 .. MaxSegs -> Int] /\ [p \in SegHandles |-> 0] \in [SegHandles -> 0 .. MaxSegs]
      BY SegmentAssumption
    <2> QED BY <2>1, SegmentAssumption DEF SyncInit, SemRecords
  <1>10. \A m \in Objs : obj[m].pc \in PcsOf(kind)
    BY <1>7 DEF PcsOf, Kinds
  <1> QED BY <1>4, <1>5, <1>6, <1>7, <1>8, <1>9, <1>10
      DEF LeftInv, SegInv, SyncTypeOK, Registry, NoRegistry, SemBacked, SemHeld

\* Steps of the other parts.
LEMMA LeftStays ==
  ASSUME LeftInv, UNCHANGED handleVars
  PROVE  LeftInv'
  BY DEF LeftInv, SegInv, SegTypeOK, AccCounts, HeldOn, Backed, Backs, SyncTypeOK, Registry, NoRegistry, Alone, Mutex,
         SemBacked, SemHeld, handleVars, segVars, syncVars

\* When the last user has gone, nothing is left under the name: neither the
\* segment nor, unless a clear crossed an open, the semaphore.
THEOREM NothingLeft == OpenSpec => []NoLeftover
  <1>1. OpenInit => LeftInv
    BY LeftInit DEF OpenInit
  <1>2. LeftInv /\ [OpenNext]_openVars => LeftInv'
    <2> SUFFICES ASSUME LeftInv, [OpenNext]_openVars PROVE LeftInv'
      OBVIOUS
    <2> QED BY LeftInductive, LeftStays DEF OpenNext, openVars
  <1>3. LeftInv => NoLeftover
    BY DEF LeftInv, SegInv, Backed, Backs, SemBacked, NoLeftover
  <1> QED BY <1>1, <1>2, <1>3, PTL DEF OpenSpec
-----------------------------------------------------------------------------
(* Users of a name share one object, as long as nothing has raced. *)

\* Nobody is not an object.
LEMMA NobodyIsNot == Nobody \notin Objs
  BY SyncAssumption DEF Nobody

\* A step of m touches the other objects, handles and registries not at all.
Apart(m) ==
  /\ kind' = kind
  /\ \A n \in Objs : n # m => obj'[n] = obj[n]
  /\ \A q \in SegHandles : q # Proc(m) => reg'[q] = reg[q] /\ hnd'[q] = hnd[q]

\* What an object of another process sees of a step.
LEMMA ApartOK ==
  ASSUME NEW m \in Objs, NEW n \in Objs, Proc(n) # Proc(m), Apart(m), ObjOK(n),
         hnd[Proc(n)].at = "held" /\ segs[linked].init => segs'[linked'].init,
         obj[n].holds # 0 => segs'[linked'].owner = n
  PROVE  ObjOK(n)'
  <1>1. obj'[n] = obj[n] /\ reg'[Proc(n)] = reg[Proc(n)] /\ hnd'[Proc(n)] = hnd[Proc(n)]
    BY ProcIn DEF Apart
  <1>2. Others(n)' = Others(n)
    BY DEF Others, Apart
  <1>3. (Mutex <=> Mutex') /\ (Posix <=> Posix')
    BY DEF Mutex, Posix, Apart
  <1> QED BY <1>1, <1>2, <1>3 DEF ObjOK

\* Another process's registry.
LEMMA ApartReg ==
  ASSUME NEW m \in Objs, NEW q \in SegHandles, q # Proc(m), Apart(m), RegOK(q)
  PROVE  RegOK(q)'
  <1>1. reg'[q] = reg[q] /\ hnd'[q] = hnd[q] /\ \A n \in Objs : Proc(n) = q => obj'[n] = obj[n]
    BY DEF Apart
  <1>2. Tally(q)' = Tally(q)
    BY <1>1 DEF Tally
  <1> QED BY <1>1, <1>2 DEF RegOK, Mutex, Apart

\* Another mutex object of the same process, the handle staying.
LEMMA PeerOK ==
  ASSUME NEW m \in Objs, NEW n \in Objs, n # m, Proc(n) = Proc(m), Apart(m), ObjOK(n), Mutex,
         hnd'[Proc(m)] = hnd[Proc(m)], segs[linked].init => segs'[linked'].init,
         obj[n].holds # 0 => segs'[linked'].owner = n,
         reg[Proc(m)].on => reg'[Proc(m)].on,
         reg[Proc(m)].lock = n => /\ reg'[Proc(m)].lock = n /\ (reg'[Proc(m)].on => reg[Proc(m)].on)
                                  /\ (obj'[m].ptr = "live" => obj[m].ptr = "live")
  PROVE  ObjOK(n)'
  <1>1. obj'[n] = obj[n] /\ kind' = kind
    BY DEF Apart
  <1>2. reg[Proc(m)].lock = n /\ Others(n) = {} => Others(n)' = {}
    BY DEF Others, Apart
  <1>3. (Mutex <=> Mutex') /\ (Posix <=> Posix')
    BY <1>1 DEF Mutex, Posix
  <1> QED BY <1>1, <1>2, <1>3 DEF ObjOK

\* An object that is closed has nothing to go wrong.
LEMMA NullOK ==
  ASSUME NEW m \in Objs, NEW n \in Objs, n # m, Apart(m), ObjOK(n), obj[n].pc = "idle", obj[n].ptr = "null"
  PROVE  ObjOK(n)'
  <1>1. obj'[n] = obj[n]
    BY DEF Apart
  <1> QED BY <1>1 DEF ObjOK, Opening, Departing

\* A process without an entry has no open mutex.
LEMMA NoneOn ==
  ASSUME SyncTypeOK, Registry, CalmSync, NEW m \in Objs, Mutex => ~reg[Proc(m)].on, ~Mutex => m \in Single
  PROVE  Others(m) = {}
  <1> SUFFICES ASSUME NEW n \in Objs, n # m, Proc(n) = Proc(m), obj[n].ptr = "live" PROVE FALSE
    BY DEF Others
  <1>1. CASE ~Mutex
    <2>1. n \in Single
      BY <1>1 DEF Registry, Alone
    <2> QED BY <1>1, <2>1, OneEach
  <1>2. CASE Mutex
    <2>1. ObjOK(n) /\ obj[n].pc \in Pcs /\ (obj[n].pc \in {"semopen", "semunlink"} => kind = "sem")
      BY PcFacts, ObjTypes DEF CalmSync
    <2> QED BY <1>2, <2>1 DEF ObjOK, Opening, Departing, Pcs, Mutex
  <1> QED BY <1>1, <1>2

\* Without others, the objects of the process are closed.
LEMMA PeersGone ==
  ASSUME SyncTypeOK, Registry, CalmSync, NEW m \in Objs,
         Mutex => reg[Proc(m)].lock \in {m, Nobody} /\ Others(m) = {}, ~Mutex => m \in Single
  PROVE  \A n \in Objs : n # m /\ Proc(n) = Proc(m) => obj[n].pc = "idle" /\ obj[n].ptr = "null"
  <1> SUFFICES ASSUME NEW n \in Objs, n # m, Proc(n) = Proc(m) PROVE obj[n].pc = "idle" /\ obj[n].ptr = "null"
    OBVIOUS
  <1>1. CASE ~Mutex
    BY <1>1, OneEach DEF Registry, Alone
  <1>2. CASE Mutex
    <2>1. /\ ObjOK(n) /\ obj[n].pc \in Pcs /\ (obj[n].pc \in {"semopen", "semunlink"} => kind = "sem")
          /\ obj[n].ptr \in {"null", "live", "dangling"}
      BY PcFacts, ObjTypes DEF CalmSync
    <2>2. obj[n].ptr # "live" /\ reg[Proc(m)].lock # n
      BY <1>2, NobodyIsNot DEF Others
    <2> QED BY <1>2, <2>1, <2>2 DEF ObjOK, Opening, Departing, Pcs, Mutex
  <1> QED BY <1>1, <1>2

\* Who may initialise or destroy.
LEMMA AloneStays ==
  ASSUME AloneIn, NEW m \in Objs, Apart(m),
         \A h \in SegHandles : hnd'[h].at = "held" => hnd[h].at = "held",
         obj'[m].pc \in {"wipe", "init", "destroy", "cleardestroy", "clear"} =>
           \/ obj[m].pc \in {"wipe", "init", "destroy", "cleardestroy", "clear"}
           \/ \A g \in SegHandles \ {Proc(m)} : hnd[g].at # "held"
  PROVE  AloneIn'
  BY DEF AloneIn, Apart

\* One segment, operation by operation.
LEMMA OneOpened ==
  ASSUME SegTypeOK, OneSegment, NEW h \in SegHandles, Opened(h, "create|open"), ~raced'
  PROVE  /\ OneSegment' /\ ~raced
         /\ hnd'[h].at = "opened" /\ \A g \in SegHandles \ {h} : hnd'[g] = hnd[g]
         /\ linked' # linked => \A g \in SegHandles : hnd[g].at \notin {"opened", "mapped", "held"}
  <1>1. /\ ~raced /\ ~GivingUp(h) /\ hnd[h].at = "null"
        /\ \/ linked = 0 /\ created < MaxSegs /\ linked' = created + 1 /\ Moves(h, "opened", created + 1, "create|open")
           \/ linked # 0 /\ linked' = linked /\ Moves(h, "opened", linked, "create|open")
    BY DEF Opened
  <1>2. linked' \in 1 .. MaxSegs /\ Moves(h, "opened", linked', "create|open") /\ "create|open" \in OpenModes
    BY <1>1, SegmentAssumption DEF SegTypeOK, OpenModes
  <1>3. PICK s \in 1 .. MaxSegs : s = linked'
    BY <1>2
  <1>4. /\ \A g \in SegHandles \ {h} : hnd'[g] = hnd[g]
        /\ hnd'[h].at = "opened" /\ hnd'[h].seg = s /\ hnd'[h].mode = "create|open"
    <2>1. s \in 0 .. MaxSegs /\ Moves(h, "opened", s, "create|open")
      BY <1>2, <1>3
    <2> QED BY <1>2, <2>1, MovePoints
  <1>5. \A g \in SegHandles \ {h} : hnd[g].at # "unlink"
    BY <1>1 DEF GivingUp
  <1>6. linked' # linked => \A g \in SegHandles : hnd[g].at \notin {"opened", "mapped", "held"}
    BY <1>1 DEF OneSegment
  <1>7. OneSegment'
    BY <1>1, <1>3, <1>4, <1>5, <1>6 DEF OneSegment
  <1> QED BY <1>1, <1>4, <1>6, <1>7

\* get_mem leaves everybody in the one segment.
LEMMA OneSized ==
  ASSUME SegTypeOK, OneSegment, NEW h \in SegHandles, Sized(h)
  PROVE  /\ OneSegment' /\ linked' = linked /\ hnd[h].at = "opened"
         /\ hnd'[h].at = "mapped" /\ \A g \in SegHandles \ {h} : hnd'[g] = hnd[g]
         /\ \A t \in 1 .. MaxSegs : segs'[t].init = segs[t].init /\ segs'[t].owner = segs[t].owner
  <1>1. hnd[h].at = "opened" /\ hnd[h].mode = "create|open" /\ hnd[h].mode \in OpenModes
    BY RecordTypes DEF Sized, OneSegment
  <1>2. PICK s \in 1 .. MaxSegs : s = hnd[h].seg
    BY <1>1, SegIn
  <1>3. linked' = linked /\ Counts(s, segs[s].acc, TRUE) /\ Moves(h, "mapped", s, hnd[h].mode)
    BY <1>1, <1>2 DEF Sized
  <1>4. segs[s].acc \in Int /\ s \in 0 .. MaxSegs
    BY DEF SegTypeOK, SegRecords
  <1>5. /\ \A g \in SegHandles \ {h} : hnd'[g] = hnd[g]
        /\ hnd'[h].at = "mapped" /\ hnd'[h].seg = s /\ hnd'[h].mode = hnd[h].mode
    BY <1>1, <1>3, <1>4, MovePoints
  <1>6. \A t \in 1 .. MaxSegs : segs'[t].init = segs[t].init /\ segs'[t].owner = segs[t].owner
    BY <1>3, <1>4, CountPoints
  <1>7. OneSegment'
    BY <1>1, <1>2, <1>3, <1>5 DEF OneSegment
  <1> QED BY <1>1, <1>3, <1>5, <1>6, <1>7

\* The count in acc_ does.
LEMMA OneCounted ==
  ASSUME SegTypeOK, OneSegment, NEW h \in SegHandles, NEW i, CountedIn(h, i), ~raced'
  PROVE  /\ OneSegment' /\ linked' = linked /\ hnd[h].at = "mapped" /\ ~i
         /\ hnd'[h].at = "held" /\ \A g \in SegHandles \ {h} : hnd'[g] = hnd[g]
         /\ \A t \in 1 .. MaxSegs : segs'[t].init = segs[t].init /\ segs'[t].owner = segs[t].owner
  <1>1. hnd[h].at = "mapped" /\ hnd[h].mode = "create|open" /\ hnd[h].mode \in OpenModes /\ ~i
    BY RecordTypes DEF CountedIn, OneSegment
  <1>2. PICK s \in 1 .. MaxSegs : s = hnd[h].seg
    BY <1>1, SegIn
  <1>3. linked' = linked /\ Counts(s, segs[s].acc + 1, segs[s].sized) /\ Moves(h, "held", s, hnd[h].mode)
    BY <1>1, <1>2 DEF CountedIn
  <1>4. segs[s].acc + 1 \in Int /\ s \in 0 .. MaxSegs /\ segs[s].sized \in BOOLEAN
    BY DEF SegTypeOK, SegRecords
  <1>5. /\ \A g \in SegHandles \ {h} : hnd'[g] = hnd[g]
        /\ hnd'[h].at = "held" /\ hnd'[h].seg = s /\ hnd'[h].mode = hnd[h].mode
    BY <1>1, <1>3, <1>4, MovePoints
  <1>6. \A t \in 1 .. MaxSegs : segs'[t].init = segs[t].init /\ segs'[t].owner = segs[t].owner
    BY <1>3, <1>4, CountPoints
  <1>7. OneSegment'
    BY <1>1, <1>2, <1>3, <1>5 DEF OneSegment
  <1> QED BY <1>1, <1>3, <1>5, <1>6, <1>7

\* release and remove of a handle that is held.
LEMMA OneReleased ==
  ASSUME SegTypeOK, OneSegment, NEW h \in SegHandles, hnd[h].at = "held", Released(h) \/ Removed(h), ~raced'
  PROVE  /\ OneSegment' /\ linked' = linked
         /\ hnd'[h].at \in {"null", "unlink"} /\ \A g \in SegHandles \ {h} : hnd'[g] = hnd[g]
         /\ \A t \in 1 .. MaxSegs : segs'[t].init = segs[t].init /\ segs'[t].owner = segs[t].owner
  <1>1. hnd[h].mode = "create|open" /\ hnd[h].mode \in OpenModes /\ hnd[h].seg = linked
    BY RecordTypes DEF OneSegment
  <1>2. PICK s \in 1 .. MaxSegs : s = hnd[h].seg
    BY SegIn
  <1>3. /\ linked' = linked /\ Counts(s, segs[s].acc - 1, segs[s].sized)
        /\ \/ Moves(h, "null", 0, "create|open")
           \/ Moves(h, "unlink", s, "create|open") /\ Users(s) \subseteq {h}
    <2>1. CASE Released(h)
      BY <1>1, <1>2, <2>1 DEF Released
    <2>2. CASE Removed(h)
      BY <1>1, <1>2, <2>2 DEF Removed
    <2> QED BY <2>1, <2>2
  <1>4. segs[s].acc - 1 \in Int /\ s \in 0 .. MaxSegs /\ 0 \in 0 .. MaxSegs /\ segs[s].sized \in BOOLEAN
        /\ "create|open" \in OpenModes
    BY SegmentAssumption DEF SegTypeOK, SegRecords, OpenModes
  <1>5. /\ \A g \in SegHandles \ {h} : hnd'[g] = hnd[g]
        /\ hnd'[h].mode = "create|open"
        /\ hnd'[h].at = "null" \/ (hnd'[h].at = "unlink" /\ Users(s) \subseteq {h})
    BY <1>3, <1>4, MovePoints
  <1>6. \A t \in 1 .. MaxSegs : segs'[t].init = segs[t].init /\ segs'[t].owner = segs[t].owner
    BY <1>3, <1>4, CountPoints
  <1>7. \A g \in SegHandles : hnd[g].at \in {"null", "opened", "mapped", "held", "failed", "unlink"}
    BY RecordTypes
  <1>8. Users(s) \subseteq {h} => \A g \in SegHandles \ {h} : hnd[g].at = "null"
    BY <1>1, <1>2, <1>7 DEF Users, OneSegment
  <1>9. OneSegment'
    BY <1>2, <1>3, <1>5, <1>8 DEF OneSegment
  <1> QED BY <1>3, <1>5, <1>6, <1>9

\* shm_unlink leaves nobody in it.
LEMMA OneUnlinked ==
  ASSUME SegTypeOK, OneSegment, NEW h \in SegHandles, unlink(h)
  PROVE  OneSegment' /\ \A g \in SegHandles : hnd'[g].at = "null"
  <1>1. Moves(h, "null", 0, "create|open") /\ hnd[h].at = "unlink"
    BY DEF unlink, Moves, Null
  <1>2. (\A g \in SegHandles \ {h} : hnd'[g] = hnd[g]) /\ hnd'[h].at = "null" /\ hnd'[h].mode = "create|open"
    BY <1>1, SegmentAssumption, MovePoints DEF OpenModes
  <1> QED BY <1>1, <1>2 DEF OneSegment

\* Nobody works in a segment that nobody has open.
LEMMA Vacant ==
  ASSUME SegTypeOK, OneSegment, NEW g \in SegHandles, hnd[g].at = "held"
  PROVE  linked \in 1 .. MaxSegs /\ hnd[g].seg = linked /\ segs[linked] \in SegRecords
  <1>1. hnd[g].seg = linked
    BY DEF OneSegment
  <1> QED BY <1>1, SegIn

\* The first object of the first process, which is to initialise.
First(n) == obj[n].pc = "init" \/ (obj[n].pc = "chk" /\ obj[n].self = 0)

\* Steps that neither come to hold nor let go of the segment, nor initialise.
LEMMA PreparedStays ==
  ASSUME Prepared, \A n \in Objs : ObjOK(n), NEW m \in Objs, Apart(m),
         \A h \in SegHandles : (hnd'[h].at = "held") <=> (hnd[h].at = "held"),
         (\E h \in SegHandles : hnd[h].at = "held") => (segs'[linked'].init <=> segs[linked].init),
         Posix /\ Unready(m) /\ ~segs[linked].init => Unready(m)',
         Posix /\ ~Mutex /\ obj'[m].pc = "made" => segs'[linked'].init,
         obj'[m].pc = "chk" => obj'[m].self \in Nat /\ (obj'[m].self # 0 => segs'[linked'].init),
         Posix /\ Mutex /\ First(m)' => \A n \in Others(m)' : obj'[n].pc \in {"add", "keep"},
         Posix /\ Mutex /\ obj'[m].ptr = "live" /\ obj'[m].pc \notin {"add", "keep"} =>
           \/ obj[m].ptr = "live" /\ obj[m].pc \notin {"add", "keep"}
           \/ \A n \in Others(m) : ~First(n)
  PROVE  Prepared'
  <1> SUFFICES ASSUME Posix PROVE Prepared'
    BY DEF Prepared, Apart, Posix
  <1>1. kind' = kind /\ (Mutex <=> Mutex') /\ Posix' /\ \A n \in Objs : n # m => obj'[n] = obj[n]
    BY DEF Apart, Mutex, Posix
  <1>2. \A n \in Objs : n # m => (Unready(n) <=> Unready(n)')
    BY <1>1 DEF Unready
  <1>3. ASSUME NEW p \in SegHandles, hnd'[p].at = "held", ~segs'[linked'].init
        PROVE  (\A g \in SegHandles \ {p} : hnd'[g].at # "held") /\ \E x \in Objs : Proc(x) = p /\ Unready(x)'
    <2>1. hnd[p].at = "held" /\ ~segs[linked].init
      BY <1>3
    <2>2. (\A g \in SegHandles \ {p} : hnd[g].at # "held") /\ \E x \in Objs : Proc(x) = p /\ Unready(x)
      BY <2>1 DEF Prepared
    <2>3. PICK x \in Objs : Proc(x) = p /\ Unready(x)
      BY <2>2
    <2>4. Unready(x)'
      BY <1>2, <2>1, <2>3
    <2> QED BY <2>2, <2>3, <2>4
  <1>4. ASSUME NEW n \in Objs, n # m
        PROVE  /\ obj'[n].pc = "made" /\ ~Mutex => segs'[linked'].init
               /\ obj'[n].pc = "chk" => obj'[n].self \in Nat
               /\ obj'[n].pc = "chk" /\ obj'[n].self # 0 => segs'[linked'].init
    <2>1. obj[n].pc \in {"made", "chk"} => hnd[Proc(n)].at = "held" /\ Proc(n) \in SegHandles
      BY ProcIn DEF ObjOK, Opening
    <2> QED BY <1>1, <1>4, <2>1 DEF Prepared
  <1>5. ASSUME NEW n \in Objs, n # m, Mutex, First(n)', NEW x \in Others(n)'
        PROVE  obj'[x].pc \in {"add", "keep"}
    <2>1. obj'[n] = obj[n] /\ First(n) /\ x \in Objs /\ x # n /\ Proc(x) = Proc(n) /\ obj'[x].ptr = "live"
      BY <1>1, <1>5 DEF First, Others
    <2>2. \A y \in Others(n) : obj[y].pc \in {"add", "keep"}
      BY <1>5, <2>1 DEF Prepared, First
    <2>3. CASE x # m
      <3>1. obj'[x] = obj[x] /\ x \in Others(n)
        BY <1>1, <2>1, <2>3 DEF Others
      <3> QED BY <2>2, <3>1
    <2>4. CASE x = m
      <3>1. obj[n].ptr = "live"
        BY <1>5, <2>1 DEF ObjOK, First
      <3>2. n \in Others(m)
        BY <1>5, <2>1, <2>4, <3>1 DEF Others
      <3>3. obj[m].ptr = "live" => m \in Others(n)
        BY <2>1, <2>4 DEF Others
      <3> QED BY <1>5, <2>1, <2>2, <2>4, <3>2, <3>3
    <2> QED BY <2>3, <2>4
  <1>6. \A n \in Objs : Mutex' /\ (obj'[n].pc = "init" \/ (obj'[n].pc = "chk" /\ obj'[n].self = 0)) =>
                          \A x \in Others(n)' : obj'[x].pc \in {"add", "keep"}
    BY <1>1, <1>5 DEF First
  <1> QED BY <1>1, <1>3, <1>4, <1>6 DEF Prepared

\* The count of the process's objects.
LEMMA RegStays ==
  ASSUME NEW m \in Objs, RegOK(Proc(m)), Apart(m),
         reg'[Proc(m)].on => reg[Proc(m)].on,
         hnd[Proc(m)].at = "held" => hnd'[Proc(m)].at = "held",
         obj[m].pc # "erased", obj'[m].pc # "erased", reg'[Proc(m)].ref = reg[Proc(m)].ref,
         (m \in Tally(Proc(m))) <=> (m \in Tally(Proc(m))')
  PROVE  RegOK(Proc(m))'
  <1>1. \A n \in Objs : n # m => obj'[n] = obj[n]
    BY DEF Apart
  <1>2. Tally(Proc(m))' = Tally(Proc(m))
    BY <1>1 DEF Tally
  <1> QED BY <1>1, <1>2 DEF RegOK, Mutex, Apart

\* The semaphore, its users staying.
LEMMA SemStays ==
  ASSUME SemOK, NEW m \in Objs, Apart(m), sem' = sem, SemUser(m)' => SemUser(m),
         obj'[m].pc \in {"semunlink", "clear"} => obj[m].pc \in {"semunlink", "clear"} \/ kind # "sem"
  PROVE  SemOK'
  <1>1. \A n \in Objs : n # m => obj'[n] = obj[n]
    BY DEF Apart
  <1>2. \A n \in Objs : SemUser(n)' => SemUser(n)
    BY <1>1 DEF SemUser
  <1> QED BY <1>1, <1>2 DEF SemOK, Apart

\* Nobody is a semaphore's user without its segment.
LEMMA UserHolds ==
  ASSUME NEW m \in Objs, ObjOK(m)
  PROVE  /\ SemUser(m) => hnd[Proc(m)].at = "held"
         /\ obj[m].holds # 0 => hnd[Proc(m)].at = "held" /\ segs[linked].owner = m /\ Mutex /\ reg[Proc(m)].on
  BY DEF ObjOK, SemUser, Opening

\* A step that leaves the segments alone is calm as far as m and its own
\* process are.
LEMMA Combine ==
  ASSUME CalmSync, NEW m \in Objs, Apart(m), OneSegment',
         \A n \in Objs : Proc(n) # Proc(m) =>
           /\ hnd[Proc(n)].at = "held" /\ segs[linked].init => segs'[linked'].init
           /\ obj[n].holds # 0 => segs'[linked'].owner = n,
         \A n \in Objs : n # m /\ Proc(n) = Proc(m) => ObjOK(n)',
         ObjOK(m)', RegOK(Proc(m))', AloneIn', Prepared', SemOK'
  PROVE  CalmSync'
  <1>1. \A n \in Objs : ObjOK(n)'
    BY ApartOK DEF CalmSync
  <1>2. \A q \in SegHandles : RegOK(q)'
    BY ApartReg DEF CalmSync
  <1> QED BY <1>1, <1>2 DEF CalmSync

\* The invariant and the step, for one object.
CalmBefore(m) == LeftInv /\ CalmSync /\ kind \in Kinds /\ m \in Objs /\ obj[m].ptr # "dangling"

\* What every step starts from.
LEMMA Before ==
  ASSUME NEW m, CalmBefore(m)
  PROVE  /\ m \in Objs /\ Proc(m) \in SegHandles /\ SegTypeOK /\ SegInv /\ SyncTypeOK /\ Registry /\ OneSegment /\ ObjOK(m)
         /\ RegOK(Proc(m)) /\ AloneIn /\ Prepared /\ SemOK /\ (\A n \in Objs : ObjOK(n))
         /\ obj[m].pc \in Pcs /\ obj[m].ptr \in {"null", "live"} /\ obj[m].self \in Int /\ obj[m].holds \in 0 .. MaxSegs
         /\ (obj[m].pc # "idle" \/ obj[m].ptr # "null" => Alone(m))
         /\ reg[Proc(m)].ref \in Int
  <1>1. m \in Objs /\ SyncTypeOK
    BY DEF CalmBefore, LeftInv
  <1> QED BY <1>1, ProcIn, ObjTypes, RegTypes DEF CalmBefore, LeftInv, CalmSync, SegInv, Registry

\* shm_open: nobody held a segment that the name was not bound to.
LEMMA CalmAcquire ==
  ASSUME NEW m, CalmBefore(m), Acquire(m), Closed(m), Mutex => ~reg[Proc(m)].on, ~Mutex => m \in Single, ~raced'
  PROVE  CalmSync'
  <1> DEFINE p == Proc(m)
  <1>0. /\ m \in Objs /\ p \in SegHandles /\ SegTypeOK /\ SyncTypeOK /\ Registry /\ OneSegment /\ ObjOK(m)
        /\ RegOK(p) /\ AloneIn /\ Prepared /\ SemOK /\ CalmSync /\ (\A n \in Objs : ObjOK(n))
    BY Before DEF CalmBefore
  <1>1. obj[m].pc = "idle" /\ obj[m].ptr = "null" /\ reg[p].lock = Nobody /\ ~reg[p].on /\ obj[m].holds = 0
    BY <1>0 DEF Closed, LockFree, ObjOK, Registry, NoRegistry
  <1>2. /\ Opened(p, "create|open") /\ Go(m, "shm") /\ Enters(p, reg[p].on, reg[p].ref, m) /\ UNCHANGED <<kind, sem, crossed>>
    BY <1>0, AcquireEffect
  <1>3. /\ OneSegment' /\ hnd'[p].at = "opened" /\ \A g \in SegHandles \ {p} : hnd'[g] = hnd[g]
        /\ linked' # linked => \A g \in SegHandles : hnd[g].at \notin {"opened", "mapped", "held"}
    BY <1>0, <1>2, OneOpened
  <1>4. hnd[p].at = "null" /\ segs' = segs
    BY <1>2 DEF Opened
  <1>5. Apart(m)
    BY <1>0, <1>2, <1>3 DEF Apart, Go, Turns, Enters
  <1>6. obj'[m].pc = "shm" /\ obj'[m].ptr = "null" /\ obj'[m].holds = 0
        /\ ~reg'[p].on /\ reg'[p].lock = m /\ reg'[p].ref = reg[p].ref
    BY <1>1, <1>2 DEF Go, Turns, Enters
  <1>7. \A n \in Objs : n # m /\ Proc(n) = p => ObjOK(n)'
    <2>1. Others(m) = {}
      BY <1>0, <1>1, NoneOn
    <2>2. \A n \in Objs : n # m /\ Proc(n) = p => obj[n].pc = "idle" /\ obj[n].ptr = "null"
      BY <1>0, <1>1, <2>1, PeersGone
    <2> QED BY <1>0, <1>5, <2>2, NullOK
  <1>8. ObjOK(m)'
    BY <1>3, <1>6 DEF ObjOK, Opening, Departing
  <1>9. RegOK(p)'
    <2>1. m \notin Tally(p) /\ m \notin Tally(p)'
      BY <1>1, <1>6 DEF Tally
    <2> QED BY <1>0, <1>1, <1>4, <1>5, <1>6, <2>1, RegStays
  <1>10. \A h \in SegHandles : (hnd'[h].at = "held") <=> (hnd[h].at = "held")
    BY <1>3, <1>4
  <1>11. AloneIn'
    BY <1>0, <1>5, <1>6, <1>10, AloneStays
  <1>12. (\E h \in SegHandles : hnd[h].at = "held") => linked' = linked
    BY <1>3
  <1>13. Prepared'
    <2>1. ~Unready(m) /\ ~First(m)'
      BY <1>1, <1>6 DEF Unready, First, Departing
    <2> QED BY <1>0, <1>4, <1>5, <1>6, <1>10, <1>12, <2>1, PreparedStays
  <1>14. SemOK'
    BY <1>0, <1>2, <1>5, <1>6, SemStays DEF SemUser
  <1>15. \A n \in Objs : Proc(n) # p =>
           /\ hnd[Proc(n)].at = "held" /\ segs[linked].init => segs'[linked'].init
           /\ obj[n].holds # 0 => segs'[linked'].owner = n
    BY <1>0, <1>4, <1>12, ProcIn, UserHolds
  <1> QED BY <1>0, <1>3, <1>5, <1>7, <1>8, <1>9, <1>11, <1>13, <1>14, <1>15, Combine

\* get_mem: the length is nothing the object depends on.
LEMMA CalmSized ==
  ASSUME NEW m, CalmBefore(m), obj[m].pc = "shm", Sized(Proc(m)), UNCHANGED <<kind, reg, sem, crossed, obj>>
  PROVE  CalmSync'
  <1> DEFINE p == Proc(m)
  <1>0. /\ m \in Objs /\ p \in SegHandles /\ SegTypeOK /\ SyncTypeOK /\ Registry /\ OneSegment /\ ObjOK(m)
        /\ RegOK(p) /\ AloneIn /\ Prepared /\ SemOK /\ CalmSync /\ (\A n \in Objs : ObjOK(n)) /\ Alone(m)
    BY Before DEF CalmBefore
  <1>1. obj[m].ptr = "null" /\ reg[p].lock = m /\ ~reg[p].on /\ obj[m].holds = 0
    BY <1>0 DEF ObjOK
  <1>3. /\ OneSegment' /\ linked' = linked /\ hnd[p].at = "opened"
        /\ hnd'[p].at = "mapped" /\ \A g \in SegHandles \ {p} : hnd'[g] = hnd[g]
        /\ \A t \in 1 .. MaxSegs : segs'[t].init = segs[t].init /\ segs'[t].owner = segs[t].owner
    BY <1>0, OneSized
  <1>5. Apart(m)
    BY <1>0, <1>3 DEF Apart
  <1>7. \A n \in Objs : n # m /\ Proc(n) = p => ObjOK(n)'
    <2>1. Others(m) = {}
      BY <1>0, <1>1, NoneOn DEF Alone
    <2>2. \A n \in Objs : n # m /\ Proc(n) = p => obj[n].pc = "idle" /\ obj[n].ptr = "null"
      BY <1>0, <1>1, <2>1, PeersGone DEF Alone
    <2> QED BY <1>0, <1>5, <2>2, NullOK
  <1>8. ObjOK(m)'
    BY <1>1, <1>3 DEF ObjOK, Opening, Departing
  <1>9. RegOK(p)'
    <2>1. m \notin Tally(p) /\ m \notin Tally(p)'
      BY <1>1 DEF Tally
    <2> QED BY <1>0, <1>1, <1>3, <1>5, <2>1, RegStays
  <1>10. \A h \in SegHandles : (hnd'[h].at = "held") <=> (hnd[h].at = "held")
    BY <1>3
  <1>11. AloneIn'
    BY <1>0, <1>5, <1>10, AloneStays
  <1>12. linked \in 1 .. MaxSegs
    BY <1>0, <1>3, SegIn DEF OneSegment
  <1>13. Prepared'
    <2>1. ~Unready(m) /\ ~First(m)'
      BY DEF Unready, First, Departing
    <2> QED BY <1>0, <1>1, <1>3, <1>5, <1>10, <1>12, <2>1, PreparedStays
  <1>14. SemOK'
    BY <1>0, <1>5, SemStays DEF SemUser
  <1>15. \A n \in Objs : Proc(n) # p =>
           /\ hnd[Proc(n)].at = "held" /\ segs[linked].init => segs'[linked'].init
           /\ obj[n].holds # 0 => segs'[linked'].owner = n
    BY <1>0, <1>3, <1>12, ProcIn, UserHolds
  <1> QED BY <1>0, <1>3, <1>5, <1>7, <1>8, <1>9, <1>11, <1>13, <1>14, <1>15, Combine

\* acc_.fetch_add: nobody else was about to initialise or to destroy.
LEMMA CalmCounted ==
  ASSUME NEW m, CalmBefore(m), obj[m].pc = "shm", CountedIn(Proc(m), Initialising(Proc(m))), Go(m, NextPc),
         UNCHANGED <<kind, reg, sem, crossed>>, ~raced'
  PROVE  CalmSync'
  <1> DEFINE p == Proc(m)
  <1>0. /\ m \in Objs /\ p \in SegHandles /\ SegTypeOK /\ SyncTypeOK /\ Registry /\ OneSegment /\ ObjOK(m)
        /\ RegOK(p) /\ AloneIn /\ Prepared /\ SemOK /\ CalmSync /\ (\A n \in Objs : ObjOK(n)) /\ Alone(m) /\ kind \in Kinds
    BY Before DEF CalmBefore
  <1>1. obj[m].ptr = "null" /\ reg[p].lock = m /\ ~reg[p].on /\ obj[m].holds = 0
    BY <1>0 DEF ObjOK
  <1>2. PICK a : a = NextPc
    OBVIOUS
  <1>3. /\ OneSegment' /\ linked' = linked /\ hnd[p].at = "mapped" /\ ~Initialising(p)
        /\ hnd'[p].at = "held" /\ \A g \in SegHandles \ {p} : hnd'[g] = hnd[g]
        /\ \A t \in 1 .. MaxSegs : segs'[t].init = segs[t].init /\ segs'[t].owner = segs[t].owner
    BY <1>0, OneCounted
  <1>4. /\ a \in {"made", "semopen", "ref"} /\ (a = "made" => kind = "posix mutex") /\ (a = "semopen" <=> kind = "sem")
    BY <1>2 DEF NextPc
  <1>5. Apart(m) /\ obj'[m].pc = a /\ obj'[m].ptr = "null" /\ obj'[m].holds = 0
    BY <1>0, <1>1, <1>2, <1>3 DEF Apart, Go, Turns
  <1>6. \A n \in Objs : n # m /\ Proc(n) = p => obj[n].pc = "idle" /\ obj[n].ptr = "null"
    <2>1. Others(m) = {}
      BY <1>0, <1>1, NoneOn DEF Alone
    <2> QED BY <1>0, <1>1, <2>1, PeersGone DEF Alone
  <1>7. \A n \in Objs : n # m /\ Proc(n) = p => ObjOK(n)'
    BY <1>0, <1>5, <1>6, NullOK
  <1>8. ObjOK(m)'
    BY <1>1, <1>3, <1>4, <1>5 DEF ObjOK, Opening, Departing
  <1>9. RegOK(p)'
    <2>1. m \notin Tally(p) /\ m \notin Tally(p)'
      BY <1>1, <1>5 DEF Tally
    <2> QED BY <1>0, <1>1, <1>3, <1>4, <1>5, <2>1, RegStays
  <1>10. \A n \in Objs : Proc(n) # p =>
           /\ obj[n].pc \notin {"wipe", "init", "destroy", "cleardestroy", "clear"}
           /\ Posix /\ obj[n].pc \in {"ref", "made", "add", "chk"} => segs[SegOf(n)].init
           /\ Posix => obj[n].pc # "erase"
    BY <1>0, <1>3 DEF Initialising, ObjOK
  <1>11. AloneIn'
    <2> SUFFICES ASSUME NEW n \in Objs, obj'[n].pc \in {"wipe", "init", "destroy", "cleardestroy", "clear"} PROVE FALSE
      BY DEF AloneIn
    <2>1. n # m
      BY <1>4, <1>5
    <2> QED BY <1>5, <1>6, <1>10, <2>1 DEF Apart
  <1>12. linked \in 1 .. MaxSegs
    <2>1. hnd[p].seg = linked
      BY <1>0, <1>3 DEF OneSegment
    <2> QED BY <1>0, <1>3, <2>1, SegIn
  <1>13. ASSUME Posix, NEW g \in SegHandles, g # p, hnd[g].at = "held" PROVE segs[linked].init
    <2> SUFFICES ASSUME ~segs[linked].init PROVE FALSE
      OBVIOUS
    <2>1. PICK n \in Objs : Proc(n) = g /\ Unready(n)
      BY <1>0, <1>13 DEF Prepared
    <2>2. SegOf(n) = linked
      BY <1>0, <1>13, <2>1 DEF SegOf, OneSegment
    <2> QED BY <1>10, <1>13, <2>1, <2>2 DEF Unready, Departing
  <1>14. Prepared'
    <2> SUFFICES ASSUME Posix PROVE Prepared'
      BY <1>5 DEF Prepared, Posix, Apart
    <2>1. kind' = kind /\ (Mutex <=> Mutex') /\ (Posix <=> Posix') /\ \A n \in Objs : n # m => obj'[n] = obj[n]
      BY <1>5 DEF Apart, Mutex, Posix
    <2>2. segs'[linked'].init = segs[linked].init
      BY <1>3, <1>12
    <2>3. Unready(m)'
      BY <1>4, <1>5, <2>1 DEF Unready, Mutex, Posix
    <2>4. ASSUME NEW q \in SegHandles, hnd'[q].at = "held", ~segs'[linked'].init
          PROVE  (\A g \in SegHandles \ {q} : hnd'[g].at # "held") /\ \E x \in Objs : Proc(x) = q /\ Unready(x)'
      <3>1. q = p
        BY <1>3, <1>13, <2>2, <2>4
      <3>2. \A g \in SegHandles \ {q} : hnd'[g].at # "held"
        BY <1>3, <1>13, <2>2, <2>4, <3>1
      <3> QED BY <1>0, <2>3, <3>1, <3>2
    <2>5. ASSUME NEW n \in Objs
          PROVE  /\ obj'[n].pc = "made" /\ ~Mutex => segs'[linked'].init
                 /\ obj'[n].pc = "chk" => obj'[n].self \in Nat
                 /\ obj'[n].pc = "chk" /\ obj'[n].self # 0 => segs'[linked'].init
                 /\ Mutex /\ (obj'[n].pc = "init" \/ (obj'[n].pc = "chk" /\ obj'[n].self = 0)) =>
                          \A x \in Others(n)' : obj'[x].pc \in {"add", "keep"}
      <3>1. CASE n = m
        BY <1>4, <1>5, <3>1 DEF Mutex
      <3>2. CASE n # m /\ Proc(n) = p
        BY <1>6, <2>1, <3>2
      <3>3. CASE n # m /\ Proc(n) # p
        <4>1. Others(n)' = Others(n) /\ \A x \in Others(n) : x # m
          BY <1>5, <3>3 DEF Apart, Others
        <4>2. \A x \in Others(n) : obj'[x] = obj[x]
          BY <2>1, <4>1 DEF Others
        <4> QED BY <1>0, <2>1, <2>2, <3>3, <4>1, <4>2 DEF Prepared
      <3> QED BY <3>1, <3>2, <3>3
    <2> QED BY <2>1, <2>4, <2>5 DEF Prepared
  <1>15. SemOK'
    <2>1. kind = "sem" => ~SemUser(m)' /\ obj'[m].pc \notin {"semunlink", "clear"}
      BY <1>4, <1>5 DEF SemUser
    <2>2. CASE kind = "sem"
      BY <1>0, <1>5, <2>1, <2>2, SemStays
    <2>3. CASE kind # "sem"
      BY <2>3 DEF SemOK
    <2> QED BY <2>2, <2>3
  <1>16. \A n \in Objs : Proc(n) # p =>
           /\ hnd[Proc(n)].at = "held" /\ segs[linked].init => segs'[linked'].init
           /\ obj[n].holds # 0 => segs'[linked'].owner = n
    BY <1>0, <1>3, <1>12, ProcIn, UserHolds
  <1> QED BY <1>0, <1>3, <1>5, <1>7, <1>8, <1>9, <1>11, <1>14, <1>15, <1>16, Combine

\* Steps that leave the segments and the handles alone.
LEMMA QuietStep ==
  ASSUME NEW m, CalmBefore(m), UNCHANGED segVars,
         \A n \in Objs : n # m => obj'[n] = obj[n],
         \A q \in SegHandles : q # Proc(m) => reg'[q] = reg[q],
         \A n \in Objs : n # m /\ Proc(n) = Proc(m) => ObjOK(n)',
         ObjOK(m)', RegOK(Proc(m))', SemOK',
         obj'[m].pc \in {"wipe", "init", "destroy", "cleardestroy", "clear"} =>
           \/ obj[m].pc \in {"wipe", "init", "destroy", "cleardestroy", "clear"}
           \/ \A g \in SegHandles \ {Proc(m)} : hnd[g].at # "held",
         Posix /\ Unready(m) /\ ~segs[linked].init => Unready(m)',
         Posix /\ ~Mutex /\ obj'[m].pc = "made" => segs[linked].init,
         obj'[m].pc = "chk" => obj'[m].self \in Nat /\ (obj'[m].self # 0 => segs[linked].init),
         Posix /\ Mutex /\ First(m)' => \A n \in Others(m)' : obj'[n].pc \in {"add", "keep"},
         Posix /\ Mutex /\ obj'[m].ptr = "live" /\ obj'[m].pc \notin {"add", "keep"} =>
           \/ obj[m].ptr = "live" /\ obj[m].pc \notin {"add", "keep"}
           \/ \A n \in Others(m) : ~First(n)
  PROVE  CalmSync'
  <1>1. /\ m \in Objs /\ Proc(m) \in SegHandles /\ AloneIn /\ Prepared /\ (\A n \in Objs : ObjOK(n)) /\ CalmSync /\ OneSegment
    BY Before DEF CalmBefore
  <1>2. kind' = kind /\ hnd' = hnd /\ linked' = linked /\ segs' = segs
    BY DEF segVars
  <1>3. Apart(m)
    BY <1>2 DEF Apart
  <1>4. OneSegment'
    BY <1>1, <1>2 DEF OneSegment
  <1>5. AloneIn'
    BY <1>1, <1>2, <1>3, AloneStays
  <1>6. Prepared'
    BY <1>1, <1>2, <1>3, PreparedStays
  <1>7. \A n \in Objs : Proc(n) # Proc(m) =>
           /\ hnd[Proc(n)].at = "held" /\ segs[linked].init => segs'[linked'].init
           /\ obj[n].holds # 0 => segs'[linked'].owner = n
    BY <1>1, <1>2, UserHolds
  <1> QED BY <1>1, <1>3, <1>4, <1>5, <1>6, <1>7, Combine

\* Only semaphores have a semaphore.
LEMMA NoSem ==
  ASSUME kind # "sem", kind' = kind
  PROVE  SemOK'
  BY DEF SemOK

\* The peers of an object whose process has no entry, or that is the only one.
LEMMA QuietPeers ==
  ASSUME NEW m, CalmBefore(m), UNCHANGED segVars, \A n \in Objs : n # m => obj'[n] = obj[n],
         \A q \in SegHandles : q # Proc(m) => reg'[q] = reg[q],
         Mutex => reg[Proc(m)].lock \in {m, Nobody} /\ Others(m) = {}, ~Mutex => m \in Single
  PROVE  \A n \in Objs : n # m /\ Proc(n) = Proc(m) => obj[n].pc = "idle" /\ obj[n].ptr = "null" /\ ObjOK(n)'
  <1>1. m \in Objs /\ SyncTypeOK /\ Registry /\ CalmSync /\ \A n \in Objs : ObjOK(n)
    BY Before DEF CalmBefore
  <1>2. \A n \in Objs : n # m /\ Proc(n) = Proc(m) => obj[n].pc = "idle" /\ obj[n].ptr = "null"
    BY <1>1, PeersGone
  <1>3. Apart(m)
    BY DEF Apart, segVars
  <1> QED BY <1>1, <1>2, <1>3, NullOK

\* The handle is open: the entry is made, the object gets its pointer.
LEMMA CalmEmplaced ==
  ASSUME NEW m, CalmBefore(m), emplaced(m)
  PROVE  CalmSync'
  <1> DEFINE p == Proc(m)
  <1>0. /\ m \in Objs /\ p \in SegHandles /\ SegTypeOK /\ SyncTypeOK /\ Registry /\ ObjOK(m)
        /\ RegOK(p) /\ Prepared /\ SemOK /\ CalmSync /\ (\A n \in Objs : ObjOK(n)) /\ Alone(m) /\ kind \in Kinds
    BY Before DEF CalmBefore, emplaced
  <1>1. /\ obj[m].pc = "made" /\ UNCHANGED <<segVars, sem, crossed>>
        /\ Turns(m, IF Mutex THEN "add" ELSE "idle", "live", obj[m].self, obj[m].holds)
        /\ Enters(p, Mutex, 0, Nobody)
    BY <1>0, EmplacedEffect
  <1>2. obj[m].ptr = "null" /\ reg[p].lock = m /\ ~reg[p].on /\ obj[m].holds = 0 /\ hnd[p].at = "held"
    BY <1>0, <1>1 DEF ObjOK, Opening
  <1>3. /\ \A n \in Objs : n # m => obj'[n] = obj[n]
        /\ obj'[m].pc = (IF Mutex THEN "add" ELSE "idle") /\ obj'[m].ptr = "live" /\ obj'[m].holds = 0
        /\ \A q \in SegHandles : q # p => reg'[q] = reg[q]
        /\ (reg'[p].on <=> Mutex) /\ reg'[p].ref = 0 /\ reg'[p].lock = Nobody
    BY <1>1, <1>2 DEF Turns, Enters
  <1>4. kind' = kind /\ hnd' = hnd /\ segs' = segs /\ linked' = linked /\ (Mutex <=> Mutex') /\ (Posix <=> Posix')
    BY <1>1 DEF segVars, Mutex, Posix
  <1>5. Others(m) = {}
    BY <1>0, <1>2, NoneOn DEF Alone
  <1>6. \A n \in Objs : n # m /\ Proc(n) = p => obj[n].pc = "idle" /\ obj[n].ptr = "null" /\ ObjOK(n)'
    BY <1>1, <1>2, <1>3, <1>5, QuietPeers, <1>0 DEF Alone
  <1>7. Posix /\ ~Mutex => segs[linked].init
    BY <1>0, <1>1 DEF Prepared
  <1>8. ObjOK(m)'
    BY <1>2, <1>3, <1>4, <1>7 DEF ObjOK, Opening, Departing
  <1>9. RegOK(p)'
    <2>1. Mutex => Tally(p)' = {}
      BY <1>3, <1>6 DEF Tally
    <2>2. Mutex => Cardinality(Tally(p)') = 0
      BY <2>1, FS_EmptySet
    <2> QED BY <1>2, <1>3, <1>4, <2>2 DEF RegOK
  <1>10. SemOK'
    <2>1. CASE kind = "sem"
      <3>1. Apart(m)
        BY <1>3, <1>4 DEF Apart
      <3>2. SemUser(m) /\ obj'[m].pc = "idle"
        BY <1>1, <1>3, <2>1 DEF SemUser, Mutex
      <3> QED BY <1>0, <1>1, <3>1, <3>2, SemStays
    <2>2. CASE kind # "sem"
      BY <1>4, <2>2, NoSem
    <2> QED BY <2>1, <2>2
  <1>11. Posix /\ Unready(m) /\ ~segs[linked].init => Unready(m)'
    BY <1>3, <1>4, <1>7 DEF Unready
  <1>12. ~First(m)' /\ obj'[m].pc \notin {"chk", "made", "wipe", "init", "destroy", "cleardestroy", "clear"}
    BY <1>3 DEF First
  <1>13. Mutex => obj'[m].pc = "add"
    BY <1>3
  <1> QED BY <1>1, <1>3, <1>6, <1>8, <1>9, <1>10, <1>11, <1>12, <1>13, QuietStep

\* The users of a segment, by their count.
LEMMA RefTells ==
  ASSUME NEW m, CalmBefore(m), hnd[Proc(m)].at = "held"
  PROVE  \/ get_ref(Proc(m)) <= 1 /\ ~(get_ref(Proc(m)) > 1) /\ \A g \in SegHandles \ {Proc(m)} : hnd[g].at # "held"
         \/ get_ref(Proc(m)) > 1 /\ ~(get_ref(Proc(m)) <= 1) /\ \E g \in SegHandles \ {Proc(m)} : hnd[g].at = "held"
  <1>0. /\ Proc(m) \in SegHandles /\ SegTypeOK /\ OneSegment /\ AccCounts
    BY Before DEF SegInv
  <1>1. segs[hnd[Proc(m)].seg].acc \in Int
    BY <1>0, SegIn DEF SegRecords
  <1>2. get_ref(Proc(m)) = segs[hnd[Proc(m)].seg].acc
    BY DEF get_ref
  <1>3. \A g \in SegHandles : hnd[g].at = "held" => hnd[g].seg = hnd[Proc(m)].seg
    BY <1>0 DEF OneSegment
  <1>4. CASE segs[hnd[Proc(m)].seg].acc > 1
    BY <1>0, <1>1, <1>2, <1>4, AnotherHolds
  <1>5. CASE segs[hnd[Proc(m)].seg].acc <= 1
    <2>1. \A g \in SegHandles \ {Proc(m)} : hnd[g].at # "held"
      BY <1>0, <1>3, <1>5, NobodyElse
    <2> QED BY <1>1, <1>2, <1>5, <2>1
  <1> QED BY <1>1, <1>4, <1>5

\* Nothing but the object's step changes.
LEMMA QuietGo ==
  ASSUME NEW m, CalmBefore(m), NEW a, Goto(m, a), a \in Pcs, UNCHANGED <<segVars, reg, sem, crossed>>
  PROVE  /\ \A n \in Objs : n # m => obj'[n] = obj[n]
         /\ \A q \in SegHandles : q # Proc(m) => reg'[q] = reg[q]
         /\ obj'[m].pc = a /\ obj'[m].ptr = obj[m].ptr /\ obj'[m].self = obj[m].self /\ obj'[m].holds = obj[m].holds
         /\ kind' = kind /\ hnd' = hnd /\ segs' = segs /\ linked' = linked /\ reg' = reg
         /\ (Mutex <=> Mutex') /\ (Posix <=> Posix') /\ Others(m)' = Others(m) /\ Apart(m)
  <1>1. Go(m, a)
    BY Before, Goes DEF Go
  <1>2. kind' = kind /\ hnd' = hnd /\ segs' = segs /\ linked' = linked /\ reg' = reg
    BY DEF segVars
  <1> QED BY <1>1, <1>2 DEF Go, Turns, Mutex, Posix, Others, Apart

\* Who finds itself the only user initialises; the other finds it done.
LEMMA CalmRef ==
  ASSUME NEW m, CalmBefore(m), open_ref(m) \/ open_cond(m)
  PROVE  CalmSync'
  <1> DEFINE p == Proc(m)
  <1>0. /\ m \in Objs /\ p \in SegHandles /\ SegTypeOK /\ SyncTypeOK /\ Registry /\ ObjOK(m)
        /\ RegOK(p) /\ Prepared /\ SemOK /\ CalmSync /\ (\A n \in Objs : ObjOK(n)) /\ Alone(m) /\ kind \in Kinds
    BY Before DEF CalmBefore, open_ref, open_cond
  <1>1. /\ obj[m].pc = "ref" /\ UNCHANGED <<segVars, reg, sem, crossed>> /\ kind # "sem"
    BY <1>0, PcFacts DEF open_ref, open_cond
  <1>2. obj[m].ptr = "null" /\ reg[p].lock = m /\ ~reg[p].on /\ obj[m].holds = 0 /\ hnd[p].at = "held"
    BY <1>0, <1>1 DEF ObjOK, Opening
  <1>3. PICK a : a = IF get_ref(p) > 1 THEN "made" ELSE IF Posix THEN "init" ELSE "wipe"
    OBVIOUS
  <1>4. Goto(m, a) /\ a \in Pcs
    BY <1>3 DEF open_ref, open_cond, Pcs
  <1>5. /\ \A n \in Objs : n # m => obj'[n] = obj[n]
        /\ \A q \in SegHandles : q # p => reg'[q] = reg[q]
        /\ obj'[m].pc = a /\ obj'[m].ptr = obj[m].ptr /\ obj'[m].self = obj[m].self /\ obj'[m].holds = obj[m].holds
        /\ kind' = kind /\ hnd' = hnd /\ segs' = segs /\ linked' = linked /\ reg' = reg
        /\ (Mutex <=> Mutex') /\ (Posix <=> Posix') /\ Others(m)' = Others(m) /\ Apart(m)
    BY <1>1, <1>4, QuietGo
  <1>6. Others(m) = {}
    BY <1>0, <1>2, NoneOn DEF Alone
  <1>7. \A n \in Objs : n # m /\ Proc(n) = p => obj[n].pc = "idle" /\ obj[n].ptr = "null" /\ ObjOK(n)'
    BY <1>0, <1>1, <1>2, <1>5, <1>6, QuietPeers DEF Alone
  <1>8. \/ get_ref(p) <= 1 /\ ~(get_ref(p) > 1) /\ \A g \in SegHandles \ {p} : hnd[g].at # "held"
        \/ get_ref(p) > 1 /\ ~(get_ref(p) <= 1) /\ \E g \in SegHandles \ {p} : hnd[g].at = "held"
    BY <1>2, RefTells
  <1>9. a \in {"wipe", "init"} => \A g \in SegHandles \ {p} : hnd[g].at # "held"
    BY <1>3, <1>8
  <1>10. Posix => a \in {"made", "init"} /\ (a = "made" => segs[linked].init) /\ ~Mutex
    <2> SUFFICES ASSUME Posix PROVE a \in {"made", "init"} /\ (a = "made" => segs[linked].init) /\ ~Mutex
      OBVIOUS
    <2>1. ~Mutex
      BY <1>0, <1>1, PcFacts DEF Mutex
    <2>2. a = "made" => segs[linked].init
      BY <1>0, <1>2, <1>3, <1>8 DEF Prepared
    <2> QED BY <1>3, <2>1, <2>2
  <1>11. a \in {"made", "init", "wipe"} /\ (a = "init" => Posix)
    BY <1>3
  <1>12. ObjOK(m)'
    BY <1>2, <1>5, <1>10, <1>11 DEF ObjOK, Opening, Departing
  <1>13. RegOK(p)'
    <2>1. m \notin Tally(p) /\ m \notin Tally(p)'
      BY <1>2, <1>5 DEF Tally
    <2> QED BY <1>0, <1>1, <1>5, <1>11, <2>1, RegStays
  <1>14. SemOK'
    BY <1>1, <1>5, NoSem
  <1>15. Posix /\ ~segs[linked].init => Unready(m)'
    BY <1>5, <1>10 DEF Unready
  <1> QED BY <1>1, <1>2, <1>5, <1>7, <1>9, <1>10, <1>11, <1>12, <1>13, <1>14, <1>15, QuietStep

\* The count is that of the objects that have counted themselves in.
LEMMA RefIs ==
  ASSUME NEW m, CalmBefore(m), Mutex, obj[m].ptr = "live", obj[m].pc # "erased"
  PROVE  /\ \A n \in Objs : Proc(n) = Proc(m) => obj[n].pc # "erased"
         /\ reg[Proc(m)].ref = Cardinality(Tally(Proc(m))) /\ IsFiniteSet(Tally(Proc(m)))
         /\ Cardinality(Tally(Proc(m))) \in Nat
  <1>0. m \in Objs /\ Proc(m) \in SegHandles /\ RegOK(Proc(m)) /\ \A n \in Objs : ObjOK(n)
    BY Before
  <1>1. ASSUME NEW n \in Objs, Proc(n) = Proc(m), obj[n].pc = "erased" PROVE FALSE
    <2>1. n # m /\ Others(n) = {}
      BY <1>0, <1>1 DEF ObjOK
    <2> QED BY <1>0, <1>1, <2>1 DEF Others
  <1>2. Tally(Proc(m)) \subseteq Objs
    BY DEF Tally
  <1>3. IsFiniteSet(Tally(Proc(m))) /\ Cardinality(Tally(Proc(m))) \in Nat
    BY <1>2, SyncAssumption, FS_Subset, FS_CardinalityType
  <1> QED BY <1>0, <1>1, <1>3 DEF RegOK

\* Who counts itself out last leaves no other.
LEMMA LastOne ==
  ASSUME NEW m, CalmBefore(m), Mutex, MayClose(m), reg[Proc(m)].ref <= 1, ~Uncounted(m)
  PROVE  Others(m) = {}
  <1>0. m \in Objs /\ Proc(m) \in SegHandles /\ SyncTypeOK /\ \A n \in Objs : ObjOK(n)
    BY Before
  <1>1. obj[m].ptr = "live" /\ reg[Proc(m)].lock = Nobody /\ obj[m].pc \in {"idle", "init"}
    BY DEF MayClose, LockFree
  <1>2. PICK T : T = Tally(Proc(m))
    OBVIOUS
  <1>3. reg[Proc(m)].ref = Cardinality(T) /\ IsFiniteSet(T) /\ Cardinality(T) \in Nat
        /\ \A n \in Objs : Proc(n) = Proc(m) => obj[n].pc # "erased"
    BY <1>1, <1>2, RefIs
  <1>4. m \in T
    BY <1>0, <1>1, <1>2 DEF Tally
  <1>5. Cardinality(T \ {m}) = Cardinality(T) - 1 /\ IsFiniteSet(T \ {m})
    BY <1>3, <1>4, OneLess
  <1>6. Cardinality(T \ {m}) \in Nat
    BY <1>5, FS_CardinalityType
  <1>7. Cardinality(T \ {m}) = 0
    BY <1>3, <1>5, <1>6
  <1>8. T \ {m} = {}
    BY <1>5, <1>7, FS_EmptySet
  <1> SUFFICES ASSUME NEW n \in Objs, n # m, Proc(n) = Proc(m), obj[n].ptr = "live" PROVE FALSE
    BY DEF Others
  <1>9. n \notin T /\ n \in Others(m)
    BY <1>8 DEF Others
  <1>10. obj[n].pc \notin {"idle", "chk", "init", "cleardestroy", "clear", "add"}
    BY <1>2, <1>9 DEF Tally, Uncounted
  <1>11. ObjOK(n) /\ obj[n].pc \in Pcs /\ (obj[n].pc \in {"semopen", "semunlink"} => kind = "sem") /\ reg[Proc(m)].lock # n
    BY <1>0, <1>1, ObjTypes, PcFacts, NobodyIsNot
  <1> QED BY <1>10, <1>11 DEF ObjOK, Opening, Departing, Pcs, Mutex

\* An object that comes into the count, or leaves it.
LEMMA TallyIn ==
  ASSUME NEW m, CalmBefore(m), Mutex, obj[m].ptr = "live", obj[m].pc # "erased", obj'[m].pc # "erased", Apart(m),
         hnd' = hnd, reg[Proc(m)].on, hnd[Proc(m)].at = "held",
         \/ m \notin Tally(Proc(m)) /\ m \in Tally(Proc(m))' /\ reg'[Proc(m)].ref = reg[Proc(m)].ref + 1
         \/ m \in Tally(Proc(m)) /\ m \notin Tally(Proc(m))' /\ reg'[Proc(m)].ref = reg[Proc(m)].ref - 1
  PROVE  RegOK(Proc(m))'
  <1>0. m \in Objs
    BY Before
  <1>1. PICK T : T = Tally(Proc(m))
    OBVIOUS
  <1>2. PICK U : U = Tally(Proc(m))'
    OBVIOUS
  <1>3. reg[Proc(m)].ref = Cardinality(T) /\ IsFiniteSet(T)
    BY <1>1, RefIs
  <1>4. \A n \in Objs : n # m => (n \in T <=> n \in U)
    BY <1>1, <1>2 DEF Apart, Tally
  <1>5. T \subseteq Objs /\ U \subseteq Objs
    BY <1>1, <1>2 DEF Tally
  <1>6. CASE m \notin T /\ m \in U /\ reg'[Proc(m)].ref = reg[Proc(m)].ref + 1
    <2>1. U = T \cup {m}
      BY <1>4, <1>5, <1>6
    <2>2. Cardinality(U) = Cardinality(T) + 1
      BY <1>3, <1>6, <2>1, OneMore
    <2> QED BY <1>2, <1>3, <1>6, <2>2 DEF RegOK
  <1>7. CASE m \in T /\ m \notin U /\ reg'[Proc(m)].ref = reg[Proc(m)].ref - 1
    <2>1. U = T \ {m}
      BY <1>4, <1>5, <1>7
    <2>2. Cardinality(U) = Cardinality(T) - 1
      BY <1>3, <1>7, <2>1, OneLess
    <2> QED BY <1>2, <1>3, <1>7, <2>2 DEF RegOK
  <1> QED BY <1>1, <1>2, <1>6, <1>7

\* acquire_mutex finds the entry.
LEMMA CalmFound ==
  ASSUME NEW m, CalmBefore(m), acquire_mutex(m)
  PROVE  CalmSync'
  <1> DEFINE p == Proc(m)
  <1>0. /\ m \in Objs /\ p \in SegHandles /\ SegTypeOK /\ SyncTypeOK /\ Registry /\ ObjOK(m)
        /\ RegOK(p) /\ Prepared /\ SemOK /\ CalmSync /\ (\A n \in Objs : ObjOK(n)) /\ kind \in Kinds
    BY Before DEF CalmBefore
  <1>1. /\ Mutex /\ obj[m].pc = "idle" /\ obj[m].ptr = "null" /\ reg[p].lock = Nobody /\ reg[p].on /\ obj[m].holds = 0
        /\ UNCHANGED <<segVars, reg, sem, crossed>> /\ Turns(m, "add", "live", obj[m].self, obj[m].holds)
    BY <1>0, Points DEF acquire_mutex, Closed, LockFree, ObjOK, Pcs
  <1>2. hnd[p].at = "held"
    <2>1. \A n \in Objs : Proc(n) = p => obj[n].pc # "erased"
      BY <1>0, <1>1, NobodyIsNot DEF ObjOK
    <2> QED BY <1>0, <1>1, <2>1 DEF RegOK
  <1>3. /\ \A n \in Objs : n # m => obj'[n] = obj[n]
        /\ obj'[m].pc = "add" /\ obj'[m].ptr = "live" /\ obj'[m].holds = 0
        /\ kind' = kind /\ hnd' = hnd /\ segs' = segs /\ linked' = linked /\ reg' = reg /\ Mutex' /\ (Posix <=> Posix')
    BY <1>1 DEF Turns, segVars, Mutex, Posix
  <1>4. Apart(m)
    BY <1>3 DEF Apart
  <1>5. \A n \in Objs : n # m /\ Proc(n) = p => ObjOK(n)'
    BY <1>0, <1>1, <1>3, <1>4, NobodyIsNot, UserHolds, PeerOK
  <1>6. ObjOK(m)'
    BY <1>1, <1>2, <1>3 DEF ObjOK, Opening, Departing
  <1>7. RegOK(p)'
    <2>1. m \notin Tally(p) /\ m \notin Tally(p)'
      BY <1>1, <1>3 DEF Tally
    <2> QED BY <1>0, <1>1, <1>3, <1>4, <2>1, RegStays
  <1>8. SemOK'
    BY <1>1, <1>3, NoSem DEF Mutex
  <1>9. ~Unready(m) /\ ~First(m)'
    BY <1>1, <1>3 DEF Unready, First, Departing
  <1> QED BY <1>1, <1>3, <1>5, <1>6, <1>7, <1>8, <1>9, QuietStep

\* The count goes up: who finds it at 0 is the first, and nobody else is open.
LEMMA CalmAdd ==
  ASSUME NEW m, CalmBefore(m), open_add(m), ~crossed'
  PROVE  CalmSync'
  <1> DEFINE p == Proc(m)
  <1>0. /\ m \in Objs /\ p \in SegHandles /\ SegTypeOK /\ SyncTypeOK /\ Registry /\ ObjOK(m)
        /\ RegOK(p) /\ Prepared /\ SemOK /\ CalmSync /\ (\A n \in Objs : ObjOK(n)) /\ kind \in Kinds
    BY Before DEF CalmBefore
  <1>1. /\ obj[m].pc = "add" /\ UNCHANGED <<segVars, sem>>
        /\ \A n \in Others(m) : obj[n].pc \notin {"chk", "init"}
        /\ Turns(m, IF Posix THEN "chk" ELSE "idle", obj[m].ptr, reg[p].ref, obj[m].holds)
        /\ Enters(p, reg[p].on, reg[p].ref + 1, reg[p].lock)
    BY <1>0, AddEffect
  <1>2. Mutex /\ kind # "sem" /\ obj[m].ptr = "live" /\ reg[p].on /\ obj[m].holds = 0 /\ hnd[p].at = "held"
    BY <1>0, <1>1, PcFacts DEF ObjOK, Mutex
  <1>3. PICK a : a = IF Posix THEN "chk" ELSE "idle"
    OBVIOUS
  <1>4. /\ \A n \in Objs : n # m => obj'[n] = obj[n]
        /\ obj'[m].pc = a /\ obj'[m].ptr = "live" /\ obj'[m].holds = 0 /\ obj'[m].self = reg[p].ref
        /\ \A q \in SegHandles : q # p => reg'[q] = reg[q]
        /\ reg'[p].on /\ reg'[p].ref = reg[p].ref + 1 /\ reg'[p].lock = reg[p].lock
    BY <1>0, <1>1, <1>2, <1>3 DEF Turns, Enters
  <1>5. kind' = kind /\ hnd' = hnd /\ segs' = segs /\ linked' = linked /\ Mutex' /\ (Posix <=> Posix')
    BY <1>1, <1>2 DEF segVars, Mutex, Posix
  <1>6. Apart(m) /\ Others(m)' = Others(m) /\ \A n \in Others(m) : n # m
    BY <1>4, <1>5 DEF Apart, Others
  <1>7. \A n \in Objs : n # m /\ Proc(n) = p => ObjOK(n)'
    BY <1>0, <1>2, <1>4, <1>5, <1>6, UserHolds, PeerOK
  <1>8. a \in {"chk", "idle"} /\ (a = "chk" <=> Posix)
    BY <1>3
  <1>9. ObjOK(m)'
    BY <1>2, <1>4, <1>5, <1>8 DEF ObjOK, Opening, Departing
  <1>10. m \notin Tally(p) /\ m \in Tally(p)'
    BY <1>0, <1>1, <1>4, <1>8 DEF Tally
  <1>11. RegOK(p)'
    BY <1>1, <1>2, <1>4, <1>5, <1>6, <1>8, <1>10, TallyIn
  <1>12. \A n \in Others(m) : n \in Objs /\ obj[n].pc \in {"idle", "add", "keep"}
    <2> SUFFICES ASSUME NEW n \in Others(m) PROVE n \in Objs /\ obj[n].pc \in {"idle", "add", "keep"}
      OBVIOUS
    <2>1. n \in Objs /\ Proc(n) = p /\ obj[n].ptr = "live" /\ m \in Others(n)
      BY <1>0, <1>2 DEF Others
    <2>2. ObjOK(n) /\ obj[n].pc \in Pcs /\ (obj[n].pc \in {"semopen", "semunlink"} => kind = "sem")
      BY <1>0, <2>1, ObjTypes, PcFacts
    <2> QED BY <1>1, <1>2, <2>1, <2>2 DEF ObjOK, Opening, Departing, Pcs
  <1>13. reg[p].ref \in Nat /\ (reg[p].ref # 0 => Tally(p) # {}) /\ (reg[p].ref = 0 => Tally(p) = {})
    <2>1. reg[p].ref = Cardinality(Tally(p)) /\ IsFiniteSet(Tally(p)) /\ Cardinality(Tally(p)) \in Nat
      BY <1>1, <1>2, RefIs
    <2> QED BY <2>1, FS_EmptySet
  <1>14. Posix /\ Tally(p) # {} => segs[linked].init
    <2> SUFFICES ASSUME Posix, NEW n \in Tally(p) PROVE segs[linked].init
      OBVIOUS
    <2>1. n \in Objs /\ n # m /\ Proc(n) = p /\ obj[n].ptr = "live" /\ obj[n].pc \notin {"add", "keep"}
      BY <1>1 DEF Tally
    <2>2. n \in Others(m)
      BY <2>1 DEF Others
    <2>3. obj[n].pc = "idle"
      BY <1>12, <2>1, <2>2
    <2> QED BY <1>0, <2>1, <2>3 DEF ObjOK
  <1>15. First(m)' => \A n \in Others(m)' : obj'[n].pc \in {"add", "keep"}
    <2> SUFFICES ASSUME First(m)', NEW n \in Others(m) PROVE obj'[n].pc \in {"add", "keep"}
      BY <1>6
    <2>1. Tally(p) = {}
      BY <1>4, <1>8, <1>13 DEF First
    <2>2. obj[n].pc # "idle"
      BY <2>1 DEF Tally, Others
    <2> QED BY <1>4, <1>6, <1>12, <2>2
  <1>16. Posix /\ ~segs[linked].init => Unready(m)'
    BY <1>4, <1>5, <1>8, <1>13, <1>14 DEF Unready
  <1>17. \A n \in Others(m) : ~First(n)
    BY <1>12 DEF First
  <1>18. SemOK'
    BY <1>2, <1>5, NoSem
  <1>19. obj'[m].pc = "chk" => obj'[m].self \in Nat /\ (obj'[m].self # 0 => segs[linked].init)
    BY <1>4, <1>8, <1>13, <1>14
  <1> QED BY <1>1, <1>4, <1>7, <1>8, <1>9, <1>11, <1>15, <1>16, <1>17, <1>18, <1>19, QuietStep

\* Conditions and semaphores have no entry to keep right.
LEMMA NoReg ==
  ASSUME NEW p, ~Mutex', ~reg'[p].on
  PROVE  RegOK(p)'
  BY DEF RegOK

\* posix mutex::open: only the first object of the only process initialises.
LEMMA CalmChk ==
  ASSUME NEW m, CalmBefore(m), open_chk(m)
  PROVE  CalmSync'
  <1> DEFINE p == Proc(m)
  <1>0. /\ m \in Objs /\ p \in SegHandles /\ SegTypeOK /\ SyncTypeOK /\ Registry /\ ObjOK(m)
        /\ RegOK(p) /\ Prepared /\ SemOK /\ CalmSync /\ (\A n \in Objs : ObjOK(n)) /\ kind \in Kinds
    BY Before DEF CalmBefore
  <1>1. /\ obj[m].pc = "chk" /\ UNCHANGED <<segVars, reg, sem, crossed>> /\ Mutex /\ Posix /\ kind # "sem"
    BY <1>0, PcFacts DEF open_chk, Mutex
  <1>2. obj[m].ptr = "live" /\ reg[p].on /\ obj[m].holds = 0 /\ hnd[p].at = "held"
    BY <1>0, <1>1 DEF ObjOK
  <1>3. obj[m].self \in Nat /\ (obj[m].self # 0 => segs[linked].init)
        /\ (obj[m].self = 0 => \A n \in Others(m) : obj[n].pc \in {"add", "keep"})
    BY <1>0, <1>1 DEF Prepared
  <1>4. PICK a : a = IF get_ref(p) > 1 \/ obj[m].self > 0 THEN "idle" ELSE "init"
    OBVIOUS
  <1>5. Goto(m, a) /\ a \in Pcs /\ a \in {"idle", "init"}
    BY <1>4 DEF open_chk, Pcs
  <1>6. /\ \A n \in Objs : n # m => obj'[n] = obj[n]
        /\ \A q \in SegHandles : q # p => reg'[q] = reg[q]
        /\ obj'[m].pc = a /\ obj'[m].ptr = obj[m].ptr /\ obj'[m].self = obj[m].self /\ obj'[m].holds = obj[m].holds
        /\ kind' = kind /\ hnd' = hnd /\ segs' = segs /\ linked' = linked /\ reg' = reg
        /\ (Mutex <=> Mutex') /\ (Posix <=> Posix') /\ Others(m)' = Others(m) /\ Apart(m)
    BY <1>1, <1>5, QuietGo
  <1>7. \/ get_ref(p) <= 1 /\ ~(get_ref(p) > 1) /\ \A g \in SegHandles \ {p} : hnd[g].at # "held"
        \/ get_ref(p) > 1 /\ ~(get_ref(p) <= 1) /\ \E g \in SegHandles \ {p} : hnd[g].at = "held"
    BY <1>2, RefTells
  <1>8. a = "idle" => segs[linked].init
    <2>1. CASE get_ref(p) > 1
      BY <1>0, <1>1, <1>2, <1>7, <2>1 DEF Prepared
    <2>2. CASE obj[m].self > 0
      BY <1>3, <2>2
    <2> QED BY <1>4, <2>1, <2>2
  <1>9. a = "init" => obj[m].self = 0 /\ \A g \in SegHandles \ {p} : hnd[g].at # "held"
    BY <1>3, <1>4, <1>7
  <1>10. \A n \in Objs : n # m /\ Proc(n) = p => ObjOK(n)'
    BY <1>0, <1>1, <1>2, <1>6, UserHolds, PeerOK
  <1>11. ObjOK(m)'
    BY <1>1, <1>2, <1>5, <1>6, <1>8 DEF ObjOK, Opening, Departing
  <1>12. RegOK(p)'
    <2>1. m \in Tally(p) /\ m \in Tally(p)'
      BY <1>0, <1>1, <1>2, <1>5, <1>6 DEF Tally
    <2> QED BY <1>0, <1>1, <1>5, <1>6, <2>1, RegStays
  <1>13. SemOK'
    BY <1>1, <1>6, NoSem
  <1>14. ~segs[linked].init => Unready(m)'
    BY <1>5, <1>6, <1>8 DEF Unready
  <1>15. First(m)' => \A n \in Others(m)' : obj'[n].pc \in {"add", "keep"}
    BY <1>3, <1>5, <1>6, <1>9 DEF First, Others
  <1> QED BY <1>1, <1>2, <1>5, <1>6, <1>9, <1>10, <1>11, <1>12, <1>13, <1>14, <1>15, QuietStep

\* mutex::close counts the object out.
LEMMA CalmCountOut ==
  ASSUME NEW m, CalmBefore(m), Mutex, NEW a \in {"destroy", "erase", "keep"}, CountOut(m, a), ~crossed',
         a # "keep" => reg[Proc(m)].ref <= 1, a = "erase" => ~Posix, a = "destroy" => get_ref(Proc(m)) <= 1,
         Posix /\ a = "keep" => ~(reg[Proc(m)].ref <= 1 /\ get_ref(Proc(m)) <= 1)
  PROVE  CalmSync'
  <1> DEFINE p == Proc(m)
  <1>0. /\ m \in Objs /\ p \in SegHandles /\ SegTypeOK /\ SyncTypeOK /\ Registry /\ ObjOK(m) /\ AloneIn
        /\ RegOK(p) /\ Prepared /\ SemOK /\ CalmSync /\ (\A n \in Objs : ObjOK(n)) /\ kind \in Kinds
    BY Before DEF CalmBefore
  <1>1. /\ MayClose(m) /\ UNCHANGED <<segVars, sem>> /\ ~(reg[p].ref <= 1 /\ Uncounted(m))
        /\ Go(m, a) /\ Enters(p, reg[p].on, reg[p].ref - 1, m)
    BY <1>0, CountOutEffect DEF Pcs
  <1>2. /\ obj[m].ptr = "live" /\ reg[p].lock = Nobody /\ obj[m].pc \in {"idle", "init"} /\ obj[m].holds = 0
        /\ reg[p].on /\ hnd[p].at = "held" /\ kind # "sem"
    BY <1>0, <1>1 DEF MayClose, LockFree, ObjOK, Mutex
  <1>3. /\ \A n \in Objs : n # m => obj'[n] = obj[n]
        /\ obj'[m].pc = a /\ obj'[m].ptr = "live" /\ obj'[m].holds = 0
        /\ \A q \in SegHandles : q # p => reg'[q] = reg[q]
        /\ reg'[p].on /\ reg'[p].ref = reg[p].ref - 1 /\ reg'[p].lock = m
    BY <1>0, <1>1, <1>2 DEF Go, Turns, Enters
  <1>4. kind' = kind /\ hnd' = hnd /\ segs' = segs /\ linked' = linked /\ Mutex' /\ (Posix <=> Posix')
    BY <1>1 DEF segVars, Mutex, Posix
  <1>5. Apart(m) /\ Others(m)' = Others(m)
    BY <1>3, <1>4 DEF Apart, Others
  <1>6. \A n \in Objs : n # m /\ Proc(n) = p => ObjOK(n)'
    BY <1>0, <1>2, <1>3, <1>4, <1>5, NobodyIsNot, UserHolds, PeerOK
  <1>7. a # "keep" => Others(m)' = {}
    BY <1>1, <1>5, LastOne
  <1>8. ObjOK(m)'
    BY <1>2, <1>3, <1>4, <1>7 DEF ObjOK, Opening, Departing
  <1>9. RegOK(p)'
    <2>1. m \in Tally(p) /\ m \notin Tally(p)'
      BY <1>0, <1>2, <1>3 DEF Tally
    <2> QED BY <1>2, <1>3, <1>4, <1>5, <2>1, TallyIn
  <1>10. \/ get_ref(p) <= 1 /\ ~(get_ref(p) > 1) /\ \A g \in SegHandles \ {p} : hnd[g].at # "held"
         \/ get_ref(p) > 1 /\ ~(get_ref(p) <= 1) /\ \E g \in SegHandles \ {p} : hnd[g].at = "held"
    BY <1>2, RefTells
  <1>11. a = "destroy" => \A g \in SegHandles \ {p} : hnd[g].at # "held"
    BY <1>10
  <1>12. Posix /\ obj[m].pc = "init" => a # "keep"
    <2> SUFFICES ASSUME Posix, obj[m].pc = "init" PROVE reg[p].ref <= 1 /\ get_ref(p) <= 1
      OBVIOUS
    <2>1. \A g \in SegHandles \ {p} : hnd[g].at # "held"
      BY <1>0 DEF AloneIn
    <2>2. get_ref(p) <= 1
      BY <1>10, <2>1
    <2>3. \A n \in Others(m) : obj[n].pc \in {"add", "keep"}
      BY <1>0 DEF Prepared
    <2>4. Tally(p) = {m}
      BY <1>0, <1>2, <2>3 DEF Tally, Others
    <2>5. reg[p].ref = Cardinality({m})
      BY <1>2, <2>4, RefIs
    <2>6. Cardinality({m}) = 1
      BY FS_Singleton
    <2> QED BY <2>2, <2>5, <2>6
  <1>13. Posix /\ Unready(m) => Unready(m)'
    BY <1>2, <1>3, <1>12 DEF Unready, Departing
  <1>14. ~First(m)'
    BY <1>3 DEF First
  <1>15. SemOK'
    BY <1>2, <1>4, NoSem
  <1> QED BY <1>1, <1>2, <1>3, <1>6, <1>8, <1>9, <1>11, <1>13, <1>14, <1>15, QuietStep

\* condition::close.
LEMMA CalmCloseCond ==
  ASSUME NEW m, CalmBefore(m), close_cond(m)
  PROVE  CalmSync'
  <1> DEFINE p == Proc(m)
  <1>0. /\ m \in Objs /\ p \in SegHandles /\ SegTypeOK /\ SyncTypeOK /\ Registry /\ ObjOK(m) /\ AloneIn
        /\ RegOK(p) /\ Prepared /\ SemOK /\ CalmSync /\ (\A n \in Objs : ObjOK(n)) /\ kind \in Kinds
        /\ (obj[m].ptr # "null" => Alone(m))
    BY Before DEF CalmBefore
  <1>1. /\ ~Mutex /\ kind # "sem" /\ obj[m].ptr = "live" /\ obj[m].pc = "idle" /\ obj[m].holds = 0
        /\ UNCHANGED <<segVars, reg, sem, crossed>> /\ m \in Single /\ ~reg[p].on
    BY <1>0 DEF close_cond, MayClose, Mutex, Alone, Registry, NoRegistry
  <1>2. hnd[p].at = "held"
    BY <1>0, <1>1 DEF ObjOK
  <1>3. PICK a : a = IF Posix /\ get_ref(p) <= 1 THEN "destroy" ELSE "erase"
    OBVIOUS
  <1>4. Goto(m, a) /\ a \in Pcs /\ a \in {"destroy", "erase"}
    BY <1>3 DEF close_cond, Pcs
  <1>5. /\ \A n \in Objs : n # m => obj'[n] = obj[n]
        /\ \A q \in SegHandles : q # p => reg'[q] = reg[q]
        /\ obj'[m].pc = a /\ obj'[m].ptr = obj[m].ptr /\ obj'[m].self = obj[m].self /\ obj'[m].holds = obj[m].holds
        /\ kind' = kind /\ hnd' = hnd /\ segs' = segs /\ linked' = linked /\ reg' = reg
        /\ (Mutex <=> Mutex') /\ (Posix <=> Posix') /\ Others(m)' = Others(m) /\ Apart(m)
    BY <1>1, <1>4, QuietGo
  <1>6. Others(m) = {}
    BY <1>0, <1>1, NoneOn
  <1>7. \A n \in Objs : n # m /\ Proc(n) = p => obj[n].pc = "idle" /\ obj[n].ptr = "null" /\ ObjOK(n)'
    BY <1>1, <1>5, QuietPeers
  <1>8. \/ get_ref(p) <= 1 /\ ~(get_ref(p) > 1) /\ \A g \in SegHandles \ {p} : hnd[g].at # "held"
        \/ get_ref(p) > 1 /\ ~(get_ref(p) <= 1) /\ \E g \in SegHandles \ {p} : hnd[g].at = "held"
    BY <1>2, RefTells
  <1>9. a = "destroy" => \A g \in SegHandles \ {p} : hnd[g].at # "held"
    BY <1>3, <1>8
  <1>10. ObjOK(m)'
    BY <1>1, <1>2, <1>4, <1>5, <1>6 DEF ObjOK, Opening, Departing
  <1>11. RegOK(p)'
    BY <1>1, <1>5, NoReg
  <1>12. SemOK'
    BY <1>1, <1>5, NoSem
  <1>13. ~Unready(m) /\ ~First(m)'
    BY <1>1, <1>4, <1>5 DEF Unready, First, Departing
  <1> QED BY <1>1, <1>4, <1>5, <1>7, <1>9, <1>10, <1>11, <1>12, <1>13, QuietStep

\* clear, and the first step of clear_storage and of a process that ends, when
\* nobody else is there.
LEMMA CalmClear ==
  ASSUME NEW m, CalmBefore(m), UNCHANGED <<segVars, sem>>, kind # "sem",
         NEW a \in {"cleardestroy", "clear", "erase"}, Go(m, a), Enters(Proc(m), reg[Proc(m)].on, reg[Proc(m)].ref, m),
         obj[m].pc = "idle", obj[m].holds = 0, Others(m) = {}, hnd[Proc(m)].at = "held",
         Mutex => reg[Proc(m)].on /\ (reg[Proc(m)].lock = Nobody \/ \A n \in Objs : Proc(n) = Proc(m) => obj[n].pc = "idle"),
         ~Mutex => m \in Single,
         a = "erase" => Mutex /\ obj[m].ptr = "null",
         a # "erase" => obj[m].ptr = "live" /\ \A g \in SegHandles \ {Proc(m)} : hnd[g].at = "null"
  PROVE  CalmSync'
  <1> DEFINE p == Proc(m)
  <1>0. /\ m \in Objs /\ p \in SegHandles /\ SegTypeOK /\ SyncTypeOK /\ Registry /\ ObjOK(m) /\ AloneIn
        /\ RegOK(p) /\ Prepared /\ SemOK /\ CalmSync /\ (\A n \in Objs : ObjOK(n)) /\ kind \in Kinds
    BY Before DEF CalmBefore
  <1>1. /\ \A n \in Objs : n # m => obj'[n] = obj[n]
        /\ obj'[m].pc = a /\ obj'[m].ptr = obj[m].ptr /\ obj'[m].holds = 0
        /\ \A q \in SegHandles : q # p => reg'[q] = reg[q]
        /\ (reg'[p].on <=> reg[p].on) /\ reg'[p].ref = reg[p].ref /\ reg'[p].lock = m
    BY <1>0 DEF Go, Turns, Enters
  <1>2. kind' = kind /\ hnd' = hnd /\ segs' = segs /\ linked' = linked /\ (Mutex <=> Mutex') /\ (Posix <=> Posix')
    BY DEF segVars, Mutex, Posix
  <1>3. Apart(m) /\ Others(m)' = {}
    BY <1>1, <1>2 DEF Apart, Others
  <1>4. \A n \in Objs : n # m /\ Proc(n) = p => ObjOK(n)'
    <2>1. CASE ~Mutex \/ reg[p].lock = Nobody
      BY <1>1, <2>1, QuietPeers
    <2>2. CASE \A n \in Objs : Proc(n) = p => obj[n].pc = "idle"
      <3>1. \A n \in Objs : n # m /\ Proc(n) = p => obj[n].pc = "idle" /\ obj[n].ptr = "null"
        <4> SUFFICES ASSUME NEW n \in Objs, n # m, Proc(n) = p PROVE obj[n].ptr = "null"
          BY <2>2
        <4>1. obj[n].ptr # "live"
          BY DEF Others
        <4> QED BY <1>0, <4>1, ObjTypes DEF ObjOK
      <3> QED BY <1>0, <1>3, <3>1, NullOK
    <2> QED BY <2>1, <2>2
  <1>5. ObjOK(m)'
    BY <1>0, <1>1, <1>2, <1>3 DEF ObjOK, Opening, Departing
  <1>6. RegOK(p)'
    <2>1. (m \in Tally(p)) <=> (m \in Tally(p)')
      BY <1>0, <1>1 DEF Tally
    <2> QED BY <1>0, <1>1, <1>2, <1>3, <2>1, RegStays
  <1>7. SemOK'
    BY <1>2, NoSem
  <1>8. ~Unready(m) /\ ~First(m)'
    BY <1>1 DEF Unready, First, Departing
  <1>9. \A n \in Others(m) : ~First(n)
    OBVIOUS
  <1> QED BY <1>1, <1>4, <1>5, <1>6, <1>7, <1>8, <1>9, QuietStep

\* What is written goes into the one segment.
LEMMA Touched ==
  ASSUME NEW m, CalmBefore(m), hnd[Proc(m)].at = "held", UNCHANGED <<linked, created, hnd, raced>>,
         NEW i \in BOOLEAN, NEW o \in Objs \cup {Nobody}, Written(SegOf(m), i, o)
  PROVE  OneSegment' /\ segs'[linked'].init = i /\ segs'[linked'].owner = o
  <1>0. Proc(m) \in SegHandles /\ SegTypeOK /\ OneSegment
    BY Before
  <1>1. SegOf(m) = linked /\ linked \in 1 .. MaxSegs
    BY <1>0, Vacant DEF SegOf
  <1>2. segs'[linked].init = i /\ segs'[linked].owner = o
    BY <1>0, <1>1, WrittenIn
  <1> QED BY <1>0, <1>2 DEF OneSegment

\* The segment of an object that is open or opening.
LEMMA Where ==
  ASSUME NEW m, CalmBefore(m), hnd[Proc(m)].at = "held"
  PROVE  SegOf(m) = linked /\ linked \in 1 .. MaxSegs /\ SegOf(m) \in 1 .. MaxSegs
         /\ segs[linked].init \in BOOLEAN /\ segs[linked].owner \in Objs \cup {Nobody}
  <1>0. Proc(m) \in SegHandles /\ SegTypeOK /\ OneSegment
    BY Before
  <1>1. SegOf(m) = linked /\ linked \in 1 .. MaxSegs
    BY <1>0, Vacant DEF SegOf
  <1> QED BY <1>0, <1>1, OwnerChange

\* *h_ = A0_EMPTY: nobody has locked it.
LEMMA CalmWipe ==
  ASSUME NEW m, CalmBefore(m), open_wipe(m)
  PROVE  CalmSync'
  <1> DEFINE p == Proc(m)
  <1>0. /\ m \in Objs /\ p \in SegHandles /\ SegTypeOK /\ SyncTypeOK /\ Registry /\ ObjOK(m) /\ AloneIn
        /\ RegOK(p) /\ Prepared /\ SemOK /\ CalmSync /\ (\A n \in Objs : ObjOK(n)) /\ kind \in Kinds /\ Alone(m)
    BY Before DEF CalmBefore, open_wipe
  <1>1. /\ obj[m].pc = "wipe" /\ UNCHANGED <<kind, linked, created, hnd, raced, reg, sem, crossed>> /\ Goto(m, "made")
        /\ kind # "sem" /\ ~Posix
    BY <1>0, PcFacts DEF open_wipe, Posix
  <1>2. obj[m].ptr = "null" /\ reg[p].lock = m /\ ~reg[p].on /\ obj[m].holds = 0 /\ hnd[p].at = "held"
    BY <1>0, <1>1 DEF ObjOK, Opening
  <1>3. SegOf(m) = linked /\ SegOf(m) \in 1 .. MaxSegs /\ segs[linked].init \in BOOLEAN
    BY <1>2, Where
  <1>4. Written(SegOf(m), segs[linked].init, Nobody)
    BY <1>0, <1>3, OpenWipe
  <1>5. OneSegment' /\ segs'[linked'].init = segs[linked].init /\ segs'[linked'].owner = Nobody
    BY <1>1, <1>2, <1>3, <1>4, Touched
  <1>6. Go(m, "made")
    BY <1>0, <1>1, Goes DEF Go, Pcs
  <1>7. /\ Apart(m) /\ obj'[m].pc = "made" /\ obj'[m].ptr = "null" /\ obj'[m].holds = 0
        /\ (Mutex <=> Mutex') /\ (Posix <=> Posix')
    BY <1>1, <1>2, <1>6 DEF Go, Turns, Apart, Mutex, Posix
  <1>8. Others(m) = {}
    BY <1>0, <1>2, NoneOn DEF Alone
  <1>9. \A n \in Objs : n # m /\ Proc(n) = p => ObjOK(n)'
    <2>1. \A n \in Objs : n # m /\ Proc(n) = p => obj[n].pc = "idle" /\ obj[n].ptr = "null"
      BY <1>0, <1>2, <1>8, PeersGone DEF Alone
    <2> QED BY <1>0, <1>7, <2>1, NullOK
  <1>10. ObjOK(m)'
    BY <1>1, <1>2, <1>7 DEF ObjOK, Opening, Departing
  <1>11. RegOK(p)'
    <2>1. m \notin Tally(p) /\ m \notin Tally(p)'
      BY <1>2, <1>7 DEF Tally
    <2> QED BY <1>0, <1>1, <1>7, <2>1, RegStays
  <1>12. AloneIn'
    BY <1>0, <1>1, <1>7, AloneStays
  <1>13. Prepared' /\ SemOK'
    BY <1>1, <1>7, NoSem DEF Prepared
  <1>14. \A n \in Objs : Proc(n) # p =>
           /\ hnd[Proc(n)].at = "held" /\ segs[linked].init => segs'[linked'].init
           /\ obj[n].holds # 0 => segs'[linked'].owner = n
    BY <1>0, <1>1, <1>5, ProcIn, UserHolds DEF AloneIn
  <1> QED BY <1>0, <1>5, <1>7, <1>9, <1>10, <1>11, <1>12, <1>13, <1>14, Combine

\* What holds of the rest once the object is initialised.
LEMMA PreparedNow ==
  ASSUME NEW m \in Objs, Apart(m), Prepared, segs'[linked'].init, obj[m].pc = "init", obj'[m].pc \notin {"chk", "init"},
         Mutex => obj[m].ptr = "live", \A n \in Objs : ObjOK(n)
  PROVE  Prepared'
  <1> SUFFICES ASSUME Posix PROVE Prepared'
    BY DEF Prepared, Apart, Posix
  <1>1. kind' = kind /\ (Mutex <=> Mutex') /\ \A n \in Objs : n # m => obj'[n] = obj[n]
    BY DEF Apart, Mutex
  <1>2. \A n \in Objs : obj'[n].pc = "chk" => obj'[n].self \in Nat
    BY <1>1 DEF Prepared
  <1>3. ASSUME NEW n \in Objs, Mutex, obj'[n].pc = "init" \/ (obj'[n].pc = "chk" /\ obj'[n].self = 0), NEW x \in Others(n)'
        PROVE  obj'[x].pc \in {"add", "keep"}
    <2>1. n # m /\ obj'[n] = obj[n] /\ \A y \in Others(n) : obj[y].pc \in {"add", "keep"}
      BY <1>1, <1>3 DEF Prepared
    <2>2. m \notin Others(n)
      BY <2>1
    <2>3. x # m
      BY <1>3, <2>1, <2>2 DEF Others
    <2>4. x \in Others(n) /\ obj'[x] = obj[x]
      BY <1>1, <2>3 DEF Others
    <2> QED BY <2>1, <2>4
  <1> QED BY <1>1, <1>2, <1>3 DEF Prepared

\* pthread_mutex_init and pthread_cond_init: nobody has locked it.
LEMMA CalmInit ==
  ASSUME NEW m, CalmBefore(m), open_init(m) \/ init_cond(m)
  PROVE  CalmSync'
  <1> DEFINE p == Proc(m)
  <1>0. /\ m \in Objs /\ p \in SegHandles /\ SegTypeOK /\ SyncTypeOK /\ Registry /\ ObjOK(m) /\ AloneIn
        /\ RegOK(p) /\ Prepared /\ SemOK /\ CalmSync /\ (\A n \in Objs : ObjOK(n)) /\ kind \in Kinds /\ Alone(m)
    BY Before DEF CalmBefore, open_init, init_cond, Initialise
  <1>1. PICK a : a = (IF Mutex THEN "idle" ELSE "made") /\ Initialise(m, a)
    <2>1. CASE open_init(m)
      BY <2>1 DEF open_init, Mutex
    <2>2. CASE init_cond(m)
      BY <2>2 DEF init_cond, Mutex
    <2> QED BY <2>1, <2>2
  <1>2. /\ obj[m].pc = "init" /\ UNCHANGED <<kind, linked, created, hnd, raced, reg, sem, crossed>> /\ Goto(m, a)
        /\ kind # "sem" /\ Posix
    BY <1>0, <1>1, PcFacts DEF Initialise, Posix
  <1>3. /\ obj[m].holds = 0 /\ hnd[p].at = "held"
        /\ Mutex => obj[m].ptr = "live" /\ reg[p].on /\ \A n \in Others(m) : obj[n].pc \in {"add", "keep"}
        /\ ~Mutex => obj[m].ptr = "null" /\ reg[p].lock = m /\ ~reg[p].on /\ m \in Single
    BY <1>0, <1>2 DEF ObjOK, Prepared, Alone
  <1>4. SegOf(m) = linked /\ SegOf(m) \in 1 .. MaxSegs
    BY <1>3, Where
  <1>5. Written(SegOf(m), TRUE, Nobody)
    BY <1>0, <1>1, <1>4, InitialiseIn
  <1>6. OneSegment' /\ segs'[linked'].init = TRUE /\ segs'[linked'].owner = Nobody
    <2>1. PICK i \in BOOLEAN : i = TRUE
      OBVIOUS
    <2> QED BY <1>2, <1>3, <1>5, <2>1, Touched
  <1>7. Go(m, a)
    BY <1>0, <1>1, <1>2, Goes DEF Go, Pcs
  <1>8. /\ Apart(m) /\ obj'[m].pc = a /\ obj'[m].ptr = obj[m].ptr /\ obj'[m].holds = 0 /\ a \in {"idle", "made"}
        /\ (Mutex <=> Mutex') /\ (Posix <=> Posix') /\ (Mutex => a = "idle") /\ (~Mutex => a = "made")
    BY <1>1, <1>2, <1>3, <1>7 DEF Go, Turns, Apart, Mutex, Posix
  <1>9. \A n \in Objs : n # m /\ Proc(n) = p => ObjOK(n)'
    <2>1. CASE Mutex
      <3>1. \A n \in Objs : n # m /\ Proc(n) = p => obj[n].holds = 0
        BY <1>0, <1>3, <2>1 DEF ObjOK, Others
      <3> QED BY <1>0, <1>2, <1>6, <1>8, <2>1, <3>1, PeerOK
    <2>2. CASE ~Mutex
      <3>1. \A n \in Objs : n # m /\ Proc(n) = p => obj[n].pc = "idle" /\ obj[n].ptr = "null"
        BY <1>0, <1>3, <2>2, PeersGone
      <3> QED BY <1>0, <1>8, <3>1, NullOK
    <2> QED BY <2>1, <2>2
  <1>10. ObjOK(m)'
    BY <1>2, <1>3, <1>6, <1>8 DEF ObjOK, Opening, Departing
  <1>11. RegOK(p)'
    <2>1. Mutex => m \in Tally(p) /\ m \in Tally(p)'
      BY <1>0, <1>2, <1>3, <1>8 DEF Tally
    <2>2. CASE Mutex
      BY <1>0, <1>2, <1>8, <2>1, <2>2, RegStays
    <2>3. CASE ~Mutex
      BY <1>2, <1>3, <1>8, <2>3, NoReg
    <2> QED BY <2>2, <2>3
  <1>12. AloneIn'
    BY <1>0, <1>2, <1>8, AloneStays
  <1>13. Prepared'
    BY <1>0, <1>2, <1>3, <1>6, <1>8, PreparedNow
  <1>14. SemOK'
    BY <1>2, NoSem
  <1>15. \A n \in Objs : Proc(n) # p =>
           /\ hnd[Proc(n)].at = "held" /\ segs[linked].init => segs'[linked'].init
           /\ obj[n].holds # 0 => segs'[linked'].owner = n
    BY <1>0, <1>2, <1>6, ProcIn, UserHolds DEF AloneIn
  <1> QED BY <1>0, <1>6, <1>8, <1>9, <1>10, <1>11, <1>12, <1>13, <1>14, <1>15, Combine

\* pthread_mutex_destroy and pthread_cond_destroy, when nobody else is there.
LEMMA CalmDestroy ==
  ASSUME NEW m, CalmBefore(m), destroy(m)
  PROVE  CalmSync'
  <1> DEFINE p == Proc(m)
  <1>0. /\ m \in Objs /\ p \in SegHandles /\ SegTypeOK /\ SyncTypeOK /\ Registry /\ ObjOK(m) /\ AloneIn
        /\ RegOK(p) /\ Prepared /\ SemOK /\ CalmSync /\ (\A n \in Objs : ObjOK(n)) /\ kind \in Kinds /\ Alone(m)
    BY Before DEF CalmBefore, destroy
  <1>1. PICK a : a = (IF obj[m].pc = "destroy" THEN "erase" ELSE "clear") /\ Goto(m, a)
    BY DEF destroy
  <1>2. /\ obj[m].pc \in {"destroy", "cleardestroy"} /\ UNCHANGED <<kind, linked, created, hnd, raced, reg, sem, crossed>>
        /\ kind # "sem" /\ Posix
    BY <1>0, PcFacts DEF destroy, Posix
  <1>3. /\ obj[m].holds = 0 /\ hnd[p].at = "held" /\ Others(m) = {} /\ (Mutex => reg[p].lock = m /\ reg[p].on)
        /\ obj[m].ptr # "dangling" /\ \A g \in SegHandles \ {p} : hnd[g].at # "held"
    BY <1>0, <1>2 DEF ObjOK, Departing, AloneIn
  <1>4. SegOf(m) = linked /\ SegOf(m) \in 1 .. MaxSegs /\ segs[linked].owner \in Objs \cup {Nobody}
    BY <1>3, Where
  <1>5. PICK i \in BOOLEAN : Written(SegOf(m), i, segs[linked].owner)
    BY <1>0, <1>4, DestroyIn
  <1>6. OneSegment' /\ segs'[linked'].owner = segs[linked].owner
    BY <1>2, <1>3, <1>4, <1>5, Touched
  <1>7. Go(m, a)
    BY <1>0, <1>1, Goes DEF Go, Pcs
  <1>8. /\ Apart(m) /\ obj'[m].pc = a /\ obj'[m].ptr = obj[m].ptr /\ obj'[m].holds = 0 /\ a \in {"erase", "clear"}
        /\ (a = "erase" => obj[m].pc = "destroy") /\ (a = "clear" => obj[m].pc = "cleardestroy")
        /\ (Mutex <=> Mutex') /\ (Posix <=> Posix')
    BY <1>1, <1>2, <1>3, <1>7 DEF Go, Turns, Apart, Mutex, Posix
  <1>9. \A n \in Objs : n # m /\ Proc(n) = p => obj[n].pc = "idle" /\ obj[n].ptr = "null"
    BY <1>0, <1>3, PeersGone DEF Alone
  <1>10. \A n \in Objs : n # m /\ Proc(n) = p => ObjOK(n)'
    BY <1>0, <1>8, <1>9, NullOK
  <1>11. Others(m)' = {}
    BY <1>3, <1>8 DEF Others, Apart
  <1>12. ObjOK(m)'
    BY <1>2, <1>3, <1>8, <1>11 DEF ObjOK, Opening, Departing
  <1>13. RegOK(p)'
    <2>1. (m \in Tally(p)) <=> (m \in Tally(p)')
      BY <1>2, <1>8 DEF Tally
    <2> QED BY <1>0, <1>2, <1>8, <2>1, RegStays
  <1>14. AloneIn'
    BY <1>0, <1>2, <1>3, <1>8, AloneStays
  <1>15. \A n \in Objs : obj'[n].pc \notin {"made", "chk", "init"} \/ (Mutex /\ obj'[n].pc = "made")
    <2> SUFFICES ASSUME NEW n \in Objs, obj'[n].pc \in {"made", "chk", "init"} PROVE FALSE
      OBVIOUS
    <2>1. n # m /\ obj[n].pc \in {"made", "chk", "init"}
      BY <1>8 DEF Apart
    <2>2. hnd[Proc(n)].at = "held"
      BY <1>0, <2>1 DEF ObjOK, Opening
    <2> QED BY <1>3, <1>9, <2>1, <2>2, ProcIn
  <1>16. Unready(m)'
    BY <1>8 DEF Unready, Departing
  <1>17. Prepared'
    <2>1. \A q \in SegHandles : hnd'[q].at = "held" => q = p
      BY <1>2, <1>3
    <2>2. \A q \in SegHandles : hnd'[q].at = "held" =>
            /\ \A g \in SegHandles \ {q} : hnd'[g].at # "held"
            /\ \E n \in Objs : Proc(n) = q /\ Unready(n)'
      BY <1>0, <1>16, <2>1
    <2> QED BY <1>8, <1>15, <2>2 DEF Prepared
  <1>18. SemOK'
    BY <1>2, NoSem
  <1>19. \A n \in Objs : Proc(n) # p =>
           /\ hnd[Proc(n)].at = "held" /\ segs[linked].init => segs'[linked'].init
           /\ obj[n].holds # 0 => segs'[linked'].owner = n
    BY <1>0, <1>3, ProcIn, UserHolds
  <1> QED BY <1>0, <1>6, <1>8, <1>10, <1>12, <1>13, <1>14, <1>17, <1>18, <1>19, Combine

\* lock and unlock: the owner is who holds it.
LEMMA CalmHold ==
  ASSUME NEW m, CalmBefore(m), lock(m) \/ unlock(m)
  PROVE  CalmSync'
  <1> DEFINE p == Proc(m)
  <1>0. /\ m \in Objs /\ p \in SegHandles /\ SegTypeOK /\ SyncTypeOK /\ ObjOK(m) /\ AloneIn
        /\ RegOK(p) /\ Prepared /\ SemOK /\ CalmSync /\ (\A n \in Objs : ObjOK(n)) /\ obj[m].ptr = "live"
    BY Before DEF CalmBefore, lock, unlock, valid
  <1>1. /\ obj[m].pc = "idle" /\ Mutex /\ hnd[p].at = "held" /\ kind # "sem"
        /\ UNCHANGED <<kind, linked, created, hnd, raced, reg, sem, crossed>>
    BY DEF lock, unlock, valid, Mutex
  <1>2. /\ SegOf(m) = linked /\ SegOf(m) \in 1 .. MaxSegs /\ segs[linked].init \in BOOLEAN
        /\ SegOf(m) \in 0 .. MaxSegs
    BY <1>1, Where
  <1>3. PICK d \in 0 .. MaxSegs, o \in Objs \cup {Nobody} :
          /\ obj' = [obj EXCEPT ![m].holds = d] /\ Written(SegOf(m), segs[linked].init, o)
          /\ (d # 0 => o = m)
          /\ \A n \in Objs : n # m => obj[n].holds = 0
    <2>1. CASE lock(m)
      <3>1. segs[linked].owner = Nobody
        BY <1>2, <2>1 DEF lock
      <3>2. \A n \in Objs : n # m => obj[n].holds = 0
        BY <1>0, <3>1, UserHolds, NobodyIsNot
      <3>3. obj' = [obj EXCEPT ![m].holds = SegOf(m)]
        BY <2>1 DEF lock
      <3>4. Written(SegOf(m), segs[linked].init, m)
        BY <1>0, <1>2, <2>1, LockIn
      <3> QED BY <1>0, <1>2, <3>2, <3>3, <3>4
    <2>2. CASE unlock(m)
      <3>1. segs[linked].owner = m
        BY <1>0, <2>2, UserHolds DEF unlock
      <3>2. \A n \in Objs : n # m => obj[n].holds = 0
        BY <1>0, <3>1, UserHolds
      <3>3. obj' = [obj EXCEPT ![m].holds = 0]
        BY <2>2 DEF unlock
      <3>4. Written(SegOf(m), segs[linked].init, Nobody)
        BY <1>0, <1>2, <2>2, <3>1, UnlockIn
      <3>5. 0 \in 0 .. MaxSegs /\ Nobody \in Objs \cup {Nobody}
        BY SegmentAssumption
      <3>6. \E d \in 0 .. MaxSegs : d = 0
        BY <3>5
      <3>7. PICK d \in 0 .. MaxSegs : d = 0
        BY <3>6
      <3>8. PICK o \in Objs \cup {Nobody} : o = Nobody
        BY <3>5
      <3> QED BY <3>2, <3>3, <3>4, <3>7, <3>8
    <2> QED BY <2>1, <2>2
  <1>4. OneSegment' /\ segs'[linked'].init = segs[linked].init /\ segs'[linked'].owner = o
    BY <1>1, <1>2, <1>3, Touched
  <1>5. Turns(m, "idle", "live", obj[m].self, d)
    BY <1>0, <1>1, <1>3, HoldsOn
  <1>6. /\ Apart(m) /\ obj'[m].pc = "idle" /\ obj'[m].ptr = "live" /\ obj'[m].holds = d
        /\ (Mutex <=> Mutex') /\ (Posix <=> Posix')
    BY <1>1, <1>5 DEF Turns, Apart, Mutex, Posix
  <1>7. \A n \in Objs : n # m /\ Proc(n) = p => ObjOK(n)'
    BY <1>0, <1>1, <1>3, <1>4, <1>6, PeerOK
  <1>8. reg[p].on /\ (Posix => segs[linked].init)
    BY <1>0, <1>1 DEF ObjOK
  <1>9. ObjOK(m)'
    BY <1>1, <1>3, <1>4, <1>6, <1>8 DEF ObjOK, Opening, Departing
  <1>10. RegOK(p)'
    <2>1. m \in Tally(p) /\ m \in Tally(p)'
      BY <1>0, <1>1, <1>6 DEF Tally
    <2> QED BY <1>0, <1>1, <1>6, <2>1, RegStays
  <1>11. AloneIn'
    BY <1>0, <1>1, <1>6, AloneStays
  <1>12. ~Unready(m) /\ ~First(m)'
    BY <1>1, <1>6 DEF Unready, Departing, First
  <1>13. Prepared'
    BY <1>0, <1>1, <1>4, <1>6, <1>12, PreparedStays
  <1>14. SemOK'
    BY <1>1, NoSem
  <1>15. \A n \in Objs : Proc(n) # p =>
           /\ hnd[Proc(n)].at = "held" /\ segs[linked].init => segs'[linked'].init
           /\ obj[n].holds # 0 => segs'[linked'].owner = n
    BY <1>3, <1>4
  <1> QED BY <1>0, <1>4, <1>6, <1>7, <1>9, <1>10, <1>11, <1>13, <1>14, <1>15, Combine

\* The entry leaves the registry, or the object its segment.
LEMMA CalmErase ==
  ASSUME NEW m, CalmBefore(m), erase(m) \/ clear_shm(m), ~raced'
  PROVE  CalmSync'
  <1> DEFINE p == Proc(m)
  <1>0. /\ m \in Objs /\ p \in SegHandles /\ SegTypeOK /\ SyncTypeOK /\ Registry /\ ObjOK(m) /\ AloneIn
        /\ RegOK(p) /\ Prepared /\ SemOK /\ CalmSync /\ OneSegment /\ (\A n \in Objs : ObjOK(n)) /\ Alone(m)
    BY Before DEF CalmBefore, erase, clear_shm
  <1>1. obj[m].pc \in {"erase", "clear"} /\ Gone(m) /\ UNCHANGED <<reg, sem, crossed, kind>>
    BY DEF erase, clear_shm, release, remove
  <1>2. /\ obj[m].ptr # "dangling" /\ obj[m].holds = 0 /\ hnd[p].at = "held" /\ Others(m) = {}
        /\ (Mutex => reg[p].lock = m /\ reg[p].on)
    BY <1>0, <1>1 DEF ObjOK, Departing
  <1>3. Go(m, "erased")
    BY <1>0, <1>1, <1>2, GoneEffect
  <1>4. /\ OneSegment' /\ linked' = linked
        /\ hnd'[p].at \in {"null", "unlink"} /\ \A g \in SegHandles \ {p} : hnd'[g] = hnd[g]
        /\ \A t \in 1 .. MaxSegs : segs'[t].init = segs[t].init /\ segs'[t].owner = segs[t].owner
    <2>1. Released(p) \/ Removed(p)
      BY <1>0, ReleaseEffect, RemoveEffect DEF erase, clear_shm
    <2> QED BY <1>0, <1>2, <2>1, OneReleased
  <1>5. linked \in 1 .. MaxSegs
    BY <1>2, Where
  <1>6. segs'[linked'].init = segs[linked].init /\ segs'[linked'].owner = segs[linked].owner
    BY <1>4, <1>5
  <1>7. /\ Apart(m) /\ obj'[m].pc = "erased" /\ obj'[m].ptr = obj[m].ptr /\ obj'[m].holds = 0
        /\ (Mutex <=> Mutex') /\ (Posix <=> Posix')
    BY <1>1, <1>2, <1>3, <1>4 DEF Go, Turns, Apart, Mutex, Posix
  <1>8. \A n \in Objs : n # m /\ Proc(n) = p => obj[n].pc = "idle" /\ obj[n].ptr = "null"
    BY <1>0, <1>2, PeersGone DEF Alone
  <1>9. \A n \in Objs : n # m /\ Proc(n) = p => ObjOK(n)'
    BY <1>0, <1>7, <1>8, NullOK
  <1>10. Others(m)' = {}
    BY <1>2, <1>7 DEF Others, Apart
  <1>11. ObjOK(m)'
    BY <1>1, <1>2, <1>4, <1>7, <1>10 DEF ObjOK, Opening, Departing
  <1>12. RegOK(p)'
    BY <1>0, <1>7 DEF RegOK
  <1>13. \A h \in SegHandles : hnd'[h].at = "held" => h # p /\ hnd[h].at = "held"
    BY <1>4
  <1>14. AloneIn'
    BY <1>0, <1>7, <1>13, AloneStays
  <1>15. Prepared'
    <2> SUFFICES ASSUME Posix PROVE Prepared'
      BY <1>7 DEF Prepared
    <2>1. \A h \in SegHandles : hnd'[h].at = "held" => segs'[linked'].init
      BY <1>0, <1>2, <1>6, <1>13 DEF Prepared
    <2>2. \A n \in Objs : n # m => obj'[n] = obj[n]
      BY <1>7 DEF Apart
    <2>3. ASSUME NEW n \in Objs, Mutex, obj'[n].pc = "init" \/ (obj'[n].pc = "chk" /\ obj'[n].self = 0), NEW x \in Others(n)'
          PROVE  obj'[x].pc \in {"add", "keep"}
      <3>1. n # m /\ obj'[n] = obj[n] /\ \A y \in Others(n) : obj[y].pc \in {"add", "keep"}
        BY <1>0, <1>7, <2>2, <2>3 DEF Prepared
      <3>2. Proc(n) # p
        BY <1>8, <2>3, <3>1
      <3>3. x # m /\ x \in Others(n) /\ obj'[x] = obj[x]
        BY <2>2, <3>2 DEF Others
      <3> QED BY <3>1, <3>3
    <2>4. \A n \in Objs : /\ obj'[n].pc = "made" /\ ~Mutex => segs'[linked'].init
                          /\ obj'[n].pc = "chk" => obj'[n].self \in Nat
                          /\ obj'[n].pc = "chk" /\ obj'[n].self # 0 => segs'[linked'].init
      BY <1>0, <1>6, <1>7, <2>2 DEF Prepared
    <2> QED BY <1>7, <2>1, <2>3, <2>4 DEF Prepared
  <1>16. SemOK'
    <2>1. ~SemUser(m)'
      BY <1>7 DEF SemUser
    <2> QED BY <1>0, <1>1, <1>7, <2>1, SemStays
  <1>17. \A n \in Objs : Proc(n) # p =>
           /\ hnd[Proc(n)].at = "held" /\ segs[linked].init => segs'[linked'].init
           /\ obj[n].holds # 0 => segs'[linked'].owner = n
    BY <1>0, <1>6, UserHolds
  <1> QED BY <1>0, <1>4, <1>7, <1>9, <1>11, <1>12, <1>14, <1>15, <1>16, <1>17, Combine

\* The end of close and clear.
LEMMA CalmClosed ==
  ASSUME NEW m, CalmBefore(m), closed(m)
  PROVE  CalmSync'
  <1> DEFINE p == Proc(m)
  <1>0. /\ m \in Objs /\ p \in SegHandles /\ SegTypeOK /\ SyncTypeOK /\ Registry /\ ObjOK(m) /\ AloneIn
        /\ RegOK(p) /\ Prepared /\ SemOK /\ CalmSync /\ OneSegment /\ (\A n \in Objs : ObjOK(n)) /\ Alone(m)
    BY Before DEF CalmBefore, closed
  <1>1. /\ obj[m].pc \in {"erased", "keep"} /\ UNCHANGED <<sem, crossed, kind>>
        /\ hnd[p].at = "unlink" => unlink(p)
        /\ hnd[p].at # "unlink" => UNCHANGED segVars
        /\ Turns(m, "idle", "null", obj[m].self, obj[m].holds)
        /\ Enters(p, obj[m].pc = "keep", IF obj[m].pc = "keep" THEN reg[p].ref ELSE 0, Nobody)
    BY <1>0, ClosedEffect
  <1>2. /\ obj[m].holds = 0
        /\ obj[m].pc = "keep" => obj[m].ptr = "live" /\ reg[p].lock = m /\ reg[p].on /\ hnd[p].at = "held" /\ Mutex
        /\ obj[m].pc = "erased" => hnd[p].at \in {"null", "unlink"} /\ Others(m) = {} /\ (Mutex => reg[p].lock = m /\ reg[p].on)
    BY <1>0, <1>1, PcFacts DEF ObjOK
  <1>3. /\ OneSegment' /\ \A h \in SegHandles : hnd'[h] = hnd[h] \/ (hnd'[h].at = "null" /\ hnd[h].at = "unlink" /\ h = p)
        /\ segs' = segs /\ (linked' = linked \/ \A h \in SegHandles : hnd'[h].at = "null")
    <2>1. CASE hnd[p].at = "unlink"
      <3>1. unlink(p) /\ OneSegment' /\ \A h \in SegHandles : hnd'[h].at = "null"
        BY <1>0, <1>1, <2>1, OneUnlinked
      <3>2. \A h \in SegHandles \ {p} : hnd'[h] = hnd[h]
        BY <1>0, <3>1 DEF unlink, SegTypeOK
      <3> QED BY <2>1, <3>1, <3>2 DEF unlink
    <2>2. CASE hnd[p].at # "unlink"
      BY <1>0, <1>1, <2>2 DEF segVars, OneSegment
    <2> QED BY <2>1, <2>2
  <1>4. /\ Apart(m) /\ obj'[m].pc = "idle" /\ obj'[m].ptr = "null" /\ obj'[m].holds = 0
        /\ (Mutex <=> Mutex') /\ (Posix <=> Posix') /\ (reg'[p].on <=> obj[m].pc = "keep") /\ reg'[p].lock = Nobody
        /\ (obj[m].pc = "keep" => reg'[p].ref = reg[p].ref) /\ (obj[m].pc = "erased" => reg'[p].ref = 0)
    BY <1>1, <1>2, <1>3 DEF Turns, Enters, Apart, Mutex, Posix
  <1>5. \A h \in SegHandles : (hnd'[h].at = "held") <=> (hnd[h].at = "held")
    BY <1>3
  <1>6. (\E h \in SegHandles : hnd[h].at = "held") => linked' = linked
    BY <1>3, <1>5
  <1>7. \A n \in Objs : n # m /\ Proc(n) = p => ObjOK(n)'
    <2>1. CASE obj[m].pc = "keep"
      <3>1. hnd'[p] = hnd[p] /\ linked' = linked /\ reg'[p].on
        BY <1>0, <1>2, <1>3, <1>4, <1>6, <2>1
      <3> QED BY <1>0, <1>2, <1>3, <1>4, <2>1, <3>1, PeerOK, UserHolds
    <2>2. CASE obj[m].pc = "erased"
      <3>1. \A n \in Objs : n # m /\ Proc(n) = p => obj[n].pc = "idle" /\ obj[n].ptr = "null"
        BY <1>0, <1>2, <2>2, PeersGone DEF Alone
      <3> QED BY <1>0, <1>4, <3>1, NullOK
    <2> QED BY <1>1, <2>1, <2>2
  <1>8. ObjOK(m)'
    BY <1>4 DEF ObjOK, Opening, Departing
  <1>9. RegOK(p)'
    <2>1. CASE obj[m].pc = "keep"
      <3>1. m \notin Tally(p) /\ m \notin Tally(p)'
        BY <1>4, <2>1 DEF Tally
      <3>2. hnd[p].at = "held" => hnd'[p].at = "held"
        BY <1>0, <1>5
      <3> QED BY <1>0, <1>2, <1>4, <2>1, <3>1, <3>2, RegStays
    <2>2. CASE obj[m].pc = "erased"
      <3>1. \A n \in Objs : n # m /\ Proc(n) = p => obj[n].pc = "idle" /\ obj[n].ptr = "null"
        BY <1>0, <1>2, <2>2, PeersGone DEF Alone
      <3>2. Tally(p)' = {}
        BY <1>4, <3>1 DEF Tally, Apart
      <3>3. Cardinality({}) = 0
        BY FS_EmptySet
      <3> QED BY <1>4, <2>2, <3>2, <3>3 DEF RegOK
    <2> QED BY <1>1, <2>1, <2>2
  <1>10. AloneIn'
    BY <1>0, <1>4, <1>5, AloneStays
  <1>11. ~Unready(m) /\ ~First(m)'
    BY <1>1, <1>4 DEF Unready, Departing, First
  <1>12. Prepared'
    BY <1>0, <1>3, <1>4, <1>5, <1>6, <1>11, PreparedStays
  <1>13. SemOK'
    <2>1. ~SemUser(m)'
      BY <1>4 DEF SemUser
    <2> QED BY <1>0, <1>1, <1>4, <2>1, SemStays
  <1>14. \A n \in Objs : Proc(n) # p =>
           /\ hnd[Proc(n)].at = "held" /\ segs[linked].init => segs'[linked'].init
           /\ obj[n].holds # 0 => segs'[linked'].owner = n
    BY <1>0, <1>3, <1>6, UserHolds, ProcIn
  <1> QED BY <1>0, <1>3, <1>4, <1>7, <1>8, <1>9, <1>10, <1>12, <1>13, <1>14, Combine

\* A semaphore's step, which nobody's mutex can see.
LEMMA SemCalm ==
  ASSUME NEW m, CalmBefore(m), kind = "sem", m \in Single, Apart(m), OneSegment', AloneIn', ObjOK(m)', SemOK',
         ~reg'[Proc(m)].on
  PROVE  CalmSync'
  <1>0. /\ m \in Objs /\ SyncTypeOK /\ Registry /\ CalmSync /\ (\A n \in Objs : ObjOK(n))
    BY Before DEF CalmBefore
  <1>1. ~Mutex /\ ~Posix /\ ~Mutex' /\ ~Posix' /\ kind' = kind
    BY DEF Mutex, Posix, Apart
  <1>2. \A n \in Objs : n # m /\ Proc(n) = Proc(m) => obj[n].pc = "idle" /\ obj[n].ptr = "null"
    BY <1>0, <1>1, PeersGone
  <1>3. ASSUME NEW n \in Objs, n # m, Proc(n) # Proc(m) PROVE ObjOK(n)'
    <2>1. obj'[n] = obj[n] /\ reg'[Proc(n)] = reg[Proc(n)] /\ hnd'[Proc(n)] = hnd[Proc(n)]
      BY <1>3, ProcIn DEF Apart
    <2>2. Others(n)' = Others(n)
      BY <1>3 DEF Others, Apart
    <2> QED BY <1>0, <1>1, <2>1, <2>2 DEF ObjOK
  <1>4. \A n \in Objs : ObjOK(n)'
    BY <1>0, <1>2, <1>3, NullOK
  <1>5. \A q \in SegHandles : ~reg'[q].on
    BY <1>0, <1>1 DEF Registry, NoRegistry, Apart
  <1>6. \A q \in SegHandles : RegOK(q)'
    BY <1>1, <1>5 DEF RegOK
  <1> QED BY <1>1, <1>4, <1>6 DEF CalmSync, Prepared

\* The name goes when nobody has a handle: nobody works with it.
LEMMA CalmName ==
  ASSUME NEW m, CalmBefore(m), clear_name(m), ~raced'
  PROVE  CalmSync'
  <1>0. /\ m \in Objs /\ SyncTypeOK /\ CalmSync /\ OneSegment /\ AloneIn /\ Prepared /\ SemOK
        /\ (\A n \in Objs : ObjOK(n)) /\ (\A q \in SegHandles : RegOK(q)) /\ Proc(m) \in SegHandles
    BY Before DEF CalmBefore, CalmSync
  <1>1. /\ UNCHANGED <<kind, hnd, segs, reg, obj, crossed>> /\ sem' = [sem EXCEPT !.name = 0]
        /\ \A h \in SegHandles : hnd[h].at = "null"
    BY DEF clear_name, clear_storage
  <1>2. (Mutex <=> Mutex') /\ (Posix <=> Posix') /\ \A n \in Objs : Others(n)' = Others(n) /\ (SemUser(n)' <=> SemUser(n))
    BY <1>1 DEF Mutex, Posix, Others, SemUser
  <1>3. OneSegment'
    BY <1>0, <1>1 DEF OneSegment
  <1>4. \A n \in Objs : hnd[Proc(n)].at = "null"
    BY <1>1, ProcIn
  <1>5. \A n \in Objs : obj[n].holds = 0 /\ ~SemUser(n) /\ obj[n].pc \notin {"made", "chk", "init"}
    BY <1>0, <1>4 DEF ObjOK, SemUser, Opening, Mutex
  <1>6. \A n \in Objs : ObjOK(n)'
    <2> TAKE n \in Objs
    <2>1. ObjOK(n) /\ hnd[Proc(n)].at = "null" /\ obj[n].holds = 0 /\ obj' = obj /\ reg' = reg /\ hnd' = hnd
          /\ Others(n)' = Others(n)
      BY <1>0, <1>1, <1>2, <1>4, <1>5
    <2> QED BY <1>2, <2>1 DEF ObjOK, Opening, Departing
  <1>7. \A q \in SegHandles : RegOK(q)'
    BY <1>0, <1>1, <1>2 DEF RegOK, Tally
  <1>8. AloneIn'
    BY <1>0, <1>1 DEF AloneIn
  <1>9. Prepared'
    BY <1>1, <1>5 DEF Prepared
  <1>10. sem'.name = 0
    <2>1. sem' = Sem(0, sem.made, sem.net, sem.val, sem.of)
      BY <1>0, <1>1, SemForgets
    <2> QED BY <2>1, SemFields
  <1>11. SemOK'
    BY <1>2, <1>5, <1>10 DEF SemOK
  <1> QED BY <1>3, <1>6, <1>7, <1>8, <1>9, <1>11 DEF CalmSync

\* semaphore::post and wait: the value and what was posted go together.
LEMMA CalmPost ==
  ASSUME NEW m, CalmBefore(m), post(m) \/ wait(m)
  PROVE  CalmSync'
  <1> DEFINE s == sem.of[Proc(m)]
  <1>0. /\ m \in Objs /\ SyncTypeOK /\ Registry /\ CalmSync /\ OneSegment /\ AloneIn /\ SemOK /\ ObjOK(m) /\ Alone(m)
        /\ Proc(m) \in SegHandles
    BY Before DEF CalmBefore, post, wait
  <1>1. /\ kind = "sem" /\ obj[m].pc = "idle" /\ obj[m].ptr = "live" /\ UNCHANGED <<segVars, reg, obj, crossed>>
    BY DEF post, wait
  <1>2. s = sem.name /\ sem.name # 0 /\ sem.val[sem.name] = SemCount + sem.net
    BY <1>0, <1>1 DEF SemOK, SemUser
  <1>3. sem.name \in 1 .. MaxSegs /\ sem.val \in [1 .. MaxSegs -> Int] /\ sem.net \in Int
    BY <1>0, <1>2, SegmentAssumption DEF SyncTypeOK, SemRecords
  <1>4. PICK i \in {1, 0 - 1} : sem' = [sem EXCEPT !.val[s] = sem.val[s] + i, !.net = sem.net + i]
    <2>1. CASE post(m)
      BY <2>1 DEF post
    <2>2. CASE wait(m)
      <3>1. sem' = [sem EXCEPT !.val[s] = sem.val[s] - 1, !.net = sem.net - 1]
        BY <2>2 DEF wait
      <3>2. sem.val[s] - 1 = sem.val[s] + (0 - 1) /\ sem.net - 1 = sem.net + (0 - 1)
        <4>0. sem.val[sem.name] \in Int
          BY <1>3
        <4>1. sem.val[s] \in Int
          BY <1>2, <4>0
        <4>2. \A z \in Int : z - 1 = z + (0 - 1)
          OBVIOUS
        <4> QED BY <1>3, <4>1, <4>2
      <3> QED BY <3>1, <3>2
    <2> QED BY <2>1, <2>2
  <1>5. PICK x, y : x = sem.val[s] + i /\ y = sem.net + i
    OBVIOUS
  <1>6. sem' = Sem(sem.name, sem.made, y, [sem.val EXCEPT ![s] = x], sem.of)
    BY <1>0, <1>4, <1>5, Posts
  <1>7. sem'.name = sem.name /\ sem'.net = y /\ sem'.val = [sem.val EXCEPT ![s] = x] /\ sem'.of = sem.of
    BY <1>6, SemFields
  <1>8. sem'.val[sem'.name] = SemCount + sem'.net
    <2>1. sem'.val[sem'.name] = x
      BY <1>2, <1>3, <1>7
    <2>2. \A b, c, d \in Int : (b + c) + d = b + (c + d)
      OBVIOUS
    <2>3. sem.val[s] = SemCount + sem.net /\ SemCount \in Int /\ i \in Int
      BY <1>2, <1>4, SyncAssumption
    <2> QED BY <1>3, <1>5, <1>7, <2>1, <2>2, <2>3
  <1>9. kind' = kind /\ obj' = obj /\ reg' = reg /\ hnd' = hnd /\ linked' = linked
    BY <1>1 DEF segVars
  <1>10. SemOK'
    BY <1>0, <1>7, <1>8, <1>9 DEF SemOK, SemUser
  <1>11. Apart(m) /\ OneSegment' /\ AloneIn'
    BY <1>0, <1>9 DEF Apart, OneSegment, AloneIn
  <1>12. m \in Single /\ ~reg[Proc(m)].on /\ ~Mutex /\ ~Posix /\ ~Mutex' /\ ~Posix'
    BY <1>0, <1>1, <1>9 DEF Mutex, Posix, Alone, Registry, NoRegistry
  <1>13. ObjOK(m)'
    BY <1>0, <1>9, <1>12 DEF ObjOK, Others
  <1> QED BY <1>1, <1>9, <1>10, <1>11, <1>12, <1>13, SemCalm

\* sem_open: who opens the semaphore joins its users, or is the first.
LEMMA CalmSemOpen ==
  ASSUME NEW m, CalmBefore(m), sem_open(m), ~crossed'
  PROVE  CalmSync'
  <1> DEFINE p == Proc(m)
  <1>0. /\ m \in Objs /\ SyncTypeOK /\ Registry /\ CalmSync /\ OneSegment /\ AloneIn /\ SemOK /\ ObjOK(m) /\ Alone(m)
        /\ p \in SegHandles
    BY Before DEF CalmBefore, sem_open
  <1>1. /\ obj[m].pc = "semopen" /\ kind = "sem" /\ Goto(m, "made") /\ UNCHANGED <<segVars, reg>>
        /\ \A n \in Single : obj[n].pc \notin {"semunlink", "clear"}
    BY <1>0, PcFacts DEF sem_open
  <1>2. m \in Single /\ ~reg[p].on /\ ~Mutex
    BY <1>0, <1>1 DEF Mutex, Alone, Registry, NoRegistry
  <1>3. PICK s : s = (IF sem.name = 0 THEN sem.made + 1 ELSE sem.name) /\ s <= MaxSegs
    BY DEF sem_open
  <1>4. s \in 1 .. MaxSegs
    BY <1>0, <1>3, SegmentAssumption DEF SyncTypeOK, SemRecords
  <1>5. sem' = Sem(s, IF sem.name = 0 THEN s ELSE sem.made, IF sem.name = 0 THEN 0 ELSE sem.net,
                    [sem.val EXCEPT ![s] = IF sem.name = 0 THEN SemCount ELSE sem.val[s]], [sem.of EXCEPT ![p] = s])
    BY <1>0, <1>3, SemOpens
  <1>6. /\ sem'.name = s /\ sem'.net = (IF sem.name = 0 THEN 0 ELSE sem.net)
        /\ sem'.val = [sem.val EXCEPT ![s] = IF sem.name = 0 THEN SemCount ELSE sem.val[s]] /\ sem'.of = [sem.of EXCEPT ![p] = s]
    BY <1>5, SemFields
  <1>7. sem.val \in [1 .. MaxSegs -> Int] /\ sem.of \in [SegHandles -> 0 .. MaxSegs] /\ sem.net \in Int
    BY <1>0 DEF SyncTypeOK, SemRecords
  <1>8. sem'.val[s] = SemCount + sem'.net
    <2>1. CASE sem.name = 0
      <3>1. sem'.val[s] = SemCount /\ sem'.net = 0
        BY <1>4, <1>6, <1>7, <2>1
      <3>2. SemCount + 0 = SemCount
        BY SyncAssumption
      <3> QED BY <3>1, <3>2
    <2>2. CASE sem.name # 0
      BY <1>0, <1>1, <1>3, <1>4, <1>6, <1>7, <2>2 DEF SemOK
    <2> QED BY <2>1, <2>2
  <1>9. Go(m, "made")
    BY <1>0, <1>1, Goes DEF Go, Pcs
  <1>10. kind' = kind /\ hnd' = hnd /\ linked' = linked /\ reg' = reg
    BY <1>1 DEF segVars
  <1>11. /\ Apart(m) /\ obj'[m].pc = "made" /\ obj'[m].ptr = obj[m].ptr /\ obj'[m].holds = obj[m].holds
         /\ ~Mutex' /\ ~Posix'
    BY <1>1, <1>9, <1>10 DEF Go, Turns, Apart, Mutex, Posix
  <1>12. /\ obj[m].ptr = "null" /\ reg[p].lock = m /\ hnd[p].at = "held" /\ obj[m].holds = 0
    BY <1>0, <1>1 DEF ObjOK, Opening
  <1>13. ObjOK(m)'
    BY <1>2, <1>10, <1>11, <1>12 DEF ObjOK, Opening, Departing
  <1>14. OneSegment'
    BY <1>0, <1>10 DEF OneSegment
  <1>15. AloneIn'
    BY <1>0, <1>10, <1>11, AloneStays
  <1>16. \A n \in Objs : obj[n].pc \notin {"semunlink", "clear"}
    BY <1>0, <1>1, <1>2 DEF Registry, Alone
  <1>17. \A n \in Objs : n # m => obj'[n] = obj[n]
    BY <1>11 DEF Apart
  <1>18. \A n \in Objs : n # m /\ SemUser(n)' => sem'.of[Proc(n)] = s
    <2> SUFFICES ASSUME NEW n \in Objs, n # m, SemUser(n)' PROVE sem'.of[Proc(n)] = s
      OBVIOUS
    <2>1. SemUser(n)
      BY <1>17 DEF SemUser
    <2>2. sem.name # 0 /\ sem.of[Proc(n)] = sem.name
      BY <1>0, <1>1, <2>1 DEF SemOK
    <2> QED BY <1>3, <1>6, <1>7, <2>2, ProcIn
  <1>19. SemOK'
    <2>1. s # 0 /\ sem'.of[p] = s
      BY <1>0, <1>4, <1>6, <1>7
    <2>2. \A n \in Objs : SemUser(n)' => sem'.of[Proc(n)] = sem'.name
      BY <1>6, <1>18, <2>1
    <2>3. \A n \in Objs : obj'[n].pc \notin {"semunlink", "clear"}
      BY <1>11, <1>16, <1>17
    <2> QED BY <1>6, <1>8, <2>1, <2>2, <2>3 DEF SemOK
  <1> QED BY <1>1, <1>2, <1>10, <1>11, <1>13, <1>14, <1>15, <1>19, SemCalm

\* semaphore::close: who is told it is the last has no other user beside it.
LEMMA CalmSemClose ==
  ASSUME NEW m, CalmBefore(m), close_sem(m), ~raced'
  PROVE  CalmSync'
  <1> DEFINE p == Proc(m)
  <1>0. /\ m \in Objs /\ SyncTypeOK /\ SegTypeOK /\ Registry /\ CalmSync /\ OneSegment /\ AloneIn /\ SemOK /\ ObjOK(m)
        /\ (\A n \in Objs : ObjOK(n)) /\ p \in SegHandles /\ (obj[m].ptr # "null" => Alone(m))
    BY Before DEF CalmBefore
  <1>1. /\ kind = "sem" /\ obj[m].pc = "idle" /\ obj[m].ptr = "live" /\ obj[m].holds = 0 /\ ~Mutex /\ release(p)
        /\ sem' = [sem EXCEPT !.of[p] = 0] /\ reg' = reg /\ kind' = kind
    BY DEF close_sem, MayClose, Mutex, release
  <1>2. m \in Single /\ ~reg[p].on /\ hnd[p].at = "held"
    BY <1>0, <1>1 DEF Alone, Registry, NoRegistry, ObjOK
  <1>3. PICK a : a = IF get_ref(p) <= 1 THEN "semunlink" ELSE "erased"
    OBVIOUS
  <1>4. Goto(m, a) /\ a \in Pcs /\ a \in {"semunlink", "erased"}
    BY <1>3 DEF close_sem, Pcs
  <1>5. Go(m, a)
    BY <1>0, <1>4, Goes DEF Go
  <1>6. /\ OneSegment' /\ hnd'[p].at \in {"null", "unlink"} /\ \A g \in SegHandles \ {p} : hnd'[g] = hnd[g]
    BY <1>0, <1>1, <1>2, ReleaseEffect, OneReleased
  <1>7. /\ Apart(m) /\ obj'[m].pc = a /\ obj'[m].ptr = "live" /\ obj'[m].holds = 0 /\ ~Mutex' /\ ~Posix'
    BY <1>1, <1>5, <1>6 DEF Go, Turns, Apart, Mutex, Posix
  <1>8. Others(m) = {} /\ Others(m)' = {}
    <2>1. Others(m) = {}
      BY <1>0, <1>1, <1>2, NoneOn
    <2> QED BY <1>7, <2>1 DEF Others, Apart
  <1>9. ObjOK(m)'
    BY <1>4, <1>6, <1>7, <1>8 DEF ObjOK, Opening, Departing
  <1>10. AloneIn'
    BY <1>0, <1>4, <1>6, <1>7, AloneStays
  <1>11. sem'.name = sem.name /\ sem'.net = sem.net /\ sem'.val = sem.val /\ sem'.of = [sem.of EXCEPT ![p] = 0]
    <2>1. sem' = Sem(sem.name, sem.made, sem.net, sem.val, [sem.of EXCEPT ![p] = 0])
      BY <1>0, <1>1, SemForgets
    <2> QED BY <2>1, SemFields
  <1>12. \A n \in Objs : n # m => obj'[n] = obj[n]
    BY <1>7 DEF Apart
  <1>13. \A n \in Objs : SemUser(n)' => SemUser(n) /\ Proc(n) # p /\ n # m
    <2> SUFFICES ASSUME NEW n \in Objs, SemUser(n)' PROVE SemUser(n) /\ Proc(n) # p /\ n # m
      OBVIOUS
    <2>1. n # m
      BY <1>4, <1>7 DEF SemUser
    <2>2. SemUser(n)
      BY <1>12, <2>1 DEF SemUser
    <2>3. Proc(n) = p => obj[n].pc = "idle" /\ obj[n].ptr = "null"
      BY <1>0, <1>1, <1>2, <2>1, PeersGone
    <2> QED BY <2>1, <2>2, <2>3 DEF SemUser
  <1>14. \A n \in Objs : SemUser(n)' => sem'.of[Proc(n)] = sem'.name /\ sem'.name # 0
    <2>1. sem.of \in [SegHandles -> 0 .. MaxSegs]
      BY <1>0 DEF SyncTypeOK, SemRecords
    <2> QED BY <1>0, <1>1, <1>11, <1>13, <2>1, ProcIn DEF SemOK
  <1>15. a = "semunlink" => \A n \in Objs : ~SemUser(n)'
    <2>1. \/ get_ref(p) <= 1 /\ ~(get_ref(p) > 1) /\ \A g \in SegHandles \ {p} : hnd[g].at # "held"
          \/ get_ref(p) > 1 /\ ~(get_ref(p) <= 1) /\ \E g \in SegHandles \ {p} : hnd[g].at = "held"
      BY <1>2, RefTells
    <2>2. a = "semunlink" => \A g \in SegHandles \ {p} : hnd[g].at # "held"
      BY <1>3, <2>1
    <2> QED BY <1>0, <1>13, <2>2, UserHolds, ProcIn
  <1>16. (\E n \in Objs : obj'[n].pc \in {"semunlink", "clear"}) => \A n \in Objs : ~SemUser(n)'
    BY <1>0, <1>1, <1>4, <1>7, <1>12, <1>13, <1>15 DEF SemOK
  <1>17. SemOK'
    BY <1>0, <1>1, <1>11, <1>14, <1>16 DEF SemOK
  <1> QED BY <1>1, <1>2, <1>6, <1>7, <1>9, <1>10, <1>17, SemCalm

\* The semaphore's name goes, first the segment's and then its own.
LEMMA CalmSemUnlink ==
  ASSUME NEW m, CalmBefore(m), sem_unlink(m)
  PROVE  CalmSync'
  <1> DEFINE p == Proc(m)
  <1>0. /\ m \in Objs /\ SyncTypeOK /\ SegTypeOK /\ Registry /\ CalmSync /\ OneSegment /\ AloneIn /\ SemOK /\ ObjOK(m)
        /\ (\A n \in Objs : ObjOK(n)) /\ p \in SegHandles /\ Alone(m)
    BY Before DEF CalmBefore, sem_unlink
  <1>1. obj[m].pc = "semunlink" /\ kind = "sem" /\ reg' = reg /\ ~Mutex
    BY <1>0, PcFacts DEF sem_unlink, Mutex
  <1>2. m \in Single /\ ~reg[p].on /\ obj[m].holds = 0 /\ obj[m].ptr # "dangling" /\ hnd[p].at \in {"null", "unlink"}
    BY <1>0, <1>1 DEF Alone, Registry, NoRegistry, ObjOK
  <1>3. \A n \in Objs : ~SemUser(n)
    BY <1>0, <1>1 DEF SemOK
  <1>4. CASE hnd[p].at = "unlink"
    <2>1. unlink(p) /\ obj' = obj /\ sem' = sem /\ OneSegment' /\ kind' = kind
      BY <1>0, <1>4, OneUnlinked DEF sem_unlink, unlink
    <2>2. hnd' = [hnd EXCEPT ![p] = Null] /\ hnd \in [SegHandles -> HandleRecords]
      BY <1>0, <2>1 DEF unlink, SegTypeOK
    <2>3. hnd'[p].at = "null" /\ \A g \in SegHandles \ {p} : hnd'[g] = hnd[g]
      BY <1>0, <2>2 DEF Null
    <2>4. Apart(m) /\ ~Mutex' /\ ~Posix'
      BY <1>1, <2>1, <2>3 DEF Apart, Mutex, Posix
    <2>5. ObjOK(m)'
      BY <1>1, <1>2, <2>1, <2>3, <2>4 DEF ObjOK, Opening, Departing
    <2>6. AloneIn'
      BY <1>0, <1>1, <2>1, <2>3, <2>4, AloneStays
    <2>7. SemOK'
      BY <1>0, <2>1 DEF SemOK, SemUser
    <2> QED BY <1>1, <1>2, <2>1, <2>4, <2>5, <2>6, <2>7, SemCalm
  <1>5. CASE hnd[p].at # "unlink"
    <2>1. sem' = [sem EXCEPT !.name = 0] /\ Goto(m, "erased") /\ UNCHANGED segVars /\ kind' = kind /\ hnd' = hnd /\ linked' = linked
      BY <1>5 DEF sem_unlink, segVars
    <2>2. Go(m, "erased")
      BY <1>0, <2>1, Goes DEF Go, Pcs
    <2>3. /\ Apart(m) /\ ~Mutex' /\ ~Posix' /\ obj'[m].pc = "erased" /\ obj'[m].ptr # "dangling" /\ obj'[m].holds = 0
      BY <1>1, <1>2, <2>1, <2>2 DEF Go, Turns, Apart, Mutex, Posix
    <2>4. Others(m)' = {}
      <3>1. Others(m) = {}
        BY <1>0, <1>1, <1>2, NoneOn
      <3> QED BY <2>3, <3>1 DEF Others, Apart
    <2>5. ObjOK(m)'
      BY <1>2, <2>1, <2>3, <2>4 DEF ObjOK, Opening, Departing
    <2>6. AloneIn' /\ OneSegment'
      BY <1>0, <2>1, <2>3, AloneStays DEF OneSegment
    <2>7. sem'.name = 0
      <3>1. sem' = Sem(0, sem.made, sem.net, sem.val, sem.of)
        BY <1>0, <2>1, SemForgets
      <3> QED BY <3>1, SemFields
    <2>8. \A n \in Objs : ~SemUser(n)'
      BY <1>3, <2>3 DEF SemUser, Apart
    <2>9. SemOK'
      BY <2>7, <2>8 DEF SemOK
    <2> QED BY <1>1, <1>2, <2>3, <2>5, <2>6, <2>9, SemCalm
  <1> QED BY <1>4, <1>5

\* semaphore::clear, when nobody else is there.
LEMMA CalmSemClear ==
  ASSUME NEW m, CalmBefore(m), clear_sem(m), ~crossed'
  PROVE  CalmSync'
  <1> DEFINE p == Proc(m)
  <1>0. /\ m \in Objs /\ SyncTypeOK /\ SegTypeOK /\ Registry /\ CalmSync /\ OneSegment /\ AloneIn /\ SemOK /\ ObjOK(m)
        /\ (\A n \in Objs : ObjOK(n)) /\ p \in SegHandles /\ (obj[m].ptr # "null" => Alone(m)) /\ "clear" \in Pcs
    BY Before DEF CalmBefore, Pcs
  <1>1. /\ kind = "sem" /\ MayClose(m) /\ obj[m].pc = "idle" /\ UNCHANGED segVars /\ ~Shared(m)
        /\ Go(m, "clear") /\ Enters(p, reg[p].on, reg[p].ref, m)
    BY <1>0, ClearEffect DEF clear_sem
  <1>2. /\ obj[m].ptr = "live" /\ obj[m].holds = 0 /\ ~Mutex /\ Others(m) = {}
        /\ \A g \in SegHandles \ {p} : hnd[g].at = "null"
    BY <1>1 DEF MayClose, Mutex, Shared
  <1>3. m \in Single /\ ~reg[p].on /\ hnd[p].at = "held"
    BY <1>0, <1>1, <1>2 DEF Alone, Registry, NoRegistry, ObjOK
  <1>4. kind' = kind /\ hnd' = hnd /\ linked' = linked
    BY <1>1 DEF segVars
  <1>5. /\ Apart(m) /\ ~Mutex' /\ ~Posix' /\ obj'[m].pc = "clear" /\ obj'[m].ptr = "live" /\ obj'[m].holds = 0
        /\ ~reg'[p].on
    BY <1>1, <1>2, <1>3, <1>4 DEF Go, Turns, Enters, Apart, Mutex, Posix
  <1>6. Others(m)' = {}
    BY <1>2, <1>5 DEF Others, Apart
  <1>7. ObjOK(m)'
    BY <1>3, <1>4, <1>5, <1>6 DEF ObjOK, Opening, Departing
  <1>8. AloneIn' /\ OneSegment'
    BY <1>0, <1>2, <1>4, <1>5, AloneStays DEF OneSegment
  <1>9. sem'.name = 0
    <2>1. sem' = Sem(0, sem.made, sem.net, sem.val, [sem.of EXCEPT ![p] = 0])
      BY <1>0, SemForgets DEF clear_sem
    <2> QED BY <2>1, SemFields
  <1>10. \A n \in Objs : ~SemUser(n)'
    <2> SUFFICES ASSUME NEW n \in Objs, SemUser(n)' PROVE FALSE
      OBVIOUS
    <2>1. n # m /\ SemUser(n)
      BY <1>5 DEF SemUser, Apart
    <2>2. hnd[Proc(n)].at = "held"
      BY <1>0, <2>1, UserHolds
    <2>3. Proc(n) = p => obj[n].pc = "idle" /\ obj[n].ptr = "null"
      BY <1>0, <1>2, <1>3, <2>1, PeersGone
    <2> QED BY <1>2, <2>1, <2>2, <2>3, ProcIn DEF SemUser
  <1>11. SemOK'
    BY <1>9, <1>10 DEF SemOK
  <1> QED BY <1>1, <1>3, <1>5, <1>7, <1>8, <1>11, SemCalm

\* What has raced or crossed stays so.
LEMMA Disturbed ==
  ASSUME NEW m, SyncStep(m)
  PROVE  kind' = kind /\ (raced => raced') /\ (crossed => crossed')
  <1> DEFINE Kept == kind' = kind /\ (raced => raced')
             All == Kept /\ (crossed => crossed')
  <1>1. \A h, md : shm_open(h, md) => Kept
    BY DEF shm_open
  <1>2. \A h, i : get_mem(h) \/ count(h, i) => Kept
    <2>1. \A h : get_mem(h) => Kept
      BY DEF get_mem
    <2>2. \A h, i : count(h, i) => Kept
      BY DEF count
    <2> QED BY <2>1, <2>2
  <1>3. \A h : release(h) \/ remove(h) \/ unlink(h) \/ clear_storage => Kept
    <2>1. \A h : release(h) => Kept
      BY DEF release
    <2>2. \A h : remove(h) => Kept
      BY DEF remove
    <2>3. \A h : unlink(h) => Kept
      BY DEF unlink
    <2>4. clear_storage => Kept
      BY DEF clear_storage
    <2> QED BY <2>1, <2>2, <2>3, <2>4
  <1>4. UNCHANGED segVars => Kept
    BY DEF segVars
  <1>5. Acquire(m) => All
    BY <1>1 DEF Acquire
  <1>6. \A a : Clear(m, a) \/ CountOut(m, a) \/ Initialise(m, a) => All
    <2>1. \A a : Clear(m, a) => All
      BY <1>4 DEF Clear
    <2>2. \A a : CountOut(m, a) => All
      BY <1>4 DEF CountOut, segVars
    <2>3. \A a : Initialise(m, a) => All
      BY DEF Initialise
    <2> QED BY <2>1, <2>2, <2>3
  <1> HIDE DEF Kept
  <1>7. CASE MutexStep(m)
    <2>1. acquire_mutex(m) \/ open_add(m) \/ open_chk(m) \/ clear_entry(m) \/ exit(m) => All
      <3>1. acquire_mutex(m) => All
        BY DEF acquire_mutex, segVars, Kept
      <3>2. open_add(m) => All
        <4>1. open_add(m) => UNCHANGED segVars /\ crossed' = (crossed \/ \E n \in Others(m) : obj[n].pc \in {"chk", "init"})
          BY DEF open_add
        <4> QED BY <1>4, <4>1
      <3>3. open_chk(m) => All
        BY DEF open_chk, segVars, Kept
      <3>4. clear_entry(m) => All
        <4>1. clear_entry(m) => UNCHANGED segVars /\ crossed' = (crossed \/ Shared(m))
          BY DEF clear_entry
        <4> QED BY <1>4, <4>1
      <3>5. exit(m) => All
        BY DEF exit, segVars, Kept
      <3> QED BY <3>1, <3>2, <3>3, <3>4, <3>5
    <2>2. lock(m) \/ unlock(m) => All
      BY DEF lock, unlock, Kept
    <2>3. acquire_handle(m) \/ acquire_posix(m) \/ close_linux(m) \/ close_posix(m) => All
      BY <1>5, <1>6 DEF acquire_handle, acquire_posix, close_linux, close_posix
    <2>4. open_init(m) \/ clear_linux(m) \/ clear_posix(m) => All
      BY <1>6 DEF open_init, clear_linux, clear_posix
    <2> QED BY <1>7, <2>1, <2>2, <2>3, <2>4 DEF MutexStep, Kept
  <1>8. CASE CondStep(m)
    <2>1. acquire_cond(m) \/ open_cond(m) \/ close_cond(m) => All
      <3>1. acquire_cond(m) => All
        BY <1>5 DEF acquire_cond
      <3>2. open_cond(m) => All
        BY DEF open_cond, segVars, Kept
      <3>3. close_cond(m) => All
        <4>1. close_cond(m) => UNCHANGED segVars /\ crossed' = crossed
          BY DEF close_cond
        <4> QED BY <1>4, <4>1
      <3> QED BY <3>1, <3>2, <3>3
    <2>2. init_cond(m) \/ clear_cond(m) => All
      BY <1>6 DEF init_cond, clear_cond
    <2> QED BY <1>8, <2>1, <2>2 DEF CondStep, Kept
  <1>9. CASE SemStep(m)
    <2>1. acquire_sem(m) \/ clear_sem(m) \/ post(m) \/ wait(m) \/ close_sem(m) => All
      BY <1>3, <1>4, <1>5, <1>6 DEF acquire_sem, clear_sem, post, wait, close_sem
    <2>2. sem_open(m) \/ sem_unlink(m) => All
      <3>1. sem_open(m) => All
        <4>1. sem_open(m) => UNCHANGED segVars /\ crossed' = (crossed \/ \E n \in Single : obj[n].pc \in {"semunlink", "clear"})
          BY DEF sem_open
        <4> QED BY <1>4, <4>1
      <3>2. sem_unlink(m) => All
        BY <1>3, <1>4 DEF sem_unlink
      <3> QED BY <3>1, <3>2
    <2> QED BY <1>9, <2>1, <2>2 DEF SemStep, Kept
  <1>10. CASE \/ acquire(m) \/ open_ref(m) \/ open_wipe(m) \/ emplaced(m)
              \/ destroy(m) \/ erase(m) \/ clear_shm(m) \/ closed(m) \/ clear_name(m)
    <2>1. acquire(m) \/ open_ref(m) \/ emplaced(m) => All
      <3>1. acquire(m) => All
        <4>1. acquire(m) => (get_mem(Proc(m)) \/ count(Proc(m), Initialising(Proc(m)))) /\ crossed' = crossed
          BY DEF acquire
        <4> QED BY <1>2, <4>1
      <3>2. open_ref(m) => All
        BY DEF open_ref, segVars, Kept
      <3>3. emplaced(m) => All
        BY DEF emplaced, segVars, Kept
      <3> QED BY <3>1, <3>2, <3>3
    <2>2. open_wipe(m) \/ destroy(m) => All
      BY DEF open_wipe, destroy, Kept
    <2>3. erase(m) \/ clear_shm(m) \/ closed(m) \/ clear_name(m) => All
      BY <1>3, <1>4 DEF erase, clear_shm, closed, clear_name
    <2> QED BY <1>10, <2>1, <2>2, <2>3 DEF Kept
  <1> QED BY <1>7, <1>8, <1>9, <1>10 DEF SyncStep

\* clear by the only user.
LEMMA CalmClears ==
  ASSUME NEW m, CalmBefore(m), kind # "sem", NEW a \in {"cleardestroy", "clear"}, Clear(m, a), sem' = sem, ~crossed'
  PROVE  CalmSync'
  <1>0. /\ m \in Objs /\ SyncTypeOK /\ ObjOK(m) /\ (obj[m].ptr # "null" => Alone(m)) /\ a \in Pcs
    BY Before DEF CalmBefore, Pcs
  <1>1. /\ MayClose(m) /\ obj[m].pc = "idle" /\ UNCHANGED segVars /\ ~Shared(m)
        /\ Go(m, a) /\ Enters(Proc(m), reg[Proc(m)].on, reg[Proc(m)].ref, m)
    BY <1>0, ClearEffect
  <1>2. obj[m].ptr = "live" /\ obj[m].holds = 0 /\ reg[Proc(m)].lock = Nobody
    BY <1>1 DEF MayClose, LockFree
  <1>3. Others(m) = {} /\ \A g \in SegHandles \ {Proc(m)} : hnd[g].at = "null"
    BY <1>1 DEF Shared
  <1>4. hnd[Proc(m)].at = "held" /\ (Mutex => reg[Proc(m)].on) /\ (~Mutex => m \in Single)
    BY <1>0, <1>1, <1>2 DEF ObjOK, Alone
  <1> QED BY <1>1, <1>2, <1>3, <1>4, CalmClear

\* clear_storage of a name the process has registered, and the end of a
\* process that has kept the entry.
LEMMA CalmEntry ==
  ASSUME NEW m, CalmBefore(m), clear_entry(m) \/ exit(m), ~crossed'
  PROVE  CalmSync'
  <1> DEFINE p == Proc(m)
  <1>0. /\ m \in Objs /\ p \in SegHandles /\ SyncTypeOK /\ Registry /\ ObjOK(m) /\ (\A n \in Objs : ObjOK(n)) /\ RegOK(p)
        /\ "erase" \in Pcs /\ m \in Objs \cup {Nobody}
    BY Before DEF CalmBefore, Pcs
  <1>1. /\ obj[m].pc = "idle" /\ obj[m].ptr = "null" /\ reg[p].on /\ UNCHANGED <<segVars, sem>>
        /\ reg' = [reg EXCEPT ![p].lock = m] /\ Goto(m, "erase")
    BY <1>0 DEF clear_entry, exit, Closed
  <1>2. Mutex /\ kind # "sem"
    BY <1>0, <1>1 DEF Registry, NoRegistry, Mutex
  <1>3. Go(m, "erase") /\ Enters(p, reg[p].on, reg[p].ref, m)
    BY <1>0, <1>1, Goes, Locks DEF Go
  <1>4. /\ Others(m) = {} /\ obj[m].holds = 0
        /\ (reg[p].lock = Nobody \/ \A n \in Objs : Proc(n) = p => obj[n].pc = "idle")
    <2>1. CASE clear_entry(m)
      BY <1>0, <1>1, <2>1 DEF clear_entry, Closed, LockFree, Shared, ObjOK
    <2>2. CASE exit(m)
      <3>1. \A n \in Objs : Proc(n) = p => obj[n].ptr = "null" /\ obj[n].pc = "idle"
        BY <2>2 DEF exit
      <3>2. Others(m) = {}
        BY <3>1 DEF Others
      <3> QED BY <1>0, <1>1, <3>1, <3>2 DEF ObjOK
    <2> QED BY <2>1, <2>2
  <1>5. hnd[p].at = "held"
    <2>1. ASSUME NEW n \in Objs, Proc(n) = p, obj[n].pc = "erased" PROVE FALSE
      <3>1. reg[p].lock = n
        BY <1>0, <1>2, <2>1 DEF ObjOK
      <3> QED BY <1>4, <2>1, <3>1, NobodyIsNot
    <2> QED BY <1>0, <1>1, <2>1 DEF RegOK
  <1>6. "erase" \in {"cleardestroy", "clear", "erase"}
    OBVIOUS
  <1> QED BY <1>1, <1>2, <1>3, <1>4, <1>5, <1>6, CalmClear

\* Every step of the objects.
LEMMA CalmStep ==
  ASSUME NEW m, CalmBefore(m), SyncStep(m), ~raced', ~crossed'
  PROVE  CalmSync'
  <1>0. m \in Objs /\ SegTypeOK /\ SyncTypeOK
    BY Before
  <1>1. CASE MutexStep(m)
    <2>1. CASE acquire_handle(m) \/ acquire_posix(m)
      <3>1. Acquire(m) /\ Closed(m) /\ Mutex /\ ~reg[Proc(m)].on
        BY <2>1 DEF acquire_handle, acquire_posix, Mutex
      <3> QED BY <3>1, CalmAcquire
    <2>2. CASE close_linux(m)
      <3>1. PICK a : a = IF reg[Proc(m)].ref <= 1 THEN "erase" ELSE "keep"
        OBVIOUS
      <3>2. a \in {"destroy", "erase", "keep"} /\ CountOut(m, a) /\ Mutex /\ ~Posix
        BY <2>2, <3>1 DEF close_linux, Mutex, Posix
      <3> QED BY <3>1, <3>2, CalmCountOut
    <2>3. CASE close_posix(m)
      <3>1. PICK a : a = IF reg[Proc(m)].ref <= 1 /\ get_ref(Proc(m)) <= 1 THEN "destroy" ELSE "keep"
        OBVIOUS
      <3>2. a \in {"destroy", "erase", "keep"} /\ CountOut(m, a) /\ Mutex
        BY <2>3, <3>1 DEF close_posix, Mutex
      <3> QED BY <3>1, <3>2, CalmCountOut
    <2>4. CASE clear_linux(m) \/ clear_posix(m)
      <3>1. PICK a \in {"cleardestroy", "clear"} : Clear(m, a) /\ kind # "sem" /\ sem' = sem
        BY <2>4 DEF clear_linux, clear_posix
      <3> QED BY <3>1, CalmClears
    <2> QED BY <1>1, <2>1, <2>2, <2>3, <2>4, CalmFound, CalmAdd, CalmChk, CalmInit, CalmEntry, CalmHold DEF MutexStep
  <1>2. CASE CondStep(m)
    <2>1. CASE acquire_cond(m)
      <3>1. Acquire(m) /\ Closed(m) /\ ~Mutex /\ m \in Single
        BY <2>1 DEF acquire_cond, Mutex
      <3> QED BY <3>1, CalmAcquire
    <2>2. CASE clear_cond(m)
      <3>1. PICK a : a = IF get_ref(Proc(m)) <= 1 THEN "cleardestroy" ELSE "clear"
        OBVIOUS
      <3>2. a \in {"cleardestroy", "clear"} /\ Clear(m, a) /\ kind # "sem" /\ sem' = sem
        BY <2>2, <3>1 DEF clear_cond
      <3> QED BY <3>2, CalmClears
    <2> QED BY <1>2, <2>1, <2>2, CalmRef, CalmInit, CalmCloseCond DEF CondStep
  <1>3. CASE SemStep(m)
    <2>1. CASE acquire_sem(m)
      <3>1. Acquire(m) /\ Closed(m) /\ ~Mutex /\ m \in Single
        BY <2>1 DEF acquire_sem, Mutex
      <3> QED BY <3>1, CalmAcquire
    <2> QED BY <1>3, <2>1, CalmSemOpen, CalmSemClose, CalmSemUnlink, CalmSemClear, CalmPost DEF SemStep
  <1>4. CASE acquire(m)
    BY <1>0, <1>4, CountingEffect, CalmSized, CalmCounted
  <1>5. CASE open_ref(m) \/ open_wipe(m) \/ emplaced(m) \/ destroy(m) \/ erase(m) \/ clear_shm(m) \/ closed(m) \/ clear_name(m)
    BY <1>5, CalmRef, CalmWipe, CalmEmplaced, CalmDestroy, CalmErase, CalmClosed, CalmName
  <1> QED BY <1>1, <1>2, <1>3, <1>4, <1>5 DEF SyncStep

\* When nobody has opened anything all is calm.
LEMMA CalmFirst ==
  ASSUME SyncInit
  PROVE  CalmSync
  <1>1. (\A h \in SegHandles : hnd[h] = Null) /\ Null.at = "null" /\ Null.mode = "create|open"
    BY DEF SyncInit, SegInit, Null
  <1>2. \A m \in Objs : obj[m].pc = "idle" /\ obj[m].ptr = "null" /\ obj[m].holds = 0
    BY DEF SyncInit
  <1>3. \A p \in SegHandles : ~reg[p].on /\ reg[p].ref = 0
    BY DEF SyncInit
  <1>4. sem.name = 0
    BY DEF SyncInit
  <1>5. OneSegment
    BY <1>1 DEF OneSegment
  <1>6. \A m \in Objs : ObjOK(m)
    BY <1>2 DEF ObjOK, Opening, Departing
  <1>7. \A p \in SegHandles : Tally(p) = {} /\ Cardinality(Tally(p)) = 0
    BY <1>2, FS_EmptySet DEF Tally
  <1>8. \A p \in SegHandles : RegOK(p)
    BY <1>3, <1>7 DEF RegOK
  <1>9. AloneIn /\ Prepared
    BY <1>1, <1>2 DEF AloneIn, Prepared
  <1>10. SemOK
    BY <1>2, <1>4 DEF SemOK, SemUser
  <1> QED BY <1>5, <1>6, <1>8, <1>9, <1>10 DEF CalmSync

\* The whole invariant of the handles is inductive.
LEMMA SyncInductive ==
  ASSUME SyncInv, HandleNext
  PROVE  SyncInv'
  <1>1. LeftInv /\ LeftInv' /\ (Undisturbed => CalmSync)
    BY LeftInductive DEF SyncInv
  <1>2. ASSUME NEW h \in SegHandles, HandleStep(h) PROVE ~Undisturbed'
    BY <1>2 DEF HandleStep, Undisturbed, shm_open, get_mem, count, release, remove, unlink, clear_storage
  <1>3. ASSUME NEW m \in Objs, SyncStep(m), Undisturbed' PROVE CalmSync'
    <2>1. Undisturbed /\ ~raced' /\ ~crossed' /\ kind \in Kinds /\ obj[m].ptr # "dangling"
      BY <1>3, Disturbed DEF Undisturbed, SyncStep
    <2>2. CalmBefore(m)
      BY <1>1, <1>3, <2>1 DEF CalmBefore
    <2> QED BY <1>3, <2>1, <2>2, CalmStep
  <1> QED BY <1>1, <1>2, <1>3 DEF HandleNext, SyncInv

\* Steps of the other parts.
LEMMA SyncStays ==
  ASSUME SyncInv, UNCHANGED handleVars
  PROVE  SyncInv'
  <1>1. LeftInv'
    BY LeftStays DEF SyncInv
  <1>2. UNCHANGED <<kind, linked, created, segs, hnd, raced, reg, obj, sem, crossed>>
    BY DEF handleVars, segVars, syncVars
  <1>3. CalmSync => CalmSync'
    <2>1. (Mutex <=> Mutex') /\ (Posix <=> Posix') /\ (\A n \in Objs : Others(n)' = Others(n)) /\ (OneSegment => OneSegment')
      BY <1>2 DEF Mutex, Posix, Others, OneSegment
    <2>2. \A n \in Objs : ObjOK(n) => ObjOK(n)'
      BY <1>2, <2>1 DEF ObjOK
    <2>3. \A p \in SegHandles : RegOK(p) => RegOK(p)'
      BY <1>2, <2>1 DEF RegOK, Tally
    <2>4. (AloneIn => AloneIn') /\ (SemOK => SemOK')
      BY <1>2 DEF AloneIn, SemOK, SemUser
    <2>5. Prepared => Prepared'
      <3>1. \A n \in Objs : Unready(n) => Unready(n)'
        BY <1>2, <2>1 DEF Unready
      <3> QED BY <1>2, <2>1, <3>1 DEF Prepared
    <2> QED BY <2>1, <2>2, <2>3, <2>4, <2>5 DEF CalmSync
  <1> QED BY <1>1, <1>2, <1>3 DEF SyncInv, Undisturbed

\* Open objects work on the one object of the name.
LEMMA OneShared ==
  ASSUME SyncInv
  PROVE  ShareOne
  <1> SUFFICES ASSUME Undisturbed PROVE ShareOne
    BY DEF ShareOne, Undisturbed
  <1>0. /\ SegTypeOK /\ SyncTypeOK /\ CalmSync /\ OneSegment /\ SemOK /\ \A m \in Objs : ObjOK(m)
    BY DEF SyncInv, LeftInv, SegInv, CalmSync
  <1>1. ASSUME NEW m \in Objs, obj[m].pc = "idle", obj[m].ptr # "null"
        PROVE  /\ valid(m) /\ SegOf(m) = linked
               /\ obj[m].holds # 0 => segs[SegOf(m)].owner = m
               /\ kind = "sem" => /\ sem.of[Proc(m)] = sem.name
                                  /\ sem.val[sem.name] = SemCount + sem.net
    <2>1. obj[m].ptr = "live" /\ ObjOK(m) /\ Proc(m) \in SegHandles
      BY <1>0, <1>1, ObjTypes, ProcIn DEF ObjOK
    <2>2. hnd[Proc(m)].at = "held" /\ SegOf(m) = linked
      BY <1>0, <1>1, <2>1 DEF ObjOK, OneSegment, SegOf
    <2>3. valid(m)
      BY <1>1, <2>1, <2>2 DEF valid, ObjOK
    <2>4. obj[m].holds # 0 => segs[SegOf(m)].owner = m
      BY <2>1, <2>2 DEF ObjOK
    <2>5. kind = "sem" => sem.of[Proc(m)] = sem.name /\ sem.val[sem.name] = SemCount + sem.net
      BY <1>0, <1>1, <2>1 DEF SemOK, SemUser
    <2> QED BY <2>2, <2>3, <2>4, <2>5
  <1>2. ASSUME NEW m \in Objs, NEW n \in Objs, obj[m].holds # 0, obj[n].holds # 0 PROVE m = n
    BY <1>0, <1>2 DEF ObjOK
  <1> QED BY <1>1, <1>2 DEF ShareOne

-----------------------------------------------------------------------------
(* Windows: the count of users. *)

\* What a quotient is.
LEMMA Quotient ==
  ASSUME NEW n \in Nat \ {0}
  PROVE  \A a \in Nat : /\ a % n \in Nat /\ a % n < n /\ a \div n \in Nat
                        /\ a = n * (a \div n) + (a % n)
  BY Z3

\* Rounding up to a multiple of n.
LEMMA RoundedUp ==
  ASSUME NEW n \in Nat \ {0}, NEW s \in Nat \ {0}
  PROVE  \E k \in Nat \ {0} : ((s - 1) \div n + 1) * n = n * k /\ s <= n * k
  <1>1. s - 1 \in Nat
    OBVIOUS
  <1>2. PICK q \in Nat, r \in Nat : q = (s - 1) \div n /\ r < n /\ s - 1 = n * q + r
    BY <1>1, Quotient
  <1>3. (q + 1) * n = n * (q + 1) /\ n * (q + 1) = n * q + n /\ q + 1 \in Nat \ {0} /\ n * q \in Nat
    OBVIOUS
  <1>4. s <= n * (q + 1)
    BY <1>2, <1>3
  <1> QED BY <1>2, <1>3, <1>4

\* A multiple of n stays itself.
LEMMA Multiple ==
  ASSUME NEW n \in Nat \ {0}, NEW k \in Nat \ {0}
  PROVE  ((n * k - 1) \div n + 1) * n = n * k
  <1>0. n * k \in Nat \ {0} /\ n * k - 1 \in Nat
    OBVIOUS
  <1>2. PICK q \in Nat, r \in Nat : q = (n * k - 1) \div n /\ r < n /\ n * k - 1 = n * q + r
    BY <1>0, Quotient
  <1>3. n * q \in Nat /\ n * k = (n * q + r) + 1
    BY <1>0, <1>2
  <1>4. k = q + 1
    <2>1. CASE k < q + 1
      <3>1. PICK j \in Nat : q = k + j
        <4>1. q - k \in Nat /\ q = k + (q - k)
          BY <2>1
        <4> QED BY <4>1
      <3>2. n * q = n * k + n * j /\ n * j \in Nat
        BY <3>1
      <3> QED BY <1>0, <1>3, <3>2
    <2>2. CASE k > q + 1
      <3>1. PICK j \in Nat : k = (q + 2) + j
        <4>1. k - (q + 2) \in Nat /\ k = (q + 2) + (k - (q + 2))
          BY <2>2
        <4> QED BY <4>1
      <3>2. n * k = (n * q + 2 * n) + n * j /\ n * j \in Nat
        BY <3>1
      <3> QED BY <1>2, <1>3, <3>2
    <2> QED BY <2>1, <2>2
  <1> QED BY <1>2, <1>4

\* Where users look for the count: behind the size that is given, or at the
\* end of the pages.
LEMMA Places ==
  ASSUME agreed \in WinSizes
  PROVE  /\ calc_size(agreed) = acc_of(agreed) + InfoSize /\ calc_size(agreed) <= RegionSize
         /\ acc_of(RegionSize - InfoSize) = RegionSize - InfoSize
         /\ acc_of(agreed) \in Nat /\ RegionSize - InfoSize \in Nat \ {0} /\ RegionSize \in Nat /\ InfoSize \in Nat \ {0}
         /\ agreed \in Nat \ {0}
  <1>1. InfoSize \in Nat \ {0} /\ Page \in Nat \ {0} /\ agreed \in Nat \ {0} /\ Page % InfoSize = 0
    BY WinSegmentAssumption
  <1>2. PICK a \in Nat \ {0} : ((agreed - 1) \div InfoSize + 1) * InfoSize = InfoSize * a /\ agreed <= InfoSize * a
    BY <1>1, RoundedUp
  <1>3. PICK c \in Nat \ {0} : c = InfoSize * a + InfoSize
    BY <1>1
  <1>4. calc_size(agreed) = c /\ acc_of(agreed) = c - InfoSize /\ c - InfoSize = InfoSize * a /\ InfoSize * a \in Nat
    BY <1>1, <1>2, <1>3 DEF calc_size, acc_of
  <1>5. PICK b \in Nat \ {0} : ((c - 1) \div Page + 1) * Page = Page * b /\ c <= Page * b
    BY <1>1, RoundedUp
  <1>6. RegionSize = Page * b /\ Page * b \in Nat
    BY <1>1, <1>4, <1>5 DEF RegionSize
  <1>7. PICK d \in Nat : Page = InfoSize * d
    <2>1. Page \div InfoSize \in Nat /\ Page = InfoSize * (Page \div InfoSize) + (Page % InfoSize)
      BY <1>1, Quotient
    <2>2. PICK d \in Nat : d = Page \div InfoSize
      BY <2>1
    <2>3. Page = InfoSize * d + 0 /\ InfoSize * d \in Nat
      BY <1>1, <2>1, <2>2
    <2>4. Page = InfoSize * d
      BY <2>3
    <2> QED BY <2>4
  <1>8. Page * b = InfoSize * (d * b) /\ d * b \in Nat
    BY <1>1, <1>7
  <1>9. PICK k \in Nat : k = d * b
    BY <1>8
  <1>10. RegionSize = InfoSize * k /\ InfoSize * k >= InfoSize * a + InfoSize
    BY <1>3, <1>5, <1>6, <1>8, <1>9
  <1>11. k >= 2
    <2>1. CASE k = 0
      BY <1>1, <1>4, <1>10, <2>1
    <2>2. CASE k = 1
      <3>1. InfoSize * a >= InfoSize
        BY <1>1
      <3> QED BY <1>1, <1>4, <1>10, <2>2, <3>1
    <2> QED BY <1>9, <2>1, <2>2
  <1>12. PICK e \in Nat \ {0} : k = e + 1
    <2>1. k - 1 \in Nat \ {0} /\ k = (k - 1) + 1
      BY <1>9, <1>11
    <2> QED BY <2>1
  <1>13. RegionSize - InfoSize = InfoSize * e /\ InfoSize * e \in Nat \ {0}
    BY <1>1, <1>10, <1>12
  <1>14. acc_of(RegionSize - InfoSize) = RegionSize - InfoSize
    <2>1. ((InfoSize * e - 1) \div InfoSize + 1) * InfoSize = InfoSize * e
      BY <1>1, <1>12, Multiple
    <2>2. PICK f : f = InfoSize * e
      OBVIOUS
    <2>3. f \in Nat /\ ((f - 1) \div InfoSize + 1) * InfoSize = f
      BY <1>13, <2>1, <2>2
    <2>4. acc_of(f) = f
      BY <1>1, <2>3 DEF acc_of, calc_size
    <2> QED BY <1>13, <2>2, <2>4
  <1> QED BY <1>1, <1>3, <1>4, <1>5, <1>6, <1>13, <1>14

\* Who has its count where.
MappedAt(x) == {v \in Mappers : viewer[v].at = "mapped" /\ acc_of(viewer[v].size) = x}
Whole == RegionSize - InfoSize
ViewRecords == [at : {"none", "opened", "mapped"}, size : {0, agreed, Whole}]
WinSegInv ==
  /\ agreed \in WinSizes
  /\ viewer \in [Mappers -> ViewRecords]
  /\ \A v \in Mappers : /\ viewer[v].at = "opened" => viewer[v].size \in {0, agreed}
                        /\ viewer[v].at = "mapped" => viewer[v].size \in {agreed, Whole}
  /\ words \in [0 .. RegionSize + InfoSize -> Int]
  /\ \A x \in 0 .. RegionSize + InfoSize : words[x] = Cardinality(MappedAt(x))

\* At first nobody is counted.
LEMMA WinSegFirst ==
  ASSUME WinSegInit
  PROVE  WinSegInv
  <1>1. agreed \in WinSizes /\ words = NoWords /\ \A v \in Mappers : viewer[v] = Unused
    BY DEF WinSegInit
  <1>2. Unused \in ViewRecords /\ Unused.at = "none"
    BY DEF Unused, ViewRecords
  <1>3. viewer \in [Mappers -> ViewRecords] /\ \A v \in Mappers : viewer[v].at = "none"
    BY <1>1, <1>2 DEF WinSegInit
  <1>4. \A x : MappedAt(x) = {}
    BY <1>3 DEF MappedAt
  <1>5. words \in [0 .. RegionSize + InfoSize -> Int] /\ \A x \in 0 .. RegionSize + InfoSize : words[x] = 0
    BY <1>1 DEF NoWords
  <1>6. Cardinality({}) = 0
    BY FS_EmptySet
  <1> QED BY <1>1, <1>3, <1>4, <1>5, <1>6 DEF WinSegInv

\* The counts after a user has come or gone.
LEMMA WinCounted ==
  ASSUME NEW v \in Mappers, NEW x
  PROVE  /\ IsFiniteSet(MappedAt(x)) /\ Cardinality(MappedAt(x)) \in Nat
         /\ v \notin MappedAt(x) => Cardinality(MappedAt(x) \cup {v}) = Cardinality(MappedAt(x)) + 1
         /\ v \in MappedAt(x) => Cardinality(MappedAt(x) \ {v}) = Cardinality(MappedAt(x)) - 1
  <1>1. IsFiniteSet(MappedAt(x))
    BY WinSegmentAssumption, FS_Subset DEF MappedAt
  <1> QED BY <1>1, FS_CardinalityType, FS_AddElement, FS_RemoveElement

\* An id that goes over to another state, and where it counts then.
LEMMA ViewChanges ==
  ASSUME WinSegInv, NEW v \in Mappers, NEW a \in {"none", "opened", "mapped"}, NEW s \in {0, agreed, Whole},
         viewer' = [viewer EXCEPT ![v] = [at |-> a, size |-> s]], agreed' = agreed,
         a = "opened" => s \in {0, agreed}, a = "mapped" => s \in {agreed, Whole}
  PROVE  /\ viewer' \in [Mappers -> ViewRecords] /\ viewer'[v].at = a /\ viewer'[v].size = s
         /\ \A u \in Mappers \ {v} : viewer'[u] = viewer[u]
         /\ ViewRecords' = ViewRecords /\ Whole' = Whole /\ RegionSize' = RegionSize
         /\ \A u \in Mappers : /\ viewer'[u].at = "opened" => viewer'[u].size \in {0, agreed}
                               /\ viewer'[u].at = "mapped" => viewer'[u].size \in {agreed, Whole}
         /\ \A x : MappedAt(x)' = IF a = "mapped" /\ acc_of(s) = x THEN (MappedAt(x) \ {v}) \cup {v} ELSE MappedAt(x) \ {v}
  <1>1. [at |-> a, size |-> s] \in ViewRecords
    BY DEF ViewRecords
  <1>2. /\ viewer' \in [Mappers -> ViewRecords] /\ viewer'[v] = [at |-> a, size |-> s]
        /\ \A u \in Mappers \ {v} : viewer'[u] = viewer[u]
    BY <1>1 DEF WinSegInv
  <1>3. viewer'[v].at = a /\ viewer'[v].size = s
    BY <1>2
  <1>4. RegionSize' = RegionSize
    BY DEF RegionSize, calc_size
  <1>5. Whole' = Whole
    BY <1>4 DEF Whole
  <1>6. ViewRecords' = ViewRecords
    BY <1>5 DEF ViewRecords
  <1>7. \A u \in Mappers : /\ viewer'[u].at = "opened" => viewer'[u].size \in {0, agreed}
                           /\ viewer'[u].at = "mapped" => viewer'[u].size \in {agreed, Whole}
    BY <1>2, <1>3 DEF WinSegInv
  <1>8. \A x : MappedAt(x)' = IF a = "mapped" /\ acc_of(s) = x THEN (MappedAt(x) \ {v}) \cup {v} ELSE MappedAt(x) \ {v}
    <2> TAKE x
    <2>1. MappedAt(x)' = {u \in Mappers : viewer'[u].at = "mapped" /\ acc_of(viewer'[u].size) = x}
      BY DEF MappedAt, acc_of, calc_size
    <2> QED BY <1>2, <1>3, <2>1 DEF MappedAt
  <1> QED BY <1>2, <1>3, <1>4, <1>5, <1>6, <1>7, <1>8

\* The counts are inductive.
LEMMA WinSegInductive ==
  ASSUME WinSegInv, WinSegNext
  PROVE  WinSegInv'
  <1>0. agreed \in WinSizes /\ words \in [0 .. RegionSize + InfoSize -> Int]
        /\ \A x \in 0 .. RegionSize + InfoSize : words[x] = Cardinality(MappedAt(x))
    BY DEF WinSegInv
  <1>a. /\ calc_size(agreed) = acc_of(agreed) + InfoSize /\ calc_size(agreed) <= RegionSize
        /\ acc_of(RegionSize - InfoSize) = RegionSize - InfoSize
        /\ acc_of(agreed) \in Nat /\ RegionSize - InfoSize \in Nat \ {0} /\ RegionSize \in Nat /\ InfoSize \in Nat \ {0}
        /\ agreed \in Nat \ {0}
    BY <1>0, Places
  <1>b. acc_of(agreed) \in 0 .. RegionSize + InfoSize /\ acc_of(Whole) \in 0 .. RegionSize + InfoSize /\ acc_of(Whole) = Whole
        /\ Whole # 0
    BY <1>a DEF Whole
  <1>1. ASSUME NEW v \in Mappers, NEW md, NEW size \in {0, agreed}, map_open(v, md, size) PROVE WinSegInv'
    <2>1. /\ viewer[v].at = "none" /\ viewer' = [viewer EXCEPT ![v] = [at |-> "opened", size |-> size]]
          /\ UNCHANGED <<agreed, words, stray>>
      BY <1>1 DEF map_open
    <2>2. /\ viewer' \in [Mappers -> ViewRecords]
          /\ ViewRecords' = ViewRecords /\ Whole' = Whole /\ RegionSize' = RegionSize
          /\ \A u \in Mappers : /\ viewer'[u].at = "opened" => viewer'[u].size \in {0, agreed}
                                /\ viewer'[u].at = "mapped" => viewer'[u].size \in {agreed, Whole}
          /\ \A x : MappedAt(x)' = MappedAt(x) \ {v}
      BY <2>1, ViewChanges
    <2>3. \A x : MappedAt(x)' = MappedAt(x)
      BY <2>1, <2>2 DEF MappedAt
    <2> QED BY <1>0, <2>1, <2>2, <2>3 DEF WinSegInv
  <1>2. ASSUME NEW v \in Mappers, map_view(v) PROVE WinSegInv'
    <2>1. PICK s : s = IF viewer[v].size = 0 THEN Whole ELSE viewer[v].size
      OBVIOUS
    <2>2. /\ viewer[v].at = "opened" /\ viewer' = [viewer EXCEPT ![v] = [at |-> "mapped", size |-> s]]
          /\ words' = [words EXCEPT ![acc_of(s)] = words[acc_of(s)] + 1] /\ UNCHANGED <<agreed, stray>>
      BY <1>2, <2>1 DEF map_view, Whole
    <2>3. s \in {agreed, Whole}
      BY <1>2, <2>1, <2>2 DEF WinSegInv
    <2>4. acc_of(s) \in 0 .. RegionSize + InfoSize
      BY <1>b, <2>3
    <2>5. /\ viewer' \in [Mappers -> ViewRecords]
          /\ ViewRecords' = ViewRecords /\ Whole' = Whole /\ RegionSize' = RegionSize
          /\ \A u \in Mappers : /\ viewer'[u].at = "opened" => viewer'[u].size \in {0, agreed}
                                /\ viewer'[u].at = "mapped" => viewer'[u].size \in {agreed, Whole}
          /\ \A x : MappedAt(x)' = IF acc_of(s) = x THEN (MappedAt(x) \ {v}) \cup {v} ELSE MappedAt(x) \ {v}
      <3>1. s \in {0, agreed, Whole} /\ "mapped" \in {"none", "opened", "mapped"} /\ agreed' = agreed
        BY <2>2, <2>3
      <3>2. PICK a \in {"none", "opened", "mapped"} : a = "mapped"
        BY <3>1
      <3>3. /\ viewer' = [viewer EXCEPT ![v] = [at |-> a, size |-> s]]
            /\ (a = "opened" => s \in {0, agreed}) /\ (a = "mapped" => s \in {agreed, Whole})
        BY <2>2, <2>3, <3>2
      <3>4. /\ viewer' \in [Mappers -> ViewRecords]
            /\ ViewRecords' = ViewRecords /\ Whole' = Whole /\ RegionSize' = RegionSize
            /\ \A u \in Mappers : /\ viewer'[u].at = "opened" => viewer'[u].size \in {0, agreed}
                                  /\ viewer'[u].at = "mapped" => viewer'[u].size \in {agreed, Whole}
            /\ \A x : MappedAt(x)' = IF a = "mapped" /\ acc_of(s) = x THEN (MappedAt(x) \ {v}) \cup {v} ELSE MappedAt(x) \ {v}
        BY <1>2, <3>1, <3>3, ViewChanges, ZenonT(40)
      <3> QED BY <3>2, <3>4
    <2>6. \A x : v \notin MappedAt(x) /\ MappedAt(x) \ {v} = MappedAt(x)
      BY <2>2 DEF MappedAt
    <2>7. words' \in [0 .. RegionSize + InfoSize -> Int]
      BY <1>0, <2>2, <2>4
    <2>8. \A x \in 0 .. RegionSize + InfoSize : words'[x] = Cardinality(MappedAt(x)')
      <3> TAKE x \in 0 .. RegionSize + InfoSize
      <3>1. CASE x = acc_of(s)
        <4>1. words'[x] = Cardinality(MappedAt(x)) + 1
          BY <1>0, <2>2, <2>4, <3>1
        <4>2. MappedAt(x)' = MappedAt(x) \cup {v}
          BY <2>5, <2>6, <3>1
        <4> QED BY <1>2, <2>6, <4>1, <4>2, WinCounted
      <3>2. CASE x # acc_of(s)
        BY <1>0, <2>2, <2>5, <2>6, <3>2
      <3> QED BY <3>1, <3>2
    <2> QED BY <1>0, <2>2, <2>5, <2>7, <2>8 DEF WinSegInv
  <1>3. ASSUME NEW v \in Mappers, map_fails(v) PROVE WinSegInv'
    <2>1. UNCHANGED <<agreed, words, viewer>>
      BY <1>3 DEF map_fails
    <2>2. RegionSize' = RegionSize /\ ViewRecords' = ViewRecords /\ Whole' = Whole
      BY <2>1 DEF RegionSize, calc_size, ViewRecords, Whole
    <2>3. \A x : MappedAt(x)' = MappedAt(x)
      BY <2>1 DEF MappedAt, acc_of, calc_size
    <2> QED BY <1>0, <2>1, <2>2, <2>3 DEF WinSegInv
  <1>4. ASSUME NEW v \in Mappers, close_view(v) PROVE WinSegInv'
    <2>1. /\ viewer[v].at # "none" /\ viewer' = [viewer EXCEPT ![v] = [at |-> "none", size |-> 0]] /\ UNCHANGED <<agreed, stray>>
          /\ words' = IF ~Exists(Mappers \ {v}) THEN NoWords
                      ELSE IF viewer[v].at = "mapped"
                             THEN [words EXCEPT ![acc_of(viewer[v].size)] = words[acc_of(viewer[v].size)] - 1]
                             ELSE words
      BY <1>4 DEF close_view, Unused
    <2>2. /\ viewer' \in [Mappers -> ViewRecords]
          /\ ViewRecords' = ViewRecords /\ Whole' = Whole /\ RegionSize' = RegionSize
          /\ \A u \in Mappers : /\ viewer'[u].at = "opened" => viewer'[u].size \in {0, agreed}
                                /\ viewer'[u].at = "mapped" => viewer'[u].size \in {agreed, Whole}
          /\ \A x : MappedAt(x)' = MappedAt(x) \ {v}
      BY <1>4, <2>1, ViewChanges
    <2>3. CASE ~Exists(Mappers \ {v})
      <3>1. \A x : MappedAt(x) \ {v} = {}
        BY <2>3 DEF Exists, MappedAt
      <3>2. words' \in [0 .. RegionSize + InfoSize -> Int] /\ \A x \in 0 .. RegionSize + InfoSize : words'[x] = 0
        BY <2>1, <2>3 DEF NoWords
      <3>3. Cardinality({}) = 0
        BY FS_EmptySet
      <3> QED BY <1>0, <2>1, <2>2, <3>1, <3>2, <3>3 DEF WinSegInv
    <2>4. CASE Exists(Mappers \ {v}) /\ viewer[v].at = "mapped"
      <3>1. PICK y : y = acc_of(viewer[v].size)
        OBVIOUS
      <3>2. y \in 0 .. RegionSize + InfoSize /\ words' = [words EXCEPT ![y] = words[y] - 1]
        BY <1>4, <1>b, <2>1, <2>4, <3>1 DEF WinSegInv
      <3>3. words' \in [0 .. RegionSize + InfoSize -> Int]
        BY <1>0, <3>2
      <3>4. \A x \in 0 .. RegionSize + InfoSize : words'[x] = Cardinality(MappedAt(x)')
        <4> TAKE x \in 0 .. RegionSize + InfoSize
        <4>1. CASE x = y
          <5>1. v \in MappedAt(x)
            BY <1>4, <2>4, <3>1, <4>1 DEF MappedAt
          <5>2. words'[x] = Cardinality(MappedAt(x)) - 1
            BY <1>0, <3>2, <4>1
          <5> QED BY <1>4, <2>2, <5>1, <5>2, WinCounted
        <4>2. CASE x # y
          <5>1. MappedAt(x) \ {v} = MappedAt(x)
            BY <3>1, <4>2 DEF MappedAt
          <5> QED BY <1>0, <2>2, <3>2, <4>2, <5>1
        <4> QED BY <4>1, <4>2
      <3> QED BY <1>0, <2>1, <2>2, <3>3, <3>4 DEF WinSegInv
    <2>5. CASE Exists(Mappers \ {v}) /\ viewer[v].at # "mapped"
      <3>1. words' = words
        BY <2>1, <2>5
      <3>2. \A x : MappedAt(x) \ {v} = MappedAt(x)
        BY <2>5 DEF MappedAt
      <3> QED BY <1>0, <2>1, <2>2, <3>1, <3>2 DEF WinSegInv
    <2> QED BY <2>3, <2>4, <2>5
  <1> QED BY <1>1, <1>2, <1>3, <1>4 DEF WinSegNext

\* Steps of the other parts.
LEMMA WinSegStays ==
  ASSUME WinSegInv, UNCHANGED winSegVars
  PROVE  WinSegInv'
  <1>1. UNCHANGED <<agreed, words, viewer>>
    BY DEF winSegVars
  <1>2. RegionSize' = RegionSize /\ ViewRecords' = ViewRecords /\ Whole' = Whole
    BY <1>1 DEF RegionSize, calc_size, ViewRecords, Whole
  <1>3. \A x : MappedAt(x)' = MappedAt(x)
    BY <1>1 DEF MappedAt, acc_of, calc_size
  <1> QED BY <1>1, <1>2, <1>3 DEF WinSegInv

\* Who looks for the count finds it.
LEMMA WinAgree ==
  ASSUME WinSegInv
  PROVE  WinCounts
  <1> DEFINE all == {u \in Mappers : viewer[u].at = "mapped"}
             full == calc_size(agreed) = RegionSize
  <1>0. agreed \in WinSizes /\ \A x \in 0 .. RegionSize + InfoSize : words[x] = Cardinality(MappedAt(x))
    BY DEF WinSegInv
  <1>a. /\ calc_size(agreed) = acc_of(agreed) + InfoSize /\ calc_size(agreed) <= RegionSize
        /\ acc_of(RegionSize - InfoSize) = RegionSize - InfoSize
        /\ acc_of(agreed) \in Nat /\ RegionSize - InfoSize \in Nat \ {0} /\ RegionSize \in Nat /\ InfoSize \in Nat \ {0}
    BY <1>0, Places
  <1>b. /\ acc_of(agreed) \in 0 .. RegionSize + InfoSize /\ acc_of(Whole) \in 0 .. RegionSize + InfoSize
        /\ acc_of(agreed) + InfoSize <= RegionSize /\ acc_of(Whole) + InfoSize <= RegionSize
        /\ (full <=> acc_of(agreed) = acc_of(Whole))
    BY <1>a DEF Whole
  <1>1. \A u \in all : viewer[u].size \in {agreed, Whole}
    BY DEF WinSegInv
  <1>2. ASSUME NEW v \in all
        PROVE  /\ acc_of(viewer[v].size) + InfoSize <= RegionSize
               /\ win_get_ref(v) = Cardinality(IF full THEN all ELSE {u \in all : viewer[u].size = viewer[v].size})
    <2>1. PICK x : x = acc_of(viewer[v].size)
      OBVIOUS
    <2>2. x \in 0 .. RegionSize + InfoSize /\ x + InfoSize <= RegionSize
      BY <1>1, <1>2, <1>b, <2>1
    <2>3. win_get_ref(v) = Cardinality(MappedAt(x))
      BY <1>0, <2>1, <2>2 DEF win_get_ref
    <2>4. CASE full
      <3>1. \A u \in all : acc_of(viewer[u].size) = x
        BY <1>1, <1>2, <1>b, <2>1, <2>4
      <3>2. MappedAt(x) = all
        BY <3>1 DEF MappedAt
      <3> QED BY <2>1, <2>2, <2>3, <2>4, <3>2
    <2>5. CASE ~full
      <3>1. \A u \in all : acc_of(viewer[u].size) = x <=> viewer[u].size = viewer[v].size
        BY <1>1, <1>2, <1>b, <2>1, <2>5
      <3>2. MappedAt(x) = {u \in all : viewer[u].size = viewer[v].size}
        BY <3>1 DEF MappedAt
      <3> QED BY <2>1, <2>2, <2>3, <2>5, <3>2
    <2> QED BY <2>4, <2>5
  <1> QED BY <1>2 DEF WinCounts

-----------------------------------------------------------------------------
(* The parts together. *)

\* However opens, closes, clears and ends of processes interleave, the users of
\* a name share one object as long as nothing has raced, and on Windows they
\* count each other.
THEOREM OneForAll == OpenSpec => []OneObject
  <1> DEFINE Inv == SyncInv /\ WinSegInv
  <1>1. OpenInit => Inv
    <2> SUFFICES ASSUME OpenInit PROVE Inv
      OBVIOUS
    <2>1. SyncInit /\ kind \in Kinds \cup {"shm"} /\ WinSegInit
      BY DEF OpenInit
    <2> QED BY <2>1, LeftInit, CalmFirst, WinSegFirst DEF SyncInv
  <1>2. Inv /\ [OpenNext]_openVars => Inv'
    <2> SUFFICES ASSUME Inv, [OpenNext]_openVars PROVE Inv'
      OBVIOUS
    <2>1. SyncInv'
      BY SyncInductive, SyncStays DEF OpenNext, openVars
    <2>2. WinSegInv'
      BY WinSegInductive, WinSegStays DEF OpenNext, openVars
    <2> QED BY <2>1, <2>2
  <1>3. Inv => OneObject
    BY OneShared, WinAgree DEF OneObject
  <1> QED BY <1>1, <1>2, <1>3, PTL DEF OpenSpec
=============================================================================
