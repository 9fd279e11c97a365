---------------------------- MODULE BroadcastLog ----------------------------
(***************************************************************************)
(* What a broadcast queue promises its subscribers: a log that grows at    *)
(* one end, from which each subscriber takes every message appended since  *)
(* it subscribed, in order and once, and which never runs more than N      *)
(* messages ahead of a subscriber.                                         *)
(***************************************************************************)
EXTENDS Integers

CONSTANTS N, Readers

Nothing == -1

VARIABLES
  len,   \* number of messages appended; message k is the k-th
  on,    \* which readers are subscribed
  at,    \* the first message each subscriber has not finished with
  hand   \* the message it has in hand, if any

logVars == <<len, on, at, hand>>

Init ==
  /\ len = 0
  /\ on = [r \in Readers |-> FALSE]
  /\ at = [r \in Readers |-> 0]
  /\ hand = [r \in Readers |-> Nothing]

\* The log is never more than N messages ahead of a subscriber.
Append ==
  /\ \A r \in Readers : on[r] => len < at[r] + N
  /\ len' = len + 1
  /\ UNCHANGED <<on, at, hand>>

Subscribe(r) ==
  /\ ~on[r]
  /\ on' = [on EXCEPT ![r] = TRUE]
  /\ at' = [at EXCEPT ![r] = len]
  /\ UNCHANGED <<len, hand>>

\* Any number of subscribers may be dropped at once.
Drop(S) ==
  /\ on' = [r \in Readers |-> on[r] /\ r \notin S]
  /\ at' = [r \in Readers |-> IF r \in S THEN 0 ELSE at[r]]
  /\ hand' = [r \in Readers |-> IF r \in S THEN Nothing ELSE hand[r]]
  /\ UNCHANGED len

\* A subscriber takes the very next message, which must have been appended.
Take(r) ==
  /\ on[r] /\ hand[r] = Nothing
  /\ at[r] < len
  /\ hand' = [hand EXCEPT ![r] = at[r]]
  /\ UNCHANGED <<len, on, at>>

Finish(r) ==
  /\ on[r] /\ hand[r] # Nothing
  /\ hand' = [hand EXCEPT ![r] = Nothing]
  /\ at' = [at EXCEPT ![r] = @ + 1]
  /\ UNCHANGED <<len, on>>

Next ==
  \/ Append
  \/ \E r \in Readers : Subscribe(r) \/ Take(r) \/ Finish(r)
  \/ \E S \in SUBSET Readers : Drop(S)

Spec == Init /\ [][Next]_logVars
=============================================================================
