---------------------------- MODULE MCMessages ----------------------------
(***************************************************************************)
(* What a receiver waits for, each part on an instance of its own: the     *)
(* ring of one writer and one reader, messages in pieces, and blocking     *)
(* recv.  The parts do not interact; part says which one moves, and the    *)
(* others stay in their initial states, in which no fair action is enabled.*)
(***************************************************************************)
EXTENDS PairRing, Fragments, Waiter

VARIABLE part

messagesVars == <<part, pairVars, fragVars, waiterVars>>

MessagesInit ==
  part \in {"pair", "fragments", "waiter"} /\ PairInit /\ FragInit /\ WaiterInit

MessagesNext ==
  \/ part = "pair" /\ PairNext /\ UNCHANGED <<part, fragVars, waiterVars>>
  \/ part = "fragments" /\ FragNext /\ UNCHANGED <<part, pairVars, waiterVars>>
  \/ part = "waiter" /\ WaiterNext /\ UNCHANGED <<part, pairVars, fragVars>>

MessagesSpec == /\ MessagesInit /\ [][MessagesNext]_messagesVars
                /\ PairFairness /\ FragFairness /\ WaiterFairness
=============================================================================
