----------------------------- MODULE MCChannel -----------------------------
(***************************************************************************)
(* The rings of many writers, each on an instance of its own: broadcast    *)
(* (ipc::channel) and unicast.  They do not interact; part says which one  *)
(* moves.                                                                  *)
(***************************************************************************)
EXTENDS ChannelRing, UnicastRing, TLC

VARIABLE part

ChannelInit ==
  /\ part \in {"broadcast", "unicast"}
  /\ Init /\ UniInit /\ (part # "unicast" => policy = "sm")

ChannelNext ==
  \/ part = "broadcast" /\ Next /\ UNCHANGED <<part, uniVars>>
  \/ part = "unicast" /\ UniNext /\ UNCHANGED <<part, vars>>

ChannelSpec == ChannelInit /\ [][ChannelNext]_<<part, vars, uniVars>>

Symmetry == Permutations(Producers) \cup Permutations(Readers)
              \cup Permutations(UniProducers) \cup Permutations(UniConsumers)
=============================================================================
