---------------------------- MODULE MCChannelRing ----------------------------
(* ChannelRing on small instances. *)
EXTENDS ChannelRing, TLC

Symmetry == Permutations(Producers) \cup Permutations(Readers)
=============================================================================
