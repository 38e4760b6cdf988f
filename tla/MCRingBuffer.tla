---------------------------- MODULE MCRingBuffer ----------------------------
(* RingBuffer on two pollers, with symmetric pollers, readers, dispatchers. *)
EXTENDS RingBuffer, TLC

Symmetry == Permutations(Pollers) \cup Permutations(Readers) \cup Permutations(Dispatchers)
=============================================================================
