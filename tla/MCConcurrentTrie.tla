-------------------------- MODULE MCConcurrentTrie --------------------------
(* Instances of ConcurrentTrie for TLC: all keys begin with nibbles of one *)
(* channel, so that answers may be exchanged.                              *)
EXTENDS ConcurrentTrie

CONSTANT ch1

MCChannelOf == [x \in Keys |-> ch1]

=============================================================================
