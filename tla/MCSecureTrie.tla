---------------------------- MODULE MCSecureTrie ----------------------------
(* Instances of SecureTrie for TLC: both keys hash to one channel.         *)
EXTENDS SecureTrie

CONSTANTS ch1

MCChannelOf == [x \in Keys |-> ch1]

=============================================================================
