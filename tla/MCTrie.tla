------------------------------- MODULE MCTrie -------------------------------
(* Instances of Trie for TLC.                                              *)
EXTENDS Trie

(* Keys of different lengths, one a prefix of another: two short nodes that *)
(* meet when <<1, 0>> or <<0>> goes.                                       *)
ThreeKeys == {<<0>>, <<0, 0>>, <<1, 0>>}

=============================================================================
