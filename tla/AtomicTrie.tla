----------------------------- MODULE AtomicTrie -----------------------------
(***************************************************************************)
(* What tries promise their concurrent users: every update that has begun  *)
(* takes effect at one moment, exactly once, or fails, and nothing else    *)
(* changes what is stored.                                                 *)
(***************************************************************************)
CONSTANTS Ids, Tries, Keys, Values

VARIABLES
    map,        \* trie -> key -> value
    pending     \* the updates under way

vars == <<map, pending>>

Update == [id : Ids, trie : Tries, key : Keys, value : Values]

Init ==
    /\ map \in [Tries -> [Keys -> Values]]
    /\ pending = {}

Begin(u) ==
    /\ \A w \in pending : w.id # u.id
    /\ pending' = pending \cup {u}
    /\ UNCHANGED map

Apply(u) ==
    /\ u \in pending
    /\ pending' = pending \ {u}
    /\ map' = [map EXCEPT ![u.trie] = [@ EXCEPT ![u.key] = u.value]]

Fail(u) ==
    /\ u \in pending
    /\ pending' = pending \ {u}
    /\ UNCHANGED map

Next == \E u \in Update : Begin(u) \/ Apply(u) \/ Fail(u)

Spec == Init /\ [][Next]_vars

=============================================================================
