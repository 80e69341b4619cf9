----------------------------- MODULE ExpiringMap -----------------------------
(***************************************************************************)
(* What internal/cache/timeout_catch.go promises its callers: a map in     *)
(* which an item stays until somebody takes it out or its time is over,    *)
(* and only in the second case its callback runs, once.                    *)
(***************************************************************************)
CONSTANTS
    Keys,
    Items,       \* the items callers add, each at most once
    None         \* of an absent key; no item

VARIABLES
    map,         \* the item of each key, or None
    fate         \* of each item: new, kept, taken or expired

vars == <<map, fate>>

Fates == {"new", "kept", "taken", "expired"}

TypeOK ==
    /\ map \in [Keys -> Items \cup {None}]
    /\ fate \in [Items -> Fates]

Init ==
    /\ map = [k \in Keys |-> None]
    /\ fate = [x \in Items |-> "new"]

Put(k, x) ==
    /\ map[k] = None
    /\ fate[x] = "new"
    /\ map' = [map EXCEPT ![k] = x]
    /\ fate' = [fate EXCEPT ![x] = "kept"]

(* The items under a set of keys leave the map and share a fate. *)
Leave(ks, end) ==
    /\ map' = [k \in Keys |-> IF k \in ks THEN None ELSE map[k]]
    /\ fate' = [x \in Items |-> IF \E k \in ks : map[k] = x THEN end ELSE fate[x]]

Take(k)   == map[k] # None /\ Leave({k}, "taken")
TakeAll   == Leave(Keys, "taken")
Expire(k) == map[k] # None /\ Leave({k}, "expired")

Next ==
    \/ \E k \in Keys : (\E x \in Items : Put(k, x)) \/ Take(k) \/ Expire(k)
    \/ TakeAll

(* No item stays for ever. *)
Spec == Init /\ [][Next]_vars
FairSpec == Spec /\ \A k \in Keys : WF_vars(Take(k) \/ Expire(k))
=============================================================================
