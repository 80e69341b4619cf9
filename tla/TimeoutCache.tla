----------------------------- MODULE TimeoutCache -----------------------------
(***************************************************************************)
(* internal/cache/timeout_catch.go: a cache whose entries are removed, and *)
(* their callback called, when a time.AfterFunc timer runs out.            *)
(*                                                                         *)
(* Every method runs under c.mu and is one action.  The timer fires        *)
(* outside the lock, and the goroutine it starts may get the lock late,    *)
(* when its entry has been removed and another one has taken its key: the  *)
(* flag `deleted` is there for that.  The callback itself runs outside     *)
(* the lock.  Time is abstract: an armed timer may fire at any moment.     *)
(***************************************************************************)
CONSTANTS
    Keys,
    Entries,     \* the *cacheEntry objects that can be allocated (bound)
    None         \* nil: what the map holds for an absent key

ASSUME CacheAssumption == None \notin Entries

VARIABLES
    cache,       \* the map c.cache
    key,         \* the key captured by the entry's AfterFunc closure
    phase,       \* of the entry's timer and of the goroutine it starts
    deleted      \* the entries whose flag `deleted` is set

vars == <<cache, key, phase, deleted>>

(* armed or stopped: the timer; fired: the goroutine waits for c.mu;       *)
(* calling, called: it has removed the entry and calls entry.cb; skipped:  *)
(* it found the entry deleted.                                             *)
Phases == {"new", "armed", "stopped", "fired", "calling", "called", "skipped"}

TypeOK ==
    /\ cache \in [Keys -> Entries \cup {None}]
    /\ key \in [Entries -> Keys]
    /\ phase \in [Entries -> Phases]
    /\ deleted \subseteq Entries
    /\ \A e \in deleted : phase[e] \in {"fired", "skipped"}

Init ==
    /\ cache = [k \in Keys |-> None]
    /\ key \in {[e \in Entries |-> k] : k \in Keys}
    /\ phase = [e \in Entries |-> "new"]
    /\ deleted = {}

(* Add(key, item, cb); with the key already there it changes nothing. *)
Add(k, e) ==
    /\ cache[k] = None
    /\ phase[e] = "new"
    /\ cache' = [cache EXCEPT ![k] = e]
    /\ key' = [key EXCEPT ![e] = k]
    /\ phase' = [phase EXCEPT ![e] = "armed"]
    /\ UNCHANGED deleted

(* !timer.Stop(): the timer has fired and its goroutine is on the way.      *)
(* Mutants: the ! is missing; the result is ignored.                        *)
MutInverted(e) == phase[e] = "armed"
MutIgnored(e)  == FALSE
TooLate(e)     == phase[e] # "armed"

(* remove(key) for each of a set of keys: an entry whose timer cannot be    *)
(* stopped any more is marked as deleted.                                   *)
remove(ks) ==
    LET gone == {e \in Entries : \E k \in ks : cache[k] = e}
    IN  /\ cache' = [k \in Keys |-> IF k \in ks THEN None ELSE cache[k]]
        /\ phase' = [e \in Entries |->
                       IF e \in gone /\ phase[e] = "armed" THEN "stopped" ELSE phase[e]]
        /\ deleted' = deleted \cup {e \in gone : TooLate(e)}
        /\ UNCHANGED key

Remove(k) == cache[k] # None /\ remove({k})
Clear     == remove(Keys)

(* The runtime: the time of the entry is over. *)
Fire(e) ==
    /\ phase[e] = "armed"
    /\ phase' = [phase EXCEPT ![e] = "fired"]
    /\ UNCHANGED <<cache, key, deleted>>

(* What the goroutine looks at first.  Mutant: the other way round. *)
MutLive(e) == e \in deleted
Live(e)    == e \notin deleted

(* The AfterFunc closure gets c.mu.  It deletes by key, not by entry. *)
Expire(e) ==
    /\ phase[e] = "fired"
    /\ Live(e)
    /\ cache' = [cache EXCEPT ![key[e]] = None]
    /\ phase' = [phase EXCEPT ![e] = "calling"]
    /\ UNCHANGED <<key, deleted>>

Skip(e) ==
    /\ phase[e] = "fired"
    /\ ~Live(e)
    /\ phase' = [phase EXCEPT ![e] = "skipped"]
    /\ UNCHANGED <<cache, key, deleted>>

CallbackReturns(e) ==
    /\ phase[e] = "calling"
    /\ phase' = [phase EXCEPT ![e] = "called"]
    /\ UNCHANGED <<cache, key, deleted>>

Runtime(e) == Fire(e) \/ Expire(e) \/ Skip(e) \/ CallbackReturns(e)

Next ==
    \/ \E k \in Keys : Remove(k) \/ \E e \in Entries : Add(k, e)
    \/ Clear
    \/ \E e \in Entries : Runtime(e)

(* Timers run out and the goroutines they start run on; callers owe nothing. *)
Fairness == \A e \in Entries : WF_vars(Runtime(e))

Spec == Init /\ [][Next]_vars
FairSpec == Spec /\ Fairness

-----------------------------------------------------------------------------
(***************************************************************************)
(* The goroutine of an entry that is not deleted still owns its key.  It   *)
(* deletes by key, so otherwise it would throw away an entry that was      *)
(* added later under the same key, whose timer and callback are its own.   *)
(***************************************************************************)
LateGoroutineOwnsKey ==
    \A e \in Entries :
        phase[e] \in {"armed", "fired"} /\ e \notin deleted => cache[key[e]] = e

(***************************************************************************)
(* The cache is an ExpiringMap: an item removed in time is never called    *)
(* back, one that expires is out of the map when its callback runs and is  *)
(* called once, and none is forgotten.                                     *)
(***************************************************************************)
Fate(e) ==
    IF phase[e] = "new" THEN "new"
    ELSE IF phase[e] \in {"calling", "called"} THEN "expired"
    ELSE IF e \in deleted \/ phase[e] \in {"stopped", "skipped"} THEN "taken"
    ELSE "kept"

Map == INSTANCE ExpiringMap WITH
         Items <- Entries, map <- cache, fate <- [e \in Entries |-> Fate(e)]

IsExpiringMap == Map!Spec

(* It is a fair ExpiringMap: the timers see to it that every item leaves. *)
ItemsLeave == Map!FairSpec

(* A callback that is due is called, whatever is removed or added meanwhile. *)
ExpiredAreCalled ==
    \A e \in Entries :
        phase[e] = "fired" ~> phase[e] = "called" \/ e \in deleted
=============================================================================
