-------------------------- MODULE TimeoutCacheProofs --------------------------
(***************************************************************************)
(* For any keys and entries, a TimeoutCache is an ExpiringMap.             *)
(*                                                                         *)
(* The step that needs an argument is Expire: the goroutine deletes the    *)
(* key it captured, and that is the removal of ITS entry only if the map   *)
(* still has the entry there (LateGoroutineOwnsKey).  That is preserved by *)
(* an Add because the key is then free, and by a remove because the entry  *)
(* it takes out is stopped or marked; it needs in turn that the entries in *)
(* the map are the ones whose timers have not been dealt with.             *)
(***************************************************************************)
EXTENDS TimeoutCache, Naturals, TLAPS

(* The map holds entries whose timer or goroutine is still to act, under    *)
(* the key that goroutine will delete.                                      *)
KeptEntriesCanExpire ==
    \A k \in Keys :
        cache[k] # None => /\ phase[cache[k]] \in {"armed", "fired"}
                           /\ cache[k] \notin deleted
                           /\ key[cache[k]] = k

IInv ==
    /\ TypeOK
    /\ KeptEntriesCanExpire
    /\ LateGoroutineOwnsKey

-----------------------------------------------------------------------------
(* NewTimeoutCache: the empty cache. *)
LEMMA InitIInv == Init => IInv
<1> SUFFICES ASSUME Init PROVE IInv
  OBVIOUS
<1>1. key \in [Entries -> Keys]
  BY DEF Init
<1>2. TypeOK
  BY <1>1 DEF Init, TypeOK, Phases
<1>3. KeptEntriesCanExpire /\ LateGoroutineOwnsKey
  BY DEF Init, KeptEntriesCanExpire, LateGoroutineOwnsKey
<1> QED
  BY <1>2, <1>3 DEF IInv

(* Add under a free key leaves every other entry where it was. *)
LEMMA AddKeepsIInv ==
    ASSUME IInv, NEW k \in Keys, NEW e \in Entries, Add(k, e)
    PROVE  IInv'
<1> USE CacheAssumption DEF IInv
<1>1. /\ cache[k] = None /\ phase[e] = "new"
      /\ cache' = [cache EXCEPT ![k] = e] /\ key' = [key EXCEPT ![e] = k]
      /\ phase' = [phase EXCEPT ![e] = "armed"] /\ deleted' = deleted
  BY DEF Add
<1>2. e \notin deleted /\ \A j \in Keys : cache[j] # e
  BY <1>1 DEF TypeOK, KeptEntriesCanExpire
<1>3. TypeOK'
  BY <1>1, <1>2 DEF TypeOK, Phases
<1>4. KeptEntriesCanExpire'
  BY <1>1, <1>2 DEF TypeOK, KeptEntriesCanExpire
<1>5. LateGoroutineOwnsKey'
  <2> SUFFICES ASSUME NEW x \in Entries, phase'[x] \in {"armed", "fired"},
                      x \notin deleted
               PROVE  cache'[key'[x]] = x
    BY <1>1 DEF LateGoroutineOwnsKey
  <2>1. CASE x = e
    BY <1>1, <2>1 DEF TypeOK
  <2>2. CASE x # e
    <3>1. cache[key[x]] = x
      BY <1>1, <2>2 DEF TypeOK, LateGoroutineOwnsKey
    <3> QED
      BY <1>1, <2>2, <3>1 DEF TypeOK
  <2> QED
    BY <2>1, <2>2
<1> QED
  BY <1>3, <1>4, <1>5

(* remove stops or marks exactly the entries it takes out. *)
LEMMA RemoveKeepsIInv ==
    ASSUME IInv, NEW ks \in SUBSET Keys, remove(ks)
    PROVE  IInv'
<1> USE CacheAssumption DEF IInv
<1> DEFINE gone == {e \in Entries : \E k \in ks : cache[k] = e}
<1>1. /\ cache' = [k \in Keys |-> IF k \in ks THEN None ELSE cache[k]]
      /\ phase' = [e \in Entries |->
                     IF e \in gone /\ phase[e] = "armed" THEN "stopped" ELSE phase[e]]
      /\ deleted' = deleted \cup {e \in gone : phase[e] # "armed"} /\ key' = key
  BY DEF remove, TooLate
<1>2. \A e \in gone : phase[e] \in {"armed", "fired"} /\ key[e] \in ks /\ e \notin deleted
  BY DEF TypeOK, KeptEntriesCanExpire
<1>3. gone \subseteq Entries
  OBVIOUS
<1> HIDE DEF gone
<1>4. TypeOK'
  BY <1>1, <1>2, <1>3 DEF TypeOK, Phases
<1>5. KeptEntriesCanExpire'
  <2> SUFFICES ASSUME NEW k \in Keys, cache'[k] # None
               PROVE  /\ phase'[cache'[k]] \in {"armed", "fired"}
                      /\ cache'[k] \notin deleted' /\ key'[cache'[k]] = k
    BY DEF KeptEntriesCanExpire
  <2>1. k \notin ks /\ cache'[k] = cache[k] /\ cache[k] \in Entries
    BY <1>1 DEF TypeOK
  <2>2. cache[k] \notin gone
    BY <1>2, <2>1 DEF KeptEntriesCanExpire
  <2> QED
    BY <1>1, <1>3, <2>1, <2>2 DEF KeptEntriesCanExpire
<1>6. LateGoroutineOwnsKey'
  <2> SUFFICES ASSUME NEW e \in Entries, phase'[e] \in {"armed", "fired"},
                      e \notin deleted'
               PROVE  cache'[key'[e]] = e
    BY DEF LateGoroutineOwnsKey
  <2>1. e \notin gone /\ phase[e] \in {"armed", "fired"} /\ e \notin deleted
    BY <1>1, <1>3
  <2>2. cache[key[e]] = e /\ key[e] \in Keys
    BY <2>1 DEF TypeOK, LateGoroutineOwnsKey
  <2>3. key[e] \notin ks
    BY <2>1, <2>2 DEF gone
  <2> QED
    BY <1>1, <2>2, <2>3
<1> QED
  BY <1>4, <1>5, <1>6

(* A timer or a goroutine acts for its own entry only. *)
LEMMA RuntimeKeepsIInv ==
    ASSUME IInv, NEW e \in Entries, Runtime(e)
    PROVE  IInv'
<1> USE CacheAssumption DEF IInv
<1>1. CASE Fire(e)
  BY <1>1 DEF Fire, TypeOK, Phases, KeptEntriesCanExpire, LateGoroutineOwnsKey
<1>2. CASE Expire(e)
  <2>1. /\ phase[e] = "fired" /\ e \notin deleted /\ cache[key[e]] = e
        /\ cache' = [cache EXCEPT ![key[e]] = None]
        /\ phase' = [phase EXCEPT ![e] = "calling"]
        /\ key' = key /\ deleted' = deleted
    BY <1>2 DEF Expire, Live, LateGoroutineOwnsKey
  <2>2. TypeOK'
    BY <2>1 DEF TypeOK, Phases
  <2>3. KeptEntriesCanExpire'
    BY <2>1 DEF TypeOK, KeptEntriesCanExpire
  <2>4. LateGoroutineOwnsKey'
    BY <2>1 DEF TypeOK, LateGoroutineOwnsKey
  <2> QED
    BY <2>2, <2>3, <2>4
<1>3. CASE Skip(e) \/ CallbackReturns(e)
  BY <1>3 DEF Skip, Live, CallbackReturns, TypeOK, Phases, KeptEntriesCanExpire,
              LateGoroutineOwnsKey
<1> QED
  BY <1>1, <1>2, <1>3 DEF Runtime

LEMMA NextKeepsIInv == IInv /\ [Next]_vars => IInv'
<1> SUFFICES ASSUME IInv, [Next]_vars PROVE IInv'
  OBVIOUS
<1>1. ASSUME NEW k \in Keys, Remove(k) \/ \E e \in Entries : Add(k, e) PROVE IInv'
  BY <1>1, AddKeepsIInv, RemoveKeepsIInv DEF Remove
<1>2. CASE Clear
  BY <1>2, RemoveKeepsIInv DEF Clear
<1>3. CASE UNCHANGED vars
  BY <1>3 DEF vars, IInv, TypeOK, KeptEntriesCanExpire, LateGoroutineOwnsKey
<1> QED
  BY <1>1, <1>2, <1>3, RuntimeKeepsIInv DEF Next

LEMMA AlwaysIInv == Spec => []IInv
BY InitIInv, NextKeepsIInv, PTL DEF Spec

-----------------------------------------------------------------------------
(* Type correctness of the cache. *)
THEOREM TypeCorrect == Spec => []TypeOK
BY AlwaysIInv, PTL DEF IInv

(* A goroutine that will delete a key deletes its own entry, for any number *)
(* of entries that come and go under that key while it waits for the lock.  *)
THEOREM LateGoroutinesOwnTheirKeys == Spec => []LateGoroutineOwnsKey
BY AlwaysIInv, PTL DEF IInv

-----------------------------------------------------------------------------
(* The abstraction of the empty cache is the empty map. *)
LEMMA InitRefines == Init => Map!Init
BY DEF Init, Fate, Map!Init

(* Taking a set of keys out of the cache gives their entries one fate.      *)
LEMMA LeaveRefines ==
    ASSUME IInv, NEW ks \in SUBSET Keys, NEW end,
           cache' = [k \in Keys |-> IF k \in ks THEN None ELSE cache[k]],
           \A e \in Entries : Fate(e)' = IF \E k \in ks : cache[k] = e
                                         THEN end ELSE Fate(e)
    PROVE  Map!Leave(ks, end)
BY DEF Map!Leave

(* remove of the code is Leave of the map, with the fate "taken". *)
LEMMA RemoveRefines ==
    ASSUME IInv, NEW ks \in SUBSET Keys, remove(ks)
    PROVE  Map!Leave(ks, "taken")
<1> DEFINE gone == {e \in Entries : \E k \in ks : cache[k] = e}
<1>1. /\ cache' = [k \in Keys |-> IF k \in ks THEN None ELSE cache[k]]
      /\ phase' = [e \in Entries |->
                     IF e \in gone /\ phase[e] = "armed" THEN "stopped" ELSE phase[e]]
      /\ deleted' = deleted \cup {e \in gone : phase[e] # "armed"}
  BY DEF remove, TooLate
<1>2. \A e \in gone : phase[e] \in {"armed", "fired"}
  BY CacheAssumption DEF IInv, TypeOK, KeptEntriesCanExpire
<1>3. ASSUME NEW e \in Entries
      PROVE  Fate(e)' = IF \E k \in ks : cache[k] = e THEN "taken" ELSE Fate(e)
  BY <1>1, <1>2 DEF Fate
<1> QED
  BY <1>1, <1>3, LeaveRefines

(* The step of the argument above: the key Expire deletes holds its entry. *)
LEMMA ExpireRefines ==
    ASSUME IInv, NEW e \in Entries, Expire(e)
    PROVE  \E k \in Keys : Map!Expire(k)
<1>1. /\ phase[e] = "fired" /\ e \notin deleted /\ cache[key[e]] = e
      /\ cache' = [cache EXCEPT ![key[e]] = None]
      /\ phase' = [phase EXCEPT ![e] = "calling"] /\ deleted' = deleted
      /\ key[e] \in Keys
  BY DEF Expire, Live, IInv, TypeOK, LateGoroutineOwnsKey
<1>2. cache' = [k \in Keys |-> IF k \in {key[e]} THEN None ELSE cache[k]]
  BY <1>1 DEF IInv, TypeOK
<1>3. ASSUME NEW x \in Entries
      PROVE  Fate(x)' = IF \E k \in {key[e]} : cache[k] = x THEN "expired" ELSE Fate(x)
  BY <1>1 DEF Fate, IInv, TypeOK
<1>4. Map!Leave({key[e]}, "expired")
  BY <1>1, <1>2, <1>3, LeaveRefines
<1> QED
  BY <1>1, <1>4, CacheAssumption DEF Map!Expire

LEMMA NextRefines == IInv /\ [Next]_vars => [Map!Next]_(Map!vars)
<1> SUFFICES ASSUME IInv, [Next]_vars PROVE Map!Next \/ UNCHANGED Map!vars
  OBVIOUS
<1>1. ASSUME NEW k \in Keys, NEW e \in Entries, Add(k, e) PROVE Map!Next
  <2>1. /\ cache[k] = None /\ phase[e] = "new" /\ e \notin deleted
        /\ cache' = [cache EXCEPT ![k] = e]
        /\ phase' = [phase EXCEPT ![e] = "armed"] /\ deleted' = deleted
    BY <1>1 DEF Add, IInv, TypeOK
  <2>2. \A x \in Entries : Fate(x)' = IF x = e THEN "kept" ELSE Fate(x)
    BY <2>1 DEF Fate, IInv, TypeOK
  <2>3. Fate(e) = "new"
    BY <2>1 DEF Fate
  <2>4. Map!Put(k, e)
    BY <2>1, <2>2, <2>3 DEF Map!Put
  <2> QED
    BY <2>4 DEF Map!Next
<1>2. ASSUME NEW k \in Keys, Remove(k) PROVE Map!Next
  BY <1>2, RemoveRefines DEF Remove, Map!Next, Map!Take
<1>3. CASE Clear
  BY <1>3, RemoveRefines DEF Clear, Map!Next, Map!TakeAll
<1>4. ASSUME NEW e \in Entries, Runtime(e) PROVE Map!Next \/ UNCHANGED Map!vars
  <2>1. CASE Expire(e)
    BY <2>1, ExpireRefines DEF Map!Next
  <2>2. ASSUME Fire(e) \/ Skip(e) \/ CallbackReturns(e) PROVE UNCHANGED Map!vars
    <3>1. cache' = cache /\ deleted' = deleted
      BY <2>2 DEF Fire, Skip, CallbackReturns
    <3>2. CASE Fire(e)
      BY <3>1, <3>2 DEF Fire, Fate, IInv, TypeOK, Map!vars
    <3>3. CASE Skip(e)
      BY <3>1, <3>3 DEF Skip, Live, Fate, IInv, TypeOK, Map!vars
    <3>4. CASE CallbackReturns(e)
      BY <3>1, <3>4 DEF CallbackReturns, Fate, IInv, TypeOK, Map!vars
    <3> QED
      BY <2>2, <3>2, <3>3, <3>4
  <2> QED
    BY <1>4, <2>1, <2>2 DEF Runtime
<1>5. CASE UNCHANGED vars
  BY <1>5 DEF vars, Map!vars, Fate
<1> QED
  BY <1>1, <1>2, <1>3, <1>4, <1>5 DEF Next

(* The cache implements the map: a removed entry is never called back, an   *)
(* expired one leaves the map and is called, and Add, Remove and Clear see  *)
(* nothing of the goroutines in between.                                    *)
THEOREM ImplementsExpiringMap == Spec => IsExpiringMap
<1>1. Spec => Map!Init /\ [][Map!Next]_(Map!vars)
  BY AlwaysIInv, InitRefines, NextRefines, PTL DEF Spec
<1> QED
  BY <1>1 DEF IsExpiringMap, Map!Spec

-----------------------------------------------------------------------------
(* What is in the cache is on its way out: its timer runs or its goroutine  *)
(* waits for the lock, and will take out this entry and not another.        *)
THEOREM KeptEntriesWillExpire == Spec => []KeptEntriesCanExpire
BY AlwaysIInv, PTL DEF IInv

(* How many steps of the runtime are still between an entry and its end. *)
Age(e) ==
    CASE phase[e] = "new"     -> 4
      [] phase[e] = "armed"   -> 3
      [] phase[e] = "fired"   -> 2
      [] phase[e] = "calling" -> 1
      [] OTHER                -> 0

(* Nothing puts an entry back: callers can only take it out, and every step *)
(* of its timer, goroutine or callback is its last of that kind.  So it is  *)
(* called once at most, and with fair timers it leaves.                     *)
THEOREM EntriesOnlyGetOlder ==
    Spec => [][\A e \in Entries : Age(e)' <= Age(e) /\ (Runtime(e) => Age(e)' < Age(e))]_vars
<1> DEFINE Older == \A e \in Entries : Age(e)' <= Age(e) /\ (Runtime(e) => Age(e)' < Age(e))
<1>1. ASSUME IInv, Next, NEW e \in Entries
      PROVE  Age(e)' <= Age(e) /\ (Runtime(e) => Age(e)' < Age(e))
  <2>1. phase \in [Entries -> Phases]
    BY <1>1 DEF IInv, TypeOK
  <2>2. Runtime(e) => Age(e)' < Age(e)
    BY <2>1 DEF Runtime, Fire, Expire, Skip, CallbackReturns, Age
  <2>3. ASSUME NEW x \in Entries, Runtime(x), x # e PROVE phase'[e] = phase[e]
    BY <2>1, <2>3 DEF Runtime, Fire, Expire, Skip, CallbackReturns
  <2>4. ASSUME NEW k \in Keys, NEW x \in Entries, Add(k, x) PROVE Age(e)' <= Age(e)
    BY <2>1, <2>4 DEF Add, Age
  <2>5. ASSUME NEW ks, remove(ks) PROVE Age(e)' <= Age(e)
    <3>1. phase'[e] = phase[e] \/ (phase[e] = "armed" /\ phase'[e] = "stopped")
      BY <2>1, <2>5 DEF remove
    <3> QED
      BY <2>1, <3>1 DEF Age
  <2>6. phase'[e] = phase[e] => Age(e)' <= Age(e)
    BY <2>1 DEF Age
  <2>7. Runtime(e) => Age(e)' <= Age(e)
    BY <2>1 DEF Runtime, Fire, Expire, Skip, CallbackReturns, Age
  <2> QED
    BY <1>1, <2>2, <2>3, <2>4, <2>5, <2>6, <2>7 DEF Next, Remove, Clear
<1>2. IInv /\ [Next]_vars => [Older]_vars
  BY <1>1
<1> QED
  BY <1>2, AlwaysIInv, PTL DEF Spec
=============================================================================
