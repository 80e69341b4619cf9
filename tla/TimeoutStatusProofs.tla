-------------------------- MODULE TimeoutStatusProofs --------------------------
(***************************************************************************)
(* What TimeoutStatus keeps true for any number of keys and timers.        *)
(*                                                                         *)
(* None of the invariants is inductive alone.  That an active state will   *)
(* expire needs that no other entry has its timer (or stopping that entry  *)
(* would stop this one) and that a func timer belongs to the entry that    *)
(* holds it (or its callback would switch off another key).  Those need    *)
(* that a timer which was never allocated is idle and in no entry.         *)
(***************************************************************************)
EXTENDS TimeoutStatus, TLAPS

(* Every entry has its timer to itself, and if that is a func timer it      *)
(* calls back for this entry's key.                                         *)
TimersNotShared ==
    \A k \in status :
        /\ timer[k] \in Timers
        /\ kind[timer[k]] = "func" => owner[timer[k]] = k
        /\ \A j \in status : timer[j] = timer[k] => j = k

(* The entries hold timers that have been allocated. *)
EntriesHoldTimers ==
    \A k \in status : timer[k] \in Timers /\ kind[timer[k]] # "unused"

(* A timer that was never allocated is idle; only a chan timer has a channel. *)
TimersByKind ==
    \A t \in Timers :
        /\ kind[t] = "unused" => t \notin armed /\ pending[t] = 0
        /\ t \in full => kind[t] = "chan"

(* The key that Over is about to delete still has its entry. *)
OverHasEntry == over \subseteq status

IInv ==
    /\ TypeOK
    /\ OverHasEntry
    /\ EntriesHoldTimers
    /\ TimersByKind
    /\ TimersNotShared
    /\ NoStaleTick
    /\ ActiveWillExpire

-----------------------------------------------------------------------------
(* NewTimeoutStatus: the empty table satisfies the invariant. *)
LEMMA InitIInv == Init => IInv
<1> SUFFICES ASSUME Init PROVE IInv
  OBVIOUS
<1>1. owner \in [Timers -> Keys]
  BY DEF Init
<1>2. TypeOK
  BY <1>1 DEF Init, TypeOK, Kinds
<1>3. /\ OverHasEntry /\ EntriesHoldTimers /\ TimersNotShared
      /\ NoStaleTick /\ ActiveWillExpire
  BY DEF Init, OverHasEntry, EntriesHoldTimers, TimersNotShared, NoStaleTick, ActiveWillExpire
<1>4. TimersByKind
  BY DEF Init, TimersByKind
<1> QED
  BY <1>2, <1>3, <1>4 DEF IInv

(* Stopping a timer and draining its channel (Drained) leaves no value in   *)
(* the channel of a timer that runs or is about to run.                     *)
LEMMA DrainedIsClean ==
    ASSUME NoStaleTick, NEW t
    PROVE  /\ Drained(t) \subseteq full
           /\ (armed \cup {t}) \cap Drained(t) = {}
BY DEF NoStaleTick, Drained

LEMMA AddKeepsIInv ==
    ASSUME IInv, NEW k \in Keys, Add(k)
    PROVE  IInv'
<1> USE DEF IInv
<1>1. PICK t \in Timers :
        /\ kind[t] = "unused"
        /\ kind' = [kind EXCEPT ![t] = "chan"]
        /\ armed' = armed \cup {t}
        /\ timer' = [timer EXCEPT ![k] = t]
  BY DEF Add, Unused
<1>2. /\ status' = status \cup {k} /\ ok' = [ok EXCEPT ![k] = FALSE]
      /\ UNCHANGED <<owner, full, pending, notifying, over, crashed>>
  BY DEF Add, lockVars
<1>3. TypeOK' /\ OverHasEntry'
  BY <1>1, <1>2 DEF TypeOK, OverHasEntry, Kinds
<1>4. \A j \in status : j # k /\ timer[j] # t
  BY <1>1 DEF Add, EntriesHoldTimers
<1>5. EntriesHoldTimers' /\ TimersByKind'
  BY <1>1, <1>2, <1>4 DEF TypeOK, Kinds, EntriesHoldTimers, TimersByKind
<1>6. TimersNotShared'
  BY <1>1, <1>2, <1>4 DEF TypeOK, EntriesHoldTimers, TimersNotShared
<1>7. NoStaleTick'
  BY <1>1, <1>2 DEF TypeOK, TimersByKind, NoStaleTick
<1>8. ActiveWillExpire'
  BY <1>1, <1>2, <1>4 DEF TypeOK, EntriesHoldTimers, ActiveWillExpire
<1> QED
  BY <1>3, <1>5, <1>6, <1>7, <1>8

LEMMA StartKeepsIInv ==
    ASSUME IInv, NEW k \in Keys, Start(k)
    PROVE  IInv'
<1> USE DEF IInv
<1>1. PICK t \in Timers :
        /\ kind[t] = "unused"
        /\ kind' = [kind EXCEPT ![t] = "func"]
        /\ owner' = [owner EXCEPT ![t] = k]
        /\ armed' = armed \cup {t}
        /\ timer' = [timer EXCEPT ![k] = t]
  BY DEF Start, Unused
<1>2. /\ k \in status /\ ok' = [ok EXCEPT ![k] = TRUE]
      /\ UNCHANGED <<status, full, pending, notifying, over, crashed>>
  BY DEF Start, lockVars
<1>3. TypeOK' /\ OverHasEntry'
  BY <1>1, <1>2 DEF TypeOK, OverHasEntry, Kinds
<1>4. \A j \in status : timer[j] # t
  BY <1>1 DEF EntriesHoldTimers
<1>5. EntriesHoldTimers' /\ TimersByKind'
  BY <1>1, <1>2, <1>4 DEF TypeOK, Kinds, EntriesHoldTimers, TimersByKind
<1>6. TimersNotShared'
  BY <1>1, <1>2, <1>4 DEF TypeOK, EntriesHoldTimers, TimersNotShared
<1>7. NoStaleTick'
  BY <1>1, <1>2 DEF TypeOK, TimersByKind, NoStaleTick
<1>8. ActiveWillExpire'
  BY <1>1, <1>2, <1>4 DEF TypeOK, EntriesHoldTimers, ActiveWillExpire
<1> QED
  BY <1>3, <1>5, <1>6, <1>7, <1>8

LEMMA RenewalKeepsIInv ==
    ASSUME IInv, NEW k \in Keys, Renewal(k)
    PROVE  IInv'
<1> USE DEF IInv
<1>1. /\ k \in status /\ ok' = [ok EXCEPT ![k] = TRUE]
      /\ full' = Drained(timer[k]) /\ armed' = armed \cup {timer[k]}
      /\ UNCHANGED <<status, timer, kind, owner, pending, notifying, over, crashed>>
  BY DEF Renewal, Reset, lockVars
<1>2. timer[k] \in Timers /\ kind[timer[k]] # "unused"
  BY <1>1 DEF EntriesHoldTimers
<1>3. full' \subseteq full /\ NoStaleTick'
  BY <1>1, DrainedIsClean DEF NoStaleTick
<1>4. TypeOK' /\ OverHasEntry'
  BY <1>1, <1>2, <1>3 DEF TypeOK, OverHasEntry
<1>5. EntriesHoldTimers' /\ TimersByKind' /\ TimersNotShared'
  BY <1>1, <1>2, <1>3 DEF EntriesHoldTimers, TimersByKind, TimersNotShared
<1>6. ActiveWillExpire'
  BY <1>1 DEF TypeOK, ActiveWillExpire
<1> QED
  BY <1>3, <1>4, <1>5, <1>6

LEMMA ExitKeepsIInv ==
    ASSUME IInv, NEW k \in Keys, Exit(k)
    PROVE  IInv'
<1> USE DEF IInv
<1>1. /\ k \in status /\ ok' = [ok EXCEPT ![k] = FALSE] /\ notifying' = TRUE
      /\ full' = Drained(timer[k]) /\ armed' = armed \ {timer[k]} /\ over = {}
      /\ UNCHANGED <<status, timer, kind, owner, pending, over, crashed>>
  BY DEF Exit, Unlocked
<1>2. full' \subseteq full /\ NoStaleTick'
  BY <1>1, DrainedIsClean DEF NoStaleTick
<1>3. TypeOK' /\ OverHasEntry'
  BY <1>1, <1>2 DEF TypeOK, OverHasEntry
<1>4. EntriesHoldTimers' /\ TimersByKind' /\ TimersNotShared'
  BY <1>1, <1>2 DEF EntriesHoldTimers, TimersByKind, TimersNotShared
<1>5. ActiveWillExpire'
  BY <1>1 DEF TypeOK, TimersNotShared, ActiveWillExpire
<1> QED
  BY <1>2, <1>3, <1>4, <1>5

LEMMA OverFinishKeepsIInv ==
    ASSUME IInv, NEW k \in Keys, OverFinish(k)
    PROVE  IInv'
<1> USE DEF IInv
<1>1. /\ ok' = [ok EXCEPT ![k] = FALSE] /\ timer' = [timer EXCEPT ![k] = NoTimer]
      /\ status' = status \ {k} /\ over' = {}
      /\ full' = Drained(timer[k]) /\ armed' = armed \ {timer[k]}
      /\ UNCHANGED <<kind, owner, pending, notifying, crashed>>
  BY DEF OverFinish
<1>2. full' \subseteq full /\ NoStaleTick'
  BY <1>1, DrainedIsClean DEF NoStaleTick
<1>3. TypeOK' /\ OverHasEntry'
  BY <1>1, <1>2 DEF TypeOK, OverHasEntry
<1>4. EntriesHoldTimers' /\ TimersByKind' /\ TimersNotShared'
  BY <1>1, <1>2 DEF TypeOK, EntriesHoldTimers, TimersByKind, TimersNotShared
<1>5. \A j \in status' : j \in status /\ timer'[j] = timer[j] /\ ok'[j] = ok[j]
  BY <1>1 DEF TypeOK
<1>6. ActiveWillExpire'
  <2> SUFFICES ASSUME NEW j \in status', ok'[j], kind'[timer'[j]] = "func"
               PROVE  timer'[j] \in armed' \/ pending'[timer'[j]] > 0
    BY DEF ActiveWillExpire
  <2>1. timer[j] \in armed \/ pending[timer[j]] > 0
    BY <1>1, <1>5 DEF ActiveWillExpire
  <2>2. timer[j] # timer[k]
    BY <1>1, <1>5 DEF OverFinish, OverHasEntry, TimersNotShared
  <2> QED
    BY <1>1, <1>5, <2>1, <2>2
<1> QED
  BY <1>2, <1>3, <1>4, <1>6

LEMMA FireKeepsIInv ==
    ASSUME IInv, NEW t \in Timers, Fire(t)
    PROVE  IInv'
<1> USE DEF IInv
<1>1. /\ t \in armed /\ armed' = armed \ {t}
      /\ UNCHANGED <<status, ok, timer, kind, owner, notifying, over, crashed>>
  BY DEF Fire, entryVars, lockVars
<1>2. CASE kind[t] = "chan" /\ full' = full \cup {t} /\ UNCHANGED pending
  <2>1. TypeOK' /\ OverHasEntry' /\ EntriesHoldTimers' /\ TimersByKind'
    BY <1>1, <1>2 DEF TypeOK, OverHasEntry, EntriesHoldTimers, TimersByKind
  <2>2. TimersNotShared' /\ NoStaleTick' /\ ActiveWillExpire'
    BY <1>1, <1>2 DEF TimersNotShared, NoStaleTick, ActiveWillExpire
  <2> QED
    BY <2>1, <2>2
<1>3. CASE /\ kind[t] = "func" /\ UNCHANGED full
           /\ pending' = [pending EXCEPT ![t] = @ + 1]
  <2>1. TypeOK' /\ OverHasEntry' /\ EntriesHoldTimers' /\ TimersByKind'
    BY <1>1, <1>3 DEF TypeOK, OverHasEntry, EntriesHoldTimers, TimersByKind
  <2>2. TimersNotShared' /\ NoStaleTick'
    BY <1>1, <1>3 DEF TimersNotShared, NoStaleTick
  <2>3. ActiveWillExpire'
    BY <1>1, <1>3 DEF TypeOK, EntriesHoldTimers, ActiveWillExpire
  <2> QED
    BY <2>1, <2>2, <2>3
<1> QED
  BY <1>2, <1>3 DEF Fire

LEMMA CallbackKeepsIInv ==
    ASSUME IInv, NEW t \in Timers, Callback(t)
    PROVE  IInv'
<1> USE DEF IInv
<1>1. /\ over = {}
      /\ pending[t] > 0 /\ pending' = [pending EXCEPT ![t] = @ - 1]
      /\ UNCHANGED <<status, timer, kind, owner, armed, full, over>>
      /\ \/ /\ owner[t] \in status /\ ok' = [ok EXCEPT ![owner[t]] = FALSE]
            /\ notifying' = TRUE /\ UNCHANGED crashed
         \/ /\ owner[t] \notin status /\ crashed' = TRUE
            /\ UNCHANGED <<ok, notifying>>
  BY DEF Callback, Unlocked
<1>2. TypeOK' /\ OverHasEntry'
  <2>1. pending' \in [Timers -> Nat]
    BY <1>1 DEF TypeOK
  <2>2. ok' \in [Keys -> BOOLEAN]
    BY <1>1, Zenon DEF TypeOK
  <2>3. notifying' \in BOOLEAN /\ crashed' \in BOOLEAN
    BY <1>1 DEF TypeOK
  <2> QED
    BY <1>1, <2>1, <2>2, <2>3 DEF TypeOK, OverHasEntry
<1>3. EntriesHoldTimers' /\ TimersByKind' /\ TimersNotShared' /\ NoStaleTick'
  BY <1>1 DEF TypeOK, EntriesHoldTimers, TimersByKind, TimersNotShared, NoStaleTick
<1>4. ActiveWillExpire'
  <2> SUFFICES ASSUME NEW j \in status, ok'[j], kind[timer[j]] = "func"
               PROVE  timer[j] \in armed \/ pending'[timer[j]] > 0
    BY <1>1 DEF ActiveWillExpire
  <2>1. timer[j] \in Timers /\ (timer[j] = t => owner[t] = j)
    BY DEF TimersNotShared
  <2>2. ok[j] /\ timer[j] # t
    BY <1>1, <2>1 DEF TypeOK
  <2>3. timer[j] \in armed \/ pending[timer[j]] > 0
    BY <2>2 DEF ActiveWillExpire
  <2> QED
    BY <1>1, <2>1, <2>2, <2>3 DEF TypeOK
<1> QED
  BY <1>2, <1>3, <1>4

LEMMA NextKeepsIInv == IInv /\ [Next]_vars => IInv'
<1> SUFFICES ASSUME IInv, [Next]_vars PROVE IInv'
  OBVIOUS
<1>1. ASSUME NEW k \in Keys, Client(k) PROVE IInv'
  <2>1. CASE Over(k)
    BY <2>1 DEF Over, Unlocked, IInv, TypeOK, OverHasEntry, EntriesHoldTimers, TimersByKind,
                TimersNotShared, NoStaleTick, ActiveWillExpire, entryVars, timerVars
  <2> QED
    BY <1>1, <2>1, AddKeepsIInv, StartKeepsIInv, RenewalKeepsIInv,
       ExitKeepsIInv, OverFinishKeepsIInv DEF Client
<1>2. ASSUME NEW t \in Timers, Runtime(t) PROVE IInv'
  BY <1>2, FireKeepsIInv, CallbackKeepsIInv DEF Runtime
<1>3. CASE OnExitReturns
  BY <1>3 DEF OnExitReturns, IInv, TypeOK, OverHasEntry, EntriesHoldTimers, TimersByKind,
              TimersNotShared, NoStaleTick, ActiveWillExpire, entryVars, timerVars
<1>4. CASE UNCHANGED vars
  BY <1>4 DEF vars, entryVars, timerVars, lockVars, IInv, TypeOK,
              OverHasEntry, EntriesHoldTimers, TimersByKind, TimersNotShared, NoStaleTick,
              ActiveWillExpire
<1> QED
  BY <1>1, <1>2, <1>3, <1>4 DEF Next

(* Every reachable state satisfies the inductive invariant. *)
LEMMA AlwaysIInv == Spec => []IInv
BY InitIInv, NextKeepsIInv, PTL DEF Spec

-----------------------------------------------------------------------------
(* Type correctness: in particular Drained and the stops never take a      *)
(* timer out of Timers, and no callback count goes below zero.             *)
THEOREM TypeCorrect == Spec => []TypeOK
BY AlwaysIInv, PTL DEF IInv

(* A started state that is on has a running timer or a callback on the     *)
(* way, whatever Start, Renewal, Exit, Over and the callbacks of any keys  *)
(* do in between.                                                          *)
THEOREM StartedStatesWillExpire == Spec => []ActiveWillExpire
BY AlwaysIInv, PTL DEF IInv

(* The channel of a timer is empty while the timer runs. *)
THEOREM ChannelsAreDrained == Spec => []NoStaleTick
BY AlwaysIInv, PTL DEF IInv

-----------------------------------------------------------------------------
(* The Over that waits for a value that cannot come, and holds s.mu.        *)
BlockedOver(k) == k \in over /\ ~OverCanFinish(k)

(* s.mu has one holder, so there is one Over at a time. *)
OneOver == \A j, k \in over : j = k

LEMMA AlwaysOneOver == Spec => []OneOver
<1>1. Init => OneOver
  BY DEF Init, OneOver
<1>2. OneOver /\ [Next]_vars => OneOver'
  BY DEF OneOver, Next, Client, Add, Start, Renewal, Exit, Over, OverFinish, Runtime, Fire,
         Callback, OnExitReturns, vars, lockVars
<1> QED
  BY <1>1, <1>2, PTL DEF Spec

(* Nobody helps an Over that is blocked: no timer can put the value there,  *)
(* because its own does not run, and everybody else waits for s.mu.  So the *)
(* exception StartedStateEnds makes is for good: the table never changes    *)
(* again, no state is switched on or off and no onExit called.              *)
THEOREM BlockedOverBlocksAll ==
    Spec => [][\A k \in Keys : BlockedOver(k) =>
                   BlockedOver(k)' /\ UNCHANGED <<entryVars, lockVars>>]_vars
<1> DEFINE Stuck == \A k \in Keys : BlockedOver(k) =>
                        BlockedOver(k)' /\ UNCHANGED <<entryVars, lockVars>>
<1>1. ASSUME IInv, OneOver, Next, NEW k \in Keys, BlockedOver(k)
      PROVE  BlockedOver(k)' /\ UNCHANGED <<entryVars, lockVars>>
  <2>1. /\ k \in over /\ timer[k] \notin armed \cup full /\ ~Unlocked
        /\ ~notifying
    BY <1>1 DEF BlockedOver, OverCanFinish, Unlocked, IInv, TypeOK
  <2>2. ASSUME NEW j \in Keys PROVE ~Client(j)
    BY <1>1, <2>1 DEF Client, Add, Start, Renewal, Exit, Over, OverFinish, BlockedOver, OneOver
  <2>3. ASSUME NEW t \in Timers, Fire(t)
        PROVE  BlockedOver(k)' /\ UNCHANGED <<entryVars, lockVars>>
    <3>1. t # timer[k] /\ full' \subseteq full \cup {t} /\ armed' \subseteq armed
      BY <2>1, <2>3 DEF Fire
    <3>2. UNCHANGED <<entryVars, lockVars>>
      BY <2>3 DEF Fire
    <3> QED
      BY <2>1, <3>1, <3>2 DEF BlockedOver, OverCanFinish, entryVars, lockVars
  <2>4. ASSUME NEW t \in Timers PROVE ~Callback(t)
    BY <2>1 DEF Callback
  <2>5. ~OnExitReturns
    BY <2>1 DEF OnExitReturns
  <2> QED
    BY <1>1, <2>1, <2>2, <2>3, <2>4, <2>5 DEF Next, Runtime
<1>2. IInv /\ OneOver /\ [Next]_vars => [Stuck]_vars
  BY <1>1
<1> QED
  BY <1>2, AlwaysIInv, AlwaysOneOver, PTL DEF Spec
=============================================================================
