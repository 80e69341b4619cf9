---------------------------- MODULE TimeoutStatus ----------------------------
(***************************************************************************)
(* internal/status/timeout_status.go: a table of named states, each of     *)
(* which is switched on for `timeout`, can be renewed before it runs out,  *)
(* and calls its onExit function when it ends.                             *)
(*                                                                         *)
(* Every method runs under s.mu, so a method is one action unless it waits *)
(* inside the lock: onExit is caller code that runs under the lock and     *)
(* takes time, and Over may wait for the channel of its timer.  What is    *)
(* NOT under the lock is the Go runtime: a timer fires whenever it runs    *)
(* out, and firing an AfterFunc timer only starts a goroutine, which then  *)
(* queues for s.mu behind any method that got there first.                 *)
(*                                                                         *)
(* Time is abstract: an armed timer may fire at any moment.  Timers have   *)
(* an identity because an entry's timer is replaced by Start while the old *)
(* one goes on running.  They follow the semantics of the go 1.22 module   *)
(* (go.mod): NewTimer has a channel of capacity 1, AfterFunc has none.     *)
(***************************************************************************)
EXTENDS Naturals

CONSTANTS
    Keys,        \* the names a client uses for its states
    Timers,      \* the time.Timer objects that can be allocated (bound)
    NoTimer,     \* the timer of a key that has no entry
    MaxPending   \* callback goroutines of one timer that can queue (bound)

ASSUME ConstantsAssumption ==
    /\ NoTimer \notin Timers
    /\ MaxPending \in Nat

VARIABLES
    status,      \* the keys of the map s.status
    ok,          \* the flag statusEntry.ok of each key
    timer,       \* the field statusEntry.timer of each key
    kind,        \* what each timer object is: unused, chan or func
    owner,       \* the key captured by the callback of a func timer
    armed,       \* the timers the runtime still has to fire
    full,        \* the chan timers whose channel holds a value
    pending,     \* callback goroutines of a func timer waiting for s.mu
    notifying,   \* s.mu is held while an onExit function runs
    over,        \* the key for which Over holds s.mu, if any
    crashed      \* a nil *statusEntry was dereferenced: the process died

entryVars == <<status, ok, timer>>
timerVars == <<kind, owner, armed, full, pending>>
lockVars  == <<notifying, over>>
vars == <<entryVars, timerVars, lockVars, crashed>>

Kinds == {"unused", "chan", "func"}

TypeOK ==
    /\ status \subseteq Keys
    /\ ok \in [Keys -> BOOLEAN]
    /\ timer \in [Keys -> Timers \cup {NoTimer}]
    /\ kind \in [Timers -> Kinds]
    /\ owner \in [Timers -> Keys]
    /\ armed \subseteq Timers
    /\ full \subseteq Timers
    /\ pending \in [Timers -> Nat]
    /\ notifying \in BOOLEAN
    /\ over \subseteq Keys
    /\ notifying => over = {}     \* s.mu has one holder
    /\ crashed \in BOOLEAN

-----------------------------------------------------------------------------
(* s.mu can be taken.  Mutant: onExit runs outside the lock. *)
MutUnlocked == ~crashed /\ over = {}
Unlocked == ~crashed /\ ~notifying /\ over = {}

(* Ok(key) and Exist(key): reads made under s.mu that change nothing. *)
IsOk(k)  == k \in status /\ ok[k]
Exist(k) == k \in status

(* time.NewTimer and time.AfterFunc allocate a timer. *)
Unused(t) == kind[t] = "unused"

Init ==
    /\ status = {}
    /\ ok = [k \in Keys |-> FALSE]
    /\ timer = [k \in Keys |-> NoTimer]
    /\ kind = [t \in Timers |-> "unused"]
    /\ owner \in {[t \in Timers |-> k] : k \in Keys}
    /\ armed = {}
    /\ full = {}
    /\ pending = [t \in Timers |-> 0]
    /\ notifying = FALSE
    /\ over = {}
    /\ crashed = FALSE

(***************************************************************************)
(* Add(key, onExit).  The entry starts inactive, with a channel timer that *)
(* is already running although nobody listens to its channel.              *)
(***************************************************************************)
Add(k) ==
    /\ Unlocked
    /\ k \notin status
    /\ \E t \in Timers :
         /\ Unused(t)
         /\ kind' = [kind EXCEPT ![t] = "chan"]
         /\ armed' = armed \cup {t}
         /\ timer' = [timer EXCEPT ![k] = t]
    /\ status' = status \cup {k}
    /\ ok' = [ok EXCEPT ![k] = FALSE]
    /\ UNCHANGED <<owner, full, pending, lockVars, crashed>>

(***************************************************************************)
(* Start(key) switches the state on and REPLACES the entry's timer by an   *)
(* AfterFunc timer; the timer it replaces is not stopped.                  *)
(***************************************************************************)
Start(k) ==
    /\ Unlocked
    /\ k \in status
    /\ \E t \in Timers :
         /\ Unused(t)
         /\ kind' = [kind EXCEPT ![t] = "func"]
         /\ owner' = [owner EXCEPT ![t] = k]
         /\ armed' = armed \cup {t}
         /\ timer' = [timer EXCEPT ![k] = t]
    /\ ok' = [ok EXCEPT ![k] = TRUE]
    /\ UNCHANGED <<status, full, pending, lockVars, crashed>>

(***************************************************************************)
(* if !timer.Stop() { select { case <-timer.C: default: } }                *)
(* Stop reports whether the timer was still armed.  The channel of a func  *)
(* timer is nil, so there the default branch is taken.  Mutant: the        *)
(* channel is not drained.                                                 *)
(***************************************************************************)
MutDrained(t) == full
Drained(t) == IF t \in armed THEN full ELSE full \ {t}

(* timer.Reset: it runs whether or not it did.  Mutant: only if it did. *)
MutReset(t) == armed
Reset(t)    == armed \cup {t}

(* Renewal(key): switch on again and give the timer a whole new period. *)
Renewal(k) ==
    /\ Unlocked
    /\ k \in status
    /\ ok' = [ok EXCEPT ![k] = TRUE]
    /\ full' = Drained(timer[k])
    /\ armed' = Reset(timer[k])
    /\ UNCHANGED <<status, timer, kind, owner, pending, lockVars, crashed>>

(* Exit(key): end the state now; onExit runs under the lock. *)
Exit(k) ==
    /\ Unlocked
    /\ k \in status
    /\ full' = Drained(timer[k])
    /\ armed' = armed \ {timer[k]}
    /\ ok' = [ok EXCEPT ![k] = FALSE]
    /\ notifying' = TRUE
    /\ UNCHANGED <<status, timer, kind, owner, pending, over, crashed>>

(***************************************************************************)
(* Over(key): run onExit, stop the timer, delete the entry.  If Stop says  *)
(* the timer is not running any more, Over receives from timer.C, with no  *)
(* default branch: the receive is a guard of the second step, and where no *)
(* value is in the channel it waits, holding s.mu.                         *)
(***************************************************************************)
Over(k) ==
    /\ Unlocked
    /\ k \in status
    /\ over' = {k}
    /\ UNCHANGED <<entryVars, timerVars, notifying, crashed>>

OverCanFinish(k) == timer[k] \in armed \cup full

OverFinish(k) ==
    /\ ~crashed
    /\ k \in over
    /\ OverCanFinish(k)
    /\ full' = Drained(timer[k])
    /\ armed' = armed \ {timer[k]}
    /\ status' = status \ {k}
    /\ ok' = [ok EXCEPT ![k] = FALSE]
    /\ timer' = [timer EXCEPT ![k] = NoTimer]
    /\ over' = {}
    /\ UNCHANGED <<kind, owner, pending, notifying, crashed>>

(***************************************************************************)
(* The runtime: a timer runs out.  A chan timer puts the time into its     *)
(* channel, dropping it when the channel is full; a func timer starts a    *)
(* goroutine for its callback.                                             *)
(***************************************************************************)
Fire(t) ==
    /\ ~crashed
    /\ t \in armed
    /\ armed' = armed \ {t}
    /\ \/ /\ kind[t] = "chan"
          /\ full' = full \cup {t}
          /\ UNCHANGED pending
       \/ /\ kind[t] = "func"
          /\ pending[t] < MaxPending
          /\ pending' = [pending EXCEPT ![t] = @ + 1]
          /\ UNCHANGED full
    /\ UNCHANGED <<entryVars, kind, owner, lockVars, crashed>>

(***************************************************************************)
(* The callback of Start's AfterFunc gets s.mu.  It looks its entry up by  *)
(* key: if the key is gone, s.status[key] is nil and the process dies.     *)
(***************************************************************************)
Callback(t) ==
    /\ Unlocked
    /\ pending[t] > 0
    /\ pending' = [pending EXCEPT ![t] = @ - 1]
    /\ \/ /\ owner[t] \in status
          /\ ok' = [ok EXCEPT ![owner[t]] = FALSE]
          /\ notifying' = TRUE
          /\ UNCHANGED crashed
       \/ /\ owner[t] \notin status
          /\ crashed' = TRUE
          /\ UNCHANGED <<ok, notifying>>
    /\ UNCHANGED <<status, timer, kind, owner, armed, full, over>>

(* The onExit function returns and s.mu is released. *)
OnExitReturns ==
    /\ ~crashed
    /\ notifying
    /\ notifying' = FALSE
    /\ UNCHANGED <<entryVars, timerVars, over, crashed>>

-----------------------------------------------------------------------------
Client(k) ==
    Add(k) \/ Start(k) \/ Renewal(k) \/ Exit(k) \/ Over(k) \/ OverFinish(k)

Runtime(t) == Fire(t) \/ Callback(t)

Next ==
    \/ \E k \in Keys : Client(k)
    \/ \E t \in Timers : Runtime(t)
    \/ OnExitReturns

(***************************************************************************)
(* An armed timer runs out (unless it is reset for ever, see               *)
(* RenewalsStop), a goroutine that waits for s.mu gets it when it is free  *)
(* again and again (sync.Mutex hands the lock over in FIFO order once a    *)
(* waiter starves), and onExit returns.  Clients owe nothing, but an Over  *)
(* that has begun goes on when it can.                                     *)
(***************************************************************************)
Fairness ==
    /\ \A t \in Timers : WF_vars(Fire(t)) /\ SF_vars(Callback(t))
    /\ \A k \in Keys : WF_vars(OverFinish(k))
    /\ WF_vars(OnExitReturns)

Spec == Init /\ [][Next]_vars
FairSpec == Spec /\ Fairness

-----------------------------------------------------------------------------
(***************************************************************************)
(* An active state always has an end in sight: its timer is running or its *)
(* callback is on the way.  This is about Start, Renewal, Exit and the     *)
(* callback agreeing on the pair (ok, timer).  A state switched on by a    *)
(* Renewal before any Start is outside it: its chan timer calls nothing.   *)
(***************************************************************************)
ActiveWillExpire ==
    \A k \in status :
        ok[k] /\ kind[timer[k]] = "func" =>
            timer[k] \in armed \/ pending[timer[k]] > 0

(***************************************************************************)
(* The channel of a timer never holds a value while the timer runs, so a   *)
(* value drained by Renewal, Exit or Over is always the one of the period  *)
(* that has just ended.                                                    *)
(***************************************************************************)
NoStaleTick == armed \cap full = {}

(***************************************************************************)
(* Renewing does not go on for ever; under it a state that was started     *)
(* ends, unless the process died or the table was blocked for good.        *)
(***************************************************************************)
RenewalsStop == <>[][\A k \in Keys : ~Renewal(k)]_vars

(* An Over that holds s.mu and waits for a value that cannot come.         *)
OverBlocked == \E k \in over : ~OverCanFinish(k)

Started(k) == k \in status /\ ok[k] /\ kind[timer[k]] = "func"

StartedStateEnds ==
    RenewalsStop =>
        \A k \in Keys : Started(k) ~> (~IsOk(k) \/ crashed \/ OverBlocked)

(***************************************************************************)
(* What the tests of Renewal say (timeout_status_test.go:82-84, 110-112):  *)
(* after a renewal the state is on until the renewed period ends.          *)
(***************************************************************************)
RenewedStaysOk ==
    \A k \in status :
        kind[timer[k]] = "func" /\ timer[k] \in armed => ok[k]
=============================================================================
