-------------------------------- MODULE PubSub --------------------------------
(***************************************************************************)
(* internal/sync/callback_serializer.go and pubsub.go, over the buffer of  *)
(* Unbounded.  Every message published becomes one closure per subscriber, *)
(* put into the serializer's buffer; two goroutines may take closures out: *)
(*                                                                         *)
(*   loop   run, which loops while ctx HAS an error (line 48): with a live *)
(*          context it returns at once, and closes done;                   *)
(*   after  what context.AfterFunc starts when ctx is cancelled: it closes *)
(*          the buffer and runs what is left in it.                        *)
(*                                                                         *)
(* Methods of PubSub and the closures run under ps.mu.  A closure is a     *)
(* pair of subscriber and message; messages are numbered as published.     *)
(***************************************************************************)
EXTENDS Naturals, Sequences, FiniteSets

CONSTANTS
    Subs,        \* the subscribers there are
    MaxMsg,      \* how often Publish is called (bound)
    MaxQueue     \* how many closures are in the buffer at once (bound)

ASSUME PubSubAssumption == {MaxMsg, MaxQueue} \subseteq Nat

VARIABLES
    cancelled,   \* ctx.Err() != nil
    pc,          \* where loop and after are
    cb,          \* the closure each of them has received, or none
    done,        \* cs.done is closed
    mu,          \* who holds ps.mu
    subscribers, msg,   \* the fields of PubSub
    todo,        \* the subscribers a Publish has still to schedule for
    latest,      \* the message OnMessage of each subscriber got last
    due          \* those published while it was subscribed that it has not got

VARIABLES c, ended, backlog, closing, closed, putting, owing, crashed

Readers  == {"loop", "after"}
Msgs     == 1..MaxMsg
Closures == Subs \X Msgs

Buffer == INSTANCE Unbounded WITH Items <- Closures

bufferVars == <<c, ended, backlog, closing, closed, putting, owing>>
runVars == <<cancelled, pc, cb, done>>
psVars  == <<mu, subscribers, msg, todo, latest, due>>
vars == <<runVars, psVars, bufferVars, crashed>>

Steps == {"start", "unset", "set", "receive", "load", "call", "run", "returned"}

TypeOK ==
    /\ Buffer!TypeOK
    /\ cancelled \in BOOLEAN /\ done \in BOOLEAN
    /\ pc \in [Readers -> Steps]
    /\ cb \in [Readers -> {<<>>} \cup Closures]
    /\ mu \in {"free", "publisher"} \cup Readers
    /\ subscribers \subseteq Subs /\ todo \subseteq Subs
    /\ msg \in 0..MaxMsg
    /\ latest \in [Subs -> 0..MaxMsg]
    /\ due \in [Subs -> SUBSET Msgs]
    /\ \A r \in Readers : r \in owing <=> pc[r] = "load"

Init ==
    /\ cancelled = FALSE /\ done = FALSE
    /\ pc = [loop |-> "start", after |-> "unset"]
    /\ cb = [r \in Readers |-> <<>>]
    /\ mu = "free" /\ subscribers = {} /\ msg = 0 /\ todo = {}
    /\ latest = [s \in Subs |-> 0]
    /\ due = [s \in Subs |-> {}]
    /\ Buffer!Init

-----------------------------------------------------------------------------
(* What the two goroutines do. *)

Goto(r, from, to) == ~crashed /\ pc[r] = from /\ pc' = [pc EXCEPT ![r] = to]

(* The owner of the context cancels it. *)
Cancel ==
    /\ ~crashed /\ ~cancelled
    /\ cancelled' = TRUE
    /\ UNCHANGED <<pc, cb, done, psVars, bufferVars, crashed>>

(* run: register the AfterFunc, then test the context. *)
Register ==
    /\ ~crashed
    /\ pc["after"] = "unset"
    /\ pc' = [pc EXCEPT !["after"] = "set"]
    /\ UNCHANGED <<cancelled, cb, done, psVars, bufferVars, crashed>>

(* ctx.Err() does not change back, so a loop that was entered goes on for   *)
(* ever: its select with ctx.Done() ready is a receive or nothing.          *)
Loop ==
    /\ pc["after"] # "unset"
    /\ Goto("loop", "start", IF cancelled THEN "receive" ELSE "returned")
    /\ done' = ~cancelled
    /\ UNCHANGED <<cancelled, cb, psVars, bufferVars, crashed>>

AfterFunc ==
    /\ cancelled
    /\ Goto("after", "set", "receive")
    /\ Buffer!Close
    /\ UNCHANGED <<cancelled, cb, done, psVars>>

Receive(r) ==
    /\ Goto(r, "receive", "load")
    /\ Buffer!Receive(r)
    /\ cb' = [cb EXCEPT ![r] = Head(c)]
    /\ UNCHANGED <<cancelled, done, psVars>>

(* The loop does not look whether the channel is closed; the range does. *)
ReceiveNil ==
    /\ Goto("loop", "receive", "load")
    /\ Buffer!ReceiveNil("loop")
    /\ cb' = [cb EXCEPT !["loop"] = <<>>]
    /\ UNCHANGED <<cancelled, done, psVars>>

RangeEnds ==
    /\ Buffer!AtEnd
    /\ Goto("after", "receive", "returned")
    /\ UNCHANGED <<cancelled, cb, done, psVars, bufferVars, crashed>>

(* Mutant: Load is forgotten. *)
MutLoad(r) ==
    /\ Goto(r, "load", "call")
    /\ UNCHANGED <<cancelled, cb, done, psVars, bufferVars, crashed>>
Load(r) ==
    /\ Goto(r, "load", "call")
    /\ Buffer!Load(r)
    /\ UNCHANGED <<cancelled, cb, done, psVars>>

(* ps.mu is free; a Put is made under it, so none is going on. *)
MuFree == mu = "free" /\ putting = <<>>

(* Lines 43 and 68 of pubsub.go.  Mutant: the subscription is not looked at. *)
MutStillSubscribed(s) == TRUE
StillSubscribed(s)    == s \in subscribers

(* The closure: under ps.mu, call OnMessage unless the subscription is gone. *)
OnMessage(r) ==
    /\ cb[r] # <<>>
    /\ MuFree
    /\ LET s == cb[r][1]
       IN  /\ StillSubscribed(s)
           /\ latest' = [latest EXCEPT ![s] = cb[r][2]]
           /\ due' = [due EXCEPT ![s] = @ \ {cb[r][2]}]
    /\ mu' = r
    /\ Goto(r, "call", "run")
    /\ UNCHANGED <<cancelled, cb, done, subscribers, msg, todo, bufferVars, crashed>>

OnMessageReturns(r) ==
    /\ Goto(r, "run", "receive")
    /\ mu' = "free"
    /\ cb' = [cb EXCEPT ![r] = <<>>]
    /\ UNCHANGED <<cancelled, done, subscribers, msg, todo, latest, due, bufferVars, crashed>>

Dropped(r) ==
    /\ cb[r] # <<>>
    /\ MuFree
    /\ ~StillSubscribed(cb[r][1])
    /\ Goto(r, "call", "receive")
    /\ cb' = [cb EXCEPT ![r] = <<>>]
    /\ UNCHANGED <<cancelled, done, psVars, bufferVars, crashed>>

(* cb.(func(context.Context)) of nil. *)
CallNil(r) ==
    /\ ~crashed
    /\ pc[r] = "call" /\ cb[r] = <<>>
    /\ crashed' = TRUE
    /\ UNCHANGED <<runVars, psVars, bufferVars>>

-----------------------------------------------------------------------------
(* What the users of the PubSub do. *)

Room(n) == Len(c \o backlog) + n <= MaxQueue

(* TrySchedule: the error of a Put into a closed buffer is dropped. *)
TrySchedule(x) ==
    IF closing THEN UNCHANGED <<bufferVars, crashed>> ELSE Room(1) /\ Buffer!Put(x)

Subscribe(s, consumeLast) ==
    /\ ~crashed /\ MuFree
    /\ subscribers' = subscribers \cup {s}
    /\ IF consumeLast /\ msg # 0
         THEN TrySchedule(<<s, msg>>)
         ELSE UNCHANGED <<bufferVars, crashed>>
    /\ UNCHANGED <<runVars, mu, msg, todo, latest, due>>

(* The function Subscribe returns. *)
Unsubscribe(s) ==
    /\ ~crashed /\ MuFree
    /\ s \in subscribers
    /\ subscribers' = subscribers \ {s}
    /\ due' = [due EXCEPT ![s] = {}]
    /\ UNCHANGED <<runVars, mu, msg, todo, latest, bufferVars, crashed>>

(* Publish holds ps.mu while it schedules for one subscriber after another, *)
(* in the order of the map.                                                 *)
Publish ==
    /\ ~crashed /\ MuFree
    /\ msg < MaxMsg /\ Room(Cardinality(subscribers))
    /\ msg' = msg + 1
    /\ mu' = "publisher"
    /\ todo' = subscribers
    /\ due' = [s \in Subs |-> IF s \in subscribers THEN due[s] \cup {msg + 1} ELSE due[s]]
    /\ UNCHANGED <<runVars, subscribers, latest, bufferVars, crashed>>

(* ScheduleOr: Fatalf panics when Put fails, before onFailure is called. *)
ScheduleOr(s) ==
    /\ ~crashed
    /\ mu = "publisher" /\ s \in todo
    /\ \/ /\ ~closing
          /\ Buffer!Put(<<s, msg>>)
          /\ todo' = todo \ {s}
       \/ /\ closing
          /\ crashed' = TRUE
          /\ UNCHANGED <<todo, bufferVars>>
    /\ UNCHANGED <<runVars, mu, subscribers, msg, latest, due>>

PutAppend == Buffer!PutAppend /\ UNCHANGED <<runVars, psVars>>

Published ==
    /\ ~crashed
    /\ mu = "publisher" /\ todo = {} /\ putting = <<>>
    /\ mu' = "free"
    /\ UNCHANGED <<runVars, subscribers, msg, todo, latest, due, bufferVars, crashed>>

-----------------------------------------------------------------------------
Reader(r) ==
    Receive(r) \/ Load(r) \/ OnMessage(r) \/ OnMessageReturns(r) \/ Dropped(r)
    \/ CallNil(r)

Run    == Register \/ Loop \/ ReceiveNil \/ Reader("loop")
After  == AfterFunc \/ RangeEnds \/ Reader("after")
Puts   == PutAppend \/ Published \/ \E s \in Subs : ScheduleOr(s)
Client == \/ Publish \/ Cancel
          \/ \E s \in Subs : Unsubscribe(s) \/ \E last \in BOOLEAN : Subscribe(s, last)

Next == Run \/ After \/ Puts \/ Client

(***************************************************************************)
(* The goroutines run on, OnMessage returns, and who waits for a lock that *)
(* is free again and again gets it.  Nobody need publish, or cancel.       *)
(***************************************************************************)
Fairness ==
    /\ WF_vars(Register) /\ WF_vars(Loop) /\ WF_vars(RangeEnds)
    /\ SF_vars(AfterFunc) /\ \A r \in Readers : SF_vars(Reader(r))
    /\ WF_vars(Puts)

Spec == Init /\ [][Next]_vars
FairSpec == Spec /\ Fairness

-----------------------------------------------------------------------------
(* Only one of the two goroutines has taken closures so far: the loop was   *)
(* not entered, or the AfterFunc has not begun.                             *)
OneReads == pc["loop"] \in {"start", "returned"} \/ pc["after"] \in {"unset", "set"}

(* Closures that were scheduled and not yet called. *)
Left == c \o backlog \o putting # <<>> \/ \E r \in Readers : cb[r] # <<>>

(* See Unbounded: whatever PubSub does, its buffer is a Fifo. *)
QueueIsFifo     == Buffer!IsFifo
NothingStranded == Buffer!NothingStranded
EndIsLast       == Buffer!EndIsLast

(***************************************************************************)
(* A subscriber never gets a message after a later one, as long as one     *)
(* goroutine takes closures: through publishing, scheduling, the two parts *)
(* of the buffer, cancelled and renewed subscriptions.  Two goroutines may *)
(* overtake each other on the way to ps.mu.                                *)
(***************************************************************************)
DeliveredInOrder ==
    [][\A s \in Subs : OneReads => latest'[s] >= latest[s]]_vars

(***************************************************************************)
(* With one such goroutine the process dies of one thing only, a Publish   *)
(* after the buffer was closed: the channel is closed once, and no nil is  *)
(* called.                                                                 *)
(***************************************************************************)
OnlyPublishDies ==
    crashed /\ OneReads => closing /\ mu = "publisher" /\ todo # {}

(***************************************************************************)
(* Cancelling a subscription is final: when the cancel function returns no *)
(* OnMessage of that subscriber is running, and what was scheduled for it  *)
(* is dropped.                                                             *)
(***************************************************************************)
CancelIsFinal == \A r \in Readers : pc[r] = "run" => cb[r][1] \in subscribers

(***************************************************************************)
(* What is published reaches every subscriber there is: until OnMessage    *)
(* gets it or the subscription ends, the message is in the buffer, in the  *)
(* hand of a goroutine that has not called OnMessage yet, or still to be   *)
(* scheduled by its Publish; and this with two goroutines as with one.     *)
(* What is lost is lost with the process.                                  *)
(***************************************************************************)
OnItsWay(s, m) ==
    \/ \E i \in 1..Len(c \o backlog \o putting) : (c \o backlog \o putting)[i] = <<s, m>>
    \/ \E r \in Readers : pc[r] \in {"load", "call"} /\ cb[r] = <<s, m>>
    \/ m = msg /\ s \in todo

NoMessageLost == \A s \in Subs : \A m \in due[s] : OnItsWay(s, m)

(***************************************************************************)
(* When the context is cancelled everything scheduled is run, unless the   *)
(* process dies first.                                                     *)
(***************************************************************************)
LeftIsRun == cancelled ~> (~Left \/ crashed)
=============================================================================
