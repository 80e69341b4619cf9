-------------------------- MODULE ConversationQueue --------------------------
(***************************************************************************)
(* The heap of queries between two goroutines of mi/fsm/fsm.go:            *)
(*                                                                         *)
(*   P  GetUserConversation: once a second it fetches the last `Limit`     *)
(*      records of the speaker and pushes those newer than last_time,      *)
(*      which is then set to the Time of the heap's first element;         *)
(*   F  onEnterListening: it pushes a test record, waits for a tick, and   *)
(*      pops; what it does until it listens again is in XiaoAi.            *)
(*                                                                         *)
(* Nothing protects x.ConversationHeap.  Its content is a bag of records;  *)
(* a push and a pop read the slice and write it back, in two steps, so the *)
(* later of two overlapping writes undoes the earlier.  The array under it *)
(* is a heap, newest first, as long as nothing was pushed while F was      *)
(* sifting down or popped while P was sifting up; after that its first     *)
(* element may be any, until it is empty.  Swaps of both sides that meet   *)
(* lose an element or the process.                                         *)
(*                                                                         *)
(* A record is its Time; the test record has none, which is 0.             *)
(* raced is a history variable: no guard reads it.                         *)
(***************************************************************************)
EXTENDS Naturals, Bags

CONSTANTS
    Old,         \* the records 1..Old were made before P started
    MaxTime,     \* the last record made (bound)
    Limit,       \* how many records a fetch returns; 10 in the code
    Cap          \* how many records the heap can hold (bound)

ASSUME ConversationAssumption ==
    /\ {Old, MaxTime, Limit, Cap} \subseteq Nat
    /\ Old <= MaxTime

VARIABLES
    heap,        \* x.ConversationHeap
    ordered,     \* it is in heap order, apart from a sift that is going on
    made,        \* the records 1..made exist
    last_time,   \* the newest Time P thinks it has fetched
    ppc, todo, cur, pread,   \* P: where, what to push, its push
    slipped,     \* F popped while P was sifting up
    fpc, msg, fread,         \* F: where, its pop
    taken,       \* the records F has popped so far
    raced,       \* those that were in the way of an overlapping write
    crashed      \* an index was out of range: the process died

pVars == <<last_time, ppc, todo, cur, pread>>
fVars == <<fpc, msg, fread, taken>>
heapVars == <<heap, ordered, slipped>>
vars == <<heapVars, made, pVars, fVars, raced, crashed>>

Times == 0..MaxTime
Test == 0        \* the Time of the record of line 267

IsHeap(h) == IsABag(h) /\ BagToSet(h) \subseteq Times

TypeOK ==
    /\ IsHeap(heap) /\ IsHeap(pread) /\ IsHeap(fread)
    /\ {ordered, slipped, crashed} \subseteq BOOLEAN
    /\ made \in Old..MaxTime
    /\ {last_time, cur, msg} \subseteq Times
    /\ ppc \in {"tick", "push", "store", "sift", "check", "read"}
    /\ fpc \in {"push", "store", "tick", "sift", "shrink", "busy"}
    /\ {todo, taken, raced} \subseteq SUBSET Times
    /\ todo \subseteq (last_time + 1)..made     \* P pushes what is new to it
    /\ fpc = "shrink" => BagIn(msg, fread)      \* F pops what is there

Init ==
    /\ heap = EmptyBag /\ ordered = TRUE /\ slipped = FALSE
    /\ made = Old
    /\ last_time = Old
    /\ ppc = "tick" /\ todo = {} /\ cur = Test /\ pread = EmptyBag
    /\ fpc = "push" /\ msg = Test /\ fread = EmptyBag /\ taken = {}
    /\ raced = {}
    /\ crashed = FALSE

-----------------------------------------------------------------------------
GotoP(from, to) == ~crashed /\ ppc = from /\ ppc' = to
GotoF(from, to) == ~crashed /\ fpc = from /\ fpc' = to

(* F has read the slice and not yet written it back. *)
FInside == fpc \in {"store", "shrink"}

Queued == BagToSet(heap)

(* What may be at index 0: the newest record (mina_impl.go, Less), if the *)
(* order holds and nobody is sifting.                                     *)
InOrder == ordered /\ "sift" \notin {fpc, ppc}
First == {t \in Queued : InOrder => \A u \in Queued : u <= t}

(* An empty heap is in order whatever was done to it. *)
SetHeap(h, order) == heap' = h /\ ordered' = (order \/ h = EmptyBag)

Panic == crashed' = TRUE /\ UNCHANGED <<heapVars, made, pVars, fVars, raced>>

(* Somebody talks to the speaker. *)
Talk ==
    /\ ~crashed
    /\ made < MaxTime
    /\ made' = made + 1
    /\ UNCHANGED <<heapVars, pVars, fVars, raced, crashed>>

-----------------------------------------------------------------------------
(* The last records, as GetUserConversations returns them. *)
Window == {t \in 1..made : t + Limit > made}

(* Line 408.  Mutant: >= for >. *)
MutNewer(t) == t >= last_time
Newer(t)    == t > last_time

(* A fetch that fails changes nothing (line 404). *)
PollFetch ==
    /\ GotoP("tick", "push")
    /\ todo' = {t \in Window : Newer(t)}
    /\ UNCHANGED <<heapVars, made, last_time, cur, pread, fVars, raced, crashed>>

(* heap.Push: the append of Records.Push, then sifting up. *)
PollPush ==
    /\ BagCardinality(heap) < Cap
    /\ GotoP("push", "store")
    /\ \E t \in todo : cur' = t /\ todo' = todo \ {t}
    /\ pread' = heap
    /\ UNCHANGED <<heapVars, made, last_time, fVars, raced, crashed>>

PollStore ==
    /\ GotoP("store", "sift")
    /\ SetHeap(pread (+) SetToBag({cur}), ordered /\ fpc # "sift")
    /\ slipped' = FALSE
    /\ raced' = IF FInside THEN raced \cup {cur} ELSE raced
    /\ pread' = EmptyBag
    /\ UNCHANGED <<made, last_time, todo, cur, fVars, crashed>>

(* Less panics if F's pop has taken the element that is being sifted. *)
PollSift ==
    /\ \/ /\ GotoP("sift", "push")
          /\ UNCHANGED <<heapVars, made, last_time, todo, cur, pread, fVars, raced, crashed>>
       \/ /\ ~crashed /\ ppc = "sift" /\ slipped
          /\ Panic

PollPushed ==
    /\ todo = {}
    /\ GotoP("push", "check")
    /\ UNCHANGED <<heapVars, made, last_time, todo, cur, pread, fVars, raced, crashed>>

(* What last_time becomes: the Time of heap[0].  Mutant: the time of day. *)
MutSeen == {made}
Seen    == First

(* Line 414 looks, line 415 reads. *)
PollCheck ==
    /\ GotoP("check", IF heap # EmptyBag THEN "read" ELSE "tick")
    /\ UNCHANGED <<heapVars, made, last_time, todo, cur, pread, fVars, raced, crashed>>

PollRead ==
    /\ \/ /\ GotoP("read", "tick")
          /\ last_time' \in Seen
          /\ UNCHANGED <<heapVars, made, todo, cur, pread, fVars, raced, crashed>>
       \/ /\ ~crashed /\ ppc = "read" /\ heap = EmptyBag
          /\ Panic

-----------------------------------------------------------------------------
(* Line 267: Records.Push of the test record.  It is the oldest of all, so *)
(* the end of the array is where it belongs.                               *)
ListenPush ==
    /\ BagCardinality(heap) < Cap
    /\ GotoF("push", "store")
    /\ fread' = heap
    /\ UNCHANGED <<heapVars, made, pVars, msg, taken, raced, crashed>>

ListenStore ==
    /\ GotoF("store", "tick")
    /\ SetHeap(fread (+) SetToBag({Test}), ordered)
    /\ fread' = EmptyBag
    /\ UNCHANGED <<slipped, made, pVars, msg, taken, raced, crashed>>

(* A tick that finds something: heap.Pop moves the first to the end, sifts. *)
ListenTick ==
    /\ heap # EmptyBag
    /\ GotoF("tick", "sift")
    /\ msg' \in First
    /\ SetHeap(heap, ordered /\ ppc # "sift")
    /\ UNCHANGED <<slipped, made, pVars, fread, taken, raced, crashed>>

(* Records.Pop takes what is at the end now: if P has pushed or sifted     *)
(* since, that is some other record, and the first stays where it was put. *)
ListenPop ==
    /\ GotoF("sift", "shrink")
    /\ fread' = heap
    /\ msg' \in IF ordered THEN {msg} ELSE Queued
    /\ UNCHANGED <<heapVars, made, pVars, taken, raced, crashed>>

ListenShrink ==
    /\ GotoF("shrink", "busy")
    /\ LET rest == fread (-) SetToBag({msg})
       IN  /\ SetHeap(rest, ordered /\ ppc # "sift")
           /\ slipped' = (ppc = "sift" /\ rest # EmptyBag)
    /\ taken' = taken \cup {msg}
    /\ fread' = EmptyBag
    /\ UNCHANGED <<made, pVars, msg, raced, crashed>>

(* The question is answered (XiaoAi) and F listens again. *)
ListenAgain ==
    /\ GotoF("busy", "push")
    /\ UNCHANGED <<heapVars, made, pVars, msg, fread, taken, raced, crashed>>

-----------------------------------------------------------------------------
(***************************************************************************)
(* Both are inside heap.Push or heap.Pop.  A swap is two assignments and an *)
(* append writes the length before the element, so where P's swaps or its  *)
(* append meet F's swaps an element is lost, and another one, or one that  *)
(* was popped and is still in the array, is there instead.  Or one of them *)
(* finds a pointer that is nil or beyond the array.                        *)
(***************************************************************************)
Collide ==
    /\ ~crashed
    /\ ppc = "sift" /\ fpc = "sift"
    /\ \E x \in Queued, y \in Queued \cup taken :
         /\ heap' = (heap (-) SetToBag({x})) (+) SetToBag({y})
         /\ raced' = raced \cup {x}
    /\ ordered' = FALSE
    /\ UNCHANGED <<slipped, made, pVars, fVars, crashed>>

CollideAndDie ==
    /\ ~crashed
    /\ ppc \in {"store", "sift"} /\ fpc \in {"store", "sift", "shrink"}
    /\ Panic

P == PollFetch \/ PollPush \/ PollStore \/ PollSift \/ PollPushed
     \/ PollCheck \/ PollRead

F == ListenPush \/ ListenStore \/ ListenTick \/ ListenPop \/ ListenShrink
     \/ ListenAgain

Next == Talk \/ P \/ F \/ Collide \/ CollideAndDie

Spec == Init /\ [][Next]_vars

-----------------------------------------------------------------------------
InHand == todo \cup (IF ppc = "store" THEN {cur} ELSE {})
                 \cup (IF fpc = "shrink" THEN {msg} ELSE {})

(***************************************************************************)
(* A query is lost only if F was inside a push or pop when P pushed it, or *)
(* in a collision of swaps.  Any other record of the current window that   *)
(* is neither in the heap nor in somebody's hands nor taken is newer than  *)
(* last_time, so the next fetch pushes it: whatever stale slice a push or  *)
(* pop puts back, and however often last_time, which is the Time of some   *)
(* element, falls back, nothing that was there before is lost.             *)
(***************************************************************************)
OnlyOverlapsLose ==
    \A t \in Window :
        t > Old /\ t \notin Queued \cup InHand \cup taken \cup raced => t > last_time

(* What fsm.go:399 says: what was there before the start is filtered out. *)
OldFiltered == \A t \in Queued : t = Test \/ t > Old
=============================================================================
