----------------------- MODULE ConversationQueueProofs -----------------------
(***************************************************************************)
(* For any number of records, any window of the fetch and any size of the  *)
(* heap.                                                                   *)
(*                                                                         *)
(* Pushes and pops overlap and put stale slices back, but a slice that was *)
(* read differs from the one that is there only in what has been taken     *)
(* since, in what was pushed meanwhile and in the test record (Agree).     *)
(* last_time is only the Time of some element of the heap, and records are *)
(* pushed in any order.  It does not lose a query because the records that *)
(* have been fetched have no gap (Gapless): a fetch takes the whole window *)
(* above last_time.                                                        *)
(***************************************************************************)
EXTENDS ConversationQueue, TLAPS

(* The types, one by one. *)
Typed ==
    /\ IsHeap(heap) /\ IsHeap(pread) /\ IsHeap(fread)
    /\ ordered \in BOOLEAN /\ slipped \in BOOLEAN /\ crashed \in BOOLEAN
    /\ made \in Old..MaxTime
    /\ last_time \in Times /\ cur \in Times /\ msg \in Times
    /\ ppc \in {"tick", "push", "store", "sift", "check", "read"}
    /\ fpc \in {"push", "store", "tick", "sift", "shrink", "busy"}
    /\ todo \subseteq Times /\ taken \subseteq Times /\ raced \subseteq Times

(* What P is about to push is new to it; what F pops is there. *)
Holds ==
    /\ todo \subseteq (last_time + 1)..made
    /\ ppc \in {"tick", "check", "read"} => todo = {}
    /\ fpc = "sift" => Queued # {}
    /\ fpc = "sift" /\ ordered => msg \in Queued
    /\ fpc = "shrink" => msg \in BagToSet(fread)

(* What a stale slice may have too much or too little. *)
Excused == taken \cup raced \cup {Test}

(* The records that have been fetched, and the test record. *)
Fetched == Queued \cup InHand \cup Excused

Agree ==
    /\ ppc = "store" => BagToSet(pread) \cup Excused = Queued \cup Excused
    /\ FInside => BagToSet(fread) \cup Excused = Queued \cup Excused

(* Up to the newest of them, all of the window has been fetched. *)
Gapless ==
    \A t \in Window : \A u \in Fetched : t > Old /\ t <= u => t \in Fetched

(* And nothing that does not exist. *)
Exist == last_time <= made /\ \A u \in Fetched : u <= made

-----------------------------------------------------------------------------
LEMMA Bounds == Old \in Nat /\ MaxTime \in Nat /\ Limit \in Nat
BY ConversationAssumption

(* Adding a record to a bag and taking one out. *)
LEMMA BagsOfRecords ==
    /\ IsHeap(EmptyBag) /\ BagToSet(EmptyBag) = {}
    /\ \A b, x : IsHeap(b) /\ x \in Times =>
          /\ IsHeap(b (+) SetToBag({x}))
          /\ BagToSet(b (+) SetToBag({x})) = BagToSet(b) \cup {x}
          /\ IsHeap(b (-) SetToBag({x}))
          /\ BagToSet(b (-) SetToBag({x})) \subseteq BagToSet(b)
          /\ BagToSet(b) \subseteq BagToSet(b (-) SetToBag({x})) \cup {x}
<1>1. IsHeap(EmptyBag) /\ BagToSet(EmptyBag) = {}
  BY DEF IsHeap, IsABag, EmptyBag, SetToBag, BagToSet
<1>2. ASSUME NEW b, NEW x \in Times, IsHeap(b)
      PROVE  /\ IsHeap(b (+) SetToBag({x}))
             /\ BagToSet(b (+) SetToBag({x})) = BagToSet(b) \cup {x}
  <2>1. DOMAIN (b (+) SetToBag({x})) = DOMAIN b \cup {x}
    BY DEF (+), SetToBag
  <2>2. ASSUME NEW e \in DOMAIN b \cup {x}
        PROVE  (b (+) SetToBag({x}))[e] \in {n \in Nat : n > 0}
    BY <1>2 DEF (+), SetToBag, IsHeap, IsABag
  <2>3. b (+) SetToBag({x}) = [e \in DOMAIN b \cup {x} |-> (b (+) SetToBag({x}))[e]]
    BY DEF (+), SetToBag
  <2> QED
    BY <1>2, <2>1, <2>2, <2>3 DEF IsHeap, IsABag, BagToSet
<1>3. ASSUME NEW b, NEW x \in Times, IsHeap(b)
      PROVE  /\ IsHeap(b (-) SetToBag({x}))
             /\ BagToSet(b (-) SetToBag({x})) \subseteq BagToSet(b)
             /\ BagToSet(b) \subseteq BagToSet(b (-) SetToBag({x})) \cup {x}
  <2> DEFINE left == [e \in DOMAIN b |-> IF e \in {x} THEN b[e] - 1 ELSE b[e]]
             rest == {d \in DOMAIN b : left[d] > 0}
  <2>1. b (-) SetToBag({x}) = [e \in rest |-> left[e]]
    BY DEF (-), SetToBag
  <2>2. \A e \in DOMAIN b : b[e] \in Nat /\ b[e] > 0
    BY <1>3 DEF IsHeap, IsABag
  <2>3. \A e \in rest : left[e] \in Nat /\ left[e] > 0
    BY <2>2
  <2>4. DOMAIN b \subseteq rest \cup {x} /\ rest \subseteq DOMAIN b
    BY <2>2
  <2> HIDE DEF left, rest
  <2> QED
    BY <1>3, <2>1, <2>3, <2>4 DEF IsHeap, IsABag, BagToSet
<1> QED
  BY <1>1, <1>2, <1>3

LEMMA EmptyHeap ==
    \A b : IsHeap(b) => (b = EmptyBag <=> BagToSet(b) = {})
<1> SUFFICES ASSUME NEW b, IsHeap(b) PROVE b = EmptyBag <=> BagToSet(b) = {}
  OBVIOUS
<1>1. b = [e \in DOMAIN b |-> b[e]] /\ BagToSet(b) = DOMAIN b
  BY DEF IsHeap, IsABag, BagToSet
<1>2. DOMAIN b = {} => b = EmptyBag
  BY <1>1 DEF EmptyBag, SetToBag
<1> QED
  BY <1>1, <1>2, BagsOfRecords

(* A collision puts y where x was. *)
LEMMA BagsThatCollide ==
    ASSUME NEW b, IsHeap(b), NEW x \in Times, NEW y \in Times
    PROVE  LET b2 == (b (-) SetToBag({x})) (+) SetToBag({y})
           IN  /\ IsHeap(b2) /\ y \in BagToSet(b2)
               /\ BagToSet(b2) \subseteq BagToSet(b) \cup {y}
               /\ BagToSet(b) \subseteq BagToSet(b2) \cup {x}
<1> DEFINE b1 == b (-) SetToBag({x})
<1>1. /\ IsHeap(b1) /\ BagToSet(b1) \subseteq BagToSet(b)
      /\ BagToSet(b) \subseteq BagToSet(b1) \cup {x}
  BY BagsOfRecords
<1> HIDE DEF b1
<1>2. IsHeap(b1 (+) SetToBag({y})) /\ BagToSet(b1 (+) SetToBag({y})) = BagToSet(b1) \cup {y}
  BY <1>1, BagsOfRecords
<1> QED
  BY <1>1, <1>2 DEF b1

LEMMA InitTyped == Init => Typed
<1>1. Old <= MaxTime /\ 0 \in Times /\ Old \in Times /\ Old \in Old..MaxTime
  BY Bounds, ConversationAssumption DEF Times
<1>2. IsHeap(EmptyBag)
  BY BagsOfRecords
<1> QED
  BY <1>1, <1>2 DEF Init, Typed, Test

LEMMA TypesKept ==
    ASSUME Typed, [Next]_vars
    PROVE  Typed'
<1> USE DEF Typed, GotoP, GotoF, heapVars, pVars, fVars, SetHeap
<1>1. Queued \subseteq Times /\ First \subseteq Times /\ 0 \in Times /\ IsHeap(EmptyBag)
  BY Bounds, BagsOfRecords DEF Queued, First, IsHeap, Times
<1>2. CASE Talk
  BY <1>2, Bounds DEF Talk
<1>3. Panic => Typed'
  BY DEF Panic
<1>4. CASE PollFetch
  <2>1. Window \subseteq Times
    BY Bounds DEF Window, Times
  <2> QED
    BY <1>4, <2>1 DEF PollFetch
<1>5. CASE PollPush
  BY <1>5 DEF PollPush
<1>6. CASE PollStore
  <2>1. IsHeap(heap')
    BY <1>6, BagsOfRecords DEF PollStore
  <2>2. ordered' \in BOOLEAN /\ raced' \subseteq Times
    BY <1>6 DEF PollStore
  <2> QED
    BY <1>1, <1>6, <2>1, <2>2 DEF PollStore
<1>7. CASE PollSift \/ PollPushed \/ PollCheck
  BY <1>3, <1>7 DEF PollSift, PollPushed, PollCheck
<1>8. CASE PollRead
  BY <1>1, <1>3, <1>8 DEF PollRead, Seen
<1>9. CASE ListenPush \/ ListenAgain
  BY <1>9 DEF ListenPush, ListenAgain
<1>10. CASE ListenStore
  <2>1. IsHeap(heap')
    BY <1>1, <1>10, BagsOfRecords DEF ListenStore, Test
  <2>2. ordered' \in BOOLEAN
    BY <1>10 DEF ListenStore
  <2> QED
    BY <1>1, <1>10, <2>1, <2>2 DEF ListenStore
<1>11. CASE ListenTick
  <2>1. ordered' \in BOOLEAN /\ heap' = heap /\ msg' \in Times
    BY <1>1, <1>11 DEF ListenTick
  <2> QED
    BY <1>11, <2>1 DEF ListenTick
<1>12. CASE ListenPop
  <2>1. msg' \in Times
    BY <1>1, <1>12 DEF ListenPop
  <2> QED
    BY <1>12, <2>1 DEF ListenPop
<1>13. CASE ListenShrink
  <2>1. heap' = fread (-) SetToBag({msg})
    BY <1>13 DEF ListenShrink
  <2>2. IsHeap(heap')
    BY <2>1, BagsOfRecords
  <2>3. ordered' \in BOOLEAN /\ slipped' \in BOOLEAN /\ taken' \subseteq Times
    BY <1>13 DEF ListenShrink
  <2> QED
    BY <1>1, <1>13, <2>2, <2>3 DEF ListenShrink
<1>14. CASE Collide
  <2>1. PICK x \in Queued, y \in Queued \cup taken :
            /\ heap' = (heap (-) SetToBag({x})) (+) SetToBag({y})
            /\ raced' = raced \cup {x}
    BY <1>14 DEF Collide
  <2>2. x \in Times /\ y \in Times
    BY <1>1
  <2>3. IsHeap(heap')
    BY <2>1, <2>2, BagsThatCollide
  <2>4. raced' \subseteq Times
    BY <2>1, <2>2
  <2> QED
    BY <1>14, <2>3, <2>4 DEF Collide
<1>15. CASE CollideAndDie
  BY <1>3, <1>15 DEF CollideAndDie
<1>16. CASE UNCHANGED vars
  BY <1>16 DEF vars
<1> QED
  BY <1>2, <1>4, <1>5, <1>6, <1>7, <1>8, <1>9, <1>10, <1>11, <1>12, <1>13, <1>14, <1>15,
     <1>16
  DEF Next, P, F

LEMMA HoldsKept ==
    ASSUME Typed, Holds, [Next]_vars
    PROVE  Holds'
<1> USE DEF Holds, GotoP, GotoF, heapVars, pVars, fVars, SetHeap
<1>1. /\ IsHeap(heap) /\ IsHeap(pread) /\ cur \in Times /\ made \in Nat /\ last_time \in Nat
      /\ Queued \subseteq Times /\ taken \subseteq Times
      /\ UNCHANGED heap => Queued' = Queued
      /\ UNCHANGED heap => First \subseteq Queued
  BY Bounds DEF Typed, Queued, IsHeap, Times, First
<1>2. CASE Talk
  <2>1. (last_time + 1)..made \subseteq (last_time' + 1)..made'
    BY <1>1, <1>2 DEF Talk
  <2> QED
    BY <1>1, <1>2, <2>1 DEF Talk
<1>3. Panic => Holds'
  BY <1>1 DEF Panic
<1>4. CASE PollFetch
  <2>1. {t \in Window : Newer(t)} \subseteq (last_time + 1)..made
    BY <1>1 DEF Window, Newer
  <2> QED
    BY <1>1, <1>4, <2>1 DEF PollFetch
<1>5. CASE PollPush
  <2>1. todo' \subseteq todo
    BY <1>5 DEF PollPush
  <2> QED
    BY <1>1, <1>5, <2>1 DEF PollPush
<1>13. CASE PollSift \/ PollPushed \/ PollCheck \/ PollRead
  <2>1. CASE Panic
    BY <1>3, <2>1
  <2>2. CASE ~Panic
    <3>1. UNCHANGED <<heap, ordered, made, todo, fpc, msg, fread>>
      BY <1>13, <2>2 DEF PollSift, PollPushed, PollCheck, PollRead
    <3>2. (ppc' = "push" /\ last_time' = last_time) \/ todo = {}
      BY <1>13, <2>2 DEF PollSift, PollPushed, PollCheck, PollRead
    <3>3. todo' \subseteq (last_time' + 1)..made'
      BY <3>1, <3>2
    <3>4. ppc' \in {"tick", "check", "read"} => todo' = {}
      BY <3>1, <3>2
    <3> QED
      BY <1>1, <3>1, <3>3, <3>4
  <2> QED
    BY <2>1, <2>2
<1>6. CASE PollStore
  <2>1. heap' = pread (+) SetToBag({cur})
    BY <1>6 DEF PollStore
  <2>2. IsHeap(heap') /\ BagToSet(heap') = BagToSet(pread) \cup {cur}
    BY <1>1, <2>1, BagsOfRecords DEF Typed
  <2>3. Queued' # {} /\ heap' # EmptyBag
    BY <2>2, EmptyHeap DEF Queued
  <2>4. fpc = "sift" => ~ordered'
    BY <1>6, <2>3 DEF PollStore
  <2>5. UNCHANGED <<fpc, fread, todo, last_time, made, msg>> /\ ppc' = "sift"
    BY <1>6 DEF PollStore
  <2> QED
    BY <2>3, <2>4, <2>5
<1>7. CASE ListenPush \/ ListenStore \/ ListenShrink \/ ListenAgain
  BY <1>7 DEF ListenPush, ListenStore, ListenShrink, ListenAgain
<1>8. CASE ListenTick
  <2>1. heap' = heap /\ heap # EmptyBag /\ msg' \in Queued
    BY <1>8 DEF ListenTick, First
  <2> QED
    BY <1>1, <1>8, <2>1, EmptyHeap DEF ListenTick, Queued
<1>9. CASE ListenPop
  <2>1. fread' = heap /\ msg' \in Queued
    BY <1>9 DEF ListenPop
  <2> QED
    BY <1>1, <1>9, <2>1 DEF ListenPop, Queued
<1>10. CASE Collide
  <2>1. PICK x \in Queued, y \in Queued \cup taken :
            heap' = (heap (-) SetToBag({x})) (+) SetToBag({y})
    BY <1>10 DEF Collide
  <2>2. x \in Times /\ y \in Times
    BY <1>1
  <2>3. y \in BagToSet(heap')
    BY <1>1, <2>1, <2>2, BagsThatCollide
  <2>4. Queued' # {}
    BY <2>3 DEF Queued
  <2> QED
    BY <1>10, <2>4 DEF Collide
<1>11. CASE CollideAndDie
  BY <1>3, <1>11 DEF CollideAndDie
<1>12. CASE UNCHANGED vars
  BY <1>1, <1>12 DEF vars
<1> QED
  BY <1>2, <1>4, <1>5, <1>6, <1>7, <1>8, <1>9, <1>10, <1>11, <1>12,
     <1>13
  DEF Next, P, F

LEMMA AlwaysTyped == Spec => [](Typed /\ Holds)
<1>1. Init => Holds
  BY DEF Init, Holds
<1> QED
  BY <1>1, InitTyped, TypesKept, HoldsKept, PTL DEF Spec

(* Types, however pushes and pops overlap: P pushes nothing twice in one    *)
(* fetch, and what F takes it has found in the slice.                       *)
THEOREM TypeCorrect == Spec => []TypeOK
<1>1. Typed /\ Holds => TypeOK
  BY DEF Typed, Holds, TypeOK, BagIn, BagToSet
<1> QED
  BY <1>1, AlwaysTyped, PTL

-----------------------------------------------------------------------------
(* What has been said, and the test record: the records there may be. *)
Said == 0..made

OnlySaid ==
    /\ BagToSet(heap) \cup BagToSet(pread) \cup BagToSet(fread) \subseteq Said
    /\ todo \cup taken \cup {cur, msg, last_time} \subseteq Said

LEMMA OnlySaidKept ==
    ASSUME Typed, OnlySaid, [Next]_vars
    PROVE  OnlySaid'
<1> USE DEF OnlySaid, GotoP, GotoF, heapVars, pVars, fVars, SetHeap
<1>1. /\ made \in Nat /\ 0 \in Said /\ Said \subseteq Times /\ First \subseteq Said
      /\ BagToSet(EmptyBag) = {} /\ Queued = BagToSet(heap)
  BY Bounds, BagsOfRecords DEF Typed, Said, Times, First, Queued
<1>2. /\ UNCHANGED made => Said' = Said
      /\ IsHeap(heap) /\ IsHeap(pread) /\ IsHeap(fread) /\ cur \in Times /\ msg \in Times
  BY DEF Said, Typed
<1>3. CASE Talk
  <2>1. Said \subseteq Said'
    BY <1>1, <1>3 DEF Talk, Said
  <2> QED
    BY <1>3, <2>1 DEF Talk
<1>4. Panic => OnlySaid'
  BY <1>2 DEF Panic
<1>5. CASE PollFetch
  <2>1. Window \subseteq Said
    BY <1>1 DEF Window, Said
  <2> QED
    BY <1>2, <1>5, <2>1 DEF PollFetch
<1>6. CASE PollPush
  BY <1>2, <1>6 DEF PollPush
<1>7. CASE PollStore
  <2>1. BagToSet(heap') = BagToSet(pread) \cup {cur}
    BY <1>2, <1>7, BagsOfRecords DEF PollStore
  <2> QED
    BY <1>1, <1>2, <1>7, <2>1 DEF PollStore
<1>8. CASE PollSift \/ PollPushed \/ PollCheck
  BY <1>2, <1>4, <1>8 DEF PollSift, PollPushed, PollCheck
<1>9. CASE PollRead
  BY <1>1, <1>2, <1>4, <1>9 DEF PollRead, Seen
<1>10. CASE ListenPush \/ ListenAgain
  BY <1>2, <1>10 DEF ListenPush, ListenAgain
<1>11. CASE ListenStore
  <2>1. BagToSet(heap') = BagToSet(fread) \cup {0}
    BY <1>1, <1>2, <1>11, BagsOfRecords DEF ListenStore, Test
  <2> QED
    BY <1>1, <1>2, <1>11, <2>1 DEF ListenStore
<1>12. CASE ListenTick
  BY <1>1, <1>2, <1>12 DEF ListenTick
<1>13. CASE ListenPop
  BY <1>1, <1>2, <1>13 DEF ListenPop, Queued
<1>14. CASE ListenShrink
  <2>1. heap' = fread (-) SetToBag({msg})
    BY <1>14 DEF ListenShrink
  <2>2. BagToSet(heap') \subseteq BagToSet(fread)
    BY <1>2, <2>1, BagsOfRecords
  <2> QED
    BY <1>1, <1>2, <1>14, <2>2 DEF ListenShrink
<1>15. CASE Collide
  <2>1. PICK x \in Queued, y \in Queued \cup taken :
            heap' = (heap (-) SetToBag({x})) (+) SetToBag({y})
    BY <1>15 DEF Collide
  <2>2. x \in Said /\ y \in Said
    BY <1>1
  <2>3. x \in Times /\ y \in Times
    BY <1>1, <2>2
  <2>4. BagToSet(heap') \subseteq BagToSet(heap) \cup {y}
    BY <1>2, <2>1, <2>3, BagsThatCollide
  <2>5. BagToSet(heap') \subseteq Said
    BY <2>2, <2>4
  <2> QED
    BY <1>2, <1>15, <2>5 DEF Collide
<1>16. CASE CollideAndDie
  BY <1>4, <1>16 DEF CollideAndDie
<1>17. CASE UNCHANGED vars
  BY <1>2, <1>17 DEF vars
<1> QED
  BY <1>3, <1>5, <1>6, <1>7, <1>8, <1>9, <1>10, <1>11, <1>12, <1>13, <1>14, <1>15, <1>16,
     <1>17
  DEF Next, P, F

(* However pushes and pops overlap, and whichever of their writes is lost,  *)
(* F answers only what somebody said, and the test record (fsm.go:267-275). *)
THEOREM OnlyWhatWasSaid == Spec => [](taken \cup {msg} \subseteq Said)
<1>1. Init => OnlySaid
  <2>1. 0 \in 0..Old /\ Old \in 0..Old
    BY Bounds
  <2> QED
    BY <2>1, BagsOfRecords DEF Init, OnlySaid, Said, Test
<1>2. OnlySaid => taken \cup {msg} \subseteq Said
  BY DEF OnlySaid
<1> QED
  BY <1>1, <1>2, OnlySaidKept, AlwaysTyped, PTL DEF Spec

-----------------------------------------------------------------------------
(* Whoever writes puts into the heap what it had read and one record more   *)
(* or less: one that P has in its hand, one that F has taken, or the test   *)
(* record.  If the other is between its read and its write, that record is  *)
(* excused there.                                                           *)
LEMMA AgreeKept ==
    ASSUME Typed, Agree, [Next]_vars
    PROVE  Agree'
<1> USE DEF Agree, GotoP, GotoF, heapVars, pVars, fVars, SetHeap, FInside, Queued, Excused
<1>1. IsHeap(heap) /\ IsHeap(pread) /\ IsHeap(fread) /\ cur \in Times /\ msg \in Times
  BY DEF Typed
<1>2. CASE Talk
  BY <1>2 DEF Talk
<1>3. Panic => Agree'
  BY DEF Panic
<1>4. CASE PollFetch \/ PollPushed
  BY <1>4 DEF PollFetch, PollPushed
<1>5. CASE PollPush
  BY <1>5 DEF PollPush
<1>6. CASE PollStore
  <2>1. heap' = pread (+) SetToBag({cur}) /\ ppc = "store" /\ ppc' = "sift"
    BY <1>6 DEF PollStore
  <2>2. BagToSet(heap') = BagToSet(pread) \cup {cur}
    BY <1>1, <2>1, BagsOfRecords
  <2>3. UNCHANGED <<fpc, fread, taken>>
    BY <1>6 DEF PollStore
  <2>4. FInside => raced' = raced \cup {cur}
    BY <1>6 DEF PollStore
  <2> QED
    BY <2>1, <2>2, <2>3, <2>4
<1>7. CASE PollSift \/ PollCheck \/ PollRead
  <2>1. CASE Panic
    BY <1>3, <2>1
  <2>2. CASE ~Panic
    <3>1. UNCHANGED <<heap, fpc, fread, taken, raced>> /\ ppc' # "store"
      BY <1>7, <2>2 DEF PollSift, PollCheck, PollRead
    <3> QED
      BY <3>1
  <2> QED
    BY <2>1, <2>2
<1>8. CASE ListenPush \/ ListenTick \/ ListenPop \/ ListenAgain
  BY <1>8 DEF ListenPush, ListenTick, ListenPop, ListenAgain
<1>9. CASE ListenStore
  <2>1. heap' = fread (+) SetToBag({Test}) /\ Test \in Times /\ fpc = "store" /\ fpc' = "tick"
    BY <1>9, Bounds DEF ListenStore, Test, Times
  <2>2. BagToSet(heap') = BagToSet(fread) \cup {Test}
    BY <1>1, <2>1, BagsOfRecords
  <2>3. UNCHANGED <<ppc, pread, taken, raced>>
    BY <1>9 DEF ListenStore
  <2> QED
    BY <2>1, <2>2, <2>3
<1>10. CASE ListenShrink
  <2>1. heap' = fread (-) SetToBag({msg}) /\ fpc = "shrink" /\ fpc' = "busy"
    BY <1>10 DEF ListenShrink
  <2>2. /\ BagToSet(heap') \subseteq BagToSet(fread)
        /\ BagToSet(fread) \subseteq BagToSet(heap') \cup {msg}
    BY <1>1, <2>1, BagsOfRecords
  <2>3. taken' = taken \cup {msg} /\ UNCHANGED <<ppc, pread, raced>>
    BY <1>10 DEF ListenShrink
  <2> QED
    BY <2>1, <2>2, <2>3
<1>11. CASE Collide
  BY <1>11 DEF Collide
<1>12. CASE CollideAndDie
  BY <1>3, <1>12 DEF CollideAndDie
<1>13. CASE UNCHANGED vars
  BY <1>13 DEF vars
<1> QED
  BY <1>2, <1>4, <1>5, <1>6, <1>7, <1>8, <1>9, <1>10, <1>11, <1>12, <1>13 DEF Next, P, F

(* So a step drops no record that is not excused, and adds only those P     *)
(* fetches.                                                                 *)
LEMMA FetchedSteps ==
    ASSUME Typed, Holds, Agree, [Next]_vars
    PROVE  \/ PollFetch /\ Fetched' = Fetched \cup {t \in Window : t > last_time}
           \/ ~PollFetch /\ Fetched' = Fetched
<1> USE DEF GotoP, GotoF, heapVars, pVars, fVars, SetHeap, Fetched, Queued, InHand, Excused
<1>1. IsHeap(heap) /\ IsHeap(pread) /\ IsHeap(fread) /\ cur \in Times /\ msg \in Times
      /\ Queued \subseteq Times /\ taken \subseteq Times
  BY DEF Typed, IsHeap
<1>2. CASE PollFetch
  BY <1>2 DEF PollFetch, Newer, Holds
<1>3. CASE Talk
  BY <1>3 DEF Talk, PollFetch
<1>4. CASE PollPush
  <2>1. todo = todo' \cup {cur'} /\ ppc = "push" /\ ppc' = "store"
    BY <1>4 DEF PollPush
  <2>2. UNCHANGED <<heap, fpc, msg, taken, raced>>
    BY <1>4 DEF PollPush
  <2> QED
    BY <2>1, <2>2 DEF PollFetch
<1>5. CASE PollStore
  <2>1. heap' = pread (+) SetToBag({cur}) /\ ppc = "store" /\ ppc' = "sift"
    BY <1>5 DEF PollStore
  <2>2. BagToSet(heap') = BagToSet(pread) \cup {cur}
    BY <1>1, <2>1, BagsOfRecords
  <2>3. raced \subseteq raced' /\ raced' \subseteq raced \cup {cur}
        /\ UNCHANGED <<todo, cur, fpc, msg, taken>>
    BY <1>5 DEF PollStore
  <2> QED
    BY <2>1, <2>2, <2>3 DEF PollFetch, Agree
<1>6. Panic => UNCHANGED Fetched
  BY DEF Panic
<1>7. CASE PollSift \/ PollPushed \/ PollCheck \/ PollRead
  <2>1. CASE Panic
    BY <1>6, <1>7, <2>1 DEF PollSift, PollPushed, PollCheck, PollRead, PollFetch
  <2>2. CASE ~Panic
    <3>1. /\ UNCHANGED <<heap, todo, fpc, msg, taken, raced>>
          /\ ppc # "store" /\ ppc' # "store" /\ ppc # "tick"
      BY <1>7, <2>2 DEF PollSift, PollPushed, PollCheck, PollRead
    <3> QED
      BY <3>1 DEF PollFetch
  <2> QED
    BY <2>1, <2>2
<1>8. CASE ListenPush \/ ListenAgain
  BY <1>8 DEF ListenPush, ListenAgain, PollFetch
<1>9. CASE ListenStore
  <2>1. heap' = fread (+) SetToBag({Test}) /\ Test \in Times /\ fpc = "store" /\ fpc' = "tick"
    BY <1>9, Bounds DEF ListenStore, Test, Times
  <2>2. BagToSet(heap') = BagToSet(fread) \cup {Test}
    BY <1>1, <2>1, BagsOfRecords
  <2>3. UNCHANGED <<todo, cur, ppc, taken, raced>>
    BY <1>9 DEF ListenStore
  <2> QED
    BY <2>1, <2>2, <2>3 DEF PollFetch, Agree, FInside
<1>10. CASE ListenTick
  BY <1>10 DEF ListenTick, PollFetch
<1>11. CASE ListenPop
  <2>1. msg' \in Queued
    BY <1>11 DEF ListenPop, Holds
  <2>2. UNCHANGED <<heap, ppc, todo, cur, taken, raced>> /\ fpc = "sift" /\ fpc' = "shrink"
    BY <1>11 DEF ListenPop
  <2> QED
    BY <2>1, <2>2 DEF PollFetch
<1>12. CASE ListenShrink
  <2>1. heap' = fread (-) SetToBag({msg}) /\ fpc = "shrink" /\ fpc' = "busy"
    BY <1>12 DEF ListenShrink
  <2>2. /\ BagToSet(heap') \subseteq BagToSet(fread)
        /\ BagToSet(fread) \subseteq BagToSet(heap') \cup {msg}
    BY <1>1, <2>1, BagsOfRecords
  <2>3. taken' = taken \cup {msg} /\ UNCHANGED <<ppc, todo, cur, raced>>
    BY <1>12 DEF ListenShrink
  <2> QED
    BY <2>1, <2>2, <2>3 DEF PollFetch, Agree, FInside
<1>13. CASE Collide
  <2>1. PICK x \in Queued, y \in Queued \cup taken :
            /\ heap' = (heap (-) SetToBag({x})) (+) SetToBag({y})
            /\ raced' = raced \cup {x}
    BY <1>13 DEF Collide
  <2>2. x \in Times /\ y \in Times
    BY <1>1
  <2>3. /\ BagToSet(heap') \subseteq BagToSet(heap) \cup {y}
        /\ BagToSet(heap) \subseteq BagToSet(heap') \cup {x}
    BY <1>1, <2>1, <2>2, BagsThatCollide
  <2>4. UNCHANGED <<ppc, fpc, todo, cur, msg, taken>> /\ ppc = "sift"
    BY <1>13 DEF Collide
  <2>5. InHand' = InHand /\ Excused' = Excused \cup {x}
    BY <2>1, <2>4
  <2>6. Queued' \cup Excused' = Queued \cup Excused
    BY <2>3, <2>5
  <2>7. ~PollFetch
    BY <2>4 DEF PollFetch
  <2> HIDE DEF InHand, Queued, Excused
  <2> QED
    BY <2>5, <2>6, <2>7
<1>14. CASE CollideAndDie
  BY <1>6, <1>14 DEF CollideAndDie, PollFetch
<1>15. CASE UNCHANGED vars
  BY <1>15 DEF vars, PollFetch
<1> QED
  BY <1>2, <1>3, <1>4, <1>5, <1>7, <1>8, <1>9, <1>10, <1>11, <1>12, <1>13, <1>14, <1>15
  DEF Next, P, F

(* The window moves up with the records that are made. *)
LEMMA WindowSteps ==
    ASSUME Typed, [Next]_vars
    PROVE  \/ made' = made /\ Window' = Window
           \/ /\ made' = made + 1 /\ last_time' = last_time /\ ~PollFetch
              /\ Window' \subseteq Window \cup {made + 1}
<1>1. CASE Talk
  <2>1. made' = made + 1 /\ made \in Nat /\ last_time' = last_time
    BY <1>1, Bounds DEF Talk, Typed, pVars
  <2>2. Window' \subseteq Window \cup {made + 1}
    BY <2>1, Bounds DEF Window
  <2>3. ~PollFetch
    BY <2>1 DEF PollFetch
  <2> QED
    BY <2>1, <2>2, <2>3
<1>2. CASE ~Talk
  <2>1. made' = made
    BY <1>2 DEF Next, P, F, PollFetch, PollPush, PollStore, PollSift, PollPushed, PollCheck,
                PollRead, ListenPush, ListenStore, ListenTick, ListenPop, ListenShrink,
                ListenAgain, Collide, CollideAndDie, Panic, vars
  <2> QED
    BY <2>1 DEF Window
<1> QED
  BY <1>1, <1>2

(* last_time is a record that was fetched. *)
LEMMA SeenSteps ==
    ASSUME [Next]_vars
    PROVE  last_time' = last_time \/ (last_time' \in Queued /\ ~PollFetch)
BY DEF Next, Talk, P, F, PollFetch, PollPush, PollStore, PollSift, PollPushed, PollCheck,
       PollRead, Seen, First, ListenPush, ListenStore, ListenTick, ListenPop, ListenShrink,
       ListenAgain, Collide, CollideAndDie, Panic, vars, pVars, GotoP

IInv == Typed /\ Holds /\ Agree /\ Gapless /\ Exist /\ OnlyOverlapsLose

LEMMA NextKeepsIInv ==
    ASSUME IInv, [Next]_vars
    PROVE  IInv'
<1> DEFINE New == {t \in Window : t > last_time}
<1>1. /\ Typed /\ Holds /\ Agree /\ Gapless /\ Exist
      /\ Typed' /\ Holds' /\ Agree'
  BY TypesKept, HoldsKept, AgreeKept DEF IInv
<1>2. /\ last_time \in Nat /\ last_time' \in Nat /\ made \in Nat /\ Old \in Nat /\ Test = 0
      /\ Old <= made
      /\ \A t \in Window : t \in Nat /\ t <= made
  BY <1>1, Bounds DEF Typed, Times, Window, Test
<1>3. \A t \in Window : t > Old /\ t <= last_time => t \in Fetched
  <2> SUFFICES ASSUME NEW t \in Window, t > Old, t <= last_time PROVE t \in Fetched
    OBVIOUS
  <2>1. ~(t > last_time)
    BY <1>2
  <2>2. t \in Queued \cup InHand \cup taken \cup raced
    BY <2>1 DEF IInv, OnlyOverlapsLose
  <2> QED
    BY <2>2 DEF Fetched, Excused
<1>4. \A u \in Fetched : u \in Nat
  <2>1. Queued \subseteq Times /\ InHand \subseteq Times
    BY <1>1 DEF Queued, InHand, Typed, IsHeap
  <2>2. Excused \subseteq Times
    BY <1>1, <1>2, Bounds DEF Excused, Times, Typed
  <2> QED
    BY <2>1, <2>2, Bounds DEF Fetched, Times
<1>5. Fetched \subseteq Fetched'
  BY <1>1, FetchedSteps
<1>6. Queued \subseteq Fetched
  BY DEF Fetched
<1> HIDE DEF Fetched, Window
<1>7. \A t \in Window' : \A u \in Fetched' : t > Old /\ t <= u => t \in Fetched'
  <2>1. CASE PollFetch
    <3>1. Window' = Window /\ Fetched' = Fetched \cup New
      BY <1>1, <2>1, FetchedSteps, WindowSteps
    <3> QED
      BY <1>3, <1>2, <3>1
  <2>2. CASE ~PollFetch
    <3> SUFFICES ASSUME NEW t \in Window', NEW u \in Fetched', t > Old, t <= u
                 PROVE  t \in Fetched
      BY <1>5
    <3>1. u \in Fetched
      BY <1>1, <2>2, FetchedSteps
    <3>2. t \in Window \/ t = made + 1
      BY <1>1, WindowSteps
    <3>3. t \in Nat
      BY <1>2, <3>2
    <3>4. u \in Fetched /\ u <= made
      BY <1>1, <1>2, <3>1, <3>3 DEF Exist
    <3>5. t \in Window
      BY <1>2, <1>4, <3>2, <3>4
    <3> QED
      BY <1>1, <3>4, <3>5 DEF Gapless
  <2> QED
    BY <2>1, <2>2
<1>8. \A t \in Window' : t > Old /\ t <= last_time' => t \in Fetched'
  <2> SUFFICES ASSUME NEW t \in Window', t > Old, t <= last_time' PROVE t \in Fetched'
    OBVIOUS
  <2>1. CASE last_time' = last_time
    <3>1. t \in Window \/ t = made + 1
      BY <1>1, WindowSteps
    <3>2. t # made + 1
      BY <1>1, <1>2, <2>1 DEF Exist
    <3> QED
      BY <1>3, <1>5, <2>1, <3>1, <3>2
  <2>2. CASE last_time' # last_time
    <3>1. last_time' \in Fetched'
      BY <1>5, <1>6, <2>2, SeenSteps
    <3> QED
      BY <1>7, <3>1
  <2> QED
    BY <2>1, <2>2
<1>9. made' \in {made, made + 1}
  BY <1>1, WindowSteps
<1>10. Exist'
  <2>1. last_time' <= made
    BY <1>1, <1>6, SeenSteps DEF Exist
  <2>2. \A u \in Fetched' : u \in Fetched \/ u \in Window
    BY <1>1, <1>2, FetchedSteps
  <2>3. \A u \in Fetched' : u <= made
    BY <1>1, <1>2, <2>2 DEF Exist
  <2>4. \A u \in Fetched' : u \in Nat
    BY <1>2, <1>4, <2>2
  <2> QED
    BY <1>2, <1>9, <2>1, <2>3, <2>4 DEF Exist
<1>11. OnlyOverlapsLose'
  <2>1. \A t \in Window' : t \in Nat
    BY <1>1, <1>2, WindowSteps
  <2>2. \A t \in Window' : t > Old /\ t \notin Fetched' => t > last_time'
    BY <1>2, <1>8, <2>1
  <2> QED
    BY <1>2, <2>1, <2>2 DEF OnlyOverlapsLose, Fetched, Excused
<1>12. Gapless'
  BY <1>7 DEF Gapless
<1> QED
  BY <1>1, <1>10, <1>11, <1>12 DEF IInv

(* A query is lost only if F was inside a push or pop when P pushed it, or  *)
(* in a collision of swaps (fsm.go:267, 275, 410): not by a stale slice,    *)
(* nor by the order of the pushes, nor by last_time that falls back.        *)
THEOREM OnlyOverlapsLoseQueries == Spec => []OnlyOverlapsLose
<1>1. Init => IInv
  <2> SUFFICES ASSUME Init PROVE IInv
    OBVIOUS
  <2>1. Typed /\ Holds /\ Agree
    BY InitTyped DEF Init, Holds, Agree, FInside
  <2>2. /\ Queued = {} /\ InHand = {} /\ Excused = {0} /\ last_time = Old /\ made = Old
        /\ \A t \in Window : t \in Nat /\ t <= Old
    BY BagsOfRecords, Bounds DEF Init, Queued, InHand, Excused, Test, Window
  <2>3. Fetched = {0}
    BY <2>2 DEF Fetched
  <2>4. Gapless /\ Exist
    BY <2>2, <2>3, Bounds DEF Gapless, Exist
  <2>5. OnlyOverlapsLose
    BY <2>2, Bounds DEF OnlyOverlapsLose
  <2> QED
    BY <2>1, <2>4, <2>5 DEF IInv
<1>2. IInv /\ [Next]_vars => IInv'
  BY NextKeepsIInv
<1>3. IInv => OnlyOverlapsLose
  BY DEF IInv
<1> QED
  BY <1>1, <1>2, <1>3, PTL DEF Spec
=============================================================================
