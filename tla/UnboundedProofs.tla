--------------------------- MODULE UnboundedProofs ---------------------------
(***************************************************************************)
(* For any items and any readers, an Unbounded is a Fifo, strands nothing  *)
(* in its backlog, and ends after its last item.                           *)
(*                                                                         *)
(* What is in the queue is the concatenation of the channel, the backlog   *)
(* and the item of a Put that has not appended yet.  Put bypasses the last *)
(* two only when they are empty, so it appends to the concatenation; Load  *)
(* moves an item across the boundary between the first two, which leaves   *)
(* it as it is.                                                            *)
(***************************************************************************)
EXTENDS Unbounded, TLAPS

(* A buffer that is closing and not at its end has an item in the channel  *)
(* or a reader that will call Load, which moves one or closes the channel. *)
(* That items are still behind the channel is not enough of a reason:      *)
(* NothingStranded says that they do not stay there.                       *)
EndIsComing ==
    /\ closing /\ ~ended => c # <<>> \/ backlog # <<>> \/ owing # {}
    /\ closed => ended

IInv == TypeOK /\ NothingStranded /\ EndIsLast /\ EndIsComing

-----------------------------------------------------------------------------
(* The channel and a Put hold one item at most. *)
LEMMA OneItem ==
    ASSUME TypeOK
    PROVE  /\ c \in Seq(Items) /\ putting \in Seq(Items) /\ backlog \in Seq(Items)
           /\ c # <<>> => \E x \in Items : c = <<x>>
           /\ putting # <<>> => \E x \in Items : putting = <<x>>
<1>1. /\ c \in {<<>>} \cup {<<x>> : x \in Items}
      /\ putting \in {<<>>} \cup {<<x>> : x \in Items}
      /\ backlog \in Seq(Items)
  BY DEF TypeOK
<1>2. /\ c # <<>> => \E x \in Items : c = <<x>>
      /\ putting # <<>> => \E x \in Items : putting = <<x>>
  BY <1>1
<1>3. <<>> \in Seq(Items) /\ \A x \in Items : <<x>> \in Seq(Items)
  OBVIOUS
<1> QED
  BY <1>1, <1>2, <1>3

(* Moving the first item of a sequence over keeps the concatenation. *)
LEMMA ItemMoves ==
    ASSUME NEW S, NEW s \in Seq(S), s # <<>>
    PROVE  /\ <<Head(s)>> \o Tail(s) = s
           /\ Head(s) \in S /\ Tail(s) \in Seq(S)
OBVIOUS

(* The concatenation is empty only if all its parts are. *)
LEMMA EmptyConcat ==
    ASSUME NEW S, NEW a \in Seq(S), NEW b \in Seq(S)
    PROVE  a \o b = <<>> <=> a = <<>> /\ b = <<>>
OBVIOUS

LEMMA InitIInv == Init => IInv
<1> SUFFICES ASSUME Init PROVE IInv
  OBVIOUS
<1>1. <<>> \in Seq(Items) /\ <<>> \o <<>> = <<>>
  OBVIOUS
<1>2. TypeOK
  BY <1>1 DEF Init, TypeOK
<1>3. NothingStranded /\ EndIsLast /\ EndIsComing
  BY <1>1 DEF Init, NothingStranded, EndIsLast, EndIsComing
<1> QED
  BY <1>2, <1>3 DEF IInv

LEMMA TypesKept ==
    ASSUME TypeOK, [Next]_vars
    PROVE  TypeOK'
<1> USE OneItem DEF TypeOK, Unlocked
<1>1. ASSUME NEW x \in Items, Put(x) PROVE TypeOK'
  BY <1>1 DEF Put
<1>2. CASE PutAppend
  BY <1>2 DEF PutAppend
<1>3. CASE Close
  BY <1>3 DEF Close, Drained
<1>4. ASSUME NEW r \in Readers, Load(r) PROVE TypeOK'
  <2>1. backlog # <<>> => Head(backlog) \in Items /\ Tail(backlog) \in Seq(Items)
    BY ItemMoves
  <2>2. c' \in {<<>>} \cup {<<x>> : x \in Items} /\ backlog' \in Seq(Items)
    BY <1>4, <2>1 DEF Load, Moves
  <2>3. ended' \in BOOLEAN /\ crashed' \in BOOLEAN
    BY <1>4 DEF Load, Closes
  <2> QED
    BY <1>4, <2>2, <2>3 DEF Load
<1>5. ASSUME NEW r \in Readers, Receive(r) \/ ReceiveNil(r) PROVE TypeOK'
  BY <1>5 DEF Receive, ReceiveNil
<1>6. CASE UNCHANGED vars
  BY <1>6 DEF vars
<1> QED
  BY <1>1, <1>2, <1>3, <1>4, <1>5, <1>6 DEF Next

(* Only a Load takes the last debt away, and it leaves the channel full if *)
(* anything is left.                                                       *)
LEMMA NothingStrandedKept ==
    ASSUME TypeOK, NothingStranded, [Next]_vars
    PROVE  NothingStranded'
<1> DEFINE Waiting == backlog # <<>> \/ putting # <<>>
           Alright == Waiting => c # <<>> \/ owing # {}
<1>1. Alright
  BY OneItem, EmptyConcat DEF NothingStranded
<1> SUFFICES Alright'
  BY TypesKept, OneItem, EmptyConcat DEF NothingStranded, TypeOK
<1>2. ASSUME NEW x \in Items, Put(x) PROVE Alright'
  BY <1>1, <1>2 DEF Put, Direct
<1>3. CASE PutAppend
  BY <1>1, <1>3 DEF PutAppend
<1>4. CASE Close
  BY <1>1, <1>4 DEF Close
<1>5. ASSUME NEW r \in Readers, Load(r) PROVE Alright'
  <2>1. putting' = <<>>
    BY <1>5 DEF Load, Unlocked
  <2>2. CASE Moves
    <3>1. c' = <<Head(backlog)>>
      BY <1>5, <2>2 DEF Load
    <3> QED
      BY <3>1
  <2>3. CASE ~Moves
    <3>1. c' = c /\ backlog' = backlog
      BY <1>5, <2>3 DEF Load
    <3> QED
      BY <2>1, <2>3, <3>1 DEF Moves
  <2> QED
    BY <2>2, <2>3
<1>6. ASSUME NEW r \in Readers, Receive(r) \/ ReceiveNil(r) PROVE Alright'
  BY <1>1, <1>6 DEF Receive, ReceiveNil
<1>7. CASE UNCHANGED vars
  BY <1>1, <1>7 DEF vars
<1> QED
  BY <1>2, <1>3, <1>4, <1>5, <1>6, <1>7 DEF Next

(* The channel is closed under the lock, with nothing left behind it. *)
LEMMA EndIsLastKept ==
    ASSUME TypeOK, EndIsLast, [Next]_vars
    PROVE  EndIsLast'
<1> USE DEF EndIsLast, TypeOK, Unlocked
<1>1. ASSUME NEW x \in Items, Put(x) PROVE EndIsLast'
  BY <1>1 DEF Put
<1>2. CASE PutAppend \/ Close
  BY <1>2 DEF PutAppend, Close, Drained
<1>3. ASSUME NEW r \in Readers, Load(r) PROVE EndIsLast'
  BY <1>3 DEF Load, Moves, Closes
<1>4. ASSUME NEW r \in Readers, Receive(r) \/ ReceiveNil(r) PROVE EndIsLast'
  BY <1>4 DEF Receive, ReceiveNil
<1>5. CASE UNCHANGED vars
  BY <1>5 DEF vars
<1> QED
  BY <1>1, <1>2, <1>3, <1>4, <1>5 DEF Next

(* A Load that finds nothing to move closes the channel. *)
LEMMA EndIsComingKept ==
    ASSUME TypeOK, EndIsComing, [Next]_vars
    PROVE  EndIsComing'
<1> USE DEF EndIsComing
<1>1. ASSUME NEW x \in Items, Put(x) PROVE EndIsComing'
  BY <1>1 DEF Put
<1>2. CASE PutAppend
  BY <1>2, OneItem, EmptyConcat DEF PutAppend
<1>3. CASE Close
  BY <1>3 DEF Close, Drained
<1>4. ASSUME NEW r \in Readers, Load(r) PROVE EndIsComing'
  <2>1. /\ ended' = (ended \/ Closes) /\ UNCHANGED <<closing, closed>>
        /\ Moves => c' = <<Head(backlog)>>
        /\ ~Moves => UNCHANGED <<c, backlog>>
    BY <1>4 DEF Load
  <2>2. closed' => ended'
    BY <2>1
  <2>3. Moves => c' # <<>>
    BY <2>1
  <2>4. ~Moves => (closing' /\ ~ended' => c' # <<>> \/ backlog' # <<>> \/ owing' # {})
    BY <2>1 DEF Moves, Closes
  <2> QED
    BY <2>2, <2>3, <2>4
<1>5. ASSUME NEW r \in Readers, Receive(r) \/ ReceiveNil(r) PROVE EndIsComing'
  BY <1>5 DEF Receive, ReceiveNil
<1>6. CASE UNCHANGED vars
  BY <1>6 DEF vars
<1> QED
  BY <1>1, <1>2, <1>3, <1>4, <1>5, <1>6 DEF Next

LEMMA NextKeepsIInv ==
    ASSUME IInv, [Next]_vars
    PROVE  IInv'
BY TypesKept, NothingStrandedKept, EndIsLastKept, EndIsComingKept DEF IInv

LEMMA AlwaysIInv == Spec => []IInv
BY InitIInv, NextKeepsIInv, PTL DEF Spec

-----------------------------------------------------------------------------
(* What is in the queue. *)
Line == c \o backlog \o putting

(* Put adds its item at the end, ... *)
LEMMA PutQueues ==
    ASSUME TypeOK, NEW x \in Items, Put(x)
    PROVE  Line' = Append(Line, x)
<1>1. putting = <<>> /\ UNCHANGED backlog
  BY DEF Put, Unlocked
<1>2. CASE Direct
  <2>1. c = <<>> /\ backlog = <<>> /\ c' = <<x>> /\ putting' = putting
    BY <1>2 DEF Put, Direct
  <2>2. Line = <<>> /\ Line' = <<x>>
    BY <1>1, <2>1 DEF Line
  <2> QED
    BY <2>2
<1>3. CASE ~Direct
  <2>1. c' = c /\ putting' = <<x>>
    BY <1>3 DEF Put
  <2> QED
    BY <1>1, <2>1, OneItem DEF Line
<1> QED
  BY <1>2, <1>3

(* ... a receive takes the first, ... *)
LEMMA ReceiveTakes ==
    ASSUME TypeOK, NEW r \in Readers, Receive(r)
    PROVE  Line # <<>> /\ Line' = Tail(Line) /\ Head(Line) = Head(c)
<1>1. c # <<>> /\ c' = <<>> /\ UNCHANGED <<backlog, putting>>
  BY DEF Receive
<1>2. PICK x \in Items : c = <<x>>
  BY <1>1, OneItem
<1> QED
  BY <1>1, <1>2, OneItem DEF Line

(* ... and the rest moves items within the queue. *)
LEMMA OthersKeepLine ==
    ASSUME TypeOK
    PROVE  /\ PutAppend => UNCHANGED Line
           /\ Close => UNCHANGED Line
           /\ \A r \in Readers : Load(r) => UNCHANGED Line
           /\ \A r \in Readers : ReceiveNil(r) => UNCHANGED Line
<1>1. ASSUME PutAppend PROVE UNCHANGED Line
  <2>1. c' = c /\ backlog' = backlog \o putting /\ putting' = <<>>
    BY <1>1 DEF PutAppend
  <2> QED
    BY <2>1, OneItem DEF Line
<1>2. ASSUME NEW r \in Readers, Load(r) PROVE UNCHANGED Line
  <2>1. putting' = putting
    BY <1>2 DEF Load
  <2>2. CASE Moves
    <3>1. c = <<>> /\ c' = <<Head(backlog)>> /\ backlog' = Tail(backlog) /\ backlog # <<>>
      BY <1>2, <2>2 DEF Load, Moves
    <3>2. c' \o backlog' = backlog /\ c \o backlog = backlog
      BY <3>1, ItemMoves, OneItem
    <3> QED
      BY <2>1, <3>2 DEF Line
  <2>3. CASE ~Moves
    BY <1>2, <2>1, <2>3 DEF Load, Line
  <2> QED
    BY <2>2, <2>3
<1>3. Close => UNCHANGED Line
  BY DEF Close, Line
<1>4. \A r \in Readers : ReceiveNil(r) => UNCHANGED Line
  BY DEF ReceiveNil, Line
<1> QED
  BY <1>1, <1>2, <1>3, <1>4

LEMMA StepsOfTheQueue ==
    ASSUME TypeOK, [Next]_vars
    PROVE  [Queue!Next]_(Queue!vars)
<1> USE DEF Line, Queue!Next, Queue!vars
<1>1. ASSUME NEW x \in Items, Put(x) PROVE Queue!Next
  BY <1>1, PutQueues DEF Put, Queue!Put
<1>2. CASE PutAppend
  BY <1>2, OthersKeepLine DEF PutAppend
<1>3. CASE Close
  BY <1>3 DEF Close, Queue!Close
<1>4. ASSUME NEW r \in Readers, Load(r) PROVE UNCHANGED Queue!vars
  BY <1>4, OthersKeepLine DEF Load
<1>5. ASSUME NEW r \in Readers, Receive(r) PROVE Queue!Get
  BY <1>5, ReceiveTakes DEF Receive, Queue!Get
<1>6. ASSUME NEW r \in Readers, ReceiveNil(r) PROVE UNCHANGED Queue!vars
  BY <1>6 DEF ReceiveNil
<1>7. CASE UNCHANGED vars
  BY <1>7 DEF vars
<1> QED
  BY <1>1, <1>2, <1>3, <1>4, <1>5, <1>6, <1>7 DEF Next

(* The parts of an Unbounded keep their types: the channel and a Put hold   *)
(* one item at most, whoever calls what.                                    *)
THEOREM TypeCorrect == Spec => []TypeOK
BY AlwaysIInv, PTL DEF IInv

(* No item waits in the backlog without one in the channel or a reader that *)
(* is about to call Load, although receives are outside the lock.           *)
THEOREM NothingIsStranded == Spec => []NothingStranded
BY AlwaysIInv, PTL DEF IInv

(* The channel is closed only when everything has left the backlog.         *)
THEOREM EndComesLast == Spec => []EndIsLast
BY AlwaysIInv, PTL DEF IInv

(* Who drains a closed buffer is never left waiting: there is an item for   *)
(* him, or the end, or a reader that has received and will call Load.       *)
THEOREM DrainingGoesOn == Spec => [](closing => c # <<>> \/ ended \/ owing # {})
<1>1. IInv => (closing => c # <<>> \/ ended \/ owing # {})
  BY OneItem, EmptyConcat DEF IInv, NothingStranded, EndIsComing
<1> QED
  BY <1>1, AlwaysIInv, PTL

(* The channel, the backlog and an unfinished Put together are a queue,     *)
(* first in, first out, that takes nothing after Close and loses nothing.   *)
THEOREM ImplementsFifo == Spec => IsFifo
<1>1. Init => Queue!Init
  BY DEF Init, Queue!Init
<1>2. TypeOK /\ [Next]_vars => [Queue!Next]_(Queue!vars)
  BY StepsOfTheQueue
<1>3. IInv => TypeOK
  BY DEF IInv
<1> QED
  BY <1>1, <1>2, <1>3, AlwaysIInv, PTL DEF Spec, IsFifo, Queue!Spec
=============================================================================
