---------------------------- MODULE PubSubProofs ----------------------------
(***************************************************************************)
(* For any subscribers, any number of messages and any size of the queue.  *)
(*                                                                         *)
(* What holds of the buffer holds of the PubSub's, because every step here *)
(* is a step of the buffer or leaves it alone.  What is new is who calls:  *)
(* a closure is in the queue, in a reader's hand or called, and with one   *)
(* reader these three are in the order of the messages (InOrder); and with *)
(* one reader there is nothing in the channel when Load closes it.         *)
(***************************************************************************)
EXTENDS PubSub, TLAPS

Buf == INSTANCE UnboundedProofs WITH Items <- Closures

(* The closures scheduled and not received, oldest first. *)
Line == c \o backlog \o putting

(* A reader has a closure only while it works on it, and ps.mu while        *)
(* OnMessage runs, for a subscriber that is subscribed.                     *)
Working == {"load", "call", "run"}
HandsOn ==
    \A r \in Readers :
        /\ pc[r] \notin Working => cb[r] = <<>>
        /\ pc[r] = "run" => mu = r /\ cb[r] # <<>> /\ cb[r][1] \in subscribers

(* Only the AfterFunc closes the buffer. *)
AfterCloses == closing => pc["after"] \notin {"unset", "set"}

(* With one reader: what it holds was received, and when Load closes the    *)
(* channel the channel is empty and b.closed will not be asked again.       *)
CloseOnce ==
    OneReads =>
        /\ \A r \in Readers : pc[r] \in Working => cb[r] # <<>>
        /\ closing /\ owing # {} => c = <<>>
        /\ ended /\ ~closed => c = <<>> /\ owing = {}

(* With one reader: every subscriber has had only messages that are not     *)
(* later than the one in hand, and that is not later than those in line.    *)
InOrder ==
    OneReads =>
        /\ \A s \in Subs : latest[s] <= msg
        /\ \A i \in 1..Len(Line) :
               /\ Line[i][2] <= msg
               /\ \A s \in Subs : latest[s] <= Line[i][2]
               /\ \A j \in 1..i : Line[j][2] <= Line[i][2]
        /\ \A r \in Readers : cb[r] # <<>> =>
               /\ cb[r][2] <= msg
               /\ \A s \in Subs : latest[s] <= cb[r][2]
               /\ \A i \in 1..Len(Line) : cb[r][2] <= Line[i][2]

(* A Publish has given its message a number. *)
Numbered == mu = "publisher" => msg # 0

IInv ==
    /\ TypeOK
    /\ Numbered
    /\ Buf!IInv
    /\ HandsOn
    /\ AfterCloses
    /\ CloseOnce
    /\ InOrder
    /\ OnlyPublishDies

-----------------------------------------------------------------------------
(* Unbounded and the module of its proofs are about the same buffer. *)
LEMMA SameBuffer ==
    /\ \A x \in Closures : Buffer!Put(x) => Buf!Put(x)
    /\ Buffer!PutAppend => Buf!PutAppend
    /\ Buffer!Close => Buf!Close
    /\ \A r \in Readers : /\ Buffer!Load(r) => Buf!Load(r)
                          /\ Buffer!Receive(r) => Buf!Receive(r)
                          /\ Buffer!ReceiveNil(r) => Buf!ReceiveNil(r)
    /\ Buffer!Init => Buf!Init
    /\ Buffer!TypeOK <=> Buf!TypeOK
    /\ Buffer!NothingStranded <=> Buf!NothingStranded
    /\ Buffer!EndIsLast <=> Buf!EndIsLast
    /\ Buf!Line = Line
<1> USE DEF Buffer!Unlocked, Buf!Unlocked
<1>1. \A x \in Closures : Buffer!Put(x) => Buf!Put(x)
  BY DEF Buffer!Put, Buf!Put, Buffer!Direct, Buf!Direct
<1>2. (Buffer!PutAppend => Buf!PutAppend) /\ (Buffer!Close => Buf!Close)
  BY DEF Buffer!PutAppend, Buf!PutAppend, Buffer!Close, Buf!Close,
         Buffer!Drained, Buf!Drained
<1>3. \A r \in Readers : Buffer!Load(r) => Buf!Load(r)
  BY DEF Buffer!Load, Buf!Load, Buffer!Moves, Buf!Moves, Buffer!Closes, Buf!Closes
<1>4. \A r \in Readers : /\ Buffer!Receive(r) => Buf!Receive(r)
                         /\ Buffer!ReceiveNil(r) => Buf!ReceiveNil(r)
  BY DEF Buffer!Receive, Buf!Receive, Buffer!ReceiveNil, Buf!ReceiveNil,
         Buffer!AtEnd, Buf!AtEnd
<1>5. (Buffer!Init => Buf!Init) /\ (Buffer!TypeOK <=> Buf!TypeOK)
  BY DEF Buffer!Init, Buf!Init, Buffer!TypeOK, Buf!TypeOK
<1>6. /\ Buffer!NothingStranded <=> Buf!NothingStranded
      /\ Buffer!EndIsLast <=> Buf!EndIsLast
  BY DEF Buffer!NothingStranded, Buf!NothingStranded, Buffer!EndIsLast, Buf!EndIsLast
<1>7. Buf!Line = Line
  BY DEF Buf!Line, Line
<1> QED
  BY <1>1, <1>2, <1>3, <1>4, <1>5, <1>6, <1>7

(* The closure of the last message is one; numbers can be compared. *)
LEMMA ClosuresOf ==
    ASSUME TypeOK
    PROVE  /\ msg # 0 => \A s \in Subs : <<s, msg>> \in Closures
           /\ \A x \in Closures : x[1] \in Subs /\ x[2] \in Nat /\ x # <<>>
           /\ msg \in Nat
<1>1. MaxMsg \in Nat
  BY PubSubAssumption
<1>2. msg \in Nat /\ (msg # 0 => msg \in Msgs)
  BY <1>1 DEF TypeOK, Msgs
<1>3. \A x \in Closures : \E s \in Subs, m \in Msgs : x = <<s, m>>
  BY DEF Closures
<1>4. \A m \in Msgs : m \in Nat
  BY <1>1 DEF Msgs
<1>5. \A x \in Closures : x[1] \in Subs /\ x[2] \in Nat
  BY <1>3, <1>4
<1>6. \A x \in Closures : x # <<>>
  BY <1>3
<1>7. msg # 0 => \A s \in Subs : <<s, msg>> \in Closures
  BY <1>2 DEF Closures
<1> QED
  BY <1>2, <1>5, <1>6, <1>7

(* A step puts something into the buffer, has a reader take something out, *)
(* moves it or closes the buffer, or leaves the buffer alone.              *)
LEMMA StepsOfTheBuffer ==
    ASSUME TypeOK, Numbered, [Next]_vars
    PROVE  \/ \E x \in Closures : Buf!Put(x)
           \/ Buf!PutAppend \/ Buf!Close
           \/ \E r \in Readers : Buf!Load(r) \/ Buf!Receive(r) \/ Buf!ReceiveNil(r)
           \/ UNCHANGED bufferVars /\ (crashed' = crashed \/ crashed' = TRUE)
<1> USE SameBuffer
<1> DEFINE Goal == \/ \E x \in Closures : Buf!Put(x)
                   \/ Buf!PutAppend \/ Buf!Close
                   \/ \E r \in Readers : Buf!Load(r) \/ Buf!Receive(r) \/ Buf!ReceiveNil(r)
                   \/ UNCHANGED bufferVars /\ (crashed' = crashed \/ crashed' = TRUE)
<1>1. ASSUME NEW r \in Readers, Reader(r) PROVE Goal
  BY <1>1 DEF Reader, Receive, Load, OnMessage, OnMessageReturns, Dropped, CallNil
<1>2. CASE Register \/ Loop \/ RangeEnds
  BY <1>2 DEF Register, Loop, RangeEnds
<1>3. CASE ReceiveNil \/ AfterFunc
  BY <1>3 DEF ReceiveNil, AfterFunc, Readers
<1>4. CASE Puts
  <2>1. ASSUME NEW s \in Subs, ScheduleOr(s) PROVE Goal
    <3>1. CASE closing
      BY <2>1, <3>1 DEF ScheduleOr, Buffer!Put
    <3>2. CASE ~closing
      <4>1. Buffer!Put(<<s, msg>>)
        BY <2>1, <3>2 DEF ScheduleOr
      <4>2. PICK x \in Closures : Buffer!Put(x)
        BY <2>1, <4>1, ClosuresOf DEF ScheduleOr, Numbered
      <4> QED
        BY <4>2
    <3> QED
      BY <3>1, <3>2
  <2> QED
    BY <1>4, <2>1 DEF Puts, PutAppend, Published
<1>5. CASE Client
  <2>1. ASSUME NEW s \in Subs, NEW last \in BOOLEAN, Subscribe(s, last) PROVE Goal
    <3>1. CASE ~closing /\ last /\ msg # 0
      <4>1. Buffer!Put(<<s, msg>>)
        BY <2>1, <3>1 DEF Subscribe, TrySchedule
      <4>2. PICK x \in Closures : Buffer!Put(x)
        BY <3>1, <4>1, ClosuresOf
      <4> QED
        BY <4>2
    <3>2. CASE ~(~closing /\ last /\ msg # 0)
      BY <2>1, <3>2 DEF Subscribe, TrySchedule
    <3> QED
      BY <3>1, <3>2
  <2> QED
    BY <1>5, <2>1 DEF Client, Publish, Cancel, Unsubscribe
<1>6. CASE UNCHANGED vars
  BY <1>6 DEF vars
<1>7. "loop" \in Readers /\ "after" \in Readers
  BY DEF Readers
<1> QED
  BY <1>1, <1>2, <1>3, <1>4, <1>5, <1>6, <1>7 DEF Next, Run, After

(* So the buffer keeps its invariant. *)
LEMMA BufferKeepsIInv ==
    ASSUME TypeOK, Numbered, Buf!IInv, [Next]_vars
    PROVE  Buf!IInv'
<1>1. CASE Buf!Next
  BY <1>1, Buf!NextKeepsIInv
<1>2. CASE UNCHANGED bufferVars /\ (crashed' = crashed \/ crashed' = TRUE)
  BY <1>2 DEF bufferVars, Buf!IInv, Buf!TypeOK, Buf!NothingStranded, Buf!EndIsLast,
                 Buf!EndIsComing
<1> QED
  BY <1>1, <1>2, StepsOfTheBuffer DEF Buf!Next

(* What is received is a closure. *)
LEMMA ReceivesClosure ==
    ASSUME Buf!IInv, NEW r \in Readers, Receive(r)
    PROVE  Head(c) \in Closures /\ Head(c) # <<>>
<1>1. c # <<>> /\ c \in {<<>>} \cup {<<x>> : x \in Closures}
  BY DEF Receive, Buffer!Receive, Buf!IInv, Buf!TypeOK
<1>2. PICK x \in Closures : c = <<x>>
  BY <1>1
<1>3. x # <<>>
  <2>1. PICK s \in Subs, m \in Msgs : x = <<s, m>>
    BY DEF Closures
  <2> QED
    BY <2>1
<1> QED
  BY <1>2, <1>3

LEMMA InitIInv == Init => IInv
<1> SUFFICES ASSUME Init PROVE IInv
  OBVIOUS
<1> USE DEF Init, Buffer!Init, Readers
<1>1. Buf!IInv
  BY SameBuffer, Buf!InitIInv
<1>2. TypeOK
  <2>1. Buffer!TypeOK
    BY <1>1, SameBuffer DEF Buf!IInv
  <2>2. msg \in 0..MaxMsg /\ latest \in [Subs -> 0..MaxMsg]
    BY PubSubAssumption
  <2>3. pc \in [Readers -> Steps] /\ \A r \in Readers : r \in owing <=> pc[r] = "load"
    BY DEF Steps
  <2> QED
    BY <2>1, <2>2, <2>3 DEF TypeOK
<1>3. Numbered /\ HandsOn /\ AfterCloses /\ OnlyPublishDies
  BY DEF Numbered, HandsOn, Working, AfterCloses, OnlyPublishDies
<1>4. CloseOnce
  BY DEF CloseOnce, Working
<1>5. Line = <<>>
  BY DEF Line
<1>6. InOrder
  BY <1>5 DEF InOrder
<1> QED
  BY <1>1, <1>2, <1>3, <1>4, <1>6 DEF IInv

(* The goroutines, the lock and the fields of PubSub keep their types.  A   *)
(* reader owes a Load exactly between its receive and that Load.           *)
LEMMA TypesKept ==
    ASSUME TypeOK, Numbered, Buf!IInv, [Next]_vars
    PROVE  TypeOK'
<1> DEFINE Own == /\ cancelled \in BOOLEAN /\ done \in BOOLEAN
                  /\ pc \in [Readers -> Steps]
                  /\ cb \in [Readers -> {<<>>} \cup Closures]
                  /\ mu \in {"free", "publisher"} \cup Readers
                  /\ subscribers \subseteq Subs /\ todo \subseteq Subs
                  /\ msg \in 0..MaxMsg
                  /\ latest \in [Subs -> 0..MaxMsg]
                  /\ due \in [Subs -> SUBSET Msgs]
           Debts == \A r \in Readers : r \in owing <=> pc[r] = "load"
<1>1. Own /\ Debts /\ "loop" \in Readers /\ "after" \in Readers
  BY DEF TypeOK, Readers
<1> SUFFICES Own' /\ Debts'
  BY BufferKeepsIInv, SameBuffer DEF TypeOK, Buf!IInv, Buffer!TypeOK, Buf!TypeOK
<1> USE DEF Goto, runVars, psVars, bufferVars, Steps
<1>2. ASSUME NEW r \in Readers, Receive(r) PROVE Own' /\ Debts'
  BY <1>1, <1>2, ReceivesClosure DEF Receive, Buffer!Receive
<1>3. ASSUME NEW r \in Readers, Load(r) PROVE Own' /\ Debts'
  BY <1>1, <1>3 DEF Load, Buffer!Load
<1>4. ASSUME NEW r \in Readers, OnMessage(r) PROVE Own' /\ Debts'
  <2>1. cb[r] \in Closures
    BY <1>1, <1>4 DEF OnMessage
  <2>2. cb[r][1] \in Subs /\ cb[r][2] \in 0..MaxMsg
    BY <2>1, PubSubAssumption DEF Closures, Msgs
  <2>3. latest' \in [Subs -> 0..MaxMsg]
    BY <1>1, <1>4, <2>2 DEF OnMessage
  <2>4. due' \in [Subs -> SUBSET Msgs]
    BY <1>1, <1>4, <2>2 DEF OnMessage
  <2>5. /\ pc' \in [Readers -> Steps] /\ mu' \in Readers /\ Debts'
        /\ UNCHANGED <<cancelled, done, cb, subscribers, todo, msg>>
    BY <1>1, <1>4 DEF OnMessage
  <2> QED
    BY <1>1, <2>3, <2>4, <2>5
<1>5. ASSUME NEW r \in Readers, OnMessageReturns(r) \/ Dropped(r) \/ CallNil(r)
      PROVE  Own' /\ Debts'
  BY <1>1, <1>5 DEF OnMessageReturns, Dropped, CallNil
<1>6. CASE Register \/ Loop \/ RangeEnds
  BY <1>1, <1>6 DEF Register, Loop, RangeEnds
<1>7. CASE ReceiveNil \/ AfterFunc
  BY <1>1, <1>7 DEF ReceiveNil, Buffer!ReceiveNil, AfterFunc, Buffer!Close
<1>8. CASE Puts
  <2>1. ASSUME NEW s \in Subs, ScheduleOr(s) PROVE Own' /\ Debts'
    BY <1>1, <2>1 DEF ScheduleOr, Buffer!Put
  <2> QED
    BY <1>1, <1>8, <2>1 DEF Puts, PutAppend, Buffer!PutAppend, Published
<1>9. CASE Client
  <2>1. CASE Publish
    <3>1. msg' \in 0..MaxMsg /\ msg + 1 \in Msgs
      BY <1>1, <2>1, PubSubAssumption DEF Publish, Msgs
    <3>2. due' \in [Subs -> SUBSET Msgs]
      BY <1>1, <2>1, <3>1 DEF Publish
    <3> QED
      BY <1>1, <2>1, <3>1, <3>2 DEF Publish
  <2>2. ASSUME NEW s \in Subs, NEW last \in BOOLEAN, Subscribe(s, last)
        PROVE  Own' /\ Debts'
    BY <1>1, <2>2 DEF Subscribe, TrySchedule, Buffer!Put
  <2>3. ASSUME NEW s \in Subs, Unsubscribe(s) PROVE Own' /\ Debts'
    BY <1>1, <2>3 DEF Unsubscribe
  <2> QED
    BY <1>1, <1>9, <2>1, <2>2, <2>3 DEF Client, Cancel
<1>10. CASE UNCHANGED vars
  BY <1>1, <1>10 DEF vars
<1> QED
  BY <1>1, <1>2, <1>3, <1>4, <1>5, <1>6, <1>7, <1>8, <1>9, <1>10
  DEF Next, Run, After, Reader

(* The lock is free when OnMessage is called, and held while it runs.       *)
LEMMA HandsOnKept ==
    ASSUME IInv, [Next]_vars
    PROVE  HandsOn' /\ AfterCloses' /\ Numbered'
<1> DEFINE Goal == HandsOn /\ AfterCloses /\ Numbered
<1>1. Goal /\ TypeOK /\ Buf!IInv
  BY DEF IInv
<1>2. /\ pc \in [Readers -> Steps] /\ cb \in [Readers -> {<<>>} \cup Closures]
      /\ "loop" \in Readers /\ "after" \in Readers /\ Readers = {"loop", "after"}
      /\ msg \in Nat
  BY <1>1, PubSubAssumption DEF TypeOK, Readers
<1> USE DEF Goto, runVars, psVars, HandsOn, AfterCloses, Numbered, MuFree, Working,
            StillSubscribed
<1> HIDE DEF Readers
<1>3. ASSUME NEW r \in Readers, Receive(r) PROVE Goal'
  BY <1>1, <1>2, <1>3 DEF Receive, Buffer!Receive
<1>4. ASSUME NEW r \in Readers, Load(r) PROVE Goal'
  BY <1>1, <1>2, <1>4 DEF Load, Buffer!Load
<1>5. ASSUME NEW r \in Readers, OnMessage(r) PROVE Goal'
  BY <1>1, <1>2, <1>5, Zenon DEF OnMessage, bufferVars
<1>6. ASSUME NEW r \in Readers, OnMessageReturns(r) PROVE Goal'
  BY <1>1, <1>2, <1>6 DEF OnMessageReturns, bufferVars
<1>7. ASSUME NEW r \in Readers, Dropped(r) \/ CallNil(r) PROVE Goal'
  BY <1>1, <1>2, <1>7 DEF Dropped, CallNil, bufferVars
<1>8. CASE Register \/ Loop \/ RangeEnds \/ ReceiveNil
  BY <1>1, <1>2, <1>8 DEF Register, Loop, RangeEnds, ReceiveNil, Buffer!ReceiveNil,
                          bufferVars
<1>9. CASE AfterFunc
  BY <1>1, <1>2, <1>9 DEF AfterFunc
<1>10. CASE Puts
  <2>1. ASSUME NEW s \in Subs, ScheduleOr(s) PROVE Goal'
    BY <1>1, <1>2, <2>1 DEF ScheduleOr, Buffer!Put, bufferVars
  <2> QED
    BY <1>1, <1>2, <1>10, <2>1 DEF Puts, PutAppend, Buffer!PutAppend, Published, bufferVars
<1>11. CASE Client
  <2>1. CASE Publish
    BY <1>1, <1>2, <2>1 DEF Publish, bufferVars
  <2>2. ASSUME NEW s \in Subs, NEW last \in BOOLEAN, Subscribe(s, last) PROVE Goal'
    BY <1>1, <1>2, <2>2 DEF Subscribe, TrySchedule, Buffer!Put, bufferVars
  <2>3. ASSUME NEW s \in Subs, Unsubscribe(s) PROVE Goal'
    BY <1>1, <1>2, <2>3 DEF Unsubscribe, bufferVars
  <2> QED
    BY <1>1, <1>2, <1>11, <2>1, <2>2, <2>3 DEF Client, Cancel, bufferVars
<1>12. CASE UNCHANGED vars
  BY <1>1, <1>12 DEF vars, bufferVars
<1> QED
  BY <1>2, <1>3, <1>4, <1>5, <1>6, <1>7, <1>8, <1>9, <1>10, <1>11, <1>12
  DEF Next, Run, After, Reader

(* Two readers stay two. *)
LEMMA OneReadsBefore ==
    ASSUME TypeOK, [Next]_vars, OneReads'
    PROVE  OneReads
<1>1. pc \in [Readers -> Steps] /\ "loop" \in Readers /\ "after" \in Readers
      /\ Readers = {"loop", "after"}
  BY DEF TypeOK, Readers
<1> USE DEF OneReads, Goto, runVars
<1> HIDE DEF Readers
<1>2. ASSUME NEW r \in Readers, Reader(r) PROVE OneReads
  BY <1>1, <1>2 DEF Reader, Receive, Load, OnMessage, OnMessageReturns, Dropped, CallNil
<1>3. CASE Register \/ Loop \/ RangeEnds \/ ReceiveNil \/ AfterFunc
  BY <1>1, <1>3 DEF Register, Loop, RangeEnds, ReceiveNil, AfterFunc
<1>4. CASE Puts
  BY <1>4 DEF Puts, PutAppend, Published, ScheduleOr
<1>5. CASE Client
  BY <1>5 DEF Client, Publish, Cancel, Unsubscribe, Subscribe
<1>6. CASE UNCHANGED vars
  BY <1>6 DEF vars
<1> QED
  BY <1>1, <1>2, <1>3, <1>4, <1>5, <1>6 DEF Next, Run, After

(* With one reader, only that one has a closure, owes a Load or works; once *)
(* the buffer is closing it is the AfterFunc.                               *)
LEMMA TheReader ==
    ASSUME TypeOK, HandsOn, AfterCloses, OneReads
    PROVE  /\ \E r \in Readers : \A o \in Readers \ {r} :
                 cb[o] = <<>> /\ o \notin owing /\ pc[o] \notin Working \cup {"receive"}
           /\ closing => /\ pc["loop"] \in {"start", "returned"}
                         /\ "loop" \notin owing
                         /\ owing \subseteq {"after"}
<1>1. /\ Readers = {"loop", "after"} /\ "loop" \in Readers /\ "after" \in Readers
      /\ owing \subseteq Readers /\ \A r \in Readers : r \in owing <=> pc[r] = "load"
  BY DEF TypeOK, Buffer!TypeOK, Readers
<1> HIDE DEF Readers
<1>2. ASSUME NEW r \in Readers, pc[r] \in {"start", "returned", "unset", "set"}
      PROVE  cb[r] = <<>> /\ r \notin owing /\ pc[r] \notin Working \cup {"receive"}
  BY <1>1, <1>2 DEF HandsOn, Working
<1>3. CASE pc["loop"] \in {"start", "returned"}
  <2>1. \A o \in Readers \ {"after"} :
           cb[o] = <<>> /\ o \notin owing /\ pc[o] \notin Working \cup {"receive"}
    BY <1>1, <1>2, <1>3
  <2> QED
    BY <1>1, <1>2, <1>3, <2>1
<1>4. CASE pc["loop"] \notin {"start", "returned"}
  <2>1. pc["after"] \in {"unset", "set"}
    BY <1>4 DEF OneReads
  <2>2. \A o \in Readers \ {"loop"} :
           cb[o] = <<>> /\ o \notin owing /\ pc[o] \notin Working \cup {"receive"}
    BY <1>1, <1>2, <2>1
  <2> QED
    BY <1>1, <2>1, <2>2 DEF AfterCloses
<1> QED
  BY <1>3, <1>4

(* Load closes the channel once, and when it is empty. *)
LEMMA CloseOnceKept ==
    ASSUME IInv, [Next]_vars
    PROVE  CloseOnce'
<1> SUFFICES ASSUME OneReads' PROVE CloseOnce'
  BY DEF CloseOnce
<1> DEFINE Hands == \A r \in Readers : pc[r] \in Working => cb[r] # <<>>
           Empty == /\ closing /\ owing # {} => c = <<>>
                    /\ ended /\ ~closed => c = <<>> /\ owing = {}
<1>1. TypeOK /\ HandsOn /\ AfterCloses /\ OneReads /\ Hands /\ Empty /\ Buf!IInv
  BY OneReadsBefore DEF IInv, CloseOnce
<1> SUFFICES Hands' /\ Empty'
  BY DEF CloseOnce
<1>2. /\ pc \in [Readers -> Steps] /\ cb \in [Readers -> {<<>>} \cup Closures]
      /\ "loop" \in Readers /\ "after" \in Readers /\ Readers = {"loop", "after"}
      /\ owing \subseteq Readers /\ \A r \in Readers : r \in owing <=> pc[r] = "load"
      /\ ended => closing /\ backlog = <<>>
  BY <1>1 DEF TypeOK, Buffer!TypeOK, Readers, Buf!IInv, Buf!EndIsLast
<1>3. closing => pc["loop"] \in {"start", "returned"} /\ owing \subseteq {"after"}
  BY <1>1, TheReader
<1> USE DEF Goto, runVars, psVars, Working, Buffer!Unlocked
<1> HIDE DEF Readers
<1>4. ASSUME NEW r \in Readers, Receive(r) PROVE Hands' /\ Empty'
  <2>1. Hands'
    BY <1>1, <1>2, <1>4, ReceivesClosure DEF Receive
  <2>2. Empty'
    BY <1>1, <1>4 DEF Receive, Buffer!Receive
  <2> QED
    BY <2>1, <2>2
<1>5. ASSUME NEW r \in Readers, Load(r) PROVE Hands' /\ Empty'
  <2>1. Hands'
    BY <1>1, <1>2, <1>5 DEF Load
  <2>2. r \in owing /\ owing' = owing \ {r} /\ UNCHANGED <<closing, closed>>
        /\ (~Buffer!Moves => c' = c) /\ ended' = (ended \/ Buffer!Closes)
    BY <1>5 DEF Load, Buffer!Load
  <2>3. closing => owing' = {}
    BY <1>3, <2>2
  <2>4. ended' /\ ~closed' => Buffer!Closes /\ closing
    BY <1>1, <1>2, <2>2 DEF Buffer!Closes
  <2>5. Buffer!Closes => c' = c
    BY <2>2 DEF Buffer!Closes, Buffer!Moves
  <2> QED
    BY <1>1, <2>1, <2>2, <2>3, <2>4, <2>5
<1>6. UNCHANGED bufferVars => Empty'
  BY <1>1 DEF bufferVars
<1>7. ASSUME NEW r \in Readers, OnMessage(r) \/ OnMessageReturns(r) \/ Dropped(r) \/ CallNil(r)
      PROVE  Hands' /\ Empty'
  <2>1. UNCHANGED bufferVars
    BY <1>7 DEF OnMessage, OnMessageReturns, Dropped, CallNil
  <2>2. \A o \in Readers \ {r} : pc'[o] = pc[o] /\ cb'[o] = cb[o]
    BY <1>2, <1>7 DEF OnMessage, OnMessageReturns, Dropped, CallNil
  <2>3. \/ pc'[r] = "run" /\ cb[r] # <<>> /\ cb'[r] = cb[r]
        \/ pc'[r] = "receive"
        \/ pc'[r] = pc[r] /\ cb'[r] = cb[r]
    BY <1>2, <1>7 DEF OnMessage, OnMessageReturns, Dropped, CallNil
  <2>4. Hands'
    BY <1>1, <2>2, <2>3
  <2> QED
    BY <1>6, <2>1, <2>4
<1>8. CASE Register \/ Loop \/ RangeEnds
  <2>1. UNCHANGED bufferVars /\ UNCHANGED cb
    BY <1>8 DEF Register, Loop, RangeEnds
  <2>2. \A r \in Readers : pc'[r] = pc[r] \/ pc'[r] \in {"set", "receive", "returned"}
    BY <1>2, <1>8 DEF Register, Loop, RangeEnds
  <2>3. Hands'
    BY <1>1, <2>1, <2>2
  <2> QED
    BY <1>6, <2>1, <2>3
<1>9. CASE ReceiveNil
  BY <1>2, <1>3, <1>9 DEF ReceiveNil, Buffer!ReceiveNil, Buffer!AtEnd
<1>10. CASE AfterFunc
  <2>1. pc["after"] = "set" /\ pc' = [pc EXCEPT !["after"] = "receive"] /\ cb' = cb
        /\ UNCHANGED owing /\ ended' = closed'
    BY <1>10 DEF AfterFunc, Buffer!Close
  <2>2. pc["loop"] \in {"start", "returned"}
    BY <1>2, <2>1 DEF OneReads
  <2>3. owing = {}
    BY <1>2, <2>1, <2>2
  <2> QED
    BY <1>1, <1>2, <2>1, <2>3
<1>11. CASE Puts
  <2>1. UNCHANGED <<pc, cb>>
    BY <1>11 DEF Puts, PutAppend, Published, ScheduleOr
  <2>2. Hands'
    BY <1>1, <2>1
  <2>3. ASSUME NEW x \in Closures, Buffer!Put(x) PROVE Empty'
    BY <1>2, <2>3 DEF Buffer!Put
  <2>4. Buffer!PutAppend => Empty'
    BY <1>1 DEF Buffer!PutAppend
  <2>5. UNCHANGED bufferVars \/ Buffer!PutAppend \/ \E x \in Closures : Buffer!Put(x)
    BY <1>1, <1>11, ClosuresOf DEF Puts, PutAppend, Published, ScheduleOr, IInv, Numbered
  <2> QED
    BY <1>6, <2>2, <2>3, <2>4, <2>5
<1>12. CASE Client
  <2>1. UNCHANGED <<pc, cb>>
    BY <1>12 DEF Client, Publish, Unsubscribe, Cancel, Subscribe
  <2>2. Hands'
    BY <1>1, <2>1
  <2>3. ASSUME NEW s \in Subs, NEW last \in BOOLEAN, Subscribe(s, last) PROVE Empty'
    BY <1>1, <1>2, <2>3 DEF Subscribe, TrySchedule, Buffer!Put, bufferVars
  <2>4. Publish \/ Cancel \/ (\E s \in Subs : Unsubscribe(s)) => UNCHANGED bufferVars
    BY DEF Publish, Unsubscribe, Cancel
  <2> QED
    BY <1>6, <1>12, <2>2, <2>3, <2>4 DEF Client
<1>13. CASE UNCHANGED vars
  BY <1>1, <1>13 DEF vars, bufferVars
<1> QED
  BY <1>2, <1>4, <1>5, <1>7, <1>8, <1>9, <1>10, <1>11, <1>12, <1>13
  DEF Next, Run, After, Reader

(* Nobody else dies. *)
LEMMA OnlyPublishDiesKept ==
    ASSUME IInv, [Next]_vars
    PROVE  OnlyPublishDies'
<1> SUFFICES ASSUME OneReads', crashed'
             PROVE  (closing /\ mu = "publisher" /\ todo # {})'
  BY DEF OnlyPublishDies
<1> DEFINE Dying == closing /\ mu = "publisher" /\ todo # {}
<1>1. OneReads /\ CloseOnce /\ Buf!IInv /\ (crashed => Dying)
  BY OneReadsBefore DEF IInv, OnlyPublishDies
<1> USE DEF Goto, runVars, psVars, bufferVars, Buffer!Unlocked
<1>2. ASSUME NEW r \in Readers, Load(r) PROVE FALSE
  <2>1. r \in owing /\ ended /\ (Buffer!Closes \/ backlog # <<>>)
    BY <1>2 DEF Load, Buffer!Load
  <2>2. ~closed
    BY <1>1, <2>1 DEF Buffer!Closes, Buf!IInv, Buf!EndIsLast
  <2> QED
    BY <1>1, <2>1, <2>2 DEF CloseOnce
<1>3. ASSUME NEW r \in Readers, CallNil(r) PROVE FALSE
  BY <1>1, <1>3 DEF CallNil, CloseOnce, Working
<1>4. ASSUME NEW r \in Readers, Receive(r) \/ OnMessage(r) \/ OnMessageReturns(r) \/ Dropped(r)
      PROVE  FALSE
  BY <1>4 DEF Receive, Buffer!Receive, OnMessage, OnMessageReturns, Dropped
<1>5. CASE Register \/ Loop \/ RangeEnds \/ ReceiveNil \/ AfterFunc
  BY <1>5 DEF Register, Loop, RangeEnds, ReceiveNil, Buffer!ReceiveNil, AfterFunc,
              Buffer!Close
<1>6. ASSUME NEW s \in Subs, ScheduleOr(s) PROVE Dying'
  <2>1. ~crashed /\ mu = "publisher" /\ mu' = mu /\ s \in todo
    BY <1>6 DEF ScheduleOr
  <2>2. ~Buffer!Put(<<s, msg>>)
    BY <2>1 DEF Buffer!Put
  <2>3. closing /\ UNCHANGED <<todo, closing>>
    BY <1>6, <2>2 DEF ScheduleOr
  <2> QED
    BY <2>1, <2>3
<1>7. CASE PutAppend \/ Published
  BY <1>7 DEF PutAppend, Buffer!PutAppend, Published
<1>8. CASE Client
  BY <1>8 DEF Client, Publish, Unsubscribe, Cancel, Subscribe, TrySchedule, Buffer!Put
<1>9. CASE UNCHANGED vars
  BY <1>1, <1>9 DEF vars
<1>10. "loop" \in Readers /\ "after" \in Readers
  BY DEF Readers
<1> QED
  BY <1>2, <1>3, <1>4, <1>5, <1>6, <1>7, <1>8, <1>9, <1>10 DEF Next, Run, After, Reader, Puts

-----------------------------------------------------------------------------
(* What adding at the end and taking the first do to a sequence. *)
LEMMA EndsOfLine ==
    ASSUME NEW S, NEW q \in Seq(S)
    PROVE  /\ \A x \in S :
                /\ Len(Append(q, x)) = Len(q) + 1
                /\ Append(q, x)[Len(q) + 1] = x
                /\ \A i \in 1..Len(q) : Append(q, x)[i] = q[i]
           /\ q # <<>> =>
                /\ Len(Tail(q)) = Len(q) - 1
                /\ Head(q) = q[1] /\ 1 \in 1..Len(q)
                /\ \A i \in 1..Len(Tail(q)) : Tail(q)[i] = q[i + 1] /\ i + 1 \in 1..Len(q)
           /\ Len(q) \in Nat
           /\ \A i \in 1..Len(q) : q[i] \in S
OBVIOUS

LEMMA LineIsTyped ==
    ASSUME Buf!IInv
    PROVE  Line \in Seq(Closures)
BY Buf!OneItem DEF Buf!IInv, Line

(* What the steps do to the line of closures. *)
LEMMA StepsOfTheLine ==
    ASSUME Buf!IInv
    PROVE  /\ \A x \in Closures : Buffer!Put(x) => Line' = Append(Line, x)
           /\ \A r \in Readers :
                /\ Buffer!Receive(r) =>
                       Line # <<>> /\ Line' = Tail(Line) /\ Head(c) = Head(Line)
                /\ Buffer!Load(r) \/ Buffer!ReceiveNil(r) => Line' = Line
           /\ Buffer!PutAppend \/ Buffer!Close => Line' = Line
           /\ UNCHANGED bufferVars => Line' = Line
<1>1. Buf!TypeOK /\ Buf!Line = Line
  BY SameBuffer DEF Buf!IInv
<1>2. Buf!Line' = Line'
  BY DEF Buf!Line, Line
<1>3. UNCHANGED bufferVars => Line' = Line
  BY DEF bufferVars, Line
<1>4. ASSUME NEW x \in Closures, Buffer!Put(x) PROVE Line' = Append(Line, x)
  BY <1>1, <1>2, <1>4, SameBuffer, Buf!PutQueues
<1>5. ASSUME NEW r \in Readers, Buffer!Receive(r)
      PROVE  Line # <<>> /\ Line' = Tail(Line) /\ Head(c) = Head(Line)
  BY <1>1, <1>2, <1>5, SameBuffer, Buf!ReceiveTakes
<1>6. /\ \A r \in Readers : Buffer!Load(r) \/ Buffer!ReceiveNil(r) => Line' = Line
      /\ Buffer!PutAppend \/ Buffer!Close => Line' = Line
  BY <1>1, <1>2, SameBuffer, Buf!OthersKeepLine
<1> QED
  BY <1>3, <1>4, <1>5, <1>6

(* A message joins the line behind all others, so the order is kept. *)
LEMMA InOrderKept ==
    ASSUME IInv, [Next]_vars
    PROVE  InOrder'
<1> SUFFICES ASSUME OneReads' PROVE InOrder'
  BY DEF InOrder
<1> DEFINE Had   == \A s \in Subs : latest[s] <= msg
           Wait  == \A i \in 1..Len(Line) :
                        /\ Line[i][2] <= msg
                        /\ \A s \in Subs : latest[s] <= Line[i][2]
                        /\ \A j \in 1..i : Line[j][2] <= Line[i][2]
           Hand  == \A r \in Readers : cb[r] # <<>> =>
                        /\ cb[r][2] <= msg
                        /\ \A s \in Subs : latest[s] <= cb[r][2]
                        /\ \A i \in 1..Len(Line) : cb[r][2] <= Line[i][2]
           Order == Had /\ Wait /\ Hand
<1>1. OneReads /\ Order /\ TypeOK /\ HandsOn /\ AfterCloses /\ Buf!IInv /\ Numbered
  BY OneReadsBefore DEF IInv, InOrder
<1> SUFFICES Order'
  BY DEF InOrder
<1>2. /\ pc \in [Readers -> Steps] /\ cb \in [Readers -> {<<>>} \cup Closures]
      /\ latest \in [Subs -> Nat] /\ msg \in Nat
      /\ \A x \in Closures : x[1] \in Subs /\ x[2] \in Nat /\ x # <<>>
      /\ "loop" \in Readers /\ "after" \in Readers
      /\ Line \in Seq(Closures)
  BY <1>1, ClosuresOf, LineIsTyped, PubSubAssumption DEF TypeOK, Readers
<1>3. \A i \in 1..Len(Line) : Line[i] \in Closures
  BY <1>2
<1>4. PICK reader \in Readers : \A o \in Readers \ {reader} :
             cb[o] = <<>> /\ pc[o] \notin Working \cup {"receive"}
  BY <1>1, TheReader
<1> USE DEF Goto, runVars, psVars
<1> HIDE DEF Readers, Line, Closures
<1>5. ASSUME UNCHANGED <<Line, msg, latest>>,
             \A r \in Readers : cb'[r] \in {<<>>, cb[r]}
      PROVE  Order'
  BY <1>1, <1>5
(* Put. *)
<1>6. ASSUME NEW s \in Subs, Buffer!Put(<<s, msg>>), <<s, msg>> \in Closures,
             UNCHANGED <<msg, latest, cb>>
      PROVE  Order'
  <2>1. Line' = Append(Line, <<s, msg>>)
    BY <1>1, <1>6, StepsOfTheLine
  <2>2. /\ Len(Line') = Len(Line) + 1 /\ Len(Line) \in Nat
        /\ Line'[Len(Line) + 1] = <<s, msg>>
        /\ \A i \in 1..Len(Line) : Line'[i] = Line[i]
    BY <1>2, <1>6, <2>1, EndsOfLine
  <2>3. Wait'
    <3> SUFFICES ASSUME NEW i \in 1..Len(Line')
                 PROVE  /\ Line'[i][2] <= msg
                        /\ \A t \in Subs : latest[t] <= Line'[i][2]
                        /\ \A j \in 1..i : Line'[j][2] <= Line'[i][2]
      BY <1>6
    <3>1. CASE i \in 1..Len(Line)
      BY <1>1, <2>2, <3>1
    <3>2. CASE i = Len(Line) + 1
      <4>1. Line'[i][2] = msg
        BY <2>2, <3>2
      <4>2. \A j \in 1..Len(Line) : Line'[j][2] <= msg
        BY <1>1, <2>2
      <4> QED
        BY <1>1, <1>2, <2>2, <3>2, <4>1, <4>2
    <3> QED
      BY <2>2, <3>1, <3>2
  <2>4. Hand'
    <3> SUFFICES ASSUME NEW r \in Readers, cb[r] # <<>>, NEW i \in 1..Len(Line')
                 PROVE  cb[r][2] <= Line'[i][2]
      BY <1>1, <1>6
    <3>1. CASE i \in 1..Len(Line)
      BY <1>1, <2>2, <3>1
    <3>2. CASE i = Len(Line) + 1
      BY <1>1, <2>2, <3>2
    <3> QED
      BY <2>2, <3>1, <3>2
  <2> QED
    BY <1>1, <1>6, <2>3, <2>4
(* The reader takes the oldest. *)
<1>7. ASSUME NEW r \in Readers, Receive(r) PROVE Order'
  <2>1. /\ Line # <<>> /\ Line' = Tail(Line)
        /\ cb' = [cb EXCEPT ![r] = Head(Line)]
        /\ UNCHANGED <<msg, latest>> /\ pc[r] = "receive"
    BY <1>1, <1>7, StepsOfTheLine DEF Receive
  <2>2. /\ Len(Line') = Len(Line) - 1 /\ Len(Line) \in Nat
        /\ Head(Line) = Line[1] /\ 1 \in 1..Len(Line)
        /\ \A i \in 1..Len(Line') : Line'[i] = Line[i + 1] /\ i + 1 \in 1..Len(Line)
    BY <1>2, <2>1, EndsOfLine
  <2>3. Wait'
    <3> SUFFICES ASSUME NEW i \in 1..Len(Line')
                 PROVE  /\ Line[i + 1][2] <= msg
                        /\ \A t \in Subs : latest[t] <= Line[i + 1][2]
                        /\ \A j \in 1..i : Line[j + 1][2] <= Line[i + 1][2]
      BY <2>1, <2>2
    <3>1. \A j \in 1..i : j + 1 \in 1..(i + 1)
      BY <2>2
    <3> QED
      BY <1>1, <2>2, <3>1
  <2>4. \A o \in Readers \ {r} : cb'[o] = <<>>
    BY <1>2, <1>4, <2>1
  <2>5. cb'[r] = Line[1]
    BY <1>2, <2>1, <2>2
  <2>6. \A i \in 1..Len(Line') : Line[1][2] <= Line'[i][2]
    <3> SUFFICES ASSUME NEW i \in 1..Len(Line') PROVE Line[1][2] <= Line[i + 1][2]
      BY <2>2
    <3>1. i + 1 \in 1..Len(Line) /\ 1 \in 1..(i + 1)
      BY <2>2
    <3> QED
      BY <1>1, <3>1
  <2>7. Hand'
    BY <1>1, <2>1, <2>2, <2>4, <2>5, <2>6
  <2> QED
    BY <1>1, <2>1, <2>3, <2>7
(* It calls OnMessage. *)
<1>8. ASSUME NEW r \in Readers, OnMessage(r) PROVE Order'
  <2>1. /\ cb[r] \in Closures /\ cb[r] # <<>>
        /\ latest' = [latest EXCEPT ![cb[r][1]] = cb[r][2]]
        /\ UNCHANGED <<msg, cb, bufferVars>>
    BY <1>2, <1>8 DEF OnMessage
  <2>2. UNCHANGED Line
    BY <1>1, <2>1, StepsOfTheLine
  <2>3. \A s \in Subs : latest'[s] = latest[s] \/ latest'[s] = cb[r][2]
    BY <1>2, <2>1
  <2>4. Had' /\ Wait'
    BY <1>1, <2>1, <2>2, <2>3
  <2>5. \A o \in Readers : cb[o] # <<>> => o = r
    BY <1>4, <2>1
  <2>6. cb[r][2] <= cb[r][2]
    BY <1>2, <2>1
  <2>7. Hand'
    BY <1>1, <2>1, <2>2, <2>3, <2>5, <2>6
  <2> QED
    BY <2>4, <2>7
<1>9. ASSUME NEW r \in Readers, Load(r) \/ OnMessageReturns(r) \/ Dropped(r) \/ CallNil(r)
      PROVE  Order'
  <2>1. UNCHANGED <<Line, msg, latest>>
    BY <1>1, <1>9, StepsOfTheLine DEF Load, OnMessageReturns, Dropped, CallNil
  <2>2. \A o \in Readers : cb'[o] \in {<<>>, cb[o]}
    BY <1>2, <1>9 DEF Load, OnMessageReturns, Dropped, CallNil
  <2> QED
    BY <1>5, <2>1, <2>2
<1>10. CASE Register \/ Loop \/ RangeEnds \/ ReceiveNil \/ AfterFunc
  <2>1. UNCHANGED <<Line, msg, latest>>
    BY <1>1, <1>2, <1>10, StepsOfTheLine
    DEF Register, Loop, RangeEnds, ReceiveNil, AfterFunc
  <2>2. \A o \in Readers : cb'[o] \in {<<>>, cb[o]}
    BY <1>2, <1>10 DEF Register, Loop, RangeEnds, ReceiveNil, AfterFunc
  <2> QED
    BY <1>5, <2>1, <2>2
<1>11. CASE Puts
  <2>1. ASSUME NEW s \in Subs, ScheduleOr(s) PROVE Order'
    <3>1. <<s, msg>> \in Closures /\ UNCHANGED <<msg, latest, cb>>
      BY <1>1, <2>1, ClosuresOf DEF ScheduleOr, Numbered
    <3>2. Buffer!Put(<<s, msg>>) \/ UNCHANGED bufferVars
      BY <2>1 DEF ScheduleOr
    <3>3. CASE UNCHANGED bufferVars
      BY <1>1, <1>5, <3>1, <3>3, StepsOfTheLine
    <3> QED
      BY <1>6, <3>1, <3>2, <3>3
  <2>2. CASE PutAppend \/ Published
    BY <1>1, <1>5, <2>2, StepsOfTheLine DEF PutAppend, Published
  <2> QED
    BY <1>11, <2>1, <2>2 DEF Puts
<1>12. CASE Client
  <2>1. CASE Publish
    <3>1. msg' = msg + 1 /\ UNCHANGED <<latest, cb, Line>>
      BY <1>1, <2>1, StepsOfTheLine DEF Publish
    <3>2. Had'
      BY <1>1, <1>2, <3>1
    <3>3. Wait'
      <4> SUFFICES ASSUME NEW i \in 1..Len(Line) PROVE Line[i][2] <= msg + 1
        BY <1>1, <3>1
      <4> QED
        BY <1>1, <1>2, <1>3
    <3>4. Hand'
      <4> SUFFICES ASSUME NEW r \in Readers, cb[r] # <<>> PROVE cb[r][2] <= msg + 1
        BY <1>1, <3>1
      <4>1. cb[r] \in Closures
        BY <1>2
      <4> QED
        BY <1>1, <1>2, <4>1
    <3> QED
      BY <3>2, <3>3, <3>4
  <2>2. ASSUME NEW s \in Subs, NEW last \in BOOLEAN, Subscribe(s, last) PROVE Order'
    <3>1. UNCHANGED <<msg, latest, cb>>
      BY <2>2 DEF Subscribe
    <3>2. UNCHANGED bufferVars \/ (Buffer!Put(<<s, msg>>) /\ <<s, msg>> \in Closures)
      BY <1>1, <2>2, ClosuresOf DEF Subscribe, TrySchedule
    <3>3. CASE UNCHANGED bufferVars
      BY <1>1, <1>5, <3>1, <3>3, StepsOfTheLine
    <3> QED
      BY <1>6, <3>1, <3>2, <3>3
  <2>3. CASE Cancel \/ \E s \in Subs : Unsubscribe(s)
    BY <1>1, <1>5, <2>3, StepsOfTheLine DEF Cancel, Unsubscribe
  <2> QED
    BY <1>12, <2>1, <2>2, <2>3 DEF Client
<1>13. CASE UNCHANGED vars
  BY <1>1, <1>5, <1>13, StepsOfTheLine DEF vars
<1> QED
  BY <1>2, <1>7, <1>8, <1>9, <1>10, <1>11, <1>12, <1>13 DEF Next, Run, After, Reader

LEMMA NextKeepsIInv ==
    ASSUME IInv, [Next]_vars
    PROVE  IInv'
<1>1. TypeOK /\ Numbered /\ Buf!IInv
  BY DEF IInv
<1>2. TypeOK' /\ Buf!IInv'
  BY <1>1, TypesKept, BufferKeepsIInv
<1>3. HandsOn' /\ AfterCloses' /\ Numbered'
  BY HandsOnKept
<1> QED
  BY <1>2, <1>3, CloseOnceKept, InOrderKept, OnlyPublishDiesKept DEF IInv

LEMMA AlwaysIInv == Spec => []IInv
BY InitIInv, NextKeepsIInv, PTL DEF Spec

-----------------------------------------------------------------------------
(* The goroutines, the lock and the fields keep their types; a reader owes  *)
(* a Load exactly between a receive and that Load.                          *)
THEOREM TypeCorrect == Spec => []TypeOK
BY AlwaysIInv, PTL DEF IInv

(* In the buffer of a PubSub nothing is stranded: the serializer's          *)
(* goroutines keep the protocol it asks of its readers.                     *)
THEOREM NothingIsStranded == Spec => []NothingStranded
<1>1. IInv => NothingStranded
  BY SameBuffer DEF IInv, Buf!IInv, NothingStranded
<1> QED
  BY <1>1, AlwaysIInv, PTL

(* The AfterFunc's range over the channel ends after the last closure.      *)
THEOREM EndComesLast == Spec => []EndIsLast
<1>1. IInv => EndIsLast
  BY SameBuffer DEF IInv, Buf!IInv, EndIsLast
<1> QED
  BY <1>1, AlwaysIInv, PTL

(* When the function Subscribe returned comes back, OnMessage of that       *)
(* subscriber is not running, and will not until it subscribes again.       *)
THEOREM CancelsAreFinal == Spec => []CancelIsFinal
<1>1. IInv => CancelIsFinal
  BY DEF IInv, HandsOn, CancelIsFinal
<1> QED
  BY <1>1, AlwaysIInv, PTL

(* With one goroutine that takes closures the process dies only of a        *)
(* Publish after the buffer was closed.                                     *)
THEOREM OnlyPublishKills == Spec => []OnlyPublishDies
BY AlwaysIInv, PTL DEF IInv

(* With one goroutine that takes closures every subscriber gets its         *)
(* messages in the order in which they were published.                      *)
THEOREM DeliveryInOrder == Spec => DeliveredInOrder
<1> DEFINE Forward == \A s \in Subs : OneReads => latest'[s] >= latest[s]
<1>1. ASSUME IInv, [Next]_vars, OneReads, NEW s \in Subs PROVE latest'[s] >= latest[s]
  <2>1. latest \in [Subs -> Nat]
    BY <1>1, PubSubAssumption DEF IInv, TypeOK
  <2>2. ASSUME NEW r \in Readers, OnMessage(r) PROVE latest'[s] >= latest[s]
    <3>1. cb[r] # <<>> /\ latest' = [latest EXCEPT ![cb[r][1]] = cb[r][2]]
      BY <2>2 DEF OnMessage
    <3>2. latest[s] <= cb[r][2]
      BY <1>1, <3>1 DEF IInv, InOrder
    <3> QED
      BY <2>1, <3>1, <3>2
  <2>3. ASSUME NEW r \in Readers,
               Receive(r) \/ Load(r) \/ OnMessageReturns(r) \/ Dropped(r) \/ CallNil(r)
        PROVE  latest' = latest
    BY <2>3 DEF Receive, Load, OnMessageReturns, Dropped, CallNil, psVars
  <2>4. Register \/ Loop \/ RangeEnds \/ ReceiveNil \/ AfterFunc \/ Puts \/ Client
            => latest' = latest
    BY DEF Register, Loop, RangeEnds, ReceiveNil, AfterFunc, Puts, PutAppend, Published,
           ScheduleOr, Client, Publish, Cancel, Subscribe, Unsubscribe, psVars
  <2>5. latest' = latest => latest'[s] >= latest[s]
    BY <2>1
  <2>6. "loop" \in Readers /\ "after" \in Readers
    BY DEF Readers
  <2> QED
    BY <1>1, <2>2, <2>3, <2>4, <2>5, <2>6 DEF Next, Run, After, Reader, vars, psVars
<1>2. IInv /\ [Next]_vars => [Forward]_vars
  BY <1>1
<1> QED
  BY <1>2, AlwaysIInv, PTL DEF Spec, DeliveredInOrder

-----------------------------------------------------------------------------
(* A message that is due is due to somebody who is subscribed, so no closure *)
(* that carries one is dropped; and no second Publish begins before the      *)
(* first has scheduled for all its subscribers.                              *)
OneByOne ==
    /\ \A s \in Subs : due[s] # {} => s \in subscribers
    /\ todo # {} => mu = "publisher"

(* Where a message is: in line, in a hand, or not yet scheduled. *)
InLine(s, m) == \E i \in 1..Len(Line) : Line[i] = <<s, m>>
InHand(s, m) == \E r \in Readers : pc[r] \in {"load", "call"} /\ cb[r] = <<s, m>>

LEMMA OneByOneKept ==
    ASSUME TypeOK, HandsOn, OneByOne, [Next]_vars
    PROVE  OneByOne'
<1> USE DEF OneByOne, TypeOK, psVars, runVars
<1>1. ASSUME NEW r \in Readers, OnMessage(r) \/ OnMessageReturns(r) PROVE OneByOne'
  <2>1. due \in [Subs -> SUBSET Msgs] /\ UNCHANGED <<todo, subscribers>>
    BY <1>1 DEF OnMessage, OnMessageReturns
  <2>2. \A s \in Subs : due'[s] \subseteq due[s]
    BY <1>1, <2>1 DEF OnMessage, OnMessageReturns
  <2>3. mu # "publisher"
    BY <1>1 DEF OnMessage, MuFree, OnMessageReturns, Goto, HandsOn, Readers
  <2> QED
    BY <2>1, <2>2, <2>3
<1>2. ASSUME NEW r \in Readers, Receive(r) \/ Load(r) \/ Dropped(r) \/ CallNil(r)
      PROVE  OneByOne'
  BY <1>2 DEF Receive, Load, Dropped, CallNil
<1>3. CASE Register \/ Loop \/ RangeEnds \/ ReceiveNil \/ AfterFunc
  BY <1>3 DEF Register, Loop, RangeEnds, ReceiveNil, AfterFunc
<1>4. CASE Puts
  BY <1>4 DEF Puts, PutAppend, Published, ScheduleOr
<1>5. CASE Client
  BY <1>5 DEF Client, Publish, Cancel, Subscribe, Unsubscribe, MuFree
<1>6. CASE UNCHANGED vars
  BY <1>6 DEF vars
<1> QED
  BY <1>1, <1>2, <1>3, <1>4, <1>5, <1>6 DEF Next, Run, After, Reader, Readers

(* The line keeps what is in it until a reader takes the oldest. *)
LEMMA LineKeeps ==
    ASSUME Buf!IInv
    PROVE  /\ \A x \in Closures : Buffer!Put(x) =>
                 /\ \E i \in 1..Len(Line') : Line'[i] = x
                 /\ \A y : (\E i \in 1..Len(Line) : Line[i] = y)
                            => \E i \in 1..Len(Line') : Line'[i] = y
           /\ \A r \in Readers : Buffer!Receive(r) =>
                 \A y : (\E i \in 1..Len(Line) : Line[i] = y)
                           => y = Head(c) \/ \E i \in 1..Len(Line') : Line'[i] = y
<1>1. Line \in Seq(Closures)
  BY LineIsTyped
<1> HIDE DEF Line
<1>2. ASSUME NEW x \in Closures, Buffer!Put(x)
      PROVE  /\ \E i \in 1..Len(Line') : Line'[i] = x
             /\ \A y : (\E i \in 1..Len(Line) : Line[i] = y)
                        => \E i \in 1..Len(Line') : Line'[i] = y
  <2>1. Line' = Append(Line, x)
    BY <1>2, StepsOfTheLine
  <2>2. /\ Len(Line') = Len(Line) + 1 /\ Line'[Len(Line) + 1] = x /\ Len(Line) \in Nat
        /\ \A i \in 1..Len(Line) : Line'[i] = Line[i]
    BY <1>1, <2>1, EndsOfLine
  <2> QED
    BY <2>2
<1>3. ASSUME NEW r \in Readers, Buffer!Receive(r), NEW i \in 1..Len(Line)
      PROVE  Line[i] = Head(c) \/ \E k \in 1..Len(Line') : Line'[k] = Line[i]
  <2>1. Line # <<>> /\ Line' = Tail(Line) /\ Head(c) = Head(Line)
    BY <1>3, StepsOfTheLine
  <2>2. /\ Len(Line') = Len(Line) - 1 /\ Head(c) = Line[1] /\ Len(Line) \in Nat
        /\ \A k \in 1..Len(Line') : Line'[k] = Line[k + 1]
    BY <1>1, <2>1, EndsOfLine
  <2>3. ASSUME i # 1 PROVE i - 1 \in 1..Len(Line') /\ Line'[i - 1] = Line[i]
    BY <2>2, <2>3
  <2> QED
    BY <2>2, <2>3
<1> QED
  BY <1>2, <1>3

(* Every step leaves a message that is due where it is or hands it on: its  *)
(* Publish puts it into the line, a reader takes it from there, and when it *)
(* leaves the reader's hand it is no longer due.                            *)
LEMMA NoMessageLostKept ==
    ASSUME IInv, OneByOne, NoMessageLost, [Next]_vars
    PROVE  NoMessageLost'
<1> SUFFICES ASSUME NEW s \in Subs, NEW m \in due'[s] PROVE OnItsWay(s, m)'
  BY DEF NoMessageLost
<1>1. /\ pc \in [Readers -> Steps] /\ cb \in [Readers -> {<<>>} \cup Closures]
      /\ due \in [Subs -> SUBSET Msgs] /\ Buf!IInv /\ HandsOn /\ Numbered /\ TypeOK
  BY DEF IInv, TypeOK
<1>2. m \in Msgs
  BY TypesKept DEF IInv, TypeOK
<1> DEFINE ToCome == m = msg /\ s \in todo
           Way  == InLine(s, m) \/ InHand(s, m) \/ ToCome
<1>3. (Way <=> OnItsWay(s, m)) /\ (Way' <=> OnItsWay(s, m)')
  BY DEF OnItsWay, InLine, InHand, Line
<1>4. m \in due[s] => Way
  BY <1>3 DEF NoMessageLost
<1> SUFFICES Way'
  BY <1>3
<1> USE DEF Goto, runVars, psVars
<1>5. UNCHANGED Line => (InLine(s, m) => InLine(s, m)')
  BY DEF InLine
<1>6. UNCHANGED <<pc, cb>> => (InHand(s, m) => InHand(s, m)')
  BY DEF InHand
<1>7. UNCHANGED <<msg, todo>> => (ToCome => ToCome')
  OBVIOUS
<1> HIDE DEF ToCome
<1>8. ASSUME NEW r \in Readers, Receive(r) PROVE Way'
  <2>1. /\ Buffer!Receive(r) /\ pc[r] = "receive"
        /\ pc' = [pc EXCEPT ![r] = "load"] /\ cb' = [cb EXCEPT ![r] = Head(c)]
        /\ UNCHANGED <<msg, todo, due>>
    BY <1>8 DEF Receive
  <2>2. InLine(s, m) => Head(c) = <<s, m>> \/ InLine(s, m)'
    BY <1>1, <2>1, LineKeeps DEF InLine
  <2>3. Head(c) = <<s, m>> => InHand(s, m)'
    BY <1>1, <2>1 DEF InHand
  <2>4. InHand(s, m) => InHand(s, m)'
    BY <1>1, <2>1 DEF InHand
  <2> QED
    BY <1>4, <1>7, <2>1, <2>2, <2>3, <2>4
<1>9. ASSUME NEW r \in Readers, Load(r) PROVE Way'
  <2>1. /\ pc[r] = "load" /\ pc' = [pc EXCEPT ![r] = "call"]
        /\ UNCHANGED <<cb, msg, todo, due, Line>>
    BY <1>1, <1>9, StepsOfTheLine DEF Load
  <2>2. InHand(s, m) => InHand(s, m)'
    BY <1>1, <2>1 DEF InHand
  <2> QED
    BY <1>4, <1>5, <1>7, <2>1, <2>2
<1>10. ASSUME NEW r \in Readers, OnMessage(r) PROVE Way'
  <2>1. /\ cb[r] \in Closures /\ pc' = [pc EXCEPT ![r] = "run"]
        /\ due' = [due EXCEPT ![cb[r][1]] = @ \ {cb[r][2]}]
        /\ UNCHANGED <<cb, msg, todo, Line>>
    BY <1>1, <1>10, StepsOfTheLine DEF OnMessage
  <2>2. m \in due[s] /\ cb[r] # <<s, m>>
    BY <1>1, <2>1
  <2>3. InHand(s, m) => InHand(s, m)'
    BY <1>1, <2>1, <2>2 DEF InHand
  <2> QED
    BY <1>4, <1>5, <1>7, <2>1, <2>2, <2>3
<1>11. ASSUME NEW r \in Readers, OnMessageReturns(r) \/ Dropped(r) PROVE Way'
  <2>1. /\ pc' = [pc EXCEPT ![r] = "receive"] /\ cb' = [cb EXCEPT ![r] = <<>>]
        /\ UNCHANGED <<msg, todo, due, Line>>
        /\ pc[r] = "run" \/ cb[r][1] \notin subscribers
    BY <1>1, <1>11, StepsOfTheLine DEF OnMessageReturns, Dropped, StillSubscribed
  <2>2. s \in subscribers
    BY <2>1 DEF OneByOne
  <2>3. InHand(s, m) => InHand(s, m)'
    BY <1>1, <2>1, <2>2 DEF InHand
  <2> QED
    BY <1>4, <1>5, <1>7, <2>1, <2>3
<1>12. ASSUME UNCHANGED <<Line, msg, todo, due>>,
              \A r \in Readers : pc[r] \in {"load", "call"} => pc'[r] = pc[r] /\ cb'[r] = cb[r]
       PROVE  Way'
  BY <1>4, <1>5, <1>7, <1>12 DEF InHand
<1>13. CASE Register \/ Loop \/ RangeEnds \/ ReceiveNil \/ AfterFunc
            \/ \E r \in Readers : CallNil(r)
  <2>1. UNCHANGED <<Line, msg, todo, due>>
    BY <1>1, <1>13, StepsOfTheLine
    DEF Register, Loop, RangeEnds, ReceiveNil, AfterFunc, CallNil, Readers
  <2>2. \A r \in Readers : pc[r] \in {"load", "call"} => pc'[r] = pc[r] /\ cb'[r] = cb[r]
    BY <1>1, <1>13 DEF Register, Loop, RangeEnds, ReceiveNil, AfterFunc, CallNil
  <2> QED
    BY <1>12, <2>1, <2>2
<1>14. ASSUME NEW t \in Subs, Buffer!Put(<<t, msg>>), msg # 0
       PROVE  (InLine(s, m) \/ (t = s /\ m = msg)) => InLine(s, m)'
  BY <1>1, <1>14, LineKeeps, ClosuresOf DEF InLine
<1>15. CASE Puts
  <2>1. ASSUME NEW t \in Subs, ScheduleOr(t) PROVE Way'
    <3>1. UNCHANGED <<pc, cb, msg, due>> /\ msg # 0
      BY <1>1, <2>1 DEF ScheduleOr, Numbered
    <3>2. CASE Buffer!Put(<<t, msg>>) /\ todo' = todo \ {t}
      BY <1>4, <1>6, <1>14, <3>1, <3>2 DEF ToCome
    <3>3. CASE UNCHANGED <<todo, bufferVars>>
      BY <1>1, <1>4, <1>5, <1>6, <1>7, <3>1, <3>3, StepsOfTheLine
    <3> QED
      BY <2>1, <3>2, <3>3 DEF ScheduleOr
  <2>2. CASE PutAppend \/ Published
    BY <1>1, <1>12, <2>2, StepsOfTheLine DEF PutAppend, Published
  <2> QED
    BY <1>15, <2>1, <2>2 DEF Puts
<1>16. CASE Client
  <2>1. CASE Publish
    <3>1. /\ msg' = msg + 1 /\ todo' = subscribers /\ todo = {}
          /\ UNCHANGED <<pc, cb, Line>>
      BY <1>1, <2>1, StepsOfTheLine DEF Publish, OneByOne, MuFree
    <3>2. m \in due[s] \/ (m = msg' /\ s \in todo')
      BY <1>1, <2>1, <3>1 DEF Publish
    <3> QED
      BY <1>4, <1>5, <1>6, <3>1, <3>2 DEF ToCome
  <2>2. ASSUME NEW t \in Subs, NEW last \in BOOLEAN, Subscribe(t, last) PROVE Way'
    <3>1. UNCHANGED <<pc, cb, msg, todo, due>>
      BY <2>2 DEF Subscribe
    <3>2. CASE UNCHANGED bufferVars
      BY <1>1, <1>12, <3>1, <3>2, StepsOfTheLine
    <3>3. CASE Buffer!Put(<<t, msg>>) /\ msg # 0
      BY <1>4, <1>6, <1>7, <1>14, <3>1, <3>3
    <3> QED
      BY <2>2, <3>2, <3>3 DEF Subscribe, TrySchedule
  <2>3. ASSUME NEW t \in Subs, Unsubscribe(t) PROVE Way'
    <3>1. UNCHANGED <<pc, cb, msg, todo, Line>> /\ m \in due[s]
      BY <1>1, <2>3, StepsOfTheLine DEF Unsubscribe
    <3> QED
      BY <1>4, <1>5, <1>6, <1>7, <3>1
  <2>4. CASE Cancel
    BY <1>1, <1>12, <2>4, StepsOfTheLine DEF Cancel
  <2> QED
    BY <1>16, <2>1, <2>2, <2>3, <2>4 DEF Client
<1>17. CASE UNCHANGED vars
  BY <1>1, <1>12, <1>17, StepsOfTheLine DEF vars
<1> QED
  BY <1>8, <1>9, <1>10, <1>11, <1>13, <1>15, <1>16, <1>17
  DEF Next, Run, After, Reader, Readers

(* A message published reaches every subscriber there is, whatever the      *)
(* other subscribers, the two goroutines and the end of the context do      *)
(* meanwhile, as long as the process lives.                                 *)
THEOREM NoMessageIsLost == Spec => []NoMessageLost
<1> DEFINE Inv == OneByOne /\ NoMessageLost
<1>1. Init => Inv
  BY DEF Init, OneByOne, NoMessageLost
<1>2. IInv /\ Inv /\ [Next]_vars => Inv'
  BY OneByOneKept, NoMessageLostKept DEF IInv
<1> HIDE DEF Inv
<1>3. Spec => []Inv
  BY <1>1, <1>2, AlwaysIInv, PTL DEF Spec
<1>4. Inv => NoMessageLost
  BY DEF Inv
<1> QED
  BY <1>3, <1>4, PTL

(* What the AfterFunc leaves behind when it returns, and where it is.       *)
Drained ==
    /\ pc["after"] \in {"receive", "load", "call", "run", "returned"} => closing
    /\ pc["after"] = "returned" => ended /\ Line = <<>>

LEMMA DrainedKept ==
    ASSUME IInv, Drained, [Next]_vars
    PROVE  Drained'
<1>1. /\ pc \in [Readers -> Steps] /\ Buf!IInv /\ TypeOK /\ Numbered
      /\ Line \in Seq(Closures) /\ "loop" \in Readers /\ "after" \in Readers
  BY LineIsTyped DEF IInv, TypeOK, Readers
<1>2. ASSUME ended, Line = <<>> PROVE ended' /\ Line' = <<>>
  <2>1. closing
    BY <1>1, <1>2 DEF Buf!IInv, Buf!EndIsLast
  <2>2. c = <<>>
    BY <1>1, <1>2, Buf!OneItem, Buf!EmptyConcat DEF Buf!IInv, Buf!EndIsLast, Line
  <2>3. ASSUME Buf!Next PROVE ended' /\ Line' = <<>>
    <3>1. ended'
      BY <1>2, <2>1, <2>3
      DEF Buf!Next, Buf!Put, Buf!PutAppend, Buf!Close, Buf!Load, Buf!Receive, Buf!ReceiveNil
    <3>2. \/ Buf!PutAppend \/ Buf!Close
          \/ \E r \in Readers : Buf!Load(r) \/ Buf!ReceiveNil(r)
      BY <2>1, <2>2, <2>3 DEF Buf!Next, Buf!Put, Buf!Receive
    <3>3. Buf!Line' = Buf!Line
      BY <1>1, <3>2, Buf!OthersKeepLine DEF Buf!IInv
    <3> QED
      BY <1>2, <3>1, <3>3 DEF Buf!Line, Line
  <2>4. UNCHANGED bufferVars => ended' /\ Line' = <<>>
    BY <1>2 DEF bufferVars, Line
  <2> QED
    BY <1>1, <2>3, <2>4, StepsOfTheBuffer DEF Buf!Next
<1>3. closing => closing'
  <2>1. Buf!Next => (closing => closing')
    BY DEF Buf!Next, Buf!Put, Buf!PutAppend, Buf!Close, Buf!Load, Buf!Receive, Buf!ReceiveNil
  <2> QED
    BY <1>1, <2>1, StepsOfTheBuffer DEF Buf!Next, bufferVars
<1> USE DEF Goto, runVars, psVars, Drained
<1>4. ASSUME UNCHANGED pc PROVE Drained'
  BY <1>2, <1>3, <1>4
<1>5. ASSUME NEW r \in Readers, Reader(r) PROVE Drained'
  <2>1. /\ \A o \in Readers \ {r} : pc'[o] = pc[o]
        /\ \/ pc'[r] = pc[r]
           \/ /\ pc[r] \in {"receive", "load", "call", "run"}
              /\ pc'[r] \in {"receive", "load", "call", "run"}
    BY <1>1, <1>5 DEF Reader, Receive, Load, OnMessage, OnMessageReturns, Dropped, CallNil
  <2>2. pc'["after"] = "returned" => pc["after"] = "returned"
    BY <1>1, <2>1
  <2>3. pc'["after"] \in {"receive", "load", "call", "run", "returned"} =>
            pc["after"] \in {"receive", "load", "call", "run", "returned"}
    BY <1>1, <2>1
  <2> QED
    BY <1>2, <1>3, <2>2, <2>3
<1>6. CASE Register \/ Loop \/ ReceiveNil
  <2>1. pc'["after"] = pc["after"] \/ pc'["after"] = "set"
    BY <1>1, <1>6 DEF Register, Loop, ReceiveNil
  <2> QED
    BY <1>2, <1>3, <2>1
<1>7. CASE AfterFunc
  <2>1. closing' /\ pc'["after"] = "receive"
    BY <1>1, <1>7 DEF AfterFunc, Buffer!Close
  <2> QED
    BY <2>1
<1>8. CASE RangeEnds
  <2>1. /\ ended /\ c = <<>> /\ UNCHANGED bufferVars
        /\ pc["after"] = "receive" /\ pc' = [pc EXCEPT !["after"] = "returned"]
    BY <1>8 DEF RangeEnds, Buffer!AtEnd
  <2>2. Line = <<>>
    BY <1>1, <2>1, Buf!OneItem, Buf!EmptyConcat DEF Buf!IInv, Buf!EndIsLast, Line
  <2> QED
    BY <1>2, <1>3, <2>1, <2>2
<1>9. CASE Puts
  BY <1>4, <1>9 DEF Puts, PutAppend, Published, ScheduleOr
<1>10. CASE Client
  BY <1>4, <1>10 DEF Client, Publish, Cancel, Subscribe, Unsubscribe
<1>11. CASE UNCHANGED vars
  BY <1>4, <1>11 DEF vars
<1> QED
  BY <1>1, <1>5, <1>6, <1>7, <1>8, <1>9, <1>10, <1>11 DEF Next, Run, After

LEMMA AlwaysDrained == Spec => []Drained
<1>1. Init => Drained
  BY DEF Init, Drained
<1> QED
  BY <1>1, DrainedKept, AlwaysIInv, PTL DEF Spec

(* The AfterFunc's range never waits for ever: there is a closure for it,   *)
(* or the channel has ended, or a goroutine has received and will call      *)
(* Load; and when it is over nothing scheduled is left, and nothing comes.  *)
RangeGoesOn    == pc["after"] = "receive" => c # <<>> \/ ended \/ owing # {}
NothingRemains == pc["after"] = "returned" => closing /\ c \o backlog \o putting = <<>>

THEOREM RangeComesToItsEnd == Spec => [](RangeGoesOn /\ NothingRemains)
<1>1. ASSUME IInv, Drained PROVE RangeGoesOn
  <2> SUFFICES ASSUME Buf!IInv, closing PROVE c # <<>> \/ ended \/ owing # {}
    BY <1>1 DEF IInv, Drained, RangeGoesOn
  <2> QED
    BY Buf!OneItem, Buf!EmptyConcat DEF Buf!IInv, Buf!NothingStranded, Buf!EndIsComing
<1>2. Drained => NothingRemains
  BY DEF Drained, NothingRemains, Line
<1> QED
  BY <1>1, <1>2, AlwaysIInv, AlwaysDrained, PTL

(* The buffer of a PubSub is a queue, first in, first out, that takes       *)
(* nothing once it is closed and loses nothing.                             *)
THEOREM ImplementsFifo == Spec => QueueIsFifo
<1>1. Init => Buffer!Queue!Init
  BY DEF Init, Buffer!Init, Buffer!Queue!Init
<1>2. IInv /\ [Next]_vars => [Buffer!Queue!Next]_(Buffer!Queue!vars)
  <2> SUFFICES ASSUME IInv, [Next]_vars PROVE [Buffer!Queue!Next]_(Buffer!Queue!vars)
    OBVIOUS
  <2>1. [Buf!Queue!Next]_(Buf!Queue!vars)
    <3>1. CASE Buf!Next
      BY <3>1, Buf!StepsOfTheQueue DEF IInv, Buf!IInv
    <3>2. CASE UNCHANGED bufferVars
      BY <3>2 DEF bufferVars, Buf!Queue!vars
    <3> QED
      BY <3>1, <3>2, StepsOfTheBuffer DEF IInv, Buf!Next
  <2> QED
    BY <2>1 DEF Buf!Queue!Next, Buf!Queue!vars, Buffer!Queue!Next, Buffer!Queue!vars,
                Buf!Queue!Put, Buf!Queue!Get, Buf!Queue!Close,
                Buffer!Queue!Put, Buffer!Queue!Get, Buffer!Queue!Close
<1> QED
  BY <1>1, <1>2, AlwaysIInv, PTL DEF Spec, QueueIsFifo, Buffer!IsFifo, Buffer!Queue!Spec
=============================================================================
