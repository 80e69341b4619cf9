------------------------------ MODULE Unbounded ------------------------------
(***************************************************************************)
(* internal/buffer/unbounded.go: a channel of capacity 1 with a backlog    *)
(* behind it.  Put, Load and Close run under b.mu.  Receiving from the     *)
(* channel does not, so it may fall between Put's look at the channel and  *)
(* its append to the backlog.  Readers keep the protocol of the two loops  *)
(* of callback_serializer.go: after every receive they call Load.          *)
(*                                                                         *)
(* Nothing is scheduled here: PubSub says who calls what.                  *)
(***************************************************************************)
EXTENDS Sequences

CONSTANTS
    Items,       \* what is put
    Readers      \* the goroutines that receive from Get()

VARIABLES
    c,           \* what is in the channel b.c
    ended,       \* b.c has been closed
    backlog,     \* b.backlog
    closing,     \* b.closing
    closed,      \* b.closed
    putting,     \* the item of a Put that found b.c full; it holds b.mu
    owing,       \* the readers that have received and not yet called Load
    crashed      \* the process died

vars == <<c, ended, backlog, closing, closed, putting, owing, crashed>>

TypeOK ==
    /\ {c, putting} \subseteq {<<>>} \cup {<<x>> : x \in Items}
    /\ backlog \in Seq(Items)
    /\ ended \in BOOLEAN /\ closing \in BOOLEAN /\ closed \in BOOLEAN
    /\ owing \subseteq Readers
    /\ crashed \in BOOLEAN

Init ==
    /\ c = <<>> /\ backlog = <<>> /\ putting = <<>>
    /\ ended = FALSE /\ closing = FALSE /\ closed = FALSE
    /\ owing = {}
    /\ crashed = FALSE

Unlocked == ~crashed /\ putting = <<>>

(***************************************************************************)
(* Put(t): straight into the channel if nothing is before it, otherwise to *)
(* the end of the backlog, in a step of its own.  Mutants: the length of   *)
(* the backlog is not tested; the item replaces the backlog.               *)
(***************************************************************************)
MutDirect == c = <<>>
Direct    == backlog = <<>> /\ c = <<>>

Put(x) ==
    /\ Unlocked
    /\ ~closing
    /\ \/ Direct  /\ c' = <<x>> /\ UNCHANGED putting
       \/ ~Direct /\ putting' = <<x>> /\ UNCHANGED c
    /\ UNCHANGED <<ended, backlog, closing, closed, owing, crashed>>

MutPutAppend ==
    /\ ~crashed
    /\ putting # <<>>
    /\ backlog' = putting
    /\ putting' = <<>>
    /\ UNCHANGED <<c, ended, closing, closed, owing, crashed>>
PutAppend ==
    /\ ~crashed
    /\ putting # <<>>
    /\ backlog' = backlog \o putting
    /\ putting' = <<>>
    /\ UNCHANGED <<c, ended, closing, closed, owing, crashed>>

(***************************************************************************)
(* Load: move one item if there is room.  With nothing to move it closes   *)
(* the channel of a buffer that is closing, without setting b.closed: the  *)
(* next such Load closes it again, which panics.  Mutants: it moves        *)
(* nothing once the buffer is closing; it does not look at b.closed.       *)
(***************************************************************************)
MutMoves  == backlog # <<>> /\ c = <<>> /\ ~closing
Moves     == backlog # <<>> /\ c = <<>>
MutCloses == backlog = <<>> /\ closing
Closes    == backlog = <<>> /\ closing /\ ~closed

Load(r) ==
    /\ Unlocked
    /\ r \in owing
    /\ owing' = owing \ {r}
    /\ \/ Moves  /\ c' = <<Head(backlog)>> /\ backlog' = Tail(backlog)
       \/ ~Moves /\ UNCHANGED <<c, backlog>>
    /\ ended' = (ended \/ Closes)
    /\ crashed' = (ended /\ (Closes \/ backlog # <<>>))
    /\ UNCHANGED <<closing, closed, putting>>

(* Close: the channel is closed now if nothing waits, else by a Load.       *)
(* Mutant: it is closed in any case.                                        *)
MutDrained == TRUE
Drained    == backlog = <<>>

Close ==
    /\ Unlocked
    /\ ~closing
    /\ closing' = TRUE
    /\ closed' = Drained
    /\ ended' = Drained
    /\ UNCHANGED <<c, backlog, putting, owing, crashed>>

-----------------------------------------------------------------------------
(* A receive from Get(). *)
Receive(r) ==
    /\ ~crashed
    /\ r \notin owing
    /\ c # <<>>
    /\ c' = <<>>
    /\ owing' = owing \cup {r}
    /\ UNCHANGED <<ended, backlog, closing, closed, putting, crashed>>

(* The channel is closed and empty: a range over it ends. *)
AtEnd == ended /\ c = <<>>

(* A plain receive does not look and gets nil, over and over. *)
ReceiveNil(r) ==
    /\ ~crashed
    /\ r \notin owing
    /\ AtEnd
    /\ owing' = owing \cup {r}
    /\ UNCHANGED <<c, ended, backlog, closing, closed, putting, crashed>>

Next ==
    \/ \E x \in Items : Put(x)
    \/ PutAppend \/ Close
    \/ \E r \in Readers : Load(r) \/ Receive(r) \/ ReceiveNil(r)

Spec == Init /\ [][Next]_vars

-----------------------------------------------------------------------------
(***************************************************************************)
(* Order, and nothing lost or doubled, across the channel, the backlog and *)
(* a Put between its two steps.                                            *)
(***************************************************************************)
Queue == INSTANCE Fifo WITH queue <- c \o backlog \o putting, closed <- closing

IsFifo == Queue!Spec

(***************************************************************************)
(* Nothing is stranded in the backlog: while something is in it the        *)
(* channel has an item as well or a reader is going to call Load.  A       *)
(* receive outside the lock, between Put's look and its append, is what    *)
(* could break it.                                                         *)
(***************************************************************************)
NothingStranded ==
    backlog \o putting # <<>> => c # <<>> \/ owing # {}

(* Who sees the end of the channel has seen every item: none comes after. *)
EndIsLast == ended => closing /\ backlog = <<>> /\ putting = <<>>
=============================================================================
