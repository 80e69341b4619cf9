-------------------------------- MODULE XiaoAi --------------------------------
(***************************************************************************)
(* mi/fsm/fsm.go and main.go: the conversation loop of the program.        *)
(*                                                                         *)
(*   F  the goroutine that runs the state machine (main.go:51).  Its       *)
(*      handlers fire the next event from inside the handler of the last   *)
(*      one, so F never comes back from a handler until one of them        *)
(*      returns without firing an event; then nothing is left to run.      *)
(*   R  the goroutine that answers questions (main.go:53).                 *)
(*   the timer goroutines of the AI mode, a key of the TimeoutStatus       *)
(*      table: Mode is that table, and every method F calls is an action   *)
(*      of it.                                                             *)
(*                                                                         *)
(* F and R meet on two unbuffered channels: a send and its receive are one *)
(* step.  The poller and the heap it fills are in ConversationQueue; here  *)
(* F pops any query.  The speaker, the vector store and the language model *)
(* are external: they answer, fail, or (R) say any number of chunks.       *)
(* fsm.FSM is external too: a legal event sets the state and then runs the *)
(* handler of the new state in the caller's goroutine.                     *)
(***************************************************************************)
EXTENDS Naturals, Sequences

CONSTANTS
    Queries,     \* what users say, and the record that line 267 pushes
    WakeLike,    \* the queries whose similarity score is above 0.8
    UseAi,       \* the condition at main.go:57; it is the literal false
    MaxChunks,   \* the longest streamed answer (bound)
    AiMode,      \* the key StateAiMode
    Timers, NoTimer, MaxPending   \* of TimeoutStatus

ASSUME XiaoAiAssumption ==
    /\ WakeLike \subseteq Queries
    /\ UseAi \in BOOLEAN
    /\ MaxChunks \in Nat
    /\ NoTimer \notin Timers
    /\ \E t, u \in Timers : t # u      \* for an Add and a Start
    /\ MaxPending \in Nat

VARIABLES
    state,       \* the state of x.FSM
    pc,          \* where F is
    known,       \* the metadata device_id and did are set
    msg,         \* the query F popped, local to onEnterListening
    question,    \* the metadata question
    answer,      \* the chunks F has collected: ans, then the metadata answer
    said,        \* the last answer given to the speaker
    rpc,         \* where R is
    rq,          \* the question R works on
    reply,       \* the chunks R still has to send
    whole        \* all that the model said to the last question

VARIABLES status, ok, timer, kind, owner, armed, full, pending, notifying, over,
          crashed   \* the process is gone: a panic or log.Fatal anywhere

Mode == INSTANCE TimeoutStatus WITH Keys <- {AiMode}

fVars == <<state, pc, known, msg, question, answer, said>>
rVars == <<rpc, rq, reply, whole>>
modeVars == <<status, ok, timer, kind, owner, armed, full, pending, notifying, over>>
vars == <<fVars, rVars, modeVars, crashed>>

States == {"idle", "listening", "processing", "speaking"}
FSteps == {"idle", "listen", "fetch", "decide", "renew", "check", "lookup", "add",
           "pause", "start", "detected", "ask", "collect", "complete", "speak",
           "returned"}
RSteps == {"idle", "answer", "send", "generate"}
Chunks == Queries \X (1..(MaxChunks + 1))

TypeOK ==
    /\ state \in States
    /\ pc \in FSteps
    /\ known \in BOOLEAN
    /\ {msg, question, rq} \subseteq Queries
    /\ {answer, said, reply, whole} \subseteq Seq(Chunks)
    /\ rpc \in RSteps
    /\ Mode!TypeOK

Init ==
    /\ state = "idle" /\ pc = "idle" /\ known = FALSE
    /\ msg \in Queries /\ question = msg /\ rq = msg   \* nothing asked yet
    /\ answer = <<>> /\ said = <<>>
    /\ rpc = "idle" /\ reply = <<>> /\ whole = <<>>
    /\ Mode!Init

-----------------------------------------------------------------------------
(* F moves from one place to another. *)
Goto(from, to) == ~crashed /\ pc = from /\ pc' = to

(* Event(name): the table of NewXiaoAi, from a source state to its target. *)
(* Mutant: a row of the table leads to another state.                      *)
MutEvent(src, dst) == state = src /\ state' = IF dst = "speaking" THEN "sleeping" ELSE dst
Event(src, dst) == state = src /\ state' = dst

(* A panic or log.Fatal in any goroutine ends the process. *)
Die ==
    /\ ~crashed
    /\ crashed' = TRUE
    /\ UNCHANGED <<fVars, rVars, modeVars>>

(***************************************************************************)
(* enterIdle, run when the first event leaves idle: fetch the devices,     *)
(* fatally failing if that fails; the speaker may not be among them.       *)
(***************************************************************************)
EnterIdle ==
    /\ Goto("idle", "listen")
    /\ known' \in BOOLEAN
    /\ Event("idle", "listening")
    /\ UNCHANGED <<msg, question, answer, said, rVars, modeVars, crashed>>

EnterIdleFails == pc = "idle" /\ Die

(* onEnterListening returns at once if the speaker is not known. *)
OnEnterListening ==
    /\ Goto("listen", IF known THEN "fetch" ELSE "returned")
    /\ UNCHANGED <<state, known, msg, question, answer, said, rVars, modeVars, crashed>>

(* The heap is never empty here (line 267), so the first tick pops. *)
Fetch(q) ==
    /\ Goto("fetch", "decide")
    /\ msg' = q
    /\ UNCHANGED <<state, known, question, answer, said, rVars, modeVars, crashed>>

(* Line 283: is the AI mode on?  The lock is released with the answer.      *)
(* Mutant: the mode is not looked at.                                       *)
MutCheckMode ==
    /\ Mode!Unlocked
    /\ Goto("decide", "check")
    /\ UNCHANGED <<state, known, msg, question, answer, said, rVars, modeVars, crashed>>

CheckMode ==
    /\ Mode!Unlocked
    /\ Goto("decide", IF Mode!IsOk(AiMode) THEN "renew" ELSE "check")
    /\ UNCHANGED <<state, known, msg, question, answer, said, rVars, modeVars, crashed>>

(* Lines 285 and 291.  Mutant: Start for Renewal. *)
MutRenewMode ==
    /\ Goto("renew", "detected")
    /\ Mode!Start(AiMode)
    /\ UNCHANGED <<state, known, msg, question, answer, said, rVars>>

RenewMode ==
    /\ Goto("renew", "detected")
    /\ Mode!Renewal(AiMode)
    /\ UNCHANGED <<state, known, msg, question, answer, said, rVars>>

(* Score > 0.8.  Mutant: the score is not compared. *)
MutWakes(q) == TRUE
Wakes(q)    == q \in WakeLike

(* Line 289.  A query that does not wake the AI ends the handler: line 317. *)
AiWeakUpSimilarCheck ==
    /\ Goto("check", IF Wakes(msg) THEN "lookup" ELSE "returned")
    /\ UNCHANGED <<state, known, msg, question, answer, said, rVars, modeVars, crashed>>

AiWeakUpSimilarCheckFails == pc = "check" /\ Die

(* Line 290.  Mutant: Ok for Exist. *)
MutLookupMode ==
    /\ Mode!Unlocked
    /\ Goto("lookup", IF Mode!IsOk(AiMode) THEN "renew" ELSE "add")
    /\ UNCHANGED <<state, known, msg, question, answer, said, rVars, modeVars, crashed>>

LookupMode ==
    /\ Mode!Unlocked
    /\ Goto("lookup", IF Mode!Exist(AiMode) THEN "renew" ELSE "add")
    /\ UNCHANGED <<state, known, msg, question, answer, said, rVars, modeVars, crashed>>

AddMode ==
    /\ Goto("add", "pause")
    /\ Mode!Add(AiMode)
    /\ UNCHANGED <<state, known, msg, question, answer, said, rVars>>

(* Lines 299 to 310: pause the speaker and announce the AI mode.  Mutant:   *)
(* when the pause fails, F listens again.                                   *)
MutPause ==
    /\ Goto("pause", "start") \/ Goto("pause", "listen")
    /\ UNCHANGED <<state, known, msg, question, answer, said, rVars, modeVars, crashed>>

Pause ==
    /\ Goto("pause", "start") \/ Goto("pause", "returned")
    /\ UNCHANGED <<state, known, msg, question, answer, said, rVars, modeVars, crashed>>

StartMode ==
    /\ Goto("start", "detected")
    /\ Mode!Start(AiMode)
    /\ UNCHANGED <<state, known, msg, question, answer, said, rVars>>

(* The function f of line 277. *)
VoiceDetected ==
    /\ Goto("detected", "ask")
    /\ question' = msg
    /\ Event("listening", "processing")
    /\ UNCHANGED <<known, msg, answer, said, rVars, modeVars, crashed>>

-----------------------------------------------------------------------------
(* x.qqueue <- question meets R's range over it.  Mutant: ans is a field of *)
(* the machine, and nobody empties it.                                      *)
MutAsk ==
    /\ Goto("ask", "collect")
    /\ rpc = "idle"
    /\ rpc' = "answer"
    /\ rq' = question
    /\ UNCHANGED <<state, known, msg, question, answer, said, reply, whole, modeVars,
                   crashed>>

Ask ==
    /\ Goto("ask", "collect")
    /\ rpc = "idle"
    /\ rpc' = "answer"
    /\ rq' = question
    /\ answer' = <<>>
    /\ UNCHANGED <<state, known, msg, question, said, reply, whole, modeVars, crashed>>

(* R works out an answer of n chunks; nothing has been sent yet. *)
AnswerWith(n) ==
    /\ ~crashed
    /\ rpc = "answer"
    /\ whole' = [i \in 1..n |-> <<rq, i>>]
    /\ reply' = whole'
    /\ rpc' = "send"
    /\ UNCHANGED <<fVars, rq, modeVars, crashed>>

(* AskAi streams what the model says, chunk after chunk; AskDocHub runs the *)
(* retrieval chain and has one text.                                        *)
AskAi     == UseAi /\ \E n \in 0..MaxChunks : AnswerWith(n)
AskDocHub == ~UseAi /\ AnswerWith(1)

(* The model, the store or the embedding fails, or the 100 s are over. *)
AskFails ==
    /\ rpc \in {"answer", "generate"} \/ (rpc = "send" /\ UseAi)
    /\ Die

(* R sends the last message: an empty one ends a stream, a text comes alone. *)
Last == ~UseAi \/ reply = <<>>

(* The message R offers.  Mutant: Over is not set. *)
Chunk    == IF UseAi /\ reply # <<>> THEN <<Head(reply)>> ELSE reply
MutOffer == [chunk |-> Chunk, over |-> FALSE]
Offer    == [chunk |-> Chunk, over |-> Last]

(* F resets the chunk of a message that is over, and breaks (line 354).     *)
(* Mutant: = for +=.                                                        *)
MutCollected(ans, m) == IF m.over THEN ans ELSE m.chunk
Collected(ans, m)    == IF m.over THEN ans ELSE ans \o m.chunk

Receive ==
    /\ ~crashed
    /\ pc = "collect"
    /\ rpc = "send"
    /\ answer' = Collected(answer, Offer)
    /\ reply' = IF Last THEN <<>> ELSE Tail(reply)
    /\ pc' = IF Offer.over THEN "complete" ELSE pc
    /\ rpc' = IF ~Last THEN rpc ELSE IF UseAi THEN "generate" ELSE "idle"
    /\ UNCHANGED <<state, known, msg, question, said, rq, whole, modeVars, crashed>>

(* AskAi asks the model a second time and drops the result (main.go:83).    *)
(* Mutant: that answer is streamed as well.                                 *)
MutGenerate ==
    /\ ~crashed
    /\ rpc = "generate"
    /\ rpc' = "answer"
    /\ UNCHANGED <<fVars, rq, reply, whole, modeVars, crashed>>

Generate ==
    /\ ~crashed
    /\ rpc = "generate"
    /\ rpc' = "idle"
    /\ UNCHANGED <<fVars, rq, reply, whole, modeVars, crashed>>

ProcessComplete ==
    /\ Goto("complete", "speak")
    /\ Event("processing", "speaking")
    /\ UNCHANGED <<known, msg, question, answer, said, rVars, modeVars, crashed>>

(* onEnterSpeaking: play the answer, whether or not the speaker takes it. *)
Speak ==
    /\ Goto("speak", "listen")
    /\ said' = answer
    /\ Event("speaking", "listening")
    /\ UNCHANGED <<known, msg, question, answer, rVars, modeVars, crashed>>

(* The timers of the AI mode, and the end of its exit prompt. *)
ModeTimer ==
    /\ (\E t \in Timers : Mode!Runtime(t)) \/ Mode!OnExitReturns
    /\ UNCHANGED <<fVars, rVars>>

-----------------------------------------------------------------------------
F == \/ EnterIdle \/ EnterIdleFails \/ OnEnterListening
     \/ \E q \in Queries : Fetch(q)
     \/ CheckMode \/ RenewMode \/ AiWeakUpSimilarCheck \/ AiWeakUpSimilarCheckFails
     \/ LookupMode \/ AddMode \/ Pause \/ StartMode \/ VoiceDetected
     \/ ProcessComplete \/ Speak

R == AskAi \/ AskDocHub \/ AskFails \/ Generate

Next == F \/ R \/ Ask \/ Receive \/ ModeTimer

(***************************************************************************)
(* Goroutines run on, external calls return, an armed timer runs out, and  *)
(* a callback that waits for the table's lock gets it.                     *)
(***************************************************************************)
Fairness ==
    /\ WF_vars(F) /\ WF_vars(R) /\ WF_vars(Ask) /\ WF_vars(Receive)
    /\ \A t \in Timers : /\ WF_vars(Mode!Fire(t) /\ UNCHANGED <<fVars, rVars>>)
                         /\ SF_vars(Mode!Callback(t) /\ UNCHANGED <<fVars, rVars>>)
    /\ WF_vars(Mode!OnExitReturns /\ UNCHANGED <<fVars, rVars>>)

Spec == Init /\ [][Next]_vars
FairSpec == Spec /\ Fairness

-----------------------------------------------------------------------------
(***************************************************************************)
(* F and R stay in step: R works on an answer exactly while F collects it, *)
(* and it is the answer to the question F is processing.  Out of step, F   *)
(* would wait for an answer nobody sends, or R would block on one nobody   *)
(* receives and give it to the next question.                              *)
(***************************************************************************)
Lockstep ==
    /\ pc = "collect" <=> rpc \in {"answer", "send"}
    /\ pc = "collect" => rq = question /\ state = "processing"

(***************************************************************************)
(* The AI mode never stays on for ever: whenever it is on, a timer of      *)
(* Start is running for it or has run out.  The table alone does not       *)
(* promise this (a Renewal before any Start turns a state on for good);    *)
(* it is F's order of Exist, Add, Start and Renewal that does.             *)
(***************************************************************************)
ModeWillEnd ==
    Mode!IsOk(AiMode) =>
        /\ kind[timer[AiMode]] = "func"
        /\ timer[AiMode] \in armed \/ pending[timer[AiMode]] > 0

(***************************************************************************)
(* Whatever may still switch the AI mode off, a timer that runs or a       *)
(* callback that waits for the lock, is the timer the entry has now.  The  *)
(* table does not promise this either: a Start of a started state leaves   *)
(* the old timer running, which ends the new period early, and after an    *)
(* Over a late callback finds no entry.  It is F that starts the mode only *)
(* once, however often it finds it off again, and ends it by timers only.  *)
(***************************************************************************)
OnlyOneEnd ==
    \A t \in Timers :
        kind[t] = "func" /\ (t \in armed \/ pending[t] > 0) =>
            AiMode \in status /\ timer[AiMode] = t

(***************************************************************************)
(* The AI mode is entered for the first time only on a query that wakes    *)
(* the AI, whatever has happened between checking that query and Add.      *)
(***************************************************************************)
OnlyWakeEnters ==
    [][AiMode \notin status /\ AiMode \in status' => msg \in WakeLike]_vars

(* What is spoken is all of the answer, and the answer to that question. *)
AnswerIsWhole ==
    pc = "speak" =>
        /\ answer = whole
        /\ \A i \in DOMAIN answer : answer[i][1] = question

(***************************************************************************)
(* Seen from outside the loop is a Dialogue: F hands over its question,    *)
(* R has an answer as soon as the model has said it, and what F speaks is  *)
(* that answer.  The chunks on their way, the two channels and the order   *)
(* in which the goroutines get there are hidden.  Holds when answers are   *)
(* streamed; AskDocHub's are dropped.                                      *)
(***************************************************************************)
Asked == IF pc \in {"collect", "complete", "speak"} THEN <<question>> ELSE <<>>
Told  == IF rpc = "send" \/ pc \in {"complete", "speak"} THEN <<whole>> ELSE <<>>

Talk == INSTANCE Dialogue
          WITH Questions <- Queries, MaxParts <- MaxChunks, asked <- Asked, told <- Told

IsDialogue == Talk!Spec

(***************************************************************************)
(* Every query F takes up is answered or given up, or the process dies: no *)
(* rendezvous and no wait for the table's lock lasts for ever.             *)
(***************************************************************************)
QueryIsHandled ==
    pc = "decide" ~> (pc \in {"listen", "returned"} \/ crashed)

(***************************************************************************)
(* F stops listening for good (onEnterListening returns without firing an  *)
(* event) only where that is meant or at least harmless: the speaker is    *)
(* unknown, the query did not wake the AI, or the speaker would not pause; *)
(* and never while the AI mode is on, whatever the timers and callbacks    *)
(* did between F's look at the mode and its return.                        *)
(***************************************************************************)
PauseFailed == AiMode \in status /\ kind[timer[AiMode]] = "chan"

StopsOnlyUnwoken ==
    pc = "returned" =>
        /\ ~Mode!IsOk(AiMode)
        /\ ~known \/ msg \notin WakeLike \/ PauseFailed

(***************************************************************************)
(* What F needs for its next step is there or on its way, as long as the   *)
(* process lives: nobody keeps the table's lock but an onExit that will    *)
(* return; the event it fires is legal in the state the machine is in; the *)
(* entry it adds is new and the one it starts or renews is there, with a   *)
(* timer to be had; R takes the question, or is busy with the answer.      *)
(***************************************************************************)
LockComesFree == over = {}

EventIsLegal ==
    /\ pc = "idle" => state = "idle"
    /\ pc = "detected" => state = "listening"
    /\ pc = "complete" => state = "processing"
    /\ pc = "speak" => state = "speaking"

EntryFits ==
    /\ pc = "add" => ~Mode!Exist(AiMode)
    /\ pc \in {"start", "renew"} => Mode!Exist(AiMode)
    /\ pc \in {"add", "start"} => \E t \in Timers : Mode!Unused(t)

PartnerComes ==
    /\ pc = "ask" => rpc \in {"idle", "generate"}
    /\ pc = "collect" => rpc \in {"answer", "send"}

NeverStuck ==
    ~crashed => LockComesFree /\ EventIsLegal /\ EntryFits /\ PartnerComes

(***************************************************************************)
(* How many steps F and R take at most until the query is handled.         *)
(***************************************************************************)
FLeft ==
    CASE pc = "decide"   -> 11
      [] pc = "check"    -> 10
      [] pc = "lookup"   -> 9
      [] pc = "add"      -> 8
      [] pc = "pause"    -> 7
      [] pc \in {"start", "renew"} -> 6
      [] pc = "detected" -> 5
      [] pc = "ask"      -> 4
      [] pc = "collect"  -> 3
      [] pc = "complete" -> 2
      [] pc = "speak"    -> 1
      [] OTHER           -> 0

RLeft ==
    CASE rpc = "answer"   -> MaxChunks + 4
      [] rpc = "send"     -> Len(reply) + 2
      [] rpc = "generate" -> 1
      [] OTHER            -> 0

StillToAsk == pc \in {"decide", "check", "lookup", "add", "pause", "start", "renew",
                      "detected", "ask"}

StepsLeft == FLeft + RLeft + (IF StillToAsk THEN MaxChunks + 4 ELSE 0)

(***************************************************************************)
(* Every step of F or R while a query is being handled brings its end      *)
(* nearer: F never goes round in its handlers, no message is sent twice,   *)
(* and R does not start over.  With NeverStuck this is why QueryIsHandled. *)
(***************************************************************************)
StepsDecrease ==
    [][pc \notin {"idle", "listen", "fetch", "returned"} /\ ~UNCHANGED <<fVars, rVars>>
         => StepsLeft' < StepsLeft]_vars
=============================================================================
