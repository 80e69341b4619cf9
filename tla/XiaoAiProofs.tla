------------------------------ MODULE XiaoAiProofs ------------------------------
(***************************************************************************)
(* What the conversation loop keeps true for any queries, any length of    *)
(* the streamed answers and any number of timers.                          *)
(*                                                                         *)
(* That the AI mode will end is a property of two components: the table    *)
(* promises it for states that were started (ActiveWillExpire, which holds *)
(* for any client), and F's order of Exist, Add, Start and Renewal sees to *)
(* it that the mode is never on without having been started.  The table's  *)
(* invariant is taken over from TimeoutStatusProofs: every step of F, R    *)
(* and the timers is a step of the table, or leaves it alone.              *)
(***************************************************************************)
EXTENDS XiaoAi, TLAPS

Table == INSTANCE TimeoutStatusProofs WITH Keys <- {AiMode}

(* F renews only an entry there is; the entry has the timer of Start,      *)
(* except between Add and Start, and after a pause that failed, and there  *)
(* the mode is off.                                                        *)
StartedBeforeUse ==
    /\ pc = "renew" => AiMode \in status
    /\ AiMode \in status =>
         \/ kind[timer[AiMode]] = "func"
         \/ pc \in {"pause", "start", "returned"} /\ ~ok[AiMode]

(* F asks in the state processing, and R is not free while F collects. *)
InStep ==
    /\ Lockstep
    /\ pc = "ask" => state = "processing"

IInv ==
    /\ TypeOK
    /\ Table!IInv
    /\ StartedBeforeUse
    /\ InStep

-----------------------------------------------------------------------------
(* What the table assumes of its constants. *)
LEMMA TableConstants == NoTimer \notin Timers /\ MaxPending \in Nat
BY XiaoAiAssumption

(* TimeoutStatus and the module of its proofs are about the same table. *)
LEMMA SameTable ==
    /\ Mode!Add(AiMode) => Table!Add(AiMode)
    /\ Mode!Start(AiMode) => Table!Start(AiMode)
    /\ Mode!Renewal(AiMode) => Table!Renewal(AiMode)
    /\ \A t \in Timers : Mode!Runtime(t) => Table!Runtime(t)
    /\ Mode!OnExitReturns => Table!OnExitReturns
    /\ Mode!Init => Table!Init
    /\ Mode!TypeOK <=> Table!TypeOK
<1> USE DEF Mode!Unlocked, Table!Unlocked, Mode!Unused, Table!Unused,
            Mode!lockVars, Table!lockVars, Mode!entryVars, Table!entryVars,
            Mode!timerVars, Table!timerVars
<1>1. Mode!Add(AiMode) => Table!Add(AiMode)
  BY DEF Mode!Add, Table!Add
<1>2. Mode!Start(AiMode) => Table!Start(AiMode)
  BY DEF Mode!Start, Table!Start
<1>3. Mode!Renewal(AiMode) => Table!Renewal(AiMode)
  BY DEF Mode!Renewal, Table!Renewal, Mode!Drained, Table!Drained, Mode!Reset, Table!Reset
<1>4. ASSUME NEW t \in Timers, Mode!Runtime(t) PROVE Table!Runtime(t)
  <2>1. CASE Mode!Fire(t)
    BY <2>1 DEF Mode!Fire, Table!Fire, Table!Runtime
  <2>2. CASE Mode!Callback(t)
    BY <2>2 DEF Mode!Callback, Table!Callback, Table!Runtime
  <2> QED
    BY <1>4, <2>1, <2>2 DEF Mode!Runtime
<1>5. Mode!OnExitReturns => Table!OnExitReturns
  BY DEF Mode!OnExitReturns, Table!OnExitReturns
<1>6. Mode!Init => Table!Init
  BY DEF Mode!Init, Table!Init
<1>7. Mode!TypeOK <=> Table!TypeOK
  BY DEF Mode!TypeOK, Table!TypeOK, Mode!Kinds, Table!Kinds
<1> QED
  BY <1>1, <1>2, <1>3, <1>4, <1>5, <1>6, <1>7

(* A step of the program is a step of the table, or leaves the table as it *)
(* is while the process may die.                                           *)
LEMMA StepsOfTheTable ==
    ASSUME [Next]_vars
    PROVE  \/ Table!Next
           \/ UNCHANGED modeVars /\ (crashed' = crashed \/ crashed' = TRUE)
<1>1. CASE F
  <2>1. CASE RenewMode
    BY <2>1, SameTable DEF RenewMode, Table!Next, Table!Client
  <2>2. CASE AddMode
    BY <2>2, SameTable DEF AddMode, Table!Next, Table!Client
  <2>3. CASE StartMode
    BY <2>3, SameTable DEF StartMode, Table!Next, Table!Client
  <2> QED
    BY <1>1, <2>1, <2>2, <2>3
    DEF F, EnterIdle, EnterIdleFails, OnEnterListening, Fetch, CheckMode,
        AiWeakUpSimilarCheck, AiWeakUpSimilarCheckFails, LookupMode, Pause,
        VoiceDetected, ProcessComplete, Speak, Die
<1>2. CASE R
  BY <1>2 DEF R, AskAi, AskDocHub, AnswerWith, AskFails, Generate, Die
<1>3. CASE Ask \/ Receive
  BY <1>3 DEF Ask, Receive
<1>4. CASE ModeTimer
  BY <1>4, SameTable DEF ModeTimer, Table!Next
<1>5. CASE UNCHANGED vars
  BY <1>5 DEF vars
<1> QED
  BY <1>1, <1>2, <1>3, <1>4, <1>5 DEF Next

(* So the table keeps its invariant. *)
LEMMA TableKeepsIInv ==
    ASSUME Table!IInv, [Next]_vars
    PROVE  Table!IInv'
<1>1. CASE Table!Next
  BY <1>1, TableConstants, Table!NextKeepsIInv
<1>2. CASE UNCHANGED modeVars /\ (crashed' = crashed \/ crashed' = TRUE)
  BY <1>2 DEF modeVars, Table!IInv, Table!TypeOK, Table!OverHasEntry,
              Table!EntriesHoldTimers, Table!TimersByKind, Table!TimersNotShared,
              Table!NoStaleTick, Table!ActiveWillExpire
<1> QED
  BY <1>1, <1>2, StepsOfTheTable

-----------------------------------------------------------------------------
(* What AnswerWith, Ask and Receive do to the chunks. *)
LEMMA ChunksAreSequences ==
    /\ \A n \in 0..(MaxChunks + 1), q \in Queries : [i \in 1..n |-> <<q, i>>] \in Seq(Chunks)
    /\ \A s \in Seq(Chunks) : s # <<>> => <<Head(s)>> \in Seq(Chunks) /\ Tail(s) \in Seq(Chunks)
<1>1. ASSUME NEW n \in 0..(MaxChunks + 1), NEW q \in Queries
      PROVE  [i \in 1..n |-> <<q, i>>] \in Seq(Chunks)
  <2>1. \A i \in 1..n : <<q, i>> \in Chunks
    BY <1>1, XiaoAiAssumption DEF Chunks
  <2> HIDE DEF Chunks
  <2> QED
    BY <1>1, <2>1, XiaoAiAssumption
<1>2. ASSUME NEW s \in Seq(Chunks), s # <<>>
      PROVE  <<Head(s)>> \in Seq(Chunks) /\ Tail(s) \in Seq(Chunks)
  BY <1>2
<1> QED
  BY <1>1, <1>2

LEMMA InitIInv == Init => IInv
<1> SUFFICES ASSUME Init PROVE IInv
  OBVIOUS
<1>1. Table!Init /\ pc = "idle" /\ rpc = "idle" /\ status = {}
  BY SameTable DEF Init, Mode!Init
<1>2. Table!IInv
  BY <1>1, TableConstants, Table!InitIInv
<1>3. TypeOK
  <2>1. <<>> \in Seq(Chunks) /\ Mode!TypeOK
    BY <1>2, SameTable DEF Table!IInv
  <2>2. {answer, said, reply, whole} \subseteq Seq(Chunks)
    BY <2>1, Zenon DEF Init
  <2>3. {msg, question, rq} \subseteq Queries
    BY DEF Init
  <2> QED
    BY <2>1, <2>2, <2>3 DEF Init, TypeOK, States, FSteps, RSteps
<1>4. StartedBeforeUse /\ InStep
  BY <1>1 DEF StartedBeforeUse, InStep, Lockstep
<1> QED
  BY <1>2, <1>3, <1>4 DEF IInv

(* The machine, its goroutines and their variables keep their types. *)
LEMMA TypesKept ==
    ASSUME IInv, [Next]_vars
    PROVE  TypeOK'
<1> USE DEF fVars, rVars, Goto, Event, States, FSteps, RSteps
<1> DEFINE Places == state \in States /\ pc \in FSteps /\ known \in BOOLEAN /\ rpc \in RSteps
           Data   == /\ msg \in Queries /\ question \in Queries /\ rq \in Queries
                     /\ answer \in Seq(Chunks) /\ said \in Seq(Chunks)
                     /\ reply \in Seq(Chunks) /\ whole \in Seq(Chunks)
           Own    == Places /\ Data
<1>1. Own
  BY DEF IInv, TypeOK
<1> SUFFICES Own'
  <2>1. Table!TypeOK'
    BY TableKeepsIInv DEF IInv, Table!IInv
  <2>2. Mode!TypeOK'
    BY <2>1 DEF Mode!TypeOK, Table!TypeOK, Mode!Kinds, Table!Kinds
  <2> QED
    BY <2>2 DEF TypeOK
<1>2. CASE F
  <2>1. CASE EnterIdle \/ EnterIdleFails \/ OnEnterListening \/ \E q \in Queries : Fetch(q)
    BY <1>1, <2>1 DEF EnterIdle, EnterIdleFails, OnEnterListening, Fetch, Die
  <2>2. CASE CheckMode \/ AiWeakUpSimilarCheck \/ AiWeakUpSimilarCheckFails \/ LookupMode
    BY <1>1, <2>2 DEF CheckMode, AiWeakUpSimilarCheck, AiWeakUpSimilarCheckFails,
                      LookupMode, Die
  <2>3. CASE RenewMode \/ AddMode \/ Pause \/ StartMode
    BY <1>1, <2>3 DEF RenewMode, AddMode, Pause, StartMode
  <2>4. CASE VoiceDetected \/ ProcessComplete \/ Speak
    BY <1>1, <2>4 DEF VoiceDetected, ProcessComplete, Speak
  <2> QED
    BY <1>2, <2>1, <2>2, <2>3, <2>4 DEF F
<1>3. CASE R
  <2>1. ASSUME NEW n \in 0..(MaxChunks + 1), AnswerWith(n) PROVE Own'
    BY <1>1, <2>1, ChunksAreSequences DEF AnswerWith
  <2> QED
    BY <1>1, <1>3, <2>1, XiaoAiAssumption
    DEF R, AskAi, AskDocHub, AskFails, Generate, Die
<1>4. CASE Ask
  BY <1>1, <1>4 DEF Ask
<1>5. CASE Receive
  <2>1. Chunk \in Seq(Chunks) /\ (~Last => Tail(reply) \in Seq(Chunks))
    BY <1>1, ChunksAreSequences DEF Chunk, Last
  <2>2. Collected(answer, Offer) \in Seq(Chunks)
    BY <1>1, <2>1 DEF Collected, Offer
  <2> QED
    BY <1>1, <1>5, <2>1, <2>2 DEF Receive
<1>6. CASE ModeTimer \/ UNCHANGED vars
  BY <1>1, <1>6 DEF ModeTimer, vars
<1> QED
  BY <1>2, <1>3, <1>4, <1>5, <1>6 DEF Next

(* F and R meet twice for each question, and between the two R is at work. *)
LEMMA InStepKept ==
    ASSUME IInv, [Next]_vars
    PROVE  InStep'
<1> USE DEF IInv, InStep, Lockstep, fVars, rVars, Goto
<1>1. CASE F
  BY <1>1
  DEF F, EnterIdle, EnterIdleFails, OnEnterListening, Fetch, CheckMode, RenewMode,
      AiWeakUpSimilarCheck, AiWeakUpSimilarCheckFails, LookupMode, AddMode, Pause,
      StartMode, VoiceDetected, ProcessComplete, Speak, Die, Event
<1>2. CASE R
  BY <1>2 DEF R, AskAi, AskDocHub, AnswerWith, AskFails, Generate, Die
<1>3. CASE Ask
  BY <1>3 DEF Ask
<1>4. CASE Receive
  BY <1>4 DEF Receive, Offer, Last
<1>5. CASE ModeTimer \/ UNCHANGED vars
  BY <1>5 DEF ModeTimer, vars
<1> QED
  BY <1>1, <1>2, <1>3, <1>4, <1>5 DEF Next

(* F adds before it starts, starts before it renews, and the timers change *)
(* neither the entry's timer nor its kind.                                 *)
LEMMA StartedBeforeUseKept ==
    ASSUME IInv, [Next]_vars
    PROVE  StartedBeforeUse'
<1> USE DEF StartedBeforeUse, fVars, rVars, Goto
<1>1. Mode!TypeOK /\ StartedBeforeUse
  BY DEF IInv, TypeOK
<1>2. CASE RenewMode
  BY <1>1, <1>2 DEF RenewMode, Mode!Renewal
<1>3. CASE AddMode
  BY <1>1, <1>3 DEF AddMode, Mode!Add, Mode!TypeOK
<1>4. CASE StartMode
  BY <1>1, <1>4 DEF StartMode, Mode!Start, Mode!TypeOK
<1>5. CASE ModeTimer
  <2>1. UNCHANGED <<status, timer, kind, pc>>
    BY <1>5 DEF ModeTimer, Mode!Runtime, Mode!Fire, Mode!Callback, Mode!OnExitReturns,
                Mode!entryVars, Mode!timerVars
  <2>2. AiMode \in status /\ ~ok[AiMode] => ~ok'[AiMode]
    BY <1>1, <1>5 DEF ModeTimer, Mode!Runtime, Mode!Fire, Mode!Callback,
                      Mode!OnExitReturns, Mode!entryVars, Mode!TypeOK
  <2> QED
    BY <1>1, <2>1, <2>2
<1>6. CASE /\ F /\ ~RenewMode /\ ~AddMode /\ ~StartMode
  BY <1>1, <1>6
  DEF F, EnterIdle, EnterIdleFails, OnEnterListening, Fetch, CheckMode, Mode!IsOk,
      AiWeakUpSimilarCheck, AiWeakUpSimilarCheckFails, LookupMode, Mode!Exist, Pause,
      VoiceDetected, ProcessComplete, Speak, Die, modeVars
<1>7. CASE R \/ Ask \/ Receive \/ UNCHANGED vars
  BY <1>1, <1>7 DEF R, AskAi, AskDocHub, AnswerWith, AskFails, Generate, Die,
                    Ask, Receive, modeVars, vars
<1> QED
  BY <1>2, <1>3, <1>4, <1>5, <1>6, <1>7 DEF Next

LEMMA AlwaysIInv == Spec => []IInv
<1>1. IInv /\ [Next]_vars => IInv'
  BY TypesKept, TableKeepsIInv, InStepKept, StartedBeforeUseKept DEF IInv
<1> QED
  BY <1>1, InitIInv, PTL DEF Spec

-----------------------------------------------------------------------------
(* Type correctness of the conversation loop, the table of its AI mode      *)
(* included: in particular only states of NewXiaoAi's table are reached.    *)
THEOREM TypeCorrect == Spec => []TypeOK
BY AlwaysIInv, PTL DEF IInv

(* However long the model talks and whatever fails, R works on an answer    *)
(* exactly while F collects it, and on the question F is processing.        *)
THEOREM GoroutinesInStep == Spec => []Lockstep
BY AlwaysIInv, PTL DEF IInv, InStep

(* The AI mode is never on without a timer or a callback that ends it,      *)
(* although a client of the table could bring that about: F does not.       *)
THEOREM AiModeWillEnd == Spec => []ModeWillEnd
<1>1. IInv => ModeWillEnd
  <2> SUFFICES ASSUME IInv, Mode!IsOk(AiMode) PROVE
                 /\ kind[timer[AiMode]] = "func"
                 /\ timer[AiMode] \in armed \/ pending[timer[AiMode]] > 0
    BY DEF ModeWillEnd
  <2>1. AiMode \in status /\ ok[AiMode]
    BY DEF Mode!IsOk
  <2>2. kind[timer[AiMode]] = "func"
    BY <2>1 DEF IInv, StartedBeforeUse
  <2>3. Table!ActiveWillExpire
    BY DEF IInv, Table!IInv
  <2> QED
    BY <2>1, <2>2, <2>3 DEF Table!ActiveWillExpire
<1> QED
  BY <1>1, AlwaysIInv, PTL

-----------------------------------------------------------------------------
(* While R streams, what F has collected and what R still has to send are   *)
(* together what the model said; when F has been told that the message is   *)
(* over, it has everything, and it all answers the question.                *)
AnswerSoFar ==
    /\ pc = "collect" /\ rpc = "answer" => answer = <<>>
    /\ pc = "collect" /\ rpc = "send" => answer \o reply = whole
    /\ pc \in {"complete", "speak"} => answer = whole
    /\ pc \in {"complete", "speak"} \/ (pc = "collect" /\ rpc = "send") =>
         \A i \in DOMAIN whole : whole[i][1] = question

(* Moving the first chunk across leaves the concatenation as it is. *)
LEMMA ChunkMoves ==
    ASSUME NEW S, NEW a \in Seq(S), NEW r \in Seq(S), r # <<>>
    PROVE  (a \o <<Head(r)>>) \o Tail(r) = a \o r
OBVIOUS

LEMMA AnswerSoFarKept ==
    ASSUME UseAi, IInv, AnswerSoFar, [Next]_vars
    PROVE  AnswerSoFar'
<1> USE DEF AnswerSoFar, fVars, rVars, Goto
<1>1. /\ answer \in Seq(Chunks) /\ reply \in Seq(Chunks)
      /\ pc = "collect" <=> rpc \in {"answer", "send"}
      /\ pc = "collect" => rq = question
  BY DEF IInv, TypeOK, InStep, Lockstep
<1>2. CASE F
  BY <1>1, <1>2
  DEF F, EnterIdle, EnterIdleFails, OnEnterListening, Fetch, CheckMode, RenewMode,
      AiWeakUpSimilarCheck, AiWeakUpSimilarCheckFails, LookupMode, AddMode, Pause,
      StartMode, VoiceDetected, ProcessComplete, Speak, Die
<1>3. ASSUME NEW n \in 0..MaxChunks, AnswerWith(n) PROVE AnswerSoFar'
  <2>1. pc = "collect" /\ answer = <<>> /\ rq = question
    BY <1>1, <1>3 DEF AnswerWith
  <2>2. /\ whole' = [i \in 1..n |-> <<question, i>>] /\ reply' = whole'
        /\ answer' = <<>> /\ question' = question /\ pc' = "collect" /\ rpc' = "send"
    BY <1>3, <2>1 DEF AnswerWith
  <2>3. answer' \o reply' = whole'
    BY <2>2
  <2> QED
    BY <2>2, <2>3
<1>4. CASE Generate \/ AskFails
  BY <1>1, <1>4 DEF Generate, AskFails, Die
<1>5. CASE Ask
  BY <1>5 DEF Ask
<1>6. CASE Receive
  <2>1. pc = "collect" /\ rpc = "send" /\ answer \o reply = whole
    BY <1>6 DEF Receive
  <2>2. CASE reply = <<>>
    <3>1. answer' = answer /\ pc' = "complete" /\ whole' = whole /\ question' = question
      BY <1>6, <2>2 DEF Receive, Offer, Last, Collected
    <3>2. answer = whole
      BY <1>1, <2>1, <2>2
    <3> QED
      BY <2>1, <3>1, <3>2
  <2>3. CASE reply # <<>>
    <3>1. /\ answer' = answer \o <<Head(reply)>> /\ reply' = Tail(reply)
          /\ pc' = pc /\ rpc' = rpc /\ whole' = whole /\ question' = question
      BY <1>6, <2>3, UseAi DEF Receive, Offer, Last, Chunk, Collected
    <3>2. answer' \o reply' = whole
      BY <1>1, <2>1, <2>3, <3>1, ChunkMoves
    <3> QED
      BY <2>1, <3>1, <3>2
  <2> QED
    BY <2>2, <2>3
<1>7. CASE ModeTimer \/ UNCHANGED vars
  BY <1>7 DEF ModeTimer, vars
<1> QED
  BY <1>2, <1>3, <1>4, <1>5, <1>6, <1>7 DEF Next, R, AskAi, AskDocHub

LEMMA AlwaysAnswerSoFar ==
    ASSUME UseAi
    PROVE  Spec => []AnswerSoFar
<1>1. Init => AnswerSoFar
  BY DEF Init, AnswerSoFar
<1>2. IInv /\ AnswerSoFar /\ [Next]_vars => AnswerSoFar'
  BY AnswerSoFarKept, UseAi
<1> QED
  BY <1>1, <1>2, AlwaysIInv, PTL DEF Spec

(* When answers are streamed, what is spoken is the whole answer, for any  *)
(* number of chunks and any failures (AskDocHub, the branch that is built,  *)
(* violates this: see the run XiaoAi_AnswerIsWhole).                        *)
THEOREM StreamedAnswersAreWhole ==
    ASSUME UseAi
    PROVE  Spec => []AnswerIsWhole
<1>1. AnswerSoFar => AnswerIsWhole
  BY DEF AnswerSoFar, AnswerIsWhole
<1> QED
  BY <1>1, AlwaysAnswerSoFar, UseAi, PTL

-----------------------------------------------------------------------------
(* The steps by which the loop implements a Dialogue: a question is asked   *)
(* at the first rendezvous, told when R has its answer, said by Speak; all  *)
(* other steps are hidden.                                                  *)
LEMMA StepsOfTheDialogue ==
    ASSUME UseAi, IInv, AnswerSoFar, [Next]_vars
    PROVE  [Talk!Next]_(Talk!vars)
<1> USE DEF Asked, Told, fVars, rVars, Goto
<1> DEFINE Hidden == UNCHANGED <<Asked, Told, said>>
<1> SUFFICES Talk!Next \/ Hidden
  BY DEF Talk!vars
<1>1. /\ pc = "collect" <=> rpc \in {"answer", "send"}
      /\ pc = "collect" => rq = question
      /\ question \in Queries
  BY DEF IInv, TypeOK, InStep, Lockstep
<1>2. CASE Speak
  <2>1. /\ Asked = <<question>> /\ Told = <<whole>> /\ answer = whole
        /\ Asked' = <<>> /\ said' = answer
    BY <1>2 DEF Speak, AnswerSoFar
  <2>2. Told' = <<>>
    BY <1>1, <1>2 DEF Speak
  <2> QED
    BY <2>1, <2>2 DEF Talk!Next, Talk!Say
<1>3. CASE F /\ ~Speak
  BY <1>1, <1>3
  DEF F, EnterIdle, EnterIdleFails, OnEnterListening, Fetch, CheckMode, RenewMode,
      AiWeakUpSimilarCheck, AiWeakUpSimilarCheckFails, LookupMode, AddMode, Pause,
      StartMode, VoiceDetected, ProcessComplete, Die
<1>4. ASSUME NEW n \in 0..MaxChunks, AnswerWith(n) PROVE Talk!Next
  <2>1. pc = "collect" /\ rpc = "answer" /\ rq = question
    BY <1>1, <1>4 DEF AnswerWith
  <2>2. Asked = <<question>> /\ Told = <<>> /\ UNCHANGED <<Asked, said>>
    BY <1>4, <2>1 DEF AnswerWith
  <2>3. Told' = <<[i \in 1..n |-> <<question, i>>]>>
    BY <1>4, <2>1 DEF AnswerWith
  <2>4. [i \in 1..n |-> <<question, i>>] \in Talk!Answers(Head(Asked))
    BY <2>2 DEF Talk!Answers
  <2> QED
    BY <2>2, <2>3, <2>4 DEF Talk!Next, Talk!Tell
<1>5. CASE Generate \/ AskFails
  BY <1>5 DEF Generate, AskFails, Die
<1>6. CASE Ask
  <2>1. Asked = <<>> /\ Told = <<>> /\ Asked' = <<question>> /\ Told' = <<>> /\ said' = said
    BY <1>6 DEF Ask
  <2> QED
    BY <1>1, <2>1 DEF Talk!Next, Talk!Ask
<1>7. CASE Receive
  BY <1>1, <1>7 DEF Receive, Offer
<1>8. CASE ModeTimer \/ UNCHANGED vars
  BY <1>8 DEF ModeTimer, vars
<1> QED
  BY <1>2, <1>3, <1>4, <1>5, <1>6, <1>7, <1>8, UseAi DEF Next, R, AskAi, AskDocHub

(* When answers are streamed the loop is a Dialogue, whatever the length    *)
(* of the answers, the failures and the timers of the AI mode: every        *)
(* question gets one answer, and all of it is said before the next is asked.*)
THEOREM ImplementsDialogue ==
    ASSUME UseAi
    PROVE  Spec => IsDialogue
<1>1. Init => Talk!Init
  BY DEF Init, Talk!Init, Asked, Told
<1>2. IInv /\ AnswerSoFar /\ [Next]_vars => [Talk!Next]_(Talk!vars)
  BY StepsOfTheDialogue, UseAi
<1> QED
  BY <1>1, <1>2, AlwaysIInv, AlwaysAnswerSoFar, UseAi, PTL DEF Spec, IsDialogue, Talk!Spec

-----------------------------------------------------------------------------
(* From F's look at the mode until it has a new timer or F has stopped, the *)
(* mode is off; what F was told of the query and of the entry stays true.   *)
Woken ==
    /\ pc \in {"check", "lookup", "add", "pause", "start", "returned"} => ~Mode!IsOk(AiMode)
    /\ pc \in {"lookup", "add", "pause", "start"} => msg \in WakeLike
    /\ pc = "add" => AiMode \notin status
    /\ pc \in {"pause", "start"} => PauseFailed
    /\ pc = "returned" => ~known \/ msg \notin WakeLike \/ PauseFailed
    /\ pc = "idle" => ~known
    /\ ~known => pc \in {"idle", "listen", "returned"} /\ AiMode \notin status

(* Timers and callbacks only ever switch the mode off. *)
LEMMA WokenKept ==
    ASSUME IInv, Woken, [Next]_vars
    PROVE  Woken'
<1> USE DEF Woken, PauseFailed, Mode!IsOk, fVars, rVars, Goto
<1>1. Mode!TypeOK /\ StartedBeforeUse
  BY DEF IInv, TypeOK
<1>2. ASSUME UNCHANGED <<status, timer, kind, known, msg, pc>>,
             AiMode \in status /\ ~ok[AiMode] => ~ok'[AiMode]
      PROVE  Woken'
  BY <1>2
<1>3. CASE EnterIdle \/ EnterIdleFails \/ OnEnterListening
  BY <1>3 DEF EnterIdle, EnterIdleFails, OnEnterListening, Die, modeVars
<1>4. CASE (\E q \in Queries : Fetch(q)) \/ CheckMode
  BY <1>4 DEF Fetch, CheckMode, modeVars
<1>5. CASE AiWeakUpSimilarCheck \/ AiWeakUpSimilarCheckFails \/ LookupMode
  BY <1>5 DEF AiWeakUpSimilarCheck, AiWeakUpSimilarCheckFails, Wakes, LookupMode,
              Mode!Exist, Die, modeVars
<1>6. CASE RenewMode
  BY <1>6 DEF RenewMode, Mode!Renewal
<1>7. CASE AddMode
  BY <1>1, <1>7 DEF AddMode, Mode!Add, Mode!TypeOK
<1>8. CASE Pause
  BY <1>8 DEF Pause, modeVars
<1>9. CASE StartMode
  BY <1>9 DEF StartMode, Mode!Start
<1>10. CASE VoiceDetected \/ ProcessComplete \/ Speak
  BY <1>10 DEF VoiceDetected, ProcessComplete, Speak, modeVars
<1>11. CASE R
  BY <1>2, <1>11 DEF R, AskAi, AskDocHub, AnswerWith, AskFails, Generate, Die, modeVars
<1>12. CASE Ask \/ Receive
  BY <1>12 DEF Ask, Receive, modeVars
<1>13. CASE ModeTimer
  <2>1. UNCHANGED <<status, timer, kind, known, msg, pc>>
    BY <1>13 DEF ModeTimer, Mode!Runtime, Mode!Fire, Mode!Callback, Mode!OnExitReturns,
                 Mode!entryVars, Mode!timerVars
  <2>2. AiMode \in status /\ ~ok[AiMode] => ~ok'[AiMode]
    BY <1>1, <1>13 DEF ModeTimer, Mode!Runtime, Mode!Fire, Mode!Callback,
                       Mode!OnExitReturns, Mode!entryVars, Mode!TypeOK
  <2> QED
    BY <1>2, <2>1, <2>2
<1>14. CASE UNCHANGED vars
  BY <1>2, <1>14 DEF vars, modeVars
<1> QED
  BY <1>3, <1>4, <1>5, <1>6, <1>7, <1>8, <1>9, <1>10, <1>11, <1>12, <1>13, <1>14
  DEF Next, F

LEMMA AlwaysWoken == Spec => []Woken
<1>1. Init => Woken
  BY DEF Init, Mode!Init, Woken, Mode!IsOk
<1>2. IInv /\ Woken /\ [Next]_vars => Woken'
  BY WokenKept
<1> QED
  BY <1>1, <1>2, AlwaysIInv, PTL DEF Spec

(* Only a query that wakes the AI makes the entry of the mode, however long *)
(* F waits for the table's lock after it checked the query.                 *)
THEOREM WakeEnters == Spec => OnlyWakeEnters
<1> DEFINE Entered == AiMode \notin status /\ AiMode \in status' => msg \in WakeLike
<1>1. ASSUME Woken, [Next]_vars, AiMode \notin status, AiMode \in status'
      PROVE  msg \in WakeLike
  <2>1. AddMode => msg \in WakeLike
    BY <1>1 DEF AddMode, Goto, Woken
  <2>2. RenewMode \/ StartMode \/ ModeTimer => status' = status
    BY DEF RenewMode, Mode!Renewal, StartMode, Mode!Start, ModeTimer, Mode!Runtime,
           Mode!Fire, Mode!Callback, Mode!OnExitReturns, Mode!entryVars
  <2>3. (F /\ ~RenewMode /\ ~AddMode /\ ~StartMode) => status' = status
    BY DEF F, EnterIdle, EnterIdleFails, OnEnterListening, Fetch, CheckMode,
           AiWeakUpSimilarCheck, AiWeakUpSimilarCheckFails, LookupMode, Pause,
           VoiceDetected, ProcessComplete, Speak, Die, modeVars
  <2>4. R \/ Ask \/ Receive \/ UNCHANGED vars => status' = status
    BY DEF R, AskAi, AskDocHub, AnswerWith, AskFails, Generate, Die, Ask, Receive,
           modeVars, vars
  <2> QED
    BY <1>1, <2>1, <2>2, <2>3, <2>4 DEF Next
<1>2. Woken /\ [Next]_vars => [Entered]_vars
  BY <1>1
<1> QED
  BY <1>2, AlwaysWoken, PTL DEF Spec, OnlyWakeEnters

(* F stops for good only with the AI mode off, and for one of three         *)
(* reasons, whatever the timers did since F looked at the mode.             *)
THEOREM StopsUnwoken == Spec => []StopsOnlyUnwoken
<1>1. Woken => StopsOnlyUnwoken
  BY DEF Woken, StopsOnlyUnwoken
<1> QED
  BY <1>1, AlwaysWoken, PTL

-----------------------------------------------------------------------------
(* Which state each place of F is in: the events are fired in their order. *)
StateFollows ==
    /\ pc = "idle" => state = "idle"
    /\ pc \in {"ask", "collect", "complete"} => state = "processing"
    /\ pc = "speak" => state = "speaking"
    /\ pc \notin {"idle", "ask", "collect", "complete", "speak"} => state = "listening"

(* F makes a timer by Add and another by Start, and no more: an entry is    *)
(* never added again, and only one with the timer of Add is started.  So    *)
(* the only func timer is that of the entry.                                *)
TimerBudget ==
    /\ \A t \in Timers : kind[t] = "func" => AiMode \in status /\ timer[AiMode] = t
    /\ AiMode \notin status => \A t \in Timers : kind[t] = "unused"
    /\ PauseFailed => \A t \in Timers : t # timer[AiMode] => kind[t] = "unused"
    /\ AiMode \in status /\ ~PauseFailed =>
         \E u \in Timers : \A t \in Timers : t \notin {u, timer[AiMode]} => kind[t] = "unused"

Ready == LockComesFree /\ StateFollows /\ TimerBudget

(* The timers and the callbacks make no timers and replace none. *)
LEMMA TimersStay ==
    ASSUME ModeTimer
    PROVE  UNCHANGED <<status, timer, kind, over, fVars, rVars>>
BY DEF ModeTimer, Mode!Runtime, Mode!Fire, Mode!Callback, Mode!OnExitReturns,
       Mode!entryVars, Mode!timerVars, Mode!lockVars

LEMMA ReadyKept ==
    ASSUME IInv, Woken, Ready, [Next]_vars
    PROVE  Ready'
<1> USE DEF Ready, LockComesFree, PauseFailed, fVars, rVars, Goto
<1>1. Mode!TypeOK /\ StartedBeforeUse /\ Lockstep
  BY DEF IInv, TypeOK, InStep
<1>2. CASE AddMode
  <2>1. AiMode \notin status /\ pc' = "pause" /\ UNCHANGED <<state, over>>
    BY <1>2 DEF AddMode, Mode!Add, Mode!lockVars
  <2>2. PICK t \in Timers : /\ kind' = [kind EXCEPT ![t] = "chan"]
                            /\ timer' = [timer EXCEPT ![AiMode] = t]
    BY <1>2 DEF AddMode, Mode!Add
  <2>3. timer'[AiMode] = t /\ kind'[t] = "chan"
    BY <1>1, <2>2 DEF Mode!TypeOK
  <2>4. \A u \in Timers : u # t => kind'[u] = "unused"
    BY <1>1, <2>1, <2>2 DEF Mode!TypeOK, TimerBudget
  <2>5. AiMode \in status'
    BY <1>2 DEF AddMode, Mode!Add
  <2>6. TimerBudget'
    BY <2>3, <2>4, <2>5 DEF TimerBudget
  <2>7. StateFollows'
    BY <1>2, <2>1 DEF AddMode, StateFollows
  <2> QED
    BY <2>1, <2>6, <2>7
<1>3. CASE StartMode
  <2>1. PauseFailed /\ pc' = "detected" /\ UNCHANGED <<state, over, status>>
    BY <1>3 DEF StartMode, Mode!Start, Mode!lockVars, Woken
  <2>2. PICK t \in Timers : /\ kind' = [kind EXCEPT ![t] = "func"]
                            /\ timer' = [timer EXCEPT ![AiMode] = t]
    BY <1>3 DEF StartMode, Mode!Start
  <2>3. timer'[AiMode] = t /\ kind'[t] = "func"
    BY <1>1, <2>2 DEF Mode!TypeOK
  <2>4. \A u \in Timers : u \notin {timer[AiMode], t} => kind'[u] = "unused"
    BY <1>1, <2>1, <2>2 DEF Mode!TypeOK, TimerBudget
  <2>5. timer[AiMode] \in Timers
    BY <2>1 DEF IInv, Table!IInv, Table!EntriesHoldTimers
  <2>8. \A u \in Timers : kind'[u] = "func" => u = t
    BY <1>1, <2>1, <2>2 DEF Mode!TypeOK, TimerBudget
  <2>6. TimerBudget'
    BY <2>1, <2>3, <2>4, <2>5, <2>8 DEF TimerBudget
  <2>7. StateFollows'
    BY <1>3, <2>1 DEF StartMode, StateFollows
  <2> QED
    BY <2>1, <2>6, <2>7
<1>4. CASE RenewMode
  <2>1. UNCHANGED <<status, timer, kind, over, state>> /\ pc = "renew" /\ pc' = "detected"
    BY <1>4 DEF RenewMode, Mode!Renewal, Mode!lockVars
  <2>2. TimerBudget'
    BY <2>1 DEF TimerBudget
  <2> QED
    BY <2>1, <2>2 DEF StateFollows
<1>5. CASE ModeTimer
  <2>1. UNCHANGED <<status, timer, kind, over, state, pc>>
    BY <1>5, TimersStay
  <2> QED
    BY <2>1 DEF TimerBudget, StateFollows
<1>6. CASE ~AddMode /\ ~StartMode /\ ~RenewMode /\ ~ModeTimer
  <2>1. UNCHANGED modeVars
    BY <1>6
    DEF Next, F, EnterIdle, EnterIdleFails, OnEnterListening, Fetch, CheckMode,
        AiWeakUpSimilarCheck, AiWeakUpSimilarCheckFails, LookupMode, Pause, VoiceDetected,
        ProcessComplete, Speak, Die, R, AskAi, AskDocHub, AnswerWith, AskFails, Generate,
        Ask, Receive, vars
  <2>2. StateFollows'
    BY <1>1, <1>6
    DEF Next, F, EnterIdle, EnterIdleFails, OnEnterListening, Fetch, CheckMode,
        AiWeakUpSimilarCheck, AiWeakUpSimilarCheckFails, LookupMode, Pause, VoiceDetected,
        ProcessComplete, Speak, Die, R, AskAi, AskDocHub, AnswerWith, AskFails, Generate,
        Ask, Receive, vars, Event, StateFollows
  <2>3. TimerBudget'
    BY <2>1 DEF modeVars, TimerBudget
  <2> QED
    BY <2>1, <2>2, <2>3 DEF modeVars
<1> QED
  BY <1>2, <1>3, <1>4, <1>5, <1>6

LEMMA AlwaysReady == Spec => []Ready
<1>1. Init => Ready
  BY DEF Init, Mode!Init, Ready, LockComesFree, StateFollows, TimerBudget, PauseFailed
<1>2. IInv /\ Woken /\ Ready /\ [Next]_vars => Ready'
  BY ReadyKept
<1> QED
  BY <1>1, <1>2, AlwaysIInv, AlwaysWoken, PTL DEF Spec

(* F never waits for what cannot come and never fires an event that is      *)
(* illegal: with any queries, answers and timers there is no deadlock.      *)
THEOREM NobodyIsStuck == Spec => []NeverStuck
<1>1. ASSUME IInv, Woken, Ready PROVE NeverStuck
  <2>1. EventIsLegal
    BY <1>1 DEF Ready, StateFollows, EventIsLegal
  <2>2. PartnerComes
    BY <1>1 DEF IInv, TypeOK, RSteps, InStep, Lockstep, PartnerComes
  <2>3. pc = "add" => ~Mode!Exist(AiMode) /\ \E t \in Timers : Mode!Unused(t)
    BY <1>1, XiaoAiAssumption DEF Woken, Ready, TimerBudget, Mode!Exist, Mode!Unused
  <2>4. pc = "start" => Mode!Exist(AiMode) /\ \E t \in Timers : Mode!Unused(t)
    BY <1>1, XiaoAiAssumption DEF Woken, PauseFailed, Ready, TimerBudget, Mode!Exist,
                                  Mode!Unused
  <2>5. pc = "renew" => Mode!Exist(AiMode)
    BY <1>1 DEF IInv, StartedBeforeUse, Mode!Exist
  <2>6. EntryFits
    BY <2>3, <2>4, <2>5 DEF EntryFits
  <2> QED
    BY <1>1, <2>1, <2>2, <2>6 DEF NeverStuck, Ready
<1> QED
  BY <1>1, AlwaysIInv, AlwaysWoken, AlwaysReady, PTL

(* However often the mode is entered, renewed and left, the program makes   *)
(* two timers for it at most.                                               *)
THEOREM AtMostTwoTimers ==
    Spec => [](\A t, u, v \in Timers :
                  "unused" \notin {kind[t], kind[u], kind[v]} => t = u \/ u = v \/ t = v)
<1>1. Ready => \A t, u, v \in Timers :
                  "unused" \notin {kind[t], kind[u], kind[v]} => t = u \/ u = v \/ t = v
  BY DEF Ready, TimerBudget
<1> QED
  BY <1>1, AlwaysReady, PTL

(* The AI mode never has two ends: whatever may still switch it off is the  *)
(* timer of its entry, so no period is cut short by an earlier one.         *)
THEOREM ModeHasOneEnd == Spec => []OnlyOneEnd
<1>1. Ready => OnlyOneEnd
  BY DEF Ready, TimerBudget, OnlyOneEnd
<1> QED
  BY <1>1, AlwaysReady, PTL

(* A callback of the AI mode that is on its way finds the entry of the mode *)
(* when it gets the lock: it never dereferences the nil that a table from   *)
(* which entries are deleted would give it.                                 *)
THEOREM CallbacksFindTheMode ==
    Spec => [](\A t \in Timers : pending[t] > 0 => owner[t] \in status)
<1>1. IInv /\ Ready => \A t \in Timers : pending[t] > 0 => owner[t] \in status
  <2> SUFFICES ASSUME IInv, Ready, NEW t \in Timers, pending[t] > 0
               PROVE  owner[t] \in status
    OBVIOUS
  <2>1. kind[t] # "unused"
    BY DEF IInv, Table!IInv, Table!TimersByKind
  <2>2. AiMode \in status
    BY <2>1 DEF Ready, TimerBudget
  <2>3. owner[t] = AiMode
    BY DEF IInv, TypeOK, Mode!TypeOK
  <2> QED
    BY <2>2, <2>3
<1> QED
  BY <1>1, AlwaysIInv, AlwaysReady, PTL

-----------------------------------------------------------------------------
(* The bound on the steps is a number. *)
LEMMA StepsAreCounted ==
    ASSUME TypeOK
    PROVE  FLeft \in Nat /\ RLeft \in Nat /\ MaxChunks \in Nat
BY XiaoAiAssumption DEF TypeOK, FLeft, RLeft

LEMMA SumDecreases ==
    \A f, f2, r, b, b2 \in Nat : f2 < f /\ b2 <= b => f2 + r + b2 < f + r + b
OBVIOUS

(* Every step while a query is handled brings its end nearer, for answers   *)
(* of any length: a query takes at most 11 steps of F, and two and one for  *)
(* each chunk of R, whatever the timers and other queries do in between.    *)
THEOREM EveryStepCounts == Spec => StepsDecrease
<1> USE DEF fVars, rVars, Goto
<1> DEFINE Handling == pc \notin {"idle", "listen", "fetch", "returned"}
           Nearer == Handling /\ ~UNCHANGED <<fVars, rVars>> => StepsLeft' < StepsLeft
<1>1. ASSUME IInv, Next, Handling, ~UNCHANGED <<fVars, rVars>>
      PROVE  StepsLeft' < StepsLeft
  <2>1. /\ FLeft \in Nat /\ RLeft \in Nat /\ MaxChunks \in Nat
        /\ rpc \in {"idle", "answer", "send", "generate"} /\ Len(reply) \in Nat
        /\ reply \in Seq(Chunks)
        /\ pc = "collect" <=> rpc \in {"answer", "send"}
    BY <1>1, StepsAreCounted DEF IInv, TypeOK, InStep, Lockstep, RSteps
  <2>2. CASE F
    <3>1. UNCHANGED rVars
      BY <1>1, <2>2
      DEF F, EnterIdle, EnterIdleFails, OnEnterListening, Fetch, CheckMode, RenewMode,
          AiWeakUpSimilarCheck, AiWeakUpSimilarCheckFails, LookupMode, AddMode, Pause,
          StartMode, VoiceDetected, ProcessComplete, Speak, Die
    <3>2. RLeft' = RLeft
      BY <3>1 DEF RLeft
    <3>3. FLeft' < FLeft /\ FLeft' \in Nat
      BY <1>1, <2>2
      DEF F, EnterIdle, EnterIdleFails, OnEnterListening, Fetch, CheckMode, RenewMode,
          AiWeakUpSimilarCheck, AiWeakUpSimilarCheckFails, LookupMode, AddMode, Pause,
          StartMode, VoiceDetected, ProcessComplete, Speak, Die, FLeft
    <3>4. StillToAsk' => StillToAsk
      BY <1>1, <2>2
      DEF F, EnterIdle, EnterIdleFails, OnEnterListening, Fetch, CheckMode, RenewMode,
          AiWeakUpSimilarCheck, AiWeakUpSimilarCheckFails, LookupMode, AddMode, Pause,
          StartMode, VoiceDetected, ProcessComplete, Speak, Die, StillToAsk
    <3> DEFINE toAsk == IF StillToAsk THEN MaxChunks + 4 ELSE 0
    <3>5. toAsk \in Nat /\ toAsk' \in Nat /\ toAsk' <= toAsk
      BY <2>1, <3>4 DEF StillToAsk
    <3>6. StepsLeft = FLeft + RLeft + toAsk /\ StepsLeft' = FLeft' + RLeft' + toAsk'
      BY DEF StepsLeft
    <3> HIDE DEF toAsk
    <3>7. FLeft' + RLeft + toAsk' < FLeft + RLeft + toAsk
      BY <2>1, <3>3, <3>5, SumDecreases, Zenon
    <3> QED
      BY <3>2, <3>6, <3>7, Zenon
  <2>3. ASSUME NEW n \in 0..(MaxChunks + 1), AnswerWith(n) PROVE StepsLeft' < StepsLeft
    <3>1. UNCHANGED pc /\ rpc = "answer" /\ rpc' = "send"
      BY <2>3 DEF AnswerWith
    <3>2. Len(reply') = n
      BY <2>1, <2>3 DEF AnswerWith
    <3>3. FLeft' = FLeft /\ RLeft = MaxChunks + 4 /\ RLeft' = n + 2 /\ StillToAsk' = StillToAsk
      BY <3>1, <3>2 DEF FLeft, RLeft, StillToAsk
    <3> QED
      BY <2>1, <3>3 DEF StepsLeft
  <2>4. CASE Generate
    <3>1. UNCHANGED pc /\ rpc = "generate" /\ rpc' = "idle"
      BY <2>4 DEF Generate
    <3>2. FLeft' = FLeft /\ RLeft = 1 /\ RLeft' = 0 /\ StillToAsk' = StillToAsk
      BY <3>1 DEF FLeft, RLeft, StillToAsk
    <3> QED
      BY <2>1, <3>2 DEF StepsLeft
  <2>5. CASE Ask
    <3>1. pc = "ask" /\ rpc = "idle" /\ pc' = "collect" /\ rpc' = "answer"
      BY <2>5 DEF Ask
    <3>2. /\ FLeft = 4 /\ RLeft = 0 /\ StillToAsk
          /\ FLeft' = 3 /\ RLeft' = MaxChunks + 4 /\ ~StillToAsk'
      BY <3>1 DEF FLeft, RLeft, StillToAsk
    <3> QED
      BY <2>1, <3>2 DEF StepsLeft
  <2>6. CASE Receive
    <3>1. pc = "collect" /\ rpc = "send" /\ FLeft = 3 /\ RLeft = Len(reply) + 2 /\ ~StillToAsk
      BY <2>6 DEF Receive, FLeft, RLeft, StillToAsk
    <3>2. CASE Last
      <4>1. pc' = "complete" /\ rpc' \in {"generate", "idle"}
        BY <2>6, <3>2 DEF Receive, Offer
      <4>2. FLeft' = 2 /\ RLeft' \in 0..1 /\ ~StillToAsk'
        BY <4>1 DEF FLeft, RLeft, StillToAsk
      <4> QED
        BY <2>1, <3>1, <4>2 DEF StepsLeft
    <3>3. CASE ~Last
      <4>1. pc' = "collect" /\ rpc' = "send" /\ reply' = Tail(reply) /\ reply # <<>>
        BY <2>6, <3>1, <3>3 DEF Receive, Offer, Last
      <4>2. Len(reply') = Len(reply) - 1 /\ Len(reply) # 0
        BY <2>1, <4>1
      <4>3. FLeft' = 3 /\ RLeft' = Len(reply) + 1 /\ ~StillToAsk'
        BY <2>1, <4>1, <4>2 DEF FLeft, RLeft, StillToAsk
      <4> QED
        BY <2>1, <3>1, <4>3 DEF StepsLeft
    <3> QED
      BY <3>2, <3>3
  <2>7. CASE AskFails \/ ModeTimer
    BY <1>1, <2>7 DEF AskFails, Die, ModeTimer
  <2> QED
    BY <1>1, <2>2, <2>3, <2>4, <2>5, <2>6, <2>7, XiaoAiAssumption
    DEF Next, R, AskAi, AskDocHub
<1>2. IInv /\ [Next]_vars => [Nearer]_vars
  BY <1>1
<1> QED
  BY <1>2, AlwaysIInv, PTL DEF Spec, StepsDecrease

-----------------------------------------------------------------------------
(* The branch that is built never has anything to say: AskDocHub's text is  *)
(* in the message that is over, in every behaviour and not just in the one  *)
(* the run XiaoAi_AnswerIsWhole finds.                                      *)
THEOREM DocHubSaysNothing ==
    ASSUME ~UseAi
    PROVE  Spec => [](answer = <<>> /\ said = <<>>)
<1> DEFINE Silent == answer = <<>> /\ said = <<>>
<1>1. Init => Silent
  BY DEF Init
<1>2. ASSUME Silent, [Next]_vars PROVE Silent'
  <2>1. CASE F
    BY <1>2, <2>1
    DEF F, EnterIdle, EnterIdleFails, OnEnterListening, Fetch, CheckMode, RenewMode,
        AiWeakUpSimilarCheck, AiWeakUpSimilarCheckFails, LookupMode, AddMode, Pause,
        StartMode, VoiceDetected, ProcessComplete, Speak, Die, fVars
  <2>2. CASE R \/ Ask \/ ModeTimer \/ UNCHANGED vars
    BY <1>2, <2>2
    DEF R, AskAi, AskDocHub, AnswerWith, AskFails, Generate, Die, Ask, ModeTimer, vars, fVars
  <2>3. CASE Receive
    BY <1>2, <2>3, ~UseAi DEF Receive, Collected, Offer, Last
  <2> QED
    BY <1>2, <2>1, <2>2, <2>3 DEF Next
<1> QED
  BY <1>1, <1>2, PTL DEF Spec
=============================================================================
