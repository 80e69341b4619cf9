# migpt-go in TLA+

migpt-go connects a Xiaomi speaker to a language model: it polls the speaker's
conversation log, recognises a wake-up phrase by vector similarity, keeps an "AI
mode" that ends 20 s after the last question, asks a model or a document store,
and has the speaker say the answer. This directory holds TLA+ specifications of
the program's own logic, configurations that check them with TLC on small
instances, and theorems that TLAPS checks for all values of the constants.

`PROJECT.json` lists the components, the runs, a mutation of the model for each
checked property, the source lines each definition stands for, the findings, the
hazards and the theorems.

## The system

| component | state | operations | hard parts | what makes it correct |
|---|---|---|---|---|
| `internal/status` TimeoutStatus | map key → (ok, timer, onExit), one mutex | Add, Ok, Exist, Start, Renewal, Exit, Over; the AfterFunc callback | callbacks that wait for the mutex behind a renewal; channel and callback timers mixed; onExit runs under the mutex | an active state has an end in sight, no stale ticks, a renewal keeps the state on |
| `mi/fsm` XiaoAiFSM | state of the machine, metadata, current query | enter/leave handlers that fire the next event from inside the last | never returns from a handler unless it stops; check-then-act on the AI mode; failures of five external services | answers are whole and to the right question, the AI mode has an end and only one, every query is handled |
| `main.go`, `llm/langchain.go` answering goroutine | current question | AskAi (streams), AskDocHub (one message) | two unbuffered channels | in step with the machine |
| `mi/fsm` GetUserConversation, `mina.Records` | heap of queries, `last_time` | poll, push, pop | two goroutines and no lock | a query is lost only where pushes and pops overlap, none from before the start is taken |
| `internal/cache` TimeoutCache | map key → (item, timer, deleted), one mutex | Add, Remove, Clear; the AfterFunc closure | a closure that runs late, after its key was reused | a removed item is never called back, an expired one is, once |
| `internal/buffer` Unbounded | channel of one, backlog, closing, closed | Put, Load, Get, Close | receives outside the lock, order across channel and backlog, closing once | a FIFO queue that strands nothing and ends after its last item |
| `internal/sync` CallbackSerializer, PubSub | an Unbounded, subscribers, last message | TrySchedule, ScheduleOr, run; Subscribe, Publish, cancel | two consumers of one channel, deliveries after a cancel, a Publish into a closed buffer | deliveries in order, none after a cancel, what was scheduled is run |
| `internal/sync` Event | a sync.Once and a channel | Do, Done, HasDone | - (nothing calls it) | - |
| `mi/base/account` MIAccount | Pass, ServiceToken, pubSub | ServiceLogin, GetLoginAccount, TakeLoginToken, RefreshLoginToken | logins that nest, responses with parts missing, a copy that is not refreshed | token and Pass are of one session; a refresh refreshes |
| `mi/base/mina`, `mi/base/miot`, `mi/spec` | a copy of the account, a controller table, device list | InitMina, InitMiot, Controller, device lists, records | stale credentials, refusals read as answers | refused only when the session has expired |
| `llm/vector_stores` | two collections in qdrant | Load | starts that die half-way, a changed configuration, writes that are applied late | a program that runs knows its wake-up words, and it can always come up |
| `internal/log` | the global logger | GetLogger | unguarded lazy initialisation (at worst a second, equal logger) | - |
| `cmd/tool_gen.go`, `llm/tools`, `config`, `internal/common` | - | generator, registry, constants | - | - |

How they interact: `main` loads the vector stores, makes the channels `question`
and `answer`, and starts two goroutines: F, which runs the state machine, and R,
which ranges over `question` and sends on `answer`. F starts a third, the poller,
which fills the heap F pops. TimeoutStatus adds a goroutine whenever the AI
mode's timer runs out. The account refreshes its token through a PubSub, which
runs its deliveries on a CallbackSerializer, which queues them in an Unbounded.
TimeoutCache and Event are library code that nothing calls yet.

## The modules

### TimeoutStatus.tla
`status`, `ok`, `timer` are the map and the fields of its entries. Timers are
objects with an identity, because Start replaces an entry's timer while the old
one runs on; `kind` says whether a timer came from NewTimer or AfterFunc,
`armed` which ones the runtime has to fire, `full` which channels hold a value,
`pending` how many callback goroutines wait for the mutex. A method is one
action under `Unlocked`; two of them wait inside the lock and so have two: onExit
(`notifying`, until `OnExitReturns`), and `Over`/`OverFinish`, because the receive
in Over has no default branch. `crashed` is the nil dereference in the callback.
Timers follow the semantics of the `go 1.22` line of go.mod.

### XiaoAi.tla
F's handlers nest, so F is one long sequence of steps: `pc` says where it is,
`state` what looplab/fsm would report. Each call that others can see (a lock
taken, a channel used, an external request) is a step. `Mode` is an instance of
TimeoutStatus with one key: F's calls are its actions `Add`, `Start`, `Renewal`,
and `ModeTimer` lets its timers run between any two steps of F. R is `rpc`; the
rendezvous are `Ask` and `Receive`, one step of both goroutines. `UseAi` is the
condition in main.go that is the literal `false`; the runs check both branches.
A panic or log.Fatal in any goroutine is `Die`.

### ConversationQueue.tla
The heap between the poller and F. Its content is a bag of records; a push and a
pop read the slice in one step and write it in another, so the write that comes
last wins. No overlap is excluded. Which record is first follows from the heap order
as long as nobody pushed into a sift (`ordered`, `slipped`); after that it may be any.
Swaps and the append of mina_impl.go:174-181 are several assignments: where those of
both goroutines meet, an element is replaced by another (`Collide`) or a pointer is nil
or out of range and the process dies (`CollideAndDie`). `raced` is a history variable:
the queries P pushed while F was inside a push or pop, and those a collision replaced.

### TimeoutCache.tla and ExpiringMap.tla
ExpiringMap says what the cache promises: an item is put under a free key, stays,
and leaves once, taken by a caller or expired. TimeoutCache has the entries,
their timers (`phase`) and the flag `deleted`; `Fate` maps an entry to what has
become of its item, and `IsExpiringMap` is the refinement.

### Unbounded.tla and Fifo.tla
Fifo is a queue of any length that can be closed. Unbounded has the channel `c`
(zero or one item), the `backlog`, the flags `closing` and `closed`, and `ended`,
which says that the channel itself is closed. Put is two steps where it fills the
backlog: the select with a default branch looks at the channel, and since a receive
takes no lock, the channel may be emptied before the append (`putting` is the item
in between, and the lock). Load and Close each look at the channel once and are one
step. Load may panic (`crashed`): on a second close, which the missing `closed = true`
allows, and on a send into a closed channel. `owing` are the readers that have
received and not yet called Load. The refinement maps `c \o backlog \o putting` to
the queue.

### PubSub.tla
CallbackSerializer and PubSub over one Unbounded (`Buffer`). `loop` is the goroutine
`run`, `after` the one that context.AfterFunc starts; `pc` and `cb` say where each is
and which closure it holds, `mu` who holds `ps.mu`. A closure is a pair of subscriber
and message. Line 48 of callback_serializer.go loops while the context HAS an error,
and the model follows it: with a live context the loop ends before it begins. Only if
the context is cancelled before `run` tests it are there two readers. A Publish holds
the lock over one ScheduleOr per subscriber (`todo`), in any order; ScheduleOr into a
closed buffer dies in Fatalf. Subscribe and the function it returns are one step each.
`due` is a history variable: what was published to a subscriber and not yet given to it;
the code has no such thing, and no guard reads it.

### Account.tla
One account and the client that copies it. `pc` is where GetLoginAccount is, in the
first login (`by = "init"`) or in one that OnMessage makes; `depth` counts the
TakeLoginTokens that wait for the login they started because a part of the response
was missing. A Pass and a token are known by the number of the session the cloud
opened for them. The client works with `clientPass` and `clientToken`, the copy
InitMina or InitMiot made, and has one action for each of its calls; a request is
accepted, refused or fails. The PubSub is abstracted to what module PubSub shows of
it: no delivery before the context is cancelled, one at a time after, a `run` that is
over at once when the context is live.

### VectorStore.tla
`pc` follows main from the document store to the wake-up store. The process may die at
any step and is started again, perhaps with other words and files; the collections
survive (`hub`, `exists`, `points`). An Upsert does not wait, so it only joins
`accepted`, and `Apply` writes it later, in order. The call that creates a collection
is refused when there is one, and an empty list of words has no embedding: both end in
`"failed"`, the deaths that are not faults. Of these a start may only meet the second.

### Dialogue.tla
The conversation as the user hears it: a question is asked, an answer to it is told,
all of it is said. XiaoAi implements it when answers are streamed (`UseAi`): `Asked` and
`Told` are the mapping; chunks, channels, goroutines and the AI mode's timers are hidden.

### MC modules and proofs
`MC*.tla` are what TLC runs; the configurations give the constants their values.
`*Proofs.tla` hold the theorems.
Operators named `Mut...` stand before the definition they are a faulty form of.

## Runs

Passing runs:

| run | bounds | shows |
|---|---|---|
| TimeoutStatus_table | 2 keys, 3 timers, 2 callbacks per timer | types and one lock holder; an active state will expire; no stale ticks; a started state that is not renewed for ever ends |
| XiaoAi_dochub | 2 queries (one wakes), 3 timers | F and R in step, and neither ever stuck; the AI mode always has an end, and one at a time; it is entered by a wake-up only; F stops listening only with the mode off and for one of three reasons; every query taken up is answered or given up |
| XiaoAi_ai | answers of 0 to 2 chunks | streamed answers are whole; the loop implements Dialogue; every step of a query brings its end nearer, and it is handled |
| ConversationQueue_safety | 3 records, 1 of them old, window of 2, heap of 3, every overlap of pushes and pops | a query is lost only in an overlap, never by last_time or the order of pushes |
| TimeoutCache_map | 2 keys, 3 entries | it implements ExpiringMap; late goroutines own their keys; every item leaves; every due callback is called |
| PubSub_delivery | 2 subscribers, 2 messages, 3 closures in the buffer | the buffer implements Fifo, strands nothing, ends after its last item; a cancel is final; with one reader deliveries keep their order and only a Publish into a closed buffer kills the process; no message is lost on its way to a subscriber; after a cancel of the context what is left is run |
| Account_logins | 3 sessions, 2 nested logins, 1 waiting message | the client's token and Pass are of one session; it is refused only if that has expired; nobody refreshes without a PassToken, and a cancel ends a RefreshLoginToken |
| VectorStore_restarts | lists of 0 to 2 words, 2 files (one without a loader), 2 writes on the way | a program that runs has its words, once the writes are applied; no start is refused because of an earlier one, only for want of a word; when nothing fails any more it comes up and stays up |

Runs that end in a counterexample, each a disagreement between the code and what
its comments, logs or tests say (quoted in `PROJECT.json`, "findings"):

| run | what happens |
|---|---|
| TimeoutStatus_RenewedStaysOk | Add, Start, the timer fires, Renewal gets the lock first, the callback then switches the renewed state off |
| XiaoAi_AnswerIsWhole | AskDocHub's text is in the message that is over, which F drops |
| ConversationQueue_OldFiltered | the test record sets last_time to 0 |
| Account_RefreshRefreshes | `run` is over, so RefreshLoginToken returns nil without a login |

### Why the bounds are enough
Three timers are those of two Adds and a Start, or of an Add and two Starts of one
key: a timer in its entry, a replaced one still running and a callback waiting
can coexist (four timers, half a million states, show nothing else). With two keys a call for one
could disturb the timer or callback of the other; each property is about at most two. Three entries let a key be reused twice while the first
goroutine still waits. In XiaoAi F calls Add and Start once each, so two timers
are all there ever are (theorem AtMostTwoTimers; XiaoAiAssumption says there are two at
least); XiaoAi_dochub has a third, so that a second Start, were there one, would show in
OnlyOneEnd. Two queries distinguish wake-up from other, two chunks
distinguish first from last. A window smaller than the number of records lets
records fall out of it. A heap of three holds the test record and both new records, or an
old one that has come back. Where overlapping writes lose a query the next fetch does not
always bring it again: that is the race of fsm.go:267, 275 and 410, listed as a hazard, and
OnlyOverlapsLose says that nothing else loses one.

In PubSub two messages to two subscribers give up to four closures for a buffer of
three, so the channel, the backlog and a Put between its steps are occupied at the
same time, and a subscription can be cancelled and renewed between them. The premise `OneReads` of
DeliveredInOrder and OnlyPublishDies is true in every execution in which the context
is cancelled after `run` has tested it; with two readers both properties fail.
Three sessions are a first login, one nested in it and one after; depth 2 lets a
nested login nest again. With two words a list can shrink and its order change; two
writes on the way are one of a start that died and one of the next.

### Fairness
`TimeoutStatus!FairSpec`: an armed timer runs out; a goroutine that waits for
the mutex gets it if it is free again and again (strong fairness; Go's mutex
goes FIFO once a waiter starves); onExit returns (it is an HTTP request without a
timeout, so this is an assumption about the network); an Over that can go on
does. Callers owe nothing. A state that is renewed for ever need not end, hence
the premise `RenewalsStop`. `XiaoAi!FairSpec` adds that the two goroutines run and
that external calls return. `TimeoutCache!FairSpec`: timers and their goroutines.
`PubSub!FairSpec`: both goroutines run on and a Put or Publish that was begun goes on
(weak); who waits for `ps.mu` or `b.mu` gets it if it is free again and again (strong,
for readers and the AfterFunc); nobody need publish or cancel. `Account!FairSpec`: the
cloud answers and the goroutines run (weak), and the ticker's Publish gets the lock a
login holds for a while (strong); sessions need not expire. `VectorStore!FairSpec`: a
program that is down is started again (by its user), a Load goes on, qdrant
applies what it accepted; faults owe nothing, and ComesUp has as its premise that they end.

Two ways a TimeoutStatus can fail are exceptions of StartedStateEnds and no run of
their own, since nothing in the repository calls Over: an Over that waits, holding
the lock, on a channel that is nil or was drained (`OverBlocked`), and a callback
that finds its entry deleted (`crashed`). A third flaw of the table, that a second Start
lets the replaced timer end the new period early, is no exception of any property: the
program never starts a mode twice, which is what OnlyOneEnd says.

### Deadlock
All configurations switch deadlock checking off: the programs may stop (a
process that died, an Over that blocks, a machine whose handler returned, bounded
timers and entries that are used up).

## Proofs

`TimeoutStatusProofs`: `IInv` is the conjunction of the type invariant, the two
checked invariants and what they need: entries hold allocated timers, unused
timers are idle, only channel timers have a value, and Over's key still has its
entry. ActiveWillExpire is not inductive alone: stopping one key's timer would
strand another key that shares it, so it needs that no two entries do
(`TimersNotShared`, a step of the proof and no result). There is one lemma per action. The only assumption
is `ConstantsAssumption`. `BlockedOverBlocksAll` justifies the exception OverBlocked: a
blocked Over holds the lock, and the value it waits for could only come from its own
timer, which no longer runs, so the table is still from then on.

`XiaoAiProofs` builds on it. Its `Table` is an instance of TimeoutStatusProofs with the
one key of the AI mode, and `StepsOfTheTable` shows that every step of the program is
a step of the table or leaves it alone, so the table's invariant holds here as well.
`AiModeWillEnd` then needs one fact about F, `StartedBeforeUse`: the entry has Start's
timer except between Add and Start, where the mode is off, and F renews only an
entry there is. `GoroutinesInStep` is inductive with the state F asks in.
`StreamedAnswersAreWhole` assumes `UseAi` and carries the invariant `AnswerSoFar`: what
was collected and what is still to be sent are together what the model said. The
branch that is built violates AnswerIsWhole, which is a finding. The assumption is
`XiaoAiAssumption`, which implies the table's.

OnlyWakeEnters and StopsOnlyUnwoken rest on `Woken`: what F was told of the mode, the
query and the entry stays true until F acts on it, because timers and callbacks only
ever switch the mode off. `ImplementsDialogue` (again under `UseAi`) uses AnswerSoFar and
InStep: Speak is Say, the rendezvous is Ask, R's answer is Tell, all else is hidden.

`NobodyIsStuck` says of each place F can wait at that what it waits for is there or
can come. `Ready` is what is inductive beside IInv and Woken: no Over waits with
the table's lock (`LockComesFree`), the state of the machine follows from where F is
(`StateFollows`, so the next event is legal), and `TimerBudget` says which timers Add and
Start have used, so that each finds one. TimerBudget also gives `AtMostTwoTimers`,
`CallbacksFindTheMode` and `ModeHasOneEnd`: of the timers used only the entry's own is one
of AfterFunc. `EveryStepCounts` is the rank of a query: what F and R still have to
do (`FLeft`, `RLeft`) and the chunks the model may still send. Together they are
QueryIsHandled without the fairness: while a query is handled somebody can move, and
every move lowers a natural number. `DocHubSaysNothing` turns the finding of
XiaoAi_AnswerIsWhole from one behaviour into all.

`ConversationQueueProofs`: the theorems hold for every overlap. last_time is the Time of
some element of the heap and not of the newest record, so the proof of
OnlyOverlapsLoseQueries cannot go by it; what is inductive is that the records that were
fetched have no gap (`Gapless`), with `Exist` (nothing is fetched before it is made) and
`Agree`: a slice that was read and not yet written back differs from the heap only in
records that were taken or raced and in the test record (`Excused`), so writing it back
loses no other. `OnlyWhatWasSaid`: even with a lost update only records that were said are
ever taken. The assumption is `ConversationAssumption`.

`TimeoutCacheProofs`: that a late goroutine owns its key is inductive together
with `KeptEntriesCanExpire`, the converse for entries in the map. From it follows
the refinement `Spec => IsExpiringMap`: the only step that needs an argument is
Expire, which deletes by key. `KeptEntriesWillExpire` and `EntriesOnlyGetOlder` (the `Age`
of an entry, which no step raises and each step of its timer lowers) are what ItemsLeave
and ExpiredAreCalled add fairness to.

`UnboundedProofs`: TypeOK, NothingStranded, EndIsLast and `EndIsComing` (a closing buffer that
has not ended has an item left or a reader that owes it a Load) are inductive together, for
any items and readers; `DrainingGoesOn` follows. The refinement `Spec => IsFifo` is about concatenations: Put bypasses the
backlog only if it is empty (PutQueues), Load moves an item across the boundary and a
receive takes the head (ReceiveTakes). There is no constant to assume anything of.

`PubSubProofs` carries these over through an instance (`Buf`), as XiaoAiProofs does.
Its own invariant says who may hold what (`HandsOn`), that only the AfterFunc closes
(`AfterCloses`), and, for one reader, that the channel is empty when Load closes it
(`CloseOnce`) and that messages had, in hand and in line are in order (`InOrder`):
DeliveredInOrder is a property of a step, and its invariant has to speak about the whole
line. `NoMessageIsLost` has no such premise: with one reader or two, a message that is due
is in line, in hand, or still to be scheduled by a Publish. What is inductive beside it is
`OneByOne`: only subscribers have anything due, and a Publish keeps the lock until it has
scheduled all. `RangeComesToItsEnd` has `Drained`:
when the AfterFunc has returned nothing is left and nothing comes. The assumption is
`PubSubAssumption`.

`AccountProofs`: the client's copy is taken at one point of the first login, so the
invariant says what a login can leave there: during it a token exists only between the
end of a nested login and the end of the one around it, and is the Pass's (`FirstLogin`).
RefusedOnlyIfExpired then follows from the copy never changing (`CopyStays`). The same fact
has a darker side: `ExpiredForGood`, since new sessions are new numbers (`SessionsAreNew`),
and `RefreshChangesNothing`, the finding of Account_RefreshRefreshes for every behaviour.
`Renews`, the last conjunct of TypeOK, holds because the copy never changes. `RefreshWillEnd` says that RefreshLoginToken never waits for something that cannot come.
Assumption: `AccountAssumption`.

`VectorStoreProofs`: WordsArrive speaks about a moment when no write is on the way; while
some are, what counts is the last of them, which is this start's (`LastIsOurs`), because
qdrant applies writes in order. `StartsAreNeverRefused` (with a word to wake up to) has `CreatedOnce`: the program creates the collection
only after it saw that there is none. `StartsGoOn` gives each place in a Load a rank that
falls with every step, or leaves one file less to read, down to the running program, and `UpIsStable` says that it
stays up until a fault. `PointsStay` is about a hazard without a property: no write ever
takes a point away, so the words behind the last configured one stay.
Assumption: `VectorStoreAssumption`.

Checked by TLC only are the liveness properties, because TLAPS does not reason about
fairness and ENABLED here. For most of them what does not need fairness is proved:

| liveness property | proved part | left to TLC |
|---|---|---|
| StartedStateEnds | StartedStatesWillExpire, BlockedOverBlocksAll | that the timer fires and the callback gets the lock |
| QueryIsHandled | NobodyIsStuck, EveryStepCounts | that who can move does |
| ItemsLeave, ExpiredAreCalled | KeptEntriesWillExpire, EntriesOnlyGetOlder | timers and their goroutines run |
| LeftIsRun | NothingIsStranded, RangeComesToItsEnd | the readers go on |
| CancelEndsRefresh | RefreshWillEnd | logins, the loop and the ticker go on |
| ComesUp | StartsAreNeverRefused, StartsGoOn, UpIsStable | a program that is down is started; qdrant writes |

That TimeoutStatus's callback crashes after an Over stays an exception in
StartedStateEnds; CallbacksFindTheMode shows that the one client there is never meets it.

## Not modelled

HTTP, JSON, hashing, signatures and prompts; the text of queries and answers; the growth
of F's stack and of its tickers; the speech service, which answers or fails; the lookup of
device specs and the device list field nobody reads.

Event: three methods around sync.Once that nothing calls; a model would restate sync.Once.
The logger: formatting and output, and an initialisation whose race at worst builds two
equal loggers. The tool registry is written once at start-up, the generator is a program
run by hand, the configuration is read once. None of them has behaviour to check.

How often a file is in the document hub: every start adds all files again, and `hub` is
the set of files that arrived, since nothing in the repository says what a repeated or
failed addition should come to. Points behind the last configured wake-up word stay in
the collection (theorem PointsStay), and no text of the repository forbids them.

The commit does not compile as it stands (main.go:94 ends a selector with a dot); the
model takes the line as the model name it evidently passes.

## What could come next

1. XiaoAi composed with ConversationQueue: F's Fetch as the pop of that module, to state
   that a query made while the mode was on is answered in the mode.
2. The order of the exit prompt and an answer that is still being produced, over that
   composition (a hazard without a property).
