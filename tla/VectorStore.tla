----------------------------- MODULE VectorStore -----------------------------
(***************************************************************************)
(* The start of the program (main.go:41-46) and the two vector stores it   *)
(* loads, document_loader.go and wakeup_loader.go.  The process may die at *)
(* any moment, is started again, and may have been configured differently  *)
(* in between; the collections are in qdrant and survive.                  *)
(*                                                                         *)
(* qdrant and the embedding model are external: a call succeeds or fails,  *)
(* and a write that is not waited for is applied some time later, in the   *)
(* order of the writes, whether or not the process still lives.  The       *)
(* vector of a text is the text; the chunks of a file are the file.        *)
(***************************************************************************)
EXTENDS Naturals, Sequences

CONSTANTS
    Words,       \* what config.Ai.WakeUpKeyWords may list
    MaxWords,    \* how many it lists at most (bound)
    NoWord,      \* of an id without a point
    Files,       \* what the folder config.Ai.KnowledgeHub may hold
    Supported,   \* the files with an extension that has a loader
    MaxAccepted  \* the writes qdrant has not applied yet (bound)

ASSUME VectorStoreAssumption ==
    /\ {MaxWords, MaxAccepted} \subseteq Nat
    /\ NoWord \notin Words
    /\ Supported \subseteq Files

VARIABLES
    words, files,  \* what is configured
    pc,            \* where main is
    todo,          \* the files loadDocument has still to read
    hub,           \* the files in KnowledgeHubCollection
    exists,        \* wakeupConnection exists
    points,        \* its points, by id
    accepted       \* writes to it that are accepted and not yet applied

configVars == <<words, files>>
qdrantVars == <<hub, exists, points, accepted>>
vars == <<configVars, pc, todo, qdrantVars>>

Ids == 1..MaxWords

Lists == {ws \in Seq(Words) : Len(ws) \in 0..MaxWords}

TypeOK ==
    /\ words \in Lists
    /\ files \subseteq Files
    /\ pc \in {"down", "failed", "hub", "documents", "list", "create", "embed", "upsert", "running"}
    /\ todo \subseteq Files
    /\ hub \subseteq Supported
    /\ exists \in BOOLEAN
    /\ points \in [Ids -> Words \cup {NoWord}]
    /\ accepted \in Seq(Lists)
    /\ ~exists => accepted = <<>> /\ points = [i \in Ids |-> NoWord]

WordLists == UNION {[1..n -> Words] : n \in 0..MaxWords}

Init ==
    /\ words \in WordLists /\ files \in SUBSET Files
    /\ pc = "down" /\ todo = {}
    /\ hub = {} /\ exists = FALSE
    /\ points = [i \in Ids |-> NoWord]
    /\ accepted = <<>>

-----------------------------------------------------------------------------
Goto(from, to) == pc = from /\ pc' = to

(* Somebody edits config.yaml or the folder. *)
Configure ==
    /\ pc \in {"down", "failed"} /\ pc' = "down"
    /\ words' \in WordLists /\ files' \in SUBSET Files
    /\ UNCHANGED <<todo, qdrantVars>>

Start ==
    /\ pc \in {"down", "failed"} /\ pc' = "hub"
    /\ UNCHANGED <<configVars, todo, qdrantVars>>

(* log.Fatal, an error that main makes fatal, a panic, or the plug: every   *)
(* call below can fail this way, before or after it had its effect.         *)
Die ==
    /\ pc \notin {"down", "failed"} /\ pc' = "down"
    /\ UNCHANGED <<configVars, todo, qdrantVars>>

(* loadDocument: the collection is put; that it exists already is a status  *)
(* that is only logged.  Then the folder is read.                           *)
PutCollection ==
    /\ Goto("hub", "documents")
    /\ todo' = files
    /\ UNCHANGED <<configVars, qdrantVars>>

(* A file is loaded, split and added, or has no loader and is skipped.  The *)
(* result of adding is ignored: it may have failed.  Mutant: the default    *)
(* branch takes a loader as well, and any file is added.                    *)
MutAdded(f) == {hub \cup {f}}
Added(f)    == IF f \in Supported THEN {hub, hub \cup {f}} ELSE {hub}

AddDocuments(f) ==
    /\ pc = "documents" /\ f \in todo
    /\ todo' = todo \ {f}
    /\ hub' \in Added(f)
    /\ UNCHANGED <<configVars, pc, exists, points, accepted>>

HubLoaded ==
    /\ todo = {}
    /\ Goto("documents", "list")
    /\ UNCHANGED <<configVars, todo, qdrantVars>>

(* WakeUp.Load creates its collection unless it is listed.  Mutants: it is  *)
(* created in any case; only a new collection is filled.                    *)
MutIgnored == "create"
MutFilled  == IF exists THEN "running" ELSE "create"
Listed     == IF exists THEN "embed" ELSE "create"

ListCollections ==
    /\ Goto("list", Listed)
    /\ UNCHANGED <<configVars, todo, qdrantVars>>

(* Creating it twice is an error, and fatal, though nothing broke down. *)
CreateCollection ==
    /\ Goto("create", IF exists THEN "failed" ELSE "embed")
    /\ exists' = TRUE
    /\ UNCHANGED <<configVars, todo, hub, points, accepted>>

(* There is no embedding of nothing, so an empty list is fatal. *)
CreateEmbedding ==
    /\ Goto("embed", IF words = <<>> THEN "failed" ELSE "upsert")
    /\ UNCHANGED <<configVars, todo, qdrantVars>>

(* Wait is new(bool), false: Upsert returns when the write is accepted. *)
Upsert ==
    /\ Len(accepted) < MaxAccepted
    /\ Goto("upsert", "running")
    /\ accepted' = Append(accepted, words)
    /\ UNCHANGED <<configVars, todo, hub, exists, points>>

(* It is accepted, but the process does not live to know. *)
UpsertDies ==
    /\ Len(accepted) < MaxAccepted
    /\ Goto("upsert", "down")
    /\ accepted' = Append(accepted, words)
    /\ UNCHANGED <<configVars, todo, hub, exists, points>>

(***************************************************************************)
(* qdrant applies a write: word k gets id k (k + 1 in the code, which      *)
(* counts from 0), the points behind the last word stay what they were.    *)
(***************************************************************************)
Upserted(ws) ==
    [i \in Ids |-> IF i <= Len(ws) THEN ws[i] ELSE points[i]]

Apply ==
    /\ accepted # <<>>
    /\ points' = Upserted(Head(accepted))
    /\ accepted' = Tail(accepted)
    /\ UNCHANGED <<configVars, pc, todo, hub, exists>>

-----------------------------------------------------------------------------
Load ==
    \/ PutCollection \/ HubLoaded \/ ListCollections \/ CreateCollection
    \/ CreateEmbedding \/ Upsert
    \/ \E f \in Files : AddDocuments(f)

Fault == Die \/ UpsertDies

Next == Configure \/ Start \/ Load \/ Apply \/ Fault

(* A program that is down is started, one that starts goes on, qdrant       *)
(* applies what it has accepted.                                            *)
Fairness == WF_vars(Start) /\ WF_vars(Load) /\ WF_vars(Apply)

Spec == Init /\ [][Next]_vars
FairSpec == Spec /\ Fairness

-----------------------------------------------------------------------------
WordsThere == \A i \in DOMAIN words : points[i] = words[i]

(***************************************************************************)
(* While the program runs and no write is on the way, every configured     *)
(* wake-up word is in the collection, whatever was configured before, and  *)
(* wherever earlier starts died.                                           *)
(***************************************************************************)
WordsArrive == pc = "running" /\ accepted = <<>> => WordsThere

(***************************************************************************)
(* No start fails when nothing broke down and a word is configured:        *)
(* wherever earlier ones died, the collection is created by the first      *)
(* start that finds it missing, and by no other.                           *)
(***************************************************************************)
NeverRefused == pc = "failed" => words = <<>>

(***************************************************************************)
(* A start that died half-way does not get in the way of the next one: as  *)
(* soon as nothing fails any more and there is a word to wake up to, the   *)
(* program comes up, stays up, and knows its words.                        *)
(***************************************************************************)
ComesUp ==
    <>[][~Fault]_vars /\ <>[](words # <<>>) => <>[](pc = "running" /\ WordsThere)
=============================================================================
