-------------------------- MODULE VectorStoreProofs --------------------------
(***************************************************************************)
(* For any wake-up words and files, any number of starts and deaths and    *)
(* any number of writes that qdrant has accepted and not applied.          *)
(*                                                                         *)
(* That the words are there once the writes have been applied is not       *)
(* inductive: what counts while writes are on the way is the LAST of them, *)
(* which must be the one of the start that is running now (LastIsOurs).    *)
(***************************************************************************)
EXTENDS VectorStore, TLAPS

LastIsOurs ==
    pc = "running" =>
        IF accepted = <<>> THEN WordsThere ELSE accepted[Len(accepted)] = words

(* Who writes has found or made the collection. *)
CollectionIsThere == pc \in {"embed", "upsert", "running"} => exists

(* Who is about to create the collection has found that it is missing, and  *)
(* nobody else has created it since: there is one process.                  *)
CreatedOnce == NeverRefused /\ (pc = "create" => ~exists)

IInv == TypeOK /\ CollectionIsThere /\ CreatedOnce /\ LastIsOurs

-----------------------------------------------------------------------------
(* The lists one may configure are lists of words. *)
LEMMA WordListsAreLists == WordLists \subseteq Lists
<1> SUFFICES ASSUME NEW n \in 0..MaxWords, NEW ws \in [1..n -> Words]
             PROVE  ws \in Seq(Words) /\ Len(ws) \in 0..MaxWords
  BY DEF WordLists, Lists
<1>1. n \in Nat
  BY VectorStoreAssumption
<1>2. ws \in Seq(Words) /\ Len(ws) = n
  BY <1>1
<1> QED
  BY <1>2

LEMMA InitIInv == Init => IInv
<1> SUFFICES ASSUME Init PROVE IInv
  OBVIOUS
<1>1. points \in [Ids -> Words \cup {NoWord}]
  BY DEF Init
<1>2. words \in Lists /\ files \subseteq Files /\ accepted \in Seq(Lists)
  BY WordListsAreLists DEF Init
<1>3. TypeOK
  BY <1>1, <1>2 DEF Init, TypeOK
<1> QED
  BY <1>3 DEF Init, IInv, LastIsOurs, CollectionIsThere, CreatedOnce, NeverRefused

(* A write fills the first ids and leaves the others. *)
LEMMA UpsertedIsTyped ==
    ASSUME TypeOK, NEW ws \in Lists
    PROVE  Upserted(ws) \in [Ids -> Words \cup {NoWord}]
<1>1. \A i \in Ids : i <= Len(ws) => ws[i] \in Words
  BY VectorStoreAssumption DEF Ids, Lists
<1> QED
  BY <1>1 DEF Upserted, TypeOK

(* What writes do to the queue of writes. *)
LEMMA Writes ==
    ASSUME NEW S, NEW q \in Seq(S)
    PROVE  /\ \A x \in S : /\ Append(q, x) \in Seq(S) /\ Append(q, x) # <<>>
                           /\ Append(q, x)[Len(Append(q, x))] = x
           /\ q # <<>> =>
                /\ Head(q) \in S /\ Tail(q) \in Seq(S)
                /\ Tail(q) # <<>> => Tail(q)[Len(Tail(q))] = q[Len(q)]
                /\ Tail(q) = <<>> => q[Len(q)] = Head(q)
OBVIOUS

(* It is another program or another configuration only while it is down;    *)
(* it is running again only after a write of its own.                       *)
LEMMA NextKeepsIInv ==
    ASSUME IInv, [Next]_vars
    PROVE  IInv'
<1> USE DEF IInv, configVars, qdrantVars, Goto, CollectionIsThere, CreatedOnce, NeverRefused
<1>1. CASE Configure
  <2>1. words' \in Lists /\ files' \subseteq Files
    BY <1>1, WordListsAreLists DEF Configure
  <2> QED
    BY <1>1, <2>1 DEF Configure, TypeOK, LastIsOurs
<1>2. CASE Start \/ Die
  BY <1>2 DEF Start, Die, TypeOK, LastIsOurs
<1>3. CASE PutCollection \/ HubLoaded \/ ListCollections \/ CreateEmbedding
  BY <1>3 DEF PutCollection, HubLoaded, ListCollections, Listed, CreateEmbedding,
              TypeOK, LastIsOurs
<1>4. ASSUME NEW f \in Files, AddDocuments(f) PROVE IInv'
  <2>1. hub' \subseteq Supported
    BY <1>4 DEF AddDocuments, Added, TypeOK
  <2> QED
    BY <1>4, <2>1 DEF AddDocuments, TypeOK, LastIsOurs
<1>5. CASE CreateCollection
  BY <1>5 DEF CreateCollection, TypeOK, LastIsOurs
<1>6. CASE Upsert \/ UpsertDies
  <2>1. /\ exists /\ accepted' = Append(accepted, words)
        /\ UNCHANGED <<words, files, todo, hub, exists, points>>
        /\ pc' \in {"running", "down"}
    BY <1>6 DEF Upsert, UpsertDies
  <2>2. /\ accepted' \in Seq(Lists) /\ accepted' # <<>>
        /\ accepted'[Len(accepted')] = words
    BY <2>1, Writes DEF TypeOK
  <2>3. TypeOK'
    BY <2>1, <2>2 DEF TypeOK
  <2>4. LastIsOurs'
    BY <2>1, <2>2 DEF LastIsOurs
  <2> QED
    BY <2>1, <2>3, <2>4
<1>7. CASE Apply
  <2>1. /\ accepted # <<>> /\ accepted' = Tail(accepted)
        /\ points' = Upserted(Head(accepted))
        /\ UNCHANGED <<words, files, pc, todo, hub, exists>>
    BY <1>7 DEF Apply
  <2>2. Head(accepted) \in Lists /\ accepted' \in Seq(Lists)
    BY <2>1, Writes DEF TypeOK
  <2>3. TypeOK'
    BY <2>1, <2>2, UpsertedIsTyped DEF TypeOK
  <2>4. ASSUME pc = "running", accepted' # <<>> PROVE accepted'[Len(accepted')] = words'
    BY <2>1, <2>4, Writes DEF TypeOK, LastIsOurs
  <2>5. ASSUME pc = "running", accepted' = <<>> PROVE WordsThere'
    <3>1. Head(accepted) = words
      BY <2>1, <2>5, Writes DEF TypeOK, LastIsOurs
    <3>2. ASSUME NEW i \in DOMAIN words PROVE Upserted(words)[i] = words[i]
      BY <3>2, VectorStoreAssumption DEF TypeOK, Upserted, Ids, Lists
    <3> QED
      BY <2>1, <3>1, <3>2 DEF WordsThere
  <2>6. LastIsOurs'
    BY <2>1, <2>4, <2>5 DEF LastIsOurs
  <2> QED
    BY <2>1, <2>3, <2>6
<1>8. CASE UNCHANGED vars
  BY <1>8 DEF vars, TypeOK, LastIsOurs, WordsThere
<1> QED
  BY <1>1, <1>2, <1>3, <1>4, <1>5, <1>6, <1>7, <1>8 DEF Next, Load, Fault

LEMMA AlwaysIInv == Spec => []IInv
BY InitIInv, NextKeepsIInv, PTL DEF Spec

-----------------------------------------------------------------------------
(* Types, for any number of restarts: the hub only ever has files with a    *)
(* loader, and a collection that was not made has neither points nor writes.*)
THEOREM TypeCorrect == Spec => []TypeOK
BY AlwaysIInv, PTL DEF IInv

(* A program that runs, with all writes applied, has every configured word. *)
THEOREM WakeUpWordsArrive == Spec => []WordsArrive
<1>1. IInv => WordsArrive
  BY DEF IInv, LastIsOurs, WordsArrive
<1> QED
  BY <1>1, AlwaysIInv, PTL

(* No start with a word fails because of what an earlier one left: the     *)
(* collection is created once, however often the program died on the way.  *)
THEOREM StartsAreNeverRefused == Spec => []NeverRefused
<1>1. IInv => NeverRefused
  BY DEF IInv, CreatedOnce
<1> QED
  BY <1>1, AlwaysIInv, PTL

-----------------------------------------------------------------------------
(* How far a start still has to go. *)
StartLeft ==
    CASE pc = "hub"       -> 6
      [] pc = "documents" -> 5
      [] pc = "list"      -> 4
      [] pc = "create"    -> 3
      [] pc = "embed"     -> 2
      [] pc = "upsert"    -> 1
      [] OTHER            -> 0

(* Every step of a start brings it nearer to its end, or has one file less  *)
(* to read on the way; and when there is nothing left the program runs, if  *)
(* it has a word to wake up to.                                             *)
THEOREM StartsGoOn ==
    Spec => [][Load => /\ \/ StartLeft' < StartLeft
                          \/ pc' = pc /\ todo' \subseteq todo /\ todo' # todo
                       /\ StartLeft' = 0 => pc' = "running" \/ words = <<>>]_vars
<1> DEFINE Onward == Load => /\ \/ StartLeft' < StartLeft
                                \/ pc' = pc /\ todo' \subseteq todo /\ todo' # todo
                             /\ StartLeft' = 0 => pc' = "running" \/ words = <<>>
<1>1. ASSUME IInv, Load
      PROVE  /\ \/ StartLeft' < StartLeft
                \/ pc' = pc /\ todo' \subseteq todo /\ todo' # todo
             /\ StartLeft' = 0 => pc' = "running" \/ words = <<>>
  <2> USE DEF Goto, StartLeft
  <2>1. ASSUME NEW f \in Files, AddDocuments(f)
        PROVE  /\ pc' = pc /\ todo' \subseteq todo /\ todo' # todo
               /\ StartLeft' # 0
    BY <2>1 DEF AddDocuments
  <2>2. CASE PutCollection \/ HubLoaded \/ ListCollections \/ CreateEmbedding \/ Upsert
    BY <2>2 DEF PutCollection, HubLoaded, ListCollections, Listed, CreateEmbedding, Upsert
  <2>3. CASE CreateCollection
    BY <1>1, <2>3 DEF CreateCollection, IInv, CreatedOnce
  <2> QED
    BY <1>1, <2>1, <2>2, <2>3 DEF Load
<1>2. IInv => [Onward]_vars
  BY <1>1
<1> QED
  BY <1>2, AlwaysIInv, PTL DEF Spec

(* A program that has come up with all writes applied stays so until it     *)
(* fails: no write of an earlier start is still to be applied, and there is *)
(* nobody to accept another.                                                *)
Up == pc = "running" /\ accepted = <<>>

THEOREM UpIsStable == Spec => [][Up /\ ~Fault => Up' /\ WordsThere']_vars
<1> DEFINE Stays == Up /\ ~Fault => Up' /\ WordsThere'
<1>1. ASSUME IInv, IInv', Next, Up, ~Fault PROVE Up' /\ WordsThere'
  <2>1. Up'
    BY <1>1 DEF Up, Next, Configure, Start, Load, PutCollection, HubLoaded, ListCollections,
                CreateCollection, CreateEmbedding, Upsert, AddDocuments, Apply, Goto
  <2> QED
    BY <1>1, <2>1 DEF Up, IInv, LastIsOurs
<1>2. IInv /\ [Next]_vars => [Stays]_vars
  BY <1>1, NextKeepsIInv
<1> QED
  BY <1>2, AlwaysIInv, PTL DEF Spec

(* A word is never taken out of the collection: a later one may replace it, *)
(* but the place it had is never empty again.  So behind the last word that *)
(* is configured, words that no longer are stay and wake the AI.            *)
THEOREM PointsStay ==
    Spec => [][\A i \in Ids : points[i] # NoWord =>
                   /\ points'[i] # NoWord
                   /\ i > Len(words) /\ accepted = <<words>> => points'[i] = points[i]]_vars
<1> DEFINE Stay == \A i \in Ids : points[i] # NoWord =>
                       /\ points'[i] # NoWord
                       /\ i > Len(words) /\ accepted = <<words>> => points'[i] = points[i]
<1>1. ASSUME IInv, [Next]_vars PROVE Stay
  <2>1. CASE Apply
    <3>1. accepted # <<>> /\ Head(accepted) \in Lists /\ points' = Upserted(Head(accepted))
      BY <1>1, <2>1, Writes DEF Apply, IInv, TypeOK
    <3> SUFFICES ASSUME NEW i \in Ids, points[i] # NoWord
                 PROVE  /\ points'[i] # NoWord
                        /\ i > Len(words) /\ accepted = <<words>> => points'[i] = points[i]
      OBVIOUS
    <3>2. \A ws \in Lists : /\ i <= Len(ws) => ws[i] \in Words
                            /\ Len(ws) \in Nat
      BY VectorStoreAssumption DEF Ids, Lists
    <3>3. points'[i] = IF i <= Len(Head(accepted)) THEN Head(accepted)[i] ELSE points[i]
      BY <3>1 DEF Upserted
    <3>4. i \in Nat /\ words \in Lists
      BY <1>1, VectorStoreAssumption DEF Ids, IInv, TypeOK
    <3>5. accepted = <<words>> => Head(accepted) = words
      OBVIOUS
    <3>6. i > Len(words) => ~(i <= Len(words))
      BY <3>2, <3>4
    <3> QED
      BY <3>1, <3>2, <3>3, <3>5, <3>6, VectorStoreAssumption
  <2>2. CASE UNCHANGED points
    BY <2>2
  <2>3. Apply \/ UNCHANGED points
    BY <1>1 DEF Next, vars, qdrantVars, Configure, Start, Load, Fault, Die, UpsertDies,
                PutCollection, HubLoaded, ListCollections, CreateCollection, CreateEmbedding,
                Upsert, AddDocuments
  <2> QED
    BY <2>1, <2>2, <2>3
<1>2. IInv /\ [Next]_vars => [Stay]_vars
  BY <1>1
<1> QED
  BY <1>2, AlwaysIInv, PTL DEF Spec
=============================================================================
