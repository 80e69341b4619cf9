------------------------------- MODULE Dialogue -------------------------------
(***************************************************************************)
(* What the conversation loop of mi/fsm/fsm.go and main.go is for: one     *)
(* question at a time is asked, one answer to it is worked out, in any     *)
(* number of parts, and all of that answer is said.                        *)
(***************************************************************************)
EXTENDS Naturals, Sequences

CONSTANTS
    Questions,
    MaxParts     \* the longest answer (bound)

VARIABLES
    asked,       \* the question that is open, if any
    told,        \* the answer to it, when there is one
    said         \* what was said last

vars == <<asked, told, said>>

Answers(q) == {[i \in 1..n |-> <<q, i>>] : n \in 0..MaxParts}

TypeOK ==
    /\ asked \in {<<>>} \cup {<<q>> : q \in Questions}
    /\ told \in {<<>>} \cup UNION {{<<a>> : a \in Answers(q)} : q \in Questions}
    /\ said \in {<<>>} \cup UNION {Answers(q) : q \in Questions}

Init == asked = <<>> /\ told = <<>> /\ said = <<>>

Ask(q) ==
    /\ asked = <<>>
    /\ asked' = <<q>>
    /\ UNCHANGED <<told, said>>

Tell ==
    /\ asked # <<>> /\ told = <<>>
    /\ \E a \in Answers(Head(asked)) : told' = <<a>>
    /\ UNCHANGED <<asked, said>>

Say ==
    /\ told # <<>>
    /\ said' = Head(told)
    /\ asked' = <<>> /\ told' = <<>>

Next == (\E q \in Questions : Ask(q)) \/ Tell \/ Say

Spec == Init /\ [][Next]_vars
=============================================================================
