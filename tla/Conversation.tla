---------------------------- MODULE Conversation ----------------------------
(***************************************************************************)
(* What a chat session promises about its past: the model's memory is a    *)
(* history that grows at its end, with marks at the ends of earlier turns. *)
(* A turn in progress may be taken back, never further than the last mark; *)
(* everything before a mark stays until the user goes back to an earlier   *)
(* mark, starts afresh, or loads another conversation.                     *)
(***************************************************************************)
EXTENDS Naturals, Sequences

CONSTANT Token

VARIABLES
    history,   \* what the model has read and said
    marks      \* positions of the turns the user can go back to

conversation == <<history, marks>>

TypeOK == history \in Seq(Token) /\ marks \in Seq(Nat)

Upto(n) == SubSeq(history, 1, n)

\* Where the turn in progress began.
TurnStart == IF marks = <<>> THEN 0 ELSE marks[Len(marks)]

Extend ==
    /\ history' \in Seq(Token)
    /\ Len(history') > Len(history) /\ SubSeq(history', 1, Len(history)) = history
    /\ UNCHANGED marks

TakeBack ==
    /\ history' \in Seq(Token)
    /\ Len(history') >= TurnStart
    /\ SubSeq(history', 1, TurnStart) = Upto(TurnStart)
    /\ UNCHANGED marks

Mark ==
    /\ marks' = Append(marks, Len(history))
    /\ UNCHANGED history

\* A turn that was resumed: its mark moves to its new end.
MoveMark ==
    /\ marks # <<>>
    /\ marks' = [marks EXCEPT ![Len(marks)] = Len(history)]
    /\ UNCHANGED history

GoBack(i) ==
    /\ history' = Upto(marks[i])
    /\ marks' = SubSeq(marks, 1, i)

StartAfresh ==
    /\ history' \in Seq(Token)
    /\ marks' = <<>>

Ordered(ms) == \A i, j \in 1..Len(ms) : i < j => ms[i] <= ms[j]

Load ==
    /\ marks = <<>>
    /\ history' \in Seq(Token)
    /\ marks' \in Seq(0..Len(history')) /\ Ordered(marks')

Init == history \in Seq(Token) /\ marks = <<>>

Next ==
    \/ Extend \/ TakeBack \/ Mark \/ MoveMark \/ StartAfresh \/ Load
    \/ \E i \in 1..Len(marks) : GoBack(i)

Spec == Init /\ [][Next]_conversation
-----------------------------------------------------------------------------
\* Every mark is a position of the history, and later marks are not earlier in it:
\* going back to one (GoBack) always gives a true prefix, and keeps the others valid.
MarksInHistory ==
    /\ \A i \in 1..Len(marks) : marks[i] <= Len(history)
    /\ Ordered(marks)

\* What came before the last mark is never rewritten while that mark stands.
PastKept ==
    marks # <<>> /\ Len(marks') >= Len(marks) =>
        SubSeq(history', 1, TurnStart) = Upto(TurnStart)
=============================================================================
