--------------------------- MODULE PlainDecoding ---------------------------
(***************************************************************************)
(* What token generation promises, with or without speculation: the        *)
(* committed context only grows, one token at a time, and every token is   *)
(* drawn from the model's distribution for exactly the context before it.  *)
(***************************************************************************)
EXTENDS Sequences

CONSTANTS
    Token,
    Dist(_)    \* the tokens the sampler can draw after a context

VARIABLE committed

TypeOK == committed \in Seq(Token)

Commit == \E t \in Dist(committed) : committed' = Append(committed, t)

Init == committed \in Seq(Token)

Next == Commit

Spec == Init /\ [][Next]_committed
=============================================================================
