----------------------------- MODULE MCSession -----------------------------
(***************************************************************************)
(* Small instances of Session: which features meet in one behaviour.  The  *)
(* combinations that are left out of a passing instance are those in which *)
(* the bookkeeping goes wrong; the instances below MCCorrect show where.   *)
(***************************************************************************)
EXTENDS Session

\* Without speculation (NRsSeq = 0): every pair that can meet, and the triples of
\* interruption, resumption, /undo and a tool chain that hold.
MCTurns ==
    {{"undo", "tool"}, {"tool", "continue"}, {"undo", "interrupt", "continue"},
     {"undo", "interrupt", "line"}, {"undo", "interrupt", "load"},
     {"tool", "interrupt", "undo"}, {"tool", "interrupt", "line"},
     {"tool", "interrupt", "sim"}, {"tool", "interrupt", "bad"},
     {"tool", "bad", "sim"}}

\* The correction cycle; with NRsSeq > 1 a call may begin inside a verify batch.  Line
\* is so low that the turn that crosses it is the first: its call has no checkpoint
\* before it and the correction gives up.  MCRecut is what happens to a later turn.
MCCorrect ==
    {{"tool", "bad", "line"}, {"tool", "bad", "sim"}, {"tool", "bad", "interrupt"}}

MCUndo == {{"undo", "drafts"}}

MCEjected == {{"tool", "bad", "undo"}}

MCChain == {{"tool", "bad"}}

MCLoaded == {{"load", "tail", "undo"}}

MCRecut == {{"tool", "bad", "line"}}

MCTwice == {{"undo", "interrupt", "line", "load"}}

MCPadded == {{"tool", "bad", "line", "undo"}}
=============================================================================
