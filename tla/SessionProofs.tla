--------------------------- MODULE SessionProofs ---------------------------
(***************************************************************************)
(* Theorems about the turn loop, for every context size, 90% line, cap of  *)
(* the tool chain, number of prompts and set of scenarios that the named   *)
(* hypotheses allow.                                                       *)
(***************************************************************************)
EXTENDS Session, RsMemoryProofs, FiniteSetTheorems,
        WellFoundedInduction

\* Context and checkpoints agree although a correction takes back text behind a
\* checkpoint, unless /undo can then go to one of the checkpoints left behind:
\* a call cut at the 90% line, or resumed by /continue, has a checkpoint in it.
NoOrphans ==
    \A s \in Scenarios : ~({"bad", "undo"} \subseteq s /\ s \cap {"line", "continue"} # {})

-----------------------------------------------------------------------------
\* The invariant behind Lockstep, part by part.

Slot == [idx : Int, saved : BOOLEAN, has : BOOLEAN, target : Nat]

Flag == [auto : BOOLEAN, interrupted : BOOLEAN, toolPending : BOOLEAN,
         firstDone : BOOLEAN, attempted : BOOLEAN, selfFix : BOOLEAN,
         input : BOOLEAN, depth : Int]

Gen == [call : BOOLEAN, correcting : BOOLEAN, result : Results]

Labels ==
    /\ cps \in Seq(Nat) /\ offset \in Nat /\ provisional \in Int
    /\ slot \in Slot /\ flag \in Flag /\ gen \in Gen /\ features \in Scenarios

Correcting == pc \in {"repair", "correct", "corrected"} \/ (pc = "gen" /\ gen.correcting)

Injecting == pc \in {"injectFast", "injectAnchor"}

\* What the latches say about the generation they outlive.
Latches ==
    /\ flag.toolPending => gen.result \in {"interrupted", "limit", "early"}
    /\ pc \in {"correct", "repair"} => gen.result \in {"call", "stuck"}
    /\ Injecting \/ (pc = "tool" /\ gen.correcting) => gen.result = "call"
    /\ pc = "corrected" \/ Injecting => gen.correcting
    /\ "bad" \notin features =>
         ~Correcting /\ ~Injecting /\ ~gen.correcting /\ gen.result # "stuck"
    /\ "line" \notin features => gen.result # "limit"
    /\ features \cap {"line", "continue"} = {} /\ (pc = "start" \/ flag.auto)
         => ~flag.toolPending
    /\ provisional >= 0 => provisional = Len(cps) - 1
    /\ flag.input => provisional < 0

\* No checkpoint can come to lie behind the context in these scenarios.
MarksKept == "bad" \notin features \/ features \cap {"line", "continue"} = {}

MarksOrdered ==
    /\ \A i \in 1..Len(cps) : cps[i] <= Len(tracker)
    /\ \A i, j \in 1..Len(cps) : i <= j => cps[i] <= cps[j]

\* A call of this generation is open or is being corrected.
TargetUsed ==
    \/ Correcting
    \/ pc = "gen" /\ gen.call
    \/ pc = "tool" /\ ~gen.correcting /\ gen.result \in {"call", "stuck"}

\* The checkpoints are those of earlier turns: before the call.
BeforeCall ==
    "bad" \in features /\ TargetUsed =>
        slot.target <= Len(tracker) /\ \A i \in 1..Len(cps) : cps[i] <= slot.target

Marks == MarksKept => MarksOrdered /\ BeforeCall

Context == Shape(mem) /\ Lockstep

LockInv == Context /\ Labels /\ Latches /\ Marks

-----------------------------------------------------------------------------
\* The helpers.

\* std::vector::resize to a shorter length cuts.
LEMMA ResizedPrefix ==
  ASSUME NEW S, NEW s \in Seq(S), NEW n \in 0..Len(s)
  PROVE  Resized(s, n) = Prefix(s, n)
  BY DEF Resized, Prefix

\* Cutting a prefix to a shorter one.
LEMMA PrefixOfPrefix ==
  ASSUME NEW S, NEW s \in Seq(S), NEW n \in 0..Len(s), NEW k \in 0..n
  PROVE  Prefix(Prefix(s, n), k) = Prefix(s, k)
  BY SubSeqOfSubSeq DEF Prefix

\* A decode, or none, keeps the shape and adds to the cells.
LEMMA DecodedShape ==
  ASSUME NEW m, Shape(m), NEW toks \in Seq(Token)
  PROVE  Shape(Decoded(m, toks)) /\ Decoded(m, toks).kv = m.kv \o toks
  <1>1. m.kv \o <<>> = m.kv
    BY ConcatEmptySeq DEF Shape
  <1> QED
    BY <1>1, DecodeShape DEF Decoded

\* Every block of tokens the session feeds.
LEMMA Blocks ==
  /\ UserTurn \in Seq(Token) /\ ToolTurn \in Seq(Token)
  /\ SystemPrompt \in Seq(Token) /\ SystemPrompt = <<"sys">>
  /\ Repair \in Seq(Token) /\ <<"asst">> \in Seq(Token)
  /\ <<"abort">> \in Seq(Token) /\ <<"body">> \in Seq(Token)
  /\ Saved.tokens \in Seq(Token) /\ Saved.cps = <<3, 5>> /\ Len(Saved.tokens) = 5
  /\ <<>> \in Seq(Token) /\ <<"user">> \in Seq(Token)
  /\ {"word", "func", "eog", "body", "sys", "user"} \subseteq Token
  <1>1. Token = Kinds
    BY SessionAssumption
  <1>2. <<"close">> \in Seq(Token) /\ <<"user">> \in Seq(Token) /\ <<>> \in Seq(Token)
    BY <1>1 DEF Kinds
  <1>3. UserTurn \in Seq(Token)
    BY <1>2, ConcatProperties DEF UserTurn
  <1>4. /\ ToolTurn \in Seq(Token) /\ SystemPrompt \in Seq(Token) /\ Repair \in Seq(Token)
        /\ <<"asst">> \in Seq(Token) /\ <<"abort">> \in Seq(Token)
        /\ <<"body">> \in Seq(Token)
    BY <1>1 DEF Kinds, ToolTurn, SystemPrompt, Repair
  <1>5. Saved.tokens \in Seq(Token) /\ Saved.cps = <<3, 5>> /\ Len(Saved.tokens) = 5
    BY <1>1 DEF Kinds, Saved
  <1> QED
    BY <1>1, <1>2, <1>3, <1>4, <1>5 DEF Kinds, SystemPrompt

\* A slot that is closed is still a slot.
LEMMA ClosedSlot ==
  ASSUME NEW s \in Slot
  PROVE  /\ [s EXCEPT !.idx = -1, !.saved = FALSE] \in Slot
         /\ [s EXCEPT !.saved = FALSE] \in Slot
  <1>1. \A i \in Int : [s EXCEPT !.idx = i, !.saved = FALSE] \in Slot
    BY DEF Slot
  <1>2. -1 \in Int
    OBVIOUS
  <1>3. [s EXCEPT !.saved = FALSE] \in Slot
    BY DEF Slot
  <1> QED
    BY <1>1, <1>2, <1>3

\* What the reset of the two correction latches leaves alone.
LEMMA LatchedFlag ==
  ASSUME NEW f \in Flag
  PROVE  /\ Latched(f) \in Flag
         /\ Latched(f).auto = f.auto /\ Latched(f).input = f.input
         /\ Latched(f).toolPending = f.toolPending
  BY DEF Flag, Latched

\* A correction that is given up ends the automatic chain, and changes no input latch.
LEMMA EjectFlag ==
  ASSUME flag \in Flag, Eject
  PROVE  /\ flag' \in Flag /\ ~flag'.auto /\ flag'.input = flag.input
         /\ flag'.toolPending = flag.toolPending
  <1> DEFINE g == Latched(flag)
  <1>1. g \in Flag /\ g.input = flag.input /\ g.toolPending = flag.toolPending
    BY LatchedFlag
  <1> HIDE DEF g
  <1>2. flag' = [g EXCEPT !.auto = FALSE]
    BY DEF Eject, g
  <1> QED
    BY <1>1, <1>2 DEF Flag

\* The latches after reset_session_state.
LEMMA ResetFlag ==
  ASSUME NEW f \in Flag
  PROVE  /\ ResetFlags(f) \in Flag
         /\ ~ResetFlags(f).auto /\ ResetFlags(f).input = f.input
         /\ ~ResetFlags(f).toolPending
  <1> DEFINE g == Latched(f)
  <1>1. g \in Flag /\ g.input = f.input
    BY LatchedFlag
  <1> HIDE DEF g
  <1>2. ResetFlags(f) = [g EXCEPT !.auto = FALSE, !.interrupted = FALSE,
                                  !.toolPending = FALSE, !.firstDone = TRUE]
    BY DEF ResetFlags, g
  <1> QED
    BY <1>1, <1>2 DEF Flag

\* Nat ordered by <.
LEMMA LeastNat ==
  ASSUME NEW T, T \subseteq Nat, T # {}
  PROVE \E x \in T : \A y \in T : x <= y
  <1> DEFINE R == OpToRel(<, Nat)
  <1>1. IsWellFoundedOn(R, Nat)
    BY NatLessThanWellFounded
  <1>3. \A x, y \in Nat : <<y, x>> \in R <=> y < x
    BY DEF OpToRel
  <1> HIDE DEF R
  <1>2. PICK x \in T : \A y \in T : ~(<<y, x>> \in R)
     BY <1>1, WFMin
  <1>4. x \in Nat /\ \A y \in T : y \in Nat OBVIOUS
  <1>5. ASSUME NEW y \in T PROVE x <= y
    <2>1. y \in Nat /\ ~(y < x) BY <1>2, <1>3, <1>4
    <2> QED BY <2>1, <1>4
  <1> QED BY <1>5

\* A bounded set of naturals that is not empty has its greatest member.
LEMMA MaxIn ==
  ASSUME NEW S, S \subseteq Nat, NEW b \in Nat, S # {}, \A x \in S : x <= b
  PROVE Max(S) \in S /\ \A y \in S : Max(S) >= y
  <1> DEFINE T == {b - x : x \in S}
  <1>1. PICK z \in T : \A y \in T : z <= y
    <2>1. \A x \in S : b - x \in Nat OBVIOUS
    <2>2. T \subseteq Nat BY <2>1
    <2>3. T # {} OBVIOUS
    <2> HIDE DEF T
    <2> QED BY <2>2, <2>3, LeastNat
  <1>2. PICK x \in S : z = b - x OBVIOUS
  <1>3. \A y \in S : x >= y
    <2> TAKE y \in S
    <2>1. b - x <= b - y BY <1>1, <1>2
    <2>2. x \in Nat /\ y \in Nat OBVIOUS
    <2> QED BY <2>1, <2>2
  <1>4. \E w \in S : \A y \in S : w >= y BY <1>3
  <1> QED BY <1>4 DEF Max

\* Of two integers, one is the least and one the greatest.
LEMMA OfTwo ==
  ASSUME NEW a \in Int, NEW b \in Int
  PROVE  /\ Min({a, b}) = IF a <= b THEN a ELSE b
         /\ Max({a, b}) = IF a >= b THEN a ELSE b
  BY DEF Min, Max

\* A feed decodes part of its block.
LEMMA FatesRange ==
  ASSUME NEW toks \in Seq(Token), NEW n \in Fates(toks)
  PROVE  n \in 0..Len(toks)
  BY DEF Fates

\* A feed onto a level context leaves it level, n tokens longer.
LEMMA FedLevel ==
  ASSUME NEW m, Shape(m), NEW base, base = m.kv, NEW toks \in Seq(Token),
         NEW n \in 0..Len(toks), Fed(m, base, toks, n)
  PROVE  /\ Context' /\ tracker' = base \o Prefix(toks, n)
         /\ Len(tracker') = Len(base) + n /\ tracker' \in Seq(Token)
         /\ mem' = Decoded(m, Prefix(toks, n))
  <1>1. Prefix(toks, n) \in Seq(Token) /\ Len(Prefix(toks, n)) = n
    BY PrefixType
  <1>2. /\ mem' = Decoded(m, Prefix(toks, n)) /\ npast' = Len(mem'.kv)
        /\ tracker' = base \o Prefix(toks, npast' - Len(m.kv))
    BY DEF Fed
  <1>3. Shape(mem') /\ mem'.kv = m.kv \o Prefix(toks, n)
    BY <1>1, <1>2, DecodedShape
  <1>4. m.kv \in Seq(Token)
    BY DEF Shape
  <1>5. /\ Len(m.kv \o Prefix(toks, n)) = Len(m.kv) + n
        /\ m.kv \o Prefix(toks, n) \in Seq(Token)
    BY <1>1, <1>4, ConcatProperties, ZenonT(30)
  <1>6. npast' - Len(m.kv) = n
    BY <1>2, <1>3, <1>4, <1>5
  <1> QED
    BY <1>2, <1>3, <1>5, <1>6 DEF Context, Lockstep
-----------------------------------------------------------------------------
\* A step that keeps the checkpoints and only adds to the context.

\* Checkpoints that lie in the context lie in a longer one.
LEMMA MarksGrow ==
  ASSUME LockInv, cps' = cps, features' = features,
         Len(tracker') \in Nat, Len(tracker') >= Len(tracker),
         "bad" \in features /\ MarksKept /\ TargetUsed' =>
           TargetUsed /\ slot'.target = slot.target
  PROVE  Marks'
  <1>1. Len(tracker) \in Nat /\ cps \in Seq(Nat) /\ slot.target \in Nat
    BY DEF LockInv, Context, Lockstep, Shape, Labels, Slot
  <1>2. \A i \in 1..Len(cps) : cps[i] \in Nat
    BY <1>1
  <1>3. ASSUME MarksKept'
        PROVE  MarksOrdered' /\ BeforeCall'
    <2>1. MarksOrdered /\ BeforeCall
      BY <1>3 DEF MarksKept, LockInv, Marks
    <2>2. MarksOrdered'
      BY <1>1, <1>2, <2>1 DEF MarksOrdered
    <2>3. BeforeCall'
      BY <1>1, <1>2, <1>3, <2>1 DEF BeforeCall, MarksKept
    <2> QED
      BY <2>2, <2>3
  <1> QED
    BY <1>3 DEF Marks

\* The context after a feed that was not cut below nothing, and after none.
LEMMA ContextFed ==
  ASSUME LockInv, NEW toks \in Seq(Token), NEW n \in Fates(toks),
         Fed(mem, tracker, toks, n)
  PROVE  Context' /\ Len(tracker') \in Nat /\ Len(tracker') >= Len(tracker)
  <1>1. n \in 0..Len(toks)
    BY FatesRange
  <1>2. Shape(mem) /\ tracker = mem.kv /\ Len(tracker) \in Nat
    BY DEF LockInv, Context, Lockstep, Shape
  <1>3. Context' /\ Len(tracker') = Len(tracker) + n
    BY <1>1, <1>2, FedLevel
  <1> QED
    BY <1>1, <1>2, <1>3

\* A step that leaves the context alone.
LEMMA ContextSame ==
  ASSUME LockInv, UNCHANGED ctxVars
  PROVE  Context' /\ Len(tracker') \in Nat /\ Len(tracker') >= Len(tracker)
  <1>1. mem' = mem /\ tracker' = tracker /\ npast' = npast
    BY DEF ctxVars
  <1>2. Shape(mem) /\ tracker = mem.kv /\ npast = Len(tracker) /\ Len(tracker) \in Nat
    BY DEF LockInv, Context, Lockstep, Shape
  <1> QED
    BY <1>1, <1>2 DEF Context, Lockstep

\* A prompt keeps the invariant, however much of it is fed.
LEMMA PromptLock ==
  ASSUME LockInv, NEW n, Prompt(n)
  PROVE  LockInv'
  <1>1. Context' /\ Len(tracker') \in Nat /\ Len(tracker') >= Len(tracker)
    BY Blocks, ContextFed DEF Prompt
  <1>f. flag' \in Flag
    BY DEF Prompt, LockInv, Labels, Flag
  <1>2. Labels'
    BY <1>f DEF Prompt, LockInv, Labels
  <1>3. Latches'
    BY DEF Prompt, LockInv, Labels, Flag, Latches, Correcting, Injecting, Types, Idle
  <1>4. Marks'
    BY <1>1, MarksGrow DEF Prompt, Types, Idle, TargetUsed, Correcting
  <1> QED
    BY <1>1, <1>2, <1>3, <1>4 DEF LockInv

\* So does one that is refused,
LEMMA PromptTooLongLock ==
  ASSUME LockInv, PromptTooLong
  PROVE  LockInv'
  <1>1. Context' /\ Len(tracker') \in Nat /\ Len(tracker') >= Len(tracker)
    BY ContextSame DEF PromptTooLong
  <1>f. flag' \in Flag
    BY DEF PromptTooLong, LockInv, Labels, Flag
  <1>2. Labels'
    BY <1>f DEF PromptTooLong, LockInv, Labels
  <1>3. Latches'
    BY DEF PromptTooLong, LockInv, Labels, Flag, Latches, Correcting, Injecting, Types, Idle
  <1>4. Marks'
    BY <1>1, MarksGrow DEF PromptTooLong, Types, Idle, TargetUsed, Correcting
  <1> QED
    BY <1>1, <1>2, <1>3, <1>4 DEF LockInv

\* and /continue, after an interruption or after a finished turn.
LEMMA ContinueLock ==
  ASSUME LockInv, AutoContinue \/ ContinueInterrupted \/ \E n \in 0..3 : ContinueFinished(n)
  PROVE  LockInv'
  <1>1. Context' /\ Len(tracker') \in Nat /\ Len(tracker') >= Len(tracker)
    BY Blocks, ContextFed, ContextSame DEF AutoContinue, ContinueInterrupted, ContinueFinished
  <1>2. Labels'
    BY DEF AutoContinue, ContinueInterrupted, ContinueFinished, LockInv, Labels, Flag, bookVars
  <1>3. Latches'
    BY DEF AutoContinue, ContinueInterrupted, ContinueFinished, LockInv, Labels, Flag, Latches,
           Correcting, Injecting, Idle, bookVars
  <1>4. Marks'
    BY <1>1, MarksGrow
    DEF AutoContinue, ContinueInterrupted, ContinueFinished, Idle, TargetUsed, Correcting,
        bookVars
  <1> QED
    BY <1>1, <1>2, <1>3, <1>4 DEF LockInv

\* A fresh start: the system prompt is fed onto an empty memory.
LEMMA ContextCleared ==
  ASSUME NEW n \in 0..1, Cleared(n)
  PROVE  /\ Context' /\ cps' = <<>> /\ Len(tracker') = n
         /\ tracker' = Prefix(SystemPrompt, n)
  <1>1. Fed(EmptyMem, <<>>, SystemPrompt, n)
    BY DEF Cleared, Clear
  <1>2. Len(SystemPrompt) = 1 /\ SystemPrompt \in Seq(Token) /\ Len(<<>>) = 0
    BY Blocks
  <1>3. Context' /\ Len(tracker') = 0 + n /\ tracker' = <<>> \o Prefix(SystemPrompt, n)
    <2>1. /\ Shape(EmptyMem) /\ <<>> = EmptyMem.kv /\ n \in 0..Len(SystemPrompt)
      BY <1>2, EmptyShape
    <2>2. /\ Context' /\ tracker' = <<>> \o Prefix(SystemPrompt, n)
          /\ Len(tracker') = Len(<<>>) + n
      BY <1>1, <1>2, <2>1, FedLevel
    <2> QED
      BY <1>2, <2>2
  <1>4. <<>> \o Prefix(SystemPrompt, n) = Prefix(SystemPrompt, n)
    BY <1>2, PrefixType, ConcatEmptySeq
  <1> QED
    BY <1>3, <1>4 DEF Cleared

\* Without checkpoints and outside a call nothing is asked of the marks.
LEMMA MarksNone ==
  ASSUME cps' = <<>>, ~TargetUsed'
  PROVE  Marks'
  BY DEF Marks, MarksOrdered, BeforeCall

\* A session that starts afresh, its system prompt fed or cut.
LEMMA ClearedLock ==
  ASSUME LockInv, NEW n \in 0..1, Cleared(n), pc = "input", pc' = pc, gen' = gen,
         features' = features
  PROVE  LockInv'
  <1>1. Context' /\ cps' = <<>>
    BY ContextCleared
  <1>f. flag' \in Flag
    BY ResetFlag DEF Cleared, LockInv, Labels
  <1>s. slot' \in Slot
    BY ClosedSlot DEF Cleared, LockInv, Labels
  <1>2. Labels'
    BY <1>1, <1>f, <1>s DEF Cleared, LockInv, Labels
  <1>3. Latches'
    <2>1. /\ ~flag'.auto /\ flag'.input = flag.input /\ ~flag'.toolPending
          /\ provisional' = -1
      BY ResetFlag DEF Cleared, LockInv, Labels
    <2> QED
      BY <2>1 DEF LockInv, Latches, Correcting, Injecting
  <1>4. Marks'
    BY <1>1, MarksNone DEF TargetUsed, Correcting
  <1> QED
    BY <1>1, <1>2, <1>3, <1>4 DEF LockInv

\* /clear.
LEMMA ClearLock ==
  ASSUME LockInv, NEW n, ClearCommand(n)
  PROVE  LockInv'
  <1>1. n \in 0..1
    BY Blocks DEF ClearCommand
  <1> QED
    BY <1>1, ClearedLock DEF ClearCommand, Idle

\* /load: the checkpoints of the saved session lie in its context.
LEMMA LoadLock ==
  ASSUME LockInv, NEW tail \in {<<>>, <<"user">>}, LoadCommand(tail)
  PROVE  LockInv'
  <1>1. tail \in Seq(Token) /\ Len(tail) \in Nat
    BY Blocks
  <1>2. tracker' \in Seq(Token) /\ Len(tracker') >= 5
    <2>1. tracker' = Saved.tokens \o tail /\ Saved.tokens \in Seq(Token)
      BY Blocks DEF LoadCommand
    <2>2. tracker' \in Seq(Token) /\ Len(tracker') = Len(Saved.tokens) + Len(tail)
      BY <1>1, <2>1, ConcatProperties
    <2> QED
      BY <1>1, <2>2, Blocks
  <1>3. Shape(Decode(EmptyMem, tracker')) /\ Decode(EmptyMem, tracker').kv = <<>> \o tracker'
    BY <1>2, EmptyShape, DecodeShape
  <1>4. <<>> \o tracker' = tracker'
    BY <1>2, ConcatEmptySeq
  <1>5. Context'
    BY <1>3, <1>4, StackShape DEF LoadCommand, Clear, Context, Lockstep
  <1>6. cps' = <<3, 5>> /\ Len(cps') = 2 /\ cps' \in Seq(Nat)
    BY Blocks DEF LoadCommand
  <1>7. Labels'
    BY <1>6, Blocks DEF LoadCommand, LockInv, Labels
  <1>8. Latches'
    BY DEF LoadCommand, LockInv, Labels, Flag, Latches, Correcting, Injecting, Idle
  <1>9. Marks'
    <2>1. Len(tracker') \in Nat
      BY <1>2
    <2>2. MarksOrdered'
      BY <1>2, <1>6, <2>1 DEF MarksOrdered
    <2>3. ~TargetUsed'
      BY DEF LoadCommand, Idle, TargetUsed, Correcting
    <2> QED
      BY <2>2, <2>3 DEF Marks, BeforeCall
  <1> QED
    BY <1>5, <1>7, <1>8, <1>9 DEF LockInv
-----------------------------------------------------------------------------
\* /undo.

\* What is left of a list of checkpoints, and of a context cut at one of them.
LEMMA RemainingOf ==
  ASSUME LockInv, NEW sel \in 0..Len(cps), Undoable(sel)
  PROVE  /\ sel + 1 \in 1..Len(cps) /\ Target(sel) \in Nat
         /\ Remaining(sel) \in Seq(Nat) /\ Len(Remaining(sel)) = sel + 1
         /\ \A i \in 1..(sel + 1) : Remaining(sel)[i] = cps[i]
  <1>1. cps \in Seq(Nat) /\ sel + 1 \in 0..Len(cps) /\ sel + 1 \in 1..Len(cps)
    BY DEF Undoable, LockInv, Labels
  <1> QED
    BY <1>1, PrefixType DEF Remaining, Target

\* In every scenario with /undo the checkpoints lie in the context.
LEMMA UndoTarget ==
  ASSUME NoOrphans, LockInv, NEW sel \in 0..Len(cps), Undoable(sel)
  PROVE  /\ Target(sel) \in 0..Len(tracker) /\ MarksOrdered
         /\ Resized(tracker, Target(sel)) = Prefix(tracker, Target(sel))
  <1>1. MarksKept
    BY DEF NoOrphans, LockInv, Labels, Undoable, MarksKept
  <1>2. MarksOrdered
    BY <1>1 DEF LockInv, Marks
  <1>3. Target(sel) \in 0..Len(tracker)
    BY <1>2, RemainingOf DEF MarksOrdered, Target
  <1>4. tracker \in Seq(Token)
    BY DEF LockInv, Context, Lockstep, Shape
  <1> QED
    BY <1>2, <1>3, <1>4, ResizedPrefix

\* The marks after an /undo that cut the context at its target.
LEMMA UndoMarks ==
  ASSUME NoOrphans, LockInv, NEW sel \in 0..Len(cps), Undoable(sel),
         tracker' = Prefix(tracker, Target(sel)), cps' = Remaining(sel),
         pc' = pc, gen' = gen, features' = features
  PROVE  Marks'
  <1>1. /\ Target(sel) \in 0..Len(tracker) /\ MarksOrdered /\ tracker \in Seq(Token)
        /\ cps \in Seq(Nat)
    BY UndoTarget DEF LockInv, Labels, Context, Lockstep, Shape
  <1>2. Len(tracker') = Target(sel)
    BY <1>1, PrefixType
  <1>3. /\ sel + 1 \in 1..Len(cps) /\ Len(cps') = sel + 1
        /\ \A i \in 1..(sel + 1) : cps'[i] = cps[i]
    BY RemainingOf
  <1>4. \A i \in 1..(sel + 1) : cps[i] <= Target(sel)
    BY <1>1, <1>3 DEF MarksOrdered, Target
  <1>5. MarksOrdered'
    <2>1. \A i \in 1..(sel + 1) : i \in 1..Len(cps) /\ cps[i] \in Nat
      BY <1>1, <1>3
    <2> QED
      BY <1>1, <1>2, <1>3, <1>4, <2>1 DEF MarksOrdered
  <1>6. ~TargetUsed'
    BY DEF Undoable, Idle, TargetUsed, Correcting
  <1> QED
    BY <1>5, <1>6 DEF Marks, BeforeCall

\* /undo by the recurrent state of the checkpoint,
LEMMA UndoFastLock ==
  ASSUME NoOrphans, LockInv, NEW sel \in 0..Len(cps), UndoFast(sel)
  PROVE  LockInv'
  <1>1. Undoable(sel) /\ pc' = pc /\ gen' = gen /\ features' = features
    BY DEF UndoFast
  <1>2. /\ Target(sel) \in 0..Len(tracker) /\ tracker' = Prefix(tracker, Target(sel))
        /\ npast' = Target(sel)
    BY <1>1, UndoTarget DEF UndoFast
  <1>3. Shape(UndoMem(sel)) /\ UndoMem(sel).kv = tracker /\ tracker \in Seq(Token)
    <2>1. Shape(mem) /\ mem.kv = tracker /\ tracker \in Seq(Token)
      BY DEF LockInv, Context, Lockstep, Shape
    <2> QED
      BY <2>1, StackShape DEF UndoMem
  <1>4. /\ Shape(SeqRm(UndoMem(sel), Target(sel)))
        /\ SeqRm(UndoMem(sel), Target(sel)).kv = Prefix(tracker, Target(sel))
    BY <1>2, <1>3, SeqRmShape DEF UndoFast
  <1>5. Shape(mem') /\ mem'.kv = Prefix(tracker, Target(sel))
    BY <1>4, StackShape DEF UndoFast
  <1>6. Context'
    BY <1>2, <1>3, <1>5, PrefixType DEF Context, Lockstep
  <1>7. cps' = Remaining(sel) /\ cps' \in Seq(Nat)
    BY <1>1, RemainingOf DEF UndoFast
  <1>f. flag' \in Flag /\ ~flag'.auto /\ ~flag'.toolPending /\ flag'.input = flag.input
    BY ResetFlag DEF UndoFast, LockInv, Labels
  <1>s. slot' \in Slot
    BY ClosedSlot DEF UndoFast, LockInv, Labels
  <1>o. offset' \in Nat
    <2>1. IsFiniteSet(Erased(sel))
      BY FS_Interval, FS_Subset DEF Erased, LockInv, Labels
    <2>2. offset - Cardinality(Erased(sel)) \in Int
      BY <2>1, FS_CardinalityType DEF LockInv, Labels
    <2> DEFINE d == offset - Cardinality(Erased(sel))
    <2>3. offset' = Max({0, d})
      BY DEF UndoFast
    <2> HIDE DEF d
    <2>4. Max({0, d}) = IF 0 >= d THEN 0 ELSE d
      BY <2>2, OfTwo, 0 \in Int DEF d
    <2> QED
      BY <2>2, <2>3, <2>4 DEF d
  <1>8. Labels'
    BY <1>7, <1>f, <1>s, <1>o DEF UndoFast, LockInv, Labels
  <1>9. Latches'
    BY <1>f DEF UndoFast, Undoable, Idle, LockInv, Latches, Correcting, Injecting
  <1>10. Marks'
    BY <1>1, <1>2, <1>7, UndoMarks
  <1> QED
    BY <1>6, <1>8, <1>9, <1>10 DEF LockInv

\* and by decoding the prefix again.
LEMMA UndoSlowLock ==
  ASSUME NoOrphans, LockInv, NEW sel \in 0..Len(cps), NEW n \in Lengths, UndoSlow(sel, n)
  PROVE  LockInv'
  <1>1. Undoable(sel) /\ pc' = pc /\ gen' = gen /\ features' = features /\ pc = "input"
    BY DEF UndoSlow, Undoable, Idle
  <1>2. CASE n # Target(sel)
    <2>1. Cleared(Len(SystemPrompt)) /\ Len(SystemPrompt) \in 0..1
      BY <1>2, Blocks DEF UndoSlow
    <2> QED
      BY <1>1, <2>1, ClearedLock
  <1>3. CASE n = Target(sel)
    <2> DEFINE kept == Prefix(tracker, Target(sel))
    <2>1. /\ mem' = RsSave(Decoded(Clear(mem), kept)) /\ npast' = n /\ tracker' = kept
          /\ cps' = Remaining(sel) /\ offset' = sel /\ provisional' = -1
          /\ slot' = [slot EXCEPT !.idx = -1, !.saved = FALSE]
          /\ flag' = ResetFlags(flag)
      BY <1>1, <1>3, UndoTarget DEF UndoSlow
    <2>2. tracker \in Seq(Token) /\ Target(sel) \in 0..Len(tracker)
      BY <1>1, UndoTarget DEF LockInv, Context, Lockstep, Shape
    <2>3. kept \in Seq(Token) /\ Len(kept) = Target(sel) /\ <<>> \o kept = kept
      BY <2>2, PrefixType, ConcatEmptySeq
    <2> HIDE DEF kept
    <2>4. Shape(Decoded(EmptyMem, kept)) /\ Decoded(EmptyMem, kept).kv = kept
      BY <2>3, EmptyShape, DecodedShape
    <2>5. Context'
      BY <1>3, <2>1, <2>3, <2>4, StackShape DEF Context, Lockstep, Clear
    <2>f. flag' \in Flag /\ ~flag'.auto /\ ~flag'.toolPending /\ flag'.input = flag.input
      BY <2>1, ResetFlag DEF LockInv, Labels
    <2>s. slot' \in Slot
      BY <2>1, ClosedSlot DEF LockInv, Labels
    <2>6. Labels'
      BY <1>1, <2>1, <2>f, <2>s, RemainingOf DEF LockInv, Labels
    <2>7. Latches'
      BY <1>1, <2>1, <2>f DEF LockInv, Latches, Correcting, Injecting
    <2>8. Marks'
      BY <1>1, <2>1, UndoMarks DEF kept
    <2> QED
      BY <2>5, <2>6, <2>7, <2>8 DEF LockInv
  <1> QED
    BY <1>2, <1>3
-----------------------------------------------------------------------------
\* A generation.

\* The start of a generation opens no call but the one it resumes.
LEMMA StartLock ==
  ASSUME LockInv, StartGeneration
  PROVE  LockInv'
  <1> DEFINE d == IF flag.auto THEN flag.depth ELSE 0
             f == [flag EXCEPT !.toolPending = FALSE, !.depth = d]
  <1>1. Context' /\ Len(tracker') \in Nat /\ Len(tracker') >= Len(tracker)
    BY ContextSame DEF StartGeneration
  <1>3. flag' = Latched(f) \/ flag' = f
    BY DEF StartGeneration
  <1>d. d \in Int
    BY DEF LockInv, Labels, Flag
  <1> HIDE DEF d
  <1>2. f \in Flag /\ f.auto = flag.auto /\ f.input = flag.input /\ ~f.toolPending
    BY <1>d DEF LockInv, Labels, Flag
  <1> HIDE DEF f
  <1>f. /\ flag' \in Flag /\ flag'.auto = flag.auto /\ flag'.input = flag.input
        /\ ~flag'.toolPending
    BY <1>2, <1>3, LatchedFlag
  <1>s. slot' \in Slot /\ slot'.target = slot.target
    BY DEF StartGeneration, LockInv, Labels, Slot
  <1>g. /\ gen' = [call |-> flag.toolPending, correcting |-> pc = "repair",
                   result |-> "none"]
        /\ pc' = "gen" /\ cps' = cps /\ offset' = offset /\ provisional' = provisional
        /\ features' = features /\ pc \in {"start", "repair"}
    BY DEF StartGeneration
  <1>h. gen' \in Gen
    BY <1>g DEF LockInv, Labels, Flag, Gen, Results
  <1>4. Labels'
    BY <1>f, <1>s, <1>g, <1>h DEF LockInv, Labels
  <1>5. Latches'
    BY <1>f, <1>g DEF LockInv, Latches, Correcting, Injecting
  <1>6. "bad" \in features /\ MarksKept /\ TargetUsed' => TargetUsed
    <2>1. SUFFICES ASSUME "bad" \in features, MarksKept, pc = "start"
                   PROVE  ~TargetUsed'
      BY <1>g DEF TargetUsed, Correcting
    <2>2. ~flag.toolPending
      BY <2>1 DEF MarksKept, LockInv, Latches
    <2> QED
      BY <1>g, <2>1, <2>2 DEF TargetUsed, Correcting
  <1>7. Marks'
    BY <1>1, <1>s, <1>g, <1>6, MarksGrow
  <1> QED
    BY <1>1, <1>4, <1>5, <1>7 DEF LockInv

\* A sampled token joins cache and tracker.
LEMMA ContextCommit ==
  ASSUME LockInv, NEW t \in Token, Commits(t), Shape(mem'), mem'.kv = mem.kv \o <<t>>
  PROVE  /\ Context' /\ Len(tracker') \in Nat /\ Len(tracker') >= Len(tracker)
         /\ Len(tracker') = npast + 1 /\ tracker' = Append(tracker, t)
         /\ tracker \in Seq(Token) /\ npast = Len(tracker)
  <1>1. tracker \in Seq(Token) /\ tracker = mem.kv /\ npast = Len(tracker)
    BY DEF LockInv, Context, Lockstep, Shape
  <1>2. /\ tracker' = Append(tracker, t) /\ npast' = npast + 1
        /\ Append(tracker, t) = tracker \o <<t>> /\ Len(Append(tracker, t)) = Len(tracker) + 1
    BY <1>1, AppendIsConcat, AppendProperties DEF Commits
  <1> QED
    BY <1>1, <1>2 DEF Context, Lockstep

\* One token is decoded.
LEMMA DecodedOne ==
  ASSUME LockInv, NEW t \in Token
  PROVE  Shape(Decode(mem, <<t>>)) /\ Decode(mem, <<t>>).kv = mem.kv \o <<t>>
  <1>1. <<t>> \in Seq(Token)
    OBVIOUS
  <1> QED
    BY <1>1, DecodeShape DEF LockInv, Context

\* The cleanup of a verify batch leaves the cells alone.
LEMMA SettleShape ==
  ASSUME NEW m, Shape(m), NEW n
  PROVE  Shape(Settle(m, n)) /\ Settle(m, n).kv = m.kv
  BY DEF Settle, Shape, Fields

\* A word.
LEMMA WordLock ==
  ASSUME LockInv, GenWord
  PROVE  LockInv'
  <1>1. Context' /\ Len(tracker') \in Nat /\ Len(tracker') >= Len(tracker)
    BY Blocks, DecodedOne, ContextCommit DEF GenWord
  <1>2. /\ pc' = pc /\ gen' = gen /\ flag' = flag /\ slot' = slot /\ cps' = cps
        /\ offset' = offset /\ provisional' = provisional /\ features' = features
    BY DEF GenWord, bookVars
  <1>3. Labels' /\ Latches'
    BY <1>2 DEF LockInv, Labels, Latches, Correcting, Injecting
  <1>4. Marks'
    BY <1>1, <1>2, MarksGrow DEF TargetUsed, Correcting
  <1> QED
    BY <1>1, <1>3, <1>4 DEF LockInv

\* The hook's target is right behind the call's first token.
LEMMA FuncStartLock ==
  ASSUME LockInv, NEW b \in BOOLEAN, GenFuncStart(b)
  PROVE  LockInv'
  <1> DEFINE m == Decode(mem, <<"func">>)
             i == IF slot.idx < 0 THEN Len(cps) - offset ELSE slot.idx
  <1>1. Shape(m) /\ m.kv = mem.kv \o <<"func">>
    BY Blocks, DecodedOne
  <1>2. /\ pc = "gen" /\ pc' = pc /\ flag' = flag /\ cps' = cps
        /\ offset' = offset /\ provisional' = provisional /\ features' = features
        /\ gen' = [gen EXCEPT !.call = TRUE] /\ Commits("func")
    BY DEF GenFuncStart, Samples
  <1>3. \/ gen.correcting /\ mem' = m /\ slot' = slot
        \/ /\ ~gen.correcting /\ mem' = IF b THEN SlotEntry(m, i) ELSE m
           /\ slot' = [idx |-> i, saved |-> slot.saved \/ b, has |-> b,
                       target |-> npast + 1]
    BY DEF GenFuncStart, Hooked, TargetAfter
  <1> HIDE DEF m
  <1>4. Shape(mem') /\ mem'.kv = mem.kv \o <<"func">>
    BY <1>1, <1>3, StackShape, ZenonT(30) DEF SlotEntry
  <1>5. /\ Context' /\ Len(tracker') \in Nat /\ Len(tracker') >= Len(tracker)
        /\ Len(tracker') = npast + 1 /\ npast = Len(tracker)
    BY <1>2, <1>4, Blocks, ContextCommit
  <1>6. i \in Int
    BY DEF LockInv, Labels, Slot
  <1> HIDE DEF i
  <1>s. slot' \in Slot
    BY <1>3, <1>5, <1>6 DEF LockInv, Labels, Slot
  <1>g. gen' \in Gen /\ gen'.correcting = gen.correcting /\ gen'.result = gen.result
    BY <1>2 DEF LockInv, Labels, Gen
  <1>7. Labels'
    BY <1>2, <1>s, <1>g DEF LockInv, Labels
  <1>8. Latches'
    BY <1>2, <1>g DEF LockInv, Latches, Correcting, Injecting
  <1>9. Marks'
    <2>1. CASE gen.correcting
      BY <1>2, <1>3, <1>5, <2>1, MarksGrow DEF TargetUsed, Correcting
    <2>2. CASE ~gen.correcting
      <3>1. SUFFICES ASSUME MarksKept
                     PROVE  MarksOrdered' /\ BeforeCall'
        BY <1>2 DEF Marks, MarksKept
      <3>2. MarksOrdered
        BY <3>1 DEF LockInv, Marks
      <3>3. cps \in Seq(Nat) /\ \A k \in 1..Len(cps) : cps[k] \in Nat
        BY DEF LockInv, Labels
      <3>4. slot'.target = Len(tracker')
        BY <1>3, <1>5, <2>2
      <3>5. MarksOrdered'
        BY <1>2, <1>5, <3>2, <3>3 DEF MarksOrdered
      <3>6. BeforeCall'
        BY <1>5, <3>4, <3>5 DEF MarksOrdered, BeforeCall
      <3> QED
        BY <3>5, <3>6
    <2> QED
      BY <2>1, <2>2
  <1> QED
    BY <1>5, <1>7, <1>8, <1>9 DEF LockInv

\* The generation is left: what becomes of the latches, whatever was added.
LEMMA LeavesLock ==
  ASSUME LockInv, NEW result \in Results \ {"none"}, Leaves(result), pc = "gen",
         Context', Len(tracker') \in Nat, Len(tracker') >= Len(tracker),
         result = "stuck" => "bad" \in features,
         result = "limit" => "line" \in features,
         result \in {"call", "stuck"} => gen.call,
         result \in {"eog", "sim"} => ~gen.call
  PROVE  LockInv'
  <1>1. /\ gen' = [gen EXCEPT !.result = result]
        /\ pc' = IF gen.correcting THEN "corrected" ELSE "tool"
        /\ cps' = cps /\ offset' = offset /\ slot' = slot /\ provisional' = provisional
        /\ features' = features
    BY DEF Leaves, bookVars
  <1>g. /\ gen' \in Gen /\ gen'.result = result /\ gen'.correcting = gen.correcting
    BY <1>1 DEF LockInv, Labels, Gen
  <1>f. /\ flag' \in Flag /\ flag'.input = flag.input
        /\ flag'.toolPending <=> gen.call /\ result \notin {"call", "stuck"}
        /\ flag'.auto <=> flag.auto /\ result = "call"
    BY ZenonT(30) DEF Leaves, Chains, LockInv, Labels, Flag, Gen
  <1>2. Labels'
    BY <1>1, <1>g, <1>f DEF LockInv, Labels
  <1>3. Latches'
    <2>1. result \in {"eog", "interrupted", "limit", "early", "call", "stuck", "sim"}
      BY DEF Results
    <2> QED
      BY <1>1, <1>g, <1>f, <2>1 DEF LockInv, Latches, Correcting, Injecting
  <1>4. TargetUsed' => TargetUsed
    BY <1>1, <1>g DEF TargetUsed, Correcting
  <1>5. Marks'
    BY <1>1, <1>4, MarksGrow
  <1> QED
    BY <1>2, <1>3, <1>5 DEF LockInv

\* Every way to leave the token loop.
LEMMA GenExitLock ==
  ASSUME LockInv, NEW n,
         \/ GenEog(n) \/ GenInterrupted(n) \/ GenCrosses(n) \/ GenSimulates(n)
         \/ GenExhausted \/ \E b \in BOOLEAN : GenBody(b, n)
  PROVE  LockInv'
  <1>0. Shape(mem) /\ mem.kv = tracker /\ npast = Len(tracker) /\ tracker \in Seq(Token)
    BY DEF LockInv, Context, Lockstep, Shape
  <1>s. gen.call \in BOOLEAN
    BY DEF LockInv, Labels, Gen
  <1>1. ASSUME NEW t \in Token, Commits(t), mem' = Settle(Decode(mem, <<t>>), n)
        PROVE  Context' /\ Len(tracker') \in Nat /\ Len(tracker') >= Len(tracker)
    BY <1>1, DecodedOne, SettleShape, ContextCommit
  <1>2. ASSUME mem' = Settle(mem, n) \/ mem' = mem, tracker' = tracker, npast' = npast
        PROVE  Context' /\ Len(tracker') \in Nat /\ Len(tracker') >= Len(tracker)
    BY <1>0, <1>2, SettleShape DEF Context, Lockstep
  <1>3. CASE GenEog(n)
    BY <1>1, <1>3, <1>s, Blocks, LeavesLock DEF GenEog, Samples, Results
  <1>4. CASE \E b \in BOOLEAN : GenBody(b, n)
    BY <1>1, <1>4, <1>s, Blocks, LeavesLock DEF GenBody, Samples, Results
  <1>5. CASE GenInterrupted(n)
    BY <1>2, <1>5, LeavesLock DEF GenInterrupted, Results
  <1>6. CASE GenCrosses(n)
    BY <1>2, <1>6, LeavesLock DEF GenCrosses, Crossed, Results
  <1>7. CASE GenSimulates(n)
    BY <1>2, <1>7, LeavesLock DEF GenSimulates, Samples, Results
  <1>8. CASE GenExhausted
    BY <1>2, <1>8, LeavesLock DEF GenExhausted, ctxVars, Results
  <1> QED
    BY <1>3, <1>4, <1>5, <1>6, <1>7, <1>8
-----------------------------------------------------------------------------
\* Tools and corrections.

\* Steps that only move the latches on: what they have in common.
LEMMA QuietLock ==
  ASSUME LockInv, Context', Len(tracker') \in Nat, Len(tracker') >= Len(tracker),
         UNCHANGED <<bookVars, gen, features>>, flag' \in Flag,
         flag'.toolPending = flag.toolPending, flag'.input = flag.input,
         flag'.auto => flag.auto \/ gen.result \in {"call", "sim"},
         "bad" \notin features => ~Correcting', ~Injecting',
         pc' \in {"correct", "repair"} => gen.result \in {"call", "stuck"},
         pc' = "tool" => gen.result = "call",
         pc' = "start" => gen.result = "sim", pc' \notin {"gen", "corrected"},
         TargetUsed' => TargetUsed
  PROVE  LockInv'
  <1>1. /\ gen' = gen /\ cps' = cps /\ offset' = offset /\ slot' = slot
        /\ provisional' = provisional /\ features' = features
    BY DEF bookVars
  <1>2. Labels'
    BY <1>1 DEF LockInv, Labels
  <1>3. Latches'
    BY <1>1 DEF LockInv, Latches, Correcting, Injecting
  <1>4. Marks'
    BY <1>1, MarksGrow
  <1> QED
    BY <1>2, <1>3, <1>4 DEF LockInv

\* The steps that look at the result of a generation and feed nothing.
LEMMA DispatchLock ==
  ASSUME LockInv,
         \/ RecoveryExhausted \/ StuckCall \/ NoTool \/ CorrectionDoesNotFit
         \/ CorrectionInvalid \/ CorrectionFailed \/ ExecuteInPlace
         \/ \E b \in BOOLEAN : BadCall(b)
  PROVE  LockInv'
  <1>1. Context' /\ Len(tracker') \in Nat /\ Len(tracker') >= Len(tracker)
    BY ContextSame
    DEF RecoveryExhausted, StuckCall, NoTool, CorrectionDoesNotFit, CorrectionInvalid,
        CorrectionFailed, ExecuteInPlace, BadCall
  <1>2. flag \in Flag /\ gen \in Gen
    BY DEF LockInv, Labels
  <1>3. CASE RecoveryExhausted
    <2>1. flag' \in Flag /\ flag'.toolPending = flag.toolPending /\ flag'.input = flag.input
          /\ ~flag'.auto
      BY <1>2, <1>3 DEF RecoveryExhausted, Flag
    <2> QED
      BY <1>1, <1>3, <2>1, QuietLock
      DEF RecoveryExhausted, Correcting, Injecting, TargetUsed
  <1>4. CASE StuckCall
    <2>1. flag' \in Flag /\ flag'.toolPending = flag.toolPending /\ flag'.input = flag.input
          /\ flag'.auto = flag.auto
      BY <1>2, <1>4 DEF StuckCall, Flag
    <2>2. "bad" \in features
      BY <1>4 DEF StuckCall, LockInv, Latches
    <2>3. TargetUsed' => TargetUsed
      BY <1>4 DEF StuckCall, TargetUsed, Correcting, LockInv, Latches
    <2>4. pc' \in {"finish", "correct"} /\ UNCHANGED <<bookVars, gen, features>>
          /\ gen.result = "stuck"
      BY <1>4 DEF StuckCall
    <2> QED
      BY <1>1, <2>1, <2>2, <2>3, <2>4, QuietLock DEF Injecting
  <1>5. CASE NoTool
    BY <1>1, <1>2, <1>5, QuietLock DEF NoTool, Correcting, Injecting, TargetUsed
  <1>6. CASE CorrectionDoesNotFit
    <2>1. flag' \in Flag /\ flag'.toolPending = flag.toolPending /\ flag'.input = flag.input
          /\ flag'.auto = flag.auto
      BY <1>2, <1>6, LatchedFlag DEF CorrectionDoesNotFit
    <2> QED
      BY <1>1, <1>6, <2>1, QuietLock
      DEF CorrectionDoesNotFit, Correcting, Injecting, TargetUsed
  <1>7. CASE CorrectionInvalid
    <2>1. flag' \in Flag /\ flag'.toolPending = flag.toolPending /\ flag'.input = flag.input
          /\ ~flag'.auto
      BY <1>2, <1>7, EjectFlag DEF CorrectionInvalid
    <2> QED
      BY <1>1, <1>7, <2>1, QuietLock
      DEF CorrectionInvalid, Eject, Correcting, Injecting, TargetUsed
  <1>8. CASE CorrectionFailed
    <2>1. flag' \in Flag /\ flag'.toolPending = flag.toolPending /\ flag'.input = flag.input
          /\ ~flag'.auto
      BY <1>2, <1>8 DEF CorrectionFailed, Flag
    <2> QED
      BY <1>1, <1>8, <2>1, QuietLock
      DEF CorrectionFailed, Correcting, Injecting, TargetUsed
  <1>9. CASE ExecuteInPlace
    <2>1. flag' \in Flag /\ flag'.toolPending = flag.toolPending /\ flag'.input = flag.input
          /\ flag'.auto = flag.auto
      BY <1>2, <1>9 DEF ExecuteInPlace, Flag
    <2> QED
      BY <1>1, <1>9, <2>1, QuietLock
      DEF ExecuteInPlace, Correcting, Injecting, TargetUsed
  <1>10. CASE \E b \in BOOLEAN : BadCall(b)
    <2>1. flag' \in Flag /\ flag'.toolPending = flag.toolPending /\ flag'.input = flag.input
          /\ ~flag'.auto
      BY <1>2, <1>10 DEF BadCall, Flag
    <2>2. "bad" \in features /\ gen.result = "call" /\ pc' \in {"abort", "correct"}
          /\ UNCHANGED <<bookVars, gen, features>> /\ TargetUsed
      BY <1>10 DEF BadCall, TargetUsed
    <2> QED
      BY <1>1, <2>1, <2>2, QuietLock DEF Injecting
  <1> QED
    BY <1>3, <1>4, <1>5, <1>6, <1>7, <1>8, <1>9, <1>10

\* The steps that feed a tool result, an abort, a correction request or a recovery turn.
LEMMA FeedLock ==
  ASSUME LockInv, NEW n,
         \/ Recover(n) \/ FeedAbort(n) \/ AskCorrection(n) \/ \E b \in BOOLEAN : RunTool(b, n)
  PROVE  LockInv'
  <1>1. Context' /\ Len(tracker') \in Nat /\ Len(tracker') >= Len(tracker)
    BY Blocks, ContextFed, ContextSame DEF Recover, FeedAbort, AskCorrection, RunTool
  <1>2. flag \in Flag /\ gen \in Gen /\ flag.depth \in Int /\ MaxAuto \in Int
    BY SessionAssumption DEF LockInv, Labels, Flag
  <1>3. Deeper \in Int
    BY <1>2, OfTwo DEF Deeper
  <1>4. CASE Recover(n)
    <2>1. flag' \in Flag /\ flag'.toolPending = flag.toolPending /\ flag'.input = flag.input
      BY <1>2, <1>3, <1>4 DEF Recover, Flag
    <2>2. /\ gen.result = "sim" /\ pc' \in {"start", "finish"}
          /\ UNCHANGED <<bookVars, gen, features>>
      BY <1>4 DEF Recover
    <2> QED
      BY <1>1, <2>1, <2>2, QuietLock DEF Correcting, Injecting, TargetUsed
  <1>5. CASE FeedAbort(n)
    <2>1. flag' \in Flag /\ flag'.toolPending = flag.toolPending /\ flag'.input = flag.input
          /\ ~flag'.auto
      BY <1>2, <1>5 DEF FeedAbort, Flag
    <2>2. pc' \in {"input", "finish"} /\ UNCHANGED <<bookVars, gen, features>>
      BY <1>5 DEF FeedAbort, AfterTool
    <2> QED
      BY <1>1, <2>1, <2>2, QuietLock DEF Correcting, Injecting, TargetUsed
  <1>6. CASE AskCorrection(n)
    <2>1. /\ flag' \in Flag /\ flag'.toolPending = flag.toolPending
          /\ flag'.input = flag.input
          /\ flag'.auto => flag.auto
      BY <1>2, <1>6, EjectFlag DEF AskCorrection
    <2>2. /\ pc = "correct" /\ pc' \in {"repair", "input"}
          /\ UNCHANGED <<bookVars, gen, features>>
      BY <1>6 DEF AskCorrection, Eject
    <2>3. gen.result \in {"call", "stuck"} /\ "bad" \in features /\ TargetUsed
      BY <2>2 DEF LockInv, Latches, Correcting, TargetUsed
    <2> QED
      BY <1>1, <2>1, <2>2, <2>3, QuietLock DEF Injecting
  <1>7. CASE \E b \in BOOLEAN : RunTool(b, n)
    <2>1. PICK d \in Int, x \in BOOLEAN, y \in BOOLEAN :
            flag' = [flag EXCEPT !.selfFix = x, !.depth = d, !.auto = y]
      <3>1. PICK b \in BOOLEAN : RunTool(b, n)
        BY <1>7
      <3> DEFINE d == IF n = Len(ToolTurn) THEN Deeper ELSE flag.depth
                 y == n = Len(ToolTurn) /\ d <= MaxAuto
      <3>2. flag' = [flag EXCEPT !.selfFix = ~b, !.depth = d, !.auto = y]
        BY <3>1 DEF RunTool
      <3>3. d \in Int
        BY <1>2, <1>3
      <3>4. y \in BOOLEAN /\ (~b) \in BOOLEAN
        OBVIOUS
      <3> HIDE DEF d, y
      <3> QED
        BY <3>2, <3>3, <3>4
    <2>2. flag' \in Flag /\ flag'.toolPending = flag.toolPending /\ flag'.input = flag.input
      BY <1>2, <2>1 DEF Flag
    <2>3. /\ gen.result = "call" /\ pc' \in {"abort", "input", "finish"}
          /\ UNCHANGED <<bookVars, gen, features>>
      BY <1>7 DEF RunTool, AfterTool
    <2> QED
      BY <1>1, <2>2, <2>3, QuietLock DEF Correcting, Injecting, TargetUsed
  <1> QED
    BY <1>4, <1>5, <1>6, <1>7
-----------------------------------------------------------------------------
\* The rollback of a corrected call.

\* The newest live checkpoint before the target is a checkpoint.
LEMMA AnchorIn ==
  ASSUME LockInv, Anchors # {}
  PROVE  /\ Max(Anchors) \in Anchors /\ Max(Anchors) + 1 \in 1..Len(cps)
         /\ cps[Max(Anchors) + 1] \in 0..slot.target
         /\ \A i \in Anchors : i <= Max(Anchors)
  <1>1. cps \in Seq(Nat) /\ slot.target \in Nat /\ offset \in Nat
    BY DEF LockInv, Labels, Slot
  <1>2. Anchors \subseteq 0..(Len(cps) - 1) /\ Len(cps) \in Nat
    BY <1>1 DEF Anchors
  <1>3. Anchors \subseteq Nat /\ \A x \in Anchors : x <= Len(cps)
    BY <1>2
  <1>4. Max(Anchors) \in Anchors /\ \A y \in Anchors : Max(Anchors) >= y
    BY <1>2, <1>3, MaxIn
  <1> DEFINE a == Max(Anchors)
  <1>5. a \in 0..(Len(cps) - 1) /\ cps[a + 1] <= slot.target
    BY <1>4 DEF Anchors
  <1>6. \A i \in Anchors : i <= a
    BY <1>4, <1>3
  <1>7. a \in Anchors
    BY <1>4
  <1> HIDE DEF a
  <1>8. a + 1 \in 1..Len(cps)
    BY <1>2, <1>5
  <1>9. cps[a + 1] \in 0..slot.target
    BY <1>1, <1>5, <1>8
  <1> QED
    BY <1>6, <1>7, <1>8, <1>9 DEF a

\* Neither the restore of the slot nor that of the anchor touches the cells.
LEMMA SlotMemShape ==
  ASSUME LockInv
  PROVE  /\ Shape(SlotMem) /\ SlotMem.kv = tracker /\ tracker \in Seq(Token)
         /\ \A i : Shape(RsRestore(SlotMem, i)) /\ RsRestore(SlotMem, i).kv = tracker
  <1>1. Shape(mem) /\ mem.kv = tracker /\ tracker \in Seq(Token)
    BY DEF LockInv, Context, Lockstep, Shape
  <1>2. Shape(SlotMem) /\ SlotMem.kv = tracker
    BY <1>1, StackShape DEF SlotMem
  <1> QED
    BY <1>1, <1>2, StackShape

\* What the two rollbacks have in common: no checkpoint is left behind.
LEMMA RolledLock ==
  ASSUME LockInv, Reachable, Context', UNCHANGED <<bookVars, gen, features>>,
         flag' \in Flag, flag'.toolPending = flag.toolPending, flag'.input = flag.input,
         flag'.auto => flag.auto,
         pc' \in {"injectFast", "injectAnchor", "input"}, Len(tracker') \in Nat,
         MarksKept /\ (\A i \in 1..Len(cps) : cps[i] <= slot.target) =>
           \A i \in 1..Len(cps) : cps[i] <= Len(tracker')
  PROVE  LockInv'
  <1>1. /\ gen' = gen /\ cps' = cps /\ offset' = offset /\ slot' = slot
        /\ provisional' = provisional /\ features' = features
    BY DEF bookVars
  <1>2. /\ pc = "corrected" /\ gen.result = "call" /\ gen.correcting
        /\ "bad" \in features
    BY DEF Reachable, LockInv, Latches, Correcting
  <1>3. Labels'
    BY <1>1 DEF LockInv, Labels
  <1>4. Latches'
    BY <1>1, <1>2 DEF LockInv, Latches, Correcting, Injecting
  <1>5. Marks'
    <2>1. ~TargetUsed'
      BY DEF TargetUsed, Correcting
    <2>2. SUFFICES ASSUME MarksKept
                   PROVE  MarksOrdered'
      BY <1>1, <2>1 DEF Marks, BeforeCall, MarksKept
    <2>3. MarksOrdered /\ \A i \in 1..Len(cps) : cps[i] <= slot.target
      BY <1>2, <2>2 DEF LockInv, Marks, BeforeCall, TargetUsed, Correcting
    <2> QED
      BY <1>1, <2>2, <2>3 DEF MarksOrdered
  <1> QED
    BY <1>3, <1>4, <1>5 DEF LockInv

\* The fast rollback cuts tracker, cache and n_past_ at the target.
LEMMA RollBackFastLock ==
  ASSUME LockInv, RollBackFast
  PROVE  LockInv'
  <1>1. slot.target \in 0..Len(tracker) /\ tracker \in Seq(Token)
    BY DEF RollBackFast, Reachable, LockInv, Labels, Slot, Context, Lockstep, Shape
  <1>2. /\ Prefix(tracker, slot.target) \in Seq(Token)
        /\ Len(Prefix(tracker, slot.target)) = slot.target
    BY <1>1, PrefixType
  <1>3. Shape(SeqRm(SlotMem, slot.target))
        /\ SeqRm(SlotMem, slot.target).kv = Prefix(tracker, slot.target)
    BY <1>1, SlotMemShape, SeqRmShape DEF RollBackFast, FastOk
  <1>4. Context' /\ Len(tracker') = slot.target
    BY <1>2, <1>3 DEF RollBackFast, Kept, Context, Lockstep
  <1>5. flag' = flag /\ flag \in Flag /\ pc' = "injectFast" /\ Reachable
        /\ UNCHANGED <<bookVars, gen, features>>
    BY DEF RollBackFast, LockInv, Labels
  <1> QED
    BY <1>1, <1>4, <1>5, RolledLock

\* The rollback by an older checkpoint decodes from there to the target again.
LEMMA RollBackAnchorLock ==
  ASSUME LockInv, NEW n, RollBackAnchor(n)
  PROVE  LockInv'
  <1> DEFINE a == Max(Anchors)
             p == cps[a + 1]
             m == RsRestore(SlotMem, a - offset)
             suffix == SubSeq(tracker, p + 1, slot.target)
  <1>1. /\ a \in Anchors /\ a + 1 \in 1..Len(cps) /\ p \in 0..slot.target
        /\ \A i \in Anchors : i <= a
    BY AnchorIn DEF RollBackAnchor
  <1>2. slot.target \in 0..Len(tracker) /\ tracker \in Seq(Token)
    BY DEF RollBackAnchor, Reachable, LockInv, Labels, Slot, Context, Lockstep, Shape
  <1>3. Shape(m) /\ m.kv = tracker
    BY SlotMemShape
  <1>4. /\ SeqRmOk(m, p)
        /\ n = Len(suffix) \/ n \in 0..(Len(suffix) - 1)
        /\ Fed(SeqRm(m, p), Prefix(tracker, p), suffix, n)
    BY DEF RollBackAnchor
  <1>5. /\ flag' = flag \/ Eject
        /\ pc' \in {"injectAnchor", "input"} /\ Reachable
        /\ UNCHANGED <<bookVars, gen, features>>
    BY DEF RollBackAnchor, Eject
  <1> HIDE DEF a, m
  <1>6. suffix \in Seq(Token) /\ Len(suffix) = slot.target - p
    BY <1>1, <1>2, SubSeqProperties
  <1>7. Shape(SeqRm(m, p)) /\ SeqRm(m, p).kv = Prefix(tracker, p)
    <2>1. p \in Nat /\ p <= Len(m.kv)
      BY <1>1, <1>2, <1>3
    <2> QED
      BY <2>1, <1>3, <1>4, SeqRmShape
  <1>8. Len(Prefix(tracker, p)) = p
    BY <1>1, <1>2, PrefixType
  <1>9. n \in 0..Len(suffix)
    BY <1>1, <1>2, <1>4, <1>6
  <1> HIDE DEF suffix
  <1>10. Context' /\ Len(tracker') = p + n
    BY <1>4, <1>6, <1>7, <1>8, <1>9, FedLevel, ZenonT(30)
  <1>11. ASSUME MarksKept, \A i \in 1..Len(cps) : cps[i] <= slot.target
         PROVE  \A i \in 1..Len(cps) : cps[i] <= Len(tracker')
    <2>1. MarksOrdered /\ cps \in Seq(Nat) /\ offset \in Nat
      BY <1>11 DEF LockInv, Marks, Labels
    <2>2. Len(cps) - 1 \in Anchors
      BY <1>1, <1>11, <2>1 DEF Anchors
    <2>3. a + 1 = Len(cps)
      <3>1. a \in 0..(Len(cps) - 1) /\ Len(cps) \in Nat
        BY <1>1, <2>1 DEF Anchors
      <3>2. Len(cps) - 1 <= a
        BY <1>1, <2>2
      <3> QED
        BY <3>1, <3>2
    <2>4. \A i \in 1..Len(cps) : cps[i] <= p /\ cps[i] \in Nat
      BY <1>1, <2>1, <2>3 DEF MarksOrdered
    <2> QED
      BY <1>1, <1>9, <1>10, <2>4
  <1>12. /\ flag' \in Flag /\ flag'.toolPending = flag.toolPending
         /\ flag'.input = flag.input
         /\ flag'.auto => flag.auto
    BY <1>5, EjectFlag DEF LockInv, Labels
  <1>13. Len(tracker') \in Nat
    BY <1>1, <1>9, <1>10
  <1> QED
    BY <1>5, <1>10, <1>11, <1>12, <1>13, RolledLock

\* A rollback that is refused changes neither tracker nor cells.
LEMMA RollBackAbortsLock ==
  ASSUME LockInv, RollBackAborts
  PROVE  LockInv'
  <1>1. \/ mem' = mem \/ mem' = SlotMem
        \/ mem' = RsRestore(SlotMem, Max(Anchors) - offset)
    BY DEF RollBackAborts
  <1>2. Shape(mem) /\ mem.kv = tracker /\ npast = Len(tracker) /\ tracker \in Seq(Token)
    BY DEF LockInv, Context, Lockstep, Shape
  <1>3. Shape(mem') /\ mem'.kv = tracker /\ tracker' = tracker /\ npast' = npast
    BY <1>1, <1>2, SlotMemShape DEF RollBackAborts
  <1>4. Context' /\ Len(tracker') \in Nat /\ Len(tracker') >= Len(tracker)
    BY <1>2, <1>3 DEF Context, Lockstep
  <1>5. /\ flag' \in Flag /\ flag'.toolPending = flag.toolPending
        /\ flag'.input = flag.input /\ ~flag'.auto /\ pc' = "input"
    BY EjectFlag DEF RollBackAborts, Eject, LockInv, Labels
  <1>6. UNCHANGED <<bookVars, gen, features>>
    BY DEF RollBackAborts
  <1> QED
    BY <1>4, <1>5, <1>6, QuietLock DEF Correcting, Injecting, TargetUsed

\* The clean call is injected.
LEMMA InjectLock ==
  ASSUME LockInv, NEW n, Inject(n)
  PROVE  LockInv'
  <1>1. Context' /\ Len(tracker') \in Nat /\ Len(tracker') >= Len(tracker)
    BY Blocks, ContextFed DEF Inject
  <1>2. gen.correcting /\ gen.result = "call"
    BY DEF Inject, LockInv, Latches, Injecting
  <1>3. /\ cps' = cps /\ offset' = offset /\ provisional' = provisional /\ gen' = gen
        /\ features' = features /\ pc' \in {"tool", "input"}
    BY DEF Inject, Eject
  <1>4. /\ flag' \in Flag /\ flag'.toolPending = flag.toolPending
        /\ flag'.input = flag.input
        /\ flag'.auto => flag.auto
    <2>1. CASE n = 1
      BY <2>1 DEF Inject, LockInv, Labels, Flag
    <2>2. CASE n # 1
      BY <2>2, EjectFlag DEF Inject, LockInv, Labels
    <2> QED
      BY <2>1, <2>2
  <1>5. slot' \in Slot
    BY DEF Inject, LockInv, Labels, Slot
  <1>6. Labels'
    BY <1>3, <1>4, <1>5 DEF LockInv, Labels
  <1>7. Latches'
    BY <1>2, <1>3, <1>4 DEF LockInv, Latches, Correcting, Injecting
  <1>8. Marks'
    <2>1. ~TargetUsed'
      BY <1>2, <1>3 DEF TargetUsed, Correcting
    <2> QED
      BY <1>1, <1>3, <2>1, MarksGrow
  <1> QED
    BY <1>1, <1>6, <1>7, <1>8 DEF LockInv

-----------------------------------------------------------------------------
\* The end of a turn.

\* The checkpoint of a turn's end lies at the end of the context.
LEMMA FinishTurnLock ==
  ASSUME LockInv, FinishTurn
  PROVE  LockInv'
  <1>1. /\ cps' = Append(cps, npast) /\ mem' = TurnEntry /\ pc' = "input"
        /\ tracker' = tracker /\ npast' = npast /\ offset' = offset /\ gen' = gen
        /\ features' = features /\ flag.input
    BY DEF FinishTurn
  <1>2. /\ Shape(mem) /\ mem.kv = tracker /\ npast = Len(tracker)
        /\ tracker \in Seq(Token) /\ npast \in Nat /\ cps \in Seq(Nat)
    BY DEF LockInv, Labels, Context, Lockstep, Shape
  <1>3. Context'
    BY <1>1, <1>2, StackShape DEF TurnEntry, Context, Lockstep
  <1>4. /\ cps' \in Seq(Nat) /\ Len(cps') = Len(cps) + 1 /\ cps'[Len(cps) + 1] = npast
        /\ \A i \in 1..Len(cps) : cps'[i] = cps[i] /\ cps[i] \in Nat
    BY <1>1, <1>2, AppendProperties
  <1>5. /\ flag' \in Flag /\ flag'.toolPending = flag.toolPending
        /\ flag'.auto => flag.auto \/ gen.result = "limit"
        /\ flag'.input => gen.result = "limit"
    <2> DEFINE g == Latched(flag)
    <2>1. g \in Flag /\ g.toolPending = flag.toolPending /\ g.auto = flag.auto
      BY LatchedFlag DEF LockInv, Labels
    <2>2. \/ gen.result = "limit" /\ flag' = [g EXCEPT !.interrupted = FALSE, !.auto = TRUE]
          \/ flag' = [g EXCEPT !.input = FALSE]
      BY DEF FinishTurn
    <2> HIDE DEF g
    <2> QED
      BY <2>1, <2>2 DEF Flag
  <1>6. slot' \in Slot
    BY ClosedSlot DEF FinishTurn, LockInv, Labels
  <1>7. (provisional' = Len(cps) /\ ~flag'.input) \/ provisional' = provisional
    <2>1. CASE gen.result = "limit"
      BY <2>1 DEF FinishTurn
    <2>2. CASE gen.result # "limit"
      BY <1>5, <2>2 DEF FinishTurn, Interrupted
    <2> QED
      BY <2>1, <2>2
  <1>8. Labels'
    BY <1>1, <1>2, <1>4, <1>5, <1>6, <1>7 DEF LockInv, Labels
  <1>9. Latches'
    BY <1>1, <1>2, <1>4, <1>5, <1>7 DEF LockInv, Labels, Latches, Correcting, Injecting
  <1>10. Marks'
    <2>1. ~TargetUsed'
      BY <1>1 DEF TargetUsed, Correcting
    <2>2. SUFFICES ASSUME MarksKept
                   PROVE  MarksOrdered'
      BY <1>1, <2>1 DEF Marks, BeforeCall, MarksKept
    <2>3. MarksOrdered
      BY <2>2 DEF LockInv, Marks
    <2>4. \A i \in 1..Len(cps) : cps[i] <= npast
      BY <1>2, <2>3 DEF MarksOrdered
    <2> QED
      BY <1>1, <1>2, <1>4, <2>3, <2>4 DEF MarksOrdered
  <1> QED
    BY <1>3, <1>8, <1>9, <1>10 DEF LockInv

\* The checkpoint that moves to the end of a resumed turn is the last one.
LEMMA FinishResumedLock ==
  ASSUME LockInv, FinishResumed
  PROVE  LockInv'
  <1>1. /\ cps' = [cps EXCEPT ![provisional + 1] = npast] /\ mem' = EntryMoved
        /\ provisional' = -1 /\ pc' = "input" /\ provisional \in 0..(Len(cps) - 1)
        /\ tracker' = tracker /\ npast' = npast /\ offset' = offset /\ gen' = gen
        /\ slot' = slot /\ features' = features /\ flag' = Latched(flag)
    BY DEF FinishResumed, LockInv, Labels
  <1>2. /\ Shape(mem) /\ mem.kv = tracker /\ npast = Len(tracker)
        /\ tracker \in Seq(Token) /\ npast \in Nat /\ cps \in Seq(Nat)
        /\ provisional + 1 = Len(cps)
    BY <1>1 DEF LockInv, Labels, Latches, Context, Lockstep, Shape
  <1>3. Context'
    BY <1>1, <1>2, StackShape DEF EntryMoved, Context, Lockstep
  <1>4. /\ cps' \in Seq(Nat) /\ Len(cps') = Len(cps) /\ cps'[Len(cps)] = npast
        /\ \A i \in 1..(Len(cps) - 1) : cps'[i] = cps[i]
        /\ \A i \in 1..Len(cps) : cps[i] \in Nat
    BY <1>1, <1>2, ExceptSeq
  <1>5. /\ flag' \in Flag /\ flag'.toolPending = flag.toolPending
        /\ flag'.auto = flag.auto
    BY <1>1, LatchedFlag DEF LockInv, Labels
  <1>6. Labels'
    <2>1. slot' \in Slot /\ gen' \in Gen /\ offset' \in Nat /\ features' \in Scenarios
      BY <1>1 DEF LockInv, Labels
    <2>2. -1 \in Int
      OBVIOUS
    <2> QED
      BY <1>1, <1>4, <1>5, <2>1, <2>2 DEF Labels
  <1>7. Latches'
    BY <1>1, <1>5 DEF LockInv, Latches, Correcting, Injecting
  <1>8. Marks'
    <2>1. ~TargetUsed'
      BY <1>1 DEF TargetUsed, Correcting
    <2>2. SUFFICES ASSUME MarksKept
                   PROVE  MarksOrdered'
      BY <1>1, <2>1 DEF Marks, BeforeCall, MarksKept
    <2>3. MarksOrdered
      BY <2>2 DEF LockInv, Marks
    <2>4. \A i \in 1..Len(cps) : cps[i] <= npast
      BY <1>2, <2>3 DEF MarksOrdered
    <2> QED
      BY <1>1, <1>2, <1>4, <2>3, <2>4 DEF MarksOrdered
  <1> QED
    BY <1>3, <1>6, <1>7, <1>8 DEF LockInv

\* A resumed turn that is interrupted again leaves no checkpoint.
LEMMA FinishPlainLock ==
  ASSUME LockInv, FinishPlain
  PROVE  LockInv'
  <1>1. Context' /\ Len(tracker') \in Nat /\ Len(tracker') >= Len(tracker)
    BY ContextSame DEF FinishPlain
  <1>2. /\ flag' \in Flag /\ flag'.toolPending = flag.toolPending
        /\ flag'.input = flag.input /\ flag'.auto = flag.auto
    BY LatchedFlag DEF FinishPlain, LockInv, Labels
  <1>3. pc' = "input" /\ UNCHANGED <<bookVars, gen, features>>
    BY DEF FinishPlain
  <1> QED
    BY <1>1, <1>2, <1>3, QuietLock DEF Correcting, Injecting, TargetUsed
-----------------------------------------------------------------------------
\* All steps together.

\* The session starts level, with no checkpoint.
LEMMA InitLock ==
  ASSUME Init
  PROVE  LockInv
  <1>1. SystemPrompt \in Seq(Token) /\ SystemPrompt = <<"sys">>
    BY Blocks
  <1>2. <<>> \o SystemPrompt = SystemPrompt
    BY <1>1, ConcatEmptySeq
  <1>3. Shape(mem) /\ mem.kv = SystemPrompt
    BY <1>1, <1>2, EmptyShape, DecodeShape DEF Init
  <1>4. Context
    BY <1>3 DEF Init, Context, Lockstep
  <1>5. cps = <<>> /\ ~TargetUsed
    BY DEF Init, TargetUsed, Correcting
  <1>6. Labels
    <2>1. -1 \in Int /\ cps \in Seq(Nat)
      BY <1>5
    <2>2. \A i \in Int : [idx |-> i, saved |-> FALSE, has |-> FALSE, target |-> 0] \in Slot
      BY DEF Slot
    <2>3. slot \in Slot
      BY <2>1, <2>2 DEF Init
    <2>4. flag \in Flag /\ gen \in Gen
      BY DEF Init, Flag, Gen, Results
    <2> QED
      BY <2>1, <2>3, <2>4 DEF Init, Labels
  <1>7. Latches
    BY DEF Init, Latches, Correcting, Injecting
  <1>8. Marks
    BY <1>5 DEF Marks, MarksOrdered, BeforeCall
  <1> QED
    BY <1>4, <1>6, <1>7, <1>8 DEF LockInv

\* What the user types keeps the invariant,
LEMMA UserLock ==
  ASSUME NoOrphans, LockInv, UserStep
  PROVE  LockInv'
  <1>1. CASE \E n \in 0..3 : Prompt(n)
    BY <1>1, PromptLock
  <1>2. CASE \E n \in 0..3 : ContinueFinished(n)
    BY <1>2, ContinueLock
  <1>3. CASE \E n \in 0..3 : ClearCommand(n)
    BY <1>3, ClearLock
  <1>4. CASE PromptTooLong
    BY <1>4, PromptTooLongLock
  <1>5. CASE ContinueInterrupted
    BY <1>5, ContinueLock
  <1>6. CASE \E tail \in {<<>>, <<"user">>} : LoadCommand(tail)
    BY <1>6, LoadLock
  <1>7. CASE \E sel \in 0..Len(cps) : UndoFast(sel)
    BY <1>7, UndoFastLock
  <1>8. CASE \E sel \in 0..Len(cps), n \in Lengths : UndoSlow(sel, n)
    BY <1>8, UndoSlowLock
  <1> QED
    BY <1>1, <1>2, <1>3, <1>4, <1>5, <1>6, <1>7, <1>8 DEF UserStep

\* and what the loop does by itself.
LEMMA LoopLock ==
  ASSUME LockInv, LoopStep
  PROVE  LockInv'
  <1>1. CASE AutoContinue
    BY <1>1, ContinueLock
  <1>2. CASE GenStep
    <2>1. CASE StartGeneration
      BY <2>1, StartLock
    <2>2. CASE GenWord
      BY <2>2, WordLock
    <2>3. CASE \E b \in BOOLEAN : GenFuncStart(b)
      BY <2>3, FuncStartLock
    <2>4. CASE GenExhausted
      BY <2>4, GenExitLock
    <2>5. CASE \E n \in Ahead : \/ GenEog(n) \/ (\E b \in BOOLEAN : GenBody(b, n))
                                \/ GenInterrupted(n) \/ GenCrosses(n) \/ GenSimulates(n)
      BY <2>5, GenExitLock
    <2> QED
      BY <1>2, <2>1, <2>2, <2>3, <2>4, <2>5 DEF GenStep
  <1>3. CASE ToolStep
    <2>1. CASE \/ RecoveryExhausted \/ StuckCall \/ NoTool \/ CorrectionDoesNotFit
               \/ CorrectionInvalid \/ CorrectionFailed \/ ExecuteInPlace
               \/ \E b \in BOOLEAN : BadCall(b)
      BY <2>1, DispatchLock
    <2>2. CASE RollBackFast
      BY <2>2, RollBackFastLock
    <2>3. CASE RollBackAborts
      BY <2>3, RollBackAbortsLock
    <2>4. CASE \E n \in Lengths : \/ Recover(n) \/ (\E b \in BOOLEAN : RunTool(b, n))
                                  \/ FeedAbort(n) \/ AskCorrection(n)
      BY <2>4, FeedLock
    <2>5. CASE \E n \in Lengths : RollBackAnchor(n)
      BY <2>5, RollBackAnchorLock
    <2>6. CASE \E n \in Lengths : Inject(n)
      BY <2>6, InjectLock
    <2> QED
      BY <1>3, <2>1, <2>2, <2>3, <2>4, <2>5, <2>6 DEF ToolStep
  <1>4. CASE FinishStep
    BY <1>4, FinishTurnLock, FinishResumedLock, FinishPlainLock DEF FinishStep
  <1> QED
    BY <1>1, <1>2, <1>3, <1>4 DEF LoopStep

\* The invariant is inductive.
LEMMA StepLock ==
  ASSUME NoOrphans, LockInv, [Next]_vars
  PROVE  LockInv'
  <1>1. CASE UNCHANGED vars
    BY <1>1
    DEF vars, ctxVars, bookVars, LockInv, Context, Lockstep, Labels, Latches, Correcting,
        Injecting, Marks, MarksKept, MarksOrdered, BeforeCall, TargetUsed
  <1> QED
    BY <1>1, UserLock, LoopLock DEF Next

\* Whatever is prompted, continued, undone, loaded, interrupted, cut, simulated,
\* called or corrected, in any order and for any length of session, the tracker
\* (what /save writes), the cache and n_past_ stay the same context.
THEOREM SessionLockstep ==
  ASSUME NoOrphans
  PROVE  Spec => []Lockstep
  <1>1. Init => LockInv
    BY InitLock
  <1>2. LockInv /\ [Next]_vars => LockInv'
    BY StepLock
  <1>3. LockInv => Lockstep
    BY DEF LockInv, Context
  <1> QED
    BY <1>1, <1>2, <1>3, PTL DEF Spec
-----------------------------------------------------------------------------
\* The target of a correction.

\* /load only takes a session of one token for a fresh one: that token is the system
\* prompt unless the feed of a fresh session was cut.
NoCutLoad == \A s \in Scenarios : ~({"cut", "load"} \subseteq s)

\* Nothing cuts into the system prompt.
SysFirst ==
    "cut" \notin features =>
        /\ tracker # <<>> /\ tracker[1] = "sys"
        /\ \A i \in 1..Len(cps) : cps[i] >= 1

\* While a call is open, corrected or interrupted, the target is behind its first token.
TargetSet ==
    TargetUsed \/ flag.toolPending =>
        slot.target \in 1..Len(tracker) /\ tracker[slot.target] = "func"

TargetInv == SysFirst /\ TargetSet /\ InjectBehindFuncStart

Grown ==
    /\ Len(tracker') >= Len(tracker)
    /\ \A i \in 1..Len(tracker) : tracker'[i] = tracker[i]

\* The types that the invariant gives.
LEMMA ContextTypes ==
  ASSUME LockInv
  PROVE  /\ Shape(mem) /\ mem.kv = tracker /\ tracker \in Seq(Token)
         /\ npast = Len(tracker) /\ Len(tracker) \in Nat /\ npast \in Nat
         /\ cps \in Seq(Nat) /\ Len(cps) \in Nat /\ offset \in Nat /\ provisional \in Int
         /\ slot \in Slot /\ slot.target \in Nat /\ slot.idx \in Int
         /\ flag \in Flag /\ gen \in Gen /\ features \in Scenarios
  BY DEF LockInv, Context, Lockstep, Shape, Labels, Slot

\* What grows keeps its first token.
LEMMA TargetGrown ==
  ASSUME LockInv, LockInv', TargetInv, Grown, features' = features, ~Injecting',
         cps' = cps, slot'.target = slot.target,
         TargetUsed' \/ flag'.toolPending => TargetUsed \/ flag.toolPending
  PROVE  TargetInv'
  <1>1. Len(tracker) \in Nat /\ Len(tracker') \in Nat /\ slot.target \in Nat
        /\ tracker \in Seq(Token) /\ tracker' \in Seq(Token)
    BY ContextTypes DEF LockInv, Context, Lockstep, Shape
  <1>2. SysFirst'
    <2>1. SUFFICES ASSUME "cut" \notin features
                   PROVE  tracker' # <<>> /\ tracker'[1] = "sys"
      BY DEF SysFirst, TargetInv
    <2>2. 1 \in 1..Len(tracker) /\ tracker[1] = "sys"
      BY <1>1, <2>1, EmptySeq DEF TargetInv, SysFirst
    <2> QED
      BY <1>1, <2>2 DEF Grown
  <1>3. TargetSet'
    BY <1>1 DEF TargetInv, TargetSet, Grown
  <1>4. InjectBehindFuncStart'
    BY DEF InjectBehindFuncStart, Injecting
  <1> QED
    BY <1>2, <1>3, <1>4 DEF TargetInv

\* A feed adds to the context,
LEMMA GrownFed ==
  ASSUME LockInv, NEW toks \in Seq(Token), NEW n \in Fates(toks),
         Fed(mem, tracker, toks, n)
  PROVE  Grown
  <1>1. n \in 0..Len(toks)
    BY FatesRange
  <1>2. tracker' = tracker \o Prefix(toks, n) /\ Len(tracker') = Len(tracker) + n
    BY <1>1, ContextTypes, FedLevel
  <1>3. Prefix(toks, n) \in Seq(Token)
    BY <1>1, PrefixType
  <1> QED
    BY <1>1, <1>2, <1>3, ContextTypes, ConcatProperties DEF Grown

\* a step that leaves the tracker alone does nothing to it,
LEMMA GrownSame ==
  ASSUME LockInv, tracker' = tracker
  PROVE  Grown
  BY ContextTypes DEF Grown

\* and a sampled token is added at its end.
LEMMA GrownCommit ==
  ASSUME LockInv, NEW t \in Token, Commits(t)
  PROVE  /\ Grown /\ npast' = Len(tracker) + 1 /\ Len(tracker') = Len(tracker) + 1
         /\ tracker'[Len(tracker')] = t
  BY ContextTypes, AppendProperties DEF Commits, Grown

\* The steps that leave the target of a correction alone and only feed, or only
\* move the latches: they open no call.
LEMMA QuietUsed ==
  ASSUME LockInv, NEW n,
         \/ Prompt(n) \/ PromptTooLong \/ AutoContinue \/ ContinueInterrupted
         \/ ContinueFinished(n) \/ RecoveryExhausted \/ StuckCall \/ NoTool
         \/ CorrectionDoesNotFit \/ CorrectionInvalid \/ CorrectionFailed
         \/ ExecuteInPlace \/ (\E b \in BOOLEAN : BadCall(b)) \/ RollBackAborts
         \/ Recover(n) \/ FeedAbort(n) \/ AskCorrection(n)
         \/ (\E b \in BOOLEAN : RunTool(b, n)) \/ FinishPlain
  PROVE  /\ cps' = cps /\ slot' = slot /\ gen' = gen /\ features' = features
         /\ offset' = offset /\ ~Injecting'
         /\ TargetUsed' => TargetUsed
  <1>2. /\ cps' = cps /\ slot' = slot /\ gen' = gen /\ features' = features
        /\ offset' = offset /\ ~Injecting'
    BY DEF Prompt, PromptTooLong, AutoContinue, ContinueInterrupted, ContinueFinished,
        RecoveryExhausted, StuckCall, NoTool, CorrectionDoesNotFit, CorrectionInvalid,
        CorrectionFailed, ExecuteInPlace, BadCall, RollBackAborts, Recover, FeedAbort,
        AskCorrection, RunTool, FinishPlain, bookVars, Injecting, Eject, AfterTool, Types,
        Idle
  <1>3. TargetUsed' => TargetUsed
    BY DEF Prompt, PromptTooLong, AutoContinue, ContinueInterrupted, ContinueFinished,
        RecoveryExhausted, StuckCall, NoTool, CorrectionDoesNotFit, CorrectionInvalid,
        CorrectionFailed, ExecuteInPlace, BadCall, RollBackAborts, Recover, FeedAbort,
        AskCorrection, RunTool, FinishPlain, bookVars, Injecting, Eject, AfterTool, Types,
        Idle, TargetUsed, Correcting, LockInv, Latches
  <1> QED
    BY <1>2, <1>3

\* Those steps keep the target.
LEMMA QuietTarget ==
  ASSUME LockInv, LockInv', TargetInv, NEW n,
         \/ Prompt(n) \/ PromptTooLong \/ AutoContinue \/ ContinueInterrupted
         \/ ContinueFinished(n) \/ RecoveryExhausted \/ StuckCall \/ NoTool
         \/ CorrectionDoesNotFit \/ CorrectionInvalid \/ CorrectionFailed
         \/ ExecuteInPlace \/ (\E b \in BOOLEAN : BadCall(b)) \/ RollBackAborts
         \/ Recover(n) \/ FeedAbort(n) \/ AskCorrection(n)
         \/ (\E b \in BOOLEAN : RunTool(b, n)) \/ FinishPlain
  PROVE  TargetInv'
  <1>1. Grown
    BY Blocks, GrownFed, GrownSame
    DEF Prompt, PromptTooLong, AutoContinue, ContinueInterrupted, ContinueFinished,
        RecoveryExhausted, StuckCall, NoTool, CorrectionDoesNotFit, CorrectionInvalid,
        CorrectionFailed, ExecuteInPlace, BadCall, RollBackAborts, Recover, FeedAbort,
        AskCorrection, RunTool, FinishPlain, ctxVars
  <1>2. /\ cps' = cps /\ slot' = slot /\ gen' = gen /\ features' = features
        /\ ~Injecting'
    BY QuietUsed
  <1>3. TargetUsed' => TargetUsed
    BY QuietUsed
  <1>4. flag'.toolPending => flag.toolPending
    <2>1. flag \in Flag
      BY ContextTypes
    <2>2. CASE CorrectionDoesNotFit \/ FinishPlain
      BY <2>1, <2>2, LatchedFlag DEF CorrectionDoesNotFit, FinishPlain
    <2>3. CASE CorrectionInvalid \/ RollBackAborts \/ AskCorrection(n)
      BY <2>1, <2>3, EjectFlag DEF CorrectionInvalid, RollBackAborts, AskCorrection
    <2>4. CASE Prompt(n) \/ PromptTooLong \/ AutoContinue \/ ContinueInterrupted
               \/ ContinueFinished(n) \/ RecoveryExhausted \/ StuckCall \/ NoTool
      BY <2>1, <2>4
      DEF Prompt, PromptTooLong, AutoContinue, ContinueInterrupted, ContinueFinished,
          RecoveryExhausted, StuckCall, NoTool, Flag
    <2>5. CASE CorrectionFailed \/ ExecuteInPlace \/ (\E b \in BOOLEAN : BadCall(b))
               \/ FeedAbort(n)
      BY <2>1, <2>5 DEF CorrectionFailed, ExecuteInPlace, BadCall, FeedAbort, Flag
    <2>6. CASE Recover(n) \/ \E b \in BOOLEAN : RunTool(b, n)
      BY <2>1, <2>6 DEF Recover, RunTool, Flag
    <2> QED
      BY <2>2, <2>3, <2>4, <2>5, <2>6
  <1> QED
    BY <1>1, <1>2, <1>3, <1>4, TargetGrown

\* A generation: the hook moves the target, the rest keeps it.
LEMMA StartTarget ==
  ASSUME LockInv, LockInv', TargetInv, StartGeneration
  PROVE  TargetInv'
  <1>1. Grown
    BY GrownSame DEF StartGeneration, ctxVars
  <1>2. /\ cps' = cps /\ features' = features /\ pc' = "gen" /\ pc \in {"start", "repair"}
        /\ gen' = [call |-> flag.toolPending, correcting |-> pc = "repair",
                   result |-> "none"]
    BY DEF StartGeneration
  <1>3. slot'.target = slot.target
    BY ContextTypes DEF StartGeneration, Slot
  <1>4. ~flag'.toolPending
    <2> DEFINE d == IF flag.auto THEN flag.depth ELSE 0
               f == [flag EXCEPT !.toolPending = FALSE, !.depth = d]
    <2>1. flag' = Latched(f) \/ flag' = f
      BY DEF StartGeneration
    <2>2. d \in Int
      BY ContextTypes DEF Flag
    <2> HIDE DEF d
    <2>3. f \in Flag /\ ~f.toolPending
      BY <2>2, ContextTypes DEF Flag
    <2> HIDE DEF f
    <2> QED
      BY <2>1, <2>3, LatchedFlag
  <1>5. TargetUsed' => TargetUsed \/ flag.toolPending
    BY <1>2 DEF TargetUsed, Correcting
  <1> QED
    BY <1>1, <1>2, <1>3, <1>4, <1>5, TargetGrown DEF Injecting

\* The hook puts the target behind the FUNC_START it saw.
LEMMA FuncStartTarget ==
  ASSUME LockInv, LockInv', TargetInv, NEW b \in BOOLEAN, GenFuncStart(b)
  PROVE  TargetInv'
  <1>1. /\ Grown /\ npast' = Len(tracker) + 1 /\ Len(tracker') = Len(tracker) + 1
        /\ tracker'[Len(tracker')] = "func"
    BY Blocks, GrownCommit DEF GenFuncStart
  <1>2. /\ pc = "gen" /\ pc' = pc /\ flag' = flag /\ cps' = cps /\ features' = features
        /\ gen' = [gen EXCEPT !.call = TRUE]
    BY DEF GenFuncStart, Samples
  <1>3. gen'.correcting = gen.correcting
    BY <1>2, ContextTypes DEF Gen
  <1>4. CASE gen.correcting
    <2>1. slot' = slot /\ TargetUsed
      BY <1>2, <1>4 DEF GenFuncStart, TargetUsed, Correcting
    <2> QED
      BY <1>1, <1>2, <2>1, TargetGrown DEF Injecting
  <1>5. CASE ~gen.correcting
    <2>1. slot'.target = npast + 1 /\ npast = Len(tracker) /\ Len(tracker) \in Nat
      BY <1>5, ContextTypes DEF GenFuncStart, Hooked, TargetAfter
    <2>2. TargetSet'
      BY <1>1, <2>1 DEF TargetSet
    <2>3. SysFirst'
      <3>1. SUFFICES ASSUME "cut" \notin features
                     PROVE  tracker' # <<>> /\ tracker'[1] = "sys"
        BY <1>2 DEF SysFirst, TargetInv
      <3>2. 1 \in 1..Len(tracker) /\ tracker[1] = "sys"
        BY <3>1, ContextTypes, EmptySeq DEF TargetInv, SysFirst
      <3> QED
        BY <1>1, <2>1, <3>2 DEF Grown
    <2> QED
      BY <1>2, <2>2, <2>3 DEF TargetInv, InjectBehindFuncStart
  <1> QED
    BY <1>4, <1>5

\* The end of a generation keeps the target of the call that is open or cut,
LEMMA LeavesTarget ==
  ASSUME LockInv, LockInv', TargetInv, NEW result, Leaves(result), pc = "gen", Grown,
         result \in {"call", "stuck"} => gen.call
  PROVE  TargetInv'
  <1>1. /\ cps' = cps /\ slot' = slot /\ features' = features
        /\ pc' = IF gen.correcting THEN "corrected" ELSE "tool"
        /\ gen' = [gen EXCEPT !.result = result]
    BY DEF Leaves, bookVars
  <1>2. gen'.correcting = gen.correcting /\ gen'.result = result
    BY <1>1, ContextTypes DEF Gen
  <1>3. flag'.toolPending => gen.call
    BY ContextTypes DEF Leaves, Flag
  <1> QED
    BY <1>1, <1>2, <1>3, TargetGrown DEF Injecting, TargetUsed, Correcting

\* whatever ended it;
LEMMA GenTarget ==
  ASSUME LockInv, LockInv', TargetInv, NEW n,
         \/ GenEog(n) \/ GenInterrupted(n) \/ GenCrosses(n) \/ GenSimulates(n)
         \/ GenExhausted \/ \E b \in BOOLEAN : GenBody(b, n)
  PROVE  TargetInv'
  <1>1. Grown /\ pc = "gen"
    BY Blocks, GrownCommit, GrownSame
    DEF GenEog, GenInterrupted, GenCrosses, GenSimulates, GenExhausted, GenBody, ctxVars,
        Samples
  <1>2. \E result : Leaves(result) /\ (result \in {"call", "stuck"} => gen.call)
    BY DEF GenEog, GenInterrupted, GenCrosses, GenSimulates, GenExhausted, GenBody
  <1> QED
    BY <1>1, <1>2, LeavesTarget

\* so does a word.
LEMMA WordTarget ==
  ASSUME LockInv, LockInv', TargetInv, GenWord
  PROVE  TargetInv'
  <1>1. Grown
    BY Blocks, GrownCommit DEF GenWord
  <1>2. /\ cps' = cps /\ slot' = slot /\ features' = features /\ pc' = pc /\ gen' = gen
        /\ flag' = flag /\ pc = "gen"
    BY DEF GenWord, bookVars, Samples
  <1> QED
    BY <1>1, <1>2, TargetGrown DEF Injecting, TargetUsed, Correcting

\* A step after which the context is cut, but not into the system prompt.
LEMMA SysKept ==
  ASSUME LockInv, TargetInv, features' = features, NEW k \in 0..Len(tracker),
         tracker' = Prefix(tracker, k), "cut" \notin features => k >= 1,
         "cut" \notin features => \A i \in 1..Len(cps') : cps'[i] >= 1
  PROVE  SysFirst'
  <1>1. tracker \in Seq(Token)
    BY ContextTypes
  <1>2. Len(tracker') = k /\ \A i \in 1..k : tracker'[i] = tracker[i]
    BY <1>1, PrefixType
  <1> QED
    BY <1>2, EmptySeq DEF TargetInv, SysFirst

\* Commands that end every call there was.
LEMMA ClearedTarget ==
  ASSUME LockInv, NEW n \in 0..1, Cleared(n), "cut" \notin features => n = 1,
         pc = "input", pc' = pc, features' = features
  PROVE  TargetInv'
  <1>1. cps' = <<>> /\ Len(tracker') = n /\ tracker' = Prefix(SystemPrompt, n)
    BY ContextCleared
  <1>2. ~flag'.toolPending
    BY ResetFlag, ContextTypes DEF Cleared
  <1>3. SysFirst'
    <2>1. SUFFICES ASSUME n = 1
                   PROVE  tracker' # <<>> /\ tracker'[1] = "sys"
      BY <1>1 DEF SysFirst
    <2>2. tracker' = Prefix(SystemPrompt, 1) /\ SystemPrompt \in Seq(Token)
          /\ SystemPrompt = <<"sys">>
      BY <1>1, <2>1, Blocks
    <2>3. Prefix(<<"sys">>, 1)[1] = "sys" /\ Len(Prefix(<<"sys">>, 1)) = 1
      BY DEF Prefix
    <2> QED
      BY <2>2, <2>3, EmptySeq
  <1> QED
    BY <1>2, <1>3 DEF TargetInv, TargetSet, InjectBehindFuncStart, TargetUsed, Correcting

\* /clear leaves no target in use.
LEMMA ClearTarget ==
  ASSUME LockInv, NEW n, ClearCommand(n)
  PROVE  TargetInv'
  <1>1. n \in 0..1 /\ ("cut" \notin features => n = 1)
    BY Blocks DEF ClearCommand
  <1> QED
    BY <1>1, ClearedTarget DEF ClearCommand, Idle

\* The first token of a concatenation.
LEMMA FirstKept ==
  ASSUME NEW s \in Seq(Token), NEW t \in Seq(Token), Len(s) >= 1
  PROVE  (s \o t)[1] = s[1] /\ s \o t # <<>>
  <1>1. Len(s) \in Nat /\ Len(t) \in Nat /\ 1 \in 1..(Len(s) + Len(t)) /\ 1 <= Len(s)
    BY LenProperties
  <1>2. (s \o t)[1] = s[1] /\ Len(s \o t) = Len(s) + Len(t) /\ s \o t \in Seq(Token)
    BY <1>1, ConcatProperties
  <1>3. s \o t # <<>>
    BY <1>1, <1>2, EmptySeq
  <1> QED
    BY <1>2, <1>3

\* /load leaves no target in use: no call was cut in a fresh session.
LEMMA LoadTarget ==
  ASSUME NoCutLoad, LockInv, TargetInv, NEW tail \in {<<>>, <<"user">>}, LoadCommand(tail)
  PROVE  TargetInv'
  <1>1. "cut" \notin features
    BY ContextTypes DEF NoCutLoad, LoadCommand
  <1>2. Len(tracker) = 1 /\ tracker[1] = "sys"
    BY <1>1, Blocks DEF LoadCommand, TargetInv, SysFirst
  <1>3. ~flag.toolPending
    <2>1. SUFFICES ASSUME flag.toolPending
                   PROVE  FALSE
      OBVIOUS
    <2>2. slot.target \in 1..1 /\ tracker[slot.target] = "func"
      BY <1>2, <2>1 DEF TargetInv, TargetSet
    <2>3. slot.target = 1
      BY <2>2
    <2> QED
      BY <1>2, <2>2, <2>3
  <1>4. tracker' = Saved.tokens \o tail /\ Saved.tokens[1] = "sys" /\ cps' = <<3, 5>>
    BY Blocks DEF LoadCommand, Saved
  <1>5. tracker' # <<>> /\ tracker'[1] = "sys"
    <2>1. Saved.tokens \in Seq(Token) /\ tail \in Seq(Token) /\ Len(Saved.tokens) = 5
          /\ Len(tail) \in Nat
      BY Blocks
    <2> QED
      BY <1>4, <2>1, FirstKept
  <1>6. SysFirst'
    BY <1>4, <1>5 DEF SysFirst
  <1>7. pc' = "input" /\ flag' = flag
    BY DEF LoadCommand, Idle
  <1> QED
    BY <1>3, <1>6, <1>7
    DEF TargetInv, TargetSet, InjectBehindFuncStart, TargetUsed, Correcting

\* Neither does /undo.
LEMMA UndoTargetKept ==
  ASSUME NoOrphans, LockInv, TargetInv, NEW sel \in 0..Len(cps),
         UndoFast(sel) \/ \E n \in Lengths : UndoSlow(sel, n)
  PROVE  TargetInv'
  <1>1. Undoable(sel) /\ pc' = pc /\ features' = features /\ pc = "input"
    BY DEF UndoFast, UndoSlow, Undoable, Idle
  <1>2. CASE Cleared(Len(SystemPrompt))
    BY <1>1, <1>2, Blocks, ClearedTarget
  <1>3. CASE ~Cleared(Len(SystemPrompt))
    <2>1. /\ tracker' = Prefix(tracker, Target(sel)) /\ cps' = Remaining(sel)
          /\ flag' = ResetFlags(flag)
      BY <1>1, <1>3, UndoTarget DEF UndoFast, UndoSlow
    <2>2. ~flag'.toolPending
      BY <2>1, ResetFlag, ContextTypes
    <2>3. Target(sel) \in 0..Len(tracker)
      BY <1>1, UndoTarget
    <2>8. /\ sel + 1 \in 1..Len(cps) /\ Len(cps') = sel + 1
          /\ \A i \in 1..(sel + 1) : cps'[i] = cps[i]
      BY <1>1, <2>1, RemainingOf
    <2>9. \A i \in 1..(sel + 1) : i \in 1..Len(cps)
      BY <2>8, ContextTypes
    <2>4. /\ sel + 1 \in 1..Len(cps) /\ Len(cps') = sel + 1
          /\ \A i \in 1..(sel + 1) : cps'[i] = cps[i] /\ i \in 1..Len(cps)
      BY <2>8, <2>9
    <2>5. "cut" \notin features => Target(sel) >= 1
      BY <2>4 DEF TargetInv, SysFirst, Target
    <2>6. "cut" \notin features => \A i \in 1..Len(cps') : cps'[i] >= 1
      BY <2>4 DEF TargetInv, SysFirst
    <2>7. SysFirst'
      BY <1>1, <2>1, <2>3, <2>5, <2>6, SysKept
    <2> QED
      BY <1>1, <2>2, <2>7
      DEF TargetInv, TargetSet, InjectBehindFuncStart, TargetUsed, Correcting
  <1> QED
    BY <1>2, <1>3
-----------------------------------------------------------------------------
\* The rollbacks put the context behind the call's first token.
LEMMA ReachableTarget ==
  ASSUME LockInv, TargetInv, Reachable
  PROVE  /\ slot.target \in 1..Len(tracker) /\ tracker[slot.target] = "func"
         /\ ~flag.toolPending
  BY DEF Reachable, TargetInv, TargetSet, TargetUsed, Correcting, LockInv, Latches

\* Both rollbacks put the context behind FUNC_START:
LEMMA RolledTarget ==
  ASSUME LockInv, TargetInv, Reachable, tracker' = Kept, npast' = slot.target,
         Injecting', UNCHANGED <<bookVars, features>>, flag' = flag
  PROVE  TargetInv'
  <1>1. /\ slot.target \in 1..Len(tracker) /\ tracker[slot.target] = "func"
        /\ ~flag.toolPending /\ cps' = cps /\ slot' = slot /\ features' = features
    BY ReachableTarget DEF bookVars
  <1>2. /\ Len(tracker') = slot.target /\ tracker'[slot.target] = "func"
    BY <1>1, ContextTypes, PrefixType, SMTT(20) DEF Kept
  <1>3. Last(tracker') = "func"
    BY <1>2 DEF Last
  <1>4. SysFirst'
    BY <1>1, ContextTypes, SysKept DEF Kept, TargetInv, SysFirst
  <1> QED
    BY <1>1, <1>3, <1>4
    DEF TargetInv, TargetSet, InjectBehindFuncStart, TargetUsed, Correcting, Injecting

\* the fast one,
LEMMA RollBackFastTarget ==
  ASSUME LockInv, TargetInv, RollBackFast
  PROVE  TargetInv'
  BY RolledTarget DEF RollBackFast, Injecting

\* and the one by an older checkpoint.
LEMMA RollBackAnchorTarget ==
  ASSUME LockInv, LockInv', TargetInv, NEW n, RollBackAnchor(n)
  PROVE  TargetInv'
  <1> DEFINE a == Max(Anchors)
             p == cps[a + 1]
             m == RsRestore(SlotMem, a - offset)
             suffix == SubSeq(tracker, p + 1, slot.target)
  <1>1. a + 1 \in 1..Len(cps) /\ p \in 0..slot.target
    BY AnchorIn DEF RollBackAnchor
  <1>2. /\ slot.target \in 1..Len(tracker) /\ ~flag.toolPending /\ tracker \in Seq(Token)
        /\ Reachable
    BY ReachableTarget, ContextTypes DEF RollBackAnchor
  <1>3. Shape(m) /\ m.kv = tracker
    BY SlotMemShape
  <1>4. /\ SeqRmOk(m, p)
        /\ n = Len(suffix) \/ n \in 0..(Len(suffix) - 1)
        /\ Fed(SeqRm(m, p), Prefix(tracker, p), suffix, n)
        /\ IF n = Len(suffix) THEN pc' = "injectAnchor" /\ UNCHANGED flag ELSE Eject
        /\ UNCHANGED <<bookVars, features>>
    BY DEF RollBackAnchor
  <1> HIDE DEF a, m
  <1>6. suffix \in Seq(Token) /\ Len(suffix) = slot.target - p
    BY <1>1, <1>2, SubSeqProperties
  <1>7. Shape(SeqRm(m, p)) /\ SeqRm(m, p).kv = Prefix(tracker, p)
    <2>1. p \in Nat /\ p <= Len(m.kv)
      BY <1>1, <1>2, <1>3
    <2> QED
      BY <2>1, <1>3, <1>4, SeqRmShape
  <1>8. n \in 0..Len(suffix) /\ p \in Nat
    BY <1>1, <1>2, <1>4, <1>6
  <1>9. /\ Len(Prefix(tracker, p)) = p /\ Prefix(tracker, p) \in Seq(Token)
        /\ \A i \in 1..p : Prefix(tracker, p)[i] = tracker[i]
    <2>1. p \in 0..Len(tracker)
      BY <1>1, <1>2
    <2> HIDE DEF p
    <2> QED
      BY <1>2, <2>1, PrefixType
  <1>10. /\ tracker' = Prefix(tracker, p) \o Prefix(suffix, n) /\ Len(tracker') = p + n
         /\ npast' = Len(tracker') /\ tracker' \in Seq(Token)
    BY <1>4, <1>6, <1>7, <1>8, <1>9, FedLevel, ZenonT(30) DEF Context, Lockstep
  <1>11. tracker' = Prefix(tracker, p + n)
    <2>1. /\ Prefix(suffix, n) \in Seq(Token) /\ Len(Prefix(suffix, n)) = n
          /\ \A i \in 1..n : Prefix(suffix, n)[i] = suffix[i]
      BY <1>6, <1>8, PrefixType
    <2>2. \A i \in 1..n : suffix[i] = tracker[p + i]
      BY <1>1, <1>2, <1>6, <1>8, SubSeqProperties, SMTT(20)
    <2> HIDE DEF suffix, p
    <2>3. p + n \in 0..Len(tracker)
      BY <1>1, <1>2, <1>6, <1>8
    <2>4. ASSUME NEW i \in 1..(p + n)
          PROVE  tracker'[i] = tracker[i]
      <3>1. CASE i <= p
        BY <1>8, <1>9, <1>10, <2>1, <3>1, ConcatProperties
      <3>2. CASE i > p
        <4>1. i - p \in 1..n /\ p + (i - p) = i
          BY <1>8, <3>2
        <4>2. tracker'[i] = Prefix(suffix, n)[i - p]
          BY <1>8, <1>9, <1>10, <2>1, <3>2, ConcatProperties
        <4> QED
          BY <2>1, <2>2, <4>1, <4>2
      <3> QED
        BY <1>8, <3>1, <3>2
    <2>5. /\ Prefix(tracker, p + n) \in Seq(Token) /\ Len(Prefix(tracker, p + n)) = p + n
          /\ \A i \in 1..(p + n) : Prefix(tracker, p + n)[i] = tracker[i]
      BY <1>2, <2>3, PrefixType
    <2> QED
      BY <1>10, <2>4, <2>5, SeqEqual
  <1> HIDE DEF suffix
  <1>12. CASE n = Len(suffix)
    <2>1. /\ tracker' = Kept /\ npast' = slot.target
      BY <1>1, <1>2, <1>6, <1>10, <1>11, <1>12 DEF Kept
    <2> QED
      BY <1>2, <1>4, <1>12, <2>1, RolledTarget DEF Injecting
  <1>13. CASE n # Len(suffix)
    <2>1. pc' = "input" /\ ~flag'.toolPending /\ cps' = cps /\ features' = features
      BY <1>2, <1>4, <1>13, EjectFlag, ContextTypes DEF Eject, bookVars
    <2>2. "cut" \notin features => p + n >= 1
      <3>1. "cut" \notin features => p >= 1
        BY <1>1 DEF TargetInv, SysFirst
      <3> QED
        BY <1>8, <3>1
    <2>3. p + n \in 0..Len(tracker)
      BY <1>1, <1>2, <1>6, <1>8
    <2>4. SysFirst'
      BY <1>11, <2>1, <2>2, <2>3, SysKept DEF TargetInv, SysFirst
    <2> QED
      BY <2>1, <2>4
      DEF TargetInv, TargetSet, InjectBehindFuncStart, TargetUsed, Correcting
  <1> QED
    BY <1>12, <1>13

\* Once the clean call is injected, the target is no longer used.
LEMMA InjectTarget ==
  ASSUME LockInv, LockInv', TargetInv, NEW n, Inject(n)
  PROVE  TargetInv'
  <1>1. Grown
    BY Blocks, GrownFed DEF Inject
  <1>2. /\ cps' = cps /\ features' = features /\ gen' = gen /\ pc' \in {"tool", "input"}
        /\ gen.correcting /\ ~flag.toolPending
    BY DEF Inject, Eject, LockInv, Latches, Injecting
  <1>3. slot'.target = slot.target
    BY ContextTypes DEF Inject, Slot
  <1>4. ~flag'.toolPending
    <2>1. CASE n = 1
      BY <1>2, <2>1, ContextTypes DEF Inject, Flag
    <2>2. CASE n # 1
      BY <1>2, <2>2, ContextTypes, EjectFlag DEF Inject
    <2> QED
      BY <2>1, <2>2
  <1> QED
    BY <1>1, <1>2, <1>3, <1>4, TargetGrown DEF Injecting, TargetUsed, Correcting

\* The checkpoint of a turn's end is behind the system prompt.
LEMMA FinishTarget ==
  ASSUME LockInv, TargetInv, FinishTurn \/ FinishResumed
  PROVE  TargetInv'
  <1>1. /\ tracker' = tracker /\ features' = features /\ pc' = "input"
        /\ \/ cps' = Append(cps, npast)
           \/ /\ provisional >= 0 /\ provisional < Len(cps)
              /\ cps' = [cps EXCEPT ![provisional + 1] = npast]
    <2>1. CASE FinishTurn
      BY <2>1 DEF FinishTurn
    <2>2. CASE FinishResumed
      BY <2>2 DEF FinishResumed
    <2> QED
      BY <2>1, <2>2
  <1>2. flag'.toolPending = flag.toolPending
    <2>1. CASE FinishTurn
      <3> DEFINE g == Latched(flag)
      <3>1. g \in Flag /\ g.toolPending = flag.toolPending
        BY LatchedFlag, ContextTypes
      <3>2. \/ flag' = [g EXCEPT !.interrupted = FALSE, !.auto = TRUE]
            \/ flag' = [g EXCEPT !.input = FALSE]
        BY <2>1 DEF FinishTurn
      <3> HIDE DEF g
      <3> QED
        BY <3>1, <3>2 DEF Flag
    <2>2. CASE FinishResumed
      BY <2>2, LatchedFlag, ContextTypes DEF FinishResumed
    <2> QED
      BY <2>1, <2>2
  <1>3. slot'.target = slot.target
    BY ContextTypes DEF FinishTurn, FinishResumed, Slot
  <1>4. SysFirst'
    <2>1. SUFFICES ASSUME "cut" \notin features
                   PROVE  \A i \in 1..Len(cps') : cps'[i] >= 1
      BY <1>1 DEF TargetInv, SysFirst
    <2>2. npast >= 1 /\ \A i \in 1..Len(cps) : cps[i] >= 1
      BY <2>1, ContextTypes, EmptySeq DEF TargetInv, SysFirst
    <2>3. CASE cps' = Append(cps, npast)
      BY <2>2, <2>3, ContextTypes, AppendProperties
    <2>4. CASE provisional >= 0 /\ provisional < Len(cps)
                 /\ cps' = [cps EXCEPT ![provisional + 1] = npast]
      BY <2>2, <2>4, ContextTypes, ExceptSeq
    <2> QED
      BY <1>1, <2>3, <2>4
  <1>5. TargetSet'
    BY <1>1, <1>2, <1>3 DEF TargetInv, TargetSet, TargetUsed, Correcting
  <1> QED
    BY <1>1, <1>4, <1>5 DEF TargetInv, InjectBehindFuncStart

\* A session starts without a call.
LEMMA InitTarget ==
  ASSUME Init
  PROVE  TargetInv
  <1>1. tracker = <<"sys">> /\ cps = <<>> /\ pc = "input" /\ ~flag.toolPending
    BY Blocks DEF Init
  <1> QED
    BY <1>1
    DEF TargetInv, SysFirst, TargetSet, InjectBehindFuncStart, TargetUsed, Correcting

\* The invariant of the target is inductive.
LEMMA StepTarget ==
  ASSUME NoOrphans, NoCutLoad, LockInv, TargetInv, [Next]_vars
  PROVE  TargetInv'
  <1>0. LockInv'
    BY StepLock
  <1>1. CASE UNCHANGED vars
    BY <1>1
    DEF vars, ctxVars, bookVars, TargetInv, SysFirst, TargetSet, InjectBehindFuncStart,
        TargetUsed, Correcting
  <1>2. CASE UserStep
    <2>1. CASE \E n \in 0..3 : Prompt(n) \/ ContinueFinished(n)
      BY <1>0, <2>1, QuietTarget
    <2>2. CASE \E n \in 0..3 : ClearCommand(n)
      BY <2>2, ClearTarget
    <2>3. CASE PromptTooLong \/ ContinueInterrupted
      BY <1>0, <2>3, QuietTarget
    <2>4. CASE \E tail \in {<<>>, <<"user">>} : LoadCommand(tail)
      BY <2>4, LoadTarget
    <2>5. CASE \E sel \in 0..Len(cps) : UndoFast(sel) \/ \E n \in Lengths : UndoSlow(sel, n)
      BY <2>5, UndoTargetKept
    <2> QED
      BY <1>2, <2>1, <2>2, <2>3, <2>4, <2>5 DEF UserStep
  <1>3. CASE AutoContinue
    BY <1>0, <1>3, QuietTarget
  <1>4. CASE GenStep
    <2>1. CASE StartGeneration
      BY <1>0, <2>1, StartTarget
    <2>2. CASE GenWord
      BY <1>0, <2>2, WordTarget
    <2>3. CASE \E b \in BOOLEAN : GenFuncStart(b)
      BY <1>0, <2>3, FuncStartTarget
    <2>4. CASE GenExhausted
      BY <1>0, <2>4, GenTarget
    <2>5. CASE \E n \in Ahead : \/ GenEog(n) \/ (\E b \in BOOLEAN : GenBody(b, n))
                                \/ GenInterrupted(n) \/ GenCrosses(n) \/ GenSimulates(n)
      BY <1>0, <2>5, GenTarget
    <2> QED
      BY <1>4, <2>1, <2>2, <2>3, <2>4, <2>5 DEF GenStep
  <1>5. CASE ToolStep
    <2>1. CASE \/ RecoveryExhausted \/ StuckCall \/ NoTool \/ CorrectionDoesNotFit
               \/ CorrectionInvalid \/ CorrectionFailed \/ ExecuteInPlace
               \/ (\E b \in BOOLEAN : BadCall(b)) \/ RollBackAborts
      BY <1>0, <2>1, QuietTarget
    <2>2. CASE RollBackFast
      BY <2>2, RollBackFastTarget
    <2>4. CASE \E n \in Lengths : \/ Recover(n) \/ (\E b \in BOOLEAN : RunTool(b, n))
                                  \/ FeedAbort(n) \/ AskCorrection(n)
      BY <1>0, <2>4, QuietTarget
    <2>5. CASE \E n \in Lengths : RollBackAnchor(n)
      BY <1>0, <2>5, RollBackAnchorTarget
    <2>6. CASE \E n \in Lengths : Inject(n)
      BY <1>0, <2>6, InjectTarget
    <2> QED
      BY <1>5, <2>1, <2>2, <2>4, <2>5, <2>6 DEF ToolStep
  <1>6. CASE FinishStep
    BY <1>0, <1>6, FinishTarget, QuietTarget DEF FinishStep
  <1> QED
    BY <1>1, <1>2, <1>3, <1>4, <1>5, <1>6 DEF Next, LoopStep

\* However the call was cut, resumed, corrected and rolled back, fast or from an
\* older checkpoint, the clean call joins the FUNC_START of the call it replaces.
THEOREM SessionInject ==
  ASSUME NoOrphans, NoCutLoad
  PROVE  Spec => []InjectBehindFuncStart
  <1>1. Init => LockInv /\ TargetInv
    BY InitLock, InitTarget
  <1>2. LockInv /\ TargetInv /\ [Next]_vars => (LockInv /\ TargetInv)'
    BY StepLock, StepTarget
  <1>3. TargetInv => InjectBehindFuncStart
    BY DEF TargetInv
  <1> QED
    BY <1>1, <1>2, <1>3, PTL DEF Spec
-----------------------------------------------------------------------------
\* What the turn loop does to the recurrent state and to the checkpoint stack: the
\* state follows the context, the entries of the stack are the states at the
\* checkpoints, and the session implements Conversation.

\* The sets of features with which, without snapshots, the bookkeeping of the
\* checkpoints is right.  Each clause excludes what Session_*.cfg show to go wrong or
\* what breaks in the same way: a session saved in mid turn; an /undo or a /continue
\* over a corrected call or over a session that was not fed; a checkpoint inside a call that
\* is corrected; two checkpoints at one position of a session with erased entries.
Orderly(s) ==
    /\ "tail" \notin s
    /\ "undo" \in s => s \cap {"bad", "continue"} = {}
    /\ "continue" \in s => s \cap {"bad", "cut"} = {}
    /\ "line" \in s => "bad" \notin s /\ ~({"load", "undo"} \subseteq s)

NoWindow == NRsSeq = 0 /\ \A s \in Scenarios : Orderly(s)

-----------------------------------------------------------------------------
\* The invariant, part by part.

\* The model remembers the context.
Follows == mem \in Filled /\ Coherent(mem)

\* The entries of the stack: one for each checkpoint from offset on, and the slot's.
Entries ==
    /\ offset <= Len(cps)
    /\ Len(mem.stack) = Len(cps) - offset + (IF slot.saved THEN 1 ELSE 0)
    /\ \A i \in (offset + 1)..Len(cps) : mem.stack[i - offset] = Prefix(tracker, cps[i])
    /\ \A i \in 1..Len(cps) : cps[i] >= 1
    /\ provisional >= 0 => provisional >= offset

\* The slot's entry is the last, and holds the state a correction goes back to.
SlotOpen ==
    /\ slot.saved => slot.idx = Len(cps) - offset /\ Len(tracker) >= 2
    /\ ~slot.saved => slot.idx < 0
    /\ "bad" \in features /\ TargetUsed =>
         /\ slot.has /\ slot.saved /\ slot.target >= 2
         /\ mem.stack[Len(mem.stack)] = Prefix(tracker, slot.target)

\* What holds of a turn in progress, and of the prompt in between.
Turns ==
    /\ ~Idle \/ "cut" \notin features => tracker # <<>>
    /\ ~Idle /\ "continue" \notin features => flag.input
    /\ pc = "finish" \/ (pc = "tool" /\ gen.result # "call") => ~flag.auto
    /\ Idle /\ "undo" \in features => ~slot.saved

\* /undo finds no two checkpoints at one place when it may have to tell a state
\* that was restored from one that was not.
Apart ==
    /\ offset > 0 => "load" \in features
    /\ "undo" \in features /\ offset > 0 => ~mem.restored
    /\ {"undo", "load"} \subseteq features =>
         /\ \A i, j \in 1..Len(cps) : i < j => cps[i] < cps[j]
         /\ ~Idle => \A i \in 1..Len(cps) : cps[i] < Len(tracker)

MemInv == Follows /\ Entries /\ SlotOpen /\ Turns /\ Apart
-----------------------------------------------------------------------------
\* The operations on a memory, as functions of its fields.

\* A memory is its fields.
LEMMA Edits ==
  ASSUME NEW m \in Filled
  PROVE  /\ m = [kv |-> m.kv, planes |-> m.planes, rsIdx |-> m.rsIdx,
                 restored |-> m.restored, stack |-> m.stack]
         /\ m.kv \in Seq(Token) /\ Len(m.kv) \in Nat
         /\ m.planes \in [0..NRsSeq -> Seq(Token)] /\ m.planes[0] \in Seq(Token)
         /\ m.rsIdx \in 0..NRsSeq /\ m.restored \in BOOLEAN
         /\ m.stack \in Seq(Seq(Token)) /\ Len(m.stack) \in Nat
  BY FilledFields, NRsSeqAssumption DEF Filled

\* A feed moves the state with the cells and leaves the stack alone.
LEMMA DecodedFollows ==
  ASSUME NEW m \in Filled, Coherent(m), NEW toks \in Seq(Token)
  PROVE  /\ Decoded(m, toks) \in Filled /\ Coherent(Decoded(m, toks))
         /\ Decoded(m, toks).kv = m.kv \o toks
         /\ Decoded(m, toks).stack = m.stack
         /\ Decoded(m, toks).restored = m.restored
  <1>1. CASE toks = <<>>
    <2>1. m.kv \o toks = m.kv /\ Decoded(m, toks) = m
      BY <1>1, FilledFields, ConcatEmptySeq DEF Decoded
    <2> QED
      BY <2>1
  <1>2. CASE toks # <<>>
    <2> DEFINE d == Decode(m, toks)
    <2>1. Decoded(m, toks) = d
      BY <1>2 DEF Decoded
    <2>2. 0 \in 0..NRsSeq /\ 0 < Len(toks) /\ Len(toks) - 0 = Len(toks)
      BY <1>2, NRsSeqAssumption, EmptySeq
    <2>3. /\ d \in Filled /\ d.kv = m.kv \o toks /\ d.rsIdx = 0 /\ d.stack = m.stack
          /\ d.restored = m.restored
          /\ d.planes[0] = State(m) \o Prefix(toks, Len(toks) - 0)
      BY <2>2, DecodeFilled
    <2> HIDE DEF d
    <2>4. State(m) = m.kv /\ Prefix(toks, Len(toks) - 0) = toks
      BY <2>2, PrefixAll DEF Coherent
    <2>5. Coherent(d)
      BY <2>3, <2>4 DEF Coherent, State
    <2> QED
      BY <2>1, <2>3, <2>5
  <1> QED
    BY <1>1, <1>2

\* What saving an entry changes.
LEMMA SaveFields ==
  ASSUME NEW m \in Filled
  PROVE  /\ RsSave(m) \in Filled
         /\ RsSave(m).kv = m.kv /\ RsSave(m).planes = m.planes
         /\ RsSave(m).rsIdx = m.rsIdx /\ RsSave(m).restored = m.restored
         /\ m.kv # <<>> => RsSave(m).stack = Append(m.stack, m.planes[0])
  <1>1. RsSave(m) \in Filled
    BY SaveFilled
  <1>2. CASE m.kv = <<>>
    BY <1>1, <1>2 DEF RsSave
  <1>3. CASE m.kv # <<>>
    <2> DEFINE s == Append(m.stack, m.planes[0])
    <2>1. RsSave(m) = [m EXCEPT !.stack = s]
      BY <1>3 DEF RsSave
    <2> HIDE DEF s
    <2>2. RsSave(m) = [kv |-> m.kv, planes |-> m.planes, rsIdx |-> m.rsIdx,
                       restored |-> m.restored, stack |-> s]
      BY <2>1, Edits
    <2> QED
      BY <1>1, <2>2 DEF s
  <1> QED
    BY <1>2, <1>3

\* An entry of a sequence is replaced, or none if there is no such entry.
LEMMA EntrySet ==
  ASSUME NEW S, NEW s \in Seq(S), NEW x \in S, NEW k \in Int
  PROVE  /\ [s EXCEPT ![k] = x] \in Seq(S) /\ Len([s EXCEPT ![k] = x]) = Len(s)
         /\ \A j \in 1..Len(s) : [s EXCEPT ![k] = x][j] = IF j = k THEN x ELSE s[j]
  <1> DEFINE t == [j \in 1..Len(s) |-> IF j = k THEN x ELSE s[j]]
  <1>1. Len(s) \in Nat /\ DOMAIN s = 1..Len(s) /\ \A j \in 1..Len(s) : s[j] \in S
    OBVIOUS
  <1>2. t \in Seq(S) /\ Len(t) = Len(s)
    BY <1>1
  <1>3. s = [j \in 1..Len(s) |-> s[j]]
    OBVIOUS
  <1>4. [s EXCEPT ![k] = x] = t
    BY <1>1, <1>3, Zenon
  <1> QED
    BY <1>2, <1>4

\* What overwriting an entry changes.
LEMMA OverwriteFields ==
  ASSUME NEW m \in Filled, NEW i \in Int
  PROVE  /\ RsOverwrite(m, i) \in Filled
         /\ RsOverwrite(m, i).kv = m.kv /\ RsOverwrite(m, i).planes = m.planes
         /\ RsOverwrite(m, i).rsIdx = m.rsIdx /\ RsOverwrite(m, i).restored = m.restored
         /\ Len(RsOverwrite(m, i).stack) = Len(m.stack)
         /\ \A j \in 1..Len(m.stack) :
              RsOverwrite(m, i).stack[j] =
                IF m.kv # <<>> /\ j = i + 1 THEN m.planes[0] ELSE m.stack[j]
  <1> DEFINE s == [m.stack EXCEPT ![i + 1] = m.planes[0]]
  <1>1. CASE m.kv = <<>> \/ i >= Len(m.stack)
    BY <1>1, Edits DEF RsOverwrite
  <1>2. CASE m.kv # <<>> /\ i < Len(m.stack)
    <2>1. /\ s \in Seq(Seq(Token)) /\ Len(s) = Len(m.stack)
          /\ \A j \in 1..Len(m.stack) :
               s[j] = IF j = i + 1 THEN m.planes[0] ELSE m.stack[j]
      <3>1. i + 1 \in Int /\ m.stack \in Seq(Seq(Token)) /\ m.planes[0] \in Seq(Token)
        BY Edits
      <3> QED
        BY <3>1, EntrySet
    <2>2. RsOverwrite(m, i) = [m EXCEPT !.stack = s]
      BY <1>2, Edits DEF RsOverwrite
    <2> HIDE DEF s
    <2>3. RsOverwrite(m, i) = [kv |-> m.kv, planes |-> m.planes, rsIdx |-> m.rsIdx,
                               restored |-> m.restored, stack |-> s]
      BY <2>2, Edits
    <2> QED
      BY <1>2, <2>1, <2>3, Edits DEF Filled
  <1> QED
    BY <1>1, <1>2, Edits

\* The stack operations keep state and cells in step.
LEMMA StackFollows ==
  ASSUME NEW m \in Filled, Coherent(m), NEW i \in Int
  PROVE  /\ RsSave(m) \in Filled /\ Coherent(RsSave(m))
         /\ RsOverwrite(m, i) \in Filled /\ Coherent(RsOverwrite(m, i))
  BY SaveFields, OverwriteFields DEF Coherent, State

\* The cleanup of a verify batch leaves the state of the committed tokens.
LEMMA SettleFollows ==
  ASSUME NEW m \in Filled, Coherent(m), NEW n \in 0..NRsSeq
  PROVE  Settle(m, n) \in Filled /\ Coherent(Settle(m, n))
  <1> DEFINE p == [i \in 0..NRsSeq |->
                     IF i <= n THEN State(m) \o Resized(<<>>, n - i) ELSE m.planes[i]]
  <1>1. CASE n = 0
    BY <1>1 DEF Settle
  <1>2. CASE n # 0
    <2>1. "pad" \in Token
      BY SessionAssumption DEF Kinds
    <2>2. ASSUME NEW k \in Nat
          PROVE  Resized(<<>>, k) \in Seq(Token)
      BY <2>1, EmptySeq DEF Resized
    <2>3. State(m) \in Seq(Token)
      BY FilledFields
    <2>4. ASSUME NEW i \in 0..NRsSeq, i <= n
          PROVE  State(m) \o Resized(<<>>, n - i) \in Seq(Token)
      BY <2>2, <2>3, <2>4, ConcatProperties
    <2>5. p \in [0..NRsSeq -> Seq(Token)]
      BY <2>4, Edits
    <2>6. p[n] = State(m)
      <3>1. p[n] = State(m) \o Resized(<<>>, n - n) /\ n - n = 0
        OBVIOUS
      <3>2. Resized(<<>>, 0) = <<>>
        BY DEF Resized
      <3> QED
        BY <2>3, <3>1, <3>2, ConcatEmptySeq
    <2>7. Settle(m, n) = [m EXCEPT !.planes = p, !.rsIdx = n]
      BY <1>2 DEF Settle
    <2> HIDE DEF p
    <2>8. Settle(m, n) = [kv |-> m.kv, planes |-> p, rsIdx |-> n,
                          restored |-> m.restored, stack |-> m.stack]
      BY <2>7, Edits
    <2> QED
      BY <2>5, <2>6, <2>8, Edits DEF Filled, Coherent, State
  <1> QED
    BY <1>1, <1>2
-----------------------------------------------------------------------------
\* The steps that only feed, sample, save or overwrite: the state follows.

\* A feed,
LEMMA FedFollows ==
  ASSUME LockInv, Follows, NEW toks \in Seq(Token), NEW n \in Fates(toks),
         Fed(mem, tracker, toks, n)
  PROVE  /\ Follows' /\ mem'.stack = mem.stack /\ mem'.restored = mem.restored
         /\ Grown /\ Len(tracker') = Len(tracker) + n
         /\ tracker' = tracker \o Prefix(toks, n)
  <1>1. n \in 0..Len(toks)
    BY FatesRange
  <1>2. /\ tracker' = tracker \o Prefix(toks, n) /\ Len(tracker') = Len(tracker) + n
        /\ mem' = Decoded(mem, Prefix(toks, n))
    BY <1>1, ContextTypes, FedLevel
  <1>3. Prefix(toks, n) \in Seq(Token)
    BY <1>1, PrefixType
  <1>4. /\ Follows' /\ mem'.stack = mem.stack /\ mem'.restored = mem.restored
    BY <1>2, <1>3, DecodedFollows DEF Follows
  <1> QED
    BY <1>2, <1>4, GrownFed

\* and a sampled token.
LEMMA CommitFollows ==
  ASSUME LockInv, Follows, NEW t \in Token, Commits(t)
  PROVE  /\ Decode(mem, <<t>>) \in Filled /\ Coherent(Decode(mem, <<t>>))
         /\ Decode(mem, <<t>>).stack = mem.stack
         /\ Decode(mem, <<t>>).restored = mem.restored
         /\ Decode(mem, <<t>>).kv = mem.kv \o <<t>> /\ tracker' = mem.kv \o <<t>>
         /\ Grown
  <1>1. <<t>> \in Seq(Token) /\ <<t>> # <<>>
    OBVIOUS
  <1>2. Decoded(mem, <<t>>) = Decode(mem, <<t>>)
    BY <1>1 DEF Decoded
  <1>3. tracker' = mem.kv \o <<t>>
    BY ContextTypes, AppendIsConcat DEF Commits
  <1>4. mem \in Filled /\ Coherent(mem)
    BY DEF Follows
  <1>5. /\ Decoded(mem, <<t>>) \in Filled /\ Coherent(Decoded(mem, <<t>>))
        /\ Decoded(mem, <<t>>).kv = mem.kv \o <<t>>
        /\ Decoded(mem, <<t>>).stack = mem.stack
        /\ Decoded(mem, <<t>>).restored = mem.restored
    BY <1>1, <1>4, DecodedFollows
  <1>6. Grown
    BY GrownCommit
  <1> QED
    BY <1>2, <1>3, <1>5, <1>6

\* The steps of the loop that feed and that only move the latches, by the block fed.
LEMMA QuietFollows ==
  ASSUME LockInv, Follows, NEW n,
         \/ Prompt(n) \/ PromptTooLong \/ AutoContinue \/ ContinueInterrupted
         \/ ContinueFinished(n) \/ StartGeneration
         \/ RecoveryExhausted \/ StuckCall \/ NoTool
         \/ CorrectionDoesNotFit \/ CorrectionInvalid \/ CorrectionFailed
         \/ ExecuteInPlace \/ (\E b \in BOOLEAN : BadCall(b))
         \/ Recover(n) \/ FeedAbort(n) \/ AskCorrection(n) \/ Inject(n)
         \/ (\E b \in BOOLEAN : RunTool(b, n)) \/ FinishPlain
  PROVE  Follows' /\ mem'.stack = mem.stack /\ mem'.restored = mem.restored /\ Grown
  <1>1. CASE Prompt(n) \/ ContinueFinished(n) \/ Recover(n) \/ FeedAbort(n)
             \/ AskCorrection(n) \/ Inject(n) \/ (\E b \in BOOLEAN : RunTool(b, n))
    <2>1. \/ UNCHANGED ctxVars
          \/ \E toks \in Seq(Token) : n \in Fates(toks) /\ Fed(mem, tracker, toks, n)
      BY <1>1, Blocks
      DEF Prompt, ContinueFinished, Recover, FeedAbort, AskCorrection, Inject, RunTool
    <2>2. CASE UNCHANGED ctxVars
      BY <2>2, GrownSame DEF ctxVars, Follows
    <2> QED
      BY <2>1, <2>2, FedFollows
  <1>2. CASE \/ PromptTooLong \/ AutoContinue \/ ContinueInterrupted \/ StartGeneration
             \/ RecoveryExhausted \/ StuckCall \/ NoTool
             \/ CorrectionDoesNotFit \/ CorrectionInvalid \/ CorrectionFailed
             \/ ExecuteInPlace \/ (\E b \in BOOLEAN : BadCall(b)) \/ FinishPlain
    <2>1. mem' = mem /\ tracker' = tracker
      BY <1>2
      DEF PromptTooLong, AutoContinue, ContinueInterrupted, StartGeneration,
          RecoveryExhausted, StuckCall, NoTool, CorrectionDoesNotFit, CorrectionInvalid,
          CorrectionFailed, ExecuteInPlace, BadCall, FinishPlain, ctxVars
    <2> QED
      BY <2>1, GrownSame DEF Follows
  <1> QED
    BY <1>1, <1>2

\* The drafts that are ahead fit into the snapshot window.
LEMMA AheadRange ==
  ASSUME NEW n \in Ahead
  PROVE  n \in 0..NRsSeq /\ n \in Nat
  BY NRsSeqAssumption DEF Ahead

\* The steps of a generation, with any number of drafts ahead at its end.
LEMMA GenFollows ==
  ASSUME LockInv, Follows, NEW n \in Ahead,
         \/ GenWord \/ GenEog(n) \/ GenInterrupted(n) \/ GenCrosses(n) \/ GenSimulates(n)
         \/ GenExhausted \/ \E b \in BOOLEAN : GenBody(b, n)
  PROVE  /\ Follows' /\ Grown
         /\ NRsSeq = 0 => mem'.stack = mem.stack /\ mem'.restored = mem.restored
  <1>1. /\ n \in 0..NRsSeq /\ (NRsSeq = 0 => n = 0) /\ mem \in Filled /\ Coherent(mem)
    BY AheadRange DEF Follows
  <1>2. ASSUME NEW m \in Filled, Coherent(m), mem' = m \/ mem' = Settle(m, n)
        PROVE  /\ Follows'
               /\ NRsSeq = 0 => mem'.stack = m.stack /\ mem'.restored = m.restored
    BY <1>1, <1>2, SettleFollows DEF Follows, Settle
  <1>3. CASE GenWord \/ GenEog(n) \/ \E b \in BOOLEAN : GenBody(b, n)
    <2>1. PICK t \in Token : /\ Commits(t)
                             /\ \/ mem' = Decode(mem, <<t>>)
                                \/ mem' = Settle(Decode(mem, <<t>>), n)
      BY <1>3, Blocks DEF GenWord, GenEog, GenBody
    <2> QED
      BY <1>2, <2>1, CommitFollows
  <1>4. CASE GenInterrupted(n) \/ GenCrosses(n) \/ GenSimulates(n) \/ GenExhausted
    <2>1. tracker' = tracker /\ (mem' = mem \/ mem' = Settle(mem, n))
      BY <1>4 DEF GenInterrupted, GenCrosses, GenSimulates, GenExhausted, ctxVars
    <2> QED
      BY <1>1, <1>2, <2>1, GrownSame
  <1> QED
    BY <1>3, <1>4

\* The hook behind FUNC_START only copies the state to the stack.
LEMMA FuncStartFollows ==
  ASSUME LockInv, Follows, NEW b \in BOOLEAN, GenFuncStart(b)
  PROVE  Follows'
  <1> DEFINE m == Decode(mem, <<"func">>)
             i == IF slot.idx < 0 THEN Len(cps) - offset ELSE slot.idx
  <1>1. m \in Filled /\ Coherent(m)
    BY Blocks, CommitFollows DEF GenFuncStart
  <1>2. mem' = m \/ mem' = SlotEntry(m, i)
    BY DEF GenFuncStart, Hooked
  <1>3. i \in Int
    BY ContextTypes
  <1> HIDE DEF m, i
  <1> QED
    BY <1>1, <1>2, <1>3, StackFollows DEF Follows, SlotEntry

\* A fresh session.
LEMMA ClearedFollows ==
  ASSUME NEW n \in 0..1, Cleared(n)
  PROVE  Follows' /\ mem'.stack = <<>> /\ ~mem'.restored
  <1>1. Fed(EmptyMem, <<>>, SystemPrompt, n) /\ Len(SystemPrompt) = 1
        /\ SystemPrompt \in Seq(Token)
    BY Blocks DEF Cleared, Clear
  <1>2. mem' = Decoded(EmptyMem, Prefix(SystemPrompt, n)) /\ Prefix(SystemPrompt, n) \in Seq(Token)
    BY <1>1, PrefixType DEF Fed
  <1>3. EmptyMem.stack = <<>> /\ ~EmptyMem.restored
    BY DEF EmptyMem
  <1> QED
    BY <1>2, <1>3, EmptyFilled, DecodedFollows DEF Follows

\* A state that is decoded from nothing and saved.
LEMMA AnewFollows ==
  ASSUME NEW toks \in Seq(Token), toks # <<>>,
         mem' = RsSave(Decoded(EmptyMem, toks))
  PROVE  Follows' /\ mem'.stack = <<toks>> /\ ~mem'.restored
  <1> DEFINE d == Decoded(EmptyMem, toks)
  <1>1. EmptyMem.stack = <<>> /\ ~EmptyMem.restored /\ EmptyMem.kv = <<>>
    BY DEF EmptyMem
  <1>2. <<>> \o toks = toks
    BY ConcatEmptySeq
  <1>3. d \in Filled /\ Coherent(d) /\ d.kv = toks /\ d.stack = <<>> /\ ~d.restored
    BY <1>1, <1>2, EmptyFilled, DecodedFollows
  <1>4. d.rsIdx = 0
    <2>1. d = Decode(EmptyMem, toks)
      BY DEF Decoded
    <2> QED
      BY <2>1, EmptyFilled, DecodeFilled
  <1> HIDE DEF d
  <1>5. d.planes[0] = toks
    BY <1>3, <1>4 DEF Coherent, State
  <1>6. RsSave(d).stack = Append(<<>>, toks)
    BY <1>3, <1>5, SaveFields
  <1> QED
    BY <1>3, <1>6, StackFollows, SaveFields DEF Follows, d

\* /load decodes the saved tokens and pushes one entry.
LEMMA LoadFollows ==
  ASSUME LockInv, NEW tail \in {<<>>, <<"user">>}, LoadCommand(tail)
  PROVE  Follows' /\ mem'.stack = <<tracker'>> /\ ~mem'.restored
  <1>1. tracker' = Saved.tokens \o tail /\ mem' = RsSave(Decode(EmptyMem, tracker'))
    BY DEF LoadCommand, Clear
  <1>2. Saved.tokens \in Seq(Token) /\ tail \in Seq(Token) /\ Len(Saved.tokens) = 5
    BY Blocks
  <1>3. tracker' \in Seq(Token) /\ tracker' # <<>>
    BY <1>1, <1>2, FirstKept, ConcatProperties
  <1>4. Decoded(EmptyMem, tracker') = Decode(EmptyMem, tracker')
    BY <1>3 DEF Decoded
  <1> QED
    BY <1>1, <1>3, <1>4, AnewFollows

\* The end of a turn only copies the state to the stack.
LEMMA FinishFollows ==
  ASSUME LockInv, Follows, FinishTurn \/ FinishResumed
  PROVE  Follows'
  <1>1. \/ \E i \in Int : mem' = RsOverwrite(mem, i)
        \/ mem' = RsSave(mem) \/ mem' = mem
    <2>1. slot.idx \in Int /\ provisional - offset \in Int
      BY ContextTypes
    <2> QED
      BY <2>1 DEF FinishTurn, FinishResumed, TurnEntry, EntryMoved
  <1> QED
    BY <1>1, StackFollows DEF Follows

\* A session starts with the system prompt decoded.
LEMMA InitFollows ==
  ASSUME Init
  PROVE  Follows /\ mem.stack = <<>> /\ ~mem.restored /\ tracker = <<"sys">>
  <1>1. SystemPrompt \in Seq(Token) /\ SystemPrompt = <<"sys">>
    BY Blocks
  <1>2. mem = Decoded(EmptyMem, SystemPrompt)
    BY <1>1 DEF Init, Decoded
  <1>3. EmptyMem.stack = <<>> /\ ~EmptyMem.restored
    BY DEF EmptyMem
  <1> QED
    BY <1>1, <1>2, <1>3, EmptyFilled, DecodedFollows, ZenonT(30) DEF Follows, Init

-----------------------------------------------------------------------------
\* Without anything to take back.

NothingTakenBack == \A s \in Scenarios : s \cap {"bad", "undo"} = {}

\* Every step but /undo and the rollbacks keeps state and cells together.
LEMMA StepForward ==
  ASSUME NothingTakenBack, LockInv, Follows, [Next]_vars
  PROVE  Follows'
  <1>1. features \cap {"bad", "undo"} = {} /\ ~Correcting /\ ~Injecting
    BY ContextTypes DEF NothingTakenBack, LockInv, Latches
  <1>2. CASE UNCHANGED vars
    BY <1>2 DEF vars, ctxVars, Follows
  <1>3. CASE UserStep
    <2>1. CASE \E n \in 0..3 : Prompt(n) \/ ContinueFinished(n)
      BY <2>1, QuietFollows
    <2>2. CASE \E n \in 0..3 : ClearCommand(n)
      <3>1. PICK n \in 0..3 : ClearCommand(n)
        BY <2>2
      <3>2. n \in 0..1 /\ Cleared(n)
        BY <3>1, Blocks DEF ClearCommand
      <3> QED
        BY <3>2, ClearedFollows
    <2>3. CASE PromptTooLong \/ ContinueInterrupted
      BY <2>3, QuietFollows
    <2>4. CASE \E tail \in {<<>>, <<"user">>} : LoadCommand(tail)
      BY <2>4, LoadFollows
    <2>5. CASE \E sel \in 0..Len(cps) : UndoFast(sel) \/ \E n \in Lengths : UndoSlow(sel, n)
      BY <1>1, <2>5 DEF UndoFast, UndoSlow, Undoable
    <2> QED
      BY <1>3, <2>1, <2>2, <2>3, <2>4, <2>5 DEF UserStep
  <1>4. CASE AutoContinue \/ StartGeneration
    BY <1>4, QuietFollows
  <1>5. CASE GenStep
    <2>1. 0 \in Ahead
      BY DEF Ahead
    <2>2. CASE GenWord \/ GenExhausted
      BY <2>1, <2>2, GenFollows
    <2>3. CASE \E b \in BOOLEAN : GenFuncStart(b)
      BY <2>3, FuncStartFollows
    <2>4. CASE \E n \in Ahead : \/ GenEog(n) \/ (\E b \in BOOLEAN : GenBody(b, n))
                                \/ GenInterrupted(n) \/ GenCrosses(n) \/ GenSimulates(n)
      BY <2>4, GenFollows
    <2> QED
      BY <1>4, <1>5, <2>2, <2>3, <2>4 DEF GenStep
  <1>6. CASE ToolStep
    <2>1. CASE \/ RecoveryExhausted \/ StuckCall \/ NoTool \/ CorrectionDoesNotFit
               \/ CorrectionInvalid \/ CorrectionFailed \/ ExecuteInPlace
               \/ (\E b \in BOOLEAN : BadCall(b))
      BY <2>1, QuietFollows
    <2>2. CASE RollBackFast \/ RollBackAborts \/ \E n \in Lengths : RollBackAnchor(n)
      BY <1>1, <2>2
      DEF RollBackFast, RollBackAborts, RollBackAnchor, Reachable, Correcting
    <2>3. CASE \E n \in Lengths : \/ Recover(n) \/ (\E b \in BOOLEAN : RunTool(b, n))
                                  \/ FeedAbort(n) \/ AskCorrection(n) \/ Inject(n)
      BY <2>3, QuietFollows
    <2> QED
      BY <1>6, <2>1, <2>2, <2>3 DEF ToolStep
  <1>7. CASE FinishStep
    BY <1>7, FinishFollows, QuietFollows DEF FinishStep
  <1> QED
    BY <1>2, <1>3, <1>4, <1>5, <1>6, <1>7 DEF Next, LoopStep

\* With any depth of the snapshot window, drafts pending or not: as long as nothing
\* is taken back, by /undo or by a correction, the model remembers what the tracker
\* and the cache say, through interruptions, resumptions, /clear and /load.
THEOREM SessionForward ==
  ASSUME NothingTakenBack
  PROVE  Spec => []RecurrentInStep
  <1>1. NoOrphans
    BY DEF NothingTakenBack, NoOrphans
  <1>2. Init => LockInv /\ Follows
    BY InitLock, InitFollows
  <1>3. LockInv /\ Follows /\ [Next]_vars => (LockInv /\ Follows)'
    BY <1>1, StepLock, StepForward
  <1>4. Follows => RecurrentInStep
    BY DEF Follows, RecurrentInStep
  <1> QED
    BY <1>2, <1>3, <1>4, PTL DEF Spec
-----------------------------------------------------------------------------
\* Going back, without a snapshot window.

\* Restoring an entry that is there.
LEMMA RestoreFields ==
  ASSUME NEW m \in Filled, m.kv # <<>>, NEW i \in 0..(Len(m.stack) - 1)
  PROVE  /\ RsRestore(m, i) \in Filled
         /\ RsRestore(m, i).kv = m.kv /\ RsRestore(m, i).stack = m.stack
         /\ RsRestore(m, i).planes[0] = m.stack[i + 1]
         /\ RsRestore(m, i).rsIdx = 0 /\ RsRestore(m, i).restored
  <1> DEFINE p == [m.planes EXCEPT ![0] = m.stack[i + 1]]
  <1>1. m.stack[i + 1] \in Seq(Token) /\ 0 \in 0..NRsSeq /\ i < Len(m.stack)
    BY Edits, NRsSeqAssumption
  <1>2. p \in [0..NRsSeq -> Seq(Token)] /\ p[0] = m.stack[i + 1]
    BY <1>1, Edits
  <1>3. RsRestore(m, i) = [m EXCEPT !.planes = p, !.rsIdx = 0, !.restored = TRUE]
    BY <1>1, Edits DEF RsRestore
  <1> HIDE DEF p
  <1>4. RsRestore(m, i) = [kv |-> m.kv, planes |-> p, rsIdx |-> 0, restored |-> TRUE,
                           stack |-> m.stack]
    BY <1>3, Edits
  <1> QED
    BY <1>1, <1>2, <1>4, Edits DEF Filled

\* Pruning behind an entry that is there.
LEMMA PruneFields ==
  ASSUME NEW m \in Filled, NEW i \in 0..(Len(m.stack) - 1)
  PROVE  /\ RsPrune(m, i) \in Filled
         /\ RsPrune(m, i).kv = m.kv /\ RsPrune(m, i).planes = m.planes
         /\ RsPrune(m, i).rsIdx = m.rsIdx /\ RsPrune(m, i).restored = m.restored
         /\ Len(RsPrune(m, i).stack) = i + 1
         /\ \A j \in 1..(i + 1) : RsPrune(m, i).stack[j] = m.stack[j]
  <1> DEFINE s == [j \in 1..(i + 1) |-> IF j <= Len(m.stack) THEN m.stack[j] ELSE Blank]
  <1>1. \A j \in 1..(i + 1) : j \in 1..Len(m.stack) /\ m.stack[j] \in Seq(Token)
    BY Edits
  <1>2. s \in Seq(Seq(Token)) /\ Len(s) = i + 1 /\ \A j \in 1..(i + 1) : s[j] = m.stack[j]
    BY <1>1
  <1>3. RsPrune(m, i) = [m EXCEPT !.stack = s]
    BY DEF RsPrune
  <1> HIDE DEF s
  <1>4. RsPrune(m, i) = [kv |-> m.kv, planes |-> m.planes, rsIdx |-> m.rsIdx,
                         restored |-> m.restored, stack |-> s]
    BY <1>3, Edits
  <1> QED
    BY <1>2, <1>4, Edits DEF Filled

\* The cells follow a state that was restored.
LEMMA SeqRmRestored ==
  ASSUME NRsSeq = 0, NEW m \in Filled, m.restored, NEW p \in 0..Len(m.kv),
         m.planes[0] = Prefix(m.kv, p)
  PROVE  /\ SeqRmOk(m, p) /\ SeqRm(m, p) \in Filled /\ Coherent(SeqRm(m, p))
         /\ SeqRm(m, p).kv = Prefix(m.kv, p) /\ SeqRm(m, p).stack = m.stack
         /\ p < Len(m.kv) => ~SeqRm(m, p).restored
  <1>1. SeqRmOk(m, p) /\ m.rsIdx = 0 /\ Len(m.kv) \in Nat /\ p \in Nat /\ p <= Len(m.kv)
    BY Edits DEF SeqRmOk
  <1>2. SeqRm(m, p) \in Filled /\ SeqRm(m, p).stack = m.stack
        /\ SeqRm(m, p).kv = Prefix(m.kv, p)
    BY <1>1, SeqRmFilled
  <1>3. CASE p = Len(m.kv)
    <2>1. SeqRm(m, p) = m
      BY <1>1, <1>3 DEF SeqRm
    <2> QED
      BY <1>1, <1>2, <1>3, <2>1 DEF Coherent, State
  <1>4. CASE p # Len(m.kv)
    <2>1. ~(Len(m.kv) <= p) /\ ~InWindow(m, p)
      BY <1>1, <1>4 DEF InWindow, Distance
    <2>2. SeqRm(m, p) = [m EXCEPT !.kv = Prefix(m.kv, p), !.rsIdx = 0, !.restored = FALSE]
      BY <1>1, <2>1 DEF SeqRm
    <2>3. SeqRm(m, p) = [kv |-> Prefix(m.kv, p), planes |-> m.planes, rsIdx |-> 0,
                         restored |-> FALSE, stack |-> m.stack]
      BY <2>2, Edits
    <2> QED
      BY <1>1, <1>2, <2>3 DEF Coherent, State
  <1> QED
    BY <1>3, <1>4

\* Without a restore only what is not there can be removed.
LEMMA SeqRmRefused ==
  ASSUME NRsSeq = 0, NEW m \in Filled, ~m.restored, NEW p \in Nat, p < Len(m.kv)
  PROVE  ~SeqRmOk(m, p)
  BY Edits DEF SeqRmOk, InWindow, Distance

-----------------------------------------------------------------------------
\* The invariant, step by step.

\* What the scenarios without a window allow, and what the lockstep invariant then gives.
LEMMA WindowHyps ==
  ASSUME NoWindow
  PROVE  /\ NRsSeq = 0 /\ NoOrphans
         /\ LockInv => /\ MarksOrdered /\ Orderly(features)
                       /\ "bad" \in features /\ TargetUsed =>
                            /\ slot.target <= Len(tracker)
                            /\ \A i \in 1..Len(cps) : cps[i] <= slot.target
  <1>1. NRsSeq = 0 /\ \A s \in Scenarios : Orderly(s)
    BY DEF NoWindow
  <1>2. NoOrphans
    BY <1>1 DEF NoOrphans, Orderly
  <1>3. ASSUME LockInv
        PROVE  /\ MarksOrdered /\ Orderly(features)
               /\ "bad" \in features /\ TargetUsed =>
                    /\ slot.target <= Len(tracker)
                    /\ \A i \in 1..Len(cps) : cps[i] <= slot.target
    <2>1. Orderly(features)
      BY <1>1, <1>3, ContextTypes
    <2>2. MarksKept
      BY <2>1 DEF Orderly, MarksKept
    <2> QED
      BY <1>3, <2>1, <2>2 DEF LockInv, Marks, BeforeCall
  <1> QED
    BY <1>1, <1>2, <1>3

\* The state is the context, in plane 0.
LEMMA FollowsFlat ==
  ASSUME NoWindow, LockInv, Follows
  PROVE  /\ mem.rsIdx = 0 /\ mem.planes[0] = tracker /\ mem.kv = tracker
         /\ mem \in Filled /\ State(mem) = tracker
  <1>1. mem \in Filled /\ mem.rsIdx = 0
    BY Edits DEF NoWindow, Follows
  <1> QED
    BY <1>1, ContextTypes DEF Follows, Coherent, State

\* What was a prefix of the context stays one when the context grows.
LEMMA GrownPrefix ==
  ASSUME LockInv, LockInv', Grown, NEW k \in 0..Len(tracker)
  PROVE  Prefix(tracker', k) = Prefix(tracker, k)
  <1>1. tracker \in Seq(Token) /\ tracker' \in Seq(Token) /\ Len(tracker) \in Nat
        /\ Len(tracker') \in Nat
    BY ContextTypes DEF LockInv, Context, Lockstep, Shape
  <1>2. k \in 0..Len(tracker') /\ \A i \in 1..k : tracker'[i] = tracker[i]
    BY <1>1 DEF Grown
  <1>3. /\ Prefix(tracker, k) \in Seq(Token) /\ Len(Prefix(tracker, k)) = k
        /\ \A i \in 1..k : Prefix(tracker, k)[i] = tracker[i]
    BY <1>1, PrefixType
  <1>4. /\ Prefix(tracker', k) \in Seq(Token) /\ Len(Prefix(tracker', k)) = k
        /\ \A i \in 1..k : Prefix(tracker', k)[i] = tracker'[i]
    BY <1>1, <1>2, PrefixType
  <1> QED
    BY <1>2, <1>3, <1>4, SeqEqual

\* A step that adds to the context and leaves the stack, its entries and the slot.
LEMMA GrownMem ==
  ASSUME NoWindow, LockInv, LockInv', MemInv, mem'.stack = mem.stack,
         mem'.restored = mem.restored, Grown, cps' = cps, offset' = offset,
         provisional' = provisional \/ provisional' = -1, features' = features,
         slot'.idx = slot.idx, slot'.saved = slot.saved,
         "bad" \in features /\ TargetUsed' => TargetUsed /\ slot' = slot,
         "undo" \in features /\ ~Idle' => ~Idle \/ Len(tracker') > Len(tracker)
  PROVE  Entries' /\ SlotOpen' /\ Apart'
  <1>1. /\ tracker \in Seq(Token) /\ Len(tracker) \in Nat /\ cps \in Seq(Nat)
        /\ Len(cps) \in Nat /\ offset \in Nat
        /\ \A i \in 1..Len(cps) : cps[i] \in 0..Len(tracker)
    BY WindowHyps, ContextTypes DEF MarksOrdered
  <1>2. Len(tracker') \in Nat /\ Len(tracker') >= Len(tracker)
    BY DEF Grown, LockInv, Context, Lockstep, Shape
  <1>3. Entries'
    <2>1. \A i \in (offset + 1)..Len(cps) : Prefix(tracker', cps[i]) = Prefix(tracker, cps[i])
      <3>1. \A i \in (offset + 1)..Len(cps) : i \in 1..Len(cps)
        BY <1>1
      <3> QED
        BY <1>1, <3>1, GrownPrefix
    <2>2. provisional' >= 0 => provisional >= 0 /\ provisional' = provisional
      OBVIOUS
    <2> QED
      BY <2>1, <2>2 DEF MemInv, Entries
  <1>4. SlotOpen'
    <2>1. "bad" \in features /\ TargetUsed' =>
            Prefix(tracker', slot.target) = Prefix(tracker, slot.target)
      BY WindowHyps, ContextTypes, GrownPrefix
    <2> QED
      BY <1>1, <1>2, <2>1 DEF MemInv, SlotOpen
  <1>5. Apart'
    <2>1. ASSUME {"undo", "load"} \subseteq features, ~Idle', NEW i \in 1..Len(cps)
          PROVE  cps[i] < Len(tracker')
      <3>1. CASE ~Idle
        BY <1>1, <1>2, <2>1, <3>1 DEF MemInv, Apart
      <3>2. CASE Len(tracker') > Len(tracker)
        BY <1>1, <1>2, <3>2
      <3> QED
        BY <2>1, <3>1, <3>2
    <2> QED
      BY <2>1 DEF MemInv, Apart
  <1> QED
    BY <1>3, <1>4, <1>5

\* The same within a turn.
LEMMA LoopMem ==
  ASSUME NoWindow, LockInv, LockInv', MemInv, Follows', mem'.stack = mem.stack,
         mem'.restored = mem.restored, Grown, cps' = cps, offset' = offset,
         provisional' = provisional \/ provisional' = -1, features' = features,
         slot'.idx = slot.idx, slot'.saved = slot.saved,
         "bad" \in features /\ TargetUsed' => TargetUsed /\ slot' = slot,
         ~Idle, flag'.input = flag.input,
         pc' = "finish" \/ (pc' = "tool" /\ gen'.result # "call") => ~flag'.auto,
         Idle' => features \cap {"bad", "continue"} # {}
  PROVE  MemInv'
  <1>1. Entries' /\ SlotOpen' /\ Apart'
    BY GrownMem
  <1>2. tracker' # <<>>
    <2>1. tracker # <<>> /\ Len(tracker) \in Nat /\ tracker \in Seq(Token)
      BY ContextTypes DEF MemInv, Turns
    <2> QED
      BY <2>1, EmptySeq DEF Grown
  <1>3. Turns'
    BY <1>2, WindowHyps DEF MemInv, Turns, Orderly
  <1> QED
    BY <1>1, <1>3 DEF MemInv

\* A prompt, fed, cut or refused.
LEMMA PromptMem ==
  ASSUME NoWindow, LockInv, LockInv', MemInv, NEW n, Prompt(n) \/ PromptTooLong
  PROVE  MemInv'
  <1>1. Follows' /\ mem'.stack = mem.stack /\ mem'.restored = mem.restored /\ Grown
    BY QuietFollows DEF MemInv
  <1>2. /\ cps' = cps /\ offset' = offset /\ slot' = slot /\ features' = features
        /\ (TargetUsed' => TargetUsed)
    BY QuietUsed
  <1>3. provisional' = -1 /\ Idle /\ pc = "input" /\ pc' \in {"start", "input"}
    BY DEF Prompt, PromptTooLong, Types, Idle
  <1>4. flag'.input /\ flag'.auto = flag.auto
    BY ContextTypes DEF Prompt, PromptTooLong, Flag
  <1>5. ~Idle' => Len(tracker') > Len(tracker)
    <2>1. SUFFICES ASSUME ~Idle'
                   PROVE  Len(tracker') > Len(tracker)
      OBVIOUS
    <2>2. CASE Prompt(n)
      <3>1. n = Len(UserTurn) /\ n \in Fates(UserTurn) /\ Fed(mem, tracker, UserTurn, n)
        BY <1>3, <1>4, <2>1, <2>2 DEF Prompt, Idle
      <3>2. UserTurn \in Seq(Token) /\ n >= 1 /\ n \in Nat
        <4>1. UserTurn \in Seq(Token)
          BY Blocks
        <4>2. UserTurn = <<"close">> \o <<"user">> \/ UserTurn = <<>> \o <<"user">>
          BY DEF UserTurn
        <4> QED
          BY <3>1, <4>1, <4>2
      <3>3. Len(tracker') = Len(tracker) + n
        BY <3>1, <3>2, FedFollows DEF MemInv
      <3> QED
        BY <3>2, <3>3, ContextTypes
    <2>3. CASE PromptTooLong
      BY <1>3, <1>4, <2>1, <2>3 DEF PromptTooLong, Idle
    <2> QED
      BY <2>2, <2>3
  <1>6. Entries' /\ SlotOpen' /\ Apart'
    BY <1>1, <1>2, <1>3, <1>5, GrownMem
  <1>7. Turns'
    <2>1. ~Idle' \/ "cut" \notin features => tracker' # <<>>
      <3>1. Len(tracker) \in Nat /\ tracker \in Seq(Token)
        BY ContextTypes
      <3>2. ~Idle' \/ tracker # <<>> => Len(tracker') > 0
        BY <1>1, <1>5, <3>1, EmptySeq DEF Grown
      <3> QED
        BY <1>3, <3>2, EmptySeq DEF MemInv, Turns
    <2> QED
      BY <1>2, <1>3, <1>4, <2>1 DEF MemInv, Turns
  <1> QED
    BY <1>1, <1>6, <1>7 DEF MemInv

\* /continue.
LEMMA ContinueMem ==
  ASSUME NoWindow, LockInv, LockInv', MemInv, NEW n, ContinueInterrupted \/ ContinueFinished(n)
  PROVE  MemInv'
  <1>1. Follows' /\ mem'.stack = mem.stack /\ mem'.restored = mem.restored /\ Grown
    BY QuietFollows DEF MemInv
  <1>2. /\ cps' = cps /\ offset' = offset /\ slot' = slot /\ features' = features
        /\ (TargetUsed' => TargetUsed)
    BY QuietUsed
  <1>3. /\ "continue" \in features /\ Idle /\ provisional' = provisional /\ pc' = "start"
    BY DEF ContinueInterrupted, ContinueFinished, bookVars
  <1>4. {"undo", "cut"} \cap features = {}
    BY <1>3, WindowHyps DEF Orderly
  <1>5. Entries' /\ SlotOpen' /\ Apart'
    BY <1>1, <1>2, <1>3, <1>4, GrownMem
  <1>6. tracker' # <<>>
    <2>1. tracker # <<>> /\ Len(tracker) \in Nat /\ tracker \in Seq(Token)
      BY <1>4, ContextTypes DEF MemInv, Turns
    <2> QED
      BY <1>1, <2>1, EmptySeq DEF Grown
  <1>7. Turns'
    BY <1>2, <1>3, <1>4, <1>6 DEF MemInv, Turns
  <1> QED
    BY <1>1, <1>5, <1>7 DEF MemInv

\* The next round of the automatic chain, and the start of a generation.
LEMMA StartMem ==
  ASSUME NoWindow, LockInv, LockInv', MemInv, AutoContinue \/ StartGeneration
  PROVE  MemInv'
  <1>1. Follows' /\ mem'.stack = mem.stack /\ mem'.restored = mem.restored /\ Grown
    BY QuietFollows DEF MemInv
  <1>2. CASE AutoContinue
    <2>1. /\ cps' = cps /\ offset' = offset /\ slot' = slot /\ features' = features
          /\ (TargetUsed' => TargetUsed)
      BY <1>2, QuietUsed
    <2>2. provisional' = provisional /\ ~Idle /\ ~Idle' /\ flag' = flag /\ pc' = "start"
      BY <1>2 DEF AutoContinue, bookVars, Idle
    <2> QED
      BY <1>1, <2>1, <2>2, LoopMem
  <1>3. CASE StartGeneration
    <2> DEFINE d == IF flag.auto THEN flag.depth ELSE 0
               f == [flag EXCEPT !.toolPending = FALSE, !.depth = d]
    <2>1. /\ cps' = cps /\ offset' = offset /\ features' = features /\ pc' = "gen"
          /\ pc \in {"start", "repair"} /\ provisional' = provisional
          /\ gen' = [call |-> flag.toolPending, correcting |-> pc = "repair",
                     result |-> "none"]
          /\ (flag' = Latched(f) \/ flag' = f)
          /\ slot' = slot \/ (pc = "start" /\ slot' = [slot EXCEPT !.has = FALSE])
      BY <1>3 DEF StartGeneration
    <2>2. d \in Int
      BY ContextTypes DEF Flag
    <2> HIDE DEF d
    <2>3. f \in Flag /\ f.input = flag.input
      BY <2>2, ContextTypes DEF Flag
    <2> HIDE DEF f
    <2>4. flag'.input = flag.input
      BY <2>1, <2>3, LatchedFlag
    <2>5. slot'.idx = slot.idx /\ slot'.saved = slot.saved
      BY <2>1, ContextTypes DEF Slot
    <2>6. "bad" \in features /\ TargetUsed' => TargetUsed /\ slot' = slot
      <3>1. SUFFICES ASSUME "bad" \in features
                     PROVE  TargetUsed' => TargetUsed /\ slot' = slot
        OBVIOUS
      <3>2. pc = "start" => ~flag.toolPending
        BY <3>1, WindowHyps DEF Orderly, LockInv, Latches
      <3> QED
        BY <2>1, <3>2 DEF TargetUsed, Correcting
    <2> QED
      BY <1>1, <2>1, <2>4, <2>5, <2>6, LoopMem DEF Idle
  <1> QED
    BY <1>2, <1>3

\* The latches after the steps that dispatch on a generation's result.
LEMMA QuietFlags ==
  ASSUME NoWindow, LockInv, MemInv, NEW n,
         \/ RecoveryExhausted \/ StuckCall \/ NoTool
         \/ CorrectionDoesNotFit \/ CorrectionInvalid \/ CorrectionFailed
         \/ ExecuteInPlace \/ (\E b \in BOOLEAN : BadCall(b))
         \/ Recover(n) \/ FeedAbort(n) \/ AskCorrection(n) \/ Inject(n)
         \/ (\E b \in BOOLEAN : RunTool(b, n)) \/ FinishPlain
  PROVE  /\ ~Idle /\ flag'.input = flag.input /\ provisional' = provisional
         /\ pc' = "finish" \/ (pc' = "tool" /\ gen'.result # "call") => ~flag'.auto
         /\ Idle' => features \cap {"bad", "continue"} # {}
  <1>0. /\ flag \in Flag /\ gen \in Gen
        /\ ("bad" \notin features => ~Correcting /\ ~Injecting /\ ~gen.correcting)
        /\ (pc = "finish" \/ (pc = "tool" /\ gen.result # "call") => ~flag.auto)
        /\ (~Idle /\ "continue" \notin features => flag.input)
    BY ContextTypes DEF MemInv, Turns, LockInv, Latches
  <1>1. CASE CorrectionDoesNotFit \/ FinishPlain
    <2>1. flag'.input = flag.input
      BY <1>0, <1>1, LatchedFlag DEF CorrectionDoesNotFit, FinishPlain
    <2> QED
      BY <1>0, <1>1, <2>1
      DEF CorrectionDoesNotFit, FinishPlain, bookVars, Idle, Correcting
  <1>2. CASE CorrectionInvalid \/ AskCorrection(n) \/ Inject(n)
    <2>1. flag'.input = flag.input
      <3>1. CASE Eject
        BY <1>0, <3>1, EjectFlag
      <3>2. CASE ~Eject
        BY <1>0, <1>2, <3>2 DEF CorrectionInvalid, AskCorrection, Inject, Flag
      <3> QED
        BY <3>1, <3>2
    <2>2. /\ pc \in {"corrected", "correct", "injectFast", "injectAnchor"}
          /\ provisional' = provisional /\ gen' = gen
          /\ pc' = "input" \/ pc' = "repair" \/ (pc' = "tool" /\ Injecting)
      BY <1>2 DEF CorrectionInvalid, AskCorrection, Inject, Eject, bookVars, Injecting
    <2>3. Injecting => gen.result = "call"
      BY DEF LockInv, Latches
    <2> QED
      BY <1>0, <2>1, <2>2, <2>3 DEF Idle, Correcting, Injecting
  <1>3. CASE RecoveryExhausted \/ StuckCall \/ NoTool \/ CorrectionFailed \/ ExecuteInPlace
             \/ (\E b \in BOOLEAN : BadCall(b))
    <2>1. flag'.input = flag.input /\ (flag'.auto => flag.auto)
      BY <1>0, <1>3
      DEF RecoveryExhausted, StuckCall, NoTool, CorrectionFailed, ExecuteInPlace, BadCall, Flag
    <2>2. RecoveryExhausted => ~flag'.auto
      BY <1>0 DEF RecoveryExhausted, Flag
    <2> QED
      BY <1>0, <1>3, <2>1, <2>2
      DEF RecoveryExhausted, StuckCall, NoTool, CorrectionFailed, ExecuteInPlace, BadCall,
          bookVars, Idle, Correcting
  <1>4. CASE Recover(n) \/ FeedAbort(n)
    <2>1. flag'.input = flag.input
      BY <1>0, <1>4 DEF Recover, FeedAbort, Flag
    <2>2. pc' = "finish" => ~flag'.auto
      BY <1>0, <1>4 DEF Recover, FeedAbort, Flag
    <2>3. /\ pc' \in {"start", "finish", "input"} /\ provisional' = provisional
          /\ pc' = "input" => gen.correcting
          /\ pc \in {"tool", "abort"}
      BY <1>4 DEF Recover, FeedAbort, AfterTool, bookVars
    <2> QED
      BY <1>0, <2>1, <2>2, <2>3 DEF Idle
  <1>5. CASE \E b \in BOOLEAN : RunTool(b, n)
    <2>1. PICK b \in BOOLEAN : RunTool(b, n)
      BY <1>5
    <2> DEFINE done == n = Len(ToolTurn)
               d == IF done THEN Deeper ELSE flag.depth
               auto == done /\ d <= MaxAuto
    <2>2. /\ flag' = [flag EXCEPT !.selfFix = ~b, !.depth = d, !.auto = auto]
          /\ pc' = IF ~done THEN "abort" ELSE IF d <= MaxAuto THEN "input" ELSE AfterTool
          /\ provisional' = provisional /\ pc = "tool"
      BY <2>1 DEF RunTool, bookVars
    <2>3. flag'.input = flag.input /\ flag'.auto = auto
      BY <1>0, <2>2 DEF Flag
    <2>4. pc' # "tool" /\ (pc' = "finish" => ~auto) /\ (pc' = "input" => auto \/ gen.correcting)
      BY <2>2 DEF AfterTool
    <2> QED
      BY <1>0, <2>2, <2>3, <2>4 DEF Idle
  <1> QED
    BY <1>1, <1>2, <1>3, <1>4, <1>5

\* The steps between generations.
LEMMA QuietMem ==
  ASSUME NoWindow, LockInv, LockInv', MemInv, NEW n,
         \/ RecoveryExhausted \/ StuckCall \/ NoTool
         \/ CorrectionDoesNotFit \/ CorrectionInvalid \/ CorrectionFailed
         \/ ExecuteInPlace \/ (\E b \in BOOLEAN : BadCall(b))
         \/ Recover(n) \/ FeedAbort(n) \/ AskCorrection(n) \/ Inject(n)
         \/ (\E b \in BOOLEAN : RunTool(b, n)) \/ FinishPlain
  PROVE  MemInv'
  <1>1. Follows' /\ mem'.stack = mem.stack /\ mem'.restored = mem.restored /\ Grown
    BY QuietFollows DEF MemInv
  <1>2. /\ ~Idle /\ flag'.input = flag.input /\ provisional' = provisional
        /\ (pc' = "finish" \/ (pc' = "tool" /\ gen'.result # "call") => ~flag'.auto)
        /\ (Idle' => features \cap {"bad", "continue"} # {})
    BY QuietFlags
  <1>3. CASE Inject(n)
    <2>1. /\ cps' = cps /\ offset' = offset /\ features' = features /\ gen' = gen
          /\ pc' \in {"tool", "input"} /\ Injecting
          /\ slot' = slot \/ \E b \in BOOLEAN : slot' = [slot EXCEPT !.has = b]
      BY <1>3 DEF Inject, Eject, Injecting
    <2>2. slot'.idx = slot.idx /\ slot'.saved = slot.saved
      BY <2>1, ContextTypes DEF Slot
    <2>3. ~TargetUsed'
      BY <2>1 DEF TargetUsed, Correcting, LockInv, Latches
    <2> QED
      BY <1>1, <1>2, <2>1, <2>2, <2>3, LoopMem
  <1>4. CASE ~Inject(n)
    <2>1. /\ cps' = cps /\ offset' = offset /\ slot' = slot /\ features' = features
          /\ (TargetUsed' => TargetUsed)
      BY <1>4, QuietUsed
    <2> QED
      BY <1>1, <1>2, <2>1, LoopMem
  <1> QED
    BY <1>3, <1>4

\* The steps of a generation that save nothing.
LEMMA GenMem ==
  ASSUME NoWindow, LockInv, LockInv', MemInv, NEW n \in Ahead,
         \/ GenWord \/ GenEog(n) \/ GenInterrupted(n) \/ GenCrosses(n) \/ GenSimulates(n)
         \/ GenExhausted \/ \E b \in BOOLEAN : GenBody(b, n)
  PROVE  MemInv'
  <1>1. Follows' /\ mem'.stack = mem.stack /\ mem'.restored = mem.restored /\ Grown
    BY GenFollows, WindowHyps DEF MemInv
  <1>2. pc = "gen" /\ ~Idle
    BY DEF GenWord, GenEog, GenInterrupted, GenCrosses, GenSimulates, GenExhausted, GenBody,
           Samples, Idle
  <1>3. CASE GenWord
    <2>1. /\ cps' = cps /\ offset' = offset /\ slot' = slot /\ features' = features
          /\ provisional' = provisional /\ flag' = flag /\ gen' = gen /\ pc' = pc
      BY <1>3 DEF GenWord, bookVars
    <2>2. TargetUsed' => TargetUsed
      BY <2>1 DEF TargetUsed, Correcting
    <2> QED
      BY <1>1, <1>2, <2>1, <2>2, LoopMem DEF Idle
  <1>4. CASE ~GenWord
    <2>1. PICK result : Leaves(result) /\ (result \in {"call", "stuck"} => gen.call)
      BY <1>4
      DEF GenEog, GenInterrupted, GenCrosses, GenSimulates, GenExhausted, GenBody
    <2>2. /\ cps' = cps /\ slot' = slot /\ features' = features /\ offset' = offset
          /\ provisional' = provisional
          /\ pc' = IF gen.correcting THEN "corrected" ELSE "tool"
          /\ gen' = [gen EXCEPT !.result = result]
      BY <2>1 DEF Leaves, bookVars
    <2>3. gen'.correcting = gen.correcting /\ gen'.result = result
      BY <2>2, ContextTypes DEF Gen
    <2>4. flag'.input = flag.input /\ (flag'.auto => result = "call")
      BY <2>1, ContextTypes DEF Leaves, Chains, Flag
    <2>5. TargetUsed' => TargetUsed
      BY <1>2, <2>1, <2>2, <2>3 DEF TargetUsed, Correcting
    <2> QED
      BY <1>1, <1>2, <2>2, <2>3, <2>4, <2>5, LoopMem DEF Idle
  <1> QED
    BY <1>3, <1>4

\* The entries below the slot's, under a stack that keeps them.
LEMMA EntriesGrown ==
  ASSUME NoWindow, LockInv, LockInv', MemInv, Grown, cps' = cps, offset' = offset,
         provisional' = provisional,
         Len(mem'.stack) = Len(cps) - offset + (IF slot'.saved THEN 1 ELSE 0),
         \A j \in 1..(Len(cps) - offset) : mem'.stack[j] = mem.stack[j]
  PROVE  Entries'
  <1>1. /\ Len(cps) \in Nat /\ offset \in Nat /\ Len(tracker) \in Nat
        /\ \A i \in 1..Len(cps) : cps[i] \in 0..Len(tracker)
    BY WindowHyps, ContextTypes DEF MarksOrdered
  <1>2. ASSUME NEW i \in (offset + 1)..Len(cps)
        PROVE  mem'.stack[i - offset] = Prefix(tracker', cps[i])
    <2>1. i \in 1..Len(cps) /\ i - offset \in 1..(Len(cps) - offset)
      BY <1>1
    <2>2. Prefix(tracker', cps[i]) = Prefix(tracker, cps[i])
      BY <1>1, <2>1, GrownPrefix
    <2>3. mem.stack[i - offset] = Prefix(tracker, cps[i])
      BY DEF MemInv, Entries
    <2> QED
      BY <2>1, <2>2, <2>3
  <1> QED
    BY <1>2 DEF MemInv, Entries

\* FUNC_START opens the turn's slot, or saves over its entry.
LEMMA FuncStartMem ==
  ASSUME NoWindow, LockInv, LockInv', MemInv, NEW b \in BOOLEAN, GenFuncStart(b)
  PROVE  MemInv'
  <1> DEFINE m == Decode(mem, <<"func">>)
             i == IF slot.idx < 0 THEN Len(cps) - offset ELSE slot.idx
             k == Len(cps) - offset
  <1>1. /\ pc = "gen" /\ pc' = pc /\ flag' = flag /\ cps' = cps /\ ~Idle /\ ~Idle'
        /\ offset' = offset /\ provisional' = provisional /\ features' = features
        /\ gen' = [gen EXCEPT !.call = TRUE] /\ Commits("func") /\ b
    BY WindowHyps DEF GenFuncStart, Samples, Idle
  <1>2. \/ gen.correcting /\ mem' = m /\ slot' = slot
        \/ /\ ~gen.correcting /\ mem' = SlotEntry(m, i)
           /\ slot' = [idx |-> i, saved |-> TRUE, has |-> TRUE, target |-> npast + 1]
    BY <1>1 DEF GenFuncStart, Hooked, TargetAfter
  <1>3. /\ m \in Filled /\ Coherent(m) /\ m.stack = mem.stack /\ m.restored = mem.restored
        /\ m.kv = tracker' /\ Grown
    BY <1>1, Blocks, CommitFollows DEF MemInv
  <1>4. Follows'
    BY FuncStartFollows DEF MemInv
  <1>5. gen'.correcting = gen.correcting /\ gen'.result = gen.result
    BY <1>1, ContextTypes DEF Gen
  <1>6. CASE gen.correcting
    <2>1. mem' = m /\ slot' = slot
      BY <1>2, <1>6
    <2>2. TargetUsed' => TargetUsed
      BY <1>1, <1>5, <1>6 DEF TargetUsed, Correcting
    <2> QED
      BY <1>1, <1>3, <1>4, <2>1, <2>2, LoopMem
  <1>7. CASE ~gen.correcting
    <2>1. /\ Len(cps) \in Nat /\ offset \in Nat /\ offset <= Len(cps) /\ slot.idx \in Int
          /\ npast = Len(tracker) /\ Len(tracker) \in Nat
          /\ slot.saved \in BOOLEAN
      BY ContextTypes DEF MemInv, Entries, Slot
    <2>2. k \in Nat /\ i = k
      BY <2>1 DEF MemInv, SlotOpen
    <2>3. /\ mem' = SlotEntry(m, k)
          /\ slot' = [idx |-> k, saved |-> TRUE, has |-> TRUE, target |-> npast + 1]
      BY <1>2, <1>7, <2>2
    <2>4. /\ Len(tracker') = Len(tracker) + 1 /\ tracker # <<>> /\ tracker' \in Seq(Token)
          /\ tracker \in Seq(Token)
      BY <1>1, Blocks, GrownCommit, ContextTypes
      DEF MemInv, Turns, LockInv, Context, Lockstep, Shape
    <2>5. Len(tracker) >= 1 /\ tracker' # <<>>
      BY <2>1, <2>4, EmptySeq
    <2>6. m.planes[0] = tracker' /\ m.stack \in Seq(Seq(Token))
      <3>1. m.rsIdx = 0
        BY <1>3, Edits DEF NoWindow
      <3> QED
        BY <1>3, <3>1, Edits DEF Coherent, State
    <2> HIDE DEF m, i
    <2>7. /\ Len(mem'.stack) = k + 1 /\ mem'.restored = mem.restored
          /\ mem'.stack[k + 1] = tracker'
          /\ \A j \in 1..k : mem'.stack[j] = mem.stack[j]
      <3>1. CASE slot.saved
        <4>1. Len(m.stack) = k + 1 /\ mem' = RsOverwrite(m, k)
          BY <1>3, <2>2, <2>3, <3>1 DEF MemInv, Entries, SlotEntry
        <4>2. k \in Int /\ \A j \in 1..k : j \in 1..(k + 1) /\ j # k + 1
          BY <2>2
        <4>3. k + 1 \in 1..(k + 1)
          BY <2>2
        <4>4. m.kv # <<>> /\ m \in Filled /\ k \in Int
          BY <1>3, <2>5, <4>2
        <4> HIDE DEF k
        <4>5. /\ Len(mem'.stack) = k + 1 /\ mem'.restored = m.restored
              /\ \A j \in 1..(k + 1) :
                   mem'.stack[j] = IF m.kv # <<>> /\ j = k + 1 THEN m.planes[0] ELSE m.stack[j]
          BY <4>1, <4>4, OverwriteFields
        <4>6. mem'.stack[k + 1] = tracker'
          BY <2>6, <4>3, <4>4, <4>5
        <4>7. \A j \in 1..k : mem'.stack[j] = mem.stack[j]
          BY <1>3, <4>2, <4>5
        <4> QED
          BY <1>3, <4>5, <4>6, <4>7
      <3>2. CASE ~slot.saved
        <4>1. Len(m.stack) = k /\ mem' = RsSave(m)
          BY <1>3, <2>2, <2>3, <3>2 DEF MemInv, Entries, SlotEntry
        <4>2. mem'.stack = Append(m.stack, tracker') /\ mem'.restored = mem.restored
          BY <1>3, <2>5, <2>6, <4>1, SaveFields
        <4> HIDE DEF k
        <4> QED
          BY <1>3, <2>2, <2>6, <4>1, <4>2, AppendProperties
      <3> QED
        BY <3>1, <3>2, <2>1
    <2>8. Entries'
      BY <1>1, <1>3, <2>3, <2>7, EntriesGrown
    <2>9. SlotOpen'
      <3>1. slot'.saved /\ slot'.idx = k /\ slot'.has /\ slot'.target = Len(tracker')
            /\ Len(tracker') >= 2
        BY <2>1, <2>3, <2>4, <2>5
      <3>2. Prefix(tracker', Len(tracker')) = tracker'
        BY <2>4, PrefixAll
      <3> QED
        BY <1>1, <2>7, <3>1, <3>2 DEF SlotOpen
    <2>10. Turns'
      BY <1>1, <1>5, <2>5 DEF MemInv, Turns
    <2>11. Apart'
      <3>1. \A j \in 1..Len(cps) : cps[j] \in Nat
        BY ContextTypes
      <3> QED
        BY <1>1, <2>1, <2>4, <2>7, <3>1 DEF MemInv, Apart
    <2> QED
      BY <1>4, <2>8, <2>9, <2>10, <2>11 DEF MemInv
  <1> QED
    BY <1>6, <1>7

-----------------------------------------------------------------------------
\* The user's commands.

\* The slot once it is closed.
LEMMA SlotClosed ==
  ASSUME NEW s \in Slot
  PROVE  LET c == [s EXCEPT !.idx = -1, !.saved = FALSE] IN ~c.saved /\ c.idx < 0
  <1>1. \A x \in Int : LET c == [s EXCEPT !.idx = x, !.saved = FALSE]
                       IN ~c.saved /\ c.idx = x
    BY DEF Slot
  <1>2. -1 \in Int /\ -1 < 0
    OBVIOUS
  <1> QED
    BY <1>1, <1>2

\* A session that starts afresh.
LEMMA FreshMem ==
  ASSUME LockInv, NEW n \in 0..1, Cleared(n), "cut" \notin features => n = 1, Idle, pc' = pc,
         features' = features, gen' = gen
  PROVE  MemInv'
  <1>1. Follows' /\ mem'.stack = <<>> /\ ~mem'.restored
    BY ClearedFollows
  <1>2. /\ cps' = <<>> /\ offset' = 0 /\ provisional' = -1 /\ Len(tracker') = n
    BY ContextCleared DEF Cleared
  <1>3. ~slot'.saved /\ slot'.idx < 0
    <2>1. slot' = [slot EXCEPT !.idx = -1, !.saved = FALSE] /\ slot \in Slot
      BY ContextTypes DEF Cleared
    <2> QED
      BY <2>1, SlotClosed
  <1>4. ~flag'.auto /\ pc' = "input" /\ Idle' /\ ~TargetUsed'
    BY ResetFlag, ContextTypes DEF Cleared, Idle, TargetUsed, Correcting
  <1>5. Entries'
    BY <1>1, <1>2, <1>3 DEF Entries
  <1>6. SlotOpen' /\ Apart'
    BY <1>1, <1>2, <1>3, <1>4 DEF SlotOpen, Apart
  <1>7. Turns'
    BY <1>2, <1>3, <1>4, EmptySeq DEF Turns
  <1> QED
    BY <1>1, <1>5, <1>6, <1>7 DEF MemInv

\* /clear.
LEMMA ClearMem ==
  ASSUME LockInv, NEW n, ClearCommand(n)
  PROVE  MemInv'
  <1>1. n \in 0..1 /\ ("cut" \notin features => n = 1)
    BY Blocks DEF ClearCommand
  <1> QED
    BY <1>1, FreshMem DEF ClearCommand

\* /load: one entry, for the last of the saved checkpoints.
LEMMA LoadMem ==
  ASSUME NoWindow, LockInv, MemInv, NEW tail \in {<<>>, <<"user">>}, LoadCommand(tail)
  PROVE  MemInv'
  <1>1. /\ Idle /\ "load" \in features /\ Len(tracker) = 1 /\ tail = <<>>
        /\ offset' = Len(Saved.cps) - 1 /\ cps' = Saved.cps /\ provisional' = -1
        /\ slot' = slot /\ flag' = flag /\ gen' = gen /\ pc' = pc /\ features' = features
        /\ tracker' = Saved.tokens \o tail
    BY Blocks, WindowHyps DEF LoadCommand, Orderly
  <1>2. Saved.cps = <<3, 5>> /\ Len(Saved.tokens) = 5 /\ Saved.tokens \in Seq(Token)
    BY Blocks
  <1>3. Follows' /\ mem'.stack = <<tracker'>> /\ ~mem'.restored
    BY LoadFollows
  <1>4. tracker' = Saved.tokens /\ Prefix(tracker', 5) = tracker'
    <2>1. tracker' = Saved.tokens
      BY <1>1, <1>2, ConcatEmptySeq
    <2> QED
      BY <1>2, <2>1, PrefixAll
  <1>5. ~slot.saved /\ slot.idx < 0
    BY <1>1 DEF MemInv, SlotOpen
  <1>6. /\ cps' = <<3, 5>> /\ offset' = 1 /\ Len(cps') = 2
        /\ cps'[1] = 3 /\ cps'[2] = 5
    BY <1>1, <1>2
  <1>7. Entries'
    <2>1. Len(mem'.stack) = 1 /\ mem'.stack[1] = tracker'
      BY <1>3
    <2>2. \A i \in 2..2 : i = 2
      OBVIOUS
    <2>3. \A i \in 1..2 : i = 1 \/ i = 2
      OBVIOUS
    <2>4. \A i \in 1..2 : cps'[i] >= 1
      BY <1>6, <2>3
    <2>5. ~(provisional' >= 0)
      BY <1>1
    <2>6. \A i \in (1 + 1)..2 : mem'.stack[i - 1] = Prefix(tracker', cps'[i])
      <3>1. SUFFICES ASSUME NEW i \in (1 + 1)..2
                     PROVE  mem'.stack[i - 1] = Prefix(tracker', cps'[i])
        OBVIOUS
      <3>2. i = 2 /\ i - 1 = 1
        OBVIOUS
      <3> QED
        BY <1>4, <1>6, <2>1, <3>2
    <2> QED
      BY <1>1, <1>5, <1>6, <2>1, <2>4, <2>5, <2>6 DEF Entries
  <1>8. ~TargetUsed' /\ Idle'
    BY <1>1 DEF Idle, TargetUsed, Correcting
  <1>9. SlotOpen'
    BY <1>1, <1>5, <1>8 DEF SlotOpen
  <1>10. tracker' # <<>>
    BY <1>2, <1>4, EmptySeq
  <1>11. Turns'
    BY <1>1, <1>5, <1>8, <1>10 DEF MemInv, Turns
  <1>12. Apart'
    <2>1. \A i, j \in 1..2 : i < j => i = 1 /\ j = 2
      OBVIOUS
    <2> QED
      BY <1>1, <1>3, <1>6, <1>8, <2>1 DEF Apart
  <1> QED
    BY <1>3, <1>7, <1>9, <1>11, <1>12 DEF MemInv
-----------------------------------------------------------------------------
\* /undo.

\* What holds when /undo can be typed: no slot is open, and if some checkpoints have
\* no entry, the selected one lies before the context's end.
LEMMA UndoHyps ==
  ASSUME NoWindow, LockInv, MemInv, NEW sel \in 0..Len(cps), Undoable(sel)
  PROVE  /\ Idle /\ "undo" \in features /\ features \cap {"bad", "continue"} = {}
         /\ ~slot.saved /\ slot.idx < 0 /\ sel \in 0..(Len(cps) - 2)
         /\ Target(sel) \in 1..Len(tracker) /\ MarksOrdered
         /\ Resized(tracker, Target(sel)) = Prefix(tracker, Target(sel))
         /\ Prefix(tracker, Target(sel)) \in Seq(Token)
         /\ Len(Prefix(tracker, Target(sel))) = Target(sel)
         /\ mem.kv # <<>> /\ Len(mem.stack) = Len(cps) - offset
         /\ offset > 0 => ~mem.restored /\ Target(sel) < Len(tracker)
  <1>1. Idle /\ "undo" \in features /\ sel \in 0..(Len(cps) - 2)
    BY DEF Undoable
  <1>2. Orderly(features) /\ NoOrphans
    BY WindowHyps
  <1>3. ~slot.saved /\ slot.idx < 0 /\ features \cap {"bad", "continue"} = {}
    BY <1>1, <1>2 DEF MemInv, Turns, SlotOpen, Orderly
  <1>4. /\ Target(sel) \in 0..Len(tracker) /\ MarksOrdered
        /\ Resized(tracker, Target(sel)) = Prefix(tracker, Target(sel))
    BY <1>2, UndoTarget
  <1>5. /\ tracker \in Seq(Token) /\ mem.kv = tracker /\ Len(tracker) \in Nat
        /\ Len(cps) \in Nat /\ cps \in Seq(Nat)
    BY ContextTypes
  <1>6. sel + 1 \in 1..Len(cps) /\ sel + 2 \in 1..Len(cps) /\ sel + 1 < sel + 2
    BY <1>1, <1>5
  <1>7. Target(sel) >= 1
    BY <1>6 DEF MemInv, Entries, Target
  <1>8. Target(sel) \in 1..Len(tracker)
    BY <1>4, <1>5, <1>7
  <1>9. Len(tracker) # 0
    BY <1>5, <1>8
  <1>10. tracker # <<>>
    BY <1>5, <1>9, EmptySeq
  <1>11. Len(mem.stack) = Len(cps) - offset
    BY <1>3, <1>5, ContextTypes DEF MemInv, Entries
  <1>12. ASSUME offset > 0
         PROVE  ~mem.restored /\ Target(sel) < Len(tracker)
    <2>1. {"undo", "load"} \subseteq features /\ ~mem.restored
      BY <1>1, <1>12 DEF MemInv, Apart
    <2>2. cps[sel + 1] < cps[sel + 2]
      BY <1>6, <2>1 DEF MemInv, Apart
    <2>3. cps[sel + 2] <= Len(tracker) /\ cps[sel + 1] \in Nat /\ cps[sel + 2] \in Nat
      BY <1>4, <1>5, <1>6 DEF MarksOrdered
    <2> QED
      BY <1>5, <2>1, <2>2, <2>3 DEF Target
  <1>13. /\ Prefix(tracker, Target(sel)) \in Seq(Token)
         /\ Len(Prefix(tracker, Target(sel))) = Target(sel)
    BY <1>4, <1>5, PrefixType
  <1> QED
    BY <1>1, <1>3, <1>4, <1>5, <1>8, <1>10, <1>11, <1>12, <1>13

\* The checkpoints behind the stack's offset are some of all.
LEMMA LaterEntry ==
  ASSUME NEW o \in Nat, NEW n \in Nat
  PROVE  \A i \in (o + 1)..(n + 1) : i \in 1..(n + 1)
  OBVIOUS

\* The latches and the slot after an /undo, and the checkpoints that are left.
LEMMA UndoneMem ==
  ASSUME NoWindow, LockInv, MemInv, NEW sel \in 0..Len(cps), Undoable(sel),
         Follows', tracker' = Prefix(tracker, Target(sel)), cps' = Remaining(sel),
         provisional' = -1, flag' = ResetFlags(flag), gen' = gen, pc' = pc,
         features' = features, ~slot'.saved, slot'.idx < 0,
         offset' \in 0..sel, Len(mem'.stack) = sel + 1 - offset',
         \A i \in (offset' + 1)..(sel + 1) :
           mem'.stack[i - offset'] = Prefix(tracker, cps[i]),
         offset' > 0 => "load" \in features /\ ~mem'.restored
  PROVE  MemInv'
  <1>1. /\ Idle /\ "undo" \in features /\ sel \in 0..(Len(cps) - 2)
        /\ Target(sel) \in 1..Len(tracker) /\ MarksOrdered
        /\ tracker' \in Seq(Token) /\ Len(tracker') = Target(sel)
    BY UndoHyps
  <1>2. /\ Len(cps') = sel + 1 /\ \A i \in 1..(sel + 1) : cps'[i] = cps[i]
    BY RemainingOf
  <1>3. Idle' /\ ~flag'.auto /\ ~TargetUsed'
    BY <1>1, ResetFlag, ContextTypes DEF Idle, TargetUsed, Correcting
  <1>4. /\ tracker \in Seq(Token) /\ Len(tracker) \in Nat /\ Len(cps) \in Nat
        /\ cps \in Seq(Nat)
    BY ContextTypes
  <1>5. ASSUME NEW i \in 1..(sel + 1)
        PROVE  /\ cps[i] \in Nat /\ cps[i] >= 1 /\ i \in 1..Len(cps)
               /\ Prefix(tracker', cps[i]) = Prefix(tracker, cps[i])
    <2>1. i \in 1..Len(cps) /\ sel + 1 \in 1..Len(cps) /\ i <= sel + 1
      BY <1>1, <1>4
    <2>2. cps[i] \in Nat /\ cps[i] >= 1 /\ cps[i] <= Target(sel)
      BY <1>1, <1>4, <2>1, SMTT(20) DEF MarksOrdered, Target, MemInv, Entries
    <2>3. cps[i] \in 0..Target(sel) /\ Target(sel) \in 0..Len(tracker)
      BY <1>1, <1>4, <2>2
    <2> QED
      BY <1>1, <1>4, <2>1, <2>2, <2>3, PrefixOfPrefix
  <1>6. Entries'
    <2>1. \A i \in (offset' + 1)..(sel + 1) : i \in 1..(sel + 1)
      <3>1. offset' \in Nat /\ sel \in Nat
        BY <1>4
      <3> QED
        BY <3>1, LaterEntry
    <2>2. ~(provisional' >= 0)
      OBVIOUS
    <2>3. \A i \in (offset' + 1)..Len(cps') : mem'.stack[i - offset'] = Prefix(tracker', cps'[i])
      BY <1>2, <1>5, <2>1
    <2>4. \A i \in 1..Len(cps') : cps'[i] >= 1
      BY <1>2, <1>5
    <2>5. sel + 1 \in Nat /\ offset' \in Nat /\ offset' <= sel + 1
      BY <1>1, <1>4, SMTT(20)
    <2>6. Len(mem'.stack) = Len(cps') - offset' + 0 /\ offset' <= Len(cps')
      BY <1>2, <2>5
    <2> QED
      BY <2>2, <2>3, <2>4, <2>6 DEF Entries
  <1>7. SlotOpen'
    BY <1>3 DEF SlotOpen
  <1>8. tracker' # <<>>
    <2>1. Len(tracker') # 0
      BY <1>1, <1>4
    <2> QED
      BY <2>1, EmptySeq
  <1>9. Turns'
    BY <1>1, <1>3, <1>8 DEF Turns, Idle
  <1>10. Apart'
    <2>1. ASSUME "load" \in features
          PROVE  \A i, j \in 1..Len(cps') : i < j => cps'[i] < cps'[j]
      <3>1. \A i, j \in 1..Len(cps) : i < j => cps[i] < cps[j]
        BY <1>1, <2>1 DEF MemInv, Apart
      <3> QED
        BY <1>2, <1>5, <3>1
    <2> QED
      BY <1>3, <2>1 DEF Apart
  <1> QED
    BY <1>6, <1>7, <1>9, <1>10 DEF MemInv

\* /undo by restore: the entry is there, and the stack is pruned behind it.
LEMMA UndoFastMem ==
  ASSUME NoWindow, LockInv, MemInv, NEW sel \in 0..Len(cps), UndoFast(sel)
  PROVE  MemInv'
  <1> DEFINE T == Target(sel)
             k == sel - offset
             u == RsRestore(mem, k)
             s == SeqRm(u, T)
  <1>1. Undoable(sel) /\ SeqRmOk(UndoMem(sel), T)
    BY DEF UndoFast
  <1>2. /\ Idle /\ "undo" \in features /\ ~slot.saved /\ slot.idx < 0
        /\ sel \in 0..(Len(cps) - 2) /\ T \in 1..Len(tracker) /\ mem.kv # <<>>
        /\ Resized(tracker, T) = Prefix(tracker, T)
        /\ Len(mem.stack) = Len(cps) - offset
        /\ (offset > 0 => ~mem.restored /\ T < Len(tracker))
    BY <1>1, UndoHyps
  <1>3. /\ mem \in Filled /\ mem.kv = tracker /\ NRsSeq = 0 /\ Len(tracker) \in Nat
        /\ offset \in Nat /\ Len(cps) \in Nat
    BY FollowsFlat, ContextTypes DEF MemInv, NoWindow
  <1>4. sel >= offset
    <2>1. SUFFICES ASSUME sel < offset
                   PROVE  FALSE
      BY <1>2, <1>3
    <2>2. UndoMem(sel) = mem /\ offset > 0
      BY <1>2, <1>3, <2>1 DEF UndoMem
    <2>3. T \in Nat /\ T < Len(mem.kv)
      BY <1>2, <1>3, <2>2
    <2> HIDE DEF T
    <2> QED
      BY <1>1, <1>2, <1>3, <2>2, <2>3, SeqRmRefused
  <1>5. k \in 0..(Len(mem.stack) - 1) /\ k + 1 \in 1..(Len(cps) - offset)
    BY <1>2, <1>3, <1>4
  <1>6. /\ tracker' = Prefix(tracker, T) /\ mem' = RsPrune(s, k)
        /\ cps' = Remaining(sel) /\ offset' = Max({0, offset - Cardinality(Erased(sel))})
        /\ slot' = [slot EXCEPT !.saved = FALSE] /\ provisional' = -1
        /\ flag' = ResetFlags(flag) /\ gen' = gen /\ pc' = pc /\ features' = features
    BY <1>2, <1>4 DEF UndoFast, UndoMem
  <1>7. offset' = offset
    <2>1. Erased(sel) = {}
      BY <1>2, <1>3, <1>4 DEF Erased
    <2>2. Cardinality(Erased(sel)) = 0
      BY <2>1, FS_EmptySet
    <2>3. offset - Cardinality(Erased(sel)) = offset /\ offset \in Int /\ 0 \in Int
          /\ offset >= 0
      BY <1>3, <2>2
    <2>5. Max({0, offset}) = IF 0 >= offset THEN 0 ELSE offset
      BY <2>3, OfTwo
    <2>4. Max({0, offset}) = offset
      BY <2>3, <2>5
    <2> QED
      BY <1>6, <2>3, <2>4
  <1>8. mem.stack[k + 1] = Prefix(tracker, T)
    <2>1. sel + 1 \in (offset + 1)..Len(cps) /\ (sel + 1) - offset = k + 1
      BY <1>2, <1>3, <1>4
    <2> QED
      BY <2>1 DEF MemInv, Entries, Target
  <1>9. /\ u \in Filled /\ u.kv = tracker /\ u.stack = mem.stack
        /\ u.planes[0] = Prefix(tracker, T) /\ u.restored
    <2> HIDE DEF k
    <2> QED
      BY <1>2, <1>3, <1>5, <1>8, RestoreFields
  <1> HIDE DEF u
  <1>10. /\ s \in Filled /\ Coherent(s) /\ s.stack = mem.stack
         /\ T < Len(tracker) => ~s.restored
    <2>1. T \in 0..Len(u.kv)
      BY <1>2, <1>3, <1>9
    <2> HIDE DEF T
    <2> QED
      BY <1>3, <1>9, <2>1, SeqRmRestored
  <1> HIDE DEF s
  <1>11. /\ mem' \in Filled /\ Coherent(mem') /\ mem'.restored = s.restored
         /\ Len(mem'.stack) = k + 1
         /\ \A j \in 1..(k + 1) : mem'.stack[j] = mem.stack[j]
    <2>1. k \in 0..(Len(s.stack) - 1)
      BY <1>5, <1>10
    <2> HIDE DEF k
    <2> QED
      BY <1>6, <1>10, <2>1, PruneFields DEF Coherent, State
  <1>12. \A i \in (offset' + 1)..(sel + 1) : mem'.stack[i - offset'] = Prefix(tracker, cps[i])
    <2>1. SUFFICES ASSUME NEW i \in (offset + 1)..(sel + 1)
                   PROVE  mem'.stack[i - offset] = Prefix(tracker, cps[i])
      BY <1>7
    <2>2. i - offset \in 1..(k + 1) /\ i \in (offset + 1)..Len(cps)
      BY <1>2, <1>3, <1>4
    <2>3. mem.stack[i - offset] = Prefix(tracker, cps[i])
      BY <2>2 DEF MemInv, Entries
    <2> QED
      BY <1>11, <2>2, <2>3
  <1>13. ~slot'.saved /\ slot'.idx < 0
    BY <1>2, <1>6, ContextTypes DEF Slot
  <1>14. offset' \in 0..sel /\ Len(mem'.stack) = sel + 1 - offset'
    BY <1>2, <1>3, <1>4, <1>7, <1>11
  <1>15. offset' > 0 => "load" \in features /\ ~mem'.restored
    BY <1>2, <1>7, <1>10, <1>11 DEF MemInv, Apart
  <1>16. Follows'
    BY <1>11 DEF Follows
  <1> QED
    BY <1>1, <1>6, <1>12, <1>13, <1>14, <1>15, <1>16, UndoneMem

\* /undo by decoding again: one entry is left, and offset says so.
LEMMA UndoSlowMem ==
  ASSUME NoWindow, LockInv, MemInv, NEW sel \in 0..Len(cps), NEW n \in Lengths,
         UndoSlow(sel, n)
  PROVE  MemInv'
  <1> DEFINE T == Target(sel)
             kept == Prefix(tracker, T)
  <1>1. /\ Undoable(sel) /\ pc' = pc /\ gen' = gen /\ features' = features
    BY DEF UndoSlow
  <1>2. /\ Idle /\ sel \in 0..(Len(cps) - 2) /\ T \in 1..Len(tracker)
        /\ Resized(tracker, T) = kept /\ kept \in Seq(Token) /\ Len(kept) = T
        /\ mem.kv # <<>> /\ Len(mem.stack) = Len(cps) - offset
    BY <1>1, UndoHyps
  <1>5. offset > 0
    <2>1. SUFFICES ASSUME sel >= offset
                   PROVE  SeqRmOk(UndoMem(sel), T)
      BY <1>2, ContextTypes DEF UndoSlow
    <2>2. UndoMem(sel) = RsRestore(mem, sel - offset)
      BY <2>1 DEF UndoMem
    <2>3. sel - offset \in 0..(Len(mem.stack) - 1) /\ mem \in Filled
      BY <1>2, <2>1, ContextTypes, SMTT(20) DEF MemInv, Follows
    <2>4. UndoMem(sel).restored
      BY <1>2, <2>2, <2>3, RestoreFields
    <2> QED
      BY <2>4 DEF SeqRmOk
  <1>3. CASE n # T
    <2>1. Cleared(Len(SystemPrompt)) /\ Len(SystemPrompt) = 1
      BY <1>3, Blocks DEF UndoSlow
    <2> QED
      BY <1>1, <1>2, <2>1, FreshMem
  <1>4. CASE n = T
    <2>1. /\ mem' = RsSave(Decoded(EmptyMem, kept)) /\ tracker' = kept
          /\ cps' = Remaining(sel) /\ offset' = sel
          /\ slot' = [slot EXCEPT !.idx = -1, !.saved = FALSE] /\ provisional' = -1
          /\ flag' = ResetFlags(flag)
      BY <1>2, <1>4 DEF UndoSlow, Clear
    <2> HIDE DEF kept
    <2>2. kept # <<>>
      <3>1. Len(kept) # 0
        BY <1>2, ContextTypes
      <3> QED
        BY <3>1, EmptySeq
    <2>3. Follows' /\ mem'.stack = <<kept>> /\ ~mem'.restored
      BY <1>2, <2>1, <2>2, AnewFollows
    <2>4. ~slot'.saved /\ slot'.idx < 0
      BY <2>1, SlotClosed, ContextTypes
    <2>5. sel \in 0..sel /\ sel + 1 - sel = 1 /\ \A i \in (sel + 1)..(sel + 1) : i = sel + 1
      BY <1>2, ContextTypes
    <2>6. Len(mem'.stack) = 1 /\ mem'.stack[1] = kept
      BY <2>3
    <2>7. "load" \in features
      BY <1>5 DEF MemInv, Apart
    <2>8. \A i \in (sel + 1)..(sel + 1) : mem'.stack[i - sel] = Prefix(tracker, cps[i])
      BY <2>5, <2>6 DEF kept, Target
    <2> QED
      BY <1>1, <2>1, <2>3, <2>4, <2>5, <2>6, <2>7, <2>8, UndoneMem DEF kept
  <1> QED
    BY <1>3, <1>4
-----------------------------------------------------------------------------
\* The rollback of a corrected call.

\* The slot's entry is there and is the state behind FUNC_START: the fast path is
\* always taken.
LEMMA SlotRestores ==
  ASSUME NoWindow, LockInv, MemInv, pc = "corrected"
  PROVE  /\ "bad" \in features /\ Len(tracker) >= slot.target /\ slot.target \in 2..Len(tracker)
         /\ FastOk
         /\ LET s == SeqRm(SlotMem, slot.target) IN
              /\ s \in Filled /\ Coherent(s) /\ Len(s.stack) = Len(mem.stack)
              /\ \A j \in 1..Len(mem.stack) : s.stack[j] = mem.stack[j]
  <1> DEFINE k == slot.idx
             u == RsRestore(mem, k)
             p == RsPrune(u, k)
             T == slot.target
  <1>1. "bad" \in features /\ TargetUsed
    BY DEF LockInv, Latches, Correcting, TargetUsed
  <1>2. /\ slot.has /\ slot.saved /\ T >= 2 /\ T <= Len(tracker)
        /\ mem.stack[Len(mem.stack)] = Prefix(tracker, T)
        /\ k = Len(cps) - offset /\ Len(mem.stack) = Len(cps) - offset + 1
        /\ offset <= Len(cps)
    BY <1>1, WindowHyps DEF MemInv, SlotOpen, Entries
  <1>3. /\ mem \in Filled /\ mem.kv = tracker /\ NRsSeq = 0 /\ Len(tracker) \in Nat
        /\ offset \in Nat /\ Len(cps) \in Nat /\ T \in Nat /\ tracker \in Seq(Token)
    BY FollowsFlat, ContextTypes DEF MemInv, NoWindow
  <1>4. /\ k \in 0..(Len(mem.stack) - 1) /\ k + 1 = Len(mem.stack) /\ T \in 2..Len(tracker)
    BY <1>2, <1>3
  <1>5. mem.kv # <<>>
    <2>1. Len(mem.kv) # 0
      BY <1>2, <1>3
    <2> QED
      BY <2>1, EmptySeq
  <1>6. SlotMem = p
    BY <1>2 DEF SlotMem
  <1> HIDE DEF k
  <1>7. /\ u \in Filled /\ u.kv = tracker /\ u.stack = mem.stack
        /\ u.planes[0] = Prefix(tracker, T) /\ u.restored
    <2> HIDE DEF T
    <2> QED
      BY <1>2, <1>3, <1>4, <1>5, RestoreFields
  <1> HIDE DEF u
  <1>8. /\ p \in Filled /\ p.kv = tracker /\ p.planes[0] = Prefix(tracker, T) /\ p.restored
        /\ Len(p.stack) = Len(mem.stack)
        /\ \A j \in 1..Len(mem.stack) : p.stack[j] = mem.stack[j]
    <2>1. k \in 0..(Len(u.stack) - 1)
      BY <1>4, <1>7
    <2> HIDE DEF T
    <2> QED
      BY <1>4, <1>7, <2>1, PruneFields
  <1> HIDE DEF p
  <1>9. /\ SeqRmOk(p, T) /\ SeqRm(p, T) \in Filled /\ Coherent(SeqRm(p, T))
        /\ SeqRm(p, T).stack = p.stack
    <2>1. T \in 0..Len(p.kv)
      BY <1>4, <1>8
    <2> HIDE DEF T
    <2> QED
      BY <1>3, <1>8, <2>1, SeqRmRestored
  <1> QED
    BY <1>1, <1>2, <1>4, <1>6, <1>8, <1>9 DEF FastOk

\* A rollback is always the fast one, and leaves the state behind FUNC_START.
LEMMA RollBackMem ==
  ASSUME NoWindow, LockInv, LockInv', MemInv, NEW n,
         RollBackFast \/ RollBackAnchor(n) \/ RollBackAborts
  PROVE  RollBackFast /\ MemInv'
  <1> DEFINE T == slot.target
             s == SeqRm(SlotMem, T)
  <1>1. pc = "corrected" /\ ~Idle
    BY DEF RollBackFast, RollBackAnchor, RollBackAborts, Reachable, Idle
  <1>2. /\ "bad" \in features /\ Len(tracker) >= T /\ T \in 2..Len(tracker) /\ FastOk
        /\ s \in Filled /\ Coherent(s) /\ Len(s.stack) = Len(mem.stack)
        /\ \A j \in 1..Len(mem.stack) : s.stack[j] = mem.stack[j]
    BY <1>1, SlotRestores
  <1>3. RollBackFast
    BY <1>2, ContextTypes DEF RollBackAnchor, RollBackAborts
  <1>4. /\ mem' = s /\ tracker' = Prefix(tracker, T) /\ pc' = "injectFast" /\ cps' = cps
        /\ offset' = offset /\ slot' = slot /\ provisional' = provisional
        /\ flag' = flag /\ gen' = gen /\ features' = features
    BY <1>3 DEF RollBackFast, Kept, bookVars
  <1> HIDE DEF s
  <1>5. Follows'
    BY <1>2, <1>4 DEF Follows
  <1>6. /\ tracker \in Seq(Token) /\ Len(tracker) \in Nat /\ Len(cps) \in Nat
        /\ cps \in Seq(Nat) /\ offset \in Nat
        /\ \A i \in 1..Len(cps) : cps[i] \in 0..T
        /\ features \cap {"undo", "continue"} = {}
    <2>1. TargetUsed
      BY <1>1 DEF TargetUsed, Correcting
    <2>2. \A i \in 1..Len(cps) : cps[i] <= T
      BY <1>2, <2>1, WindowHyps
    <2>3. features \cap {"undo", "continue"} = {}
      BY <1>2, WindowHyps DEF Orderly
    <2> QED
      BY <1>2, <2>2, <2>3, ContextTypes
  <1>7. Entries'
    <2>1. ASSUME NEW i \in (offset + 1)..Len(cps)
          PROVE  mem'.stack[i - offset] = Prefix(tracker', cps[i])
      <3>1. i \in 1..Len(cps) /\ i - offset \in 1..Len(mem.stack)
        BY <1>6 DEF MemInv, Entries
      <3>2. Prefix(tracker', cps[i]) = Prefix(tracker, cps[i])
        BY <1>2, <1>4, <1>6, <3>1, PrefixOfPrefix
      <3>3. mem.stack[i - offset] = Prefix(tracker, cps[i])
        BY DEF MemInv, Entries
      <3> QED
        BY <1>2, <1>4, <3>1, <3>2, <3>3
    <2> QED
      BY <1>2, <1>4, <2>1 DEF MemInv, Entries
  <1>8. ~TargetUsed' /\ Len(tracker') = T /\ tracker' \in Seq(Token)
    BY <1>2, <1>4, <1>6, PrefixType DEF TargetUsed, Correcting
  <1>9. Len(tracker') >= 2 /\ tracker' # <<>>
    <2>1. Len(tracker') >= 2
      BY <1>2, <1>6, <1>8
    <2> QED
      BY <2>1, <1>8, EmptySeq
  <1>10. SlotOpen'
    BY <1>4, <1>8, <1>9 DEF MemInv, SlotOpen
  <1>11. Turns'
    BY <1>1, <1>4, <1>6, <1>9 DEF MemInv, Turns, Idle
  <1>12. Apart'
    BY <1>4, <1>6 DEF MemInv, Apart
  <1> QED
    BY <1>3, <1>5, <1>7, <1>10, <1>11, <1>12 DEF MemInv
-----------------------------------------------------------------------------
\* The end of a turn.

\* The turn's entry is the last one, behind those of the earlier checkpoints.
LEMMA TurnEntryFields ==
  ASSUME NoWindow, LockInv, MemInv, pc = "finish"
  PROVE  /\ TurnEntry \in Filled /\ Coherent(TurnEntry)
         /\ TurnEntry.restored = mem.restored
         /\ Len(TurnEntry.stack) = Len(cps) - offset + 1
         /\ TurnEntry.stack[Len(cps) - offset + 1] = tracker
         /\ \A j \in 1..(Len(cps) - offset) : TurnEntry.stack[j] = mem.stack[j]
  <1> DEFINE k == Len(cps) - offset
  <1>1. /\ mem \in Filled /\ mem.kv = tracker /\ mem.planes[0] = tracker
        /\ tracker # <<>> /\ slot.saved \in BOOLEAN /\ slot.idx \in Int
        /\ mem.stack \in Seq(Seq(Token)) /\ tracker \in Seq(Token) /\ Coherent(mem)
    BY FollowsFlat, ContextTypes, Edits DEF MemInv, Turns, Idle, Slot, Follows
  <1>2. k \in Nat
    BY ContextTypes DEF MemInv, Entries
  <1> HIDE DEF k
  <1>3. CASE slot.saved
    <2>1. slot.idx = k /\ Len(mem.stack) = k + 1 /\ k \in Int /\ k >= 0
      BY <1>2, <1>3 DEF MemInv, Entries, SlotOpen, k
    <2>2. TurnEntry = RsOverwrite(mem, k)
      BY <1>3, <2>1 DEF TurnEntry
    <2>3. /\ TurnEntry \in Filled /\ Coherent(TurnEntry) /\ TurnEntry.restored = mem.restored
          /\ Len(TurnEntry.stack) = k + 1
          /\ \A j \in 1..(k + 1) :
               TurnEntry.stack[j] = IF j = k + 1 THEN tracker ELSE mem.stack[j]
      <3>1. mem.kv # <<>>
        BY <1>1
      <3>2. /\ TurnEntry.restored = mem.restored /\ Len(TurnEntry.stack) = k + 1
            /\ \A j \in 1..(k + 1) :
                 TurnEntry.stack[j] =
                   IF mem.kv # <<>> /\ j = k + 1 THEN mem.planes[0] ELSE mem.stack[j]
        BY <1>1, <2>1, <2>2, OverwriteFields
      <3>3. TurnEntry \in Filled /\ Coherent(TurnEntry)
        BY <1>1, <2>1, <2>2, StackFollows
      <3> QED
        BY <1>1, <3>1, <3>2, <3>3
    <2>4. k + 1 \in 1..(k + 1) /\ \A j \in 1..k : j \in 1..(k + 1) /\ j # k + 1
      BY <1>2
    <2> QED
      BY <2>3, <2>4 DEF k
  <1>4. CASE ~slot.saved
    <2>1. slot.idx < 0 /\ Len(mem.stack) = k
      BY <1>2, <1>4 DEF MemInv, Entries, SlotOpen, k
    <2>2. TurnEntry = RsSave(mem)
      BY <1>4 DEF TurnEntry
    <2>3. /\ TurnEntry \in Filled /\ Coherent(TurnEntry) /\ TurnEntry.restored = mem.restored
          /\ TurnEntry.stack = Append(mem.stack, tracker)
      BY <1>1, <2>2, SaveFields, StackFollows
    <2> QED
      BY <1>1, <2>1, <2>3, AppendProperties DEF k
  <1> QED
    BY <1>1, <1>3, <1>4

\* The latches at the end of a turn: only the 90% line goes on by itself.
LEMMA FinishLatches ==
  ASSUME NoWindow, LockInv, MemInv, FinishTurn
  PROVE  /\ ~slot'.saved /\ slot'.idx < 0 /\ pc' = "input" /\ ~TargetUsed'
         /\ ~Idle' => flag'.input /\ "line" \in features
         /\ provisional' >= 0 => provisional' = Len(cps)
  <1>1. pc = "finish" /\ ~flag.auto /\ flag.input /\ provisional < 0 /\ pc' = "input"
        /\ ("line" \notin features => gen.result # "limit")
    BY DEF FinishTurn, MemInv, Turns, LockInv, Latches
  <1>2. ~slot'.saved /\ slot'.idx < 0
    <2>1. CASE slot.idx >= 0
      <3>1. slot' = [slot EXCEPT !.idx = -1, !.saved = FALSE] /\ slot \in Slot
        BY <2>1, ContextTypes DEF FinishTurn
      <3> QED
        BY <3>1, SlotClosed
    <2>2. CASE ~(slot.idx >= 0)
      <3>1. slot' = slot /\ slot.idx < 0
        BY <2>2, ContextTypes DEF FinishTurn
      <3>2. ~slot.saved
        BY <3>1, ContextTypes DEF MemInv, Entries, SlotOpen
      <3> QED
        BY <3>1, <3>2
    <2> QED
      BY <2>1, <2>2
  <1>3. ~Idle' => flag'.input /\ "line" \in features
    <2> DEFINE g == Latched(flag)
    <2>1. g \in Flag /\ g.input = flag.input /\ g.auto = flag.auto
      BY LatchedFlag, ContextTypes
    <2>2. \/ gen.result = "limit" /\ flag' = [g EXCEPT !.interrupted = FALSE, !.auto = TRUE]
          \/ flag' = [g EXCEPT !.input = FALSE]
      BY DEF FinishTurn
    <2> HIDE DEF g
    <2>3. \/ gen.result = "limit" /\ flag'.input
          \/ ~flag'.auto
      BY <1>1, <2>1, <2>2 DEF Flag
    <2> QED
      BY <1>1, <2>3 DEF Idle
  <1>4. provisional' >= 0 => provisional' = Len(cps)
    <2>1. provisional' = Len(cps) \/ provisional' = provisional
      BY DEF FinishTurn, Interrupted
    <2> QED
      BY <1>1, <2>1, ContextTypes
  <1> QED
    BY <1>1, <1>2, <1>3, <1>4 DEF TargetUsed, Correcting

\* The end of a turn: its entry is the state at its checkpoint.
LEMMA FinishTurnMem ==
  ASSUME NoWindow, LockInv, MemInv, FinishTurn
  PROVE  MemInv'
  <1> DEFINE k == Len(cps) - offset
  <1>1. /\ cps' = Append(cps, npast) /\ mem' = TurnEntry /\ tracker' = tracker
        /\ offset' = offset /\ features' = features /\ pc = "finish"
    BY DEF FinishTurn
  <1>2. /\ ~slot'.saved /\ slot'.idx < 0 /\ pc' = "input" /\ ~TargetUsed'
        /\ (~Idle' => flag'.input /\ "line" \in features)
        /\ (provisional' >= 0 => provisional' = Len(cps))
    BY FinishLatches
  <1>3. /\ tracker \in Seq(Token) /\ npast = Len(tracker) /\ npast \in Nat /\ cps \in Seq(Nat)
        /\ Len(cps) \in Nat /\ offset \in Nat /\ offset <= Len(cps) /\ k \in Nat
        /\ ~Idle /\ tracker # <<>>
    BY <1>1, ContextTypes DEF MemInv, Entries, Turns, Idle
  <1>4. npast >= 1
    BY <1>3, EmptySeq
  <1>5. /\ Len(cps') = Len(cps) + 1 /\ cps'[Len(cps) + 1] = npast
        /\ \A i \in 1..Len(cps) : cps'[i] = cps[i] /\ cps[i] \in Nat /\ cps[i] <= npast
    BY <1>1, <1>3, AppendProperties, WindowHyps DEF MarksOrdered
  <1>6. /\ Follows' /\ mem'.restored = mem.restored /\ Len(mem'.stack) = k + 1
        /\ mem'.stack[k + 1] = tracker /\ \A j \in 1..k : mem'.stack[j] = mem.stack[j]
    BY <1>1, TurnEntryFields DEF Follows
  <1>7. Entries'
    <2>1. ASSUME NEW i \in (offset + 1)..(Len(cps) + 1)
          PROVE  mem'.stack[i - offset] = Prefix(tracker, cps'[i])
      <3>1. CASE i = Len(cps) + 1
        <4>1. i - offset = k + 1 /\ Prefix(tracker, npast) = tracker
          BY <1>3, <3>1, PrefixAll
        <4> HIDE DEF k
        <4> QED
          BY <1>5, <1>6, <3>1, <4>1
      <3>2. CASE i # Len(cps) + 1
        <4>1. i \in (offset + 1)..Len(cps) /\ i - offset \in 1..k /\ i \in 1..Len(cps)
          BY <1>3, <3>2
        <4>2. mem.stack[i - offset] = Prefix(tracker, cps[i])
          BY <4>1 DEF MemInv, Entries
        <4> HIDE DEF k
        <4> QED
          BY <1>5, <1>6, <4>1, <4>2
      <3> QED
        BY <3>1, <3>2
    <2>2. \A i \in 1..Len(cps') : cps'[i] >= 1
      <3>1. \A i \in 1..Len(cps) : cps[i] >= 1
        BY DEF MemInv, Entries
      <3> QED
        BY <1>3, <1>4, <1>5, <3>1
    <2>3. offset' <= Len(cps') /\ Len(mem'.stack) = Len(cps') - offset'
      BY <1>1, <1>3, <1>5, <1>6
    <2> QED
      BY <1>1, <1>2, <1>3, <1>5, <2>1, <2>2, <2>3, SMTT(20) DEF Entries
  <1>8. SlotOpen'
    BY <1>2 DEF SlotOpen
  <1>9. Turns'
    BY <1>1, <1>2, <1>3 DEF Turns
  <1>10. Apart'
    <2>1. ASSUME {"undo", "load"} \subseteq features
          PROVE  Idle' /\ \A i, j \in 1..Len(cps') : i < j => cps'[i] < cps'[j]
      <3>1. "line" \notin features
        BY <2>1, WindowHyps DEF Orderly
      <3>2. /\ \A i, j \in 1..Len(cps) : i < j => cps[i] < cps[j]
            /\ \A i \in 1..Len(cps) : cps[i] < npast
        BY <1>3, <2>1 DEF MemInv, Apart
      <3>3. ASSUME NEW i \in 1..Len(cps'), NEW j \in 1..Len(cps'), i < j
            PROVE  cps'[i] < cps'[j]
        <4>1. i \in 1..Len(cps) /\ (j \in 1..Len(cps) \/ j = Len(cps) + 1)
          <5>1. i \in 1..(Len(cps) + 1) /\ j \in 1..(Len(cps) + 1)
            BY <1>5, <3>3
          <5> QED
            BY <1>3, <3>3, <5>1
        <4>2. cps'[i] = cps[i] /\ cps[i] < npast
          BY <1>5, <3>2, <4>1
        <4>3. CASE j = Len(cps) + 1
          BY <1>5, <4>2, <4>3
        <4>4. CASE j \in 1..Len(cps)
          BY <1>5, <3>2, <3>3, <4>1, <4>2, <4>4
        <4> QED
          BY <4>1, <4>3, <4>4
      <3> QED
        BY <1>2, <3>1, <3>3
    <2> QED
      BY <1>1, <1>6, <2>1 DEF MemInv, Apart
  <1> QED
    BY <1>6, <1>7, <1>8, <1>9, <1>10 DEF MemInv

\* The end of a resumed turn: checkpoint and entry move together.
LEMMA FinishResumedMem ==
  ASSUME NoWindow, LockInv, MemInv, FinishResumed
  PROVE  MemInv'
  <1> DEFINE k == Len(cps) - offset
  <1>1. /\ pc = "finish" /\ ~flag.input /\ provisional >= 0
        /\ cps' = [cps EXCEPT ![provisional + 1] = npast] /\ mem' = EntryMoved
        /\ provisional' = -1 /\ flag' = Latched(flag) /\ pc' = "input"
        /\ tracker' = tracker /\ offset' = offset /\ slot' = slot /\ gen' = gen
        /\ features' = features
    BY DEF FinishResumed
  <1>2. /\ tracker \in Seq(Token) /\ npast = Len(tracker) /\ npast \in Nat /\ cps \in Seq(Nat)
        /\ Len(cps) \in Nat /\ offset \in Nat /\ provisional \in Int
        /\ tracker # <<>> /\ ~flag.auto /\ slot.saved \in BOOLEAN
        /\ "continue" \in features /\ features \cap {"undo", "bad", "cut"} = {}
    BY <1>1, WindowHyps, ContextTypes DEF MemInv, Turns, Idle, Orderly, Slot
  <1>3. provisional + 1 = Len(cps) /\ provisional - offset = k - 1 /\ k - 1 \in Nat
        /\ k \in 1..Len(mem.stack)
    <2>1. provisional = Len(cps) - 1
      BY <1>1 DEF LockInv, Latches
    <2>2. provisional >= offset
      BY <1>1 DEF MemInv, Entries
    <2> QED
      BY <1>2, <2>1, <2>2 DEF MemInv, Entries
  <1>4. npast >= 1
    BY <1>2, EmptySeq
  <1>5. /\ Len(cps') = Len(cps) /\ cps'[Len(cps)] = npast
        /\ \A i \in 1..(Len(cps) - 1) : cps'[i] = cps[i]
        /\ \A i \in 1..Len(cps) : cps[i] \in Nat
    BY <1>1, <1>2, <1>3, ExceptSeq
  <1>6. /\ Follows' /\ mem'.restored = mem.restored /\ Len(mem'.stack) = Len(mem.stack)
        /\ mem'.stack[k] = tracker /\ \A j \in 1..(k - 1) : mem'.stack[j] = mem.stack[j]
    <2>1. /\ mem \in Filled /\ Coherent(mem) /\ mem.kv # <<>> /\ mem.planes[0] = tracker
      BY <1>2, FollowsFlat DEF MemInv, Follows
    <2>2. mem' = RsOverwrite(mem, k - 1) /\ k - 1 \in Int /\ (k - 1) + 1 = k
      <3>1. provisional >= offset
        BY <1>1 DEF MemInv, Entries
      <3> QED
        BY <1>1, <1>3, <3>1 DEF EntryMoved
    <2>3. \A j \in 1..(k - 1) : j \in 1..Len(mem.stack) /\ j # k
      BY <1>3
    <2> HIDE DEF k
    <2>4. /\ mem'.restored = mem.restored /\ Len(mem'.stack) = Len(mem.stack)
          /\ \A j \in 1..Len(mem.stack) :
               mem'.stack[j] =
                 IF mem.kv # <<>> /\ j = (k - 1) + 1 THEN mem.planes[0] ELSE mem.stack[j]
      BY <2>1, <2>2, OverwriteFields
    <2>5. Follows'
      BY <2>1, <2>2, StackFollows DEF Follows
    <2> QED
      BY <1>3, <2>1, <2>2, <2>3, <2>4, <2>5
  <1>7. Entries'
    <2>1. ASSUME NEW i \in (offset + 1)..Len(cps)
          PROVE  mem'.stack[i - offset] = Prefix(tracker, cps'[i])
      <3>1. CASE i = Len(cps)
        <4>1. i - offset = k /\ Prefix(tracker, npast) = tracker
          BY <1>2, <3>1, PrefixAll
        <4> HIDE DEF k
        <4> QED
          BY <1>5, <1>6, <3>1, <4>1
      <3>2. CASE i # Len(cps)
        <4>1. i \in 1..(Len(cps) - 1) /\ i - offset \in 1..(k - 1)
          BY <1>2, <3>2
        <4>2. mem.stack[i - offset] = Prefix(tracker, cps[i])
          BY DEF MemInv, Entries
        <4> HIDE DEF k
        <4> QED
          BY <1>5, <1>6, <4>1, <4>2
      <3> QED
        BY <3>1, <3>2
    <2>2. \A i \in 1..Len(cps') : cps'[i] >= 1
      <3>1. \A i \in 1..Len(cps) : cps[i] >= 1
        BY DEF MemInv, Entries
      <3>2. \A i \in 1..Len(cps) : i = Len(cps) \/ i \in 1..(Len(cps) - 1)
        BY <1>2
      <3> QED
        BY <1>4, <1>5, <3>1, <3>2
    <2>3. ~(provisional' >= 0)
      BY <1>1
    <2> QED
      BY <1>1, <1>5, <1>6, <2>1, <2>2, <2>3 DEF MemInv, Entries
  <1>8. SlotOpen'
    BY <1>1, <1>2, <1>5 DEF MemInv, SlotOpen
  <1>9. ~flag'.auto
    BY <1>1, <1>2, LatchedFlag, ContextTypes
  <1>10. Turns'
    BY <1>1, <1>2, <1>9 DEF Turns, Idle
  <1>11. Apart'
    BY <1>1, <1>2, <1>6 DEF MemInv, Apart
  <1> QED
    BY <1>6, <1>7, <1>8, <1>10, <1>11 DEF MemInv
-----------------------------------------------------------------------------
\* The invariant and the theorems.

\* A session starts without checkpoints and without entries.
LEMMA InitMem ==
  ASSUME Init
  PROVE  MemInv
  <1>1. Follows /\ mem.stack = <<>> /\ ~mem.restored /\ tracker = <<"sys">>
    BY InitFollows
  <1>2. /\ cps = <<>> /\ offset = 0 /\ pc = "input" /\ ~slot.saved /\ ~flag.auto
        /\ ~(provisional >= 0) /\ slot.idx < 0
    BY DEF Init
  <1>3. Idle /\ ~TargetUsed /\ tracker # <<>>
    BY <1>1, <1>2 DEF Idle, TargetUsed, Correcting
  <1>4. Entries /\ SlotOpen /\ Turns /\ Apart
    BY <1>1, <1>2, <1>3 DEF Entries, SlotOpen, Turns, Apart
  <1> QED
    BY <1>1, <1>4 DEF MemInv

\* The invariant is inductive.
LEMMA StepMem ==
  ASSUME NoWindow, LockInv, MemInv, [Next]_vars
  PROVE  MemInv'
  <1>0. LockInv'
    BY WindowHyps, StepLock
  <1>1. CASE UNCHANGED vars
    BY <1>1
    DEF vars, ctxVars, bookVars, MemInv, Follows, Entries, SlotOpen, Turns, Apart, Idle,
        TargetUsed, Correcting
  <1>2. CASE UserStep
    <2>1. CASE \E n \in 0..3 : Prompt(n)
      BY <1>0, <2>1, PromptMem
    <2>2. CASE \E n \in 0..3 : ContinueFinished(n)
      BY <1>0, <2>2, ContinueMem
    <2>3. CASE \E n \in 0..3 : ClearCommand(n)
      BY <2>3, ClearMem
    <2>4. CASE PromptTooLong
      BY <1>0, <2>4, PromptMem
    <2>5. CASE ContinueInterrupted
      BY <1>0, <2>5, ContinueMem
    <2>6. CASE \E tail \in {<<>>, <<"user">>} : LoadCommand(tail)
      BY <2>6, LoadMem
    <2>7. CASE \E sel \in 0..Len(cps) : UndoFast(sel) \/ \E n \in Lengths : UndoSlow(sel, n)
      BY <2>7, UndoFastMem, UndoSlowMem
    <2> QED
      BY <1>2, <2>1, <2>2, <2>3, <2>4, <2>5, <2>6, <2>7 DEF UserStep
  <1>3. CASE AutoContinue \/ StartGeneration
    BY <1>0, <1>3, StartMem
  <1>4. CASE GenStep
    <2>1. 0 \in Ahead
      BY DEF Ahead
    <2>2. CASE GenWord \/ GenExhausted
      BY <1>0, <2>1, <2>2, GenMem
    <2>3. CASE \E b \in BOOLEAN : GenFuncStart(b)
      BY <1>0, <2>3, FuncStartMem
    <2>4. CASE \E n \in Ahead : \/ GenEog(n) \/ (\E b \in BOOLEAN : GenBody(b, n))
                                \/ GenInterrupted(n) \/ GenCrosses(n) \/ GenSimulates(n)
      BY <1>0, <2>4, GenMem
    <2> QED
      BY <1>3, <1>4, <2>2, <2>3, <2>4 DEF GenStep
  <1>5. CASE ToolStep
    <2>1. CASE \/ RecoveryExhausted \/ StuckCall \/ NoTool \/ CorrectionDoesNotFit
               \/ CorrectionInvalid \/ CorrectionFailed \/ ExecuteInPlace
               \/ (\E b \in BOOLEAN : BadCall(b))
      BY <1>0, <2>1, QuietMem
    <2>2. CASE RollBackFast \/ RollBackAborts \/ \E n \in Lengths : RollBackAnchor(n)
      BY <1>0, <2>2, RollBackMem
    <2>3. CASE \E n \in Lengths : \/ Recover(n) \/ (\E b \in BOOLEAN : RunTool(b, n))
                                  \/ FeedAbort(n) \/ AskCorrection(n) \/ Inject(n)
      BY <1>0, <2>3, QuietMem
    <2> QED
      BY <1>5, <2>1, <2>2, <2>3 DEF ToolStep
  <1>6. CASE FinishStep
    BY <1>0, <1>6, FinishTurnMem, FinishResumedMem, QuietMem DEF FinishStep
  <1> QED
    BY <1>1, <1>2, <1>3, <1>4, <1>5, <1>6 DEF Next, LoopStep

\* The two invariants hold together.
LEMMA MemInvHolds ==
  ASSUME NoWindow
  PROVE  Spec => [](LockInv /\ MemInv)
  <1>1. Init => LockInv /\ MemInv
    BY InitLock, InitMem
  <1>2. LockInv /\ MemInv /\ [Next]_vars => (LockInv /\ MemInv)'
    BY WindowHyps, StepLock, StepMem
  <1> QED
    BY <1>1, <1>2, PTL DEF Spec

\* In orderly scenarios the model remembers the context also after every /undo, fast or
\* slow, and after every correction's rollback.
THEOREM SessionRemembers ==
  ASSUME NoWindow
  PROVE  Spec => []RecurrentInStep
  <1>1. MemInv => RecurrentInStep
    BY DEF MemInv, Follows, RecurrentInStep
  <1> QED
    BY <1>1, MemInvHolds, PTL

\* At the prompt every checkpoint from offset on lies in the context and has, offset
\* places down the stack, the state at its position.
THEOREM SessionCheckpoints ==
  ASSUME NoWindow
  PROVE  Spec => []CheckpointsLive
  <1>1. LockInv /\ MemInv => CheckpointsLive
    <2> SUFFICES ASSUME LockInv, MemInv
                 PROVE  CheckpointsLive
      OBVIOUS
    <2>1. /\ \A i \in 1..Len(cps) : cps[i] <= Len(tracker)
          /\ Len(cps) \in Nat /\ offset \in Nat /\ Len(mem.stack) \in Nat
      BY WindowHyps, ContextTypes, Edits DEF MarksOrdered, MemInv, Follows
    <2>2. ASSUME NEW i \in 0..(Len(cps) - 1), i >= offset
          PROVE  /\ i - offset < Len(mem.stack)
                 /\ mem.stack[i - offset + 1] = Prefix(tracker, cps[i + 1])
      <3>1. i + 1 \in (offset + 1)..Len(cps) /\ (i + 1) - offset = i - offset + 1
        BY <2>1, <2>2
      <3>2. mem.stack[(i + 1) - offset] = Prefix(tracker, cps[i + 1])
        BY <3>1 DEF MemInv, Entries
      <3>3. i - offset < Len(mem.stack)
        BY <2>1, <2>2 DEF MemInv, Entries
      <3> QED
        BY <3>1, <3>2, <3>3
    <2> QED
      BY <2>1, <2>2 DEF CheckpointsLive
  <1> QED
    BY <1>1, MemInvHolds, PTL

\* The stack has one entry for each checkpoint from offset on, and the open slot's.
THEOREM SessionSlots ==
  ASSUME NoWindow
  PROVE  Spec => []OneSlotPerCheckpoint
  <1>1. MemInv => OneSlotPerCheckpoint
    BY DEF MemInv, Entries, OneSlotPerCheckpoint
  <1> QED
    BY <1>1, MemInvHolds, PTL
-----------------------------------------------------------------------------
\* The session implements Conversation.

Tells == LockInv /\ Follows

\* The history is the context, before and after a step.
LEMMA Mapped ==
  ASSUME Tells, Tells'
  PROVE  /\ State(mem) = tracker /\ State(mem)' = tracker'
         /\ tracker \in Seq(Token) /\ tracker' \in Seq(Token)
         /\ Len(tracker) \in Nat /\ Len(tracker') \in Nat
         /\ cps \in Seq(Nat) /\ Len(cps) \in Nat
  <1>1. State(mem) = tracker
    BY ContextTypes DEF Tells, Follows, Coherent
  <1>2. State(mem)' = tracker' /\ tracker' \in Seq(Token) /\ Len(tracker') \in Nat
    BY DEF Tells, Follows, Coherent, LockInv, Context, Lockstep, Shape
  <1> QED
    BY <1>1, <1>2, ContextTypes DEF Tells

\* What is added to the history.
LEMMA Extends ==
  ASSUME Tells, Tells', Grown, cps' = cps
  PROVE  [Promise!Next]_(Promise!conversation)
  <1>1. /\ State(mem) = tracker /\ State(mem)' = tracker' /\ tracker \in Seq(Token)
        /\ tracker' \in Seq(Token) /\ Len(tracker) \in Nat /\ Len(tracker') \in Nat
    BY Mapped
  <1>2. Prefix(tracker', Len(tracker)) = tracker
    <2>1. Prefix(tracker', Len(tracker)) = Prefix(tracker, Len(tracker))
      BY <1>1, GrownPrefix DEF Tells
    <2> QED
      BY <1>1, <2>1, PrefixAll
  <1>3. CASE Len(tracker') > Len(tracker)
    BY <1>1, <1>2, <1>3 DEF Promise!Next, Promise!Extend, Prefix
  <1>4. CASE ~(Len(tracker') > Len(tracker))
    <2>1. Len(tracker') = Len(tracker)
      BY <1>1, <1>4 DEF Grown
    <2>2. tracker' = tracker
      BY <1>1, <1>2, <2>1, PrefixAll
    <2> QED
      BY <1>1, <2>2 DEF Promise!conversation
  <1> QED
    BY <1>3, <1>4

\* What leaves no checkpoint starts another history.
LEMMA StartsAfresh ==
  ASSUME Tells, Tells', cps' = <<>>
  PROVE  Promise!Next
  BY Mapped DEF Promise!Next, Promise!StartAfresh

\* /load brings a history with its marks.
LEMMA Loads ==
  ASSUME Tells, Tells', NEW tail \in {<<>>, <<"user">>}, LoadCommand(tail)
  PROVE  Promise!Next
  <1>1. State(mem)' = tracker' /\ tracker' \in Seq(Token)
    BY Mapped
  <1>2. cps = <<>> /\ cps' = <<3, 5>> /\ tracker' = Saved.tokens \o tail
    BY Blocks DEF LoadCommand
  <1>3. Len(tracker') \in Nat /\ Len(tracker') >= 5
    BY <1>2, Blocks, ConcatProperties, SMTT(20)
  <1>4. <<3, 5>> \in Seq(0..Len(tracker'))
    <2>1. 3 \in 0..Len(tracker') /\ 5 \in 0..Len(tracker')
      BY <1>3
    <2>2. ASSUME NEW S, 3 \in S, 5 \in S
          PROVE  <<3, 5>> \in Seq(S)
      BY <2>2
    <2> QED
      BY <2>1, <2>2
  <1>5. \A i, j \in 1..2 : i < j => <<3, 5>>[i] <= <<3, 5>>[j]
    OBVIOUS
  <1> QED
    BY <1>1, <1>2, <1>4, <1>5 DEF Promise!Next, Promise!Load, Promise!Ordered

\* /undo gives the history up to the selected mark.
LEMMA GoesBack ==
  ASSUME Tells, Tells', NEW sel \in 0..Len(cps), Undoable(sel),
         tracker' = Prefix(tracker, Target(sel)), cps' = Remaining(sel)
  PROVE  Promise!Next
  <1>1. State(mem) = tracker /\ State(mem)' = tracker'
    BY Mapped
  <1>2. sel + 1 \in 1..Len(cps)
    BY RemainingOf DEF Tells
  <1>3. Promise!GoBack(sel + 1)
    BY <1>1 DEF Promise!GoBack, Promise!Upto, Remaining, Target, Prefix
  <1> QED
    BY <1>2, <1>3 DEF Promise!Next

\* A rollback to a place behind every checkpoint takes back part of the turn in progress.
LEMMA TakesBack ==
  ASSUME Tells, Tells', NEW n \in 0..Len(tracker), tracker' = Prefix(tracker, n),
         \A i \in 1..Len(cps) : cps[i] <= n, cps' = cps
  PROVE  Promise!Next
  <1>1. /\ State(mem) = tracker /\ State(mem)' = tracker' /\ tracker \in Seq(Token)
        /\ tracker' \in Seq(Token) /\ cps \in Seq(Nat) /\ Len(cps) \in Nat
        /\ Len(tracker) \in Nat
    BY Mapped
  <1>2. Promise!TurnStart \in 0..n
    <2>1. CASE cps = <<>>
      BY <2>1 DEF Promise!TurnStart
    <2>2. CASE cps # <<>>
      <3>1. Len(cps) \in 1..Len(cps)
        BY <1>1, <2>2, EmptySeq
      <3>2. cps[Len(cps)] \in Nat /\ cps[Len(cps)] <= n
        BY <1>1, <3>1
      <3> QED
        BY <2>2, <3>2 DEF Promise!TurnStart
    <2> QED
      BY <2>1, <2>2
  <1> DEFINE t == Promise!TurnStart
  <1>3. Prefix(Prefix(tracker, n), t) = Prefix(tracker, t) /\ Len(Prefix(tracker, n)) = n
    <2>1. t \in 0..n
      BY <1>2
    <2> HIDE DEF t
    <2> QED
      BY <1>1, <2>1, PrefixOfPrefix, PrefixType
  <1>4. Len(tracker') >= t /\ Prefix(tracker', t) = Prefix(tracker, t)
    BY <1>2, <1>3
  <1> QED
    BY <1>1, <1>4 DEF Promise!Next, Promise!TakeBack, Promise!Upto, Prefix

\* The end of a turn is marked, or its mark moves.
LEMMA TurnMarked ==
  ASSUME Tells, Tells', tracker' = tracker,
         \/ cps' = Append(cps, Len(tracker))
         \/ cps # <<>> /\ cps' = [cps EXCEPT ![Len(cps)] = Len(tracker)]
  PROVE  Promise!Next
  <1>1. State(mem) = tracker /\ State(mem)' = tracker'
    BY Mapped
  <1> QED
    BY <1>1 DEF Promise!Next, Promise!Mark, Promise!MoveMark

\* The steps that leave the checkpoints and what came before alone.
LEMMA LoopExtends ==
  ASSUME Tells, NEW n, NEW k \in Ahead,
         \/ Prompt(n) \/ PromptTooLong \/ AutoContinue \/ ContinueInterrupted
         \/ ContinueFinished(n) \/ StartGeneration
         \/ RecoveryExhausted \/ StuckCall \/ NoTool
         \/ CorrectionDoesNotFit \/ CorrectionInvalid \/ CorrectionFailed
         \/ ExecuteInPlace \/ (\E b \in BOOLEAN : BadCall(b))
         \/ Recover(n) \/ FeedAbort(n) \/ AskCorrection(n) \/ Inject(n)
         \/ (\E b \in BOOLEAN : RunTool(b, n)) \/ FinishPlain
         \/ GenWord \/ GenEog(k) \/ GenInterrupted(k) \/ GenCrosses(k) \/ GenSimulates(k)
         \/ GenExhausted \/ (\E b \in BOOLEAN : GenBody(b, k))
         \/ (\E b \in BOOLEAN : GenFuncStart(b))
  PROVE  Grown /\ cps' = cps
  <1>1. CASE \/ Prompt(n) \/ PromptTooLong \/ AutoContinue \/ ContinueInterrupted
             \/ ContinueFinished(n) \/ RecoveryExhausted \/ StuckCall \/ NoTool
             \/ CorrectionDoesNotFit \/ CorrectionInvalid \/ CorrectionFailed
             \/ ExecuteInPlace \/ (\E b \in BOOLEAN : BadCall(b))
             \/ Recover(n) \/ FeedAbort(n) \/ AskCorrection(n)
             \/ (\E b \in BOOLEAN : RunTool(b, n)) \/ FinishPlain
    BY <1>1, QuietFollows, QuietUsed DEF Tells
  <1>2. CASE StartGeneration \/ Inject(n)
    <2>1. cps' = cps
      BY <1>2 DEF StartGeneration, Inject
    <2> QED
      BY <1>2, <2>1, QuietFollows DEF Tells
  <1>3. CASE \/ GenWord \/ GenEog(k) \/ GenInterrupted(k) \/ GenCrosses(k)
             \/ GenSimulates(k) \/ GenExhausted \/ (\E b \in BOOLEAN : GenBody(b, k))
    <2>1. cps' = cps
      BY <1>3 DEF GenWord, GenEog, GenInterrupted, GenCrosses, GenSimulates, GenExhausted,
                  GenBody, Leaves, bookVars
    <2> QED
      BY <1>3, <2>1, GenFollows DEF Tells
  <1>4. CASE \E b \in BOOLEAN : GenFuncStart(b)
    BY <1>4, Blocks, GrownCommit DEF Tells, GenFuncStart
  <1> QED
    BY <1>1, <1>2, <1>3, <1>4

\* A step of the session is one of the conversation, or none.
LEMMA StepPromise ==
  ASSUME (NoWindow /\ MemInv) \/ NothingTakenBack, Tells, Tells', [Next]_vars
  PROVE  [Promise!Next]_(Promise!conversation)
  <1>0. 0 \in Ahead /\ LockInv /\ features \in Scenarios
    BY ContextTypes DEF Ahead, Tells
  <1>1. CASE UNCHANGED vars
    <2>1. Grown /\ cps' = cps
      BY <1>0, <1>1, GrownSame DEF vars, ctxVars, bookVars
    <2> QED
      BY <2>1, Extends
  <1>2. CASE UserStep
    <2>1. CASE \/ \E n \in 0..3 : Prompt(n) \/ ContinueFinished(n)
               \/ PromptTooLong \/ ContinueInterrupted
      BY <1>0, <2>1, LoopExtends, Extends
    <2>2. CASE \E n \in 0..3 : ClearCommand(n)
      BY <2>2, StartsAfresh DEF ClearCommand, Cleared
    <2>3. CASE \E tail \in {<<>>, <<"user">>} : LoadCommand(tail)
      BY <2>3, Loads
    <2>4. CASE \E sel \in 0..Len(cps) : UndoFast(sel) \/ \E n \in Lengths : UndoSlow(sel, n)
      <3>1. PICK sel \in 0..Len(cps) : UndoFast(sel) \/ \E n \in Lengths : UndoSlow(sel, n)
        BY <2>4
      <3>2. Undoable(sel) /\ "undo" \in features
        BY <3>1 DEF UndoFast, UndoSlow, Undoable
      <3>3. NoWindow /\ MemInv
        BY <1>0, <3>2 DEF NothingTakenBack
      <3>4. Resized(tracker, Target(sel)) = Prefix(tracker, Target(sel))
        BY <1>0, <3>2, <3>3, UndoHyps
      <3>5. \/ cps' = <<>>
            \/ tracker' = Prefix(tracker, Target(sel)) /\ cps' = Remaining(sel)
        BY <3>1, <3>4 DEF UndoFast, UndoSlow, Cleared
      <3> QED
        BY <3>2, <3>5, GoesBack, StartsAfresh
    <2> QED
      BY <1>2, <2>1, <2>2, <2>3, <2>4 DEF UserStep
  <1>3. CASE AutoContinue \/ GenStep
    BY <1>0, <1>3, LoopExtends, Extends DEF GenStep
  <1>4. CASE ToolStep
    <2>1. CASE RollBackFast \/ RollBackAborts \/ \E n \in Lengths : RollBackAnchor(n)
      <3>1. pc = "corrected" /\ "bad" \in features /\ TargetUsed
        BY <1>0, <2>1
        DEF RollBackFast, RollBackAborts, RollBackAnchor, Reachable, LockInv, Latches,
            Correcting, TargetUsed
      <3>2. NoWindow /\ MemInv
        BY <1>0, <3>1 DEF NothingTakenBack
      <3>3. FastOk /\ slot.target \in 0..Len(tracker)
        BY <1>0, <3>1, <3>2, SlotRestores
      <3>4. RollBackFast
        BY <1>0, <2>1, <3>3, ContextTypes DEF RollBackAnchor, RollBackAborts
      <3>5. tracker' = Prefix(tracker, slot.target) /\ cps' = cps
        BY <3>4 DEF RollBackFast, Kept, bookVars
      <3>6. \A i \in 1..Len(cps) : cps[i] <= slot.target
        BY <1>0, <3>1, <3>2, WindowHyps
      <3> QED
        BY <3>3, <3>5, <3>6, TakesBack
    <2>2. CASE ~(RollBackFast \/ RollBackAborts \/ \E n \in Lengths : RollBackAnchor(n))
      BY <1>0, <1>4, <2>2, LoopExtends, Extends DEF ToolStep
    <2> QED
      BY <2>1, <2>2
  <1>5. CASE FinishStep
    <2>1. CASE FinishTurn
      BY <1>0, <2>1, ContextTypes, TurnMarked DEF FinishTurn
    <2>2. CASE FinishResumed
      <3>1. provisional + 1 = Len(cps) /\ cps # <<>>
        BY <1>0, <2>2, ContextTypes DEF FinishResumed, LockInv, Latches
      <3>2. cps' = [cps EXCEPT ![Len(cps)] = Len(tracker)] /\ tracker' = tracker
        BY <1>0, <2>2, <3>1, ContextTypes DEF FinishResumed
      <3> QED
        BY <3>1, <3>2, TurnMarked
    <2>3. CASE FinishPlain
      BY <1>0, <2>3, LoopExtends, Extends
    <2> QED
      BY <1>5, <2>1, <2>2, <2>3 DEF FinishStep
  <1> QED
    BY <1>1, <1>2, <1>3, <1>4, <1>5 DEF Next, LoopStep

\* A session starts as a conversation does.
LEMMA InitPromise ==
  ASSUME Init
  PROVE  Promise!Init
  <1>1. LockInv /\ Follows /\ cps = <<>>
    BY InitLock, InitFollows DEF Init
  <1>2. State(mem) = tracker /\ tracker \in Seq(Token)
    BY <1>1, ContextTypes DEF Follows, Coherent
  <1> QED
    BY <1>1, <1>2 DEF Promise!Init

\* Between the user's commands the memory grows or takes back the turn in progress, and
\* /undo gives exactly an earlier turn's end: in orderly scenarios without snapshots, and
\* in those without /undo and corrections for any snapshot window.
THEOREM SessionPromise ==
  ASSUME NoWindow \/ NothingTakenBack
  PROVE  Spec => ImplementsConversation
  <1>1. CASE NoWindow
    <2>1. LockInv /\ MemInv => Tells
      BY DEF Tells, MemInv
    <2>2. (LockInv /\ MemInv)' => Tells'
      BY DEF Tells, MemInv
    <2>3. LockInv /\ MemInv /\ (LockInv /\ MemInv)' /\ [Next]_vars
            => [Promise!Next]_(Promise!conversation)
      BY <1>1, <2>1, <2>2, StepPromise
    <2>4. Spec => [](LockInv /\ MemInv)
      BY <1>1, MemInvHolds
    <2> QED
      BY <2>3, <2>4, InitPromise, PTL DEF Spec, ImplementsConversation, Promise!Spec
  <1>2. CASE NothingTakenBack
    <2>1. Tells /\ Tells' /\ [Next]_vars => [Promise!Next]_(Promise!conversation)
      BY <1>2, StepPromise
    <2>2. Init => Tells
      BY InitLock, InitFollows DEF Tells
    <2>3. Tells /\ [Next]_vars => Tells'
      <3>1. NoOrphans
        BY <1>2 DEF NothingTakenBack, NoOrphans
      <3> QED
        BY <1>2, <3>1, StepLock, StepForward DEF Tells
    <2> QED
      BY <2>1, <2>2, <2>3, InitPromise, PTL DEF Spec, ImplementsConversation, Promise!Spec
  <1> QED
    BY <1>1, <1>2

-----------------------------------------------------------------------------
\* What Conversation promises a user, for the session's checkpoints.

MarksInv == Tells /\ MarksOrdered

\* The checkpoints are ordered positions of the history.
LEMMA MarksOfHistory ==
  ASSUME MarksInv
  PROVE  Promise!MarksInHistory
  <1>1. State(mem) = tracker
    BY ContextTypes DEF MarksInv, Tells, Follows, Coherent
  <1> QED
    BY <1>1 DEF MarksInv, MarksOrdered, Promise!MarksInHistory, Promise!Ordered

\* A longer history begins like the shorter one it extends.
LEMMA SamePast ==
  ASSUME NEW h \in Seq(Token), NEW g \in Seq(Token), NEW t \in 0..Len(h),
         Len(g) > Len(h), SubSeq(g, 1, Len(h)) = h
  PROVE  SubSeq(g, 1, t) = SubSeq(h, 1, t)
  <1>1. Prefix(Prefix(g, Len(h)), t) = Prefix(g, t)
    <2>1. Len(h) \in 0..Len(g) /\ t \in 0..Len(h)
      OBVIOUS
    <2> QED
      BY <2>1, PrefixOfPrefix
  <1> QED
    BY <1>1 DEF Prefix

\* A step of the conversation that keeps its marks keeps what came before the last.
LEMMA StepPast ==
  ASSUME MarksInv, Tells', Promise!Next
  PROVE  Promise!PastKept
  <1> DEFINE t == Promise!TurnStart
  <1>1. /\ State(mem) = tracker /\ State(mem)' = tracker' /\ tracker \in Seq(Token)
        /\ tracker' \in Seq(Token) /\ cps \in Seq(Nat) /\ Len(cps) \in Nat
        /\ Len(tracker) \in Nat
    BY Mapped DEF MarksInv
  <1> SUFFICES ASSUME cps # <<>>, Len(cps') >= Len(cps)
               PROVE  SubSeq(tracker', 1, t) = SubSeq(tracker, 1, t)
    BY <1>1 DEF Promise!PastKept, Promise!Upto
  <1>2. t = cps[Len(cps)] /\ t \in 0..Len(tracker)
    <2>1. Len(cps) \in 1..Len(cps)
      BY <1>1, EmptySeq
    <2> QED
      BY <1>1, <2>1 DEF Promise!TurnStart, MarksInv, MarksOrdered
  <1>3. CASE Promise!Extend
    <2>1. Len(tracker') > Len(tracker) /\ SubSeq(tracker', 1, Len(tracker)) = tracker
      BY <1>1, <1>3 DEF Promise!Extend
    <2> HIDE DEF t
    <2> QED
      BY <1>1, <1>2, <2>1, SamePast
  <1>4. CASE Promise!TakeBack
    BY <1>1, <1>4 DEF Promise!TakeBack, Promise!Upto
  <1>5. CASE Promise!Mark \/ Promise!MoveMark
    BY <1>1, <1>5 DEF Promise!Mark, Promise!MoveMark
  <1>6. ASSUME NEW i \in 1..Len(cps), Promise!GoBack(i)
        PROVE  SubSeq(tracker', 1, t) = SubSeq(tracker, 1, t)
    <2>1. tracker' = SubSeq(tracker, 1, cps[i]) /\ cps' = SubSeq(cps, 1, i)
      BY <1>1, <1>6 DEF Promise!GoBack, Promise!Upto
    <2>2. Len(cps') = i
      BY <1>1, <2>1
    <2>3. i = Len(cps)
      BY <1>1, <2>2
    <2>4. tracker' = Prefix(tracker, t) /\ t \in 0..t
      BY <1>2, <2>1, <2>3 DEF Prefix
    <2> HIDE DEF t
    <2>5. Prefix(Prefix(tracker, t), t) = Prefix(tracker, t)
      BY <1>1, <1>2, <2>4, PrefixOfPrefix
    <2> QED
      BY <2>4, <2>5 DEF Prefix
  <1>7. CASE Promise!StartAfresh
    BY <1>1, <1>7, EmptySeq DEF Promise!StartAfresh
  <1>8. CASE Promise!Load
    BY <1>8 DEF Promise!Load
  <1> QED
    BY <1>3, <1>4, <1>5, <1>6, <1>7, <1>8 DEF Promise!Next

\* The invariants of both cases give the marks.
LEMMA MarksHold ==
  ASSUME NoWindow \/ NothingTakenBack
  PROVE  Spec => []MarksInv
  <1>1. CASE NoWindow
    <2>1. LockInv /\ MemInv => MarksInv
      BY <1>1, WindowHyps DEF MarksInv, Tells, MemInv, LockInv, Marks
    <2> QED
      BY <1>1, <2>1, MemInvHolds, PTL
  <1>2. CASE NothingTakenBack
    <2>1. Init => Tells
      BY InitLock, InitFollows DEF Tells
    <2>2. Tells /\ [Next]_vars => Tells'
      <3>1. NoOrphans
        BY <1>2 DEF NothingTakenBack, NoOrphans
      <3> QED
        BY <1>2, <3>1, StepLock, StepForward DEF Tells
    <2>3. Tells => MarksInv
      BY <1>2, ContextTypes
      DEF MarksInv, Tells, LockInv, Marks, MarksKept, NothingTakenBack
    <2> QED
      BY <2>1, <2>2, <2>3, PTL DEF Spec
  <1> QED
    BY <1>1, <1>2

\* What /undo offers: every checkpoint is a position of what the model remembers, and
\* later ones are not earlier in it.
THEOREM SessionMarks ==
  ASSUME NoWindow \/ NothingTakenBack
  PROVE  Spec => []Promise!MarksInHistory
  BY MarksHold, MarksOfHistory, PTL

\* No step rewrites what came before the last checkpoint and leaves that one standing:
\* only /undo, /clear and /load take finished turns away.
THEOREM SessionPast ==
  ASSUME NoWindow \/ NothingTakenBack
  PROVE  Spec => [][Promise!PastKept]_(Promise!conversation)
  <1>1. MarksInv /\ MarksInv' /\ [Promise!Next]_(Promise!conversation)
          => [Promise!PastKept]_(Promise!conversation)
    BY StepPast DEF MarksInv
  <1>2. Spec => [][Promise!Next]_(Promise!conversation)
    BY SessionPromise, PTL DEF ImplementsConversation, Promise!Spec
  <1> QED
    BY <1>1, <1>2, MarksHold, PTL
=============================================================================
