------------------------------ MODULE Session ------------------------------
(***************************************************************************)
(* The turn loop of ChatSession::run (src/session.cc), chatbot mode 0, on  *)
(* an interactive terminal: prompts, generations, tool calls with the      *)
(* correction cycle, /continue, /undo, /clear, and the bookkeeping of the  *)
(* checkpoints that makes /undo and the correction rollback instant.       *)
(*                                                                         *)
(* A generation is abstracted to the tokens it commits; what SpecRound     *)
(* shows of it is used here: it leaves tracker, cache and n_past_ in       *)
(* lockstep, possibly with a rollback of drafts pending.  Indices are the  *)
(* code's (from 0, -1 for none); cps[i + 1] is prompt_checkpoints[i].      *)
(***************************************************************************)
EXTENDS RsMemory, Integers, FiniteSetsExt, SequencesExt

CONSTANTS
    NCtx,        \* n_ctx: cells of the cache
    Limit,       \* n_ctx - 10: where a generation gives up
    Line,        \* 90% of n_ctx: where a turn is cut by a checkpoint
    MaxAuto,     \* LIM_MAX_AUTO_CONTINUE
    MaxPrompts,  \* bound of the model: checkpoints after which no one types a prompt
    Scenarios    \* the sets of features to explore, see Features

Kinds == {"sys", "close", "user", "asst", "word", "eog", "func", "body",
          "result", "repair", "abort", "pad"}

\* What the user, the model and the machine do in a scenario: Ctrl+C and failed
\* decodes; /continue; /undo; tool calls; malformed or endless ones; nested thinking tags;
\* a turn that crosses 90% of the context; Ctrl+C while a fresh session is fed;
\* /load, of a session that was saved with a turn behind its last checkpoint; a
\* generation that is left with drafts still to verify.
Features == {"interrupt", "continue", "undo", "tool", "bad", "sim", "line", "cut",
             "load", "tail", "drafts"}

ASSUME SessionAssumption ==
    /\ Kinds = Token
    /\ NCtx \in Nat /\ Limit \in 1..NCtx /\ Line \in Nat /\ MaxAuto \in Nat
    /\ MaxPrompts \in Nat
    /\ Scenarios \subseteq SUBSET Features

VARIABLES
    mem, tracker, npast,     \* llama memory, all_context_tokens, n_past_
    cps, offset,             \* prompt_checkpoints, checkpoint_stack_offset
    slot,                    \* the tool_correction_* fields of this turn's slot
    provisional,             \* interrupted_checkpoint_idx
    flag,                    \* the session's latches, see TypeOK
    gen,                     \* the generation: in a call, in a correction, result
    above,                   \* last_context_ is at or above the line
    pc, features,
    chain                    \* history: tools run since the user last spoke

ctxVars == <<mem, tracker, npast>>
bookVars == <<cps, offset, slot, provisional>>
vars == <<ctxVars, bookVars, flag, gen, above, pc, features, chain>>

Results == {"none", "eog", "interrupted", "limit", "early", "call", "stuck", "sim"}

TypeOK ==
    /\ mem \in Memory /\ tracker \in Seq(Token) /\ npast \in 0..NCtx
    /\ cps \in Seq(0..NCtx) /\ offset \in Nat
    /\ slot \in [idx : Int, saved : BOOLEAN, has : BOOLEAN, target : 0..NCtx]
    /\ provisional \in -1..(Len(cps) - 1)
    /\ flag \in [auto : BOOLEAN, interrupted : BOOLEAN, toolPending : BOOLEAN,
                 firstDone : BOOLEAN, attempted : BOOLEAN, selfFix : BOOLEAN,
                 input : BOOLEAN, depth : 0..(MaxAuto + 1)]
    /\ gen \in [call : BOOLEAN, correcting : BOOLEAN, result : Results]
    /\ above \in BOOLEAN /\ features \in Scenarios /\ chain \in 0..(MaxAuto + 2)
    /\ pc \in {"input", "start", "repair", "gen", "tool", "abort", "correct",
               "corrected", "injectFast", "injectAnchor", "finish"}
-----------------------------------------------------------------------------
\* Feeding tokens (feed_tokens_impl).

Fits(toks) == npast + Len(toks) < NCtx

Decoded(m, toks) == IF toks = <<>> THEN m ELSE Decode(m, toks)

\* Only an interrupt or a failing decode cuts a feed short.
Fates(toks) ==
    (IF npast + Len(toks) <= NCtx THEN {Len(toks)} ELSE {}) \cup
    (IF "interrupt" \in features \/ npast + Len(toks) > NCtx
     THEN {n \in 0..(Len(toks) - 1) : npast + n <= NCtx} ELSE {})

\* Mutant: n_past_ keeps counting the tokens that were queued but not decoded.
FedUnsynced(m, base, toks, n) ==
    /\ mem' = Decoded(m, Prefix(toks, n))
    /\ npast' = Len(m.kv) + Len(toks)
    /\ tracker' = base \o Prefix(toks, n)

\* The first n of toks are decoded behind the memory m and join the tracker base;
\* n_past_ is synced to the cache.
Fed(m, base, toks, n) ==
    LET end == Len(m.kv) IN
    /\ mem' = Decoded(m, Prefix(toks, n))
    /\ npast' = Len(mem'.kv)
    /\ tracker' = base \o Prefix(toks, npast' - end)

SystemPrompt == <<"sys">>

MidTurn == Len(tracker) > Len(SystemPrompt) /\ Last(tracker) # "eog"

\* build_new_user_turn_tokens: an interrupted or mid-turn position is closed.
UserTurn ==
    (IF flag.interrupted \/ MidTurn THEN <<"close">> ELSE <<>>) \o <<"user">>

Latched(f) == [f EXCEPT !.attempted = FALSE, !.selfFix = FALSE]

\* ++g_auto_continue_depth_; only its order against MaxAuto is ever looked at.
Deeper == Min({flag.depth + 1, MaxAuto + 1})

\* std::vector::resize.
Resized(s, n) == [i \in 1..n |-> IF i <= Len(s) THEN s[i] ELSE "pad"]
-----------------------------------------------------------------------------
\* The prompt.

Idle == pc = "input" /\ ~flag.auto

Types == Idle /\ Len(cps) < MaxPrompts

Prompt(n) ==
    /\ Types /\ Fits(UserTurn) /\ n \in Fates(UserTurn)
    /\ Fed(mem, tracker, UserTurn, n)
    /\ flag' = [flag EXCEPT !.input = TRUE, !.interrupted = FALSE, !.toolPending = FALSE]
    /\ provisional' = -1
    /\ pc' = IF n = Len(UserTurn) THEN "start" ELSE "input"
    /\ chain' = 0
    /\ UNCHANGED <<cps, offset, slot, gen, above, features>>

PromptTooLong ==
    /\ Types /\ ~Fits(UserTurn)
    /\ flag' = [flag EXCEPT !.input = TRUE, !.interrupted = FALSE, !.toolPending = FALSE]
    /\ provisional' = -1
    /\ UNCHANGED <<ctxVars, cps, offset, slot, gen, above, pc, features, chain>>

AutoContinue ==
    /\ pc = "input" /\ flag.auto
    /\ pc' = "start"
    /\ UNCHANGED <<ctxVars, bookVars, flag, gen, above, features, chain>>

\* /continue resumes an interrupted call or turn ...
ContinueInterrupted ==
    /\ Idle /\ "continue" \in features /\ (flag.toolPending \/ flag.interrupted)
    /\ flag' = [flag EXCEPT !.interrupted = FALSE, !.auto = TRUE]
    /\ pc' = "start" /\ chain' = 0
    /\ UNCHANGED <<ctxVars, bookVars, gen, above, features>>

\* ... or keeps the model going after a finished one, with an assistant prefill;
\* whether the prefill fits or its feed succeeds is not looked at.
ContinueFinished(n) ==
    /\ Idle /\ "continue" \in features
    /\ ~flag.toolPending /\ ~flag.interrupted /\ flag.firstDone /\ ~MidTurn
    /\ IF Fits(<<"asst">>) THEN n \in Fates(<<"asst">>) /\ Fed(mem, tracker, <<"asst">>, n)
                           ELSE n = 0 /\ UNCHANGED ctxVars
    /\ flag' = [flag EXCEPT !.auto = TRUE]
    /\ pc' = "start" /\ chain' = 0
    /\ UNCHANGED <<bookVars, gen, above, features>>

\* reset_session_state, and the reset of the two latches before it.
ResetFlags(f) ==
    [Latched(f) EXCEPT !.auto = FALSE, !.interrupted = FALSE, !.toolPending = FALSE,
                       !.firstDone = TRUE]

\* clear_session: a partial feed of the system prompt goes unnoticed.
Cleared(n) ==
    /\ Fed(Clear(mem), <<>>, SystemPrompt, n)
    /\ cps' = <<>> /\ offset' = 0 /\ provisional' = -1
    /\ slot' = [slot EXCEPT !.idx = -1, !.saved = FALSE]
    /\ flag' = ResetFlags(flag)

ClearCommand(n) ==
    /\ Idle /\ n \in {Len(SystemPrompt)} \cup (IF "cut" \in features THEN {0} ELSE {})
    /\ Cleared(n)
    /\ chain' = 0
    /\ UNCHANGED <<gen, above, pc, features>>
\* /load from the state cache (perform_restore), only into a fresh session.  The
\* state is that after the last token; it is pushed for the last checkpoint, the
\* earlier ones have no entry.
Saved == [tokens |-> <<"sys", "user", "eog", "user", "eog">>, cps |-> <<3, 5>>]

LoadCommand(tail) ==
    /\ Idle /\ "load" \in features /\ cps = <<>> /\ Len(tracker) = Len(SystemPrompt)
    /\ tail = <<>> \/ "tail" \in features
    /\ tracker' = Saved.tokens \o tail
    /\ mem' = RsSave(Decode(Clear(mem), tracker'))
    /\ npast' = Len(tracker') /\ above' = (npast' >= Line)
    /\ cps' = Saved.cps /\ offset' = Len(Saved.cps) - 1 /\ provisional' = -1
    /\ chain' = 0
    /\ UNCHANGED <<slot, flag, gen, pc, features>>
-----------------------------------------------------------------------------
\* /undo to checkpoint sel, which is not the last one.

Target(sel) == cps[sel + 1]

\* Mutant: the checkpoint's index is used for the stack's.
UndoMemUnmapped(sel) == RsRestore(mem, sel)

\* The recurrent state of the checkpoint is restored if the stack still has it.
UndoMem(sel) == IF sel >= offset THEN RsRestore(mem, sel - offset) ELSE mem

Erased(sel) == {i \in (sel + 1)..(Len(cps) - 1) : i < offset}

\* Mutant: the target is erased with the checkpoints beyond it.
RemainingBefore(sel) == Prefix(cps, sel)

Remaining(sel) == Prefix(cps, sel + 1)

Undoable(sel) == Idle /\ "undo" \in features /\ sel \in 0..(Len(cps) - 2)

UndoFast(sel) ==
    /\ Undoable(sel) /\ SeqRmOk(UndoMem(sel), Target(sel))
    /\ LET m == SeqRm(UndoMem(sel), Target(sel))
       IN mem' = IF sel >= offset THEN RsPrune(m, sel - offset) ELSE m
    /\ npast' = Target(sel) /\ tracker' = Resized(tracker, Target(sel))
    /\ cps' = Remaining(sel)
    /\ offset' = Max({0, offset - Cardinality(Erased(sel))})
    /\ slot' = [slot EXCEPT !.saved = FALSE] /\ provisional' = -1
    /\ flag' = ResetFlags(flag) /\ chain' = 0
    /\ UNCHANGED <<gen, above, pc, features>>

\* Otherwise the prefix is decoded again from nothing; interrupted or failed, the
\* session starts afresh.
UndoSlow(sel, n) ==
    /\ Undoable(sel) /\ ~SeqRmOk(UndoMem(sel), Target(sel))
    /\ LET kept == Resized(tracker, Target(sel)) IN
       IF n = Target(sel)
       THEN /\ mem' = RsSave(Decoded(Clear(mem), kept))
            /\ npast' = n /\ tracker' = kept
            /\ cps' = Remaining(sel) /\ offset' = sel
            /\ slot' = [slot EXCEPT !.idx = -1, !.saved = FALSE] /\ provisional' = -1
            /\ flag' = ResetFlags(flag)
       ELSE /\ "interrupt" \in features /\ n = 0
            /\ Cleared(Len(SystemPrompt))
    /\ chain' = 0
    /\ UNCHANGED <<gen, above, pc, features>>
-----------------------------------------------------------------------------
\* generate_response.

StartGeneration ==
    /\ pc \in {"start", "repair"}
    /\ LET fresh == pc = "start" /\ slot.idx < 0
           f == [flag EXCEPT !.toolPending = FALSE,
                             !.depth = IF flag.auto THEN @ ELSE 0]
       IN /\ flag' = IF fresh THEN Latched(f) ELSE f
          /\ slot' = IF fresh THEN [slot EXCEPT !.has = FALSE] ELSE slot
    /\ gen' = [call |-> flag.toolPending, correcting |-> pc = "repair", result |-> "none"]
    /\ pc' = "gen"
    /\ UNCHANGED <<ctxVars, cps, offset, provisional, above, features, chain>>

Crossed == "line" \in features /\ ~above /\ npast >= Line

\* A token is sampled and decoded.
Samples == pc = "gen" /\ ~Crossed /\ npast < Limit

Commits(t) ==
    /\ npast' = npast + 1 /\ tracker' = Append(tracker, t)
    /\ above' = (npast >= Line)

\* The leave of the token loop.  The last verify batch held n drafts behind the
\* last committed token; the cleanup has removed them (CleanupRollback).
Ahead == {0} \cup {n \in 1..NRsSeq : /\ "drafts" \in features
                                      /\ n < NRsSeq /\ npast + 1 + n <= NCtx}

Speculated == tracker # <<>> /\ Last(tracker) \in {"word", "func"}

Settle(m, n) ==
    IF n = 0 THEN m
    ELSE [m EXCEPT !.planes = [i \in 0..NRsSeq |->
                                 IF i <= n THEN State(m) \o Resized(<<>>, n - i)
                                 ELSE m.planes[i]],
                   !.rsIdx = n]

\* Mutant: the chain of automatic continuations survives an early exit.
StillAuto(result) == flag.auto

\* Only a complete tool call lets it go on.
Chains(result) == flag.auto /\ result = "call"

Leaves(result) ==
    /\ gen' = [gen EXCEPT !.result = result]
    /\ flag' = [flag EXCEPT
         !.firstDone = TRUE,
         !.toolPending = gen.call /\ result \notin {"call", "stuck"},
         !.interrupted = @ \/ result \in {"interrupted", "limit"},
         !.auto = Chains(result)]
    /\ pc' = IF gen.correcting THEN "corrected" ELSE "tool"
    /\ UNCHANGED <<bookVars, features, chain>>

GenWord ==
    /\ Samples /\ Commits("word") /\ mem' = Decode(mem, <<"word">>)
    /\ UNCHANGED <<bookVars, flag, gen, pc, features, chain>>

\* The turn has one entry, pushed by its first call.
SlotEntry(m, i) == IF slot.saved THEN RsOverwrite(m, i) ELSE RsSave(m)

\* Mutants: the position before FUNC_START is taken; an old target is kept.
TargetBefore == npast

TargetKept == slot.target

TargetAfter == npast + 1

\* FUNC_START is complete: the hook saves the recurrent state right behind it
\* (unless a verify batch is ahead of n_past_) and moves the rollback target.
Hooked(m, lockstep) ==
    LET i == IF slot.idx < 0 THEN Len(cps) - offset ELSE slot.idx IN
    /\ mem' = IF lockstep THEN SlotEntry(m, i) ELSE m
    /\ slot' = [idx |-> i, saved |-> slot.saved \/ lockstep, has |-> lockstep,
                target |-> TargetAfter]

GenFuncStart(lockstep) ==
    /\ Samples /\ "tool" \in features /\ ~gen.call /\ Commits("func")
    /\ lockstep \/ NRsSeq > 1
    /\ LET m == Decode(mem, <<"func">>)
       IN IF gen.correcting THEN mem' = m /\ UNCHANGED slot ELSE Hooked(m, lockstep)
    /\ gen' = [gen EXCEPT !.call = TRUE]
    /\ UNCHANGED <<cps, offset, provisional, flag, pc, features, chain>>

\* An EOG inside a call closes the call.
GenEog(n) ==
    /\ Samples /\ Commits("eog") /\ mem' = Settle(Decode(mem, <<"eog">>), n)
    /\ Leaves(IF gen.call THEN "call" ELSE "eog")

GenBody(stuck, n) ==
    /\ Samples /\ gen.call /\ Commits("body") /\ mem' = Settle(Decode(mem, <<"body">>), n)
    /\ stuck => "bad" \in features
    /\ Leaves(IF stuck THEN "stuck" ELSE "call")

GenInterrupted(n) ==
    /\ pc = "gen" /\ "interrupt" \in features
    /\ n > 0 => Speculated
    /\ mem' = Settle(mem, n)
    /\ Leaves("interrupted")
    /\ UNCHANGED <<tracker, npast, above>>

GenCrosses(n) ==
    /\ pc = "gen" /\ Crossed
    /\ n > 0 => Speculated
    /\ mem' = Settle(mem, n) /\ above' = TRUE
    /\ Leaves("limit")
    /\ UNCHANGED <<tracker, npast>>

GenExhausted ==
    /\ pc = "gen" /\ ~Crossed /\ (npast >= Limit \/ "interrupt" \in features)
    /\ above' = (npast >= Line)
    /\ Leaves("early")
    /\ UNCHANGED ctxVars

GenSimulates(n) ==
    /\ Samples /\ "sim" \in features /\ ~gen.call
    /\ n > 0 => Speculated
    /\ mem' = Settle(mem, n) /\ above' = (npast >= Line)
    /\ Leaves("sim")
    /\ UNCHANGED <<tracker, npast>>
-----------------------------------------------------------------------------
\* Thinking-simulation recovery (step 7b): a fresh "continue" turn.
Recover(n) ==
    /\ pc = "tool" /\ gen.result = "sim" /\ flag.depth < MaxAuto
    /\ IF Fits(UserTurn) THEN n \in Fates(UserTurn) /\ Fed(mem, tracker, UserTurn, n)
                         ELSE n = 0 /\ UNCHANGED ctxVars
    /\ flag' = [flag EXCEPT !.depth = Deeper, !.interrupted = FALSE,
                            !.auto = n = Len(UserTurn)]
    /\ pc' = IF n = Len(UserTurn) THEN "start" ELSE "finish"
    /\ UNCHANGED <<bookVars, gen, above, features, chain>>

RecoveryExhausted ==
    /\ pc = "tool" /\ gen.result = "sim" /\ flag.depth >= MaxAuto
    /\ flag' = [flag EXCEPT !.auto = FALSE] /\ pc' = "finish"
    /\ UNCHANGED <<ctxVars, bookVars, gen, above, features, chain>>

\* ToolExecutor::execute.  The loop goes on to step 9 after a tool call that ends
\* the chain, but back to the prompt after one injected by a correction.
AfterTool == IF gen.correcting THEN "input" ELSE "finish"

\* The result does not fit: a short error is fed in its place.
ToolTurn == IF Fits(<<"result", "result">>) THEN <<"result", "result">>
            ELSE <<"result">>

\* A valid call, or the first with a missing parameter (fed back as an ordinary
\* result so that the model can complete the call).
RunTool(complete, n) ==
    /\ pc = "tool" /\ gen.result = "call"
    /\ complete \/ ("bad" \in features /\ ~flag.selfFix /\ ~gen.correcting)
    /\ n \in Fates(ToolTurn) /\ Fed(mem, tracker, ToolTurn, n)
    /\ LET done == n = Len(ToolTurn)
           d == IF done THEN Deeper ELSE flag.depth
       IN /\ flag' = [flag EXCEPT !.selfFix = ~complete, !.depth = d,
                                  !.auto = done /\ d <= MaxAuto]
          /\ pc' = IF ~done THEN "abort"
                   ELSE IF d <= MaxAuto THEN "input" ELSE AfterTool
    /\ chain' = Min({chain + 1, MaxAuto + 2})
    /\ UNCHANGED <<bookVars, gen, above, features>>

\* A malformed call, or one incomplete again: corrected once, then aborted.
BadCall(structural) ==
    /\ pc = "tool" /\ gen.result = "call" /\ ~gen.correcting
    /\ "bad" \in features /\ (structural \/ flag.selfFix)
    /\ flag' = [flag EXCEPT !.selfFix = @ /\ ~structural, !.attempted = TRUE,
                            !.auto = FALSE]
    /\ pc' = IF flag.attempted THEN "abort" ELSE "correct"
    /\ UNCHANGED <<ctxVars, bookVars, gen, above, features, chain>>

FeedAbort(n) ==
    /\ pc = "abort"
    /\ IF Fits(<<"abort">>)
       THEN n \in Fates(<<"abort">>) /\ Fed(mem, tracker, <<"abort">>, n)
       ELSE n = 0 /\ UNCHANGED ctxVars
    /\ pc' = AfterTool
    /\ flag' = [flag EXCEPT !.auto = FALSE]
    /\ UNCHANGED <<bookVars, gen, above, features, chain>>

StuckCall ==
    /\ pc = "tool" /\ gen.result = "stuck"
    /\ flag' = [flag EXCEPT !.attempted = TRUE]
    /\ pc' = IF flag.attempted THEN "finish" ELSE "correct"
    /\ UNCHANGED <<ctxVars, bookVars, gen, above, features, chain>>

NoTool ==
    /\ pc = "tool" /\ gen.result \in {"eog", "interrupted", "limit", "early"}
    /\ pc' = "finish"
    /\ UNCHANGED <<ctxVars, bookVars, flag, gen, above, features, chain>>
-----------------------------------------------------------------------------
\* The correction cycle (step 8b).

Repair == <<"repair", "repair">>

Eject == flag' = [Latched(flag) EXCEPT !.auto = FALSE] /\ pc' = "input"

AskCorrection(n) ==
    /\ pc = "correct" /\ Fits(Repair) /\ n \in Fates(Repair)
    /\ Fed(mem, tracker, Repair, n)
    /\ IF n = Len(Repair) THEN pc' = "repair" /\ UNCHANGED flag ELSE Eject
    /\ UNCHANGED <<bookVars, gen, above, features, chain>>

CorrectionDoesNotFit ==
    /\ pc = "correct" /\ ~Fits(Repair)
    /\ flag' = Latched(flag) /\ pc' = "input"
    /\ UNCHANGED <<ctxVars, bookVars, gen, above, features, chain>>

CorrectionInvalid ==
    /\ pc = "corrected" /\ gen.result = "call"
    /\ Eject
    /\ UNCHANGED <<ctxVars, bookVars, gen, above, features, chain>>

CorrectionFailed ==
    /\ pc = "corrected" /\ gen.result # "call"
    /\ flag' = [flag EXCEPT !.auto = FALSE, !.attempted = FALSE] /\ pc' = "input"
    /\ UNCHANGED <<ctxVars, bookVars, gen, above, features, chain>>

\* No prompt checkpoint yet: the clean call is executed where it is.
ExecuteInPlace ==
    /\ pc = "corrected" /\ gen.result = "call" /\ cps = <<>>
    /\ flag' = [flag EXCEPT !.attempted = FALSE] /\ pc' = "tool"
    /\ UNCHANGED <<ctxVars, bookVars, gen, above, features, chain>>

\* rollback_to_tool_checkpoint: the slot restores the state behind FUNC_START ...
Reachable == pc = "corrected" /\ gen.result = "call" /\ cps # <<>>
             /\ Len(tracker) >= slot.target

SlotMem == IF slot.has THEN RsPrune(RsRestore(mem, slot.idx), slot.idx) ELSE mem

FastOk == slot.has /\ SeqRmOk(SlotMem, slot.target)

Kept == Prefix(tracker, slot.target)

RollBackFast ==
    /\ Reachable /\ FastOk
    /\ mem' = SeqRm(SlotMem, slot.target)
    /\ npast' = slot.target /\ tracker' = Kept
    /\ pc' = "injectFast"
    /\ UNCHANGED <<bookVars, flag, gen, above, features, chain>>

\* ... or the newest live checkpoint before it does, and the rest is re-decoded.
Anchors == {i \in 0..(Len(cps) - 1) : cps[i + 1] <= slot.target /\ i >= offset}

RollBackAnchor(n) ==
    /\ Reachable /\ ~FastOk /\ Anchors # {}
    /\ LET a == Max(Anchors)
           m == RsRestore(SlotMem, a - offset)
           suffix == SubSeq(tracker, cps[a + 1] + 1, slot.target)
       IN /\ SeqRmOk(m, cps[a + 1])
          /\ n = Len(suffix) \/ ("interrupt" \in features /\ n \in 0..(Len(suffix) - 1))
          /\ Fed(SeqRm(m, cps[a + 1]), Prefix(tracker, cps[a + 1]), suffix, n)
          /\ IF n = Len(suffix) THEN pc' = "injectAnchor" /\ UNCHANGED flag ELSE Eject
    /\ UNCHANGED <<bookVars, gen, above, features, chain>>

RollBackAborts ==
    /\ pc = "corrected" /\ gen.result = "call" /\ cps # <<>>
    /\ IF Len(tracker) < slot.target THEN UNCHANGED mem
       ELSE /\ ~FastOk
            /\ IF Anchors = {} THEN mem' = SlotMem
               ELSE /\ ~SeqRmOk(RsRestore(SlotMem, Max(Anchors) - offset), cps[Max(Anchors) + 1])
                    /\ mem' = RsRestore(SlotMem, Max(Anchors) - offset)
    /\ Eject
    /\ UNCHANGED <<tracker, npast, bookVars, gen, above, features, chain>>

\* The clean call is injected behind the FUNC_START that is still in context.
Inject(n) ==
    /\ pc \in {"injectFast", "injectAnchor"}
    /\ n \in Fates(<<"body">>) /\ Fed(mem, tracker, <<"body">>, n)
    /\ IF n = 1
       THEN /\ slot' = [slot EXCEPT !.has = pc = "injectFast"]
            /\ flag' = [flag EXCEPT !.attempted = FALSE] /\ pc' = "tool"
       ELSE Eject /\ UNCHANGED slot
    /\ UNCHANGED <<cps, offset, provisional, gen, above, features, chain>>
-----------------------------------------------------------------------------
\* Step 9 and the turn-end checkpoint.

\* Mutant: the turn's checkpoint is pushed beside its slot.
TurnEntryPushed == RsSave(mem)

\* The slot a tool call opened this turn becomes the turn's entry.
TurnEntry ==
    IF slot.idx >= 0 /\ slot.saved THEN RsOverwrite(mem, slot.idx) ELSE RsSave(mem)

Interrupted == Len(cps)

FinishTurn ==
    /\ pc = "finish" /\ flag.input
    /\ cps' = Append(cps, npast)
    /\ mem' = TurnEntry
    /\ slot' = IF slot.idx >= 0 THEN [slot EXCEPT !.idx = -1, !.saved = FALSE] ELSE slot
    /\ IF gen.result = "limit"
       THEN /\ flag' = [Latched(flag) EXCEPT !.interrupted = FALSE, !.auto = TRUE]
            /\ UNCHANGED provisional
       ELSE /\ flag' = [Latched(flag) EXCEPT !.input = FALSE]
            /\ provisional' = IF gen.result = "interrupted" THEN Interrupted ELSE provisional
    /\ pc' = "input"
    /\ UNCHANGED <<tracker, npast, offset, gen, above, features, chain>>

\* Mutant: the moved checkpoint keeps the state of the interruption.
EntryKept == mem

EntryMoved ==
    IF provisional >= offset THEN RsOverwrite(mem, provisional - offset) ELSE mem

\* The end of a resumed turn moves the checkpoint of its interruption.
FinishResumed ==
    /\ pc = "finish" /\ ~flag.input
    /\ provisional >= 0 /\ provisional < Len(cps)
    /\ gen.result \notin {"interrupted", "limit"}
    /\ cps' = [cps EXCEPT ![provisional + 1] = npast]
    /\ mem' = EntryMoved
    /\ provisional' = -1
    /\ flag' = Latched(flag) /\ pc' = "input"
    /\ UNCHANGED <<tracker, npast, offset, slot, gen, above, features, chain>>

FinishPlain ==
    /\ pc = "finish" /\ ~flag.input
    /\ ~(provisional >= 0 /\ provisional < Len(cps)
         /\ gen.result \notin {"interrupted", "limit"})
    /\ flag' = Latched(flag) /\ pc' = "input"
    /\ UNCHANGED <<ctxVars, bookVars, gen, above, features, chain>>
-----------------------------------------------------------------------------
Init ==
    /\ mem = Decode(EmptyMem, SystemPrompt) /\ tracker = SystemPrompt
    /\ npast = Len(SystemPrompt)
    /\ cps = <<>> /\ offset = 0 /\ provisional = -1
    /\ slot = [idx |-> -1, saved |-> FALSE, has |-> FALSE, target |-> 0]
    /\ flag = [auto |-> FALSE, interrupted |-> FALSE, toolPending |-> FALSE,
               firstDone |-> FALSE, attempted |-> FALSE, selfFix |-> FALSE,
               input |-> FALSE, depth |-> 0]
    /\ gen = [call |-> FALSE, correcting |-> FALSE, result |-> "none"]
    /\ above = FALSE /\ pc = "input" /\ features \in Scenarios /\ chain = 0

Lengths == 0..NCtx

UserStep ==
    \/ (\E n \in 0..3 : Prompt(n) \/ ContinueFinished(n) \/ ClearCommand(n))
    \/ PromptTooLong \/ ContinueInterrupted
    \/ (\E tail \in {<<>>, <<"user">>} : LoadCommand(tail))
    \/ \E sel \in 0..Len(cps) : UndoFast(sel) \/ \E n \in Lengths : UndoSlow(sel, n)

GenStep ==
    \/ StartGeneration \/ GenWord \/ (\E b \in BOOLEAN : GenFuncStart(b))
    \/ GenExhausted
    \/ \E n \in Ahead : \/ GenEog(n) \/ (\E b \in BOOLEAN : GenBody(b, n))
                         \/ GenInterrupted(n) \/ GenCrosses(n) \/ GenSimulates(n)

ToolStep ==
    \/ RecoveryExhausted \/ StuckCall \/ NoTool \/ CorrectionDoesNotFit
    \/ CorrectionInvalid \/ CorrectionFailed \/ ExecuteInPlace
    \/ RollBackFast \/ RollBackAborts
    \/ (\E b \in BOOLEAN : BadCall(b))
    \/ \E n \in Lengths : \/ Recover(n) \/ (\E b \in BOOLEAN : RunTool(b, n))
                          \/ FeedAbort(n) \/ AskCorrection(n)
                          \/ RollBackAnchor(n) \/ Inject(n)

FinishStep == FinishTurn \/ FinishResumed \/ FinishPlain

LoopStep == AutoContinue \/ GenStep \/ ToolStep \/ FinishStep

Next == UserStep \/ LoopStep

Spec == Init /\ [][Next]_vars

FairSpec == Spec /\ WF_vars(LoopStep)
-----------------------------------------------------------------------------
\* Properties.

\* Whatever was interrupted, failed, undone or corrected, the token tracker (what
\* /save writes), the attention cache and n_past_ are the same context.
Lockstep == tracker = mem.kv /\ npast = Len(tracker)

\* The recurrent state, which no seq_rm can rewind by itself, follows: after an
\* /undo, a rollback or a resumed turn the model remembers exactly the context.
RecurrentInStep == Coherent(mem)

\* At the prompt, every checkpoint that has an entry on the stack (index minus
\* checkpoint_stack_offset) would restore exactly the state at its position: /undo
\* relies on plane 0 then holding "the correct R/S state" (session.cc 2632).
CheckpointsLive ==
    Idle => /\ \A i \in 1..Len(cps) : cps[i] <= Len(tracker)
            /\ \A i \in 0..(Len(cps) - 1) : i >= offset =>
                 /\ i - offset < Len(mem.stack)
                 /\ mem.stack[i - offset + 1] = Prefix(tracker, cps[i + 1])

\* The turn-end block keeps "the stack at exactly one entry per
\* prompt_checkpoint" (session.cc 3666), an open slot aside (expected_stack, 687).
OneSlotPerCheckpoint ==
    Idle => Len(mem.stack) = Len(cps) - offset + (IF slot.saved THEN 1 ELSE 0)

\* The corrected call is injected right behind the FUNC_START of the call it
\* replaces, on both rollback paths, however the correction's own generation ran.
InjectBehindFuncStart ==
    pc \in {"injectFast", "injectAnchor"} =>
        npast = slot.target /\ Last(tracker) = "func"

\* LIM_MAX_AUTO_CONTINUE is the "Maximum depth of automatic tool-call chaining"
\* (README.md 436): that many tools, and the one that hits the cap.
DepthCapped == chain <= MaxAuto + 1

\* The user always gets the prompt back: no chain of tool calls, corrections,
\* recoveries and context-limit resumptions goes on for ever.
TurnEnds == pc # "input" ~> Idle

\* Between the user's commands the model's memory only grows, or takes back the
\* turn in progress; /undo gives back exactly an earlier turn's end.
Promise == INSTANCE Conversation WITH history <- State(mem), marks <- cps

ImplementsConversation == Promise!Spec
=============================================================================
