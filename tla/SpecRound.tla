----------------------------- MODULE SpecRound -----------------------------
(***************************************************************************)
(* One generation of the token generator (TokenGenerator::generate) with   *)
(* the MTP speculative rounds interleaved in its token loop.               *)
(*                                                                         *)
(* The loop body is split at the points where it can leave the loop: the   *)
(* checks at the top, the EOG block, the speculative comparison, the piece *)
(* (tool and thinking tags), the feed, the post-feed round advancement and *)
(* the FUNC_START hook; the post-loop cleanup follows every break.  What a *)
(* piece spells is data: whether it completes a tag is a choice here.      *)
(***************************************************************************)
EXTENDS RsMemory, Integers

CONSTANTS
    Dist(_),        \* tokens the sampler can draw from the logits of a context
    Eog,            \* end-of-generation tokens
    DraftLen,       \* mtp_draft_len: drafts a round proposes
    Limit,          \* n_ctx - 10, where the loop stops by itself
    NCtx,           \* positions the cache holds
    HasThink        \* the model's template has thinking tags

ASSUME SpecRoundAssumption ==
    /\ Eog \subseteq Token
    /\ DraftLen \in Nat \ {0} /\ DraftLen <= NRsSeq
    /\ Limit \in Nat /\ NCtx \in Nat /\ Limit <= NCtx
    /\ HasThink \in BOOLEAN

VARIABLES
    mem,        \* llama memory of the main context
    tracker,    \* out_tokens_: the session's all_context_tokens
    npast,      \* n_past_
    rows,       \* batch_: the context each of its logits rows was computed from
    phase,      \* where the loop body is
    cur,        \* next_token
    spec,       \* the spec_* round state
    exit,       \* why the loop was left
    tool,       \* tool_start_: no call, hook pending, call open
    mark,       \* tool_correction_n_past, written by the hook
    ledger,     \* MTP statistics: rounds not yet noted, origins not yet counted
    redecoded   \* history: the re-decode fallback ran

vars == <<mem, tracker, npast, rows, phase, cur, spec, exit, tool, mark, ledger,
          redecoded>>

Drafts == [1..DraftLen -> Token]

DraftLists == Drafts \cup {<<>>}

RowNumbers == 0..(DraftLen - 1)

Round == [draft : DraftLists, origin : BOOLEAN, inProgress : BOOLEAN,
          bonus : BOOLEAN, verify : BOOLEAN, complete : BOOLEAN,
          noFeed : BOOLEAN, row : RowNumbers, rows : RowNumbers,
          committed : RowNumbers]

NoRound == [draft |-> <<>>, origin |-> FALSE, inProgress |-> FALSE,
            bonus |-> FALSE, verify |-> FALSE, complete |-> FALSE,
            noFeed |-> FALSE, row |-> 0, rows |-> 0, committed |-> 0]

Phases == {"top", "eog", "compare", "piece", "post", "hook", "cleanup", "done"}

Exits == {"none", "interrupted", "early", "eog", "tool", "sim"}

TypeOK ==
    /\ mem \in Memory
    /\ tracker \in Seq(Token) /\ npast \in Nat /\ rows \in Seq(RsState)
    /\ phase \in Phases /\ cur \in Token /\ spec \in Round /\ exit \in Exits
    /\ tool \in {"none", "pending", "open"} /\ mark \in Nat
    /\ ledger \in [open : Int, origins : Int] /\ redecoded \in BOOLEAN

-----------------------------------------------------------------------------
\* A batch of k tokens at position n is accepted only right after the cache's
\* last position and inside the context (else llama_decode returns -1 or 1).
CanDecode(m, n, k) == n = Len(m.kv) /\ n + k <= NCtx

\* sync_n_past: the position after the cache's last.
Synced(m) == Len(m.kv)

\* spec_rollback_redecode: clear the cache, decode the tracker again.
Redecode(m) == Decode(Clear(m), tracker)

\* Drop the uncommitted draft cells, with the re-decode as the fallback.
RolledBack(m) == IF SeqRmOk(m, npast) THEN SeqRm(m, npast) ELSE Redecode(m)

VerifyLeft == spec.inProgress /\ spec.row < spec.rows

\* note_round, and the origin counters of the statistics.
Noted == [ledger EXCEPT !.open = @ - 1]

\* feed_token: commit cur, without a decode when it matched a draft whose cell
\* the verify batch holds (or will hold).  A failed decode writes nothing: n_past
\* is synced to the cache and the tracker shrunk back to it.
Feed(m, sp, ok) ==
    IF sp.noFeed
    THEN /\ tracker' = Append(tracker, cur) /\ npast' = npast + 1
         /\ mem' = m /\ rows' = rows
         /\ spec' = [sp EXCEPT !.noFeed = FALSE]
    ELSE IF ok
    THEN /\ CanDecode(m, npast, 1)
         /\ tracker' = Append(tracker, cur) /\ npast' = npast + 1
         /\ mem' = Decode(m, <<cur>>) /\ rows' = <<State(Decode(m, <<cur>>))>>
         /\ spec' = sp
    ELSE /\ tracker' = IF Len(tracker) + 1 > Synced(m)
                       THEN Prefix(tracker, Synced(m)) ELSE Append(tracker, cur)
         /\ npast' = Synced(m)
         /\ mem' = m /\ rows' = <<Blank>>
         /\ spec' = sp

\* A break after the feed: its failure turns the exit into an early one.
LeaveAfterFeed(ok, sp, why) ==
    /\ phase' = "cleanup"
    /\ exit' = IF ok \/ sp.noFeed THEN why ELSE "early"
-----------------------------------------------------------------------------
\* The top of the loop.

\* Ctrl+C, the turn timeout, or the forced turn end at 90% of the context.
Interrupt ==
    /\ phase = "top"
    /\ phase' = "cleanup" /\ exit' = "interrupted"
    /\ UNCHANGED <<mem, tracker, npast, rows, cur, spec, tool, mark, ledger, redecoded>>

\* Mutant: no backstop at the end of the context.
GiveUpNoBackstop ==
    /\ phase = "top" /\ rows = <<>>
    /\ phase' = "cleanup" /\ exit' = "early"
    /\ UNCHANGED <<mem, tracker, npast, rows, cur, spec, tool, mark, ledger, redecoded>>

\* The context is exhausted, or there is no row to sample from.
GiveUp ==
    /\ phase = "top"
    /\ npast >= Limit \/ rows = <<>>
    /\ phase' = "cleanup" /\ exit' = "early"
    /\ UNCHANGED <<mem, tracker, npast, rows, cur, spec, tool, mark, ledger, redecoded>>

\* Mutant: the batch's last row is always sampled.
SampledLastRow == rows[Len(rows)]

\* During a round a specific verify row is sampled, else the batch's last row.
SampledRow == IF spec.inProgress THEN rows[spec.row + 1] ELSE rows[Len(rows)]

\* llama_sampler_sample: some token of the vocabulary.
Draws(c) == Dist(c) \cap Token

Sample ==
    /\ phase = "top"
    /\ npast < Limit /\ rows # <<>>
    /\ \E t \in Draws(SampledRow) :
         /\ cur' = t
         /\ phase' = IF t \in Eog THEN "eog" ELSE "compare"
    /\ UNCHANGED <<mem, tracker, npast, rows, spec, exit, tool, mark, ledger, redecoded>>
-----------------------------------------------------------------------------
\* The EOG block.

\* Inside an open thinking block the EOG is kept as an ordinary token.
Swallow ==
    /\ phase = "eog" /\ HasThink
    /\ phase' = "compare"
    /\ UNCHANGED <<mem, tracker, npast, rows, cur, spec, exit, tool, mark, ledger, redecoded>>

\* Polling the same row again drew another token.
Poll ==
    /\ phase = "eog"
    /\ \E t \in Draws(SampledRow) \ Eog : cur' = t
    /\ phase' = "compare"
    /\ UNCHANGED <<mem, tracker, npast, rows, spec, exit, tool, mark, ledger, redecoded>>

\* The EOG ends the turn.  It is fed like any token; if a round is open, the
\* comparison block is skipped and its bookkeeping is mirrored here.
EogMatches == VerifyLeft /\ cur = spec.draft[spec.row + 2]

EndTurnMatched ==
    /\ phase = "eog" /\ EogMatches
    /\ LET sp == [spec EXCEPT !.noFeed = TRUE, !.committed = spec.row + 1]
       IN Feed(mem, sp, TRUE) /\ LeaveAfterFeed(TRUE, sp, "eog")
    /\ UNCHANGED <<cur, tool, mark, ledger, redecoded>>

\* Mutant: the draft cells are not removed before the EOG is fed.
EndTurnNoRollback(ok) ==
    /\ phase = "eog" /\ VerifyLeft /\ ~EogMatches
    /\ LET sp == [spec EXCEPT !.inProgress = FALSE, !.noFeed = FALSE,
                              !.row = 0, !.draft = <<>>]
       IN Feed(mem, sp, ok) /\ LeaveAfterFeed(ok, sp, "eog")
    /\ ledger' = Noted
    /\ UNCHANGED <<cur, tool, mark, redecoded>>

EndTurnMismatched(ok) ==
    /\ phase = "eog" /\ VerifyLeft /\ ~EogMatches
    /\ LET sp == [spec EXCEPT !.inProgress = FALSE, !.noFeed = FALSE,
                              !.row = 0, !.draft = <<>>]
       IN Feed(RolledBack(mem), sp, ok) /\ LeaveAfterFeed(ok, sp, "eog")
    /\ ledger' = Noted
    /\ redecoded' = (redecoded \/ ~SeqRmOk(mem, npast))
    /\ UNCHANGED <<cur, tool, mark>>

\* Mutant: the bonus flag survives the EOG that was the bonus.
EndTurnBonusTwice(ok) ==
    /\ phase = "eog" /\ ~VerifyLeft /\ spec.bonus
    /\ Feed(mem, spec, ok) /\ LeaveAfterFeed(ok, spec, "eog")
    /\ ledger' = Noted
    /\ UNCHANGED <<cur, tool, mark, redecoded>>

EndTurnBonus(ok) ==
    /\ phase = "eog" /\ ~VerifyLeft /\ spec.bonus
    /\ LET sp == [spec EXCEPT !.bonus = FALSE]
       IN Feed(mem, sp, ok) /\ LeaveAfterFeed(ok, sp, "eog")
    /\ ledger' = Noted
    /\ UNCHANGED <<cur, tool, mark, redecoded>>

EndTurnPlain(ok) ==
    /\ phase = "eog" /\ ~VerifyLeft /\ ~spec.bonus
    /\ Feed(mem, spec, ok) /\ LeaveAfterFeed(ok, spec, "eog")
    /\ UNCHANGED <<cur, tool, mark, ledger, redecoded>>
-----------------------------------------------------------------------------
\* The speculative comparison: the token to commit against the next draft.

CompareBonus ==
    /\ phase = "compare" /\ spec.bonus
    /\ spec' = [spec EXCEPT !.bonus = FALSE, !.complete = TRUE]
    /\ phase' = "piece"
    /\ UNCHANGED <<mem, tracker, npast, rows, cur, exit, tool, mark, ledger, redecoded>>

\* Mutant: d1 is counted among the rows still to verify.
CompareOriginCounted ==
    /\ phase = "compare" /\ ~spec.bonus /\ spec.origin
    /\ IF cur = spec.draft[1]
       THEN /\ spec' = [spec EXCEPT !.origin = FALSE, !.noFeed = TRUE, !.verify = TRUE,
                                    !.inProgress = TRUE, !.row = 0,
                                    !.rows = Len(spec.draft), !.committed = 0]
            /\ ledger' = [ledger EXCEPT !.origins = @ - 1]
       ELSE /\ spec' = [spec EXCEPT !.origin = FALSE, !.draft = <<>>]
            /\ ledger' = [Noted EXCEPT !.origins = @ - 1]
    /\ phase' = "piece"
    /\ UNCHANGED <<mem, tracker, npast, rows, cur, exit, tool, mark, redecoded>>

CompareOrigin ==
    /\ phase = "compare" /\ ~spec.bonus /\ spec.origin
    /\ IF cur = spec.draft[1]
       THEN /\ spec' = [spec EXCEPT !.origin = FALSE, !.noFeed = TRUE, !.verify = TRUE,
                                    !.inProgress = TRUE, !.row = 0,
                                    !.rows = Len(spec.draft) - 1, !.committed = 0]
            /\ ledger' = [ledger EXCEPT !.origins = @ - 1]
       ELSE /\ spec' = [spec EXCEPT !.origin = FALSE, !.draft = <<>>]
            /\ ledger' = [Noted EXCEPT !.origins = @ - 1]
    /\ phase' = "piece"
    /\ UNCHANGED <<mem, tracker, npast, rows, cur, exit, tool, mark, redecoded>>

CompareVerify ==
    /\ phase = "compare" /\ ~spec.bonus /\ ~spec.origin /\ VerifyLeft
    /\ IF cur = spec.draft[spec.row + 2]
       THEN /\ spec' = [spec EXCEPT !.noFeed = TRUE, !.committed = spec.row + 1,
                                    !.row = spec.row + 1,
                                    !.inProgress = spec.row + 1 < spec.rows,
                                    !.bonus = spec.row + 1 >= spec.rows]
            /\ UNCHANGED <<mem, ledger, redecoded>>
       ELSE /\ mem' = RolledBack(mem)
            /\ redecoded' = (redecoded \/ ~SeqRmOk(mem, npast))
            /\ spec' = [spec EXCEPT !.inProgress = FALSE, !.noFeed = FALSE,
                                    !.row = 0, !.draft = <<>>]
            /\ ledger' = Noted
    /\ phase' = "piece"
    /\ UNCHANGED <<tracker, npast, rows, cur, exit, tool, mark>>

ComparePlain ==
    /\ phase = "compare" /\ ~spec.bonus /\ ~spec.origin /\ ~VerifyLeft
    /\ phase' = "piece"
    /\ UNCHANGED <<mem, tracker, npast, rows, cur, spec, exit, tool, mark, ledger, redecoded>>
-----------------------------------------------------------------------------
\* The piece: the token's text may complete a tag.

\* A nested thinking tag ends the loop before the feed (thinking-simulation
\* tripwire); a Ctrl+C that raced it is honoured as the interrupt.
Tripwire ==
    /\ phase = "piece" /\ HasThink
    /\ exit' \in {"sim", "interrupted"}
    /\ phase' = "cleanup"
    /\ UNCHANGED <<mem, tracker, npast, rows, cur, spec, tool, mark, ledger, redecoded>>

\* The call is complete (or the slash loop or the silent loop was detected in
\* it): the token is fed and the loop is left.
CompleteCall(ok) ==
    /\ phase = "piece" /\ tool = "open"
    /\ Feed(mem, spec, ok) /\ LeaveAfterFeed(ok, spec, "tool")
    /\ UNCHANGED <<cur, tool, mark, ledger, redecoded>>

\* Any other piece; the first FUNC_START schedules the hook.
Piece(ok) ==
    /\ phase = "piece"
    /\ Feed(mem, spec, ok)
    /\ IF ok \/ spec.noFeed
       THEN phase' = "post" /\ UNCHANGED exit
       ELSE phase' = "cleanup" /\ exit' = "early"
    /\ tool' \in IF tool = "none" THEN {"none", "pending"} ELSE {tool}
    /\ UNCHANGED <<cur, mark, ledger, redecoded>>
-----------------------------------------------------------------------------
\* Post-feed round advancement, then the FUNC_START hook.

AfterPost == IF tool = "pending" THEN "hook" ELSE "top"

\* d1 is committed without a cell: decode all drafts in one batch.
VerifyDecode ==
    /\ phase = "post" /\ spec.verify
    /\ CanDecode(mem, npast - 1, Len(spec.draft))
    /\ mem' = Decode(mem, spec.draft)
    /\ rows' = [i \in 1..Len(spec.draft) |-> State(mem) \o Prefix(spec.draft, i)]
    /\ spec' = IF spec.rows > 0 THEN [spec EXCEPT !.verify = FALSE]
               ELSE [spec EXCEPT !.verify = FALSE, !.inProgress = FALSE,
                                 !.bonus = TRUE, !.complete = TRUE]
    /\ phase' = AfterPost
    /\ UNCHANGED <<tracker, npast, cur, exit, tool, mark, ledger, redecoded>>

\* The decode failed after n cells: the uncommitted ones go; d1 stays committed
\* only if its cell was written.
VerifyFail(n) ==
    /\ phase = "post" /\ spec.verify /\ n < Len(spec.draft)
    /\ LET part == IF n = 0 THEN mem ELSE Decode(mem, Prefix(spec.draft, n))
           kept == n > 0
       IN /\ mem' = RolledBack(part)
          /\ redecoded' = (redecoded \/ ~SeqRmOk(part, npast))
          /\ tracker' = IF kept THEN tracker ELSE Prefix(tracker, Len(tracker) - 1)
          /\ npast' = IF kept THEN npast ELSE npast - 1
          /\ rows' = IF kept /\ SeqRmOk(part, npast)
                     THEN <<State(mem) \o Prefix(spec.draft, 1)>> ELSE <<>>
    /\ ledger' = Noted
    /\ spec' = [spec EXCEPT !.verify = FALSE, !.inProgress = FALSE, !.bonus = FALSE,
                            !.complete = FALSE, !.draft = <<>>]
    /\ phase' = "cleanup" /\ exit' = "early"
    /\ UNCHANGED <<cur, tool, mark>>

\* The bonus token was just fed.
CompleteRound ==
    /\ phase = "post" /\ ~spec.verify /\ spec.complete
    /\ spec' = [spec EXCEPT !.complete = FALSE]
    /\ ledger' = Noted
    /\ phase' = AfterPost
    /\ UNCHANGED <<mem, tracker, npast, rows, cur, exit, tool, mark, redecoded>>

\* The speculator proposes drafts for the positions after the row just fed.
StartRound ==
    /\ phase = "post" /\ ~spec.verify /\ ~spec.complete
    /\ ~spec.inProgress /\ ~spec.bonus /\ Len(rows) = 1
    /\ \E d \in Drafts : spec' = [spec EXCEPT !.draft = d, !.origin = TRUE]
    /\ ledger' = [open |-> ledger.open + 1, origins |-> ledger.origins + 1]
    /\ phase' = AfterPost
    /\ UNCHANGED <<mem, tracker, npast, rows, cur, exit, tool, mark, redecoded>>

NoNewRound ==
    /\ phase = "post" /\ ~spec.verify /\ ~spec.complete
    /\ phase' = AfterPost
    /\ UNCHANGED <<mem, tracker, npast, rows, cur, spec, exit, tool, mark, ledger, redecoded>>

\* Mutant: the hook trusts the recurrent state at any moment of a round.
AlwaysLockstep == TRUE

\* on_tool_start_: the rollback target is always set, the recurrent checkpoint
\* is saved only if no uncommitted verify row is ahead of n_past.
InLockstep == ~(spec.inProgress /\ spec.committed < spec.rows)

ToolStartHook ==
    /\ phase = "hook"
    /\ mem' = IF InLockstep THEN RsSave(mem) ELSE mem
    /\ mark' = npast /\ tool' = "open" /\ phase' = "top"
    /\ UNCHANGED <<tracker, npast, rows, cur, spec, exit, ledger, redecoded>>
-----------------------------------------------------------------------------
\* The post-loop cleanup: an open round is settled so that the context is the
\* committed prefix.

RoundOpen == spec.verify \/ spec.inProgress \/ spec.bonus \/ spec.complete \/ spec.origin

Settled(touched) ==
    /\ ledger' = [open |-> ledger.open - 1,
                  origins |-> IF spec.origin THEN ledger.origins - 1 ELSE ledger.origins]
    /\ spec' = NoRound
    /\ phase' = "done"
    /\ UNCHANGED <<cur, tool, mark>>
    /\ redecoded' = (redecoded \/ touched)

CleanupIdle ==
    /\ phase = "cleanup" /\ ~RoundOpen
    /\ phase' = "done"
    /\ UNCHANGED <<mem, tracker, npast, rows, cur, spec, exit, tool, mark, ledger, redecoded>>

\* d1 is in the tracker but the verify batch never ran: give it its cell.
CleanupGiveCell ==
    /\ phase = "cleanup" /\ spec.verify /\ npast > Synced(mem)
    /\ CanDecode(mem, npast - 1, 1)
    /\ mem' = Decode(mem, Prefix(spec.draft, 1))
    /\ rows' = <<State(Decode(mem, Prefix(spec.draft, 1)))>>
    /\ Settled(FALSE)
    /\ UNCHANGED <<tracker, npast, exit>>

\* ... and if that decode fails, d1 leaves the tracker.
CleanupDropCell ==
    /\ phase = "cleanup" /\ spec.verify /\ npast > Synced(mem)
    /\ npast' = npast - 1
    /\ tracker' = Prefix(tracker, Len(tracker) - 1)
    /\ rows' = <<Blank>>
    /\ exit' = "early"
    /\ Settled(FALSE)
    /\ UNCHANGED mem

\* Mutants: a committed d1 is taken for an uncommitted one, and the reverse.
CleanupForgetsCell ==
    /\ phase = "cleanup" /\ spec.verify
    /\ Settled(FALSE)
    /\ UNCHANGED <<mem, tracker, npast, rows, exit>>

CleanupPopsCommitted ==
    /\ phase = "cleanup" /\ spec.verify /\ npast <= Synced(mem)
    /\ npast' = npast - 1 /\ tracker' = Prefix(tracker, Len(tracker) - 1)
    /\ mem' = SeqRm(mem, npast - 1)
    /\ Settled(FALSE)
    /\ UNCHANGED <<rows, exit>>

\* d1 was compared but not fed (tripwire): the round is discarded.
CleanupUnfed ==
    /\ phase = "cleanup" /\ spec.verify /\ npast <= Synced(mem)
    /\ Settled(FALSE)
    /\ UNCHANGED <<mem, tracker, npast, rows, exit>>

\* Mutant: the rolled-back rows stay in the batch.
CleanupKeepsRows ==
    /\ phase = "cleanup" /\ ~spec.verify
    /\ spec.inProgress /\ spec.committed < spec.rows
    /\ mem' = RolledBack(mem) /\ rows' = rows
    /\ Settled(~SeqRmOk(mem, npast))
    /\ UNCHANGED <<tracker, npast, exit>>

\* Verify rows left: their cells are removed and the batch is cut to the last
\* committed row, so that a resumed generation samples a row that still exists.
CleanupRollback ==
    /\ phase = "cleanup" /\ ~spec.verify
    /\ spec.inProgress /\ spec.committed < spec.rows
    /\ mem' = RolledBack(mem)
    /\ rows' = IF SeqRmOk(mem, npast) THEN Prefix(rows, spec.committed + 1) ELSE <<>>
    /\ Settled(~SeqRmOk(mem, npast))
    /\ UNCHANGED <<tracker, npast, exit>>

\* Every decoded cell is committed: only the accounting is left.
CleanupClose ==
    /\ phase = "cleanup" /\ ~spec.verify /\ RoundOpen
    /\ ~(spec.inProgress /\ spec.committed < spec.rows)
    /\ Settled(FALSE)
    /\ UNCHANGED <<mem, tracker, npast, rows, exit>>
-----------------------------------------------------------------------------
\* /continue after an interrupt: the next generation samples the batch as it is.
Resume ==
    /\ phase = "done" /\ exit = "interrupted"
    /\ phase' = "top" /\ exit' = "none"
    /\ UNCHANGED <<mem, tracker, npast, rows, cur, spec, tool, mark, ledger, redecoded>>

Init ==
    /\ \E t \in Token :
         /\ tracker = <<t>> /\ cur = t
         /\ mem = Decode(EmptyMem, <<t>>)
         /\ rows = << <<t>> >>
    /\ npast = 1
    /\ phase = "top" /\ exit = "none" /\ spec = NoRound
    /\ tool = "none" /\ mark = 0
    /\ ledger = [open |-> 0, origins |-> 0] /\ redecoded = FALSE

EogStep ==
    \/ Swallow \/ Poll \/ EndTurnMatched
    \/ \E ok \in BOOLEAN : EndTurnMismatched(ok) \/ EndTurnBonus(ok) \/ EndTurnPlain(ok)

CompareStep == CompareBonus \/ CompareOrigin \/ CompareVerify \/ ComparePlain

PieceStep == Tripwire \/ \E ok \in BOOLEAN : CompleteCall(ok) \/ Piece(ok)

PostStep ==
    \/ VerifyDecode \/ (\E n \in 0..DraftLen : VerifyFail(n))
    \/ CompleteRound \/ StartRound \/ NoNewRound \/ ToolStartHook

CleanupStep ==
    \/ CleanupIdle \/ CleanupGiveCell \/ CleanupDropCell \/ CleanupUnfed
    \/ CleanupRollback \/ CleanupClose

Generate ==
    GiveUp \/ Sample \/ EogStep \/ CompareStep \/ PieceStep \/ PostStep
    \/ CleanupStep

Next == Generate \/ Interrupt \/ Resume

Spec == Init /\ [][Next]_vars

\* The loop is one thread that never waits between two steps; interrupts and
\* resumptions are the user's and get no fairness.
FairSpec == Spec /\ WF_vars(Generate)
-----------------------------------------------------------------------------
\* Properties.

\* However the loop was left, the tracker, the attention cache, the recurrent
\* state and n_past_ describe the same context: saves, checkpoints and the next
\* feed all rely on it (token_generator.cc 433-441).
ExitLockstep ==
    phase = "done" =>
        /\ tracker = mem.kv
        /\ npast = Len(tracker)
        /\ Coherent(mem)

\* Every token is drawn from logits computed for exactly the committed context:
\* not a row of a rolled-back draft, not one position ahead, not a batch whose
\* decode failed.  Holds across interrupted and resumed generations.
SampleSound ==
    phase = "top" /\ npast < Limit /\ rows # <<>> => SampledRow = tracker

\* A rollback of drafts never leaves the snapshot window, so the re-decode
\* fallback "should be unreachable" (token_generator.cc 756).
RollbackInWindow == ~redecoded

\* Every round is noted exactly once, and every round's origin is counted once
\* as matched or not, so origin_ok's denominator is the round count.
RoundsNotedOnce ==
    /\ ledger.open \in {0, 1} /\ ledger.origins \in {0, 1}
    /\ phase = "done" => ledger = [open |-> 0, origins |-> 0]

\* The checkpoint the hook saved is the recurrent state right after FUNC_START,
\* at the position the correction will truncate the attention cache to, and a
\* later generation step never changes what is before it.
HookCheckpoint ==
    mem.stack # <<>> => /\ mark <= Len(tracker)
                        /\ mem.stack = <<Prefix(tracker, mark)>>

\* Speculation is invisible: the tokens that have both a tracker entry and a
\* cache cell grow as plain one-token-at-a-time sampling would grow them.
Plain == INSTANCE PlainDecoding WITH
           committed <- IF Len(tracker) > Len(mem.kv) THEN mem.kv ELSE tracker

ImplementsPlainDecoding == Plain!Spec

\* Every generation ends without the user's help: no round, fallback or EOG poll
\* keeps the token loop from the exhaustion backstop.
Terminates == phase # "done" ~> phase = "done"
=============================================================================
