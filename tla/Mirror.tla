------------------------------- MODULE Mirror -------------------------------
(***************************************************************************)
(* The mirror of MTP speculation (src/mtp.cc): a second attention cache    *)
(* with one row for every cell of the main cache.  Row p holds the token   *)
(* x_p and the main model's hidden state h_{p-1}; it is written behind the *)
(* main cache by the hook on every successful main decode.  Drafts, undo,  *)
(* corrections, failed decodes and cached loads move one cache without the *)
(* other; the mirror is expected to heal at the next decode.               *)
(*                                                                         *)
(* A hidden state is represented by the context it is a function of.  What *)
(* a draft predicts is a choice.  The mirror's chunks of LIM_MTP_BATCH     *)
(* rows are one step: nothing happens between them.                        *)
(***************************************************************************)
EXTENDS Integers, Sequences, FiniteSetsExt, SequencesExt

CONSTANTS
    Token,
    NCtx,        \* n_ctx, of both contexts
    DraftLen,    \* LIM_MTP_DRAFT
    MaxFeed,     \* bound of the model: tokens in one feed
    MaxHeals,    \* bound of the model: truncations and loads since a clear
    MaxCps,      \* bound of the model: prompt checkpoints
    Scenarios    \* the sets of features to explore

\* A verify batch runs out of cells; a feed is too long for the cells that are left; /undo;
\* the rollback of a correction; a cached save and load; a load that notes a changed git
\* HEAD; low acceptance.
Features == {"exhaust", "oversize", "undo", "correct", "load", "note", "low"}

ASSUME MirrorAssumption ==
    /\ NCtx \in Nat \ {0} /\ DraftLen \in Nat \ {0}
    /\ MaxFeed \in Nat \ {0} /\ MaxHeals \in Nat /\ MaxCps \in Nat
    /\ Scenarios \subseteq SUBSET Features

VARIABLES
    main,      \* the tokens of the main cache
    mtp,       \* MtpSpeculator and its context, see Mirrors
    round,     \* the draft in flight; bound of the model: behind a save the session
               \* ends ("saved"), and the next one begins with the load ("fresh")
    cps,       \* positions of the prompt checkpoints
    cache,     \* the V1 cache entry of the save, <<>> or <<entry>>
    heals,     \* history: truncations and loads since the mirror was cleared
    features

vars == <<main, mtp, round, cps, cache, heals, features>>

Context == Seq(Token)

Row == [tok : Token, h : Context]

\* pos is mirror_pos_, origin origin_has_logits_, pending the context whose last
\* hidden state is in pending_h_ (zero before the first token).
Mirrors == [rows : Seq(Row), pos : -1..(NCtx - 1), origin : BOOLEAN,
            pending : Context, valid : BOOLEAN, exhausted : BOOLEAN]

Rounds == [phase : {"none", "fed", "drafted", "verified", "saved", "fresh"}, drafts : Context]

Entries == [tokens : Context, rows : Seq(Row), heals : Nat]

TypeOK ==
    /\ main \in Context /\ Len(main) <= NCtx
    /\ mtp \in Mirrors /\ Len(mtp.rows) <= NCtx
    /\ round \in Rounds /\ cps \in Seq(0..NCtx)
    /\ cache \in Seq(Entries) /\ Len(cache) <= 1
    /\ heals \in 0..MaxHeals /\ features \in Scenarios

Prefix(s, n) == SubSeq(s, 1, Min({n, Len(s)}))

NoRound == [phase |-> "none", drafts |-> <<>>]
-----------------------------------------------------------------------------
\* MtpSpeculator.

\* clear: the only way to rebuild the mirror from nothing.
Cleared == [rows |-> <<>>, pos |-> -1, origin |-> FALSE, pending |-> <<>>,
            valid |-> TRUE, exhausted |-> FALSE]

Invalid(m) == [m EXCEPT !.valid = FALSE]

InvalidExhausted(m) == IF m.valid THEN [m EXCEPT !.valid = FALSE, !.exhausted = TRUE] ELSE m

\* Mutant: the rows behind the batch's first position stay.
KeptAll(m, before) == m.rows

\* The position guard: rows at and behind the batch's first position go.
KeptRows(m, before) == Prefix(m.rows, Len(before))

\* Mutant: the hidden state of the batch's last row is not kept for the next one.
PendingKept(m, before, toks) == m.pending

PendingOf(m, before, toks) == before \o toks

NewRows(m, before, toks) ==
    [i \in 1..Len(toks) |->
        [tok |-> toks[i],
         h |-> IF i = 1 THEN m.pending ELSE before \o Prefix(toks, i - 1)]]

\* Mutant: rows the mirror has are not written again.
ProcessedOnce(m, before, toks) ==
    IF ~m.valid THEN m
    ELSE [m EXCEPT !.rows = IF Len(@) >= Len(before) + Len(toks) THEN @
                            ELSE KeptRows(m, before) \o NewRows(m, before, toks),
                   !.pos = Len(before) + Len(toks) - 1,
                   !.origin = TRUE, !.pending = PendingOf(m, before, toks)]

\* process, the hook on a successful decode of toks behind the context before.
\* The mirror's own decode only takes the position after its last row.
Processed(m, before, toks) ==
    LET kept == KeptRows(m, before) IN
    IF ~m.valid THEN m
    ELSE IF Len(kept) # Len(before)
         THEN [m EXCEPT !.rows = kept, !.origin = FALSE, !.valid = FALSE]
         ELSE [m EXCEPT !.rows = kept \o NewRows(m, before, toks),
                        !.pos = Len(before) + Len(toks) - 1,
                        !.origin = TRUE, !.pending = PendingOf(m, before, toks)]

\* Mutant: any /undo turns speculation on again.
RearmedAnyway(m, target) == [m EXCEPT !.valid = TRUE, !.exhausted = FALSE]

\* rearm_if_kv_exhausted
Rearmed(m, target) ==
    IF m.valid \/ ~m.exhausted \/ target > m.pos + 1 THEN m
    ELSE [m EXCEPT !.valid = TRUE, !.exhausted = FALSE]

CanDraft(m) == m.valid /\ m.origin /\ m.pos >= 0

\* draft: the first token comes from the last row, each further one writes the row
\* of the one before it behind the mirror's last row.
ChainRows(m, drafts) ==
    [i \in 1..Min({Len(drafts) - 1, NCtx - Len(m.rows)}) |->
        [tok |-> drafts[i], h |-> <<>>]]

ChainFits(m) == Len(m.rows) + DraftLen - 1 <= NCtx

\* on_mirror_loaded; pending_h_ is what it was.
Loaded(m, rows) ==
    [m EXCEPT !.rows = rows, !.pos = Len(rows) - 1, !.origin = FALSE,
              !.valid = TRUE, !.exhausted = FALSE]

\* note_round: two windows of rounds below the minimum turn speculation off.
Noted(m, low) == IF low THEN Invalid(m) ELSE m

LowOnly(low) == low => "low" \in features
-----------------------------------------------------------------------------
\* The main context: feeds and rounds.

CanTruncate == heals < MaxHeals

Idle == round.phase \in {"none", "fed"}

\* A feed of the session, or the one token of the generation.
Feed(toks) ==
    /\ Idle /\ Len(main) + Len(toks) <= NCtx
    /\ main' = main \o toks
    /\ mtp' = Processed(mtp, main, toks)
    /\ round' = IF Len(toks) = 1 THEN [NoRound EXCEPT !.phase = "fed"] ELSE NoRound
    /\ UNCHANGED <<cps, cache, heals, features>>

\* llama_decode returns 1 for a batch that does not fit: nothing was written, wherever
\* mirror_pos_ stands.  Behind a rejected verify batch it is ahead of main.
FeedExhausted ==
    /\ Idle /\ "oversize" \in features
    /\ mtp' = InvalidExhausted(mtp) /\ round' = NoRound
    /\ UNCHANGED <<main, cps, cache, heals, features>>

Draft(drafts) ==
    /\ round.phase = "fed" /\ CanDraft(mtp)
    /\ mtp' = [mtp EXCEPT !.rows = @ \o ChainRows(mtp, drafts), !.valid = ChainFits(mtp)]
    /\ round' = IF ChainFits(mtp) THEN [phase |-> "drafted", drafts |-> drafts] ELSE NoRound
    /\ UNCHANGED <<main, cps, cache, heals, features>>

\* The origin was sampled differently, or the turn ended before (at n_ctx - 10).
DropDraft(low) ==
    /\ round.phase = "drafted" /\ LowOnly(low)
    /\ mtp' = Noted(mtp, low) /\ round' = NoRound
    /\ UNCHANGED <<main, cps, cache, heals, features>>

Verify ==
    /\ round.phase = "drafted" /\ Len(main) + Len(round.drafts) <= NCtx
    /\ main' = main \o round.drafts
    /\ mtp' = Processed(mtp, main, round.drafts)
    /\ round' = [round EXCEPT !.phase = "verified"]
    /\ UNCHANGED <<cps, cache, heals, features>>

VerifyExhausted(low) ==
    /\ round.phase = "drafted" /\ "exhaust" \in features /\ LowOnly(low)
    /\ Len(main) + Len(round.drafts) > NCtx
    /\ mtp' = Noted(InvalidExhausted(mtp), low) /\ round' = NoRound
    /\ UNCHANGED <<main, cps, cache, heals, features>>

\* n of the drafts were committed; the main cells of the rest are removed.
Settle(n, low) ==
    /\ round.phase = "verified" /\ n \in 1..Len(round.drafts) /\ LowOnly(low)
    /\ n < Len(round.drafts) => CanTruncate
    /\ main' = Prefix(main, Len(main) - Len(round.drafts) + n)
    /\ heals' = IF n < Len(round.drafts) THEN heals + 1 ELSE heals
    /\ mtp' = Noted(mtp, low) /\ round' = NoRound
    /\ UNCHANGED <<cps, cache, features>>
-----------------------------------------------------------------------------
\* The session: checkpoints, rollbacks, saves.

Checkpoint ==
    /\ Idle /\ main # <<>> /\ Len(cps) < MaxCps /\ (cps # <<>> => Last(cps) < Len(main))
    /\ cps' = Append(cps, Len(main)) /\ round' = NoRound
    /\ UNCHANGED <<main, mtp, cache, heals, features>>

\* rollback_to_tool_checkpoint: back to a position of the turn in progress.
Correct(n) ==
    /\ Idle /\ "correct" \in features /\ CanTruncate
    /\ n < Len(main) /\ (cps # <<>> => n > Last(cps))
    /\ main' = Prefix(main, n) /\ heals' = heals + 1 /\ round' = NoRound
    /\ UNCHANGED <<mtp, cps, cache, features>>

Undoable(sel) == Idle /\ "undo" \in features /\ sel \in 1..(Len(cps) - 1)

UndoFast(sel) ==
    /\ Undoable(sel) /\ CanTruncate
    /\ main' = Prefix(main, cps[sel]) /\ mtp' = Rearmed(mtp, cps[sel])
    /\ cps' = Prefix(cps, sel) /\ heals' = heals + 1 /\ round' = NoRound
    /\ UNCHANGED <<cache, features>>

\* The prefix is decoded again behind a clear of both contexts.
UndoSlow(sel) ==
    /\ Undoable(sel)
    /\ main' = Prefix(main, cps[sel]) /\ mtp' = Processed(Cleared, <<>>, main')
    /\ cps' = Prefix(cps, sel) /\ heals' = 0 /\ round' = NoRound
    /\ UNCHANGED <<cache, features>>

\* /clear; the system prompt is fed by the next Feed.
ClearSession ==
    /\ Idle /\ main # <<>>
    /\ main' = <<>> /\ mtp' = Cleared /\ cps' = <<>> /\ heals' = 0 /\ round' = NoRound
    /\ cache' = <<>>
    /\ UNCHANGED features

\* The saved session ended; a fresh one, of one token, is about to load.
Restart ==
    /\ round.phase = "saved"
    /\ main' = Prefix(cache[1].tokens, 1) /\ mtp' = Processed(Cleared, <<>>, main')
    /\ cps' = <<>> /\ heals' = 0 /\ round' = [NoRound EXCEPT !.phase = "fresh"]
    /\ UNCHANGED <<cache, features>>

\* write_v1_cache behind a /save: the earlier entry goes, a mirror goes with the new
\* one while it is valid.
SavedRows == IF mtp.valid THEN mtp.rows ELSE <<>>

Save ==
    /\ Idle /\ "load" \in features /\ cps # <<>>
    /\ cache' = <<[tokens |-> main, rows |-> SavedRows, heals |-> heals]>>
    /\ round' = [NoRound EXCEPT !.phase = "saved"]
    /\ UNCHANGED <<main, mtp, cps, heals, features>>

\* try_load_v1_cache: the mirror was saved and covers the main cache.
Usable(entry) == mtp.valid /\ entry.rows # <<>> /\ Len(entry.rows) >= Len(entry.tokens)

\* A note on a changed git HEAD is decoded without the hook.
Load(note) ==
    /\ round.phase = "fresh" /\ cache[1].heals < MaxHeals
    /\ mtp' = IF Usable(cache[1]) THEN Loaded(mtp, cache[1].rows)
              ELSE IF mtp.valid /\ cache[1].rows # <<>>
                   THEN Invalid([mtp EXCEPT !.rows = <<>>]) ELSE Invalid(mtp)
    /\ note # <<>> => "note" \in features /\ Len(cache[1].tokens) + Len(note) < NCtx
    /\ main' = cache[1].tokens \o note
    /\ cps' = <<Len(cache[1].tokens)>> /\ heals' = cache[1].heals + 1 /\ round' = NoRound
    /\ UNCHANGED <<cache, features>>
-----------------------------------------------------------------------------
Batches == UNION {[1..n -> Token] : n \in 1..MaxFeed}

Init ==
    /\ main = <<>> /\ mtp = Cleared /\ round = NoRound
    /\ cps = <<>> /\ cache = <<>> /\ heals = 0 /\ features \in Scenarios

RoundStep ==
    \/ (\E drafts \in [1..DraftLen -> Token] : Draft(drafts))
    \/ Verify
    \/ \E low \in BOOLEAN :
          DropDraft(low) \/ VerifyExhausted(low) \/ \E n \in 1..DraftLen : Settle(n, low)

SessionStep ==
    \/ Checkpoint \/ ClearSession \/ Save \/ Restart
    \/ (\E n \in 0..NCtx : Correct(n))
    \/ (\E sel \in 1..NCtx : UndoFast(sel) \/ UndoSlow(sel))
    \/ \E note \in {<<>>} \cup [1..1 -> Token] : Load(note)

Next == (\E toks \in Batches : Feed(toks)) \/ FeedExhausted \/ RoundStep \/ SessionStep

Spec == Init /\ [][Next]_vars
-----------------------------------------------------------------------------
\* Properties.

\* While speculation is on the mirror covers the main cache: "In every well-formed
\* save the mirror covers at least the main's rows: the mirror hook mirrors every
\* main batch" (filesystem.cc 540); an unnoticed gap fails at the next decode.
CoversMain == mtp.valid => Len(mtp.rows) >= Len(main)

\* A valid mirror's rows at the main cache's positions are of the main cache's
\* tokens, whatever was drafted, rejected, undone, exhausted, saved and loaded:
\* "the mirror's rows up to the undo point are still valid" (session.cc 2673).
RowsAreMains ==
    mtp.valid => \A p \in 1..Min({Len(mtp.rows), Len(main)}) : mtp.rows[p].tok = main[p]

\* A truncation or a load costs one row written with a stale hidden state ("exactly
\* one re-mirrored row", session.cc 2669) and no more: errors do not pile up.
OffRows == {p \in 1..Min({Len(mtp.rows), Len(main)}) :
              mtp.rows[p].h # Prefix(main, p - 1)}

OneRowPerHeal == mtp.valid => Cardinality(OffRows) <= heals

\* The mirror heals "for every desync source at the single point where it is
\* written" (mtp.cc 268): a main decode that succeeds never turns speculation off.
DecodeHeals ==
    [][mtp.valid /\ Len(main') > Len(main) /\ cps' = cps => mtp'.valid]_vars
=============================================================================
