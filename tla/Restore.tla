------------------------------ MODULE Restore ------------------------------
(***************************************************************************)
(* Saving and restoring a session: /save, the autosave of /quit, and       *)
(* /load (ChatSession::perform_restore) over the save file and its state   *)
(* cache (src/filesystem.cc), with a process that may be killed between    *)
(* any two steps, the pre-turn canary of a cached load and the re-decode   *)
(* it falls back to.                                                       *)
(*                                                                         *)
(* One named save is modelled.  A write to a file is two steps: begun,     *)
(* with some of it on disk, and completed.  Conversations are tokens fed   *)
(* and checkpointed turn by turn; Session models their course.             *)
(***************************************************************************)
EXTENDS RsMemory, Integers, FiniteSetsExt, SequencesExt

CONSTANTS
    System,        \* the token of the system prompt
    NCtx,          \* n_ctx
    CanaryMax,     \* CANARY_MAX_TOKENS
    Overshoot,     \* 33: the largest verify batch behind the canary's cap, that of 32 drafts
    MaxRetries,    \* MAX_CANARY_RETRIES
    NBatch,        \* n_batch: tokens that one decode takes
    MaxTurns,      \* bound of the model: checkpoints
    Scenarios      \* the sets of features to explore

\* The process is killed; speculation is on, so that saves hold a mirror and loads
\* run the canary; a canary judged corrupt; one of no more tokens than the window;
\* a Restore> prompt that is cancelled; a decode that fails or is interrupted; a
\* state that cannot be set; --checkpoints; a note on a changed git HEAD;
\* a conversation saved before its first turn; /continue; a full disk; a conversation
\* saved with tokens behind its last checkpoint.
Features == {"crash", "mirror", "corrupt", "short", "cancel", "fail", "pressure",
             "checkpoints", "note", "bare", "continue", "full", "tail"}

ASSUME RestoreAssumption ==
    /\ System \in Token /\ NCtx \in Nat \ {0} /\ CanaryMax \in Nat \ {0}
    /\ Overshoot \in Nat /\ NRsSeq <= Overshoot + 1
    /\ MaxRetries \in Nat /\ MaxTurns \in Nat /\ NBatch \in Nat \ {0}
    /\ Scenarios \subseteq SUBSET Features

VARIABLES
    mem, tracker, npast,    \* llama memory, all_context_tokens, n_past_
    cps, offset,            \* prompt_checkpoints, checkpoint_stack_offset
    prevSave,               \* prev_was_save_
    file,                   \* the save file: what was to be written, what was
    entry,                  \* its state cache entry, <<>> or <<record>>
    old,                    \* old_hash: the tokens the file held before a save
    attempt,                \* retries of the cached load
    limit,                  \* restore_limit of a re-decode, 0 for none
    pc, features

ctxVars == <<mem, tracker, npast>>
bookVars == <<cps, offset>>
disk == <<file, entry, old>>
load == <<attempt, limit>>
vars == <<ctxVars, bookVars, prevSave, disk, load, pc, features>>

Files == [tokens : Seq(Token), cps : Seq(0..NCtx),
          written : {"none", "header", "tokens", "all"}]

\* A cache entry is found by the tokens it was written for (cache_hash).
Entries == [tokens : Seq(Token), kv : Seq(Token), state : RsState,
            mirror : BOOLEAN, torn : BOOLEAN]

TypeOK ==
    /\ mem \in Memory /\ tracker \in Seq(Token) /\ npast \in 0..NCtx
    /\ cps \in Seq(0..NCtx) /\ offset \in Nat /\ prevSave \in BOOLEAN
    /\ file \in Files /\ entry \in Seq(Entries) /\ Len(entry) <= 1 /\ old \in Seq(Token)
    /\ attempt \in 0..MaxRetries /\ limit \in 0..NCtx /\ features \in Scenarios
    /\ pc \in {"idle", "turn", "more", "saving", "caching", "quitting", "quitCaching", "ended",
               "fast", "probe", "slow", "feeding", "autoCaching", "loaded"}

Words == Token \ {System}

SystemPrompt == <<System>>

FreshMem == Decode(EmptyMem, SystemPrompt)

Idle == pc = "idle"

Fits(n) == npast + n < NCtx
-----------------------------------------------------------------------------
\* A conversation: prompts and generations, each turn ended by a checkpoint.

\* Mutant: a prompt does not revoke the save either.
SavedForEver(typed) == prevSave

SavedStill(typed) == prevSave /\ ~typed

\* A user's prompt starts a turn; /continue goes on behind one, without an input of
\* its own.
StartTurn(typed) ==
    /\ Idle /\ Len(cps) < MaxTurns /\ Fits(2)
    /\ typed \/ ("continue" \in features /\ cps # <<>>)
    /\ prevSave' = SavedStill(typed)
    /\ pc' = IF typed THEN "turn" ELSE "more"
    /\ UNCHANGED <<ctxVars, bookVars, disk, load, features>>

Commit(toks) ==
    /\ mem' = Decode(mem, toks) /\ tracker' = tracker \o toks
    /\ npast' = npast + Len(toks)

\* Bound of the model: the tokens of one turn are all alike.
InTurn == npast > (IF cps = <<>> THEN Len(SystemPrompt) ELSE Last(cps))

Say(t) ==
    /\ pc \in {"turn", "more"} /\ Fits(1) /\ (InTurn => t = Last(tracker))
    /\ Commit(<<t>>)
    /\ UNCHANGED <<bookVars, prevSave, disk, load, pc, features>>

\* Only a turn with an input of its own is checkpointed.
EndTurn ==
    /\ pc \in {"turn", "more"} /\ InTurn
    /\ mem' = IF pc = "turn" THEN RsSave(mem) ELSE mem
    /\ cps' = IF pc = "turn" THEN Append(cps, npast) ELSE cps
    /\ pc' = "idle"
    /\ UNCHANGED <<tracker, npast, offset, prevSave, disk, load, features>>

\* clear_session, and a new process: a fresh session.
Fresh ==
    /\ mem' = FreshMem /\ tracker' = SystemPrompt /\ npast' = Len(SystemPrompt)
    /\ cps' = <<>> /\ offset' = 0

ClearSession ==
    /\ Idle /\ tracker # SystemPrompt
    /\ Fresh
    /\ UNCHANGED <<prevSave, disk, load, pc, features>>
-----------------------------------------------------------------------------
\* Reading a save file.

\* Mutant: tokens that are missing are taken as they come out of the buffer.
ReadShort(f) == f.written \in {"header", "tokens", "all"}

\* read_token_save: the header is complete and all its tokens are there.
Readable(f) == f.written \in {"tokens", "all"}

ReadTokens(f) ==
    IF f.written = "header" THEN [i \in 1..Len(f.tokens) |-> System] ELSE f.tokens

\* read_checkpoint_offsets: none at all unless every one is there.
ReadCps(f) == IF f.written = "all" THEN f.cps ELSE <<>>
-----------------------------------------------------------------------------
\* save_session_with_header.

\* The old file's tokens name the entry that goes; write_token_save_v3 truncates the
\* file and writes header, tokens, checkpoints; what is on disk of it when the
\* process dies is any prefix.
BeginSave ==
    /\ old' = IF Readable(file) THEN ReadTokens(file) ELSE <<>>
    /\ \E w \in {"none", "header", "tokens"} :
          file' = [tokens |-> tracker, cps |-> cps, written |-> w]

Tailed == cps # <<>> /\ npast > Last(cps)

CanSave == (cps = <<>> => "bare" \in features) /\ (Tailed => "tail" \in features)

SaveCommand ==
    /\ Idle /\ CanSave /\ BeginSave /\ pc' = "saving"
    /\ UNCHANGED <<ctxVars, bookVars, prevSave, entry, load, features>>

SaveWritten ==
    /\ pc \in {"saving", "quitting"}
    /\ file' = [file EXCEPT !.written = "all"]
    /\ pc' = IF pc = "saving" THEN "caching" ELSE "quitCaching"
    /\ UNCHANGED <<ctxVars, bookVars, prevSave, entry, old, load, features>>

\* state_write takes the plane the pending rollback names.
NewEntry == [tokens |-> tracker, kv |-> mem.kv, state |-> State(mem),
             mirror |-> "mirror" \in features, torn |-> FALSE]

\* A write that fails (a full disk) leaves what it wrote, and no cache is written.
SaveFails ==
    /\ pc \in {"saving", "quitting"} /\ "full" \in features
    /\ pc' = (IF pc = "saving" THEN "idle" ELSE "ended") /\ old' = <<>>
    /\ UNCHANGED <<ctxVars, bookVars, prevSave, file, entry, load, features>>

\* write_v1_cache.  Entries of the save's earlier contents are deleted.  A loadable
\* entry of the same tokens is never replaced by one that adds no mirror, unless
\* it is the entry of the old file.
Keeps ==
    /\ entry # <<>> /\ entry[1].tokens = tracker /\ old # tracker /\ ~entry[1].torn
    /\ "mirror" \in features => entry[1].mirror

\* A cache that does not match the tokens is refused.
Cachable == Len(mem.kv) = Len(tracker)

Torn == [NewEntry EXCEPT !.torn = TRUE]

\* First the earlier entry is gone; then there is a part of the new one, which the
\* process leaves when it is killed.
CacheBegun(begun) ==
    /\ pc \in {"caching", "quitCaching", "autoCaching"} /\ "crash" \in features
    /\ ~Keeps /\ Cachable /\ entry \notin {begun, <<Torn>>}
    /\ entry' = begun
    /\ UNCHANGED <<ctxVars, bookVars, prevSave, file, old, load, pc, features>>

CacheWritten ==
    /\ pc \in {"caching", "quitCaching", "autoCaching"}
    /\ entry' = IF Keeps THEN entry ELSE IF Cachable THEN <<NewEntry>> ELSE <<>>
    /\ prevSave' = (prevSave \/ pc = "caching")
    /\ pc' = CASE pc = "caching" -> "idle" [] pc = "quitCaching" -> "ended"
               [] OTHER -> "loaded"
    /\ old' = <<>>
    /\ UNCHANGED <<ctxVars, bookVars, file, load, features>>

\* /quit saves what there is, unless the user just did.
QuitCommand ==
    /\ Idle /\ (Tailed => "tail" \in features)
    /\ IF cps # <<>> /\ ~prevSave THEN BeginSave /\ pc' = "quitting"
                                  ELSE UNCHANGED <<file, old>> /\ pc' = "ended"
    /\ UNCHANGED <<ctxVars, bookVars, prevSave, entry, load, features>>

\* The process is killed, or has ended; the next one starts.
Restart ==
    /\ "crash" \in features \/ pc = "ended"
    /\ Fresh /\ prevSave' = FALSE /\ attempt' = 0 /\ limit' = 0 /\ pc' = "idle" /\ old' = <<>>
    /\ UNCHANGED <<file, entry, features>>
-----------------------------------------------------------------------------
\* perform_restore.

\* Only into a session that holds the system prompt alone.
LoadCommand ==
    /\ Idle /\ tracker = SystemPrompt /\ cps = <<>>
    /\ Readable(file) /\ Len(file.tokens) < NCtx
    /\ attempt' = 0
    /\ pc' = IF "checkpoints" \in features THEN "slow" ELSE "fast"
    /\ UNCHANGED <<ctxVars, bookVars, prevSave, disk, limit, features>>

\* Mutant: an entry of the right tokens is loaded whatever its size.
LoadableTorn(e) == e.tokens = ReadTokens(file)

\* The entry's file has the size its header names; the cache has the save's tokens.
Loadable(e) ==
    e.tokens = ReadTokens(file) /\ ~e.torn /\ Len(e.kv) = Len(e.tokens)

\* try_load_v1_cache fails: an entry of these tokens that is not loadable is
\* deleted.
CacheMiss ==
    /\ pc = "fast" /\ (entry # <<>> => ~Loadable(entry[1]))
    /\ entry' = IF entry # <<>> /\ entry[1].tokens = ReadTokens(file) THEN <<>> ELSE entry
    /\ pc' = "slow"
    /\ UNCHANGED <<ctxVars, bookVars, prevSave, file, old, load, features>>

\* One whose state cannot be set just now is kept.  What had been set of it is
\* cleared, in the recurrent cache at least.
StateSetFails(m) ==
    /\ pc = "fast" /\ "pressure" \in features /\ entry # <<>> /\ Loadable(entry[1])
    /\ mem' = m /\ pc' = "slow"
    /\ UNCHANGED <<tracker, npast, bookVars, prevSave, disk, load, features>>

\* state_read: plane 0 is what was saved, everything else is cleared.
LoadedMem(e) == [EmptyMem EXCEPT !.kv = e.kv, !.planes[0] = IF e.torn THEN Blank ELSE e.state]

CanaryEligible(e) == e.mirror /\ Len(e.kv) + CanaryMax + Overshoot < NCtx

OffsetOf(read) == IF read = <<>> THEN 0 ELSE Len(read) - 1

\* The state is that after the last token: it is pushed for the last checkpoint
\* (and for the canary), the earlier ones have no entry.
CacheHit ==
    /\ pc = "fast" /\ entry # <<>> /\ Loadable(entry[1])
    /\ LET e == entry[1]
           read == ReadCps(file)
       IN /\ mem' = IF CanaryEligible(e) \/ read # <<>> THEN RsSave(LoadedMem(e))
                                                      ELSE LoadedMem(e)
          /\ tracker' = ReadTokens(file) /\ npast' = Len(e.kv)
          /\ cps' = read /\ offset' = OffsetOf(read)
          /\ pc' = IF CanaryEligible(e) THEN "probe" ELSE "loaded"
    /\ UNCHANGED <<prevSave, disk, load, features>>

RestorePoint == Len(ReadTokens(file))

Probed == npast - RestorePoint

\* The canary generates: one token, or a verify batch of which n are committed.
ProbeStep(toks, n) ==
    /\ pc = "probe" /\ Probed < CanaryMax
    /\ mem' = SeqRm(Decode(mem, toks), npast + n)
    /\ tracker' = tracker \o Prefix(toks, n) /\ npast' = npast + n
    /\ UNCHANGED <<bookVars, prevSave, disk, load, pc, features>>

\* The end token, the cap or Ctrl+C ends the probe.  With few judged rounds it is
\* clean.  roll_back_canary
CanaryClean ==
    /\ pc = "probe"
    /\ "short" \in features \/ Probed = 0 \/ Probed > NRsSeq
    /\ LET m == RsRestore(mem, 0)
       IN IF SeqRmOk(m, RestorePoint)
          THEN /\ mem' = SeqRm(m, RestorePoint) /\ npast' = RestorePoint
               /\ tracker' = Prefix(tracker, RestorePoint)
          ELSE mem' = m /\ UNCHANGED <<tracker, npast>>
    /\ pc' = "loaded"
    /\ UNCHANGED <<bookVars, prevSave, disk, load, features>>

\* Mutant: the retries are not counted.
NoRetry == attempt

NextAttempt == attempt + 1

\* A desynced context, or a probe that failed: load again, at last re-decode.
CanaryCorrupt ==
    /\ pc = "probe" /\ "corrupt" \in features
    /\ IF attempt < MaxRetries
       THEN Fresh /\ attempt' = NextAttempt /\ pc' = "fast"
       ELSE pc' = "slow" /\ UNCHANGED <<ctxVars, bookVars, attempt>>
    /\ UNCHANGED <<prevSave, disk, limit, features>>

\* The re-decode goes up to a limit that the user chose among the checkpoints, or
\* through the whole save.
Redecode(to) ==
    /\ pc = "slow" /\ to \in Range(ReadCps(file)) \cup {Len(file.tokens)}
    /\ mem' = EmptyMem /\ tracker' = <<>> /\ npast' = 0
    /\ limit' = to /\ pc' = "feeding"
    /\ UNCHANGED <<bookVars, prevSave, disk, attempt, features>>

\* The checkpoints up to n are the first ones, since each is behind the one before.
UpTo(marks, n) == Prefix(marks, Max({0} \cup {i \in DOMAIN marks : marks[i] <= n}))

RestoredCps == UpTo(ReadCps(file), limit)

\* cp_restore_idx counts what was pushed.
MarksLeft == Len(mem.stack) < Len(RestoredCps)

NextMark == IF MarksLeft THEN RestoredCps[Len(mem.stack) + 1] ELSE limit

\* Mutant: chunks end where the batch is full.
ChunkByBatch == IF npast + NBatch < limit THEN npast + NBatch ELSE limit

\* A chunk ends at a checkpoint at the latest, whose state is pushed.
ChunkEnd == IF npast + NBatch < NextMark THEN npast + NBatch ELSE NextMark

FeedChunk ==
    /\ pc = "feeding" /\ npast < limit
    /\ LET m == Decode(mem, SubSeq(ReadTokens(file), npast + 1, ChunkEnd))
       IN mem' = IF MarksLeft /\ NextMark <= ChunkEnd THEN RsSave(m) ELSE m
    /\ npast' = ChunkEnd
    /\ UNCHANGED <<tracker, bookVars, prevSave, disk, load, pc, features>>

\* What was loaded whole is cached.
RedecodeEnds ==
    /\ pc = "feeding" /\ npast = limit
    /\ tracker' = Prefix(ReadTokens(file), limit) /\ cps' = RestoredCps /\ offset' = 0
    /\ limit' = 0 /\ pc' = IF limit = Len(file.tokens) THEN "autoCaching" ELSE "loaded"
    /\ UNCHANGED <<mem, npast, prevSave, disk, attempt, features>>

\* One that is interrupted or fails at some chunk starts afresh.
RedecodeFails ==
    /\ pc = "feeding" /\ npast < limit /\ "fail" \in features
    /\ Fresh /\ limit' = 0 /\ pc' = "idle"
    /\ UNCHANGED <<prevSave, disk, attempt, features>>

RestoreCancelled ==
    /\ pc = "slow" /\ "cancel" \in features /\ ReadCps(file) # <<>>
    /\ pc' = "idle"
    /\ UNCHANGED <<ctxVars, bookVars, prevSave, disk, load, features>>

\* check_git_head_on_restore
LoadEnds(note) ==
    /\ pc = "loaded" /\ (note # <<>> => "note" \in features /\ Fits(Len(note)))
    /\ IF note = <<>> THEN UNCHANGED ctxVars ELSE Commit(note)
    /\ pc' = "idle"
    /\ UNCHANGED <<bookVars, prevSave, disk, load, features>>
-----------------------------------------------------------------------------
Init ==
    /\ mem = FreshMem /\ tracker = SystemPrompt /\ npast = Len(SystemPrompt)
    /\ cps = <<>> /\ offset = 0 /\ prevSave = FALSE
    /\ file = [tokens |-> <<>>, cps |-> <<>>, written |-> "none"]
    /\ entry = <<>> /\ old = <<>>
    /\ attempt = 0 /\ limit = 0 /\ pc = "idle" /\ features \in Scenarios

UserStep ==
    \/ (\E typed \in BOOLEAN : StartTurn(typed))
    \/ ClearSession \/ SaveCommand \/ QuitCommand \/ LoadCommand

TurnStep == (\E t \in Words : Say(t)) \/ EndTurn

SaveStep ==
    \/ SaveWritten \/ SaveFails \/ CacheWritten
    \/ \E begun \in {<<>>, <<Torn>>} : CacheBegun(begun)

Batches == {<<t>> : t \in Words} \cup [1..(1 + NRsSeq) -> Words]

ProbeSteps == \E toks \in Batches : \E n \in Max({1, Len(toks) - NRsSeq})..Len(toks) :
                 ProbeStep(toks, n)

LoadStep ==
    \/ CacheMiss
    \/ (entry # <<>> /\ \E kv \in {<<>>, entry[1].kv} : StateSetFails([EmptyMem EXCEPT !.kv = kv]))
    \/ CacheHit \/ ProbeSteps \/ CanaryClean \/ CanaryCorrupt
    \/ (\E to \in 0..NCtx : Redecode(to)) \/ FeedChunk \/ RedecodeEnds \/ RedecodeFails
    \/ RestoreCancelled
    \/ \E note \in {<<>>} \cup {<<t>> : t \in Words} : LoadEnds(note)

Next == UserStep \/ TurnStep \/ SaveStep \/ LoadStep \/ Restart

Spec == Init /\ [][Next]_vars

FairSpec == Spec /\ WF_vars(SaveStep \/ LoadStep)
-----------------------------------------------------------------------------
\* Properties.

AtPrompt == pc \in {"idle", "turn", "more", "loaded"}

\* However a session came back (from the cache, past a canary, re-decoded, after
\* retries, a failure, a kill), tracker, cache, n_past_ and the recurrent state
\* are one context: the canary restores "the context to exactly the restore
\* point" (session.cc 1866).
RestoredExactly ==
    AtPrompt => tracker = mem.kv /\ npast = Len(tracker) /\ Coherent(mem)

\* At the prompt the checkpoint stack has one entry for every checkpoint from
\* checkpoint_stack_offset on, with the state at its position, after a load from
\* the cache and the turns behind it as well as after a re-decode.
StackLive ==
    Idle => /\ Len(mem.stack) = Len(cps) - offset
            /\ \A i \in 1..Len(mem.stack) : mem.stack[i] = Prefix(tracker, cps[offset + i])

\* A load gives the conversation of one save, whole or up to one of its
\* checkpoints with those before it, or it leaves a fresh session: never a part
\* of a save that was cut short, or a mixture of two.
LoadGivesASave ==
    [][(pc \in {"fast", "probe", "slow", "feeding", "autoCaching"} /\ pc' \in {"loaded", "idle"}) =>
         \/ tracker' = SystemPrompt /\ cps' = <<>>
         \/ tracker' = file.tokens /\ cps' = ReadCps(file)
         \/ \E i \in 1..Len(file.cps) :
               tracker' = Prefix(file.tokens, file.cps[i]) /\ cps' = Prefix(file.cps, i)]_vars

\* /quit leaves nothing behind that is not in the save: "auto-save before exiting.
\* Skip if the user just manually saved -- nothing has changed since then"
\* (session.cc 2484).
QuitKeepsWork ==
    pc = "ended" /\ cps # <<>> /\ features \cap {"full", "note"} = {} =>
        Readable(file) /\ IsPrefix(tracker, file.tokens)

\* A load ends: the retries of the canary are bounded.
LoadTerminates == pc = "fast" ~> Idle
=============================================================================
