# Verification of lim

lim is a terminal chat program around a patched llama.cpp: it feeds prompts to a
model, generates with optional multi-token-prediction speculation (MTP), runs the
tools the model calls, and lets the user interrupt, continue, undo, clear, save and
restore. Everything that makes it correct comes down to one sentence: *the token
tracker (what is saved and shown), the attention cache, the recurrent state and
`n_past_` describe the same conversation, whatever was interrupted, failed,
speculated, corrected or undone.* This directory states that in TLA+, checks it with
TLC and proves nearly all of its safety with TLAPS.

## 1. The system

| component | state it keeps | operations | what makes it correct |
|---|---|---|---|
| context memory (`llama/src/llama-memory-recurrent.cpp`, patched; `llama-memory-hybrid.cpp`) | attention cells, `1 + n_rs_seq` recurrent snapshot planes, the pending rollback `rs_idx`, `rs_restored`, a stack of checkpoints | decode, `seq_rm`, clear, `rs_checkpoint_save/overwrite/restore/prune` | after every operation both caches are the same context; a rollback is exact or refused |
| token generator (`token_generator.cc`) | the loop's position, the round flags `spec_*`, the batch, the tool-call flags | sample, end the turn, compare with the draft, feed, verify-decode, hook, cleanup | speculation is invisible; every exit leaves one context; rounds are counted once |
| MTP speculator (`mtp.cc`) | mirror context, statistics, adaptive disabling | draft, process, clear, invalidate, re-arm, note a round | the mirror holds exactly the main context's rows; a wrong draft costs time, never content |
| chat session (`session.cc`) | tracker, `n_past_`, prompt checkpoints and their stack offset, the tool-correction slot, the interrupted checkpoint, latches | prompt, generate, recover, dispatch, correct, finish the turn, `/continue` `/undo` `/clear` `/load` `/save` `/quit` | one stack entry per checkpoint, each the state at its position; the past is kept; the prompt comes back |
| tool executor (`tool_executor.cc`) | the two correction latches, the chain depth, the failure counters, the file cache | classify the call, run it, feed the result or an abort note | at most one correction a turn; a bounded chain |
| saves and caches (`filesystem.cc`, `session.cc`) | token file with header, checkpoint offsets, state cache files, `prev_was_save_` | save, autosave of `/quit`, fast and slow restore, canary and its retries | a restore gives the saved conversation or leaves a fresh session; nothing done is lost by `/quit` |
| shell tool (`filesystem.cc`, `exec_shell`) | child process group, output pipe, self-pipe, exit-code file | fork, poll, read, drain, kill, reap, report | it returns with all the output, a true exit code and no survivor |
| file tools (`tools.cc`, `filesystem.cc`) | `file_cache`: a fingerprint for every path read | read (or answer `[cached]`), write, edit, search | `[cached]` only for what the context has |
| web tools (`network.cc`, `tools.cc`) | cooldown | search, fetch | - |
| parsers (`parsers.cc`), model templates (`model.cc`) | none | escaping, argument extraction, turn tokens | round trips |
| browser server (`server.cc`, `limServer.py`), with the FIFO side of `output.cc` | pid file, FIFO, marker files, viewers, `pipe_fd` | start, reuse or replace, wait for ready, detect a viewer, `/reset` | one server for many lim processes; a lim that is told it has one does |
| signals (`signals.cc`) | four flags | SIGINT, SIGTERM, SIGUSR1, SIGCONT | no interrupt is lost |
| start-up, logs, viewer, scripts | options, streams | - | - |

The session runs on one thread. It calls the generator, which calls back into the session
when a tool call begins (`on_tool_start`: it pushes a recurrent checkpoint and notes
the position to go back to), and both work on the same tracker, `n_past_` and memory.
The batch of the last decode is kept *between* generations, because `/continue` samples
from it. The session and the tool executor share `SessionState`. Signals only set flags.

Two parts really run in parallel: `exec_shell` with its shell, background jobs and
signals, and lim processes with one browser server that none of them owns. They
communicate through pipes, marker files, `/proc` and exit codes, and each observation
may be stale when it is acted upon.

What is hard about the session is not parallelism but the number of half-finished situations
each next step must cope with: a token matched but not fed, fed but not decoded,
decoded but not committed; a feed cut by Ctrl+C; a decode that fails at the end of the
context; a turn that has a checkpoint already; a slot left open by a correction that
failed. `PROJECT.json` lists them as hazards, each at the line where it bites.

## 2. Modules

| module | models | composed of |
|---|---|---|
| `RsMemory` | the context memory, as operators on a memory record | - |
| `PlainDecoding` | abstract: one token at a time, each drawn after exactly its context | - |
| `SpecRound` | one (possibly resumed) generation with speculation | `RsMemory`; `PlainDecoding` as `Plain` |
| `Conversation` | abstract: a history with marks the user can go back to | - |
| `Session` | the turn loop | `RsMemory`; `Conversation` as `Promise` |
| `Mirror` | the draft model's cache behind the main one | - |
| `Restore` | saving, restoring, the canary, a process killed at any write | `RsMemory` |
| `ServerStart` | lim processes, servers, marker files, the FIFO | - |
| `ShellExec` | one call of `exec_shell` with its process tree and signals | - |
| `FileCache` | the file tools, their cache, and what of it the context has | - |
| `MCSpecRound`, `MCSession`, `MCMirror`, `MCRestore`, `MCServerStart`, `MCShellExec`, `MCFileCache` | small instances | |
| `RsMemoryProofs`, `SpecRoundProofs`, `SessionProofs`, `MirrorProofs`, `RestoreProofs`, `ServerStartProofs`, `ShellExecProofs`, `FileCacheProofs` | theorems about the module of that name, with the refinements of `PlainDecoding` and `Conversation` | those about `SpecRound`, `Session` and `Restore` use the lemmas of `RsMemoryProofs` |

**RsMemory.** A recurrent state is represented by the sequence of tokens it consumed
(it is a function of that), so "the state is right" can be said: `Coherent(m)` is
`State(m) = m.kv`. `planes[0]` is the state after the last token and `planes[i]` that of
`i` tokens earlier; `rsIdx` names the plane the next decode starts from. A decode of `k`
tokens refreshes the first `k` planes only, a save copies plane 0 whatever `rsIdx` says,
a restore writes plane 0 only, and `prune` *resizes*, all as in the code.

**SpecRound.** `phase` is the place in the loop body between two exits: `top` (checks,
sampling), `eog`, `compare`, `piece` (feed), `post` (round advancement), `hook`,
`cleanup`, `done`. `spec` carries the code's flags under shorter names: `origin` =
`spec_origin_pending_`, `inProgress`, `bonus`, `verify` = `spec_verify_pending_`,
`complete` = `spec_round_complete_pending_`, `noFeed` = `spec_no_feed_`, `row`, `rows`,
`committed` = `spec_verify_row_`, `spec_verify_rows_`, `spec_committed_verify_`. `rows`
is the batch, each logits row represented by the context it was computed from, so
"sampled from the wrong row" is visible. What a token's text spells (a tool tag, a
thinking tag) is a nondeterministic choice. `ledger` and `redecoded` are history.

**Session.** `cps` is `prompt_checkpoints`, `offset` is `checkpoint_stack_offset`,
`slot` the `tool_correction_*` fields, `provisional` is `interrupted_checkpoint_idx`,
`flag` the latches, `pc` the step of `run()`: `input`, `start`, `gen`, `tool` (dispatch),
`correct` / `repair` / `corrected` / `inject*` (step 8b), `finish` (9 and turn end). A
generation commits its tokens one by one, and what `SpecRound` shows of it is used: it
ends with the context coherent, possibly with `n` drafts rolled back just before
(feature `drafts`). Tokens are kinds (`user`, `func`, `result`, ...), one per fed block.
A "scenario" is the set of features that may occur in one behaviour; the other
modules use the same device.

**Mirror.** `main` is the main cache, `mtp` the speculator: `rows` is its own attention
cache, `pos` = `mirror_pos_`, `origin` = `origin_has_logits_`, `pending` the context whose
last hidden state is in `pending_h_`, `valid` and `exhausted` its two latches. Row `p`
holds token `x_p` and the hidden state `h_{p-1}`, represented by the context it was
computed from, so a row written with a stale state can be told from a true one. `Feed`
is a decode of the session with its hook (`Processed`: position guard, `seq_rm`, rows),
`Draft` / `Verify` / `Settle` a round with the chain rows the draft leaves behind,
`UndoFast`, `UndoSlow`, `Correct`, `Save`, `Restart`, `Load` what the session does to one cache without
the other. A main decode that does not fit is `VerifyExhausted` (feature `exhaust`) or
`FeedExhausted` (feature `oversize`): the first happens where drafts are verified, with the mirror level with the
main cache; the second wherever `mirror_pos_` stands.

**Restore.** `file` is the save file (header, tokens, checkpoint offsets, and how much of
it is on disk), `entry` its state cache file, `old` = `old_hash`. A write is two steps, begun and
completed, and `Restart` may come between any two. `pc`: `saving` / `caching` (and
`quitting` / `quitCaching`) are `save_session_with_header` and `write_v1_cache`; `fast`
is the attempt on the cache, `probe` the canary's generation, `slow` the `Restore>`
prompt, `feeding` the re-decode up to the chosen position `limit`, one `FeedChunk` for each
chunk of at most `n_batch` tokens, which ends at the next checkpoint at the latest so that
its state can be pushed, `autoCaching` the cache written behind it. `Restore` lets turns be a
few tokens with a checkpoint; what happens inside a turn is `Session`'s.

**ServerStart.** A lim's `pc` follows `start_lim_server_if_needed`: `check` (port),
`resolve` (PID file, scan of `/proc`), `judge` (does it hold our FIFO?), `kill`, `unlink`
(markers), `fork`, `wait`, `run`. A server's `phase` follows `limServer.py`: `sh`,
`python`, `bound`, `marked` (`server_ready` written), `named` (PID file written), `reading` (FIFO
open). FIFO nodes are numbered, because a path that is removed and made again is
another node; `held` is the descriptor a server inherits, `reads` the one it opens.

**ShellExec.** `pc` is the call `exec_shell` is in. A signal is two cases: it arrives
while the call blocks (EINTR) or between calls, where only the SIGCHLD handler's
self-pipe byte (`wake`) and `stop_generation` (`stop`) survive. `child` is the shell,
`job` a background process that inherited the pipe, `file` the exit-code file; the history `lost` says
that output within the limit was not forwarded.

**FileCache.** `disk` is what the file system has (text and mtime in seconds), `cache` =
`file_cache`, by the path as the model spelled it; two spellings may lead to one file.
`seen` is what the context holds of file contents, in its order, and `cps` how many of
them each checkpoint has. `ReadFiles` decides the hits, `ReadOne` reads the others one by one,
`Stamp` takes their fingerprints behind the last read, `FeedResult` / `TooLarge` /
`FeedCut` say what of the result reached the context; the history variable `lost` has the
paths whose content did not, and the passing run does not read them again while their files
are as they were (that is `files_discarded` and `FileCache_cut`). Other programs, `exec_shell`'s
command among them, change files at any step (`Outside`).

## 3. Runs

| run | result | question |
|---|---|---|
| `spec_rounds` | pass | three drafts a round, no thinking tags: exits, resumption, failures |
| `spec_think` | pass | one draft a round, with thinking tags |
| `session_turns` | pass | the turn loop without speculation, features in pairs and triples |
| `session_correct` | pass | the correction cycle with a snapshot window |
| `mirror` | pass | rounds, exhaustion, `/undo`, corrections, saves and loads against the mirror |
| `restore` | pass | saves and loads with kills, full disks, failing, cancelled and retried loads |
| `servers` | pass | two lims, two ports, crashes, a cleaned `/tmp`, foreign programs, slow and stuck servers |
| `shell` | pass | one command with a background job, every signal and an early exit |
| `files` | pass | reads, writes and edits under two spellings, other programs, `/undo`, `/clear` |
| `session_drafts`, `restore_quit`, `files_discarded` | violation | section 4 |

What the properties of the passing runs say:

- *Generator.* `ExitLockstep`, `SampleSound`, `RollbackInWindow`, `RoundsNotedOnce` and
  `HookCheckpoint` are what its comments promise; `ImplementsPlainDecoding` is the
  refinement that makes speculation invisible; `Terminates` its end.
- *Session.* `Lockstep`, `RecurrentInStep`, `CheckpointsLive`, `OneSlotPerCheckpoint` and
  `InjectBehindFuncStart` are the bookkeeping; `ImplementsConversation` is what it is
  for: nothing before a mark changes until the user goes back; `TurnEnds` that the
  prompt comes back.
- *Mirror.* `CoversMain` and `RowsAreMains`: a valid mirror has a row for every main
  cell, of the right token. `OneRowPerHeal`: a truncation or load costs one stale row
  and errors do not pile up. `DecodeHeals`: a successful decode never turns
  speculation off.
- *Restore.* `RestoredExactly` and `StackLive`: whatever way back was taken, context and
  checkpoint stack are right. `LoadGivesASave`: never part of a cut save, never a mixture of
  two. `QuitKeepsWork`: what `/quit` leaves is in the save. `LoadTerminates`: the
  retries are bounded.
- *ServerStart.* `OneReader`: the stream is never split. `ReusedServes`, `ReadyListens`,
  `ViewerThere`: each verdict a lim acts on is true when it is given. `KeepsHealthyAlone`: one
  lim at a time kills no healthy server. `Heals`: whatever crashed or was deleted, a lim that stays alone
  gets a server that reads what it writes.
- *ShellExec.* `TailArrives` (what the shell wrote is forwarded or behind the limit), `CodeIsReal`, `NothingLeft`, `Finishes` (a job that holds the
  pipe does not delay the end), `InterruptEnds`.
- *FileCache.* `NoFalseHit`: a file is answered by `[cached]` only when the latest content of
  it in the context is its present one.

Every property of a passing run is broken by a mutant of the code (`PROJECT.json`,
"mutants"). The `TypeOK` of `Restore`, `ServerStart` and `FileCache` are proved (section 5);
those of `Session` and `Mirror` document the variables, and can be checked by adding them to
the configuration.

### Bounds

- `Limit` and `NCtx` (6 and 8 in `SpecRound`, up to 15 in `Session`) stand for
  `n_ctx - 10` and `n_ctx`. Two complete rounds, or three turns with a tool call, fit
  below them, and every path at the end of the context is reached because it is near.
- `DraftLen` 3 is the least with a first, a middle and a last verify row; 1 is the
  degenerate case; 2 suffices for the counterexamples. `MCDist` lets different words
  follow at even and odd positions, so that a token drawn for the wrong position shows.
- A fed block is one token (a correction prompt two): a feed can be cut before,
  between and after its tokens, which is all the code distinguishes.
- `MaxPrompts` bounds the prompts (the checkpoints a behaviour can have). Three are
  the least that give `/undo` a first, a middle and a last target.
- `depth` and `chain` saturate just above `MaxAuto`; only their order against it counts.
- `Draws` lets the sampler draw any token the instance's `Dist` has for that context.
- `Line` is 90% of the context in the code; here it is a position of its own, so that a
  turn can cross it at any place.
- `Mirror`: `NCtx` 4 with feeds of at most 2 and drafts of 2 lets a round end below, at and
  beyond the context's end; two checkpoints make one `/undo` target; `MaxHeals` 2
  is the least with which stale rows could pile up. 5.4 million states under symmetry.
- `Restore`: a context of 6 holds the system prompt, two turns and a canary of two tokens;
  `CanaryMax` 2 and `NRsSeq` 1 make the canary longer than the window, as 24 tokens against
  at most 3 snapshots are; one retry has a first and a last attempt. `Overshoot` 0
  (33 in the code) only decides which loads are probed; that the window is no longer than
  it, up to one, is the code's (main.cc 366 caps the drafts at 32). `NBatch` 2 has chunks
  that end at a full batch, at a checkpoint and at the end. 764,000 states.
- `ServerStart`: two lims, two ports and two servers at a time are the least in which a
  server can be replaced, reused and mistaken; `MaxFaults` 2 allows a fault while
  another one is being repaired; `MaxInode` 3 gives every cleaned `/tmp` a new node.
  A slot of a dead process is used again only when nothing names it (PIDs are not
  reused at once). 600,000 states.
- `ShellExec`: a pipe of 3 chunks and a limit of 2 have the empty, partial, full and
  truncated cases. 29,000 states.
- `FileCache`: three paths to two files, two texts of one size and one of another, three
  seconds, three contents in the context; a file can change, change back, and be read
  under either name before, between and behind. 5.4 million states under symmetry.
  A change of which the context knows nothing is at least a second behind the one before it
  (`Later`); an mtime that is set back is not modelled.

`CHECK_DEADLOCK` is off: a generation that is done, a command that was reported, and a
session at its prompt with its bound of prompts reached, rightly stop.

### Scenarios left out

`MCTurns` and `MCCorrect` list the features that meet in one behaviour. A passing
instance has no combination in which the bookkeeping goes wrong: `drafts` with `undo`
(finding 1); `bad` with `undo`, `line` or `continue`; `load` with `tail`; `undo` with `line`
and `load` together; `continue` with `cut`. Section 4 names a configuration for each but
the last and `bad` with `continue`, which fails like `bad` with `line`: a resumed turn has
its checkpoint already when its call turns out to be malformed. The one exception is
`{tool, bad, line}` in `session_correct`: its `Line` of 4 is crossed in the first turn
whatever is drawn, where no older checkpoint exists and the correction gives up
(`RollBackAborts`). A later turn that is cut is `Session_recut`. No passing instance has
`cut` (a session whose system prompt was not fed); the theorems have.

The theorems of section 5 go beyond the instances in the bounds and in how many features
meet in one behaviour, with one exception: `{undo, interrupt, continue}` passes in
`session_turns` but is not proved about (a fourth feature beside it breaks the
bookkeeping). The other sets of `MCTurns` satisfy `NoWindow`, those of `MCMirror` satisfy
`NoNotes` and `NotOvertaken`. `session_correct` has a window and corrections, so of its
properties `InjectBehindFuncStart` is proved and `ImplementsConversation` only checked. Every
scenario of `restore`, `servers` and `files` satisfies the hypotheses of the theorems about it.

`mirror` leaves out `oversize` with `undo`, and `exhaust` with `correct` and `undo`: `/undo` re-arms a
mirror that was off, and its rows have to be the main cache's up to the position it stood at. They
are not if it stood ahead of the main cache, over rejected drafts or rows behind an earlier
`/undo`, when a feed did not fit, or if a correction went below it; the main cache is then refilled with other tokens.
`Mirror_oversize.cfg` and `Mirror_overtaken.cfg` show one behaviour each. The first breaks `OneRowPerHeal` as well when the
drafts are long enough (5, in a context of 7), and neither `CoversMain` nor
`DecodeHeals`, whose theorems do not exclude it.

`spec_rounds` has no thinking tags and more than one draft because with tags the tripwire
breaks `ExitLockstep` (`SpecRound_tripwire.cfg`) and with one draft the statistics are
wrong (`SpecRound_single.cfg`).

`servers` leaves out `port` with `race`, with `clean` or with `foreign`, and `client` with
`crash`, `race` or `slow`. In instances of these scenarios TLC finds that
`{port, race}` breaks `OneReader`, `ReadyListens` and `ReusedServes`, that `{port, foreign}` and
`{port, clean}` break `ReusedServes` (the verdict does not look at the candidate's port), and that
`{crash, client}`, `{race, client}` and `{slow, client}` break `ViewerThere` (the marker outlives its
server). `restore` leaves out `mirror` with `bare`, `crash` or `full`: a save that
is without checkpoints, or whose checkpoints were not written, is then loaded under a
canary, which leaves its stack entry behind (`StackLive`).

The heads of `MCMirror`, `MCRestore`, `MCServerStart`, `MCShellExec` and `MCFileCache` name what their
passing instances leave out; each is one of the divergences of section 4. Symmetry is used
for the tokens of `Mirror` and the two texts of one size in `FileCache`, which no definition
tells apart; neither module has a liveness property.

### Fairness

One thread runs the loop and never waits between two of its steps, so weak fairness of
`Generate` and `LoopStep` is what the scheduler gives. The user's steps (prompt,
commands, Ctrl+C, `/continue`) get none: `Terminates` and `TurnEnds` hold although the
user does nothing. `TurnEnds` does not rely on the model ending a turn by itself: a
generation that never draws an end token stops at `Limit`.

`Restore` assumes weak fairness of the steps of a save or a load, for the same reason;
the kill is not fair. `ServerStart` assumes that each lim and each server runs on, that
writes go on (so a stalled FIFO is noticed), that foreign programs give their port up
in the end, and that the user of a lim without a healthy server tries `/reset`: `Heals` is
about repair, and nothing but the user starts one. `ShellExec` assumes only that lim
runs: a command need not end, and `InterruptEnds` holds for one that never does.

## 4. What the code does otherwise

Three runs of `PROJECT.json` end in a counterexample; "findings" quotes statement and line.

1. *Drafts before a checkpoint* (`session_drafts`). `rs_checkpoint_save` copies plane 0
   although a rollback is pending, so a turn whose end rolled back drafts is
   checkpointed ahead of itself.
2. *Continued after a save* (`restore_quit`). Only a typed prompt clears `prev_was_save_`;
   after `/save`, `/continue`, `/quit` the continuation is in no save.
3. *Discarded but cached* (`files_discarded`). `read_files` enters a file into the cache before
   its result is fed. A result that does not fit is discarded, with the advice to ask for
   less; a file of it that is asked for again is answered `[cached]`.

### Further counterexamples

These configurations show one more divergence each. They are kept beside the runs
(`tlc -config <cfg> <module>`) and end with the property violated.

| configuration | property | the code | stated at |
|---|---|---|---|
| `SpecRound_tripwire` | `ExitLockstep` | a matched draft is counted as committed before it is fed (token_generator.cc 739); when the thinking tripwire leaves the loop in between and it was the last row, its cell stays without a tracker entry | token_generator.cc 457: "The tracker/KV consistency invariant holds at every turn exit" |
| `SpecRound_resume` | `SampleSound` | after the tripwire the kept batch ends with the uncommitted draft's row, and `/continue` samples it (token_generator.cc 1400) | token_generator.cc 1396: "so a later /continue samples the last valid row" |
| `SpecRound_single` | `RoundsNotedOnce` | with `LIM_MTP_DRAFT=1` and an end token as the bonus the cleanup notes the round again; statistics only | token_generator.cc 655: "count it once, bonus included" |
| `Session_ejected` | `CheckpointsLive` | the paths that give up a correction skip the turn-end block (session.cc 3640, 3490); slot and index stay set | session.cc 3618: "falls through to the prompt-return block" |
| `Session_chain` | `DepthCapped` | a corrected call resets the depth (session.cc 1407) | src/README.md 436: "Maximum depth of automatic tool-call chaining" |
| `Session_loaded` | `RecurrentInStep` | the one stack entry of a save made in the middle of a turn is mapped to its last checkpoint (session.cc 2030) | src/README.md 518: "restores the session to the end of the turn" |
| `Session_recut` | `CheckpointsLive` | a call cut at the 90% line gets a permanent checkpoint *inside* it (session.cc 3690-3706); when it turns out to be malformed, the correction goes back to an older checkpoint (session.cc 766-804) and replaces the text under this one | session.cc 3691: "the checkpoint just pushed is PERMANENT (not provisional) -- a /undo target" |
| `Session_padded` | `Lockstep` | the same checkpoint, now beyond the end of the context: `/undo` to it resizes the tracker *up* (session.cc 2628) | token_generator.cc 457, as above |
| `Session_twice` | `RecurrentInStep` | a turn interrupted at once is checkpointed where the last one ended; `/undo` to the earlier restores, but `seq_rm` has no cell to remove and leaves `rs_restored` set, so a later `/undo` below the offset is taken as restored | session.cc 2572: "n_past is unique per checkpoint" |
| `Restore_tail` | `StackLive` | the same, seen from the load | session.cc 2017 |
| `Restore_short` | `RestoredExactly` | a canary of no more tokens than the window: the stack restore writes plane 0, then `seq_rm` takes the window branch and points `rs_idx` into planes of the probe (llama-memory-recurrent.cpp 200-217) | session.cc 1866: "the context to exactly the restore point" |
| `ServerStart_kill` | `KeepsHealthy` | a server that has the port but has not opened the FIFO is judged not to serve it, and is replaced; it may be reading when the kill arrives | server.h 23: "never kills a healthy server" |
| `Mirror_note` | `CoversMain` | the note on a changed HEAD is decoded without the hook; a save made then is short of rows | filesystem.cc 540: "the mirror covers at least the main's rows" |
| `Mirror_overtaken` | `RowsAreMains` | a correction below the position of a mirror that is off, then other tokens, then an `/undo`: `rearm_if_kv_exhausted` (mtp.cc 381) turns on a mirror whose rows are of the text that was replaced | session.cc 2673: "the mirror's rows up to the undo point are still valid" |
| `Mirror_oversize` | `RowsAreMains` | a round ends with a rejected draft, whose row stays in the mirror; then a feed does not fit and `invalidate_kv_exhausted` (mtp.cc 375) turns the mirror off without a look at `mirror_pos_`; other tokens are fed in the place of the draft and an `/undo` above them re-arms the mirror with the draft's row | mtp.h 110: "the mirror's rows up to mirrorPos() are still valid"; session.cc 2673 |
| `ShellExec_exit` | `FailureIsSaid` | a command that ends by `exit 1` writes no exit-code file, and the status is dropped when the poll loop's `waitpid` (filesystem.cc 1070) reaped it: with some output the failure is not said | filesystem.cc 1162: "Always include exit code so the LLM can distinguish success from failure" |
| `ShellExec_late` | `Responsive` | a Ctrl+C between two calls is looked at only after the next EINTR (filesystem.cc 1008-1030); a silent command is waited for | CHANGELOG.md 129: "responsive to Ctrl+C" |
| `ShellExec_nul` | `TailArrives` | `forward_chunk` appends a chunk that fits as a C string (filesystem.cc 999): what follows a NUL byte in it is lost, though the limit is far | filesystem.cc 982: only "data past the limit is drained but not forwarded" |
| `FileCache_cut` | `NoFalseHit` | the feed of a read's result is cut by Ctrl+C; the cache keeps what the context did not get | session.cc 2771: "read_files would return false cache hits" |
| `FileCache_between` | `NoFalseHit` | the fingerprint is taken behind the read (tools.cc 361): a file that changed in between is `[cached]` with the new fingerprint and the old content | same |
| `FileCache_quick` | `NoFalseHit` | a change in the same second that keeps the size does not show in the fingerprint (filesystem.cc 47) | tools.cc 312: "matches current file metadata" |

### Seen while modelling, outside the instances

- `ShellExec`: a background job that writes faster than lim reads keeps the drain loop
  (filesystem.cc 1073-1087) running, where Ctrl+C is not looked at (`MCChatty`). A spurious
  EAGAIN restarts the poll loop past the `waitpid` although the wake-up byte was taken.
- `ServerStart`: the inherited `pipe_fd` makes `pid_serves_our_fifo` true (server.cc 215) for
  a server that reads another node after `/tmp` was cleaned under it; the verdict "reused" does
  not look at the candidate's port; `browser_ready` survives a crash of the server; a server
  says it is ready before it has opened the FIFO. The loop `while (j < n && buf[j] != '\0') j;`
  (server.cc 164) never advances: it does not terminate as written, and a compiler may
  drop it, as a loop without side effects. The model takes the terminating outcome.
- `Restore`: a canary over a save without checkpoints leaves its stack entry; a `Restore>`
  prompt cancelled after a corrupt canary, or after a state that could not be set, returns
  to the session with the context as it then is.

## 5. Proofs

| theorem | says | hypotheses |
|---|---|---|
| `RsMemoryProofs!RollbackExact` | a rollback inside the window is accepted and exact | - |
| `SpecRoundProofs!TypeCorrect` | `Spec => []TypeOK` | `DraftLen > 1` |
| `SpecRoundProofs!NotedOnce` | `Spec => []RoundsNotedOnce` | `DraftLen > 1` |
| `SpecRoundProofs!ExitInLockstep` | `Spec => []ExitLockstep` | `DraftLen > 1`, `~HasThink` |
| `SpecRoundProofs!RollbacksStayInWindow` | `Spec => []RollbackInWindow` | same |
| `SpecRoundProofs!SamplesTheTracker` | `Spec => []SampleSound` | same |
| `SpecRoundProofs!SpeculationInvisible` | `Spec => ImplementsPlainDecoding`, a refinement | same |
| `SpecRoundProofs!CheckpointAtMark` | `Spec => []HookCheckpoint` | same |
| `SessionProofs!SessionLockstep` | `Spec => []Lockstep` | `NoOrphans` |
| `SessionProofs!SessionInject` | `Spec => []InjectBehindFuncStart` | `NoOrphans`, `NoCutLoad` |
| `SessionProofs!SessionForward` | `Spec => []RecurrentInStep` | `NothingTakenBack` (any window) |
| `SessionProofs!SessionRemembers` | `Spec => []RecurrentInStep` | `NoWindow` |
| `SessionProofs!SessionCheckpoints` | `Spec => []CheckpointsLive` | `NoWindow` |
| `SessionProofs!SessionSlots` | `Spec => []OneSlotPerCheckpoint` | `NoWindow` |
| `SessionProofs!SessionPromise` | `Spec => ImplementsConversation`, a refinement | `NoWindow \/ NothingTakenBack` |
| `SessionProofs!SessionMarks` | `Spec => []Promise!MarksInHistory` | same |
| `SessionProofs!SessionPast` | `Spec => [][Promise!PastKept]_(Promise!conversation)` | same |
| `MirrorProofs!MirrorCovers` | `Spec => []CoversMain` | `NoNotes` |
| `MirrorProofs!MirrorHeals` | `Spec => DecodeHeals`, an action property | `NoNotes` |
| `MirrorProofs!MirrorTokens` | `Spec => []RowsAreMains` | `NoNotes`, `NotOvertaken` |
| `MirrorProofs!MirrorErrors` | `Spec => []OneRowPerHeal` | `NoNotes`, `NotOvertaken` |
| `ShellExecProofs!TypeCorrect` | `Spec => []TypeOK` | - |
| `ShellExecProofs!TailAlwaysArrives` | `Spec => []TailArrives` | `NoNul` |
| `ShellExecProofs!NoFabricatedCode` | `Spec => []CodeIsReal` | - |
| `ShellExecProofs!NothingIsLeft` | `Spec => []NothingLeft` | - |
| `RestoreProofs!RestoreTypes` | `Spec => []TypeOK` | - |
| `RestoreProofs!RestoredExactlyHolds` | `Spec => []RestoredExactly` | `ExactIn` |
| `RestoreProofs!StackLiveHolds` | `Spec => []StackLive` | `StackIn` |
| `RestoreProofs!QuitKeepsWorkHolds` | `Spec => []QuitKeepsWork` | `QuitIn` |
| `RestoreProofs!LoadGivesASaveHolds` | `Spec => LoadGivesASave`, an action property | `Uncancelled` |
| `ServerStartProofs!ServerTypes` | `Spec => []TypeOK` | - |
| `ServerStartProofs!OneReaderHolds` | `Spec => []OneReader` | `Apart` |
| `ServerStartProofs!ReadyListensHolds` | `Spec => ReadyListens`, an action property | `Apart` |
| `ServerStartProofs!KeepsHealthyHolds` | `Spec => KeepsHealthyAlone`, an action property | `Apart` |
| `ServerStartProofs!ReusedServesHolds` | `Spec => ReusedServes`, an action property | `ReuseApart` |
| `ServerStartProofs!ViewerThereHolds` | `Spec => ViewerThere`, an action property | `ViewApart` |
| `FileCacheProofs!CacheTypes` | `Spec => []TypeOK` | - |
| `FileCacheProofs!CachedIsKnown` | `Spec => NoFalseHit`, an action property | `NoSuchChange` |

They hold for every vocabulary, sampler, context size, window, draft length, batch size, number
of prompts, retries, lims, ports, servers, FIFO nodes, paths and texts, pipe size, output limit and
set of scenarios that the assumptions on the constants (`NRsSeqAssumption`,
`SpecRoundAssumption`, `SessionAssumption`, `MirrorAssumption`, `RestoreAssumption`,
`ServerAssumption`, `ShellAssumption`, `CacheAssumption`) and the hypotheses named above allow.
Every safety property of the runs `spec_rounds`, `session_turns`, `mirror`, `restore`, `servers`,
`shell` and `files`, action properties and refinements included, has a theorem.

### The hypotheses

Each hypothesis excludes what is false of the code, and a configuration shows that it is:

| hypothesis | excludes | without it |
|---|---|---|
| `DraftLen > 1` | one draft a round | `SpecRound_single` |
| `~HasThink` | a model with thinking tags | `SpecRound_tripwire` |
| `NoOrphans` | `/undo` together with corrections and with checkpoints inside a call | `Session_padded` |
| `NoCutLoad` | `/load` into a session whose system prompt was cut | (argued only, see below) |
| `NoWindow`, first half (`NRsSeq = 0`) | snapshots, hence pending rollbacks | `session_drafts` |
| `NoWindow`, second half (`Orderly`) | sets of features that spoil the bookkeeping | `Session_loaded`, `Session_ejected`, `Session_recut`, `Session_twice` |
| `NoNotes` | a decode past the hook | `Mirror_note` |
| `NotOvertaken` | exhaustion in a round, correction and `/undo` in one session; a feed that does not fit with an `/undo` | `Mirror_overtaken`, `Mirror_oversize` |
| `NoNul` | output with NUL bytes | `ShellExec_nul` |
| `ExactIn` | a canary of no more tokens than the window; `cancel` with `corrupt` or `pressure` | `Restore_short`; `{cancel, pressure}` breaks `RestoredExactly` |
| `StackIn` | as `ExactIn`; saves with tokens behind their last checkpoint; canaries over saves without checkpoints | `Restore_tail`; section 3, "left out" |
| `QuitIn` | `/continue` behind a `/save`; `cancel` with `corrupt` | `restore_quit`; `{mirror, corrupt, cancel, tail}` breaks it too |
| `Uncancelled` | a load that is cancelled when the canary judged it corrupt | `{mirror, corrupt, cancel}` breaks `LoadGivesASave` |
| `Apart` | lims of different ports that race or find `/tmp` cleaned | section 3, "left out" |
| `ReuseApart` | as `Apart`; `/tmp` cleaned under a live lim; a foreign program beside lims of different ports | section 3, "left out"; `{clean, live}` with `slow` or `race` |
| `ViewApart` | viewers with crashes, races and slow servers, or with `port` and `foreign` | section 3, "left out" |
| `NoSuchChange` | changes the fingerprint cannot show; a second read of what did not arrive | `FileCache_quick`, `FileCache_between`; `FileCache_cut`, `files_discarded` |

A theorem quantifies over all sets of scenarios its hypothesis admits, so its hypothesis
also excludes some sets that would be right. For `Orderly` the gap is small. With `NRsSeq = 0` the
least sets that TLC finds to break the bookkeeping are `{load, tail}` with `undo`; `{tool, bad}`
with `undo`, with `line` or with `interrupt, continue`; `{continue, interrupt, cut}`;
`{undo, interrupt, continue}` with `tool` or with `load`; and `{undo, interrupt, line, load}`. `NoCutLoad` is
needed by the argument, and no instance shows it necessary: `/load` tells a fresh session by its number
of tokens, and that its one token is the system prompt is what places a corrected call behind it.

The hypotheses about saves and servers name pairs of features, and not every theorem that has
one fails without it. In the bounds of the instances `RestoredExactly` holds with
`{mirror, corrupt, cancel}` (it is `StackLive` and `LoadGivesASave` that break), `OneReader` and
`ReadyListens` with `{port, clean}` (it is `ReusedServes`, and with `live` `KeepsHealthyAlone`), and
`ViewerThere` with `{client, port}` and `clean` or `foreign`. There the theorems say less than
seems to be true, and the invariant would have to say what a stranger's server reads
after `/tmp` was cleaned.

`SessionForward` and the second case of `SessionPromise` show the other half of the picture: with
any window and with pending drafts, only going back can go wrong.

### The argument

1. *The memory.* `RollbackExact` and the other lemmas of `RsMemoryProofs` turn "ahead by n" into
   "level" after a rollback.
2. *The loop.* `RoundInv` (`SpecRoundProofs`): the flags encode one of a few states
   (`OneState`), each can be seen only at some places of the loop (`InPlace`), an open round has
   rows left (`RowsLeft`), and the statistics owe exactly one note for it (`Owed`).
   `RoundsNotedOnce` alone is not inductive: it does not say which flags are set.
3. `TypeInv` (`SpecRoundProofs`) adds what the data is: planes and batch rows are token
   sequences except where a failed decode left them blank, and the cells a round needs are there.
4. `PlaceInv` (`SpecRoundProofs`) says how far the caches are from the tracker at each
   point of a round: level, one behind (d1 matched, not decoded), or ahead by the
   drafts still to be compared, *with one snapshot plane for each of them*. That clause
   is why the rollback at any mismatch is inside the window, and it is preserved because
   the verify batch is no longer than the window (`DraftLen <= NRsSeq`).
5. `HookInv` (`SpecRoundProofs`): before a tool call begins the stack is empty (`NotOpen`); when
   the hook is about to run, the context is level or the pending rollback names the plane
   of exactly `n_past_` (`AtHook`); afterwards the entry is the state at the mark and the
   tracker still begins with it, through every later rollback (`Held`).
6. `SoundInv` (`SpecRoundProofs`) = `PlaceInv /\ RowsRight /\ Drawn`: the batch rows a later
   step can read were computed from the tracker extended by the drafts before them, and the
   token in hand was drawn from the row of the tracker. `SampleSound` follows, and with
   `Where` (which abstract position each place of the loop maps to) and `Grows` (a step
   leaves the abstract context alone or extends it by the token just drawn) so does the
   step simulation of `PlainDecoding`.
7. *The turn loop.* `LockInv` (`SessionProofs`) = `Context /\ Labels /\ Latches /\ Marks`.
   `Lockstep` is not inductive because `/undo` and a correction cut the context at a position
   noted long before, and cutting *up* pads the tracker only. So `Marks` says that checkpoints and
   correction target lie in the context, in order, the checkpoints before the call; and as
   that holds only while certain turns are under way, `Latches` says which results of a generation and
   which latches can be seen at which `pc`.
8. `TargetInv` (`SessionProofs`): the token at the target is a FUNC_START from the moment a call
   begins until its correction is over (`TargetSet`), across an interruption that sets
   `tool_pending`; it is never the first token (`SysFirst`), so an anchor rollback has a prefix.
9. `MemInv` (`SessionProofs`) = `Follows /\ Entries /\ SlotOpen /\ Turns /\ Apart`.
   The three properties say what holds at the prompt; in between there is one entry more, of the
   slot a call opened, and `SlotOpen` says that it is the *last* and the state at the target:
   pruning to it, keeping it as the turn's checkpoint or dropping it then give `Entries` again.
   `Turns` has what a turn that returns early leaves. `Apart` is about the code's
   `rs_restored`: with a loaded session an `/undo` must not find the flag of an earlier one, which is so
   if no two checkpoints are at one position.
10. `SessionPromise`: under the mapping (state as history, checkpoints as marks) every step of the
   turn loop is `Extend`, `TakeBack`, `Mark`, `MoveMark`, `GoBack`, `StartAfresh`, `Load` or a
   stutter. Each action is shown to keep the prefix up to the last mark, which is `Marks` once more, or to
   return to a mark exactly, which is `Entries`. What the abstract conversation promises then holds
   of the turn loop itself: `SessionMarks` and `SessionPast`.
11. *The mirror.* `CoverInv` (`MirrorProofs`) adds to `CoversMain` where the mirror's position
   can be at each step of a round and that a mirror which is off was exhausted and still has the
   rows up to its position (`Status`), which is what `rearm_if_kv_exhausted` relies on.
12. `RowInv` (`MirrorProofs`) = `Live /\ Asleep /\ Stored`. The bound of `OneRowPerHeal` is not
   inductive: the row that pays for a heal is written by a *later* decode. So `Live` counts
   the debt: with a stale `pending_h_` one of the heals is not spent yet (`Owed`). `Asleep` says the
   same of the rows that an exhausted mirror keeps, and `Stored` of every save. `Asleep` is
   what `NotOvertaken` is for: a verify batch finds the mirror level with the main cache, so at exhaustion
   `Live` is `Asleep`; a feed that does not fit may find it ahead.
13. *The shell.* `SafeInv` (`ShellExecProofs`): where in `exec_shell` the shell can be in which
   phase; a dead shell holds no pipe; behind the drain loop the pipe has no chunk of the shell left
   (`OutputOK`, which is why a job that goes on writing does not matter); nothing is lost on the way but behind a NUL
   byte (`LostOK`); the one status that is kept is that of the shell that was reaped (`StatusOK`); after a kill nothing of the group
   runs (`KilledOK`).
14. *The files.* `CacheInv` (`FileCacheProofs`) = `Dated /\ Carried /\ Known`, an argument about
   time. `NoFalseHit` speaks of the moment a call begins; for it to hold, whatever *can* hit at
   any time must be known (`Known`), except the paths whose content is on its way or was
   lost. A change behind the session's back is dated later than every fingerprint (`Dated`), so it
   ends the hits of all spellings of the file at once; a change between a read and the
   feed of its result leaves a content on its way that is no longer the file's, and then no
   spelling can hit (`Carried`). `/undo` clears the cache with the context, which keeps `Known`.
15. *The browser server.* `ServerInv` (`ServerStartProofs`): no two servers are bound to one port
   (`ServersSound`), which alone separates two readers; lims come one at a time unless they race
   (`OneLim`); the node a server inherits or reads is the present one (`NodesSound`); with
   several ports, the live servers have one port among them, or there is a single stranger that the
   lim found and could not replace (`PortsSound`). `AloneSound` is what a lim
   that starts alone may conclude from the little it sees at each `pc`: past the check the
   server has settled, at the kill it does not serve. `ReadySound` and `ViewerSound` tie a marker to a
   server that lives, or to the lim on its way to remove it. Each part names the
   features it needs the absence of, so that each theorem has a hypothesis of its own.
16. *Saves and loads.* `RestoreInv` (`RestoreProofs`) = `FileInv /\ PlaceInv /\ ExactInv /\ StackInv /\
   QuitInv`. `RestoredExactly` is about the prompt and is not inductive: what a load gives stands in
   the cache entry, so `ExactInv` says that a loadable entry is `Sound` (its cache *and* its
   state are those of its tokens), whichever of the writes before it was killed. A probe keeps one
   stack entry, the state of the save; it overshoots by no more than a window, so it never
   leaves the context, and being longer than the window it is rolled back by the stack and not by a
   plane (`PlaceInv`). `StackLive` is not inductive because a re-decode builds the
   stack chunk by chunk: `Pushed` says that the checkpoints passed so far are on it, and
   `PlaceInv` that the next one is still ahead (`MarksLeft => npast < NextMark`), which is what
   ending a chunk at a checkpoint is for. `QuitInv` follows a save that is not revoked (`Kept`).

### TLC only

- Every liveness property (`Terminates`, `TurnEnds`, `LoadTerminates`, `Heals`, `Finishes`,
  `InterruptEnds`): they rest on fairness and ENABLED, which the prover cannot express.
- `ImplementsConversation` with a window and corrections (`session_correct`), and with
  `{undo, interrupt, continue}`.
- `ExitLockstep` and `ImplementsPlainDecoding` of the run `spec_think`, which is about `DraftLen = 1`.
- What the hypotheses exclude, as far as an instance has it.
- `TypeOK` of `Mirror`, and that of `Session` as it is written: the parts of them that the proofs need
  are conjuncts of their invariants.

## 6. Not modelled

In the modelled components:

- *Generator and session*: `/reincarnate`, benchmark modes 1 and 2, piped standard input and
  browser input, the turn timeout as a clock (it is one of the reasons to interrupt), the
  repetition and silent-loop detectors (they end a call, as a choice). `Session` runs with
  one sequence and feeds of whole blocks; logging and texts are left out.
  `stop_generation` and `g_was_interrupted` (signals.cc 9) are one flag: what a Ctrl+C does that
  falls between their two resets (token_generator.cc 321) is not modelled.
- *Speculator*: the acceptance statistics as numbers (crossing the minimum is a choice),
  failing creation, errors of the mirror's own decode other than position and size.
- *Saves*: the cache directory's size limit, several saves, `/delete`, the
  autosave of `/clear` (a file that nothing reads back by itself).
- *Browser server*: the stream's content, HTTP routes and origin checks, the status query.
- *Tool executor and file tools*: display, logs, edge-newline notes, `search_file`, how OLD is
  found in a file, PDF and URL reads; an outside change between an edit's read and its
  write, which is lost, as with any editor that does not lock.

Whole components, with the reason in `PROJECT.json`: the tool call parser (its correctness is
about characters, which these models abstract), the web tools (requests and text
cleaning), the viewer and editor extension, the scripts, and the vendored inference
library.

The repository counts 640,000 implementation lines; more than nine tenths are the vendored
llama.cpp, `json.hpp` and libraries. Of `src/*.cc`, the modules
cover the state-changing code of the session, the generator, the speculator, the saves,
the shell and file tools and the browser server; the share of the whole repository they cover
stays below one percent and cannot be otherwise for a model of lim itself.

## 7. Plan

1. (done) `RsMemory`, `SpecRound` with `PlainDecoding`; all of its safety proved.
2. (done) `Session` with `Conversation`; its runs.
3. (done) `Restore`.
4. (done) `Mirror`.
5. (done) `ServerStart`.
6. (done) `ShellExec`; all of its safety proved.
7. (done) `FileCache`; its safety proved.
8. (done) The safety of `Session`, with its refinement of `Conversation`, of `Mirror`, of `Restore`
   and of `ServerStart` proved.
9. Left: `Session` with a window *and* corrections, where the slot may be saved while drafts are
   pending; `{undo, continue}`; tag escaping as a pure algorithm against a reference;
   several saves in one cache directory.
