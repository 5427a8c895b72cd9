------------------------------ MODULE RsMemory ------------------------------
(***************************************************************************)
(* The context memory of a hybrid (attention + recurrent) model, as the    *)
(* session sees it through llama_memory_*: the patched recurrent cache of  *)
(* src/llama/src/llama-memory-recurrent.cpp below the hybrid wrapper.      *)
(*                                                                         *)
(* A memory is a record                                                    *)
(*   kv       the tokens the attention cache holds, one cell a position;   *)
(*   planes   the recurrent (R/S) state rows: plane 0 is the state after   *)
(*            the last token, plane i the snapshot taken i tokens earlier; *)
(*   rsIdx    the pending single-use rollback: the plane the next decode   *)
(*            starts from (rs_idx[seq]);                                   *)
(*   restored rs_restored[seq]: plane 0 was written by a checkpoint;       *)
(*   stack    the session's checkpoint stack of plane-0 copies.            *)
(* A recurrent state is represented by what it is a function of: the       *)
(* sequence of tokens it consumed.  One llama sequence (id 0) is used.     *)
(***************************************************************************)
EXTENDS Naturals, Sequences

CONSTANTS
    Token,     \* the vocabulary
    NRsSeq     \* n_rs_seq: depth of the per-token snapshot window

ASSUME NRsSeqAssumption == NRsSeq \in Nat

\* The state a default-constructed stack entry or an unwritten row holds: no
\* token sequence (the entry's buffers are empty), distinguished from any state.
Blank == <<"blank">>

RsState == Seq(Token) \cup {Blank}

Memory == [kv : Seq(Token), planes : [0..NRsSeq -> RsState],
           rsIdx : 0..NRsSeq, restored : BOOLEAN, stack : Seq(RsState)]

EmptyMem == [kv |-> <<>>, planes |-> [i \in 0..NRsSeq |-> <<>>],
             rsIdx |-> 0, restored |-> FALSE, stack |-> <<>>]

\* The recurrent state the next decode reads.
State(m) == m.planes[m.rsIdx]

Prefix(s, n) == SubSeq(s, 1, n)

\* llama_memory_clear: cells, rollback index, restored flag and stack all go.
Clear(m) == EmptyMem

\* Mutant: the decode leaves the pending rollback index set.
DecodeKeepsRollback(m, toks) ==
    [m EXCEPT !.kv = m.kv \o toks,
              !.planes = [i \in 0..NRsSeq |->
                            IF i < Len(toks)
                            THEN State(m) \o Prefix(toks, Len(toks) - i)
                            ELSE m.planes[i]]]

\* A successful decode of the tokens toks at the positions after the cache: the
\* state advances from the plane the pending rollback names, the last
\* min(|toks|, 1 + n_rs_seq) states are written to the planes, deeper planes
\* keep what they held, and the rollback is consumed.
Decode(m, toks) ==
    [m EXCEPT !.kv = m.kv \o toks,
              !.planes = [i \in 0..NRsSeq |->
                            IF i < Len(toks)
                            THEN State(m) \o Prefix(toks, Len(toks) - i)
                            ELSE m.planes[i]],
              !.rsIdx = 0]

\* llama_memory_seq_rm(mem, 0, p, -1), for p > 0 as every caller has it.  The
\* hybrid wrapper asks the recurrent cache first: a rollback inside the snapshot
\* window becomes the pending index, a longer one (or a second one before a
\* decode) is accepted only after a checkpoint restore, else nothing changes.
Distance(m, p) == Len(m.kv) - p

InWindow(m, p) == m.rsIdx = 0 /\ Distance(m, p) <= NRsSeq

SeqRmOk(m, p) == Len(m.kv) <= p \/ InWindow(m, p) \/ m.restored

SeqRm(m, p) ==
    IF Len(m.kv) <= p \/ ~SeqRmOk(m, p) THEN m
    ELSE IF InWindow(m, p)
         THEN [m EXCEPT !.kv = Prefix(m.kv, p), !.rsIdx = Distance(m, p)]
         ELSE [m EXCEPT !.kv = Prefix(m.kv, p), !.rsIdx = 0, !.restored = FALSE]

\* The checkpoint stack.  Every operation copies plane 0, whatever rsIdx says,
\* and none does anything on an empty sequence (no tail cell).
RsSave(m) ==
    IF m.kv = <<>> THEN m ELSE [m EXCEPT !.stack = Append(m.stack, m.planes[0])]

RsOverwrite(m, i) ==
    IF m.kv = <<>> \/ i >= Len(m.stack) THEN m
    ELSE [m EXCEPT !.stack[i + 1] = m.planes[0]]

RsRestore(m, i) ==
    IF m.kv = <<>> \/ i >= Len(m.stack) THEN m
    ELSE [m EXCEPT !.planes[0] = m.stack[i + 1], !.rsIdx = 0, !.restored = TRUE]

\* prune is a resize to i + 1: it truncates a longer stack and pads a shorter
\* one with default-constructed (blank) entries.
RsPrune(m, i) ==
    [m EXCEPT !.stack = [j \in 1..(i + 1) |->
                           IF j <= Len(m.stack) THEN m.stack[j] ELSE Blank]]

\* The two caches describe the same history.
Coherent(m) == State(m) = m.kv
=============================================================================
