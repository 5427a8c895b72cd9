--------------------------- MODULE RsMemoryProofs ---------------------------
(***************************************************************************)
(* What the operations on the context memory return, for every vocabulary  *)
(* and every depth of the snapshot window.  The proofs about the systems   *)
(* that use the memory cite these lemmas.                                  *)
(***************************************************************************)
EXTENDS RsMemory, Integers, SequenceTheorems, TLAPS

\* A memory whose rows and checkpoints all hold a state: none is blank.
Filled == [kv : Seq(Token), planes : [0..NRsSeq -> Seq(Token)],
           rsIdx : 0..NRsSeq, restored : BOOLEAN, stack : Seq(Seq(Token))]

-----------------------------------------------------------------------------
\* A prefix of a sequence is one, of the length asked for, with its elements.
LEMMA PrefixType ==
  ASSUME NEW S, NEW s \in Seq(S), NEW n \in 0..Len(s)
  PROVE  /\ Prefix(s, n) \in Seq(S)
         /\ Len(Prefix(s, n)) = n
         /\ \A i \in 1..n : Prefix(s, n)[i] = s[i]
  BY SMT DEF Prefix

\* Two prefixes of a concatenation: the cut falls in the second part.
LEMMA PrefixOfConcat ==
  ASSUME NEW S, NEW s \in Seq(S), NEW t \in Seq(S), NEW n \in 0..Len(t)
  PROVE  Prefix(s \o t, Len(s) + n) = s \o Prefix(t, n)
  <1>1. /\ Prefix(s \o t, Len(s) + n) \in Seq(S) /\ s \o Prefix(t, n) \in Seq(S)
        /\ Len(Prefix(s \o t, Len(s) + n)) = Len(s) + n
        /\ Len(s \o Prefix(t, n)) = Len(s) + n
    BY SMT DEF Prefix
  <1>2. ASSUME NEW i \in 1..(Len(s) + n)
        PROVE  Prefix(s \o t, Len(s) + n)[i] = (s \o Prefix(t, n))[i]
    BY SMT DEF Prefix
  <1> QED
    BY <1>1, <1>2, SeqEqual

\* The whole sequence is its longest prefix.
LEMMA PrefixAll ==
  ASSUME NEW S, NEW s \in Seq(S)
  PROVE  Prefix(s, Len(s)) = s
  BY SubSeqFull DEF Prefix

-----------------------------------------------------------------------------
\* A filled memory is one of the memories, and reads as a token sequence.
LEMMA FilledFields ==
  ASSUME NEW m \in Filled
  PROVE  /\ m \in Memory
         /\ m.kv \in Seq(Token) /\ m.planes \in [0..NRsSeq -> Seq(Token)]
         /\ m.rsIdx \in 0..NRsSeq /\ m.restored \in BOOLEAN /\ m.stack \in Seq(Seq(Token))
         /\ State(m) \in Seq(Token)
  <1>1. /\ m.kv \in Seq(Token) /\ m.planes \in [0..NRsSeq -> Seq(Token)]
        /\ m.rsIdx \in 0..NRsSeq /\ m.restored \in BOOLEAN /\ m.stack \in Seq(Seq(Token))
        /\ m = [kv |-> m.kv, planes |-> m.planes, rsIdx |-> m.rsIdx,
                restored |-> m.restored, stack |-> m.stack]
    BY DEF Filled
  <1>2. Seq(Token) \subseteq RsState
    BY DEF RsState
  <1>3. m.planes \in [0..NRsSeq -> RsState]
    BY <1>1, <1>2
  <1>4. Seq(Seq(Token)) \subseteq Seq(RsState)
    BY <1>2, SeqMonotonic
  <1>5. State(m) \in Seq(Token)
    BY <1>1 DEF State
  <1> HIDE DEF RsState
  <1>6. m \in Memory
    BY <1>1, <1>3, <1>4 DEF Memory
  <1> QED
    BY <1>1, <1>5, <1>6

\* An empty memory holds the state after no token everywhere.
LEMMA EmptyFilled == EmptyMem \in Filled /\ Coherent(EmptyMem)
  BY NRsSeqAssumption, SMT DEF EmptyMem, Filled, Coherent, State

\* A decode fills the snapshot window with states that consumed the new tokens.
LEMMA DecodeFilled ==
  ASSUME NEW m \in Filled, NEW toks \in Seq(Token)
  PROVE  /\ Decode(m, toks) \in Filled
         /\ Decode(m, toks).kv = m.kv \o toks
         /\ Decode(m, toks).rsIdx = 0
         /\ Decode(m, toks).stack = m.stack
         /\ Decode(m, toks).restored = m.restored
         /\ \A i \in 0..NRsSeq : i < Len(toks) =>
              Decode(m, toks).planes[i] = State(m) \o Prefix(toks, Len(toks) - i)
  <1> DEFINE p == [i \in 0..NRsSeq |->
                     IF i < Len(toks) THEN State(m) \o Prefix(toks, Len(toks) - i)
                     ELSE m.planes[i]]
  <1>1. /\ m = [kv |-> m.kv, planes |-> m.planes, rsIdx |-> m.rsIdx,
                restored |-> m.restored, stack |-> m.stack]
    BY DEF Filled
  <1>2. ASSUME NEW i \in 0..NRsSeq, i < Len(toks)
        PROVE  State(m) \o Prefix(toks, Len(toks) - i) \in Seq(Token)
    <2>1. Len(toks) - i \in 0..Len(toks)
      BY <1>2
    <2> QED
      BY <2>1, FilledFields, PrefixType, ConcatProperties
  <1>3. p \in [0..NRsSeq -> Seq(Token)]
    BY <1>2, FilledFields
  <1>4. m.kv \o toks \in Seq(Token)
    BY FilledFields, ConcatProperties
  <1>5. 0 \in 0..NRsSeq
    BY NRsSeqAssumption
  <1>6. Decode(m, toks) = [m EXCEPT !.kv = m.kv \o toks, !.planes = p, !.rsIdx = 0]
    BY DEF Decode
  <1>7. \A i \in 0..NRsSeq : i < Len(toks) =>
          p[i] = State(m) \o Prefix(toks, Len(toks) - i)
    OBVIOUS
  <1> HIDE DEF p
  <1>8. Decode(m, toks) = [kv |-> m.kv \o toks, planes |-> p, rsIdx |-> 0,
                           restored |-> m.restored, stack |-> m.stack]
    BY <1>1, <1>6
  <1> QED
    BY <1>3, <1>4, <1>5, <1>7, <1>8, FilledFields DEF Filled

\* Removing the positions from p on leaves a filled memory, and if it is accepted
\* the attention cache holds exactly p positions.
LEMMA SeqRmFilled ==
  ASSUME NEW m \in Filled, NEW p \in Nat
  PROVE  /\ SeqRm(m, p) \in Filled
         /\ SeqRm(m, p).stack = m.stack
         /\ SeqRmOk(m, p) /\ p <= Len(m.kv) => SeqRm(m, p).kv = Prefix(m.kv, p)
  <1>1. /\ m = [kv |-> m.kv, planes |-> m.planes, rsIdx |-> m.rsIdx,
                restored |-> m.restored, stack |-> m.stack]
    BY DEF Filled
  <1>2. CASE Len(m.kv) <= p
    BY <1>2, FilledFields, PrefixAll DEF SeqRm
  <1>3. CASE ~(Len(m.kv) <= p) /\ ~SeqRmOk(m, p)
    BY <1>3 DEF SeqRm
  <1>4. CASE ~(Len(m.kv) <= p) /\ SeqRmOk(m, p)
    <2>1. p \in 0..Len(m.kv) /\ 0 \in 0..NRsSeq
      BY <1>4, FilledFields, NRsSeqAssumption
    <2>2. Prefix(m.kv, p) \in Seq(Token)
      BY <2>1, FilledFields, PrefixType
    <2>3. CASE InWindow(m, p)
      <3>1. Distance(m, p) \in 0..NRsSeq
        BY <2>1, <2>3, FilledFields DEF InWindow, Distance
      <3>2. SeqRm(m, p) = [kv |-> Prefix(m.kv, p), planes |-> m.planes,
                           rsIdx |-> Distance(m, p), restored |-> m.restored,
                           stack |-> m.stack]
        BY <1>1, <1>4, <2>3 DEF SeqRm
      <3> QED
        BY <2>2, <3>1, <3>2, FilledFields DEF Filled
    <2>4. CASE ~InWindow(m, p)
      <3>1. SeqRm(m, p) = [kv |-> Prefix(m.kv, p), planes |-> m.planes, rsIdx |-> 0,
                           restored |-> FALSE, stack |-> m.stack]
        BY <1>1, <1>4, <2>4 DEF SeqRm
      <3> QED
        BY <2>1, <2>2, <3>1, FilledFields DEF Filled
    <2> QED
      BY <2>3, <2>4
  <1> QED
    BY <1>2, <1>3, <1>4

\* Saving a checkpoint copies a state that is there.
LEMMA SaveFilled ==
  ASSUME NEW m \in Filled
  PROVE  RsSave(m) \in Filled
  <1>1. /\ m = [kv |-> m.kv, planes |-> m.planes, rsIdx |-> m.rsIdx,
                restored |-> m.restored, stack |-> m.stack]
    BY DEF Filled
  <1>2. m.planes[0] \in Seq(Token)
    BY FilledFields, NRsSeqAssumption
  <1>3. Append(m.stack, m.planes[0]) \in Seq(Seq(Token))
    BY <1>2, FilledFields, AppendProperties
  <1>4. [m EXCEPT !.stack = Append(m.stack, m.planes[0])] =
          [kv |-> m.kv, planes |-> m.planes, rsIdx |-> m.rsIdx,
           restored |-> m.restored, stack |-> Append(m.stack, m.planes[0])]
    BY <1>1
  <1> QED
    BY <1>3, <1>4, FilledFields DEF RsSave, Filled

-----------------------------------------------------------------------------
\* A record with a memory's fields and an attention cache, whatever the recurrent
\* rows hold: all it takes to say what an operation makes of the cells.
Fields == {"kv", "planes", "rsIdx", "restored", "stack"}

Shape(m) == m = [f \in Fields |-> m[f]] /\ m.kv \in Seq(Token)

\* A filled memory has the shape,
LEMMA FilledShape ==
  ASSUME NEW m \in Filled
  PROVE  Shape(m)
  BY DEF Filled, Shape, Fields

\* and so has the empty one.
LEMMA EmptyShape == Shape(EmptyMem) /\ EmptyMem.kv = <<>>
  <1>1. EmptyMem.kv = <<>>
    BY DEF EmptyMem
  <1> QED
    BY <1>1, EmptyFilled, FilledShape

\* A decode appends its tokens to the cells.
LEMMA DecodeShape ==
  ASSUME NEW m, Shape(m), NEW toks \in Seq(Token)
  PROVE  Shape(Decode(m, toks)) /\ Decode(m, toks).kv = m.kv \o toks
  <1>1. m.kv \o toks \in Seq(Token)
    BY DEF Shape
  <1> QED
    BY <1>1 DEF Shape, Fields, Decode

\* An accepted removal keeps exactly the cells before p, a refused one all.
LEMMA SeqRmShape ==
  ASSUME NEW m, Shape(m), NEW p \in Nat
  PROVE  /\ Shape(SeqRm(m, p))
         /\ SeqRmOk(m, p) /\ p <= Len(m.kv) => SeqRm(m, p).kv = Prefix(m.kv, p)
  <1>1. CASE Len(m.kv) <= p \/ ~SeqRmOk(m, p)
    <2>1. Prefix(m.kv, Len(m.kv)) = m.kv /\ Len(m.kv) \in Nat
      BY PrefixAll DEF Shape
    <2>2. SeqRm(m, p) = m
      BY <1>1 DEF SeqRm
    <2> QED
      BY <1>1, <2>1, <2>2
  <1>2. CASE ~(Len(m.kv) <= p) /\ SeqRmOk(m, p)
    <2>1. Prefix(m.kv, p) \in Seq(Token)
      BY <1>2, PrefixType DEF Shape
    <2> QED
      BY <1>2, <2>1 DEF SeqRm, Shape, Fields
  <1> QED
    BY <1>1, <1>2

\* The operations on the checkpoint stack leave the cells alone.
LEMMA StackShape ==
  ASSUME NEW m, Shape(m), NEW i
  PROVE  /\ Shape(RsSave(m)) /\ RsSave(m).kv = m.kv
         /\ Shape(RsOverwrite(m, i)) /\ RsOverwrite(m, i).kv = m.kv
         /\ Shape(RsRestore(m, i)) /\ RsRestore(m, i).kv = m.kv
         /\ Shape(RsPrune(m, i)) /\ RsPrune(m, i).kv = m.kv
  <1>1. Shape(RsSave(m)) /\ RsSave(m).kv = m.kv
    BY DEF Shape, Fields, RsSave
  <1>2. Shape(RsOverwrite(m, i)) /\ RsOverwrite(m, i).kv = m.kv
    BY DEF Shape, Fields, RsOverwrite
  <1>3. Shape(RsRestore(m, i)) /\ RsRestore(m, i).kv = m.kv
    BY DEF Shape, Fields, RsRestore
  <1>4. Shape(RsPrune(m, i)) /\ RsPrune(m, i).kv = m.kv
    BY DEF Shape, Fields, RsPrune
  <1> QED
    BY <1>1, <1>2, <1>3, <1>4

\* Drafts can be taken back exactly: a rollback by fewer positions than the last
\* decode added, and no more than the snapshot window holds, is accepted and
\* leaves both caches at the same, shorter context.
THEOREM RollbackExact ==
  ASSUME NEW m \in Filled, NEW toks \in Seq(Token), Coherent(m),
         NEW j \in 0..NRsSeq, j < Len(toks)
  PROVE  LET d == Decode(m, toks)
             p == Len(d.kv) - j
         IN /\ SeqRmOk(d, p)
            /\ Coherent(SeqRm(d, p))
            /\ SeqRm(d, p).kv = m.kv \o Prefix(toks, Len(toks) - j)
  <1> DEFINE d == Decode(m, toks)
             p == Len(d.kv) - j
  <1>1. /\ d \in Filled /\ d.kv = m.kv \o toks /\ d.rsIdx = 0
        /\ d.planes[j] = State(m) \o Prefix(toks, Len(toks) - j)
        /\ d.planes[0] = State(m) \o Prefix(toks, Len(toks))
    <2>1. 0 \in 0..NRsSeq /\ 0 < Len(toks) /\ Len(toks) - 0 = Len(toks)
      BY NRsSeqAssumption
    <2> HIDE DEF d
    <2>2. /\ d \in Filled /\ d.kv = m.kv \o toks /\ d.rsIdx = 0
          /\ \A i \in 0..NRsSeq : i < Len(toks) =>
               d.planes[i] = State(m) \o Prefix(toks, Len(toks) - i)
      BY DecodeFilled DEF d
    <2>3. d.planes[0] = State(m) \o Prefix(toks, Len(toks) - 0)
      BY <2>1, <2>2
    <2> QED
      BY <2>1, <2>2, <2>3
  <1>2. m.kv \in Seq(Token) /\ d.kv \in Seq(Token) /\ Len(d.kv) = Len(m.kv) + Len(toks)
    BY <1>1, FilledFields, ConcatProperties
  <1> HIDE DEF d
  <1>3. p = Len(m.kv) + (Len(toks) - j) /\ Len(toks) - j \in 0..Len(toks) /\ p \in Nat
    BY <1>2
  <1>4. InWindow(d, p)
    BY <1>1, <1>2, <1>3 DEF InWindow, Distance
  <1>5. SeqRmOk(d, p)
    BY <1>4 DEF SeqRmOk
  <1>6. Prefix(d.kv, p) = m.kv \o Prefix(toks, Len(toks) - j)
    <2> DEFINE n == Len(toks) - j
    <2>1. Prefix(m.kv \o toks, Len(m.kv) + n) = m.kv \o Prefix(toks, n)
      BY <1>2, <1>3, PrefixOfConcat
    <2> QED
      BY <1>1, <1>3, <2>1
  <1>7. CASE j = 0
    <2>1. SeqRm(d, p) = d /\ Prefix(toks, Len(toks)) = toks
      BY <1>2, <1>7, PrefixAll DEF SeqRm
    <2> QED
      BY <1>1, <1>5, <1>7, <2>1 DEF Coherent, State, d
  <1>8. CASE j # 0
    <2>1. SeqRm(d, p) = [d EXCEPT !.kv = Prefix(d.kv, p), !.rsIdx = Distance(d, p)]
      BY <1>2, <1>4, <1>5, <1>8 DEF SeqRm
    <2>2. Distance(d, p) = j
      BY <1>2 DEF Distance
    <2>3. /\ SeqRm(d, p).kv = Prefix(d.kv, p) /\ SeqRm(d, p).rsIdx = j
          /\ SeqRm(d, p).planes = d.planes
      BY <1>1, <2>1, <2>2 DEF Filled
    <2> QED
      BY <1>1, <1>5, <1>6, <2>3 DEF Coherent, State, d
  <1> QED
    BY <1>7, <1>8 DEF d
=============================================================================
