---------------------------- MODULE MirrorProofs ----------------------------
(***************************************************************************)
(* Theorems about the mirror of MTP speculation, for every context size,   *)
(* draft length and bound of the model: it covers the main cache, its rows *)
(* are the main cache's, and each truncation or load costs one row at most.*)
(***************************************************************************)
EXTENDS Mirror, FiniteSetTheorems, SequenceTheorems, TLAPS

\* Nothing is decoded without the hook.
NoNotes == \A s \in Scenarios : "note" \notin s

\* An /undo re-arms a mirror that is off only if its rows up to its position stayed those
\* of the main cache: no correction overtook them (Mirror_overtaken.cfg), and the feed
\* that did not fit found no rows of rejected drafts ahead (Mirror_oversize.cfg).
NotOvertaken ==
    \A s \in Scenarios :
        ~({"exhaust", "correct", "undo"} \subseteq s) /\ ~({"oversize", "undo"} \subseteq s)

-----------------------------------------------------------------------------
\* The invariant, part by part.

AnyMirror == [rows : Seq(Row), pos : Int, origin : BOOLEAN, pending : Context,
              valid : BOOLEAN, exhausted : BOOLEAN]

AnyEntry == [tokens : Context, rows : Seq(Row), heals : Nat]

Types ==
    /\ main \in Context /\ mtp \in AnyMirror /\ cps \in Seq(Nat)
    /\ round \in Rounds /\ cache \in Seq(AnyEntry) /\ heals \in Nat
    /\ features \in Scenarios

\* The round in flight, and the mirror's two flags.
Status ==
    /\ round.phase \in {"drafted", "verified", "fresh"} => mtp.valid
    /\ round.phase = "drafted" => mtp.pos = Len(main) - 1
    /\ round.phase = "fed" /\ mtp.valid => mtp.pos = Len(main) - 1
    /\ round.phase = "verified" => Len(round.drafts) <= Len(main)
    /\ round.phase = "fresh" => cps = <<>>
    /\ round.phase \in {"saved", "fresh"} => cache # <<>>
    /\ mtp.valid => ~mtp.exhausted
    /\ mtp.exhausted => "exhaust" \in features \/ "oversize" \in features
    /\ mtp.valid \/ mtp.exhausted => mtp.pos >= -1 /\ mtp.pos < Len(mtp.rows)

CoverInv == Types /\ Status /\ CoversMain

\* The first n rows are of the first n tokens, and at most k of them are off.
Off(rows, ctx, n) == {p \in 1..n : rows[p].h # Prefix(ctx, p - 1)}

Faithful(rows, ctx, n, k) ==
    /\ n <= Len(rows) /\ n <= Len(ctx)
    /\ \A p \in 1..n : rows[p].tok = ctx[p]
    /\ Cardinality(Off(rows, ctx, n)) <= k

\* One heal is not paid yet if the next row is written with another hidden state.
Owed(m, ctx) == IF m.pending = ctx THEN 0 ELSE 1

Live(m, ctx, k) == m.valid => Faithful(m.rows, ctx, Len(ctx), k - Owed(m, ctx))

\* The rows of a mirror that is off stay those of the context up to its position.
Asleep ==
    mtp.exhausted /\ "undo" \in features =>
        Faithful(mtp.rows, main, mtp.pos + 1, heals)

\* What is loaded with a save is as good as it was.
Stored ==
    \A i \in 1..Len(cache) :
        cache[i].rows # <<>> /\ Len(cache[i].rows) >= Len(cache[i].tokens) =>
            Faithful(cache[i].rows, cache[i].tokens, Len(cache[i].tokens), cache[i].heals)

RowInv == Live(mtp, main, heals) /\ Asleep /\ Stored
-----------------------------------------------------------------------------
\* Sequences.

\* Of two integers, the lesser one.
LEMMA LesserOf ==
  ASSUME NEW a \in Int, NEW b \in Int
  PROVE  Min({a, b}) = IF a <= b THEN a ELSE b
  BY DEF Min

\* A function on an interval from 1, empty or not, is a sequence.
LEMMA IntervalSeq ==
  ASSUME NEW S, NEW k \in Int, NEW f \in [1..k -> S]
  PROVE  f \in Seq(S)
  <1> DEFINE n == IF k >= 0 THEN k ELSE 0
  <1>1. n \in Nat /\ 1..k = 1..n
    OBVIOUS
  <1> HIDE DEF n
  <1>2. f \in [1..n -> S]
    BY <1>1
  <1> QED
    BY <1>1, <1>2

\* A prefix ends where the sequence does.
LEMMA PrefixFields ==
  ASSUME NEW S, NEW s \in Seq(S), NEW n \in Nat
  PROVE  /\ Prefix(s, n) \in Seq(S)
         /\ Len(Prefix(s, n)) = IF n <= Len(s) THEN n ELSE Len(s)
         /\ Len(Prefix(s, n)) \in Nat /\ Len(Prefix(s, n)) <= Len(s)
         /\ \A i \in 1..Len(Prefix(s, n)) : Prefix(s, n)[i] = s[i]
  <1> DEFINE m == IF n <= Len(s) THEN n ELSE Len(s)
  <1>1. m \in 0..Len(s) /\ Len(s) \in Nat
    OBVIOUS
  <1>2. Prefix(s, n) = SubSeq(s, 1, m)
    BY LesserOf DEF Prefix
  <1> HIDE DEF m
  <1>3. /\ SubSeq(s, 1, m) \in Seq(S) /\ Len(SubSeq(s, 1, m)) = m
        /\ \A i \in 1..m : SubSeq(s, 1, m)[i] = s[i]
    BY <1>1, SubSeqProperties
  <1> QED
    BY <1>1, <1>2, <1>3 DEF m

\* Two contexts that agree on n tokens have the same prefixes up to there.
LEMMA PrefixAgree ==
  ASSUME NEW S, NEW s \in Seq(S), NEW t \in Seq(S), NEW n \in Nat,
         n <= Len(s), n <= Len(t), \A i \in 1..n : t[i] = s[i], NEW k \in 0..n
  PROVE  Prefix(t, k) = Prefix(s, k)
  <1>1. /\ Prefix(s, k) \in Seq(S) /\ Len(Prefix(s, k)) = k
        /\ \A i \in 1..k : Prefix(s, k)[i] = s[i]
    BY PrefixFields
  <1>2. /\ Prefix(t, k) \in Seq(S) /\ Len(Prefix(t, k)) = k
        /\ \A i \in 1..k : Prefix(t, k)[i] = t[i]
    BY PrefixFields
  <1>3. \A i \in 1..k : i \in 1..n
    OBVIOUS
  <1> QED
    BY <1>1, <1>2, <1>3, SeqEqual

\* The tokens off their rows are finitely many.
LEMMA OffFinite ==
  ASSUME NEW rows, NEW ctx, NEW n \in Int
  PROVE  IsFiniteSet(Off(rows, ctx, n)) /\ Cardinality(Off(rows, ctx, n)) \in Nat
  <1>1. IsFiniteSet(1..n)
    BY FS_Interval, 1 \in Int
  <1>2. Off(rows, ctx, n) \subseteq 1..n
    BY DEF Off
  <1>3. IsFiniteSet(Off(rows, ctx, n))
    BY <1>1, <1>2, FS_Subset
  <1> QED
    BY <1>3, FS_CardinalityType

\* Rows that are faithful stay so where both they and the context are kept.
LEMMA FaithfulCut ==
  ASSUME NEW rows \in Seq(Row), NEW ctx \in Context, NEW n \in Nat, NEW k \in Int,
         Faithful(rows, ctx, n, k),
         NEW rows2 \in Seq(Row), NEW ctx2 \in Context, NEW m \in 0..n, NEW k2 \in Int,
         k <= k2, m <= Len(rows2), m <= Len(ctx2),
         \A p \in 1..m : rows2[p] = rows[p] /\ ctx2[p] = ctx[p]
  PROVE  Faithful(rows2, ctx2, m, k2)
  <1>1. \A p \in 1..m : p \in 1..n /\ p - 1 \in 0..m
    OBVIOUS
  <1>2. ASSUME NEW p \in 1..m
        PROVE  Prefix(ctx2, p - 1) = Prefix(ctx, p - 1)
    <2>1. m <= Len(ctx) /\ m \in Nat
      BY DEF Faithful, Context
    <2> QED
      BY <1>1, <2>1, PrefixAgree DEF Context
  <1>3. Off(rows2, ctx2, m) \subseteq Off(rows, ctx, n)
    BY <1>1, <1>2 DEF Off
  <1>4. Cardinality(Off(rows2, ctx2, m)) <= Cardinality(Off(rows, ctx, n))
    BY <1>3, OffFinite, FS_Subset
  <1>5. Cardinality(Off(rows2, ctx2, m)) <= k2
    BY <1>4, OffFinite DEF Faithful
  <1> QED
    BY <1>1, <1>5 DEF Faithful
-----------------------------------------------------------------------------
\* The mirror's operators.

\* A mirror is its six fields.
LEMMA MirrorFields ==
  ASSUME NEW m \in AnyMirror
  PROVE  /\ m = [rows |-> m.rows, pos |-> m.pos, origin |-> m.origin, pending |-> m.pending,
                 valid |-> m.valid, exhausted |-> m.exhausted]
         /\ m.rows \in Seq(Row) /\ m.pos \in Int /\ m.origin \in BOOLEAN
         /\ m.pending \in Context /\ m.valid \in BOOLEAN /\ m.exhausted \in BOOLEAN
  BY DEF AnyMirror

\* A row for every token of a batch.
LEMMA NewRowsFields ==
  ASSUME NEW m \in AnyMirror, NEW before \in Context, NEW toks \in Context
  PROVE  /\ NewRows(m, before, toks) \in Seq(Row)
         /\ Len(NewRows(m, before, toks)) = Len(toks)
         /\ \A i \in 1..Len(toks) :
               /\ NewRows(m, before, toks)[i].tok = toks[i]
               /\ NewRows(m, before, toks)[i].h =
                     IF i = 1 THEN m.pending ELSE before \o Prefix(toks, i - 1)
  <1> DEFINE h(i) == IF i = 1 THEN m.pending ELSE before \o Prefix(toks, i - 1)
  <1>1. ASSUME NEW i \in 1..Len(toks)
        PROVE  toks[i] \in Token /\ h(i) \in Context
    <2>1. toks[i] \in Token
      BY DEF Context
    <2>2. i - 1 \in Nat
      OBVIOUS
    <2>3. Prefix(toks, i - 1) \in Seq(Token)
      BY <2>2, PrefixFields DEF Context
    <2>4. before \o Prefix(toks, i - 1) \in Seq(Token)
      BY <2>3 DEF Context
    <2> QED
      BY <2>1, <2>4, MirrorFields DEF Context
  <1> DEFINE f == [i \in 1..Len(toks) |-> [tok |-> toks[i], h |-> h(i)]]
  <1>2. NewRows(m, before, toks) = f
    BY DEF NewRows
  <1>3. \A i \in 1..Len(toks) : [tok |-> toks[i], h |-> h(i)] \in Row
    BY <1>1 DEF Row
  <1>4. f \in [1..Len(toks) -> Row]
    BY <1>3
  <1>5. \A i \in 1..Len(toks) : f[i] = [tok |-> toks[i], h |-> h(i)]
    OBVIOUS
  <1>6. Len(toks) \in Nat /\ Len(toks) \in Int
    BY DEF Context
  <1> HIDE DEF f
  <1>7. f \in Seq(Row)
    BY <1>4, <1>6, IntervalSeq
  <1>8. DOMAIN f = 1..Len(f) /\ DOMAIN f = 1..Len(toks) /\ Len(f) \in Nat
    BY <1>4, <1>7, LenProperties
  <1>9. Len(f) = Len(toks)
    BY <1>6, <1>8
  <1>10. ASSUME NEW i \in 1..Len(toks)
         PROVE  f[i].tok = toks[i] /\ f[i].h = h(i)
    <2>1. f[i] = [tok |-> toks[i], h |-> h(i)]
      BY <1>5
    <2> HIDE DEF h
    <2> QED
      BY <2>1
  <1> QED
    BY <1>2, <1>7, <1>9, <1>10

\* A mirror that covers the context covers what is decoded behind it.
LEMMA ProcessedFields ==
  ASSUME NEW m \in AnyMirror, NEW before \in Context, NEW toks \in Context,
         m.valid => Len(m.rows) >= Len(before),
         NEW m2, m2 = Processed(m, before, toks)
  PROVE  /\ m2 \in AnyMirror /\ m2.valid = m.valid /\ m2.exhausted = m.exhausted
         /\ ~m.valid => m2 = m
         /\ m.valid =>
              /\ Len(m2.rows) = Len(before) + Len(toks)
              /\ m2.pos = Len(before) + Len(toks) - 1
              /\ m2.pending = before \o toks
              /\ \A p \in 1..Len(before) : m2.rows[p] = m.rows[p]
              /\ \A p \in 1..Len(toks) :
                    m2.rows[Len(before) + p] = NewRows(m, before, toks)[p]
  <1>1. CASE ~m.valid
    BY <1>1 DEF Processed
  <1>2. CASE m.valid
    <2> DEFINE kept == KeptRows(m, before)
               new == NewRows(m, before, toks)
    <2>1. Len(before) \in Nat /\ Len(toks) \in Nat /\ m.rows \in Seq(Row)
      BY MirrorFields DEF Context
    <2>2. /\ kept \in Seq(Row) /\ Len(kept) = Len(before)
          /\ \A p \in 1..Len(before) : kept[p] = m.rows[p]
      BY <1>2, <2>1, PrefixFields DEF KeptRows
    <2>3. new \in Seq(Row) /\ Len(new) = Len(toks)
      BY NewRowsFields
    <2>4. m2 = [m EXCEPT !.rows = kept \o new, !.pos = Len(before) + Len(toks) - 1,
                         !.origin = TRUE, !.pending = before \o toks]
      BY <1>2, <2>2 DEF Processed, PendingOf
    <2> HIDE DEF kept, new
    <2>5. m2 = [rows |-> kept \o new, pos |-> Len(before) + Len(toks) - 1, origin |-> TRUE,
                pending |-> before \o toks, valid |-> m.valid, exhausted |-> m.exhausted]
      BY <2>4, MirrorFields
    <2>6. kept \o new \in Seq(Row) /\ Len(kept \o new) = Len(before) + Len(toks)
      BY <2>2, <2>3
    <2>7. /\ \A p \in 1..Len(before) : (kept \o new)[p] = m.rows[p]
          /\ \A p \in 1..Len(toks) : (kept \o new)[Len(before) + p] = new[p]
      BY <2>1, <2>2, <2>3
    <2>8. before \o toks \in Context
      BY DEF Context
    <2>9. m2 \in AnyMirror
      BY <2>1, <2>5, <2>6, <2>8, MirrorFields DEF AnyMirror
    <2> QED
      BY <1>2, <2>5, <2>6, <2>7, <2>9 DEF new
  <1> QED
    BY <1>1, <1>2, MirrorFields

\* What is owed is one row or none.
LEMMA OwedRange ==
  ASSUME NEW m, NEW ctx
  PROVE  Owed(m, ctx) \in Int /\ Owed(m, ctx) >= 0 /\ Owed(m, ctx) <= 1
  BY DEF Owed

\* A row of the batch is off only if it is the first one and a heal was owed.
LEMMA NewRowOff ==
  ASSUME NEW m \in AnyMirror, NEW before \in Context, NEW toks \in Context,
         NEW i \in 1..Len(toks),
         NewRows(m, before, toks)[i].h # Prefix(before \o toks, Len(before) + i - 1)
  PROVE  i = 1 /\ m.pending # before
  <1>1. Len(before) \in Nat /\ Len(toks) \in Nat /\ before \in Seq(Token) /\ toks \in Seq(Token)
    BY DEF Context
  <1> DEFINE ctx == before \o toks
  <1>2. ctx \in Seq(Token) /\ Len(ctx) = Len(before) + Len(toks)
    BY <1>1
  <1>3. CASE i = 1
    <2>1. \A p \in 1..Len(before) : ctx[p] = before[p]
      BY <1>1
    <2> HIDE DEF ctx
    <2>2. Len(before) <= Len(ctx)
      BY <1>1, <1>2
    <2>3. Prefix(ctx, Len(before)) = before
      <3>1. /\ Prefix(ctx, Len(before)) \in Seq(Token)
            /\ Len(Prefix(ctx, Len(before))) = Len(before)
            /\ \A p \in 1..Len(before) : Prefix(ctx, Len(before))[p] = ctx[p]
        BY <1>1, <1>2, <2>2, PrefixFields
      <3> QED
        BY <1>1, <2>1, <3>1, SeqEqual
    <2>4. Len(before) + i - 1 = Len(before)
      BY <1>1, <1>3
    <2>5. NewRows(m, before, toks)[i].h = m.pending
      BY <1>3, NewRowsFields
    <2> QED
      BY <1>3, <2>3, <2>4, <2>5 DEF ctx
  <1>4. CASE i # 1
    <2> DEFINE k == i - 1
               part == Prefix(toks, k)
               s == before \o part
               e == Len(before) + k
               t == Prefix(ctx, e)
    <2>1. k \in Nat /\ k <= Len(toks) /\ e \in Nat
      BY <1>1
    <2>2. /\ part \in Seq(Token) /\ Len(part) = k
          /\ \A p \in 1..k : part[p] = toks[p]
      <3> HIDE DEF k
      <3> QED
        BY <1>1, <2>1, PrefixFields
    <2>3. /\ t \in Seq(Token) /\ Len(t) = e
          /\ \A p \in 1..e : t[p] = ctx[p]
      <3>1. e <= Len(ctx)
        BY <1>1, <1>2, <2>1
      <3> HIDE DEF e, ctx
      <3> QED
        BY <1>2, <2>1, <3>1, PrefixFields
    <2>4. /\ s \in Seq(Token) /\ Len(s) = e
          /\ \A p \in 1..e : s[p] = ctx[p]
      <3> HIDE DEF part, k
      <3> QED
        BY <1>1, <2>1, <2>2, SMTT(20)
    <2>5. s = t
      <3> HIDE DEF s, t, e
      <3> QED
        BY <2>3, <2>4, SeqEqual
    <2>6. NewRows(m, before, toks)[i].h = s
      BY <1>4, NewRowsFields
    <2>7. Len(before) + i - 1 = e
      BY <1>1
    <2> QED
      BY <2>5, <2>6, <2>7
  <1> QED
    BY <1>3, <1>4

\* A decode pays what is owed: the mirror stays as faithful as it was.
LEMMA LiveProcessed ==
  ASSUME NEW m \in AnyMirror, NEW before \in Context, NEW toks \in Context, NEW k \in Int,
         m.valid => Len(m.rows) >= Len(before), Live(m, before, k),
         NEW m2, m2 = Processed(m, before, toks)
  PROVE  Live(m2, before \o toks, k)
  <1> DEFINE n == Len(before)
             ctx == before \o toks
             old == Off(m.rows, before, n)
             new == Off(m2.rows, ctx, Len(ctx))
  <1>0. SUFFICES ASSUME m.valid
                 PROVE  Faithful(m2.rows, ctx, Len(ctx), k - Owed(m2, ctx))
    BY ProcessedFields DEF Live
  <1>1. /\ Len(before) \in Nat /\ Len(toks) \in Nat
        /\ before \in Seq(Token) /\ toks \in Seq(Token) /\ m.rows \in Seq(Row)
    BY MirrorFields DEF Context
  <1>2. ctx \in Seq(Token) /\ Len(ctx) = n + Len(toks)
    BY <1>1
  <1>3. /\ Len(m2.rows) = n + Len(toks) /\ m2.pending = ctx
        /\ \A p \in 1..n : m2.rows[p] = m.rows[p]
        /\ \A p \in 1..Len(toks) : m2.rows[n + p] = NewRows(m, before, toks)[p]
    BY <1>0, ProcessedFields, SMTT(20)
  <1>4. Owed(m2, ctx) = 0
    BY <1>3 DEF Owed
  <1>5. /\ \A p \in 1..n : m.rows[p].tok = before[p]
        /\ Cardinality(old) <= k - Owed(m, before)
    BY <1>0 DEF Live, Faithful
  <1>6. ASSUME NEW p \in 1..Len(ctx)
        PROVE  \/ p \in 1..n
               \/ \E i \in 1..Len(toks) : p = n + i
    <2>1. p - n \in Int /\ p = n + (p - n) /\ p \in Int
      BY <1>1, <1>2
    <2>2. p \in 1..n \/ p - n \in 1..Len(toks)
      BY <1>1, <1>2
    <2> QED
      BY <2>1, <2>2
  <1>7. ASSUME NEW p \in 1..Len(ctx)
        PROVE  m2.rows[p].tok = ctx[p]
    <2>1. CASE p \in 1..n
      BY <1>1, <1>3, <1>5, <2>1
    <2>2. CASE \E i \in 1..Len(toks) : p = n + i
      <3>1. PICK i \in 1..Len(toks) : p = n + i
        BY <2>2
      <3>2. ctx[n + i] = toks[i]
        BY <1>1
      <3> QED
        BY <1>3, <3>1, <3>2, NewRowsFields
    <2> QED
      BY <1>6, <2>1, <2>2
  <1>8. ASSUME NEW p \in 1..n
        PROVE  Prefix(ctx, p - 1) = Prefix(before, p - 1)
    <2>1. \A i \in 1..n : ctx[i] = before[i]
      BY <1>1
    <2>2. p - 1 \in 0..n /\ n <= Len(ctx) /\ n <= Len(before) /\ n \in Nat
      BY <1>1, <1>2
    <2> HIDE DEF ctx, n
    <2> QED
      BY <1>1, <1>2, <2>1, <2>2, PrefixAgree
  <1>9. new \subseteq IF m.pending = before THEN old ELSE old \cup {n + 1}
    <2> SUFFICES ASSUME NEW p \in 1..Len(ctx), m2.rows[p].h # Prefix(ctx, p - 1)
                 PROVE  p \in old \/ (p = n + 1 /\ m.pending # before)
      BY DEF Off
    <2>1. CASE p \in 1..n
      BY <1>3, <1>8, <2>1 DEF Off
    <2>2. CASE \E i \in 1..Len(toks) : p = n + i
      <3>1. PICK i \in 1..Len(toks) : p = n + i
        BY <2>2
      <3>2. NewRows(m, before, toks)[i].h # Prefix(ctx, n + i - 1)
        BY <1>3, <3>1
      <3>3. i = 1 /\ m.pending # before
        BY <3>2, NewRowOff
      <3> QED
        BY <3>1, <3>3
    <2> QED
      BY <1>6, <2>1, <2>2
  <1>10. /\ IsFiniteSet(old) /\ Cardinality(old) \in Nat
         /\ IsFiniteSet(new) /\ Cardinality(new) \in Nat
    BY <1>1, <1>2, OffFinite, n \in Int, Len(ctx) \in Int
  <1>11. Cardinality(new) <= k
    <2> HIDE DEF old, new
    <2>1. CASE m.pending = before
      <3>1. Cardinality(new) <= Cardinality(old)
        BY <1>9, <1>10, <2>1, FS_Subset
      <3> QED
        BY <1>5, <1>10, <2>1, <3>1, OwedRange
    <2>2. CASE m.pending # before
      <3>1. /\ IsFiniteSet(old \cup {n + 1})
            /\ Cardinality(old \cup {n + 1}) \in {Cardinality(old), Cardinality(old) + 1}
        BY <1>10, FS_AddElement
      <3>2. Cardinality(new) <= Cardinality(old \cup {n + 1})
        BY <1>9, <2>2, <3>1, FS_Subset
      <3>3. Owed(m, before) = 1
        BY <2>2 DEF Owed
      <3> QED
        BY <1>5, <1>10, <3>1, <3>2, <3>3
    <2> QED
      BY <2>1, <2>2
  <1>12. k - Owed(m2, ctx) = k
    BY <1>4
  <1> QED
    BY <1>2, <1>3, <1>7, <1>11, <1>12 DEF Faithful

\* A mirror, and what its fields are.
IsMirror(m, rows, pos, pending, valid, exhausted) ==
    /\ m \in AnyMirror /\ m.rows = rows /\ m.pos = pos /\ m.pending = pending
    /\ (m.valid <=> valid) /\ (m.exhausted <=> exhausted)

\* Speculation goes off or on.
LEMMA MirrorFlags ==
  ASSUME NEW m \in AnyMirror, NEW v \in BOOLEAN, NEW e \in BOOLEAN
  PROVE  /\ IsMirror([m EXCEPT !.valid = v], m.rows, m.pos, m.pending, v, m.exhausted)
         /\ IsMirror([m EXCEPT !.valid = v, !.exhausted = e], m.rows, m.pos, m.pending, v, e)
  <1>1. /\ [m EXCEPT !.valid = v] \in AnyMirror
        /\ [m EXCEPT !.valid = v, !.exhausted = e] \in AnyMirror
    BY DEF AnyMirror
  <1> QED
    BY <1>1 DEF AnyMirror, IsMirror

\* The mirror gets other rows.
LEMMA MirrorRows ==
  ASSUME NEW m \in AnyMirror, NEW r \in Seq(Row), NEW v \in BOOLEAN
  PROVE  /\ IsMirror([m EXCEPT !.rows = r], r, m.pos, m.pending, m.valid, m.exhausted)
         /\ IsMirror([m EXCEPT !.rows = r, !.valid = v], r, m.pos, m.pending, v, m.exhausted)
  <1>1. /\ [m EXCEPT !.rows = r] \in AnyMirror
        /\ [m EXCEPT !.rows = r, !.valid = v] \in AnyMirror
    BY DEF AnyMirror
  <1> QED
    BY <1>1 DEF AnyMirror, IsMirror

\* A mirror is what it is.
LEMMA MirrorItself ==
  ASSUME NEW m \in AnyMirror
  PROVE  IsMirror(m, m.rows, m.pos, m.pending, m.valid, m.exhausted)
  BY DEF IsMirror

\* Turning speculation off or on leaves the rows alone.
LEMMA FlagFields ==
  ASSUME NEW m \in AnyMirror, NEW low \in BOOLEAN, NEW target \in Int
  PROVE  /\ IsMirror(Invalid(m), m.rows, m.pos, m.pending, FALSE, m.exhausted)
         /\ IsMirror(InvalidExhausted(m), m.rows, m.pos, m.pending, FALSE,
                     m.valid \/ m.exhausted)
         /\ IsMirror(Noted(m, low), m.rows, m.pos, m.pending, m.valid /\ ~low, m.exhausted)
         /\ IsMirror(Rearmed(m, target), m.rows, m.pos, m.pending,
                     m.valid \/ (m.exhausted /\ target <= m.pos + 1),
                     m.exhausted /\ (m.valid \/ target > m.pos + 1))
  <1>1. m.valid \in BOOLEAN /\ m.exhausted \in BOOLEAN /\ m.pos \in Int
    BY MirrorFields
  <1>2. IsMirror(m, m.rows, m.pos, m.pending, m.valid, m.exhausted)
    BY MirrorItself
  <1>3. IsMirror([m EXCEPT !.valid = FALSE], m.rows, m.pos, m.pending, FALSE, m.exhausted)
    BY MirrorFlags
  <1>4. /\ IsMirror([m EXCEPT !.valid = FALSE, !.exhausted = TRUE], m.rows, m.pos, m.pending,
                    FALSE, TRUE)
        /\ IsMirror([m EXCEPT !.valid = TRUE, !.exhausted = FALSE], m.rows, m.pos, m.pending,
                    TRUE, FALSE)
    BY MirrorFlags
  <1>5. IsMirror(InvalidExhausted(m), m.rows, m.pos, m.pending, FALSE, m.valid \/ m.exhausted)
    BY <1>1, <1>2, <1>4 DEF InvalidExhausted, IsMirror
  <1>6. IsMirror(Noted(m, low), m.rows, m.pos, m.pending, m.valid /\ ~low, m.exhausted)
    BY <1>1, <1>2, <1>3 DEF Noted, Invalid, IsMirror
  <1>7. IsMirror(Rearmed(m, target), m.rows, m.pos, m.pending,
                 m.valid \/ (m.exhausted /\ target <= m.pos + 1),
                 m.exhausted /\ (m.valid \/ target > m.pos + 1))
    BY <1>1, <1>2, <1>4 DEF Rearmed, IsMirror
  <1> QED
    BY <1>3, <1>5, <1>6, <1>7 DEF Invalid

\* The rows of a chain of drafts go behind the mirror's last row.
LEMMA ChainFields ==
  ASSUME MirrorAssumption, NEW m \in AnyMirror, NEW drafts \in Context,
         Len(drafts) = DraftLen,
         NEW m2, m2 = [m EXCEPT !.rows = @ \o ChainRows(m, drafts), !.valid = ChainFits(m)]
  PROVE  /\ IsMirror(m2, m.rows \o ChainRows(m, drafts), m.pos, m.pending, ChainFits(m),
                     m.exhausted)
         /\ Len(m2.rows) \in Nat /\ Len(m2.rows) >= Len(m.rows)
         /\ \A p \in 1..Len(m.rows) : (m.rows \o ChainRows(m, drafts))[p] = m.rows[p]
  <1> DEFINE k == Min({Len(drafts) - 1, NCtx - Len(m.rows)})
             chain == ChainRows(m, drafts)
  <1>1. Len(m.rows) \in Nat /\ m.rows \in Seq(Row) /\ Len(drafts) \in Nat /\ NCtx \in Nat
    BY MirrorFields, MirrorAssumption DEF Context
  <1>2. Len(drafts) - 1 \in Int /\ NCtx - Len(m.rows) \in Int
    BY <1>1
  <1>3. k \in Int /\ k <= Len(drafts)
    <2>1. k = IF Len(drafts) - 1 <= NCtx - Len(m.rows)
              THEN Len(drafts) - 1 ELSE NCtx - Len(m.rows)
      BY <1>2, LesserOf
    <2> QED
      BY <1>1, <1>2, <2>1
  <1>4. \A i \in 1..k : i \in 1..Len(drafts)
    BY <1>1, <1>3
  <1>5. \A i \in 1..k : [tok |-> drafts[i], h |-> <<>>] \in Row
    BY <1>4 DEF Row, Context
  <1>6. chain \in [1..k -> Row]
    BY <1>5 DEF ChainRows
  <1> HIDE DEF k
  <1>7. chain \in Seq(Row)
    <2> HIDE DEF chain
    <2> QED
      BY <1>3, <1>6, IntervalSeq
  <1>8. /\ m.rows \o chain \in Seq(Row) /\ Len(m.rows \o chain) \in Nat
        /\ Len(m.rows \o chain) >= Len(m.rows)
        /\ \A p \in 1..Len(m.rows) : (m.rows \o chain)[p] = m.rows[p]
    <2> HIDE DEF chain
    <2> QED
      BY <1>1, <1>7
  <1>9. ChainFits(m) \in BOOLEAN
    BY DEF ChainFits
  <1>10. IsMirror(m2, m.rows \o chain, m.pos, m.pending, ChainFits(m), m.exhausted)
    <2> DEFINE rows == m.rows \o chain
               fits == ChainFits(m)
    <2>1. m2 = [m EXCEPT !.rows = rows, !.valid = fits]
      OBVIOUS
    <2>2. rows \in Seq(Row) /\ fits \in BOOLEAN
      BY <1>8, <1>9
    <2> HIDE DEF rows, fits
    <2>3. IsMirror(m2, rows, m.pos, m.pending, fits, m.exhausted)
      BY <2>1, <2>2, MirrorRows, ZenonT(30)
    <2> QED
      BY <2>3 DEF rows, fits
  <1> QED
    BY <1>8, <1>10 DEF IsMirror

\* The mirror of a cached entry.
LEMMA LoadedFields ==
  ASSUME NEW m \in AnyMirror, NEW rows \in Seq(Row), rows # <<>>
  PROVE  /\ IsMirror(Loaded(m, rows), rows, Len(rows) - 1, m.pending, TRUE, FALSE)
         /\ Len(rows) - 1 >= 0
  <1>1. Len(rows) \in Nat /\ Len(rows) # 0 /\ Len(rows) - 1 \in Int
    OBVIOUS
  <1> QED
    <2> DEFINE p == Len(rows) - 1
               m2 == [m EXCEPT !.rows = rows, !.pos = p, !.origin = FALSE,
                               !.valid = TRUE, !.exhausted = FALSE]
    <2>1. p \in Int /\ p >= 0
      BY <1>1
    <2> HIDE DEF p
    <2>2. m2 \in AnyMirror
      BY <2>1 DEF AnyMirror
    <2>3. IsMirror(m2, rows, p, m.pending, TRUE, FALSE)
      BY <2>1, <2>2 DEF AnyMirror, IsMirror
    <2>4. Loaded(m, rows) = m2
      BY DEF Loaded, p
    <2> QED
      BY <2>1, <2>3, <2>4 DEF p

\* A mirror that is given up with its rows.
LEMMA EmptiedFields ==
  ASSUME NEW m \in AnyMirror
  PROVE  IsMirror(Invalid([m EXCEPT !.rows = <<>>]), <<>>, m.pos, m.pending, FALSE,
                  m.exhausted)
  <1> DEFINE m2 == [m EXCEPT !.rows = <<>>]
  <1>1. <<>> \in Seq(Row)
    OBVIOUS
  <1>2. IsMirror(m2, <<>>, m.pos, m.pending, m.valid, m.exhausted)
    BY <1>1, MirrorRows
  <1> HIDE DEF m2
  <1>3. IsMirror(Invalid(m2), m2.rows, m2.pos, m2.pending, FALSE, m2.exhausted)
    <2>1. m2 \in AnyMirror /\ TRUE \in BOOLEAN /\ 0 \in Int
      BY <1>2 DEF IsMirror
    <2> QED
      BY <2>1, FlagFields
  <1> QED
    BY <1>2, <1>3 DEF IsMirror, m2

\* A clear, and a context decoded from nothing.
LEMMA ClearedFields ==
  ASSUME NEW toks \in Context
  PROVE  /\ Cleared \in AnyMirror /\ Cleared.rows = <<>> /\ Cleared.pos = -1
         /\ Cleared.valid /\ ~Cleared.exhausted
         /\ Live(Cleared, <<>>, 0)
         /\ Processed(Cleared, <<>>, toks) \in AnyMirror
         /\ Processed(Cleared, <<>>, toks).valid
         /\ ~Processed(Cleared, <<>>, toks).exhausted
         /\ Len(Processed(Cleared, <<>>, toks).rows) = Len(toks)
         /\ Processed(Cleared, <<>>, toks).pos = Len(toks) - 1
         /\ Live(Processed(Cleared, <<>>, toks), toks, 0)
  <1>1. <<>> \in Seq(Row) /\ <<>> \in Context /\ Len(<<>>) = 0 /\ -1 \in Int
    BY DEF Context
  <1>2. /\ Cleared \in AnyMirror /\ Cleared.rows = <<>> /\ Cleared.pos = -1
        /\ Cleared.valid /\ ~Cleared.exhausted /\ Cleared.pending = <<>>
    BY <1>1 DEF Cleared, AnyMirror
  <1>3. Live(Cleared, <<>>, 0)
    <2>1. Off(<<>>, <<>>, 0) = {}
      BY DEF Off
    <2>2. Cardinality(Off(<<>>, <<>>, 0)) = 0
      BY <2>1, FS_EmptySet
    <2>3. Owed(Cleared, <<>>) = 0
      BY <1>2 DEF Owed
    <2>4. Faithful(<<>>, <<>>, 0, 0)
      BY <1>1, <2>2 DEF Faithful
    <2> QED
      BY <1>1, <1>2, <2>3, <2>4 DEF Live
  <1>4. <<>> \o toks = toks
    BY DEF Context
  <1>5. Live(Processed(Cleared, <<>>, toks), toks, 0)
    <2>1. Live(Processed(Cleared, <<>>, toks), <<>> \o toks, 0)
      <3>1. Len(Cleared.rows) >= Len(<<>>) /\ 0 \in Int
        BY <1>1, <1>2
      <3> QED
        BY <1>1, <1>2, <1>3, <3>1, LiveProcessed
    <2> QED
      BY <1>4, <2>1
  <1>6. Len(toks) \in Nat
    BY DEF Context
  <1> QED
    BY <1>1, <1>2, <1>3, <1>5, <1>6, ProcessedFields
-----------------------------------------------------------------------------
\* The inputs of the actions.

LEMMA InputTypes ==
  ASSUME MirrorAssumption
  PROVE  /\ \A toks \in Batches : toks \in Context /\ Len(toks) \in Nat /\ Len(toks) > 0
         /\ \A drafts \in [1..DraftLen -> Token] :
               drafts \in Context /\ Len(drafts) = DraftLen
         /\ \A note \in [1..1 -> Token] : note # <<>>
         /\ DraftLen \in Nat /\ DraftLen > 0 /\ NCtx \in Nat /\ MaxFeed \in Nat
  <1>1. DraftLen \in Nat /\ DraftLen > 0 /\ NCtx \in Nat /\ MaxFeed \in Nat
    BY DEF MirrorAssumption
  <1>2. ASSUME NEW n \in Nat, NEW f \in [1..n -> Token]
        PROVE  f \in Context /\ Len(f) = n
    <2>1. f \in Seq(Token)
      BY IntervalSeq, n \in Int
    <2>2. DOMAIN f = 1..Len(f) /\ Len(f) \in Nat
      BY <2>1, LenProperties
    <2>3. DOMAIN f = 1..n
      OBVIOUS
    <2>4. Len(f) = n
      BY <2>2, <2>3
    <2> QED
      BY <2>1, <2>4 DEF Context
  <1>3. ASSUME NEW toks \in Batches
        PROVE  toks \in Context /\ Len(toks) \in Nat /\ Len(toks) > 0
    <2>1. PICK n \in 1..MaxFeed : toks \in [1..n -> Token]
      BY DEF Batches
    <2>2. n \in Nat /\ n > 0
      BY <1>1
    <2> QED
      BY <1>2, <2>1, <2>2
  <1>4. ASSUME NEW note \in [1..1 -> Token]
        PROVE  note # <<>>
    <2>1. Len(note) = 1
      BY <1>2, 1 \in Nat
    <2> QED
      BY <2>1
  <1> QED
    BY <1>1, <1>2, <1>3, <1>4

-----------------------------------------------------------------------------
\* The mirror covers the main cache.

\* While nothing is decoded yet.
LEMMA CoverInit ==
  ASSUME Init
  PROVE  CoverInv
  <1>1. <<>> \in Context /\ Len(<<>>) = 0
    BY DEF Context
  <1>2. /\ Cleared \in AnyMirror /\ Cleared.rows = <<>> /\ Cleared.pos = -1
        /\ Cleared.valid /\ ~Cleared.exhausted
    BY <1>1, ClearedFields
  <1>3. Types
    BY <1>1, <1>2 DEF Init, Types, Rounds, NoRound
  <1>4. Status
    BY <1>1, <1>2 DEF Init, Status, NoRound
  <1>5. CoversMain
    BY <1>1, <1>2 DEF Init, CoversMain
  <1> QED
    BY <1>3, <1>4, <1>5 DEF CoverInv

\* The phases a round begins and ends with.
LEMMA RoundPhases ==
  /\ NoRound \in Rounds /\ NoRound.phase = "none"
  /\ \A x \in {"none", "fed", "saved", "fresh"} :
        [NoRound EXCEPT !.phase = x] \in Rounds /\ [NoRound EXCEPT !.phase = x].phase = x
  <1>1. <<>> \in Context
    BY DEF Context
  <1>2. NoRound \in Rounds /\ NoRound.phase = "none"
    BY <1>1 DEF NoRound, Rounds
  <1>3. ASSUME NEW x \in {"none", "fed", "saved", "fresh"}
        PROVE  [NoRound EXCEPT !.phase = x] \in Rounds /\ [NoRound EXCEPT !.phase = x].phase = x
    <2>1. [NoRound EXCEPT !.phase = x] = [phase |-> x, drafts |-> <<>>]
      BY DEF NoRound
    <2> QED
      BY <1>1, <2>1 DEF Rounds
  <1> QED
    BY <1>2, <1>3

\* A decode behind the main context.
LEMMA CoverDecode ==
  ASSUME MirrorAssumption, CoverInv, NEW toks \in Context,
         main' = main \o toks, mtp' = Processed(mtp, main, toks),
         round' \in Rounds,
         round'.phase \in {"none", "fed"} \/ (mtp.valid /\ round'.phase = "verified"),
         round'.phase = "verified" => round'.drafts = toks,
         UNCHANGED <<cps, cache, heals, features>>
  PROVE  CoverInv' /\ mtp'.valid = mtp.valid
  <1>1. /\ main \in Context /\ mtp \in AnyMirror /\ Len(main) \in Nat /\ Len(toks) \in Nat
        /\ mtp.rows \in Seq(Row)
        /\ mtp.valid => Len(mtp.rows) >= Len(main)
    BY MirrorFields DEF CoverInv, Types, CoversMain, Context
  <1>2. /\ mtp' \in AnyMirror /\ mtp'.valid = mtp.valid /\ mtp'.exhausted = mtp.exhausted
        /\ ~mtp.valid => mtp' = mtp
        /\ mtp.valid => /\ Len(mtp'.rows) = Len(main) + Len(toks)
                        /\ mtp'.pos = Len(main) + Len(toks) - 1
    BY <1>1, ProcessedFields
  <1>3. main' \in Context /\ Len(main') = Len(main) + Len(toks)
    BY <1>1 DEF Context
  <1>4. Types'
    BY <1>2, <1>3 DEF CoverInv, Types
  <1>5. Status'
    BY <1>1, <1>2, <1>3 DEF CoverInv, Status
  <1>6. CoversMain'
    BY <1>1, <1>2, <1>3 DEF CoversMain
  <1> QED
    BY <1>2, <1>4, <1>5, <1>6 DEF CoverInv

\* A truncation of the main context that leaves the mirror's rows alone.
LEMMA CoverCut ==
  ASSUME CoverInv, NEW n \in Int, main' = Prefix(main, n), n >= 0,
         IsMirror(mtp', mtp.rows, mtp.pos, mtp.pending, mtp'.valid, mtp'.exhausted),
         \/ mtp'.valid => mtp.valid
         \/ mtp'.valid => n <= mtp.pos + 1 /\ mtp.exhausted,
         mtp'.exhausted => mtp.exhausted, mtp'.valid => ~mtp'.exhausted,
         round' = NoRound, cps' \in Seq(Nat), heals' \in Nat, UNCHANGED <<cache, features>>
  PROVE  CoverInv'
  <1>1. /\ main \in Context /\ mtp \in AnyMirror /\ Len(main) \in Nat
        /\ mtp.rows \in Seq(Row) /\ Len(mtp.rows) \in Nat /\ mtp.pos \in Int
    BY MirrorFields DEF CoverInv, Types, Context
  <1>2. main' \in Context /\ Len(main') \in Nat /\ Len(main') <= Len(main) /\ Len(main') <= n
    BY <1>1, PrefixFields, n \in Nat DEF Context
  <1>3. /\ mtp' \in AnyMirror /\ mtp'.rows = mtp.rows /\ mtp'.pos = mtp.pos
    BY DEF IsMirror
  <1>4. round' \in Rounds /\ round'.phase = "none"
    BY DEF NoRound, Rounds, Context
  <1>5. Types'
    BY <1>2, <1>3, <1>4 DEF CoverInv, Types
  <1>6. Status'
    BY <1>3, <1>4 DEF CoverInv, Status
  <1>7. CoversMain'
    BY <1>1, <1>2, <1>3 DEF CoverInv, Status, CoversMain
  <1> QED
    BY <1>5, <1>6, <1>7 DEF CoverInv

\* The actions that write the mirror from nothing, or as it was saved.
LEMMA CoverFresh ==
  ASSUME CoverInv, main' \in Context,
         IsMirror(mtp', mtp'.rows, mtp'.pos, mtp'.pending, TRUE, FALSE),
         Len(mtp'.rows) >= Len(main'), mtp'.pos = Len(mtp'.rows) - 1,
         \/ round' = NoRound
         \/ round' = [NoRound EXCEPT !.phase = "fresh"] /\ cps' = <<>> /\ cache' # <<>>,
         cps' \in Seq(Nat), heals' \in Nat, cache' \in Seq(AnyEntry), UNCHANGED features
  PROVE  CoverInv'
  <1>1. mtp' \in AnyMirror /\ mtp'.valid /\ ~mtp'.exhausted
    BY DEF IsMirror
  <1>2. Len(mtp'.rows) \in Nat
    BY <1>1, MirrorFields
  <1>3. /\ round' \in Rounds
        /\ round'.phase = "none" \/ (round'.phase = "fresh" /\ cps' = <<>> /\ cache' # <<>>)
    BY RoundPhases
  <1>4. Types'
    BY <1>1, <1>3 DEF CoverInv, Types
  <1>5. Status'
    BY <1>1, <1>2, <1>3 DEF CoverInv, Status
  <1>6. CoversMain'
    BY DEF CoversMain
  <1> QED
    BY <1>4, <1>5, <1>6 DEF CoverInv

\* The actions of the main context and of its rounds.
LEMMA CoverRounds ==
  ASSUME MirrorAssumption, CoverInv,
         (\E toks \in Batches : Feed(toks)) \/ FeedExhausted \/ RoundStep
  PROVE  CoverInv'
  <1>1. /\ main \in Context /\ mtp \in AnyMirror /\ Len(main) \in Nat /\ mtp.rows \in Seq(Row)
        /\ Len(mtp.rows) \in Nat /\ mtp.pos \in Int /\ mtp.valid \in BOOLEAN
        /\ round \in Rounds /\ round.drafts \in Context /\ Len(round.drafts) \in Nat
        /\ heals \in Nat /\ cps \in Seq(Nat)
    BY MirrorFields DEF CoverInv, Types, Context, Rounds
  <1>2. NoRound \in Rounds /\ NoRound.phase = "none"
    BY DEF NoRound, Rounds, Context
  <1>3. IsMirror(mtp, mtp.rows, mtp.pos, mtp.pending, mtp.valid, mtp.exhausted)
    BY <1>1, MirrorItself
  <1>4. ASSUME NEW toks \in Batches, Feed(toks)
        PROVE  CoverInv'
    <2>1. toks \in Context
      BY InputTypes
    <2>2. round' \in Rounds /\ round'.phase \in {"none", "fed"}
      BY <1>4, RoundPhases DEF Feed
    <2> QED
      BY <1>4, <2>1, <2>2, CoverDecode DEF Feed
  <1>5. ASSUME FeedExhausted
        PROVE  CoverInv'
    <2>1. IsMirror(mtp', mtp.rows, mtp.pos, mtp.pending, FALSE, mtp.valid \/ mtp.exhausted)
      BY <1>1, <1>5, FlagFields, TRUE \in BOOLEAN, 0 \in Int DEF FeedExhausted
    <2>2. /\ mtp' \in AnyMirror /\ mtp'.rows = mtp.rows /\ mtp'.pos = mtp.pos /\ ~mtp'.valid
          /\ mtp'.exhausted => mtp.valid \/ mtp.exhausted
      BY <2>1 DEF IsMirror
    <2>3. Types'
      BY <1>2, <1>5, <2>2 DEF FeedExhausted, CoverInv, Types
    <2>4. Status'
      BY <1>2, <1>5, <2>2 DEF FeedExhausted, CoverInv, Status
    <2> QED
      BY <2>2, <2>3, <2>4 DEF CoverInv, CoversMain
  <1>6. ASSUME NEW drafts \in [1..DraftLen -> Token], Draft(drafts)
        PROVE  CoverInv'
    <2>1. drafts \in Context /\ Len(drafts) = DraftLen
      BY InputTypes
    <2>2. /\ IsMirror(mtp', mtp.rows \o ChainRows(mtp, drafts), mtp.pos, mtp.pending,
                      ChainFits(mtp), mtp.exhausted)
          /\ Len(mtp'.rows) \in Nat /\ Len(mtp'.rows) >= Len(mtp.rows)
      BY <1>1, <1>6, <2>1, ChainFields DEF Draft
    <2>3. /\ mtp' \in AnyMirror /\ mtp'.pos = mtp.pos /\ (mtp'.valid <=> ChainFits(mtp))
          /\ (mtp'.exhausted <=> mtp.exhausted)
      BY <2>2 DEF IsMirror
    <2>4. mtp.valid /\ mtp.pos = Len(main) - 1 /\ ~mtp.exhausted /\ mtp.pos < Len(mtp.rows)
      BY <1>6 DEF Draft, CanDraft, CoverInv, Status
    <2>5. /\ round' \in Rounds
          /\ round'.phase = IF ChainFits(mtp) THEN "drafted" ELSE "none"
      BY <1>2, <1>6, <2>1 DEF Draft, Rounds
    <2>6. Types'
      BY <1>6, <2>3, <2>5 DEF Draft, CoverInv, Types
    <2>7. Status'
      BY <1>1, <1>6, <2>2, <2>3, <2>4, <2>5, SMTT(20) DEF Draft, CoverInv, Status
    <2>8. CoversMain'
      BY <1>1, <1>6, <2>2, <2>4 DEF Draft, CoverInv, CoversMain
    <2> QED
      BY <2>6, <2>7, <2>8 DEF CoverInv
  <1>7. ASSUME NEW low \in BOOLEAN, DropDraft(low)
        PROVE  CoverInv'
    <2>1. IsMirror(mtp', mtp.rows, mtp.pos, mtp.pending, mtp.valid /\ ~low, mtp.exhausted)
      BY <1>1, <1>7, FlagFields, 0 \in Int DEF DropDraft
    <2>2. /\ mtp' \in AnyMirror /\ mtp'.rows = mtp.rows /\ mtp'.pos = mtp.pos
          /\ (mtp'.valid => mtp.valid) /\ (mtp'.exhausted <=> mtp.exhausted)
      BY <2>1 DEF IsMirror
    <2>3. Types'
      BY <1>2, <1>7, <2>2 DEF DropDraft, CoverInv, Types
    <2>4. Status'
      BY <1>2, <1>7, <2>2 DEF DropDraft, CoverInv, Status
    <2> QED
      BY <1>7, <2>2, <2>3, <2>4 DEF DropDraft, CoverInv, CoversMain
  <1>8. ASSUME Verify
        PROVE  CoverInv'
    <2>1. mtp.valid
      BY <1>8 DEF Verify, CoverInv, Status
    <2>2. round' \in Rounds /\ round'.phase = "verified" /\ round'.drafts = round.drafts
      BY <1>1, <1>8 DEF Verify, Rounds
    <2> QED
      BY <1>1, <1>8, <2>1, <2>2, CoverDecode DEF Verify
  <1>9. ASSUME NEW low \in BOOLEAN, VerifyExhausted(low)
        PROVE  CoverInv'
    <2>1. IsMirror(InvalidExhausted(mtp), mtp.rows, mtp.pos, mtp.pending, FALSE,
                   mtp.valid \/ mtp.exhausted)
      BY <1>1, FlagFields, 0 \in Int
    <2>2. IsMirror(mtp', mtp.rows, mtp.pos, mtp.pending, FALSE, mtp.valid \/ mtp.exhausted)
      <3> DEFINE m == InvalidExhausted(mtp)
      <3>1. IsMirror(Noted(m, low), m.rows, m.pos, m.pending, m.valid /\ ~low, m.exhausted)
        <4>1. m \in AnyMirror
          BY <2>1 DEF IsMirror
        <4> HIDE DEF m
        <4> QED
          BY <4>1, FlagFields, 0 \in Int
      <3> QED
        BY <1>9, <2>1, <3>1 DEF VerifyExhausted, IsMirror
    <2>3. /\ mtp' \in AnyMirror /\ mtp'.rows = mtp.rows /\ mtp'.pos = mtp.pos /\ ~mtp'.valid
          /\ mtp'.exhausted => mtp.valid \/ mtp.exhausted
      BY <2>2 DEF IsMirror
    <2>4. Types'
      BY <1>2, <1>9, <2>3 DEF VerifyExhausted, CoverInv, Types
    <2>5. Status'
      BY <1>2, <1>9, <2>3 DEF VerifyExhausted, CoverInv, Status
    <2> QED
      BY <2>3, <2>4, <2>5 DEF CoverInv, CoversMain
  <1>10. ASSUME NEW low \in BOOLEAN, NEW n \in 1..DraftLen, Settle(n, low)
         PROVE  CoverInv'
    <2>1. IsMirror(mtp', mtp.rows, mtp.pos, mtp.pending, mtp.valid /\ ~low, mtp.exhausted)
      BY <1>1, <1>10, FlagFields, 0 \in Int DEF Settle
    <2>2. /\ IsMirror(mtp', mtp.rows, mtp.pos, mtp.pending, mtp'.valid, mtp'.exhausted)
          /\ (mtp'.valid => mtp.valid) /\ (mtp'.exhausted <=> mtp.exhausted)
      BY <2>1 DEF IsMirror
    <2>3. Len(round.drafts) <= Len(main) /\ n \in Nat
      BY <1>10, InputTypes DEF Settle, CoverInv, Status
    <2>4. /\ Len(main) - Len(round.drafts) + n \in Int
          /\ Len(main) - Len(round.drafts) + n >= 0
      BY <1>1, <2>3
    <2>5. heals' \in Nat
      BY <1>1, <1>10 DEF Settle
    <2>6. mtp'.valid => ~mtp'.exhausted
      BY <2>2 DEF CoverInv, Status
    <2> QED
      BY <1>1, <1>10, <2>2, <2>4, <2>5, <2>6, CoverCut DEF Settle
  <1> QED
    BY <1>4, <1>5, <1>6, <1>7, <1>8, <1>9, <1>10 DEF RoundStep

\* The actions of the session.
LEMMA CoverSession ==
  ASSUME MirrorAssumption, NoNotes, CoverInv, SessionStep
  PROVE  CoverInv'
  <1>1. /\ main \in Context /\ mtp \in AnyMirror /\ Len(main) \in Nat /\ mtp.rows \in Seq(Row)
        /\ Len(mtp.rows) \in Nat /\ mtp.pos \in Int /\ mtp.valid \in BOOLEAN
        /\ heals \in Nat /\ cps \in Seq(Nat) /\ cache \in Seq(AnyEntry)
    BY MirrorFields DEF CoverInv, Types, Context
  <1>2. NoRound \in Rounds /\ NoRound.phase = "none"
    BY DEF NoRound, Rounds, Context
  <1>3. IsMirror(mtp, mtp.rows, mtp.pos, mtp.pending, mtp.valid, mtp.exhausted)
    BY <1>1, MirrorItself
  <1>4. mtp.valid => ~mtp.exhausted
    BY DEF CoverInv, Status
  <1>5. ASSUME Checkpoint
        PROVE  CoverInv'
    <2>1. cps' \in Seq(Nat)
      BY <1>1, <1>5 DEF Checkpoint
    <2>2. Types'
      BY <1>2, <1>5, <2>1 DEF Checkpoint, CoverInv, Types
    <2>3. Status'
      BY <1>2, <1>5 DEF Checkpoint, CoverInv, Status
    <2> QED
      BY <1>5, <2>2, <2>3 DEF Checkpoint, CoverInv, CoversMain
  <1>6. ASSUME ClearSession
        PROVE  CoverInv'
    <2>1. <<>> \in Context /\ <<>> \in Seq(Nat) /\ <<>> \in Seq(AnyEntry) /\ Len(<<>>) = 0
      BY DEF Context
    <2>2. /\ mtp' \in AnyMirror /\ mtp'.rows = <<>> /\ mtp'.pos = -1
          /\ mtp'.valid /\ ~mtp'.exhausted
      BY <1>6, <2>1, ClearedFields DEF ClearSession
    <2>3. IsMirror(mtp', mtp'.rows, mtp'.pos, mtp'.pending, TRUE, FALSE)
      BY <2>2 DEF IsMirror
    <2>4. Len(mtp'.rows) >= Len(main') /\ mtp'.pos = Len(mtp'.rows) - 1
      BY <1>6, <2>1, <2>2 DEF ClearSession
    <2> QED
      BY <1>6, <2>1, <2>3, <2>4, CoverFresh DEF ClearSession
  <1>7. ASSUME Save
        PROVE  CoverInv'
    <2>1. SavedRows \in Seq(Row)
      BY <1>1 DEF SavedRows
    <2>2. [tokens |-> main, rows |-> SavedRows, heals |-> heals] \in AnyEntry
      BY <1>1, <2>1 DEF AnyEntry
    <2>3. cache' \in Seq(AnyEntry) /\ cache' # <<>>
      BY <1>7, <2>2 DEF Save
    <2>4. round' \in Rounds /\ round'.phase = "saved"
      BY <1>7, RoundPhases DEF Save
    <2>5. Types'
      BY <1>7, <2>3, <2>4 DEF Save, CoverInv, Types
    <2>6. Status'
      BY <1>7, <2>3, <2>4 DEF Save, CoverInv, Status
    <2> QED
      BY <1>7, <2>5, <2>6 DEF Save, CoverInv, CoversMain
  <1>8. ASSUME Restart
        PROVE  CoverInv'
    <2>1. cache # <<>> /\ cache[1] \in AnyEntry /\ cache[1].tokens \in Seq(Token)
      <3>1. cache # <<>>
        BY <1>8 DEF Restart, CoverInv, Status
      <3>2. cache[1] \in AnyEntry
        BY <1>1, <3>1
      <3> QED
        BY <3>1, <3>2 DEF AnyEntry, Context
    <2>2. main' \in Context
      BY <1>8, <2>1, PrefixFields, 1 \in Nat DEF Restart, Context
    <2>3. Len(main') \in Nat /\ <<>> \in Seq(Nat) /\ 0 \in Nat
      BY <2>2 DEF Context
    <2>4. /\ mtp' \in AnyMirror /\ mtp'.valid /\ ~mtp'.exhausted
          /\ Len(mtp'.rows) = Len(main') /\ mtp'.pos = Len(main') - 1
      BY <1>8, <2>2, ClearedFields DEF Restart
    <2>5. IsMirror(mtp', mtp'.rows, mtp'.pos, mtp'.pending, TRUE, FALSE)
      BY <2>4 DEF IsMirror
    <2>6. Len(mtp'.rows) >= Len(main') /\ mtp'.pos = Len(mtp'.rows) - 1
      BY <2>3, <2>4
    <2> QED
      BY <1>1, <1>8, <2>1, <2>2, <2>3, <2>5, <2>6, CoverFresh DEF Restart
  <1>9. ASSUME NEW n \in 0..NCtx, Correct(n)
        PROVE  CoverInv'
    <2>1. n \in Int /\ n >= 0
      BY InputTypes
    <2>2. mtp' = mtp /\ heals' \in Nat /\ cps' \in Seq(Nat)
      BY <1>1, <1>9 DEF Correct
    <2> QED
      BY <1>3, <1>4, <1>9, <2>1, <2>2, CoverCut DEF Correct
  <1>10. ASSUME NEW sel \in 1..NCtx, UndoFast(sel)
         PROVE  CoverInv'
    <2>1. sel \in 1..Len(cps) /\ cps[sel] \in Nat /\ sel \in Nat
      BY <1>1, <1>10, InputTypes DEF UndoFast, Undoable
    <2>2. cps' \in Seq(Nat)
      BY <1>1, <1>10, <2>1, PrefixFields DEF UndoFast
    <2>3. IsMirror(mtp', mtp.rows, mtp.pos, mtp.pending,
                   mtp.valid \/ (mtp.exhausted /\ cps[sel] <= mtp.pos + 1),
                   mtp.exhausted /\ (mtp.valid \/ cps[sel] > mtp.pos + 1))
      BY <1>1, <1>10, <2>1, FlagFields, TRUE \in BOOLEAN, cps[sel] \in Int DEF UndoFast
    <2>4. /\ IsMirror(mtp', mtp.rows, mtp.pos, mtp.pending, mtp'.valid, mtp'.exhausted)
          /\ \/ mtp'.valid => mtp.valid
             \/ mtp'.valid => cps[sel] <= mtp.pos + 1 /\ mtp.exhausted
          /\ mtp'.exhausted => mtp.exhausted
          /\ mtp'.valid => ~mtp'.exhausted
      BY <1>1, <1>4, <2>1, <2>3 DEF IsMirror
    <2>5. heals' \in Nat /\ cps[sel] \in Int /\ cps[sel] >= 0
      BY <1>1, <1>10, <2>1 DEF UndoFast
    <2> QED
      BY <1>10, <2>2, <2>4, <2>5, CoverCut DEF UndoFast
  <1>11. ASSUME NEW sel \in 1..NCtx, UndoSlow(sel)
         PROVE  CoverInv'
    <2>1. sel \in 1..Len(cps) /\ cps[sel] \in Nat /\ sel \in Nat
      BY <1>1, <1>11, InputTypes DEF UndoSlow, Undoable
    <2>2. cps' \in Seq(Nat) /\ main' \in Context
      BY <1>1, <1>11, <2>1, PrefixFields DEF UndoSlow, Context
    <2>3. Len(main') \in Nat /\ 0 \in Nat
      BY <2>2 DEF Context
    <2>4. /\ mtp' \in AnyMirror /\ mtp'.valid /\ ~mtp'.exhausted
          /\ Len(mtp'.rows) = Len(main') /\ mtp'.pos = Len(main') - 1
      BY <1>11, <2>2, ClearedFields DEF UndoSlow
    <2>5. IsMirror(mtp', mtp'.rows, mtp'.pos, mtp'.pending, TRUE, FALSE)
      BY <2>4 DEF IsMirror
    <2>6. Len(mtp'.rows) >= Len(main') /\ mtp'.pos = Len(mtp'.rows) - 1
      BY <2>3, <2>4
    <2> QED
      BY <1>1, <1>11, <2>2, <2>3, <2>5, <2>6, CoverFresh DEF UndoSlow
  <1>12. ASSUME NEW note \in {<<>>} \cup [1..1 -> Token], Load(note)
         PROVE  CoverInv'
    <2> DEFINE entry == cache[1]
    <2>1. note = <<>>
      BY <1>12, InputTypes DEF Load, NoNotes, CoverInv, Types
    <2>2. /\ cache # <<>> /\ mtp.valid /\ ~mtp.exhausted
      BY <1>12 DEF Load, CoverInv, Status
    <2>3. entry \in AnyEntry
      BY <1>1, <2>2
    <2>4. /\ entry.tokens \in Context /\ entry.rows \in Seq(Row) /\ entry.heals \in Nat
          /\ Len(entry.tokens) \in Nat
      BY <2>3 DEF AnyEntry, Context
    <2>5. main' = entry.tokens /\ cps' \in Seq(Nat) /\ heals' \in Nat /\ round' = NoRound
      <3>1. entry.tokens \o <<>> = entry.tokens
        BY <2>4 DEF Context
      <3> QED
        BY <1>12, <2>1, <2>4, <3>1 DEF Load
    <2> HIDE DEF entry
    <2>6. CASE Usable(cache[1])
      <3>1. entry.rows # <<>> /\ Len(entry.rows) >= Len(entry.tokens)
        BY <2>6 DEF Usable, entry
      <3>2. mtp' = Loaded(mtp, entry.rows)
        BY <1>12, <2>6 DEF Load, entry
      <3>3. IsMirror(mtp', entry.rows, Len(entry.rows) - 1, mtp.pending, TRUE, FALSE)
        BY <1>1, <2>4, <3>1, <3>2, LoadedFields
      <3>4. /\ IsMirror(mtp', mtp'.rows, mtp'.pos, mtp'.pending, TRUE, FALSE)
            /\ Len(mtp'.rows) >= Len(main') /\ mtp'.pos = Len(mtp'.rows) - 1
        BY <2>5, <3>1, <3>3 DEF IsMirror
      <3> QED
        BY <1>1, <1>12, <2>4, <2>5, <3>4, CoverFresh DEF Load
    <2>7. CASE ~Usable(cache[1])
      <3>1. \/ mtp' = Invalid([mtp EXCEPT !.rows = <<>>])
            \/ mtp' = Invalid(mtp)
        BY <1>12, <2>7 DEF Load
      <3>2. \/ IsMirror(mtp', <<>>, mtp.pos, mtp.pending, FALSE, mtp.exhausted)
            \/ IsMirror(mtp', mtp.rows, mtp.pos, mtp.pending, FALSE, mtp.exhausted)
        <4>1. IsMirror(Invalid(mtp), mtp.rows, mtp.pos, mtp.pending, FALSE, mtp.exhausted)
          BY <1>1, FlagFields, TRUE \in BOOLEAN, 0 \in Int
        <4> QED
          BY <1>1, <3>1, <4>1, EmptiedFields
      <3>3. mtp' \in AnyMirror /\ ~mtp'.valid /\ ~mtp'.exhausted
        BY <2>2, <3>2 DEF IsMirror
      <3>4. Types'
        BY <1>2, <1>12, <2>4, <2>5, <3>3 DEF Load, CoverInv, Types
      <3>5. Status'
        BY <1>2, <2>5, <3>3 DEF CoverInv, Status
      <3> QED
        BY <3>3, <3>4, <3>5 DEF CoverInv, CoversMain
    <2> QED
      BY <2>6, <2>7
  <1> QED
    BY <1>5, <1>6, <1>7, <1>8, <1>9, <1>10, <1>11, <1>12 DEF SessionStep

\* Whatever happens, the mirror keeps covering the main cache.
LEMMA CoverStep ==
  ASSUME MirrorAssumption, NoNotes, CoverInv, [Next]_vars
  PROVE  CoverInv'
  <1>1. CASE UNCHANGED vars
    <2>1. Types'
      BY <1>1 DEF vars, CoverInv, Types
    <2>2. Status'
      BY <1>1 DEF vars, CoverInv, Status
    <2> QED
      BY <1>1, <2>1, <2>2 DEF vars, CoverInv, CoversMain
  <1> QED
    BY <1>1, CoverRounds, CoverSession DEF Next

\* While speculation is on the mirror has a row for every cell of the main cache,
\* through drafts, rejected tokens, /undo, corrections, saves and loads (mtp.cc 268).
THEOREM MirrorCovers ==
  ASSUME NoNotes
  PROVE  Spec => []CoversMain
  <1>1. Spec => []CoverInv
    BY MirrorAssumption, CoverInit, CoverStep, PTL DEF Spec
  <1>2. CoverInv => CoversMain
    BY DEF CoverInv
  <1> QED
    BY <1>1, <1>2, PTL

\* A decode that succeeds never turns speculation off: the mirror heals at the next
\* one, whatever the desync was ("for every desync source", mtp.cc 268).
LEMMA HealStep ==
  ASSUME MirrorAssumption, NoNotes, CoverInv, [Next]_vars,
         mtp.valid, Len(main') > Len(main), cps' = cps
  PROVE  mtp'.valid
  <1>1. main \in Context /\ mtp \in AnyMirror /\ Len(main) \in Nat /\ cps \in Seq(Nat)
    BY DEF CoverInv, Types, Context
  <1>2. ASSUME NEW n \in Int, n >= 0, main' = Prefix(main, n)
        PROVE  FALSE
    <2>1. Len(Prefix(main, n)) <= Len(main) /\ Len(Prefix(main, n)) \in Nat
      BY <1>1, <1>2, PrefixFields, n \in Nat DEF Context
    <2> QED
      BY <1>1, <1>2, <2>1
  <1>3. main' # main
    BY <1>1
  <1>4. ASSUME NEW toks \in Batches, Feed(toks)
        PROVE  mtp'.valid
    <2>1. toks \in Context /\ Len(mtp.rows) >= Len(main)
      BY InputTypes DEF CoverInv, CoversMain
    <2> QED
      BY <1>1, <1>4, <2>1, ProcessedFields DEF Feed
  <1>5. ASSUME Verify
        PROVE  mtp'.valid
    <2>1. round.drafts \in Context /\ Len(mtp.rows) >= Len(main)
      BY DEF CoverInv, CoversMain, Types, Rounds
    <2> QED
      BY <1>1, <1>5, <2>1, ProcessedFields DEF Verify
  <1>6. ASSUME NEW low \in BOOLEAN, NEW n \in 1..DraftLen, Settle(n, low)
        PROVE  FALSE
    <2> DEFINE m == Len(main) - Len(round.drafts) + n
    <2>1. Len(round.drafts) <= Len(main) /\ Len(round.drafts) \in Nat /\ n \in Nat
      BY <1>6, InputTypes DEF Settle, CoverInv, Status, Types, Rounds, Context
    <2>2. m \in Int /\ m >= 0 /\ main' = Prefix(main, m)
      BY <1>1, <1>6, <2>1 DEF Settle
    <2> HIDE DEF m
    <2> QED
      BY <1>2, <2>2
  <1>7. ASSUME NEW n \in 0..NCtx, Correct(n)
        PROVE  FALSE
    BY <1>2, <1>7, InputTypes, n \in Int, n >= 0 DEF Correct
  <1>8. ASSUME NEW sel \in 1..NCtx, UndoFast(sel) \/ UndoSlow(sel)
        PROVE  FALSE
    <2>1. cps[sel] \in Nat
      BY <1>1, <1>8, InputTypes DEF UndoFast, UndoSlow, Undoable
    <2> QED
      BY <1>2, <1>8, <2>1, cps[sel] \in Int, cps[sel] >= 0 DEF UndoFast, UndoSlow
  <1>9. ASSUME Restart
        PROVE  mtp'.valid
    <2>1. cache # <<>> /\ cache \in Seq(AnyEntry)
      BY <1>9 DEF Restart, CoverInv, Status, Types
    <2>2. cache[1] \in AnyEntry
      BY <2>1
    <2>3. cache[1].tokens \in Seq(Token)
      BY <2>2 DEF AnyEntry, Context
    <2>4. main' \in Context
      BY <1>9, <2>3, PrefixFields, 1 \in Nat DEF Restart, Context
    <2> QED
      BY <1>9, <2>4, ClearedFields DEF Restart
  <1>10. ASSUME NEW note \in {<<>>} \cup [1..1 -> Token], Load(note)
         PROVE  FALSE
    <2>1. cps = <<>>
      BY <1>10 DEF Load, CoverInv, Status
    <2>2. cps' = <<Len(cache[1].tokens)>>
      BY <1>10 DEF Load
    <2> QED
      BY <2>1, <2>2
  <1>11. ASSUME ClearSession
         PROVE  mtp'.valid
    BY <1>11 DEF ClearSession, Cleared
  <1>12. ASSUME \/ FeedExhausted \/ Checkpoint \/ Save \/ UNCHANGED vars
                \/ \E drafts \in [1..DraftLen -> Token] : Draft(drafts)
                \/ \E low \in BOOLEAN : DropDraft(low) \/ VerifyExhausted(low)
         PROVE  FALSE
    BY <1>3, <1>12 DEF FeedExhausted, Checkpoint, Save, vars, Draft, DropDraft, VerifyExhausted
  <1> QED
    BY <1>4, <1>5, <1>6, <1>7, <1>8, <1>9, <1>10, <1>11, <1>12
       DEF Next, RoundStep, SessionStep

\* Every step of the program keeps what a successful decode promises.
THEOREM MirrorHeals ==
  ASSUME NoNotes
  PROVE  Spec => DecodeHeals
  <1>1. Spec => []CoverInv
    BY MirrorAssumption, CoverInit, CoverStep, PTL DEF Spec
  <1>2. ASSUME CoverInv, [Next]_vars
        PROVE  [mtp.valid /\ Len(main') > Len(main) /\ cps' = cps => mtp'.valid]_vars
    BY <1>2, MirrorAssumption, HealStep
  <1> QED
    BY <1>1, <1>2, PTL DEF Spec, DecodeHeals

-----------------------------------------------------------------------------
\* The rows are the main cache's.

\* A main context that is cut behind rows that are its own, whatever is owed.
LEMMA LiveCut ==
  ASSUME NEW m \in AnyMirror, NEW ctx \in Context, NEW j \in Nat, NEW k \in Int,
         Faithful(m.rows, ctx, j, k), NEW n \in Nat, NEW ctx2, ctx2 = Prefix(ctx, n),
         Len(ctx2) <= j,
         NEW m2, m2.rows = m.rows
  PROVE  Live(m2, ctx2, k + 1)
  <1>1. ctx \in Seq(Token) /\ m.rows \in Seq(Row) /\ j <= Len(m.rows) /\ Len(m.rows) \in Nat
    BY MirrorFields DEF Context, Faithful
  <1>2. /\ ctx2 \in Seq(Token) /\ Len(ctx2) \in Nat
        /\ \A p \in 1..Len(ctx2) : ctx2[p] = ctx[p]
    BY <1>1, PrefixFields
  <1>3. Len(ctx2) \in 0..j /\ Len(ctx2) <= Len(m.rows)
    BY <1>1, <1>2
  <1> DEFINE k2 == (k + 1) - Owed(m2, ctx2)
  <1>4. k <= k2 /\ k2 \in Int
    BY OwedRange
  <1> HIDE DEF k2
  <1>5. Faithful(m.rows, ctx2, Len(ctx2), k2)
    BY <1>1, <1>2, <1>3, <1>4, FaithfulCut, SMTT(20) DEF Context
  <1>6. Faithful(m2.rows, ctx2, Len(ctx2), k2)
    BY <1>5
  <1> QED
    BY <1>6 DEF Live, k2

\* A decode behind the main context.
LEMMA RowDecode ==
  ASSUME CoverInv, RowInv, NEW toks \in Context,
         main' = main \o toks, mtp' = Processed(mtp, main, toks),
         UNCHANGED <<cache, heals, features>>
  PROVE  RowInv'
  <1>1. /\ main \in Context /\ mtp \in AnyMirror /\ heals \in Int
        /\ mtp.rows \in Seq(Row) /\ mtp.pos \in Int
        /\ mtp.valid => Len(mtp.rows) >= Len(main)
    BY MirrorFields DEF CoverInv, Types, CoversMain, Context
  <1>2. Live(mtp', main', heals')
    BY <1>1, LiveProcessed DEF RowInv
  <1>3. Asleep'
    <2> SUFFICES ASSUME mtp'.exhausted, "undo" \in features
                 PROVE  Faithful(mtp'.rows, main', mtp'.pos + 1, heals')
      BY DEF Asleep
    <2>1. mtp' = mtp /\ mtp.exhausted
      BY <1>1, ProcessedFields DEF CoverInv, Status
    <2>2. Faithful(mtp.rows, main, mtp.pos + 1, heals)
      BY <2>1 DEF RowInv, Asleep
    <2>3. mtp.pos + 1 \in Nat
      BY <1>1, <2>1 DEF CoverInv, Status
    <2> DEFINE n == mtp.pos + 1
    <2>4. n <= Len(mtp.rows) /\ n <= Len(main)
      BY <2>2 DEF Faithful
    <2>5. /\ main' \in Context /\ Len(main') >= Len(main)
          /\ \A p \in 1..Len(main) : main'[p] = main[p]
      BY <1>1 DEF Context
    <2>6. Len(main) \in Nat /\ Len(main') \in Nat
      BY <1>1, <2>5 DEF Context
    <2>7. n <= Len(main') /\ n \in 0..n /\ n \in Nat /\ heals <= heals
      BY <1>1, <2>3, <2>4, <2>5, <2>6
    <2>8. \A p \in 1..n : main'[p] = main[p]
      BY <2>3, <2>4, <2>5, <2>6
    <2>9. Faithful(mtp.rows, main, n, heals)
      BY <2>2
    <2> HIDE DEF n
    <2>10. Faithful(mtp.rows, main', n, heals)
      BY <1>1, <2>4, <2>5, <2>7, <2>8, <2>9, FaithfulCut, ZenonT(30)
    <2> QED
      BY <2>1, <2>10 DEF n
  <1>4. Stored'
    BY DEF RowInv, Stored
  <1> QED
    BY <1>2, <1>3, <1>4 DEF RowInv

\* Speculation goes off, or nothing happens to the rows and the main context.
LEMMA RowSame ==
  ASSUME CoverInv, RowInv, main' = main, heals' = heals, features' = features,
         mtp'.rows = mtp.rows, mtp'.pos = mtp.pos, mtp'.pending = mtp.pending,
         mtp'.valid => mtp.valid,
         mtp'.exhausted /\ "undo" \in features =>
             mtp.exhausted \/ (mtp.valid /\ mtp.pos = Len(main) - 1),
         Stored'
  PROVE  RowInv'
  <1>1. /\ main \in Context /\ mtp \in AnyMirror /\ heals \in Int /\ Len(main) \in Nat
        /\ mtp.rows \in Seq(Row) /\ mtp.pos \in Int
    BY MirrorFields DEF CoverInv, Types, Context
  <1>2. Live(mtp', main', heals')
    BY DEF RowInv, Live, Owed
  <1>3. Asleep'
    <2> SUFFICES ASSUME mtp'.exhausted, "undo" \in features
                 PROVE  Faithful(mtp.rows, main, mtp.pos + 1, heals)
      BY DEF Asleep
    <2>1. CASE mtp.exhausted
      BY <2>1 DEF RowInv, Asleep
    <2>2. CASE mtp.valid /\ mtp.pos = Len(main) - 1
      <3>1. Faithful(mtp.rows, main, Len(main), heals - Owed(mtp, main))
        BY <2>2 DEF RowInv, Live
      <3>2. IsFiniteSet(Off(mtp.rows, main, Len(main)))
            /\ Cardinality(Off(mtp.rows, main, Len(main))) \in Nat
        BY <1>1, OffFinite, Len(main) \in Int
      <3>3. Faithful(mtp.rows, main, Len(main), heals)
        BY <1>1, <3>1, <3>2, OwedRange DEF Faithful
      <3>4. mtp.pos + 1 = Len(main)
        BY <1>1, <2>2
      <3> QED
        BY <3>3, <3>4
    <2> QED
      BY <2>1, <2>2
  <1> QED
    BY <1>2, <1>3 DEF RowInv

\* A truncation of the main context.
LEMMA RowCut ==
  ASSUME CoverInv, RowInv, NEW n \in Nat, main' = Prefix(main, n), heals' = heals + 1,
         mtp'.rows = mtp.rows, mtp'.pos = mtp.pos,
         mtp'.valid => \/ mtp.valid
                       \/ mtp.exhausted /\ "undo" \in features /\ n <= mtp.pos + 1,
         mtp'.exhausted /\ "undo" \in features => mtp.exhausted /\ n > mtp.pos + 1,
         UNCHANGED <<cache, features>>
  PROVE  RowInv'
  <1>1. /\ main \in Context /\ mtp \in AnyMirror /\ heals \in Int /\ Len(main) \in Nat
        /\ mtp.rows \in Seq(Row) /\ mtp.pos \in Int /\ main \in Seq(Token)
    BY MirrorFields DEF CoverInv, Types, Context
  <1>2. /\ main' \in Seq(Token) /\ Len(main') \in Nat /\ Len(main') <= Len(main)
        /\ Len(main') = IF n <= Len(main) THEN n ELSE Len(main)
        /\ \A p \in 1..Len(main') : main'[p] = main[p]
    BY <1>1, PrefixFields
  <1>3. Live(mtp', main', heals')
    <2>1. CASE mtp.valid
      <3>1. Faithful(mtp.rows, main, Len(main), heals - Owed(mtp, main))
        BY <2>1 DEF RowInv, Live
      <3>2. Cardinality(Off(mtp.rows, main, Len(main))) \in Nat
        BY <1>1, OffFinite, Len(main) \in Int
      <3>3. Faithful(mtp.rows, main, Len(main), heals)
        BY <1>1, <3>1, <3>2, OwedRange DEF Faithful
      <3> QED
        BY <1>1, <1>2, <3>3, LiveCut
    <2>2. CASE mtp.exhausted /\ "undo" \in features /\ n <= mtp.pos + 1
      <3> DEFINE j == mtp.pos + 1
      <3>1. Faithful(mtp.rows, main, j, heals) /\ j \in Nat /\ Len(main') <= j
        BY <1>1, <1>2, <2>2 DEF RowInv, Asleep, CoverInv, Status
      <3> HIDE DEF j
      <3> QED
        BY <1>1, <3>1, LiveCut
    <2>3. CASE ~mtp'.valid
      BY <2>3 DEF Live
    <2> QED
      BY <2>1, <2>2, <2>3
  <1>4. Asleep'
    <2> SUFFICES ASSUME mtp'.exhausted, "undo" \in features
                 PROVE  Faithful(mtp.rows, main', mtp.pos + 1, heals + 1)
      BY DEF Asleep
    <2> DEFINE j == mtp.pos + 1
    <2>1. Faithful(mtp.rows, main, j, heals) /\ j \in Nat /\ n > j
      BY <1>1 DEF RowInv, Asleep, CoverInv, Status
    <2>2. j <= Len(mtp.rows) /\ j <= Len(main)
      BY <2>1 DEF Faithful
    <2> DEFINE k2 == heals + 1
    <2>3. j <= Len(main') /\ j \in 0..j /\ heals <= k2 /\ k2 \in Int
      BY <1>1, <1>2, <2>1, <2>2
    <2>4. \A p \in 1..j : main'[p] = main[p]
      BY <1>2, <2>1, <2>3
    <2> HIDE DEF j, k2
    <2>5. Faithful(mtp.rows, main', j, k2)
      BY <1>1, <1>2, <2>1, <2>2, <2>3, <2>4, FaithfulCut DEF Context
    <2> QED
      BY <2>5 DEF j, k2
  <1>5. Stored'
    BY DEF RowInv, Stored
  <1> QED
    BY <1>3, <1>4, <1>5 DEF RowInv

\* The rows of a fresh mirror, or of the saved one.
LEMMA RowFresh ==
  ASSUME Live(mtp', main', heals'), ~mtp'.exhausted, Stored'
  PROVE  RowInv'
  BY DEF RowInv, Asleep

\* While nothing is decoded yet.
LEMMA RowInit ==
  ASSUME Init
  PROVE  RowInv
  <1>1. <<>> \in Context /\ Len(<<>>) = 0
    BY DEF Context
  <1>2. Live(Cleared, <<>>, 0) /\ ~Cleared.exhausted
    BY <1>1, ClearedFields
  <1> QED
    BY <1>1, <1>2 DEF Init, RowInv, Asleep, Stored

\* The actions of the main context and of its rounds.
LEMMA RowRounds ==
  ASSUME MirrorAssumption, NotOvertaken, CoverInv, RowInv,
         (\E toks \in Batches : Feed(toks)) \/ FeedExhausted \/ RoundStep
  PROVE  RowInv'
  <1>1. /\ main \in Context /\ mtp \in AnyMirror /\ Len(main) \in Nat /\ mtp.rows \in Seq(Row)
        /\ Len(mtp.rows) \in Nat /\ mtp.pos \in Int /\ mtp.valid \in BOOLEAN
        /\ round.drafts \in Context /\ Len(round.drafts) \in Nat /\ heals \in Nat
    BY MirrorFields DEF CoverInv, Types, Context, Rounds
  <1>2. ASSUME UNCHANGED cache
        PROVE  Stored'
    BY <1>2 DEF RowInv, Stored
  <1>3. ASSUME NEW toks \in Batches, Feed(toks)
        PROVE  RowInv'
    BY <1>3, InputTypes, RowDecode DEF Feed
  <1>4. ASSUME FeedExhausted
        PROVE  RowInv'
    <2>1. IsMirror(mtp', mtp.rows, mtp.pos, mtp.pending, FALSE, mtp.valid \/ mtp.exhausted)
      BY <1>1, <1>4, FlagFields, TRUE \in BOOLEAN, 0 \in Int DEF FeedExhausted
    <2>2. /\ mtp'.rows = mtp.rows /\ mtp'.pos = mtp.pos /\ mtp'.pending = mtp.pending
          /\ ~mtp'.valid /\ (mtp'.exhausted => mtp.valid \/ mtp.exhausted)
      BY <2>1 DEF IsMirror
    <2>3. "undo" \notin features
      BY <1>4 DEF FeedExhausted, NotOvertaken, CoverInv, Types
    <2> QED
      BY <1>2, <1>4, <2>2, <2>3, RowSame DEF FeedExhausted
  <1>5. ASSUME NEW drafts \in [1..DraftLen -> Token], Draft(drafts)
        PROVE  RowInv'
    <2>1. drafts \in Context /\ Len(drafts) = DraftLen
      BY InputTypes
    <2>2. /\ IsMirror(mtp', mtp.rows \o ChainRows(mtp, drafts), mtp.pos, mtp.pending,
                      ChainFits(mtp), mtp.exhausted)
          /\ Len(mtp'.rows) \in Nat /\ Len(mtp'.rows) >= Len(mtp.rows)
          /\ \A p \in 1..Len(mtp.rows) : mtp'.rows[p] = mtp.rows[p]
      <3>1. mtp' = [mtp EXCEPT !.rows = @ \o ChainRows(mtp, drafts), !.valid = ChainFits(mtp)]
        BY <1>5 DEF Draft
      <3> DEFINE m2 == mtp'
      <3>2. m2 = [mtp EXCEPT !.rows = @ \o ChainRows(mtp, drafts), !.valid = ChainFits(mtp)]
        BY <3>1
      <3> HIDE DEF m2
      <3>3. IsMirror(m2, mtp.rows \o ChainRows(mtp, drafts), mtp.pos, mtp.pending,
                     ChainFits(mtp), mtp.exhausted)
        BY <1>1, <2>1, <3>2, ChainFields
      <3>4. Len(m2.rows) \in Nat /\ Len(m2.rows) >= Len(mtp.rows)
        BY <1>1, <2>1, <3>2, ChainFields
      <3>5. \A p \in 1..Len(mtp.rows) : (mtp.rows \o ChainRows(mtp, drafts))[p] = mtp.rows[p]
        BY <1>1, <2>1, <3>2, ChainFields
      <3>6. m2.rows = mtp.rows \o ChainRows(mtp, drafts)
        BY <3>3 DEF IsMirror
      <3> QED
        BY <3>3, <3>4, <3>5, <3>6 DEF m2
    <2>3. mtp' \in AnyMirror /\ mtp'.pending = mtp.pending /\ (mtp'.exhausted <=> mtp.exhausted)
      BY <2>2 DEF IsMirror
    <2>4. mtp.valid /\ ~mtp.exhausted
      BY <1>5 DEF Draft, CanDraft, CoverInv, Status
    <2> DEFINE k == heals - Owed(mtp, main)
    <2>5. Faithful(mtp.rows, main, Len(main), k)
      BY <2>4 DEF RowInv, Live
    <2>6. Len(main) <= Len(mtp.rows) /\ mtp'.rows \in Seq(Row) /\ Len(main) \in 0..Len(main)
      BY <1>1, <2>3, <2>5, MirrorFields DEF Faithful
    <2>7. /\ Len(main) <= Len(mtp'.rows)
          /\ \A p \in 1..Len(main) : mtp'.rows[p] = mtp.rows[p] /\ main[p] = main[p]
      BY <1>1, <2>2, <2>6
    <2>8. k \in Int /\ k <= k
      BY <1>1, OwedRange
    <2>9. Faithful(mtp'.rows, main, Len(main), k)
      <3> DEFINE rows2 == mtp'.rows
                 n == Len(main)
      <3>1. /\ rows2 \in Seq(Row) /\ n <= Len(rows2) /\ n \in Nat /\ n \in 0..n
            /\ \A p \in 1..n : rows2[p] = mtp.rows[p] /\ main[p] = main[p]
            /\ Faithful(mtp.rows, main, n, k) /\ n <= Len(main)
        BY <1>1, <2>5, <2>6, <2>7
      <3> HIDE DEF rows2, n, k
      <3>2. Faithful(rows2, main, n, k)
        BY <1>1, <2>8, <3>1, FaithfulCut
      <3> QED
        BY <3>2 DEF rows2, n
    <2> HIDE DEF k
    <2>10. Live(mtp', main', heals')
      <3>1. main' = main /\ heals' = heals
        BY <1>5 DEF Draft
      <3>2. Owed(mtp', main) = Owed(mtp, main)
        BY <2>3 DEF Owed
      <3> QED
        BY <2>9, <3>1, <3>2 DEF Live, k
    <2>11. UNCHANGED cache
      BY <1>5 DEF Draft
    <2> QED
      BY <1>2, <2>3, <2>4, <2>10, <2>11, RowFresh
  <1>6. ASSUME NEW low \in BOOLEAN, DropDraft(low)
        PROVE  RowInv'
    <2>1. IsMirror(mtp', mtp.rows, mtp.pos, mtp.pending, mtp.valid /\ ~low, mtp.exhausted)
      BY <1>1, <1>6, FlagFields, 0 \in Int DEF DropDraft
    <2>2. /\ mtp'.rows = mtp.rows /\ mtp'.pos = mtp.pos /\ mtp'.pending = mtp.pending
          /\ (mtp'.valid => mtp.valid) /\ (mtp'.exhausted <=> mtp.exhausted)
      BY <2>1 DEF IsMirror
    <2> QED
      BY <1>2, <1>6, <2>2, RowSame DEF DropDraft
  <1>7. ASSUME Verify
        PROVE  RowInv'
    BY <1>1, <1>7, RowDecode DEF Verify
  <1>8. ASSUME NEW low \in BOOLEAN, VerifyExhausted(low)
        PROVE  RowInv'
    <2> DEFINE m == InvalidExhausted(mtp)
    <2>1. IsMirror(m, mtp.rows, mtp.pos, mtp.pending, FALSE, mtp.valid \/ mtp.exhausted)
      BY <1>1, FlagFields, 0 \in Int
    <2>2. mtp' = Noted(m, low)
      BY <1>8 DEF VerifyExhausted
    <2> HIDE DEF m
    <2>3. m \in AnyMirror
      BY <2>1 DEF IsMirror
    <2>4. IsMirror(mtp', m.rows, m.pos, m.pending, m.valid /\ ~low, m.exhausted)
      BY <2>2, <2>3, FlagFields, 0 \in Int
    <2>5. /\ mtp'.rows = mtp.rows /\ mtp'.pos = mtp.pos /\ mtp'.pending = mtp.pending
          /\ ~mtp'.valid /\ (mtp'.exhausted => mtp.valid \/ mtp.exhausted)
      BY <2>1, <2>4 DEF IsMirror
    <2>6. mtp.valid /\ mtp.pos = Len(main) - 1
      BY <1>8 DEF VerifyExhausted, CoverInv, Status
    <2> QED
      BY <1>2, <1>8, <2>5, <2>6, RowSame DEF VerifyExhausted
  <1>9. ASSUME NEW low \in BOOLEAN, NEW n \in 1..DraftLen, Settle(n, low)
        PROVE  RowInv'
    <2>1. IsMirror(mtp', mtp.rows, mtp.pos, mtp.pending, mtp.valid /\ ~low, mtp.exhausted)
      BY <1>1, <1>9, FlagFields, 0 \in Int DEF Settle
    <2>2. /\ mtp'.rows = mtp.rows /\ mtp'.pos = mtp.pos /\ mtp'.pending = mtp.pending
          /\ (mtp'.valid => mtp.valid) /\ (mtp'.exhausted <=> mtp.exhausted)
      BY <2>1 DEF IsMirror
    <2>3. /\ Len(round.drafts) <= Len(main) /\ n \in Nat /\ n <= Len(round.drafts)
          /\ mtp.valid /\ ~mtp.exhausted
      BY <1>1, <1>9, InputTypes DEF Settle, CoverInv, Status
    <2> DEFINE e == Len(main) - Len(round.drafts) + n
    <2>4. e \in Nat /\ main' = Prefix(main, e)
      BY <1>1, <1>9, <2>3 DEF Settle
    <2>5. CASE n < Len(round.drafts)
      <3>1. heals' = heals + 1 /\ UNCHANGED <<cache, features>>
        BY <1>9, <2>5 DEF Settle
      <3> HIDE DEF e
      <3> QED
        BY <2>2, <2>3, <2>4, <3>1, RowCut
    <2>6. CASE ~(n < Len(round.drafts))
      <3>1. e = Len(main) /\ heals' = heals /\ UNCHANGED <<cache, features>>
        BY <1>1, <1>9, <2>3, <2>6 DEF Settle
      <3>2. Prefix(main, Len(main)) = main
        <4>1. /\ Prefix(main, Len(main)) \in Seq(Token)
              /\ Len(Prefix(main, Len(main))) = Len(main)
              /\ \A p \in 1..Len(main) : Prefix(main, Len(main))[p] = main[p]
          BY <1>1, PrefixFields DEF Context
        <4> QED
          BY <1>1, <4>1, SeqEqual DEF Context
      <3>3. main' = main
        BY <2>4, <3>1, <3>2
      <3> QED
        BY <1>2, <2>2, <3>1, <3>3, RowSame
    <2> QED
      BY <2>5, <2>6
  <1> QED
    BY <1>3, <1>4, <1>5, <1>6, <1>7, <1>8, <1>9 DEF RoundStep

\* A mirror built from nothing.
LEMMA RowRebuilt ==
  ASSUME main' \in Context, mtp' = Processed(Cleared, <<>>, main'), heals' = 0, Stored'
  PROVE  RowInv'
  <1>1. Live(mtp', main', 0) /\ ~mtp'.exhausted
    BY ClearedFields
  <1> QED
    BY <1>1, RowFresh

\* The actions of the session.
LEMMA RowSession ==
  ASSUME MirrorAssumption, NoNotes, NotOvertaken, CoverInv, RowInv, SessionStep
  PROVE  RowInv'
  <1>1. /\ main \in Context /\ mtp \in AnyMirror /\ Len(main) \in Nat /\ mtp.rows \in Seq(Row)
        /\ Len(mtp.rows) \in Nat /\ mtp.pos \in Int /\ mtp.valid \in BOOLEAN
        /\ heals \in Nat /\ cps \in Seq(Nat) /\ cache \in Seq(AnyEntry)
    BY MirrorFields DEF CoverInv, Types, Context
  <1>2. ASSUME UNCHANGED cache
        PROVE  Stored'
    BY <1>2 DEF RowInv, Stored
  <1>3. /\ mtp.exhausted => "exhaust" \in features \/ "oversize" \in features
        /\ mtp.valid => ~mtp.exhausted
    BY DEF CoverInv, Status
  <1>4. ASSUME Checkpoint
        PROVE  RowInv'
    BY <1>2, <1>4, RowSame DEF Checkpoint
  <1>5. ASSUME ClearSession
        PROVE  RowInv'
    <2>1. <<>> \in Context
      BY DEF Context
    <2>2. Live(mtp', main', heals') /\ ~mtp'.exhausted
      BY <1>5, <2>1, ClearedFields DEF ClearSession
    <2>3. Stored'
      BY <1>5 DEF ClearSession, Stored
    <2> QED
      BY <2>2, <2>3, RowFresh
  <1>6. ASSUME Save
        PROVE  RowInv'
    <2> DEFINE entry == [tokens |-> main, rows |-> SavedRows, heals |-> heals]
    <2>1. entry.tokens = main /\ entry.rows = SavedRows /\ entry.heals = heals
      OBVIOUS
    <2>2. cache' = <<entry>>
      BY <1>6 DEF Save
    <2> HIDE DEF entry
    <2>3. ASSUME SavedRows # <<>>
          PROVE  Faithful(SavedRows, main, Len(main), heals)
      <3>1. mtp.valid /\ SavedRows = mtp.rows
        BY <2>3 DEF SavedRows
      <3>2. Faithful(mtp.rows, main, Len(main), heals - Owed(mtp, main))
        BY <3>1 DEF RowInv, Live
      <3>3. Cardinality(Off(mtp.rows, main, Len(main))) \in Nat
        BY <1>1, OffFinite, Len(main) \in Int
      <3> QED
        BY <1>1, <3>1, <3>2, <3>3, OwedRange DEF Faithful
    <2>4. Stored'
      <3> SUFFICES ASSUME NEW i \in 1..Len(cache'), cache'[i].rows # <<>>
                   PROVE  Faithful(cache'[i].rows, cache'[i].tokens,
                                   Len(cache'[i].tokens), cache'[i].heals)
        BY DEF Stored
      <3>1. cache'[i] = entry
        BY <2>2
      <3> QED
        BY <2>1, <2>3, <3>1
    <2> QED
      BY <1>6, <2>4, RowSame DEF Save
  <1>7. ASSUME Restart
        PROVE  RowInv'
    <2>1. cache # <<>>
      BY <1>7 DEF Restart, CoverInv, Status
    <2>2. cache[1] \in AnyEntry
      BY <1>1, <2>1
    <2>3. cache[1].tokens \in Seq(Token)
      BY <2>2 DEF AnyEntry, Context
    <2>4. main' \in Context
      BY <1>7, <2>3, PrefixFields, 1 \in Nat DEF Restart, Context
    <2> QED
      BY <1>2, <1>7, <2>4, RowRebuilt DEF Restart
  <1>8. ASSUME NEW n \in 0..NCtx, Correct(n)
        PROVE  RowInv'
    <2>1. n \in Nat
      BY InputTypes
    <2>2. ~(mtp.exhausted /\ "undo" \in features)
      BY <1>3, <1>8 DEF Correct, NotOvertaken, CoverInv, Types
    <2>3. mtp' = mtp /\ features' = features
      BY <1>8 DEF Correct
    <2> QED
      BY <1>8, <2>1, <2>2, <2>3, RowCut DEF Correct
  <1>9. ASSUME NEW sel \in 1..NCtx, UndoFast(sel)
        PROVE  RowInv'
    <2>1. sel \in 1..Len(cps) /\ cps[sel] \in Nat /\ "undo" \in features
      BY <1>1, <1>9, InputTypes DEF UndoFast, Undoable
    <2>2. IsMirror(mtp', mtp.rows, mtp.pos, mtp.pending,
                   mtp.valid \/ (mtp.exhausted /\ cps[sel] <= mtp.pos + 1),
                   mtp.exhausted /\ (mtp.valid \/ cps[sel] > mtp.pos + 1))
      BY <1>1, <1>9, <2>1, FlagFields, TRUE \in BOOLEAN, cps[sel] \in Int DEF UndoFast
    <2>3. /\ mtp'.rows = mtp.rows /\ mtp'.pos = mtp.pos
          /\ mtp'.valid => \/ mtp.valid
                           \/ mtp.exhausted /\ "undo" \in features /\ cps[sel] <= mtp.pos + 1
          /\ mtp'.exhausted => mtp.exhausted /\ cps[sel] > mtp.pos + 1
      BY <1>3, <2>1, <2>2 DEF IsMirror
    <2> QED
      BY <1>9, <2>1, <2>3, RowCut DEF UndoFast
  <1>10. ASSUME NEW sel \in 1..NCtx, UndoSlow(sel)
         PROVE  RowInv'
    <2>1. cps[sel] \in Nat
      BY <1>1, <1>10, InputTypes DEF UndoSlow, Undoable
    <2>2. main' \in Context
      BY <1>1, <1>10, <2>1, PrefixFields DEF UndoSlow, Context
    <2> QED
      BY <1>2, <1>10, <2>2, RowRebuilt DEF UndoSlow
  <1>11. ASSUME NEW note \in {<<>>} \cup [1..1 -> Token], Load(note)
         PROVE  RowInv'
    <2> DEFINE entry == cache[1]
    <2>1. note = <<>>
      BY <1>11, InputTypes DEF Load, NoNotes, CoverInv, Types
    <2>2. cache # <<>> /\ mtp.valid /\ ~mtp.exhausted
      BY <1>11 DEF Load, CoverInv, Status
    <2>3. entry \in AnyEntry /\ 1 \in 1..Len(cache)
      BY <1>1, <2>2
    <2>4. /\ entry.tokens \in Seq(Token) /\ entry.rows \in Seq(Row) /\ entry.heals \in Nat
          /\ Len(entry.tokens) \in Nat
      BY <2>3 DEF AnyEntry, Context
    <2>5. main' = entry.tokens /\ heals' = entry.heals + 1
      <3>1. entry.tokens \o <<>> = entry.tokens
        BY <2>4
      <3> QED
        BY <1>11, <2>1, <3>1 DEF Load
    <2>6. Stored'
      BY <1>2, <1>11 DEF Load
    <2>7. CASE Usable(cache[1])
      <3>1. entry.rows # <<>> /\ Len(entry.rows) >= Len(entry.tokens)
        BY <2>7 DEF Usable
      <3>2. Faithful(entry.rows, entry.tokens, Len(entry.tokens), entry.heals)
        BY <2>3, <3>1 DEF RowInv, Stored
      <3>3. mtp' = Loaded(mtp, entry.rows)
        BY <1>11, <2>7 DEF Load
      <3> HIDE DEF entry
      <3>4. IsMirror(mtp', entry.rows, Len(entry.rows) - 1, mtp.pending, TRUE, FALSE)
        BY <1>1, <2>4, <3>1, <3>3, LoadedFields
      <3>5. mtp'.rows = entry.rows /\ mtp'.valid /\ ~mtp'.exhausted
        BY <3>4 DEF IsMirror
      <3> DEFINE k == entry.heals + 1 - Owed(mtp', entry.tokens)
      <3>6. k \in Int /\ entry.heals <= k /\ entry.heals \in Int
        BY <2>4, OwedRange
      <3>7. Cardinality(Off(entry.rows, entry.tokens, Len(entry.tokens))) \in Nat
        BY <2>4, OffFinite, Len(entry.tokens) \in Int
      <3>8. Faithful(entry.rows, entry.tokens, Len(entry.tokens), k)
        <4> HIDE DEF k
        <4> QED
          BY <3>2, <3>6, <3>7 DEF Faithful
      <3>9. Faithful(mtp'.rows, main', Len(main'), k) /\ k = heals' - Owed(mtp', main')
        <4>1. mtp'.rows = entry.rows /\ main' = entry.tokens /\ Len(main') = Len(entry.tokens)
          BY <2>5, <3>5
        <4>2. k = heals' - Owed(mtp', main')
          <5>1. Owed(mtp', main') = Owed(mtp', entry.tokens)
            BY <4>1 DEF Owed
          <5>2. Owed(mtp', entry.tokens) \in Int
            BY OwedRange
          <5> QED
            BY <2>4, <2>5, <5>1, <5>2
        <4> HIDE DEF k
        <4>3. Faithful(mtp'.rows, main', Len(main'), k)
          BY <3>8, <4>1
        <4> QED
          BY <4>2, <4>3
      <3>10. Live(mtp', main', heals')
        BY <3>9 DEF Live
      <3> QED
        BY <2>6, <3>5, <3>10, RowFresh
    <2>8. CASE ~Usable(cache[1])
      <3>1. \/ mtp' = Invalid([mtp EXCEPT !.rows = <<>>])
            \/ mtp' = Invalid(mtp)
        BY <1>11, <2>8 DEF Load
      <3>2. IsMirror(Invalid(mtp), mtp.rows, mtp.pos, mtp.pending, FALSE, mtp.exhausted)
        BY <1>1, FlagFields, TRUE \in BOOLEAN, 0 \in Int
      <3>3. \/ IsMirror(mtp', <<>>, mtp.pos, mtp.pending, FALSE, mtp.exhausted)
            \/ IsMirror(mtp', mtp.rows, mtp.pos, mtp.pending, FALSE, mtp.exhausted)
        BY <1>1, <3>1, <3>2, EmptiedFields
      <3>4. ~mtp'.valid /\ ~mtp'.exhausted
        BY <2>2, <3>3 DEF IsMirror
      <3> QED
        BY <2>6, <3>4, RowFresh DEF Live
    <2> QED
      BY <2>7, <2>8
  <1> QED
    BY <1>4, <1>5, <1>6, <1>7, <1>8, <1>9, <1>10, <1>11 DEF SessionStep

\* Whatever happens, the rows stay what they are said to be.
LEMMA RowStep ==
  ASSUME MirrorAssumption, NoNotes, NotOvertaken, CoverInv, RowInv, [Next]_vars
  PROVE  RowInv'
  <1>1. CASE UNCHANGED vars
    BY <1>1 DEF vars, RowInv, Live, Owed, Asleep, Stored
  <1> QED
    BY <1>1, RowRounds, RowSession DEF Next

\* The two invariants of the rows hold together with the covering.
LEMMA RowsInvariant ==
  ASSUME NoNotes, NotOvertaken
  PROVE  Spec => [](CoverInv /\ RowInv)
  <1>1. Init => CoverInv /\ RowInv
    BY CoverInit, RowInit
  <1>2. CoverInv /\ RowInv /\ [Next]_vars => (CoverInv /\ RowInv)'
    BY MirrorAssumption, CoverStep, RowStep
  <1> QED
    BY <1>1, <1>2, PTL DEF Spec

\* What a mirror that covers the main cache says of its rows at the main's positions.
LEMMA RowsCompared ==
  ASSUME CoverInv, RowInv, mtp.valid
  PROVE  /\ Min({Len(mtp.rows), Len(main)}) = Len(main)
         /\ Faithful(mtp.rows, main, Len(main), heals)
         /\ OffRows = Off(mtp.rows, main, Len(main))
  <1>1. /\ Len(main) \in Nat /\ Len(mtp.rows) \in Nat /\ Len(mtp.rows) >= Len(main)
        /\ heals \in Nat
    BY MirrorFields DEF CoverInv, Types, CoversMain, Context
  <1>2. Min({Len(mtp.rows), Len(main)}) = Len(main)
    <2>1. Min({Len(mtp.rows), Len(main)}) =
            IF Len(mtp.rows) <= Len(main) THEN Len(mtp.rows) ELSE Len(main)
      BY <1>1, LesserOf
    <2> QED
      BY <1>1, <2>1
  <1>3. Faithful(mtp.rows, main, Len(main), heals - Owed(mtp, main))
    BY DEF RowInv, Live
  <1>4. Cardinality(Off(mtp.rows, main, Len(main))) \in Nat
    BY <1>1, OffFinite, Len(main) \in Int
  <1>5. Faithful(mtp.rows, main, Len(main), heals)
    BY <1>1, <1>3, <1>4, OwedRange DEF Faithful
  <1> QED
    BY <1>2, <1>5 DEF OffRows, Off

\* A valid mirror's rows at the main cache's positions are of the main's tokens, after
\* any drafting, undoing, exhaustion, saving and loading (session.cc 2673).
THEOREM MirrorTokens ==
  ASSUME NoNotes, NotOvertaken
  PROVE  Spec => []RowsAreMains
  <1>1. CoverInv /\ RowInv => RowsAreMains
    BY RowsCompared DEF RowsAreMains, Faithful
  <1> QED
    BY <1>1, RowsInvariant, PTL

\* Each truncation or load costs one row of a stale hidden state at most: errors do
\* not pile up however long the session is ("one re-mirrored row", session.cc 2669).
THEOREM MirrorErrors ==
  ASSUME NoNotes, NotOvertaken
  PROVE  Spec => []OneRowPerHeal
  <1>1. CoverInv /\ RowInv => OneRowPerHeal
    BY RowsCompared DEF OneRowPerHeal, Faithful
  <1> QED
    BY <1>1, RowsInvariant, PTL
=============================================================================
