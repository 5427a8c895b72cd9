--------------------------- MODULE RestoreProofs ----------------------------
(***************************************************************************)
(* Saving and loading, for every vocabulary, context size, batch size,     *)
(* depth of the snapshot window, number of turns and of retries: what a    *)
(* load gives, that it is one context with its checkpoints, and that /quit *)
(* leaves no work behind.  Each part of the invariant says of which        *)
(* features it needs the absence.                                          *)
(***************************************************************************)
EXTENDS Restore, RsMemoryProofs

\* What the theorems suppose of a scenario.  A load is not cancelled over a context
\* that the canary judged corrupt,
Uncancelled(f) == ~({"cancel", "corrupt"} \subseteq f)

\* nor over a state that could not be set, and a probe of few tokens is not clean.
ExactIn(f) == "short" \notin f /\ ("cancel" \in f => f \cap {"corrupt", "pressure"} = {})

\* Saves end with a checkpoint, and those that a canary loads have all of theirs.
StackIn(f) ==
    /\ ExactIn(f) /\ "tail" \notin f
    /\ "mirror" \in f => f \cap {"bare", "crash", "full"} = {}

\* Only a prompt adds to the conversation.
QuitIn(f) == Uncancelled(f) /\ "continue" \notin f

-----------------------------------------------------------------------------
\* Types: no row of the memory and no checkpoint is blank.
EntryType == [tokens : Seq(Token), kv : Seq(Token), state : Seq(Token),
              mirror : BOOLEAN, torn : BOOLEAN]

Pcs == {"idle", "turn", "more", "saving", "caching", "quitting", "quitCaching", "ended",
        "fast", "probe", "slow", "feeding", "autoCaching", "loaded"}

TypeInv ==
    /\ mem \in Filled /\ tracker \in Seq(Token) /\ npast \in 0..NCtx
    /\ cps \in Seq(0..NCtx) /\ offset \in Nat /\ prevSave \in BOOLEAN
    /\ file \in Files
    /\ entry = <<>> \/ (entry[1] \in EntryType /\ entry = <<entry[1]>>)
    /\ old \in Seq(Token) /\ attempt \in 0..MaxRetries /\ limit \in 0..NCtx
    /\ features \in Scenarios /\ pc \in Pcs

\* Checkpoints are places of a context of n tokens, each behind the one before.
Marks(c, n) ==
    \A i \in 1..Len(c) : c[i] \in 1..n /\ \A j \in 1..(i - 1) : c[j] < c[i]

Loading == pc \in {"fast", "probe", "slow", "feeding"}

FileInv ==
    /\ Marks(file.cps, Len(file.tokens))
    /\ Readable(file) \/ pc \in {"saving", "quitting"} => file.tokens # <<>>
    /\ Loading \/ pc = "autoCaching" => Readable(file) /\ Len(file.tokens) < NCtx

\* The tracker counts what is in the context, and a canary stays within it.
PlaceInv ==
    /\ pc # "feeding" => npast = Len(tracker) /\ tracker # <<>> /\ Marks(cps, npast)
    /\ pc = "fast" \/ (pc = "slow" /\ "corrupt" \notin features) =>
          tracker = SystemPrompt /\ cps = <<>>
    /\ pc = "probe" =>
          /\ cps = ReadCps(file) /\ offset = OffsetOf(cps)
          /\ Len(file.tokens) <= npast /\ npast <= Len(file.tokens) + CanaryMax + NRsSeq
          /\ Prefix(tracker, Len(file.tokens)) = file.tokens
          /\ Len(file.tokens) + CanaryMax + Overshoot < NCtx
          /\ Len(mem.kv) = npast /\ Len(mem.stack) = 1
    /\ pc = "feeding" =>
          /\ npast <= limit /\ limit \in 1..Len(file.tokens)
          /\ Len(mem.stack) <= Len(RestoredCps) /\ (MarksLeft => npast < NextMark)
          /\ limit = Len(file.tokens) \/ \E i \in 1..Len(ReadCps(file)) : limit = ReadCps(file)[i]
    /\ pc = "autoCaching" => tracker = file.tokens /\ cps = ReadCps(file)

\* The context of a session is one context: where a load is not under way, and where
\* it has not begun to disturb it.
Settled == pc \notin {"probe", "slow", "feeding"}
           \/ (pc = "slow" /\ features \cap {"corrupt", "pressure"} = {})

Exact == mem.kv = tracker /\ npast = Len(tracker) /\ mem.rsIdx = 0 /\ Coherent(mem)

\* An entry that can be loaded has the state after its tokens.
Sound(e) == ~e.torn /\ Len(e.kv) = Len(e.tokens) => e.kv = e.tokens /\ e.state = e.tokens

ExactInv ==
    ExactIn(features) =>
        /\ Settled => Exact
        /\ pc = "probe" => mem.kv = tracker /\ mem.stack[1] = file.tokens
        /\ pc = "feeding" => /\ mem.kv = Prefix(file.tokens, npast)
                             /\ mem.rsIdx = 0 /\ Coherent(mem)
        /\ entry # <<>> => Sound(entry[1])

\* The stack has the states at the checkpoints from the offset on.
Live == /\ Len(mem.stack) = Len(cps) - offset
        /\ \A i \in 1..Len(mem.stack) : mem.stack[i] = Prefix(tracker, cps[offset + i])

\* The checkpoints that were passed are pushed.
Pushed ==
    \A i \in 1..Len(mem.stack) : mem.stack[i] = Prefix(file.tokens, RestoredCps[i])

\* A save ends with its last checkpoint, a canary needs a mirror, and a session with a
\* mirror is saved with all its checkpoints.
SavesEnd == file.cps # <<>> => Last(file.cps) = Len(file.tokens)

Mirrors == /\ entry # <<>> /\ entry[1].mirror => "mirror" \in features
           /\ pc = "probe" => "mirror" \in features

Marked == "mirror" \in features =>
             IF pc \in {"saving", "quitting"} THEN file.cps # <<>>
             ELSE Readable(file) => ReadCps(file) # <<>>

StackInv ==
    StackIn(features) =>
        /\ Settled => Live
        /\ pc = "feeding" => Pushed
        /\ SavesEnd /\ Mirrors /\ Marked

\* What a save that is not revoked holds.
Kept == Readable(file) /\ (cps # <<>> => IsPrefix(tracker, file.tokens))

QuitInv ==
    QuitIn(features) /\ features \cap {"full", "note"} = {} =>
        /\ pc \in {"saving", "quitting", "caching", "quitCaching"} => file.tokens = tracker
        /\ pc \in {"caching", "quitCaching"} => file.written = "all"
        /\ pc \in {"turn", "more"} => ~prevSave
        /\ prevSave /\ pc \notin {"saving", "quitting", "probe", "slow", "feeding"} => Kept
        /\ pc = "ended" /\ cps # <<>> => Kept

RestoreInv == FileInv /\ PlaceInv /\ ExactInv /\ StackInv /\ QuitInv

-----------------------------------------------------------------------------
\* Sequences.

\* A prefix and what follows it, up to a place behind, are a longer prefix.
LEMMA PrefixGrows ==
    ASSUME NEW S, NEW s \in Seq(S), NEW a \in 0..Len(s), NEW b \in a..Len(s)
    PROVE  /\ SubSeq(s, a + 1, b) \in Seq(S) /\ Len(SubSeq(s, a + 1, b)) = b - a
           /\ Prefix(s, a) \o SubSeq(s, a + 1, b) = Prefix(s, b)
<1> DEFINE t == SubSeq(s, a + 1, b)
           p == Prefix(s, a)
<1>1. t \in Seq(S) /\ Len(t) = b - a /\ \A i \in 1..(b - a) : t[i] = s[a + i]
  BY SMT
<1>2. p \in Seq(S) /\ Len(p) = a /\ \A i \in 1..a : p[i] = s[i]
  BY PrefixType
<1>3. /\ Prefix(s, b) \in Seq(S) /\ Len(Prefix(s, b)) = b
      /\ \A i \in 1..b : Prefix(s, b)[i] = s[i]
  <2>1. b \in 0..Len(s)
    OBVIOUS
  <2> QED  BY <2>1, PrefixType
<1> HIDE DEF t, p
<1>7. a \in Nat /\ b \in Nat /\ a <= b
  OBVIOUS
<1>4. p \o t \in Seq(S) /\ Len(p \o t) = b
  <2>1. p \in Seq(S) /\ t \in Seq(S) /\ Len(p) = a /\ Len(t) = b - a
    BY <1>1, <1>2
  <2>2. p \o t \in Seq(S) /\ Len(p \o t) = Len(p) + Len(t)
    BY <2>1, ConcatProperties
  <2>3. a + (b - a) = b
    BY <1>7
  <2> QED  BY <2>1, <2>2, <2>3
<1>5. ASSUME NEW i \in 1..b
      PROVE  (p \o t)[i] = s[i]
  <2>0. i \in Nat /\ 1 <= i /\ i <= b
    BY <1>7
  <2>3. p \in Seq(S) /\ t \in Seq(S) /\ Len(p) = a /\ Len(t) = b - a
    BY <1>1, <1>2
  <2>4. i \in 1..(Len(p) + Len(t))
    BY <1>7, <2>0, <2>3
  <2>5. (p \o t)[i] = IF i <= Len(p) THEN p[i] ELSE t[i - Len(p)]
    BY <2>3, <2>4, ConcatProperties
  <2>1. CASE i <= a
    <3>1. i \in 1..a
      BY <2>0, <2>1, <1>7
    <3>2. (p \o t)[i] = p[i]
      BY <2>1, <2>3, <2>5
    <3> QED  BY <1>2, <3>1, <3>2
  <2>2. CASE i > a
    <3>1. i - a \in 1..(b - a) /\ a + (i - a) = i
      BY <2>0, <2>2, <1>7
    <3>2. (p \o t)[i] = t[i - a]
      BY <1>7, <2>0, <2>2, <2>3, <2>5
    <3> QED  BY <1>1, <3>1, <3>2
  <2>6. i <= a \/ i > a
    BY <1>7, <2>0
  <2> QED  BY <2>1, <2>2, <2>6
<1>6. p \o t = Prefix(s, b)
  BY <1>3, <1>4, <1>5, SeqEqual
<1> QED  BY <1>1, <1>6 DEF t, p

\* A prefix of a prefix, and of a concatenation.
LEMMA PrefixWithin ==
    ASSUME NEW S, NEW s \in Seq(S), NEW t \in Seq(S), NEW n \in 0..Len(s), NEW k \in 0..n
    PROVE  Prefix(Prefix(s, n), k) = Prefix(s, k) /\ Prefix(s \o t, k) = Prefix(s, k)
<1> DEFINE p == Prefix(s, n)
           c == s \o t
<1>1. p \in Seq(S) /\ Len(p) = n /\ \A i \in 1..n : p[i] = s[i]
  BY PrefixType
<1>2. c \in Seq(S) /\ Len(c) = Len(s) + Len(t) /\ \A i \in 1..Len(s) : c[i] = s[i]
  OBVIOUS
<1>3. k \in 0..Len(s)
  OBVIOUS
<1> HIDE DEF p, c
<1>4. /\ Prefix(s, k) \in Seq(S) /\ Len(Prefix(s, k)) = k
      /\ \A i \in 1..k : Prefix(s, k)[i] = s[i]
  BY <1>3, PrefixType
<1>5. /\ Prefix(p, k) \in Seq(S) /\ Len(Prefix(p, k)) = k
      /\ \A i \in 1..k : Prefix(p, k)[i] = p[i]
  BY <1>1, PrefixType
<1>6. /\ Prefix(c, k) \in Seq(S) /\ Len(Prefix(c, k)) = k
      /\ \A i \in 1..k : Prefix(c, k)[i] = c[i]
  <2>1. k \in 0..Len(c)
    BY <1>2
  <2> QED  BY <1>2, <2>1, PrefixType
<1>7. Prefix(p, k) = Prefix(s, k)
  <2>1. \A i \in 1..k : Prefix(p, k)[i] = Prefix(s, k)[i]
    BY <1>1, <1>4, <1>5
  <2> QED  BY <1>4, <1>5, <2>1, SeqEqual
<1>8. Prefix(c, k) = Prefix(s, k)
  <2>1. \A i \in 1..k : Prefix(c, k)[i] = Prefix(s, k)[i]
    BY <1>2, <1>3, <1>4, <1>6
  <2> QED  BY <1>4, <1>6, <2>1, SeqEqual
<1> QED  BY <1>7, <1>8 DEF p, c

\* The checkpoints up to one of them, or up to the end, are the first ones.
LEMMA UpToMark ==
    ASSUME NEW n \in Nat, NEW c \in Seq(Nat), Marks(c, n)
    PROVE  /\ \A i \in 1..Len(c) : UpTo(c, c[i]) = Prefix(c, i)
           /\ UpTo(c, n) = c
<1> DEFINE S(k) == {0} \cup {i \in DOMAIN c : c[i] <= k}
<1>1. ASSUME NEW k \in Nat, NEW m \in 0..Len(c),
             m # 0 => c[m] <= k, \A i \in 1..Len(c) : c[i] <= k => i <= m
      PROVE  UpTo(c, k) = Prefix(c, m)
  <2>1. m \in S(k) /\ \A y \in S(k) : m >= y
    BY <1>1
  <2>2. S(k) \subseteq Int
    OBVIOUS
  <2> HIDE DEF S
  <2>3. Max(S(k)) = m
    <3>1. Max(S(k)) \in S(k) /\ \A y \in S(k) : Max(S(k)) >= y
      BY <2>1 DEF Max
    <3> QED  BY <2>1, <2>2, <3>1
  <2> QED  BY <2>3 DEF UpTo, S
<1>2. ASSUME NEW i \in 1..Len(c)
      PROVE  UpTo(c, c[i]) = Prefix(c, i)
  <2>1. c[i] \in Nat /\ i \in 0..Len(c)
    OBVIOUS
  <2>2. \A j \in 1..Len(c) : c[j] <= c[i] => j <= i
    BY DEF Marks
  <2> QED  BY <1>1, <2>1, <2>2
<1>3. UpTo(c, n) = c
  <2>1. Len(c) \in 0..Len(c) /\ (Len(c) # 0 => c[Len(c)] <= n)
    BY DEF Marks
  <2>2. UpTo(c, n) = Prefix(c, Len(c))
    BY <1>1, <2>1
  <2> QED  BY <2>2, PrefixAll
<1> QED  BY <1>2, <1>3

-----------------------------------------------------------------------------
\* The memory, as saves, canaries and loads use it.

\* A context of one state: what is decoded next continues it.
LEMMA DecodeExact ==
    ASSUME NEW m \in Filled, NEW toks \in Seq(Token), toks # <<>>, Coherent(m)
    PROVE  /\ Decode(m, toks) \in Filled /\ Decode(m, toks).kv = m.kv \o toks
           /\ Decode(m, toks).rsIdx = 0 /\ Decode(m, toks).stack = m.stack
           /\ Coherent(Decode(m, toks))
<1>1. 0 \in 0..NRsSeq /\ 0 < Len(toks) /\ Len(toks) - 0 = Len(toks)
  BY NRsSeqAssumption
<1>2. /\ Decode(m, toks) \in Filled /\ Decode(m, toks).kv = m.kv \o toks
      /\ Decode(m, toks).rsIdx = 0 /\ Decode(m, toks).stack = m.stack
      /\ Decode(m, toks).planes[0] = State(m) \o Prefix(toks, Len(toks) - 0)
  BY <1>1, DecodeFilled
<1>3. Prefix(toks, Len(toks)) = toks
  BY PrefixAll
<1> QED  BY <1>1, <1>2, <1>3 DEF Coherent, State

\* A checkpoint copies the state.
LEMMA SaveExact ==
    ASSUME NEW m \in Filled, m.kv # <<>>
    PROVE  /\ RsSave(m) \in Filled
           /\ RsSave(m).kv = m.kv /\ RsSave(m).rsIdx = m.rsIdx
           /\ RsSave(m).stack = Append(m.stack, m.planes[0])
           /\ State(RsSave(m)) = State(m) /\ RsSave(m).planes = m.planes
<1>1. RsSave(m) = [m EXCEPT !.stack = Append(m.stack, m.planes[0])]
  BY DEF RsSave
<1> QED  BY <1>1, SaveFilled DEF Filled, State

\* What a canary adds is in the cache.
LEMMA ProbeExact ==
    ASSUME NEW m \in Filled, NEW toks \in Seq(Token), NEW n \in 0..Len(toks),
           Len(toks) - NRsSeq <= n
    PROVE  LET q == SeqRm(Decode(m, toks), Len(m.kv) + n)
           IN q \in Filled /\ q.kv = m.kv \o Prefix(toks, n) /\ q.stack = m.stack
<1> DEFINE d == Decode(m, toks)
           p == Len(m.kv) + n
<1>1. d \in Filled /\ d.kv = m.kv \o toks /\ d.rsIdx = 0 /\ d.stack = m.stack
  BY DecodeFilled
<1>2. m.kv \in Seq(Token) /\ d.kv \in Seq(Token)
  BY <1>1, FilledFields
<1> HIDE DEF d
<1>3. Len(d.kv) = Len(m.kv) + Len(toks) /\ p \in Nat /\ p <= Len(d.kv)
  BY <1>1, <1>2
<1>4. SeqRmOk(d, p)
  BY <1>1, <1>3, <1>2, NRsSeqAssumption DEF SeqRmOk, InWindow, Distance
<1>5. SeqRm(d, p) \in Filled /\ SeqRm(d, p).stack = d.stack /\ SeqRm(d, p).kv = Prefix(d.kv, p)
  BY <1>1, <1>3, <1>4, SeqRmFilled
<1>6. Prefix(d.kv, p) = m.kv \o Prefix(toks, n)
  BY <1>1, <1>2, PrefixOfConcat
<1> QED  BY <1>1, <1>5, <1>6 DEF d

\* The rollback of a canary is accepted; it gives the saved state, unless the
\* distance is within the window, where it takes a row of the probe's.
LEMMA CanaryBack ==
    ASSUME NEW m \in Filled, m.kv # <<>>, Len(m.stack) >= 1, NEW p \in 0..Len(m.kv)
    PROVE  LET r == RsRestore(m, 0)
               q == SeqRm(r, p)
           IN /\ SeqRmOk(r, p) /\ q \in Filled
              /\ q.kv = Prefix(m.kv, p) /\ q.stack = m.stack
              /\ Len(m.kv) = p \/ Len(m.kv) - p > NRsSeq => q.rsIdx = 0 /\ State(q) = m.stack[1]
<1> DEFINE r == RsRestore(m, 0)
           q == SeqRm(r, p)
<1>1. /\ m.kv \in Seq(Token) /\ m.planes \in [0..NRsSeq -> Seq(Token)]
      /\ m.rsIdx \in 0..NRsSeq /\ m.restored \in BOOLEAN /\ m.stack \in Seq(Seq(Token))
      /\ 0 \in 0..NRsSeq
  BY FilledFields, NRsSeqAssumption
<1>2. m.stack[1] \in Seq(Token) /\ ~(0 >= Len(m.stack))
  BY <1>1
<1>3. r = [m EXCEPT !.planes[0] = m.stack[1], !.rsIdx = 0, !.restored = TRUE]
  BY <1>2 DEF RsRestore
<1> DEFINE pl == [m.planes EXCEPT ![0] = m.stack[1]]
<1>4. pl \in [0..NRsSeq -> Seq(Token)] /\ pl[0] = m.stack[1]
  BY <1>1, <1>2
<1>5. /\ r.kv = m.kv /\ r.planes = pl /\ r.rsIdx = 0 /\ r.restored = TRUE
      /\ r.stack = m.stack
      /\ r = [kv |-> m.kv, planes |-> pl, rsIdx |-> 0, restored |-> TRUE, stack |-> m.stack]
  BY <1>3 DEF Filled
<1> HIDE DEF pl, r
<1>6. r \in Filled
  BY <1>1, <1>4, <1>5 DEF Filled
<1>7. SeqRmOk(r, p)
  BY <1>5 DEF SeqRmOk
<1>8. q \in Filled /\ q.stack = m.stack /\ q.kv = Prefix(m.kv, p)
  <2>1. p \in Nat /\ p <= Len(r.kv)
    BY <1>1, <1>5
  <2> QED  BY <1>5, <1>6, <1>7, <2>1, SeqRmFilled
<1>9. CASE Len(m.kv) = p
  <2>1. q = r
    BY <1>1, <1>5, <1>9 DEF SeqRm
  <2> QED  BY <1>4, <1>5, <1>7, <1>8, <2>1 DEF State, r
<1>10. CASE Len(m.kv) # p
  <2>1. ASSUME Len(m.kv) - p > NRsSeq
        PROVE  q.rsIdx = 0 /\ State(q) = m.stack[1]
    <3>1. ~(Len(r.kv) <= p) /\ ~InWindow(r, p)
      BY <1>1, <1>5, <1>10, <2>1, NRsSeqAssumption DEF InWindow, Distance
    <3>2. q = [r EXCEPT !.kv = Prefix(r.kv, p), !.rsIdx = 0, !.restored = FALSE]
      BY <1>7, <3>1 DEF SeqRm
    <3> QED  BY <1>4, <1>5, <1>6, <3>2 DEF State, Filled
  <2> QED  BY <1>7, <1>8, <1>10, <2>1 DEF r
<1> QED  BY <1>9, <1>10

\* A fresh session.
LEMMA FreshExact ==
    /\ FreshMem \in Filled /\ FreshMem.kv = SystemPrompt /\ FreshMem.rsIdx = 0
    /\ FreshMem.stack = <<>> /\ Coherent(FreshMem)
    /\ SystemPrompt \in Seq(Token) /\ SystemPrompt # <<>> /\ Len(SystemPrompt) = 1
<1>1. SystemPrompt \in Seq(Token) /\ SystemPrompt # <<>> /\ Len(SystemPrompt) = 1
  BY RestoreAssumption DEF SystemPrompt
<1>2. EmptyMem.kv = <<>> /\ EmptyMem.stack = <<>>
  BY DEF EmptyMem
<1>3. <<>> \o SystemPrompt = SystemPrompt
  BY <1>1
<1> QED  BY <1>1, <1>2, <1>3, EmptyFilled, DecodeExact DEF FreshMem

\* The cells of a state that could not be set.
LEMMA CellsFilled ==
    ASSUME NEW kv \in Seq(Token)
    PROVE  [EmptyMem EXCEPT !.kv = kv] \in Filled
<1>1. ASSUME NEW m \in Filled
      PROVE  [m EXCEPT !.kv = kv] \in Filled
  BY DEF Filled
<1>2. EmptyMem \in Filled
  BY EmptyFilled
<1> HIDE DEF EmptyMem
<1> QED  BY <1>1, <1>2

\* A cached state.
LEMMA LoadedExact ==
    ASSUME NEW e \in EntryType, ~e.torn
    PROVE  /\ LoadedMem(e) \in Filled /\ LoadedMem(e).kv = e.kv /\ LoadedMem(e).rsIdx = 0
           /\ LoadedMem(e).stack = <<>> /\ State(LoadedMem(e)) = e.state
           /\ LoadedMem(e).planes[0] = e.state
<1> DEFINE pl == [i \in 0..NRsSeq |-> IF i = 0 THEN e.state ELSE <<>>]
<1>1. 0 \in 0..NRsSeq
  BY NRsSeqAssumption
<1>2. LoadedMem(e) = [kv |-> e.kv, planes |-> pl, rsIdx |-> 0, restored |-> FALSE, stack |-> <<>>]
  <2> DEFINE z == [i \in 0..NRsSeq |-> <<>>]
  <2>1. [z EXCEPT ![0] = e.state] = pl
    BY <1>1
  <2> HIDE DEF z, pl
  <2>2. EmptyMem = [kv |-> <<>>, planes |-> z, rsIdx |-> 0, restored |-> FALSE, stack |-> <<>>]
    BY DEF EmptyMem, z
  <2>3. LoadedMem(e) = [EmptyMem EXCEPT !.kv = e.kv, !.planes[0] = e.state]
    BY DEF LoadedMem
  <2> QED  BY <2>1, <2>2, <2>3
<1>3. pl \in [0..NRsSeq -> Seq(Token)] /\ pl[0] = e.state
  BY <1>1 DEF EntryType
<1> HIDE DEF pl
<1> QED  BY <1>1, <1>2, <1>3 DEF Filled, EntryType, State
-----------------------------------------------------------------------------
\* Files and checkpoints.

\* What is read of a file that can be read.
LEMMA Reads ==
    ASSUME TypeInv, FileInv
    PROVE  /\ Readable(file) => ReadTokens(file) = file.tokens
           /\ file.tokens \in Seq(Token) /\ file.cps \in Seq(0..NCtx)
           /\ ReadTokens(file) \in Seq(Token)
           /\ ReadCps(file) \in Seq(0..NCtx) /\ ReadCps(file) \in Seq(Nat)
           /\ Marks(ReadCps(file), Len(file.tokens))
<1>1. file.tokens \in Seq(Token) /\ file.cps \in Seq(0..NCtx)
  BY DEF TypeInv, Files
<1>2. Readable(file) => ReadTokens(file) = file.tokens
  BY DEF Readable, ReadTokens
<1>3. ReadTokens(file) \in Seq(Token)
  <2>1. [i \in 1..Len(file.tokens) |-> System] \in Seq(Token)
    BY <1>1, RestoreAssumption
  <2> QED  BY <1>1, <2>1 DEF ReadTokens
<1>4. ReadCps(file) \in Seq(0..NCtx)
  <2>1. <<>> \in Seq(0..NCtx)
    OBVIOUS
  <2>2. CASE file.written = "all"
    BY <1>1, <2>2 DEF ReadCps
  <2>3. CASE file.written # "all"
    BY <2>1, <2>3 DEF ReadCps
  <2> QED  BY <2>2, <2>3
<1>5. ReadCps(file) \in Seq(Nat)
  BY <1>4, 0..NCtx \subseteq Nat, SeqMonotonic
<1>6. Marks(ReadCps(file), Len(file.tokens))
  <2>1. Marks(<<>>, Len(file.tokens))
    BY DEF Marks
  <2> QED  BY <2>1 DEF ReadCps, FileInv
<1> QED  BY <1>1, <1>2, <1>3, <1>4, <1>5, <1>6

\* Checkpoints of a context are checkpoints of a longer one.
LEMMA MarksGrow ==
    ASSUME NEW c \in Seq(Nat), NEW n \in Nat, NEW m \in Nat, n <= m, Marks(c, n)
    PROVE  Marks(c, m)
BY DEF Marks

\* A checkpoint behind the last one.
LEMMA MarksAppend ==
    ASSUME NEW c \in Seq(Nat), NEW n \in Nat \ {0}, Marks(c, n), c # <<>> => Last(c) < n
    PROVE  Marks(Append(c, n), n)
<1> DEFINE d == Append(c, n)
<1>1. Len(d) = Len(c) + 1 /\ d[Len(c) + 1] = n /\ \A i \in 1..Len(c) : d[i] = c[i]
  OBVIOUS
<1>2. ASSUME NEW j \in 1..Len(c)
      PROVE  c[j] < n
  <2>1. Len(c) \in 1..Len(c) /\ c # <<>> /\ c[Len(c)] < n
    BY <1>2 DEF Last
  <2>2. CASE j = Len(c)
    BY <2>1, <2>2
  <2>3. CASE j < Len(c)
    <3>1. j \in 1..(Len(c) - 1) /\ c[j] \in Nat /\ c[Len(c)] \in Nat
      BY <2>1, <2>3
    <3>2. c[j] < c[Len(c)]
      BY <2>1, <3>1 DEF Marks
    <3> QED  BY <2>1, <3>1, <3>2
  <2> QED  BY <2>2, <2>3
<1> HIDE DEF d
<1>3. ASSUME NEW i \in 1..Len(d)
      PROVE  d[i] \in 1..n /\ \A j \in 1..(i - 1) : d[j] < d[i]
  <2>1. CASE i = Len(c) + 1
    BY <1>1, <1>2, <2>1
  <2>2. CASE i # Len(c) + 1
    <3>1. i \in 1..Len(c)
      BY <1>1, <2>2
    <3> QED  BY <1>1, <3>1 DEF Marks
  <2> QED  BY <2>1, <2>2
<1> QED  BY <1>3 DEF Marks, d

\* The first checkpoints, up to the place of the last of them.
LEMMA MarksPrefix ==
    ASSUME NEW c \in Seq(Nat), NEW n \in Nat, Marks(c, n), NEW i \in 1..Len(c)
    PROVE  Prefix(c, i) \in Seq(Nat) /\ Marks(Prefix(c, i), c[i])
<1>1. i \in 0..Len(c) /\ c[i] \in Nat
  OBVIOUS
<1>2. Prefix(c, i) \in Seq(Nat) /\ Len(Prefix(c, i)) = i /\ \A k \in 1..i : Prefix(c, i)[k] = c[k]
  BY <1>1, PrefixType
<1>3. ASSUME NEW k \in 1..i
      PROVE  c[k] \in 1..c[i] /\ \A j \in 1..(k - 1) : c[j] < c[k]
  <2>1. k \in 1..Len(c) /\ c[k] \in Nat /\ c[k] >= 1
    BY <1>1 DEF Marks
  <2>2. c[k] <= c[i]
    <3>1. CASE k = i
      BY <2>1, <3>1
    <3>2. CASE k # i
      <4>1. k \in 1..(i - 1)
        BY <3>2
      <4>2. c[k] < c[i]
        BY <4>1 DEF Marks
      <4> QED  BY <1>1, <2>1, <4>2
    <3> QED  BY <3>1, <3>2
  <2>3. \A j \in 1..(k - 1) : c[j] < c[k]
    BY <2>1 DEF Marks
  <2> QED  BY <1>1, <2>1, <2>2, <2>3
<1> DEFINE p == Prefix(c, i)
<1>4. p \in Seq(Nat) /\ Len(p) = i /\ \A k \in 1..i : p[k] = c[k]
  BY <1>2
<1> HIDE DEF p
<1>5. ASSUME NEW k \in 1..i
      PROVE  p[k] \in 1..c[i] /\ \A j \in 1..(k - 1) : p[j] < p[k]
  <2>1. p[k] = c[k] /\ c[k] \in 1..c[i]
    BY <1>3, <1>4
  <2>2. ASSUME NEW j \in 1..(k - 1)
        PROVE  p[j] < p[k]
    <3>1. j \in 1..i
      BY <2>2
    <3> QED  BY <1>3, <1>4, <2>1, <3>1
  <2> QED  BY <2>1, <2>2
<1>6. Marks(p, c[i])
  BY <1>4, <1>5 DEF Marks
<1> QED  BY <1>4, <1>6 DEF p

\* The checkpoints that a re-decode restores are the first ones of the save, all of
\* them up to its limit, which the last one may be.
LEMMA Restored ==
    ASSUME TypeInv, FileInv, PlaceInv, pc = "feeding"
    PROVE  /\ RestoredCps \in Seq(Nat) /\ RestoredCps \in Seq(0..NCtx)
           /\ Marks(RestoredCps, limit)
           /\ limit \in Nat /\ limit <= Len(file.tokens) /\ limit # 0
           /\ limit = Len(file.tokens) => RestoredCps = ReadCps(file)
           /\ limit # Len(file.tokens) =>
                 \E i \in 1..Len(ReadCps(file)) :
                    limit = ReadCps(file)[i] /\ RestoredCps = Prefix(ReadCps(file), i)
<1> DEFINE c == ReadCps(file)
           n == Len(file.tokens)
<1>1. c \in Seq(Nat) /\ c \in Seq(0..NCtx) /\ Marks(c, n) /\ n \in Nat
  BY Reads
<1>2. limit \in 1..n /\ (limit = n \/ \E i \in 1..Len(c) : limit = c[i])
  BY DEF PlaceInv
<1>3. UpTo(c, n) = c /\ \A i \in 1..Len(c) : UpTo(c, c[i]) = Prefix(c, i)
  BY <1>1, UpToMark
<1> HIDE DEF c, n
<1>4. RestoredCps = UpTo(c, limit)
  BY DEF RestoredCps, c
<1>5. CASE limit = n
  BY <1>1, <1>2, <1>3, <1>4, <1>5 DEF c, n
<1>6. CASE limit # n
  <2>1. PICK i \in 1..Len(c) : limit = c[i]
    BY <1>2, <1>6
  <2>2. RestoredCps = Prefix(c, i)
    BY <1>3, <1>4, <2>1
  <2>3. i \in 0..Len(c)
    BY <1>1
  <2>4. Prefix(c, i) \in Seq(Nat) /\ Marks(Prefix(c, i), limit)
    BY <1>1, <2>1, MarksPrefix
  <2>5. Prefix(c, i) \in Seq(0..NCtx)
    BY <1>1, <2>3, PrefixType
  <2>7. limit \in Nat /\ limit <= n /\ limit # 0
    BY <1>1, <1>2
  <2> QED  BY <1>6, <2>1, <2>2, <2>4, <2>5, <2>7 DEF c, n
<1> QED  BY <1>5, <1>6

\* Where a chunk ends: behind its start, at the next checkpoint or before it, and
\* within the limit.
LEMMA Chunk ==
    ASSUME TypeInv, FileInv, PlaceInv, pc = "feeding", npast < limit
    PROVE  /\ ChunkEnd \in Nat /\ npast < ChunkEnd /\ ChunkEnd <= limit
           /\ NextMark \in Nat /\ ChunkEnd <= NextMark
           /\ MarksLeft => /\ Len(mem.stack) + 1 \in 1..Len(RestoredCps)
                           /\ NextMark = RestoredCps[Len(mem.stack) + 1]
<1>1. RestoredCps \in Seq(Nat) /\ Marks(RestoredCps, limit) /\ limit \in Nat
  BY Restored
<1>2. npast \in Nat /\ NBatch \in Nat /\ NBatch > 0 /\ mem.stack \in Seq(Seq(Token))
  BY RestoreAssumption, FilledFields DEF TypeInv
<1>3. MarksLeft => npast < NextMark
  BY DEF PlaceInv
<1>4. CASE MarksLeft
  <2>1. Len(mem.stack) + 1 \in 1..Len(RestoredCps)
    BY <1>1, <1>2, <1>4 DEF MarksLeft
  <2>2. NextMark = RestoredCps[Len(mem.stack) + 1]
    BY <1>4 DEF NextMark
  <2>3. NextMark \in Nat /\ NextMark <= limit
    BY <1>1, <2>1, <2>2 DEF Marks
  <2> QED  BY <1>1, <1>2, <1>3, <1>4, <2>1, <2>2, <2>3 DEF ChunkEnd
<1>5. CASE ~MarksLeft
  BY <1>1, <1>2, <1>5 DEF ChunkEnd, NextMark
<1> QED  BY <1>4, <1>5
-----------------------------------------------------------------------------
\* What the steps do to parts of the state.

\* The larger of one and a number.
LEMMA MaxOfOne ==
    ASSUME NEW x \in Int
    PROVE  Max({1, x}) \in Int /\ Max({1, x}) >= 1 /\ Max({1, x}) >= x
<1>1. \E y \in {1, x} : \A z \in {1, x} : y >= z
  <2>1. CASE 1 >= x
    BY <2>1
  <2>2. CASE 1 < x
    BY <2>2
  <2> QED  BY <2>1, <2>2
<1>2. Max({1, x}) \in {1, x} /\ \A z \in {1, x} : Max({1, x}) >= z
  BY <1>1 DEF Max
<1> QED  BY <1>2

\* The batches of a canary, and what is committed of them.
LEMMA ProbeBounds ==
    ASSUME ProbeSteps
    PROVE  \E toks \in Seq(Token) : \E n \in 1..Len(toks) :
              /\ Len(toks) - NRsSeq <= n /\ Len(toks) <= NRsSeq + 1
              /\ ProbeStep(toks, n)
<1>1. PICK toks \in Batches : \E n \in Max({1, Len(toks) - NRsSeq})..Len(toks) :
         ProbeStep(toks, n)
  BY DEF ProbeSteps
<1>2. PICK n \in Max({1, Len(toks) - NRsSeq})..Len(toks) : ProbeStep(toks, n)
  BY <1>1
<1>3. toks \in Seq(Token) /\ Len(toks) <= NRsSeq + 1
  <2>1. CASE toks \in {<<t>> : t \in Words}
    <3>1. PICK t \in Token : toks = <<t>>
      BY <2>1 DEF Words
    <3> QED  BY <3>1, NRsSeqAssumption
  <2>2. CASE toks \in [1..(1 + NRsSeq) -> Words]
    <3>1. 1 + NRsSeq \in Nat /\ toks \in Seq(Words)
      BY <2>2, NRsSeqAssumption
    <3>2. Len(toks) = 1 + NRsSeq
      BY <2>2, <3>1, LenProperties
    <3>3. Seq(Words) \subseteq Seq(Token)
      BY SeqMonotonic, Words \subseteq Token DEF Words
    <3> QED  BY <3>1, <3>2, <3>3, NRsSeqAssumption
  <2> QED  BY <2>1, <2>2 DEF Batches
<1>4. Len(toks) \in Nat /\ Len(toks) - NRsSeq \in Int
  BY <1>3, NRsSeqAssumption
<1> DEFINE k == Max({1, Len(toks) - NRsSeq})
<1>5. k \in Int /\ k >= 1 /\ k >= Len(toks) - NRsSeq
  BY <1>4, MaxOfOne
<1>6. n \in k..Len(toks)
  OBVIOUS
<1> HIDE DEF k
<1>7. n \in 1..Len(toks) /\ Len(toks) - NRsSeq <= n
  BY <1>4, <1>5, <1>6, NRsSeqAssumption
<1> QED  BY <1>2, <1>3, <1>7
\* A state cache entry of this session.
LEMMA EntryMade ==
    ASSUME TypeInv
    PROVE  NewEntry \in EntryType /\ Torn \in EntryType /\ Torn.torn
<1>1. mem.kv \in Seq(Token) /\ State(mem) \in Seq(Token) /\ tracker \in Seq(Token)
  BY FilledFields DEF TypeInv
<1>2. NewEntry \in EntryType
  BY <1>1 DEF NewEntry, EntryType
<1>3. ASSUME NEW e \in EntryType
      PROVE  [e EXCEPT !.torn = TRUE] \in EntryType /\ [e EXCEPT !.torn = TRUE].torn
  BY DEF EntryType
<1>4. Torn \in EntryType /\ Torn.torn
  BY <1>2, <1>3 DEF Torn
<1> QED  BY <1>2, <1>4

\* The tokens that one step adds to the context.
LEMMA Committed ==
    ASSUME TypeInv, NEW toks \in Seq(Token), npast + Len(toks) < NCtx, Commit(toks)
    PROVE  mem' \in Filled /\ tracker' \in Seq(Token) /\ npast' \in 0..NCtx
<1>1. mem \in Filled /\ tracker \in Seq(Token) /\ npast \in 0..NCtx
  BY DEF TypeInv
<1>2. mem' \in Filled
  BY <1>1, DecodeFilled DEF Commit
<1>3. tracker' \in Seq(Token)
  BY <1>1 DEF Commit
<1>4. Len(toks) \in Nat /\ NCtx \in Nat
  BY RestoreAssumption
<1>5. npast' \in 0..NCtx
  BY <1>1, <1>4 DEF Commit
<1> QED  BY <1>2, <1>3, <1>5

\* A fresh session.
LEMMA FreshTypes ==
    ASSUME Fresh
    PROVE  /\ mem' \in Filled /\ tracker' \in Seq(Token) /\ npast' \in 0..NCtx
           /\ cps' = <<>> /\ cps' \in Seq(0..NCtx) /\ offset' \in Nat
<1>1. 1 \in 0..NCtx
  BY RestoreAssumption
<1> QED  BY <1>1, FreshExact DEF Fresh

\* What a step of a user, of a turn or of a save does to the types;
LEMMA TypeSession ==
    ASSUME TypeInv, FileInv, PlaceInv, UserStep \/ TurnStep \/ SaveStep \/ Restart
    PROVE  TypeInv'
<1> USE DEF Pcs, ctxVars, bookVars, disk, load
<1>f. Files = [tokens : Seq(Token), cps : Seq(0..NCtx),
               written : {"none", "header", "tokens", "all"}]
  BY DEF Files
<1>1. ASSUME NEW typed \in BOOLEAN, StartTurn(typed)
      PROVE  TypeInv'
  BY <1>1 DEF StartTurn, TypeInv, SavedStill
<1>2. CASE ClearSession
  BY <1>2, FreshTypes DEF ClearSession, TypeInv
<1>b. ASSUME BeginSave
      PROVE  file' \in Files /\ old' \in Seq(Token)
  <2>1. old' \in Seq(Token)
    BY <1>b, Reads DEF BeginSave
  <2>2. tracker \in Seq(Token) /\ cps \in Seq(0..NCtx)
    BY DEF TypeInv
  <2>3. PICK w \in {"none", "header", "tokens"} :
           file' = [tokens |-> tracker, cps |-> cps, written |-> w]
    BY <1>b DEF BeginSave
  <2>4. file' \in Files
    BY <2>2, <2>3 DEF Files
  <2> QED  BY <2>1, <2>4
<1>3. CASE SaveCommand
  BY <1>3, <1>b DEF SaveCommand, TypeInv
<1>4. CASE QuitCommand
  <2>1. file' \in Files /\ old' \in Seq(Token) /\ pc' \in Pcs
    BY <1>4, <1>b DEF QuitCommand, TypeInv
  <2> QED  BY <1>4, <2>1 DEF QuitCommand, TypeInv
<1>5. CASE LoadCommand
  <2>1. 0 \in 0..MaxRetries
    BY RestoreAssumption
  <2> QED  BY <1>5, <2>1 DEF LoadCommand, TypeInv
<1>6. ASSUME NEW t \in Words, Say(t)
      PROVE  TypeInv'
  <2>1. <<t>> \in Seq(Token) /\ Len(<<t>>) = 1
    BY DEF Words
  <2>2. npast + Len(<<t>>) < NCtx /\ Commit(<<t>>)
    BY <1>6, <2>1 DEF Say, Fits
  <2>3. mem' \in Filled /\ tracker' \in Seq(Token) /\ npast' \in 0..NCtx
    BY <2>1, <2>2, Committed
  <2> QED  BY <1>6, <2>3 DEF Say, TypeInv
<1>7. CASE EndTurn
  <2>1. mem' \in Filled
    BY <1>7, SaveFilled DEF EndTurn, TypeInv
  <2>2. Append(cps, npast) \in Seq(0..NCtx)
    BY DEF TypeInv
  <2>3. cps' \in Seq(0..NCtx)
    BY <1>7, <2>2 DEF EndTurn, TypeInv
  <2> QED  BY <1>7, <2>1, <2>3 DEF EndTurn, TypeInv
<1>8. CASE SaveWritten
  <2>1. file' \in Files
    BY <1>8 DEF SaveWritten, TypeInv, Files
  <2> QED  BY <1>8, <2>1 DEF SaveWritten, TypeInv
<1>9. CASE SaveFails
  <2>1. <<>> \in Seq(Token)
    OBVIOUS
  <2> QED  BY <1>9, <2>1 DEF SaveFails, TypeInv
<1>10. CASE CacheWritten
  <2>1. <<>> \in Seq(Token)
    OBVIOUS
  <2>2. entry' = <<>> \/ (entry'[1] \in EntryType /\ entry' = <<entry'[1]>>)
    BY <1>10, EntryMade DEF CacheWritten, TypeInv
  <2>3. prevSave' \in BOOLEAN /\ pc' \in Pcs
    BY <1>10 DEF CacheWritten, TypeInv
  <2> QED  BY <1>10, <2>1, <2>2, <2>3 DEF CacheWritten, TypeInv
<1>11. ASSUME NEW begun \in {<<>>, <<Torn>>}, CacheBegun(begun)
       PROVE  TypeInv'
  <2>1. entry' = <<>> \/ (entry'[1] \in EntryType /\ entry' = <<entry'[1]>>)
    BY <1>11, EntryMade DEF CacheBegun
  <2> QED  BY <1>11, <2>1 DEF CacheBegun, TypeInv
<1>12. CASE Restart
  <2>1. <<>> \in Seq(Token) /\ 0 \in 0..MaxRetries /\ 0 \in 0..NCtx
    BY RestoreAssumption
  <2> QED  BY <1>12, <2>1, FreshTypes DEF Restart, TypeInv
<1>13. CASE UserStep
  BY <1>1, <1>2, <1>3, <1>4, <1>5, <1>13 DEF UserStep
<1>14. CASE TurnStep
  BY <1>6, <1>7, <1>14 DEF TurnStep
<1>15. CASE SaveStep
  BY <1>8, <1>9, <1>10, <1>11, <1>15 DEF SaveStep
<1> QED  BY <1>12, <1>13, <1>14, <1>15

\* and what one of a load does.
LEMMA TypeLoad ==
    ASSUME TypeInv, FileInv, PlaceInv, LoadStep
    PROVE  TypeInv'
<1> USE DEF Pcs, ctxVars, bookVars, disk, load
<1>1. CASE CacheMiss
  <2>1. entry' = <<>> \/ entry' = entry
    BY <1>1 DEF CacheMiss
  <2> QED  BY <1>1, <2>1 DEF CacheMiss, TypeInv
<1>2. ASSUME entry # <<>>, NEW kv \in {<<>>, entry[1].kv},
             StateSetFails([EmptyMem EXCEPT !.kv = kv])
      PROVE  TypeInv'
  <2>1. kv \in Seq(Token)
    <3>1. entry[1].kv \in Seq(Token) /\ <<>> \in Seq(Token)
      BY <1>2 DEF TypeInv, EntryType
    <3> QED  BY <3>1
  <2>2. [EmptyMem EXCEPT !.kv = kv] \in Filled
    BY <2>1, CellsFilled
  <2>3. mem' \in Filled
    BY <1>2, <2>2 DEF StateSetFails
  <2> QED  BY <1>2, <2>3 DEF StateSetFails, TypeInv
<1>3. CASE CacheHit
  <2>1. entry[1] \in EntryType /\ ~entry[1].torn
    BY <1>3 DEF CacheHit, Loadable, TypeInv
  <2>2. LoadedMem(entry[1]) \in Filled
    BY <2>1, LoadedExact
  <2>3. mem' \in Filled
    BY <1>3, <2>2, SaveFilled DEF CacheHit
  <2>4. tracker' \in Seq(Token) /\ cps' \in Seq(0..NCtx)
    BY <1>3, Reads DEF CacheHit
  <2>5. npast' \in 0..NCtx
    <3>1. Readable(file) /\ Len(file.tokens) < NCtx /\ ReadTokens(file) = file.tokens
      BY <1>3, Reads DEF FileInv, Loading, CacheHit
    <3>2. npast' = Len(file.tokens)
      BY <1>3, <3>1 DEF CacheHit, Loadable
    <3>3. Len(file.tokens) \in Nat
      BY Reads
    <3> QED  BY <3>1, <3>2, <3>3, RestoreAssumption
  <2>6. offset' \in Nat
    <3>1. offset' = OffsetOf(ReadCps(file))
      BY <1>3 DEF CacheHit
    <3>2. ReadCps(file) \in Seq(Nat)
      BY Reads
    <3> QED  BY <3>1, <3>2 DEF OffsetOf
  <2>7. pc' \in Pcs
    BY <1>3 DEF CacheHit
  <2> QED  BY <1>3, <2>3, <2>4, <2>5, <2>6, <2>7 DEF CacheHit, TypeInv
<1>4. CASE ProbeSteps
  <2>1. PICK toks \in Seq(Token) : \E n \in 1..Len(toks) :
           /\ Len(toks) - NRsSeq <= n /\ Len(toks) <= NRsSeq + 1
           /\ ProbeStep(toks, n)
    BY <1>4, ProbeBounds
  <2>2. PICK n \in 1..Len(toks) :
           /\ Len(toks) - NRsSeq <= n /\ Len(toks) <= NRsSeq + 1
           /\ ProbeStep(toks, n)
    BY <2>1
  <2>3. Len(toks) \in Nat /\ n \in Nat /\ n <= NRsSeq + 1 /\ n \in 0..Len(toks)
    BY <2>2, NRsSeqAssumption
  <2>4. mem' \in Filled
    <3>1. Decode(mem, toks) \in Filled
      BY DecodeFilled DEF TypeInv
    <3>3. npast + n \in Nat
      BY <2>3, RestoreAssumption DEF TypeInv
    <3>2. SeqRm(Decode(mem, toks), npast + n) \in Filled
      BY <3>1, <3>3, SeqRmFilled
    <3> QED  BY <2>2, <3>2 DEF ProbeStep
  <2>5. tracker' \in Seq(Token)
    <3>1. Prefix(toks, n) \in Seq(Token) /\ tracker \in Seq(Token)
      BY <2>3, PrefixType DEF TypeInv
    <3> QED  BY <2>2, <3>1 DEF ProbeStep
  <2>6. npast' \in 0..NCtx
    <3>1. ReadTokens(file) = file.tokens /\ Len(file.tokens) \in Nat
      <4>1. Readable(file)
        BY <2>2 DEF FileInv, ProbeStep, Loading
      <4> QED  BY <4>1, Reads
    <3>2. npast < Len(file.tokens) + CanaryMax /\ npast' = npast + n /\ npast \in Nat
      <4>1. npast - Len(file.tokens) < CanaryMax /\ npast' = npast + n
        BY <2>2, <3>1 DEF ProbeStep, Probed, RestorePoint
      <4>2. npast \in Nat
        BY RestoreAssumption DEF TypeInv
      <4> QED  BY <3>1, <4>1, <4>2, RestoreAssumption
    <3>3. Len(file.tokens) + CanaryMax + Overshoot < NCtx
      BY <2>2 DEF PlaceInv, ProbeStep
    <3> QED  BY <2>3, <3>1, <3>2, <3>3, RestoreAssumption, NRsSeqAssumption
  <2> QED  BY <2>2, <2>4, <2>5, <2>6 DEF ProbeStep, TypeInv<1>5. CASE CanaryClean
  <2>1. pc = "probe" /\ Readable(file) /\ ReadTokens(file) = file.tokens
    BY <1>5, Reads DEF CanaryClean, FileInv, Loading
  <2>2. RestorePoint \in Nat /\ RestorePoint <= npast /\ RestorePoint \in 0..Len(tracker)
    BY <2>1, Reads DEF RestorePoint, PlaceInv, TypeInv
  <2>3. mem.kv # <<>> /\ RestorePoint \in 0..Len(mem.kv) /\ Len(mem.stack) >= 1
    <3>1. Len(mem.kv) = npast /\ Len(mem.stack) = 1 /\ npast = Len(tracker) /\ tracker # <<>>
      BY <2>1 DEF PlaceInv
    <3>2. tracker \in Seq(Token) /\ mem.kv \in Seq(Token)
      BY FilledFields DEF TypeInv
    <3> QED  BY <2>2, <3>1, <3>2
  <2>4. /\ SeqRmOk(RsRestore(mem, 0), RestorePoint)
        /\ SeqRm(RsRestore(mem, 0), RestorePoint) \in Filled
    BY <2>3, CanaryBack DEF TypeInv
  <2>5. /\ mem' = SeqRm(RsRestore(mem, 0), RestorePoint) /\ npast' = RestorePoint
        /\ tracker' = Prefix(tracker, RestorePoint)
    BY <1>5, <2>4 DEF CanaryClean
  <2>6. tracker' \in Seq(Token)
    BY <2>2, <2>5, PrefixType DEF TypeInv
  <2>7. npast' \in 0..NCtx
    BY <2>2, <2>5, RestoreAssumption DEF TypeInv
  <2> QED  BY <1>5, <2>4, <2>5, <2>6, <2>7 DEF CanaryClean, TypeInv
<1>6. CASE CanaryCorrupt
  <2>1. CASE attempt < MaxRetries
    <3>1. attempt' \in 0..MaxRetries
      BY <1>6, <2>1, RestoreAssumption DEF CanaryCorrupt, NextAttempt, TypeInv
    <3> QED  BY <1>6, <2>1, <3>1, FreshTypes DEF CanaryCorrupt, TypeInv
  <2>2. CASE ~(attempt < MaxRetries)
    BY <1>6, <2>2 DEF CanaryCorrupt, TypeInv
  <2> QED  BY <2>1, <2>2
<1>7. ASSUME NEW to \in 0..NCtx, Redecode(to)
      PROVE  TypeInv'
  <2>1. EmptyMem \in Filled /\ <<>> \in Seq(Token) /\ 0 \in 0..NCtx
    BY EmptyFilled, RestoreAssumption
  <2> HIDE DEF EmptyMem
  <2> QED  BY <1>7, <2>1 DEF Redecode, TypeInv
<1>8. CASE FeedChunk
  <2>1. pc = "feeding" /\ npast < limit
    BY <1>8 DEF FeedChunk
  <2>2. ChunkEnd \in Nat /\ ChunkEnd <= limit /\ npast < ChunkEnd /\ limit <= Len(file.tokens)
    BY <2>1, Chunk, Restored
  <2>3. npast' \in 0..NCtx
    BY <1>8, <2>2, RestoreAssumption DEF FeedChunk, TypeInv
  <2> DEFINE toks == SubSeq(ReadTokens(file), npast + 1, ChunkEnd)
  <2>4. toks \in Seq(Token)
    <3>1. ReadTokens(file) = file.tokens /\ file.tokens \in Seq(Token) /\ npast \in Nat
      BY <2>1, Reads DEF FileInv, Loading, TypeInv
    <3>2. npast \in 0..Len(file.tokens) /\ ChunkEnd \in npast..Len(file.tokens)
      BY <2>2, <3>1 DEF TypeInv
    <3> QED  BY <3>1, <3>2, PrefixGrows
  <2> HIDE DEF toks
  <2>5. Decode(mem, toks) \in Filled /\ RsSave(Decode(mem, toks)) \in Filled
    BY <2>4, DecodeFilled, SaveFilled DEF TypeInv
  <2>6. mem' \in Filled
    BY <1>8, <2>5 DEF FeedChunk, toks
  <2> QED  BY <1>8, <2>3, <2>6 DEF FeedChunk, TypeInv
<1>9. CASE RedecodeEnds
  <2>1. pc = "feeding" /\ Readable(file)
    BY <1>9 DEF RedecodeEnds, FileInv, Loading
  <2>2. ReadTokens(file) = file.tokens /\ limit \in 0..Len(file.tokens) /\ RestoredCps \in Seq(0..NCtx)
    BY <2>1, Reads, Restored
  <2>3. Prefix(file.tokens, limit) \in Seq(Token)
    BY <2>2, PrefixType DEF TypeInv, Files
  <2>4. 0 \in 0..NCtx
    BY RestoreAssumption
  <2> QED  BY <1>9, <2>2, <2>3, <2>4 DEF RedecodeEnds, TypeInv
<1>10. CASE RedecodeFails
  <2>1. 0 \in 0..NCtx
    BY RestoreAssumption
  <2> QED  BY <1>10, <2>1, FreshTypes DEF RedecodeFails, TypeInv
<1>11. CASE RestoreCancelled
  BY <1>11 DEF RestoreCancelled, TypeInv
<1>12. ASSUME NEW note \in {<<>>} \cup {<<t>> : t \in Words}, LoadEnds(note)
       PROVE  TypeInv'
  <2>1. CASE note = <<>>
    BY <1>12, <2>1 DEF LoadEnds, TypeInv
  <2>2. CASE note # <<>>
    <3>1. note \in Seq(Token)
      <4>1. PICK t \in Token : note = <<t>>
        BY <1>12, <2>2 DEF Words
      <4> QED  BY <4>1
    <3>2. npast + Len(note) < NCtx /\ Commit(note)
      BY <1>12, <2>2 DEF LoadEnds, Fits
    <3>3. mem' \in Filled /\ tracker' \in Seq(Token) /\ npast' \in 0..NCtx
      BY <3>1, <3>2, Committed
    <3> QED  BY <1>12, <3>3 DEF LoadEnds, TypeInv
  <2> QED  BY <2>1, <2>2
<1>13. \/ CacheMiss
       \/ (entry # <<>> /\ \E kv \in {<<>>, entry[1].kv} : StateSetFails([EmptyMem EXCEPT !.kv = kv]))
       \/ CacheHit \/ ProbeSteps \/ CanaryClean \/ CanaryCorrupt
       \/ (\E to \in 0..NCtx : Redecode(to)) \/ FeedChunk \/ RedecodeEnds \/ RedecodeFails
       \/ RestoreCancelled
       \/ \E note \in {<<>>} \cup {<<t>> : t \in Words} : LoadEnds(note)
  BY DEF LoadStep
<1> QED  BY <1>1, <1>2, <1>3, <1>4, <1>5, <1>6, <1>7, <1>8, <1>9, <1>10, <1>11, <1>12, <1>13
-----------------------------------------------------------------------------
\* A load writes no file, and stays one until it is over.
LEMMA LoadKeeps ==
    ASSUME LoadStep
    PROVE  /\ UNCHANGED <<file, old, prevSave, features>>
           /\ Loading \/ pc = "loaded"
           /\ pc' \in {"fast", "probe", "slow", "feeding", "autoCaching", "loaded", "idle"}
           /\ pc' = "autoCaching" => pc = "feeding"
           /\ pc = "loaded" => pc' = "idle"
<1> USE DEF ctxVars, bookVars, disk, load, Loading
<1>1. CASE \/ CacheMiss
           \/ (entry # <<>> /\ \E kv \in {<<>>, entry[1].kv} :
                  StateSetFails([EmptyMem EXCEPT !.kv = kv]))
           \/ CacheHit
  BY <1>1 DEF CacheMiss, StateSetFails, CacheHit
<1>2. CASE ProbeSteps \/ CanaryClean \/ CanaryCorrupt
  <2>1. CASE ProbeSteps
    BY <2>1 DEF ProbeSteps, ProbeStep
  <2>2. CASE CanaryClean
    BY <2>2 DEF CanaryClean
  <2>3. CASE CanaryCorrupt
    BY <2>3 DEF CanaryCorrupt
  <2> QED  BY <1>2, <2>1, <2>2, <2>3
<1>3. CASE (\E to \in 0..NCtx : Redecode(to)) \/ FeedChunk \/ RedecodeEnds \/ RedecodeFails
  BY <1>3 DEF Redecode, FeedChunk, RedecodeEnds, RedecodeFails
<1>4. CASE \/ RestoreCancelled
           \/ \E note \in {<<>>} \cup {<<t>> : t \in Words} : LoadEnds(note)
  BY <1>4 DEF RestoreCancelled, LoadEnds
<1> QED  BY <1>1, <1>2, <1>3, <1>4 DEF LoadStep

\* The save file holds a conversation with its checkpoints.
LEMMA FileStep ==
    ASSUME TypeInv, FileInv, PlaceInv, Next
    PROVE  FileInv'
<1> USE DEF ctxVars, bookVars, disk, load
<1>0. tracker \in Seq(Token) /\ cps \in Seq(0..NCtx)
  BY DEF TypeInv
<1>a. ASSUME file' = file, pc' \notin {"saving", "quitting", "fast", "probe", "slow", "feeding", "autoCaching"}
      PROVE  FileInv'
  BY <1>a DEF FileInv, Readable, Loading
<1>b. ASSUME file' = file, pc' = pc
      PROVE  FileInv'
  BY <1>b DEF FileInv, Readable, Loading
<1>c. ASSUME BeginSave, pc = "idle", pc' \in {"saving", "quitting"}
      PROVE  FileInv'
  <2>1. PICK w \in {"none", "header", "tokens"} :
           file' = [tokens |-> tracker, cps |-> cps, written |-> w]
    BY <1>c DEF BeginSave
  <2>2. file'.tokens = tracker /\ file'.cps = cps
    BY <2>1
  <2>3. npast = Len(tracker) /\ tracker # <<>> /\ Marks(cps, npast)
    BY <1>c DEF PlaceInv
  <2>4. Marks(file'.cps, Len(file'.tokens)) /\ file'.tokens # <<>>
    BY <2>2, <2>3
  <2> QED  BY <1>c, <2>4 DEF FileInv, Loading
<1>1. CASE UserStep
  <2>1. ASSUME NEW typed \in BOOLEAN, StartTurn(typed)
        PROVE  FileInv'
    BY <2>1, <1>a DEF StartTurn
  <2>2. CASE ClearSession
    BY <2>2, <1>b DEF ClearSession
  <2>3. CASE SaveCommand
    BY <2>3, <1>c DEF SaveCommand, Idle
  <2>4. CASE QuitCommand
    BY <2>4, <1>a, <1>c DEF QuitCommand, Idle
  <2>5. CASE LoadCommand
    <3>1. file' = file /\ Readable(file) /\ Len(file.tokens) < NCtx /\ pc' \in {"fast", "slow"}
      BY <2>5 DEF LoadCommand
    <3> QED  BY <3>1 DEF FileInv, Readable
  <2> QED  BY <1>1, <2>1, <2>2, <2>3, <2>4, <2>5 DEF UserStep
<1>2. CASE TurnStep
  <2>1. ASSUME NEW t \in Words, Say(t)
        PROVE  FileInv'
    BY <2>1, <1>b DEF Say
  <2>2. CASE EndTurn
    BY <2>2, <1>a DEF EndTurn
  <2> QED  BY <1>2, <2>1, <2>2 DEF TurnStep
<1>3. CASE SaveStep
  <2>1. CASE SaveWritten
    <3>1. file' = [file EXCEPT !.written = "all"] /\ pc' \in {"caching", "quitCaching"}
      BY <2>1 DEF SaveWritten
    <3>2. file'.tokens = file.tokens /\ file'.cps = file.cps /\ file.tokens # <<>>
      BY <2>1, <3>1 DEF SaveWritten, FileInv, TypeInv, Files
    <3> QED  BY <3>1, <3>2 DEF FileInv, Loading
  <2>2. CASE SaveFails
    BY <2>2, <1>a DEF SaveFails
  <2>3. CASE CacheWritten
    BY <2>3, <1>a DEF CacheWritten
  <2>4. ASSUME NEW begun \in {<<>>, <<Torn>>}, CacheBegun(begun)
        PROVE  FileInv'
    BY <2>4, <1>b DEF CacheBegun
  <2> QED  BY <1>3, <2>1, <2>2, <2>3, <2>4 DEF SaveStep
<1>4. CASE LoadStep
  BY <1>4, LoadKeeps DEF FileInv, Readable, Loading
<1>5. CASE Restart
  BY <1>5, <1>a DEF Restart
<1> QED  BY <1>1, <1>2, <1>3, <1>4, <1>5 DEF Next

-----------------------------------------------------------------------------
\* The places of a fresh session.
LEMMA FreshPlaces ==
    ASSUME Fresh
    PROVE  npast' = Len(tracker') /\ tracker' # <<>> /\ Marks(cps', npast')
BY FreshExact DEF Fresh, Marks

\* The checkpoints stay behind what is added.
LEMMA CommitPlaces ==
    ASSUME TypeInv, NEW toks \in Seq(Token), Commit(toks), cps' = cps,
           npast = Len(tracker), tracker # <<>>, Marks(cps, npast)
    PROVE  npast' = Len(tracker') /\ tracker' # <<>> /\ Marks(cps', npast')
<1>1. tracker \in Seq(Token) /\ Len(toks) \in Nat /\ npast \in Nat
  BY DEF TypeInv
<1>2. tracker' = tracker \o toks /\ npast' = npast + Len(toks)
  BY DEF Commit
<1>3. Len(tracker') = Len(tracker) + Len(toks) /\ tracker' # <<>>
  BY <1>1, <1>2
<1>4. cps \in Seq(Nat)
  BY 0..NCtx \subseteq Nat, SeqMonotonic DEF TypeInv
<1>5. Marks(cps, npast')
  BY <1>1, <1>2, <1>4, MarksGrow
<1> QED  BY <1>1, <1>2, <1>3, <1>5

\* The places are kept by a step of a user, of a turn or of a save,
LEMMA PlaceSession ==
    ASSUME TypeInv, FileInv, PlaceInv, UserStep \/ TurnStep \/ SaveStep \/ Restart
    PROVE  PlaceInv'
<1> USE DEF ctxVars, bookVars, disk, load
<1>0. npast \in Nat /\ cps \in Seq(Nat)
  BY 0..NCtx \subseteq Nat, SeqMonotonic DEF TypeInv
<1>a. ASSUME npast' = Len(tracker') /\ tracker' # <<>> /\ Marks(cps', npast'),
             pc' \notin {"fast", "probe", "slow", "feeding", "autoCaching"}
      PROVE  PlaceInv'
  BY <1>a DEF PlaceInv
<1>b. ASSUME UNCHANGED <<tracker, npast, cps>>, pc # "feeding",
             pc' \notin {"fast", "probe", "slow", "feeding", "autoCaching"}
      PROVE  PlaceInv'
  BY <1>b DEF PlaceInv
<1>1. CASE UserStep
  <2>1. ASSUME NEW typed \in BOOLEAN, StartTurn(typed)
        PROVE  PlaceInv'
    BY <2>1, <1>b DEF StartTurn, Idle
  <2>2. CASE ClearSession
    BY <2>2, <1>a, FreshPlaces DEF ClearSession, Idle
  <2>3. CASE SaveCommand
    BY <2>3, <1>b DEF SaveCommand, Idle
  <2>4. CASE QuitCommand
    BY <2>4, <1>b DEF QuitCommand, Idle
  <2>5. CASE LoadCommand
    <3>1. UNCHANGED <<tracker, npast, cps>> /\ pc = "idle" /\ pc' \in {"fast", "slow"}
          /\ tracker = SystemPrompt /\ cps = <<>>
      BY <2>5 DEF LoadCommand, Idle
    <3>2. npast = Len(tracker) /\ tracker # <<>> /\ Marks(cps, npast)
      BY <3>1 DEF PlaceInv
    <3> QED  BY <3>1, <3>2 DEF PlaceInv
  <2> QED  BY <1>1, <2>1, <2>2, <2>3, <2>4, <2>5 DEF UserStep
<1>2. CASE TurnStep
  <2>1. ASSUME NEW t \in Words, Say(t)
        PROVE  PlaceInv'
    <3>1. <<t>> \in Seq(Token)
      BY DEF Words
    <3>2. Commit(<<t>>) /\ cps' = cps /\ pc' = pc /\ pc \in {"turn", "more"}
      BY <2>1 DEF Say
    <3>3. npast = Len(tracker) /\ tracker # <<>> /\ Marks(cps, npast)
      BY <3>2 DEF PlaceInv
    <3>4. npast' = Len(tracker') /\ tracker' # <<>> /\ Marks(cps', npast')
      BY <3>1, <3>2, <3>3, CommitPlaces
    <3> QED  BY <1>a, <3>2, <3>4
  <2>2. CASE EndTurn
    <3>1. npast = Len(tracker) /\ tracker # <<>> /\ Marks(cps, npast)
      BY <2>2 DEF PlaceInv, EndTurn
    <3>2. UNCHANGED <<tracker, npast>> /\ pc' = "idle"
      BY <2>2 DEF EndTurn
    <3>3. Marks(Append(cps, npast), npast)
      <4>1. cps # <<>> => Last(cps) < npast
        BY <2>2, <1>0 DEF EndTurn, InTurn, Last
      <4>2. npast # 0
        BY <3>1 DEF TypeInv
      <4> QED  BY <1>0, <3>1, <4>1, <4>2, MarksAppend
    <3>4. Marks(cps', npast)
      BY <2>2, <3>1, <3>3 DEF EndTurn
    <3> QED  BY <1>a, <3>1, <3>2, <3>4
  <2> QED  BY <1>2, <2>1, <2>2 DEF TurnStep
<1>3. CASE SaveStep
  <2>1. CASE SaveWritten
    BY <2>1, <1>b DEF SaveWritten
  <2>2. CASE SaveFails
    BY <2>2, <1>b DEF SaveFails
  <2>3. CASE CacheWritten
    BY <2>3, <1>b DEF CacheWritten
  <2>4. ASSUME NEW begun \in {<<>>, <<Torn>>}, CacheBegun(begun)
        PROVE  PlaceInv'
    <3>1. /\ UNCHANGED <<mem, tracker, npast, cps, offset, file, limit, pc>>
          /\ pc \in {"caching", "quitCaching", "autoCaching"}
      BY <2>4 DEF CacheBegun
    <3> QED  BY <3>1 DEF PlaceInv, ReadCps
  <2> QED  BY <1>3, <2>1, <2>2, <2>3, <2>4 DEF SaveStep
<1>4. CASE Restart
  BY <1>4, <1>a, FreshPlaces DEF Restart
<1> QED  BY <1>1, <1>2, <1>3, <1>4
\* What a canary's step does: it adds to the tracker and to the cache.
LEMMA Probes ==
    ASSUME TypeInv, FileInv, PlaceInv, ProbeSteps
    PROVE  /\ pc = "probe" /\ pc' = pc
           /\ UNCHANGED <<bookVars, prevSave, disk, load, features>>
           /\ mem'.stack = mem.stack
           /\ \E add \in Seq(Token) :
                 /\ tracker' = tracker \o add /\ mem'.kv = mem.kv \o add
                 /\ npast' = npast + Len(add) /\ Len(add) <= NRsSeq + 1
                 /\ npast < Len(file.tokens) + CanaryMax
<1>1. PICK toks \in Seq(Token) : \E n \in 1..Len(toks) :
         /\ Len(toks) - NRsSeq <= n /\ Len(toks) <= NRsSeq + 1
         /\ ProbeStep(toks, n)
  BY ProbeBounds
<1>2. PICK n \in 1..Len(toks) :
         /\ Len(toks) - NRsSeq <= n /\ Len(toks) <= NRsSeq + 1
         /\ ProbeStep(toks, n)
  BY <1>1
<1>3. pc = "probe" /\ pc' = pc /\ UNCHANGED <<bookVars, prevSave, disk, load, features>>
  BY <1>2 DEF ProbeStep
<1>4. n \in 0..Len(toks) /\ n <= NRsSeq + 1
  BY <1>2, NRsSeqAssumption
<1> DEFINE add == Prefix(toks, n)
<1>5. add \in Seq(Token) /\ Len(add) = n
  BY <1>4, PrefixType
<1>6. Len(mem.kv) = npast
  BY <1>3 DEF PlaceInv
<1>7. mem' = SeqRm(Decode(mem, toks), Len(mem.kv) + n)
  BY <1>2, <1>6 DEF ProbeStep
<1>8. mem'.kv = mem.kv \o add /\ mem'.stack = mem.stack
  BY <1>2, <1>4, <1>7, ProbeExact DEF TypeInv
<1>9. tracker' = tracker \o add /\ npast' = npast + n
  BY <1>2 DEF ProbeStep
<1>10. npast < Len(file.tokens) + CanaryMax
  <2>1. ReadTokens(file) = file.tokens /\ Len(file.tokens) \in Nat
    BY <1>3, Reads DEF FileInv, Loading
  <2>2. npast - Len(file.tokens) < CanaryMax
    BY <1>2, <2>1 DEF ProbeStep, Probed, RestorePoint
  <2>3. npast \in Nat
    BY RestoreAssumption DEF TypeInv
  <2> QED  BY <2>1, <2>2, <2>3, RestoreAssumption
<1> HIDE DEF add
<1> QED  BY <1>3, <1>4, <1>5, <1>8, <1>9, <1>10

\* A canary that is clean leaves the tokens of the save.
LEMMA Cleans ==
    ASSUME TypeInv, FileInv, PlaceInv, CanaryClean
    PROVE  /\ pc = "probe" /\ pc' = "loaded" /\ Readable(file)
           /\ UNCHANGED <<bookVars, prevSave, disk, load, features>>
           /\ tracker' = file.tokens /\ npast' = Len(file.tokens)
           /\ mem'.kv = Prefix(mem.kv, Len(file.tokens)) /\ mem'.stack = mem.stack
           /\ ExactIn(features) => mem'.rsIdx = 0 /\ State(mem') = mem.stack[1]
<1>1. /\ pc = "probe" /\ pc' = "loaded"
      /\ UNCHANGED <<bookVars, prevSave, disk, load, features>>
  BY DEF CanaryClean
<1>2. Readable(file) /\ ReadTokens(file) = file.tokens /\ file.tokens \in Seq(Token)
  BY <1>1, Reads DEF FileInv, Loading
<1>3. /\ Len(mem.kv) = npast /\ Len(mem.stack) = 1 /\ npast = Len(tracker) /\ tracker # <<>>
      /\ Len(file.tokens) <= npast /\ Prefix(tracker, Len(file.tokens)) = file.tokens
  BY <1>1 DEF PlaceInv
<1>4. tracker \in Seq(Token) /\ mem.kv \in Seq(Token)
  BY FilledFields DEF TypeInv
<1> DEFINE p == Len(file.tokens)
           q == SeqRm(RsRestore(mem, 0), p)
<1>5. mem.kv # <<>> /\ p \in 0..Len(mem.kv) /\ Len(mem.stack) >= 1 /\ RestorePoint = p
  BY <1>2, <1>3, <1>4 DEF RestorePoint
<1>6. /\ SeqRmOk(RsRestore(mem, 0), p)
      /\ q.kv = Prefix(mem.kv, p) /\ q.stack = mem.stack
      /\ Len(mem.kv) = p \/ Len(mem.kv) - p > NRsSeq => q.rsIdx = 0 /\ State(q) = mem.stack[1]
  BY <1>5, CanaryBack DEF TypeInv
<1>7. mem' = q /\ npast' = p /\ tracker' = Prefix(tracker, p)
  BY <1>5, <1>6 DEF CanaryClean
<1>8. ExactIn(features) => Len(mem.kv) = p \/ Len(mem.kv) - p > NRsSeq
  <2>1. "short" \in features \/ npast - p = 0 \/ npast - p > NRsSeq
    BY <1>5 DEF CanaryClean, Probed
  <2> QED  BY <1>3, <1>4, <1>5, <2>1 DEF ExactIn
<1> HIDE DEF q
<1> QED  BY <1>1, <1>2, <1>3, <1>6, <1>7, <1>8

\* The entry that a load finds gives the tokens of the save.
LEMMA Hits ==
    ASSUME TypeInv, FileInv, PlaceInv, CacheHit
    PROVE  /\ pc = "fast" /\ UNCHANGED <<prevSave, disk, load, features>>
           /\ Readable(file) /\ ReadTokens(file) = file.tokens /\ file.tokens # <<>>
           /\ entry # <<>> /\ entry[1] \in EntryType /\ ~entry[1].torn
           /\ entry[1].tokens = file.tokens /\ Len(entry[1].kv) = Len(file.tokens)
           /\ tracker' = file.tokens /\ npast' = Len(file.tokens)
           /\ cps' = ReadCps(file) /\ offset' = OffsetOf(cps')
           /\ mem'.kv = entry[1].kv /\ mem'.rsIdx = 0 /\ State(mem') = entry[1].state
           /\ mem'.stack = IF CanaryEligible(entry[1]) \/ cps' # <<>> THEN <<entry[1].state>> ELSE <<>>
           /\ pc' = IF CanaryEligible(entry[1]) THEN "probe" ELSE "loaded"
<1> DEFINE e == entry[1]
<1>1. pc = "fast" /\ UNCHANGED <<prevSave, disk, load, features>> /\ entry # <<>> /\ Loadable(e)
  BY DEF CacheHit
<1>2. Readable(file) /\ ReadTokens(file) = file.tokens /\ file.tokens # <<>>
  BY <1>1, Reads DEF FileInv, Loading
<1>3. e \in EntryType /\ ~e.torn /\ e.tokens = file.tokens /\ Len(e.kv) = Len(file.tokens)
  BY <1>1, <1>2 DEF TypeInv, Loadable
<1>4. /\ mem' = IF CanaryEligible(e) \/ ReadCps(file) # <<>> THEN RsSave(LoadedMem(e))
                                                         ELSE LoadedMem(e)
      /\ tracker' = ReadTokens(file) /\ npast' = Len(e.kv)
      /\ cps' = ReadCps(file) /\ offset' = OffsetOf(ReadCps(file))
      /\ pc' = IF CanaryEligible(e) THEN "probe" ELSE "loaded"
  BY DEF CacheHit
<1>5. e.kv \in Seq(Token) /\ file.tokens \in Seq(Token) /\ e.kv # <<>>
  BY <1>2, <1>3, Reads DEF EntryType
<1> HIDE DEF e
<1> DEFINE m == LoadedMem(e)
<1>6. /\ m \in Filled /\ m.kv = e.kv /\ m.rsIdx = 0 /\ m.stack = <<>>
      /\ State(m) = e.state /\ m.planes[0] = e.state
  BY <1>3, LoadedExact
<1> HIDE DEF m
<1>7. /\ RsSave(m).kv = m.kv /\ RsSave(m).rsIdx = m.rsIdx
      /\ RsSave(m).stack = Append(m.stack, m.planes[0]) /\ State(RsSave(m)) = State(m)
  BY <1>5, <1>6, SaveExact
<1>8. Append(<<>>, e.state) = <<e.state>>
  OBVIOUS
<1>9. RsSave(m).stack = <<e.state>>
  BY <1>6, <1>7, <1>8
<1>10. mem' = IF CanaryEligible(e) \/ ReadCps(file) # <<>> THEN RsSave(m) ELSE m
  BY <1>4 DEF m
<1>11. /\ mem'.kv = e.kv /\ mem'.rsIdx = 0 /\ State(mem') = e.state
       /\ mem'.stack = IF CanaryEligible(e) \/ ReadCps(file) # <<>> THEN <<e.state>> ELSE <<>>
  <2>1. CASE CanaryEligible(e) \/ ReadCps(file) # <<>>
    BY <1>6, <1>7, <1>9, <1>10, <2>1
  <2>2. CASE ~(CanaryEligible(e) \/ ReadCps(file) # <<>>)
    BY <1>6, <1>10, <2>2
  <2> QED  BY <2>1, <2>2
<1> QED  BY <1>1, <1>2, <1>3, <1>4, <1>11 DEF e

\* A chunk: it is fed behind what was, and pushed at a checkpoint.
LEMMA Feeds ==
    ASSUME TypeInv, FileInv, PlaceInv, FeedChunk
    PROVE  LET toks == SubSeq(file.tokens, npast + 1, ChunkEnd)
               at == MarksLeft /\ NextMark <= ChunkEnd
           IN /\ pc = "feeding" /\ pc' = pc /\ npast < limit /\ npast' = ChunkEnd
              /\ UNCHANGED <<tracker, bookVars, prevSave, disk, load, features>>
              /\ toks \in Seq(Token) /\ toks # <<>>
              /\ Prefix(file.tokens, npast) \o toks = Prefix(file.tokens, ChunkEnd)
              /\ mem'.kv = mem.kv \o toks /\ mem'.rsIdx = 0
              /\ Coherent(mem) => Coherent(mem')
              /\ mem'.stack = IF at THEN Append(mem.stack, Decode(mem, toks).planes[0])
                                    ELSE mem.stack
              /\ Decode(mem, toks).planes[0] = State(mem')
<1> DEFINE toks == SubSeq(file.tokens, npast + 1, ChunkEnd)
           at == MarksLeft /\ NextMark <= ChunkEnd
           d == Decode(mem, toks)
<1>1. /\ pc = "feeding" /\ pc' = pc /\ npast < limit /\ npast' = ChunkEnd
      /\ UNCHANGED <<tracker, bookVars, prevSave, disk, load, features>>
  BY DEF FeedChunk
<1>2. ReadTokens(file) = file.tokens /\ file.tokens \in Seq(Token) /\ npast \in Nat
  BY <1>1, Reads, RestoreAssumption DEF FileInv, Loading, TypeInv
<1>3. ChunkEnd \in Nat /\ npast < ChunkEnd /\ ChunkEnd <= Len(file.tokens)
  BY <1>1, Chunk, Restored
<1>4. npast \in 0..Len(file.tokens) /\ ChunkEnd \in npast..Len(file.tokens)
  BY <1>2, <1>3
<1>5. /\ toks \in Seq(Token) /\ Len(toks) = ChunkEnd - npast
      /\ Prefix(file.tokens, npast) \o toks = Prefix(file.tokens, ChunkEnd)
  BY <1>2, <1>4, PrefixGrows
<1>6. mem' = IF at THEN RsSave(d) ELSE d
  BY <1>2 DEF FeedChunk
<1> HIDE DEF toks
<1>7. toks # <<>>
  BY <1>2, <1>3, <1>5
<1>8. d \in Filled /\ d.kv = mem.kv \o toks /\ d.rsIdx = 0 /\ d.stack = mem.stack
  BY <1>5, DecodeFilled DEF TypeInv
<1>9. Coherent(mem) => Coherent(d)
  BY <1>5, <1>7, DecodeExact DEF TypeInv
<1> HIDE DEF d, at
<1>10. d.kv # <<>>
  <2>1. mem.kv \in Seq(Token)
    BY FilledFields DEF TypeInv
  <2> QED  BY <1>5, <1>7, <1>8, <2>1
<1>11. /\ RsSave(d).kv = d.kv /\ RsSave(d).rsIdx = d.rsIdx
       /\ RsSave(d).stack = Append(d.stack, d.planes[0]) /\ State(RsSave(d)) = State(d)
  BY <1>8, <1>10, SaveExact
<1>12. State(d) = d.planes[0]
  BY <1>8 DEF State
<1>13. /\ mem'.kv = mem.kv \o toks /\ mem'.rsIdx = 0 /\ State(mem') = d.planes[0]
       /\ Coherent(mem) => Coherent(mem')
       /\ mem'.stack = IF at THEN Append(mem.stack, d.planes[0]) ELSE mem.stack
  <2>1. CASE at
    BY <1>6, <1>8, <1>9, <1>11, <1>12, <2>1 DEF Coherent
  <2>2. CASE ~at
    BY <1>6, <1>8, <1>9, <1>12, <2>2
  <2> QED  BY <2>1, <2>2
<1> QED  BY <1>1, <1>5, <1>7, <1>13 DEF toks, at, d
\* A re-decode ends with the save, whole or up to one of its checkpoints.
LEMMA Ends ==
    ASSUME TypeInv, FileInv, PlaceInv, RedecodeEnds
    PROVE  /\ pc = "feeding" /\ Readable(file)
           /\ UNCHANGED <<mem, npast, prevSave, disk, attempt, features>>
           /\ npast = limit /\ limit \in 1..Len(file.tokens)
           /\ tracker' = Prefix(file.tokens, limit) /\ Len(tracker') = limit
           /\ cps' = RestoredCps /\ offset' = 0
           /\ pc' = IF limit = Len(file.tokens) THEN "autoCaching" ELSE "loaded"
           /\ limit = Len(file.tokens) => tracker' = file.tokens /\ cps' = ReadCps(file)
           /\ limit # Len(file.tokens) =>
                 \E i \in 1..Len(file.cps) :
                    tracker' = Prefix(file.tokens, file.cps[i]) /\ cps' = Prefix(file.cps, i)
           /\ Len(mem.stack) = Len(cps')
<1>1. /\ pc = "feeding" /\ Readable(file) /\ ReadTokens(file) = file.tokens
      /\ UNCHANGED <<mem, npast, prevSave, disk, attempt, features>>
  BY Reads DEF RedecodeEnds, FileInv, Loading
<1>2. /\ npast = limit /\ tracker' = Prefix(file.tokens, limit) /\ cps' = RestoredCps
      /\ offset' = 0
      /\ pc' = IF limit = Len(file.tokens) THEN "autoCaching" ELSE "loaded"
  BY <1>1 DEF RedecodeEnds
<1>3. /\ RestoredCps \in Seq(Nat) /\ Marks(RestoredCps, limit)
      /\ limit \in Nat /\ limit <= Len(file.tokens) /\ limit # 0
      /\ limit = Len(file.tokens) => RestoredCps = ReadCps(file)
      /\ limit # Len(file.tokens) =>
            \E i \in 1..Len(ReadCps(file)) :
               limit = ReadCps(file)[i] /\ RestoredCps = Prefix(ReadCps(file), i)
  BY <1>1, Restored
<1>4. file.tokens \in Seq(Token) /\ file.cps \in Seq(0..NCtx)
  BY Reads
<1>5. limit \in 1..Len(file.tokens) /\ limit \in 0..Len(file.tokens)
  BY <1>3, <1>4
<1>6. Len(tracker') = limit
  BY <1>2, <1>4, <1>5, PrefixType
<1>7. limit = Len(file.tokens) => tracker' = file.tokens /\ cps' = ReadCps(file)
  BY <1>2, <1>3, <1>4, PrefixAll
<1>8. limit # Len(file.tokens) =>
         \E i \in 1..Len(file.cps) :
            tracker' = Prefix(file.tokens, file.cps[i]) /\ cps' = Prefix(file.cps, i)
  <2>1. CASE file.written = "all"
    <3>1. ReadCps(file) = file.cps
      BY <2>1 DEF ReadCps
    <3> QED  BY <1>2, <1>3, <3>1
  <2>2. CASE file.written # "all"
    <3>1. ReadCps(file) = <<>>
      BY <2>2 DEF ReadCps
    <3>2. limit = Len(file.tokens)
      BY <1>3, <3>1
    <3> QED  BY <3>2
  <2> QED  BY <2>1, <2>2
<1>9. Len(mem.stack) = Len(cps')
  <2>1. Len(mem.stack) <= Len(RestoredCps) /\ (MarksLeft => npast < NextMark)
    BY <1>1 DEF PlaceInv
  <2>2. mem.stack \in Seq(Seq(Token))
    BY FilledFields DEF TypeInv
  <2>3. ~MarksLeft
    <3>1. SUFFICES ASSUME MarksLeft PROVE FALSE
      OBVIOUS
    <3>2. Len(mem.stack) + 1 \in 1..Len(RestoredCps)
      BY <1>3, <2>2, <3>1 DEF MarksLeft
    <3>3. NextMark = RestoredCps[Len(mem.stack) + 1]
      BY <3>1 DEF NextMark
    <3>4. NextMark \in 1..limit
      BY <1>3, <3>2, <3>3 DEF Marks
    <3> QED  BY <1>2, <1>3, <2>1, <3>1, <3>4
  <2> QED  BY <1>2, <1>3, <2>1, <2>2, <2>3 DEF MarksLeft
<1> QED  BY <1>1, <1>2, <1>5, <1>6, <1>7, <1>8, <1>9

\* and by one of a load.
LEMMA PlaceLoad ==
    ASSUME TypeInv, FileInv, PlaceInv, LoadStep
    PROVE  PlaceInv'
<1> USE DEF ctxVars, bookVars, disk, load
<1>0. npast \in Nat /\ cps \in Seq(Nat) /\ tracker \in Seq(Token) /\ file.tokens \in Seq(Token)
  BY 0..NCtx \subseteq Nat, SeqMonotonic DEF TypeInv, Files
<1>a. ASSUME npast' = Len(tracker') /\ tracker' # <<>> /\ Marks(cps', npast'),
             pc' \notin {"fast", "probe", "slow", "feeding", "autoCaching"}
      PROVE  PlaceInv'
  BY <1>a DEF PlaceInv
<1>b. ASSUME UNCHANGED <<tracker, npast, cps>>, pc # "feeding",
             pc' \notin {"fast", "probe", "slow", "feeding", "autoCaching"}
      PROVE  PlaceInv'
  BY <1>b DEF PlaceInv
<1>c. ASSUME UNCHANGED <<tracker, npast, cps>>, pc = "fast", pc' = "slow"
      PROVE  PlaceInv'
  BY <1>c DEF PlaceInv
<1>1. CASE CacheMiss
  BY <1>1, <1>c DEF CacheMiss
<1>2. ASSUME NEW kv \in {<<>>, entry[1].kv}, StateSetFails([EmptyMem EXCEPT !.kv = kv])
      PROVE  PlaceInv'
  BY <1>2, <1>c DEF StateSetFails
<1>3. CASE CacheHit
  <2>1. /\ UNCHANGED file /\ ReadTokens(file) = file.tokens /\ file.tokens # <<>>
        /\ entry[1].state \in Seq(Token) /\ Len(entry[1].kv) = Len(file.tokens)
        /\ tracker' = file.tokens /\ npast' = Len(file.tokens)
        /\ cps' = ReadCps(file) /\ offset' = OffsetOf(cps')
        /\ mem'.kv = entry[1].kv
        /\ mem'.stack = IF CanaryEligible(entry[1]) \/ cps' # <<>> THEN <<entry[1].state>> ELSE <<>>
        /\ pc' = IF CanaryEligible(entry[1]) THEN "probe" ELSE "loaded"
    BY <1>3, Hits DEF EntryType
  <2>2. Marks(cps', npast')
    BY <2>1, Reads
  <2>3. CASE CanaryEligible(entry[1])
    <3>1. Len(file.tokens) + CanaryMax + Overshoot < NCtx
      BY <2>1, <2>3 DEF CanaryEligible
    <3>2. Prefix(tracker', Len(file.tokens)) = file.tokens
      BY <1>0, <2>1, PrefixAll
    <3>3. Len(mem'.kv) = npast' /\ Len(mem'.stack) = 1
      BY <2>1, <2>3
    <3>4. npast' <= Len(file.tokens) + CanaryMax + NRsSeq /\ Len(file.tokens) <= npast'
      BY <1>0, <2>1, RestoreAssumption, NRsSeqAssumption
    <3>5. ReadCps(file)' = ReadCps(file) /\ file' = file
      BY <2>1 DEF ReadCps
    <3>6. pc' = "probe"
      BY <2>1, <2>3
    <3> QED  BY <2>1, <2>2, <3>1, <3>2, <3>3, <3>4, <3>5, <3>6 DEF PlaceInv
  <2>4. CASE ~CanaryEligible(entry[1])
    BY <1>a, <2>1, <2>2, <2>4
  <2> QED  BY <2>3, <2>4
<1>4. CASE ProbeSteps
  <2>1. /\ pc = "probe" /\ pc' = pc /\ UNCHANGED <<cps, offset, file, features>>
        /\ mem'.stack = mem.stack
    BY <1>4, Probes
  <2>2. PICK add \in Seq(Token) :
           /\ tracker' = tracker \o add /\ mem'.kv = mem.kv \o add
           /\ npast' = npast + Len(add) /\ Len(add) <= NRsSeq + 1
           /\ npast < Len(file.tokens) + CanaryMax
    BY <1>4, Probes
  <2>3. /\ npast = Len(tracker) /\ tracker # <<>> /\ Marks(cps, npast)
        /\ cps = ReadCps(file) /\ offset = OffsetOf(cps)
        /\ Len(file.tokens) <= npast
        /\ Prefix(tracker, Len(file.tokens)) = file.tokens
        /\ Len(file.tokens) + CanaryMax + Overshoot < NCtx
        /\ Len(mem.kv) = npast /\ Len(mem.stack) = 1
    BY <2>1 DEF PlaceInv
  <2>4. mem.kv \in Seq(Token) /\ Len(add) \in Nat /\ Len(file.tokens) \in Nat
    BY <1>0, FilledFields DEF TypeInv
  <2>5. npast' = Len(tracker') /\ tracker' # <<>> /\ Len(mem'.kv) = npast'
    <3>1. Len(tracker \o add) = Len(tracker) + Len(add) /\ tracker \o add # <<>>
      BY <1>0, <2>3
    <3>2. Len(mem.kv \o add) = Len(mem.kv) + Len(add)
      BY <2>4
    <3> QED  BY <2>2, <2>3, <3>1, <3>2
  <2>6. Marks(cps', npast')
    BY <1>0, <2>1, <2>2, <2>3, <2>4, MarksGrow
  <2>7. npast' <= Len(file.tokens) + CanaryMax + NRsSeq /\ Len(file.tokens) <= npast'
    BY <1>0, <2>2, <2>3, <2>4, RestoreAssumption, NRsSeqAssumption
  <2>8. Prefix(tracker', Len(file.tokens)) = file.tokens
    <3>1. Len(tracker) \in 0..Len(tracker) /\ Len(file.tokens) \in 0..Len(tracker)
      BY <1>0, <2>3, <2>4
    <3>2. Prefix(tracker \o add, Len(file.tokens)) = Prefix(tracker, Len(file.tokens))
      BY <1>0, <3>1, PrefixWithin
    <3> QED  BY <2>2, <2>3, <3>2
  <2>9. ReadCps(file)' = ReadCps(file) /\ file' = file
    BY <2>1 DEF ReadCps
  <2>10. mem'.stack = mem.stack /\ cps' = cps /\ offset' = offset /\ pc' = "probe"
    BY <2>1
  <2> QED  BY <2>3, <2>5, <2>6, <2>7, <2>8, <2>9, <2>10 DEF PlaceInv
<1>5. CASE CanaryClean
  <2>1. /\ pc = "probe" /\ pc' = "loaded" /\ cps' = cps /\ Readable(file)
        /\ tracker' = file.tokens /\ npast' = Len(file.tokens)
    BY <1>5, Cleans
  <2>2. cps = ReadCps(file)
    BY <2>1 DEF PlaceInv
  <2>3. Marks(cps', npast') /\ file.tokens # <<>>
    BY <2>1, <2>2, Reads DEF FileInv
  <2> QED  BY <1>a, <2>1, <2>3
<1>6. CASE CanaryCorrupt
  <2>1. CASE attempt < MaxRetries
    <3>1. Fresh /\ pc' = "fast"
      BY <1>6, <2>1 DEF CanaryCorrupt
    <3>2. tracker' = SystemPrompt /\ cps' = <<>>
      BY <3>1 DEF Fresh
    <3> QED  BY <3>1, <3>2, FreshPlaces DEF PlaceInv
  <2>2. CASE ~(attempt < MaxRetries)
    <3>1. /\ pc = "probe" /\ pc' = "slow" /\ UNCHANGED <<tracker, npast, cps, features>>
          /\ "corrupt" \in features
      BY <1>6, <2>2 DEF CanaryCorrupt
    <3> QED  BY <3>1 DEF PlaceInv
  <2> QED  BY <2>1, <2>2
<1>7. ASSUME NEW to \in 0..NCtx, Redecode(to)
      PROVE  PlaceInv'
  <2>1. /\ pc = "slow" /\ to \in Range(ReadCps(file)) \cup {Len(file.tokens)}
        /\ npast' = 0 /\ limit' = to /\ pc' = "feeding" /\ file' = file
    BY <1>7 DEF Redecode
  <2>2. mem'.stack = <<>>
    BY <1>7 DEF Redecode, EmptyMem
  <2>3. ReadCps(file) \in Seq(Nat) /\ Marks(ReadCps(file), Len(file.tokens)) /\ file.tokens # <<>>
    BY <2>1, Reads DEF FileInv, Loading
  <2>4. to = Len(file.tokens) \/ \E i \in 1..Len(ReadCps(file)) : to = ReadCps(file)[i]
    BY <2>1, <2>3 DEF Range
  <2>5. to \in 1..Len(file.tokens)
    <3>1. CASE to = Len(file.tokens)
      BY <1>0, <2>3, <3>1
    <3>2. ASSUME NEW i \in 1..Len(ReadCps(file)), to = ReadCps(file)[i]
          PROVE  to \in 1..Len(file.tokens)
      BY <2>3, <3>2 DEF Marks
    <3> QED  BY <2>4, <3>1, <3>2
  <2>6. ReadCps(file)' = ReadCps(file)
    BY <2>1 DEF ReadCps
  <2> DEFINE r == UpTo(ReadCps(file), to)
  <2>7. r \in Seq(Nat) /\ Marks(r, to)
    <3>1. UpTo(ReadCps(file), Len(file.tokens)) = ReadCps(file)
          /\ \A i \in 1..Len(ReadCps(file)) : UpTo(ReadCps(file), ReadCps(file)[i]) = Prefix(ReadCps(file), i)
      BY <1>0, <2>3, UpToMark
    <3>2. CASE to = Len(file.tokens)
      BY <2>3, <3>1, <3>2
    <3>3. ASSUME NEW i \in 1..Len(ReadCps(file)), to = ReadCps(file)[i]
          PROVE  r \in Seq(Nat) /\ Marks(r, to)
      <4>1. r = Prefix(ReadCps(file), i)
        BY <3>1, <3>3
      <4> QED  BY <2>3, <3>3, <4>1, MarksPrefix
    <3> QED  BY <2>4, <3>2, <3>3
  <2>8. RestoredCps' = r
    BY <2>1, <2>6 DEF RestoredCps
  <2> HIDE DEF r
  <2>9. Len(mem'.stack) <= Len(RestoredCps') /\ (MarksLeft' => npast' < NextMark')
    <3>1. Len(mem'.stack) = 0 /\ Len(r) \in Nat
      BY <2>2, <2>7
    <3>2. ASSUME MarksLeft'
          PROVE  npast' < NextMark'
      <4>1. Len(r) > 0 /\ NextMark' = r[1]
        BY <2>8, <3>1, <3>2 DEF MarksLeft, NextMark
      <4>2. r[1] \in 1..to
        BY <2>7, <4>1 DEF Marks
      <4> QED  BY <2>1, <4>1, <4>2
    <3> QED  BY <2>8, <3>1, <3>2
  <2> QED  BY <2>1, <2>4, <2>5, <2>6, <2>9 DEF PlaceInv
<1>8. CASE FeedChunk
  <2> DEFINE toks == SubSeq(file.tokens, npast + 1, ChunkEnd)
             at == MarksLeft /\ NextMark <= ChunkEnd
  <2>1. /\ pc = "feeding" /\ pc' = pc /\ npast < limit /\ npast' = ChunkEnd
        /\ UNCHANGED <<cps, file, limit, features>>
        /\ \E st : mem'.stack = IF at THEN Append(mem.stack, st) ELSE mem.stack
    BY <1>8, Feeds
  <2>2. /\ ChunkEnd \in Nat /\ npast < ChunkEnd /\ ChunkEnd <= limit
        /\ NextMark \in Nat /\ ChunkEnd <= NextMark
        /\ MarksLeft => /\ Len(mem.stack) + 1 \in 1..Len(RestoredCps)
                        /\ NextMark = RestoredCps[Len(mem.stack) + 1]
    BY <2>1, Chunk
  <2>3. RestoredCps \in Seq(Nat) /\ Marks(RestoredCps, limit) /\ mem.stack \in Seq(Seq(Token))
    BY <2>1, Restored, FilledFields DEF TypeInv
  <2>4. /\ limit \in 1..Len(file.tokens) /\ Len(mem.stack) <= Len(RestoredCps)
        /\ limit = Len(file.tokens) \/ \E i \in 1..Len(ReadCps(file)) : limit = ReadCps(file)[i]
    BY <2>1 DEF PlaceInv
  <2>5. ReadCps(file)' = ReadCps(file) /\ RestoredCps' = RestoredCps /\ limit' = limit
    BY <2>1 DEF RestoredCps, ReadCps
  <2>6. Len(mem'.stack) = IF at THEN Len(mem.stack) + 1 ELSE Len(mem.stack)
    <3>1. PICK st : mem'.stack = IF at THEN Append(mem.stack, st) ELSE mem.stack
      BY <2>1
    <3>2. Len(Append(mem.stack, st)) = Len(mem.stack) + 1
      BY <2>3
    <3> QED  BY <3>1, <3>2
  <2>7. Len(mem'.stack) <= Len(RestoredCps)
    BY <2>2, <2>3, <2>4, <2>6
  <2>8. ASSUME MarksLeft'
        PROVE  npast' < NextMark'
    <3>1. Len(mem'.stack) < Len(RestoredCps) /\ NextMark' = RestoredCps[Len(mem'.stack) + 1]
      BY <2>5, <2>8 DEF MarksLeft, NextMark
    <3>2. CASE at
      <4>1. Len(mem.stack) + 2 \in 1..Len(RestoredCps) /\ Len(mem.stack) + 1 \in 1..(Len(mem.stack) + 2 - 1)
        BY <2>3, <2>6, <3>1, <3>2
      <4>2. RestoredCps[Len(mem.stack) + 1] < RestoredCps[Len(mem.stack) + 2]
        BY <2>3, <4>1 DEF Marks
      <4>3. ChunkEnd = RestoredCps[Len(mem.stack) + 1]
        BY <2>2, <3>2
      <4>4. NextMark' = RestoredCps[Len(mem.stack) + 2]
        BY <2>3, <2>6, <3>1, <3>2
      <4> QED  BY <2>1, <4>2, <4>3, <4>4
    <3>3. CASE ~at
      <4>1. MarksLeft /\ NextMark' = NextMark
        BY <2>5, <2>6, <2>8, <3>3 DEF MarksLeft, NextMark
      <4> QED  BY <2>1, <2>2, <3>3, <4>1
    <3> QED  BY <3>2, <3>3
  <2>9. npast' <= limit' /\ pc' = "feeding" /\ file' = file
    BY <2>1, <2>2, <2>5
  <2> QED  BY <2>4, <2>5, <2>7, <2>8, <2>9 DEF PlaceInv
<1>9. CASE RedecodeEnds
  <2>1. /\ npast = limit /\ limit \in 1..Len(file.tokens) /\ npast' = npast /\ file' = file
        /\ Len(tracker') = limit /\ cps' = RestoredCps /\ pc = "feeding"
        /\ pc' = IF limit = Len(file.tokens) THEN "autoCaching" ELSE "loaded"
        /\ limit = Len(file.tokens) => tracker' = file.tokens /\ cps' = ReadCps(file)
    BY <1>9, Ends
  <2>2. npast' = Len(tracker') /\ tracker' # <<>> /\ Marks(cps', npast')
    BY <2>1, Restored
  <2>3. ReadCps(file)' = ReadCps(file)
    BY <2>1 DEF ReadCps
  <2> QED  BY <2>1, <2>2, <2>3 DEF PlaceInv
<1>10. CASE RedecodeFails
  BY <1>10, <1>a, FreshPlaces DEF RedecodeFails
<1>11. CASE RestoreCancelled
  BY <1>11, <1>b DEF RestoreCancelled
<1>12. ASSUME NEW note \in {<<>>} \cup {<<t>> : t \in Words}, LoadEnds(note)
       PROVE  PlaceInv'
  <2>1. CASE note = <<>>
    BY <1>12, <2>1, <1>b DEF LoadEnds
  <2>2. CASE note # <<>>
    <3>1. note \in Seq(Token)
      <4>1. PICK t \in Token : note = <<t>>
        BY <1>12, <2>2 DEF Words
      <4> QED  BY <4>1
    <3>2. Commit(note) /\ cps' = cps /\ pc = "loaded" /\ pc' = "idle"
      BY <1>12, <2>2 DEF LoadEnds
    <3>3. npast = Len(tracker) /\ tracker # <<>> /\ Marks(cps, npast)
      BY <3>2 DEF PlaceInv
    <3>4. npast' = Len(tracker') /\ tracker' # <<>> /\ Marks(cps', npast')
      BY <3>1, <3>2, <3>3, CommitPlaces
    <3> QED  BY <1>a, <3>2, <3>4
  <2> QED  BY <2>1, <2>2
<1>13. \/ CacheMiss
       \/ (entry # <<>> /\ \E kv \in {<<>>, entry[1].kv} : StateSetFails([EmptyMem EXCEPT !.kv = kv]))
       \/ CacheHit \/ ProbeSteps \/ CanaryClean \/ CanaryCorrupt
       \/ (\E to \in 0..NCtx : Redecode(to)) \/ FeedChunk \/ RedecodeEnds \/ RedecodeFails
       \/ RestoreCancelled
       \/ \E note \in {<<>>} \cup {<<t>> : t \in Words} : LoadEnds(note)
  BY DEF LoadStep
<1> QED  BY <1>1, <1>2, <1>3, <1>4, <1>5, <1>6, <1>7, <1>8, <1>9, <1>10, <1>11, <1>12, <1>13
-----------------------------------------------------------------------------
\* The features of a behaviour stay.
LEMMA SameFeatures ==
    ASSUME Next
    PROVE  features' = features
<1>1. CASE UserStep
  BY <1>1 DEF UserStep, StartTurn, ClearSession, SaveCommand, QuitCommand, LoadCommand
<1>2. CASE TurnStep
  BY <1>2 DEF TurnStep, Say, EndTurn
<1>3. CASE SaveStep
  BY <1>3 DEF SaveStep, SaveWritten, SaveFails, CacheWritten, CacheBegun
<1>4. CASE LoadStep
  BY <1>4, LoadKeeps
<1>5. CASE Restart
  BY <1>5 DEF Restart
<1> QED  BY <1>1, <1>2, <1>3, <1>4, <1>5 DEF Next

\* A fresh session is one context,
LEMMA FreshIsExact ==
    ASSUME Fresh
    PROVE  Exact'
BY FreshExact DEF Fresh, Exact, Coherent, State

\* and so is what is fed behind one.
LEMMA CommitIsExact ==
    ASSUME TypeInv, Exact, NEW toks \in Seq(Token), toks # <<>>, Commit(toks)
    PROVE  Exact'
<1>1. mem \in Filled /\ tracker \in Seq(Token) /\ mem.kv = tracker /\ npast = Len(tracker)
      /\ Coherent(mem)
  BY DEF TypeInv, Exact
<1>2. mem' = Decode(mem, toks) /\ tracker' = tracker \o toks /\ npast' = npast + Len(toks)
  BY DEF Commit
<1>3. mem'.kv = mem.kv \o toks /\ mem'.rsIdx = 0 /\ Coherent(Decode(mem, toks))
  BY <1>1, <1>2, DecodeExact
<1>4. Len(tracker \o toks) = Len(tracker) + Len(toks)
  BY <1>1
<1>5. Coherent(mem)'
  BY <1>2, <1>3 DEF Coherent, State
<1> QED  BY <1>1, <1>2, <1>3, <1>4, <1>5 DEF Exact

\* The entry that a session leaves is sound.
LEMMA EntryIsSound ==
    ASSUME Exact
    PROVE  Sound(NewEntry) /\ Sound(Torn)
<1>1. Sound(NewEntry)
  BY DEF Exact, Sound, NewEntry, Coherent
<1>2. Torn.torn
  BY DEF Torn, NewEntry
<1> QED  BY <1>1, <1>2 DEF Sound

\* The context is one context behind a step of a user, of a turn or of a save,
LEMMA ExactSession ==
    ASSUME TypeInv, FileInv, PlaceInv, ExactInv, ExactIn(features),
           UserStep \/ TurnStep \/ SaveStep \/ Restart
    PROVE  ExactInv'
<1> USE DEF ctxVars, bookVars, disk, load
<1>0. entry # <<>> => Sound(entry[1])
  BY DEF ExactInv
<1>1. ASSUME Exact', entry' # <<>> => Sound(entry'[1]), pc' \notin {"probe", "feeding"}
      PROVE  ExactInv'
  BY <1>1 DEF ExactInv, Sound
<1>2. ASSUME pc \notin {"probe", "slow", "feeding"}
      PROVE  Exact
  BY <1>2 DEF ExactInv, Settled
<1>3. ASSUME Exact, UNCHANGED <<mem, tracker, npast>>
      PROVE  Exact'
  BY <1>3 DEF Exact, Coherent, State
<1>4. CASE UserStep
  <2>1. Exact
    BY <1>2, <1>4 DEF UserStep, StartTurn, ClearSession, SaveCommand, QuitCommand, LoadCommand, Idle
  <2>2. ASSUME NEW typed \in BOOLEAN, StartTurn(typed)
        PROVE  ExactInv'
    BY <2>1, <2>2, <1>0, <1>1, <1>3 DEF StartTurn
  <2>3. CASE ClearSession
    BY <2>3, <1>0, <1>1, FreshIsExact DEF ClearSession, Idle
  <2>4. CASE SaveCommand
    BY <2>1, <2>4, <1>0, <1>1, <1>3 DEF SaveCommand
  <2>5. CASE QuitCommand
    BY <2>1, <2>5, <1>0, <1>1, <1>3 DEF QuitCommand
  <2>6. CASE LoadCommand
    BY <2>1, <2>6, <1>0, <1>1, <1>3 DEF LoadCommand
  <2> QED  BY <1>4, <2>2, <2>3, <2>4, <2>5, <2>6 DEF UserStep
<1>5. CASE TurnStep
  <2>1. Exact /\ pc \in {"turn", "more"} /\ entry' = entry
    BY <1>2, <1>5 DEF TurnStep, Say, EndTurn
  <2>2. ASSUME NEW t \in Words, Say(t)
        PROVE  ExactInv'
    <3>1. <<t>> \in Seq(Token) /\ <<t>> # <<>>
      BY DEF Words
    <3>2. Commit(<<t>>) /\ pc' = pc
      BY <2>2 DEF Say
    <3>3. Exact'
      BY <2>1, <3>1, <3>2, CommitIsExact
    <3> QED  BY <1>0, <1>1, <2>1, <3>2, <3>3
  <2>3. CASE EndTurn
    <3>1. mem' = IF pc = "turn" THEN RsSave(mem) ELSE mem
      BY <2>3 DEF EndTurn
    <3>2. UNCHANGED <<tracker, npast>> /\ pc' = "idle"
      BY <2>3 DEF EndTurn
    <3>3. mem.kv = tracker /\ tracker # <<>> /\ mem.rsIdx = 0 /\ Coherent(mem)
      BY <2>1 DEF Exact, PlaceInv
    <3>4. /\ RsSave(mem).kv = mem.kv /\ RsSave(mem).rsIdx = mem.rsIdx
          /\ State(RsSave(mem)) = State(mem)
      BY <3>3, SaveExact DEF TypeInv
    <3>5. mem'.kv = mem.kv /\ mem'.rsIdx = 0 /\ Coherent(mem)'
      <4>1. CASE pc = "turn"
        BY <3>1, <3>3, <3>4, <4>1 DEF Coherent, State
      <4>2. CASE pc # "turn"
        BY <3>1, <3>3, <4>2 DEF Coherent, State
      <4> QED  BY <4>1, <4>2
    <3>6. Exact'
      BY <2>1, <3>2, <3>3, <3>5 DEF Exact
    <3> QED  BY <1>0, <1>1, <2>1, <3>2, <3>6
  <2> QED  BY <1>5, <2>2, <2>3 DEF TurnStep
<1>6. CASE SaveStep
  <2>1. Exact /\ UNCHANGED <<mem, tracker, npast>> /\ pc' \notin {"probe", "feeding"}
    BY <1>2, <1>6 DEF SaveStep, SaveWritten, SaveFails, CacheWritten, CacheBegun
  <2>2. Exact'
    BY <2>1, <1>3
  <2>3. entry' \in {entry, <<>>, <<NewEntry>>, <<Torn>>}
    BY <1>6 DEF SaveStep, SaveWritten, SaveFails, CacheWritten, CacheBegun
  <2>4. entry' # <<>> => Sound(entry'[1])
    BY <2>1, <2>3, <1>0, EntryIsSound
  <2> QED  BY <2>1, <2>2, <2>4, <1>1
<1>7. CASE Restart
  BY <1>7, <1>0, <1>1, FreshIsExact DEF Restart
<1> QED  BY <1>4, <1>5, <1>6, <1>7

\* and one of a load.
LEMMA ExactLoad ==
    ASSUME TypeInv, FileInv, PlaceInv, ExactInv, ExactIn(features), LoadStep
    PROVE  ExactInv'
<1> USE DEF ctxVars, bookVars, disk, load
<1>0. entry # <<>> => Sound(entry[1])
  BY DEF ExactInv
<1>f. features' = features
  BY LoadKeeps
<1>1. ASSUME Exact', entry' # <<>> => Sound(entry'[1]), pc' \notin {"probe", "feeding"}
      PROVE  ExactInv'
  BY <1>1 DEF ExactInv, Sound
<1>2. ASSUME Settled
      PROVE  Exact
  BY <1>2 DEF ExactInv
<1>3. ASSUME Exact, UNCHANGED <<mem, tracker, npast>>
      PROVE  Exact'
  BY <1>3 DEF Exact, Coherent, State
<1>4. CASE CacheMiss
  <2>1. Exact
    BY <1>4, <1>2 DEF CacheMiss, Settled
  <2>2. entry' = <<>> \/ entry' = entry
    BY <1>4 DEF CacheMiss
  <2> QED  BY <1>0, <1>1, <1>3, <1>4, <2>1, <2>2 DEF CacheMiss
<1>5. ASSUME NEW kv \in {<<>>, entry[1].kv}, StateSetFails([EmptyMem EXCEPT !.kv = kv])
      PROVE  ExactInv'
  <2>1. "pressure" \in features /\ pc' = "slow" /\ entry' = entry
    BY <1>5 DEF StateSetFails
  <2> QED  BY <1>0, <1>f, <2>1 DEF ExactInv, Settled, Sound
<1>6. CASE CacheHit
  <2>1. /\ entry' = entry /\ entry # <<>> /\ file' = file
        /\ ~entry[1].torn /\ entry[1].tokens = file.tokens /\ Len(entry[1].kv) = Len(file.tokens)
        /\ tracker' = file.tokens /\ npast' = Len(file.tokens)
        /\ mem'.kv = entry[1].kv /\ mem'.rsIdx = 0 /\ State(mem') = entry[1].state
        /\ mem'.stack = IF CanaryEligible(entry[1]) \/ cps' # <<>> THEN <<entry[1].state>> ELSE <<>>
        /\ pc' = IF CanaryEligible(entry[1]) THEN "probe" ELSE "loaded"
    BY <1>6, Hits
  <2>2. entry[1].kv = file.tokens /\ entry[1].state = file.tokens
    BY <2>1, <1>0 DEF Sound
  <2>3. Coherent(mem)'
    BY <2>1, <2>2 DEF Coherent, State
  <2>4. Exact'
    BY <2>1, <2>2, <2>3 DEF Exact
  <2>5. CASE CanaryEligible(entry[1])
    <3>1. pc' = "probe" /\ mem'.stack[1] = file.tokens /\ mem'.kv = tracker'
      BY <2>1, <2>2, <2>5
    <3> QED  BY <1>0, <2>1, <2>4, <3>1 DEF ExactInv, Sound
  <2>6. CASE ~CanaryEligible(entry[1])
    BY <1>0, <1>1, <2>1, <2>4, <2>6
  <2> QED  BY <2>5, <2>6
<1>7. CASE ProbeSteps
  <2>1. /\ pc = "probe" /\ pc' = pc /\ UNCHANGED <<file, entry>> /\ mem'.stack = mem.stack
        /\ \E add \in Seq(Token) : tracker' = tracker \o add /\ mem'.kv = mem.kv \o add
    BY <1>7, Probes
  <2>2. mem.kv = tracker /\ mem.stack[1] = file.tokens
    BY <2>1 DEF ExactInv
  <2>3. mem'.kv = tracker' /\ mem'.stack[1] = file'.tokens
    BY <2>1, <2>2
  <2> QED  BY <1>0, <2>1, <2>3 DEF ExactInv, Settled, Sound
<1>8. CASE CanaryClean
  <2>1. /\ pc = "probe" /\ pc' = "loaded" /\ UNCHANGED <<file, entry>>
        /\ tracker' = file.tokens /\ npast' = Len(file.tokens)
        /\ mem'.kv = Prefix(mem.kv, Len(file.tokens))
        /\ mem'.rsIdx = 0 /\ State(mem') = mem.stack[1]
    BY <1>8, Cleans
  <2>2. mem.kv = tracker /\ mem.stack[1] = file.tokens
    BY <2>1 DEF ExactInv
  <2>3. Prefix(tracker, Len(file.tokens)) = file.tokens
    BY <2>1 DEF PlaceInv
  <2>4. Coherent(mem)'
    BY <2>1, <2>2, <2>3 DEF Coherent, State
  <2>5. Exact'
    BY <2>1, <2>2, <2>3, <2>4 DEF Exact
  <2> QED  BY <1>0, <1>1, <2>1, <2>5
<1>9. CASE CanaryCorrupt
  <2>1. CASE attempt < MaxRetries
    BY <1>0, <1>1, <1>9, <2>1, FreshIsExact DEF CanaryCorrupt
  <2>2. CASE ~(attempt < MaxRetries)
    <3>1. "corrupt" \in features /\ pc' = "slow" /\ entry' = entry
      BY <1>9, <2>2 DEF CanaryCorrupt
    <3> QED  BY <1>0, <1>f, <3>1 DEF ExactInv, Settled, Sound
  <2> QED  BY <2>1, <2>2
<1>10. ASSUME NEW to \in 0..NCtx, Redecode(to)
       PROVE  ExactInv'
  <2>1. /\ mem' = EmptyMem /\ npast' = 0 /\ pc' = "feeding" /\ UNCHANGED <<file, entry>>
    BY <1>10 DEF Redecode
  <2>2. mem'.kv = <<>> /\ mem'.rsIdx = 0
    BY <2>1 DEF EmptyMem
  <2>3. Coherent(mem)'
    BY <2>1, EmptyFilled DEF Coherent, State
  <2>4. Prefix(file'.tokens, 0) = <<>>
    BY Reads, <2>1 DEF Prefix
  <2> QED  BY <1>0, <2>1, <2>2, <2>3, <2>4 DEF ExactInv, Settled, Sound
<1>11. CASE FeedChunk
  <2> DEFINE toks == SubSeq(file.tokens, npast + 1, ChunkEnd)
  <2>1. /\ pc = "feeding" /\ pc' = pc /\ npast' = ChunkEnd /\ UNCHANGED <<file, entry>>
        /\ Prefix(file.tokens, npast) \o toks = Prefix(file.tokens, ChunkEnd)
        /\ mem'.kv = mem.kv \o toks /\ mem'.rsIdx = 0
        /\ Coherent(mem) => Coherent(mem')
    BY <1>11, Feeds
  <2> HIDE DEF toks
  <2>2. mem.kv = Prefix(file.tokens, npast) /\ Coherent(mem)
    BY <2>1 DEF ExactInv
  <2>3. mem'.kv = Prefix(file'.tokens, npast') /\ Coherent(mem)'
    BY <2>1, <2>2 DEF Coherent, State
  <2> QED  BY <1>0, <2>1, <2>3 DEF ExactInv, Settled, Sound
<1>12. CASE RedecodeEnds
  <2>1. /\ pc = "feeding" /\ UNCHANGED <<mem, npast, file, entry>> /\ npast = limit
        /\ tracker' = Prefix(file.tokens, limit) /\ Len(tracker') = limit
        /\ pc' \in {"autoCaching", "loaded"}
    BY <1>12, Ends
  <2>2. mem.kv = Prefix(file.tokens, npast) /\ mem.rsIdx = 0 /\ Coherent(mem)
    BY <2>1 DEF ExactInv
  <2>3. Exact'
    BY <2>1, <2>2 DEF Exact, Coherent, State
  <2> QED  BY <1>0, <1>1, <2>1, <2>3
<1>13. CASE RedecodeFails
  BY <1>0, <1>1, <1>13, FreshIsExact DEF RedecodeFails
<1>14. CASE RestoreCancelled
  <2>1. pc = "slow" /\ "cancel" \in features
    BY <1>14 DEF RestoreCancelled
  <2>2. Settled
    BY <2>1 DEF ExactIn, Settled
  <2> QED  BY <1>0, <1>1, <1>2, <1>3, <1>14, <2>2 DEF RestoreCancelled
<1>15. ASSUME NEW note \in {<<>>} \cup {<<t>> : t \in Words}, LoadEnds(note)
       PROVE  ExactInv'
  <2>1. pc = "loaded" /\ pc' = "idle" /\ entry' = entry
    BY <1>15 DEF LoadEnds
  <2>2. Exact
    BY <1>2, <2>1 DEF Settled
  <2>3. CASE note = <<>>
    BY <1>0, <1>1, <1>3, <1>15, <2>1, <2>2, <2>3 DEF LoadEnds
  <2>4. CASE note # <<>>
    <3>1. note \in Seq(Token)
      <4>1. PICK t \in Token : note = <<t>>
        BY <1>15, <2>4 DEF Words
      <4> QED  BY <4>1
    <3>2. Commit(note)
      BY <1>15, <2>4 DEF LoadEnds
    <3>3. Exact'
      BY <2>2, <2>4, <3>1, <3>2, CommitIsExact
    <3> QED  BY <1>0, <1>1, <2>1, <3>3
  <2> QED  BY <2>3, <2>4
<1>16. \/ CacheMiss
       \/ (entry # <<>> /\ \E kv \in {<<>>, entry[1].kv} : StateSetFails([EmptyMem EXCEPT !.kv = kv]))
       \/ CacheHit \/ ProbeSteps \/ CanaryClean \/ CanaryCorrupt
       \/ (\E to \in 0..NCtx : Redecode(to)) \/ FeedChunk \/ RedecodeEnds \/ RedecodeFails
       \/ RestoreCancelled
       \/ \E note \in {<<>>} \cup {<<t>> : t \in Words} : LoadEnds(note)
  BY DEF LoadStep
<1> QED  BY <1>4, <1>5, <1>6, <1>7, <1>8, <1>9, <1>10, <1>11, <1>12, <1>13, <1>14, <1>15, <1>16
-----------------------------------------------------------------------------
\* Of which saves there can be an entry, and a canary.
LEMMA BooksStep ==
    ASSUME TypeInv, FileInv, PlaceInv, SavesEnd, Mirrors, Marked, StackIn(features), Next
    PROVE  SavesEnd' /\ Mirrors' /\ Marked'
<1> USE DEF ctxVars, bookVars, disk, load
<1>f. features' = features
  BY SameFeatures
<1>1. SavesEnd'
  <2>a. ASSUME file' = file
        PROVE  SavesEnd'
    BY <2>a DEF SavesEnd
  <2>b. ASSUME BeginSave, ~Tailed, pc = "idle"
        PROVE  SavesEnd'
    <3>1. file'.tokens = tracker /\ file'.cps = cps
      BY <2>b DEF BeginSave
    <3>2. npast = Len(tracker) /\ Marks(cps, npast) /\ cps \in Seq(0..NCtx)
      BY <2>b DEF PlaceInv, TypeInv
    <3>3. ASSUME cps # <<>>
          PROVE  Last(cps) = npast
      <4>1. Len(cps) \in 1..Len(cps) /\ Last(cps) = cps[Len(cps)]
        BY <3>2, <3>3 DEF Last
      <4>2. Last(cps) \in 1..npast
        BY <3>2, <4>1 DEF Marks
      <4>3. ~(npast > Last(cps))
        BY <2>b, <3>3 DEF Tailed
      <4> QED  BY <3>2, <4>2, <4>3
    <3> QED  BY <3>1, <3>2, <3>3 DEF SavesEnd
  <2>1. CASE UserStep
    <3>1. CASE SaveCommand
      BY <3>1, <2>b DEF SaveCommand, CanSave, StackIn, Idle
    <3>2. CASE QuitCommand
      BY <3>2, <2>a, <2>b DEF QuitCommand, StackIn, Idle
    <3> QED  BY <2>1, <2>a, <3>1, <3>2 DEF UserStep, StartTurn, ClearSession, LoadCommand
  <2>2. CASE TurnStep
    BY <2>2, <2>a DEF TurnStep, Say, EndTurn
  <2>3. CASE SaveStep
    <3>1. CASE SaveWritten
      <4>1. file'.tokens = file.tokens /\ file'.cps = file.cps
        BY <3>1 DEF SaveWritten, TypeInv, Files
      <4> QED  BY <4>1 DEF SavesEnd
    <3> QED  BY <2>3, <2>a, <3>1 DEF SaveStep, SaveFails, CacheWritten, CacheBegun
  <2>4. CASE LoadStep
    BY <2>4, <2>a, LoadKeeps
  <2>5. CASE Restart
    BY <2>5, <2>a DEF Restart
  <2> QED  BY <2>1, <2>2, <2>3, <2>4, <2>5 DEF Next
<1>2. Mirrors'
  <2>a. ASSUME entry' \in {entry, <<>>}, pc' # "probe" \/ pc = "probe"
        PROVE  Mirrors'
    BY <2>a, <1>f DEF Mirrors
  <2>1. CASE UserStep
    BY <2>1, <2>a DEF UserStep, StartTurn, ClearSession, SaveCommand, QuitCommand, LoadCommand, Idle
  <2>2. CASE TurnStep
    BY <2>2, <2>a DEF TurnStep, Say, EndTurn
  <2>3. CASE SaveStep
    <3>1. entry' \in {entry, <<>>, <<NewEntry>>, <<Torn>>} /\ pc' # "probe"
      BY <2>3 DEF SaveStep, SaveWritten, SaveFails, CacheWritten, CacheBegun
    <3>2. (NewEntry.mirror => "mirror" \in features) /\ (Torn.mirror => "mirror" \in features)
      BY DEF Torn, NewEntry
    <3>3. entry' # <<>> /\ entry'[1].mirror => "mirror" \in features
      <4>1. CASE entry' \in {entry, <<>>}
        BY <4>1 DEF Mirrors
      <4>2. CASE entry' \in {<<NewEntry>>, <<Torn>>}
        <5>1. entry'[1] \in {NewEntry, Torn}
          BY <4>2
        <5> QED  BY <3>2, <5>1
      <4> QED  BY <3>1, <4>1, <4>2
    <3> QED  BY <3>1, <3>3, <1>f DEF Mirrors
  <2>4. CASE LoadStep
    <3>1. CASE CacheMiss \/ CacheHit
      <4>1. CASE CacheMiss
        BY <4>1, <2>a DEF CacheMiss
      <4>2. CASE CacheHit
        <5>1. /\ entry' = entry /\ entry # <<>>
              /\ pc' = IF CanaryEligible(entry[1]) THEN "probe" ELSE "loaded"
          BY <4>2, Hits
        <5>2. pc' = "probe" => entry[1].mirror
          BY <5>1 DEF CanaryEligible
        <5> QED  BY <1>f, <5>1, <5>2 DEF Mirrors
      <4> QED  BY <3>1, <4>1, <4>2
    <3>2. CASE ProbeSteps
      BY <3>2, <2>a, Probes
    <3>3. CASE CanaryClean \/ CanaryCorrupt
      BY <3>3, <2>a DEF CanaryClean, CanaryCorrupt
    <3>4. CASE entry # <<>> /\ \E kv \in {<<>>, entry[1].kv} : StateSetFails([EmptyMem EXCEPT !.kv = kv])
      BY <3>4, <2>a DEF StateSetFails
    <3>5. CASE (\E to \in 0..NCtx : Redecode(to)) \/ FeedChunk \/ RedecodeEnds \/ RedecodeFails
      BY <3>5, <2>a DEF Redecode, FeedChunk, RedecodeEnds, RedecodeFails
    <3>6. CASE RestoreCancelled \/ \E note \in {<<>>} \cup {<<t>> : t \in Words} : LoadEnds(note)
      BY <3>6, <2>a DEF RestoreCancelled, LoadEnds
    <3> QED  BY <2>4, <3>1, <3>2, <3>3, <3>4, <3>5, <3>6 DEF LoadStep
  <2>5. CASE Restart
    BY <2>5, <2>a DEF Restart
  <2> QED  BY <2>1, <2>2, <2>3, <2>4, <2>5 DEF Next
<1>3. Marked'
  <2>0. SUFFICES ASSUME "mirror" \in features
                 PROVE  Marked'
    BY <1>f DEF Marked
  <2>m. features \cap {"bare", "crash", "full"} = {}
    BY <2>0 DEF StackIn
  <2>a. ASSUME file' = file, pc \notin {"saving", "quitting"}, pc' \notin {"saving", "quitting"}
        PROVE  Marked'
    BY <2>0, <2>a DEF Marked, Readable, ReadCps
  <2>b. ASSUME BeginSave, cps # <<>>, pc' \in {"saving", "quitting"}
        PROVE  Marked'
    <3>1. file'.cps = cps
      BY <2>b DEF BeginSave
    <3> QED  BY <2>b, <3>1 DEF Marked
  <2>1. CASE UserStep
    <3>1. CASE SaveCommand
      BY <3>1, <2>b, <2>m DEF SaveCommand, CanSave
    <3>2. CASE QuitCommand
      BY <3>2, <2>a, <2>b DEF QuitCommand, Idle
    <3> QED  BY <2>1, <2>a, <3>1, <3>2 DEF UserStep, StartTurn, ClearSession, LoadCommand, Idle
  <2>2. CASE TurnStep
    BY <2>2, <2>a DEF TurnStep, Say, EndTurn
  <2>3. CASE SaveStep
    <3>1. CASE SaveWritten
      <4>1. file'.written = "all" /\ file'.cps = file.cps /\ file.cps # <<>>
        BY <2>0, <3>1 DEF SaveWritten, TypeInv, Files, Marked
      <4>2. pc' \in {"caching", "quitCaching"}
        BY <3>1 DEF SaveWritten
      <4> QED  BY <4>1, <4>2 DEF Marked, ReadCps
    <3>2. CASE SaveFails
      BY <2>m, <3>2 DEF SaveFails
    <3> QED  BY <2>3, <2>a, <3>1, <3>2 DEF SaveStep, CacheWritten, CacheBegun
  <2>4. CASE LoadStep
    BY <2>4, <2>a, LoadKeeps DEF Loading
  <2>5. CASE Restart
    BY <2>5, <2>a, <2>m DEF Restart
  <2> QED  BY <2>1, <2>2, <2>3, <2>4, <2>5 DEF Next
<1> QED  BY <1>1, <1>2, <1>3

\* The stack of a fresh session,
LEMMA FreshIsLive ==
    ASSUME Fresh
    PROVE  Live'
BY FreshExact DEF Fresh, Live

\* of one to which tokens are added,
LEMMA CommitIsLive ==
    ASSUME TypeInv, Live, npast = Len(tracker), Marks(cps, npast), NEW toks \in Seq(Token),
           Commit(toks), UNCHANGED <<cps, offset>>
    PROVE  Live'
<1>1. mem'.stack = mem.stack /\ tracker' = tracker \o toks
  BY DecodeFilled DEF Commit, TypeInv
<1>2. /\ mem.stack \in Seq(Seq(Token)) /\ tracker \in Seq(Token) /\ offset \in Nat
      /\ cps \in Seq(0..NCtx)
  BY FilledFields DEF TypeInv
<1>3. ASSUME NEW i \in 1..Len(mem.stack)
      PROVE  Prefix(tracker', cps[offset + i]) = Prefix(tracker, cps[offset + i])
  <2>1. offset + i \in 1..Len(cps)
    BY <1>2 DEF Live
  <2>2. cps[offset + i] \in 1..Len(tracker)
    BY <2>1 DEF Marks
  <2>3. Len(tracker) \in 0..Len(tracker) /\ cps[offset + i] \in 0..Len(tracker)
    BY <1>2, <2>2
  <2> QED  BY <1>1, <1>2, <2>3, PrefixWithin
<1> QED  BY <1>1, <1>3 DEF Live

\* and of one that is checkpointed.
LEMMA EndIsLive ==
    ASSUME TypeInv, PlaceInv, Exact, Live, EndTurn
    PROVE  Live'
<1>1. CASE pc = "turn"
  <2>1. mem' = RsSave(mem) /\ cps' = Append(cps, npast) /\ UNCHANGED <<tracker, offset>>
    BY <1>1 DEF EndTurn
  <2>2. /\ mem.stack \in Seq(Seq(Token)) /\ tracker \in Seq(Token) /\ offset \in Nat
        /\ cps \in Seq(0..NCtx) /\ mem \in Filled
    BY FilledFields DEF TypeInv
  <2>3. mem.kv = tracker /\ tracker # <<>> /\ mem.planes[0] = tracker /\ npast = Len(tracker)
    BY <1>1 DEF Exact, Coherent, State, PlaceInv
  <2>4. mem'.stack = Append(mem.stack, tracker)
    BY <2>1, <2>2, <2>3, SaveExact
  <2>5. Len(mem.stack) = Len(cps) - offset
    BY DEF Live
  <2>6. Len(mem'.stack) = Len(mem.stack) + 1 /\ Len(cps') = Len(cps) + 1
    BY <2>1, <2>2, <2>4
  <2>7. ASSUME NEW i \in 1..Len(mem'.stack)
        PROVE  mem'.stack[i] = Prefix(tracker, cps'[offset + i])
    <3>1. CASE i = Len(mem.stack) + 1
      <4>1. mem'.stack[i] = tracker
        BY <2>2, <2>4, <3>1
      <4>2. offset + i = Len(cps) + 1
        BY <2>2, <2>5, <3>1
      <4>3. cps'[offset + i] = npast
        BY <2>1, <2>2, <4>2
      <4> QED  BY <2>2, <2>3, <4>1, <4>3, PrefixAll
    <3>2. CASE i # Len(mem.stack) + 1
      <4>1. i \in 1..Len(mem.stack) /\ offset + i \in 1..Len(cps)
        BY <2>2, <2>5, <2>6, <3>2
      <4>2. mem'.stack[i] = mem.stack[i] /\ cps'[offset + i] = cps[offset + i]
        BY <2>1, <2>2, <2>4, <4>1
      <4> QED  BY <4>1, <4>2 DEF Live
    <3> QED  BY <3>1, <3>2
  <2>8. Len(mem'.stack) = Len(cps') - offset
    BY <2>2, <2>5, <2>6
  <2> QED  BY <2>1, <2>7, <2>8 DEF Live
<1>2. CASE pc # "turn"
  <2>1. UNCHANGED <<mem, tracker, cps, offset>>
    BY <1>2 DEF EndTurn
  <2> QED  BY <2>1 DEF Live
<1> QED  BY <1>1, <1>2
\* The stack has the checkpoints behind a step of a user, of a turn or of a save,
LEMMA LiveSession ==
    ASSUME TypeInv, FileInv, PlaceInv, ExactInv, StackInv, StackIn(features),
           UserStep \/ TurnStep \/ SaveStep \/ Restart
    PROVE  (Settled' => Live') /\ (pc' = "feeding" => Pushed')
<1> USE DEF ctxVars, bookVars, disk, load
<1>1. ASSUME pc \notin {"probe", "slow", "feeding"}
      PROVE  Live /\ Exact
  BY <1>1 DEF StackInv, ExactInv, Settled, StackIn
<1>2. ASSUME Live, UNCHANGED <<mem, tracker, cps, offset>>
      PROVE  Live'
  BY <1>2 DEF Live
<1>3. CASE UserStep
  <2>1. Live /\ pc' # "feeding"
    BY <1>1, <1>3 DEF UserStep, StartTurn, ClearSession, SaveCommand, QuitCommand, LoadCommand, Idle
  <2>2. CASE ClearSession
    BY <2>1, <2>2, FreshIsLive DEF ClearSession
  <2>3. CASE ~ClearSession
    <3>1. UNCHANGED <<mem, tracker, cps, offset>>
      BY <1>3, <2>3 DEF UserStep, StartTurn, SaveCommand, QuitCommand, LoadCommand
    <3> QED  BY <1>2, <2>1, <3>1
  <2> QED  BY <2>2, <2>3
<1>4. CASE TurnStep
  <2>1. /\ Live /\ Exact /\ pc' # "feeding"
        /\ npast = Len(tracker) /\ Marks(cps, npast)
    BY <1>1, <1>4 DEF TurnStep, Say, EndTurn, PlaceInv
  <2>2. ASSUME NEW t \in Words, Say(t)
        PROVE  Live'
    <3>1. <<t>> \in Seq(Token)
      BY DEF Words
    <3>2. Commit(<<t>>) /\ UNCHANGED <<cps, offset>>
      BY <2>2 DEF Say
    <3> QED  BY <2>1, <3>1, <3>2, CommitIsLive
  <2>3. CASE EndTurn
    BY <2>1, <2>3, EndIsLive
  <2> QED  BY <1>4, <2>1, <2>2, <2>3 DEF TurnStep
<1>5. CASE SaveStep
  <2>1. Live /\ UNCHANGED <<mem, tracker, cps, offset>> /\ pc' # "feeding"
    BY <1>1, <1>5 DEF SaveStep, SaveWritten, SaveFails, CacheWritten, CacheBegun
  <2> QED  BY <1>2, <2>1
<1>6. CASE Restart
  BY <1>6, FreshIsLive DEF Restart
<1> QED  BY <1>3, <1>4, <1>5, <1>6

\* The stack that a load from the cache gives has the last checkpoint.
LEMMA LoadIsLive ==
    ASSUME TypeInv, FileInv, SavesEnd, NEW m, NEW tr, NEW c, NEW o,
           tr = file.tokens, c = ReadCps(file), o = OffsetOf(c),
           m.stack = IF c = <<>> THEN <<>> ELSE <<file.tokens>>
    PROVE  /\ Len(m.stack) = Len(c) - o
           /\ \A i \in 1..Len(m.stack) : m.stack[i] = Prefix(tr, c[o + i])
<1>1. c \in Seq(Nat) /\ file.tokens \in Seq(Token)
  BY Reads
<1>2. CASE c = <<>>
  <2>1. o = 0 /\ m.stack = <<>>
    BY <1>2 DEF OffsetOf
  <2> QED  BY <1>2, <2>1
<1>3. CASE c # <<>>
  <2>1. Len(c) \in Nat /\ Len(c) >= 1 /\ o = Len(c) - 1 /\ m.stack = <<file.tokens>>
    BY <1>1, <1>3 DEF OffsetOf
  <2>2. c = file.cps
    BY <1>3 DEF ReadCps
  <2>3. c[Len(c)] = Len(file.tokens)
    BY <1>3, <2>2 DEF SavesEnd, Last
  <2>4. Prefix(file.tokens, Len(file.tokens)) = file.tokens
    BY <1>1, PrefixAll
  <2>5. Len(m.stack) = 1 /\ m.stack[1] = file.tokens
    BY <2>1
  <2>6. o + 1 = Len(c) /\ 1 = Len(c) - o
    BY <2>1
  <2>7. ASSUME NEW i \in 1..1
        PROVE  m.stack[i] = Prefix(tr, c[o + i])
    <3>1. i = 1
      OBVIOUS
    <3> QED  BY <2>3, <2>4, <2>5, <2>6, <3>1
  <2> QED  BY <2>5, <2>6, <2>7
<1> QED  BY <1>2, <1>3

\* and one of a load.
LEMMA LiveLoad ==
    ASSUME TypeInv, FileInv, PlaceInv, ExactInv, StackInv, StackIn(features), LoadStep
    PROVE  (Settled' => Live') /\ (pc' = "feeding" => Pushed')
<1> USE DEF ctxVars, bookVars, disk, load
<1>0. SavesEnd /\ Mirrors /\ Marked /\ ExactIn(features) /\ (entry # <<>> => Sound(entry[1]))
  BY DEF StackInv, StackIn, ExactInv
<1>1. ASSUME Settled
      PROVE  Live /\ Exact
  BY <1>1, <1>0 DEF StackInv, ExactInv
<1>2. ASSUME Live, UNCHANGED <<mem, tracker, cps, offset>>
      PROVE  Live'
  BY <1>2 DEF Live
<1>f. features' = features
  BY LoadKeeps
<1>3. CASE CacheMiss
  BY <1>1, <1>2, <1>3 DEF CacheMiss, Settled
<1>4. ASSUME NEW kv \in {<<>>, entry[1].kv}, StateSetFails([EmptyMem EXCEPT !.kv = kv])
      PROVE  ~Settled' /\ pc' # "feeding"
  BY <1>4, <1>f DEF StateSetFails, Settled
<1>5. CASE CacheHit
  <2>1. /\ entry # <<>> /\ ~entry[1].torn /\ entry[1].tokens = file.tokens
        /\ Len(entry[1].kv) = Len(file.tokens)
        /\ tracker' = file.tokens /\ cps' = ReadCps(file) /\ offset' = OffsetOf(cps')
        /\ mem'.stack = IF CanaryEligible(entry[1]) \/ cps' # <<>> THEN <<entry[1].state>> ELSE <<>>
        /\ pc' = IF CanaryEligible(entry[1]) THEN "probe" ELSE "loaded"
    BY <1>5, Hits
  <2>2. entry[1].state = file.tokens
    BY <2>1, <1>0 DEF Sound
  <2>3. CASE CanaryEligible(entry[1])
    BY <2>1, <2>3 DEF Settled
  <2>4. CASE ~CanaryEligible(entry[1])
    <3>1. mem'.stack = IF cps' = <<>> THEN <<>> ELSE <<file.tokens>>
      BY <2>1, <2>2, <2>4
    <3>3. SavesEnd /\ tracker' = file.tokens /\ cps' = ReadCps(file) /\ offset' = OffsetOf(cps')
      BY <1>0, <2>1
    <3>2. /\ Len(mem'.stack) = Len(cps') - offset'
          /\ \A i \in 1..Len(mem'.stack) : mem'.stack[i] = Prefix(tracker', cps'[offset' + i])
      BY <3>1, <3>3, LoadIsLive
    <3> QED  BY <2>1, <2>4, <3>2 DEF Live
  <2> QED  BY <2>3, <2>4
<1>6. CASE ProbeSteps
  BY <1>6, Probes DEF Settled
<1>7. CASE CanaryClean
  <2>1. /\ pc = "probe" /\ pc' = "loaded" /\ UNCHANGED <<cps, offset>> /\ Readable(file)
        /\ tracker' = file.tokens /\ mem'.stack = mem.stack
    BY <1>7, Cleans
  <2>2. /\ cps = ReadCps(file) /\ offset = OffsetOf(cps) /\ Len(mem.stack) = 1
        /\ mem.stack[1] = file.tokens
    BY <1>0, <2>1 DEF PlaceInv, ExactInv
  <2>3. cps # <<>>
    BY <1>0, <2>1, <2>2 DEF Mirrors, Marked
  <2>4. mem.stack = <<file.tokens>>
    <3>1. mem.stack \in Seq(Seq(Token))
      BY FilledFields DEF TypeInv
    <3> QED  BY <2>2, <3>1
  <2>5. mem'.stack = IF cps' = <<>> THEN <<>> ELSE <<file.tokens>>
    BY <2>1, <2>3, <2>4
  <2>6. cps' = ReadCps(file) /\ offset' = OffsetOf(cps')
    BY <2>1, <2>2
  <2>7. /\ Len(mem'.stack) = Len(cps') - offset'
        /\ \A i \in 1..Len(mem'.stack) : mem'.stack[i] = Prefix(tracker', cps'[offset' + i])
    BY <1>0, <2>1, <2>5, <2>6, LoadIsLive
  <2> QED  BY <2>1, <2>7 DEF Live
<1>8. CASE CanaryCorrupt
  <2>1. CASE attempt < MaxRetries
    BY <1>8, <2>1, FreshIsLive DEF CanaryCorrupt
  <2>2. CASE ~(attempt < MaxRetries)
    BY <1>8, <2>2, <1>f DEF CanaryCorrupt, Settled
  <2> QED  BY <2>1, <2>2
<1>9. ASSUME NEW to \in 0..NCtx, Redecode(to)
      PROVE  ~Settled' /\ Pushed'
  <2>1. pc' = "feeding" /\ mem'.stack = <<>>
    BY <1>9 DEF Redecode, EmptyMem
  <2> QED  BY <2>1 DEF Settled, Pushed
<1>10. CASE FeedChunk
  <2> DEFINE toks == SubSeq(file.tokens, npast + 1, ChunkEnd)
             at == MarksLeft /\ NextMark <= ChunkEnd
  <2>1. /\ pc = "feeding" /\ pc' = pc /\ npast < limit /\ npast' = ChunkEnd
        /\ UNCHANGED <<file, limit, entry>>
        /\ mem'.kv = mem.kv \o toks /\ mem'.rsIdx = 0
        /\ Coherent(mem) => Coherent(mem')
        /\ mem'.stack = IF at THEN Append(mem.stack, Decode(mem, toks).planes[0])
                              ELSE mem.stack
        /\ Decode(mem, toks).planes[0] = State(mem')
        /\ Prefix(file.tokens, npast) \o toks = Prefix(file.tokens, ChunkEnd)
    BY <1>10, Feeds
  <2>2. mem.kv = Prefix(file.tokens, npast) /\ Coherent(mem) /\ Pushed
    BY <1>0, <2>1 DEF ExactInv, StackInv
  <2>3. Decode(mem, toks).planes[0] = Prefix(file.tokens, ChunkEnd)
    <3> HIDE DEF toks
    <3>1. State(mem') = mem'.kv
      BY <2>1, <2>2 DEF Coherent
    <3> QED  BY <2>1, <2>2, <3>1
  <2>4. mem.stack \in Seq(Seq(Token)) /\ RestoredCps' = RestoredCps
    BY <2>1, FilledFields DEF TypeInv, RestoredCps, ReadCps
  <2>5. CASE at
    <3>1. /\ ChunkEnd \in Nat /\ NextMark \in Nat /\ ChunkEnd <= NextMark
          /\ NextMark = RestoredCps[Len(mem.stack) + 1]
      BY <2>1, <2>5, Chunk
    <3>2. ChunkEnd = RestoredCps[Len(mem.stack) + 1]
      BY <2>5, <3>1
    <3> DEFINE st == Prefix(file.tokens, ChunkEnd)
    <3>3. mem'.stack = Append(mem.stack, st)
      BY <2>1, <2>3, <2>5
    <3> HIDE DEF st
    <3>4. /\ Len(mem'.stack) = Len(mem.stack) + 1
          /\ mem'.stack[Len(mem.stack) + 1] = st
          /\ \A i \in 1..Len(mem.stack) : mem'.stack[i] = mem.stack[i]
      BY <2>4, <3>3
    <3>5. Len(mem.stack) \in Nat
      BY <2>4
    <3>6. ASSUME NEW i \in 1..Len(mem'.stack)
          PROVE  mem'.stack[i] = Prefix(file.tokens, RestoredCps[i])
      <4>1. CASE i = Len(mem.stack) + 1
        BY <3>2, <3>4, <4>1 DEF st
      <4>2. CASE i # Len(mem.stack) + 1
        <5>1. i \in 1..Len(mem.stack)
          BY <3>4, <3>5, <4>2
        <5> QED  BY <2>2, <3>4, <5>1 DEF Pushed
      <4> QED  BY <4>1, <4>2
    <3>7. Pushed'
      BY <2>1, <2>4, <3>6 DEF Pushed
    <3> QED  BY <2>1, <3>7 DEF Settled
  <2>6. CASE ~at
    <3>1. mem'.stack = mem.stack
      BY <2>1, <2>6
    <3> QED  BY <2>1, <2>2, <2>4, <3>1 DEF Settled, Pushed
  <2> QED  BY <2>5, <2>6
<1>11. CASE RedecodeEnds
  <2>1. /\ pc = "feeding" /\ mem' = mem
        /\ limit \in 1..Len(file.tokens)
        /\ tracker' = Prefix(file.tokens, limit)
        /\ cps' = RestoredCps /\ offset' = 0 /\ Len(mem.stack) = Len(cps')
        /\ pc' = IF limit = Len(file.tokens) THEN "autoCaching" ELSE "loaded"
    BY <1>11, Ends
  <2>2. Pushed
    BY <2>1 DEF StackInv
  <2>3. RestoredCps \in Seq(Nat) /\ Marks(RestoredCps, limit) /\ file.tokens \in Seq(Token)
    BY <2>1, Restored, Reads
  <2>4. ASSUME NEW i \in 1..Len(mem'.stack)
        PROVE  mem'.stack[i] = Prefix(tracker', cps'[offset' + i])
    <3>1. i \in 1..Len(RestoredCps) /\ offset' + i = i /\ i \in 1..Len(mem.stack)
      BY <2>1, <2>3
    <3>2. mem.stack[i] = Prefix(file.tokens, RestoredCps[i])
      BY <2>2, <3>1 DEF Pushed
    <3>3. RestoredCps[i] \in 0..limit /\ limit \in 0..Len(file.tokens)
      BY <2>1, <2>3, <3>1 DEF Marks
    <3>4. Prefix(Prefix(file.tokens, limit), RestoredCps[i]) = Prefix(file.tokens, RestoredCps[i])
      BY <2>3, <3>3, PrefixWithin
    <3> QED  BY <2>1, <3>1, <3>2, <3>4
  <2>5. Len(mem'.stack) = Len(cps') - offset'
    BY <2>1, <2>3
  <2> QED  BY <2>1, <2>4, <2>5 DEF Live
<1>12. CASE RedecodeFails
  BY <1>12, FreshIsLive DEF RedecodeFails
<1>13. CASE RestoreCancelled
  <2>1. pc = "slow" /\ "cancel" \in features
    BY <1>13 DEF RestoreCancelled
  <2>2. Settled
    BY <1>0, <2>1 DEF ExactIn, Settled
  <2> QED  BY <1>1, <1>2, <1>13, <2>2 DEF RestoreCancelled
<1>14. ASSUME NEW note \in {<<>>} \cup {<<t>> : t \in Words}, LoadEnds(note)
       PROVE  Live' /\ pc' # "feeding"
  <2>1. pc = "loaded" /\ pc' = "idle" /\ UNCHANGED <<cps, offset>>
    BY <1>14 DEF LoadEnds
  <2>2. Live /\ npast = Len(tracker) /\ Marks(cps, npast)
    BY <1>1, <2>1 DEF Settled, PlaceInv
  <2>3. CASE note = <<>>
    BY <1>2, <1>14, <2>1, <2>2, <2>3 DEF LoadEnds
  <2>4. CASE note # <<>>
    <3>1. note \in Seq(Token)
      <4>1. PICK t \in Token : note = <<t>>
        BY <1>14, <2>4 DEF Words
      <4> QED  BY <4>1
    <3>2. Commit(note)
      BY <1>14, <2>4 DEF LoadEnds
    <3> QED  BY <2>1, <2>2, <3>1, <3>2, CommitIsLive
  <2> QED  BY <2>3, <2>4
<1>15. \/ CacheMiss
       \/ (entry # <<>> /\ \E kv \in {<<>>, entry[1].kv} : StateSetFails([EmptyMem EXCEPT !.kv = kv]))
       \/ CacheHit \/ ProbeSteps \/ CanaryClean \/ CanaryCorrupt
       \/ (\E to \in 0..NCtx : Redecode(to)) \/ FeedChunk \/ RedecodeEnds \/ RedecodeFails
       \/ RestoreCancelled
       \/ \E note \in {<<>>} \cup {<<t>> : t \in Words} : LoadEnds(note)
  BY DEF LoadStep
<1> QED  BY <1>3, <1>4, <1>5, <1>6, <1>7, <1>8, <1>9, <1>10, <1>11, <1>12, <1>13, <1>14, <1>15
-----------------------------------------------------------------------------
\* What the saves keep, behind a step of a user, of a turn or of a save,
LEMMA QuitSession ==
    ASSUME TypeInv, FileInv, PlaceInv, QuitInv, QuitIn(features), features \cap {"full", "note"} = {},
           UserStep \/ TurnStep \/ SaveStep \/ Restart
    PROVE  QuitInv'
<1> USE DEF ctxVars, bookVars, disk, load
<1>0. /\ pc \in {"saving", "quitting", "caching", "quitCaching"} => file.tokens = tracker
      /\ pc \in {"caching", "quitCaching"} => file.written = "all"
      /\ pc \in {"turn", "more"} => ~prevSave
      /\ prevSave /\ pc \notin {"saving", "quitting", "probe", "slow", "feeding"} => Kept
      /\ pc = "ended" /\ cps # <<>> => Kept
  BY DEF QuitInv
<1>1. tracker \in Seq(Token)
  BY DEF TypeInv
<1>2. ASSUME Readable(file)', file'.tokens = tracker'
      PROVE  Kept'
  <2>1. IsPrefix(tracker', tracker')
    BY DEF IsPrefix
  <2> QED  BY <1>2, <2>1 DEF Kept
<1>3. ASSUME file' = file, UNCHANGED <<tracker, cps>> \/ cps' = <<>>, Kept
      PROVE  Kept'
  BY <1>3 DEF Kept, Readable
<1>4. CASE UserStep
  <2>1. pc = "idle" /\ (prevSave => Kept)
    BY <1>0, <1>4 DEF UserStep, StartTurn, ClearSession, SaveCommand, QuitCommand, LoadCommand, Idle
  <2>2. ASSUME NEW typed \in BOOLEAN, StartTurn(typed)
        PROVE  QuitInv'
    <3>1. typed
      BY <2>2 DEF StartTurn, QuitIn
    <3>2. ~prevSave' /\ pc' = "turn"
      BY <2>2, <3>1 DEF StartTurn, SavedStill
    <3> QED  BY <3>2 DEF QuitInv
  <2>3. CASE ClearSession
    <3>1. pc' = "idle" /\ file' = file /\ cps' = <<>> /\ prevSave' = prevSave
      BY <2>1, <2>3 DEF ClearSession, Fresh
    <3>2. prevSave' => Kept'
      BY <1>3, <2>1, <3>1
    <3> QED  BY <3>1, <3>2 DEF QuitInv
  <2>4. ASSUME BeginSave, tracker' = tracker, pc' \in {"saving", "quitting"}
        PROVE  QuitInv'
    <3>1. file'.tokens = tracker'
      BY <2>4 DEF BeginSave
    <3> QED  BY <2>4, <3>1 DEF QuitInv
  <2>5. CASE SaveCommand
    BY <2>4, <2>5 DEF SaveCommand
  <2>6. CASE QuitCommand
    <3>1. CASE cps # <<>> /\ ~prevSave
      BY <2>4, <2>6, <3>1 DEF QuitCommand
    <3>2. CASE ~(cps # <<>> /\ ~prevSave)
      <4>1. pc' = "ended" /\ UNCHANGED <<file, tracker, cps, prevSave>>
        BY <2>6, <3>2 DEF QuitCommand
      <4>2. (prevSave' => Kept') /\ (cps' # <<>> => Kept')
        BY <1>3, <2>1, <3>2, <4>1
      <4> QED  BY <4>1, <4>2 DEF QuitInv
    <3> QED  BY <3>1, <3>2
  <2>7. CASE LoadCommand
    <3>1. pc' \in {"fast", "slow"} /\ UNCHANGED <<file, tracker, cps, prevSave>>
      BY <2>7 DEF LoadCommand
    <3>2. prevSave' => Kept'
      BY <1>3, <2>1, <3>1
    <3> QED  BY <3>1, <3>2 DEF QuitInv
  <2> QED  BY <1>4, <2>2, <2>3, <2>5, <2>6, <2>7 DEF UserStep
<1>5. CASE TurnStep
  <2>1. pc \in {"turn", "more"} /\ pc' \in {"turn", "more", "idle"} /\ prevSave' = prevSave
    BY <1>5 DEF TurnStep, Say, EndTurn
  <2>2. ~prevSave'
    BY <1>0, <2>1
  <2> QED  BY <2>1, <2>2 DEF QuitInv
<1>6. CASE SaveStep
  <2>1. CASE SaveWritten
    <3>1. file'.tokens = file.tokens /\ file'.written = "all" /\ UNCHANGED <<tracker, cps, prevSave>>
      BY <2>1 DEF SaveWritten, TypeInv, Files
    <3>2. pc \in {"saving", "quitting"} /\ pc' \in {"caching", "quitCaching"}
      BY <2>1 DEF SaveWritten
    <3>3. file'.tokens = tracker' /\ Readable(file)'
      BY <1>0, <3>1, <3>2 DEF Readable
    <3>4. Kept'
      BY <1>2, <3>3
    <3> QED  BY <3>1, <3>2, <3>3, <3>4 DEF QuitInv
  <2>2. CASE SaveFails
    BY <2>2 DEF SaveFails
  <2>3. CASE CacheWritten
    <3>1. /\ pc \in {"caching", "quitCaching", "autoCaching"} /\ UNCHANGED <<file, tracker, cps>>
          /\ pc' \in {"idle", "ended", "loaded"}
      BY <2>3 DEF CacheWritten
    <3>2. file'.tokens = tracker' /\ Readable(file)'
      BY <1>0, <3>1 DEF Readable, PlaceInv, FileInv
    <3>3. Kept'
      BY <1>2, <3>2
    <3> QED  BY <3>1, <3>3 DEF QuitInv
  <2>4. ASSUME NEW begun \in {<<>>, <<Torn>>}, CacheBegun(begun)
        PROVE  QuitInv'
    <3>1. UNCHANGED <<file, tracker, cps, prevSave, pc, features>>
      BY <2>4 DEF CacheBegun
    <3> QED  BY <3>1 DEF QuitInv, Kept, Readable
  <2> QED  BY <1>6, <2>1, <2>2, <2>3, <2>4 DEF SaveStep
<1>7. CASE Restart
  <2>1. pc' = "idle" /\ ~prevSave'
    BY <1>7 DEF Restart
  <2> QED  BY <2>1 DEF QuitInv
<1> QED  BY <1>4, <1>5, <1>6, <1>7

\* and behind one of a load.
LEMMA QuitLoad ==
    ASSUME TypeInv, FileInv, PlaceInv, QuitInv, QuitIn(features), features \cap {"full", "note"} = {},
           LoadStep
    PROVE  QuitInv'
<1> USE DEF ctxVars, bookVars, disk, load
<1>0. prevSave /\ pc \in {"fast", "loaded"} => Kept
  BY DEF QuitInv
<1>1. ASSUME pc' \in {"probe", "slow", "feeding"}
      PROVE  QuitInv'
  BY <1>1 DEF QuitInv
<1>2. ASSUME prevSave' => Kept', pc' \in {"fast", "loaded", "idle", "autoCaching"}
      PROVE  QuitInv'
  BY <1>2 DEF QuitInv
<1>3. ASSUME Readable(file), file' = file, cps' = <<>> \/ tracker' = file.tokens
      PROVE  Kept'
  <2>1. IsPrefix(file.tokens, file.tokens)
    BY Reads DEF IsPrefix
  <2> QED  BY <1>3, <2>1 DEF Kept, Readable
<1>4. pc \in {"fast", "probe", "slow", "feeding"} => Readable(file)
  BY DEF FileInv, Loading
<1>5. file' = file
  BY LoadKeeps
<1>6. CASE CacheMiss
  BY <1>1, <1>6 DEF CacheMiss
<1>7. ASSUME NEW kv \in {<<>>, entry[1].kv}, StateSetFails([EmptyMem EXCEPT !.kv = kv])
      PROVE  QuitInv'
  BY <1>1, <1>7 DEF StateSetFails
<1>8. CASE CacheHit
  <2>1. /\ pc = "fast" /\ tracker' = file.tokens
        /\ pc' = IF CanaryEligible(entry[1]) THEN "probe" ELSE "loaded"
    BY <1>8, Hits
  <2>2. Kept' /\ pc' \in {"probe", "loaded"}
    BY <1>3, <1>4, <1>5, <2>1
  <2> QED  BY <1>1, <1>2, <2>2
<1>9. CASE ProbeSteps
  BY <1>1, <1>9, Probes
<1>10. CASE CanaryClean
  <2>1. pc = "probe" /\ pc' = "loaded" /\ tracker' = file.tokens
    BY <1>10, Cleans
  <2> QED  BY <1>2, <1>3, <1>4, <1>5, <2>1
<1>11. CASE CanaryCorrupt
  <2>1. pc = "probe" /\ (pc' = "slow" \/ (pc' = "fast" /\ cps' = <<>>))
    BY <1>11 DEF CanaryCorrupt, Fresh
  <2> QED  BY <1>1, <1>2, <1>3, <1>4, <1>5, <2>1
<1>12. CASE (\E to \in 0..NCtx : Redecode(to)) \/ FeedChunk
  BY <1>1, <1>12 DEF Redecode, FeedChunk
<1>13. CASE RedecodeEnds
  <2>1. /\ pc = "feeding" /\ limit \in 1..Len(file.tokens)
        /\ tracker' = Prefix(file.tokens, limit) /\ pc' \in {"autoCaching", "loaded"}
    BY <1>13, Ends
  <2>2. IsPrefix(tracker', file.tokens)
    <3>1. limit \in 0..Len(file.tokens) /\ file.tokens \in Seq(Token)
      BY <2>1, Reads
    <3>2. Len(tracker') = limit /\ tracker' \in Seq(Token)
      BY <2>1, <3>1, PrefixType
    <3>3. Prefix(tracker', Len(tracker')) = tracker'
      BY <3>2, PrefixAll
    <3> QED  BY <2>1, <3>1, <3>2, <3>3 DEF IsPrefix, Prefix
  <2>3. Kept'
    BY <1>4, <1>5, <2>1, <2>2 DEF Kept, Readable
  <2> QED  BY <1>2, <2>1, <2>3
<1>14. CASE RedecodeFails
  BY <1>2, <1>3, <1>4, <1>5, <1>14 DEF RedecodeFails, Fresh
<1>15. CASE RestoreCancelled
  <2>1. pc = "slow" /\ "cancel" \in features /\ pc' = "idle" /\ cps' = cps
    BY <1>15 DEF RestoreCancelled
  <2>2. "corrupt" \notin features
    BY <2>1 DEF QuitIn, Uncancelled
  <2>3. cps = <<>>
    BY <2>1, <2>2 DEF PlaceInv
  <2> QED  BY <1>2, <1>3, <1>4, <1>5, <2>1, <2>3
<1>16. ASSUME NEW note \in {<<>>} \cup {<<t>> : t \in Words}, LoadEnds(note)
       PROVE  QuitInv'
  <2>1. note = <<>> /\ pc = "loaded" /\ pc' = "idle"
    BY <1>16 DEF LoadEnds
  <2>2. UNCHANGED <<tracker, cps, file, prevSave>>
    BY <1>5, <1>16, <2>1 DEF LoadEnds
  <2>3. prevSave' => Kept'
    BY <1>0, <2>1, <2>2 DEF Kept, Readable
  <2> QED  BY <1>2, <2>1, <2>3
<1>17. \/ CacheMiss
       \/ (entry # <<>> /\ \E kv \in {<<>>, entry[1].kv} : StateSetFails([EmptyMem EXCEPT !.kv = kv]))
       \/ CacheHit \/ ProbeSteps \/ CanaryClean \/ CanaryCorrupt
       \/ (\E to \in 0..NCtx : Redecode(to)) \/ FeedChunk \/ RedecodeEnds \/ RedecodeFails
       \/ RestoreCancelled
       \/ \E note \in {<<>>} \cup {<<t>> : t \in Words} : LoadEnds(note)
  BY DEF LoadStep
<1> QED  BY <1>6, <1>7, <1>8, <1>9, <1>10, <1>11, <1>12, <1>13, <1>14, <1>15, <1>16, <1>17
-----------------------------------------------------------------------------
\* A fresh process has the types and the invariant.
LEMMA RestoreInit ==
    ASSUME Init
    PROVE  TypeInv /\ RestoreInv
<1>1. TypeInv
  <2>1. 0 \in 0..MaxRetries /\ 0 \in 0..NCtx /\ 1 \in 0..NCtx
    BY RestoreAssumption
  <2>2. <<>> \in Seq(Token) /\ <<>> \in Seq(0..NCtx)
    OBVIOUS
  <2>3. file \in Files
    BY <2>2 DEF Init, Files
  <2> QED  BY <2>1, <2>2, <2>3, FreshExact DEF Init, TypeInv, Pcs
<1>2. FileInv
  BY DEF Init, FileInv, Marks, Readable, Loading
<1>3. PlaceInv
  BY FreshExact DEF Init, PlaceInv, Marks
<1>4. ExactInv
  BY FreshExact DEF Init, ExactInv, Exact
<1>5. StackInv
  <2>1. Live
    BY FreshExact DEF Init, Live
  <2> QED  BY <2>1 DEF Init, StackInv, SavesEnd, Mirrors, Marked, Readable
<1>6. QuitInv
  BY DEF Init, QuitInv
<1> QED  BY <1>1, <1>2, <1>3, <1>4, <1>5, <1>6 DEF RestoreInv

\* Every step keeps them.
LEMMA RestoreStep ==
    ASSUME TypeInv, RestoreInv, [Next]_vars
    PROVE  TypeInv' /\ RestoreInv'
<1>1. FileInv /\ PlaceInv /\ ExactInv /\ StackInv /\ QuitInv
  BY DEF RestoreInv
<1>2. CASE UNCHANGED vars
  BY <1>1, <1>2 DEF vars, ctxVars, bookVars, disk, load, TypeInv, RestoreInv, FileInv, PlaceInv,
     ExactInv, StackInv, QuitInv, Readable, ReadCps, Loading, Settled, Exact, Coherent, State,
     Sound, Live, Pushed, SavesEnd, Mirrors, Marked, Kept, RestoredCps, MarksLeft, NextMark
<1>3. CASE Next
  <2>1. LoadStep \/ (UserStep \/ TurnStep \/ SaveStep \/ Restart)
    BY <1>3 DEF Next
  <2>2. features' = features
    BY <1>3, SameFeatures
  <2>3. TypeInv'
    BY <1>1, <2>1, TypeSession, TypeLoad
  <2>4. FileInv'
    BY <1>1, <1>3, FileStep
  <2>5. PlaceInv'
    BY <1>1, <2>1, PlaceSession, PlaceLoad
  <2>6. ExactInv'
    <3>1. CASE ExactIn(features)
      BY <1>1, <2>1, <3>1, ExactSession, ExactLoad
    <3>2. CASE ~ExactIn(features)
      BY <2>2, <3>2 DEF ExactInv
    <3> QED  BY <3>1, <3>2
  <2>7. StackInv'
    <3>1. CASE StackIn(features)
      <4>1. SavesEnd /\ Mirrors /\ Marked
        BY <1>1, <3>1 DEF StackInv
      <4>2. SavesEnd' /\ Mirrors' /\ Marked'
        BY <1>1, <1>3, <3>1, <4>1, BooksStep
      <4>3. (Settled' => Live') /\ (pc' = "feeding" => Pushed')
        BY <1>1, <2>1, <3>1, LiveSession, LiveLoad
      <4> QED  BY <4>2, <4>3 DEF StackInv
    <3>2. CASE ~StackIn(features)
      BY <2>2, <3>2 DEF StackInv
    <3> QED  BY <3>1, <3>2
  <2>8. QuitInv'
    <3>1. CASE QuitIn(features) /\ features \cap {"full", "note"} = {}
      BY <1>1, <2>1, <3>1, QuitSession, QuitLoad
    <3>2. CASE ~(QuitIn(features) /\ features \cap {"full", "note"} = {})
      BY <2>2, <3>2 DEF QuitInv
    <3> QED  BY <3>1, <3>2
  <2> QED  BY <2>3, <2>4, <2>5, <2>6, <2>7, <2>8 DEF RestoreInv
<1> QED  BY <1>2, <1>3

\* Saving and loading has the invariant, whatever fails.
THEOREM RestoreInvariant == Spec => [](TypeInv /\ RestoreInv)
<1>1. Init => TypeInv /\ RestoreInv
  BY RestoreInit
<1>2. TypeInv /\ RestoreInv /\ [Next]_vars => (TypeInv /\ RestoreInv)'
  BY RestoreStep
<1> QED  BY <1>1, <1>2, PTL DEF Spec

\* The memory, the tracker, the books, the files and the position of a load have their
\* types, whatever fails (a context never outgrows n_ctx, a canary included).
THEOREM RestoreTypes == Spec => []TypeOK
<1>1. TypeInv => TypeOK
  <2> SUFFICES ASSUME TypeInv PROVE TypeOK
    OBVIOUS
  <2>1. mem \in Memory
    BY FilledFields DEF TypeInv
  <2>2. EntryType \subseteq Entries
    BY DEF EntryType, Entries, RsState
  <2>3. entry \in Seq(Entries) /\ Len(entry) <= 1
    <3>1. CASE entry = <<>>
      BY <3>1
    <3>2. CASE entry[1] \in EntryType /\ entry = <<entry[1]>>
      <4>1. PICK e \in Entries : entry = <<e>>
        BY <2>2, <3>2
      <4>2. <<e>> \in Seq(Entries) /\ Len(<<e>>) = 1
        BY <4>1
      <4> QED  BY <4>1, <4>2
    <3> QED  BY <3>1, <3>2 DEF TypeInv
  <2> QED  BY <2>1, <2>3 DEF TypeInv, TypeOK, Pcs
<1> QED  BY <1>1, RestoreInvariant, PTL

\* However a session came back, tracker, cache, n_past_ and recurrent state are one
\* context (perform_restore, session.cc 1866), unless a canary of few tokens was taken
\* for clean, or a load was cancelled behind one that failed.
THEOREM RestoredExactlyHolds ==
    ASSUME \A f \in Scenarios : ExactIn(f)
    PROVE  Spec => []RestoredExactly
<1>1. TypeInv /\ RestoreInv => RestoredExactly
  BY DEF TypeInv, RestoreInv, ExactInv, Settled, Exact, RestoredExactly, AtPrompt
<1> QED  BY <1>1, RestoreInvariant, PTL

\* At the prompt the checkpoint stack has the states of the checkpoints from
\* checkpoint_stack_offset on, also behind a load from the cache and the turns after
\* it, if saves end with a checkpoint and those that a canary loads have theirs.
THEOREM StackLiveHolds ==
    ASSUME \A f \in Scenarios : StackIn(f)
    PROVE  Spec => []StackLive
<1>1. TypeInv /\ RestoreInv => StackLive
  BY DEF TypeInv, RestoreInv, StackInv, Settled, Live, StackLive, Idle
<1> QED  BY <1>1, RestoreInvariant, PTL

\* /quit leaves nothing behind that is not in the save (session.cc 2484), if only
\* prompts add to the conversation.
THEOREM QuitKeepsWorkHolds ==
    ASSUME \A f \in Scenarios : QuitIn(f)
    PROVE  Spec => []QuitKeepsWork
<1>1. TypeInv /\ RestoreInv => QuitKeepsWork
  BY DEF TypeInv, RestoreInv, QuitInv, Kept, QuitKeepsWork
<1> QED  BY <1>1, RestoreInvariant, PTL

\* A load gives the conversation of one save, whole or up to a checkpoint, or a fresh
\* session (perform_restore), unless one is cancelled over a context that the canary
\* judged corrupt.
THEOREM LoadGivesASaveHolds ==
    ASSUME \A f \in Scenarios : Uncancelled(f)
    PROVE  Spec => LoadGivesASave
<1> DEFINE Gives ==
      (pc \in {"fast", "probe", "slow", "feeding", "autoCaching"} /\ pc' \in {"loaded", "idle"}) =>
         \/ tracker' = SystemPrompt /\ cps' = <<>>
         \/ tracker' = file.tokens /\ cps' = ReadCps(file)
         \/ \E i \in 1..Len(file.cps) :
               tracker' = Prefix(file.tokens, file.cps[i]) /\ cps' = Prefix(file.cps, i)
<1>1. TypeInv /\ RestoreInv /\ [Next]_vars => [Gives]_vars
  <2> USE DEF ctxVars, bookVars, disk, load
  <2>0. SUFFICES ASSUME TypeInv, RestoreInv, Next, pc' # pc,
                        pc \in {"fast", "probe", "slow", "feeding", "autoCaching"},
                        pc' \in {"loaded", "idle"}
                 PROVE  Gives
    BY DEF vars
  <2>1. FileInv /\ PlaceInv /\ Uncancelled(features)
    BY <2>0 DEF RestoreInv, TypeInv
  <2>2. CASE UserStep \/ TurnStep
    BY <2>0, <2>2 DEF UserStep, StartTurn, ClearSession, SaveCommand, QuitCommand, LoadCommand, Idle,
       TurnStep, Say, EndTurn
  <2>3. CASE SaveStep
    <3>1. CacheWritten /\ pc = "autoCaching"
      BY <2>0, <2>3 DEF SaveStep, SaveWritten, SaveFails, CacheBegun, CacheWritten
    <3>2. UNCHANGED <<tracker, cps>>
      BY <3>1 DEF CacheWritten
    <3>3. tracker = file.tokens /\ cps = ReadCps(file)
      BY <2>1, <3>1 DEF PlaceInv
    <3> QED  BY <3>2, <3>3
  <2>4. CASE LoadStep
    <3>1. CASE CacheHit
      <4>1. tracker' = file.tokens /\ cps' = ReadCps(file)
        BY <2>0, <2>1, <3>1, Hits
      <4> QED  BY <4>1
    <3>2. CASE CanaryClean
      <4>1. pc = "probe" /\ tracker' = file.tokens /\ cps' = cps
        BY <2>0, <2>1, <3>2, Cleans
      <4>2. cps = ReadCps(file)
        BY <2>1, <4>1 DEF PlaceInv
      <4> QED  BY <4>1, <4>2
    <3>3. CASE RedecodeEnds
      <4>1. /\ limit = Len(file.tokens) => tracker' = file.tokens /\ cps' = ReadCps(file)
            /\ limit # Len(file.tokens) =>
                  \E i \in 1..Len(file.cps) :
                     tracker' = Prefix(file.tokens, file.cps[i]) /\ cps' = Prefix(file.cps, i)
        BY <2>0, <2>1, <3>3, Ends
      <4> QED  BY <4>1
    <3>4. CASE RedecodeFails
      BY <3>4 DEF RedecodeFails, Fresh
    <3>5. CASE RestoreCancelled
      <4>1. pc = "slow" /\ "cancel" \in features /\ UNCHANGED <<tracker, cps>>
        BY <3>5 DEF RestoreCancelled
      <4>2. "corrupt" \notin features
        BY <2>1, <4>1 DEF Uncancelled
      <4>3. tracker = SystemPrompt /\ cps = <<>>
        BY <2>1, <4>1, <4>2 DEF PlaceInv
      <4> QED  BY <4>1, <4>3
    <3>6. CASE CacheMiss \/ CanaryCorrupt \/ FeedChunk
      BY <2>0, <3>6 DEF CacheMiss, CanaryCorrupt, FeedChunk
    <3>7. CASE ProbeSteps
      BY <2>0, <2>1, <3>7, Probes
    <3>8. CASE \/ (entry # <<>> /\ \E kv \in {<<>>, entry[1].kv} :
                      StateSetFails([EmptyMem EXCEPT !.kv = kv]))
               \/ (\E to \in 0..NCtx : Redecode(to))
               \/ \E note \in {<<>>} \cup {<<t>> : t \in Words} : LoadEnds(note)
      BY <2>0, <3>8 DEF StateSetFails, Redecode, LoadEnds
    <3> QED  BY <2>4, <3>1, <3>2, <3>3, <3>4, <3>5, <3>6, <3>7, <3>8 DEF LoadStep
  <2>5. CASE Restart
    BY <2>5 DEF Restart, Fresh
  <2> QED  BY <2>0, <2>2, <2>3, <2>4, <2>5 DEF Next
<1> QED  BY <1>1, RestoreInvariant, PTL DEF Spec, LoadGivesASave
=============================================================================
