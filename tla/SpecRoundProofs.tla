-------------------------- MODULE SpecRoundProofs --------------------------
(***************************************************************************)
(* Theorems about SpecRound, for every vocabulary, distribution, context   *)
(* size and draft length.                                                  *)
(***************************************************************************)
EXTENDS SpecRound, RsMemoryProofs

\* The round is in exactly one of the states the flags encode; verify says that
\* the batch of a round in progress is still to be decoded.
OneState ==
    /\ ~(spec.origin /\ spec.inProgress) /\ ~(spec.origin /\ spec.bonus)
    /\ ~(spec.origin /\ spec.complete) /\ ~(spec.inProgress /\ spec.bonus)
    /\ ~(spec.inProgress /\ spec.complete) /\ ~(spec.bonus /\ spec.complete)
    /\ spec.verify => spec.inProgress

\* Which of them can be seen at which point of the loop body.
InPlace ==
    /\ spec.verify => phase \in {"piece", "post", "cleanup"}
    /\ spec.complete => phase \in {"piece", "post", "cleanup"}
    /\ spec.origin => phase \notin {"piece", "post", "done"}
    /\ phase = "done" => ~RoundOpen

\* The drafts of an undecided round are there, and rows are left to verify.
RowsLeft ==
    /\ spec.origin => spec.draft \in Drafts
    /\ spec.inProgress => spec.row < spec.rows

\* The statistics owe one note for an open round and one count for its origin.
Owed ==
    /\ ledger \in [open : Int, origins : Int]
    /\ ledger.open = IF RoundOpen THEN 1 ELSE 0
    /\ ledger.origins = IF spec.origin THEN 1 ELSE 0

RoundInv ==
    /\ spec \in Round /\ phase \in Phases
    /\ OneState /\ InPlace /\ RowsLeft /\ Owed

-----------------------------------------------------------------------------
\* A list of drafts has the configured length.
LEMMA DraftLength == \A d \in Drafts : d \in Seq(Token) /\ Len(d) = DraftLen
  BY SpecRoundAssumption, SMT DEF Drafts

\* Row numbers count from zero; one below another has a successor among them.
LEMMA RowArithmetic ==
  /\ 0 \in RowNumbers /\ DraftLen - 1 \in RowNumbers /\ <<>> \in DraftLists
  /\ Drafts \subseteq DraftLists
  /\ RowNumbers \subseteq Nat
  /\ \A i, j \in RowNumbers : i < j => i + 1 \in RowNumbers
  BY SpecRoundAssumption DEF RowNumbers, DraftLists

\* Feeding a token leaves the round as it was, but for the pending no-feed mark.
LEMMA FeedKeepsRound ==
  ASSUME NEW m, NEW sp \in Round, NEW ok \in BOOLEAN, Feed(m, sp, ok)
  PROVE  \E b \in BOOLEAN : spec' = [sp EXCEPT !.noFeed = b]
  <1>1. CASE sp.noFeed
    <2>1. spec' = [sp EXCEPT !.noFeed = FALSE]
      BY <1>1 DEF Feed
    <2> QED  BY <2>1
  <1>2. CASE ~sp.noFeed
    <2>1. spec' = sp
      BY <1>2 DEF Feed
    <2>2. sp = [sp EXCEPT !.noFeed = sp.noFeed] /\ sp.noFeed \in BOOLEAN
      BY DEF Round
    <2> QED  BY <2>1, <2>2
  <1> QED  BY <1>1, <1>2

\* The first state has no round.
LEMMA RoundInit == Init => RoundInv
  <1> SUFFICES ASSUME Init PROVE RoundInv
    OBVIOUS
  <1>1. NoRound \in Round
    BY RowArithmetic DEF NoRound, Round
  <1> QED
    BY <1>1 DEF Init, RoundInv, NoRound, Phases, OneState, InPlace, RowsLeft, Owed, RoundOpen

\* A record of Round has its flags and numbers where Round says.
LEMMA RoundFields ==
  ASSUME NEW r \in Round
  PROVE  /\ r.origin \in BOOLEAN /\ r.inProgress \in BOOLEAN /\ r.bonus \in BOOLEAN
         /\ r.verify \in BOOLEAN /\ r.complete \in BOOLEAN /\ r.noFeed \in BOOLEAN
         /\ r.draft \in DraftLists /\ r.row \in RowNumbers /\ r.rows \in RowNumbers
         /\ r.committed \in RowNumbers
  BY DEF Round

\* One note pays for an open round whose origin is already counted.
LEMMA NotePays ==
  ASSUME RoundInv, RoundOpen, ~spec.origin
  PROVE  Noted = [open |-> 0, origins |-> 0]
  BY RoundFields DEF RoundInv, Owed, Noted

\* A state with no round and nothing owed satisfies the invariant.
LEMMA ClosedRound ==
  ASSUME spec' \in Round, phase' \in Phases, ~RoundOpen',
         ledger' = [open |-> 0, origins |-> 0]
  PROVE  RoundInv'
  BY RoundFields DEF RoundInv, OneState, InPlace, RowsLeft, Owed, RoundOpen

\* A mismatched draft closes the round.
LEMMA DropRound ==
  ASSUME NEW r \in Round
  PROVE  [r EXCEPT !.inProgress = FALSE, !.noFeed = FALSE, !.row = 0, !.draft = <<>>] \in Round
  BY RowArithmetic DEF Round

\* The steps of the EOG block keep the invariant.
LEMMA EogKeeps ==
  ASSUME RoundInv, EogStep
  PROVE  RoundInv'
  <1> USE RowArithmetic
  <1>1. spec \in Round /\ phase \in Phases
    BY DEF RoundInv
  <1>2. CASE Swallow \/ Poll
    BY <1>2 DEF Swallow, Poll, RoundInv, OneState, InPlace, RowsLeft, Owed, RoundOpen, Phases
  <1>3. CASE EndTurnMatched
    <2> DEFINE sp == [spec EXCEPT !.noFeed = TRUE, !.committed = spec.row + 1]
    <2>1. spec.row + 1 \in RowNumbers
      BY <1>1, <1>3, RoundFields DEF EndTurnMatched, EogMatches, VerifyLeft
    <2>2. sp \in Round
      BY <1>1, <2>1 DEF Round
    <2>3. PICK b \in BOOLEAN : spec' = [sp EXCEPT !.noFeed = b]
      BY <1>3, <2>2, FeedKeepsRound DEF EndTurnMatched
    <2>4. phase' = "cleanup" /\ phase = "eog" /\ ledger' = ledger
      BY <1>3 DEF EndTurnMatched, LeaveAfterFeed
    <2> QED
      BY <1>1, <2>2, <2>3, <2>4
      DEF RoundInv, OneState, InPlace, RowsLeft, Owed, RoundOpen, Phases, Round
  <1>4. ASSUME NEW ok \in BOOLEAN, EndTurnMismatched(ok)
        PROVE  RoundInv'
    <2> DEFINE sp == [spec EXCEPT !.inProgress = FALSE, !.noFeed = FALSE,
                                  !.row = 0, !.draft = <<>>]
    <2>1. /\ phase = "eog" /\ phase' = "cleanup" /\ spec.inProgress /\ ledger' = Noted
          /\ Feed(RolledBack(mem), sp, ok)
      BY <1>4 DEF EndTurnMismatched, VerifyLeft, LeaveAfterFeed
    <2>2. sp \in Round
      BY <1>1, DropRound
    <2> HIDE DEF sp
    <2>3. PICK b \in BOOLEAN : spec' = [sp EXCEPT !.noFeed = b]
      BY <2>1, <2>2, FeedKeepsRound
    <2>4. ~spec.origin /\ ~spec.bonus /\ ~spec.complete /\ ~spec.verify /\ RoundOpen
      BY <2>1 DEF RoundInv, OneState, InPlace, RoundOpen
    <2>5. spec' \in Round /\ ~RoundOpen'
      BY <1>1, <2>2, <2>3, <2>4 DEF sp, RoundOpen, Round
    <2> QED
      BY <2>1, <2>4, <2>5, NotePays, ClosedRound DEF Phases
  <1>5. ASSUME NEW ok \in BOOLEAN, EndTurnBonus(ok)
        PROVE  RoundInv'
    <2> DEFINE sp == [spec EXCEPT !.bonus = FALSE]
    <2>1. /\ phase = "eog" /\ phase' = "cleanup" /\ spec.bonus /\ ledger' = Noted
          /\ Feed(mem, sp, ok)
      BY <1>5 DEF EndTurnBonus, LeaveAfterFeed
    <2>2. sp \in Round
      BY <1>1 DEF Round
    <2> HIDE DEF sp
    <2>3. PICK b \in BOOLEAN : spec' = [sp EXCEPT !.noFeed = b]
      BY <2>1, <2>2, FeedKeepsRound
    <2>4. ~spec.origin /\ ~spec.inProgress /\ ~spec.complete /\ ~spec.verify /\ RoundOpen
      BY <2>1 DEF RoundInv, OneState, InPlace, RoundOpen
    <2>5. spec' \in Round /\ ~RoundOpen'
      BY <1>1, <2>2, <2>3, <2>4 DEF sp, RoundOpen, Round
    <2> QED
      BY <2>1, <2>4, <2>5, NotePays, ClosedRound DEF Phases
  <1>6. ASSUME NEW ok \in BOOLEAN, EndTurnPlain(ok)
        PROVE  RoundInv'
    <2>1. phase = "eog" /\ phase' = "cleanup" /\ ledger' = ledger /\ Feed(mem, spec, ok)
      BY <1>6 DEF EndTurnPlain, LeaveAfterFeed
    <2>2. PICK b \in BOOLEAN : spec' = [spec EXCEPT !.noFeed = b]
      BY <1>1, <2>1, FeedKeepsRound
    <2> QED
      BY <1>1, <2>1, <2>2
      DEF RoundInv, OneState, InPlace, RowsLeft, Owed, RoundOpen, Phases, Round
  <1> QED
    BY <1>2, <1>3, <1>4, <1>5, <1>6 DEF EogStep

\* The comparison keeps the invariant: with more than one draft, a matched d1
\* leaves rows to verify.
LEMMA CompareKeeps ==
  ASSUME DraftLen > 1, RoundInv, CompareStep
  PROVE  RoundInv'
  <1> USE RowArithmetic
  <1>1. spec \in Round /\ phase \in Phases
    BY DEF RoundInv
  <1>2. CASE CompareBonus
    BY <1>1, <1>2
    DEF CompareBonus, RoundInv, OneState, InPlace, RowsLeft, Owed, RoundOpen, Phases, Round
  <1>3. CASE CompareOrigin
    <2>1. Len(spec.draft) = DraftLen /\ spec.origin /\ phase' = "piece"
      BY <1>3, DraftLength DEF CompareOrigin, RoundInv, RowsLeft
    <2>2. ~spec.bonus /\ ~spec.inProgress /\ ~spec.complete /\ ~spec.verify
      BY <2>1 DEF RoundInv, OneState
    <2>3. ledger = [open |-> 1, origins |-> 1]
      BY <2>1 DEF RoundInv, Owed, RoundOpen
    <2>4. CASE cur = spec.draft[1]
      <3>1. spec' = [spec EXCEPT !.origin = FALSE, !.noFeed = TRUE, !.verify = TRUE,
                                 !.inProgress = TRUE, !.row = 0,
                                 !.rows = DraftLen - 1, !.committed = 0]
        BY <1>3, <2>1, <2>4 DEF CompareOrigin
      <3>2. ledger' = [open |-> 1, origins |-> 0]
        BY <1>3, <2>3, <2>4 DEF CompareOrigin
      <3>3. spec' \in Round
        BY <1>1, <3>1 DEF Round
      <3>4. /\ ~spec'.origin /\ spec'.inProgress /\ spec'.verify /\ ~spec'.bonus
            /\ ~spec'.complete /\ spec'.row < spec'.rows
        BY <1>1, <2>2, <3>1, SpecRoundAssumption DEF Round
      <3> QED
        BY <2>1, <3>2, <3>3, <3>4
        DEF RoundInv, OneState, InPlace, RowsLeft, Owed, RoundOpen, Phases
    <2>5. CASE cur # spec.draft[1]
      <3>1. spec' = [spec EXCEPT !.origin = FALSE, !.draft = <<>>]
        BY <1>3, <2>5 DEF CompareOrigin
      <3>2. ledger' = [open |-> 0, origins |-> 0]
        <4>1. Noted = [open |-> 0, origins |-> 1]
          BY <2>3 DEF Noted
        <4> QED
          BY <1>3, <2>5, <4>1 DEF CompareOrigin
      <3>3. spec' \in Round /\ ~RoundOpen'
        BY <1>1, <2>2, <3>1 DEF Round, RoundOpen
      <3> QED
        BY <2>1, <3>2, <3>3, ClosedRound DEF Phases
    <2> QED
      BY <2>4, <2>5
  <1>4. CASE CompareVerify
    <2>1. spec.inProgress /\ spec.row < spec.rows /\ phase' = "piece" /\ phase = "compare"
      BY <1>4 DEF CompareVerify, VerifyLeft
    <2>2. ~spec.origin /\ ~spec.bonus /\ ~spec.complete /\ ~spec.verify /\ RoundOpen
      BY <2>1 DEF RoundInv, OneState, InPlace, RoundOpen
    <2>3. CASE cur = spec.draft[spec.row + 2]
      <3>1. /\ spec' = [spec EXCEPT !.noFeed = TRUE, !.committed = spec.row + 1,
                                    !.row = spec.row + 1,
                                    !.inProgress = spec.row + 1 < spec.rows,
                                    !.bonus = spec.row + 1 >= spec.rows]
            /\ ledger' = ledger
        BY <1>4, <2>3 DEF CompareVerify
      <3>2. spec.row + 1 \in RowNumbers /\ spec.row \in Nat /\ spec.rows \in Nat
        BY <1>1, <2>1, RoundFields
      <3>3. CASE spec.row + 1 < spec.rows
        <4>1. spec' = [spec EXCEPT !.noFeed = TRUE, !.committed = spec.row + 1,
                                   !.row = spec.row + 1, !.inProgress = TRUE,
                                   !.bonus = FALSE]
          <5>1. /\ (spec.row + 1 < spec.rows) = TRUE
                /\ (spec.row + 1 >= spec.rows) = FALSE
            BY <3>2, <3>3
          <5> QED
            BY <3>1, <5>1, Zenon
        <4> QED
          BY <1>1, <2>1, <2>2, <3>1, <3>2, <3>3, <4>1
          DEF RoundInv, OneState, InPlace, RowsLeft, Owed, RoundOpen, Phases, Round
      <3>4. CASE ~(spec.row + 1 < spec.rows)
        <4>1. spec' = [spec EXCEPT !.noFeed = TRUE, !.committed = spec.row + 1,
                                   !.row = spec.row + 1, !.inProgress = FALSE,
                                   !.bonus = TRUE]
          <5>1. /\ (spec.row + 1 < spec.rows) = FALSE
                /\ (spec.row + 1 >= spec.rows) = TRUE
            BY <3>2, <3>4
          <5> QED
            BY <3>1, <5>1, Zenon
        <4> QED
          BY <1>1, <2>1, <2>2, <3>1, <3>2, <4>1
          DEF RoundInv, OneState, InPlace, RowsLeft, Owed, RoundOpen, Phases, Round
      <3> QED
        BY <3>3, <3>4
    <2>4. CASE cur # spec.draft[spec.row + 2]
      <3>1. /\ spec' = [spec EXCEPT !.inProgress = FALSE, !.noFeed = FALSE,
                                    !.row = 0, !.draft = <<>>]
            /\ ledger' = Noted
        BY <1>4, <2>4 DEF CompareVerify
      <3>2. spec' \in Round
        BY <1>1, <3>1, DropRound
      <3>3. ~RoundOpen'
        BY <1>1, <2>2, <3>1 DEF Round, RoundOpen
      <3> QED
        BY <2>1, <2>2, <3>1, <3>2, <3>3, NotePays, ClosedRound DEF Phases
    <2> QED
      BY <2>3, <2>4
  <1>5. CASE ComparePlain
    BY <1>5 DEF ComparePlain, RoundInv, OneState, InPlace, RowsLeft, Owed, RoundOpen, Phases
  <1> QED
    BY <1>2, <1>3, <1>4, <1>5 DEF CompareStep

\* The steps after the feed keep the invariant; VerifyDecode finds rows left.
LEMMA PostKeeps ==
  ASSUME RoundInv, PostStep
  PROVE  RoundInv'
  <1> USE RowArithmetic
  <1>1. spec \in Round /\ phase \in Phases
    BY DEF RoundInv
  <1>2. AfterPost \in {"hook", "top"}
    BY DEF AfterPost
  <1>3. CASE VerifyDecode
    <2>1. spec.verify /\ phase = "post" /\ phase' = AfterPost /\ ledger' = ledger
      BY <1>3 DEF VerifyDecode
    <2>2. /\ spec.inProgress /\ ~spec.origin /\ ~spec.bonus /\ ~spec.complete
          /\ spec.row < spec.rows
      BY <2>1 DEF RoundInv, OneState, RowsLeft
    <2>3. spec.rows > 0
      <3>1. spec.row \in Nat /\ spec.rows \in Nat
        BY <1>1, RoundFields
      <3> QED
        BY <2>2, <3>1
    <2>4. spec' = [spec EXCEPT !.verify = FALSE]
      BY <1>3, <2>3 DEF VerifyDecode
    <2> QED
      BY <1>1, <1>2, <2>1, <2>2, <2>4
      DEF RoundInv, OneState, InPlace, RowsLeft, Owed, RoundOpen, Phases, Round
  <1>4. ASSUME NEW n \in 0..DraftLen, VerifyFail(n)
        PROVE  RoundInv'
    <2>1. /\ spec.verify /\ phase' = "cleanup" /\ ledger' = Noted
          /\ spec' = [spec EXCEPT !.verify = FALSE, !.inProgress = FALSE, !.bonus = FALSE,
                                  !.complete = FALSE, !.draft = <<>>]
      BY <1>4 DEF VerifyFail
    <2>2. RoundOpen /\ ~spec.origin
      BY <2>1 DEF RoundInv, OneState, RoundOpen
    <2>3. spec' \in Round /\ ~RoundOpen'
      BY <1>1, <2>1, <2>2 DEF Round, RoundOpen
    <2> QED
      BY <2>1, <2>2, <2>3, NotePays, ClosedRound DEF Phases
  <1>5. CASE CompleteRound
    <2>1. /\ spec.complete /\ phase' = AfterPost /\ ledger' = Noted
          /\ spec' = [spec EXCEPT !.complete = FALSE]
      BY <1>5 DEF CompleteRound
    <2>2. RoundOpen /\ ~spec.origin /\ ~spec.inProgress /\ ~spec.bonus /\ ~spec.verify
      BY <2>1 DEF RoundInv, OneState, RoundOpen
    <2>3. spec' \in Round /\ ~RoundOpen'
      BY <1>1, <2>1, <2>2 DEF Round, RoundOpen
    <2> QED
      BY <1>2, <2>1, <2>2, <2>3, NotePays, ClosedRound DEF Phases
  <1>6. CASE StartRound
    <2>1. /\ phase = "post" /\ ~spec.verify /\ ~spec.complete /\ ~spec.inProgress
          /\ ~spec.bonus /\ phase' = AfterPost
          /\ ledger' = [open |-> ledger.open + 1, origins |-> ledger.origins + 1]
      BY <1>6 DEF StartRound
    <2>2. PICK d \in Drafts : spec' = [spec EXCEPT !.draft = d, !.origin = TRUE]
      BY <1>6 DEF StartRound
    <2>3. ledger' = [open |-> 1, origins |-> 1]
      BY <2>1 DEF RoundInv, InPlace, Owed, RoundOpen
    <2>4. spec' \in Round
      BY <1>1, <2>2 DEF Round
    <2>5. /\ spec'.origin /\ spec'.draft \in Drafts /\ ~spec'.verify /\ ~spec'.complete
          /\ ~spec'.inProgress /\ ~spec'.bonus
      BY <1>1, <2>1, <2>2 DEF Round
    <2> QED
      BY <1>2, <2>1, <2>3, <2>4, <2>5
      DEF RoundInv, OneState, InPlace, RowsLeft, Owed, RoundOpen, Phases
  <1>7. CASE NoNewRound
    BY <1>2, <1>7
    DEF NoNewRound, RoundInv, OneState, InPlace, RowsLeft, Owed, RoundOpen, Phases
  <1>8. CASE ToolStartHook
    BY <1>8 DEF ToolStartHook, RoundInv, OneState, InPlace, RowsLeft, Owed, RoundOpen, Phases
  <1> QED
    BY <1>3, <1>4, <1>5, <1>6, <1>7, <1>8 DEF PostStep

\* Every step of the loop keeps the accounting of the round, when a round has
\* more than one draft (with one, VerifyDecode opens it twice).
LEMMA RoundStep ==
  ASSUME DraftLen > 1, RoundInv, [Next]_vars
  PROVE  RoundInv'
  <1>0. spec \in Round /\ phase \in Phases
    BY DEF RoundInv
  <1>1. CASE GiveUp \/ Interrupt \/ Resume
    BY <1>1 DEF GiveUp, Interrupt, Resume, RoundInv, OneState, InPlace, RowsLeft, Owed,
                RoundOpen, Phases
  <1>2. CASE Sample
    BY <1>2 DEF Sample, RoundInv, OneState, InPlace, RowsLeft, Owed, RoundOpen, Phases
  <1>3. CASE EogStep
    BY <1>3, EogKeeps
  <1>4. CASE CompareStep
    BY <1>4, CompareKeeps
  <1>5. CASE PieceStep
    <2>1. CASE Tripwire
      BY <2>1 DEF Tripwire, RoundInv, OneState, InPlace, RowsLeft, Owed, RoundOpen, Phases
    <2>2. ASSUME NEW ok \in BOOLEAN, CompleteCall(ok) \/ Piece(ok)
          PROVE  RoundInv'
      <3>1. /\ phase = "piece" /\ phase' \in {"post", "cleanup"} /\ ledger' = ledger
            /\ Feed(mem, spec, ok)
        BY <2>2 DEF CompleteCall, Piece, LeaveAfterFeed
      <3>2. PICK b \in BOOLEAN : spec' = [spec EXCEPT !.noFeed = b]
        BY <1>0, <3>1, FeedKeepsRound
      <3> QED
        BY <1>0, <3>1, <3>2
        DEF RoundInv, OneState, InPlace, RowsLeft, Owed, RoundOpen, Phases, Round
    <2> QED
      BY <1>5, <2>1, <2>2 DEF PieceStep
  <1>6. CASE PostStep
    BY <1>6, PostKeeps
  <1>7. CASE CleanupStep
    <2>1. CASE CleanupIdle
      BY <2>1 DEF CleanupIdle, RoundInv, OneState, InPlace, RowsLeft, Owed, RoundOpen, Phases
    <2>2. ASSUME NEW touched, Settled(touched), RoundOpen
          PROVE  RoundInv'
      <3>1. spec' = NoRound /\ phase' = "done"
        BY <2>2 DEF Settled
      <3>2. NoRound \in Round /\ ~RoundOpen'
        BY <3>1, RowArithmetic DEF NoRound, Round, RoundOpen
      <3>3. ledger' = [open |-> 0, origins |-> 0]
        BY <2>2 DEF Settled, RoundInv, Owed
      <3> QED
        BY <3>1, <3>2, <3>3, ClosedRound DEF Phases
    <2> QED
      BY <1>7, <2>1, <2>2
      DEF CleanupStep, CleanupGiveCell, CleanupDropCell, CleanupUnfed, CleanupRollback,
          CleanupClose, RoundOpen
  <1>8. CASE UNCHANGED vars
    BY <1>8 DEF vars, RoundInv, OneState, InPlace, RowsLeft, Owed, RoundOpen
  <1> QED
    BY <1>1, <1>2, <1>3, <1>4, <1>5, <1>6, <1>7, <1>8 DEF Next, Generate

\* However a generation runs, is interrupted, fails or is resumed, each round is
\* noted once and its origin counted once, if a round has more than one draft.
THEOREM NotedOnce ==
  ASSUME DraftLen > 1
  PROVE  Spec => []RoundsNotedOnce
  <1>1. RoundInv => RoundsNotedOnce
    BY DEF RoundInv, InPlace, Owed, RoundsNotedOnce, RoundOpen
  <1> QED
    BY <1>1, RoundInit, RoundStep, PTL DEF Spec
-----------------------------------------------------------------------------
(***************************************************************************)
(* Type correctness of SpecRound.  Three facts have to be carried along:   *)
(* no state the cache holds is blank (nothing is restored during a         *)
(* generation), a token dropped from the tracker was there to be dropped,  *)
(* and the batch has a row for every draft that is being verified.         *)
(***************************************************************************)
\* The parts of the state that are sets of data, with the memory filled.
DataOK ==
    /\ mem \in Filled /\ tracker \in Seq(Token) /\ npast \in Nat
    /\ rows \in Seq(RsState) /\ cur \in Token

\* The parts that are small sets of labels and counters.
LabelsOK ==
    /\ exit \in Exits /\ tool \in {"none", "pending", "open"}
    /\ mark \in Nat /\ redecoded \in BOOLEAN

\* A token committed by a matched draft is not decoded again, so that the batch
\* keeps one row for each draft, and d1 is in the tracker before they are decoded.
MatchedOK ==
    /\ spec.verify => spec.draft \in Drafts
    /\ spec.inProgress /\ phase = "piece" => spec.noFeed
    /\ spec.verify /\ phase = "post" => npast > 0
    /\ spec.inProgress /\ ~spec.verify => Len(rows) = DraftLen

TypeInv == RoundInv /\ DataOK /\ LabelsOK /\ MatchedOK

-----------------------------------------------------------------------------
\* What a feed does to the data: a matched token only joins the tracker.
LEMMA FeedData ==
  ASSUME NEW m \in Filled, NEW sp \in Round, NEW ok \in BOOLEAN, Feed(m, sp, ok), DataOK
  PROVE  /\ mem' \in Filled /\ tracker' \in Seq(Token) /\ npast' \in Nat
         /\ rows' \in Seq(RsState)
         /\ sp.noFeed => /\ mem' = m /\ rows' = rows /\ npast' = npast + 1
                         /\ tracker' = Append(tracker, cur)
         /\ ~sp.noFeed => spec' = sp
         /\ spec' \in Round
         /\ spec'.inProgress = sp.inProgress /\ spec'.verify = sp.verify
         /\ spec'.draft = sp.draft
  <1>1. cur \in Token /\ tracker \in Seq(Token) /\ Append(tracker, cur) \in Seq(Token)
    BY AppendProperties DEF DataOK
  <1>2. PICK b \in BOOLEAN : spec' = [sp EXCEPT !.noFeed = b]
    BY FeedKeepsRound
  <1>3. /\ spec' \in Round /\ spec'.inProgress = sp.inProgress
        /\ spec'.verify = sp.verify /\ spec'.draft = sp.draft
    BY <1>2 DEF Round
  <1>4. CASE sp.noFeed
    <2>1. /\ tracker' = Append(tracker, cur) /\ npast' = npast + 1 /\ mem' = m
          /\ rows' = rows
      BY <1>4 DEF Feed
    <2> QED
      BY <1>1, <1>3, <1>4, <2>1 DEF DataOK
  <1>5. CASE ~sp.noFeed /\ ok
    <2>1. /\ tracker' = Append(tracker, cur) /\ npast' = npast + 1
          /\ mem' = Decode(m, <<cur>>) /\ rows' = <<State(Decode(m, <<cur>>))>>
          /\ spec' = sp
      BY <1>5 DEF Feed
    <2>2. <<cur>> \in Seq(Token)
      BY <1>1
    <2>3. Decode(m, <<cur>>) \in Filled
      BY <2>2, DecodeFilled
    <2>4. State(Decode(m, <<cur>>)) \in RsState
      BY <2>3, FilledFields DEF RsState
    <2> HIDE DEF RsState
    <2>5. <<State(Decode(m, <<cur>>))>> \in Seq(RsState)
      BY <2>4
    <2> QED
      BY <1>1, <1>3, <1>5, <2>1, <2>3, <2>5 DEF DataOK
  <1>6. CASE ~sp.noFeed /\ ~ok
    <2>1. /\ tracker' = IF Len(tracker) + 1 > Synced(m)
                        THEN Prefix(tracker, Synced(m)) ELSE Append(tracker, cur)
          /\ npast' = Synced(m) /\ mem' = m /\ rows' = <<Blank>> /\ spec' = sp
      BY <1>6 DEF Feed
    <2>2. Synced(m) \in Nat
      BY FilledFields DEF Synced
    <2>3. Len(tracker) + 1 > Synced(m) => Prefix(tracker, Synced(m)) \in Seq(Token)
      <3> SUFFICES ASSUME Len(tracker) + 1 > Synced(m)
                   PROVE  Prefix(tracker, Synced(m)) \in Seq(Token)
        OBVIOUS
      <3>1. Synced(m) \in 0..Len(tracker)
        BY <1>1, <2>2
      <3> QED
        BY <1>1, <3>1, PrefixType
    <2>4. Blank \in RsState
      BY DEF RsState
    <2> HIDE DEF RsState
    <2>5. <<Blank>> \in Seq(RsState)
      BY <2>4
    <2> QED
      BY <1>1, <1>3, <1>6, <2>1, <2>2, <2>3, <2>5
  <1> QED
    BY <1>4, <1>5, <1>6

\* Taking drafts back leaves a filled memory, even through the re-decode.
LEMMA RolledBackFilled ==
  ASSUME NEW m \in Filled, DataOK
  PROVE  RolledBack(m) \in Filled
  <1>1. SeqRm(m, npast) \in Filled
    BY SeqRmFilled DEF DataOK
  <1>2. Redecode(m) \in Filled
    BY EmptyFilled, DecodeFilled DEF Redecode, Clear, DataOK
  <1> QED
    BY <1>1, <1>2 DEF RolledBack
\* A step that leaves the data alone, and starts no verification, keeps MatchedOK
\* if it stays out of the piece and of the steps after the feed.
LEMMA UntouchedData ==
  ASSUME TypeInv, UNCHANGED <<mem, tracker, npast, rows>>, cur' \in Token,
         UNCHANGED spec, phase' \notin {"piece", "post"}
  PROVE  DataOK' /\ MatchedOK'
  BY DEF TypeInv, DataOK, MatchedOK

\* The first state is well typed.
LEMMA TypeInit ==
  ASSUME Init
  PROVE  TypeInv
  <1>1. PICK t \in Token : /\ tracker = <<t>> /\ cur = t
                           /\ mem = Decode(EmptyMem, <<t>>) /\ rows = << <<t>> >>
    BY DEF Init
  <1>2. <<t>> \in Seq(Token)
    BY <1>1
  <1>3. mem \in Filled
    BY <1>1, <1>2, EmptyFilled, DecodeFilled
  <1>4. <<t>> \in RsState
    BY <1>2 DEF RsState
  <1> HIDE DEF RsState
  <1>5. rows \in Seq(RsState)
    BY <1>1, <1>4
  <1>6. DataOK /\ LabelsOK /\ MatchedOK
    BY <1>1, <1>2, <1>3, <1>5 DEF Init, NoRound, DataOK, LabelsOK, MatchedOK, Exits
  <1> QED
    BY <1>6, RoundInit DEF TypeInv

\* The labels and counters stay in their sets whatever the step.
LEMMA LabelsStep ==
  ASSUME TypeInv, [Next]_vars
  PROVE  LabelsOK'
  <1> USE DEF TypeInv, LabelsOK, Exits
  <1>1. CASE GiveUp \/ Sample \/ Interrupt \/ Resume
    BY <1>1 DEF GiveUp, Sample, Interrupt, Resume
  <1>2. CASE EogStep
    BY <1>2 DEF EogStep, Swallow, Poll, EndTurnMatched, EndTurnMismatched, EndTurnBonus,
                EndTurnPlain, LeaveAfterFeed
  <1>3. CASE CompareStep
    BY <1>3 DEF CompareStep, CompareBonus, CompareOrigin, CompareVerify, ComparePlain
  <1>4. CASE PieceStep
    BY <1>4 DEF PieceStep, Tripwire, CompleteCall, Piece, LeaveAfterFeed
  <1>5. CASE PostStep
    BY <1>5 DEF PostStep, VerifyDecode, VerifyFail, CompleteRound, StartRound, NoNewRound,
                ToolStartHook, DataOK
  <1>6. CASE CleanupStep
    BY <1>6 DEF CleanupStep, CleanupIdle, CleanupGiveCell, CleanupDropCell, CleanupUnfed,
                CleanupRollback, CleanupClose, Settled
  <1>7. CASE UNCHANGED vars
    BY <1>7 DEF vars
  <1> QED
    BY <1>1, <1>2, <1>3, <1>4, <1>5, <1>6, <1>7 DEF Next, Generate

\* The EOG block leaves well-typed data.
LEMMA EogData ==
  ASSUME TypeInv, EogStep
  PROVE  DataOK' /\ MatchedOK'
  <1>1. spec \in Round /\ DataOK /\ mem \in Filled
    BY DEF TypeInv, RoundInv, DataOK
  <1>2. CASE Swallow \/ Poll
    <2>1. phase' \notin {"piece", "post"} /\ UNCHANGED <<mem, tracker, npast, rows, spec>>
      BY <1>2 DEF Swallow, Poll
    <2>2. cur' \in Token
      BY <1>1, <1>2 DEF Swallow, Poll, Draws, DataOK
    <2> QED
      BY <2>1, <2>2, UntouchedData
  <1>3. CASE EndTurnMatched
    <2> DEFINE sp == [spec EXCEPT !.noFeed = TRUE, !.committed = spec.row + 1]
    <2>1. /\ phase = "eog" /\ spec.inProgress /\ spec.row < spec.rows
          /\ Feed(mem, sp, TRUE) /\ phase' = "cleanup" /\ cur' = cur
      BY <1>3 DEF EndTurnMatched, EogMatches, VerifyLeft, LeaveAfterFeed
    <2>2. spec.row + 1 \in RowNumbers
      BY <1>1, <2>1, RoundFields, RowArithmetic
    <2>3. /\ sp \in Round /\ sp.noFeed /\ sp.inProgress = spec.inProgress
          /\ sp.verify = spec.verify /\ sp.draft = spec.draft
      BY <1>1, <2>2 DEF Round
    <2> HIDE DEF sp
    <2>4. /\ mem' \in Filled /\ tracker' \in Seq(Token) /\ npast' \in Nat
          /\ rows' \in Seq(RsState) /\ rows' = rows
          /\ spec'.inProgress = spec.inProgress /\ spec'.verify = spec.verify
          /\ spec'.draft = spec.draft
      BY <1>1, <2>1, <2>3, FeedData
    <2> QED
      BY <1>1, <2>1, <2>4 DEF TypeInv, DataOK, MatchedOK
  <1>4. ASSUME NEW ok \in BOOLEAN, EndTurnMismatched(ok)
        PROVE  DataOK' /\ MatchedOK'
    <2> DEFINE sp == [spec EXCEPT !.inProgress = FALSE, !.noFeed = FALSE,
                                  !.row = 0, !.draft = <<>>]
    <2>1. /\ phase = "eog" /\ Feed(RolledBack(mem), sp, ok) /\ cur' = cur
      BY <1>4 DEF EndTurnMismatched
    <2>2. sp \in Round /\ ~sp.inProgress /\ sp.verify = spec.verify
      BY <1>1, DropRound DEF Round
    <2>3. ~spec.verify
      BY <2>1 DEF TypeInv, RoundInv, InPlace
    <2> HIDE DEF sp
    <2>4. /\ mem' \in Filled /\ tracker' \in Seq(Token) /\ npast' \in Nat
          /\ rows' \in Seq(RsState) /\ ~spec'.inProgress /\ ~spec'.verify
      BY <1>1, <2>1, <2>2, <2>3, RolledBackFilled, FeedData
    <2> QED
      BY <1>1, <2>1, <2>4 DEF DataOK, MatchedOK
  <1>5. ASSUME NEW ok \in BOOLEAN, EndTurnBonus(ok)
        PROVE  DataOK' /\ MatchedOK'
    <2> DEFINE sp == [spec EXCEPT !.bonus = FALSE]
    <2>1. phase = "eog" /\ spec.bonus /\ Feed(mem, sp, ok) /\ cur' = cur
      BY <1>5 DEF EndTurnBonus
    <2>2. ~spec.inProgress /\ ~spec.verify
      BY <2>1 DEF TypeInv, RoundInv, OneState
    <2>3. sp \in Round /\ ~sp.inProgress /\ ~sp.verify
      BY <1>1, <2>2 DEF Round
    <2> HIDE DEF sp
    <2>4. /\ mem' \in Filled /\ tracker' \in Seq(Token) /\ npast' \in Nat
          /\ rows' \in Seq(RsState) /\ ~spec'.inProgress /\ ~spec'.verify
      BY <1>1, <2>1, <2>3, FeedData
    <2> QED
      BY <1>1, <2>1, <2>4 DEF DataOK, MatchedOK
  <1>6. ASSUME NEW ok \in BOOLEAN, EndTurnPlain(ok)
        PROVE  DataOK' /\ MatchedOK'
    <2>1. phase = "eog" /\ ~VerifyLeft /\ Feed(mem, spec, ok) /\ cur' = cur
      BY <1>6 DEF EndTurnPlain
    <2>2. ~spec.inProgress /\ ~spec.verify
      BY <1>1, <2>1 DEF VerifyLeft, TypeInv, RoundInv, RowsLeft, OneState
    <2>3. /\ mem' \in Filled /\ tracker' \in Seq(Token) /\ npast' \in Nat
          /\ rows' \in Seq(RsState) /\ ~spec'.inProgress /\ ~spec'.verify
      BY <1>1, <2>1, <2>2, FeedData
    <2> QED
      BY <1>1, <2>1, <2>3 DEF DataOK, MatchedOK
  <1> QED
    BY <1>2, <1>3, <1>4, <1>5, <1>6 DEF EogStep

\* The comparison and the piece leave well-typed data.
LEMMA CompareData ==
  ASSUME TypeInv, CompareStep
  PROVE  DataOK' /\ MatchedOK'
  <1>1. /\ spec \in Round /\ DataOK /\ phase = "compare" /\ phase' = "piece"
        /\ UNCHANGED <<tracker, npast, rows, cur>> /\ ~spec.verify
    BY DEF TypeInv, RoundInv, InPlace, CompareStep, CompareBonus, CompareOrigin,
           CompareVerify, ComparePlain
  <1>2. CASE CompareBonus
    <2>1. spec' = [spec EXCEPT !.bonus = FALSE, !.complete = TRUE] /\ spec.bonus /\ mem' = mem
      BY <1>2 DEF CompareBonus
    <2>2. ~spec.inProgress
      BY <2>1 DEF TypeInv, RoundInv, OneState
    <2>3. ~spec'.inProgress /\ ~spec'.verify
      BY <1>1, <2>1, <2>2 DEF Round
    <2> QED
      BY <1>1, <2>1, <2>3 DEF DataOK, MatchedOK
  <1>3. CASE CompareOrigin
    <2>1. spec.origin /\ mem' = mem
      BY <1>3 DEF CompareOrigin
    <2>2. ~spec.inProgress /\ spec.draft \in Drafts
      BY <2>1 DEF TypeInv, RoundInv, OneState, RowsLeft
    <2>3. CASE cur = spec.draft[1]
      <3>1. spec' = [spec EXCEPT !.origin = FALSE, !.noFeed = TRUE, !.verify = TRUE,
                                 !.inProgress = TRUE, !.row = 0,
                                 !.rows = Len(spec.draft) - 1, !.committed = 0]
        BY <1>3, <2>3 DEF CompareOrigin
      <3>2. spec'.draft = spec.draft /\ spec'.noFeed /\ spec'.verify
        BY <1>1, <3>1 DEF Round
      <3> QED
        BY <1>1, <2>1, <2>2, <3>2 DEF DataOK, MatchedOK
    <2>4. CASE cur # spec.draft[1]
      <3>1. spec' = [spec EXCEPT !.origin = FALSE, !.draft = <<>>]
        BY <1>3, <2>4 DEF CompareOrigin
      <3>2. ~spec'.inProgress /\ ~spec'.verify
        BY <1>1, <2>2, <3>1 DEF Round
      <3> QED
        BY <1>1, <2>1, <3>2 DEF DataOK, MatchedOK
    <2> QED
      BY <2>3, <2>4
  <1>4. CASE CompareVerify
    <2>1. spec.inProgress /\ Len(rows) = DraftLen
      BY <1>1, <1>4 DEF CompareVerify, VerifyLeft, TypeInv, MatchedOK
    <2>2. CASE cur = spec.draft[spec.row + 2]
      <3>1. /\ spec' = [spec EXCEPT !.noFeed = TRUE, !.committed = spec.row + 1,
                                    !.row = spec.row + 1,
                                    !.inProgress = spec.row + 1 < spec.rows,
                                    !.bonus = spec.row + 1 >= spec.rows]
            /\ mem' = mem
        BY <1>4, <2>2 DEF CompareVerify
      <3>2. spec'.noFeed /\ ~spec'.verify
        BY <1>1, <3>1 DEF Round
      <3> QED
        BY <1>1, <2>1, <3>1, <3>2 DEF DataOK, MatchedOK
    <2>3. CASE cur # spec.draft[spec.row + 2]
      <3>1. /\ spec' = [spec EXCEPT !.inProgress = FALSE, !.noFeed = FALSE,
                                    !.row = 0, !.draft = <<>>]
            /\ mem' = RolledBack(mem)
        BY <1>4, <2>3 DEF CompareVerify
      <3>2. ~spec'.inProgress /\ ~spec'.verify
        BY <1>1, <3>1 DEF Round
      <3>3. mem' \in Filled
        BY <1>1, <3>1, RolledBackFilled DEF DataOK
      <3> QED
        BY <1>1, <3>2, <3>3 DEF DataOK, MatchedOK
    <2> QED
      BY <2>2, <2>3
  <1>5. CASE ComparePlain
    <2>1. UNCHANGED <<mem, spec>> /\ ~VerifyLeft
      BY <1>5 DEF ComparePlain
    <2>2. ~spec.inProgress
      BY <2>1 DEF VerifyLeft, TypeInv, RoundInv, RowsLeft
    <2> QED
      BY <1>1, <2>1, <2>2 DEF DataOK, MatchedOK
  <1> QED
    BY <1>2, <1>3, <1>4, <1>5 DEF CompareStep

\* The piece, with its feed, leaves well-typed data.
LEMMA PieceData ==
  ASSUME TypeInv, PieceStep
  PROVE  DataOK' /\ MatchedOK'
  <1>1. spec \in Round /\ DataOK /\ mem \in Filled
    BY DEF TypeInv, RoundInv, DataOK
  <1>2. CASE Tripwire
    <2>1. phase' = "cleanup" /\ UNCHANGED <<mem, tracker, npast, rows, cur, spec>>
      BY <1>2 DEF Tripwire
    <2> QED
      BY <1>1, <2>1, UntouchedData DEF DataOK
  <1>3. ASSUME NEW ok \in BOOLEAN, CompleteCall(ok) \/ Piece(ok)
        PROVE  DataOK' /\ MatchedOK'
    <2>1. /\ phase = "piece" /\ phase' # "piece" /\ Feed(mem, spec, ok) /\ cur' = cur
      BY <1>3 DEF CompleteCall, Piece, LeaveAfterFeed
    <2>2. /\ mem' \in Filled /\ tracker' \in Seq(Token) /\ npast' \in Nat
          /\ rows' \in Seq(RsState)
          /\ spec.noFeed => rows' = rows /\ npast' = npast + 1
          /\ spec'.inProgress = spec.inProgress /\ spec'.verify = spec.verify
          /\ spec'.draft = spec.draft
      BY <1>1, <2>1, FeedData
    <2>3. spec.verify => spec.inProgress
      BY DEF TypeInv, RoundInv, OneState
    <2> QED
      BY <1>1, <2>1, <2>2, <2>3 DEF TypeInv, DataOK, MatchedOK
  <1> QED
    BY <1>2, <1>3 DEF PieceStep
\* A tracker that loses its last token is still a sequence of tokens.
LEMMA PopType ==
  ASSUME NEW s \in Seq(Token)
  PROVE  Prefix(s, Len(s) - 1) \in Seq(Token)
  <1>1. CASE s = <<>>
    BY <1>1 DEF Prefix
  <1>2. CASE s # <<>>
    <2>1. Len(s) - 1 \in 0..Len(s)
      BY <1>2
    <2> QED
      BY <2>1, PrefixType
  <1> QED
    BY <1>1, <1>2

\* The steps after the feed leave well-typed data.
LEMMA PostData ==
  ASSUME TypeInv, PostStep
  PROVE  DataOK' /\ MatchedOK'
  <1>1. spec \in Round /\ DataOK /\ mem \in Filled /\ RoundInv /\ MatchedOK
    BY DEF TypeInv, RoundInv, DataOK
  <1>2. AfterPost \notin {"piece", "post"}
    BY DEF AfterPost
  <1>3. CASE VerifyDecode
    <2>1. /\ spec.verify /\ phase' = AfterPost /\ UNCHANGED <<tracker, npast, cur>>
          /\ mem' = Decode(mem, spec.draft)
          /\ rows' = [i \in 1..Len(spec.draft) |-> State(mem) \o Prefix(spec.draft, i)]
      BY <1>3 DEF VerifyDecode
    <2>2. spec.draft \in Seq(Token) /\ Len(spec.draft) = DraftLen /\ DraftLen \in Nat
      BY <1>1, <2>1, DraftLength, SpecRoundAssumption DEF MatchedOK
    <2>3. mem' \in Filled
      BY <1>1, <2>1, <2>2, DecodeFilled
    <2>4. ASSUME NEW i \in 1..DraftLen
          PROVE  State(mem) \o Prefix(spec.draft, i) \in RsState
      <3>1. Prefix(spec.draft, i) \in Seq(Token)
        BY <2>2, PrefixType
      <3>2. State(mem) \in Seq(Token)
        BY <1>1, FilledFields
      <3> QED
        BY <3>1, <3>2, ConcatProperties DEF RsState
    <2> HIDE DEF RsState
    <2>5. rows' \in Seq(RsState) /\ Len(rows') = DraftLen
      BY <2>1, <2>2, <2>4
    <2>6. ~spec'.verify
      BY <1>1, <1>3 DEF VerifyDecode, Round
    <2> QED
      BY <1>1, <1>2, <2>1, <2>3, <2>5, <2>6 DEF DataOK, MatchedOK
  <1>4. ASSUME NEW n \in 0..DraftLen, VerifyFail(n)
        PROVE  DataOK' /\ MatchedOK'
    <2> DEFINE part == IF n = 0 THEN mem ELSE Decode(mem, Prefix(spec.draft, n))
               kept == n > 0
    <2>1. /\ spec.verify /\ phase = "post" /\ phase' = "cleanup" /\ cur' = cur
          /\ mem' = RolledBack(part)
          /\ tracker' = IF kept THEN tracker ELSE Prefix(tracker, Len(tracker) - 1)
          /\ npast' = IF kept THEN npast ELSE npast - 1
          /\ rows' = IF kept /\ SeqRmOk(part, npast)
                     THEN <<State(mem) \o Prefix(spec.draft, 1)>> ELSE <<>>
          /\ spec' = [spec EXCEPT !.verify = FALSE, !.inProgress = FALSE, !.bonus = FALSE,
                                  !.complete = FALSE, !.draft = <<>>]
      BY <1>4 DEF VerifyFail
    <2>2. spec.draft \in Seq(Token) /\ Len(spec.draft) = DraftLen /\ DraftLen \in Nat \ {0}
      BY <1>1, <2>1, DraftLength, SpecRoundAssumption DEF MatchedOK
    <2>3. Prefix(spec.draft, n) \in Seq(Token) /\ Prefix(spec.draft, 1) \in Seq(Token)
      BY <2>2, PrefixType
    <2>4. part \in Filled
      BY <1>1, <2>3, DecodeFilled
    <2>5. mem' \in Filled
      BY <1>1, <2>1, <2>4, RolledBackFilled
    <2>6. State(mem) \o Prefix(spec.draft, 1) \in RsState
      BY <1>1, <2>3, FilledFields, ConcatProperties DEF RsState
    <2>7. rows' \in Seq(RsState)
      <3> HIDE DEF RsState
      <3> QED
        BY <2>1, <2>6
    <2>8. tracker' \in Seq(Token)
      BY <1>1, <2>1, PopType DEF DataOK
    <2>9. npast' \in Nat
      BY <1>1, <2>1 DEF DataOK, MatchedOK
    <2>10. ~spec'.inProgress /\ ~spec'.verify
      BY <1>1, <2>1 DEF Round
    <2> QED
      BY <1>1, <2>1, <2>5, <2>7, <2>8, <2>9, <2>10 DEF DataOK, MatchedOK
  <1>5. CASE CompleteRound
    <2>1. /\ spec' = [spec EXCEPT !.complete = FALSE] /\ phase' = AfterPost
          /\ ~spec.verify /\ UNCHANGED <<mem, tracker, npast, rows, cur>>
      BY <1>5 DEF CompleteRound
    <2>2. spec'.verify = spec.verify /\ spec'.inProgress = spec.inProgress
      BY <1>1, <2>1 DEF Round
    <2> QED
      BY <1>1, <1>2, <2>1, <2>2 DEF DataOK, MatchedOK
  <1>6. CASE StartRound
    <2>1. /\ ~spec.verify /\ ~spec.inProgress /\ UNCHANGED <<mem, tracker, npast, rows, cur>>
      BY <1>6 DEF StartRound
    <2>2. PICK d \in Drafts : spec' = [spec EXCEPT !.draft = d, !.origin = TRUE]
      BY <1>6 DEF StartRound
    <2>3. ~spec'.verify /\ ~spec'.inProgress
      BY <1>1, <2>1, <2>2 DEF Round
    <2> QED
      BY <1>1, <2>1, <2>3 DEF DataOK, MatchedOK
  <1>7. CASE NoNewRound
    <2>1. UNCHANGED <<mem, tracker, npast, rows, cur, spec>> /\ phase' = AfterPost
      BY <1>7 DEF NoNewRound
    <2> QED
      BY <1>1, <1>2, <2>1, UntouchedData DEF DataOK
  <1>8. CASE ToolStartHook
    <2>1. UNCHANGED <<tracker, npast, rows, cur, spec>> /\ phase' = "top"
      BY <1>8 DEF ToolStartHook
    <2>2. mem' \in Filled
      BY <1>1, <1>8, SaveFilled DEF ToolStartHook
    <2> QED
      BY <1>1, <2>1, <2>2 DEF DataOK, MatchedOK
  <1> QED
    BY <1>3, <1>4, <1>5, <1>6, <1>7, <1>8 DEF PostStep

\* The cleanup leaves well-typed data.
LEMMA CleanupData ==
  ASSUME TypeInv, CleanupStep
  PROVE  DataOK' /\ MatchedOK'
  <1>1. spec \in Round /\ DataOK /\ mem \in Filled /\ RoundInv /\ MatchedOK
    BY DEF TypeInv, RoundInv, DataOK
  <1>2. CASE CleanupIdle
    <2>1. UNCHANGED <<mem, tracker, npast, rows, cur, spec>> /\ phase' = "done"
      BY <1>2 DEF CleanupIdle
    <2> QED
      BY <1>1, <2>1, UntouchedData DEF DataOK
  <1>3. ASSUME NEW touched, Settled(touched)
        PROVE  cur' = cur /\ MatchedOK'
    <2>1. spec' = NoRound /\ phase' = "done" /\ cur' = cur
      BY <1>3 DEF Settled
    <2> QED
      BY <2>1 DEF MatchedOK, NoRound
  <1>4. CASE CleanupGiveCell
    <2>1. /\ spec.verify /\ mem' = Decode(mem, Prefix(spec.draft, 1))
          /\ rows' = <<State(Decode(mem, Prefix(spec.draft, 1)))>>
          /\ UNCHANGED <<tracker, npast>> /\ Settled(FALSE)
      BY <1>4 DEF CleanupGiveCell
    <2>2. spec.draft \in Seq(Token) /\ Len(spec.draft) = DraftLen /\ DraftLen \in Nat \ {0}
      BY <1>1, <2>1, DraftLength, SpecRoundAssumption DEF MatchedOK
    <2>3. Prefix(spec.draft, 1) \in Seq(Token)
      BY <2>2, PrefixType
    <2>4. mem' \in Filled
      BY <1>1, <2>1, <2>3, DecodeFilled
    <2>5. State(mem') \in RsState
      BY <2>4, FilledFields DEF RsState
    <2>6. rows' \in Seq(RsState)
      <3> HIDE DEF RsState
      <3> QED
        BY <2>1, <2>5
    <2> QED
      BY <1>1, <1>3, <2>1, <2>4, <2>6 DEF DataOK
  <1>5. CASE CleanupDropCell
    <2>1. /\ npast > Synced(mem) /\ npast' = npast - 1 /\ mem' = mem /\ rows' = <<Blank>>
          /\ tracker' = Prefix(tracker, Len(tracker) - 1) /\ Settled(FALSE)
      BY <1>5 DEF CleanupDropCell
    <2>2. npast' \in Nat
      BY <1>1, <2>1, FilledFields DEF Synced, DataOK
    <2>3. Blank \in RsState
      BY DEF RsState
    <2>4. rows' \in Seq(RsState)
      <3> HIDE DEF RsState
      <3> QED
        BY <2>1, <2>3
    <2> QED
      BY <1>1, <1>3, <2>1, <2>2, <2>4, PopType DEF DataOK
  <1>6. CASE CleanupUnfed \/ CleanupClose
    <2>1. UNCHANGED <<mem, tracker, npast, rows>> /\ Settled(FALSE)
      BY <1>6 DEF CleanupUnfed, CleanupClose
    <2> QED
      BY <1>1, <1>3, <2>1 DEF DataOK
  <1>7. CASE CleanupRollback
    <2>1. /\ ~spec.verify /\ spec.inProgress /\ mem' = RolledBack(mem)
          /\ rows' = IF SeqRmOk(mem, npast) THEN Prefix(rows, spec.committed + 1) ELSE <<>>
          /\ UNCHANGED <<tracker, npast>> /\ Settled(~SeqRmOk(mem, npast))
      BY <1>7 DEF CleanupRollback
    <2>2. spec.committed + 1 \in 0..Len(rows)
      BY <1>1, <2>1, RoundFields, SpecRoundAssumption DEF MatchedOK, RowNumbers
    <2>3. Prefix(rows, spec.committed + 1) \in Seq(RsState)
      <3> HIDE DEF RsState
      <3> QED
        BY <1>1, <2>2, PrefixType DEF DataOK
    <2>4. rows' \in Seq(RsState)
      BY <2>1, <2>3
    <2> QED
      BY <1>1, <1>3, <2>1, <2>4, RolledBackFilled DEF DataOK
  <1> QED
    BY <1>2, <1>4, <1>5, <1>6, <1>7 DEF CleanupStep

\* Every step keeps the types and what they rest on.
LEMMA TypeStep ==
  ASSUME DraftLen > 1, TypeInv, [Next]_vars
  PROVE  TypeInv'
  <1>1. RoundInv' /\ LabelsOK'
    BY RoundStep, LabelsStep DEF TypeInv
  <1>2. spec \in Round /\ DataOK
    BY DEF TypeInv, RoundInv
  <1>3. CASE GiveUp \/ Interrupt \/ Resume
    <2>1. /\ UNCHANGED <<mem, tracker, npast, rows, cur, spec>>
          /\ phase' \notin {"piece", "post"}
      BY <1>3 DEF GiveUp, Interrupt, Resume
    <2> QED
      BY <1>1, <1>2, <2>1, UntouchedData DEF TypeInv, DataOK
  <1>4. CASE Sample
    <2>1. UNCHANGED <<mem, tracker, npast, rows, spec>> /\ phase' \notin {"piece", "post"}
      BY <1>4 DEF Sample
    <2>2. cur' \in Token
      BY <1>4 DEF Sample, Draws
    <2> QED
      BY <1>1, <2>1, <2>2, UntouchedData DEF TypeInv
  <1>5. CASE EogStep
    BY <1>1, <1>5, EogData DEF TypeInv
  <1>6. CASE CompareStep
    BY <1>1, <1>6, CompareData DEF TypeInv
  <1>7. CASE PieceStep
    BY <1>1, <1>7, PieceData DEF TypeInv
  <1>8. CASE PostStep
    BY <1>1, <1>8, PostData DEF TypeInv
  <1>9. CASE CleanupStep
    BY <1>1, <1>9, CleanupData DEF TypeInv
  <1>10. CASE UNCHANGED vars
    BY <1>1, <1>10 DEF vars, TypeInv, DataOK, MatchedOK
  <1> QED
    BY <1>3, <1>4, <1>5, <1>6, <1>7, <1>8, <1>9, <1>10 DEF Next, Generate

\* The invariant is no weaker than the type invariant the runs check.
LEMMA TypeInvTypes == TypeInv => TypeOK
  <1> SUFFICES ASSUME TypeInv PROVE TypeOK
    OBVIOUS
  <1>1. mem \in Memory
    BY FilledFields DEF TypeInv, DataOK
  <1> QED
    BY <1>1 DEF TypeInv, RoundInv, DataOK, LabelsOK, Owed, TypeOK

\* A generation never leaves its types: no step reads a blank state as a context,
\* takes a token from an empty tracker or cuts the batch beyond its rows.
THEOREM TypeCorrect ==
  ASSUME DraftLen > 1
  PROVE  Spec => []TypeOK
  BY TypeInit, TypeStep, TypeInvTypes, PTL DEF Spec
-----------------------------------------------------------------------------
\* The tracker, the attention cache and the recurrent state after any generation
\* without thinking tags describe the same context, and no rollback of drafts leaves
\* the snapshot window.  (With thinking tags the tripwire leaves the loop between the
\* comparison and the feed, and the first statement is false.)
\*
\* The invariant says how far the cache is from the tracker at each point of a round:
\* level, behind it by d1 (matched, not decoded yet), or ahead of it by the drafts
\* still to be compared, with one snapshot for each.

\* The caches hold the context t and end where the next token goes.
Level(m, t, p) == t = m.kv /\ p = Len(m.kv) /\ Coherent(m)

\* The context t is the caches' but for its last token d1.
Behind(m, t, p, d1) == t = m.kv \o <<d1>> /\ p = Len(m.kv) + 1 /\ Coherent(m)

\* The caches hold n tokens more than t, and the state before each of them.
Ahead(m, t, p, n) ==
    /\ n \in RowNumbers /\ p \in Nat /\ Len(m.kv) = p + n
    /\ t = Prefix(m.kv, p)
    /\ m.rsIdx = 0
    /\ \A i \in 0..n : m.planes[i] = Prefix(m.kv, Len(m.kv) - i)

\* The cache ends with the drafts of the round.
DraftsHeld(m, d) ==
    /\ d \in Drafts /\ Len(m.kv) >= DraftLen
    /\ \A i \in 1..DraftLen : m.kv[Len(m.kv) - DraftLen + i] = d[i]

-----------------------------------------------------------------------------
\* The numbers the arithmetic below is about.
LEMMA Lengths ==
  /\ DraftLen \in Nat \ {0} /\ NRsSeq \in Nat /\ DraftLen <= NRsSeq
  /\ RowNumbers = 0..(DraftLen - 1) /\ RowNumbers \subseteq 0..NRsSeq
  BY SpecRoundAssumption, NRsSeqAssumption DEF RowNumbers

\* No draft left: the caches are level with the tracker.
LEMMA AheadOfNothing ==
  ASSUME NEW m \in Filled, NEW t, NEW p, Ahead(m, t, p, 0)
  PROVE  Level(m, t, p)
  <1>1. m.kv \in Seq(Token) /\ Prefix(m.kv, Len(m.kv)) = m.kv
    BY FilledFields, PrefixAll
  <1>2. p = Len(m.kv) /\ m.planes[0] = Prefix(m.kv, Len(m.kv)) /\ m.rsIdx = 0
    <2>1. 0 \in 0..0 /\ Len(m.kv) - 0 = Len(m.kv)
      BY <1>1
    <2> QED
      BY <1>1, <2>1 DEF Ahead
  <1> QED
    BY <1>1, <1>2 DEF Ahead, Level, Coherent, State

\* Rolling back the drafts that are left brings the caches level, by a snapshot.
LEMMA RollbackLevels ==
  ASSUME NEW n, Ahead(mem, tracker, npast, n), DataOK
  PROVE  /\ SeqRmOk(mem, npast) /\ RolledBack(mem) \in Filled
         /\ Level(RolledBack(mem), tracker, npast)
  <1>1. mem \in Filled /\ mem.kv \in Seq(Token) /\ n \in 0..NRsSeq
    BY FilledFields, Lengths DEF DataOK, Ahead
  <1>2. RolledBack(mem) \in Filled
    BY <1>1, RolledBackFilled
  <1>3. CASE n = 0
    <2>1. SeqRmOk(mem, npast) /\ RolledBack(mem) = mem
      BY <1>1, <1>3 DEF Ahead, SeqRmOk, RolledBack, SeqRm
    <2> QED
      BY <1>1, <1>2, <1>3, <2>1, AheadOfNothing
  <1>4. CASE n # 0
    <2>1. Distance(mem, npast) = n /\ ~(Len(mem.kv) <= npast)
      BY <1>1, <1>4 DEF Ahead, Distance
    <2>2. InWindow(mem, npast)
      BY <1>1, <2>1 DEF InWindow, Ahead
    <2>3. SeqRmOk(mem, npast)
      BY <2>2 DEF SeqRmOk
    <2>4. RolledBack(mem) = [mem EXCEPT !.kv = Prefix(mem.kv, npast), !.rsIdx = n]
      BY <2>1, <2>2, <2>3 DEF RolledBack, SeqRm
    <2>5. /\ RolledBack(mem).kv = Prefix(mem.kv, npast) /\ RolledBack(mem).rsIdx = n
          /\ RolledBack(mem).planes = mem.planes
      BY <1>1, <2>4 DEF Filled
    <2>6. mem.planes[n] = Prefix(mem.kv, npast)
      <3>1. n \in 0..n /\ Len(mem.kv) - n = npast
        BY <1>1 DEF Ahead
      <3> QED
        BY <3>1 DEF Ahead
    <2>7. Len(Prefix(mem.kv, npast)) = npast
      BY <1>1, PrefixType DEF Ahead
    <2> QED
      BY <1>2, <2>3, <2>5, <2>6, <2>7 DEF Level, Coherent, State, Ahead
  <1> QED
    BY <1>3, <1>4

\* A feed with a decode, or one that fails, keeps level caches level.
LEMMA FeedLevels ==
  ASSUME DataOK, NEW m \in Filled, Level(m, tracker, npast),
         NEW sp, ~sp.noFeed, NEW ok \in BOOLEAN, Feed(m, sp, ok)
  PROVE  /\ Level(mem', tracker', npast')
         /\ ok => mem'.rsIdx = 0
  <1>1. m.kv \in Seq(Token) /\ cur \in Token /\ tracker = m.kv /\ npast = Len(m.kv)
        /\ State(m) = m.kv
    BY FilledFields DEF DataOK, Level, Coherent
  <1>2. CASE ok
    <2>1. tracker' = Append(m.kv, cur) /\ npast' = Len(m.kv) + 1 /\ mem' = Decode(m, <<cur>>)
      BY <1>1, <1>2 DEF Feed
    <2>2. <<cur>> \in Seq(Token) /\ Len(<<cur>>) = 1 /\ Prefix(<<cur>>, 1) = <<cur>>
      <3>1. <<cur>> \in Seq(Token) /\ Len(<<cur>>) = 1
        BY <1>1
      <3>2. Prefix(<<cur>>, Len(<<cur>>)) = <<cur>>
        BY <3>1, PrefixAll
      <3> QED
        BY <3>1, <3>2
    <2>3. 0 \in 0..NRsSeq /\ 0 < Len(<<cur>>) /\ Len(<<cur>>) - 0 = 1
      BY <2>2, Lengths
    <2>4. /\ mem'.kv = m.kv \o <<cur>> /\ mem'.rsIdx = 0
          /\ mem'.planes[0] = State(m) \o Prefix(<<cur>>, Len(<<cur>>) - 0)
      BY <2>1, <2>2, <2>3, DecodeFilled
    <2>5. Append(m.kv, cur) = m.kv \o <<cur>> /\ Len(m.kv \o <<cur>>) = Len(m.kv) + 1
      BY <1>1, AppendIsConcat, AppendProperties
    <2> QED
      BY <1>1, <2>1, <2>2, <2>3, <2>4, <2>5 DEF Level, Coherent, State
  <1>3. CASE ~ok
    <2>1. /\ tracker' = IF Len(tracker) + 1 > Synced(m)
                        THEN Prefix(tracker, Synced(m)) ELSE Append(tracker, cur)
          /\ npast' = Synced(m) /\ mem' = m
      BY <1>3 DEF Feed
    <2>2. Len(tracker) + 1 > Synced(m) /\ Prefix(m.kv, Len(m.kv)) = m.kv
      BY <1>1, PrefixAll DEF Synced
    <2> QED
      BY <1>1, <1>3, <2>1, <2>2 DEF Level, Synced, Coherent
  <1> QED
    BY <1>2, <1>3

\* The feed of a matched draft moves the tracker one token along the cache.
LEMMA FeedMatched ==
  ASSUME DataOK, NEW n \in RowNumbers, Ahead(mem, tracker, npast, n + 1),
         cur = mem.kv[npast + 1], NEW sp, sp.noFeed, NEW ok, Feed(mem, sp, ok)
  PROVE  Ahead(mem', tracker', npast', n) /\ mem' = mem
  <1>1. mem' = mem /\ tracker' = Append(tracker, cur) /\ npast' = npast + 1
    BY DEF Feed
  <1>2. mem.kv \in Seq(Token) /\ npast \in Nat /\ n \in Nat /\ Len(mem.kv) = npast + (n + 1)
    BY FilledFields, Lengths DEF DataOK, Ahead
  <1>3. Prefix(mem.kv, npast + 1) = Append(Prefix(mem.kv, npast), mem.kv[npast + 1])
    <2>1. npast + 1 \in 1..Len(mem.kv) /\ 1 \in 1..Len(mem.kv) /\ npast \in 0..Len(mem.kv)
          /\ (npast + 1) - 1 = npast
      BY <1>2
    <2>2. Prefix(mem.kv, npast + 1) = Prefix(mem.kv, npast) \o <<mem.kv[npast + 1]>>
      BY <1>2, <2>1, SubSeqRecursiveSecond DEF Prefix
    <2>3. Prefix(mem.kv, npast) \in Seq(Token) /\ mem.kv[npast + 1] \in Token
      BY <1>2, <2>1, PrefixType
    <2> QED
      BY <2>2, <2>3, AppendIsConcat
  <1>4. 0..n \subseteq 0..(n + 1) /\ npast + 1 \in Nat /\ Len(mem.kv) = (npast + 1) + n
    BY <1>2
  <1> QED
    BY <1>1, <1>3, <1>4 DEF Ahead

\* Decoding all drafts with d1 committed puts the cache ahead by the others.
LEMMA VerifyAhead ==
  ASSUME DataOK, NEW d \in Drafts, Behind(mem, tracker, npast, d[1])
  PROVE  /\ Ahead(Decode(mem, d), tracker, npast, DraftLen - 1)
         /\ DraftsHeld(Decode(mem, d), d)
  <1> DEFINE v == Decode(mem, d)
  <1>1. mem \in Filled /\ mem.kv \in Seq(Token) /\ d \in Seq(Token) /\ Len(d) = DraftLen
        /\ DraftLen \in Nat \ {0} /\ State(mem) = mem.kv
    BY FilledFields, DraftLength, Lengths DEF DataOK, Behind, Coherent
  <1>2. /\ v.kv = mem.kv \o d /\ v.rsIdx = 0
        /\ \A i \in 0..NRsSeq : i < Len(d) =>
             v.planes[i] = State(mem) \o Prefix(d, Len(d) - i)
    BY <1>1, DecodeFilled
  <1> HIDE DEF v
  <1>3. Len(v.kv) = Len(mem.kv) + DraftLen
    BY <1>1, <1>2, ConcatProperties
  <1>4. tracker = Prefix(v.kv, npast) /\ npast = Len(mem.kv) + 1
    <2>1. Prefix(d, 1) = <<d[1]>>
      <3>0. 1 \in 0..Len(d) /\ 1 \in 1..1
        BY <1>1
      <3>1. Prefix(d, 1) \in Seq(Token) /\ Len(Prefix(d, 1)) = 1 /\ Prefix(d, 1)[1] = d[1]
        BY <1>1, <3>0, PrefixType
      <3>2. <<d[1]>> \in Seq(Token) /\ Len(<<d[1]>>) = 1
        BY <1>1
      <3>3. \A i \in 1..Len(<<d[1]>>) : Prefix(d, 1)[i] = <<d[1]>>[i]
        BY <3>1, <3>2
      <3> QED
        BY <3>1, <3>2, <3>3, SeqEqual
    <2>2. 1 \in 0..Len(d)
      BY <1>1
    <2>3. Prefix(mem.kv \o d, Len(mem.kv) + 1) = mem.kv \o Prefix(d, 1)
      BY <1>1, <2>2, PrefixOfConcat
    <2> QED
      BY <1>2, <2>1, <2>3 DEF Behind
  <1>5. ASSUME NEW i \in 0..(DraftLen - 1)
        PROVE  v.planes[i] = Prefix(v.kv, Len(v.kv) - i)
    <2>1. i \in 0..NRsSeq /\ i < Len(d)
      BY <1>1, Lengths
    <2>2. DraftLen - i \in 0..Len(d) /\ Len(v.kv) - i = Len(mem.kv) + (DraftLen - i)
      BY <1>1, <1>3
    <2>3. Prefix(mem.kv \o d, Len(mem.kv) + (DraftLen - i)) = mem.kv \o Prefix(d, DraftLen - i)
      BY <1>1, <2>2, PrefixOfConcat
    <2> QED
      BY <1>1, <1>2, <2>1, <2>2, <2>3
  <1>6. DraftLen - 1 \in RowNumbers /\ npast \in Nat
        /\ Len(v.kv) = npast + (DraftLen - 1)
    BY <1>1, <1>3, <1>4, RowArithmetic
  <1>7. DraftsHeld(v, d)
    <2>1. ASSUME NEW i \in 1..DraftLen
          PROVE  v.kv[Len(v.kv) - DraftLen + i] = d[i]
      <3>1. Len(v.kv) - DraftLen + i = Len(mem.kv) + i /\ i \in 1..Len(d)
        BY <1>1, <1>3
      <3>2. (mem.kv \o d)[Len(mem.kv) + i] = d[i]
        BY <1>1, <3>1
      <3> QED
        BY <1>2, <3>1, <3>2
    <2> QED
      BY <1>1, <1>3, <2>1 DEF DraftsHeld
  <1>8. Ahead(v, tracker, npast, DraftLen - 1)
    BY <1>2, <1>4, <1>5, <1>6 DEF Ahead
  <1> QED
    BY <1>7, <1>8 DEF v
\* Saving a checkpoint moves nothing but the stack.
LEMMA SaveKeeps ==
  ASSUME NEW m \in Filled
  PROVE  /\ RsSave(m).kv = m.kv /\ RsSave(m).planes = m.planes
         /\ RsSave(m).rsIdx = m.rsIdx
  BY DEF RsSave, Filled

-----------------------------------------------------------------------------
\* Where the caches are at each point of a round.  A matched token waits for its
\* feed only in the piece; d1 is behind from its feed to the decode of the drafts;
\* from there the caches are ahead by the drafts not yet committed.
Place ==
    /\ spec.noFeed => phase = "piece" /\ (spec.inProgress \/ spec.bonus)
    /\ ~spec.noFeed /\ ~spec.inProgress => Level(mem, tracker, npast)
    /\ spec.verify =>
         /\ spec.row = 0 /\ spec.committed = 0 /\ spec.rows = DraftLen - 1
         /\ IF phase = "piece"
            THEN Level(mem, tracker, npast) /\ cur = spec.draft[1]
            ELSE Behind(mem, tracker, npast, spec.draft[1])
    /\ spec.inProgress /\ ~spec.verify =>
         /\ spec.rows = DraftLen - 1 /\ DraftsHeld(mem, spec.draft)
         /\ phase # "cleanup" => spec.committed = spec.row
         /\ phase # "piece" => Ahead(mem, tracker, npast, spec.rows - spec.committed)
    /\ spec.noFeed /\ ~spec.verify =>
         /\ spec.rows - spec.row \in RowNumbers
         /\ Ahead(mem, tracker, npast, (spec.rows - spec.row) + 1)
         /\ cur = mem.kv[npast + 1]
         /\ ~spec.inProgress => spec.row = spec.rows

PlaceInv == TypeInv /\ Place /\ ~redecoded

\* With level caches and no round there is nothing else to show.
LEMMA LevelPlace ==
  ASSUME Level(mem', tracker', npast'), ~spec'.noFeed, ~spec'.inProgress, ~spec'.verify
  PROVE  Place'
  BY DEF Place

\* A step that moves only the point of the loop, between points where the round
\* looks the same, keeps the caches in place.
LEMMA SamePlace ==
  ASSUME Place, UNCHANGED <<mem, tracker, npast, spec>>,
         phase # "piece", phase' # "piece", phase = "cleanup" => ~spec.inProgress,
         spec.verify => spec.inProgress
  PROVE  Place'
  BY DEF Place

\* The first state is level.
LEMMA PlaceInit ==
  ASSUME Init
  PROVE  Place /\ ~redecoded
  <1>1. PICK t \in Token : tracker = <<t>> /\ mem = Decode(EmptyMem, <<t>>)
    BY DEF Init
  <1>2. <<t>> \in Seq(Token) /\ Len(<<t>>) = 1 /\ 0 \in 0..NRsSeq
    BY <1>1, Lengths
  <1>3. /\ EmptyMem.kv = <<>> /\ State(EmptyMem) = <<>> /\ EmptyMem \in Filled
    BY EmptyFilled DEF Coherent, EmptyMem
  <1>4. Prefix(<<t>>, Len(<<t>>)) = <<t>>
    BY <1>2, PrefixAll
  <1>5. /\ mem.kv = <<>> \o <<t>> /\ mem.rsIdx = 0
        /\ mem.planes[0] = <<>> \o Prefix(<<t>>, Len(<<t>>) - 0)
    <2>1. /\ Decode(EmptyMem, <<t>>).kv = EmptyMem.kv \o <<t>>
          /\ Decode(EmptyMem, <<t>>).rsIdx = 0
          /\ \A i \in 0..NRsSeq : i < Len(<<t>>) =>
               Decode(EmptyMem, <<t>>).planes[i]
                 = State(EmptyMem) \o Prefix(<<t>>, Len(<<t>>) - i)
      BY <1>2, <1>3, DecodeFilled
    <2>2. 0 < Len(<<t>>)
      BY <1>2
    <2> QED
      BY <1>1, <1>2, <1>3, <2>1, <2>2
  <1>6. <<>> \o <<t>> = <<t>>
    BY <1>2, ConcatEmptySeq
  <1>7. Level(mem, tracker, npast)
    BY <1>1, <1>2, <1>4, <1>5, <1>6 DEF Init, Level, Coherent, State
  <1> QED
    BY <1>7 DEF Init, NoRound, Place

\* The EOG block leaves the caches in place.
LEMMA EogPlace ==
  ASSUME ~HasThink, PlaceInv, EogStep
  PROVE  Place' /\ ~redecoded'
  <1>1. /\ spec \in Round /\ DataOK /\ mem \in Filled /\ RoundInv /\ Place /\ ~redecoded
        /\ phase = "eog"
    BY DEF PlaceInv, TypeInv, RoundInv, DataOK, EogStep, Swallow, Poll, EndTurnMatched,
           EndTurnMismatched, EndTurnBonus, EndTurnPlain
  <1>2. ~spec.verify /\ ~spec.noFeed
    BY <1>1 DEF RoundInv, InPlace, Place
  <1>3. CASE Swallow \/ Poll
    <2>1. phase' = "compare" /\ UNCHANGED <<mem, tracker, npast, spec, redecoded>>
      BY <1>3 DEF Swallow, Poll
    <2> QED
      BY <1>1, <1>2, <2>1, SamePlace
  <1>4. CASE EndTurnMatched
    <2> DEFINE sp == [spec EXCEPT !.noFeed = TRUE, !.committed = spec.row + 1]
               n == (spec.rows - spec.row) - 1
    <2>1. /\ spec.inProgress /\ spec.row < spec.rows /\ cur = spec.draft[spec.row + 2]
          /\ Feed(mem, sp, TRUE) /\ phase' = "cleanup" /\ redecoded' = redecoded
      BY <1>4 DEF EndTurnMatched, EogMatches, VerifyLeft, LeaveAfterFeed
    <2>2. sp.noFeed /\ sp \in Round
      BY <1>1, <2>1, RoundFields, RowArithmetic DEF Round
    <2>3. /\ Ahead(mem, tracker, npast, n + 1) /\ n \in RowNumbers
          /\ spec.rows = DraftLen - 1 /\ DraftsHeld(mem, spec.draft)
          /\ spec.rows - (spec.row + 1) = n
      <3>1. spec.rows \in RowNumbers /\ spec.row \in RowNumbers
        BY <1>1, RoundFields
      <3>2. n \in RowNumbers /\ n + 1 = spec.rows - spec.row /\ spec.rows - (spec.row + 1) = n
        BY <2>1, <3>1, Lengths
      <3> QED
        BY <1>1, <1>2, <2>1, <3>2 DEF Place
    <2>4. cur = mem.kv[npast + 1]
      <3>1. spec.row + 2 \in 1..DraftLen /\ mem.kv \in Seq(Token)
        BY <1>1, <2>1, RoundFields, Lengths, FilledFields
      <3>2. mem.kv[Len(mem.kv) - DraftLen + (spec.row + 2)] = spec.draft[spec.row + 2]
        BY <2>3, <3>1 DEF DraftsHeld
      <3>3. Len(mem.kv) - DraftLen + (spec.row + 2) = npast + 1
        <4>1. npast \in Nat /\ Len(mem.kv) = npast + (n + 1)
          BY <2>3 DEF Ahead
        <4>2. spec.row \in Nat /\ DraftLen \in Nat /\ n = (DraftLen - 1) - (spec.row + 1)
          BY <1>1, <2>3, RoundFields, Lengths
        <4> HIDE DEF n
        <4> QED
          BY <4>1, <4>2
      <3> QED
        BY <2>1, <3>2, <3>3
    <2> HIDE DEF n
    <2>5. Ahead(mem', tracker', npast', n) /\ mem' = mem
      BY <1>1, <2>1, <2>2, <2>3, <2>4, FeedMatched
    <2>6. spec' = [sp EXCEPT !.noFeed = FALSE]
      BY <2>1, <2>2 DEF Feed
    <2>7. /\ ~spec'.noFeed /\ spec'.inProgress /\ ~spec'.verify
          /\ spec'.draft = spec.draft /\ spec'.rows = spec.rows
          /\ spec'.committed = spec.row + 1
      BY <1>1, <1>2, <2>1, <2>6 DEF Round
    <2> QED
      BY <1>1, <2>1, <2>3, <2>5, <2>7 DEF Place
  <1>5. ASSUME NEW ok \in BOOLEAN, EndTurnMismatched(ok)
        PROVE  Place' /\ ~redecoded'
    <2> DEFINE sp == [spec EXCEPT !.inProgress = FALSE, !.noFeed = FALSE,
                                  !.row = 0, !.draft = <<>>]
    <2>1. /\ spec.inProgress /\ Feed(RolledBack(mem), sp, ok)
          /\ redecoded' = (redecoded \/ ~SeqRmOk(mem, npast))
      BY <1>5 DEF EndTurnMismatched, VerifyLeft
    <2>2. Ahead(mem, tracker, npast, spec.rows - spec.committed)
      BY <1>1, <1>2, <2>1 DEF Place
    <2>3. /\ SeqRmOk(mem, npast) /\ RolledBack(mem) \in Filled
          /\ Level(RolledBack(mem), tracker, npast)
      BY <1>1, <2>2, RollbackLevels
    <2>4. ~sp.noFeed /\ ~sp.inProgress /\ ~sp.verify
      BY <1>1, <1>2 DEF Round
    <2> HIDE DEF sp
    <2>5. Level(mem', tracker', npast') /\ spec' = sp
      BY <1>1, <2>1, <2>3, <2>4, FeedLevels DEF Feed
    <2> QED
      BY <1>1, <2>1, <2>3, <2>4, <2>5, LevelPlace
  <1>6. ASSUME NEW ok \in BOOLEAN, EndTurnBonus(ok)
        PROVE  Place' /\ ~redecoded'
    <2> DEFINE sp == [spec EXCEPT !.bonus = FALSE]
    <2>1. spec.bonus /\ Feed(mem, sp, ok) /\ redecoded' = redecoded
      BY <1>6 DEF EndTurnBonus
    <2>2. ~spec.inProgress
      BY <1>1, <2>1 DEF RoundInv, OneState
    <2>3. ~sp.noFeed /\ ~sp.inProgress /\ ~sp.verify
      BY <1>1, <1>2, <2>2 DEF Round
    <2>4. Level(mem, tracker, npast)
      BY <1>1, <1>2, <2>2 DEF Place
    <2> HIDE DEF sp
    <2>5. Level(mem', tracker', npast') /\ spec' = sp
      BY <1>1, <2>1, <2>3, <2>4, FeedLevels DEF Feed
    <2> QED
      BY <1>1, <2>1, <2>3, <2>5, LevelPlace
  <1>7. ASSUME NEW ok \in BOOLEAN, EndTurnPlain(ok)
        PROVE  Place' /\ ~redecoded'
    <2>1. ~VerifyLeft /\ Feed(mem, spec, ok) /\ redecoded' = redecoded
      BY <1>7 DEF EndTurnPlain
    <2>2. ~spec.inProgress
      BY <1>1, <2>1 DEF VerifyLeft, RoundInv, RowsLeft
    <2>3. Level(mem, tracker, npast)
      BY <1>1, <1>2, <2>2 DEF Place
    <2>4. Level(mem', tracker', npast') /\ spec' = spec
      BY <1>1, <1>2, <2>1, <2>3, FeedLevels DEF Feed
    <2> QED
      BY <1>1, <1>2, <2>1, <2>2, <2>4, LevelPlace
  <1> QED
    BY <1>3, <1>4, <1>5, <1>6, <1>7 DEF EogStep
\* The comparison leaves the caches in place.
LEMMA ComparePlace ==
  ASSUME DraftLen > 1, PlaceInv, CompareStep
  PROVE  Place' /\ ~redecoded'
  <1>1. /\ spec \in Round /\ DataOK /\ mem \in Filled /\ RoundInv /\ Place /\ ~redecoded
        /\ phase = "compare" /\ phase' = "piece"
        /\ UNCHANGED <<tracker, npast, rows, cur>>
    BY DEF PlaceInv, TypeInv, RoundInv, DataOK, CompareStep, CompareBonus, CompareOrigin,
           CompareVerify, ComparePlain
  <1>2. ~spec.verify /\ ~spec.noFeed
    BY <1>1 DEF RoundInv, InPlace, Place
  <1>3. CASE CompareBonus
    <2>1. /\ spec.bonus /\ spec' = [spec EXCEPT !.bonus = FALSE, !.complete = TRUE]
          /\ UNCHANGED <<mem, redecoded>>
      BY <1>3 DEF CompareBonus
    <2>2. ~spec.inProgress
      BY <1>1, <2>1 DEF RoundInv, OneState
    <2>3. ~spec'.noFeed /\ ~spec'.inProgress /\ ~spec'.verify
      BY <1>1, <1>2, <2>1, <2>2 DEF Round
    <2> QED
      BY <1>1, <1>2, <2>1, <2>2, <2>3, LevelPlace DEF Place
  <1>4. CASE CompareOrigin
    <2>1. spec.origin /\ UNCHANGED <<mem, redecoded>>
      BY <1>4 DEF CompareOrigin
    <2>2. ~spec.inProgress /\ spec.draft \in Drafts
      BY <1>1, <2>1 DEF RoundInv, OneState, RowsLeft
    <2>3. Level(mem, tracker, npast) /\ Level(mem', tracker', npast')
      BY <1>1, <1>2, <2>1, <2>2 DEF Place
    <2>4. CASE cur = spec.draft[1]
      <3>1. spec' = [spec EXCEPT !.origin = FALSE, !.noFeed = TRUE, !.verify = TRUE,
                                 !.inProgress = TRUE, !.row = 0,
                                 !.rows = DraftLen - 1, !.committed = 0]
        BY <1>4, <2>2, <2>4, DraftLength DEF CompareOrigin
      <3>2. /\ spec'.noFeed /\ spec'.verify /\ spec'.inProgress /\ spec'.row = 0
            /\ spec'.rows = DraftLen - 1 /\ spec'.committed = 0
            /\ spec'.draft = spec.draft
        BY <1>1, <3>1 DEF Round
      <3> QED
        BY <1>1, <2>1, <2>3, <2>4, <3>2 DEF Place
    <2>5. CASE cur # spec.draft[1]
      <3>1. spec' = [spec EXCEPT !.origin = FALSE, !.draft = <<>>]
        BY <1>4, <2>5 DEF CompareOrigin
      <3>2. ~spec'.noFeed /\ ~spec'.inProgress /\ ~spec'.verify
        BY <1>1, <1>2, <2>2, <3>1 DEF Round
      <3> QED
        BY <1>1, <2>1, <2>3, <3>2, LevelPlace
    <2> QED
      BY <2>4, <2>5
  <1>5. CASE CompareVerify
    <2>1. spec.inProgress /\ spec.row < spec.rows
      BY <1>5 DEF CompareVerify, VerifyLeft
    <2>2. /\ Ahead(mem, tracker, npast, spec.rows - spec.row)
          /\ spec.rows = DraftLen - 1 /\ DraftsHeld(mem, spec.draft)
          /\ spec.committed = spec.row
      BY <1>1, <1>2, <2>1 DEF Place
    <2>3. CASE cur = spec.draft[spec.row + 2]
      <3>1. /\ spec' = [spec EXCEPT !.noFeed = TRUE, !.committed = spec.row + 1,
                                    !.row = spec.row + 1,
                                    !.inProgress = spec.row + 1 < spec.rows,
                                    !.bonus = spec.row + 1 >= spec.rows]
            /\ UNCHANGED <<mem, redecoded>>
        BY <1>5, <2>3 DEF CompareVerify
      <3>2. /\ spec'.noFeed /\ ~spec'.verify /\ spec'.row = spec.row + 1
            /\ spec'.committed = spec.row + 1 /\ spec'.rows = spec.rows
            /\ spec'.draft = spec.draft
            /\ spec'.inProgress = (spec.row + 1 < spec.rows)
            /\ spec'.bonus = (spec.row + 1 >= spec.rows)
        BY <1>1, <1>2, <3>1 DEF Round
      <3>3. /\ spec.row \in Nat /\ spec.rows \in Nat /\ DraftLen \in Nat
            /\ npast \in Nat /\ Len(mem.kv) = npast + (spec.rows - spec.row)
        BY <1>1, <2>2, RoundFields, Lengths DEF Ahead
      <3>4. cur = mem.kv[npast + 1]
        <4>1. spec.row + 2 \in 1..DraftLen
          BY <2>1, <2>2, <3>3
        <4>2. mem.kv[Len(mem.kv) - DraftLen + (spec.row + 2)] = spec.draft[spec.row + 2]
          BY <2>2, <4>1 DEF DraftsHeld
        <4>3. Len(mem.kv) - DraftLen + (spec.row + 2) = npast + 1
          BY <2>2, <3>3
        <4> QED
          BY <2>3, <4>2, <4>3
      <3>5. /\ spec'.rows - spec'.row \in RowNumbers
            /\ (spec'.rows - spec'.row) + 1 = spec.rows - spec.row
            /\ ~spec'.inProgress => spec'.row = spec'.rows
        <4>1. spec.rows - (spec.row + 1) \in 0..(DraftLen - 1)
              /\ (spec.rows - (spec.row + 1)) + 1 = spec.rows - spec.row
          BY <2>1, <2>2, <3>3
        <4>2. ~(spec.row + 1 < spec.rows) => spec.row + 1 = spec.rows
          BY <2>1, <3>3
        <4>3. ~spec'.inProgress => ~(spec.row + 1 < spec.rows)
          BY <3>2, Zenon
        <4> QED
          BY <3>2, <4>1, <4>2, <4>3, Lengths
      <3>6. spec'.inProgress \/ spec'.bonus
        <4>1. spec.row + 1 < spec.rows \/ spec.row + 1 >= spec.rows
          BY <3>3
        <4> QED
          BY <3>2, <4>1, Zenon
      <3> QED
        BY <1>1, <2>1, <2>2, <3>1, <3>2, <3>4, <3>5, <3>6 DEF Place
    <2>4. CASE cur # spec.draft[spec.row + 2]
      <3>1. /\ spec' = [spec EXCEPT !.inProgress = FALSE, !.noFeed = FALSE,
                                    !.row = 0, !.draft = <<>>]
            /\ mem' = RolledBack(mem)
            /\ redecoded' = (redecoded \/ ~SeqRmOk(mem, npast))
        BY <1>5, <2>4 DEF CompareVerify
      <3>2. ~spec'.noFeed /\ ~spec'.inProgress /\ ~spec'.verify
        BY <1>1, <1>2, <3>1 DEF Round
      <3> QED
        BY <1>1, <2>2, <3>1, <3>2, RollbackLevels, LevelPlace
    <2> QED
      BY <2>3, <2>4
  <1>6. CASE ComparePlain
    <2>1. UNCHANGED <<mem, spec, redecoded>> /\ ~VerifyLeft
      BY <1>6 DEF ComparePlain
    <2>2. ~spec.inProgress
      BY <1>1, <2>1 DEF VerifyLeft, RoundInv, RowsLeft
    <2> QED
      BY <1>1, <1>2, <2>1, <2>2, LevelPlace DEF Place
  <1> QED
    BY <1>3, <1>4, <1>5, <1>6 DEF CompareStep

\* The piece, with its feed, leaves the caches in place.
LEMMA PiecePlace ==
  ASSUME ~HasThink, PlaceInv, PieceStep
  PROVE  Place' /\ ~redecoded'
  <1>1. /\ spec \in Round /\ DataOK /\ mem \in Filled /\ RoundInv /\ MatchedOK /\ Place
        /\ ~redecoded
    BY DEF PlaceInv, TypeInv, RoundInv, DataOK
  <1>2. PICK ok \in BOOLEAN : CompleteCall(ok) \/ Piece(ok)
    BY DEF PieceStep, Tripwire
  <1>3. /\ phase = "piece" /\ phase' # "piece" /\ Feed(mem, spec, ok)
        /\ redecoded' = redecoded
    BY <1>2 DEF CompleteCall, Piece, LeaveAfterFeed
  <1>4. CASE ~spec.noFeed
    <2>1. ~spec.inProgress /\ ~spec.verify
      BY <1>1, <1>3, <1>4 DEF MatchedOK, RoundInv, OneState
    <2>2. Level(mem, tracker, npast)
      BY <1>1, <1>4, <2>1 DEF Place
    <2>3. Level(mem', tracker', npast') /\ spec' = spec
      BY <1>1, <1>3, <1>4, <2>2, FeedLevels DEF Feed
    <2> QED
      BY <1>1, <1>3, <1>4, <2>1, <2>3, LevelPlace
  <1>5. CASE spec.noFeed
    <2>1. /\ spec' = [spec EXCEPT !.noFeed = FALSE] /\ mem' = mem
          /\ tracker' = Append(tracker, cur) /\ npast' = npast + 1
      BY <1>3, <1>5 DEF Feed
    <2>2. /\ ~spec'.noFeed /\ spec'.inProgress = spec.inProgress
          /\ spec'.verify = spec.verify /\ spec'.draft = spec.draft /\ spec'.row = spec.row
          /\ spec'.rows = spec.rows /\ spec'.committed = spec.committed
          /\ spec'.bonus = spec.bonus
      BY <1>1, <2>1 DEF Round
    <2>3. CASE spec.verify
      <3>1. /\ Level(mem, tracker, npast) /\ cur = spec.draft[1] /\ spec.inProgress
            /\ spec.row = 0 /\ spec.committed = 0 /\ spec.rows = DraftLen - 1
        BY <1>1, <1>3, <2>3 DEF Place, RoundInv, OneState
      <3>2. tracker' = mem'.kv \o <<spec.draft[1]>>
        BY <1>1, <2>1, <3>1, FilledFields, AppendIsConcat DEF Level, DataOK
      <3>3. Behind(mem', tracker', npast', spec.draft[1])
        BY <2>1, <3>1, <3>2 DEF Behind, Level
      <3> QED
        <4>1. spec'.verify /\ spec'.inProgress /\ ~spec'.noFeed
          BY <2>2, <2>3, <3>1, Zenon
        <4>2. spec'.row = 0 /\ spec'.committed = 0 /\ spec'.rows = DraftLen - 1
          BY <2>2, <3>1
        <4>3. Behind(mem', tracker', npast', spec'.draft[1])
          BY <2>2, <3>3
        <4> QED
          BY <1>1, <1>3, <4>1, <4>2, <4>3 DEF Place
    <2>4. CASE ~spec.verify
      <3> DEFINE n == spec.rows - spec.row
      <3>1. /\ n \in RowNumbers /\ Ahead(mem, tracker, npast, n + 1)
            /\ cur = mem.kv[npast + 1]
            /\ ~spec.inProgress => spec.row = spec.rows
        BY <1>1, <1>5, <2>4 DEF Place
      <3> HIDE DEF n
      <3>2. Ahead(mem', tracker', npast', n)
        BY <1>1, <1>3, <1>5, <3>1, FeedMatched
      <3>3. CASE spec.inProgress
        <4>1. spec.rows = DraftLen - 1 /\ DraftsHeld(mem, spec.draft)
              /\ spec.committed = spec.row
          BY <1>1, <1>3, <2>4, <3>3 DEF Place
        <4>2. Ahead(mem', tracker', npast', spec.rows - spec.committed)
          BY <3>2, <4>1 DEF n
        <4> QED
          BY <1>1, <1>3, <2>1, <2>2, <2>4, <3>3, <4>1, <4>2 DEF Place
      <3>4. CASE ~spec.inProgress
        <4>1. n = 0
          <5>1. spec.rows \in Nat /\ spec.row = spec.rows
            BY <1>1, <3>1, <3>4, RoundFields, RowArithmetic
          <5> QED
            BY <5>1 DEF n
        <4>2. Level(mem', tracker', npast')
          BY <1>1, <2>1, <3>2, <4>1, AheadOfNothing
        <4> QED
          BY <1>1, <1>3, <2>2, <2>4, <3>4, <4>2, LevelPlace
      <3> QED
        BY <3>3, <3>4
    <2> QED
      BY <2>3, <2>4
  <1> QED
    BY <1>4, <1>5
\* Rolling back what a failed decode of the drafts wrote leaves the committed
\* context: with d1 if its cell was written, without it otherwise.
LEMMA FailedVerify ==
  ASSUME DataOK, NEW d \in Drafts, Behind(mem, tracker, npast, d[1]), NEW n \in 0..DraftLen,
         n < DraftLen
  PROVE  LET part == IF n = 0 THEN mem ELSE Decode(mem, Prefix(d, n))
             r == RolledBack(part)
         IN /\ SeqRmOk(part, npast)
            /\ n > 0 => Level(r, tracker, npast)
            /\ n = 0 => Level(r, Prefix(tracker, Len(tracker) - 1), npast - 1)
  <1> DEFINE part == IF n = 0 THEN mem ELSE Decode(mem, Prefix(d, n))
             r == RolledBack(part)
  <1>1. /\ mem \in Filled /\ mem.kv \in Seq(Token) /\ d \in Seq(Token) /\ Len(d) = DraftLen
        /\ Coherent(mem) /\ tracker = mem.kv \o <<d[1]>> /\ npast = Len(mem.kv) + 1
        /\ DraftLen \in Nat \ {0} /\ d[1] \in Token
    BY FilledFields, DraftLength, Lengths DEF DataOK, Behind
  <1>2. CASE n = 0
    <2>1. part = mem /\ SeqRmOk(mem, npast) /\ r = mem
      BY <1>1, <1>2 DEF SeqRmOk, RolledBack, SeqRm
    <2> DEFINE one == <<d[1]>>
    <2>2. one \in Seq(Token) /\ Len(one) = 1
      BY <1>1
    <2>3. tracker = mem.kv \o one
      BY <1>1
    <2> HIDE DEF one
    <2>4. Prefix(mem.kv \o one, Len(mem.kv)) = mem.kv /\ Len(mem.kv \o one) = Len(mem.kv) + 1
      <3>1. 0 \in 0..Len(one) /\ Len(mem.kv) + 0 = Len(mem.kv) /\ Prefix(one, 0) = <<>>
        BY <1>1, <2>2 DEF Prefix
      <3>2. Prefix(mem.kv \o one, Len(mem.kv) + 0) = mem.kv \o Prefix(one, 0)
        BY <1>1, <2>2, <3>1, PrefixOfConcat
      <3> QED
        <4>1. mem.kv \o <<>> = mem.kv
          BY <1>1, ConcatEmptySeq
        <4>2. Len(mem.kv \o one) = Len(mem.kv) + Len(one)
          BY <1>1, <2>2, ConcatProperties
        <4> QED
          BY <2>2, <3>1, <3>2, <4>1, <4>2
    <2>5. Prefix(tracker, Len(tracker) - 1) = mem.kv /\ npast - 1 = Len(mem.kv)
      <3>1. Len(mem.kv) \in Nat
        BY <1>1
      <3>2. Len(tracker) - 1 = Len(mem.kv)
        BY <2>3, <2>4, <3>1
      <3> QED
        BY <1>1, <2>3, <2>4, <3>1, <3>2
    <2> QED
      BY <1>1, <1>2, <2>1, <2>5 DEF Level
  <1>3. CASE n > 0
    <2> DEFINE toks == Prefix(d, n)
               j == n - 1
    <2>1. toks \in Seq(Token) /\ Len(toks) = n /\ toks[1] = d[1]
      <3>1. n \in 0..Len(d) /\ 1 \in 1..n
        BY <1>1, <1>3
      <3> QED
        BY <1>1, <3>1, PrefixType
    <2>2. j \in 0..NRsSeq /\ j < Len(toks) /\ Len(toks) - j = 1
      BY <1>3, <2>1, Lengths
    <2>3. Prefix(toks, 1) = <<d[1]>>
      <3>1. 1 \in 0..Len(toks) /\ 1 \in 1..1
        BY <1>3, <2>1
      <3>2. Prefix(toks, 1) \in Seq(Token) /\ Len(Prefix(toks, 1)) = 1
            /\ Prefix(toks, 1)[1] = toks[1]
        BY <2>1, <3>1, PrefixType
      <3>3. <<d[1]>> \in Seq(Token) /\ Len(<<d[1]>>) = 1
        BY <1>1
      <3>4. \A i \in 1..Len(<<d[1]>>) : Prefix(toks, 1)[i] = <<d[1]>>[i]
        BY <2>1, <3>2, <3>3
      <3> QED
        BY <3>2, <3>3, <3>4, SeqEqual
    <2> HIDE DEF toks, j
    <2>4. /\ SeqRmOk(Decode(mem, toks), Len(Decode(mem, toks).kv) - j)
          /\ Coherent(SeqRm(Decode(mem, toks), Len(Decode(mem, toks).kv) - j))
          /\ SeqRm(Decode(mem, toks), Len(Decode(mem, toks).kv) - j).kv
               = mem.kv \o Prefix(toks, Len(toks) - j)
      BY <1>1, <2>1, <2>2, RollbackExact
    <2>5. Len(Decode(mem, toks).kv) - j = npast
      <3>1. Decode(mem, toks).kv = mem.kv \o toks
        BY <1>1, <2>1, DecodeFilled
      <3>2. Len(mem.kv \o toks) = Len(mem.kv) + Len(toks)
        BY <1>1, <2>1, ConcatProperties
      <3> QED
        BY <1>1, <2>1, <2>2, <3>1, <3>2
    <2>6. part = Decode(mem, toks) /\ r = SeqRm(Decode(mem, toks), npast)
      BY <1>3, <2>4, <2>5 DEF toks, RolledBack
    <2>7. r.kv = tracker /\ npast = Len(tracker) /\ Coherent(r)
      <3>1. Len(mem.kv \o <<d[1]>>) = Len(mem.kv) + 1
        BY <1>1
      <3> QED
        BY <1>1, <2>2, <2>3, <2>4, <2>5, <2>6, <3>1
    <2> QED
      BY <1>3, <2>4, <2>5, <2>6, <2>7 DEF Level
  <1> QED
    BY <1>2, <1>3

\* The steps after the feed leave the caches in place.
LEMMA PostPlace ==
  ASSUME PlaceInv, PostStep
  PROVE  Place' /\ ~redecoded'
  <1>1. /\ spec \in Round /\ DataOK /\ mem \in Filled /\ RoundInv /\ MatchedOK /\ Place
        /\ ~redecoded /\ phase \in {"post", "hook"}
    BY DEF PlaceInv, TypeInv, RoundInv, DataOK, PostStep, VerifyDecode, VerifyFail,
           CompleteRound, StartRound, NoNewRound, ToolStartHook
  <1>2. /\ ~spec.noFeed /\ AfterPost \in {"hook", "top"}
        /\ spec.verify => spec.inProgress
    BY <1>1 DEF Place, AfterPost, RoundInv, OneState
  <1>3. CASE VerifyDecode
    <2>1. /\ spec.verify /\ phase' = AfterPost /\ UNCHANGED <<tracker, npast, cur, redecoded>>
          /\ mem' = Decode(mem, spec.draft)
      BY <1>3 DEF VerifyDecode
    <2>2. /\ Behind(mem, tracker, npast, spec.draft[1]) /\ spec.draft \in Drafts
          /\ spec.row = 0 /\ spec.committed = 0 /\ spec.rows = DraftLen - 1
          /\ spec.row < spec.rows
      BY <1>1, <1>2, <1>3, <2>1 DEF Place, MatchedOK, VerifyDecode, RoundInv, RowsLeft
    <2>3. spec' = [spec EXCEPT !.verify = FALSE]
      BY <1>3, <2>2 DEF VerifyDecode
    <2>4. /\ ~spec'.noFeed /\ ~spec'.verify /\ spec'.inProgress /\ spec'.draft = spec.draft
          /\ spec'.rows = DraftLen - 1 /\ spec'.committed = 0 /\ spec'.row = 0
      BY <1>1, <1>2, <2>1, <2>2, <2>3 DEF Round
    <2>5. /\ Ahead(mem', tracker', npast', DraftLen - 1) /\ DraftsHeld(mem', spec.draft)
      BY <1>1, <2>1, <2>2, VerifyAhead
    <2>6. (DraftLen - 1) - 0 = DraftLen - 1
      BY Lengths
    <2> QED
      BY <1>1, <1>2, <2>1, <2>4, <2>5, <2>6 DEF Place
  <1>4. ASSUME NEW n \in 0..DraftLen, VerifyFail(n)
        PROVE  Place' /\ ~redecoded'
    <2> DEFINE part == IF n = 0 THEN mem ELSE Decode(mem, Prefix(spec.draft, n))
    <2>1. /\ spec.verify /\ phase = "post" /\ n < Len(spec.draft)
          /\ mem' = RolledBack(part) /\ redecoded' = (redecoded \/ ~SeqRmOk(part, npast))
          /\ tracker' = IF n > 0 THEN tracker ELSE Prefix(tracker, Len(tracker) - 1)
          /\ npast' = IF n > 0 THEN npast ELSE npast - 1
          /\ spec' = [spec EXCEPT !.verify = FALSE, !.inProgress = FALSE, !.bonus = FALSE,
                                  !.complete = FALSE, !.draft = <<>>]
      BY <1>4 DEF VerifyFail
    <2>2. /\ Behind(mem, tracker, npast, spec.draft[1]) /\ spec.draft \in Drafts
          /\ n < DraftLen
      BY <1>1, <2>1, DraftLength DEF Place, MatchedOK
    <2>3. /\ SeqRmOk(part, npast)
          /\ n > 0 => Level(mem', tracker, npast)
          /\ n = 0 => Level(mem', Prefix(tracker, Len(tracker) - 1), npast - 1)
      BY <1>1, <2>1, <2>2, FailedVerify
    <2> HIDE DEF part
    <2>4. Level(mem', tracker', npast')
      BY <2>1, <2>3
    <2>5. ~spec'.noFeed /\ ~spec'.inProgress /\ ~spec'.verify
      BY <1>1, <1>2, <2>1 DEF Round
    <2> QED
      BY <1>1, <2>1, <2>3, <2>4, <2>5, LevelPlace
  <1>5. CASE CompleteRound
    <2>1. /\ spec.complete /\ ~spec.verify /\ spec' = [spec EXCEPT !.complete = FALSE]
          /\ UNCHANGED <<mem, tracker, npast, redecoded>>
      BY <1>5 DEF CompleteRound
    <2>2. ~spec.inProgress
      BY <1>1, <2>1 DEF RoundInv, OneState
    <2>3. ~spec'.noFeed /\ ~spec'.inProgress /\ ~spec'.verify
      BY <1>1, <1>2, <2>1, <2>2 DEF Round
    <2> QED
      BY <1>1, <1>2, <2>1, <2>2, <2>3, LevelPlace DEF Place
  <1>6. CASE StartRound
    <2>1. ~spec.verify /\ ~spec.inProgress /\ UNCHANGED <<mem, tracker, npast, redecoded>>
      BY <1>6 DEF StartRound
    <2>2. PICK d \in Drafts : spec' = [spec EXCEPT !.draft = d, !.origin = TRUE]
      BY <1>6 DEF StartRound
    <2>3. ~spec'.noFeed /\ ~spec'.inProgress /\ ~spec'.verify
      BY <1>1, <1>2, <2>1, <2>2 DEF Round
    <2> QED
      BY <1>1, <1>2, <2>1, <2>3, LevelPlace DEF Place
  <1>7. CASE NoNewRound
    <2>1. phase' = AfterPost /\ UNCHANGED <<mem, tracker, npast, spec, redecoded>>
      BY <1>7 DEF NoNewRound
    <2> QED
      BY <1>1, <1>2, <2>1, SamePlace
  <1>8. CASE ToolStartHook
    <2>1. /\ phase' = "top" /\ UNCHANGED <<tracker, npast, spec, redecoded, cur>>
          /\ mem' = IF InLockstep THEN RsSave(mem) ELSE mem
      BY <1>8 DEF ToolStartHook
    <2>2. mem'.kv = mem.kv /\ mem'.planes = mem.planes /\ mem'.rsIdx = mem.rsIdx
      BY <1>1, <2>1, SaveKeeps
    <2> QED
      BY <1>1, <1>2, <2>1, <2>2
      DEF Place, Level, Behind, Ahead, DraftsHeld, Coherent, State
  <1> QED
    BY <1>3, <1>4, <1>5, <1>6, <1>7, <1>8 DEF PostStep

\* The cleanup leaves level caches and no round.
LEMMA CleanupPlace ==
  ASSUME PlaceInv, CleanupStep
  PROVE  Place' /\ ~redecoded'
  <1>1. /\ spec \in Round /\ DataOK /\ mem \in Filled /\ RoundInv /\ MatchedOK /\ Place
        /\ ~redecoded /\ phase = "cleanup" /\ mem.kv \in Seq(Token)
    BY FilledFields
    DEF PlaceInv, TypeInv, RoundInv, DataOK, CleanupStep, CleanupIdle, CleanupGiveCell,
        CleanupDropCell, CleanupUnfed, CleanupRollback, CleanupClose
  <1>2. ~spec.noFeed
    BY <1>1 DEF Place
  <1>3. ASSUME NEW touched \in BOOLEAN, Settled(touched), ~touched,
               Level(mem', tracker', npast')
        PROVE  Place' /\ ~redecoded'
    <2>1. spec' = NoRound /\ redecoded' = (redecoded \/ touched)
      BY <1>3 DEF Settled
    <2> QED
      BY <1>1, <1>3, <2>1, LevelPlace DEF NoRound
  <1>4. CASE CleanupIdle
    <2>1. /\ ~spec.inProgress /\ ~spec.verify /\ phase' = "done"
          /\ UNCHANGED <<mem, tracker, npast, spec, redecoded>>
      BY <1>4 DEF CleanupIdle, RoundOpen
    <2> QED
      BY <1>1, <1>2, <2>1, LevelPlace DEF Place
  <1>5. CASE CleanupGiveCell
    <2>1. /\ spec.verify /\ mem' = Decode(mem, Prefix(spec.draft, 1))
          /\ UNCHANGED <<tracker, npast>> /\ Settled(FALSE)
      BY <1>5 DEF CleanupGiveCell
    <2>2. /\ Behind(mem, tracker, npast, spec.draft[1]) /\ spec.draft \in Drafts
      BY <1>1, <2>1 DEF Place, MatchedOK
    <2>3. /\ Prefix(spec.draft, 1) \in Seq(Token) /\ Prefix(spec.draft, 1) = <<spec.draft[1]>>
          /\ Len(Prefix(spec.draft, 1)) = 1 /\ spec.draft[1] \in Token
      <3>1. /\ spec.draft \in Seq(Token) /\ 1 \in 0..Len(spec.draft) /\ 1 \in 1..1
            /\ spec.draft[1] \in Token
        BY <2>2, DraftLength, Lengths
      <3>2. Prefix(spec.draft, 1) \in Seq(Token) /\ Len(Prefix(spec.draft, 1)) = 1
            /\ Prefix(spec.draft, 1)[1] = spec.draft[1]
        BY <3>1, PrefixType
      <3>3. <<spec.draft[1]>> \in Seq(Token) /\ Len(<<spec.draft[1]>>) = 1
        BY <3>1
      <3>4. \A i \in 1..Len(<<spec.draft[1]>>) : Prefix(spec.draft, 1)[i] = <<spec.draft[1]>>[i]
        BY <3>2, <3>3
      <3>5. Prefix(spec.draft, 1) = <<spec.draft[1]>>
        BY <3>2, <3>3, <3>4, SeqEqual
      <3> QED
        BY <3>1, <3>2, <3>5
    <2> DEFINE one == Prefix(spec.draft, 1)
    <2>4. /\ mem'.kv = mem.kv \o one /\ mem'.rsIdx = 0
          /\ \A i \in 0..NRsSeq : i < Len(one) =>
               mem'.planes[i] = State(mem) \o Prefix(one, Len(one) - i)
      BY <1>1, <2>1, <2>3, DecodeFilled
    <2>5. Prefix(one, Len(one)) = one /\ 0 \in 0..NRsSeq /\ 0 < Len(one) /\ Len(one) - 0 = Len(one)
      <3>1. Prefix(one, Len(one)) = one
        BY <2>3, PrefixAll
      <3>2. Len(one) = 1
        BY <2>3
      <3> HIDE DEF one
      <3> QED
        BY <3>1, <3>2, Lengths
    <2> HIDE DEF one
    <2>6. mem'.planes[0] = State(mem) \o one
      BY <2>4, <2>5
    <2>7. one = <<spec.draft[1]>> /\ Len(mem.kv \o <<spec.draft[1]>>) = Len(mem.kv) + 1
      BY <1>1, <2>3 DEF one
    <2>8. Level(mem', tracker', npast')
      BY <2>1, <2>2, <2>4, <2>6, <2>7 DEF Behind, Level, Coherent, State
    <2> QED
      BY <1>3, <2>1, <2>8
  <1>6. CASE CleanupDropCell
    <2>1. /\ spec.verify /\ npast' = npast - 1 /\ mem' = mem
          /\ tracker' = Prefix(tracker, Len(tracker) - 1) /\ Settled(FALSE)
      BY <1>6 DEF CleanupDropCell
    <2>2. Behind(mem, tracker, npast, spec.draft[1]) /\ spec.draft \in Drafts
      BY <1>1, <2>1 DEF Place, MatchedOK
    <2>3. SeqRmOk(mem, npast) /\ RolledBack(mem) = mem
      BY <1>1, <2>2 DEF Behind, SeqRmOk, RolledBack, SeqRm
    <2>4. 0 \in 0..DraftLen /\ 0 < DraftLen
      BY Lengths
    <2>5. Level(RolledBack(mem), Prefix(tracker, Len(tracker) - 1), npast - 1)
      BY <1>1, <2>2, <2>4, FailedVerify
    <2> QED
      BY <1>3, <2>1, <2>3, <2>5
  <1>7. CASE CleanupUnfed
    <2>1. spec.verify /\ npast <= Len(mem.kv)
      BY <1>7 DEF CleanupUnfed, Synced
    <2>2. npast = Len(mem.kv) + 1
      BY <1>1, <2>1 DEF Place, Behind
    <2> QED
      BY <1>1, <2>1, <2>2
  <1>8. CASE CleanupRollback
    <2>1. /\ ~spec.verify /\ spec.inProgress /\ mem' = RolledBack(mem)
          /\ UNCHANGED <<tracker, npast>> /\ Settled(~SeqRmOk(mem, npast))
      BY <1>8 DEF CleanupRollback
    <2>2. Ahead(mem, tracker, npast, spec.rows - spec.committed)
      BY <1>1, <2>1 DEF Place
    <2>3. SeqRmOk(mem, npast) /\ Level(mem', tracker', npast')
      BY <1>1, <2>1, <2>2, RollbackLevels
    <2> QED
      BY <1>3, <2>1, <2>3
  <1>9. CASE CleanupClose
    <2>1. /\ ~spec.verify /\ ~(spec.inProgress /\ spec.committed < spec.rows)
          /\ UNCHANGED <<mem, tracker, npast>> /\ Settled(FALSE)
      BY <1>9 DEF CleanupClose
    <2>2. CASE spec.inProgress
      <3>1. Ahead(mem, tracker, npast, spec.rows - spec.committed)
        BY <1>1, <2>1, <2>2 DEF Place
      <3>2. spec.rows - spec.committed = 0
        <4>1. /\ spec.rows \in Nat /\ spec.committed \in Nat
              /\ ~(spec.committed < spec.rows) /\ spec.rows - spec.committed \in 0..(DraftLen - 1)
          BY <1>1, <2>1, <2>2, <3>1, RoundFields, Lengths DEF Ahead
        <4> QED
          BY <4>1
      <3>3. Level(mem', tracker', npast')
        BY <1>1, <2>1, <3>1, <3>2, AheadOfNothing
      <3> QED
        BY <1>3, <2>1, <3>3
    <2>3. CASE ~spec.inProgress
      <3>1. Level(mem', tracker', npast')
        BY <1>1, <1>2, <2>1, <2>3 DEF Place
      <3> QED
        BY <1>3, <2>1, <3>1
    <2> QED
      BY <2>2, <2>3
  <1> QED
    BY <1>4, <1>5, <1>6, <1>7, <1>8, <1>9 DEF CleanupStep

\* Every step of a generation without thinking tags keeps the caches in place.
LEMMA PlaceStep ==
  ASSUME DraftLen > 1, ~HasThink, PlaceInv, [Next]_vars
  PROVE  PlaceInv'
  <1>1. TypeInv'
    BY TypeStep DEF PlaceInv
  <1>2. Place /\ ~redecoded /\ RoundInv /\ (spec.verify => spec.inProgress)
    BY DEF PlaceInv, TypeInv, RoundInv, OneState
  <1>3. CASE GiveUp \/ Interrupt \/ Sample
    <2>1. /\ UNCHANGED <<mem, tracker, npast, spec, redecoded>>
          /\ phase = "top" /\ phase' # "piece"
      BY <1>3 DEF GiveUp, Interrupt, Sample
    <2> QED
      BY <1>1, <1>2, <2>1, SamePlace DEF PlaceInv
  <1>4. CASE Resume
    <2>1. /\ UNCHANGED <<mem, tracker, npast, spec, redecoded>>
          /\ phase = "done" /\ phase' = "top"
      BY <1>4 DEF Resume
    <2> QED
      BY <1>1, <1>2, <2>1, SamePlace DEF PlaceInv
  <1>5. CASE EogStep
    BY <1>1, <1>5, EogPlace DEF PlaceInv
  <1>6. CASE CompareStep
    BY <1>1, <1>6, ComparePlace DEF PlaceInv
  <1>7. CASE PieceStep
    BY <1>1, <1>7, PiecePlace DEF PlaceInv
  <1>8. CASE PostStep
    BY <1>1, <1>8, PostPlace DEF PlaceInv
  <1>9. CASE CleanupStep
    BY <1>1, <1>9, CleanupPlace DEF PlaceInv
  <1>10. CASE UNCHANGED vars
    BY <1>1, <1>2, <1>10 DEF vars, PlaceInv, Place
  <1> QED
    BY <1>3, <1>4, <1>5, <1>6, <1>7, <1>8, <1>9, <1>10 DEF Next, Generate

\* When the loop is left and cleaned up, no round is open, so the caches are level.
LEMMA PlaceExit == PlaceInv => ExitLockstep /\ RollbackInWindow
  <1> SUFFICES ASSUME PlaceInv, phase = "done" PROVE ExitLockstep
    BY DEF PlaceInv, RollbackInWindow, ExitLockstep
  <1>1. ~spec.inProgress /\ ~spec.noFeed
    BY DEF PlaceInv, Place, TypeInv, RoundInv, InPlace, RoundOpen
  <1>2. Level(mem, tracker, npast)
    BY <1>1 DEF PlaceInv, Place
  <1> QED
    BY <1>2 DEF Level, ExitLockstep

\* Without thinking tags, however a generation ends (interrupt, exhaustion, end
\* token, tool call, failed decode, at any point of a round), the tracker, the two
\* caches and n_past_ describe the same context.
THEOREM ExitInLockstep ==
  ASSUME DraftLen > 1, ~HasThink
  PROVE  Spec => []ExitLockstep
  BY TypeInit, PlaceInit, PlaceStep, PlaceExit, PTL DEF Spec, PlaceInv

\* ... and the re-decode fallback of the draft rollbacks is never taken.
THEOREM RollbacksStayInWindow ==
  ASSUME DraftLen > 1, ~HasThink
  PROVE  Spec => []RollbackInWindow
  BY TypeInit, PlaceInit, PlaceStep, PlaceExit, PTL DEF Spec, PlaceInv
-----------------------------------------------------------------------------
\* Without thinking tags, speculation is invisible.  Every token is drawn from the
\* logits of exactly the committed context, and the tokens with both a tracker entry
\* and a cache cell grow as PlainDecoding says.  Carried along: what each row of the
\* batch was computed from, whenever the loop may still sample it, and that the token
\* in hand, or the d1 committed ahead of its cell, was drawn after the committed context.

\* The loop goes on, or can be resumed, with the rows the batch holds.
Live ==
    \/ phase \in {"top", "eog", "compare", "post", "hook"}
    \/ phase = "piece" /\ spec.noFeed
    \/ phase \in {"cleanup", "done"} /\ exit = "interrupted"

RowsRight ==
    /\ phase = "eog" => rows # <<>>
    /\ phase \in {"cleanup", "done"} /\ exit = "interrupted" => ~spec.verify
    /\ Live /\ rows # <<>> /\ ~spec.inProgress => rows[Len(rows)] = mem.kv
    /\ Live /\ spec.inProgress /\ ~spec.verify =>
         \A i \in 1..DraftLen : rows[i] = Prefix(mem.kv, Len(mem.kv) - DraftLen + i)

\* d1 is committed in the tracker and has no cell yet.
Pending == spec.verify /\ phase # "piece"

Drawn ==
    /\ phase \in {"eog", "compare", "piece"} => cur \in Dist(tracker)
    /\ Pending => spec.draft[1] \in Dist(mem.kv)

SoundInv == PlaceInv /\ RowsRight /\ Drawn

-----------------------------------------------------------------------------
\* The row the sampler reads was computed from the tracker.
LEMMA RowOfTracker ==
  ASSUME PlaceInv, RowsRight, phase \in {"top", "eog"}, rows # <<>>
  PROVE  SampledRow = tracker
  <1>1. /\ spec \in Round /\ ~spec.verify /\ ~spec.noFeed /\ mem.kv \in Seq(Token) /\ Place
    BY FilledFields DEF PlaceInv, TypeInv, RoundInv, DataOK, InPlace, Place
  <1>2. CASE ~spec.inProgress
    <2>1. SampledRow = mem.kv
      BY <1>2 DEF SampledRow, RowsRight, Live
    <2>2. Level(mem, tracker, npast)
      BY <1>1, <1>2 DEF Place
    <2> QED
      BY <2>1, <2>2 DEF Level
  <1>3. CASE spec.inProgress
    <2>1. /\ spec.rows = DraftLen - 1 /\ spec.committed = spec.row
          /\ Ahead(mem, tracker, npast, spec.rows - spec.committed)
      BY <1>1, <1>3 DEF Place
    <2>2. /\ spec.row \in 0..(DraftLen - 1) /\ DraftLen \in Nat /\ npast \in Nat
          /\ Len(mem.kv) = npast + (spec.rows - spec.row) /\ tracker = Prefix(mem.kv, npast)
      BY <1>1, <2>1, RoundFields, Lengths DEF Ahead
    <2>3. /\ spec.row + 1 \in 1..DraftLen
          /\ Len(mem.kv) - DraftLen + (spec.row + 1) = npast
      <3>1. Len(mem.kv) = npast + ((DraftLen - 1) - spec.row)
        BY <2>1, <2>2
      <3>2. /\ spec.row \in Nat /\ spec.row < DraftLen /\ DraftLen \in Nat /\ npast \in Nat
            /\ Len(mem.kv) \in Nat
        BY <1>1, <2>2
      <3>3. spec.row + 1 \in 1..DraftLen
        BY <3>2
      <3>4. Len(mem.kv) - DraftLen + (spec.row + 1) = npast
        BY <3>1, <3>2
      <3> QED
        BY <3>3, <3>4
    <2>4. rows[spec.row + 1] = Prefix(mem.kv, Len(mem.kv) - DraftLen + (spec.row + 1))
      BY <1>1, <1>3, <2>3 DEF RowsRight, Live
    <2> QED
      BY <1>3, <2>2, <2>3, <2>4 DEF SampledRow
  <1> QED
    BY <1>2, <1>3

\* With one draft more matched than are left, the last row is the whole cache's.
LEMMA LastRow ==
  ASSUME mem.kv \in Seq(Token), Len(rows) = DraftLen,
         \A i \in 1..DraftLen : rows[i] = Prefix(mem.kv, Len(mem.kv) - DraftLen + i)
  PROVE  rows[Len(rows)] = mem.kv
  <1>1. DraftLen \in 1..DraftLen /\ Len(mem.kv) - DraftLen + DraftLen = Len(mem.kv)
    BY Lengths
  <1>2. rows[DraftLen] = Prefix(mem.kv, Len(mem.kv))
    BY <1>1
  <1> QED
    BY <1>2, PrefixAll

\* A step that is not live afterwards has no row to answer for.
LEMMA DeadRows ==
  ASSUME ~Live', phase' # "eog", ~(phase' \in {"cleanup", "done"} /\ exit' = "interrupted")
  PROVE  RowsRight'
  BY DEF RowsRight

\* A step that keeps rows, cache and round keeps the rows right.
LEMMA SameRows ==
  ASSUME RowsRight, Live, mem'.kv = mem.kv, UNCHANGED rows,
         spec'.inProgress = spec.inProgress, spec'.verify = spec.verify,
         phase' = "eog" => rows # <<>>,
         phase' \in {"cleanup", "done"} /\ exit' = "interrupted" => ~spec.verify
  PROVE  RowsRight'
  BY DEF RowsRight

LEMMA RowsInit ==
  ASSUME Init
  PROVE  RowsRight /\ Drawn
  <1>1. PICK t \in Token : mem = Decode(EmptyMem, <<t>>) /\ rows = << <<t>> >>
    BY DEF Init
  <1>2. <<t>> \in Seq(Token) /\ EmptyMem \in Filled /\ EmptyMem.kv = <<>>
    BY EmptyFilled DEF EmptyMem
  <1>3. mem.kv = <<>> \o <<t>>
    BY <1>1, <1>2, DecodeFilled
  <1>4. mem.kv = <<t>> /\ rows[Len(rows)] = <<t>>
    BY <1>1, <1>2, <1>3, ConcatEmptySeq
  <1> QED
    BY <1>4 DEF Init, NoRound, RowsRight, Live, Drawn, Pending
-----------------------------------------------------------------------------
\* The top of the loop: an interrupt leaves the rows to the resumption.
LEMMA TopRows ==
  ASSUME SoundInv, GiveUp \/ Interrupt \/ Sample \/ Resume
  PROVE  RowsRight' /\ Drawn'
  <1>1. /\ UNCHANGED <<mem, tracker, npast, rows, spec>> /\ RowsRight /\ PlaceInv
        /\ ~spec.verify
    BY DEF SoundInv, PlaceInv, TypeInv, RoundInv, InPlace, RoundOpen, GiveUp, Interrupt,
           Sample, Resume
  <1>2. CASE GiveUp
    <2>1. phase' = "cleanup" /\ exit' = "early"
      BY <1>2 DEF GiveUp
    <2> QED
      BY <1>1, <2>1, DeadRows DEF Live, Drawn, Pending
  <1>3. CASE Interrupt \/ Resume
    <2>1. Live /\ phase' \in {"cleanup", "top"}
      BY <1>3 DEF Interrupt, Resume, Live
    <2> QED
      BY <1>1, <2>1, SameRows DEF Drawn, Pending
  <1>4. CASE Sample
    <2>1. Live /\ phase = "top" /\ phase' \in {"eog", "compare"} /\ rows # <<>>
      BY <1>4 DEF Sample, Live
    <2>2. cur' \in Dist(tracker)
      BY <1>1, <1>4, <2>1, RowOfTracker DEF Sample, Draws
    <2> QED
      BY <1>1, <2>1, <2>2, SameRows DEF Drawn, Pending
  <1> QED
    BY <1>2, <1>3, <1>4

\* Neither the round nor the round with its token fed waits for its drafts.
Unverified(sp) == ~sp.verify /\ ~[sp EXCEPT !.noFeed = FALSE].verify

LEMMA EogVerify ==
  ASSUME spec \in Round, ~spec.verify, EogStep, phase' = "cleanup"
  PROVE  ~spec'.verify /\ exit' \in {"eog", "early"}
  <1>0. ~(Swallow \/ Poll)
    BY DEF Swallow, Poll
  <1>1. \E ok \in BOOLEAN : \E m, sp :
          Feed(m, sp, ok) /\ LeaveAfterFeed(ok, sp, "eog") /\ Unverified(sp)
    <2>1. CASE EndTurnMatched
      <3> DEFINE sp == [spec EXCEPT !.noFeed = TRUE, !.committed = spec.row + 1]
      <3>1. Unverified(sp)
        BY DEF Round, Unverified
      <3>2. Feed(mem, sp, TRUE) /\ LeaveAfterFeed(TRUE, sp, "eog")
        BY <2>1 DEF EndTurnMatched
      <3> HIDE DEF sp
      <3> QED
        BY <3>1, <3>2
    <2>2. ASSUME NEW ok \in BOOLEAN, EndTurnMismatched(ok)
          PROVE  \E m, sp : Feed(m, sp, ok) /\ LeaveAfterFeed(ok, sp, "eog") /\ Unverified(sp)
      <3> DEFINE sp == [spec EXCEPT !.inProgress = FALSE, !.noFeed = FALSE, !.row = 0,
                                    !.draft = <<>>]
      <3>1. Unverified(sp)
        BY DEF Round, Unverified
      <3>2. Feed(RolledBack(mem), sp, ok) /\ LeaveAfterFeed(ok, sp, "eog")
        BY <2>2 DEF EndTurnMismatched
      <3> HIDE DEF sp
      <3> QED
        BY <3>1, <3>2
    <2>3. ASSUME NEW ok \in BOOLEAN, EndTurnBonus(ok)
          PROVE  \E m, sp : Feed(m, sp, ok) /\ LeaveAfterFeed(ok, sp, "eog") /\ Unverified(sp)
      <3> DEFINE sp == [spec EXCEPT !.bonus = FALSE]
      <3>1. Unverified(sp)
        BY DEF Round, Unverified
      <3>2. Feed(mem, sp, ok) /\ LeaveAfterFeed(ok, sp, "eog")
        BY <2>3 DEF EndTurnBonus
      <3> HIDE DEF sp
      <3> QED
        BY <3>1, <3>2
    <2>4. ASSUME NEW ok \in BOOLEAN, EndTurnPlain(ok)
          PROVE  \E m, sp : Feed(m, sp, ok) /\ LeaveAfterFeed(ok, sp, "eog") /\ Unverified(sp)
      <3>1. Unverified(spec)
        BY DEF Round, Unverified
      <3> QED
        BY <2>4, <3>1 DEF EndTurnPlain
    <2> QED
      BY <1>0, <2>1, <2>2, <2>3, <2>4 DEF EogStep
  <1>2. phase' = "cleanup" /\ exit' \in {"eog", "early"}
    BY <1>1 DEF LeaveAfterFeed
  <1>3. ~spec'.verify
    <2>1. PICK sp : Unverified(sp) /\ (spec' = sp \/ spec' = [sp EXCEPT !.noFeed = FALSE])
      BY <1>1 DEF Feed
    <2> QED
      BY <2>1 DEF Unverified
  <1> QED
    BY <1>2, <1>3
LEMMA EogRows ==
  ASSUME SoundInv, EogStep
  PROVE  RowsRight' /\ Drawn'
  <1>1. /\ phase = "eog" /\ spec \in Round /\ ~spec.verify /\ RowsRight /\ PlaceInv /\ Drawn
    BY DEF SoundInv, PlaceInv, TypeInv, RoundInv, InPlace, EogStep, Swallow, Poll,
           EndTurnMatched, EndTurnMismatched, EndTurnBonus, EndTurnPlain
  <1>2. CASE Swallow \/ Poll
    <2>1. Live /\ phase' = "compare" /\ UNCHANGED <<mem, tracker, rows, spec>>
      BY <1>1, <1>2 DEF Swallow, Poll, Live
    <2>2. cur' \in Dist(tracker)
      BY <1>1, <1>2, RowOfTracker DEF Swallow, Poll, Draws, RowsRight, Drawn
    <2> QED
      BY <1>1, <2>1, <2>2, SameRows DEF Drawn, Pending
  <1>3. CASE ~(Swallow \/ Poll)
    <2>1. phase' = "cleanup"
      BY <1>3 DEF EogStep, EndTurnMatched, EndTurnMismatched, EndTurnBonus, EndTurnPlain,
                  LeaveAfterFeed
    <2>2. ~spec'.verify /\ exit' \in {"eog", "early"}
      BY <1>1, <2>1, EogVerify
    <2> QED
      BY <2>1, <2>2, DeadRows DEF Live, Drawn, Pending
  <1> QED
    BY <1>2, <1>3

\* The comparison: a match keeps the rows of the drafts, up to the last one.
LEMMA CompareRows ==
  ASSUME SoundInv, CompareStep
  PROVE  RowsRight' /\ Drawn'
  <1>1. /\ phase = "compare" /\ spec \in Round /\ ~spec.verify /\ ~spec.noFeed
        /\ RowsRight /\ PlaceInv /\ Drawn /\ MatchedOK /\ RoundInv /\ Live
        /\ phase' = "piece" /\ UNCHANGED <<tracker, rows, cur>> /\ mem.kv \in Seq(Token)
    BY FilledFields
    DEF SoundInv, PlaceInv, TypeInv, RoundInv, DataOK, InPlace, Place, Live, CompareStep,
        CompareBonus, CompareOrigin, CompareVerify, ComparePlain
  <1>2. Drawn'
    BY <1>1 DEF Drawn, Pending
  <1>3. CASE ~spec'.noFeed
    BY <1>1, <1>2, <1>3, DeadRows DEF Live
  <1>4. CASE spec'.noFeed
    <2>1. CASE CompareOrigin
      <3>1. \/ spec' = [spec EXCEPT !.origin = FALSE, !.noFeed = TRUE, !.verify = TRUE,
                                    !.inProgress = TRUE, !.row = 0,
                                    !.rows = Len(spec.draft) - 1, !.committed = 0]
            \/ spec' = [spec EXCEPT !.origin = FALSE, !.draft = <<>>]
        BY <2>1 DEF CompareOrigin
      <3>2. spec'.verify /\ spec'.inProgress
        BY <1>1, <1>4, <3>1 DEF Round
      <3> QED
        BY <1>1, <1>2, <3>2 DEF RowsRight
    <2>2. CASE CompareVerify
      <3>1. cur = spec.draft[spec.row + 2]
        <4> SUFFICES ASSUME cur # spec.draft[spec.row + 2] PROVE FALSE
          OBVIOUS
        <4>1. spec' = [spec EXCEPT !.inProgress = FALSE, !.noFeed = FALSE,
                                   !.row = 0, !.draft = <<>>]
          BY <2>2 DEF CompareVerify
        <4> QED
          BY <1>1, <1>4, <4>1 DEF Round
      <3>2. /\ spec.inProgress /\ UNCHANGED mem
            /\ spec' = [spec EXCEPT !.noFeed = TRUE, !.committed = spec.row + 1,
                                    !.row = spec.row + 1,
                                    !.inProgress = spec.row + 1 < spec.rows,
                                    !.bonus = spec.row + 1 >= spec.rows]
        BY <2>2, <3>1 DEF CompareVerify, VerifyLeft
      <3>3. \A i \in 1..DraftLen : rows[i] = Prefix(mem.kv, Len(mem.kv) - DraftLen + i)
        BY <1>1, <3>2 DEF RowsRight
      <3>4. rows[Len(rows)] = mem.kv
        BY <1>1, <3>2, <3>3, LastRow DEF MatchedOK
      <3> QED
        BY <1>1, <1>2, <3>2, <3>3, <3>4 DEF RowsRight
    <2>3. CASE CompareBonus \/ ComparePlain
      <3>1. spec' = [spec EXCEPT !.bonus = FALSE, !.complete = TRUE] \/ spec' = spec
        BY <2>3 DEF CompareBonus, ComparePlain
      <3> QED
        BY <1>1, <1>4, <3>1 DEF Round
    <2> QED
      BY <2>1, <2>2, <2>3 DEF CompareStep
  <1> QED
    BY <1>3, <1>4

\* The piece: a decoded token leaves the row after the tracker, a matched one the
\* rows as they are; d1 was drawn after the context its cell is still missing in.
LEMMA PieceRows ==
  ASSUME ~HasThink, SoundInv, PieceStep
  PROVE  RowsRight' /\ Drawn'
  <1>1. /\ spec \in Round /\ DataOK /\ mem \in Filled /\ RoundInv /\ MatchedOK /\ Place
        /\ RowsRight /\ Drawn
    BY DEF SoundInv, PlaceInv, TypeInv, RoundInv, DataOK
  <1>2. PICK ok \in BOOLEAN : CompleteCall(ok) \/ Piece(ok)
    BY DEF PieceStep, Tripwire
  <1>3. /\ phase = "piece" /\ phase' \in {"post", "cleanup"} /\ Feed(mem, spec, ok)
        /\ phase' = "post" => ok \/ spec.noFeed
        /\ phase' = "cleanup" => exit' # "interrupted"
    BY <1>2 DEF CompleteCall, Piece, LeaveAfterFeed
  <1>4. CASE spec.noFeed
    <2>1. mem' = mem /\ rows' = rows /\ spec' = [spec EXCEPT !.noFeed = FALSE]
      BY <1>3, <1>4 DEF Feed
    <2>2. /\ spec'.inProgress = spec.inProgress /\ spec'.verify = spec.verify
          /\ spec'.draft = spec.draft
      BY <1>1, <2>1 DEF Round
    <2>3. RowsRight'
      BY <1>1, <1>3, <1>4, <2>1, <2>2, SameRows, DeadRows DEF Live
    <2>4. Drawn'
      <3>1. CASE ~spec.verify
        BY <1>3, <2>2, <3>1 DEF Drawn, Pending
      <3>2. CASE spec.verify
        <4>1. tracker = mem.kv /\ cur = spec.draft[1]
          BY <1>1, <1>3, <3>2 DEF Place, Level
        <4> QED
          BY <1>1, <1>3, <2>1, <2>2, <4>1 DEF Drawn, Pending
      <3> QED
        BY <3>1, <3>2
    <2> QED
      BY <2>3, <2>4
  <1>5. CASE ~spec.noFeed
    <2>1. ~spec.inProgress /\ ~spec.verify
      BY <1>1, <1>3, <1>5 DEF MatchedOK, RoundInv, OneState
    <2>2. spec' = spec
      BY <1>3, <1>5 DEF Feed
    <2>3. Drawn'
      BY <1>3, <2>1, <2>2 DEF Drawn, Pending
    <2>4. CASE phase' = "cleanup"
      BY <1>3, <2>3, <2>4, DeadRows DEF Live
    <2>5. CASE phase' = "post"
      <3>1. Level(mem, tracker, npast) /\ ok
        BY <1>1, <1>3, <1>5, <2>1, <2>5 DEF Place
      <3>2. Level(mem', tracker', npast')
        BY <1>1, <1>3, <1>5, <3>1, FeedLevels
      <3>3. rows' = <<State(mem')>>
        BY <1>3, <1>5, <3>1 DEF Feed
      <3>4. rows'[Len(rows')] = mem'.kv
        BY <3>2, <3>3 DEF Level, Coherent
      <3> QED
        BY <2>1, <2>2, <2>3, <2>5, <3>4 DEF RowsRight
    <2> QED
      BY <1>3, <2>4, <2>5
  <1> QED
    BY <1>4, <1>5

\* The steps after the feed: the decoded drafts have one row each.
LEMMA PostRows ==
  ASSUME SoundInv, PostStep
  PROVE  RowsRight' /\ Drawn'
  <1>1. /\ spec \in Round /\ DataOK /\ mem \in Filled /\ RoundInv /\ MatchedOK /\ Place
        /\ RowsRight /\ Drawn /\ mem.kv \in Seq(Token)
    BY FilledFields DEF SoundInv, PlaceInv, TypeInv, RoundInv, DataOK
  <1>2. AfterPost \in {"hook", "top"}
    BY DEF AfterPost
  <1>3. CASE VerifyDecode
    <2>1. /\ spec.verify /\ phase = "post" /\ phase' = AfterPost
          /\ mem' = Decode(mem, spec.draft)
          /\ rows' = [i \in 1..Len(spec.draft) |-> State(mem) \o Prefix(spec.draft, i)]
      BY <1>3 DEF VerifyDecode
    <2>2. /\ Behind(mem, tracker, npast, spec.draft[1]) /\ spec.draft \in Drafts
          /\ spec.rows > 0
      <3>1. spec.inProgress /\ spec.row < spec.rows /\ spec.row = 0
        BY <1>1, <2>1 DEF RoundInv, OneState, RowsLeft, Place
      <3>2. spec.rows \in Nat
        BY <1>1, RoundFields, RowArithmetic
      <3> QED
        BY <1>1, <2>1, <3>1, <3>2 DEF Place, MatchedOK
    <2>3. spec' = [spec EXCEPT !.verify = FALSE]
      BY <1>3, <2>2 DEF VerifyDecode
    <2>4. ~spec'.verify /\ spec'.inProgress
      BY <1>1, <2>1, <2>3 DEF Round, RoundInv, OneState
    <2>5. spec.draft \in Seq(Token) /\ Len(spec.draft) = DraftLen /\ State(mem) = mem.kv
      BY <2>2, DraftLength DEF Behind, Coherent
    <2>6. mem'.kv = mem.kv \o spec.draft
      BY <1>1, <2>1, <2>5, DecodeFilled
    <2>7. ASSUME NEW i \in 1..DraftLen
          PROVE  rows'[i] = Prefix(mem'.kv, Len(mem'.kv) - DraftLen + i)
      <3>1. i \in 0..Len(spec.draft) /\ i \in 1..Len(spec.draft)
        BY <2>5, Lengths
      <3>2. Len(mem'.kv) = Len(mem.kv) + DraftLen
        BY <1>1, <2>5, <2>6, ConcatProperties
      <3>3. Len(mem'.kv) - DraftLen + i = Len(mem.kv) + i
        BY <1>1, <3>2, Lengths
      <3>4. Prefix(mem.kv \o spec.draft, Len(mem.kv) + i) = mem.kv \o Prefix(spec.draft, i)
        BY <1>1, <2>5, <3>1, PrefixOfConcat
      <3>5. rows'[i] = mem.kv \o Prefix(spec.draft, i)
        BY <2>1, <2>5, <3>1
      <3> QED
        BY <2>6, <3>3, <3>4, <3>5
    <2>8. RowsRight'
      BY <1>2, <2>1, <2>4, <2>7 DEF RowsRight
    <2>9. Drawn'
      BY <1>2, <2>1, <2>4 DEF Drawn, Pending
    <2> QED
      BY <2>8, <2>9
  <1>4. ASSUME NEW n \in 0..DraftLen, VerifyFail(n)
        PROVE  RowsRight' /\ Drawn'
    <2>1. /\ phase' = "cleanup" /\ exit' = "early"
          /\ spec' = [spec EXCEPT !.verify = FALSE, !.inProgress = FALSE, !.bonus = FALSE,
                                  !.complete = FALSE, !.draft = <<>>]
      BY <1>4 DEF VerifyFail
    <2>2. ~spec'.verify
      BY <1>1, <2>1 DEF Round
    <2> QED
      BY <2>1, <2>2, DeadRows DEF Live, Drawn, Pending
  <1>5. CASE CompleteRound \/ StartRound \/ NoNewRound \/ ToolStartHook
    <2>1. /\ phase \in {"post", "hook"} /\ phase' \in {"hook", "top"} /\ ~spec.verify
          /\ rows' = rows
      BY <1>1, <1>2, <1>5
      DEF CompleteRound, StartRound, NoNewRound, ToolStartHook, RoundInv, InPlace
    <2>2. mem'.kv = mem.kv
      BY <1>1, <1>5, SaveKeeps DEF CompleteRound, StartRound, NoNewRound, ToolStartHook
    <2>3. spec'.inProgress = spec.inProgress /\ spec'.verify = spec.verify
      BY <1>1, <1>5 DEF CompleteRound, StartRound, NoNewRound, ToolStartHook, Round
    <2> QED
      BY <1>1, <2>1, <2>2, <2>3, SameRows DEF Live, Drawn, Pending
  <1> QED
    BY <1>3, <1>4, <1>5 DEF PostStep

\* The cleanup cuts the batch to the row after the last committed draft.
LEMMA CleanupRows ==
  ASSUME SoundInv, PlaceInv', CleanupStep
  PROVE  RowsRight' /\ Drawn'
  <1>1. /\ spec \in Round /\ DataOK /\ mem \in Filled /\ RoundInv /\ MatchedOK /\ Place
        /\ RowsRight /\ phase = "cleanup" /\ phase' = "done" /\ mem.kv \in Seq(Token)
        /\ ~spec.noFeed /\ ~redecoded'
    BY FilledFields
    DEF SoundInv, PlaceInv, TypeInv, RoundInv, DataOK, CleanupStep, CleanupIdle,
        CleanupGiveCell, CleanupDropCell, CleanupUnfed, CleanupRollback, CleanupClose,
        Settled, Place
  <1>2. ~spec'.verify /\ ~spec'.inProgress /\ ~spec'.noFeed
    <2>1. spec' = NoRound \/ (~RoundOpen /\ spec' = spec)
      BY DEF CleanupStep, CleanupIdle, CleanupGiveCell, CleanupDropCell, CleanupUnfed,
             CleanupRollback, CleanupClose, Settled
    <2> QED
      BY <1>1, <2>1 DEF NoRound, RoundOpen
  <1>3. Drawn'
    BY <1>1, <1>2 DEF Drawn, Pending
  <1>4. SUFFICES ASSUME exit' = "interrupted", rows' # <<>>
                 PROVE  rows'[Len(rows')] = mem'.kv
    BY <1>1, <1>2, <1>3 DEF RowsRight, Live
  <1>5. exit = "interrupted" /\ ~spec.verify /\ Live
    BY <1>1, <1>4
    DEF CleanupStep, CleanupIdle, CleanupGiveCell, CleanupDropCell, CleanupUnfed,
        CleanupRollback, CleanupClose, RowsRight, Live
  <1>6. Level(mem', tracker', npast')
    BY <1>2 DEF PlaceInv, Place
  <1>7. CASE CleanupRollback
    <2>1. /\ spec.inProgress /\ UNCHANGED <<tracker, npast>>
          /\ rows' = IF SeqRmOk(mem, npast) THEN Prefix(rows, spec.committed + 1) ELSE <<>>
      BY <1>7 DEF CleanupRollback
    <2>2. rows' = Prefix(rows, spec.committed + 1)
      BY <1>4, <2>1
    <2>3. /\ spec.committed \in Nat /\ spec.committed < DraftLen /\ DraftLen \in Nat
          /\ spec.rows = DraftLen - 1 /\ Len(rows) = DraftLen /\ rows \in Seq(RsState)
          /\ Ahead(mem, tracker, npast, spec.rows - spec.committed)
      BY <1>1, <1>5, <2>1, RoundFields, Lengths DEF Place, MatchedOK, DataOK
    <2>4. spec.committed + 1 \in 0..Len(rows) /\ spec.committed + 1 \in 1..DraftLen
          /\ spec.committed + 1 \in 1..(spec.committed + 1)
      BY <2>3
    <2>5. /\ Len(rows') = spec.committed + 1
          /\ rows'[spec.committed + 1] = rows[spec.committed + 1]
      <3> HIDE DEF RsState
      <3> QED
        BY <2>2, <2>3, <2>4, PrefixType
    <2>6. rows[spec.committed + 1]
            = Prefix(mem.kv, Len(mem.kv) - DraftLen + (spec.committed + 1))
      BY <1>1, <1>5, <2>1, <2>4 DEF RowsRight
    <2>7. /\ npast \in Nat /\ tracker = Prefix(mem.kv, npast)
          /\ Len(mem.kv) = npast + ((DraftLen - 1) - spec.committed)
      BY <2>3 DEF Ahead
    <2>8. Len(mem.kv) - DraftLen + (spec.committed + 1) = npast
      <3>1. spec.committed \in Nat /\ DraftLen \in Nat
        BY <2>3
      <3> QED
        BY <2>7, <3>1
    <2> QED
      BY <1>6, <2>1, <2>5, <2>6, <2>7, <2>8 DEF Level
  <1>8. CASE ~CleanupRollback
    <2>1. UNCHANGED <<mem, tracker, npast, rows>>
      BY <1>5, <1>8
      DEF CleanupStep, CleanupIdle, CleanupGiveCell, CleanupDropCell, CleanupUnfed,
          CleanupClose
    <2>2. CASE ~spec.inProgress
      BY <1>1, <1>4, <1>5, <2>1, <2>2 DEF RowsRight
    <2>3. CASE spec.inProgress
      <3>1. \A i \in 1..DraftLen : rows[i] = Prefix(mem.kv, Len(mem.kv) - DraftLen + i)
        BY <1>1, <1>5, <2>3 DEF RowsRight
      <3>2. rows[Len(rows)] = mem.kv
        BY <1>1, <1>5, <2>3, <3>1, LastRow DEF MatchedOK
      <3> QED
        BY <2>1, <3>2
    <2> QED
      BY <2>2, <2>3
  <1> QED
    BY <1>7, <1>8

LEMMA SoundStep ==
  ASSUME DraftLen > 1, ~HasThink, SoundInv, [Next]_vars
  PROVE  SoundInv'
  <1>1. PlaceInv'
    BY PlaceStep DEF SoundInv
  <1>2. CASE GiveUp \/ Interrupt \/ Sample \/ Resume
    BY <1>1, <1>2, TopRows DEF SoundInv
  <1>3. CASE EogStep
    BY <1>1, <1>3, EogRows DEF SoundInv
  <1>4. CASE CompareStep
    BY <1>1, <1>4, CompareRows DEF SoundInv
  <1>5. CASE PieceStep
    BY <1>1, <1>5, PieceRows DEF SoundInv
  <1>6. CASE PostStep
    BY <1>1, <1>6, PostRows DEF SoundInv
  <1>7. CASE CleanupStep
    BY <1>1, <1>7, CleanupRows DEF SoundInv
  <1>8. CASE UNCHANGED vars
    BY <1>1, <1>8 DEF vars, SoundInv, RowsRight, Live, Drawn, Pending
  <1> QED
    BY <1>2, <1>3, <1>4, <1>5, <1>6, <1>7, <1>8 DEF Next, Generate

LEMMA SoundInit == Init => SoundInv
  BY TypeInit, PlaceInit, RowsInit DEF SoundInv, PlaceInv

\* Without thinking tags every token, of a generation or of its resumption after
\* an interrupt, is drawn from logits computed for exactly the tracker.
THEOREM SamplesTheTracker ==
  ASSUME DraftLen > 1, ~HasThink
  PROVE  Spec => []SampleSound
  <1>1. SoundInv => SampleSound
    BY RowOfTracker DEF SoundInv, SampleSound
  <1> QED
    BY <1>1, SoundInit, SoundStep, PTL DEF Spec
-----------------------------------------------------------------------------
\* The refinement mapping, and a step of it: a stutter or one drawn token.
Committed == IF Len(tracker) > Len(mem.kv) THEN mem.kv ELSE tracker

Grows ==
    Committed' = Committed \/ \E t \in Dist(Committed) : Committed' = Append(Committed, t)

\* Only d1 can be in the tracker without being in the cache.
Where ==
    /\ Pending => Committed = mem.kv /\ tracker = Append(mem.kv, spec.draft[1])
    /\ ~Pending => Committed = tracker

LEMMA WhereIs ==
  ASSUME PlaceInv
  PROVE  Where
  <1>1. /\ spec \in Round /\ RoundInv /\ MatchedOK /\ Place /\ mem.kv \in Seq(Token)
        /\ tracker \in Seq(Token)
    BY FilledFields DEF PlaceInv, TypeInv, RoundInv, DataOK
  <1>2. CASE Pending
    <2>1. Behind(mem, tracker, npast, spec.draft[1]) /\ spec.draft[1] \in Token
      BY <1>1, <1>2, Lengths DEF Pending, Place, MatchedOK, Drafts
    <2>2. /\ tracker = Append(mem.kv, spec.draft[1]) /\ Len(tracker) = Len(mem.kv) + 1
      BY <1>1, <2>1, AppendIsConcat, AppendProperties DEF Behind
    <2> QED
      BY <1>1, <1>2, <2>2 DEF Where, Committed
  <1>3. CASE ~Pending
    <2>1. Level(mem, tracker, npast) \/ \E n : Ahead(mem, tracker, npast, n)
      BY <1>1, <1>3 DEF Place, Pending, MatchedOK, RoundInv, OneState
    <2>2. Len(tracker) <= Len(mem.kv)
      <3>1. CASE Level(mem, tracker, npast)
        BY <1>1, <3>1 DEF Level
      <3>2. ASSUME NEW n, Ahead(mem, tracker, npast, n)
            PROVE  Len(tracker) <= Len(mem.kv)
        <4>1. /\ n \in Nat /\ npast \in Nat /\ Len(mem.kv) = npast + n
              /\ tracker = Prefix(mem.kv, npast)
          BY <3>2, Lengths DEF Ahead
        <4>2. npast \in 0..Len(mem.kv)
          BY <4>1
        <4>3. Len(tracker) = npast
          BY <1>1, <4>1, <4>2, PrefixType
        <4> QED
          BY <4>1, <4>3
      <3> QED
        BY <2>1, <3>1, <3>2
    <2>3. ~(Len(tracker) > Len(mem.kv))
      BY <1>1, <2>2
    <2> QED
      BY <1>3, <2>3 DEF Where, Committed
  <1> QED
    BY <1>2, <1>3

LEMMA WhereAlways == PlaceInv => Where
  BY WhereIs

\* A feed appends the token in hand, or fails and leaves a level tracker alone.
LEMMA FeedGrows ==
  ASSUME DataOK, NEW m \in Filled, NEW sp, NEW ok \in BOOLEAN, Feed(m, sp, ok),
         sp.noFeed \/ Level(m, tracker, npast)
  PROVE  tracker' = tracker \/ tracker' = Append(tracker, cur)
  <1>1. CASE sp.noFeed \/ ok
    BY <1>1 DEF Feed
  <1>2. CASE ~sp.noFeed /\ ~ok
    <2>1. /\ tracker = m.kv /\ m.kv \in Seq(Token)
          /\ tracker' = IF Len(tracker) + 1 > Synced(m)
                        THEN Prefix(tracker, Synced(m)) ELSE Append(tracker, cur)
      BY <1>2, FilledFields DEF Feed, Level
    <2>2. Prefix(tracker, Synced(m)) = tracker /\ Len(tracker) + 1 > Synced(m)
      BY <2>1, PrefixAll DEF Synced
    <2> QED
      BY <2>1, <2>2
  <1> QED
    BY <1>1, <1>2

LEMMA EogGrows ==
  ASSUME SoundInv, Where, Where', EogStep
  PROVE  Grows
  <1>1. /\ phase = "eog" /\ spec \in Round /\ ~spec.verify /\ ~spec.noFeed /\ Place /\ Drawn
        /\ DataOK /\ mem \in Filled /\ RoundInv
    BY DEF SoundInv, PlaceInv, TypeInv, RoundInv, DataOK, InPlace, Place, EogStep, Swallow,
           Poll, EndTurnMatched, EndTurnMismatched, EndTurnBonus, EndTurnPlain
  <1>2. Committed = tracker /\ cur \in Dist(tracker)
    BY <1>1 DEF Where, Pending, Drawn
  <1>3. CASE Swallow \/ Poll
    BY <1>3 DEF Swallow, Poll, Grows, Committed
  <1>4. CASE ~(Swallow \/ Poll)
    <2>1. tracker' = tracker \/ tracker' = Append(tracker, cur)
      <3>1. CASE EndTurnMatched
        <4> DEFINE sp == [spec EXCEPT !.noFeed = TRUE, !.committed = spec.row + 1]
        <4>1. Feed(mem, sp, TRUE) /\ sp.noFeed
          BY <1>1, <3>1 DEF EndTurnMatched, Round
        <4> HIDE DEF sp
        <4> QED
          BY <1>1, <4>1, FeedGrows
      <3>2. ASSUME NEW ok \in BOOLEAN, EndTurnMismatched(ok)
            PROVE  tracker' = tracker \/ tracker' = Append(tracker, cur)
        <4>1. spec.inProgress /\ \E sp : Feed(RolledBack(mem), sp, ok)
          BY <3>2 DEF EndTurnMismatched, VerifyLeft
        <4>2. Ahead(mem, tracker, npast, spec.rows - spec.committed)
          BY <1>1, <4>1 DEF Place
        <4>3. RolledBack(mem) \in Filled /\ Level(RolledBack(mem), tracker, npast)
          BY <1>1, <4>2, RollbackLevels
        <4> QED
          BY <1>1, <4>1, <4>3, FeedGrows
      <3>3. ASSUME NEW ok \in BOOLEAN, EndTurnBonus(ok) \/ EndTurnPlain(ok)
            PROVE  tracker' = tracker \/ tracker' = Append(tracker, cur)
        <4>1. \E sp : Feed(mem, sp, ok)
          BY <3>3 DEF EndTurnBonus, EndTurnPlain
        <4>2. ~spec.inProgress
          BY <1>1, <3>3 DEF EndTurnBonus, EndTurnPlain, VerifyLeft, RoundInv, OneState, RowsLeft
        <4>3. Level(mem, tracker, npast)
          BY <1>1, <4>2 DEF Place
        <4> QED
          BY <1>1, <4>1, <4>3, FeedGrows
      <3> QED
        BY <1>4, <3>1, <3>2, <3>3 DEF EogStep
    <2>2. phase' = "cleanup"
      BY <1>4 DEF EogStep, EndTurnMatched, EndTurnMismatched, EndTurnBonus, EndTurnPlain,
                  LeaveAfterFeed
    <2>3. ~spec'.verify
      BY <1>1, <2>2, EogVerify
    <2>4. Committed' = tracker'
      BY <2>3 DEF Where, Pending
    <2> QED
      BY <1>2, <2>1, <2>4 DEF Grows
  <1> QED
    BY <1>3, <1>4

LEMMA PieceGrows ==
  ASSUME ~HasThink, SoundInv, Where, Where', PieceStep
  PROVE  Grows
  <1>1. /\ spec \in Round /\ DataOK /\ mem \in Filled /\ RoundInv /\ MatchedOK /\ Place
        /\ Drawn
    BY DEF SoundInv, PlaceInv, TypeInv, RoundInv, DataOK
  <1>2. PICK ok \in BOOLEAN : CompleteCall(ok) \/ Piece(ok)
    BY DEF PieceStep, Tripwire
  <1>3. /\ phase = "piece" /\ phase' # "piece" /\ Feed(mem, spec, ok)
    BY <1>2 DEF CompleteCall, Piece, LeaveAfterFeed
  <1>4. Committed = tracker /\ cur \in Dist(tracker)
    BY <1>1, <1>3 DEF Where, Pending, Drawn
  <1>5. spec'.verify = spec.verify
    BY <1>1, <1>3, FeedData
  <1>6. CASE spec.verify
    <2>1. spec.noFeed \/ ~spec.noFeed
      OBVIOUS
    <2>2. mem.kv = tracker /\ spec.noFeed
      BY <1>1, <1>3, <1>6 DEF Place, Level, MatchedOK, RoundInv, OneState
    <2>3. mem' = mem
      BY <1>3, <2>2 DEF Feed
    <2>4. Committed' = mem'.kv
      BY <1>3, <1>5, <1>6 DEF Where, Pending
    <2> QED
      BY <1>4, <2>2, <2>3, <2>4 DEF Grows
  <1>7. CASE ~spec.verify
    <2>1. Committed' = tracker'
      BY <1>5, <1>7 DEF Where, Pending
    <2>2. spec.noFeed \/ Level(mem, tracker, npast)
      BY <1>1, <1>3 DEF Place, MatchedOK
    <2>3. tracker' = tracker \/ tracker' = Append(tracker, cur)
      BY <1>1, <1>3, <2>2, FeedGrows
    <2> QED
      BY <1>4, <2>1, <2>3 DEF Grows
  <1> QED
    BY <1>6, <1>7

\* Taking back the last token.
LEMMA PopAppend ==
  ASSUME NEW s \in Seq(Token), NEW t \in Token
  PROVE  Prefix(Append(s, t), Len(Append(s, t)) - 1) = s
  <1>1. /\ Append(s, t) \in Seq(Token) /\ Len(Append(s, t)) = Len(s) + 1
        /\ \A i \in 1..Len(s) : Append(s, t)[i] = s[i]
    BY AppendProperties
  <1>2. Len(s) \in 0..Len(Append(s, t)) /\ Len(Append(s, t)) - 1 = Len(s)
    BY <1>1
  <1>3. /\ Prefix(Append(s, t), Len(s)) \in Seq(Token)
        /\ Len(Prefix(Append(s, t), Len(s))) = Len(s)
        /\ \A i \in 1..Len(s) : Prefix(Append(s, t), Len(s))[i] = Append(s, t)[i]
    BY <1>1, <1>2, PrefixType
  <1> QED
    BY <1>1, <1>2, <1>3, SeqEqual

\* d1 joins the context when its cell is written, or leaves the tracker.
LEMMA PendingGrows ==
  ASSUME SoundInv, Where, Where', Pending, ~Pending',
         tracker' = tracker \/ tracker' = Prefix(tracker, Len(tracker) - 1)
  PROVE  Grows
  <1>1. /\ Committed = mem.kv /\ tracker = Append(mem.kv, spec.draft[1])
        /\ Committed' = tracker' /\ spec.draft[1] \in Dist(mem.kv)
    BY DEF Where, SoundInv, Drawn
  <1>2. CASE tracker' = tracker
    BY <1>1, <1>2 DEF Grows
  <1>3. CASE tracker' = Prefix(tracker, Len(tracker) - 1)
    <2>1. mem.kv \in Seq(Token) /\ spec.draft[1] \in Token
      BY FilledFields, Lengths
      DEF SoundInv, PlaceInv, TypeInv, DataOK, MatchedOK, Pending, Drafts
    <2>2. Prefix(Append(mem.kv, spec.draft[1]), Len(Append(mem.kv, spec.draft[1])) - 1)
            = mem.kv
      BY <2>1, PopAppend
    <2> QED
      BY <1>1, <1>3, <2>2 DEF Grows
  <1> QED
    BY <1>2, <1>3

LEMMA PostGrows ==
  ASSUME SoundInv, Where, Where', PostStep
  PROVE  Grows
  <1>1. /\ spec \in Round /\ RoundInv /\ phase \in {"post", "hook"} /\ mem \in Filled
    BY DEF SoundInv, PlaceInv, TypeInv, RoundInv, DataOK, PostStep, VerifyDecode, VerifyFail,
           CompleteRound, StartRound, NoNewRound, ToolStartHook
  <1>2. CASE VerifyDecode \/ \E n \in 0..DraftLen : VerifyFail(n)
    <2>1. /\ spec.verify
          /\ tracker' = tracker \/ tracker' = Prefix(tracker, Len(tracker) - 1)
      BY <1>2 DEF VerifyDecode, VerifyFail
    <2>2. ~spec'.verify
      BY <1>1, <1>2 DEF VerifyDecode, VerifyFail, Round
    <2> QED
      BY <1>1, <2>1, <2>2, PendingGrows DEF Pending
  <1>3. CASE CompleteRound \/ StartRound \/ NoNewRound \/ ToolStartHook
    <2>1. tracker' = tracker /\ mem'.kv = mem.kv
      BY <1>1, <1>3, SaveKeeps DEF CompleteRound, StartRound, NoNewRound, ToolStartHook
    <2> QED
      BY <2>1 DEF Grows, Committed
  <1> QED
    BY <1>2, <1>3 DEF PostStep

LEMMA CleanupGrows ==
  ASSUME SoundInv, Where, Where', CleanupStep
  PROVE  Grows
  <1>1. phase = "cleanup" /\ spec \in Round
    BY DEF SoundInv, PlaceInv, TypeInv, RoundInv, CleanupStep, CleanupIdle, CleanupGiveCell,
           CleanupDropCell, CleanupUnfed, CleanupRollback, CleanupClose
  <1>2. CASE CleanupIdle \/ CleanupUnfed \/ CleanupClose
    <2>1. UNCHANGED <<mem, tracker>>
      BY <1>2 DEF CleanupIdle, CleanupUnfed, CleanupClose
    <2> QED
      BY <2>1 DEF Grows, Committed
  <1>3. CASE CleanupGiveCell \/ CleanupDropCell
    <2>1. /\ spec.verify /\ spec' = NoRound
          /\ tracker' = tracker \/ tracker' = Prefix(tracker, Len(tracker) - 1)
      BY <1>3 DEF CleanupGiveCell, CleanupDropCell, Settled
    <2> QED
      BY <1>1, <2>1, PendingGrows DEF Pending, NoRound
  <1>4. CASE CleanupRollback
    <2>1. ~spec.verify /\ spec' = NoRound /\ tracker' = tracker
      BY <1>4 DEF CleanupRollback, Settled
    <2> QED
      BY <2>1 DEF Where, Pending, NoRound, Grows
  <1> QED
    BY <1>2, <1>3, <1>4 DEF CleanupStep

LEMMA GrowsStep ==
  ASSUME ~HasThink, SoundInv, Where, Where', [Next]_vars
  PROVE  Grows
  <1>1. CASE GiveUp \/ Interrupt \/ Sample \/ Resume \/ UNCHANGED vars
    BY <1>1 DEF GiveUp, Interrupt, Sample, Resume, vars, Grows, Committed
  <1>2. CASE CompareStep
    <2>1. phase = "compare" /\ phase' = "piece" /\ tracker' = tracker
      BY <1>2 DEF CompareStep, CompareBonus, CompareOrigin, CompareVerify, ComparePlain
    <2>2. ~spec.verify
      BY <2>1 DEF SoundInv, PlaceInv, TypeInv, RoundInv, InPlace
    <2> QED
      BY <2>1, <2>2 DEF Where, Pending, Grows
  <1> QED
    BY <1>1, <1>2, EogGrows, PieceGrows, PostGrows, CleanupGrows DEF Next, Generate

\* Without thinking tags a generation implements plain decoding: whatever drafts
\* the speculator proposes, and whatever fails, the committed context grows one
\* token at a time, each drawn from the distribution for what is before it.
THEOREM SpeculationInvisible ==
  ASSUME DraftLen > 1, ~HasThink
  PROVE  Spec => ImplementsPlainDecoding
  <1>1. Init => Plain!Init
    <2> SUFFICES ASSUME Init PROVE Plain!Init
      OBVIOUS
    <2>1. tracker \in Seq(Token) /\ mem.kv \in Seq(Token)
      BY TypeInit, FilledFields DEF TypeInv, DataOK
    <2> QED
      BY <2>1 DEF Plain!Init
  <1>2. Grows => [Plain!Next]_(IF Len(tracker) > Len(mem.kv) THEN mem.kv ELSE tracker)
    BY DEF Grows, Committed, Plain!Next, Plain!Commit
  <1>3. SoundInv => PlaceInv
    BY DEF SoundInv
  <1>4. SoundInv /\ Where /\ Where' /\ [Next]_vars => Grows
    BY GrowsStep
  <1> QED
    BY <1>1, <1>2, <1>3, <1>4, SoundInit, SoundStep, WhereAlways, PTL
    DEF Spec, ImplementsPlainDecoding, Plain!Spec
-----------------------------------------------------------------------------
(***************************************************************************)
(* The checkpoint the FUNC_START hook saves during a generation without    *)
(* thinking tags: it is the recurrent state of the committed tokens up to  *)
(* the rollback target, and the rest of the generation never rewrites      *)
(* them.  Carried along: no checkpoint before the hook ran, plane 0 is the *)
(* recurrent state when it runs, and every rollback, failed feed and       *)
(* dropped draft leaves the target inside tracker and cache.               *)
(***************************************************************************)
NotOpen == tool # "open" => mem.stack = <<>>

AtHook ==
    /\ phase = "hook" => tool = "pending" /\ ~spec.verify
    /\ phase = "hook" \/ (phase = "post" /\ ~spec.verify) => mem.rsIdx = 0

\* The context t still begins with the tokens up to the rollback target.
Covers(t) == mark <= Len(t) /\ Prefix(t, mark) = Prefix(tracker, mark)

Held ==
    mem.stack # <<>> => /\ mark <= Len(tracker) /\ mark <= Len(mem.kv) /\ mark <= npast
                        /\ mem.stack = <<Prefix(tracker, mark)>>

HookInv == NotOpen /\ AtHook /\ Held

\* A step that keeps the checkpoint and what it stands for.
KeepsMark ==
    /\ mem'.stack = mem.stack
    /\ mem.stack # <<>> => Covers(tracker') /\ mark <= Len(mem'.kv) /\ mark <= npast'
-----------------------------------------------------------------------------
\* A cut that is not before the target, and a longer context, still cover it.
LEMMA CutCovers ==
  ASSUME tracker \in Seq(Token), mark \in Nat, NEW n \in 0..Len(tracker), mark <= n
  PROVE  Covers(Prefix(tracker, n))
  <1>1. mark \in 0..n /\ mark \in 0..Len(tracker)
    OBVIOUS
  <1>2. /\ Prefix(tracker, n) \in Seq(Token) /\ Len(Prefix(tracker, n)) = n
        /\ \A i \in 1..n : Prefix(tracker, n)[i] = tracker[i]
    BY PrefixType
  <1>3. /\ Prefix(Prefix(tracker, n), mark) \in Seq(Token)
        /\ Len(Prefix(Prefix(tracker, n), mark)) = mark
        /\ \A i \in 1..mark : Prefix(Prefix(tracker, n), mark)[i] = Prefix(tracker, n)[i]
    BY <1>1, <1>2, PrefixType
  <1>4. /\ Prefix(tracker, mark) \in Seq(Token) /\ Len(Prefix(tracker, mark)) = mark
        /\ \A i \in 1..mark : Prefix(tracker, mark)[i] = tracker[i]
    BY <1>1, PrefixType
  <1>5. Prefix(Prefix(tracker, n), mark) = Prefix(tracker, mark)
    BY <1>1, <1>2, <1>3, <1>4, SeqEqual
  <1> QED
    BY <1>1, <1>2, <1>5 DEF Covers

LEMMA AppendCovers ==
  ASSUME tracker \in Seq(Token), mark \in Nat, mark <= Len(tracker), NEW t \in Token
  PROVE  Covers(Append(tracker, t))
  <1>1. /\ Append(tracker, t) \in Seq(Token) /\ Len(Append(tracker, t)) = Len(tracker) + 1
        /\ \A i \in 1..Len(tracker) : Append(tracker, t)[i] = tracker[i]
    BY AppendProperties
  <1>2. mark \in 0..Len(tracker) /\ mark \in 0..Len(Append(tracker, t))
    BY <1>1
  <1>3. /\ Prefix(Append(tracker, t), mark) \in Seq(Token)
        /\ Len(Prefix(Append(tracker, t), mark)) = mark
        /\ \A i \in 1..mark : Prefix(Append(tracker, t), mark)[i] = Append(tracker, t)[i]
    BY <1>1, <1>2, PrefixType
  <1>4. /\ Prefix(tracker, mark) \in Seq(Token) /\ Len(Prefix(tracker, mark)) = mark
        /\ \A i \in 1..mark : Prefix(tracker, mark)[i] = tracker[i]
    BY <1>2, PrefixType
  <1>5. Prefix(Append(tracker, t), mark) = Prefix(tracker, mark)
    BY <1>1, <1>2, <1>3, <1>4, SeqEqual
  <1> QED
    BY <1>1, <1>2, <1>5 DEF Covers

\* Decodes and rollbacks leave the checkpoint stack alone.
LEMMA StackKept ==
  ASSUME NEW m \in Filled, NEW toks \in Seq(Token), NEW p \in Nat
  PROVE  /\ Decode(m, toks).stack = m.stack /\ Len(Decode(m, toks).kv) >= Len(m.kv)
         /\ SeqRm(m, p).stack = m.stack
         /\ Len(SeqRm(m, p).kv) >= Len(m.kv) \/ Len(SeqRm(m, p).kv) >= p
  <1>1. m.kv \in Seq(Token)
    BY FilledFields
  <1>2. Decode(m, toks).stack = m.stack /\ SeqRm(m, p).stack = m.stack
    BY DEF Decode, SeqRm, Filled
  <1>3. Len(Decode(m, toks).kv) >= Len(m.kv)
    <2>1. Decode(m, toks).kv = m.kv \o toks
      BY DecodeFilled
    <2> QED
      BY <1>1, <2>1, ConcatProperties
  <1>4. Len(SeqRm(m, p).kv) >= Len(m.kv) \/ Len(SeqRm(m, p).kv) >= p
    <2>1. SeqRm(m, p) = m \/ (Len(m.kv) > p /\ SeqRm(m, p).kv = Prefix(m.kv, p))
      BY <1>1 DEF SeqRm, Filled
    <2>2. CASE SeqRm(m, p) = m
      BY <1>1, <2>2
    <2>3. CASE Len(m.kv) > p /\ SeqRm(m, p).kv = Prefix(m.kv, p)
      <3>1. p \in 0..Len(m.kv)
        BY <1>1, <2>3
      <3> QED
        BY <1>1, <2>3, <3>1, PrefixType
    <2> QED
      BY <2>1, <2>2, <2>3
  <1> QED
    BY <1>2, <1>3, <1>4

\* A rollback that did not need the re-decode.
LEMMA RollbackKept ==
  ASSUME NEW m \in Filled, npast \in Nat, mark \in Nat, SeqRmOk(m, npast),
         m.stack = mem.stack, mem.stack # <<>> => mark <= Len(m.kv) /\ mark <= npast
  PROVE  /\ RolledBack(m).stack = mem.stack
         /\ mem.stack # <<>> => mark <= Len(RolledBack(m).kv)
  <1>1. RolledBack(m) = SeqRm(m, npast)
    BY DEF RolledBack
  <1>2. SeqRm(m, npast) \in Filled /\ m.kv \in Seq(Token)
    BY SeqRmFilled, FilledFields
  <1>3. SeqRm(m, npast).kv \in Seq(Token)
    BY <1>2, FilledFields
  <1>4. <<>> \in Seq(Token)
    OBVIOUS
  <1>5. /\ SeqRm(m, npast).stack = m.stack
        /\ Len(SeqRm(m, npast).kv) >= Len(m.kv) \/ Len(SeqRm(m, npast).kv) >= npast
    BY <1>4, StackKept
  <1> QED
    BY <1>1, <1>2, <1>3, <1>5

\* A feed keeps the checkpoint, whether it succeeds or not.
LEMMA FeedKept ==
  ASSUME DataOK, mark \in Nat, Held, NEW m \in Filled, NEW sp, NEW ok \in BOOLEAN,
         Feed(m, sp, ok), m.stack = mem.stack, mem.stack # <<>> => mark <= Len(m.kv)
  PROVE  KeepsMark
  <1>1. tracker \in Seq(Token) /\ npast \in Nat /\ cur \in Token /\ m.kv \in Seq(Token)
    BY FilledFields DEF DataOK
  <1>2. <<cur>> \in Seq(Token)
    BY <1>1
  <1>3. mem'.stack = mem.stack /\ (mem.stack # <<>> => mark <= Len(mem'.kv))
    <2>1. CASE ~sp.noFeed /\ ok
      <3>1. mem' = Decode(m, <<cur>>)
        BY <2>1 DEF Feed
      <3>2. Decode(m, <<cur>>).stack = m.stack /\ Len(Decode(m, <<cur>>).kv) >= Len(m.kv)
        BY <1>1, <1>2, StackKept
      <3>3. Len(Decode(m, <<cur>>).kv) \in Nat /\ Len(m.kv) \in Nat
        <4>1. Decode(m, <<cur>>) \in Filled
          BY <1>2, DecodeFilled
        <4>2. Decode(m, <<cur>>).kv \in Seq(Token)
          BY <4>1, FilledFields
        <4> QED
          BY <1>1, <4>2
      <3> QED
        BY <3>1, <3>2, <3>3
    <2>2. CASE sp.noFeed \/ ~ok
      <3>1. mem' = m
        BY <2>2 DEF Feed
      <3> QED
        BY <3>1
    <2> QED
      BY <2>1, <2>2
  <1>4. SUFFICES ASSUME mem.stack # <<>> PROVE Covers(tracker') /\ mark <= npast'
    BY <1>3 DEF KeepsMark
  <1>5. mark <= Len(tracker) /\ mark <= npast /\ mark <= Len(m.kv)
    BY <1>4 DEF Held
  <1>6. CASE sp.noFeed \/ ok
    <2>1. tracker' = Append(tracker, cur) /\ npast' = npast + 1
      BY <1>6 DEF Feed
    <2> QED
      BY <1>1, <1>5, <2>1, AppendCovers
  <1>7. CASE ~sp.noFeed /\ ~ok
    <2>1. /\ tracker' = IF Len(tracker) + 1 > Synced(m)
                        THEN Prefix(tracker, Synced(m)) ELSE Append(tracker, cur)
          /\ npast' = Synced(m) /\ Synced(m) = Len(m.kv)
      BY <1>7 DEF Feed, Synced
    <2>2. CASE Len(tracker) + 1 > Synced(m)
      <3>1. Synced(m) \in 0..Len(tracker)
        BY <1>1, <2>1, <2>2
      <3> QED
        BY <1>1, <1>5, <2>1, <2>2, <3>1, CutCovers
    <2>3. CASE ~(Len(tracker) + 1 > Synced(m))
      BY <1>1, <1>5, <2>1, <2>3, AppendCovers
    <2> QED
      BY <2>2, <2>3
  <1> QED
    BY <1>6, <1>7

\* A step that keeps the checkpoint and the mark keeps Held.
LEMMA MarkHeld ==
  ASSUME Held, KeepsMark, UNCHANGED mark
  PROVE  Held'
  BY DEF Held, KeepsMark, Covers

\* A step that changes no token and no cache keeps the checkpoint.
LEMMA StillKept ==
  ASSUME Held, UNCHANGED <<mem, tracker, npast>>
  PROVE  KeepsMark
  BY DEF Held, KeepsMark, Covers

\* What is left to show of a step that does not move the mark.
LEMMA KeptHook ==
  ASSUME HookInv, KeepsMark, UNCHANGED mark, tool' # "open" => tool # "open", AtHook'
  PROVE  HookInv'
  <1>1. Held'
    BY MarkHeld DEF HookInv
  <1>2. NotOpen'
    BY DEF HookInv, NotOpen, KeepsMark
  <1> QED
    BY <1>1, <1>2 DEF HookInv

\* The top of the loop and a resumption move nothing the checkpoint depends on.
LEMMA TopHook ==
  ASSUME HookInv, GiveUp \/ Interrupt \/ Sample \/ Resume \/ UNCHANGED vars
  PROVE  HookInv'
  <1>1. CASE UNCHANGED vars
    BY <1>1 DEF HookInv, NotOpen, AtHook, Held, vars
  <1>2. CASE GiveUp \/ Interrupt \/ Sample \/ Resume
    <2>1. /\ UNCHANGED <<mem, tracker, npast, tool, mark>> /\ phase' \notin {"post", "hook"}
      BY <1>2 DEF GiveUp, Interrupt, Sample, Resume
    <2>2. AtHook'
      BY <2>1 DEF AtHook
    <2>3. KeepsMark
      BY <2>1, StillKept DEF HookInv
    <2> QED
      BY <2>1, <2>2, <2>3, KeptHook
  <1> QED
    BY <1>1, <1>2

\* The EOG block keeps the checkpoint, the rollback of the drafts included.
LEMMA EogHook ==
  ASSUME PlaceInv, PlaceInv', HookInv, EogStep
  PROVE  HookInv'
  <1>1. /\ DataOK /\ mem \in Filled /\ mark \in Nat /\ npast \in Nat /\ Held
        /\ ~redecoded /\ ~redecoded'
    BY DEF PlaceInv, TypeInv, DataOK, LabelsOK, HookInv
  <1>2. /\ UNCHANGED <<mark, tool>> /\ phase' \in {"compare", "cleanup"}
    BY DEF EogStep, Swallow, Poll, EndTurnMatched, EndTurnMismatched, EndTurnBonus,
           EndTurnPlain, LeaveAfterFeed
  <1>3. AtHook'
    BY <1>2 DEF AtHook
  <1>4. mem.stack # <<>> => mark <= Len(mem.kv) /\ mark <= npast
    BY <1>1 DEF Held
  <1>5. KeepsMark
    <2>1. CASE Swallow \/ Poll
      <3>1. UNCHANGED <<mem, tracker, npast>>
        BY <2>1 DEF Swallow, Poll
      <3> QED
        BY <1>1, <3>1, StillKept
    <2>2. CASE EndTurnMatched
      <3>1. PICK sp : Feed(mem, sp, TRUE)
        BY <2>2 DEF EndTurnMatched
      <3> QED
        BY <1>1, <1>4, <3>1, FeedKept
    <2>3. ASSUME NEW ok \in BOOLEAN, EndTurnMismatched(ok)
          PROVE  KeepsMark
      <3>1. /\ \E sp : Feed(RolledBack(mem), sp, ok)
            /\ redecoded' = (redecoded \/ ~SeqRmOk(mem, npast))
        BY <2>3 DEF EndTurnMismatched
      <3>2. PICK sp : Feed(RolledBack(mem), sp, ok)
        BY <3>1
      <3>3. SeqRmOk(mem, npast)
        BY <1>1, <3>1
      <3>4. RolledBack(mem) \in Filled
        BY <1>1, RolledBackFilled
      <3>5. /\ RolledBack(mem).stack = mem.stack
            /\ mem.stack # <<>> => mark <= Len(RolledBack(mem).kv)
        BY <1>1, <1>4, <3>3, RollbackKept
      <3> QED
        BY <1>1, <3>2, <3>4, <3>5, FeedKept
    <2>4. ASSUME NEW ok \in BOOLEAN, EndTurnBonus(ok)
          PROVE  KeepsMark
      <3>1. PICK sp : Feed(mem, sp, ok)
        BY <2>4 DEF EndTurnBonus
      <3> QED
        BY <1>1, <1>4, <3>1, FeedKept
    <2>5. ASSUME NEW ok \in BOOLEAN, EndTurnPlain(ok)
          PROVE  KeepsMark
      <3>1. Feed(mem, spec, ok)
        BY <2>5 DEF EndTurnPlain
      <3> QED
        BY <1>1, <1>4, <3>1, FeedKept
    <2> QED
      BY <2>1, <2>2, <2>3, <2>4, <2>5 DEF EogStep
  <1> QED
    BY <1>2, <1>3, <1>5, KeptHook

\* The comparison keeps the checkpoint: only a mismatch touches the cache.
LEMMA CompareHook ==
  ASSUME PlaceInv, PlaceInv', HookInv, CompareStep
  PROVE  HookInv'
  <1>1. /\ mem \in Filled /\ mark \in Nat /\ npast \in Nat /\ Held
        /\ tracker \in Seq(Token) /\ ~redecoded'
    BY DEF PlaceInv, TypeInv, DataOK, LabelsOK, HookInv
  <1>2. /\ UNCHANGED <<mark, tool, tracker, npast>> /\ phase' = "piece"
    BY DEF CompareStep, CompareBonus, CompareOrigin, CompareVerify, ComparePlain
  <1>3. AtHook'
    BY <1>2 DEF AtHook
  <1>4. CASE mem' = mem
    BY <1>1, <1>2, <1>3, <1>4, StillKept, KeptHook
  <1>5. CASE mem' # mem
    <2>1. mem' = RolledBack(mem) /\ redecoded' = (redecoded \/ ~SeqRmOk(mem, npast))
      BY <1>5 DEF CompareStep, CompareBonus, CompareOrigin, CompareVerify, ComparePlain
    <2>2. /\ mem'.stack = mem.stack
          /\ mem.stack # <<>> => mark <= Len(mem'.kv)
      BY <1>1, <2>1, RollbackKept DEF Held
    <2>3. KeepsMark
      BY <1>1, <1>2, <2>2 DEF KeepsMark, Held, Covers
    <2> QED
      BY <1>2, <1>3, <2>3, KeptHook
  <1> QED
    BY <1>4, <1>5

\* The piece and its feed; when the loop goes on, no rollback is pending.
LEMMA PieceHook ==
  ASSUME ~HasThink, PlaceInv, HookInv, PieceStep
  PROVE  HookInv'
  <1>1. /\ spec \in Round /\ DataOK /\ mem \in Filled /\ mark \in Nat /\ Held /\ Place
        /\ cur \in Token
    BY DEF PlaceInv, TypeInv, RoundInv, DataOK, LabelsOK, HookInv
  <1>2. PICK ok \in BOOLEAN : CompleteCall(ok) \/ Piece(ok)
    BY DEF PieceStep, Tripwire
  <1>3. /\ Feed(mem, spec, ok) /\ UNCHANGED mark /\ phase' # "hook"
        /\ phase' = "post" => ok \/ spec.noFeed
        /\ tool' # "open" => tool # "open"
    BY <1>2 DEF CompleteCall, Piece, LeaveAfterFeed
  <1>4. KeepsMark
    BY <1>1, <1>3, FeedKept DEF Held
  <1>5. AtHook'
    <2> SUFFICES ASSUME phase' = "post", ~spec'.verify PROVE mem'.rsIdx = 0
      BY <1>3 DEF AtHook
    <2>1. CASE spec.noFeed
      <3>1. mem' = mem /\ spec' = [spec EXCEPT !.noFeed = FALSE]
        BY <1>3, <2>1 DEF Feed
      <3>2. ~spec.verify
        BY <1>1, <3>1 DEF Round
      <3> QED
        BY <1>1, <2>1, <3>1, <3>2 DEF Place, Ahead
    <2>2. CASE ~spec.noFeed
      <3>1. mem' = Decode(mem, <<cur>>)
        BY <1>3, <2>2 DEF Feed
      <3>2. <<cur>> \in Seq(Token)
        BY <1>1
      <3> QED
        BY <1>1, <3>1, <3>2, DecodeFilled
    <2> QED
      BY <2>1, <2>2
  <1> QED
    BY <1>3, <1>4, <1>5, KeptHook

\* The hook: with no draft ahead, plane 0 is the state of the whole tracker.
LEMMA HookSaves ==
  ASSUME PlaceInv, HookInv, ToolStartHook
  PROVE  HookInv'
  <1>1. /\ spec \in Round /\ mem \in Filled /\ mem.kv \in Seq(Token) /\ Place
        /\ phase = "hook" /\ tool = "pending" /\ ~spec.verify /\ mem.rsIdx = 0
        /\ mem.stack = <<>>
    BY FilledFields
    DEF PlaceInv, TypeInv, RoundInv, DataOK, HookInv, AtHook, NotOpen, ToolStartHook
  <1>2. /\ mem' = IF InLockstep THEN RsSave(mem) ELSE mem
        /\ mark' = npast /\ tool' = "open" /\ phase' = "top" /\ UNCHANGED <<tracker, npast>>
    BY DEF ToolStartHook
  <1>3. NotOpen' /\ AtHook'
    BY <1>2 DEF NotOpen, AtHook
  <1>4. ASSUME mem'.stack # <<>>
        PROVE  /\ mark' <= Len(tracker') /\ mark' <= Len(mem'.kv) /\ mark' <= npast'
               /\ mem'.stack = <<Prefix(tracker', mark')>>
    <2>1. InLockstep /\ mem' = RsSave(mem)
      BY <1>1, <1>2, <1>4
    <2>2. mem' = [mem EXCEPT !.stack = Append(mem.stack, mem.planes[0])]
      BY <1>1, <1>4, <2>1 DEF RsSave
    <2>3. mem'.kv = mem.kv /\ mem'.stack = <<mem.planes[0]>>
      BY <1>1, <2>2 DEF Filled
    <2>4. Level(mem, tracker, npast)
      <3>1. ~spec.noFeed
        BY <1>1 DEF Place
      <3>2. CASE ~spec.inProgress
        BY <1>1, <3>1, <3>2 DEF Place
      <3>3. CASE spec.inProgress
        <4>1. Ahead(mem, tracker, npast, spec.rows - spec.committed)
          BY <1>1, <3>3 DEF Place
        <4>2. spec.rows - spec.committed = 0
          <5>1. /\ spec.rows \in Nat /\ spec.committed \in Nat
                /\ ~(spec.committed < spec.rows)
                /\ spec.rows - spec.committed \in 0..(DraftLen - 1)
            BY <1>1, <2>1, <3>3, <4>1, RoundFields, Lengths DEF Ahead, InLockstep
          <5> QED
            BY <5>1
        <4> QED
          BY <1>1, <4>1, <4>2, AheadOfNothing
      <3> QED
        BY <3>2, <3>3
    <2>5. tracker = mem.kv /\ npast = Len(mem.kv) /\ mem.planes[0] = mem.kv
      BY <1>1, <2>4 DEF Level, Coherent, State
    <2>6. Prefix(tracker, npast) = tracker
      BY <1>1, <2>5, PrefixAll
    <2> QED
      BY <1>1, <1>2, <2>3, <2>5, <2>6
  <1>5. Held'
    BY <1>4 DEF Held
  <1> QED
    BY <1>3, <1>5 DEF HookInv

\* The steps after the feed: the decode of the drafts, or its failure, in which
\* the one token taken back is behind the mark.
LEMMA PostHook ==
  ASSUME PlaceInv, PlaceInv', HookInv, PostStep
  PROVE  HookInv'
  <1>1. /\ spec \in Round /\ DataOK /\ mem \in Filled /\ mark \in Nat /\ Held /\ Place
        /\ MatchedOK /\ npast \in Nat /\ tracker \in Seq(Token) /\ mem.kv \in Seq(Token)
        /\ ~redecoded /\ ~redecoded' /\ AtHook
    BY FilledFields DEF PlaceInv, TypeInv, RoundInv, DataOK, LabelsOK, HookInv
  <1>2. mem.stack # <<>> => mark <= Len(tracker) /\ mark <= Len(mem.kv) /\ mark <= npast
    BY <1>1 DEF Held
  <1>3. AfterPost = "hook" => tool = "pending"
    BY DEF AfterPost
  <1>4. AfterPost \in {"hook", "top"}
    BY DEF AfterPost
  <1>5. CASE VerifyDecode
    <2>1. /\ mem' = Decode(mem, spec.draft) /\ phase' = AfterPost /\ spec.verify
          /\ UNCHANGED <<tracker, npast, tool, mark>>
          /\ spec' = IF spec.rows > 0 THEN [spec EXCEPT !.verify = FALSE]
                     ELSE [spec EXCEPT !.verify = FALSE, !.inProgress = FALSE,
                                       !.bonus = TRUE, !.complete = TRUE]
      BY <1>5 DEF VerifyDecode
    <2>2. ~spec'.verify
      BY <1>1, <2>1 DEF Round
    <2>3. spec.draft \in Seq(Token)
      BY <1>1, <2>1, DraftLength DEF MatchedOK
    <2>4. mem'.rsIdx = 0 /\ mem' \in Filled
      BY <1>1, <2>1, <2>3, DecodeFilled
    <2>5. mem'.stack = mem.stack /\ Len(mem'.kv) >= Len(mem.kv)
      BY <1>1, <2>1, <2>3, StackKept
    <2>6. mem'.kv \in Seq(Token)
      BY <2>4, FilledFields
    <2>7. KeepsMark
      BY <1>1, <1>2, <2>1, <2>5, <2>6 DEF KeepsMark, Covers
    <2>8. AtHook'
      BY <1>3, <1>4, <2>1, <2>2, <2>4 DEF AtHook
    <2> QED
      BY <2>1, <2>7, <2>8, KeptHook
  <1>6. ASSUME NEW n \in 0..DraftLen, VerifyFail(n)
        PROVE  HookInv'
    <2> DEFINE part == IF n = 0 THEN mem ELSE Decode(mem, Prefix(spec.draft, n))
    <2>1. /\ spec.verify /\ phase = "post" /\ n < Len(spec.draft) /\ phase' = "cleanup"
          /\ mem' = RolledBack(part) /\ redecoded' = (redecoded \/ ~SeqRmOk(part, npast))
          /\ tracker' = IF n > 0 THEN tracker ELSE Prefix(tracker, Len(tracker) - 1)
          /\ npast' = IF n > 0 THEN npast ELSE npast - 1
          /\ UNCHANGED <<tool, mark>>
      BY <1>6 DEF VerifyFail
    <2>2. Behind(mem, tracker, npast, spec.draft[1]) /\ spec.draft \in Drafts
      BY <1>1, <2>1 DEF Place, MatchedOK
    <2>3. SeqRmOk(part, npast)
      BY <1>1, <2>1
    <2>4. /\ part \in Filled /\ part.stack = mem.stack
          /\ mem.stack # <<>> => mark <= Len(part.kv)
      <3>1. CASE n = 0
        BY <1>1, <1>2, <3>1
      <3>2. CASE n # 0
        <4>1. Prefix(spec.draft, n) \in Seq(Token)
          BY <2>1, <2>2, DraftLength, PrefixType
        <4>2. part = Decode(mem, Prefix(spec.draft, n))
          BY <3>2
        <4>3. part \in Filled
          BY <1>1, <4>1, <4>2, DecodeFilled
        <4>4. part.stack = mem.stack /\ Len(part.kv) >= Len(mem.kv)
          BY <1>1, <4>1, <4>2, StackKept
        <4>5. part.kv \in Seq(Token)
          BY <4>3, FilledFields
        <4> HIDE DEF part
        <4> QED
          BY <1>1, <1>2, <4>3, <4>4, <4>5
      <3> QED
        BY <3>1, <3>2
    <2> HIDE DEF part
    <2>5. /\ mem'.stack = mem.stack
          /\ mem.stack # <<>> => mark <= Len(mem'.kv)
      BY <1>1, <1>2, <2>1, <2>3, <2>4, RollbackKept
    <2>6. ASSUME mem.stack # <<>> PROVE Covers(tracker') /\ mark <= npast'
      <3>1. CASE n > 0
        BY <1>1, <1>2, <2>1, <2>6, <3>1 DEF Covers
      <3>2. CASE ~(n > 0)
        <4>1. /\ tracker' = Prefix(tracker, Len(tracker) - 1) /\ npast' = npast - 1
          BY <2>1, <3>2
        <4>2. tracker = mem.kv \o <<spec.draft[1]>> /\ npast = Len(mem.kv) + 1
          BY <2>2 DEF Behind
        <4>3. Len(tracker) = Len(mem.kv) + 1
          <5>1. spec.draft[1] \in Token
            BY <2>2, Lengths DEF Drafts
          <5> QED
            BY <1>1, <4>2, <5>1
        <4>4. Len(tracker) - 1 \in 0..Len(tracker) /\ mark <= Len(tracker) - 1
          BY <1>1, <1>2, <2>6, <4>3
        <4>5. Covers(tracker')
          BY <1>1, <4>1, <4>4, CutCovers
        <4>6. mark <= npast'
          BY <1>1, <1>2, <2>6, <4>1, <4>2
        <4> QED
          BY <4>5, <4>6
      <3> QED
        BY <3>1, <3>2
    <2>7. KeepsMark
      BY <2>5, <2>6 DEF KeepsMark
    <2>8. AtHook'
      BY <2>1 DEF AtHook
    <2> QED
      BY <2>1, <2>7, <2>8, KeptHook
  <1>7. CASE CompleteRound \/ StartRound \/ NoNewRound
    <2>1. /\ phase = "post" /\ ~spec.verify /\ phase' = AfterPost
          /\ UNCHANGED <<mem, tracker, npast, tool, mark>>
      BY <1>7 DEF CompleteRound, StartRound, NoNewRound
    <2>2. ~spec'.verify
      BY <1>1, <1>7, <2>1 DEF CompleteRound, StartRound, NoNewRound, Round
    <2>3. mem.rsIdx = 0
      BY <1>1, <2>1 DEF AtHook
    <2>4. AtHook'
      BY <1>3, <1>4, <2>1, <2>2, <2>3 DEF AtHook
    <2> QED
      BY <1>1, <2>1, <2>4, StillKept, KeptHook
  <1>8. CASE ToolStartHook
    BY <1>8, HookSaves
  <1> QED
    BY <1>5, <1>6, <1>7, <1>8 DEF PostStep

\* The cleanup settles the round behind the mark.
LEMMA CleanupHook ==
  ASSUME PlaceInv, PlaceInv', HookInv, CleanupStep
  PROVE  HookInv'
  <1>1. /\ DataOK /\ mem \in Filled /\ mark \in Nat /\ Held /\ Place /\ MatchedOK
        /\ npast \in Nat /\ tracker \in Seq(Token) /\ mem.kv \in Seq(Token)
        /\ ~redecoded /\ ~redecoded'
    BY FilledFields DEF PlaceInv, TypeInv, RoundInv, DataOK, LabelsOK, HookInv
  <1>2. mem.stack # <<>> => mark <= Len(tracker) /\ mark <= Len(mem.kv) /\ mark <= npast
    BY <1>1 DEF Held
  <1>3. phase' = "done" /\ phase = "cleanup" /\ UNCHANGED <<tool, mark>>
    BY DEF CleanupStep, CleanupIdle, CleanupGiveCell, CleanupDropCell, CleanupUnfed,
           CleanupRollback, CleanupClose, Settled
  <1>4. AtHook'
    BY <1>3 DEF AtHook
  <1>5. CASE CleanupIdle \/ CleanupUnfed \/ CleanupClose
    <2>1. UNCHANGED <<mem, tracker, npast>>
      BY <1>5 DEF CleanupIdle, CleanupUnfed, CleanupClose
    <2> QED
      BY <1>1, <1>3, <1>4, <2>1, StillKept, KeptHook
  <1>6. CASE CleanupGiveCell
    <2>1. /\ spec.verify /\ mem' = Decode(mem, Prefix(spec.draft, 1))
          /\ UNCHANGED <<tracker, npast>>
      BY <1>6 DEF CleanupGiveCell
    <2>2. Prefix(spec.draft, 1) \in Seq(Token)
      <3>1. spec.draft \in Seq(Token) /\ 1 \in 0..Len(spec.draft)
        BY <1>1, <2>1, DraftLength, Lengths DEF MatchedOK
      <3> QED
        BY <3>1, PrefixType
    <2>3. mem' \in Filled
      BY <1>1, <2>1, <2>2, DecodeFilled
    <2>4. mem'.stack = mem.stack /\ Len(mem'.kv) >= Len(mem.kv)
      BY <1>1, <2>1, <2>2, StackKept
    <2>5. mem'.kv \in Seq(Token)
      BY <2>3, FilledFields
    <2>6. KeepsMark
      BY <1>1, <1>2, <2>1, <2>4, <2>5 DEF KeepsMark, Covers
    <2> QED
      BY <1>3, <1>4, <2>6, KeptHook
  <1>7. CASE CleanupDropCell
    <2>1. /\ spec.verify /\ mem' = mem /\ npast' = npast - 1
          /\ tracker' = Prefix(tracker, Len(tracker) - 1)
      BY <1>7 DEF CleanupDropCell
    <2>2. Behind(mem, tracker, npast, spec.draft[1]) /\ spec.draft \in Drafts
      BY <1>1, <1>3, <2>1 DEF Place, MatchedOK
    <2>3. Len(tracker) = Len(mem.kv) + 1 /\ npast = Len(mem.kv) + 1
      <3>1. spec.draft[1] \in Token
        BY <2>2, Lengths DEF Drafts
      <3> QED
        BY <1>1, <2>2, <3>1 DEF Behind
    <2>4. ASSUME mem.stack # <<>> PROVE Covers(tracker') /\ mark <= npast'
      <3>1. Len(tracker) - 1 \in 0..Len(tracker) /\ mark <= Len(tracker) - 1
        BY <1>1, <1>2, <2>3, <2>4
      <3>2. Covers(tracker')
        BY <1>1, <2>1, <3>1, CutCovers
      <3>3. mark <= npast'
        BY <1>1, <1>2, <2>1, <2>3, <2>4
      <3> QED
        BY <3>2, <3>3
    <2>5. KeepsMark
      BY <1>2, <2>1, <2>4 DEF KeepsMark
    <2> QED
      BY <1>3, <1>4, <2>5, KeptHook
  <1>8. CASE CleanupRollback
    <2>1. /\ mem' = RolledBack(mem) /\ UNCHANGED <<tracker, npast>>
          /\ Settled(~SeqRmOk(mem, npast))
      BY <1>8 DEF CleanupRollback
    <2>2. SeqRmOk(mem, npast)
      BY <1>1, <2>1 DEF Settled
    <2>3. /\ mem'.stack = mem.stack
          /\ mem.stack # <<>> => mark <= Len(mem'.kv)
      BY <1>1, <1>2, <2>1, <2>2, RollbackKept
    <2>4. KeepsMark
      BY <1>1, <1>2, <2>1, <2>3 DEF KeepsMark, Covers
    <2> QED
      BY <1>3, <1>4, <2>4, KeptHook
  <1> QED
    BY <1>5, <1>6, <1>7, <1>8 DEF CleanupStep

\* No checkpoint is held at the start.
LEMMA HookInit ==
  ASSUME Init
  PROVE  HookInv
  <1>1. PICK t \in Token : mem = Decode(EmptyMem, <<t>>)
    BY DEF Init
  <1>2. <<t>> \in Seq(Token) /\ EmptyMem \in Filled /\ EmptyMem.stack = <<>>
    BY EmptyFilled DEF EmptyMem
  <1>3. mem.stack = <<>>
    BY <1>1, <1>2, DecodeFilled
  <1> QED
    BY <1>3 DEF Init, HookInv, NotOpen, AtHook, Held

LEMMA HookStep ==
  ASSUME DraftLen > 1, ~HasThink, PlaceInv, HookInv, [Next]_vars
  PROVE  HookInv'
  <1>1. PlaceInv'
    BY PlaceStep
  <1>2. CASE GiveUp \/ Interrupt \/ Sample \/ Resume \/ UNCHANGED vars
    BY <1>2, TopHook
  <1>3. CASE EogStep
    BY <1>1, <1>3, EogHook
  <1>4. CASE CompareStep
    BY <1>1, <1>4, CompareHook
  <1>5. CASE PieceStep
    BY <1>5, PieceHook
  <1>6. CASE PostStep
    BY <1>1, <1>6, PostHook
  <1>7. CASE CleanupStep
    BY <1>1, <1>7, CleanupHook
  <1> QED
    BY <1>2, <1>3, <1>4, <1>5, <1>6, <1>7 DEF Next, Generate

\* Without thinking tags, the checkpoint the hook saved is the state right after
\* FUNC_START, at the position a correction truncates to, whatever round was open
\* when it was saved and whatever the generation rolled back since.
THEOREM CheckpointAtMark ==
  ASSUME DraftLen > 1, ~HasThink
  PROVE  Spec => []HookCheckpoint
  <1>1. Init => PlaceInv /\ HookInv
    BY TypeInit, PlaceInit, HookInit DEF PlaceInv
  <1>2. PlaceInv /\ HookInv /\ [Next]_vars => PlaceInv' /\ HookInv'
    BY PlaceStep, HookStep
  <1>3. HookInv => HookCheckpoint
    BY DEF HookInv, Held, HookCheckpoint
  <1> QED
    BY <1>1, <1>2, <1>3, PTL DEF Spec
=============================================================================
