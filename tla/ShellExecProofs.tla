-------------------------- MODULE ShellExecProofs ---------------------------
(***************************************************************************)
(* Safety of exec_shell for every pipe size, output limit and set of       *)
(* features.  What has to be carried along: where in the function the      *)
(* shell can be in which phase, that a dead shell writes no more, that the *)
(* pipe is searched for the shell's output only when it cannot grow, and   *)
(* that the one status that is kept is the reaped shell's.                 *)
(***************************************************************************)
EXTENDS ShellExec, SequenceTheorems, TLAPS

\* A read is attempted only when there is a chunk or the end of the file.
ReadReady == pc = "read" => PipeReady

TypeInv == TypeOK /\ ReadReady

\* The output has no NUL bytes: what follows one in a chunk is lost (ShellExec_nul.cfg).
NoNul == \A s \in Scenarios : "nul" \notin s

\* The calls of exec_shell behind which the output is complete.
Behind == {"wait", "woken", "report", "done"}

PhaseOK ==
    /\ child.phase = "none" => pc \in {"open", "done"}
    /\ pc = "open" => child.phase = "none" /\ pipe = <<>> /\ ~job.run
    /\ child.phase = "reaped" => pc \in {"drain", "wait", "report", "done"}
    /\ pc \in {"drain", "report"} => child.phase = "reaped"
    /\ pc = "done" => child.phase \in {"none", "reaped"}
    /\ ~Running => ~child.open

KilledOK ==
    /\ killed => pc # "open" /\ ~Running /\ ~(job.run /\ job.group)
    /\ pc = "discard" => killed

OutputOK ==
    pc \in Behind /\ ~killed =>
        ~child.open /\ \A i \in 1..Len(pipe) : pipe[i] # "shell"

StatusOK ==
    /\ status # "none" => child.phase = "reaped" /\ status = child.code
    /\ said # "none" => pc = "done"

LostOK == lost => "nul" \in features

SafeInv == TypeInv /\ PhaseOK /\ KilledOK /\ OutputOK /\ LostOK /\ StatusOK /\ CodeIsReal
-----------------------------------------------------------------------------
\* The pipe stays a sequence of at most Buf chunks when one is taken or added.
LEMMA PipeTail ==
  ASSUME pipe \in Seq({"shell", "job"}), Len(pipe) <= Buf, pipe # <<>>
  PROVE  /\ Tail(pipe) \in Seq({"shell", "job"}) /\ Len(Tail(pipe)) <= Buf
  BY ShellAssumption, HeadTailProperties

LEMMA PipeAppend ==
  ASSUME NEW w \in {"shell", "job"}, pipe \in Seq({"shell", "job"}), Len(pipe) < Buf
  PROVE  /\ Append(pipe, w) \in Seq({"shell", "job"}) /\ Len(Append(pipe, w)) <= Buf
         /\ Append(pipe, w) # <<>>
  BY ShellAssumption, AppendProperties

\* One chunk forwarded keeps the types of what it changes.
LEMMA ForwardTypes ==
  ASSUME TypeInv, pipe # <<>>, Forward
  PROVE  /\ got' \in 0..MaxOutput /\ cut' \in BOOLEAN /\ lost' \in BOOLEAN
         /\ pipe' \in Seq({"shell", "job"}) /\ Len(pipe') <= Buf
         /\ UNCHANGED <<status, said, child, job, file, wake, killed>>
  <1>1. pipe' \in Seq({"shell", "job"}) /\ Len(pipe') <= Buf
    BY PipeTail DEF Forward, TypeInv, TypeOK
  <1>2. got' \in 0..MaxOutput /\ cut' \in BOOLEAN /\ lost' \in BOOLEAN
    <2>1. CASE Room
      <3>1. got' \in {got, got + 1} /\ cut' = cut /\ lost' \in {lost, TRUE}
        BY <2>1 DEF Forward
      <3>2. got \in 0..MaxOutput /\ got < MaxOutput /\ cut \in BOOLEAN /\ lost \in BOOLEAN
        BY <2>1 DEF Room, TypeInv, TypeOK
      <3>3. got' \in 0..MaxOutput
        BY <3>1, <3>2, ShellAssumption
      <3>4. cut' \in BOOLEAN /\ lost' \in BOOLEAN
        BY <3>1, <3>2
      <3> QED
        BY <3>3, <3>4
    <2>2. CASE ~Room
      BY <2>2, ShellAssumption DEF Forward, TypeInv, TypeOK
    <2> QED
      BY <2>1, <2>2
  <1> QED
    BY <1>1, <1>2 DEF Forward

\* What a kill does: no shell runs, the job of the group is gone.
LEMMA KillEffect ==
  ASSUME TypeInv, Kill
  PROVE  /\ child' \in [phase : {"none", "forked", "run", "last", "zombie", "reaped"},
                       code : Codes \cup {"none", "killed"}, open : BOOLEAN]
         /\ job' \in [run : BOOLEAN, group : BOOLEAN, open : BOOLEAN]
         /\ killed' \in BOOLEAN /\ killed'
         /\ ~Running' /\ ~(job'.run /\ job'.group)
         /\ ~Running => child' = child
         /\ Running => child'.phase = "zombie" /\ ~child'.open
         /\ job' = job \/ ~job'.open
  <1>1. CASE Running
    BY <1>1 DEF Kill, KillTree, Running, Zombie, NoJob, TypeInv, TypeOK
  <1>2. CASE ~Running
    BY <1>2 DEF Kill, KillTree, Running, NoJob, TypeInv, TypeOK
  <1> QED
    BY <1>1, <1>2

\* The types and ReadReady survive every step of the environment.
LEMMA WorldKeepsTypes ==
  ASSUME TypeInv,
         \/ SetsGroup \/ Writes \/ ClosesOutput \/ StartsJob \/ RecordsCode \/ Exits
         \/ JobWrites \/ JobEnds \/ CtrlC \/ OtherChildExits \/ Poke
  PROVE  TypeInv'
  <1> USE DEF TypeInv, TypeOK, ReadReady, PipeReady, Eof, Codes
  <1>1. CASE SetsGroup
    BY <1>1 DEF SetsGroup, Outside, limVars
  <1>2. CASE Writes
    <2>1. pipe' \in Seq({"shell", "job"}) /\ Len(pipe') <= Buf /\ pipe' # <<>>
      BY <1>2, PipeAppend DEF Writes
    <2>2. UNCHANGED <<pc, limVars, child, job, file, wake, stop, killed, features>>
      BY <1>2 DEF Writes, Outside
    <2> QED
      BY <2>1, <2>2 DEF limVars
  <1>3. CASE ClosesOutput
    <2>1. /\ child' \in [phase : {"none", "forked", "run", "last", "zombie", "reaped"},
                          code : Codes \cup {"none", "killed"}, open : BOOLEAN]
          /\ ~child'.open
      BY <1>3 DEF ClosesOutput
    <2> QED
      BY <1>3, <2>1 DEF ClosesOutput, Outside, limVars
  <1>4. CASE StartsJob
    BY <1>4 DEF StartsJob, Outside, limVars
  <1>5. CASE RecordsCode
    BY <1>5 DEF RecordsCode, Outside, limVars
  <1>6. CASE Exits
    <2>1. /\ child' \in [phase : {"none", "forked", "run", "last", "zombie", "reaped"},
                          code : Codes \cup {"none", "killed"}, open : BOOLEAN]
          /\ ~child'.open
      <3>1. PICK c \in Codes : child' = Zombie(c)
        BY <1>6 DEF Exits
      <3> QED
        BY <3>1 DEF Zombie
    <2>2. wake' = TRUE /\ pc' \in {pc, "eintr"} /\ (pc' # pc => pc' = "eintr")
      BY <1>6 DEF Exits, Sigchld, WakeByte
    <2>3. UNCHANGED <<limVars, stop, killed, features, job, pipe, file>>
      BY <1>6 DEF Exits, Outside
    <2>4. TypeOK'
      BY <2>1, <2>2, <2>3 DEF limVars
    <2>5. pc' = "read" => PipeReady'
      <3>1. pipe' = pipe /\ job' = job /\ ~child'.open
        BY <2>1, <2>3
      <3>2. pc' = "read" => pc = "read"
        BY <2>2
      <3>3. pc = "read" => pipe # <<>> \/ ~job.open
        OBVIOUS
      <3> QED
        BY <3>1, <3>2, <3>3
    <2> QED
      BY <2>4, <2>5
  <1>7. CASE JobWrites
    <2>1. pipe' \in Seq({"shell", "job"}) /\ Len(pipe') <= Buf /\ pipe' # <<>>
      BY <1>7, PipeAppend DEF JobWrites
    <2> QED
      BY <1>7, <2>1 DEF JobWrites, Outside, limVars
  <1>8. CASE JobEnds
    BY <1>8 DEF JobEnds, NoJob, Outside, limVars
  <1>9. CASE CtrlC
    BY <1>9 DEF CtrlC, world, limVars
  <1>10. CASE OtherChildExits
    BY <1>10 DEF OtherChildExits, Sigchld, WakeByte, PollReady, world, limVars
  <1>11. CASE Poke
    BY <1>11 DEF Poke, world, limVars
  <1> QED
    BY <1>1, <1>2, <1>3, <1>4, <1>5, <1>6, <1>7, <1>8, <1>9, <1>10, <1>11

\* poll sends lim to the pipe only when it is ready.
LEMMA PollTarget ==
  ASSUME Poll
  PROVE  pc' \in {"read", "check"} /\ (pc' = "read" => PipeReady)
  BY DEF Poll

\* The types and ReadReady survive every step of lim.
LEMMA LimKeepsTypes ==
  ASSUME TypeInv, LimStep
  PROVE  TypeInv'
  <1> USE DEF TypeInv, TypeOK, ReadReady, PipeReady, Eof, Codes, Lim
  <1>1. CASE Open
    BY <1>1 DEF Open, limVars
  <1>2. CASE OpenFails
    BY <1>2 DEF OpenFails, world
  <1>3. CASE Poll
    <2> HIDE DEF PipeReady, Eof
    <2>1. UNCHANGED <<limVars, world, killed, stop, features>> /\ wake' = FALSE
      BY <1>3 DEF Poll
    <2>2. pc' \in {"read", "check"}
      BY <1>3, PollTarget
    <2>3. pc' = "read" => PipeReady
      BY <1>3, PollTarget
    <2>4. TypeOK'
      <3>1. UNCHANGED <<got, cut, lost, status, said, child, job, pipe, file>>
        BY <2>1 DEF limVars, world
      <3>2. UNCHANGED <<killed, stop, features>> /\ wake' \in BOOLEAN
        BY <2>1
      <3> QED
        BY <2>2, <3>1, <3>2 DEF PipeReady, Eof
    <2>5. ReadReady'
      <3>1. pipe' = pipe /\ job' = job /\ child' = child
        BY <2>1 DEF world
      <3>2. PipeReady' = PipeReady
        BY <3>1 DEF PipeReady, Eof
      <3> QED
        BY <2>3, <3>2 DEF ReadReady
    <2> QED
      BY <2>4, <2>5
  <1>4. CASE Read
    <2>1. CASE Eof
      BY <1>4, <2>1 DEF Read, world, limVars
    <2>2. CASE ~Eof
      <3>1. Forward /\ pipe # <<>> /\ pc' = "check" /\ UNCHANGED <<stop, features>>
        BY <1>4, <2>2 DEF Read, Forward
      <3> QED
        BY <3>1, ForwardTypes
    <2> QED
      BY <2>1, <2>2
  <1>5. CASE Check
    BY <1>5 DEF Check, Reaped, limVars
  <1>6. CASE Drain
    <2>1. CASE pipe = <<>>
      BY <1>6, <2>1 DEF Drain, world, limVars
    <2>2. CASE pipe # <<>>
      <3>1. Forward /\ pc' = "drain" /\ UNCHANGED <<stop, features>>
        BY <1>6, <2>2 DEF Drain, Drained, Forward
      <3> QED
        BY <2>2, <3>1, ForwardTypes
    <2> QED
      BY <2>1, <2>2
  <1>7. CASE Eintr
    <2>1. CASE stop
      BY <1>7, <2>1, KillEffect DEF Eintr, limVars
    <2>2. CASE ~stop
      BY <1>7, <2>2 DEF Eintr, limVars
    <2> QED
      BY <2>1, <2>2
  <1>8. CASE Discard
    BY <1>8, PipeTail DEF Discard, limVars
  <1>9. CASE Wait
    BY <1>9 DEF Wait, Reaped, Running
  <1>10. CASE Woken
    <2>1. CASE stop
      BY <1>10, <2>1, KillEffect DEF Woken, limVars
    <2>2. CASE ~stop
      BY <1>10, <2>2 DEF Woken, limVars
    <2> QED
      BY <2>1, <2>2
  <1>11. CASE Report
    BY <1>11 DEF Report, Code, world
  <1> QED
    BY <1>1, <1>2, <1>3, <1>4, <1>5, <1>6, <1>7, <1>8, <1>9, <1>10, <1>11 DEF LimStep

LEMMA NextKeepsTypes ==
  ASSUME TypeInv, [Next]_vars
  PROVE  TypeInv'
  <1>1. CASE LimStep
    BY <1>1, LimKeepsTypes
  <1>2. CASE UNCHANGED vars
    BY <1>2 DEF vars, limVars, world, TypeInv, TypeOK, ReadReady, PipeReady, Eof
  <1> QED
    BY <1>1, <1>2, WorldKeepsTypes DEF Next

LEMMA InitTypes == Init => TypeInv
  <1> SUFFICES ASSUME Init PROVE TypeInv
    OBVIOUS
  <1>1. got \in 0..MaxOutput /\ pipe \in Seq({"shell", "job"}) /\ Len(pipe) <= Buf
    BY ShellAssumption, EmptySeq DEF Init
  <1> QED
    BY <1>1 DEF Init, TypeInv, TypeOK, ReadReady, NoJob, Codes

\* Every variable of exec_shell has its type, the result is never longer than the
\* limit, for every size of the pipe and every limit.
THEOREM TypeCorrect == Spec => []TypeOK
  <1>1. TypeInv => TypeOK
    BY DEF TypeInv
  <1> QED
    BY <1>1, InitTypes, NextKeepsTypes, PTL DEF Spec
-----------------------------------------------------------------------------
\* Two chunks at a time: what is in a tail was in the pipe, what is in an extended
\* pipe was in it or is the new chunk.
LEMMA TailQuiet ==
  ASSUME pipe \in Seq({"shell", "job"}), pipe # <<>>,
         \A i \in 1..Len(pipe) : pipe[i] # "shell"
  PROVE  \A i \in 1..Len(Tail(pipe)) : Tail(pipe)[i] # "shell"
  BY HeadTailProperties

LEMMA AppendQuiet ==
  ASSUME pipe \in Seq({"shell", "job"}), \A i \in 1..Len(pipe) : pipe[i] # "shell"
  PROVE  \A i \in 1..Len(Append(pipe, "job")) : Append(pipe, "job")[i] # "shell"
  BY AppendProperties

\* A step that leaves lim where it is, or ends the call in which it is blocked.
Signalled ==
    \/ pc' = pc
    \/ pc = "poll" /\ pc' = "eintr"
    \/ pc = "wait" /\ Running /\ pc' = "woken"

LEMMA SignalMoves ==
  ASSUME TypeInv, CtrlC \/ OtherChildExits \/ Poke
  PROVE  Signalled /\ UNCHANGED <<limVars, world, killed>>
  <1>1. CASE CtrlC
    BY <1>1 DEF CtrlC, Blocked, Signalled
  <1>2. CASE OtherChildExits
    BY <1>2 DEF OtherChildExits, Sigchld, Signalled
  <1>3. CASE Poke
    BY <1>3 DEF Poke, Blocked, Signalled
  <1> QED
    BY <1>1, <1>2, <1>3

\* Every step of the environment keeps SafeInv.
LEMMA WorldKeepsSafe ==
  ASSUME SafeInv, TypeInv',
         \/ SetsGroup \/ Writes \/ ClosesOutput \/ StartsJob \/ RecordsCode \/ Exits
         \/ JobWrites \/ JobEnds \/ CtrlC \/ OtherChildExits \/ Poke
  PROVE  SafeInv'
  <1> USE DEF SafeInv, PhaseOK, KilledOK, OutputOK, LostOK, StatusOK, CodeIsReal, Outcome,
              Running, Behind, Codes
  <1>t. /\ child \in [phase : {"none", "forked", "run", "last", "zombie", "reaped"},
                      code : Codes \cup {"none", "killed"}, open : BOOLEAN]
        /\ job \in [run : BOOLEAN, group : BOOLEAN, open : BOOLEAN]
        /\ pipe \in Seq({"shell", "job"})
    BY DEF TypeInv, TypeOK
  <1>1. CASE SetsGroup
    BY <1>1, <1>t DEF SetsGroup, Outside, limVars
  <1>2. CASE Writes
    BY <1>2, <1>t DEF Writes, Outside, limVars
  <1>3. CASE ClosesOutput
    BY <1>3, <1>t DEF ClosesOutput, Outside, limVars
  <1>4. CASE StartsJob
    BY <1>4, <1>t DEF StartsJob, Outside, limVars
  <1>5. CASE RecordsCode
    BY <1>5, <1>t DEF RecordsCode, Outside, limVars
  <1>6. CASE Exits
    BY <1>6, <1>t DEF Exits, Zombie, Sigchld, Outside, limVars
  <1>7. CASE JobWrites
    <2>1. UNCHANGED <<pc, child, job, file, wake, limVars, stop, killed, features>>
      BY <1>7 DEF JobWrites, Outside
    <2>2. OutputOK'
      BY <1>7, <1>t, <2>1, AppendQuiet DEF JobWrites
    <2> QED
      BY <1>7, <2>1, <2>2 DEF JobWrites, limVars
  <1>8. CASE JobEnds
    BY <1>8, <1>t DEF JobEnds, NoJob, Outside, limVars
  <1>9. CASE CtrlC \/ OtherChildExits \/ Poke
    <2>1. Signalled /\ UNCHANGED <<limVars, world, killed>>
      BY <1>9, SignalMoves
    <2>2. UNCHANGED <<got, cut, lost, status, said, child, job, pipe, file, killed>>
      BY <2>1 DEF limVars, world
    <2>3. PhaseOK'
      BY <2>1, <2>2 DEF Signalled
    <2>4. KilledOK'
      <3>1. killed' => pc' # "open" /\ pc # "open"
        BY <2>1, <2>2 DEF Signalled
      <3>2. pc' = "discard" => pc = "discard"
        BY <2>1 DEF Signalled
      <3> QED
        BY <2>2, <3>1, <3>2
    <2>7. CodeIsReal'
      BY <2>2
    <2>8. LostOK'
      BY <1>9, <2>2 DEF CtrlC, OtherChildExits, Poke
    <2>5. OutputOK'
      BY <2>1, <2>2 DEF Signalled
    <2>6. StatusOK'
      BY <2>1, <2>2 DEF Signalled
    <2> QED
      BY <2>3, <2>4, <2>5, <2>6, <2>7, <2>8
  <1> QED
    BY <1>1, <1>2, <1>3, <1>4, <1>5, <1>6, <1>7, <1>8, <1>9

\* Every step of lim keeps SafeInv.
LEMMA LimKeepsSafe ==
  ASSUME SafeInv, TypeInv', LimStep
  PROVE  SafeInv'
  <1> USE DEF SafeInv, PhaseOK, KilledOK, OutputOK, LostOK, StatusOK, CodeIsReal, Outcome,
              Running, Behind, Codes, Lim
  <1>t. /\ child \in [phase : {"none", "forked", "run", "last", "zombie", "reaped"},
                      code : Codes \cup {"none", "killed"}, open : BOOLEAN]
        /\ job \in [run : BOOLEAN, group : BOOLEAN, open : BOOLEAN]
        /\ pipe \in Seq({"shell", "job"})
        /\ status \in Codes \cup {"none", "killed"}
    BY DEF TypeInv, TypeOK
  <1>1. CASE Open
    BY <1>1, <1>t DEF Open, limVars
  <1>2. CASE OpenFails
    BY <1>2, <1>t DEF OpenFails, world
  <1>3. CASE Poll
    BY <1>3, <1>t DEF Poll, world, limVars
  <1>4. CASE Read
    <2>1. CASE Eof
      BY <1>4, <2>1, <1>t DEF Read, Eof, world, limVars
    <2>2. CASE ~Eof
      BY <1>4, <2>2, <1>t DEF Read, Forward
    <2> QED
      BY <2>1, <2>2
  <1>5. CASE Check
    BY <1>5, <1>t DEF Check, Reaped, limVars
  <1>6. CASE Drain
    <2>1. CASE pipe = <<>>
      BY <1>6, <2>1, <1>t DEF Drain, world, limVars
    <2>2. CASE pipe # <<>>
      BY <1>6, <2>2, <1>t DEF Drain, Drained, Forward
    <2> QED
      BY <2>1, <2>2
  <1>7. CASE Eintr
    <2>1. CASE stop
      BY <1>7, <2>1, <1>t, KillEffect DEF Eintr, limVars
    <2>2. CASE ~stop
      BY <1>7, <2>2, <1>t DEF Eintr, limVars
    <2> QED
      BY <2>1, <2>2
  <1>8. CASE Discard
    BY <1>8, <1>t DEF Discard, limVars
  <1>9. CASE Wait
    BY <1>9, <1>t DEF Wait, Reaped
  <1>10. CASE Woken
    <2>1. CASE stop
      BY <1>10, <2>1, <1>t, KillEffect DEF Woken, limVars
    <2>2. CASE ~stop
      BY <1>10, <2>2, <1>t DEF Woken, limVars
    <2> QED
      BY <2>1, <2>2
  <1>11. CASE Report
    BY <1>11, <1>t DEF Report, Code, world
  <1> QED
    BY <1>1, <1>2, <1>3, <1>4, <1>5, <1>6, <1>7, <1>8, <1>9, <1>10, <1>11 DEF LimStep

LEMMA NextKeepsSafe ==
  ASSUME SafeInv, [Next]_vars
  PROVE  SafeInv'
  <1>1. TypeInv'
    BY NextKeepsTypes DEF SafeInv
  <1>2. CASE LimStep
    BY <1>1, <1>2, LimKeepsSafe
  <1>3. CASE UNCHANGED vars
    BY <1>1, <1>3 DEF vars, limVars, world, SafeInv, PhaseOK, KilledOK, OutputOK,
                      LostOK, StatusOK, CodeIsReal, Outcome, Running
  <1> QED
    BY <1>1, <1>2, <1>3, WorldKeepsSafe DEF Next

LEMMA InitSafe == Init => SafeInv
  <1> SUFFICES ASSUME Init PROVE SafeInv
    OBVIOUS
  <1>1. TypeInv
    BY InitTypes
  <1> QED
    BY <1>1 DEF Init, SafeInv, PhaseOK, KilledOK, OutputOK, LostOK, StatusOK, CodeIsReal, Running,
                Behind, Codes, NoJob

LEMMA AlwaysSafe == Spec => []SafeInv
  BY InitSafe, NextKeepsSafe, PTL DEF Spec

\* Unless the tree was killed, exec_shell returns only when nothing the shell wrote is
\* left in the pipe, whoever else holds it, and with all of it in the result up to the
\* limit (output without NUL bytes).
THEOREM TailAlwaysArrives ==
  ASSUME NoNul
  PROVE  Spec => []TailArrives
  <1>1. SafeInv => TailArrives
    <2>0. SafeInv => ~lost
      BY DEF SafeInv, LostOK, TypeInv, TypeOK, NoNul
    <2> SUFFICES ASSUME SafeInv, pc = "done", ~killed, NEW i \in DOMAIN pipe
                 PROVE  pipe[i] # "shell"
      BY <2>0 DEF TailArrives
    <2>1. i \in 1..Len(pipe)
      BY DEF SafeInv, TypeInv, TypeOK
    <2> QED
      BY <2>1 DEF SafeInv, OutputOK, Behind
  <1> QED
    BY <1>1, AlwaysSafe, PTL

\* An exit code that is reported is the command's.
THEOREM NoFabricatedCode == Spec => []CodeIsReal
  <1>1. SafeInv => CodeIsReal
    BY DEF SafeInv
  <1> QED
    BY <1>1, AlwaysSafe, PTL

\* exec_shell returns with the shell reaped and, after a kill, no process of its group.
THEOREM NothingIsLeft == Spec => []NothingLeft
  <1>1. SafeInv => NothingLeft
    BY DEF SafeInv, NothingLeft, PhaseOK, KilledOK, Running
  <1> QED
    BY <1>1, AlwaysSafe, PTL
=============================================================================
