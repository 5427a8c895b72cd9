----------------------------- MODULE ShellExec ------------------------------
(***************************************************************************)
(* The exec_shell tool (FileSystemTools::exec_shell, src/filesystem.cc):   *)
(* lim forks a shell in a process group of its own, reads the output from  *)
(* a pipe, and must notice the end of the shell though a background job    *)
(* may hold the pipe open, collect all of the output and the exit code,    *)
(* and kill the whole tree on Ctrl+C.                                      *)
(*                                                                         *)
(* lim, the shell, its background job and the signals interleave; a signal *)
(* interrupts a call only when it arrives while lim is blocked in it.  The *)
(* output is a sequence of chunks, of which only the writer matters, and   *)
(* whether a chunk is lost at a NUL byte.                                  *)
(***************************************************************************)
EXTENDS Integers, Sequences

CONSTANTS
    Buf,         \* chunks the pipe holds
    MaxOutput,   \* exec_truncation_limit, in chunks
    Scenarios    \* the sets of features to explore

\* The shell leaves a job behind; the job writes faster than lim can read; it runs in
\* a session of its own; the shell closes its output; it ends by an `exit` in the command; the
\* user presses Ctrl+C, also while lim is not blocked in a call; the output has NUL bytes.
Features == {"job", "chatty", "away", "closes", "early", "ctrlC", "late", "nul"}

ASSUME ShellAssumption ==
    /\ Buf \in Nat \ {0} /\ MaxOutput \in Nat \ {0}
    /\ Scenarios \subseteq SUBSET Features

VARIABLES
    pc,         \* where exec_shell is
    got,        \* chunks in result
    cut,        \* truncated
    lost,       \* history: output within the limit was not forwarded
    status,     \* pipe_status, what the last waitpid reported
    said,       \* what the tool result says of the exit code
    child,      \* the shell: its phase, how it ended, whether it holds the pipe
    job,        \* its background job: running, in the shell's group, holds the pipe
    pipe,       \* the chunks in the pipe
    wake,       \* a byte is in the self-pipe
    file,       \* what the script wrote to exit_code_file
    stop,       \* stop_generation
    killed,     \* history: the tree was killed
    features

limVars == <<got, cut, lost, status, said>>
world == <<child, job, pipe, file>>
vars == <<pc, limVars, world, wake, stop, killed, features>>

Codes == {"zero", "fail"}

TypeOK ==
    /\ pc \in {"open", "poll", "eintr", "read", "check", "drain", "discard", "wait",
               "woken", "report", "done"}
    /\ got \in 0..MaxOutput /\ cut \in BOOLEAN /\ lost \in BOOLEAN
    /\ status \in Codes \cup {"none", "killed"}
    /\ said \in Codes \cup {"none", "error", "unknown", "silent"}
    /\ child \in [phase : {"none", "forked", "run", "last", "zombie", "reaped"},
                  code : Codes \cup {"none", "killed"}, open : BOOLEAN]
    /\ job \in [run : BOOLEAN, group : BOOLEAN, open : BOOLEAN]
    /\ pipe \in Seq({"shell", "job"}) /\ Len(pipe) <= Buf
    /\ wake \in BOOLEAN /\ file \in Codes \cup {"none"}
    /\ stop \in BOOLEAN /\ killed \in BOOLEAN /\ features \in Scenarios

NoJob == [run |-> FALSE, group |-> FALSE, open |-> FALSE]

Running == child.phase \in {"forked", "run", "last"}

\* Every writer closed the pipe.
Eof == pipe = <<>> /\ ~child.open /\ ~job.open

PipeReady == pipe # <<>> \/ Eof

PollReady == PipeReady \/ wake
-----------------------------------------------------------------------------
\* Signals.  One that arrives while poll or waitpid blocks ends the call with EINTR;
\* one that arrives just before the call does not.

Blocked ==
    \/ pc = "poll" /\ ~PollReady
    \/ pc = "wait" /\ Running

Late == IF "late" \in features THEN {"in", "before"} ELSE {"in"}

\* sigint_handler and sigterm_handler, installed without SA_RESTART.
CtrlC ==
    /\ "ctrlC" \in features /\ ~stop /\ pc \notin {"open", "done"}
    /\ "late" \in features \/ Blocked
    /\ stop' = TRUE
    /\ \E when \in Late :
          pc' = IF Blocked /\ when = "in" THEN (IF pc = "poll" THEN "eintr" ELSE "woken")
                ELSE pc
    /\ UNCHANGED <<limVars, world, wake, killed, features>>

\* Mutant: no wake-up byte is queued.
NoByte == UNCHANGED wake

\* exec_shell_sigchld_handler
WakeByte == wake' = TRUE

\* SIGCHLD of the shell or of another child of lim.  poll is never restarted; waitpid
\* is, by SA_RESTART.
Sigchld ==
    /\ WakeByte
    /\ pc' \in IF pc = "poll" /\ ~PollReady THEN {"poll", "eintr"} ELSE {pc}

OtherChildExits ==
    /\ pc \in {"poll", "read", "check", "wait"} /\ Sigchld
    /\ UNCHANGED <<limVars, world, stop, killed, features>>

\* SIGUSR1 or SIGCONT, whose handlers only interrupt.
Poke ==
    /\ Blocked
    /\ pc' = IF pc = "poll" THEN "eintr" ELSE "woken"
    /\ UNCHANGED <<limVars, world, wake, stop, killed, features>>
-----------------------------------------------------------------------------
\* The shell and its job.

Outside == UNCHANGED <<limVars, stop, killed, features>>

SetsGroup ==
    /\ child.phase = "forked"
    /\ child' = [child EXCEPT !.phase = "run"]
    /\ UNCHANGED <<pc, job, pipe, file, wake>> /\ Outside

Writes ==
    /\ child.phase = "run" /\ child.open /\ Len(pipe) < Buf
    /\ pipe' = Append(pipe, "shell")
    /\ UNCHANGED <<pc, child, job, file, wake>> /\ Outside

ClosesOutput ==
    /\ "closes" \in features /\ child.phase = "run" /\ child.open
    /\ child' = [child EXCEPT !.open = FALSE]
    /\ UNCHANGED <<pc, job, pipe, file, wake>> /\ Outside

StartsJob ==
    /\ "job" \in features /\ child.phase = "run" /\ ~job.run
    /\ job' = [run |-> TRUE, group |-> "away" \notin features, open |-> child.open]
    /\ UNCHANGED <<pc, child, pipe, file, wake>> /\ Outside

\* echo "$?" > exit_code_file, the last line of the script.
RecordsCode ==
    /\ child.phase = "run"
    /\ \E c \in Codes : file' = c
    /\ child' = [child EXCEPT !.phase = "last"]
    /\ UNCHANGED <<pc, job, pipe, wake>> /\ Outside

Zombie(c) == [phase |-> "zombie", code |-> c, open |-> FALSE]

\* The script ends, or an `exit` in the command ends it before that line.
Exits ==
    /\ \/ child.phase = "last" /\ child' = Zombie("zero")
       \/ "early" \in features /\ child.phase = "run" /\ \E c \in Codes : child' = Zombie(c)
    /\ Sigchld
    /\ UNCHANGED <<job, pipe, file>> /\ Outside

JobWrites ==
    /\ job.run /\ job.open /\ Len(pipe) < Buf
    /\ "chatty" \in features \/ pc \notin {"drain", "discard"}
    /\ pipe' = Append(pipe, "job")
    /\ UNCHANGED <<pc, child, job, file, wake>> /\ Outside

JobEnds ==
    /\ job.run /\ job' = NoJob
    /\ UNCHANGED <<pc, child, pipe, file, wake>> /\ Outside
-----------------------------------------------------------------------------
\* exec_shell.

Lim == UNCHANGED <<stop, features>>

\* Temporary files, pipes, the SIGCHLD handler, then fork.
Open ==
    /\ pc = "open" /\ pc' = "poll"
    /\ child' = [phase |-> "forked", code |-> "none", open |-> TRUE]
    /\ UNCHANGED <<limVars, job, pipe, file, wake, killed>> /\ Lim

OpenFails ==
    /\ pc = "open" /\ pc' = "done" /\ said' = "error"
    /\ UNCHANGED <<got, cut, lost, status, world, wake, killed>> /\ Lim

\* poll, and the wake-up byte is taken.
Poll ==
    /\ pc = "poll" /\ PollReady
    /\ pc' = IF PipeReady THEN "read" ELSE "check"
    /\ wake' = FALSE
    /\ UNCHANGED <<limVars, world, killed>> /\ Lim

\* Mutant: the limit is exceeded by a chunk.
RoomForOneMore == got <= MaxOutput

Room == got < MaxOutput

\* forward_chunk of the pipe's first chunk.  What fits is appended as a C string: of a
\* chunk with a NUL byte the bytes behind it are lost, all of them if it comes first.
Forward ==
    /\ pipe' = Tail(pipe)
    /\ \/ Room /\ got' = got + 1 /\ UNCHANGED <<cut, lost>>
       \/ Room /\ "nul" \in features /\ got' \in {got, got + 1} /\ lost' = TRUE /\ UNCHANGED cut
       \/ ~Room /\ cut' = TRUE /\ UNCHANGED <<got, lost>>
    /\ UNCHANGED <<status, said, child, job, file, wake, killed>> /\ Lim

Read ==
    /\ pc = "read"
    /\ IF Eof THEN pc' = "wait" /\ UNCHANGED <<limVars, world, wake, killed>> /\ Lim
              ELSE pc' = "check" /\ Forward

Reaped == child' = [child EXCEPT !.phase = "reaped"]

\* waitpid(WNOHANG): what it reports is not kept.
Check ==
    /\ pc = "check"
    /\ IF Running THEN pc' = "poll" /\ UNCHANGED child ELSE pc' = "drain" /\ Reaped
    /\ UNCHANGED <<limVars, job, pipe, file, wake, killed>> /\ Lim

\* Mutant: one read after the shell is gone.
DrainedOnce == "wait"

\* Read on until the pipe is empty.
Drained == "drain"

Drain ==
    /\ pc = "drain"
    /\ IF pipe = <<>> THEN pc' = "wait" /\ UNCHANGED <<limVars, world, wake, killed>> /\ Lim
                      ELSE pc' = Drained /\ Forward

\* Mutants: the shell only; SIGTERM, which a stopped process does not handle.
KillShell ==
    /\ child' = IF Running THEN Zombie("killed") ELSE child
    /\ job' = job

KillTerm == child' = child /\ job' = job

\* kill(-pid, SIGKILL), or the shell alone while it has no group yet.
KillTree ==
    /\ child' = IF Running THEN Zombie("killed") ELSE child
    /\ job' = IF job.group THEN NoJob ELSE job

Kill == KillTree /\ killed' = TRUE

\* poll was interrupted.
Eintr ==
    /\ pc = "eintr"
    /\ IF stop THEN Kill /\ pc' = "discard"
               ELSE pc' = "poll" /\ UNCHANGED <<child, job, killed>>
    /\ UNCHANGED <<limVars, pipe, file, wake>> /\ Lim

Discard ==
    /\ pc = "discard"
    /\ IF pipe = <<>> THEN pc' = "wait" /\ UNCHANGED pipe ELSE UNCHANGED pc /\ pipe' = Tail(pipe)
    /\ UNCHANGED <<limVars, child, job, file, wake, killed>> /\ Lim

\* The last waitpid: a shell that was reaped before has no status any more.
Wait ==
    /\ pc = "wait" /\ ~Running
    /\ pc' = "report"
    /\ IF child.phase = "zombie" THEN Reaped /\ status' = child.code
                                 ELSE UNCHANGED <<child, status>>
    /\ UNCHANGED <<got, cut, lost, said, job, pipe, file, wake, killed>> /\ Lim

\* waitpid was interrupted.
Woken ==
    /\ pc = "woken" /\ pc' = "wait"
    /\ IF stop THEN Kill ELSE UNCHANGED <<child, job, killed>>
    /\ UNCHANGED <<limVars, pipe, file, wake>> /\ Lim

\* Mutant: no status counts as status 0.
CodeOrZero == IF file # "none" THEN file ELSE IF status = "fail" THEN "fail" ELSE "zero"

\* exit_code: the file's, else the status of a shell that exited.
Code == IF file # "none" THEN file ELSE IF status \in Codes THEN status ELSE "unknown"

\* An exit code of 0, or an unknown one, is not mentioned next to an output that is
\* complete.
Report ==
    /\ pc = "report" /\ pc' = "done"
    /\ said' = IF got = 0 \/ cut \/ Code = "fail" THEN Code ELSE "silent"
    /\ UNCHANGED <<got, cut, lost, status, world, wake, killed>> /\ Lim

Init ==
    /\ pc = "open" /\ got = 0 /\ cut = FALSE /\ lost = FALSE /\ status = "none" /\ said = "none"
    /\ child = [phase |-> "none", code |-> "none", open |-> FALSE]
    /\ job = NoJob /\ pipe = <<>> /\ wake = FALSE /\ file = "none"
    /\ stop = FALSE /\ killed = FALSE /\ features \in Scenarios

LimStep ==
    \/ Open \/ OpenFails \/ Poll \/ Read \/ Check \/ Drain \/ Eintr \/ Discard
    \/ Wait \/ Woken \/ Report

Next ==
    \/ LimStep
    \/ SetsGroup \/ Writes \/ ClosesOutput \/ StartsJob \/ RecordsCode \/ Exits
    \/ JobWrites \/ JobEnds
    \/ CtrlC \/ OtherChildExits \/ Poke

Spec == Init /\ [][Next]_vars

\* lim runs on; a command need not end.
FairSpec == Spec /\ WF_vars(LimStep)
-----------------------------------------------------------------------------
\* Properties.

\* Everything the shell wrote is in the result or behind its limit, when it was not
\* killed, whoever else writes to the pipe ("output tail drop", CHANGELOG.md 69; only "data
\* past the limit is drained but not forwarded", filesystem.cc 982).
TailArrives ==
    pc = "done" /\ ~killed => ~lost /\ \A i \in DOMAIN pipe : pipe[i] # "shell"

\* An exit code that is reported is the command's: "never fabricate an exit 0"
\* (filesystem.cc 1134).
Outcome == IF file # "none" THEN file ELSE child.code

CodeIsReal == said \in Codes => said = Outcome

\* exec_shell returns with the shell reaped, and after Ctrl+C with no process of its
\* group alive ("kill the whole tool tree", filesystem.cc 1019).
NothingLeft ==
    pc = "done" => ~Running /\ child.phase # "zombie" /\ (killed => ~(job.run /\ job.group))

\* When the shell has exited exec_shell returns, though a background job holds the pipe
\* open (filesystem.cc 820-826).
Finishes == child.phase = "zombie" ~> pc = "done"

\* A Ctrl+C that interrupts a call ends exec_shell, whatever the command does.
InterruptEnds == stop /\ pc \in {"eintr", "woken"} ~> pc = "done"

\* exec_shell is "responsive to Ctrl+C" (CHANGELOG.md 129), whenever it is pressed.
Responsive == stop ~> pc = "done"

\* A command that failed is reported as such: "Always include exit code so the LLM can
\* distinguish success from failure" (filesystem.cc 1162).
FailureIsSaid == pc = "done" /\ ~killed /\ Outcome = "fail" => said = "fail"
=============================================================================
