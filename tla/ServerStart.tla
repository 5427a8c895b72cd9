---------------------------- MODULE ServerStart -----------------------------
(***************************************************************************)
(* The browser server of lim (src/server.cc, src/limServer.py): one        *)
(* detached process that reads the FIFO every lim writes to and outlives   *)
(* the lim that started it.  A lim that starts, and /reset, must find it   *)
(* healthy, replace it, or start it, from what can be observed from        *)
(* outside: whether a port can be bound, a PID file, the command lines and *)
(* open files of processes, marker files in /tmp.                          *)
(*                                                                         *)
(* Each observation and each effect is a step; lims, servers and the fault *)
(* of the environment interleave.  A server process is represented by a    *)
(* slot, which is used again when nothing refers to the dead process.      *)
(***************************************************************************)
EXTENDS Integers, FiniteSets

CONSTANTS
    Lim,          \* the lim processes
    Port,         \* the values of LIM_PORT
    MaxServers,   \* bound of the model: server processes at a time
    MaxFaults,    \* bound of the model: crashes, cleanups, kills that fail
    MaxInode,     \* bound of the model: FIFO nodes created
    Scenarios     \* the sets of features to explore

\* The server dies; /tmp is cleaned between lims, or while one is live; lims have
\* different ports; another program has a port; a lim starts while a server is
\* starting, or another lim runs; a server that takes longer than lim waits; viewers
\* connect; a server that cannot be killed in time.
Features == {"crash", "clean", "live", "port", "foreign", "race", "slow", "client",
             "stuck"}

ASSUME ServerAssumption ==
    /\ MaxServers \in Nat /\ MaxFaults \in Nat /\ MaxInode \in Nat
    /\ Scenarios \subseteq SUBSET Features /\ Port # {}

VARIABLES
    fifo,       \* the node at FIFO_PATH, 0 for none
    nodes,      \* nodes created
    lims,       \* see Lims
    servers,    \* see Servers
    marks,      \* the files in /tmp: server_ready, browser_ready, server.pid
    taken,      \* ports other programs listen on
    faults, features

disk == <<fifo, nodes, marks>>
env == <<taken, faults, features>>
vars == <<disk, lims, servers, env>>

Slot == 1..MaxServers

Inode == 0..MaxInode

\* fd is pipe_fd (0 for -1), cand the pid that was resolved (0 for none), busy
\* whether the port was in use, told what start and wait returned, lost whether a
\* server died since the markers were removed (history).
Lims == [pc : {"off", "check", "resolve", "judge", "kill", "unlink", "fork", "wait", "run"},
         port : Port, fd : Inode, cand : 0..MaxServers, busy : BOOLEAN, lost : BOOLEAN,
         told : {"none", "reused", "ready", "late", "error", "viewer"}]

\* held is the node behind the descriptor a server inherits from its lim (pipe_fd is
\* not close-on-exec), reads the one it opened itself.
Servers == [phase : {"dead", "sh", "python", "bound", "marked", "named", "reading"},
            port : Port, held : Inode, reads : Inode, client : BOOLEAN]

TypeOK ==
    /\ fifo \in Inode /\ nodes \in Inode
    /\ lims \in [Lim -> Lims] /\ servers \in [Slot -> Servers]
    /\ marks \in [ready : BOOLEAN, browser : BOOLEAN, pid : 0..MaxServers]
    /\ taken \subseteq Port /\ faults \in 0..MaxFaults /\ features \in Scenarios
    /\ \A l \in Lim : lims[l].pc \in {"judge", "kill"} => lims[l].cand # 0

NoMarks == [ready |-> FALSE, browser |-> FALSE, pid |-> 0]

Alive(s) == servers[s].phase # "dead"

Bound(s) == servers[s].phase \in {"bound", "marked", "named", "reading"}

PortBusy(p) == p \in taken \/ \E s \in Slot : Bound(s) /\ servers[s].port = p

\* A server that is starting.
Starting(s) == Alive(s) /\ servers[s].phase # "reading"

Serves(s, l) ==
    /\ servers[s].phase = "reading" /\ servers[s].port = lims[l].port
    /\ servers[s].reads = lims[l].fd
-----------------------------------------------------------------------------
\* What a lim observes.

\* is_our_server_pid: a python that runs limServer.py.
Ours(s) == Alive(s) /\ servers[s].phase # "sh"

\* resolve_our_server_pid: the PID file's, else any that a scan of /proc finds.
Resolved == IF marks.pid # 0 /\ Ours(marks.pid) THEN {marks.pid}
            ELSE IF \E s \in Slot : Ours(s) THEN {s \in Slot : Ours(s)} ELSE {0}

\* The node that lim writes to, or would open.
NodeOf(l) == IF lims[l].fd # 0 THEN lims[l].fd ELSE fifo

\* Mutant: any server of ours is taken to read our node.
HoldsAny(s, l) == TRUE

\* pid_serves_our_fifo, true when it cannot be told.
HoldsFifo(s, l) ==
    NodeOf(l) # 0 /\ Alive(s) => NodeOf(l) \in {servers[s].held, servers[s].reads}

\* is_lim_server_healthy
Healthy(l) ==
    PortBusy(lims[l].port) /\ \E s \in Resolved \ {0} : HoldsFifo(s, l)
-----------------------------------------------------------------------------
\* The lim process.

Set(l, f, v) == lims' = [lims EXCEPT ![l][f] = v]

Told(l, what) == lims' = [lims EXCEPT ![l].pc = "run", ![l].told = what]

\* Servers had the time to start; and one lim at a time.
Settled == \A s \in Slot : ~Starting(s)

Quiet == Settled /\ \A l \in Lim : lims[l].pc = "off"

Off(p) == [pc |-> "off", port |-> p, fd |-> 0, cand |-> 0, busy |-> FALSE, lost |-> FALSE,
           told |-> "none"]

\* mkfifo, which leaves a node that exists.
FifoMade == fifo # 0 \/ nodes < MaxInode

MakeFifo ==
    IF fifo # 0 THEN UNCHANGED <<fifo, nodes>> ELSE nodes' = nodes + 1 /\ fifo' = nodes + 1

LimStarts(l, p) ==
    /\ lims[l].pc = "off" /\ ("race" \in features \/ Quiet) /\ FifoMade
    /\ MakeFifo
    /\ lims' = [lims EXCEPT ![l] = [Off(p) EXCEPT !.pc = "check", !.fd = fifo']]
    /\ UNCHANGED <<marks, servers, env>>

\* It exits or is killed, wherever it is.
LimEnds(l) ==
    /\ lims[l].pc # "off"
    /\ lims' = [lims EXCEPT ![l] = Off(lims[l].port)]
    /\ UNCHANGED <<disk, servers, env>>

CheckPort(l) ==
    /\ lims[l].pc = "check"
    /\ lims' = [lims EXCEPT ![l].pc = "resolve", ![l].busy = PortBusy(lims[l].port)]
    /\ UNCHANGED <<disk, servers, env>>

\* A port in use without a server of ours is another program's: an error.
Found(l, s) == IF s # 0 THEN "judge" ELSE IF lims[l].busy THEN "run" ELSE "unlink"

Resolve(l) ==
    /\ lims[l].pc = "resolve"
    /\ \E s \in Resolved :
          lims' = [lims EXCEPT ![l].pc = Found(l, s), ![l].cand = s,
                               ![l].told = IF Found(l, s) = "run" THEN "error" ELSE @]
    /\ UNCHANGED <<disk, servers, env>>

\* Mutants: a server of another port is left alone; every server is replaced.
KillAll(l, s) == lims[l].busy \/ HoldsFifo(s, l)

NotToKill(l, s) == ~HoldsFifo(s, l)

ToKill(l, s) == IF lims[l].busy THEN ~HoldsFifo(s, l) ELSE HoldsFifo(s, l)

\* Port in use: reuse a server on our node, replace one on another.  Port free: one
\* that holds our node is of an earlier LIM_PORT, any other is left alone.
Judge(l) ==
    /\ lims[l].pc = "judge"
    /\ lims' = IF ToKill(l, lims[l].cand) THEN [lims EXCEPT ![l].pc = "kill"]
               ELSE IF lims[l].busy THEN [lims EXCEPT ![l].pc = "run", ![l].told = "reused"]
               ELSE [lims EXCEPT ![l].pc = "unlink"]
    /\ UNCHANGED <<disk, servers, env>>

Dead(s) == servers' = [servers EXCEPT ![s] = [@ EXCEPT !.phase = "dead", !.held = 0,
                                                       !.reads = 0, !.client = FALSE]]

\* kill_our_server; then a port that was in use is free, and is treated as such.
Kill(l) ==
    /\ lims[l].pc = "kill"
    /\ Dead(lims[l].cand)
    /\ lims' = [[q \in Lim |-> [lims[q] EXCEPT !.lost = TRUE]]
                  EXCEPT ![l].pc = IF lims[l].busy THEN "resolve" ELSE "unlink",
                         ![l].busy = FALSE, ![l].cand = 0]
    /\ UNCHANGED <<disk, env>>

\* Not gone in 3 s.
KillFails(l) ==
    /\ lims[l].pc = "kill" /\ "stuck" \in features /\ faults < MaxFaults
    /\ Told(l, "error") /\ faults' = faults + 1
    /\ UNCHANGED <<disk, servers, taken, features>>

\* Mutants: a marker of an earlier server stays.
ReadyKept == [marks EXCEPT !.browser = FALSE, !.pid = 0]

BrowserKept == [marks EXCEPT !.ready = FALSE, !.pid = 0]

Unlinked == NoMarks

Unlink(l) ==
    /\ lims[l].pc = "unlink"
    /\ marks' = Unlinked
    /\ lims' = [lims EXCEPT ![l].pc = "fork", ![l].lost = FALSE]
    /\ UNCHANGED <<fifo, nodes, servers, env>>

\* Bound of the model: a slot is free when nothing refers to its last process.
Free(s) == ~Alive(s) /\ marks.pid # s /\ \A l \in Lim : lims[l].cand # s

Fork(l) ==
    /\ lims[l].pc = "fork"
    /\ \E s \in Slot :
          /\ Free(s) /\ \A q \in 1..(s - 1) : ~Free(q)
          /\ servers' = [servers EXCEPT ![s] = [phase |-> "sh", port |-> lims[l].port,
                                                held |-> lims[l].fd, reads |-> 0, client |-> FALSE]]
    /\ lims' = [lims EXCEPT ![l].pc = "wait", ![l].cand = 0]
    /\ UNCHANGED <<disk, env>>

\* wait_for_file, 15 s.
Ready(l) ==
    /\ lims[l].pc = "wait" /\ marks.ready
    /\ Told(l, "ready")
    /\ UNCHANGED <<disk, servers, env>>

\* The marker does not come: the server died or lost the port, or it is slow.
WaitTimeout(l) ==
    /\ lims[l].pc = "wait" /\ ~marks.ready
    /\ "slow" \in features \/ Settled
    /\ Told(l, "late")
    /\ UNCHANGED <<disk, servers, env>>

\* /reset
Reset(l) ==
    /\ lims[l].pc = "run" /\ ~Healthy(l)
    /\ Settled \/ features \cap {"race", "slow"} # {}
    /\ lims' = [lims EXCEPT ![l].pc = "check", ![l].told = "none"]
    /\ UNCHANGED <<disk, servers, env>>

\* prompt_for_browser_connection returns: the marker says that a viewer is there.
BrowserThere(l) ==
    /\ lims[l].pc = "run" /\ marks.browser /\ lims[l].told # "viewer"
    /\ Set(l, "told", "viewer")
    /\ UNCHANGED <<disk, servers, env>>

\* pipe_write: a full FIFO that nobody drains is closed, the next write opens the
\* path again.
PipeStalls(l) ==
    /\ lims[l].pc = "run" /\ lims[l].fd # 0
    /\ \A s \in Slot : servers[s].reads # lims[l].fd
    /\ Set(l, "fd", 0)
    /\ UNCHANGED <<disk, servers, env>>

PipeReopens(l) ==
    /\ lims[l].pc = "run" /\ lims[l].fd = 0 /\ fifo # 0
    /\ Set(l, "fd", fifo)
    /\ UNCHANGED <<disk, servers, env>>
-----------------------------------------------------------------------------
\* limServer.py.

Enter(s, phase) == servers' = [servers EXCEPT ![s].phase = phase]

Exec(s) ==
    /\ servers[s].phase = "sh" /\ Enter(s, "python")
    /\ UNCHANGED <<disk, lims, env>>

\* A port that is in use ends it.
Bind(s) ==
    /\ servers[s].phase = "python"
    /\ IF PortBusy(servers[s].port) THEN Dead(s) ELSE Enter(s, "bound")
    /\ UNCHANGED <<disk, lims, env>>

MarkReady(s) ==
    /\ servers[s].phase = "bound" /\ Enter(s, "marked")
    /\ marks' = [marks EXCEPT !.ready = TRUE]
    /\ UNCHANGED <<fifo, nodes, lims, env>>

MarkPid(s) ==
    /\ servers[s].phase = "marked" /\ Enter(s, "named")
    /\ marks' = [marks EXCEPT !.pid = s]
    /\ UNCHANGED <<fifo, nodes, lims, env>>

OpenFifo(s) ==
    /\ servers[s].phase = "named" /\ FifoMade
    /\ MakeFifo
    /\ servers' = [servers EXCEPT ![s].phase = "reading", ![s].reads = fifo']
    /\ UNCHANGED <<marks, lims, env>>

\* websocket_handler and _update_browser_ready
Connect(s) ==
    /\ "client" \in features /\ Bound(s) /\ ~servers[s].client
    /\ servers' = [servers EXCEPT ![s].client = TRUE]
    /\ marks' = [marks EXCEPT !.browser = TRUE]
    /\ UNCHANGED <<fifo, nodes, lims, env>>

Disconnect(s) ==
    /\ servers[s].client
    /\ servers' = [servers EXCEPT ![s].client = FALSE]
    /\ marks' = [marks EXCEPT !.browser = FALSE]
    /\ UNCHANGED <<fifo, nodes, lims, env>>
-----------------------------------------------------------------------------
\* The environment.

Crash(s) ==
    /\ "crash" \in features /\ Alive(s) /\ faults < MaxFaults
    /\ Dead(s) /\ faults' = faults + 1
    /\ lims' = [l \in Lim |-> [lims[l] EXCEPT !.lost = TRUE]]
    /\ UNCHANGED <<disk, taken, features>>

CleanTmp ==
    /\ "clean" \in features /\ faults < MaxFaults /\ ("live" \in features \/ Quiet)
    /\ fifo' = 0 /\ marks' = NoMarks /\ faults' = faults + 1
    /\ UNCHANGED <<nodes, lims, servers, taken, features>>

ForeignEnds(p) ==
    /\ p \in taken /\ taken' = taken \ {p}
    /\ UNCHANGED <<disk, lims, servers, faults, features>>

Init ==
    /\ fifo = 0 /\ nodes = 0 /\ marks = NoMarks /\ faults = 0
    /\ features \in Scenarios
    /\ taken \in SUBSET Port /\ (taken # {} => "foreign" \in features)
    /\ LET p == CHOOSE p \in Port : TRUE IN
          /\ lims = [l \in Lim |-> Off(p)]
          /\ servers = [s \in Slot |-> [phase |-> "dead", port |-> p, held |-> 0,
                                        reads |-> 0, client |-> FALSE]]

\* Without the feature all lims use the port they found at first.
Start(l) == \E p \in Port : LimStarts(l, p) /\ ("port" \in features \/ p = lims[l].port)

LimStep(l) ==
    \/ CheckPort(l) \/ Resolve(l) \/ Judge(l) \/ Kill(l) \/ KillFails(l) \/ Unlink(l)
    \/ Fork(l) \/ Ready(l) \/ WaitTimeout(l)

ServerStep(s) == Exec(s) \/ Bind(s) \/ MarkReady(s) \/ MarkPid(s) \/ OpenFifo(s)

UserStep(l) == Start(l) \/ LimEnds(l) \/ Reset(l) \/ BrowserThere(l)

PipeStep(l) == PipeStalls(l) \/ PipeReopens(l)

Fault == (\E s \in Slot : Crash(s)) \/ CleanTmp \/ \E p \in Port : ForeignEnds(p)

Next ==
    \/ \E l \in Lim : LimStep(l) \/ UserStep(l) \/ PipeStep(l)
    \/ \E s \in Slot : ServerStep(s) \/ Connect(s) \/ Disconnect(s)
    \/ Fault

Spec == Init /\ [][Next]_vars

\* Processes run on, other programs give their port up, the user of a lim without
\* a healthy server tries /reset, and writes go on.
FairSpec ==
    /\ Spec
    /\ \A l \in Lim : WF_vars(LimStep(l)) /\ WF_vars(Reset(l)) /\ WF_vars(PipeStep(l))
    /\ \A s \in Slot : WF_vars(ServerStep(s))
    /\ \A p \in Port : WF_vars(ForeignEnds(p))
-----------------------------------------------------------------------------
\* Properties.

\* One server reads a FIFO node: "two servers on one FIFO would split the stream"
\* (server.cc 364).
OneReader ==
    \A s, q \in Slot : servers[s].reads # 0 /\ servers[s].reads = servers[q].reads => s = q

\* A lim that is told to reuse a server has one on its port that reads the node it
\* writes to, or is about to open it, unless that server was lost meanwhile: "lim's
\* writes actually reach this process" (server.cc 216).
WillServe(s, l) ==
    /\ Alive(s) /\ servers[s].port = lims[l].port
    /\ (IF lims[l].fd = 0 THEN fifo ELSE lims[l].fd)
          = (IF servers[s].phase = "reading" THEN servers[s].reads ELSE fifo)

ReusedServes ==
    [][\A l \in Lim :
          lims'[l].told = "reused" /\ lims[l].pc = "judge" /\ Alive(lims[l].cand) =>
              \E s \in Slot : WillServe(s, l)]_vars

\* A lim that is told that its server is ready has one that listens on its port,
\* unless a server died meanwhile: the marker is never an earlier server's.
ReadyListens ==
    [][\A l \in Lim :
          lims[l].told = "none" /\ lims'[l].told = "ready" /\ ~lims[l].lost =>
              \E s \in Slot : Bound(s) /\ servers[s].port = lims[l].port]_vars

\* A lim that goes on because a viewer is there has one: "the marker only exists while
\* a client is connected" (server.cc 505).
ViewerThere ==
    [][\A l \in Lim : lims[l].told # "viewer" /\ lims'[l].told = "viewer" =>
          \E s \in Slot : servers[s].client]_vars

\* lim "never kills a healthy server" (server.h 23): one that listens on its port and
\* reads the node it writes to.
KillsHealthy(l) == lims[l].pc = "kill" /\ lims'[l].pc # "kill" /\ Serves(lims[l].cand, l)

KeepsHealthy == [][\A l \in Lim : ~KillsHealthy(l)]_vars

\* The same, while no lim starts next to another or to a server that is starting.
KeepsHealthyAlone ==
    [][\A l \in Lim : KillsHealthy(l) => features \cap {"race", "slow"} # {}]_vars

\* Whatever crashed or was deleted before, a lim that stays alone with a user who
\* tries /reset gets a server that reads what it writes.  Two that try may kill each
\* other's starting server for ever.
Alone(l) == lims[l].pc # "off" /\ features \cap {"race", "slow"} = {}

Served(l) == \E s \in Slot : Serves(s, l)

Heals == \A l \in Lim : <>[]Alone(l) => []<>Served(l)
=============================================================================
