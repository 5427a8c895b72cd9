------------------------- MODULE ServerStartProofs --------------------------
(***************************************************************************)
(* What a lim may rely on when it starts its server, for every number of   *)
(* lims, ports, servers, faults and FIFO nodes.  Each part of the          *)
(* invariant says of which features it needs the absence, so that each     *)
(* theorem states its own hypothesis.                                      *)
(***************************************************************************)
EXTENDS ServerStart, TLAPS

ThePort == CHOOSE p \in Port : TRUE

Without(fs) == features \cap fs = {}

\* Lims that differ in their ports come one at a time, and find /tmp as it was left.
PortsKept == Without({"port"}) \/ Without({"race", "clean"})

-----------------------------------------------------------------------------
\* A server is what its phase says, and has its port to itself.
ServersSound ==
    \A s \in Slot :
        /\ servers[s].reads # 0 <=> servers[s].phase = "reading"
        /\ servers[s].client => Bound(s)
        /\ Bound(s) => servers[s].port \notin taken
        /\ \A q \in Slot : Bound(s) /\ Bound(q) /\ servers[s].port = servers[q].port => s = q

\* Without the feature there is one port, and without foreign programs none is taken.
OnePort ==
    /\ Without({"port"}) => /\ \A l \in Lim : lims[l].port = ThePort
                            /\ \A s \in Slot : servers[s].port = ThePort
    /\ Without({"foreign"}) => taken = {}

\* Lims start one at a time.
OneLim ==
    Without({"race"}) => \A l, q \in Lim : lims[l].pc # "off" /\ lims[q].pc # "off" => l = q

\* The node of a server is the present one, or /tmp was cleaned since it started.
NodesKept == Without({"live"}) \/ Without({"clean"})

NodesSound ==
    /\ NodesKept =>
          /\ \A s \in Slot : /\ Starting(s) => fifo # 0 /\ servers[s].held \in {0, fifo}
                             /\ servers[s].phase = "reading" => servers[s].held \in {0, servers[s].reads}
          /\ \A l \in Lim : lims[l].pc # "off" => fifo # 0 /\ lims[l].fd \in {0, fifo}
    /\ Without({"clean"}) => \A s \in Slot : servers[s].reads \in {0, fifo}

Stranger(s, l) == Alive(s) /\ servers[s].port # lims[l].port

\* With lims of different ports the live servers have the same: that of the lim that
\* runs, unless there is only one, a stranger that it found and did not replace.
PortsSound ==
    Without({"race", "clean"}) =>
        /\ \A s, q \in Slot : Alive(s) /\ Alive(q) => servers[s].port = servers[q].port
        /\ \A l \in Lim, s \in Slot : lims[l].pc # "off" /\ Stranger(s, l) =>
              /\ servers[s].phase = "reading" /\ \A q \in Slot : Alive(q) => q = s
              /\ lims[l].pc \in {"check", "resolve", "judge", "kill", "run"}
              /\ lims[l].pc \in {"judge", "kill"} => lims[l].cand = s
              /\ lims[l].pc \in {"resolve", "judge", "kill"} /\ Without({"foreign"}) => ~lims[l].busy

\* A lim that looks at servers that had the time to start finds at most one.
AloneSound ==
    Without({"race", "slow"}) /\ PortsKept =>
        /\ \A s, q \in Slot : Alive(s) /\ Alive(q) => s = q
        /\ \A l \in Lim :
              /\ lims[l].pc \notin {"off", "wait", "run"} => Settled
              /\ lims[l].pc \in {"unlink", "fork"} => \A s \in Slot : ~Alive(s)
              /\ lims[l].pc \in {"judge", "kill"} => \A s \in Slot : Alive(s) => s = lims[l].cand
              /\ lims[l].pc \in {"resolve", "judge", "kill"} /\ ~lims[l].busy =>
                    \A s \in Slot : Alive(s) => servers[s].port # lims[l].port
              /\ lims[l].pc = "kill" /\ lims[l].busy => ~Serves(lims[l].cand, l)

\* The marker of a lim that waits is of a server that lives, unless one died.
ReadySound ==
    PortsKept =>
        \A l \in Lim : lims[l].pc \in {"fork", "wait"} /\ ~lims[l].lost /\ marks.ready =>
            \E s \in Slot : Bound(s) /\ servers[s].port = lims[l].port

\* Viewers come without crashes, races, slow servers, and foreign programs next to
\* lims of different ports.
ViewersKept ==
    /\ Without({"crash", "race", "slow"}) /\ PortsKept
    /\ Without({"port"}) \/ Without({"foreign"})

Viewer == \E s \in Slot : servers[s].client

\* The viewer's marker is left behind by a server that was killed, and the lim that
\* killed it, or the next one, is on its way to remove it.
ViewerGone ==
    /\ \A s \in Slot : ~Alive(s)
    /\ \A l \in Lim : /\ lims[l].pc \in {"off", "check", "resolve", "unlink"}
                      /\ lims[l].pc = "resolve" => ~lims[l].busy
    /\ IF Without({"port"}) THEN ThePort \notin taken ELSE taken = {}

ViewerSound == ViewersKept /\ marks.browser /\ ~Viewer => ViewerGone

\* Only a lim that runs was told something, and only a viewer's server makes the
\* viewer's marker.
ToldSound ==
    /\ \A l \in Lim : lims[l].told # "none" => lims[l].pc = "run"
    /\ Without({"client"}) => ~marks.browser

ServerInv ==
    /\ ServersSound /\ OnePort /\ OneLim /\ NodesSound /\ PortsSound
    /\ AloneSound /\ ReadySound /\ ViewerSound /\ ToldSound

-----------------------------------------------------------------------------
\* What the theorems suppose of the scenarios.

PortsApart(f) == "port" \notin f \/ f \cap {"race", "clean"} = {}

\* Lims that differ in their ports come one at a time, and find /tmp as it was left.
Apart == \A f \in Scenarios : PortsApart(f)

\* Nor is /tmp cleaned under a lim, or another program next to lims of many ports.
ReuseApart ==
    \A f \in Scenarios :
        /\ PortsApart(f)
        /\ ~({"clean", "live"} \subseteq f) /\ ~({"port", "foreign"} \subseteq f)

\* And where there are viewers no server crashes, is overtaken or is slow.
ViewApart ==
    \A f \in Scenarios : "client" \in f =>
        /\ PortsApart(f) /\ f \cap {"crash", "race", "slow"} = {}
        /\ ~({"port", "foreign"} \subseteq f)

-----------------------------------------------------------------------------
\* Types.

LimPc == {"off", "check", "resolve", "judge", "kill", "unlink", "fork", "wait", "run"}

LimTold == {"none", "reused", "ready", "late", "error", "viewer"}

LimRec == [pc : LimPc, port : Port, fd : Inode, cand : 0..MaxServers, busy : BOOLEAN,
           lost : BOOLEAN, told : LimTold]

Phases == {"dead", "sh", "python", "bound", "marked", "named", "reading"}

ServerRec == [phase : Phases, port : Port, held : Inode, reads : Inode, client : BOOLEAN]

\* The lims and servers, and what one of them is made of.
LEMMA Tables ==
    ASSUME TypeOK
    PROVE  /\ lims \in [Lim -> LimRec] /\ servers \in [Slot -> ServerRec]
           /\ \A l \in Lim : lims[l] \in LimRec
           /\ \A s \in Slot : servers[s] \in ServerRec
BY DEF TypeOK, LimRec, LimPc, LimTold, Lims, ServerRec, Phases, Servers

\* None is a pid and a node.
LEMMA Zeros == 0 \in Inode /\ 0 \in 0..MaxServers
BY ServerAssumption DEF Inode

-----------------------------------------------------------------------------
\* What each step does, field by field.

SameLims(l) == \A q \in Lim \ {l} : lims'[q] = lims[q]

SameServers(s) == \A q \in Slot \ {s} : servers'[q] = servers[q]

\* check_port
LEMMA CheckPortDoes ==
    ASSUME TypeOK, NEW l \in Lim, CheckPort(l)
    PROVE  /\ lims' \in [Lim -> LimRec] /\ SameLims(l)
           /\ lims'[l].port = lims[l].port /\ lims'[l].fd = lims[l].fd
           /\ lims'[l].cand = lims[l].cand /\ lims'[l].lost = lims[l].lost
           /\ lims'[l].told = lims[l].told
           /\ lims'[l].pc = "resolve"
           /\ lims'[l].busy = PortBusy(lims[l].port)
           /\ lims[l].pc = "check"
           /\ UNCHANGED <<disk, servers, env>>
<1> DEFINE r == [lims[l] EXCEPT !.pc = "resolve", !.busy = PortBusy(lims[l].port)]
<1>1. lims \in [Lim -> LimRec] /\ lims[l] \in LimRec
  BY Tables
<1>2. r \in LimRec
  BY <1>1, Zeros DEF LimRec, LimPc, LimTold, PortBusy
<1>3. /\ r.port = lims[l].port /\ r.fd = lims[l].fd /\ r.cand = lims[l].cand
      /\ r.lost = lims[l].lost /\ r.told = lims[l].told /\ r.pc = "resolve"
      /\ r.busy = PortBusy(lims[l].port)
  BY <1>1 DEF LimRec
<1>4. lims' = [lims EXCEPT ![l] = r]
  BY <1>1 DEF CheckPort
<1> HIDE DEF r
<1> QED  BY <1>1, <1>2, <1>3, <1>4 DEF CheckPort, SameLims

\* /reset
LEMMA ResetDoes ==
    ASSUME TypeOK, NEW l \in Lim, Reset(l)
    PROVE  /\ lims' \in [Lim -> LimRec] /\ SameLims(l)
           /\ lims'[l].port = lims[l].port /\ lims'[l].fd = lims[l].fd
           /\ lims'[l].cand = lims[l].cand /\ lims'[l].busy = lims[l].busy
           /\ lims'[l].lost = lims[l].lost
           /\ lims'[l].pc = "check"
           /\ lims'[l].told = "none"
           /\ lims[l].pc = "run"
           /\ Settled \/ features \cap {"race", "slow"} # {}
           /\ UNCHANGED <<disk, servers, env>>
<1> DEFINE r == [lims[l] EXCEPT !.pc = "check", !.told = "none"]
<1>1. lims \in [Lim -> LimRec] /\ lims[l] \in LimRec
  BY Tables
<1>2. r \in LimRec
  BY <1>1, Zeros DEF LimRec, LimPc, LimTold, PortBusy
<1>3. /\ r.port = lims[l].port /\ r.fd = lims[l].fd /\ r.cand = lims[l].cand
      /\ r.busy = lims[l].busy /\ r.lost = lims[l].lost /\ r.pc = "check" /\ r.told = "none"
  BY <1>1 DEF LimRec
<1>4. lims' = [lims EXCEPT ![l] = r]
  BY <1>1 DEF Reset
<1> HIDE DEF r
<1> QED  BY <1>1, <1>2, <1>3, <1>4 DEF Reset, SameLims

\* A server that does not die.
LEMMA KillFailsDoes ==
    ASSUME TypeOK, NEW l \in Lim, KillFails(l)
    PROVE  /\ lims' \in [Lim -> LimRec] /\ SameLims(l)
           /\ lims'[l].port = lims[l].port /\ lims'[l].fd = lims[l].fd
           /\ lims'[l].cand = lims[l].cand /\ lims'[l].busy = lims[l].busy
           /\ lims'[l].lost = lims[l].lost
           /\ lims'[l].pc = "run"
           /\ lims'[l].told = "error"
           /\ lims[l].pc = "kill"
           /\ UNCHANGED <<disk, servers, taken, features>>
<1> DEFINE r == [lims[l] EXCEPT !.pc = "run", !.told = "error"]
<1>1. lims \in [Lim -> LimRec] /\ lims[l] \in LimRec
  BY Tables
<1>2. r \in LimRec
  BY <1>1, Zeros DEF LimRec, LimPc, LimTold, PortBusy
<1>3. /\ r.port = lims[l].port /\ r.fd = lims[l].fd /\ r.cand = lims[l].cand
      /\ r.busy = lims[l].busy /\ r.lost = lims[l].lost /\ r.pc = "run" /\ r.told = "error"
  BY <1>1 DEF LimRec
<1>4. lims' = [lims EXCEPT ![l] = r]
  BY <1>1 DEF KillFails, Told
<1> HIDE DEF r
<1> QED  BY <1>1, <1>2, <1>3, <1>4 DEF KillFails, SameLims, Told

\* The markers are removed.
LEMMA UnlinkDoes ==
    ASSUME TypeOK, NEW l \in Lim, Unlink(l)
    PROVE  /\ lims' \in [Lim -> LimRec] /\ SameLims(l)
           /\ lims'[l].port = lims[l].port /\ lims'[l].fd = lims[l].fd
           /\ lims'[l].cand = lims[l].cand /\ lims'[l].busy = lims[l].busy
           /\ lims'[l].told = lims[l].told
           /\ lims'[l].pc = "fork"
           /\ lims'[l].lost = FALSE
           /\ lims[l].pc = "unlink"
           /\ marks' = NoMarks
           /\ UNCHANGED <<fifo, nodes, servers, env>>
<1> DEFINE r == [lims[l] EXCEPT !.pc = "fork", !.lost = FALSE]
<1>1. lims \in [Lim -> LimRec] /\ lims[l] \in LimRec
  BY Tables
<1>2. r \in LimRec
  BY <1>1, Zeros DEF LimRec, LimPc, LimTold, PortBusy
<1>3. /\ r.port = lims[l].port /\ r.fd = lims[l].fd /\ r.cand = lims[l].cand
      /\ r.busy = lims[l].busy /\ r.told = lims[l].told /\ r.pc = "fork" /\ r.lost = FALSE
  BY <1>1 DEF LimRec
<1>4. lims' = [lims EXCEPT ![l] = r]
  BY <1>1 DEF Unlink, Unlinked
<1> HIDE DEF r
<1> QED  BY <1>1, <1>2, <1>3, <1>4 DEF Unlink, SameLims, Unlinked

\* The marker is there.
LEMMA ReadyDoes ==
    ASSUME TypeOK, NEW l \in Lim, Ready(l)
    PROVE  /\ lims' \in [Lim -> LimRec] /\ SameLims(l)
           /\ lims'[l].port = lims[l].port /\ lims'[l].fd = lims[l].fd
           /\ lims'[l].cand = lims[l].cand /\ lims'[l].busy = lims[l].busy
           /\ lims'[l].lost = lims[l].lost
           /\ lims'[l].pc = "run"
           /\ lims'[l].told = "ready"
           /\ lims[l].pc = "wait"
           /\ marks.ready
           /\ UNCHANGED <<disk, servers, env>>
<1> DEFINE r == [lims[l] EXCEPT !.pc = "run", !.told = "ready"]
<1>1. lims \in [Lim -> LimRec] /\ lims[l] \in LimRec
  BY Tables
<1>2. r \in LimRec
  BY <1>1, Zeros DEF LimRec, LimPc, LimTold, PortBusy
<1>3. /\ r.port = lims[l].port /\ r.fd = lims[l].fd /\ r.cand = lims[l].cand
      /\ r.busy = lims[l].busy /\ r.lost = lims[l].lost /\ r.pc = "run" /\ r.told = "ready"
  BY <1>1 DEF LimRec
<1>4. lims' = [lims EXCEPT ![l] = r]
  BY <1>1 DEF Ready, Told
<1> HIDE DEF r
<1> QED  BY <1>1, <1>2, <1>3, <1>4 DEF Ready, SameLims, Told

\* The marker does not come.
LEMMA WaitTimeoutDoes ==
    ASSUME TypeOK, NEW l \in Lim, WaitTimeout(l)
    PROVE  /\ lims' \in [Lim -> LimRec] /\ SameLims(l)
           /\ lims'[l].port = lims[l].port /\ lims'[l].fd = lims[l].fd
           /\ lims'[l].cand = lims[l].cand /\ lims'[l].busy = lims[l].busy
           /\ lims'[l].lost = lims[l].lost
           /\ lims'[l].pc = "run"
           /\ lims'[l].told = "late"
           /\ lims[l].pc = "wait"
           /\ "slow" \in features \/ Settled
           /\ UNCHANGED <<disk, servers, env>>
<1> DEFINE r == [lims[l] EXCEPT !.pc = "run", !.told = "late"]
<1>1. lims \in [Lim -> LimRec] /\ lims[l] \in LimRec
  BY Tables
<1>2. r \in LimRec
  BY <1>1, Zeros DEF LimRec, LimPc, LimTold, PortBusy
<1>3. /\ r.port = lims[l].port /\ r.fd = lims[l].fd /\ r.cand = lims[l].cand
      /\ r.busy = lims[l].busy /\ r.lost = lims[l].lost /\ r.pc = "run" /\ r.told = "late"
  BY <1>1 DEF LimRec
<1>4. lims' = [lims EXCEPT ![l] = r]
  BY <1>1 DEF WaitTimeout, Told
<1> HIDE DEF r
<1> QED  BY <1>1, <1>2, <1>3, <1>4 DEF WaitTimeout, SameLims, Told

\* A viewer is said to be there.
LEMMA BrowserThereDoes ==
    ASSUME TypeOK, NEW l \in Lim, BrowserThere(l)
    PROVE  /\ lims' \in [Lim -> LimRec] /\ SameLims(l)
           /\ lims'[l].pc = lims[l].pc /\ lims'[l].port = lims[l].port
           /\ lims'[l].fd = lims[l].fd /\ lims'[l].cand = lims[l].cand
           /\ lims'[l].busy = lims[l].busy /\ lims'[l].lost = lims[l].lost
           /\ lims'[l].told = "viewer"
           /\ lims[l].pc = "run"
           /\ marks.browser
           /\ UNCHANGED <<disk, servers, env>>
<1> DEFINE r == [lims[l] EXCEPT !.told = "viewer"]
<1>1. lims \in [Lim -> LimRec] /\ lims[l] \in LimRec
  BY Tables
<1>2. r \in LimRec
  BY <1>1, Zeros DEF LimRec, LimPc, LimTold, PortBusy
<1>3. /\ r.pc = lims[l].pc /\ r.port = lims[l].port /\ r.fd = lims[l].fd
      /\ r.cand = lims[l].cand /\ r.busy = lims[l].busy /\ r.lost = lims[l].lost
      /\ r.told = "viewer"
  BY <1>1 DEF LimRec
<1>4. lims' = [lims EXCEPT ![l] = r]
  BY <1>1 DEF BrowserThere, Set
<1> HIDE DEF r
<1> QED  BY <1>1, <1>2, <1>3, <1>4 DEF BrowserThere, SameLims, Set

\* A FIFO that nobody drains is closed.
LEMMA PipeStallsDoes ==
    ASSUME TypeOK, NEW l \in Lim, PipeStalls(l)
    PROVE  /\ lims' \in [Lim -> LimRec] /\ SameLims(l)
           /\ lims'[l].pc = lims[l].pc /\ lims'[l].port = lims[l].port
           /\ lims'[l].cand = lims[l].cand /\ lims'[l].busy = lims[l].busy
           /\ lims'[l].lost = lims[l].lost /\ lims'[l].told = lims[l].told
           /\ lims'[l].fd = 0
           /\ lims[l].pc = "run"
           /\ UNCHANGED <<disk, servers, env>>
<1> DEFINE r == [lims[l] EXCEPT !.fd = 0]
<1>1. lims \in [Lim -> LimRec] /\ lims[l] \in LimRec
  BY Tables
<1>2. r \in LimRec
  BY <1>1, Zeros DEF LimRec, LimPc, LimTold, PortBusy
<1>3. /\ r.pc = lims[l].pc /\ r.port = lims[l].port /\ r.cand = lims[l].cand
      /\ r.busy = lims[l].busy /\ r.lost = lims[l].lost /\ r.told = lims[l].told /\ r.fd = 0
  BY <1>1 DEF LimRec
<1>4. lims' = [lims EXCEPT ![l] = r]
  BY <1>1 DEF PipeStalls, Set
<1> HIDE DEF r
<1> QED  BY <1>1, <1>2, <1>3, <1>4 DEF PipeStalls, SameLims, Set

\* The FIFO is opened again.
LEMMA PipeReopensDoes ==
    ASSUME TypeOK, NEW l \in Lim, PipeReopens(l)
    PROVE  /\ lims' \in [Lim -> LimRec] /\ SameLims(l)
           /\ lims'[l].pc = lims[l].pc /\ lims'[l].port = lims[l].port
           /\ lims'[l].cand = lims[l].cand /\ lims'[l].busy = lims[l].busy
           /\ lims'[l].lost = lims[l].lost /\ lims'[l].told = lims[l].told
           /\ lims'[l].fd = fifo
           /\ lims[l].pc = "run"
           /\ fifo # 0
           /\ UNCHANGED <<disk, servers, env>>
<1> DEFINE r == [lims[l] EXCEPT !.fd = fifo]
<1>1. lims \in [Lim -> LimRec] /\ lims[l] \in LimRec
  BY Tables
<1>2. r \in LimRec
  BY <1>1 DEF LimRec, LimPc, LimTold, TypeOK
<1>3. /\ r.pc = lims[l].pc /\ r.port = lims[l].port /\ r.cand = lims[l].cand
      /\ r.busy = lims[l].busy /\ r.lost = lims[l].lost /\ r.told = lims[l].told /\ r.fd = fifo
  BY <1>1 DEF LimRec
<1>4. lims' = [lims EXCEPT ![l] = r]
  BY <1>1 DEF PipeReopens, Set
<1> HIDE DEF r
<1> QED  BY <1>1, <1>2, <1>3, <1>4 DEF PipeReopens, SameLims, Set

\* The pid that was resolved is a server's, or none.
LEMMA ResolveDoes ==
    ASSUME TypeOK, NEW l \in Lim, Resolve(l)
    PROVE  \E s \in Resolved :
              /\ lims' \in [Lim -> LimRec] /\ SameLims(l)
              /\ lims'[l].port = lims[l].port /\ lims'[l].fd = lims[l].fd
              /\ lims'[l].busy = lims[l].busy /\ lims'[l].lost = lims[l].lost
              /\ lims'[l].pc = Found(l, s) /\ lims'[l].cand = s
              /\ lims'[l].told \in {lims[l].told, "error"}
              /\ lims[l].pc = "resolve"
              /\ UNCHANGED <<disk, servers, env>>
<1>1. lims \in [Lim -> LimRec] /\ lims[l] \in LimRec
  BY Tables
<1>2. Resolved \subseteq 0..MaxServers
  BY Zeros DEF Resolved, Slot, TypeOK
<1> PICK s \in Resolved :
      lims' = [lims EXCEPT ![l].pc = Found(l, s), ![l].cand = s,
                           ![l].told = IF Found(l, s) = "run" THEN "error" ELSE @]
  BY DEF Resolve
<1> DEFINE told == IF Found(l, s) = "run" THEN "error" ELSE lims[l].told
           r == [lims[l] EXCEPT !.pc = Found(l, s), !.cand = s, !.told = told]
<1>3. told \in {lims[l].told, "error"} /\ told \in LimTold /\ Found(l, s) \in LimPc
  BY <1>1 DEF LimRec, LimTold, LimPc, Found
<1>4. lims' = [lims EXCEPT ![l] = r]
  BY <1>1
<1> HIDE DEF told
<1>5. r \in LimRec
  BY <1>1, <1>2, <1>3 DEF LimRec
<1>6. /\ r.port = lims[l].port /\ r.fd = lims[l].fd /\ r.busy = lims[l].busy
      /\ r.lost = lims[l].lost /\ r.pc = Found(l, s) /\ r.cand = s /\ r.told = told
  BY <1>1 DEF LimRec
<1> HIDE DEF r
<1>7. lims[l].pc = "resolve" /\ UNCHANGED <<disk, servers, env>>
  BY DEF Resolve
<1>8. lims' \in [Lim -> LimRec] /\ lims'[l] = r /\ SameLims(l)
  BY <1>1, <1>4, <1>5 DEF SameLims
<1> QED  BY <1>3, <1>6, <1>7, <1>8

\* What becomes of the candidate.
LEMMA JudgeDoes ==
    ASSUME TypeOK, NEW l \in Lim, Judge(l)
    PROVE  /\ lims' \in [Lim -> LimRec] /\ SameLims(l)
           /\ lims'[l].port = lims[l].port /\ lims'[l].fd = lims[l].fd
           /\ lims'[l].cand = lims[l].cand
           /\ lims'[l].busy = lims[l].busy /\ lims'[l].lost = lims[l].lost
           /\ lims'[l].pc = IF ToKill(l, lims[l].cand) THEN "kill"
                            ELSE IF lims[l].busy THEN "run" ELSE "unlink"
           /\ lims'[l].told = IF lims'[l].pc = "run" THEN "reused" ELSE lims[l].told
           /\ lims[l].pc = "judge"
           /\ UNCHANGED <<disk, servers, env>>
<1>1. lims \in [Lim -> LimRec] /\ lims[l] \in LimRec
  BY Tables
<1> DEFINE r == IF ToKill(l, lims[l].cand) THEN [lims[l] EXCEPT !.pc = "kill"]
                ELSE IF lims[l].busy THEN [lims[l] EXCEPT !.pc = "run", !.told = "reused"]
                ELSE [lims[l] EXCEPT !.pc = "unlink"]
<1>2. r \in LimRec
  BY <1>1 DEF LimRec, LimPc, LimTold
<1>3. /\ r.port = lims[l].port /\ r.fd = lims[l].fd /\ r.cand = lims[l].cand
      /\ r.busy = lims[l].busy /\ r.lost = lims[l].lost
      /\ r.pc = IF ToKill(l, lims[l].cand) THEN "kill"
                ELSE IF lims[l].busy THEN "run" ELSE "unlink"
      /\ r.told = IF r.pc = "run" THEN "reused" ELSE lims[l].told
  BY <1>1 DEF LimRec
<1>4. lims' = [lims EXCEPT ![l] = r]
  BY <1>1 DEF Judge
<1> HIDE DEF r
<1> QED  BY <1>1, <1>2, <1>3, <1>4 DEF Judge, SameLims

\* A lim that starts.
LEMMA LimStartsDoes ==
    ASSUME TypeOK, NEW l \in Lim, NEW p \in Port, LimStarts(l, p)
    PROVE  /\ lims' \in [Lim -> LimRec] /\ SameLims(l)
           /\ lims'[l].pc = "check" /\ lims'[l].port = p /\ lims'[l].fd = fifo'
           /\ lims'[l].cand = 0 /\ lims'[l].busy = FALSE /\ lims'[l].told = "none"
           /\ lims[l].pc = "off" /\ ("race" \in features \/ Quiet)
           /\ fifo' \in Inode /\ fifo' # 0 /\ nodes' \in Inode /\ (fifo # 0 => fifo' = fifo)
           /\ UNCHANGED <<marks, servers, env>>
<1>1. lims \in [Lim -> LimRec]
  BY Tables
<1>2. fifo' \in Inode /\ fifo' # 0 /\ nodes' \in Inode /\ (fifo # 0 => fifo' = fifo)
  BY ServerAssumption DEF LimStarts, FifoMade, MakeFifo, Inode, TypeOK
<1> DEFINE r == [Off(p) EXCEPT !.pc = "check", !.fd = fifo']
<1>3. r \in LimRec
  BY <1>2, Zeros DEF LimRec, LimPc, LimTold, Off
<1>4. /\ r.pc = "check" /\ r.port = p /\ r.fd = fifo' /\ r.cand = 0 /\ r.busy = FALSE
      /\ r.told = "none"
  BY DEF Off
<1>5. lims' = [lims EXCEPT ![l] = r]
  BY DEF LimStarts
<1> HIDE DEF r
<1> QED  BY <1>1, <1>2, <1>3, <1>4, <1>5 DEF LimStarts, SameLims

\* A lim that ends.
LEMMA LimEndsDoes ==
    ASSUME TypeOK, NEW l \in Lim, LimEnds(l)
    PROVE  /\ lims' \in [Lim -> LimRec] /\ SameLims(l)
           /\ lims'[l].pc = "off" /\ lims'[l].port = lims[l].port /\ lims'[l].told = "none"
           /\ UNCHANGED <<disk, servers, env>>
<1>1. lims \in [Lim -> LimRec] /\ lims[l].port \in Port
  BY Tables DEF LimRec
<1>2. Off(lims[l].port) \in LimRec
  BY <1>1, Zeros DEF LimRec, LimPc, LimTold, Off
<1>3. /\ Off(lims[l].port).pc = "off" /\ Off(lims[l].port).port = lims[l].port
      /\ Off(lims[l].port).told = "none"
  BY DEF Off
<1> QED  BY <1>1, <1>2, <1>3 DEF LimEnds, SameLims

\* Every lim learns of a server that died.
AllLost ==
    \A q \in Lim : /\ lims'[q].pc = lims[q].pc /\ lims'[q].port = lims[q].port
                   /\ lims'[q].fd = lims[q].fd /\ lims'[q].cand = lims[q].cand
                   /\ lims'[q].busy = lims[q].busy /\ lims'[q].told = lims[q].told
                   /\ lims'[q].lost = TRUE

\* Only that is changed.
LEMMA LostDoes ==
    ASSUME TypeOK
    PROVE  LET g == [q \in Lim |-> [lims[q] EXCEPT !.lost = TRUE]] IN
           /\ g \in [Lim -> LimRec]
           /\ \A q \in Lim : /\ g[q].pc = lims[q].pc /\ g[q].port = lims[q].port
                             /\ g[q].fd = lims[q].fd /\ g[q].cand = lims[q].cand
                             /\ g[q].busy = lims[q].busy /\ g[q].told = lims[q].told
                             /\ g[q].lost = TRUE
<1>1. ASSUME NEW q \in Lim
      PROVE  LET r == [lims[q] EXCEPT !.lost = TRUE] IN
             /\ r \in LimRec
             /\ r.pc = lims[q].pc /\ r.port = lims[q].port /\ r.fd = lims[q].fd
             /\ r.cand = lims[q].cand /\ r.busy = lims[q].busy /\ r.told = lims[q].told
             /\ r.lost = TRUE
  BY Tables DEF LimRec
<1> QED  BY <1>1

\* A server that dies.
LEMMA DeadDoes ==
    ASSUME TypeOK, NEW s \in Slot, Dead(s)
    PROVE  /\ servers' \in [Slot -> ServerRec] /\ SameServers(s)
           /\ servers'[s].port = servers[s].port
           /\ servers'[s].phase = "dead"
           /\ servers'[s].held = 0
           /\ servers'[s].reads = 0
           /\ servers'[s].client = FALSE
<1> DEFINE r == [servers[s] EXCEPT !.phase = "dead", !.held = 0, !.reads = 0, !.client = FALSE]
<1>1. servers \in [Slot -> ServerRec] /\ servers[s] \in ServerRec
  BY Tables
<1>2. r \in ServerRec
  BY <1>1, Zeros DEF ServerRec, Phases
<1>3. /\ r.port = servers[s].port /\ r.phase = "dead" /\ r.held = 0 /\ r.reads = 0
      /\ r.client = FALSE
  BY <1>1 DEF ServerRec
<1>4. servers' = [servers EXCEPT ![s] = r]
  BY <1>1 DEF Dead
<1> HIDE DEF r
<1> QED  BY <1>1, <1>2, <1>3, <1>4 DEF Dead, SameServers

\* The shell becomes the interpreter.
LEMMA ExecDoes ==
    ASSUME TypeOK, NEW s \in Slot, Exec(s)
    PROVE  /\ servers' \in [Slot -> ServerRec] /\ SameServers(s)
           /\ servers'[s].port = servers[s].port /\ servers'[s].held = servers[s].held
           /\ servers'[s].reads = servers[s].reads /\ servers'[s].client = servers[s].client
           /\ servers'[s].phase = "python"
           /\ servers[s].phase = "sh"
           /\ UNCHANGED <<disk, lims, env>>
<1> DEFINE r == [servers[s] EXCEPT !.phase = "python"]
<1>1. servers \in [Slot -> ServerRec] /\ servers[s] \in ServerRec
  BY Tables
<1>2. r \in ServerRec
  BY <1>1, Zeros DEF ServerRec, Phases
<1>3. /\ r.port = servers[s].port /\ r.held = servers[s].held /\ r.reads = servers[s].reads
      /\ r.client = servers[s].client /\ r.phase = "python"
  BY <1>1 DEF ServerRec
<1>4. servers' = [servers EXCEPT ![s] = r]
  BY <1>1 DEF Exec, Enter
<1> HIDE DEF r
<1> QED  BY <1>1, <1>2, <1>3, <1>4 DEF Exec, SameServers, Enter

\* The ready marker.
LEMMA MarkReadyDoes ==
    ASSUME TypeOK, NEW s \in Slot, MarkReady(s)
    PROVE  /\ servers' \in [Slot -> ServerRec] /\ SameServers(s)
           /\ servers'[s].port = servers[s].port /\ servers'[s].held = servers[s].held
           /\ servers'[s].reads = servers[s].reads /\ servers'[s].client = servers[s].client
           /\ servers'[s].phase = "marked"
           /\ servers[s].phase = "bound"
           /\ marks'.ready = TRUE /\ marks'.browser = marks.browser /\ marks'.pid = marks.pid
           /\ UNCHANGED <<fifo, nodes, lims, env>>
<1> DEFINE r == [servers[s] EXCEPT !.phase = "marked"]
<1>1. servers \in [Slot -> ServerRec] /\ servers[s] \in ServerRec
  BY Tables
<1>2. r \in ServerRec
  BY <1>1, Zeros DEF ServerRec, Phases
<1>3. /\ r.port = servers[s].port /\ r.held = servers[s].held /\ r.reads = servers[s].reads
      /\ r.client = servers[s].client /\ r.phase = "marked"
  BY <1>1 DEF ServerRec
<1>4. servers' = [servers EXCEPT ![s] = r]
  BY <1>1 DEF MarkReady, Enter, TypeOK
<1> HIDE DEF r
<1> QED  BY <1>1, <1>2, <1>3, <1>4 DEF MarkReady, SameServers, Enter, TypeOK

\* The PID file.
LEMMA MarkPidDoes ==
    ASSUME TypeOK, NEW s \in Slot, MarkPid(s)
    PROVE  /\ servers' \in [Slot -> ServerRec] /\ SameServers(s)
           /\ servers'[s].port = servers[s].port /\ servers'[s].held = servers[s].held
           /\ servers'[s].reads = servers[s].reads /\ servers'[s].client = servers[s].client
           /\ servers'[s].phase = "named"
           /\ servers[s].phase = "marked"
           /\ marks'.ready = marks.ready /\ marks'.browser = marks.browser /\ marks'.pid = s
           /\ UNCHANGED <<fifo, nodes, lims, env>>
<1> DEFINE r == [servers[s] EXCEPT !.phase = "named"]
<1>1. servers \in [Slot -> ServerRec] /\ servers[s] \in ServerRec
  BY Tables
<1>2. r \in ServerRec
  BY <1>1, Zeros DEF ServerRec, Phases
<1>3. /\ r.port = servers[s].port /\ r.held = servers[s].held /\ r.reads = servers[s].reads
      /\ r.client = servers[s].client /\ r.phase = "named"
  BY <1>1 DEF ServerRec
<1>4. servers' = [servers EXCEPT ![s] = r]
  BY <1>1 DEF MarkPid, Enter, TypeOK
<1> HIDE DEF r
<1> QED  BY <1>1, <1>2, <1>3, <1>4 DEF MarkPid, SameServers, Enter, TypeOK

\* A viewer connects.
LEMMA ConnectDoes ==
    ASSUME TypeOK, NEW s \in Slot, Connect(s)
    PROVE  /\ servers' \in [Slot -> ServerRec] /\ SameServers(s)
           /\ servers'[s].phase = servers[s].phase /\ servers'[s].port = servers[s].port
           /\ servers'[s].held = servers[s].held /\ servers'[s].reads = servers[s].reads
           /\ servers'[s].client = TRUE
           /\ Bound(s)
           /\ marks'.ready = marks.ready /\ marks'.browser = TRUE /\ marks'.pid = marks.pid
           /\ UNCHANGED <<fifo, nodes, lims, env>>
<1> DEFINE r == [servers[s] EXCEPT !.client = TRUE]
<1>1. servers \in [Slot -> ServerRec] /\ servers[s] \in ServerRec
  BY Tables
<1>2. r \in ServerRec
  BY <1>1, Zeros DEF ServerRec, Phases
<1>3. /\ r.phase = servers[s].phase /\ r.port = servers[s].port /\ r.held = servers[s].held
      /\ r.reads = servers[s].reads /\ r.client = TRUE
  BY <1>1 DEF ServerRec
<1>4. servers' = [servers EXCEPT ![s] = r]
  BY <1>1 DEF Connect, TypeOK
<1> HIDE DEF r
<1> QED  BY <1>1, <1>2, <1>3, <1>4 DEF Connect, SameServers, TypeOK

\* A viewer disconnects.
LEMMA DisconnectDoes ==
    ASSUME TypeOK, NEW s \in Slot, Disconnect(s)
    PROVE  /\ servers' \in [Slot -> ServerRec] /\ SameServers(s)
           /\ servers'[s].phase = servers[s].phase /\ servers'[s].port = servers[s].port
           /\ servers'[s].held = servers[s].held /\ servers'[s].reads = servers[s].reads
           /\ servers'[s].client = FALSE
           /\ marks'.ready = marks.ready /\ marks'.browser = FALSE /\ marks'.pid = marks.pid
           /\ UNCHANGED <<fifo, nodes, lims, env>>
<1> DEFINE r == [servers[s] EXCEPT !.client = FALSE]
<1>1. servers \in [Slot -> ServerRec] /\ servers[s] \in ServerRec
  BY Tables
<1>2. r \in ServerRec
  BY <1>1, Zeros DEF ServerRec, Phases
<1>3. /\ r.phase = servers[s].phase /\ r.port = servers[s].port /\ r.held = servers[s].held
      /\ r.reads = servers[s].reads /\ r.client = FALSE
  BY <1>1 DEF ServerRec
<1>4. servers' = [servers EXCEPT ![s] = r]
  BY <1>1 DEF Disconnect, TypeOK
<1> HIDE DEF r
<1> QED  BY <1>1, <1>2, <1>3, <1>4 DEF Disconnect, SameServers, TypeOK

\* A server binds its port or dies.
LEMMA BindDoes ==
    ASSUME TypeOK, NEW s \in Slot, Bind(s)
    PROVE  /\ servers' \in [Slot -> ServerRec] /\ SameServers(s)
           /\ servers'[s].port = servers[s].port
           /\ servers[s].phase = "python"
           /\ \/ /\ ~PortBusy(servers[s].port) /\ servers'[s].phase = "bound"
                 /\ servers'[s].held = servers[s].held /\ servers'[s].reads = servers[s].reads
                 /\ servers'[s].client = servers[s].client
              \/ /\ PortBusy(servers[s].port) /\ servers'[s].phase = "dead"
                 /\ servers'[s].reads = 0 /\ servers'[s].client = FALSE
           /\ UNCHANGED <<disk, lims, env>>
<1>1. CASE PortBusy(servers[s].port)
  <2>1. Dead(s)
    BY <1>1 DEF Bind
  <2> QED  BY <1>1, <2>1, DeadDoes DEF Bind
<1>2. CASE ~PortBusy(servers[s].port)
  <2> DEFINE r == [servers[s] EXCEPT !.phase = "bound"]
  <2>1. servers \in [Slot -> ServerRec] /\ servers[s] \in ServerRec
    BY Tables
  <2>2. r \in ServerRec
    BY <2>1 DEF ServerRec, Phases
  <2>3. /\ r.phase = "bound" /\ r.port = servers[s].port /\ r.held = servers[s].held
        /\ r.reads = servers[s].reads /\ r.client = servers[s].client
    BY <2>1 DEF ServerRec
  <2>4. servers' = [servers EXCEPT ![s] = r]
    BY <1>2, <2>1 DEF Bind, Enter
  <2> HIDE DEF r
  <2> QED  BY <1>2, <2>1, <2>2, <2>3, <2>4 DEF Bind, SameServers
<1> QED  BY <1>1, <1>2

\* A server opens the FIFO, which it makes if there is none.
LEMMA OpenFifoDoes ==
    ASSUME TypeOK, NEW s \in Slot, OpenFifo(s)
    PROVE  /\ servers' \in [Slot -> ServerRec] /\ SameServers(s)
           /\ servers'[s].port = servers[s].port /\ servers'[s].held = servers[s].held
           /\ servers'[s].client = servers[s].client
           /\ servers'[s].phase = "reading" /\ servers'[s].reads = fifo'
           /\ servers[s].phase = "named"
           /\ fifo' \in Inode /\ fifo' # 0 /\ nodes' \in Inode /\ (fifo # 0 => fifo' = fifo)
           /\ UNCHANGED <<marks, lims, env>>
<1> DEFINE r == [servers[s] EXCEPT !.phase = "reading", !.reads = fifo']
<1>1. servers \in [Slot -> ServerRec] /\ servers[s] \in ServerRec
  BY Tables
<1>2. fifo' \in Inode /\ fifo' # 0 /\ nodes' \in Inode /\ (fifo # 0 => fifo' = fifo)
  BY ServerAssumption DEF OpenFifo, FifoMade, MakeFifo, Inode, TypeOK
<1>3. r \in ServerRec
  BY <1>1, <1>2 DEF ServerRec, Phases
<1>4. /\ r.port = servers[s].port /\ r.held = servers[s].held /\ r.client = servers[s].client
      /\ r.phase = "reading" /\ r.reads = fifo'
  BY <1>1 DEF ServerRec
<1>5. servers' = [servers EXCEPT ![s] = r]
  BY <1>1 DEF OpenFifo
<1> HIDE DEF r
<1> QED  BY <1>1, <1>2, <1>3, <1>4, <1>5 DEF OpenFifo, SameServers

\* A server is killed, and its port is taken to be free.
LEMMA KillDoes ==
    ASSUME TypeOK, NEW l \in Lim, Kill(l)
    PROVE  /\ lims[l].pc = "kill" /\ lims[l].cand \in Slot
           /\ Dead(lims[l].cand)
           /\ lims' \in [Lim -> LimRec]
           /\ \A q \in Lim \ {l} :
                 /\ lims'[q].pc = lims[q].pc /\ lims'[q].port = lims[q].port
                 /\ lims'[q].fd = lims[q].fd /\ lims'[q].cand = lims[q].cand
                 /\ lims'[q].busy = lims[q].busy /\ lims'[q].told = lims[q].told
           /\ \A q \in Lim : lims'[q].lost = TRUE
           /\ lims'[l].pc = IF lims[l].busy THEN "resolve" ELSE "unlink"
           /\ lims'[l].port = lims[l].port /\ lims'[l].fd = lims[l].fd
           /\ lims'[l].cand = 0 /\ lims'[l].busy = FALSE /\ lims'[l].told = lims[l].told
           /\ UNCHANGED <<disk, env>>
<1> DEFINE g == [q \in Lim |-> [lims[q] EXCEPT !.lost = TRUE]]
           pc == IF lims[l].busy THEN "resolve" ELSE "unlink"
           r == [g[l] EXCEPT !.pc = pc, !.busy = FALSE, !.cand = 0]
<1>1. lims \in [Lim -> LimRec] /\ lims[l] \in LimRec
  BY Tables
<1>2. lims[l].cand \in Slot
  BY <1>1 DEF Kill, TypeOK, LimRec, Slot
<1>3. /\ g \in [Lim -> LimRec]
      /\ \A q \in Lim : /\ g[q].pc = lims[q].pc /\ g[q].port = lims[q].port
                        /\ g[q].fd = lims[q].fd /\ g[q].cand = lims[q].cand
                        /\ g[q].busy = lims[q].busy /\ g[q].told = lims[q].told
                        /\ g[q].lost = TRUE
  BY LostDoes
<1>4. lims' = [g EXCEPT ![l] = r]
  BY DEF Kill
<1>5. g[l] \in LimRec /\ pc \in LimPc
  BY <1>3 DEF LimPc
<1> HIDE DEF g, pc
<1>6. r \in LimRec
  BY <1>5, Zeros DEF LimRec
<1>7. /\ r.pc = pc /\ r.busy = FALSE /\ r.cand = 0 /\ r.lost = g[l].lost
      /\ r.port = g[l].port /\ r.fd = g[l].fd /\ r.told = g[l].told
  BY <1>5 DEF LimRec
<1> HIDE DEF r
<1>8. lims' \in [Lim -> LimRec] /\ lims'[l] = r /\ \A q \in Lim \ {l} : lims'[q] = g[q]
  BY <1>3, <1>4, <1>6
<1>9. \A q \in Lim : lims'[q].lost = TRUE
  BY <1>3, <1>7, <1>8
<1>10. lims[l].pc = "kill" /\ Dead(lims[l].cand) /\ UNCHANGED <<disk, env>>
  BY DEF Kill
<1> QED  BY <1>2, <1>3, <1>7, <1>8, <1>9, <1>10 DEF pc

\* A server that crashes.
LEMMA CrashDoes ==
    ASSUME TypeOK, NEW s \in Slot, Crash(s)
    PROVE  /\ Dead(s) /\ lims' \in [Lim -> LimRec] /\ AllLost
           /\ "crash" \in features /\ UNCHANGED <<disk, taken, features>>
BY LostDoes DEF Crash, AllLost

\* The shell of a new server.
LEMMA ForkDoes ==
    ASSUME TypeOK, NEW l \in Lim, Fork(l)
    PROVE  /\ lims' \in [Lim -> LimRec] /\ SameLims(l)
           /\ lims'[l].port = lims[l].port /\ lims'[l].fd = lims[l].fd
           /\ lims'[l].busy = lims[l].busy /\ lims'[l].lost = lims[l].lost
           /\ lims'[l].told = lims[l].told /\ lims'[l].pc = "wait" /\ lims'[l].cand = 0
           /\ lims[l].pc = "fork"
           /\ \E s \in Slot :
                 /\ ~Alive(s) /\ servers' \in [Slot -> ServerRec] /\ SameServers(s)
                 /\ servers'[s].phase = "sh" /\ servers'[s].port = lims[l].port
                 /\ servers'[s].held = lims[l].fd /\ servers'[s].reads = 0
                 /\ servers'[s].client = FALSE
           /\ UNCHANGED <<disk, env>>
<1>1. /\ lims \in [Lim -> LimRec] /\ lims[l] \in LimRec /\ servers \in [Slot -> ServerRec]
  BY Tables
<1> DEFINE r == [lims[l] EXCEPT !.pc = "wait", !.cand = 0]
<1>2. r \in LimRec
  BY <1>1, Zeros DEF LimRec, LimPc
<1>3. /\ r.port = lims[l].port /\ r.fd = lims[l].fd /\ r.busy = lims[l].busy
      /\ r.lost = lims[l].lost /\ r.told = lims[l].told /\ r.pc = "wait" /\ r.cand = 0
  BY <1>1 DEF LimRec
<1>4. lims' = [lims EXCEPT ![l] = r]
  BY <1>1 DEF Fork
<1> PICK s \in Slot :
      /\ Free(s)
      /\ servers' = [servers EXCEPT ![s] = [phase |-> "sh", port |-> lims[l].port,
                                            held |-> lims[l].fd, reads |-> 0, client |-> FALSE]]
  BY DEF Fork
<1> DEFINE n == [phase |-> "sh", port |-> lims[l].port, held |-> lims[l].fd, reads |-> 0,
                 client |-> FALSE]
<1>5. n \in ServerRec
  BY <1>1, Zeros DEF ServerRec, LimRec, Phases
<1>6. /\ n.phase = "sh" /\ n.port = lims[l].port /\ n.held = lims[l].fd /\ n.reads = 0
      /\ n.client = FALSE
  OBVIOUS
<1>7. servers' = [servers EXCEPT ![s] = n]
  OBVIOUS
<1> HIDE DEF r, n
<1>8. lims' \in [Lim -> LimRec] /\ lims'[l] = r /\ SameLims(l)
  BY <1>1, <1>2, <1>4 DEF SameLims
<1>9. servers' \in [Slot -> ServerRec] /\ servers'[s] = n /\ SameServers(s)
  BY <1>1, <1>5, <1>7 DEF SameServers
<1>10. lims[l].pc = "fork" /\ ~Alive(s) /\ UNCHANGED <<disk, env>>
  BY DEF Fork, Free
<1> QED  BY <1>3, <1>6, <1>8, <1>9, <1>10

-----------------------------------------------------------------------------
\* Types.

\* Every step keeps the types.
LEMMA TypeStep ==
    ASSUME TypeOK, [Next]_vars
    PROVE  TypeOK'
<1> DEFINE LimsOk(f) == /\ f \in [Lim -> LimRec]
                        /\ \A q \in Lim : f[q].pc \in {"judge", "kill"} => f[q].cand # 0
           ServersOk(f) == f \in [Slot -> ServerRec]
           DiskOk == /\ fifo' \in Inode /\ nodes' \in Inode
                     /\ marks' \in [ready : BOOLEAN, browser : BOOLEAN, pid : 0..MaxServers]
           EnvOk == taken' \subseteq Port /\ faults' \in 0..MaxFaults /\ features' \in Scenarios
<1>1. LimsOk(lims) /\ ServersOk(servers) /\ (UNCHANGED disk => DiskOk) /\ (UNCHANGED env => EnvOk)
  BY Tables DEF TypeOK, disk, env
<1>2. LimsOk(lims') /\ ServersOk(servers') /\ DiskOk /\ EnvOk => TypeOK'
  BY DEF TypeOK, LimRec, LimPc, LimTold, Lims, ServerRec, Phases, Servers
<1>3. ASSUME NEW l \in Lim, lims' \in [Lim -> LimRec],
             \A q \in Lim \ {l} : lims'[q].pc = lims[q].pc /\ lims'[q].cand = lims[q].cand,
             lims'[l].pc \in {"judge", "kill"} => lims'[l].cand # 0
      PROVE  LimsOk(lims')
  BY <1>1, <1>3
<1>4. \A l \in Lim : SameLims(l) =>
         \A q \in Lim \ {l} : lims'[q].pc = lims[q].pc /\ lims'[q].cand = lims[q].cand
  BY DEF SameLims
<1> HIDE DEF LimsOk, ServersOk, DiskOk, EnvOk
<1>5. ASSUME NEW l \in Lim, NEW p \in Port, LimStarts(l, p)
      PROVE  TypeOK'
  <2>1. LimsOk(lims') /\ UNCHANGED <<marks, servers, env>>
    BY <1>3, <1>4, <1>5, LimStartsDoes
  <2>2. DiskOk
    BY <1>5, LimStartsDoes DEF DiskOk, TypeOK
  <2> QED  BY <1>1, <1>2, <2>1, <2>2
<1>6. ASSUME NEW l \in Lim, LimEnds(l)
      PROVE  TypeOK'
  BY <1>1, <1>2, <1>3, <1>4, <1>6, LimEndsDoes
<1>7. ASSUME NEW l \in Lim, CheckPort(l)
      PROVE  TypeOK'
  BY <1>1, <1>2, <1>3, <1>4, <1>7, CheckPortDoes
<1>8. ASSUME NEW l \in Lim, Resolve(l)
      PROVE  TypeOK'
  <2> PICK s \in Resolved : /\ lims' \in [Lim -> LimRec] /\ SameLims(l)
                            /\ lims'[l].pc = Found(l, s) /\ lims'[l].cand = s
                            /\ UNCHANGED <<disk, servers, env>>
    BY <1>8, ResolveDoes
  <2>1. lims'[l].pc \in {"judge", "kill"} => s # 0
    BY DEF Found
  <2> QED  BY <1>1, <1>2, <1>3, <1>4, <2>1
<1>9. ASSUME NEW l \in Lim, Judge(l)
      PROVE  TypeOK'
  <2>1. lims[l].cand # 0
    BY <1>9, JudgeDoes DEF TypeOK
  <2> QED  BY <1>1, <1>2, <1>3, <1>4, <1>9, <2>1, JudgeDoes
<1>10. ASSUME NEW l \in Lim, Kill(l)
       PROVE  TypeOK'
  <2>1. ServersOk(servers')
    BY <1>10, KillDoes, DeadDoes DEF ServersOk
  <2>2. LimsOk(lims') /\ UNCHANGED <<disk, env>>
    <3>1. /\ lims' \in [Lim -> LimRec] /\ UNCHANGED <<disk, env>>
          /\ \A q \in Lim \ {l} : lims'[q].pc = lims[q].pc /\ lims'[q].cand = lims[q].cand
      BY <1>10, KillDoes
    <3>2. lims'[l].pc \notin {"judge", "kill"}
      BY <1>10, KillDoes
    <3> QED  BY <1>3, <3>1, <3>2
  <2> QED  BY <1>1, <1>2, <2>1, <2>2
<1>11. ASSUME NEW l \in Lim, KillFails(l)
       PROVE  TypeOK'
  <2>1. LimsOk(lims') /\ UNCHANGED <<disk, servers>>
    BY <1>3, <1>4, <1>11, KillFailsDoes
  <2>2. EnvOk
    BY <1>11, ServerAssumption DEF KillFails, EnvOk, TypeOK
  <2> QED  BY <1>1, <1>2, <2>1, <2>2
<1>12. ASSUME NEW l \in Lim, Unlink(l)
       PROVE  TypeOK'
  <2>1. LimsOk(lims') /\ UNCHANGED <<servers, env>>
    BY <1>3, <1>4, <1>12, UnlinkDoes
  <2>2. DiskOk
    <3>1. marks' = NoMarks /\ UNCHANGED <<fifo, nodes>>
      BY <1>12, UnlinkDoes
    <3>2. NoMarks \in [ready : BOOLEAN, browser : BOOLEAN, pid : 0..MaxServers]
      BY Zeros DEF NoMarks
    <3> QED  BY <3>1, <3>2 DEF DiskOk, TypeOK
  <2> QED  BY <1>1, <1>2, <2>1, <2>2
<1>13. ASSUME NEW l \in Lim, Fork(l)
       PROVE  TypeOK'
  <2>1. LimsOk(lims') /\ UNCHANGED <<disk, env>>
    BY <1>3, <1>4, <1>13, ForkDoes
  <2>2. ServersOk(servers')
    BY <1>13, ForkDoes DEF ServersOk
  <2> QED  BY <1>1, <1>2, <2>1, <2>2
<1>14. ASSUME NEW l \in Lim, Ready(l)
       PROVE  TypeOK'
  BY <1>1, <1>2, <1>3, <1>4, <1>14, ReadyDoes
<1>15. ASSUME NEW l \in Lim, WaitTimeout(l)
       PROVE  TypeOK'
  BY <1>1, <1>2, <1>3, <1>4, <1>15, WaitTimeoutDoes
<1>16. ASSUME NEW l \in Lim, Reset(l)
       PROVE  TypeOK'
  BY <1>1, <1>2, <1>3, <1>4, <1>16, ResetDoes
<1>17. ASSUME NEW l \in Lim, BrowserThere(l)
       PROVE  TypeOK'
  BY <1>1, <1>2, <1>3, <1>4, <1>17, BrowserThereDoes
<1>18. ASSUME NEW l \in Lim, PipeStalls(l)
       PROVE  TypeOK'
  BY <1>1, <1>2, <1>3, <1>4, <1>18, PipeStallsDoes
<1>19. ASSUME NEW l \in Lim, PipeReopens(l)
       PROVE  TypeOK'
  BY <1>1, <1>2, <1>3, <1>4, <1>19, PipeReopensDoes
<1>20. ASSUME NEW s \in Slot, ServerStep(s)
       PROVE  TypeOK'
  <2>1. ServersOk(servers') /\ UNCHANGED <<lims, env>>
    BY <1>20, ExecDoes, BindDoes, MarkReadyDoes, MarkPidDoes, OpenFifoDoes DEF ServerStep, ServersOk
  <2>2. DiskOk
    <3>1. CASE MarkReady(s)
      BY <3>1 DEF MarkReady, DiskOk, TypeOK
    <3>2. CASE MarkPid(s)
      BY <3>2 DEF MarkPid, DiskOk, TypeOK, Slot
    <3>3. CASE OpenFifo(s)
      BY <3>3, OpenFifoDoes DEF DiskOk, TypeOK
    <3> QED  BY <1>1, <1>20, <3>1, <3>2, <3>3, ExecDoes, BindDoes DEF ServerStep
  <2> QED  BY <1>1, <1>2, <2>1, <2>2
<1>21. ASSUME NEW s \in Slot, Connect(s) \/ Disconnect(s)
       PROVE  TypeOK'
  <2>1. ServersOk(servers') /\ UNCHANGED <<lims, env>>
    BY <1>21, ConnectDoes, DisconnectDoes DEF ServersOk
  <2>2. DiskOk
    BY <1>21 DEF Connect, Disconnect, DiskOk, TypeOK
  <2> QED  BY <1>1, <1>2, <2>1, <2>2
<1>22. ASSUME NEW s \in Slot, Crash(s)
       PROVE  TypeOK'
  <2>1. ServersOk(servers')
    BY <1>22, CrashDoes, DeadDoes DEF ServersOk
  <2>2. LimsOk(lims') /\ UNCHANGED disk
    BY <1>1, <1>22, CrashDoes DEF LimsOk, AllLost
  <2>3. EnvOk
    BY <1>22, ServerAssumption DEF Crash, EnvOk, TypeOK
  <2> QED  BY <1>1, <1>2, <2>1, <2>2, <2>3
<1>23. CASE CleanTmp
  <2>1. DiskOk
    BY <1>23, Zeros DEF CleanTmp, NoMarks, DiskOk, TypeOK
  <2>2. EnvOk
    BY <1>23, ServerAssumption DEF CleanTmp, EnvOk, TypeOK
  <2> QED  BY <1>1, <1>2, <1>23, <2>1, <2>2 DEF CleanTmp
<1>24. ASSUME NEW p \in Port, ForeignEnds(p)
       PROVE  TypeOK'
  <2>1. EnvOk
    BY <1>24 DEF ForeignEnds, EnvOk, TypeOK
  <2> QED  BY <1>1, <1>2, <1>24, <2>1 DEF ForeignEnds
<1>25. CASE UNCHANGED vars
  BY <1>1, <1>2, <1>25 DEF vars
<1> QED
  BY <1>5, <1>6, <1>7, <1>8, <1>9, <1>10, <1>11, <1>12, <1>13, <1>14, <1>15, <1>16, <1>17,
     <1>18, <1>19, <1>20, <1>21, <1>22, <1>23, <1>24, <1>25
  DEF Next, LimStep, UserStep, PipeStep, Start, Fault

\* The types hold at first.
LEMMA InitTypes ==
    ASSUME Init
    PROVE  /\ TypeOK /\ \A l \in Lim : lims[l] = Off(ThePort)
           /\ \A s \in Slot : ~Alive(s) /\ servers[s].port = ThePort
                              /\ servers[s].reads = 0 /\ servers[s].client = FALSE
<1>1. ThePort \in Port
  BY ServerAssumption DEF ThePort
<1>2. /\ lims = [l \in Lim |-> Off(ThePort)]
      /\ servers = [s \in Slot |-> [phase |-> "dead", port |-> ThePort, held |-> 0,
                                    reads |-> 0, client |-> FALSE]]
  BY DEF Init, ThePort
<1>3. lims \in [Lim -> Lims]
  BY <1>1, <1>2, Zeros DEF Off, Lims
<1>4. servers \in [Slot -> Servers]
  BY <1>1, <1>2, Zeros DEF Servers
<1>5. \A l \in Lim : lims[l].pc = "off"
  BY <1>2 DEF Off
<1>6. faults \in 0..MaxFaults /\ marks \in [ready : BOOLEAN, browser : BOOLEAN, pid : 0..MaxServers]
  BY Zeros, ServerAssumption DEF Init, NoMarks
<1>7. TypeOK
  BY <1>3, <1>4, <1>5, <1>6, Zeros DEF Init, TypeOK
<1> QED  BY <1>2, <1>7 DEF Alive

-----------------------------------------------------------------------------
\* The parts of the invariant.

\* The features stay, ports are given up, and few steps change the servers.
LEMMA Frames ==
    ASSUME TypeOK, [Next]_vars
    PROVE  /\ features' = features /\ taken' \subseteq taken
           /\ \/ UNCHANGED servers
              \/ \E l \in Lim : Fork(l) \/ Kill(l)
              \/ \E s \in Slot : ServerStep(s) \/ Connect(s) \/ Disconnect(s) \/ Crash(s)
<1>1. ASSUME NEW l \in Lim, LimStep(l) \/ UserStep(l) \/ PipeStep(l)
      PROVE  features' = features /\ taken' \subseteq taken /\ (UNCHANGED servers \/ Fork(l) \/ Kill(l))
  BY <1>1 DEF LimStep, UserStep, PipeStep, Start, LimStarts, LimEnds, CheckPort, Resolve, Judge,
              Kill, KillFails, Unlink, Fork, Ready, WaitTimeout, Reset, BrowserThere, PipeStalls,
              PipeReopens, env
<1>2. ASSUME NEW s \in Slot, ServerStep(s) \/ Connect(s) \/ Disconnect(s)
      PROVE  features' = features /\ taken' \subseteq taken
  BY <1>2 DEF ServerStep, Exec, Bind, MarkReady, MarkPid, OpenFifo, Connect, Disconnect, env
<1>3. ASSUME Fault
      PROVE  /\ features' = features /\ taken' \subseteq taken
             /\ UNCHANGED servers \/ \E s \in Slot : Crash(s)
  BY <1>3 DEF Fault, Crash, CleanTmp, ForeignEnds
<1>4. CASE UNCHANGED vars
  BY <1>4 DEF vars, env
<1> QED  BY <1>1, <1>2, <1>3, <1>4 DEF Next

\* Servers stay what their phases say: one that dies gives everything up, and one
\* binds a port that nobody has.
LEMMA ServersStep ==
    ASSUME TypeOK, ServersSound, [Next]_vars
    PROVE  ServersSound'
<1> USE DEF ServersSound, Bound
<1>1. taken' \subseteq taken
  BY Frames
<1>2. CASE UNCHANGED servers
  BY <1>1, <1>2
<1>14. ASSUME NEW s \in Slot, SameServers(s), servers'[s].port = servers[s].port,
              Bound(s)' => Bound(s),
              servers'[s].reads # 0 <=> servers'[s].phase = "reading",
              servers'[s].client => Bound(s)'
       PROVE  ServersSound'
  <2>1. \A q \in Slot : Bound(q)' => Bound(q)
    BY <1>14 DEF SameServers
  <2>2. \A q \in Slot : servers'[q].port = servers[q].port
    BY <1>14 DEF SameServers
  <2>3. \A q \in Slot : /\ servers'[q].reads # 0 <=> servers'[q].phase = "reading"
                        /\ servers'[q].client => Bound(q)'
    BY <1>14 DEF SameServers
  <2> HIDE DEF Bound
  <2> QED  BY <1>1, <2>1, <2>2, <2>3
<1>3. ASSUME NEW s \in Slot, Dead(s)
      PROVE  ServersSound'
  BY <1>3, <1>14, DeadDoes
<1>4. ASSUME NEW l \in Lim, Kill(l)
      PROVE  ServersSound'
  BY <1>3, <1>4, KillDoes
<1>5. ASSUME NEW s \in Slot, Crash(s)
      PROVE  ServersSound'
  BY <1>3, <1>5, CrashDoes
<1>6. ASSUME NEW l \in Lim, Fork(l)
      PROVE  ServersSound'
  <2> PICK s \in Slot : /\ SameServers(s) /\ servers'[s].phase = "sh" /\ servers'[s].reads = 0
                        /\ servers'[s].client = FALSE
    BY <1>6, ForkDoes
  <2> QED  BY <1>1 DEF SameServers
<1>7. ASSUME NEW s \in Slot, Exec(s)
      PROVE  ServersSound'
  BY <1>1, <1>7, ExecDoes DEF SameServers
<1>8. ASSUME NEW s \in Slot, Bind(s)
      PROVE  ServersSound'
  <2>1. CASE PortBusy(servers[s].port)
    BY <1>8, <1>14, <2>1, BindDoes
  <2>2. CASE ~PortBusy(servers[s].port)
    <3>1. servers[s].port \notin taken
          /\ \A q \in Slot : Bound(q) => servers[q].port # servers[s].port
      BY <2>2 DEF PortBusy
    <3>2. /\ SameServers(s) /\ servers'[s].phase = "bound" /\ servers'[s].port = servers[s].port
          /\ servers'[s].reads = servers[s].reads /\ servers'[s].client = servers[s].client
          /\ servers[s].phase = "python"
      BY <1>8, <2>2, BindDoes
    <3> QED  BY <1>1, <3>1, <3>2 DEF SameServers
  <2> QED  BY <2>1, <2>2
<1>9. ASSUME NEW s \in Slot, MarkReady(s)
      PROVE  ServersSound'
  BY <1>14, <1>9, MarkReadyDoes
<1>10. ASSUME NEW s \in Slot, MarkPid(s)
       PROVE  ServersSound'
  BY <1>14, <1>10, MarkPidDoes
<1>11. ASSUME NEW s \in Slot, OpenFifo(s)
       PROVE  ServersSound'
  BY <1>14, <1>11, OpenFifoDoes
<1>12. ASSUME NEW s \in Slot, Connect(s)
       PROVE  ServersSound'
  <2>1. /\ SameServers(s) /\ servers'[s].port = servers[s].port /\ Bound(s)
        /\ servers'[s].phase = servers[s].phase /\ servers'[s].reads = servers[s].reads
    BY <1>12, ConnectDoes DEF Bound
  <2> QED  BY <1>14, <2>1
<1>13. ASSUME NEW s \in Slot, Disconnect(s)
       PROVE  ServersSound'
  BY <1>14, <1>13, DisconnectDoes
<1> QED
  BY <1>2, <1>4, <1>5, <1>6, <1>7, <1>8, <1>9, <1>10, <1>11, <1>12, <1>13, Frames DEF ServerStep

\* A lim that does not start keeps its port, stays off if it is, and writes to the
\* node it had, to none or to the present one.
LimStays(q) ==
    /\ lims'[q].port = lims[q].port
    /\ lims[q].pc = "off" => lims'[q].pc = "off"
    /\ lims'[q].pc # "off" => lims'[q].fd \in {lims[q].fd, 0, fifo}

\* Every step leaves a lim so, or starts it.
LEMMA LimFrames ==
    ASSUME TypeOK, [Next]_vars, NEW q \in Lim
    PROVE  \/ LimStays(q)
           \/ /\ \E p \in Port : LimStarts(q, p) /\ ("port" \in features \/ p = lims[q].port)
              /\ SameLims(q)
<1> USE DEF LimStays
<1>1. CASE UNCHANGED lims
  BY <1>1
<1>2. ASSUME NEW l \in Lim, LimStep(l)
      PROVE  LimStays(q)
  <2>1. CASE CheckPort(l)
    BY <2>1, CheckPortDoes DEF SameLims
  <2>2. CASE Resolve(l)
    BY <2>2, ResolveDoes DEF SameLims
  <2>3. CASE Judge(l)
    BY <2>3, JudgeDoes DEF SameLims
  <2>4. CASE Kill(l)
    BY <2>4, KillDoes
  <2>5. CASE KillFails(l)
    BY <2>5, KillFailsDoes DEF SameLims
  <2>6. CASE Unlink(l)
    BY <2>6, UnlinkDoes DEF SameLims
  <2>7. CASE Fork(l)
    BY <2>7, ForkDoes DEF SameLims
  <2>8. CASE Ready(l)
    BY <2>8, ReadyDoes DEF SameLims
  <2>9. CASE WaitTimeout(l)
    BY <2>9, WaitTimeoutDoes DEF SameLims
  <2> QED  BY <1>2, <2>1, <2>2, <2>3, <2>4, <2>5, <2>6, <2>7, <2>8, <2>9 DEF LimStep
<1>3. ASSUME NEW l \in Lim, LimEnds(l) \/ Reset(l) \/ BrowserThere(l) \/ PipeStep(l)
      PROVE  LimStays(q)
  <2>1. CASE LimEnds(l)
    BY <2>1, LimEndsDoes DEF SameLims
  <2>2. CASE Reset(l)
    BY <2>2, ResetDoes DEF SameLims
  <2>3. CASE BrowserThere(l)
    BY <2>3, BrowserThereDoes DEF SameLims
  <2>4. CASE PipeStalls(l)
    BY <2>4, PipeStallsDoes DEF SameLims
  <2>5. CASE PipeReopens(l)
    BY <2>5, PipeReopensDoes DEF SameLims
  <2> QED  BY <1>3, <2>1, <2>2, <2>3, <2>4, <2>5 DEF PipeStep
<1>4. ASSUME NEW l \in Lim, Start(l)
      PROVE  \/ LimStays(q)
             \/ /\ \E p \in Port : LimStarts(q, p) /\ ("port" \in features \/ p = lims[q].port)
                /\ SameLims(q)
  <2> PICK p \in Port : LimStarts(l, p) /\ ("port" \in features \/ p = lims[l].port)
    BY <1>4 DEF Start
  <2>1. SameLims(l)
    BY LimStartsDoes
  <2> QED  BY <2>1 DEF SameLims
<1>5. ASSUME NEW s \in Slot, ServerStep(s) \/ Connect(s) \/ Disconnect(s)
      PROVE  UNCHANGED lims
  BY <1>5 DEF ServerStep, Exec, Bind, MarkReady, MarkPid, OpenFifo, Connect, Disconnect
<1>6. CASE Fault
  <2>1. ASSUME NEW s \in Slot, Crash(s)
        PROVE  LimStays(q)
    BY <2>1, CrashDoes DEF AllLost
  <2> QED  BY <1>1, <1>6, <2>1 DEF Fault, CleanTmp, ForeignEnds
<1> QED  BY <1>1, <1>2, <1>3, <1>4, <1>5, <1>6 DEF Next, UserStep, vars

\* The port of a server is that of the lim that forked it.
LEMMA OnePortStep ==
    ASSUME TypeOK, OnePort, [Next]_vars
    PROVE  OnePort'
<1> USE DEF OnePort, Without
<1>1. features' = features /\ taken' \subseteq taken
  BY Frames
<1>2. Without({"port"}) => \A l \in Lim : lims'[l].port = ThePort
  <2> SUFFICES ASSUME Without({"port"}), NEW l \in Lim
               PROVE  lims'[l].port = ThePort
    OBVIOUS
  <2>1. "port" \notin features
    OBVIOUS
  <2>2. ASSUME NEW p \in Port, LimStarts(l, p), p = lims[l].port
        PROVE  lims'[l].port = lims[l].port
    BY <2>2, LimStartsDoes
  <2> QED  BY <2>1, <2>2, LimFrames DEF LimStays
<1>3. Without({"port"}) => \A s \in Slot : servers'[s].port = ThePort
  <2> SUFFICES ASSUME Without({"port"}), NEW q \in Slot
               PROVE  servers'[q].port = ThePort
    OBVIOUS
  <2>1. CASE UNCHANGED servers
    BY <2>1
  <2>2. ASSUME NEW l \in Lim, Fork(l)
        PROVE  servers'[q].port = ThePort
    <3> PICK s \in Slot : SameServers(s) /\ servers'[s].port = lims[l].port
      BY <2>2, ForkDoes
    <3> QED  BY DEF SameServers
  <2>3. ASSUME NEW l \in Lim, Kill(l)
        PROVE  servers'[q].port = ThePort
    <3>1. lims[l].cand \in Slot /\ Dead(lims[l].cand)
      BY <2>3, KillDoes
    <3> QED  BY <3>1, DeadDoes DEF SameServers
  <2>4. ASSUME NEW s \in Slot, ServerStep(s) \/ Connect(s) \/ Disconnect(s) \/ Crash(s)
        PROVE  servers'[q].port = ThePort
    <3>1. SameServers(s) /\ servers'[s].port = servers[s].port
      BY <2>4, ExecDoes, BindDoes, MarkReadyDoes, MarkPidDoes, OpenFifoDoes, ConnectDoes,
         DisconnectDoes, CrashDoes, DeadDoes DEF ServerStep
    <3> QED  BY <3>1 DEF SameServers
  <2> QED  BY <2>1, <2>2, <2>3, <2>4, Frames
<1> QED  BY <1>1, <1>2, <1>3

\* A lim starts when the others are off.
LEMMA OneLimStep ==
    ASSUME TypeOK, OneLim, [Next]_vars
    PROVE  OneLim'
<1>1. features' = features
  BY Frames
<1> SUFFICES ASSUME "race" \notin features, NEW l \in Lim, NEW q \in Lim,
                    lims'[l].pc # "off", lims'[q].pc # "off"
             PROVE  l = q
  BY <1>1 DEF OneLim, Without
<1>2. lims[l].pc # "off" /\ lims[q].pc # "off" => l = q
  BY DEF OneLim, Without
<1>3. \A k \in Lim : lims[k].pc = "off" /\ lims'[k].pc # "off" =>
         /\ \A j \in Lim : lims[j].pc = "off"
         /\ SameLims(k)
  <2> SUFFICES ASSUME NEW k \in Lim, lims[k].pc = "off", lims'[k].pc # "off"
               PROVE  (\A j \in Lim : lims[j].pc = "off") /\ SameLims(k)
    OBVIOUS
  <2> PICK p \in Port : LimStarts(k, p) /\ SameLims(k)
    BY LimFrames DEF LimStays
  <2> QED  BY LimStartsDoes DEF Quiet
<1> QED  BY <1>2, <1>3 DEF SameLims

\* A lim writes to the present node or to none, a server has the present node or its
\* own: /tmp is cleaned between lims only.
LEMMA NodesStep ==
    ASSUME TypeOK, NodesSound, ServersSound, [Next]_vars
    PROVE  NodesSound'
<1> USE DEF NodesSound, Starting, Alive
<1>1. features' = features /\ (NodesKept' <=> NodesKept)
      /\ (Without({"clean"})' <=> Without({"clean"}))
  BY Frames DEF Without, NodesKept
<1> USE <1>1
<1>2. ASSUME NEW l \in Lim, NEW p \in Port, LimStarts(l, p)
      PROVE  NodesSound'
  <2>1. /\ SameLims(l) /\ lims'[l].fd = fifo' /\ fifo' # 0 /\ (fifo # 0 => fifo' = fifo)
        /\ UNCHANGED servers
    BY <1>2, LimStartsDoes
  <2> QED  BY <2>1 DEF SameLims
<1>3. ASSUME UNCHANGED <<fifo, servers>>, \A q \in Lim : LimStays(q)
      PROVE  NodesSound'
  BY <1>3 DEF LimStays
<1>4. ASSUME UNCHANGED fifo, \A q \in Lim : LimStays(q), NEW s \in Slot, SameServers(s),
             Starting(s)' => \/ Starting(s) /\ servers'[s].held = servers[s].held
                             \/ NodesKept => fifo # 0 /\ servers'[s].held \in {0, fifo},
             servers'[s].phase = "reading" =>
                /\ servers[s].phase = "reading" /\ servers'[s].held = servers[s].held
                /\ servers'[s].reads = servers[s].reads,
             servers'[s].reads \in {servers[s].reads, 0}
      PROVE  NodesSound'
  <2>1. ASSUME NodesKept, NEW q \in Slot
        PROVE  /\ Starting(q)' => fifo # 0 /\ servers'[q].held \in {0, fifo}
               /\ servers'[q].phase = "reading" => servers'[q].held \in {0, servers'[q].reads}
    <3>1. CASE q = s
      BY <1>4, <2>1, <3>1
    <3>2. CASE q # s
      BY <1>4, <2>1, <3>2 DEF SameServers
    <3> QED  BY <3>1, <3>2
  <2>2. NodesKept => \A q \in Lim : lims'[q].pc # "off" => fifo # 0 /\ lims'[q].fd \in {0, fifo}
    BY <1>4 DEF LimStays
  <2>3. Without({"clean"}) => \A q \in Slot : servers'[q].reads \in {0, fifo}
    BY <1>4 DEF SameServers
  <2> QED  BY <1>4, <2>1, <2>2, <2>3
<1>5. UNCHANGED lims => \A q \in Lim : LimStays(q)
  BY DEF LimStays
<1>6. ASSUME NEW s \in Slot, Dead(s), UNCHANGED fifo, \A q \in Lim : LimStays(q)
      PROVE  NodesSound'
  <2>1. SameServers(s) /\ servers'[s].phase = "dead" /\ servers'[s].reads = 0
    BY <1>6, DeadDoes
  <2> QED  BY <1>4, <1>6, <2>1
<1>7. ASSUME NEW l \in Lim, Kill(l)
      PROVE  NodesSound'
  <2>1. lims[l].cand \in Slot /\ Dead(lims[l].cand) /\ UNCHANGED fifo
    BY <1>7, KillDoes DEF disk
  <2>2. \A q \in Lim : LimStays(q)
    BY <1>7, KillDoes DEF LimStays
  <2> QED  BY <1>6, <2>1, <2>2
<1>8. ASSUME NEW s \in Slot, Crash(s)
      PROVE  NodesSound'
  <2>1. Dead(s) /\ UNCHANGED fifo /\ AllLost
    BY <1>8, CrashDoes DEF disk
  <2>2. \A q \in Lim : LimStays(q)
    BY <2>1 DEF AllLost, LimStays
  <2> QED  BY <1>6, <2>1, <2>2
<1>9. ASSUME NEW l \in Lim, Fork(l)
      PROVE  NodesSound'
  <2> PICK s \in Slot : /\ SameServers(s) /\ servers'[s].phase = "sh"
                        /\ servers'[s].held = lims[l].fd /\ servers'[s].reads = 0
    BY <1>9, ForkDoes
  <2>1. UNCHANGED fifo /\ lims[l].pc # "off" /\ \A q \in Lim : LimStays(q)
    <3>1. /\ SameLims(l) /\ UNCHANGED fifo /\ lims[l].pc = "fork"
          /\ lims'[l].port = lims[l].port /\ lims'[l].fd = lims[l].fd
      BY <1>9, ForkDoes DEF disk
    <3>2. LimStays(l) /\ \A q \in Lim \ {l} : LimStays(q)
      BY <3>1 DEF LimStays, SameLims
    <3> QED  BY <3>1, <3>2
  <2> QED  BY <1>4, <2>1
<1>10. ASSUME NEW s \in Slot, OpenFifo(s)
       PROVE  NodesSound'
  <2>1. /\ SameServers(s) /\ servers'[s].held = servers[s].held
        /\ servers'[s].phase = "reading" /\ servers'[s].reads = fifo' /\ Starting(s)
        /\ fifo' # 0 /\ (fifo # 0 => fifo' = fifo) /\ UNCHANGED lims
    BY <1>10, OpenFifoDoes
  <2>2. NodesKept => fifo' = fifo /\ servers[s].held \in {0, fifo}
    BY <2>1
  <2>3. NodesKept => \A q \in Slot :
           /\ Starting(q)' => fifo' # 0 /\ servers'[q].held \in {0, fifo'}
           /\ servers'[q].phase = "reading" => servers'[q].held \in {0, servers'[q].reads}
    BY <2>1, <2>2 DEF SameServers
  <2>4. Without({"clean"}) => \A q \in Slot : servers'[q].reads \in {0, fifo'}
    BY <2>1 DEF SameServers
  <2> QED  BY <2>1, <2>2, <2>3, <2>4
<1>11. ASSUME NEW s \in Slot, UNCHANGED <<fifo, lims>>, SameServers(s),
              servers'[s].held = servers[s].held, servers'[s].reads = servers[s].reads,
              servers'[s].phase = "reading" => servers[s].phase = "reading",
              Starting(s)' => Starting(s)
       PROVE  NodesSound'
  BY <1>4, <1>5, <1>11
<1>12. ASSUME NEW s \in Slot, ServerStep(s)
       PROVE  NodesSound'
  <2>1. CASE Exec(s)
    BY <1>11, <2>1, ExecDoes DEF disk
  <2>2. CASE Bind(s)
    <3>1. /\ SameServers(s) /\ UNCHANGED <<fifo, lims>> /\ servers[s].phase = "python"
          /\ servers[s].reads = 0
      BY <2>2, BindDoes DEF disk, ServersSound
    <3>2. \/ servers'[s].phase = "bound" /\ servers'[s].held = servers[s].held
             /\ servers'[s].reads = servers[s].reads
          \/ servers'[s].phase = "dead" /\ servers'[s].reads = 0
      BY <2>2, BindDoes
    <3> QED  BY <1>4, <1>5, <3>1, <3>2
  <2>3. CASE MarkReady(s)
    BY <1>11, <2>3, MarkReadyDoes
  <2>4. CASE MarkPid(s)
    BY <1>11, <2>4, MarkPidDoes
  <2> QED  BY <1>10, <1>12, <2>1, <2>2, <2>3, <2>4 DEF ServerStep
<1>13. ASSUME NEW s \in Slot, Connect(s) \/ Disconnect(s)
       PROVE  NodesSound'
  BY <1>11, <1>13, ConnectDoes, DisconnectDoes
<1>14. CASE CleanTmp
  <2>1. "clean" \in features /\ UNCHANGED <<lims, servers>> /\ (NodesKept => Quiet) /\ fifo' = 0
    BY <1>14 DEF CleanTmp, Without, NodesKept
  <2>2. ~Without({"clean"})
    BY <2>1 DEF Without
  <2> QED  BY <2>1, <2>2 DEF Quiet, Settled
<1>15. ASSUME UNCHANGED <<fifo, servers>>, ~\E l \in Lim, p \in Port : LimStarts(l, p)
       PROVE  NodesSound'
  BY <1>3, <1>15, LimFrames
<1>16. ASSUME NEW l \in Lim, LimStep(l) \/ UserStep(l) \/ PipeStep(l)
       PROVE  NodesSound'
  <2>1. \/ UNCHANGED <<fifo, servers>>
        \/ Kill(l) \/ Fork(l) \/ \E p \in Port : LimStarts(l, p)
    BY <1>16 DEF LimStep, UserStep, PipeStep, Start, LimEnds, CheckPort, Resolve, Judge,
                 KillFails, Unlink, Ready, WaitTimeout, Reset, BrowserThere, PipeStalls,
                 PipeReopens, disk
  <2> QED  BY <1>2, <1>7, <1>9, <1>15, <2>1
<1>17. CASE (\E p \in Port : ForeignEnds(p)) \/ UNCHANGED vars
  BY <1>3, <1>5, <1>17 DEF ForeignEnds, vars, disk
<1> QED  BY <1>8, <1>12, <1>13, <1>14, <1>16, <1>17 DEF Next, Fault

\* A stranger among the servers is the only one, and is found before another is made.
LEMMA PortsStep ==
    ASSUME TypeOK, ServersSound, OnePort, OneLim, NodesSound, PortsSound, [Next]_vars
    PROVE  PortsSound'
<1>1. features' = features
  BY Frames
<1> SUFFICES ASSUME Without({"race", "clean"})
             PROVE  PortsSound'
  BY <1>1 DEF PortsSound, Without
<1> USE DEF Stranger, Alive
<1>2. Without({"race"}) /\ Without({"clean"}) /\ NodesKept
  BY DEF Without, NodesKept
<1>3. \A s, q \in Slot : Alive(s) /\ Alive(q) => servers[s].port = servers[q].port
  BY DEF PortsSound
<1> DEFINE Found1(l, s, pc, cand, busy) ==
             /\ pc \in {"check", "resolve", "judge", "kill", "run"}
             /\ pc \in {"judge", "kill"} => cand = s
             /\ pc \in {"resolve", "judge", "kill"} /\ Without({"foreign"}) => ~busy
           Kept(l, s) == Found1(l, s, lims[l].pc, lims[l].cand, lims[l].busy)
           Only(s) == servers[s].phase = "reading" /\ \A q \in Slot : Alive(q) => q = s
<1>4. \A l \in Lim, s \in Slot : lims[l].pc # "off" /\ Stranger(s, l) => Only(s) /\ Kept(l, s)
  BY DEF PortsSound
<1>5. ASSUME \A s, q \in Slot : Alive(s)' /\ Alive(q)' => servers'[s].port = servers'[q].port,
             \A l \in Lim, s \in Slot : lims'[l].pc # "off" /\ Stranger(s, l)' => Only(s)' /\ Kept(l, s)'
      PROVE  PortsSound'
  BY <1>1, <1>5 DEF PortsSound
<1>6. \A l, q \in Lim : lims[l].pc # "off" /\ lims[q].pc # "off" => l = q
  BY <1>2 DEF OneLim
<1>7. Without({"foreign"})' <=> Without({"foreign"})
  BY <1>1 DEF Without
<1>8. ASSUME NEW l \in Lim, UNCHANGED servers, SameLims(l), lims'[l].port = lims[l].port,
             lims[l].pc # "off",
             \A s \in Slot : lims'[l].pc # "off" /\ Stranger(s, l) => Kept(l, s)'
      PROVE  PortsSound'
  <2>1. \A q \in Lim, s \in Slot : lims'[q].pc # "off" /\ Stranger(s, q)' => Only(s)' /\ Kept(q, s)'
    <3> SUFFICES ASSUME NEW q \in Lim, NEW s \in Slot, lims'[q].pc # "off", Stranger(s, q)'
                 PROVE  Only(s)' /\ Kept(q, s)'
      OBVIOUS
    <3>1. CASE q = l
      BY <1>4, <1>8, <3>1
    <3>2. CASE q # l
      BY <1>4, <1>7, <1>8, <3>2 DEF SameLims
    <3> QED  BY <3>1, <3>2
  <2> QED  BY <1>3, <1>5, <1>8, <2>1
<1>9. ASSUME NEW l \in Lim, NEW p \in Port, LimStarts(l, p)
      PROVE  PortsSound'
  <2>1. /\ SameLims(l) /\ lims'[l].pc = "check" /\ UNCHANGED servers
        /\ \A q \in Lim : lims[q].pc = "off"
        /\ \A s \in Slot : Alive(s) => servers[s].phase = "reading"
    BY <1>2, <1>9, LimStartsDoes DEF Quiet, Settled, Starting, Without
  <2>2. \A s \in Slot : Alive(s) => Only(s)
    BY <1>3, <2>1 DEF ServersSound, Bound
  <2> QED  BY <1>3, <1>5, <2>1, <2>2 DEF SameLims
<1>10. ASSUME NEW l \in Lim, CheckPort(l)
       PROVE  PortsSound'
  <2>1. /\ SameLims(l) /\ lims'[l].port = lims[l].port /\ UNCHANGED servers
        /\ lims[l].pc = "check" /\ lims'[l].pc = "resolve"
        /\ lims'[l].busy = PortBusy(lims[l].port)
    BY <1>10, CheckPortDoes
  <2>2. ASSUME NEW s \in Slot, Stranger(s, l), Without({"foreign"})
        PROVE  ~PortBusy(lims[l].port)
    <3>1. Only(s) /\ taken = {}
      BY <1>4, <2>1, <2>2 DEF OnePort
    <3> QED  BY <2>2, <3>1 DEF PortBusy, Bound
  <2> QED  BY <1>7, <1>8, <2>1, <2>2
<1>11. ASSUME NEW l \in Lim, Resolve(l)
       PROVE  PortsSound'
  <2> PICK r \in Resolved :
         /\ SameLims(l) /\ lims'[l].port = lims[l].port /\ UNCHANGED servers
         /\ lims[l].pc = "resolve" /\ lims'[l].pc = Found(l, r) /\ lims'[l].cand = r
         /\ lims'[l].busy = lims[l].busy
    BY <1>11, ResolveDoes
  <2>1. ASSUME NEW s \in Slot, Stranger(s, l)
        PROVE  r = s /\ Found(l, r) = "judge"
    <3>1. Only(s) /\ Ours(s)
      BY <1>4, <2>1 DEF Ours
    <3>2. marks.pid # 0 => marks.pid \in Slot
      BY DEF TypeOK, Slot
    <3>3. \A q \in Slot : Ours(q) => q = s
      BY <3>1 DEF Ours
    <3>4. r = s
      BY <3>1, <3>2, <3>3 DEF Resolved
    <3>5. s # 0
      BY DEF Slot
    <3> QED  BY <3>4, <3>5 DEF Found
  <2>2. ASSUME NEW s \in Slot, Stranger(s, l)
        PROVE  Kept(l, s)'
    BY <1>4, <1>7, <2>1, <2>2
  <2> QED  BY <1>8, <2>2
<1>12. ASSUME NEW l \in Lim, Judge(l)
       PROVE  PortsSound'
  <2>1. /\ SameLims(l) /\ lims'[l].port = lims[l].port /\ UNCHANGED servers
        /\ lims[l].pc = "judge" /\ lims'[l].cand = lims[l].cand /\ lims'[l].busy = lims[l].busy
        /\ lims'[l].pc = IF ToKill(l, lims[l].cand) THEN "kill"
                         ELSE IF lims[l].busy THEN "run" ELSE "unlink"
    BY <1>12, JudgeDoes
  <2>2. ASSUME NEW s \in Slot, Stranger(s, l)
        PROVE  Kept(l, s)'
    <3>1. Only(s) /\ lims[l].cand = s
      BY <1>4, <2>1, <2>2
    <3>2. servers[s].reads # 0 /\ servers[s].reads \in {0, fifo} /\ lims[l].fd \in {0, fifo}
      BY <1>2, <2>1, <3>1 DEF ServersSound, NodesSound
    <3>3. NodeOf(l) = servers[s].reads
      BY <3>2 DEF NodeOf
    <3>4. HoldsFifo(s, l)
      BY <3>3 DEF HoldsFifo
    <3>5. lims'[l].pc \in {"kill", "run"}
      BY <2>1, <3>1, <3>4 DEF ToKill
    <3> QED  BY <1>4, <1>7, <2>1, <2>2, <3>1, <3>5
  <2> QED  BY <1>8, <2>1, <2>2
<1>13. ASSUME NEW s \in Slot, Dead(s),
              \A q \in Lim : \/ /\ lims'[q].pc = lims[q].pc /\ lims'[q].port = lims[q].port
                                /\ lims'[q].cand = lims[q].cand /\ lims'[q].busy = lims[q].busy
                             \/ \A k \in Slot : ~Stranger(k, q)'
       PROVE  PortsSound'
  <2>1. SameServers(s) /\ servers'[s].phase = "dead"
    BY <1>13, DeadDoes
  <2>2. \A q \in Slot : Alive(q)' => Alive(q) /\ servers'[q] = servers[q]
    BY <2>1 DEF SameServers
  <2>3. ASSUME NEW q \in Lim, NEW k \in Slot, lims'[q].pc # "off", Stranger(k, q)'
        PROVE  Only(k)' /\ Kept(q, k)'
    <3>1. /\ lims'[q].pc = lims[q].pc /\ lims'[q].port = lims[q].port
          /\ lims'[q].cand = lims[q].cand /\ lims'[q].busy = lims[q].busy
      BY <1>13, <2>3
    <3>2. lims[q].pc # "off" /\ Stranger(k, q)
      BY <2>2, <2>3, <3>1
    <3>3. Only(k)'
      BY <1>4, <2>2, <2>3, <3>2
    <3>4. Kept(q, k)'
      BY <1>4, <1>7, <3>1, <3>2
    <3> QED  BY <3>3, <3>4
  <2> QED  BY <1>3, <1>5, <2>2, <2>3
<1>14. ASSUME NEW l \in Lim, Kill(l)
       PROVE  PortsSound'
  <2>1. /\ lims[l].pc = "kill" /\ lims[l].cand \in Slot /\ Dead(lims[l].cand)
        /\ lims'[l].port = lims[l].port
        /\ \A q \in Lim \ {l} : /\ lims'[q].pc = lims[q].pc /\ lims'[q].port = lims[q].port
                                /\ lims'[q].cand = lims[q].cand /\ lims'[q].busy = lims[q].busy
    BY <1>14, KillDoes
  <2>2. ASSUME NEW k \in Slot, Stranger(k, l)'
        PROVE  FALSE
    <3>1. k # lims[l].cand /\ servers'[k] = servers[k]
      BY <2>1, <2>2, DeadDoes DEF SameServers
    <3> QED  BY <1>4, <2>1, <2>2, <3>1
  <2> QED  BY <1>13, <2>1, <2>2
<1>15. ASSUME NEW l \in Lim, Fork(l)
       PROVE  PortsSound'
  <2>1. SameLims(l) /\ lims[l].pc = "fork" /\ lims'[l].port = lims[l].port
    BY <1>15, ForkDoes
  <2> PICK s \in Slot : SameServers(s) /\ servers'[s].port = lims[l].port
    BY <1>15, ForkDoes
  <2>2. \A q \in Slot : Alive(q) => servers[q].port = lims[l].port
    BY <1>4, <2>1
  <2>3. \A q \in Slot : Alive(q)' => servers'[q].port = lims[l].port
    BY <2>2 DEF SameServers
  <2>4. \A q \in Lim : lims'[q].pc # "off" => q = l
    BY <1>6, <2>1 DEF SameLims
  <2> QED  BY <1>5, <2>1, <2>3, <2>4
<1>16. ASSUME NEW s \in Slot, UNCHANGED lims, SameServers(s), servers'[s].port = servers[s].port,
              servers'[s].phase = servers[s].phase
              \/ (Alive(s) /\ Alive(s)' /\ servers[s].phase # "reading")
       PROVE  PortsSound'
  <2>1. \A q \in Slot : (Alive(q)' <=> Alive(q)) /\ servers'[q].port = servers[q].port
    BY <1>16 DEF SameServers
  <2>2. ASSUME NEW q \in Lim, NEW k \in Slot, lims'[q].pc # "off", Stranger(k, q)'
        PROVE  Only(k)' /\ Kept(q, k)'
    <3>1. Only(k) /\ Kept(q, k)
      BY <1>4, <1>16, <2>1, <2>2
    <3>2. servers'[k].phase = "reading"
      BY <1>16, <3>1 DEF SameServers
    <3> QED  BY <1>7, <1>16, <2>1, <3>1, <3>2
  <2> QED  BY <1>3, <1>5, <2>1, <2>2
<1>17. ASSUME NEW s \in Slot, ServerStep(s)
       PROVE  PortsSound'
  <2>1. CASE Exec(s)
    BY <1>16, <2>1, ExecDoes
  <2>2. CASE Bind(s)
    <3>1. UNCHANGED lims /\ SameServers(s) /\ servers'[s].port = servers[s].port
          /\ servers[s].phase = "python" /\ (Dead(s) \/ servers'[s].phase = "bound")
      BY <2>2, BindDoes DEF Bind
    <3>2. CASE Dead(s)
      BY <1>13, <3>1, <3>2
    <3> QED  BY <1>16, <3>1, <3>2
  <2>3. CASE MarkReady(s)
    BY <1>16, <2>3, MarkReadyDoes
  <2>4. CASE MarkPid(s)
    BY <1>16, <2>4, MarkPidDoes
  <2>5. CASE OpenFifo(s)
    BY <1>16, <2>5, OpenFifoDoes
  <2> QED  BY <1>17, <2>1, <2>2, <2>3, <2>4, <2>5 DEF ServerStep
<1>18. ASSUME NEW s \in Slot, Crash(s)
       PROVE  PortsSound'
  <2>1. Dead(s) /\ AllLost
    BY <1>18, CrashDoes
  <2> QED  BY <1>13, <2>1 DEF AllLost
<1>19. ASSUME NEW s \in Slot, Connect(s) \/ Disconnect(s)
       PROVE  PortsSound'
  BY <1>16, <1>19, ConnectDoes, DisconnectDoes
<1>20. ASSUME NEW l \in Lim, LimEnds(l)
       PROVE  PortsSound'
  <2>1. SameLims(l) /\ lims'[l].pc = "off" /\ UNCHANGED servers
    BY <1>20, LimEndsDoes
  <2> QED  BY <1>3, <1>4, <1>5, <1>7, <2>1 DEF SameLims
<1>21. ASSUME NEW l \in Lim, KillFails(l) \/ Unlink(l) \/ Ready(l) \/ WaitTimeout(l) \/ Reset(l)
                             \/ BrowserThere(l) \/ PipeStep(l)
       PROVE  PortsSound'
  <2>1. /\ UNCHANGED servers /\ SameLims(l) /\ lims'[l].port = lims[l].port /\ lims[l].pc # "off"
        /\ lims'[l].pc \in {"run", "check"} \/ lims[l].pc = "unlink"
    <3>1. CASE KillFails(l) \/ Unlink(l) \/ Ready(l)
      BY <3>1, KillFailsDoes, UnlinkDoes, ReadyDoes
    <3>2. CASE WaitTimeout(l) \/ Reset(l) \/ BrowserThere(l)
      BY <3>2, WaitTimeoutDoes, ResetDoes, BrowserThereDoes
    <3>3. CASE PipeStep(l)
      BY <3>3, PipeStallsDoes, PipeReopensDoes DEF PipeStep
    <3> QED  BY <1>21, <3>1, <3>2, <3>3
  <2>2. \A s \in Slot : Stranger(s, l) => lims'[l].pc \in {"run", "check"}
    BY <1>4, <2>1
  <2> QED  BY <1>8, <2>1, <2>2
<1>22. CASE CleanTmp
  BY <1>2, <1>22 DEF CleanTmp, Without
<1>23. ASSUME UNCHANGED <<servers, lims>>
       PROVE  PortsSound'
  BY <1>3, <1>4, <1>5, <1>7, <1>23
<1> QED
  BY <1>9, <1>10, <1>11, <1>12, <1>14, <1>15, <1>17, <1>18, <1>19, <1>20, <1>21, <1>22, <1>23
  DEF Next, LimStep, UserStep, Start, Fault, ForeignEnds, vars

\* A stranger reads the node that the lim writes to.
LEMMA StrangerHolds ==
    ASSUME ServersSound, NodesSound, PortsSound, Without({"race", "clean"}),
           NEW l \in Lim, NEW s \in Slot, lims[l].pc # "off", Stranger(s, l)
    PROVE  HoldsFifo(s, l)
<1>1. NodesKept /\ Without({"clean"}) /\ servers[s].phase = "reading"
  BY DEF Without, NodesKept, PortsSound
<1>2. servers[s].reads # 0 /\ servers[s].reads \in {0, fifo} /\ lims[l].fd \in {0, fifo}
  BY <1>1 DEF ServersSound, NodesSound
<1> QED  BY <1>2 DEF HoldsFifo, NodeOf

\* The parts of AloneSound about one lim.
Looks(l) ==
    /\ lims[l].pc \notin {"off", "wait", "run"} => Settled
    /\ lims[l].pc \in {"unlink", "fork"} => \A s \in Slot : ~Alive(s)
    /\ lims[l].pc \in {"judge", "kill"} => \A s \in Slot : Alive(s) => s = lims[l].cand
    /\ lims[l].pc \in {"resolve", "judge", "kill"} /\ ~lims[l].busy =>
          \A s \in Slot : Alive(s) => servers[s].port # lims[l].port
    /\ lims[l].pc = "kill" /\ lims[l].busy => ~Serves(lims[l].cand, l)

\* Only a lim that is alone makes a server, where there is none.
LEMMA AloneStep ==
    ASSUME TypeOK, ServersSound, OnePort, OneLim, NodesSound, PortsSound, AloneSound,
           [Next]_vars
    PROVE  AloneSound'
<1>1. features' = features
  BY Frames
<1> SUFFICES ASSUME Without({"race", "slow"}), PortsKept
             PROVE  AloneSound'
  BY <1>1 DEF AloneSound, PortsKept, Without
<1> USE DEF Alive
<1>2. "race" \notin features /\ "slow" \notin features /\ Without({"race"})
  BY DEF Without
<1>3. /\ \A s, q \in Slot : Alive(s) /\ Alive(q) => s = q
      /\ \A l \in Lim : Looks(l)
  BY DEF AloneSound, Looks
<1>4. ASSUME \A s, q \in Slot : Alive(s)' /\ Alive(q)' => s = q, \A l \in Lim : Looks(l)'
      PROVE  AloneSound'
  BY <1>4 DEF AloneSound, Looks
<1>5. \A l, q \in Lim : lims[l].pc # "off" /\ lims[q].pc # "off" => l = q
  BY <1>2 DEF OneLim
<1>6. \A l \in Lim : lims'[l].pc \in {"off", "run", "wait"} => Looks(l)'
  BY DEF Looks
<1>7. ASSUME NEW l \in Lim, UNCHANGED servers, SameLims(l), Looks(l)'
      PROVE  AloneSound'
  <2>1. ASSUME NEW q \in Lim, q # l
        PROVE  Looks(q)'
    <3>1. lims'[q] = lims[q]
      BY <1>7, <2>1 DEF SameLims
    <3> QED  BY <1>3, <1>7, <3>1 DEF Looks, Settled, Starting, Serves
  <2> QED  BY <1>3, <1>4, <1>7, <2>1
<1>8. ASSUME NEW l \in Lim, NEW p \in Port, LimStarts(l, p)
      PROVE  AloneSound'
  <2>1. SameLims(l) /\ lims'[l].pc = "check" /\ UNCHANGED servers /\ Settled
    BY <1>2, <1>8, LimStartsDoes DEF Quiet
  <2>2. Looks(l)'
    BY <2>1 DEF Looks, Settled, Starting
  <2> QED  BY <1>7, <2>1, <2>2
<1>9. ASSUME NEW l \in Lim, CheckPort(l)
      PROVE  AloneSound'
  <2>1. /\ SameLims(l) /\ lims'[l].port = lims[l].port /\ UNCHANGED servers
        /\ lims[l].pc = "check" /\ lims'[l].pc = "resolve"
        /\ lims'[l].busy = PortBusy(lims[l].port)
    BY <1>9, CheckPortDoes
  <2>2. Settled
    BY <1>3, <2>1 DEF Looks
  <2>3. ~PortBusy(lims[l].port) => \A s \in Slot : Alive(s) => servers[s].port # lims[l].port
    BY <2>2 DEF Settled, Starting, PortBusy, Bound
  <2>4. Looks(l)'
    BY <2>1, <2>2, <2>3 DEF Looks, Settled, Starting
  <2> QED  BY <1>7, <2>1, <2>4
<1>10. ASSUME NEW l \in Lim, Resolve(l)
       PROVE  AloneSound'
  <2> PICK r \in Resolved :
         /\ SameLims(l) /\ lims'[l].port = lims[l].port /\ UNCHANGED servers
         /\ lims[l].pc = "resolve" /\ lims'[l].pc = Found(l, r) /\ lims'[l].cand = r
         /\ lims'[l].busy = lims[l].busy
    BY <1>10, ResolveDoes
  <2>1. Settled /\ (~lims[l].busy => \A s \in Slot : Alive(s) => servers[s].port # lims[l].port)
    BY <1>3 DEF Looks
  <2>2. marks.pid # 0 => marks.pid \in Slot
    BY DEF TypeOK, Slot
  <2>3. \A s \in Slot : s # 0
    BY DEF Slot
  <2>4. CASE r = 0
    <3>1. \A s \in Slot : ~Ours(s)
      BY <2>2, <2>3, <2>4 DEF Resolved
    <3>2. \A s \in Slot : ~Alive(s)
      BY <2>1, <3>1 DEF Settled, Starting, Ours
    <3>3. lims'[l].pc \in {"run", "unlink"}
      BY <2>4 DEF Found
    <3>4. Looks(l)'
      BY <2>1, <3>2, <3>3 DEF Looks, Settled, Starting
    <3> QED  BY <1>7, <3>4
  <2>5. CASE r # 0
    <3>1. r \in Slot /\ Alive(r)
      BY <2>2, <2>5 DEF Resolved, Ours
    <3>2. \A s \in Slot : Alive(s) => s = r
      BY <1>3, <3>1
    <3>3. lims'[l].pc = "judge"
      BY <2>5 DEF Found
    <3>4. Looks(l)'
      BY <2>1, <3>2, <3>3 DEF Looks, Settled, Starting
    <3> QED  BY <1>7, <3>4
  <2> QED  BY <2>4, <2>5
<1>11. ASSUME NEW l \in Lim, Judge(l)
       PROVE  AloneSound'
  <2>1. /\ SameLims(l) /\ lims'[l].port = lims[l].port /\ lims'[l].fd = lims[l].fd
        /\ UNCHANGED servers /\ lims[l].pc = "judge"
        /\ lims'[l].cand = lims[l].cand /\ lims'[l].busy = lims[l].busy
        /\ lims'[l].pc = IF ToKill(l, lims[l].cand) THEN "kill"
                         ELSE IF lims[l].busy THEN "run" ELSE "unlink"
    BY <1>11, JudgeDoes
  <2>2. Looks(l)
    BY <1>3
  <2> DEFINE c == lims[l].cand
  <2>3. c \in Slot
    BY <2>1 DEF TypeOK, Lims, Slot
  <2>4. ASSUME lims[l].busy, ~HoldsFifo(c, l)
        PROVE  ~Serves(c, l)
    BY <2>3, <2>4 DEF HoldsFifo, NodeOf, Serves, ServersSound
  <2>5. ASSUME ~lims[l].busy, ~HoldsFifo(c, l)
        PROVE  FALSE
    <3>1. Alive(c) /\ servers[c].port # lims[l].port
      BY <2>1, <2>2, <2>3, <2>5 DEF HoldsFifo, Looks
    <3>2. CASE Without({"port"})
      BY <2>3, <3>1, <3>2 DEF OnePort
    <3>3. CASE Without({"race", "clean"})
      BY <2>1, <2>3, <2>5, <3>1, <3>3, StrangerHolds DEF Stranger
    <3> QED  BY <3>2, <3>3 DEF PortsKept
  <2>6. lims'[l].pc \in {"kill", "run"}
    BY <2>1, <2>5 DEF ToKill
  <2>7. lims'[l].pc = "kill" /\ lims[l].busy => ~Serves(c, l)
    BY <2>1, <2>4 DEF ToKill
  <2>8. Looks(l)'
    BY <2>1, <2>2, <2>6, <2>7 DEF Looks, Settled, Starting, Serves
  <2> QED  BY <1>7, <2>1, <2>8
<1>12. ASSUME NEW l \in Lim, Kill(l)
       PROVE  AloneSound'
  <2>1. /\ lims[l].pc = "kill" /\ lims[l].cand \in Slot /\ Dead(lims[l].cand)
        /\ lims'[l].pc \in {"resolve", "unlink"}
        /\ \A q \in Lim \ {l} : lims'[q].pc = lims[q].pc
    BY <1>12, KillDoes
  <2>2. \A s \in Slot : ~Alive(s)'
    <3>1. \A s \in Slot : Alive(s) => s = lims[l].cand
      BY <1>3, <2>1 DEF Looks
    <3>2. SameServers(lims[l].cand) /\ servers'[lims[l].cand].phase = "dead"
      BY <2>1, DeadDoes
    <3> QED  BY <3>1, <3>2 DEF SameServers
  <2>3. \A q \in Lim : lims'[q].pc # "off" => q = l
    BY <1>5, <2>1
  <2>4. Looks(l)'
    BY <2>1, <2>2 DEF Looks, Settled, Starting
  <2> QED  BY <1>4, <1>6, <2>2, <2>3, <2>4
<1>13. ASSUME NEW l \in Lim, Fork(l)
       PROVE  AloneSound'
  <2>1. SameLims(l) /\ lims[l].pc = "fork" /\ lims'[l].pc = "wait"
    BY <1>13, ForkDoes
  <2> PICK s \in Slot : SameServers(s)
    BY <1>13, ForkDoes
  <2>2. \A q \in Slot : Alive(q)' => q = s
    BY <1>3, <2>1 DEF Looks, SameServers
  <2>3. \A q \in Lim : lims'[q].pc # "off" => q = l
    BY <1>5, <2>1 DEF SameLims
  <2> QED  BY <1>4, <1>6, <2>1, <2>2, <2>3
<1>14. ASSUME NEW s \in Slot, Dead(s),
              \A q \in Lim : /\ lims'[q].pc = lims[q].pc /\ lims'[q].port = lims[q].port
                             /\ lims'[q].cand = lims[q].cand /\ lims'[q].busy = lims[q].busy
                             /\ lims'[q].fd = lims[q].fd
       PROVE  AloneSound'
  <2>1. SameServers(s) /\ servers'[s].phase = "dead"
    BY <1>14, DeadDoes
  <2>2. \A q \in Slot : Alive(q)' => Alive(q) /\ servers'[q] = servers[q]
    BY <2>1 DEF SameServers
  <2>3. Settled => Settled'
    BY <2>2 DEF Settled, Starting
  <2>4. \A q \in Lim : lims[q].pc = "kill" => lims[q].cand \in Slot
    BY DEF TypeOK, Lims, Slot
  <2>5. ASSUME NEW q \in Lim
        PROVE  Looks(q)'
    <3>1. /\ lims'[q].pc = lims[q].pc /\ lims'[q].port = lims[q].port
          /\ lims'[q].cand = lims[q].cand /\ lims'[q].busy = lims[q].busy
          /\ lims'[q].fd = lims[q].fd
      BY <1>14
    <3>2. Looks(q)
      BY <1>3
    <3>3. (lims'[q].pc \notin {"off", "wait", "run"} => Settled')
          /\ (lims'[q].pc \in {"unlink", "fork"} => \A r \in Slot : ~Alive(r)')
      BY <2>2, <2>3, <3>1, <3>2 DEF Looks
    <3>4. /\ lims'[q].pc \in {"judge", "kill"} => \A r \in Slot : Alive(r)' => r = lims'[q].cand
          /\ lims'[q].pc \in {"resolve", "judge", "kill"} /\ ~lims'[q].busy =>
                \A r \in Slot : Alive(r)' => servers'[r].port # lims'[q].port
      BY <2>2, <3>1, <3>2 DEF Looks
    <3>5. lims'[q].pc = "kill" /\ lims'[q].busy => ~Serves(lims[q].cand, q)'
      <4> SUFFICES ASSUME lims'[q].pc = "kill", lims'[q].busy, Serves(lims[q].cand, q)'
                   PROVE  FALSE
        OBVIOUS
      <4>1. lims[q].cand \in Slot /\ ~Serves(lims[q].cand, q)
        BY <2>4, <3>1, <3>2 DEF Looks
      <4>2. servers'[lims[q].cand] = servers[lims[q].cand]
        BY <2>2, <3>1, <4>1 DEF Serves
      <4> QED  BY <3>1, <4>1, <4>2 DEF Serves
    <3> QED  BY <3>3, <3>4, <3>5 DEF Looks
  <2> QED  BY <1>3, <1>4, <2>2, <2>5
<1>15. ASSUME NEW s \in Slot, UNCHANGED lims, SameServers(s), Starting(s), Alive(s)'
       PROVE  AloneSound'
  <2>1. \A q \in Slot : Alive(q)' => Alive(q)
    BY <1>15 DEF SameServers, Starting
  <2>2. ~Settled
    BY <1>15 DEF Settled
  <2>3. \A q \in Lim : Looks(q)'
    BY <1>3, <1>6, <1>15, <2>2 DEF Looks
  <2> QED  BY <1>3, <1>4, <2>1, <2>3
<1>16. ASSUME NEW s \in Slot, ServerStep(s)
       PROVE  AloneSound'
  <2> USE DEF Starting
  <2>1. CASE Exec(s)
    BY <1>15, <2>1, ExecDoes
  <2>2. CASE Bind(s)
    <3>1. UNCHANGED lims /\ SameServers(s) /\ servers[s].phase = "python"
          /\ (Dead(s) \/ servers'[s].phase = "bound")
      BY <2>2, BindDoes DEF Bind
    <3> QED  BY <1>14, <1>15, <3>1
  <2>3. CASE MarkReady(s)
    BY <1>15, <2>3, MarkReadyDoes
  <2>4. CASE MarkPid(s)
    BY <1>15, <2>4, MarkPidDoes
  <2>5. CASE OpenFifo(s)
    BY <1>15, <2>5, OpenFifoDoes
  <2> QED  BY <1>16, <2>1, <2>2, <2>3, <2>4, <2>5 DEF ServerStep
<1>17. ASSUME NEW s \in Slot, Crash(s)
       PROVE  AloneSound'
  <2>1. Dead(s) /\ AllLost
    BY <1>17, CrashDoes
  <2> QED  BY <1>14, <2>1 DEF AllLost
<1>18. ASSUME NEW s \in Slot, Connect(s) \/ Disconnect(s)
       PROVE  AloneSound'
  <2>1. /\ SameServers(s) /\ UNCHANGED lims /\ servers'[s].port = servers[s].port
        /\ servers'[s].phase = servers[s].phase /\ servers'[s].reads = servers[s].reads
    BY <1>18, ConnectDoes, DisconnectDoes
  <2>2. \A q \in Slot : /\ servers'[q].port = servers[q].port /\ servers'[q].phase = servers[q].phase
                        /\ servers'[q].reads = servers[q].reads
    BY <2>1 DEF SameServers
  <2>3. \A q \in Lim : lims[q].pc = "kill" => lims[q].cand \in Slot
    BY DEF TypeOK, Lims, Slot
  <2>4. \A q \in Lim : Looks(q)'
    BY <1>3, <2>1, <2>2, <2>3 DEF Looks, Settled, Starting, Serves
  <2> QED  BY <1>3, <1>4, <2>2, <2>4
<1>19. ASSUME NEW l \in Lim, LimEnds(l)
       PROVE  AloneSound'
  BY <1>6, <1>7, <1>19, LimEndsDoes
<1>20. ASSUME NEW l \in Lim, KillFails(l) \/ Ready(l) \/ WaitTimeout(l) \/ BrowserThere(l)
                             \/ PipeStep(l)
       PROVE  AloneSound'
  <2>1. UNCHANGED servers /\ SameLims(l) /\ lims'[l].pc = "run"
    <3>1. CASE KillFails(l) \/ Ready(l) \/ WaitTimeout(l)
      BY <3>1, KillFailsDoes, ReadyDoes, WaitTimeoutDoes
    <3>2. CASE BrowserThere(l) \/ PipeStep(l)
      BY <3>2, BrowserThereDoes, PipeStallsDoes, PipeReopensDoes DEF PipeStep
    <3> QED  BY <1>20, <3>1, <3>2
  <2> QED  BY <1>6, <1>7, <2>1
<1>21. ASSUME NEW l \in Lim, Unlink(l)
       PROVE  AloneSound'
  <2>1. UNCHANGED servers /\ SameLims(l) /\ lims[l].pc = "unlink" /\ lims'[l].pc = "fork"
    BY <1>21, UnlinkDoes
  <2>2. Looks(l)'
    BY <1>3, <2>1 DEF Looks, Settled, Starting
  <2> QED  BY <1>7, <2>1, <2>2
<1>22. ASSUME NEW l \in Lim, Reset(l)
       PROVE  AloneSound'
  <2>1. UNCHANGED servers /\ SameLims(l) /\ lims'[l].pc = "check" /\ Settled
    BY <1>2, <1>22, ResetDoes
  <2>2. Looks(l)'
    BY <2>1 DEF Looks, Settled, Starting
  <2> QED  BY <1>7, <2>1, <2>2
<1>23. ASSUME UNCHANGED <<servers, lims>>
       PROVE  AloneSound'
  <2>1. \A q \in Lim : Looks(q)'
    BY <1>3, <1>23 DEF Looks, Settled, Starting, Serves
  <2> QED  BY <1>3, <1>4, <1>23, <2>1
<1> QED
  BY <1>8, <1>9, <1>10, <1>11, <1>12, <1>13, <1>16, <1>17, <1>18, <1>19, <1>20, <1>21, <1>22, <1>23
  DEF Next, LimStep, UserStep, Start, Fault, CleanTmp, ForeignEnds, vars

\* A marker of a lim that waits is set by a server of its port, since a server of
\* another one that lives is not left by a lim that starts its own.
LEMMA ReadyStep ==
    ASSUME TypeOK, ServersSound, OnePort, PortsSound, ReadySound, [Next]_vars
    PROVE  ReadySound'
<1>1. features' = features
  BY Frames
<1> SUFFICES ASSUME PortsKept
             PROVE  ReadySound'
  BY <1>1 DEF ReadySound, PortsKept, Without
<1> DEFINE Listens(l) == \E s \in Slot : Bound(s) /\ servers[s].port = lims[l].port
           Waits(l) == lims[l].pc \in {"fork", "wait"} /\ ~lims[l].lost
<1>2. \A l \in Lim : Waits(l) /\ marks.ready => Listens(l)
  BY DEF ReadySound
<1>3. ASSUME \A l \in Lim : Waits(l)' /\ marks'.ready => Listens(l)'
      PROVE  ReadySound'
  BY <1>3 DEF ReadySound
<1>4. ASSUME NEW l \in Lim, SameLims(l), UNCHANGED <<marks, servers>>,
             lims'[l].pc \notin {"fork", "wait"}
      PROVE  ReadySound'
  <2> SUFFICES ASSUME NEW q \in Lim, Waits(q)', marks'.ready
               PROVE  Listens(q)'
    BY <1>3
  <2>1. lims'[q] = lims[q]
    BY <1>4 DEF SameLims
  <2> QED  BY <1>2, <1>4, <2>1 DEF Bound
<1>5. ASSUME marks'.ready = FALSE
      PROVE  ReadySound'
  BY <1>3, <1>5
<1>6. ASSUME \A q \in Lim : lims'[q].lost
      PROVE  ReadySound'
  BY <1>3, <1>6
<1>7. ASSUME UNCHANGED lims, marks'.ready = marks.ready,
             \A q \in Slot : Bound(q) => Bound(q)' /\ servers'[q].port = servers[q].port
      PROVE  ReadySound'
  <2> SUFFICES ASSUME NEW q \in Lim, Waits(q)', marks'.ready
               PROVE  Listens(q)'
    BY <1>3
  <2> PICK s \in Slot : Bound(s) /\ servers[s].port = lims[q].port
    BY <1>2, <1>7
  <2> HIDE DEF Bound
  <2> QED  BY <1>7
<1>8. ASSUME NEW l \in Lim, Fork(l)
      PROVE  ReadySound'
  <2>1. /\ SameLims(l) /\ lims[l].pc = "fork" /\ lims'[l].port = lims[l].port
        /\ lims'[l].lost = lims[l].lost /\ UNCHANGED marks
    BY <1>8, ForkDoes DEF disk
  <2> PICK s \in Slot : ~Alive(s) /\ SameServers(s)
    BY <1>8, ForkDoes
  <2> SUFFICES ASSUME NEW q \in Lim, Waits(q)', marks'.ready
               PROVE  Listens(q)'
    BY <1>3
  <2>2. Waits(q) /\ marks.ready /\ lims'[q].port = lims[q].port
    BY <2>1 DEF SameLims
  <2> PICK r \in Slot : Bound(r) /\ servers[r].port = lims[q].port
    BY <1>2, <2>2
  <2>3. servers'[r] = servers[r]
    BY DEF Alive, Bound, SameServers
  <2> QED  BY <2>2, <2>3 DEF Bound
<1>9. ASSUME NEW l \in Lim, LimStep(l) \/ UserStep(l) \/ PipeStep(l)
      PROVE  ReadySound'
  <2>1. CASE CheckPort(l) \/ Resolve(l) \/ Judge(l)
    <3>1. CheckPort(l) => ReadySound'
      BY <1>4, CheckPortDoes DEF disk
    <3>2. Judge(l) => ReadySound'
      BY <1>4, JudgeDoes DEF disk
    <3>3. ASSUME Resolve(l)
          PROVE  ReadySound'
      <4> PICK r \in Resolved : /\ SameLims(l) /\ lims'[l].pc = Found(l, r)
                                /\ UNCHANGED <<disk, servers>>
        BY <3>3, ResolveDoes
      <4> QED  BY <1>4 DEF disk, Found
    <3> QED  BY <2>1, <3>1, <3>2, <3>3
  <2>2. CASE Kill(l)
    BY <1>6, <2>2, KillDoes
  <2>3. CASE Unlink(l)
    <3>1. marks' = NoMarks
      BY <2>3, UnlinkDoes
    <3> QED  BY <1>5, <3>1 DEF NoMarks
  <2>4. CASE Fork(l)
    BY <1>8, <2>4
  <2>5. CASE KillFails(l) \/ Ready(l) \/ WaitTimeout(l)
    BY <1>4, <2>5, KillFailsDoes, ReadyDoes, WaitTimeoutDoes DEF disk
  <2>6. CASE BrowserThere(l) \/ PipeStep(l)
    BY <1>4, <2>6, BrowserThereDoes, PipeStallsDoes, PipeReopensDoes DEF PipeStep, disk
  <2>7. CASE LimEnds(l) \/ Reset(l)
    BY <1>4, <2>7, LimEndsDoes, ResetDoes DEF disk
  <2>8. ASSUME NEW p \in Port, LimStarts(l, p)
        PROVE  ReadySound'
    BY <1>4, <2>8, LimStartsDoes
  <2> QED
    BY <1>9, <2>1, <2>2, <2>3, <2>4, <2>5, <2>6, <2>7, <2>8 DEF LimStep, UserStep, Start
<1>10. ASSUME NEW s \in Slot, MarkReady(s)
       PROVE  ReadySound'
  <2>1. /\ SameServers(s) /\ servers[s].phase = "bound" /\ servers'[s].phase = "marked"
        /\ servers'[s].port = servers[s].port /\ UNCHANGED lims
    BY <1>10, MarkReadyDoes
  <2> SUFFICES ASSUME NEW q \in Lim, Waits(q)'
               PROVE  Listens(q)'
    BY <1>3
  <2>2. servers[s].port = lims[q].port
    <3>1. CASE Without({"port"})
      BY <3>1 DEF OnePort
    <3>2. CASE Without({"race", "clean"})
      BY <2>1, <3>2 DEF PortsSound, Stranger, Alive
    <3> QED  BY <3>1, <3>2 DEF PortsKept
  <2> QED  BY <2>1, <2>2 DEF Bound
<1>11. ASSUME NEW s \in Slot, UNCHANGED lims, marks'.ready = marks.ready, SameServers(s),
              Bound(s) => Bound(s)', servers'[s].port = servers[s].port
       PROVE  ReadySound'
  BY <1>7, <1>11 DEF SameServers, Bound
<1>12. ASSUME NEW s \in Slot, ServerStep(s) \/ Connect(s) \/ Disconnect(s)
       PROVE  ReadySound'
  <2> USE DEF Bound, disk
  <2>1. CASE Exec(s)
    BY <1>11, <2>1, ExecDoes
  <2>2. CASE Bind(s)
    BY <1>11, <2>2, BindDoes
  <2>3. CASE MarkReady(s)
    BY <1>10, <2>3
  <2>4. CASE MarkPid(s)
    BY <1>11, <2>4, MarkPidDoes
  <2>5. CASE OpenFifo(s)
    BY <1>11, <2>5, OpenFifoDoes
  <2>6. CASE Connect(s)
    BY <1>11, <2>6, ConnectDoes
  <2>7. CASE Disconnect(s)
    BY <1>11, <2>7, DisconnectDoes
  <2> QED  BY <1>12, <2>1, <2>2, <2>3, <2>4, <2>5, <2>6, <2>7 DEF ServerStep
<1>13. ASSUME NEW s \in Slot, Crash(s)
       PROVE  ReadySound'
  BY <1>6, <1>13, CrashDoes DEF AllLost
<1>14. CASE CleanTmp
  BY <1>5, <1>14 DEF CleanTmp, NoMarks
<1>15. ASSUME UNCHANGED <<disk, lims, servers>>
       PROVE  ReadySound'
  BY <1>7, <1>15 DEF disk, Bound
<1> QED
  BY <1>9, <1>12, <1>13, <1>14, <1>15 DEF Next, Fault, ForeignEnds, vars

\* A viewer's marker without a viewer is left by a server that was killed.
LEMMA ViewerStep ==
    ASSUME TypeOK, ServersSound, OnePort, OneLim, AloneSound, ViewerSound, [Next]_vars
    PROVE  ViewerSound'
<1>1. features' = features /\ taken' \subseteq taken
  BY Frames
<1> SUFFICES ASSUME ViewersKept, marks'.browser, ~Viewer'
             PROVE  ViewerGone'
  BY <1>1 DEF ViewerSound, ViewersKept, PortsKept, Without
<1>2. /\ Without({"race"}) /\ Without({"race", "slow"}) /\ PortsKept /\ "crash" \notin features
      /\ Without({"port"}) \/ Without({"foreign"})
  BY DEF ViewersKept, Without
<1>3. ASSUME NEW s \in Slot, servers[s].client
      PROVE  \E l \in Lim : Kill(l) /\ lims[l].cand = s
  <2>1. Bound(s)
    BY <1>3 DEF ServersSound
  <2>2. servers'[s].client = FALSE
    <3>1. servers' \in [Slot -> ServerRec]
      BY TypeStep DEF TypeOK, ServerRec, Phases, Servers
    <3>2. servers'[s].client \in BOOLEAN
      BY <3>1 DEF ServerRec
    <3> QED  BY <3>2 DEF Viewer
  <2>3. ASSUME NEW q \in Slot, SameServers(q)
        PROVE  q = s
    BY <1>3, <2>2, <2>3 DEF SameServers
  <2>4. ~UNCHANGED servers
    BY <1>3, <2>2
  <2>5. ASSUME NEW l \in Lim, Fork(l)
        PROVE  FALSE
    BY <2>1, <2>3, <2>5, ForkDoes DEF Alive, Bound
  <2>6. ASSUME NEW l \in Lim, Kill(l)
        PROVE  lims[l].cand = s
    <3>1. lims[l].cand \in Slot /\ Dead(lims[l].cand)
      BY <2>6, KillDoes
    <3> QED  BY <2>3, <3>1, DeadDoes
  <2>7. ASSUME NEW q \in Slot, Exec(q) \/ MarkReady(q) \/ MarkPid(q)
        PROVE  FALSE
    BY <1>3, <2>2, <2>3, <2>7, ExecDoes, MarkReadyDoes, MarkPidDoes
  <2>8. ASSUME NEW q \in Slot, Bind(q) \/ OpenFifo(q)
        PROVE  FALSE
    BY <1>3, <2>1, <2>2, <2>3, <2>8, BindDoes, OpenFifoDoes DEF Bound
  <2>9. ASSUME NEW q \in Slot, Connect(q) \/ Disconnect(q)
        PROVE  FALSE
    BY <1>3, <2>2, <2>3, <2>9, ConnectDoes, DisconnectDoes
  <2>10. ASSUME NEW q \in Slot, Crash(q)
         PROVE  FALSE
    BY <1>2, <2>10 DEF Crash
  <2> QED  BY <2>4, <2>5, <2>6, <2>7, <2>8, <2>9, <2>10, Frames DEF ServerStep
<1>4. CASE Viewer
  <2> PICK s \in Slot : servers[s].client
    BY <1>4 DEF Viewer
  <2> PICK l \in Lim : Kill(l) /\ lims[l].cand = s
    BY <1>3
  <2>1. /\ lims[l].pc = "kill" /\ Dead(s) /\ UNCHANGED taken
        /\ lims'[l].pc \in {"resolve", "unlink"} /\ lims'[l].busy = FALSE
        /\ \A q \in Lim \ {l} : lims'[q].pc = lims[q].pc
    BY KillDoes DEF env
  <2>2. \A q \in Slot : Alive(q) => q = s
    BY <1>2, <2>1 DEF AloneSound
  <2>3. \A q \in Slot : ~Alive(q)'
    <3>1. SameServers(s) /\ servers'[s].phase = "dead"
      BY <2>1, DeadDoes
    <3> QED  BY <2>2, <3>1 DEF SameServers, Alive
  <2>4. \A q \in Lim \ {l} : lims'[q].pc = "off"
    BY <1>2, <2>1 DEF OneLim
  <2>5. servers[s].port \notin taken
    BY DEF ServersSound
  <2>6. IF Without({"port"}) THEN ThePort \notin taken ELSE taken = {}
    BY <1>2, <2>5 DEF OnePort
  <2> QED  BY <1>1, <2>1, <2>3, <2>4, <2>6 DEF ViewerGone, Without
<1>5. ASSUME ~marks.browser, ~Viewer
      PROVE  FALSE
  <2>1. marks.browser = FALSE
    BY <1>5 DEF TypeOK
  <2>2. ASSUME UNCHANGED marks \/ marks' = NoMarks
        PROVE  FALSE
    BY <1>5, <2>2 DEF NoMarks
  <2>3. ASSUME NEW l \in Lim, LimStep(l) \/ UserStep(l) \/ PipeStep(l)
        PROVE  FALSE
    BY <2>2, <2>3 DEF LimStep, UserStep, PipeStep, Start, LimStarts, LimEnds, CheckPort, Resolve,
              Judge, Kill, KillFails, Unlink, Unlinked, Fork, Ready, WaitTimeout, Reset,
              BrowserThere, PipeStalls, PipeReopens, disk
  <2>4. ASSUME NEW s \in Slot, ServerStep(s)
        PROVE  FALSE
    <3>1. CASE MarkReady(s) \/ MarkPid(s)
      BY <1>5, <3>1, MarkReadyDoes, MarkPidDoes
    <3> QED  BY <2>2, <2>4, <3>1 DEF ServerStep, Exec, Bind, OpenFifo, disk
  <2>5. ASSUME NEW s \in Slot, Connect(s)
        PROVE  FALSE
    <3>1. servers'[s].client = TRUE
      BY <2>5, ConnectDoes
    <3> QED  BY <3>1 DEF Viewer
  <2>6. ASSUME NEW s \in Slot, Disconnect(s)
        PROVE  FALSE
    BY <2>6, DisconnectDoes
  <2>7. CASE Fault
    BY <2>2, <2>7 DEF Fault, Crash, CleanTmp, ForeignEnds, disk
  <2>8. CASE UNCHANGED vars
    BY <2>2, <2>8 DEF vars, disk
  <2> QED  BY <2>3, <2>4, <2>5, <2>6, <2>7, <2>8 DEF Next
<1>6. CASE marks.browser /\ ~Viewer
  <2>1. ViewerGone
    BY <1>6 DEF ViewerSound
  <2>2. /\ \A s \in Slot : servers[s].phase = "dead" /\ ~Bound(s)
        /\ \A s \in Slot : ~servers[s].client
    BY <2>1 DEF ViewerGone, Alive, Bound, ServersSound
  <2> DEFINE OnItsWay(l) == /\ lims[l].pc \in {"off", "check", "resolve", "unlink"}
                            /\ lims[l].pc = "resolve" => ~lims[l].busy
  <2>3. \A l \in Lim : OnItsWay(l)
    BY <2>1 DEF ViewerGone
  <2>4. ASSUME UNCHANGED servers, \A l \in Lim : OnItsWay(l)'
        PROVE  ViewerGone'
    BY <1>1, <2>1, <2>4 DEF ViewerGone, Alive, Without
  <2>5. ASSUME NEW l \in Lim, SameLims(l), UNCHANGED servers, OnItsWay(l)'
        PROVE  ViewerGone'
    BY <2>3, <2>4, <2>5 DEF SameLims
  <2>6. ASSUME NEW l \in Lim, LimStep(l) \/ UserStep(l) \/ PipeStep(l)
        PROVE  ViewerGone'
    <3>1. CASE CheckPort(l)
      <4>1. /\ SameLims(l) /\ UNCHANGED servers /\ lims'[l].pc = "resolve"
            /\ lims'[l].busy = PortBusy(lims[l].port)
        BY <3>1, CheckPortDoes
      <4>2. lims[l].port \notin taken
        BY <2>1 DEF ViewerGone, OnePort
      <4>3. ~PortBusy(lims[l].port)
        BY <2>2, <4>2 DEF PortBusy
      <4> QED  BY <2>5, <4>1, <4>3
    <3>2. CASE Resolve(l)
      <4> PICK r \in Resolved : /\ SameLims(l) /\ UNCHANGED servers /\ lims[l].pc = "resolve"
                                /\ lims'[l].pc = Found(l, r)
        BY <3>2, ResolveDoes
      <4>1. r = 0
        BY <2>1 DEF Resolved, Ours, ViewerGone, TypeOK, Slot
      <4>2. lims'[l].pc = "unlink"
        BY <2>3, <4>1 DEF Found
      <4> QED  BY <2>5, <4>2
    <3>3. CASE Unlink(l)
      <4>1. marks' = NoMarks
        BY <3>3, UnlinkDoes
      <4> QED  BY <4>1 DEF NoMarks
    <3>4. ASSUME NEW p \in Port, LimStarts(l, p)
          PROVE  ViewerGone'
      BY <2>5, <3>4, LimStartsDoes
    <3>5. CASE LimEnds(l)
      BY <2>5, <3>5, LimEndsDoes
    <3> QED
      BY <2>3, <2>6, <3>1, <3>2, <3>3, <3>4, <3>5
      DEF LimStep, UserStep, PipeStep, Start, Judge, Kill, KillFails, Fork, Ready, WaitTimeout,
          Reset, BrowserThere, PipeStalls, PipeReopens
  <2>7. ASSUME NEW s \in Slot, ServerStep(s) \/ Connect(s) \/ Disconnect(s)
        PROVE  FALSE
    BY <2>2, <2>7 DEF ServerStep, Exec, Bind, MarkReady, MarkPid, OpenFifo, Connect, Disconnect
  <2>8. CASE Fault
    BY <1>2, <2>3, <2>4, <2>8 DEF Fault, Crash, CleanTmp, ForeignEnds
  <2>9. CASE UNCHANGED vars
    BY <2>3, <2>4, <2>9 DEF vars
  <2> QED  BY <2>6, <2>7, <2>8, <2>9 DEF Next
<1> QED  BY <1>4, <1>5, <1>6

\* What a lim is told is told by one step, at which it stops waiting.
LEMMA ToldBy ==
    ASSUME TypeOK, [Next]_vars, NEW l \in Lim
    PROVE  /\ lims'[l].told \in {lims[l].told, "none"}
                \/ Resolve(l) \/ Judge(l) \/ KillFails(l) \/ Ready(l) \/ WaitTimeout(l)
                \/ BrowserThere(l)
           /\ lims'[l].pc = "run" \/ lims'[l].told \in {lims[l].told, "none"}
           /\ lims[l].pc = "run" => lims'[l].pc = "run" \/ lims'[l].told = "none"
<1> DEFINE Says(q) == Resolve(q) \/ Judge(q) \/ KillFails(q) \/ Ready(q) \/ WaitTimeout(q)
                      \/ BrowserThere(q)
           Good == /\ lims'[l].told \in {lims[l].told, "none"} \/ Says(l)
                   /\ lims'[l].pc = "run" \/ lims'[l].told \in {lims[l].told, "none"}
                   /\ lims[l].pc = "run" => lims'[l].pc = "run" \/ lims'[l].told = "none"
<1>1. ASSUME lims'[l].pc = lims[l].pc, lims'[l].told = lims[l].told
      PROVE  Good
  BY <1>1
<1>2. ASSUME NEW q \in Lim, SameLims(q), q # l
      PROVE  Good
  BY <1>1, <1>2 DEF SameLims
<1>3. ASSUME NEW q \in Lim, LimStep(q)
      PROVE  Good
  <2>1. CASE CheckPort(q)
    BY <1>2, <2>1, CheckPortDoes
  <2>2. CASE Resolve(q)
    <3> PICK r \in Resolved :
          lims' = [lims EXCEPT ![q].pc = Found(q, r), ![q].cand = r,
                               ![q].told = IF Found(q, r) = "run" THEN "error" ELSE @]
      BY <2>2 DEF Resolve
    <3>1. SameLims(q) /\ lims[q].pc = "resolve"
      BY <2>2, ResolveDoes
    <3>2. lims[q] \in LimRec /\ lims \in [Lim -> LimRec]
      BY Tables
    <3>3. /\ lims'[q].pc = Found(q, r)
          /\ lims'[q].told = IF Found(q, r) = "run" THEN "error" ELSE lims[q].told
      BY <3>2 DEF LimRec
    <3> QED  BY <1>2, <2>2, <3>1, <3>3
  <2>3. CASE Judge(q)
    BY <1>2, <2>3, JudgeDoes
  <2>4. CASE Kill(q)
    BY <1>1, <2>4, KillDoes
  <2>5. CASE KillFails(q) \/ Ready(q) \/ WaitTimeout(q)
    BY <1>2, <2>5, KillFailsDoes, ReadyDoes, WaitTimeoutDoes
  <2>6. CASE Unlink(q) \/ Fork(q)
    BY <1>2, <2>6, UnlinkDoes, ForkDoes
  <2> QED  BY <1>3, <2>1, <2>2, <2>3, <2>4, <2>5, <2>6 DEF LimStep
<1>4. ASSUME NEW q \in Lim, UserStep(q) \/ PipeStep(q)
      PROVE  Good
  <2>1. ASSUME NEW p \in Port, LimStarts(q, p)
        PROVE  Good
    BY <1>2, <2>1, LimStartsDoes
  <2>2. CASE LimEnds(q) \/ Reset(q)
    BY <1>2, <2>2, LimEndsDoes, ResetDoes
  <2>3. CASE BrowserThere(q) \/ PipeStep(q)
    BY <1>2, <2>3, BrowserThereDoes, PipeStallsDoes, PipeReopensDoes DEF PipeStep
  <2> QED  BY <1>4, <2>1, <2>2, <2>3 DEF UserStep, Start
<1>5. ASSUME NEW s \in Slot, ServerStep(s) \/ Connect(s) \/ Disconnect(s)
      PROVE  Good
  BY <1>1, <1>5 DEF ServerStep, Exec, Bind, MarkReady, MarkPid, OpenFifo, Connect, Disconnect
<1>6. CASE Fault
  <2>1. ASSUME NEW s \in Slot, Crash(s)
        PROVE  Good
    BY <1>1, <2>1, CrashDoes DEF AllLost
  <2> QED  BY <1>1, <1>6, <2>1 DEF Fault, CleanTmp, ForeignEnds
<1>7. CASE UNCHANGED vars
  BY <1>1, <1>7 DEF vars
<1> QED  BY <1>3, <1>4, <1>5, <1>6, <1>7 DEF Next

\* A lim is told what it waited for when it stops waiting.
LEMMA ToldStep ==
    ASSUME TypeOK, ToldSound, [Next]_vars
    PROVE  ToldSound'
<1>1. features' = features
  BY Frames
<1>2. \A l \in Lim : lims'[l].told # "none" => lims'[l].pc = "run"
  BY ToldBy DEF ToldSound
<1>3. ASSUME "client" \notin features
      PROVE  ~marks'.browser
  <2>1. marks.browser = FALSE
    BY <1>3 DEF ToldSound, Without, TypeOK
  <2>2. ASSUME UNCHANGED marks \/ marks' = NoMarks
        PROVE  ~marks'.browser
    BY <2>1, <2>2 DEF NoMarks
  <2>3. ASSUME NEW l \in Lim, LimStep(l) \/ UserStep(l) \/ PipeStep(l)
        PROVE  ~marks'.browser
    BY <2>2, <2>3 DEF LimStep, UserStep, PipeStep, Start, LimStarts, LimEnds, CheckPort, Resolve,
              Judge, Kill, KillFails, Unlink, Unlinked, Fork, Ready, WaitTimeout, Reset,
              BrowserThere, PipeStalls, PipeReopens, disk
  <2>4. ASSUME NEW s \in Slot, ServerStep(s)
        PROVE  ~marks'.browser
    <3>1. CASE MarkReady(s) \/ MarkPid(s)
      BY <2>1, <3>1, MarkReadyDoes, MarkPidDoes
    <3> QED  BY <2>2, <2>4, <3>1 DEF ServerStep, Exec, Bind, OpenFifo, disk
  <2>5. ASSUME NEW s \in Slot, Connect(s) \/ Disconnect(s)
        PROVE  ~marks'.browser
    BY <1>3, <2>5, DisconnectDoes DEF Connect
  <2>6. CASE Fault
    BY <2>2, <2>6 DEF Fault, Crash, CleanTmp, ForeignEnds, disk
  <2>7. CASE UNCHANGED vars
    BY <2>2, <2>7 DEF vars, disk
  <2> QED  BY <2>3, <2>4, <2>5, <2>6, <2>7 DEF Next
<1> QED  BY <1>1, <1>2, <1>3 DEF ToldSound, Without

-----------------------------------------------------------------------------
\* The theorems.

\* Every behaviour satisfies the types and the invariant.
LEMMA ServerHolds == Spec => [](TypeOK /\ ServerInv)
<1>1. Init => TypeOK /\ ServerInv
  <2> SUFFICES ASSUME Init
               PROVE  TypeOK /\ ServerInv
    OBVIOUS
  <2>1. /\ TypeOK /\ \A l \in Lim : lims[l] = Off(ThePort)
        /\ \A s \in Slot : ~Alive(s) /\ servers[s].port = ThePort
                           /\ servers[s].reads = 0 /\ servers[s].client = FALSE
    BY InitTypes
  <2>2. /\ \A l \in Lim : lims[l].pc = "off" /\ lims[l].port = ThePort /\ lims[l].told = "none"
        /\ \A s \in Slot : servers[s].phase = "dead" /\ ~Bound(s) /\ ~Starting(s)
    BY <2>1 DEF Off, Alive, Bound, Starting
  <2>3. marks.ready = FALSE /\ marks.browser = FALSE
    BY DEF Init, NoMarks
  <2>4. ServersSound /\ OnePort /\ OneLim
    BY <2>1, <2>2 DEF ServersSound, OnePort, OneLim, Init, Without
  <2>5. NodesSound /\ PortsSound
    BY <2>1, <2>2 DEF NodesSound, PortsSound
  <2>6. AloneSound
    BY <2>1, <2>2 DEF AloneSound
  <2>7. ReadySound /\ ViewerSound /\ ToldSound
    BY <2>2, <2>3 DEF ReadySound, ViewerSound, ToldSound
  <2> QED  BY <2>1, <2>4, <2>5, <2>6, <2>7 DEF ServerInv
<1>2. TypeOK /\ ServerInv /\ [Next]_vars => TypeOK' /\ ServerInv'
  <2> SUFFICES ASSUME TypeOK, ServerInv, [Next]_vars
               PROVE  TypeOK' /\ ServerInv'
    OBVIOUS
  <2> USE DEF ServerInv
  <2>1. TypeOK'
    BY TypeStep
  <2>2. ServersSound' /\ OnePort' /\ OneLim'
    BY ServersStep, OnePortStep, OneLimStep
  <2>3. NodesSound' /\ PortsSound'
    BY NodesStep, PortsStep
  <2>4. AloneSound' /\ ReadySound'
    BY AloneStep, ReadyStep
  <2>5. ViewerSound' /\ ToldSound'
    BY ViewerStep, ToldStep
  <2> QED  BY <2>1, <2>2, <2>3, <2>4, <2>5
<1> QED  BY <1>1, <1>2, PTL DEF Spec

\* Whatever the faults, processes and files keep their types: no slot, node or count
\* leaves its range.
THEOREM ServerTypes == Spec => []TypeOK
BY ServerHolds, PTL

\* Two servers never read one FIFO node, whatever crashes, is cleaned or is slow: one
\* of them could not bind its port.  Lims of different ports that race, or whose /tmp
\* is cleaned, may start two.
THEOREM OneReaderHolds ==
    ASSUME Apart
    PROVE  Spec => []OneReader
<1>1. TypeOK /\ ServerInv => OneReader
  <2> SUFFICES ASSUME TypeOK, ServerInv, NEW s \in Slot, NEW q \in Slot,
                      servers[s].reads # 0, servers[s].reads = servers[q].reads
               PROVE  s = q
    BY DEF OneReader
  <2>1. Bound(s) /\ Bound(q) /\ Alive(s) /\ Alive(q)
    BY DEF ServerInv, ServersSound, Bound, Alive
  <2>2. PortsKept
    BY DEF Apart, PortsApart, PortsKept, Without, TypeOK
  <2>3. servers[s].port = servers[q].port
    BY <2>1, <2>2 DEF PortsKept, ServerInv, OnePort, PortsSound
  <2> QED  BY <2>1, <2>3 DEF ServerInv, ServersSound
<1> QED  BY <1>1, ServerHolds, PTL

\* A lim is told that its server is ready only when one listens on its port, unless a
\* server died since the markers were removed: no earlier server's marker counts.
THEOREM ReadyListensHolds ==
    ASSUME Apart
    PROVE  Spec => ReadyListens
<1>1. TypeOK /\ ServerInv /\ [Next]_vars =>
         [\A l \in Lim :
             lims[l].told = "none" /\ lims'[l].told = "ready" /\ ~lims[l].lost =>
                 \E s \in Slot : Bound(s) /\ servers[s].port = lims[l].port]_vars
  <2> SUFFICES ASSUME TypeOK, ServerInv, [Next]_vars, NEW l \in Lim,
                      lims[l].told = "none", lims'[l].told = "ready", ~lims[l].lost
               PROVE  \E s \in Slot : Bound(s) /\ servers[s].port = lims[l].port
    OBVIOUS
  <2>1. PortsKept
    BY DEF Apart, PortsApart, PortsKept, Without, TypeOK
  <2>2. Resolve(l) \/ Judge(l) \/ KillFails(l) \/ Ready(l) \/ WaitTimeout(l) \/ BrowserThere(l)
    BY ToldBy
  <2>3. Ready(l)
    <3>1. ~Resolve(l)
      BY ResolveDoes
    <3>2. ~Judge(l)
      BY JudgeDoes
    <3>3. ~KillFails(l) /\ ~WaitTimeout(l) /\ ~BrowserThere(l)
      BY KillFailsDoes, WaitTimeoutDoes, BrowserThereDoes
    <3> QED  BY <2>2, <3>1, <3>2, <3>3
  <2>4. lims[l].pc = "wait" /\ marks.ready
    BY <2>3 DEF Ready
  <2> QED  BY <2>1, <2>4 DEF ServerInv, ReadySound
<1> QED  BY <1>1, ServerHolds, PTL DEF Spec, ReadyListens

\* A lim that is told to reuse a server has one on its port that reads the node it
\* writes to, or is about to open it.
THEOREM ReusedServesHolds ==
    ASSUME ReuseApart
    PROVE  Spec => ReusedServes
<1>1. TypeOK /\ ServerInv /\ [Next]_vars =>
         [\A l \in Lim :
             lims'[l].told = "reused" /\ lims[l].pc = "judge" /\ Alive(lims[l].cand) =>
                 \E s \in Slot : WillServe(s, l)]_vars
  <2> SUFFICES ASSUME TypeOK, ServerInv, [Next]_vars, NEW l \in Lim,
                      lims'[l].told = "reused", lims[l].pc = "judge", Alive(lims[l].cand)
               PROVE  \E s \in Slot : WillServe(s, l)
    OBVIOUS
  <2> DEFINE c == lims[l].cand
  <2>1. features \in Scenarios /\ c \in Slot
    BY DEF TypeOK, Lims, Slot
  <2>2. PortsKept /\ NodesKept /\ (Without({"port"}) \/ Without({"foreign"}))
    BY <2>1 DEF ReuseApart, PortsApart, PortsKept, NodesKept, Without
  <2>3. lims[l].told = "none"
    BY DEF ServerInv, ToldSound
  <2>4. Judge(l)
    <3>1. Resolve(l) \/ Judge(l) \/ KillFails(l) \/ Ready(l) \/ WaitTimeout(l) \/ BrowserThere(l)
      BY <2>3, ToldBy
    <3> QED  BY <3>1 DEF Resolve, KillFails, Ready, WaitTimeout, BrowserThere
  <2>5. lims'[l].pc = "run"
    BY <2>3, <2>4, JudgeDoes
  <2>6. lims[l].busy /\ HoldsFifo(c, l)
    BY <2>4, <2>5, JudgeDoes DEF ToKill
  <2>7. servers[c].port = lims[l].port
    <3>1. CASE Without({"port"})
      BY <2>1, <3>1 DEF ServerInv, OnePort
    <3>2. CASE Without({"race", "clean"}) /\ Without({"foreign"})
      <4>1. ~Stranger(c, l)
        BY <2>1, <2>6, <3>2 DEF ServerInv, PortsSound
      <4> QED  BY <4>1 DEF Stranger
    <3> QED  BY <2>2, <3>1, <3>2 DEF PortsKept
  <2>8. fifo # 0 /\ lims[l].fd \in {0, fifo} /\ NodeOf(l) = fifo
    BY <2>2 DEF ServerInv, NodesSound, NodeOf
  <2>9. fifo \in {servers[c].held, servers[c].reads}
    BY <2>6, <2>8 DEF HoldsFifo
  <2>10. servers[c].phase = "reading" => servers[c].reads = fifo
    <3> SUFFICES ASSUME servers[c].phase = "reading"
                 PROVE  servers[c].reads = fifo
      OBVIOUS
    <3>1. servers[c].held \in {0, servers[c].reads}
      BY <2>1, <2>2 DEF ServerInv, NodesSound
    <3> QED  BY <2>8, <2>9, <3>1
  <2>11. WillServe(c, l)
    BY <2>7, <2>8, <2>10 DEF WillServe
  <2> QED  BY <2>1, <2>11
<1> QED  BY <1>1, ServerHolds, PTL DEF Spec, ReusedServes

\* A lim that goes on because a viewer is there has one.
THEOREM ViewerThereHolds ==
    ASSUME ViewApart
    PROVE  Spec => ViewerThere
<1>1. TypeOK /\ ServerInv /\ [Next]_vars =>
         [\A l \in Lim : lims[l].told # "viewer" /\ lims'[l].told = "viewer" =>
             \E s \in Slot : servers[s].client]_vars
  <2> SUFFICES ASSUME TypeOK, ServerInv, [Next]_vars, NEW l \in Lim,
                      lims[l].told # "viewer", lims'[l].told = "viewer", ~Viewer
               PROVE  FALSE
    BY DEF Viewer
  <2>1. Resolve(l) \/ Judge(l) \/ KillFails(l) \/ Ready(l) \/ WaitTimeout(l) \/ BrowserThere(l)
    BY ToldBy
  <2>2. BrowserThere(l)
    <3>1. ~Resolve(l)
      BY ResolveDoes
    <3>2. ~Judge(l)
      BY JudgeDoes
    <3>3. ~KillFails(l) /\ ~Ready(l) /\ ~WaitTimeout(l)
      BY KillFailsDoes, ReadyDoes, WaitTimeoutDoes
    <3> QED  BY <2>1, <3>1, <3>2, <3>3
  <2>3. lims[l].pc = "run" /\ marks.browser
    BY <2>2 DEF BrowserThere
  <2>4. features \in Scenarios /\ "client" \in features
    BY <2>3 DEF TypeOK, ServerInv, ToldSound, Without
  <2>5. ViewersKept
    BY <2>4 DEF ViewApart, PortsApart, ViewersKept, PortsKept, Without
  <2> QED  BY <2>3, <2>5 DEF ServerInv, ViewerSound, ViewerGone
<1> QED  BY <1>1, ServerHolds, PTL DEF Spec, ViewerThere

\* A lim never kills a server that listens on its port and reads its node, while lims
\* do not race and servers are not slow.
THEOREM KeepsHealthyHolds ==
    ASSUME Apart
    PROVE  Spec => KeepsHealthyAlone
<1>1. TypeOK /\ ServerInv =>
         [\A l \in Lim : KillsHealthy(l) => features \cap {"race", "slow"} # {}]_vars
  <2> SUFFICES ASSUME TypeOK, ServerInv, NEW l \in Lim, KillsHealthy(l),
                      Without({"race", "slow"})
               PROVE  FALSE
    BY DEF Without
  <2>1. lims[l].pc = "kill" /\ Serves(lims[l].cand, l) /\ lims[l].cand \in Slot
    BY DEF KillsHealthy, TypeOK, Lims, Slot
  <2>2. PortsKept
    BY DEF Apart, PortsApart, PortsKept, Without, TypeOK
  <2>3. ~lims[l].busy
    BY <2>1, <2>2 DEF ServerInv, AloneSound
  <2>4. \A s \in Slot : Alive(s) => servers[s].port # lims[l].port
    BY <2>1, <2>2, <2>3 DEF ServerInv, AloneSound
  <2> QED  BY <2>1, <2>4 DEF Serves, Alive
<1> QED  BY <1>1, ServerHolds, PTL DEF Spec, KeepsHealthyAlone
=============================================================================
