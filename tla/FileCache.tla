------------------------------ MODULE FileCache ------------------------------
(***************************************************************************)
(* The file tools (src/tools.cc, src/filesystem.cc) and their cache.       *)
(* read_files answers "[cached]" for a file it has read before and whose   *)
(* fingerprint, mtime in seconds and size, is unchanged: the model is to   *)
(* look it up in its context.  What is in the context is decided           *)
(* elsewhere: by the executor that feeds the result (src/tool_executor.cc) *)
(* and by the session, which undoes and clears.  Other programs, the       *)
(* exec_shell tool among them, change the files at any time.               *)
(*                                                                         *)
(* Of the context only the file contents in it matter, in their order.     *)
(***************************************************************************)
EXTENDS Integers, Sequences, FiniteSetsExt, SequencesExt

CONSTANTS
    Name,         \* the paths as the model spells them
    FileOf,       \* the file a path leads to
    Text,         \* contents
    Size,         \* their sizes in bytes
    Torn,         \* what a failed write leaves
    Absent,       \* the file is not there
    MaxClock,     \* bound of the model: seconds
    MaxSeen,      \* bound of the model: contents in the context
    MaxRead,      \* bound of the model: paths in one read_files
    MaxCps,       \* bound of the model: prompt checkpoints
    Scenarios     \* the sets of features to explore

\* Other programs change files; a file changes twice in a second; between a read and its
\* fingerprint; /undo and /clear; the model writes and edits; a write fails; a result
\* does not fit; Ctrl+C or a failed decode cuts its feed; and the model asks again for a
\* path whose content it did not get that way, while the file is as it was.
Features == {"outside", "quick", "between", "undo", "write", "full", "large", "cut", "again"}

File == {FileOf[n] : n \in Name}

Texts == Text \cup {Torn, Absent}

ASSUME CacheAssumption ==
    /\ Size \in [Text \cup {Torn} -> Nat] /\ Torn \notin Text /\ Absent \notin Text \cup {Torn}
    /\ MaxClock \in Nat /\ MaxSeen \in Nat /\ MaxRead \in Nat \ {0} /\ MaxCps \in Nat
    /\ Scenarios \subseteq SUBSET Features

VARIABLES
    clock,
    disk,      \* of each file the text and its mtime
    cache,     \* file_cache: the fingerprint of each path that was read
    seen,      \* the file contents in the context, oldest first
    cps,       \* how many of them each prompt checkpoint has
    call,      \* the read_files call in progress, see Calls
    lost,      \* history: the paths whose content did not reach the context when last read
    features

vars == <<clock, disk, cache, seen, cps, call, lost, features>>

\* A content as the context holds it.
Contents == [file : File, text : Texts]

Times == 0..MaxClock

\* The fingerprint of a file that cannot be found; no entry acts like an entry of it.
NotFound == <<>>

Prints == {NotFound} \cup (Times \X {Size[t] : t \in Text \cup {Torn}})

\* todo are the places in names still to read, got what was read, hits the "[cached]" ones.
Calls == [pc : {"idle", "read", "feed"}, names : Seq(Name), todo : SUBSET (1..MaxRead),
          hits : SUBSET Name, got : Seq([name : Name, text : Texts])]

TypeOK ==
    /\ clock \in Times /\ disk \in [File -> [text : Texts, time : Times]]
    /\ cache \in [Name -> Prints] /\ seen \in Seq(Contents) /\ cps \in Seq(Nat)
    /\ call \in Calls /\ lost \subseteq Name /\ features \in Scenarios

Prefix(s, n) == SubSeq(s, 1, n)

NoCall == [pc |-> "idle", names |-> <<>>, todo |-> {}, hits |-> {}, got |-> <<>>]

Idle == call.pc = "idle"

\* The text of the file that the context holds last.
Knows(f, t) ==
    \E i \in DOMAIN seen :
        /\ seen[i] = [file |-> f, text |-> t]
        /\ \A j \in DOMAIN seen : j > i => seen[j].file # f
-----------------------------------------------------------------------------
\* file_fingerprint
Fingerprint(f) ==
    IF disk[f].text = Absent THEN NotFound ELSE <<disk[f].time, Size[disk[f].text]>>

\* The path was read and its file has the fingerprint it had.
Hit(n) == Fingerprint(FileOf[n]) # NotFound /\ cache[n] = Fingerprint(FileOf[n])

ReadFiles(names) ==
    /\ Idle /\ Len(seen) + Len(names) <= MaxSeen
    /\ "again" \in features \/ \A n \in Range(names) : Hit(n) => n \notin lost
    /\ call' = [pc |-> IF \A n \in Range(names) : Hit(n) THEN "feed" ELSE "read",
                names |-> names, todo |-> {i \in DOMAIN names : ~Hit(names[i])},
                hits |-> {n \in Range(names) : Hit(n)}, got |-> <<>>]
    /\ UNCHANGED <<clock, disk, cache, seen, cps, lost, features>>

\* FileSystemTools::read_files, of one path; a file that cannot be opened is an error.
ReadOne ==
    /\ call.pc = "read"
    /\ \E i \in call.todo :
          LET t == disk[FileOf[call.names[i]]].text IN
          /\ \A j \in call.todo : i <= j
          /\ call' = [call EXCEPT !.todo = @ \ {i},
                        !.got = IF t = Absent THEN @
                                ELSE Append(@, [name |-> call.names[i], text |-> t])]
    /\ UNCHANGED <<clock, disk, cache, seen, cps, lost, features>>

\* Behind the last one the fingerprints are taken, of the files as they are then.
Stamp ==
    /\ call.pc = "read" /\ call.todo = {}
    /\ cache' = [n \in Name |-> IF \E i \in DOMAIN call.got : call.got[i].name = n
                                THEN Fingerprint(FileOf[n]) ELSE cache[n]]
    /\ call' = [call EXCEPT !.pc = "feed"]
    /\ UNCHANGED <<clock, disk, seen, cps, lost, features>>

ContentOf(g) == [file |-> FileOf[g.name], text |-> g.text]

NamesOf(got) == {got[i].name : i \in DOMAIN got}

\* The first n contents of the result came into the context; the cache stays.
Fed(n) ==
    /\ call.pc = "feed"
    /\ seen' = seen \o [i \in 1..n |-> ContentOf(call.got[i])]
    /\ lost' = (lost \ NamesOf(Prefix(call.got, n)))
                 \cup NamesOf(SubSeq(call.got, n + 1, Len(call.got)))
    /\ call' = NoCall
    /\ UNCHANGED <<clock, disk, cache, cps, features>>

FeedResult == Fed(Len(call.got))

\* A result that does not fit is replaced by an error.
TooLarge == "large" \in features /\ call.got # <<>> /\ Fed(0)

\* feed_tokens_impl was cut: the decoded part stays, and the call is given up.
FeedCut == "cut" \in features /\ \E n \in 0..(Len(call.got) - 1) : Fed(n)
-----------------------------------------------------------------------------
\* write_file and edit_file forget the path first, whatever becomes of them.

Erased(n) == [cache EXCEPT ![n] = NotFound]

Write(f, t) == disk' = [disk EXCEPT ![f] = [text |-> t, time |-> clock]]

\* The last change was in an earlier second, so that one the context does not know
\* of shows in the fingerprint.
Later(f) == "quick" \in features \/ clock > disk[f].time

Saw(f, t) == seen' = Append(seen, [file |-> f, text |-> t])

Writing(n) ==
    /\ Idle /\ "write" \in features /\ Len(seen) < MaxSeen
    /\ cache' = Erased(n)
    /\ UNCHANGED <<clock, cps, call, lost, features>>

\* The content written is in the context: the model generated it.
WriteFile(n, t) == Writing(n) /\ Write(FileOf[n], t) /\ Saw(FileOf[n], t)

\* The parent or the file cannot be opened, or the disk is full.
WriteFails(n) ==
    /\ "full" \in features /\ Writing(n) /\ UNCHANGED seen
    /\ (Later(FileOf[n]) /\ Write(FileOf[n], Torn)) \/ UNCHANGED disk

\* An edit gives the model the new content if it had the old one.
EditFile(n, t) ==
    /\ Writing(n) /\ disk[FileOf[n]].text \notin {Absent, t} /\ Write(FileOf[n], t)
    /\ IF Knows(FileOf[n], disk[FileOf[n]].text) THEN Saw(FileOf[n], t)
                                                 ELSE Later(FileOf[n]) /\ UNCHANGED seen

\* OLD is not in the file, or the file is not there.
EditMisses(n) == Writing(n) /\ UNCHANGED <<seen, disk>>
-----------------------------------------------------------------------------
\* The session.

EndTurn ==
    /\ Idle /\ "undo" \in features /\ Len(cps) < MaxCps
    /\ cps' = Append(cps, Len(seen))
    /\ UNCHANGED <<clock, disk, cache, seen, call, lost, features>>

Forgotten == [n \in Name |-> NotFound]

\* Mutant: /undo keeps the cache.
StillCached == cache

UndoneCache == Forgotten

\* The context is that of an earlier checkpoint.
Undo(sel) ==
    /\ Idle /\ sel < Len(cps)
    /\ seen' = Prefix(seen, cps[sel]) /\ cps' = Prefix(cps, sel)
    /\ cache' = UndoneCache
    /\ UNCHANGED <<clock, disk, call, lost, features>>

\* clear_context
ClearSession ==
    /\ Idle /\ "undo" \in features
    /\ seen' = <<>> /\ cps' = <<>> /\ cache' = Forgotten
    /\ UNCHANGED <<clock, disk, call, lost, features>>
-----------------------------------------------------------------------------
\* Other programs.

Tick ==
    /\ clock < MaxClock /\ clock' = clock + 1
    /\ UNCHANGED <<disk, cache, seen, cps, call, lost, features>>

Outside(f, t) ==
    /\ "outside" \in features /\ t # disk[f].text
    /\ "between" \in features \/ call.pc # "read"
    /\ Later(f)
    /\ Write(f, t)
    /\ UNCHANGED <<clock, cache, seen, cps, call, lost, features>>

Init ==
    /\ clock = 0 /\ disk \in [File -> [text : Text, time : {0}]]
    /\ cache = Forgotten /\ seen = <<>> /\ cps = <<>> /\ call = NoCall
    /\ lost = {}
    /\ features \in Scenarios

ReadStep ==
    \/ (\E k \in 1..MaxRead : \E names \in [1..k -> Name] : ReadFiles(names))
    \/ ReadOne \/ Stamp \/ FeedResult \/ TooLarge \/ FeedCut

WriteStep ==
    \E n \in Name :
        WriteFails(n) \/ EditMisses(n) \/ \E t \in Text : WriteFile(n, t) \/ EditFile(n, t)

SessionStep == EndTurn \/ ClearSession \/ \E sel \in DOMAIN cps : Undo(sel)

Next ==
    \/ ReadStep \/ WriteStep \/ SessionStep \/ Tick
    \/ \E f \in File : \E t \in Text \cup {Absent} : Outside(f, t)

Spec == Init /\ [][Next]_vars
-----------------------------------------------------------------------------
\* Properties.

\* "[cached]" is said of a file only when the context has its present content, as the
\* latest it has of that file: otherwise "read_files would return false cache hits and
\* skip content the LLM genuinely needs" (session.cc 2771).
NoFalseHit ==
    [][Idle /\ ~Idle' =>
         \A n \in call'.hits : Knows(FileOf[n], disk[FileOf[n]].text)]_vars
=============================================================================
