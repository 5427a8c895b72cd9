-------------------------- MODULE FileCacheProofs ---------------------------
(***************************************************************************)
(* "[cached]" is said only of a content the context has (NoFalseHit), for  *)
(* every set of paths, files and texts, every size, clock and length: as   *)
(* long as no file changes twice in a second or between its read and its   *)
(* fingerprint, and the model does not ask again for a content whose feed  *)
(* failed.  Each of these three is a way to a false hit (runs large, cut,  *)
(* quick and between).                                                     *)
(*                                                                         *)
(* The argument is about time.  The fingerprint in the cache is never      *)
(* younger than its file (Dated), so a change behind the session's back,   *)
(* in a later second, shows.  While a result is on its way (Carried) its   *)
(* contents are the present ones, or no spelling of the file can hit; when *)
(* it arrives, what can hit is known (Known).                              *)
(***************************************************************************)
EXTENDS FileCache, NaturalsInduction, WellFoundedInduction, TLAPS

\* The three ways to a false hit that the runs show are left out.
Fresh == features \cap {"again", "quick", "between"} = {}

\* A change is not in the future, and a fingerprint not younger than its file.
Dated ==
    /\ \A f \in File : disk[f].time <= clock
    /\ \A n \in Name : cache[n] # NotFound => cache[n][1] <= disk[FileOf[n]].time

\* No spelling of the file can hit: its fingerprint is older than the file.
Outdated(f) ==
    \A n \in Name : FileOf[n] = f /\ cache[n] # NotFound => cache[n][1] < disk[f].time

\* A content that was read is the file's, unless the file changed since.
Carried ==
    \A i \in DOMAIN call.got :
        LET f == FileOf[call.got[i].name] IN
        \/ Idle
        \/ call.got[i].text = disk[f].text
        \/ call.pc = "feed" /\ Outdated(f)

\* The paths whose content is on its way or did not arrive.
Pending == lost \cup (IF call.pc = "feed" THEN NamesOf(call.got) ELSE {})

\* What can hit is in the context.
Known ==
    \A n \in Name \ Pending : Hit(n) => Knows(FileOf[n], disk[FileOf[n]].text)

CacheInv == Fresh => Dated /\ Carried /\ Known
-----------------------------------------------------------------------------
\* Types.

\* The result of a read is a sequence of named contents.
Got == [name : Name, text : Texts]

Gots == Seq(Got)

\* The elements and the parts of a sequence, and what it becomes by one more.
LEMMA SeqParts ==
    ASSUME NEW S, NEW s \in Seq(S)
    PROVE  /\ Len(s) \in Nat /\ DOMAIN s = 1..Len(s)
           /\ \A i \in 1..Len(s) : s[i] \in S
           /\ \A n \in 0..Len(s) : /\ SubSeq(s, n + 1, Len(s)) \in Seq(S)
                                   /\ Len(SubSeq(s, n + 1, Len(s))) = Len(s) - n
                                   /\ \A i \in 1..(Len(s) - n) :
                                         SubSeq(s, n + 1, Len(s))[i] = s[n + i]
           /\ \A n \in 0..Len(s) : /\ SubSeq(s, 1, n) \in Seq(S)
                                   /\ Len(SubSeq(s, 1, n)) = n
                                   /\ \A i \in 1..n : SubSeq(s, 1, n)[i] = s[i]
           /\ \A e \in S : /\ Append(s, e) \in Seq(S)
                           /\ Len(Append(s, e)) = Len(s) + 1
                           /\ Append(s, e)[Len(s) + 1] = e
                           /\ \A i \in 1..Len(s) : Append(s, e)[i] = s[i]
OBVIOUS

\* A concatenation has the elements of both.
LEMMA ConcatParts ==
    ASSUME NEW S, NEW s \in Seq(S), NEW t \in Seq(S)
    PROVE  /\ s \o t \in Seq(S) /\ Len(s \o t) = Len(s) + Len(t)
           /\ \A i \in 1..Len(s) : (s \o t)[i] = s[i]
           /\ \A i \in 1..Len(t) : (s \o t)[Len(s) + i] = t[i]
OBVIOUS

\* What is fed is a sequence of contents, of the first n that were read.
LEMMA FedType ==
    ASSUME NEW got \in Gots, NEW n \in 0..Len(got)
    PROVE  /\ [i \in 1..n |-> ContentOf(got[i])] \in Seq(Contents)
           /\ Len([i \in 1..n |-> ContentOf(got[i])]) = n
<1> DEFINE fed == [i \in 1..n |-> ContentOf(got[i])]
<1>1. \A i \in 1..n : got[i] \in Got
  BY SeqParts DEF Gots
<1>2. fed \in [1..n -> Contents]
  BY <1>1 DEF ContentOf, Contents, File, Got
<1> QED  BY <1>2

\* A fingerprint is one, whatever the file.
LEMMA PrintType ==
    ASSUME TypeOK, NEW f \in File
    PROVE  Fingerprint(f) \in Prints
<1>1. disk[f].text \in Texts /\ disk[f].time \in Times
  BY DEF TypeOK
<1> QED  BY <1>1 DEF Fingerprint, Prints, Texts

\* Checkpoints are of the context's past, in their order.
CpsInOrder ==
    /\ \A i \in DOMAIN cps : cps[i] <= Len(seen)
    /\ \A i, j \in DOMAIN cps : i <= j => cps[i] <= cps[j]

\* What is to be read is of the paths that were asked for.
TodoOfNames == call.todo \subseteq DOMAIN call.names

TypeInv == TypeOK /\ CpsInOrder /\ TodoOfNames

\* Every step keeps the types.
LEMMA TypeStep ==
    ASSUME TypeInv, [Next]_vars
    PROVE  TypeOK'
<1> USE DEF TypeOK, TypeInv
<1>1. ASSUME NEW k \in 1..MaxRead, NEW names \in [1..k -> Name], ReadFiles(names)
      PROVE  TypeOK'
  <2>1. names \in Seq(Name) /\ DOMAIN names = 1..k /\ 1..k \subseteq 1..MaxRead
    BY CacheAssumption
  <2>2. {i \in DOMAIN names : ~Hit(names[i])} \in SUBSET (1..MaxRead)
    BY <2>1
  <2>3. {n \in Range(names) : Hit(n)} \in SUBSET Name
    BY DEF Range
  <2>4. call' \in Calls
    BY <1>1, <2>1, <2>2, <2>3 DEF ReadFiles, Calls
  <2> QED  BY <1>1, <2>4 DEF ReadFiles
<1>2. CASE ReadOne
  <2> PICK i \in call.todo :
        call' = [call EXCEPT !.todo = @ \ {i},
                             !.got = IF disk[FileOf[call.names[i]]].text = Absent THEN @
                                     ELSE Append(@, [name |-> call.names[i],
                                                     text |-> disk[FileOf[call.names[i]]].text])]
    BY <1>2 DEF ReadOne
  <2> DEFINE t == disk[FileOf[call.names[i]]].text
             g == [name |-> call.names[i], text |-> t]
  <2>1. call.names[i] \in Name
    BY SeqParts DEF TodoOfNames, Calls
  <2>2. g \in Got
    BY <2>1 DEF File, Got
  <2>3. Append(call.got, g) \in Gots /\ call.got \in Gots
    BY <2>2, SeqParts DEF Calls, Gots, Got
  <2>4. call' \in Calls
    BY <2>3 DEF Calls, Gots, Got
  <2> QED  BY <1>2, <2>4 DEF ReadOne
<1>3. CASE Stamp
  <2>1. \A n \in Name : Fingerprint(FileOf[n]) \in Prints
    BY PrintType DEF File
  <2>2. cache' \in [Name -> Prints]
    BY <1>3, <2>1 DEF Stamp
  <2>3. call' \in Calls
    BY <1>3 DEF Stamp, Calls
  <2> QED  BY <1>3, <2>2, <2>3 DEF Stamp
<1>4. ASSUME NEW n \in 0..Len(call.got), Fed(n)
      PROVE  TypeOK'
  <2>1. call.got \in Gots
    BY DEF Calls, Gots, Got
  <2>2. seen' \in Seq(Contents)
    BY <1>4, <2>1, FedType DEF Fed
  <2>3. SubSeq(call.got, n + 1, Len(call.got)) \in Gots
    BY <2>1, SeqParts DEF Gots
  <2>4. lost' \subseteq Name
    <3>1. \A got \in Gots : NamesOf(got) \subseteq Name
      <4>1. \A got \in Gots : \A i \in DOMAIN got : got[i] \in Got
        BY SeqParts DEF Gots
      <4> QED  BY <4>1 DEF NamesOf, Got
    <3> QED  BY <1>4, <2>1, <2>3, <3>1 DEF Fed
  <2>5. call' \in Calls
    BY <1>4 DEF Fed, NoCall, Calls
  <2> QED  BY <1>4, <2>2, <2>4, <2>5 DEF Fed
<1>5. ASSUME NEW n \in Name, Writing(n), UNCHANGED disk \/ \E t \in Texts : Write(FileOf[n], t),
             UNCHANGED seen \/ \E t \in Texts : Saw(FileOf[n], t)
      PROVE  TypeOK'
  <2>1. cache' \in [Name -> Prints]
    BY <1>5 DEF Writing, Erased, Prints
  <2>2. FileOf[n] \in File
    BY DEF File
  <2>3. disk' \in [File -> [text : Texts, time : Times]]
    <3>1. CASE UNCHANGED disk
      BY <3>1
    <3>2. ASSUME NEW t \in Texts, Write(FileOf[n], t)
          PROVE  disk' \in [File -> [text : Texts, time : Times]]
      BY <2>2, <3>2 DEF Write
    <3> QED  BY <1>5, <3>1, <3>2
  <2>4. seen' \in Seq(Contents)
    <3>1. \A t \in Texts : [file |-> FileOf[n], text |-> t] \in Contents
      BY <2>2 DEF Contents
    <3>2. CASE UNCHANGED seen
      BY <3>2
    <3>3. ASSUME NEW t \in Texts, Saw(FileOf[n], t)
          PROVE  seen' \in Seq(Contents)
      BY <3>1, <3>3, SeqParts DEF Saw
    <3> QED  BY <1>5, <3>2, <3>3
  <2> QED  BY <1>5, <2>1, <2>3, <2>4 DEF Writing
<1>6. CASE EndTurn
  BY <1>6 DEF EndTurn
<1>7. ASSUME NEW sel \in DOMAIN cps, Undo(sel)
      PROVE  TypeOK'
  <2>1. seen' \in Seq(Contents)
    <3>1. cps[sel] \in Nat /\ cps[sel] <= Len(seen)
      BY DEF CpsInOrder
    <3> QED  BY <1>7, <3>1 DEF Undo, Prefix
  <2> QED  BY <1>7, <2>1 DEF Undo, UndoneCache, Forgotten, Prints, Prefix
<1>8. CASE ClearSession
  BY <1>8 DEF ClearSession, Forgotten, Prints
<1>9. CASE Tick
  BY <1>9, CacheAssumption DEF Tick, Times
<1>10. ASSUME NEW f \in File, NEW t \in Text \cup {Absent}, Outside(f, t)
       PROVE  TypeOK'
  BY <1>10 DEF Outside, Write, Texts
<1>11. CASE UNCHANGED vars
  BY <1>11 DEF vars
<1>12. CASE ReadStep
  <2>1. Len(call.got) \in Nat
    BY DEF Calls
  <2> QED  BY <1>1, <1>2, <1>3, <1>4, <1>12, <2>1 DEF ReadStep, FeedResult, TooLarge, FeedCut
<1>13. CASE WriteStep
  <2>1. Text \subseteq Texts /\ Torn \in Texts
    BY DEF Texts
  <2> QED  BY <1>5, <1>13, <2>1 DEF WriteStep, WriteFails, EditMisses, WriteFile, EditFile
<1>14. CASE SessionStep
  BY <1>6, <1>7, <1>8, <1>14 DEF SessionStep
<1> QED  BY <1>9, <1>10, <1>11, <1>12, <1>13, <1>14 DEF Next

\* Every step keeps the checkpoints in their order and the places in range.
LEMMA OrderStep ==
    ASSUME TypeInv, [Next]_vars
    PROVE  CpsInOrder' /\ TodoOfNames'
<1> USE DEF TypeInv
<1>1. cps \in Seq(Nat) /\ seen \in Seq(Contents) /\ Len(seen) \in Nat /\ call \in Calls
  BY DEF TypeOK
<1>2. ASSUME UNCHANGED cps, UNCHANGED seen \/ \E s \in Seq(Contents) : seen' = seen \o s
      PROVE  CpsInOrder'
  <2>1. Len(seen') \in Nat /\ Len(seen) <= Len(seen')
    BY <1>1, <1>2
  <2> QED  BY <1>1, <1>2, <2>1 DEF CpsInOrder
<1>3. ASSUME NEW k \in 1..MaxRead, NEW names \in [1..k -> Name], ReadFiles(names)
      PROVE  CpsInOrder' /\ TodoOfNames'
  BY <1>2, <1>3 DEF ReadFiles, TodoOfNames
<1>4. CASE ReadOne
  <2>1. call'.todo \subseteq call.todo /\ call'.names = call.names
    BY <1>1, <1>4 DEF ReadOne, Calls
  <2> QED  BY <1>2, <1>4, <2>1 DEF ReadOne, TodoOfNames
<1>5. CASE Stamp
  BY <1>1, <1>2, <1>5 DEF Stamp, TodoOfNames, Calls
<1>6. ASSUME NEW n \in 0..Len(call.got), Fed(n)
      PROVE  CpsInOrder' /\ TodoOfNames'
  <2>1. call.got \in Gots
    BY <1>1 DEF Calls, Gots, Got
  <2>2. \E s \in Seq(Contents) : seen' = seen \o s
    BY <1>6, <2>1, FedType DEF Fed
  <2> QED  BY <1>2, <1>6, <2>2 DEF Fed, NoCall, TodoOfNames
<1>7. ASSUME NEW n \in Name, Writing(n),
             UNCHANGED seen \/ \E t \in Texts : Saw(FileOf[n], t)
      PROVE  CpsInOrder' /\ TodoOfNames'
  <2>1. ASSUME NEW t \in Texts, Saw(FileOf[n], t)
        PROVE  \E s \in Seq(Contents) : seen' = seen \o s
    <3>1. [file |-> FileOf[n], text |-> t] \in Contents
      BY DEF Contents, File
    <3>2. seen' = seen \o <<[file |-> FileOf[n], text |-> t]>>
      BY <1>1, <2>1, <3>1 DEF Saw
    <3>3. <<[file |-> FileOf[n], text |-> t]>> \in Seq(Contents)
      BY <3>1
    <3> QED  BY <3>2, <3>3
  <2> QED  BY <1>2, <1>7, <2>1 DEF Writing, TodoOfNames
<1>8. CASE EndTurn
  BY <1>1, <1>8 DEF EndTurn, CpsInOrder, TodoOfNames
<1>9. ASSUME NEW sel \in DOMAIN cps, Undo(sel)
      PROVE  CpsInOrder' /\ TodoOfNames'
  <2>1. sel \in 1..Len(cps) /\ cps[sel] \in Nat /\ cps[sel] <= Len(seen)
    BY <1>1 DEF CpsInOrder
  <2>2. Len(seen') = cps[sel]
    BY <1>1, <1>9, <2>1 DEF Undo, Prefix
  <2>3. DOMAIN cps' = 1..sel /\ \A i \in 1..sel : cps'[i] = cps[i]
    BY <1>1, <1>9, <2>1 DEF Undo, Prefix
  <2> QED  BY <1>1, <1>9, <2>1, <2>2, <2>3 DEF Undo, CpsInOrder, TodoOfNames
<1>10. CASE ClearSession
  BY <1>10 DEF ClearSession, CpsInOrder, TodoOfNames
<1>11. CASE UNCHANGED <<cps, seen, call>>
  BY <1>11 DEF CpsInOrder, TodoOfNames
<1>12. CASE ReadStep
  <2>1. Len(call.got) \in Nat
    BY <1>1 DEF Calls
  <2> QED  BY <1>3, <1>4, <1>5, <1>6, <1>12, <2>1 DEF ReadStep, FeedResult, TooLarge, FeedCut
<1>13. CASE WriteStep
  <2>1. Text \subseteq Texts
    BY DEF Texts
  <2> QED  BY <1>7, <1>13, <2>1 DEF WriteStep, WriteFails, EditMisses, WriteFile, EditFile
<1>14. CASE SessionStep
  BY <1>8, <1>9, <1>10, <1>14 DEF SessionStep
<1> QED  BY <1>11, <1>12, <1>13, <1>14 DEF Next, vars, Tick, Outside

\* The types hold throughout.
LEMMA TypesHold == Spec => []TypeInv
<1>1. Init => TypeInv
  <2> SUFFICES ASSUME Init PROVE TypeInv
    OBVIOUS
  <2>1. disk \in [File -> [text : Texts, time : Times]]
    BY CacheAssumption DEF Init, Texts, Times
  <2>2. cache \in [Name -> Prints] /\ call \in Calls
    BY DEF Init, Forgotten, Prints, NoCall, Calls
  <2> QED  BY <2>1, <2>2, CacheAssumption DEF Init, TypeInv, TypeOK, CpsInOrder, TodoOfNames, NoCall, Times
<1>2. TypeInv /\ [Next]_vars => TypeInv'
  BY TypeStep, OrderStep DEF TypeInv
<1> QED  BY <1>1, <1>2, PTL DEF Spec

\* The file system stays what it is: the features of a behaviour do not change.
LEMMA SameFeatures ==
    ASSUME [Next]_vars
    PROVE  features' = features
<1>1. CASE ReadStep
  BY <1>1 DEF ReadStep, ReadFiles, ReadOne, Stamp, FeedResult, TooLarge, FeedCut, Fed
<1>2. CASE WriteStep
  BY <1>2 DEF WriteStep, WriteFails, EditMisses, WriteFile, EditFile, Writing
<1>3. CASE SessionStep
  BY <1>3 DEF SessionStep, EndTurn, ClearSession, Undo
<1>4. CASE Tick \/ UNCHANGED vars
  BY <1>4 DEF Tick, vars
<1>5. CASE \E f \in File : \E t \in Text \cup {Absent} : Outside(f, t)
  BY <1>5 DEF Outside
<1> QED  BY <1>1, <1>2, <1>3, <1>4, <1>5 DEF Next
-----------------------------------------------------------------------------
\* Time.

\* A hit has the time of its file, so that an outdated file is hit by no spelling.
LEMMA HitDate ==
    ASSUME NEW n \in Name, Hit(n)
    PROVE  cache[n] # NotFound /\ cache[n][1] = disk[FileOf[n]].time
BY DEF Hit, Fingerprint, NotFound

LEMMA OutdatedMisses ==
    ASSUME TypeOK, NEW n \in Name, Outdated(FileOf[n])
    PROVE  ~Hit(n)
<1>1. disk[FileOf[n]].time \in Int
  BY DEF TypeOK, Times, File
<1> QED  BY <1>1, HitDate DEF Outdated

\* Every step keeps the dates in their order.
LEMMA DatedStep ==
    ASSUME TypeInv, TypeOK', Dated, [Next]_vars
    PROVE  Dated'
<1> USE DEF TypeInv
<1>1. /\ clock \in Int
      /\ \A f \in File : disk[f].time \in Int
      /\ \A n \in Name : FileOf[n] \in File
  BY DEF TypeOK, Times, File
<1>2. ASSUME UNCHANGED <<clock, disk>>, \A n \in Name : cache'[n] = cache[n] \/ cache'[n] = NotFound
      PROVE  Dated'
  BY <1>2 DEF Dated
<1>3. CASE Stamp
  <2>1. \A n \in Name : cache'[n] \in {cache[n], Fingerprint(FileOf[n])}
    BY <1>3 DEF Stamp, TypeOK
  <2>2. \A n \in Name : Fingerprint(FileOf[n]) # NotFound =>
                            Fingerprint(FileOf[n])[1] = disk[FileOf[n]].time
    BY DEF Fingerprint
  <2>3. UNCHANGED <<clock, disk>>
    BY <1>3 DEF Stamp
  <2> QED  BY <1>1, <2>1, <2>2, <2>3 DEF Dated
<1>4. ASSUME NEW f \in File, NEW t \in Texts, Write(f, t), UNCHANGED clock,
             \A n \in Name : cache'[n] = cache[n] \/ cache'[n] = NotFound
      PROVE  Dated'
  <2>1. \A g \in File : disk'[g].time = IF g = f THEN clock ELSE disk[g].time
    BY <1>4 DEF Write, TypeOK
  <2>2. \A g \in File : disk'[g].time <= clock' /\ disk[g].time <= disk'[g].time
    BY <1>1, <1>4, <2>1 DEF Dated
  <2>3. \A n \in Name : cache[n] # NotFound => cache[n][1] \in Int
    BY DEF TypeOK, Prints, Times
  <2> QED
    <3> SUFFICES ASSUME NEW n \in Name, cache'[n] # NotFound
                 PROVE  cache'[n][1] <= disk'[FileOf[n]].time
      BY <2>2 DEF Dated
    <3>1. cache'[n] = cache[n] /\ cache[n][1] <= disk[FileOf[n]].time
      BY <1>4 DEF Dated
    <3>2. disk'[FileOf[n]].time \in Int
      BY <1>1, <2>1
    <3> QED  BY <1>1, <2>2, <2>3, <3>1, <3>2
<1>5. CASE Tick
  <2>1. clock' = clock + 1 /\ UNCHANGED <<disk, cache>>
    BY <1>5 DEF Tick
  <2> QED  BY <1>1, <2>1 DEF Dated
<1>6. CASE ReadStep
  BY <1>2, <1>3, <1>6 DEF ReadStep, ReadFiles, ReadOne, FeedResult, TooLarge, FeedCut, Fed
<1>7. CASE WriteStep
  <2> PICK n \in Name : WriteFails(n) \/ EditMisses(n) \/ \E t \in Text : WriteFile(n, t) \/ EditFile(n, t)
    BY <1>7 DEF WriteStep
  <2>1. UNCHANGED clock /\ \A m \in Name : cache'[m] = cache[m] \/ cache'[m] = NotFound
    BY DEF WriteFails, EditMisses, WriteFile, EditFile, Writing, Erased, TypeOK
  <2>2. UNCHANGED disk \/ \E t \in Texts : Write(FileOf[n], t)
    BY DEF WriteFails, EditMisses, WriteFile, EditFile, Texts
  <2> QED  BY <1>1, <1>2, <1>4, <2>1, <2>2
<1>8. CASE SessionStep
  BY <1>2, <1>8 DEF SessionStep, EndTurn, ClearSession, Undo, UndoneCache, Forgotten
<1>9. CASE \E f \in File : \E t \in Text \cup {Absent} : Outside(f, t)
  BY <1>4, <1>9 DEF Outside, Texts
<1>10. CASE UNCHANGED vars
  BY <1>2, <1>10 DEF vars
<1> QED  BY <1>5, <1>6, <1>7, <1>8, <1>9, <1>10 DEF Next

\* A file that changes in a later second is outdated in the cache.
LEMMA LaterOutdates ==
    ASSUME TypeOK, TypeOK', Dated, NEW f \in File, NEW t, Write(f, t), clock > disk[f].time,
           \A n \in Name : cache'[n] = cache[n] \/ cache'[n] = NotFound
    PROVE  Outdated(f)' /\ \A n \in Name : FileOf[n] = f => ~Hit(n)'
<1>1. disk'[f].time = clock /\ clock \in Int /\ disk[f].time \in Int
  BY DEF Write, TypeOK, Times
<1>2. \A n \in Name : cache[n] # NotFound => cache[n][1] \in Int
  BY DEF TypeOK, Prints, Times
<1>3. Outdated(f)'
  BY <1>1, <1>2 DEF Dated, Outdated
<1>4. \A n \in Name : Hit(n)' => cache'[n] # NotFound /\ cache'[n][1] = disk'[FileOf[n]].time
  BY DEF Hit, Fingerprint, NotFound
<1>5. disk'[f].time \in Int
  BY <1>1
<1> QED  BY <1>3, <1>4, <1>5 DEF Outdated

\* What is carried stays the file's, or the file is outdated.
LEMMA CarriedStep ==
    ASSUME TypeInv, TypeOK', Fresh, Dated, Carried, [Next]_vars
    PROVE  Carried'
<1> USE DEF TypeInv
<1>1. CASE Idle'
  BY <1>1 DEF Carried
<1>2. CASE UNCHANGED <<disk, cache, call>>
  BY <1>2 DEF Carried, Outdated, Idle
<1>3. ASSUME NEW k \in 1..MaxRead, NEW names \in [1..k -> Name], ReadFiles(names)
      PROVE  Carried'
  <2>1. call'.got = <<>>
    BY <1>3 DEF ReadFiles
  <2> QED  BY <2>1 DEF Carried
<1>4. CASE ReadOne
  <2>1. call.pc = "read" /\ UNCHANGED disk
    BY <1>4 DEF ReadOne
  <2>2. \A i \in DOMAIN call.got : call.got[i].text = disk[FileOf[call.got[i].name]].text
    BY <2>1 DEF Carried, Idle
  <2>3. PICK n, g : /\ g = [name |-> n, text |-> disk[FileOf[n]].text]
                    /\ call'.got = call.got \/ (call'.got = Append(call.got, g) /\ g \in Got)
    <3> PICK i \in call.todo :
          call' = [call EXCEPT !.todo = @ \ {i},
                               !.got = IF disk[FileOf[call.names[i]]].text = Absent THEN @
                                       ELSE Append(@, [name |-> call.names[i],
                                                       text |-> disk[FileOf[call.names[i]]].text])]
      BY <1>4 DEF ReadOne
    <3> DEFINE m == call.names[i]
               e == [name |-> m, text |-> disk[FileOf[m]].text]
    <3>1. m \in Name
      BY SeqParts DEF TodoOfNames, TypeOK, Calls
    <3>2. e \in Got
      BY <3>1 DEF TypeOK, File, Got
    <3>3. call'.got = call.got \/ call'.got = Append(call.got, e)
      BY DEF TypeOK, Calls
    <3> QED  BY <3>2, <3>3
  <2>4. call.got \in Seq(Got)
    BY DEF TypeOK, Calls, Got
  <2>5. \A i \in DOMAIN call'.got : call'.got[i].text = disk[FileOf[call'.got[i].name]].text
    <3>1. CASE call'.got = call.got
      BY <2>2, <3>1
    <3>2. CASE call'.got = Append(call.got, g) /\ g \in Got
      <4>1. /\ DOMAIN call'.got = 1..(Len(call.got) + 1) /\ Len(call.got) \in Nat
            /\ DOMAIN call.got = 1..Len(call.got)
            /\ call'.got[Len(call.got) + 1] = g
            /\ \A i \in 1..Len(call.got) : call'.got[i] = call.got[i]
        BY <2>4, <3>2, SeqParts
      <4> QED  BY <2>2, <2>3, <4>1
    <3> QED  BY <2>3, <3>1, <3>2
  <2> QED  BY <2>1, <2>5 DEF Carried
<1>5. CASE Stamp
  <2>1. call.pc = "read" /\ call'.got = call.got /\ UNCHANGED disk
    BY <1>5 DEF Stamp, TypeOK, Calls
  <2> QED  BY <2>1 DEF Carried, Idle
<1>6. ASSUME NEW f \in File, NEW t \in Text \cup {Absent}, Outside(f, t)
      PROVE  Carried'
  <2>1. UNCHANGED <<cache, call>> /\ Write(f, t) /\ clock > disk[f].time /\ call.pc # "read"
    BY <1>6 DEF Outside, Later, Fresh
  <2>2. Outdated(f)'
    BY <2>1, LaterOutdates
  <2>3. \A g \in File : g # f => disk'[g] = disk[g]
    BY <2>1 DEF Write, TypeOK
  <2>4. \A i \in DOMAIN call.got : FileOf[call.got[i].name] \in File
    <3>1. call.got \in Seq(Got)
      BY DEF TypeOK, Calls, Got
    <3>2. \A i \in DOMAIN call.got : call.got[i] \in Got
      BY <3>1, SeqParts
    <3> QED  BY <3>2 DEF Got, File
  <2>5. \A g \in File : g # f /\ Outdated(g) => Outdated(g)'
    BY <2>1, <2>3 DEF Outdated
  <2>6. call.pc \in {"idle", "feed"}
    BY <2>1 DEF TypeOK, Calls
  <2> SUFFICES ASSUME NEW i \in DOMAIN call.got, ~Idle,
                      NEW h \in File, h = FileOf[call.got[i].name]
               PROVE  \/ call.got[i].text = disk'[h].text
                      \/ call.pc = "feed" /\ Outdated(h)'
    BY <2>1, <2>4 DEF Carried, Idle, Outdated
  <2>7. call.pc = "feed"
    BY <2>6 DEF Idle
  <2>8. call.got[i].text = disk[h].text \/ Outdated(h)
    BY DEF Carried
  <2>9. CASE h = f
    BY <2>2, <2>7, <2>9
  <2>10. CASE h # f
    BY <2>3, <2>5, <2>7, <2>8, <2>10
  <2> QED  BY <2>9, <2>10
<1>7. CASE ReadStep
  <2>1. FeedResult \/ TooLarge \/ FeedCut => Idle'
    BY DEF FeedResult, TooLarge, FeedCut, Fed, NoCall, Idle
  <2> QED  BY <1>1, <1>3, <1>4, <1>5, <1>7, <2>1 DEF ReadStep
<1>8. CASE WriteStep
  <2>1. Idle /\ UNCHANGED call
    BY <1>8 DEF WriteStep, WriteFails, EditMisses, WriteFile, EditFile, Writing
  <2> QED  BY <1>1, <2>1 DEF Idle
<1>9. CASE SessionStep
  <2>1. Idle /\ UNCHANGED call
    BY <1>9 DEF SessionStep, EndTurn, ClearSession, Undo
  <2> QED  BY <1>1, <2>1 DEF Idle
<1> QED  BY <1>2, <1>6, <1>7, <1>8, <1>9 DEF Next, Tick, vars
-----------------------------------------------------------------------------
\* What the context knows.

\* A set of natural numbers with a bound has a greatest.
LEMMA Greatest ==
    ASSUME NEW b \in Nat, NEW S \in SUBSET (1..b), S # {}
    PROVE  \E m \in S : \A j \in S : j <= m
<1> DEFINE T == {b - i : i \in S}
           R == OpToRel(<, Nat)
<1>1. IsWellFoundedOn(R, Nat)
  BY NatLessThanWellFounded
<1>2. \A x, y \in Nat : <<y, x>> \in R <=> y < x
  BY DEF OpToRel
<1>3. T \subseteq Nat /\ T # {}
  <2>1. \A i \in S : b - i \in Nat
    OBVIOUS
  <2> QED  BY <2>1
<1> HIDE DEF R, T
<1>4. PICK x \in T : \A y \in T : ~(<<y, x>> \in R)
  BY <1>1, <1>3, WFMin
<1>5. PICK m \in S : x = b - m
  BY DEF T
<1>6. ASSUME NEW j \in S
      PROVE  j <= m
  <2>1. b - j \in T
    BY DEF T
  <2>2. ~(b - j < b - m)
    BY <1>2, <1>3, <1>4, <1>5, <2>1
  <2> QED  BY <2>2
<1> QED  BY <1>6

\* A content that is added is known, and another file's stays known.
LEMMA SawKnown ==
    ASSUME TypeOK, NEW f \in File, NEW t \in Texts, Saw(f, t)
    PROVE  /\ Knows(f, t)'
           /\ \A g \in File, u \in Texts : g # f /\ Knows(g, u) => Knows(g, u)'
<1>1. [file |-> f, text |-> t] \in Contents /\ seen \in Seq(Contents)
  BY DEF Contents, TypeOK
<1>2. /\ DOMAIN seen = 1..Len(seen) /\ Len(seen) \in Nat
      /\ DOMAIN seen' = 1..(Len(seen) + 1)
      /\ seen'[Len(seen) + 1] = [file |-> f, text |-> t]
      /\ \A i \in 1..Len(seen) : seen'[i] = seen[i]
  BY <1>1, SeqParts DEF Saw
<1>3. Knows(f, t)'
  BY <1>2 DEF Knows
<1>4. ASSUME NEW g \in File, NEW u \in Texts, g # f, Knows(g, u)
      PROVE  Knows(g, u)'
  <2> PICK i \in DOMAIN seen : /\ seen[i] = [file |-> g, text |-> u]
                               /\ \A j \in DOMAIN seen : j > i => seen[j].file # g
    BY <1>4 DEF Knows
  <2>1. seen'[i] = [file |-> g, text |-> u] /\ i \in DOMAIN seen'
    BY <1>2
  <2>2. \A j \in DOMAIN seen' : j > i => seen'[j].file # g
    BY <1>2, <1>4
  <2> QED  BY <2>1, <2>2 DEF Knows
<1> QED  BY <1>3, <1>4

\* A text is known behind a feed if the contents that were fed of the file have it,
\* and there was one or it was known before.
LEMMA FedKnown ==
    ASSUME TypeOK, NEW n \in 0..Len(call.got), Fed(n), NEW f \in File, NEW t \in Texts,
           \A i \in 1..n : FileOf[call.got[i].name] = f => call.got[i].text = t,
           Knows(f, t) \/ \E i \in 1..n : FileOf[call.got[i].name] = f
    PROVE  Knows(f, t)'
<1> DEFINE fed == [i \in 1..n |-> ContentOf(call.got[i])]
           L == Len(seen)
<1>1. call.got \in Gots /\ seen \in Seq(Contents)
  BY DEF TypeOK, Calls, Gots, Got
<1>2. fed \in Seq(Contents) /\ Len(fed) = n /\ n \in Nat
  BY <1>1, FedType, SeqParts DEF Gots
<1>3. seen' = seen \o fed
  BY DEF Fed
<1>4. \A i \in 1..n : /\ fed[i].file = FileOf[call.got[i].name]
                      /\ fed[i] = [file |-> fed[i].file, text |-> call.got[i].text]
  BY DEF ContentOf
<1> HIDE DEF fed
<1>5. /\ DOMAIN seen = 1..L /\ L \in Nat /\ DOMAIN seen' = 1..(L + n)
      /\ \A i \in 1..L : seen'[i] = seen[i]
      /\ \A i \in 1..n : seen'[L + i] = fed[i]
  <2>1. seen \o fed \in Seq(Contents)
    BY <1>1, <1>2, ConcatParts
  <2>2. Len(seen \o fed) = L + n /\ L \in Nat
    <3>1. Len(seen) \in Nat
      BY <1>1, SeqParts
    <3>2. Len(seen \o fed) = Len(seen) + Len(fed)
      BY <1>1, <1>2, ConcatParts
    <3> QED  BY <1>2, <3>1, <3>2
  <2>3. DOMAIN seen = 1..L /\ DOMAIN (seen \o fed) = 1..(L + n)
    BY <1>1, <2>1, <2>2
  <2> QED  BY <1>1, <1>2, <1>3, <2>2, <2>3, ConcatParts
<1> DEFINE S == {i \in 1..n : FileOf[call.got[i].name] = f}
<1>6. CASE S # {}
  <2> PICK m \in S : \A j \in S : j <= m
    BY <1>2, <1>6, Greatest
  <2>1. seen'[L + m] = [file |-> f, text |-> t] /\ L + m \in DOMAIN seen'
    <3>1. fed[m] = [file |-> f, text |-> t] /\ m \in 1..n
      BY <1>4
    <3> QED  BY <1>2, <1>5, <3>1
  <2>2. ASSUME NEW j \in DOMAIN seen', j > L + m
        PROVE  seen'[j].file # f
    <3> DEFINE k == j - L
    <3>1. k \in 1..n /\ k > m /\ m \in 1..n /\ j = L + k
      BY <1>2, <1>5, <2>2
    <3> HIDE DEF k
    <3>2. k \notin S
      <4>1. k \in S => k <= m
        OBVIOUS
      <4> QED  BY <3>1, <4>1
    <3>3. FileOf[call.got[k].name] # f
      BY <3>1, <3>2
    <3>4. seen'[j] = fed[k]
      BY <1>5, <3>1
    <3>5. fed[k].file = FileOf[call.got[k].name]
      BY <1>4, <3>1
    <3> QED  BY <3>3, <3>4, <3>5
  <2> QED  BY <2>1, <2>2 DEF Knows
<1>7. CASE S = {}
  <2>1. Knows(f, t)
    BY <1>7
  <2> PICK i \in DOMAIN seen : /\ seen[i] = [file |-> f, text |-> t]
                               /\ \A j \in DOMAIN seen : j > i => seen[j].file # f
    BY <2>1 DEF Knows
  <2>2. seen'[i] = [file |-> f, text |-> t] /\ i \in DOMAIN seen'
    BY <1>2, <1>5
  <2>3. ASSUME NEW j \in DOMAIN seen', j > i
        PROVE  seen'[j].file # f
    <3>1. CASE j \in 1..L
      BY <1>5, <2>3, <3>1
    <3>2. CASE j \in (L + 1)..(L + n)
      <4> DEFINE k == j - L
      <4>1. k \in 1..n /\ j = L + k
        BY <1>2, <1>5, <3>2
      <4> HIDE DEF k
      <4>2. FileOf[call.got[k].name] # f
        BY <1>7, <4>1
      <4>3. seen'[j] = fed[k]
        BY <1>5, <4>1
      <4>4. fed[k].file = FileOf[call.got[k].name]
        BY <1>4, <4>1
      <4> QED  BY <4>2, <4>3, <4>4
    <3> QED  BY <1>2, <1>5, <3>1, <3>2
  <2> QED  BY <2>2, <2>3 DEF Knows
<1> QED  BY <1>6, <1>7

\* What a step on one file leaves known: the other files are as they were.
LEMMA OthersKnown ==
    ASSUME TypeOK, NEW f \in File, \A g \in File : g # f => disk'[g] = disk[g],
           \A g \in File, u \in Texts : g # f /\ Knows(g, u) => Knows(g, u)',
           \A m \in Name : cache'[m] = cache[m] \/ cache'[m] = NotFound,
           NEW m \in Name, FileOf[m] # f, Hit(m) => Knows(FileOf[m], disk[FileOf[m]].text),
           Hit(m)'
    PROVE  Knows(FileOf[m], disk[FileOf[m]].text)'
<1> DEFINE g == FileOf[m]
<1>1. g \in File /\ g # f /\ disk'[g] = disk[g] /\ disk[g].text \in Texts
  BY DEF TypeOK, File
<1>2. cache'[m] # NotFound
  BY DEF Hit, NotFound
<1>3. cache'[m] = cache[m]
  BY <1>2
<1>4. Hit(m)
  BY <1>1, <1>3 DEF Hit, Fingerprint
<1>5. Knows(g, disk[g].text)'
  BY <1>1, <1>4
<1> QED  BY <1>5

\* What can hit behind a step was known or is now.
LEMMA KnownStep ==
    ASSUME TypeInv, TypeOK', Fresh, Dated, Carried, Known, [Next]_vars
    PROVE  Known'
<1> USE DEF TypeInv
<1> DEFINE Shrinks == \A m \in Name : cache'[m] = cache[m] \/ cache'[m] = NotFound
<1>1. ASSUME Shrinks, UNCHANGED <<disk, seen>>, Pending \subseteq Pending'
      PROVE  Known'
  <2>1. \A m \in Name : Hit(m)' => cache'[m] # NotFound
    BY DEF Hit, NotFound
  <2>2. \A m \in Name : Hit(m)' => Hit(m)
    BY <1>1, <2>1 DEF Hit, Fingerprint
  <2> QED  BY <1>1, <2>2 DEF Known, Knows
<1>2. ASSUME Shrinks, NEW f \in File, NEW t \in Texts, Write(f, t),
             Pending = lost, Pending' = lost,
             Saw(f, t) \/ (clock > disk[f].time /\ UNCHANGED seen)
      PROVE  Known'
  <2> SUFFICES ASSUME NEW m \in Name, m \notin lost, Hit(m)'
               PROVE  Knows(FileOf[m], disk[FileOf[m]].text)'
    BY <1>2 DEF Known
  <2>1. Hit(m) => Knows(FileOf[m], disk[FileOf[m]].text)
    BY <1>2 DEF Known
  <2>2. disk'[f].text = t /\ \A g \in File : g # f => disk'[g] = disk[g]
    BY <1>2 DEF Write, TypeOK
  <2>3. CASE FileOf[m] = f
    <3>1. Saw(f, t)
      BY <1>2, <2>3, LaterOutdates
    <3> QED  BY <2>2, <2>3, <3>1, SawKnown
  <2>4. CASE FileOf[m] # f
    <3>1. \A g \in File, u \in Texts : g # f /\ Knows(g, u) => Knows(g, u)'
      <4>1. CASE Saw(f, t)
        BY <4>1, SawKnown
      <4>2. CASE UNCHANGED seen
        BY <4>2 DEF Knows
      <4> QED  BY <1>2, <4>1, <4>2
    <3> QED  BY <1>2, <2>1, <2>2, <2>4, <3>1, OthersKnown
  <2> QED  BY <2>3, <2>4
<1>3. Idle => Pending = lost
  BY DEF Idle, Pending
<1>4. ASSUME NEW k \in 1..MaxRead, NEW names \in [1..k -> Name], ReadFiles(names)
      PROVE  Known'
  <2>1. Idle /\ UNCHANGED <<disk, cache, seen, lost>>
    BY <1>4 DEF ReadFiles
  <2> QED  BY <1>1, <1>3, <2>1 DEF Pending
<1>5. CASE ReadOne
  <2>1. call.pc = "read" /\ UNCHANGED <<disk, cache, seen, lost>>
    BY <1>5 DEF ReadOne
  <2> QED  BY <1>1, <2>1 DEF Pending
<1>6. CASE Stamp
  <2>1. /\ call.pc = "read" /\ call'.pc = "feed" /\ call'.got = call.got
        /\ UNCHANGED <<disk, seen, lost>>
    BY <1>6 DEF Stamp, TypeOK, Calls
  <2>2. Pending = lost /\ Pending' = lost \cup NamesOf(call.got)
    BY <2>1 DEF Pending
  <2>3. \A m \in Name \ NamesOf(call.got) : cache'[m] = cache[m]
    BY <1>6 DEF Stamp, NamesOf
  <2>4. \A m \in Name \ NamesOf(call.got) : Hit(m)' => Hit(m)
    BY <2>1, <2>3 DEF Hit, Fingerprint
  <2> QED  BY <2>1, <2>2, <2>4 DEF Known, Knows
<1>7. ASSUME NEW n \in 0..Len(call.got), Fed(n)
      PROVE  Known'
  <2>1. call.pc = "feed" /\ UNCHANGED <<disk, cache>> /\ Pending' = lost'
    BY <1>7 DEF Fed, NoCall, Pending
  <2> SUFFICES ASSUME NEW m \in Name, m \notin lost', Hit(m)
               PROVE  Knows(FileOf[m], disk[FileOf[m]].text)'
    BY <2>1 DEF Known, Hit, Fingerprint
  <2> DEFINE f == FileOf[m]
             t == disk[f].text
  <2>2. f \in File /\ t \in Texts /\ ~Outdated(f)
    BY OutdatedMisses DEF File, TypeOK
  <2>3. call.got \in Seq(Got)
    BY DEF TypeOK, Calls, Got
  <2>4. DOMAIN call.got = 1..Len(call.got) /\ 1..n \subseteq DOMAIN call.got
    BY <2>3, SeqParts
  <2>5. \A i \in DOMAIN call.got : FileOf[call.got[i].name] = f => call.got[i].text = t
    BY <2>1, <2>2 DEF Carried, Idle
  <2>6. ASSUME \A i \in 1..n : FileOf[call.got[i].name] # f
        PROVE  Knows(f, t)
    <3>1. NamesOf(Prefix(call.got, n)) = {call.got[i].name : i \in 1..n}
      <4>1. DOMAIN Prefix(call.got, n) = 1..n /\ \A i \in 1..n : Prefix(call.got, n)[i] = call.got[i]
        BY <2>3, SeqParts DEF Prefix
      <4> QED  BY <4>1 DEF NamesOf
    <3>2. \A i \in (n + 1)..Len(call.got) :
              call.got[i].name \in NamesOf(SubSeq(call.got, n + 1, Len(call.got)))
      <4> SUFFICES ASSUME NEW i \in (n + 1)..Len(call.got)
                   PROVE  call.got[i].name \in NamesOf(SubSeq(call.got, n + 1, Len(call.got)))
        OBVIOUS
      <4> DEFINE s == SubSeq(call.got, n + 1, Len(call.got))
                 k == i - n
      <4>1. k \in 1..(Len(call.got) - n) /\ i = n + k
        BY <2>3, SeqParts
      <4>2. s \in Seq(Got) /\ Len(s) = Len(call.got) - n
            /\ \A j \in 1..(Len(call.got) - n) : s[j] = call.got[n + j]
        BY <2>3, SeqParts
      <4> HIDE DEF s, k
      <4>3. k \in DOMAIN s /\ s[k] = call.got[i]
        BY <4>1, <4>2
      <4>4. s[k].name \in NamesOf(s)
        BY <4>3 DEF NamesOf
      <4> QED  BY <4>3, <4>4 DEF s
    <3>3. \A i \in 1..n : call.got[i].name # m
      BY <2>6
    <3>4. m \notin NamesOf(Prefix(call.got, n)) /\ m \notin lost
          /\ m \notin NamesOf(SubSeq(call.got, n + 1, Len(call.got)))
      BY <1>7, <3>1, <3>3 DEF Fed
    <3>5. \A i \in DOMAIN call.got : call.got[i].name # m
      BY <2>3, <2>4, <3>2, <3>3, <3>4, SeqParts
    <3>6. m \notin NamesOf(call.got)
      BY <3>5 DEF NamesOf
    <3> QED  BY <2>1, <3>4, <3>6 DEF Known, Pending
  <2>7. Knows(f, t)'
    <3>1. Knows(f, t) \/ \E i \in 1..n : FileOf[call.got[i].name] = f
      BY <2>6
    <3>2. \A i \in 1..n : FileOf[call.got[i].name] = f => call.got[i].text = t
      BY <2>4, <2>5
    <3> HIDE DEF f, t
    <3>3. \A g \in File, u \in Texts :
             /\ Knows(g, u) \/ \E i \in 1..n : FileOf[call.got[i].name] = g
             /\ \A i \in 1..n : FileOf[call.got[i].name] = g => call.got[i].text = u
             => Knows(g, u)'
      BY <1>7, FedKnown
    <3> PICK g \in File, u \in Texts : g = f /\ u = t
      BY <2>2
    <3>4. Knows(g, u)'
      BY <3>1, <3>2, <3>3
    <3>5. g = FileOf[m] /\ u = disk'[FileOf[m]].text
      BY <2>1 DEF f, t
    <3> QED  BY <3>4, <3>5 DEF f, t, Knows
  <2> QED  BY <2>1, <2>7 DEF Knows
<1>8. CASE ReadStep
  <2>1. Len(call.got) \in Nat
    BY DEF TypeOK, Calls
  <2> QED  BY <1>4, <1>5, <1>6, <1>7, <1>8, <2>1 DEF ReadStep, FeedResult, TooLarge, FeedCut
<1>9. ASSUME NEW n \in Name, Writing(n), UNCHANGED <<disk, seen>>
      PROVE  Known'
  <2>1. Idle /\ UNCHANGED <<call, lost>> /\ Shrinks
    BY <1>9 DEF Writing, Erased, TypeOK
  <2> QED  BY <1>1, <1>9, <2>1 DEF Pending
<1>10. ASSUME NEW n \in Name, NEW t \in Texts, Writing(n), Write(FileOf[n], t),
              Saw(FileOf[n], t) \/ (Later(FileOf[n]) /\ UNCHANGED seen)
       PROVE  Known'
  <2>1. Idle /\ UNCHANGED <<call, lost>> /\ Shrinks
    BY <1>10 DEF Writing, Erased, TypeOK
  <2>2. Pending = lost /\ Pending' = lost
    BY <1>3, <2>1 DEF Pending, Idle
  <2>3. FileOf[n] \in File
    BY DEF File
  <2>4. Later(FileOf[n]) => clock > disk[FileOf[n]].time
    BY DEF Later, Fresh
  <2> QED  BY <1>2, <1>10, <2>1, <2>2, <2>3, <2>4
<1>11. CASE WriteStep
  <2> PICK n \in Name : WriteFails(n) \/ EditMisses(n) \/ \E t \in Text : WriteFile(n, t) \/ EditFile(n, t)
    BY <1>11 DEF WriteStep
  <2>1. Text \subseteq Texts /\ Torn \in Texts
    BY DEF Texts
  <2>2. CASE WriteFails(n)
    BY <1>9, <1>10, <2>1, <2>2 DEF WriteFails
  <2>3. CASE EditMisses(n)
    BY <1>9, <2>3 DEF EditMisses
  <2>4. ASSUME NEW t \in Text, WriteFile(n, t)
        PROVE  Known'
    BY <1>10, <2>1, <2>4 DEF WriteFile
  <2>5. ASSUME NEW t \in Text, EditFile(n, t)
        PROVE  Known'
    BY <1>10, <2>1, <2>5 DEF EditFile
  <2> QED  BY <2>2, <2>3, <2>4, <2>5
<1>12. CASE EndTurn \/ Tick \/ UNCHANGED vars
  BY <1>1, <1>12 DEF EndTurn, Tick, vars, Pending
<1>13. ASSUME cache' = Forgotten
       PROVE  Known'
  <2>1. \A m \in Name : cache'[m] = NotFound
    BY <1>13 DEF Forgotten
  <2> QED  BY <2>1 DEF Known, Hit
<1>14. CASE SessionStep
  BY <1>12, <1>13, <1>14 DEF SessionStep, ClearSession, Undo, UndoneCache
<1>15. ASSUME NEW f \in File, NEW t \in Text \cup {Absent}, Outside(f, t)
       PROVE  Known'
  <2>1. UNCHANGED <<cache, seen, call, lost>> /\ Write(f, t) /\ clock > disk[f].time
    BY <1>15 DEF Outside, Later, Fresh
  <2>2. \A m \in Name : FileOf[m] = f => ~Hit(m)'
    BY <2>1, LaterOutdates
  <2>3. \A g \in File : g # f => disk'[g] = disk[g]
    BY <2>1 DEF Write, TypeOK
  <2>4. Pending' = Pending /\ Shrinks
    BY <2>1 DEF Pending
  <2> SUFFICES ASSUME NEW m \in Name \ Pending, Hit(m)'
               PROVE  Knows(FileOf[m], disk[FileOf[m]].text)'
    BY <2>4 DEF Known
  <2>5. FileOf[m] # f
    BY <2>2
  <2>6. Hit(m) => Knows(FileOf[m], disk[FileOf[m]].text)
    BY DEF Known
  <2>7. \A g \in File, u \in Texts : g # f /\ Knows(g, u) => Knows(g, u)'
    BY <2>1 DEF Knows
  <2> QED  BY <2>3, <2>4, <2>5, <2>6, <2>7, OthersKnown
<1> QED  BY <1>8, <1>11, <1>12, <1>14, <1>15 DEF Next

\* In every behaviour without the three ways, what can hit is known.
LEMMA CacheHolds == Spec => [](TypeInv /\ CacheInv)
<1>1. Init => CacheInv
  <2> SUFFICES ASSUME Init PROVE Dated /\ Carried /\ Known
    BY DEF CacheInv
  <2>1. \A f \in File : disk[f].time = 0
    BY DEF Init
  <2>2. \A n \in Name : cache[n] = NotFound
    BY DEF Init, Forgotten
  <2> QED  BY <2>1, <2>2 DEF Init, Dated, Carried, Known, Hit, NoCall, Idle
<1>2. TypeInv /\ TypeInv' /\ CacheInv /\ [Next]_vars => CacheInv'
  BY DatedStep, CarriedStep, KnownStep, SameFeatures DEF TypeInv, CacheInv, Fresh
<1> QED  BY <1>1, <1>2, TypesHold, PTL DEF Spec
-----------------------------------------------------------------------------
\* FileCache's types hold in every behaviour.
THEOREM CacheTypes == Spec => []TypeOK
<1> QED  BY TypesHold, PTL DEF TypeInv

\* The hypothesis: no scenario has a file that changes twice in a second or between its
\* read and its fingerprint, or asks again for a content that did not arrive.
NoSuchChange == \A f \in Scenarios : f \cap {"again", "quick", "between"} = {}

\* A call that begins says "[cached]" of what can hit and was not lost.
LEMMA HitsKnown ==
    ASSUME TypeOK, Fresh, Known, [Next]_vars, Idle, ~Idle', NEW n \in call'.hits
    PROVE  Knows(FileOf[n], disk[FileOf[n]].text)
<1>1. call' # call /\ call'.pc # "idle"
  BY DEF Idle
<1>2. ~WriteStep /\ ~SessionStep /\ ~Tick /\ ~UNCHANGED vars
  BY <1>1 DEF WriteStep, WriteFails, EditMisses, WriteFile, EditFile, Writing, SessionStep,
              EndTurn, ClearSession, Undo, Tick, vars
<1>3. \A f \in File, t \in Text \cup {Absent} : ~Outside(f, t)
  BY <1>1 DEF Outside
<1>4. ~ReadOne /\ ~Stamp /\ ~FeedResult /\ ~TooLarge /\ ~FeedCut
  BY <1>1 DEF Idle, ReadOne, Stamp, FeedResult, TooLarge, FeedCut, Fed
<1> PICK k \in 1..MaxRead : \E names \in [1..k -> Name] : ReadFiles(names)
  BY <1>2, <1>3, <1>4 DEF Next, ReadStep
<1>5. PICK names \in [1..k -> Name] : ReadFiles(names)
  OBVIOUS
<1>6. n \in Range(names) /\ Hit(n) /\ Range(names) \subseteq Name
  BY <1>5 DEF ReadFiles, Range
<1>7. n \in Name /\ n \notin lost
  BY <1>5, <1>6 DEF ReadFiles, Fresh
<1> QED  BY <1>6, <1>7 DEF Known, Pending, Idle

\* NoFalseHit is a property of every such behaviour.
THEOREM CachedIsKnown ==
    ASSUME NoSuchChange
    PROVE  Spec => NoFalseHit
<1>1. TypeOK => Fresh
  BY DEF NoSuchChange, Fresh, TypeOK
<1>2. TypeInv /\ CacheInv /\ [Next]_vars
         => [Idle /\ ~Idle' => \A n \in call'.hits : Knows(FileOf[n], disk[FileOf[n]].text)]_vars
  BY <1>1, HitsKnown DEF TypeInv, CacheInv
<1> QED  BY <1>2, CacheHolds, PTL DEF Spec, NoFalseHit
=============================================================================
