------------------------- MODULE ConfigReloadProofs -------------------------
(***************************************************************************)
(* Proofs for ConfigReload: IndInv is inductive for any number of          *)
(* requests, changes of the file and signals, and the safety properties of *)
(* reload and shutdown follow.                                             *)
(***************************************************************************)
EXTENDS ConfigReload, TLAPS

Ops    == {"write", "remove", "rename"}
Labels == Startup \cup {"select", "load", "close", "stop", "serve", "shutdown"}
Files  == [ino : 0 .. MaxVersion, ver : 1 .. MaxVersion, kind : Kinds]

\* Events in the order they happened.
LEMMA Appended ==
    ASSUME NEW e \in Seq(Ops), NEW x \in Ops
    PROVE  /\ Append(e, x) \in Seq(Ops) /\ Append(e, x) # <<>> /\ Len(e) \in Nat
           /\ Len(Append(e, x)) = Len(e) + 1 /\ Append(e, x)[Len(e) + 1] = x
           /\ DOMAIN e = 1 .. Len(e) /\ DOMAIN Append(e, x) = 1 .. Len(e) + 1
           /\ \A i \in DOMAIN e : Append(e, x)[i] = e[i]
  OBVIOUS

\* A queue of events after the first was taken.
LEMMA Taken ==
    ASSUME NEW e \in Seq(Ops), e # <<>>
    PROVE  /\ Tail(e) \in Seq(Ops) /\ Len(e) \in Nat /\ Len(e) > 0 /\ Len(Tail(e)) = Len(e) - 1
           /\ DOMAIN e = 1 .. Len(e) /\ DOMAIN Tail(e) = 1 .. Len(e) - 1
           /\ Head(e) = e[1] /\ \A i \in DOMAIN Tail(e) : Tail(e)[i] = e[i + 1]
           /\ Len(e) = 1 => Tail(e) = <<>>
           /\ Len(e) > 1 => Tail(e) # <<>>
<1>1. Tail(e) \in Seq(Ops) /\ Len(e) \in Nat /\ Len(e) > 0 /\ Len(Tail(e)) = Len(e) - 1
  OBVIOUS
<1>2. DOMAIN e = 1 .. Len(e) /\ DOMAIN Tail(e) = 1 .. Len(e) - 1
  BY <1>1
<1>3. Head(e) = e[1] /\ \A i \in DOMAIN Tail(e) : Tail(e)[i] = e[i + 1]
  BY <1>1, <1>2
<1>4. Tail(e) = <<>> <=> Len(Tail(e)) = 0
  <2>1. \A t \in Seq(Ops) : t = <<>> <=> Len(t) = 0
    OBVIOUS
  <2> QED BY <1>1, <2>1
<1> HIDE DEF Ops
<1> QED BY <1>1, <1>2, <1>3, <1>4

\* What TypeOK says of the variables that the steps compare.
LEMMA Types ==
    ASSUME IndInv
    PROVE  /\ disk \in Files /\ disk.ver \in Nat /\ disk.ino \in Nat /\ watch \in 0 .. lastIno
           /\ doomed \in 0 .. lastIno /\ bound \in BOOLEAN /\ disk.ver \in 1 .. MaxVersion
           /\ events \in Seq(Ops) /\ pc \in Labels /\ loaded \in [ver : 0 .. MaxVersion, kind : Kinds]
           /\ watching \in BOOLEAN /\ needRestart \in BOOLEAN /\ pending \in BOOLEAN /\ blind \in BOOLEAN
           /\ hs \in {"up", "mute", "closed"} /\ stopped \subseteq 1 .. gen
           /\ req \in [Requests -> [run : BOOLEAN, gen : 0 .. gen, open : BOOLEAN]]
           /\ exit \in {"no", "startup", "panic", "config", "address", "signal", "killed"}
           /\ lastIno \in Nat /\ gen \in Nat /\ seen \in Nat /\ signals \in Nat
  BY BoundsAssumption DEF IndInv, TypeOK, CountersOK, Ops, Labels, Files

\* The file system's steps: nothing of the process changes.
LEMMA ProcessUntouched ==
    ASSUME IndInv, UNCHANGED <<loopVars, serverVars, req, signalVars, exit>>
    PROVE  /\ UNCHANGED <<pc, watching, needRestart, loaded, seen, gen, hs, stopped, bound, req, signals,
                          pending, exit>>
           /\ ServeOK' /\ NoStaleAnswer' /\ BadConfigHarmless'
<1>1. UNCHANGED <<pc, watching, needRestart, loaded, seen, gen, hs, stopped, bound, req, signals, pending, exit>>
  BY DEF loopVars, serverVars, signalVars
<1> QED BY <1>1 DEF IndInv, ServeOK, Drained, NoStaleAnswer, BadConfigHarmless, Running

----------------------------------------------------------------------------
(* The file system *)

\* Types after a step of the file system.
LEMMA FileTypes ==
    ASSUME IndInv, UNCHANGED <<loopVars, serverVars, req, signalVars, exit>>,
           disk' \in Files, lastIno' \in Nat, lastIno <= lastIno', disk'.ino <= lastIno',
           lastIno' <= disk'.ver, watch' \in 0 .. lastIno', doomed' \in 0 .. lastIno', events' \in Seq(Ops), blind' \in BOOLEAN
    PROVE  TypeOK' /\ CountersOK'
<1>1. UNCHANGED <<pc, watching, needRestart, loaded, seen, gen, hs, stopped, bound, req, signals, pending, exit>>
  BY ProcessUntouched
<1>2. TypeOK'
  <2>1. /\ disk' \in Files /\ watch' \in 0 .. lastIno' /\ doomed' \in 0 .. lastIno'
        /\ events' \in Seq(Ops) /\ blind' \in BOOLEAN
    OBVIOUS
  <2> QED BY ONLY <1>1, <2>1, IndInv, Types DEF TypeOK, Ops, Labels, Files
<1>3. CountersOK'
  BY <1>1, Types DEF IndInv, CountersOK, Running
<1> QED BY <1>2, <1>3

\* An event of the watched file joins the queue; a Remove is the last one.
LEMMA Queued ==
    ASSUME IndInv, watch # NoFile, NEW x \in Ops, events' = Append(events, x)
    PROVE  /\ watching /\ ~RemovePending /\ events' \in Seq(Ops)
           /\ RemovePending' <=> x = "remove"
           /\ \A i \in DOMAIN events' : events'[i] = "remove" => x = "remove" /\ i = Len(events')
<1>1. watching /\ ~RemovePending
  BY DEF IndInv, WatchOK
<1>2. events \in Seq(Ops)
  BY Types
<1>3. /\ events' \in Seq(Ops) /\ events' # <<>> /\ Len(events) \in Nat
      /\ Len(events') = Len(events) + 1 /\ events'[Len(events) + 1] = x
      /\ DOMAIN events = 1 .. Len(events) /\ DOMAIN events' = 1 .. Len(events) + 1
      /\ \A i \in DOMAIN events : events'[i] = events[i]
  BY <1>2, Appended
<1>4. \A i \in DOMAIN events : events[i] # "remove"
  <2>1. \A i \in DOMAIN events : events[i] = "remove" => i = Len(events) /\ events # <<>>
    BY <1>2 DEF IndInv, WatchOK
  <2> QED BY ONLY <1>1, <2>1 DEF RemovePending
<1>5. RemovePending' <=> x = "remove"
  BY ONLY <1>3 DEF RemovePending
<1>6. \A i \in DOMAIN events' : events'[i] = "remove" => x = "remove" /\ i = Len(events')
  <2>1. \A i \in DOMAIN events' : i \in DOMAIN events \/ i = Len(events')
    BY ONLY <1>3
  <2> QED BY ONLY <1>3, <1>4, <2>1
<1> QED BY <1>1, <1>3, <1>5, <1>6

\* A new version of the file's content is in place.
LEMMA WriteStep == ASSUME IndInv, NEW kind \in Kinds, Write(kind) PROVE IndInv'
<1>1. UNCHANGED <<lastIno, watch, doomed, loopVars, serverVars, req, signalVars, exit>>
  BY DEF Write
<1>2. UNCHANGED <<pc, watching, needRestart, seen>>
  BY <1>1, ProcessUntouched
<1> DEFINE f == [ino |-> disk.ino, ver |-> disk.ver + 1, kind |-> kind]
<1>3. disk' = f /\ disk.ver < MaxVersion /\ disk.ino # NoFile
  BY DEF Write, Exists
<1>4. f \in Files /\ f.ino = disk.ino /\ f.ver = disk.ver + 1
  <2>1. disk.ver + 1 \in 1 .. MaxVersion /\ disk.ino \in 0 .. MaxVersion
    BY <1>3, Types, BoundsAssumption DEF Files
  <2> QED BY <2>1 DEF Files
<1> HIDE DEF f
<1>5. blind' = (blind \/ InGap) /\ blind' \in BOOLEAN
  BY Types DEF Write, InGap
<1>6. events' \in Seq(Ops)
  BY Types, Appended DEF Write, Ops
<1>7. TypeOK' /\ CountersOK'
  BY <1>1, <1>3, <1>4, <1>5, <1>6, Types, FileTypes DEF IndInv, CountersOK
<1>8. WatchOK'
  <2>1. CASE watch = disk.ino
    <3>1. events' = Append(events, "write") /\ "write" \in Ops
      BY <2>1 DEF Write, Ops
    <3>2. watching
      BY <1>3, <2>1 DEF IndInv, WatchOK
    <3>3. ~RemovePending /\ ~RemovePending'
      BY <1>3, <2>1, <3>1, Queued
    <3>4. Noticed'
      BY <3>1, Types, Appended DEF Noticed
    <3>5. \A i \in DOMAIN events' : events'[i] # "remove"
      BY <1>3, <2>1, <3>1, Queued
    <3> QED BY <1>1, <1>2, <1>3, <1>4, <1>5, <2>1, <3>2, <3>3, <3>4, <3>5, Types
            DEF IndInv, WatchOK, Startup, InGap
  <2>2. CASE watch # disk.ino
    <3>1. events' = events
      BY <2>2 DEF Write
    <3> QED BY <1>1, <1>2, <1>3, <1>4, <1>5, <2>2, <3>1, Types
            DEF IndInv, WatchOK, Startup, InGap, RemovePending
  <2> QED BY <2>1, <2>2
<1> QED BY <1>1, <1>7, <1>8, ProcessUntouched DEF IndInv

\* The watch, if it was on the file at the path, ends with a Remove event.
LEMMA UnlinkedWatch ==
    ASSUME IndInv, Exists, Unlinked
    PROVE  /\ watch' \in {NoFile, watch} /\ events' \in Seq(Ops)
           /\ watch' # NoFile => watch' = watch /\ watch # disk.ino
           /\ watch' = watch => events' = events
           /\ watch' # watch => watching /\ RemovePending'
           /\ \A i \in DOMAIN events' : events'[i] = "remove" => i = Len(events')
<1>1. CASE watch = disk.ino
  <2>1. watch' = NoFile /\ events' = Append(events, "remove") /\ "remove" \in Ops /\ watch # NoFile
    BY <1>1 DEF Unlinked, Ops, Exists
  <2>2. watching /\ RemovePending' /\ events' \in Seq(Ops)
        /\ \A i \in DOMAIN events' : events'[i] = "remove" => i = Len(events')
    BY <2>1, Queued
  <2> QED BY <2>1, <2>2, <1>1
<1>2. CASE watch # disk.ino
  BY <1>2, Types DEF Unlinked, IndInv, WatchOK
<1> QED BY <1>1, <1>2

\* Another file takes the path, or none.
LEMMA ReplaceStep == ASSUME IndInv, NEW kind \in Kinds, Replace(kind) PROVE IndInv'
<1>1. /\ UNCHANGED <<doomed, loopVars, serverVars, req, signalVars, exit>> /\ Exists /\ Unlinked
      /\ lastIno' = lastIno + 1 /\ disk.ver < MaxVersion
      /\ disk' = [ino |-> lastIno + 1, ver |-> disk.ver + 1, kind |-> kind]
  BY DEF Replace
<1>2. UNCHANGED <<pc, watching, needRestart, seen>>
  BY <1>1, ProcessUntouched
<1>3. blind' = (blind \/ InGap) /\ blind' \in BOOLEAN
  BY Types DEF Replace, InGap
<1>4. disk' \in Files /\ disk'.ino = lastIno + 1 /\ disk'.ver = disk.ver + 1
  BY <1>1, Types, BoundsAssumption DEF Files, IndInv, CountersOK
<1>5. /\ watch' \in {NoFile, watch} /\ events' \in Seq(Ops)
      /\ watch' # NoFile => watch' = watch /\ watch # disk.ino
      /\ watch' = watch => events' = events
      /\ watch' # watch => watching /\ RemovePending'
      /\ \A i \in DOMAIN events' : events'[i] = "remove" => i = Len(events')
  BY <1>1, UnlinkedWatch
<1>6. TypeOK' /\ CountersOK'
  BY <1>1, <1>3, <1>4, <1>5, Types, FileTypes DEF IndInv, CountersOK, NoFile
<1>7. (watch' # NoFile => watch' # disk'.ino) /\ doomed' # disk'.ino
  BY <1>1, <1>4, <1>5, Types
<1>8. WatchOK'
  BY <1>1, <1>2, <1>3, <1>5, <1>7, Types DEF IndInv, WatchOK, Startup, InGap, RemovePending
<1> QED BY <1>1, <1>6, <1>8, ProcessUntouched DEF IndInv

\* The path is empty from now on.
LEMMA FileGone ==
    ASSUME IndInv, disk' = [disk EXCEPT !.ino = NoFile]
    PROVE  disk' \in Files /\ disk'.ino = NoFile /\ disk'.ver = disk.ver
<1>1. disk \in Files /\ 0 \in 0 .. MaxVersion
  BY Types, BoundsAssumption
<1> QED BY ONLY <1>1, disk' = [disk EXCEPT !.ino = NoFile] DEF Files, NoFile

\* The file is deleted: a Remove is queued for a watch on it.
LEMMA DeleteStep == ASSUME IndInv, Delete PROVE IndInv'
<1>1. /\ UNCHANGED <<lastIno, doomed, blind, loopVars, serverVars, req, signalVars, exit>>
      /\ Exists /\ Unlinked /\ disk' = [disk EXCEPT !.ino = NoFile]
  BY DEF Delete
<1>2. UNCHANGED <<pc, watching, needRestart, seen>>
  BY <1>1, ProcessUntouched
<1>3. disk' \in Files /\ disk'.ino = NoFile /\ disk'.ver = disk.ver
  BY <1>1, FileGone
<1>4. /\ watch' \in {NoFile, watch} /\ events' \in Seq(Ops)
      /\ watch' # NoFile => watch' = watch /\ watch # disk.ino
      /\ watch' = watch => events' = events
      /\ watch' # watch => watching /\ RemovePending'
      /\ \A i \in DOMAIN events' : events'[i] = "remove" => i = Len(events')
  BY <1>1, UnlinkedWatch
<1>5. TypeOK' /\ CountersOK'
  BY <1>1, <1>3, <1>4, Types, FileTypes DEF IndInv, CountersOK, NoFile
<1>6. WatchOK'
  BY <1>1, <1>2, <1>3, <1>4, Types DEF IndInv, WatchOK, Startup, RemovePending
<1> QED BY <1>1, <1>5, <1>6, ProcessUntouched DEF IndInv

\* The file is moved away: the watch goes with it and blind is set.
LEMMA RenameAwayStep == ASSUME IndInv, RenameAway PROVE IndInv'
<1>1. /\ UNCHANGED <<lastIno, watch, doomed, loopVars, serverVars, req, signalVars, exit>>
      /\ disk.ino # NoFile /\ disk' = [disk EXCEPT !.ino = NoFile]
      /\ blind' = (blind \/ watch = disk.ino)
  BY DEF RenameAway, Exists
<1>2. UNCHANGED <<pc, watching, needRestart, seen>>
  BY <1>1, ProcessUntouched
<1>3. disk' \in Files /\ disk'.ino = NoFile /\ disk'.ver = disk.ver /\ blind' \in BOOLEAN
  BY <1>1, FileGone, Types
<1>4. CASE watch = disk.ino
  <2>1. events' = Append(events, "rename") /\ "rename" \in Ops
    BY <1>4 DEF RenameAway, Ops
  <2>2. watching /\ ~RemovePending
    BY <1>1, <1>4 DEF IndInv, WatchOK
  <2>3. events' \in Seq(Ops) /\ ~RemovePending' /\ \A i \in DOMAIN events' : events'[i] # "remove"
    BY <1>1, <1>4, <2>1, Queued
  <2>4. TypeOK' /\ CountersOK'
    BY <1>1, <1>3, <2>3, Types, FileTypes DEF IndInv, CountersOK, NoFile
  <2>5. WatchOK'
    BY <1>1, <1>2, <1>3, <1>4, <2>2, <2>3, Types DEF IndInv, WatchOK, Startup
  <2> QED BY <1>1, <2>4, <2>5, ProcessUntouched DEF IndInv
<1>5. CASE watch # disk.ino
  <2>1. events' = events
    BY <1>5 DEF RenameAway
  <2>2. TypeOK' /\ CountersOK'
    BY <1>1, <1>3, <2>1, Types, FileTypes DEF IndInv, CountersOK, NoFile
  <2>3. WatchOK'
    BY <1>1, <1>2, <1>3, <1>5, <2>1, Types DEF IndInv, WatchOK, Startup, RemovePending
  <2> QED BY <1>1, <2>2, <2>3, ProcessUntouched DEF IndInv
<1> QED BY <1>4, <1>5

\* The file that was moved away is deleted, and its watch with it.
LEMMA DeleteMovedStep == ASSUME IndInv, DeleteMoved PROVE IndInv'
<1>1. /\ UNCHANGED <<disk, lastIno, doomed, blind, loopVars, serverVars, req, signalVars, exit>>
      /\ watch # NoFile /\ watch # disk.ino /\ watch # doomed /\ watch' = NoFile
      /\ events' = Append(events, "remove") /\ "remove" \in Ops
  BY DEF DeleteMoved, Ops
<1>2. UNCHANGED <<pc, watching, needRestart, seen>>
  BY <1>1, ProcessUntouched
<1>3. watching /\ ~RemovePending
  BY <1>1 DEF IndInv, WatchOK
<1>4. events' \in Seq(Ops) /\ RemovePending'
      /\ \A i \in DOMAIN events' : events'[i] = "remove" => i = Len(events')
  BY <1>1, Queued
<1>5. TypeOK' /\ CountersOK'
  BY <1>1, <1>4, Types, FileTypes DEF IndInv, CountersOK, NoFile
<1>6. WatchOK'
  BY <1>1, <1>2, <1>3, <1>4, Types DEF IndInv, WatchOK, Startup
<1> QED BY <1>1, <1>5, <1>6, ProcessUntouched DEF IndInv

\* A new file appears at the path, where no watch can be.
LEMMA CreateStep == ASSUME IndInv, NEW kind \in Kinds, Create(kind) PROVE IndInv'
<1>1. /\ UNCHANGED <<watch, doomed, events, loopVars, serverVars, req, signalVars, exit>>
      /\ disk.ino = NoFile /\ lastIno' = lastIno + 1 /\ disk.ver < MaxVersion
      /\ disk' = [ino |-> lastIno + 1, ver |-> disk.ver + 1, kind |-> kind]
  BY DEF Create, Exists
<1>2. UNCHANGED <<pc, watching, needRestart, seen>>
  BY <1>1, ProcessUntouched
<1>3. blind' = (blind \/ InGap) /\ blind' \in BOOLEAN
  BY Types DEF Create, InGap
<1>4. disk' \in Files /\ disk'.ino = lastIno + 1 /\ disk'.ver = disk.ver + 1
  BY <1>1, Types, BoundsAssumption DEF Files, IndInv, CountersOK
<1>5. TypeOK' /\ CountersOK'
  BY <1>1, <1>3, <1>4, Types, FileTypes DEF IndInv, CountersOK
<1>6. watch' # disk'.ino /\ doomed' # disk'.ino
  BY <1>1, <1>4, Types
<1>7. WatchOK'
  BY <1>1, <1>2, <1>3, <1>6, Types DEF IndInv, WatchOK, Startup, InGap, RemovePending
<1> QED BY <1>1, <1>5, <1>7, ProcessUntouched DEF IndInv

\* A ConfigMap's swap puts a new file in place; a watch on the old one waits
\* for its deletion.
LEMMA SwapStep == ASSUME IndInv, NEW kind \in Kinds, Swap(kind) PROVE IndInv'
<1>1. /\ UNCHANGED <<watch, events, loopVars, serverVars, req, signalVars, exit>>
      /\ disk.ino # NoFile /\ lastIno' = lastIno + 1 /\ disk.ver < MaxVersion
      /\ doomed = NoFile /\ doomed' = disk.ino
      /\ disk' = [ino |-> lastIno + 1, ver |-> disk.ver + 1, kind |-> kind]
  BY DEF Swap, Exists
<1>2. UNCHANGED <<pc, watching, needRestart, seen>>
  BY <1>1, ProcessUntouched
<1>3. blind' = (blind \/ InGap) /\ blind' \in BOOLEAN
  BY Types DEF Swap, InGap
<1>4. disk' \in Files /\ disk'.ino = lastIno + 1 /\ disk'.ver = disk.ver + 1
  BY <1>1, Types, BoundsAssumption DEF Files, IndInv, CountersOK
<1>5. TypeOK' /\ CountersOK'
  BY <1>1, <1>3, <1>4, Types, FileTypes DEF IndInv, CountersOK
<1>6. watch' # disk'.ino /\ doomed' # disk'.ino
  BY <1>1, <1>4, Types DEF IndInv, CountersOK
<1>7. WatchOK'
  BY <1>1, <1>2, <1>3, <1>6, Types DEF IndInv, WatchOK, Startup, InGap, RemovePending
<1> QED BY <1>1, <1>5, <1>7, ProcessUntouched DEF IndInv

\* The old file is deleted, and a watch that stayed on it ends.
LEMMA DeleteOldStep == ASSUME IndInv, DeleteOld PROVE IndInv'
<1>1. /\ UNCHANGED <<disk, lastIno, blind, loopVars, serverVars, req, signalVars, exit>>
      /\ doomed # NoFile /\ doomed' = NoFile
  BY DEF DeleteOld
<1>2. UNCHANGED <<pc, watching, needRestart, seen>>
  BY <1>1, ProcessUntouched
<1>3. CASE watch = doomed
  <2>1. watch # NoFile /\ watch # disk.ino /\ watch' = NoFile
        /\ events' = Append(events, "remove") /\ "remove" \in Ops
    BY <1>1, <1>3 DEF DeleteOld, Ops, IndInv, WatchOK
  <2>2. watching /\ ~RemovePending
    BY <2>1 DEF IndInv, WatchOK
  <2>3. events' \in Seq(Ops) /\ RemovePending'
        /\ \A i \in DOMAIN events' : events'[i] = "remove" => i = Len(events')
    BY <2>1, Queued
  <2>4. TypeOK' /\ CountersOK'
    BY <1>1, <2>1, <2>3, Types, FileTypes DEF IndInv, CountersOK, NoFile
  <2>5. WatchOK'
    BY <1>1, <1>2, <2>1, <2>2, <2>3, Types DEF IndInv, WatchOK, Startup
  <2> QED BY <1>1, <2>4, <2>5, ProcessUntouched DEF IndInv
<1>4. CASE watch # doomed
  <2>1. UNCHANGED <<watch, events>>
    BY <1>4 DEF DeleteOld
  <2>2. TypeOK' /\ CountersOK'
    BY <1>1, <2>1, Types, FileTypes DEF IndInv, CountersOK, NoFile
  <2>3. WatchOK'
    BY <1>1, <1>2, <1>4, <2>1, Types DEF IndInv, WatchOK, Startup, RemovePending, Noticed
  <2> QED BY <1>1, <2>2, <2>3, ProcessUntouched DEF IndInv
<1> QED BY <1>3, <1>4

\* Whatever happens to the file.
LEMMA FileChangesStep == ASSUME IndInv, FileChanges PROVE IndInv'
  BY WriteStep, ReplaceStep, SwapStep, CreateStep, DeleteStep, RenameAwayStep, DeleteMovedStep,
     DeleteOldStep DEF FileChanges
----------------------------------------------------------------------------
(* main, ServeOnce and the loop *)

\* A step of main or of the loop by which the server is neither closed nor
\* started nor stopped.
LEMMA ServerUntouched ==
    ASSUME IndInv, Running, UNCHANGED <<gen, hs, stopped, req>>,
           loaded'.kind \notin {"bad", "panic"},
           pc' \in {"main", "serveFirst"} => pc \in {"main", "serveFirst"},
           pc \in Startup => pc' \in Startup \/ (pc = "watchFirst" /\ pc' = "select"),
           pc \notin Startup => pc' \notin Startup /\ pc' \notin {"stop", "serve", "shutdown"}
                                /\ pc \notin {"stop", "serve", "shutdown"},
           pc' = "watchFirst" => pc = "watchFirst"
    PROVE  ServeOK' /\ NoStaleAnswer' /\ BadConfigHarmless'
<1>1. ServeOK'
  BY DEF IndInv, ServeOK, Drained, Running, Startup, BadConfigHarmless
<1>2. NoStaleAnswer'
  BY DEF IndInv, NoStaleAnswer
<1>3. BadConfigHarmless'
  BY DEF IndInv, BadConfigHarmless, ServeOK, Running, Startup
<1> QED BY <1>1, <1>2, <1>3

\* The configuration that LoadConfig accepts.
LEMMA Accepted ==
    ASSUME IndInv, Loads
    PROVE  LET l == [ver |-> disk.ver, kind |-> disk.kind]
           IN  l \in [ver : 0 .. MaxVersion, kind : Kinds] /\ l.kind \notin {"bad", "panic"}
  BY Types, BoundsAssumption DEF Loads, Files

\* Main loads the configuration before anything watches it.
LEMMA LoadFirstStep == ASSUME IndInv, LoadFirst PROVE IndInv'
<1>1. /\ Running /\ pc = "main" /\ seen' = disk.ver
      /\ UNCHANGED <<disk, lastIno, watch, doomed, events, blind, watching, needRestart, gen, hs, stopped, bound,
                     req, signals, pending>>
      /\ \/ pc' = "serveFirst" /\ UNCHANGED exit /\ Loads
            /\ loaded' = [ver |-> disk.ver, kind |-> disk.kind]
         \/ pc' = "main" /\ exit' \in {"panic", "startup"} /\ UNCHANGED loaded
  BY DEF LoadFirst, At, ExitWith, fileVars, serverVars, signalVars
<1>2. loaded' \in [ver : 0 .. MaxVersion, kind : Kinds] /\ loaded'.kind \notin {"bad", "panic"}
  BY <1>1, Types, Accepted DEF IndInv, ServeOK
<1>3. TypeOK'
  BY <1>1, <1>2, Types DEF TypeOK, Ops, Labels, Files, Startup
<1>4. CountersOK'
  BY <1>1, Types DEF IndInv, CountersOK
<1>5. WatchOK'
  BY <1>1, Types DEF IndInv, WatchOK, RemovePending, Startup, NoFile
<1>6. ServeOK' /\ NoStaleAnswer' /\ BadConfigHarmless'
  BY <1>1, <1>2, ServerUntouched DEF Running, Startup
<1> QED BY <1>3, <1>4, <1>5, <1>6 DEF IndInv

\* ServeOnce, with no connection open: a new generation that nobody has
\* stopped, or the end of the process.
LEMMA ServeOnceStep ==
    ASSUME IndInv, ServeOnce, Running, pc \in {"serveFirst", "serve"}
    PROVE  /\ \/ gen' = gen + 1 /\ hs' \in {"up", "mute"} /\ UNCHANGED exit
              \/ exit' \in {"config", "address"} /\ UNCHANGED <<gen, hs>>
           /\ gen' \in Nat /\ gen <= gen' /\ hs' \in {"up", "mute", "closed"} /\ bound' \in BOOLEAN
           /\ hs' = "up" => gen' \notin stopped
           /\ Drained /\ hs = "closed" /\ exit' \in {"no", "config", "address"}
           /\ exit' = "no" => stopped = 1 .. (gen' - 1)
<1>1. \/ gen' = gen + 1 /\ hs' \in {"up", "mute"} /\ UNCHANGED exit
      \/ exit' \in {"config", "address"} /\ UNCHANGED <<gen, hs>>
  BY DEF ServeOnce, ServeFails, ServeGoroutine, ExitWith
<1>2. Drained /\ hs = "closed"
  BY DEF IndInv, ServeOK
<1>3. gen + 1 \notin stopped /\ gen \in Nat /\ (gen + 1) - 1 = gen
  BY Types
<1>4. stopped = 1 .. gen
  BY <1>3 DEF IndInv, ServeOK
<1>5. bound' \in BOOLEAN
  BY Types DEF ServeOnce, ServeFails, ServeGoroutine
<1> QED BY <1>1, <1>2, <1>3, <1>4, <1>5 DEF Running

\* Requests keep their types when generations are added.
LEMMA MoreGenerations ==
    ASSUME IndInv, gen' \in Nat, gen <= gen', UNCHANGED <<req, stopped>>
    PROVE  /\ stopped' \subseteq 1 .. gen'
           /\ req' \in [Requests -> [run : BOOLEAN, gen : 0 .. gen', open : BOOLEAN]]
<1>1. 1 .. gen \subseteq 1 .. gen' /\ 0 .. gen \subseteq 0 .. gen'
  BY Types
<1>2. [run : BOOLEAN, gen : 0 .. gen, open : BOOLEAN]
        \subseteq [run : BOOLEAN, gen : 0 .. gen', open : BOOLEAN]
  BY <1>1
<1> QED BY <1>1, <1>2, Types

\* Main's first ServeOnce makes the first generation.
LEMMA ServeFirstStep == ASSUME IndInv, ServeFirst PROVE IndInv'
<1>1. /\ Running /\ pc = "serveFirst" /\ pc' = "watchFirst" /\ ServeOnce
      /\ UNCHANGED <<disk, lastIno, watch, doomed, events, blind, watching, needRestart, loaded, seen, stopped,
                     req, signals, pending>>
  BY DEF ServeFirst, At, fileVars, signalVars
<1>2. /\ \/ gen' = gen + 1 /\ hs' \in {"up", "mute"} /\ UNCHANGED exit
         \/ exit' \in {"config", "address"} /\ UNCHANGED <<gen, hs>>
      /\ gen' \in Nat /\ gen <= gen' /\ hs' \in {"up", "mute", "closed"} /\ bound' \in BOOLEAN
      /\ hs' = "up" => gen' \notin stopped
      /\ Drained /\ hs = "closed" /\ exit' \in {"no", "config", "address"}
      /\ exit' = "no" => stopped = 1 .. (gen' - 1)
  BY <1>1, ServeOnceStep
<1>3. /\ stopped' \subseteq 1 .. gen'
      /\ req' \in [Requests -> [run : BOOLEAN, gen : 0 .. gen', open : BOOLEAN]]
  BY <1>1, <1>2, MoreGenerations
<1>4. TypeOK'
  BY <1>1, <1>2, <1>3, Types DEF TypeOK, Ops, Labels, Files, Startup
<1>5. CountersOK'
  BY <1>1, <1>2, Types DEF IndInv, CountersOK, Running
<1>6. WatchOK'
  BY <1>1, Types DEF IndInv, WatchOK, RemovePending, Startup, NoFile
<1>7. ServeOK'
  BY <1>1, <1>2 DEF IndInv, ServeOK, Running
<1>8. NoStaleAnswer'
  BY <1>1, <1>2 DEF NoStaleAnswer, Drained
<1>9. BadConfigHarmless'
  BY <1>1 DEF BadConfigHarmless, Startup
<1> QED BY <1>4, <1>5, <1>6, <1>7, <1>8, <1>9 DEF IndInv

\* The first w.Add: the watch is on the file that is there, or nothing is watched.
LEMMA WatchFirstStep == ASSUME IndInv, WatchFirst PROVE IndInv'
<1>1. /\ Running /\ pc = "watchFirst" /\ pc' = "select" /\ watch' = disk.ino
      /\ watching' = (disk.ino # NoFile)
      /\ UNCHANGED <<disk, lastIno, doomed, events, blind, needRestart, loaded, seen, gen, hs, stopped, bound,
                     req, signals, pending, exit>>
  BY DEF WatchFirst, At, Exists, serverVars, signalVars
<1>2. TypeOK'
  BY <1>1, Types DEF TypeOK, Ops, Labels, Files, Startup, IndInv, CountersOK
<1>3. CountersOK'
  BY <1>1, Types DEF IndInv, CountersOK, Running
<1>4. events = <<>>
  BY <1>1 DEF IndInv, WatchOK, Startup
<1>5. WatchOK'
  BY <1>1, <1>4, Types DEF IndInv, WatchOK, RemovePending, Startup, Noticed
<1>6. ServeOK' /\ NoStaleAnswer' /\ BadConfigHarmless'
  BY <1>1, ServerUntouched DEF Running, Startup, IndInv, ServeOK
<1> QED BY <1>2, <1>3, <1>5, <1>6 DEF IndInv

\* The one-second timer: the watch is set again, or the restart that is due begins.
LEMMA TimerStep == ASSUME IndInv, Timer PROVE IndInv'
<1>1. CASE TimerRewatch
  <2>1. /\ Running /\ pc = "select" /\ ~watching /\ watch' = disk.ino /\ disk.ino # NoFile
        /\ watching' = TRUE /\ needRestart' = TRUE
        /\ UNCHANGED <<disk, lastIno, doomed, events, blind, pc, loaded, seen, gen, hs, stopped, bound,
                       req, signals, pending, exit>>
    BY <1>1 DEF TimerRewatch, At, Exists, serverVars, signalVars
  <2>2. TypeOK'
    BY <2>1, Types DEF TypeOK, Ops, Labels, Files, IndInv, CountersOK
  <2>3. CountersOK'
    BY <2>1, Types DEF IndInv, CountersOK, Running
  <2>4. WatchOK'
    BY <2>1, Types DEF IndInv, WatchOK, RemovePending, Startup, Noticed
  <2>5. ServeOK' /\ NoStaleAnswer' /\ BadConfigHarmless'
    BY <2>1, ServerUntouched DEF Running, Startup, IndInv, ServeOK
  <2> QED BY <2>2, <2>3, <2>4, <2>5 DEF IndInv
<1>2. CASE TimerRestart
  <2>1. /\ Running /\ pc = "select" /\ watching /\ needRestart /\ pc' = "load"
        /\ UNCHANGED <<disk, lastIno, watch, doomed, events, blind, watching, needRestart, loaded, seen,
                       gen, hs, stopped, bound, req, signals, pending, exit>>
    BY <1>2 DEF TimerRestart, At, fileVars, serverVars, signalVars
  <2>2. TypeOK'
    BY <2>1, Types DEF TypeOK, Ops, Labels, Files
  <2>3. CountersOK'
    BY <2>1, Types DEF IndInv, CountersOK, Running
  <2>4. WatchOK'
    BY <2>1, Types DEF IndInv, WatchOK, RemovePending, Startup, Noticed
  <2>5. ServeOK' /\ NoStaleAnswer' /\ BadConfigHarmless'
    BY <2>1, ServerUntouched DEF Running, Startup, IndInv, ServeOK
  <2> QED BY <2>2, <2>3, <2>4, <2>5 DEF IndInv
<1> QED BY <1>1, <1>2 DEF Timer

\* An event is taken: a Remove was the last of its watch, a Write is due.
LEMMA TakeEventStep == ASSUME IndInv, TakeEvent PROVE IndInv'
<1>1. /\ Running /\ pc = "select" /\ events # <<>> /\ events' = Tail(events)
      /\ UNCHANGED <<disk, lastIno, doomed, blind, pc, loaded, seen, gen, hs, stopped, bound,
                     req, signals, pending, exit>>
      /\ \/ /\ events[1] = "remove" /\ watch' = NoFile /\ watching' = FALSE /\ needRestart' = FALSE
         \/ /\ events[1] # "remove" /\ UNCHANGED <<watch, watching>>
            /\ \/ events[1] = "write" /\ needRestart' = TRUE
               \/ events[1] # "write" /\ UNCHANGED needRestart
  BY Types, Taken DEF TakeEvent, At, serverVars, signalVars
<1>2. /\ events' \in Seq(Ops) /\ Len(events) \in Nat /\ Len(events) > 0
      /\ Len(events') = Len(events) - 1
      /\ DOMAIN events = 1 .. Len(events) /\ DOMAIN events' = 1 .. Len(events) - 1
      /\ \A i \in DOMAIN events' : events'[i] = events[i + 1]
      /\ Len(events) = 1 => events' = <<>>
      /\ Len(events) > 1 => events' # <<>>
  BY <1>1, Types, Taken
<1>3. watching
  BY <1>1 DEF IndInv, WatchOK
<1>4. TypeOK'
  <2>1. watch' \in 0 .. lastIno /\ watching' \in BOOLEAN /\ needRestart' \in BOOLEAN
    <3>1. watch' \in {0, watch}
      BY <1>1 DEF NoFile
    <3>2. watching' \in {FALSE, watching} /\ needRestart' \in {TRUE, FALSE, needRestart}
      BY ONLY <1>1, Zenon
    <3>3. watch' \in 0 .. lastIno
      BY <3>1, Types
    <3> QED BY ONLY <3>2, <3>3, IndInv, Types
  <2>2. /\ UNCHANGED <<disk, lastIno, doomed, blind, pc, loaded, seen, gen, hs, stopped, bound,
                       req, signals, pending, exit>>
    BY <1>1
  <2>3. events' \in Seq(Ops)
    BY <1>2
  <2> QED BY ONLY <2>1, <2>2, <2>3, IndInv, Types DEF TypeOK, Ops, Labels, Files
<1>5. CountersOK'
  BY <1>1, Types DEF IndInv, CountersOK, Running
<1>6. \A i \in DOMAIN events' : events'[i] = "remove" => i = Len(events')
  <2>1. \A i \in DOMAIN events' : i + 1 \in DOMAIN events /\ i \in Nat
    BY <1>2
  <2> QED BY <1>2, <2>1 DEF IndInv, WatchOK
<1>7. CASE events[1] = "remove"
  <2>1. Len(events) = 1
    BY <1>2, <1>7 DEF IndInv, WatchOK
  <2>2. WatchOK'
    BY <1>1, <1>2, <1>7, <2>1, Types DEF IndInv, WatchOK, Startup
  <2>3. ServeOK' /\ NoStaleAnswer' /\ BadConfigHarmless'
    BY <1>1, ServerUntouched DEF Running, Startup, IndInv, ServeOK
  <2> QED BY <1>4, <1>5, <2>2, <2>3 DEF IndInv
<1>8. CASE events[1] # "remove"
  <2>1. RemovePending' <=> RemovePending
    <3>1. CASE Len(events) = 1
      BY <1>2, <1>8, <3>1 DEF RemovePending
    <3>2. CASE Len(events) > 1
      BY <1>1, <1>2, <3>2 DEF RemovePending
    <3> QED BY <1>2, <3>1, <3>2
  <2>2. Noticed => Noticed'
    <3>1. ASSUME NEW i \in DOMAIN events, events[i] = "write", i # 1
          PROVE  \E j \in DOMAIN events' : events'[j] = "write"
      <4>1. i - 1 \in DOMAIN events' /\ events'[i - 1] = events[i]
        BY <1>2, <3>1
      <4> QED BY <3>1, <4>1
    <3> QED BY <1>1, <1>8, <3>1 DEF Noticed
  <2>3. WatchOK'
    BY <1>1, <1>3, <1>6, <1>8, <2>1, <2>2, Types DEF IndInv, WatchOK, Startup
  <2>4. ServeOK' /\ NoStaleAnswer' /\ BadConfigHarmless'
    BY <1>1, ServerUntouched DEF Running, Startup, IndInv, ServeOK
  <2> QED BY <1>4, <1>5, <2>3, <2>4 DEF IndInv
<1> QED BY <1>7, <1>8

\* MaybeRestart reads the file: whatever it finds, the present content is seen
\* and the server that runs goes on.
LEMMA MaybeRestartStep == ASSUME IndInv, MaybeRestart PROVE IndInv'
<1>1. /\ Running /\ pc = "load" /\ seen' = disk.ver /\ blind' = (blind /\ watch # disk.ino)
      /\ UNCHANGED <<disk, lastIno, watch, doomed, events, watching, gen, hs, stopped, bound, req, signals, pending>>
      /\ \/ pc' = "close" /\ UNCHANGED <<needRestart, exit>> /\ Loads
            /\ loaded' = [ver |-> disk.ver, kind |-> disk.kind]
         \/ pc' = "select" /\ needRestart' = FALSE /\ exit' \in {exit, "panic"} /\ UNCHANGED loaded
  BY DEF MaybeRestart, At, serverVars, signalVars
<1>2. loaded' \in [ver : 0 .. MaxVersion, kind : Kinds] /\ loaded'.kind \notin {"bad", "panic"}
  BY <1>1, Types, Accepted DEF IndInv, ServeOK
<1>3. /\ pc' \in Labels /\ needRestart' \in BOOLEAN /\ blind' \in BOOLEAN /\ pc' \in {"close", "select"}
      /\ exit' \in {"no", "startup", "panic", "config", "address", "signal", "killed"}
  BY <1>1, Types DEF Labels, Running
<1>4. UNCHANGED <<disk, lastIno, watch, doomed, events, watching, gen, hs, stopped, bound, req, signals, pending>>
  BY <1>1
<1>5. TypeOK'
  BY ONLY <1>2, <1>3, <1>4, IndInv, Types DEF TypeOK, Ops, Labels, Files
<1>6. CountersOK'
  BY <1>1, Types DEF IndInv, CountersOK, Running
<1>7. watching
  BY <1>1 DEF IndInv, WatchOK
<1>8. WatchOK'
  BY <1>1, <1>3, <1>4, <1>7, Types DEF IndInv, WatchOK, RemovePending, Startup, Noticed
<1>9. ServeOK' /\ NoStaleAnswer' /\ BadConfigHarmless'
  BY <1>1, <1>2, <1>3, <1>4, ServerUntouched DEF Running, Startup
<1> QED BY <1>5, <1>6, <1>8, <1>9 DEF IndInv

\* A step that touches neither the file nor the watch.
LEMMA WatchUntouched ==
    ASSUME IndInv, UNCHANGED <<disk, lastIno, watch, doomed, events, blind, watching, seen>>,
           needRestart' = needRestart \/ seen = disk.ver \/ pc \notin {"select", "load", "shutdown"},
           pc' \in {"load", "close", "stop", "serve"} => pc \in {"load", "close", "stop", "serve"},
           pc' \in Startup => pc' = pc,
           pc \in {"select", "load", "shutdown"} => pc' \in {"select", "load", "shutdown"}
    PROVE  WatchOK'
<1>1. RemovePending' <=> RemovePending
  BY DEF RemovePending
<1>2. Noticed => Noticed'
  BY DEF Noticed
<1> QED BY <1>1, <1>2 DEF IndInv, WatchOK, Startup

\* Hs.Close cuts off the clients of the generation that goes.
LEMMA CloseStep == ASSUME IndInv, Close PROVE IndInv'
<1>1. /\ Running /\ pc = "close" /\ pc' = "stop" /\ hs' = "closed"
      /\ req' = [r \in Requests |-> CloseAll(req[r])]
      /\ UNCHANGED <<disk, lastIno, watch, doomed, events, blind, watching, needRestart, loaded, seen, gen,
                     stopped, bound, signals, pending, exit>>
  BY DEF Close, At, fileVars, signalVars
<1>2. \A r \in Requests : /\ req'[r] \in [run : BOOLEAN, gen : 0 .. gen, open : BOOLEAN]
                          /\ ~req'[r].open
  <2>1. SUFFICES ASSUME NEW r \in Requests
                 PROVE  LET c == CloseAll(req[r])
                        IN  c \in [run : BOOLEAN, gen : 0 .. gen, open : BOOLEAN] /\ ~c.open
    BY <1>1
  <2>2. req[r] \in [run : BOOLEAN, gen : 0 .. gen, open : BOOLEAN]
    BY Types
  <2> QED BY ONLY <2>2 DEF CloseAll
<1>3. req' \in [Requests -> [run : BOOLEAN, gen : 0 .. gen, open : BOOLEAN]]
  <2>1. req' = [r \in Requests |-> req'[r]]
    BY ONLY <1>1
  <2> QED BY ONLY <1>2, <2>1
<1>4. pc' \in Labels /\ hs' \in {"up", "mute", "closed"}
  BY <1>1 DEF Labels
<1>5. TypeOK'
  BY ONLY <1>1, <1>3, <1>4, IndInv, Types DEF TypeOK, Ops, Labels, Files
<1>6. CountersOK'
  BY <1>1, Types DEF IndInv, CountersOK, Running
<1>7. WatchOK'
  BY <1>1, WatchUntouched DEF Startup
<1>8. Drained'
  BY <1>2 DEF Drained
<1>9. ServeOK' /\ NoStaleAnswer' /\ BadConfigHarmless'
  BY <1>1, <1>2, <1>8 DEF IndInv, ServeOK, NoStaleAnswer, BadConfigHarmless, Running
<1> QED BY <1>5, <1>6, <1>7, <1>9 DEF IndInv

\* AuthServer.Stop, on a generation that has no client any more.
LEMMA StopStep == ASSUME IndInv, Stop PROVE IndInv'
<1>1. /\ Running /\ pc = "stop" /\ pc' = "serve" /\ stopped' = stopped \cup {gen}
      /\ UNCHANGED <<disk, lastIno, watch, doomed, events, blind, watching, needRestart, loaded, seen, gen,
                     hs, bound, req, signals, pending, exit>>
  BY DEF Stop, At, fileVars, signalVars
<1>2. Drained /\ hs = "closed" /\ gen > 0
  BY <1>1 DEF IndInv, ServeOK, CountersOK
<1>3. stopped' \subseteq 1 .. gen /\ pc' \in Labels
  BY <1>1, <1>2, Types DEF Labels
<1>4. TypeOK'
  BY ONLY <1>1, <1>3, IndInv, Types DEF TypeOK, Ops, Labels, Files
<1>5. CountersOK'
  BY <1>1, Types DEF IndInv, CountersOK, Running
<1>6. WatchOK'
  BY <1>1, WatchUntouched DEF Startup
<1>7. ServeOK' /\ NoStaleAnswer' /\ BadConfigHarmless'
  <2>1. stopped = 1 .. (gen - 1) /\ gen \in Nat
    BY <1>1, Types DEF IndInv, ServeOK
  <2>2. stopped' = 1 .. gen'
    BY <1>1, <1>2, <2>1
  <2> QED BY <1>1, <1>2, <2>2 DEF IndInv, ServeOK, NoStaleAnswer, BadConfigHarmless, Running, Drained
<1> QED BY <1>4, <1>5, <1>6, <1>7 DEF IndInv

\* ServeOnce in MaybeRestart makes the next generation, or ends the process.
LEMMA ServeAgainStep == ASSUME IndInv, ServeAgain PROVE IndInv'
<1>1. /\ Running /\ pc = "serve" /\ pc' = "select" /\ needRestart' = FALSE /\ ServeOnce
      /\ UNCHANGED <<disk, lastIno, watch, doomed, events, blind, watching, loaded, seen, stopped,
                     req, signals, pending>>
  BY DEF ServeAgain, At, fileVars, signalVars
<1>2. /\ \/ gen' = gen + 1 /\ hs' \in {"up", "mute"} /\ UNCHANGED exit
         \/ exit' \in {"config", "address"} /\ UNCHANGED <<gen, hs>>
      /\ gen' \in Nat /\ gen <= gen' /\ hs' \in {"up", "mute", "closed"} /\ bound' \in BOOLEAN
      /\ hs' = "up" => gen' \notin stopped
      /\ Drained /\ hs = "closed" /\ exit' \in {"no", "config", "address"}
      /\ exit' = "no" => stopped = 1 .. (gen' - 1)
  BY <1>1, ServeOnceStep
<1>3. /\ stopped' \subseteq 1 .. gen'
      /\ req' \in [Requests -> [run : BOOLEAN, gen : 0 .. gen', open : BOOLEAN]]
  BY <1>1, <1>2, MoreGenerations
<1>4. TypeOK'
  BY <1>1, <1>2, <1>3, Types DEF TypeOK, Ops, Labels, Files
<1>5. CountersOK'
  BY <1>1, <1>2, Types DEF IndInv, CountersOK, Running
<1>6. WatchOK'
  BY <1>1, WatchUntouched DEF Startup
<1>7. ServeOK'
  BY <1>1, <1>2 DEF IndInv, ServeOK, Running
<1>8. NoStaleAnswer'
  BY <1>1, <1>2 DEF NoStaleAnswer, Drained
<1>9. BadConfigHarmless'
  BY <1>1, <1>2 DEF IndInv, ServeOK, BadConfigHarmless, Running
<1> QED BY <1>4, <1>5, <1>6, <1>7, <1>8, <1>9 DEF IndInv

----------------------------------------------------------------------------
(* Shutdown, requests and signals *)

LEMMA TakeSignalStep == ASSUME IndInv, TakeSignal PROVE IndInv'
<1>1. /\ Running /\ pc = "select" /\ pc' = "shutdown" /\ pending' = FALSE /\ hs' = "closed"
      /\ UNCHANGED <<disk, lastIno, watch, doomed, events, blind, watching, needRestart, loaded, seen, gen,
                     stopped, bound, req, signals, exit>>
  BY DEF TakeSignal, At, fileVars
<1>2. pc' \in Labels /\ pending' \in BOOLEAN /\ hs' \in {"up", "mute", "closed"}
  BY <1>1 DEF Labels
<1>3. TypeOK'
  BY ONLY <1>1, <1>2, IndInv, Types DEF TypeOK, Ops, Labels, Files
<1>4. CountersOK'
  BY <1>1, Types DEF IndInv, CountersOK, Running
<1>5. WatchOK'
  BY <1>1, WatchUntouched DEF Startup
<1>6. ServeOK' /\ NoStaleAnswer' /\ BadConfigHarmless'
  BY <1>1 DEF IndInv, ServeOK, NoStaleAnswer, BadConfigHarmless, Running
<1> QED BY <1>3, <1>4, <1>5, <1>6 DEF IndInv

\* Shutdown returns when no request is left, and main ends.
LEMMA ShutdownEndsStep == ASSUME IndInv, ShutdownEnds PROVE IndInv'
<1>1. /\ Running /\ pc = "shutdown" /\ Drained /\ stopped' = stopped \cup {gen} /\ exit' = "signal"
      /\ UNCHANGED <<disk, lastIno, watch, doomed, events, blind, pc, watching, needRestart, loaded, seen, gen,
                     hs, bound, req, signals, pending>>
  BY DEF ShutdownEnds, At, ExitWith, fileVars, loopVars, signalVars
<1>2. hs = "closed" /\ gen > 0
  BY <1>1 DEF IndInv, ServeOK, CountersOK
<1>3. stopped' \subseteq 1 .. gen /\ exit' \in {"no", "startup", "panic", "config", "address", "signal", "killed"}
  BY <1>1, <1>2, Types
<1>4. TypeOK'
  BY ONLY <1>1, <1>3, IndInv, Types DEF TypeOK, Ops, Labels, Files
<1>5. CountersOK'
  BY <1>1, Types DEF IndInv, CountersOK, Running
<1>6. WatchOK'
  BY <1>1, WatchUntouched DEF Startup
<1>7. ServeOK' /\ NoStaleAnswer' /\ BadConfigHarmless'
  BY <1>1, <1>2 DEF IndInv, ServeOK, NoStaleAnswer, BadConfigHarmless, Running, Drained
<1> QED BY <1>4, <1>5, <1>6, <1>7 DEF IndInv

\* A step of a handler: only req changes.
LEMMA RequestUpdate ==
    ASSUME IndInv, Running, UNCHANGED <<fileVars, loopVars, serverVars, signalVars, exit>>,
           NEW r \in Requests, NEW q \in [run : BOOLEAN, gen : 0 .. gen, open : BOOLEAN],
           req' = [req EXCEPT ![r] = q],
           q.run /\ q.open => hs = "up" /\ q.gen = gen
    PROVE  IndInv'
<1>1. UNCHANGED <<disk, lastIno, watch, doomed, events, blind, pc, watching, needRestart, loaded, seen, gen,
                  hs, stopped, bound, signals, pending, exit>>
  BY DEF fileVars, loopVars, serverVars, signalVars
<1>2. /\ req' \in [Requests -> [run : BOOLEAN, gen : 0 .. gen, open : BOOLEAN]]
      /\ \A s \in Requests : req'[s] = IF s = r THEN q ELSE req[s]
  BY Types
<1>3. TypeOK'
  BY ONLY <1>1, <1>2, IndInv, Types DEF TypeOK, Ops, Labels, Files
<1>4. CountersOK'
  BY <1>1, Types DEF IndInv, CountersOK, Running
<1>5. WatchOK'
  BY <1>1, WatchUntouched DEF Startup
<1>6. ServeOK'
  BY <1>1, <1>2 DEF IndInv, ServeOK, Running, Drained
<1>7. NoStaleAnswer'
  BY <1>1, <1>2 DEF IndInv, ServeOK, NoStaleAnswer, Running
<1>8. BadConfigHarmless'
  BY <1>1 DEF IndInv, BadConfigHarmless, Running
<1> QED BY <1>3, <1>4, <1>5, <1>6, <1>7, <1>8 DEF IndInv

\* A request is accepted by the current generation, or answered by its own.
LEMMA RequestStep == ASSUME IndInv, NEW r \in Requests, Accept(r) \/ Answer(r) PROVE IndInv'
<1>1. CASE Accept(r)
  <2> DEFINE q == [run |-> TRUE, gen |-> gen, open |-> TRUE]
  <2>1. q \in [run : BOOLEAN, gen : 0 .. gen, open : BOOLEAN] /\ q.gen = gen
    BY Types
  <2>2. Running /\ hs = "up" /\ req' = [req EXCEPT ![r] = q]
        /\ UNCHANGED <<fileVars, loopVars, serverVars, signalVars, exit>>
    BY <1>1 DEF Accept
  <2> HIDE DEF q
  <2> QED BY <2>1, <2>2, RequestUpdate
<1>2. CASE Answer(r)
  <2>1. Idle \in [run : BOOLEAN, gen : 0 .. gen, open : BOOLEAN] /\ ~Idle.run
    BY Types DEF Idle
  <2>2. Running /\ req' = [req EXCEPT ![r] = Idle]
        /\ UNCHANGED <<fileVars, loopVars, serverVars, signalVars, exit>>
    BY <1>2 DEF Answer
  <2> QED BY <2>1, <2>2, RequestUpdate
<1> QED BY <1>1, <1>2

\* A signal is remembered until the loop takes it, or ends the process where
\* nobody is notified of it.
LEMMA SignalStep == ASSUME IndInv, Signal PROVE IndInv'
<1>1. /\ Running /\ signals > 0 /\ signals' = signals - 1
      /\ \/ exit' = "killed" /\ UNCHANGED pending
         \/ pending' = TRUE /\ UNCHANGED exit
      /\ UNCHANGED <<disk, lastIno, watch, doomed, events, blind, pc, watching, needRestart, loaded, seen, gen,
                     hs, stopped, bound, req>>
  BY DEF Signal, ExitWith, fileVars, loopVars, serverVars
<1>2. /\ pending' \in BOOLEAN /\ exit' \in {"no", "killed"} /\ signals' \in Nat
      /\ exit' \in {"no", "startup", "panic", "config", "address", "signal", "killed"}
  <2>1. signals' \in Nat
    BY <1>1, Types
  <2>2. exit = "no"
    BY <1>1 DEF Running
  <2>3. exit' \in {"no", "killed"} /\ pending' \in {TRUE, pending}
    BY ONLY <1>1, <2>2, Zenon
  <2> QED BY ONLY <2>1, <2>3, IndInv, Types
<1>3. UNCHANGED <<disk, lastIno, watch, doomed, events, blind, pc, watching, needRestart, loaded, seen, gen,
                  hs, stopped, bound, req>>
  BY <1>1
<1>4. TypeOK'
  BY ONLY <1>2, <1>3, IndInv, Types DEF TypeOK, Ops, Labels, Files
<1>5. CountersOK'
  BY <1>1, <1>2, <1>3, Types DEF IndInv, CountersOK, Running
<1>6. WatchOK'
  BY <1>3, WatchUntouched DEF Startup
<1>7. ServeOK' /\ NoStaleAnswer' /\ BadConfigHarmless'
  BY <1>1, <1>2, <1>3 DEF IndInv, ServeOK, NoStaleAnswer, BadConfigHarmless, Running, Drained
<1> QED BY <1>4, <1>5, <1>6, <1>7 DEF IndInv

\* The collector closes a listener that no server of this process uses.
LEMMA CollectStep == ASSUME IndInv, Collect PROVE IndInv'
<1>1. bound' = FALSE
      /\ UNCHANGED <<disk, lastIno, watch, doomed, events, blind, pc, watching, needRestart, loaded, seen,
                     gen, hs, stopped, req, signals, pending, exit>>
  BY DEF Collect, fileVars, loopVars, signalVars
<1>2. TypeOK' /\ CountersOK'
  <2>1. bound' \in BOOLEAN
    BY <1>1
  <2>2. TypeOK'
    BY ONLY <1>1, <2>1, IndInv, Types DEF TypeOK, Ops, Labels, Files
  <2>3. CountersOK'
    BY <1>1 DEF IndInv, CountersOK, Running
  <2> QED BY <2>2, <2>3
<1>3. WatchOK'
  BY <1>1, WatchUntouched DEF Startup
<1>4. ServeOK' /\ NoStaleAnswer' /\ BadConfigHarmless'
  BY <1>1 DEF IndInv, ServeOK, NoStaleAnswer, BadConfigHarmless, Running, Drained
<1> QED BY <1>2, <1>3, <1>4 DEF IndInv

----------------------------------------------------------------------------
(* The theorems *)

LEMMA Initially == Init => IndInv
<1> SUFFICES ASSUME Init PROVE IndInv
  OBVIOUS
<1>1. PICK kind \in Kinds : disk = [ino |-> 1, ver |-> 1, kind |-> kind]
  BY DEF Init
<1>2. disk \in Files /\ disk.ino = 1 /\ disk.ver = 1
  BY <1>1, BoundsAssumption DEF Files
<1>3. /\ lastIno = 1 /\ watch = 0 /\ doomed = 0 /\ bound = FALSE /\ events = <<>> /\ blind = FALSE
      /\ pc = "main" /\ watching = FALSE /\ needRestart = FALSE /\ seen = 0
      /\ gen = 0 /\ hs = "closed" /\ stopped = {} /\ signals = MaxSignals /\ pending = FALSE /\ exit = "no"
  BY DEF Init, NoFile
<1>4. /\ req \in [Requests -> [run : BOOLEAN, gen : 0 .. gen, open : BOOLEAN]]
      /\ \A r \in Requests : ~req[r].run
  BY <1>3 DEF Init, Idle
<1>5. loaded \in [ver : 0 .. MaxVersion, kind : Kinds] /\ loaded.kind \notin {"bad", "panic"}
  BY BoundsAssumption DEF Init, Kinds
<1>6. TypeOK
  <2>1. events \in Seq({"write", "remove", "rename"})
    BY <1>3
  <2>2. watch \in 0 .. lastIno /\ doomed \in 0 .. lastIno /\ stopped \subseteq 1 .. gen
    BY <1>3
  <2> QED BY ONLY <1>2, <1>3, <1>4, <1>5, <2>1, <2>2 DEF TypeOK, Files, Startup
<1>7. CountersOK
  BY <1>2, <1>3, BoundsAssumption DEF CountersOK
<1>8. WatchOK
  BY <1>2, <1>3 DEF WatchOK, NoFile, Startup
<1>9. ServeOK /\ NoStaleAnswer /\ BadConfigHarmless
  BY <1>3, <1>4, <1>5 DEF ServeOK, Drained, NoStaleAnswer, BadConfigHarmless, Startup
<1> QED BY <1>6, <1>7, <1>8, <1>9 DEF IndInv

\* Every step of the process and of its surroundings keeps IndInv.
LEMMA Inductive == IndInv /\ [Next]_vars => IndInv'
<1> SUFFICES ASSUME IndInv, [Next]_vars PROVE IndInv'
  OBVIOUS
<1>1. CASE FileChanges
  BY <1>1, FileChangesStep
<1>2. CASE Loop
  BY <1>2, LoadFirstStep, ServeFirstStep, WatchFirstStep, MaybeRestartStep, CloseStep, StopStep,
     ServeAgainStep, ShutdownEndsStep DEF Loop
<1>3. CASE Timer
  BY <1>3, TimerStep
<1>4. CASE TakeEvent
  BY <1>4, TakeEventStep
<1>5. CASE TakeSignal
  BY <1>5, TakeSignalStep
<1>6. CASE Signal
  BY <1>6, SignalStep
<1>7. CASE \E r \in Requests : Accept(r) \/ Answer(r)
  BY <1>7, RequestStep
<1>8. CASE Collect
  BY <1>8, CollectStep
<1>9. CASE UNCHANGED vars
  <2>1. UNCHANGED <<disk, lastIno, watch, doomed, events, blind, pc, watching, needRestart, loaded, seen, gen,
                    hs, stopped, bound, req, signals, pending, exit>>
    BY <1>9 DEF vars, fileVars, loopVars, serverVars, signalVars
  <2>2. TypeOK' /\ CountersOK'
    BY <2>1 DEF IndInv, TypeOK, CountersOK, Running
  <2>3. WatchOK'
    BY <2>1, WatchUntouched DEF Startup
  <2>4. ServeOK' /\ NoStaleAnswer' /\ BadConfigHarmless'
    BY <2>1 DEF IndInv, ServeOK, NoStaleAnswer, BadConfigHarmless, Running, Drained
  <2> QED BY <2>2, <2>3, <2>4 DEF IndInv
<1> QED BY <1>1, <1>2, <1>3, <1>4, <1>5, <1>6, <1>7, <1>8, <1>9 DEF Next

\* IndInv holds throughout.
LEMMA Invariant == Spec => []IndInv
<1> QED BY Initially, Inductive, PTL DEF Spec

\* The process of main.go and its surroundings keep their types: in particular
\* a request is served by, and Stop is called on, a generation that ServeOnce
\* made.
THEOREM TypeCorrect == Spec => []TypeOK
<1>1. IndInv => TypeOK
  BY DEF IndInv
<1> QED BY <1>1, Invariant, PTL

\* However often the file is written, replaced, deleted and made anew, and in
\* whatever order WatchConfig's loop sees the events: once it has nothing to do
\* it has read the content that is there and watches the file that is there,
\* or the change was one its events do not tell of, or it still watches the file
\* that a ConfigMap's swap has left behind, whose deletion will tell.
THEOREM Updates == Spec => []NoLostUpdate
<1>1. IndInv => NoLostUpdate
  <2> SUFFICES ASSUME IndInv, pc = "select", watching, ~needRestart, events = <<>>, ~blind
               PROVE  \/ disk.ino # NoFile /\ watch = disk.ino /\ seen = disk.ver
                      \/ doomed # NoFile /\ watch = doomed
    BY DEF NoLostUpdate, At, Exists
  <2>1. ~RemovePending
    BY DEF RemovePending
  <2>2. watch # NoFile
    BY <2>1 DEF IndInv, WatchOK
  <2>3. watch = disk.ino \/ watch = doomed
    BY <2>2 DEF IndInv, WatchOK
  <2>4. watch = disk.ino => Noticed
    BY <2>2 DEF IndInv, WatchOK
  <2>5. DOMAIN events = {}
    OBVIOUS
  <2> QED BY <2>2, <2>3, <2>4, <2>5 DEF Noticed
<1> QED BY <1>1, Invariant, PTL

\* With any number of requests in flight and any number of reloads, a client
\* whose connection MaybeRestart has not closed is served by the current
\* generation, whose Stop was not called.
THEOREM NoStale == Spec => []NoStaleAnswer
<1>1. IndInv => NoStaleAnswer
  BY DEF IndInv
<1> QED BY <1>1, Invariant, PTL

\* After any number of reloads every AuthServer but the current one has been
\* stopped, each exactly once: no authenticator, authorizer or plugin of an old
\* configuration is left running and none is stopped while it may be used.
THEOREM InTurn == Spec => []StopsInTurn
<1>1. IndInv => StopsInTurn
  BY Types DEF IndInv, ServeOK, StopsInTurn
<1> QED BY <1>1, Invariant, PTL

\* No content of the file closes the running server but one LoadConfig accepts.
THEOREM Harmless == Spec => []BadConfigHarmless
<1>1. IndInv => BadConfigHarmless
  BY DEF IndInv
<1> QED BY <1>1, Invariant, PTL
=============================================================================
