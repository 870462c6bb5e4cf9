---------------------------- MODULE ConfigReload ----------------------------
(***************************************************************************)
(* The process of auth_server/main.go: it serves the configuration it      *)
(* loaded, watches the file with fsnotify, restarts the server when the    *)
(* file changes and shuts down on a signal.  The file system, the          *)
(* notifications and net/http are modelled from how main.go uses them.     *)
(*                                                                         *)
(* A configuration is a version of the file's content and its kind, which  *)
(* module LoadConfig finds out: "ok"; "bad" (LoadConfig refuses it);       *)
(* "panic" (LoadConfig panics: an ACL entry without match); "fatal"        *)
(* (LoadConfig accepts it and ServeOnce ends the process, as for a TLS     *)
(* version that is no number); "mute" (ServeOnce returns, and ServeTLS     *)
(* fails in its goroutine, which drops the error).                         *)
(* Each restart makes a new generation of the server.                      *)
(***************************************************************************)
EXTENDS Integers, Sequences

CONSTANTS
    Requests,   \* HTTP requests that may be in flight at a time
    MaxVersion, \* bound: how often the file's content changes
    MaxSignals  \* bound: how many stop signals are sent

ASSUME BoundsAssumption == MaxVersion \in Nat \ {0} /\ MaxSignals \in Nat

VARIABLES
    disk,        \* the file at the path: [ino, ver, kind]; ino 0: no file
    lastIno,     \* the last inode number used
    watch,       \* the inode the kernel watches, 0 for none
    doomed,      \* the inode a ConfigMap's swap has left to be deleted, 0 for none
    events,      \* events on their way to w.Events
    blind,       \* history: a change happened that causes no event main.go acts on
    pc,          \* where main or WatchConfig's loop is
    watching, needRestart,
    loaded,      \* the configuration the last successful LoadConfig returned
    seen,        \* the version the last LoadConfig read
    gen,         \* the current generation of rs.hs and rs.authServer
    hs,          \* rs.hs: "up", "closed", or "mute" when its goroutine has failed
    stopped,     \* generations whose AuthServer.Stop was called
    bound,       \* the listener of a mute server, which hs never knew, is still open
    req,         \* per request: running, its generation, its connection open
    signals,     \* stop signals that can still be sent
    pending,     \* a signal is in the channel stopSignals
    exit         \* why the process ended, "no" while it runs

fileVars   == <<disk, lastIno, watch, doomed, events, blind>>
loopVars   == <<pc, watching, needRestart, loaded, seen>>
serverVars == <<gen, hs, stopped, bound>>
signalVars == <<signals, pending>>
vars       == <<fileVars, loopVars, serverVars, req, signalVars, exit>>

Kinds   == {"ok", "bad", "panic", "fatal", "mute"}
NoFile  == 0
Idle    == [run |-> FALSE, gen |-> 0, open |-> FALSE]
Startup == {"main", "serveFirst", "watchFirst"}

Init ==
    /\ \E kind \in Kinds : disk = [ino |-> 1, ver |-> 1, kind |-> kind]
    /\ lastIno = 1 /\ watch = NoFile /\ doomed = NoFile /\ events = <<>> /\ blind = FALSE
    /\ pc = "main" /\ watching = FALSE /\ needRestart = FALSE
    /\ loaded = [ver |-> 0, kind |-> "ok"] /\ seen = 0
    /\ gen = 0 /\ hs = "closed" /\ stopped = {} /\ bound = FALSE
    /\ req = [r \in Requests |-> Idle]
    /\ signals = MaxSignals /\ pending = FALSE /\ exit = "no"

Running == exit = "no"
At(label) == Running /\ pc = label

----------------------------------------------------------------------------
(* The file system and fsnotify *)

Exists == disk.ino # NoFile

\* A change before the first w.Add, of content that main has read, is unseen.
InGap == pc \in Startup \ {"main"}

\* The content changes in place.
Write(kind) ==
    /\ Running /\ Exists /\ disk.ver < MaxVersion
    /\ disk' = [ino |-> disk.ino, ver |-> disk.ver + 1, kind |-> kind]
    /\ events' = IF watch = disk.ino THEN Append(events, "write") ELSE events
    /\ blind' = (blind \/ InGap)
    /\ UNCHANGED <<lastIno, watch, doomed, loopVars, serverVars, req, signalVars, exit>>

\* The inode at the path is unlinked: a watch on it ends with a Remove event.
Unlinked ==
    IF watch = disk.ino
    THEN watch' = NoFile /\ events' = Append(events, "remove")
    ELSE UNCHANGED <<watch, events>>

\* Another file is renamed over the path.
Replace(kind) ==
    /\ Running /\ Exists /\ disk.ver < MaxVersion
    /\ disk' = [ino |-> lastIno + 1, ver |-> disk.ver + 1, kind |-> kind]
    /\ lastIno' = lastIno + 1
    /\ Unlinked
    /\ blind' = (blind \/ InGap)
    /\ UNCHANGED <<doomed, loopVars, serverVars, req, signalVars, exit>>

\* A ConfigMap's update: the symlink on the way to the file is swapped, which
\* the watch on the old inode does not see; the old directory is deleted later.
Swap(kind) ==
    /\ Running /\ Exists /\ doomed = NoFile /\ disk.ver < MaxVersion
    /\ disk' = [ino |-> lastIno + 1, ver |-> disk.ver + 1, kind |-> kind]
    /\ lastIno' = lastIno + 1
    /\ doomed' = disk.ino
    /\ blind' = (blind \/ InGap)
    /\ UNCHANGED <<watch, events, loopVars, serverVars, req, signalVars, exit>>
DeleteOld ==
    /\ Running /\ doomed # NoFile
    /\ doomed' = NoFile
    /\ IF watch = doomed
       THEN watch' = NoFile /\ events' = Append(events, "remove")
       ELSE UNCHANGED <<watch, events>>
    /\ UNCHANGED <<disk, lastIno, blind, loopVars, serverVars, req, signalVars, exit>>

Delete ==
    /\ Running /\ Exists
    /\ disk' = [disk EXCEPT !.ino = NoFile]
    /\ Unlinked
    /\ UNCHANGED <<lastIno, doomed, blind, loopVars, serverVars, req, signalVars, exit>>

\* The file is moved away; the watch stays with its inode, which is blind to
\* whatever takes the path next.
RenameAway ==
    /\ Running /\ Exists
    /\ disk' = [disk EXCEPT !.ino = NoFile]
    /\ events' = IF watch = disk.ino THEN Append(events, "rename") ELSE events
    /\ blind' = (blind \/ watch = disk.ino)
    /\ UNCHANGED <<lastIno, watch, doomed, loopVars, serverVars, req, signalVars, exit>>

\* The file that was moved away is deleted.
DeleteMoved ==
    /\ Running /\ watch # NoFile /\ watch # disk.ino /\ watch # doomed
    /\ watch' = NoFile
    /\ events' = Append(events, "remove")
    /\ UNCHANGED <<disk, lastIno, doomed, blind, loopVars, serverVars, req, signalVars, exit>>

Create(kind) ==
    /\ Running /\ ~Exists /\ disk.ver < MaxVersion
    /\ disk' = [ino |-> lastIno + 1, ver |-> disk.ver + 1, kind |-> kind]
    /\ lastIno' = lastIno + 1
    /\ blind' = (blind \/ InGap)
    /\ UNCHANGED <<watch, doomed, events, loopVars, serverVars, req, signalVars, exit>>

FileChanges ==
    \/ \E kind \in Kinds : Write(kind) \/ Replace(kind) \/ Swap(kind) \/ Create(kind)
    \/ Delete \/ RenameAway \/ DeleteMoved \/ DeleteOld

----------------------------------------------------------------------------
(* main and ServeOnce *)

LoadsUnvalidated == Exists
Loads == Exists /\ disk.kind \notin {"bad", "panic"}
Panics == Exists /\ disk.kind = "panic"
ExitWith(why) == exit' = why

\* main: LoadConfig, or Exitf.
LoadFirst ==
    /\ At("main")
    /\ seen' = disk.ver
    /\ IF Loads
       THEN /\ loaded' = [ver |-> disk.ver, kind |-> disk.kind]
            /\ pc' = "serveFirst"
            /\ UNCHANGED exit
       ELSE /\ ExitWith(IF Panics THEN "panic" ELSE "startup")
            /\ UNCHANGED <<loaded, pc>>
    /\ UNCHANGED <<fileVars, watching, needRestart, serverVars, req, signalVars>>

\* ServeOnce: a new generation serves, unless the configuration is fatal or a
\* listener that nobody closed still has its address.  The error of its
\* goroutine is dropped, and with it the listener, for hs.Close to miss.
ServeGoroutine ==
    /\ hs' = IF loaded.kind = "mute" THEN "mute" ELSE "up"
    /\ bound' = (bound \/ loaded.kind = "mute")
ServeFails ==
    \/ loaded.kind = "fatal" /\ ExitWith("config") /\ UNCHANGED <<gen, hs, bound>>
    \/ loaded.kind # "fatal" /\ bound /\ ExitWith("address") /\ UNCHANGED <<gen, hs, bound>>
ServeOnceStale ==
    \/ ServeFails
    \/ loaded.kind # "fatal" /\ ServeGoroutine /\ UNCHANGED <<gen, exit>>
ServeOnce ==
    \/ ServeFails
    \/ loaded.kind # "fatal" /\ gen' = gen + 1 /\ ServeGoroutine /\ UNCHANGED exit

\* The lost listener's finalizer closes it, if the collector runs in time.
Collect ==
    /\ Running /\ bound
    /\ bound' = FALSE
    /\ UNCHANGED <<fileVars, loopVars, gen, hs, stopped, req, signalVars, exit>>

ServeFirst ==
    /\ At("serveFirst")
    /\ ServeOnce
    /\ pc' = "watchFirst"
    /\ UNCHANGED <<fileVars, watching, needRestart, loaded, seen, stopped, req, signalVars>>

\* WatchConfig: the first w.Add.
WatchFirst ==
    /\ At("watchFirst")
    /\ watch' = disk.ino
    /\ watching' = Exists
    /\ pc' = "select"
    /\ UNCHANGED <<disk, lastIno, doomed, events, blind, needRestart, loaded, seen,
                   serverVars, req, signalVars, exit>>

----------------------------------------------------------------------------
(* WatchConfig's loop *)

\* The timer fires and the file is not watched: w.Add, if the file is there.
\* It may have changed while it was not watched.
TimerRewatchForgetful ==
    /\ At("select") /\ ~watching /\ Exists
    /\ watch' = disk.ino
    /\ watching' = TRUE
    /\ UNCHANGED <<disk, lastIno, doomed, events, blind, pc, needRestart, loaded, seen,
                   serverVars, req, signalVars, exit>>
TimerRewatch ==
    /\ At("select") /\ ~watching /\ Exists
    /\ watch' = disk.ino
    /\ watching' = TRUE /\ needRestart' = TRUE
    /\ UNCHANGED <<disk, lastIno, doomed, events, blind, pc, loaded, seen,
                   serverVars, req, signalVars, exit>>

\* The timer fires and a change is due: MaybeRestart.
TimerRestart ==
    /\ At("select") /\ watching /\ needRestart
    /\ pc' = "load"
    /\ UNCHANGED <<fileVars, watching, needRestart, loaded, seen, serverVars, req,
                   signalVars, exit>>

\* An event of w.Events; operations other than Remove and Write are ignored.
TakeEventBuggy ==
    /\ At("select") /\ events # <<>>
    /\ events' = Tail(events)
    /\ IF Head(events) = "write" THEN needRestart' = TRUE ELSE UNCHANGED needRestart
    /\ UNCHANGED <<disk, lastIno, watch, doomed, watching, blind, pc, loaded, seen,
                   serverVars, req, signalVars, exit>>
TakeEvent ==
    /\ At("select") /\ events # <<>>
    /\ events' = Tail(events)
    /\ CASE Head(events) = "remove" ->
              watch' = NoFile /\ watching' = FALSE /\ needRestart' = FALSE
         [] Head(events) = "write" ->
              needRestart' = TRUE /\ UNCHANGED <<watch, watching>>
         [] OTHER -> UNCHANGED <<watch, watching, needRestart>>
    /\ UNCHANGED <<disk, lastIno, doomed, blind, pc, loaded, seen, serverVars, req,
                   signalVars, exit>>

\* MaybeRestart: LoadConfig; a configuration it refuses leaves the server alone.
MaybeRestart ==
    /\ At("load")
    /\ seen' = disk.ver
    /\ blind' = (blind /\ watch # disk.ino)
    /\ IF Loads
       THEN /\ loaded' = [ver |-> disk.ver, kind |-> disk.kind]
            /\ pc' = "close"
            /\ UNCHANGED <<needRestart, exit>>
       ELSE /\ pc' = "select" /\ needRestart' = FALSE
            /\ exit' = IF Panics THEN "panic" ELSE exit
            /\ UNCHANGED loaded
    /\ UNCHANGED <<disk, lastIno, watch, doomed, events, watching, serverVars, req, signalVars>>

\* rs.hs.Close(): the listener and every connection are closed; handlers go on.
\* It is one step: since Go 1.19 Close waits, between the listeners and the
\* connections, until Serve has returned, and Serve tracks what it accepts
\* before that, so no connection is missed.  A mute server's listener is none
\* of hs's.
CloseNone(r) == r
CloseAll(r) == [r EXCEPT !.open = FALSE]
Close ==
    /\ At("close")
    /\ hs' = "closed"
    /\ req' = [r \in Requests |-> CloseAll(req[r])]
    /\ pc' = "stop"
    /\ UNCHANGED <<fileVars, watching, needRestart, loaded, seen, gen, stopped,
                   bound, signalVars, exit>>

\* rs.authServer.Stop().
StopForgotten ==
    /\ At("stop")
    /\ pc' = "serve"
    /\ UNCHANGED <<fileVars, watching, needRestart, loaded, seen, serverVars, req,
                   signalVars, exit>>
Stop ==
    /\ At("stop")
    /\ stopped' = stopped \cup {gen}
    /\ pc' = "serve"
    /\ UNCHANGED <<fileVars, watching, needRestart, loaded, seen, gen, hs, bound, req,
                   signalVars, exit>>

ServeAgain ==
    /\ At("serve")
    /\ ServeOnce
    /\ pc' = "select" /\ needRestart' = FALSE
    /\ UNCHANGED <<fileVars, watching, loaded, seen, stopped, req, signalVars>>

\* A stop signal: Shutdown closes the listener and waits for the connections.
TakeSignal ==
    /\ At("select") /\ pending
    /\ pending' = FALSE
    /\ hs' = "closed"
    /\ pc' = "shutdown"
    /\ UNCHANGED <<fileVars, watching, needRestart, loaded, seen, gen, stopped,
                   bound, req, signals, exit>>

\* Every connection of rs.hs is idle: Shutdown returns, Stop and Exitf follow.
Drained == \A r \in Requests : ~(req[r].run /\ req[r].open)
ShutdownEnds ==
    /\ At("shutdown")
    /\ Drained
    /\ stopped' = stopped \cup {gen}
    /\ ExitWith("signal")
    /\ UNCHANGED <<fileVars, loopVars, gen, hs, bound, req, signalVars>>

----------------------------------------------------------------------------
(* Requests and signals *)

Accept(r) ==
    /\ Running /\ hs = "up" /\ ~req[r].run
    /\ req' = [req EXCEPT ![r] = [run |-> TRUE, gen |-> gen, open |-> TRUE]]
    /\ UNCHANGED <<fileVars, loopVars, serverVars, signalVars, exit>>

\* The handler ends; the client gets its answer if the connection is open.
Answer(r) ==
    /\ Running /\ req[r].run
    /\ req' = [req EXCEPT ![r] = Idle]
    /\ UNCHANGED <<fileVars, loopVars, serverVars, signalVars, exit>>

\* SIGTERM or SIGINT.  The channel holds one; before signal.Notify and after
\* signal.Stop the default action ends the process.
Signal ==
    /\ Running /\ signals > 0
    /\ signals' = signals - 1
    /\ \/ pc \in Startup \cup {"shutdown"} /\ ExitWith("killed") /\ UNCHANGED pending
       \/ pc \notin {"main", "serveFirst", "shutdown"} /\ pending' = TRUE /\ UNCHANGED exit
    /\ UNCHANGED <<fileVars, loopVars, serverVars, req>>

Loop == \/ LoadFirst \/ ServeFirst \/ WatchFirst
        \/ MaybeRestart \/ Close \/ Stop \/ ServeAgain \/ ShutdownEnds
Timer == TimerRewatch \/ TimerRestart

Next ==
    \/ FileChanges \/ Loop \/ Timer \/ TakeEvent \/ TakeSignal \/ Signal \/ Collect
    \/ \E r \in Requests : Accept(r) \/ Answer(r)

Spec == Init /\ [][Next]_vars

\* The loop's goroutine runs, its select takes every ready case in time, and
\* handlers end; whoever swaps a ConfigMap's files deletes the old ones; nobody
\* has to change the file or send a signal.
FairSpec ==
    /\ Spec
    /\ WF_vars(Loop) /\ SF_vars(Timer) /\ SF_vars(TakeEvent) /\ SF_vars(TakeSignal)
    /\ WF_vars(DeleteOld) /\ \A r \in Requests : WF_vars(Answer(r))

----------------------------------------------------------------------------
(* Properties *)

\* Every variable of main.go and of its surroundings keeps its type; a request
\* is served by, and Stop was called on, a generation that exists.
TypeOK ==
    /\ disk \in [ino : 0 .. MaxVersion, ver : 1 .. MaxVersion, kind : Kinds]
    /\ watch \in 0 .. lastIno /\ doomed \in 0 .. lastIno
    /\ events \in Seq({"write", "remove", "rename"})
    /\ pc \in Startup \cup {"select", "load", "close", "stop", "serve", "shutdown"}
    /\ watching \in BOOLEAN /\ needRestart \in BOOLEAN /\ pending \in BOOLEAN
    /\ blind \in BOOLEAN /\ bound \in BOOLEAN
    /\ hs \in {"up", "mute", "closed"}
    /\ loaded \in [ver : 0 .. MaxVersion, kind : Kinds]
    /\ stopped \subseteq 1 .. gen
    /\ req \in [Requests -> [run : BOOLEAN, gen : 0 .. gen, open : BOOLEAN]]
    /\ exit \in {"no", "startup", "panic", "config", "address", "signal", "killed"}

\* No update of the file is lost: when WatchConfig's loop has nothing to do it
\* watches the file that is at the path and has read its present content,
\* unless the change was one the loop has no eyes for (before the first w.Add,
\* or a file moved away, whose event it ignores); a swapped ConfigMap has it
\* watch the old file, whose deletion is due and will tell.
NoLostUpdate ==
    At("select") /\ watching /\ ~needRestart /\ events = <<>> /\ ~blind =>
        \/ Exists /\ watch = disk.ino /\ seen = disk.ver
        \/ doomed # NoFile /\ watch = doomed

\* A client that still has its connection is served by the current generation,
\* whose plugins and authenticators were not stopped: once MaybeRestart has
\* begun to serve the new configuration, no answer made under an old one
\* reaches anybody.
NoStaleAnswer ==
    \A r \in Requests : req[r].run /\ req[r].open =>
        req[r].gen = gen /\ gen \notin stopped

\* Every AuthServer that a restart has replaced was stopped, and once: while the
\* process runs, the current one was not, except between Stop and ServeOnce
\* inside MaybeRestart.
StopsInTurn ==
    Running => 1 .. (gen - 1) \subseteq stopped /\ (gen \in stopped => pc = "serve")

\* What the comments on Authenticator.Stop and Authorizer.Stop promise: no
\* request is in flight when Stop is called, nor is one made later.
StopContract ==
    \A r \in Requests : req[r].run => req[r].gen \notin stopped

\* A file that LoadConfig refuses, however it got to the path, never takes the
\* running server down: it is closed only to serve a configuration that was
\* accepted or to exit on a signal, and is not left closed when the loop resumes.
BadConfigHarmless ==
    Running /\ pc \notin Startup =>
        /\ hs # "closed" \/ pc \in {"stop", "serve", "shutdown"}
        /\ loaded.kind \notin {"bad", "panic"}

\* What MaybeRestart logs, "server not restarted" for a configuration it finds
\* wrong and "Config ok" for the others: once the server is up, no change of the
\* file leaves the process dead or deaf.
ReloadSurvives ==
    /\ exit \in {"panic", "config", "address"} => gen = 0
    /\ At("select") /\ gen > 1 => hs = "up"

\* In the end the loop serves what is in the file (a version LoadConfig refuses
\* is read, and the last good one stays), unless it is blind, the file is gone,
\* or the process has ended.
Converges ==
    <>[](Running /\ Exists /\ ~blind =>
           seen = disk.ver /\ (disk.kind = "ok" => hs = "up" /\ loaded.ver = disk.ver))

----------------------------------------------------------------------------
(* The inductive invariant behind the safety properties *)

\* Every inode at the path came with a version of its own, and a server that
\* can be stopped has been started.
CountersOK ==
    /\ lastIno \in Nat /\ disk.ino <= lastIno /\ lastIno <= disk.ver
    /\ gen \in Nat /\ seen \in Nat /\ signals \in Nat
    /\ Running /\ pc \notin {"main", "serveFirst"} => gen > 0

\* A Remove event is on its way, the last one there will be of its watch.
RemovePending == events # <<>> /\ events[Len(events)] = "remove"

\* The loop has read the present content or will be told, or tell itself, to.
Noticed ==
    \/ seen = disk.ver
    \/ \E i \in DOMAIN events : events[i] = "write"
    \/ needRestart /\ pc \in {"select", "load", "shutdown"}

\* While the loop takes its file to be watched, the watch is on the file at the
\* path and every change is noticed, or the end of the watch is on its way.
WatchOK ==
    /\ ~watching => watch = NoFile /\ events = <<>>
    /\ watching => (watch = NoFile <=> RemovePending)
    /\ \A i \in DOMAIN events : events[i] = "remove" => i = Len(events)
    /\ watch # NoFile /\ watch # disk.ino => blind \/ watch = doomed
    /\ doomed # NoFile => doomed # disk.ino
    /\ watch # NoFile /\ watch = disk.ino /\ ~blind => Noticed
    /\ pc \in {"load", "close", "stop", "serve"} => watching
    /\ pc \in {"serveFirst", "watchFirst"} /\ ~blind => seen = disk.ver
    /\ pc \in Startup => ~watching

\* No request is accepted from the Close of a server to the start of the next,
\* and none that was accepted before keeps its connection.
ServeOK ==
    /\ pc \in {"main", "serveFirst", "stop", "serve", "shutdown"} => hs = "closed"
    /\ pc \in {"main", "serveFirst", "stop", "serve"} => Drained
    /\ hs = "up" => gen \notin stopped
    /\ Running /\ pc = "watchFirst" => hs # "closed"
    /\ Running /\ pc = "serve" => stopped = 1 .. gen
    /\ Running /\ pc # "serve" => stopped = 1 .. (gen - 1)
    /\ pc \in {"main", "serveFirst"} => gen = 0
    /\ loaded.kind \notin {"bad", "panic"}

IndInv ==
    /\ TypeOK /\ CountersOK /\ WatchOK /\ ServeOK
    /\ NoStaleAnswer /\ BadConfigHarmless
=============================================================================
