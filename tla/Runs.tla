--------------------------------- MODULE Runs ---------------------------------
(***************************************************************************)
(* A run of the server (pkgs/uml-eval/uml_eval/server.py): the child       *)
(* process, the watcher that follows its events.jsonl and pushes what      *)
(* matters, the monitors that connect to hear the same (pkgs/uml/uml/      *)
(* monitor.py), and whoever stops it.  Runs share nothing, so one is       *)
(* modelled.  The server is one event loop; the child is another process,  *)
(* which may write and exit between any two of its steps.                  *)
(***************************************************************************)
EXTENDS Integers, Sequences

CONSTANTS Monitor,      \* the clients of monitor.sock
          Stopper,      \* the requests to stop the run
          MaxEvents     \* bounds the events before the verdict

ASSUME MaxEventsAssumption == MaxEvents \in Nat

VARIABLES child,        \* the run's process
          file,         \* events.jsonl: the events channel_event knows
          watch,        \* the await _watch is in
          seen,         \* the lines the file had when read() asked its size
          tailed,       \* the lines read
          batch,        \* the lines read and not yet looked at
          finished,     \* run.finished
          backlog,      \* run.backlog
          watchers,     \* run.watchers, by whose they are
          conn,         \* where each monitor's connection is
          copy,         \* what _monitor copied of the backlog and has not sent
          inbox,        \* what was pushed to the monitor since
          printed,      \* what the monitor printed, while it is connected
          code,         \* its exit status
          stopping,     \* where each request to stop is
          server

childVars == <<child, file>>
watchVars == <<watch, seen, tailed, batch, finished, backlog>>
monitorVars == <<watchers, conn, copy, inbox, printed, code>>
stopVars == <<stopping, server>>
vars == <<childVars, watchVars, monitorVars, stopVars>>

Progress == {"progress", "paused", "failed"}
Verdict == {"passed run", "failed run"}     \* "run_finished"
Terminal == Verdict \cup {"exited"}
Event == Progress \cup Terminal

TypeOK ==
    /\ child \in {"running", "ending", "closing", "killed", "exited"}
    /\ file \in Seq(Progress \cup Verdict)
    /\ watch \in {"stat", "read", "push", "sleep", "last", "over"}
    /\ seen \in Nat /\ tailed \in Nat
    /\ batch \in Seq(Progress \cup Verdict) /\ finished \in BOOLEAN
    /\ backlog \in Seq(Event)
    /\ watchers \subseteq Monitor
    /\ conn \in [Monitor -> {"away", "on", "closed"}]
    /\ copy \in [Monitor -> Seq(Event)] /\ inbox \in [Monitor -> Seq(Event)]
    /\ printed \in [Monitor -> Seq(Event)]
    /\ code \in [Monitor -> {-1, 0, 1, 2, 3}]
    /\ stopping \in [Stopper -> {"idle", "wait", "over"}]
    /\ server \in {"up", "stopping", "down"}

\* Runs.start: the child is there and the socket is bound.
Init ==
    /\ child = "running" /\ file = <<>>
    /\ watch = "stat" /\ seen = 0 /\ tailed = 0 /\ batch = <<>> /\ finished = FALSE
    /\ backlog = <<>> /\ watchers = {}
    /\ conn = [m \in Monitor |-> "away"]
    /\ copy = [m \in Monitor |-> <<>>] /\ inbox = [m \in Monitor |-> <<>>]
    /\ printed = [m \in Monitor |-> <<>>] /\ code = [m \in Monitor |-> -1]
    /\ stopping = [s \in Stopper |-> "idle"] /\ server = "up"

\* `run.process.returncode is not None'
Exited == child = "exited"

-----------------------------------------------------------------------------
(* The child: an evaluation and then a drive. *)

ChildSays(e) ==
    /\ child = "running" /\ Len(file) < MaxEvents
    /\ file' = Append(file, e)
    /\ UNCHANGED <<child, watchVars, monitorVars, stopVars>>

\* Nothing is left to run.
ChildEnds ==
    /\ child = "running"
    /\ child' = "ending"
    /\ UNCHANGED <<file, watchVars, monitorVars, stopVars>>

\* write_output, and then teardown.
ChildVerdict(v) ==
    /\ child = "ending"
    /\ child' = "closing"
    /\ file' = Append(file, v)
    /\ UNCHANGED <<watchVars, monitorVars, stopVars>>

ChildExits ==
    /\ child \in {"closing", "killed"}
    /\ child' = "exited"
    /\ UNCHANGED <<file, watchVars, monitorVars, stopVars>>

\* An evaluation that fails, a crash.
ChildCrashes ==
    /\ child \in {"running", "ending"}
    /\ child' = "exited"
    /\ UNCHANGED <<file, watchVars, monitorVars, stopVars>>

\* SIGINT ends a run; a run that is ending may be cut short (Drive).
Interrupted ==
    child' \in CASE child = "running" -> {"ending"}
                 [] child \in {"ending", "closing"} -> {child, "exited"}
                 [] OTHER -> {child}

-----------------------------------------------------------------------------
(* The watcher. *)

\* push, up to its await: the backlog, and every monitor that is there.
Push(e) ==
    /\ backlog' = Append(backlog, e)
    /\ inbox' = [m \in Monitor |-> IF m \in watchers THEN Append(inbox[m], e) ELSE inbox[m]]

\* Seeded bugs: the verdict is not remembered, or a run that died is not told.
LookForgetting(lines) ==
    IF lines # <<>>
      THEN /\ Push(Head(lines)) /\ watch' = "push"
           /\ batch' = Tail(lines) /\ UNCHANGED finished
    ELSE IF ~ Exited THEN watch' = "sleep" /\ batch' = <<>> /\ UNCHANGED <<finished, backlog, inbox>>
    ELSE IF finished THEN watch' = "over" /\ batch' = <<>> /\ UNCHANGED <<finished, backlog, inbox>>
    ELSE Push("exited") /\ watch' = "last" /\ batch' = <<>> /\ UNCHANGED finished

LookSilently(lines) ==
    IF lines # <<>>
      THEN /\ Push(Head(lines)) /\ watch' = "push"
           /\ batch' = Tail(lines) /\ finished' = (finished \/ Head(lines) \in Verdict)
    ELSE /\ watch' = IF Exited THEN "over" ELSE "sleep"
         /\ batch' = <<>> /\ UNCHANGED <<finished, backlog, inbox>>

\* _watch goes on with these lines: each is pushed; with none left it looks
\* whether the child has exited, and if it did without a verdict says so.
Look(lines) ==
    IF lines # <<>>
      THEN /\ Push(Head(lines)) /\ watch' = "push"
           /\ batch' = Tail(lines) /\ finished' = (finished \/ Head(lines) \in Verdict)
    ELSE IF ~ Exited THEN watch' = "sleep" /\ batch' = <<>> /\ UNCHANGED <<finished, backlog, inbox>>
    ELSE IF finished THEN watch' = "over" /\ batch' = <<>> /\ UNCHANGED <<finished, backlog, inbox>>
    ELSE Push("exited") /\ watch' = "last" /\ batch' = <<>> /\ UNCHANGED finished

\* Tail.read asks the file's size, in a thread.
WatchStat ==
    /\ watch = "stat"
    /\ watch' = "read" /\ seen' = Len(file)
    /\ UNCHANGED <<childVars, tailed, batch, finished, backlog, monitorVars, stopVars>>

\* It has read up to there.
WatchRead ==
    /\ watch = "read"
    /\ tailed' = seen
    /\ Look(SubSeq(file, tailed + 1, seen))
    /\ UNCHANGED <<childVars, seen, watchers, conn, copy, printed, code, stopVars>>

\* The channel took what was pushed.
Pushed ==
    /\ watch = "push"
    /\ Look(batch)
    /\ UNCHANGED <<childVars, seen, tailed, watchers, conn, copy, printed, code, stopVars>>

PushedLast ==
    /\ watch = "last" /\ watch' = "over"
    /\ UNCHANGED <<childVars, seen, tailed, batch, finished, backlog, monitorVars, stopVars>>

WatchAgain ==
    /\ watch = "sleep" /\ watch' = "stat"
    /\ UNCHANGED <<childVars, seen, tailed, batch, finished, backlog, monitorVars, stopVars>>

-----------------------------------------------------------------------------
(* The monitors. *)

\* Seeded bug: the backlog is copied, and the monitor not registered.
ConnectUnheard(m) ==
    /\ server # "down" /\ conn[m] = "away"
    /\ conn' = [conn EXCEPT ![m] = "on"]
    /\ copy' = [copy EXCEPT ![m] = backlog]
    /\ UNCHANGED <<childVars, watchVars, watchers, inbox, printed, code, stopVars>>

\* No await between the copy and the append.
Connect(m) ==
    /\ server # "down" /\ conn[m] = "away"
    /\ conn' = [conn EXCEPT ![m] = "on"]
    /\ copy' = [copy EXCEPT ![m] = backlog]
    /\ watchers' = watchers \cup {m}
    /\ UNCHANGED <<childVars, watchVars, inbox, printed, code, stopVars>>

\* The streams of these monitors are closed, and their tasks are over.
Close(ms) ==
    /\ conn' = [m \in Monitor |-> IF m \in ms THEN "closed" ELSE conn[m]]
    /\ watchers' = watchers \ ms
    /\ copy' = [m \in Monitor |-> IF m \in ms THEN <<>> ELSE copy[m]]
    /\ inbox' = [m \in Monitor |-> IF m \in ms THEN <<>> ELSE inbox[m]]
    /\ printed' = [m \in Monitor |-> IF m \in ms THEN <<>> ELSE printed[m]]

Status(e) == CASE e = "passed run" -> 0 [] e = "failed run" -> 1 [] e = "exited" -> 2 [] OTHER -> -1

\* The backlog and then the inbox, one event at a time; the monitor prints
\* it, and both ends close after a terminal one.
Send(m) ==
    /\ conn[m] = "on" /\ copy[m] \o inbox[m] # <<>>
    /\ LET e == Head(copy[m] \o inbox[m])
       IN  /\ code' = [code EXCEPT ![m] = Status(e)]
           /\ IF e \in Terminal THEN Close({m})
              ELSE /\ printed' = [printed EXCEPT ![m] = Append(@, e)]
                   /\ copy' = [copy EXCEPT ![m] = IF @ = <<>> THEN @ ELSE Tail(@)]
                   /\ inbox' = [inbox EXCEPT ![m] = IF copy[m] = <<>> THEN Tail(@) ELSE @]
                   /\ UNCHANGED <<conn, watchers>>
    /\ UNCHANGED <<childVars, watchVars, stopVars>>

\* The monitor went away first; that ends only its own stream.
Leave(m) ==
    /\ conn[m] = "on"
    /\ Close({m})
    /\ UNCHANGED <<childVars, watchVars, code, stopVars>>

-----------------------------------------------------------------------------
(* Stopping. *)

\* _stop: SIGINT, unless it has exited.
Stop(s) ==
    /\ server = "up" /\ stopping[s] = "idle"
    /\ IF Exited THEN stopping' = [stopping EXCEPT ![s] = "over"] /\ UNCHANGED child
                 ELSE stopping' = [stopping EXCEPT ![s] = "wait"] /\ Interrupted
    /\ UNCHANGED <<file, watchVars, monitorVars, server>>

\* It exited within a minute, or is killed; nobody waits for it after that.
StopOver(s) ==
    /\ stopping[s] = "wait"
    /\ stopping' = [stopping EXCEPT ![s] = "over"]
    /\ child' = IF Exited THEN child ELSE "killed"
    /\ UNCHANGED <<file, watchVars, monitorVars, server>>

\* The server's client left: stop_all, shielded.
ServerEnds ==
    /\ server = "up"
    /\ server' = "stopping"
    /\ IF Exited THEN UNCHANGED child ELSE Interrupted
    /\ UNCHANGED <<file, watchVars, monitorVars, stopping>>

\* Then every task is cancelled, and a monitor's stream ends without a verdict.
ServerDown ==
    /\ server = "stopping"
    /\ server' = "down"
    /\ child' = IF Exited THEN child ELSE "killed"
    /\ watch' = "over"
    /\ Close(Monitor)
    /\ code' = [m \in Monitor |-> IF conn[m] = "on" THEN 3 ELSE code[m]]
    /\ stopping' = [s \in Stopper |-> "over"]
    /\ UNCHANGED <<file, seen, tailed, batch, finished, backlog>>

-----------------------------------------------------------------------------

WatchSteps == WatchStat \/ WatchRead \/ Pushed \/ PushedLast \/ WatchAgain

Done == watch = "over" /\ Exited /\ UNCHANGED vars

Next ==
    \/ \E e \in Progress : ChildSays(e)
    \/ \E v \in Verdict : ChildVerdict(v)
    \/ ChildEnds \/ ChildExits \/ ChildCrashes
    \/ WatchSteps
    \/ \E m \in Monitor : Connect(m) \/ Send(m) \/ Leave(m)
    \/ \E s \in Stopper : Stop(s) \/ StopOver(s)
    \/ ServerEnds \/ ServerDown \/ Done

\* The server's tasks run; a stop is over in a minute; a run that is ending
\* ends.  No run has to end by itself: it may be paused.
Fairness ==
    /\ WF_vars(WatchSteps) /\ WF_vars(ServerDown) /\ WF_vars(ChildExits)
    /\ WF_vars(\E v \in Verdict : ChildVerdict(v))
    /\ \A m \in Monitor : WF_vars(Send(m))
    /\ \A s \in Stopper : WF_vars(StopOver(s))

Spec == Init /\ [][Next]_vars /\ Fairness

-----------------------------------------------------------------------------

\* "No event falls between" (_monitor): whenever a monitor connects, what it
\* printed and what is still to be sent to it is the run's backlog, each
\* event once and in order.
NothingMissed ==
    \A m \in Monitor : conn[m] = "on" => printed[m] \o copy[m] \o inbox[m] = backlog

\* "The events after which a run sends nothing more" (monitor.TERMINAL): a run
\* has one verdict, and no event after it.
VerdictLast ==
    \A i \in 1..Len(backlog) : backlog[i] \in Terminal => i = Len(backlog)

\* Why these hold.  A verdict is the last line of the file, and the run is past
\* writing another.
VerdictEndsFile ==
    \A i \in 1..Len(file) : file[i] \in Verdict =>
        i = Len(file) /\ child \notin {"running", "ending"}

\* What was read and not yet looked at is the end of what was read of the file.
BatchIsRead ==
    /\ Len(batch) <= tailed /\ tailed <= seen /\ seen <= Len(file)
    /\ \A i \in 1..Len(batch) : batch[i] = file[tailed - Len(batch) + i]
    /\ watch \notin {"push", "over"} => batch = <<>>

\* Once the verdict is pushed there is nothing more to look at.
FinishedIsAll ==
    finished => /\ tailed = Len(file) /\ batch = <<>>
                /\ file # <<>> /\ file[Len(file)] \in Verdict

\* A terminal event is pushed when the watcher has done.
OpenUntilDone ==
    ~ finished /\ watch \notin {"last", "over"} =>
        \A i \in 1..Len(backlog) : backlog[i] \notin Terminal

\* A monitor is registered while it is connected, and only then.
RegisteredIsOn ==
    \A m \in Monitor :
        /\ m \in watchers <=> conn[m] = "on"
        /\ conn[m] # "on" => copy[m] = <<>> /\ inbox[m] = <<>> /\ printed[m] = <<>>

Watched == VerdictEndsFile /\ BatchIsRead /\ FinishedIsAll /\ OpenUntilDone /\ VerdictLast
Heard == RegisteredIsOn /\ NothingMissed

\* The inductive invariant: the types, how far the watcher is through the file,
\* and who hears of it.
Inv == TypeOK /\ Watched /\ Heard

\* Whoever is connected hears how a run that has exited ended, or that the
\* server did; nobody is left waiting on an open stream.
EveryoneTold ==
    \A m \in Monitor : Exited /\ conn[m] = "on" ~> conn[m] = "closed"

\* "2 exited with no verdict: a crash or an evaluation error" (monitor.status):
\* a monitor that is told so follows a run that wrote no verdict.
NoFalseExit ==
    \A m \in Monitor : code[m] = 2 => \A i \in DOMAIN file : file[i] \notin Verdict

=============================================================================
