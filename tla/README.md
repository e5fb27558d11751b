# Formal model of the test runner

TLA+ modules, TLC configurations and TLAPS proofs for the program in `src/`: a
runner that boots a handful of guests (User-Mode Linux or QEMU), runs a graph
of *phases* against them, writes down what happened and puts them away. All
paths below are under `src/`; `uml/` stands for `pkgs/uml/uml/`, `runner/` for
`pkgs/uml-runner/uml_runner/`.

## 1. The system

| component | source | state it keeps | operations | talks to |
|---|---|---|---|---|
| phase rules | `uml/phases.py` | none: pure functions of the list of phases and their states | `dependents`, `skipped_by`, `runnable`, `ready`, `claims`, `launchable`, `passed` | called by the session and the scheduler |
| session | `uml/session.py` | `state`, `running` (the phase holding each guest), `errors`, `cases`, journals and tails, captures | `boot`, `run`, `drain`, `settle`, `follow`, `write_output`, `teardown` | machines, journal tails, sinks |
| scheduler and drive | `uml/cli.py` | tasks in flight, `failed` since the last pause, `paused_before`, one event | `run`, `drive`, `_sequence`, `_schedule` | session, controller |
| controller | `uml/control.py` | `_resume`, `_continuing`, a console namespace | `pause`, one request per connection: `state`, `exec`, `inject`, `pytest`, `run`, `continue` | session, clients on a Unix socket |
| journal | `uml/journal.py` | one `Tail` (file, offset, remainder) per guest | `read`, `split`, the token of `settle` | files the guests write |
| guest JUnit | `uml/junit_in.py` | files already read with their mtime (in the session) | `parse` | session |
| events and sinks | `uml/events.py`, `uml/sinks.py` | per sink: open files; `Junit`: the events it will make a document of | `emit`, `close`, `junit` | session |
| pytest plugin | `uml/pytest_plugin.py` | the outcomes of one pytest run | the hooks that call `begin_case`, `end_case` and report each test | session, pytest |
| agent protocol | `runner/arpyc.py`, `runner/agent.py` | pending requests by number, a closed flag, a reader task | `call`, `serve`, `close` | machine, guest agent |
| machine | `runner/machine.py` | process, helpers, both ends of the agent's socketpair, the connection, directories | `start`, `_ask`, `crash`, `wait`, `shutdown` | agent protocol, management console, backends |
| backends | `runner/backend.py` | none: what a launch made is handed to the machine | `launch` for UML, QEMU and containers, `die_with_parent` | machine, forwards |
| containers | `runner/container.py` | the launcher process: crun, the console, pasta, the tap relay | `main`, `_relay`, `probe` | backends |
| forwards | `runner/forward.py` | none: `taken` is the caller's | `resolve`, `probe`, `to_args`, `reachable` | machine, passt |
| guest network | `runner/net.py` | per segment: socketpairs and the hub's ports | `start`, `_flood`, `detach`, `close` | session, harness |
| cluster | `runner/cluster.py` | none on the host | Kubernetes helpers that poll a guest | machine |
| harness | `runner/harness.py` | as a session, for one test function | `machines`, `run_test` | machine, guest network |
| management console | `runner/mconsole.py`, `qmp.py` | a datagram socket, a request in flight | `request`, `log`, `halt` | machine |
| run server | `pkgs/uml-eval/uml_eval/server.py` | a table of runs, a watcher for each, channel subscribers | `start`, `wait`, `tail`, `stop`, the monitor | spawns `uml` processes, follows their `events.jsonl` |
| monitor | `uml/monitor.py` | its connection | `follow`, the exit status | a run's `monitor.sock` |
| passt bridge | `pkgs/uml-passt-bridge/src/main.rs` | two buffers | copy frames both ways | tap, passt |
| Nix modules | `modules/`, `lib.nix` | none | evaluate, sort and validate a spec | produce the JSON `uml run` reads |

A run is one process and one asyncio event loop. `drive` opens a task group for
the controller and the drive itself; `_schedule` opens one for the phases; each
control connection is a task. They share the session's tables with no lock:
the code's safety rests on *where its awaits are*.

### What is hard here

* **Interleaving.** Phases on disjoint guests run at once and end in any order.
  A client reaches into the same guests from its own task.
* **State read before an await and used after it.** A phase is chosen from the
  states, then drains, then is marked running (`session.py:632`). A request
  asks whether the drive is paused, then awaits its code (`control.py:279`).
* **Ordering.** The pause ends after the reply to its `continue`, through a flag
  all clients share. An event object is replaced after each wake-up.
* **Partial failure.** A cancel may find a phase in any of four awaits; a
  client that goes away cancels the drive, and `follow` with it; the end of the
  sequence is shielded from one sort of cancel and not from the other; a spawn can
  be cancelled while it is under way, and a shutdown can raise.
* **Timeouts.** `settle`, agent calls and console requests give up, and the
  answer may still come.
* **Processes.** A guest is three to five host processes under each backend, any
  of which may die at any time, some of which no signal of the runner reaches;
  the runner itself may be killed and run no cleanup.
* **One of a thing for many.** One `sys.stdout`, one current case and one set of
  host ports are shared by phases and guests that do not know of each other.

`PROJECT.json` lists each of these as a hazard at its line, with the property
that covers it or the module of the plan that will.

### What makes each component correct

* *Phase rules:* a failure takes with it exactly what depends on it; nothing
  starts before its dependencies have an answer; two phases started together
  never want one guest.
* *Session:* a guest is attributed to exactly the phase that runs on it; an
  answer stands; after the run no phase is left "running".
* *Scheduler and drive:* everything that can run does, in order; breakpoints
  come where asked for; the drive ends, and its evidence is written and its
  guests are down whatever ended it.
* *Controller:* client code is on the guests only while no phase is; only a
  `continue` ends a pause.
* *Journal:* every entry is delivered once and to the phase that made it.
* *Agent protocol and machine:* a reply answers the call it belongs to or none;
  who waits for a guest that is gone is told; shutdown and crash end and leave no
  process that they can reach, and no file of a guest that had come up; a guest does
  not outlive its runner.
* *Output:* what is printed, sent or found in a guest's JUnit file belongs to the
  phase it came from; `junit.xml` says what `phases.json` says.
* *Forwards and segment:* no two guests take each other's ports on the addresses they
  were given, no rule stands in its own way, the ports a guest says it answers on are
  the ones it has, and a full or dead port of a segment stalls nobody.
* *Run server:* a run that ended has one verdict, and stopping one that is
  ending is harmless.

## 2. Modules

| module | models | composed of |
|---|---|---|
| `Phases` | the pure functions of `phases.py`, written as what they return | |
| `PhaseLoops` | the two loops of `phases.py` (`dependents`, `launchable`) step by step | extends `Phases` |
| `Session` | `Session.run` as a task with four awaits, and the tables it shares | extends `Phases` |
| `Control` | `Controller.pause` and the life of one client's request | extends `Session` |
| `Schedule` | `_schedule`: one turn of the loop between its awaits | extends `Control` |
| `Drive` | `_sequence` and `drive`: boot to teardown, cancels and faults; the specification and its properties | extends `Schedule` |
| `RunContract` | the abstract specification: what a run promises, with no scheduler, await or socket | instanced by `Drive` |
| `Journal` | the guests' logs, their `Tail`s, `drain` under its lock, `settle` and its token, `follow` | |
| `Runs` | one run of the run server: the child, `_watch`, the monitors, `_stop`, the server's end | |
| `Rpc` | calls to a guest's agent over one channel: numbers, `_pending`, deadlines, close | |
| `Processes` | the host processes of a guest under each backend, and what signals do to them | |
| `Guest` | one `Machine` from start to the end of its shutdown, its crash, the death of the runner | extends `Processes`, `Rpc` |
| `Output` | the one stdout, the one case, the guests' JUnit files and the document made of the events, while phases overlap | |
| `Forward` | `forward.py` as operators, and how passt reads what it is told | |
| `Lab` | all guests of a run brought up and torn down together: forwards, other users of the host's ports, the segment | extends `Forward` |
| `DriveProofs`, `PhaseLoopsProofs`, `JournalProofs`, `OutputProofs`, `RunsProofs`, `GuestProofs`, `LabProofs` | the theorems | extend the module each is named for |
| `VerdictProofs` | the theorems about the order of phases, their answers and `RunContract` | extends `DriveProofs` |
| `MCDrive`, `MCPhaseLoops`, `MCJournal`, `MCRuns`, `MCGuest`, `MCOutput`, `MCLab` | instances for TLC | extend the module each is named for |

### State and steps against the code

A phase is its position in the sorted list, so "in the order given" is the order
of numbers. `state`, `holder` and `errors` are `session.state`,
`session.running` and the keys of `session.errors`. `at[t]` says which await of
`Session.run` task `t` is in; the scheduler's task for phase `p` is `p` itself
and a phase run by hand is a task of its client. `resume` and `continuing` are
the two fields of the controller. `running`, `failed`, `pausedBefore` and
`changed` are the locals of `_schedule`; `pc` says which await the drive is in.

**One step is the code between two awaits.** asyncio switches tasks nowhere
else, so a turn of the scheduler (`Turn`) is one action: it skips, chooses,
starts tasks or begins a pause, and ends in its next await. A failed phase
records its failure, skips its dependents and releases its guests in one step
(`RunFailed`) for the same reason. Where the code awaits, so does the model: a
phase that raised settles *with its guests still held* and is still "running".

Drains come in the order they were asked for: `Session._draining` is a lock that
serves its waiters first come, first served, the first drain of a phase waits in it
and the last await of `settle` is a drain too (`session.py:403`, 463). `ahead[t]`
holds the first drains that were asked for before the drain task `t` is in or will end
with, and `t` goes on when none of them is left: phases started in one turn are all
running before any of them records how it ended. The other way round is open, as it is
in the code: a phase started while another is behind its last drain may find that one's
failure recorded when its own first drain ends. The last drain of a task has no place of
its own in the order: where it comes before another's first drain, that task takes its
step first.

Three facts of the runtime are built in, each at the action it belongs to:

1. *A request cannot slip in between `_resume.set()` and the drive.* The loop
   runs tasks that are ready before it polls its sockets again. `Ask` has
   `resume # "set"`; a request received earlier may still be handled in that
   gap, and `Handle` allows it.
2. *`^C` is not a scope cancel.* asyncio's runner cancels the main task itself,
   so the shield around the end of `_sequence` holds off a cancelled task group
   (`ClientRaises`) and not a late `^C` (`Stop`, the cut "late stop").
3. *An exception in a client's task leaves the listener* and cancels the task
   group the drive is in (`ClientRaises`).

Of the controller's operations `exec`, `inject` and `pytest` are one ("exec"):
each awaits code that may use every guest. Boot is one step that succeeds or
fails, leaving some guests up or none; the drain and `settle` are awaits that
end, are cancelled, or raise.

`Journal` opens the awaits `Drive` leaves closed. A drain reads a file in a
thread, in two steps: `Stat` takes the size, `Read` the bytes, and the guest may
write between them and after. A line is two bytes, so half of one can be read.
`log[g]` is what the guest's boot logged and `file[g]` how many bytes of it the
unit has forwarded. `journalctl --follow --boot` without `--no-tail` begins with the
last ten lines of the boot (`Backlog`), whatever `guest.nix:247` says of everything:
`from[g]` is how many lines the present stream leaves out, settled when its first byte
is written, and a restart truncates the file and leaves out all but the last again.
`stream[g]` is the stream the tail read last. A file that grew past the offset before
the tail looked again is not seen to have started again; then the tail reads on in the
middle of another stream (`mixed`) and the half line it has kept is joined to a half
line of that, which is no entry (`Torn`).
`queue` is the lock with its waiters in order; `left`, `step`, `size` and `data`
are the owner's locals; `late` and `tokens` are those of `settle`. `settled` is
the set of that name. `events` has a record for each reading that told something:
the set of lines and the phase that held the guest, since the entries of one
reading are told together. A *scene* is an initial choice: which phases there are, on
which guests, and how many lines, restarts and dead guests it allows. Guests are
not shared between phases that run at once (`GuestExclusive` above). `Sequence` is the
drive's own task in the end of `_sequence`: it drains, shielded, and puts the guests
down. `follow` is cancelled with the drive's task group, which is at the end of
the drive or, when a client goes away before its reply (`control.py:261`), before it
(`GroupCancelled`): then it makes its last drain beside the phases that are being
stopped (`PhaseStopped`) and beside the teardown.

`Runs` has one run because the runs of a server share nothing but the channel.
The child is another process and may write, exit or crash between any two steps
of the server. The watcher reads (`WatchStat`, `WatchRead`), pushes one event at
a time with an await after each (`Pushed`), and looks at the process when it has
pushed them all. `copy` and `inbox` are a monitor's two sources: the backlog it
copied and the stream it reads after it. `printed` is kept while it is connected.

`Guest` is one machine. `kind` is its backend, chosen at the start. `alive` is the
set of its host processes: the *leader* is the one the runner spawned (the bridge,
QEMU or the container launcher), and `kernel`, `passt`, `vfsd`, `artd`, `crun`,
`init`, `pasta` and `tap` are what the leader or the runner starts besides. A step
of `Processes` is one process doing something by itself, or going (`Dies`: any of them,
at any time, the leader alone too); the runner's steps are in `Guest`. `fork` is what a
passt has forked. `adrift` holds those that outlived the parent that was to end them:
the bridge's two and passt's fork have no death signal of their own. `WhatStays` is the
kernel's side of every death signal a process asked for: crun, pasta and the relay asked
their parent, the container's init asked crun,
the bridge asked the runner for a SIGTERM (`guarded` says how far that came; an
init that asks after crun has gone asks in vain). `held` is what is left lying
about: the run directory, both ends of the agent's socketpair, a directory for
sockets, descriptors meant for the child. `known` is the part of it `Machine` has
been told of, so that `shutdown` can remove it. The launch of a backend is one run
of Python, yet each part of it is a step: the processes it has started live on, and
the runner may be killed between two. The spawn is an await: between `Spawn` and
`Spawned` the process is there and the machine has none, and a cancel then
(`SpawnCancelled`) kills it by its pid and nothing else. `down` tells how far a shutdown
is; it may raise: of an answer that `machine.py:361` does not catch, or of the console's
reader (`machine.py:388`). `Rpc` adds to a message who asked, which the
protocol does not carry, so that a wrong answer can be told from a right one. In
`stuck` the bridge reads the rest of a frame that passt will not send.

`Output` keeps what the program keeps: `stdout`, `saved` and `captures` are
`sys.stdout`, `Session._stdout` and `_captures`, `old` is what each pytest remembers
for its own capture, `case` is `Session.case`, `seen` the memory of the guests'
files and `events` what the `Junit` sink has been told. Two phases overlap exactly
when they claim no guest in common, as `launchable` allows, and a suite claims every
guest whatever it names (`phases.py:124`).

`Lab` has a guest as one thing with a state. `bound` is every listening socket with
its owner, strangers' included. A probe binds and lets go within one step, so it
leaves nothing in `bound`; passt binds later. `wire` and `inbox` count the frames
under way from and to each member of the segment. A scene chooses the guests, the
rules each has, the members and which sockets a stranger may open. `UsualHost` is not
code: it says of a host what the two properties of forwards need, and is Linux's default
(privileged ports end below the block they move to and below the ephemeral ones). Of the
rules nothing is assumed: nothing in the code checks them, and where they meet the
properties name them as the cause (`OwnRulesMeet`, and `InTheWay` for a rule of another
guest where one of the two named its address).

## 3. What is model-checked

`tlc -config <run>.cfg <module>`; `PROJECT.json` names the module of each.

| run | instance | what it shows |
|---|---|---|
| `drive_plain` | no client, no fault, with and without `--serial`; *every* sorted graph of 3 phases, every choice of guests among 2 (or all), three choices of `always`, with and without a pytest phase | a guest is attributed to the phase that has it (`Attribution`); a failure stops what depends on it (`FailureStopsDependents`) and nothing else (`NothingElseLeftOut`); answers stand (`VerdictStands`); a phase begins when what it comes after has its answer (`BeginsInOrder`), and in the order of the list with `--serial` (`SerialOrder`) |
| `drive_hand` | 2 breakpoints and `--break-on-failure`, one client, three graphs | no two users share a guest when a person runs phases again (`GuestExclusive`); pauses come first (`PausesFirst`); only a `continue` resumes (`OnlyContinueResumes`); the evidence is final; the drive implements `RunContract` (`KeepsContract`) |
| `drive_faults` | a breakpoint, one client, every fault | evidence and teardown whatever ended the drive (`NothingLeftBehind`); the drive ends (`DriveEnds`) |
| `phase_loops` | every graph of 3 phases with cycles and unknown names; every way 3 phases claim 2 guests | the loops return what `Phases` says, and return |
| `journal` | two guests and two phases in five scenes: one after the other on a guest; at once on two; one phase on both; a unit restarted that has logged more than its stream carries; a drive cut short. A guest may stop logging or die | every entry is recorded at most once for each time its stream starts (`EachOnce`) and none a stream carries is skipped (`NothingLost`); a guest's last words are recorded unless the drive was cut short (`LastWords`); a phase whose `settle` did not give up has everything its guests logged and their streams carry (`SettledIsComplete`); no task waits for ever (`NeverHangs`) |
| `runs` | a child of two progress events and a verdict, crash or `SIGINT`; two monitors; a stop; the server's end | a monitor prints what the channel was told, in order, from the first (`NothingMissed`); nothing follows a terminal event (`VerdictLast`); a monitor that stays gets one (`EveryoneTold`) |
| `guest` | each of the three backends; a test that asks twice, a task that shuts down, one that crashes; every process may die by itself at any time, every step of the start may fail or be cancelled, a shutdown may raise, the runner may be killed | an answer is its caller's (`AnswersItsOwn`); a waiting caller learns that its guest is gone (`GoneIsNoticed`); a crash kills (`CrashKills`); a shutdown ends (`ShutdownEnds`) and, if it returned, leaves nothing but what is beyond its reach (`DownMeansDown`); a guest goes with its runner (`RunnerGoneGuestGone`) |
| `output` | two scripts at once on a guest each, then a suite of two tests that names one of them; either guest writes its JUnit file up to twice; a cancel; a pytest sent by hand | prints and commands belong to the phase and test they came from (`PrintsAttributed`, `CommandsInTheirCase`); stdout is put back (`StdoutRestored`); a guest's cases are told once (`GuestCasesOnce`); `junit.xml` agrees with the states (`JunitAgrees`) |
| `lab` | 22 scenes: two guests with every pair of three sorts of rule and three sockets a stranger may open; rules with addresses of their own, beside guests that are given one; the documented pair of a wide rule and a public port; privileged ports; segments of one, two and three guests; the host is `UsualHost`, which TLC evaluates | a port is refused only because a stranger has it, two rules of the guest meet, or a rule that names an address meets another guest's (`RefusalHasACause`); what `reachable` says is true, or there is such a cause (`ReachableIsTrue`); frames move on past a guest that reads nothing, and a death is noticed (`SegmentGoesOn`); teardown leaves nothing however far boot came (`DownTogether`) |
| `false_exit`, `privileged_port`, `documented_guest` | the smallest instance that shows each | a finding each: section 6 |

**Bounds.** Three phases are the least with a chain (transitivity), a fork, and
one phase beside a chain; two guests the least with a conflict and with
parallelism; one client is what the code is written for and two what breaks it.
Nothing in `Drive` is counted, so no counter is capped: the state space is
finite and TLC explores all of it. In `Journal` each scene bounds the lines a
guest or phase logs and the restarts: two entries of one guest are the least
that can be swapped, one restart the least that repeats one. `Backlog` is 1 where
`journalctl` has ten, so that two lines are more than it carries. In `Runs`
`MaxEvents` is 2: one event in the backlog and one in the stream. In `Guest`
`MaxCalls` is 2, besides the poweroff that a shutdown asks: with a deadline on the
first, its late reply meets a second question under way, and the poweroff is a third
by another task. In `Output` two tests are a test after a test, `MaxVersion` is a
file and its rewriting, and one pytest by hand is enough for a case that must not
count. In `Lab` there are nine ports: two privileged, the two they move to, two
ordinary ones, an ephemeral one, the sentinel and one more, so that every test in
`forward.py` goes both ways; two loopback addresses are one each and no third;
`Room` is 2 and `_BURST` 1, so that a socket fills and a read leaves frames behind.
Deadlock is checked in the runs of `Drive`, `PhaseLoops`, `Journal` and `Runs`: the
only state they stop in is the one they end in. A guest that nobody shuts down may
stay as it is, a run of `Output` whose phases are over stops, and so does a lab that
is closed: those runs say `CHECK_DEADLOCK FALSE`.

**Fairness.** A task that is ready is run by the event loop: weak fairness of
each turn, phase step, client step and of the stages of `_sequence`. A boot, a
script, a `settle` and a shutdown end because each has a timeout. No fairness is
put on a fault or on anything a person need not do. One thing a person at a
breakpoint must do, once: `continue`. It is strongly fair because other
requests of the same client may come in between; a client that sent nothing
would hold the drive for ever, as the code means it to. In `Journal` the
program's steps are fair, and its timeouts; no guest has to log, forward, restart
or live. A cancel stops the phases it finds, and the drive comes to its end. In `Runs` the
server and its monitors are fair; the child has to do
nothing until it is told to stop, for a run may be paused for days. In `Guest` the
runner's loop runs what is ready and its own deadlines fire (15 s for the poweroff,
30 for SIGTERM); a process does what it is about to do (the bridge forks, sets its
handlers and leaves its loop, the launcher waits and cleans up, crun ends with its
init). No caller has to ask, no caller's deadline has to come, and the guest, its
agent, passt, QEMU and virtiofsd have to do nothing at all. `ReapKills` waits for a
bridge that is on its way out, which takes it a second of the thirty; `ReapGivesUp`
ends the wait for a leader that lives through a SIGKILL, as the code does after five
seconds. In `Lab` boot
and teardown go on and the hub's readers are called; no guest has to send, read or
die. `Output` has no fairness and no liveness.

**What the properties of `Guest` and `Lab` leave out** is said in them and is
real. `BeyondReach` is what a shutdown that returned may leave running: a process that
lost its parent first (`adrift`) -- passt's fork, the kernel and passt of a bridge that
died by itself or could not fork the second time (`main.rs:140`; `_reap` returns at once
of a leader that is gone, `machine.py:412`), the kernel and passt's fork of a bridge that
was killed by its pid in a cancelled spawn, a kernel that outlived its group's signal
(`machine.py:452` reports it) --, an init that asked for its death signal when its crun was
gone or had not asked yet (`guarded`; setpriv does not look), and everything of a
leader that lived through SIGKILL. An ordinary end of the bridge is among them: it kills
passt by its pid (`main.rs:295`), so what passt forked stays, and only a signal to the
group reaches it. `GoneIsNoticed` leaves out what is adrift and
holds the guest's end of the channel, and a bridge in the middle of a frame (`stuck`).
Nothing is said of a shutdown that *raises*: it leaves its reap or its release undone,
and `session.py:826-832` goes on. `ReachableIsTrue` leaves out a port of the block that
privileged ports move to. `DownTogether` takes it that the shutdown of each guest
succeeds, and protocols are left out: a port forwarded for udp alone counts as reachable.

**Seeded bugs.** An operator under the comment "Seeded bug" is a form of its
neighbour with a plausible mistake in it (a dropped release, a forgotten
`changed.set()`, a direct-only walk). None is used by the specification. For
each property of a passing run `PROJECT.json` names one that TLC refutes it
with: each property can fail.

## 4. What is proved

TLAPS proves these for any number of phases, any guests, any specs, any command
lines and every fault the last column does not exclude; those of `Journal` for any
scenes, those of `Output` for any scripts, suites, guests and tests; those of `Runs`
for any number of monitors, requests to stop and events; those of `Guest` for any
callers and any number of calls under each backend; those of `Lab` for any guests,
scenes, ports and sockets. Every invariant and every action property that a passing
run checks is the conclusion of one of them.

| theorem | says | assumes |
|---|---|---|
| `TypeCorrect` | every variable of `Drive` keeps its type | |
| `PhasesApart` | no two phases whose task is running claim one guest, whatever the clients do | |
| `OneClientIsSafe` | `GuestExclusive`: no two users of a guest, be they phases or client code | one client |
| `EndsWhole` | `NothingLeftBehind`: however the drive ends, its evidence is written and no guest is up | |
| `EvidenceIsFinal` | `EvidenceFinal`: nothing changes after `phases.json` is written | one client, no `^C` |
| `ContinueResumes` | `OnlyContinueResumes`: a pause ends by the reply to its own `continue` | one client |
| `PausesComeFirst` | `PausesFirst`: no phase starts before a pause it is behind | one client |
| `GuestsAttributed` | `Attribution`: a guest is held by exactly the phase on it | one client, nothing that breaks in |
| `RunningPhasesHold` | the half of it that survives what breaks in | one client |
| `AnswersStandFast` | `VerdictStands`: an answer stands | all selected, no hand runs |
| `FailureStops` | `FailureStopsDependents`: nothing behind a failure begins | all selected, no hand runs |
| `PhasesBeginInOrder` | `BeginsInOrder`: nothing begins before what it comes after has its answer | all selected, no hand runs |
| `SerialInOrder` | `SerialOrder`: `--serial` is the order of the list | one client, sorted |
| `NothingElse` | `NothingElseLeftOut`: who was not run is behind an error, and nobody is forgotten | one client, sorted |
| `DriveKeepsContract` | `KeepsContract`: the drive implements `RunContract` | one client, nothing that breaks in, a guest |
| `LoopReturnsDependents` | the loop of `dependents` returns exactly what `Dependents` says, on any graph | |
| `LoopReturnsLaunchable` | the loop of `launchable` returns the one set `IsLaunchable` describes | |
| `LoopChoosesApart` | nothing `launchable` chose shares a guest with what it chose or with what runs | |
| `OneReader` | only the owner of the journal's lock is in the middle of a read | |
| `ToldOnceARound` | `EachOnce`: an entry is told at most once for each time its stream started | |
| `NonePassedOver` | `NothingLost`: every line of the stream before the offset was told, or was a token and noted | |
| `LastWordsAreTold` | `LastWords`: when `follow` has ended, the files hold nothing untold, if the drive was not cut short | |
| `SettledPhasesAreComplete` | `SettledIsComplete`: who settles in time has everything its guests' streams carry, its own as its own | |
| `RunsInvariant` | the inductive invariant of `Runs` | |
| `NobodyMisses` | `NothingMissed`: a monitor, whenever it connects, misses no event and gets none twice | |
| `OneVerdict` | `VerdictLast`: nothing is pushed after a run's terminal event | |
| `ChannelInvariant` | the inductive invariant of a machine's channel to its agent | |
| `EveryAnswerIsItsOwn` | `AnswersItsOwn`: an answer answers what its caller asked, whatever died, closed or timed out | |
| `MachineIsKept` | types and the inductive invariant of a machine | |
| `ShutdownLeavesNothing` | `DownMeansDown`: after a shutdown that returned nothing of the guest runs that it could reach, and one that had come up leaves no file, socket or descriptor | |
| `PrintsAreAttributed` | `PrintsAttributed`: a print becomes an event of the phase it came from | |
| `TerminalComesBack` | `StdoutRestored`: when nothing captures, `print` reaches the terminal | |
| `CommandsAreAttributed` | `CommandsInTheirCase`: a command counts to a test exactly if its suite sent it | |
| `OutputTypes` | every variable and event of `Output` keeps its type | |
| `JunitTellsTheStates` | `JunitAgrees`: `junit.xml` says of a phase what `phases.json` says | |
| `GuestsToldOnce` | `GuestCasesOnce`: a guest's JUnit file is told once for each writing, under a phase that had it | |
| `NoAddressTwice` | `AddressesApart`: guests that are given an address are given different ones | |
| `NothingStaysUp` | `DownTogether`: after teardown no guest runs or listens and no end of the segment is open | |
| `RefusedForACause` | `RefusalHasACause`: passt is refused a port only by somebody outside the run, or by rules that meet: two of its own, or another guest's where one named its address | usual host |
| `SaidIsReachable` | `ReachableIsTrue`: a guest answers where `reachable` says, but for the same causes | usual host |

**The hypotheses.** *One client* is `OneClient`: a person with `uml ctl`, or the MCP
server, which sends one request at a time; section 6 has what two do. *No `^C`* is
`"stop" \notin Faults`: at a pause a `^C` may find a phase run by hand on its way, and
that phase goes on after the evidence was written. *Nothing that breaks in* excludes
`"stop"`, `"gone"` and `"raise"`: a `^C`, a client that goes away before its reply
and a drain or settle that raises cancel phases in an await that catches nothing, and
leave one "running" with its guests (`NothingLeftRunning`, section 6). Boot and the
writing of the evidence may still fail, and a late `^C` come. *All selected* is
`AllSelected` (no `--only`) and *no hand runs* is `NoHandRuns`, of the behaviour: a
client may `exec` and `continue`. Without either the three theorems are false
(section 6). *Sorted* is what `modules/run.nix` does to the list: a
phase names only phases before it. *A guest* is `HasGuests`, which the spec has.
*Usual host* is in section 2; the runs of `Lab` are of usual hosts.

**The constants.** `NumPhases` is a natural number; clients are not integers (a task
is a phase or a client); the constants have their types. `Journal` has at least one
guest, as every spec has. `Output` has finitely many phases and guests, scripts are
no suites, and every phase has a guest (the spec reader gives a phase that names none
all of them). `Forward` assumes that every set of loopback addresses that is not
empty has a lowest; `Lab` that a scene names each guest once and that its rules have
the type `Rule`; `Rpc` that the task that shuts down is none of the callers.

*Drive.* `GuestExclusive` is not inductive: it says nothing of a task about to
start. `Inv` adds four parts. `JobsKnown`: a phase's task runs that phase and a
client that runs something names a phase. `TasksKnown`: a phase in `run()` is in
`running`, a client in `run()` is busy with a `run`. `RunningApart`: phases in
`running` claim disjoint guests; it is kept by `Launch`, where `IsLaunchable`
compares each choice with what runs and what was chosen before it (of two
chosen, the later was compared with the earlier). `HandsOff`: while a client is
busy no phase is running and none is about to be; it survives `Reply`, which
resumes the drive, only because the one client has nothing else on the socket.
That is what `OneClient` is for, and where two clients break it.

The theorems after it look at a step as one of four (`StepKinds`): a turn of the
scheduler, a step of `run()` by one of its tasks, one by a client's, or a step beside
both. `EvidenceIsFinal` needs that nobody is at work at the end of the drive
(`QuietEnd`); `ContinueResumes` that a `continue` that was accepted is still to be
answered, and that once the drive is on its way none is remembered (`ContinueHeld`);
`GuestsAttributed` its two halves (`Holds`, `Held`), each kept because what `run()`
marks is among what the phase claims.

*Verdicts.* That nothing behind a failure begins is not inductive: a phase is chosen
before its drain and begins after it, and a failure may fall in between. `Verdicts`
says instead that whoever has *been started* has everything it depends on passed
(`BegunAfterPassed`) and everything it names answered (`BegunAfterAll`), that a
failure has taken all behind it (`FailureTakesAll`) and that nothing was taken without
one (`SkippedByFailure`). The first rests on two lemmas about graphs: what depends on
a phase depends on all that phase depends on (`DependsThrough`), and a phase that
depends on another names it or something that does (`LastStepOfPath`); a failing phase
therefore takes only phases nobody has started. Hand runs reopen an answer, and a
deselected phase is an answer that has not passed: there it breaks. `SerialInOrder`
needs the first phase of a sorted list without an answer to be a candidate
(`FirstIsCandidate`) and that nobody is in `run()` when nothing runs; `NothingElse` adds
that the drive without a fault comes to its end only by a turn that found nothing to
start, and then that first phase would have been found.

*The contract.* `lent` maps a guest to the user that has it, which is one user by
`GuestExclusive`. A step of `run()` reopens a phase, gives back its guests with an
answer, or is a stutter; a turn lends what it starts (`LentTo`); the report and `up`
follow where the evidence and the guests are at each stage of the drive.

*Journal.* `JournalInv` has nine parts. `Locked`: types, and only the head of the
queue is in the middle of a read. `Written`: what was read was written, in this stream
or in an earlier one. `Once` is what makes `EachOnce` inductive. `EachOnce` counts
starts of the stream, but the tail learns of one only at its next `stat`; so each
guest has a number of *rounds*, those the tail has seen, and a line was told at most
once a round and once more if it is before the offset. A file shorter than the offset
is a round not yet seen, so there is room for it. Lines are counted over the whole
boot (`Through`), those that the stream left out included: a stream that starts again
never starts before the last one did. `NothingLost` needs that an offset moves only at
`Close`, which tells the lines in the same step; so a reader that is sent away between
`Read` and `Close` has lost nothing. It says nothing of a guest whose tail read on in
another stream than it had begun (`mixed`), for there an offset means another line.
`Final`: after the teardown of a drive that was not cut short nobody but `follow`
reads, and its last drain has all of what the files hold of each guest it is done
with; that takes `Ends`, which says when `follow` may come to it and that no phase is
on then. For a settled phase: phases that are on hold their guests (`Holding`) and
what is logged then is told as theirs (`HisOwn`); a guest logs a token once, and what
its stream carries from before one that is noted was told (`Complete`); and the last
drain of a phase that is not late began when all its tokens had come (`Waited`).

*Output.* Whoever is inside is apart from the others (`Placed`), so a suite, which
claims all guests, is inside alone. `StreamInv` is then a case distinction: with
`captures` scripts inside `sys.stdout` is the one writer and `_stdout` the terminal's;
with a suite inside it is pytest's during a test and the terminal's else. A count and
one place to remember are enough only because of it. `EventInv` follows the events: a
phase has its row exactly when it has its answer, a case is of a suite that has begun
or of a guest of a phase that is over, and every file that was read was told once,
under a phase that has the guest. Two phases cannot read one file at once, for they
would share the guest.

*Channel.* That an answer is right is not inductive: it depends on messages still
under way. `RpcInv` adds that every number a caller waits for has been taken, that
two who wait have two numbers, and that each request, the one being served and each
reply is `Addressed`: its number is taken and whoever waits for it is who asked. A
call takes the next number, so nothing under way has it; a reply found by its number
is then its caller's. A deadline or a close takes waiters away, which only helps.

*Machine.* `DownMeansDown` needs to know, at each stage of a shutdown, what can still
run. `Parts` says which processes each backend has and `Leading` that before the
leader there are only helpers. `Leaderless` is the heart of it: once the leader is
gone, whoever or whatever ended it, what may be left is an init whose crun was gone
before it asked (`guarded`) or what the bridge was to end and did not (`adrift`);
every step that kills, and every death, is checked against `WhatStays`. `Forked`: the
child passt forked is there only with its passt, or is adrift. `Helped`: a helper that
runs is launched now or on the machine's list, and none runs once those on the list
are killed. `Ending`: the helpers' turn comes after the leader's exit, or after the
machine gave up on a leader that would not die, which makes all of it adrift.
`Keeping`: of a guest that came up, whatever is open is on a list (`known`) that the
shutdown goes through; of a launch that failed it is not, which is the finding
`NothingIsLeft`.

*Lab.* Addresses stay apart because what a guest was given has been in `taken`
since (`AddrInv`), and `Free` looks outside `taken`; a guest still to be resolved
has the rules Nix wrote, which give it nothing. For `NothingStaysUp` (`DownInv`): a
listening socket is a stranger's or that of a guest of the run which is up, before
the start no guest is anything, and `Closes` waits for every guest to be down or
never begun. For the two properties of forwards (`TellInv`): a resolved guest has the
rules Nix wrote, put at an address and with their ports moved (`PlacedInv`), and a
socket of a guest is one its rules ask for (`Sockets`). Whoever holds a port that a
starting guest wants is then a stranger or a guest with a rule over that port; and not
both have the address because they were given it, for these are apart
(`OthersInTheWay`). Two specs of one passt that overlap are of two rules or of one list,
for the wide spec of a rule leaves out the block that its other one is of
(`OverlapIsOwn`). The rules do not change after they are resolved and a stranger lets go
of nothing in the model, so a cause once there stays in sight.
`UsualHost` is used where a port is moved: it must land where a guest may bind.

*Loops.* For `dependents`: what has been found is inside every closed set that
holds the argument, and when a pass adds nothing it is itself such a set. For
`launchable`: `held` is the claims of the running and the chosen, the candidates
still to look at are behind those looked at, and each one looked at was chosen
exactly if it fitted. A set that fits `IsLaunchable` agrees with the chosen one
at the first place they could differ, so there is one.

*Runs.* Two verdicts are impossible because of the file, not of the watcher: a
verdict is its last line (`VerdictEndsFile`, the child is past writing), the
batch is the end of what was read (`BatchIsRead`), so the line that sets
`finished` is the last there will be (`FinishedIsAll`) and an `exited` can be
pushed only without it (`OpenUntilDone`). `NothingMissed` needs that a monitor is
registered exactly while it is connected (`RegisteredIsOn`), which holds only
because `_monitor` copies and registers in one step.

Only model-checked: liveness, which is out of TLAPS's reach (`DriveEnds`, `Returns`,
`NeverHangs`, `EveryoneTold`, `ShutdownEnds`, `GoneIsNoticed`, `CrashKills`,
`RunnerGoneGuestGone`, `SegmentGoesOn`), and the three findings of section 6.

## 5. What is not modelled, and the plan

Written next, in this order: `Mconsole` (one request at a time on a datagram
socket, and a reply that comes after its deadline, `mconsole.py:113`, `qmp.py`);
the readers of a guest's console (`_pump_console`, `wait_for_console_text`) and
`Machine.wait`; the tools of the run server that forward to a paused session. Each
gets the invariant of its theorem with it, as the modules above. Of the liveness, what
a proof can still say is the safety half: that a task which waits has somebody who
will wake it (`NeverHangs`: whoever holds the lock can take a step; `GoneIsNoticed`: a
waiter is in `_pending` until it is told).

Left out of modules that are there: in `Output` a cancel of the suite itself in the middle
of a test, a test that ends in an error outside its call and a pytest that finds no
tests, and a JUnit file that does not parse; in `Lab` protocols and a shutdown that
fails; in `Processes` that pasta forks, and the copying of frames.

Left out for good: `summarise` and every other wording; argument parsing; the
reading of the spec (its result is the constant `Specs`; what `modules/run.nix`
asserts of it is the shape of the specs the runs enumerate, and `PhaseLoops`
takes graphs without that shape too); the backends' command lines, namespaces and
OCI configuration but for the death signal; the bytes of frames; `cluster.py`,
whose helpers are guest commands repeated until a deadline; Nix evaluation, the
kernel's build and the generated CI workflows; the console's namespace, which is
any Python at all.

## 6. Findings

Three are runs TLC refutes, with the text they disagree with quoted in
`PROJECT.json`.

* `false_exit`: `_watch` looks at the process after it has pushed what an earlier
  read returned, and leaves without reading again. A child that writes its verdict
  and exits in between is reported as having exited without one, and every
  monitor of a passed run exits 2.
* `privileged_port`: `resolve` looks for an address whose ports bind *before* it
  moves the ports nobody may bind. `ports = [ 80 ]` with no address is refused
  every address there is, though 10080 is free on all of them.
* `documented_guest`: `{ ports = "all"; }` beside `{ address = "0.0.0.0"; ports =
  [ 8080 ]; }` is the example of `README.md:341-346` and of `modules/default.nix:322`.
  The range of the first holds the port of the second; `_specs` looks at one rule at a
  time and `probe` tries the first by its sentinel, so passt is told two specs over one
  port, which "is fatal the same way" (`forward.py:26`), and the guest does not start.

More of what was met while modelling can be reproduced with a small change to a
configuration; each is a definition that states what the text says.

| definition | instance | what happens |
|---|---|---|
| `Drive.NothingLeftRunning` | `drive_faults.cfg` | a `^C` while a phase *settles* is caught by nothing: it stays "running" in `phases.json`, which `INTERRUPTED` (`phases.py:40`) was added to prevent |
| `Drive.PausedIsQuiet` | `drive_hand.cfg` with `Client <- MCTwo`, `Options <- MCBreak` | whether the drive is paused is asked before a client's code is awaited; another client's `continue` starts phases on its guests (`control.py:279`, against `cli.py:349`) |
| `Drive.OnlyContinueResumes` | `Client <- MCTwo`, `Options <- MCTwoBreaks` | two `continue`s at one pause leave the shared flag set, and any request resumes the next pause (`control.py:282`) |
| `Journal.Exact` | `journal.cfg` with `Scenes <- MCInTurn` | the drain at a phase's start reads what was forwarded so far; an entry logged before and forwarded after is told as the phase's (`session.py:417`, against 399) |
| `Journal.CarriesTheBoot` | `journal.cfg` with `Scenes <- MCRestarted` | `--follow` without `--no-tail` or `--lines=all` begins with the last ten lines of the boot; what was logged before them is never told, at the start as at a restart (`guest.nix:260-267`, against 247 "`--boot` carries everything logged before this unit started") |
| `Journal.WordsOnTheWayDown` | `journal.cfg` with `Scenes <- MCCutShort` | a client that goes away before its reply cancels the task group (`control.py:261`, `cli.py:290-297`); `follow` makes its last drain before the guests are down, and what they write on the way down is not told (against `session.py:534`). A `^C` while `_schedule` runs does not do this: it raises in the drive's own task, and the group is cancelled after the teardown |
| `Guest.NothingIsLeft` | `guest.cfg` | a shutdown that returned leaves files after a start that failed, which nobody told the machine of: the directory for sockets when QEMU's launch fails (`backend.py:396`), the descriptors for a child that could not be spawned or whose spawn was cancelled (`machine.py:292-311`), `/tmp/uml-crun-*` of a launcher that was killed (`container.py:751`); and processes: of a spawn cancelled while the bridge was forking, of a bridge that died first (`machine.py:412` returns at once), and what passt forked, whenever the bridge ends by itself (`main.rs:295` kills by pid; `machine.py:376` says of its own helpers why that is not enough) |
| `Drive.VerdictStands` | `drive_plain.cfg` with `NumPhases = 4`, `Specs <- MCThrough`, `Selections <- MCAnySelection`, `Options <- MCNoBreak` | with `--only`, a deselected phase counts as answered, so a phase that depends on another *through* a deselected one does not wait for it, only for its guest. If the guest becomes free while that other, which has failed, is in its last drain, the phase is started behind it; the failure is recorded while it is in its own first drain, it is marked skipped ("nobody knows what it would have done", `phases.py:36`), and then runs, for `session.py:633` does not look at the state again |
| `Drive.VerdictStands`, `FailureStopsDependents`, `BeginsInOrder` | `drive_hand.cfg` with `NumPhases = 5`, `Specs <- MCByHand`, `Options <- MCFirst` | at a breakpoint before the first phase a person runs the second, which comes after it, by hand; after the `continue` the first and the third run. The third passes while the first, which has failed, settles, and the fourth, which comes after the second and waited for the third's guest, is started behind the first's last drain. The failure is recorded while the fourth drains: the fourth is skipped, and then runs; the fifth, which always runs after the fourth, begins beside it, since a skip is an answer |
| `Drive.EvidenceFinal` | `drive_hand.cfg` with `Faults = {"stop"}` | a `^C` at a pause finds a phase run by hand on its way; the controller, and with it that phase, is cancelled only after `phases.json` was written, which still says "pending" or "running" of one that was interrupted (`cli.py`, `_sequence` inside `drive`'s task group) |

Seen, and not stated as properties: a run killed after its minute is
reported as `exited None`, for nobody waits for it (`server.py:338`); a unit that
restarts makes `journalctl` write the last ten entries of its boot again, and each of
them is recorded a second time, under the phase that runs then, while what was not read
of those before them is lost; a skipped phase never has
a reason in `phases.json` (it is not in `errors`, `session.py:739`); the remark
that one pass of `dependents` "would be enough" (`phases.py:65-66`) is not true of
the comprehension, which reads `found` as it was before the pass; a phase run by
hand can fail while a phase that depends on it drains only through a deselected
one, which is why `RunContract` lets a skipped phase that already had its guests
be reopened, and it has two rows in `junit.xml`; a suite that leaves pytest in the
middle of a test leaves `Session.case` set; a guest's own failing JUnit case makes
`junit.xml` fail where `phases.json` says passed, against `events.py:166` (`JunitAgrees`
allows it); with a wide rule `reachable` says guest port 10022 answers on host port
10022, which leads to guest port 22 (`ReachableIsTrue` leaves the block out); an
address a rule names is not put in `taken`, and `probe` does not see the ports of a
guest that has not started, so two guests whose rules name one address, or one that
names 127.0.0.2 beside one that is given it, pass the probe and the second passt
fails, and a wide rule that finds a port of its address taken by another guest skips it
and says it answers there (`InTheWay` names both); ports 22 and 10022 listed
together are one port after the move; `harness.machines` resolves forwards before its
`try`, so a refusal leaves the segments' sockets to the garbage collector; a shutdown
that raises, because the agent's answer is an exception `machine.py:361` does not name
or because the console's reader failed (`machine.py:388`), is swallowed by
`session.py:826-832` with the guest's processes or files still there; a guest's JUnit
file that is read half-written is remembered as read and never told if it is not
written again (`session.py:486-494`).
