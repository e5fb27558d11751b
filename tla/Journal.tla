------------------------------- MODULE Journal -------------------------------
(***************************************************************************)
(* A guest's journal on its way to the events: Tail (pkgs/uml/uml/         *)
(* journal.py), and drain, settle and follow of the session.               *)
(*                                                                         *)
(* A guest logs; its `uml-journal' unit writes what it logged to a file on *)
(* the host, later and a piece at a time; drain reads what is new in the   *)
(* file of every guest and says each entry belongs to the phase running on *)
(* that guest now.  A lock lets one drain in at a time.  settle logs a     *)
(* token in each guest and drains until the tokens have come, or two       *)
(* seconds are over.  When the phases are over, or stopped, the end of     *)
(* _sequence drains too, and puts the guests down.                         *)
(*                                                                         *)
(* A line of the file is two bytes here, so that a read can end in a line; *)
(* Tail._rest is the line the last `offset % 2' bytes began.  A start of   *)
(* the unit goes through the boot, but `--follow' without `--no-tail'      *)
(* carries only the last lines of it: a stream leaves out the others.      *)
(***************************************************************************)
EXTENDS Integers, Sequences, FiniteSets, SequencesExt

CONSTANTS NumGuests, NumPhases,
          Backlog,          \* the lines of the boot so far that a stream carries
          Scenes            \* who takes part, and the bounds: a choice of Init

Guest == 1..NumGuests       \* in the order of session._journals
Phase == 1..NumPhases
Follow == 0                 \* the task of Session.follow
Sequence == -1              \* the drive's own, in the end of _sequence
Task == Phase \cup {Follow, Sequence}
NoPhase == 0

\* nodes     the guests of each phase; a phase with none is not in the scene
\* early     how many entries a guest logs before its stream starts
\* entries   bounds how many it logs in all, tokens apart; none is a guest
\*           with `boot.uml.journal' off
\* restarts  bounds how often its stream starts again
\* mortal    the guests that may die by themselves
\* cut       whether the task group of the drive may be cancelled early
Scene == [nodes    : [Phase -> SUBSET Guest],
          early    : [Guest -> Nat],
          entries  : [Guest -> Nat],
          restarts : [Guest -> Nat],
          mortal   : SUBSET Guest,
          cut      : BOOLEAN]

\* A run has a guest.
ASSUME NumAssumption == NumGuests \in Nat \ {0} /\ NumPhases \in Nat
\* journalctl carries ten.
ASSUME BacklogAssumption == Backlog \in Nat
ASSUME ScenesAssumption == Scenes \subseteq Scene

VARIABLES scene,        \* never changes
          log,          \* what each guest logged
          from,         \* how many lines of it the present stream leaves out
          file,         \* how many bytes of the others are in the file
          restarts,     \* how often the stream started again
          alive,
          offset,       \* Tail._offset
          stream,       \* what the stream it read last leaves out: _rest is of it
          mixed,        \* the guests of which it read on in another stream
          running,      \* session.running: the phase that holds a guest
          events,       \* what the sinks were told: the entries of each reading
          settled,      \* session._settled
          queue,        \* session._draining: its owner, and who waits
          at,           \* the await each task is in
          left,         \* the guests a drain has still to read
          step,         \* the await of Tail.read it is in
          size, data,   \* the file's size as read() saw it; the bytes it read
          asking,       \* settle: the guests it has still to ask
          tokens,       \* the guests whose token it waits for
          late,         \* the phases whose settle ran out of time
          down,         \* the guests were torn down
          cancelled     \* the drive's task group was cancelled before that

guestVars == <<scene, log, from, file, restarts, alive, down, cancelled>>
tailVars == <<offset, stream, mixed, events, settled>>
lockVars == <<queue, left, step, size, data>>
drainVars == <<tailVars, lockVars>>
taskVars == <<at, running, asking, tokens, late>>
vars == <<guestVars, drainVars, taskVars>>

Draining == {"start", "poll", "last", "drain", "final"}
Settling == {"token", "poll", "sleep"}

TypeOK ==
    /\ scene \in Scenes
    /\ log \in [Guest -> Seq([by : Phase \cup {NoPhase}, token : BOOLEAN])]
    /\ from \in [Guest -> Nat] /\ file \in [Guest -> Nat]
    /\ offset \in [Guest -> Nat] /\ stream \in [Guest -> Nat] /\ mixed \subseteq Guest
    /\ restarts \in [Guest -> Nat]
    /\ alive \in [Guest -> BOOLEAN] /\ down \in BOOLEAN /\ cancelled \in BOOLEAN
    /\ running \in [Guest -> Phase \cup {NoPhase}]
    /\ events \in [Guest -> Seq([lines : SUBSET Nat, phase : Phase \cup {NoPhase}])]
    /\ settled \subseteq Guest \X Phase
    /\ queue \in Seq(Task)
    /\ at \in [Task -> {"idle", "body", "over", "stopped"} \cup Draining \cup Settling]
    /\ left \in [Task -> SUBSET Guest]
    /\ step \in [Task -> {"stat", "read", "close"}]
    /\ size \in [Task -> Nat] /\ data \in [Task -> Nat \X Nat \X Nat]
    /\ asking \in [Phase -> SUBSET Guest] /\ tokens \in [Phase -> SUBSET Guest]
    /\ late \subseteq Phase

\* What a stream leaves out that starts when n lines are logged.
Skipped(n) == IF n > Backlog THEN n - Backlog ELSE 0

\* The stream is up before the agent, but nothing says it wrote anything.
Init ==
    /\ scene \in Scenes
    /\ log = [g \in Guest |-> [i \in 1..scene.early[g] |-> [by |-> NoPhase, token |-> FALSE]]]
    /\ from = [g \in Guest |-> Skipped(scene.early[g])]
    /\ stream = from /\ mixed = {}
    /\ file = [g \in Guest |-> 0] /\ offset = [g \in Guest |-> 0]
    /\ restarts = [g \in Guest |-> 0]
    /\ alive = [g \in Guest |-> TRUE] /\ down = FALSE /\ cancelled = FALSE
    /\ running = [g \in Guest |-> NoPhase]
    /\ events = [g \in Guest |-> <<>>]
    /\ settled = {}
    /\ queue = <<Follow>>
    /\ at = [t \in Task |-> IF t = Follow THEN "drain" ELSE "idle"]
    /\ left = [t \in Task |-> Guest]
    /\ step = [t \in Task |-> "stat"]
    /\ size = [t \in Task |-> 0] /\ data = [t \in Task |-> <<0, 0, 0>>]
    /\ asking = [p \in Phase |-> {}] /\ tokens = [p \in Phase |-> {}]
    /\ late = {}

nodes == scene.nodes

First(S) == CHOOSE g \in S : \A h \in S : g <= h

-----------------------------------------------------------------------------
(* The guests. *)

Entries(g) == {k \in DOMAIN log[g] : ~ log[g][k].token}

\* Something in the guest logs, for whoever holds it then.
Log(g) ==
    /\ alive[g] /\ Cardinality(Entries(g)) < scene.entries[g]
    /\ log' = [log EXCEPT ![g] = Append(@, [by |-> running[g], token |-> FALSE])]
    /\ UNCHANGED <<scene, from, file, restarts, alive, down, cancelled, drainVars, taskVars>>

\* A piece of the next line reaches the file.  What the stream leaves out is
\* settled by the first one: a guest may log between the start and that.
Forward(g) ==
    /\ alive[g]
    /\ \E f \in IF file[g] = 0 THEN from[g]..Skipped(Len(log[g])) ELSE {from[g]} :
          /\ file[g] < 2 * (Len(log[g]) - f)
          /\ from' = [from EXCEPT ![g] = f]
    /\ file' = [file EXCEPT ![g] = @ + 1]
    /\ UNCHANGED <<scene, log, restarts, alive, down, cancelled, drainVars, taskVars>>

\* `truncate:': the unit starts again, from the last lines of the boot.
Restart(g) ==
    /\ alive[g] /\ restarts[g] < scene.restarts[g]
    /\ restarts' = [restarts EXCEPT ![g] = @ + 1]
    /\ file' = [file EXCEPT ![g] = 0]
    /\ from' = [from EXCEPT ![g] = Skipped(Len(log[g]))]
    /\ UNCHANGED <<scene, log, alive, down, cancelled, drainVars, taskVars>>

\* A guest that is dead writes nothing more; its file stays.
Die(g) ==
    /\ g \in scene.mortal /\ alive[g]
    /\ alive' = [alive EXCEPT ![g] = FALSE]
    /\ UNCHANGED <<scene, log, from, file, restarts, down, cancelled, drainVars, taskVars>>

-----------------------------------------------------------------------------
(* drain, and the tail it reads. *)

\* Seeded bug: no lock.
AnyWaiter(t) == \E i \in DOMAIN queue : queue[i] = t

\* The lock is handed on in the order it was asked for.
Owner(t) == queue # <<>> /\ Head(queue) = t

\* The queue without t, which is in it at most once.
Others(t) ==
    IF \E i \in DOMAIN queue : queue[i] = t
      THEN RemoveAt(queue, CHOOSE i \in DOMAIN queue : queue[i] = t)
      ELSE queue

\* t calls drain: it queues for the lock, and starts from the first guest.
Enter(t, stage, q) ==
    /\ at' = [at EXCEPT ![t] = stage]
    /\ queue' = Append(q, t)
    /\ left' = [left EXCEPT ![t] = Guest]
    /\ step' = [step EXCEPT ![t] = "stat"]
    /\ size' = [size EXCEPT ![t] = 0] /\ data' = [data EXCEPT ![t] = <<0, 0, 0>>]

\* drain returns to t: a phase begins with the drain of its start, and is
\* recorded and gives its guests back with the last one.
DrainReturns(t) ==
    /\ queue' = Others(t)
    /\ at' = [at EXCEPT ![t] = CASE @ = "start" -> "body"
                                 [] @ \in {"poll", "drain"} -> "sleep"
                                 [] @ \in {"last", "final"} -> "over"]
    /\ running' = [g \in Guest |-> CASE at[t] = "start" /\ g \in nodes[t] -> t
                                     [] at[t] = "last" /\ g \in nodes[t] -> NoPhase
                                     [] OTHER -> running[g]]
    /\ tokens' = IF at[t] = "last" THEN [tokens EXCEPT ![t] = {}] ELSE tokens
    /\ late' = IF at[t] = "last" THEN late \ {t} ELSE late

\* On to the next guest, in the step that is done with this one.
NextGuest(t) ==
    /\ left' = [left EXCEPT ![t] = @ \ {First(@)}]
    /\ step' = [step EXCEPT ![t] = "stat"]
    /\ size' = [size EXCEPT ![t] = 0] /\ data' = [data EXCEPT ![t] = <<0, 0, 0>>]
    /\ IF left[t] = {First(left[t])} THEN DrainReturns(t) ELSE UNCHANGED <<queue, at, running, tokens, late>>

\* A file shorter than what was read of it has started again.
StartsOver(n, g) == IF n < offset[g] THEN 0 ELSE offset[g]

\* The file's size has come.  No file, or nothing new in it: the next guest.
Stat(t) ==
    /\ at[t] \in Draining /\ Owner(t) /\ step[t] = "stat"
    /\ LET g == First(left[t])
       IN  /\ offset' = [offset EXCEPT ![g] = StartsOver(file[g], g)]
           /\ IF offset'[g] = file[g]
                THEN NextGuest(t)
                ELSE /\ step' = [step EXCEPT ![t] = "read"]
                     /\ size' = [size EXCEPT ![t] = file[g]]
                     /\ UNCHANGED <<queue, at, running, left, data, tokens, late>>
    /\ UNCHANGED <<guestVars, stream, mixed, events, settled, asking>>

\* What is read of a guest's file up to the size seen before, and of which
\* stream: a file that started again meanwhile may hold less.
Piece(g, n) ==
    LET to == IF file[g] < n THEN file[g] ELSE n
    IN  <<offset[g], IF to < offset[g] THEN offset[g] ELSE to, from[g]>>

\* Seeded bug: the offset moves with the read, before the file is closed.
ReadAhead(t) ==
    /\ at[t] \in Draining /\ Owner(t) /\ step[t] = "read"
    /\ data' = [data EXCEPT ![t] = Piece(First(left[t]), size[t])]
    /\ offset' = [offset EXCEPT ![First(left[t])] = data'[t][2]]
    /\ step' = [step EXCEPT ![t] = "close"]
    /\ UNCHANGED <<guestVars, stream, mixed, events, settled, queue, left, size, taskVars>>

\* Opened, sought and read.
Read(t) ==
    /\ at[t] \in Draining /\ Owner(t) /\ step[t] = "read"
    /\ data' = [data EXCEPT ![t] = Piece(First(left[t]), size[t])]
    /\ step' = [step EXCEPT ![t] = "close"]
    /\ UNCHANGED <<guestVars, tailVars, queue, left, size, taskVars>>

\* The lines that end in a piece; `split' keeps the rest for the next one.
LinesOf(piece) == piece[3] + (piece[1] \div 2) + 1..piece[3] + (piece[2] \div 2)

\* A rest that another stream began ends in no line of JSON.
Torn(g, piece) == piece[1] % 2 = 1 /\ piece[3] # stream[g]

Whole(g, piece) ==
    {k \in LinesOf(piece) : Torn(g, piece) => k # piece[3] + (piece[1] \div 2) + 1}

\* Closed: the offset moves, a token is noted, and every other entry is told
\* with the phase that has the guest now.
Close(t) ==
    /\ at[t] \in Draining /\ Owner(t) /\ step[t] = "close"
    /\ LET g == First(left[t])
           piece == data[t]
           lines == Whole(g, piece)
           marks == {k \in lines : log[g][k].token}
           told == [lines |-> lines \ marks, phase |-> running[g]]
       IN  /\ offset' = [offset EXCEPT ![g] = @ + (piece[2] - piece[1])]
           /\ events' = IF told.lines = {} THEN events ELSE [events EXCEPT ![g] = Append(@, told)]
           /\ settled' = settled \cup {<<g, log[g][k].by>> : k \in marks}
           /\ IF piece[1] = piece[2] THEN UNCHANGED <<stream, mixed>>
              ELSE /\ stream' = [stream EXCEPT ![g] = piece[3]]
                   /\ mixed' = IF piece[1] > 0 /\ piece[3] # stream[g] THEN mixed \cup {g} ELSE mixed
    /\ NextGuest(t)
    /\ UNCHANGED <<guestVars, asking>>

-----------------------------------------------------------------------------
(* A phase: the drain of its start, its body, and settle. *)

\* The scheduler starts a phase when nobody has its guests (Drive).
Begin(p) ==
    /\ ~ cancelled /\ at[Sequence] = "idle"
    /\ at[p] = "idle" /\ nodes[p] # {}
    /\ \A q \in Phase : at[q] \in {"idle", "over"} \/ nodes[q] \cap nodes[p] = {}
    /\ Enter(p, "start", queue)
    /\ UNCHANGED <<guestVars, tailVars, running, asking, tokens, late>>

Arrived(p, sent) == \A g \in sent : <<g, p>> \in settled

\* `tail.streaming' and `vm.alive()', asked as the loop comes to a guest.
Worth(g) == offset[g] > 0 /\ alive[g]

\* settle goes on with the guests in rest: the next one worth asking is asked
\* for a token; with none left it drains, until every token has come.
Ask(p, rest, sent) ==
    LET worth == {g \in rest : Worth(g)}
    IN  IF worth # {}
          THEN /\ at' = [at EXCEPT ![p] = "token"]
               /\ asking' = [asking EXCEPT ![p] = {g \in rest : First(worth) <= g}]
               /\ UNCHANGED <<queue, left, step, size, data>>
          ELSE /\ asking' = [asking EXCEPT ![p] = {}]
               /\ Enter(p, IF Arrived(p, sent) THEN "last" ELSE "poll", Others(p))

\* Seeded bug: the guests are given back before settle.
BodyEndsReleasing(p) ==
    /\ at[p] = "body"
    /\ Ask(p, nodes[p], {})
    /\ running' = [g \in Guest |-> IF g \in nodes[p] THEN NoPhase ELSE running[g]]
    /\ UNCHANGED <<guestVars, tailVars, tokens, late>>

\* The script or pytest is over, and settle begins.
BodyEnds(p) ==
    /\ at[p] = "body"
    /\ Ask(p, nodes[p], {})
    /\ UNCHANGED <<guestVars, tailVars, running, tokens, late>>

TokenOf(p) == [by |-> p, token |-> TRUE]
Logged(g, p) == \E i \in DOMAIN log[g] : log[g][i] = TokenOf(p)

\* The guest logs the token it was asked for.
LogToken(p) ==
    /\ at[p] = "token"
    /\ LET g == First(asking[p])
       IN  /\ alive[g] /\ ~ Logged(g, p)
           /\ log' = [log EXCEPT ![g] = Append(@, TokenOf(p))]
    /\ UNCHANGED <<scene, from, file, restarts, alive, down, cancelled, drainVars, taskVars>>

\* The command returned, or raised MachineError: that guest is not waited for.
TokenSent(p) ==
    /\ at[p] = "token"
    /\ LET g == First(asking[p])
       IN  \E sent \in {tokens[p]} \cup (IF Logged(g, p) THEN {tokens[p] \cup {g}} ELSE {}) :
              /\ tokens' = [tokens EXCEPT ![p] = sent]
              /\ Ask(p, asking[p] \ {g}, sent)
    /\ UNCHANGED <<guestVars, tailVars, running, late>>

\* 20 ms later: have they come?
Again(p) ==
    /\ p \in Phase /\ at[p] = "sleep"
    /\ Enter(p, IF Arrived(p, tokens[p]) THEN "last" ELSE "poll", queue)
    /\ UNCHANGED <<guestVars, tailVars, running, asking, tokens, late>>

\* Seeded bug: the two seconds are for the commands and not for the waiting.
TimeoutOfCommands(p) ==
    /\ at[p] = "token"
    /\ Enter(p, "last", Others(p))
    /\ asking' = [asking EXCEPT ![p] = {}]
    /\ late' = late \cup {p}
    /\ UNCHANGED <<guestVars, tailVars, running, tokens>>

\* Two seconds are over, in whatever await settle is: a drain it is in stops
\* where it stands, and one last drain follows.
Timeout(p) ==
    /\ at[p] \in Settling
    /\ Enter(p, "last", Others(p))
    /\ asking' = [asking EXCEPT ![p] = {}]
    /\ late' = late \cup {p}
    /\ UNCHANGED <<guestVars, tailVars, running, tokens>>

-----------------------------------------------------------------------------
(* The drive: its end, and follow beside it. *)

\* The drive's task group is cancelled before the drive is over: a client of
\* the control socket went away before its reply, which raises in its task.
GroupCancelled ==
    /\ scene.cut /\ ~ cancelled /\ ~ down
    /\ cancelled' = TRUE
    /\ UNCHANGED <<scene, log, from, file, restarts, alive, down, drainVars, taskVars>>

\* With it a phase, at its await: its body gives the guests back, and a cut
\* settle does not.
PhaseStopped(p) ==
    /\ cancelled /\ at[p] \notin {"idle", "over", "stopped"}
    /\ at' = [at EXCEPT ![p] = "stopped"]
    /\ running' = [g \in Guest |-> IF at[p] = "body" /\ g \in nodes[p] THEN NoPhase ELSE running[g]]
    /\ queue' = Others(p)
    /\ asking' = [asking EXCEPT ![p] = {}]
    /\ step' = [step EXCEPT ![p] = "stat"]
    /\ size' = [size EXCEPT ![p] = 0] /\ data' = [data EXCEPT ![p] = <<0, 0, 0>>]
    /\ UNCHANGED <<guestVars, tailVars, left, tokens, late>>

\* Every phase is over: _sequence drains, shielded, and writes the evidence.
SequenceEnds ==
    /\ at[Sequence] = "idle"
    /\ \A p \in Phase : at[p] \in {"idle", "over", "stopped"}
    /\ Enter(Sequence, "final", queue)
    /\ UNCHANGED <<guestVars, tailVars, running, asking, tokens, late>>

\* The guests are put down.
Teardown ==
    /\ at[Sequence] = "over" /\ ~ down
    /\ down' = TRUE
    /\ alive' = [g \in Guest |-> FALSE]
    /\ UNCHANGED <<scene, log, from, file, restarts, cancelled, drainVars, taskVars>>

FollowAgain ==
    /\ at[Follow] = "sleep"
    /\ Enter(Follow, "drain", queue)
    /\ UNCHANGED <<guestVars, tailVars, running, asking, tokens, late>>

\* Seeded bug: a cancelled follow does not drain what came last.
FollowStops ==
    /\ down \/ cancelled
    /\ at[Follow] \in {"drain", "sleep"}
    /\ at' = [at EXCEPT ![Follow] = "over"]
    /\ queue' = Others(Follow)
    /\ step' = [step EXCEPT ![Follow] = "stat"]
    /\ size' = [size EXCEPT ![Follow] = 0] /\ data' = [data EXCEPT ![Follow] = <<0, 0, 0>>]
    /\ UNCHANGED <<guestVars, tailVars, left, running, asking, tokens, late>>

\* The task group is cancelled, at the end of the drive or before: follow
\* drains once more, shielded.
FollowCancelled ==
    /\ down \/ cancelled
    /\ at[Follow] \in {"drain", "sleep"}
    /\ Enter(Follow, "final", Others(Follow))
    /\ UNCHANGED <<guestVars, tailVars, running, asking, tokens, late>>

-----------------------------------------------------------------------------

DrainSteps(t) == Stat(t) \/ Read(t) \/ Close(t)

Over == down /\ at[Follow] = "over" /\ UNCHANGED vars

Next ==
    \/ \E g \in Guest : Log(g) \/ Forward(g) \/ Restart(g) \/ Die(g)
    \/ \E t \in Task : DrainSteps(t)
    \/ \E p \in Phase : Begin(p) \/ BodyEnds(p) \/ LogToken(p) \/ TokenSent(p) \/ Again(p) \/ Timeout(p)
    \/ \E p \in Phase : PhaseStopped(p)
    \/ GroupCancelled \/ SequenceEnds \/ Teardown \/ FollowAgain \/ FollowCancelled \/ Over

\* Files are read and bodies end; timers run out; the drive ends and cancels
\* follow, and a cancel stops the phases.  No guest has to log, write or live.
Fairness ==
    /\ \A t \in Task : WF_vars(DrainSteps(t))
    /\ \A p \in Phase : WF_vars(BodyEnds(p)) /\ WF_vars(Again(p)) /\ WF_vars(Timeout(p))
    /\ \A p \in Phase : WF_vars(PhaseStopped(p))
    /\ WF_vars(SequenceEnds) /\ WF_vars(Teardown) /\ WF_vars(FollowAgain) /\ WF_vars(FollowCancelled)

Spec == Init /\ [][Next]_vars /\ Fairness

-----------------------------------------------------------------------------

Times(g, k) == Cardinality({i \in DOMAIN events[g] : k \in events[g][i].lines})

\* Each line once (Tail): however drains, timeouts and guests interleave, an
\* entry is told at most once for each time the guest wrote it.
EachOnce ==
    \A g \in Guest : \A k \in DOMAIN log[g] : Times(g, k) <= 1 + restarts[g]

\* Nothing is passed over: every whole line before the offset was told, or
\* was a token and was noted.  Not in a guest whose stream started again
\* unseen and left other lines out.
NothingLost ==
    \A g \in Guest \ mixed : \A k \in stream[g] + 1..stream[g] + (offset[g] \div 2) :
        IF log[g][k].token THEN <<g, log[g][k].by>> \in settled ELSE Times(g, k) > 0

\* "Everything logged before it has arrived too" (settle): a phase that ends
\* within its two seconds has every entry from before its token that the
\* stream carries told, in every guest that was asked, and those logged while
\* it ran told as its own.
SettledIsComplete ==
    [][\A p \in Phase : at[p] = "last" /\ at'[p] = "over" /\ p \notin late =>
          \A g \in tokens[p] \ mixed : \A k, t \in DOMAIN log[g] :
             from[g] < k /\ k < t /\ ~ log[g][k].token /\ log[g][t] = TokenOf(p) =>
                \E i \in DOMAIN events'[g] :
                   /\ k \in events'[g][i].lines
                   /\ log[g][k].by = p => events'[g][i].phase = p]_vars

\* What the file holds when follow has ended, it has told: the guests' last
\* words are in the events, if the drive was not cut short.
LastWords ==
    at[Follow] = "over" /\ ~ cancelled => \A g \in Guest : offset[g] = file[g]

\* "Evidence is worth two seconds, never a hung run" (settle): every phase
\* gets out of settle, the guests are put down and follow ends, whatever the
\* guests do.
NeverHangs == <>(down /\ at[Follow] = "over")

\* "What the guests wrote on the way down" (follow), however the drive ends.
\* It does not hold: a task group cancelled early cancels follow beside the
\* teardown (README, section 6).
WordsOnTheWayDown ==
    down /\ at[Follow] = "over" => \A g \in Guest : offset[g] = file[g]

\* "--boot carries everything logged before this unit started" (guest.nix).
\* It does not hold: no more than Backlog lines of it (README, section 6).
CarriesTheBoot ==
    down /\ at[Follow] = "over" => \A g \in Guest : \A k \in 1..from[g] : log[g][k].token \/ Times(g, k) > 0

\* "Attributed to the running phase.  That is exact because both phase
\* boundaries wait for the stream" (drain).  It does not hold: the boundary at
\* a phase's start does not wait (README, section 6).
Exact ==
    \A g \in Guest : \A i \in DOMAIN events[g] :
        LET e == events[g][i] IN e.phase # NoPhase => \A k \in e.lines : log[g][k].by = e.phase

=============================================================================
