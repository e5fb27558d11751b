------------------------------- MODULE Output -------------------------------
(***************************************************************************)
(* What a run says of itself while phases overlap (pkgs/uml/uml/session.py *)
(* _capture, _cases_from_guests, begin_case; pytest_plugin.py; events.py   *)
(* junit; junit_in.py): the process's one stdout, the one case that runs,  *)
(* the JUnit files of the guests and the JUnit document of the run.        *)
(*                                                                         *)
(* A phase is a script, in a task of the session's loop, or a suite, which *)
(* is pytest in a thread of its own.  pytest's --capture=sys is not part   *)
(* of this code: it remembers the stdout it found when it was configured,  *)
(* puts a file of its own there while a test runs and puts back what it    *)
(* remembers after each test and at its end.                               *)
(*                                                                         *)
(* Which phases overlap is Schedule's question; here two phases run at     *)
(* once exactly when they claim no guest in common, and a suite claims all *)
(* of them (phases.py: "so it runs alone").                                *)
(***************************************************************************)
EXTENDS Naturals, Sequences, FiniteSets, SequencesExt

CONSTANTS Script,       \* phases with a script
          Suite,        \* phases with pytest.tests
          Guest,
          NodesOf,      \* the guests each phase marks as its own
          Needs,        \* what each phase comes after
          Tests,        \* tests of a suite
          MaxVersion,   \* bounds how often a guest writes its JUnit file
          None

Phase == Script \cup Suite

ASSUME OutputAssumption ==
    /\ Script \cap Suite = {} /\ None \notin Phase \cup (Guest \X Nat)
    /\ "terminal" \notin Phase /\ "lines" \notin Phase
    /\ IsFiniteSet(Phase) /\ IsFiniteSet(Guest)
    /\ NodesOf \in [Phase -> (SUBSET Guest) \ {{}}]
    /\ Needs \in [Phase -> SUBSET Phase]
    /\ Tests \in Nat /\ MaxVersion \in Nat

VARIABLES at,         \* where Session.run is in each phase
          state,      \* Session.state
          stdout,     \* sys.stdout
          saved,      \* Session._stdout
          captures,   \* Session._captures
          old,        \* what each pytest remembers
          test,       \* the test each pytest is at, 0 before its first
          inTest,     \* that test runs
          case,       \* Session.case
          file,       \* each guest's JUnit file: its version and what it says
          seen,       \* Session._junit_seen
          events      \* the PHASE_FINISHED and CASE events, as Junit keeps them

vars == <<at, state, stdout, saved, captures, old, test, inTest, case, file, seen, events>>
streams == <<stdout, saved, captures, old>>

\* The streams sys.stdout can be: the terminal, the writer of _capture, the
\* file of a pytest.
Stream == {"terminal", "lines"} \cup Suite

TypeOK ==
    /\ at \in [Phase -> {"waiting", "body", "ended", "over"}]
    /\ state \in [Phase -> {"pending", "running", "passed", "failed", "skipped", "interrupted"}]
    /\ stdout \in Stream /\ saved \in Stream
    /\ captures \in Nat
    /\ old \in [Suite -> Stream]
    /\ test \in [Suite -> 0..Tests + 1] /\ inTest \subseteq Suite
    /\ case \in Suite \cup {None}

Init ==
    /\ at = [p \in Phase |-> "waiting"] /\ state = [p \in Phase |-> "pending"]
    /\ stdout = "terminal" /\ saved = "terminal" /\ captures = 0
    /\ old = [t \in Suite |-> "terminal"]
    /\ test = [t \in Suite |-> 0] /\ inTest = {} /\ case = None
    /\ file = [g \in Guest |-> [version |-> 0, says |-> "passed"]]
    /\ seen = {} /\ events = <<>>

Finished(p, s) == [kind |-> "finished", phase |-> p, outcome |-> s, from |-> None, hand |-> FALSE]
CaseOf(p, o, from, hand) ==
    [kind |-> "case", phase |-> p, outcome |-> o, from |-> from, hand |-> hand]

-----------------------------------------------------------------------------
(* A phase begins, says things and asks its guests.                        *)

\* Seeded bug: a suite claims only the guests it names.
ClaimsNodes(p) == NodesOf[p]

\* The guests a phase holds while it runs: a suite, whatever it names, all.
Claims(p) == IF p \in Suite THEN Guest ELSE NodesOf[p]

Busy == UNION {Claims(p) : p \in {q \in Phase : at[q] \in {"body", "ended"}}}

\* Seeded bug: _capture keeps what it finds each time.
CaptureInEach ==
    /\ saved' = stdout /\ stdout' = "lines"
    /\ captures' = captures + 1
    /\ UNCHANGED old

\* _capture: the first in puts the writer there.
CaptureIn ==
    /\ IF captures = 0 THEN saved' = stdout /\ stdout' = "lines" ELSE UNCHANGED <<saved, stdout>>
    /\ captures' = captures + 1
    /\ UNCHANGED old

\* Seeded bug: every end of a capture puts the terminal back.
CaptureOutEach ==
    /\ captures' = captures - 1
    /\ stdout' = saved
    /\ UNCHANGED <<saved, old>>

\* The last out puts back what the first one found.
CaptureOut ==
    /\ captures' = captures - 1
    /\ stdout' = IF captures = 1 THEN saved ELSE stdout
    /\ UNCHANGED <<saved, old>>

\* pytest is configured: it remembers what it finds.
Configure(t) ==
    /\ old' = [old EXCEPT ![t] = stdout]
    /\ UNCHANGED <<stdout, saved, captures>>

Begin(p) ==
    /\ at[p] = "waiting" /\ state[p] = "pending"
    /\ Claims(p) \cap Busy = {}
    /\ \A q \in Needs[p] : state[q] = "passed"
    /\ at' = [at EXCEPT ![p] = "body"]
    /\ state' = [state EXCEPT ![p] = "running"]
    /\ IF p \in Script THEN CaptureIn ELSE Configure(p)
    /\ UNCHANGED <<test, inTest, case, file, seen, events>>

\* It has code of its own running: a script, or a test.
InCode(p) == at[p] = "body" /\ (p \in Suite => p \in inTest)

\* Whose a print of p becomes: the writer asks the context variable, and
\* pytest's file is told with the suite's test.
PrintsAs(p) == IF stdout = "lines" THEN p ELSE stdout

\* Whose a command of p becomes: the phase is looked up by the guest, the
\* case is the session's.
CommandOf(p) == [phase |-> CHOOSE q \in Phase : at[q] = "body" /\ NodesOf[p] \cap NodesOf[q] # {},
                 case |-> case]

\* A guest of a phase writes its JUnit file, or writes it again.
GuestWrites(p, g, says) ==
    /\ at[p] = "body" /\ g \in NodesOf[p] /\ file[g].version < MaxVersion
    /\ file' = [file EXCEPT ![g] = [version |-> file[g].version + 1, says |-> says]]
    /\ UNCHANGED <<at, state, streams, test, inTest, case, seen, events>>

-----------------------------------------------------------------------------
(* pytest and its plugin.                                                  *)

\* pytest_runtest_logstart, then pytest's own file for the test.
TestStarts(t) ==
    /\ at[t] = "body" /\ t \notin inTest /\ test[t] < Tests
    /\ test' = [test EXCEPT ![t] = @ + 1]
    /\ inTest' = inTest \cup {t}
    /\ case' = t
    /\ stdout' = t
    /\ UNCHANGED <<at, state, saved, captures, old, file, seen, events>>

\* end_case.
EndCase == case' = None

\* The report of the test, and pytest_runtest_logfinish.
TestEnds(t, outcome) ==
    /\ t \in inTest
    /\ inTest' = inTest \ {t}
    /\ stdout' = old[t]
    /\ EndCase
    /\ events' = Append(events, CaseOf(t, outcome, None, FALSE))
    /\ UNCHANGED <<at, state, saved, captures, old, test, file, seen>>

CasesOf(p) == {i \in 1..Len(events) : events[i].kind = "case" /\ events[i].phase = p
                                       /\ events[i].from = None /\ ~events[i].hand}
Bad(o) == o \in {"failed", "error"}

\* _pytest: nothing collected and any case that is bad fail the phase.
SuiteFails(t) == CasesOf(t) = {} \/ \E i \in CasesOf(t) : Bad(events[i].outcome)

SuiteEnds(t) ==
    /\ at[t] = "body" /\ t \notin inTest /\ test[t] \in {0, Tests}
    /\ at' = [at EXCEPT ![t] = "ended"]
    /\ test' = [test EXCEPT ![t] = Tests + 1]
    /\ stdout' = old[t]
    /\ state' = [state EXCEPT ![t] = IF SuiteFails(t) THEN "failed" ELSE @]
    /\ UNCHANGED <<saved, captures, old, inTest, case, file, seen, events>>

\* A pytest that a person sends to a paused session: its cases are marked.
\* Bound: one such case, enough for a mark to be missing.
HandPytest(t, outcome) ==
    /\ Busy = {} /\ \A i \in 1..Len(events) : ~ events[i].hand
    /\ events' = Append(events, CaseOf(t, outcome, None, TRUE))
    /\ UNCHANGED <<at, state, streams, test, inTest, case, file, seen>>

-----------------------------------------------------------------------------
(* A phase ends.                                                           *)

ScriptEnds(p, failed) ==
    /\ at[p] = "body" /\ p \in Script
    /\ at' = [at EXCEPT ![p] = "ended"]
    /\ CaptureOut
    /\ state' = [state EXCEPT ![p] = IF failed THEN "failed" ELSE @]
    /\ UNCHANGED <<test, inTest, case, file, seen, events>>

\* Seeded bug: the memory of the file does not keep its mtime.
UnreadEver(nodes) ==
    {g \in nodes : file[g].version > 0 /\ \A r \in seen : r[1] # g}

\* _cases_from_guests: every file of these guests that has not been read at
\* this version.
Unread(nodes) ==
    {g \in nodes : file[g].version > 0 /\ <<g, file[g].version>> \notin seen}

\* Their cases, one file after the other.
Told(p, nodes) ==
    [i \in 1..Cardinality(Unread(nodes)) |->
        LET node == SetToSeq(Unread(nodes))[i]
        IN  CaseOf(p, file[node].says, <<node, file[node].version>>, FALSE)]

\* skipped_by, over what is still pending: the least set that has p and what
\* needs one of it.
Dependents(p) ==
    LET Closed(S) == p \in S /\ \A q \in Phase : Needs[q] \cap S # {} => q \in S
    IN  {q \in Phase \ {p} : state[q] = "pending" /\ \A S \in SUBSET Phase : Closed(S) => q \in S}

Rows(S) == [i \in 1..Cardinality(S) |-> Finished(SetToSeq(S)[i], "skipped")]

\* After settle: the guests' cases, the phase's own row, and when it failed
\* the rows of what will not run.
Finish(p) ==
    /\ at[p] = "ended"
    /\ at' = [at EXCEPT ![p] = "over"]
    /\ seen' = seen \cup {<<g, file[g].version>> : g \in Unread(NodesOf[p])}
    /\ IF state[p] = "failed"
       THEN /\ events' = events \o Told(p, NodesOf[p]) \o <<Finished(p, "failed")>>
                           \o Rows(Dependents(p))
            /\ state' = [q \in Phase |-> IF q \in Dependents(p) THEN "skipped" ELSE state[q]]
       ELSE /\ events' = events \o Told(p, NodesOf[p]) \o <<Finished(p, "passed")>>
            /\ state' = [state EXCEPT ![p] = "passed"]
    /\ UNCHANGED <<streams, test, inTest, case, file>>

\* Cancelled in its script: recorded at once, with no settle.
Interrupt(p) ==
    /\ at[p] = "body" /\ p \in Script
    /\ at' = [at EXCEPT ![p] = "over"]
    /\ CaptureOut
    /\ state' = [state EXCEPT ![p] = "interrupted"]
    /\ events' = Append(events, Finished(p, "interrupted"))
    /\ UNCHANGED <<test, inTest, case, file, seen>>

Next ==
    \/ \E p \in Phase : Begin(p) \/ Finish(p) \/ Interrupt(p)
    \/ \E p \in Phase, g \in Guest, says \in {"passed", "failed"} : GuestWrites(p, g, says)
    \/ \E t \in Suite : TestStarts(t) \/ SuiteEnds(t)
    \/ \E t \in Suite, o \in {"passed", "failed", "skipped"} : TestEnds(t, o) \/ HandPytest(t, o)
    \/ \E p \in Phase, failed \in BOOLEAN : ScriptEnds(p, failed)

Spec == Init /\ [][Next]_vars

-----------------------------------------------------------------------------
(* events.junit: the document made of the events.                          *)

Kept == {i \in 1..Len(events) : ~events[i].hand}
WithCases == {events[i].phase : i \in {j \in Kept : events[j].kind = "case"}}
FailingCases ==
    {events[i].phase : i \in {j \in Kept : events[j].kind = "case" /\ Bad(events[j].outcome)}}

\* A dashboard has no third outcome.
Shown(o) == IF Bad(o) \/ o = "interrupted" THEN "failed" ELSE o

\* Seeded bug: any case speaks for its phase.
LeftOutByAny(e) == e.kind = "finished" /\ e.phase \in WithCases

\* A phase's own row is left out when its cases speak for it.
LeftOut(e) ==
    e.kind = "finished" /\ e.phase \in WithCases
    /\ ~(Shown(e.outcome) = "failed" /\ e.phase \notin FailingCases)

Document ==
    {[phase |-> events[i].phase, kind |-> events[i].kind, result |-> Shown(events[i].outcome)] :
        i \in {j \in Kept : ~LeftOut(events[j])}}

Ended == \A p \in Phase : at[p] = "over" \/ (state[p] = "skipped")

-----------------------------------------------------------------------------
(* What a script prints becomes an event of that script's phase, however   *)
(* many print at once and in whichever order they end; what a test prints  *)
(* is told with its suite (session.py:257).                                *)
PrintsAttributed == \A p \in Phase : InCode(p) => PrintsAs(p) = p

(* When nothing captures any more, print reaches the terminal again        *)
(* (session.py:258: "the last one out restores the real stdout").          *)
StdoutRestored ==
    (\A p \in Phase : at[p] \in {"waiting", "ended", "over"}) => stdout = "terminal"

(* A command is counted to a test only when the suite of that test sent    *)
(* it, and a suite's command always is (session.py:541: "Exact for a       *)
(* command").                                                              *)
CommandsInTheirCase ==
    \A p \in Phase : InCode(p) => CommandOf(p) = [phase |-> p, case |-> IF p \in Suite THEN p ELSE None]

(* junit.xml tells what phases.json tells: a phase that failed or was      *)
(* stopped has a failure to show, a skipped one is skipped, and one that   *)
(* passed shows none unless a guest's own JUnit file had one               *)
(* (events.py:166).                                                        *)
JunitAgrees ==
    Ended =>
       \A p \in Phase :
          LET of == {r \in Document : r.phase = p}
              guestFailed == \E i \in 1..Len(events) : events[i].phase = p
                                /\ events[i].from # None /\ Bad(events[i].outcome) IN
          CASE state[p] \in {"failed", "interrupted"} -> \E r \in of : r.result = "failed"
            [] state[p] = "skipped" -> {r.result : r \in of} = {"skipped"}
            [] state[p] = "passed"  -> of # {} /\ ((\E r \in of : r.result = "failed") => guestFailed)
            [] OTHER -> FALSE

(* A guest's JUnit file is told once each time it was written, under a     *)
(* phase that had the guest, by the time that phase is over                *)
(* (session.py:468).                                                       *)
GuestCasesOnce ==
    /\ \A i, j \in 1..Len(events) :
          events[i].from # None /\ events[i].from = events[j].from => i = j
    /\ \A p \in Phase, g \in Guest :
          at[p] = "over" /\ state[p] \in {"passed", "failed"} /\ g \in NodesOf[p] /\ g \notin Busy
             /\ file[g].version > 0
          => \/ \E i \in 1..Len(events) : events[i].from = <<g, file[g].version>>
                                          /\ g \in NodesOf[events[i].phase]
             \/ \E q \in Phase : state[q] = "interrupted" /\ g \in NodesOf[q]
=============================================================================
