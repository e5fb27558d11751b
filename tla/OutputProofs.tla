---------------------------- MODULE OutputProofs ----------------------------
(***************************************************************************)
(* What a run says of itself is said of the right phase: for any scripts,  *)
(* suites and guests, and whichever of them overlap, prints and commands   *)
(* go to the phase they come from, the terminal gets its stdout back, the  *)
(* guests' JUnit files are told once, and junit.xml agrees with the states.*)
(***************************************************************************)
EXTENDS Output, FiniteSetTheorems, TLAPS

-----------------------------------------------------------------------------
(* Who is inside.                                                          *)

Inside(p) == at[p] \in {"body", "ended"}

\* Phases that are inside at once claim no guest in common.
Apart == \A p, q \in Phase : p # q /\ Inside(p) /\ Inside(q) => Claims(p) \cap Claims(q) = {}

\* What a phase claims: guests, at least one, and those it names.
LEMMA ClaimsType ==
    ASSUME NEW p \in Phase
    PROVE  Claims(p) \subseteq Guest /\ NodesOf[p] \subseteq Claims(p) /\ NodesOf[p] # {}
BY OutputAssumption DEF Claims

\* A suite that is inside is there alone.
LEMMA SuiteAlone ==
    ASSUME Apart, NEW t \in Suite, Inside(t), NEW p \in Phase, p # t
    PROVE  ~Inside(p)
<1>1. t \in Phase /\ Claims(t) = Guest
  BY DEF Phase, Claims
<1>2. Claims(p) \cap Claims(t) # {}
  BY <1>1, ClaimsType
<1> QED
  BY <1>1, <1>2 DEF Apart

\* The scripts that capture.
InBody == {p \in Script : at[p] = "body"}

\* How many capture once one more begins, and once one of them leaves.
LEMMA OneMoreOneLess ==
    ASSUME NEW p \in Script
    PROVE  /\ Cardinality(InBody) \in Nat
           /\ p \notin InBody => Cardinality(InBody \cup {p}) = Cardinality(InBody) + 1
           /\ p \in InBody => /\ Cardinality(InBody) # 0
                             /\ Cardinality(InBody \ {p}) = Cardinality(InBody) - 1
           /\ Cardinality(InBody) = 0 <=> InBody = {}
<1>1. IsFiniteSet(InBody)
  BY OutputAssumption, FS_Subset, InBody \in SUBSET Phase DEF InBody, Phase
<1> QED
  BY <1>1, FS_CardinalityType, FS_AddElement, FS_RemoveElement, FS_EmptySet

\* Where each phase is, and what is said of it meanwhile.
Placed ==
    /\ TypeOK /\ Apart
    /\ captures = Cardinality(InBody)
    /\ \A p \in Phase :
          /\ at[p] = "waiting" => state[p] \in {"pending", "skipped"}
          /\ at[p] = "body" => state[p] = "running"
          /\ at[p] = "ended" => state[p] \in {"running", "failed"}
          /\ at[p] = "over" => state[p] \in {"passed", "failed", "interrupted"}

\* Nobody is inside at first.
LEMMA PlacedInit == Init => Placed
<1> SUFFICES ASSUME Init PROVE Placed
  OBVIOUS
<1>1. InBody = {} /\ Cardinality(InBody) = 0
  BY FS_EmptySet DEF Init, InBody, Phase
<1> QED
  BY <1>1, OutputAssumption DEF Init, Placed, TypeOK, Apart, Inside, Stream, Phase

\* Who begins is apart from whoever is inside.
LEMMA PlacedBegin ==
    ASSUME Placed, NEW p \in Phase, Begin(p)
    PROVE  Placed'
<1> USE DEF Placed, TypeOK
<1>1. at' = [at EXCEPT ![p] = "body"] /\ at[p] = "waiting"
  BY DEF Begin
<1>2. captures' = Cardinality(InBody')
  <2>1. CASE p \in Script
    <3>1. InBody' = InBody \cup {p} /\ p \notin InBody
      BY <2>1, <1>1 DEF InBody, Phase
    <3> QED
      BY <2>1, <3>1, OneMoreOneLess DEF Begin, CaptureIn
  <2>2. CASE p \notin Script
    <3>1. InBody' = InBody
      BY <2>2, <1>1 DEF InBody, Phase
    <3> QED
      BY <2>2, <3>1 DEF Begin, Configure
  <2> QED
    BY <2>1, <2>2
<1>3. captures' \in Nat
  BY DEF Begin, CaptureIn, Configure
<1>4. TypeOK'
  BY <1>3, OutputAssumption DEF Begin, CaptureIn, Configure, Stream, Phase
<1>5. Apart'
  <2> SUFFICES ASSUME NEW q \in Phase, q # p, Inside(q) PROVE Claims(p) \cap Claims(q) = {}
    BY <1>1 DEF Apart, Inside, Claims
  <2>1. Claims(q) \subseteq Busy
    BY DEF Busy, Inside
  <2> QED
    BY <2>1 DEF Begin
<1> QED
  BY <1>2, <1>4, <1>5 DEF Begin

\* A script leaves its body and captures no more.
LEMMA PlacedLeave ==
    ASSUME Placed, NEW p \in Phase, Interrupt(p) \/ \E failed \in BOOLEAN : ScriptEnds(p, failed)
    PROVE  Placed'
<1> USE DEF Placed, TypeOK
<1>1. /\ p \in Script /\ at[p] = "body" /\ CaptureOut
      /\ \E s \in {"ended", "over"} : at' = [at EXCEPT ![p] = s]
  BY DEF Interrupt, ScriptEnds
<1>2. InBody' = InBody \ {p} /\ p \in InBody
  BY <1>1 DEF InBody, Phase
<1>3. captures' = Cardinality(InBody') /\ captures' \in Nat
  <2>1. Cardinality(InBody) # 0 /\ Cardinality(InBody \ {p}) = Cardinality(InBody) - 1
    BY <1>1, <1>2, OneMoreOneLess
  <2>2. captures' = captures - 1 /\ captures \in Nat /\ captures = Cardinality(InBody)
    BY <1>1 DEF CaptureOut
  <2> QED
    BY <1>2, <2>1, <2>2
<1>4. TypeOK'
  BY <1>1, <1>3 DEF Interrupt, ScriptEnds, CaptureOut
<1>5. Apart'
  BY <1>1 DEF Apart, Inside, Claims
<1> QED
  BY <1>3, <1>4, <1>5 DEF Interrupt, ScriptEnds

\* A phase is recorded, and what depends on a failed one is skipped.
LEMMA PlacedFinish ==
    ASSUME Placed, NEW p \in Phase, Finish(p)
    PROVE  Placed'
<1> USE DEF Placed, TypeOK
<1>1. p \notin Dependents(p) /\ \A q \in Dependents(p) : q \in Phase /\ state[q] = "pending"
  BY DEF Dependents
<1>2. /\ at' = [at EXCEPT ![p] = "over"] /\ at[p] = "ended"
      /\ UNCHANGED <<stdout, saved, captures, old, test, inTest, case>>
  BY DEF Finish, streams
<1>3. Apart' /\ InBody' = InBody
  BY <1>2 DEF Apart, Inside, Claims, InBody, Phase
<1>4. state' \in [Phase -> {"pending", "running", "passed", "failed", "skipped", "interrupted"}]
  BY DEF Finish
<1>5. \A q \in Phase \ {p} : state'[q] = state[q] \/ (state[q] = "pending" /\ state'[q] = "skipped")
  BY <1>1 DEF Finish
<1>6. state'[p] \in {"passed", "failed"}
  BY <1>1 DEF Finish
<1> QED
  BY <1>2, <1>3, <1>4, <1>5, <1>6

\* Who begins is apart from whoever is inside, and who ends leaves.
LEMMA PlacedStep == Placed /\ [Next]_vars => Placed'
<1> SUFFICES ASSUME Placed, [Next]_vars PROVE Placed'
  OBVIOUS
<1> USE DEF Placed, TypeOK
<1>1. ASSUME NEW p \in Phase, NEW g \in Guest, NEW says \in {"passed", "failed"}, GuestWrites(p, g, says)
      PROVE  Placed'
  BY <1>1 DEF GuestWrites, streams, Apart, Inside, Claims, InBody
<1>2. ASSUME NEW t \in Suite, TestStarts(t) \/ \E o \in {"passed", "failed", "skipped"} : TestEnds(t, o)
      PROVE  Placed'
  <2>1. UNCHANGED <<at, state, saved, captures, old>>
    BY <1>2 DEF TestStarts, TestEnds
  <2>2. stdout' \in Stream /\ inTest' \subseteq Suite /\ case' \in Suite \cup {None}
    BY <1>2 DEF TestStarts, TestEnds, EndCase, Stream
  <2>3. test' \in [Suite -> 0..Tests + 1]
    <3>1. test[t] \in Nat /\ Tests \in Nat /\ (test[t] < Tests => test[t] + 1 \in 0..Tests + 1)
      BY OutputAssumption
    <3> QED
      BY <1>2, <3>1 DEF TestStarts, TestEnds
  <2> QED
    BY <2>1, <2>2, <2>3 DEF Apart, Inside, Claims, InBody
<1>3. ASSUME NEW t \in Suite, SuiteEnds(t) PROVE Placed'
  <2>1. InBody' = InBody
    BY <1>3, OutputAssumption DEF SuiteEnds, InBody, Phase
  <2> QED
    BY <2>1, <1>3, OutputAssumption DEF SuiteEnds, Apart, Inside, Claims, Phase
<1>4. ASSUME NEW t \in Suite, NEW o \in {"passed", "failed", "skipped"}, HandPytest(t, o) PROVE Placed'
  BY <1>4 DEF HandPytest, streams, Apart, Inside, Claims, InBody
<1>5. CASE UNCHANGED vars
  BY <1>5 DEF vars, Apart, Inside, Claims, InBody
<1> QED
  BY <1>1, <1>2, <1>3, <1>4, <1>5, PlacedBegin, PlacedLeave, PlacedFinish DEF Next

-----------------------------------------------------------------------------
(* The process's one stdout.                                               *)

\* Scripts share the writer that the first of them put before the terminal;
\* a suite is alone, found the terminal, and has it back between its tests.
StreamInv ==
    /\ InBody # {} => stdout = "lines" /\ saved = "terminal"
    /\ (\A p \in Phase : at[p] # "body") => stdout = "terminal"
    /\ \A t \in Suite : at[t] = "body" =>
          old[t] = "terminal" /\ stdout = IF t \in inTest THEN t ELSE "terminal"
    /\ \A t \in inTest : at[t] = "body"
    /\ inTest = IF case = None THEN {} ELSE {case}

\* At first it is the terminal's.
LEMMA StreamInit == Init => StreamInv
BY DEF Init, StreamInv, InBody, Phase

\* The first script to begin puts the writer there, over the terminal's; a
\* suite finds the terminal.
LEMMA StreamBegin ==
    ASSUME Placed, StreamInv, NEW p \in Phase, Begin(p)
    PROVE  StreamInv'
<1> USE DEF Placed, TypeOK
<1>1. /\ at' = [at EXCEPT ![p] = "body"] /\ at[p] = "waiting"
      /\ UNCHANGED <<inTest, case>>
  BY DEF Begin
<1>2. p \notin inTest
  BY <1>1 DEF StreamInv
<1>3. \A q \in Phase \ {p} : at'[q] = at[q] /\ (at[q] = "body" => q \in Script /\ p \in Script)
  <2> SUFFICES ASSUME NEW q \in Phase \ {p}, at[q] = "body" PROVE q \in Script /\ p \in Script
    BY <1>1
  <2>1. Claims(q) \subseteq Busy /\ Claims(p) \cap Busy = {}
    BY DEF Busy, Begin
  <2> QED
    BY <2>1, ClaimsType DEF Claims, Phase
<1>4. CASE p \in Script
  <2>1. captures = 0 <=> InBody = {}
    BY <1>4, OneMoreOneLess
  <2>2. CaptureIn
    BY <1>4 DEF Begin
  <2>3. InBody = {} => stdout = "terminal"
    BY <1>3, <1>1, <1>4 DEF StreamInv, InBody, Phase
  <2>4. stdout' = "lines" /\ saved' = "terminal"
    BY <2>1, <2>2, <2>3 DEF CaptureIn, StreamInv
  <2>5. \A t \in Suite : at'[t] # "body"
    BY <1>1, <1>3, <1>4, OutputAssumption DEF Phase
  <2>6. inTest = {}
    BY <2>5, <1>2, <1>1 DEF StreamInv, Phase
  <2> QED
    BY <1>1, <1>4, <2>4, <2>5, <2>6 DEF StreamInv
<1>5. CASE p \notin Script
  <2>1. p \in Suite /\ InBody = {} /\ stdout = "terminal"
    <3>1. \A q \in Phase : at[q] # "body"
      BY <1>1, <1>3, <1>5
    <3> QED
      BY <3>1, <1>5 DEF StreamInv, InBody, Phase
  <2>2. old' = [old EXCEPT ![p] = "terminal"] /\ stdout' = "terminal"
    BY <1>5, <2>1 DEF Begin, Configure
  <2>3. InBody' = {}
    BY <1>1, <1>3, <1>5, <2>1 DEF InBody, Phase
  <2>4. \A t \in Suite : at'[t] = "body" => t = p
    BY <1>1, <1>3, <1>5 DEF Phase
  <2>5. inTest = {}
    BY <1>1, <1>2, <1>3, <1>5 DEF StreamInv, Phase
  <2> QED
    BY <1>1, <2>1, <2>2, <2>3, <2>4, <2>5 DEF StreamInv
<1> QED
  BY <1>4, <1>5

\* A script leaves: the last one out puts the terminal's back.
LEMMA StreamLeave ==
    ASSUME Placed, StreamInv, NEW p \in Phase, Interrupt(p) \/ \E failed \in BOOLEAN : ScriptEnds(p, failed)
    PROVE  StreamInv'
<1> USE DEF Placed, TypeOK
<1>1. /\ p \in Script /\ at[p] = "body" /\ CaptureOut /\ UNCHANGED <<inTest, case>>
      /\ \E s \in {"ended", "over"} : at' = [at EXCEPT ![p] = s]
  BY DEF Interrupt, ScriptEnds
<1>2. InBody' = InBody \ {p} /\ p \in InBody
  BY <1>1 DEF InBody, Phase
<1>3. captures = 1 <=> InBody' = {}
  <2>1. Cardinality(InBody \ {p}) = captures - 1 /\ captures \in Nat
    BY <1>1, <1>2, OneMoreOneLess
  <2>2. Cardinality(InBody \ {p}) = 0 <=> InBody \ {p} = {}
    BY OutputAssumption, FS_Subset, FS_EmptySet, InBody \ {p} \in SUBSET Phase DEF InBody, Phase
  <2> QED
    BY <1>2, <2>1, <2>2
<1>4. stdout = "lines" /\ saved = "terminal"
  BY <1>2 DEF StreamInv
<1>5. \A t \in Suite : at[t] # "body" /\ at'[t] # "body"
  <2> SUFFICES ASSUME NEW t \in Suite, at[t] = "body" PROVE FALSE
    BY <1>1, OutputAssumption DEF Phase
  <2> QED
    BY <1>1, SuiteAlone, OutputAssumption DEF Inside, Phase
<1>6. inTest = {}
  BY <1>5 DEF StreamInv
<1>7. InBody' # {} => \E q \in Phase : at'[q] = "body"
  BY DEF InBody, Phase
<1> QED
  BY <1>1, <1>3, <1>4, <1>5, <1>6, <1>7 DEF StreamInv, CaptureOut

\* A test runs under its own stream and name, and gives both back.
LEMMA StreamTest ==
    ASSUME Placed, StreamInv, NEW t \in Suite,
           \/ TestStarts(t) \/ SuiteEnds(t)
           \/ \E o \in {"passed", "failed", "skipped"} : TestEnds(t, o)
    PROVE  StreamInv'
<1> USE DEF Placed, TypeOK
<1>1. at[t] = "body" /\ t \in Phase /\ t \notin Script /\ t # None
  BY OutputAssumption DEF TestStarts, SuiteEnds, TestEnds, StreamInv, Phase
<1>2. \A p \in Phase : p # t => at[p] # "body"
  BY <1>1, SuiteAlone DEF Inside
<1>3. InBody = {} /\ inTest \subseteq {t} /\ old[t] = "terminal"
  BY <1>1, <1>2 DEF InBody, StreamInv, Phase
<1>4. CASE TestStarts(t)
  BY <1>1, <1>2, <1>3, <1>4 DEF TestStarts, StreamInv, InBody, Phase
<1>5. CASE \E o \in {"passed", "failed", "skipped"} : TestEnds(t, o)
  BY <1>1, <1>2, <1>3, <1>5 DEF TestEnds, EndCase, StreamInv, InBody, Phase
<1>6. CASE SuiteEnds(t)
  <2>1. inTest = {} /\ inTest' = {} /\ case' = case /\ stdout' = "terminal"
    BY <1>3, <1>6 DEF SuiteEnds
  <2>2. \A p \in Phase : at'[p] # "body"
    BY <1>1, <1>2, <1>6 DEF SuiteEnds
  <2> QED
    BY <2>1, <2>2 DEF StreamInv, InBody, Phase
<1> QED
  BY <1>4, <1>5, <1>6

\* Whatever happens the stream is whoever's prints it takes.
LEMMA StreamStep == Placed /\ StreamInv /\ [Next]_vars => StreamInv'
<1> SUFFICES ASSUME Placed, StreamInv, [Next]_vars PROVE StreamInv'
  OBVIOUS
<1>1. ASSUME UNCHANGED <<streams, at, inTest, case>> PROVE StreamInv'
  BY <1>1 DEF streams, StreamInv, InBody
<1>2. ASSUME NEW p \in Phase, Finish(p) PROVE StreamInv'
  <2>1. /\ at' = [at EXCEPT ![p] = "over"] /\ at[p] = "ended"
        /\ UNCHANGED <<stdout, saved, captures, old, test, inTest, case>>
    BY <1>2 DEF Finish, streams
  <2>2. \A q \in Phase : at'[q] = "body" <=> at[q] = "body"
    BY <2>1 DEF Placed, TypeOK
  <2>3. InBody' = InBody
    BY <2>2 DEF InBody, Phase
  <2> QED
    BY <2>1, <2>2, <2>3 DEF StreamInv, Phase, Placed, TypeOK
<1>3. ASSUME NEW p \in Phase, NEW g \in Guest, NEW says \in {"passed", "failed"}, GuestWrites(p, g, says)
      PROVE  StreamInv'
  BY <1>3, <1>1 DEF GuestWrites
<1>4. ASSUME NEW t \in Suite, NEW o \in {"passed", "failed", "skipped"}, HandPytest(t, o) PROVE StreamInv'
  BY <1>4, <1>1 DEF HandPytest
<1>5. CASE UNCHANGED vars
  BY <1>5, <1>1 DEF vars, streams
<1> QED
  BY <1>2, <1>3, <1>4, <1>5, StreamBegin, StreamLeave, StreamTest DEF Next

\* What the streams say of who is inside, in every state.
LEMMA StreamsHold == Spec => [](Placed /\ StreamInv)
<1>1. Init => Placed /\ StreamInv
  BY PlacedInit, StreamInit
<1>2. Placed /\ StreamInv /\ [Next]_vars => (Placed /\ StreamInv)'
  BY PlacedStep, StreamStep
<1> QED
  BY <1>1, <1>2, PTL DEF Spec

(* What a script prints becomes an event of that script's phase, however   *)
(* many print at once and in whichever order they end, and what a test     *)
(* prints is told with its suite (session.py _capture, _Lines).            *)
THEOREM PrintsAreAttributed == Spec => []PrintsAttributed
<1>1. Placed /\ StreamInv => PrintsAttributed
  <2> SUFFICES ASSUME Placed, StreamInv, NEW p \in Phase, InCode(p) PROVE PrintsAs(p) = p
    BY DEF PrintsAttributed
  <2>1. CASE p \in Script
    BY <2>1 DEF InCode, InBody, StreamInv, PrintsAs
  <2>2. CASE p \in Suite
    BY <2>2, OutputAssumption DEF InCode, StreamInv, PrintsAs
  <2> QED
    BY <2>1, <2>2 DEF Phase
<1> QED
  BY <1>1, StreamsHold, PTL

(* When nothing captures any more, print reaches the terminal again: the   *)
(* last one out restores the real stdout (session.py _capture).            *)
THEOREM TerminalComesBack == Spec => []StdoutRestored
<1>1. Placed /\ StreamInv => StdoutRestored
  BY DEF StdoutRestored, StreamInv
<1> QED
  BY <1>1, StreamsHold, PTL

(* A command is counted to a test only when the suite of that test sent it,*)
(* and a suite's command always is: suites run alone, so one field of the  *)
(* session is enough (session.py begin_case, _command; phases.py claims).  *)
THEOREM CommandsAreAttributed == Spec => []CommandsInTheirCase
<1>1. Placed /\ StreamInv => CommandsInTheirCase
  <2> SUFFICES ASSUME Placed, StreamInv, NEW p \in Phase, InCode(p)
               PROVE  CommandOf(p) = [phase |-> p, case |-> IF p \in Suite THEN p ELSE None]
    BY DEF CommandsInTheirCase
  <2>1. ASSUME NEW q \in Phase, at[q] = "body" /\ NodesOf[p] \cap NodesOf[q] # {}
        PROVE  q = p
    <3>1. Claims(p) \cap Claims(q) # {}
      BY <2>1, ClaimsType
    <3> QED
      BY <2>1, <3>1 DEF Placed, Apart, Inside, InCode
  <2>2. at[p] = "body" /\ NodesOf[p] \cap NodesOf[p] # {}
    BY ClaimsType DEF InCode
  <2>3. (CHOOSE q \in Phase : at[q] = "body" /\ NodesOf[p] \cap NodesOf[q] # {}) = p
    BY <2>1, <2>2
  <2>4. case = IF p \in Suite THEN p ELSE None
    <3>1. CASE p \in Suite
      BY <3>1 DEF InCode, StreamInv
    <3>2. CASE p \notin Suite
      <4> SUFFICES ASSUME case # None PROVE FALSE
        BY <3>2
      <4>1. case \in Suite /\ at[case] = "body" /\ case # p
        BY <3>2 DEF StreamInv, Placed, TypeOK
      <4> QED
        BY <2>2, <4>1, SuiteAlone DEF Inside, Placed
    <3> QED
      BY <3>1, <3>2
  <2> QED
    BY <2>3, <2>4 DEF CommandOf
<1> QED
  BY <1>1, StreamsHold, PTL

-----------------------------------------------------------------------------
(* Lists of events, as the sets of what is in them.                        *)

Outcome == {"passed", "failed", "skipped", "interrupted"}
Row == [kind : {"finished", "case"}, phase : Phase, outcome : Outcome,
        from : (Guest \X Nat) \cup {None}, hand : BOOLEAN]

\* No guest's file is told twice in a list.
Once(s) == \A i, j \in 1..Len(s) : s[i].from # None /\ s[i].from = s[j].from => i = j

\* What one list after another has, and when it tells no file twice.
LEMMA ConcatRows ==
    ASSUME NEW s \in Seq(Row), NEW u \in Seq(Row)
    PROVE  /\ s \o u \in Seq(Row) /\ ToSet(s \o u) = ToSet(s) \cup ToSet(u)
           /\ Once(s) /\ Once(u) /\ (\A e \in ToSet(s), d \in ToSet(u) : e.from = None \/ e.from # d.from)
                => Once(s \o u)
<1>1. /\ s \o u \in Seq(Row) /\ Len(s \o u) = Len(s) + Len(u)
      /\ \A i \in 1..Len(s) + Len(u) : (s \o u)[i] = IF i <= Len(s) THEN s[i] ELSE u[i - Len(s)]
  OBVIOUS
<1>2. /\ \A i \in 1..Len(s) : i \in 1..Len(s \o u) /\ (s \o u)[i] = s[i]
      /\ \A j \in 1..Len(u) : j + Len(s) \in 1..Len(s \o u) /\ (s \o u)[j + Len(s)] = u[j]
  BY <1>1
<1>3. \A i \in 1..Len(s \o u) :
         \/ i \in 1..Len(s) /\ (s \o u)[i] = s[i]
         \/ i - Len(s) \in 1..Len(u) /\ (s \o u)[i] = u[i - Len(s)]
  BY <1>1
<1>4. ToSet(s \o u) = ToSet(s) \cup ToSet(u)
  <2>1. ToSet(s \o u) \subseteq ToSet(s) \cup ToSet(u)
    BY <1>3 DEF ToSet
  <2>2. ToSet(s) \subseteq ToSet(s \o u)
    BY <1>2 DEF ToSet
  <2>3. ToSet(u) \subseteq ToSet(s \o u)
    BY <1>2 DEF ToSet
  <2> QED
    BY <2>1, <2>2, <2>3
<1>5. ASSUME Once(s), Once(u), \A e \in ToSet(s), d \in ToSet(u) : e.from = None \/ e.from # d.from,
             NEW i \in 1..Len(s \o u), NEW j \in 1..Len(s \o u),
             (s \o u)[i].from # None, (s \o u)[i].from = (s \o u)[j].from
      PROVE  i = j
  <2>1. \A k \in 1..Len(s) : s[k] \in ToSet(s)
    BY DEF ToSet
  <2>2. \A k \in 1..Len(u) : u[k] \in ToSet(u)
    BY DEF ToSet
  <2>3. CASE i \in 1..Len(s) /\ j \in 1..Len(s)
    BY <2>3, <1>2, <1>5 DEF Once
  <2>4. CASE i - Len(s) \in 1..Len(u) /\ j - Len(s) \in 1..Len(u)
    <3>1. u[i - Len(s)] = (s \o u)[i] /\ u[j - Len(s)] = (s \o u)[j]
      BY <2>4, <1>1
    <3>2. i - Len(s) = j - Len(s)
      BY <3>1, <2>4, <1>5 DEF Once
    <3> QED
      BY <3>2
  <2>5. CASE i \in 1..Len(s) /\ j - Len(s) \in 1..Len(u)
    BY <2>5, <2>1, <2>2, <1>1, <1>2, <1>5
  <2>6. CASE i - Len(s) \in 1..Len(u) /\ j \in 1..Len(s)
    BY <2>6, <2>1, <2>2, <1>1, <1>2, <1>5
  <2> QED
    BY <2>3, <2>4, <2>5, <2>6, <1>3
<1> QED
  BY <1>1, <1>4, <1>5 DEF Once

\* A list of one row.
LEMMA OneRow ==
    ASSUME NEW r \in Row
    PROVE  <<r>> \in Seq(Row) /\ ToSet(<<r>>) = {r} /\ Once(<<r>>)
BY DEF ToSet, Once

\* A list with one row more.
LEMMA AppendRow ==
    ASSUME NEW s \in Seq(Row), NEW r \in Row
    PROVE  /\ Append(s, r) \in Seq(Row) /\ ToSet(Append(s, r)) = ToSet(s) \cup {r}
           /\ Once(s) /\ r.from = None => Once(Append(s, r))
<1>1. /\ Append(s, r) \in Seq(Row) /\ Len(Append(s, r)) = Len(s) + 1
      /\ \A i \in 1..Len(s) : Append(s, r)[i] = s[i]
      /\ Append(s, r)[Len(s) + 1] = r
  OBVIOUS
<1>2. \A i \in 1..Len(s) + 1 : i \in 1..Len(s) \/ i = Len(s) + 1
  OBVIOUS
<1>3. 1..Len(s) \subseteq 1..Len(s) + 1 /\ Len(s) + 1 \in 1..Len(s) + 1
  OBVIOUS
<1> QED
  BY <1>1, <1>2, <1>3 DEF ToSet, Once

\* Every member of a set is listed, and once.
LEMMA SetListed ==
    ASSUME NEW S, IsFiniteSet(S)
    PROVE  /\ Cardinality(S) \in Nat
           /\ SetToSeq(S) \in [1..Cardinality(S) -> S]
           /\ \A i, j \in 1..Cardinality(S) : SetToSeq(S)[i] = SetToSeq(S)[j] => i = j
           /\ \A x \in S : \E i \in 1..Cardinality(S) : SetToSeq(S)[i] = x
<1> DEFINE n == Cardinality(S)
<1>1. n \in Nat /\ ExistsBijection(1..n, S)
  BY FS_CardinalityType
<1>2. \E s \in [1..n -> S] : \A i, j \in DOMAIN s : s[i] = s[j] => i = j
  BY <1>1 DEF ExistsBijection, Bijection, Injection, IsInjective
<1>3. SetToSeq(S) \in [1..n -> S] /\ \A i, j \in 1..n : SetToSeq(S)[i] = SetToSeq(S)[j] => i = j
  BY <1>2 DEF SetToSeq, IsInjective
<1>4. SetToSeq(S) \in Injection(1..n, S)
  BY <1>3 DEF Injection, IsInjective
<1>5. Cardinality(1..n) = n
  BY <1>1, FS_Interval
<1>6. SetToSeq(S) \in Surjection(1..n, S)
  BY <1>4, <1>5, FS_Injection
<1> QED
  BY <1>1, <1>3, <1>6 DEF Surjection

-----------------------------------------------------------------------------
(* The events, and what they have to do with the states.                   *)

\* Rows of either kind, and whose a case is: of a test of the run's own, of
\* a guest's file, of a test sent by hand.
RowOf(e, p) == e.kind = "finished" /\ e.phase = p
OwnCase(e) == e.kind = "case" /\ e.from = None /\ ~e.hand
IsTold(rows, g, v) == \E e \in rows : e.from = <<g, v>> /\ g \in NodesOf[e.phase]

EventTypes ==
    /\ events \in Seq(Row)
    /\ file \in [Guest -> [version : Nat, says : {"passed", "failed"}]]
    /\ seen \subseteq Guest \X Nat

\* A phase's own row is its last word, and it has one when it has its answer.
FinishedRows ==
    /\ \A e \in ToSet(events) : e.kind = "finished" =>
          /\ e.from = None /\ ~e.hand /\ e.outcome = state[e.phase]
          /\ at[e.phase] = "over" \/ state[e.phase] = "skipped"
    /\ \A p \in Phase : at[p] = "over" \/ state[p] = "skipped" =>
          \E e \in ToSet(events) : RowOf(e, p)

\* A case is of a suite that has begun or of a guest of a phase that is over,
\* and a suite that failed no test has no case that failed.
CaseRows ==
    /\ \A e \in ToSet(events) : e.kind = "case" =>
          /\ e.outcome \in {"passed", "failed", "skipped"}
          /\ OwnCase(e) => e.phase \in Suite /\ at[e.phase] # "waiting"
          /\ e.from # None => ~e.hand /\ at[e.phase] = "over"
    /\ \A t \in Suite : at[t] \in {"ended", "over"} /\ state[t] \in {"running", "passed"} =>
          \A e \in ToSet(events) : OwnCase(e) /\ e.phase = t => ~Bad(e.outcome)

\* What was read was told, and told once, under a phase that has the guest;
\* what was written has been told, or a phase that has the guest is inside or
\* was interrupted.
FileRows ==
    /\ Once(events)
    /\ \A e \in ToSet(events) : e.from # None => e.from \in seen
    /\ \A g \in Guest, v \in Nat : <<g, v>> \in seen => IsTold(ToSet(events), g, v)
    /\ \A g \in Guest : file[g].version > 0 =>
          \/ IsTold(ToSet(events), g, file[g].version)
          \/ \E q \in Phase : g \in NodesOf[q] /\ (Inside(q) \/ state[q] = "interrupted")

EventInv == EventTypes /\ FinishedRows /\ CaseRows /\ FileRows

\* Nothing has been said at first.
LEMMA EventInit == Init => EventInv
<1> SUFFICES ASSUME Init PROVE EventInv
  OBVIOUS
<1>1. events = <<>> /\ events \in Seq(Row) /\ ToSet(events) = {} /\ Once(events)
  BY DEF Init, ToSet, Once
<1>2. /\ at = [p \in Phase |-> "waiting"] /\ state = [p \in Phase |-> "pending"]
      /\ file = [g \in Guest |-> [version |-> 0, says |-> "passed"]] /\ seen = {}
  BY DEF Init
<1>3. EventTypes
  BY <1>1, <1>2 DEF EventTypes
<1>4. FinishedRows /\ CaseRows
  BY <1>1, <1>2, OutputAssumption DEF FinishedRows, CaseRows, Phase
<1>5. FileRows
  BY <1>1, <1>2 DEF FileRows
<1> QED
  BY <1>3, <1>4, <1>5 DEF EventInv

\* The cases of a guest's files, as a set.
ToldRows(p) == {CaseOf(p, file[g].says, <<g, file[g].version>>, FALSE) : g \in Unread(NodesOf[p])}

\* Every unread file is told, and once.
LEMMA ToldListed ==
    ASSUME Placed, EventTypes, NEW p \in Phase
    PROVE  /\ Told(p, NodesOf[p]) \in Seq(Row)
           /\ ToSet(Told(p, NodesOf[p])) = ToldRows(p)
           /\ Once(Told(p, NodesOf[p]))
<1> DEFINE U == Unread(NodesOf[p])
           n == Cardinality(U)
           Case(g) == CaseOf(p, file[g].says, <<g, file[g].version>>, FALSE)
           T == Told(p, NodesOf[p])
<1>1. U \subseteq Guest /\ IsFiniteSet(U)
  <2>1. U \subseteq Guest
    BY OutputAssumption DEF Unread
  <2> QED
    BY <2>1, OutputAssumption, FS_Subset
<1>2. /\ n \in Nat /\ SetToSeq(U) \in [1..n -> U]
      /\ \A i, j \in 1..n : SetToSeq(U)[i] = SetToSeq(U)[j] => i = j
      /\ \A x \in U : \E i \in 1..n : SetToSeq(U)[i] = x
  BY <1>1, SetListed
<1>3. \A g \in U : Case(g) \in Row
  BY <1>1 DEF EventTypes, CaseOf, Row, Outcome
<1>4. T = [i \in 1..n |-> Case(SetToSeq(U)[i])]
  BY DEF Told
<1>5. \A g \in U : Case(g).from = <<g, file[g].version>>
  BY DEF CaseOf
<1> HIDE DEF Case, U, T
<1>6. T \in Seq(Row) /\ Len(T) = n /\ DOMAIN T = 1..n
  BY <1>2, <1>3, <1>4
<1>7. ToSet(T) = {Case(g) : g \in U}
  <2>1. ToSet(T) = {Case(SetToSeq(U)[i]) : i \in 1..n}
    BY <1>4, <1>6 DEF ToSet
  <2> QED
    BY <2>1, <1>2
<1>8. Once(T)
  <2> SUFFICES ASSUME NEW i \in 1..n, NEW j \in 1..n, T[i].from = T[j].from PROVE i = j
    BY <1>6 DEF Once
  <2>1. SetToSeq(U)[i] \in U /\ SetToSeq(U)[j] \in U
    BY <1>2
  <2>2. T[i].from = <<SetToSeq(U)[i], file[SetToSeq(U)[i]].version>>
        /\ T[j].from = <<SetToSeq(U)[j], file[SetToSeq(U)[j]].version>>
    <3>1. T[i] = Case(SetToSeq(U)[i]) /\ T[j] = Case(SetToSeq(U)[j])
      BY <1>4
    <3> QED
      BY <3>1, <1>5, <2>1
  <2>3. \A x, y, v, w : <<x, v>> = <<y, w>> => x = y
    OBVIOUS
  <2>4. <<SetToSeq(U)[i], file[SetToSeq(U)[i]].version>> = <<SetToSeq(U)[j], file[SetToSeq(U)[j]].version>>
    BY <2>2
  <2>5. SetToSeq(U)[i] = SetToSeq(U)[j]
    BY <2>3, <2>4
  <2> QED
    BY <2>5, <1>2
<1> QED
  BY <1>6, <1>7, <1>8 DEF T, Case, U, ToldRows

\* Every phase that is skipped gets its row.
LEMMA SkippedListed ==
    ASSUME NEW S \in SUBSET Phase
    PROVE  /\ Rows(S) \in Seq(Row)
           /\ ToSet(Rows(S)) = {Finished(q, "skipped") : q \in S}
           /\ Once(Rows(S))
<1> DEFINE n == Cardinality(S)
           RowOfOne(q) == Finished(q, "skipped")
<1>1. /\ n \in Nat /\ SetToSeq(S) \in [1..n -> S]
      /\ \A x \in S : \E i \in 1..n : SetToSeq(S)[i] = x
  BY SetListed, FS_Subset, OutputAssumption
<1>2. \A q \in S : RowOfOne(q) \in Row /\ RowOfOne(q).from = None
  BY DEF Finished, Row, Outcome
<1>3. Rows(S) = [i \in 1..n |-> RowOfOne(SetToSeq(S)[i])]
  BY DEF Rows
<1> HIDE DEF RowOfOne
<1>4. Rows(S) \in Seq(Row) /\ Len(Rows(S)) = n /\ DOMAIN Rows(S) = 1..n
  BY <1>1, <1>2, <1>3
<1>5. ToSet(Rows(S)) = {RowOfOne(q) : q \in S}
  <2>1. ToSet(Rows(S)) = {RowOfOne(SetToSeq(S)[i]) : i \in 1..n}
    BY <1>3, <1>4 DEF ToSet
  <2> QED
    BY <2>1, <1>1
<1>6. Once(Rows(S))
  BY <1>1, <1>2, <1>3, <1>4 DEF Once
<1> QED
  BY <1>4, <1>5, <1>6 DEF RowOfOne

\* The phases a step skips.
Skips(p) == IF state[p] = "failed" THEN Dependents(p) ELSE {}

\* What a phase that is recorded adds to the events and to the states.
LEMMA FinishAdds ==
    ASSUME Placed, EventInv, NEW p \in Phase, Finish(p)
    PROVE  /\ events' \in Seq(Row) /\ Once(events')
           /\ ToSet(events') = ToSet(events) \cup ToldRows(p)
                                  \cup {Finished(p, state'[p])} \cup {Finished(q, "skipped") : q \in Skips(p)}
           /\ state'[p] \in {"passed", "failed"} /\ (state[p] = "failed" <=> state'[p] = "failed")
           /\ \A q \in Phase \ {p} : state'[q] = IF q \in Skips(p) THEN "skipped" ELSE state[q]
           /\ \A q \in Skips(p) : q \in Phase \ {p} /\ state[q] = "pending"
<1> DEFINE T == Told(p, NodesOf[p])
           R == Rows(Skips(p))
<1>1. \A q \in Skips(p) : q \in Phase \ {p} /\ state[q] = "pending"
  BY DEF Skips, Dependents
<1>2. /\ state'[p] \in {"passed", "failed"} /\ (state[p] = "failed" <=> state'[p] = "failed")
      /\ \A q \in Phase \ {p} : state'[q] = IF q \in Skips(p) THEN "skipped" ELSE state[q]
  <2>1. p \notin Dependents(p)
    BY DEF Dependents
  <2> QED
    BY <2>1 DEF Finish, Skips, Placed, TypeOK
<1>3. Finished(p, state'[p]) \in Row /\ Finished(p, state'[p]).from = None
  BY <1>2 DEF Finished, Row, Outcome
<1>4. /\ events \in Seq(Row) /\ Once(events)
      /\ T \in Seq(Row) /\ ToSet(T) = ToldRows(p) /\ Once(T)
  BY ToldListed DEF EventInv, EventTypes, FileRows
<1>5. R \in Seq(Row) /\ ToSet(R) = {Finished(q, "skipped") : q \in Skips(p)} /\ Once(R)
  BY <1>1, SkippedListed
<1>6. \A e \in ToSet(R) : e.from = None
  BY <1>5 DEF Finished
<1>7. \A e \in ToSet(events), d \in ToSet(T) : e.from = None \/ e.from # d.from
  <2> SUFFICES ASSUME NEW e \in ToSet(events), NEW g \in Unread(NodesOf[p]), e.from # None
               PROVE  e.from # <<g, file[g].version>>
    BY <1>4 DEF ToldRows, CaseOf
  <2> QED
    BY DEF EventInv, FileRows, Unread
<1> DEFINE A == events \o T
           B == A \o <<Finished(p, state'[p])>>
<1>8. A \in Seq(Row) /\ ToSet(A) = ToSet(events) \cup ToSet(T) /\ Once(A)
  BY <1>4, <1>7, ConcatRows
<1>9. B \in Seq(Row) /\ ToSet(B) = ToSet(A) \cup {Finished(p, state'[p])} /\ Once(B)
  <2>1. LET r == Finished(p, state'[p])
        IN  <<r>> \in Seq(Row) /\ ToSet(<<r>>) = {r} /\ Once(<<r>>)
    BY <1>3, OneRow
  <2>2. \A e \in ToSet(A), d \in {Finished(p, state'[p])} : e.from = None \/ e.from # d.from
    BY <1>3
  <2> QED
    BY <1>8, <2>1, <2>2, ConcatRows
<1>10. B \o R \in Seq(Row) /\ ToSet(B \o R) = ToSet(B) \cup ToSet(R) /\ Once(B \o R)
  <2>1. \A e \in ToSet(B), d \in ToSet(R) : e.from = None \/ e.from # d.from
    BY <1>6
  <2> QED
    BY <1>5, <1>9, <2>1, ConcatRows
<1>11. events' = IF state[p] = "failed" THEN B \o R ELSE B
  BY <1>2 DEF Finish, Skips
<1>12. state[p] # "failed" => ToSet(R) = {}
  BY <1>5 DEF Skips
<1> QED
  BY <1>1, <1>2, <1>4, <1>5, <1>8, <1>9, <1>10, <1>11, <1>12

\* A phase goes on with nothing said: it begins, its code ends, a guest writes.
LEMMA QuietStep ==
    ASSUME Placed, EventInv, NEW p \in Phase,
           \/ Begin(p) \/ \E failed \in BOOLEAN : ScriptEnds(p, failed)
           \/ p \in Suite /\ SuiteEnds(p)
    PROVE  EventInv'
<1> USE DEF EventInv
<1>1. /\ UNCHANGED <<events, file, seen>>
      /\ \/ at[p] = "waiting" /\ state[p] = "pending" /\ state'[p] = "running"
            /\ at' = [at EXCEPT ![p] = "body"]
         \/ at[p] = "body" /\ state[p] = "running" /\ state'[p] \in {"running", "failed"}
            /\ at' = [at EXCEPT ![p] = "ended"]
      /\ \A q \in Phase \ {p} : state'[q] = state[q]
  BY DEF Begin, ScriptEnds, SuiteEnds, Placed, TypeOK
<1>2. \A q \in Phase : at[q] = "over" <=> at'[q] = "over"
  BY <1>1 DEF Placed, TypeOK
<1>3. \A q \in Phase : at[q] # "waiting" => at'[q] # "waiting"
  BY <1>1 DEF Placed, TypeOK
<1>4. \A q \in Phase : at[q] = "over" \/ state[q] = "skipped" => state'[q] = state[q]
  BY <1>1
<1>5. \A q \in Phase : Inside(q) \/ state[q] = "interrupted" => Inside(q)' \/ state'[q] = "interrupted"
  BY <1>1 DEF Inside, Placed, TypeOK
<1>6. \A q \in Phase : state'[q] = "skipped" => state[q] = "skipped"
  BY <1>1
<1>7. \A e \in ToSet(events) : e \in Row
  BY DEF EventTypes, ToSet
<1>8. EventTypes'
  BY <1>1 DEF EventTypes
<1>9. FinishedRows'
  <2>1. \A e \in ToSet(events) : e.phase \in Phase
    BY <1>7 DEF Row
  <2> QED
    BY <1>1, <1>2, <1>4, <1>6, <2>1 DEF FinishedRows, RowOf
<1>10. CaseRows'
  <2>1. \A e \in ToSet(events) : e.phase \in Phase
    BY <1>7 DEF Row
  <2>2. ASSUME NEW t \in Suite, at'[t] \in {"ended", "over"}, state'[t] \in {"running", "passed"},
               NEW e \in ToSet(events), OwnCase(e), e.phase = t
        PROVE  ~Bad(e.outcome)
    <3>1. CASE t # p
      BY <3>1, <2>2, <1>1 DEF CaseRows, Phase, Placed, TypeOK
    <3>2. CASE t = p
      <4>1. SuiteEnds(p) /\ ~SuiteFails(p)
        BY <3>2, <2>2, OutputAssumption DEF Begin, ScriptEnds, SuiteEnds, Placed, TypeOK, Phase
      <4>2. PICK i \in 1..Len(events) : events[i] = e
        BY <2>2 DEF ToSet, EventTypes
      <4>3. i \in CasesOf(p)
        BY <4>2, <2>2, <3>2 DEF CasesOf, OwnCase
      <4> QED
        BY <4>1, <4>2, <4>3 DEF SuiteFails
    <3> QED
      BY <3>1, <3>2
  <2>3. ToSet(events') = ToSet(events)
    BY <1>1
  <2> HIDE DEF EventInv
  <2> QED
    BY <1>2, <1>3, <2>1, <2>2, <2>3 DEF CaseRows, EventInv, OwnCase, Bad
<1>11. FileRows'
  BY <1>1, <1>5 DEF FileRows, IsTold
<1> QED
  BY <1>8, <1>9, <1>10, <1>11

\* A guest of a phase that is inside writes its file.
LEMMA WriteStep ==
    ASSUME Placed, EventInv, NEW p \in Phase, NEW g \in Guest, NEW says \in {"passed", "failed"},
           GuestWrites(p, g, says)
    PROVE  EventInv'
<1> USE DEF EventInv
<1>1. /\ UNCHANGED <<at, state, events, seen>> /\ at[p] = "body" /\ g \in NodesOf[p]
      /\ file' = [file EXCEPT ![g] = [version |-> file[g].version + 1, says |-> says]]
  BY DEF GuestWrites
<1>2. file'[g].version \in Nat /\ \A h \in Guest \ {g} : file'[h] = file[h]
  BY <1>1 DEF EventTypes
<1>3. EventTypes'
  BY <1>1 DEF EventTypes
<1>4. FinishedRows' /\ CaseRows'
  BY <1>1 DEF FinishedRows, CaseRows, OwnCase, RowOf, Bad
<1>5. FileRows'
  <2>1. ToSet(events') = ToSet(events)
    BY <1>1
  <2>2. Inside(p)'
    BY <1>1 DEF Inside
  <2>3. \A q \in Phase : Inside(q)' <=> Inside(q)
    BY <1>1 DEF Inside
  <2>4. \A h \in Guest : file'[h].version > 0 =>
          \/ IsTold(ToSet(events'), h, file'[h].version)
          \/ \E q \in Phase : h \in NodesOf[q] /\ (Inside(q)' \/ state'[q] = "interrupted")
    <3> SUFFICES ASSUME NEW h \in Guest, h # g, file'[h].version > 0
                 PROVE  \/ IsTold(ToSet(events'), h, file'[h].version)
                        \/ \E q \in Phase : h \in NodesOf[q] /\ (Inside(q)' \/ state'[q] = "interrupted")
      BY <1>1, <2>2
    <3> QED
      BY <1>1, <1>2, <2>3 DEF FileRows
  <2> QED
    BY <1>1, <2>1, <2>4 DEF FileRows
<1> QED
  BY <1>3, <1>4, <1>5

\* A test is reported, by the run or by a person's pytest.
LEMMA TestStep ==
    ASSUME Placed, StreamInv, EventInv, NEW t \in Suite, NEW o \in {"passed", "failed", "skipped"},
           TestEnds(t, o) \/ HandPytest(t, o)
    PROVE  EventInv'
<1> USE DEF EventInv
<1>1. PICK hand \in BOOLEAN :
         /\ events' = Append(events, CaseOf(t, o, None, hand))
         /\ ~hand => at[t] = "body"
  BY DEF TestEnds, HandPytest, StreamInv
<1>2. UNCHANGED <<at, state, file, seen>>
  BY DEF TestEnds, HandPytest
<1> DEFINE r == CaseOf(t, o, None, hand)
<1>3. /\ r \in Row /\ r.from = None /\ r.kind = "case" /\ r.outcome = o /\ r.phase = t
      /\ r.hand = hand /\ t \in Phase
  BY DEF CaseOf, Row, Outcome, Phase
<1>4. /\ events' \in Seq(Row) /\ ToSet(events') = ToSet(events) \cup {r} /\ Once(events')
  BY <1>1, <1>3, AppendRow DEF EventTypes, FileRows
<1> HIDE DEF r
<1>5. EventTypes'
  BY <1>2, <1>4 DEF EventTypes
<1>6. FinishedRows'
  BY <1>2, <1>3, <1>4 DEF FinishedRows, RowOf
<1>7. CaseRows'
  BY <1>1, <1>2, <1>3, <1>4 DEF CaseRows, OwnCase, Bad
<1>8. FileRows'
  BY <1>2, <1>3, <1>4 DEF FileRows, IsTold, Inside
<1> QED
  BY <1>5, <1>6, <1>7, <1>8

\* A phase is cancelled in its script and recorded at once.
LEMMA InterruptStep ==
    ASSUME Placed, EventInv, NEW p \in Phase, Interrupt(p)
    PROVE  EventInv'
<1> USE DEF EventInv
<1>1. /\ at[p] = "body" /\ p \in Script /\ p \notin Suite /\ UNCHANGED <<file, seen>>
      /\ at' = [at EXCEPT ![p] = "over"] /\ state' = [state EXCEPT ![p] = "interrupted"]
      /\ events' = Append(events, Finished(p, "interrupted"))
  BY OutputAssumption DEF Interrupt
<1> DEFINE r == Finished(p, "interrupted")
<1>2. /\ r \in Row /\ r.from = None /\ r.kind = "finished" /\ r.outcome = "interrupted"
      /\ r.phase = p /\ ~r.hand
  BY DEF Finished, Row, Outcome
<1>3. /\ events' \in Seq(Row) /\ ToSet(events') = ToSet(events) \cup {r} /\ Once(events')
  BY <1>1, <1>2, AppendRow DEF EventTypes, FileRows
<1> HIDE DEF r
<1>4. /\ \A q \in Phase \ {p} : at'[q] = at[q] /\ state'[q] = state[q]
      /\ at'[p] = "over" /\ state'[p] = "interrupted" /\ state[p] = "running"
  BY <1>1 DEF Placed, TypeOK
<1>5. \A e \in ToSet(events) : e.phase \in Phase
  <2>1. events \in Seq(Row) /\ \A e \in ToSet(events) : e \in Row
    BY DEF EventTypes, ToSet
  <2> QED
    BY <2>1 DEF Row
<1>6. EventTypes'
  BY <1>1, <1>3 DEF EventTypes
<1>7. FinishedRows'
  <2>1. \A e \in ToSet(events) : e.kind = "finished" => e.phase # p
    BY <1>1, <1>4, <1>5 DEF FinishedRows
  <2>2. \A e \in ToSet(events') : e.kind = "finished" =>
           /\ e.from = None /\ ~e.hand /\ e.outcome = state'[e.phase]
           /\ at'[e.phase] = "over" \/ state'[e.phase] = "skipped"
    BY <1>2, <1>3, <1>4, <1>5, <2>1 DEF FinishedRows
  <2>3. \A q \in Phase : at'[q] = "over" \/ state'[q] = "skipped" =>
           \E e \in ToSet(events') : RowOf(e, q)
    BY <1>2, <1>3, <1>4 DEF FinishedRows, RowOf
  <2> QED
    BY <2>2, <2>3 DEF FinishedRows
<1>8. CaseRows'
  <2>1. \A e \in ToSet(events') : e.kind = "case" =>
           /\ e.outcome \in {"passed", "failed", "skipped"}
           /\ OwnCase(e) => e.phase \in Suite /\ at'[e.phase] # "waiting"
           /\ e.from # None => ~e.hand /\ at'[e.phase] = "over"
    BY <1>2, <1>3, <1>4, <1>5 DEF CaseRows
  <2>2. \A s \in Suite : at'[s] \in {"ended", "over"} /\ state'[s] \in {"running", "passed"} =>
           \A e \in ToSet(events') : OwnCase(e) /\ e.phase = s => ~Bad(e.outcome)
    BY <1>1, <1>2, <1>3, <1>4 DEF CaseRows, OwnCase, Phase
  <2> QED
    BY <2>1, <2>2 DEF CaseRows, OwnCase, Bad
<1>9. FileRows'
  <2>1. \A g, v : IsTold(ToSet(events), g, v) => IsTold(ToSet(events'), g, v)
    BY <1>3 DEF IsTold
  <2>2. \A q \in Phase : Inside(q) \/ state[q] = "interrupted" => Inside(q)' \/ state'[q] = "interrupted"
    BY <1>4 DEF Inside
  <2>3. \A e \in ToSet(events') : e.from # None => e.from \in seen'
    BY <1>1, <1>2, <1>3 DEF FileRows
  <2> QED
    BY <1>1, <1>3, <2>1, <2>2, <2>3 DEF FileRows
<1> QED
  BY <1>6, <1>7, <1>8, <1>9

\* A phase is recorded with what its guests wrote, and what needs it skipped.
LEMMA FinishStep ==
    ASSUME Placed, EventInv, NEW p \in Phase, Finish(p)
    PROVE  EventInv'
<1> USE DEF EventInv
<1>1. /\ at[p] = "ended" /\ state[p] \in {"running", "failed"} /\ UNCHANGED file
      /\ at' = [at EXCEPT ![p] = "over"]
      /\ seen' = seen \cup {<<g, file[g].version>> : g \in Unread(NodesOf[p])}
  BY DEF Finish, Placed
<1>2. /\ \A q \in Phase \ {p} : at'[q] = at[q]
      /\ at'[p] = "over"
  BY <1>1 DEF Placed, TypeOK
<1>3. /\ events' \in Seq(Row) /\ Once(events')
      /\ ToSet(events') = ToSet(events) \cup ToldRows(p)
                             \cup {Finished(p, state'[p])} \cup {Finished(q, "skipped") : q \in Skips(p)}
      /\ state'[p] \in {"passed", "failed"} /\ (state[p] = "failed" <=> state'[p] = "failed")
      /\ \A q \in Phase \ {p} : state'[q] = IF q \in Skips(p) THEN "skipped" ELSE state[q]
      /\ \A q \in Skips(p) : q \in Phase \ {p} /\ state[q] = "pending" /\ at[q] = "waiting"
  BY FinishAdds DEF Placed, TypeOK
<1>4. \A e \in ToSet(events) : e.phase \in Phase
  <2>1. events \in Seq(Row) /\ \A e \in ToSet(events) : e \in Row
    BY DEF EventTypes, ToSet
  <2> QED
    BY <2>1 DEF Row
<1>5. \A e \in ToldRows(p) :
         /\ e.kind = "case" /\ e.phase = p /\ e.outcome \in {"passed", "failed"} /\ ~e.hand
         /\ e.from \in seen' /\ e.from # None
  <2> SUFFICES ASSUME NEW g \in Unread(NodesOf[p])
               PROVE  LET e == CaseOf(p, file[g].says, <<g, file[g].version>>, FALSE)
                      IN  /\ e.kind = "case" /\ e.phase = p /\ e.outcome \in {"passed", "failed"} /\ ~e.hand
                          /\ e.from \in seen' /\ e.from # None
    BY DEF ToldRows
  <2>1. g \in Guest /\ file[g].says \in {"passed", "failed"} /\ <<g, file[g].version>> \in Guest \X Nat
    BY OutputAssumption DEF Unread, EventTypes
  <2> QED
    BY <2>1, <1>1, OutputAssumption DEF CaseOf
<1>6. \A q \in Phase, o \in Outcome : LET e == Finished(q, o) IN
         e.kind = "finished" /\ e.phase = q /\ e.outcome = o /\ ~e.hand /\ e.from = None
  BY DEF Finished
<1>7. \A e \in ToSet(events') :
         \/ e \in ToSet(events) \/ e \in ToldRows(p)
         \/ \E q \in Skips(p) \cup {p} : e = Finished(q, state'[q])
  BY <1>3
<1>8. \A q \in Skips(p) \cup {p} : q \in Phase /\ Finished(q, state'[q]) \in ToSet(events') /\ state'[q] \in Outcome
  BY <1>3 DEF Outcome
<1>9. EventTypes'
  <2>1. \A g \in Unread(NodesOf[p]) : g \in Guest /\ file[g].version \in Nat
    BY OutputAssumption DEF Unread, EventTypes
  <2> QED
    BY <1>1, <1>3, <2>1 DEF EventTypes
<1>10. FinishedRows'
  <2>1. \A e \in ToSet(events) : e.kind = "finished" => e.phase # p /\ e.phase \notin Skips(p)
    BY <1>1, <1>3, <1>4 DEF FinishedRows
  <2>2. ASSUME NEW e \in ToSet(events'), e.kind = "finished"
        PROVE  /\ e.from = None /\ ~e.hand /\ e.outcome = state'[e.phase]
               /\ at'[e.phase] = "over" \/ state'[e.phase] = "skipped"
    <3>1. CASE e \in ToSet(events)
      BY <1>2, <1>3, <1>4, <2>1, <2>2, <3>1 DEF FinishedRows
    <3>2. CASE e \in ToldRows(p)
      BY <1>5, <2>2, <3>2
    <3>3. CASE \E q \in Skips(p) \cup {p} : e = Finished(q, state'[q])
      BY <1>2, <1>3, <1>6, <1>8, <3>3
    <3> QED
      BY <1>7, <3>1, <3>2, <3>3
  <2>3. ASSUME NEW q \in Phase, at'[q] = "over" \/ state'[q] = "skipped"
        PROVE  \E e \in ToSet(events') : RowOf(e, q)
    <3>1. CASE q \in Skips(p) \cup {p}
      BY <1>6, <1>8, <3>1 DEF RowOf
    <3>2. CASE q \notin Skips(p) \cup {p}
      BY <1>2, <1>3, <2>3, <3>2 DEF FinishedRows, RowOf
    <3> QED
      BY <3>1, <3>2
  <2> QED
    BY <2>2, <2>3 DEF FinishedRows
<1>11. CaseRows'
  <2>1. ASSUME NEW e \in ToSet(events'), e.kind = "case"
        PROVE  e \in ToSet(events) \/ e \in ToldRows(p)
    BY <1>6, <1>7, <1>8, <2>1
  <2>2. ASSUME NEW e \in ToSet(events'), e.kind = "case"
        PROVE  /\ e.outcome \in {"passed", "failed", "skipped"}
               /\ OwnCase(e) => e.phase \in Suite /\ at'[e.phase] # "waiting"
               /\ e.from # None => ~e.hand /\ at'[e.phase] = "over"
    BY <1>2, <1>4, <1>5, <2>1, <2>2 DEF CaseRows, OwnCase
  <2>3. ASSUME NEW t \in Suite, at'[t] \in {"ended", "over"}, state'[t] \in {"running", "passed"},
               NEW e \in ToSet(events'), OwnCase(e), e.phase = t
        PROVE  ~Bad(e.outcome)
    <3>1. e \in ToSet(events)
      BY <1>5, <2>1, <2>3 DEF OwnCase
    <3>2. at[t] \in {"ended", "over"} /\ state[t] \in {"running", "passed"}
      BY <1>1, <1>2, <1>3, <2>3 DEF Phase
    <3> QED
      BY <2>3, <3>1, <3>2 DEF CaseRows
  <2> QED
    BY <2>2, <2>3 DEF CaseRows, OwnCase, Bad
<1>12. FileRows'
  <2>1. \A g, v : IsTold(ToSet(events), g, v) => IsTold(ToSet(events'), g, v)
    BY <1>3 DEF IsTold
  <2>2. \A g \in Unread(NodesOf[p]) : IsTold(ToSet(events'), g, file[g].version)
    <3> SUFFICES ASSUME NEW g \in Unread(NodesOf[p])
                 PROVE  \E e \in ToSet(events') : e.from = <<g, file[g].version>> /\ g \in NodesOf[e.phase]
      BY <1>1 DEF IsTold
    <3>1. CaseOf(p, file[g].says, <<g, file[g].version>>, FALSE) \in ToSet(events')
      BY <1>3 DEF ToldRows
    <3> QED
      BY <3>1 DEF CaseOf, Unread
  <2>3. \A e \in ToSet(events') : e.from # None => e.from \in seen'
    BY <1>1, <1>5, <1>6, <1>7, <1>8 DEF FileRows
  <2>4. \A g \in Guest, v \in Nat : <<g, v>> \in seen' => IsTold(ToSet(events'), g, v)
    BY <1>1, <2>1, <2>2 DEF FileRows
  <2>5. \A g \in Guest : file[g].version > 0 =>
           \/ IsTold(ToSet(events'), g, file[g].version)
           \/ \E q \in Phase : g \in NodesOf[q] /\ (Inside(q)' \/ state'[q] = "interrupted")
    <3> SUFFICES ASSUME NEW g \in Guest, file[g].version > 0, ~IsTold(ToSet(events'), g, file[g].version)
                 PROVE  \E q \in Phase : g \in NodesOf[q] /\ (Inside(q)' \/ state'[q] = "interrupted")
      OBVIOUS
    <3>1. PICK q \in Phase : g \in NodesOf[q] /\ (Inside(q) \/ state[q] = "interrupted")
      BY <2>1 DEF FileRows
    <3>2. q # p
      <4> SUFFICES ASSUME g \in NodesOf[p] PROVE FALSE
        BY <3>1
      <4>1. <<g, file[g].version>> \in seen
        BY <2>2 DEF Unread
      <4> QED
        BY <2>1, <4>1 DEF FileRows, EventTypes
    <3> QED
      BY <1>2, <1>3, <3>1, <3>2 DEF Inside
  <2> QED
    BY <1>1, <1>3, <2>3, <2>4, <2>5 DEF FileRows
<1> QED
  BY <1>9, <1>10, <1>11, <1>12

(* The invariant of what is said: where each phase is, whose the stream is,*)
(* and which events there are.                                             *)
OutputInv == Placed /\ StreamInv /\ EventInv

\* Every step keeps what the events say in agreement with the states.
LEMMA EventStep == OutputInv /\ [Next]_vars => EventInv'
<1> SUFFICES ASSUME OutputInv, [Next]_vars PROVE EventInv'
  OBVIOUS
<1> USE DEF OutputInv
<1>1. ASSUME UNCHANGED <<at, state, file, seen, events>> PROVE EventInv'
  BY <1>1 DEF EventInv, EventTypes, FinishedRows, CaseRows, FileRows, IsTold, OwnCase, RowOf, Inside, Bad
<1>2. ASSUME NEW t \in Suite, TestStarts(t) PROVE EventInv'
  BY <1>1, <1>2 DEF TestStarts
<1>3. ASSUME NEW t \in Suite, SuiteEnds(t) PROVE EventInv'
  BY <1>3, QuietStep DEF Phase
<1>4. CASE UNCHANGED vars
  BY <1>1, <1>4 DEF vars
<1> QED
  BY <1>2, <1>3, <1>4, QuietStep, WriteStep, TestStep, InterruptStep, FinishStep DEF Next

\* What holds of a run in every state.
LEMMA OutputHolds == Spec => []OutputInv
<1>1. Init => OutputInv
  BY PlacedInit, StreamInit, EventInit DEF OutputInv
<1>2. OutputInv /\ [Next]_vars => OutputInv'
  BY PlacedStep, StreamStep, EventStep DEF OutputInv
<1> QED
  BY <1>1, <1>2, PTL DEF Spec

\* Every variable of what a run says keeps its type.
THEOREM OutputTypes == Spec => [](TypeOK /\ EventTypes)
BY OutputHolds, PTL DEF OutputInv, Placed, EventInv

\* A row of the document and the events it is made of.
LEMMA Documented ==
    ASSUME OutputInv, NEW p \in Phase
    PROVE  /\ \A e \in ToSet(events) : e.phase = p /\ ~e.hand /\ ~LeftOut(e) =>
                 [phase |-> p, kind |-> e.kind, result |-> Shown(e.outcome)] \in Document
           /\ \A r \in Document : r.phase = p =>
                 \E e \in ToSet(events) :
                    e.phase = p /\ ~e.hand /\ ~LeftOut(e) /\ r.kind = e.kind /\ r.result = Shown(e.outcome)
           /\ p \in WithCases <=> \E e \in ToSet(events) : e.phase = p /\ ~e.hand /\ e.kind = "case"
           /\ p \in FailingCases <=>
                 \E e \in ToSet(events) : e.phase = p /\ ~e.hand /\ e.kind = "case" /\ Bad(e.outcome)
<1>1. ToSet(events) = {events[i] : i \in 1..Len(events)}
  BY DEF ToSet, OutputInv, EventInv, EventTypes
<1> HIDE DEF LeftOut, Shown
<1>2. \A e \in ToSet(events) : ~e.hand => \E i \in Kept : events[i] = e
  BY <1>1 DEF Kept
<1>3. \A i \in Kept : events[i] \in ToSet(events) /\ ~events[i].hand
  BY <1>1 DEF Kept
<1>4. \A e \in ToSet(events) : e.phase = p /\ ~e.hand /\ ~LeftOut(e) =>
         [phase |-> p, kind |-> e.kind, result |-> Shown(e.outcome)] \in Document
  BY <1>2 DEF Document
<1>5. \A r \in Document : r.phase = p =>
         \E e \in ToSet(events) :
            e.phase = p /\ ~e.hand /\ ~LeftOut(e) /\ r.kind = e.kind /\ r.result = Shown(e.outcome)
  BY <1>3 DEF Document
<1>6. p \in WithCases <=> \E e \in ToSet(events) : e.phase = p /\ ~e.hand /\ e.kind = "case"
  BY <1>2, <1>3 DEF WithCases
<1>7. p \in FailingCases <=>
         \E e \in ToSet(events) : e.phase = p /\ ~e.hand /\ e.kind = "case" /\ Bad(e.outcome)
  BY <1>2, <1>3 DEF FailingCases
<1> QED
  BY <1>4, <1>5, <1>6, <1>7

(* junit.xml tells what phases.json tells, for every way phases and tests  *)
(* end: a phase that failed or was stopped has a failure to show, a        *)
(* skipped one is skipped, and one that passed shows a failure only for a  *)
(* guest's own file (events.py junit).                                     *)
THEOREM JunitTellsTheStates == Spec => []JunitAgrees
<1>1. OutputInv => JunitAgrees
  <2> SUFFICES ASSUME OutputInv, Ended, NEW p \in Phase
               PROVE  LET of == {r \in Document : r.phase = p}
                          guestFailed == \E i \in 1..Len(events) : events[i].phase = p
                                            /\ events[i].from # None /\ Bad(events[i].outcome) IN
                      CASE state[p] \in {"failed", "interrupted"} -> \E r \in of : r.result = "failed"
                        [] state[p] = "skipped" -> {r.result : r \in of} = {"skipped"}
                        [] state[p] = "passed"  -> of # {} /\ ((\E r \in of : r.result = "failed") => guestFailed)
                        [] OTHER -> FALSE
    BY DEF JunitAgrees
  <2> DEFINE of == {r \in Document : r.phase = p}
             guestFailed == \E i \in 1..Len(events) : events[i].phase = p
                               /\ events[i].from # None /\ Bad(events[i].outcome)
             Shows(e) == [phase |-> p, kind |-> e.kind, result |-> Shown(e.outcome)]
  <2>1. PICK f \in ToSet(events) : RowOf(f, p)
    BY DEF Ended, OutputInv, EventInv, FinishedRows
  <2>2. f.phase = p /\ ~f.hand /\ f.outcome = state[p] /\ f.kind = "finished"
    BY <2>1 DEF RowOf, OutputInv, EventInv, FinishedRows
  <2>3. \A e \in ToSet(events) : e.kind \in {"finished", "case"} /\ e.outcome \in Outcome
    <3>1. \A e \in ToSet(events) : e \in Row
      BY DEF OutputInv, EventInv, EventTypes, ToSet
    <3> QED
      BY <3>1 DEF Row
  <2>4. \A e \in ToSet(events) : e.kind = "case" => ~LeftOut(e)
    BY DEF LeftOut
  <2>5. state[p] \in {"passed", "failed", "interrupted", "skipped"}
    BY DEF Ended, OutputInv, Placed
  <2>6. CASE state[p] \in {"failed", "interrupted"}
    <3>1. CASE ~LeftOut(f)
      <4>1. Shows(f) \in of /\ Shows(f).result = "failed"
        BY <2>2, <2>6, <3>1, Documented DEF Shown, Bad
      <4> QED
        BY <4>1, <2>6
    <3>2. CASE LeftOut(f)
      <4>1. PICK e \in ToSet(events) : e.phase = p /\ ~e.hand /\ e.kind = "case" /\ Bad(e.outcome)
        BY <2>2, <2>6, <3>2, Documented DEF LeftOut, Shown, Bad
      <4>2. Shows(e) \in of /\ Shows(e).result = "failed"
        BY <2>4, <4>1, Documented DEF Shown
      <4> QED
        BY <4>2, <2>6
    <3> QED
      BY <3>1, <3>2
  <2>7. CASE state[p] = "skipped"
    <3>1. at[p] = "waiting"
      BY <2>7 DEF OutputInv, Placed, TypeOK
    <3>2. \A e \in ToSet(events) : e.phase = p /\ ~e.hand => e.kind = "finished" /\ e.outcome = "skipped"
      BY <2>3, <2>7, <3>1 DEF OutputInv, EventInv, FinishedRows, CaseRows, OwnCase
    <3>3. ~LeftOut(f)
      BY <2>2, <3>2, Documented DEF LeftOut
    <3>4. Shows(f) \in of /\ Shows(f).result = "skipped"
      BY <2>2, <2>7, <3>3, Documented DEF Shown, Bad
    <3>5. \A r \in of : r.result = "skipped"
      BY <3>2, Documented DEF Shown, Bad
    <3>6. {r.result : r \in of} = {"skipped"}
      BY <3>4, <3>5
    <3> QED
      BY <3>6, <2>7
  <2>8. CASE state[p] = "passed"
    <3>1. of # {}
      <4>1. CASE ~LeftOut(f)
        <5>1. Shows(f) \in of
          BY <2>2, <4>1, Documented
        <5> QED
          BY <5>1
      <4>2. CASE LeftOut(f)
        <5>1. PICK e \in ToSet(events) : e.phase = p /\ ~e.hand /\ e.kind = "case"
          BY <2>2, <4>2, Documented DEF LeftOut
        <5>2. Shows(e) \in of
          BY <2>4, <5>1, Documented
        <5> QED
          BY <5>2
      <4> QED
        BY <4>1, <4>2
    <3>2. ASSUME NEW r \in of, r.result = "failed" PROVE guestFailed
      <4>1. PICK e \in ToSet(events) : e.phase = p /\ ~e.hand /\ Shown(e.outcome) = "failed"
        BY <3>2, Documented
      <4>2. e.kind = "case"
        <5>1. e.kind = "finished" => e.outcome = "passed"
          BY <2>8, <4>1 DEF OutputInv, EventInv, FinishedRows
        <5> QED
          BY <2>3, <4>1, <5>1 DEF Shown, Bad
      <4>3. Bad(e.outcome)
        <5>1. e.outcome \in {"passed", "failed", "skipped"}
          BY <4>2 DEF OutputInv, EventInv, CaseRows
        <5> QED
          BY <4>1, <5>1 DEF Shown, Bad
      <4>4. e.from # None
        <5> SUFFICES ASSUME e.from = None PROVE FALSE
          OBVIOUS
        <5>1. OwnCase(e) /\ p \in Suite
          BY <4>1, <4>2 DEF OwnCase, OutputInv, EventInv, CaseRows
        <5>2. at[p] = "over"
          BY <2>8 DEF Ended
        <5> QED
          BY <2>8, <4>1, <4>3, <5>1, <5>2 DEF OutputInv, EventInv, CaseRows
      <4>5. PICK i \in 1..Len(events) : events[i] = e
        BY DEF ToSet, OutputInv, EventInv, EventTypes
      <4> QED
        BY <4>1, <4>3, <4>4, <4>5
    <3> QED
      BY <3>1, <3>2, <2>8
  <2> QED
    BY <2>5, <2>6, <2>7, <2>8
<1> QED
  BY <1>1, OutputHolds, PTL

(* A guest's JUnit file is told once each time it was written, under a     *)
(* phase that had the guest, by the time that phase is over, unless one    *)
(* that had it was interrupted (session.py _cases_from_guests).            *)
THEOREM GuestsToldOnce == Spec => []GuestCasesOnce
<1>1. OutputInv => GuestCasesOnce
  <2> SUFFICES ASSUME OutputInv PROVE GuestCasesOnce
    OBVIOUS
  <2>1. \A i, j \in 1..Len(events) : events[i].from # None /\ events[i].from = events[j].from => i = j
    BY DEF OutputInv, EventInv, FileRows, Once
  <2>2. ASSUME NEW g \in Guest, g \notin Busy, file[g].version > 0
        PROVE  \/ \E i \in 1..Len(events) : events[i].from = <<g, file[g].version>>
                                            /\ g \in NodesOf[events[i].phase]
               \/ \E q \in Phase : state[q] = "interrupted" /\ g \in NodesOf[q]
    <3>1. CASE IsTold(ToSet(events), g, file[g].version)
      BY <3>1 DEF IsTold, ToSet, OutputInv, EventInv, EventTypes
    <3>2. ASSUME NEW q \in Phase, g \in NodesOf[q] PROVE ~Inside(q)
      BY <2>2, <3>2, ClaimsType DEF Busy, Inside
    <3> QED
      BY <2>2, <3>1, <3>2 DEF OutputInv, EventInv, FileRows
  <2> QED
    BY <2>1, <2>2 DEF GuestCasesOnce
<1> QED
  BY <1>1, OutputHolds, PTL
=============================================================================
