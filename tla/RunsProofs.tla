------------------------------ MODULE RunsProofs ------------------------------
(***************************************************************************)
(* Proofs about Runs, for any monitors, any requests to stop and any       *)
(* number of events.                                                       *)
(*                                                                         *)
(*   RunsInvariant     Inv is an invariant                                 *)
(*   NobodyMisses      what a monitor printed and is sent is the backlog   *)
(*   OneVerdict        nothing is pushed after a terminal event            *)
(***************************************************************************)
EXTENDS Runs, SequenceTheorems, TLAPS

Line == Progress \cup Verdict

\* Taking the next of t to the end of s changes nothing of the two in a row.
LEMMA MoveHead ==
    ASSUME NEW S, NEW s \in Seq(S), NEW t \in Seq(S), t # <<>>
    PROVE  Append(s, Head(t)) \o Tail(t) = s \o t
<1> DEFINE a == Append(s, Head(t))
<1>1. Head(t) \in S /\ Tail(t) \in Seq(S) /\ Len(Tail(t)) = Len(t) - 1
  BY HeadTailProperties
<1>2. \A i \in 1..Len(Tail(t)) : Tail(t)[i] = t[i + 1]
  BY HeadTailProperties
<1>3. a \in Seq(S) /\ Len(a) = Len(s) + 1 /\ a[Len(s) + 1] = t[1]
  BY <1>1, AppendProperties
<1>4. \A i \in 1..Len(s) : a[i] = s[i]
  BY <1>1, AppendProperties
<1>5. /\ s \o t \in Seq(S) /\ Len(s \o t) = Len(s) + Len(t)
      /\ \A i \in 1..Len(s) + Len(t) : (s \o t)[i] = IF i <= Len(s) THEN s[i] ELSE t[i - Len(s)]
  BY ConcatProperties
<1> HIDE DEF a
<1> DEFINE u == a \o Tail(t)
<1>6. /\ u \in Seq(S) /\ Len(u) = Len(a) + Len(Tail(t))
      /\ \A i \in 1..Len(a) + Len(Tail(t)) : u[i] = IF i <= Len(a) THEN a[i] ELSE Tail(t)[i - Len(a)]
  BY <1>1, <1>3, ConcatProperties
<1> HIDE DEF u
<1>7. Len(s) \in Nat /\ Len(t) \in Nat /\ Len(u) = Len(s \o t)
  BY <1>1, <1>3, <1>5, <1>6, LenProperties
<1>8. ASSUME NEW i \in 1..Len(u) PROVE u[i] = (s \o t)[i]
  <2>1. CASE i <= Len(s)
    BY <2>1, <1>3, <1>4, <1>5, <1>6, <1>7, <1>1
  <2>2. CASE i = Len(s) + 1
    BY <2>2, <1>3, <1>5, <1>6, <1>7, <1>1
  <2>3. CASE i > Len(s) + 1
    BY <2>3, <1>1, <1>2, <1>3, <1>5, <1>6, <1>7
  <2>4. QED
    BY <2>1, <2>2, <2>3, <1>7
<1>9. u = s \o t
  BY <1>5, <1>6, <1>7, <1>8, SeqEqual
<1>10. QED
  BY <1>9 DEF u, a

\* Adding to the last of two in a row is adding to the row.
LEMMA AppendToRow ==
    ASSUME NEW S, NEW s \in Seq(S), NEW t \in Seq(S), NEW e \in S
    PROVE  s \o Append(t, e) = Append(s \o t, e)
<1>1. <<e>> \in Seq(S) /\ s \o t \in Seq(S)
  BY ConcatProperties
<1>2. Append(t, e) = t \o <<e>> /\ Append(s \o t, e) = (s \o t) \o <<e>>
  BY <1>1, AppendIsConcat
<1>3. QED
  BY <1>1, <1>2, ConcatAssociative

-----------------------------------------------------------------------------

\* A run begins with an empty file and nobody who monitors it.
LEMMA InitInv == Init => Inv
<1> SUFFICES ASSUME Init PROVE Inv
  OBVIOUS
<1> USE DEF Init
<1>1. <<>> \in Seq(Line) /\ <<>> \in Seq(Event) /\ Len(<<>>) = 0
  OBVIOUS
<1>2. TypeOK
  BY <1>1 DEF TypeOK, Line
<1>3. Watched
  BY <1>1 DEF Watched, VerdictEndsFile, BatchIsRead, FinishedIsAll, OpenUntilDone, VerdictLast
<1>4. Heard
  BY DEF Heard, RegisteredIsOn, NothingMissed
<1>5. QED
  BY <1>2, <1>3, <1>4 DEF Inv

\* What the child and those who stop it do is no business of the monitors'.
LEMMA HeardByItself ==
    ASSUME Heard, UNCHANGED monitorVars, UNCHANGED backlog
    PROVE  Heard'
BY DEF Heard, RegisteredIsOn, NothingMissed, monitorVars

-----------------------------------------------------------------------------
(* The child. *)

\* A line is added to a file with no verdict in it.
LEMMA FileGrows ==
    ASSUME Inv, NEW e \in Line, child \in {"running", "ending"}, file' = Append(file, e),
           child' \in {"running", "closing"}, e \in Verdict => child' = "closing",
           UNCHANGED <<watchVars, monitorVars, stopVars>>
    PROVE  Inv'
<1> USE DEF watchVars, monitorVars, stopVars
<1>1. /\ file \in Seq(Line) /\ Len(file) \in Nat /\ seen \in Nat /\ tailed \in Nat
      /\ batch \in Seq(Line) /\ Len(batch) \in Nat
  BY LenProperties DEF Inv, TypeOK, Line
<1>2. /\ file' \in Seq(Line) /\ Len(file') = Len(file) + 1 /\ file'[Len(file) + 1] = e
      /\ \A i \in 1..Len(file) : file'[i] = file[i]
  BY <1>1, AppendProperties
<1>3. TypeOK'
  BY <1>2 DEF Inv, TypeOK, Line
<1>4. \A i \in 1..Len(file) : file[i] \notin Verdict
  BY DEF Inv, Watched, VerdictEndsFile
<1>5. VerdictEndsFile'
  <2> SUFFICES ASSUME NEW i \in 1..Len(file'), file'[i] \in Verdict
               PROVE  i = Len(file') /\ child' \notin {"running", "ending"}
    BY DEF VerdictEndsFile
  <2>1. i = Len(file) + 1
    BY <1>1, <1>2, <1>4
  <2>2. QED
    BY <2>1, <1>2
<1>6. ~ finished
  BY <1>1, <1>4 DEF Inv, Watched, FinishedIsAll
<1>7. BatchIsRead'
  <2>1. Len(batch) <= tailed /\ tailed <= seen /\ seen <= Len(file)
    BY DEF Inv, Watched, BatchIsRead
  <2>2. \A i \in 1..Len(batch) : tailed - Len(batch) + i \in 1..Len(file)
    BY <2>1, <1>1
  <2>3. QED
    BY <2>1, <2>2, <1>1, <1>2 DEF Inv, Watched, BatchIsRead
<1>8. FinishedIsAll' /\ OpenUntilDone' /\ VerdictLast'
  BY <1>6 DEF Inv, Watched, FinishedIsAll, OpenUntilDone, VerdictLast
<1>9. QED
  BY <1>3, <1>5, <1>7, <1>8, HeardByItself DEF Inv, Watched

\* The child ends, or is ended.
LEMMA ChildGoes ==
    ASSUME Inv, UNCHANGED <<file, watchVars, monitorVars>>,
           child' \in {"ending", "closing", "killed", "exited"},
           child' = "ending" => child \in {"running", "ending"},
           stopping' \in [Stopper -> {"idle", "wait", "over"}],
           server' \in {"up", "stopping", "down"}
    PROVE  Inv'
<1> USE DEF watchVars, monitorVars
<1>1. TypeOK'
  BY DEF Inv, TypeOK
<1>2. Watched'
  BY DEF Inv, Watched, VerdictEndsFile, BatchIsRead, FinishedIsAll, OpenUntilDone, VerdictLast
<1>3. QED
  BY <1>1, <1>2, HeardByItself DEF Inv

-----------------------------------------------------------------------------
(* The watcher. *)

\* A push reaches the backlog and whoever is connected.
LEMMA PushIsHeard ==
    ASSUME Inv, NEW e \in Event, Push(e), UNCHANGED <<watchers, conn, copy, printed, code>>
    PROVE  /\ Heard'
           /\ backlog' \in Seq(Event) /\ inbox' \in [Monitor -> Seq(Event)]
           /\ Len(backlog') = Len(backlog) + 1 /\ backlog'[Len(backlog) + 1] = e
           /\ \A i \in 1..Len(backlog) : backlog'[i] = backlog[i]
<1> USE DEF Push
<1>1. backlog \in Seq(Event) /\ inbox \in [Monitor -> Seq(Event)]
  BY DEF Inv, TypeOK
<1>2. /\ backlog' \in Seq(Event) /\ Len(backlog') = Len(backlog) + 1
      /\ backlog'[Len(backlog) + 1] = e
      /\ \A i \in 1..Len(backlog) : backlog'[i] = backlog[i]
  BY <1>1, AppendProperties
<1>3. inbox' \in [Monitor -> Seq(Event)]
  BY <1>1, AppendProperties
<1>4. RegisteredIsOn'
  BY DEF Inv, Heard, RegisteredIsOn
<1>5. ASSUME NEW m \in Monitor, conn[m] = "on"
      PROVE  printed[m] \o copy[m] \o inbox'[m] = backlog'
  <2>1. m \in watchers /\ printed[m] \o copy[m] \o inbox[m] = backlog
    BY <1>5 DEF Inv, Heard, RegisteredIsOn, NothingMissed
  <2>2. printed[m] \in Seq(Event) /\ copy[m] \in Seq(Event) /\ inbox[m] \in Seq(Event)
    BY DEF Inv, TypeOK
  <2> DEFINE row == printed[m] \o copy[m]
             in == inbox[m]
  <2>3. row \in Seq(Event) /\ in \in Seq(Event)
    BY <2>2, ConcatProperties
  <2>4. row \o in = backlog /\ inbox'[m] = Append(in, e)
    BY <2>1
  <2> HIDE DEF row, in
  <2>5. row \o Append(in, e) = Append(row \o in, e)
    BY <2>3, AppendToRow
  <2>6. row \o inbox'[m] = backlog'
    BY <2>4, <2>5
  <2>7. QED
    BY <2>6 DEF row
<1>6. NothingMissed'
  BY <1>5 DEF NothingMissed
<1>7. QED
  BY <1>2, <1>3, <1>4, <1>6 DEF Heard

\* What _watch does with lines that are the end of what it has read.
LEMMA LookKeeps ==
    ASSUME Inv, NEW lines \in Seq(Line), watch \in {"read", "push"}, Look(lines),
           tailed' \in Nat, Len(lines) <= tailed', tailed' <= seen,
           \A i \in 1..Len(lines) : lines[i] = file[tailed' - Len(lines) + i],
           finished => lines = <<>> /\ tailed' = tailed,
           UNCHANGED <<childVars, seen, watchers, conn, copy, printed, code, stopVars>>
    PROVE  Inv'
<1> USE DEF childVars, stopVars
<1>1. /\ file \in Seq(Line) /\ Len(file) \in Nat /\ seen \in Nat /\ Len(lines) \in Nat
      /\ backlog \in Seq(Event) /\ Len(backlog) \in Nat
  BY LenProperties DEF Inv, TypeOK, Line
<1>2. seen <= Len(file)
  BY DEF Inv, Watched, BatchIsRead
<1>3. VerdictEndsFile'
  BY DEF Inv, Watched, VerdictEndsFile
<1>4. ~ finished => \A i \in 1..Len(backlog) : backlog[i] \notin Terminal
  BY DEF Inv, Watched, OpenUntilDone
<1>5. CASE lines # <<>>
  <2> DEFINE e == Head(lines)
  <2>1. /\ Push(e) /\ watch' = "push" /\ batch' = Tail(lines)
        /\ finished' = (finished \/ e \in Verdict)
    BY <1>5 DEF Look
  <2>2. /\ e \in Line /\ batch' \in Seq(Line) /\ Len(batch') = Len(lines) - 1
        /\ \A i \in 1..Len(batch') : batch'[i] = lines[i + 1]
    BY <1>5, <2>1, HeadTailProperties
  <2>3. Len(lines) > 0 /\ e = lines[1]
    BY <1>5, <1>1
  <2>4. e = file[tailed' - Len(lines) + 1] /\ tailed' - Len(lines) + 1 \in 1..Len(file)
    BY <2>3, <1>1, <1>2
  <2>5. e \in Event /\ ~ finished
    BY <2>2, <1>5 DEF Line, Event, Terminal
  <2> HIDE DEF e
  <2>6. /\ Heard' /\ backlog' \in Seq(Event) /\ inbox' \in [Monitor -> Seq(Event)]
        /\ Len(backlog') = Len(backlog) + 1 /\ backlog'[Len(backlog) + 1] = e
        /\ \A i \in 1..Len(backlog) : backlog'[i] = backlog[i]
    BY <2>1, <2>5, PushIsHeard
  <2>7. TypeOK'
    BY <2>1, <2>2, <2>6 DEF Inv, TypeOK, Line
  <2>8. BatchIsRead'
    <3>1. /\ Len(batch') <= tailed' /\ tailed' <= seen' /\ seen' <= Len(file')
          /\ watch' \notin {"push", "over"} => batch' = <<>>
      BY <1>1, <1>2, <2>1, <2>2
    <3>2. ASSUME NEW i \in 1..Len(batch')
          PROVE  batch'[i] = file[tailed' - Len(batch') + i]
      <4>1. i + 1 \in 1..Len(lines) /\ batch'[i] = lines[i + 1]
        BY <1>1, <2>2
      <4>2. tailed' - Len(lines) + (i + 1) = tailed' - Len(batch') + i
        BY <1>1, <2>2
      <4>3. QED
        BY <4>1, <4>2
    <3>3. QED
      BY <3>1, <3>2 DEF BatchIsRead
  <2>9. FinishedIsAll'
    <3> SUFFICES ASSUME finished'
                 PROVE  /\ tailed' = Len(file) /\ batch' = <<>>
                        /\ file # <<>> /\ file[Len(file)] \in Verdict
      BY DEF FinishedIsAll
    <3>1. e \in Verdict
      BY <2>1, <2>5
    <3>2. tailed' - Len(lines) + 1 = Len(file)
      BY <2>4, <3>1 DEF Inv, Watched, VerdictEndsFile
    <3>3. Len(lines) = 1 /\ tailed' = Len(file)
      <4>1. \A t, n, z, k \in Nat : n > 0 /\ t - n + 1 = k /\ t <= z /\ z <= k => n = 1 /\ t = k
        OBVIOUS
      <4>2. QED
        BY <4>1, <3>2, <2>3, <1>1, <1>2
    <3>4. batch' = <<>>
      BY <3>3, <2>2, EmptySeq
    <3>5. QED
      BY <2>4, <3>1, <3>2, <3>3, <3>4
  <2>10. OpenUntilDone'
    <3> SUFFICES ASSUME ~ finished', NEW i \in 1..Len(backlog') PROVE backlog'[i] \notin Terminal
      BY DEF OpenUntilDone
    <3>1. e \notin Terminal
      BY <2>1, <2>2 DEF Terminal, Line, Progress, Verdict
    <3>2. i \in 1..Len(backlog) \/ i = Len(backlog) + 1
      BY <1>1, <2>6
    <3>3. QED
      BY <1>4, <2>5, <2>6, <3>1, <3>2
  <2>11. VerdictLast'
    <3> SUFFICES ASSUME NEW i \in 1..Len(backlog'), backlog'[i] \in Terminal
                 PROVE  i = Len(backlog')
      BY DEF VerdictLast
    <3>1. i \in 1..Len(backlog) => backlog'[i] \notin Terminal
      BY <1>4, <2>5, <2>6
    <3>2. QED
      BY <1>1, <2>6, <3>1
  <2>12. QED
    BY <1>3, <2>6, <2>7, <2>8, <2>9, <2>10, <2>11 DEF Inv, Watched
<1>6. CASE lines = <<>>
  <2>1. Len(lines) = 0 /\ batch' = <<>> /\ finished' = finished /\ watch' # "push"
    BY <1>6 DEF Look
  <2>2. BatchIsRead'
    BY <1>1, <1>2, <2>1 DEF BatchIsRead
  <2>3. FinishedIsAll'
    BY <2>1 DEF Inv, Watched, FinishedIsAll
  <2>4. CASE Exited /\ ~ finished
    <3>1. Push("exited") /\ watch' = "last"
      BY <1>6, <2>4 DEF Look
    <3>2. /\ Heard' /\ backlog' \in Seq(Event) /\ inbox' \in [Monitor -> Seq(Event)]
          /\ Len(backlog') = Len(backlog) + 1
          /\ \A i \in 1..Len(backlog) : backlog'[i] = backlog[i]
      BY <3>1, PushIsHeard DEF Event, Terminal
    <3>3. TypeOK'
      BY <2>1, <3>1, <3>2 DEF Inv, TypeOK
    <3>4. OpenUntilDone' /\ VerdictLast'
      <4>1. \A i \in 1..Len(backlog) : backlog'[i] \notin Terminal
        BY <1>4, <2>4, <3>2
      <4>2. \A i \in 1..Len(backlog') : i \in 1..Len(backlog) \/ i = Len(backlog')
        BY <1>1, <3>2
      <4>3. QED
        BY <3>1, <4>1, <4>2 DEF OpenUntilDone, VerdictLast
    <3>5. QED
      BY <1>3, <2>2, <2>3, <3>2, <3>3, <3>4 DEF Inv, Watched
  <2>5. CASE ~ Exited \/ finished
    <3>1. UNCHANGED <<backlog, inbox>> /\ watch' \in {"sleep", "over"}
      BY <1>6, <2>5 DEF Look
    <3>2. TypeOK'
      BY <2>1, <3>1 DEF Inv, TypeOK
    <3>3. OpenUntilDone' /\ VerdictLast'
      BY <2>1, <3>1, <1>4 DEF Inv, Watched, OpenUntilDone, VerdictLast
    <3>4. Heard'
      BY <3>1, HeardByItself DEF monitorVars, Inv
    <3>5. QED
      BY <1>3, <2>2, <2>3, <3>2, <3>3, <3>4 DEF Inv, Watched
  <2>6. QED
    BY <2>4, <2>5
<1>7. QED
  BY <1>5, <1>6

\* The watcher reads, looks at the child and pushes.
LEMMA WatchKeeps == ASSUME Inv, WatchSteps PROVE Inv'
<1>1. /\ file \in Seq(Line) /\ Len(file) \in Nat /\ seen \in Nat /\ tailed \in Nat
      /\ batch \in Seq(Line) /\ Len(batch) \in Nat
  BY LenProperties DEF Inv, TypeOK, Line
<1>2. tailed <= seen /\ seen <= Len(file) /\ Len(batch) <= tailed
  BY DEF Inv, Watched, BatchIsRead
<1>3. CASE WatchStat \/ PushedLast \/ WatchAgain
  <2> USE <1>3 DEF WatchStat, PushedLast, WatchAgain, childVars, stopVars, monitorVars
  <2>1. TypeOK'
    BY <1>1 DEF Inv, TypeOK
  <2>2. Heard'
    BY HeardByItself DEF Inv
  <2>3. VerdictEndsFile' /\ FinishedIsAll' /\ VerdictLast'
    BY DEF Inv, Watched, VerdictEndsFile, FinishedIsAll, VerdictLast
  <2>4. BatchIsRead'
    BY <1>1, <1>2 DEF Inv, Watched, BatchIsRead
  <2>5. OpenUntilDone'
    BY DEF Inv, Watched, OpenUntilDone
  <2>6. QED
    BY <2>1, <2>2, <2>3, <2>4, <2>5 DEF Inv, Watched
<1>4. CASE WatchRead
  <2> DEFINE lines == SubSeq(file, tailed + 1, seen)
  <2>1. \A i \in tailed + 1..seen : file[i] \in Line
    BY <1>1, <1>2, ElementOfSeq
  <2>2. /\ lines \in Seq(Line) /\ Len(lines) = IF tailed + 1 <= seen THEN seen - (tailed + 1) + 1 ELSE 0
        /\ \A i \in 1..seen - (tailed + 1) + 1 : lines[i] = file[tailed + 1 + i - 1]
    BY <1>1, <2>1, SubSeqProperties
  <2>3. Len(lines) = seen - tailed
    BY <1>1, <1>2, <2>2
  <2>4. \A i \in 1..Len(lines) : lines[i] = file[seen - Len(lines) + i]
    BY <1>1, <1>2, <2>2, <2>3
  <2>5. finished => lines = <<>> /\ seen = tailed
    <3>1. finished => tailed = Len(file)
      BY DEF Inv, Watched, FinishedIsAll
    <3>2. finished => seen = tailed /\ Len(lines) = 0
      BY <1>1, <1>2, <2>3, <3>1
    <3>3. QED
      BY <2>2, <3>2, EmptySeq
  <2>6. Look(lines) /\ tailed' = seen /\ watch \in {"read", "push"}
    BY <1>4 DEF WatchRead
  <2>7. /\ tailed' \in Nat /\ Len(lines) <= tailed' /\ tailed' <= seen
        /\ \A i \in 1..Len(lines) : lines[i] = file[tailed' - Len(lines) + i]
        /\ finished => lines = <<>> /\ tailed' = tailed
    BY <1>1, <2>3, <2>4, <2>5, <2>6
  <2>8. UNCHANGED <<childVars, seen, watchers, conn, copy, printed, code, stopVars>>
    BY <1>4 DEF WatchRead
  <2> HIDE DEF lines
  <2>9. QED
    BY <2>2, <2>6, <2>7, <2>8, LookKeeps
<1>5. CASE Pushed
  <2>1. Look(batch) /\ tailed' = tailed /\ watch = "push"
    BY <1>5 DEF Pushed
  <2>2. \A i \in 1..Len(batch) : batch[i] = file[tailed - Len(batch) + i]
    BY DEF Inv, Watched, BatchIsRead
  <2>3. finished => batch = <<>>
    BY DEF Inv, Watched, FinishedIsAll
  <2>4. UNCHANGED <<childVars, seen, watchers, conn, copy, printed, code, stopVars>>
    BY <1>5 DEF Pushed
  <2>5. QED
    BY <1>1, <1>2, <2>1, <2>2, <2>3, <2>4, LookKeeps
<1>6. QED
  BY <1>3, <1>4, <1>5 DEF WatchSteps

-----------------------------------------------------------------------------
(* The monitors. *)

\* A monitor's connection is no business of the watcher's.
LEMMA WatchedByItself ==
    ASSUME Watched, UNCHANGED <<childVars, watchVars>>
    PROVE  Watched'
BY DEF Watched, VerdictEndsFile, BatchIsRead, FinishedIsAll, OpenUntilDone, VerdictLast,
       childVars, watchVars

\* Closing leaves the others as they were.
LEMMA CloseKeeps ==
    ASSUME Inv, NEW ms \in SUBSET Monitor, Close(ms), UNCHANGED backlog
    PROVE  /\ Heard'
           /\ watchers' \subseteq Monitor
           /\ conn' \in [Monitor -> {"away", "on", "closed"}]
           /\ copy' \in [Monitor -> Seq(Event)] /\ inbox' \in [Monitor -> Seq(Event)]
           /\ printed' \in [Monitor -> Seq(Event)]
<1> USE DEF Close
<1>1. RegisteredIsOn' /\ NothingMissed'
  BY DEF Inv, Heard, RegisteredIsOn, NothingMissed
<1>2. QED
  BY <1>1 DEF Inv, TypeOK, Heard

\* A monitor that connects has the backlog copied as it is registered.
LEMMA ConnectKeeps == ASSUME Inv, NEW m \in Monitor, Connect(m) PROVE Inv'
<1> USE DEF Connect
<1>1. backlog \in Seq(Event) /\ <<>> \in Seq(Event)
  BY DEF Inv, TypeOK
<1>2. TypeOK'
  BY <1>1 DEF Inv, TypeOK, childVars, watchVars, stopVars
<1>3. RegisteredIsOn'
  BY DEF Inv, Heard, RegisteredIsOn, TypeOK
<1>4. printed[m] = <<>> /\ inbox[m] = <<>>
  BY DEF Inv, Heard, RegisteredIsOn
<1>5. (<<>> \o backlog) \o <<>> = backlog
  <2>1. <<>> \o backlog = backlog /\ backlog \o <<>> = backlog
    BY <1>1, ConcatEmptySeq
  <2>2. QED
    BY <2>1
<1>6. ASSUME NEW n \in Monitor, conn'[n] = "on"
      PROVE  printed'[n] \o copy'[n] \o inbox'[n] = backlog'
  <2>1. CASE n = m
    <3>1. printed'[n] = <<>> /\ copy'[n] = backlog /\ inbox'[n] = <<>> /\ backlog' = backlog
      BY <2>1, <1>4 DEF Inv, TypeOK, watchVars
    <3>2. QED
      BY <3>1, <1>5
  <2>2. CASE n # m
    BY <2>2, <1>6 DEF Inv, TypeOK, Heard, NothingMissed, watchVars
  <2>3. QED
    BY <2>1, <2>2
<1>7. QED
  BY <1>2, <1>3, <1>6, WatchedByItself DEF Inv, Heard, NothingMissed

\* One event is taken from the front of what is to be sent and printed.
LEMMA PrintsNext ==
    ASSUME Inv, NEW m \in Monitor, conn[m] = "on", copy[m] \o inbox[m] # <<>>,
           printed' = [printed EXCEPT ![m] = Append(@, Head(copy[m] \o inbox[m]))],
           copy' = [copy EXCEPT ![m] = IF @ = <<>> THEN @ ELSE Tail(@)],
           inbox' = [inbox EXCEPT ![m] = IF copy[m] = <<>> THEN Tail(@) ELSE @]
    PROVE  /\ printed'[m] \in Seq(Event) /\ copy'[m] \in Seq(Event) /\ inbox'[m] \in Seq(Event)
           /\ printed'[m] \o copy'[m] \o inbox'[m] = backlog
<1> DEFINE out == printed[m]
           old == copy[m]
           new == inbox[m]
<1>1. out \in Seq(Event) /\ old \in Seq(Event) /\ new \in Seq(Event) /\ <<>> \in Seq(Event)
  BY DEF Inv, TypeOK
<1>2. (out \o old) \o new = backlog
  BY DEF Inv, Heard, NothingMissed
<1>3. /\ printed'[m] = Append(out, Head(old \o new))
      /\ copy'[m] = IF old = <<>> THEN old ELSE Tail(old)
      /\ inbox'[m] = IF old = <<>> THEN Tail(new) ELSE new
      /\ old \o new # <<>>
  BY DEF Inv, TypeOK
<1> HIDE DEF out, old, new
<1>4. CASE old = <<>>
  <2>1. old \o new = new /\ out \o old = out
    BY <1>1, <1>4, ConcatEmptySeq
  <2>2. new # <<>> /\ Head(new) \in Event /\ Tail(new) \in Seq(Event)
    BY <1>1, <1>3, <2>1, HeadTailProperties
  <2>3. Append(out, Head(new)) \o Tail(new) = out \o new
    BY <1>1, <2>2, MoveHead
  <2>4. Append(out, Head(new)) \in Seq(Event)
    BY <1>1, <2>2, AppendProperties
  <2>5. Append(out, Head(new)) \o <<>> = Append(out, Head(new))
    BY <2>4, ConcatEmptySeq
  <2>6. QED
    BY <1>1, <1>2, <1>3, <1>4, <2>1, <2>2, <2>3, <2>4, <2>5
<1>5. CASE old # <<>>
  <2>1. Head(old) \in Event /\ Tail(old) \in Seq(Event)
    BY <1>1, <1>5, HeadTailProperties
  <2>2. Head(old \o new) = Head(old)
    <3>1. Len(old) \in Nat \ {0} /\ Len(new) \in Nat
      BY <1>1, <1>5, EmptySeq, LenProperties
    <3>2. Head(old \o new) = (old \o new)[1] /\ Head(old) = old[1]
      <4>1. \A r \in Seq(Event) : r # <<>> => Head(r) = r[1]
        OBVIOUS
      <4>2. old \o new \in Seq(Event)
        BY <1>1, ConcatProperties
      <4>3. QED
        BY <4>1, <4>2, <1>1, <1>3, <1>5
    <3>3. (old \o new)[1] = old[1]
      BY <1>1, <3>1, ConcatProperties
    <3>4. QED
      BY <3>2, <3>3
  <2>3. Append(out, Head(old)) \o Tail(old) = out \o old
    BY <1>1, <1>5, MoveHead
  <2>4. Append(out, Head(old)) \in Seq(Event)
    BY <1>1, <2>1, AppendProperties
  <2>5. QED
    BY <1>1, <1>2, <1>3, <1>5, <2>1, <2>2, <2>3, <2>4
<1>6. QED
  BY <1>4, <1>5

\* A monitor is sent what is left of its copy, then what is in its queue.
LEMMA SendKeeps == ASSUME Inv, NEW m \in Monitor, Send(m) PROVE Inv'
<1> DEFINE e == Head(copy[m] \o inbox[m])
<1>1. Status(e) \in {-1, 0, 1, 2}
  BY DEF Status
<1>2. code' \in [Monitor -> {-1, 0, 1, 2, 3}]
  BY <1>1 DEF Send, Inv, TypeOK
<1>3. Watched'
  BY WatchedByItself DEF Send, Inv
<1>4. CASE e \in Terminal
  <2>1. Close({m})
    BY <1>4 DEF Send
  <2>2. QED
    BY <1>2, <1>3, <2>1, CloseKeeps DEF Send, Inv, TypeOK, childVars, watchVars, stopVars
<1>5. CASE e \notin Terminal
  <2>1. /\ conn[m] = "on" /\ copy[m] \o inbox[m] # <<>>
        /\ printed' = [printed EXCEPT ![m] = Append(@, e)]
        /\ copy' = [copy EXCEPT ![m] = IF @ = <<>> THEN @ ELSE Tail(@)]
        /\ inbox' = [inbox EXCEPT ![m] = IF copy[m] = <<>> THEN Tail(@) ELSE @]
        /\ UNCHANGED <<conn, watchers, childVars, watchVars, stopVars>>
    BY <1>5 DEF Send
  <2>2. /\ printed'[m] \in Seq(Event) /\ copy'[m] \in Seq(Event) /\ inbox'[m] \in Seq(Event)
        /\ printed'[m] \o copy'[m] \o inbox'[m] = backlog
    BY <2>1, PrintsNext
  <2>3. ASSUME NEW n \in Monitor, n # m
        PROVE  printed'[n] = printed[n] /\ copy'[n] = copy[n] /\ inbox'[n] = inbox[n]
    BY <2>1, <2>3 DEF Inv, TypeOK
  <2> HIDE DEF e
  <2>4. TypeOK'
    <3>1. /\ printed' \in [Monitor -> Seq(Event)]
          /\ copy' \in [Monitor -> Seq(Event)]
          /\ inbox' \in [Monitor -> Seq(Event)]
      BY <2>1, <2>2, <2>3 DEF Inv, TypeOK
    <3>2. QED
      BY <1>2, <2>1, <3>1 DEF Inv, TypeOK, childVars, watchVars, stopVars
  <2>5. RegisteredIsOn'
    BY <2>1, <2>3 DEF Inv, Heard, RegisteredIsOn
  <2>6. NothingMissed'
    BY <2>1, <2>2, <2>3 DEF Inv, Heard, NothingMissed, watchVars
  <2>7. QED
    BY <1>3, <2>4, <2>5, <2>6 DEF Inv, Heard
<1>6. QED
  BY <1>4, <1>5

\* A monitor that goes is taken off the list.
LEMMA LeaveKeeps == ASSUME Inv, NEW m \in Monitor, Leave(m) PROVE Inv'
<1>1. Close({m}) /\ UNCHANGED <<childVars, watchVars, code, stopVars>>
  BY DEF Leave
<1>2. Watched'
  BY <1>1, WatchedByItself DEF Inv
<1>3. QED
  BY <1>1, <1>2, CloseKeeps DEF Inv, TypeOK, childVars, watchVars, stopVars

-----------------------------------------------------------------------------
(* Stopping. *)

\* The server's end closes every stream and ends the watcher.
LEMMA DownKeeps == ASSUME Inv, ServerDown PROVE Inv'
<1> USE DEF ServerDown
<1>1. Close(Monitor) /\ UNCHANGED backlog
  OBVIOUS
<1>2. /\ Heard' /\ watchers' \subseteq Monitor
      /\ conn' \in [Monitor -> {"away", "on", "closed"}]
      /\ copy' \in [Monitor -> Seq(Event)] /\ inbox' \in [Monitor -> Seq(Event)]
      /\ printed' \in [Monitor -> Seq(Event)]
  BY <1>1, CloseKeeps
<1>3. child' \in {child, "killed"} /\ watch' = "over"
  OBVIOUS
<1>4. TypeOK'
  BY <1>2, <1>3 DEF Inv, TypeOK
<1>5. Watched'
  BY <1>3 DEF Inv, Watched, VerdictEndsFile, BatchIsRead, FinishedIsAll, OpenUntilDone, VerdictLast
<1>6. QED
  BY <1>2, <1>4, <1>5 DEF Inv

\* An interrupt only changes what becomes of the child.
LEMMA InterruptedGoes ==
    ASSUME child \in {"running", "ending", "closing", "killed", "exited"}, ~ Exited, Interrupted
    PROVE  /\ child' \in {"ending", "closing", "killed", "exited"}
           /\ child' = "ending" => child \in {"running", "ending"}
BY DEF Interrupted, Exited

\* So does every stage of a stop, and the end of the server.
LEMMA StopKeeps ==
    ASSUME Inv, \/ \E s \in Stopper : Stop(s) \/ StopOver(s)
                \/ ServerEnds
    PROVE  Inv'
<1>1. /\ child \in {"running", "ending", "closing", "killed", "exited"}
      /\ stopping \in [Stopper -> {"idle", "wait", "over"}]
      /\ server \in {"up", "stopping", "down"}
  BY DEF Inv, TypeOK
<1>2. ASSUME NEW s \in Stopper, Stop(s) PROVE Inv'
  <2>1. CASE Exited
    BY <1>1, <1>2, <2>1, ChildGoes DEF Stop, Exited
  <2>2. CASE ~ Exited
    BY <1>1, <1>2, <2>2, ChildGoes, InterruptedGoes DEF Stop
  <2>3. QED
    BY <2>1, <2>2
<1>3. ASSUME NEW s \in Stopper, StopOver(s) PROVE Inv'
  BY <1>1, <1>3, ChildGoes DEF StopOver, Exited
<1>4. CASE ServerEnds
  <2>1. CASE Exited
    BY <1>1, <1>4, <2>1, ChildGoes DEF ServerEnds, Exited
  <2>2. CASE ~ Exited
    BY <1>1, <1>4, <2>2, ChildGoes, InterruptedGoes DEF ServerEnds
  <2>3. QED
    BY <2>1, <2>2
<1>5. QED
  BY <1>2, <1>3, <1>4

-----------------------------------------------------------------------------

\* The child writes a line, ends or is killed.
LEMMA ChildKeeps ==
    ASSUME Inv, \/ \E e \in Progress : ChildSays(e)
                \/ \E v \in Verdict : ChildVerdict(v)
                \/ ChildEnds \/ ChildExits \/ ChildCrashes
    PROVE  Inv'
<1>1. ASSUME NEW e \in Progress, ChildSays(e) PROVE Inv'
  BY <1>1, FileGrows DEF ChildSays, Line, Progress, Verdict
<1>2. ASSUME NEW v \in Verdict, ChildVerdict(v) PROVE Inv'
  BY <1>2, FileGrows DEF ChildVerdict, Line
<1>3. CASE ChildEnds \/ ChildExits \/ ChildCrashes
  <2>1. /\ stopping \in [Stopper -> {"idle", "wait", "over"}]
        /\ server \in {"up", "stopping", "down"}
    BY DEF Inv, TypeOK
  <2>2. QED
    BY <1>3, <2>1, ChildGoes DEF ChildEnds, ChildExits, ChildCrashes, stopVars
<1>4. QED
  BY <1>1, <1>2, <1>3

\* Every step is one of these.
LEMMA StepInv == Inv /\ [Next]_vars => Inv'
<1> SUFFICES ASSUME Inv, [Next]_vars PROVE Inv'
  OBVIOUS
<1>1. CASE UNCHANGED vars
  <2>1. TypeOK'
    BY <1>1 DEF Inv, TypeOK, vars, childVars, watchVars, monitorVars, stopVars
  <2>2. QED
    BY <1>1, <2>1, WatchedByItself, HeardByItself DEF Inv, vars, watchVars
<1>2. CASE Next
  <2>1. ASSUME NEW m \in Monitor, Connect(m) \/ Send(m) \/ Leave(m) PROVE Inv'
    BY <2>1, ConnectKeeps, SendKeeps, LeaveKeeps
  <2>2. QED
    BY <1>1, <1>2, <2>1, ChildKeeps, WatchKeeps, StopKeeps, DownKeeps DEF Next, Done
<1>3. QED
  BY <1>1, <1>2

\* Inv holds in every state of a run of the server: the types, what the watcher
\* has looked at, and who is registered.
THEOREM RunsInvariant == Spec => []Inv
BY InitInv, StepInv, PTL DEF Spec

\* "No event falls between" (server.py, _monitor): for any number of monitors,
\* connecting whenever they like, none misses an event or gets one twice.
THEOREM NobodyMisses == Spec => []NothingMissed
<1>1. Inv => NothingMissed
  BY DEF Inv, Heard
<1>2. QED
  BY <1>1, RunsInvariant, PTL

\* "The events after which a run sends nothing more" (monitor.TERMINAL).
THEOREM OneVerdict == Spec => []VerdictLast
<1>1. Inv => VerdictLast
  BY DEF Inv, Watched
<1>2. QED
  BY <1>1, RunsInvariant, PTL

=============================================================================
