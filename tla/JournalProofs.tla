---------------------------- MODULE JournalProofs ----------------------------
(***************************************************************************)
(* What guests log and their streams carry is told: each entry once for    *)
(* each time it was written, none passed over, a settled phase's own with  *)
(* the phase, and, unless the drive was cut short, the last words before   *)
(* the end, for any guests and phases, however drains and timeouts         *)
(* interleave and whichever guests die or start their stream again.        *)
(***************************************************************************)
EXTENDS Journal, FiniteSetTheorems, NaturalsInduction, SequenceTheorems, TLAPS

-----------------------------------------------------------------------------
(* The guests in turn, and the queue for the lock.                         *)

\* A set of guests that is not empty has a first.
LEMMA FirstOf ==
    ASSUME NEW S \in SUBSET Guest, S # {}
    PROVE  First(S) \in S /\ First(S) \in Guest
<1>1. S \subseteq Nat
  BY NumAssumption DEF Guest
<1>2. PICK g \in S : \A h \in S : <<h, g>> \notin OpToRel(<, Nat)
  BY <1>1, NatLessThanWellFounded, WFMin
<1>3. \A h \in S : ~ (h < g)
  BY <1>1, <1>2 DEF OpToRel
<1>4. \A h \in S : g <= h
  BY <1>1, <1>3
<1> QED
  BY <1>4 DEF First

\* Phases are tasks, and follow and _sequence are none of them.
LEMMA Tasks ==
    /\ Follow \in Task /\ Sequence \in Task /\ Follow # Sequence
    /\ Phase \subseteq Task /\ \A p \in Phase : p # Follow /\ p # Sequence
    /\ \A t \in Task : t \in Phase \/ t = Follow \/ t = Sequence
BY NumAssumption DEF Task, Phase, Follow, Sequence

\* Who has the lock keeps it when another leaves the queue.
LEMMA OthersKeepHead ==
    ASSUME queue \in Seq(Task), NEW t \in Task
    PROVE  /\ Others(t) \in Seq(Task)
           /\ \A u \in Task : u # t /\ Owner(u) => Others(t) # <<>> /\ Head(Others(t)) = u
<1>1. CASE \E i \in DOMAIN queue : queue[i] = t
  <2> DEFINE i == CHOOSE j \in DOMAIN queue : queue[j] = t
             A == SubSeq(queue, 1, i - 1)
             B == SubSeq(queue, i + 1, Len(queue))
  <2>1. i \in 1..Len(queue) /\ queue[i] = t
    BY <1>1
  <2>2. /\ A \in Seq(Task) /\ Len(A) = i - 1 /\ \A j \in 1..i - 1 : A[j] = queue[j]
        /\ B \in Seq(Task)
    <3>1. \A j \in 1..i - 1 : queue[j] \in Task
      BY <2>1
    <3>2. \A j \in i + 1..Len(queue) : queue[j] \in Task
      BY <2>1
    <3>3. i \in Int /\ i - 1 \in Int /\ i + 1 \in Int /\ 1 \in Int /\ Len(queue) \in Int
      BY <2>1
    <3> HIDE DEF i
    <3>4. A \in Seq(Task) /\ Len(A) = (IF 1 <= i - 1 THEN i - 1 - 1 + 1 ELSE 0)
          /\ \A j \in 1..i - 1 - 1 + 1 : A[j] = queue[1 + j - 1]
      BY <3>1, <3>3, SubSeqProperties
    <3>5. B \in Seq(Task)
      BY <3>2, <3>3, SubSeqProperties
    <3> QED
      BY <2>1, <3>3, <3>4, <3>5
  <2>3. Others(t) = A \o B
    BY <1>1 DEF Others, RemoveAt
  <2> HIDE DEF A, B, i
  <2>4. Others(t) \in Seq(Task) /\ Len(Others(t)) = Len(A) + Len(B)
        /\ \A j \in 1..Len(A) : Others(t)[j] = A[j]
    <3>1. Len(A) \in Nat /\ Len(B) \in Nat
      BY <2>2
    <3>2. /\ A \o B \in Seq(Task) /\ Len(A \o B) = Len(A) + Len(B)
          /\ \A j \in 1..Len(A) + Len(B) : (A \o B)[j] = IF j <= Len(A) THEN A[j] ELSE B[j - Len(A)]
      BY <2>2, ConcatProperties
    <3>3. \A j \in 1..Len(A) : j \in 1..Len(A) + Len(B) /\ j <= Len(A)
      BY <3>1
    <3> QED
      BY <2>3, <3>2, <3>3
  <2>5. ASSUME NEW u \in Task, u # t, Owner(u) PROVE Others(t) # <<>> /\ Head(Others(t)) = u
    <3>1. queue # <<>> /\ queue[1] = u
      BY <2>5 DEF Owner
    <3>2. 1 \in 1..Len(A) /\ A[1] = u
      BY <2>1, <2>2, <2>5, <3>1
    <3> QED
      BY <2>4, <3>2
  <2> QED
    BY <2>4, <2>5
<1>2. CASE ~ \E i \in DOMAIN queue : queue[i] = t
  BY <1>2 DEF Others, Owner
<1> QED
  BY <1>1, <1>2

\* Who has the lock keeps it when another asks for it.
LEMMA AppendKeepsHead ==
    ASSUME NEW q \in Seq(Task), NEW t \in Task
    PROVE  /\ Append(q, t) \in Seq(Task)
           /\ q # <<>> => Append(q, t) # <<>> /\ Head(Append(q, t)) = Head(q)
BY HeadTailAppend

-----------------------------------------------------------------------------
(* Types, and who reads.                                                   *)

Place == {"idle", "body", "over", "stopped"} \cup Draining \cup Settling

\* The awaits of a phase, those of follow, and those of the end of _sequence.
OfPhase == {"idle", "start", "body", "token", "poll", "sleep", "last", "over", "stopped"}
OfFollow == {"drain", "sleep", "final", "over"}
OfSequence == {"idle", "final", "over"}
Places(t) == IF t = Follow THEN OfFollow ELSE IF t = Sequence THEN OfSequence ELSE OfPhase

\* Only the owner of the lock is in the middle of a read.
Locked ==
    /\ TypeOK
    /\ \A t \in Task : at[t] \in Places(t)
    /\ \A t \in Task : at[t] \in Draining => left[t] # {}
    /\ \A p \in Phase : at[p] = "token" => asking[p] # {}
    /\ \A t \in Task : step[t] # "stat" => at[t] \in Draining /\ Owner(t)

\* Who is where.
LEMMA InPlace ==
    Locked => at[Follow] \in OfFollow /\ at[Sequence] \in OfSequence /\ \A p \in Phase : at[p] \in OfPhase
BY Tasks DEF Locked, Places

\* What a task that calls drain, is sent away or waits for something else does
\* to the drains: its own is at its start, and the others' are as they were.
Moves(t) ==
    /\ at' \in [Task -> Place] /\ queue' \in Seq(Task) /\ left' \in [Task -> SUBSET Guest]
    /\ step' \in [Task -> {"stat", "read", "close"}]
    /\ size' \in [Task -> Nat] /\ data' \in [Task -> Nat \X Nat \X Nat]
    /\ step'[t] = "stat" /\ (at'[t] \in Draining => left'[t] # {})
    /\ \A u \in Task \ {t} :
          /\ at'[u] = at[u] /\ left'[u] = left[u] /\ step'[u] = step[u]
          /\ size'[u] = size[u] /\ data'[u] = data[u]
          /\ Owner(u) => Owner(u)'

\* It has a guest to read.
LEMMA SomeGuest == Guest # {} /\ Guest \subseteq Nat
<1>1. 1 \in Guest
  BY NumAssumption DEF Guest
<1> QED
  BY <1>1 DEF Guest

\* Asking for the lock, from the queue as it is or without oneself.
LEMMA EnterMoves ==
    ASSUME TypeOK, NEW t \in Task, NEW stage \in Draining, NEW q, q \in {queue, Others(t)},
           Enter(t, stage, q)
    PROVE  Moves(t) /\ at' = [at EXCEPT ![t] = stage]
<1>1. queue \in Seq(Task)
  BY DEF TypeOK
<1>2. q \in Seq(Task) /\ \A u \in Task \ {t} : Owner(u) => q # <<>> /\ Head(q) = u
  BY <1>1, OthersKeepHead DEF Owner
<1>3. queue' \in Seq(Task) /\ \A u \in Task \ {t} : Owner(u) => queue' # <<>> /\ Head(queue') = u
  BY <1>2, AppendKeepsHead DEF Enter
<1>4. \A u \in Task \ {t} : Owner(u) => Owner(u)'
  BY <1>3 DEF Owner
<1>5. <<0, 0, 0>> \in Nat \X Nat \X Nat
  OBVIOUS
<1> QED
  BY <1>3, <1>4, <1>5, SomeGuest DEF Enter, Moves, TypeOK, Place

\* settle goes on.
LEMMA AskMoves ==
    ASSUME Locked, NEW p \in Phase, NEW rest \in SUBSET Guest, NEW sent, Ask(p, rest, sent),
           at[p] \in {"body", "token"}
    PROVE  /\ Moves(p) /\ asking' \in [Phase -> SUBSET Guest]
           /\ \A q \in Phase \ {p} : asking'[q] = asking[q]
           /\ \E stage \in {"token", "last", "poll"} :
                 /\ at' = [at EXCEPT ![p] = stage]
                 /\ stage = "last" => Arrived(p, sent)
                 /\ stage = "token" => asking'[p] \in (SUBSET rest) \ {{}}
<1> DEFINE worth == {g \in rest : Worth(g)}
<1>1. p \in Task /\ TypeOK
  BY Tasks DEF Locked
<1>2. step[p] = "stat"
  BY <1>1 DEF Locked, Draining
<1>3. CASE worth # {}
  <2>1. /\ at' = [at EXCEPT ![p] = "token"] /\ UNCHANGED <<queue, left, step, size, data>>
        /\ asking' = [asking EXCEPT ![p] = {g \in rest : First(worth) <= g}]
    BY <1>3 DEF Ask
  <2>2. First(worth) \in rest /\ First(worth) <= First(worth)
    <3>1. worth \in SUBSET Guest /\ worth \subseteq rest
      OBVIOUS
    <3>2. First(worth) \in worth
      BY <1>3, <3>1, FirstOf
    <3> HIDE DEF worth
    <3>3. First(worth) \in rest /\ First(worth) \in Nat
      BY <3>1, <3>2, SomeGuest
    <3> QED
      BY <3>3
  <2>3. asking'[p] \in (SUBSET rest) \ {{}}
    BY <1>1, <2>1, <2>2 DEF TypeOK
  <2>4. Moves(p)
    <3>1. "token" \in Place /\ "token" \notin Draining
      BY DEF Place, Settling, Draining
    <3>2. \A u \in Task : Owner(u) => Owner(u)'
      BY <2>1 DEF Owner
    <3>3. at \in [Task -> Place]
      BY <1>1 DEF TypeOK, Place
    <3>4. /\ queue \in Seq(Task) /\ left \in [Task -> SUBSET Guest]
          /\ step \in [Task -> {"stat", "read", "close"}]
          /\ size \in [Task -> Nat] /\ data \in [Task -> Nat \X Nat \X Nat]
      BY <1>1 DEF TypeOK
    <3>5. at' \in [Task -> Place] /\ at'[p] = "token" /\ \A u \in Task \ {p} : at'[u] = at[u]
      BY <1>1, <2>1, <3>1, <3>3
    <3> QED
      BY <1>1, <1>2, <2>1, <3>1, <3>2, <3>4, <3>5 DEF Moves
  <2> QED
    BY <1>1, <2>1, <2>3, <2>4 DEF TypeOK
<1>4. CASE worth = {}
  <2>1. PICK stage \in {"last", "poll"} :
           /\ Enter(p, stage, Others(p)) /\ asking' = [asking EXCEPT ![p] = {}]
           /\ stage = "last" => Arrived(p, sent)
    BY <1>4 DEF Ask
  <2>2. stage \in Draining
    BY DEF Draining
  <2>3. Moves(p) /\ at' = [at EXCEPT ![p] = stage]
    BY <1>1, <2>1, <2>2, EnterMoves
  <2> QED
    BY <1>1, <2>1, <2>3 DEF TypeOK
<1> QED
  BY <1>3, <1>4

\* The lock stays with who reads.
LEMMA MovesLocked ==
    ASSUME Locked, NEW t \in Task, Moves(t), TypeOK',
           at'[t] \in Places(t),
           \A p \in Phase : at'[p] = "token" => asking'[p] # {}
    PROVE  Locked'
<1>1. \A u \in Task : at'[u] \in Draining => left'[u] # {}
  BY DEF Moves, Locked
<1>2. \A u \in Task : at'[u] \in Places(u)
  BY DEF Moves, Locked
<1>3. \A u \in Task : step'[u] # "stat" => at'[u] \in Draining /\ Owner(u)'
  BY DEF Moves, Locked
<1> QED
  BY <1>1, <1>2, <1>3 DEF Locked

\* The guests of a phase are guests.
LEMMA NodesType == TypeOK => nodes \in [Phase -> SUBSET Guest]
BY ScenesAssumption DEF TypeOK, nodes, Scene

\* A reader goes on to the next guest, or its drain returns.
LEMMA NextGuestMoves ==
    ASSUME Locked, NEW t \in Task, at[t] \in Draining, Owner(t), NextGuest(t)
    PROVE  /\ Moves(t)
           /\ left'[t] = left[t] \ {First(left[t])}
           /\ at'[t] \in Places(t)
           /\ running' \in [Guest -> Phase \cup {NoPhase}]
           /\ tokens' \in [Phase -> SUBSET Guest] /\ late' \subseteq Phase
           /\ \/ left'[t] # {} /\ UNCHANGED <<queue, at, running, tokens, late>>
              \/ left'[t] = {} /\ DrainReturns(t)
<1> USE DEF Locked
<1>1. left[t] \in SUBSET Guest /\ left[t] # {} /\ First(left[t]) \in left[t]
  BY FirstOf DEF TypeOK
<1>2. \A u \in Task \ {t} : ~ Owner(u)
  BY DEF Owner
<1>3. /\ left' \in [Task -> SUBSET Guest] /\ left'[t] = left[t] \ {First(left[t])}
      /\ step' \in [Task -> {"stat", "read", "close"}] /\ step'[t] = "stat"
      /\ size' \in [Task -> Nat] /\ data' \in [Task -> Nat \X Nat \X Nat]
      /\ \A u \in Task \ {t} :
            left'[u] = left[u] /\ step'[u] = step[u] /\ size'[u] = size[u] /\ data'[u] = data[u]
  BY DEF NextGuest, TypeOK
<1>4. at[t] \in Places(t)
  OBVIOUS
<1>5. CASE left[t] = {First(left[t])}
  <2>1. DrainReturns(t)
    BY <1>5 DEF NextGuest
  <2>2. PICK place \in {"body", "sleep", "over"} :
           /\ at' = [at EXCEPT ![t] = place]
           /\ place \in Places(t)
    BY <2>1, <1>4 DEF DrainReturns, Draining, Places, OfFollow, OfSequence, OfPhase
  <2>3. at' \in [Task -> Place] /\ at'[t] = place /\ place \notin Draining
        /\ \A u \in Task \ {t} : at'[u] = at[u]
    BY <2>2 DEF Draining, Settling, Place, TypeOK
  <2>4. queue' \in Seq(Task)
    BY <2>1, OthersKeepHead DEF DrainReturns, TypeOK
  <2>5. at[t] \in {"start", "last"} => t \in Phase
    BY <1>4, Tasks DEF Places, OfFollow, OfSequence
  <2>6. /\ running' \in [Guest -> Phase \cup {NoPhase}]
        /\ tokens' \in [Phase -> SUBSET Guest] /\ late' \subseteq Phase
    <3>1. tokens' \in [Phase -> SUBSET Guest] /\ late' \subseteq Phase
      BY <2>1 DEF DrainReturns, TypeOK
    <3>2. running' = [g \in Guest |-> CASE at[t] = "start" /\ g \in nodes[t] -> t
                                        [] at[t] = "last" /\ g \in nodes[t] -> NoPhase
                                        [] OTHER -> running[g]]
      BY <2>1 DEF DrainReturns
    <3>3. ASSUME NEW g \in Guest PROVE running'[g] \in Phase \cup {NoPhase}
      <4>1. running[g] \in Phase \cup {NoPhase}
        BY DEF TypeOK
      <4>2. CASE at[t] = "start" /\ g \in nodes[t]
        BY <2>5, <3>2, <4>2
      <4>3. CASE at[t] = "last" /\ g \in nodes[t]
        BY <3>2, <4>3
      <4>4. CASE ~ (at[t] \in {"start", "last"} /\ g \in nodes[t])
        BY <3>2, <4>1, <4>4
      <4> QED
        BY <4>2, <4>3, <4>4
    <3> QED
      BY <3>1, <3>2, <3>3
  <2>7. Moves(t)
    BY <1>2, <1>3, <2>3, <2>4 DEF Moves
  <2> QED
    BY <1>3, <1>5, <2>1, <2>2, <2>3, <2>6, <2>7
<1>6. CASE left[t] # {First(left[t])}
  <2>1. UNCHANGED <<queue, at, running, tokens, late>>
    BY <1>6 DEF NextGuest
  <2>2. left'[t] # {}
    BY <1>1, <1>3, <1>6
  <2>3. at \in [Task -> Place] /\ queue \in Seq(Task)
    BY DEF TypeOK, Place
  <2>4. Moves(t)
    BY <1>2, <1>3, <2>1, <2>2, <2>3 DEF Moves
  <2> QED
    BY <1>3, <1>4, <2>1, <2>2, <2>4 DEF TypeOK
<1> QED
  BY <1>5, <1>6

\* Types, when neither the guests nor what was told of them change.
LEMMA TypesTurn ==
    ASSUME TypeOK, NEW t \in Task, Moves(t), UNCHANGED <<guestVars, tailVars>>,
           running' \in [Guest -> Phase \cup {NoPhase}],
           asking' \in [Phase -> SUBSET Guest], tokens' \in [Phase -> SUBSET Guest], late' \subseteq Phase
    PROVE  TypeOK'
<1>1. /\ at' \in [Task -> {"idle", "body", "over", "stopped"} \cup Draining \cup Settling]
      /\ queue' \in Seq(Task) /\ left' \in [Task -> SUBSET Guest]
      /\ step' \in [Task -> {"stat", "read", "close"}]
      /\ size' \in [Task -> Nat] /\ data' \in [Task -> Nat \X Nat \X Nat]
  BY DEF Moves, Place
<1>2. /\ scene' = scene /\ log' = log /\ from' = from /\ file' = file /\ restarts' = restarts
      /\ alive' = alive /\ down' = down /\ cancelled' = cancelled
      /\ offset' = offset /\ stream' = stream /\ mixed' = mixed /\ events' = events /\ settled' = settled
  BY DEF guestVars, tailVars
<1>3. /\ (scene \in Scenes)' /\ (log \in [Guest -> Seq([by : Phase \cup {NoPhase}, token : BOOLEAN])])'
      /\ (from \in [Guest -> Nat] /\ file \in [Guest -> Nat])'
      /\ (offset \in [Guest -> Nat] /\ stream \in [Guest -> Nat] /\ mixed \subseteq Guest)'
      /\ (restarts \in [Guest -> Nat] /\ alive \in [Guest -> BOOLEAN])'
      /\ (down \in BOOLEAN /\ cancelled \in BOOLEAN)'
      /\ (events \in [Guest -> Seq([lines : SUBSET Nat, phase : Phase \cup {NoPhase}])])'
      /\ (settled \subseteq Guest \X Phase)'
  BY <1>2 DEF TypeOK
<1> QED
  BY <1>1, <1>3 DEF TypeOK

\* A task turns to something else: only its own places change.
Turns(t) ==
    /\ Moves(t) /\ TypeOK'
    /\ at'[t] \in Places(t)
    /\ \A p \in Phase : at'[p] = "token" => asking'[p] # {}
    /\ UNCHANGED <<guestVars, tailVars>>
    /\ at'[t] = "stopped" \/ running' = running

\* A phase begins, ends its body, asks, polls or runs out of time.
Goes(p) == Begin(p) \/ BodyEnds(p) \/ TokenSent(p) \/ Again(p) \/ Timeout(p)

LEMMA PhaseTurns ==
    ASSUME Locked, NEW p \in Phase, Goes(p)
    PROVE  Turns(p) /\ running' = running
<1> USE DEF Locked, Goes
<1>1. p \in Task /\ p # Follow /\ p # Sequence
  BY Tasks
<1>2. queue \in {queue, Others(p)} /\ Others(p) \in {queue, Others(p)}
  OBVIOUS
<1>3. UNCHANGED <<guestVars, tailVars, running>>
  BY DEF Begin, BodyEnds, TokenSent, Again, Timeout
<1>4. /\ asking' \in [Phase -> SUBSET Guest] /\ tokens' \in [Phase -> SUBSET Guest] /\ late' \subseteq Phase
      /\ \A q \in Phase \ {p} : asking'[q] = asking[q]
      /\ Moves(p) /\ \E stage \in OfPhase :
                        at' = [at EXCEPT ![p] = stage] /\ (stage = "token" => asking'[p] # {})
  <2>1. CASE Begin(p)
    <3>1. Enter(p, "start", queue) /\ UNCHANGED <<asking, tokens, late>> /\ "start" \in Draining
      BY <2>1 DEF Begin, Draining
    <3> QED
      BY <1>1, <1>2, <3>1, EnterMoves DEF TypeOK, OfPhase
  <2>2. CASE BodyEnds(p)
    <3>1. Ask(p, nodes[p], {}) /\ UNCHANGED <<tokens, late>> /\ at[p] = "body" /\ nodes[p] \in SUBSET Guest
      BY <2>2, NodesType DEF BodyEnds
    <3> QED
      BY <1>1, <3>1, AskMoves DEF TypeOK, OfPhase
  <2>3. CASE TokenSent(p)
    <3> DEFINE g == First(asking[p])
               Sent == {tokens[p]} \cup (IF Logged(g, p) THEN {tokens[p] \cup {g}} ELSE {})
    <3>1. PICK sent \in Sent : tokens' = [tokens EXCEPT ![p] = sent] /\ Ask(p, asking[p] \ {g}, sent)
      BY <2>3 DEF TokenSent
    <3>2. at[p] = "token" /\ late' = late
      BY <2>3 DEF TokenSent
    <3>3. /\ Moves(p) /\ asking' \in [Phase -> SUBSET Guest]
          /\ \A q \in Phase \ {p} : asking'[q] = asking[q]
          /\ \E stage \in OfPhase :
                at' = [at EXCEPT ![p] = stage] /\ (stage = "token" => asking'[p] # {})
      <4>1. asking[p] \ {First(asking[p])} \in SUBSET Guest
        BY DEF TypeOK
      <4> QED
        BY <1>1, <3>1, <3>2, <4>1, AskMoves DEF TypeOK, OfPhase
    <3>4. sent \in SUBSET Guest
      <4>1. asking[p] \in SUBSET Guest /\ asking[p] # {} /\ tokens[p] \in SUBSET Guest
        BY <3>2 DEF TypeOK
      <4>2. g \in Guest
        BY <4>1, FirstOf
      <4> QED
        BY <4>1, <4>2
    <3> QED
      BY <3>1, <3>2, <3>3, <3>4 DEF TypeOK
  <2>4. CASE Again(p)
    <3>1. PICK stage \in {"last", "poll"} : Enter(p, stage, queue)
      BY <2>4 DEF Again
    <3>2. UNCHANGED <<asking, tokens, late>> /\ stage \in Draining
      BY <2>4 DEF Again, Draining
    <3>3. Moves(p) /\ at' = [at EXCEPT ![p] = stage]
      BY <1>1, <3>1, <3>2, EnterMoves
    <3>4. stage \in OfPhase /\ stage # "token"
      BY DEF OfPhase
    <3> QED
      BY <3>2, <3>3, <3>4 DEF TypeOK
  <2>5. CASE Timeout(p)
    <3>1. Enter(p, "last", Others(p)) /\ asking' = [asking EXCEPT ![p] = {}] /\ tokens' = tokens
          /\ late' = late \cup {p} /\ "last" \in Draining
      BY <2>5 DEF Timeout, Draining
    <3> QED
      BY <1>1, <1>2, <3>1, EnterMoves DEF TypeOK, OfPhase
  <2> QED
    BY <2>1, <2>2, <2>3, <2>4, <2>5
<1>5. /\ at'[p] \in Places(p)
      /\ \A q \in Phase : at'[q] = "token" => asking'[q] # {}
  <2>1. PICK stage \in OfPhase : at' = [at EXCEPT ![p] = stage] /\ (stage = "token" => asking'[p] # {})
    BY <1>4
  <2>2. at'[p] = stage /\ \A q \in Phase \ {p} : at'[q] = at[q]
    BY <1>1, <2>1, Tasks DEF TypeOK
  <2> QED
    BY <1>1, <1>4, <2>1, <2>2 DEF Places
<1>6. TypeOK'
  <2>1. running' \in [Guest -> Phase \cup {NoPhase}] /\ UNCHANGED <<guestVars, tailVars>>
    BY <1>3 DEF TypeOK
  <2> QED
    BY <1>1, <1>4, <2>1, TypesTurn
<1> QED
  BY <1>1, <1>3, <1>4, <1>5, <1>6 DEF Turns

\* Or it is stopped.
LEMMA PhaseHalts ==
    ASSUME Locked, NEW p \in Phase, PhaseStopped(p)
    PROVE  /\ Turns(p) /\ at'[p] = "stopped" /\ at[p] \notin {"idle", "over", "stopped"} /\ cancelled
           /\ UNCHANGED <<tokens, late>>
           /\ \A g \in Guest : running'[g] = running[g] \/ (at[p] = "body" /\ g \in nodes[p] /\ running'[g] = NoPhase)
<1> USE DEF Locked
<1>1. p \in Task /\ p # Follow /\ p # Sequence
  BY Tasks
<1>2. /\ at' = [at EXCEPT ![p] = "stopped"] /\ queue' = Others(p)
      /\ asking' = [asking EXCEPT ![p] = {}] /\ step' = [step EXCEPT ![p] = "stat"]
      /\ size' = [size EXCEPT ![p] = 0] /\ data' = [data EXCEPT ![p] = <<0, 0, 0>>]
      /\ UNCHANGED <<guestVars, tailVars, left, tokens, late>>
      /\ running' = [g \in Guest |-> IF at[p] = "body" /\ g \in nodes[p] THEN NoPhase ELSE running[g]]
      /\ at[p] \notin {"idle", "over", "stopped"} /\ cancelled
  BY DEF PhaseStopped
<1>3. at' \in [Task -> Place] /\ at'[p] = "stopped" /\ \A u \in Task \ {p} : at'[u] = at[u]
  BY <1>1, <1>2 DEF TypeOK, Place
<1>4. queue \in Seq(Task)
  BY DEF TypeOK
<1>5. queue' \in Seq(Task) /\ \A u \in Task \ {p} : Owner(u) => Owner(u)'
  BY <1>1, <1>2, <1>4, OthersKeepHead DEF Owner
<1>6. /\ left' \in [Task -> SUBSET Guest] /\ step' \in [Task -> {"stat", "read", "close"}]
      /\ size' \in [Task -> Nat] /\ data' \in [Task -> Nat \X Nat \X Nat] /\ step'[p] = "stat"
      /\ \A u \in Task \ {p} :
            left'[u] = left[u] /\ step'[u] = step[u] /\ size'[u] = size[u] /\ data'[u] = data[u]
  BY <1>1, <1>2 DEF TypeOK
<1>7. Moves(p)
  BY <1>3, <1>5, <1>6 DEF Moves, Draining
<1>8. /\ running' \in [Guest -> Phase \cup {NoPhase}] /\ asking' \in [Phase -> SUBSET Guest]
      /\ tokens' \in [Phase -> SUBSET Guest] /\ late' \subseteq Phase
  BY <1>2 DEF TypeOK
<1>9. \A q \in Phase : at'[q] = "token" => asking'[q] # {}
  <2>1. \A q \in Phase \ {p} : at'[q] = at[q] /\ asking'[q] = asking[q]
    BY <1>2, <1>3, Tasks DEF TypeOK
  <2> QED
    BY <1>3, <2>1
<1>10. TypeOK'
  BY <1>1, <1>2, <1>7, <1>8, TypesTurn
<1>11. at'[p] \in Places(p)
  BY <1>1, <1>3 DEF Places, OfPhase
<1> QED
  BY <1>2, <1>3, <1>7, <1>9, <1>10, <1>11 DEF Turns

\* follow drains again, or is cancelled and drains once more; or the drive is
\* over and drains.
Drains(t) ==
    \/ t = Follow /\ (FollowAgain \/ FollowCancelled)
    \/ t = Sequence /\ SequenceEnds

LEMMA DriveTurns ==
    ASSUME Locked, NEW t \in Task, Drains(t)
    PROVE  /\ Turns(t) /\ left'[t] = Guest /\ UNCHANGED <<running, tokens, late>>
           /\ \/ FollowAgain /\ at'[t] = "drain"
              \/ ~ FollowAgain /\ at'[t] = "final"
<1> USE DEF Locked
<1>1. PICK stage \in {"drain", "final"}, q \in {queue, Others(t)} :
         Enter(t, stage, q) /\ (stage = "drain" <=> FollowAgain)
  <2>1. CASE FollowAgain /\ t = Follow
    BY <2>1 DEF FollowAgain
  <2>2. CASE FollowCancelled /\ t = Follow
    BY <2>2, Tasks DEF FollowCancelled, FollowAgain, Enter, TypeOK
  <2>3. CASE SequenceEnds /\ t = Sequence
    BY <2>3, Tasks DEF SequenceEnds, FollowAgain, Enter, TypeOK
  <2> QED
    BY <2>1, <2>2, <2>3 DEF Drains
<1>2. UNCHANGED <<guestVars, tailVars, running, asking, tokens, late>>
  BY DEF Drains, FollowAgain, FollowCancelled, SequenceEnds
<1>3. stage \in Draining
  BY DEF Draining
<1>4. Moves(t) /\ at' = [at EXCEPT ![t] = stage] /\ t \notin Phase
  BY <1>1, <1>3, Tasks, EnterMoves DEF Drains
<1>5. at'[t] = stage /\ \A p \in Phase : at'[p] = at[p]
  BY <1>4, Tasks DEF TypeOK
<1>6. stage \in Places(t)
  BY <1>1, Tasks DEF Drains, Places, OfFollow, OfSequence, FollowAgain, SequenceEnds, Enter, TypeOK
<1>7. TypeOK'
  <2>1. /\ UNCHANGED <<guestVars, tailVars>> /\ running' \in [Guest -> Phase \cup {NoPhase}]
        /\ asking' \in [Phase -> SUBSET Guest] /\ tokens' \in [Phase -> SUBSET Guest] /\ late' \subseteq Phase
    BY <1>2 DEF TypeOK
  <2> QED
    BY <1>4, <2>1, Tasks, TypesTurn
<1>8. left'[t] = Guest
  BY <1>1, Tasks DEF Enter, TypeOK
<1> QED
  BY <1>1, <1>2, <1>4, <1>5, <1>6, <1>7, <1>8 DEF Turns

\* Only the guests do something: they log, write, start again or die; or the
\* drive is cut short.
Grows ==
    /\ UNCHANGED <<scene, drainVars, taskVars>> /\ TypeOK'
    /\ \A g \in Guest :
          /\ \/ log'[g] = log[g]
             \/ \E e \in [by : Phase \cup {NoPhase}, token : BOOLEAN] :
                   /\ log'[g] = Append(log[g], e)
                   /\ \/ ~ e.token /\ e.by = running[g]
                      \/ /\ e.by \in Phase /\ e = TokenOf(e.by)
                         /\ at[e.by] = "token" /\ g \in asking[e.by] /\ ~ Logged(g, e.by)
          /\ \/ file'[g] = file[g] /\ from'[g] = from[g] /\ restarts'[g] = restarts[g]
             \/ /\ file'[g] = file[g] + 1 /\ restarts'[g] = restarts[g]
                /\ from'[g] = from[g] \/ (from[g] <= from'[g] /\ from'[g] <= Skipped(Len(log[g])))
                /\ file'[g] <= 2 * (Len(log[g]) - from'[g])
             \/ file'[g] = 0 /\ from'[g] = Skipped(Len(log[g])) /\ restarts'[g] = restarts[g] + 1
          /\ alive'[g] => alive[g]
          /\ ~ alive[g] => file'[g] = file[g]
    /\ cancelled' = cancelled \/ (~ down /\ cancelled' /\ down' = down)
    /\ down' = down \/ (down' /\ at[Sequence] = "over" /\ \A g \in Guest : ~ alive'[g])

GuestStep == \/ \E g \in Guest : Log(g) \/ Forward(g) \/ Restart(g) \/ Die(g)
             \/ \E p \in Phase : LogToken(p)
             \/ GroupCancelled \/ Teardown

\* What a stream leaves out is no more than there is, and never less later.
LEMMA SkippedIn ==
    ASSUME NEW n \in Nat
    PROVE  /\ Skipped(n) \in Nat /\ Skipped(n) <= n
           /\ Skipped(n) <= Skipped(n + 1)
BY BacklogAssumption DEF Skipped

\* Every step of the guests is one.
LEMMA GuestsGrow == Locked /\ GuestStep => Grows
<1> SUFFICES ASSUME Locked, GuestStep PROVE Grows
  OBVIOUS
<1> USE DEF Locked, guestVars, drainVars, tailVars, lockVars, taskVars
<1> DEFINE Entry == [by : Phase \cup {NoPhase}, token : BOOLEAN]
<1>1. ASSUME NEW g \in Guest, NEW e \in Entry, log' = [log EXCEPT ![g] = Append(@, e)],
             UNCHANGED <<scene, from, file, restarts, alive, down, cancelled, drainVars, taskVars>>
      PROVE  TypeOK'
  <2>1. log \in [Guest -> Seq(Entry)]
    BY DEF TypeOK
  <2>2. log[g] \in Seq(Entry)
    BY <2>1
  <2>3. Append(log[g], e) \in Seq(Entry)
    BY <2>2
  <2> HIDE DEF Entry
  <2>4. log' \in [Guest -> Seq(Entry)]
    BY <1>1, <2>1, <2>3
  <2> QED
    BY <1>1, <2>4 DEF TypeOK, Entry
<1>2. ASSUME NEW g \in Guest, Log(g) PROVE Grows
  <2> DEFINE e == [by |-> running[g], token |-> FALSE]
  <2>1. e \in Entry /\ log' = [log EXCEPT ![g] = Append(@, e)]
        /\ UNCHANGED <<scene, from, file, restarts, alive, down, cancelled, drainVars, taskVars>>
    BY <1>2 DEF Log, TypeOK
  <2>2. TypeOK'
    BY <1>1, <2>1
  <2>3. log'[g] = Append(log[g], e) /\ \A h \in Guest \ {g} : log'[h] = log[h]
    BY <2>1 DEF TypeOK
  <2>4. ~ e.token /\ e.by = running[g]
    OBVIOUS
  <2> HIDE DEF e, Entry
  <2> QED
    BY <2>1, <2>2, <2>3, <2>4 DEF Grows, Entry
<1>3. ASSUME NEW g \in Guest, Forward(g) PROVE Grows
  <2>1. PICK f \in IF file[g] = 0 THEN from[g]..Skipped(Len(log[g])) ELSE {from[g]} :
           file[g] < 2 * (Len(log[g]) - f) /\ from' = [from EXCEPT ![g] = f]
    BY <1>3 DEF Forward
  <2>2. file[g] \in Nat /\ from[g] \in Nat /\ Len(log[g]) \in Nat
    BY DEF TypeOK
  <2>3. f = from[g] \/ (from[g] <= f /\ f <= Skipped(Len(log[g])))
    <3>1. Skipped(Len(log[g])) \in Nat
      BY <2>2, SkippedIn
    <3> QED
      BY <2>1, <2>2, <3>1
  <2>4. f \in Nat
    <3>1. Skipped(Len(log[g])) \in Nat
      BY <2>2, SkippedIn
    <3> QED
      BY <2>1, <2>2, <3>1
  <2>5. /\ from' \in [Guest -> Nat] /\ from'[g] = f /\ \A h \in Guest \ {g} : from'[h] = from[h]
        /\ file' \in [Guest -> Nat] /\ file'[g] = file[g] + 1 /\ \A h \in Guest \ {g} : file'[h] = file[h]
    BY <1>3, <2>1, <2>4 DEF Forward, TypeOK
  <2>6. file'[g] <= 2 * (Len(log[g]) - from'[g])
    BY <2>1, <2>2, <2>4, <2>5
  <2>7. TypeOK' /\ alive[g]
    BY <1>3, <2>5 DEF Forward, TypeOK
  <2> QED
    BY <1>3, <2>3, <2>5, <2>6, <2>7 DEF Forward, Grows
<1>4. ASSUME NEW g \in Guest, Restart(g) PROVE Grows
  <2>1. Skipped(Len(log[g])) \in Nat
    BY SkippedIn DEF TypeOK
  <2>2. /\ file' \in [Guest -> Nat] /\ file'[g] = 0 /\ \A h \in Guest \ {g} : file'[h] = file[h]
        /\ from' \in [Guest -> Nat] /\ from'[g] = Skipped(Len(log[g]))
        /\ \A h \in Guest \ {g} : from'[h] = from[h]
        /\ restarts' \in [Guest -> Nat] /\ restarts'[g] = restarts[g] + 1
        /\ \A h \in Guest \ {g} : restarts'[h] = restarts[h]
    BY <1>4, <2>1 DEF Restart, TypeOK
  <2>3. TypeOK' /\ alive[g]
    BY <1>4, <2>2 DEF Restart, TypeOK
  <2> QED
    BY <1>4, <2>2, <2>3 DEF Restart, Grows
<1>5. ASSUME NEW g \in Guest, Die(g) PROVE Grows
  BY <1>5 DEF Die, Grows, TypeOK
<1>6. ASSUME NEW p \in Phase, LogToken(p) PROVE Grows
  <2> DEFINE g == First(asking[p])
  <2>1. g \in asking[p] /\ g \in Guest /\ at[p] = "token"
    BY <1>6, FirstOf DEF LogToken, TypeOK
  <2>2. /\ log' = [log EXCEPT ![g] = Append(@, TokenOf(p))] /\ ~ Logged(g, p)
        /\ UNCHANGED <<scene, from, file, restarts, alive, down, cancelled, drainVars, taskVars>>
    BY <1>6 DEF LogToken
  <2>3. TokenOf(p) \in Entry /\ TokenOf(p).by = p /\ p \in Phase
    BY DEF TokenOf
  <2> HIDE DEF g, Entry
  <2>4. TypeOK'
    BY <1>1, <2>1, <2>2, <2>3
  <2>5. log'[g] = Append(log[g], TokenOf(p)) /\ \A h \in Guest \ {g} : log'[h] = log[h]
    BY <2>1, <2>2 DEF TypeOK
  <2> QED
    BY <2>1, <2>2, <2>3, <2>4, <2>5 DEF Grows, Entry
<1>7. CASE Teardown
  <2>1. TypeOK'
    BY <1>7 DEF Teardown, TypeOK
  <2> QED
    BY <1>7, <2>1 DEF Teardown, Grows
<1>8. CASE GroupCancelled
  <2>1. TypeOK'
    BY <1>8 DEF GroupCancelled, TypeOK
  <2> QED
    BY <1>8, <2>1 DEF GroupCancelled, Grows
<1> QED
  BY <1>2, <1>3, <1>4, <1>5, <1>6, <1>7, <1>8 DEF GuestStep

-----------------------------------------------------------------------------
(* A drain that reads.                                                     *)

\* What was told of a guest.
Reading == [lines : SUBSET Nat, phase : Phase \cup {NoPhase}]

\* The bytes read were written, in this stream or an earlier one, and a token
\* is a phase's.
InFile(g) ==
    /\ file[g] <= 2 * (Len(log[g]) - from[g]) /\ offset[g] <= 2 * (Len(log[g]) - stream[g])
    /\ stream[g] <= from[g] /\ from[g] <= Skipped(Len(log[g]))

InPiece(g, piece) ==
    /\ piece[1] = offset[g] /\ piece[1] <= piece[2]
    /\ stream[g] <= piece[3] /\ piece[3] <= from[g]
    /\ piece[1] < piece[2] => piece[2] <= 2 * (Len(log[g]) - piece[3])

Written ==
    /\ \A g \in Guest : InFile(g)
    /\ \A t \in Task : step[t] = "close" => InPiece(First(left[t]), data[t])
    /\ \A g \in Guest : \A k \in DOMAIN log[g] : log[g][k].token => log[g][k].by \in Phase

\* Nobody but the owner of the lock is in a read, and it reads a guest.
LEMMA Reader ==
    ASSUME Locked, NEW t \in Task, at[t] \in Draining, Owner(t)
    PROVE  /\ First(left[t]) \in left[t] /\ First(left[t]) \in Guest /\ left[t] \subseteq Guest
           /\ \A u \in Task \ {t} : step[u] = "stat" /\ ~ Owner(u)
<1>1. left[t] \in SUBSET Guest /\ left[t] # {}
  BY DEF Locked, TypeOK
<1>2. \A u \in Task \ {t} : ~ Owner(u)
  BY DEF Owner
<1>3. \A u \in Task \ {t} : step[u] = "stat"
  BY <1>2 DEF Locked, TypeOK
<1> QED
  BY <1>1, <1>2, <1>3, FirstOf

\* Types and the lock, when a reader goes on to the next guest.
LEMMA NextGuestLocked ==
    ASSUME Locked, NEW t \in Task, at[t] \in Draining, Owner(t), NextGuest(t),
           UNCHANGED <<guestVars, asking>>, offset' \in [Guest -> Nat],
           stream' \in [Guest -> Nat], mixed' \subseteq Guest,
           events' \in [Guest -> Seq(Reading)], settled' \subseteq Guest \X Phase
    PROVE  Locked'
<1>1. /\ Moves(t) /\ at'[t] \in Places(t)
      /\ running' \in [Guest -> Phase \cup {NoPhase}]
      /\ tokens' \in [Phase -> SUBSET Guest] /\ late' \subseteq Phase
  BY NextGuestMoves
<1>2. /\ scene' = scene /\ log' = log /\ from' = from /\ file' = file /\ restarts' = restarts
      /\ alive' = alive /\ down' = down /\ cancelled' = cancelled /\ asking' = asking
  BY DEF guestVars
<1>3. TypeOK'
  <2>1. /\ (scene \in Scenes)' /\ (log \in [Guest -> Seq([by : Phase \cup {NoPhase}, token : BOOLEAN])])'
        /\ (from \in [Guest -> Nat] /\ file \in [Guest -> Nat])'
        /\ (restarts \in [Guest -> Nat] /\ alive \in [Guest -> BOOLEAN])'
        /\ (down \in BOOLEAN /\ cancelled \in BOOLEAN)'
        /\ (asking \in [Phase -> SUBSET Guest])'
    BY <1>2 DEF TypeOK, Locked
  <2>2. /\ at' \in [Task -> {"idle", "body", "over", "stopped"} \cup Draining \cup Settling]
        /\ queue' \in Seq(Task) /\ left' \in [Task -> SUBSET Guest]
        /\ step' \in [Task -> {"stat", "read", "close"}]
        /\ size' \in [Task -> Nat] /\ data' \in [Task -> Nat \X Nat \X Nat]
    BY <1>1 DEF Moves, Place
  <2> QED
    BY <1>1, <2>1, <2>2 DEF TypeOK, Reading
<1>4. \A p \in Phase : at'[p] = "token" => asking'[p] # {}
  <2>1. ASSUME NEW p \in Phase, at'[p] = "token" PROVE asking[p] # {}
    <3>1. p # t => at[p] = "token"
      BY <2>1, <1>1, Tasks DEF Moves
    <3>2. p = t => at[p] = "token"
      <4>1. ASSUME p = t PROVE at' = at
        <5>1. CASE UNCHANGED at
          BY <5>1
        <5>2. CASE DrainReturns(t)
          BY <5>2, <4>1, <2>1 DEF DrainReturns, Locked, TypeOK, Draining
        <5> QED
          BY <5>1, <5>2 DEF NextGuest
      <4> QED
        BY <4>1, <2>1
    <3> QED
      BY <3>1, <3>2 DEF Locked
  <2> QED
    BY <2>1, <1>2
<1> QED
  BY <1>1, <1>3, <1>4, MovesLocked

\* The file's size has come.
LEMMA StatStep ==
    ASSUME Locked, NEW t \in Task, Stat(t), NEW g, g = First(left[t])
    PROVE  /\ Locked' /\ offset' = [offset EXCEPT ![g] = StartsOver(file[g], g)]
           /\ offset'[g] = StartsOver(file[g], g) /\ \A h \in Guest \ {g} : offset'[h] = offset[h]
           /\ UNCHANGED <<guestVars, stream, mixed, events, settled, asking>>
           /\ \/ offset'[g] = file[g] /\ NextGuest(t)
              \/ /\ offset'[g] # file[g] /\ step' = [step EXCEPT ![t] = "read"]
                 /\ size' = [size EXCEPT ![t] = file[g]]
                 /\ UNCHANGED <<queue, at, running, left, data, tokens, late>>
<1> USE DEF Locked
<1>1. at[t] \in Draining /\ Owner(t) /\ step[t] = "stat" /\ g \in Guest
  BY Reader DEF Stat
<1>2. /\ offset' = [offset EXCEPT ![g] = StartsOver(file[g], g)]
      /\ UNCHANGED <<guestVars, stream, mixed, events, settled, asking>>
      /\ \/ offset'[g] = file[g] /\ NextGuest(t)
         \/ /\ offset'[g] # file[g] /\ step' = [step EXCEPT ![t] = "read"]
            /\ size' = [size EXCEPT ![t] = file[g]]
            /\ UNCHANGED <<queue, at, running, left, data, tokens, late>>
  BY DEF Stat
<1>3. offset' \in [Guest -> Nat] /\ offset'[g] = StartsOver(file[g], g)
      /\ \A h \in Guest \ {g} : offset'[h] = offset[h]
  BY <1>1, <1>2 DEF StartsOver, TypeOK
<1>4. /\ events' \in [Guest -> Seq(Reading)] /\ settled' \subseteq Guest \X Phase
      /\ stream' \in [Guest -> Nat] /\ mixed' \subseteq Guest
  BY <1>2 DEF Reading, TypeOK
<1>5. Locked'
  <2>1. CASE NextGuest(t)
    BY <1>1, <1>2, <1>3, <1>4, <2>1, NextGuestLocked
  <2>2. CASE /\ step' = [step EXCEPT ![t] = "read"] /\ size' = [size EXCEPT ![t] = file[g]]
             /\ UNCHANGED <<queue, at, running, left, data, tokens, late>>
    <3>1. step' \in [Task -> {"stat", "read", "close"}] /\ size' \in [Task -> Nat]
          /\ \A u \in Task \ {t} : step'[u] = step[u]
      BY <1>1, <2>2 DEF TypeOK
    <3>2. TypeOK'
      BY <1>2, <1>3, <1>4, <2>2, <3>1 DEF TypeOK, Reading, guestVars
    <3>3. \A u \in Task : Owner(u)' <=> Owner(u)
      BY <2>2 DEF Owner
    <3> QED
      BY <1>1, <1>2, <2>2, <3>1, <3>2, <3>3
  <2> QED
    BY <1>2, <2>1, <2>2
<1> QED
  BY <1>2, <1>3, <1>5

\* The bytes have come.
LEMMA ReadStep ==
    ASSUME Locked, NEW t \in Task, Read(t), NEW g, g = First(left[t])
    PROVE  /\ Locked' /\ data'[t] = Piece(g, size[t]) /\ step'[t] = "close"
           /\ \A u \in Task \ {t} : step'[u] = step[u] /\ data'[u] = data[u]
           /\ UNCHANGED <<guestVars, tailVars, queue, left, size, taskVars>>
<1> USE DEF Locked
<1>1. at[t] \in Draining /\ Owner(t) /\ g \in Guest
  BY Reader DEF Read
<1>2. Piece(g, size[t]) \in Nat \X Nat \X Nat
  BY <1>1 DEF Piece, TypeOK
<1>3. /\ data' = [data EXCEPT ![t] = Piece(g, size[t])] /\ step' = [step EXCEPT ![t] = "close"]
      /\ UNCHANGED <<guestVars, tailVars, queue, left, size, taskVars>>
  BY DEF Read
<1>4. /\ data' \in [Task -> Nat \X Nat \X Nat] /\ data'[t] = Piece(g, size[t])
      /\ step' \in [Task -> {"stat", "read", "close"}] /\ step'[t] = "close"
      /\ \A u \in Task \ {t} : step'[u] = step[u] /\ data'[u] = data[u]
  BY <1>2, <1>3 DEF TypeOK
<1>5. TypeOK'
  BY <1>3, <1>4 DEF TypeOK, guestVars, tailVars, taskVars
<1>6. \A u \in Task : Owner(u)' <=> Owner(u)
  BY <1>3 DEF Owner
<1> QED
  BY <1>1, <1>3, <1>4, <1>5, <1>6 DEF taskVars

\* The entries of a piece are told.
Told(t, g) == Whole(g, data[t]) \ {k \in Whole(g, data[t]) : log[g][k].token}

\* And its tokens are noted.
Noted(t, g) == {<<g, log[g][k].by>> : k \in {k \in Whole(g, data[t]) : log[g][k].token}}

\* So many bytes hold no more than half as many lines.
LEMMA HalfOf ==
    ASSUME NEW a \in Nat, NEW n \in Int, a <= 2 * n
    PROVE  a \div 2 <= n
OBVIOUS

\* The lines of a piece are past those of the offset, and of the log.
LEMMA LinesIn ==
    ASSUME TypeOK, NEW g \in Guest, InFile(g),
           NEW piece \in Nat \X Nat \X Nat, InPiece(g, piece)
    PROVE  /\ LinesOf(piece) \subseteq DOMAIN log[g] /\ LinesOf(piece) \subseteq Nat
           /\ \A k \in LinesOf(piece) : stream[g] + (offset[g] \div 2) < k /\ k <= piece[3] + (piece[2] \div 2)
           /\ stream[g] + (offset[g] \div 2) <= piece[3] + (piece[2] \div 2)
<1>1. /\ Len(log[g]) \in Nat /\ DOMAIN log[g] = 1..Len(log[g])
      /\ offset[g] \in Nat /\ stream[g] \in Nat /\ piece[1] \in Nat /\ piece[2] \in Nat /\ piece[3] \in Nat
  BY DEF TypeOK
<1>2. /\ piece[1] = offset[g] /\ piece[1] <= piece[2] /\ stream[g] <= piece[3]
      /\ piece[1] < piece[2] => piece[2] <= 2 * (Len(log[g]) - piece[3])
  BY DEF InPiece
<1>3. /\ offset[g] \div 2 \in Nat /\ piece[2] \div 2 \in Nat /\ offset[g] \div 2 <= piece[2] \div 2
      /\ piece[1] = piece[2] => offset[g] \div 2 = piece[2] \div 2
  BY <1>1, <1>2
<1>4. \A k \in LinesOf(piece) : k \in Nat /\ stream[g] + (offset[g] \div 2) < k /\ k <= piece[3] + (piece[2] \div 2)
  BY <1>1, <1>2, <1>3 DEF LinesOf
<1>5. ASSUME NEW k \in LinesOf(piece) PROVE k \in 1..Len(log[g])
  <2>1. piece[1] # piece[2]
    BY <1>1, <1>2, <1>3, <1>5 DEF LinesOf
  <2>2. piece[2] \div 2 <= Len(log[g]) - piece[3]
    <3>1. piece[2] <= 2 * (Len(log[g]) - piece[3]) /\ Len(log[g]) - piece[3] \in Int
      BY <1>1, <1>2, <2>1
    <3> QED
      BY <1>1, <3>1, HalfOf
  <2>3. k \in Nat /\ k <= piece[3] + (piece[2] \div 2) /\ stream[g] + (offset[g] \div 2) < k
    BY <1>4, <1>5
  <2> DEFINE half == piece[2] \div 2
             read == offset[g] \div 2
  <2>4. half \in Nat /\ half <= Len(log[g]) - piece[3] /\ k <= piece[3] + half /\ read \in Nat /\ stream[g] + read < k
    BY <1>3, <2>2, <2>3
  <2> HIDE DEF half, read
  <2> QED
    BY <1>1, <2>3, <2>4
<1>6. DOMAIN log[g] \subseteq Nat
  BY <1>1
<1>7. stream[g] + (offset[g] \div 2) <= piece[3] + (piece[2] \div 2)
  BY <1>1, <1>2, <1>3
<1>8. LinesOf(piece) \subseteq DOMAIN log[g]
  BY <1>1, <1>5
<1> QED
  BY <1>4, <1>6, <1>7, <1>8

\* The tail goes on in the stream of the bytes that came.
LEMMA CloseStreams ==
    ASSUME Locked, NEW t \in Task, Close(t), NEW g \in Guest, g = First(left[t])
    PROVE  /\ stream' \in [Guest -> Nat] /\ mixed' \subseteq Guest
           /\ \A h \in Guest \ {g} : stream'[h] = stream[h] /\ (h \in mixed' <=> h \in mixed)
           /\ \/ data[t][1] = data[t][2] /\ stream' = stream /\ mixed' = mixed
              \/ /\ data[t][1] # data[t][2] /\ stream'[g] = data[t][3]
                 /\ mixed' = IF data[t][1] > 0 /\ data[t][3] # stream[g] THEN mixed \cup {g} ELSE mixed
<1> USE DEF Locked
<1>1. data[t][3] \in Nat
  BY DEF TypeOK
<1>2. CASE data[t][1] = data[t][2]
  <2>1. stream' = stream /\ mixed' = mixed
    BY <1>2 DEF Close
  <2> QED
    BY <1>2, <2>1 DEF TypeOK
<1>3. CASE data[t][1] # data[t][2]
  <2>1. /\ stream' = [stream EXCEPT ![g] = data[t][3]]
        /\ mixed' = IF data[t][1] > 0 /\ data[t][3] # stream[g] THEN mixed \cup {g} ELSE mixed
    BY <1>3 DEF Close
  <2> QED
    BY <1>1, <1>3, <2>1 DEF TypeOK
<1> QED
  BY <1>2, <1>3

\* Closed: the lines that ended in the piece are told, or noted.
LEMMA CloseStep ==
    ASSUME Locked, Written, NEW t \in Task, Close(t), NEW g, g = First(left[t])
    PROVE  /\ Locked' /\ offset'[g] = data[t][2] /\ \A h \in Guest \ {g} : offset'[h] = offset[h]
           /\ events' = IF Told(t, g) = {} THEN events
                        ELSE [events EXCEPT ![g] = Append(@, [lines |-> Told(t, g), phase |-> running[g]])]
           /\ settled' = settled \cup Noted(t, g)
           /\ UNCHANGED <<guestVars, asking>> /\ NextGuest(t)
           /\ Whole(g, data[t]) \subseteq DOMAIN log[g]
<1> USE DEF Locked
<1>1. at[t] \in Draining /\ Owner(t) /\ step[t] = "close" /\ g \in Guest
  BY Reader DEF Close
<1> DEFINE lines == Whole(g, data[t])
           marks == {k \in lines : log[g][k].token}
           told == [lines |-> lines \ marks, phase |-> running[g]]
<1>2. /\ offset' = [offset EXCEPT ![g] = @ + (data[t][2] - data[t][1])]
      /\ events' = IF told.lines = {} THEN events ELSE [events EXCEPT ![g] = Append(@, told)]
      /\ settled' = settled \cup {<<g, log[g][k].by>> : k \in marks}
      /\ NextGuest(t) /\ UNCHANGED <<guestVars, asking>>
  BY DEF Close
<1>3. /\ InPiece(g, data[t]) /\ data[t] \in Nat \X Nat \X Nat
      /\ data[t][1] = offset[g] /\ data[t][1] <= data[t][2]
      /\ data[t][1] \in Nat /\ data[t][2] \in Nat /\ data[t][3] \in Nat
  BY <1>1 DEF Written, InPiece, TypeOK
<1>4. offset' \in [Guest -> Nat] /\ offset'[g] = data[t][2] /\ \A h \in Guest \ {g} : offset'[h] = offset[h]
  BY <1>1, <1>2, <1>3 DEF TypeOK
<1>5. lines \subseteq DOMAIN log[g] /\ lines \subseteq Nat
  <2>1. InFile(g)
    BY <1>1 DEF Written
  <2>2. LinesOf(data[t]) \subseteq DOMAIN log[g] /\ LinesOf(data[t]) \subseteq Nat
    BY <1>1, <1>3, <2>1, LinesIn
  <2> QED
    BY <2>2 DEF Whole
<1>6. events' \in [Guest -> Seq(Reading)]
  <2>1. told \in Reading
    BY <1>1, <1>5 DEF Reading, TypeOK
  <2>2. events \in [Guest -> Seq(Reading)]
    BY DEF Reading, TypeOK
  <2> HIDE DEF told
  <2>3. Append(events[g], told) \in Seq(Reading)
    BY <1>1, <2>1, <2>2
  <2> QED
    BY <1>2, <2>2, <2>3
<1>7. settled' \subseteq Guest \X Phase
  <2>1. \A k \in marks : log[g][k].by \in Phase
    BY <1>1, <1>5 DEF Written
  <2>2. settled' = settled \cup {<<g, log[g][k].by>> : k \in marks}
    BY <1>2
  <2>3. settled \subseteq Guest \X Phase
    BY DEF TypeOK
  <2> HIDE DEF marks
  <2> QED
    BY <1>1, <2>1, <2>2, <2>3
<1>8. stream' \in [Guest -> Nat] /\ mixed' \subseteq Guest
  BY <1>1, CloseStreams DEF Written
<1>9. Locked'
  BY <1>1, <1>2, <1>4, <1>6, <1>7, <1>8, NextGuestLocked
<1> HIDE DEF lines
<1> QED
  BY <1>2, <1>4, <1>5, <1>9 DEF Told, Noted, lines

\* A step is the guests', a turn of a phase or of follow, or a reader's.
LEMMA Steps ==
    ASSUME Locked, [Next]_vars
    PROVE  \/ Grows
           \/ \E p \in Phase : Turns(p) /\ (Goes(p) \/ PhaseStopped(p))
           \/ \E t \in {Follow, Sequence} : Turns(t) /\ Drains(t)
           \/ \E t \in Task : Stat(t) \/ Read(t) \/ Close(t)
           \/ UNCHANGED vars
BY GuestsGrow, PhaseTurns, PhaseHalts, DriveTurns, Tasks DEF Next, GuestStep, DrainSteps, Over, Goes, Drains

\* A log only grows.
LEMMA LogGrows ==
    ASSUME Locked, Grows, NEW g \in Guest
    PROVE  /\ Len(log[g]) <= Len(log'[g]) /\ Len(log[g]) \in Nat /\ Len(log'[g]) \in Nat
           /\ DOMAIN log[g] = 1..Len(log[g]) /\ DOMAIN log'[g] = 1..Len(log'[g])
           /\ \A k \in DOMAIN log[g] : k \in DOMAIN log'[g] /\ log'[g][k] = log[g][k]
           /\ \/ DOMAIN log'[g] = DOMAIN log[g]
              \/ \E e \in [by : Phase \cup {NoPhase}, token : BOOLEAN] :
                    /\ Len(log'[g]) = Len(log[g]) + 1 /\ log'[g][Len(log[g]) + 1] = e
                    /\ \/ ~ e.token /\ e.by = running[g]
                       \/ /\ e.by \in Phase /\ e = TokenOf(e.by)
                          /\ at[e.by] = "token" /\ g \in asking[e.by] /\ ~ Logged(g, e.by)
<1> DEFINE Entry == [by : Phase \cup {NoPhase}, token : BOOLEAN]
<1>1. log[g] \in Seq(Entry) /\ log'[g] \in Seq(Entry)
  BY DEF Locked, Grows, TypeOK
<1> HIDE DEF Entry
<1>2. CASE log'[g] = log[g]
  BY <1>1, <1>2
<1>3. CASE log'[g] # log[g]
  <2>1. PICK e \in Entry :
           /\ log'[g] = Append(log[g], e)
           /\ \/ ~ e.token /\ e.by = running[g]
              \/ /\ e.by \in Phase /\ e = TokenOf(e.by)
                 /\ at[e.by] = "token" /\ g \in asking[e.by] /\ ~ Logged(g, e.by)
    BY <1>3 DEF Grows, Entry
  <2>2. /\ Len(log'[g]) = Len(log[g]) + 1 /\ log'[g][Len(log[g]) + 1] = e
        /\ \A k \in 1..Len(log[g]) : log'[g][k] = log[g][k]
    BY <1>1, <2>1, AppendProperties
  <2> QED
    BY <1>1, <2>1, <2>2 DEF Entry
<1> QED
  BY <1>2, <1>3

\* What is read of a file starts at the offset, and ends in the file or there.
LEMMA PieceIn ==
    ASSUME TypeOK, NEW g \in Guest, NEW n \in Nat
    PROVE  /\ Piece(g, n)[3] = from[g]
           /\ Piece(g, n)[1] = offset[g] /\ Piece(g, n)[2] \in Nat /\ offset[g] <= Piece(g, n)[2]
           /\ Piece(g, n)[2] = offset[g] \/ Piece(g, n)[2] <= file[g]
           /\ n = file[g] /\ offset[g] <= n => Piece(g, n)[2] = n
BY DEF Piece, TypeOK

\* What fits in a log fits in a longer one.
LEMMA Fits ==
    ASSUME NEW n \in Nat, NEW m \in Nat, n <= m, NEW a \in Nat, NEW s \in Nat, a <= 2 * (n - s)
    PROVE  a <= 2 * (m - s)
OBVIOUS

\* What a stream leaves out only grows, and it carries what is in the file.
LEMMA FromGrows ==
    ASSUME Locked, Grows, NEW g \in Guest, InFile(g)
    PROVE  /\ from[g] <= from'[g] /\ from'[g] <= Skipped(Len(log'[g]))
           /\ file'[g] <= 2 * (Len(log'[g]) - from'[g])
<1>1. TypeOK /\ TypeOK'
  BY DEF Locked, Grows
<1>2. /\ Len(log[g]) \in Nat /\ Len(log'[g]) \in Nat
      /\ Len(log'[g]) = Len(log[g]) \/ Len(log'[g]) = Len(log[g]) + 1
  <2>1. DOMAIN log'[g] = DOMAIN log[g] => Len(log'[g]) = Len(log[g])
    <3>1. /\ Len(log[g]) \in Nat /\ Len(log'[g]) \in Nat
          /\ DOMAIN log[g] = 1..Len(log[g]) /\ DOMAIN log'[g] = 1..Len(log'[g])
      BY LogGrows
    <3> DEFINE n == Len(log[g])
               m == Len(log'[g])
    <3>2. n \in Nat /\ m \in Nat /\ (DOMAIN log'[g] = DOMAIN log[g] => 1..m = 1..n)
      BY <3>1
    <3> HIDE DEF n, m
    <3>3. 1..m = 1..n => m = n
      BY <3>2
    <3> QED
      BY <3>2, <3>3 DEF n, m
  <2> QED
    BY <2>1, LogGrows
<1>3. /\ Skipped(Len(log[g])) \in Nat /\ Skipped(Len(log[g])) <= Len(log[g])
      /\ Skipped(Len(log[g])) <= Skipped(Len(log'[g])) /\ Skipped(Len(log'[g])) \in Nat
  <2>1. CASE Len(log'[g]) = Len(log[g])
    <3>1. Skipped(Len(log'[g])) = Skipped(Len(log[g]))
      BY <2>1
    <3>2. Skipped(Len(log[g])) \in Nat /\ Skipped(Len(log[g])) <= Len(log[g])
      BY <1>2, SkippedIn
    <3> QED
      BY <3>1, <3>2
  <2>2. CASE Len(log'[g]) = Len(log[g]) + 1
    <3>1. Skipped(Len(log'[g])) = Skipped(Len(log[g]) + 1)
      BY <2>2
    <3>2. /\ Skipped(Len(log[g])) \in Nat /\ Skipped(Len(log[g])) <= Len(log[g])
          /\ Skipped(Len(log[g])) <= Skipped(Len(log[g]) + 1)
      BY <1>2, SkippedIn
    <3>3. Skipped(Len(log'[g])) \in Nat
      BY <1>2, SkippedIn
    <3> QED
      BY <3>1, <3>2, <3>3
  <2> QED
    BY <1>2, <2>1, <2>2
<1>4. /\ from[g] \in Nat /\ from'[g] \in Nat /\ file[g] \in Nat /\ file'[g] \in Nat
      /\ file[g] <= 2 * (Len(log[g]) - from[g]) /\ from[g] <= Skipped(Len(log[g]))
  BY <1>1 DEF TypeOK, InFile
<1>5. \/ file'[g] = file[g] /\ from'[g] = from[g]
      \/ /\ from'[g] = from[g] \/ (from[g] <= from'[g] /\ from'[g] <= Skipped(Len(log[g])))
         /\ file'[g] <= 2 * (Len(log[g]) - from'[g])
      \/ file'[g] = 0 /\ from'[g] = Skipped(Len(log[g]))
  BY DEF Grows
<1> DEFINE n == Len(log[g])
           m == Len(log'[g])
           s == Skipped(n)
           z == Skipped(m)
<1>6. /\ n \in Nat /\ m \in Nat /\ n <= m /\ s \in Nat /\ s <= n /\ s <= z /\ z \in Nat
      /\ file[g] <= 2 * (n - from[g]) /\ from[g] <= s
      /\ \/ file'[g] = file[g] /\ from'[g] = from[g]
         \/ /\ from'[g] = from[g] \/ (from[g] <= from'[g] /\ from'[g] <= s)
            /\ file'[g] <= 2 * (n - from'[g])
         \/ file'[g] = 0 /\ from'[g] = s
  BY <1>2, <1>3, <1>4, <1>5
<1> HIDE DEF n, m, s, z
<1>7. /\ n \in Nat /\ m \in Nat /\ n <= m /\ s \in Nat /\ s <= n /\ s <= z /\ z \in Nat
      /\ from[g] \in Nat /\ from'[g] \in Nat /\ file[g] \in Nat /\ file'[g] \in Nat
  BY <1>4, <1>6
<1>8. from[g] <= from'[g] /\ from'[g] <= z
  BY <1>6, <1>7
<1>9. file'[g] <= 2 * (n - from'[g])
  <2>1. CASE file'[g] = file[g] /\ from'[g] = from[g]
    BY <1>6, <2>1
  <2>2. CASE file'[g] = 0 /\ from'[g] = s
    BY <1>7, <2>2
  <2> QED
    BY <1>6, <2>1, <2>2
<1>10. file'[g] <= 2 * (m - from'[g])
  BY <1>7, <1>9, Fits
<1> QED
  BY <1>8, <1>10 DEF m, z

\* The bytes of a reading stay written.
LEMMA PieceStays ==
    ASSUME Locked, Grows, NEW g \in Guest, InFile(g),
           NEW piece \in Nat \X Nat \X Nat, InPiece(g, piece)
    PROVE  InFile(g)' /\ InPiece(g, piece)'
<1>1. offset' = offset /\ stream' = stream
  BY DEF Grows, drainVars, tailVars
<1>2. /\ offset[g] \in Nat /\ stream[g] \in Nat /\ from[g] \in Nat /\ from'[g] \in Nat
      /\ piece[1] \in Nat /\ piece[2] \in Nat /\ piece[3] \in Nat
  BY DEF Locked, Grows, TypeOK
<1>3. Len(log[g]) \in Nat /\ Len(log'[g]) \in Nat /\ Len(log[g]) <= Len(log'[g])
  BY LogGrows
<1>4. /\ from[g] <= from'[g] /\ from'[g] <= Skipped(Len(log'[g]))
      /\ file'[g] <= 2 * (Len(log'[g]) - from'[g])
  BY FromGrows
<1>5. offset'[g] <= 2 * (Len(log'[g]) - stream'[g]) /\ stream'[g] <= from'[g]
  <2>1. offset[g] <= 2 * (Len(log[g]) - stream[g]) /\ stream[g] <= from[g]
    BY DEF InFile
  <2>2. offset[g] <= 2 * (Len(log'[g]) - stream[g])
    BY <1>2, <1>3, <2>1, Fits
  <2> QED
    BY <1>1, <1>2, <1>4, <2>1, <2>2
<1>6. /\ piece[3] <= from'[g]
      /\ piece[1] < piece[2] => piece[2] <= 2 * (Len(log'[g]) - piece[3])
  <2>1. piece[3] <= from[g] /\ (piece[1] < piece[2] => piece[2] <= 2 * (Len(log[g]) - piece[3]))
    BY DEF InPiece
  <2>2. piece[1] < piece[2] => piece[2] <= 2 * (Len(log'[g]) - piece[3])
    BY <1>2, <1>3, <2>1, Fits
  <2>3. piece[3] <= from'[g]
    BY <1>2, <1>4, <2>1
  <2> QED
    BY <2>2, <2>3
<1> QED
  BY <1>1, <1>4, <1>5, <1>6 DEF InFile, InPiece

\* Types, the lock and the bytes, at every step.
LEMMA WrittenStep == Locked /\ Written /\ [Next]_vars => Locked' /\ Written'
<1> SUFFICES ASSUME Locked, Written, [Next]_vars PROVE Locked' /\ Written'
  OBVIOUS
<1> USE DEF Locked
<1>1. CASE Grows
  <2>1. Locked'
    BY <1>1 DEF Grows, drainVars, lockVars, taskVars, Owner
  <2>2. UNCHANGED <<step, left, data, offset, stream, at, queue>>
    BY <1>1 DEF Grows, drainVars, tailVars, lockVars, taskVars
  <2>3. ASSUME NEW g \in Guest PROVE InFile(g)'
    <3>1. InFile(g) /\ offset[g] \in Nat /\ stream[g] \in Nat
      BY DEF Written, TypeOK
    <3>2. <<offset[g], offset[g], stream[g]>> \in Nat \X Nat \X Nat
      BY <3>1
    <3>3. InPiece(g, <<offset[g], offset[g], stream[g]>>)
      BY <3>1 DEF InPiece, InFile, TypeOK
    <3> QED
      BY <1>1, <3>1, <3>2, <3>3, PieceStays
  <2>4. ASSUME NEW t \in Task, step'[t] = "close" PROVE InPiece(First(left[t]), data[t])'
    <3>1. step[t] = "close" /\ First(left[t]) \in Guest
      BY <2>2, <2>4, Reader
    <3>2. InPiece(First(left[t]), data[t]) /\ data[t] \in Nat \X Nat \X Nat /\ InFile(First(left[t]))
      BY <3>1 DEF Written, TypeOK
    <3> DEFINE g == First(left[t])
               piece == data[t]
    <3>3. g \in Guest /\ InFile(g) /\ piece \in Nat \X Nat \X Nat /\ InPiece(g, piece)
      BY <3>1, <3>2
    <3> HIDE DEF g, piece
    <3>4. InPiece(g, piece)'
      <4>1. PICK h, d : h = g /\ d = piece
        OBVIOUS
      <4> QED
        BY <1>1, <2>2, <3>3, PieceStays DEF g, piece, InPiece
    <3> QED
      BY <3>4 DEF g, piece
  <2>5. ASSUME NEW g \in Guest, NEW k \in DOMAIN log'[g], log'[g][k].token PROVE log'[g][k].by \in Phase
    <3>1. CASE k \in DOMAIN log[g]
      BY <1>1, <2>5, <3>1, LogGrows DEF Written
    <3>2. CASE k \notin DOMAIN log[g]
      BY <1>1, <2>5, <3>2, LogGrows
    <3> QED
      BY <3>1, <3>2
  <2> QED
    BY <2>1, <2>3, <2>4, <2>5 DEF Written
<1>2. ASSUME NEW t \in Task, Turns(t) PROVE Locked' /\ Written'
  <2>1. Locked'
    BY <1>2, MovesLocked DEF Turns
  <2>2. UNCHANGED <<log, from, file, offset, stream>> /\ step'[t] = "stat"
        /\ \A u \in Task \ {t} : step'[u] = step[u] /\ left'[u] = left[u] /\ data'[u] = data[u]
    BY <1>2 DEF Turns, Moves, guestVars, tailVars
  <2>3. \A u \in Task : step'[u] = "close" => step[u] = "close" /\ left'[u] = left[u] /\ data'[u] = data[u]
    BY <2>2
  <2> QED
    BY <2>1, <2>2, <2>3 DEF Written, InFile, InPiece
<1>3. ASSUME NEW t \in Task, Stat(t) PROVE Locked' /\ Written'
  <2> DEFINE g == First(left[t])
  <2>1. g \in Guest /\ step[t] = "stat" /\ \A u \in Task \ {t} : step[u] = "stat"
    BY <1>3, Reader DEF Stat
  <2>2. Locked' /\ offset'[g] \in {offset[g], 0} /\ (\A h \in Guest \ {g} : offset'[h] = offset[h])
        /\ UNCHANGED <<guestVars, stream>> /\ (NextGuest(t) \/ step' = [step EXCEPT ![t] = "read"])
    BY <1>3, StatStep DEF StartsOver
  <2>3. \A u \in Task : step'[u] # "close"
    BY <2>1, <2>2 DEF NextGuest, TypeOK
  <2>4. \A h \in Guest : InFile(h)'
    <3>1. UNCHANGED <<log, from, file, stream>> /\ \A h \in Guest : offset'[h] \in {offset[h], 0}
      BY <2>1, <2>2 DEF guestVars
    <3> SUFFICES ASSUME NEW h \in Guest PROVE InFile(h)'
      OBVIOUS
    <3>2. InFile(h) /\ Len(log[h]) \in Nat /\ stream[h] \in Nat /\ from[h] \in Nat /\ offset[h] \in Nat
      BY DEF Written, TypeOK
    <3>3. Skipped(Len(log[h])) \in Nat /\ Skipped(Len(log[h])) <= Len(log[h])
      BY <3>2, SkippedIn
    <3>4. /\ file[h] <= 2 * (Len(log[h]) - from[h]) /\ offset[h] <= 2 * (Len(log[h]) - stream[h])
          /\ stream[h] <= from[h] /\ from[h] <= Skipped(Len(log[h]))
      BY <3>2 DEF InFile
    <3>5. offset'[h] <= 2 * (Len(log[h]) - stream[h])
      <4>1. 0 <= 2 * (Len(log[h]) - stream[h])
        BY <3>2, <3>4
      <4> QED
        BY <3>1, <3>4, <4>1
    <3> QED
      BY <3>1, <3>4, <3>5 DEF InFile
  <2>5. log' = log
    BY <2>2 DEF guestVars
  <2> QED
    BY <2>2, <2>3, <2>4, <2>5 DEF Written
<1>4. ASSUME NEW t \in Task, Read(t) PROVE Locked' /\ Written'
  <2> DEFINE g == First(left[t])
  <2>1. Locked' /\ data'[t] = Piece(g, size[t]) /\ \A u \in Task \ {t} : step'[u] = step[u] /\ data'[u] = data[u]
    BY <1>4, ReadStep
  <2>2. UNCHANGED <<log, from, file, offset, stream, left>> /\ g \in Guest /\ size[t] \in Nat
        /\ \A u \in Task \ {t} : step[u] = "stat"
    BY <1>4, Reader DEF Read, guestVars, tailVars, TypeOK
  <2>3. InPiece(g, Piece(g, size[t]))
    <3>1. TypeOK /\ InFile(g)
      BY <2>2 DEF Written
    <3> HIDE DEF g, Locked
    <3>2. /\ Piece(g, size[t])[3] = from[g]
          /\ Piece(g, size[t])[1] = offset[g] /\ Piece(g, size[t])[2] \in Nat
          /\ offset[g] <= Piece(g, size[t])[2]
          /\ Piece(g, size[t])[2] = offset[g] \/ Piece(g, size[t])[2] <= file[g]
      BY <2>2, <3>1, PieceIn
    <3>3. file[g] \in Nat /\ offset[g] \in Nat /\ from[g] \in Nat /\ Len(log[g]) \in Nat
      BY <2>2, <3>1 DEF TypeOK
    <3> QED
      BY <3>1, <3>2, <3>3 DEF InFile, InPiece
  <2>4. \A u \in Task : step'[u] = "close" => u = t
    BY <2>1, <2>2
  <2> HIDE DEF g
  <2>5. \A u \in Task : step'[u] = "close" => InPiece(First(left[u]), data[u])'
    BY <2>1, <2>2, <2>3, <2>4 DEF g, InPiece
  <2> QED
    BY <2>1, <2>2, <2>5 DEF Written, InFile
<1>5. ASSUME NEW t \in Task, Close(t) PROVE Locked' /\ Written'
  <2>1. step[t] = "close" /\ \A u \in Task \ {t} : step[u] = "stat"
    BY <1>5, Reader DEF Close
  <2>2. PICK g \in Guest : g = First(left[t])
    BY <1>5, Reader DEF Close
  <2>3. /\ Locked' /\ offset'[g] = data[t][2] /\ (\A h \in Guest \ {g} : offset'[h] = offset[h])
        /\ UNCHANGED guestVars /\ NextGuest(t)
        /\ \A h \in Guest \ {g} : stream'[h] = stream[h]
        /\ \/ data[t][1] = data[t][2] /\ stream' = stream
           \/ data[t][1] # data[t][2] /\ stream'[g] = data[t][3]
    BY <1>5, <2>2, CloseStep, CloseStreams
  <2>4. \A u \in Task : step'[u] # "close"
    BY <2>1, <2>3 DEF NextGuest, TypeOK
  <2>5. UNCHANGED <<log, file, from>>
    BY <2>3 DEF guestVars
  <2>6. InFile(g)'
    <3>1. InFile(g) /\ InPiece(g, data[t]) /\ data[t] \in Nat \X Nat \X Nat
      BY <2>1, <2>2 DEF Written, TypeOK
    <3>2. data[t][1] \in Nat /\ data[t][2] \in Nat /\ data[t][3] \in Nat
      BY <3>1
    <3>3. /\ file[g] <= 2 * (Len(log[g]) - from[g]) /\ offset[g] <= 2 * (Len(log[g]) - stream[g])
          /\ stream[g] <= from[g] /\ from[g] <= Skipped(Len(log[g]))
          /\ data[t][1] = offset[g] /\ data[t][1] <= data[t][2] /\ data[t][3] <= from[g]
          /\ data[t][1] < data[t][2] => data[t][2] <= 2 * (Len(log[g]) - data[t][3])
      BY <3>1 DEF InFile, InPiece
    <3>4. /\ file'[g] = file[g] /\ from'[g] = from[g] /\ log'[g] = log[g] /\ offset'[g] = data[t][2]
          /\ \/ data[t][1] = data[t][2] /\ stream'[g] = stream[g]
             \/ data[t][1] < data[t][2] /\ stream'[g] = data[t][3]
      BY <2>3, <2>5, <3>2, <3>3
    <3>5. offset'[g] <= 2 * (Len(log[g]) - stream'[g]) /\ stream'[g] <= from[g]
      <4>1. CASE stream'[g] = stream[g] /\ data[t][1] = data[t][2]
        BY <3>3, <3>4, <4>1
      <4>2. CASE data[t][1] < data[t][2] /\ stream'[g] = data[t][3]
        BY <3>3, <3>4, <4>2
      <4> QED
        BY <3>4, <4>1, <4>2
    <3> QED
      BY <3>3, <3>4, <3>5 DEF InFile
  <2>7. \A h \in Guest \ {g} : InFile(h)'
    BY <2>3, <2>5 DEF Written, InFile
  <2> QED
    BY <2>3, <2>4, <2>5, <2>6, <2>7 DEF Written
<1>6. CASE UNCHANGED vars
  BY <1>6 DEF vars, guestVars, drainVars, tailVars, lockVars, taskVars, TypeOK, Owner, Written, InFile, InPiece
<1> QED
  BY <1>1, <1>2, <1>3, <1>4, <1>5, <1>6, Steps, Tasks

-----------------------------------------------------------------------------
(* Each line once, and none passed over.                                   *)

\* How often line k is in the readings s.
Count(s, k) == Cardinality({i \in DOMAIN s : k \in s[i].lines})

\* It is a number, and some when the line is in one of them.
LEMMA CountType ==
    ASSUME NEW s, NEW n \in Nat, NEW k, DOMAIN s = 1..n
    PROVE  /\ IsFiniteSet({i \in DOMAIN s : k \in s[i].lines}) /\ Count(s, k) \in Nat
           /\ (\E i \in DOMAIN s : k \in s[i].lines) <=> Count(s, k) > 0
<1> DEFINE I == {i \in DOMAIN s : k \in s[i].lines}
<1>1. IsFiniteSet(I) /\ Cardinality(I) \in Nat
  <2>1. IsFiniteSet(1..n)
    BY FS_Interval
  <2> QED
    BY <2>1, FS_Subset, FS_CardinalityType
<1>2. I = {} <=> Cardinality(I) = 0
  BY <1>1, FS_EmptySet
<1>3. (\E i \in DOMAIN s : k \in s[i].lines) <=> I # {}
  OBVIOUS
<1>4. Count(s, k) = Cardinality(I)
  BY DEF Count
<1> HIDE DEF I
<1>5. Count(s, k) \in Nat /\ (Count(s, k) > 0 <=> I # {})
  BY <1>1, <1>2, <1>4
<1> QED
  BY <1>1, <1>3, <1>5, Zenon DEF I

\* One reading more adds one for each of its lines.
LEMMA CountLonger ==
    ASSUME NEW s, NEW a, NEW n \in Nat, NEW k,
           DOMAIN s = 1..n, DOMAIN a = 1..n + 1, \A i \in 1..n : a[i] = s[i]
    PROVE  Count(a, k) = Count(s, k) + (IF k \in a[n + 1].lines THEN 1 ELSE 0)
<1> DEFINE I == {i \in DOMAIN s : k \in s[i].lines}
           J == {i \in DOMAIN a : k \in a[i].lines}
<1>1. IsFiniteSet(I) /\ Count(s, k) \in Nat
  BY CountType
<1>2. Count(s, k) = Cardinality(I) /\ Count(a, k) = Cardinality(J)
  BY DEF Count
<1>3. ASSUME k \in a[n + 1].lines PROVE Count(a, k) = Count(s, k) + 1
  <2>1. J = I \cup {n + 1} /\ n + 1 \notin I
    BY <1>3
  <2>2. Cardinality(J) = Cardinality(I) + 1
    BY <1>1, <2>1, FS_AddElement
  <2> QED
    BY <1>2, <2>2
<1>4. ASSUME k \notin a[n + 1].lines PROVE Count(a, k) = Count(s, k)
  <2>1. J = I
    BY <1>4
  <2> HIDE DEF I, J
  <2> QED
    BY <1>2, <2>1
<1> HIDE DEF I, J
<1> QED
  BY <1>1, <1>3, <1>4

\* How often a drain's reading adds to what was told of a line.
LEMMA CloseCounts ==
    ASSUME Locked, Written, NEW t \in Task, Close(t), NEW g, g = First(left[t])
    PROVE  /\ g \in Guest /\ \A h \in Guest \ {g} : events'[h] = events[h]
           /\ \A k \in Nat : Count(events'[g], k) = Count(events[g], k) + (IF k \in Told(t, g) THEN 1 ELSE 0)
<1>1. g \in Guest /\ events \in [Guest -> Seq(Reading)] /\ running[g] \in Phase \cup {NoPhase}
  BY Reader DEF Close, Locked, TypeOK, Reading
<1>2. Told(t, g) \in SUBSET Nat
  <2>1. Whole(g, data[t]) \subseteq DOMAIN log[g]
    BY CloseStep
  <2>2. DOMAIN log[g] = 1..Len(log[g]) /\ Len(log[g]) \in Nat
    BY <1>1 DEF Locked, TypeOK
  <2> QED
    BY <2>1, <2>2 DEF Told
<1> DEFINE e == [lines |-> Told(t, g), phase |-> running[g]]
<1>3. e \in Reading /\ e.lines = Told(t, g)
  BY <1>1, <1>2 DEF Reading
<1>4. events' = IF Told(t, g) = {} THEN events ELSE [events EXCEPT ![g] = Append(@, e)]
  BY CloseStep
<1> HIDE DEF e
<1>5. CASE Told(t, g) = {}
  <2>1. events' = events
    BY <1>4, <1>5
  <2>2. \A k \in Nat : Count(events[g], k) \in Nat
    <3>1. Len(events[g]) \in Nat /\ DOMAIN events[g] = 1..Len(events[g])
      BY <1>1
    <3> QED
      BY <3>1, CountType
  <2> QED
    BY <1>1, <1>5, <2>1, <2>2
<1>6. CASE Told(t, g) # {}
  <2>1. events'[g] = Append(events[g], e) /\ \A h \in Guest \ {g} : events'[h] = events[h]
    BY <1>1, <1>4, <1>6
  <2>2. /\ Len(events[g]) \in Nat /\ DOMAIN events[g] = 1..Len(events[g])
        /\ DOMAIN events'[g] = 1..Len(events[g]) + 1 /\ events'[g][Len(events[g]) + 1] = e
        /\ \A i \in 1..Len(events[g]) : events'[g][i] = events[g][i]
    BY <1>1, <1>3, <2>1, AppendProperties
  <2>3. ASSUME NEW k \in Nat
        PROVE  Count(events'[g], k) = Count(events[g], k) + (IF k \in Told(t, g) THEN 1 ELSE 0)
    <3>1. PICK s, a, n :
             /\ n \in Nat /\ s = events[g] /\ a = events'[g] /\ DOMAIN s = 1..n /\ DOMAIN a = 1..n + 1
             /\ \A i \in 1..n : a[i] = s[i]
             /\ a[n + 1] = e
      BY <2>2
    <3>2. Count(a, k) = Count(s, k) + (IF k \in a[n + 1].lines THEN 1 ELSE 0)
      BY <3>1, CountLonger
    <3> QED
      BY <1>3, <3>1, <3>2
  <2> QED
    BY <1>1, <2>1, <2>3
<1> QED
  BY <1>5, <1>6

\* What is before an offset that grows was before it.
LEMMA Halves ==
    ASSUME NEW a \in Nat, NEW b \in Nat, a <= b
    PROVE  a \div 2 \in Nat /\ b \div 2 \in Nat /\ a \div 2 <= b \div 2
OBVIOUS

\* How many lines the tail is through of guest g, those left out included.
Through(g) == stream[g] + (offset[g] \div 2)

\* What a reading tells is past that, and in the end before it; and in one
\* stream it leaves none out.
LEMMA CloseLines ==
    ASSUME Locked, Written, NEW t \in Task, Close(t), NEW g, g = First(left[t])
    PROVE  /\ Through(g) \in Nat /\ Through(g)' \in Nat /\ Through(g) <= Through(g)'
           /\ \A k \in Whole(g, data[t]) : Through(g) < k /\ k <= Through(g)'
           /\ g \notin mixed' =>
                 /\ g \notin mixed
                 /\ \A k \in stream'[g] + 1..Through(g)' : k \in Whole(g, data[t]) \/ k \in stream[g] + 1..Through(g)
<1>1. g \in Guest /\ step[t] = "close"
  BY Reader DEF Close
<1>2. InFile(g) /\ InPiece(g, data[t]) /\ data[t] \in Nat \X Nat \X Nat /\ TypeOK
  BY <1>1 DEF Written, Locked, TypeOK
<1>3. /\ offset'[g] = data[t][2]
      /\ \/ data[t][1] = data[t][2] /\ stream' = stream /\ mixed' = mixed
         \/ /\ data[t][1] # data[t][2] /\ stream'[g] = data[t][3]
            /\ mixed' = IF data[t][1] > 0 /\ data[t][3] # stream[g] THEN mixed \cup {g} ELSE mixed
  BY <1>1, CloseStep, CloseStreams
<1>4. /\ \A k \in LinesOf(data[t]) : k \in Nat /\ Through(g) < k /\ k <= data[t][3] + (data[t][2] \div 2)
      /\ Through(g) <= data[t][3] + (data[t][2] \div 2)
  BY <1>1, <1>2, LinesIn DEF Through
<1>5. /\ stream[g] \in Nat /\ offset[g] \in Nat
      /\ data[t][1] = offset[g] /\ data[t][2] \in Nat /\ data[t][3] \in Nat /\ offset[g] <= data[t][2]
  BY <1>1, <1>2 DEF TypeOK, InPiece
<1>6. offset[g] \div 2 \in Nat /\ data[t][2] \div 2 \in Nat
  BY <1>5
<1>7. Whole(g, data[t]) \subseteq LinesOf(data[t])
  BY DEF Whole
<1> DEFINE a == offset[g] \div 2
           b == data[t][2] \div 2
<1>8. a \in Nat /\ b \in Nat /\ Through(g) = stream[g] + a /\ Through(g)' = stream'[g] + b
  BY <1>3, <1>6 DEF Through
<1>9. CASE data[t][1] = data[t][2] /\ stream' = stream /\ mixed' = mixed
  <2>1. a = b
    BY <1>5, <1>9
  <2>2. LinesOf(data[t]) = {}
    BY <1>5, <1>6, <1>9 DEF LinesOf
  <2> HIDE DEF a, b
  <2> QED
    BY <1>5, <1>7, <1>8, <1>9, <2>1, <2>2
<1>10. CASE /\ data[t][1] # data[t][2] /\ stream'[g] = data[t][3]
            /\ mixed' = IF data[t][1] > 0 /\ data[t][3] # stream[g] THEN mixed \cup {g} ELSE mixed
  <2>1. /\ Through(g) <= Through(g)' /\ \A k \in Whole(g, data[t]) : Through(g) < k /\ k <= Through(g)'
    BY <1>4, <1>7, <1>8, <1>10
  <2>2. ASSUME g \notin mixed', NEW k \in stream'[g] + 1..Through(g)'
        PROVE  g \notin mixed /\ (k \in Whole(g, data[t]) \/ k \in stream[g] + 1..Through(g))
    <3>1. g \notin mixed /\ (offset[g] = 0 \/ data[t][3] = stream[g])
      BY <1>5, <1>10, <2>2
    <3>2. ~ Torn(g, data[t])
      BY <1>5, <3>1 DEF Torn
    <3>3. Whole(g, data[t]) = LinesOf(data[t])
      BY <3>2 DEF Whole
    <3>4. LinesOf(data[t]) = data[t][3] + a + 1..data[t][3] + b
      BY <1>5 DEF LinesOf
    <3>5. offset[g] = 0 => a = 0
      BY <1>5
    <3> HIDE DEF a, b
    <3>6. k \in data[t][3] + 1..data[t][3] + b
      BY <1>8, <1>10, <2>2
    <3> QED
      BY <1>5, <1>8, <3>1, <3>3, <3>4, <3>5, <3>6
  <2>3. g \notin mixed' => g \notin mixed
    BY <1>10
  <2> HIDE DEF a, b
  <2>4. Through(g) \in Nat /\ Through(g)' \in Nat
    BY <1>5, <1>8, <1>10
  <2> QED
    BY <2>1, <2>2, <2>3, <2>4
<1> QED
  BY <1>3, <1>9, <1>10

\* r times the stream started again and the tail saw it: what is before the
\* offset was told once more.  A file shorter than what was read of it has
\* started again, and the tail has not seen it yet.
Rounds(g, r) ==
    /\ file[g] < offset[g] => r < restarts[g]
    /\ \A t \in Task : step[t] = "close" /\ First(left[t]) = g /\ file[g] < data[t][2] => r < restarts[g]
    /\ \A k \in Nat : Count(events[g], k) <= r + (IF k <= Through(g) THEN 1 ELSE 0)

Once == \A g \in Guest : \E r \in 0..restarts[g] : Rounds(g, r)

\* What was told is as long as the counts of it say.
LEMMA Counted == TypeOK => \A g \in Guest : \A k \in Nat : Count(events[g], k) \in Nat
<1> SUFFICES ASSUME TypeOK, NEW g \in Guest, NEW k \in Nat PROVE Count(events[g], k) \in Nat
  OBVIOUS
<1>1. Len(events[g]) \in Nat /\ DOMAIN events[g] = 1..Len(events[g])
  BY DEF TypeOK
<1> QED
  BY <1>1, CountType

\* Each line once a round, at every step.
LEMMA OnceStep == Locked /\ Written /\ Once /\ [Next]_vars => Once'
<1> SUFFICES ASSUME Locked, Written, Once, [Next]_vars, NEW g \in Guest
             PROVE  \E r \in 0..restarts'[g] : Rounds(g, r)'
  BY DEF Once
<1> USE DEF Locked
<1>1. PICK r \in 0..restarts[g] : Rounds(g, r)
  BY DEF Once
<1>2. /\ restarts[g] \in Nat /\ r \in Nat /\ file[g] \in Nat /\ offset[g] \in Nat
      /\ \A k \in Nat : Count(events[g], k) \in Nat
  <2>1. restarts[g] \in Nat /\ file[g] \in Nat /\ offset[g] \in Nat
    BY DEF TypeOK
  <2>2. TypeOK
    OBVIOUS
  <2> HIDE DEF Locked
  <2> QED
    BY <2>1, <2>2, Counted
<1>3. Locked' /\ Written'
  BY WrittenStep
<1>4. CASE Grows
  <2>1. UNCHANGED <<step, left, data, offset, stream, events>>
    BY <1>4 DEF Grows, drainVars, tailVars, lockVars
  <2>2. \/ file'[g] >= file[g] /\ restarts'[g] = restarts[g]
        \/ restarts'[g] = restarts[g] + 1
    BY <1>2, <1>4 DEF Grows
  <2>3. r \in 0..restarts'[g] /\ file'[g] \in Nat /\ restarts'[g] \in Nat
    <3>1. file'[g] \in Nat /\ restarts'[g] \in Nat
      BY <1>3 DEF TypeOK
    <3> QED
      BY <1>2, <2>2, <3>1
  <2>4. file'[g] < offset[g] => r < restarts'[g]
    BY <1>1, <1>2, <2>2, <2>3 DEF Rounds
  <2>5. ASSUME NEW t \in Task, step[t] = "close", First(left[t]) = g, file'[g] < data[t][2]
        PROVE  r < restarts'[g]
    <3>1. file[g] < data[t][2] => r < restarts[g]
      BY <1>1, <2>5 DEF Rounds
    <3>2. data[t][2] \in Nat
      BY DEF TypeOK
    <3> QED
      BY <1>2, <2>2, <2>3, <2>5, <3>1, <3>2
  <2> QED
    BY <1>1, <2>1, <2>3, <2>4, <2>5 DEF Rounds, Through
<1>5. ASSUME NEW t \in Task, Turns(t) PROVE Rounds(g, r)' /\ restarts' = restarts
  <2>1. UNCHANGED <<file, restarts, offset, stream, events>> /\ step'[t] = "stat"
        /\ \A u \in Task \ {t} : step'[u] = step[u] /\ left'[u] = left[u] /\ data'[u] = data[u]
    BY <1>5 DEF Turns, Moves, guestVars, tailVars
  <2>2. \A u \in Task : step'[u] = "close" => step[u] = "close" /\ left'[u] = left[u] /\ data'[u] = data[u]
    BY <2>1
  <2> QED
    BY <1>1, <2>1, <2>2 DEF Rounds, Through
<1>6. ASSUME NEW t \in Task, Stat(t) PROVE \E q \in 0..restarts'[g] : Rounds(g, q)'
  <2> DEFINE h == First(left[t])
  <2>1. h \in Guest /\ step[t] = "stat" /\ \A u \in Task \ {t} : step[u] = "stat"
    BY <1>6, Reader DEF Stat
  <2>2. /\ offset'[h] = StartsOver(file[h], h) /\ (\A i \in Guest \ {h} : offset'[i] = offset[i])
        /\ UNCHANGED <<file, restarts, stream, events>> /\ (NextGuest(t) \/ step' = [step EXCEPT ![t] = "read"])
    BY <1>6, StatStep DEF guestVars
  <2>3. \A u \in Task : step'[u] # "close"
    BY <2>1, <2>2 DEF NextGuest, TypeOK
  <2> HIDE DEF h
  <2>4. CASE g = h /\ file[g] < offset[g]
    <3>1. r < restarts[g] /\ r + 1 \in 0..restarts'[g] /\ offset'[g] = 0
      BY <1>1, <1>2, <2>2, <2>4 DEF Rounds, StartsOver
    <3>2. ASSUME NEW k \in Nat PROVE Count(events[g], k) <= r + 1 + (IF k <= Through(g)' THEN 1 ELSE 0)
      <4>1. Count(events[g], k) <= r + (IF k <= Through(g) THEN 1 ELSE 0)
        BY <1>1 DEF Rounds
      <4>2. Count(events[g], k) <= r + 1
        BY <1>2, <4>1
      <4> QED
        BY <1>2, <4>2
    <3>3. ~ file'[g] < offset'[g]
      BY <1>2, <2>2, <3>1
    <3> QED
      BY <2>2, <2>3, <3>1, <3>2, <3>3 DEF Rounds
  <2>5. CASE ~ (g = h /\ file[g] < offset[g])
    <3>1. offset'[g] = offset[g]
      BY <2>2, <2>5 DEF StartsOver
    <3> QED
      BY <1>1, <2>2, <2>3, <3>1 DEF Rounds, Through
  <2> QED
    BY <2>4, <2>5
<1>7. ASSUME NEW t \in Task, Read(t) PROVE Rounds(g, r)' /\ restarts' = restarts
  <2> DEFINE h == First(left[t])
  <2>1. h \in Guest /\ size[t] \in Nat /\ \A u \in Task \ {t} : step[u] = "stat"
    BY <1>7, Reader DEF Read, TypeOK
  <2>2. /\ data'[t] = Piece(h, size[t]) /\ (\A u \in Task \ {t} : step'[u] = step[u])
        /\ UNCHANGED <<file, restarts, offset, stream, events, left>>
    BY <1>7, ReadStep DEF guestVars, tailVars
  <2>3. \A u \in Task : step'[u] = "close" => u = t
    BY <2>1, <2>2
  <2>4. h = g /\ file[g] < data'[t][2] => r < restarts[g]
    <3> SUFFICES ASSUME h = g, file[g] < data'[t][2] PROVE r < restarts[g]
      OBVIOUS
    <3>1. data'[t][2] = offset[g] \/ data'[t][2] <= file[g]
      BY <2>1, <2>2, PieceIn
    <3>2. data'[t][2] \in Nat
      BY <1>3 DEF TypeOK
    <3>3. file[g] < offset[g]
      BY <1>2, <3>1, <3>2
    <3> QED
      BY <1>1, <3>3 DEF Rounds
  <2> HIDE DEF h
  <2> QED
    BY <1>1, <2>2, <2>3, <2>4 DEF Rounds, Through, h
<1>8. ASSUME NEW t \in Task, Close(t) PROVE Rounds(g, r)' /\ restarts' = restarts
  <2>1. PICK h \in Guest : h = First(left[t])
    BY <1>8, Reader DEF Close
  <2>2. step[t] = "close" /\ \A u \in Task \ {t} : step[u] = "stat"
    BY <1>8, Reader DEF Close
  <2>3. /\ offset'[h] = data[t][2] /\ (\A i \in Guest \ {h} : offset'[i] = offset[i] /\ stream'[i] = stream[i])
        /\ UNCHANGED <<file, restarts>> /\ NextGuest(t)
    BY <1>8, <2>1, CloseStep, CloseStreams DEF guestVars
  <2>4. \A u \in Task : step'[u] # "close"
    BY <2>2, <2>3 DEF NextGuest, TypeOK
  <2>5. /\ \A i \in Guest \ {h} : events'[i] = events[i]
        /\ \A k \in Nat : Count(events'[h], k) = Count(events[h], k) + (IF k \in Told(t, h) THEN 1 ELSE 0)
    BY <1>8, <2>1, CloseCounts
  <2>6. /\ Through(h) \in Nat /\ Through(h)' \in Nat /\ Through(h) <= Through(h)'
        /\ \A k \in Told(t, h) : Through(h) < k /\ k <= Through(h)'
    BY <1>8, <2>1, CloseLines DEF Told
  <2>7. CASE g = h
    <3>1. file[g] < offset'[g] => r < restarts[g]
      BY <1>1, <2>1, <2>2, <2>3, <2>7 DEF Rounds
    <3>2. ASSUME NEW k \in Nat PROVE Count(events'[g], k) <= r + (IF k <= Through(g)' THEN 1 ELSE 0)
      <4>1. Count(events[g], k) <= r + (IF k <= Through(g) THEN 1 ELSE 0) /\ Count(events[g], k) \in Nat
        BY <1>1, <1>2 DEF Rounds
      <4>2. Count(events'[g], k) = Count(events[g], k) + (IF k \in Told(t, g) THEN 1 ELSE 0)
        BY <2>5, <2>7
      <4>3. k \in Told(t, g) => ~ k <= Through(g) /\ k <= Through(g)'
        BY <2>6, <2>7
      <4>4. k <= Through(g) => k <= Through(g)'
        BY <2>6, <2>7
      <4> QED
        BY <1>2, <4>1, <4>2, <4>3, <4>4
    <3> QED
      BY <2>3, <2>4, <3>1, <3>2 DEF Rounds
  <2>8. CASE g # h
    BY <1>1, <2>3, <2>4, <2>5, <2>8 DEF Rounds, Through
  <2> QED
    BY <2>3, <2>7, <2>8
<1>9. CASE UNCHANGED vars
  BY <1>1, <1>9 DEF vars, guestVars, drainVars, tailVars, lockVars, Rounds, Through
<1> QED
  BY <1>1, <1>4, <1>5, <1>6, <1>7, <1>8, <1>9, Steps, Tasks

\* None passed over, at every step.
LEMMA NothingStep == Locked /\ Written /\ NothingLost /\ [Next]_vars => NothingLost'
<1> SUFFICES ASSUME Locked, Written, NothingLost, [Next]_vars,
                    NEW g \in Guest, g \notin mixed', NEW k \in stream'[g] + 1..Through(g)'
             PROVE  IF log'[g][k].token THEN <<g, log'[g][k].by>> \in settled' ELSE Count(events'[g], k) > 0
  BY DEF NothingLost, Times, Count, Through
<1>1. TypeOK /\ TypeOK' /\ Through(g) \in Nat /\ stream[g] \in Nat /\ stream'[g] \in Nat /\ Through(g)' \in Nat
  <2>1. Locked'
    BY WrittenStep
  <2>2. TypeOK /\ TypeOK'
    BY <2>1 DEF Locked
  <2>3. stream[g] \in Nat /\ stream'[g] \in Nat /\ offset[g] \in Nat /\ offset'[g] \in Nat
    BY <2>2 DEF TypeOK
  <2>4. offset[g] \div 2 \in Nat /\ offset'[g] \div 2 \in Nat
    BY <2>3
  <2> QED
    BY <2>2, <2>3, <2>4 DEF Through
<1>2. ASSUME g \notin mixed, k \in stream[g] + 1..Through(g)
      PROVE  /\ k \in DOMAIN log[g]
             /\ IF log[g][k].token THEN <<g, log[g][k].by>> \in settled ELSE Count(events[g], k) > 0
  <2>1. k \in DOMAIN log[g]
    <3>1. /\ offset[g] \in Nat /\ Len(log[g]) \in Nat /\ DOMAIN log[g] = 1..Len(log[g])
          /\ offset[g] <= 2 * (Len(log[g]) - stream[g])
      BY <1>1 DEF TypeOK, Written, InFile
    <3>2. offset[g] \div 2 <= Len(log[g]) - stream[g]
      BY <1>1, <3>1, HalfOf
    <3> DEFINE a == offset[g] \div 2
    <3>3. a \in Nat /\ a <= Len(log[g]) - stream[g] /\ k \in stream[g] + 1..stream[g] + a
      BY <1>2, <3>1, <3>2 DEF Through
    <3> HIDE DEF a
    <3> QED
      BY <1>1, <3>1, <3>3
  <2> QED
    BY <1>2, <2>1 DEF NothingLost, Times, Count, Through
<1>3. CASE UNCHANGED <<log, offset, stream, mixed, events, settled>>
  <2>1. g \notin mixed /\ k \in stream[g] + 1..Through(g)
    BY <1>3 DEF Through
  <2> QED
    BY <1>2, <1>3, <2>1
<1>4. CASE Grows
  <2>1. UNCHANGED <<offset, stream, mixed, events, settled>>
    BY <1>4 DEF Grows, drainVars, tailVars
  <2>2. g \notin mixed /\ k \in stream[g] + 1..Through(g)
    BY <2>1 DEF Through
  <2>3. log'[g][k] = log[g][k]
    BY <1>2, <1>4, <2>2, LogGrows
  <2> QED
    BY <1>2, <2>1, <2>2, <2>3
<1>5. ASSUME NEW t \in Task, Turns(t) PROVE UNCHANGED <<log, offset, stream, mixed, events, settled>>
  BY <1>5 DEF Turns, guestVars, tailVars
<1>6. ASSUME NEW t \in Task, Stat(t)
      PROVE  UNCHANGED <<log, mixed, events, settled>> /\ k \in stream[g] + 1..Through(g)
  <2>1. PICK h \in Guest : h = First(left[t])
    BY <1>6, Reader DEF Stat
  <2>2. offset'[h] = StartsOver(file[h], h) /\ (\A i \in Guest \ {h} : offset'[i] = offset[i])
        /\ UNCHANGED <<log, stream, mixed, events, settled>>
    BY <1>6, <2>1, StatStep DEF guestVars
  <2>3. offset'[g] \in {offset[g], 0} /\ offset[g] \in Nat
    BY <1>1, <2>2 DEF StartsOver, TypeOK
  <2>4. Through(g)' <= Through(g)
    <3>1. CASE offset'[g] = offset[g]
      BY <1>1, <2>2, <3>1 DEF Through
    <3>2. CASE offset'[g] = 0
      <4>1. Through(g)' = stream[g]
        BY <1>1, <2>2, <3>2 DEF Through
      <4>2. offset[g] \div 2 \in Nat
        BY <2>3
      <4> QED
        BY <1>1, <4>1, <4>2 DEF Through
    <3> QED
      BY <2>3, <3>1, <3>2
  <2> QED
    BY <1>1, <2>2, <2>4
<1>7. ASSUME NEW t \in Task, Read(t) PROVE UNCHANGED <<log, offset, stream, mixed, events, settled>>
  BY <1>7, ReadStep DEF guestVars, tailVars
<1>8. ASSUME NEW t \in Task, Close(t)
      PROVE  IF log'[g][k].token THEN <<g, log'[g][k].by>> \in settled' ELSE Count(events'[g], k) > 0
  <2>1. PICK h \in Guest : h = First(left[t])
    BY <1>8, Reader DEF Close
  <2>2. /\ \A i \in Guest \ {h} : offset'[i] = offset[i] /\ stream'[i] = stream[i] /\ (i \in mixed' <=> i \in mixed)
        /\ log' = log /\ settled' = settled \cup Noted(t, h)
    BY <1>8, <2>1, CloseStep, CloseStreams DEF guestVars
  <2>3. /\ \A i \in Guest \ {h} : events'[i] = events[i]
        /\ \A j \in Nat : Count(events'[h], j) = Count(events[h], j) + (IF j \in Told(t, h) THEN 1 ELSE 0)
    BY <1>8, <2>1, CloseCounts
  <2>4. \A j \in Nat : Count(events[g], j) \in Nat
    BY <1>1, Counted
  <2>5. k \in Nat
    BY <1>1
  <2>6. g # h => g \notin mixed /\ k \in stream[g] + 1..Through(g)
    BY <2>2 DEF Through
  <2>7. g = h => g \notin mixed /\ (k \in Whole(g, data[t]) \/ k \in stream[g] + 1..Through(g))
    BY <1>8, <2>1, CloseLines
  <2>8. CASE k \in stream[g] + 1..Through(g)
    <3>1. IF log[g][k].token THEN <<g, log[g][k].by>> \in settled ELSE Count(events[g], k) > 0
      BY <1>2, <2>6, <2>7, <2>8
    <3>2. CASE g = h
      <4>1. Count(events'[g], k) >= Count(events[g], k) /\ Count(events'[g], k) \in Nat
        BY <2>3, <2>4, <2>5, <3>2
      <4> QED
        BY <2>2, <2>4, <2>5, <3>1, <4>1
    <3>3. CASE g # h
      BY <2>2, <2>3, <3>1, <3>3
    <3> QED
      BY <3>2, <3>3
  <2>9. CASE g = h /\ k \in Whole(g, data[t])
    <3>1. CASE log[g][k].token
      <4>1. <<g, log[g][k].by>> \in Noted(t, h)
        BY <2>9, <3>1 DEF Noted
      <4> QED
        BY <2>2, <3>1, <4>1
    <3>2. CASE ~ log[g][k].token
      <4>1. k \in Told(t, h)
        BY <2>9, <3>2 DEF Told
      <4>2. Count(events'[g], k) = Count(events[g], k) + 1
        BY <2>3, <2>5, <2>9, <4>1
      <4> QED
        BY <2>2, <2>4, <2>5, <3>2, <4>2
    <3> QED
      BY <3>1, <3>2
  <2> QED
    BY <2>6, <2>7, <2>8, <2>9
<1>9. CASE UNCHANGED vars
  BY <1>3, <1>9 DEF vars, guestVars, drainVars, tailVars
<1>10. ASSUME NEW t \in Task, Stat(t)
       PROVE  IF log'[g][k].token THEN <<g, log'[g][k].by>> \in settled' ELSE Count(events'[g], k) > 0
  BY <1>2, <1>6, <1>10
<1> QED
  BY <1>3, <1>4, <1>5, <1>7, <1>8, <1>9, <1>10, Steps, Tasks

-----------------------------------------------------------------------------
(* Last words.                                                             *)

\* The guests are put down when the drive is over, and that is when no phase
\* is on; until then follow ends only when it is cut short.
Ends ==
    /\ down => (\A g \in Guest : ~ alive[g]) /\ at[Sequence] = "over"
    /\ at[Sequence] # "idle" => \A p \in Phase : at[p] \in {"idle", "over", "stopped"}
    /\ at[Follow] \in {"final", "over"} => down \/ cancelled

\* When the guests are down nobody but follow reads, and its last drain has
\* all of what the files hold of each guest it is done with.
Final ==
    /\ Ends
    /\ at[Follow] = "final" /\ ~ cancelled =>
          /\ \A g \in Guest \ left[Follow] : offset[g] = file[g]
          /\ LET g == First(left[Follow])
             IN  /\ step[Follow] = "read" => size[Follow] = file[g] /\ offset[g] <= file[g]
                 /\ step[Follow] = "close" => data[Follow][2] = file[g]
    /\ at[Follow] = "over" /\ ~ cancelled => \A g \in Guest : offset[g] = file[g]

\* Where a drain is when it is done with a guest.
LEMMA GoesOn ==
    ASSUME Locked, NEW t \in Task, at[t] \in Draining, Owner(t), NextGuest(t)
    PROVE  /\ step'[t] = "stat" /\ \A u \in Task \ {t} : at'[u] = at[u]
           /\ \/ at'[t] = at[t] /\ left'[t] = left[t] \ {First(left[t])}
              \/ /\ left[t] = {First(left[t])} /\ DrainReturns(t)
                 /\ at[t] = "start" => at'[t] = "body"
                 /\ at[t] \in {"poll", "drain"} => at'[t] = "sleep"
                 /\ at[t] \in {"last", "final"} => at'[t] = "over"
<1>1. at \in [Task -> Place]
  BY DEF Locked, TypeOK, Place
<1>2. Moves(t) /\ left'[t] = left[t] \ {First(left[t])}
  BY NextGuestMoves
<1>3. CASE left[t] # {First(left[t])}
  BY <1>2, <1>3 DEF NextGuest, Moves
<1>4. CASE left[t] = {First(left[t])}
  <2>1. DrainReturns(t)
    BY <1>4 DEF NextGuest
  <2>2. at'[t] = CASE at[t] = "start" -> "body"
                   [] at[t] \in {"poll", "drain"} -> "sleep"
                   [] at[t] \in {"last", "final"} -> "over"
    BY <1>1, <2>1 DEF DrainReturns
  <2> QED
    BY <1>2, <1>4, <2>1, <2>2 DEF Moves
<1> QED
  BY <1>3, <1>4

\* A reader goes on, or is done: with its last drain it is over.
LEMMA ReaderAt ==
    ASSUME Locked, NEW t \in Task, Stat(t) \/ Read(t) \/ Close(t)
    PROVE  /\ at[t] \in Draining /\ Owner(t) /\ UNCHANGED guestVars
           /\ UNCHANGED <<at, left>> \/ NextGuest(t)
           /\ \A u \in Task \ {t} : at'[u] = at[u]
           /\ \/ at'[t] = at[t]
              \/ at[t] \in {"poll", "drain"} /\ at'[t] = "sleep"
              \/ at[t] \in {"last", "final"} /\ at'[t] = "over"
              \/ at[t] = "start" /\ at'[t] = "body"
<1>1. /\ at[t] \in Draining /\ Owner(t) /\ UNCHANGED guestVars
      /\ UNCHANGED <<at, left>> \/ NextGuest(t)
  BY DEF Stat, Read, Close, taskVars
<1>2. CASE UNCHANGED at
  BY <1>1, <1>2
<1>3. CASE NextGuest(t)
  BY <1>1, <1>3, GoesOn DEF Draining
<1> QED
  BY <1>1, <1>2, <1>3

\* Who is where, at every step.
LEMMA EndsStep == Locked /\ Ends /\ [Next]_vars => Ends'
<1> SUFFICES ASSUME Locked, Ends, [Next]_vars PROVE Ends'
  OBVIOUS
<1>1. CASE Grows
  <2>1. at' = at /\ (cancelled' = cancelled \/ cancelled') /\ (\A g \in Guest : alive'[g] => alive[g])
        /\ (down' = down \/ (down' /\ at[Sequence] = "over" /\ \A g \in Guest : ~ alive'[g]))
    BY <1>1 DEF Grows, taskVars
  <2> QED
    BY <2>1 DEF Ends
<1>2. ASSUME NEW p \in Phase, Turns(p), Goes(p) \/ PhaseStopped(p)
      PROVE  Ends'
  <2>1. /\ \A u \in Task \ {p} : at'[u] = at[u]
        /\ UNCHANGED <<alive, down, cancelled>>
    BY <1>2 DEF Turns, Moves, guestVars
  <2>2. CASE Goes(p)
    <3>1. at[Sequence] = "idle"
      BY <2>2 DEF Ends, Goes, Begin, BodyEnds, TokenSent, Again, Timeout, Settling
    <3> QED
      BY <2>1, <3>1, Tasks DEF Ends
  <2>3. CASE PhaseStopped(p)
    <3>1. at'[p] = "stopped"
      BY <2>3, PhaseHalts
    <3> QED
      BY <2>1, <3>1, Tasks DEF Ends
  <2> QED
    BY <1>2, <2>2, <2>3
<1>3. ASSUME NEW t \in {Follow, Sequence}, Turns(t), Drains(t)
      PROVE  Ends'
  <2>1. /\ t \in Task /\ (\A u \in Task \ {t} : at'[u] = at[u])
        /\ UNCHANGED <<alive, down, cancelled>>
    BY <1>3, Tasks DEF Turns, Moves, guestVars
  <2>2. CASE t = Sequence /\ SequenceEnds
    <3>1. at[Sequence] = "idle" /\ \A p \in Phase : at[p] \in {"idle", "over", "stopped"}
      BY <2>2 DEF SequenceEnds
    <3> QED
      BY <2>1, <2>2, <3>1, Tasks DEF Ends
  <2>3. CASE t = Follow /\ (FollowAgain \/ FollowCancelled)
    <3>1. at'[Follow] = "drain" \/ (FollowCancelled /\ at'[Follow] = "final")
      BY <1>3, <2>1, <2>3, DriveTurns
    <3>2. at'[Follow] \in {"final", "over"} => down \/ cancelled
      BY <3>1 DEF FollowCancelled
    <3> QED
      BY <2>1, <2>3, <3>2, Tasks DEF Ends
  <2> QED
    BY <1>3, <2>2, <2>3 DEF Drains
<1>4. ASSUME NEW t \in Task, Stat(t) \/ Read(t) \/ Close(t) PROVE Ends'
  <2>1. /\ at[t] \in Draining /\ UNCHANGED <<alive, down, cancelled>>
        /\ \A u \in Task \ {t} : at'[u] = at[u]
        /\ \/ at'[t] = at[t]
           \/ at[t] \in {"poll", "drain"} /\ at'[t] = "sleep"
           \/ at[t] \in {"last", "final"} /\ at'[t] = "over"
           \/ at[t] = "start" /\ at'[t] = "body"
    BY <1>4, ReaderAt DEF guestVars
  <2>2. down => at'[Sequence] = "over"
    BY <2>1, Tasks DEF Ends, Draining
  <2>3. at'[Sequence] # "idle" => \A p \in Phase : at'[p] \in {"idle", "over", "stopped"}
    <3>1. at'[Sequence] # "idle" => at[Sequence] # "idle"
      BY <2>1, Tasks DEF Draining
    <3>2. at[Sequence] # "idle" => \A p \in Phase : at'[p] = at[p]
      BY <2>1, Tasks DEF Ends, Draining
    <3> QED
      BY <3>1, <3>2 DEF Ends
  <2>4. at'[Follow] \in {"final", "over"} => at[Follow] \in {"final", "over"}
    <3>1. CASE t = Follow
      <4>1. at[Follow] \in OfFollow
        BY InPlace
      <4> QED
        BY <2>1, <3>1, <4>1 DEF OfFollow
    <3>2. CASE t # Follow
      BY <2>1, <3>2, Tasks
    <3> QED
      BY <3>1, <3>2
  <2> QED
    BY <2>1, <2>2, <2>3, <2>4 DEF Ends
<1>5. CASE UNCHANGED vars
  BY <1>5 DEF vars, guestVars, taskVars, Ends
<1> QED
  BY <1>1, <1>2, <1>3, <1>4, <1>5, Steps

\* The last words, at every step.
LEMMA FinalStep == Locked /\ Written /\ Final /\ [Next]_vars => Final'
<1> SUFFICES ASSUME Locked, Written, Final, [Next]_vars PROVE Final'
  OBVIOUS
<1>1. Ends /\ Ends'
  BY EndsStep DEF Final
<1>2. CASE cancelled' \/ ~ down'
  BY <1>1, <1>2 DEF Final, Ends
<1>3. CASE Grows /\ ~ cancelled' /\ down'
  <2>1. UNCHANGED <<offset, left, step, size, data, at>>
    BY <1>3 DEF Grows, drainVars, tailVars, lockVars, taskVars
  <2>2. ~ cancelled
    <3>1. cancelled' = cancelled \/ cancelled'
      BY <1>3 DEF Grows
    <3> QED
      BY <1>3, <3>1
  <2>3. CASE down
    <3>1. \A g \in Guest : file'[g] = file[g]
      BY <1>1, <1>3, <2>3 DEF Grows, Ends
    <3>2. at[Follow] = "final" => First(left[Follow]) \in Guest
      BY FirstOf, Tasks DEF Locked, TypeOK, Draining
    <3> QED
      BY <1>1, <2>1, <2>2, <2>3, <3>1, <3>2 DEF Final
  <2>4. CASE ~ down
    BY <1>1, <2>1, <2>2, <2>4 DEF Final, Ends
  <2> QED
    BY <2>3, <2>4
<1>4. ASSUME NEW p \in Phase, Turns(p), Goes(p) \/ PhaseStopped(p), ~ cancelled', down'
      PROVE  Final'
  <2>1. ~ cancelled /\ down
    BY <1>4 DEF Turns, guestVars
  <2>2. at[p] \in {"idle", "over", "stopped"} /\ at[Sequence] = "over"
    BY <1>1, <2>1 DEF Ends
  <2>3. CASE Goes(p)
    BY <2>2, <2>3 DEF Goes, Begin, BodyEnds, TokenSent, Again, Timeout, Settling
  <2>4. CASE PhaseStopped(p)
    BY <2>1, <2>4 DEF PhaseStopped
  <2> QED
    BY <1>4, <2>3, <2>4
<1>5. ASSUME NEW t \in {Follow, Sequence}, Turns(t), Drains(t), ~ cancelled', down'
      PROVE  Final'
  <2>1. ~ cancelled /\ down /\ t \in Task
    BY <1>5, Tasks DEF Turns, guestVars
  <2>2. t = Follow
    BY <1>1, <1>5, <2>1 DEF Ends, Drains, SequenceEnds
  <2>3. /\ left'[Follow] = Guest /\ at'[Follow] \in {"drain", "final"} /\ step'[Follow] = "stat"
    BY <1>5, <2>1, <2>2, DriveTurns DEF Turns, Moves
  <2> QED
    BY <1>1, <2>3 DEF Final
<1>6. ASSUME NEW t \in Task, Stat(t) \/ Read(t) \/ Close(t), ~ cancelled', down' PROVE Final'
  <2>1. /\ at[t] \in Draining /\ Owner(t) /\ UNCHANGED <<file, alive, down, cancelled>>
        /\ UNCHANGED <<at, left>> \/ NextGuest(t)
    BY <1>6, ReaderAt DEF guestVars
  <2>2. ~ cancelled /\ down
    BY <1>6, <2>1
  <2>3. t = Follow
    BY <1>1, <2>1, <2>2, Tasks DEF Ends, Draining
  <2>4. CASE at[Follow] # "final"
    <3>1. at[Follow] = "drain"
      BY <2>1, <2>3, <2>4, InPlace DEF OfFollow, Draining
    <3>2. at'[Follow] \in {"drain", "sleep"}
      BY <1>6, <2>3, <3>1, ReaderAt
    <3> QED
      BY <1>1, <3>2 DEF Final
  <2>5. CASE at[Follow] = "final"
    <3> DEFINE g == First(left[Follow])
    <3>1. g \in left[Follow] /\ g \in Guest /\ left[Follow] \subseteq Guest
      BY <2>1, <2>3, Reader
    <3>2. \A h \in Guest \ left[Follow] : offset[h] = file[h]
      BY <2>2, <2>5 DEF Final
    <3>3. ASSUME NextGuest(Follow), offset'[g] = file[g], \A h \in Guest \ {g} : offset'[h] = offset[h]
          PROVE  Final'
      <4>1. \A h \in Guest \ (left[Follow] \ {g}) : offset'[h] = file[h]
        BY <3>2, <3>3
      <4>2. /\ step'[Follow] = "stat"
            /\ \/ at'[Follow] = "final" /\ left'[Follow] = left[Follow] \ {g}
               \/ at'[Follow] = "over" /\ left[Follow] = {g}
        BY <2>1, <2>3, <2>5, <3>3, Tasks, GoesOn
      <4> HIDE DEF g
      <4> QED
        BY <1>1, <2>1, <4>1, <4>2 DEF Final
    <3>4. CASE Stat(t)
      <4>1. /\ offset'[g] = StartsOver(file[g], g) /\ \A h \in Guest \ {g} : offset'[h] = offset[h]
            /\ \/ offset'[g] = file[g] /\ NextGuest(Follow)
               \/ /\ offset'[g] # file[g] /\ step' = [step EXCEPT ![Follow] = "read"]
                  /\ size' = [size EXCEPT ![Follow] = file[g]] /\ UNCHANGED <<at, left>>
        BY <2>3, <3>4, Tasks, StatStep
      <4>2. CASE step' = [step EXCEPT ![Follow] = "read"] /\ size' = [size EXCEPT ![Follow] = file[g]]
                 /\ UNCHANGED <<at, left>>
        <5>1. step'[Follow] = "read" /\ size'[Follow] = file[g]
          BY <4>2, Tasks DEF Locked, TypeOK
        <5>2. offset'[g] <= file[g]
          BY <3>1, <4>1 DEF StartsOver, Locked, TypeOK
        <5>3. \A h \in Guest \ left[Follow] : offset'[h] = file[h]
          BY <3>1, <3>2, <4>1
        <5> QED
          BY <1>1, <2>1, <2>5, <4>2, <5>1, <5>2, <5>3 DEF Final
      <4> QED
        BY <3>3, <4>1, <4>2
    <3>5. CASE Read(t)
      <4>1. /\ data'[Follow] = Piece(g, size[Follow]) /\ step'[Follow] = "close" /\ step[Follow] = "read"
            /\ UNCHANGED <<offset, at, left>>
        BY <2>3, <3>5, Tasks, ReadStep DEF Read, tailVars, taskVars
      <4>2. size[Follow] = file[g] /\ offset[g] <= file[g] /\ size[Follow] \in Nat /\ TypeOK
        BY <2>2, <2>5, <4>1, Tasks DEF Final, Locked, TypeOK
      <4>3. data'[Follow][2] = file[g]
        BY <3>1, <4>1, <4>2, PieceIn
      <4> QED
        BY <1>1, <2>1, <2>5, <3>2, <4>1, <4>3 DEF Final
    <3>6. CASE Close(t)
      <4>1. /\ offset'[g] = data[Follow][2] /\ \A h \in Guest \ {g} : offset'[h] = offset[h]
            /\ NextGuest(Follow) /\ step[Follow] = "close"
        <5>1. /\ offset'[First(left[t])] = data[t][2] /\ NextGuest(t) /\ step[t] = "close"
              /\ \A h \in Guest \ {First(left[t])} : offset'[h] = offset[h]
          BY <3>6, CloseStep DEF Close
        <5> QED
          BY <2>3, <5>1
      <4>2. data[Follow][2] = file[g]
        BY <2>2, <2>5, <4>1 DEF Final
      <4> QED
        BY <3>3, <4>1, <4>2
    <3> QED
      BY <1>6, <3>4, <3>5, <3>6
  <2> QED
    BY <2>4, <2>5
<1>7. CASE UNCHANGED vars
  BY <1>1, <1>7 DEF vars, guestVars, drainVars, tailVars, lockVars, taskVars, Final
<1> QED
  BY <1>2, <1>3, <1>4, <1>5, <1>6, <1>7, Steps

-----------------------------------------------------------------------------
(* A settled phase.                                                        *)

\* The awaits in which a phase has its guests.
Active == {"body", "token", "poll", "sleep", "last"}

\* Phases that are on have no guest in common, and hold theirs; of a stopped
\* one only who stopped it knows.
Holding ==
    /\ \A p, q \in Phase :
          p # q /\ at[p] \notin {"idle", "over"} /\ at[q] \notin {"idle", "over"} => nodes[p] \cap nodes[q] = {}
    /\ \A p \in Phase, g \in Guest : at[p] # "stopped" => (running[g] = p <=> g \in nodes[p] /\ at[p] \in Active)
    /\ \A p \in Phase, g \in Guest : running[g] = p => g \in nodes[p]

\* What is logged while a phase runs is told as its own until it is over, or
\* stopped.
HisOwn ==
    /\ \A g \in Guest : \A i \in DOMAIN events[g] : events[g][i].lines \subseteq DOMAIN log[g]
    /\ \A g \in Guest, p \in Phase : \A k \in DOMAIN log[g] :
          ~ log[g][k].token /\ log[g][k].by = p /\ at[p] \notin {"over", "stopped"} =>
             /\ running[g] = p
             /\ \A i \in DOMAIN events[g] : k \in events[g][i].lines => events[g][i].phase = p

\* A guest logs a phase's token once, and what it logged before a token that
\* is noted was told, if the stream carries it.
Complete ==
    /\ \A g \in Guest, p \in Phase : \A t, u \in DOMAIN log[g] :
          log[g][t] = TokenOf(p) /\ log[g][u] = TokenOf(p) => t = u
    /\ \A g \in Guest, p \in Phase : <<g, p>> \in settled =>
          \E t \in DOMAIN log[g] :
             /\ log[g][t] = TokenOf(p)
             /\ g \notin mixed => \A k \in DOMAIN log[g] :
                   from[g] < k /\ k < t /\ ~ log[g][k].token => Count(events[g], k) > 0

\* The last drain waited for every token, or was late.
Waited ==
    /\ \A p \in Phase : at[p] \in {"idle", "start", "body"} => tokens[p] = {}
    /\ \A p \in Phase : at[p] = "last" /\ p \notin late => Arrived(p, tokens[p])

\* Where a phase turns to.
Onward(p) ==
    /\ \A q \in Phase \ {p} : tokens'[q] = tokens[q] /\ (q \in late' <=> q \in late)
    /\ \/ /\ at[p] = "idle" /\ at'[p] = "start" /\ tokens' = tokens
          /\ \A q \in Phase : at[q] \in {"idle", "over"} \/ nodes[q] \cap nodes[p] = {}
       \/ /\ at[p] \in {"body", "token", "poll", "sleep"} /\ at'[p] \in {"token", "poll", "last"}
          /\ at'[p] = "last" /\ p \notin late' =>
                (at[p] = "body" /\ tokens' = tokens) \/ Arrived(p, tokens'[p])

\* It turns onward.
LEMMA TurnsOnward ==
    ASSUME Locked, NEW p \in Phase, Goes(p)
    PROVE  Onward(p)
<1>1. p \in Task /\ at \in [Task -> Place] /\ tokens \in [Phase -> SUBSET Guest] /\ TypeOK
  BY Tasks DEF Locked, TypeOK, Place
<1>2. CASE Begin(p)
  BY <1>1, <1>2 DEF Begin, Enter, Onward
<1>3. CASE BodyEnds(p)
  <2>1. Ask(p, nodes[p], {}) /\ UNCHANGED <<tokens, late>> /\ at[p] = "body" /\ nodes[p] \in SUBSET Guest
    BY <1>1, <1>3, NodesType DEF BodyEnds
  <2>2. at'[p] \in {"token", "poll", "last"}
    BY <1>1, <2>1, AskMoves
  <2> QED
    BY <2>1, <2>2 DEF Onward
<1>4. CASE TokenSent(p)
  <2>1. at[p] = "token" /\ late' = late /\ asking[p] \in SUBSET Guest
    BY <1>1, <1>4 DEF TokenSent, TypeOK
  <2>2. PICK sent : tokens' = [tokens EXCEPT ![p] = sent] /\ Ask(p, asking[p] \ {First(asking[p])}, sent)
    BY <1>4 DEF TokenSent
  <2>3. asking[p] \ {First(asking[p])} \in SUBSET Guest
    BY <2>1
  <2>4. at'[p] \in {"token", "poll", "last"} /\ (at'[p] = "last" => Arrived(p, sent))
    <3> DEFINE rest == asking[p] \ {First(asking[p])}
    <3>1. rest \in SUBSET Guest /\ Ask(p, rest, sent) /\ at[p] \in {"body", "token"}
      BY <2>1, <2>2, <2>3
    <3> HIDE DEF rest
    <3>2. PICK stage \in {"token", "last", "poll"} :
             at' = [at EXCEPT ![p] = stage] /\ (stage = "last" => Arrived(p, sent))
      BY <3>1, AskMoves
    <3> QED
      BY <1>1, <3>2
  <2>5. tokens'[p] = sent /\ \A q \in Phase \ {p} : tokens'[q] = tokens[q]
    BY <1>1, <2>2
  <2> QED
    BY <2>1, <2>4, <2>5 DEF Onward
<1>5. CASE Again(p)
  BY <1>1, <1>5 DEF Again, Enter, Onward
<1>6. CASE Timeout(p)
  <2>1. /\ at' = [at EXCEPT ![p] = "last"] /\ tokens' = tokens /\ late' = late \cup {p}
        /\ at[p] \in {"token", "poll", "sleep"}
    BY <1>6 DEF Timeout, Enter, Settling
  <2> QED
    BY <1>1, <2>1 DEF Onward
<1> QED
  BY <1>2, <1>3, <1>4, <1>5, <1>6 DEF Goes

\* What was told stays told, and only a reading adds to it.
LEMMA EventsGrow ==
    ASSUME Locked, Written, [Next]_vars, NEW g \in Guest
    PROVE  /\ \A i \in DOMAIN events[g] : i \in DOMAIN events'[g] /\ events'[g][i] = events[g][i]
           /\ \A i \in DOMAIN events'[g] :
                 \/ i \in DOMAIN events[g]
                 \/ \E t \in Task : /\ Close(t) /\ g = First(left[t])
                                    /\ events'[g][i] = [lines |-> Told(t, g), phase |-> running[g]]
           /\ \A k \in Nat : /\ Count(events[g], k) \in Nat /\ Count(events'[g], k) \in Nat
                             /\ Count(events'[g], k) >= Count(events[g], k)
<1>1. TypeOK /\ \A k \in Nat : Count(events[g], k) \in Nat
  BY Counted DEF Locked
<1>2. CASE events'[g] = events[g]
  BY <1>1, <1>2
<1>3. CASE \E t \in Task : Close(t)
  <2>1. PICK t \in Task : Close(t)
    BY <1>3
  <2> DEFINE h == First(left[t])
             e == [lines |-> Told(t, h), phase |-> running[h]]
  <2>2. /\ h \in Guest /\ \A j \in Guest \ {h} : events'[j] = events[j]
        /\ \A k \in Nat : Count(events'[h], k) = Count(events[h], k) + (IF k \in Told(t, h) THEN 1 ELSE 0)
    BY <2>1, CloseCounts
  <2>3. events' = IF Told(t, h) = {} THEN events ELSE [events EXCEPT ![h] = Append(@, e)]
    BY <2>1, CloseStep
  <2>4. CASE g = h /\ Told(t, h) # {}
    <3>1. e \in Reading
      <4>1. Told(t, h) \in SUBSET Nat
        <5>1. Whole(h, data[t]) \subseteq DOMAIN log[h]
          BY <2>1, CloseStep
        <5>2. DOMAIN log[h] = 1..Len(log[h]) /\ Len(log[h]) \in Nat
          BY <1>1, <2>2 DEF TypeOK
        <5> QED
          BY <5>1, <5>2 DEF Told
      <4> QED
        BY <1>1, <2>2, <4>1 DEF Reading, TypeOK
    <3>2. events[g] \in Seq(Reading) /\ events'[g] = Append(events[g], e)
      BY <1>1, <2>2, <2>3, <2>4 DEF TypeOK, Reading
    <3> HIDE DEF e
    <3>3. /\ DOMAIN events[g] = 1..Len(events[g]) /\ DOMAIN events'[g] = 1..Len(events[g]) + 1
          /\ Len(events[g]) \in Nat /\ events'[g][Len(events[g]) + 1] = e
          /\ \A i \in 1..Len(events[g]) : events'[g][i] = events[g][i]
      BY <3>1, <3>2, AppendProperties
    <3>4. \A i \in DOMAIN events'[g] : i \in DOMAIN events[g] \/ events'[g][i] = e
      BY <3>3
    <3>5. \A i \in DOMAIN events[g] : i \in DOMAIN events'[g] /\ events'[g][i] = events[g][i]
      BY <3>3
    <3>6. \A k \in Nat : Count(events'[g], k) \in Nat /\ Count(events'[g], k) >= Count(events[g], k)
      BY <1>1, <2>2, <2>4
    <3> QED
      BY <1>1, <2>1, <2>4, <3>4, <3>5, <3>6 DEF e
  <2>5. CASE ~ (g = h /\ Told(t, h) # {})
    <3>1. events'[g] = events[g]
      BY <2>2, <2>3, <2>5
    <3> QED
      BY <1>2, <3>1
  <2> QED
    BY <2>4, <2>5
<1>4. CASE Grows \/ \E t \in Task : Turns(t) \/ Stat(t) \/ Read(t)
  <2>1. events' = events
    BY <1>4, StatStep, ReadStep DEF Grows, drainVars, tailVars, Turns
  <2> QED
    BY <1>2, <2>1
<1>5. CASE UNCHANGED vars
  BY <1>2, <1>5 DEF vars, drainVars, tailVars
<1> QED
  BY <1>3, <1>4, <1>5, Steps, Tasks

\* What a reader does to the phases: nothing, or its drain returns.
LEMMA DrainMoves ==
    ASSUME Locked, Written, NEW t \in Task, Stat(t) \/ Read(t) \/ Close(t)
    PROVE  /\ UNCHANGED <<scene, log>>
           /\ \/ UNCHANGED <<at, running, tokens, late>>
              \/ /\ \A u \in Task \ {t} : at'[u] = at[u]
                 /\ \/ at[t] = "start" /\ at'[t] = "body"
                    \/ at[t] \in {"poll", "drain"} /\ at'[t] = "sleep"
                    \/ at[t] \in {"last", "final"} /\ at'[t] = "over"
                 /\ \A g \in Guest :
                       /\ at[t] = "start" /\ g \in nodes[t] => running'[g] = t
                       /\ at[t] = "last" /\ g \in nodes[t] => running'[g] = NoPhase
                       /\ at[t] \notin {"start", "last"} \/ g \notin nodes[t] => running'[g] = running[g]
                 /\ at[t] # "last" => tokens' = tokens /\ late' = late
                 /\ \A q \in Phase \ {t} : tokens'[q] = tokens[q] /\ (q \in late' <=> q \in late)
<1>1. /\ at[t] \in Draining /\ Owner(t) /\ UNCHANGED <<scene, log>>
      /\ UNCHANGED <<at, running, tokens, late>> \/ NextGuest(t)
  BY StatStep, ReadStep, CloseStep DEF Stat, Read, Close, guestVars, taskVars
<1>2. CASE NextGuest(t)
  <2>1. CASE UNCHANGED <<at, running, tokens, late>>
    BY <1>1, <2>1
  <2>2. CASE DrainReturns(t)
    <3>1. /\ running' = [g \in Guest |-> CASE at[t] = "start" /\ g \in nodes[t] -> t
                                            [] at[t] = "last" /\ g \in nodes[t] -> NoPhase
                                            [] OTHER -> running[g]]
          /\ tokens' = IF at[t] = "last" THEN [tokens EXCEPT ![t] = {}] ELSE tokens
          /\ late' = IF at[t] = "last" THEN late \ {t} ELSE late
      BY <2>2 DEF DrainReturns
    <3>2. tokens \in [Phase -> SUBSET Guest] /\ at \in [Task -> Place]
      BY DEF Locked, TypeOK, Place
    <3>3. \A q \in Phase \ {t} : tokens'[q] = tokens[q] /\ (q \in late' <=> q \in late)
      BY <3>1, <3>2
    <3>4. ASSUME NEW g \in Guest
          PROVE  /\ at[t] = "start" /\ g \in nodes[t] => running'[g] = t
                 /\ at[t] = "last" /\ g \in nodes[t] => running'[g] = NoPhase
                 /\ at[t] \notin {"start", "last"} \/ g \notin nodes[t] => running'[g] = running[g]
      BY <3>1
    <3>5. /\ \A u \in Task \ {t} : at'[u] = at[u]
          /\ \/ at[t] = "start" /\ at'[t] = "body"
             \/ at[t] \in {"poll", "drain"} /\ at'[t] = "sleep"
             \/ at[t] \in {"last", "final"} /\ at'[t] = "over"
      <4>1. at'[t] = CASE at[t] = "start" -> "body"
                       [] at[t] \in {"poll", "drain"} -> "sleep"
                       [] at[t] \in {"last", "final"} -> "over"
        BY <2>2, <3>2 DEF DrainReturns
      <4> QED
        BY <1>1, <1>2, <4>1, GoesOn DEF Draining
    <3>6. at[t] # "last" => tokens' = tokens /\ late' = late
      BY <3>1
    <3> QED
      BY <1>1, <3>3, <3>4, <3>5, <3>6
  <2> QED
    BY <1>1, <1>2, <2>1, <2>2 DEF NextGuest
<1> QED
  BY <1>1, <1>2

\* Phases keep their guests.
LEMMA HoldingStep == Locked /\ Written /\ Holding /\ [Next]_vars => Holding'
<1> SUFFICES ASSUME Locked, Written, Holding, [Next]_vars PROVE Holding'
  OBVIOUS
<1>1. CASE UNCHANGED <<scene, at, running>>
  BY <1>1 DEF Holding, nodes
<1>2. CASE Grows
  BY <1>1, <1>2 DEF Grows, taskVars
<1>3. ASSUME NEW p \in Phase, Turns(p), Goes(p)
      PROVE  Holding'
  <2>1. Onward(p)
    BY <1>3, TurnsOnward
  <2>2. nodes' = nodes /\ running' = running /\ \A q \in Phase \ {p} : at'[q] = at[q]
    BY <1>3, <2>1, Tasks DEF Turns, Moves, guestVars, nodes, Onward
  <2>3. CASE at[p] = "idle" /\ at'[p] = "start" /\ \A q \in Phase : at[q] \in {"idle", "over"} \/ nodes[q] \cap nodes[p] = {}
    BY <2>2, <2>3 DEF Holding, Active
  <2>4. CASE at[p] \in Active /\ at'[p] \in Active
    BY <2>2, <2>4 DEF Holding, Active
  <2> QED
    BY <2>1, <2>3, <2>4 DEF Onward, Active
<1>4. ASSUME NEW t \in {Follow, Sequence}, Turns(t), Drains(t) PROVE Holding'
  <2>1. nodes' = nodes /\ running' = running /\ \A q \in Phase : at'[q] = at[q]
    BY <1>4, Tasks, DriveTurns DEF Turns, Moves, guestVars, nodes
  <2> QED
    BY <2>1 DEF Holding
<1>5. ASSUME NEW p \in Phase, PhaseStopped(p) PROVE Holding'
  <2>1. /\ nodes' = nodes /\ (\A q \in Phase \ {p} : at'[q] = at[q])
        /\ at'[p] = "stopped" /\ at[p] \notin {"idle", "over", "stopped"}
    BY <1>5, Tasks, PhaseHalts DEF Turns, Moves, guestVars, nodes
  <2>2. \A g \in Guest : running'[g] = running[g] \/ (at[p] = "body" /\ g \in nodes[p] /\ running'[g] = NoPhase)
    BY <1>5, PhaseHalts
  <2>3. \A q \in Phase : q # NoPhase
    BY NumAssumption DEF Phase, NoPhase
  <2>4. ASSUME NEW q \in Phase, NEW g \in Guest, at'[q] # "stopped"
        PROVE  running'[g] = q <=> g \in nodes[q] /\ at'[q] \in Active
    <3>1. q # p /\ at'[q] = at[q]
      BY <2>1, <2>4
    <3>2. running[g] = q <=> g \in nodes[q] /\ at[q] \in Active
      BY <2>4, <3>1 DEF Holding
    <3>3. CASE running'[g] = running[g]
      BY <3>1, <3>2, <3>3
    <3>4. CASE at[p] = "body" /\ g \in nodes[p] /\ running'[g] = NoPhase
      <4>1. at[q] \in Active => g \notin nodes[q]
        BY <3>1, <3>4 DEF Holding, Active
      <4> QED
        BY <2>3, <3>1, <3>4, <4>1
    <3> QED
      BY <2>2, <3>3, <3>4
  <2> QED
    BY <2>1, <2>2, <2>3, <2>4 DEF Holding
<1>6. ASSUME NEW t \in Task, Stat(t) \/ Read(t) \/ Close(t) PROVE Holding'
  <2>1. scene' = scene /\ nodes' = nodes
    BY <1>6, DrainMoves DEF nodes
  <2>2. CASE UNCHANGED <<at, running, tokens, late>>
    BY <1>1, <2>1, <2>2
  <2>3. CASE /\ \A u \in Task \ {t} : at'[u] = at[u]
             /\ \/ at[t] = "start" /\ at'[t] = "body"
                \/ at[t] \in {"poll", "drain"} /\ at'[t] = "sleep"
                \/ at[t] \in {"last", "final"} /\ at'[t] = "over"
             /\ \A g \in Guest :
                   /\ at[t] = "start" /\ g \in nodes[t] => running'[g] = t
                   /\ at[t] = "last" /\ g \in nodes[t] => running'[g] = NoPhase
                   /\ at[t] \notin {"start", "last"} \/ g \notin nodes[t] => running'[g] = running[g]
    <3>1. CASE t \in {Follow, Sequence}
      <4>1. \A q \in Phase : at'[q] = at[q]
        BY <2>3, <3>1, Tasks
      <4>2. \A g \in Guest : running'[g] = running[g]
        BY <2>3, <3>1, InPlace DEF OfFollow, OfSequence
      <4> QED
        BY <2>1, <4>1, <4>2 DEF Holding
    <3>2. CASE t \in Phase
      <4>1. \A q \in Phase \ {t} : at'[q] = at[q]
        BY <2>3, Tasks
      <4>2. at[t] \notin {"idle", "over"} /\ at'[t] # "idle"
        BY <2>3
      <4>3. ASSUME NEW p \in Phase, NEW q \in Phase, p # q,
                   at'[p] \notin {"idle", "over"}, at'[q] \notin {"idle", "over"}
            PROVE  nodes[p] \cap nodes[q] = {}
        BY <4>1, <4>2, <4>3 DEF Holding
      <4>4. ASSUME NEW p \in Phase, NEW g \in Guest, at'[p] # "stopped"
            PROVE  running'[g] = p <=> g \in nodes[p] /\ at'[p] \in Active
        <5>1. p # NoPhase
          BY NumAssumption DEF Phase, NoPhase
        <5>2. at[t] \in {"start", "poll", "last"}
          BY <2>3, <3>2, InPlace DEF OfPhase
        <5>3. at[p] # "stopped" /\ at[t] # "stopped"
          BY <4>1, <4>4, <5>2
        <5>4. CASE g \in nodes[t]
          <6>1. p # t => ~ (g \in nodes[p] /\ at[p] \in Active)
            BY <3>2, <4>2, <5>4 DEF Holding, Active
          <6>2. running[g] = t <=> at[t] \in Active
            BY <3>2, <5>4, <5>3 DEF Holding
          <6>3. CASE at[t] = "poll"
            <7>1. running'[g] = running[g] /\ at[t] \in Active /\ at'[t] \in Active
              BY <2>3, <6>3 DEF Active
            <7> QED
              BY <4>1, <5>4, <6>1, <6>2, <7>1
          <6>4. CASE at[t] = "start"
            <7>1. running'[g] = t /\ at'[t] \in Active
              BY <2>3, <5>4, <6>4 DEF Active
            <7> QED
              BY <4>1, <5>4, <6>1, <7>1
          <6>5. CASE at[t] = "last"
            <7>1. running'[g] = NoPhase /\ at'[t] \notin Active
              BY <2>3, <5>4, <6>5 DEF Active
            <7> QED
              BY <4>1, <5>1, <6>1, <7>1
          <6> QED
            BY <5>2, <6>3, <6>4, <6>5
        <5>5. CASE g \notin nodes[t]
          <6>1. running'[g] = running[g]
            BY <2>3, <5>5
          <6>2. running[g] = p <=> g \in nodes[p] /\ at[p] \in Active
            BY <5>3 DEF Holding
          <6> QED
            BY <4>1, <5>5, <6>1, <6>2
        <5> QED
          BY <5>4, <5>5
      <4>5. ASSUME NEW p \in Phase, NEW g \in Guest, running'[g] = p PROVE g \in nodes[p]
        <5>1. p # NoPhase
          BY NumAssumption DEF Phase, NoPhase
        <5>2. running'[g] = running[g] \/ (running'[g] = t /\ g \in nodes[t]) \/ running'[g] = NoPhase
          BY <2>3
        <5> QED
          BY <4>5, <5>1, <5>2 DEF Holding
      <4> QED
        BY <2>1, <4>3, <4>4, <4>5 DEF Holding
    <3> QED
      BY <3>1, <3>2, Tasks
  <2> QED
    BY <1>6, <2>2, <2>3, DrainMoves
<1>7. CASE UNCHANGED vars
  BY <1>1, <1>7 DEF vars, guestVars, taskVars
<1> QED
  BY <1>2, <1>3, <1>4, <1>6, <1>7, <1>5, Steps

\* A phase that is over stays over, and a stopped one stopped.
LEMMA OverForGood ==
    ASSUME Locked, Written, [Next]_vars, NEW p \in Phase, at[p] \in {"over", "stopped"}
    PROVE  at'[p] = at[p]
<1>1. p \in Task /\ p \notin {Follow, Sequence}
  BY Tasks
<1>2. CASE Grows \/ UNCHANGED vars
  BY <1>2 DEF Grows, vars, taskVars
<1>3. ASSUME NEW q \in Phase, Turns(q), Goes(q) \/ PhaseStopped(q)
      PROVE  at'[p] = at[p]
  <2>1. q # p
    BY <1>3, TurnsOnward DEF Onward, PhaseStopped
  <2> QED
    BY <1>1, <1>3, <2>1 DEF Turns, Moves
<1>4. ASSUME NEW t \in {Follow, Sequence}, Turns(t) PROVE at'[p] = at[p]
  BY <1>1, <1>4 DEF Turns, Moves
<1>5. ASSUME NEW t \in Task, Stat(t) \/ Read(t) \/ Close(t) PROVE at'[p] = at[p]
  <2>1. at[t] \notin {"over", "stopped"}
    BY <1>5 DEF Stat, Read, Close, Draining
  <2> QED
    BY <1>1, <1>5, <2>1, DrainMoves
<1> QED
  BY <1>2, <1>3, <1>4, <1>5, Steps

\* Who holds a guest while its phase is on holds it still.
LEMMA HoldsOn ==
    ASSUME Locked, Written, Holding, [Next]_vars, NEW p \in Phase, NEW g \in Guest,
           running[g] = p, at'[p] \notin {"over", "stopped"}
    PROVE  running'[g] = p
<1>1. g \in nodes[p] /\ at[p] \in Active
  <2>1. at[p] # "stopped"
    BY OverForGood
  <2> QED
    BY <2>1 DEF Holding
<1>2. CASE UNCHANGED running
  BY <1>2
<1>3. CASE \E t \in Task : Stat(t) \/ Read(t) \/ Close(t)
  <2>1. PICK t \in Task : Stat(t) \/ Read(t) \/ Close(t)
    BY <1>3
  <2>2. CASE at[t] = "start" /\ g \in nodes[t] /\ t \in Phase
    BY <1>1, <2>2 DEF Holding, Active
  <2>3. CASE at[t] = "last" /\ g \in nodes[t] /\ t \in Phase
    <3>1. t = p
      BY <1>1, <2>3 DEF Holding, Active
    <3>2. UNCHANGED running \/ at'[t] = "over"
      BY <2>1, <2>3, DrainMoves
    <3> QED
      BY <3>1, <3>2
  <2>4. CASE ~ (at[t] \in {"start", "last"} /\ g \in nodes[t] /\ t \in Phase)
    <3>1. at[t] \notin {"start", "last"} \/ g \notin nodes[t]
      BY <2>4, Tasks, InPlace DEF OfFollow, OfSequence
    <3> QED
      BY <2>1, <3>1, DrainMoves
  <2> QED
    BY <2>2, <2>3, <2>4
<1>4. CASE Grows \/ UNCHANGED vars
  BY <1>2, <1>4 DEF Grows, vars, taskVars
<1>5. ASSUME NEW q \in Phase, Turns(q), Goes(q) PROVE UNCHANGED running
  BY <1>5, TurnsOnward DEF Turns, Onward
<1>6. ASSUME NEW q \in Phase, PhaseStopped(q) PROVE running'[g] = p
  <2>1. q # p /\ (running'[g] = running[g] \/ (at[q] = "body" /\ g \in nodes[q]))
    BY <1>6, PhaseHalts
  <2>2. at[q] = "body" => g \notin nodes[q]
    BY <1>1, <2>1 DEF Holding, Active
  <2> QED
    BY <2>1, <2>2
<1>7. ASSUME NEW t \in {Follow, Sequence}, Drains(t) PROVE UNCHANGED running
  BY <1>7, Tasks, DriveTurns
<1> QED
  BY <1>2, <1>3, <1>4, <1>5, <1>6, <1>7, Steps, Tasks

\* The log of a guest at a step: as it was, or with one entry more.
LEMMA LogStep ==
    ASSUME Locked, Written, [Next]_vars, NEW g \in Guest
    PROVE  /\ \A k \in DOMAIN log[g] : k \in DOMAIN log'[g] /\ log'[g][k] = log[g][k]
           /\ DOMAIN log[g] \subseteq Nat
           /\ \A k \in DOMAIN log'[g] : k \notin DOMAIN log[g] =>
                 /\ UNCHANGED <<drainVars, taskVars>> /\ \A j \in DOMAIN log'[g] : j \notin DOMAIN log[g] => j = k
                 /\ \A j \in DOMAIN log[g] : j < k
                 /\ \/ ~ log'[g][k].token /\ log'[g][k].by = running[g]
                    \/ /\ log'[g][k].by \in Phase /\ log'[g][k] = TokenOf(log'[g][k].by)
                       /\ ~ Logged(g, log'[g][k].by)
<1>1. DOMAIN log[g] = 1..Len(log[g]) /\ Len(log[g]) \in Nat
  BY DEF Locked, TypeOK
<1>2. CASE log' = log
  BY <1>1, <1>2
<1>3. CASE Grows
  <2>1. /\ \A k \in DOMAIN log[g] : k \in DOMAIN log'[g] /\ log'[g][k] = log[g][k]
        /\ UNCHANGED <<drainVars, taskVars>>
        /\ DOMAIN log'[g] = 1..Len(log'[g])
    BY <1>3, LogGrows DEF Grows
  <2>2. CASE DOMAIN log'[g] = DOMAIN log[g]
    BY <1>1, <2>1, <2>2
  <2>3. CASE DOMAIN log'[g] # DOMAIN log[g]
    <3>1. PICK e \in [by : Phase \cup {NoPhase}, token : BOOLEAN] :
             /\ Len(log'[g]) = Len(log[g]) + 1 /\ log'[g][Len(log[g]) + 1] = e
             /\ \/ ~ e.token /\ e.by = running[g]
                \/ /\ e.by \in Phase /\ e = TokenOf(e.by)
                   /\ at[e.by] = "token" /\ g \in asking[e.by] /\ ~ Logged(g, e.by)
      BY <1>3, <2>3, LogGrows
    <3>2. \A k \in DOMAIN log'[g] : k \notin DOMAIN log[g] => k = Len(log[g]) + 1
      BY <1>1, <2>1, <3>1
    <3> QED
      BY <1>1, <2>1, <3>1, <3>2
  <2> QED
    BY <2>2, <2>3
<1>4. CASE UNCHANGED vars \/ \E t \in Task : Turns(t) \/ Stat(t) \/ Read(t) \/ Close(t)
  <2>1. log' = log
    BY <1>4, DrainMoves DEF vars, guestVars, Turns
  <2> QED
    BY <1>2, <2>1
<1> QED
  BY <1>3, <1>4, Steps, Tasks

\* A phase's entries are told as its own, at every step.
LEMMA HisOwnStep == Locked /\ Written /\ Holding /\ HisOwn /\ [Next]_vars => HisOwn'
<1> SUFFICES ASSUME Locked, Written, Holding, HisOwn, [Next]_vars PROVE HisOwn'
  OBVIOUS
<1>1. ASSUME NEW g \in Guest, NEW i \in DOMAIN events'[g] PROVE events'[g][i].lines \subseteq DOMAIN log'[g]
  <2>1. \A k \in DOMAIN log[g] : k \in DOMAIN log'[g]
    BY LogStep
  <2>2. CASE i \in DOMAIN events[g]
    BY <2>1, <2>2, EventsGrow DEF HisOwn
  <2>3. CASE i \notin DOMAIN events[g]
    <3>1. PICK t \in Task : /\ Close(t) /\ g = First(left[t])
                            /\ events'[g][i] = [lines |-> Told(t, g), phase |-> running[g]]
      BY <2>3, EventsGrow
    <3>2. Told(t, g) \subseteq DOMAIN log[g]
      BY <3>1, CloseStep DEF Told
    <3> QED
      BY <2>1, <3>1, <3>2
  <2> QED
    BY <2>2, <2>3
<1>2. ASSUME NEW g \in Guest, NEW p \in Phase, NEW k \in DOMAIN log'[g],
             ~ log'[g][k].token, log'[g][k].by = p, at'[p] \notin {"over", "stopped"}
      PROVE  /\ running'[g] = p
             /\ \A i \in DOMAIN events'[g] : k \in events'[g][i].lines => events'[g][i].phase = p
  <2>1. at[p] \notin {"over", "stopped"}
    BY <1>2, OverForGood
  <2>2. CASE k \in DOMAIN log[g]
    <3>1. ~ log[g][k].token /\ log[g][k].by = p
      BY <1>2, <2>2, LogStep
    <3>2. running[g] = p /\ \A i \in DOMAIN events[g] : k \in events[g][i].lines => events[g][i].phase = p
      BY <2>1, <2>2, <3>1 DEF HisOwn
    <3>3. running'[g] = p
      BY <1>2, <3>2, HoldsOn
    <3>4. ASSUME NEW i \in DOMAIN events'[g], k \in events'[g][i].lines PROVE events'[g][i].phase = p
      <4>1. CASE i \in DOMAIN events[g]
        BY <3>2, <3>4, <4>1, EventsGrow
      <4>2. CASE i \notin DOMAIN events[g]
        <5>1. PICK t \in Task : events'[g][i] = [lines |-> Told(t, g), phase |-> running[g]]
          BY <4>2, EventsGrow
        <5>2. events'[g][i].phase = running[g]
          BY <5>1
        <5> QED
          BY <3>2, <5>2
      <4> QED
        BY <4>1, <4>2
    <3> QED
      BY <3>3, <3>4
  <2>3. CASE k \notin DOMAIN log[g]
    <3>1. UNCHANGED <<events, running>> /\ log'[g][k].by = running[g]
      <4>1. TokenOf(p).token
        BY DEF TokenOf
      <4> QED
        BY <1>2, <2>3, <4>1, LogStep DEF drainVars, tailVars, taskVars
    <3>2. \A i \in DOMAIN events'[g] : k \notin events'[g][i].lines
      BY <2>3, <3>1 DEF HisOwn
    <3> QED
      BY <1>2, <3>1, <3>2
  <2> QED
    BY <2>2, <2>3
<1> QED
  BY <1>1, <1>2 DEF HisOwn

\* What a stream leaves out grows, and what was read across two stays so.
LEMMA StreamsGrow ==
    ASSUME Locked, Written, [Next]_vars, NEW g \in Guest
    PROVE  from[g] <= from'[g] /\ (g \in mixed => g \in mixed')
<1>1. from[g] \in Nat
  BY DEF Locked, TypeOK
<1>2. CASE UNCHANGED <<from, mixed>>
  BY <1>1, <1>2
<1>3. CASE Grows
  <2>1. InFile(g)
    BY DEF Written
  <2> QED
    BY <1>3, <2>1, FromGrows DEF Grows, drainVars, tailVars
<1>4. ASSUME NEW t \in Task, Turns(t) \/ Stat(t) \/ Read(t) PROVE UNCHANGED <<from, mixed>>
  BY <1>4, StatStep, ReadStep DEF Turns, guestVars, tailVars
<1>5. ASSUME NEW t \in Task, Close(t) PROVE from' = from /\ (g \in mixed => g \in mixed')
  <2>1. PICK h \in Guest : h = First(left[t])
    BY <1>5, Reader DEF Close
  <2>2. from' = from
    BY <1>5, CloseStep DEF guestVars
  <2> QED
    BY <1>5, <2>1, <2>2, CloseStreams
<1>6. CASE UNCHANGED vars
  BY <1>2, <1>6 DEF vars, guestVars, drainVars, tailVars
<1> QED
  BY <1>1, <1>2, <1>3, <1>4, <1>5, <1>6, Steps, Tasks

\* What was logged before a noted token was told, at every step.
LEMMA CompleteStep == Locked /\ Written /\ NothingLost /\ Complete /\ [Next]_vars => Complete'
<1> SUFFICES ASSUME Locked, Written, NothingLost, Complete, [Next]_vars PROVE Complete'
  OBVIOUS
<1>1. NothingLost' /\ Locked' /\ Written'
  BY NothingStep, WrittenStep
<1>2. ASSUME NEW g \in Guest, NEW p \in Phase, NEW t \in DOMAIN log'[g], NEW u \in DOMAIN log'[g],
             log'[g][t] = TokenOf(p), log'[g][u] = TokenOf(p)
      PROVE  t = u
  <2>1. CASE t \in DOMAIN log[g] /\ u \in DOMAIN log[g]
    BY <1>2, <2>1, LogStep DEF Complete
  <2>2. ASSUME NEW i \in DOMAIN log'[g], i \notin DOMAIN log[g], log'[g][i] = TokenOf(p)
        PROVE  \A j \in DOMAIN log[g] : log'[g][j] # TokenOf(p)
    <3>1. TokenOf(p).token /\ TokenOf(p).by = p
      BY DEF TokenOf
    <3>2. ~ Logged(g, p)
      BY <2>2, <3>1, LogStep
    <3> QED
      BY <3>2, LogStep DEF Logged
  <2>3. CASE t \notin DOMAIN log[g] /\ u \notin DOMAIN log[g]
    BY <2>3, LogStep
  <2> QED
    BY <1>2, <2>1, <2>2, <2>3
<1>3. ASSUME NEW g \in Guest, NEW p \in Phase, <<g, p>> \in settled'
      PROVE  \E t \in DOMAIN log'[g] :
                /\ log'[g][t] = TokenOf(p)
                /\ g \notin mixed' => \A k \in DOMAIN log'[g] :
                      from'[g] < k /\ k < t /\ ~ log'[g][k].token => Count(events'[g], k) > 0
  <2>1. CASE <<g, p>> \in settled
    <3>1. PICK t \in DOMAIN log[g] :
             /\ log[g][t] = TokenOf(p)
             /\ g \notin mixed => \A k \in DOMAIN log[g] :
                   from[g] < k /\ k < t /\ ~ log[g][k].token => Count(events[g], k) > 0
      BY <2>1 DEF Complete
    <3>2. t \in DOMAIN log'[g] /\ log'[g][t] = TokenOf(p)
      BY <3>1, LogStep
    <3>3. ASSUME g \notin mixed', NEW k \in DOMAIN log'[g], from'[g] < k, k < t, ~ log'[g][k].token
          PROVE  Count(events'[g], k) > 0
      <4>1. DOMAIN log[g] \subseteq Nat /\ DOMAIN log'[g] \subseteq Nat
        <5> DEFINE Entry == [by : Phase \cup {NoPhase}, token : BOOLEAN]
        <5>1. log[g] \in Seq(Entry) /\ log'[g] \in Seq(Entry)
          BY <1>1 DEF Locked, TypeOK
        <5> HIDE DEF Entry
        <5> QED
          BY <5>1
      <4>2. k \in DOMAIN log[g]
        <5>1. ASSUME k \notin DOMAIN log[g] PROVE t < k
          BY <3>1, <5>1, LogStep
        <5> QED
          BY <3>3, <4>1, <5>1
      <4>3. Count(events[g], k) > 0
        <5>1. from[g] \in Nat /\ from'[g] \in Nat
          BY <1>1 DEF Locked, TypeOK
        <5>2. g \notin mixed /\ from[g] < k
          BY <3>3, <4>1, <5>1, StreamsGrow
        <5> QED
          BY <3>1, <3>3, <4>2, <5>2, LogStep
      <4>4. Count(events[g], k) \in Nat /\ Count(events'[g], k) \in Nat /\ Count(events'[g], k) >= Count(events[g], k)
        BY <4>1, EventsGrow
      <4> QED
        BY <4>3, <4>4
    <3> QED
      BY <3>2, <3>3
  <2>2. CASE <<g, p>> \notin settled
    <3>1. PICK r \in Task : Close(r)
      <4>1. settled' # settled
        BY <1>3, <2>2
      <4> QED
        BY <4>1, Steps, StatStep, ReadStep, Tasks DEF Grows, Turns, drainVars, tailVars, vars
    <3>2. PICK h \in Guest : h = First(left[r])
      BY <3>1, Reader DEF Close
    <3>3. /\ settled' = settled \cup Noted(r, h) /\ log' = log
          /\ Whole(h, data[r]) \subseteq DOMAIN log[h]
          /\ \A k \in Whole(h, data[r]) : k <= Through(h)'
      BY <3>1, <3>2, CloseStep, CloseLines DEF guestVars
    <3>4. PICK t \in Whole(h, data[r]) : log[h][t].token /\ <<g, p>> = <<h, log[h][t].by>>
      BY <1>3, <2>2, <3>3 DEF Noted
    <3>5. g = h /\ log[g][t].by = p /\ log[g][t].token /\ t \in DOMAIN log[g]
      BY <3>3, <3>4
    <3>6. log[g][t] = TokenOf(p)
      <4>1. log[g][t] \in [by : Phase \cup {NoPhase}, token : BOOLEAN]
        <5> DEFINE Entry == [by : Phase \cup {NoPhase}, token : BOOLEAN]
        <5>1. log[g] \in Seq(Entry)
          BY DEF Locked, TypeOK
        <5> HIDE DEF Entry
        <5>2. log[g][t] \in Entry
          BY <3>5, <5>1
        <5> QED
          BY <5>2 DEF Entry
      <4> QED
        BY <3>5, <4>1 DEF TokenOf
    <3>7. ASSUME g \notin mixed', NEW k \in DOMAIN log[g], from'[g] < k, k < t, ~ log[g][k].token
          PROVE  Count(events'[g], k) > 0
      <4>1. /\ DOMAIN log[g] = 1..Len(log[g]) /\ stream'[g] \in Nat /\ from'[g] \in Nat
            /\ offset'[g] \in Nat /\ stream'[g] <= from'[g]
        BY <1>1 DEF Locked, TypeOK, Written, InFile
      <4>2. Through(g)' \in Nat
        <5>1. offset'[g] \div 2 \in Nat
          BY <4>1
        <5> QED
          BY <4>1, <5>1 DEF Through
      <4>3. t <= Through(g)' /\ t \in Nat
        BY <3>3, <3>4, <3>5, <4>1
      <4>4. k \in stream'[g] + 1..Through(g)'
        BY <3>7, <4>1, <4>2, <4>3
      <4> QED
        BY <1>1, <3>3, <3>7, <4>4 DEF NothingLost, Times, Count, Through
    <3> QED
      BY <3>3, <3>5, <3>6, <3>7
  <2> QED
    BY <2>1, <2>2
<1> QED
  BY <1>2, <1>3 DEF Complete

\* The last drain waited, at every step.
LEMMA WaitedStep == Locked /\ Written /\ Waited /\ [Next]_vars => Waited'
<1> SUFFICES ASSUME Locked, Written, Waited, [Next]_vars PROVE Waited'
  OBVIOUS
<1>1. settled \subseteq settled'
  BY Steps, StatStep, ReadStep, CloseStep, Tasks DEF Grows, Turns, drainVars, tailVars, vars
<1>2. CASE UNCHANGED <<tokens, late>> /\ \A p \in Phase : at'[p] = at[p]
  BY <1>1, <1>2 DEF Waited, Arrived
<1>3. CASE Grows \/ UNCHANGED vars
  BY <1>2, <1>3 DEF Grows, vars, taskVars
<1>4. ASSUME NEW t \in {Follow, Sequence}, Turns(t), Drains(t) PROVE Waited'
  <2>1. UNCHANGED <<tokens, late>> /\ \A p \in Phase : at'[p] = at[p]
    BY <1>4, Tasks, DriveTurns DEF Turns, Moves
  <2> QED
    BY <1>2, <2>1
<1>5. ASSUME NEW p \in Phase, Turns(p), Goes(p)
      PROVE  Waited'
  <2>1. Onward(p) /\ \A q \in Phase \ {p} : at'[q] = at[q]
    BY <1>5, TurnsOnward, Tasks DEF Turns, Moves
  <2>2. ASSUME NEW q \in Phase, at'[q] \in {"idle", "start", "body"} PROVE tokens'[q] = {}
    BY <2>1, <2>2 DEF Onward, Waited
  <2>3. ASSUME NEW q \in Phase, at'[q] = "last", q \notin late' PROVE \A g \in tokens'[q] : <<g, q>> \in settled'
    <3>1. CASE q = p
      BY <1>1, <2>1, <2>3, <3>1 DEF Onward, Waited, Arrived
    <3>2. CASE q # p
      BY <1>1, <2>1, <2>3, <3>2 DEF Onward, Waited, Arrived
    <3> QED
      BY <3>1, <3>2
  <2> QED
    BY <2>2, <2>3 DEF Waited, Arrived
<1>6. ASSUME NEW t \in Task, Stat(t) \/ Read(t) \/ Close(t) PROVE Waited'
  <2>1. CASE UNCHANGED <<at, tokens, late>>
    BY <1>2, <2>1
  <2>2. CASE ~ UNCHANGED <<at, tokens, late>>
    <3>1. /\ \A u \in Task \ {t} : at'[u] = at[u]
          /\ \/ at[t] = "start" /\ at'[t] = "body"
             \/ at[t] \in {"poll", "drain"} /\ at'[t] = "sleep"
             \/ at[t] \in {"last", "final"} /\ at'[t] = "over"
          /\ at[t] # "last" => tokens' = tokens /\ late' = late
          /\ \A q \in Phase \ {t} : tokens'[q] = tokens[q] /\ (q \in late' <=> q \in late)
      BY <1>6, <2>2, DrainMoves
    <3>2. ASSUME NEW q \in Phase
          PROVE  /\ at'[q] \in {"idle", "start", "body"} => tokens'[q] = {}
                 /\ at'[q] = "last" /\ q \notin late' => \A g \in tokens'[q] : <<g, q>> \in settled'
      <4>1. q # t => at'[q] = at[q] /\ tokens'[q] = tokens[q] /\ (q \in late' <=> q \in late)
        BY <3>1, Tasks
      <4>2. q = t => at'[q] # "last" /\ (at'[q] = "body" => at[q] = "start" /\ tokens' = tokens)
                     /\ at'[q] \notin {"idle", "start"}
        BY <3>1
      <4> QED
        BY <1>1, <4>1, <4>2 DEF Waited, Arrived
    <3> QED
      BY <3>2 DEF Waited, Arrived
  <2> QED
    BY <2>1, <2>2
<1>7. ASSUME NEW p \in Phase, Turns(p), PhaseStopped(p) PROVE Waited'
  <2>1. /\ UNCHANGED <<tokens, late>> /\ at'[p] = "stopped" /\ \A q \in Phase \ {p} : at'[q] = at[q]
    BY <1>7, PhaseHalts, Tasks DEF Turns, Moves
  <2> QED
    BY <1>1, <2>1 DEF Waited, Arrived
<1> QED
  BY <1>3, <1>4, <1>5, <1>6, <1>7, Steps

-----------------------------------------------------------------------------
(* The theorems.                                                           *)

JournalInv == Locked /\ Written /\ Once /\ NothingLost /\ Final /\ Holding /\ HisOwn /\ Complete /\ Waited

\* The entries logged before the stream starts.
LEMMA EarlyLog ==
    ASSUME Init, NEW g \in Guest
    PROVE  /\ log[g] \in Seq([by : Phase \cup {NoPhase}, token : BOOLEAN])
           /\ Len(log[g]) = scene.early[g] /\ scene.early[g] \in Nat
           /\ \A k \in DOMAIN log[g] : log[g][k] = [by |-> NoPhase, token |-> FALSE]
<1> DEFINE Entry == [by : Phase \cup {NoPhase}, token : BOOLEAN]
           entry == [by |-> NoPhase, token |-> FALSE]
<1>1. scene.early[g] \in Nat
  BY ScenesAssumption DEF Init, Scene
<1>2. log[g] = [i \in 1..scene.early[g] |-> entry]
  BY DEF Init
<1>3. entry \in Entry
  OBVIOUS
<1> HIDE DEF Entry, entry
<1>4. PICK n \in Nat : n = scene.early[g]
  BY <1>1
<1>5. log[g] = [i \in 1..n |-> entry]
  BY <1>2, <1>4
<1>6. log[g] \in Seq(Entry) /\ Len(log[g]) = n
  BY <1>3, <1>5
<1>7. \A k \in DOMAIN log[g] : log[g][k] = entry
  BY <1>5
<1> QED
  BY <1>4, <1>6, <1>7 DEF Entry, entry

\* A run begins with nothing read and nothing told.
LEMMA JournalInit == Init => JournalInv
<1> SUFFICES ASSUME Init PROVE JournalInv
  OBVIOUS
<1> DEFINE Entry == [by : Phase \cup {NoPhase}, token : BOOLEAN]
<1>1. log \in [Guest -> Seq(Entry)] /\ \A g \in Guest : \A k \in DOMAIN log[g] : log[g][k] = [by |-> NoPhase, token |-> FALSE]
  <2>1. log = [g \in Guest |-> log[g]]
    BY DEF Init
  <2>2. \A g \in Guest : log[g] \in Seq(Entry)
    BY EarlyLog
  <2> HIDE DEF Entry
  <2>3. log \in [Guest -> Seq(Entry)]
    BY <2>1, <2>2
  <2> QED
    BY <2>3, EarlyLog
<1>2. \A g \in Guest : /\ from[g] = Skipped(Len(log[g])) /\ Len(log[g]) \in Nat
                       /\ Skipped(Len(log[g])) \in Nat /\ Skipped(Len(log[g])) <= Len(log[g])
  <2> SUFFICES ASSUME NEW g \in Guest
               PROVE  /\ from[g] = Skipped(Len(log[g])) /\ Len(log[g]) \in Nat
                      /\ Skipped(Len(log[g])) \in Nat /\ Skipped(Len(log[g])) <= Len(log[g])
    OBVIOUS
  <2>1. Len(log[g]) = scene.early[g] /\ scene.early[g] \in Nat
    BY EarlyLog
  <2>2. from[g] = Skipped(scene.early[g])
    BY DEF Init
  <2> QED
    BY <2>1, <2>2, SkippedIn
<1>3. from \in [Guest -> Nat] /\ stream = from /\ mixed = {}
  <2>1. from = [g \in Guest |-> from[g]]
    BY DEF Init
  <2> QED
    BY <1>2, <2>1 DEF Init
<1>4. TypeOK
  <2>1. queue \in Seq(Task) /\ events \in [Guest -> Seq([lines : SUBSET Nat, phase : Phase \cup {NoPhase}])]
    BY Tasks DEF Init
  <2>2. at \in [Task -> {"idle", "body", "over", "stopped"} \cup Draining \cup Settling]
    BY DEF Init, Draining
  <2>3. data \in [Task -> Nat \X Nat \X Nat] /\ size \in [Task -> Nat] /\ step \in [Task -> {"stat", "read", "close"}]
        /\ left \in [Task -> SUBSET Guest]
    BY DEF Init
  <2>4. /\ scene \in Scenes
        /\ file \in [Guest -> Nat] /\ offset \in [Guest -> Nat] /\ restarts \in [Guest -> Nat]
        /\ alive \in [Guest -> BOOLEAN] /\ down \in BOOLEAN /\ cancelled \in BOOLEAN
        /\ running \in [Guest -> Phase \cup {NoPhase}] /\ settled \subseteq Guest \X Phase
        /\ asking \in [Phase -> SUBSET Guest] /\ tokens \in [Phase -> SUBSET Guest] /\ late \subseteq Phase
    BY DEF Init
  <2>5. stream \in [Guest -> Nat] /\ mixed \subseteq Guest
    BY <1>3
  <2> QED
    BY <1>1, <1>3, <2>1, <2>2, <2>3, <2>4, <2>5 DEF TypeOK
<1>5. Locked
  <2>1. at[Follow] = "drain" /\ at[Sequence] = "idle" /\ \A p \in Phase : at[p] = "idle"
    BY Tasks DEF Init
  <2>2. \A t \in Task : left[t] = Guest /\ step[t] = "stat"
    BY DEF Init
  <2>3. \A t \in Task : at[t] \in Places(t)
    BY <2>1, Tasks DEF Places, OfFollow, OfPhase, OfSequence
  <2> QED
    BY <1>4, <2>1, <2>2, <2>3, SomeGuest DEF Locked
<1>6. \A g \in Guest : /\ offset[g] = 0 /\ file[g] = 0 /\ restarts[g] = 0 /\ events[g] = <<>> /\ running[g] = NoPhase
                       /\ alive[g]
  BY DEF Init
<1>7. /\ \A t \in Task : step[t] = "stat"
      /\ \A p \in Phase : at[p] = "idle" /\ tokens[p] = {} /\ p # NoPhase
      /\ at[Follow] = "drain" /\ at[Sequence] = "idle" /\ settled = {} /\ ~ down
  BY Tasks, NumAssumption DEF Init, Phase, NoPhase
<1>8. Written
  <2>1. ASSUME NEW g \in Guest PROVE InFile(g)
    BY <1>2, <1>3, <1>6 DEF InFile
  <2> QED
    BY <1>1, <1>7, <2>1 DEF Written
<1>9. Once
  <2>1. ASSUME NEW g \in Guest, NEW k \in Nat PROVE Count(events[g], k) = 0
    <3>1. {i \in DOMAIN events[g] : k \in events[g][i].lines} = {}
      BY <1>6
    <3> QED
      BY <3>1, FS_EmptySet DEF Count
  <2>2. ASSUME NEW g \in Guest PROVE Rounds(g, 0) /\ 0 \in 0..restarts[g]
    BY <1>6, <1>7, <2>1, <2>2 DEF Rounds
  <2> QED
    BY <2>2 DEF Once
<1>10. NothingLost
  <2>1. ASSUME NEW g \in Guest PROVE stream[g] + 1..stream[g] + (offset[g] \div 2) = {}
    <3>1. stream[g] \in Nat /\ offset[g] = 0
      BY <1>4, <1>6 DEF TypeOK
    <3> QED
      BY <3>1
  <2> QED
    BY <2>1 DEF NothingLost
<1>11. Final
  BY <1>7 DEF Final, Ends
<1>12. Holding
  BY <1>6, <1>7 DEF Holding, Active
<1>13. HisOwn
  BY <1>1, <1>6, <1>7 DEF HisOwn
<1>14. Complete
  BY <1>1, <1>7 DEF Complete, TokenOf
<1>15. Waited
  BY <1>7 DEF Waited
<1> QED
  BY <1>5, <1>8, <1>9, <1>10, <1>11, <1>12, <1>13, <1>14, <1>15 DEF JournalInv

\* And every step keeps the invariant.
LEMMA JournalStep == JournalInv /\ [Next]_vars => JournalInv'
BY WrittenStep, OnceStep, NothingStep, FinalStep, HoldingStep, HisOwnStep, CompleteStep, WaitedStep DEF JournalInv

\* It holds in every run.
LEMMA JournalHolds == Spec => []JournalInv
<1> QED
  BY JournalInit, JournalStep, PTL DEF Spec

\* The lock, the places and the types: only the owner of the lock is in the
\* middle of a read, for any guests and phases.
THEOREM OneReader == Spec => []Locked
<1>1. JournalInv => Locked
  BY DEF JournalInv
<1> QED
  BY <1>1, JournalHolds, PTL

\* However drains, timeouts, cancels and guests interleave, an entry is told
\* at most once for each time the guest's stream started.
THEOREM ToldOnceARound == Spec => []EachOnce
<1>1. ASSUME JournalInv PROVE EachOnce
  <2>1. TypeOK /\ Once
    BY <1>1 DEF JournalInv, Locked
  <2>2. ASSUME NEW g \in Guest, NEW k \in DOMAIN log[g] PROVE Times(g, k) <= 1 + restarts[g]
    <3>1. PICK r \in 0..restarts[g] : Rounds(g, r)
      BY <2>1 DEF Once
    <3>2. k \in Nat /\ restarts[g] \in Nat /\ Times(g, k) = Count(events[g], k)
      BY <2>1 DEF TypeOK, Times, Count
    <3>3. Count(events[g], k) \in Nat
      BY <2>1, <3>2, Counted
    <3>4. Count(events[g], k) <= r + (IF k <= Through(g) THEN 1 ELSE 0)
      BY <3>1, <3>2 DEF Rounds
    <3> QED
      BY <3>2, <3>3, <3>4
  <2> QED
    BY <2>2 DEF EachOnce
<1> QED
  BY <1>1, JournalHolds, PTL

\* And none that the stream carries is passed over: a whole line of it before
\* the offset was told, or was a token and was noted, for any Backlog and any
\* restarts that drain has seen.
THEOREM NonePassedOver == Spec => []NothingLost
<1>1. JournalInv => NothingLost
  BY DEF JournalInv
<1> QED
  BY <1>1, JournalHolds, PTL

\* When follow has ended, and the drive was not cut short, the files hold
\* nothing that was not read: the dead guests' last words are in the events.
THEOREM LastWordsAreTold == Spec => []LastWords
<1>1. JournalInv => LastWords
  BY DEF JournalInv, Final, LastWords
<1> QED
  BY <1>1, JournalHolds, PTL

\* A phase that ends within its two seconds has every entry from before its
\* tokens that the stream carries told, and its own as its own.
THEOREM SettledPhasesAreComplete == Spec => SettledIsComplete
<1> DEFINE Settled == \A p \in Phase : at[p] = "last" /\ at'[p] = "over" /\ p \notin late =>
              \A g \in tokens[p] \ mixed : \A k, t \in DOMAIN log[g] :
                 from[g] < k /\ k < t /\ ~ log[g][k].token /\ log[g][t] = TokenOf(p) =>
                    \E i \in DOMAIN events'[g] :
                       /\ k \in events'[g][i].lines
                       /\ log[g][k].by = p => events'[g][i].phase = p
<1>1. ASSUME JournalInv, [Next]_vars PROVE Settled
  <2> SUFFICES ASSUME NEW p \in Phase, at[p] = "last", p \notin late,
                      NEW g \in tokens[p] \ mixed, NEW k \in DOMAIN log[g], NEW t \in DOMAIN log[g],
                      from[g] < k, k < t, ~ log[g][k].token, log[g][t] = TokenOf(p)
               PROVE  \E i \in DOMAIN events'[g] :
                         /\ k \in events'[g][i].lines
                         /\ log[g][k].by = p => events'[g][i].phase = p
    OBVIOUS
  <2>1. Locked /\ Written /\ HisOwn /\ Complete /\ Waited /\ TypeOK
    BY <1>1 DEF JournalInv, Locked
  <2>2. g \in Guest /\ k \in Nat
    BY <2>1 DEF TypeOK
  <2>3. <<g, p>> \in settled
    BY <2>1 DEF Waited, Arrived
  <2>4. PICK u \in DOMAIN log[g] :
           /\ log[g][u] = TokenOf(p)
           /\ g \notin mixed => \A j \in DOMAIN log[g] :
                 from[g] < j /\ j < u /\ ~ log[g][j].token => Count(events[g], j) > 0
    BY <2>1, <2>2, <2>3 DEF Complete
  <2>5. u = t
    BY <2>1, <2>2, <2>4 DEF Complete
  <2>6. Count(events[g], k) > 0
    BY <2>4, <2>5
  <2>7. PICK i \in DOMAIN events[g] : k \in events[g][i].lines
    <3>1. Len(events[g]) \in Nat /\ DOMAIN events[g] = 1..Len(events[g])
      BY <2>1, <2>2 DEF TypeOK
    <3> QED
      BY <2>6, <3>1, CountType
  <2>8. log[g][k].by = p => events[g][i].phase = p
    BY <2>1, <2>2, <2>7 DEF HisOwn
  <2>9. i \in DOMAIN events'[g] /\ events'[g][i] = events[g][i]
    BY <1>1, <2>1, <2>2, EventsGrow
  <2> QED
    BY <2>7, <2>8, <2>9
<1>2. JournalInv /\ [Next]_vars => [Settled]_vars
  BY <1>1
<1> QED
  BY <1>2, JournalHolds, PTL DEF Spec, SettledIsComplete
=============================================================================
