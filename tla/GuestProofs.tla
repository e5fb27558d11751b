---------------------------- MODULE GuestProofs ----------------------------
(***************************************************************************)
(* Every caller of a guest gets the answer to its own question, for any    *)
(* number of callers and calls, whatever dies and whenever the machine is  *)
(* shut down; and when a shutdown has returned nothing of the guest that   *)
(* was within its reach is left.                                           *)
(***************************************************************************)
EXTENDS Guest, TLAPS

\* What any step of the machine does to the channel.
RpcStep ==
    \/ \E c \in Client, peer \in BOOLEAN : Call(c, peer)
    \/ Receive
    \/ \E c \in Client : Timeout(c)
    \/ \E how \in {"none", "closed"} : CloseTo(how)
    \/ Serve
    \/ \E how \in {"value", "raised"} : Answer(how)
    \/ conn' = "open" /\ UNCHANGED <<seq, pending, call, requests, serving, replies>>

\* The channel begins with nobody waiting and nothing under way.
LEMMA RpcInvInit == RpcInit => RpcInv
<1> SUFFICES ASSUME RpcInit PROVE RpcInv
  OBVIOUS
<1>1. RpcTypeOK
  BY DEF RpcInit, RpcTypeOK, Calls, CallState, Client, Nothing
<1>2. \A c \in Client : ~Waiting(c) /\ call[c].st # "reply"
  BY DEF RpcInit, Waiting
<1> QED
  BY <1>1, <1>2 DEF RpcInv, RpcInit, AnswersItsOwn, Addressed

\* A call takes a number that no message and no other caller has.
LEMMA CallKeeps ==
    ASSUME NEW c \in Client, NEW peer \in BOOLEAN, RpcInv, Call(c, peer)
    PROVE  RpcInv'
<1>1. seq \in Nat /\ seq' = seq + 1 /\ seq' \in Nat
  BY DEF Call, RpcInv, RpcTypeOK
<1>2. PICK st \in {"waiting", "oserror"} : call' = NewCall(c, st)
  BY DEF Call
<1>3. call \in [Client -> Calls]
  BY DEF RpcInv, RpcTypeOK
<1>4. call'[c] = [st |-> st, seq |-> seq, got |-> Nothing]
      /\ \A b \in Client \ {c} : call'[b] = call[b]
  BY <1>2, <1>3 DEF NewCall
<1>5. call' \in [Client -> Calls]
  <2>1. [st |-> st, seq |-> seq, got |-> Nothing] \in Calls
    BY <1>1 DEF Calls, CallState
  <2> QED
    BY <2>1, <1>2, <1>3 DEF NewCall
<1>6. requests' = requests \/ requests' = Append(requests, [seq |-> seq, by |-> c])
  BY DEF Call
<1>7. [seq |-> seq, by |-> c] \in Request /\ requests \in Seq(Request)
      /\ replies \in Seq(Reply) /\ serving \in Request \cup {Nothing}
  BY <1>1 DEF Request, RpcInv, RpcTypeOK
<1>8. UNCHANGED <<conn, serving, replies>> /\ pending' = pending \cup {seq}
  BY DEF Call
<1>9. RpcTypeOK'
  <2>1. requests' \in Seq(Request)
    BY <1>6, <1>7
  <2> QED
    BY <2>1, <1>1, <1>5, <1>8 DEF RpcInv, RpcTypeOK
<1>10. ASSUME NEW m, m.seq \in Nat, m.seq < seq,
              \A b \in Client : call[b].st = "waiting" /\ call[b].seq = m.seq => m.by = b
       PROVE  m.seq < seq' /\ \A b \in Client :
                 call'[b].st = "waiting" /\ call'[b].seq = m.seq => m.by = b
  <2>1. m.seq < seq' /\ m.seq # seq
    BY <1>1, <1>10
  <2> QED
    BY <2>1, <1>4, <1>10
<1>11. ASSUME NEW i \in 1..Len(requests') PROVE Addressed(requests[i])'
  <2>1. CASE i \in 1..Len(requests) /\ requests'[i] = requests[i]
    <3>1. requests[i].seq \in Nat /\ Addressed(requests[i])
      <4>1. requests[i] \in Request
        BY <2>1, <1>7
      <4>2. Addressed(requests[i])
        BY <2>1 DEF RpcInv
      <4> QED
        BY <4>1, <4>2 DEF Request
    <3>2. /\ requests[i].seq < seq'
          /\ \A b \in Client : call'[b].st = "waiting" /\ call'[b].seq = requests[i].seq
                                 => requests[i].by = b
      BY <3>1, <1>10 DEF Addressed, Waiting
    <3> QED
      BY <3>2, <2>1 DEF Addressed, Waiting
  <2>2. CASE requests'[i] = [seq |-> seq, by |-> c]
    <3>1. \A b \in Client \ {c} : call[b].st = "waiting" => call[b].seq < seq /\ call[b].seq \in Nat
      BY <1>3 DEF RpcInv, Waiting, Calls
    <3>2. \A b \in Client : call'[b].st = "waiting" /\ call'[b].seq = seq => c = b
      BY <3>1, <1>1, <1>4
    <3> QED
      BY <3>2, <2>2, <1>1 DEF Addressed, Waiting
  <2>3. CASE requests' = requests
    BY <2>3, <2>1
  <2>4. CASE requests' = Append(requests, [seq |-> seq, by |-> c])
    <3>1. Len(requests') = Len(requests) + 1 /\ Len(requests) \in Nat
          /\ requests'[Len(requests) + 1] = [seq |-> seq, by |-> c]
          /\ \A k \in 1..Len(requests) : requests'[k] = requests[k]
      BY <2>4, <1>7
    <3>2. i \in 1..Len(requests) \/ i = Len(requests) + 1
      BY <3>1
    <3> QED
      BY <3>1, <3>2, <2>1, <2>2
  <2> QED
    BY <2>3, <2>4, <1>6
<1>12. ASSUME NEW i \in 1..Len(replies') PROVE Addressed(replies[i])'
  <2>1. replies[i].seq \in Nat /\ Addressed(replies[i])
    <3>1. replies[i] \in Reply
      BY <1>7, <1>8
    <3>2. Addressed(replies[i])
      BY <1>8 DEF RpcInv
    <3> QED
      BY <3>1, <3>2 DEF Reply
  <2> QED
    BY <2>1, <1>8, <1>10 DEF Addressed, Waiting
<1>13. (serving # Nothing => Addressed(serving))'
  <2> SUFFICES ASSUME serving # Nothing PROVE Addressed(serving)'
    BY <1>8
  <2>1. serving.seq \in Nat /\ Addressed(serving)
    BY <1>7 DEF RpcInv, Request
  <2> QED
    BY <2>1, <1>8, <1>10 DEF Addressed, Waiting
<1>14. (\A b \in Client : Waiting(b) => call[b].seq < seq)'
  <2>1. \A b \in Client : call[b].st = "waiting" => call[b].seq < seq /\ call[b].seq \in Nat
    BY <1>3 DEF RpcInv, Waiting, Calls
  <2> QED
    BY <2>1, <1>1, <1>4 DEF Waiting
<1>15. (\A a, b \in Client : Waiting(a) /\ Waiting(b) /\ call[a].seq = call[b].seq => a = b)'
  <2>1. \A b \in Client : call[b].st = "waiting" => call[b].seq < seq /\ call[b].seq \in Nat
    BY <1>3 DEF RpcInv, Waiting, Calls
  <2>2. \A a, b \in Client : call[a].st = "waiting" /\ call[b].st = "waiting"
                                /\ call[a].seq = call[b].seq => a = b
    BY DEF RpcInv, Waiting
  <2> QED
    BY <2>1, <2>2, <1>1, <1>4 DEF Waiting
<1>16. AnswersItsOwn'
  BY <1>2, <1>4 DEF AnswersItsOwn, RpcInv
<1> QED
  BY <1>9, <1>11, <1>12, <1>13, <1>14, <1>15, <1>16 DEF RpcInv

\* Whoever waits after a step that starts no call waited before it, for the
\* same number.
StillWaits ==
    \A c \in Client :
       /\ Waiting(c)' => Waiting(c) /\ call'[c].seq = call[c].seq
       /\ call'[c].st = "reply" =>
             call'[c].got.by = c /\ call'[c].got.seq = call'[c].seq

\* Such a step, with no message that was not there, keeps the invariant.
LEMMA NoNewMessage ==
    ASSUME RpcInv, RpcTypeOK', seq' = seq, StillWaits,
           \A i \in 1..Len(requests') : \E j \in 1..Len(requests) : requests'[i] = requests[j],
           \/ serving' = Nothing
           \/ serving' = serving
           \/ \E j \in 1..Len(requests) : serving' = requests[j],
           \A i \in 1..Len(replies') :
              \/ \E j \in 1..Len(replies) : replies'[i] = replies[j]
              \/ /\ serving # Nothing
                 /\ replies'[i].seq = serving.seq /\ replies'[i].by = serving.by
    PROVE  RpcInv'
<1>1. \A c \in Client : call'[c].st = "waiting" =>
         call[c].st = "waiting" /\ call'[c].seq = call[c].seq
  BY DEF StillWaits, Waiting
<1>2. ASSUME NEW m, NEW n, Addressed(m), n.seq = m.seq, n.by = m.by
      PROVE  n.seq < seq' /\ \A c \in Client :
                call'[c].st = "waiting" /\ call'[c].seq = n.seq => n.by = c
  BY <1>1, <1>2 DEF Addressed, Waiting
<1>3. ASSUME NEW i \in 1..Len(requests') PROVE Addressed(requests[i])'
  <2>1. PICK j \in 1..Len(requests) : requests'[i] = requests[j]
    BY <1>3
  <2>2. Addressed(requests[j])
    BY DEF RpcInv
  <2>3. /\ requests[j].seq < seq'
        /\ \A c \in Client : call'[c].st = "waiting" /\ call'[c].seq = requests[j].seq
                               => requests[j].by = c
    BY <2>2, <1>2
  <2> QED
    BY <2>1, <2>3 DEF Addressed, Waiting
<1>4. (serving # Nothing => Addressed(serving))'
  <2> SUFFICES ASSUME serving' # Nothing PROVE Addressed(serving)'
    OBVIOUS
  <2>1. CASE serving' = serving
    <3>1. Addressed(serving)
      BY <2>1 DEF RpcInv
    <3> QED
      BY <3>1, <2>1, <1>2 DEF Addressed, Waiting
  <2>2. CASE \E j \in 1..Len(requests) : serving' = requests[j]
    <3>1. PICK j \in 1..Len(requests) : serving' = requests[j]
      BY <2>2
    <3>2. Addressed(requests[j])
      BY DEF RpcInv
    <3> QED
      BY <3>1, <3>2, <1>2 DEF Addressed, Waiting
  <2> QED
    BY <2>1, <2>2
<1>5. ASSUME NEW i \in 1..Len(replies') PROVE Addressed(replies[i])'
  <2>1. CASE \E j \in 1..Len(replies) : replies'[i] = replies[j]
    <3>1. PICK j \in 1..Len(replies) : replies'[i] = replies[j]
      BY <2>1
    <3>2. Addressed(replies[j])
      BY DEF RpcInv
    <3> QED
      BY <3>1, <3>2, <1>2 DEF Addressed, Waiting
  <2>2. CASE serving # Nothing /\ replies'[i].seq = serving.seq /\ replies'[i].by = serving.by
    <3>1. Addressed(serving)
      BY <2>2 DEF RpcInv
    <3> QED
      BY <3>1, <2>2, <1>2 DEF Addressed, Waiting
  <2> QED
    BY <2>1, <2>2
<1>6. (\A c \in Client : Waiting(c) => call[c].seq < seq)'
  BY <1>1 DEF RpcInv, Waiting
<1>7. (\A b, c \in Client : Waiting(b) /\ Waiting(c) /\ call[b].seq = call[c].seq => b = c)'
  BY <1>1 DEF RpcInv, Waiting
<1>8. AnswersItsOwn'
  BY DEF StillWaits, AnswersItsOwn
<1> QED
  BY <1>3, <1>4, <1>5, <1>6, <1>7, <1>8 DEF RpcInv

\* A reply goes to whoever has its number, and that caller asked for it.
LEMMA ReceiveKeeps == RpcInv /\ Receive => RpcInv'
<1> SUFFICES ASSUME RpcInv, Receive PROVE RpcInv'
  OBVIOUS
<1> DEFINE r == Head(replies)
<1>1. replies # <<>> /\ replies \in Seq(Reply)
  BY DEF Receive, RpcInv, RpcTypeOK
<1>2. r \in Reply /\ r = replies[1] /\ 1 \in 1..Len(replies)
  BY <1>1
<1>3. Addressed(r)
  BY <1>2 DEF RpcInv
<1>4. replies' = Tail(replies) /\ UNCHANGED <<conn, seq, requests, serving>>
      /\ pending' = pending \ {r.seq}
  BY DEF Receive
<1>5. \A c \in Client :
         call'[c] = IF Waiting(c) /\ r.seq \in pending /\ call[c].seq = r.seq
                    THEN [st |-> "reply", seq |-> call[c].seq, got |-> r]
                    ELSE call[c]
  BY DEF Receive
<1>6. call' \in [Client -> Calls]
  <2>1. call \in [Client -> Calls]
    BY DEF RpcInv, RpcTypeOK
  <2>2. ASSUME NEW c \in Client PROVE call'[c] \in Calls
    <3>1. call[c] \in Calls /\ call[c].seq \in Nat
      BY <2>1 DEF Calls
    <3>2. [st |-> "reply", seq |-> call[c].seq, got |-> r] \in Calls
      BY <3>1, <1>2 DEF Calls, CallState
    <3> QED
      BY <3>1, <3>2, <1>5
  <2>3. call' = [c \in Client |-> call'[c]]
    BY DEF Receive
  <2> QED
    BY <2>2, <2>3
<1>7. replies' \in Seq(Reply)
      /\ \A i \in 1..Len(replies') : \E j \in 1..Len(replies) : replies'[i] = replies[j]
  <2>1. Tail(replies) \in Seq(Reply) /\ Len(Tail(replies)) = Len(replies) - 1
        /\ \A i \in 1..Len(Tail(replies)) : Tail(replies)[i] = replies[i + 1]
    BY <1>1
  <2>2. \A i \in 1..Len(Tail(replies)) : i + 1 \in 1..Len(replies)
    BY <2>1, <1>1
  <2> QED
    BY <2>1, <2>2, <1>4
<1>8. RpcTypeOK'
  BY <1>4, <1>6, <1>7 DEF RpcInv, RpcTypeOK
<1>9. StillWaits
  <2> SUFFICES ASSUME NEW c \in Client
               PROVE  /\ Waiting(c)' => Waiting(c) /\ call'[c].seq = call[c].seq
                      /\ call'[c].st = "reply" =>
                            call'[c].got.by = c /\ call'[c].got.seq = call'[c].seq
    BY DEF StillWaits
  <2>1. CASE Waiting(c) /\ r.seq \in pending /\ call[c].seq = r.seq
    <3>1. call'[c] = [st |-> "reply", seq |-> call[c].seq, got |-> r]
      BY <2>1, <1>5
    <3>2. r.by = c
      BY <2>1, <1>3 DEF Addressed
    <3> QED
      BY <2>1, <3>1, <3>2 DEF Waiting
  <2>2. CASE ~(Waiting(c) /\ r.seq \in pending /\ call[c].seq = r.seq)
    <3>1. call'[c] = call[c]
      BY <2>2, <1>5
    <3>2. AnswersItsOwn
      BY DEF RpcInv
    <3> QED
      BY <3>1, <3>2 DEF Waiting, AnswersItsOwn
  <2> QED
    BY <2>1, <2>2
<1> QED
  BY <1>4, <1>7, <1>8, <1>9, NoNewMessage

\* A caller that gives up waits no more; its number stays where it is.
LEMMA TimeoutKeeps == ASSUME NEW c \in Client, RpcInv, Timeout(c) PROVE RpcInv'
<1>1. UNCHANGED <<conn, seq, pending, requests, serving, replies>>
  BY DEF Timeout
<1>2. call' = [call EXCEPT ![c].st = "timeout"] /\ call \in [Client -> Calls]
  BY DEF Timeout, RpcInv, RpcTypeOK
<1>3. call' \in [Client -> Calls]
  BY <1>2 DEF Calls, CallState
<1>4. RpcTypeOK'
  BY <1>1, <1>3 DEF RpcInv, RpcTypeOK
<1>5. StillWaits
  BY <1>2 DEF StillWaits, Waiting, AnswersItsOwn, RpcInv, Calls
<1> QED
  BY <1>1, <1>4, <1>5, NoNewMessage

\* A connection that closes tells everyone and drops every message.
LEMMA CloseKeeps == ASSUME NEW how \in {"none", "closed"}, RpcInv, CloseTo(how) PROVE RpcInv'
<1>1. UNCHANGED <<seq, serving>> /\ requests' = <<>> /\ replies' = <<>>
      /\ conn' = how /\ pending' = {}
  BY DEF CloseTo
<1>2. \A c \in Client :
         call'[c] = IF Waiting(c) /\ call[c].seq \in pending
                    THEN [call[c] EXCEPT !.st = "eof"] ELSE call[c]
  BY DEF CloseTo
<1>3. call' \in [Client -> Calls]
  <2>1. call \in [Client -> Calls]
    BY DEF RpcInv, RpcTypeOK
  <2>2. \A c \in Client : call'[c] \in Calls
    BY <2>1, <1>2 DEF Calls, CallState
  <2>3. call' = [c \in Client |-> call'[c]]
    BY DEF CloseTo
  <2> QED
    BY <2>2, <2>3
<1>4. RpcTypeOK'
  BY <1>1, <1>3 DEF RpcInv, RpcTypeOK
<1>5. StillWaits
  BY <1>2 DEF StillWaits, Waiting, AnswersItsOwn, RpcInv, RpcTypeOK, Calls
<1> QED
  BY <1>1, <1>4, <1>5, NoNewMessage

\* The agent takes the oldest request.
LEMMA ServeKeeps == RpcInv /\ Serve => RpcInv'
<1> SUFFICES ASSUME RpcInv, Serve PROVE RpcInv'
  OBVIOUS
<1>1. requests # <<>> /\ requests \in Seq(Request)
      /\ serving' = Head(requests) /\ requests' = Tail(requests)
      /\ UNCHANGED <<conn, seq, pending, call, replies>>
  BY DEF Serve, RpcInv, RpcTypeOK
<1>2. Head(requests) \in Request /\ Head(requests) = requests[1] /\ 1 \in 1..Len(requests)
  BY <1>1
<1>3. requests' \in Seq(Request)
      /\ \A i \in 1..Len(requests') : \E j \in 1..Len(requests) : requests'[i] = requests[j]
  <2>1. Tail(requests) \in Seq(Request) /\ Len(Tail(requests)) = Len(requests) - 1
        /\ \A i \in 1..Len(Tail(requests)) : Tail(requests)[i] = requests[i + 1]
    BY <1>1
  <2>2. \A i \in 1..Len(Tail(requests)) : i + 1 \in 1..Len(requests)
    BY <2>1, <1>1
  <2> QED
    BY <2>1, <2>2, <1>1
<1>4. RpcTypeOK'
  BY <1>1, <1>2, <1>3 DEF RpcInv, RpcTypeOK
<1>5. StillWaits
  BY <1>1 DEF StillWaits, Waiting, AnswersItsOwn, RpcInv
<1> QED
  BY <1>1, <1>2, <1>3, <1>4, <1>5, NoNewMessage

\* Its answer has the number and the caller of the request.
LEMMA AnswerKeeps == ASSUME NEW how \in {"value", "raised"}, RpcInv, Answer(how) PROVE RpcInv'
<1> DEFINE r == [seq |-> serving.seq, by |-> serving.by, how |-> how]
<1>1. serving # Nothing /\ serving' = Nothing /\ serving \in Request
      /\ UNCHANGED <<conn, seq, pending, call, requests>>
  BY DEF Answer, RpcInv, RpcTypeOK
<1>2. r \in Reply /\ replies \in Seq(Reply)
  BY <1>1 DEF Request, Reply, RpcInv, RpcTypeOK
<1>3. replies' = replies \/ replies' = Append(replies, r)
  BY DEF Answer
<1>4. \A i \in 1..Len(replies') :
         \/ \E j \in 1..Len(replies) : replies'[i] = replies[j]
         \/ replies'[i] = r
  BY <1>2, <1>3
<1>5. RpcTypeOK'
  <2>1. replies' \in Seq(Reply)
    BY <1>2, <1>3
  <2> QED
    BY <2>1, <1>1 DEF RpcInv, RpcTypeOK
<1>6. StillWaits
  BY <1>1 DEF StillWaits, Waiting, AnswersItsOwn, RpcInv
<1> QED
  BY <1>1, <1>4, <1>5, <1>6, NoNewMessage

\* Every step on the channel is one of those.
LEMMA RpcStepKeeps == RpcInv /\ [RpcStep]_rpcVars => RpcInv'
<1> SUFFICES ASSUME RpcInv, [RpcStep]_rpcVars PROVE RpcInv'
  OBVIOUS
<1>1. CASE conn' = "open" /\ UNCHANGED <<seq, pending, call, requests, serving, replies>>
  <2>1. RpcTypeOK' /\ StillWaits
    BY <1>1 DEF RpcInv, RpcTypeOK, StillWaits, Waiting, AnswersItsOwn
  <2> QED
    BY <2>1, <1>1, NoNewMessage
<1>2. CASE UNCHANGED rpcVars
  BY <1>2 DEF rpcVars, RpcInv, RpcTypeOK, Waiting, AnswersItsOwn, Addressed
<1> QED
  BY <1>1, <1>2, CallKeeps, ReceiveKeeps, TimeoutKeeps, CloseKeeps, ServeKeeps, AnswerKeeps
     DEF RpcStep

\* Every step of a machine is one of these or leaves the channel alone.
LEMMA GuestDoesRpc == [Next]_vars => [RpcStep]_rpcVars
<1> SUFFICES ASSUME [Next]_vars PROVE [RpcStep]_rpcVars
  OBVIOUS
<1>1. CASE UNCHANGED vars
  BY <1>1 DEF vars
<1>2. CASE Lives
  BY <1>2 DEF Lives, Apart
<1>3. CASE AgentServes \/ AgentAnswers
  BY <1>3 DEF AgentServes, AgentAnswers, RpcStep
<1>4. CASE RunnerSteps
  <2>1. CASE \E c \in Caller : Ask(c) \/ GivesUp(c)
    <3>1. OtherEnd \in BOOLEAN
      BY DEF OtherEnd
    <3> QED
      BY <3>1, <2>1 DEF Ask, GivesUp, RpcStep, Client
  <2>2. CASE GivesUp(Down) \/ HostReceives \/ HangUp
    BY <2>2 DEF GivesUp, HostReceives, HangUp, RpcStep, Client
  <2>3. CASE DownBegins \/ DownAsked
    <3>1. OtherEnd \in BOOLEAN
      BY DEF OtherEnd
    <3> QED
      BY <3>1, <2>3 DEF DownBegins, DownAsked, RpcStep, Client
  <2>4. CASE Up
    BY <2>4 DEF Up, Connects, RpcStep
  <2>5. CASE StartBegins \/ LaunchStep \/ LaunchFails \/ Launched
              \/ Spawn \/ Spawned \/ SpawnCancelled \/ BootFails \/ DownRaises
              \/ ChildExits \/ ReapBegins \/ ReapEnds \/ ReapKills \/ ReapGivesUp
              \/ KillHelpers \/ Release \/ ReleaseRaises \/ Crash \/ CrashDone \/ RunnerDies
    BY <2>5 DEF StartBegins, LaunchStep, Takes, Template, SocketDir, Virtiofsd, ScratchDisk, Passt,
       LaunchFails, Launched, Spawn, Spawned, SpawnCancelled, BootFails, DownRaises, ChildExits,
       ReapBegins, ReapEnds, ReapKills, ReapGivesUp, KillHelpers, Release, ReleaseRaises, Crash,
       CrashDone, RunnerDies
  <2> QED
    BY <1>4, <2>1, <2>2, <2>3, <2>4, <2>5 DEF RunnerSteps
<1> QED
  BY <1>1, <1>2, <1>3, <1>4 DEF Next

(* The numbers of a channel stay unambiguous, whatever the machine does.   *)
THEOREM ChannelInvariant == Spec => []RpcInv
<1>1. Init => RpcInv
  BY RpcInvInit DEF Init
<1>2. RpcInv /\ [Next]_vars => RpcInv'
  BY RpcStepKeeps, GuestDoesRpc
<1> QED
  BY <1>1, <1>2, PTL DEF Spec

(* Whoever got a reply got the one to its own question (arpyc.py:251).     *)
THEOREM EveryAnswerIsItsOwn == Spec => []AnswersItsOwn
<1>1. RpcInv => AnswersItsOwn
  BY DEF RpcInv
<1> QED
  BY <1>1, ChannelInvariant, PTL

-----------------------------------------------------------------------------
(* What is left when a shutdown is over.                                   *)

Types == ProcTypeOK /\ MachineTypeOK

Started == stage # "none"

\* The processes of each backend.
Parts ==
    /\ kind = "uml" => alive \subseteq {"leader", "passt", "fork", "kernel"}
    /\ kind = "qemu" => alive \subseteq {"leader", "fork"} \cup Helpers
    /\ kind = "container" => alive \subseteq {"leader", "crun", "init", "pasta", "tap"}

\* Before the leader there are only the helpers the runner started; a leader
\* the machine does not have is still being spawned, or was killed.
Leading ==
    /\ start \in {"no", "launch", "spawn"} => ~Started
    /\ ~Started => "leader" \notin alive /\ (kind # "qemu" => alive = {})
    /\ stage = "new" /\ kind = "uml" => alive \subseteq {"leader"}
    /\ start \in {"no", "launch", "spawn", "spawning"} => process = "none"
    /\ start = "spawning" \/ process # "none" => Started
    /\ process = "none" /\ start # "spawning" => "leader" \notin alive

\* What may outlive the leader: an init without its death signal, and what
\* the bridge was to end.
Leaderless ==
    /\ guarded = "none" => "init" \notin alive
    /\ (Started /\ "leader" \notin alive) =>
          /\ kind = "container" => alive \subseteq {"init"}
          /\ kind = "container" /\ "init" \in alive => guarded \in {"born", "late"}
          /\ kind = "uml" => alive \subseteq adrift

\* What passt forked has passt, or nobody.
Forked == "fork" \in alive => "passt" \in alive \/ "fork" \in adrift

\* A helper that runs is still launched or on the machine's list, and none
\* runs once those on the list are killed.
Helped ==
    /\ kind = "qemu" /\ alive \cap Helpers # {} =>
          /\ start = "launch" \/ Helpers \subseteq known
          /\ down \notin {"release", "done"}
    /\ todo \cap Helpers # {} => kind = "qemu"

\* The helpers' turn comes after the leader's exit, or when the machine has
\* given up on it.
Ending ==
    /\ start \in {"launch", "spawn", "spawning"} => down = "no"
    /\ process = "exited" => "leader" \notin alive
    /\ down \in {"helpers", "release", "done"} => process # "running" \/ "leader" \in adrift

\* Whatever is open is on a list, or was the launch's alone.
Keeping ==
    /\ start \in {"boot", "up"} => "spareFds" \notin held
    /\ start \in {"spawn", "spawning", "boot", "up"} /\ "sockdir" \in held => "sockdir" \in known
    /\ start = "up" => held \cap {"agentSock", "guestSock"} = {}

MachineInv ==
    Types /\ Parts /\ Leading /\ Leaderless /\ Forked /\ Helped /\ Ending /\ Keeping /\ DownMeansDown

\* Nothing runs and nothing is held before the start.
LEMMA MachineInit == Init => MachineInv
<1> SUFFICES ASSUME Init PROVE MachineInv
  OBVIOUS
<1>1. Types
  BY DEF Init, ProcInit, Types, MachineTypeOK, ProcTypeOK
<1> QED
  BY <1>1 DEF Init, ProcInit, MachineInv, Parts, Leading, Leaderless, Forked, Helped, Ending,
              Keeping, DownMeansDown, Started

\* A step in which processes only end, each leaving behind what it may, on
\* the way to the helpers at most.
Ends ==
    /\ UNCHANGED <<kind, stage, guarded, start, todo, known, process>>
    /\ runner' \in BOOLEAN
    /\ alive' \subseteq alive
    /\ adrift \subseteq adrift'
    /\ held' \subseteq held
    /\ down' = down \/ (down # "no" /\ down' \in {"term", "kill"})
    /\ Leaderless' /\ Forked'

\* Such a step keeps the invariant.
LEMMA EndsKeep ==
    ASSUME MachineInv, ProcTypeOK', crash' \in {"no", "asked", "dead"}, Ends
    PROVE  MachineInv'
<1>1. Types'
  BY DEF MachineInv, Types, MachineTypeOK, Ends
<1>2. Parts' /\ Leading'
  BY DEF MachineInv, Parts, Leading, Ends, Started
<1>3. Leaderless' /\ Forked'
  BY DEF Ends
<1>4. Helped' /\ Ending' /\ Keeping'
  BY DEF MachineInv, Helped, Ending, Keeping, Ends
<1>5. DownMeansDown'
  <2>1. BeyondReach \subseteq BeyondReach' \/ "leader" \in adrift'
    BY DEF BeyondReach, Ends
  <2>2. alive' \subseteq Process
    BY DEF MachineInv, Types, ProcTypeOK, Ends
  <2> QED
    BY <2>1, <2>2 DEF MachineInv, DownMeansDown, BeyondReach, Ends
<1> QED
  BY <1>1, <1>2, <1>3, <1>4, <1>5 DEF MachineInv

\* Whoever goes, those who lose their parent with it are adrift.
LEMMA EndLeaves ==
    ASSUME MachineInv, NEW gone, End(gone), UNCHANGED <<kind, stage, guarded>>
    PROVE  /\ alive' \subseteq alive \ gone /\ alive' \subseteq Process
           /\ adrift \subseteq adrift' /\ adrift' \subseteq Process
           /\ Leaderless' /\ Forked'
<1>1. alive' = WhatStays(gone) /\ adrift' = adrift \cup Orphans(gone)
  BY DEF End
<1>2. alive' \subseteq alive \ gone
  BY <1>1 DEF WhatStays
<1>3. kind \in {"uml", "qemu", "container"} /\ alive \subseteq Process /\ adrift \subseteq Process
      /\ guarded \in {"none", "born", "yes", "late"}
  BY DEF MachineInv, Types, ProcTypeOK
<1>4. kind # "container" => alive' = alive \ gone
  BY <1>1 DEF WhatStays
<1>5. adrift' \subseteq Process
  BY <1>1, <1>3 DEF Orphans
<1>6. Forked'
  <2>1. SUFFICES ASSUME "fork" \in alive', "passt" \notin alive' PROVE "fork" \in adrift'
    BY DEF Forked
  <2>2. kind # "container"
    BY <2>1, <1>2 DEF MachineInv, Parts
  <2> QED
    BY <1>1, <1>2, <1>4, <2>1, <2>2 DEF MachineInv, Forked, Orphans
<1>7. ASSUME kind = "container", "leader" \notin alive'
      PROVE  alive' \subseteq {"init"} /\ ("init" \in alive' => guarded # "yes")
  BY <1>1, <1>2, <1>7 DEF WhatStays, MachineInv, Parts
<1>8. ASSUME kind = "uml", Started, "leader" \notin alive'
      PROVE  alive' \subseteq adrift'
  <2>1. CASE "leader" \in alive
    BY <1>1, <1>2, <1>4, <1>8, <2>1 DEF MachineInv, Parts, Orphans
  <2>2. CASE "leader" \notin alive
    BY <1>1, <1>2, <1>8, <2>2 DEF MachineInv, Leaderless
  <2> QED
    BY <2>1, <2>2
<1>9. Leaderless'
  BY <1>2, <1>3, <1>7, <1>8 DEF MachineInv, Leaderless, Started
<1> QED
  BY <1>1, <1>2, <1>3, <1>5, <1>6, <1>9

\* A signal that ends whom it reaches.
LEMMA KillEnds ==
    ASSUME MachineInv, NEW ps, Kill(ps)
    PROVE  /\ ProcTypeOK' /\ UNCHANGED <<kind, stage, guarded>>
           /\ alive' \subseteq alive /\ adrift \subseteq adrift'
           /\ Leaderless' /\ Forked'
<1>1. End(ps) /\ UNCHANGED <<kind, stage, guarded, stuck, term, short>>
  BY DEF Kill
<1> QED
  BY <1>1, EndLeaves DEF MachineInv, Types, ProcTypeOK

\* A leader that does not die of a SIGTERM stays until it ends by itself.
LEMMA TermGroupEnds ==
    ASSUME MachineInv, TermGroup
    PROVE  /\ ProcTypeOK' /\ UNCHANGED <<kind, stage, guarded>>
           /\ alive' \subseteq alive /\ adrift \subseteq adrift'
           /\ Leaderless' /\ Forked'
<1>1. CASE kind = "uml" /\ stage = "relay" /\ "leader" \in alive
  <2>1. PICK gone \in SUBSET {"passt", "fork", "kernel"} :
           End(gone) /\ stuck' \in {stuck, stuck \/ "passt" \in alive \cap gone}
    BY <1>1 DEF TermGroup
  <2>2. term' = TRUE /\ UNCHANGED <<kind, stage, guarded, short>>
    BY <1>1 DEF TermGroup
  <2>3. stuck' \in BOOLEAN
    BY <2>1 DEF MachineInv, Types, ProcTypeOK
  <2>4. /\ alive' \subseteq alive /\ alive' \subseteq Process
        /\ adrift \subseteq adrift' /\ adrift' \subseteq Process
        /\ Leaderless' /\ Forked'
    BY <2>1, <2>2, EndLeaves
  <2> QED
    BY <2>2, <2>3, <2>4 DEF MachineInv, Types, ProcTypeOK
<1>2. CASE kind = "container" /\ stage \in {"waiting", "relay", "ending"} /\ "leader" \in alive
  BY <1>2 DEF TermGroup, MachineInv, Types, ProcTypeOK, Leaderless, Forked, Started
<1>3. CASE kind = "qemu"
  BY <1>3 DEF TermGroup, MachineInv, Types, ProcTypeOK, Leaderless, Forked, Started
<1>4. CASE /\ ~(kind = "uml" /\ stage = "relay" /\ "leader" \in alive)
           /\ ~(kind = "container" /\ stage \in {"waiting", "relay", "ending"} /\ "leader" \in alive)
           /\ kind # "qemu"
  <2>1. KillGroup
    BY <1>4 DEF TermGroup
  <2> QED
    BY <2>1, KillEnds DEF KillGroup
<1> QED
  BY <1>1, <1>2, <1>3, <1>4

\* A process that ends by itself, or with the leader it belongs to.
LEMMA ProcessEnds ==
    ASSUME MachineInv, UNCHANGED machineVars,
           (\E p \in Process : Dies(p)) \/ BridgeEnds \/ CrunEnds \/ LauncherEnds
    PROVE  MachineInv'
<1> USE DEF machineVars
<1>1. crash' \in {"no", "asked", "dead"} /\ runner' \in BOOLEAN
  BY DEF MachineInv, Types, MachineTypeOK
<1>2. ProcTypeOK' /\ Ends
  <2>1. CASE \E p \in Process : Dies(p)
    <3>1. PICK p \in Process : Dies(p)
      BY <2>1
    <3>2. End({p}) /\ UNCHANGED <<kind, stage, guarded, term, short>>
      BY <3>1 DEF Dies
    <3>3. stuck' \in BOOLEAN
      BY <3>1 DEF Dies, MachineInv, Types, ProcTypeOK
    <3>4. /\ alive' \subseteq alive /\ alive' \subseteq Process
          /\ adrift \subseteq adrift' /\ adrift' \subseteq Process
          /\ Leaderless' /\ Forked'
      BY <3>2, EndLeaves
    <3> QED
      BY <1>1, <3>2, <3>3, <3>4 DEF MachineInv, Types, ProcTypeOK, Ends
  <2>2. CASE BridgeEnds
    <3>1. Kill({"leader", "kernel", "passt"})
      BY <2>2 DEF BridgeEnds, Kill
    <3> QED
      BY <1>1, <3>1, KillEnds DEF Ends
  <2>3. CASE CrunEnds
    BY <1>1, <2>3 DEF CrunEnds, Ends, MachineInv, Types, ProcTypeOK, Leaderless, Forked, Started
  <2>4. CASE LauncherEnds
    BY <1>1, <2>4 DEF LauncherEnds, Ends, MachineInv, Types, ProcTypeOK, Leaderless, Forked, Started
  <2> QED
    BY <2>1, <2>2, <2>3, <2>4
<1> QED
  BY <1>1, <1>2, EndsKeep

\* A shutdown that is past the leader is past it for good, or has given up.
LEMMA PastTheLeader ==
    ASSUME MachineInv, down \in {"helpers", "release", "done"}, "leader" \in alive
    PROVE  "leader" \in adrift
BY DEF MachineInv, Leading, Ending, Types, MachineTypeOK

\* Two children of the bridge, or the first of them and no bridge.
LEMMA BridgeKeeps == ASSUME MachineInv, UNCHANGED machineVars, BridgeForks PROVE MachineInv'
<1>1. MachineInv /\ UNCHANGED <<runner, start, todo, held, known, process, down, crash>>
  BY DEF machineVars
<1>2. /\ kind = "uml" /\ stage = "new" /\ "leader" \in alive /\ stage' = "forked"
      /\ UNCHANGED <<kind, guarded, stuck, term, short>>
      /\ \/ alive' = alive \cup {"passt", "kernel"} /\ adrift' = adrift
         \/ alive' = (alive \ {"leader"}) \cup {"passt"} /\ adrift' = adrift \cup {"passt"}
  BY DEF BridgeForks
<1>3. alive = {"leader"}
  BY <1>2 DEF MachineInv, Leading
<1>4. Types'
  <2>1. adrift' \subseteq Process /\ alive' \subseteq Process
    BY <1>2, <1>3 DEF MachineInv, Types, ProcTypeOK, Process
  <2> QED
    BY <1>1, <1>2, <2>1 DEF MachineInv, Types, MachineTypeOK, ProcTypeOK
<1>5. Parts' /\ Leading' /\ Helped' /\ Ending' /\ Keeping' /\ Forked'
  BY <1>1, <1>2, <1>3 DEF MachineInv, Parts, Leading, Helped, Ending, Keeping, Forked, Started
<1>6. Leaderless'
  BY <1>1, <1>2, <1>3 DEF MachineInv, Leaderless
<1>7. DownMeansDown'
  <2>1. down = "done" => "leader" \in adrift
    BY <1>3, PastTheLeader
  <2>2. alive' \subseteq Process
    BY <1>2, <1>3 DEF Process
  <2> QED
    BY <1>1, <1>2, <2>1, <2>2 DEF MachineInv, DownMeansDown, BeyondReach
<1> QED
  BY <1>4, <1>5, <1>6, <1>7 DEF MachineInv

\* Another process of passt's, which shares its fate or is adrift with it.
LEMMA ForkKeeps == ASSUME MachineInv, UNCHANGED machineVars, PasstForks PROVE MachineInv'
<1>1. MachineInv /\ UNCHANGED <<runner, start, todo, held, known, process, down, crash>>
  BY DEF machineVars
<1>2. /\ "passt" \in alive /\ "fork" \notin alive /\ alive' = alive \cup {"fork"}
      /\ adrift' = (adrift \ {"fork"}) \cup {p \in {"fork"} : "passt" \in adrift}
      /\ UNCHANGED <<kind, stage, guarded, stuck, term, short>>
  BY DEF PasstForks
<1>3. kind # "container"
  BY <1>2 DEF MachineInv, Parts
<1>4. Types'
  <2>1. adrift' \subseteq Process /\ alive' \subseteq Process
    BY <1>2 DEF MachineInv, Types, ProcTypeOK, Process
  <2> QED
    BY <1>1, <1>2, <2>1 DEF MachineInv, Types, MachineTypeOK, ProcTypeOK
<1>5. Parts' /\ Leading' /\ Forked'
  BY <1>1, <1>2, <1>3 DEF MachineInv, Parts, Leading, Forked, Started
<1>6. Helped' /\ Ending' /\ Keeping'
  BY <1>1, <1>2 DEF MachineInv, Helped, Ending, Keeping, Helpers
<1>7. Leaderless'
  BY <1>2, <1>3 DEF MachineInv, Leaderless, Started
<1>8. DownMeansDown'
  <2>1. SUFFICES ASSUME down = "done", "leader" \notin adrift PROVE alive' \subseteq BeyondReach'
    BY <1>1, <1>2, <1>4 DEF MachineInv, DownMeansDown, BeyondReach, Types, ProcTypeOK
  <2>2. "passt" \in adrift
    BY <1>1, <1>2, <2>1 DEF MachineInv, DownMeansDown, BeyondReach
  <2>3. adrift' = adrift \cup {"fork"}
    BY <1>2, <2>2
  <2> QED
    BY <1>1, <1>2, <2>1, <2>3 DEF MachineInv, DownMeansDown, BeyondReach
<1> QED
  BY <1>4, <1>5, <1>6, <1>7, <1>8 DEF MachineInv

\* A leader that goes on while it lives; an init that asks too late when it
\* does not.
LEMMA ProcessBegins ==
    ASSUME MachineInv, UNCHANGED machineVars,
           \/ BridgeGuards \/ LauncherBegins \/ LauncherWaits
           \/ CrunStarts \/ InitGuards \/ LauncherHelps
    PROVE  MachineInv'
<1>1. MachineInv /\ UNCHANGED <<runner, start, todo, held, known, process, down, crash>>
  BY DEF machineVars
<1>2. /\ UNCHANGED <<kind, stuck, term, adrift>>
      /\ stage # "none" /\ stage' \in {"forked", "relay", "waiting", "ending", stage}
      /\ short' = TRUE \/ short' = short
      /\ guarded' \in {"born", "yes", "late", guarded}
      /\ alive \subseteq alive'
      /\ \/ kind = "uml" /\ alive' = alive /\ "leader" \in alive
         \/ /\ kind = "container" /\ alive' \subseteq alive \cup {"crun", "init", "pasta", "tap"}
            /\ "leader" \in alive \/ (alive' = alive /\ guarded = "born" /\ guarded' = "late")
      /\ guarded' = "none" => guarded = "none" /\ ("init" \notin alive => "init" \notin alive')
  <2>1. CASE BridgeGuards
    BY <2>1 DEF BridgeGuards
  <2>2. CASE LauncherBegins \/ LauncherWaits
    BY <2>2 DEF LauncherBegins, LauncherWaits
  <2>3. "crun" \in alive \/ "init" \in alive => kind = "container" /\ Started
    BY DEF MachineInv, Parts, Leading, Types, ProcTypeOK, Helpers
  <2>4. kind = "container" /\ Started /\ "crun" \in alive => "leader" \in alive
    BY DEF MachineInv, Leaderless
  <2>5. CASE CrunStarts
    BY <2>5, <2>3, <2>4 DEF CrunStarts, Started
  <2>6. CASE InitGuards
    BY <2>6, <2>3, <2>4 DEF InitGuards, Started
  <2>7. CASE LauncherHelps
    BY <2>7 DEF LauncherHelps
  <2> QED
    BY <2>1, <2>2, <2>5, <2>6, <2>7
<1>3. Types'
  <2>1. Types /\ ProcTypeOK
    BY <1>1 DEF MachineInv, Types
  <2>2. alive' \subseteq Process
    BY <2>1, <1>2 DEF ProcTypeOK, Process
  <2>3. stage' \in {"none", "new", "forked", "waiting", "relay", "ending"}
        /\ guarded' \in {"none", "born", "yes", "late"} /\ short' \in BOOLEAN
    BY <2>1, <1>2 DEF ProcTypeOK
  <2>4. ProcTypeOK'
    BY <2>1, <2>2, <2>3, <1>2 DEF ProcTypeOK
  <2> QED
    BY <2>1, <2>4, <1>1 DEF Types, MachineTypeOK
<1>4. Parts' /\ Leading' /\ Forked'
  BY <1>1, <1>2 DEF MachineInv, Parts, Leading, Forked, Started
<1>5. Leaderless'
  BY <1>1, <1>2 DEF MachineInv, Leaderless, Started
<1>6. Helped' /\ Ending' /\ Keeping'
  BY <1>1, <1>2 DEF MachineInv, Helped, Ending, Keeping, Helpers
<1>7. DownMeansDown'
  <2>1. down = "done" /\ "leader" \in alive => "leader" \in adrift
    BY PastTheLeader
  <2>2. alive' \subseteq Process
    BY <1>3 DEF Types, ProcTypeOK
  <2>3. CASE "leader" \in alive
    BY <1>1, <1>2, <2>1, <2>2, <2>3 DEF MachineInv, DownMeansDown, BeyondReach
  <2>4. CASE "leader" \notin alive
    BY <1>1, <1>2, <2>4 DEF MachineInv, DownMeansDown, BeyondReach
  <2> QED
    BY <2>3, <2>4
<1> QED
  BY <1>3, <1>4, <1>5, <1>6, <1>7 DEF MachineInv

\* What the launch of a machine does to it, up to the leader.
LEMMA LaunchKeeps ==
    ASSUME MachineInv, StartBegins \/ LaunchStep \/ LaunchFails \/ Launched PROVE MachineInv'
<1>1. Types /\ ProcTypeOK
  BY DEF MachineInv, Types, MachineTypeOK
<1>2. CASE StartBegins
  <2>1. todo' \subseteq Helpers \cup {"sockdir", "disk", "template"}
    BY <1>1, <1>2 DEF StartBegins, LaunchSteps, UmlLaunch, QemuLaunch, ContainerLaunch, Helpers,
                      ProcTypeOK
  <2>2. Types'
    <3>1. ProcTypeOK'
      BY <1>1, <1>2 DEF StartBegins, procVars, ProcTypeOK
    <3>2. held' \subseteq Resource
      BY <1>2 DEF StartBegins, Resource
    <3>3. start' = "launch" /\ UNCHANGED <<runner, known, process, down, crash>>
      BY <1>2 DEF StartBegins
    <3> QED
      BY <1>1, <2>1, <3>1, <3>2, <3>3 DEF Types, MachineTypeOK
  <2>3. Parts' /\ Leading' /\ Leaderless' /\ Forked' /\ Keeping' /\ DownMeansDown'
    BY <1>2 DEF StartBegins, procVars, MachineInv, Parts, Leading, Leaderless, Forked, Keeping,
                DownMeansDown, Started
  <2>4. todo' \cap Helpers # {} => kind = "qemu"
    BY <1>1, <1>2 DEF StartBegins, LaunchSteps, UmlLaunch, ContainerLaunch, Helpers, ProcTypeOK
  <2>5. Helped' /\ Ending'
    BY <1>2, <2>4 DEF StartBegins, procVars, MachineInv, Helped, Ending, Started
  <2> QED
    BY <2>2, <2>3, <2>5 DEF MachineInv
<1>3. CASE LaunchStep
  <2>1. PICK s : Takes(s) /\ (alive' = alive \/ (s \in Helpers /\ alive' = alive \cup {s}))
                 /\ held' \subseteq held \cup {"sockdir", "spareFds"}
    BY <1>3 DEF LaunchStep, Template, SocketDir, Virtiofsd, ScratchDisk, Passt, Helpers
  <2>2. /\ start = "launch" /\ s \in todo /\ todo' = todo \ {s}
        /\ UNCHANGED <<kind, stage, guarded, stuck, term, short, adrift>>
        /\ UNCHANGED <<runner, start, known, process, down, crash>>
    BY <2>1 DEF Takes
  <2>3. s \in Helpers => kind = "qemu"
    BY <2>2 DEF MachineInv, Helped
  <2>4. Types'
    <3>1. ProcTypeOK'
      BY <1>1, <2>1, <2>2 DEF ProcTypeOK, Helpers, Process
    <3>2. held' \subseteq Resource
      BY <1>1, <2>1 DEF Types, MachineTypeOK, Resource
    <3> QED
      BY <1>1, <2>2, <3>1, <3>2 DEF Types, MachineTypeOK
  <2>5. Parts' /\ Leading' /\ Leaderless' /\ Forked'
    BY <2>1, <2>2, <2>3 DEF MachineInv, Parts, Leading, Leaderless, Forked, Started, Helpers
  <2>6. down = "no"
    BY <2>2 DEF MachineInv, Ending
  <2>7. Helped'
    BY <2>1, <2>2, <2>3, <2>6 DEF MachineInv, Helped
  <2>8. Ending'
    BY <2>2, <2>6 DEF MachineInv, Ending, Leading, Started
  <2>9. Keeping' /\ DownMeansDown'
    BY <2>2, <2>6 DEF Keeping, DownMeansDown
  <2> QED
    BY <2>4, <2>5, <2>7, <2>8, <2>9 DEF MachineInv
<1>4. CASE LaunchFails
  <2>1. /\ start = "launch" /\ start' = "failed" /\ End(Helpers)
        /\ held' = held \ {"spareFds"} /\ todo' = {}
        /\ UNCHANGED <<kind, stage, guarded, stuck, term, short>>
        /\ UNCHANGED <<runner, known, process, down, crash>>
    BY <1>4 DEF LaunchFails
  <2>2. /\ alive' \subseteq alive \ Helpers /\ alive' \subseteq Process
        /\ adrift \subseteq adrift' /\ adrift' \subseteq Process
        /\ Leaderless' /\ Forked'
    BY <2>1, EndLeaves
  <2>3. Types'
    BY <1>1, <2>1, <2>2 DEF Types, MachineTypeOK, ProcTypeOK
  <2>4. Parts' /\ Leading'
    BY <2>1, <2>2 DEF MachineInv, Parts, Leading, Started
  <2>5. Helped' /\ Ending' /\ Keeping' /\ DownMeansDown'
    BY <2>1, <2>2 DEF MachineInv, Helped, Ending, Keeping, DownMeansDown
  <2> QED
    BY <2>2, <2>3, <2>4, <2>5 DEF MachineInv
<1>5. CASE Launched
  <2>1. Types'
    BY <1>1, <1>5 DEF Launched, procVars, Types, MachineTypeOK, ProcTypeOK
  <2>2. Parts' /\ Leading' /\ Leaderless' /\ Forked'
    BY <1>5 DEF Launched, procVars, MachineInv, Parts, Leading, Leaderless, Forked, Started
  <2>3. Helped'
    BY <1>5 DEF Launched, procVars, MachineInv, Helped, Helpers
  <2>4. Ending' /\ Keeping' /\ DownMeansDown'
    BY <1>1, <1>5 DEF Launched, procVars, MachineInv, Ending, Keeping, DownMeansDown, Started, Resource,
                      Types, MachineTypeOK
  <2> QED
    BY <2>1, <2>2, <2>3, <2>4 DEF MachineInv
<1> QED
  BY <1>2, <1>3, <1>4, <1>5

\* The leader starts, its guest comes up or does not.
LEMMA BootKeeps ==
    ASSUME MachineInv, Spawn \/ Spawned \/ SpawnCancelled \/ Up \/ BootFails PROVE MachineInv'
<1>1. Types /\ ProcTypeOK
  BY DEF MachineInv, Types, MachineTypeOK
<1>2. CASE Spawn
  <2>1. start = "spawn" /\ ~Started /\ down = "no" /\ process = "none"
    BY <1>2 DEF Spawn, MachineInv, Leading, Ending
  <2>2. \/ /\ start' = "spawning" /\ alive' = alive \cup {"leader"} /\ stage' = "new"
           /\ guarded' = (IF kind = "qemu" THEN "yes" ELSE guarded)
        \/ start' = "failed" /\ UNCHANGED <<alive, stage, guarded>>
    BY <1>2 DEF Spawn
  <2>3. /\ UNCHANGED <<kind, stuck, term, short, adrift>>
        /\ UNCHANGED <<runner, todo, held, known, process, down, crash>>
    BY <1>2 DEF Spawn
  <2>4. Types'
    <3>1. ProcTypeOK'
      BY <1>1, <2>2, <2>3 DEF ProcTypeOK, Process
    <3> QED
      BY <1>1, <2>2, <2>3, <3>1 DEF Types, MachineTypeOK
  <2>5. Parts' /\ Leading' /\ Forked'
    BY <2>1, <2>2, <2>3 DEF MachineInv, Parts, Leading, Forked, Started
  <2>6. Leaderless'
    BY <2>1, <2>2, <2>3 DEF MachineInv, Leaderless, Started, Parts, Helpers
  <2>7. Helped' /\ Ending'
    BY <2>1, <2>2, <2>3 DEF MachineInv, Helped, Ending, Helpers
  <2>8. Keeping' /\ DownMeansDown'
    BY <2>1, <2>2, <2>3 DEF MachineInv, Keeping, DownMeansDown
  <2> QED
    BY <2>4, <2>5, <2>6, <2>7, <2>8 DEF MachineInv
<1>4. CASE Spawned
  <2>1. /\ start = "spawning" /\ start' = "boot" /\ process' = "running"
        /\ held' = held \ {"spareFds"} /\ UNCHANGED procVars
        /\ UNCHANGED <<runner, todo, known, down, crash>>
    BY <1>4 DEF Spawned
  <2>2. Started /\ down = "no"
    BY <2>1 DEF MachineInv, Ending, Leading
  <2>3. Types'
    BY <1>1, <2>1 DEF procVars, Types, MachineTypeOK, ProcTypeOK
  <2>4. Parts' /\ Leading' /\ Leaderless' /\ Forked'
    BY <2>1, <2>2 DEF procVars, MachineInv, Parts, Leading, Leaderless, Forked, Started
  <2>5. Helped' /\ Ending' /\ Keeping' /\ DownMeansDown'
    BY <2>1, <2>2 DEF procVars, MachineInv, Helped, Ending, Keeping, DownMeansDown
  <2> QED
    BY <2>3, <2>4, <2>5 DEF MachineInv
<1>5. CASE SpawnCancelled
  <2>1. /\ start = "spawning" /\ start' = "failed" /\ Kill({"leader"})
        /\ UNCHANGED <<runner, todo, held, known, process, down, crash>>
    BY <1>5 DEF SpawnCancelled
  <2>2. /\ ProcTypeOK' /\ UNCHANGED <<kind, stage, guarded>>
        /\ alive' \subseteq alive /\ Leaderless' /\ Forked'
    BY <2>1, KillEnds
  <2>3. "leader" \notin alive'
    BY <2>1, EndLeaves DEF Kill
  <2>4. down = "no"
    BY <2>1 DEF MachineInv, Ending
  <2>5. Types' /\ Parts' /\ Leading'
    BY <1>1, <2>1, <2>2, <2>3 DEF MachineInv, Types, MachineTypeOK, Parts, Leading, Started
  <2>6. Helped' /\ Ending' /\ Keeping' /\ DownMeansDown'
    BY <2>1, <2>2, <2>3, <2>4 DEF MachineInv, Helped, Ending, Keeping, DownMeansDown
  <2> QED
    BY <2>2, <2>5, <2>6 DEF MachineInv
<1>3. CASE Up \/ BootFails
  <2>1. /\ start = "boot" /\ down = "no" /\ start' \in {"up", "failed"}
        /\ UNCHANGED procVars /\ UNCHANGED <<runner, todo, known, process, down, crash>>
        /\ held' \subseteq held
        /\ start' = "up" => held' \cap {"agentSock", "guestSock"} = {}
    BY <1>3 DEF Up, BootFails, Connects
  <2>2. Types'
    BY <1>1, <2>1 DEF procVars, Types, MachineTypeOK, ProcTypeOK
  <2>3. Parts' /\ Leading' /\ Leaderless' /\ Forked'
    BY <2>1 DEF procVars, MachineInv, Parts, Leading, Leaderless, Forked, Started
  <2>4. Helped' /\ Ending'
    BY <2>1 DEF procVars, MachineInv, Helped, Ending, Started
  <2>5. Keeping' /\ DownMeansDown'
    BY <2>1 DEF procVars, MachineInv, Keeping, DownMeansDown
  <2> QED
    BY <2>2, <2>3, <2>4, <2>5 DEF MachineInv
<1> QED
  BY <1>2, <1>3, <1>4, <1>5

\* The signals of a shutdown or a crash, and the runner's own end.
LEMMA SignalsKeep ==
    ASSUME MachineInv, runner, ReapBegins \/ ReapKills \/ Crash \/ RunnerDies PROVE MachineInv'
<1>1. Types /\ ProcTypeOK /\ runner \in BOOLEAN
  BY DEF MachineInv, Types, MachineTypeOK
<1>2. CASE ReapBegins /\ process # "running"
  <2>1. /\ down = "reap" /\ down' = "helpers" /\ held' \subseteq held
        /\ UNCHANGED procVars /\ UNCHANGED <<runner, start, todo, known, process, crash>>
    BY <1>2 DEF ReapBegins
  <2>2. Types'
    BY <1>1, <2>1 DEF procVars, Types, MachineTypeOK, ProcTypeOK
  <2>3. Parts' /\ Leading' /\ Leaderless' /\ Forked'
    BY <2>1 DEF procVars, MachineInv, Parts, Leading, Leaderless, Forked, Started
  <2>4. Helped' /\ Ending' /\ Keeping' /\ DownMeansDown'
    BY <1>2, <2>1 DEF procVars, MachineInv, Helped, Ending, Keeping, DownMeansDown
  <2> QED
    BY <2>2, <2>3, <2>4 DEF MachineInv
<1>3. CASE ReapBegins /\ process = "running"
  <2>1. /\ down = "reap" /\ down' = "term" /\ held' \subseteq held /\ TermGroup
        /\ UNCHANGED <<runner, start, todo, known, process, crash>>
    BY <1>3 DEF ReapBegins
  <2>2. ProcTypeOK' /\ Ends
    BY <1>1, <2>1, TermGroupEnds DEF Ends
  <2> QED
    BY <1>1, <2>1, <2>2, EndsKeep DEF Types, MachineTypeOK
<1>4. CASE ReapKills
  <2>1. /\ down = "term" /\ down' = "kill" /\ \E ps : Kill(ps)
        /\ UNCHANGED <<runner, start, todo, held, known, process, crash>>
    BY <1>4 DEF ReapKills, KillGroup
  <2>2. ProcTypeOK' /\ Ends
    BY <1>1, <2>1, KillEnds DEF Ends
  <2> QED
    BY <1>1, <2>1, <2>2, EndsKeep DEF Types, MachineTypeOK
<1>5. CASE Crash
  <2>1. /\ \E ps : Kill(ps)
        /\ crash' = "asked" /\ UNCHANGED <<runner, start, todo, held, known, process, down>>
    BY <1>5 DEF Crash, CrashSignals
  <2>2. ProcTypeOK' /\ Ends
    BY <1>1, <2>1, KillEnds DEF Ends
  <2> QED
    BY <2>1, <2>2, EndsKeep
<1>6. CASE RunnerDies
  <2>1. runner' = FALSE /\ UNCHANGED <<start, todo, held, known, process, down, crash>>
        /\ Orphaned
    BY <1>6 DEF RunnerDies
  <2>2. CASE kind = "uml" /\ guarded = "yes"
    <3>1. term' = TRUE /\ UNCHANGED <<kind, alive, stage, guarded, stuck, short, adrift>>
      BY <2>1, <2>2 DEF Orphaned
    <3>2. ProcTypeOK' /\ Ends
      BY <1>1, <2>1, <3>1 DEF ProcTypeOK, Ends, MachineInv, Leaderless, Forked, Started
    <3> QED
      BY <1>1, <2>1, <3>2, EndsKeep DEF Types, MachineTypeOK
  <2>3. CASE ~(kind = "uml" /\ guarded = "yes")
    <3>1. \E ps : Kill(ps)
      BY <2>1, <2>3 DEF Orphaned, Kill
    <3>2. ProcTypeOK' /\ Ends
      BY <2>1, <3>1, KillEnds DEF Ends
    <3> QED
      BY <1>1, <2>1, <3>2, EndsKeep DEF Types, MachineTypeOK
  <2> QED
    BY <2>2, <2>3
<1> QED
  BY <1>1, <1>2, <1>3, <1>4, <1>5, <1>6 DEF MachineInv, Types, MachineTypeOK

\* A machine that gives up on its leader.
LEMMA GivesUpKeeps == ASSUME MachineInv, ReapGivesUp PROVE MachineInv'
<1>1. /\ down = "kill" /\ down' = "helpers" /\ adrift' = adrift \cup {"leader"}
      /\ UNCHANGED <<kind, alive, stage, guarded, stuck, term, short>>
      /\ UNCHANGED <<runner, start, todo, held, known, process, crash>>
  BY DEF ReapGivesUp
<1>2. Types'
  BY <1>1 DEF MachineInv, Types, MachineTypeOK, ProcTypeOK, Process
<1>3. Parts' /\ Leading' /\ Leaderless' /\ Forked'
  BY <1>1 DEF MachineInv, Parts, Leading, Leaderless, Forked, Started
<1>4. Helped' /\ Ending' /\ Keeping' /\ DownMeansDown'
  BY <1>1 DEF MachineInv, Helped, Ending, Keeping, DownMeansDown
<1> QED
  BY <1>2, <1>3, <1>4 DEF MachineInv

\* The steps of a shutdown that signal nobody, and those that only learn or
\* forget something.
LEMMA DownKeeps ==
    ASSUME MachineInv, runner,
           \/ DownBegins \/ DownAsked \/ DownRaises \/ ReapEnds \/ KillHelpers \/ Release
           \/ ReleaseRaises \/ ChildExits \/ CrashDone
    PROVE  MachineInv'
<1>1. Types /\ ProcTypeOK
  BY DEF MachineInv, Types, MachineTypeOK
<1>2. CASE KillHelpers
  <2>1. /\ down = "helpers" /\ down' = "release" /\ (\E gone : known \cap Helpers \subseteq gone /\ End(gone))
        /\ UNCHANGED <<kind, stage, guarded, stuck, term, short>>
        /\ UNCHANGED <<runner, start, todo, held, known, process, crash>>
    BY <1>2 DEF KillHelpers
  <2>2. /\ alive' \subseteq alive \ (known \cap Helpers) /\ alive' \subseteq Process
        /\ adrift \subseteq adrift' /\ adrift' \subseteq Process
        /\ Leaderless' /\ Forked'
    BY <2>1, EndLeaves
  <2>3. Types'
    BY <1>1, <2>1, <2>2 DEF Types, MachineTypeOK, ProcTypeOK
  <2>4. kind = "qemu" => alive' \cap Helpers = {}
    BY <2>1, <2>2 DEF MachineInv, Helped, Ending
  <2>5. Parts' /\ Leading'
    BY <2>1, <2>2 DEF MachineInv, Parts, Leading, Started
  <2>6. Helped' /\ Ending' /\ Keeping' /\ DownMeansDown'
    BY <2>1, <2>2, <2>4 DEF MachineInv, Helped, Ending, Keeping, DownMeansDown
  <2> QED
    BY <2>2, <2>3, <2>5, <2>6 DEF MachineInv
<1>3. CASE Release
  <2>1. /\ down = "release" /\ down' = "done" /\ known' = {}
        /\ held' = held \ ({"rundir"} \cup (known \cap {"sockdir"}))
        /\ UNCHANGED procVars /\ UNCHANGED <<runner, start, todo, process, crash>>
    BY <1>3 DEF Release
  <2>2. "leader" \in adrift \/ "leader" \notin alive
    BY <2>1, PastTheLeader
  <2>3. Types'
    BY <1>1, <2>1 DEF procVars, Types, MachineTypeOK, ProcTypeOK
  <2>4. Parts' /\ Leading' /\ Leaderless' /\ Forked'
    BY <2>1 DEF procVars, MachineInv, Parts, Leading, Leaderless, Forked, Started
  <2>5. Helped' /\ Ending' /\ Keeping'
    BY <2>1 DEF procVars, MachineInv, Helped, Ending, Keeping
  <2>6. alive \subseteq BeyondReach
    <3>1. CASE "leader" \in adrift
      BY <1>1, <3>1 DEF BeyondReach, ProcTypeOK
    <3>2. CASE kind = "qemu" /\ "leader" \notin adrift
      <4>1. alive \cap Helpers = {}
        BY <2>1, <3>2 DEF MachineInv, Helped
      <4> QED
        BY <2>2, <3>2, <4>1 DEF MachineInv, Parts, Forked, BeyondReach, Helpers
    <3>3. CASE kind = "uml" /\ "leader" \notin adrift
      BY <2>2, <3>3 DEF MachineInv, Leading, Leaderless, BeyondReach
    <3>4. CASE kind = "container" /\ "leader" \notin adrift
      BY <2>2, <3>4 DEF MachineInv, Leading, Leaderless, BeyondReach
    <3> QED
      BY <1>1, <3>1, <3>2, <3>3, <3>4 DEF ProcTypeOK
  <2>7. start = "up" => held' = {}
    BY <1>1, <2>1 DEF MachineInv, Keeping, Types, MachineTypeOK, Resource
  <2>8. DownMeansDown'
    BY <2>1, <2>6, <2>7 DEF procVars, DownMeansDown, BeyondReach
  <2> QED
    BY <2>3, <2>4, <2>5, <2>8 DEF MachineInv
<1>4. CASE \/ DownBegins \/ DownAsked \/ DownRaises \/ ReapEnds \/ ReleaseRaises
           \/ ChildExits \/ CrashDone
  <2>1. /\ UNCHANGED procVars /\ UNCHANGED <<runner, start, todo, held, known>>
        /\ process' = process \/ (process' = "exited" /\ process = "running" /\ "leader" \notin alive)
        /\ \/ down' = down
           \/ down' \in {"asking", "reap"} /\ start \notin {"launch", "spawn", "spawning"}
           \/ down' = "raised" /\ down # "no"
           \/ down \in {"term", "kill"} /\ down' = "helpers" /\ process = "exited"
        /\ crash' \in {crash, "dead"}
    <3>1. CASE DownBegins
      BY <3>1 DEF DownBegins
    <3>2. CASE DownAsked \/ DownRaises
      BY <3>2 DEF DownAsked, DownRaises, MachineInv, Ending
    <3>3. CASE ReapEnds \/ ReleaseRaises
      BY <3>3 DEF ReapEnds, ReleaseRaises
    <3>4. CASE ChildExits \/ CrashDone
      BY <3>4 DEF ChildExits, CrashDone
    <3> QED
      BY <1>4, <3>1, <3>2, <3>3, <3>4
  <2>2. Types'
    <3>1. ProcTypeOK'
      BY <1>1, <2>1 DEF procVars, ProcTypeOK
    <3>2. process' \in {"none", "running", "exited"} /\ crash' \in {"no", "asked", "dead"}
      BY <1>1, <2>1 DEF Types, MachineTypeOK
    <3>3. down' \in {"no", "asking", "reap", "term", "kill", "helpers", "release", "done", "raised"}
      BY <1>1, <2>1 DEF Types, MachineTypeOK
    <3> QED
      BY <1>1, <2>1, <3>1, <3>2, <3>3 DEF Types, MachineTypeOK
  <2>3. Parts' /\ Leading' /\ Leaderless' /\ Forked'
    BY <2>1 DEF procVars, MachineInv, Parts, Leading, Leaderless, Forked, Started
  <2>4. Helped' /\ Ending' /\ Keeping' /\ DownMeansDown'
    BY <2>1 DEF procVars, MachineInv, Helped, Ending, Keeping, DownMeansDown, BeyondReach
  <2> QED
    BY <2>2, <2>3, <2>4 DEF MachineInv
<1> QED
  BY <1>2, <1>3, <1>4

\* Every step of a machine is one of these, or only its channel's.
LEMMA MachineStep == ASSUME MachineInv, [Next]_vars PROVE MachineInv'
<1>1. CASE UNCHANGED <<procVars, machineVars>>
  <2>1. Types'
    BY <1>1 DEF MachineInv, procVars, machineVars, Types, MachineTypeOK, ProcTypeOK
  <2> QED
    BY <1>1, <2>1 DEF MachineInv, procVars, machineVars, Parts, Leading, Leaderless, Forked,
       Helped, Ending, Keeping, DownMeansDown, BeyondReach, Started
<1>2. CASE Lives
  BY <1>2, ProcessEnds, ProcessBegins, BridgeKeeps, ForkKeeps DEF Lives, Apart, ProcNext
<1>3. CASE runner /\ RunnerSteps
  <2>1. CASE HostReceives \/ HangUp \/ \E c \in Client : GivesUp(c)
    BY <2>1, <1>1 DEF HostReceives, HangUp, GivesUp
  <2>2. CASE \E c \in Caller : Ask(c)
    BY <2>2, <1>1 DEF Ask
  <2> QED
    BY <1>3, <2>1, <2>2, LaunchKeeps, BootKeeps, SignalsKeep, GivesUpKeeps, DownKeeps DEF RunnerSteps, Client
<1>4. CASE AgentServes \/ AgentAnswers
  BY <1>4, <1>1 DEF AgentServes, AgentAnswers
<1>5. CASE UNCHANGED vars
  BY <1>5, <1>1 DEF vars, machineVars
<1> QED
  BY <1>2, <1>3, <1>4, <1>5 DEF Next

(* What a machine's processes, descriptors and lists have to do with one   *)
(* another, whichever process dies and whenever it is shut down: the       *)
(* helpers are on a list until they are killed, and what outlives its      *)
(* parent is an init without its death signal or is adrift (machine.py:354,*)
(* main.rs:295).                                                           *)
THEOREM MachineIsKept == Spec => [](TypeOK /\ MachineInv)
<1>1. Spec => []MachineInv
  <2>1. MachineInv /\ [Next]_vars => MachineInv'
    BY MachineStep
  <2> QED
    BY MachineInit, <2>1, PTL DEF Spec
<1>2. MachineInv /\ RpcInv => TypeOK
  BY DEF MachineInv, Types, MachineTypeOK, RpcInv, TypeOK
<1> QED
  BY <1>1, <1>2, ChannelInvariant, PTL

(* When a shutdown has returned nothing of the guest runs but what is      *)
(* beyond its reach, and a guest that had come up has left no file, socket *)
(* or descriptor behind (machine.py:354, 412).                             *)
THEOREM ShutdownLeavesNothing == Spec => []DownMeansDown
<1>1. MachineInv => DownMeansDown
  BY DEF MachineInv
<1> QED
  BY <1>1, MachineIsKept, PTL
=============================================================================
