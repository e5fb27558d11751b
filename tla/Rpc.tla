--------------------------------- MODULE Rpc ---------------------------------
(***************************************************************************)
(* The calls of a machine to the agent of its guest (pkgs/uml-runner/      *)
(* uml_runner/arpyc.py, agent.py, Machine._ask): one channel, any number   *)
(* of callers, one request served at a time.                               *)
(*                                                                         *)
(* A call takes a sequence number, leaves a future under it in `_pending'  *)
(* and awaits it with a deadline.  The deadline takes the caller away and  *)
(* leaves the number, so the reply may still come.  A reply finds its      *)
(* caller by the number alone.  That an answer is the answer to what the   *)
(* caller asked is not in the protocol: a message carries `by' here only   *)
(* so that it can be said.                                                 *)
(*                                                                         *)
(* When a process dies and when an end of the channel is closed is for the *)
(* module that composes this one.                                          *)
(***************************************************************************)
EXTENDS Naturals, Sequences

CONSTANTS Caller,       \* the tasks that ask this guest something
          Down,         \* the task that shuts the machine down
          MaxCalls      \* bounds how often the callers ask

ASSUME CallerAssumption == Down \notin Caller
ASSUME MaxCallsAssumption == MaxCalls \in Nat

Client == Caller \cup {Down}

VARIABLES conn,         \* Machine._conn: none, open, or closed under it
          seq,          \* AsyncConnection._seq
          pending,      \* the keys of AsyncConnection._pending
          call,         \* the last call of each client
          requests,     \* written to the guest and not yet read by its agent
          serving,      \* what the agent executes
          replies       \* written to the host and not yet read

rpcVars == <<conn, seq, pending, call, requests, serving, replies>>

Request == [seq : Nat, by : Client]
Reply == [seq : Nat, by : Client, how : {"value", "raised"}]
Nothing == [seq |-> 0, by |-> Down, how |-> "nothing"]

\* waiting   awaits its future
\* reply     got what is in `got'
\* timeout   the deadline of _ask, a MachineError
\* eof       the channel closed under it, a MachineError
\* oserror   the write failed; _ask does not turn this into a MachineError
CallState == {"idle", "waiting", "reply", "timeout", "eof", "oserror"}
Calls == [st : CallState, seq : Nat, got : Reply \cup {Nothing}]

RpcTypeOK ==
    /\ conn \in {"none", "open", "closed"}
    /\ seq \in Nat
    /\ pending \subseteq Nat
    /\ call \in [Client -> Calls]
    /\ requests \in Seq(Request)
    /\ serving \in Request \cup {Nothing}
    /\ replies \in Seq(Reply)

RpcInit ==
    /\ conn = "none" /\ seq = 0 /\ pending = {}
    /\ call = [c \in Client |-> [st |-> "idle", seq |-> 0, got |-> Nothing]]
    /\ requests = <<>> /\ serving = Nothing /\ replies = <<>>

Waiting(c) == call[c].st = "waiting"
NewCall(c, st) == [call EXCEPT ![c] = [st |-> st, seq |-> seq, got |-> Nothing]]

-----------------------------------------------------------------------------
(* The host's end.                                                         *)

\* AsyncConnection.call.  The number is taken and the future registered
\* whatever becomes of the write.  `peer' says somebody still holds the other
\* end; without one the write fails.  On a channel that is closed os.write
\* gets the number of a descriptor that is gone: it fails, or by then the
\* number is another file's and the caller awaits a future nobody has.
Call(c, peer) ==
    /\ ~Waiting(c)
    /\ conn # "none"
    /\ c = Down \/ seq < MaxCalls
    /\ seq' = seq + 1
    /\ pending' = pending \cup {seq}
    /\ \/ /\ conn = "open" /\ peer
          /\ call' = NewCall(c, "waiting")
          /\ requests' = Append(requests, [seq |-> seq, by |-> c])
       \/ /\ conn = "closed" \/ ~peer
          /\ call' = NewCall(c, "oserror")
          /\ UNCHANGED requests
       \/ /\ conn = "closed"
          /\ call' = NewCall(c, "waiting")
          /\ UNCHANGED requests
    /\ UNCHANGED <<conn, serving, replies>>

\* Seeded bug: replies answer in the order of the questions.
ReceiveInOrder ==
    /\ conn = "open" /\ replies # <<>>
    /\ LET r == Head(replies)
           first(c) == \A d \in Client : Waiting(d) => call[c].seq <= call[d].seq IN
          /\ pending' = pending \ {r.seq}
          /\ call' = [c \in Client |-> IF Waiting(c) /\ first(c)
                                       THEN [st |-> "reply", seq |-> call[c].seq, got |-> r]
                                       ELSE call[c]]
    /\ replies' = Tail(replies)
    /\ UNCHANGED <<conn, seq, requests, serving>>

\* _serve_one on a reply: its number leaves `_pending'; it goes to whoever
\* awaits that number, and nowhere when the caller is gone.
Receive ==
    /\ conn = "open" /\ replies # <<>>
    /\ LET r == Head(replies) IN
          /\ pending' = pending \ {r.seq}
          /\ call' = [c \in Client |->
                        IF Waiting(c) /\ r.seq \in pending /\ call[c].seq = r.seq
                        THEN [st |-> "reply", seq |-> call[c].seq, got |-> r]
                        ELSE call[c]]
    /\ replies' = Tail(replies)
    /\ UNCHANGED <<conn, seq, requests, serving>>

\* The deadline of Machine._ask: wait_for cancels the call and its future.
\* `_pending' keeps the number.
Timeout(c) ==
    /\ Waiting(c)
    /\ call' = [call EXCEPT ![c].st = "timeout"]
    /\ UNCHANGED <<conn, seq, pending, requests, serving, replies>>

\* AsyncConnection.close: every future still registered gets an EOFError.
\* What is left of the other side's words is never read.
CloseTo(how) ==
    /\ conn' = how
    /\ pending' = {}
    /\ call' = [c \in Client |->
                  IF Waiting(c) /\ call[c].seq \in pending
                  THEN [call[c] EXCEPT !.st = "eof"]
                  ELSE call[c]]
    /\ requests' = <<>> /\ replies' = <<>>
    /\ UNCHANGED <<seq, serving>>

-----------------------------------------------------------------------------
(* The guest's end.  The agent serves one request at a time, and a command *)
(* that runs holds up every other.                                         *)

\* _serve_one on a request, as far as the command it runs.
Serve ==
    /\ serving = Nothing /\ requests # <<>>
    /\ serving' = Head(requests)
    /\ requests' = Tail(requests)
    /\ UNCHANGED <<conn, seq, pending, call, replies>>

\* The rest of _dispatch: the result of the command, or its exception.
Answer(how) ==
    /\ serving # Nothing
    /\ replies' = IF conn = "open"
                  THEN Append(replies, [seq |-> serving.seq, by |-> serving.by, how |-> how])
                  ELSE replies
    /\ serving' = Nothing
    /\ UNCHANGED <<conn, seq, pending, call, requests>>

-----------------------------------------------------------------------------
(* Whoever got a reply got the one to its own question: a late reply to a  *)
(* caller that gave up answers nobody else (arpyc.py:251, machine.py:562). *)
AnswersItsOwn ==
    \A c \in Client :
       call[c].st = "reply" => call[c].got.by = c /\ call[c].got.seq = call[c].seq

\* A message that is under way answers, or asks for, whoever waits for its
\* number.
Addressed(m) ==
    /\ m.seq < seq
    /\ \A c \in Client : Waiting(c) /\ call[c].seq = m.seq => m.by = c

(* Why it holds: a number is taken once, so two who wait have two of them, *)
(* and no message has a number that is still to be taken (arpyc.py:279).   *)
RpcInv ==
    /\ RpcTypeOK
    /\ \A c \in Client : Waiting(c) => call[c].seq < seq
    /\ \A b, c \in Client : Waiting(b) /\ Waiting(c) /\ call[b].seq = call[c].seq => b = c
    /\ \A i \in 1..Len(requests) : Addressed(requests[i])
    /\ serving # Nothing => Addressed(serving)
    /\ \A i \in 1..Len(replies) : Addressed(replies[i])
    /\ AnswersItsOwn
=============================================================================
