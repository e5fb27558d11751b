------------------------------- MODULE Control -------------------------------
(***************************************************************************)
(* The controller (pkgs/uml/uml/control.py): a paused drive, and the       *)
(* clients that reach into it over <out>/control.sock.                     *)
(*                                                                         *)
(* Each connection is a task of its own, one request long:                 *)
(*                                                                         *)
(*   sent   the request is on the socket and its task has not looked yet   *)
(*   busy   the request was accepted and its code runs: Session.run for    *)
(*          `run', Python or pytest against the guests for "exec", which   *)
(*          stands for exec, inject and pytest                             *)
(*   reply  `await stream.send(reply)'                                     *)
(***************************************************************************)
EXTENDS Session

VARIABLES resume,       \* Controller._resume: no event, one unset, one set
          continuing,   \* Controller._continuing
          cli,          \* where each client's request is
          ask           \* the operation it asked for

controlVars == <<resume, continuing, cli, ask>>

Op == {"state", "exec", "run", "continue"}

ControlTypeOK ==
    /\ resume \in {"none", "waiting", "set"}
    /\ continuing \in BOOLEAN
    /\ cli \in [Client -> {"idle", "sent", "busy", "reply"}]
    /\ ask \in [Client -> Op]

ControlInit ==
    /\ resume = "none"
    /\ continuing = FALSE
    /\ cli = [c \in Client |-> "idle"]
    /\ ask = [c \in Client |-> "state"]

Paused == resume # "none"

\* The guests a task uses: a phase its claims, from the moment it is started;
\* Python sent to the guests, all of them.
Uses(t) ==
    IF at[t] # "idle" THEN Claims(spec, job[t])
    ELSE IF t \in Client /\ cli[t] = "busy" THEN Guest
    ELSE {}

-----------------------------------------------------------------------------

\* A client connects and sends one request.  Not between `_resume.set()' and
\* the drive taking over: the loop runs a task that is ready before it polls
\* its sockets again, so a line not yet received waits until pause() is over.
\* A request already received may still be handled in that gap.
Ask(c, op) ==
    /\ cli[c] = "idle"
    /\ resume # "set"
    /\ cli' = [cli EXCEPT ![c] = "sent"]
    /\ ask' = [ask EXCEPT ![c] = op]
    /\ IF op = "run" THEN \E p \in Phase : job' = [job EXCEPT ![c] = p]
                     ELSE UNCHANGED job
    /\ UNCHANGED <<spec, state, holder, errors, at, ahead, resume, continuing>>

\* session.run is called: its first drain is asked for.
Enters(c) ==
    /\ at' = [at EXCEPT ![c] = "drain"]
    /\ ahead' = [ahead EXCEPT ![c] = Draining]

\* Seeded bug: a request is served whether or not the drive is paused.
HandleAnyTime(c) ==
    /\ cli[c] = "sent"
    /\ continuing' = (continuing \/ ask[c] = "continue")
    /\ cli' = [cli EXCEPT ![c] = IF ask[c] \in {"exec", "run"} THEN "busy" ELSE "reply"]
    /\ IF ask[c] = "run" THEN Enters(c) ELSE UNCHANGED <<at, ahead>>
    /\ UNCHANGED <<spec, state, holder, errors, job, resume, ask>>

\* Controller.handle up to its first await: `state' is always answered, the
\* rest is refused unless the drive is paused, and that is asked once.
Handle(c) ==
    /\ cli[c] = "sent"
    /\ UNCHANGED <<spec, state, holder, errors, job, resume, ask>>
    /\ \/ /\ ask[c] = "state" \/ ~ Paused
          /\ cli' = [cli EXCEPT ![c] = "reply"]
          /\ UNCHANGED <<continuing, at, ahead>>
       \/ /\ ask[c] = "continue" /\ Paused
          /\ continuing' = TRUE
          /\ cli' = [cli EXCEPT ![c] = "reply"]
          /\ UNCHANGED <<at, ahead>>
       \/ /\ ask[c] = "exec" /\ Paused
          /\ cli' = [cli EXCEPT ![c] = "busy"]
          /\ UNCHANGED <<continuing, at, ahead>>
       \/ /\ ask[c] = "run" /\ Paused
          /\ cli' = [cli EXCEPT ![c] = "busy"]
          /\ Enters(c)
          /\ UNCHANGED continuing

\* The Python or the tests of an exec, inject or pytest are over; an error of
\* theirs is the reply.
ExecEnds(c) ==
    /\ cli[c] = "busy" /\ ask[c] = "exec"
    /\ cli' = [cli EXCEPT ![c] = "reply"]
    /\ UNCHANGED <<sessionVars, resume, continuing, ask>>

\* The phase run by hand moves on, and its answer is the reply.
HandRunSteps(c) ==
    /\ cli[c] = "busy" /\ ask[c] = "run"
    /\ RunBegins(c) \/ BodyEnds(c, "passing") \/ BodyEnds(c, "failing")
    /\ UNCHANGED controlVars

HandRunEnds(c) ==
    /\ cli[c] = "busy" /\ ask[c] = "run"
    /\ RunPassed(c) \/ RunFailed(c)
    /\ cli' = [cli EXCEPT ![c] = "reply"]
    /\ UNCHANGED <<resume, continuing, ask>>

\* Seeded bug: any reply resumes the drive.
ReplyResumes(c) ==
    /\ cli[c] = "reply"
    /\ cli' = [cli EXCEPT ![c] = "idle"]
    /\ IF Paused THEN continuing' = FALSE /\ resume' = "set" ELSE UNCHANGED <<continuing, resume>>
    /\ UNCHANGED <<sessionVars, ask>>

\* The reply is sent.  Only then is a `continue' acted on, whoever asked.
Reply(c) ==
    /\ cli[c] = "reply"
    /\ cli' = [cli EXCEPT ![c] = "idle"]
    /\ IF continuing /\ Paused
         THEN continuing' = FALSE /\ resume' = "set"
         ELSE UNCHANGED <<continuing, resume>>
    /\ UNCHANGED <<sessionVars, ask>>

\* A client's task is cancelled with the server it belongs to.
ClientCancelled(c) ==
    /\ cli[c] # "idle"
    /\ cli' = [cli EXCEPT ![c] = "idle"]
    /\ IF at[c] # "idle" THEN RunCancelled(c) ELSE UNCHANGED sessionVars
    /\ UNCHANGED <<resume, continuing, ask>>

=============================================================================
