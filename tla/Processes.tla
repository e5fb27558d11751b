----------------------------- MODULE Processes -----------------------------
(***************************************************************************)
(* The host processes one guest is made of, under each backend, and what   *)
(* every signal does to them (pkgs/uml-runner/uml_runner/backend.py,       *)
(* container.py, and pkgs/uml-passt-bridge/src/main.rs).                   *)
(*                                                                         *)
(*   uml        the bridge, which forks passt and the kernel               *)
(*   qemu       QEMU; virtiofsd, a second one for the artifacts and passt  *)
(*              are children of the runner                                 *)
(*   container  the launcher; crun under it, the guest's init under crun;  *)
(*              pasta and the tap relay are children of the launcher       *)
(*                                                                         *)
(* The process the runner spawned is the `leader' of all three.  A child   *)
(* that asked for a death signal goes when its parent does; one that did   *)
(* not, or asked too late, stays: the bridge's two, and whatever a passt   *)
(* has forked ("passt does", machine.py:377).                              *)
(***************************************************************************)
EXTENDS Naturals

VARIABLES kind,      \* MachineSpec.backend
          alive,     \* the processes that run
          stage,     \* how far the leader is
          guarded,   \* the guest's own death signal: "none" before its init
                     \* is there, "late" when it was asked for in vain
          stuck,     \* the bridge reads the rest of a frame passt never sent
          term,      \* the bridge's SHUTDOWN, or a SIGTERM QEMU has had
          short,     \* the launcher's /tmp/uml-crun-* directory is there
          adrift     \* outlived the parent that was to end them; the leader,
                     \* if it lived through the SIGKILL of a shutdown

procVars == <<kind, alive, stage, guarded, stuck, term, short, adrift>>

Process == {"leader", "kernel", "passt", "fork", "vfsd", "artd", "crun", "init", "pasta", "tap"}

ProcTypeOK ==
    /\ kind \in {"uml", "qemu", "container"}
    /\ alive \subseteq Process
    /\ stage \in {"none", "new", "forked", "waiting", "relay", "ending"}
    /\ guarded \in {"none", "born", "yes", "late"}
    /\ stuck \in BOOLEAN /\ term \in BOOLEAN /\ short \in BOOLEAN /\ adrift \subseteq Process

ProcInit ==
    /\ kind \in {"uml", "qemu", "container"}
    /\ alive = {} /\ stage = "none" /\ guarded = "none"
    /\ stuck = FALSE /\ term = FALSE /\ short = FALSE /\ adrift = {}

\* The guest's own process, whose pid Machine.alive asks for.  A container's
\* is the launcher.
GuestProcess == IF kind = "uml" THEN "kernel" ELSE "leader"
Alive == GuestProcess \in alive

\* Seeded bug: no setpriv in front of the container's init.
WhatStaysBare(gone) ==
    (alive \ gone) \ (IF kind = "container" /\ "leader" \notin alive \ gone
                      THEN {"crun", "pasta", "tap"} ELSE {})

\* What goes with them when the processes `gone' go.
WhatStays(gone) ==
    LET left == alive \ gone
        crunGoes == kind = "container" /\ "leader" \notin left
        initGoes == (crunGoes \/ "crun" \notin left) /\ guarded = "yes" IN
       left \ ((IF crunGoes THEN {"crun", "pasta", "tap"} ELSE {})
                 \cup (IF kind = "container" /\ initGoes THEN {"init"} ELSE {}))

\* Those of a parent that goes for whom nobody has a signal any more.
Orphans(gone) ==
    {p \in alive \ gone :
       \/ kind = "uml" /\ "leader" \in gone /\ p \in {"kernel", "passt", "fork"}
       \/ "passt" \in gone /\ p = "fork"}

End(gone) ==
    /\ alive' = WhatStays(gone)
    /\ adrift' = adrift \cup Orphans(gone)

\* Any process goes: a poweroff, a panic, a file that is not a kernel, a port
\* passt cannot bind, the kernel of the host that wants its memory back.  The
\* bridge holds passt's end too, so one that was in the middle of a frame
\* reads for ever.
Dies(p) ==
    /\ p \in alive
    /\ End({p})
    /\ stuck' \in {stuck, stuck \/ (kind = "uml" /\ p = "passt" /\ stage = "relay" /\ "leader" \in alive)}
    /\ UNCHANGED <<kind, stage, guarded, term, short>>

PasstForks ==
    /\ "passt" \in alive /\ "fork" \notin alive
    /\ alive' = alive \cup {"fork"}
    /\ adrift' = (adrift \ {"fork"}) \cup {p \in {"fork"} : "passt" \in adrift}
    /\ UNCHANGED <<kind, stage, guarded, stuck, term, short>>

-----------------------------------------------------------------------------
(* The bridge.                                                             *)

\* A bridge that cannot fork the second time panics, and has the first.
BridgeForks ==
    /\ kind = "uml" /\ stage = "new" /\ "leader" \in alive
    /\ \/ /\ alive' = alive \cup {"passt", "kernel"}
          /\ UNCHANGED adrift
       \/ /\ alive' = (alive \ {"leader"}) \cup {"passt"}
          /\ adrift' = adrift \cup {"passt"}
    /\ stage' = "forked"
    /\ UNCHANGED <<kind, guarded, stuck, term, short>>

\* The signal handlers, and the death signal that is now SIGTERM.
BridgeGuards ==
    /\ kind = "uml" /\ stage = "forked" /\ "leader" \in alive
    /\ stage' = "relay" /\ guarded' = "yes"
    /\ UNCHANGED <<kind, alive, stuck, term, short, adrift>>

\* The loop sees SHUTDOWN, or one of its children gone, and kills both.
BridgeDue ==
    /\ kind = "uml" /\ stage = "relay" /\ "leader" \in alive /\ ~stuck
    /\ term \/ ~ {"kernel", "passt"} \subseteq alive
BridgeEnds ==
    /\ BridgeDue
    /\ End({"leader", "kernel", "passt"})
    /\ UNCHANGED <<kind, stage, guarded, stuck, term, short>>

-----------------------------------------------------------------------------
(* The launcher.                                                           *)

\* A directory for the console socket, and crun.
LauncherBegins ==
    /\ kind = "container" /\ stage = "new" /\ "leader" \in alive
    /\ short' = TRUE
    /\ alive' = alive \cup {"crun"}
    /\ stage' = "forked"
    /\ UNCHANGED <<kind, guarded, stuck, term, adrift>>

\* The handler of SIGTERM; then it waits for the console or for crun's end.
LauncherWaits ==
    /\ kind = "container" /\ stage = "forked" /\ "leader" \in alive
    /\ stage' = "waiting"
    /\ UNCHANGED <<kind, alive, guarded, stuck, term, short, adrift>>

CrunStarts ==
    /\ kind = "container" /\ "crun" \in alive /\ guarded = "none"
    /\ alive' = alive \cup {"init"}
    /\ guarded' = "born"
    /\ UNCHANGED <<kind, stage, stuck, term, short, adrift>>

\* setpriv asks for SIGKILL at crun's death.  It does not ask whether crun
\* is still there.
InitGuards ==
    /\ "init" \in alive /\ guarded = "born"
    /\ guarded' = IF "crun" \in alive THEN "yes" ELSE "late"
    /\ UNCHANGED <<kind, alive, stage, stuck, term, short, adrift>>

\* crun ends with its container, and when it cannot make one.
CrunEnds ==
    /\ "crun" \in alive /\ "init" \notin alive
    /\ alive' = alive \ {"crun"}
    /\ UNCHANGED <<kind, stage, guarded, stuck, term, short, adrift>>

\* The console is here: the uplink and the segment, as far as they are asked
\* for and start.  A pasta that is gone a moment later ends the guest.
LauncherHelps ==
    /\ kind = "container" /\ stage = "waiting" /\ {"leader", "crun", "init"} \subseteq alive
    /\ \/ /\ \E hs \in SUBSET {"pasta", "tap"} : alive' = alive \cup hs
          /\ stage' = "relay"
       \/ /\ stage' = "ending"
          /\ UNCHANGED alive
    /\ UNCHANGED <<kind, guarded, stuck, term, short, adrift>>

\* The `finally' of main: crun kill, the helpers, crun delete.
LauncherEnds ==
    /\ kind = "container" /\ "leader" \in alive
    /\ \/ stage \in {"waiting", "relay"} /\ "crun" \notin alive
       \/ stage = "ending"
    /\ alive' = {} /\ short' = FALSE
    /\ UNCHANGED <<kind, stage, guarded, stuck, term, adrift>>

-----------------------------------------------------------------------------
(* The signals.                                                            *)

\* Every process of the leader's group.  The kernel is in it, and was seen
\* to outlive a signal to it.
Group == IF kind = "uml" THEN {"leader", "passt", "fork", "kernel"} ELSE {"leader"}

\* Whom a signal to the group ends.  The group is looked up by the leader: of
\* one that is gone there may be nothing left to look up.
Reached == {Group, Group \ {"kernel"}} \cup (IF "leader" \in alive THEN {} ELSE {{}})

Kill(ps) ==
    /\ End(ps)
    /\ UNCHANGED <<kind, stage, guarded, stuck, term, short>>

KillGroup == \E gone \in Reached : Kill(gone)

\* A SIGTERM to the group.  A leader that has its handler lives on: the
\* bridge ends by its loop, QEMU by itself, the launcher runs `crun kill',
\* which does nothing when there is no container yet.
TermGroup ==
    CASE kind = "uml" /\ stage = "relay" /\ "leader" \in alive ->
           /\ term' = TRUE
           /\ \E gone \in SUBSET {"passt", "fork", "kernel"} :
                 /\ End(gone)
                 /\ stuck' \in {stuck, stuck \/ "passt" \in alive \cap gone}
           /\ UNCHANGED <<kind, stage, guarded, short>>
      [] kind = "container" /\ stage \in {"waiting", "relay", "ending"} /\ "leader" \in alive ->
           /\ alive' = alive \ {"init"}
           /\ UNCHANGED <<kind, stage, guarded, stuck, term, short, adrift>>
      [] kind = "qemu" ->
           /\ term' = TRUE
           /\ UNCHANGED <<kind, alive, stage, guarded, stuck, short, adrift>>
      [] OTHER -> KillGroup

\* The runner is gone, by whatever means, and its children have what they
\* asked for: die_with_parent's SIGKILL, or the bridge's SIGTERM.
Orphaned ==
    IF kind = "uml" /\ guarded = "yes"
    THEN /\ term' = TRUE
         /\ UNCHANGED <<kind, alive, stage, guarded, stuck, short, adrift>>
    ELSE /\ End({"leader", "vfsd", "artd"} \cup (IF kind = "qemu" THEN {"passt"} ELSE {}))
         /\ UNCHANGED <<kind, stage, guarded, stuck, term, short>>

ProcNext ==
    \/ \E p \in Process : Dies(p)
    \/ PasstForks \/ BridgeForks \/ BridgeGuards \/ BridgeEnds
    \/ LauncherBegins \/ LauncherWaits \/ CrunStarts \/ InitGuards \/ CrunEnds
    \/ LauncherHelps \/ LauncherEnds
=============================================================================
