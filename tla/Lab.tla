-------------------------------- MODULE Lab --------------------------------
(***************************************************************************)
(* The guests of a run brought up together and taken down together         *)
(* (pkgs/uml/uml/session.py boot, _start_all, teardown; pkgs/uml-runner/   *)
(* uml_runner/harness.py machines; net.py): their forwards, which share    *)
(* the host's ports with everybody, and the segment between them.          *)
(*                                                                         *)
(* A guest is one thing here: Guest tells how it starts and ends.  There   *)
(* is one segment; segments share nothing.  Two members have the two ends  *)
(* of one socketpair; otherwise every member has a pair with the host,     *)
(* which copies what comes out of one to all the others.                   *)
(***************************************************************************)
EXTENDS Forward, Sequences

CONSTANTS Guest,
          Scenes,      \* what is booted: the guests in order, the members of
                       \* the segment, the rules, the sockets others may open
          Room,        \* frames a socketpair holds
          Burst        \* _BURST

\* The order names each guest of the run once; the rules are those Nix wrote.
ASSUME LabAssumption ==
    /\ "other" \notin Guest
    /\ Room \in Nat /\ Burst \in Nat \ {0}
    /\ \A s \in Scenes :
          /\ s.order \in Seq(Guest) /\ s.members \subseteq Guest
          /\ \A i, j \in 1..Len(s.order) : s.order[i] = s.order[j] => i = j
          /\ s.rules \in [Guest -> SUBSET Rule]

VARIABLES scene,
          at,         \* how far boot and teardown are
          resolved,   \* guests that went through resolve_forward
          rules,      \* Machine.forward
          taken,      \* boot's `taken'
          bound,      \* listening sockets on the host, with whose they are
          guest,      \* each guest as its Machine has it
          hostEnds,   \* Lan._guest_ends
          ports,      \* Lan._ports
          reading,    \* ports with a reader
          wire,       \* how many frames from a member are not read yet
          inbox       \* and how many for it

labVars == <<scene, at, resolved, rules, taken, bound, guest>>
lanVars == <<hostEnds, ports, reading, wire, inbox>>
vars == <<labVars, lanVars>>

Guests == {scene.order[i] : i \in DOMAIN scene.order}
Members == scene.members
Hub == Cardinality(Members) # 2

TypeOK ==
    /\ scene \in Scenes
    /\ at \in {"new", "resolving", "starting", "up", "failed", "closing", "closed"}
    /\ resolved \in 0..Cardinality(Guest)
    /\ rules \in [Guest -> SUBSET Rule] /\ taken \subseteq Loopback
    /\ guest \in [Guest -> {"no", "starting", "up", "half", "refused", "failed", "dead", "down"}]
    /\ hostEnds \subseteq Guest /\ ports \subseteq Guest /\ reading \subseteq ports
    /\ wire \in [Guest -> 0..Room] /\ inbox \in [Guest -> 0..Room]

Init ==
    /\ scene \in Scenes
    /\ at = "new" /\ resolved = 0 /\ rules = scene.rules /\ taken = {} /\ bound = {}
    /\ guest = [g \in Guest |-> "no"]
    /\ hostEnds = {} /\ ports = {} /\ reading = {}
    /\ wire = [g \in Guest |-> 0] /\ inbox = [g \in Guest |-> 0]

Alive(g) == guest[g] \in {"starting", "up", "half"}
Failed == {g \in Guests : guest[g] \in {"refused", "half", "failed"}}

\* The guest's end of its pair: open in the guest, and in the runner until
\* it is dropped there.
EndOpen(g) == Alive(g) \/ g \in hostEnds

-----------------------------------------------------------------------------
(* boot                                                                    *)

\* build_lans
BuildLans ==
    /\ at = "new"
    /\ at' = "resolving"
    /\ hostEnds' = Members
    /\ ports' = IF Hub THEN Members ELSE {}
    /\ UNCHANGED <<scene, resolved, rules, taken, bound, guest, reading, wire, inbox>>

\* resolve_forward: the next machine's rules, and a probe of all of them.
ResolveForward ==
    /\ at = "resolving" /\ resolved < Len(scene.order)
    /\ LET g == scene.order[resolved + 1]
           done == Resolve(rules[g], taken, bound) IN
       /\ rules' = [rules EXCEPT ![g] = done.rules]
       /\ taken' = done.taken
       /\ IF done.ok /\ ProbeAll(done.rules, bound)
          THEN /\ resolved' = resolved + 1 /\ UNCHANGED at
          ELSE /\ at' = "failed" /\ UNCHANGED resolved
    /\ UNCHANGED <<scene, bound, guest, lanVars>>

\* Lan.start, and _start_all begins every machine's start.
StartAll ==
    /\ at = "resolving" /\ resolved = Len(scene.order)
    /\ at' = "starting"
    /\ reading' = ports
    /\ guest' = [g \in Guest |-> IF g \in Guests THEN "starting" ELSE guest[g]]
    /\ UNCHANGED <<scene, resolved, rules, taken, bound, hostEnds, ports, wire, inbox>>

SocketsOf(g) == {s \in bound : s.who = g}

\* Its passt takes its ports, and the guest comes up or its start fails with
\* the guest half there; or passt does not start; or something else fails.
Starts(g) ==
    /\ at = "starting" /\ guest[g] = "starting"
    /\ LET args == ToArgs(rules[g]) IN
       \/ /\ PasstStarts(args, bound)
          /\ bound' = bound \cup {[address |-> s.address, port |-> s.port, to |-> s.to, who |-> g] :
                                     s \in Listens(args, bound)}
          /\ \E how \in {"up", "half"} : guest' = [guest EXCEPT ![g] = how]
       \/ /\ ~PasstStarts(args, bound)
          /\ guest' = [guest EXCEPT ![g] = "refused"]
          /\ UNCHANGED bound
       \/ /\ guest' = [guest EXCEPT ![g] = "failed"]
          /\ UNCHANGED bound
    /\ UNCHANGED <<scene, at, resolved, rules, taken, lanVars>>

\* Lan.detach
Detach == hostEnds' = {}

\* Every start is over, well or not.
AllStarted ==
    /\ at = "starting" /\ \A g \in Guests : guest[g] # "starting"
    /\ at' = IF Failed # {} THEN "failed" ELSE "up"
    /\ Detach
    /\ UNCHANGED <<scene, resolved, rules, taken, bound, guest, ports, reading, wire, inbox>>

\* ^C while they start: every start is cancelled, and boot raises where it
\* stands.
Cancelled ==
    /\ at = "starting"
    /\ at' = "failed"
    /\ guest' = [g \in Guest |-> IF guest[g] = "starting" THEN "failed" ELSE guest[g]]
    /\ UNCHANGED <<scene, resolved, rules, taken, bound, lanVars>>

\* A guest powers off, panics or is crashed by a test.
Dies(g) ==
    /\ at \in {"starting", "up"} /\ guest[g] = "up"
    /\ guest' = [guest EXCEPT ![g] = "dead"]
    /\ bound' = bound \ SocketsOf(g)
    /\ UNCHANGED <<scene, at, resolved, rules, taken, lanVars>>

\* Somebody else on the host: a service, or another session's guests, whose
\* `taken' is its own.
Other(s) ==
    /\ at \in {"new", "resolving", "starting"}
    /\ s \in scene.others /\ Binds(s.address, s.port, bound)
    /\ bound' = bound \cup {[address |-> s.address, port |-> s.port, to |-> 0, who |-> "other"]}
    /\ UNCHANGED <<scene, at, resolved, rules, taken, guest, lanVars>>

-----------------------------------------------------------------------------
(* teardown                                                                *)

TeardownBegins ==
    /\ at \in {"up", "failed"}
    /\ at' = "closing"
    /\ UNCHANGED <<scene, resolved, rules, taken, bound, guest, lanVars>>

\* Only machines boot had begun with; _shutdown never raises, what a machine does
\* is Guest's.
Shutdown(g) ==
    /\ at = "closing" /\ guest[g] \notin {"no", "down"}
    /\ guest' = [guest EXCEPT ![g] = "down"]
    /\ bound' = bound \ SocketsOf(g)
    /\ UNCHANGED <<scene, at, resolved, rules, taken, lanVars>>

\* Seeded bug: only the ports are closed.
ClosePorts == ports' = {} /\ reading' = {} /\ UNCHANGED hostEnds

\* Lan.close
CloseLans == ports' = {} /\ reading' = {} /\ hostEnds' = {}

Closes ==
    /\ at = "closing" /\ \A g \in Guests : guest[g] \in {"no", "down"}
    /\ at' = "closed"
    /\ CloseLans
    /\ UNCHANGED <<scene, resolved, rules, taken, bound, guest, wire, inbox>>

-----------------------------------------------------------------------------
(* The segment.  Frames are counted and not told apart.                    *)

\* A guest sends a frame when there is room: into the hub, or to its peer.
Send(g) ==
    /\ g \in Members /\ guest[g] = "up" /\ at \in {"starting", "up"}
    /\ IF Hub
       THEN /\ wire[g] < Room
            /\ wire' = [wire EXCEPT ![g] = @ + 1]
            /\ UNCHANGED inbox
       ELSE \E h \in Members \ {g} :
            /\ inbox[h] < Room /\ EndOpen(h)
            /\ inbox' = [inbox EXCEPT ![h] = @ + 1]
            /\ UNCHANGED wire
    /\ UNCHANGED <<labVars, hostEnds, ports, reading>>

Reads(g) ==
    /\ guest[g] = "up" /\ inbox[g] > 0
    /\ inbox' = [inbox EXCEPT ![g] = @ - 1]
    /\ UNCHANGED <<labVars, hostEnds, ports, reading, wire>>

Least(m, n) == IF m < n THEN m ELSE n

\* Seeded bug: send waits until every port takes the frame.
FloodsBlocking(g) ==
    LET n == Least(wire[g], Burst) IN
    /\ n > 0
    /\ \A h \in ports \ {g} : inbox[h] + n <= Room
    /\ wire' = [wire EXCEPT ![g] = @ - n]
    /\ inbox' = [h \in Guest |-> IF h \in ports \ {g} THEN inbox[h] + n ELSE inbox[h]]

\* Up to _BURST frames of one port, each to every other port that takes it;
\* a port that is full or at its end has them dropped.
Floods(g) ==
    LET n == Least(wire[g], Burst) IN
    /\ n > 0
    /\ wire' = [wire EXCEPT ![g] = @ - n]
    /\ inbox' = [h \in Guest |->
                    IF h \in ports \ {g} /\ EndOpen(h) THEN Least(inbox[h] + n, Room) ELSE inbox[h]]

\* An empty read or an error: nobody has the other end.
DropPort(g) == reading' = reading \ {g}

Flood(g) ==
    /\ g \in reading
    /\ \/ Floods(g) /\ UNCHANGED reading
       \/ wire[g] = 0 /\ ~EndOpen(g) /\ DropPort(g) /\ UNCHANGED <<wire, inbox>>
    /\ UNCHANGED <<labVars, hostEnds, ports>>

Next ==
    \/ BuildLans \/ ResolveForward \/ StartAll \/ AllStarted \/ Cancelled
    \/ \E g \in Guests : Starts(g) \/ Dies(g) \/ Shutdown(g) \/ Send(g) \/ Reads(g) \/ Flood(g)
    \/ \E s \in scene.others : Other(s)
    \/ TeardownBegins \/ Closes

\* The loop calls what is ready; boot and teardown go on.  No guest has to
\* send, to read or to die, and nobody has to stop the run.
Fairness ==
    /\ WF_vars(BuildLans) /\ WF_vars(ResolveForward) /\ WF_vars(StartAll)
    /\ WF_vars(AllStarted) /\ WF_vars(Closes)
    /\ \A g \in Guest : WF_vars(Starts(g)) /\ WF_vars(Shutdown(g)) /\ WF_vars(Flood(g))

Spec == Init /\ [][Next]_vars /\ Fairness

-----------------------------------------------------------------------------
(* What Linux and the Nix module have by default: privileged ports end below
   the block they move to (1024 against 10001) and below the ephemeral range. *)
UsualHost == Start =< Offset + 1 /\ Start =< Low

(* What a guest is given is apart from every other's; what its rules name  *)
(* need not be: boot does not look (forward.py:256 puts only what it gives *)
(* in `taken').                                                            *)
Given(g) == {r.address : r \in rules[g]} \ {r.address : r \in scene.rules[g]}

\* The host ports a rule asks for.
Asked(r) == UNION {{m.host : m \in a.maps} : a \in Specs(r)}

\* Two rules of one guest that meet on a port of an address, or a list with
\* two guest ports for a host port: two specs over one port in one passt.
OwnRulesMeet(g) ==
    \E q, r \in rules[g] :
       \/ q # r /\ Clash(q.address, r.address) /\ Asked(q) \cap Asked(r) # {}
       \/ ~q.wide /\ \E m, n \in q.ports : m # n /\ m.host = n.host

\* Somebody outside the run has the port, or another guest's rule asks for it,
\* and one of the two rules named its address.
InTheWay(g, address, port) ==
    \/ \E s \in bound : s.who = "other" /\ s.port = port /\ Clash(s.address, address)
    \/ \E h \in Guests \ {g} : \E r \in rules[h] :
          /\ port \in Asked(r) /\ Clash(r.address, address)
          /\ address \notin Given(g) \/ r.address \notin Given(h)

HeldUp(g) == \E a \in ToArgs(rules[g]) : \E m \in a.maps : ~a.weak /\ InTheWay(g, a.address, m.host)

(* passt is refused a port only for what the rules or somebody outside the *)
(* run are the cause of: guests that were resolved one after the other,    *)
(* each looking at ports it lets go of again, never take each other's on   *)
(* addresses they were given, in whichever order they come up, and a rule  *)
(* never stands in its own way (session.py:370, forward.py:238, 314).      *)
RefusalHasACause == \A g \in Guests : guest[g] = "refused" => OwnRulesMeet(g) \/ HeldUp(g)

(* Where a guest says that a port of it answers, its own passt listens for *)
(* that port, unless somebody else has, or had, a right to it; and         *)
(* wherever its passt listens for it, it says so (forward.py:335).  Not    *)
(* covered: a port of the block that privileged ports are moved to.        *)
ReachableIsTrue ==
    \A g \in Guests, p \in Port \ Block :
       guest[g] = "up" =>
          LET said == Reachable(rules[g], p)
              real == {[address |-> s.address, port |-> s.port] : s \in {k \in SocketsOf(g) : k.to = p}} IN
          /\ real \subseteq said
          /\ \A w \in said \ real : InTheWay(g, w.address, w.port)

(* "the guest, privately", "and one port, publicly" (README.md:343, the    *)
(* example of modules/default.nix:322): nothing but somebody else who has  *)
(* the port keeps passt from that.                                         *)
OnlyOthersAreInTheWay == \A g \in Guests : guest[g] = "refused" => HeldUp(g)

(* A guest that cannot send because its port is full can send again,       *)
(* though another guest reads nothing; and once the guests are up a guest  *)
(* that dies is noticed: the hub stops reading its port, and the other     *)
(* member of a segment of two has nobody at the other end (net.py:103,     *)
(* 131).                                                                   *)
FramesMoveOn == \A g \in Guest : (wire[g] = Room /\ g \in reading) ~> (wire[g] < Room \/ at = "closed")
DeathsAreSeen ==
    \A g \in Guest :
       (at = "up" /\ g \in Members /\ guest[g] = "dead")
          ~> (IF Hub THEN g \notin reading ELSE ~EndOpen(g)) \/ at \in {"closing", "closed"}
SegmentGoesOn == FramesMoveOn /\ DeathsAreSeen

(* When teardown is over no guest of the run runs or listens, and none of  *)
(* the segment's descriptors is open, however far boot had come            *)
(* (session.py:779).                                                       *)
DownTogether ==
    at = "closed" =>
       /\ \A g \in Guests : ~Alive(g)
       /\ \A s \in bound : s.who = "other"
       /\ hostEnds = {} /\ ports = {} /\ reading = {}

(* Two guests that are given an address are given two.                     *)
AddressesApart == \A g, h \in Guests : g # h => Given(g) \cap Given(h) = {}

(* A guest whose rules name no address is given one whenever some address  *)
(* has the ports free that it will use: "forwarding {moved.host} -> guest  *)
(* {port.guest} instead" (forward.py:186), "guest port 22 is reachable on  *)
(* host port 10022" (README.md:363).                                       *)
MovedPortsAreEnough ==
    (at = "failed" /\ resolved < Len(scene.order)) =>
       LET mine == rules[scene.order[resolved + 1]] IN
       \/ \E r \in mine : r.address # NoAddress
       \/ \A a \in Loopback \ taken :
             ~Probe(a, UNION {HostPorts(Remap(r)) : r \in mine}, bound)
=============================================================================
