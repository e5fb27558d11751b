------------------------------- MODULE MCLab -------------------------------
(* Ports 1..9: 1 and 2 are privileged and move to 5 and 6, 7 is the host's *)
(* ephemeral range, 8 the sentinel.  Scenes with forwards, in which others *)
(* may open a socket, and scenes with a segment.                           *)
EXTENDS Lab, TLC

CONSTANTS g1, g2, g3

MCGuest == {g1, g2, g3}
MCLoopback == 2..3

Rules(address, wide, hosts, remap) ==
    [address |-> address, wide |-> wide, remap |-> remap, ports |-> hosts]
Same(S) == {[host |-> p, guest |-> p] : p \in S}

Wide == Rules(NoAddress, TRUE, {}, TRUE)
WideKept == Rules(NoAddress, TRUE, {}, FALSE)
Listed == Rules(NoAddress, FALSE, Same({3, 4}), TRUE)
Public == Rules(Everywhere, FALSE, {[host |-> 9, guest |-> 1]}, TRUE)
Privileged == Rules(2, FALSE, Same({1, 4}), TRUE)
Dropped == Rules(2, FALSE, Same({1, 4}), FALSE)
Unaddressed == Rules(NoAddress, FALSE, Same({1, 4}), TRUE)

WebPort == Rules(Everywhere, FALSE, Same({4}), TRUE)

Forwarded(a, b, others) ==
    [order |-> <<g1, g2>>, members |-> {}, others |-> others,
     rules |-> g1 :> a @@ g2 :> b @@ g3 :> {}]
Wired(order, members) ==
    [order |-> order, members |-> members, others |-> {}, rules |-> [g \in MCGuest |-> {}]]
Sockets == {[address |-> 2, port |-> 3], [address |-> 3, port |-> 8], [address |-> Everywhere, port |-> 9]}

RuleSets == {{Wide}, {WideKept}, {Listed}}
MCScenes ==
    {Forwarded(a, b, Sockets) : a, b \in RuleSets}
    \cup {Forwarded({Listed, Public}, b, Sockets) : b \in {{Listed}, {Wide}, {}}}
    \cup {Forwarded({x}, {}, Sockets) : x \in {Privileged, Dropped}}
    \cup {Forwarded(a, b, Sockets) : a \in {{Wide, WebPort}, {Privileged}}, b \in {{Wide}, {Listed}}}
    \cup {Wired(<<g1, g2, g3>>, MCGuest), Wired(<<g1, g2>>, {g1, g2}), Wired(<<g1>>, {g1}),
          Wired(<<g1, g2, g3>>, {g1, g3})}
MCMoved == {Forwarded({Unaddressed}, {}, {})}
MCDocumented == {Forwarded({Wide, WebPort}, {}, {})}

\* The hosts RefusalHasACause and ReachableIsTrue are about.
ASSUME MCLabAssumption == UsualHost
=============================================================================
