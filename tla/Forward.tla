------------------------------ MODULE Forward ------------------------------
(***************************************************************************)
(* From the forward rules of a guest to the sockets its passt listens on   *)
(* (pkgs/uml-runner/uml_runner/forward.py).  A socket is an address, a     *)
(* port and the guest port behind it.  Protocols are left out: each spec   *)
(* is handed to passt once for each protocol of its rule.                  *)
(***************************************************************************)
EXTENDS Integers, FiniteSets, FiniteSetsExt

CONSTANTS LastPort,    \* ports are 1..LastPort
          Start,       \* ip_unprivileged_port_start
          Offset,      \* privilegedOffset
          Low, High,   \* the host's ephemeral range
          Sentinel,    \* _SENTINEL_PORT
          Loopback,    \* 127.0.0.2 to 127.0.0.254
          Everywhere,         \* 0.0.0.0
          NoAddress    \* None

ASSUME ForwardAssumption ==
    /\ LastPort \in Nat /\ Start \in 1..LastPort /\ Offset \in Nat
    /\ {Low, High} \subseteq 1..LastPort /\ Sentinel \in Start..LastPort
    /\ Loopback \subseteq Nat
    /\ \A S \in SUBSET Loopback : S # {} => \E a \in S : \A b \in S : a =< b
    /\ Everywhere \notin Loopback /\ NoAddress \notin Loopback

Port == 1..LastPort
PortMap == [host : Port, guest : Port]

\* `ports' counts for a rule that is not wide.
Rule == [address : Loopback \cup {Everywhere, NoAddress}, wide : BOOLEAN,
         ports : SUBSET PortMap, remap : BOOLEAN]

\* Host ports to probe.
HostPorts(rule) == IF rule.wide THEN {Sentinel} ELSE {m.host : m \in rule.ports}

\* Two sockets on one port.
Clash(a, b) == a = b \/ a = Everywhere \/ b = Everywhere

\* Whether bind succeeds, and whether every one of `ports' binds.
Binds(address, port, bound) ==
    /\ port >= Start
    /\ \A s \in bound : s.port = port => ~Clash(s.address, address)
Probe(address, ports, bound) == \A p \in ports : Binds(address, p, bound)

\* _assign
Free(rules, taken, bound) ==
    {a \in Loopback \ taken : Probe(a, UNION {HostPorts(r) : r \in rules}, bound)}

\* _remap: an explicit host port that is privileged moves up or goes.
Moved(m) == IF m.host >= Start THEN m ELSE [m EXCEPT !.host = @ + Offset]
Remap(rule) ==
    [rule EXCEPT !.ports = {Moved(m) : m \in {k \in @ : k.host >= Start \/ rule.remap}}]

\* The rules with x for an address where they name none, and their privileged
\* ports moved; one that is left with no port goes.
At(rules, x) ==
    LET addressed == {IF r.address = NoAddress THEN [r EXCEPT !.address = x] ELSE r : r \in rules}
    IN {r \in {Remap(a) : a \in addressed} : r.wide \/ r.ports # {}}

\* Seeded bug: Resolve forgets what earlier guests were given.
ResolveUntaken(rules, taken, bound) ==
    LET unaddressed == {r \in rules : r.address = NoAddress}
        free == Free(unaddressed, {}, bound)
        given == IF unaddressed = {} THEN {} ELSE {Min(free)}
    IN IF unaddressed # {} /\ free = {}
       THEN [ok |-> FALSE, rules |-> rules, taken |-> taken]
       ELSE [ok |-> TRUE, rules |-> At(rules, Min(free)), taken |-> taken \cup given]

\* resolve: one address for all the rules that have none.
Resolve(rules, taken, bound) ==
    LET unaddressed == {r \in rules : r.address = NoAddress}
        free == Free(unaddressed, taken, bound)
        given == IF unaddressed = {} THEN {} ELSE {Min(free)}
    IN IF unaddressed # {} /\ free = {}
       THEN [ok |-> FALSE, rules |-> rules, taken |-> taken]
       ELSE [ok |-> TRUE, rules |-> At(rules, Min(free)), taken |-> taken \cup given]

\* probe
ProbeAll(rules, bound) == \A r \in rules : Probe(r.address, HostPorts(r), bound)

-----------------------------------------------------------------------------
(* What passt is told, and what it does.                                   *)

\* The block a wide rule moves privileged ports to.
Block == {p + Offset : p \in 1..(Start - 1)}

\* Seeded bug: the wide range keeps the block.
SpecsOverlapping(rule) ==
    IF ~rule.wide THEN {[address |-> rule.address, weak |-> FALSE, maps |-> rule.ports]}
    ELSE {[address |-> rule.address, weak |-> TRUE,
           maps |-> {[host |-> p, guest |-> p] : p \in Port \ (Low..High)}]}
         \cup (IF Start > 1 /\ rule.remap
               THEN {[address |-> rule.address, weak |-> FALSE,
                      maps |-> {[host |-> p + Offset, guest |-> p] : p \in 1..(Start - 1)}]}
               ELSE {})

\* _specs: only exclusions make a spec weak.
Specs(rule) ==
    IF ~rule.wide THEN {[address |-> rule.address, weak |-> FALSE, maps |-> rule.ports]}
    ELSE LET moves == Start > 1 /\ rule.remap IN
         {[address |-> rule.address, weak |-> TRUE,
           maps |-> {[host |-> p, guest |-> p] :
                        p \in Port \ ((Low..High) \cup (IF moves THEN Block ELSE {}))}]}
         \cup (IF moves
               THEN {[address |-> rule.address, weak |-> FALSE,
                      maps |-> {[host |-> p + Offset, guest |-> p] : p \in 1..(Start - 1)}]}
               ELSE {})

ToArgs(rules) == UNION {Specs(r) : r \in rules}

\* passt: two specs over one port are fatal and so is a port of a strict
\* spec that does not bind; one of a weak spec is skipped.
Overlapping(args) ==
    \/ \E a, b \in args : a # b /\ Clash(a.address, b.address)
          /\ {m.host : m \in a.maps} \cap {m.host : m \in b.maps} # {}
    \/ \E a \in args : \E m, n \in a.maps : m # n /\ m.host = n.host
PasstStarts(args, bound) ==
    /\ ~Overlapping(args)
    /\ \A a \in args : a.weak \/ Probe(a.address, {m.host : m \in a.maps}, bound)
Listens(args, bound) ==
    UNION {{[address |-> a.address, port |-> m.host, to |-> m.guest] :
               m \in {k \in a.maps : Binds(a.address, k.host, bound)}} : a \in args}

\* reachable
Reachable(rules, p) ==
    UNION {IF r.wide
           THEN IF p \in Low..High THEN {}
                ELSE IF p >= Start THEN {[address |-> r.address, port |-> p]}
                ELSE IF r.remap THEN {[address |-> r.address, port |-> p + Offset]}
                ELSE {}
           ELSE {[address |-> r.address, port |-> m.host] : m \in {k \in r.ports : k.guest = p}} :
           r \in rules}
=============================================================================
