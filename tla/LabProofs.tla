----------------------------- MODULE LabProofs -----------------------------
(***************************************************************************)
(* For any number of guests, rules and ports: guests that are given an     *)
(* address are given different ones, nothing of the run is left when       *)
(* teardown is over, a passt that is refused a port is refused for a cause *)
(* in the rules or outside the run, and a guest is reachable where it says *)
(* or for such a cause is not.                                             *)
(***************************************************************************)
EXTENDS Lab, TLAPS

\* A free address is one no earlier guest was given.
LEMMA MinIsFree ==
    ASSUME NEW R, NEW T, NEW B, Free(R, T, B) # {}
    PROVE  Min(Free(R, T, B)) \in Loopback \ T
<1> DEFINE F == Free(R, T, B)
<1>1. F \subseteq Loopback \ T
  BY DEF Free
<1>2. \E a \in F : \A b \in F : a =< b
  BY <1>1, ForwardAssumption
<1>3. Min(F) \in F
  BY <1>2 DEF Min
<1> QED
  BY <1>1, <1>3

\* What resolve makes of a guest's rules: an address is one the guest named
\* itself, or a new one that is in `taken' from then on.
LEMMA ResolveGives ==
    ASSUME NEW R \in SUBSET Rule, NEW T \in SUBSET Loopback, NEW B
    PROVE  LET done == Resolve(R, T, B) IN
           /\ T \subseteq done.taken /\ done.taken \subseteq Loopback
           /\ {r.address : r \in done.rules} \ {r.address : r \in R} \subseteq done.taken \ T
<1> DEFINE U == {r \in R : r.address = NoAddress}
           F == Free(U, T, B)
           G == IF U = {} THEN {} ELSE {Min(F)}
           A == {IF r.address = NoAddress THEN [r EXCEPT !.address = Min(F)] ELSE r : r \in R}
           M == {Remap(a) : a \in A}
           done == Resolve(R, T, B)
<1>1. CASE U # {} /\ F = {}
  BY <1>1 DEF Resolve
<1>2. CASE ~(U # {} /\ F = {})
  <2>1. done = [ok |-> TRUE, rules |-> {r \in M : r.wide \/ r.ports # {}}, taken |-> T \cup G]
    BY <1>2 DEF Resolve, At
  <2>2. G \subseteq Loopback \ T
    BY <1>2, MinIsFree
  <2>3. \A a \in A : a.address \in {r.address : r \in R} \cup G
    <3> SUFFICES ASSUME NEW r \in R,
                        NEW a, a = IF r.address = NoAddress THEN [r EXCEPT !.address = Min(F)] ELSE r
                 PROVE  a.address \in {q.address : q \in R} \cup G
      OBVIOUS
    <3>1. CASE r.address = NoAddress
      BY <3>1 DEF Rule
    <3>2. CASE r.address # NoAddress
      BY <3>2
    <3> QED
      BY <3>1, <3>2
  <2>4. \A a \in A : Remap(a).address = a.address
    <3> SUFFICES ASSUME NEW a \in A PROVE Remap(a).address = a.address
      OBVIOUS
    <3>1. "address" \in DOMAIN a
      BY DEF Rule
    <3> QED
      BY <3>1 DEF Remap
  <2>5. \A r \in done.rules : r.address \in {q.address : q \in R} \cup G
    BY <2>1, <2>3, <2>4
  <2>6. done.taken = T \cup G
    BY <2>1
  <2> HIDE DEF done, G, A, M, F, U
  <2>7. {r.address : r \in done.rules} \ {r.address : r \in R} \subseteq done.taken \ T
    BY <2>2, <2>5, <2>6
  <2>8. T \subseteq done.taken /\ done.taken \subseteq Loopback
    BY <2>2, <2>6
  <2> QED
    BY <2>7, <2>8 DEF done
<1> QED
  BY <1>1, <1>2
-----------------------------------------------------------------------------
(* Addresses.                                                              *)

\* A guest that is still to be resolved has the rules Nix wrote.
Ahead == (resolved + 1)..Len(scene.order)

AddrInv ==
    /\ scene \in Scenes
    /\ resolved \in 0..Len(scene.order)
    /\ rules = [g \in Guest |-> rules[g]]
    /\ taken \subseteq Loopback
    /\ at \in {"new", "resolving"} =>
          \A i \in Ahead : rules[scene.order[i]] = scene.rules[scene.order[i]]
    /\ \A g \in Guest : Given(g) \subseteq taken
    /\ \A g, h \in Guest : g # h => Given(g) \cap Given(h) = {}

\* At first nobody was given anything.
LEMMA AddrInit == Init => AddrInv
<1> SUFFICES ASSUME Init PROVE AddrInv
  OBVIOUS
<1>1. scene \in Scenes /\ rules = scene.rules /\ resolved = 0 /\ taken = {}
  BY DEF Init
<1>2. scene.order \in Seq(Guest) /\ scene.rules \in [Guest -> SUBSET Rule]
  BY <1>1, LabAssumption
<1>3. \A g \in Guest : Given(g) = {}
  BY <1>1 DEF Given
<1>4. resolved \in 0..Len(scene.order)
  BY <1>1, <1>2
<1> QED
  BY <1>1, <1>2, <1>3, <1>4 DEF AddrInv

\* The one step that gives an address.
LEMMA ResolveKeeps ==
    ASSUME AddrInv, ResolveForward
    PROVE  AddrInv'
<1>1. /\ scene \in Scenes /\ scene.order \in Seq(Guest) /\ resolved \in Nat
      /\ resolved < Len(scene.order) /\ Len(scene.order) \in Nat
      /\ at = "resolving" /\ UNCHANGED scene
  BY LabAssumption DEF AddrInv, ResolveForward
<1>2. scene.order[resolved + 1] \in Guest /\ resolved + 1 \in Ahead
      /\ resolved + 1 \in 1..Len(scene.order)
  BY <1>1 DEF Ahead
<1> PICK g \in Guest : g = scene.order[resolved + 1]
  BY <1>2
<1> DEFINE done == Resolve(rules[g], taken, bound)
<1>3. rules[g] = scene.rules[g] /\ rules[g] \in SUBSET Rule /\ taken \in SUBSET Loopback
  BY <1>1, <1>2, LabAssumption DEF AddrInv
<1>4. /\ taken \subseteq done.taken /\ done.taken \subseteq Loopback
      /\ {r.address : r \in done.rules} \ {r.address : r \in rules[g]} \subseteq done.taken \ taken
  BY <1>3, ResolveGives
<1>5. rules' = [rules EXCEPT ![g] = done.rules] /\ taken' = done.taken
  BY DEF ResolveForward
<1>6. rules' = [h \in Guest |-> rules'[h]] /\ rules'[g] = done.rules
      /\ \A h \in Guest \ {g} : rules'[h] = rules[h]
  <2>1. rules = [h \in Guest |-> rules[h]]
    BY DEF AddrInv
  <2> QED
    BY <2>1, <1>2, <1>5
<1>7. Given(g)' \subseteq done.taken \ taken
  BY <1>1, <1>3, <1>4, <1>6 DEF Given
<1>8. \A h \in Guest \ {g} : Given(h)' = Given(h)
  BY <1>1, <1>6 DEF Given
<1>9. \A h \in Guest : Given(h) \subseteq taken
  BY DEF AddrInv
<1>10. \A h \in Guest : Given(h)' \subseteq taken'
  BY <1>4, <1>5, <1>7, <1>8, <1>9
<1>11. \A h, k \in Guest : h # k => Given(h)' \cap Given(k)' = {}
  <2>1. \A h, k \in Guest : h # k => Given(h) \cap Given(k) = {}
    BY DEF AddrInv
  <2> QED
    BY <2>1, <1>7, <1>8, <1>9
<1>12. resolved' \in {resolved, resolved + 1} /\ (at' # "failed" => resolved' = resolved + 1 /\ at' = at)
  BY DEF ResolveForward
<1>13. at' \in {"new", "resolving"} => \A i \in Ahead' : rules'[scene.order[i]] = scene.rules[scene.order[i]]
  <2> SUFFICES ASSUME at' \in {"new", "resolving"}, NEW i \in Ahead'
               PROVE  rules'[scene.order[i]] = scene.rules[scene.order[i]]
    OBVIOUS
  <2>1. resolved' = resolved + 1
    BY <1>12
  <2>2. i \in Ahead /\ i # resolved + 1 /\ i \in 1..Len(scene.order)
    BY <2>1, <1>1 DEF Ahead
  <2>3. scene.order[i] \in Guest \ {g}
    BY <2>2, <1>1, <1>2, LabAssumption
  <2>4. rules[scene.order[i]] = scene.rules[scene.order[i]]
    BY <2>2, <1>1 DEF AddrInv
  <2> QED
    BY <2>3, <2>4, <1>6
<1>14. resolved' \in 0..Len(scene.order)
  BY <1>1, <1>12
<1> QED
  BY <1>1, <1>4, <1>5, <1>6, <1>10, <1>11, <1>13, <1>14 DEF AddrInv

\* What every other step leaves alone.
AddrStays ==
    /\ UNCHANGED <<scene, resolved, rules, taken>>
    /\ at' \in {"new", "resolving"} => at' = at

\* Every step keeps what was given apart.
LEMMA AddrStep == AddrInv /\ [Next]_vars => AddrInv'
<1> SUFFICES ASSUME AddrInv, [Next]_vars PROVE AddrInv'
  OBVIOUS
<1>1. CASE ResolveForward
  BY <1>1, ResolveKeeps
<1>2. CASE BuildLans
  BY <1>2 DEF AddrInv, Ahead, Given, BuildLans
<1>3. CASE AddrStays
  BY <1>3 DEF AddrInv, Ahead, Given, AddrStays
<1>4. ResolveForward \/ BuildLans \/ AddrStays
  BY DEF AddrStays, Next, vars, labVars, lanVars, StartAll, AllStarted, Cancelled, Starts, Dies, Shutdown,
         Send, Reads, Flood, Other, TeardownBegins, Closes
<1> QED
  BY <1>1, <1>2, <1>3, <1>4

(* Guests of one run that are given an address are given different ones,   *)
(* however many there are and whatever else listens on the host            *)
(* (forward.py:218).                                                       *)
THEOREM NoAddressTwice == Spec => []AddressesApart
<1>1. AddrInv => AddressesApart
  <2> SUFFICES ASSUME AddrInv, NEW g \in Guests, NEW h \in Guests, g # h
               PROVE  Given(g) \cap Given(h) = {}
    BY DEF AddressesApart
  <2>1. scene.order \in Seq(Guest)
    BY LabAssumption DEF AddrInv
  <2>2. g \in Guest /\ h \in Guest
    BY <2>1 DEF Guests
  <2> QED
    BY <2>2 DEF AddrInv
<1> QED
  BY <1>1, AddrInit, AddrStep, PTL DEF Spec

-----------------------------------------------------------------------------
(* The end.                                                                *)

Status == {"no", "starting", "up", "half", "refused", "failed", "dead", "down"}

\* Who listens is somebody else or a guest whose passt runs.
DownInv ==
    /\ scene \in Scenes
    /\ guest \in [Guest -> Status]
    /\ \A s \in bound : s.who = "other" \/ (s.who \in Guests /\ guest[s.who] \in {"up", "half"})
    /\ at \in {"new", "resolving"} => \A g \in Guest : guest[g] = "no"
    /\ at = "closed" =>
          /\ \A g \in Guests : guest[g] \in {"no", "down"}
          /\ hostEnds = {} /\ ports = {} /\ reading = {}

\* Every step keeps listening sockets with those who run.
LEMMA DownStep == DownInv /\ [Next]_vars => DownInv'
<1> SUFFICES ASSUME DownInv, [Next]_vars PROVE DownInv'
  OBVIOUS
<1>1. Guests \subseteq Guest
  BY LabAssumption DEF DownInv, Guests
<1>2. UNCHANGED scene /\ UNCHANGED Guests /\ scene' \in Scenes
  BY DEF DownInv, Guests, Next, vars, labVars, lanVars, BuildLans, ResolveForward, StartAll, AllStarted,
         Cancelled, Starts, Dies, Shutdown, Send, Reads, Flood, Other, TeardownBegins, Closes
<1>3. CASE BuildLans \/ ResolveForward
  BY <1>2, <1>3 DEF DownInv, BuildLans, ResolveForward, lanVars
<1>4. CASE StartAll
  BY <1>1, <1>2, <1>4 DEF DownInv, StartAll, Status
<1>5. CASE AllStarted \/ TeardownBegins
  BY <1>2, <1>5 DEF DownInv, AllStarted, TeardownBegins, Detach, lanVars
<1>6. CASE Cancelled
  BY <1>1, <1>2, <1>6 DEF DownInv, Cancelled, Status, lanVars
<1>7. ASSUME NEW g \in Guests, Starts(g) PROVE DownInv'
  <2>1. at = "starting" /\ UNCHANGED at /\ guest[g] = "starting" /\ g \in Guest
    BY <1>1, <1>7 DEF Starts
  <2>2. \E how \in Status : guest' = [guest EXCEPT ![g] = how]
                           /\ \A s \in bound' \ bound : s.who = g /\ how \in {"up", "half"}
    BY <1>7 DEF Starts, Status
  <2>3. \A s \in bound : s.who # g
    <3> SUFFICES ASSUME NEW s \in bound, s.who = g PROVE s.who = "other"
      BY <1>1, LabAssumption
    <3> QED
      BY <2>1 DEF DownInv
  <2> QED
    BY <1>1, <1>2, <2>1, <2>2, <2>3 DEF DownInv
<1>8. ASSUME NEW g \in Guests, Dies(g) \/ Shutdown(g) PROVE DownInv'
  <2>1. at \in {"starting", "up", "closing"} /\ UNCHANGED at /\ bound' = bound \ SocketsOf(g)
        /\ \E how \in Status : guest' = [guest EXCEPT ![g] = how]
    BY <1>8 DEF Dies, Shutdown, Status
  <2>2. \A s \in bound' : s \in bound /\ s.who # g
    BY <2>1 DEF SocketsOf
  <2> QED
    BY <1>1, <1>2, <2>1, <2>2 DEF DownInv
<1>9. ASSUME NEW g \in Guests, Send(g) \/ Reads(g) \/ Flood(g) PROVE DownInv'
  <2>1. UNCHANGED <<labVars, hostEnds, ports>> /\ reading' \subseteq reading
    BY <1>9 DEF Send, Reads, Flood, DropPort
  <2> QED
    BY <1>2, <2>1 DEF DownInv, labVars
<1>10. ASSUME NEW s \in scene.others, Other(s) PROVE DownInv'
  BY <1>2, <1>10 DEF DownInv, Other, lanVars
<1>11. CASE Closes
  BY <1>2, <1>11 DEF DownInv, Closes, CloseLans
<1>12. CASE UNCHANGED vars
  BY <1>2, <1>12 DEF DownInv, vars, labVars, lanVars
<1> QED
  BY <1>3, <1>4, <1>5, <1>6, <1>7, <1>8, <1>9, <1>10, <1>11, <1>12 DEF Next

(* When teardown is over nothing of the run is left, however far boot had  *)
(* come, with any number of guests and any rules (session.py:779).         *)
THEOREM NothingStaysUp == Spec => []DownTogether
<1>1. Init => DownInv
  BY DEF Init, DownInv, Status
<1>2. DownInv => DownTogether
  <2> SUFFICES ASSUME DownInv, at = "closed"
               PROVE  /\ \A g \in Guests : ~Alive(g)
                      /\ \A s \in bound : s.who = "other"
                      /\ hostEnds = {} /\ ports = {} /\ reading = {}
    BY DEF DownTogether
  <2> QED
    BY DEF DownInv, Alive
<1> QED
  BY <1>1, <1>2, DownStep, PTL DEF Spec

-----------------------------------------------------------------------------
(* What passt is refused, and what a guest says can be reached.            *)

\* What is left of a rule once its privileged ports are moved.
Left(r) == {Moved(m) : m \in {k \in r.ports : k.host >= Start \/ r.remap}}

\* A rule put at an address.
Put(r, x) == Remap(IF r.address = NoAddress THEN [r EXCEPT !.address = x] ELSE r)

\* Only its address and its ports change.
LEMMA PutKeeps ==
    ASSUME NEW r \in Rule, NEW x
    PROVE  /\ Put(r, x).address = IF r.address = NoAddress THEN x ELSE r.address
           /\ Put(r, x).wide = r.wide /\ Put(r, x).remap = r.remap /\ Put(r, x).ports = Left(r)
<1> DEFINE a == IF r.address = NoAddress THEN [r EXCEPT !.address = x] ELSE r
<1>1. /\ DOMAIN a = {"address", "wide", "ports", "remap"}
      /\ a.wide = r.wide /\ a.remap = r.remap /\ a.ports = r.ports
      /\ a.address = IF r.address = NoAddress THEN x ELSE r.address
  BY DEF Rule
<1> HIDE DEF a
<1>2. Put(r, x) = [a EXCEPT !.ports = {Moved(m) : m \in {k \in @ : k.host >= Start \/ a.remap}}]
  BY DEF Put, Remap, a
<1>3. Put(r, x).address = a.address /\ Put(r, x).wide = a.wide /\ Put(r, x).remap = a.remap
      /\ Put(r, x).ports = {Moved(m) : m \in {k \in a.ports : k.host >= Start \/ a.remap}}
  BY <1>1, <1>2
<1> QED
  BY <1>1, <1>3 DEF Left

\* A resolved rule comes of one that was written.
LEMMA AtComes ==
    ASSUME NEW R \in SUBSET Rule, NEW x, NEW q \in At(R, x)
    PROVE  \E r \in R :
              /\ q = Put(r, x)
              /\ q.address = IF r.address = NoAddress THEN x ELSE r.address
              /\ q.wide = r.wide /\ q.remap = r.remap /\ q.ports = Left(r)
<1>1. PICK r \in R : q = Put(r, x)
  BY DEF At, Put
<1> QED
  BY <1>1, PutKeeps

\* A port that is left is one a guest may bind.
LEMMA LeftIsHigh ==
    ASSUME UsualHost, NEW r \in Rule, NEW m \in Left(r)
    PROVE  m.host \in Nat /\ m.host >= Start
<1>1. PICK k \in r.ports : m = Moved(k) /\ (k.host >= Start \/ r.remap)
  BY DEF Left
<1>2. k.host \in 1..LastPort /\ k \in PortMap
  BY DEF Rule, PortMap, Port
<1>3. Start \in Nat /\ Offset \in Nat /\ LastPort \in Nat /\ Start =< Offset + 1
  BY ForwardAssumption DEF UsualHost
<1>4. CASE k.host >= Start
  BY <1>1, <1>2, <1>3, <1>4 DEF Moved
<1>5. CASE ~(k.host >= Start)
  <2>1. m = [k EXCEPT !.host = k.host + Offset]
    BY <1>1, <1>5 DEF Moved
  <2>2. m.host = k.host + Offset
    BY <2>1, <1>2 DEF PortMap
  <2> QED
    BY <2>2, <1>2, <1>3
<1> QED
  BY <1>4, <1>5

\* A port of a spec that is not weak is one a guest may bind.
LEMMA StrictPorts ==
    ASSUME UsualHost, NEW R \in SUBSET Rule, NEW x, NEW a \in ToArgs(At(R, x)), ~a.weak,
           NEW m \in a.maps
    PROVE  m.host >= Start
<1>1. PICK q \in At(R, x) : a \in Specs(q)
  BY DEF ToArgs
<1>2. PICK r \in R :
         /\ q = Put(r, x)
         /\ q.address = IF r.address = NoAddress THEN x ELSE r.address
         /\ q.wide = r.wide /\ q.remap = r.remap /\ q.ports = Left(r)
  BY AtComes
<1>3. CASE ~r.wide
  <2>1. a.maps = Left(r)
    BY <1>1, <1>2, <1>3 DEF Specs
  <2> QED
    BY <2>1, LeftIsHigh
<1>4. CASE r.wide
  <2>1. a.maps = {[host |-> p + Offset, guest |-> p] : p \in 1..(Start - 1)}
    BY <1>1, <1>2, <1>4 DEF Specs
  <2>2. Start \in Nat /\ Offset \in Nat /\ Start =< Offset + 1
    BY ForwardAssumption DEF UsualHost
  <2> QED
    BY <2>1, <2>2
<1> QED
  BY <1>3, <1>4

\* The specs of one rule are over different ports: the wide one leaves out
\* the block that the other is of.
LEMMA OneRuleApart ==
    ASSUME NEW q, NEW a \in Specs(q), NEW b \in Specs(q), a # b
    PROVE  {m.host : m \in a.maps} \cap {m.host : m \in b.maps} = {}
<1> DEFINE W == {[host |-> p, guest |-> p] : p \in Port \ ((Low..High) \cup Block)}
           B == {[host |-> p + Offset, guest |-> p] : p \in 1..(Start - 1)}
<1>1. (a.maps = W /\ b.maps = B) \/ (a.maps = B /\ b.maps = W)
  <2> DEFINE moves == Start > 1 /\ q.remap
             V == {[host |-> p, guest |-> p] :
                      p \in Port \ ((Low..High) \cup (IF moves THEN Block ELSE {}))}
             wide == [address |-> q.address, weak |-> TRUE, maps |-> V]
             block == [address |-> q.address, weak |-> FALSE, maps |-> B]
             plain == [address |-> q.address, weak |-> FALSE, maps |-> q.ports]
  <2>1. Specs(q) = IF ~q.wide THEN {plain} ELSE {wide} \cup (IF moves THEN {block} ELSE {})
    BY Zenon DEF Specs
  <2>2. moves => V = W
    OBVIOUS
  <2>3. wide.maps = V /\ block.maps = B
    OBVIOUS
  <2> HIDE DEF wide, block, plain, V, W, B, moves
  <2> QED
    BY <2>1, <2>2, <2>3
<1>2. \A m \in W : m.host \notin Block
  OBVIOUS
<1>3. \A m \in B : m.host \in Block
  BY DEF Block
<1> HIDE DEF W, B
<1> QED
  BY <1>1, <1>2, <1>3

\* A spec of a wide rule has one guest port for a host port.
LEMMA OneGuestPort ==
    ASSUME NEW q, q.wide, NEW a \in Specs(q), NEW m \in a.maps, NEW n \in a.maps, m.host = n.host
    PROVE  m = n
<1>1. \/ \A k \in a.maps : \E p \in Port : k = [host |-> p, guest |-> p]
      \/ \A k \in a.maps : \E p \in 1..(Start - 1) : k = [host |-> p + Offset, guest |-> p]
  BY DEF Specs
<1>2. Start \in Nat /\ Offset \in Nat
  BY ForwardAssumption
<1> QED
  BY <1>1, <1>2

\* Two specs over one port are of two rules that meet, or of one list.
LEMMA OverlapIsOwn ==
    ASSUME NEW g, Overlapping(ToArgs(rules[g]))
    PROVE  OwnRulesMeet(g)
<1> DEFINE args == ToArgs(rules[g])
<1>1. \A a \in args : \E q \in rules[g] :
         a \in Specs(q) /\ a.address = q.address /\ {m.host : m \in a.maps} \subseteq Asked(q)
  <2> SUFFICES ASSUME NEW q \in rules[g], NEW a \in Specs(q)
               PROVE  a.address = q.address /\ {m.host : m \in a.maps} \subseteq Asked(q)
    BY DEF ToArgs
  <2>1. a.address = q.address
    BY DEF Specs
  <2> QED
    BY <2>1 DEF Asked
<1>2. CASE \E a, b \in args : a # b /\ Clash(a.address, b.address)
              /\ {m.host : m \in a.maps} \cap {m.host : m \in b.maps} # {}
  <2>1. PICK a \in args, b \in args : a # b /\ Clash(a.address, b.address)
              /\ {m.host : m \in a.maps} \cap {m.host : m \in b.maps} # {}
    BY <1>2
  <2> HIDE DEF args
  <2>2. PICK q \in rules[g] :
           a \in Specs(q) /\ a.address = q.address /\ {m.host : m \in a.maps} \subseteq Asked(q)
    BY <1>1
  <2>3. PICK r \in rules[g] :
           b \in Specs(r) /\ b.address = r.address /\ {m.host : m \in b.maps} \subseteq Asked(r)
    BY <1>1
  <2>4. q # r
    BY <2>1, <2>2, <2>3, OneRuleApart
  <2> QED
    BY <2>1, <2>2, <2>3, <2>4 DEF OwnRulesMeet
<1>3. CASE \E a \in args : \E m, n \in a.maps : m # n /\ m.host = n.host
  <2>1. PICK a \in args : \E m, n \in a.maps : m # n /\ m.host = n.host
    BY <1>3
  <2> HIDE DEF args
  <2>2. PICK q \in rules[g] : a \in Specs(q)
    BY <1>1
  <2>3. ~q.wide
    BY <2>1, <2>2, OneGuestPort
  <2>4. a.maps = q.ports
    BY <2>2, <2>3 DEF Specs
  <2> QED
    BY <2>1, <2>2, <2>3, <2>4 DEF OwnRulesMeet
<1> QED
  BY <1>2, <1>3 DEF Overlapping

\* The guests that went through resolve_forward.
Resolved == {scene.order[i] : i \in 1..resolved}

\* Every one of those has its rules at an address; nothing starts before all
\* are resolved.
PlacedInv ==
    /\ \A g \in Resolved : \E x : rules[g] = At(scene.rules[g], x)
    /\ at \in {"starting", "up"} \/ (\E g \in Guest : guest[g] # "no") => resolved = Len(scene.order)

\* Resolving a guest places it.
LEMMA PlacedResolve == ASSUME AddrInv, DownInv, PlacedInv, ResolveForward PROVE PlacedInv'
<1>1. /\ scene \in Scenes /\ scene.order \in Seq(Guest) /\ resolved \in Nat
      /\ resolved < Len(scene.order) /\ Len(scene.order) \in Nat
      /\ at = "resolving" /\ UNCHANGED <<scene, guest>>
  BY LabAssumption DEF AddrInv, ResolveForward
<1>2. scene.order[resolved + 1] \in Guest /\ resolved + 1 \in Ahead
      /\ resolved + 1 \in 1..Len(scene.order)
  BY <1>1 DEF Ahead
<1> PICK g \in Guest : g = scene.order[resolved + 1]
  BY <1>2
<1> DEFINE done == Resolve(rules[g], taken, bound)
<1>3. rules[g] = scene.rules[g]
  BY <1>1, <1>2 DEF AddrInv
<1>4. rules'[g] = done.rules /\ \A h \in Guest \ {g} : rules'[h] = rules[h]
  <2>1. rules = [h \in Guest |-> rules[h]] /\ rules' = [rules EXCEPT ![g] = done.rules]
    BY DEF AddrInv, ResolveForward
  <2> QED
    BY <2>1
<1>5. g \notin Resolved /\ Resolved \subseteq Guest
  BY <1>1, <1>2, LabAssumption DEF Resolved
<1>6. at' \notin {"starting", "up"} /\ \A h \in Guest : guest'[h] = "no"
  BY <1>1 DEF DownInv, ResolveForward
<1>7. CASE at' = "failed"
  <2>1. Resolved' = Resolved
    BY <1>1, <1>7 DEF ResolveForward, Resolved
  <2> QED
    BY <2>1, <1>1, <1>4, <1>5, <1>6 DEF PlacedInv
<1>8. CASE at' # "failed"
  <2>1. done.ok /\ resolved' = resolved + 1
    BY <1>1, <1>8 DEF ResolveForward
  <2>2. Resolved' = Resolved \cup {g}
    BY <2>1, <1>1 DEF Resolved
  <2>3. \E x : done.rules = At(rules[g], x)
    BY <2>1 DEF Resolve
  <2> QED
    BY <2>2, <2>3, <1>1, <1>3, <1>4, <1>5, <1>6 DEF PlacedInv
<1> QED
  BY <1>7, <1>8

\* Every step keeps the guests where they were placed.
LEMMA PlacedStep == ASSUME AddrInv, DownInv, PlacedInv, [Next]_vars PROVE PlacedInv'
<1>1. Guests \subseteq Guest
  BY LabAssumption DEF DownInv, Guests
<1>2. CASE ResolveForward
  BY <1>2, PlacedResolve
<1>3. CASE UNCHANGED <<scene, resolved, rules, taken>>
  <2>1. \A g \in Resolved' : \E x : rules'[g] = At(scene'.rules[g], x)
    BY <1>3 DEF PlacedInv, Resolved
  <2>2. at' \in {"starting", "up"} \/ (\E g \in Guest : guest'[g] # "no") => resolved' = Len(scene'.order)
    <3>1. CASE BuildLans
      BY <3>1, <1>3 DEF BuildLans, DownInv
    <3>2. CASE StartAll
      BY <3>2, <1>3 DEF StartAll
    <3>3. CASE AllStarted \/ Cancelled \/ TeardownBegins \/ Closes
      BY <3>3, <1>3 DEF AllStarted, Cancelled, TeardownBegins, Closes, PlacedInv
    <3>4. ASSUME NEW g \in Guests, Starts(g) \/ Dies(g) \/ Shutdown(g)
          PROVE  resolved' = Len(scene'.order)
      <4>1. g \in Guest /\ guest[g] # "no"
        BY <3>4, <1>1 DEF Starts, Dies, Shutdown
      <4> QED
        BY <4>1, <1>3 DEF PlacedInv
    <3>5. CASE UNCHANGED <<at, guest>>
      BY <3>5, <1>3 DEF PlacedInv
    <3>6. CASE ResolveForward
      BY <3>6 DEF ResolveForward, DownInv
    <3> QED
      BY <3>1, <3>2, <3>3, <3>4, <3>5, <3>6 DEF Next, vars, labVars, Send, Reads, Flood, Other
  <2> QED
    BY <2>1, <2>2 DEF PlacedInv
<1> QED
  BY <1>2, <1>3 DEF Next, vars, labVars, lanVars, BuildLans, StartAll, AllStarted, Cancelled, Starts,
       Dies, Shutdown, Send, Reads, Flood, Other, TeardownBegins, Closes

\* Who listens for a guest does so as its rules say.
Sockets ==
    \A s \in bound : s.who = "other" \/
       \E a \in ToArgs(rules[s.who]) : \E m \in a.maps :
          s.address = a.address /\ s.port = m.host /\ s.to = m.guest

\* What a guest that starts finds in its way has a right to be there.
LEMMA OthersInTheWay ==
    ASSUME AddrInv, DownInv, Sockets, NEW g \in Guests, guest[g] = "starting",
           NEW s \in bound, NEW address, Clash(s.address, address)
    PROVE  InTheWay(g, address, s.port)
<1>1. CASE s.who = "other"
  BY <1>1 DEF InTheWay
<1>2. CASE s.who # "other"
  <2>1. Guests \subseteq Guest
    BY LabAssumption DEF DownInv, Guests
  <2>2. PICK h \in Guests \ {g} : h = s.who
    BY <1>2 DEF DownInv
  <2>3. PICK b \in ToArgs(rules[h]) : \E n \in b.maps : s.address = b.address /\ s.port = n.host
    BY <1>2, <2>2 DEF Sockets
  <2>4. PICK r \in rules[h] : b \in Specs(r)
    BY DEF ToArgs
  <2>5. r.address = s.address /\ s.port \in Asked(r)
    BY <2>3, <2>4 DEF Specs, Asked
  <2>6. address \notin Given(g) \/ r.address \notin Given(h)
    <3>1. Given(g) \cap Given(h) = {} /\ Given(g) \subseteq Loopback /\ Given(h) \subseteq Loopback
      BY <2>1, <2>2 DEF AddrInv
    <3> QED
      BY <3>1, <2>5, ForwardAssumption DEF Clash
  <2> QED
    BY <2>2, <2>5, <2>6 DEF InTheWay
<1> QED
  BY <1>1, <1>2

\* What passt listens on for a port is what the rules say, but for what
\* somebody had before.
LEMMA ListensAsSaid ==
    ASSUME UsualHost, NEW R \in SUBSET Rule, NEW x, NEW B, NEW p \in Port \ Block,
           PasstStarts(ToArgs(At(R, x)), B)
    PROVE  LET args == ToArgs(At(R, x))
               said == Reachable(At(R, x), p)
               real == {[address |-> s.address, port |-> s.port] : s \in {k \in Listens(args, B) : k.to = p}} IN
           /\ real \subseteq said
           /\ \A w \in said \ real : \E s \in B, a \in args : \E m \in a.maps :
                 s.port = w.port /\ m.host = w.port /\ w.address = a.address /\ Clash(s.address, a.address)
<1> DEFINE Q == At(R, x)
           args == ToArgs(Q)
           said == Reachable(Q, p)
           real == {[address |-> s.address, port |-> s.port] : s \in {k \in Listens(args, B) : k.to = p}}
<1>1. p \in Nat /\ Start \in Nat /\ Offset \in Nat /\ Low \in Nat /\ High \in Nat /\ p >= 1 /\ p \notin Block
      /\ Start =< Offset + 1 /\ Start =< Low
  BY ForwardAssumption DEF UsualHost, Port
<1>2. ASSUME NEW a \in args, NEW m \in a.maps, Binds(a.address, m.host, B), m.guest = p
      PROVE  [address |-> a.address, port |-> m.host] \in real
  <2>1. [address |-> a.address, port |-> m.host, to |-> m.guest] \in Listens(args, B)
    BY <1>2 DEF Listens
  <2> HIDE DEF args
  <2> QED
    BY <2>1, <1>2
<1>3. ASSUME NEW a \in args, ~a.weak, NEW m \in a.maps PROVE Binds(a.address, m.host, B)
  BY <1>3 DEF PasstStarts, Probe
<1>4. real \subseteq said
  <2> SUFFICES ASSUME NEW a \in args, NEW m \in a.maps, Binds(a.address, m.host, B), m.guest = p
               PROVE  [address |-> a.address, port |-> m.host] \in said
    BY DEF Listens
  <2>1. PICK q \in Q : a \in Specs(q)
    BY DEF ToArgs
  <2>2. a.address = q.address
    BY <2>1 DEF Specs
  <2>3. CASE ~q.wide
    <3>1. m \in q.ports
      BY <2>1, <2>3 DEF Specs
    <3> QED
      BY <2>2, <2>3, <3>1 DEF Reachable
  <2>4. CASE q.wide /\ m.host = m.guest /\ p \notin Low..High
    <3>1. p >= Start /\ m.host = p
      BY <2>4 DEF Binds
    <3> QED
      BY <2>2, <2>4, <3>1 DEF Reachable
  <2>5. CASE q.wide /\ q.remap /\ m.host = m.guest + Offset /\ m.guest \in 1..(Start - 1)
    <3>1. p \notin Low..High /\ ~(p >= Start)
      BY <2>5, <1>1
    <3>2. m.host = p + Offset
      BY <2>5
    <3> QED
      BY <2>2, <2>5, <3>1, <3>2 DEF Reachable
  <2> QED
    BY <2>1, <2>3, <2>4, <2>5 DEF Specs
<1>5. ASSUME NEW w \in said \ real
      PROVE  \E s \in B, a \in args : \E m \in a.maps :
                s.port = w.port /\ m.host = w.port /\ w.address = a.address /\ Clash(s.address, a.address)
  <2>1. PICK q \in Q :
           w \in IF q.wide
                 THEN IF p \in Low..High THEN {}
                      ELSE IF p >= Start THEN {[address |-> q.address, port |-> p]}
                      ELSE IF q.remap THEN {[address |-> q.address, port |-> p + Offset]}
                      ELSE {}
                 ELSE {[address |-> q.address, port |-> m.host] : m \in {k \in q.ports : k.guest = p}}
    BY DEF Reachable
  <2>2. Specs(q) \subseteq args
    BY DEF ToArgs
  <2>3. CASE ~q.wide
    <3> DEFINE a == [address |-> q.address, weak |-> FALSE, maps |-> q.ports]
    <3>1. a \in args /\ ~a.weak /\ a.maps = q.ports /\ a.address = q.address
      BY <2>2, <2>3 DEF Specs
    <3>2. PICK m \in q.ports : m.guest = p /\ w = [address |-> q.address, port |-> m.host]
      BY <2>1, <2>3
    <3> HIDE DEF a, real, said, args
    <3> QED
      BY <3>1, <3>2, <1>2, <1>3
  <2>4. CASE q.wide /\ p >= Start /\ p \notin Low..High
    <3>1. w = [address |-> q.address, port |-> p]
      BY <2>1, <2>4
    <3>2. PICK a \in args : a.address = q.address /\ [host |-> p, guest |-> p] \in a.maps
      BY <1>1, <2>2, <2>4 DEF Specs
    <3> DEFINE m == [host |-> p, guest |-> p]
    <3>3. ~Binds(a.address, m.host, B)
      <4> HIDE DEF real, said, args
      <4> QED
        BY <3>1, <3>2, <1>2
    <3>4. PICK s \in B : s.port = p /\ Clash(s.address, a.address)
      BY <3>3, <2>4 DEF Binds
    <3> HIDE DEF args
    <3> QED
      BY <3>1, <3>2, <3>4
  <2>5. CASE q.wide /\ ~(p >= Start) /\ q.remap /\ p \notin Low..High
    <3> DEFINE M == {[host |-> k + Offset, guest |-> k] : k \in 1..(Start - 1)}
               a == [address |-> q.address, weak |-> FALSE, maps |-> M]
    <3>1. w = [address |-> q.address, port |-> p + Offset]
      BY <2>1, <2>5
    <3>2. a \in args
      BY <1>1, <2>2, <2>5 DEF Specs
    <3>3. [host |-> p + Offset, guest |-> p] \in M
      BY <1>1, <2>5
    <3>4. ~a.weak /\ a.maps = M /\ a.address = q.address
      OBVIOUS
    <3> HIDE DEF a, M, real, said, args
    <3> QED
      BY <3>1, <3>2, <3>3, <3>4, <1>2, <1>3
  <2> QED
    BY <2>1, <2>3, <2>4, <2>5
<1> QED
  BY <1>4, <1>5

\* The two properties, of one guest.
CauseOf(g) == guest[g] = "refused" => OwnRulesMeet(g) \/ HeldUp(g)
TrueOf(g, p) ==
    guest[g] = "up" =>
       LET said == Reachable(rules[g], p)
           real == {[address |-> s.address, port |-> s.port] : s \in {k \in SocketsOf(g) : k.to = p}} IN
       /\ real \subseteq said
       /\ \A w \in said \ real : InTheWay(g, w.address, w.port)

TellInv == Sockets /\ \A g \in Guests : CauseOf(g) /\ \A p \in Port \ Block : TrueOf(g, p)

\* Together they are the two.
LEMMA TellSays == TellInv => RefusalHasACause /\ ReachableIsTrue
<1>1. (\A g \in Guests : CauseOf(g)) => RefusalHasACause
  BY DEF CauseOf, RefusalHasACause
<1>2. (\A g \in Guests : \A p \in Port \ Block : TrueOf(g, p)) => ReachableIsTrue
  BY DEF TrueOf, ReachableIsTrue
<1> QED
  BY <1>1, <1>2 DEF TellInv

\* What is in the way stays while strangers keep their sockets.
LEMMA StillInTheWay ==
    ASSUME NEW g, NEW address, NEW port, UNCHANGED <<scene, rules>>,
           \A s \in bound : s.who = "other" => s \in bound',
           InTheWay(g, address, port)
    PROVE  InTheWay(g, address, port)'
BY DEF InTheWay, Guests, Given

\* What holds of a guest goes on while its state and its sockets stay and
\* strangers keep theirs.
LEMMA StillTells ==
    ASSUME NEW g, UNCHANGED <<scene, rules>>, \A s \in bound : s.who = "other" => s \in bound',
           guest'[g] \in {"up", "refused"} => guest'[g] = guest[g] /\ SocketsOf(g)' = SocketsOf(g),
           CauseOf(g), \A p \in Port \ Block : TrueOf(g, p)
    PROVE  CauseOf(g)' /\ \A p \in Port \ Block : TrueOf(g, p)'
<1>0. ASSUME NEW address, NEW port, InTheWay(g, address, port) PROVE InTheWay(g, address, port)'
  BY <1>0, StillInTheWay
<1>1. CauseOf(g)'
  BY <1>0 DEF CauseOf, OwnRulesMeet, HeldUp
<1>2. ASSUME NEW p \in Port \ Block PROVE TrueOf(g, p)'
  <2>1. TrueOf(g, p)
    OBVIOUS
  <2> SUFFICES ASSUME guest'[g] = "up" PROVE TrueOf(g, p)'
    BY DEF TrueOf
  <2>2. guest[g] = "up" /\ SocketsOf(g)' = SocketsOf(g)
    OBVIOUS
  <2> QED
    BY <1>0, <2>1, <2>2 DEF TrueOf
<1> QED
  BY <1>1, <1>2

\* A guest that starts finds nobody in its way who has no right to be there.
LEMMA StartsTell ==
    ASSUME UsualHost, AddrInv, DownInv, PlacedInv, TellInv, NEW g \in Guests, Starts(g)
    PROVE  TellInv'
<1>1. /\ at = "starting" /\ guest[g] = "starting" /\ UNCHANGED <<scene, rules>>
      /\ bound \subseteq bound' /\ \A s \in bound' \ bound : s.who = g
      /\ \A h \in Guests \ {g} : guest'[h] = guest[h]
  <2>1. guest \in [Guest -> Status] /\ Guests \subseteq Guest
    BY LabAssumption DEF DownInv, Guests
  <2>2. /\ at = "starting" /\ guest[g] = "starting" /\ UNCHANGED <<scene, rules>>
        /\ \E how : guest' = [guest EXCEPT ![g] = how]
    BY DEF Starts
  <2>3. bound \subseteq bound' /\ \A s \in bound' \ bound : s.who = g
    BY DEF Starts
  <2> QED
    BY <2>1, <2>2, <2>3
<1>2. scene \in Scenes /\ scene.order \in Seq(Guest) /\ Guests \subseteq Guest /\ UNCHANGED Guests
  BY <1>1, LabAssumption DEF DownInv, Guests
<1>3. g # "other" /\ g \in Guest /\ scene.rules[g] \in SUBSET Rule /\ guest \in [Guest -> Status]
  BY <1>2, LabAssumption DEF DownInv
<1>4. \A s \in bound : s.who # g
  BY <1>1, <1>3 DEF DownInv
<1>5. PICK x : rules[g] = At(scene.rules[g], x)
  <2>1. resolved = Len(scene.order)
    BY <1>1 DEF PlacedInv
  <2>2. g \in Resolved
    BY <1>2, <2>1 DEF Resolved, Guests
  <2> QED
    BY <2>2 DEF PlacedInv
<1> DEFINE args == ToArgs(rules[g])
           New == {[address |-> s.address, port |-> s.port, to |-> s.to, who |-> g] : s \in Listens(args, bound)}
<1>6. ASSUME NEW h \in Guests \ {g} PROVE CauseOf(h)' /\ \A p \in Port \ Block : TrueOf(h, p)'
  <2>1. SocketsOf(h)' = SocketsOf(h)
    BY <1>1 DEF SocketsOf
  <2>2. CauseOf(h) /\ \A p \in Port \ Block : TrueOf(h, p)
    BY DEF TellInv
  <2> QED
    BY <2>1, <2>2, <1>1, StillTells
<1>7. CASE /\ PasstStarts(args, bound) /\ bound' = bound \cup New
           /\ guest'[g] \in {"up", "half"}
  <2>1. Sockets'
    <3>1. \A s \in New : \E a \in ToArgs(rules[g]) : \E m \in a.maps :
             s.address = a.address /\ s.port = m.host /\ s.to = m.guest /\ s.who = g
      BY DEF Listens
    <3>2. Sockets
      BY DEF TellInv
    <3> HIDE DEF New, args
    <3> QED
      BY <3>1, <3>2, <1>1, <1>7 DEF Sockets
  <2>2. CauseOf(g)'
    BY <1>7 DEF CauseOf
  <2>3. ASSUME NEW p \in Port \ Block PROVE TrueOf(g, p)'
    <3> DEFINE said == Reachable(rules[g], p)
               real == {[address |-> s.address, port |-> s.port] :
                          s \in {k \in Listens(args, bound) : k.to = p}}
    <3>1. SocketsOf(g)' = New
      <4>1. \A s \in New : s.who = g
        OBVIOUS
      <4> HIDE DEF New
      <4> QED
        BY <4>1, <1>4, <1>7 DEF SocketsOf
    <3>2. {[address |-> s.address, port |-> s.port] : s \in {k \in New : k.to = p}} = real
      <4> DEFINE L == Listens(args, bound)
                 N(l) == [address |-> l.address, port |-> l.port, to |-> l.to, who |-> g]
                 A(l) == [address |-> l.address, port |-> l.port]
      <4>1. \A l \in L : A(N(l)) = A(l) /\ N(l).to = l.to
        OBVIOUS
      <4>2. New = {N(l) : l \in L}
        OBVIOUS
      <4> HIDE DEF L, N, New
      <4> HIDE DEF A
      <4>3. ASSUME NEW n \in New, n.to = p PROVE \E l \in L : l.to = p /\ A(n) = A(l)
        BY <4>1, <4>2, <4>3
      <4>4. ASSUME NEW l \in L, l.to = p PROVE \E n \in New : n.to = p /\ A(n) = A(l)
        BY <4>1, <4>2, <4>4
      <4>5. {A(k) : k \in {n \in New : n.to = p}} = {A(l) : l \in {k \in L : k.to = p}}
        BY <4>3, <4>4
      <4> QED
        BY <4>5 DEF L, A
    <3>3. /\ real \subseteq said
          /\ \A w \in said \ real : \E s \in bound, a \in args : \E m \in a.maps :
                s.port = w.port /\ m.host = w.port /\ w.address = a.address /\ Clash(s.address, a.address)
      BY <1>3, <1>5, <1>7, ListensAsSaid
    <3>4. ASSUME NEW w \in said \ real
          PROVE  InTheWay(g, w.address, w.port)'
      <4>1. PICK s \in bound, a \in args : \E m \in a.maps :
               s.port = w.port /\ m.host = w.port /\ w.address = a.address /\ Clash(s.address, a.address)
        BY <3>3
      <4>2. InTheWay(g, w.address, w.port)
        BY <4>1, <1>1, OthersInTheWay DEF TellInv
      <4> QED
        <5>1. UNCHANGED <<scene, rules>> /\ \A k \in bound : k.who = "other" => k \in bound'
          BY <1>1
        <5> HIDE DEF said, real, New, args
        <5> QED
          BY <4>2, <5>1, StillInTheWay
    <3> HIDE DEF said, real, New, args
    <3>5. TrueOf(g, p)' <=> (guest'[g] = "up" =>
             /\ {[address |-> s.address, port |-> s.port] : s \in {k \in SocketsOf(g)' : k.to = p}}
                   \subseteq Reachable(rules'[g], p)
             /\ \A w \in Reachable(rules'[g], p) \
                    {[address |-> s.address, port |-> s.port] : s \in {k \in SocketsOf(g)' : k.to = p}} :
                   InTheWay(g, w.address, w.port)')
      BY DEF TrueOf
    <3>6. Reachable(rules'[g], p) = said
      BY <1>1 DEF said
    <3> QED
      BY <3>1, <3>2, <3>3, <3>4, <3>5, <3>6
  <2> QED
    BY <2>1, <2>2, <2>3, <1>2, <1>6 DEF TellInv
<1>8. CASE ~PasstStarts(args, bound) /\ guest'[g] = "refused" /\ bound' = bound
  <2>1. ASSUME Overlapping(args) PROVE CauseOf(g)'
    <3>1. OwnRulesMeet(g)'
      BY <2>1, <1>1, OverlapIsOwn DEF OwnRulesMeet
    <3> HIDE DEF args, New
    <3> QED
      BY <3>1 DEF CauseOf
  <2>2. ASSUME ~Overlapping(args) PROVE CauseOf(g)'
    <3>1. PICK a \in args : ~a.weak /\ ~Probe(a.address, {m.host : m \in a.maps}, bound)
      BY <1>8, <2>2 DEF PasstStarts
    <3>2. PICK m \in a.maps : ~Binds(a.address, m.host, bound)
      BY <3>1 DEF Probe
    <3>3. m.host >= Start
      BY <3>1, <1>3, <1>5, StrictPorts
    <3>4. PICK s \in bound : s.port = m.host /\ Clash(s.address, a.address)
      BY <3>2, <3>3 DEF Binds
    <3>5. InTheWay(g, a.address, m.host)
      BY <3>4, <1>1, OthersInTheWay DEF TellInv
    <3>6. HeldUp(g)
      BY <3>1, <3>5 DEF HeldUp
    <3>7. HeldUp(g)'
      <4>1. UNCHANGED <<scene, rules, bound>>
        BY <1>1, <1>8
      <4> HIDE DEF args, New
      <4> QED
        BY <3>6, <4>1 DEF HeldUp, InTheWay, Guests, Given
    <3> HIDE DEF args, New
    <3> QED
      BY <3>7 DEF CauseOf
  <2>7. CauseOf(g)'
    BY <2>1, <2>2
  <2>8. \A p \in Port \ Block : TrueOf(g, p)'
    BY <1>8 DEF TrueOf
  <2>9. Sockets'
    BY <1>1, <1>8 DEF TellInv, Sockets
  <2> QED
    BY <2>7, <2>8, <2>9, <1>2, <1>6 DEF TellInv
<1>9. CASE guest'[g] = "failed" /\ bound' = bound
  <2>1. CauseOf(g)' /\ \A p \in Port \ Block : TrueOf(g, p)'
    BY <1>9 DEF CauseOf, TrueOf
  <2>2. Sockets'
    BY <1>1, <1>9 DEF TellInv, Sockets
  <2> QED
    BY <2>1, <2>2, <1>2, <1>6 DEF TellInv
<1> QED
  BY <1>3, <1>7, <1>8, <1>9 DEF Starts

\* Every other step takes sockets away from guests that are over, or adds a
\* stranger's.
LEMMA TellStep ==
    ASSUME UsualHost, AddrInv, DownInv, PlacedInv, TellInv, [Next]_vars
    PROVE  TellInv'
<1>1. Guests \subseteq Guest /\ UNCHANGED scene /\ UNCHANGED Guests
  BY LabAssumption DEF DownInv, Guests, Next, vars, labVars, lanVars, BuildLans, ResolveForward,
     StartAll, AllStarted, Cancelled, Starts, Dies, Shutdown, Send, Reads, Flood, Other,
     TeardownBegins, Closes
<1>2. guest \in [Guest -> Status] /\ "other" \notin Guest
  BY LabAssumption DEF DownInv
<1>3. CASE ResolveForward
  <2>1. UNCHANGED <<guest, bound>> /\ \A g \in Guest : guest[g] = "no"
    BY <1>3 DEF ResolveForward, DownInv
  <2>2. \A s \in bound : s.who = "other"
    BY <2>1, <1>1 DEF DownInv
  <2> QED
    BY <2>1, <2>2, <1>1 DEF TellInv, Sockets, CauseOf, TrueOf
<1>4. ASSUME NEW g \in Guests, Starts(g) PROVE TellInv'
  BY <1>4, StartsTell
<1>5. ASSUME UNCHANGED rules,
             \A s \in bound : s.who = "other" => s \in bound',
             \A s \in bound' : s \in bound \/ s.who = "other",
             \A g \in Guests : guest'[g] \in {"up", "refused"} =>
                guest'[g] = guest[g] /\ \A s \in bound : s.who = g => s \in bound'
      PROVE  TellInv'
  <2>1. ASSUME NEW g \in Guests PROVE CauseOf(g)' /\ \A p \in Port \ Block : TrueOf(g, p)'
    <3>1. guest'[g] \in {"up", "refused"} => SocketsOf(g)' = SocketsOf(g)
      BY <1>1, <1>2, <1>5 DEF SocketsOf
    <3> QED
      BY <3>1, <1>1, <1>5, StillTells DEF TellInv
  <2>2. Sockets'
    BY <1>5 DEF TellInv, Sockets
  <2> QED
    BY <2>1, <2>2, <1>1 DEF TellInv
<1>6. ASSUME NEW g \in Guests, Dies(g) \/ Shutdown(g) PROVE TellInv'
  <2>1. UNCHANGED rules /\ bound' = bound \ SocketsOf(g) /\ guest'[g] \in {"dead", "down"}
        /\ \A h \in Guest \ {g} : guest'[h] = guest[h]
    BY <1>1, <1>2, <1>6 DEF Dies, Shutdown
  <2> QED
    BY <2>1, <1>1, <1>2, <1>5 DEF SocketsOf
<1>7. ASSUME NEW s \in scene.others, Other(s) PROVE TellInv'
  <2>1. UNCHANGED <<rules, guest>> /\ bound \subseteq bound'
        /\ \A k \in bound' \ bound : k.who = "other"
    BY <1>7 DEF Other
  <2> QED
    BY <2>1, <1>5
<1>8. CASE UNCHANGED <<rules, guest, bound>>
  BY <1>8, <1>5
<1>9. CASE StartAll \/ Cancelled
  <2>1. UNCHANGED <<rules, bound>>
        /\ \A g \in Guests : guest'[g] \in {"starting", "failed", guest[g]}
    BY <1>1, <1>9 DEF StartAll, Cancelled
  <2> QED
    BY <2>1, <1>5
<1> QED
  BY <1>3, <1>4, <1>6, <1>7, <1>8, <1>9 DEF Next, vars, labVars, BuildLans, AllStarted, TeardownBegins,
     Closes, Send, Reads, Flood

\* At first nothing listens and no guest is anything.
LEMMA TellInit == Init => AddrInv /\ DownInv /\ PlacedInv /\ TellInv
<1> SUFFICES ASSUME Init PROVE AddrInv /\ DownInv /\ PlacedInv /\ TellInv
  OBVIOUS
<1>1. DownInv
  BY DEF Init, DownInv, Status
<1>2. Guests \subseteq Guest /\ Resolved = {}
  BY <1>1, LabAssumption DEF DownInv, Guests, Init, Resolved
<1>3. PlacedInv
  BY <1>2 DEF PlacedInv, Init
<1>4. TellInv
  BY <1>2 DEF Init, TellInv, Sockets, CauseOf, TrueOf
<1> QED
  BY <1>1, <1>3, <1>4, AddrInit

\* All of it, together.
LEMMA TellHolds ==
    ASSUME UsualHost PROVE Spec => [](AddrInv /\ DownInv /\ PlacedInv /\ TellInv)
<1>1. AddrInv /\ DownInv /\ PlacedInv /\ TellInv /\ [Next]_vars
        => (AddrInv /\ DownInv /\ PlacedInv /\ TellInv)'
  BY AddrStep, DownStep, PlacedStep, TellStep
<1> QED
  BY <1>1, TellInit, PTL DEF Spec

(* On a usual host, whatever guests there are, whichever rules they have   *)
(* and in whichever order they come up, a passt that is refused a port is  *)
(* refused for two rules of its own that meet, a stranger's socket or a    *)
(* rule of another guest where one of the two named its address: no rule   *)
(* stands in its own way, and no two guests take each other's ports on     *)
(* addresses they were given (session.py:370).                             *)
THEOREM RefusedForACause ==
    ASSUME UsualHost PROVE Spec => []RefusalHasACause
  BY TellHolds, TellSays, PTL

(* There, a guest that is up is reachable where it says and, of what its   *)
(* passt listens on, nowhere else, but for what a stranger has or a rule   *)
(* of another guest asks for, where one of the two named its address       *)
(* (forward.py:335).                                                       *)
THEOREM SaidIsReachable ==
    ASSUME UsualHost PROVE Spec => []ReachableIsTrue
  BY TellHolds, TellSays, PTL
=============================================================================
