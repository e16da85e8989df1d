--------------------------- MODULE MCGroupOverlay ---------------------------
(* Upstream drops a node or a provider, comes to list what the user added,   *)
(* drops its group, or takes the name the user gave to a group.              *)
EXTENDS GroupOverlay, TLC

CONSTANTS N, A, x, y, q, s1, s2

Select(members) == [kind |-> "select", members |-> members]
Relay(members) == [kind |-> "relay", members |-> members]

Upstream(nodes, providers, groups) ==
  [nodes |-> nodes, providers |-> providers, groups |-> groups, rules |-> DOMAIN groups]

Usual == Upstream({x, y}, {q}, N :> Select({x}))
Shrunk == Upstream({y}, {}, N :> Select({y}))
Renamed == Upstream({x}, {q}, A :> Select({x}))

MCContents == {Usual, Shrunk, Renamed}
MCInitial == s1 :> Usual @@ s2 :> Renamed
MCDefinitions == {Select({x}), Select({N, q}), Relay({N})}
MCLimit == [command |-> 3, upstream |-> 2, rule |-> 1, fault |-> 1]
=============================================================================
