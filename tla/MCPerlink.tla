---------------------------- MODULE MCPerlink ----------------------------
(* Small systems: a provider and one or two consumers.                     *)
EXTENDS Perlink, TLC

CONSTANTS prov, cons, other, abc, xyz, k1, k2

MCIps == 1..4
MCPorts == {1, 2, 3}
MCSrvAddr == [ip |-> 1, port |-> 1]

Provider(g) == [typ |-> 1, grp |-> g]
Consumer(g) == [typ |-> 0, grp |-> g]

PairAt == prov :> [ip |-> 2, port |-> 2] @@ cons :> [ip |-> 3, port |-> 3]
PairKey == prov :> k1 @@ cons :> k1
PairStarts == prov :> {Provider(abc)} @@ cons :> {Consumer(abc)}

TrioAt == PairAt @@ other :> [ip |-> 4, port |-> 3]
TrioKey == PairKey @@ other :> k2
TrioStarts == PairStarts @@ other :> {Consumer(abc)}
\* The provider may come back as a consumer, and the third peer is a provider.
SwapStarts == prov :> {Provider(abc), Consumer(abc)} @@ cons :> {Consumer(abc)}
                @@ other :> {Provider(abc)}
GroupStarts == prov :> {Provider(abc)} @@ cons :> {Consumer(xyz)}

\* Every peer on the default port, CLI_PORT.
DefaultAt == prov :> [ip |-> 2, port |-> 2] @@ cons :> [ip |-> 3, port |-> 2]
               @@ other :> [ip |-> 4, port |-> 2]
OneKey == [p \in {prov, cons, other} |-> k1]

\* One consumer on the port of the server, SRV_PORT.
SrvPortAt == PairAt @@ other :> [ip |-> 4, port |-> 1]
=============================================================================
