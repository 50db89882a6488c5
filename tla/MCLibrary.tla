---------------------------- MODULE MCLibrary ----------------------------
(* Small sets for Library. *)
EXTENDS Library, Bitwise

CONSTANTS n1, o1, o2, t1, t2

\* Three hosts with three ports each: every combination of equal and different
\* address and port occurs.
MCIps == 1..3
MCPorts == 1..3

MCHosts == 1..2
MCThePorts == 0..2
MCSecrets == {<<0, 1, 2, 3>>, <<5, 3, 7, 2>>}

BitXor(a, b) == a ^^ b
=============================================================================
