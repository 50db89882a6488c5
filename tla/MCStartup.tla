---------------------------- MODULE MCStartup ----------------------------
(* Three processes and eight port numbers: the server's is 3, a peer tries   *)
(* two.  From 2 a search runs into the server's port, from 7 into the wrap. *)
EXTENDS Startup

CONSTANTS p1, p2, p3

MCProcs == {p1, p2, p3}
MCPortArgs == {2, 7}
MCOtherPorts == {4}
=============================================================================
