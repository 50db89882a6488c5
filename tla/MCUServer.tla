---------------------------- MODULE MCUServer ----------------------------
(* The server alone.  The server's own host and two others; the bounds let  *)
(* rows be stored, refreshed, expire at a midnight and be stored again.     *)
EXTENDS UServer

MCIps == {1, 2}
MCPorts == {1}
MCSrvAddr == [ip |-> 1, port |-> 1]
=============================================================================
