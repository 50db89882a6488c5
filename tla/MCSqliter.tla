---------------------------- MODULE MCSqliter ----------------------------
(* A process that may have six handles open: the constructor and store_peer  *)
(* need two or three at a time, so each kind of loss happens several times.  *)
EXTENDS Sqliter

MCMaxHandles == 6
=============================================================================
