---------------------------- MODULE Library ----------------------------
(* The classes and functions that are used, or could be used, on their     *)
(* own: the set of linked peers, the map of pairs, the cipher, the client  *)
(* socket of TCP and the thread.  Nothing in the program lets two of them  *)
(* act on each other, so a behaviour exercises one, and the others stay as *)
(* they were constructed.                                                  *)
EXTENDS PeerSet, Pairs, Cipher, TcpSocket, OsThread

VARIABLE part

libraryVars == <<part, psetVars, pairVars, cipherVars, tcpVars, threadVars>>

LibraryInit ==
  /\ part \in {"set", "pairs", "cipher", "socket", "thread"}
  /\ PeerSetInit /\ PairsInit /\ CipherInit /\ TcpInit /\ OsThreadInit
  /\ part # "set" => mask = 0
  /\ part # "thread" => stopped = 0

SetStep ==
  /\ part = "set" /\ PeerSetNext
  /\ UNCHANGED <<part, pairVars, cipherVars, tcpVars, threadVars>>

PairsStep ==
  /\ part = "pairs" /\ PairsNext
  /\ UNCHANGED <<part, psetVars, cipherVars, tcpVars, threadVars>>

CipherStep ==
  /\ part = "cipher" /\ CipherNext
  /\ UNCHANGED <<part, psetVars, pairVars, tcpVars, threadVars>>

SocketStep ==
  /\ part = "socket" /\ TcpNext
  /\ UNCHANGED <<part, psetVars, pairVars, cipherVars, threadVars>>

ThreadStep ==
  /\ part = "thread" /\ OsThreadNext
  /\ UNCHANGED <<part, psetVars, pairVars, cipherVars, tcpVars>>

LibraryNext == SetStep \/ PairsStep \/ CipherStep \/ SocketStep \/ ThreadStep

LibrarySpec == LibraryInit /\ [][LibraryNext]_libraryVars /\ OsThreadFairness

\* Every class keeps its type.
LibraryTypeOK ==
  PeerSetTypeOK /\ PairsTypeOK /\ CipherTypeOK /\ TcpSocketTypeOK /\ OsThreadTypeOK
=============================================================================
