---------------------------- MODULE SockAddr ----------------------------
(***************************************************************************)
(* The socket address SADDR_46 of sock.h: an IPv4 address, a port and a    *)
(* mask that every comparison applies to both addresses.                   *)
(*                                                                         *)
(* Only two masks occur in the program: all ones, which every constructor  *)
(* and from_string() give, and zero, which is what udp_sock::receive()     *)
(* leaves in the source address it reports, because it clears the whole    *)
(* record before recvfrom() fills in the sockaddr part.  Address and port  *)
(* are numbers; the order in which the code packs their bytes matters to   *)
(* no property, so it is the natural one.                                  *)
(***************************************************************************)
EXTENDS Naturals

\* An endpoint: what a UDP datagram names as its source or its destination.
Endpoint(ips, ports) == [ip : ips, port : ports]

\* The values of SADDR_46 over those endpoints.
SockAddrs(ips, ports) == [ip : ips, port : ports, mask : {0, 1}]

\* from_string() and the constructors: the mask is all ones.
Configured(a) == [ip |-> a.ip, port |-> a.port, mask |-> 1]

\* receive() with no address: memset() first, so the mask of Rsin() is zero.
Received(a) == [ip |-> a.ip, port |-> a.port, mask |-> 0]

\* Send() looks at the sockaddr part alone.
EndpointOf(x) == [ip |-> x.ip, port |-> x.port]

\* x.ip masked for a comparison of x with y.
MaskedIp(x, y) == IF x.mask = 1 /\ y.mask = 1 THEN x.ip ELSE 0

\* Variant: == on the addresses as they are, without the mask.
SEqUnmasked(x, y) == x.ip = y.ip /\ x.port = y.port

\* operator ==
SEq(x, y) ==
  /\ MaskedIp(x, y) = MaskedIp(y, x)
  /\ x.port = 0 \/ y.port = 0 \/ x.port = y.port

\* Variant: < on the addresses as they are, without the mask.
SLessUnmasked(x, y) ==
  x.ip < y.ip \/ (x.ip = y.ip /\ x.port < y.port)

\* operator <
SLess(x, y) ==
  \/ MaskedIp(x, y) < MaskedIp(y, x)
  \/ /\ MaskedIp(x, y) = MaskedIp(y, x)
     /\ x.port # 0 /\ y.port # 0 /\ x.port < y.port

\* std::set calls two keys the same when neither is less than the other.
Equivalent(x, y) == ~SLess(x, y) /\ ~SLess(y, x)

\* std::set<SADDR_46>::insert: a key equivalent to one present is not added.
SetInsert(S, a) == IF \E b \in S : Equivalent(b, a) THEN S ELSE S \cup {a}

\* The test _rec_udp makes of each member of _pers.
SetMatches(S, a) == \E b \in S : SEq(b, a)
=============================================================================
