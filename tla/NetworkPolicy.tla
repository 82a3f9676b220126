---------------------------- MODULE NetworkPolicy ----------------------------
(***************************************************************************)
(* Which hosts and addresses the proxy may talk to (NetworkPolicy and      *)
(* ipv6_embedded_ipv4 in src/main.rs).  An address is a sequence of 16-bit *)
(* segments, two for IPv4 and eight for IPv6; a network is an address of   *)
(* IPv4 and the length of its prefix.                                      *)
(***************************************************************************)
EXTENDS Integers, Sequences

Segment == 0 .. 65535
Address4 == Segment \X Segment
Address6 == Segment \X Segment \X Segment \X Segment \X Segment \X Segment \X Segment \X Segment

Net(a, b, c, len) == [hi |-> a * 256 + b, lo |-> c * 256, len |-> len]

Contains(net, ip) ==
  IF net.len <= 16
  THEN ip[1] \div 2^(16 - net.len) = net.hi \div 2^(16 - net.len)
  ELSE ip[1] = net.hi /\ ip[2] \div 2^(32 - net.len) = net.lo \div 2^(32 - net.len)

InSome(nets, ip) == \E net \in nets : Contains(net, ip)

\* ipv4_blocked_default
BlockedDefault ==
  {Net(10, 0, 0, 8), Net(172, 16, 0, 12), Net(192, 168, 0, 16), Net(127, 0, 0, 8), Net(169, 254, 0, 16),
   Net(100, 64, 0, 10), Net(0, 0, 0, 8), Net(192, 0, 0, 24), Net(192, 0, 2, 24), Net(198, 18, 0, 15),
   Net(198, 51, 100, 24), Net(203, 0, 113, 24), Net(224, 0, 0, 4), Net(240, 0, 0, 4)}

\* A policy is [allowed4, blocked4, allowed6, blocked6, hosts]: networks of IPv4, sets of IPv6
\* addresses, and host names.  What is configured as blocked is, even if it is also allowed.
CheckIpv4(policy, ip) ==
  /\ ~ InSome(policy.blocked4, ip)
  /\ InSome(BlockedDefault, ip) => InSome(policy.allowed4, ip)

Last4(ip) == <<ip[7], ip[8]>>
Zero(ip, first, last) == \A i \in first .. last : ip[i] = 0

\* to_ipv4, and the first of the other forms that fits; at most one address.
Embedded(ip) ==
  IF \/ Zero(ip, 1, 5) /\ ip[6] \in {0, \hFFFF}
     \/ ip[1] = \h0064 /\ ip[2] = \hFF9B /\ Zero(ip, 3, 6) THEN {Last4(ip)}
  ELSE IF ip[1] = \h2002 THEN {<<ip[2], ip[3]>>}
  ELSE IF \/ Zero(ip, 1, 4) /\ ip[5] = \hFFFF /\ ip[6] = 0
          \/ ip[5] \in {0, \h0200} /\ ip[6] = \h5EFE THEN {Last4(ip)}
  ELSE {}

Teredo(ip) == ip[1] = \h2001 /\ ip[2] = 0

\* Multicast, link-local and unique local (:: and ::1 are embedded IPv4 addresses).
Local6(ip) == ip[1] \div 256 = 255 \/ ip[1] \div 64 = \hFE80 \div 64 \/ ip[1] \div 512 = \hFC00 \div 512

\* Mutant: an address of IPv6 is judged by the address of IPv4 in it only.
CheckIpByReading(policy, ip) ==
  IF ip \in Address4 THEN CheckIpv4(policy, ip)
  ELSE ip \notin policy.blocked6 /\ \A v4 \in Embedded(ip) : CheckIpv4(policy, v4)

CheckIp(policy, ip) ==
  IF ip \in Address4 THEN CheckIpv4(policy, ip)
  ELSE /\ ip \notin policy.blocked6
       /\ ~ Teredo(ip)
       /\ IF Embedded(ip) # {} THEN \A v4 \in Embedded(ip) : CheckIpv4(policy, v4)
                               ELSE Local6(ip) => ip \in policy.allowed6

-----------------------------------------------------------------------------
\* Hosts: [labels, dot, address], with or without a final dot; the address of a literal.

\* normalize_host
Normalized(host) == [host EXCEPT !.dot = FALSE]

EndsWith(s, t) == Len(t) <= Len(s) /\ SubSeq(s, Len(s) - Len(t) + 1, Len(s)) = t

\* An entry [labels, sub] that began with a dot stands for subdomains only.
IsHostBlocked(policy, host) ==
  \E entry \in policy.hosts :
    /\ EndsWith(host.labels, entry.labels)
    /\ entry.sub => Len(host.labels) > Len(entry.labels)
=============================================================================
