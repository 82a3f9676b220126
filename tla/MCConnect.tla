------------------------------ MODULE MCConnect ------------------------------
(***************************************************************************)
(* Instance of Connect: for a public and a private address of IPv4, the    *)
(* addresses of IPv6 that stand for them, those of Teredo, and local ones. *)
(***************************************************************************)
EXTENDS Connect

Public == <<8 * 256 + 8, 8 * 256 + 8>>
Private == <<10 * 256, 1>>
Documentation == <<192 * 256, 2 * 256 + 1>>
LinkLocal == <<\hFE80, 0, 0, 0, 0, 0, 0, 1>>
Global == <<\h2001, \h0DB8, 0, 0, 0, 0, 0, 1>>
Loopback == <<0, 0, 0, 0, 0, 0, 0, 1>>
Multicast == <<\hFF02, 0, 0, 0, 0, 0, 0, 1>>

\* Of the last unique local and link-local prefix.
Prefixed == {<<first, 0, 0, 1, 1, 0, 0, 1>> : first \in {\hFDFF, \hFEBF}}

Spellings(v4) ==
  {<<0, 0, 0, 0, 0, \hFFFF, v4[1], v4[2]>>, <<\h0064, \hFF9B, 0, 0, 0, 0, v4[1], v4[2]>>,
   <<\h2002, v4[1], v4[2], 0, 0, 0, 0, 1>>, <<0, 0, 0, 0, \hFFFF, 0, v4[1], v4[2]>>,
   <<\h2001, \h0DB8, 0, 0, \h0200, \h5EFE, v4[1], v4[2]>>, <<\hFE80, 0, 0, 0, 0, \h5EFE, v4[1], v4[2]>>,
   <<\h2001, 0, 0, 0, 0, 0, v4[1], v4[2]>>}

MCAnswers ==
  {{}, {Public, Private}} \cup
  {{ip} : ip \in {Public, Private, Documentation, LinkLocal, Global, Loopback, Multicast}
                 \cup Prefixed \cup Spellings(Public) \cup Spellings(Private)}

Name(labels, dot) == [labels |-> labels, dot |-> dot, address |-> None]
Address(label, ip) == [labels |-> <<label>>, dot |-> FALSE, address |-> ip]

MCHosts ==
  {Name(<<"a", "org">>, FALSE), Name(<<"a", "org">>, TRUE), Name(<<"b", "a", "org">>, FALSE),
   Address("10.0.0.1", Private), Address("8.8.8.8", Public)}

Policy(allowed4, blocked4, allowed6, blocked6, hosts) ==
  [allowed4 |-> allowed4, blocked4 |-> blocked4, allowed6 |-> allowed6, blocked6 |-> blocked6,
   hosts |-> hosts]

MCPolicies ==
  {Policy({}, {}, {}, {}, {}),
   Policy({Net(10, 0, 0, 24)}, {Net(8, 8, 0, 16)}, {LinkLocal, Multicast}, {Global}, {[labels |-> <<"a", "org">>, sub |-> TRUE]}),
   Policy({Net(8, 0, 0, 8)}, {Net(8, 8, 8, 24)}, {}, {}, {[labels |-> <<"a", "org">>, sub |-> FALSE]})}
=============================================================================
