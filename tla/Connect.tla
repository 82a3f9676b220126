------------------------------- MODULE Connect -------------------------------
(***************************************************************************)
(* From a URL to a connection: check_url (src/main.rs) resolves the host   *)
(* and judges its addresses, the HTTP client resolves it once more when it *)
(* connects and ValidatingResolver (src/ssrf.rs) judges what it connects   *)
(* to.  The answers of the system resolver may differ from one time to the *)
(* next; DnsCache keeps them for a while.                                  *)
(***************************************************************************)
EXTENDS NetworkPolicy

CONSTANTS
  Policies,
  Hosts,        \* [labels, dot, address]
  Answers,      \* sets of addresses that names resolve to
  None

ASSUME ConnectAssumption ==
  /\ \A ips \in Answers : ips \subseteq Address4 \cup Address6
  /\ Hosts \subseteq [labels : Seq(STRING), dot : BOOLEAN, address : Address4 \cup Address6 \cup {None}]
  /\ \A h \in Hosts : Normalized(h) \in Hosts
  /\ None \notin Answers /\ None \notin Hosts /\ None \notin Address4 \cup Address6
  /\ None \notin [host : Hosts, ips : SUBSET (Address4 \cup Address6)]

VARIABLES
  policy,
  proxy,       \* proxy_host, or None
  cache,       \* entries of DnsCache
  pc,          \* "check", "connect", "sent", "refused"
  host,        \* of the current URL
  checked,     \* [host, ips] that check_url let pass, or None
  connected    \* the address a connection is opened to, or None

vars == <<policy, proxy, cache, pc, host, checked, connected>>

TypeOK ==
  /\ policy \in Policies /\ proxy \in Hosts \cup {None} /\ host \in Hosts
  /\ cache \in [Hosts -> Answers \cup {None}]
  /\ pc \in {"check", "connect", "sent", "refused"}
  /\ checked \in [host : Hosts, ips : SUBSET (Address4 \cup Address6)] \cup {None}
  /\ connected \in Address4 \cup Address6 \cup {None}

Init ==
  /\ policy \in Policies /\ proxy \in Hosts \cup {None}
  /\ cache = [h \in Hosts |-> None]
  /\ pc = "check" /\ host \in Hosts /\ checked = None /\ connected = None

Literal(h) == h.address # None

Resolvable(h) == IF Literal(h) THEN {{h.address}} ELSE Answers

\* DnsCache::resolve: a literal as it is, an entry, or what the system resolver says now.
Resolve(h, ips) ==
  \/ (Literal(h) \/ cache[h] = ips) /\ UNCHANGED cache
  \/ ~ Literal(h) /\ cache' = [cache EXCEPT ![h] = ips]

AllAllowed(ips) == ips # {} /\ \A ip \in ips : CheckIp(policy, ip)

\* check_url: a name that is blocked is not resolved.
CheckUrl ==
  /\ pc = "check"
  /\ ~ IsHostBlocked(policy, Normalized(host))
  /\ \E ips \in Resolvable(host) :
       /\ Resolve(Normalized(host), ips)
       /\ IF AllAllowed(ips) THEN pc' = "connect" /\ checked' = [host |-> host, ips |-> ips]
                             ELSE pc' = "refused" /\ UNCHANGED checked
  /\ UNCHANGED <<policy, proxy, host, connected>>

\* A blocked host, a URL that cannot be parsed, another scheme, or a failed lookup.
CheckUrlFails ==
  /\ pc = "check" /\ pc' = "refused"
  /\ UNCHANGED <<policy, proxy, cache, host, checked, connected>>

\* Mutant: the resolver of the client trusts what check_url has seen.
OpenTrusting ==
  /\ pc = "connect" /\ proxy = None
  /\ \E ips \in Resolvable(host) :
       Resolve(host, ips) /\ connected' \in ips /\ pc' = "sent"
  /\ UNCHANGED <<policy, proxy, host, checked>>

\* A connection to the host itself: ValidatingResolver is asked unless the host is a literal.
Open ==
  /\ pc = "connect" /\ proxy = None
  /\ \E ips \in Resolvable(host) :
       /\ Resolve(host, ips)
       /\ IF Literal(host) \/ (~ IsHostBlocked(policy, Normalized(host)) /\ AllAllowed(ips))
          THEN connected' \in ips /\ pc' = "sent"
          ELSE pc' = "refused" /\ UNCHANGED connected
  /\ UNCHANGED <<policy, proxy, host, checked>>

\* With a proxy only its own host is resolved here, and it is not judged.
OpenProxy ==
  /\ pc = "connect" /\ proxy # None
  /\ \E ips \in Resolvable(proxy) : Resolve(proxy, ips) /\ connected' \in ips
  /\ pc' = "sent"
  /\ UNCHANGED <<policy, proxy, host, checked>>

\* The next URL is checked like the first.
Redirect ==
  /\ pc = "sent" /\ pc' = "check"
  /\ host' \in Hosts /\ connected' = None
  /\ UNCHANGED <<policy, proxy, cache, checked>>

Next == CheckUrl \/ CheckUrlFails \/ Open \/ OpenProxy \/ Redirect

Spec == Init /\ [][Next]_vars

-----------------------------------------------------------------------------
\* Properties

\* An IPv6 address that stands for one of IPv4: compatible, mapped, NAT64, 6to4 (of any
\* subnet and interface), SIIT, ISATAP (of any prefix that is not one of these).
StandsFor(ip, v4) ==
  \/ ip \in {<<0, 0, 0, 0, 0, z, v4[1], v4[2]>> : z \in {0, \hFFFF}}
  \/ ip \in {<<\h0064, \hFF9B, 0, 0, 0, 0, v4[1], v4[2]>>, <<0, 0, 0, 0, \hFFFF, 0, v4[1], v4[2]>>}
  \/ ip[1] = \h2002 /\ ip[2] = v4[1] /\ ip[3] = v4[2]
  \/ ip[1] # \h2002 /\ ip[5] \in {0, \h0200} /\ ip[6] = \h5EFE /\ ip[7] = v4[1] /\ ip[8] = v4[2]

Readings(ip) == {v4 \in {<<ip[2], ip[3]>>, <<ip[7], ip[8]>>} : StandsFor(ip, v4)}

Refused4(v4) ==
  \/ InSome(policy.blocked4, v4)
  \/ InSome(BlockedDefault, v4) /\ ~ InSome(policy.allowed4, v4)

\* 2001::/32, where a relay of somebody else hides an address of IPv4.
TeredoNet == {ip \in Address6 : ip[1] = \h2001 /\ ip[2] = 0}

\* ff00::/8, fe80::/10 and fc00::/7: multicast, link-local, unique local.
LocalNets == {ip \in Address6 : ip[1] \in (\hFF00 .. \hFFFF) \cup (\hFE80 .. \hFEBF) \cup (\hFC00 .. \hFDFF)}

\* An address that the policy refuses, in none of its spellings: one of IPv6 is refused if it is
\* configured as blocked, if it is of Teredo, if it stands for an address of IPv4 that is refused,
\* and if it stands for none, is local, and is not configured as allowed.
Refused(ip) ==
  IF ip \in Address4 THEN Refused4(ip)
  ELSE \/ ip \in policy.blocked6 \cup TeredoNet
       \/ \E v4 \in Readings(ip) : Refused4(v4)
       \/ Readings(ip) = {} /\ ip \in LocalNets \ policy.allowed6

\* Without a proxy no connection is opened to an address the policy refuses, in whatever spelling,
\* though names may resolve to something else between the check and the connection (ssrf.rs:4).
ConnectedAllowed == connected # None /\ proxy = None => ~ Refused(connected)

\* Also with a proxy, and after redirects, the host a request is sent to is the one that was
\* checked last, neither it nor a parent domain is blocked, and when it was checked it had
\* addresses, all of them allowed.
TargetChecked ==
  pc \in {"connect", "sent"} =>
    /\ checked # None /\ checked.host = host
    /\ checked.ips # {} /\ \A ip \in checked.ips : ~ Refused(ip)
    /\ \A entry \in policy.hosts, n \in 0 .. Len(host.labels) :
         SubSeq(host.labels, n + 1, Len(host.labels)) = entry.labels => entry.sub /\ n = 0
=============================================================================
