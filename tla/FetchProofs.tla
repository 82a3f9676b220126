---------------------------- MODULE FetchProofs ----------------------------
(***************************************************************************)
(* Theorems about the fetch, for any policies, hosts, URLs, answers of the *)
(* system resolver, limit of redirects and times: NetworkPolicy and        *)
(* Connect (which addresses are connected to) first, then FetchLoop (what  *)
(* is sent and what is delivered).                                         *)
(***************************************************************************)
EXTENDS Connect, FetchLoop, TLAPS

\* The first form that fits is the only one an address is read as.
LEMMA EmbeddedReading ==
  ASSUME NEW ip \in Address6, NEW v4 \in Readings(ip)
  PROVE  Embedded(ip) = {v4}
  <1>1. v4 = <<v4[1], v4[2]>> /\ StandsFor(ip, v4)
    BY DEF Readings
  <1>2. CASE \E z \in {0, \hFFFF} : ip = <<0, 0, 0, 0, 0, z, v4[1], v4[2]>>
    <2>1. Zero(ip, 1, 5) /\ ip[6] \in {0, \hFFFF} /\ Last4(ip) = v4
      BY <1>1, <1>2 DEF Zero, Last4
    <2> QED
      BY <2>1 DEF Embedded
  <1>3. CASE ip = <<\h0064, \hFF9B, 0, 0, 0, 0, v4[1], v4[2]>>
    <2>1. ip[1] = \h0064 /\ ip[2] = \hFF9B /\ Zero(ip, 3, 6) /\ Last4(ip) = v4
      BY <1>1, <1>3 DEF Zero, Last4
    <2>2. ~ Zero(ip, 1, 5)
      BY <2>1 DEF Zero
    <2> QED
      BY <2>1, <2>2 DEF Embedded
  <1>4. CASE ip = <<0, 0, 0, 0, \hFFFF, 0, v4[1], v4[2]>>
    <2>1. ip[1] = 0 /\ ip[5] = \hFFFF /\ ip[6] = 0 /\ Zero(ip, 1, 4) /\ Last4(ip) = v4
      BY <1>1, <1>4 DEF Zero, Last4
    <2>2. ~ Zero(ip, 1, 5)
      BY <2>1 DEF Zero
    <2> QED
      BY <2>1, <2>2 DEF Embedded
  <1>5. CASE ip[1] = \h2002 /\ ip[2] = v4[1] /\ ip[3] = v4[2]
    <2>1. ~ Zero(ip, 1, 5) /\ ~ Zero(ip, 1, 4)
      BY <1>5 DEF Zero
    <2>2. <<ip[2], ip[3]>> = v4
      BY <1>1, <1>5
    <2> QED
      BY <1>5, <2>1, <2>2 DEF Embedded
  <1>6. CASE ip[1] # \h2002 /\ ip[5] \in {0, \h0200} /\ ip[6] = \h5EFE /\ ip[7] = v4[1] /\ ip[8] = v4[2]
    <2>1. ~ Zero(ip, 3, 6) /\ ip[6] \notin {0, \hFFFF} /\ ip[5] # \hFFFF
      BY <1>6 DEF Zero
    <2>2. Last4(ip) = v4
      BY <1>1, <1>6 DEF Last4
    <2> QED
      BY <1>6, <2>1, <2>2 DEF Embedded
  <1> QED
    BY <1>1, <1>2, <1>3, <1>4, <1>5, <1>6 DEF StandsFor

\* An address of IPv6 is eight segments.
LEMMA EightSegments ==
  ASSUME NEW S, NEW ip \in S \X S \X S \X S \X S \X S \X S \X S
  PROVE  /\ ip = <<ip[1], ip[2], ip[3], ip[4], ip[5], ip[6], ip[7], ip[8]>>
         /\ ip[1] \in S /\ ip[5] \in S /\ ip[6] \in S
  <1>1. PICK a \in S, b \in S, c \in S, d \in S, e \in S, f \in S, g \in S, h \in S :
            ip = <<a, b, c, d, e, f, g, h>>
    OBVIOUS
  <1> QED
    BY <1>1

\* And what an address is read as is one of its readings.
LEMMA ReadingEmbedded ==
  ASSUME NEW ip \in Address6, Embedded(ip) # {}
  PROVE  Readings(ip) # {}
  <1>0. /\ ip = <<ip[1], ip[2], ip[3], ip[4], ip[5], ip[6], ip[7], ip[8]>>
        /\ ip[1] \in Int /\ ip[5] \in Int /\ ip[6] \in Int
    <2>1. Segment \subseteq Int
      BY DEF Segment
    <2> QED
      BY <2>1, EightSegments DEF Address6
  <1>1. SUFFICES StandsFor(ip, <<ip[2], ip[3]>>) \/ StandsFor(ip, <<ip[7], ip[8]>>)
    BY DEF Readings
  <1>2. CASE Zero(ip, 1, 5) /\ ip[6] \in {0, \hFFFF}
    <2>1. ip[1] = 0 /\ ip[2] = 0 /\ ip[3] = 0 /\ ip[4] = 0 /\ ip[5] = 0
      BY <1>2 DEF Zero
    <2>2. ip = <<0, 0, 0, 0, 0, ip[6], ip[7], ip[8]>>
      BY <1>0, <2>1
    <2>3. ip \in {<<0, 0, 0, 0, 0, z, ip[7], ip[8]>> : z \in {0, \hFFFF}}
      BY <1>2, <2>2
    <2> QED
      BY <2>3 DEF StandsFor
  <1>3. CASE ip[1] = \h0064 /\ ip[2] = \hFF9B /\ Zero(ip, 3, 6)
    <2>1. ip[3] = 0 /\ ip[4] = 0 /\ ip[5] = 0 /\ ip[6] = 0
      BY <1>3 DEF Zero
    <2>2. ip = <<\h0064, \hFF9B, 0, 0, 0, 0, ip[7], ip[8]>>
      BY <1>0, <1>3, <2>1
    <2> QED
      BY <2>2 DEF StandsFor
  <1>4. CASE ip[1] = \h2002
    BY <1>4 DEF StandsFor
  <1>5. CASE Zero(ip, 1, 4) /\ ip[5] = \hFFFF /\ ip[6] = 0
    <2>1. ip[1] = 0 /\ ip[2] = 0 /\ ip[3] = 0 /\ ip[4] = 0
      BY <1>5 DEF Zero
    <2>2. ip = <<0, 0, 0, 0, \hFFFF, 0, ip[7], ip[8]>>
      BY <1>0, <1>5, <2>1
    <2> QED
      BY <2>2 DEF StandsFor
  <1>6. CASE ip[1] # \h2002 /\ ip[5] \in {0, \h0200} /\ ip[6] = \h5EFE
    BY <1>6 DEF StandsFor
  <1> QED
    BY <1>2, <1>3, <1>4, <1>5, <1>6 DEF Embedded

\* The prefixes of the local networks, by their first segment.
LEMMA LocalPrefixes ==
  ASSUME NEW ip \in LocalNets
  PROVE  Local6(ip)
  <1>1. PICK first \in Int : first = ip[1]
    <2>1. ip \in Address6 /\ Segment \subseteq Int
      BY DEF LocalNets, Segment
    <2> QED
      BY <2>1, EightSegments DEF Address6
  <1>2. first \in 65280 .. 65535 \/ first \in 65152 .. 65215 \/ first \in 64512 .. 65023
    BY <1>1 DEF LocalNets
  <1>3. first \div 256 = 255 \/ first \div 64 = 1018 \/ first \div 512 = 126
    BY <1>2
  <1>4. \hFE80 \div 64 = 1018 /\ \hFC00 \div 512 = 126
    OBVIOUS
  <1> QED
    BY <1>1, <1>3, <1>4 DEF Local6

\* What check_ip lets pass is not refused, in none of its spellings.
LEMMA CheckIpSound ==
  ASSUME NEW ip \in Address4 \cup Address6, CheckIp(policy, ip)
  PROVE  ~ Refused(ip)
  <1>1. \A v4 : CheckIpv4(policy, v4) => ~ Refused4(v4)
    BY DEF CheckIpv4, Refused4
  <1>2. CASE ip \in Address4
    BY <1>1, <1>2 DEF CheckIp, Refused
  <1>3. CASE ip \notin Address4
    <2>1. ip \in Address6 /\ ip \notin policy.blocked6 /\ ip \notin TeredoNet
      BY <1>3 DEF CheckIp, Teredo, TeredoNet
    <2>2. \A v4 \in Readings(ip) : Embedded(ip) = {v4}
      BY <2>1, EmbeddedReading
    <2>3. \A v4 \in Readings(ip) : CheckIpv4(policy, v4)
      BY <1>3, <2>2 DEF CheckIp
    <2>4. Readings(ip) = {} => ip \notin LocalNets \ policy.allowed6
      <3>1. SUFFICES ASSUME Readings(ip) = {}, ip \in LocalNets PROVE ip \in policy.allowed6
        OBVIOUS
      <3>2. Embedded(ip) = {} /\ Local6(ip)
        BY <2>1, <3>1, ReadingEmbedded, LocalPrefixes
      <3> QED
        BY <1>3, <3>2 DEF CheckIp
    <2> QED
      BY <1>1, <1>3, <2>1, <2>3, <2>4 DEF Refused
  <1> QED
    BY <1>2, <1>3

\* A host that is_host_blocked lets pass is neither blocked nor below a blocked domain.
LEMMA HostSound ==
  ASSUME NEW p, NEW h \in Hosts, h.labels \in Seq(STRING), ~ IsHostBlocked(p, Normalized(h)),
         NEW entry \in p.hosts, NEW n \in 0 .. Len(h.labels),
         SubSeq(h.labels, n + 1, Len(h.labels)) = entry.labels
  PROVE  entry.sub /\ n = 0
  <1>1. Normalized(h).labels = h.labels
    BY DEF Normalized
  <1> DEFINE k == Len(h.labels)
  <1>2. k \in Nat /\ Len(entry.labels) = k - n /\ Len(entry.labels) <= k
    <2>1. k \in Nat /\ n + 1 \in 1 .. k + 1
      OBVIOUS
    <2>2. Len(SubSeq(h.labels, n + 1, k)) = k - n
      BY <2>1
    <2>3. Len(entry.labels) = k - n
      BY <2>2
    <2>4. k - n <= k
      BY <2>1
    <2> QED
      BY <2>1, <2>3, <2>4
  <1>3. EndsWith(h.labels, entry.labels)
    <2>1. k - Len(entry.labels) + 1 = n + 1
      BY <1>2
    <2> QED
      BY <1>2, <2>1 DEF EndsWith
  <1>4. entry.sub /\ ~ (k > Len(entry.labels))
    BY <1>1, <1>3 DEF IsHostBlocked
  <1> QED
    BY <1>2, <1>4

-----------------------------------------------------------------------------
\* What check_url saw is an answer for the host, and none of it is refused under the policy.
Seen ==
  checked # None =>
    /\ checked.ips \in Resolvable(checked.host)
    /\ \A ip \in checked.ips : ~ Refused(ip)

Inv == TypeOK /\ Seen /\ ConnectedAllowed /\ TargetChecked

LEMMA Typed ==
  ASSUME ConnectAssumption, NEW h \in Hosts, NEW ips \in Resolvable(h)
  PROVE  /\ ips \subseteq Address4 \cup Address6
         /\ ~ Literal(h) => ips \in Answers
         /\ Normalized(h) \in Hosts
         /\ h.labels \in Seq(STRING)
  BY DEF ConnectAssumption, Resolvable, Literal

LEMMA SamePolicy ==
  ASSUME policy' = policy
  PROVE  \A ip : Refused(ip)' <=> Refused(ip)
  BY DEF Refused, Refused4

LEMMA Judged ==
  ASSUME NEW ips, ips \subseteq Address4 \cup Address6, AllAllowed(ips)
  PROVE  ips # {} /\ \A ip \in ips : ~ Refused(ip)
  BY CheckIpSound DEF AllAllowed

LEMMA InvStep ==
  ASSUME ConnectAssumption, Inv, [Next]_vars
  PROVE  Inv'
  <1> USE DEF Inv
  <1>1. CASE CheckUrl
    <2>1. PICK ips \in Resolvable(host) :
            /\ Resolve(Normalized(host), ips)
            /\ IF AllAllowed(ips) THEN pc' = "connect" /\ checked' = [host |-> host, ips |-> ips]
                                  ELSE pc' = "refused" /\ UNCHANGED checked
      BY <1>1 DEF CheckUrl
    <2>2. /\ pc = "check" /\ ~ IsHostBlocked(policy, Normalized(host))
          /\ UNCHANGED <<policy, proxy, host, connected>>
      BY <1>1 DEF CheckUrl
    <2>3. /\ host \in Hosts /\ ips \subseteq Address4 \cup Address6 /\ Normalized(host) \in Hosts
          /\ host.labels \in Seq(STRING) /\ (~ Literal(host) => ips \in Answers)
          /\ (Literal(Normalized(host)) <=> Literal(host))
      <3>1. host \in Hosts
        BY DEF TypeOK
      <3>2. Normalized(host).address = host.address
        BY <3>1 DEF Normalized, ConnectAssumption
      <3> QED
        BY <3>1, <3>2, Typed DEF Literal
    <2>4. cache' \in [Hosts -> Answers \cup {None}]
      BY <2>1, <2>3 DEF Resolve, TypeOK
    <2>5. \A ip : Refused(ip)' <=> Refused(ip)
      BY <2>2, SamePolicy
    <2>6. CASE AllAllowed(ips)
      <3>1. pc' = "connect" /\ checked' = [host |-> host, ips |-> ips] /\ checked' # None
        <4>1. [host |-> host, ips |-> ips] \in [host : Hosts, ips : SUBSET (Address4 \cup Address6)]
          BY <2>3
        <4> QED
          BY <2>1, <2>6, <4>1 DEF ConnectAssumption
      <3>2. ips # {} /\ \A ip \in ips : ~ Refused(ip)
        BY <2>3, <2>6, Judged
      <3>3. \A entry \in policy.hosts, n \in 0 .. Len(host.labels) :
              SubSeq(host.labels, n + 1, Len(host.labels)) = entry.labels => entry.sub /\ n = 0
        <4>1. SUFFICES ASSUME NEW entry \in policy.hosts, NEW n \in 0 .. Len(host.labels),
                              SubSeq(host.labels, n + 1, Len(host.labels)) = entry.labels
                       PROVE  entry.sub /\ n = 0
          OBVIOUS
        <4>2. host \in Hosts /\ host.labels \in Seq(STRING) /\ ~ IsHostBlocked(policy, Normalized(host))
          BY <2>2, <2>3
        <4> QED
          BY ONLY <4>1, <4>2, HostSound
      <3>4. TypeOK'
        BY <2>2, <2>3, <2>4, <3>1 DEF TypeOK
      <3>5. Seen'
        BY <2>5, <3>1, <3>2 DEF Seen, Resolvable, Literal
      <3>6. ConnectedAllowed'
        BY <2>2, <2>5 DEF ConnectedAllowed
      <3>7. TargetChecked'
        BY <2>2, <2>5, <3>1, <3>2, <3>3 DEF TargetChecked
      <3> QED
        BY <3>4, <3>5, <3>6, <3>7
    <2>7. CASE ~ AllAllowed(ips)
      <3>1. pc' = "refused" /\ UNCHANGED checked
        BY <2>1, <2>7
      <3>2. TypeOK'
        BY <2>2, <2>4, <3>1 DEF TypeOK
      <3> QED
        BY <2>2, <2>5, <3>1, <3>2 DEF Seen, Resolvable, Literal, ConnectedAllowed, TargetChecked
    <2> QED
      BY <2>6, <2>7
  <1>2. CASE CheckUrlFails
    <2>1. \A ip : Refused(ip)' <=> Refused(ip)
      BY <1>2, SamePolicy DEF CheckUrlFails
    <2> QED
      BY <1>2, <2>1 DEF CheckUrlFails, TypeOK, Seen, Resolvable, Literal, ConnectedAllowed, TargetChecked
  <1>3. CASE Open
    <2>1. PICK ips \in Resolvable(host) :
            /\ Resolve(host, ips)
            /\ IF Literal(host) \/ (~ IsHostBlocked(policy, Normalized(host)) /\ AllAllowed(ips))
               THEN connected' \in ips /\ pc' = "sent"
               ELSE pc' = "refused" /\ UNCHANGED connected
      BY <1>3 DEF Open
    <2>2. /\ pc = "connect" /\ UNCHANGED <<policy, proxy, host, checked>>
      BY <1>3 DEF Open
    <2>3. /\ host \in Hosts /\ ips \subseteq Address4 \cup Address6
          /\ (~ Literal(host) => ips \in Answers)
      BY Typed DEF TypeOK
    <2>4. cache' \in [Hosts -> Answers \cup {None}]
      <3>1. cache \in [Hosts -> Answers \cup {None}]
        BY DEF TypeOK
      <3>2. Resolve(host, ips)
        BY <2>1
      <3> QED
        BY <2>3, <3>1, <3>2 DEF Resolve
    <2>5. \A ip : Refused(ip)' <=> Refused(ip)
      BY <2>2, SamePolicy
    <2>6. CASE connected' \in ips /\ pc' = "sent"
      <3>1. \A ip \in ips : ~ Refused(ip)
        <4>1. CASE Literal(host)
          <5>1. checked # None /\ checked.host = host
            BY <2>2 DEF TargetChecked
          <5>2. checked.ips = ips
            BY <4>1, <5>1, <2>1 DEF Seen, Resolvable
          <5> QED
            BY <5>1, <5>2 DEF Seen
        <4>2. CASE ~ Literal(host)
          <5>1. AllAllowed(ips)
            BY <2>1, <2>2, <2>6, <4>2
          <5> QED
            BY <2>3, <5>1, Judged
        <4> QED
          BY <4>1, <4>2
      <3>2. TypeOK'
        BY <2>2, <2>3, <2>4, <2>6 DEF TypeOK
      <3>3. Seen'
        BY <2>2, <2>5 DEF Seen, Resolvable, Literal
      <3>4. ConnectedAllowed'
        BY <2>5, <2>6, <3>1 DEF ConnectedAllowed
      <3>5. TargetChecked'
        BY <2>2, <2>5, <2>6 DEF TargetChecked
      <3> QED
        BY <3>2, <3>3, <3>4, <3>5
    <2>7. CASE pc' = "refused" /\ UNCHANGED connected
      <3>1. TypeOK'
        BY <2>2, <2>4, <2>7 DEF TypeOK
      <3> QED
        BY <2>2, <2>5, <2>7, <3>1 DEF Seen, Resolvable, Literal, ConnectedAllowed, TargetChecked
    <2> QED
      BY <2>1, <2>6, <2>7
  <1>4. CASE OpenProxy
    <2>1. PICK ips \in Resolvable(proxy) : Resolve(proxy, ips) /\ connected' \in ips
      BY <1>4 DEF OpenProxy
    <2>2. /\ pc = "connect" /\ pc' = "sent" /\ proxy # None
          /\ UNCHANGED <<policy, proxy, host, checked>>
      BY <1>4 DEF OpenProxy
    <2>3. proxy \in Hosts /\ ips \subseteq Address4 \cup Address6 /\ (~ Literal(proxy) => ips \in Answers)
      BY <2>2, Typed DEF TypeOK
    <2>4. cache' \in [Hosts -> Answers \cup {None}]
      BY <2>1, <2>3 DEF Resolve, TypeOK
    <2>5. \A ip : Refused(ip)' <=> Refused(ip)
      BY <2>2, SamePolicy
    <2>6. TypeOK'
      BY <2>1, <2>2, <2>3, <2>4 DEF TypeOK
    <2> QED
      BY <2>2, <2>5, <2>6 DEF Seen, Resolvable, Literal, ConnectedAllowed, TargetChecked
  <1>5. CASE Redirect
    <2>1. \A ip : Refused(ip)' <=> Refused(ip)
      BY <1>5, SamePolicy DEF Redirect
    <2>2. TypeOK'
      BY <1>5 DEF Redirect, TypeOK
    <2> QED
      BY <1>5, <2>1, <2>2 DEF Redirect, Seen, Resolvable, Literal, ConnectedAllowed, TargetChecked
  <1>6. CASE UNCHANGED vars
    <2>1. \A ip : Refused(ip)' <=> Refused(ip)
      BY <1>6, SamePolicy DEF vars
    <2> QED
      BY <1>6, <2>1 DEF vars, TypeOK, Seen, Resolvable, Literal, ConnectedAllowed, TargetChecked
  <1> QED
    BY <1>1, <1>2, <1>3, <1>4, <1>5, <1>6 DEF Next

LEMMA InvInit ==
  ASSUME ConnectAssumption, Init
  PROVE  Inv
  BY DEF Init, Inv, TypeOK, Seen, ConnectedAllowed, TargetChecked

\* Every variable keeps its type.
THEOREM TypeCorrect == Spec => []TypeOK
  <1>1. Init => Inv
    BY ConnectAssumption, InvInit
  <1>2. Inv /\ [Next]_vars => Inv'
    BY ConnectAssumption, InvStep
  <1>3. Inv => TypeOK
    BY DEF Inv
  <1> QED
    BY <1>1, <1>2, <1>3, PTL DEF Spec

\* However the answers of the resolver change, no connection without a proxy is opened to an
\* address that the policy refuses, for any policy, host and spelling of an address.
THEOREM ConnectedCorrect == Spec => []ConnectedAllowed
  <1>1. Init => Inv
    BY ConnectAssumption, InvInit
  <1>2. Inv /\ [Next]_vars => Inv'
    BY ConnectAssumption, InvStep
  <1>3. Inv => ConnectedAllowed
    BY DEF Inv
  <1> QED
    BY <1>1, <1>2, <1>3, PTL DEF Spec

\* Whatever a request is sent to was checked, after redirects and with a proxy, too.
THEOREM TargetCorrect == Spec => []TargetChecked
  <1>1. Init => Inv
    BY ConnectAssumption, InvInit
  <1>2. Inv /\ [Next]_vars => Inv'
    BY ConnectAssumption, InvStep
  <1>3. Inv => TargetChecked
    BY DEF Inv
  <1> QED
    BY <1>1, <1>2, <1>3, PTL DEF Spec

-----------------------------------------------------------------------------
\* The fetch loop

\* The clock stays within its bound.
LEMMA SpendTyped ==
  ASSUME FetchAssumption, elapsed \in 0 .. MaxElapsed, NEW t \in Nat, Spend(t)
  PROVE  elapsed' \in 0 .. MaxElapsed
  BY DEF Spend, FetchAssumption

\* Every variable keeps its type: in particular redirects never exceed MAX_REDIRECTS, and a
\* partial response is in reserve only once the Range was taken away (get_file_inner's loop).
THEOREM LoopTyped == LoopSpec => []LoopTypeOK
  <1>1. ASSUME LoopInit PROVE LoopTypeOK
    <2>1. 0 \in 0 .. MaxRedirects /\ 0 \in 0 .. MaxElapsed
      BY FetchAssumption DEF FetchAssumption
    <2> QED
      BY <1>1, <2>1 DEF LoopInit, LoopTypeOK, Awaiting, Responses, Results
  <1>2. LoopTypeOK /\ [LoopNext]_loopVars => LoopTypeOK'
    <2> SUFFICES ASSUME LoopTypeOK, [LoopNext]_loopVars PROVE LoopTypeOK'
      OBVIOUS
    <2> USE DEF LoopTypeOK, Awaiting, Responses, Results
    <2>1. SendTimes \subseteq Nat /\ RetryDelay \in Nat /\ MaxRedirects \in Nat
      BY FetchAssumption DEF FetchAssumption
    <2>2. ASSUME NEW t \in Nat, Spend(t) PROVE elapsed' \in 0 .. MaxElapsed
      BY <2>2, SpendTyped, FetchAssumption
    <2>3. CASE Receive
      BY <2>1, <2>2, <2>3 DEF Receive
    <2>4. CASE FallBackToPartial
      BY <2>1, <2>2, <2>4 DEF FallBackToPartial, PartialImage
    <2>5. CASE Sleep
      BY <2>1, <2>2, <2>5 DEF Sleep
    <2>6. CASE Resend
      BY <2>1, <2>2, <2>6 DEF Resend
    <2>7. CASE SendFails
      BY <2>1, <2>2, <2>7 DEF SendFails, Finish
    <2>8. CASE Refetch
      <3>1. hasRange
        BY <2>8 DEF Refetch, MustRefetch
      <3> QED
        BY <2>8, <3>1 DEF Refetch
    <2>9. CASE Deliver
      BY <2>9 DEF Deliver, Finish
    <2>10. CASE TooManyRedirects
      BY <2>10 DEF TooManyRedirects, Finish
    <2>11. CASE InvalidRedirect
      BY <2>11 DEF InvalidRedirect, Finish
    <2>12. CASE MeetRedirect
      BY <2>12 DEF MeetRedirect
    <2>13. CASE Drain
      BY <2>1, <2>2, <2>13 DEF Drain
    <2>14. CASE Follow
      BY <2>1, <2>14 DEF Follow
    <2>15. CASE CheckFails
      <3>1. fetchErr' \in BOOLEAN /\ loopPc' = "done" /\ result' \in Results
        BY <2>15 DEF CheckFails, Finish
      <3> QED
        BY <2>15, <3>1 DEF CheckFails
    <2>16. CASE Cancel
      BY <2>16 DEF Cancel, Finish
    <2>17. CASE UNCHANGED loopVars
      BY <2>17 DEF loopVars
    <2> QED
      BY <2>3, <2>4, <2>5, <2>6, <2>7, <2>8, <2>9, <2>10, <2>11, <2>12, <2>13, <2>14,
         <2>15, <2>16, <2>17
      DEF LoopNext, LoopStep
  <1> QED
    BY <1>1, <1>2, PTL DEF LoopSpec

-----------------------------------------------------------------------------
\* A step of the loop keeps the invariant: while it runs the current URL was checked and no
\* failure is recorded, and each way to end it records what it should.
LEMMA LoopStepKeeps == LoopTypeOK /\ LoopInv /\ [LoopNext]_loopVars => LoopInv'
  <1> SUFFICES ASSUME LoopTypeOK, LoopInv, [LoopNext]_loopVars PROVE LoopInv'
    OBVIOUS
  <1> USE DEF LoopInv, WholeImageAskedFor, FailureRecorded
  <1>1. CASE Receive
    BY <1>1 DEF Receive
  <1>2. CASE FallBackToPartial
    BY <1>2 DEF FallBackToPartial
  <1>3. CASE Sleep
    BY <1>3 DEF Sleep
  <1>4. CASE Resend
    BY <1>4 DEF Resend
  <1>5. CASE SendFails
    BY <1>5 DEF SendFails, Finish
  <1>6. CASE Refetch
    BY <1>6 DEF Refetch
  <1>7. CASE Deliver
    <2>1. response = PartialImage => ~ range
      BY <1>7 DEF Deliver, MustRefetch
    <2> QED
      BY <1>7, <2>1 DEF Deliver, Finish, PartialImage
  <1>8. CASE TooManyRedirects
    BY <1>8 DEF TooManyRedirects, Finish
  <1>9. CASE InvalidRedirect
    BY <1>9 DEF InvalidRedirect, Finish
  <1>10. CASE MeetRedirect
    BY <1>10 DEF MeetRedirect
  <1>11. CASE Drain
    BY <1>11 DEF Drain
  <1>12. CASE Follow
    BY <1>12 DEF Follow
  <1>13. CASE CheckFails
    BY <1>13 DEF CheckFails, Finish
  <1>14. CASE Cancel
    BY <1>14 DEF Cancel, Finish
  <1>15. CASE UNCHANGED loopVars
    BY <1>15 DEF loopVars, PartialImage
  <1> QED
    BY <1>1, <1>2, <1>3, <1>4, <1>5, <1>6, <1>7, <1>8, <1>9, <1>10, <1>11, <1>12, <1>13,
       <1>14, <1>15 DEF LoopNext, LoopStep

\* LoopInv holds of every run of the loop.
THEOREM LoopInvariant == LoopSpec => []LoopInv
  <1>1. LoopInit => LoopInv
    BY DEF LoopInit, LoopInv, WholeImageAskedFor, FailureRecorded, PartialImage
  <1> QED
    BY <1>1, LoopStepKeeps, LoopTyped, PTL DEF LoopSpec

\* No send goes to a URL that check_url did not let pass (get_file_inner follows redirects by
\* itself, and reqwest does not).
THEOREM SendsChecked == LoopSpec => []CheckedBeforeSent
  <1>1. LoopInv => CheckedBeforeSent
    BY DEF LoopInv, CheckedBeforeSent
  <1> QED
    BY <1>1, LoopInvariant, PTL

\* A Range request is answered with a part of an image only after the whole was asked for.
THEOREM WholeImages == LoopSpec => []WholeImageAskedFor
  <1>1. LoopInv => WholeImageAskedFor
    BY DEF LoopInv
  <1> QED
    BY <1>1, LoopInvariant, PTL

\* timings.fetch_err tells failed fetches from the others.
THEOREM FailuresRecorded == LoopSpec => []FailureRecorded
  <1>1. LoopInv => FailureRecorded
    BY DEF LoopInv
  <1> QED
    BY <1>1, LoopInvariant, PTL
=============================================================================
