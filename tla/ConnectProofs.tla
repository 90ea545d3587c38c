----------------------------- MODULE ConnectProofs -----------------------------
(***************************************************************************)
(* Safety of burl's connect() for all hosts, ports, URLs and options.      *)
(***************************************************************************)
EXTENDS Connect, WellFoundedInduction, TLAPS

(***************************************************************************)
(* The inductive invariant.                                                *)
(***************************************************************************)

\* What Begin makes of the URL; a failure may come before that.
Goal == IF oc.unix THEN given ELSE Rewritten(given)
Aimed ==
    /\ pc \notin {"begin", "failed"} => url = Goal
    /\ url.scheme = given.scheme

\* A Unix domain socket is connected to by the step "unix" alone.
Branch ==
    /\ pc = "unix" => oc.unix
    /\ pc \in {"direct", "proxy", "greeting", "auth", "request", "tail", "http_connect"} =>
        ~ oc.unix
    /\ pc \in {"greeting", "auth", "request", "tail"} => oc.proxy = "socks5"

\* The caller's stream is what it was until connect() returns.
Untouched == pc # "connected" => stream = [far |-> None, name |-> None]

\* From the last byte of a reply on the socket is empty, unless the proxy gave a name.
Reply ==
    /\ pc \notin {"tail", "handshake", "connected", "failed"} => atyp = 0 /\ unread = 0
    /\ pc = "tail" => asked <= unread /\ (atyp # 3 => asked = unread)
    /\ pc \in {"handshake", "connected"} /\ atyp # 3 => unread = 0

Secure == pc = "handshake" => url.scheme = "https"

IInv == TypeOK /\ Aimed /\ Branch /\ Untouched /\ Reply /\ Secure /\ Authentic

-------------------------------------------------------------------------------
(***************************************************************************)
(* The rewriting of URLs.                                                  *)
(***************************************************************************)

\* A set of natural numbers has a least one.
LEMMA Least ==
    ASSUME NEW S, S \subseteq Nat, S # {}
    PROVE  \E i \in S : \A j \in S : i <= j
<1>1. IsWellFoundedOn(OpToRel(<, Nat), Nat)
  BY NatLessThanWellFounded
<1>2. PICK i \in S : \A j \in S : ~ (<<j, i>> \in OpToRel(<, Nat))
  BY <1>1, WFMin
<1>3. ASSUME NEW j \in S PROVE i <= j
  <2>1. i \in Nat /\ j \in Nat
    OBVIOUS
  <2>2. ~ (j < i)
    BY <1>2, <2>1 DEF OpToRel
  <2> QED
    BY <2>1, <2>2
<1> QED
  BY <1>3

\* The loop over the rules stops at one of them, the first that applies.
LEMMA FirstIsRule ==
    ASSUME NEW R, NEW rules \in Seq(R), NEW u, First(rules, u) # 0
    PROVE  /\ First(rules, u) \in DOMAIN rules
           /\ rules[First(rules, u)] \in R
<1> DEFINE hits == {i \in DOMAIN rules : Applies(rules[i], u)}
<1>1. hits \subseteq Nat /\ hits \subseteq DOMAIN rules
  OBVIOUS
<1>2. hits # {} /\ First(rules, u) = CHOOSE i \in hits : \A j \in hits : i <= j
  BY DEF First
<1>3. First(rules, u) \in hits
  <2> HIDE DEF hits
  <2> QED
    BY <1>1, <1>2, Least
<1> QED
  BY <1>1, <1>3

\* The pairs of urls::url of --connect-to leave every URL as it is.
THEOREM ConnectToIdle ==
    ASSUME NEW rules \in Seq(ConnectRule), NEW u \in URL
    PROVE  connect_to(rules, u) = u
<1> DEFINE items == [i \in DOMAIN rules |-> AsUrls(rules[i])]
           blank == [host |-> None, port |-> None, tohost |-> None, toport |-> None]
<1>1. items \in Seq({blank})
  <2>1. DOMAIN items = 1..Len(rules) /\ Len(rules) \in Nat
    OBVIOUS
  <2>2. \A i \in DOMAIN items : items[i] = blank
    BY DEF AsUrls
  <2>3. items \in [1..Len(rules) -> {blank}]
    BY <2>1, <2>2
  <2> QED
    BY <2>1, <2>3
<1>2. connect_to(rules, u) = Redirected(items, u)
  BY DEF connect_to
<1> HIDE DEF items
<1>3. CASE First(items, u) = 0
  BY <1>2, <1>3 DEF Redirected
<1>4. CASE First(items, u) # 0
  <2>1. items[First(items, u)] = blank
    BY <1>1, <1>4, FirstIsRule
  <2>2. connect_to(rules, u) = [u EXCEPT !.host = u.host, !.port = u.port]
    BY <1>2, <1>4, <2>1 DEF Redirected
  <2> QED
    BY <2>2 DEF URL
<1> QED
  BY <1>3, <1>4

\* A URL is rewritten to a URL, of the same scheme, and by --resolve alone.
LEMMA RewrittenType ==
    ASSUME TypeOK, NEW u \in URL
    PROVE  /\ Rewritten(u) = resolve_to(oc.resolve_to, u)
           /\ Rewritten(u) \in URL /\ Rewritten(u).scheme = u.scheme
<1>1. oc.connect_to \in Seq(ConnectRule) /\ oc.resolve_to \in Seq(ResolveRule)
  BY ConfigsAssumption DEF TypeOK, Config
<1>2. Rewritten(u) = resolve_to(oc.resolve_to, u)
  BY <1>1, ConnectToIdle DEF Rewritten
<1> DEFINE i == First(oc.resolve_to, u)
<1>3. CASE i = 0
  BY <1>2, <1>3 DEF resolve_to
<1>4. CASE i # 0
  <2>1. oc.resolve_to[i] \in ResolveRule
    BY <1>1, <1>4, FirstIsRule
  <2>2. Rewritten(u) = [u EXCEPT !.host = oc.resolve_to[i].addr]
    BY <1>2, <1>4 DEF resolve_to
  <2> HIDE DEF i
  <2> QED
    BY <1>2, <2>1, <2>2 DEF ResolveRule, URL
<1> QED
  BY <1>3, <1>4

\* The port to connect to, if there is one.
LEMMA PortType ==
    ASSUME NEW u \in URL, effective_port(u) # None
    PROVE  effective_port(u) \in Ports \cup {80, 443, 1080} /\ effective_port(u) \in Nat
BY PortsAssumption DEF effective_port, URL

-------------------------------------------------------------------------------
(***************************************************************************)
(* The invariant is inductive.                                             *)
(***************************************************************************)

\* connect() is called.
LEMMA InitInvariant == Init => IInv
<1> SUFFICES ASSUME Init PROVE IInv
  OBVIOUS
<1>1. given \in URL
  BY URLsAssumption DEF Init
<1>2. TypeOK
  BY <1>1 DEF Init, TypeOK, Place, Awaiting
<1> QED
  BY <1>2 DEF Init, IInv, Aimed, Branch, Untouched, Reply, Secure, Authentic

\* Any way to fail.
LEMMA ThrowInvariant ==
    ASSUME IInv, pc # "connected", Throw
    PROVE  IInv'
BY DEF Throw, IInv, TypeOK, Aimed, Branch, Untouched, Reply, Secure, Authentic

\* The socket leads to its place: the caller gets it, or the handshake begins.
LEMMA EstablishedInvariant ==
    ASSUME IInv, pc \in Awaiting \ {"handshake"}, NEW place \in Place, Established(place),
           UNCHANGED <<oc, given, url, atyp>>, unread' \in Nat, asked' \in Nat,
           sent' \in SUBSET {"basic", "password", "empty"},
           atyp # 3 => unread' = 0
    PROVE  IInv'
<1>1. CASE url.scheme = "https"
  <2>1. pc' = "handshake" /\ far' = place /\ UNCHANGED stream
    BY <1>1 DEF Established
  <2>2. TypeOK'
    BY <2>1 DEF IInv, TypeOK, Awaiting
  <2> QED
    BY <1>1, <2>1, <2>2 DEF IInv, Aimed, Goal, Rewritten, Branch, Untouched, Reply, Secure,
                            Authentic, Awaiting
<1>2. CASE url.scheme # "https"
  <2>1. pc' = "connected" /\ far' = place /\ stream' = [far |-> place, name |-> None]
    BY <1>2 DEF Established
  <2>2. TypeOK'
    BY <2>1 DEF IInv, TypeOK
  <2>3. Aimed'
    BY <2>1 DEF IInv, Aimed, Goal, Rewritten, Awaiting
  <2>4. Authentic'
    BY <1>2, <2>1 DEF IInv, Aimed, Authentic
  <2> QED
    BY <2>1, <2>2, <2>3, <2>4 DEF IInv, Branch, Untouched, Reply, Secure
<1> QED
  BY <1>1, <1>2

\* Begin chooses a socket and aims at the rewritten URL.
LEMMA BeginInvariant ==
    ASSUME IInv, Begin
    PROVE  IInv'
<1>1. CASE ~ oc.unix /\ (RewriteThrows(given) \/ oc.proxy = "other")
  BY <1>1, ThrowInvariant DEF Begin
<1>2. CASE ~ (~ oc.unix /\ (RewriteThrows(given) \/ oc.proxy = "other"))
  <2>1. /\ url' = Goal
        /\ UNCHANGED <<oc, given, far, atyp, unread, asked, sent, stream>>
    BY <1>2 DEF Begin, Goal
  <2>2. /\ pc' \in {"unix", "direct", "proxy"}
        /\ pc' = "unix" <=> oc.unix
    <3>1. CASE oc.unix
      BY <1>2, <3>1 DEF Begin
    <3>2. CASE ~ oc.unix /\ oc.proxy = "none"
      BY <1>2, <3>2 DEF Begin
    <3>3. CASE ~ oc.unix /\ oc.proxy # "none"
      BY <1>2, <3>3 DEF Begin
    <3> QED
      BY <3>1, <3>2, <3>3
  <2>3. Goal \in URL /\ Goal.scheme = given.scheme
    BY RewrittenType, URLsAssumption DEF IInv, TypeOK, Goal
  <2>4. TypeOK'
    BY <2>1, <2>2, <2>3 DEF IInv, TypeOK, Awaiting
  <2>5. Aimed'
    BY <2>1, <2>3 DEF Aimed, Goal, Rewritten
  <2> QED
    BY <2>1, <2>2, <2>4, <2>5 DEF Begin, IInv, Branch, Untouched, Reply, Secure, Authentic
<1> QED
  BY <1>1, <1>2

\* Connected without a SOCKS5 proxy.
LEMMA SocketStep ==
    ASSUME IInv,
           UnixConnected \/ (\E family \in {"v4", "v6"} : DirectConnected(family))
               \/ (\E ok \in BOOLEAN : HttpReply(ok))
    PROVE  IInv'
<1> DEFINE there == [host |-> url.host, port |-> effective_port(url)]
<1>1. effective_port(url) # None => there \in Place
  BY PortType DEF IInv, TypeOK, URL, Place
<1>2. ASSUME pc \in {"unix", "direct", "http_connect"}
      PROVE  /\ atyp = 0 /\ unread = 0 /\ unread \in Nat /\ asked \in Nat
             /\ sent \in SUBSET {"basic", "password", "empty"}
             /\ pc \in Awaiting \ {"handshake"}
  BY <1>2 DEF IInv, TypeOK, Reply, Awaiting
<1>3. CASE UnixConnected
  BY <1>2, <1>3, EstablishedInvariant DEF UnixConnected, Place
<1>4. ASSUME NEW family \in {"v4", "v6"}, DirectConnected(family) PROVE IInv'
  <2> HIDE DEF there
  <2>1. Established(there)
    BY <1>4 DEF DirectConnected, there
  <2> QED
    BY <1>1, <1>2, <1>4, <2>1, EstablishedInvariant DEF DirectConnected
<1>5. ASSUME NEW ok \in BOOLEAN, HttpReply(ok) PROVE IInv'
  <2> HIDE DEF there
  <2>0. sent' \in SUBSET {"basic", "password", "empty"}
    BY <1>5 DEF HttpReply
  <2>1. CASE ok
    <3>1. Established(there)
      BY <1>5, <2>1 DEF HttpReply, there
    <3> QED
      BY <1>1, <1>2, <1>5, <2>0, <3>1, EstablishedInvariant DEF HttpReply
  <2>2. CASE ~ ok
    BY <1>5, <2>0, <2>2
       DEF HttpReply, IInv, TypeOK, Aimed, Branch, Untouched, Reply, Secure, Authentic
  <2> QED
    BY <2>1, <2>2
<1> QED
  BY <1>3, <1>4, <1>5

\* The dialogue with a SOCKS5 proxy up to its reply.
LEMMA DialogueStep ==
    ASSUME IInv,
           ProxyConnected \/ (\E ok \in BOOLEAN : Authenticated(ok))
               \/ (\E version \in {4, 5}, method \in {0, 2, 255} : Greeted(version, method))
    PROVE  IInv'
<1> USE DEF IInv, TypeOK, Aimed, Goal, Rewritten, Branch, Untouched, Reply, Secure, Authentic,
            Awaiting
<1>1. CASE ProxyConnected
  BY <1>1 DEF ProxyConnected
<1>2. ASSUME NEW ok \in BOOLEAN, Authenticated(ok) PROVE IInv'
  BY <1>2 DEF Authenticated
<1>3. ASSUME NEW version \in {4, 5}, NEW method \in {0, 2, 255}, Greeted(version, method)
      PROVE  IInv'
  <2>1. pc' \in {"request", "auth", "failed"}
    BY <1>3 DEF Greeted
  <2> QED
    BY <1>3, <2>1 DEF Greeted
<1> QED
  BY <1>1, <1>2, <1>3

\* What connect() waits for of a reply, and what there is of it.
LEMMA TailFits ==
    ASSUME NEW type \in {1, 3, 4}, NEW len \in Nat
    PROVE  /\ Remaining(type, len) \in Nat /\ TailSize(type, len) \in Nat
           /\ TailSize(type, len) <= Remaining(type, len)
           /\ type # 3 => TailSize(type, len) = Remaining(type, len)
<1>1. CASE type = 1
  BY <1>1 DEF Remaining, TailSize
<1>2. CASE type = 3
  BY <1>2 DEF Remaining, TailSize
<1>3. CASE type = 4
  BY <1>3 DEF Remaining, TailSize
<1> QED
  BY <1>1, <1>2, <1>3

\* The reply, and its end.
LEMMA ReplyStep ==
    ASSUME IInv,
           SocksTail \/ (\E rep \in {0, 1}, type \in 1..4, len \in 0..MaxName :
                            SocksReply(rep, type, len))
    PROVE  IInv'
<1>1. CASE SocksTail
  <2>1. unread \in Nat /\ asked \in Nat /\ asked <= unread /\ (atyp # 3 => asked = unread)
    BY <1>1 DEF SocksTail, IInv, TypeOK, Reply
  <2>2. unread' \in Nat /\ asked' \in Nat /\ (atyp # 3 => unread' = 0)
    BY <1>1, <2>1 DEF SocksTail
  <2> QED
    BY <1>1, <2>2, EstablishedInvariant DEF SocksTail, IInv, TypeOK, Awaiting
<1>2. ASSUME NEW rep \in {0, 1}, NEW type \in 1..4, NEW len \in 0..MaxName,
             SocksReply(rep, type, len)
      PROVE  IInv'
  <2>1. CASE rep = 0 /\ type \in {1, 3, 4}
    <3>1. /\ pc = "request" /\ pc' = "tail" /\ far' = Requested(url) /\ atyp' = type
          /\ unread' = Remaining(type, len) /\ asked' = TailSize(type, len)
          /\ UNCHANGED <<oc, given, url, sent, stream>>
      BY <1>2, <2>1 DEF SocksReply
    <3>2. /\ unread' \in Nat /\ asked' \in Nat /\ asked' <= unread'
          /\ atyp' # 3 => asked' = unread'
      BY <2>1, <3>1, TailFits, MaxNameAssumption
    <3>3. Requested(url) \in Place
      <4>1. effective_port(url) \in Nat
        BY <1>2, PortType DEF SocksReply, IInv, TypeOK
      <4>2. effective_port(url) % 65536 \in Nat
        BY <4>1
      <4>3. url.host \in Hosts
        BY DEF IInv, TypeOK, URL
      <4> QED
        BY <4>2, <4>3 DEF Requested, Place
    <3>4. TypeOK'
      BY <2>1, <3>1, <3>2, <3>3 DEF IInv, TypeOK, Awaiting
    <3> QED
      BY <3>1, <3>2, <3>4
         DEF IInv, Aimed, Goal, Rewritten, Branch, Untouched, Reply, Secure, Authentic
  <2>2. CASE ~ (rep = 0 /\ type \in {1, 3, 4})
    BY <1>2, <2>2, ThrowInvariant DEF SocksReply, Throw
  <2> QED
    BY <2>1, <2>2
<1> QED
  BY <1>1, <1>2

\* The certificate is accepted.
LEMMA HandshakeStep ==
    ASSUME IInv, NEW name \in Hosts, HandshakeDone(name)
    PROVE  IInv'
<1>1. /\ pc = "handshake" /\ pc' = "connected" /\ stream' = [far |-> far, name |-> name]
      /\ UNCHANGED <<oc, given, url, far, atyp, unread, asked, sent>>
      /\ oc.insecure \/ name = given.host
  BY DEF HandshakeDone, VerifiesHost
<1>2. TypeOK'
  BY <1>1 DEF IInv, TypeOK
<1>3. given.scheme = "https" /\ name # None
  BY <1>1, HostsAssumption DEF IInv, Aimed, Secure
<1>4. Authentic'
  BY <1>1, <1>3 DEF Authentic
<1> QED
  BY <1>1, <1>2, <1>4 DEF IInv, Aimed, Goal, Rewritten, Branch, Untouched, Reply, Secure

\* In every state of connect() the URL is the one aimed at, the caller's stream is
\* untouched or complete, and the proxy's reply is read as far as it should be.
THEOREM Invariance == Spec => []IInv
<1>1. Init => IInv
  BY InitInvariant
<1>2. IInv /\ [Next]_vars => IInv'
  <2> SUFFICES ASSUME IInv, [Next]_vars PROVE IInv'
    OBVIOUS
  <2>1. CASE Begin
    BY <2>1, BeginInvariant
  <2>2. CASE UnixConnected \/ (\E family \in {"v4", "v6"} : DirectConnected(family))
                \/ (\E ok \in BOOLEAN : HttpReply(ok))
    BY <2>2, SocketStep
  <2>3. CASE ProxyConnected \/ (\E ok \in BOOLEAN : Authenticated(ok))
                \/ (\E version \in {4, 5}, method \in {0, 2, 255} : Greeted(version, method))
    BY <2>3, DialogueStep
  <2>4. CASE SocksTail \/ (\E rep \in {0, 1}, type \in 1..4, len \in 0..MaxName :
                              SocksReply(rep, type, len))
    BY <2>4, ReplyStep
  <2>5. CASE \E name \in Hosts : HandshakeDone(name)
    BY <2>5, HandshakeStep
  <2>6. CASE NoPort \/ AwaitFails
    BY <2>6, ThrowInvariant DEF NoPort, AwaitFails, Awaiting
  <2>7. CASE UNCHANGED vars
    BY <2>7 DEF vars, IInv, TypeOK, Aimed, Goal, Rewritten, Branch, Untouched, Reply, Secure,
                Authentic
  <2> QED
    BY <2>1, <2>2, <2>3, <2>4, <2>5, <2>6, <2>7 DEF Next, Terminated
<1> QED
  BY <1>1, <1>2, PTL DEF Spec

\* The variables of connect() keep their types: no rule of --resolve
\* makes something of a URL that is none, and the read of a reply never asks for a
\* negative number of bytes.
THEOREM TypeCorrect == Spec => []TypeOK
<1>1. IInv => TypeOK
  BY DEF IInv
<1> QED
  BY <1>1, Invariance, PTL

\* host_name_verification(org_host): for any list of rules and any proxy a TLS session
\* that connect() returns is with the host of the URL, and https always has one.
THEOREM SessionsAuthentic == Spec => []Authentic
<1>1. IInv => Authentic
  BY DEF IInv
<1> QED
  BY <1>1, Invariance, PTL

\* conn_resp_tail has the right size for addresses: what is read after connect() is the
\* server's, and connect() does not wait for more than the proxy sends.
THEOREM RepliesConsumed == Spec => []ReplyConsumed
<1>1. IInv => ReplyConsumed
  BY DEF IInv, Reply, ReplyConsumed
<1> QED
  BY <1>1, Invariance, PTL

-------------------------------------------------------------------------------
(***************************************************************************)
(* connect() implements the dialer.                                        *)
(***************************************************************************)

\* With a SOCKS5 proxy the length of a name must fit into its byte, and a port into
\* two; connect() tests neither.
SocksFits ==
    (\E c \in Configs : c.proxy = "socks5") =>
        /\ \A h \in Hosts : Length[h] < 256
        /\ \A p \in Ports : p < 65536

\* A socket that is about to be used leads to the target.
Arrived == pc \in {"tail", "handshake"} => far = Target

\* Then what a SOCKS5 proxy is asked for is what connect() means.
LEMMA RequestedIsMeant ==
    ASSUME SocksFits, IInv, oc.proxy = "socks5", effective_port(url) # None
    PROVE  Requested(url) = [host |-> url.host, port |-> effective_port(url)]
<1>1. url.host \in Hosts /\ Length[url.host] \in Nat /\ Length[url.host] < 256
  BY LengthAssumption DEF SocksFits, IInv, TypeOK, URL
<1>2. Length[url.host] % 256 = Length[url.host]
  BY <1>1
<1>3. effective_port(url) \in Nat /\ effective_port(url) < 65536
  BY PortType DEF SocksFits, IInv, TypeOK
<1>4. effective_port(url) % 65536 = effective_port(url)
  BY <1>3
<1> QED
  BY <1>2, <1>4 DEF Requested

\* The place that a direct connection or a proxy leads to is the target.
LEMMA PlaceIsTarget ==
    ASSUME IInv, pc \notin {"begin", "failed"}, ~ oc.unix
    PROVE  Target = [host |-> url.host, port |-> effective_port(url)]
<1>1. TypeOK /\ given \in URL
  BY URLsAssumption DEF IInv, TypeOK
<1>2. url = Rewritten(given)
  BY DEF IInv, Aimed, Goal
<1>3. Rewritten(given) = resolve_to(oc.resolve_to, given)
  BY <1>1, RewrittenType
<1> QED
  BY <1>2, <1>3 DEF Target, PlaceOf

\* The target of the dialer is fixed while connect() is under way.
LEMMA TargetFixed ==
    ASSUME UNCHANGED <<oc, given>>
    PROVE  Target' = Target
BY DEF Target, PlaceOf

\* What a step does to the caller's stream, and where the socket then leads.
Goes ==
    /\ UNCHANGED <<oc, given>>
    /\ Arrived'
    /\ \/ UNCHANGED <<pc, stream>>
       \/ /\ pc \notin {"connected", "failed"}
          /\ \/ pc' \notin {"connected", "failed"} /\ UNCHANGED stream
             \/ pc' = "failed" /\ UNCHANGED stream
             \/ pc' = "connected" /\ stream'.far = Target

\* Every step leaves connect() where it is for the dialer, fails, or connects to the target.
LEMMA StepCases ==
    ASSUME SocksFits, IInv, Arrived, [Next]_vars
    PROVE  Goes
<1>1. ASSUME pc \in Awaiting, Established(Target), UNCHANGED <<oc, given>> PROVE Goes
  <2>1. CASE url.scheme = "https"
    BY <1>1, <2>1, TargetFixed DEF Goes, Established, Arrived, Awaiting
  <2>2. CASE url.scheme # "https"
    BY <1>1, <2>2 DEF Goes, Established, Arrived, Awaiting
  <2> QED
    BY <2>1, <2>2
<1>2. ASSUME pc \notin {"connected", "failed"}, pc' = "failed", UNCHANGED <<oc, given, stream>>
      PROVE  Goes
  BY <1>2 DEF Goes, Arrived
<1>3. ASSUME pc \notin {"connected", "failed"},
             pc' \in Awaiting \ {"tail", "handshake"}, UNCHANGED <<oc, given, stream>>
      PROVE  Goes
  BY <1>3 DEF Goes, Arrived, Awaiting
<1>4. CASE Begin
  <2>1. CASE ~ oc.unix /\ (RewriteThrows(given) \/ oc.proxy = "other")
    BY <1>2, <1>4, <2>1 DEF Begin, Throw
  <2>2. CASE ~ (~ oc.unix /\ (RewriteThrows(given) \/ oc.proxy = "other"))
    <3>1. pc' \in {"unix", "direct", "proxy"} /\ UNCHANGED <<oc, given, stream>>
      BY <1>4, <2>2 DEF Begin
    <3> QED
      BY <1>3, <1>4, <3>1 DEF Begin, Awaiting
  <2> QED
    BY <2>1, <2>2
<1>5. CASE UnixConnected
  BY <1>1, <1>5 DEF UnixConnected, IInv, Branch, Target, Awaiting
<1>6. ASSUME NEW family \in {"v4", "v6"}, DirectConnected(family) PROVE Goes
  BY <1>1, <1>6, PlaceIsTarget DEF DirectConnected, IInv, Branch, Awaiting
<1>7. ASSUME NEW ok \in BOOLEAN, HttpReply(ok) PROVE Goes
  <2>1. CASE ok
    BY <1>1, <1>7, <2>1, PlaceIsTarget DEF HttpReply, IInv, Branch, Awaiting
  <2>2. CASE ~ ok
    BY <1>2, <1>7, <2>2 DEF HttpReply
  <2> QED
    BY <2>1, <2>2
<1>8. CASE ProxyConnected
  BY <1>3, <1>8 DEF ProxyConnected, Awaiting
<1>9. ASSUME NEW ok \in BOOLEAN, Authenticated(ok) PROVE Goes
  BY <1>2, <1>3, <1>9 DEF Authenticated, Awaiting
<1>10. ASSUME NEW version \in {4, 5}, NEW method \in {0, 2, 255}, Greeted(version, method)
       PROVE  Goes
  <2>1. pc' \in {"request", "auth", "failed"}
    BY <1>10 DEF Greeted
  <2> QED
    BY <1>2, <1>3, <1>10, <2>1 DEF Greeted, Awaiting
<1>11. ASSUME NEW rep \in {0, 1}, NEW type \in 1..4, NEW len \in 0..MaxName,
              SocksReply(rep, type, len)
       PROVE  Goes
  <2>1. CASE rep = 0 /\ type \in {1, 3, 4}
    <3>1. far' = Requested(url) /\ Requested(url) = Target
      BY <1>11, <2>1, RequestedIsMeant, PlaceIsTarget DEF SocksReply, IInv, Branch
    <3> QED
      BY <1>11, <2>1, <3>1, TargetFixed DEF SocksReply, Goes, Arrived
  <2>2. CASE ~ (rep = 0 /\ type \in {1, 3, 4})
    BY <1>2, <1>11, <2>2 DEF SocksReply
  <2> QED
    BY <2>1, <2>2
<1>12. CASE SocksTail
  BY <1>1, <1>12 DEF SocksTail, Arrived, Awaiting
<1>13. ASSUME NEW name \in Hosts, HandshakeDone(name) PROVE Goes
  BY <1>13 DEF HandshakeDone, Goes, Arrived
<1>14. CASE NoPort \/ AwaitFails
  BY <1>2, <1>14 DEF NoPort, AwaitFails, Throw, Awaiting
<1>15. CASE UNCHANGED vars
  BY <1>15, TargetFixed DEF vars, Goes, Arrived
<1> QED
  BY <1>4, <1>5, <1>6, <1>7, <1>8, <1>9, <1>10, <1>11, <1>12, <1>13, <1>14, <1>15
     DEF Next, Terminated

\* Every step of connect() is a step of the dialer or invisible to the caller, and the
\* stream it returns leads to the target, directly or through any proxy; with SOCKS5, as
\* long as names and ports fit their fields.
THEOREM ConnectImplementsDialer ==
    ASSUME SocksFits
    PROVE  Spec => DialSpec
<1>1. Init => Arrived
  BY DEF Init, Arrived
<1>2. IInv /\ Arrived /\ [Next]_vars => Arrived'
  BY StepCases DEF Goes
<1>3. Init => D!Init
  BY DEF Init, D!Init
<1>4. IInv /\ Arrived /\ [Next]_vars => [D!Next]_D!vars
  <2> SUFFICES ASSUME IInv, Arrived, [Next]_vars PROVE [D!Next]_D!vars
    OBVIOUS
  <2>1. Target' = Target
    BY StepCases, TargetFixed DEF Goes
  <2>2. CASE UNCHANGED <<pc, stream>>
    BY <2>1, <2>2 DEF D!vars
  <2>3. CASE pc \notin {"connected", "failed"} /\ pc' \notin {"connected", "failed"}
             /\ UNCHANGED stream
    BY <2>1, <2>3 DEF D!vars
  <2>4. CASE pc \notin {"connected", "failed"} /\ pc' = "failed" /\ UNCHANGED stream
    BY <2>1, <2>4 DEF D!Next, D!Fail
  <2>5. CASE pc \notin {"connected", "failed"} /\ pc' = "connected" /\ stream'.far = Target
    BY <2>1, <2>5 DEF D!Next, D!Reach
  <2> QED
    BY <2>2, <2>3, <2>4, <2>5, StepCases DEF Goes
<1> QED
  BY <1>1, <1>2, <1>3, <1>4, Invariance, PTL DEF Spec, DialSpec, D!Spec
================================================================================
