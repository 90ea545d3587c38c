---------------------------- MODULE GetClientProofs ----------------------------
(***************************************************************************)
(* Safety of the get client for all hosts, ports and limits on redirects.  *)
(*                                                                         *)
(* RequestToOrigin speaks of the moments when a message is transferred; to *)
(* be inductive it must say of every callback before that what secure_,    *)
(* the socket and the TLS session are worth, and of a body that is being   *)
(* discarded that the connection is already the right one.                 *)
(***************************************************************************)
EXTENDS GetClient, TLAPS

Origin == [host |-> url.host, port |-> port(url)]

\* From do_resolve() on secure_ and the port are those of the URL.
Decided ==
    pc \in {"resolve", "connect", "handshake", "write", "read_header", "discard", "read"} =>
        port(url) # None /\ (secure <=> url.scheme = "https")

\* The stream is new until the handshake.
New == pc \in {"resolve", "connect", "handshake"} => name = None /\ body = "none"

Connected ==
    pc \in {"handshake", "write", "read_header", "discard", "read"} => peer = Origin

Secured ==
    /\ pc = "handshake" => url.scheme = "https"
    /\ pc \in {"write", "read_header", "discard", "read"} =>
        name = IF url.scheme = "https" THEN url.host ELSE None

IInv == TypeOK /\ Decided /\ New /\ Connected /\ Secured /\ NothingLeftOver

\* A port that was found is one of the URL's or a default.
LEMMA PortType ==
    ASSUME NEW u \in URL, port(u) # None
    PROVE  port(u) \in Ports \cup {80, 443}
BY PortsAssumption DEF port, URL

\* What do_resolve() leaves, whatever the state before it.
LEMMA Resolving ==
    ASSUME NEW u \in URL, url' = u, left' \in 0..max_redirects, do_resolve(u)
    PROVE  IInv'
<1>1. /\ pc' \in {"failed", "resolve"}
      /\ pc' = "resolve" => port(u) # None
  BY DEF do_resolve
<1>2. TypeOK'
  BY <1>1 DEF do_resolve, TypeOK, Waiting
<1>3. Decided' /\ New' /\ Connected' /\ Secured' /\ NothingLeftOver'
  BY <1>1 DEF do_resolve, Decided, New, Connected, Secured, NothingLeftOver, port
<1> QED
  BY <1>2, <1>3 DEF IInv

\* A session that is about to resolve its first URL.
LEMMA InitInvariant == Init => IInv
<1> SUFFICES ASSUME Init PROVE IInv
  OBVIOUS
<1>1. left \in 0..max_redirects
  BY BoundAssumption DEF Init
<1>2. TypeOK
  BY <1>1 DEF Init, TypeOK
<1>3. Decided /\ New /\ Connected /\ Secured /\ NothingLeftOver
  BY DEF Init, Decided, New, Connected, Secured, NothingLeftOver
<1> QED
  BY <1>2, <1>3 DEF IInv

\* The callbacks up to the request.
LEMMA RequestStep ==
    ASSUME IInv, run \/ on_resolve \/ on_connect \/ on_ssl_handshake \/ on_write
    PROVE  IInv'
<1> USE DEF IInv
<1>1. CASE run
  BY <1>1, Resolving DEF run, TypeOK
<1>2. CASE on_resolve
  BY <1>2 DEF on_resolve, TypeOK, Waiting, Decided, New, Connected, Secured, NothingLeftOver, port
<1>3. CASE on_connect
  <2>1. port(url) \in Ports \cup {80, 443} /\ url.host \in Hosts
    BY <1>3, PortType DEF on_connect, Decided, TypeOK, URL
  <2>2. peer' = Origin /\ peer' \in [host : Hosts, port : Ports \cup {80, 443}]
    BY <1>3, <2>1 DEF on_connect, Origin
  <2>3. TypeOK'
    BY <1>3, <2>2 DEF on_connect, TypeOK, Waiting
  <2>4. url' = url /\ secure' = secure /\ name' = None /\ body' = "none"
        /\ pc' = IF url.scheme = "https" THEN "handshake" ELSE "write"
    BY <1>3 DEF on_connect, New, Decided
  <2>5. Origin' = Origin
    BY <2>4 DEF Origin, port
  <2>6. Decided' /\ New' /\ Connected' /\ Secured' /\ NothingLeftOver'
    BY <1>3, <2>2, <2>4, <2>5
       DEF on_connect, Decided, New, Connected, Secured, NothingLeftOver, port
  <2> QED
    BY <2>3, <2>6
<1>4. CASE on_ssl_handshake
  <2>1. url' = url /\ Origin' = Origin /\ url.scheme = "https" /\ url.host \in Hosts
    BY <1>4 DEF on_ssl_handshake, Origin, port, Secured, TypeOK, URL
  <2>2. TypeOK'
    BY <1>4, <2>1 DEF on_ssl_handshake, TypeOK, Waiting
  <2>3. Decided' /\ New' /\ Connected' /\ Secured' /\ NothingLeftOver'
    BY <1>4, <2>1
       DEF on_ssl_handshake, Decided, New, Connected, Secured, NothingLeftOver, port
  <2> QED
    BY <2>2, <2>3
<1>5. CASE on_write
  <2>1. Origin' = Origin
    BY <1>5 DEF on_write, Origin, port
  <2> QED
    BY <1>5, <2>1
       DEF on_write, TypeOK, Waiting, Decided, New, Connected, Secured, NothingLeftOver, port
<1> QED
  BY <1>1, <1>2, <1>3, <1>4, <1>5

\* A redirect: refused, followed on the same connection, or on another one.
LEMMA RedirectStep ==
    ASSUME IInv, NEW r \in Response, NEW target \in URL, on_redirect_response(r, target)
    PROVE  IInv'
<1> USE DEF IInv
<1> DEFINE to == Resolved(r, target)
           reuse == can_reuse_connection(r, url, to)
<1>1. to \in URL
  BY DEF Resolved, TypeOK
<1>2. CASE left = 0 \/ r.location \in {"none", "bad"}
  <2>1. pc' = "failed" /\ UNCHANGED <<url, secure, peer, name, body>>
        /\ left' = IF left = 0 THEN 0 ELSE left - 1
    BY <1>2 DEF on_redirect_response
  <2>2. left' \in 0..max_redirects
    BY <2>1, BoundAssumption DEF TypeOK
  <2> QED
    BY <2>1, <2>2 DEF TypeOK, Decided, New, Connected, Secured, NothingLeftOver
<1>3. CASE ~ (left = 0 \/ r.location \in {"none", "bad"})
  <2>1. Follow(r, to, reuse) /\ pc = "read_header"
    BY <1>3 DEF on_redirect_response
  <2>2. left' \in 0..max_redirects /\ url' = to
    BY <1>3, <2>1, BoundAssumption DEF Follow, Spent, TypeOK
  <2>3. CASE reuse
    <3>1. to = url
      BY <2>3 DEF can_reuse_connection
    <3>2. pc' = "discard" /\ body' = r.body /\ UNCHANGED <<url, secure, peer, name>>
      BY <2>1, <2>2, <2>3, <3>1 DEF Follow
    <3>3. body' \in {"none", "buffered", "small", "large"}
      BY <3>2 DEF Response
    <3>4. TypeOK'
      BY <2>2, <3>2, <3>3 DEF TypeOK, Waiting
    <3>5. Origin' = Origin
      BY <3>2 DEF Origin, port
    <3>6. Decided' /\ New' /\ Connected' /\ Secured' /\ NothingLeftOver'
      BY <2>1, <3>2, <3>5 DEF Decided, New, Connected, Secured, NothingLeftOver, port
    <3> QED
      BY <3>4, <3>6
  <2>4. CASE ~ reuse /\ secure
    <3>1. pc' = "close" /\ body' = r.body /\ UNCHANGED <<secure, peer, name>>
      BY <2>1, <2>4 DEF Follow
    <3>2. body' \in {"none", "buffered", "small", "large"}
      BY <3>1 DEF Response
    <3>3. TypeOK'
      BY <1>1, <2>2, <3>1, <3>2 DEF TypeOK, Waiting
    <3> QED
      BY <3>1, <3>3 DEF Decided, New, Connected, Secured, NothingLeftOver
  <2>5. CASE ~ reuse /\ ~ secure
    <3>1. do_resolve(to)
      BY <2>1, <2>5 DEF Follow
    <3> QED
      BY <1>1, <2>2, <3>1, Resolving
  <2> QED
    BY <2>3, <2>4, <2>5
<1> QED
  BY <1>2, <1>3

\* Any other header, and what comes after a header.
LEMMA ResponseStep ==
    ASSUME IInv,
           \/ \E r \in Response : on_read_header(r)
           \/ on_discard \/ DiscardFails \/ on_close \/ on_read \/ on_shutdown \/ fail
    PROVE  IInv'
<1> USE DEF IInv
<1>1. ASSUME NEW r \in Response, on_read_header(r) PROVE IInv'
  <2>1. Origin' = Origin /\ body' \in {"none", "buffered", "small", "large"}
    BY <1>1 DEF on_read_header, Origin, port, Response
  <2> QED
    BY <1>1, <2>1
       DEF on_read_header, TypeOK, Waiting, Decided, New, Connected, Secured, NothingLeftOver, port
<1>2. CASE on_discard
  <2>1. CASE Discards
    <3>1. pc = "discard" /\ pc' = "write" /\ body' = "none"
          /\ UNCHANGED <<url, left, secure, peer, name>>
      BY <1>2, <2>1 DEF on_discard, Discards
    <3>2. Origin' = Origin
      BY <3>1 DEF Origin, port
    <3> QED
      BY <3>1, <3>2 DEF TypeOK, Waiting, Decided, New, Connected, Secured, NothingLeftOver, port
  <2>2. CASE ~ Discards
    BY <1>2, <2>2, Resolving DEF on_discard, TypeOK
  <2> QED
    BY <2>1, <2>2
<1>3. CASE DiscardFails
  BY <1>3, Resolving DEF DiscardFails, TypeOK
<1>4. CASE on_close
  BY <1>4, Resolving DEF on_close, TypeOK
<1>5. CASE on_read
  BY <1>5 DEF on_read, TypeOK, Waiting, Decided, New, Connected, Secured, NothingLeftOver
<1>6. CASE on_shutdown
  BY <1>6 DEF on_shutdown, TypeOK, Waiting, Decided, New, Connected, Secured, NothingLeftOver
<1>7. CASE fail
  BY <1>7 DEF fail, TypeOK, Waiting, Decided, New, Connected, Secured, NothingLeftOver
<1> QED
  BY <1>1, <1>2, <1>3, <1>4, <1>5, <1>6, <1>7

\* At every callback of the session in get/main.cpp the stream's peer and name, secure_
\* and the parser are what the current URL needs.
THEOREM Invariance == Spec => []IInv
<1>1. Init => IInv
  BY InitInvariant
<1>2. IInv /\ [Next]_vars => IInv'
  <2> SUFFICES ASSUME IInv, [Next]_vars PROVE IInv'
    OBVIOUS
  <2>1. CASE run \/ on_resolve \/ on_connect \/ on_ssl_handshake \/ on_write
    BY <2>1, RequestStep
  <2>2. ASSUME NEW r \in Response, NEW target \in URL, on_redirect_response(r, target)
        PROVE  IInv'
    BY <2>2, RedirectStep
  <2>3. CASE \/ \E r \in Response : on_read_header(r)
             \/ on_discard \/ DiscardFails \/ on_close \/ on_read \/ on_shutdown \/ fail
    BY <2>3, ResponseStep
  <2>4. CASE UNCHANGED vars
    BY <2>4 DEF vars, IInv, TypeOK, Decided, New, Connected, Secured, NothingLeftOver,
                Origin, port
  <2> QED
    BY <2>1, <2>2, <2>3, <2>4 DEF Next, Terminated
<1> QED
  BY <1>1, <1>2, PTL DEF Spec

\* The members of the session have their types.
THEOREM TypeCorrect == Spec => []TypeOK
<1>1. IInv => TypeOK
  BY DEF IInv
<1> QED
  BY <1>1, Invariance, PTL

\* Every request of the session in get/main.cpp, over any chain of redirects and with
\* any reuse of connections, is exchanged with the origin of its URL.
THEOREM RequestsToOrigin == Spec => []RequestToOrigin
<1>1. IInv => RequestToOrigin
  BY DEF IInv, Decided, Connected, Secured, RequestToOrigin, Origin
<1> QED
  BY <1>1, Invariance, PTL

\* A reused connection holds nothing of the response that redirected.
THEOREM ReuseIsClean == Spec => []NothingLeftOver
<1>1. IInv => NothingLeftOver
  BY DEF IInv
<1> QED
  BY <1>1, Invariance, PTL
================================================================================
