------------------------------ MODULE HttpServer ------------------------------
(***************************************************************************)
(* The beast2 HTTP and HTTPS servers: a fixed pool of worker objects, each *)
(* running http_worker::do_http_session on the connection that             *)
(* corosio::tcp_server accepted into its socket.                           *)
(*                                                                         *)
(* One step is what runs between two suspension points of the worker's     *)
(* coroutine.  Everything a worker owns is reused for its next connection: *)
(* the parser and its buffer, the route_params, the socket and (HTTPS) the *)
(* three type-erased streams that point into the TLS stream.               *)
(*                                                                         *)
(* Requests are abstracted to what the session loop tells apart: keep-     *)
(* alive or close, a target that parses or not, a body or none.  A peer's  *)
(* bytes are a sequence of units, a header or a body; one read may take in *)
(* any number of the units that have arrived.                              *)
(***************************************************************************)
EXTENDS Naturals, Sequences

CONSTANTS
    Workers,        \* the worker objects of both servers
    TlsWorkers,     \* those of https_server
    Conns,          \* connections peers may open
    TlsConns,       \* those made to the HTTPS port
    MaxRequests,    \* bound: requests a peer sends on one connection
    Requests,       \* the forms of request that peers send
    OneAtATime,     \* peers wait for a response before they send again, and
                    \* handlers read the body before they respond
    None            \* null pointer / no connection

(***************************************************************************)
(* The form of a request, as far as the session loop looks at it.          *)
(***************************************************************************)
RequestForm == [keep : BOOLEAN, bad : BOOLEAN, body : BOOLEAN]

ASSUME WorkersAssumption == TlsWorkers \subseteq Workers
ASSUME ConnsAssumption == TlsConns \subseteq Conns /\ "sock" \notin Conns
ASSUME NoneAssumption == None \notin Conns /\ None # "sock"
ASSUME RequestsAssumption ==
    /\ MaxRequests \in Nat
    /\ Requests \subseteq RequestForm
    /\ OneAtATime \in BOOLEAN

VARIABLES
    \* the peers and the network
    peer,           \* peer[c] \in {"absent", "open", "closed"}
    wire,           \* wire[c]: units sent by the peer and not yet received
    sent,           \* sent[c]: number of requests sent
    answered,       \* answered[c]: number of responses sent to the peer
    \* tcp_server
    accepting,      \* FALSE after stop()
    taken,          \* connections that have been accepted
    \* the worker objects
    pc,             \* where worker w's session coroutine is suspended
    conn,           \* the connection in w's socket
    sock,           \* "up" while the socket is connected, "shut" otherwise
    ssl,            \* the TLS stream w owns, named after its connection
    stream,         \* what w's stream / req_body / res_body refer to
    buffer,         \* units in the parser behind the current header
    req,            \* the request being dispatched
    keepAlive,      \* rp.res.keep_alive()
    responded,      \* a response to req has been sent
    routeData,      \* who stored something in rp.route_data
    sessionData,    \* who stored something in rp.session_data
    \* history
    dispatched      \* dispatched[c]: the requests handed to the router, and
                    \* whether the connection was to be kept after each

netVars == <<peer, wire, sent, answered>>
workerVars == <<conn, sock, ssl, stream, buffer, req, keepAlive, responded,
                routeData, sessionData>>
vars == <<netVars, accepting, taken, pc, workerVars, dispatched>>

PC == {"idle", "handshake", "reading", "dispatching", "tls_shutdown", "raised"}
HeadUnit == [part : {"head"}, id : 1..MaxRequests, form : Requests]
Dispatched == [part : {"head"}, id : 1..MaxRequests, form : RequestForm]
BodyUnit == [part : {"body"}, id : 1..MaxRequests]
Unit == HeadUnit \cup BodyUnit
Tag == Conns \X (1..MaxRequests)

TypeOK ==
    /\ peer \in [Conns -> {"absent", "open", "closed"}]
    /\ wire \in [Conns -> Seq(Unit)]
    /\ sent \in [Conns -> 0..MaxRequests]
    /\ answered \in [Conns -> Nat]
    /\ accepting \in BOOLEAN
    /\ taken \in SUBSET Conns
    /\ pc \in [Workers -> PC]
    /\ conn \in [Workers -> Conns \cup {None}]
    /\ sock \in [Workers -> {"up", "shut"}]
    /\ ssl \in [Workers -> Conns \cup {None}]
    /\ stream \in [Workers -> Conns \cup {None, "sock"}]
    /\ buffer \in [Workers -> Seq(Unit)]
    /\ req \in [Workers -> HeadUnit \cup {None}]
    /\ keepAlive \in [Workers -> BOOLEAN]
    /\ responded \in [Workers -> BOOLEAN]
    /\ routeData \in [Workers -> SUBSET Tag]
    /\ sessionData \in [Workers -> SUBSET Tag]
    /\ dispatched \in [Conns -> Seq(Dispatched)]

(***************************************************************************)
(* The constructors: a plain worker is wired to its own socket for good, a *)
(* TLS worker is wired anew by each session.                               *)
(***************************************************************************)
Init ==
    /\ peer = [c \in Conns |-> "absent"]
    /\ wire = [c \in Conns |-> <<>>]
    /\ sent = [c \in Conns |-> 0]
    /\ answered = [c \in Conns |-> 0]
    /\ accepting = TRUE
    /\ taken = {}
    /\ pc = [w \in Workers |-> "idle"]
    /\ conn = [w \in Workers |-> None]
    /\ sock = [w \in Workers |-> "shut"]
    /\ ssl = [w \in Workers |-> None]
    /\ stream = [w \in Workers |-> IF w \in TlsWorkers THEN None ELSE "sock"]
    /\ buffer = [w \in Workers |-> <<>>]
    /\ req = [w \in Workers |-> None]
    /\ keepAlive = [w \in Workers |-> FALSE]
    /\ responded = [w \in Workers |-> FALSE]
    /\ routeData = [w \in Workers |-> {}]
    /\ sessionData = [w \in Workers |-> {}]
    /\ dispatched = [c \in Conns |-> <<>>]

-------------------------------------------------------------------------------
(***************************************************************************)
(* The peers.                                                              *)
(***************************************************************************)

Connect(c) ==
    /\ peer[c] = "absent"
    /\ peer' = [peer EXCEPT ![c] = "open"]
    /\ UNCHANGED <<wire, sent, answered, accepting, taken, pc, workerVars, dispatched>>

\* Application data flows on a TLS connection once its handshake is over.
Secured(c) == \E w \in Workers : conn[w] = c /\ stream[w] = c

Send(c, form) ==
    /\ peer[c] = "open"
    /\ c \in TlsConns => Secured(c)
    /\ sent[c] < MaxRequests
    /\ OneAtATime => answered[c] = sent[c]
    /\ LET id == sent[c] + 1
           head == <<[part |-> "head", id |-> id, form |-> form]>>
           body == IF form.body THEN <<[part |-> "body", id |-> id]>> ELSE <<>>
       IN /\ wire' = [wire EXCEPT ![c] = @ \o head \o body]
          /\ sent' = [sent EXCEPT ![c] = id]
    /\ UNCHANGED <<peer, answered, accepting, taken, pc, workerVars, dispatched>>

Disconnect(c) ==
    /\ peer[c] = "open"
    /\ peer' = [peer EXCEPT ![c] = "closed"]
    /\ UNCHANGED <<wire, sent, answered, accepting, taken, pc, workerVars, dispatched>>

-------------------------------------------------------------------------------
(***************************************************************************)
(* Steps of http_worker shared by the two servers.                         *)
(***************************************************************************)

\* Fault: the session data is not cleared.
ResetParserOnly(w) ==
    /\ buffer' = [buffer EXCEPT ![w] = <<>>]
    /\ UNCHANGED sessionData

\* parser.reset(); parser.start(); rp.session_data.clear();
\* executed at the top of the request loop and by the guard's destructor.
ResetParser(w) ==
    /\ buffer' = [buffer EXCEPT ![w] = <<>>]
    /\ sessionData' = [sessionData EXCEPT ![w] = {}]

\* do_http_session is entered: the loop's first iteration reaches read_header.
BeginSession(w) ==
    /\ ResetParser(w)
    /\ pc' = [pc EXCEPT ![w] = "reading"]
    /\ UNCHANGED <<req, keepAlive, responded, routeData>>

\* The socket goes back to the pool with the worker.
ReturnToPool(w) ==
    /\ sock' = [sock EXCEPT ![w] = "shut"]
    /\ ssl' = [ssl EXCEPT ![w] = None]
    /\ conn' = [conn EXCEPT ![w] = None]
    /\ pc' = [pc EXCEPT ![w] = "idle"]

\* do_http_session breaks out of its loop; a plain worker's do_session then
\* shuts the socket down, a TLS worker's awaits the TLS shutdown first.
EndSession(w) ==
    /\ ResetParser(w)
    /\ IF w \in TlsWorkers
       THEN /\ pc' = [pc EXCEPT ![w] = "tls_shutdown"]
            /\ UNCHANGED <<conn, sock, ssl>>
       ELSE ReturnToPool(w)
    /\ UNCHANGED <<stream, req, keepAlive, responded, routeData>>

-------------------------------------------------------------------------------
(***************************************************************************)
(* tcp_server (external): an idle worker's socket receives the connection  *)
(* and the worker is run; stop() ends accepting.                           *)
(***************************************************************************)

Accept(w, c) ==
    /\ accepting /\ pc[w] = "idle"
    /\ peer[c] # "absent"
    /\ c \notin taken
    /\ w \in TlsWorkers <=> c \in TlsConns
    /\ taken' = taken \cup {c}
    /\ conn' = [conn EXCEPT ![w] = c]
    /\ sock' = [sock EXCEPT ![w] = "up"]
    /\ UNCHANGED <<netVars, accepting, stream, dispatched>>

\* http_server::worker::do_session up to its first suspension.
RunPlain(w, c) ==
    /\ w \notin TlsWorkers
    /\ Accept(w, c)
    /\ BeginSession(w)
    /\ UNCHANGED ssl

\* https_server::worker::do_session up to the handshake.
RunTls(w, c) ==
    /\ w \in TlsWorkers
    /\ Accept(w, c)
    /\ ssl' = [ssl EXCEPT ![w] = c]
    /\ pc' = [pc EXCEPT ![w] = "handshake"]
    /\ UNCHANGED <<buffer, req, keepAlive, responded, routeData, sessionData>>

Stop ==
    /\ accepting
    /\ accepting' = FALSE
    /\ UNCHANGED <<netVars, taken, pc, workerVars, dispatched>>

-------------------------------------------------------------------------------
(***************************************************************************)
(* https_server::worker::do_session.                                       *)
(***************************************************************************)

\* Fault: the streams are wired in the first session only.
WireOnce(w) == stream' = [stream EXCEPT ![w] = IF @ = None THEN ssl[w] ELSE @]

\* rp.req_body, rp.res_body and stream refer to the new TLS stream.
WireStreams(w) == stream' = [stream EXCEPT ![w] = ssl[w]]

HandshakeDone(w) ==
    /\ pc[w] = "handshake"
    /\ peer[conn[w]] = "open"
    /\ WireStreams(w)
    /\ BeginSession(w)
    /\ UNCHANGED <<netVars, accepting, taken, conn, sock, ssl, dispatched>>

HandshakeFailed(w) ==
    /\ pc[w] = "handshake"
    /\ ReturnToPool(w)
    /\ UNCHANGED <<netVars, accepting, taken, stream, buffer, req, keepAlive,
                   responded, routeData, sessionData, dispatched>>

\* Fault: only a shutdown that succeeds is followed by the clean-up.
TlsShutdownAnswered(w) == pc[w] = "tls_shutdown" /\ peer[conn[w]] = "open"

\* ssl->shutdown() completes, with or without an error.
TlsShutdownReturns(w) == pc[w] = "tls_shutdown"

TlsShutdownDone(w) ==
    /\ TlsShutdownReturns(w)
    /\ ReturnToPool(w)
    /\ UNCHANGED <<netVars, accepting, taken, stream, buffer, req, keepAlive,
                   responded, routeData, sessionData, dispatched>>

-------------------------------------------------------------------------------
(***************************************************************************)
(* http_worker::do_http_session.                                           *)
(***************************************************************************)

\* Fault: the last unit taken in is not consumed.
TakeInTwice(c, k) ==
    wire' = [wire EXCEPT ![c] = SubSeq(@, IF k = 0 THEN 1 ELSE k, Len(@))]

\* k units move from the wire to the parser.
TakeIn(c, k) == wire' = [wire EXCEPT ![c] = SubSeq(@, k + 1, Len(@))]

\* k units reach the parser; the first is a complete header, which becomes
\* rp.req.  Route data and the response are set up for it.
ReadHeader(w, k) ==
    LET c == conn[w] IN
    /\ pc[w] = "reading"
    /\ wire[c] # <<>>
    /\ Head(wire[c]).part = "head"
    /\ k \in 1..Len(wire[c])
    /\ TakeIn(c, k)
    /\ req' = [req EXCEPT ![w] = Head(wire[c])]
    /\ routeData' = [routeData EXCEPT ![w] = {}]
    /\ keepAlive' = [keepAlive EXCEPT ![w] = Head(wire[c]).form.keep]
    /\ responded' = [responded EXCEPT ![w] = FALSE]
    /\ UNCHANGED <<peer, sent, answered, accepting, taken, conn, sock, ssl, stream>>

\* The target is a URI reference: the router's coroutine starts.
ReadRequest(w, k) ==
    /\ ReadHeader(w, k)
    /\ ~ Head(wire[conn[w]]).form.bad
    /\ buffer' = [buffer EXCEPT ![w] = SubSeq(wire[conn[w]], 2, k)]
    /\ pc' = [pc EXCEPT ![w] = "dispatching"]
    /\ dispatched' = [dispatched EXCEPT ![conn[w]] = Append(@, Head(wire[conn[w]]))]
    /\ UNCHANGED sessionData

\* Fault: the parser is reset where the loop is left, not by a guard.
ReadBadTargetUnguarded(w, k) ==
    /\ ReadHeader(w, k)
    /\ Head(wire[conn[w]]).form.bad
    /\ buffer' = [buffer EXCEPT ![w] = SubSeq(wire[conn[w]], 2, k)]
    /\ pc' = [pc EXCEPT ![w] = "raised"]
    /\ UNCHANGED <<sessionData, dispatched>>

\* The target is not a URI reference: rv.value() throws, the guard's
\* destructor runs, and do_session is left without reaching its clean-up.
ReadBadTarget(w, k) ==
    /\ ReadHeader(w, k)
    /\ Head(wire[conn[w]]).form.bad
    /\ ResetParser(w)
    /\ pc' = [pc EXCEPT ![w] = "raised"]
    /\ UNCHANGED dispatched

\* Fault: bytes that are no header are waited on, not reported.
FailsAtEnd(c) == peer[c] = "closed"

\* Fault: the end of the stream is not an error.
FailsInHeader(c) == wire[c] # <<>> /\ Head(wire[c]).part = "body"

\* read_header reports an error: the peer is gone, or the bytes of a body that
\* nobody read stand where a header was expected.
ReadFails(c) ==
    \/ peer[c] = "closed"
    \/ wire[c] # <<>> /\ Head(wire[c]).part = "body"

ReadError(w) ==
    /\ pc[w] = "reading"
    /\ ReadFails(conn[w])
    /\ EndSession(w)
    /\ UNCHANGED <<netVars, accepting, taken, dispatched>>

\* Fault: what the request asked for decides, whatever the response says.
IsOverByRequest(w, failed) == failed \/ ~ req[w].form.keep

\* A failed result or a response that closes ends the session.
IsOver(w, failed) == failed \/ ~ keepAlive[w]

\* dispatch returned; unless the session is over the loop goes round.
DispatchDone(w, failed) ==
    /\ pc[w] = "dispatching"
    /\ IF IsOver(w, failed)
       THEN EndSession(w)
       ELSE BeginSession(w) /\ UNCHANGED <<conn, sock, ssl, stream>>
    /\ UNCHANGED <<netVars, accepting, taken, dispatched>>

-------------------------------------------------------------------------------
(***************************************************************************)
(* Route handlers (external), between the dispatch and its return.         *)
(***************************************************************************)

HandlerStoresRouteData(w) ==
    /\ pc[w] = "dispatching"
    /\ routeData' = [routeData EXCEPT ![w] = @ \cup {<<conn[w], req[w].id>>}]
    /\ UNCHANGED <<netVars, accepting, taken, pc, conn, sock, ssl, stream, buffer,
                   req, keepAlive, responded, sessionData, dispatched>>

HandlerStoresSessionData(w) ==
    /\ pc[w] = "dispatching"
    /\ sessionData' = [sessionData EXCEPT ![w] = @ \cup {<<conn[w], req[w].id>>}]
    /\ UNCHANGED <<netVars, accepting, taken, pc, conn, sock, ssl, stream, buffer,
                   req, keepAlive, responded, routeData, dispatched>>

\* rp.req_body is read to its end: k more units reach the parser behind what it
\* holds, and the body at the front is consumed.
HandlerReadsBody(w, k) ==
    LET c == conn[w]
        in == buffer[w] \o SubSeq(wire[c], 1, k)
    IN
    /\ pc[w] = "dispatching"
    /\ OneAtATime => ~ responded[w]
    /\ k \in 0..Len(wire[c])
    /\ k > 0 => buffer[w] = <<>>
    /\ in # <<>>
    /\ Head(in) = [part |-> "body", id |-> req[w].id]
    /\ buffer' = [buffer EXCEPT ![w] = Tail(in)]
    /\ TakeIn(c, k)
    /\ UNCHANGED <<peer, sent, answered, accepting, taken, pc, conn, sock, ssl, stream,
                   req, keepAlive, responded, routeData, sessionData, dispatched>>

\* History: the last request dispatched was answered with Connection: close.
MarkClosed(requests) == [requests EXCEPT ![Len(requests)].form.keep = FALSE]

\* rp.send: the response may carry Connection: close although the request did not.
HandlerResponds(w, close) ==
    /\ pc[w] = "dispatching"
    /\ ~ responded[w]
    /\ responded' = [responded EXCEPT ![w] = TRUE]
    /\ answered' = [answered EXCEPT ![conn[w]] = @ + 1]
    /\ keepAlive' = [keepAlive EXCEPT ![w] = @ /\ ~ close]
    /\ dispatched' = IF close THEN [dispatched EXCEPT ![conn[w]] = MarkClosed(@)]
                     ELSE dispatched
    /\ UNCHANGED <<peer, wire, sent, accepting, taken, pc, conn, sock, ssl, stream, buffer,
                   req, routeData, sessionData>>

-------------------------------------------------------------------------------
Peer(c) ==
    \/ Connect(c)
    \/ \E form \in Requests : Send(c, form)
    \/ Disconnect(c)

Pool(w) == \E c \in Conns : RunPlain(w, c) \/ RunTls(w, c)

Read(w) ==
    \/ \E k \in 1..(2 * MaxRequests) : ReadRequest(w, k) \/ ReadBadTarget(w, k)
    \/ ReadError(w)

Handler(w) ==
    \/ HandlerStoresRouteData(w)
    \/ HandlerStoresSessionData(w)
    \/ \E k \in 0..(2 * MaxRequests) : HandlerReadsBody(w, k)
    \/ \E close \in BOOLEAN : HandlerResponds(w, close)

Next ==
    \/ \E c \in Conns : Peer(c)
    \/ \E w \in Workers :
        \/ Pool(w)
        \/ HandshakeDone(w) \/ HandshakeFailed(w) \/ TlsShutdownDone(w)
        \/ Read(w)
        \/ Handler(w)
        \/ \E failed \in BOOLEAN : DispatchDone(w, failed)
    \/ Stop

Spec == Init /\ [][Next]_vars

(***************************************************************************)
(* Fairness.  A read completes when bytes or an end of stream are there, a *)
(* handler returns, and a TLS operation on a connection whose peer is gone *)
(* fails.  Nothing is assumed of the peers: the servers set no timer, so a *)
(* handshake, a read or a TLS shutdown waits for as long as the peer does. *)
(***************************************************************************)
PeerGone(w) == conn[w] # None /\ peer[conn[w]] = "closed"

Fairness ==
    /\ WF_vars(\E w \in Workers : Pool(w))
    /\ \A w \in Workers :
        /\ WF_vars(Read(w))
        /\ WF_vars(\E failed \in BOOLEAN : DispatchDone(w, failed))
        /\ WF_vars(PeerGone(w) /\ (HandshakeFailed(w) \/ TlsShutdownDone(w)))

FairSpec == Spec /\ Fairness

-------------------------------------------------------------------------------
(***************************************************************************)
(* Properties.                                                             *)
(***************************************************************************)

InSession(c) == \E w \in Workers : conn[w] = c /\ pc[w] \in {"reading", "dispatching"}

\* A handler only ever sees route data and session data that handlers of the
\* same request stored: nothing of an earlier request of the connection, and
\* nothing of the connection the worker object served before
\* (the clear() calls of do_http_session and its guard).
FreshRequestState ==
    \A w \in Workers : pc[w] = "dispatching" =>
        routeData[w] \cup sessionData[w] \subseteq {<<conn[w], req[w].id>>}

\* While a session reads or dispatches, its stream, req_body and res_body refer
\* to an object that exists and belongs to this connection: the worker's socket,
\* or the TLS stream made for it and not the one of an earlier session that
\* ssl.reset() destroyed.
StreamIsLive ==
    \A w \in Workers : pc[w] \in {"reading", "dispatching"} =>
        IF w \in TlsWorkers
        THEN stream[w] = ssl[w] /\ ssl[w] = conn[w]
        ELSE stream[w] = "sock"

\* However a session ends, the worker keeps nothing of it: the guard empties the
\* parser and the session data even when an exception skips the clean-up of
\* do_session, and a worker back in the pool, from a failed handshake as from a
\* whole session, has neither a connected socket nor a TLS stream.
EndsClean ==
    \A w \in Workers :
        /\ pc[w] \notin {"reading", "dispatching"} => buffer[w] = <<>> /\ sessionData[w] = {}
        /\ pc[w] = "idle" => conn[w] = None /\ sock[w] = "shut" /\ ssl[w] = None

\* The router gets the requests of a connection in the order they were sent and
\* none of them twice, however reads split or join them.
RequestsInOrder ==
    \A c \in Conns : \A i, j \in 1..Len(dispatched[c]) :
        i < j => dispatched[c][i].id < dispatched[c][j].id

\* Nothing is dispatched on a connection after a request that asked for it to be
\* closed, or after one whose response said so, whatever was pipelined behind it.
CloseIsLast ==
    \A c \in Conns : \A i \in 1..(Len(dispatched[c]) - 1) :
        dispatched[c][i].form.keep

\* A request sent on a connection in session is dispatched, unless the session
\* ends ("reads HTTP requests, dispatches them through the router, and sends
\* responses until the connection is closed or an error occurs").
RequestsDispatched ==
    \A c \in Conns :
        (InSession(c) /\ Len(dispatched[c]) < sent[c])
            ~> (~ InSession(c) \/ Len(dispatched[c]) = sent[c])

\* When its peer is gone a worker returns to the pool, whatever it was doing,
\* unless an exception ended its session.
WorkerRecovered ==
    \A w \in Workers : PeerGone(w) ~> (pc[w] \in {"idle", "raised"})

\* If every peer that connects eventually leaves, and no session raises, every
\* connection is accepted sooner or later unless the server is stopped: a pool
\* smaller than the number of connections starves nobody.
EveryoneAdmitted ==
    (\A c \in Conns : (peer[c] = "open" ~> peer[c] = "closed"))
        => \A c \in Conns :
            (peer[c] # "absent") ~> (c \in taken \/ ~ accepting)
===============================================================================
