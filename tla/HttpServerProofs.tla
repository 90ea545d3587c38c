--------------------------- MODULE HttpServerProofs ---------------------------
(***************************************************************************)
(* Proofs about HttpServer, for any pool of workers, any set of connections*)
(* and any number of requests on each.                                     *)
(***************************************************************************)
EXTENDS HttpServer, SequenceTheorems, TLAPS

(***************************************************************************)
(* The inductive invariant.  Each part says of one worker what holds       *)
(* wherever its coroutine is suspended.                                    *)
(***************************************************************************)

\* A worker has a connection exactly while it runs a session, and no two workers
\* have the same one.
Ownership ==
    /\ \A w \in Workers :
        /\ pc[w] = "idle" <=> conn[w] = None
        /\ conn[w] # None => conn[w] \in taken
    /\ \A v, w \in Workers : conn[v] = conn[w] /\ conn[v] # None => v = w

\* The TLS stream of a running session is the one made for its connection, and
\* from the handshake on the session is wired to it.
Wiring ==
    \A w \in Workers :
        IF w \in TlsWorkers
        THEN /\ ssl[w] = conn[w]
             /\ pc[w] \in {"reading", "dispatching"} => stream[w] = conn[w]
        ELSE /\ stream[w] = "sock"
             /\ ssl[w] = None
             /\ pc[w] \notin {"handshake", "tls_shutdown"}

\* The parser and the data stores hold something only during a dispatch, and
\* then only of the request being dispatched.
Cleanliness ==
    \A w \in Workers :
        /\ pc[w] # "dispatching" => buffer[w] = <<>> /\ sessionData[w] = {}
        /\ pc[w] = "dispatching" =>
            /\ conn[w] \in Conns
            /\ req[w] \in HeadUnit
            /\ routeData[w] \cup sessionData[w] \subseteq {<<conn[w], req[w].id>>}
        /\ pc[w] = "idle" => sock[w] = "shut"

IInv == TypeOK /\ Ownership /\ Wiring /\ Cleanliness

-------------------------------------------------------------------------------
(***************************************************************************)
(* Lemmas about the parts of a step.                                       *)
(***************************************************************************)

\* A worker that is not idle has a connection.
LEMMA BusyHasConnection ==
    ASSUME TypeOK, Ownership, NEW w \in Workers, pc[w] # "idle"
    PROVE  conn[w] \in Conns
BY DEF TypeOK, Ownership

\* Cutting a sequence of units in two.
LEMMA CutUnits ==
    ASSUME NEW s \in Seq(Unit), NEW k \in 0..Len(s)
    PROVE  /\ SubSeq(s, k + 1, Len(s)) \in Seq(Unit)
           /\ SubSeq(s, 1, k) \in Seq(Unit)
           /\ SubSeq(s, 2, k) \in Seq(Unit)
<1>1. Len(s) \in Nat /\ \A i \in 1..Len(s) : s[i] \in Unit
  BY LenProperties, ElementOfSeq
<1>2. SubSeq(s, k + 1, Len(s)) \in Seq(Unit)
  BY <1>1, SubSeqProperties
<1>3. SubSeq(s, 1, k) \in Seq(Unit)
  BY <1>1, SubSeqProperties
<1>4. SubSeq(s, 2, k) \in Seq(Unit)
  BY <1>1, SubSeqProperties
<1>5. QED
  BY <1>2, <1>3, <1>4

\* The unit that read_header takes for a header is one.
LEMMA HeaderUnit ==
    ASSUME NEW s \in Seq(Unit), s # <<>>, Head(s).part = "head"
    PROVE  /\ Head(s) \in HeadUnit
           /\ Head(s) \in Dispatched
           /\ Head(s).form \in RequestForm
           /\ Head(s).form.keep \in BOOLEAN
<1>1. Head(s) \in Unit
  BY HeadTailProperties
<1>2. Head(s) \notin BodyUnit
  BY DEF BodyUnit
<1>3. Head(s) \in HeadUnit
  BY <1>1, <1>2 DEF Unit
<1>4. Head(s).form \in RequestForm
  BY <1>3, RequestsAssumption DEF HeadUnit
<1>5. Head(s) \in Dispatched
  BY <1>3, RequestsAssumption DEF HeadUnit, Dispatched
<1>6. QED
  BY <1>3, <1>4, <1>5 DEF RequestForm

\* The note that a response closes the connection changes nothing else.
LEMMA MarkClosedFacts ==
    ASSUME NEW d \in Seq(Dispatched)
    PROVE  /\ MarkClosed(d) \in Seq(Dispatched)
           /\ Len(MarkClosed(d)) = Len(d) /\ Len(d) \in Nat
           /\ \A i \in 1..Len(d) : MarkClosed(d)[i].id = d[i].id
           /\ \A i \in 1..(Len(d) - 1) : MarkClosed(d)[i] = d[i]
<1>1. Len(d) \in Nat /\ \A i \in 1..Len(d) : d[i] \in Dispatched
  BY LenProperties, ElementOfSeq
<1>2. CASE Len(d) = 0
  <2>1. d = <<>>
    BY <1>2, EmptySeq
  <2>2. MarkClosed(d) = d
    BY <1>2, <2>1 DEF MarkClosed
  <2> QED
    BY <1>1, <2>2
<1>3. CASE Len(d) # 0
  <2> DEFINE last == [d[Len(d)] EXCEPT !.form.keep = FALSE]
  <2>1. last \in Dispatched /\ last.id = d[Len(d)].id
    <3>1. PICK x \in Dispatched : x = d[Len(d)]
      BY <1>1, <1>3
    <3>2. [x.form EXCEPT !.keep = FALSE] \in RequestForm
      BY <3>1 DEF Dispatched, RequestForm
    <3>3. last = [x EXCEPT !.form = [x.form EXCEPT !.keep = FALSE]]
      BY <3>1 DEF Dispatched
    <3> QED
      BY <3>1, <3>2, <3>3 DEF Dispatched
  <2>2. MarkClosed(d) = [d EXCEPT ![Len(d)] = last]
    BY <1>1, <1>3 DEF MarkClosed
  <2> HIDE DEF last
  <2>3. MarkClosed(d) \in Seq(Dispatched) /\ Len(MarkClosed(d)) = Len(d)
    BY <1>1, <1>3, <2>1, <2>2, ExceptSeq
  <2> QED
    BY <1>1, <1>3, <2>1, <2>2, <2>3
<1> QED
  BY <1>2, <1>3

\* The steps that only move a worker's session along keep the types.
LEMMA BeginSessionType ==
    ASSUME TypeOK, NEW w \in Workers, BeginSession(w)
    PROVE  /\ pc' \in [Workers -> PC]
           /\ buffer' \in [Workers -> Seq(Unit)]
           /\ sessionData' \in [Workers -> SUBSET Tag]
           /\ UNCHANGED <<req, keepAlive, responded, routeData>>
<1>1. <<>> \in Seq(Unit) /\ {} \in SUBSET Tag
  BY EmptySeq
<1>2. QED
  BY <1>1 DEF BeginSession, ResetParser, TypeOK, PC

\* The way back to the pool.
LEMMA ReturnToPoolType ==
    ASSUME TypeOK, NEW w \in Workers, ReturnToPool(w)
    PROVE  /\ pc' \in [Workers -> PC]
           /\ conn' \in [Workers -> Conns \cup {None}]
           /\ sock' \in [Workers -> {"up", "shut"}]
           /\ ssl' \in [Workers -> Conns \cup {None}]
BY DEF ReturnToPool, TypeOK, PC

\* The end of do_http_session.
LEMMA EndSessionType ==
    ASSUME TypeOK, NEW w \in Workers, EndSession(w)
    PROVE  /\ pc' \in [Workers -> PC]
           /\ conn' \in [Workers -> Conns \cup {None}]
           /\ sock' \in [Workers -> {"up", "shut"}]
           /\ ssl' \in [Workers -> Conns \cup {None}]
           /\ buffer' \in [Workers -> Seq(Unit)]
           /\ sessionData' \in [Workers -> SUBSET Tag]
           /\ UNCHANGED <<stream, req, keepAlive, responded, routeData>>
<1>1. /\ buffer' \in [Workers -> Seq(Unit)]
      /\ sessionData' \in [Workers -> SUBSET Tag]
      /\ UNCHANGED <<stream, req, keepAlive, responded, routeData>>
  BY EmptySeq DEF EndSession, ResetParser, TypeOK
<1>2. CASE w \in TlsWorkers
  BY <1>1, <1>2 DEF EndSession, TypeOK, PC
<1>3. CASE w \notin TlsWorkers
  BY <1>1, <1>3, ReturnToPoolType DEF EndSession
<1>4. QED
  BY <1>2, <1>3

-------------------------------------------------------------------------------
(***************************************************************************)
(* Types.                                                                  *)
(***************************************************************************)

\* The constructors leave every member of a worker in its type.
LEMMA InitType == Init => TypeOK
<1> SUFFICES ASSUME Init PROVE TypeOK
  OBVIOUS
<1>1. <<>> \in Seq(Unit) /\ <<>> \in Seq(Dispatched)
  BY EmptySeq
<1>2. /\ keepAlive \in [Workers -> BOOLEAN] /\ responded \in [Workers -> BOOLEAN]
      /\ accepting \in BOOLEAN
  BY Zenon DEF Init
<1>3. QED
  BY <1>1, <1>2, RequestsAssumption DEF Init, TypeOK, PC

\* The peers' steps.
LEMMA PeerType ==
    ASSUME TypeOK, NEW c \in Conns, Peer(c)
    PROVE  TypeOK'
<1>1. CASE Connect(c)
  BY <1>1 DEF Connect, workerVars, TypeOK
<1>2. CASE Disconnect(c)
  BY <1>2 DEF Disconnect, workerVars, TypeOK
<1>3. ASSUME NEW form \in Requests, Send(c, form) PROVE TypeOK'
  <2> DEFINE id == sent[c] + 1
             head == [part |-> "head", id |-> id, form |-> form]
             body == [part |-> "body", id |-> id]
             units == <<head>> \o IF form.body THEN <<body>> ELSE <<>>
  <2>1. id \in 1..MaxRequests
    BY <1>3, RequestsAssumption DEF Send, TypeOK
  <2>2. head \in Unit /\ body \in Unit
    BY <2>1 DEF Unit, HeadUnit, BodyUnit
  <2>3. <<head>> \in Seq(Unit) /\ <<body>> \in Seq(Unit) /\ <<>> \in Seq(Unit)
    BY <2>2
  <2>4. /\ wire[c] \o <<head>> \o (IF form.body THEN <<body>> ELSE <<>>) \in Seq(Unit)
    <3>1. wire[c] \in Seq(Unit)
      BY DEF TypeOK
    <3>2. QED
      BY <2>3, <3>1, ConcatProperties
  <2>5. wire' \in [Conns -> Seq(Unit)] /\ sent' \in [Conns -> 0..MaxRequests]
    <3>1. /\ wire' = [wire EXCEPT ![c] = wire[c] \o <<head>>
                                         \o (IF form.body THEN <<body>> ELSE <<>>)]
          /\ sent' = [sent EXCEPT ![c] = id]
      BY <1>3 DEF Send
    <3>2. QED
      BY <2>1, <2>4, <3>1, RequestsAssumption DEF TypeOK
  <2>6. QED
    BY <1>3, <2>5 DEF Send, workerVars, TypeOK
<1>4. QED
  BY <1>1, <1>2, <1>3 DEF Peer

\* Reading a header, without the outcome.
LEMMA ReadHeaderType ==
    ASSUME TypeOK, Ownership, NEW w \in Workers, NEW k, ReadHeader(w, k)
    PROVE  /\ conn[w] \in Conns
           /\ Head(wire[conn[w]]) \in HeadUnit
           /\ wire' \in [Conns -> Seq(Unit)]
           /\ req' \in [Workers -> HeadUnit \cup {None}]
           /\ routeData' \in [Workers -> SUBSET Tag]
           /\ keepAlive' \in [Workers -> BOOLEAN]
           /\ responded' \in [Workers -> BOOLEAN]
           /\ SubSeq(wire[conn[w]], 2, k) \in Seq(Unit)
           /\ UNCHANGED <<peer, sent, answered, accepting, taken, conn, sock, ssl, stream>>
<1> DEFINE c == conn[w]
<1>1. c \in Conns /\ wire[c] \in Seq(Unit) /\ k \in 0..Len(wire[c])
  <2>1. c \in Conns
    BY BusyHasConnection DEF ReadHeader
  <2>2. wire[c] \in Seq(Unit)
    BY <2>1 DEF TypeOK
  <2>3. QED
    BY <2>1, <2>2, LenProperties DEF ReadHeader
<1>2. /\ Head(wire[c]) \in HeadUnit /\ Head(wire[c]).form.keep \in BOOLEAN
  BY <1>1, HeaderUnit DEF ReadHeader
<1>3. /\ SubSeq(wire[c], k + 1, Len(wire[c])) \in Seq(Unit)
      /\ SubSeq(wire[c], 2, k) \in Seq(Unit)
  BY <1>1, CutUnits
<1>4. wire' \in [Conns -> Seq(Unit)]
  BY <1>1, <1>3 DEF ReadHeader, TakeIn, TypeOK
<1>5. req' \in [Workers -> HeadUnit \cup {None}] /\ routeData' \in [Workers -> SUBSET Tag]
  BY <1>2 DEF ReadHeader, TypeOK
<1>6. keepAlive' \in [Workers -> BOOLEAN] /\ responded' \in [Workers -> BOOLEAN]
  BY <1>2 DEF ReadHeader, TypeOK
<1>7. QED
  BY <1>1, <1>2, <1>3, <1>4, <1>5, <1>6 DEF ReadHeader

\* The workers' steps.
LEMMA WorkerType ==
    ASSUME TypeOK, Ownership, Cleanliness, NEW w \in Workers
    PROVE  /\ Pool(w) => TypeOK'
           /\ HandshakeDone(w) \/ HandshakeFailed(w) \/ TlsShutdownDone(w) => TypeOK'
           /\ Read(w) => TypeOK'
           /\ (\E failed \in BOOLEAN : DispatchDone(w, failed)) => TypeOK'
           /\ Handler(w) => TypeOK'
<1>1. ASSUME NEW c \in Conns, RunPlain(w, c) PROVE TypeOK'
  <2>1. /\ taken' \in SUBSET Conns
        /\ conn' \in [Workers -> Conns \cup {None}]
        /\ sock' \in [Workers -> {"up", "shut"}]
        /\ UNCHANGED <<peer, wire, sent, answered, accepting, stream, dispatched, ssl>>
    BY <1>1 DEF RunPlain, Accept, netVars, TypeOK
  <2>2. BeginSession(w)
    BY <1>1 DEF RunPlain
  <2>3. QED
    BY <2>1, <2>2, BeginSessionType DEF TypeOK
<1>2. ASSUME NEW c \in Conns, RunTls(w, c) PROVE TypeOK'
  BY <1>2 DEF RunTls, Accept, netVars, TypeOK, PC
<1>3. ASSUME HandshakeDone(w) PROVE TypeOK'
  <2>1. /\ stream' \in [Workers -> Conns \cup {None, "sock"}]
        /\ UNCHANGED <<peer, wire, sent, answered, accepting, taken, conn, sock, ssl,
                       dispatched>>
    BY <1>3 DEF HandshakeDone, WireStreams, netVars, TypeOK
  <2>2. BeginSession(w)
    BY <1>3 DEF HandshakeDone
  <2>3. QED
    BY <2>1, <2>2, BeginSessionType DEF TypeOK
<1>4. ASSUME HandshakeFailed(w) \/ TlsShutdownDone(w) PROVE TypeOK'
  <2>1. /\ ReturnToPool(w)
        /\ UNCHANGED <<peer, wire, sent, answered, accepting, taken, stream, buffer, req,
                       keepAlive, responded, routeData, sessionData, dispatched>>
    BY <1>4 DEF HandshakeFailed, TlsShutdownDone, netVars
  <2>2. QED
    BY <2>1, ReturnToPoolType DEF TypeOK
<1>5. ASSUME NEW k, ReadRequest(w, k) PROVE TypeOK'
  <2>1. ReadHeader(w, k)
    BY <1>5 DEF ReadRequest
  <2>2. /\ buffer' \in [Workers -> Seq(Unit)] /\ pc' \in [Workers -> PC]
        /\ UNCHANGED sessionData
    BY <1>5, <2>1, ReadHeaderType DEF ReadRequest, TypeOK, PC
  <2>3. dispatched' \in [Conns -> Seq(Dispatched)]
    <3>1. conn[w] \in Conns /\ Head(wire[conn[w]]) \in HeadUnit
      BY <2>1, ReadHeaderType
    <3>a. Head(wire[conn[w]]) \in Dispatched
      BY <2>1, <3>1, HeaderUnit DEF ReadHeader, TypeOK
    <3>2. Append(dispatched[conn[w]], Head(wire[conn[w]])) \in Seq(Dispatched)
      BY <3>1, <3>a, AppendProperties DEF TypeOK
    <3>3. QED
      BY <1>5, <3>1, <3>2 DEF ReadRequest, TypeOK
  <2>4. QED
    BY <2>1, <2>2, <2>3, ReadHeaderType DEF TypeOK
<1>6. ASSUME NEW k, ReadBadTarget(w, k) PROVE TypeOK'
  <2>1. ReadHeader(w, k)
    BY <1>6 DEF ReadBadTarget
  <2>2. /\ buffer' \in [Workers -> Seq(Unit)] /\ pc' \in [Workers -> PC]
        /\ sessionData' \in [Workers -> SUBSET Tag]
        /\ UNCHANGED dispatched
    BY <1>6, EmptySeq DEF ReadBadTarget, ResetParser, TypeOK, PC
  <2>3. QED
    BY <2>1, <2>2, ReadHeaderType DEF TypeOK
<1>7. ASSUME ReadError(w) PROVE TypeOK'
  <2>1. EndSession(w) /\ UNCHANGED <<peer, wire, sent, answered, accepting, taken, dispatched>>
    BY <1>7 DEF ReadError, netVars
  <2>2. QED
    BY <2>1, EndSessionType DEF TypeOK
<1>8. ASSUME NEW failed \in BOOLEAN, DispatchDone(w, failed) PROVE TypeOK'
  <2>1. UNCHANGED <<peer, wire, sent, answered, accepting, taken, dispatched>>
    BY <1>8 DEF DispatchDone, netVars
  <2>2. CASE IsOver(w, failed)
    <3>1. EndSession(w)
      BY <1>8, <2>2 DEF DispatchDone
    <3>2. QED
      BY <2>1, <3>1, EndSessionType DEF TypeOK
  <2>3. CASE ~ IsOver(w, failed)
    <3>1. BeginSession(w) /\ UNCHANGED <<conn, sock, ssl, stream>>
      BY <1>8, <2>3 DEF DispatchDone
    <3>2. QED
      BY <2>1, <3>1, BeginSessionType DEF TypeOK
  <2>4. QED
    BY <2>2, <2>3
<1>9. ASSUME HandlerStoresRouteData(w) \/ HandlerStoresSessionData(w) PROVE TypeOK'
  <2>1. <<conn[w], req[w].id>> \in Tag
    BY <1>9 DEF HandlerStoresRouteData, HandlerStoresSessionData, Cleanliness, HeadUnit, Tag
  <2>2. routeData' \in [Workers -> SUBSET Tag] /\ sessionData' \in [Workers -> SUBSET Tag]
    <3>1. /\ routeData[w] \cup {<<conn[w], req[w].id>>} \in SUBSET Tag
          /\ sessionData[w] \cup {<<conn[w], req[w].id>>} \in SUBSET Tag
      BY <2>1 DEF TypeOK
    <3>2. CASE HandlerStoresRouteData(w)
      BY <3>1, <3>2 DEF HandlerStoresRouteData, TypeOK
    <3>3. CASE HandlerStoresSessionData(w)
      BY <3>1, <3>3 DEF HandlerStoresSessionData, TypeOK
    <3>4. QED
      BY <1>9, <3>2, <3>3
  <2>3. UNCHANGED <<peer, wire, sent, answered, accepting, taken, pc, conn, sock, ssl, stream,
                    buffer, req, keepAlive, responded, dispatched>>
    BY <1>9 DEF HandlerStoresRouteData, HandlerStoresSessionData, netVars
  <2>4. QED
    BY <2>2, <2>3 DEF TypeOK
<1>10. ASSUME NEW k, HandlerReadsBody(w, k) PROVE TypeOK'
  <2> DEFINE c == conn[w]
             in == buffer[w] \o SubSeq(wire[c], 1, k)
  <2>1. c \in Conns /\ wire[c] \in Seq(Unit) /\ buffer[w] \in Seq(Unit)
    BY <1>10 DEF HandlerReadsBody, Cleanliness, TypeOK
  <2>2. /\ SubSeq(wire[c], k + 1, Len(wire[c])) \in Seq(Unit)
        /\ SubSeq(wire[c], 1, k) \in Seq(Unit)
    BY <1>10, <2>1, CutUnits DEF HandlerReadsBody
  <2>3. in \in Seq(Unit) /\ in # <<>>
    BY <1>10, <2>1, <2>2, ConcatProperties DEF HandlerReadsBody
  <2>4. Tail(in) \in Seq(Unit)
    BY <2>3, HeadTailProperties
  <2>5. wire' \in [Conns -> Seq(Unit)] /\ buffer' \in [Workers -> Seq(Unit)]
    BY <1>10, <2>1, <2>2, <2>4 DEF HandlerReadsBody, TakeIn, TypeOK
  <2>6. QED
    BY <1>10, <2>5 DEF HandlerReadsBody, TypeOK
<1>11. ASSUME NEW close \in BOOLEAN, HandlerResponds(w, close) PROVE TypeOK'
  <2>1. answered' \in [Conns -> Nat]
    BY <1>11 DEF HandlerResponds, Cleanliness, TypeOK
  <2>2. keepAlive' \in [Workers -> BOOLEAN] /\ responded' \in [Workers -> BOOLEAN]
    BY <1>11 DEF HandlerResponds, TypeOK
  <2>3. dispatched' \in [Conns -> Seq(Dispatched)]
    <3>1. conn[w] \in Conns /\ dispatched[conn[w]] \in Seq(Dispatched)
      BY <1>11 DEF HandlerResponds, Cleanliness, TypeOK
    <3>2. MarkClosed(dispatched[conn[w]]) \in Seq(Dispatched)
      BY <3>1, MarkClosedFacts
    <3> QED
      BY <1>11, <3>1, <3>2 DEF HandlerResponds, TypeOK
  <2>4. QED
    BY <1>11, <2>1, <2>2, <2>3 DEF HandlerResponds, TypeOK
<1>12. QED
  BY <1>1, <1>2, <1>3, <1>4, <1>5, <1>6, <1>7, <1>8, <1>9, <1>10, <1>11
     DEF Pool, Read, Handler

-------------------------------------------------------------------------------
(***************************************************************************)
(* The invariant.                                                          *)
(***************************************************************************)

\* The pool starts with every worker idle, unwired or wired to its socket, and clean.
LEMMA InitInvariant == Init => IInv
<1> SUFFICES ASSUME Init PROVE IInv
  OBVIOUS
<1>1. TypeOK
  BY InitType
<1>2. Ownership /\ Wiring /\ Cleanliness
  BY NoneAssumption DEF Init, Ownership, Wiring, Cleanliness
<1>3. QED
  BY <1>1, <1>2 DEF IInv

\* The parts of the invariant that speak of the workers do not mind what the
\* peers and stop() do.
LEMMA WorkersUnchanged ==
    ASSUME IInv, UNCHANGED <<taken, pc, workerVars>>
    PROVE  Ownership' /\ Wiring' /\ Cleanliness'
BY DEF IInv, Ownership, Wiring, Cleanliness, workerVars

\* A session begins or its loop goes round.
LEMMA BeginSessionInvariant ==
    ASSUME IInv, NEW w \in Workers, BeginSession(w), conn'[w] # None,
           w \in TlsWorkers => ssl'[w] = conn'[w] /\ stream'[w] = conn'[w],
           w \notin TlsWorkers => ssl'[w] = None /\ stream'[w] = "sock",
           \A v \in Workers \ {w} : ssl'[v] = ssl[v] /\ stream'[v] = stream[v]
                                    /\ conn'[v] = conn[v] /\ sock'[v] = sock[v]
    PROVE  Wiring' /\ Cleanliness'
<1>1. /\ \A v \in Workers \ {w} : /\ pc'[v] = pc[v] /\ buffer'[v] = buffer[v]
                                  /\ sessionData'[v] = sessionData[v]
      /\ pc'[w] = "reading" /\ buffer'[w] = <<>> /\ sessionData'[w] = {}
      /\ UNCHANGED <<req, routeData>>
  BY DEF BeginSession, ResetParser, IInv, TypeOK
<1>2. Wiring'
  BY <1>1 DEF IInv, Wiring
<1>3. Cleanliness'
  BY <1>1 DEF IInv, Cleanliness
<1>4. QED
  BY <1>2, <1>3

\* A worker goes back to the pool with an empty parser and no session data.
LEMMA ReturnToPoolInvariant ==
    ASSUME IInv, NEW w \in Workers, pc[w] # "idle", ReturnToPool(w),
           buffer'[w] = <<>>, sessionData'[w] = {},
           \A v \in Workers \ {w} : buffer'[v] = buffer[v] /\ sessionData'[v] = sessionData[v],
           UNCHANGED <<stream, req, routeData, taken>>
    PROVE  Ownership' /\ Wiring' /\ Cleanliness'
<1>1. /\ \A v \in Workers \ {w} : /\ pc'[v] = pc[v] /\ conn'[v] = conn[v]
                                  /\ ssl'[v] = ssl[v] /\ sock'[v] = sock[v]
      /\ pc'[w] = "idle" /\ conn'[w] = None /\ ssl'[w] = None /\ sock'[w] = "shut"
  BY DEF ReturnToPool, IInv, TypeOK
<1>2. Ownership'
  BY <1>1 DEF IInv, Ownership
<1>3. Wiring'
  BY <1>1 DEF IInv, Wiring
<1>4. Cleanliness'
  BY <1>1 DEF IInv, Cleanliness
<1>5. QED
  BY <1>2, <1>3, <1>4

\* The loop of do_http_session is left.
LEMMA EndSessionInvariant ==
    ASSUME IInv, NEW w \in Workers, pc[w] \in {"reading", "dispatching"}, EndSession(w),
           UNCHANGED taken
    PROVE  Ownership' /\ Wiring' /\ Cleanliness'
<1>1. /\ buffer'[w] = <<>> /\ sessionData'[w] = {}
      /\ \A v \in Workers \ {w} : buffer'[v] = buffer[v] /\ sessionData'[v] = sessionData[v]
      /\ UNCHANGED <<stream, req, routeData>>
  BY DEF EndSession, ResetParser, IInv, TypeOK
<1>2. CASE w \in TlsWorkers
  <2>1. /\ \A v \in Workers \ {w} : pc'[v] = pc[v]
        /\ pc'[w] = "tls_shutdown"
        /\ UNCHANGED <<conn, sock, ssl>>
    BY <1>2 DEF EndSession, IInv, TypeOK
  <2>2. Ownership'
    BY <2>1 DEF IInv, Ownership
  <2>3. Wiring'
    BY <1>1, <1>2, <2>1 DEF IInv, Wiring
  <2>4. Cleanliness'
    BY <1>1, <2>1 DEF IInv, Cleanliness
  <2>5. QED
    BY <2>2, <2>3, <2>4
<1>3. CASE w \notin TlsWorkers
  BY <1>1, <1>3, ReturnToPoolInvariant DEF EndSession
<1>4. QED
  BY <1>2, <1>3

\* Every step of a worker preserves the parts of the invariant.
LEMMA WorkerInvariant ==
    ASSUME IInv, NEW w \in Workers,
           \/ Pool(w)
           \/ HandshakeDone(w) \/ HandshakeFailed(w) \/ TlsShutdownDone(w)
           \/ Read(w)
           \/ Handler(w)
           \/ \E failed \in BOOLEAN : DispatchDone(w, failed)
    PROVE  Ownership' /\ Wiring' /\ Cleanliness'
<1>t. TypeOK /\ Ownership /\ Wiring /\ Cleanliness
  BY DEF IInv
<1>0. ASSUME NEW c \in Conns, Accept(w, c)
      PROVE  /\ pc[w] = "idle" /\ c \notin taken
             /\ conn'[w] = c /\ sock'[w] = "up" /\ c # None
             /\ \A v \in Workers \ {w} : conn'[v] = conn[v] /\ sock'[v] = sock[v]
             /\ taken' = taken \cup {c} /\ UNCHANGED stream
  BY <1>0, <1>t, NoneAssumption DEF Accept, TypeOK
<1>1. ASSUME NEW c \in Conns, RunPlain(w, c) PROVE Ownership' /\ Wiring' /\ Cleanliness'
  <2>1. Accept(w, c) /\ BeginSession(w) /\ UNCHANGED ssl /\ w \notin TlsWorkers
    BY <1>1 DEF RunPlain
  <2>2. pc'[w] = "reading" /\ \A v \in Workers \ {w} : pc'[v] = pc[v]
    BY <2>1, <1>t DEF BeginSession, TypeOK
  <2>3. Ownership'
    BY <2>1, <2>2, <1>0, <1>t DEF Ownership
  <2>4. ssl[w] = None /\ stream[w] = "sock"
    BY <2>1, <1>t DEF Wiring
  <2>5. QED
    BY <2>1, <2>3, <2>4, <1>0, BeginSessionInvariant
<1>2. ASSUME NEW c \in Conns, RunTls(w, c) PROVE Ownership' /\ Wiring' /\ Cleanliness'
  <2>1. /\ Accept(w, c) /\ w \in TlsWorkers
        /\ pc'[w] = "handshake" /\ ssl'[w] = c
        /\ \A v \in Workers \ {w} : pc'[v] = pc[v] /\ ssl'[v] = ssl[v]
        /\ UNCHANGED <<buffer, req, routeData, sessionData>>
    BY <1>2, <1>t DEF RunTls, TypeOK
  <2>2. Ownership'
    BY <2>1, <1>0, <1>t DEF Ownership
  <2>3. Wiring'
    BY <2>1, <1>0, <1>t DEF Wiring
  <2>4. Cleanliness'
    BY <2>1, <1>0, <1>t DEF Cleanliness
  <2>5. QED
    BY <2>2, <2>3, <2>4
<1>3. ASSUME HandshakeDone(w) PROVE Ownership' /\ Wiring' /\ Cleanliness'
  <2>1. /\ pc[w] = "handshake" /\ BeginSession(w)
        /\ stream'[w] = ssl[w] /\ \A v \in Workers \ {w} : stream'[v] = stream[v]
        /\ UNCHANGED <<taken, conn, sock, ssl>>
    BY <1>3, <1>t DEF HandshakeDone, WireStreams, TypeOK
  <2>2. pc'[w] = "reading" /\ \A v \in Workers \ {w} : pc'[v] = pc[v]
    BY <2>1, <1>t DEF BeginSession, TypeOK
  <2>3. Ownership'
    BY <2>1, <2>2, <1>t DEF Ownership
  <2>4. w \in TlsWorkers /\ ssl[w] = conn[w] /\ conn[w] # None
    BY <2>1, <1>t DEF Wiring, Ownership
  <2>5. QED
    BY <2>1, <2>3, <2>4, BeginSessionInvariant
<1>4. ASSUME HandshakeFailed(w) \/ TlsShutdownDone(w)
      PROVE  Ownership' /\ Wiring' /\ Cleanliness'
  <2>1. /\ pc[w] \in {"handshake", "tls_shutdown"} /\ ReturnToPool(w)
        /\ UNCHANGED <<taken, stream, buffer, req, routeData, sessionData>>
    BY <1>4 DEF HandshakeFailed, TlsShutdownDone, TlsShutdownReturns
  <2>2. buffer[w] = <<>> /\ sessionData[w] = {}
    BY <2>1, <1>t DEF Cleanliness
  <2>3. QED
    BY <2>1, <2>2, ReturnToPoolInvariant
<1>5. ASSUME NEW k, ReadRequest(w, k) PROVE Ownership' /\ Wiring' /\ Cleanliness'
  <2>1. /\ ReadHeader(w, k) /\ pc[w] = "reading"
        /\ UNCHANGED <<sessionData, taken, conn, sock, ssl, stream>>
    BY <1>5 DEF ReadRequest, ReadHeader
  <2>2. /\ pc'[w] = "dispatching" /\ routeData'[w] = {}
        /\ req'[w] = Head(wire[conn[w]])
        /\ \A v \in Workers \ {w} : /\ pc'[v] = pc[v] /\ routeData'[v] = routeData[v]
                                    /\ req'[v] = req[v] /\ buffer'[v] = buffer[v]
    BY <1>5, <1>t DEF ReadRequest, ReadHeader, TypeOK
  <2>3. conn[w] \in Conns /\ Head(wire[conn[w]]) \in HeadUnit
    BY <2>1, <1>t, ReadHeaderType
  <2>4. Ownership'
    BY <2>1, <2>2, <1>t DEF Ownership
  <2>5. Wiring'
    BY <2>1, <2>2, <1>t DEF Wiring
  <2>6. Cleanliness'
    BY <2>1, <2>2, <2>3, <1>t DEF Cleanliness
  <2>7. QED
    BY <2>4, <2>5, <2>6
<1>6. ASSUME NEW k, ReadBadTarget(w, k) PROVE Ownership' /\ Wiring' /\ Cleanliness'
  <2>1. pc[w] = "reading" /\ UNCHANGED <<taken, conn, sock, ssl, stream>>
    BY <1>6 DEF ReadBadTarget, ReadHeader
  <2>2. /\ pc'[w] = "raised" /\ buffer'[w] = <<>> /\ sessionData'[w] = {}
        /\ \A v \in Workers \ {w} : /\ pc'[v] = pc[v] /\ routeData'[v] = routeData[v]
                                    /\ req'[v] = req[v] /\ buffer'[v] = buffer[v]
                                    /\ sessionData'[v] = sessionData[v]
    BY <1>6, <1>t DEF ReadBadTarget, ReadHeader, ResetParser, TypeOK
  <2>3. Ownership'
    BY <2>1, <2>2, <1>t DEF Ownership
  <2>4. Wiring'
    BY <2>1, <2>2, <1>t DEF Wiring
  <2>5. Cleanliness'
    BY <2>1, <2>2, <1>t DEF Cleanliness
  <2>6. QED
    BY <2>3, <2>4, <2>5
<1>7. ASSUME ReadError(w) PROVE Ownership' /\ Wiring' /\ Cleanliness'
  BY <1>7, EndSessionInvariant DEF ReadError
<1>8. ASSUME NEW failed \in BOOLEAN, DispatchDone(w, failed)
      PROVE  Ownership' /\ Wiring' /\ Cleanliness'
  <2>1. pc[w] = "dispatching" /\ UNCHANGED taken
    BY <1>8 DEF DispatchDone
  <2>2. CASE IsOver(w, failed)
    BY <1>8, <2>1, <2>2, EndSessionInvariant DEF DispatchDone
  <2>3. CASE ~ IsOver(w, failed)
    <3>1. BeginSession(w) /\ UNCHANGED <<conn, sock, ssl, stream>>
      BY <1>8, <2>3 DEF DispatchDone
    <3>2. pc'[w] = "reading" /\ \A v \in Workers \ {w} : pc'[v] = pc[v]
      BY <3>1, <1>t DEF BeginSession, TypeOK
    <3>3. Ownership'
      BY <2>1, <3>1, <3>2, <1>t DEF Ownership
    <3>4. /\ conn[w] # None
          /\ w \in TlsWorkers => ssl[w] = conn[w] /\ stream[w] = conn[w]
          /\ w \notin TlsWorkers => ssl[w] = None /\ stream[w] = "sock"
      BY <2>1, <1>t DEF Wiring, Ownership
    <3>5. QED
      BY <3>1, <3>3, <3>4, BeginSessionInvariant
  <2>4. QED
    BY <2>2, <2>3
<1>9. ASSUME Handler(w) PROVE Ownership' /\ Wiring' /\ Cleanliness'
  <2>1. /\ pc[w] = "dispatching"
        /\ UNCHANGED <<taken, pc, conn, sock, ssl, stream, req>>
        /\ \A v \in Workers \ {w} : /\ routeData'[v] = routeData[v] /\ buffer'[v] = buffer[v]
                                    /\ sessionData'[v] = sessionData[v]
        /\ routeData'[w] \cup sessionData'[w] \subseteq
              routeData[w] \cup sessionData[w] \cup {<<conn[w], req[w].id>>}
    <3>1. CASE HandlerStoresRouteData(w)
      BY <3>1, <1>t DEF HandlerStoresRouteData, TypeOK
    <3>2. CASE HandlerStoresSessionData(w)
      BY <3>2, <1>t DEF HandlerStoresSessionData, TypeOK
    <3>3. CASE \E k \in 0..(2 * MaxRequests) : HandlerReadsBody(w, k)
      BY <3>3, <1>t DEF HandlerReadsBody, TypeOK
    <3>4. CASE \E close \in BOOLEAN : HandlerResponds(w, close)
      BY <3>4, <1>t DEF HandlerResponds, TypeOK
    <3>5. QED
      BY <1>9, <3>1, <3>2, <3>3, <3>4 DEF Handler
  <2>2. Ownership' /\ Wiring'
    BY <2>1, <1>t DEF Ownership, Wiring
  <2>3. Cleanliness'
    BY <2>1, <1>t DEF Cleanliness
  <2>4. QED
    BY <2>2, <2>3
<1>10. QED
  BY <1>1, <1>2, <1>3, <1>4, <1>5, <1>6, <1>7, <1>8, <1>9 DEF Pool, Read

\* Every step preserves the invariant.
LEMMA NextInvariant == IInv /\ [Next]_vars => IInv'
<1> SUFFICES ASSUME IInv, [Next]_vars PROVE IInv'
  OBVIOUS
<1>t. TypeOK /\ Ownership /\ Wiring /\ Cleanliness
  BY DEF IInv
<1>1. ASSUME NEW c \in Conns, Peer(c) PROVE IInv'
  <2>1. UNCHANGED <<taken, pc, workerVars>>
    BY <1>1 DEF Peer, Connect, Send, Disconnect
  <2>2. QED
    BY <1>1, <1>t, <2>1, PeerType, WorkersUnchanged DEF IInv
<1>2. ASSUME NEW w \in Workers,
             \/ Pool(w)
             \/ HandshakeDone(w) \/ HandshakeFailed(w) \/ TlsShutdownDone(w)
             \/ Read(w)
             \/ Handler(w)
             \/ \E failed \in BOOLEAN : DispatchDone(w, failed)
      PROVE  IInv'
  <2>1. TypeOK'
    BY <1>2, <1>t, WorkerType
  <2>2. Ownership' /\ Wiring' /\ Cleanliness'
    BY <1>2, WorkerInvariant
  <2>3. QED
    BY <2>1, <2>2 DEF IInv
<1>3. CASE Stop
  <2>1. UNCHANGED <<taken, pc, workerVars>>
    BY <1>3 DEF Stop
  <2>2. TypeOK'
    BY <1>3, <1>t DEF Stop, netVars, workerVars, TypeOK
  <2>3. QED
    BY <2>1, <2>2, WorkersUnchanged DEF IInv
<1>4. CASE UNCHANGED vars
  <2>1. UNCHANGED <<taken, pc, workerVars>>
    BY <1>4 DEF vars
  <2>2. TypeOK'
    BY <1>4, <1>t DEF vars, netVars, workerVars, TypeOK
  <2>3. QED
    BY <2>1, <2>2, WorkersUnchanged DEF IInv
<1>5. QED
  BY <1>1, <1>2, <1>3, <1>4 DEF Next

\* The invariant holds in every reachable state.
THEOREM Invariance == Spec => []IInv
BY InitInvariant, NextInvariant, PTL DEF Spec

\* Every variable keeps its type.
THEOREM TypeCorrect == Spec => []TypeOK
BY Invariance, PTL DEF IInv

\* A handler sees no data of another request or connection.
THEOREM RequestStateFresh == Spec => []FreshRequestState
<1>1. IInv => FreshRequestState
  BY DEF IInv, Cleanliness, FreshRequestState
<1>2. QED
  BY <1>1, Invariance, PTL

\* No session reads from or writes to a TLS stream that has been destroyed.
THEOREM StreamsLive == Spec => []StreamIsLive
<1>1. IInv => StreamIsLive
  BY DEF IInv, Wiring, StreamIsLive
<1>2. QED
  BY <1>1, Invariance, PTL

\* Workers keep nothing of a session, by whichever way it ended.
THEOREM SessionsEndClean == Spec => []EndsClean
<1>1. IInv => EndsClean
  BY DEF IInv, Ownership, Wiring, Cleanliness, EndsClean
<1>2. QED
  BY <1>1, Invariance, PTL

-------------------------------------------------------------------------------
(***************************************************************************)
(* The order of requests.                                                  *)
(***************************************************************************)

\* Of one connection: the requests dispatched, the units on the wire and the number
\* of requests sent.  What is on the wire is newer than what was dispatched.
InOrder(requests, units, n) ==
    /\ \A i \in 1..Len(requests) : requests[i].id <= n
    /\ \A j \in 1..Len(units) : units[j].id <= n
    /\ \A i, j \in 1..Len(requests) : i < j => requests[i].id < requests[j].id
    /\ \A i, j \in 1..Len(units) : i < j /\ units[j].part = "head" => units[i].id < units[j].id
    /\ \A i \in 1..Len(requests), j \in 1..Len(units) :
        units[j].part = "head" => requests[i].id < units[j].id

Ordered == \A c \in Conns : InOrder(dispatched[c], wire[c], sent[c])

\* The ids of units and requests are numbers.
LEMMA IdsAreNumbers ==
    /\ \A s \in Seq(Unit) : Len(s) \in Nat /\ \A i \in 1..Len(s) : s[i] \in Unit /\ s[i].id \in Nat
    /\ \A s \in Seq(Dispatched) : Len(s) \in Nat /\ \A i \in 1..Len(s) : s[i].id \in Nat
<1>1. \A x \in Unit : x.id \in Nat
  BY RequestsAssumption DEF Unit, HeadUnit, BodyUnit
<1>2. \A x \in Dispatched : x.id \in Nat
  BY RequestsAssumption DEF Dispatched
<1> QED
  BY <1>1, <1>2, ElementOfSeq, LenProperties

\* A new request goes to the end of the wire.
LEMMA SendInOrder ==
    ASSUME NEW d \in Seq(Dispatched), NEW u \in Seq(Unit), NEW n \in Nat, InOrder(d, u, n),
           NEW new \in Seq(Unit), Len(new) \in 1..2,
           \A i \in 1..Len(new) : new[i].id = n + 1,
           \A i \in 1..Len(new) : new[i].part = "head" => i = 1
    PROVE  InOrder(d, u \o new, n + 1)
<1> DEFINE v == u \o new
<1>1. /\ Len(v) = Len(u) + Len(new) /\ Len(u) \in Nat /\ Len(d) \in Nat /\ Len(new) \in Nat
      /\ \A i \in 1..Len(v) : v[i] = IF i <= Len(u) THEN u[i] ELSE new[i - Len(u)]
  BY ConcatProperties, LenProperties
<1>2. /\ \A i \in 1..Len(u) : u[i].id \in Nat /\ u[i].id <= n
      /\ \A i \in 1..Len(d) : d[i].id \in Nat /\ d[i].id <= n
  BY IdsAreNumbers DEF InOrder
<1>3. ASSUME NEW i \in 1..Len(v)
      PROVE  \/ i \in 1..Len(u) /\ v[i] = u[i]
             \/ /\ i > Len(u) /\ v[i].id = n + 1
                /\ v[i].part = "head" => i = Len(u) + 1
  <2>1. CASE i <= Len(u)
    BY <1>1, <2>1
  <2>2. CASE i > Len(u)
    <3>1. i - Len(u) \in 1..Len(new) /\ v[i] = new[i - Len(u)]
      BY <1>1, <2>2
    <3> QED
      BY <1>1, <2>2, <3>1
  <2> QED
    BY <1>1, <2>1, <2>2
<1> HIDE DEF v
<1>4. ASSUME NEW i \in 1..Len(v), NEW j \in 1..Len(v), i < j, v[j].part = "head"
      PROVE  v[i].id < v[j].id
  <2>1. CASE j \in 1..Len(u) /\ v[j] = u[j]
    BY <1>1, <1>2, <1>3, <1>4, <2>1 DEF InOrder
  <2>2. CASE j = Len(u) + 1 /\ v[j].id = n + 1
    BY <1>1, <1>2, <1>3, <1>4, <2>2
  <2> QED
    BY <1>3, <1>4, <2>1, <2>2
<1>5. ASSUME NEW i \in 1..Len(d), NEW j \in 1..Len(v), v[j].part = "head"
      PROVE  d[i].id < v[j].id
  BY <1>2, <1>3, <1>5 DEF InOrder
<1>6. /\ \A j \in 1..Len(v) : v[j].id <= n + 1
      /\ \A i \in 1..Len(d) : d[i].id <= n + 1
  <2>1. ASSUME NEW j \in 1..Len(v) PROVE v[j].id <= n + 1
    BY <1>2, <1>3
  <2>2. ASSUME NEW i \in 1..Len(d) PROVE d[i].id <= n + 1
    BY <1>2
  <2> QED
    BY <2>1, <2>2
<1>7. \A i, j \in 1..Len(d) : i < j => d[i].id < d[j].id
  BY DEF InOrder
<1> QED
  BY <1>4, <1>5, <1>6, <1>7 DEF InOrder, v

\* Units are taken off the wire.
LEMMA TakeInOrder ==
    ASSUME NEW d \in Seq(Dispatched), NEW u \in Seq(Unit), NEW n \in Nat, InOrder(d, u, n),
           NEW k \in 0..Len(u)
    PROVE  InOrder(d, SubSeq(u, k + 1, Len(u)), n)
<1> DEFINE v == SubSeq(u, k + 1, Len(u))
<1>1. Len(u) \in Nat /\ \A i \in 1..Len(u) : u[i] \in Unit
  BY IdsAreNumbers
<1>2. Len(v) = Len(u) - k /\ \A i \in 1..Len(v) : v[i] = u[k + i]
  BY <1>1, SubSeqProperties
<1> HIDE DEF v
<1>3. \A i \in 1..Len(v) : k + i \in 1..Len(u)
  BY <1>1, <1>2
<1>4. \A i, j \in 1..Len(v) : i < j => k + i < k + j
  BY <1>1, <1>2
<1> QED
  BY <1>2, <1>3, <1>4 DEF InOrder, v

\* The header at the front is dispatched.
LEMMA ReadInOrder ==
    ASSUME NEW d \in Seq(Dispatched), NEW u \in Seq(Unit), NEW n \in Nat, InOrder(d, u, n),
           NEW k \in 1..Len(u), u # <<>>, Head(u).part = "head"
    PROVE  InOrder(Append(d, Head(u)), SubSeq(u, k + 1, Len(u)), n)
<1> DEFINE e == Append(d, Head(u))
           v == SubSeq(u, k + 1, Len(u))
<1>1. Head(u) \in Dispatched /\ Head(u) = u[1] /\ 1 \in 1..Len(u) /\ Len(u) \in Nat
  BY HeaderUnit, IdsAreNumbers
<1>2. /\ Len(e) = Len(d) + 1 /\ Len(d) \in Nat /\ e[Len(d) + 1] = u[1]
      /\ \A i \in 1..Len(d) : e[i] = d[i]
  BY <1>1, AppendProperties, LenProperties
<1>3. /\ Len(v) = Len(u) - k
      /\ \A i \in 1..Len(v) : v[i] = u[k + i] /\ k + i \in 1..Len(u) /\ 1 < k + i
  BY <1>1, IdsAreNumbers, SubSeqProperties
<1>4. InOrder(d, v, n)
  BY <1>1, TakeInOrder
<1> HIDE DEF e, v
<1>5. \A i \in 1..Len(e) : i \in 1..Len(d) \/ i = Len(d) + 1
  BY <1>2
<1>6. \A i \in 1..Len(e) : e[i].id <= n
  BY <1>1, <1>2, <1>5 DEF InOrder
<1>7. \A i, j \in 1..Len(e) : i < j => e[i].id < e[j].id
  <2> SUFFICES ASSUME NEW i \in 1..Len(e), NEW j \in 1..Len(e), i < j PROVE e[i].id < e[j].id
    OBVIOUS
  <2>1. i \in 1..Len(d) /\ e[i] = d[i]
    BY <1>2
  <2>2. CASE j \in 1..Len(d)
    BY <1>2, <2>1, <2>2 DEF InOrder
  <2>3. CASE j = Len(d) + 1
    BY <1>1, <1>2, <2>1, <2>3 DEF InOrder
  <2> QED
    BY <1>5, <2>2, <2>3
<1>8. \A i \in 1..Len(e), j \in 1..Len(v) : v[j].part = "head" => e[i].id < v[j].id
  <2> SUFFICES ASSUME NEW i \in 1..Len(e), NEW j \in 1..Len(v), v[j].part = "head"
               PROVE  e[i].id < v[j].id
    OBVIOUS
  <2>1. CASE i \in 1..Len(d)
    BY <1>2, <1>4, <2>1 DEF InOrder
  <2>2. CASE i = Len(d) + 1
    BY <1>1, <1>2, <1>3, <2>2 DEF InOrder
  <2> QED
    BY <1>5, <2>1, <2>2
<1> QED
  BY <1>4, <1>6, <1>7, <1>8 DEF InOrder, e, v

\* What a step does to the wire and to the requests dispatched.
LEMMA OrderInvariant ==
    ASSUME IInv, Ordered, [Next]_vars
    PROVE  Ordered'
<1>t. /\ \A c \in Conns : dispatched[c] \in Seq(Dispatched) /\ wire[c] \in Seq(Unit)
                          /\ sent[c] \in Nat
      /\ \A c \in Conns : InOrder(dispatched[c], wire[c], sent[c])
      /\ TypeOK /\ Ownership
  BY RequestsAssumption DEF IInv, TypeOK, Ordered
<1>1. ASSUME NEW c \in Conns, NEW form \in Requests, Send(c, form) PROVE Ordered'
  <2> DEFINE head == [part |-> "head", id |-> sent[c] + 1, form |-> form]
             body == [part |-> "body", id |-> sent[c] + 1]
             new == <<head>> \o (IF form.body THEN <<body>> ELSE <<>>)
  <2>1. sent[c] + 1 \in 1..MaxRequests
    BY <1>1, RequestsAssumption DEF Send, IInv, TypeOK
  <2>2. head \in Unit /\ body \in Unit
    BY <2>1 DEF Unit, HeadUnit, BodyUnit
  <2>3. /\ new \in Seq(Unit) /\ Len(new) \in 1..2
        /\ \A i \in 1..Len(new) : new[i].id = sent[c] + 1 /\ (new[i].part = "head" => i = 1)
    <3>1. CASE form.body
      <4>1. <<head>> \in Seq(Unit) /\ <<body>> \in Seq(Unit) /\ new = <<head>> \o <<body>>
        BY <2>2, <3>1
      <4>2. Len(<<head>>) = 1 /\ Len(<<body>>) = 1
        OBVIOUS
      <4>3. new \in Seq(Unit) /\ Len(new) = 2 /\ new[1] = head /\ new[2] = body
        BY <4>1, <4>2, ConcatProperties
      <4> HIDE DEF new
      <4> QED
        BY <2>2, <4>3
    <3>2. CASE ~ form.body
      <4>1. new = <<head>>
        BY <3>2
      <4> HIDE DEF new
      <4> QED
        BY <2>2, <4>1
    <3> QED
      BY <3>1, <3>2
  <2>4. /\ wire' = [wire EXCEPT ![c] = wire[c] \o new]
        /\ sent' = [sent EXCEPT ![c] = sent[c] + 1]
        /\ UNCHANGED dispatched
    <3>1. \A s \in Seq(Unit) : (s \o <<head>>) \o (IF form.body THEN <<body>> ELSE <<>>)
                                = s \o new
      <4>1. <<head>> \in Seq(Unit) /\ (IF form.body THEN <<body>> ELSE <<>>) \in Seq(Unit)
        BY <2>2
      <4> QED
        BY <4>1, ConcatAssociative
    <3> QED
      BY <1>1, <1>t, <3>1 DEF Send
  <2> HIDE DEF new
  <2>5. InOrder(dispatched[c], wire[c] \o new, sent[c] + 1)
    BY <1>t, <2>3, SendInOrder
  <2> QED
    BY <1>t, <2>4, <2>5 DEF Ordered, TypeOK
<1>2. ASSUME NEW w \in Workers, NEW k, ReadHeader(w, k)
      PROVE  /\ conn[w] \in Conns /\ k \in 1..Len(wire[conn[w]])
             /\ wire[conn[w]] # <<>> /\ Head(wire[conn[w]]).part = "head"
             /\ wire' = [wire EXCEPT ![conn[w]] =
                            SubSeq(wire[conn[w]], k + 1, Len(wire[conn[w]]))]
             /\ UNCHANGED sent
  BY <1>2, <1>t, BusyHasConnection DEF ReadHeader, TakeIn
<1>3. ASSUME NEW w \in Workers, NEW k, ReadRequest(w, k) PROVE Ordered'
  <2> DEFINE c == conn[w]
  <2>1. InOrder(Append(dispatched[c], Head(wire[c])), SubSeq(wire[c], k + 1, Len(wire[c])),
                sent[c])
    BY <1>2, <1>3, <1>t, ReadInOrder DEF ReadRequest
  <2>2. dispatched' = [dispatched EXCEPT ![c] = Append(dispatched[c], Head(wire[c]))]
    BY <1>3 DEF ReadRequest
  <2>3. /\ c \in Conns /\ UNCHANGED sent
        /\ wire' = [wire EXCEPT ![c] = SubSeq(wire[c], k + 1, Len(wire[c]))]
    BY <1>2, <1>3 DEF ReadRequest
  <2> HIDE DEF c
  <2>4. ASSUME NEW e \in Conns PROVE InOrder(dispatched'[e], wire'[e], sent'[e])
    <3>1. CASE e = c
      BY <1>t, <2>1, <2>2, <2>3, <3>1 DEF TypeOK
    <3>2. CASE e # c
      BY <1>t, <2>2, <2>3, <3>2 DEF TypeOK
    <3> QED
      BY <3>1, <3>2
  <2> QED
    BY <2>4 DEF Ordered
<1>4. ASSUME NEW c \in Conns, NEW k \in 0..Len(wire[c]), TakeIn(c, k),
             UNCHANGED <<sent, dispatched>>
      PROVE  Ordered'
  <2>1. InOrder(dispatched[c], SubSeq(wire[c], k + 1, Len(wire[c])), sent[c])
    BY <1>t, TakeInOrder
  <2> QED
    BY <1>4, <1>t, <2>1 DEF TakeIn, Ordered, TypeOK
<1>5. ASSUME NEW w \in Workers, NEW k, ReadBadTarget(w, k) PROVE Ordered'
  <2>1. conn[w] \in Conns /\ k \in 0..Len(wire[conn[w]])
    BY <1>2, <1>5, <1>t, LenProperties DEF ReadBadTarget
  <2> QED
    BY <1>4, <1>5, <2>1 DEF ReadBadTarget, ReadHeader
<1>6. ASSUME NEW w \in Workers, NEW k, HandlerReadsBody(w, k) PROVE Ordered'
  BY <1>4, <1>6, <1>t, BusyHasConnection DEF HandlerReadsBody
<1>7. CASE UNCHANGED <<wire, sent, dispatched>>
  BY <1>7 DEF Ordered
<1>a. ASSUME NEW w \in Workers, NEW close \in BOOLEAN, HandlerResponds(w, close) PROVE Ordered'
  <2>1. conn[w] \in Conns
    BY <1>a, <1>t, BusyHasConnection DEF HandlerResponds
  <2>2. InOrder(MarkClosed(dispatched[conn[w]]), wire[conn[w]], sent[conn[w]])
    <3> DEFINE c == conn[w]
               e == MarkClosed(dispatched[c])
    <3>1. /\ Len(e) = Len(dispatched[c]) /\ Len(dispatched[c]) \in Nat
          /\ \A i \in 1..Len(dispatched[c]) : e[i].id = dispatched[c][i].id
      BY <1>t, <2>1, MarkClosedFacts
    <3>2. InOrder(dispatched[c], wire[c], sent[c])
      BY <1>t, <2>1
    <3> HIDE DEF c, e
    <3>3. InOrder(e, wire[c], sent[c])
      BY <3>1, <3>2 DEF InOrder
    <3> QED
      BY <3>3 DEF c, e
  <2> QED
    BY <1>a, <1>t, <2>1, <2>2 DEF HandlerResponds, Ordered, TypeOK
<1>8. ASSUME NEW c \in Conns, Peer(c) PROVE Ordered'
  BY <1>1, <1>7, <1>8 DEF Peer, Connect, Disconnect
<1>9. ASSUME NEW w \in Workers,
             \/ Pool(w)
             \/ HandshakeDone(w) \/ HandshakeFailed(w) \/ TlsShutdownDone(w)
             \/ \E failed \in BOOLEAN : DispatchDone(w, failed)
      PROVE  Ordered'
  BY <1>7, <1>9 DEF Pool, RunPlain, RunTls, Accept, HandshakeDone, HandshakeFailed,
                    TlsShutdownDone, DispatchDone, netVars
<1>10. ASSUME NEW w \in Workers, Read(w) PROVE Ordered'
  BY <1>3, <1>5, <1>7, <1>10 DEF Read, ReadError, netVars
<1>11. ASSUME NEW w \in Workers, Handler(w) PROVE Ordered'
  BY <1>6, <1>7, <1>a, <1>11 DEF Handler, HandlerStoresRouteData, HandlerStoresSessionData,
                                 netVars
<1>12. CASE Stop \/ UNCHANGED vars
  BY <1>7, <1>12 DEF Stop, vars, netVars
<1> QED
  BY <1>8, <1>9, <1>10, <1>11, <1>12 DEF Next

\* The router gets the requests of a connection in the order they were sent, none of
\* them twice: for any splitting of the bytes into reads, any bodies left unread and
\* any number of workers.
THEOREM RequestsOrdered == Spec => []RequestsInOrder
<1>1. Init => Ordered
  BY DEF Init, Ordered, InOrder
<1>2. Ordered => RequestsInOrder
  BY DEF Ordered, InOrder, RequestsInOrder
<1>3. IInv /\ Ordered /\ [Next]_vars => Ordered'
  BY OrderInvariant
<1> QED
  BY <1>1, <1>2, <1>3, Invariance, PTL DEF Spec

\* The requests dispatched so far on a connection that may see another one all asked for
\* it to be kept.
AllKeep(requests) == \A i \in 1..Len(requests) : requests[i].form.keep

Closing ==
    /\ \A c \in Conns \ taken : dispatched[c] = <<>>
    /\ \A w \in Workers :
        /\ pc[w] = "handshake" => dispatched[conn[w]] = <<>>
        /\ pc[w] = "reading" => AllKeep(dispatched[conn[w]])
        /\ pc[w] = "dispatching" /\ keepAlive[w] => AllKeep(dispatched[conn[w]])
    /\ CloseIsLast

\* A worker moves on without a request being dispatched.
LEMMA MoveClosing ==
    ASSUME IInv, Closing, NEW w \in Workers, UNCHANGED dispatched, taken \subseteq taken',
           \A v \in Workers \ {w} : pc'[v] = pc[v] /\ conn'[v] = conn[v]
                                    /\ keepAlive'[v] = keepAlive[v],
           pc'[w] = "handshake" => dispatched[conn'[w]] = <<>>,
           pc'[w] = "reading" => AllKeep(dispatched[conn'[w]]),
           pc'[w] = "dispatching" /\ keepAlive'[w] => AllKeep(dispatched[conn'[w]])
    PROVE  Closing'
<1>1. \A c \in Conns \ taken' : dispatched'[c] = <<>>
  BY DEF Closing
<1>2. CloseIsLast'
  BY DEF Closing, CloseIsLast
<1> QED
  BY <1>1, <1>2 DEF Closing

\* The end of do_http_session dispatches nothing.
LEMMA EndClosing ==
    ASSUME IInv, NEW w \in Workers, EndSession(w)
    PROVE  /\ pc'[w] \in {"idle", "tls_shutdown"} /\ UNCHANGED keepAlive
           /\ \A v \in Workers \ {w} : pc'[v] = pc[v] /\ conn'[v] = conn[v]
<1>1. CASE w \in TlsWorkers
  BY <1>1 DEF EndSession, IInv, TypeOK
<1>2. CASE w \notin TlsWorkers
  BY <1>2 DEF EndSession, ReturnToPool, IInv, TypeOK
<1> QED
  BY <1>1, <1>2

\* A request is dispatched only behind requests that keep the connection.
LEMMA DispatchClosing ==
    ASSUME IInv, Closing, NEW w \in Workers, NEW k, ReadRequest(w, k)
    PROVE  Closing'
<1> DEFINE c == conn[w]
           head == Head(wire[c])
<1>1. ReadHeader(w, k) /\ pc[w] = "reading"
  BY DEF ReadRequest, ReadHeader
<1>2. c \in Conns /\ c \in taken /\ head \in HeadUnit
  <2>1. c \in Conns /\ head \in HeadUnit
    BY <1>1, ReadHeaderType DEF IInv
  <2> QED
    BY <2>1, NoneAssumption DEF IInv, Ownership
<1>3. /\ dispatched' = [dispatched EXCEPT ![c] = Append(dispatched[c], head)]
      /\ pc' = [pc EXCEPT ![w] = "dispatching"]
      /\ keepAlive' = [keepAlive EXCEPT ![w] = head.form.keep]
      /\ UNCHANGED <<conn, taken>>
  BY <1>1 DEF ReadRequest, ReadHeader
<1>4. \A v \in Workers \ {w} : conn[v] # c
  BY <1>2, NoneAssumption DEF IInv, Ownership
<1>5. dispatched[c] \in Seq(Dispatched) /\ AllKeep(dispatched[c])
  BY <1>1, <1>2 DEF IInv, TypeOK, Closing
<1> HIDE DEF head, c
<1>6. /\ Len(dispatched'[c]) = Len(dispatched[c]) + 1 /\ Len(dispatched[c]) \in Nat
      /\ \A i \in 1..Len(dispatched[c]) : dispatched'[c][i] = dispatched[c][i]
      /\ dispatched'[c][Len(dispatched[c]) + 1] = head
      /\ \A d \in Conns \ {c} : dispatched'[d] = dispatched[d]
  <2>1. dispatched'[c] = Append(dispatched[c], head)
    BY <1>2, <1>3 DEF IInv, TypeOK
  <2>2. \A d \in Conns \ {c} : dispatched'[d] = dispatched[d]
    BY <1>2, <1>3 DEF IInv, TypeOK
  <2> QED
    BY <1>2, <1>5, <2>1, <2>2, AppendProperties, LenProperties
<1>7. \A d \in Conns \ taken' : dispatched'[d] = <<>>
  BY <1>2, <1>3, <1>6 DEF Closing
<1>8. CloseIsLast'
  <2> SUFFICES ASSUME NEW d \in Conns, NEW i \in 1..(Len(dispatched'[d]) - 1)
               PROVE  dispatched'[d][i].form.keep
    BY DEF CloseIsLast
  <2>1. CASE d = c
    BY <1>5, <1>6, <2>1 DEF AllKeep
  <2>2. CASE d # c
    BY <1>6, <2>2 DEF Closing, CloseIsLast
  <2> QED
    BY <2>1, <2>2
<1>9. ASSUME NEW v \in Workers
      PROVE  /\ pc'[v] = "handshake" => dispatched'[conn'[v]] = <<>>
             /\ pc'[v] = "reading" => AllKeep(dispatched'[conn'[v]])
             /\ pc'[v] = "dispatching" /\ keepAlive'[v] => AllKeep(dispatched'[conn'[v]])
  <2>1. CASE v = w
    <3>1. pc'[v] = "dispatching" /\ (keepAlive'[v] => head.form.keep) /\ conn'[v] = c
      BY <1>3, <2>1 DEF IInv, TypeOK, c
    <3>2. ASSUME head.form.keep PROVE AllKeep(dispatched'[c])
      BY <1>5, <1>6, <3>2 DEF AllKeep
    <3> QED
      BY <3>1, <3>2
  <2>2. CASE v # w
    <3>1. pc'[v] = pc[v] /\ keepAlive'[v] = keepAlive[v] /\ conn'[v] = conn[v] /\ conn[v] # c
      BY <1>3, <1>4, <2>2 DEF IInv, TypeOK
    <3>2. pc[v] # "idle" => conn[v] \in Conns
      BY BusyHasConnection DEF IInv
    <3> QED
      BY <1>6, <3>1, <3>2 DEF Closing
  <2> QED
    BY <2>1, <2>2
<1> QED
  BY <1>7, <1>8, <1>9 DEF Closing

\* Every step keeps Closing.
LEMMA ClosingInvariant ==
    ASSUME IInv, Closing, [Next]_vars
    PROVE  Closing'
<1>1. ASSUME NEW w \in Workers, NEW c \in Conns, RunPlain(w, c) \/ RunTls(w, c) PROVE Closing'
  <2>1. dispatched[c] = <<>> /\ UNCHANGED dispatched /\ taken \subseteq taken'
    BY <1>1 DEF RunPlain, RunTls, Accept, Closing
  <2>2. conn' = [conn EXCEPT ![w] = c] /\ UNCHANGED keepAlive
    BY <1>1 DEF RunPlain, RunTls, Accept, BeginSession
  <2>3. \/ pc' = [pc EXCEPT ![w] = "reading"]
        \/ pc' = [pc EXCEPT ![w] = "handshake"]
    BY <1>1 DEF RunPlain, RunTls, BeginSession
  <2>4. AllKeep(dispatched[c])
    BY <2>1 DEF AllKeep
  <2>5. /\ conn'[w] = c /\ pc'[w] \in {"reading", "handshake"}
        /\ \A v \in Workers \ {w} : pc'[v] = pc[v] /\ conn'[v] = conn[v]
                                    /\ keepAlive'[v] = keepAlive[v]
    BY <2>2, <2>3 DEF IInv, TypeOK
  <2> QED
    BY <2>1, <2>4, <2>5, MoveClosing
<1>2. ASSUME NEW w \in Workers, HandshakeDone(w) PROVE Closing'
  <2>1. /\ pc[w] = "handshake" /\ pc' = [pc EXCEPT ![w] = "reading"]
        /\ UNCHANGED <<dispatched, taken, conn, keepAlive>>
    BY <1>2 DEF HandshakeDone, BeginSession
  <2>2. AllKeep(dispatched[conn[w]])
    BY <2>1 DEF Closing, AllKeep
  <2>3. pc'[w] = "reading" /\ \A v \in Workers \ {w} : pc'[v] = pc[v]
    BY <2>1 DEF IInv, TypeOK
  <2> QED
    BY <2>1, <2>2, <2>3, MoveClosing
<1>3. ASSUME NEW w \in Workers, HandshakeFailed(w) \/ TlsShutdownDone(w) PROVE Closing'
  <2>1. ReturnToPool(w) /\ UNCHANGED <<dispatched, taken, keepAlive>>
    BY <1>3 DEF HandshakeFailed, TlsShutdownDone
  <2>2. pc'[w] = "idle" /\ \A v \in Workers \ {w} : pc'[v] = pc[v] /\ conn'[v] = conn[v]
    BY <2>1 DEF ReturnToPool, IInv, TypeOK
  <2> QED
    BY <2>1, <2>2, MoveClosing
<1>4. ASSUME NEW w \in Workers, EndSession(w), UNCHANGED <<dispatched, taken>> PROVE Closing'
  BY <1>4, EndClosing, MoveClosing
<1>5. ASSUME NEW w \in Workers, NEW k, ReadBadTarget(w, k) PROVE Closing'
  <2>1. /\ pc' = [pc EXCEPT ![w] = "raised"] /\ UNCHANGED <<conn, dispatched, taken>>
        /\ \A v \in Workers \ {w} : keepAlive'[v] = keepAlive[v]
    BY <1>5 DEF ReadBadTarget, ReadHeader, IInv, TypeOK
  <2>2. pc'[w] = "raised" /\ \A v \in Workers \ {w} : pc'[v] = pc[v]
    BY <2>1 DEF IInv, TypeOK
  <2> QED
    BY <2>1, <2>2, MoveClosing
<1>6. ASSUME NEW w \in Workers, NEW failed \in BOOLEAN, DispatchDone(w, failed) PROVE Closing'
  <2>1. CASE IsOver(w, failed)
    BY <1>4, <1>6, <2>1 DEF DispatchDone
  <2>2. CASE ~ IsOver(w, failed)
    <3>1. /\ pc[w] = "dispatching" /\ keepAlive[w] /\ pc' = [pc EXCEPT ![w] = "reading"]
          /\ UNCHANGED <<dispatched, taken, conn, keepAlive>>
      BY <1>6, <2>2 DEF DispatchDone, BeginSession, IsOver
    <3>2. AllKeep(dispatched[conn[w]])
      BY <3>1 DEF Closing
    <3>3. pc'[w] = "reading" /\ \A v \in Workers \ {w} : pc'[v] = pc[v]
      BY <3>1 DEF IInv, TypeOK
    <3> QED
      BY <3>1, <3>2, <3>3, MoveClosing
  <2> QED
    BY <2>1, <2>2
<1>7. ASSUME NEW w \in Workers, NEW close \in BOOLEAN, HandlerResponds(w, close) PROVE Closing'
  <2>1. /\ UNCHANGED <<pc, conn, taken>>
        /\ \A v \in Workers \ {w} : keepAlive'[v] = keepAlive[v]
        /\ keepAlive'[w] = (keepAlive[w] /\ ~ close)
    BY <1>7 DEF HandlerResponds, IInv, TypeOK
  <2>2. /\ pc[w] = "dispatching" /\ (keepAlive[w] => AllKeep(dispatched[conn[w]]))
    BY <1>7 DEF HandlerResponds, Closing
  <2>3. CASE ~ close
    BY <1>7, <2>1, <2>2, <2>3, MoveClosing DEF HandlerResponds
  <2>4. CASE close
    <3> DEFINE c == conn[w]
    <3>1. c \in Conns /\ c \in taken /\ dispatched[c] \in Seq(Dispatched)
      BY <2>2, NoneAssumption, BusyHasConnection DEF IInv, Ownership, TypeOK
    <3>2. /\ dispatched'[c] = MarkClosed(dispatched[c])
          /\ \A e \in Conns \ {c} : dispatched'[e] = dispatched[e]
      BY <1>7, <2>4, <3>1 DEF HandlerResponds, IInv, TypeOK
    <3>3. \A v \in Workers \ {w} : conn[v] # c
      BY <3>1, NoneAssumption DEF IInv, Ownership
    <3> HIDE DEF c
    <3>4. \A e \in Conns \ taken' : dispatched'[e] = <<>>
      BY <2>1, <3>1, <3>2 DEF Closing
    <3>5. CloseIsLast'
      <4> SUFFICES ASSUME NEW e \in Conns, NEW i \in 1..(Len(dispatched'[e]) - 1)
                   PROVE  dispatched'[e][i].form.keep
        BY DEF CloseIsLast
      <4>1. CASE e = c
        BY <3>1, <3>2, <4>1, MarkClosedFacts DEF Closing, CloseIsLast
      <4>2. CASE e # c
        BY <3>2, <4>2 DEF Closing, CloseIsLast
      <4> QED
        BY <4>1, <4>2
    <3>6. ASSUME NEW v \in Workers
          PROVE  /\ pc'[v] = "handshake" => dispatched'[conn'[v]] = <<>>
                 /\ pc'[v] = "reading" => AllKeep(dispatched'[conn'[v]])
                 /\ pc'[v] = "dispatching" /\ keepAlive'[v] => AllKeep(dispatched'[conn'[v]])
      <4>1. CASE v = w
        BY <2>1, <2>2, <2>4, <4>1
      <4>2. CASE v # w
        <5>1. pc[v] # "idle" => conn[v] \in Conns
          BY BusyHasConnection DEF IInv
        <5> QED
          BY <2>1, <3>2, <3>3, <4>2, <5>1 DEF Closing
      <4> QED
        BY <4>1, <4>2
    <3> QED
      BY <3>4, <3>5, <3>6 DEF Closing
  <2> QED
    BY <2>3, <2>4
<1>8. CASE UNCHANGED <<pc, conn, keepAlive, dispatched, taken>>
  BY <1>8 DEF Closing, CloseIsLast
<1>9. ASSUME NEW c \in Conns, Peer(c) PROVE Closing'
  BY <1>8, <1>9 DEF Peer, Connect, Send, Disconnect, workerVars
<1>10. ASSUME NEW w \in Workers, Read(w) PROVE Closing'
  BY <1>4, <1>5, <1>10, DispatchClosing DEF Read, ReadError
<1>11. ASSUME NEW w \in Workers, Handler(w) PROVE Closing'
  BY <1>7, <1>8, <1>11 DEF Handler, HandlerStoresRouteData, HandlerStoresSessionData,
                           HandlerReadsBody
<1>12. CASE Stop \/ UNCHANGED vars
  BY <1>8, <1>12 DEF Stop, vars, workerVars
<1> QED
  BY <1>1, <1>2, <1>3, <1>6, <1>9, <1>10, <1>11, <1>12 DEF Next, Pool

\* The loop of do_http_session is left after a request, or a response to it, that closes
\* the connection: whatever the peer has pipelined behind it is not dispatched.
THEOREM NothingAfterClose == Spec => []CloseIsLast
<1>1. Init => Closing
  BY DEF Init, Closing, CloseIsLast
<1>2. Closing => CloseIsLast
  BY DEF Closing
<1>3. IInv /\ Closing /\ [Next]_vars => Closing'
  BY ClosingInvariant
<1> QED
  BY <1>1, <1>2, <1>3, Invariance, PTL DEF Spec

===============================================================================
