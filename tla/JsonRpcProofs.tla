----------------------------- MODULE JsonRpcProofs -----------------------------
(***************************************************************************)
(* Safety of the JSON-RPC client for all numbers of calls and answers and  *)
(* all sets of documents.                                                  *)
(*                                                                         *)
(* CleanAfterError speaks of the time between calls; it is inductive       *)
(* together with the states of the two parsers at each suspension point of *)
(* a call (Parsers).                                                       *)
(***************************************************************************)
EXTENDS JsonRpc, TLAPS

\* A call that is under way has an id, and in its body a response.
Busy ==
    /\ pc # "idle" => id \in Calls
    /\ pc = "body" => read \in Response

Parsers ==
    /\ pc = "writing" => pr \in {"start", "complete"} /\ jpr = "clean"
    /\ pc = "header" => pr = "header" /\ jpr = "clean"

IInv == TypeOK /\ Busy /\ Parsers /\ OwnResult /\ CleanAfterError

\* Only the answer to the call's own request gives a result.
LEMMA ResultIsOwn ==
    ASSUME NEW doc \in Document, NEW of, of # id
    PROVE  Verdict(doc, of) # "result"
BY DEF Verdict

\* request_op ends with a result or with one of its error codes.
LEMMA VerdictType ==
    ASSUME NEW doc \in Document, NEW of
    PROVE  Verdict(doc, of) \in Error \cup {"result"}
BY DEF Verdict, Error, Document

\* What the end of a call does to the outcomes.
LEMMA Completed ==
    ASSUME IInv, pc # "idle", NEW how \in Error \cup {"result", "transfer"}, NEW of \in 0..MaxCalls,
           how = "result" => of = id, Complete(how, of)
    PROVE  /\ pc' = "idle"
           /\ outcome' \in [Calls -> [how : Error \cup {"none", "result", "transfer"},
                                      of : 0..MaxCalls]]
           /\ OwnResult'
<1> DEFINE Outcome == [how : Error \cup {"none", "result", "transfer"}, of : 0..MaxCalls]
           mine == [how |-> how, of |-> IF how = "result" THEN of ELSE 0]
<1>1. 0 \in 0..MaxCalls
  BY BoundsAssumption
<1>2. mine \in Outcome
  BY <1>1
<1>3. id \in Calls /\ outcome \in [Calls -> Outcome] /\ outcome' = [outcome EXCEPT ![id] = mine]
  BY DEF IInv, Busy, TypeOK, Complete
<1>4. outcome' \in [Calls -> Outcome]
  BY <1>2, <1>3
<1>5. ASSUME NEW c \in Calls, outcome'[c].how = "result" PROVE outcome'[c].of = c
  <2>1. CASE c = id
    BY <1>3, <1>5, <2>1
  <2>2. CASE c # id
    BY <1>3, <1>5, <2>2 DEF IInv, OwnResult
  <2> QED
    BY <2>1, <2>2
<1> QED
  BY <1>4, <1>5 DEF Complete, OwnResult, Calls

\* A client that was just constructed.
LEMMA InitInvariant == Init => IInv
<1> SUFFICES ASSUME Init PROVE IInv
  OBVIOUS
<1>1. 0 \in 0..MaxCalls /\ 0 \in 0..MaxAnswers
  BY BoundsAssumption
<1>2. outcome \in [Calls -> [how : Error \cup {"none", "result", "transfer"}, of : 0..MaxCalls]]
  BY <1>1 DEF Init
<1>3. inbox \in Seq(Response)
  BY DEF Init
<1>4. TypeOK
  BY <1>1, <1>2, <1>3 DEF Init, TypeOK
<1>5. Busy /\ Parsers /\ OwnResult /\ CleanAfterError
  BY DEF Init, Busy, Parsers, OwnResult, CleanAfterError
<1> QED
  BY <1>4, <1>5 DEF IInv

\* Steps of the connection, which leave calls and server alone.
LEMMA StreamStep ==
    ASSUME IInv, UNCHANGED <<scheme, callVars, serverVars>>,
           secure' \in BOOLEAN,
           link' \in {"idle", "resolving", "connecting", "handshaking", "open", "closing",
                      "closed", "failed"}
    PROVE  IInv'
BY DEF IInv, TypeOK, Busy, Parsers, OwnResult, CleanAfterError, callVars, serverVars

\* Steps of a call up to its response.
LEMMA CallStep ==
    ASSUME IInv, Call \/ Written \/ HeaderRead \/ BodySome
    PROVE  IInv'
<1> USE DEF IInv
<1>1. CASE Call
  <2>1. id + 1 \in Calls /\ id + 1 \in 0..MaxCalls
    BY <1>1, BoundsAssumption DEF Call, TypeOK, Calls
  <2>2. TypeOK'
    BY <1>1, <2>1 DEF Call, TypeOK, serverVars
  <2> QED
    BY <1>1, <2>1, <2>2 DEF Call, Busy, Parsers, OwnResult, CleanAfterError, serverVars
<1>2. CASE Written
  <2>1. TypeOK'
    BY <1>2 DEF Written, TypeOK, Busy
  <2> QED
    BY <1>2, <2>1 DEF Written, Busy, Parsers, OwnResult, CleanAfterError
<1>3. CASE HeaderRead
  <2>1. Head(inbox) \in Response /\ Tail(inbox) \in Seq(Response)
    BY <1>3 DEF HeaderRead, TypeOK
  <2>2. TypeOK'
    BY <1>3, <2>1 DEF HeaderRead, TypeOK
  <2> QED
    BY <1>3, <2>1, <2>2 DEF HeaderRead, Busy, Parsers, OwnResult, CleanAfterError
<1>4. CASE BodySome
  <2>1. TypeOK'
    BY <1>4 DEF BodySome, TypeOK, serverVars
  <2> QED
    BY <1>4, <2>1 DEF BodySome, Busy, Parsers, OwnResult, CleanAfterError, serverVars
<1> QED
  BY <1>1, <1>2, <1>3, <1>4

\* A call ends because a message was not transferred.
LEMMA FailureStep ==
    ASSUME IInv, pc # "idle", TransferFails,
           pr' \in {pr, "incomplete"}, jpr' \in {jpr, "failed"}, read' \in {read, None},
           UNCHANGED <<scheme, secure, link, id, serverVars>>
    PROVE  IInv'
<1>1. pc' = "idle" /\ broken' = TRUE /\ OwnResult'
      /\ outcome' \in [Calls -> [how : Error \cup {"none", "result", "transfer"},
                                 of : 0..MaxCalls]]
  <2>1. 0 \in 0..MaxCalls /\ Complete("transfer", 0) /\ broken' = TRUE
    BY BoundsAssumption DEF TransferFails
  <2> QED
    BY <2>1, Completed
<1>2. TypeOK'
  BY <1>1 DEF IInv, TypeOK, serverVars
<1> QED
  BY <1>1, <1>2 DEF IInv, Busy, Parsers, CleanAfterError

\* A document was read to its end.
LEMMA ResultStep ==
    ASSUME IInv, BodyRead
    PROVE  IInv'
<1> DEFINE how == Verdict(read.doc, read.of)
<1>1. read.doc \in Document /\ read.of \in 0..MaxCalls
  BY DocumentsAssumption, BoundsAssumption DEF IInv, Busy, BodyRead, Response, Calls
<1>2. how \in Error \cup {"result", "transfer"} /\ (how = "result" => read.of = id)
  BY <1>1, VerdictType, ResultIsOwn
<1>3. pc' = "idle" /\ OwnResult'
      /\ outcome' \in [Calls -> [how : Error \cup {"none", "result", "transfer"},
                                 of : 0..MaxCalls]]
  <2>1. pc # "idle" /\ Complete(how, read.of)
    BY DEF BodyRead
  <2> HIDE DEF how
  <2> QED
    BY <1>1, <1>2, <2>1, Completed
<1>4. TypeOK'
  BY <1>3 DEF IInv, TypeOK, BodyRead, Released, serverVars
<1> QED
  BY <1>3, <1>4 DEF IInv, Busy, Parsers, CleanAfterError, BodyRead, Released

\* The server answers.
LEMMA ServerStep ==
    ASSUME IInv, Answer
    PROVE  IInv'
<1>1. PICK r \in requests, doc \in Documents : inbox' = Append(inbox, [doc |-> doc, of |-> r])
  BY DEF Answer
<1>2. [doc |-> doc, of |-> r] \in Response
  BY DEF IInv, TypeOK, Response
<1>3. inbox' \in Seq(Response)
  BY <1>1, <1>2 DEF IInv, TypeOK
<1>4. answers' \in 0..MaxAnswers
  BY BoundsAssumption DEF Answer, IInv, TypeOK
<1>5. TypeOK'
  BY <1>3, <1>4 DEF Answer, IInv, TypeOK, callVars
<1> QED
  BY <1>5 DEF Answer, IInv, Busy, Parsers, OwnResult, CleanAfterError, callVars

\* The members of the client, the parsers at each suspension point of a call and the
\* outcomes of the calls fit together in every state of client.cpp.
THEOREM Invariance == Spec => []IInv
<1>1. Init => IInv
  BY InitInvariant
<1>2. IInv /\ [Next]_vars => IInv'
  <2> SUFFICES ASSUME IInv, [Next]_vars PROVE IInv'
    OBVIOUS
  <2>1. CASE \/ async_connect \/ OnResolve \/ OnConnect \/ OnHandshake \/ ConnectFails
             \/ async_shutdown \/ OnShutdown \/ Leave
    BY <2>1, StreamStep
       DEF async_connect, OnResolve, OnConnect, OnHandshake, ConnectFails,
           async_shutdown, OnShutdown, Leave, IInv, TypeOK
  <2>2. CASE Call \/ Written \/ HeaderRead \/ BodySome
    BY <2>2, CallStep
  <2>3. CASE WriteFails
    BY <2>3, FailureStep DEF WriteFails
  <2>4. CASE BodyRead
    BY <2>4, ResultStep
  <2>5. CASE BodyIsNoJson
    BY <2>5, FailureStep DEF BodyIsNoJson
  <2>6. CASE ReadFails
    BY <2>6, FailureStep DEF ReadFails
  <2>7. CASE Answer
    BY <2>7, ServerStep
  <2>8. CASE UNCHANGED vars
    BY <2>8 DEF vars, callVars, serverVars, IInv, TypeOK, Busy, Parsers, OwnResult,
                CleanAfterError
  <2> QED
    BY <2>1, <2>2, <2>3, <2>4, <2>5, <2>6, <2>7, <2>8 DEF Next
<1> QED
  BY <1>1, <1>2, PTL DEF Spec

\* The members of the client and of a call have their types.
THEOREM TypeCorrect == Spec => []TypeOK
<1>1. IInv => TypeOK
  BY DEF IInv
<1> QED
  BY <1>1, Invariance, PTL

\* The test of ids in request_op is enough: no call is given the result of another,
\* whatever the server sends as long as its ids are right.
THEOREM ResultsAreOwn == Spec => []OwnResult
<1>1. IInv => OwnResult
  BY DEF IInv
<1> QED
  BY <1>1, Invariance, PTL

\* Every early return of request_op leaves both parsers ready for the next call.
THEOREM ErrorsLeaveClean == Spec => []CleanAfterError
<1>1. IInv => CleanAfterError
  BY DEF IInv
<1> QED
  BY <1>1, Invariance, PTL
================================================================================
