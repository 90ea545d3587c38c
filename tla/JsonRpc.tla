-------------------------------- MODULE JsonRpc --------------------------------
(***************************************************************************)
(* The JSON-RPC client: one connection, one HTTP serializer and parser and *)
(* one JSON parser, used by one call after the other as in its co_main.    *)
(*                                                                         *)
(* A step is one handler of stream_impl::connect_op or client::request_op. *)
(* Of a document only what request_op looks at is kept.  The server        *)
(* answers requests in any order and possibly more than once, with         *)
(* documents of any shape, but puts no wrong id on them.  Whoever calls    *)
(* stops when a call has failed to transfer its messages; after an error   *)
(* of JSON-RPC it goes on.                                                 *)
(***************************************************************************)
EXTENDS Naturals, Sequences

CONSTANTS
    Documents,      \* the shapes of the documents that the server sends
    MaxCalls,       \* bound: calls
    MaxAnswers,     \* bound: responses
    None

Document ==
    [syntax : BOOLEAN,          \* it is JSON
     object : BOOLEAN,
     version : BOOLEAN,         \* "jsonrpc" is "2.0"
     error : {"none", "no_object", "no_code", "code"},
     result : {"none", "other", "expected"},    \* of the type that is expected
     id : BOOLEAN]

Error == {"invalid_response", "version_error", "id_mismatch", "error", "conversion"}

ASSUME DocumentsAssumption == Documents \subseteq Document
ASSUME BoundsAssumption == MaxCalls \in Nat /\ MaxAnswers \in Nat

VARIABLES
    scheme,     \* of the endpoint
    secure,     \* stream_impl::secure_
    link,       \* the connection
    id,         \* client::id_
    pc,         \* where the call is suspended
    pr,         \* the HTTP parser
    jpr,        \* the JSON parser
    read,       \* the response being read, or None
    broken,     \* a message was not transferred
    outcome,    \* of each call, and for a result the request it is the result of
    requests,   \* the requests that have reached the server
    answers,    \* how many responses the server has sent
    inbox       \* and those that have not been read

callVars == <<id, pc, pr, jpr, read, broken, outcome>>
serverVars == <<requests, answers, inbox>>
vars == <<scheme, secure, link, callVars, serverVars>>

Calls == 1..MaxCalls
Response == [doc : Documents, of : Calls]

TypeOK ==
    /\ scheme \in {"http", "https"}
    /\ secure \in BOOLEAN
    /\ link \in {"idle", "resolving", "connecting", "handshaking", "open", "closing",
                 "closed", "failed"}
    /\ id \in 0..MaxCalls
    /\ pc \in {"idle", "writing", "header", "body"}
    /\ pr \in {"start", "header", "body", "complete", "incomplete"}
    /\ jpr \in {"clean", "partial", "failed"}
    /\ read \in Response \cup {None}
    /\ broken \in BOOLEAN
    /\ outcome \in [Calls -> [how : Error \cup {"none", "result", "transfer"},
                              of : 0..MaxCalls]]
    /\ requests \in SUBSET Calls
    /\ answers \in 0..MaxAnswers
    /\ inbox \in Seq(Response)

\* The constructor resets the HTTP parser.
Init ==
    /\ scheme \in {"http", "https"}
    /\ secure = FALSE
    /\ link = "idle"
    /\ id = 0 /\ pc = "idle"
    /\ pr = "start" /\ jpr = "clean"
    /\ read = None
    /\ broken = FALSE
    /\ outcome = [c \in Calls |-> [how |-> "none", of |-> 0]]
    /\ requests = {} /\ answers = 0 /\ inbox = <<>>

-------------------------------------------------------------------------------
(***************************************************************************)
(* stream_impl.                                                            *)
(***************************************************************************)

async_connect ==
    /\ link = "idle"
    /\ secure' = (scheme = "https")
    /\ link' = "resolving"
    /\ UNCHANGED <<scheme, callVars, serverVars>>

OnResolve ==
    /\ link = "resolving"
    /\ link' = "connecting"
    /\ UNCHANGED <<scheme, secure, callVars, serverVars>>

\* With https the name is set for SNI and for the verification.
OnConnect ==
    /\ link = "connecting"
    /\ link' = IF scheme = "https" THEN "handshaking" ELSE "open"
    /\ UNCHANGED <<scheme, secure, callVars, serverVars>>

OnHandshake ==
    /\ link = "handshaking"
    /\ link' = "open"
    /\ UNCHANGED <<scheme, secure, callVars, serverVars>>

ConnectFails ==
    /\ link \in {"resolving", "connecting", "handshaking"}
    /\ link' = "failed"
    /\ UNCHANGED <<scheme, secure, callVars, serverVars>>

\* TLS says good-bye and waits for the answer; a socket is shut down and closed.
async_shutdown ==
    /\ link = "open" /\ pc = "idle"
    /\ link' = IF secure THEN "closing" ELSE "closed"
    /\ UNCHANGED <<scheme, secure, callVars, serverVars>>

OnShutdown ==
    /\ link = "closing"
    /\ link' = "closed"
    /\ UNCHANGED <<scheme, secure, callVars, serverVars>>

-------------------------------------------------------------------------------
(***************************************************************************)
(* request_op.                                                             *)
(***************************************************************************)

\* async_call: next_id, and the request is given to the serializer.
Call ==
    /\ link = "open" /\ pc = "idle" /\ ~ broken
    /\ id < MaxCalls
    /\ id' = id + 1
    /\ pc' = "writing"
    /\ UNCHANGED <<scheme, secure, link, pr, jpr, read, broken, outcome, serverVars>>

\* The call's handler gets an error or a result.
Complete(how, of) ==
    /\ pc' = "idle"
    /\ outcome' = [outcome EXCEPT ![id] = [how |-> how, of |-> IF how = "result" THEN of ELSE 0]]

TransferFails ==
    /\ Complete("transfer", 0)
    /\ broken' = TRUE

\* The request has been written; the parser begins a new message, which it can do
\* only when the last one is complete.
Written ==
    /\ pc = "writing"
    /\ pr \in {"start", "complete"}
    /\ pc' = "header" /\ pr' = "header"
    /\ requests' = requests \cup {id}
    /\ UNCHANGED <<scheme, secure, link, id, jpr, read, broken, outcome, answers, inbox>>

\* The connection may be gone.
WriteFails ==
    /\ pc = "writing"
    /\ link = "closed"
    /\ TransferFails
    /\ UNCHANGED <<scheme, secure, link, id, pr, jpr, read, serverVars>>

\* A header is there; its body will be written to a json_sink.
HeaderRead ==
    /\ pc = "header"
    /\ inbox # <<>>
    /\ read' = Head(inbox) /\ inbox' = Tail(inbox)
    /\ pc' = "body" /\ pr' = "body"
    /\ UNCHANGED <<scheme, secure, link, id, jpr, broken, outcome, requests, answers>>

\* json_sink::on_write with more to come.
BodySome ==
    /\ pc = "body" /\ jpr = "clean"
    /\ jpr' = IF read.doc.syntax THEN "partial" ELSE "failed"
    /\ UNCHANGED <<scheme, secure, link, id, pc, pr, read, broken, outcome, serverVars>>

\* Fault: any id will do.
VerdictForAny(doc, of) ==
    IF ~ doc.object THEN "invalid_response"
    ELSE IF ~ doc.version THEN "version_error"
    ELSE IF doc.error = "no_code" THEN "invalid_response"
    ELSE IF doc.error = "code" THEN "error"
    ELSE IF doc.result = "none" THEN "invalid_response"
    ELSE IF doc.result = "other" THEN "conversion"
    ELSE "result"

\* What request_op and, with the type of the result, request_and_transform_op make of
\* a document.
Verdict(doc, of) ==
    IF ~ doc.object THEN "invalid_response"
    ELSE IF ~ doc.version THEN "version_error"
    ELSE IF doc.error = "no_code" THEN "invalid_response"
    ELSE IF doc.error = "code" THEN "error"
    ELSE IF doc.result = "none" THEN "invalid_response"
    ELSE IF ~ (doc.id /\ of = id) THEN "id_mismatch"
    ELSE IF doc.result = "other" THEN "conversion"
    ELSE "result"

\* Fault: the parser keeps a document that is of no use.
ReleasedIfUsed == IF read.doc.object THEN "clean" ELSE "partial"

\* jpr_.release() comes before anything is looked at.
Released == "clean"

\* The last of the body, and the end of the document.
BodyRead ==
    /\ pc = "body" /\ jpr # "failed" /\ read.doc.syntax
    /\ pr' = "complete"
    /\ jpr' = Released
    /\ Complete(Verdict(read.doc, read.of), read.of)
    /\ read' = None
    /\ UNCHANGED <<scheme, secure, link, id, broken, serverVars>>

\* The body is no JSON document: the sink's error ends the read.
BodyIsNoJson ==
    /\ pc = "body" /\ ~ read.doc.syntax
    /\ pr' = "incomplete" /\ jpr' = "failed"
    /\ read' = None
    /\ TransferFails
    /\ UNCHANGED <<scheme, secure, link, id, serverVars>>

\* The server has left: in the middle of a body, or before the response.
ReadFails ==
    /\ link = "closed"
    /\ pc = "body" \/ (pc = "header" /\ inbox = <<>>)
    /\ pr' = "incomplete"
    /\ read' = None
    /\ TransferFails
    /\ UNCHANGED <<scheme, secure, link, id, jpr, serverVars>>

-------------------------------------------------------------------------------
(***************************************************************************)
(* The server.                                                             *)
(***************************************************************************)

Answer ==
    /\ link = "open"
    /\ answers < MaxAnswers
    /\ \E r \in requests, doc \in Documents :
        inbox' = Append(inbox, [doc |-> doc, of |-> r])
    /\ answers' = answers + 1
    /\ UNCHANGED <<scheme, secure, link, callVars, requests>>

Leave ==
    /\ link = "open"
    /\ link' = "closed"
    /\ UNCHANGED <<scheme, secure, callVars, serverVars>>

Next ==
    \/ async_connect \/ OnResolve \/ OnConnect \/ OnHandshake \/ ConnectFails
    \/ async_shutdown \/ OnShutdown
    \/ Call \/ Written \/ WriteFails
    \/ HeaderRead \/ BodySome \/ BodyRead \/ BodyIsNoJson \/ ReadFails
    \/ Answer \/ Leave

Spec == Init /\ [][Next]_vars

-------------------------------------------------------------------------------
(***************************************************************************)
(* Properties.                                                             *)
(***************************************************************************)

\* A call that succeeds has the result of its own request, also when the server
\* repeats or delays its answers and the client reads the one meant for another call.
OwnResult == \A c \in Calls : outcome[c].how = "result" => outcome[c].of = c

\* An error of JSON-RPC does not spoil the client: between two calls the parsers are
\* ready for a new message, unless one was cut off.
CleanAfterError ==
    pc = "idle" /\ ~ broken => pr \in {"start", "complete"} /\ jpr = "clean"
===============================================================================
