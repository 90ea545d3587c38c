---------------------------- MODULE ExpectContinue ----------------------------
(***************************************************************************)
(* burl's async_request: send a request, read the response header, and     *)
(* handle Expect: 100-continue with two chains of operations that run side *)
(* by side:                                                                *)
(*     writer   timer.async_wait, then async_write of the body             *)
(*     reader   async_read_header, and once more after a 100 (Continue)    *)
(* They meet in exp100->state and in the timer, which the reader cancels.  *)
(*                                                                         *)
(* One thread, so a step is one completion handler.  A timer that has      *)
(* expired or was cancelled has its handler queued and can no longer be    *)
(* stopped.  Cancelling an operation lets it end early; an operation that  *)
(* is started afterwards does not know about it.                           *)
(***************************************************************************)
EXTENDS Naturals, Sequences

VARIABLES
    \* async_request_op
    pc,         \* "head", "plain", "parallel" or "done"
    expect,     \* the request has a body and says Expect: 100-continue
    state,      \* exp100->state
    timer,      \* exp100->timer
    writer,     \* the write of the body
    reader,     \* which async_read_header is under way
    parser,     \* what the parser holds: nothing, a 100 or a final header
    ec1, ec2,   \* TRUE if the chain ended with an error
    failed,     \* the result of async_request
    aborted,    \* operations whose cancellation was asked for
    cancelled,  \* async_request was cancelled
    \* the server
    inbox,      \* headers on their way to the client
    phase,      \* "silent", or the last header that was sent
    gone,       \* the server closed the connection
    \* history
    overtaken   \* the final header came instead of a 100, before the body was begun

client == <<pc, expect, state, timer, writer, reader, parser, ec1, ec2, failed>>
server == <<inbox, phase, gone>>
vars == <<client, aborted, cancelled, server, overtaken>>

Header == {"100", "final"}

TypeOK ==
    /\ pc \in {"head", "plain", "parallel", "done"}
    /\ state \in {"awaiting", "received", "cancelled"}
    /\ timer \in {"off", "waiting", "queued", "over"}
    /\ writer \in {"idle", "writing", "written"}
    /\ reader \in {"idle", "first", "second", "over"}
    /\ parser \in Header \cup {"empty"}
    /\ {expect, ec1, ec2, failed, cancelled, gone, overtaken} \subseteq BOOLEAN
    /\ phase \in Header \cup {"silent"}
    /\ pc = "parallel" => timer # "off"
    /\ aborted \subseteq {"head", "reader", "writer"}
    /\ inbox \in Seq(Header) /\ Len(inbox) <= 2

Init ==
    /\ pc = "head"
    /\ expect \in BOOLEAN
    /\ state = "awaiting"
    /\ timer = "off" /\ writer = "idle" /\ reader = "idle"
    /\ parser = "empty"
    /\ ec1 = FALSE /\ ec2 = FALSE /\ failed = FALSE
    /\ aborted = {} /\ cancelled = FALSE
    /\ inbox = <<>> /\ phase = "silent" /\ gone = FALSE
    /\ overtaken = FALSE

-------------------------------------------------------------------------------
(***************************************************************************)
(* The client.                                                             *)
(***************************************************************************)

\* The write of the request, or of its header only, ends.
HeadWritten ==
    /\ pc = "head"
    /\ IF expect
       THEN /\ pc' = "parallel"
            /\ timer' = "waiting"
            /\ reader' = "first"
            /\ UNCHANGED <<failed, writer>>
       ELSE /\ pc' = "plain"
            /\ reader' = "first"
            /\ writer' = "written"
            /\ UNCHANGED <<failed, timer>>
    /\ UNCHANGED <<expect, state, parser, ec1, ec2, aborted, cancelled, server, overtaken>>

HeadFails ==
    /\ pc = "head"
    /\ gone \/ "head" \in aborted
    /\ pc' = "done"
    /\ failed' = TRUE
    /\ UNCHANGED <<expect, state, timer, writer, reader, parser, ec1, ec2, aborted,
                   cancelled, server, overtaken>>

\* Fault: wait_for_one.
EndWhenAny(bothOver, e1, e2) ==
    /\ pc' = "done"
    /\ failed' = (e1 \/ e2)

\* The chain that ends last ends the parallel group, with the error of the writer
\* or else that of the reader.
EndWhen(bothOver, e1, e2) ==
    /\ pc' = IF bothOver THEN "done" ELSE pc
    /\ failed' = IF bothOver THEN e1 \/ e2 ELSE failed

TimerExpires ==
    /\ timer = "waiting"
    /\ timer' = "queued"
    /\ UNCHANGED <<pc, expect, state, writer, reader, parser, ec1, ec2, failed, aborted,
                   cancelled, server, overtaken>>

\* Fault: only a 100 lets the body go.
GoesOnReceipt == state = "received"

\* Fault: nothing keeps the body back.
GoesRegardless == TRUE

\* The condition on which the timer's handler sends the body.
Goes == state # "cancelled"

\* The timer's handler, whether it expired or was cancelled.
TimerHandler ==
    /\ timer = "queued"
    /\ timer' = "over"
    /\ IF Goes
       THEN writer' = "writing" /\ UNCHANGED <<pc, failed>>
       ELSE UNCHANGED writer /\ EndWhen(reader = "over", FALSE, ec2)
    /\ UNCHANGED <<expect, state, reader, parser, ec1, ec2, aborted, cancelled, server,
                   overtaken>>

BodyWritten(fails) ==
    /\ writer = "writing"
    /\ fails => gone \/ "writer" \in aborted
    /\ writer' = "written"
    /\ ec1' = fails
    /\ EndWhen(reader = "over", fails, ec2)
    /\ UNCHANGED <<expect, state, timer, reader, parser, ec2, aborted, cancelled, server,
                   overtaken>>

\* async_read_header ends: a header has arrived, the stream has ended, or it was
\* cancelled.
ReadEnds(header, fails) ==
    /\ reader \in {"first", "second"}
    /\ IF fails
       THEN /\ (gone /\ inbox = <<>>) \/ "reader" \in aborted
            /\ UNCHANGED <<inbox, parser>>
       ELSE /\ inbox # <<>>
            /\ header = Head(inbox)
            /\ inbox' = Tail(inbox)
            /\ parser' = header
    /\ aborted' = aborted \ {"reader"}
    /\ overtaken' = (overtaken \/ (~ fails /\ header = "final" /\ reader = "first"
                                   /\ writer = "idle"))
    /\ UNCHANGED <<expect, writer, ec1, cancelled, phase, gone>>

\* Without Expect the first header is the result.
ReadPlain(header, fails) ==
    /\ pc = "plain"
    /\ ReadEnds(header, fails)
    /\ reader' = "over"
    /\ pc' = "done"
    /\ failed' = fails
    /\ UNCHANGED <<state, timer, ec2>>

\* timer.cancel(): the handler of a timer that still waits is queued.
CancelTimer == timer' = IF timer = "waiting" THEN "queued" ELSE timer

\* Fault: a 100 ends the request.
IsFinal(header, fails) == TRUE

IsResponse(header, fails) == fails \/ header # "100"

\* The handler of the first read: cancel the timer; after a 100 read again.
ReadFirst(header, fails) ==
    /\ pc = "parallel" /\ reader = "first"
    /\ ReadEnds(header, fails)
    /\ CancelTimer
    /\ IF IsResponse(header, fails)
       THEN /\ state' = "cancelled"
            /\ reader' = "over"
            /\ ec2' = fails
            /\ EndWhen(writer # "writing" /\ timer = "over", ec1, fails)
       ELSE /\ state' = "received"
            /\ reader' = "second"
            /\ UNCHANGED <<ec2, pc, failed>>

ReadSecond(header, fails) ==
    /\ pc = "parallel" /\ reader = "second"
    /\ ReadEnds(header, fails)
    /\ reader' = "over"
    /\ ec2' = fails
    /\ EndWhen(writer # "writing" /\ timer = "over", ec1, fails)
    /\ UNCHANGED <<state, timer>>

\* Total cancellation of async_request reaches the operations that are under way.
Cancel ==
    /\ ~ cancelled
    /\ pc # "done"
    /\ cancelled' = TRUE
    /\ aborted' = (IF pc = "head" THEN {"head"} ELSE {})
                  \cup (IF reader \in {"first", "second"} THEN {"reader"} ELSE {})
                  \cup (IF writer = "writing" THEN {"writer"} ELSE {})
    /\ CancelTimer
    /\ UNCHANGED <<pc, expect, state, writer, reader, parser, ec1, ec2, failed, server,
                   overtaken>>

-------------------------------------------------------------------------------
(***************************************************************************)
(* The server (external): at most one 100, one final response at any time  *)
(* after the header of the request, and it may leave.                      *)
(***************************************************************************)

ServerContinues ==
    /\ pc # "head" /\ expect
    /\ phase = "silent" /\ ~ gone
    /\ inbox' = Append(inbox, "100")
    /\ phase' = "100"
    /\ UNCHANGED <<client, aborted, cancelled, gone, overtaken>>

ServerAnswers ==
    /\ pc # "head"
    /\ phase # "final" /\ ~ gone
    /\ inbox' = Append(inbox, "final")
    /\ phase' = "final"
    /\ UNCHANGED <<client, aborted, cancelled, gone, overtaken>>

ServerLeaves ==
    /\ ~ gone
    /\ gone' = TRUE
    /\ UNCHANGED <<client, aborted, cancelled, inbox, phase, overtaken>>

Terminated == pc = "done" /\ UNCHANGED vars

Reads ==
    \E header \in Header, fails \in BOOLEAN :
        ReadPlain(header, fails) \/ ReadFirst(header, fails) \/ ReadSecond(header, fails)

Writes == HeadWritten \/ HeadFails \/ \E fails \in BOOLEAN : BodyWritten(fails)

Next ==
    \/ Writes \/ Reads
    \/ TimerExpires \/ TimerHandler
    \/ Cancel
    \/ ServerContinues \/ ServerAnswers \/ ServerLeaves
    \/ Terminated

Spec == Init /\ [][Next]_vars

(***************************************************************************)
(* Fairness: handlers run, the timer expires, writes end (the server reads *)
(* or is gone), and a server that has the whole request answers or leaves. *)
(***************************************************************************)
Fairness ==
    /\ WF_vars(Writes) /\ WF_vars(Reads)
    /\ WF_vars(TimerExpires) /\ WF_vars(TimerHandler)
    /\ WF_vars(writer = "written" /\ (ServerAnswers \/ ServerLeaves))

FairSpec == Spec /\ Fairness

-------------------------------------------------------------------------------
(***************************************************************************)
(* Properties.                                                             *)
(***************************************************************************)

\* A final response that comes instead of a 100, before the body was begun, keeps it
\* from being sent, even if the timer has expired and its handler is already queued.
FinalStopsBody == (expect /\ overtaken) => writer = "idle"

\* A request that succeeds ends with a final header and not with the 100 that came
\* before it.
SuccessIsFinal == (pc = "done" /\ ~ failed) => parser = "final"

\* async_request ends only when nothing of it is under way any more: the stream,
\* the serializer and the parser are the caller's again.
EndsQuiet ==
    pc = "done" =>
        /\ timer \in {"off", "over"}
        /\ writer # "writing"
        /\ reader \in {"idle", "over"}

\* The request ends whatever the server does, above all if it waits for the body
\* without ever sending a 100.
RequestEnds == <>(pc = "done")
===============================================================================
