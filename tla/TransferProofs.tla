---------------------------- MODULE TransferProofs ----------------------------
(***************************************************************************)
(* Proofs about Transfer, for any set of origins and options, any limit on *)
(* redirects and any length of the resource; and, at the end, about        *)
(* async_request (ExpectContinue), which perform_request awaits.           *)
(***************************************************************************)
EXTENDS Transfer, SequenceTheorems, TLAPS

(***************************************************************************)
(* The inductive invariant.                                                *)
(***************************************************************************)

\* Up to the first connect the request is the one of the command line.
AtStart ==
    pc \in {"start", "connecting"} =>
        url = Org /\ host = Org /\ referer = Org /\ status = None

\* A request with credentials goes where they are trusted.
Trust == (pc = "requesting" /\ (authorization \/ cookie)) => Trusts(url)

\* While a redirect is followed on the same connection, it is the right one, and
\* nothing but it has filled the parser.
Routing ==
    /\ pc = "requesting" => referer = url /\ connected = url /\ host = url /\ ~ unread
    /\ pc = "discarding" => connected = url
    /\ pc \in {"requesting", "discarding"} => held \subseteq {stream}

\* The requests sent, the one about to be sent and the redirects left.
Budget ==
    requests + maxredirs
        + (IF pc \in {"start", "connecting", "discarding", "reconnecting"} THEN 1 ELSE 0)
        <= MaxRedirs + 1

\* While perform_request runs its output is open, and holds what has arrived.
Written ==
    /\ file["stdout"] \in Content
    /\ pc \in Awaiting =>
        /\ file[output] \in Content
        /\ (~ Resumed /\ output # "stdout") =>
            /\ pc \notin {"receiving", "shutting_down"} => file[output] = <<>>
            /\ (pc = "receiving" /\ status # "206") => Len(file[output]) = next - 1
    /\ (pc = "receiving" /\ status = "200") => ~ Resumed
    /\ (pc = "receiving" /\ status = "206") => Ranged

\* Neither --continue-at nor --range.
Unranged == oc.resume = "none" /\ oc.range = None

\* What SuccessIsComplete says of a 200, already while the connection is being shut down.
Complete ==
    (pc \in {"shutting_down", "returned"} /\ status = "200" /\ output # "stdout"
        /\ method # "HEAD") =>
            file[output] \in Content /\ Len(file[output]) = BodyLen

IInv ==
    /\ TypeOK
    /\ AtStart
    /\ Trust
    /\ Routing
    /\ Budget
    /\ Written
    /\ FileIsPrefix
    /\ Complete

-------------------------------------------------------------------------------

\* The invariant holds when burl starts.
LEMMA InitInvariant == Init => IInv
<1> SUFFICES ASSUME Init PROVE IInv
  OBVIOUS
<1> USE OriginsAssumption, BoundsAssumption
<1>1. given \in 0..BodyLen /\ [i \in 1..given |-> i] \in Content
  BY DEF Init, Content
<1>2. file \in [File -> Content \cup {None}] /\ file["stdout"] \in Content
  BY <1>1 DEF Init, File, Content
<1>3. TypeOK
  <2>1. body \in BOOLEAN /\ method \in {"HEAD", "GET", "custom"}
    BY DEF Init
  <2>2. /\ trusted \in BOOLEAN /\ change \in BOOLEAN
        /\ authorization \in BOOLEAN /\ cookie \in BOOLEAN /\ unread \in BOOLEAN
    BY Zenon DEF Init
  <2>3. held \in SUBSET Nat
    BY DEF Init
  <2>4. QED
    BY <1>2, <2>1, <2>2, <2>3 DEF Init, TypeOK, File
<1>4. AtStart /\ Trust /\ Routing /\ Budget /\ Written /\ Complete
  BY <1>2 DEF Init, AtStart, Trust, Routing, Budget, Written, Complete, Awaiting
<1>5. FileIsPrefix
  BY <1>1 DEF Init, FileIsPrefix, Unranged, IsPrefix, File
<1>6. QED
  BY <1>3, <1>4, <1>5 DEF IInv

\* What opening a file does to the files.
LEMMA OpenedFacts ==
    ASSUME NEW files \in [File -> Content \cup {None}], NEW f \in File, NEW append \in BOOLEAN
    PROVE  /\ Opened(files, f, append) \in [File -> Content \cup {None}]
           /\ \A g \in File : g # f => Opened(files, f, append)[g] = files[g]
           /\ (files["stdout"] \in Content) =>
                /\ Opened(files, f, append)[f] \in Content
                /\ Opened(files, f, append)["stdout"] \in Content
           /\ (~ append /\ f # "stdout") => Opened(files, f, append)[f] = <<>>
<1>1. <<>> \in Content
  BY DEF Content
<1>2. QED
  BY <1>1 DEF Opened, File

\* What an exception does to them.
LEMMA CleanedFacts ==
    ASSUME NEW files \in [File -> Content \cup {None}]
    PROVE  /\ Cleaned(files) \in [File -> Content \cup {None}]
           /\ Cleaned(files)["stdout"] = files["stdout"]
           /\ \A g \in File : Cleaned(files)[g] \in {None, files[g]}
BY DEF Cleaned, File

\* The steps that only leave: an exception out of any place.
LEMMA ThrowInvariant ==
    ASSUME IInv, NEW how \in {"refused", "failed"}, NEW files, Throw(how, files),
           files \in [File -> Content \cup {None}],
           files["stdout"] \in Content,
           Unranged =>
               \A f \in {"path", "disposition"} : files[f] # None => IsPrefix(files[f]),
           pc \in Awaiting,
           UNCHANGED <<oc, given, attempts, requestVars>>,
           UNCHANGED <<conns, stream, connected, from>>,
           held' \in SUBSET Nat, unread' \in BOOLEAN, status' \in Status \cup {None},
           next' \in 1..(BodyLen + 1), output' \in File
    PROVE  IInv'
<1> USE DEF IInv
<1>1. file' \in [File -> Content \cup {None}] /\ file'["stdout"] \in Content
  BY CleanedFacts DEF Throw
<1>2. TypeOK'
  BY <1>1 DEF Throw, TypeOK, requestVars, Ended
<1>3. AtStart' /\ Trust' /\ Routing' /\ Written' /\ Complete'
  BY <1>1 DEF Throw, AtStart, Trust, Routing, Written, Complete, Awaiting
<1>4. Budget'
  BY BoundsAssumption DEF Throw, Budget, TypeOK, requestVars, Awaiting
<1>5. FileIsPrefix'
  BY CleanedFacts DEF Throw, FileIsPrefix, Unranged, File
<1>6. QED
  BY <1>2, <1>3, <1>4, <1>5

\* The beginning: a file that is there is left alone, or the output is opened.
LEMMA StartInvariant ==
    ASSUME IInv, Upload \/ Skip \/ Start
    PROVE  IInv'
<1> USE DEF IInv
<1>1. CASE Skip
  <2>1. TypeOK' /\ AtStart' /\ Trust' /\ Routing' /\ Written' /\ FileIsPrefix'
    BY <1>1 DEF Skip, requestVars, connVars, fileVars, TypeOK, Ended, AtStart, Trust, Routing,
       Written, Resumed, Ranged, Awaiting, FileIsPrefix, Unranged
  <2>2. Budget'
    BY <1>1, BoundsAssumption DEF Skip, requestVars, Budget, TypeOK
  <2>3. Complete'
    BY <1>1, NoneAssumption DEF Skip, Complete, AtStart, Status
  <2>4. QED
    BY <2>1, <2>2, <2>3
<1>2. CASE Start
  <2>1. oc \in Config /\ oc.output \in File /\ Resumed \in BOOLEAN
    BY ConfigsAssumption DEF TypeOK, Config, File, Resumed
  <2>2. /\ file' \in [File -> Content \cup {None}]
        /\ file'["stdout"] \in Content
        /\ file'[oc.output] \in Content
        /\ (~ Resumed /\ oc.output # "stdout") => file'[oc.output] = <<>>
        /\ \A g \in File : g # oc.output => file'[g] = file[g]
    BY <1>2, <2>1, OpenedFacts DEF Start, OpenedOutput, TypeOK, Written
  <2>3. from' \in Nat
    <3>1. \A f \in File : file[f] # None => Len(file[f]) \in Nat
      BY LenProperties DEF TypeOK, Content
    <3>2. given \in Nat
      BY BoundsAssumption DEF TypeOK
    <3>3. QED
      BY <1>2, <2>1, <3>1, <3>2, BoundsAssumption DEF Start, RangeFrom, ResumeFrom, File, Config
  <2>4. TypeOK'
    BY <1>2, <2>1, <2>2, <2>3 DEF Start, requestVars, connVars, TypeOK, Ended, Awaiting
  <2>5. AtStart' /\ Trust' /\ Routing' /\ Complete'
    BY <1>2 DEF Start, requestVars, connVars, AtStart, Trust, Routing, Complete
  <2>6. Written'
    BY <1>2, <2>2 DEF Start, Written, Resumed, Ranged, Awaiting
  <2>7. Budget'
    BY <1>2, BoundsAssumption DEF Start, requestVars, Budget, TypeOK
  <2>8. FileIsPrefix'
    <3> SUFFICES ASSUME Unranged, NEW f \in {"path", "disposition"}, file'[f] # None
                 PROVE  IsPrefix(file'[f])
      BY <1>2 DEF Start, FileIsPrefix, Unranged
    <3>1. CASE f = oc.output
      BY <2>2, <3>1 DEF Resumed, IsPrefix, Unranged
    <3>2. CASE f # oc.output
      BY <2>2, <3>2 DEF FileIsPrefix, Unranged, File
    <3>3. QED
      BY <3>1, <3>2
  <2>9. QED
    BY <2>4, <2>5, <2>6, <2>7, <2>8
<1>3. CASE Upload
  <2>1. TypeOK' /\ AtStart' /\ Trust' /\ Routing' /\ Written' /\ FileIsPrefix' /\ Complete'
    BY <1>3 DEF Upload, requestVars, connVars, fileVars, TypeOK, Ended, AtStart, Trust, Routing,
       Written, Resumed, Ranged, Awaiting, FileIsPrefix, Complete
  <2>2. Budget'
    BY <1>3, BoundsAssumption DEF Upload, requestVars, Budget, TypeOK
  <2> QED
    BY <2>1, <2>2
<1>4. QED
  BY <1>1, <1>2, <1>3

\* A request is sent: the first one, or the next one of a chain of redirects.
LEMMA SendInvariant ==
    ASSUME IInv, Connected \/ Discarded \/ Reconnected
    PROVE  IInv'
<1> USE DEF IInv
<1>1. /\ pc \in {"connecting", "discarding", "reconnecting"} /\ pc' = "requesting"
      /\ UNCHANGED <<oc, given, attempts, url, maxredirs, status, from, next, output, file>>
      /\ requests' = CountRequest
  BY DEF Connected, Discarded, Reconnected, NextRequest, fileVars
<1>2. /\ referer' = url /\ host' = url
      /\ (authorization' \/ cookie') => Trusts(url)
  BY DEF Connected, Discarded, Reconnected, NextRequest, AtStart, EraseAuthorization,
     SetCookies, Trusts
<1>3. connected' = url /\ held' \subseteq {stream'} /\ ~ unread'
  BY DEF Connected, Discarded, Reconnected, Connect, Routing
<1>4. TypeOK'
  <2>1. requests' \in Nat
    BY <1>1, BoundsAssumption DEF CountRequest, TypeOK
  <2>2. /\ conns' \in Nat /\ stream' \in Nat /\ held' \in SUBSET Nat
        /\ connected' \in Origins \cup {None}
    <3>1. CASE Discarded
      BY <3>1 DEF Discarded, TypeOK
    <3>2. CASE Connect(url)
      BY <3>2 DEF Connect, TypeOK
    <3>3. QED
      BY <3>1, <3>2 DEF Connected, Reconnected
  <2>3. /\ method' \in {"HEAD", "GET", "custom"} /\ referer' \in Origins /\ host' \in Origins
        /\ maxredirs' \in 0..MaxRedirs
    BY DEF Connected, Discarded, Reconnected, NextRequest, TypeOK
  <2>4. trusted' \in BOOLEAN /\ change' \in BOOLEAN /\ body' \in BOOLEAN
    <3>1. oc.unrestricted_auth \in BOOLEAN
      BY ConfigsAssumption DEF TypeOK, Config
    <3>2. QED
      BY <3>1 DEF Connected, Discarded, Reconnected, NextRequest, TypeOK, Trusts
  <2>5. authorization' \in BOOLEAN /\ cookie' \in BOOLEAN /\ unread' \in BOOLEAN
    <3>1. oc.unrestricted_auth \in BOOLEAN
      BY ConfigsAssumption DEF TypeOK, Config
    <3>2. QED
      BY <3>1 DEF Connected, Discarded, Reconnected, NextRequest, Connect, TypeOK, Trusts,
         EraseAuthorization, SetCookies
  <2>6. QED
    BY <1>1, <2>1, <2>2, <2>3, <2>4, <2>5 DEF TypeOK, Awaiting
<1>5. AtStart' /\ Trust' /\ Routing'
  BY <1>1, <1>2, <1>3 DEF AtStart, Trust, Routing, Trusts
<1>6. Budget'
  BY <1>1, BoundsAssumption DEF Budget, CountRequest, TypeOK
<1>7. Written' /\ FileIsPrefix' /\ Complete'
  BY <1>1 DEF Written, FileIsPrefix, Unranged, Complete, Awaiting, Resumed, Ranged
<1>8. QED
  BY <1>4, <1>5, <1>6, <1>7

\* The body of a redirect cannot be discarded.
LEMMA DiscardFailsInvariant ==
    ASSUME IInv, DiscardFails
    PROVE  IInv'
<1> USE DEF IInv
<1>1. TypeOK' /\ AtStart' /\ Trust' /\ Routing' /\ FileIsPrefix' /\ Complete'
  BY DEF DiscardFails, requestVars, connVars, fileVars, TypeOK, Awaiting, AtStart, Trust,
     Routing, FileIsPrefix, Unranged, Complete
<1>2. Written'
  BY DEF DiscardFails, fileVars, Written, Awaiting, Resumed, Ranged
<1>3. Budget'
  BY BoundsAssumption DEF DiscardFails, requestVars, Budget, TypeOK
<1>4. QED
  BY <1>1, <1>2, <1>3

\* A redirect is followed.
LEMMA FollowInvariant ==
    ASSUME IInv, NEW resp \in Response, Respond(resp), FollowRedirect(resp)
    PROVE  IInv'
<1> USE DEF IInv
<1>1. /\ pc = "requesting" /\ pc' \in {"discarding", "reconnecting"}
      /\ UNCHANGED <<oc, given, attempts, referer, trusted, method, body, authorization,
                     cookie, host, requests, status, from, next, output, file>>
      /\ UNCHANGED <<conns, stream, connected>>
      /\ held' = held \cup {stream} /\ unread' = TRUE
  BY DEF Respond, FollowRedirect, fileVars
<1>2. url' \in Origins /\ (pc' = "discarding" => url' = referer)
  BY OriginsAssumption DEF FollowRedirect, CanReuse
<1>3. maxredirs' = maxredirs - 1 /\ maxredirs' \in 0..MaxRedirs
  BY BoundsAssumption DEF FollowRedirect, CountRedirect, RedirectsLeft, TypeOK
<1>4. TypeOK'
  <2>1. change' \in BOOLEAN /\ unread' \in BOOLEAN
    <3>1. oc.post303 \in BOOLEAN
      BY ConfigsAssumption DEF TypeOK, Config
    <3>2. QED
      BY <1>1, <3>1 DEF FollowRedirect
  <2>2. held' \in SUBSET Nat
    BY <1>1 DEF TypeOK
  <2>3. QED
    BY <1>1, <1>2, <1>3, <2>1, <2>2 DEF TypeOK, Awaiting
<1>5. AtStart' /\ Trust' /\ Routing'
  BY <1>1, <1>2 DEF AtStart, Trust, Routing
<1>6. Budget'
  BY <1>1, <1>3, BoundsAssumption DEF Budget, TypeOK
<1>7. Written' /\ FileIsPrefix' /\ Complete'
  BY <1>1 DEF Written, FileIsPrefix, Unranged, Complete, Awaiting, Resumed, Ranged
<1>8. QED
  BY <1>4, <1>5, <1>6, <1>7

\* A redirect is refused.
LEMMA RefuseInvariant ==
    ASSUME IInv, NEW resp \in Response, Respond(resp), RefuseRedirect(resp)
    PROVE  IInv'
<1>1. held' \in SUBSET Nat /\ unread' \in BOOLEAN
  <2>1. held' = held \cup {stream} /\ held \subseteq Nat /\ stream \in Nat
    BY DEF Respond, IInv, TypeOK
  <2>2. unread' \in BOOLEAN
    BY Zenon DEF Respond
  <2>3. QED
    BY <2>1, <2>2
<1>2. /\ file \in [File -> Content \cup {None}] /\ file["stdout"] \in Content
      /\ status \in Status \cup {None} /\ next \in 1..(BodyLen + 1) /\ output \in File
      /\ Unranged =>
            \A f \in {"path", "disposition"} : file[f] # None => IsPrefix(file[f])
  BY DEF IInv, TypeOK, Written, FileIsPrefix, Unranged
<1>3. pc \in Awaiting
  BY DEF Respond, Awaiting
<1>4. QED
  BY <1>1, <1>2, <1>3, ThrowInvariant DEF Respond, RefuseRedirect

\* The final response: another file may be opened, and then the transfer fails, or
\* the body is received, or it is not looked at.
LEMMA FinalInvariant ==
    ASSUME IInv, NEW resp \in Response, Respond(resp), FinalResponse(resp)
    PROVE  IInv'
<1> USE DEF IInv
<1> DEFINE files == IF Disposed(resp) THEN Opened(file, "disposition", FALSE) ELSE file
           failsFast == oc.failonerror /\ resp.status \in HttpError
<1>1. /\ pc = "requesting" /\ RangeAnswer(resp, Ranged, from)
      /\ UNCHANGED <<oc, given, attempts, requestVars>>
      /\ UNCHANGED <<conns, stream, connected, from>>
      /\ status' = resp.status /\ status' \in Status
  BY DEF Respond, FinalResponse, Response
<1>2. held' \in SUBSET Nat /\ unread' \in BOOLEAN
  <2>1. held' = held \cup {stream} /\ held \subseteq Nat /\ stream \in Nat
    BY DEF Respond, TypeOK
  <2>2. unread' \in BOOLEAN
    BY Zenon DEF Respond
  <2>3. QED
    BY <2>1, <2>2
<1>3. next' \in 1..(BodyLen + 1) /\ (resp.status # "206" => next' = 1)
  BY <1>1, BoundsAssumption DEF FinalResponse, RangeAnswer, TypeOK
<1>4. output' \in File
  BY DEF FinalResponse, TypeOK, File
<1>5. /\ files \in [File -> Content \cup {None}]
      /\ files["stdout"] \in Content
      /\ Disposed(resp) => files["disposition"] = <<>>
      /\ \A g \in File : g # "disposition" => files[g] = file[g]
      /\ ~ Disposed(resp) => files = file
      /\ files[IF Disposed(resp) THEN "disposition" ELSE output] \in Content
  <2>1. file["stdout"] \in Content /\ file[output] \in Content
    BY <1>1 DEF Written, Awaiting
  <2>2. <<>> \in Content
    BY DEF Content
  <2>3. QED
    BY <2>1, <2>2, OpenedFacts DEF TypeOK, File
<1> HIDE DEF files
<1>6. Unranged =>
        \A f \in {"path", "disposition"} : files[f] # None => IsPrefix(files[f])
  <2> SUFFICES ASSUME Unranged, NEW f \in {"path", "disposition"}, files[f] # None
               PROVE  IsPrefix(files[f])
    OBVIOUS
  <2>1. CASE Disposed(resp) /\ f = "disposition"
    BY <1>5, <2>1 DEF IsPrefix
  <2>2. CASE ~ (Disposed(resp) /\ f = "disposition")
    BY <1>5, <2>2 DEF FileIsPrefix, Unranged, File
  <2>3. QED
    BY <2>1, <2>2
<1>7. CASE failsFast
  <2>1. Throw("refused", file)
    BY <1>7 DEF FinalResponse
  <2>2. /\ file \in [File -> Content \cup {None}] /\ file["stdout"] \in Content
        /\ Unranged =>
            \A f \in {"path", "disposition"} : file[f] # None => IsPrefix(file[f])
    BY DEF TypeOK, Written, FileIsPrefix, Unranged
  <2>3. QED
    BY <1>1, <1>2, <1>3, <1>4, <2>1, <2>2, ThrowInvariant DEF Awaiting
<1>8. CASE ~ failsFast /\ ~ RangeOk(resp)
  <2>1. Throw("refused", files)
    BY <1>8 DEF FinalResponse, files
  <2>2. QED
    BY <1>1, <1>2, <1>3, <1>4, <1>5, <1>6, <2>1, ThrowInvariant DEF Awaiting
<1>9. CASE ~ failsFast /\ RangeOk(resp) /\ Throw("refused", files)
  BY <1>1, <1>2, <1>3, <1>4, <1>5, <1>6, <1>9, ThrowInvariant DEF Awaiting
<1>10. CASE ~ failsFast /\ RangeOk(resp) /\ ~ Throw("refused", files)
  <2>1. /\ file' = files
        /\ output' = IF Disposed(resp) THEN "disposition" ELSE output
        /\ pc' = IF IgnoresBody(resp)
                 THEN IF oc.proxy THEN "returned" ELSE "shutting_down"
                 ELSE "receiving"
    BY <1>10 DEF FinalResponse, files, AfterBody, Finish
  <2>2. IgnoresBody(resp) => resp.status = "416"
    BY <1>10 DEF IgnoresBody, RangeOk
  <2>3. (Resumed /\ ~ IgnoresBody(resp)) => resp.status # "200"
    BY <1>1 DEF IgnoresBody, RangeAnswer
  <2>4. TypeOK'
    BY <1>1, <1>2, <1>3, <1>4, <1>5, <2>1 DEF TypeOK, requestVars, Ended, Awaiting
  <2>5. AtStart' /\ Trust' /\ Routing'
    BY <2>1 DEF AtStart, Trust, Routing
  <2>6. Budget'
    BY <1>1, <2>1, BoundsAssumption DEF Budget, TypeOK, requestVars
  <2>7. Written'
    <3>1. (~ Resumed /\ output' # "stdout") => file'[output'] = <<>>
      BY <1>1, <1>5, <2>1 DEF Written, Awaiting, TypeOK
    <3>2. file'[output'] \in Content /\ file'["stdout"] \in Content
      BY <1>5, <2>1
    <3>3. UNCHANGED Resumed /\ UNCHANGED Ranged
      BY <1>1 DEF Resumed, Ranged
    <3>4. Len(<<>>) = 0
      OBVIOUS
    <3>5. QED
      BY <1>1, <1>3, <2>1, <2>3, <3>1, <3>2, <3>3, <3>4 DEF Written, RangeAnswer
  <2>8. FileIsPrefix'
    BY <1>1, <1>6, <2>1 DEF FileIsPrefix, Unranged
  <2>9. Complete'
    BY <1>1, <2>1, <2>2 DEF Complete
  <2>10. QED
    BY <2>4, <2>5, <2>6, <2>7, <2>8, <2>9
<1>11. QED
  BY <1>7, <1>8, <1>9, <1>10

\* A unit of the body is written to the output.
LEMMA ReceiveInvariant ==
    ASSUME IInv, Receive
    PROVE  IInv'
<1> USE DEF IInv
<1>1. /\ pc = "receiving" /\ next \in 1..BodyLen /\ next' = next + 1
      /\ file' = [file EXCEPT ![output] = Append(@, next)]
      /\ UNCHANGED <<oc, given, attempts, pc, requestVars, connVars, status, from, output>>
  BY BoundsAssumption DEF Receive, BodyEnd, TypeOK
<1>2. /\ file[output] \in Content /\ output \in File
      /\ Append(file[output], next) \in Content
      /\ Len(Append(file[output], next)) = Len(file[output]) + 1
  <2>1. file[output] \in Content /\ output \in File
    BY <1>1 DEF Written, Awaiting, TypeOK
  <2>2. QED
    BY <1>1, <2>1, AppendProperties DEF Content
<1>3. /\ file' \in [File -> Content \cup {None}]
      /\ file'[output] = Append(file[output], next)
      /\ file'["stdout"] \in Content
      /\ \A g \in File : g # output => file'[g] = file[g]
  BY <1>1, <1>2 DEF TypeOK, Written, File
<1>4. TypeOK'
  BY <1>1, <1>3, BoundsAssumption DEF TypeOK, requestVars, connVars
<1>5. AtStart' /\ Trust' /\ Routing' /\ Complete'
  BY <1>1 DEF AtStart, Trust, Routing, Complete
<1>6. Budget'
  BY <1>1 DEF Budget, requestVars
<1>7. Written'
  <2>1. UNCHANGED Resumed /\ UNCHANGED Ranged
    BY <1>1 DEF Resumed, Ranged
  <2>2. Len(file[output]) \in Nat
    BY <1>2, LenProperties DEF Content
  <2>3. (~ Resumed /\ output # "stdout" /\ status # "206") => Len(file'[output]) = next' - 1
    BY <1>1, <1>2, <1>3, <2>2 DEF Written, Awaiting
  <2>4. QED
    BY <1>1, <1>2, <1>3, <2>1, <2>3 DEF Written
<1>8. FileIsPrefix'
  <2> SUFFICES ASSUME Unranged, NEW f \in {"path", "disposition"}, file'[f] # None
               PROVE  IsPrefix(file'[f])
    BY <1>1 DEF FileIsPrefix, Unranged
  <2>1. CASE f # output
    BY <1>3, <2>1 DEF FileIsPrefix, Unranged, File
  <2>2. CASE f = output
    <3>1. Len(file[output]) = next - 1
      BY <1>1, <2>2 DEF Written, Awaiting, Resumed, Unranged, Ranged
    <3>2. IsPrefix(file[output])
      BY <1>2, <2>2, NoneAssumption DEF FileIsPrefix, Unranged
    <3>3. \A i \in 1..next : Append(file[output], next)[i] = i
      <4>1. /\ \A i \in 1..Len(file[output]) : Append(file[output], next)[i] = file[output][i]
            /\ Append(file[output], next)[Len(file[output]) + 1] = next
        BY <1>1, <1>2, AppendProperties DEF Content
      <4>2. \A i \in 1..(next - 1) : file[output][i] = i
        BY <3>1, <3>2 DEF IsPrefix
      <4> QED
        BY <1>1, <3>1, <4>1, <4>2
    <3>4. Len(Append(file[output], next)) = next
      BY <1>1, <1>2, <3>1
    <3>5. QED
      BY <1>3, <2>2, <3>3, <3>4 DEF IsPrefix
  <2>3. QED
    BY <2>1, <2>2
<1>9. QED
  BY <1>4, <1>5, <1>6, <1>7, <1>8

\* The body is complete, or the connection was shut down: perform_request returns,
\* or throws because of --fail-with-body.
LEMMA EndInvariant ==
    ASSUME IInv, Received \/ ShutDown
    PROVE  IInv'
<1> USE DEF IInv
<1>1. /\ pc \in {"receiving", "shutting_down"}
      /\ UNCHANGED <<oc, given, attempts, requestVars>>
      /\ UNCHANGED connVars
      /\ UNCHANGED <<status, from, next, output>>
  BY DEF Received, ShutDown
<1>2. /\ file \in [File -> Content \cup {None}] /\ file["stdout"] \in Content
      /\ held \in SUBSET Nat /\ unread \in BOOLEAN
      /\ status \in Status \cup {None} /\ next \in 1..(BodyLen + 1) /\ output \in File
      /\ Unranged =>
            \A f \in {"path", "disposition"} : file[f] # None => IsPrefix(file[f])
  BY DEF TypeOK, Written, FileIsPrefix, Unranged
<1>3. CASE Throw("refused", file)
  BY <1>1, <1>2, <1>3, ThrowInvariant DEF connVars, Awaiting
<1>4. CASE pc' \in {"shutting_down", "returned"} /\ UNCHANGED file
  <2>1. TypeOK' /\ AtStart' /\ Trust' /\ Routing' /\ FileIsPrefix'
    BY <1>1, <1>4 DEF TypeOK, requestVars, connVars, Ended, Awaiting, AtStart, Trust, Routing,
       FileIsPrefix, Unranged
  <2>2. Budget'
    BY <1>1, <1>4 DEF Budget, requestVars
  <2>3. Written'
    BY <1>1, <1>4 DEF Written, Awaiting, Resumed, Ranged
  <2>4. Complete'
    <3>1. CASE pc = "receiving"
      <4>1. method # "HEAD" => next = BodyLen + 1
        BY <3>1, BoundsAssumption DEF Received, ShutDown, BodyEnd, TypeOK
      <4>2. file[output] \in Content
        BY <3>1 DEF Written, Awaiting
      <4>3. (status = "200" /\ output # "stdout") => Len(file[output]) = next - 1
        BY <3>1 DEF Written, Awaiting
      <4>4. QED
        BY <1>1, <1>4, <4>1, <4>2, <4>3, BoundsAssumption DEF Complete, requestVars
    <3>2. CASE pc = "shutting_down"
      BY <1>1, <1>4, <3>2 DEF Complete, requestVars
    <3>3. QED
      BY <1>1, <3>1, <3>2
  <2>5. QED
    BY <2>1, <2>2, <2>3, <2>4
<1>5. QED
  BY <1>3, <1>4 DEF Received, ShutDown, AfterBody, Finish

\* What is awaited fails.
LEMMA FailInvariant ==
    ASSUME IInv, AwaitFails
    PROVE  IInv'
<1>1. /\ file \in [File -> Content \cup {None}] /\ file["stdout"] \in Content
      /\ held \in SUBSET Nat /\ unread \in BOOLEAN
      /\ status \in Status \cup {None} /\ next \in 1..(BodyLen + 1) /\ output \in File
      /\ Unranged =>
            \A f \in {"path", "disposition"} : file[f] # None => IsPrefix(file[f])
  BY DEF IInv, TypeOK, Written, FileIsPrefix, Unranged
<1>2. QED
  BY <1>1, ThrowInvariant DEF AwaitFails, connVars, Awaiting

\* Another attempt begins as the first one did, with the files as they are.
LEMMA RetryInvariant ==
    ASSUME IInv, Retry
    PROVE  IInv'
<1> USE DEF IInv
<1>1. TypeOK'
  <2>1. body' \in BOOLEAN /\ method' \in {"HEAD", "GET", "custom"}
    BY DEF Retry
  <2>2. /\ trusted' \in BOOLEAN /\ change' \in BOOLEAN
        /\ authorization' \in BOOLEAN /\ cookie' \in BOOLEAN /\ unread' \in BOOLEAN
    BY Zenon DEF Retry
  <2>3. held' \in SUBSET Nat
    BY DEF Retry
  <2>4. attempts' \in 1..MaxAttempts
    BY BoundsAssumption DEF Retry, TypeOK
  <2>5. QED
    BY <2>1, <2>2, <2>3, <2>4, OriginsAssumption, BoundsAssumption DEF Retry, TypeOK, File
<1>2. AtStart' /\ Trust' /\ Routing' /\ Written' /\ FileIsPrefix' /\ Complete'
  BY DEF Retry, AtStart, Trust, Routing, Written, FileIsPrefix, Unranged, Complete, Awaiting
<1>3. Budget'
  BY BoundsAssumption DEF Retry, Budget
<1>4. QED
  BY <1>1, <1>2, <1>3

\* Every step preserves the invariant.
LEMMA StepInvariant == IInv /\ [Next]_vars => IInv'
<1> SUFFICES ASSUME IInv, [Next]_vars PROVE IInv'
  OBVIOUS
<1>1. CASE UNCHANGED vars
  BY <1>1 DEF vars, requestVars, connVars, fileVars, IInv, TypeOK, AtStart, Trust, Trusts,
     Routing, Budget, Written, Resumed, Ranged, FileIsPrefix, Unranged, Complete
<1>2. CASE Step
  <2>1. ASSUME NEW resp \in Response, Respond(resp) PROVE IInv'
    BY <2>1, FollowInvariant, RefuseInvariant, FinalInvariant DEF Respond
  <2>2. QED
    BY <1>2, <2>1, StartInvariant, SendInvariant, DiscardFailsInvariant, ReceiveInvariant,
       EndInvariant, FailInvariant, RetryInvariant DEF Step
<1>3. QED
  BY <1>1, <1>2 DEF Next, Terminated

\* The invariant holds always.
THEOREM Invariance == Spec => []IInv
BY InitInvariant, StepInvariant, PTL DEF Spec

\* The variables keep their types; above all the unsigned count of redirects left
\* never wraps.
THEOREM TypeCorrect == Spec => []TypeOK
<1>1. IInv => TypeOK
  BY DEF IInv
<1>2. QED
  BY <1>1, Invariance, PTL

\* Whatever chain of redirects leads there, credentials go to the origin of the
\* command line only, unless --location-trusted was given.
THEOREM CredentialsStay == Spec => []NoCredentialLeak
<1>1. IInv => NoCredentialLeak
  BY DEF IInv, Trust, Trusts, NoCredentialLeak
<1>2. QED
  BY <1>1, Invariance, PTL

\* A request travels on a connection made to the origin it names.
THEOREM RequestsReachOrigin == Spec => []RequestReachesOrigin
<1>1. IInv => RequestReachesOrigin
  BY DEF IInv, Routing, RequestReachesOrigin
<1>2. QED
  BY <1>1, Invariance, PTL

\* A response is read from its own connection, with nothing in front of it.
THEOREM ResponsesAreOwn == Spec => []ReadsOwnResponse
<1>1. IInv => ReadsOwnResponse
  BY DEF IInv, Routing, ReadsOwnResponse
<1>2. QED
  BY <1>1, Invariance, PTL

\* --max-redirs bounds the requests of an attempt, on reused connections too.
THEOREM RedirectsBounded == Spec => []RedirectBudget
<1>1. IInv => RedirectBudget
  BY BoundsAssumption DEF IInv, TypeOK, Budget, RedirectBudget
<1>2. QED
  BY <1>1, Invariance, PTL

\* Without --continue-at the files hold prefixes of the resource, over any number of
\* attempts.
THEOREM FilesArePrefixes == Spec => []FileIsPrefix
<1>1. IInv => FileIsPrefix
  BY DEF IInv
<1>2. QED
  BY <1>1, Invariance, PTL

-------------------------------------------------------------------------------
(***************************************************************************)
(* --continue-at <offset>.                                                 *)
(***************************************************************************)

\* At the first attempt the file is the one the user has, which ends where the range
\* begins, and so the units that arrive continue it.
Continued ==
    (attempts = 1 /\ oc.resume = "given" /\ oc.output = "path") =>
        /\ pc = "start" => IF given = 0 THEN file["path"] = None
                           ELSE file["path"] \in Content /\ Len(file["path"]) = given
        /\ pc \in Awaiting => from = given
        /\ pc \in Awaiting \ {"receiving", "shutting_down"} =>
                output = "path" /\ Len(file["path"]) = given
        /\ (status = "206" /\ output = "path") =>
            /\ pc = "receiving" => Len(file["path"]) = next - 1
            /\ (pc \in {"shutting_down", "returned"} /\ method # "HEAD") =>
                    file["path"] \in Content /\ Len(file["path"]) = BodyLen

\* perform_request ends with an exception.
LEMMA ThrowContinued ==
    ASSUME pc' \in {"refused", "failed"}
    PROVE  Continued'
BY DEF Continued, Awaiting

\* The user's file is opened.
LEMMA StartContinued ==
    ASSUME IInv, Continued, Start
    PROVE  Continued'
<1> SUFFICES ASSUME attempts = 1, oc.resume = "given", oc.output = "path", pc' = "connecting"
             PROVE  Continued'
  BY ThrowContinued DEF Start, Continued, Awaiting
<1>1. oc.range = None
  BY ConfigsAssumption DEF IInv, TypeOK
<1>2. from' = given
  BY <1>1 DEF Start, RangeFrom, ResumeFrom, Resumed
<1>3. Len(file'["path"]) = given
  <2>1. file \in [File -> Content \cup {None}] /\ given \in Nat
    BY BoundsAssumption DEF IInv, TypeOK
  <2>2. CASE given = 0
    BY <2>1, <2>2 DEF Start, OpenedOutput, Opened, Continued, File
  <2>3. CASE given # 0
    BY <2>3, NoneAssumption DEF Start, OpenedOutput, Opened, Continued, Resumed
  <2> QED
    BY <2>2, <2>3
<1>4. QED
  BY <1>2, <1>3 DEF Start, Continued, Awaiting

\* The final response.
LEMMA FinalContinued ==
    ASSUME IInv, Continued, NEW resp \in Response, Respond(resp), FinalResponse(resp)
    PROVE  Continued'
<1> DEFINE files == IF Disposed(resp) THEN Opened(file, "disposition", FALSE) ELSE file
<1>1. /\ pc = "requesting" /\ status' = resp.status
      /\ UNCHANGED <<oc, given, attempts, requestVars, from>>
      /\ next' = IF resp.status = "206" THEN from + 1 ELSE 1
  BY DEF Respond, FinalResponse
<1>2. CASE pc' \in {"refused", "failed"}
  BY <1>2, ThrowContinued
<1>3. CASE pc' \notin {"refused", "failed"}
  <2>1. file' = files /\ pc' \in {"receiving", "shutting_down", "returned"}
    BY <1>3 DEF FinalResponse, AfterBody, Finish, Throw
  <2>2. file'["path"] = file["path"]
    <3>1. file \in [File -> Content \cup {None}]
      BY DEF IInv, TypeOK
    <3> QED
      BY <2>1, <3>1, OpenedFacts DEF File
  <2>3. resp.status = "206" => pc' = "receiving"
    BY <1>3 DEF Respond, RangeAnswer, FinalResponse, IgnoresBody, Throw
  <2>4. from \in Nat
    BY DEF IInv, TypeOK
  <2> SUFFICES ASSUME attempts = 1, oc.resume = "given", oc.output = "path"
               PROVE  Continued'
    BY <1>1 DEF Continued
  <2>5. from = given /\ Len(file["path"]) = given
    BY <1>1 DEF Continued, Awaiting
  <2> HIDE DEF files
  <2> QED
    BY <1>1, <2>1, <2>2, <2>3, <2>4, <2>5 DEF Continued, Awaiting
<1> QED
  BY <1>2, <1>3

\* A unit arrives.
LEMMA ReceiveContinued ==
    ASSUME IInv, Continued, Receive
    PROVE  Continued'
<1>1. /\ file \in [File -> Content \cup {None}] /\ output \in File
      /\ next \in 1..BodyLen /\ file[output] \in Content
  BY BoundsAssumption DEF IInv, TypeOK, Written, Awaiting, Receive, BodyEnd
<1>2. Len(Append(file[output], next)) = Len(file[output]) + 1 /\ Len(file[output]) \in Nat
  BY <1>1, AppendProperties, LenProperties DEF Content
<1>3. output = "path" => Len(file'["path"]) = Len(file["path"]) + 1
  BY <1>1, <1>2 DEF Receive, File
<1> QED
  BY <1>1, <1>2, <1>3 DEF Receive, Continued, Awaiting

\* The body is complete, or the connection was shut down.
LEMMA EndContinued ==
    ASSUME IInv, Continued, Received \/ ShutDown
    PROVE  Continued'
<1>1. /\ UNCHANGED <<oc, given, attempts, requestVars>>
      /\ UNCHANGED <<status, from, next, output>>
      /\ pc \in {"receiving", "shutting_down"}
  BY DEF Received, ShutDown
<1>2. CASE pc' \in {"refused", "failed"}
  BY <1>2, ThrowContinued
<1>3. CASE pc' \notin {"refused", "failed"}
  <2>1. file' = file /\ pc' \in {"shutting_down", "returned"}
    BY <1>3 DEF Received, ShutDown, AfterBody, Finish, Throw
  <2>2. CASE pc = "receiving"
    <3>1. method # "HEAD" => next = BodyLen + 1
      BY <2>2, BoundsAssumption DEF Received, ShutDown, BodyEnd, IInv, TypeOK
    <3>2. file[output] \in Content
      BY <2>2 DEF IInv, Written, Awaiting
    <3> QED
      BY <1>1, <2>1, <2>2, <3>1, <3>2, BoundsAssumption DEF Continued, Awaiting, requestVars
  <2>3. CASE pc = "shutting_down"
    BY <1>1, <2>1, <2>3 DEF Continued, Awaiting, requestVars
  <2> QED
    BY <1>1, <2>2, <2>3
<1> QED
  BY <1>2, <1>3

\* Every step keeps Continued.
LEMMA ContinuedInvariant ==
    ASSUME IInv, Continued, [Next]_vars
    PROVE  Continued'
<1>1. CASE Upload
  BY <1>1, ThrowContinued DEF Upload
<1>2. CASE Skip
  BY <1>2, NoneAssumption DEF Skip, IInv, AtStart, Continued, Awaiting, Status
<1>3. CASE Start
  BY <1>3, StartContinued
<1>4. CASE Connected \/ Discarded \/ DiscardFails \/ Reconnected
  <2>1. /\ pc \in Awaiting \ {"receiving", "shutting_down"}
        /\ pc' \in {"requesting", "reconnecting"}
        /\ UNCHANGED <<oc, given, attempts, from, output, file>>
    BY <1>4 DEF Connected, Discarded, DiscardFails, Reconnected, NextRequest, fileVars, Awaiting
  <2> QED
    BY <2>1 DEF Continued, Awaiting
<1>5. ASSUME NEW resp \in Response, Respond(resp) PROVE Continued'
  <2>1. CASE FollowRedirect(resp)
    BY <1>5, <2>1 DEF Respond, FollowRedirect, fileVars, Continued, Awaiting
  <2>2. CASE RefuseRedirect(resp)
    BY <2>2, ThrowContinued DEF RefuseRedirect, Throw
  <2>3. CASE FinalResponse(resp)
    BY <1>5, <2>3, FinalContinued
  <2> QED
    BY <1>5, <2>1, <2>2, <2>3 DEF Respond
<1>6. CASE Receive
  BY <1>6, ReceiveContinued
<1>7. CASE Received \/ ShutDown
  BY <1>7, EndContinued
<1>8. CASE AwaitFails
  BY <1>8, ThrowContinued DEF AwaitFails, Throw
<1>9. CASE Retry
  <2>1. attempts' # 1
    BY <1>9 DEF Retry, IInv, TypeOK
  <2> QED
    BY <2>1 DEF Continued
<1>10. CASE UNCHANGED vars
  BY <1>10 DEF vars, requestVars, fileVars, Continued
<1> QED
  BY <1>1, <1>2, <1>3, <1>4, <1>5, <1>6, <1>7, <1>8, <1>9, <1>10 DEF Next, Step, Terminated

\* A success leaves the whole body in the output: a 200 the one it brings, and a 206 the
\* one whose beginning the user gave to --continue-at.
THEOREM SuccessesAreComplete == Spec => []SuccessIsComplete
<1>1. Init => Continued
  <2> SUFFICES ASSUME Init PROVE Continued
    OBVIOUS
  <2>1. given \in 0..BodyLen
    BY BoundsAssumption DEF Init
  <2>2. [i \in 1..given |-> i] \in Content /\ Len([i \in 1..given |-> i]) = given
    BY <2>1, BoundsAssumption DEF Content
  <2> QED
    BY <2>1, <2>2 DEF Init, Continued, Awaiting, File
<1>2. IInv /\ Continued /\ [Next]_vars => Continued'
  BY ContinuedInvariant
<1>3. IInv /\ Continued => SuccessIsComplete
  <2> SUFFICES ASSUME IInv, Continued, pc = "returned", output # "stdout", method # "HEAD"
               PROVE  /\ status = "200" => Holds(output, BodyLen)
                      /\ (status = "206" /\ oc.resume = "given" /\ attempts = 1
                            /\ output = oc.output) => Holds(output, BodyLen)
    BY DEF SuccessIsComplete
  <2>1. status = "200" => Holds(output, BodyLen)
    BY NoneAssumption DEF IInv, Complete, Holds
  <2>2. oc.output \in {"stdout", "path"}
    BY ConfigsAssumption DEF IInv, TypeOK, Config
  <2>3. QED
    BY <2>1, <2>2, NoneAssumption DEF Continued, Holds
<1> QED
  BY <1>1, <1>2, <1>3, Invariance, PTL DEF Spec

-------------------------------------------------------------------------------
(***************************************************************************)
(* --remove-on-error.                                                      *)
(***************************************************************************)

\* Nothing is written to before the output is opened, nor ever if it is not a file; and
\* after an exception output_path is gone, once scope_fail was armed.
Removed ==
    /\ pc = "start" \/ oc.output = "stdout" => output = "stdout"
    /\ RemovedOnError

\* An exception runs the clean-up.
LEMMA ThrowRemoves ==
    ASSUME TypeOK, NEW how \in {"refused", "failed"},
           NEW files \in [File -> Content \cup {None}], Throw(how, files),
           UNCHANGED oc, oc.output = "stdout" => output' = "stdout"
    PROVE  Removed'
<1>1. oc.output \in {"stdout", "path"}
  BY ConfigsAssumption DEF TypeOK, Config
<1>2. QED
  BY <1>1 DEF Throw, Cleaned, Removed, RemovedOnError, File

\* perform_request goes on, or returns.
LEMMA GoOnRemoved ==
    ASSUME Removed, pc' \notin {"refused", "failed"}, UNCHANGED oc,
           pc' = "start" \/ oc.output = "stdout" => output' = "stdout"
    PROVE  Removed'
BY DEF Removed, RemovedOnError

\* Every step keeps Removed.
LEMMA RemovedInvariant ==
    ASSUME IInv, Removed, [Next]_vars
    PROVE  Removed'
<1>t. TypeOK /\ file \in [File -> Content \cup {None}]
  BY DEF IInv, TypeOK
<1>0. CASE Upload
  BY <1>0 DEF Upload, fileVars, Removed, RemovedOnError
<1>1. CASE Skip \/ Retry
  BY <1>1, GoOnRemoved DEF Skip, Retry, fileVars, Removed
<1>2. CASE Start
  <2>1. CASE oc.prohibited
    BY <1>2, <2>1 DEF Start, Removed, RemovedOnError
  <2>2. CASE ~ oc.prohibited
    BY <1>2, <2>2, GoOnRemoved DEF Start
  <2> QED
    BY <2>1, <2>2
<1>3. CASE Connected \/ Discarded \/ DiscardFails \/ Reconnected
  BY <1>3, GoOnRemoved DEF Connected, Discarded, DiscardFails, Reconnected, NextRequest,
     fileVars, Removed
<1>4. ASSUME NEW resp \in Response, Respond(resp) PROVE Removed'
  <2>0. UNCHANGED oc
    BY <1>4 DEF Respond
  <2>1. CASE FollowRedirect(resp)
    BY <2>0, <2>1, GoOnRemoved DEF FollowRedirect, fileVars, Removed
  <2>2. CASE RefuseRedirect(resp)
    BY <1>t, <2>0, <2>2, ThrowRemoves DEF RefuseRedirect, Removed
  <2>3. CASE FinalResponse(resp)
    <3> DEFINE files == IF Disposed(resp) THEN Opened(file, "disposition", FALSE) ELSE file
               failsFast == oc.failonerror /\ resp.status \in HttpError
    <3>1. files \in [File -> Content \cup {None}]
      BY <1>t, OpenedFacts DEF File
    <3>2. oc.output = "stdout" => output' = "stdout"
      BY <2>3 DEF FinalResponse, Disposed, Removed
    <3>3. CASE failsFast
      BY <1>t, <2>0, <2>3, <3>2, <3>3, ThrowRemoves DEF FinalResponse
    <3>4. CASE ~ failsFast /\ ~ RangeOk(resp)
      <4>1. Throw("refused", files)
        BY <2>3, <3>4 DEF FinalResponse
      <4> QED
        BY <1>t, <2>0, <3>1, <3>2, <4>1, ThrowRemoves
    <3>5. CASE ~ failsFast /\ RangeOk(resp)
      <4>1. Throw("refused", files) \/ pc' \in {"returned", "shutting_down", "receiving"}
        BY <2>3, <3>5 DEF FinalResponse, AfterBody, Finish
      <4>2. CASE Throw("refused", files)
        BY <1>t, <2>0, <3>1, <3>2, <4>2, ThrowRemoves
      <4>3. CASE pc' \in {"returned", "shutting_down", "receiving"}
        BY <2>0, <3>2, <4>3, GoOnRemoved
      <4> QED
        BY <4>1, <4>2, <4>3
    <3> QED
      BY <3>3, <3>4, <3>5
  <2> QED
    BY <1>4, <2>1, <2>2, <2>3 DEF Respond
<1>5. CASE Receive
  BY <1>5, GoOnRemoved DEF Receive, Removed
<1>6. CASE Received \/ ShutDown
  <2>1. UNCHANGED <<oc, output>>
    BY <1>6 DEF Received, ShutDown
  <2>2. CASE Throw("refused", file)
    BY <1>t, <2>1, <2>2, ThrowRemoves DEF Removed
  <2>3. CASE pc' \in {"returned", "shutting_down"}
    BY <2>1, <2>3, GoOnRemoved DEF Removed
  <2> QED
    BY <1>6, <2>2, <2>3 DEF Received, ShutDown, AfterBody, Finish
<1>7. CASE AwaitFails
  BY <1>t, <1>7, ThrowRemoves DEF AwaitFails, Removed
<1>8. CASE UNCHANGED vars
  BY <1>8 DEF vars, fileVars, Removed, RemovedOnError
<1> QED
  BY <1>0, <1>1, <1>2, <1>3, <1>4, <1>5, <1>6, <1>7, <1>8 DEF Next, Step, Terminated

\* Once scope_fail is armed --remove-on-error leaves no file at output_path behind an
\* exception, in whichever step of perform_request and of whichever attempt it is
\* thrown, and whatever file the server chose.
THEOREM ErrorsRemoveOutput == Spec => []RemovedOnError
<1>1. Init => Removed
  BY DEF Init, Removed, RemovedOnError
<1>2. IInv /\ Removed /\ [Next]_vars => Removed'
  BY RemovedInvariant
<1>3. Removed => RemovedOnError
  BY DEF Removed
<1> QED
  BY <1>1, <1>2, <1>3, Invariance, PTL DEF Spec

-------------------------------------------------------------------------------
(***************************************************************************)
(* What perform_request relies on when it awaits async_request: proofs     *)
(* about ExpectContinue, whose variables are declared here next to those   *)
(* of Transfer.                                                            *)
(***************************************************************************)

VARIABLES
    progress,   \* the pc of async_request
    expect, state, timer, writer, reader, parser, ec1, ec2, failed, aborted,
    cancelled, inbox, phase, gone, overtaken

AR == INSTANCE ExpectContinue WITH pc <- progress

\* Until the header of the request is written nothing else has happened.
HeadOnly ==
    progress = "head" =>
        /\ state = "awaiting" /\ timer = "off" /\ writer = "idle" /\ reader = "idle"
        /\ phase = "silent" /\ ~ overtaken

\* A request without Expect has no timer, writes no body of its own and gets no 100.
OneChain ==
    /\ progress = "plain" => ~ expect /\ reader = "first"
    /\ ~ expect => timer = "off" /\ writer # "writing" /\ progress # "parallel"

\* The writer's chain and the reader's chain: the body waits for the timer's handler,
\* only the first read leaves the timer alone, and while the request goes on one of
\* the chains does.
TwoChains ==
    progress = "parallel" =>
        /\ reader # "idle"
        /\ timer # "over" => writer = "idle"
        /\ reader # "first" => timer # "waiting"
        /\ reader = "over" =>
            /\ writer = "writing" \/ timer # "over"
            /\ ~ ec2 => parser = "final"

\* What the server has sent and the client has not read yet: the 100 is the first, and
\* the second read starts when it was taken.
HeadersInOrder ==
    /\ phase = "silent" => inbox = <<>>
    /\ phase = "100" => expect /\ inbox \in {<<>>, <<"100">>}
    /\ phase = "final" => inbox \in {<<>>, <<"final">>, <<"100", "final">>}
    /\ ~ expect => inbox \in {<<>>, <<"final">>}
    /\ reader = "second" => phase # "silent" /\ inbox \in {<<>>, <<"final">>}

\* A final header that overtook the body has cancelled it.
BodyKept ==
    (expect /\ overtaken) => state = "cancelled" /\ reader = "over" /\ writer = "idle"

RequestInv ==
    /\ AR!TypeOK
    /\ HeadOnly
    /\ OneChain
    /\ TwoChains
    /\ HeadersInOrder
    /\ BodyKept
    /\ AR!SuccessIsFinal
    /\ AR!EndsQuiet

\* It holds before the request is written, ...
LEMMA RequestInit == AR!Init => RequestInv
<1> SUFFICES ASSUME AR!Init PROVE RequestInv
  OBVIOUS
<1>1. AR!TypeOK
  <2>1. <<>> \in Seq(AR!Header) /\ Len(<<>>) <= 2
    OBVIOUS
  <2> QED
    BY <2>1 DEF AR!Init, AR!TypeOK, AR!Header
<1> QED
  BY <1>1 DEF AR!Init, RequestInv, HeadOnly, OneChain, TwoChains, HeadersInOrder, BodyKept,
     AR!SuccessIsFinal, AR!EndsQuiet

\* Headers are added at the end and taken from the front.
LEMMA HeaderQueue ==
    /\ Append(<<>>, "100") = <<"100">> /\ Append(<<>>, "final") = <<"final">>
    /\ Append(<<"100">>, "final") = <<"100", "final">>
    /\ Head(<<"100">>) = "100" /\ Tail(<<"100">>) = <<>>
    /\ Head(<<"final">>) = "final" /\ Tail(<<"final">>) = <<>>
    /\ Head(<<"100", "final">>) = "100" /\ Tail(<<"100", "final">>) = <<"final">>
    /\ <<"100">> # <<>> /\ <<"final">> # <<>> /\ <<"100", "final">> # <<>>
    /\ <<"100">> # <<"final">> /\ <<"100">> # <<"100", "final">>
    /\ <<"final">> # <<"100", "final">>
<1>1. Append(<<>>, "100") = <<"100">>
  OBVIOUS
<1>2. Append(<<>>, "final") = <<"final">>
  OBVIOUS
<1>3. Append(<<"100">>, "final") = <<"100", "final">>
  <2> DEFINE a == Append(<<"100">>, "final")
             b == <<"100", "final">>
  <2>1. "final" \in {"100", "final"} /\ <<"100">> \in Seq({"100", "final"})
    OBVIOUS
  <2>2. Len(<<"100">>) = 1 /\ <<"100">>[1] = "100"
    OBVIOUS
  <2>3. a \in Seq({"100", "final"}) /\ Len(a) = 1 + 1 /\ a[1] = "100" /\ a[1 + 1] = "final"
    <3>1. /\ a \in Seq({"100", "final"})
          /\ Len(a) = Len(<<"100">>) + 1
          /\ \A i \in 1..Len(<<"100">>) : a[i] = <<"100">>[i]
          /\ a[Len(<<"100">>) + 1] = "final"
      BY <2>1, AppendProperties, SMT
    <3> HIDE DEF a
    <3> QED
      BY <2>2, <3>1
  <2>4. b \in Seq({"100", "final"})
    OBVIOUS
  <2>5. Len(b) = 2 /\ b[1] = "100" /\ b[2] = "final"
    OBVIOUS
  <2> HIDE DEF a, b
  <2>6. Len(a) = 2 /\ a[2] = "final"
    BY <2>3
  <2>7. \A i \in 1..Len(a) : a[i] = b[i]
    BY <2>3, <2>5, <2>6
  <2>8. a = b
    BY <2>3, <2>4, <2>5, <2>6, <2>7, SeqEqual
  <2> QED
    BY <2>8, Zenon DEF a, b
<1>4. Head(<<"100">>) = "100" /\ Tail(<<"100">>) = <<>>
  OBVIOUS
<1>5. Head(<<"final">>) = "final" /\ Tail(<<"final">>) = <<>>
  OBVIOUS
<1>6. Head(<<"100", "final">>) = "100" /\ Tail(<<"100", "final">>) = <<"final">>
  OBVIOUS
<1>7. <<"100">> # <<>> /\ <<"final">> # <<>> /\ <<"100", "final">> # <<>>
  OBVIOUS
<1>8. <<"100">> # <<"final">> /\ <<"100">> # <<"100", "final">>
      /\ <<"final">> # <<"100", "final">>
  OBVIOUS
<1> QED
  BY <1>1, <1>2, <1>3, <1>4, <1>5, <1>6, <1>7, <1>8, Zenon

\* Whatever order the headers come in, the queue has the right type.
LEMMA QueueType ==
    ASSUME NEW q, q \in {<<>>, <<"100">>, <<"final">>, <<"100", "final">>}
    PROVE  q \in Seq(AR!Header) /\ Len(q) <= 2
<1>1. CASE q = <<>>
  BY <1>1
<1>2. CASE q = <<"100">>
  BY <1>2 DEF AR!Header
<1>3. CASE q = <<"final">>
  BY <1>3 DEF AR!Header
<1>4. CASE q = <<"100", "final">>
  BY <1>4 DEF AR!Header
<1> QED
  BY <1>1, <1>2, <1>3, <1>4, Zenon

\* What is in the queue is one of these.
LEMMA QueueKnown ==
    ASSUME HeadersInOrder, phase \in {"silent", "100", "final"}
    PROVE  inbox \in {<<>>, <<"100">>, <<"final">>, <<"100", "final">>}
  BY DEF HeadersInOrder

\* The header of the request is written, or cannot be.
LEMMA HeadStep ==
    ASSUME RequestInv, AR!HeadWritten \/ AR!HeadFails
    PROVE  RequestInv'
<1> USE DEF RequestInv
<1>1. CASE AR!HeadWritten
  <2> USE <1>1 DEF AR!HeadWritten, AR!server
  <2>1. AR!TypeOK'
    BY DEF AR!TypeOK, HeadOnly
  <2>2. HeadOnly' /\ OneChain' /\ TwoChains'
    BY DEF AR!TypeOK, HeadOnly, OneChain, TwoChains
  <2>3. HeadersInOrder'
    BY DEF AR!TypeOK, HeadOnly, HeadersInOrder
  <2>4. BodyKept' /\ AR!SuccessIsFinal' /\ AR!EndsQuiet'
    BY DEF AR!TypeOK, HeadOnly, BodyKept, AR!SuccessIsFinal, AR!EndsQuiet
  <2> QED
    BY <2>1, <2>2, <2>3, <2>4
<1>2. CASE AR!HeadFails
  <2> USE <1>2 DEF AR!HeadFails, AR!server
  <2>1. AR!TypeOK'
    BY DEF AR!TypeOK
  <2>2. HeadOnly' /\ OneChain' /\ TwoChains'
    BY DEF AR!TypeOK, HeadOnly, OneChain, TwoChains
  <2>3. HeadersInOrder'
    BY DEF HeadersInOrder
  <2>4. BodyKept' /\ AR!SuccessIsFinal' /\ AR!EndsQuiet'
    BY DEF AR!TypeOK, HeadOnly, BodyKept, AR!SuccessIsFinal, AR!EndsQuiet
  <2> QED
    BY <2>1, <2>2, <2>3, <2>4
<1> QED
  BY <1>1, <1>2

\* The timer expires, and its handler sends the body unless the reader has cancelled it.
LEMMA TimerStep ==
    ASSUME RequestInv, AR!TimerExpires \/ AR!TimerHandler
    PROVE  RequestInv'
<1> USE DEF RequestInv
<1>1. CASE AR!TimerExpires
  <2> USE <1>1 DEF AR!TimerExpires, AR!server
  <2>0. progress = "parallel"
    BY DEF AR!TypeOK, HeadOnly, OneChain, AR!EndsQuiet
  <2>1. AR!TypeOK'
    BY DEF AR!TypeOK
  <2>2. HeadOnly' /\ OneChain' /\ TwoChains'
    BY <2>0 DEF AR!TypeOK, HeadOnly, OneChain, TwoChains
  <2>3. HeadersInOrder'
    BY DEF HeadersInOrder
  <2>4. BodyKept' /\ AR!SuccessIsFinal' /\ AR!EndsQuiet'
    BY <2>0 DEF BodyKept, AR!SuccessIsFinal, AR!EndsQuiet
  <2> QED
    BY <2>1, <2>2, <2>3, <2>4
<1>2. CASE AR!TimerHandler
  <2> USE <1>2 DEF AR!TimerHandler, AR!server, AR!Goes, AR!EndWhen
  <2>0. progress = "parallel" /\ expect /\ writer = "idle"
    BY DEF AR!TypeOK, HeadOnly, OneChain, TwoChains, AR!EndsQuiet
  <2>1. AR!TypeOK'
    BY <2>0 DEF AR!TypeOK
  <2>2. HeadOnly' /\ OneChain'
    BY <2>0 DEF AR!TypeOK, HeadOnly, OneChain
  <2>3. TwoChains'
    BY <2>0 DEF AR!TypeOK, TwoChains
  <2>4. HeadersInOrder'
    BY DEF HeadersInOrder
  <2>5. BodyKept'
    BY DEF BodyKept
  <2>6. AR!SuccessIsFinal' /\ AR!EndsQuiet'
    BY <2>0 DEF AR!TypeOK, TwoChains, AR!SuccessIsFinal, AR!EndsQuiet
  <2> QED
    BY <2>1, <2>2, <2>3, <2>4, <2>5, <2>6
<1> QED
  BY <1>1, <1>2

\* The write of the body ends.
LEMMA BodyStep ==
    ASSUME RequestInv, NEW fails \in BOOLEAN, AR!BodyWritten(fails)
    PROVE  RequestInv'
<1> USE DEF RequestInv, AR!BodyWritten, AR!server, AR!EndWhen
<1>0. progress = "parallel" /\ expect /\ timer = "over" /\ ~ overtaken
  BY DEF AR!TypeOK, HeadOnly, OneChain, TwoChains, BodyKept, AR!EndsQuiet
<1>1. AR!TypeOK'
  BY <1>0 DEF AR!TypeOK
<1>2. HeadOnly' /\ OneChain'
  BY <1>0 DEF AR!TypeOK, HeadOnly, OneChain
<1>3. TwoChains'
  BY <1>0 DEF AR!TypeOK, TwoChains
<1>4. HeadersInOrder'
  BY DEF HeadersInOrder
<1>5. BodyKept'
  BY <1>0 DEF BodyKept
<1>6. AR!SuccessIsFinal' /\ AR!EndsQuiet'
  BY <1>0 DEF AR!TypeOK, TwoChains, AR!SuccessIsFinal, AR!EndsQuiet
<1> QED
  BY <1>1, <1>2, <1>3, <1>4, <1>5, <1>6

\* A header is taken from the front of the queue: the 100 is never taken by the second
\* read nor by a request without Expect.
LEMMA HeaderTaken ==
    ASSUME RequestInv, NEW header \in AR!Header, NEW fails \in BOOLEAN,
           AR!ReadEnds(header, fails)
    PROVE  /\ inbox' \in {<<>>, <<"100">>, <<"final">>, <<"100", "final">>}
           /\ phase = "silent" => inbox' = <<>>
           /\ phase = "100" => inbox' \in {<<>>, <<"100">>}
           /\ ~ expect => inbox' \in {<<>>, <<"final">>}
           /\ reader = "second" => inbox' \in {<<>>, <<"final">>}
           /\ (~ fails /\ header = "100") =>
                 /\ expect /\ reader # "second" /\ phase # "silent"
                 /\ inbox' \in {<<>>, <<"final">>}
           /\ phase = "final" => inbox' \in {<<>>, <<"final">>, <<"100", "final">>}
<1> USE DEF RequestInv, AR!ReadEnds, HeadersInOrder
<1>0. inbox \in {<<>>, <<"100">>, <<"final">>, <<"100", "final">>}
  BY QueueKnown DEF AR!TypeOK, AR!Header
<1>1. CASE fails
  BY <1>0, <1>1
<1>2. CASE ~ fails
  <2>1. inbox # <<>> /\ header = Head(inbox) /\ inbox' = Tail(inbox)
    BY <1>2
  <2>2. CASE inbox = <<"100">>
    <3>1. header = "100" /\ inbox' = <<>>
      BY <2>1, <2>2, HeaderQueue, Zenon
    <3> QED
      BY <2>2, <3>1, HeaderQueue DEF AR!TypeOK, AR!Header
  <2>3. CASE inbox = <<"final">>
    <3>1. header = "final" /\ inbox' = <<>>
      BY <2>1, <2>3, HeaderQueue, Zenon
    <3> QED
      BY <2>3, <3>1, HeaderQueue
  <2>4. CASE inbox = <<"100", "final">>
    <3>1. header = "100" /\ inbox' = <<"final">>
      BY <2>1, <2>4, HeaderQueue, Zenon
    <3> QED
      BY <2>4, <3>1, HeaderQueue DEF AR!TypeOK, AR!Header
  <2> QED
    BY <1>0, <2>1, <2>2, <2>3, <2>4
<1> QED
  BY <1>1, <1>2

\* The end of a read leaves the rest alone.
LEMMA ReadFrame ==
    ASSUME RequestInv, NEW header \in AR!Header, NEW fails \in BOOLEAN,
           AR!ReadEnds(header, fails), reader' \in {"first", "second", "over"},
           reader' = "second" => ~ fails /\ header = "100"
    PROVE  HeadersInOrder' /\ inbox' \in Seq(AR!Header) /\ Len(inbox') <= 2
<1>1. HeadersInOrder'
  <2>1. phase' = phase /\ (expect' <=> expect)
    BY DEF AR!ReadEnds
  <2> QED
    BY <2>1, HeaderTaken DEF RequestInv, HeadersInOrder
<1>2. inbox' \in Seq(AR!Header) /\ Len(inbox') <= 2
  BY HeaderTaken, QueueType
<1> QED
  BY <1>1, <1>2

\* Without Expect the first header is the result.
LEMMA ReadPlainStep ==
    ASSUME RequestInv, NEW header \in AR!Header, NEW fails \in BOOLEAN,
           AR!ReadPlain(header, fails)
    PROVE  RequestInv'
<1> USE DEF RequestInv, AR!ReadPlain
<1>0. ~ expect /\ reader = "first" /\ timer = "off" /\ writer # "writing"
  BY DEF OneChain
<1>1. ~ fails => header = "final"
  BY <1>0, HeaderTaken DEF AR!Header
<1>2. HeadersInOrder' /\ inbox' \in Seq(AR!Header) /\ Len(inbox') <= 2
  BY ReadFrame
<1>3. AR!TypeOK'
  BY <1>2 DEF AR!TypeOK, AR!ReadEnds
<1>4. HeadOnly' /\ OneChain' /\ TwoChains' /\ BodyKept'
  BY <1>0 DEF AR!ReadEnds, HeadOnly, OneChain, TwoChains, BodyKept
<1>5. AR!SuccessIsFinal' /\ AR!EndsQuiet'
  BY <1>0, <1>1 DEF AR!ReadEnds, AR!SuccessIsFinal, AR!EndsQuiet
<1> QED
  BY <1>2, <1>3, <1>4, <1>5

\* The first read of a request with Expect: a final header, or an error, cancels the
\* body, and a 100 has the second read follow.
LEMMA ReadFirstStep ==
    ASSUME RequestInv, NEW header \in AR!Header, NEW fails \in BOOLEAN,
           AR!ReadFirst(header, fails)
    PROVE  RequestInv'
<1> USE DEF RequestInv, AR!ReadFirst
<1>0. expect /\ progress = "parallel" /\ reader = "first" /\ ~ overtaken
  BY DEF OneChain, BodyKept
<1>1. /\ AR!ReadEnds(header, fails)
      /\ timer' \in {"queued", "over"} /\ (timer' = "over" <=> timer = "over")
      /\ writer' = writer /\ (expect' <=> expect)
  BY <1>0 DEF AR!CancelTimer, AR!ReadEnds, AR!TypeOK
<1>2. CASE AR!IsResponse(header, fails)
  <2>1. /\ state' = "cancelled" /\ reader' = "over" /\ ec2' = fails
        /\ AR!EndWhen(writer # "writing" /\ timer = "over", ec1, fails)
    BY <1>2
  <2>2. HeadersInOrder' /\ inbox' \in Seq(AR!Header) /\ Len(inbox') <= 2
    BY <1>1, <2>1, ReadFrame
  <2>3. ~ fails => parser' = "final"
    BY <1>1, <1>2 DEF AR!IsResponse, AR!ReadEnds, AR!Header
  <2>4. AR!TypeOK'
    BY <1>0, <1>1, <2>1, <2>2 DEF AR!TypeOK, AR!ReadEnds, AR!EndWhen
  <2>5. HeadOnly' /\ OneChain' /\ TwoChains'
    BY <1>0, <1>1, <2>1, <2>3 DEF AR!TypeOK, AR!EndWhen, HeadOnly, OneChain, TwoChains
  <2>6. BodyKept'
    BY <1>0, <1>1, <2>1 DEF AR!ReadEnds, BodyKept
  <2>7. AR!SuccessIsFinal' /\ AR!EndsQuiet'
    BY <1>0, <1>1, <2>1, <2>3 DEF AR!EndWhen, AR!SuccessIsFinal, AR!EndsQuiet
  <2> QED
    BY <2>2, <2>4, <2>5, <2>6, <2>7
<1>3. CASE ~ AR!IsResponse(header, fails)
  <2>1. state' = "received" /\ reader' = "second" /\ UNCHANGED <<ec2, progress, failed>>
    BY <1>3
  <2>2. ~ fails /\ header = "100"
    BY <1>3 DEF AR!IsResponse
  <2>3. HeadersInOrder' /\ inbox' \in Seq(AR!Header) /\ Len(inbox') <= 2
    BY <1>1, <2>1, <2>2, ReadFrame
  <2>4. AR!TypeOK'
    BY <1>0, <1>1, <2>1, <2>3 DEF AR!TypeOK, AR!ReadEnds
  <2>5. HeadOnly' /\ OneChain' /\ TwoChains'
    BY <1>0, <1>1, <2>1 DEF HeadOnly, OneChain, TwoChains
  <2>6. BodyKept' /\ AR!SuccessIsFinal' /\ AR!EndsQuiet'
    BY <1>0, <1>1, <2>1, <2>2 DEF AR!ReadEnds, BodyKept, AR!SuccessIsFinal, AR!EndsQuiet
  <2> QED
    BY <2>3, <2>4, <2>5, <2>6
<1> QED
  BY <1>2, <1>3

\* The read after a 100: only a final header is left.
LEMMA ReadSecondStep ==
    ASSUME RequestInv, NEW header \in AR!Header, NEW fails \in BOOLEAN,
           AR!ReadSecond(header, fails)
    PROVE  RequestInv'
<1> USE DEF RequestInv, AR!ReadSecond
<1>0. expect /\ progress = "parallel" /\ reader = "second" /\ ~ overtaken
      /\ timer \in {"queued", "over"}
  BY DEF OneChain, TwoChains, BodyKept, AR!TypeOK
<1>1. /\ AR!ReadEnds(header, fails) /\ reader' = "over" /\ ec2' = fails
      /\ AR!EndWhen(writer # "writing" /\ timer = "over", ec1, fails)
      /\ timer' = timer /\ writer' = writer /\ (expect' <=> expect)
  BY DEF AR!ReadEnds
<1>2. HeadersInOrder' /\ inbox' \in Seq(AR!Header) /\ Len(inbox') <= 2
  BY <1>1, ReadFrame
<1>3. ~ fails => parser' = "final"
  BY <1>0, <1>1, HeaderTaken DEF AR!ReadEnds, AR!Header
<1>4. AR!TypeOK'
  BY <1>0, <1>1, <1>2 DEF AR!TypeOK, AR!ReadEnds, AR!EndWhen
<1>5. HeadOnly' /\ OneChain' /\ TwoChains'
  BY <1>0, <1>1, <1>3 DEF AR!TypeOK, AR!EndWhen, HeadOnly, OneChain, TwoChains
<1>6. BodyKept'
  BY <1>0, <1>1 DEF AR!ReadEnds, BodyKept
<1>7. AR!SuccessIsFinal' /\ AR!EndsQuiet'
  BY <1>0, <1>1, <1>3 DEF AR!EndWhen, AR!SuccessIsFinal, AR!EndsQuiet
<1> QED
  BY <1>2, <1>4, <1>5, <1>6, <1>7

\* Cancellation only marks operations and queues the timer's handler.
LEMMA CancelStep ==
    ASSUME RequestInv, AR!Cancel
    PROVE  RequestInv'
<1> USE DEF RequestInv, AR!Cancel, AR!CancelTimer, AR!server
<1>1. AR!TypeOK'
  BY DEF AR!TypeOK
<1>2. HeadOnly' /\ OneChain' /\ TwoChains'
  BY DEF HeadOnly, OneChain, TwoChains
<1>3. HeadersInOrder' /\ BodyKept'
  BY DEF HeadersInOrder, BodyKept
<1>4. AR!SuccessIsFinal' /\ AR!EndsQuiet'
  BY DEF AR!SuccessIsFinal, AR!EndsQuiet
<1> QED
  BY <1>1, <1>2, <1>3, <1>4

\* The server sends a 100 or a final header, or leaves.
LEMMA ServerStep ==
    ASSUME RequestInv, AR!ServerContinues \/ AR!ServerAnswers \/ AR!ServerLeaves
    PROVE  RequestInv'
<1> USE DEF RequestInv
<1>0. progress # "head" \/ AR!ServerLeaves
  BY DEF AR!ServerContinues, AR!ServerAnswers
<1>1. /\ UNCHANGED AR!client /\ UNCHANGED <<aborted, cancelled, overtaken>>
      /\ gone' \in BOOLEAN /\ phase' \in {"silent", "100", "final"}
      /\ progress = "head" => phase' = phase
  BY DEF AR!ServerContinues, AR!ServerAnswers, AR!ServerLeaves, AR!TypeOK, AR!Header
<1>2. HeadersInOrder'
  <2>1. CASE AR!ServerContinues
    <3>1. inbox' = <<"100">> /\ phase' = "100" /\ expect /\ reader # "second"
      BY <2>1, HeaderQueue DEF AR!ServerContinues, HeadersInOrder
    <3> QED
      BY <1>1, <3>1 DEF HeadersInOrder, AR!client
  <2>2. CASE AR!ServerAnswers
    <3>1. phase' = "final" /\ phase \in {"silent", "100"} /\ inbox' = Append(inbox, "final")
      BY <2>2 DEF AR!ServerAnswers, AR!TypeOK, AR!Header
    <3>2. CASE inbox = <<>>
      <4>1. inbox' = <<"final">>
        BY <3>1, <3>2, HeaderQueue, Zenon
      <4> QED
        BY <1>1, <3>1, <4>1 DEF HeadersInOrder, AR!client
    <3>3. CASE inbox # <<>>
      <4>1. inbox = <<"100">> /\ expect /\ reader # "second"
        BY <3>1, <3>3, HeaderQueue DEF HeadersInOrder
      <4>2. inbox' = <<"100", "final">>
        BY <3>1, <4>1, HeaderQueue, Zenon
      <4> QED
        BY <1>1, <3>1, <4>1, <4>2 DEF HeadersInOrder, AR!client
    <3> QED
      BY <3>2, <3>3
  <2>3. CASE AR!ServerLeaves
    BY <1>1, <2>3 DEF AR!ServerLeaves, HeadersInOrder, AR!client
  <2> QED
    BY <2>1, <2>2, <2>3
<1>3. inbox' \in {<<>>, <<"100">>, <<"final">>, <<"100", "final">>}
  BY <1>1, <1>2 DEF HeadersInOrder
<1>4. AR!TypeOK'
  <2>1. inbox' \in Seq(AR!Header) /\ Len(inbox') <= 2
    BY <1>3, QueueType
  <2> QED
    BY <1>1, <2>1 DEF AR!TypeOK, AR!client, AR!Header
<1>5. HeadOnly' /\ OneChain' /\ TwoChains' /\ BodyKept'
  BY <1>1 DEF AR!client, HeadOnly, OneChain, TwoChains, BodyKept
<1>6. AR!SuccessIsFinal' /\ AR!EndsQuiet'
  BY <1>1 DEF AR!client, AR!SuccessIsFinal, AR!EndsQuiet
<1> QED
  BY <1>2, <1>4, <1>5, <1>6

\* ... and every step of either chain and of the server keeps it.
LEMMA RequestStep == RequestInv /\ [AR!Next]_AR!vars => RequestInv'
<1> SUFFICES ASSUME RequestInv, [AR!Next]_AR!vars PROVE RequestInv'
  OBVIOUS
<1>1. CASE AR!Writes
  BY <1>1, HeadStep, BodyStep DEF AR!Writes
<1>2. CASE AR!Reads
  BY <1>2, ReadPlainStep, ReadFirstStep, ReadSecondStep DEF AR!Reads
<1>3. CASE AR!TimerExpires \/ AR!TimerHandler
  BY <1>3, TimerStep
<1>4. CASE AR!Cancel
  BY <1>4, CancelStep
<1>5. CASE AR!ServerContinues \/ AR!ServerAnswers \/ AR!ServerLeaves
  BY <1>5, ServerStep
<1>6. CASE UNCHANGED AR!vars
  BY <1>6 DEF AR!vars, AR!client, AR!server, RequestInv, AR!TypeOK, HeadOnly, OneChain,
     TwoChains, HeadersInOrder, BodyKept, AR!SuccessIsFinal, AR!EndsQuiet
<1> QED
  BY <1>1, <1>2, <1>3, <1>4, <1>5, <1>6 DEF AR!Next, AR!Terminated

\* The inductive invariant of async_request.
THEOREM RequestInvariance == AR!Spec => []RequestInv
<1> QED
  BY RequestInit, RequestStep, PTL DEF AR!Spec

\* Type correctness of ExpectContinue.
THEOREM RequestTypeCorrect == AR!Spec => []AR!TypeOK
<1>1. RequestInv => AR!TypeOK
  BY DEF RequestInv
<1> QED
  BY <1>1, RequestInvariance, PTL

\* A final response that overtakes the body keeps it from being sent, in whichever
\* order the timer's handler, the two reads and a cancellation run.
THEOREM FinalsStopBodies == AR!Spec => []AR!FinalStopsBody
<1>1. RequestInv => AR!FinalStopsBody
  BY DEF RequestInv, BodyKept, AR!FinalStopsBody
<1> QED
  BY <1>1, RequestInvariance, PTL

\* A request that succeeds has its final header in the parser, not a 100.
THEOREM SuccessesAreFinal == AR!Spec => []AR!SuccessIsFinal
<1>1. RequestInv => AR!SuccessIsFinal
  BY DEF RequestInv
<1> QED
  BY <1>1, RequestInvariance, PTL

\* async_request ends only when its timer, its write and its reads have ended.
THEOREM RequestsEndQuiet == AR!Spec => []AR!EndsQuiet
<1>1. RequestInv => AR!EndsQuiet
  BY DEF RequestInv
<1> QED
  BY <1>1, RequestInvariance, PTL
===============================================================================
