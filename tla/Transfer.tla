------------------------------- MODULE Transfer -------------------------------
(***************************************************************************)
(* burl's perform_request: one URL fetched into one output file, across    *)
(* redirects, reconnects and the attempts of retry().                      *)
(*                                                                         *)
(* A step is what runs between two co_awaits.  A URL is abstracted to its  *)
(* origin, a resource to the units 1..BodyLen of its body (an error page   *)
(* has units too), and a response to what the function looks at.           *)
(* Connections are numbered, so that bytes left over from one can be told  *)
(* from those of another.  Progress output, --include and the cookie jar   *)
(* do not change what is described here.                                   *)
(***************************************************************************)
EXTENDS Naturals, Sequences

CONSTANTS
    Origins,        \* scheme, host and port of the URLs servers redirect to
    Org,            \* the origin of the URL on the command line
    Allowed,        \* origins whose scheme --proto-redir allows
    Configs,        \* the combinations of options to look at
    Given,          \* offsets given with --continue-at
    MaxRedirs,      \* oc.maxredirs
    BodyLen,        \* bound: units of the resource
    MaxAttempts,    \* 1 + oc.req_retry
    None

(***************************************************************************)
(* operation_config, as far as perform_request branches on it.             *)
(***************************************************************************)
Config ==
    [followlocation : BOOLEAN, post303 : BOOLEAN, unrestricted_auth : BOOLEAN,
     failonerror : BOOLEAN, failwithbody : BOOLEAN, rm_partial : BOOLEAN,
     skip_existing : BOOLEAN, proxy : BOOLEAN,
     output : {"stdout", "path"},               \* --output or --remote-name
     content_disposition : BOOLEAN,             \* with --remote-name
     resume : {"none", "given", "current"},     \* --continue-at <offset> or -
     range : (0..BodyLen) \cup {None},          \* --range: its first unit, minus 1
     prohibited : BOOLEAN,      \* userinfo in the URL and the option against it
     upload : BOOLEAN,          \* --upload-file
     no_body : BOOLEAN]         \* --head

ASSUME OriginsAssumption == Org \in Origins /\ Allowed \subseteq Origins /\ None \notin Origins
ASSUME BoundsAssumption ==
    /\ MaxRedirs \in Nat /\ BodyLen \in Nat \ {0} /\ MaxAttempts \in Nat \ {0}
    /\ Given \subseteq 0..BodyLen

\* parse_args refuses the other combinations.
ASSUME ConfigsAssumption ==
    /\ Configs \subseteq Config
    /\ \A oc \in Configs :
        /\ ~ (oc.failonerror /\ oc.failwithbody)
        /\ oc.resume # "none" => ~ oc.rm_partial /\ oc.range = None

VARIABLES
    oc,             \* the options, fixed
    given,          \* the offset of --continue-at: what the user has already
    attempts,       \* how often perform_request was called
    pc,             \* where perform_request is suspended, or how it ended
    url,            \* the URL requested now
    referer,        \* the URL requested before
    trusted,        \* credentials may be sent
    maxredirs,      \* redirects left
    change,         \* need_method_change of the redirect being followed
    method,         \* "HEAD", "GET" or the one of the command line
    body,           \* msg is not empty
    authorization,  \* the request has an Authorization field
    cookie,         \* ... a Cookie field with the cookies of the command line
    host,           \* ... and this Host field
    requests,       \* history: requests sent by this attempt
    conns,          \* history: connections made by this attempt
    stream,         \* the number of the connection in use, or 0
    connected,      \* and the origin it was made to
    held,           \* connections that have left bytes in the parser
    unread,         \* the body of the last response is still to be read
    status,         \* the final status
    from,           \* first unit of the range asked for, minus 1
    next,           \* next unit of the body to arrive
    output,         \* the file that `output` has open
    file            \* the files

requestVars == <<url, referer, trusted, maxredirs, change, method, body,
                 authorization, cookie, host, requests>>
connVars == <<conns, stream, connected, held, unread>>
fileVars == <<from, next, output, file>>
vars == <<oc, given, attempts, pc, requestVars, connVars, status, fileVars>>

File == {"stdout", "path", "disposition"}
Content == Seq(1..BodyLen)
Awaiting == {"connecting", "requesting", "discarding", "reconnecting", "receiving",
             "shutting_down"}
Ended == {"returned", "refused", "failed"}

Redirect == {"303", "307"}
HttpError == {"416", "503"}
Status == Redirect \cup HttpError \cup {"200", "206"}
Response == [status : Status, close : BOOLEAN, location : Origins \cup {None},
             filename : BOOLEAN,        \* in Content-Disposition
             range : BOOLEAN]           \* it has a Content-Range
ASSUME NoneAssumption == None \notin Status /\ None \notin Content /\ None \notin Nat

\* What an honest server says to a request with or without a Range: one that cannot
\* be satisfied may be described too ("bytes */<length>").
RangeAnswer(resp, ranged, offset) ==
    /\ resp.status = "206" => resp.range /\ ranged /\ offset < BodyLen
    /\ resp.status = "416" => ranged /\ offset >= BodyLen
    /\ resp.range => resp.status \in {"206", "416"}

TypeOK ==
    /\ oc \in Configs
    /\ given \in Given
    /\ attempts \in 1..MaxAttempts
    /\ pc \in {"start"} \cup Awaiting \cup Ended
    /\ url \in Origins /\ referer \in Origins /\ host \in Origins
    /\ trusted \in BOOLEAN /\ change \in BOOLEAN /\ body \in BOOLEAN
    /\ authorization \in BOOLEAN /\ cookie \in BOOLEAN /\ unread \in BOOLEAN
    /\ maxredirs \in 0..MaxRedirs
    /\ method \in {"HEAD", "GET", "custom"}
    /\ requests \in Nat /\ conns \in Nat /\ stream \in Nat
    /\ connected \in Origins \cup {None}
    /\ held \in SUBSET Nat
    /\ status \in Status \cup {None}
    /\ from \in Nat /\ next \in 1..(BodyLen + 1)
    /\ output \in File
    /\ file \in [File -> Content \cup {None}]

Init ==
    /\ oc \in Configs
    /\ given \in Given
    /\ file = [f \in File |-> IF f = "path" /\ given > 0 THEN [i \in 1..given |-> i]
                              ELSE IF f = "stdout" THEN <<>> ELSE None]
    /\ attempts = 1
    /\ pc = "start"
    /\ url = Org /\ referer = Org /\ host = Org
    /\ trusted = TRUE /\ change = FALSE
    /\ method = (IF oc.no_body THEN "HEAD" ELSE "custom")
    /\ body = ~ oc.no_body
    /\ authorization = TRUE /\ cookie = FALSE
    /\ maxredirs = MaxRedirs
    /\ requests = 0 /\ conns = 0 /\ stream = 0 /\ connected = None
    /\ held = {} /\ unread = FALSE
    /\ status = None
    /\ from = 0 /\ next = 1
    /\ output = "stdout"

-------------------------------------------------------------------------------
(***************************************************************************)
(* The output file.                                                        *)
(***************************************************************************)

\* any_ostream{path, append}: an existing file is kept or truncated.
Opened(files, f, append) ==
    IF f = "stdout" \/ (append /\ files[f] # None)
    THEN files
    ELSE [files EXCEPT ![f] = <<>>]

\* Fault: the partial file stays when the transfer failed half-way.
KeptPartial(files) == files

\* scope_fail: with --remove-on-error output_path is removed.
Cleaned(files) ==
    IF oc.rm_partial /\ oc.output # "stdout"
    THEN [files EXCEPT !["path"] = None]
    ELSE files

\* perform_request ends with an exception: a runtime_error ("refused"), which
\* retry() passes on, or a system_error ("failed"), which it may look at.
Throw(how, files) ==
    /\ pc' = how
    /\ file' = Cleaned(files)

-------------------------------------------------------------------------------
(***************************************************************************)
(* The beginning, up to the first connect.                                 *)
(***************************************************************************)

\* oc.resume_from has a value: for --continue-at - it gets one only if the output
\* is a file.
Resumed == oc.resume = "given" \/ (oc.resume = "current" /\ oc.output # "stdout")

\* What resume_from ends up as.  For --continue-at - the code asks for the size
\* of output_path in the initialiser of output_path itself: the object read is
\* the path being built if the compiler elides the copy, and garbage otherwise.
ResumeFrom ==
    CASE ~ Resumed -> {0}
      [] oc.resume = "given" -> {given}
      [] OTHER -> {0, IF file["path"] = None THEN 0 ELSE Len(file["path"])}

\* create_request: the request has a Range, from --continue-at or --range.
Ranged == Resumed \/ oc.range # None

\* ... and this is its first unit, minus 1.
RangeFrom == IF oc.range # None THEN {oc.range} ELSE ResumeFrom

\* Fault: a retried transfer appends to what the last one left.
OpenedToAppend(files) == Opened(files, oc.output, TRUE)

OpenedOutput(files) == Opened(files, oc.output, Resumed)

\* A file to upload: refused before anything else is done.
Upload ==
    /\ pc = "start"
    /\ oc.upload
    /\ pc' = "refused"
    /\ UNCHANGED <<oc, given, attempts, requestVars, connVars, status, fileVars>>

\* --skip-existing.
Skip ==
    /\ pc = "start"
    /\ ~ oc.upload
    /\ oc.skip_existing /\ oc.output # "stdout" /\ file[oc.output] # None
    /\ pc' = "returned"
    /\ UNCHANGED <<oc, given, attempts, requestVars, connVars, status, fileVars>>

\* The output is opened and the request made, which may be refused; only then is
\* scope_fail armed.
Start ==
    /\ pc = "start"
    /\ ~ oc.upload
    /\ ~ (oc.skip_existing /\ oc.output # "stdout" /\ file[oc.output] # None)
    /\ from' \in RangeFrom
    /\ output' = oc.output
    /\ file' = OpenedOutput(file)
    /\ pc' = IF oc.prohibited THEN "refused" ELSE "connecting"
    /\ UNCHANGED <<oc, given, attempts, requestVars, connVars, status, next>>

-------------------------------------------------------------------------------
(***************************************************************************)
(* Connections and requests.                                               *)
(***************************************************************************)

\* Fault: what the parser holds of the old connection is kept.
ConnectKeepingParser(origin) ==
    /\ conns' = conns + 1
    /\ stream' = conns + 1
    /\ connected' = origin
    /\ unread' = FALSE
    /\ UNCHANGED held

\* connect_to succeeded; parser.reset().
Connect(origin) ==
    /\ conns' = conns + 1
    /\ stream' = conns + 1
    /\ connected' = origin
    /\ unread' = FALSE
    /\ held' = {}

\* The history counter stops just above the bound that RedirectBudget is about.
CountRequest == IF requests <= MaxRedirs + 1 THEN requests + 1 ELSE requests

\* set_cookies (the jar's cookies are chosen by URL and are not told apart here).
SetCookies(trust) == trust

Connected ==
    /\ pc = "connecting"
    /\ Connect(url)
    /\ cookie' = SetCookies(trusted)
    /\ requests' = CountRequest
    /\ pc' = "requesting"
    /\ UNCHANGED <<oc, given, attempts, url, referer, trusted, maxredirs, change, method,
                   body, authorization, host, status, fileVars>>

\* Fault: trust is a matter of the last hop only.
TrustsNext(origin) == referer = origin \/ oc.unrestricted_auth

\* Credentials go to the origin of the command line, or anywhere with
\* --location-trusted.
Trusts(origin) == Org = origin \/ oc.unrestricted_auth

EraseAuthorization(trust) == authorization /\ trust

\* The request is edited to follow the redirect, and sent.
NextRequest ==
    /\ IF change /\ method # "HEAD"
       THEN method' = "GET" /\ body' = FALSE
       ELSE UNCHANGED <<method, body>>
    /\ trusted' = Trusts(url)
    /\ authorization' = EraseAuthorization(Trusts(url))
    /\ host' = url
    /\ referer' = url
    /\ cookie' = SetCookies(Trusts(url))
    /\ requests' = CountRequest
    /\ pc' = "requesting"
    /\ UNCHANGED <<oc, given, attempts, url, maxredirs, change, status, fileVars>>

\* The body of the redirect was read and thrown away: the connection is reused.
Discarded ==
    /\ pc = "discarding"
    /\ unread' = FALSE
    /\ NextRequest
    /\ UNCHANGED <<conns, stream, connected, held>>

\* It is larger than 32 KB or broken off: connect anew.
DiscardFails ==
    /\ pc = "discarding"
    /\ pc' = "reconnecting"
    /\ UNCHANGED <<oc, given, attempts, requestVars, connVars, status, fileVars>>

Reconnected ==
    /\ pc = "reconnecting"
    /\ Connect(url)
    /\ NextRequest

-------------------------------------------------------------------------------
(***************************************************************************)
(* Responses.                                                              *)
(***************************************************************************)

\* Fault: the connection is reused whatever the origin.
CanReuseAnywhere(resp) == ~ resp.close

\* can_reuse_connection: same origin, HTTP/1.1 and no Connection: close.
CanReuse(resp) == ~ resp.close /\ resp.location = referer

RedirectsLeft == maxredirs # 0

\* Fault: the redirect is counted only if the connection is given up.
CountReconnects(resp) == IF CanReuse(resp) THEN maxredirs ELSE maxredirs - 1

CountRedirect(resp) == maxredirs - 1

\* A redirect that is followed.
FollowRedirect(resp) ==
    /\ resp.status \in Redirect /\ oc.followlocation
    /\ RedirectsLeft
    /\ resp.location \in Allowed
    /\ maxredirs' = CountRedirect(resp)
    /\ change' = (resp.status = "303" /\ ~ oc.post303)
    /\ url' = resp.location
    /\ pc' = IF CanReuse(resp) THEN "discarding" ELSE "reconnecting"
    /\ UNCHANGED <<referer, trusted, method, body, authorization, cookie, host, requests,
                   status, fileVars>>

\* One that is refused: too many, no Location, or a protocol not allowed.
RefuseRedirect(resp) ==
    /\ resp.status \in Redirect /\ oc.followlocation
    /\ ~ RedirectsLeft \/ resp.location \notin Allowed
    /\ Throw("refused", file)
    /\ UNCHANGED <<requestVars, status, from, next, output>>

\* The server's filename replaces the output.
Disposed(resp) == oc.content_disposition /\ oc.output # "stdout" /\ resp.filename

\* Fault: a server that ignores the range is believed.
AcceptsAnyRange(resp) == TRUE

\* The range was honoured, is past the end of the resource, or was not asked for.
RangeOk(resp) == ~ Resumed \/ resp.status = "416" \/ resp.range

\* should_ignore_body.
IgnoresBody(resp) == Resumed /\ ~ resp.range

\* How perform_request ends: --fail-with-body throws late.
Finish(st, files) ==
    IF oc.failwithbody /\ st \in HttpError
    THEN Throw("refused", files)
    ELSE pc' = "returned" /\ file' = files

\* What follows the body, read or ignored: the connection is shut down first, unless
\* it goes through a proxy.
AfterBody(st, files) ==
    IF oc.proxy
    THEN Finish(st, files)
    ELSE pc' = "shutting_down" /\ file' = files

\* The end of the loop.  The body is received, unless it is to be ignored.
FinalResponse(resp) ==
    LET files == IF Disposed(resp) THEN Opened(file, "disposition", FALSE) ELSE file
        failsFast == oc.failonerror /\ resp.status \in HttpError
    IN
    /\ ~ (resp.status \in Redirect /\ oc.followlocation)
    /\ status' = resp.status
    /\ output' = IF Disposed(resp) /\ ~ failsFast THEN "disposition" ELSE output
    /\ IF failsFast THEN Throw("refused", file)
       ELSE IF ~ RangeOk(resp) THEN Throw("refused", files)
       ELSE IF IgnoresBody(resp) THEN AfterBody(resp.status, files)
       ELSE pc' = "receiving" /\ file' = files
    /\ next' = IF resp.status = "206" THEN from + 1 ELSE 1
    /\ UNCHANGED <<requestVars, from>>

\* async_request completes.
Respond(resp) ==
    /\ pc = "requesting"
    /\ RangeAnswer(resp, Ranged, from)
    /\ held' = held \cup {stream}
    /\ unread' = TRUE
    /\ \/ FollowRedirect(resp)
       \/ RefuseRedirect(resp)
       \/ FinalResponse(resp)
    /\ UNCHANGED <<oc, given, attempts, conns, stream, connected>>

\* A response to HEAD has no body.
BodyEnd == IF method = "HEAD" THEN 0 ELSE BodyLen

\* sink::on_write.
Receive ==
    /\ pc = "receiving"
    /\ next <= BodyEnd
    /\ file' = [file EXCEPT ![output] = Append(@, next)]
    /\ next' = next + 1
    /\ UNCHANGED <<oc, given, attempts, pc, requestVars, connVars, status, from, output>>

Received ==
    /\ pc = "receiving"
    /\ next > BodyEnd
    /\ AfterBody(status, file)
    /\ UNCHANGED <<oc, given, attempts, requestVars, connVars, status, from, next, output>>

ShutDown ==
    /\ pc = "shutting_down"
    /\ Finish(status, file)
    /\ UNCHANGED <<oc, given, attempts, requestVars, connVars, status, from, next, output>>

\* What is awaited ends with an error, a time-out or a cancellation, or what follows
\* at once throws a system_error (a Set-Cookie that does not parse).  Errors of the
\* shutdown and of discarding a body are not looked at.
AwaitFails ==
    /\ pc \in Awaiting \ {"discarding", "shutting_down"}
    /\ Throw("failed", file)
    /\ UNCHANGED <<oc, given, attempts, requestVars, connVars, status, from, next, output>>

-------------------------------------------------------------------------------
\* retry() calls perform_request again, with a fresh copy of everything but the
\* files.
Retry ==
    /\ pc = "failed" \/ (pc = "returned" /\ status = "503")
    /\ attempts < MaxAttempts
    /\ attempts' = attempts + 1
    /\ pc' = "start"
    /\ url' = Org /\ referer' = Org /\ host' = Org
    /\ trusted' = TRUE /\ change' = FALSE
    /\ method' = (IF oc.no_body THEN "HEAD" ELSE "custom")
    /\ body' = ~ oc.no_body
    /\ authorization' = TRUE /\ cookie' = FALSE
    /\ maxredirs' = MaxRedirs
    /\ requests' = 0 /\ conns' = 0 /\ stream' = 0 /\ connected' = None
    /\ held' = {} /\ unread' = FALSE
    /\ status' = None
    /\ from' = 0 /\ next' = 1
    /\ output' = "stdout"
    /\ UNCHANGED <<oc, given, file>>

\* Nothing is left to do.
Terminated ==
    /\ pc \in Ended
    /\ UNCHANGED vars

Step ==
    \/ Upload \/ Skip \/ Start
    \/ Connected \/ Discarded \/ DiscardFails \/ Reconnected
    \/ \E resp \in Response : Respond(resp)
    \/ Receive \/ Received \/ ShutDown
    \/ AwaitFails
    \/ Retry

Next == Step \/ Terminated

Spec == Init /\ [][Next]_vars

\* Everything that is awaited ends, be it by --max-time; a final result may or may
\* not be retried.
FairSpec == Spec /\ WF_vars(Step /\ pc \notin Ended)

-------------------------------------------------------------------------------
(***************************************************************************)
(* Properties.                                                             *)
(***************************************************************************)

\* However many redirects lead there, another origin than the one on the command
\* line gets neither Authorization nor the cookies of the command line, unless
\* --location-trusted was given.
NoCredentialLeak ==
    (pc = "requesting" /\ ~ oc.unrestricted_auth /\ url # Org) =>
        ~ authorization /\ ~ cookie

\* A request travels on a connection made to the origin it is for, and names it.
RequestReachesOrigin == pc = "requesting" => connected = url /\ host = url

\* When a response is awaited the parser holds nothing of another connection, and
\* no body of an earlier response stands in front of it.
ReadsOwnResponse == pc = "requesting" => held \subseteq {stream} /\ ~ unread

\* No more than --max-redirs redirects are followed, reused connections included.
RedirectBudget == requests <= MaxRedirs + 1

\* Without --continue-at or --range a file only ever holds the beginning of the
\* resource, over retries and reconnects.
IsPrefix(s) == \A i \in 1..Len(s) : s[i] = i
FileIsPrefix ==
    (oc.resume = "none" /\ oc.range = None) =>
        \A f \in {"path", "disposition"} : file[f] # None => IsPrefix(file[f])

\* A transfer that returns with a success leaves the whole body in the output: after
\* a 200, and after a 206 that continues, at the first attempt, the file the user has.
Holds(f, n) == file[f] # None /\ Len(file[f]) = n
SuccessIsComplete ==
    (pc = "returned" /\ output # "stdout" /\ method # "HEAD") =>
        /\ status = "200" => Holds(output, BodyLen)
        /\ (status = "206" /\ oc.resume = "given" /\ attempts = 1 /\ output = oc.output) =>
                Holds(output, BodyLen)

\* --remove-on-error: once scope_fail is armed (which it is not when the URL is
\* refused for its user name), an exception in whichever step leaves no file at
\* output_path, not even the one opened before the server named another.
RemovedOnError ==
    (pc \in {"refused", "failed"} /\ oc.rm_partial /\ ~ oc.prohibited /\ output # "stdout") =>
        file[oc.output] = None

\* A server that redirects for ever does not keep burl going for ever.
TransferEnds == <>(pc \in Ended)
===============================================================================
