------------------------------- MODULE GetClient -------------------------------
(***************************************************************************)
(* The get client: a GET request and the redirects that follow it, as a    *)
(* chain of callbacks over one stream_ that is reconstructed when another  *)
(* connection is needed.                                                   *)
(*                                                                         *)
(* A step is one callback.  Of a response only its kind, its Location, the *)
(* size of its body and whether it allows the connection to be reused are  *)
(* kept; of a URL its scheme, host and port.                               *)
(***************************************************************************)
EXTENDS Naturals

CONSTANTS
    Hosts,          \* host names
    Ports,          \* ports that URLs name
    max_redirects,  \* 50 in the code
    None

URL == [scheme : {"http", "https", "other"}, host : Hosts, port : Ports \cup {None}]

(***************************************************************************)
(* A body is "buffered" when it was received together with the header.     *)
(* The URL of an absolute location is a parameter of its own.              *)
(***************************************************************************)
Response ==
    [redirect : BOOLEAN, location : {"none", "bad", "relative", "absolute"},
     keep_alive : BOOLEAN,      \* HTTP/1.1 without Connection: close
     body : {"buffered", "small", "large"}]

ASSUME HostsAssumption == None \notin Hosts
ASSUME PortsAssumption == Ports \subseteq Nat /\ None \notin Ports
ASSUME BoundAssumption == max_redirects \in Nat

VARIABLES
    url,        \* url_: where the request in req_ is for
    secure,     \* secure_
    left,       \* max_redirects_
    pc,         \* the callback that is waited for, or how the session ended
    peer,       \* where stream_'s socket leads, or None
    name,       \* the name on the peer's certificate, or None without TLS
    body        \* what of a response's body is still in the socket

vars == <<url, secure, left, pc, peer, name, body>>

Waiting == {"resolve", "connect", "handshake", "write", "read_header", "discard",
            "close", "read", "shutdown"}

TypeOK ==
    /\ url \in URL
    /\ secure \in BOOLEAN
    /\ left \in 0..max_redirects
    /\ pc \in {"run", "done", "failed"} \cup Waiting
    /\ peer \in [host : Hosts, port : Ports \cup {80, 443}] \cup {None}
    /\ name \in Hosts \cup {None}
    /\ body \in {"none", "buffered", "small", "large"}

\* main() accepts a URL with an authority.
Init ==
    /\ url \in URL
    /\ secure = FALSE
    /\ left = max_redirects
    /\ pc = "run"
    /\ peer = None /\ name = None
    /\ body = "none"

port(u) ==
    CASE u.port # None -> u.port
      [] u.port = None /\ u.scheme = "https" -> 443
      [] u.port = None /\ u.scheme = "http" -> 80
      [] OTHER -> None

-------------------------------------------------------------------------------
(***************************************************************************)
(* From a URL to a request on a connection.                                *)
(***************************************************************************)

\* do_resolve(): the stream is reconstructed, so that its socket is closed.
do_resolve(u) ==
    /\ peer' = None /\ name' = None /\ body' = "none"
    /\ secure' = (u.scheme = "https")
    /\ pc' = IF port(u) = None THEN "failed" ELSE "resolve"

run ==
    /\ pc = "run"
    /\ do_resolve(url)
    /\ UNCHANGED <<url, left>>

on_resolve ==
    /\ pc = "resolve"
    /\ pc' = "connect"
    /\ UNCHANGED <<url, secure, left, peer, name, body>>

on_connect ==
    /\ pc = "connect"
    /\ peer' = [host |-> url.host, port |-> port(url)]
    /\ pc' = IF secure THEN "handshake" ELSE "write"
    /\ UNCHANGED <<url, secure, left, name, body>>

\* host_name_verification: the handshake fails for another name.
on_ssl_handshake ==
    /\ pc = "handshake"
    /\ name' = url.host
    /\ pc' = "write"
    /\ UNCHANGED <<url, secure, left, peer, body>>

\* The request is written; the parser is reset.
on_write ==
    /\ pc = "write"
    /\ pc' = "read_header"
    /\ UNCHANGED <<url, secure, left, peer, name, body>>

-------------------------------------------------------------------------------
(***************************************************************************)
(* The response.                                                           *)
(***************************************************************************)

\* A header that is no redirect: its body goes to standard output.
on_read_header(r) ==
    /\ pc = "read_header"
    /\ ~ r.redirect
    /\ pc' = "read"
    /\ body' = r.body
    /\ UNCHANGED <<url, secure, left, peer, name>>

\* Fault: hosts are compared, but neither schemes nor ports.
SameHostReuse(r, a, b) == r.keep_alive /\ a.host = b.host

can_reuse_connection(r, a, b) == r.keep_alive /\ a = b

\* urls::resolve
Resolved(r, target) == IF r.location = "relative" THEN url ELSE target

\* Fault: a redirect costs nothing while the connection is kept.
SpentIfMoved(reuse) == IF reuse THEN left ELSE left - 1

\* --max_redirects_
Spent(reuse) == left - 1

\* The redirect is followed: with reuse the old body is read through stream_, which
\* is the TLS stream also when the connection is a plain one.
Follow(r, to, reuse) ==
    /\ left' = Spent(reuse)
    /\ url' = to
    /\ CASE reuse -> pc' = "discard" /\ body' = r.body /\ UNCHANGED <<secure, peer, name>>
         [] ~ reuse /\ secure -> pc' = "close" /\ body' = r.body /\ UNCHANGED <<secure, peer, name>>
         [] OTHER -> do_resolve(to)

\* max_redirects_ is decremented before the location is looked at.
on_redirect_response(r, target) ==
    /\ pc = "read_header"
    /\ r.redirect
    /\ IF left = 0 \/ r.location \in {"none", "bad"}
       THEN /\ pc' = "failed"
            /\ left' = IF left = 0 THEN 0 ELSE left - 1
            /\ UNCHANGED <<url, secure, peer, name, body>>
       ELSE LET to == Resolved(r, target) IN
            Follow(r, to, can_reuse_connection(r, url, to))

\* Fault: the request is written although the old body is still to be read.
DiscardsAnyway == TRUE

\* The old body can be read: it has been received already, or it comes through TLS
\* and is within the limit of 32 KB.
Discards == body = "buffered" \/ (secure /\ body = "small")

on_discard ==
    /\ pc = "discard"
    /\ IF Discards
       THEN /\ pc' = "write"
            /\ body' = IF body = "large" \/ (body = "small" /\ ~ secure) THEN body ELSE "none"
            /\ UNCHANGED <<secure, peer, name>>
       ELSE do_resolve(url)
    /\ UNCHANGED <<url, left>>

\* An error of the network while the body is discarded: a new connection.
DiscardFails ==
    /\ pc = "discard"
    /\ do_resolve(url)
    /\ UNCHANGED <<url, left>>

\* async_shutdown before another connection; its error is ignored.
on_close ==
    /\ pc = "close"
    /\ do_resolve(url)
    /\ UNCHANGED <<url, left>>

\* The body is complete; TLS is shut down, a socket at once.
on_read ==
    /\ pc = "read"
    /\ body' = "none"
    /\ pc' = IF secure THEN "shutdown" ELSE "done"
    /\ UNCHANGED <<url, secure, left, peer, name>>

on_shutdown ==
    /\ pc = "shutdown"
    /\ pc' = "done"
    /\ UNCHANGED <<url, secure, left, peer, name, body>>

\* fail(): nothing more is started.
fail ==
    /\ pc \in Waiting \ {"discard", "close"}
    /\ pc' = "failed"
    /\ UNCHANGED <<url, secure, left, peer, name, body>>

Terminated == pc \in {"done", "failed"} /\ UNCHANGED vars

Next ==
    \/ run \/ on_resolve \/ on_connect \/ on_ssl_handshake \/ on_write
    \/ on_discard \/ DiscardFails \/ on_close \/ on_read \/ on_shutdown \/ fail
    \/ Terminated
    \/ \E r \in Response :
        \/ on_read_header(r)
        \/ \E target \in URL : on_redirect_response(r, target)

Spec == Init /\ [][Next]_vars

\* What has been started completes, as ioc.run() waits for it.
FairSpec == Spec /\ WF_vars(Next)

-------------------------------------------------------------------------------
(***************************************************************************)
(* Properties.                                                             *)
(***************************************************************************)

\* Over any chain of redirects a request is written to, and its response read from,
\* the origin of its URL: through TLS with the host verified for https, never through
\* a TLS session for anything else.
RequestToOrigin ==
    pc \in {"write", "read_header", "read"} =>
        /\ peer = [host |-> url.host, port |-> port(url)]
        /\ secure <=> url.scheme = "https"
        /\ name = IF url.scheme = "https" THEN url.host ELSE None

\* A request follows another on its connection only when nothing of the old response
\* is left to be taken for the new one, also where the old body is read through a TLS
\* stream that was never connected.
NothingLeftOver == pc \in {"write", "read_header"} => body = "none"

\* The session ends, however the servers redirect.
GetEnds == <>(pc \in {"done", "failed"})
================================================================================
