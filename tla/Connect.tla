-------------------------------- MODULE Connect --------------------------------
(***************************************************************************)
(* burl's connect(): a TCP connection, directly or through an HTTP or a    *)
(* SOCKS5 proxy, or a connection to a Unix domain socket; then TLS for     *)
(* https; then the caller's any_stream is replaced.                        *)
(*                                                                         *)
(* A step is what runs between two co_awaits; a request and the wait for   *)
(* its answer are one step, the answer being the peer's choice.  Messages  *)
(* of SOCKS5 are what the code looks at, and how many bytes of them are    *)
(* read.                                                                   *)
(***************************************************************************)
EXTENDS Naturals, Sequences

CONSTANTS
    Hosts,          \* host names
    Length,         \* their lengths
    Ports,          \* port numbers that URLs and options give
    URLs,           \* the URLs to connect to
    Configs,        \* the combinations of options to look at
    MaxName,        \* bound: length of a domain name in a SOCKS5 reply
    None, Any

URL == [scheme : {"http", "https", "socks5", "other"}, host : Hosts, port : Ports \cup {None}]

(***************************************************************************)
(* operation_config, as far as connect() looks at it.  A rule of           *)
(* --connect-to is what its text H1:P1:H2:P2 says, with empty parts        *)
(* (None); one of --resolve may be for any host.  parse_args throws for a  *)
(* port without a host in --connect-to, because urls::url cannot be made   *)
(* of ":443" (nor of a port behind an IP address).                         *)
(***************************************************************************)
ConnectRule ==
    {r \in [host : Hosts \cup {None}, port : Ports \cup {None},
            tohost : Hosts \cup {None}, toport : Ports \cup {None}] :
        (r.host = None => r.port = None) /\ (r.tohost = None => r.toport = None)}
ResolveRule == [host : Hosts \cup {Any}, port : Ports, addr : Hosts]
Config == [unix : BOOLEAN, proxy : {"none", "http", "socks5", "other"},
           userinfo : BOOLEAN,          \* the proxy's URL has a user and a password
           connect_to : Seq(ConnectRule), resolve_to : Seq(ResolveRule),
           ipv4 : BOOLEAN, ipv6 : BOOLEAN,
           insecure : BOOLEAN]          \* verify_none instead of verify_peer

ASSUME HostsAssumption == None \notin Hosts /\ Any \notin Hosts /\ Any # None
ASSUME LengthAssumption == Length \in [Hosts -> Nat]
ASSUME PortsAssumption == Ports \subseteq Nat /\ None \notin Ports
ASSUME URLsAssumption == URLs \subseteq URL
ASSUME ConfigsAssumption == Configs \subseteq Config
ASSUME MaxNameAssumption == MaxName \in 0..255

VARIABLES
    oc,         \* the options, fixed
    given,      \* the URL passed to connect(); its host is org_host
    url,        \* ... after --connect-to and --resolve
    pc,         \* where connect() is suspended, or how it ended
    far,        \* where bytes written to the socket arrive
    atyp,       \* the address type in the proxy's reply, or 0
    unread,     \* bytes of that reply still in the socket
    asked,      \* ... and how many of them are waited for
    sent,       \* credentials that the proxy was sent
    stream      \* the caller's any_stream: where it leads, and the name on the
                \* certificate of its TLS session

vars == <<oc, given, url, pc, far, atyp, unread, asked, sent, stream>>

Awaiting == {"unix", "direct", "proxy", "greeting", "auth", "request", "tail",
             "http_connect", "handshake"}
Garbled == "garbled"
UnixSocket == [host |-> "unix_socket", port |-> 0]
Place == [host : Hosts \cup {Garbled}, port : Nat] \cup {UnixSocket, None}

TypeOK ==
    /\ oc \in Configs /\ given \in URLs /\ url \in URL
    /\ pc \in {"begin", "connected", "failed"} \cup Awaiting
    /\ far \in Place
    /\ atyp \in {0, 1, 3, 4}
    /\ unread \in Nat /\ asked \in Nat
    /\ sent \in SUBSET {"basic", "password", "empty"}
    /\ stream \in [far : Place, name : Hosts \cup {None}]

Init ==
    /\ oc \in Configs
    /\ given \in URLs /\ url = given
    /\ pc = "begin"
    /\ far = None
    /\ atyp = 0 /\ unread = 0 /\ asked = 0
    /\ sent = {}
    /\ stream = [far |-> None, name |-> None]

-------------------------------------------------------------------------------
(***************************************************************************)
(* Where to connect to.                                                    *)
(***************************************************************************)

\* None stands for the exception.
effective_port(u) ==
    CASE u.port # None -> u.port
      [] u.port = None /\ u.scheme = "https" -> 443
      [] u.port = None /\ u.scheme = "http" -> 80
      [] u.port = None /\ u.scheme = "socks5" -> 1080
      [] OTHER -> None

SameHost(rule, u) == rule.host = u.host \/ rule.host \in {None, Any}
Applies(rule, u) == SameHost(rule, u) /\ rule.port \in {None, effective_port(u)}

\* The first of the rules that applies to a URL, or 0.
First(rules, u) ==
    LET hits == {i \in DOMAIN rules : Applies(rules[i], u)} IN
    IF hits = {} THEN 0 ELSE CHOOSE i \in hits : \A j \in hits : i <= j

\* The pair of urls::url that parse_args makes of a rule.  The text of an authority,
\* "host:port" or "host", is to urls::url a scheme and a path, or a path, so that the
\* two have neither a host nor a port.
AsUrls(rule) == [host |-> None, port |-> None, tohost |-> None, toport |-> None]

\* The loop of the closure in oc.connect_to over its items.
Redirected(items, u) ==
    LET i == First(items, u) IN
    IF i = 0 THEN u
    ELSE [u EXCEPT !.host = IF items[i].tohost # None THEN items[i].tohost ELSE @,
                   !.port = IF items[i].toport # None THEN items[i].toport ELSE @]

connect_to(rules, u) == Redirected([i \in DOMAIN rules |-> AsUrls(rules[i])], u)

\* The closure in oc.resolve_to.
resolve_to(rules, u) ==
    LET i == First(rules, u) IN
    IF i = 0 THEN u ELSE [u EXCEPT !.host = rules[i].addr]

Rewritten(u) == resolve_to(oc.resolve_to, connect_to(oc.connect_to, u))

\* A rule whose host matches asks for the effective port; an unsupported scheme
\* has none.
RewriteThrows(u) ==
    /\ effective_port(u) = None
    /\ \/ \E i \in DOMAIN oc.connect_to : SameHost(AsUrls(oc.connect_to[i]), u)
       \/ \E i \in DOMAIN oc.resolve_to : SameHost(oc.resolve_to[i], u)

-------------------------------------------------------------------------------
(***************************************************************************)
(* Endings.                                                                *)
(***************************************************************************)

\* The exception reaches the caller; its stream was not touched.
Throw ==
    /\ pc' = "failed"
    /\ UNCHANGED <<oc, given, url, far, atyp, unread, asked, sent, stream>>

\* Fault: the caller's stream is replaced before the handshake.
EstablishedEarly(place) ==
    /\ far' = place
    /\ pc' = IF url.scheme = "https" THEN "handshake" ELSE "connected"
    /\ stream' = [far |-> place, name |-> None]

\* stream = std::move(socket), or on to the TLS handshake.
Established(place) ==
    /\ far' = place
    /\ IF url.scheme = "https"
       THEN pc' = "handshake" /\ UNCHANGED stream
       ELSE pc' = "connected" /\ stream' = [far |-> place, name |-> None]

\* Any co_await may end with an error: of the network, the proxy leaving, or the
\* cancellation by --connect-timeout.
AwaitFails == pc \in Awaiting /\ Throw

-------------------------------------------------------------------------------
(***************************************************************************)
(* connect().                                                              *)
(***************************************************************************)

\* Which socket to open and where to.
Begin ==
    /\ pc = "begin"
    /\ IF ~ oc.unix /\ (RewriteThrows(given) \/ oc.proxy = "other")
       THEN Throw
       ELSE /\ url' = IF oc.unix THEN given ELSE Rewritten(given)
            /\ pc' = CASE oc.unix -> "unix"
                       [] ~ oc.unix /\ oc.proxy = "none" -> "direct"
                       [] OTHER -> "proxy"
            /\ UNCHANGED <<oc, given, far, atyp, unread, asked, sent, stream>>

UnixConnected ==
    /\ pc = "unix"
    /\ Established(UnixSocket)
    /\ UNCHANGED <<oc, given, url, atyp, unread, asked, sent>>

\* An address that the resolver found accepts; -4 and -6 rule some of them out.
DirectConnected(family) ==
    /\ pc = "direct"
    /\ effective_port(url) # None
    /\ ~ (oc.ipv4 /\ family = "v6") /\ ~ (oc.ipv6 /\ family = "v4")
    /\ Established([host |-> url.host, port |-> effective_port(url)])
    /\ UNCHANGED <<oc, given, url, atyp, unread, asked, sent>>

ProxyConnected ==
    /\ pc = "proxy"
    /\ pc' = IF oc.proxy = "socks5" THEN "greeting" ELSE "http_connect"
    /\ UNCHANGED <<oc, given, url, far, atyp, unread, asked, sent, stream>>

\* CONNECT host:port and the header of the answer.
HttpReply(ok) ==
    /\ pc = "http_connect"
    /\ effective_port(url) # None
    /\ sent' = IF oc.userinfo THEN {"basic"} ELSE {}
    /\ IF ok
       THEN Established([host |-> url.host, port |-> effective_port(url)])
       ELSE pc' = "failed" /\ UNCHANGED <<far, stream>>
    /\ UNCHANGED <<oc, given, url, atyp, unread, asked>>

\* The greeting offers a password only if there is one; the proxy chooses.
Greeted(version, method) ==
    /\ pc = "greeting"
    /\ pc' = CASE version = 5 /\ method = 0 -> "request"
               [] version = 5 /\ method = 2 -> "auth"
               [] OTHER -> "failed"
    /\ UNCHANGED <<oc, given, url, far, atyp, unread, asked, sent, stream>>

\* Username and password, which are empty if the proxy's URL has none.
Authenticated(ok) ==
    /\ pc = "auth"
    /\ sent' = IF oc.userinfo THEN {"password"} ELSE {"empty"}
    /\ pc' = IF ok THEN "request" ELSE "failed"
    /\ UNCHANGED <<oc, given, url, far, atyp, unread, asked, stream>>

\* The name a proxy makes of a host sent with its length in one byte, followed by
\* the port in two.
Requested(u) ==
    [host |-> IF Length[u.host] % 256 = Length[u.host] THEN u.host ELSE Garbled,
     port |-> effective_port(u) % 65536]

\* The bytes of a reply after its first five: an address and a port.  The fifth is
\* the first one of an IP address, or the length of a name.
Remaining(type, len) ==
    CASE type = 1 -> 3 + 2
      [] type = 3 -> len + 2
      [] OTHER -> 15 + 2

\* Fault: the byte that was read with the head is asked for again.
TailWithHead(type, len) ==
    CASE type = 1 -> 4 + 2
      [] type = 3 -> len + 2 - 1
      [] OTHER -> 16 + 2

\* The size of conn_resp_tail.
TailSize(type, len) ==
    CASE type = 1 -> 4 + 2 - 1
      [] type = 3 -> len + 2 - 1
      [] OTHER -> 16 + 2 - 1

\* The connection request, and the first five bytes of the reply.
SocksReply(rep, type, len) ==
    /\ pc = "request"
    /\ effective_port(url) # None
    /\ IF rep = 0 /\ type \in {1, 3, 4}
       THEN /\ pc' = "tail"
            /\ far' = Requested(url)
            /\ atyp' = type
            /\ unread' = Remaining(type, len)
            /\ asked' = TailSize(type, len)
       ELSE pc' = "failed" /\ UNCHANGED <<far, atyp, unread, asked>>
    /\ UNCHANGED <<oc, given, url, sent, stream>>

\* async_read returns when the buffer is full: the reply must be that long.
SocksTail ==
    /\ pc = "tail"
    /\ asked <= unread
    /\ unread' = unread - asked
    /\ asked' = 0
    /\ Established(far)
    /\ UNCHANGED <<oc, given, url, atyp, sent>>

\* Fault: the name verified is the one connected to.
VerifiesAddress == url.host

\* The name for SNI and for host_name_verification: org_host.
VerifiesHost == given.host

\* The peer shows a certificate for some name.
HandshakeDone(name) ==
    /\ pc = "handshake"
    /\ oc.insecure \/ name = VerifiesHost
    /\ pc' = "connected"
    /\ stream' = [far |-> far, name |-> name]
    /\ UNCHANGED <<oc, given, url, far, atyp, unread, asked, sent>>

\* An unsupported scheme is found out when its port is needed.
NoPort ==
    /\ pc \in {"direct", "request", "http_connect"}
    /\ effective_port(url) = None
    /\ Throw

\* connect() has returned or thrown.
Terminated == pc \in {"connected", "failed"} /\ UNCHANGED vars

Next ==
    \/ Begin \/ UnixConnected \/ ProxyConnected \/ SocksTail \/ NoPort
    \/ AwaitFails \/ Terminated
    \/ \E family \in {"v4", "v6"} : DirectConnected(family)
    \/ \E ok \in BOOLEAN : HttpReply(ok) \/ Authenticated(ok)
    \/ \E version \in {4, 5}, method \in {0, 2, 255} : Greeted(version, method)
    \/ \E rep \in {0, 1}, type \in 1..4, len \in 0..MaxName :
        SocksReply(rep, type, len)
    \/ \E name \in Hosts : HandshakeDone(name)

Spec == Init /\ [][Next]_vars

-------------------------------------------------------------------------------
(***************************************************************************)
(* Properties.                                                             *)
(***************************************************************************)

\* Where --resolve says a stream to URL u should lead.
PlaceOf(u) ==
    LET v == resolve_to(oc.resolve_to, u) IN [host |-> v.host, port |-> effective_port(v)]

\* Where the caller's stream should lead.
Target == IF oc.unix THEN UnixSocket ELSE PlaceOf(given)

D == INSTANCE Dialer WITH
        target <- Target,
        status <- (IF pc \in {"connected", "failed"} THEN pc ELSE "dialing"),
        far <- stream.far

\* connect() replaces the caller's stream only when everything has succeeded, and
\* then by one that leads where the URL and --resolve say, whichever proxy is
\* between.  (Not where --connect-to says: see AsUrls.)
DialSpec == D!Spec

\* A TLS session is with the host of the URL: neither --resolve nor a proxy nor
\* --unix-socket changes the name that is verified, and https never ends up without
\* TLS.
Authentic ==
    pc = "connected" =>
        /\ given.scheme = "https" <=> stream.name # None
        /\ given.scheme = "https" /\ ~ oc.insecure => stream.name = given.host

\* A SOCKS5 reply with an IP address is consumed to its last byte, so that what is
\* read next is the server's, and connect() never waits for bytes beyond a reply.
ReplyConsumed ==
    /\ pc \in {"handshake", "connected"} /\ atyp # 3 => unread = 0
    /\ pc = "tail" => asked <= unread
===============================================================================
