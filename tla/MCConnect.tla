------------------------------ MODULE MCConnect ------------------------------
(***************************************************************************)
(* Connect with small sets of hosts, URLs and options.                     *)
(***************************************************************************)
EXTENDS Connect

\* The longest name that fits the length byte of SOCKS5 is one of them.
MCHosts == {"org", "cdn", "addr"}
MCLength == [h \in MCHosts |-> IF h = "cdn" THEN 255 ELSE 11]
MCPorts == {80, 443, 65535}

MCURLs ==
    [scheme : {"http", "https"}, host : {"org"}, port : {None, 65535}]
    \cup [scheme : {"socks5", "other"}, host : {"org"}, port : {None, 80}]

ConnectTos ==
    {<<>>,
     \* by host and by port; two rules of which the second is for any host
     <<[host |-> "org", port |-> 443, tohost |-> "cdn", toport |-> 65535]>>,
     <<[host |-> "cdn", port |-> None, tohost |-> "org", toport |-> None],
       [host |-> None, port |-> None, tohost |-> "cdn", toport |-> None]>>}

ResolveTos ==
    {<<>>,
     <<[host |-> "cdn", port |-> 443, addr |-> "addr"]>>,
     <<[host |-> Any, port |-> 80, addr |-> "addr"], [host |-> "org", port |-> 443, addr |-> "cdn"]>>}

Proxies == {<<"none", FALSE>>, <<"http", FALSE>>, <<"http", TRUE>>, <<"socks5", FALSE>>,
            <<"socks5", TRUE>>, <<"other", FALSE>>}

Plain == [unix |-> FALSE, proxy |-> "none", userinfo |-> FALSE, connect_to |-> <<>>,
          resolve_to |-> <<>>, ipv4 |-> FALSE, ipv6 |-> FALSE, insecure |-> FALSE]

AllConfigs ==
    {[Plain EXCEPT !.proxy = p[1], !.userinfo = p[2], !.connect_to = c, !.resolve_to = r] :
        p \in Proxies, c \in ConnectTos, r \in ResolveTos}
    \cup {[Plain EXCEPT !.ipv4 = four, !.ipv6 = six, !.insecure = i] : four, six, i \in BOOLEAN}
    \cup {[Plain EXCEPT !.unix = TRUE, !.proxy = p, !.connect_to = c] :
        p \in {"none", "socks5"}, c \in ConnectTos}
==============================================================================
