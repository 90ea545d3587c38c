------------------------------ MODULE CommandLine ------------------------------
(***************************************************************************)
(* burl's parse_args: from the arguments to an operation_config, a TLS     *)
(* context and a generator of requests, which co_main then calls until it  *)
(* returns nothing.                                                        *)
(*                                                                         *)
(* parse_args awaits nothing and is one step; the generator proceeds one   *)
(* iteration of its loops at a time.  An argument has an option, a value,  *)
(* and whether the value can be used (a number parses, a file opens).      *)
(***************************************************************************)
EXTENDS Glob, FiniteSets

CONSTANTS
    Arguments,      \* a function from names to arguments
    CommandLines,   \* sequences of such names
    MaxProduced,    \* bound: requests
    Unlimited

ASSUME CommandLinesAssumption == CommandLines \subseteq Seq(DOMAIN Arguments)
ASSUME MaxProducedAssumption == MaxProduced \in Nat

\* The patterns that parsing a URL gives.  An empty one, of which the code takes the front,
\* is left out.
ASSUME PatternsAssumption ==
    \A name \in DOMAIN Arguments :
        Arguments[name].opt = "url" =>
            /\ Arguments[name].val.text \in STRING
            /\ Arguments[name].ok => Arguments[name].val.gs \in Seq(Generator) \ {<<>>}

VARIABLES
    args,       \* the command line, fixed
    pc,         \* "parse", then "refused", or "accepted" and "exhausted" or "failed"
    oc,         \* the operation_config
    tls,        \* the TLS context: versions and verification
    requests,   \* the request_infos, the next one first
    produced    \* the request_opts that co_main was given

vars == <<args, pc, oc, tls, requests, produced>>

-------------------------------------------------------------------------------
(***************************************************************************)
(* The variables_map.                                                      *)
(***************************************************************************)
Opt(i) == args[i].opt
Val(i) == args[i].val

\* Where one of some options occurs, in order: each occurrence is pushed to the back.
Occurrences(options) ==
    LET found[i \in 0..Len(args)] ==
            IF i = 0 THEN <<>>
            ELSE IF Opt(i) \in options THEN Append(found[i - 1], i) ELSE found[i - 1]
    IN found[Len(args)]

Of(o) == Occurrences({o})
Vals(o) == [k \in DOMAIN Of(o) |-> Val(Of(o)[k])]
contains(o) == \E i \in DOMAIN args : Opt(i) = o
ValueOr(o, default) == IF contains(o) THEN Vals(o)[1] ELSE default

\* Options that may be given more than once.
Multiple == {"url", "output", "remote-name", "upload-file", "data", "data-ascii",
             "data-binary", "data-raw", "data-urlencode", "form", "form-string", "json",
             "url-query", "connect-to", "resolve", "header", "cookie", "proto-redir"}

Repeated == \E i, j \in DOMAIN args : i < j /\ Opt(i) = Opt(j) /\ Opt(i) \notin Multiple

\* set_bool: options and the members they set.
set_bool ==
    {<<"disallow-username-in-url", "disallow_username_in_url">>, <<"compressed", "encoding">>,
     <<"create-dirs", "create_dirs">>, <<"tcp-nodelay", "tcp_nodelay">>,
     <<"retry-all-errors", "retry_all_errors">>, <<"retry-connrefused", "retry_connrefused">>,
     <<"no-keepalive", "nokeepalive">>, <<"post301", "post301">>, <<"post302", "post302">>,
     <<"post303", "post303">>, <<"http1.0", "http10">>, <<"http1.1", "http11">>,
     <<"ipv4", "ipv4">>, <<"ipv6", "ipv6">>, <<"fail", "failonerror">>,
     <<"fail-early", "failearly">>, <<"fail-with-body", "failwithbody">>,
     <<"remove-on-error", "rm_partial">>, <<"get", "use_httpget">>,
     <<"show-headers", "show_headers">>, <<"include", "show_headers">>,
     <<"head", "show_headers">>, <<"head", "no_body">>,
     <<"junk-session-cookies", "cookiesession">>,
     <<"remote-header-name", "content_disposition">>, <<"location", "followlocation">>,
     <<"location-trusted", "followlocation">>, <<"location-trusted", "unrestricted_auth">>,
     <<"no-buffer", "nobuffer">>, <<"globoff", "globoff">>,
     <<"no-progress-meter", "noprogress">>, <<"skip-existing", "skip_existing">>}

Flags == {"tcp_nodelay", "http11"} \cup {p[2] : p \in {q \in set_bool : contains(q[1])}}

-------------------------------------------------------------------------------
(***************************************************************************)
(* Single values.                                                          *)
(***************************************************************************)

\* A number and a unit, of which bytes are the default.
Unit == [B |-> 0, K |-> 1, M |-> 2, G |-> 3, T |-> 4, P |-> 5]
parse_human_readable_size(v) == v.n * 1024^Unit[v.unit]
Limit(o) == IF contains(o) THEN parse_human_readable_size(Vals(o)[1]) ELSE Unlimited

maxredirs == IF ValueOr("max-redirs", 50) < 0 THEN Unlimited ELSE ValueOr("max-redirs", 50)

parallel_max ==
    IF ~ contains("parallel") THEN 1
    ELSE IF ValueOr("parallel-max", 50) \in 1..300 THEN ValueOr("parallel-max", 50) ELSE 50

proto_redir ==
    IF contains("proto-redir") THEN ToSet(Vals("proto-redir")) \cap {"http", "https"}
    ELSE {"http", "https"}

\* --continue-at: the length of the file there is, or a number.
resume ==
    IF ~ contains("continue-at") THEN "none"
    ELSE IF Vals("continue-at")[1] = "-" THEN "current" ELSE "given"

unix_socket ==
    CASE contains("abstract-unix-socket") -> "abstract"
      [] ~ contains("abstract-unix-socket") /\ contains("unix-socket") -> "path"
      [] OTHER -> "none"

\* A cookie with a "=", a file, or nothing: how many there are.
CookiesOf(kind) == Cardinality({i \in DOMAIN args : Opt(i) = "cookie" /\ Val(i).kind = kind})

-------------------------------------------------------------------------------
(***************************************************************************)
(* The TLS context.                                                        *)
(***************************************************************************)
tls_max == ValueOr("tls-max", 13)
tls_min ==
    CASE contains("tlsv1.3") -> 13
      [] ~ contains("tlsv1.3") /\ contains("tlsv1.2") -> 12
      [] ~ contains("tlsv1.3") /\ ~ contains("tlsv1.2") /\ contains("tlsv1.0")
            /\ ~ contains("tlsv1.1") -> 10
      [] OTHER -> 11

\* What set_options leaves.
Versions ==
    {10, 11, 12, 13} \ ((IF tls_min > 10 THEN {10} ELSE {})
        \cup (IF tls_min > 11 \/ tls_max < 11 THEN {11} ELSE {})
        \cup (IF tls_min > 12 \/ tls_max < 12 THEN {12} ELSE {})
        \cup (IF tls_max < 13 THEN {13} ELSE {}))

Verification ==
    CASE contains("insecure") -> "none"
      [] ~ contains("insecure") /\ contains("cacert") -> "cacert"
      [] ~ contains("insecure") /\ ~ contains("cacert") /\ contains("capath") -> "capath"
      [] OTHER -> "default"

-------------------------------------------------------------------------------
(***************************************************************************)
(* Payload: pieces, each with where it comes from and what is done to it.  *)
(***************************************************************************)
DataOptions == {"data", "data-ascii", "data-binary", "data-raw", "data-urlencode"}

\* A piece is taken as it is, without the ends of the lines of a file, or encoded.
How(i) ==
    CASE Opt(i) \in {"data", "data-ascii"} /\ Val(i).form = "file" -> "stripped"
      [] Opt(i) = "data-urlencode" -> "encoded"
      [] Opt(i) = "url-query" /\ Val(i).form # "plus" -> "encoded"
      [] OTHER -> "as_is"

Pieces(o) == [k \in DOMAIN Of(o) |-> [at |-> Of(o)[k], how |-> How(Of(o)[k])]]

\* All of --data and its relatives, one kind after the other.
data ==
    Pieces("data") \o Pieces("data-ascii") \o Pieces("data-binary") \o Pieces("data-raw")
        \o Pieces("data-urlencode")

\* urls::parse_query refuses characters that are not encoded: of all that is not
\* encoded here, which includes the names of --data-urlencode.
InvalidQuery ==
    /\ contains("get")
    /\ \E k \in DOMAIN data :
        /\ data[k].how # "encoded" \/ Val(data[k].at).form = "named"
        /\ ~ Val(data[k].at).clean

\* oc.msg
msg ==
    CASE contains("json") -> [type |-> "json", pieces |-> Pieces("json")]
      [] ~ contains("json") /\ data # <<>> /\ ~ contains("get") ->
            [type |-> "urlencoded", pieces |-> data]
      [] OTHER -> [type |-> "none", pieces |-> <<>>]

\* Fault: --url-query replaces what --get has put there.
QueryReplaced ==
    IF contains("url-query") THEN Pieces("url-query")
    ELSE IF contains("get") THEN data ELSE <<>>

\* oc.query
query == (IF contains("get") THEN data ELSE <<>>) \o Pieces("url-query")

\* Fields of -H: the last one of a name counts, one without a value is omitted.
HeaderLines == FlattenSeq(Vals("header"))
Set == {k \in DOMAIN HeaderLines : HeaderLines[k].kind \in {"value", "semicolon"}}
headers ==
    {HeaderLines[k] : k \in {j \in Set : \A l \in Set :
        l > j => HeaderLines[l].name # HeaderLines[j].name}}
omitheaders == {l.name : l \in {m \in ToSet(HeaderLines) : m.kind = "empty"}}

-------------------------------------------------------------------------------
(***************************************************************************)
(* What is refused: an exception leaves parse_args.                        *)
(***************************************************************************)

\* A value is not looked at when an option before it makes it irrelevant.
LookedAt(o) ==
    /\ o = "cacert" => ~ contains("insecure")
    /\ o = "capath" => ~ contains("insecure") /\ ~ contains("cacert")
    /\ o = "url" => ~ contains("globoff")

BadValue == \E i \in DOMAIN args : ~ args[i].ok /\ LookedAt(Opt(i))

Conflicts ==
    \/ {"failonerror", "failwithbody"} \subseteq Flags
    \/ {"show_headers", "content_disposition"} \subseteq Flags
    \/ contains("continue-at") /\ (contains("range") \/ "rm_partial" \in Flags)

\* More than one of --data, --form, --json and --upload-file.
Bodies ==
    {o \in {"form", "json", "upload-file"} : contains(o)}
    \cup (IF data # <<>> THEN {"data"} ELSE {})

Refused ==
    \/ contains("help") \/ ~ contains("url")
    \/ Repeated \/ BadValue \/ Conflicts \/ InvalidQuery
    \/ Cardinality(Bodies) > 1
    \/ contains("form") \/ contains("form-string")

-------------------------------------------------------------------------------
(***************************************************************************)
(* The requests.                                                           *)
(***************************************************************************)

\* --output and --remote-name in the order of the command line: one per URL.
Outputs == Occurrences({"output", "remote-name"})

OutputFor(k) ==
    IF k \in DOMAIN Outputs /\ Opt(Outputs[k]) = "output" THEN Val(Outputs[k]) ELSE <<>>

RemoteName(k) ==
    contains("remote-name-all")
    \/ (k \in DOMAIN Outputs /\ Opt(Outputs[k]) = "remote-name")

InputFor(k) == IF k \in DOMAIN Vals("upload-file") THEN Vals("upload-file")[k] ELSE ""

UrlGen(v) == IF contains("globoff") THEN make_oneshot_gen(v.text) ELSE make_glob_generator(v.gs)

request_info(k) ==
    [url_gen |-> UrlGen(Vals("url")[k]), output |-> OutputFor(k), input |-> InputFor(k),
     remotename |-> RemoteName(k)]

-------------------------------------------------------------------------------
Init ==
    /\ \E line \in CommandLines : args = [i \in DOMAIN line |-> Arguments[line[i]]]
    /\ pc = "parse"
    /\ oc = <<>> /\ tls = <<>>
    /\ requests = <<>> /\ produced = <<>>

Refuse ==
    /\ pc = "parse" /\ Refused
    /\ pc' = "refused"
    /\ UNCHANGED <<args, oc, tls, requests, produced>>

Accept ==
    /\ pc = "parse" /\ ~ Refused
    /\ pc' = "accepted"
    /\ oc' = [flags |-> Flags, resume |-> resume, range |-> contains("range"),
              maxredirs |-> maxredirs, parallel_max |-> parallel_max,
              max_filesize |-> Limit("max-filesize"), limit_rate |-> Limit("limit-rate"),
              req_retry |-> ValueOr("retry", 0), proto_redir |-> proto_redir,
              proxy |-> contains("proxy"), unix_socket |-> unix_socket,
              autoreferer |-> contains("referer") /\ Vals("referer")[1] = ";auto",
              enable_cookies |-> contains("cookie-jar") \/ contains("cookie"),
              cookies |-> CookiesOf("pair"), cookiefiles |-> CookiesOf("file"),
              msg |-> msg, query |-> query,
              connect_to |-> Vals("connect-to"), resolve_to |-> Vals("resolve"),
              headers |-> headers, omitheaders |-> omitheaders]
    /\ tls' = [versions |-> Versions, verification |-> Verification]
    /\ requests' = [k \in DOMAIN Vals("url") |-> request_info(k)]
    /\ UNCHANGED <<args, produced>>

(***************************************************************************)
(* request_opt_gen: the iterations of its loop and of the loop of the      *)
(* pattern in front.  What interpolate throws ends the loop of co_main.    *)
(***************************************************************************)
Gen == Head(requests).url_gen

Return ==
    /\ pc = "accepted" /\ requests # <<>>
    /\ Len(produced) < MaxProduced
    /\ Returns(Gen) /\ ~ OutOfRange(Head(requests).output)
    /\ produced' = Append(produced,
            [url |-> Result(Gen).result,
             output |-> interpolate(Head(requests).output, Result(Gen).tokens),
             input |-> Head(requests).input, remotename |-> Head(requests).remotename])
    /\ requests' = [requests EXCEPT ![1].url_gen = AfterResult(@)]
    /\ UNCHANGED <<args, pc, oc, tls>>

Throw ==
    /\ pc = "accepted" /\ requests # <<>>
    /\ Returns(Gen) /\ OutOfRange(Head(requests).output)
    /\ pc' = "failed"
    /\ UNCHANGED <<args, oc, tls, requests, produced>>

Descend ==
    /\ pc = "accepted" /\ requests # <<>>
    /\ Descends(Gen)
    /\ requests' = [requests EXCEPT ![1].url_gen = AfterDescent(@)]
    /\ UNCHANGED <<args, pc, oc, tls, produced>>

Retreat ==
    /\ pc = "accepted" /\ requests # <<>>
    /\ Retreats(Gen)
    /\ requests' = [requests EXCEPT ![1].url_gen = Popped(@)]
    /\ UNCHANGED <<args, pc, oc, tls, produced>>

NextPattern ==
    /\ pc = "accepted" /\ requests # <<>>
    /\ Gen.stack = <<>>
    /\ requests' = Tail(requests)
    /\ UNCHANGED <<args, pc, oc, tls, produced>>

Exhausted ==
    /\ pc = "accepted" /\ requests = <<>>
    /\ pc' = "exhausted"
    /\ UNCHANGED <<args, oc, tls, requests, produced>>

Next ==
    Refuse \/ Accept \/ Return \/ Throw \/ Descend \/ Retreat \/ NextPattern \/ Exhausted

Spec == Init /\ [][Next]_vars

\* parse_args returns, and co_main calls the generator until it is empty.
FairSpec == Spec /\ WF_vars(Next)

-------------------------------------------------------------------------------
(***************************************************************************)
(* Properties.                                                             *)
(***************************************************************************)
SanePatterns ==
    \A i \in DOMAIN args :
        Opt(i) = "url" /\ args[i].ok => \A g \in ToSet(Val(i).gs) : Sane(g)

\* What the k-th URL stands for.
Meant(k) ==
    IF contains("globoff") THEN <<[result |-> <<Text(Vals("url")[k].text)>>, tokens |-> <<>>]>>
    ELSE Enumeration(Vals("url")[k].gs)

\* The k-th of --output and --remote-name is the k-th URL's own.
Chosen(k) ==
    LET mine == {i \in DOMAIN args :
                    /\ Opt(i) \in {"output", "remote-name"}
                    /\ Cardinality({j \in 1..i : Opt(j) \in {"output", "remote-name"}}) = k
                    /\ Opt(i) = "output"}
    IN IF mine = {} THEN <<>> ELSE Val(CHOOSE i \in mine : TRUE)

Expected ==
    FlattenSeq([k \in DOMAIN Vals("url") |->
        [n \in DOMAIN Meant(k) |->
            [url |-> Meant(k)[n].result, output |-> interpolate(Chosen(k), Meant(k)[n].tokens)]]])

UrlAndOutput(r) == [url |-> r.url, output |-> r.output]

\* The generator enumerates the combinations of every pattern, in order and each of them
\* once, and names each output after the tokens of its own URL: the stack and the tokens
\* are in step after every sequence of descents and retreats.
EnumeratesPatterns ==
    pc # "parse" /\ pc # "refused" /\ SanePatterns =>
        LET got == [n \in DOMAIN produced |-> UrlAndOutput(produced[n])] IN
        /\ IsPrefix(got, Expected)
        /\ pc = "exhausted" => got = Expected

\* Every piece of --data, --json and --url-query on an accepted command line is stored
\* exactly once, in oc.msg or in oc.query, whichever options are combined, and no message
\* is stored beside an --upload-file.
PayloadKept ==
    pc = "accepted" =>
        LET used == oc.msg.pieces \o oc.query
            payload == {i \in DOMAIN args :
                            Opt(i) \in DataOptions \cup {"json", "url-query"}}
        IN /\ {used[k].at : k \in DOMAIN used} = payload
           /\ Len(used) = Cardinality(payload)
           /\ oc.msg.type # "none" => ~ contains("upload-file")

\* The generator comes to an end for every pattern whose ranges have a step and do not
\* wrap around before they are beyond their upper bound.
GeneratorEnds == SanePatterns ~> pc \in {"refused", "exhausted", "failed"}
================================================================================
