----------------------------- MODULE MCCommandLine -----------------------------
(***************************************************************************)
(* CommandLine with one or more arguments for every option that parse_args *)
(* branches on, and all combinations of up to three of them with a URL;    *)
(* and patterns with outputs and uploads, in several orders.               *)
(***************************************************************************)
EXTENDS CommandLine

Arg(opt, val) == [opt |-> opt, ok |-> TRUE, val |-> val]
Bad(opt, val) == [opt |-> opt, ok |-> FALSE, val |-> val]
Flag(opt) == Arg(opt, "")
Payload(form, clean) == [form |-> form, clean |-> clean]
Line(name, kind, value) == [name |-> name, kind |-> kind, value |-> value]
Url(text, gs) == Arg("url", [text |-> text, gs |-> gs])

Static(s) == make_static_gen(s)
Set2 == make_set_gen(<<"a", "b">>)
Part == make_range_gen(2, 8, 12, 2)

MCArguments ==
    [fail |-> Flag("fail"), fail_body |-> Flag("fail-with-body"), head |-> Flag("head"),
     include |-> Flag("include"), header_name |-> Flag("remote-header-name"),
     remove |-> Flag("remove-on-error"), range |-> Arg("range", "0-9"),
     current |-> Arg("continue-at", "-"), offset |-> Arg("continue-at", "7"),
     bad_offset |-> Bad("continue-at", "x"), get |-> Flag("get"), help |-> Flag("help"),
     redirs |-> Arg("max-redirs", -1), trusted |-> Flag("location-trusted"),
     parallel |-> Flag("parallel"), none |-> Arg("parallel-max", 0),
     most |-> Arg("parallel-max", 300), more |-> Arg("parallel-max", 301),
     http |-> Arg("proto-redir", "http"), ftp |-> Arg("proto-redir", "ftp"),
     rate |-> Arg("limit-rate", [n |-> 2, unit |-> "K"]), size |-> Arg("max-filesize", [n |-> 1, unit |-> "G"]),
     jar |-> Arg("cookie-jar", "jar"), pair |-> Arg("cookie", [kind |-> "pair"]),
     file |-> Arg("cookie", [kind |-> "file"]), engine |-> Arg("cookie", [kind |-> "empty"]),
     max10 |-> Arg("tls-max", 10), max12 |-> Arg("tls-max", 12), min10 |-> Flag("tlsv1.0"),
     min11 |-> Flag("tlsv1.1"), min12 |-> Flag("tlsv1.2"), min13 |-> Flag("tlsv1.3"),
     insecure |-> Flag("insecure"), cacert |-> Bad("cacert", "no_file"), capath |-> Bad("capath", "no_dir"),
     unix |-> Arg("unix-socket", "path"), abstract |-> Arg("abstract-unix-socket", "name"),
     auto |-> Arg("referer", ";auto"),
     data |-> Arg("data", Payload("literal", TRUE)), spaced |-> Arg("data-raw", Payload("literal", FALSE)),
     data_file |-> Arg("data-ascii", Payload("file", TRUE)), binary |-> Arg("data-binary", Payload("file", FALSE)),
     urlencode |-> Arg("data-urlencode", Payload("literal", FALSE)),
     named |-> Arg("data-urlencode", Payload("named", FALSE)),
     form |-> Flag("form"), json |-> Arg("json", Payload("literal", TRUE)),
     query |-> Arg("url-query", Payload("named", TRUE)), plus |-> Arg("url-query", Payload("plus", TRUE)),
     rule |-> Arg("connect-to", "rule"), resolve |-> Bad("resolve", "rule"),
     field |-> Arg("header", <<Line("x", "value", "1")>>),
     fields |-> Arg("header", <<Line("x", "value", "2"), Line("y", "empty", ""), Line("z", "none", "")>>),
     upload |-> Arg("upload-file", "one"),
     plain |-> Url("plain", <<Static("plain")>>),
     broken |-> Bad("url", [text |-> "broken", gs |-> <<>>]),
     \* "vol[1-2]/part{a,b}" and the like
     vol |-> Url("vol", <<Static("vol"), make_range_gen(1, 1, 2, 1), Static("part"), Set2>>),
     nested |-> Url("nested", <<Set2, Part, make_char_gen(97, 99, 2)>>),
     empty |-> Url("empty", <<Set2, make_set_gen(<<>>)>>),
     backward |-> Url("backward", <<make_range_gen(1, 3, 2, 1), Static("s")>>),
     \* ranges that wrap around or stand still
     tens |-> Url("tens", <<make_char_gen(97, 122, 10)>>),
     wrapping |-> Url("wrapping", <<make_char_gen(120, 122, 100)>>),
     still |-> Url("still", <<make_range_gen(1, 1, 2, 0)>>),
     word |-> Url("word", <<make_range_gen(1, 90, 98, 20)>>),
     \* outputs
     first |-> Arg("output", <<Text("f"), <<"#", 1>>, <<"#", 2>>>>),
     zero |-> Arg("output", <<<<"#", 0>>, <<"#", 3>>, Text("#")>>),
     large |-> Arg("output", <<Text("f"), <<"#", 100>>>>),
     remote |-> Flag("remote-name"), all |-> Flag("remote-name-all"), globoff |-> Flag("globoff"),
     other |-> Arg("upload-file", "two")]

Urls == {"plain", "broken", "vol", "nested", "empty", "backward", "tens",
         "wrapping", "still", "word"}
Options == DOMAIN MCArguments \ (Urls \cup {"first", "zero", "large", "remote", "all", "globoff", "other"})

\* Up to three different arguments.
Among(S) == {<<>>} \cup {SetToSeq({a, b, c}) : a, b, c \in S}

MCCommandLines ==
    {Append(s, "plain") : s \in Among(Options)}
    \cup {<<u>> \o s \o <<v>> :
            u \in Urls, v \in Urls,
            s \in {<<>>, <<"first">>, <<"zero", "first">>, <<"remote", "first">>,
                   <<"first", "remote", "zero">>, <<"first", "large">>, <<"all", "first">>, <<"globoff", "first">>,
                   <<"upload", "other", "other">>}}
    \cup {<<"data">>, <<"data", "data", "plain">>, <<"fail", "fail", "plain">>}
================================================================================
