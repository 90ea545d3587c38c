----------------------------- MODULE MCCookieJar -----------------------------
(***************************************************************************)
(* A host and a subdomain of it, over TLS and not, and the Set-Cookie      *)
(* fields that the jar treats differently.                                 *)
(***************************************************************************)
EXTENDS CookieJar

Symmetry == Permutations(Files)

Site == <<"site">>
Sub == <<"sub", "site">>
Root == <<"/">>
Deep == <<"/", "p", "/", "q">>

SomeUrls ==
    {[secure |-> TRUE, host |-> Site, path |-> Root],
     [secure |-> FALSE, host |-> Site, path |-> Deep],
     [secure |-> TRUE, host |-> Sub, path |-> Deep]}

Bare ==
    [name |-> "n", value |-> "v", secure |-> FALSE, http_only |-> FALSE,
     expiry |-> [kind |-> "never", t |-> 0], domain |-> None, path |-> Root]

For(s) == [kind |-> "age", t |-> s]
On(t) == [kind |-> "date", t |-> t]

SomeForms ==
    {Bare,
     [Bare EXCEPT !.path = None],
     [Bare EXCEPT !.expiry = For(1), !.http_only = TRUE],
     [Bare EXCEPT !.expiry = For(1), !.path = <<"/", "TAB">>],
     [Bare EXCEPT !.expiry = For(-1)],
     [Bare EXCEPT !.expiry = On(1), !.domain = Site],
     [Bare EXCEPT !.domain = <<"", "site">>],
     [Bare EXCEPT !.domain = <<"#">>],
     [Bare EXCEPT !.secure = TRUE],
     [Bare EXCEPT !.name = "__Secure-n", !.secure = TRUE, !.domain = Site],
     [Bare EXCEPT !.name = "__Host-n", !.secure = TRUE],
     [Bare EXCEPT !.name = "__Host-n", !.secure = TRUE, !.domain = Site],
     [Bare EXCEPT !.value = ""],
     [Bare EXCEPT !.expiry = On(9)]}

=============================================================================
