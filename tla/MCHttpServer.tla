----------------------------- MODULE MCHttpServer -----------------------------
(***************************************************************************)
(* Instances of HttpServer for TLC: which forms of request the peers send. *)
(***************************************************************************)
EXTENDS HttpServer

Form(keep, bad, body) == [keep |-> keep, bad |-> bad, body |-> body]

\* Everything: both connection options, a body, a target that does not parse.
AllForms == {Form(TRUE, FALSE, FALSE), Form(TRUE, FALSE, TRUE),
             Form(FALSE, FALSE, FALSE), Form(TRUE, TRUE, FALSE)}

\* Requests whose target parses: keep-alive, without and with a body.
GoodForms == {Form(TRUE, FALSE, FALSE), Form(TRUE, FALSE, TRUE)}

\* Keep-alive requests without a body.
PlainForms == {Form(TRUE, FALSE, FALSE)}

\* A well-formed request, and one with a body whose target does not parse.
TargetForms == {Form(TRUE, FALSE, FALSE), Form(TRUE, TRUE, TRUE)}
===============================================================================
