------------------------------- MODULE MCJsonRpc -------------------------------
(***************************************************************************)
(* JsonRpc with one document for each branch of request_op.                *)
(***************************************************************************)
EXTENDS JsonRpc

Good == [syntax |-> TRUE, object |-> TRUE, version |-> TRUE, error |-> "none",
         result |-> "expected", id |-> TRUE]

MCDocuments ==
    {Good,
     [Good EXCEPT !.syntax = FALSE],
     [Good EXCEPT !.object = FALSE],
     [Good EXCEPT !.version = FALSE],
     [Good EXCEPT !.error = "no_code"],
     [Good EXCEPT !.error = "code", !.id = FALSE],
     [Good EXCEPT !.error = "no_object", !.result = "none"],
     [Good EXCEPT !.result = "other"],
     [Good EXCEPT !.id = FALSE]}
================================================================================
