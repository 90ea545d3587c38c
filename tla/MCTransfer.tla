------------------------------ MODULE MCTransfer ------------------------------
(***************************************************************************)
(* Transfer with small sets of options.                                    *)
(***************************************************************************)
EXTENDS Transfer

Plain ==
    [followlocation |-> TRUE, post303 |-> FALSE, unrestricted_auth |-> FALSE,
     failonerror |-> FALSE, failwithbody |-> FALSE, rm_partial |-> FALSE,
     skip_existing |-> FALSE, proxy |-> FALSE, output |-> "path",
     content_disposition |-> FALSE, resume |-> "none", range |-> None,
     prohibited |-> FALSE, upload |-> FALSE, no_body |-> FALSE]

\* Redirects, with and without --location-trusted, --post303 and --head.
RedirectConfigs ==
    {[Plain EXCEPT !.followlocation = l, !.unrestricted_auth = a, !.post303 = p,
                   !.no_body = h] : l, a, p, h \in BOOLEAN}

\* Output files: failures, removal, skipping, proxies, resumption and ranges.
OutputConfigs ==
    {[Plain EXCEPT !.failonerror = f, !.rm_partial = r, !.proxy = p, !.output = o] :
        f, r, p \in BOOLEAN, o \in {"stdout", "path"}}
    \cup {[Plain EXCEPT !.failwithbody = TRUE, !.rm_partial = r, !.proxy = p] :
        r, p \in BOOLEAN}
    \cup {[Plain EXCEPT !.content_disposition = TRUE, !.failonerror = f, !.rm_partial = r] :
        f, r \in BOOLEAN}
    \cup {[Plain EXCEPT !.prohibited = TRUE, !.rm_partial = r] : r \in BOOLEAN}
    \cup {[Plain EXCEPT !.skip_existing = TRUE], [Plain EXCEPT !.upload = TRUE]}
    \cup {[Plain EXCEPT !.resume = r, !.proxy = p, !.output = o] :
        r \in {"given", "current"}, p \in BOOLEAN, o \in {"stdout", "path"}}
    \cup {[Plain EXCEPT !.resume = "given", !.proxy = p, !.failwithbody = TRUE] :
        p \in BOOLEAN}
    \cup {[Plain EXCEPT !.range = n, !.rm_partial = r] : n \in 0..BodyLen, r \in BOOLEAN}

AllConfigs == RedirectConfigs \cup OutputConfigs
===============================================================================
