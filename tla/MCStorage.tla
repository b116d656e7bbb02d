----------------------------- MODULE MCStorage ------------------------------
(* Storage for TLC: the groups of callers that TLC looks at, one at a time. *)
EXTENDS Storage

MCRoles == {<<"upload", "upload">>, <<"upload", "delete">>, <<"upload", "presign">>,
            <<"enqueue", "pinJob">>, <<"pin", "verify">>, <<"push", "push">>}
=============================================================================
