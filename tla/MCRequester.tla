----------------------------- MODULE MCRequester -----------------------------
(* Model-checking instance of Requester: the calls the code makes and the  *)
(* responses a service (or a proxy in front of it) can send.               *)
EXTENDS Requester

\* Authenticated and non_auth (health, user-init) calls; silent is used by
\* the import-key fetch of Configurator.prepare.
MCCalls == [nonAuth: BOOLEAN, silent: BOOLEAN]

\* 200 with and without a body, 201 with a body and empty, 204, a service
\* error with a status object, and errors with other bodies (a proxy page).
MCResponses ==
    {[status |-> 200, body |-> "json_other"], [status |-> 200, body |-> "empty"],
     [status |-> 201, body |-> "json_other"], [status |-> 201, body |-> "empty"],
     [status |-> 204, body |-> "empty"],
     [status |-> 400, body |-> "json_status"], [status |-> 404, body |-> "json_other"],
     [status |-> 502, body |-> "raw"]}

=============================================================================
