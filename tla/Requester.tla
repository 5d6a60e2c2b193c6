------------------------------ MODULE Requester ------------------------------
(***************************************************************************)
(* Requester.perform_request (Modules/Requester.py:77-143), the one        *)
(* function every REST call of the admin client goes through, over a      *)
(* series of calls made by one process.                                    *)
(*                                                                         *)
(* A call creates a requests.Session, checks the CA bundle and (unless     *)
(* non_auth) the client certificate and key with check_file, which ends    *)
(* the process with sys.exit when a file is missing; then, inside          *)
(* try/except/finally, probes the client key for a passphrase, sends, and  *)
(* classifies the response for display; an exception ends the process      *)
(* with exit(1) when finish_on_error is set and returns None otherwise;    *)
(* finally closes the session.                                             *)
(*                                                                         *)
(* The server, the files and the installed urllib3 are the environment:    *)
(* a response is a [status, body] record from a set given per model, the   *)
(* body a class of text ("empty", "json_status" = a JSON object with a     *)
(* "status" field, "json_other", "raw" = not JSON).                        *)
(***************************************************************************)
EXTENDS Naturals, Sequences, TLC

CONSTANTS
    None,
    Calls,          \* [nonAuth: BOOLEAN, silent: BOOLEAN] the callers make
    Responses,      \* [status: Nat, body: Bodies] the service may send
    MissingFiles,   \* files that may be absent: SUBSET {"ca", "cert", "key"}
    KeyKinds,       \* the client key: SUBSET {"plain", "encrypted"}
    Urllib3,        \* installed urllib3: SUBSET {"old", "new"} (new >= 1.25.3)
    Ports,          \* service_port from the config: SUBSET {"int", "bad"}
    FinishModes,    \* finish_on_error values: SUBSET BOOLEAN
    MaxCalls        \* perform_request calls one process makes

Bodies == {"empty", "json_status", "json_other", "raw"}
FileNames == {"ca", "cert", "key"}

ASSUME MaxCalls \in Nat \ {0}

VARIABLES
    env,            \* [files, key, urllib3, port]: fixed for the process
    finishOnError,  \* Requester.finish_on_error (Commands.init_requests)
    pc,             \* where the current call is
    session,        \* self.session: "none", "open" or "closed"
    call,           \* arguments of the current call
    resp,           \* the response of the current call, None before send
    retval,         \* what the current call returns: "data" or None
    calls,          \* calls started so far
    exitCause       \* why the process ended, None while it runs

rvars == <<env, finishOnError, pc, session, call, resp, retval, calls, exitCause>>

PCs == {"idle", "open", "try", "sent", "return", "except"}

Envs == [files: [FileNames -> BOOLEAN], key: KeyKinds, urllib3: Urllib3, port: Ports]

-----------------------------------------------------------------------------

\* requests.codes.ok and requests.codes.created
Ok == 200
Created == 201

\* The files the call passes to check_file (Requester.py:84-89).
Needed(c) == IF c.nonAuth THEN {"ca"} ELSE FileNames

\* The OpenSSL.crypto.load_privatekey probe (Requester.py:99-102) raises
\* PassPhraseError for an encrypted key, but only runs for urllib3 >= 1.25.3.
ProbeRaises(c, e) == ~c.nonAuth /\ e.urllib3 = "new" /\ e.key = "encrypted"

\* The display code (Requester.py:123-132) raises when it falls through to
\* json.loads(data_str)["status"] on a body without a "status" field.
DisplayRaises(c, r) ==
    /\ ~c.silent
    /\ ~(r.status = Ok)
    /\ ~(r.status = Created /\ r.body # "empty")
    /\ r.body # "json_status"

\* Mutant: res.text is returned instead of res.content.
ReturnedValueRaw(r) == r.body

\* What the try block returns (Requester.py:134-137).
ReturnedValue(r) == IF r.status = Ok THEN "data" ELSE None

\* Mutant: close() moved into the try block, so an exception skips it.
SessionAfterNoFinally(p) == IF p = "except" THEN "open" ELSE "closed"

\* self.session after the finally clause (Requester.py:142-143).
SessionAfter(p) == "closed"

TypeOK ==
    /\ env \in Envs
    /\ finishOnError \in BOOLEAN
    /\ pc \in PCs
    /\ session \in {"none", "open", "closed"}
    /\ call \in Calls \cup {None}
    /\ resp \in Responses \cup {None}
    /\ retval \in {"data", None}
    /\ calls \in 0..MaxCalls
    /\ exitCause \in {None, "sys.exit", "exit(1)"}

Alive == exitCause = None

Init ==
    /\ env \in {e \in Envs : \A f \in FileNames \ MissingFiles : e.files[f]}
    /\ finishOnError \in FinishModes
    /\ pc = "idle"
    /\ session = "none"
    /\ call = None
    /\ resp = None
    /\ retval = None
    /\ calls = 0
    /\ exitCause = None

-----------------------------------------------------------------------------
(* perform_request, one action per stretch of code between the points     *)
(* where control can leave it.                                             *)

\* Lines 78-83: a new Session for this call.
Open(c) ==
    /\ Alive
    /\ pc = "idle"
    /\ calls < MaxCalls
    /\ pc' = "open"
    /\ session' = "open"
    /\ call' = c
    /\ resp' = None
    /\ retval' = None
    /\ calls' = calls + 1
    /\ UNCHANGED <<env, finishOnError, exitCause>>

\* Lines 84-92: check_file on each needed file; the first missing one ends
\* the process with sys.exit, outside the try, so finally never runs.
CheckFiles ==
    /\ Alive
    /\ pc = "open"
    /\ IF \A f \in Needed(call) : env.files[f]
       THEN /\ pc' = "try"
            /\ UNCHANGED exitCause
       ELSE /\ exitCause' = "sys.exit"
            /\ UNCHANGED pc
    /\ UNCHANGED <<env, finishOnError, session, call, resp, retval, calls>>

\* Lines 94-106: the passphrase probe, int(service_port) and the send raise,
\* or a response arrives.  A TLS or network error can always happen.
Send ==
    /\ Alive
    /\ pc = "try"
    /\ \/ /\ pc' = "except"
          /\ UNCHANGED resp
       \/ /\ ~ProbeRaises(call, env)
          /\ env.port = "int"
          /\ pc' = "sent"
          /\ resp' \in Responses
    /\ UNCHANGED <<env, finishOnError, session, call, retval, calls, exitCause>>

\* Lines 108-137: display the response, then return res.content for 200
\* and None otherwise.
Display ==
    /\ Alive
    /\ pc = "sent"
    /\ IF DisplayRaises(call, resp)
       THEN /\ pc' = "except"
            /\ UNCHANGED retval
       ELSE /\ pc' = "return"
            /\ retval' = ReturnedValue(resp)
    /\ UNCHANGED <<env, finishOnError, session, call, resp, calls, exitCause>>

\* Lines 138-143: the except clause (exit(1) under finish_on_error, else the
\* call returns None) and the finally clause that closes the session.
Finally ==
    /\ Alive
    /\ pc \in {"return", "except"}
    /\ session' = SessionAfter(pc)
    /\ pc' = "idle"
    /\ IF pc = "except" /\ finishOnError
       THEN exitCause' = "exit(1)"
       ELSE UNCHANGED exitCause
    /\ retval' = IF pc = "except" THEN None ELSE retval
    /\ UNCHANGED <<env, finishOnError, call, resp, calls>>

Next ==
    \/ \E c \in Calls : Open(c)
    \/ CheckFiles
    \/ Send
    \/ Display
    \/ Finally

Spec == Init /\ [][Next]_rvars

-----------------------------------------------------------------------------
(* Refinement: perform_request implements the transport of spec 4.5.     *)

\* The abstract state of the current call.  Ending the process releases
\* everything it holds, so a process that ended is CLOSED.
MappedState ==
    IF ~Alive THEN "CLOSED"
    ELSE CASE session = "none"     -> "IDLE"
           [] pc \in {"open", "try"} -> "SESSION_OPEN"
           [] pc = "sent"           -> "SENT"
           [] pc = "except"         -> "FAILED"
           [] pc = "return"         -> IF retval = "data" THEN "SUCCEEDED" ELSE "FAILED"
           [] session = "open"      -> "SESSION_OPEN"
           [] OTHER                 -> "CLOSED"

MappedResult ==
    CASE call = None       -> "pending"
      [] pc \in {"open", "try", "sent"} -> "pending"
      [] retval = "data"   -> "data"
      [] OTHER             -> "none"

T == INSTANCE SecureTransport WITH
        tstate     <- MappedState,
        precursors <- call = None \/ \A f \in Needed(call) : env.files[f],
        result     <- MappedResult,
        alive      <- Alive,
        failMode   <- IF finishOnError THEN "finish" ELSE "recoverable"

\* Every behaviour of perform_request is one the transport of spec 4.5
\* allows: nothing is sent unless the CA bundle (and, when authenticated,
\* the certificate and key) exist; the session is released before the next
\* call opens one; data reaches the caller only from a response; and only a
\* finish_on_error Requester ends the process after a failure.
TransportRefinement == T!ASpec

\* Spec 4.5 and 7: every response the service sends is handled: a 2xx is
\* a success, with or without a body, and a non-2xx is surfaced to the
\* operator, its "status" field when the body has one and the raw body
\* otherwise.  No response is turned into an exception, the path that ends
\* a finish_on_error process with exit(1) (Requester.py:123-132 parses the
\* body as JSON without a fallback).
ResponseHandled ==
    [][pc = "sent" => pc' # "except"]_rvars

\* Spec 7: an authenticated call with a passphrase-protected client key is
\* refused with a PrecursorError before anything is sent, never prompted
\* for; Requester.py:99-102 only probes the key when urllib3 >= 1.25.3.
EncryptedKeyRefused ==
    [][pc = "try" /\ ~call.nonAuth /\ env.key = "encrypted" => pc' # "sent"]_rvars

\* Spec 4.5 and 7, the two conjuncts above: every response is handled
\* without an exception, and a passphrase-protected client key is refused
\* before anything is sent, whichever urllib3 is installed.
TransportErrorsAsSpecified == ResponseHandled /\ EncryptedKeyRefused

=============================================================================
