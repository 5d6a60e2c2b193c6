--------------------------- MODULE SecureTransport ---------------------------
(***************************************************************************)
(* What the transport of the BKPS admin client promises (spec section 4.5  *)
(* and the error taxonomy of section 7), one request after another:        *)
(*                                                                         *)
(*   IDLE -> SESSION_OPEN -> SENT -> {SUCCEEDED, FAILED} -> CLOSED         *)
(*                                                                         *)
(* A request is sent only when its precursor files (CA bundle, and client  *)
(* certificate and key when authenticated) exist; a missing precursor is   *)
(* fatal and ends the process.  A failure (transport error, rejected key,  *)
(* service error) yields "no result"; only a transport in finish-on-error  *)
(* mode may end the process after a failure, and only once the session is *)
(* released.  This is a specification of the promise, not of the code:    *)
(* Requester.tla is checked against it.                                    *)
(***************************************************************************)
VARIABLES
    tstate,      \* where the current request is
    precursors,  \* do the files the current request needs exist?
    result,      \* what the caller got: "pending", "data" or "none"
    alive,       \* is the process running?
    failMode     \* "finish" or "recoverable", fixed when the transport is built

avars == <<tstate, precursors, result, alive, failMode>>

TStates == {"IDLE", "SESSION_OPEN", "SENT", "SUCCEEDED", "FAILED", "CLOSED"}

ATypeOK ==
    /\ tstate \in TStates
    /\ precursors \in BOOLEAN
    /\ result \in {"pending", "data", "none"}
    /\ alive \in BOOLEAN
    /\ failMode \in {"finish", "recoverable"}

AInit ==
    /\ tstate = "IDLE"
    /\ precursors \in BOOLEAN
    /\ result = "pending"
    /\ alive = TRUE
    /\ failMode \in {"finish", "recoverable"}

\* A new request opens a fresh session; the previous one is closed.
AOpen ==
    /\ alive
    /\ tstate \in {"IDLE", "CLOSED"}
    /\ tstate' = "SESSION_OPEN"
    /\ precursors' \in BOOLEAN
    /\ result' = "pending"
    /\ UNCHANGED <<alive, failMode>>

\* PrecursorError: fatal, with the session released.
APrecursorFail ==
    /\ alive
    /\ tstate = "SESSION_OPEN"
    /\ ~precursors
    /\ tstate' = "CLOSED"
    /\ alive' = FALSE
    /\ UNCHANGED <<precursors, result, failMode>>

ASend ==
    /\ alive
    /\ tstate = "SESSION_OPEN"
    /\ precursors
    /\ tstate' = "SENT"
    /\ UNCHANGED <<precursors, result, alive, failMode>>

ASucceed ==
    /\ tstate = "SENT"
    /\ tstate' = "SUCCEEDED"
    /\ result' = "data"
    /\ UNCHANGED <<precursors, alive, failMode>>

\* Failure before the request leaves (TLS, rejected key) or after it.
AFail ==
    /\ tstate \in {"SESSION_OPEN", "SENT"}
    /\ precursors
    /\ tstate' = "FAILED"
    /\ result' = "none"
    /\ UNCHANGED <<precursors, alive, failMode>>

\* The session is released on every outcome; a finish-on-error transport
\* may then end the process after a failure.
AClose ==
    /\ tstate \in {"SUCCEEDED", "FAILED"}
    /\ tstate' = "CLOSED"
    /\ alive' \in IF tstate = "FAILED" /\ failMode = "finish"
                  THEN {TRUE, FALSE} ELSE {TRUE}
    /\ UNCHANGED <<precursors, result, failMode>>

ANext == AOpen \/ APrecursorFail \/ ASend \/ ASucceed \/ AFail \/ AClose

ASpec == AInit /\ [][ANext]_avars
=============================================================================
