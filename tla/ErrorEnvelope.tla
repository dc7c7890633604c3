--------------------------- MODULE ErrorEnvelope ---------------------------
(***************************************************************************)
(* The httputils error envelope as the handlers of this repository use it. *)
(* An answer carries its HTTP status, its error code, what its message     *)
(* tells (a fixed text, or the reason the value was refused), and the      *)
(* level it is logged with, which the 5xx alerting reads.                  *)
(***************************************************************************)
EXTENDS Naturals

Envelope(status, code, message, log) ==
    [status |-> status, code |-> code, message |-> message, log |-> log]

\* No code or message to send, nothing to log.
NoText == ""

\* No answer yet, and the answer of a request that succeeded.
NoAnswer == Envelope(0, NoText, NoText, NoText)
AnswerOK == Envelope(200, NoText, NoText, NoText)

SendAPIError(status, code, message) ==
    Envelope(status, code, message, IF status >= 500 THEN "error" ELSE "warn")

\* The internal error goes to the log and not into the message.
SendInternalError(internalErr) ==
    Envelope(500, "INTERNAL_ERROR", "fixed",
             IF internalErr # "nil" THEN "error" ELSE NoText)

SendNotFound == Envelope(404, "NOT_FOUND", "fixed", "warn")

SendForbidden(internalErr) ==
    Envelope(403, "FORBIDDEN", "fixed", IF internalErr # "nil" THEN "warn" ELSE NoText)
=============================================================================
