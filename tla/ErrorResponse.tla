--------------------------- MODULE ErrorResponse ---------------------------
(***************************************************************************)
(* rdw-api/src/errors.rs: what an ApiError looks like to the client, and   *)
(* how the errors of the RDW client and of the pipeline become ApiErrors.  *)
(***************************************************************************)
EXTENDS Integers

\* ApiError, without the texts it carries.
ApiErrors == {"BadRequest", "Unauthorized", "RateLimited", "Busy", "BadGateway",
              "GatewayTimeout", "NotAcceptable"}

StatusCode(err) ==
    CASE err = "BadRequest"              -> 400
      [] err = "Unauthorized"            -> 401
      [] err \in {"RateLimited", "Busy"} -> 429
      [] err = "BadGateway"              -> 502
      [] err = "GatewayTimeout"          -> 504
      [] err = "NotAcceptable"           -> 406

\* retry_after_secs: none (the empty set) or the seconds; wait is what
\* RateLimited carries.
RetryAfter(err, wait) ==
    CASE err = "RateLimited"                    -> {wait}
      [] err = "Busy"                           -> {5}
      [] err \in ApiErrors \ {"RateLimited", "Busy"} -> {}

\* What an Accept header can say, as far as prefers_html tells it apart.
Accepts == {"absent", "text/html", "other"}
PrefersHtml(accept) == accept = "text/html"

\* render and render_to_response: a 406 is plain text for everybody.
Render(err, wait, accept) ==
    [status |-> StatusCode(err), retryAfter |-> RetryAfter(err, wait),
     contentType |-> IF err # "NotAcceptable" /\ PrefersHtml(accept)
                     THEN "text/html" ELSE "text/plain"]

----------------------------------------------------------------------------
\* From<ClientError> for PipelineError.
PipelineErrorOf(clientError) ==
    IF clientError = "Timeout" THEN "Timeout" ELSE "Upstream"

PipelineErrors == {"Timeout", "Upstream", "DataIntegrity", "Assembly",
                   "FuelFailureThresholdExceeded", "WorkerPanic"}

\* pipeline_error_to_api_error
ApiErrorOf(pipelineError) ==
    IF pipelineError = "Timeout" THEN "GatewayTimeout" ELSE "BadGateway"

============================================================================
