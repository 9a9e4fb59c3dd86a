----------------------------- MODULE ErrorMapper ------------------------------
(***************************************************************************)
(* ErrorMapper.to_mcp_error (adapters/errors.py): what a client is told of *)
(* an exception.  An error has a class, a code, details ("none",         *)
(* "other", "mapping", or "approval" for a mapping that holds the approval *)
(* id or reason) and perhaps hints of its own.  Of each text in the        *)
(* envelope we keep where it comes from: "own" is the error's, "fields"    *)
(* and "step" are made of its details, anything else is fixed.             *)
(***************************************************************************)

Error == [class : STRING, code : STRING, details : STRING, hints : BOOLEAN]

InternalCodes == {"CALL_DEPTH_EXCEEDED", "CIRCULAR_CALL", "CALL_FREQUENCY_EXCEEDED"}

Envelope(type, message, details) ==
  [type |-> type, message |-> message, details |-> details,
   retryable |-> "absent", guidance |-> "absent"]

Internal == Envelope("GENERAL_INTERNAL_ERROR", "generic", "none")

\* _attach_ai_guidance: the error's hints fill what is absent.
Hinted(e, m) ==
  IF e.hints THEN [m EXCEPT !.retryable = IF @ = "absent" THEN "own" ELSE @,
                            !.guidance = IF @ = "absent" THEN "own" ELSE @]
  ELSE m

RawDetails(e) == IF e.details = "none" THEN "none" ELSE "own"

TaskLimit(e) ==
  Hinted(e, [Envelope("TASK_LIMIT_EXCEEDED", "own", RawDetails(e)) EXCEPT !.retryable = "true"])

CircuitBreaker(e) ==
  LET m == Hinted(e, [Envelope("CIRCUIT_BREAKER_OPEN", "own", RawDetails(e)) EXCEPT !.retryable = "true"])
  IN [m EXCEPT !.guidance = IF @ = "absent" THEN "canonical" ELSE @]

Mapping(e) == IF e.details \in {"mapping", "approval"} THEN "own" ELSE "none"

\* Slip the runs must catch: every apcore error is passed through.
ApcoreErrorPassed(e) == Hinted(e, Envelope(e.code, "own", Mapping(e)))

\* _handle_apcore_error, dispatch on the code.
ApcoreError(e) ==
  CASE e.code \in InternalCodes -> Envelope(e.code, "generic", "none")
    [] e.code = "ACL_DENIED" -> Envelope(e.code, "denied", "none")
    [] e.code = "TASK_LIMIT_EXCEEDED" -> TaskLimit(e)
    [] e.code = "CIRCUIT_BREAKER_OPEN" -> CircuitBreaker(e)
    [] e.code = "SCHEMA_VALIDATION_ERROR" -> Hinted(e, Envelope(e.code, "fields", Mapping(e)))
    [] e.code = "APPROVAL_PENDING" ->
         Hinted(e, Envelope(e.code, "own", IF e.details = "approval" THEN "approvalId" ELSE "none"))
    [] e.code = "APPROVAL_TIMEOUT" ->
         Hinted(e, [Envelope(e.code, "own", Mapping(e)) EXCEPT !.retryable = "true"])
    [] e.code = "APPROVAL_DENIED" ->
         Hinted(e, Envelope(e.code, "own", IF e.details = "approval" THEN "reason" ELSE Mapping(e)))
    [] e.code \in {"CONFIG_ENV_MAP_CONFLICT", "PIPELINE_ABORT"} ->
         Hinted(e, Envelope(e.code, "step", Mapping(e)))
    [] OTHER -> Hinted(e, Envelope(e.code, "own", Mapping(e)))

\* Dispatch on the class; a lookalike has a code, a message and details.
ToMcpError(e) ==
  CASE e.class = "cancelled" ->
         [Envelope("EXECUTION_CANCELLED", "cancelled", "none") EXCEPT !.retryable = "true"]
    [] e.class = "taskLimit" -> TaskLimit(e)
    [] e.class = "circuitOpen" -> CircuitBreaker(e)
    [] e.class \in {"module", "lookalike"} -> ApcoreError(e)
    [] OTHER -> Internal
==============================================================================
