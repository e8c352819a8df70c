--------------------------- MODULE ErrorMapping ---------------------------
(***************************************************************************)
(* resolve_exception: how an exception becomes an HTTP status, an error    *)
(* code and details (app/core/exception_handlers.py, exceptions.py,        *)
(* errors.py).  The function is a chain of isinstance tests, so its order  *)
(* matters: a class tested after one of its bases never reaches its own    *)
(* test, as happens to MfaRequiredError.                                   *)
(***************************************************************************)
EXTENDS Naturals, Sequences, FiniteSets, TLC

(* An exception: its class, the status an HTTPException carries, and the    *)
(* attribute that decides between two answers of a class.                   *)
Exc(class) == [class |-> class, status |-> 0, flag |-> "none"]
HTTPException(status) == [class |-> "HTTPException", status |-> status, flag |-> "none"]
Retryable(class) == [class |-> class, status |-> 0, flag |-> "retryable"]
ShuttingDown == [class |-> "RuntimeError", status |-> 0, flag |-> "shutting down"]

(* An answer: the status, and the code of the error envelope with what its  *)
(* details tell.                                                            *)
Answer(status, code) == [status |-> status, code |-> code, details |-> "none"]
build_error_response(status, code, details) ==
  [status |-> status, code |-> code, details |-> details]

-----------------------------------------------------------------------------
(* The base class of each class that has one besides Exception.             *)
On(base, classes) == [c \in classes |-> base]

PlatformBases ==
  On("RetrievalValidationError", {"CrossTenantAccessError", "UnauthorizedAgentAccessError"})
  @@ On("MemoryAccessError", {"CrossTenantMemoryError", "SessionExpiredError"})
  @@ On("NotFoundError", {"SessionNotFoundError", "ToolNotFoundError"})
  @@ On("ToolExecutionError", {"ToolCircuitOpenError"})

WorkflowBases ==
  On("NotFoundError", {"PlannerSessionNotFoundError", "WorkflowNotFoundError"})

IamBases ==
  On("AuthenticationError", {"InvalidCredentialsError", "TokenExpiredError", "MfaRequiredError"})
  @@ On("AuthorizationError", {"InsufficientPermissionsError"})
  @@ On("NotFoundError", {"IamUserNotFoundError", "OrganizationNotFoundError",
                          "ApiKeyNotFoundError", "IamSessionNotFoundError"})

LibraryBases ==
  On("DBAPIError", {"IntegrityError", "OperationalError"})
  @@ On("SQLAlchemyError", {"DBAPIError"})
  @@ On("ValueError", {"ValidationError"})

Bases == PlatformBases @@ WorkflowBases @@ IamBases @@ LibraryBases

(* A class and its bases, nearest first.                                    *)
Mro(c) ==
  LET Last(s) == s[Len(s)]
      Up(s) == IF Last(s) \in DOMAIN Bases THEN Append(s, Bases[Last(s)]) ELSE s
  IN Up(Up(<<c>>))

isinstance(c, classes) == \E i \in DOMAIN Mro(c) : Mro(c)[i] \in classes

-----------------------------------------------------------------------------
(* The tests of resolve_exception in order: the classes, and the answer.    *)
Detailed(classes, status, code, details) ==
  [classes |-> classes, answer |-> build_error_response(status, code, details)]
Test(classes, status, code) == Detailed(classes, status, code, "none")

LibraryTests ==
  << Detailed({"RequestValidationError"}, 422, "validation_error", "errors"),
     Test({"TimeoutError"}, 504, "request_timeout"),
     Detailed({"IntegrityError"}, 409, "conflict", "type"),
     Test({"OperationalError", "DBAPIError"}, 503, "database_error"),
     Test({"SQLAlchemyError"}, 503, "database_error") >>

PlatformTests ==
  << Test({"NotFoundError"}, 404, "not_found"),
     Test({"ConflictError"}, 409, "conflict"),
     Test({"DatabaseUnavailableError"}, 503, "service_unavailable"),
     Detailed({"RetrievalValidationError"}, 422, "retrieval_error", "violations"),
     Detailed({"MemoryAccessError", "CrossTenantMemoryError", "SessionExpiredError"},
              403, "memory_error", "violations") >>

ToolTests ==
  << Detailed({"ToolPermissionDeniedError", "CrossTenantToolError"},
              403, "tool_error", "violations"),
     Detailed({"ToolValidationError"}, 422, "tool_error", "violations"),
     Test({"ToolRateLimitError"}, 429, "rate_limit_exceeded"),
     Test({"ToolExecutionError", "ToolCircuitOpenError"}, 500, "tool_error") >>

PlannerTests ==
  << Detailed({"PlannerPolicyViolationError", "CrossTenantPlannerError"},
              403, "planner_error", "violations"),
     Detailed({"PlannerValidationError"}, 422, "planner_error", "violations"),
     Detailed({"PlannerConfidenceTooLowError"}, 422, "planner_error", "confidence"),
     Detailed({"VerifierPolicyViolationError", "CrossTenantVerifierError", "VerifierRejectionError"},
              403, "verifier_error", "violations"),
     Detailed({"VerifierValidationError", "VerifierComplianceError"},
              422, "verifier_error", "violations") >>

WorkflowTests ==
  << Detailed({"CrossTenantWorkflowError", "WorkflowPolicyViolationError"},
              403, "workflow_error", "violations"),
     Detailed({"WorkflowApprovalRequiredError"}, 409, "workflow_error", "approval_id"),
     Detailed({"WorkflowValidationError"}, 422, "workflow_error", "violations"),
     Test({"WorkflowExecutionError"}, 500, "workflow_error") >>

IamTests ==
  << Test({"InvalidCredentialsError", "AuthenticationError", "TokenExpiredError"},
          401, "authentication_error"),
     Detailed({"MfaRequiredError"}, 401, "authentication_error", "challenge_id"),
     Detailed({"InsufficientPermissionsError", "AuthorizationError", "CrossOrganizationAccessError"},
              403, "authorization_error", "permission"),
     Test({"OrganizationNotFoundError", "IamUserNotFoundError", "ApiKeyNotFoundError",
           "IamSessionNotFoundError"}, 404, "not_found"),
     Detailed({"IamValidationError", "SecurityPolicyViolationError"},
              422, "validation_error", "violations"),
     Test({"ValueError"}, 400, "validation_error") >>

Tests == LibraryTests \o PlatformTests \o ToolTests \o PlannerTests \o WorkflowTests \o IamTests

-----------------------------------------------------------------------------
(* code_from_status: the code of an HTTPException, by its status.          *)
code_from_status(status) ==
  CASE status \in {400, 422} -> "validation_error"
    [] status = 401 -> "authentication_error"
    [] status = 403 -> "authorization_error"
    [] status = 404 -> "not_found"
    [] status = 409 -> "conflict"
    [] status = 429 -> "rate_limit_exceeded"
    [] status = 503 -> "service_unavailable"
    [] status = 504 -> "request_timeout"
    [] OTHER -> "internal_error"

(* domain_code: the missing things that have a code of their own.          *)
domain_code(class) ==
  CASE class = "ToolNotFoundError" -> "tool_error"
    [] class = "WorkflowNotFoundError" -> "workflow_error"
    [] class = "PlannerSessionNotFoundError" -> "planner_error"
    [] class = "SessionNotFoundError" -> "memory_error"
    [] OTHER -> "not_found"

(* The answer of test t for the exception e.                                *)
Outcome(t, e) ==
  CASE t.classes = {"NotFoundError"} -> Answer(404, domain_code(e.class))
    [] t.answer.status = 500 /\ e.flag = "retryable" -> [t.answer EXCEPT !.status = 503]
    [] OTHER -> t.answer

-----------------------------------------------------------------------------
(* The classes of the hierarchy and of the tests, and the exceptions        *)
(* a request can end with.                                                  *)
Classes == DOMAIN Bases \cup UNION {Tests[i].classes : i \in DOMAIN Tests}
              \cup {"RuntimeError", "AttributeError"}

Exceptions == {Exc(c) : c \in Classes}
                \cup {Retryable(c) : c \in {"ToolExecutionError", "ToolCircuitOpenError",
                                            "WorkflowExecutionError"}}
                \cup {HTTPException(s) : s \in {400, 401, 403, 404, 422, 500, 503}}
                \cup {ShuttingDown}

-----------------------------------------------------------------------------
(* The first test that passes decides; an HTTPException brings its status.  *)
resolve_exception ==
  [e \in Exceptions |->
    LET Passed == {i \in DOMAIN Tests : isinstance(e.class, Tests[i].classes)}
        First == CHOOSE i \in Passed : \A j \in Passed : i <= j
    IN CASE e.class = "HTTPException" -> Answer(e.status, code_from_status(e.status))
         [] Passed # {} -> Outcome(Tests[First], e)
         [] e.flag = "shutting down" -> Answer(503, "service_unavailable")
         [] OTHER -> Answer(500, "internal_error")]
=============================================================================
