---------------------------- MODULE HttpBackend ----------------------------
(***************************************************************************)
(* src/pkg/providers/aws/lambda/http_backend.go: one request is turned     *)
(* into one invocation of a lambda function, and what the function returns *)
(* into the answer.  Its state is the request's own, so that requests do   *)
(* not meet here.                                                          *)
(*                                                                         *)
(* The answer is what the client sees: net/http keeps the first status,    *)
(* and what goes to the headers after it is lost.                          *)
(***************************************************************************)
VARIABLES
  at,       \* control point of ServeHTTP
  result,   \* what the invocation came to
  status,   \* the status that was written
  headers,  \* whose headers went out with it
  body      \* what was written behind them

Init ==
  /\ at = "idle" /\ result = "none"
  /\ status = "none" /\ headers = "none" /\ body = "none"

Unanswered == UNCHANGED <<status, headers, body>>

Begin ==
  /\ at = "idle" /\ at' = "read"
  /\ UNCHANGED result /\ Unanswered

(* The id of the error is a header, which comes too late for a status that *)
(* was written before.                                                     *)
WrapHttpError ==
  /\ at' = "answered"
  /\ body' = "error"
  /\ IF status = "none"
       THEN status' = "500" /\ headers' = "errorId"
       ELSE UNCHANGED <<status, headers>>

ReadFails ==
  /\ at = "read"
  /\ WrapHttpError
  /\ UNCHANGED result

ReadBody ==
  /\ at = "read" /\ at' = "invoke"
  /\ UNCHANGED result /\ Unanswered

(* The result is nil, and looked into before the error is: a panic, which  *)
(* net/http recovers, and which takes the connection or the stream along.  *)
InvokeFails ==
  /\ at = "invoke" /\ at' = "aborted"
  /\ result' = "failed"
  /\ Unanswered

(* Variant: the error of the function is logged, and its payload used.     *)
FunctionErrorLogged ==
  /\ at = "invoke" /\ at' = "payload"
  /\ result' = "functionError"
  /\ Unanswered

FunctionFails ==
  /\ at = "invoke"
  /\ result' = "functionError"
  /\ WrapHttpError

FunctionReturns ==
  /\ at = "invoke" /\ at' = "payload"
  /\ result' = "payload"
  /\ Unanswered

UnmarshalFails ==
  /\ at = "payload"
  /\ WrapHttpError
  /\ UNCHANGED result

(* A response without a status has the status 0, and WriteHeader panics.   *)
NoStatusCode ==
  /\ at = "payload" /\ at' = "aborted"
  /\ UNCHANGED result /\ Unanswered

WriteHeader ==
  /\ at = "payload" /\ at' = "body"
  /\ status' = "function" /\ headers' = "function"
  /\ UNCHANGED <<result, body>>

(* The body is not the base64 that the response says it is.                *)
DecodeFails ==
  /\ at = "body"
  /\ WrapHttpError
  /\ UNCHANGED result

WriteBody ==
  /\ at = "body" /\ at' = "answered"
  /\ body' = "function"
  /\ UNCHANGED <<result, status, headers>>

(* It is logged, and the client has less than the body.                    *)
WriteFails ==
  /\ at = "body" /\ at' = "answered"
  /\ UNCHANGED <<result, status, headers, body>>

Step ==
  \/ ReadFails \/ ReadBody
  \/ InvokeFails \/ FunctionFails \/ FunctionReturns
  \/ UnmarshalFails \/ NoStatusCode \/ WriteHeader
  \/ DecodeFails \/ WriteBody \/ WriteFails

TypeOK ==
  /\ at \in {"idle", "read", "invoke", "payload", "body", "answered", "aborted"}
  /\ result \in {"none", "failed", "functionError", "payload"}
  /\ status \in {"none", "500", "function"}
  /\ headers \in {"none", "errorId", "function"}
  /\ body \in {"none", "error", "function"}

(* http_backend.go:74-120.  Nothing goes out in the name of the function   *)
(* unless it was invoked and returned a payload without an error of its    *)
(* own; an answer with its body has its status and its headers too; and a  *)
(* failure before its status was written is a whole error: 500, an error   *)
(* id, and never a part of what the function said.                         *)
RealAnswer ==
  /\ "function" \in {status, headers, body} => result = "payload"
  /\ body = "function" => status = "function" /\ headers = "function"
  /\ status = "500" => headers = "errorId" /\ body = "error"
=============================================================================
