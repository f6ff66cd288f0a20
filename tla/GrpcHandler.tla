---------------------------- MODULE GrpcHandler ----------------------------
(***************************************************************************)
(* One gRPC call through the router: grpcHandler.Handle of                 *)
(* src/pkg/server/grpc.go with the only method backend there is, that of   *)
(* src/pkg/providers/aws/lambda/grpc_backend.go.                           *)
(*                                                                         *)
(* Handle starts two goroutines and collects their results over two        *)
(* unbuffered channels.  One receives a message and calls Request, which   *)
(* invokes the lambda function and stores what it answered in the backend; *)
(* the other calls Response, which reads the answer out of the backend,    *)
(* and sends it.  Nothing orders the two: the fields of the backend are    *)
(* read while they are written, and the steps here are those of the code   *)
(* that another goroutine can see.                                         *)
(*                                                                         *)
(* The payloads are left out, and Begin with them: it only keeps metadata  *)
(* for the payload of the invocation.                                      *)
(***************************************************************************)
EXTENDS Naturals

CONSTANTS MaxSent  \* messages are counted up to here

ASSUME SentAssumption == MaxSent \in Nat \ {0}

(* 200, 410, for which a status is made with codes.OK, and the others.     *)
Statuses == {"ok", "gone", "error"}
Flows == {"receive", "send"}
Points == {"recv", "invoke", "unmarshal", "decode", "body", "metadata",
           "response", "readMetadata", "readBody", "errorId", "header", "message",
           "report", "close", "closed"}

VARIABLES
  handle,    \* control point of Handle
  watched,   \* the flows whose channel Handle has not seen closed
  events,    \* i of the loop of Handle
  callResult,    \* what Handle returned
  pc,        \* pc[f]: control point of the goroutine of flow f
  failed,    \* failed[f]: what flow f returned is an error
  lambdaResponse,    \* its status; "none" for nil, "empty" before it is decoded
  responseBody,      \* "none", "torn" while it is written, or "whole"
  outgoingMetadata,  \* it is not nil
  reply,     \* what Response read: status, metadata and body
  first,     \* no message has been sent yet
  header,    \* the metadata has been set as header of the stream
  sent,      \* the messages sent
  panicked   \* a goroutine panicked, and no one recovers: the process is dead

handleVars == <<handle, watched, events, callResult>>
answerVars == <<lambdaResponse, responseBody, outgoingMetadata>>
streamVars == <<first, header, sent>>
callVars == <<handleVars, pc, failed, answerVars, reply, streamVars, panicked>>

NoReply == [status |-> "none", metadata |-> FALSE, body |-> "none"]

CallInit ==
  /\ handle = "flow" /\ watched = Flows /\ events = 0 /\ callResult = "none"
  /\ pc = [f \in Flows |-> IF f = "receive" THEN "recv" ELSE "response"]
  /\ failed = [f \in Flows |-> FALSE]
  /\ lambdaResponse = "none" /\ responseBody = "none" /\ outgoingMetadata = FALSE
  /\ reply = NoReply
  /\ first = TRUE /\ header = FALSE /\ sent = 0
  /\ panicked = FALSE

At(f, point) == pc[f] = point
Goto(f, point) == pc' = [pc EXCEPT ![f] = point]

(* The flow returns, and its goroutine has the result to report.           *)
Returns(f, error) ==
  /\ Goto(f, "report")
  /\ failed' = [failed EXCEPT ![f] = error]

-----------------------------------------------------------------------------
(* grpcReceiveFrom, and Request of the backend.  Request returns io.EOF at *)
(* best, so that one message is received and no second one.                *)

RecvMessage ==
  /\ At("receive", "recv")
  /\ Goto("receive", "invoke")
  /\ UNCHANGED <<handleVars, failed, answerVars, reply, streamVars, panicked>>

(* The client has closed its side, or the stream is broken.                *)
RecvEnds(error) ==
  /\ At("receive", "recv")
  /\ Returns("receive", error)
  /\ UNCHANGED <<handleVars, answerVars, reply, streamVars, panicked>>

(* Invoke returns a nil result with its error, which is looked at first.   *)
InvokeFails ==
  /\ At("receive", "invoke")
  /\ panicked' = TRUE
  /\ UNCHANGED <<handleVars, pc, failed, answerVars, reply, streamVars>>

FunctionFails ==
  /\ At("receive", "invoke")
  /\ Returns("receive", TRUE)
  /\ UNCHANGED <<handleVars, answerVars, reply, streamVars, panicked>>

InvokeReturns ==
  /\ At("receive", "invoke")
  /\ lambdaResponse' = "empty"
  /\ Goto("receive", "unmarshal")
  /\ UNCHANGED <<handleVars, failed, responseBody, outgoingMetadata, reply, streamVars,
                 panicked>>

Unmarshal(status) ==
  /\ At("receive", "unmarshal")
  /\ lambdaResponse' = status
  /\ Goto("receive", "decode")
  /\ UNCHANGED <<handleVars, failed, responseBody, outgoingMetadata, reply, streamVars,
                 panicked>>

(* json.Unmarshal goes on after a field of another type.                   *)
UnmarshalFails(status) ==
  /\ At("receive", "unmarshal")
  /\ lambdaResponse' = status
  /\ Returns("receive", TRUE)
  /\ UNCHANGED <<handleVars, responseBody, outgoingMetadata, reply, streamVars, panicked>>

DecodeFails ==
  /\ At("receive", "decode")
  /\ Returns("receive", TRUE)
  /\ UNCHANGED <<handleVars, answerVars, reply, streamVars, panicked>>

(* A slice is more than a word, and another goroutine may see half of it.  *)
WriteBody ==
  /\ At("receive", "decode")
  /\ responseBody' = "torn"
  /\ Goto("receive", "body")
  /\ UNCHANGED <<handleVars, failed, lambdaResponse, outgoingMetadata, reply, streamVars,
                 panicked>>

BodyWritten ==
  /\ At("receive", "body")
  /\ responseBody' = "whole"
  /\ Goto("receive", "metadata")
  /\ UNCHANGED <<handleVars, failed, lambdaResponse, outgoingMetadata, reply, streamVars,
                 panicked>>

RequestReturns ==
  /\ At("receive", "metadata")
  /\ outgoingMetadata' = TRUE
  /\ Returns("receive", FALSE)
  /\ UNCHANGED <<handleVars, lambdaResponse, responseBody, reply, streamVars, panicked>>

ReceiveStep ==
  \/ InvokeFails \/ FunctionFails \/ InvokeReturns
  \/ \E status \in Statuses : Unmarshal(status)
  \/ \E status \in Statuses \cup {"empty"} : UnmarshalFails(status)
  \/ DecodeFails \/ WriteBody \/ BodyWritten \/ RequestReturns

-----------------------------------------------------------------------------
(* grpcSendFrom, and Response of the backend.                              *)

ReadStatusNil ==
  /\ At("send", "response")
  /\ lambdaResponse = "none"
  /\ panicked' = TRUE
  /\ UNCHANGED <<handleVars, pc, failed, answerVars, reply, streamVars>>

(* The zero status of an answer not decoded yet is one of the others.      *)
ReadStatus ==
  /\ At("send", "response")
  /\ lambdaResponse # "none"
  /\ reply' = [NoReply EXCEPT !.status =
                 IF lambdaResponse = "empty" THEN "error" ELSE lambdaResponse]
  /\ Goto("send", IF lambdaResponse = "ok" THEN "readMetadata" ELSE "errorId")
  /\ UNCHANGED <<handleVars, failed, answerVars, streamVars, panicked>>

ReadMetadata ==
  /\ At("send", "readMetadata")
  /\ reply' = [reply EXCEPT !.metadata = outgoingMetadata]
  /\ Goto("send", "readBody")
  /\ UNCHANGED <<handleVars, failed, answerVars, streamVars, panicked>>

ReadBody ==
  /\ At("send", "readBody")
  /\ reply' = [reply EXCEPT !.body = responseBody]
  /\ Goto("send", "header")
  /\ UNCHANGED <<handleVars, failed, answerVars, streamVars, panicked>>

(* Set on nil metadata assigns to an entry of a nil map.                   *)
SetErrorIdNil ==
  /\ At("send", "errorId") /\ ~outgoingMetadata
  /\ panicked' = TRUE
  /\ UNCHANGED <<handleVars, pc, failed, answerVars, reply, streamVars>>

SetErrorId ==
  /\ At("send", "errorId") /\ outgoingMetadata
  /\ reply' = [reply EXCEPT !.metadata = TRUE]
  /\ Goto("send", "header")
  /\ UNCHANGED <<handleVars, failed, answerVars, streamVars, panicked>>

SetHeaderFails ==
  /\ At("send", "header") /\ first /\ reply.metadata
  /\ Returns("send", TRUE)
  /\ UNCHANGED <<handleVars, answerVars, reply, streamVars, panicked>>

(* The error of Response is looked at after the header is set; a status    *)
(* with codes.OK has a nil error.                                          *)
SetHeader ==
  /\ At("send", "header")
  /\ handle = "flow" \/ ~first \/ ~reply.metadata
  /\ header' = (header \/ (first /\ reply.metadata))
  /\ \/ reply.status = "error" /\ Returns("send", TRUE)
     \/ reply.status # "error" /\ Goto("send", "message") /\ UNCHANGED failed
  /\ UNCHANGED <<handleVars, answerVars, reply, first, sent, panicked>>

(* Half a slice is taken for a whole one.                                  *)
SendTornBody ==
  /\ At("send", "message") /\ reply.body = "torn"
  /\ panicked' = TRUE
  /\ UNCHANGED <<handleVars, pc, failed, answerVars, reply, streamVars>>

SendMsgFails ==
  /\ At("send", "message")
  /\ Returns("send", TRUE)
  /\ UNCHANGED <<handleVars, answerVars, reply, streamVars, panicked>>

(* The stream is done once Handle has returned.  Without io.EOF, which     *)
(* only comes with 200, the loop goes on to the next Response.             *)
SendMsg ==
  /\ At("send", "message")
  /\ handle = "flow"
  /\ sent' = IF sent < MaxSent THEN sent + 1 ELSE sent
  /\ first' = FALSE
  /\ \/ reply.status = "ok" /\ Returns("send", FALSE)
     \/ reply.status = "gone" /\ Goto("send", "response") /\ UNCHANGED failed
  /\ UNCHANGED <<handleVars, answerVars, reply, header, panicked>>

SendStep ==
  \/ ReadStatusNil \/ ReadStatus \/ ReadMetadata \/ ReadBody
  \/ SetErrorIdNil \/ SetErrorId \/ SetHeaderFails \/ SetHeader
  \/ SendTornBody \/ SendMsgFails \/ SendMsg

-----------------------------------------------------------------------------
(* Handle, and the goroutines of wrapGrpcFlow.                             *)

(* Variant: the loop has no bound, and channels are not set to nil.        *)
ListeningAlways(f) == handle = "flow"

Listening(f) == handle = "flow" /\ f \in watched /\ events < 4

(* Variant: an error is taken for an event like any other.                 *)
ReportAny(f) ==
  /\ At(f, "report") /\ Listening(f)
  /\ Goto(f, "close")
  /\ events' = events + 1
  /\ UNCHANGED <<handle, watched, callResult, failed, answerVars, reply, streamVars, panicked>>

Report(f) ==
  /\ At(f, "report") /\ Listening(f)
  /\ Goto(f, "close")
  /\ \/ /\ failed[f]
        /\ handle' = "returned" /\ callResult' = "error"
        /\ UNCHANGED events
     \/ /\ ~failed[f]
        /\ events' = events + 1
        /\ UNCHANGED <<handle, callResult>>
  /\ UNCHANGED <<watched, failed, answerVars, reply, streamVars, panicked>>

Close(f) ==
  /\ At(f, "close")
  /\ Goto(f, "closed")
  /\ UNCHANGED <<handleVars, failed, answerVars, reply, streamVars, panicked>>

(* Variant: the closed channel is not set to nil, and keeps on firing.     *)
SeeClosedAgain(f) ==
  /\ At(f, "closed") /\ Listening(f)
  /\ events' = events + 1
  /\ UNCHANGED <<handle, watched, callResult, pc, failed, answerVars, reply, streamVars,
                 panicked>>

SeeClosed(f) ==
  /\ At(f, "closed") /\ Listening(f)
  /\ watched' = watched \ {f}
  /\ events' = events + 1
  /\ UNCHANGED <<handle, callResult, pc, failed, answerVars, reply, streamVars, panicked>>

(* Variant: two events are waited for, one for each flow.                  *)
HandleReturnsAtTwo ==
  /\ handle = "flow" /\ events >= 2
  /\ handle' = "returned" /\ callResult' = "ok"
  /\ UNCHANGED <<watched, events, pc, failed, answerVars, reply, streamVars, panicked>>

HandleReturns ==
  /\ handle = "flow" /\ events = 4
  /\ handle' = "returned" /\ callResult' = "ok"
  /\ UNCHANGED <<watched, events, pc, failed, answerVars, reply, streamVars, panicked>>

(* A flow that has still to report when Handle returned waits for ever.    *)
CallHalted ==
  /\ panicked \/ handle = "returned"
  /\ UNCHANGED callVars

HandleStep ==
  \/ \E f \in Flows : Report(f) \/ Close(f) \/ SeeClosed(f)
  \/ HandleReturns

CallNext ==
  \/ /\ ~panicked
     /\ \/ RecvMessage \/ \E error \in BOOLEAN : RecvEnds(error)
        \/ ReceiveStep \/ SendStep \/ HandleStep
  \/ CallHalted

CallSpec == CallInit /\ [][CallNext]_callVars

(* Goroutines are scheduled and the lambda function answers; the client    *)
(* need not send anything.                                                 *)
FairCallSpec ==
  /\ CallSpec
  /\ WF_callVars(~panicked /\ ReceiveStep)
  /\ WF_callVars(~panicked /\ SendStep)
  /\ WF_callVars(~panicked /\ HandleStep)

-----------------------------------------------------------------------------
(* The types of the variables.                                             *)
CallTypeOK ==
  /\ handle \in {"flow", "returned"}
  /\ watched \subseteq Flows
  /\ events \in 0 .. 4
  /\ callResult \in {"none", "ok", "error"}
  /\ pc \in [Flows -> Points]
  /\ failed \in [Flows -> BOOLEAN]
  /\ lambdaResponse \in Statuses \cup {"none", "empty"}
  /\ responseBody \in {"none", "torn", "whole"}
  /\ outgoingMetadata \in BOOLEAN
  /\ reply \in [status : Statuses \cup {"none"}, metadata : BOOLEAN,
                body : {"none", "torn", "whole"}]
  /\ first \in BOOLEAN /\ header \in BOOLEAN
  /\ sent \in 0 .. MaxSent
  /\ panicked \in BOOLEAN

(* grpc.go:47-75.  The call succeeds only if the lambda function answered  *)
(* 200 and all of that was stored, and only when the one message of the    *)
(* answer has been sent, with the header for what metadata was read, and   *)
(* no goroutine of the call is left.                                       *)
SuccessIsReal ==
  callResult = "ok" =>
    /\ \A f \in Flows : At(f, "closed") /\ ~failed[f]
    /\ lambdaResponse = "ok" /\ responseBody = "whole" /\ outgoingMetadata
    /\ sent = 1 /\ (reply.metadata => header)

(* The answer is stored, and the other goroutine has not looked for it yet.*)
AnsweredInTime == handle = "flow" /\ outgoingMetadata /\ reply = NoReply

(* grpc.go:33-93, grpc_backend.go:148.  If the whole answer is stored when *)
(* Response looks for it first, and it is no 410, Handle returns, and no   *)
(* panic comes before that, in whatever order the two flows come to their  *)
(* results.  In general Handle returns or the process dies of a panic: of a*)
(* client that sends nothing and leaves its stream open it always dies, as *)
(* Response dereferences an answer that is not there.  After a 410 the send*)
(* loop need not end, and nothing is said.                                 *)
(* And a goroutine that can report its result does so and ends, in a       *)
(* process that lives, if Handle has not returned an error, after which it *)
(* listens no more.                                                        *)
CallEnds ==
  /\ AnsweredInTime ~> handle = "returned" \/ lambdaResponse = "gone"
  /\ handle = "flow" ~> handle = "returned" \/ panicked \/ lambdaResponse = "gone"
  /\ \A f \in Flows :
       At(f, "report") ~> At(f, "closed") \/ callResult = "error" \/ panicked
=============================================================================
