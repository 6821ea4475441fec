----------------------------- MODULE HttpStream -----------------------------
(***************************************************************************)
(* One stream of the managed HTTP transport (http.go).  libgit2 calls      *)
(* Action, then Write, Read and Free of the stream, from one thread.  A    *)
(* POST is sent by a goroutine in the background: what is written goes     *)
(* through an io.Pipe to net/http, which reads it as the body of the       *)
(* request, while Read closes the pipe and waits for the reply.  A GET is  *)
(* sent by the first Read itself.  A reply of 401 makes the sender ask for *)
(* credentials and try again.                                              *)
(*                                                                         *)
(* net/http and the server are the environment.  net/http closes the body  *)
(* of every request it is given, but it may do so after Do has returned.   *)
(***************************************************************************)
EXTENDS Integers, SequencesExt

CONSTANTS MaxChunks,    \* bound on the calls of Write
          MaxAttempts   \* bound on the requests sent for the stream

ASSUME BoundAssumption == MaxChunks \in Nat /\ MaxAttempts \in Nat \ {0}

Chunks == 1..MaxChunks
Attempts == 1..MaxAttempts

\* SmartServiceAction
Services == {"UploadpackLs", "Uploadpack", "ReceivepackLs", "Receivepack"}

VARIABLES
  action,       \* the action of the stream, "none" before it exists
  main,         \* where libgit2's thread is in the stream's code
  sender,       \* where sendRequest is, whoever runs it
  failed,       \* whether sendRequest is to return an error
  replies,      \* the counter of the WaitGroup recvReply
  sentRequest, httpError,
  resp,         \* the attempt whose response the stream has, 0 for nil
  unclosed,     \* the attempts whose response has a Body that is not closed
  waited,       \* some Read has returned from Wait
  attempts,     \* how many requests have been sent
  pending,      \* the chunk that a Write holds out to the pipe, 0 if none
  writerClosed, readerClosed,   \* the two ends of the pipe
  written,      \* how many calls of Write there were
  accepted,     \* the chunks whose Write returned without an error
  reading,      \* the attempts whose body net/http has not closed yet
  body,         \* what was read as the body of each attempt
  eof           \* the attempts whose body was read to its end

streamVars == <<action, sentRequest, httpError, resp, unclosed, waited>>
pipeVars == <<pending, writerClosed, readerClosed, written, accepted>>
netVars == <<reading, body, eof>>
senderVars == <<sender, failed, replies, attempts>>
vars == <<streamVars, pipeVars, netVars, senderVars, main>>

TypeOK ==
  /\ action \in Services \cup {"none"}
  /\ main \in {"none", "idle", "writing", "sending", "waiting", "woken",
               "freed", "crashed"}
  /\ sender \in {"off", "start", "do", "cred", "exit", "assign", "done"}
  /\ failed \in BOOLEAN /\ sentRequest \in BOOLEAN /\ httpError \in BOOLEAN
  /\ unclosed \subseteq Attempts /\ waited \in BOOLEAN
  /\ writerClosed \in BOOLEAN /\ readerClosed \in BOOLEAN
  /\ replies \in Nat
  /\ resp \in 0..MaxAttempts /\ attempts \in 0..MaxAttempts
  /\ pending \in 0..MaxChunks /\ written \in 0..MaxChunks
  /\ accepted \in Seq(Chunks)
  /\ reading \subseteq Attempts /\ eof \subseteq Attempts
  /\ body \in [Attempts -> Seq(Chunks)]

Init ==
  /\ action = "none" /\ main = "none" /\ sender = "off"
  /\ failed = FALSE /\ sentRequest = FALSE /\ httpError = FALSE
  /\ unclosed = {} /\ waited = FALSE /\ writerClosed = FALSE /\ readerClosed = FALSE
  /\ replies = 0 /\ resp = 0 /\ attempts = 0
  /\ pending = 0 /\ written = 0 /\ accepted = <<>>
  /\ reading = {} /\ eof = {}
  /\ body = [k \in Attempts |-> <<>>]

-----------------------------------------------------------------------------
(***************************************************************************)
(* Action                                                                  *)
(***************************************************************************)

\* The request that an action makes.
Request(a) ==
  CASE a = "UploadpackLs"   -> [method |-> "GET",  service |-> "git-upload-pack"]
    [] a = "Uploadpack"     -> [method |-> "POST", service |-> "git-upload-pack"]
    [] a = "ReceivepackLs"  -> [method |-> "GET",  service |-> "git-receive-pack"]
    [] a = "Receivepack"    -> [method |-> "POST", service |-> "git-upload-pack"]
    [] OTHER                -> [method |-> "none", service |-> "none"]

IsPost == Request(action).method = "POST"

\* Mutant: recvReply.Add is left to the goroutine it waits for.
ActionWithoutAdd(a) ==
  /\ main = "none"
  /\ action' = a /\ main' = "idle"
  /\ IF Request(a).method = "POST"
       THEN sender' = "start" /\ sentRequest' = TRUE
       ELSE UNCHANGED <<sender, sentRequest>>
  /\ UNCHANGED <<failed, attempts, replies, httpError, resp, unclosed, waited>>
  /\ UNCHANGED <<pipeVars, netVars>>

\* The stream is made, and a POST is sent in the background.
Action(a) ==
  /\ main = "none"
  /\ action' = a /\ main' = "idle"
  /\ IF Request(a).method = "POST"
       THEN replies' = replies + 1 /\ sender' = "start" /\ sentRequest' = TRUE
       ELSE UNCHANGED <<replies, sender, sentRequest>>
  /\ UNCHANGED <<failed, attempts, httpError, resp, unclosed, waited>>
  /\ UNCHANGED <<pipeVars, netVars>>

-----------------------------------------------------------------------------
(***************************************************************************)
(* sendRequest, by the goroutine of a POST or by the Read of a GET         *)
(***************************************************************************)

\* http.DefaultClient.Do(req), with the reading end of the pipe as the body
\* of a POST.
Do ==
  /\ attempts < MaxAttempts
  /\ attempts' = attempts + 1
  /\ reading' = IF IsPost THEN reading \cup {attempts + 1} ELSE reading
  /\ sender' = "do"

SendRequest ==
  /\ sender = "start"
  /\ Do
  /\ resp' = 0
  /\ UNCHANGED <<main, action, sentRequest, httpError, unclosed, waited, failed,
                 replies, body, eof, pipeVars>>

\* Status 200.  A git server answers once it has the whole request.
ReplyOK ==
  /\ sender = "do" /\ (IsPost => attempts \in eof)
  /\ sentRequest' = TRUE /\ resp' = attempts /\ unclosed' = unclosed \cup {attempts}
  /\ sender' = "exit" /\ failed' = FALSE
  /\ UNCHANGED <<main, action, httpError, waited, replies, attempts,
                 pipeVars, netVars>>

\* Status 401, at any time.
ReplyUnauthorized ==
  /\ sender = "do" /\ attempts < MaxAttempts
  /\ sender' = "cred"
  /\ UNCHANGED <<main, failed, replies, attempts, streamVars, pipeVars, netVars>>

\* Another status, or no connection, or the body could not be read.
ReplyError ==
  /\ sender = "do"
  /\ sender' = "exit" /\ failed' = TRUE
  /\ UNCHANGED <<main, replies, attempts, streamVars, pipeVars, netVars>>

\* SmartCredentials or GetUserpassPlaintext fails.
NoCredentials ==
  /\ sender = "cred"
  /\ sender' = "exit" /\ failed' = TRUE
  /\ UNCHANGED <<main, replies, attempts, streamVars, pipeVars, netVars>>

\* There are credentials: continue.
Retry ==
  /\ sender = "cred"
  /\ Do
  /\ UNCHANGED <<main, failed, replies, streamVars, body, eof, pipeVars>>

\* The deferred recvReply.Done(), and sendRequest returns: to the goroutine,
\* which still has to store the error, or to Read, which returns the error or
\* closes the pipe.
Exit ==
  /\ sender = "exit"
  /\ replies' = replies - 1
  /\ IF main = "sending"
       THEN /\ sender' = "off"
            /\ main' = IF failed THEN "idle" ELSE "waiting"
            /\ writerClosed' = (writerClosed \/ ~failed)
       ELSE /\ sender' = "assign"
            /\ UNCHANGED <<main, writerClosed>>
  /\ UNCHANGED <<failed, attempts, streamVars, netVars>>
  /\ UNCHANGED <<pending, readerClosed, written, accepted>>

\* self.httpError = self.sendRequest()
Assign ==
  /\ sender = "assign"
  /\ httpError' = failed /\ sender' = "done"
  /\ UNCHANGED <<main, action, sentRequest, resp, unclosed, waited, failed, replies,
                 attempts, pipeVars, netVars>>

-----------------------------------------------------------------------------
(***************************************************************************)
(* Read, Write and Free.  Nothing orders what the goroutine stores before  *)
(* the load of libgit2's thread, except that Wait comes after Done: the    *)
(* error, which is stored after Done, may be missed even once it is there. *)
(***************************************************************************)

\* Write looks at httpError and offers the chunk to the pipe.
Write(seen) ==
  /\ main = "idle" /\ IsPost /\ written < MaxChunks
  /\ written' = written + 1
  /\ IF seen THEN UNCHANGED <<main, pending>>
             ELSE main' = "writing" /\ pending' = written + 1
  /\ UNCHANGED <<writerClosed, readerClosed, accepted, streamVars, netVars, senderVars>>

\* Mutant: Write drops the error of the pipe.
WriteHidesError ==
  /\ main = "writing" /\ (readerClosed \/ writerClosed)
  /\ main' = "idle" /\ pending' = 0 /\ accepted' = Append(accepted, pending)
  /\ UNCHANGED <<writerClosed, readerClosed, written>>
  /\ UNCHANGED <<streamVars, netVars, senderVars>>

\* The pipe is closed: Write returns io.ErrClosedPipe.
WriteFails ==
  /\ main = "writing" /\ (readerClosed \/ writerClosed)
  /\ main' = "idle" /\ pending' = 0
  /\ UNCHANGED <<writerClosed, readerClosed, written, accepted>>
  /\ UNCHANGED <<streamVars, netVars, senderVars>>

\* Mutant: the writing end stays open.
ReadLeavesPipeOpen ==
  /\ main = "idle" /\ (sentRequest \/ attempts < MaxAttempts)
  /\ IF sentRequest
       THEN main' = "waiting" /\ UNCHANGED <<writerClosed, replies, sender>>
       ELSE /\ replies' = replies + 1 /\ sender' = "start" /\ main' = "sending"
            /\ UNCHANGED writerClosed
  /\ UNCHANGED <<failed, attempts, pending, readerClosed, written, accepted>>
  /\ UNCHANGED <<streamVars, netVars>>

\* Mutant: Read sends the request whether or not that was done.
ReadSendsAgain ==
  /\ main = "idle" /\ attempts < MaxAttempts
  /\ replies' = replies + 1 /\ sender' = "start" /\ main' = "sending"
  /\ UNCHANGED <<failed, attempts, pipeVars, streamVars, netVars>>

\* Read sends the request if that was not done, or closes the pipe and waits.
Read ==
  /\ main = "idle" /\ (sentRequest \/ attempts < MaxAttempts)
  /\ IF sentRequest
       THEN /\ writerClosed' = TRUE /\ main' = "waiting"
            /\ UNCHANGED <<replies, sender>>
       ELSE /\ replies' = replies + 1 /\ sender' = "start" /\ main' = "sending"
            /\ UNCHANGED writerClosed
  /\ UNCHANGED <<failed, attempts, pending, readerClosed, written, accepted>>
  /\ UNCHANGED <<streamVars, netVars>>

\* Mutant: Read does not wait for the goroutine.
WakeWithoutWait ==
  /\ main = "waiting"
  /\ main' = "woken" /\ waited' = TRUE
  /\ UNCHANGED <<action, sentRequest, httpError, resp, unclosed>>
  /\ UNCHANGED <<pipeVars, netVars, senderVars>>

\* recvReply.Wait() returns.
Wake ==
  /\ main = "waiting" /\ replies = 0
  /\ main' = "woken" /\ waited' = TRUE
  /\ UNCHANGED <<action, sentRequest, httpError, resp, unclosed>>
  /\ UNCHANGED <<pipeVars, netVars, senderVars>>

\* Read returns the error it sees, or reads from the response, which is a
\* nil pointer if there is none.
ReadReturns(seen) ==
  /\ main = "woken"
  /\ main' = IF ~seen /\ resp = 0 THEN "crashed" ELSE "idle"
  /\ UNCHANGED <<streamVars, pipeVars, netVars, senderVars>>

\* Free closes the response it sees, which is the one there is if some Read
\* has waited for it.
Free(seen) ==
  /\ main = "idle" /\ (waited => seen = resp)
  /\ main' = "freed" /\ unclosed' = unclosed \ {seen}
  /\ UNCHANGED <<action, sentRequest, httpError, resp, waited>>
  /\ UNCHANGED <<pipeVars, netVars, senderVars>>

-----------------------------------------------------------------------------
(***************************************************************************)
(* The pipe's other end                                                    *)
(***************************************************************************)

\* net/http takes the chunk that is on offer, and Write returns.
ReadBody(k) ==
  /\ k \in reading /\ pending # 0 /\ ~readerClosed
  /\ body' = [body EXCEPT ![k] = Append(@, pending)]
  /\ accepted' = Append(accepted, pending)
  /\ pending' = 0 /\ main' = "idle"
  /\ UNCHANGED <<writerClosed, readerClosed, written, reading, eof>>
  /\ UNCHANGED <<streamVars, senderVars>>

ReadEof(k) ==
  /\ k \in reading /\ writerClosed /\ pending = 0 /\ ~readerClosed
  /\ k \notin eof
  /\ eof' = eof \cup {k}
  /\ UNCHANGED <<main, reading, body, streamVars, pipeVars, senderVars>>

\* net/http closes the body of a request that is over, or read to its end.
CloseBody(k) ==
  /\ k \in reading
  /\ k \in eof \/ ~(k = attempts /\ sender = "do")
  /\ reading' = reading \ {k} /\ readerClosed' = TRUE
  /\ UNCHANGED <<main, body, eof, pending, writerClosed, written, accepted>>
  /\ UNCHANGED <<streamVars, senderVars>>

Reply == ReplyOK \/ ReplyUnauthorized \/ ReplyError
Sender == SendRequest \/ Reply \/ NoCredentials \/ Retry \/ Exit \/ Assign
Stream ==
  \/ \E a \in Services : Action(a)
  \/ \E seen \in {httpError, FALSE} : Write(seen) \/ ReadReturns(seen)
  \/ WriteFails \/ Read \/ Wake
  \/ \E seen \in {resp, 0} : Free(seen)
NetHttp == \E k \in Attempts : ReadBody(k) \/ ReadEof(k) \/ CloseBody(k)
Next == Sender \/ Stream \/ NetHttp

Spec == Init /\ [][Next]_vars

\* Whatever has begun in the stream's code goes on.  The server owes an
\* answer once it has the whole request or cannot get it; it need not answer
\* before.  net/http reads a body, and closes it when it is done with it.
AnswerIsDue == ~IsPost \/ attempts \in eof \/ readerClosed
Fairness ==
  /\ WF_vars(SendRequest \/ NoCredentials \/ Retry \/ Exit \/ Assign)
  /\ WF_vars(AnswerIsDue /\ Reply)
  /\ WF_vars(WriteFails \/ Wake \/ \E seen \in {httpError, FALSE} : ReadReturns(seen))
  /\ WF_vars(NetHttp)

FairSpec == Spec /\ Fairness

-----------------------------------------------------------------------------
(***************************************************************************)
(* Properties                                                              *)
(***************************************************************************)

\* The WaitGroup counts the requests that have no outcome yet: it is never
\* negative, which would panic, and no Wait is passed before sendRequest has
\* its result, whichever of Action and Read did the Add.
WaitsForTheRequest ==
  /\ replies = IF sender \in {"start", "do", "cred", "exit"} THEN 1 ELSE 0
  /\ main = "woken" => resp # 0 \/ failed

\* Every chunk whose Write succeeded goes out as part of one request, and
\* nothing else does: a request that needs no retry carries them all, in
\* order, and one that is sent again carries only what the ones before it
\* left in the pipe.
WrittenIsSentOnce ==
  /\ \A c \in Chunks : Cardinality({k \in Attempts : Contains(body[k], c)})
                         = IF Contains(accepted, c) THEN 1 ELSE 0
  /\ resp = 1 /\ IsPost => body[1] = accepted

\* No response is forgotten: the one that the stream has is the only one whose
\* Body is not closed, and only a Free that came while the request was under
\* way, before any Read had waited for it, leaves that one behind.
NoResponseIsLeft ==
  /\ unclosed \subseteq {resp}
  /\ main = "freed" /\ waited => unclosed = {}

\* Write and Read return (or panic), whatever the server answers.
CallsReturn == main \in {"writing", "sending", "waiting", "woken"}
                 ~> main \in {"idle", "crashed"}

\* http.go:235: "Any other error we treat as a hard error and punt back to the
\* caller".  So the caller, which is Read, returns it and does not crash.
HardErrorReachesTheCaller == main # "crashed"

=============================================================================
