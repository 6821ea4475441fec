-------------------------- MODULE HttpStreamProofs --------------------------
(***************************************************************************)
(* That a stream of http.go waits for its request, sends what is written   *)
(* once and forgets no response, for any number of writes and attempts.    *)
(*                                                                         *)
(* The invariant says which places of libgit2's thread and of the sender   *)
(* go together (Phases), what the fields are worth at each (Outcome), and  *)
(* which chunks have gone out (Sent).                                      *)
(***************************************************************************)
EXTENDS HttpStream, FiniteSetTheorems, TLAPS

\* sendRequest has no result yet.
Sending == sender \in {"start", "do", "cred", "exit"}

\* A POST is sent once, in the background, from Action on; a GET by a Read that
\* finds that it was not sent.  Whoever waits has something to wait for.
Phases ==
  /\ main = "none" => action = "none" /\ sender = "off" /\ ~sentRequest
  /\ IsPost => sentRequest /\ sender # "off" /\ main # "sending"
  /\ ~IsPost => (main = "sending" <=> Sending) /\ sender \notin {"assign", "done"}
  /\ main \in {"waiting", "woken"} \/ waited => sentRequest
  /\ main = "woken" \/ waited => ~Sending
  /\ pending # 0 <=> main = "writing"
  /\ main = "writing" => IsPost

\* sendRequest ends with a response or an error, and there is no response
\* before its end.
Outcome ==
  /\ replies = IF Sending THEN 1 ELSE 0
  /\ sentRequest => Sending \/ resp # 0 \/ failed
  /\ sender = "exit" => failed \/ (resp # 0 /\ sentRequest)
  /\ resp # 0 => sentRequest /\ resp = attempts
  /\ sender \in {"start", "do", "cred"} => resp = 0
  /\ sender \in {"do", "cred"} => attempts # 0

\* A chunk is in the body of one attempt if its Write succeeded, and in none if
\* it did not or has yet to; the first attempt has them all while it is the last.
Sent ==
  /\ pending \in {0, written}
  /\ reading \subseteq 1..attempts
  /\ attempts <= 1 => body[1] = accepted
  /\ \A c \in Chunks :
       /\ c > written \/ c = pending => ~Contains(accepted, c)
       /\ ~Contains(accepted, c) => \A k \in Attempts : ~Contains(body[k], c)
       /\ Contains(accepted, c) =>
            \E k \in Attempts : \A j \in Attempts : Contains(body[j], c) <=> j = k

IInv == TypeOK /\ Phases /\ Outcome /\ NoResponseIsLeft /\ Sent
-----------------------------------------------------------------------------
\* A request is a POST, or no, by the action alone.
LEMMA PostFacts == /\ action = "none" => ~IsPost
                   /\ action' = action => (IsPost' <=> IsPost)
BY DEF IsPost, Request

\* What an appended chunk adds to a sequence.
LEMMA AppendFacts ==
  ASSUME NEW s \in Seq(Chunks), NEW e \in Chunks
  PROVE  /\ Append(s, e) \in Seq(Chunks)
         /\ \A c \in Chunks : Contains(Append(s, e), c) <=> Contains(s, c) \/ c = e
<1>1. Append(s, e) \in Seq(Chunks)
  OBVIOUS
<1>2. /\ Len(Append(s, e)) = Len(s) + 1 /\ Len(s) \in Nat
      /\ \A i \in 1..Len(s) : Append(s, e)[i] = s[i]
      /\ Append(s, e)[Len(s) + 1] = e
  OBVIOUS
<1>3. \A c \in Chunks : Contains(Append(s, e), c) <=> Contains(s, c) \/ c = e
  BY DEF Contains
<1> QED BY <1>3

\* A POST is sent in the background, a GET not yet.
LEMMA ActionIInv ==
  ASSUME IInv, NEW a \in Services, Action(a)
  PROVE  IInv'
<1>0. /\ ~IsPost /\ sender = "off" /\ replies = 0 /\ ~Sending
      /\ pending = 0 /\ ~waited /\ main' = "idle"
      /\ ~sentRequest
      /\ IsPost' <=> Request(a).method = "POST"
  <2>1. action = "none" /\ sender = "off" /\ main' = "idle" /\ main = "none"
        /\ ~sentRequest
    BY DEF IInv, Phases, Action
  <2>2. ~IsPost
    BY <2>1, PostFacts
  <2>3. ~Sending
    BY <2>1 DEF Sending
  <2>4. replies = 0
    BY <2>3 DEF IInv, Outcome
  <2>5. pending = 0 /\ ~waited
    BY <2>1 DEF IInv, Phases
  <2>6. IsPost' <=> Request(a).method = "POST"
    BY DEF IsPost, Action
  <2> QED BY <2>1, <2>2, <2>3, <2>4, <2>5, <2>6
<1>1. TypeOK'
  <2>1. replies' \in Nat /\ sender' \in {"off", "start"} /\ sentRequest' \in BOOLEAN
    <3>1. CASE Request(a).method = "POST"
      BY <1>0, <3>1 DEF Action
    <3>2. CASE Request(a).method # "POST"
      BY <1>0, <3>2 DEF Action, IInv, TypeOK
    <3> QED BY <3>1, <3>2
  <2> QED BY <2>1 DEF IInv, TypeOK, Action, pipeVars, netVars
<1>2. Phases'
  <2>1. CASE Request(a).method = "POST"
    BY <1>0, <2>1 DEF Phases, Action, pipeVars
  <2>2. CASE Request(a).method # "POST"
    BY <1>0 DEF Phases, Action, Sending, pipeVars
  <2> QED BY <2>1, <2>2
<1>3. Outcome'
  <2>1. CASE Request(a).method = "POST"
    BY <1>0 DEF IInv, Outcome, Action, Sending
  <2>2. CASE Request(a).method # "POST"
    BY <1>0 DEF IInv, Outcome, Action, Sending
  <2> QED BY <2>1, <2>2
<1>4. NoResponseIsLeft'
  BY DEF IInv, NoResponseIsLeft, Action
<1>5. Sent'
  BY DEF IInv, Sent, Action, pipeVars, netVars
<1> QED BY <1>1, <1>2, <1>3, <1>4, <1>5 DEF IInv

\* The first request leaves with no response.
LEMMA SendRequestIInv ==
  ASSUME IInv, SendRequest
  PROVE  IInv'
<1>1. TypeOK'
  BY BoundAssumption DEF IInv, TypeOK, SendRequest, Do, pipeVars, Attempts
<1>2. Phases'
  BY PostFacts DEF IInv, Phases, Sending, SendRequest, Do, pipeVars
<1>3. Outcome'
  BY DEF IInv, TypeOK, Outcome, Sending, SendRequest, Do
<1>4. NoResponseIsLeft'
  BY BoundAssumption, PostFacts DEF IInv, TypeOK, Phases, Outcome, Sending,
     NoResponseIsLeft, SendRequest, Do, pipeVars, Attempts, Chunks
<1>5. Sent'
  BY DEF IInv, TypeOK, Sent, SendRequest, Do, pipeVars
<1> QED BY <1>1, <1>2, <1>3, <1>4, <1>5 DEF IInv

\* The response is the only one.
LEMMA ReplyOKIInv ==
  ASSUME IInv, ReplyOK
  PROVE  IInv'
<1>1. TypeOK'
  <2>1. attempts \in Attempts
    BY DEF IInv, TypeOK, Outcome, ReplyOK, Attempts
  <2> QED BY <2>1 DEF IInv, TypeOK, ReplyOK, pipeVars, netVars
<1>2. Phases'
  BY PostFacts DEF IInv, Phases, Sending, ReplyOK, pipeVars
<1>3. Outcome'
  BY DEF IInv, Outcome, Sending, ReplyOK
<1>4. NoResponseIsLeft'
  BY BoundAssumption, PostFacts DEF IInv, TypeOK, Phases, Outcome, Sending,
     NoResponseIsLeft, ReplyOK, pipeVars, netVars, Attempts, Chunks
<1>5. Sent'
  BY DEF IInv, Sent, ReplyOK, pipeVars, netVars
<1> QED BY <1>1, <1>2, <1>3, <1>4, <1>5 DEF IInv

\* Credentials are asked for.
LEMMA ReplyUnauthorizedIInv ==
  ASSUME IInv, ReplyUnauthorized
  PROVE  IInv'
<1>1. TypeOK'
  BY DEF IInv, TypeOK, ReplyUnauthorized, streamVars, pipeVars, netVars
<1>2. Phases'
  BY PostFacts DEF IInv, Phases, Sending, ReplyUnauthorized, streamVars,
     pipeVars
<1>3. Outcome'
  BY DEF IInv, Outcome, Sending, ReplyUnauthorized, streamVars
<1>4. NoResponseIsLeft'
  BY BoundAssumption, PostFacts DEF IInv, TypeOK, Phases, Outcome, Sending,
     NoResponseIsLeft, ReplyUnauthorized, streamVars, pipeVars, netVars,
     Attempts, Chunks
<1>5. Sent'
  BY DEF IInv, Sent, ReplyUnauthorized, pipeVars, netVars
<1> QED BY <1>1, <1>2, <1>3, <1>4, <1>5 DEF IInv

\* The request failed.
LEMMA ReplyErrorIInv ==
  ASSUME IInv, ReplyError
  PROVE  IInv'
<1>1. TypeOK'
  BY DEF IInv, TypeOK, ReplyError, streamVars, pipeVars, netVars
<1>2. Phases'
  BY PostFacts DEF IInv, Phases, Sending, ReplyError, streamVars, pipeVars
<1>3. Outcome'
  BY DEF IInv, Outcome, Sending, ReplyError, streamVars
<1>4. NoResponseIsLeft'
  BY BoundAssumption, PostFacts DEF IInv, TypeOK, Phases, Outcome, Sending,
     NoResponseIsLeft, ReplyError, streamVars, pipeVars, netVars, Attempts,
     Chunks
<1>5. Sent'
  BY DEF IInv, Sent, ReplyError, pipeVars, netVars
<1> QED BY <1>1, <1>2, <1>3, <1>4, <1>5 DEF IInv

\* There are no credentials, and the request failed.
LEMMA NoCredentialsIInv ==
  ASSUME IInv, NoCredentials
  PROVE  IInv'
<1>1. TypeOK'
  BY DEF IInv, TypeOK, NoCredentials, streamVars, pipeVars, netVars
<1>2. Phases'
  BY PostFacts DEF IInv, Phases, Sending, NoCredentials, streamVars, pipeVars
<1>3. Outcome'
  BY DEF IInv, Outcome, Sending, NoCredentials, streamVars
<1>4. NoResponseIsLeft'
  BY BoundAssumption, PostFacts DEF IInv, TypeOK, Phases, Outcome, Sending,
     NoResponseIsLeft, NoCredentials, streamVars, pipeVars, netVars, Attempts,
     Chunks
<1>5. Sent'
  BY DEF IInv, Sent, NoCredentials, pipeVars, netVars
<1> QED BY <1>1, <1>2, <1>3, <1>4, <1>5 DEF IInv

\* The request is sent again.
LEMMA RetryIInv ==
  ASSUME IInv, Retry
  PROVE  IInv'
<1>1. TypeOK'
  BY BoundAssumption DEF IInv, TypeOK, Retry, Do, streamVars, pipeVars, Attempts
<1>2. Phases'
  BY PostFacts DEF IInv, Phases, Sending, Retry, Do, streamVars, pipeVars
<1>3. Outcome'
  BY DEF IInv, TypeOK, Outcome, Sending, Retry, Do, streamVars
<1>4. NoResponseIsLeft'
  BY BoundAssumption, PostFacts DEF IInv, TypeOK, Phases, Outcome, Sending,
     NoResponseIsLeft, Retry, Do, streamVars, pipeVars, Attempts, Chunks
<1>5. Sent'
  BY DEF IInv, TypeOK, Sent, Retry, Do, pipeVars
<1> QED BY <1>1, <1>2, <1>3, <1>4, <1>5 DEF IInv

\* sendRequest returns, to the goroutine or to Read.
LEMMA ExitIInv ==
  ASSUME IInv, Exit
  PROVE  IInv'
<1>1. TypeOK'
  <2>1. replies' \in Nat
    BY DEF IInv, Outcome, Exit, Sending
  <2> QED BY <2>1 DEF IInv, TypeOK, Exit, streamVars, netVars
<1>2. Phases'
  <2>1. failed \/ sentRequest
    BY DEF IInv, Outcome, Exit
  <2>2. CASE main = "sending"
    BY <2>1, PostFacts DEF IInv, Phases, Exit, Sending, streamVars
  <2>3. CASE main # "sending"
    BY <2>3, PostFacts DEF IInv, Phases, Exit, Sending, streamVars
  <2> QED BY <2>2, <2>3
<1>3. Outcome'
  BY DEF IInv, Outcome, Sending, Exit, streamVars
<1>4. NoResponseIsLeft'
  BY BoundAssumption, PostFacts DEF IInv, TypeOK, Phases, Outcome, Sending,
     NoResponseIsLeft, Exit, streamVars, netVars, Attempts, Chunks
<1>5. Sent'
  BY DEF IInv, Sent, Exit, netVars
<1> QED BY <1>1, <1>2, <1>3, <1>4, <1>5 DEF IInv

\* The goroutine stores the error.
LEMMA AssignIInv ==
  ASSUME IInv, Assign
  PROVE  IInv'
<1>1. TypeOK'
  BY DEF IInv, TypeOK, Assign, pipeVars, netVars
<1>2. Phases'
  BY PostFacts DEF IInv, Phases, Sending, Assign, pipeVars
<1>3. Outcome'
  BY DEF IInv, Outcome, Sending, Assign
<1>4. NoResponseIsLeft'
  BY BoundAssumption, PostFacts DEF IInv, TypeOK, Phases, Outcome, Sending,
     NoResponseIsLeft, Assign, pipeVars, netVars, Attempts, Chunks
<1>5. Sent'
  BY DEF IInv, Sent, Assign, pipeVars, netVars
<1> QED BY <1>1, <1>2, <1>3, <1>4, <1>5 DEF IInv

\* A chunk that no body has is on offer.
LEMMA WriteIInv ==
  ASSUME IInv, NEW seen \in BOOLEAN, Write(seen)
  PROVE  IInv'
<1>1. TypeOK'
  BY BoundAssumption DEF IInv, TypeOK, Write, streamVars, netVars, senderVars
<1>2. Phases'
  BY PostFacts DEF IInv, TypeOK, Phases, Sending, Write, streamVars, senderVars
<1>3. Outcome'
  BY DEF IInv, Outcome, Sending, Write, streamVars, senderVars
<1>4. NoResponseIsLeft'
  BY BoundAssumption, PostFacts DEF IInv, TypeOK, Phases, Outcome, Sending,
     NoResponseIsLeft, Write, streamVars, netVars, senderVars, Attempts, Chunks
<1>5. Sent'
  <2>1. pending = 0 /\ written \in Nat /\ written' = written + 1 /\ pending' \in {0, written'}
    BY DEF IInv, TypeOK, Phases, Write
  <2>2. \A c \in Chunks : c > written' \/ c = pending' => c > written
    BY <2>1 DEF Chunks
  <2>3. UNCHANGED <<reading, attempts, body, accepted>>
    BY DEF Write, netVars, senderVars
  <2> QED BY <2>1, <2>2, <2>3 DEF IInv, Sent
<1> QED BY <1>1, <1>2, <1>3, <1>4, <1>5 DEF IInv

\* The chunk is not accepted, and will never be sent.
LEMMA WriteFailsIInv ==
  ASSUME IInv, WriteFails
  PROVE  IInv'
<1>1. TypeOK'
  BY BoundAssumption DEF IInv, TypeOK, WriteFails, streamVars, netVars,
     senderVars
<1>2. Phases'
  BY PostFacts DEF IInv, Phases, Sending, WriteFails, streamVars, senderVars
<1>3. Outcome'
  BY DEF IInv, Outcome, Sending, WriteFails, streamVars, senderVars
<1>4. NoResponseIsLeft'
  BY BoundAssumption, PostFacts DEF IInv, TypeOK, Phases, Outcome, Sending,
     NoResponseIsLeft, WriteFails, streamVars, netVars, senderVars, Attempts,
     Chunks
<1>5. Sent'
  <2>1. pending' = 0 /\ \A c \in Chunks : c # 0
    BY DEF WriteFails, Chunks
  <2>2. UNCHANGED <<reading, attempts, body, accepted, written>>
    BY DEF WriteFails, netVars, senderVars
  <2> QED BY <2>1, <2>2 DEF IInv, Sent
<1> QED BY <1>1, <1>2, <1>3, <1>4, <1>5 DEF IInv

\* Read waits for a POST, and sends a GET that was not sent.
LEMMA ReadIInv ==
  ASSUME IInv, Read
  PROVE  IInv'
<1>1. TypeOK'
  <2>1. replies' \in Nat
    BY DEF IInv, TypeOK, Read
  <2> QED BY <2>1 DEF IInv, TypeOK, Read, streamVars, netVars
<1>2. Phases'
  BY PostFacts DEF IInv, Phases, Sending, Read, streamVars
<1>3. Outcome'
  BY DEF IInv, Phases, Outcome, Sending, Read, streamVars
<1>4. NoResponseIsLeft'
  BY BoundAssumption, PostFacts DEF IInv, TypeOK, Phases, Outcome, Sending,
     NoResponseIsLeft, Read, streamVars, netVars, Attempts, Chunks
<1>5. Sent'
  BY DEF IInv, Sent, Read, netVars
<1> QED BY <1>1, <1>2, <1>3, <1>4, <1>5 DEF IInv

\* Wait returns when there is a result.
LEMMA WakeIInv ==
  ASSUME IInv, Wake
  PROVE  IInv'
<1>1. TypeOK'
  BY DEF IInv, TypeOK, Wake, pipeVars, netVars, senderVars
<1>2. Phases'
  <2>1. ~Sending
    BY DEF IInv, Outcome, Wake
  <2> QED BY <2>1, PostFacts DEF IInv, Phases, Wake, Sending, pipeVars,
             senderVars
<1>3. Outcome'
  BY DEF IInv, Outcome, Sending, Wake, senderVars
<1>4. NoResponseIsLeft'
  BY BoundAssumption, PostFacts DEF IInv, TypeOK, Phases, Outcome, Sending,
     NoResponseIsLeft, Wake, pipeVars, netVars, senderVars, Attempts, Chunks
<1>5. Sent'
  BY DEF IInv, Sent, Wake, pipeVars, netVars, senderVars
<1> QED BY <1>1, <1>2, <1>3, <1>4, <1>5 DEF IInv

\* Read reads from the response.
LEMMA ReadReturnsIInv ==
  ASSUME IInv, NEW seen \in BOOLEAN, ReadReturns(seen)
  PROVE  IInv'
<1>1. TypeOK'
  BY DEF IInv, TypeOK, ReadReturns, streamVars, pipeVars, netVars, senderVars
<1>2. Phases'
  BY PostFacts DEF IInv, Phases, Sending, ReadReturns, streamVars, pipeVars,
     senderVars
<1>3. Outcome'
  BY DEF IInv, Outcome, Sending, ReadReturns, streamVars, senderVars
<1>4. NoResponseIsLeft'
  BY BoundAssumption, PostFacts DEF IInv, TypeOK, Phases, Outcome, Sending,
     NoResponseIsLeft, ReadReturns, streamVars, pipeVars, netVars, senderVars,
     Attempts, Chunks
<1>5. Sent'
  BY DEF IInv, Sent, ReadReturns, pipeVars, netVars, senderVars
<1> QED BY <1>1, <1>2, <1>3, <1>4, <1>5 DEF IInv

\* Free closes the response it sees.
LEMMA FreeIInv ==
  ASSUME IInv, NEW seen \in 0..MaxAttempts, Free(seen)
  PROVE  IInv'
<1>1. TypeOK'
  BY DEF IInv, TypeOK, Free, pipeVars, netVars, senderVars
<1>2. Phases'
  BY PostFacts DEF IInv, Phases, Sending, Free, pipeVars, senderVars
<1>3. Outcome'
  BY DEF IInv, Outcome, Sending, Free, senderVars
<1>4. NoResponseIsLeft'
  BY BoundAssumption, PostFacts DEF IInv, TypeOK, Phases, Outcome, Sending,
     NoResponseIsLeft, Free, pipeVars, netVars, senderVars, Attempts, Chunks
<1>5. Sent'
  BY DEF IInv, Sent, Free, pipeVars, netVars, senderVars
<1> QED BY <1>1, <1>2, <1>3, <1>4, <1>5 DEF IInv

\* The chunk on offer goes into one body.
LEMMA ReadBodyIInv ==
  ASSUME IInv, NEW k \in Attempts, ReadBody(k)
  PROVE  IInv'
<1>1. TypeOK'
  BY BoundAssumption DEF IInv, TypeOK, ReadBody, streamVars, senderVars, Chunks
<1>2. Phases'
  BY PostFacts DEF IInv, Phases, Sending, ReadBody, streamVars, senderVars
<1>3. Outcome'
  BY DEF IInv, Outcome, Sending, ReadBody, streamVars, senderVars
<1>4. NoResponseIsLeft'
  BY BoundAssumption, PostFacts DEF IInv, TypeOK, Phases, Outcome, Sending,
     NoResponseIsLeft, ReadBody, streamVars, senderVars, Attempts, Chunks
<1>5. Sent'
  <2> DEFINE p == pending
  <2>1. p \in Chunks /\ k \in reading /\ k <= attempts /\ k \in 1..attempts
    BY DEF IInv, TypeOK, Sent, ReadBody, Chunks
  <2>2. ~Contains(accepted, p) /\ \A j \in Attempts : ~Contains(body[j], p)
    BY <2>1 DEF IInv, Sent
  <2>3. /\ accepted' = Append(accepted, p)
        /\ body'[k] = Append(body[k], p)
        /\ \A j \in Attempts \ {k} : body'[j] = body[j]
        /\ UNCHANGED <<reading, attempts, written>> /\ pending' = 0
    BY DEF IInv, TypeOK, ReadBody, senderVars
  <2>4. \A c \in Chunks : Contains(accepted', c) <=> Contains(accepted, c) \/ c = p
    BY <2>1, <2>3, AppendFacts DEF IInv, TypeOK
  <2>5. \A c \in Chunks, j \in Attempts :
          Contains(body'[j], c) <=> Contains(body[j], c) \/ (j = k /\ c = p)
    <3>1. body[k] \in Seq(Chunks)
      BY DEF IInv, TypeOK
    <3>2. \A c \in Chunks : Contains(body'[k], c) <=> Contains(body[k], c) \/ c = p
      BY <2>1, <2>3, <3>1, AppendFacts
    <3> QED BY <2>3, <3>2
  <2>6. attempts <= 1 => body'[1] = accepted'
    <3>1. attempts <= 1 => k = 1
      BY <2>1 DEF IInv, TypeOK
    <3> QED BY <2>3, <3>1 DEF IInv, Sent
  <2>7. p = written
    BY <2>1 DEF IInv, Sent, Chunks
  <2>8. ASSUME NEW c \in Chunks
        PROVE  /\ c > written' \/ c = pending' => ~Contains(accepted', c)
               /\ ~Contains(accepted', c) => \A j \in Attempts : ~Contains(body'[j], c)
               /\ Contains(accepted', c) =>
                    \E i \in Attempts : \A j \in Attempts : Contains(body'[j], c) <=> j = i
    <3>1. CASE c = p
      BY <2>2, <2>3, <2>4, <2>5, <2>7, <3>1 DEF Chunks
    <3>2. CASE c # p
      BY <2>3, <2>4, <2>5 DEF IInv, Sent, Chunks
    <3> QED BY <3>1, <3>2
  <2> QED BY <2>3, <2>6, <2>8 DEF IInv, Sent
<1> QED BY <1>1, <1>2, <1>3, <1>4, <1>5 DEF IInv

\* A body was read to its end.
LEMMA ReadEofIInv ==
  ASSUME IInv, NEW k \in Attempts, ReadEof(k)
  PROVE  IInv'
<1>1. TypeOK'
  BY DEF IInv, TypeOK, ReadEof, streamVars, pipeVars, senderVars
<1>2. Phases'
  BY PostFacts DEF IInv, Phases, Sending, ReadEof, streamVars, pipeVars,
     senderVars
<1>3. Outcome'
  BY DEF IInv, Outcome, Sending, ReadEof, streamVars, senderVars
<1>4. NoResponseIsLeft'
  BY BoundAssumption, PostFacts DEF IInv, TypeOK, Phases, Outcome, Sending,
     NoResponseIsLeft, ReadEof, streamVars, pipeVars, senderVars, Attempts,
     Chunks
<1>5. Sent'
  BY BoundAssumption, PostFacts DEF IInv, TypeOK, Phases, Outcome, Sending,
     Sent, ReadEof, streamVars, pipeVars, senderVars, Attempts, Chunks
<1> QED BY <1>1, <1>2, <1>3, <1>4, <1>5 DEF IInv

\* A body is closed.
LEMMA CloseBodyIInv ==
  ASSUME IInv, NEW k \in Attempts, CloseBody(k)
  PROVE  IInv'
<1>1. TypeOK'
  BY DEF IInv, TypeOK, CloseBody, streamVars, senderVars
<1>2. Phases'
  BY PostFacts DEF IInv, Phases, Sending, CloseBody, streamVars, senderVars
<1>3. Outcome'
  BY DEF IInv, Outcome, Sending, CloseBody, streamVars, senderVars
<1>4. NoResponseIsLeft'
  BY BoundAssumption, PostFacts DEF IInv, TypeOK, Phases, Outcome, Sending,
     NoResponseIsLeft, CloseBody, streamVars, senderVars, Attempts, Chunks
<1>5. Sent'
  BY BoundAssumption, PostFacts DEF IInv, TypeOK, Phases, Outcome, Sending,
     Sent, CloseBody, streamVars, senderVars, Attempts, Chunks
<1> QED BY <1>1, <1>2, <1>3, <1>4, <1>5 DEF IInv

-----------------------------------------------------------------------------
\* No stream has been made yet.
LEMMA InitIInv == Init => IInv
<1> SUFFICES ASSUME Init PROVE IInv
  OBVIOUS
<1>1. TypeOK
  <2>1. 0 \in 0..MaxAttempts /\ 0 \in 0..MaxChunks /\ 0 \in Nat
    BY BoundAssumption
  <2>2. <<>> \in Seq(Chunks)
    OBVIOUS
  <2>3. body \in [Attempts -> Seq(Chunks)] /\ accepted \in Seq(Chunks)
    BY DEF Init
  <2>4. resp \in 0..MaxAttempts /\ attempts \in 0..MaxAttempts /\ pending \in 0..MaxChunks
        /\ written \in 0..MaxChunks /\ replies \in Nat
    BY <2>1 DEF Init
  <2> QED BY <2>3, <2>4 DEF Init, TypeOK
<1>2. Phases /\ Outcome /\ NoResponseIsLeft
  BY PostFacts DEF Init, Phases, Outcome, NoResponseIsLeft, Sending
<1>3. Sent
  <2>1. \A c \in Chunks : ~Contains(<<>>, c)
    BY DEF Contains
  <2>2. \A k \in Attempts : body[k] = <<>>
    BY DEF Init
  <2>3. 1 \in Attempts
    BY BoundAssumption DEF Attempts
  <2> QED BY <2>1, <2>3 DEF Init, Sent
<1> QED BY <1>1, <1>2, <1>3 DEF IInv

\* Every step preserves the invariant.
LEMMA NextIInv == IInv /\ [Next]_vars => IInv'
<1> SUFFICES ASSUME IInv, [Next]_vars PROVE IInv'
  OBVIOUS
<1>1. CASE UNCHANGED vars
  BY <1>1, PostFacts DEF vars, streamVars, pipeVars, netVars, senderVars, IInv,
     TypeOK, Phases, Outcome, NoResponseIsLeft, Sent, Sending
<1>2. CASE Sender
  BY <1>2, SendRequestIInv, ReplyOKIInv, ReplyUnauthorizedIInv, ReplyErrorIInv,
     NoCredentialsIInv, RetryIInv, ExitIInv, AssignIInv DEF Sender, Reply
<1>3. CASE Stream
  <2>1. httpError \in BOOLEAN /\ FALSE \in BOOLEAN /\ resp \in 0..MaxAttempts
        /\ 0 \in 0..MaxAttempts
    BY BoundAssumption DEF IInv, TypeOK
  <2> QED BY <1>3, <2>1, ActionIInv, WriteIInv, ReadReturnsIInv, WriteFailsIInv, ReadIInv,
             WakeIInv, FreeIInv DEF Stream
<1>4. CASE NetHttp
  BY <1>4, ReadBodyIInv, ReadEofIInv, CloseBodyIInv DEF NetHttp
<1> QED BY <1>1, <1>2, <1>3, <1>4 DEF Next

\* The inductive invariant holds in every state that a stream reaches.
THEOREM Invariance == Spec => []IInv
BY InitIInv, NextIInv, PTL DEF Spec

\* The variables keep their types.
THEOREM TypeCorrect == Spec => []TypeOK
<1>1. IInv => TypeOK
  BY DEF IInv
<1> QED BY <1>1, Invariance, PTL

\* The WaitGroup is never negative, and Wait returns when there is a response or
\* an error.
THEOREM WaitIsRight == Spec => []WaitsForTheRequest
<1>1. IInv => WaitsForTheRequest
  BY DEF IInv, Phases, Outcome, WaitsForTheRequest, Sending
<1> QED BY <1>1, Invariance, PTL

\* What Write accepted goes out once, and all of it by a request that needed no
\* retry.
THEOREM ChunksAreSentOnce == Spec => []WrittenIsSentOnce
<1>1. ASSUME IInv PROVE WrittenIsSentOnce
  <2>1. ASSUME NEW c \in Chunks
        PROVE  Cardinality({k \in Attempts : Contains(body[k], c)})
                 = IF Contains(accepted, c) THEN 1 ELSE 0
    <3> DEFINE K == {k \in Attempts : Contains(body[k], c)}
    <3>1. CASE Contains(accepted, c)
      <4>1. PICK k \in Attempts : \A j \in Attempts : Contains(body[j], c) <=> j = k
        BY <1>1, <3>1 DEF IInv, Sent
      <4>2. K = {k}
        BY <4>1
      <4> QED BY <3>1, <4>2, FS_Singleton
    <3>2. CASE ~Contains(accepted, c)
      <4>1. K = {}
        BY <1>1, <3>2 DEF IInv, Sent
      <4> QED BY <3>2, <4>1, FS_EmptySet
    <3> QED BY <3>1, <3>2
  <2>2. resp = 1 /\ IsPost => body[1] = accepted
    BY <1>1 DEF IInv, Outcome, Sent
  <2> QED BY <2>1, <2>2 DEF WrittenIsSentOnce
<1> QED BY <1>1, Invariance, PTL

\* The response that the stream has is the only one that is not closed, and Free
\* closes it once a Read has waited.
THEOREM ResponsesAreClosed == Spec => []NoResponseIsLeft
<1>1. IInv => NoResponseIsLeft
  BY DEF IInv
<1> QED BY <1>1, Invariance, PTL
=====
