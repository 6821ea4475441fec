----------------------------- MODULE Callbacks -----------------------------
(***************************************************************************)
(* How an error gets out of libgit2.  libgit2 keeps the text of the last   *)
(* error in a variable of the OS thread and returns only a number.  Go     *)
(* moves goroutines between threads, and the functions it calls may call   *)
(* back into Go, whose callbacks may call libgit2 again on the same        *)
(* thread.  Every binding therefore follows one of these patterns:         *)
(*   "plain"    a C function that takes no callback;                       *)
(*   "direct"   the callback stores its error in the caller's variable     *)
(*              and returns ErrorCodeUser (Odb.ForEach, Diff.ForEach, ...);*)
(*   "message"  the callback also leaves its text with C, which makes it   *)
(*              the thread's error (RemoteCallbacks: Fetch, Push, ...).    *)
(*              Such calls also run the callbacks of a subtransport, which *)
(*              leave a text but have no variable, and, in Clone, those of *)
(*              the direct pattern;                                        *)
(*   "object"   callbacks that belong to an object leave a text and have   *)
(*              no caller's variable (OdbWritepack, Indexer, Rebase);      *)
(*   "smart"    SmartCredentials and SmartCertificateCheck, which a        *)
(*              subtransport calls while a "message" call is open, and     *)
(*              whose callbacks store in the variable of that call.        *)
(***************************************************************************)
EXTENDS Naturals

CONSTANTS Goroutines, Threads,
          MaxDepth,     \* bound on the nesting of calls and callbacks
          MaxCalls,     \* bound on the calls made in all
          MaxFailures,  \* bound on the failures within one call
          None          \* no thread, no error, no text

ASSUME BoundAssumption ==
  MaxDepth \in Nat \ {0} /\ MaxCalls \in Nat /\ MaxFailures \in Nat

Shapes == {"plain", "direct", "message", "object", "smart"}
Depths == 1..MaxDepth

\* The failures, of C or of a callback.  They are numbered, so no two of them
\* are the same event.
Events == [call : 1..MaxCalls, nth : 1..MaxFailures]

\* The error codes: ErrorCodeUser, ErrorCodeIterOver, and all others.
Codes == {"User", "Code", "IterOver"}

\* Go errors: a *GitError with its code, or any other value that a callback may
\* return.  The text tells of a failure, or of no more than the code (None).
Errors == [object : {"git", "go"}, code : Codes, text : Events \cup {None}]
ASSUME NoneAssumption == None \notin Threads \cup Events \cup Errors
IsGitError(err) == err.object = "git"

VARIABLES
  thread,     \* the OS thread each goroutine is running on, or None
  lastError,  \* git_error_last() of each thread: what its text tells of
  depth,      \* how many calls each goroutine has open, callbacks included
  frame,      \* the open calls, the outermost first
  calls,      \* how many calls have been started
  got         \* the error that the last call of the callback that each
              \* goroutine is running returned

vars == <<thread, lastError, depth, frame, calls, got>>

\* Who made a call fail: the C function, a callback that has a variable or
\* belongs to an object, a callback of the subtransport, or a callback's code
\* that comes without an error.
Failers == {"none", "C", "callback", "subtransport", "code"}

Frames == [call : 0..MaxCalls,
           shape : Shapes,
           variable : 0..MaxDepth,      \* whose err the callbacks are given
           pc : {"C", "callback", "back"},
           failures : 0..MaxFailures,   \* how many it has had
           err : Errors \cup {None},    \* the local variable err
           ret : Codes \cup {"OK"},
           cause : Errors \cup {None},  \* the error it fails with
           by : Failers]

TypeOK ==
  /\ thread \in [Goroutines -> Threads \cup {None}]
  /\ lastError \in [Threads -> Events \cup {None}]
  /\ depth \in [Goroutines -> 0..MaxDepth]
  /\ frame \in [Goroutines -> [Depths -> Frames]]
  /\ calls \in 0..MaxCalls
  /\ got \in [Goroutines -> Errors \cup {None}]

NewFrame(call, shape, variable) ==
  [call |-> call, shape |-> shape, variable |-> variable, pc |-> "C",
   failures |-> 0, err |-> None, ret |-> "OK", cause |-> None, by |-> "none"]

NoFrame == NewFrame(0, "plain", 0)

Init ==
  /\ thread = [g \in Goroutines |-> None]
  /\ lastError = [t \in Threads |-> None]
  /\ depth = [g \in Goroutines |-> 0]
  /\ frame = [g \in Goroutines |-> [d \in Depths |-> NoFrame]]
  /\ calls = 0
  /\ got = [g \in Goroutines |-> None]

-----------------------------------------------------------------------------
Top(g) == frame[g][depth[g]]

\* g's innermost call is at the given place.
At(g, place) == depth[g] > 0 /\ Top(g).pc = place

\* g's user code is running: no call is open, or a callback is.
InUserCode(g) == depth[g] = 0 \/ At(g, "callback")

SetTop(g, f) == frame' = [frame EXCEPT ![g][depth[g]] = f]

\* Mutant: without runtime.LockOSThread only C on the stack pins g.
PinnedByC(g) == \E d \in 1..depth[g] : frame[g][d].pc \in {"C", "callback"}

\* runtime.LockOSThread is in force, which is not given up before the call
\* has asked for the error.
Pinned(g) == depth[g] > 0

\* The scheduler moves g to a thread that is free, or takes it off its own.
Schedule(g, t) ==
  /\ ~Pinned(g)
  /\ t = None \/ \A other \in Goroutines : thread[other] # t
  /\ t # thread[g]
  /\ thread' = [thread EXCEPT ![g] = t]
  /\ UNCHANGED <<lastError, depth, frame, calls, got>>

-----------------------------------------------------------------------------
\* A call locks the goroutine to its thread and goes into C.  What it does
\* before, with its arguments, has to do with neither.
Open(g, f) ==
  /\ InUserCode(g) /\ thread[g] # None
  /\ depth[g] < MaxDepth /\ calls < MaxCalls
  /\ calls' = calls + 1
  /\ depth' = [depth EXCEPT ![g] = @ + 1]
  /\ frame' = [frame EXCEPT ![g][depth[g] + 1] = f]
  /\ got' = [got EXCEPT ![g] = None]
  /\ UNCHANGED <<thread, lastError>>

\* User code calls a binding.  A callback is given the address of the caller's
\* variable, if it has one.
Begin(g, shape) ==
  Open(g, NewFrame(calls + 1, shape,
                   IF shape \in {"direct", "message"} THEN depth[g] + 1 ELSE 0))

\* A subtransport asks for credentials, or for a certificate to be checked, on
\* behalf of the call at depth d, whose RemoteCallbacks libgit2 runs for it.
BeginSmart(g, d) ==
  /\ frame[g][d].shape = "message"
  /\ Open(g, NewFrame(calls + 1, "smart", d))

Succeed(g) ==
  /\ At(g, "C")
  /\ SetTop(g, [Top(g) EXCEPT !.pc = "back"])
  /\ UNCHANGED <<thread, lastError, depth, calls, got>>

\* A failure that was not there before.
MayFail(g) == Top(g).failures < MaxFailures
NewEvent(g) == [call |-> Top(g).call, nth |-> Top(g).failures + 1]

\* The call comes back from C with a code, because of err.
GivesUp(f, code, err, by) ==
  [f EXCEPT !.pc = "back", !.ret = code, !.cause = err, !.by = by]

\* C minds a failure no more than by counting it.
GoesOn(f) == [f EXCEPT !.pc = "C", !.failures = @ + 1]

\* The C function fails by itself: it sets the thread's error and returns a
\* code, which is never ErrorCodeUser.
Fail(g) ==
  LET err == [object |-> "git", code |-> "Code", text |-> NewEvent(g)]
  IN  /\ At(g, "C") /\ MayFail(g)
      /\ lastError' = [lastError EXCEPT ![thread[g]] = NewEvent(g)]
      /\ SetTop(g, GivesUp(Top(g), "Code", err, "C"))
      /\ UNCHANGED <<thread, depth, calls, got>>

\* An iterator is at its end, which is a code and no error of the thread.
IterOver == [object |-> "git", code |-> "IterOver", text |-> None]
End(g) ==
  /\ At(g, "C") /\ Top(g).shape = "plain"
  /\ SetTop(g, GivesUp(Top(g), "IterOver", IterOver, "C"))
  /\ UNCHANGED <<thread, lastError, depth, calls, got>>

-----------------------------------------------------------------------------
\* The C function calls back.
CallBack(g) ==
  /\ At(g, "C") /\ Top(g).shape # "plain"
  /\ SetTop(g, [Top(g) EXCEPT !.pc = "callback"])
  /\ got' = [got EXCEPT ![g] = None]
  /\ UNCHANGED <<thread, lastError, depth, calls>>

\* The callback returns no error, or, without one, a code after which C goes
\* on, as ErrorCodePassthrough.
CallbackOK(g) ==
  /\ At(g, "callback")
  /\ SetTop(g, [Top(g) EXCEPT !.pc = "C"])
  /\ UNCHANGED <<thread, lastError, depth, calls, got>>

\* What a failing callback may return: an error of its own, which may be a
\* GitError, or the one that the last call it made gave it.
CallbackErrors(g) ==
  {[object |-> "go", code |-> "User", text |-> NewEvent(g)]}
    \cup [object : {"git"}, code : Codes, text : {NewEvent(g)}]
    \cup ({got[g]} \ {None})

\* Mutant: the callback leaves only its text, as in the message pattern.
DirectText(g, err) ==
  /\ At(g, "callback") /\ MayFail(g) /\ Top(g).shape \in {"direct", "message"}
  /\ lastError' = [lastError EXCEPT ![thread[g]] = err.text]
  /\ SetTop(g, GivesUp(Top(g), "User", err, "callback"))
  /\ UNCHANGED <<thread, depth, calls, got>>

\* if err != nil { *data.errorTarget = err; return C.int(ErrorCodeUser) }
\* and the C function returns it as it is.
DirectError(g, err) ==
  /\ At(g, "callback") /\ MayFail(g) /\ Top(g).shape \in {"direct", "message"}
  /\ SetTop(g, [GivesUp(Top(g), "User", err, "callback") EXCEPT !.err = err])
  /\ UNCHANGED <<thread, lastError, depth, calls, got>>

\* Mutant: setCallbackError returns the kind of the error for its code.
KindOf(err) == IF IsGitError(err) THEN err.object ELSE "User"

\* The code setCallbackError gives for err: a GitError keeps its own.
CodeOf(err) == IF IsGitError(err) THEN err.code ELSE "User"

\* *data.errorTarget = err, if the callback has one: the variable of the call it
\* belongs to, which need not be the innermost one.
Stored(g, err, by) ==
  IF by = "callback" /\ Top(g).variable # 0
    THEN [frame[g] EXCEPT ![Top(g).variable].err = err]
    ELSE frame[g]

\* The callback stores err if there is a variable for it, which there is not
\* for a subtransport's; set_callback_error makes its text the error of the
\* thread before any Go code can run again; and the C function gives up with
\* the code, unless it is one it knows, as ErrorCodePassthrough, and goes on.
MessageError(g, err, by, ignored) ==
  /\ At(g, "callback") /\ MayFail(g)
  /\ by = "callback" => Top(g).shape \in {"message", "object", "smart"}
  /\ by = "subtransport" => Top(g).shape = "message"
  /\ ignored => CodeOf(err) = "Code"
  /\ lastError' = [lastError EXCEPT ![thread[g]] = err.text]
  /\ frame' = [frame EXCEPT ![g] = [Stored(g, err, by) EXCEPT ![depth[g]] =
       IF ignored THEN GoesOn(@)
                  ELSE GivesUp(@, CodeOf(err), err, by)]]
  /\ UNCHANGED <<thread, depth, calls, got>>

\* A callback that is not set gives a code and no error: ErrorCodeCertificate,
\* or ErrorCodePassthrough where credentials are needed.  C leaves the thread's
\* error as it is, or makes one of the code.
BareCode(g, text) ==
  /\ At(g, "callback") /\ Top(g).shape \in {"message", "smart"}
  /\ text \in {lastError[thread[g]], None}
  /\ lastError' = [lastError EXCEPT ![thread[g]] = text]
  /\ SetTop(g, GivesUp(Top(g), "Code",
                       [object |-> "git", code |-> "Code", text |-> None], "code"))
  /\ UNCHANGED <<thread, depth, calls, got>>

-----------------------------------------------------------------------------
\* Mutant: the variable is looked at and the code is not.
IgnoresTheCode(g) == Top(g).err = None

\* ret == C.int(ErrorCodeUser) && err != nil
AsksTheThread(g) == ~(Top(g).ret = "User" /\ Top(g).err # None)

\* A GitError of the code and of whatever the thread's last error is by now,
\* which the end of an iteration does not have.
MakeGitError(code, t) ==
  [object |-> "git", code |-> code,
   text |-> IF code = "IterOver" THEN None ELSE lastError[t]]

\* What the call returns.
Result(g) == IF Top(g).ret = "OK" THEN None
             ELSE IF AsksTheThread(g) THEN MakeGitError(Top(g).ret, thread[g])
             ELSE Top(g).err

\* The call returns, and with its frame goes its hold of the thread.
Return(g) ==
  /\ At(g, "back")
  /\ got' = [got EXCEPT ![g] = IF depth[g] > 1 THEN Result(g) ELSE None]
  /\ depth' = [depth EXCEPT ![g] = @ - 1]
  /\ SetTop(g, NoFrame)
  /\ UNCHANGED <<thread, lastError, calls>>

Next == \E g \in Goroutines :
  \/ \E t \in Threads \cup {None} : Schedule(g, t)
  \/ \E shape \in Shapes \ {"smart"} : Begin(g, shape)
  \/ \E d \in 1..depth[g] : BeginSmart(g, d)
  \/ Succeed(g) \/ Fail(g) \/ End(g)
  \/ CallBack(g) \/ CallbackOK(g)
  \/ /\ At(g, "callback")
     /\ \/ \E err \in CallbackErrors(g) :
             \/ DirectError(g, err)
             \/ \E by \in {"callback", "subtransport"}, ignored \in BOOLEAN :
                  MessageError(g, err, by, ignored)
        \/ \E text \in Events \cup {None} : BareCode(g, text)
  \/ Return(g)

Spec == Init /\ [][Next]_vars

-----------------------------------------------------------------------------
(***************************************************************************)
(* Properties                                                              *)
(***************************************************************************)

\* remote.go:1058 asks whether some callback has set err, and not which callback
\* it was that failed.  A subtransport's callback that fails with ErrorCodeUser,
\* as it does with any error that is no GitError, sets none: if a callback that
\* failed before has, that one's is returned.  (Often it is the better error of
\* the two, of which the later one is a consequence; but it may have been overcome.)
EarlierErrorWins(f) ==
  f.by = "subtransport" /\ CodeOf(f.cause) = "User" /\ f.err # None

\* A call reports a failure exactly when it failed.  With the one exception
\* above, it reports the code of the failure that made it fail, and its text:
\* not that of a call another goroutine made on the thread, not that of a call
\* one of its callbacks made, not that of an earlier callback whose error C did
\* not mind.  The text is lost when a callback's own error is ErrorCodeIterOver;
\* a code that no error came with may be told with the text of another.
ReportsTheCause == \A g \in Goroutines : At(g, "back") =>
  LET f == Top(g)
      err == Result(g)
  IN  /\ err = None <=> f.cause = None
      /\ err # None /\ ~EarlierErrorWins(f) =>
           /\ CodeOf(err) = CodeOf(f.cause)
           /\ \/ err.text = f.cause.text
              \/ err.text = None /\ CodeOf(f.cause) = "IterOver"
              \/ f.by = "code"

\* While a call waits to read the error, the thread it runs on is its own and
\* still holds the error that the code stands for.
ErrorStays == \A g \in Goroutines :
  /\ At(g, "back") /\ Top(g).ret \notin {"OK", "IterOver"}
  /\ AsksTheThread(g) /\ Top(g).by # "code"
  => /\ thread[g] # None
     /\ lastError[thread[g]] = Top(g).cause.text
     /\ \A other \in Goroutines \ {g} : thread[other] # thread[g]

\* wrapper.c:7-9: a callback that is passed to the function that runs it
\* "preserves the error object as-is", also when what it returns is the
\* *GitError of a call it made itself.  wrapper.c:63-67: a callback of the
\* message pattern keeps it too while the call it belongs to is open, though
\* only an error that is no GitError.
KeepsTheObject == \A g \in Goroutines : At(g, "back") =>
  LET f == Top(g)
  IN  \/ f.shape = "direct"
      \/ f.shape = "message" /\ f.by = "callback" /\ ~IsGitError(f.cause)
      => Result(g) = f.cause
=============================================================================
