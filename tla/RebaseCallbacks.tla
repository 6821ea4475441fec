--------------------------- MODULE RebaseCallbacks ---------------------------
(***************************************************************************)
(* The checkout callbacks of a Rebase (rebase.go, checkout.go).            *)
(* InitRebase leaves them with the git_rebase, and Next and Abort, later   *)
(* calls, run them: calls of the pattern "object".  But                    *)
(* checkoutNotifyCallback is written for the pattern "direct": it stores   *)
(* its error in the variable of InitRebase, which has returned, and leaves *)
(* no text with C.                                                         *)
(***************************************************************************)
EXTENDS Callbacks

\* A notify callback fails in Next or Abort.  libgit2 says that "the callback
\* returned -7", unless the thread has an error already.
CheckoutError(g, err) ==
  /\ At(g, "callback") /\ MayFail(g) /\ Top(g).shape = "object"
  /\ IF lastError[thread[g]] = None
       THEN lastError' = [lastError EXCEPT ![thread[g]] = err.text]
       ELSE UNCHANGED lastError
  /\ SetTop(g, GivesUp(Top(g), "User", err, "callback"))
  /\ UNCHANGED <<thread, depth, calls, got>>

RebaseNext ==
  \/ Next
  \/ \E g \in Goroutines :
       At(g, "callback") /\ \E err \in CallbackErrors(g) : CheckoutError(g, err)

RebaseSpec == Init /\ [][RebaseNext]_vars

-----------------------------------------------------------------------------
\* wrapper.c:63-67: for a callback that runs in "different stacks (e.g. when
\* passing the callback to an object)", the original error may be lost, but
\* the call still reports it, as a GitError.  The code reports the error of an
\* earlier call on the thread instead.
ReportsTheCallback == \A g \in Goroutines :
  At(g, "back") /\ Top(g).shape = "object" /\ Top(g).by = "callback" =>
    Result(g).text \in {Top(g).cause.text, None}
=============================================================================
