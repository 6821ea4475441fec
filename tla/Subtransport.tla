---------------------------- MODULE Subtransport ----------------------------
(***************************************************************************)
(* A managed subtransport (transport.go): the layer between libgit2's      *)
(* smart transport and a Go SmartSubtransport.  Every stream that the Go   *)
(* side makes gets a C object, allocated and tracked by the layer, that    *)
(* libgit2 uses and then frees.  An Action may give the stream of the one  *)
(* before, and then libgit2 must be given the same C object.               *)
(*                                                                         *)
(* libgit2 (the environment) calls Close between two Actions, but for the  *)
(* two natural progressions (transport.go:187).  It frees a stream once:   *)
(* that of a stateless transport before it asks for the next one, that of  *)
(* a stateful one before Close.  It calls Close before Free.               *)
(***************************************************************************)
EXTENDS Naturals

CONSTANTS MaxActions,  \* bound on the Actions that succeed
          Kinds        \* the kinds of Go subtransport

\* stateless is what the transport was registered with.  reuse says what
\* Action gives: "never" a stream it gave before (http.go), the stream of the
\* "listing" for the action that follows it (ssh.go), "always" the same one.
AllKinds == [stateless : BOOLEAN, reuse : {"never", "listing", "always"}]
ASSUME KindsAssumption == MaxActions \in Nat /\ Kinds \subseteq AllKinds
\* libgit2 frees the stream of a stateless transport before the next action,
\* and has that of a stateful one serve it: a transport is registered as what
\* its Go side is made for.
ASSUME ReuseAssumption == \A k \in Kinds : k.stateless <=> k.reuse = "never"

Actions == {"UploadpackLs", "Uploadpack", "ReceivepackLs", "Receivepack"}
Streams == 1..MaxActions

VARIABLES
  kind,
  phase,       \* of the subtransport
  underlying,  \* what each managed stream is for, 0 before it is made
  alive,       \* the managed streams whose C object is allocated and tracked
  frees,       \* how often the Go stream behind each was freed
  made,        \* how many managed streams were made
  given,       \* what Action gave last
  current,     \* currentManagedStream, 0 for nil
  held,        \* libgit2's current stream, 0 for none
  last, closed \* libgit2: its last Action; Close came after it

goVars == <<underlying, alive, frees, made, given, current>>
gitVars == <<held, last, closed>>
vars == <<kind, phase, goVars, gitVars>>

TypeOK ==
  /\ kind \in Kinds
  /\ phase \in {"new", "ready", "failed", "freed", "panicked"}
  /\ underlying \in [Streams -> 0..MaxActions] /\ given \in 0..MaxActions
  /\ alive \subseteq Streams
  /\ frees \in [Streams -> Nat]
  /\ made \in 0..MaxActions
  /\ current \in 0..made /\ held \in 0..made
  /\ last \in Actions \cup {"none"} /\ closed \in BOOLEAN

Init ==
  /\ kind \in Kinds /\ phase = "new"
  /\ underlying = [m \in Streams |-> 0] /\ given = 0
  /\ alive = {} /\ frees = [m \in Streams |-> 0] /\ made = 0
  /\ current = 0 /\ held = 0 /\ last = "none" /\ closed = TRUE

\* smartTransportSubtransportCallback: the factory makes the subtransport, or
\* fails, and then there is none to be freed.
Setup(ok) ==
  /\ phase = "new"
  /\ phase' = IF ok THEN "ready" ELSE "failed"
  /\ UNCHANGED <<kind, goVars, gitVars>>

-----------------------------------------------------------------------------
Natural(a, b) == \/ a = "UploadpackLs" /\ b = "Uploadpack"
                 \/ a = "ReceivepackLs" /\ b = "Receivepack"

\* When libgit2 may ask for a.
MayAsk(a) ==
  /\ phase = "ready" /\ made < MaxActions
  /\ \/ closed
     \/ Natural(last, a) /\ (held = 0 <=> kind.stateless)

\* The stream the Go subtransport gives for a: numbers are used up in order.
Given(a) ==
  CASE kind.reuse = "always" -> 1
    [] kind.reuse = "listing" /\ ~closed /\ Natural(last, a) -> given
    [] OTHER -> made + 1

Asked(a) == last' = a /\ closed' = FALSE

ActionFails(a) ==
  /\ MayAsk(a)
  /\ last' = "none" /\ closed' = FALSE
  /\ UNCHANGED <<kind, phase, goVars, held>>

\* currentManagedStream is the managed stream of u.
IsCurrent(u) == current # 0 /\ underlying[current] = u

\* Mutant: the managed stream is made for the stream of the Action before.
ActionNewStale(a, u) ==
  /\ MayAsk(a) /\ ~IsCurrent(u)
  /\ Asked(a)
  /\ made' = made + 1 /\ given' = u
  /\ underlying' = [underlying EXCEPT ![made + 1] = given]
  /\ alive' = alive \cup {made + 1}
  /\ current' = made + 1 /\ held' = made + 1
  /\ UNCHANGED <<kind, phase, frees>>

\* The Go side gives u, which is not the current stream: it gets a C object
\* and a handle.
ActionNew(a, u) ==
  /\ MayAsk(a) /\ ~IsCurrent(u)
  /\ Asked(a)
  /\ made' = made + 1 /\ given' = u
  /\ underlying' = [underlying EXCEPT ![made + 1] = u]
  /\ alive' = alive \cup {made + 1}
  /\ current' = made + 1 /\ held' = made + 1
  /\ UNCHANGED <<kind, phase, frees>>

\* The current one is given again, by its C object, if that is still there:
\* it was set to nil when libgit2 freed the stream.
ActionSame(a, u) ==
  /\ MayAsk(a) /\ IsCurrent(u)
  /\ Asked(a) /\ given' = u
  /\ IF current \in alive THEN held' = current /\ UNCHANGED phase
                          ELSE phase' = "panicked" /\ UNCHANGED held
  /\ UNCHANGED <<kind, underlying, alive, frees, made, current>>

-----------------------------------------------------------------------------
\* Mutant: the C object of a freed stream is kept.
FreeStreamKeeps ==
  /\ phase = "ready" /\ held # 0
  /\ frees' = [frees EXCEPT ![held] = @ + 1]
  /\ held' = 0
  /\ UNCHANGED <<kind, phase, underlying, made, given, alive, current, last, closed>>

\* smartSubtransportStreamFreeCallback
FreeStream ==
  /\ phase = "ready" /\ held # 0
  /\ frees' = [frees EXCEPT ![held] = @ + 1]
  /\ alive' = alive \ {held}
  /\ held' = 0
  /\ UNCHANGED <<kind, phase, underlying, made, given, current, last, closed>>

\* Mutant: Close leaves the current stream.
CloseKeepsCurrent ==
  /\ phase = "ready" /\ held = 0
  /\ closed' = TRUE
  /\ UNCHANGED <<kind, phase, goVars, held, last>>

\* smartSubtransportCloseCallback
Close ==
  /\ phase = "ready" /\ held = 0
  /\ current' = 0 /\ closed' = TRUE
  /\ UNCHANGED <<kind, phase, underlying, made, given, alive, frees, held, last>>

\* smartSubtransportFreeCallback
Free ==
  /\ phase = "ready" /\ held = 0 /\ closed
  /\ phase' = "freed"
  /\ UNCHANGED <<kind, goVars, gitVars>>

Next ==
  \/ \E ok \in BOOLEAN : Setup(ok)
  \/ \E a \in Actions : ActionFails(a) \/ ActionNew(a, Given(a)) \/ ActionSame(a, Given(a))
  \/ FreeStream \/ Close \/ Free

Spec == Init /\ [][Next]_vars

-----------------------------------------------------------------------------
(***************************************************************************)
(* Properties                                                              *)
(***************************************************************************)

\* The C object that libgit2 uses is there, tracked, and for the very stream
\* that the Go subtransport gave last.  An Action that gives the stream before
\* finds that stream's C object, and does not crash (transport.go:379: "It's
\* okay to do strict equality here: we expect both to be identical").
HeldIsGiven ==
  /\ held # 0 => held \in alive /\ underlying[held] = given
  /\ phase # "panicked"

\* Every Go stream is freed once for each C object made for it, and with it
\* the C object: nothing is freed twice, and nothing is left behind.
FreedOnce ==
  /\ \A m \in Streams : frees[m] = IF m \in 1..made \ alive THEN 1 ELSE 0
  /\ phase = "freed" => alive = {}
=============================================================================
