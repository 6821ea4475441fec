------------------------------ MODULE ManagedSsh ------------------------------
(***************************************************************************)
(* The SSH transport at its place: libgit2 calls the layer of              *)
(* Subtransport, and the layer calls ssh.go, whose Action and Close are    *)
(* the steps of Ssh.  What Subtransport takes for granted of the Go side,  *)
(* that the listing's stream is given again for the action that follows    *)
(* it, and a new one otherwise, is here what ssh.go does.                  *)
(*                                                                         *)
(* The other kinds of Subtransport go on with the Go side that it          *)
(* describes; and for a caller that keeps none of libgit2's promises,      *)
(* ssh.go is also driven without the layer.                                *)
(***************************************************************************)
EXTENDS Subtransport

CONSTANTS MaxConns, MaxOutput, Window,  \* the bounds of Ssh
          SshKind                       \* the kind of ssh.go's subtransport

ASSUME SshKindAssumption ==
  SshKind \in Kinds /\ SshKind = [stateless |-> FALSE, reuse |-> "listing"]
ASSUME ConnsAssumption == MaxConns \in Nat /\ MaxOutput \in Nat /\ Window \in Nat

VARIABLES
  layered,   \* whether the calls come through the layer
  client, session, stdin, stdout, currentStream, lastAction, main, asked,
  conns, open, command, input, running, unsent, unread,
  streams    \* how many streams ssh.go made

Go == INSTANCE Ssh WITH made <- conns

sshVars == <<client, session, stdin, stdout, currentStream, lastAction, main, asked,
             conns, open, command, input, running, unsent, unread>>
allVars == <<vars, layered, sshVars, streams>>

ManagedTypeOK ==
  /\ TypeOK /\ Go!TypeOK
  /\ layered \in BOOLEAN /\ streams \in 0..conns

ManagedInit ==
  /\ Init /\ Go!Init /\ streams = 0
  /\ layered \in BOOLEAN /\ (layered \/ kind = SshKind)

-----------------------------------------------------------------------------
(***************************************************************************)
(* Action                                                                  *)
(***************************************************************************)

LayeredSsh == layered /\ kind = SshKind

\* The layer passes on what ssh.go gives, its stream number u.
Gives(a, u) == ActionNew(a, u) \/ ActionSame(a, u)

\* ssh.go has the stream that will do...
ActionReuses(a) ==
  /\ LayeredSsh /\ MayAsk(a) /\ Go!Reuse(a)
  /\ Gives(a, streams)
  /\ UNCHANGED <<layered, streams>>

\* ... or has none, or one that it closes, and begins a connection...
ActionBegins(a) ==
  /\ LayeredSsh /\ MayAsk(a) /\ (Go!Begin(a) \/ Go!Replace(a))
  /\ UNCHANGED <<vars, layered, streams>>

\* ... that fails in one of its steps...
ActionGivesUp ==
  /\ LayeredSsh
  /\ Go!NoConnection \/ \E failing \in Go!Failing : Go!Unfinished(failing)
  /\ ActionFails(asked)
  /\ UNCHANGED <<layered, streams>>

\* ... or stands.
ActionConnects ==
  /\ LayeredSsh
  /\ \E output \in 0..MaxOutput : Go!Connect(output)
  /\ streams' = streams + 1
  /\ Gives(asked, streams + 1)
  /\ UNCHANGED layered

-----------------------------------------------------------------------------
\* Close of the layer forgets its stream and calls ssh.go, which waits for
\* the command, if there is one, or fails.
CloseBegins ==
  /\ LayeredSsh /\ phase = "ready" /\ held = 0 /\ Go!Close
  /\ IF main' = "idle" THEN Close ELSE UNCHANGED vars
  /\ UNCHANGED <<layered, streams>>

CloseEnds ==
  /\ LayeredSsh /\ Go!Waited
  /\ IF main = "closing" THEN Close ELSE UNCHANGED vars
  /\ UNCHANGED <<layered, streams>>

\* libgit2 reads from the stream that it holds.
Reads ==
  /\ LayeredSsh /\ phase = "ready" /\ held # 0 /\ Go!Read
  /\ UNCHANGED <<vars, layered, streams>>

\* The stream's Free does nothing to the session; nor does that of ssh.go.
StreamFree ==
  /\ LayeredSsh /\ main = "idle" /\ FreeStream
  /\ UNCHANGED <<layered, sshVars, streams>>

Frees ==
  /\ LayeredSsh /\ Go!Free /\ Free
  /\ UNCHANGED <<layered, streams>>

SetsUp(ok) == LayeredSsh /\ Setup(ok) /\ UNCHANGED <<layered, sshVars, streams>>

-----------------------------------------------------------------------------
\* The kinds whose Go side is that of Subtransport.
OtherKinds ==
  /\ layered /\ kind # SshKind /\ Next
  /\ UNCHANGED <<layered, sshVars, streams>>

\* ssh.go alone, called in any order.
Alone == ~layered /\ Go!Calls /\ UNCHANGED <<vars, layered, streams>>

AloneWaits == ~layered /\ Go!Waited /\ UNCHANGED <<vars, layered, streams>>

\* The commands at the other end go on whoever calls.
Commands(c) ==
  /\ Go!Send(c) \/ Go!End(c)
  /\ UNCHANGED <<vars, layered, streams>>

ManagedNext ==
  \/ \E ok \in BOOLEAN : SetsUp(ok)
  \/ \E a \in Actions : ActionReuses(a) \/ ActionBegins(a)
  \/ ActionGivesUp \/ ActionConnects
  \/ CloseBegins \/ CloseEnds \/ Reads \/ StreamFree \/ Frees
  \/ OtherKinds
  \/ Alone \/ AloneWaits
  \/ \E c \in Go!Conns : Commands(c)

ManagedSpec == ManagedInit /\ [][ManagedNext]_allVars

\* Close goes on when the command has ended; a command sends what it can and
\* ends when it can.
FairManagedSpec ==
  /\ ManagedSpec
  /\ WF_allVars(CloseEnds \/ AloneWaits)
  /\ \A c \in Go!Conns : WF_allVars(Commands(c))

-----------------------------------------------------------------------------
(***************************************************************************)
(* Properties                                                              *)
(***************************************************************************)

\* With ssh.go's own Action and Close in the place of what Subtransport
\* describes, the layer behaves as Subtransport says: so the listing's stream
\* is given again for the action that follows it, by the same C object, and
\* for no other; and no Close leaves a stream to be given again.
ImplementsSubtransport == Spec

\* What libgit2 holds between its calls is usable, whatever Actions failed
\* before: a C object that is there, for the stream given last (HeldIsGiven),
\* which is the one that ssh.go has now.  It reads from the session that the
\* next Close will end, and the command there serves the action that libgit2
\* asked for last.  (ssh.go has one stdin and stdout for all of its streams.)
HeldIsConnected ==
  /\ HeldIsGiven
  /\ layered /\ kind = SshKind /\ main = "idle" /\ held # 0 =>
       /\ currentStream /\ given = streams
       /\ client # 0 /\ {session, stdin, stdout} = {client}
       /\ command[client] = Go!Service(last)

\* A stream of ssh.go is of one session, also without the layer.
SessionsAreAccounted == Go!SessionsAreAccounted

\* Close, and the Action that calls it, return.
CloseReturns == Go!CloseReturns
=============================================================================
