-------------------------- MODULE ManagedSshProofs --------------------------
(***************************************************************************)
(* That ssh.go, called through the layer, is a Go side as Subtransport     *)
(* describes it, that libgit2 never holds a stream that is not connected,  *)
(* and that the layer frees each stream once, for any number of Actions    *)
(* and connections.                                                        *)
(*                                                                         *)
(* The invariant has a part for the layer (LayerInv), whose steps are      *)
(* those of Subtransport, one for ssh.go (SshInv), which it keeps in       *)
(* whatever order it is called, and one that relates the two (Joined).     *)
(***************************************************************************)
EXTENDS ManagedSsh, TLAPS

\* The layer: libgit2 holds the current stream or none, and no other C object
\* is alive; Close leaves none.
Layer ==
  /\ held \in {0, current} /\ alive \subseteq {held}
  /\ closed => current = 0 /\ held = 0
  /\ given <= made /\ \A m \in 1..made : underlying[m] \in 1..m
  /\ kind.reuse = "always" /\ current # 0 => underlying[current] = 1

LayerInv == TypeOK /\ HeldIsGiven /\ FreedOnce /\ Layer

Listings == {"UploadpackLs", "ReceivepackLs"}

\* ssh.go: the stream between calls is of the client's session, whose command
\* is for the action it was made for and is the only one with input; without a
\* stream none has.
Session ==
  /\ main = "idle" /\ currentStream =>
       /\ client # 0 /\ session = client /\ stdin = client /\ stdout = client
       /\ input \subseteq {client} /\ lastAction \in Actions /\ asked \in Actions
       /\ command[client] = Go!Service(lastAction)
       /\ Go!Service(asked) = Go!Service(lastAction)
  /\ main # "crashed" /\ ~currentStream => input = {}
  /\ main # "idle" => ~currentStream
  /\ main \in {"connecting", "reconnecting"} => asked \in Actions

SshInv == Go!TypeOK /\ Session

\* ssh.go under the layer: what libgit2 holds is the stream it has, which will
\* do for the action that may follow; a connection is made only after Close.
Joined == LayeredSsh =>
  /\ streams = made
  /\ held # 0 =>
       /\ main = "idle" /\ currentStream /\ given = streams
       /\ command[client] = Go!Service(last)
       /\ last \in Listings => lastAction = last
  /\ main \in {"connecting", "reconnecting"} => closed
  /\ closed => ~currentStream

IInv == /\ LayerInv /\ SshInv /\ Joined
        /\ layered \in BOOLEAN /\ streams \in 0..conns
        /\ layered \/ kind = SshKind
-----------------------------------------------------------------------------
(***************************************************************************)
(* The layer                                                               *)
(***************************************************************************)

\* What the kind of the Go side is, and when its stream serves a second action.
LEMMA KindFacts ==
  ASSUME LayerInv
  PROVE  /\ kind.reuse \in {"never", "listing", "always"}
         /\ kind.stateless <=> kind.reuse = "never"
         /\ MaxActions \in Nat
BY KindsAssumption, ReuseAssumption DEF LayerInv, TypeOK, AllKinds

\* What Action gives is the stream in libgit2's hands, or else a new one, and
\* then libgit2 has none.
LEMMA GivenFacts ==
  ASSUME LayerInv, NEW a \in Actions, MayAsk(a)
  PROVE  /\ Given(a) \in 1..made + 1
         /\ IsCurrent(Given(a)) => held = current /\ current \in alive
         /\ ~IsCurrent(Given(a)) => held = 0
         /\ ~IsCurrent(Given(a)) /\ kind.reuse = "always" => Given(a) = 1
<1>1. /\ made \in 0..MaxActions /\ current \in 0..made /\ held \in {0, current}
      /\ given \in 0..made
      /\ \A m \in 1..made : underlying[m] \in 1..m
  BY DEF LayerInv, TypeOK, Layer
<1>2. CASE closed
  <2>1. current = 0 /\ held = 0
    BY <1>2 DEF LayerInv, Layer
  <2>2. Given(a) \in {1, made + 1} /\ (kind.reuse = "always" => Given(a) = 1)
    BY <1>2 DEF Given
  <2> QED BY <1>1, <2>1, <2>2 DEF IsCurrent
<1>3. CASE ~closed /\ kind.reuse = "never"
  <2>1. held = 0 /\ Given(a) = made + 1
    BY <1>3, KindFacts DEF MayAsk, Given
  <2>2. current # 0 => underlying[current] \in 1..current
    BY <1>1
  <2>3. ~IsCurrent(made + 1)
    BY <1>1 DEF IsCurrent
  <2> QED BY <1>1, <1>3, <2>1, <2>3
<1>4. CASE ~closed /\ kind.reuse # "never"
  <2>1. Natural(last, a) /\ held # 0 /\ held = current
    BY <1>1, <1>4, KindFacts DEF MayAsk
  <2>2. current \in alive /\ underlying[current] = given /\ current \in Streams
    BY <1>1, <2>1, KindFacts DEF LayerInv, HeldIsGiven, Streams
  <2>3. Given(a) = underlying[current]
    BY <1>4, <2>1, <2>2, KindFacts DEF Given, LayerInv, Layer
  <2>4. IsCurrent(Given(a))
    BY <2>1, <2>3 DEF IsCurrent
  <2>5. Given(a) \in 1..made + 1
    <3>1. kind.reuse = "always" => Given(a) = 1
      BY DEF Given
    <3>2. kind.reuse = "listing" => Given(a) # 0
      BY <1>1, <2>1, <2>3
    <3> QED BY <1>1, <1>4, <2>2, <2>3, <3>1, <3>2, KindFacts
  <2> QED BY <2>1, <2>2, <2>4, <2>5
<1> QED BY <1>2, <1>3, <1>4

\* Nothing is made and nothing held in the initial states.
LEMMA LayerInit == Init => LayerInv
BY KindsAssumption DEF Init, LayerInv, TypeOK, HeldIsGiven, FreedOnce, Layer

\* A stream that is new is the only one alive.
LEMMA ActionNewLayer ==
  ASSUME LayerInv, NEW a \in Actions, ActionNew(a, Given(a))
  PROVE  LayerInv'
<1> DEFINE u == Given(a)
<1>1. MayAsk(a) /\ ~IsCurrent(u) /\ held = 0 /\ alive = {}
  BY GivenFacts DEF ActionNew, LayerInv, Layer, TypeOK, Streams
<1>2. /\ made \in Nat /\ made + 1 \in Streams /\ u \in 1..made + 1 /\ u \in 0..MaxActions
      /\ made' = made + 1 /\ current' = made + 1 /\ held' = made + 1 /\ given' = u
      /\ alive' = {made + 1} /\ underlying'[made + 1] = u
      /\ \A m \in 1..made : underlying'[m] = underlying[m]
      /\ phase' = phase /\ phase = "ready" /\ ~closed'
  BY <1>1, GivenFacts, KindFacts DEF ActionNew, MayAsk, Asked, LayerInv, TypeOK,
     Streams
<1>3. TypeOK'
  <2>1. underlying' \in [Streams -> 0..MaxActions] /\ frees' \in [Streams -> Nat]
    BY <1>2 DEF ActionNew, LayerInv, TypeOK
  <2>2. made' \in 0..MaxActions /\ current' \in 0..made' /\ held' \in 0..made'
    BY <1>2 DEF Streams
  <2>3. kind' \in Kinds /\ last' \in Actions /\ closed' \in BOOLEAN
    BY DEF ActionNew, Asked, LayerInv, TypeOK
  <2> QED BY <1>2, <2>1, <2>2, <2>3 DEF TypeOK
<1>4. HeldIsGiven'
  BY <1>2 DEF HeldIsGiven
<1>5. FreedOnce'
  BY <1>2 DEF ActionNew, LayerInv, FreedOnce
<1>6. Layer'
  <2>1. \A m \in 1..made' : underlying'[m] \in 1..m
    BY <1>2 DEF LayerInv, Layer
  <2>2. kind.reuse = "always" => u = 1
    BY <1>1, GivenFacts
  <2> QED BY <1>2, <2>1, <2>2 DEF ActionNew, Layer
<1> QED BY <1>3, <1>4, <1>5, <1>6 DEF LayerInv

\* A stream that is given again is in libgit2's hands.
LEMMA ActionSameLayer ==
  ASSUME LayerInv, NEW a \in Actions, ActionSame(a, Given(a))
  PROVE  LayerInv'
<1>1. /\ held = current /\ current \in alive /\ underlying[current] = Given(a)
      /\ current # 0 /\ current \in 1..made
  BY GivenFacts DEF ActionSame, IsCurrent, LayerInv, TypeOK
<1>2. Given(a) \in 1..made /\ Given(a) \in 0..MaxActions
  BY <1>1 DEF LayerInv, Layer, TypeOK
<1>3. /\ held' = current /\ phase' = phase /\ given' = Given(a) /\ closed' = FALSE
      /\ UNCHANGED <<kind, underlying, alive, frees, made, current>>
      /\ last' = a
  BY <1>1 DEF ActionSame, Asked
<1>4. TypeOK'
  BY <1>1, <1>2, <1>3 DEF LayerInv, TypeOK
<1>5. HeldIsGiven' /\ FreedOnce'
  BY <1>1, <1>3 DEF LayerInv, HeldIsGiven, FreedOnce
<1>6. Layer'
  BY <1>1, <1>2, <1>3 DEF LayerInv, Layer
<1> QED BY <1>4, <1>5, <1>6 DEF LayerInv

\* libgit2 frees the stream in its hands, the only one alive.
LEMMA FreeStreamLayer ==
  ASSUME LayerInv, FreeStream
  PROVE  LayerInv'
<1>1. held \in alive /\ held \in Streams /\ alive = {held} /\ held \in 1..made /\ held = current
  <2>1. held # 0 /\ held \in 0..made /\ made \in 0..MaxActions /\ held = current
    BY DEF FreeStream, LayerInv, TypeOK, Layer
  <2>2. held \in alive /\ alive \subseteq {held}
    BY <2>1 DEF LayerInv, HeldIsGiven, Layer
  <2>3. alive = {held}
    BY <2>2
  <2>4. held \in 1..made
    BY <2>1
  <2>5. held \in Streams
    BY <2>2 DEF LayerInv, TypeOK
  <2> QED BY <2>1, <2>3, <2>5
<1>2. TypeOK' /\ HeldIsGiven' /\ Layer'
  BY DEF FreeStream, LayerInv, TypeOK, HeldIsGiven, Layer
<1>3. \A m \in Streams : frees'[m] = IF m = held THEN frees[m] + 1 ELSE frees[m]
  BY DEF FreeStream, LayerInv, TypeOK
<1>4. FreedOnce'
  BY <1>1, <1>3 DEF FreeStream, LayerInv, FreedOnce
<1> QED BY <1>2, <1>4 DEF LayerInv

\* Every step of the layer, whatever Go side it has, keeps its invariant.
LEMMA NextLayer == LayerInv /\ [Next]_vars => LayerInv'
<1> SUFFICES ASSUME LayerInv, [Next]_vars PROVE LayerInv'
  OBVIOUS
<1>1. CASE UNCHANGED vars
  BY <1>1 DEF vars, goVars, gitVars, LayerInv, TypeOK, HeldIsGiven, FreedOnce,
     Layer
<1>2. ASSUME NEW ok \in BOOLEAN, Setup(ok) PROVE LayerInv'
  BY <1>2 DEF Setup, goVars, gitVars, LayerInv, TypeOK, HeldIsGiven, FreedOnce,
     Layer
<1>3. ASSUME NEW a \in Actions, ActionFails(a) PROVE LayerInv'
  BY <1>3 DEF ActionFails, goVars, LayerInv, TypeOK, HeldIsGiven, FreedOnce, Layer, Streams
<1>4. CASE Close
  BY <1>4 DEF Close, LayerInv, TypeOK, HeldIsGiven, FreedOnce, Layer
<1>5. CASE Free
  BY <1>5 DEF Free, goVars, gitVars, LayerInv, TypeOK, HeldIsGiven, FreedOnce,
     Layer, Streams
<1> QED BY <1>1, <1>2, <1>3, <1>4, <1>5, ActionNewLayer, ActionSameLayer,
           FreeStreamLayer DEF Next

-----------------------------------------------------------------------------
(***************************************************************************)
(* ssh.go                                                                  *)
(***************************************************************************)

\* The listing of a service is for the same service.
LEMMA ServiceOfListing == \A a \in Go!Actions : Go!Service(Go!LsOf(a)) = Go!Service(a)
BY DEF Go!Service, Go!LsOf

\* ssh.go has neither a stream nor a connection in the initial states.
LEMMA SshInit == Go!Init => SshInv
<1> SUFFICES ASSUME Go!Init PROVE SshInv
  OBVIOUS
<1>1. 0 \in 0..MaxConns /\ 0 \in 0..MaxOutput /\ 0 \in 0..Window
  BY ConnsAssumption
<1>2. Go!TypeOK
  BY <1>1 DEF Go!Init, Go!TypeOK
<1>3. Session
  BY DEF Go!Init, Session
<1> QED BY <1>2, <1>3 DEF SshInv

\* The stream that there is will do, for an action of the same service.
LEMMA ReuseSsh ==
  ASSUME SshInv, NEW a \in Go!Actions, Go!Reuse(a)
  PROVE  SshInv'
<1>1. Go!TypeOK'
  BY DEF SshInv, Go!TypeOK, Go!Reuse, Go!goVars, Go!netVars
<1>2. Go!Service(a) = Go!Service(lastAction) /\ a \in Actions
  BY ServiceOfListing DEF Go!Reuse, Go!Actions, Actions
<1>3. Session'
  BY <1>2 DEF SshInv, Session, Go!Reuse, Go!goVars, Go!netVars
<1> QED BY <1>1, <1>3 DEF SshInv

\* Close closes the input of the one command that has any.
LEMMA BeginCloseSsh ==
  ASSUME SshInv, main = "idle", NEW next \in {"closing", "reconnecting"},
         Go!BeginClose(next), asked' \in Actions \cup {"none"},
         next = "reconnecting" => asked' \in Actions /\ currentStream
  PROVE  SshInv'
<1>1. Go!TypeOK'
  BY DEF SshInv, Go!TypeOK, Go!BeginClose, Actions, Go!Actions
<1>2. Session'
  BY DEF SshInv, Session, Go!BeginClose
<1> QED BY <1>1, <1>2 DEF SshInv

\* An Action that finds no stream connects.
LEMMA BeginSsh ==
  ASSUME SshInv, NEW a \in Go!Actions, Go!Begin(a)
  PROVE  SshInv'
BY DEF SshInv, Go!TypeOK, Session, Go!Begin, Go!goVars, Go!netVars, Actions,
   Go!Actions

\* An Action that gets no connection leaves no stream.
LEMMA NoConnectionSsh ==
  ASSUME SshInv, Go!NoConnection
  PROVE  SshInv'
<1>1. Go!TypeOK'
  BY ConnsAssumption DEF SshInv, Go!TypeOK, Go!NoConnection, Go!netVars
<1>2. Session'
  BY DEF SshInv, Session, Go!NoConnection, Go!netVars
<1> QED BY <1>1, <1>2 DEF SshInv

\* An Action that fails half-way leaves no stream, and started no command.
LEMMA UnfinishedSsh ==
  ASSUME SshInv, NEW failing \in Go!Failing, Go!Unfinished(failing)
  PROVE  SshInv'
<1>1. conns + 1 \in 0..MaxConns /\ conns + 1 \in Go!Conns /\ conns' = conns + 1
  BY ConnsAssumption DEF SshInv, Go!TypeOK, Go!Unfinished, Go!Dial, Go!Conns
<1>2. Go!TypeOK'
  <2>1. {client', session', stdin', stdout'} \subseteq 0..MaxConns
    BY ConnsAssumption DEF SshInv, Go!TypeOK, Go!Unfinished, Go!Dial
  <2>2. conns' \in 0..MaxConns /\ open' \subseteq Go!Conns /\ main' = "idle"
    BY <1>1 DEF SshInv, Go!TypeOK, Go!Unfinished, Go!Dial
  <2> QED BY <2>1, <2>2 DEF SshInv, Go!TypeOK, Go!Unfinished
<1>3. Session'
  BY DEF SshInv, Session, Go!Unfinished, Go!Dial
<1> QED BY <1>2, <1>3 DEF SshInv

\* A stream is of the connection that was made for it.
LEMMA ConnectSsh ==
  ASSUME SshInv, NEW output \in 0..MaxOutput, Go!Connect(output)
  PROVE  SshInv'
<1>1. /\ conns + 1 \in 0..MaxConns /\ conns + 1 \in Go!Conns /\ conns' = conns + 1
      /\ conns + 1 # 0 /\ asked \in Actions
  BY ConnsAssumption DEF SshInv, Go!TypeOK, Go!Connect, Go!Dial, Go!Conns,
     Session
<1>2. Go!Service(asked) \in Go!Services
  BY DEF Go!Service, Go!Services
<1>3. Go!TypeOK'
  BY <1>1, <1>2 DEF SshInv, Go!TypeOK, Go!Connect, Go!Dial
<1>4. Session'
  <2>1. command'[conns + 1] = Go!Service(asked)
    BY <1>1 DEF SshInv, Go!TypeOK, Go!Connect
  <2>2. input = {} /\ input' = {conns + 1}
    BY DEF SshInv, Session, Go!Connect, Go!Dial
  <2>3. /\ client' = conns + 1 /\ session' = conns + 1 /\ stdin' = conns + 1 /\ stdout' = conns + 1
        /\ lastAction' = asked /\ asked' = asked /\ main' = "idle" /\ currentStream'
    BY DEF Go!Connect, Go!Dial
  <2> QED BY <1>1, <2>1, <2>2, <2>3 DEF Session
<1> QED BY <1>3, <1>4 DEF SshInv

\* Close, or the Action that called it, goes on.
LEMMA WaitedSsh ==
  ASSUME SshInv, Go!Waited
  PROVE  SshInv'
<1>1. Go!TypeOK'
  BY ConnsAssumption DEF SshInv, Go!TypeOK, Go!Waited, Go!netVars
<1>2. Session'
  BY DEF SshInv, Session, Go!Waited, Go!netVars
<1> QED BY <1>1, <1>2 DEF SshInv

\* Free does nothing.
LEMMA FreeSsh == SshInv /\ Go!Free => SshInv'
BY DEF SshInv, Go!TypeOK, Session, Go!Free, Go!goVars, Go!netVars

\* Reads and the commands change no more than what is to be read.
LEMMA DataSsh ==
  ASSUME SshInv, Go!Read \/ \E c \in Go!Conns : Go!Send(c) \/ Go!End(c)
  PROVE  SshInv'
<1>1. /\ UNCHANGED <<client, session, stdin, stdout, currentStream, lastAction, main, asked,
                     conns, open, command, input>>
      /\ running' \subseteq running
  BY DEF Go!Read, Go!Send, Go!End, Go!goVars
<1>2. unsent' \in [Go!Conns -> 0..MaxOutput] /\ unread' \in [Go!Conns -> 0..Window]
  <2>1. CASE Go!Read
    <3>1. stdout \in Go!Conns
      BY <2>1 DEF SshInv, Go!TypeOK, Session, Go!Read, Go!Conns
    <3>2. unread[stdout] - 1 \in 0..Window
      BY <2>1, <3>1, ConnsAssumption DEF SshInv, Go!TypeOK, Go!Read
    <3> QED BY <2>1, <3>1, <3>2 DEF SshInv, Go!TypeOK, Go!Read
  <2>2. ASSUME NEW c \in Go!Conns, Go!Send(c)
        PROVE  unsent' \in [Go!Conns -> 0..MaxOutput] /\ unread' \in [Go!Conns -> 0..Window]
    BY <2>2, ConnsAssumption DEF SshInv, Go!TypeOK, Go!Send
  <2>3. ASSUME NEW c \in Go!Conns, Go!End(c)
        PROVE  unsent' \in [Go!Conns -> 0..MaxOutput] /\ unread' \in [Go!Conns -> 0..Window]
    BY <2>3 DEF SshInv, Go!TypeOK, Go!End
  <2> QED BY <2>1, <2>2, <2>3
<1>3. Go!TypeOK'
  BY <1>1, <1>2 DEF SshInv, Go!TypeOK
<1>4. Session'
  BY <1>1 DEF SshInv, Session
<1> QED BY <1>3, <1>4 DEF SshInv

\* Every step of ssh.go keeps its invariant.
LEMMA NextSsh == SshInv /\ [Go!Next]_sshVars => SshInv'
<1> SUFFICES ASSUME SshInv, [Go!Next]_sshVars PROVE SshInv'
  OBVIOUS
<1>1. CASE UNCHANGED sshVars
  BY <1>1 DEF sshVars, SshInv, Go!TypeOK, Session
<1>2. ASSUME NEW a \in Go!Actions, Go!Replace(a) PROVE SshInv'
  BY <1>2, BeginCloseSsh DEF Go!Replace, Go!Actions, Actions
<1>3. CASE Go!Close
  BY <1>3, BeginCloseSsh DEF Go!Close, SshInv, Go!TypeOK, Actions, Go!Actions
<1> QED BY <1>1, <1>2, <1>3, ReuseSsh, BeginSsh, NoConnectionSsh, UnfinishedSsh,
           ConnectSsh, FreeSsh, WaitedSsh, DataSsh DEF Go!Next, Go!Calls

-----------------------------------------------------------------------------
(***************************************************************************)
(* ssh.go under the layer                                                  *)
(***************************************************************************)

\* What the invariant says of the subtransport of ssh.go when it may be asked.
LEMMA AskFacts ==
  ASSUME IInv, LayeredSsh, NEW a \in Actions, MayAsk(a)
  PROVE  /\ ~closed => /\ held # 0 /\ Natural(last, a) /\ currentStream /\ main = "idle"
                       /\ Go!LsOf(a) = lastAction /\ Given(a) = streams
         /\ closed => held = 0 /\ current = 0 /\ ~currentStream /\ Given(a) = streams + 1
<1>1. kind.stateless = FALSE /\ kind.reuse = "listing"
  BY SshKindAssumption DEF LayeredSsh
<1>2. CASE closed
  BY <1>1, <1>2 DEF IInv, Joined, LayerInv, Layer, Given
<1>3. CASE ~closed
  <2>1. held # 0 /\ Natural(last, a)
    BY <1>1, <1>3 DEF MayAsk
  <2>2. /\ main = "idle" /\ currentStream /\ given = streams
        /\ last \in Listings => lastAction = last
    BY <2>1 DEF IInv, Joined
  <2>3. last \in Listings /\ Go!LsOf(a) = last
    BY <2>1 DEF Natural, Listings, Go!LsOf, Go!Service
  <2>4. Given(a) = given
    BY <1>1, <1>3, <2>1 DEF Given
  <2> QED BY <1>3, <2>1, <2>2, <2>3, <2>4
<1> QED BY <1>2, <1>3

\* ssh.go finds a stream for the action that follows the listing only.
LEMMA ReuseFacts ==
  ASSUME IInv, NEW a \in Actions, ActionReuses(a)
  PROVE  ~closed /\ Given(a) = streams
BY AskFacts DEF ActionReuses, Go!Reuse

\* A connection is begun after Close only.
LEMMA BeginFacts ==
  ASSUME IInv, NEW a \in Actions, ActionBegins(a)
  PROVE  closed /\ held = 0
BY AskFacts DEF ActionBegins, Go!Begin, Go!Replace

\* The stream of a new connection is the one that Subtransport expects.
LEMMA ConnectFacts ==
  ASSUME IInv, ActionConnects
  PROVE  /\ asked \in Actions /\ main = "connecting" /\ closed /\ held = 0 /\ current = 0
         /\ MayAsk(asked) /\ Given(asked) = streams + 1 /\ streams = made
<1>1. main = "connecting"
  BY DEF ActionConnects, Go!Connect, Go!Dial
<1>2. asked \in Actions /\ closed /\ streams = made
  BY <1>1 DEF IInv, SshInv, Session, Joined, ActionConnects
<1>3. MayAsk(asked)
  BY DEF ActionConnects, Gives, ActionNew, ActionSame
<1> QED BY <1>1, <1>2, <1>3, AskFacts DEF ActionConnects

\* Each step of the layer with ssh.go is one of Subtransport or changes
\* nothing that Subtransport speaks of.
LEMMA Simulates == IInv /\ [ManagedNext]_allVars => [Next]_vars
<1> SUFFICES ASSUME IInv, ManagedNext PROVE [Next]_vars
  BY DEF allVars
<1>1. ASSUME NEW ok \in BOOLEAN, SetsUp(ok) PROVE Next
  BY <1>1 DEF SetsUp, Next
<1>2. ASSUME NEW a \in Actions, ActionReuses(a) PROVE Next
  BY <1>2, ReuseFacts DEF ActionReuses, Gives, Next
<1>3. ASSUME NEW a \in Actions, ActionBegins(a) PROVE UNCHANGED vars
  BY <1>3 DEF ActionBegins
<1>4. CASE ActionGivesUp
  <2>1. main = "connecting"
    BY <1>4 DEF ActionGivesUp, Go!NoConnection, Go!Unfinished, Go!Dial
  <2>2. asked \in Actions
    BY <2>1 DEF IInv, SshInv, Session
  <2> QED BY <1>4, <2>2 DEF ActionGivesUp, Next
<1>5. CASE ActionConnects
  BY <1>5, ConnectFacts DEF ActionConnects, Gives, Next
<1>6. CASE CloseBegins
  BY <1>6 DEF CloseBegins, Next
<1>7. CASE CloseEnds
  BY <1>7 DEF CloseEnds, Next
<1>8. CASE Reads
  BY <1>8 DEF Reads
<1>9. CASE StreamFree
  BY <1>9 DEF StreamFree, Next
<1>10. CASE Frees
  BY <1>10 DEF Frees, Next
<1>11. CASE OtherKinds
  BY <1>11 DEF OtherKinds
<1>12. CASE Alone \/ AloneWaits \/ \E c \in Go!Conns : Commands(c)
  BY <1>12 DEF Alone, AloneWaits, Commands
<1> QED BY <1>1, <1>2, <1>3, <1>4, <1>5, <1>6, <1>7, <1>8, <1>9, <1>10, <1>11,
           <1>12 DEF ManagedNext

\* Each step is also one of ssh.go, or changes nothing there.
LEMMA StepsSsh == [ManagedNext]_allVars => [Go!Next]_sshVars
<1> SUFFICES ASSUME ManagedNext PROVE [Go!Next]_sshVars
  BY DEF allVars
<1>1. ASSUME NEW a \in Actions, ActionReuses(a) \/ ActionBegins(a) PROVE Go!Next
  BY <1>1 DEF ActionReuses, ActionBegins, Go!Next, Go!Calls, Actions, Go!Actions
<1>2. CASE ActionGivesUp \/ ActionConnects
  BY <1>2 DEF ActionGivesUp, ActionConnects, Go!Next, Go!Calls
<1>3. CASE CloseBegins \/ CloseEnds \/ Reads \/ Frees \/ Alone \/ AloneWaits
  BY <1>3 DEF CloseBegins, CloseEnds, Reads, Frees, Alone, AloneWaits, Go!Next,
     Go!Calls
<1>4. CASE StreamFree \/ OtherKinds \/ \E ok \in BOOLEAN : SetsUp(ok)
  BY <1>4 DEF StreamFree, OtherKinds, SetsUp
<1>5. ASSUME NEW c \in Go!Conns, Commands(c) PROVE Go!Next
  BY <1>5 DEF Commands, Go!Next
<1> QED BY <1>1, <1>2, <1>3, <1>4, <1>5 DEF ManagedNext

\* The same stream is given again: what libgit2 holds stays connected.
LEMMA ReusesJoined ==
  ASSUME IInv, NEW a \in Actions, ActionReuses(a)
  PROVE  Joined'
<1>1. /\ LayeredSsh /\ MayAsk(a) /\ ~closed /\ Given(a) = streams /\ held # 0
      /\ Natural(last, a) /\ currentStream /\ main = "idle" /\ Go!LsOf(a) = lastAction
  BY AskFacts, ReuseFacts DEF ActionReuses
<1>2. ActionSame(a, streams)
  BY <1>1, GivenFacts DEF IInv, ActionReuses, Gives, ActionNew
<1>3. held = current /\ current \in alive
  BY <1>1, GivenFacts DEF IInv
<1>4. /\ held' = current /\ given' = streams /\ last' = a /\ closed' = FALSE /\ made' = made
      /\ kind' = kind
  BY <1>2, <1>3 DEF ActionSame, Asked
<1>5. UNCHANGED <<main, currentStream, command, client, lastAction, streams, layered>>
  BY DEF ActionReuses, Go!Reuse, Go!goVars, Go!netVars
<1>6. command[client] = Go!Service(a)
  BY <1>1, ServiceOfListing DEF IInv, SshInv, Session, Actions, Go!Actions
<1>7. a \notin Listings
  BY <1>1 DEF Natural, Listings
<1> QED BY <1>1, <1>4, <1>5, <1>6, <1>7 DEF IInv, Joined

\* A connection that is made is what libgit2 holds from now on.
LEMMA ConnectsJoined ==
  ASSUME IInv, ActionConnects
  PROVE  Joined' /\ streams' \in 0..conns'
<1>1. ActionNew(asked, streams + 1)
  BY ConnectFacts DEF ActionConnects, Gives, ActionSame, IsCurrent
<1>2. /\ made' = made + 1 /\ given' = streams + 1 /\ last' = asked /\ closed' = FALSE
      /\ streams' = streams + 1
  BY <1>1 DEF ActionNew, Asked, ActionConnects
<1>3. /\ main' = "idle" /\ currentStream' = TRUE /\ lastAction' = asked
      /\ client' = conns + 1 /\ conns' = conns + 1
      /\ command' = [command EXCEPT ![conns + 1] = Go!Service(asked)]
      /\ conns + 1 \in Go!Conns
  BY ConnsAssumption DEF ActionConnects, Go!Connect, Go!Dial, IInv, SshInv,
     Go!TypeOK, Go!Conns
<1>4. command'[client'] = Go!Service(asked)
  BY <1>3 DEF IInv, SshInv, Go!TypeOK
<1>5. streams' \in 0..conns'
  BY <1>2, <1>3 DEF IInv, SshInv, Go!TypeOK
<1> QED BY <1>2, <1>3, <1>4, <1>5, ConnectFacts DEF Joined

\* The layer and ssh.go stay in step.
LEMMA NextJoined == IInv /\ [ManagedNext]_allVars => Joined' /\ streams' \in 0..conns'
<1> SUFFICES ASSUME IInv, [ManagedNext]_allVars PROVE Joined' /\ streams' \in 0..conns'
  OBVIOUS
<1>0. streams \in 0..conns /\ Joined
  BY DEF IInv
<1>1. CASE UNCHANGED allVars
  BY <1>0, <1>1 DEF allVars, vars, goVars, gitVars, sshVars, Joined, LayeredSsh
<1>2. ASSUME NEW ok \in BOOLEAN, SetsUp(ok) PROVE Joined' /\ streams' \in 0..conns'
  BY <1>0, <1>2 DEF SetsUp, Setup, goVars, gitVars, sshVars, Joined
<1>3. ASSUME NEW a \in Actions, ActionReuses(a) PROVE Joined' /\ streams' \in 0..conns'
  BY <1>0, <1>3, ReusesJoined DEF ActionReuses, Go!Reuse, Go!netVars
<1>4. ASSUME NEW a \in Actions, ActionBegins(a) PROVE Joined' /\ streams' \in 0..conns'
  <2>1. closed /\ held = 0 /\ streams = made
    BY <1>0, <1>4, BeginFacts DEF ActionBegins, Joined
  <2>2. currentStream' = FALSE /\ conns' = conns
    BY <1>4 DEF ActionBegins, Go!Begin, Go!Replace, Go!BeginClose, Go!goVars,
       Go!netVars
  <2> QED BY <1>0, <1>4, <2>1, <2>2 DEF ActionBegins, vars, goVars, gitVars,
             Joined
<1>5. CASE ActionGivesUp
  <2>1. main = "connecting" /\ main' = "idle" /\ currentStream' = currentStream
    BY <1>5 DEF ActionGivesUp, Go!NoConnection, Go!Unfinished, Go!Dial
  <2>2. closed /\ held = 0 /\ streams = made
    BY <1>0, <1>5, <2>1 DEF ActionGivesUp, Joined
  <2>3. closed' = FALSE /\ held' = 0 /\ made' = made /\ streams' = streams
    BY <1>5, <2>2 DEF ActionGivesUp, ActionFails, goVars
  <2>4. conns' \in {conns, conns + 1}
    BY <1>5 DEF ActionGivesUp, Go!NoConnection, Go!Unfinished, Go!Dial,
       Go!netVars
  <2> QED BY <2>1, <2>2, <2>3, <2>4 DEF Joined, IInv, SshInv, Go!TypeOK
<1>6. CASE ActionConnects
  BY <1>6, ConnectsJoined
<1>7. CASE CloseBegins
  <2>1. /\ LayeredSsh /\ held = 0 /\ currentStream' = FALSE /\ conns' = conns
        /\ streams' = streams /\ main' \in {"idle", "crashed", "closing"}
    BY <1>7 DEF CloseBegins, Go!Close, Go!BeginClose
  <2>2. held' = 0 /\ made' = made
    BY <1>7 DEF CloseBegins, Close, vars, goVars, gitVars
  <2> QED BY <1>0, <2>1, <2>2 DEF Joined
<1>8. CASE CloseEnds
  <2>1. /\ LayeredSsh /\ main \in {"closing", "reconnecting"} /\ conns' = conns
        /\ currentStream' = currentStream /\ streams' = streams
        /\ main' = IF main = "closing" THEN "idle" ELSE "connecting"
    BY <1>8 DEF CloseEnds, Go!Waited, Go!netVars
  <2>2. held = 0 /\ ~currentStream
    BY <2>1 DEF Joined, IInv, SshInv, Session
  <2>3. held' = 0 /\ made' = made /\ (main = "reconnecting" => closed' = closed)
    BY <1>8, <2>2 DEF CloseEnds, Close, vars, goVars, gitVars
  <2> QED BY <1>0, <2>1, <2>2, <2>3 DEF Joined
<1>9. CASE Reads \/ \E c \in Go!Conns : Commands(c)
  BY <1>0, <1>9 DEF Reads, Commands, Go!Read, Go!Send, Go!End, Go!goVars, vars,
     goVars, gitVars, Joined, LayeredSsh
<1>10. CASE StreamFree
  BY <1>0, <1>10 DEF StreamFree, FreeStream, sshVars, Joined
<1>11. CASE Frees
  BY <1>0, <1>11 DEF Frees, Free, Go!Free, Go!goVars, Go!netVars, goVars,
     gitVars, Joined
<1>12. CASE OtherKinds
  <2>1. kind' = kind /\ kind # SshKind /\ streams' = streams /\ conns' = conns
    BY <1>12 DEF OtherKinds, sshVars, Next, Setup, ActionFails, ActionNew,
       ActionSame, FreeStream, Close, Free
  <2> QED BY <1>0, <2>1 DEF Joined, LayeredSsh
<1>13. CASE Alone \/ AloneWaits
  <2>1. ~layered' /\ streams' = streams
    BY <1>13 DEF Alone, AloneWaits
  <2>2. conns' \in {conns, conns + 1}
    BY <1>13 DEF Alone, AloneWaits, Go!Calls, Go!Reuse, Go!Replace, Go!Begin,
       Go!NoConnection, Go!Unfinished, Go!Connect, Go!Dial, Go!Close,
       Go!BeginClose, Go!Free, Go!Read, Go!Waited, Go!netVars
  <2> QED BY <2>1, <2>2 DEF Joined, LayeredSsh, IInv, SshInv, Go!TypeOK
<1> QED BY <1>1, <1>2, <1>3, <1>4, <1>5, <1>6, <1>7, <1>8, <1>9, <1>10, <1>11,
           <1>12, <1>13 DEF ManagedNext

-----------------------------------------------------------------------------
\* The parts of the invariant hold in the initial states.
LEMMA InitIInv == ManagedInit => IInv
BY LayerInit, SshInit DEF ManagedInit, Init, Go!Init, IInv, Joined

\* Every step preserves the invariant.
LEMMA NextIInv == IInv /\ [ManagedNext]_allVars => IInv'
<1> SUFFICES ASSUME IInv, [ManagedNext]_allVars PROVE IInv'
  OBVIOUS
<1>1. LayerInv' /\ SshInv' /\ Joined' /\ streams' \in 0..conns'
  BY Simulates, NextLayer, StepsSsh, NextSsh, NextJoined DEF IInv
<1>2. layered' = layered
  BY DEF ManagedNext, allVars, SetsUp, ActionReuses, ActionBegins,
     ActionGivesUp, ActionConnects, CloseBegins, CloseEnds, Reads, StreamFree,
     Frees, OtherKinds, Alone, AloneWaits, Commands
<1>3. kind' = kind
  BY Simulates DEF vars, Next, Setup, ActionFails, ActionNew, ActionSame,
     FreeStream, Close, Free
<1> QED BY <1>1, <1>2, <1>3 DEF IInv

\* The inductive invariant holds in every state that libgit2, the layer and
\* ssh.go reach.
THEOREM Invariance == ManagedSpec => []IInv
BY InitIInv, NextIInv, PTL DEF ManagedSpec

\* The layer with ssh.go under it behaves as Subtransport says a managed
\* subtransport does.
THEOREM Implementation == ManagedSpec => ImplementsSubtransport
<1>1. ManagedInit => Init
  BY DEF ManagedInit
<1> QED BY <1>1, Invariance, Simulates, PTL DEF ManagedSpec, Spec, ImplementsSubtransport

\* The variables keep their types.
THEOREM TypeCorrect == ManagedSpec => []ManagedTypeOK
<1>1. IInv => ManagedTypeOK
  BY DEF IInv, LayerInv, SshInv, ManagedTypeOK
<1> QED BY <1>1, Invariance, PTL

\* Each Go stream is freed once for each of its C objects, which are all gone
\* when the subtransport is.
THEOREM StreamsAreFreedOnce == ManagedSpec => []FreedOnce
<1>1. IInv => FreedOnce
  BY DEF IInv, LayerInv
<1> QED BY <1>1, Invariance, PTL

\* What libgit2 holds between two calls is alive, and connected to the service
\* that it asked for.
THEOREM HeldIsUsable == ManagedSpec => []HeldIsConnected
<1>1. ASSUME IInv PROVE HeldIsConnected
  <2>1. HeldIsGiven
    BY <1>1 DEF IInv, LayerInv
  <2>2. ASSUME layered, kind = SshKind, main = "idle", held # 0
        PROVE  /\ currentStream /\ given = streams
               /\ client # 0 /\ {session, stdin, stdout} = {client}
               /\ command[client] = Go!Service(last)
    <3>1. currentStream /\ given = streams /\ command[client] = Go!Service(last)
      BY <1>1, <2>2 DEF IInv, Joined, LayeredSsh
    <3>2. client # 0 /\ session = client /\ stdin = client /\ stdout = client
      BY <1>1, <3>1 DEF IInv, SshInv, Session
    <3> QED BY <3>1, <3>2
  <2> QED BY <2>1, <2>2 DEF HeldIsConnected
<1> QED BY <1>1, Invariance, PTL

\* Between two calls of ssh.go a stream is of one session, and without a stream
\* no command waits for input; whether the layer calls or somebody else.
THEOREM EverySessionEnds == ManagedSpec => []SessionsAreAccounted
<1>1. ASSUME IInv PROVE Go!SessionsAreAccounted
  BY <1>1 DEF IInv, SshInv, Session, Go!SessionsAreAccounted
<1> QED BY <1>1, Invariance, PTL DEF SessionsAreAccounted
=============================================================================
