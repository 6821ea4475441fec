-------------------------------- MODULE Ssh --------------------------------
(***************************************************************************)
(* The managed SSH transport (ssh.go): the subtransport that libgit2's     *)
(* smart transport drives with Action, Close and Free, from one thread,    *)
(* and the connections it makes.  libgit2 promises more than the module    *)
(* needs (transport.go:187): here it calls Action and Close in any order.  *)
(*                                                                         *)
(* golang.org/x/crypto/ssh, and the git command at the other end, are the  *)
(* environment.  A command sends its output through a window that is given *)
(* back as stdout is read; it ends when its input is closed and all of its *)
(* output is in the window.                                                *)
(***************************************************************************)
EXTENDS Naturals

CONSTANTS MaxConns,   \* bound on the connections made
          MaxOutput,  \* bound on what a command sends
          Window      \* how much of it may wait to be read

\* SmartServiceAction
Actions == {"UploadpackLs", "Uploadpack", "ReceivepackLs", "Receivepack"}
Services == {"git-upload-pack", "git-receive-pack"}
Conns == 1..MaxConns

VARIABLES
  client, session, stdin, stdout,  \* the connection each of them is of, 0 for nil
  currentStream,  \* whether there is a stream
  lastAction,     \* "none" before the first
  main,           \* what libgit2's thread does
  asked,          \* the last action that was asked for
  made,           \* how many connections were made
  open,           \* the connections that are open
  command,        \* the service that each connection's command is for
  input,          \* the commands whose standard input is open
  running,        \* the commands that run
  unsent, unread  \* their output: to be sent, and in the window

goVars == <<client, session, stdin, stdout, currentStream, lastAction>>
netVars == <<made, open, command, input, running, unsent, unread>>
vars == <<goVars, netVars, main, asked>>

TypeOK ==
  /\ {client, session, stdin, stdout} \subseteq 0..MaxConns
  /\ currentStream \in BOOLEAN
  /\ lastAction \in Actions \cup {"none"}
  /\ main \in {"idle", "reconnecting", "connecting", "closing", "freed", "crashed"}
  /\ asked \in Actions \cup {"none"}
  /\ made \in 0..MaxConns /\ open \subseteq Conns
  /\ command \in [Conns -> Services \cup {"none"}]
  /\ input \subseteq Conns /\ running \subseteq Conns
  /\ unsent \in [Conns -> 0..MaxOutput] /\ unread \in [Conns -> 0..Window]

Init ==
  /\ client = 0 /\ session = 0 /\ stdin = 0 /\ stdout = 0
  /\ currentStream = FALSE /\ lastAction = "none"
  /\ main = "idle" /\ asked = "none"
  /\ made = 0 /\ open = {} /\ command = [c \in Conns |-> "none"]
  /\ input = {} /\ running = {}
  /\ unsent = [c \in Conns |-> 0] /\ unread = [c \in Conns |-> 0]

-----------------------------------------------------------------------------
Service(a) == IF a \in {"UploadpackLs", "Uploadpack"} THEN "git-upload-pack"
                                                      ELSE "git-receive-pack"
LsOf(a) == IF Service(a) = "git-upload-pack" THEN "UploadpackLs" ELSE "ReceivepackLs"

\* Mutant: any stream there is will do.
ReuseAny(a) ==
  /\ main = "idle" /\ currentStream
  /\ asked' = a
  /\ UNCHANGED <<goVars, netVars, main>>

\* Action finds the stream that the listing of the same service made.
Reuse(a) ==
  /\ main = "idle" /\ currentStream /\ lastAction = LsOf(a)
  /\ asked' = a
  /\ UNCHANGED <<goVars, netVars, main>>

\* Mutant: the input of the command is not closed.
BeginCloseNoInput(next) ==
  /\ currentStream' = FALSE
  /\ IF client = 0 THEN UNCHANGED main
     ELSE IF stdin = 0 \/ session = 0 THEN main' = "crashed"
     ELSE main' = next
  /\ UNCHANGED <<client, session, stdin, stdout, lastAction, netVars>>

\* Close forgets the stream and, if there is a client, closes the input of
\* the command, to wait for its end.  Both may be nil pointers.
BeginClose(next) ==
  /\ currentStream' = FALSE
  /\ IF client = 0 THEN UNCHANGED <<main, input>>
     ELSE IF stdin = 0 \/ session = 0 THEN main' = "crashed" /\ UNCHANGED input
     ELSE main' = next /\ input' = input \ {stdin}
  /\ UNCHANGED <<client, session, stdin, stdout, lastAction,
                 made, open, command, running, unsent, unread>>

\* Mutant: the stream that will not do is not closed.
ReplaceNoClose(a) ==
  /\ main = "idle" /\ currentStream /\ lastAction # LsOf(a)
  /\ asked' = a /\ main' = "connecting" /\ currentStream' = FALSE
  /\ UNCHANGED <<client, session, stdin, stdout, lastAction, netVars>>

\* Action closes a stream that will not do.
Replace(a) ==
  /\ main = "idle" /\ currentStream /\ lastAction # LsOf(a)
  /\ asked' = a
  /\ BeginClose("reconnecting")

\* Mutant: the service is noted for the action.
BeginService(a) ==
  /\ main = "idle" /\ ~currentStream
  /\ asked' = Service(a) /\ main' = "connecting"
  /\ UNCHANGED <<goVars, netVars>>

\* Action finds no stream.
Begin(a) ==
  /\ main = "idle" /\ ~currentStream
  /\ asked' = a /\ main' = "connecting"
  /\ UNCHANGED <<goVars, netVars>>

\* SmartCredentials, the configuration or ssh.Dial fails.  The client is
\* assigned by Dial only, and is nil then.
NoConnection ==
  /\ main = "connecting" /\ main' = "idle"
  /\ client' \in {client, 0}
  /\ UNCHANGED <<session, stdin, stdout, currentStream, lastAction, netVars, asked>>

\* ssh.Dial: a new connection.
Dial == /\ main = "connecting" /\ main' = "idle" /\ made < MaxConns
        /\ made' = made + 1 /\ open' = open \cup {made + 1}
        /\ client' = made + 1

\* NewSession, StdinPipe, StdoutPipe or Start fails, and Action returns its
\* error: what was assigned stays, what failed is nil.
Unfinished(failing) ==
  /\ Dial
  /\ session' = IF failing = "NewSession" THEN 0 ELSE made + 1
  /\ stdin' = CASE failing = "NewSession" -> stdin
                [] failing = "StdinPipe" -> 0
                [] OTHER -> made + 1
  /\ stdout' = CASE failing \in {"NewSession", "StdinPipe"} -> stdout
                 [] failing = "StdoutPipe" -> 0
                 [] OTHER -> made + 1
  /\ UNCHANGED <<currentStream, lastAction, command, input, running, unsent, unread, asked>>

\* Mutant: the action is not noted.
ConnectUnnoted(output) ==
  /\ Dial
  /\ session' = made + 1 /\ stdin' = made + 1 /\ stdout' = made + 1
  /\ currentStream' = TRUE
  /\ command' = [command EXCEPT ![made + 1] = Service(asked)]
  /\ input' = input \cup {made + 1} /\ running' = running \cup {made + 1}
  /\ unsent' = [unsent EXCEPT ![made + 1] = output]
  /\ UNCHANGED <<lastAction, unread, asked>>

\* Mutant: an output there was is kept.
ConnectOldOutput(output) ==
  /\ Dial
  /\ session' = made + 1 /\ stdin' = made + 1
  /\ stdout' = IF stdout = 0 THEN made + 1 ELSE stdout
  /\ currentStream' = TRUE /\ lastAction' = asked
  /\ command' = [command EXCEPT ![made + 1] = Service(asked)]
  /\ input' = input \cup {made + 1} /\ running' = running \cup {made + 1}
  /\ unsent' = [unsent EXCEPT ![made + 1] = output]
  /\ UNCHANGED <<unread, asked>>

\* All goes well: the command runs, and will send as much as it likes.
Connect(output) ==
  /\ Dial
  /\ session' = made + 1 /\ stdin' = made + 1 /\ stdout' = made + 1
  /\ currentStream' = TRUE /\ lastAction' = asked
  /\ command' = [command EXCEPT ![made + 1] = Service(asked)]
  /\ input' = input \cup {made + 1} /\ running' = running \cup {made + 1}
  /\ unsent' = [unsent EXCEPT ![made + 1] = output]
  /\ UNCHANGED <<unread, asked>>

-----------------------------------------------------------------------------
Close ==
  /\ main = "idle" /\ UNCHANGED asked
  /\ BeginClose("closing")

\* session.Wait() returns, at once if the command was never started; the
\* session is closed, and the client is set to nil and not closed.
Waited ==
  /\ main \in {"closing", "reconnecting"} /\ session \notin running
  /\ client' = 0
  /\ main' = IF main = "closing" THEN "idle" ELSE "connecting"
  /\ UNCHANGED <<session, stdin, stdout, currentStream, lastAction, netVars, asked>>

\* Free, which libgit2 calls after Close, does nothing.
Free ==
  /\ main = "idle" /\ client = 0
  /\ main' = "freed"
  /\ UNCHANGED <<goVars, netVars, asked>>

\* The stream's Read.
Read ==
  /\ main = "idle" /\ currentStream /\ unread[stdout] > 0
  /\ unread' = [unread EXCEPT ![stdout] = @ - 1]
  /\ UNCHANGED <<goVars, main, asked, made, open, command, input, running, unsent>>

-----------------------------------------------------------------------------
\* A command sends some output, or ends.
Send(c) ==
  /\ c \in running /\ unsent[c] > 0 /\ unread[c] < Window
  /\ unsent' = [unsent EXCEPT ![c] = @ - 1] /\ unread' = [unread EXCEPT ![c] = @ + 1]
  /\ UNCHANGED <<goVars, main, asked, made, open, command, input, running>>

End(c) ==
  /\ c \in running /\ unsent[c] = 0 /\ c \notin input
  /\ running' = running \ {c}
  /\ UNCHANGED <<goVars, main, asked, made, open, command, input, unsent, unread>>

Failing == {"NewSession", "StdinPipe", "StdoutPipe", "Start"}

\* What libgit2's thread does next in ssh.go, but for the wait of Close.
Calls ==
  \/ \E a \in Actions : Reuse(a) \/ Replace(a) \/ Begin(a)
  \/ NoConnection
  \/ \E failing \in Failing : Unfinished(failing)
  \/ \E output \in 0..MaxOutput : Connect(output)
  \/ Close \/ Free \/ Read

Next == Calls \/ Waited \/ \E c \in Conns : Send(c) \/ End(c)

Spec == Init /\ [][Next]_vars

-----------------------------------------------------------------------------
(***************************************************************************)
(* Properties                                                              *)
(***************************************************************************)

\* A stream reads from and writes to one session, that of the client which
\* Close will end, whatever was left over from the Actions before it, and its
\* command serves the action that was asked for last.  And no command has
\* input left that nobody can close: without a stream every command has been
\* told to end, also one that an Action left for another.
SessionsAreAccounted == main = "idle" =>
  IF currentStream
  THEN /\ client # 0 /\ {session, stdin, stdout} = {client}
       /\ command[client] = Service(asked)
  ELSE input = {}

\* Close, and the Action that calls it, do not wait forever, if the output of
\* a command fits in the window.
CloseReturns == main \in {"closing", "reconnecting"} ~> main \in {"idle", "connecting"}

=============================================================================
