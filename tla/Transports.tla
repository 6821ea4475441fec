----------------------------- MODULE Transports -----------------------------
(***************************************************************************)
(* The smart transports that Go code gives to libgit2 (transport.go), and  *)
(* Shutdown and ReInit (git.go).  libgit2 keeps for every protocol the     *)
(* handle of a RegisteredSmartTransport; the handle list resolves it when  *)
(* a remote connects, and then tracks the remote's own subtransport, which *)
(* libgit2 frees with the remote.  The transports that git2go registers by *)
(* itself stand in globalRegisteredSmartTransports until user code         *)
(* registers one for the same protocol.                                    *)
(*                                                                         *)
(* The handle list is the table that HandleTable specifies and HandleList  *)
(* implements: Track and Untrack are single steps here.  User code obeys   *)
(* the documentation: it frees each transport once, and all of them before *)
(* Shutdown (http.go:16), during which nothing else runs (git.go:173).     *)
(* libgit2 keeps a list of its own, which it does not lock; each call that *)
(* touches it is one step.                                                 *)
(***************************************************************************)
CONSTANTS Goroutines,
          Protocols,
          Managed,    \* the protocols git2go itself registers transports for
          Remotes,    \* git_remote objects
          Handles,    \* bound on the handles tracked at a time; they are reused
          None

ASSUME ManagedAssumption == Managed \subseteq Protocols

\* What a handle stands for: a RegisteredSmartTransport or a subtransport.
Entries == [kind : {"transport"}, of : Protocols] \cup [kind : {"managed"}, of : Remotes]

ASSUME NoneAssumption == None \notin Handles \cup Protocols \cup Remotes \cup Entries

VARIABLES
  handles,       \* pointerHandles: what each handle stands for
  cTransports,   \* libgit2's list: the handle registered for each protocol
  transports,    \* globalRegisteredSmartTransports.transports
  user,          \* the handles of the transports user code has to free
  remotes,       \* the remotes in remotePointers
  subtransport,  \* the handle of the subtransport that a remote has
  op,            \* what each goroutine is doing
  phase,         \* where Shutdown is, "running" outside of it
  panicked       \* the panic that ended the program

vars == <<handles, cTransports, transports, user, remotes, subtransport, op,
          phase, panicked>>

Ops == [pc : {"idle", "replace", "free", "untrackOld", "untrack", "track",
              "register", "undo", "get", "smart"},
        name : Protocols \cup {None},
        handle : Handles \cup {None},
        remote : Remotes \cup {None}]
Idle == [pc |-> "idle", name |-> None, handle |-> None, remote |-> None]

TypeOK ==
  /\ handles \in [Handles -> Entries \cup {None}]
  /\ cTransports \in [Protocols -> Handles \cup {None}]
  /\ transports \in [Protocols -> Handles \cup {None}]
  /\ user \subseteq Handles
  /\ remotes \subseteq Remotes
  /\ subtransport \in [Remotes -> Handles \cup {None}]
  /\ op \in [Goroutines -> Ops]
  /\ phase \in {"running", "unregister", "clear", "remotes", "init"}
  /\ panicked \in {"no", "connect", "shutdown", "init"}

Transport(p) == [kind |-> "transport", of |-> p]
Tracked == {h \in Handles : handles[h] # None}

\* Before initLibGit2, which init() runs.
Init ==
  /\ handles = [h \in Handles |-> None]
  /\ cTransports = [p \in Protocols |-> None]
  /\ transports = [p \in Protocols |-> None]
  /\ user = {} /\ remotes = {}
  /\ subtransport = [r \in Remotes |-> None]
  /\ op = [g \in Goroutines |-> Idle]
  /\ phase = "init" /\ panicked = "no"

\* g is at the given place of its operation, and the program runs.
At(g, place) == op[g].pc = place /\ phase = "running" /\ panicked = "no"
Goto(g, place) == op' = [op EXCEPT ![g].pc = place]
Done(g) == op' = [op EXCEPT ![g] = Idle]
Untrack(h) == handles' = [handles EXCEPT ![h] = None]

-----------------------------------------------------------------------------
(***************************************************************************)
(* NewRegisteredSmartTransport and Free                                    *)
(***************************************************************************)

\* Mutant: the transport of the library is looked up and left in the map.
NewKeepsEntry(g, p) ==
  /\ At(g, "idle")
  /\ op' = [op EXCEPT ![g] = [Idle EXCEPT
       !.name = p, !.handle = transports[p],
       !.pc = IF transports[p] # None THEN "replace" ELSE "track"]]
  /\ UNCHANGED <<handles, cTransports, transports, user, remotes, subtransport,
                 phase, panicked>>

\* Under the lock: take the library's own transport for p out of the map.
New(g, p) ==
  /\ At(g, "idle")
  /\ op' = [op EXCEPT ![g] = [Idle EXCEPT
       !.name = p, !.handle = transports[p],
       !.pc = IF transports[p] # None THEN "replace" ELSE "track"]]
  /\ transports' = [transports EXCEPT ![p] = None]
  /\ UNCHANGED <<handles, cTransports, user, remotes, subtransport, phase, panicked>>

\* User code frees its transport.
Free(g, h) ==
  /\ At(g, "idle") /\ h \in user
  /\ user' = user \ {h}
  /\ op' = [op EXCEPT ![g] = [Idle EXCEPT !.pc = "free", !.name = handles[h].of,
                                         !.handle = h]]
  /\ UNCHANGED <<handles, cTransports, transports, remotes, subtransport, phase, panicked>>

\* Mutant: Free untracks the handle while libgit2 still has it.
UnregisterAfterUntrack(g) ==
  /\ At(g, "replace") \/ At(g, "free")
  /\ Untrack(op[g].handle)
  /\ Goto(g, IF op[g].pc = "replace" THEN "untrackOld" ELSE "untrack")
  /\ UNCHANGED <<cTransports, transports, user, remotes, subtransport, phase, panicked>>

\* git_transport_unregister, the first half of Free.  If there is nothing to
\* unregister, Free returns an error, and so does New when it has called Free.
Unregister(g) ==
  /\ At(g, "replace") \/ At(g, "free")
  /\ cTransports' = [cTransports EXCEPT ![op[g].name] = None]
  /\ IF cTransports[op[g].name] = None
       THEN Done(g)
       ELSE Goto(g, IF op[g].pc = "replace" THEN "untrackOld" ELSE "untrack")
  /\ UNCHANGED <<handles, transports, user, remotes, subtransport, phase, panicked>>

\* pointerHandles.Untrack, the second half.
UntrackHandle(g) ==
  /\ At(g, "untrackOld") \/ At(g, "untrack")
  /\ Untrack(op[g].handle)
  /\ IF op[g].pc = "untrackOld" THEN Goto(g, "track") ELSE Done(g)
  /\ UNCHANGED <<cTransports, transports, user, remotes, subtransport, phase, panicked>>

\* Mutant: the transport does not get its name.
TrackNameless(g, h) ==
  /\ At(g, "track") /\ handles[h] = None
  /\ handles' = [handles EXCEPT ![h] = Transport(None)]
  /\ op' = [op EXCEPT ![g].pc = "register", ![g].handle = h]
  /\ UNCHANGED <<cTransports, transports, user, remotes, subtransport, phase, panicked>>

Track(g, h) ==
  /\ At(g, "track") /\ handles[h] = None
  /\ handles' = [handles EXCEPT ![h] = Transport(op[g].name)]
  /\ op' = [op EXCEPT ![g].pc = "register", ![g].handle = h]
  /\ UNCHANGED <<cTransports, transports, user, remotes, subtransport, phase, panicked>>

\* git_transport_register, which fails if the protocol has a transport, and
\* may fail otherwise.
Register(g) ==
  /\ At(g, "register") /\ cTransports[op[g].name] = None
  /\ cTransports' = [cTransports EXCEPT ![op[g].name] = op[g].handle]
  /\ user' = user \cup {op[g].handle}
  /\ Done(g)
  /\ UNCHANGED <<handles, transports, remotes, subtransport, phase, panicked>>

RegisterFails(g) ==
  /\ At(g, "register")
  /\ Goto(g, "undo")
  /\ UNCHANGED <<handles, cTransports, transports, user, remotes, subtransport,
                 phase, panicked>>

\* Mutant: a registration that fails leaves its handle behind.
UndoNothing(g) ==
  /\ At(g, "undo")
  /\ Done(g)
  /\ UNCHANGED <<handles, cTransports, transports, user, remotes, subtransport,
                 phase, panicked>>

Undo(g) ==
  /\ At(g, "undo")
  /\ Untrack(op[g].handle) /\ Done(g)
  /\ UNCHANGED <<cTransports, transports, user, remotes, subtransport, phase, panicked>>

-----------------------------------------------------------------------------
(***************************************************************************)
(* Remotes that connect                                                    *)
(***************************************************************************)
CreateRemote(r) ==
  /\ phase = "running" /\ panicked = "no" /\ r \notin remotes
  /\ remotes' = remotes \cup {r}
  /\ UNCHANGED <<handles, cTransports, transports, user, subtransport, op, phase, panicked>>

InUse(r) == \E g \in Goroutines : op[g].remote = r

\* git_remote_connect looks the transport for the URL up.
Connect(g, r, p) ==
  /\ At(g, "idle") /\ r \in remotes /\ subtransport[r] = None /\ ~InUse(r)
  /\ cTransports[p] # None
  /\ op' = [op EXCEPT ![g] = [pc |-> "get", name |-> p, handle |-> cTransports[p],
                              remote |-> r]]
  /\ UNCHANGED <<handles, cTransports, transports, user, remotes, subtransport,
                 phase, panicked>>

\* smartTransportCallback resolves the handle and tracks a new subtransport.
SmartTransport(g, h) ==
  /\ At(g, "get") /\ handles[h] = None
  /\ IF handles[op[g].handle] \in [kind : {"transport"}, of : Protocols]
       THEN /\ handles' = [handles EXCEPT ![h] = [kind |-> "managed", of |-> op[g].remote]]
            /\ op' = [op EXCEPT ![g].pc = "smart", ![g].handle = h]
            /\ UNCHANGED panicked
       ELSE panicked' = "connect" /\ UNCHANGED <<handles, op>>
  /\ UNCHANGED <<cTransports, transports, user, remotes, subtransport, phase>>

\* _go_git_transport_smart makes the transport, or the factory fails.
SmartCreated(g) ==
  /\ At(g, "smart")
  /\ subtransport' = [subtransport EXCEPT ![op[g].remote] = op[g].handle]
  /\ Done(g)
  /\ UNCHANGED <<handles, cTransports, transports, user, remotes, phase, panicked>>

SmartFailed(g) ==
  /\ At(g, "smart")
  /\ Untrack(op[g].handle) /\ Done(g)
  /\ UNCHANGED <<cTransports, transports, user, remotes, subtransport, phase, panicked>>

\* git_remote_free, and with it smartSubtransportFreeCallback.
FreeSubtransport(r) ==
  /\ handles' = IF subtransport[r] = None THEN handles
                ELSE [handles EXCEPT ![subtransport[r]] = None]
  /\ subtransport' = [subtransport EXCEPT ![r] = None]
  /\ remotes' = remotes \ {r}

FreeRemote(r) ==
  /\ phase = "running" /\ panicked = "no" /\ r \in remotes /\ ~InUse(r)
  /\ FreeSubtransport(r)
  /\ UNCHANGED <<cTransports, transports, user, op, phase, panicked>>

-----------------------------------------------------------------------------
(***************************************************************************)
(* Shutdown and ReInit                                                     *)
(***************************************************************************)
Shutting(place) == phase = place /\ panicked = "no"

Shutdown ==
  /\ Shutting("running") /\ user = {} /\ \A g \in Goroutines : op[g] = Idle
  /\ phase' = "unregister"
  /\ UNCHANGED <<handles, cTransports, transports, user, remotes, subtransport, op, panicked>>

\* unregisterManagedTransports, one transport of the map at a time.
UnregisterManaged(p) ==
  /\ Shutting("unregister") /\ transports[p] # None
  /\ transports' = [transports EXCEPT ![p] = None]
  /\ cTransports' = [cTransports EXCEPT ![p] = None]
  /\ IF cTransports[p] = None
       THEN panicked' = "shutdown" /\ UNCHANGED handles
       ELSE Untrack(transports[p]) /\ UNCHANGED panicked
  /\ UNCHANGED <<user, remotes, subtransport, op, phase>>

UnregisteredAll ==
  /\ Shutting("unregister") /\ \A p \in Protocols : transports[p] = None
  /\ phase' = "clear"
  /\ UNCHANGED <<handles, cTransports, transports, user, remotes, subtransport, op, panicked>>

\* pointerHandles.Clear()
ClearHandles ==
  /\ Shutting("clear")
  /\ handles' = [h \in Handles |-> None]
  /\ phase' = "remotes"
  /\ UNCHANGED <<cTransports, transports, user, remotes, subtransport, op, panicked>>

\* remotePointers.clear() frees every remote, and libgit2 its subtransport,
\* for which it calls back with the handle: Get panics if it is not tracked.
ClearRemote(r) ==
  /\ Shutting("remotes") /\ r \in remotes
  /\ IF subtransport[r] # None /\ handles[subtransport[r]] = None
       THEN panicked' = "shutdown" /\ UNCHANGED <<handles, subtransport, remotes>>
       ELSE FreeSubtransport(r) /\ UNCHANGED panicked
  /\ UNCHANGED <<cTransports, transports, user, op, phase>>

\* git_libgit2_shutdown, and git_libgit2_init if it is a ReInit.
LibraryRestarts ==
  /\ Shutting("remotes") /\ remotes = {}
  /\ cTransports' = [p \in Protocols |-> None]
  /\ phase' = "init"
  /\ UNCHANGED <<handles, transports, user, remotes, subtransport, op, panicked>>

\* registerManagedHTTP and registerManagedSSH, of what libgit2 lacks.
RegisterManaged(p, h) ==
  /\ Shutting("init") /\ p \in Managed /\ transports[p] = None /\ handles[h] = None
  /\ cTransports[p] = None
  /\ handles' = [handles EXCEPT ![h] = Transport(p)]
  /\ cTransports' = [cTransports EXCEPT ![p] = h]
  /\ transports' = [transports EXCEPT ![p] = h]
  /\ UNCHANGED <<user, remotes, subtransport, op, phase, panicked>>

\* A registration fails: its handle is untracked, and initLibGit2 panics.
RegisterManagedFails(p) ==
  /\ Shutting("init") /\ p \in Managed /\ transports[p] = None
  /\ panicked' = "init"
  /\ UNCHANGED <<handles, cTransports, transports, user, remotes, subtransport, op, phase>>

Running ==
  /\ Shutting("init") /\ \A p \in Managed : transports[p] # None
  /\ phase' = "running"
  /\ UNCHANGED <<handles, cTransports, transports, user, remotes, subtransport, op, panicked>>

Next ==
  \/ \E g \in Goroutines :
       \/ \E p \in Protocols : New(g, p)
       \/ \E r \in Remotes, p \in Protocols : Connect(g, r, p)
       \/ \E h \in Handles : Free(g, h) \/ Track(g, h) \/ SmartTransport(g, h)
       \/ Unregister(g) \/ UntrackHandle(g) \/ Register(g)
       \/ RegisterFails(g) \/ Undo(g)
       \/ SmartCreated(g) \/ SmartFailed(g)
  \/ \E r \in Remotes : CreateRemote(r) \/ FreeRemote(r) \/ ClearRemote(r)
  \/ \E p \in Protocols :
       \/ UnregisterManaged(p) \/ RegisterManagedFails(p)
       \/ \E h \in Handles : RegisterManaged(p, h)
  \/ Shutdown \/ UnregisteredAll \/ ClearHandles \/ LibraryRestarts \/ Running

Spec == Init /\ [][Next]_vars

-----------------------------------------------------------------------------
(***************************************************************************)
(* Properties                                                              *)
(***************************************************************************)

\* What libgit2 has for a protocol is always the tracked handle of a
\* transport of that protocol, in the middle of a registration, of Free and
\* of Shutdown too.
RegistryResolves == \A p \in Protocols :
  cTransports[p] # None => handles[cTransports[p]] = Transport(p)

\* A transport that user code registered stays registered until it is freed,
\* whoever registers or replaces transports of that protocol meanwhile
\* (transport.go:240: "The user is now responsible for this transport for the
\* lifetime of the library").
UserKeepsTransport == \A h \in user :
  \E p \in Protocols : cTransports[p] = h /\ handles[h] = Transport(p)

\* Every handle that is tracked has an owner that will untrack it: libgit2's
\* list, a remote, or an operation that has not ended.
NothingLeaks ==
  Tracked \subseteq {cTransports[p] : p \in Protocols}
                      \cup {subtransport[r] : r \in Remotes}
                      \cup {op[g].handle : g \in Goroutines}

\* git.go:189: ReInit "frees any references to objects".  So it gets to its
\* end when there are such references, as the remotes that remotePointers has.
ShutdownCompletes == panicked # "shutdown"
=============================================================================
