------------------------------ MODULE Remotes ------------------------------
(***************************************************************************)
(* Who owns a git_remote (remote.go, with Repository.Free and the remote   *)
(* callback of Clone).  A *Remote is entered in the map of its             *)
(* RemoteCollection and in remotePointers, through which a transport finds *)
(* the *Remote of the git_remote that connects.  It is freed by user code  *)
(* or by its finalizer, in the garbage collector's own goroutine; C uses   *)
(* the addresses of freed remotes again.  A remote that connects through a *)
(* managed transport gets a subtransport that refers to the *Remote.       *)
(*                                                                         *)
(* Each step is what a goroutine does under one lock, or one call of C.    *)
(* User code frees a remote at most once, and neither creates nor frees    *)
(* remotes of a repository while it frees it.  (A remote that another      *)
(* goroutine freed would be untracked by an address that is nil, or used   *)
(* again: remote.go:790.)  The weak remotes of transport.go are in no map. *)
(***************************************************************************)
EXTENDS Naturals

CONSTANTS Goroutines,
          GC,          \* the goroutine that runs finalizers
          Repos,
          Ptrs,        \* addresses of git_remotes: bound on those alive
          MaxRemotes,  \* bound on the *Remotes made
          None

ASSUME BoundAssumption == MaxRemotes \in Nat
ASSUME NoneAssumption == None \notin Goroutines \cup Repos \cup Ptrs \cup Nat
ASSUME GCAssumption == GC \notin Goroutines

Objects == 1..MaxRemotes
Threads == Goroutines \cup {GC}

VARIABLES
  live,       \* the git_remotes that are allocated
  byC,        \* those among them that C frees, handed over by Clone's callback
  subtransport, \* for each git_remote, the *Remote its subtransport refers to
  made,       \* how many *Remotes were made
  ptr, repo,  \* fields of a *Remote, None for nil
  finalizer,  \* the *Remotes with a finalizer
  held,       \* the *Remotes that user code refers to
  remotes,    \* the map of each RemoteCollection
  pointers,   \* remotePointers.pointers
  open,       \* the repositories that user code did not free
  op,         \* what each goroutine is doing
  badFree     \* git_remote_free was called on what is not allocated

cVars == <<live, byC, subtransport>>
vars == <<cVars, made, ptr, repo, finalizer, held, remotes, pointers, open,
          op, badFree>>

Ops == [pc : {"idle", "addRemote", "addPointer", "setFinalizer", "delRemote",
              "delPointer", "free", "clear", "untrackAll", "freeAll"},
        obj : Objects \cup {None},
        keep : BOOLEAN,            \* untrackRemote without the free
        todo : SUBSET Objects]
Creating == {"addRemote", "addPointer", "setFinalizer"}
Freeing == {"delRemote", "delPointer", "free", "clear"}
Idle == [pc |-> "idle", obj |-> None, keep |-> FALSE, todo |-> {}]

TypeOK ==
  /\ live \subseteq Ptrs /\ byC \subseteq Ptrs
  /\ subtransport \in [Ptrs -> Objects \cup {None}]
  /\ made \in 0..MaxRemotes
  /\ ptr \in [Objects -> Ptrs \cup {None}] /\ repo \in [Objects -> Repos \cup {None}]
  /\ finalizer \subseteq Objects /\ held \subseteq Objects
  /\ remotes \in [Repos -> [Ptrs -> Objects \cup {None}]]
  /\ pointers \in [Ptrs -> Objects \cup {None}]
  /\ open \subseteq Repos
  /\ op \in [Threads -> Ops]
  /\ badFree \in BOOLEAN

NoPtrs == [p \in Ptrs |-> None]

Init ==
  /\ live = {} /\ byC = {} /\ subtransport = NoPtrs /\ made = 0
  /\ ptr = [o \in Objects |-> None] /\ repo = [o \in Objects |-> None]
  /\ finalizer = {} /\ held = {}
  /\ remotes = [r \in Repos |-> NoPtrs] /\ pointers = NoPtrs
  /\ open = Repos
  /\ op = [t \in Threads |-> Idle]
  /\ badFree = FALSE

At(t, place) == op[t].pc = place
Goto(t, place) == op' = [op EXCEPT ![t].pc = place]
Obj(t) == op[t].obj

\* delete(m, p), of a map that may not have p, or of a nil p.
Without(m, p) == [q \in Ptrs |-> IF q = p THEN None ELSE m[q]]

-----------------------------------------------------------------------------
\* git_remote_create and its like: Create, CreateWithOptions,
\* CreateWithFetchspec, CreateAnonymous, Lookup.
Create(t, r, p) ==
  /\ At(t, "idle") /\ t # GC /\ r \in open /\ p \notin live /\ made < MaxRemotes
  /\ live' = live \cup {p} /\ made' = made + 1
  /\ ptr' = [ptr EXCEPT ![made + 1] = p] /\ repo' = [repo EXCEPT ![made + 1] = r]
  /\ op' = [op EXCEPT ![t] = [Idle EXCEPT !.pc = "addRemote", !.obj = made + 1]]
  /\ UNCHANGED <<byC, subtransport, finalizer, held, remotes, pointers, open, badFree>>

\* trackRemote: c.remotes[r.ptr] = r
AddRemote(t) ==
  /\ At(t, "addRemote")
  /\ remotes' = [remotes EXCEPT ![repo[Obj(t)]][ptr[Obj(t)]] = Obj(t)]
  /\ Goto(t, "addPointer")
  /\ UNCHANGED <<cVars, made, ptr, repo, finalizer, held, pointers, open,
                 badFree>>

\* Mutant: the remote is tracked by its collection only.
AddNoPointer(t) ==
  /\ At(t, "addPointer")
  /\ Goto(t, "setFinalizer")
  /\ UNCHANGED <<cVars, made, ptr, repo, finalizer, held, remotes, pointers, open,
                 badFree>>

\* remotePointers.track
AddPointer(t) ==
  /\ At(t, "addPointer")
  /\ pointers' = [pointers EXCEPT ![ptr[Obj(t)]] = Obj(t)]
  /\ Goto(t, "setFinalizer")
  /\ UNCHANGED <<cVars, made, ptr, repo, finalizer, held, remotes, open,
                 badFree>>

SetFinalizer(t) ==
  /\ At(t, "setFinalizer")
  /\ finalizer' = finalizer \cup {Obj(t)} /\ held' = held \cup {Obj(t)}
  /\ op' = [op EXCEPT ![t] = Idle]
  /\ UNCHANGED <<cVars, made, ptr, repo, remotes, pointers, open, badFree>>

-----------------------------------------------------------------------------
\* User code frees its remote, or only lets go of it.
Free(t, o) ==
  /\ At(t, "idle") /\ t # GC /\ o \in held
  /\ \A s \in Threads : o \notin op[s].todo
  /\ held' = held \ {o}
  /\ op' = [op EXCEPT ![t] = [Idle EXCEPT !.pc = "delRemote", !.obj = o]]
  /\ UNCHANGED <<cVars, made, ptr, repo, finalizer, remotes, pointers, open,
                 badFree>>

Drop(o) ==
  /\ o \in held
  /\ held' = held \ {o}
  /\ UNCHANGED <<cVars, made, ptr, repo, finalizer, remotes, pointers, open, op,
                 badFree>>

\* smartTransportCallback: the new subtransport refers to the *Remote that
\* remotePointers has for the git_remote, or else to a weak one.
Connect(t, o) ==
  /\ At(t, "idle") /\ t # GC /\ o \in held /\ repo[o] \in open
  /\ subtransport[ptr[o]] = None
  /\ subtransport' = [subtransport EXCEPT ![ptr[o]] = pointers[ptr[o]]]
  /\ UNCHANGED <<live, byC, made, ptr, repo, finalizer, held, remotes, pointers, open,
                 op, badFree>>

\* What keeps a *Remote: user code, a goroutine, both maps, and through the
\* handle list its subtransport.
Reachable(o) ==
  \/ o \in held
  \/ \E p \in Ptrs : o \in {pointers[p], subtransport[p]} \cup {remotes[r][p] : r \in open}
  \/ \E t \in Threads : o = op[t].obj \/ o \in op[t].todo

\* The collector takes the finalizer of a *Remote off and calls it.
Finalize(o) ==
  /\ At(GC, "idle") /\ o \in finalizer /\ ~Reachable(o)
  /\ finalizer' = finalizer \ {o}
  /\ op' = [op EXCEPT ![GC] = [Idle EXCEPT !.pc = "delRemote", !.obj = o]]
  /\ UNCHANGED <<cVars, made, ptr, repo, held, remotes, pointers, open,
                 badFree>>

\* untrackRemote: delete(c.remotes, r.ptr)
DelRemote(t) ==
  /\ At(t, "delRemote")
  /\ remotes' = [remotes EXCEPT ![repo[Obj(t)]] = Without(@, ptr[Obj(t)])]
  /\ Goto(t, "delPointer")
  /\ UNCHANGED <<cVars, made, ptr, repo, finalizer, held, pointers, open,
                 badFree>>

\* Mutant: the remote stays in remotePointers.
DelNoPointer(t) ==
  /\ At(t, "delPointer")
  /\ IF op[t].keep THEN op' = [op EXCEPT ![t] = Idle] ELSE Goto(t, "free")
  /\ UNCHANGED <<cVars, made, ptr, repo, finalizer, held, remotes, pointers, open,
                 badFree>>

\* Mutant: if !r.weak { return }
DelPointerReturns(t) ==
  /\ At(t, "delPointer")
  /\ pointers' = Without(pointers, ptr[Obj(t)])
  /\ op' = [op EXCEPT ![t] = Idle]
  /\ UNCHANGED <<cVars, made, ptr, repo, finalizer, held, remotes, open,
                 badFree>>

\* remotePointers.untrack
DelPointer(t) ==
  /\ At(t, "delPointer")
  /\ pointers' = Without(pointers, ptr[Obj(t)])
  /\ IF op[t].keep THEN op' = [op EXCEPT ![t] = Idle] ELSE Goto(t, "free")
  /\ UNCHANGED <<cVars, made, ptr, repo, finalizer, held, remotes, open,
                 badFree>>

\* git_remote_free, which frees the subtransport too.
CFrees(p) ==
  /\ live' = live \ {p} /\ badFree' = (badFree \/ p \notin live)
  /\ subtransport' = Without(subtransport, p)

\* free: the finalizer is taken off and git_remote_free called.
FreeRemote(t) ==
  /\ At(t, "free")
  /\ finalizer' = finalizer \ {Obj(t)}
  /\ CFrees(ptr[Obj(t)])
  /\ Goto(t, "clear")
  /\ UNCHANGED <<byC, made, ptr, repo, held, remotes, pointers, open>>

\* r.ptr = nil; r.repo = nil
ClearFields(t) ==
  /\ At(t, "clear")
  /\ ptr' = [ptr EXCEPT ![Obj(t)] = None] /\ repo' = [repo EXCEPT ![Obj(t)] = None]
  /\ op' = [op EXCEPT ![t] = Idle]
  /\ UNCHANGED <<cVars, made, finalizer, held, remotes, pointers, open,
                 badFree>>

-----------------------------------------------------------------------------
\* Mutant: nil entries are taken for remotes.
FreeRepoTakesNil(t, r) ==
  /\ At(t, "idle") /\ t # GC /\ r \in open
  /\ open' = open \ {r}
  /\ op' = [op EXCEPT ![t] = [Idle EXCEPT
       !.pc = "untrackAll", !.todo = {remotes[r][p] : p \in Ptrs}]]
  /\ remotes' = [remotes EXCEPT ![r] = NoPtrs]
  /\ UNCHANGED <<cVars, made, ptr, repo, finalizer, held, pointers, badFree>>

\* Repository.Free: RemoteCollection.Free empties its map under the lock...
FreeRepo(t, r) ==
  /\ At(t, "idle") /\ t # GC /\ r \in open
  /\ \A s \in Threads : op[s].pc \in Creating \cup Freeing => repo[Obj(s)] # r
  /\ open' = open \ {r}
  /\ op' = [op EXCEPT ![t] = [Idle EXCEPT
       !.pc = "untrackAll", !.todo = {remotes[r][p] : p \in Ptrs} \ {None}]]
  /\ remotes' = [remotes EXCEPT ![r] = NoPtrs]
  /\ UNCHANGED <<cVars, made, ptr, repo, finalizer, held, pointers, badFree>>

\* Mutant: the remotes of the repository stay in remotePointers.
UntrackNone(t, o) ==
  /\ At(t, "untrackAll") /\ o \in op[t].todo
  /\ op' = [op EXCEPT ![t].todo = {}]
  /\ UNCHANGED <<cVars, made, ptr, repo, finalizer, held, remotes, pointers, open,
                 badFree>>

\* ... and then untracks one remote after the other.
UntrackNext(t, o) ==
  /\ At(t, "untrackAll") /\ o \in op[t].todo
  /\ pointers' = Without(pointers, ptr[o])
  /\ op' = [op EXCEPT ![t].todo = @ \ {o}]
  /\ UNCHANGED <<cVars, made, ptr, repo, finalizer, held, remotes, open,
                 badFree>>

UntrackedAll(t) ==
  /\ At(t, "untrackAll") /\ op[t].todo = {}
  /\ op' = [op EXCEPT ![t] = Idle]
  /\ UNCHANGED <<cVars, made, ptr, repo, finalizer, held, remotes, pointers, open,
                 badFree>>

-----------------------------------------------------------------------------
\* The remote callback of Clone returns a remote: from now on it is C's.  Its
\* finalizer is taken off, and it is untracked.
HandOver(t, o) ==
  /\ At(t, "idle") /\ t # GC /\ o \in held /\ repo[o] \in open
  /\ finalizer' = finalizer \ {o} /\ byC' = byC \cup {ptr[o]}
  /\ held' = held \ {o}
  /\ op' = [op EXCEPT ![t] = [Idle EXCEPT !.pc = "delRemote", !.obj = o, !.keep = TRUE]]
  /\ UNCHANGED <<live, subtransport, made, ptr, repo, remotes, pointers, open, badFree>>

\* git_clone frees the remote, after the callback.
FreedByC(p) ==
  /\ p \in byC /\ \A t \in Threads : op[t].keep => ptr[Obj(t)] # p
  /\ byC' = byC \ {p} /\ CFrees(p)
  /\ UNCHANGED <<made, ptr, repo, finalizer, held, remotes, pointers, open, op>>

-----------------------------------------------------------------------------
\* Shutdown, remotePointers.clear: it takes every *Remote out of the map and
\* then frees one after the other, while the collector may still be at work.
\* User code has let go of everything (git.go:173), repositories too.  (The
\* subtransport of a remote would make Shutdown panic: Transports.)  With all
\* repositories freed remotePointers is empty and it does nothing.
Shutdown(t) ==
  /\ t # GC /\ held = {} /\ byC = {} /\ subtransport = NoPtrs
  /\ \A s \in Goroutines : At(s, "idle")
  /\ open # {} /\ open' = {}
  /\ op' = [op EXCEPT ![t] = [Idle EXCEPT
       !.pc = "freeAll", !.todo = {pointers[p] : p \in Ptrs} \ {None}]]
  /\ pointers' = NoPtrs
  /\ UNCHANGED <<cVars, made, ptr, repo, finalizer, held, remotes, badFree>>

\* Mutant: the finalizer is left on.
FreeNextKeepsFinalizer(t, o) ==
  /\ At(t, "freeAll") /\ o \in op[t].todo
  /\ CFrees(ptr[o])
  /\ op' = [op EXCEPT ![t].todo = @ \ {o}]
  /\ UNCHANGED <<byC, made, ptr, repo, finalizer, held, remotes, pointers, open>>

\* remote.free()
FreeNext(t, o) ==
  /\ At(t, "freeAll") /\ o \in op[t].todo
  /\ finalizer' = finalizer \ {o}
  /\ CFrees(ptr[o])
  /\ ptr' = [ptr EXCEPT ![o] = None] /\ repo' = [repo EXCEPT ![o] = None]
  /\ op' = [op EXCEPT ![t].todo = @ \ {o}]
  /\ UNCHANGED <<byC, made, held, remotes, pointers, open>>

FreedAll(t) ==
  /\ At(t, "freeAll") /\ op[t].todo = {}
  /\ op' = [op EXCEPT ![t] = Idle]
  /\ UNCHANGED <<cVars, made, ptr, repo, finalizer, held, remotes, pointers, open,
                 badFree>>

Continue(t) ==
  \/ AddRemote(t) \/ AddPointer(t) \/ SetFinalizer(t)
  \/ DelRemote(t) \/ DelPointer(t) \/ FreeRemote(t) \/ ClearFields(t)
  \/ \E o \in Objects : UntrackNext(t, o) \/ FreeNext(t, o)
  \/ UntrackedAll(t) \/ FreedAll(t)

Next ==
  \/ \E t \in Threads :
       \/ \E r \in Repos : FreeRepo(t, r) \/ \E p \in Ptrs : Create(t, r, p)
       \/ \E o \in Objects : Free(t, o) \/ HandOver(t, o) \/ Connect(t, o)
       \/ Shutdown(t)
       \/ Continue(t)
  \/ \E o \in Objects : Drop(o) \/ Finalize(o)
  \/ \E p \in Ptrs : FreedByC(p)

Spec == Init /\ [][Next]_vars

\* What has begun goes on, and the collector runs.
Fairness == /\ \A t \in Threads : WF_vars(Continue(t))
            /\ WF_vars(\E o \in Objects : Finalize(o))
FairSpec == Spec /\ Fairness
-----------------------------------------------------------------------------
(***************************************************************************)
(* Properties                                                              *)
(***************************************************************************)

\* What remotePointers has for a git_remote is the *Remote of that very
\* git_remote, which is still allocated, although addresses are used again.
PointersResolve == \A p \in Ptrs :
  pointers[p] # None => p \in live /\ ptr[pointers[p]] = p

\* A transport that connects a remote of user code finds it: a remote in use
\* is tracked as long as its repository is open, and the subtransport refers to it.
FoundByTransport == \A o \in held :
  /\ repo[o] \in open => pointers[ptr[o]] = o
  /\ subtransport[ptr[o]] \in {o, None}

\* git_remote_free is called once for a git_remote: the finalizer, user code,
\* Shutdown's list and C do not free the same one.
FreesOnce == ~badFree

\* Every git_remote has one who will free it: C, user code, a goroutine that
\* is about to, a finalizer, or Shutdown through remotePointers.
NothingLeaks == \A p \in live \ byC :
  \/ pointers[p] # None
  \/ \E o \in held \cup finalizer \cup {op[t].obj : t \in Threads} : o # None /\ ptr[o] = p

\* A *Remote that user code has let go of, of a repository that was freed (by
\* user code or before Shutdown), and that is to be freed by its finalizer or
\* by the goroutine that has begun to.
Dropped(o) ==
  /\ o \notin held /\ repo[o] \in Repos \ open
  /\ o \in finalizer \/ \E t \in Threads : op[t].obj = o /\ ~op[t].keep

\* Such remotes are freed, all of them in the end, by their finalizers if need
\* be -- unless they have a subtransport: the handle list keeps that, and with
\* it the *Remote.
DroppedIsFreed ==
  LET left == {o \in Objects : Dropped(o) /\ \A p \in Ptrs : subtransport[p] # o}
  IN  left # {} ~> left = {}
=============================================================================
