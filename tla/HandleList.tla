----------------------------- MODULE HandleList -----------------------------
(***************************************************************************)
(* handles.go: the list that lets C hold a Go value.  Track allocates one  *)
(* byte of C memory and uses its address as the key under which the value  *)
(* is kept; callbacks resolve the address with Get; Untrack and Clear take *)
(* the entry out and give the byte back to the C heap, which may hand the  *)
(* same address to the next Track at once.                                 *)
(*                                                                         *)
(* Every statement that touches shared state is a step of its own, so the  *)
(* goroutines interleave between malloc, the lock, the map, free and the   *)
(* unlock as they do in the program.                                       *)
(***************************************************************************)
CONSTANTS Goroutines,  \* the goroutines (and finalizers) that use the list
          Handles,     \* the addresses C.malloc can return
          Objects,     \* the Go values that are handed to C
          None         \* no goroutine, no handle, no value

ASSUME NoneAssumption == None \notin Goroutines \cup Handles \cup Objects

VARIABLES
  handles,  \* HandleList.handles, the map; its domain is the set of its keys
  writer,   \* who holds the writer side of the embedded sync.RWMutex
  readers,  \* who holds its reader side
  heap,     \* the addresses that are allocated for handles
  pc,       \* where each goroutine is in the call it is making
  op,       \* which call that is
  arg,      \* the handle that call works on
  val,      \* the value it stores, or the one Get found
  owned     \* the handles Track has returned and nobody has given back, with
            \* the value the caller knows them by

vars == <<handles, writer, readers, heap, pc, op, arg, val, owned>>

PCs == {"idle", "lock", "drain", "map", "free", "unlock",
        "rlock", "read", "runlock"}
Ops == {"none", "Track", "Untrack", "Clear", "Get"}

\* f gives values to some of the addresses.
IsTable(f) == DOMAIN f \subseteq Handles /\ f \in [DOMAIN f -> Objects]

TypeOK ==
  /\ IsTable(handles)
  /\ writer \in Goroutines \cup {None}
  /\ readers \in SUBSET Goroutines
  /\ heap \in SUBSET Handles
  /\ pc \in [Goroutines -> PCs]
  /\ op \in [Goroutines -> Ops]
  /\ arg \in [Goroutines -> Handles \cup {None}]
  /\ val \in [Goroutines -> Objects \cup {None}]
  /\ IsTable(owned)

Init ==
  /\ handles = << >>
  /\ writer = None
  /\ readers = {}
  /\ heap = {}
  /\ pc = [g \in Goroutines |-> "idle"]
  /\ op = [g \in Goroutines |-> "none"]
  /\ arg = [g \in Goroutines |-> None]
  /\ val = [g \in Goroutines |-> None]
  /\ owned = << >>

-----------------------------------------------------------------------------
(***************************************************************************)
(* How git2go calls the list.                                              *)
(***************************************************************************)

\* f with the entry of k set to v: Go's f[k] = v.
Store(f, k, v) == [x \in DOMAIN f \cup {k} |-> IF x = k THEN v ELSE f[x]]

\* f without the entry of k: Go's delete(f, k).
Delete(f, k) == [x \in DOMAIN f \ {k} |-> f[x]]

\* A goroutine is using h: it resolves it or is about to give it back.
InUse(h) == \E g \in Goroutines : pc[g] # "idle" /\ arg[g] = h /\ op[g] # "Track"

\* Shutdown is clearing the list; it must be the only call in progress.
Clearing == \E g \in Goroutines : op[g] = "Clear"

Call(g, name, h, o) ==
  /\ pc[g] = "idle"
  /\ ~Clearing
  /\ op' = [op EXCEPT ![g] = name]
  /\ arg' = [arg EXCEPT ![g] = h]
  /\ val' = [val EXCEPT ![g] = o]

Return(g) ==
  /\ pc' = [pc EXCEPT ![g] = "idle"]
  /\ op' = [op EXCEPT ![g] = "none"]
  /\ arg' = [arg EXCEPT ![g] = None]
  /\ val' = [val EXCEPT ![g] = None]

Goto(g, from, to) == pc[g] = from /\ pc' = [pc EXCEPT ![g] = to]

-----------------------------------------------------------------------------
(***************************************************************************)
(* sync.RWMutex.  Lock first excludes the other writers and the readers to *)
(* come, then waits for the readers that are still inside.                 *)
(***************************************************************************)

Lock(g) ==
  /\ Goto(g, "lock", "drain")
  /\ writer = None
  /\ writer' = g
  /\ UNCHANGED <<handles, readers, heap, op, arg, val, owned>>

\* Mutant: the writer does not wait for the readers inside.
DrainNoWait(g) ==
  /\ Goto(g, "drain", "map")
  /\ UNCHANGED <<handles, writer, readers, heap, op, arg, val, owned>>

Drain(g) ==
  /\ Goto(g, "drain", "map")
  /\ readers = {}
  /\ UNCHANGED <<handles, writer, readers, heap, op, arg, val, owned>>

RLock(g) ==
  /\ Goto(g, "rlock", "read")
  /\ writer = None
  /\ readers' = readers \cup {g}
  /\ UNCHANGED <<handles, writer, heap, op, arg, val, owned>>

-----------------------------------------------------------------------------
(***************************************************************************)
(* Track(pointer)                                                          *)
(***************************************************************************)

\* handle := C.malloc(1), before the lock is asked for.
TrackMalloc(g, o) == \E h \in Handles \ heap :
  /\ Call(g, "Track", h, o)
  /\ pc' = [pc EXCEPT ![g] = "lock"]
  /\ heap' = heap \cup {h}
  /\ UNCHANGED <<handles, writer, readers, owned>>

\* Mutant: the entry is written before the caller's value reaches it.
TrackStoreNil(g) ==
  /\ op[g] = "Track"
  /\ Goto(g, "map", "unlock")
  /\ handles' = Store(handles, arg[g], None)
  /\ UNCHANGED <<writer, readers, heap, op, arg, val, owned>>

\* v.handles[handle] = pointer
TrackStore(g) ==
  /\ op[g] = "Track"
  /\ Goto(g, "map", "unlock")
  /\ handles' = Store(handles, arg[g], val[g])
  /\ UNCHANGED <<writer, readers, heap, op, arg, val, owned>>

\* v.Unlock() and return: from here on the caller owns the handle.
TrackReturn(g) ==
  /\ op[g] = "Track" /\ pc[g] = "unlock"
  /\ writer' = None
  /\ owned' = Store(owned, arg[g], val[g])
  /\ Return(g)
  /\ UNCHANGED <<handles, readers, heap>>

-----------------------------------------------------------------------------
(***************************************************************************)
(* Untrack(handle).  Its caller owns the handle and gives it up with the   *)
(* call; no callback of the C call it belonged to is still running.        *)
(***************************************************************************)

\* Mutant: C.free comes before the lock and the delete.
UntrackFreesFirst(g, h) ==
  /\ h \in DOMAIN owned
  /\ ~InUse(h)
  /\ Call(g, "Untrack", h, None)
  /\ pc' = [pc EXCEPT ![g] = "lock"]
  /\ owned' = Delete(owned, h)
  /\ heap' = heap \ {h}
  /\ UNCHANGED <<handles, writer, readers>>

UntrackCall(g, h) ==
  /\ h \in DOMAIN owned
  /\ ~InUse(h)
  /\ Call(g, "Untrack", h, None)
  /\ pc' = [pc EXCEPT ![g] = "lock"]
  /\ owned' = Delete(owned, h)
  /\ UNCHANGED <<handles, writer, readers, heap>>

\* Mutant: the address is freed and the entry is left behind.
UntrackKeepsEntry(g) ==
  /\ op[g] = "Untrack"
  /\ Goto(g, "map", "free")
  /\ UNCHANGED <<handles, writer, readers, heap, op, arg, val, owned>>

\* delete(v.handles, handle)
UntrackDelete(g) ==
  /\ op[g] = "Untrack"
  /\ Goto(g, "map", "free")
  /\ handles' = Delete(handles, arg[g])
  /\ UNCHANGED <<writer, readers, heap, op, arg, val, owned>>

\* Mutant: the address is never freed.
UntrackForgetsFree(g) ==
  /\ op[g] = "Untrack"
  /\ Goto(g, "free", "unlock")
  /\ UNCHANGED <<handles, writer, readers, heap, op, arg, val, owned>>

\* C.free(handle)
UntrackFree(g) ==
  /\ op[g] = "Untrack"
  /\ Goto(g, "free", "unlock")
  /\ heap' = heap \ {arg[g]}
  /\ UNCHANGED <<handles, writer, readers, op, arg, val, owned>>

UntrackReturn(g) ==
  /\ op[g] = "Untrack" /\ pc[g] = "unlock"
  /\ writer' = None
  /\ Return(g)
  /\ UNCHANGED <<handles, readers, heap, owned>>

-----------------------------------------------------------------------------
(***************************************************************************)
(* Clear(), which only Shutdown calls.  git.go asks that nothing of        *)
(* libgit2's is live by then, so no other call is in progress and nobody   *)
(* will use a handle of before.                                            *)
(***************************************************************************)

ClearCall(g) ==
  /\ \A other \in Goroutines : pc[other] = "idle"
  /\ Call(g, "Clear", None, None)
  /\ pc' = [pc EXCEPT ![g] = "lock"]
  /\ owned' = << >>
  /\ UNCHANGED <<handles, writer, readers, heap>>

\* Mutant: the bytes are freed and the map is left as it is.
ClearKeepsEntries(g) == \E h \in DOMAIN handles :
  /\ op[g] = "Clear"
  /\ Goto(g, "map", "free")
  /\ arg' = [arg EXCEPT ![g] = h]
  /\ UNCHANGED <<handles, writer, readers, heap, op, val, owned>>

\* delete(v.handles, handle) for the next handle the range yields
ClearDelete(g) == \E h \in DOMAIN handles :
  /\ op[g] = "Clear"
  /\ Goto(g, "map", "free")
  /\ handles' = Delete(handles, h)
  /\ arg' = [arg EXCEPT ![g] = h]
  /\ UNCHANGED <<writer, readers, heap, op, val, owned>>

\* C.free(handle), and on to the next
ClearFree(g) ==
  /\ op[g] = "Clear"
  /\ Goto(g, "free", "map")
  /\ heap' = heap \ {arg[g]}
  /\ UNCHANGED <<handles, writer, readers, op, arg, val, owned>>

ClearReturn(g) ==
  /\ op[g] = "Clear" /\ pc[g] = "map"
  /\ handles = << >>
  /\ writer' = None
  /\ Return(g)
  /\ UNCHANGED <<handles, readers, heap, owned>>

-----------------------------------------------------------------------------
(***************************************************************************)
(* Get(handle), called from a callback while the handle's owner waits for  *)
(* the C call, or from a method of the object the handle stands for.       *)
(***************************************************************************)

GetCall(g, h) ==
  /\ h \in DOMAIN owned
  /\ Call(g, "Get", h, None)
  /\ pc' = [pc EXCEPT ![g] = "rlock"]
  /\ UNCHANGED <<handles, writer, readers, heap, owned>>

\* ptr, ok := v.handles[handle].  None stands for !ok and the panic.
GetRead(g) ==
  /\ Goto(g, "read", "runlock")
  /\ val' = [val EXCEPT ![g] = IF arg[g] \in DOMAIN handles
                               THEN handles[arg[g]] ELSE None]
  /\ UNCHANGED <<handles, writer, readers, heap, op, arg, owned>>

\* The deferred v.RUnlock(), on the way out of the return or of the panic.
GetReturn(g) ==
  /\ pc[g] = "runlock"
  /\ readers' = readers \ {g}
  /\ Return(g)
  /\ UNCHANGED <<handles, writer, heap, owned>>

-----------------------------------------------------------------------------
Acquire(g) == Lock(g) \/ RLock(g)

Step(g) ==
  \/ Drain(g)
  \/ TrackStore(g) \/ TrackReturn(g)
  \/ UntrackDelete(g) \/ UntrackFree(g) \/ UntrackReturn(g)
  \/ ClearDelete(g) \/ ClearFree(g) \/ ClearReturn(g)
  \/ GetRead(g) \/ GetReturn(g)

Invoke(g) ==
  \/ \E o \in Objects : TrackMalloc(g, o)
  \/ \E h \in Handles : UntrackCall(g, h) \/ GetCall(g, h)
  \/ ClearCall(g)

Next == \E g \in Goroutines : Invoke(g) \/ Acquire(g) \/ Step(g)

Spec == Init /\ [][Next]_vars

\* A goroutine inside a call keeps running.  sync.RWMutex lets every waiter
\* in eventually: a blocked Lock keeps new readers out, Unlock admits the
\* readers that wait before the next writer, and the writers' own mutex goes
\* to starvation mode.
Fairness == \A g \in Goroutines : WF_vars(Step(g)) /\ SF_vars(Acquire(g))

FairSpec == Spec /\ Fairness

-----------------------------------------------------------------------------
(***************************************************************************)
(* Properties                                                              *)
(***************************************************************************)

\* The Go runtime kills a program that writes a map while another goroutine
\* reads or writes it: no goroutine is at a map access of Track, Untrack or
\* Clear (handles.go:33, 42, 50) while another is at one of any call.
MapAccessExclusive == \A g1, g2 \in Goroutines :
  g1 # g2 /\ pc[g1] = "map" => pc[g2] \notin {"map", "read"}

\* A handle that Track has returned resolves to the value it was made for
\* until its owner gives it up, though other handles come and go and malloc
\* reuses their addresses.
OwnedResolves == \A h \in DOMAIN owned :
  h \in DOMAIN handles /\ handles[h] = owned[h]

\* So Get never panics on a handle that is owned and never returns the value
\* of another one, whoever else is inside the list.
GetFindsTheValue == \A g \in Goroutines :
  pc[g] = "runlock" => arg[g] \in DOMAIN owned /\ val[g] = owned[arg[g]]

\* Untrack and Clear free an address once: it is allocated when C.free gets
\* it, and it is nobody's handle any more.
FreesOnce == \A g \in Goroutines :
  pc[g] = "free" => arg[g] \in heap /\ arg[g] \notin DOMAIN handles \cup DOMAIN owned

\* Between calls every allocated byte is the key of an entry that has an
\* owner: neither C memory nor a Go value is kept for nobody.
NothingLeaks == (\A g \in Goroutines : pc[g] = "idle") =>
  heap = DOMAIN handles /\ DOMAIN handles = DOMAIN owned

\* The map, changed in several steps by several goroutines, is the abstract
\* table: a store never replaces a live entry, a delete always finds its own.
Table == INSTANCE HandleTable WITH table <- handles

ImplementsTable == Table!Spec

\* Every call returns: no goroutine is locked out of the list, and Clear
\* comes to the end of the map.
CallsReturn == \A g \in Goroutines : pc[g] # "idle" ~> pc[g] = "idle"
=============================================================================
