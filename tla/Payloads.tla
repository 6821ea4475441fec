------------------------------ MODULE Payloads ------------------------------
(***************************************************************************)
(* Who holds the handles of callbacks, and for how long.  A binding that   *)
(* takes callbacks tracks a Go value for each group of them (a part of an  *)
(* options struct) and gives C the handle as their payload.  There are     *)
(* three lifetimes:                                                        *)
(*   "call"        the handle is given back when the call returns;         *)
(*   "object"      the C object keeps the callbacks, and the handle is     *)
(*                 given back by its Free or finalizer (Rebase, Indexer,   *)
(*                 OdbWritepack), or at once if there comes no object;     *)
(*   "credential"  the same, until libgit2 takes the object over and frees *)
(*                 it itself (NewCredentialSSHKeyFromSigner).              *)
(* Callbacks run user code, which may call other bindings, so calls nest;  *)
(* and all goroutines share the handle list, whose addresses C uses again. *)
(* A handle that is resolved late is then some other call's.               *)
(*                                                                         *)
(* User code frees an object once, and not while it is using it.  A nil    *)
(* options pointer sets no callback and tracks nothing: it is left out.    *)
(***************************************************************************)
EXTENDS Naturals, Sequences

CONSTANTS Calls,     \* the calls that can be in progress, on all goroutines
          Holders,   \* the option structs and objects there can be at a time
          Handles,   \* the addresses that C.malloc can return
          None       \* no handle, no call, no holder, no callback

ASSUME NoneAssumption == None \notin Calls \cup Holders \cup Handles

-----------------------------------------------------------------------------
(***************************************************************************)
(* The parts: the C callbacks that one function sets, with one payload.    *)
(***************************************************************************)
CheckoutPart  == {"checkoutNotify", "checkoutProgress"}
RemotePart    == {"remote"}   \* nine callbacks that are treated alike
ClonePart     == {"remoteCreate"}
StashPart     == {"stashApplyProgress"}
RebasePart    == {"commitCreate"}
DiffPart      == {"diffNotify"}
ApplyPart     == {"deltaApply", "hunkApply"}
IndexPart     == {"indexMatchedPath"}
SignerPart    == {"credentialSSHSign"}
DiffFilesPart == {"diffForEach"}   \* of files, hunks and lines, alike
OdbPart       == {"odbForEach"}
PackPart      == {"packbuilderForEach"}
StashListPart == {"stashForeach"}
SubmodulePart == {"submodule"}
TagPart       == {"tagForeach"}
TreePart      == {"treeWalk"}

\* The parts that are tracked whatever the user gave.
AlwaysTracked == {RemotePart, SignerPart, DiffFilesPart, OdbPart, PackPart,
                  StashListPart, SubmodulePart, TagPart, TreePart}
Parts == AlwaysTracked \cup {CheckoutPart, ClonePart, StashPart, RebasePart,
                             DiffPart, ApplyPart, IndexPart}
CallbackNames == UNION Parts

\* What a binding populates, in order, what it frees, in order, and how long
\* the payloads live.
Binding(populates, frees, lives) ==
  [populates |-> populates, frees |-> frees, lives |-> lives]
PerCall(part) == Binding(<<part>>, <<part>>, "call")

Checkout   == PerCall(CheckoutPart)
Fetch      == PerCall(RemotePart)
Push       == PerCall(RemotePart)
Connect    == PerCall(RemotePart)
Prune      == PerCall(RemotePart)
\* Mutant: the payload of the fetch options is untracked by hand as well.
CloneFreesTwice == Binding(<<CheckoutPart, RemotePart, ClonePart>>,
                      <<CheckoutPart, RemotePart, RemotePart, ClonePart>>, "call")
Clone      == Binding(<<CheckoutPart, RemotePart, ClonePart>>,
                      <<CheckoutPart, RemotePart, ClonePart>>, "call")
SubmoduleUpdate == Binding(<<CheckoutPart, RemotePart>>,
                           <<CheckoutPart, RemotePart>>, "call")
StashApply == Binding(<<CheckoutPart, StashPart>>, <<StashPart, CheckoutPart>>, "call")
DiffTrees  == PerCall(DiffPart)
DiffBlobs  == Binding(<<DiffFilesPart, DiffPart>>, <<DiffPart, DiffFilesPart>>, "call")
DiffForEach == PerCall(DiffFilesPart)
ApplyDiff  == PerCall(ApplyPart)
IndexAll   == PerCall(IndexPart)
OdbForEach == PerCall(OdbPart)
PackbuilderForEach == PerCall(PackPart)
StashForeach == PerCall(StashListPart)
SubmoduleForeach == PerCall(SubmodulePart)
TagsForeach == PerCall(TagPart)
TreeWalk   == PerCall(TreePart)
Rebase     == Binding(<<CheckoutPart, RebasePart>>, <<CheckoutPart, RebasePart>>, "object")
Indexer    == Binding(<<RemotePart>>, <<RemotePart>>, "object")
WritePack  == Binding(<<RemotePart>>, <<RemotePart>>, "object")
Signer     == Binding(<<SignerPart>>, <<SignerPart>>, "credential")

Bindings == {Checkout, Fetch, Push, Connect, Prune, Clone, SubmoduleUpdate, StashApply,
             DiffTrees, DiffBlobs, DiffForEach, ApplyDiff, IndexAll, OdbForEach,
             PackbuilderForEach, StashForeach, SubmoduleForeach, TagsForeach, TreeWalk,
             Rebase, Indexer, WritePack, Signer}

PartsOf(k) == {k.populates[i] : i \in DOMAIN k.populates}

CallbacksOf(k) == UNION PartsOf(k)

\* The callbacks the user gave: those of a ForEach and a signer are no options.
Optional == UNION {CheckoutPart, RemotePart, ClonePart, StashPart, RebasePart,
                   DiffPart, ApplyPart, IndexPart}
Choices(k) == {g \in SUBSET CallbacksOf(k) : CallbacksOf(k) \ Optional \subseteq g}

-----------------------------------------------------------------------------
VARIABLES
  table,    \* pointerHandles: the live handles, each with the holder and the
            \* part that its Go value belongs to
  state,    \* of each holder: "none", "call", "object", "dropped", "lent" (to
            \* libgit2) or "closing"
  kind,     \* the binding it was made for
  given,    \* the callbacks its user gave
  payload,  \* for each callback C has from it, the payload C has with it
  pc,       \* where each call is: "idle", "populate", "C", "user", "free", or
            \* "crashed" by a panic of the binding
  holder,   \* the holder the call works on
  parent,   \* the call whose callback made this call, None on a goroutine
  running,  \* the callback that is running
  todo      \* the parts that are still to be populated or freed

vars == <<table, state, kind, given, payload, pc, holder, parent, running, todo>>
holderVars == <<state, kind, given, payload>>

NoKind == Binding(<<>>, <<>>, "none")

TypeOK ==
  /\ DOMAIN table \subseteq Handles
  /\ table \in [DOMAIN table -> [holder : Holders, part : Parts]]
  /\ state \in [Holders -> {"none", "call", "object", "dropped", "lent", "closing"}]
  /\ kind \in [Holders -> Bindings \cup {NoKind}]
  /\ \A x \in Holders :
       /\ given[x] \subseteq CallbacksOf(kind[x])
       /\ DOMAIN payload[x] \subseteq CallbacksOf(kind[x])
       /\ payload[x] \in [DOMAIN payload[x] -> Handles \cup {None}]
  /\ pc \in [Calls -> {"idle", "populate", "C", "user", "free", "crashed"}]
  /\ holder \in [Calls -> Holders \cup {None}]
  /\ parent \in [Calls -> Calls \cup {None}]
  /\ running \in [Calls -> CallbackNames \cup {None}]
  /\ todo \in [Calls -> Seq(Parts)]

Init ==
  /\ table = << >>
  /\ state = [x \in Holders |-> "none"]
  /\ kind = [x \in Holders |-> NoKind]
  /\ given = [x \in Holders |-> {}]
  /\ payload = [x \in Holders |-> << >>]
  /\ pc = [c \in Calls |-> "idle"]
  /\ holder = [c \in Calls |-> None]
  /\ parent = [c \in Calls |-> None]
  /\ running = [c \in Calls |-> None]
  /\ todo = [c \in Calls |-> << >>]

-----------------------------------------------------------------------------
\* pointerHandles.Track and Untrack, each atomic (see HandleList).
Track(h, x, part) ==
  table' = [k \in DOMAIN table \cup {h} |->
              IF k = h THEN [holder |-> x, part |-> part] ELSE table[k]]
Untrack(h) == table' = [k \in DOMAIN table \ {h} |-> table[k]]

Open(x) == {c \in Calls : pc[c] # "idle" /\ holder[c] = x}
Children(p) == {c \in Calls : pc[c] # "idle" /\ parent[c] = p}

\* User code can call a binding: on a goroutine, or in a callback.
UserCode(p) == p = None \/ (p \in Calls /\ pc[p] = "user" /\ Children(p) = {})

\* Call c starts, from p's user code, to work on holder x.
Enter(c, p, x, place, parts) ==
  /\ pc[c] = "idle" /\ UserCode(p)
  /\ pc' = [pc EXCEPT ![c] = place]
  /\ holder' = [holder EXCEPT ![c] = x]
  /\ parent' = [parent EXCEPT ![c] = p]
  /\ todo' = [todo EXCEPT ![c] = parts]
  /\ UNCHANGED running

Leave(c) ==
  /\ pc' = [pc EXCEPT ![c] = "idle"]
  /\ holder' = [holder EXCEPT ![c] = None]
  /\ parent' = [parent EXCEPT ![c] = None]
  /\ UNCHANGED <<running, todo>>

Goto(c, from, to) ==
  /\ pc[c] = from
  /\ pc' = [pc EXCEPT ![c] = to]
  /\ UNCHANGED <<holder, parent>>

\* The options struct or the object is gone.
Reset(x) ==
  /\ state' = [state EXCEPT ![x] = "none"]
  /\ kind' = [kind EXCEPT ![x] = NoKind]
  /\ given' = [given EXCEPT ![x] = {}]
  /\ payload' = [payload EXCEPT ![x] = << >>]

-----------------------------------------------------------------------------
(***************************************************************************)
(* Populating the options                                                  *)
(***************************************************************************)
Begin(c, p, x, k, g) ==
  /\ state[x] = "none"
  /\ Enter(c, p, x, "populate", k.populates)
  /\ state' = [state EXCEPT ![x] = "call"]
  /\ kind' = [kind EXCEPT ![x] = k]
  /\ given' = [given EXCEPT ![x] = g]
  /\ UNCHANGED <<table, payload>>

IsTracked(part, g) == part \in AlwaysTracked \/ part \cap g # {}

\* The payload that each callback of the part is given.  checkout.go sets
\* both callbacks and only the payload of the one that was asked for.
PayloadsOf(part, g, h) ==
  [cb \in part |-> IF part = CheckoutPart /\ cb \notin g THEN None ELSE h]

Both(f, g) == [k \in DOMAIN f \cup DOMAIN g |-> IF k \in DOMAIN g THEN g[k] ELSE f[k]]

Populate(c) ==
  LET x == holder[c]
      part == Head(todo[c])
  IN  /\ pc[c] = "populate" /\ todo[c] # << >>
      /\ todo' = [todo EXCEPT ![c] = Tail(@)]
      /\ IF IsTracked(part, given[x])
           THEN \E h \in Handles \ DOMAIN table :
                  /\ Track(h, x, part)
                  /\ payload' = [payload EXCEPT ![x] =
                                   Both(@, PayloadsOf(part, given[x], h))]
           ELSE UNCHANGED <<table, payload>>
      /\ UNCHANGED <<state, kind, given, pc, holder, parent, running>>

CallC(c) ==
  /\ todo[c] = << >>
  /\ Goto(c, "populate", "C")
  /\ UNCHANGED <<table, holderVars, running, todo>>

-----------------------------------------------------------------------------
(***************************************************************************)
(* Callbacks.  C runs those it was given with the call or the object, and  *)
(* those of the credentials that it was lent for a remote.                 *)
(***************************************************************************)
Reaches(c, x) ==
  /\ pc[c] = "C"
  /\ \/ x = holder[c] /\ kind[x].lives # "credential"
     \/ state[x] = "lent" /\ RemotePart \in PartsOf(kind[holder[c]])

\* pointerHandles.Get, and the assertion of the value's type.
Finds(h, cb) == h \in DOMAIN table /\ cb \in table[h].part

\* The value is found and has a function of the user's, which is called.
\* Without one, nothing happens.
CallBack(c, x, cb) ==
  LET h == payload[x][cb]
  IN  /\ Finds(h, cb) /\ cb \in given[table[h].holder]
      /\ Goto(c, "C", "user")
      /\ running' = [running EXCEPT ![c] = cb]
      /\ UNCHANGED <<table, holderVars, todo>>

\* The value is not found.  checkoutNotifyCallback alone allows for nil.
CallBackPanics(c, x, cb) ==
  LET h == payload[x][cb]
  IN  /\ ~Finds(h, cb) /\ ~(cb = "checkoutNotify" /\ h = None)
      /\ Goto(c, "C", "crashed")
      /\ UNCHANGED <<table, holderVars, running, todo>>

UserReturns(c) ==
  /\ Children(c) = {}
  /\ Goto(c, "user", "C")
  /\ running' = [running EXCEPT ![c] = None]
  /\ UNCHANGED <<table, holderVars, todo>>

\* credentialsCallback: the user returns a credential, which is libgit2's
\* from now on.
HandOver(c, x) ==
  /\ running[c] = "remote" /\ Children(c) = {}
  /\ state[x] = "object" /\ kind[x] = Signer /\ Open(x) = {}
  /\ Goto(c, "user", "C")
  /\ running' = [running EXCEPT ![c] = None]
  /\ state' = [state EXCEPT ![x] = "lent"]
  /\ UNCHANGED <<table, kind, given, payload, todo>>

-----------------------------------------------------------------------------
(***************************************************************************)
(* The C function returns                                                  *)
(***************************************************************************)
\* The deferred functions free the options.
CallReturns(c) ==
  LET x == holder[c]
  IN  /\ Goto(c, "C", "free")
      /\ kind[x].lives = "call"
      /\ todo' = [todo EXCEPT ![c] = kind[x].frees]
      /\ state' = [state EXCEPT ![x] = "closing"]
      /\ UNCHANGED <<table, kind, given, payload, running>>

\* There is an object, with a finalizer.
Constructed(c) ==
  LET x == holder[c]
  IN  /\ pc[c] = "C" /\ state[x] = "call" /\ kind[x].lives # "call"
      /\ Leave(c)
      /\ state' = [state EXCEPT ![x] = "object"]
      /\ UNCHANGED <<table, kind, given, payload>>

\* Mutant: the options of the failed InitRebase are forgotten.
NotConstructedForgets(c) ==
  LET x == holder[c]
  IN  /\ pc[c] = "C" /\ state[x] = "call" /\ kind[x].lives = "object"
      /\ Leave(c) /\ Reset(x)
      /\ UNCHANGED table

\* There is none: the options are freed by hand.
NotConstructed(c) ==
  LET x == holder[c]
  IN  /\ Goto(c, "C", "free")
      /\ state[x] = "call" /\ kind[x].lives = "object"
      /\ todo' = [todo EXCEPT ![c] = kind[x].frees]
      /\ state' = [state EXCEPT ![x] = "closing"]
      /\ UNCHANGED <<table, kind, given, payload, running>>

-----------------------------------------------------------------------------
(***************************************************************************)
(* Methods, Free and finalizers of the objects                             *)
(***************************************************************************)
\* Rebase.Next, Commit, ..., Indexer.Write, OdbWritepack.Commit, ...
Method(c, p, x) ==
  /\ state[x] = "object" /\ kind[x].lives = "object" /\ Open(x) = {}
  /\ Enter(c, p, x, "C", << >>)
  /\ UNCHANGED <<table, holderVars>>

MethodReturns(c) ==
  /\ pc[c] = "C" /\ state[holder[c]] \in {"object", "dropped"}
  /\ Leave(c)
  /\ UNCHANGED <<table, holderVars>>

Close(c, p, x) ==
  /\ Enter(c, p, x, "free", kind[x].frees)
  /\ state' = [state EXCEPT ![x] = "closing"]
  /\ UNCHANGED <<table, kind, given, payload>>

Free(c, p, x) == state[x] = "object" /\ Open(x) = {} /\ Close(c, p, x)

\* User code forgets the object, perhaps while a method of it is running:
\* runtime.KeepAlive at the end of the method then keeps it.
Drop(x) ==
  /\ state[x] = "object"
  /\ state' = [state EXCEPT ![x] = "dropped"]
  /\ UNCHANGED <<table, kind, given, payload, pc, holder, parent, running, todo>>

\* Mutant: the methods have no KeepAlive.
FinalizeAtOnce(c, x) == state[x] = "dropped" /\ Close(c, None, x)

Finalize(c, x) == state[x] = "dropped" /\ Open(x) = {} /\ Close(c, None, x)

\* The payload field that a free function looks at for the part, if any.
PayloadOf(x, part) ==
  IF ~(part \subseteq DOMAIN payload[x]) THEN None
  ELSE IF part # CheckoutPart THEN payload[x][CHOOSE cb \in part : TRUE]
  ELSE IF payload[x]["checkoutNotify"] # None THEN payload[x]["checkoutNotify"]
  ELSE payload[x]["checkoutProgress"]

FreePart(c) ==
  LET h == PayloadOf(holder[c], Head(todo[c]))
  IN  /\ pc[c] = "free" /\ todo[c] # << >>
      /\ todo' = [todo EXCEPT ![c] = Tail(@)]
      /\ IF h # None THEN Untrack(h) ELSE UNCHANGED table
      /\ UNCHANGED <<holderVars, pc, holder, parent, running>>

\* Mutant: the struct is used again with the callbacks it had.
FreedKeepsCallbacks(c) ==
  /\ pc[c] = "free" /\ todo[c] = << >>
  /\ Leave(c)
  /\ state' = [state EXCEPT ![holder[c]] = "none"]
  /\ kind' = [kind EXCEPT ![holder[c]] = NoKind]
  /\ given' = [given EXCEPT ![holder[c]] = {}]
  /\ UNCHANGED <<table, payload>>

Freed(c) ==
  /\ pc[c] = "free" /\ todo[c] = << >>
  /\ Leave(c) /\ Reset(holder[c])
  /\ UNCHANGED table

\* credentialSSHCustomFree, when libgit2 frees the credential it was lent.
FreedByC(x) ==
  /\ state[x] = "lent"
  /\ \A c \in Calls : running[c] # "credentialSSHSign"
  /\ Untrack(PayloadOf(x, SignerPart)) /\ Reset(x)
  /\ UNCHANGED <<pc, holder, parent, running, todo>>

-----------------------------------------------------------------------------
Next ==
  \/ \E c \in Calls, p \in Calls \cup {None}, x \in Holders :
       \/ \E k \in Bindings : \E g \in Choices(k) : Begin(c, p, x, k, g)
       \/ Method(c, p, x)
       \/ Free(c, p, x)
  \/ \E c \in Calls :
       \/ Populate(c) \/ CallC(c) \/ UserReturns(c)
       \/ CallReturns(c) \/ Constructed(c) \/ NotConstructed(c) \/ MethodReturns(c)
       \/ FreePart(c) \/ Freed(c)
       \/ \E x \in {y \in Holders : Reaches(c, y)} : \E cb \in DOMAIN payload[x] :
            CallBack(c, x, cb) \/ CallBackPanics(c, x, cb)
       \/ \E x \in Holders : HandOver(c, x) \/ Finalize(c, x)
  \/ \E x \in Holders : Drop(x) \/ FreedByC(x)

Spec == Init /\ [][Next]_vars

-----------------------------------------------------------------------------
(***************************************************************************)
(* Properties                                                              *)
(***************************************************************************)

\* As long as C may run a callback, its payload resolves to the value that
\* was made for it: not to nothing, which panics, and not to the value of
\* another call that was given the same address.
Live(x) == state[x] \in {"object", "dropped", "lent"}
             \/ \E c \in Open(x) : pc[c] \in {"C", "user"}
PayloadsResolve == \A x \in Holders : Live(x) =>
  \A cb \in DOMAIN payload[x] : payload[x][cb] # None =>
    Finds(payload[x][cb], cb) /\ table[payload[x][cb]].holder = x

\* A handle is given to Untrack once, by the free function of its own part:
\* the second time its address would be freed under another call's feet.
FreesItsOwn == \A c \in Calls : pc[c] = "free" =>
  \A i \in DOMAIN todo[c] :
    LET h == PayloadOf(holder[c], todo[c][i])
    IN  h # None => h \in DOMAIN table
                    /\ table[h] = [holder |-> holder[c], part |-> todo[c][i]]

\* Every handle is the payload of some live options or object, so whatever
\* way a call ends, nothing of it stays behind in the list.
NothingLeaks == \A h \in DOMAIN table :
  LET e == table[h]
  IN  state[e.holder] # "none" /\ PayloadOf(e.holder, e.part) = h

\* checkout.go:139: populateCheckoutOptions "populates the provided C-struct
\* with the contents of the provided CheckoutOptions struct".  So a callback
\* that is missing there is not missed by C.
MissingCallbackIsNotCalled == \A c \in Calls : pc[c] # "crashed"
=============================================================================
