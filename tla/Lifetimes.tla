------------------------------ MODULE Lifetimes ------------------------------
EXTENDS WrapperMethods, Integers

(***************************************************************************)
(* What keeps a C object of git2go alive.                                  *)
(*                                                                         *)
(* A wrapper is a Go struct around a C pointer.  Most of them have a       *)
(* finalizer that frees the C object once nothing reaches the wrapper, and *)
(* Go lets go of a variable after its last mention, so a wrapper may be    *)
(* collected while a C function that was handed its pointer still works on *)
(* it: that is what the runtime.KeepAlive calls are for.  One goroutine    *)
(* calls the methods of WrapperMethods, drops what it holds and frees what *)
(* it wants freed; the collector runs between any two steps.               *)
(***************************************************************************)

CONSTANTS Wrapper,         \* the places for wrappers in Go's heap
          None,            \* no wrapper
          Together(_, _)   \* the bound: may wrappers of two classes exist at once?

(***************************************************************************)
(* The facts of a wrapper: its class; up, the wrapper its Go field points  *)
(* to; obj, the wrapper whose C object its pointer is to (a weak           *)
(* Repository has that of another Repository, a Mempack's backend belongs  *)
(* to the Odb); on, the wrapper whose C object its own refers to;          *)
(* c, what became of the C object; ptr, whether the pointer is not nil;    *)
(* fin, whether the finalizer is set.                                      *)
(***************************************************************************)
Wrapped == [class : {m.makes : m \in Methods}, up : Wrapper \cup {None},
            obj : Wrapper, on : Wrapper \cup {None},
            c : {"live", "freed", "twice", "given"}, ptr : BOOLEAN, fin : BOOLEAN]

(* None is neither a place nor what is in one *)
ASSUME NoneIsNoWrapper == None \notin Wrapper \cup Wrapped

VARIABLES heap,     \* the wrapper in each place, or None
          held,     \* the wrappers in variables of the caller
          op        \* the method that runs

vars == <<heap, held, op>>

Made    == {w \in Wrapper : heap[w] # None}

Idle    == [recv |-> None, arg |-> None, tmp |-> None, res |-> None, pc |-> 0]
Running == op.pc > 0
Step    == op.m.steps[op.pc]

---------------------------------------------------------------------------
(* What the wrappers are made of *)

Repositories == {"Repository", "WeakRepository"}
Objects      == {"Object", "Tree", "Commit", "Blob", "Tag"}
Iterators    == {"ConfigIterator", "IndexConflictIterator"}

(* The classes with a field for the Repository they came from *)
Branches ==
    Objects \cup {"Reference", "ReferenceIterator", "BranchIterator", "RevWalk", "Index",
                  "Submodule", "StatusList", "Note", "NoteIterator", "AnnotatedCommit", "Refdb",
                  "TreeBuilder", "BlobWriteStream", "Packbuilder", "Diff", "Rebase", "Remote"}

(* The classes whose Free sets ptr to nil *)
NilsPtr == {"Repository", "WeakRepository", "Note", "Blame", "Patch", "Diff", "DiffStats",
            "StatusList", "DescribeResult", "Credential", "Remote"}

RepoOf(w) == IF w = None THEN None
             ELSE IF heap[w].class \in Repositories THEN w ELSE heap[w].up

(* Mutant of FieldOf: the collections of a Repository do not point back *)
FieldOfWithoutCycle(w, class, recv) ==
    CASE class \in Iterators -> recv
      [] class \in Branches  -> RepoOf(recv)
      [] OTHER               -> None

(* The Go field of a wrapper of this class in place w that a method of     *)
(* recv builds.  A Repository's collections point back at the Repository.  *)
FieldOf(w, class, recv) ==
    CASE class \in Repositories -> w
      [] class \in Iterators    -> recv
      [] class \in Branches     -> RepoOf(recv)
      [] OTHER                  -> None

(* The object whose memory the new C object refers to: an iterator walks   *)
(* the receiver's, and what comes from a repository refers to it           *)
NeedOf(class, recv) ==
    CASE class \in Iterators                     -> recv
      [] class \in Branches /\ recv # None /\ RepoOf(recv) # None -> heap[RepoOf(recv)].obj
      [] OTHER                                   -> None

(* Mutant of New: a Submodule gets no finalizer *)
NewUnfinalized(w, class, recv, fin) ==
    [class |-> class, up |-> FieldOf(w, class, recv), on |-> NeedOf(class, recv), obj |-> w,
     c |-> "live", ptr |-> TRUE, fin |-> fin /\ class # "Submodule"]

New(w, class, recv, fin) ==
    [class |-> class, up |-> FieldOf(w, class, recv), on |-> NeedOf(class, recv),
     obj |-> CASE class = "WeakRepository" -> heap[RepoOf(recv)].obj
               [] class = "Mempack"        -> recv
               [] OTHER                    -> w,
     c |-> "live", ptr |-> TRUE, fin |-> fin]

(* Mutant of Freed: the finalizer stays *)
FreedUnderFinalizer(w) ==
    LET h == heap[w] IN
    [h EXCEPT !.c   = IF ~h.ptr \/ h.class = "WeakRepository" THEN @
                      ELSE IF @ = "live" THEN "freed" ELSE "twice",
              !.ptr = @ /\ h.class \notin NilsPtr]

(* Free: the finalizer goes, then the C object, unless ptr is nil or the   *)
(* Repository is weak.  A Remote forgets its repository.                   *)
Freed(w) ==
    LET h == heap[w] IN
    [h EXCEPT !.fin = FALSE,
              !.c   = IF ~h.ptr \/ h.class = "WeakRepository" THEN @
                      ELSE IF @ = "live" THEN "freed" ELSE "twice",
              !.ptr = @ /\ h.class \notin NilsPtr,
              !.up  = IF h.class = "Remote" THEN None ELSE @]

(* The C objects that a call on w works on *)
Needed(w) ==
    LET o == heap[w].obj
        n == heap[o].on
    IN  {o} \cup (IF n = None THEN {} ELSE {n, heap[n].on})

Usable(w) == \A n \in Needed(w) \ {None} : heap[n].c = "live"

---------------------------------------------------------------------------
(* What reaches what *)

(* A method mentions a variable from a step on when that step or a later   *)
(* one names it: the arguments of a C call are read before the call, so    *)
(* the call itself does not                                                *)
Ahead(kinds, first) == \E i \in 1..Len(op.m.steps) : i >= first /\ op.m.steps[i] \in kinds

ReceiverMentioned ==
    \/ Ahead({"keep", "field", "give"}, op.pc)
    \/ Ahead({"make", "alloc"}, op.pc) /\ op.m.makes \in Branches \cup Iterators
    \/ Ahead({"use", "check"}, op.pc + 1)

ArgumentMentioned == Ahead({"keepArg", "give"}, op.pc)

Mentioned ==
    IF ~Running THEN {}
    ELSE {op.tmp, op.res} \cup (IF ReceiverMentioned THEN {op.recv} ELSE {})
                          \cup (IF ArgumentMentioned THEN {op.arg} ELSE {})

Fields(S)  == {heap[w].up : w \in S \ {None}}
Reach(S)   == S \cup Fields(S) \cup Fields(Fields(S))

(* A Remote is in the maps of its Repository and of the library until one  *)
(* of the two is freed                                                     *)
Tracked == {w \in Made : heap[w].class = "Remote" /\ heap[w].up # None /\ heap[heap[w].up].ptr}

InVariables == Reach(held \cup Mentioned)
Reachable   == InVariables \cup Reach(Tracked)

(* A set finalizer holds what the fields of its wrapper reach, and so the  *)
(* wrapper itself when it is on a cycle                                    *)
HeldByFinalizer == UNION {Reach({heap[u].up}) : u \in {v \in Made : heap[v].fin}}

---------------------------------------------------------------------------
Init ==
    /\ heap = [w \in Wrapper |-> None]
    /\ held = {}
    /\ op   = Idle

(* Methods of Object work on what embeds it, and those of Repository on a  *)
(* weak one                                                                *)
HasClass(w, class) ==
    \/ heap[w].class = class
    \/ class = "Object" /\ heap[w].class \in Objects
    \/ class = "Repository" /\ heap[w].class = "WeakRepository"

(* A caller uses no wrapper that it freed, except where the method checks  *)
Call(m, recv, arg) ==
    /\ IF m.on = "none" THEN recv = None
       ELSE /\ recv \in held /\ HasClass(recv, m.on)
            /\ m.steps[1] = "check" \/ heap[recv].ptr
            /\ ~heap[recv].ptr \/ Usable(recv)
    /\ IF m.arg = "none" THEN arg = None
       ELSE /\ arg \in held \ {recv} /\ HasClass(arg, m.arg) /\ heap[arg].ptr /\ Usable(arg)
            /\ heap[arg].c = "live"
    /\ op' = [recv |-> recv, arg |-> arg, tmp |-> None, res |-> None, pc |-> 1, m |-> m]
    /\ UNCHANGED <<heap, held>>

(* The method goes on from o, or returns *)
Continue(o) ==
    IF o.pc = Len(o.m.steps)
    THEN op' = Idle /\ held' = held \cup ({o.res} \ {None})
    ELSE op' = [o EXCEPT !.pc = @ + 1] /\ UNCHANGED held

Return == op' = Idle /\ UNCHANGED held

Work ==
    /\ Running
    /\ Step \in {"use", "useUp", "read", "keep", "keepArg", "dup"}
    /\ Continue(op)
    /\ UNCHANGED heap

Check ==
    /\ Running
    /\ Step = "check"
    /\ IF heap[op.recv].ptr THEN Continue(op) ELSE Return
    /\ UNCHANGED heap

Make ==
    /\ Running
    /\ Step \in {"make", "alloc"}
    /\ \A u \in Made : Together(heap[u].class, op.m.makes)
    /\ \E w \in Wrapper \ Made :
         /\ heap' = [heap EXCEPT ![w] = New(w, op.m.makes, op.recv, Step = "make")]
         /\ Continue([op EXCEPT !.res = w])

MakeTemporary ==
    /\ Running
    /\ Step = "temp"
    /\ \E w \in Wrapper \ Made :
         /\ heap' = [heap EXCEPT ![w] = New(w, "Object", op.recv, TRUE)]
         /\ Continue([op EXCEPT !.tmp = w])

FreeTemporary ==
    /\ Running
    /\ Step = "freeTemp"
    /\ heap' = [heap EXCEPT ![op.tmp] = Freed(op.tmp)]
    /\ Continue([op EXCEPT !.tmp = None])

(* Mutant of Fail: the wrapper that was not built is returned *)
FailWithResult ==
    /\ Running
    /\ Step \in {"make", "alloc", "temp"}
    /\ op' = Idle
    /\ held' = held \cup {op.res}
    /\ UNCHANGED heap

(* git reports an error where a wrapper would be built; a temporary that   *)
(* exists is freed                                                         *)
Fail ==
    /\ Running
    /\ Step \in {"make", "alloc", "temp"}
    /\ IF op.tmp = None THEN Return
       ELSE op' = [op EXCEPT !.pc = Len(op.m.steps)] /\ UNCHANGED held
    /\ UNCHANGED heap

Give ==
    /\ Running
    /\ Step = "give"
    /\ \/ heap' = [heap EXCEPT ![op.arg].c = "given", ![op.arg].obj = op.recv]
       \/ heap' = [heap EXCEPT ![op.arg] = Freed(op.arg)]
    /\ Continue(op)

ReadField ==
    /\ Running
    /\ Step = "field"
    /\ Continue([op EXCEPT !.res = heap[op.recv].up])
    /\ UNCHANGED heap

---------------------------------------------------------------------------
(* The caller forgets a wrapper *)
Drop(w) ==
    /\ w \in held
    /\ held' = held \ {w}
    /\ UNCHANGED <<heap, op>>

(* The caller frees a wrapper that no call and no other wrapper of the     *)
(* caller needs, and frees it again only where Free allows it: that of a   *)
(* Remote works on its repository                                          *)
Free(w) ==
    /\ ~Running
    /\ w \in held
    /\ heap[w].c = "live" \/ (~heap[w].ptr /\ heap[w].class # "Remote")
    /\ \A u \in (InVariables \cap Made) \ {w} : w \notin Needed(u)
    /\ heap' = [heap EXCEPT ![w] = Freed(w)]
    /\ UNCHANGED <<held, op>>

(* The collector runs the finalizer of a wrapper that nothing reaches *)
Collect(w) ==
    /\ w \in Made
    /\ heap[w].fin
    /\ w \notin Reachable \cup HeldByFinalizer
    /\ heap' = [heap EXCEPT ![w] = Freed(w)]
    /\ UNCHANGED <<held, op>>

(* It takes back the place of one whose finalizer has gone *)
Sweep(w) ==
    /\ w \in Made
    /\ ~heap[w].fin
    /\ w \notin Reachable \cup HeldByFinalizer
    /\ \A u \in Made \ {w} : w \notin {heap[u].up, heap[u].obj, heap[u].on}
    /\ w \notin {op.recv, op.arg}
    /\ heap' = [heap EXCEPT ![w] = None]
    /\ UNCHANGED <<held, op>>

Next ==
    \/ /\ ~Running
       /\ \E m \in Methods, recv, arg \in held \cup {None} : Call(m, recv, arg)
    \/ Work \/ Check \/ Make \/ MakeTemporary \/ FreeTemporary \/ Fail \/ Give \/ ReadField
    \/ \E w \in Wrapper : Drop(w) \/ Free(w) \/ Collect(w) \/ Sweep(w)

Spec == Init /\ [][Next]_vars

---------------------------------------------------------------------------
(* Every place has a wrapper or none, the caller holds wrappers that are   *)
(* there, and a method that runs is at one of its steps *)
TypeOK ==
    /\ heap \in [Wrapper -> Wrapped \cup {None}]
    /\ held \subseteq Made
    /\ Running => /\ op.m \in Methods
                  /\ op.pc \in 1..Len(op.m.steps)
                  /\ {op.recv, op.arg, op.tmp, op.res} \subseteq Made \cup {None}

(* The methods that leave out a KeepAlive that they need, or copy from C   *)
(* memory after it.  OdbObject.Data is documented to need it of the caller.*)
Unkept ==
    {"Reference.SymbolicTarget", "ReferenceNameIterator.Next", "Branch.Name", "SetRefdb",
     "CreateCommit(tree)", "CreateCommitBuffer(tree)", "TreeBuilderFromTree", "CheckoutIndex",
     "Index.AddFromBuffer", "Note.Author", "Note.Id", "Note.Committer",
     "Commit.ExtractSignature", "Blame.HunkByIndex", "Blame.HunkByLine", "Rebase.OperationAt",
     "Rebase.Next", "Refspec.Direction", "Refspec.Force", "Refspec.SrcMatches",
     "Refspec.DstMatches", "Refspec.Transform", "Refspec.Rtransform", "Credential.HasUsername",
     "Credential.Type", "Credential.GetUserpassPlaintext", "Credential.GetSSHKey",
     "ResetToCommit", "ResetDefaultToCommit", "OdbObject.Data", "Mempack.Dump", "Mempack.Reset",
     "Submodule.FetchRecurseSubmodules",
     "Remote.Name", "Remote.Url", "Remote.PushUrl", "Remote.Ls", "Remote.PruneRefs"}

(* The wrappers whose C objects the running step works on *)
InUse ==
    IF ~Running THEN {}
    ELSE CASE Step = "use"   -> {op.recv, op.arg}
           [] Step = "read"  -> {op.recv}
           [] Step = "dup"   -> {op.tmp}
           [] Step = "useUp" -> {RepoOf(op.recv)}
           [] OTHER          -> {}

(* While a C function works on the object of a wrapper, or Go copies its   *)
(* memory, no finalizer has freed that object or one that it refers to,    *)
(* whatever the caller drops meanwhile: the KeepAlive calls of the methods *)
(* and the repo fields of the wrappers suffice, but for the methods above. *)
NoUseAfterFree ==
    \A w \in InUse \ {None} : Usable(w) \/ op.m.names \subseteq Unkept

(* No C object is freed twice: neither by a finalizer after a Free, nor by *)
(* both the owner that it was handed to and its wrapper, nor by a Free of  *)
(* a method's temporary.                                                   *)
FreedOnce == \A w \in Made : heap[w].c # "twice"

(* Config, ConfigIterator and the backends come without a finalizer from   *)
(* some of their constructors; a Repository points at itself, so that its  *)
(* finalizer never runs                                                    *)
Unfreed == {"Repository", "WeakRepository", "Config", "ConfigIterator", "OdbBackend",
            "RefdbBackend"}

(* A wrapper that the caller can no longer reach and whose C object is its *)
(* own and not freed has a finalizer that can run: no constructor forgets  *)
(* to set it and no cycle of wrappers holds it.                            *)
NothingLeaks ==
    \A w \in Made \ Reachable :
        heap[w].c = "live" /\ heap[w].obj = w /\ heap[w].class \notin Unfreed
            => heap[w].fin /\ w \notin Reach({heap[w].up})
=============================================================================
