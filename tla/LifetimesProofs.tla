-------------------------- MODULE LifetimesProofs --------------------------
(***************************************************************************)
(* That no C object is freed while it is in use, nor twice, nor never, for *)
(* any number of wrappers.                                                 *)
(*                                                                         *)
(* What the proof needs of the methods is Sound, which the table has: a    *)
(* method that is not in Unkept mentions its receiver and its argument     *)
(* until it has done with them.  What it needs of the wrappers is Shapes:  *)
(* the C objects behind a wrapper are its own, that of what its Go field   *)
(* points to, or a Repository's, which no finalizer ever frees.            *)
(***************************************************************************)
EXTENDS Lifetimes, TLAPS

\* The kinds of steps in a list.
Kinds(s)   == {s[i] : i \in DOMAIN s}

\* The classes whose objects an Odb or a Refdb takes over or lends.
Backends   == {"OdbBackend", "RefdbBackend"}
Adopted    == Backends \cup {"Mempack"}

\* The classes whose Repository is never forgotten, and the methods' classes
\* that stand for them.
Rooted     == Branches \ {"Index", "Remote"}
Sources    == Rooted \cup Repositories
Linked     == Branches \cup Iterators

\* A list of steps is not empty, checks first and gives last.
Ordered(s) ==
  /\ Len(s) \in Nat \ {0} /\ DOMAIN s = 1..Len(s)
  /\ \A i \in DOMAIN s : (s[i] = "check" => i = 1) /\ (s[i] = "give" => i = Len(s))

\* It has one of these steps at or after its last use.
Uses == {"use", "read"}
Until(s, kinds) ==
  \E j \in DOMAIN s : s[j] \in kinds /\ \A i \in DOMAIN s : i > j => s[i] \notin Uses

\* What mentions the receiver and the argument.
Keeping    == {"keep", "field", "give"}
Making     == {"make", "alloc"}
KeepingArg == {"keepArg", "give"}

\* What a method may build, and of what.
Builds(m) ==
  /\ "make" \in Kinds(m.steps) => m.makes \notin Adopted
  /\ "alloc" \in Kinds(m.steps) => m.makes \in Adopted \cup {"Config", "ConfigIterator"}
  /\ Kinds(m.steps) \cap Making # {} =>
       /\ m.makes \in Rooted => m.on \in Sources
       /\ m.makes \in {"Index", "Remote"} => m.on \in Sources \cup {"none"}
       /\ m.makes \in Iterators => m.on \in {"Config", "Index"}
       /\ m.makes = "WeakRepository" => m.on \in {"Object", "Reference"}
       /\ m.makes = "Mempack" => m.on = "Odb"

\* How it takes and returns what it does not build.
Handles(m) ==
  /\ Kinds(m.steps) \cap {"temp", "dup", "freeTemp"} # {} =>
       m.steps = FindTyped /\ m.on = "Repository"
  /\ "give" \in Kinds(m.steps) => m.arg \in Backends /\ m.on # "none"
  /\ "field" \in Kinds(m.steps) => m.on = "IndexConflictIterator"
  /\ "useUp" \in Kinds(m.steps) => m.on \in Sources
  /\ m.on \notin Backends /\ m.arg # "Mempack"

\* How long it mentions what it uses.
Keeps(m) ==
  /\ \/ m.on \in {"none", "Repository"}
     \/ m.on # "Mempack" /\ \/ Until(m.steps, Keeping)
                            \/ m.makes \in Linked /\ Until(m.steps, Making)
  /\ m.arg \in {"none", "Repository"} \/ Until(m.steps, KeepingArg)

\* A method is a record of these fields.
Formed(m) == m = [on |-> m.on, names |-> m.names, arg |-> m.arg, makes |-> m.makes,
                  steps |-> m.steps]

\* What the proof needs of a method: its KeepAlive calls suffice, or it is in
\* Unkept.
Sound(m) == /\ Formed(m) /\ Ordered(m.steps) /\ Builds(m) /\ Handles(m)
            /\ m.names \subseteq Unkept \/ Keeps(m)

\* How the wrappers hang together, by the class of each.
Shape(w) ==
  LET h == heap[w]
  IN  /\ h.class = "Repository" => h.up = w /\ h.obj = w /\ h.on = None
      /\ h.class = "WeakRepository" =>
           /\ h.up = w /\ h.on = None
           /\ h.obj \in Made /\ heap[h.obj].class = "Repository"
      /\ h.class \in Branches =>
           /\ h.obj = w
           /\ h.on # None => h.on \in Made /\ heap[h.on].class = "Repository"
           /\ h.up # None => /\ h.up \in Made /\ heap[h.up].class \in Repositories
                             /\ h.on = heap[h.up].obj
           /\ h.class \in Rooted => h.up # None
      /\ h.class \in Iterators =>
           /\ h.obj = w /\ h.up = h.on
           /\ h.up \in Made /\ heap[h.up].class \in {"Config", "Index"}
      /\ h.class \notin Repositories \cup Branches \cup Iterators =>
           h.up = None /\ h.on = None
      /\ h.class \notin Repositories \cup Branches \cup Iterators \cup Adopted => h.obj = w
      /\ h.class \in Backends /\ h.c = "live" => h.obj = w
      /\ h.class = "Mempack" => h.obj # w
      /\ h.obj \in Made

\* Every wrapper has the shape of its class.
Shapes == \A w \in Made : Shape(w)

\* A C object is freed at most once, and the wrapper that has it for its own
\* has a finalizer as long as it lives.
Status == \A w \in Made :
  /\ heap[w].c # "twice"
  /\ heap[w].fin => heap[w].c = "live"
  /\ heap[w].class \in Adopted => ~heap[w].fin
  /\ heap[w].c = "live" =>
       /\ heap[w].class \notin Unfreed \cup {"Mempack"} => heap[w].fin
       /\ heap[w].class # "WeakRepository" => heap[w].ptr

\* A method that runs.
Op == [recv : Wrapper \cup {None}, arg : Wrapper \cup {None},
       tmp : Wrapper \cup {None}, res : Wrapper \cup {None}, pc : Nat, m : Methods]

\* A class of wrappers on which methods of a class may be called.
Fits(class, on) == \/ class = on
                   \/ on = "Object" /\ class \in Objects
                   \/ on = "Repository" /\ class = "WeakRepository"

\* What a method has been called on, and what it has built for itself.
Operation ==
  IF ~Running THEN op = Idle
  ELSE /\ op \in Op
       /\ IF op.m.on = "none" THEN op.recv = None
          ELSE op.recv # None /\ Fits(heap[op.recv].class, op.m.on)
       /\ IF op.m.arg = "none" THEN op.arg = None
          ELSE op.arg \notin {None, op.recv} /\ Fits(heap[op.arg].class, op.m.arg)
       /\ op.m.arg \in Backends => heap[op.arg].c = "live"
       /\ op.m.steps = FindTyped /\ op.pc >= 3 => op.tmp # None
       /\ op.tmp # None =>
            /\ op.m.steps = FindTyped /\ op.pc >= 3
            /\ heap[op.tmp].class = "Object" /\ heap[op.tmp].c = "live"
            /\ heap[op.tmp].on = heap[op.recv].obj

\* What the method still has to do with is live, and so are the Repositories
\* behind it, whatever it mentions.
Alive ==
  Running =>
    /\ op.recv # None /\ (heap[op.recv].ptr \/ Step # "check") =>
         \A n \in Needed(op.recv) \ {None} :
           \/ heap[n].c = "live"
           \/ /\ heap[n].class # "Repository"
              /\ ReceiverMentioned => heap[op.recv].class = "Mempack"
    /\ op.arg # None =>
         \A n \in Needed(op.arg) \ {None} :
           \/ heap[n].c = "live"
           \/ heap[n].class # "Repository" /\ ~ArgumentMentioned

\* The inductive invariant.
IInv == TypeOK /\ Shapes /\ Status /\ Operation /\ Alive
-----------------------------------------------------------------------------
\* The lists of steps of the table, the named ones first.
LEMMA Lists ==
  /\ Ordered(Kept) /\ Kinds(Kept) = {"use", "keep"}
  /\ Until(Kept, Keeping)
  /\ Ordered(Read) /\ Kinds(Read) = {"use", "read", "keep"}
  /\ Until(Read, Keeping)
  /\ Ordered(Late) /\ Kinds(Late) = {"use", "keep", "read"}
  /\ Ordered(Bare) /\ Kinds(Bare) = {"use"}
  /\ Ordered(BareRead) /\ Kinds(BareRead) = {"use", "read"}
  /\ Ordered(KeptMake) /\ Kinds(KeptMake) = {"use", "keep", "make"}
  /\ Until(KeptMake, Keeping) /\ Until(KeptMake, Making)
  /\ Ordered(BareMake) /\ Kinds(BareMake) = {"use", "make"}
  /\ Until(BareMake, Making)
  /\ Ordered(MakeKept) /\ Kinds(MakeKept) = {"use", "make", "keep"}
  /\ Until(MakeKept, Keeping) /\ Until(MakeKept, Making)
  /\ Ordered(KeptBoth) /\ Kinds(KeptBoth) = {"use", "keep", "keepArg"}
  /\ Until(KeptBoth, Keeping) /\ Until(KeptBoth, KeepingArg)
  /\ Ordered(ArgMake) /\ Kinds(ArgMake) = {"use", "keepArg", "make"}
  /\ Until(ArgMake, KeepingArg) /\ Until(ArgMake, Making)
  /\ Ordered(Duplicate) /\ Kinds(Duplicate) = {"use", "keep", "make"}
  /\ Until(Duplicate, Keeping) /\ Until(Duplicate, Making)
  /\ Ordered(FindTyped)
  /\ Kinds(FindTyped) = {"use", "temp", "dup", "make", "freeTemp"}
  /\ Ordered(<<"alloc">>) /\ Kinds(<<"alloc">>) = {"alloc"}
  /\ Until(<<"alloc">>, Making)
  /\ Ordered(<<"field">>) /\ Kinds(<<"field">>) = {"field"}
  /\ Until(<<"field">>, Keeping)
  /\ Ordered(<<"make">>) /\ Kinds(<<"make">>) = {"make"}
  /\ Until(<<"make">>, Making)
  /\ Ordered(<<"use", "alloc">>)
  /\ Kinds(<<"use", "alloc">>) = {"use", "alloc"}
  /\ Until(<<"use", "alloc">>, Making)
  /\ Ordered(<<"use", "keepArg">>)
  /\ Kinds(<<"use", "keepArg">>) = {"use", "keepArg"}
  /\ Until(<<"use", "keepArg">>, KeepingArg)
  /\ Ordered(<<"check", "use", "keep">>)
  /\ Kinds(<<"check", "use", "keep">>) = {"check", "use", "keep"}
  /\ Until(<<"check", "use", "keep">>, Keeping)
  /\ Ordered(<<"use", "keep", "alloc">>)
  /\ Kinds(<<"use", "keep", "alloc">>) = {"use", "keep", "alloc"}
  /\ Until(<<"use", "keep", "alloc">>, Keeping)
  /\ Until(<<"use", "keep", "alloc">>, Making)
  /\ Ordered(<<"use", "keep", "give">>)
  /\ Kinds(<<"use", "keep", "give">>) = {"use", "keep", "give"}
  /\ Until(<<"use", "keep", "give">>, Keeping)
  /\ Until(<<"use", "keep", "give">>, KeepingArg)
  /\ Ordered(<<"use", "use", "read">>)
  /\ Kinds(<<"use", "use", "read">>) = {"use", "read"}
  /\ Ordered(<<"check", "use", "keep", "make">>)
  /\ Kinds(<<"check", "use", "keep", "make">>) = {"check", "use", "keep", "make"}
  /\ Until(<<"check", "use", "keep", "make">>, Keeping)
  /\ Until(<<"check", "use", "keep", "make">>, Making)
  /\ Ordered(<<"check", "use", "read", "keep">>)
  /\ Kinds(<<"check", "use", "read", "keep">>) = {"check", "use", "read", "keep"}
  /\ Until(<<"check", "use", "read", "keep">>, Keeping)
  /\ Ordered(<<"use", "keep", "keepArg", "alloc">>)
  /\ Kinds(<<"use", "keep", "keepArg", "alloc">>) = {"use", "keep", "keepArg", "alloc"}
  /\ Until(<<"use", "keep", "keepArg", "alloc">>, Keeping)
  /\ Until(<<"use", "keep", "keepArg", "alloc">>, KeepingArg)
  /\ Until(<<"use", "keep", "keepArg", "alloc">>, Making)
  /\ Ordered(<<"use", "keep", "keepArg", "give">>)
  /\ Kinds(<<"use", "keep", "keepArg", "give">>) = {"use", "keep", "keepArg", "give"}
  /\ Until(<<"use", "keep", "keepArg", "give">>, Keeping)
  /\ Until(<<"use", "keep", "keepArg", "give">>, KeepingArg)
  /\ Ordered(<<"use", "keep", "keepArg", "make">>)
  /\ Kinds(<<"use", "keep", "keepArg", "make">>) = {"use", "keep", "keepArg", "make"}
  /\ Until(<<"use", "keep", "keepArg", "make">>, Keeping)
  /\ Until(<<"use", "keep", "keepArg", "make">>, KeepingArg)
  /\ Until(<<"use", "keep", "keepArg", "make">>, Making)
  /\ Ordered(<<"use", "keep", "keepArg", "make", "keep">>)
  /\ Kinds(<<"use", "keep", "keepArg", "make", "keep">>) = {"use", "keep", "keepArg", "make"}
  /\ Until(<<"use", "keep", "keepArg", "make", "keep">>, Keeping)
  /\ Until(<<"use", "keep", "keepArg", "make", "keep">>, KeepingArg)
  /\ Until(<<"use", "keep", "keepArg", "make", "keep">>, Making)
  /\ Ordered(<<"use", "read", "keep", "use", "useUp">>)
  /\ Kinds(<<"use", "read", "keep", "use", "useUp">>) = {"use", "read", "keep", "useUp"}
  /\ Ordered(<<"use", "keep", "use", "read", "keep", "useUp">>)
  /\ Kinds(<<"use", "keep", "use", "read", "keep", "useUp">>) = {"use", "keep", "read", "useUp"}
  /\ Until(<<"use", "keep", "use", "read", "keep", "useUp">>, Keeping)
  /\ Ordered(<<"use", "keep", "useUp", "make", "use", "keep">>)
  /\ Kinds(<<"use", "keep", "useUp", "make", "use", "keep">>) = {"use", "keep", "useUp", "make"}
  /\ Until(<<"use", "keep", "useUp", "make", "use", "keep">>, Keeping)
<1>1. /\ Ordered(Kept) /\ Kinds(Kept) = {"use", "keep"}
       /\ Until(Kept, Keeping)
  BY DEF Ordered, Kinds, Until, Uses, Keeping, Kept
<1>2. /\ Ordered(Read) /\ Kinds(Read) = {"use", "read", "keep"}
       /\ Until(Read, Keeping)
  BY DEF Ordered, Kinds, Until, Uses, Keeping, Read
<1>3. /\ Ordered(Late) /\ Kinds(Late) = {"use", "keep", "read"}
  BY DEF Ordered, Kinds, Late
<1>4. /\ Ordered(Bare) /\ Kinds(Bare) = {"use"}
  BY DEF Ordered, Kinds, Bare
<1>5. /\ Ordered(BareRead) /\ Kinds(BareRead) = {"use", "read"}
  BY DEF Ordered, Kinds, BareRead
<1>6. /\ Ordered(KeptMake) /\ Kinds(KeptMake) = {"use", "keep", "make"}
       /\ Until(KeptMake, Keeping) /\ Until(KeptMake, Making)
  BY DEF Ordered, Kinds, Until, Uses, Keeping, Making, KeptMake
<1>7. /\ Ordered(BareMake) /\ Kinds(BareMake) = {"use", "make"}
       /\ Until(BareMake, Making)
  BY DEF Ordered, Kinds, Until, Uses, Making, BareMake
<1>8. /\ Ordered(MakeKept) /\ Kinds(MakeKept) = {"use", "make", "keep"}
       /\ Until(MakeKept, Keeping) /\ Until(MakeKept, Making)
  BY DEF Ordered, Kinds, Until, Uses, Keeping, Making, MakeKept
<1>9. /\ Ordered(KeptBoth) /\ Kinds(KeptBoth) = {"use", "keep", "keepArg"}
       /\ Until(KeptBoth, Keeping) /\ Until(KeptBoth, KeepingArg)
  BY DEF Ordered, Kinds, Until, Uses, Keeping, KeepingArg, KeptBoth
<1>10. /\ Ordered(ArgMake) /\ Kinds(ArgMake) = {"use", "keepArg", "make"}
       /\ Until(ArgMake, KeepingArg) /\ Until(ArgMake, Making)
  BY DEF Ordered, Kinds, Until, Uses, KeepingArg, Making, ArgMake
<1>11. /\ Ordered(Duplicate) /\ Kinds(Duplicate) = {"use", "keep", "make"}
       /\ Until(Duplicate, Keeping) /\ Until(Duplicate, Making)
  BY DEF Ordered, Kinds, Until, Uses, Keeping, Making, Duplicate
<1>12. /\ Ordered(FindTyped)
       /\ Kinds(FindTyped) = {"use", "temp", "dup", "make", "freeTemp"}
  BY DEF Ordered, Kinds, FindTyped
<1>13. /\ Ordered(<<"alloc">>) /\ Kinds(<<"alloc">>) = {"alloc"}
       /\ Until(<<"alloc">>, Making)
  BY DEF Ordered, Kinds, Until, Uses, Making
<1>14. /\ Ordered(<<"field">>) /\ Kinds(<<"field">>) = {"field"}
       /\ Until(<<"field">>, Keeping)
  BY DEF Ordered, Kinds, Until, Uses, Keeping
<1>15. /\ Ordered(<<"make">>) /\ Kinds(<<"make">>) = {"make"}
       /\ Until(<<"make">>, Making)
  BY DEF Ordered, Kinds, Until, Uses, Making
<1>16. /\ Ordered(<<"use", "alloc">>)
       /\ Kinds(<<"use", "alloc">>) = {"use", "alloc"}
       /\ Until(<<"use", "alloc">>, Making)
  BY DEF Ordered, Kinds, Until, Uses, Making
<1>17. /\ Ordered(<<"use", "keepArg">>)
       /\ Kinds(<<"use", "keepArg">>) = {"use", "keepArg"}
       /\ Until(<<"use", "keepArg">>, KeepingArg)
  BY DEF Ordered, Kinds, Until, Uses, KeepingArg
<1>18. /\ Ordered(<<"check", "use", "keep">>)
       /\ Kinds(<<"check", "use", "keep">>) = {"check", "use", "keep"}
       /\ Until(<<"check", "use", "keep">>, Keeping)
  BY DEF Ordered, Kinds, Until, Uses, Keeping
<1>19. /\ Ordered(<<"use", "keep", "alloc">>)
       /\ Kinds(<<"use", "keep", "alloc">>) = {"use", "keep", "alloc"}
       /\ Until(<<"use", "keep", "alloc">>, Keeping)
       /\ Until(<<"use", "keep", "alloc">>, Making)
  BY DEF Ordered, Kinds, Until, Uses, Keeping, Making
<1>20. /\ Ordered(<<"use", "keep", "give">>)
       /\ Kinds(<<"use", "keep", "give">>) = {"use", "keep", "give"}
       /\ Until(<<"use", "keep", "give">>, Keeping)
       /\ Until(<<"use", "keep", "give">>, KeepingArg)
  BY DEF Ordered, Kinds, Until, Uses, Keeping, KeepingArg
<1>21. /\ Ordered(<<"use", "use", "read">>)
       /\ Kinds(<<"use", "use", "read">>) = {"use", "read"}
  BY DEF Ordered, Kinds
<1>22. /\ Ordered(<<"check", "use", "keep", "make">>)
       /\ Kinds(<<"check", "use", "keep", "make">>) = {"check", "use", "keep", "make"}
       /\ Until(<<"check", "use", "keep", "make">>, Keeping)
       /\ Until(<<"check", "use", "keep", "make">>, Making)
  BY DEF Ordered, Kinds, Until, Uses, Keeping, Making
<1>23. /\ Ordered(<<"check", "use", "read", "keep">>)
       /\ Kinds(<<"check", "use", "read", "keep">>) = {"check", "use", "read", "keep"}
       /\ Until(<<"check", "use", "read", "keep">>, Keeping)
  BY DEF Ordered, Kinds, Until, Uses, Keeping
<1>24. /\ Ordered(<<"use", "keep", "keepArg", "alloc">>)
       /\ Kinds(<<"use", "keep", "keepArg", "alloc">>) = {"use", "keep", "keepArg", "alloc"}
       /\ Until(<<"use", "keep", "keepArg", "alloc">>, Keeping)
       /\ Until(<<"use", "keep", "keepArg", "alloc">>, KeepingArg)
       /\ Until(<<"use", "keep", "keepArg", "alloc">>, Making)
  BY DEF Ordered, Kinds, Until, Uses, Keeping, KeepingArg, Making
<1>25. /\ Ordered(<<"use", "keep", "keepArg", "give">>)
       /\ Kinds(<<"use", "keep", "keepArg", "give">>) = {"use", "keep", "keepArg", "give"}
       /\ Until(<<"use", "keep", "keepArg", "give">>, Keeping)
       /\ Until(<<"use", "keep", "keepArg", "give">>, KeepingArg)
  BY DEF Ordered, Kinds, Until, Uses, Keeping, KeepingArg
<1>26. /\ Ordered(<<"use", "keep", "keepArg", "make">>)
       /\ Kinds(<<"use", "keep", "keepArg", "make">>) = {"use", "keep", "keepArg", "make"}
       /\ Until(<<"use", "keep", "keepArg", "make">>, Keeping)
       /\ Until(<<"use", "keep", "keepArg", "make">>, KeepingArg)
       /\ Until(<<"use", "keep", "keepArg", "make">>, Making)
  BY DEF Ordered, Kinds, Until, Uses, Keeping, KeepingArg, Making
<1>27. /\ Ordered(<<"use", "keep", "keepArg", "make", "keep">>)
       /\ Kinds(<<"use", "keep", "keepArg", "make", "keep">>) = {"use", "keep", "keepArg", "make"}
       /\ Until(<<"use", "keep", "keepArg", "make", "keep">>, Keeping)
       /\ Until(<<"use", "keep", "keepArg", "make", "keep">>, KeepingArg)
       /\ Until(<<"use", "keep", "keepArg", "make", "keep">>, Making)
  BY DEF Ordered, Kinds, Until, Uses, Keeping, KeepingArg, Making
<1>28. /\ Ordered(<<"use", "read", "keep", "use", "useUp">>)
       /\ Kinds(<<"use", "read", "keep", "use", "useUp">>) = {"use", "read", "keep", "useUp"}
  BY DEF Ordered, Kinds
<1>29. /\ Ordered(<<"use", "keep", "use", "read", "keep", "useUp">>)
       /\ Kinds(<<"use", "keep", "use", "read", "keep", "useUp">>) =
             {"use", "keep", "read", "useUp"}
       /\ Until(<<"use", "keep", "use", "read", "keep", "useUp">>, Keeping)
  BY DEF Ordered, Kinds, Until, Uses, Keeping
<1>30. /\ Ordered(<<"use", "keep", "useUp", "make", "use", "keep">>)
       /\ Kinds(<<"use", "keep", "useUp", "make", "use", "keep">>) =
             {"use", "keep", "useUp", "make"}
       /\ Until(<<"use", "keep", "useUp", "make", "use", "keep">>, Keeping)
  BY DEF Ordered, Kinds, Until, Uses, Keeping
<1> QED BY <1>1, <1>2, <1>3, <1>4, <1>5, <1>6, <1>7, <1>8, <1>9, <1>10, <1>11, <1>12,
           <1>13, <1>14, <1>15, <1>16, <1>17, <1>18, <1>19, <1>20, <1>21, <1>22, <1>23,
           <1>24, <1>25, <1>26, <1>27, <1>28, <1>29, <1>30

\* The methods that the table lists.
LEMMA ListedSound == \A m \in Listed : Sound(m)
<1>1. \A m \in ObjectConversions : Sound(m)
  <2> SUFFICES ASSUME NEW m \in ObjectConversions PROVE Sound(m)
    OBVIOUS
  <2>1. /\ m.on = "Object" /\ m.arg = "none"
        /\ m.makes \in {"Tree", "Commit", "Blob", "Tag", "Object"}
        /\ m.steps \in {Duplicate, KeptMake}
    BY DEF ObjectConversions, M
  <2>2. m.makes \in Linked /\ m.makes \in Rooted /\ m.makes \notin Adopted
        /\ m.makes \notin Iterators \cup {"Index", "Remote", "WeakRepository", "Mempack"}
    BY <2>1 DEF Linked, Rooted, Adopted, Backends, Branches, Objects, Iterators
  <2>3. Ordered(m.steps) /\ Until(m.steps, Keeping)
        /\ Kinds(m.steps) = {"use", "keep", "make"}
    BY <2>1, Lists
  <2>4. m.on \in Sources
    BY <2>1 DEF Sources, Rooted, Branches, Objects
  <2>5. Builds(m)
    BY <2>2, <2>3, <2>4 DEF Builds
  <2>6. Handles(m) /\ Keeps(m)
    BY <2>1, <2>3 DEF Handles, Keeps, Backends
  <2>7. Formed(m)
    BY DEF ObjectConversions, M, Formed
  <2> QED BY <2>3, <2>5, <2>6, <2>7 DEF Sound
<1>2. \A m \in RepositoryLookups : Sound(m)
  <2> SUFFICES ASSUME NEW m \in RepositoryLookups PROVE Sound(m)
    OBVIOUS
  <2>1. /\ m.on = "Repository" /\ m.arg = "none"
        /\ m.makes \in {"Tree", "Commit", "Blob", "Tag", "Object"}
        /\ m.steps \in {FindTyped, BareMake}
    BY DEF RepositoryLookups, M
  <2>2. m.makes \in Linked /\ m.makes \in Rooted /\ m.makes \notin Adopted
        /\ m.makes \notin Iterators \cup {"Index", "Remote", "WeakRepository", "Mempack"}
    BY <2>1 DEF Linked, Rooted, Adopted, Backends, Branches, Objects, Iterators
  <2>3. /\ Ordered(m.steps)
        /\ Kinds(m.steps) \in {{"use", "make"}, {"use", "temp", "dup", "make", "freeTemp"}}
        /\ m.steps = BareMake => Kinds(m.steps) = {"use", "make"}
    BY <2>1, Lists
  <2>4. m.on \in Sources
    BY <2>1 DEF Sources, Repositories
  <2>5. Builds(m)
    BY <2>2, <2>3, <2>4 DEF Builds
  <2>6. Handles(m) /\ Keeps(m)
    BY <2>1, <2>3 DEF Handles, Keeps, Backends
  <2>7. Formed(m)
    BY DEF RepositoryLookups, M, Formed
  <2> QED BY <2>3, <2>5, <2>6, <2>7 DEF Sound
<1> USE Lists DEF M, Sound, Formed, Builds, Handles, Keeps, Unkept, Backends, Adopted, Rooted,
       Sources, Linked, Branches, Objects, Iterators, Repositories, Making
<1>3. \A m \in ReferenceCollectionMethods : Sound(m)
  BY DEF ReferenceCollectionMethods
<1>4. \A m \in ReferenceMethods : Sound(m)
  BY DEF ReferenceMethods
<1>5. \A m \in ReferenceQueries : Sound(m)
  BY DEF ReferenceQueries
<1>6. \A m \in ReferenceIteratorMethods : Sound(m)
  BY DEF ReferenceIteratorMethods
<1>7. \A m \in BranchIteratorMethods : Sound(m)
  BY DEF BranchIteratorMethods
<1>8. \A m \in BranchMethods : Sound(m)
  BY DEF BranchMethods
<1>9. \A m \in ObjectMethods : Sound(m)
  BY DEF ObjectMethods
<1>10. \A m \in CommitSigning : Sound(m)
  BY DEF CommitSigning
<1>11. \A m \in CommitMethods : Sound(m)
  BY DEF CommitMethods
<1>12. \A m \in TreeMethods : Sound(m)
  BY DEF TreeMethods
<1>13. \A m \in TreeBuilderMethods : Sound(m)
  BY DEF TreeBuilderMethods
<1>14. \A m \in BlobMethods : Sound(m)
  BY DEF BlobMethods
<1>15. \A m \in TagMethods : Sound(m)
  BY DEF TagMethods
<1>16. \A m \in TagCollectionMethods : Sound(m)
  BY DEF TagCollectionMethods
<1>17. \A m \in RepositoryConstructors : Sound(m)
  BY DEF RepositoryConstructors
<1>18. \A m \in RepositoryParts : Sound(m)
  BY DEF RepositoryParts
<1>19. \A m \in RepositoryHeads : Sound(m)
  BY DEF RepositoryHeads
<1>20. \A m \in CommitCreation : Sound(m)
  BY DEF CommitCreation
<1>21. \A m \in RepositoryQueries : Sound(m)
  BY DEF RepositoryQueries
<1>22. \A m \in RepositoryState : Sound(m)
  BY DEF RepositoryState
<1>23. \A m \in Revparsing : Sound(m)
  BY DEF Revparsing
<1>24. \A m \in Resets : Sound(m)
  BY DEF Resets
<1>25. \A m \in GraphQueries : Sound(m)
  BY DEF GraphQueries
<1>26. \A m \in IgnoreRules : Sound(m)
  BY DEF IgnoreRules
<1>27. \A m \in AnnotatedCommitMethods : Sound(m)
  BY DEF AnnotatedCommitMethods
<1>28. \A m \in MergeMethods : Sound(m)
  BY DEF MergeMethods
<1>29. \A m \in MergeBases : Sound(m)
  BY DEF MergeBases
<1>30. \A m \in MergeFileMethods : Sound(m)
  BY DEF MergeFileMethods
<1>31. \A m \in Cherrypicks : Sound(m)
  BY DEF Cherrypicks
<1>32. \A m \in Reverts : Sound(m)
  BY DEF Reverts
<1>33. \A m \in StashSave : Sound(m)
  BY DEF StashSave
<1>34. \A m \in StashCalls : Sound(m)
  BY DEF StashCalls
<1>35. \A m \in Checkouts : Sound(m)
  BY DEF Checkouts
<1>36. \A m \in StatusListMethods : Sound(m)
  BY DEF StatusListMethods
<1>37. \A m \in StatusMethods : Sound(m)
  BY DEF StatusMethods
<1>38. \A m \in RevWalkMethods : Sound(m)
  BY DEF RevWalkMethods
<1>39. \A m \in NoteCollectionMethods : Sound(m)
  BY DEF NoteCollectionMethods
<1>40. \A m \in NoteMethods : Sound(m)
  BY DEF NoteMethods
<1>41. \A m \in SubmoduleCollectionMethods : Sound(m)
  BY DEF SubmoduleCollectionMethods
<1>42. \A m \in SubmoduleMethods : Sound(m)
  BY DEF SubmoduleMethods
<1>43. \A m \in RebaseConstructors : Sound(m)
  BY DEF RebaseConstructors
<1>44. \A m \in RebaseMethods : Sound(m)
  BY DEF RebaseMethods
<1>45. \A m \in PackbuilderMethods : Sound(m)
  BY DEF PackbuilderMethods
<1>46. \A m \in RemoteConstructors : Sound(m)
  BY DEF RemoteConstructors
<1>47. \A m \in RemoteList : Sound(m)
  BY DEF RemoteList
<1>48. \A m \in RemoteNames : Sound(m)
  BY DEF RemoteNames
<1>49. \A m \in RemoteSettings : Sound(m)
  BY DEF RemoteSettings
<1>50. \A m \in RemoteRefspecs : Sound(m)
  BY DEF RemoteRefspecs
<1>51. \A m \in RemoteTransfers : Sound(m)
  BY DEF RemoteTransfers
<1>52. \A m \in RemoteHeads : Sound(m)
  BY DEF RemoteHeads
<1>53. \A m \in RemotePushes : Sound(m)
  BY DEF RemotePushes
<1>54. \A m \in ConfigReads : Sound(m)
  BY DEF ConfigReads
<1>55. \A m \in ConfigWrites : Sound(m)
  BY DEF ConfigWrites
<1>56. \A m \in ConfigOpens : Sound(m)
  BY DEF ConfigOpens
<1>57. \A m \in IndexWrites : Sound(m)
  BY DEF IndexWrites
<1>58. \A m \in IndexMatches : Sound(m)
  BY DEF IndexMatches
<1>59. \A m \in IndexTrees : Sound(m)
  BY DEF IndexTrees
<1>60. \A m \in IndexConflicts : Sound(m)
  BY DEF IndexConflicts
<1>61. \A m \in IndexConflictIterators : Sound(m)
  BY DEF IndexConflictIterators
<1>62. \A m \in OdbMethods : Sound(m)
  BY DEF OdbMethods
<1>63. \A m \in OdbReads : Sound(m)
  BY DEF OdbReads
<1>64. \A m \in OdbStreams : Sound(m)
  BY DEF OdbStreams
<1>65. \A m \in OdbObjectMethods : Sound(m)
  BY DEF OdbObjectMethods
<1>66. \A m \in OdbStreamMethods : Sound(m)
  BY DEF OdbStreamMethods
<1>67. \A m \in MempackMethods : Sound(m)
  BY DEF MempackMethods
<1>68. \A m \in RefdbMethods : Sound(m)
  BY DEF RefdbMethods
<1>69. \A m \in IndexerMethods : Sound(m)
  BY DEF IndexerMethods
<1>70. \A m \in DiffMethods : Sound(m)
  BY DEF DiffMethods
<1>71. \A m \in DiffStatsMethods : Sound(m)
  BY DEF DiffStatsMethods
<1>72. \A m \in DiffOutputs : Sound(m)
  BY DEF DiffOutputs
<1>73. \A m \in DiffConstructors : Sound(m)
  BY DEF DiffConstructors
<1>74. \A m \in DiffApplications : Sound(m)
  BY DEF DiffApplications
<1>75. \A m \in PatchMethods : Sound(m)
  BY DEF PatchMethods
<1>76. \A m \in BlameMethods : Sound(m)
  BY DEF BlameMethods
<1>77. \A m \in DescribeMethods : Sound(m)
  BY DEF DescribeMethods
<1>78. \A m \in RefspecMethods : Sound(m)
  BY DEF RefspecMethods
<1>79. \A m \in CredentialMethods : Sound(m)
  BY DEF CredentialMethods
<1>80. \A m \in RevWalkIteration : Sound(m)
  BY DEF RevWalkIteration
<1>81. \A m \in DiffBuffers : Sound(m)
  BY DEF DiffBuffers
<1>82. \A m \in SmartCredentials : Sound(m)
  BY DEF SmartCredentials
<1>83. \A m \in OpenDefault : Sound(m)
  BY DEF OpenDefault
<1>84. \A m \in DiffBlobs : Sound(m)
  BY DEF DiffBlobs
<1> HIDE Lists DEF M, Sound, Formed, Builds, Handles, Keeps, Unkept, Backends, Adopted, Rooted,
       Sources, Linked, Branches, Objects, Iterators, Repositories, Making
<1> QED BY <1>1, <1>2, <1>3, <1>4, <1>5, <1>6, <1>7, <1>8, <1>9, <1>10, <1>11, <1>12,
           <1>13, <1>14, <1>15, <1>16, <1>17, <1>18, <1>19, <1>20, <1>21, <1>22, <1>23,
           <1>24, <1>25, <1>26, <1>27, <1>28, <1>29, <1>30, <1>31, <1>32, <1>33, <1>34,
           <1>35, <1>36, <1>37, <1>38, <1>39, <1>40, <1>41, <1>42, <1>43, <1>44, <1>45,
           <1>46, <1>47, <1>48, <1>49, <1>50, <1>51, <1>52, <1>53, <1>54, <1>55, <1>56,
           <1>57, <1>58, <1>59, <1>60, <1>61, <1>62, <1>63, <1>64, <1>65, <1>66, <1>67,
           <1>68, <1>69, <1>70, <1>71, <1>72, <1>73, <1>74, <1>75, <1>76, <1>77, <1>78,
           <1>79, <1>80, <1>81, <1>82, <1>83, <1>84 DEF Listed

\* The methods are those of the table, by their steps: a method does what each
\* of those does that it stands for.
LEMMA MethodsSound == \A m \in Methods : Sound(m)
<1> DEFINE Alike(m) == {n \in Listed : [n EXCEPT !.names = {}] = [m EXCEPT !.names = {}]}
<1>1. ASSUME NEW l \in Listed, NEW m,
             m = [l EXCEPT !.names = UNION {n.names : n \in Alike(l)}]
      PROVE  Sound(m)
  <2>1. Sound(l) /\ Formed(l)
    BY ListedSound DEF Sound
  <2>2. /\ m.on = l.on /\ m.arg = l.arg /\ m.makes = l.makes /\ m.steps = l.steps
        /\ m.names = UNION {n.names : n \in Alike(l)}
        /\ Formed(m)
    BY <1>1, <2>1 DEF Formed
  <2>3. ASSUME NEW n \in Alike(l)
        PROVE  /\ Sound(n) /\ n.on = l.on /\ n.arg = l.arg /\ n.makes = l.makes
               /\ n.steps = l.steps
    <3>1. Formed(n) /\ Sound(n)
      BY ListedSound DEF Sound
    <3> QED BY <2>1, <3>1 DEF Formed
  <2>4. Ordered(m.steps) /\ Builds(m) /\ Handles(m)
    BY <2>1, <2>2 DEF Sound, Builds, Handles
  <2>5. m.names \subseteq Unkept \/ Keeps(m)
    <3>1. CASE \A n \in Alike(l) : n.names \subseteq Unkept
      BY <3>1, <2>2
    <3>2. CASE \E n \in Alike(l) : ~(n.names \subseteq Unkept)
      <4>1. PICK n \in Alike(l) : ~(n.names \subseteq Unkept)
        BY <3>2
      <4>2. Keeps(n)
        BY <4>1, <2>3 DEF Sound
      <4> QED BY <4>2, <2>2, <2>3 DEF Keeps
    <3> QED BY <3>1, <3>2
  <2> QED BY <2>2, <2>4, <2>5 DEF Sound
<1> QED BY <1>1 DEF Methods
-----------------------------------------------------------------------------
(***************************************************************************)
(* The wrappers                                                            *)
(***************************************************************************)
\* The classes of the wrappers.
Classes == {m.makes : m \in Methods}

\* Some method builds an Object.
LEMMA ObjectIsMade == "Object" \in Classes
<1> DEFINE Alike(m) == {n \in Listed : [n EXCEPT !.names = {}] = [m EXCEPT !.names = {}]}
           find == [on |-> "Repository", names |-> {"Lookup", "LookupPrefix"},
                    arg |-> "none", makes |-> "Object", steps |-> BareMake]
           m == [find EXCEPT !.names = UNION {n.names : n \in Alike(find)}]
<1>1. find \in RepositoryLookups
  BY DEF RepositoryLookups, M
<1>2. find \in Listed
  BY <1>1 DEF Listed
<1>3. m \in Methods
  BY <1>2 DEF Methods
<1>4. m.makes = "Object"
  OBVIOUS
<1> QED BY <1>3, <1>4 DEF Classes

\* A place with a wrapper, and what the wrapper's fields are.
LEMMA WrapperFacts ==
  ASSUME TypeOK
  PROVE  /\ None \notin Wrapper /\ Made \subseteq Wrapper /\ None \notin Made
         /\ \A w \in Wrapper : w \in Made <=> heap[w] # None
         /\ \A w \in Made :
              /\ heap[w] \in Wrapped /\ heap[w].class \in Classes
              /\ heap[w].up \in Wrapper \cup {None} /\ heap[w].obj \in Wrapper
              /\ heap[w].on \in Wrapper \cup {None}
              /\ heap[w].c \in {"live", "freed", "twice", "given"}
              /\ heap[w].ptr \in BOOLEAN /\ heap[w].fin \in BOOLEAN
<1>1. None \notin Wrapper /\ None \notin Wrapped
  BY NoneIsNoWrapper
<1>2. \A w \in Made : heap[w] \in Wrapped
  BY DEF TypeOK, Made
<1> QED BY <1>1, <1>2 DEF Made, Wrapped, Classes

\* A place that is given another value, and the others.
LEMMA Put ==
  ASSUME TypeOK, NEW w \in Wrapper, NEW x \in Wrapped, heap' = [heap EXCEPT ![w] = x]
  PROVE  /\ heap' \in [Wrapper -> Wrapped \cup {None}]
         /\ heap'[w] = x /\ \A u \in Wrapper \ {w} : heap'[u] = heap[u]
         /\ Made' = Made \cup {w}
<1>1. x # None
  BY NoneIsNoWrapper
<1>2. /\ heap' \in [Wrapper -> Wrapped \cup {None}]
      /\ heap'[w] = x /\ \A u \in Wrapper \ {w} : heap'[u] = heap[u]
  BY DEF TypeOK
<1> QED BY <1>1, <1>2 DEF Made

\* What Free leaves of a wrapper.
LEMMA FreedFacts ==
  ASSUME TypeOK, NEW w \in Made
  PROVE  /\ Freed(w) \in Wrapped
         /\ Freed(w).class = heap[w].class /\ Freed(w).obj = heap[w].obj
         /\ Freed(w).on = heap[w].on /\ Freed(w).fin = FALSE
         /\ Freed(w).up = IF heap[w].class = "Remote" THEN None ELSE heap[w].up
         /\ Freed(w).ptr = (heap[w].ptr /\ heap[w].class \notin NilsPtr)
         /\ Freed(w).c = IF ~heap[w].ptr \/ heap[w].class = "WeakRepository" THEN heap[w].c
                         ELSE IF heap[w].c = "live" THEN "freed" ELSE "twice"
<1>1. heap[w] \in Wrapped
  BY WrapperFacts
<1>2. /\ Freed(w).class = heap[w].class /\ Freed(w).obj = heap[w].obj
      /\ Freed(w).on = heap[w].on /\ Freed(w).fin = FALSE
      /\ Freed(w).up = IF heap[w].class = "Remote" THEN None ELSE heap[w].up
      /\ Freed(w).ptr = (heap[w].ptr /\ heap[w].class \notin NilsPtr)
      /\ Freed(w).c = IF ~heap[w].ptr \/ heap[w].class = "WeakRepository" THEN heap[w].c
                      ELSE IF heap[w].c = "live" THEN "freed" ELSE "twice"
  BY <1>1 DEF Freed, Wrapped
<1>3. Freed(w) \in Wrapped
  BY <1>1, <1>2 DEF Freed, Wrapped
<1> QED BY <1>2, <1>3

\* What a call on a wrapper works on.
LEMMA NeededFacts ==
  ASSUME TypeOK, Shapes, NEW w \in Made
  PROVE  /\ heap[w].obj \in Made /\ heap[w].obj \in Needed(w)
         /\ heap[w].on \in Made \cup {None}
         /\ heap[heap[w].obj].on \in Made \cup {None}
         /\ Needed(w) \ {None} \subseteq Made
         /\ heap[w].obj = w /\ heap[w].on # None => heap[w].on \in Needed(w)
<1>1. ASSUME NEW u \in Made
      PROVE  heap[u].obj \in Made /\ heap[u].on \in Made \cup {None}
  <2>1. Shape(u)
    BY DEF Shapes
  <2>2. CASE heap[u].class \in Repositories
    BY <2>1, <2>2 DEF Shape, Repositories
  <2>3. CASE heap[u].class \in Branches
    BY <2>1, <2>3 DEF Shape
  <2>4. CASE heap[u].class \in Iterators
    BY <2>1, <2>4 DEF Shape
  <2>5. CASE heap[u].class \notin Repositories \cup Branches \cup Iterators
    BY <2>1, <2>5 DEF Shape
  <2> QED BY <2>2, <2>3, <2>4, <2>5
<1>2. /\ heap[w].obj \in Made /\ heap[w].on \in Made \cup {None}
      /\ heap[heap[w].obj].on \in Made \cup {None}
  BY <1>1
<1>3. heap[heap[w].obj].on # None => heap[heap[heap[w].obj].on].on \in Made \cup {None}
  BY <1>1, <1>2
<1> QED BY <1>2, <1>3, WrapperFacts DEF Needed

\* The objects behind a wrapper, by its class: its own, a Repository's, or that
\* of the wrapper that its Go field holds.
LEMMA NeededClasses ==
  ASSUME TypeOK, Shapes, NEW w \in Made, heap[w].class \notin Backends \cup {"Mempack"},
         NEW n \in Needed(w), n # None
  PROVE  n = w \/ n = heap[w].up \/ heap[n].class = "Repository"
<1> DEFINE o == heap[w].obj
<1>1. Shape(w) /\ o \in Made /\ Shape(o) /\ n \in Made
  BY NeededFacts DEF Shapes
<1>2. \A r \in Made : heap[r].class = "Repository" => heap[r].on = None /\ heap[r].obj = r
  BY DEF Shapes, Shape
<1>3. CASE heap[w].class \in Repositories
  <2>1. heap[o].class = "Repository"
    BY <1>1, <1>3 DEF Shape, Repositories
  <2> QED BY <2>1, <1>2, <1>1 DEF Needed
<1>4. CASE heap[w].class \in Branches
  <2>1. o = w /\ (heap[w].on # None => heap[w].on \in Made /\ heap[heap[w].on].class = "Repository")
    BY <1>1, <1>4 DEF Shape
  <2> QED BY <2>1, <1>2 DEF Needed
<1>5. CASE heap[w].class \in Iterators
  <2>1. /\ o = w /\ heap[w].up = heap[w].on /\ heap[w].up \in Made
        /\ heap[heap[w].up].class \in {"Config", "Index"}
    BY <1>1, <1>5 DEF Shape
  <2>2. heap[heap[w].up].on # None => heap[heap[heap[w].up].on].class = "Repository"
    BY <2>1 DEF Shapes, Shape, Branches, Objects, Repositories, Iterators
  <2> QED BY <2>1, <2>2 DEF Needed
<1>6. CASE heap[w].class \notin Repositories \cup Branches \cup Iterators
  <2>1. o = w /\ heap[w].on = None
    BY <1>1, <1>6 DEF Shape, Adopted
  <2> QED BY <2>1 DEF Needed
<1> QED BY <1>3, <1>4, <1>5, <1>6
-----------------------------------------------------------------------------
(***************************************************************************)
(* The method that runs                                                    *)
(***************************************************************************)
\* The method that runs is sound, and is at one of its steps.
LEMMA RunningFacts ==
  ASSUME TypeOK, Operation, Running
  PROVE  /\ op \in Op /\ op.m \in Methods /\ Sound(op.m)
         /\ Len(op.m.steps) \in Nat \ {0} /\ DOMAIN op.m.steps = 1..Len(op.m.steps)
         /\ op.pc \in 1..Len(op.m.steps) /\ Step \in Kinds(op.m.steps)
         /\ {op.recv, op.arg, op.tmp, op.res} \subseteq Made \cup {None}
         /\ Step = "check" => op.pc = 1
         /\ Step = "give" => op.pc = Len(op.m.steps)
<1>1. op \in Op /\ op.m \in Methods /\ Sound(op.m)
  BY MethodsSound DEF Operation, TypeOK
<1>2. Ordered(op.m.steps)
  BY <1>1 DEF Sound
<1>3. op.pc \in 1..Len(op.m.steps) /\ op.pc \in DOMAIN op.m.steps
  BY <1>2 DEF Ordered, TypeOK
<1> QED BY <1>1, <1>2, <1>3 DEF Ordered, TypeOK, Step, Kinds

\* The steps that make and free a temporary are those of the typed lookups.
LEMMA FindTypedFacts ==
  /\ \A m \in Methods : m.steps = FindTyped => m.on = "Repository"
  /\ \A m \in Methods : Kinds(m.steps) \cap {"temp", "dup", "freeTemp"} # {} =>
       m.steps = FindTyped /\ m.on = "Repository"
  /\ Len(FindTyped) = 5 /\ FindTyped[1] = "use" /\ FindTyped[2] = "temp"
  /\ FindTyped[3] = "dup" /\ FindTyped[4] = "make" /\ FindTyped[5] = "freeTemp"
<1>1. \A m \in Methods : Handles(m)
  BY MethodsSound DEF Sound
<1>2. "temp" \in Kinds(FindTyped)
  BY Lists
<1>3. /\ Len(FindTyped) = 5 /\ FindTyped[1] = "use" /\ FindTyped[2] = "temp"
      /\ FindTyped[3] = "dup" /\ FindTyped[4] = "make" /\ FindTyped[5] = "freeTemp"
  BY DEF FindTyped
<1> QED BY <1>1, <1>2, <1>3 DEF Handles

\* A method that moves on mentions no more than before.
LEMMA MentionedLess ==
  ASSUME op.pc \in Nat, op'.pc \in Nat, op'.pc >= op.pc, op'.m = op.m,
         Len(op.m.steps) \in Nat
  PROVE  /\ ReceiverMentioned' => ReceiverMentioned
         /\ ArgumentMentioned' => ArgumentMentioned
<1>1. \A kinds : Ahead(kinds, op.pc)' => Ahead(kinds, op.pc)
  BY DEF Ahead
<1>2. \A kinds : Ahead(kinds, op.pc + 1)' => Ahead(kinds, op.pc + 1)
  BY DEF Ahead
<1> QED BY <1>1, <1>2 DEF ReceiverMentioned, ArgumentMentioned

\* An operation at rest.
LEMMA IdleFacts ==
  ASSUME op = Idle
  PROVE  ~Running /\ Operation /\ Alive
BY DEF Idle, Running, Operation, Alive

\* The operation after a step: at rest, or the same one further on.
Moves(o) ==
  \/ op' = Idle
  \/ /\ op' \in Op /\ op'.m = op.m /\ op'.recv = op.recv /\ op'.arg = op.arg
     /\ op'.tmp = o.tmp /\ op'.res = o.res
     /\ op'.pc \in op.pc + 1..Len(op.m.steps)

\* Where Continue takes the operation.
LEMMA ContinueFacts ==
  ASSUME TypeOK, Operation, Running, NEW o \in Op,
         o.m = op.m, o.pc = op.pc, o.recv = op.recv, o.arg = op.arg, Continue(o)
  PROVE  /\ Moves(o)
         /\ \/ held' = held \cup ({o.res} \ {None}) /\ op' = Idle
            \/ held' = held /\ op'.pc = op.pc + 1 /\ op' # Idle
<1>1. op.pc \in 1..Len(op.m.steps) /\ Len(op.m.steps) \in Nat
  BY RunningFacts
<1>2. CASE op.pc = Len(op.m.steps)
  BY <1>2 DEF Continue, Moves
<1>3. CASE op.pc # Len(op.m.steps)
  <2>1. op' = [o EXCEPT !.pc = @ + 1] /\ held' = held
    BY <1>3 DEF Continue
  <2>2. /\ op' \in Op /\ op'.m = op.m /\ op'.recv = op.recv /\ op'.arg = op.arg
        /\ op'.tmp = o.tmp /\ op'.res = o.res /\ op'.pc = op.pc + 1
    BY <2>1, <1>1 DEF Op
  <2>3. op'.pc # 0
    BY <1>1, <2>2
  <2> QED BY <1>1, <1>3, <2>1, <2>2, <2>3 DEF Moves, Idle
<1> QED BY <1>2, <1>3

\* What stays when the wrappers that are there stay what they are.
LEMMA MovesOn ==
  ASSUME IInv, Running, NEW o \in Op, Moves(o),
         TypeOK', \A w \in Made : heap'[w] = heap[w] /\ w \in Made',
         op.recv # None => heap[op.recv].ptr \/ Step # "check",
         o.tmp = op.tmp \/ op' = Idle,
         op.m.steps = FindTyped /\ op'.pc >= 3 => op.tmp # None
  PROVE  Operation' /\ Alive'
<1>1. CASE op' = Idle
  BY <1>1, IdleFacts DEF Idle, Running, Operation, Alive
<1>2. CASE op' # Idle
  <2>1. /\ op' \in Op /\ op'.m = op.m /\ op'.recv = op.recv /\ op'.arg = op.arg
        /\ op'.tmp = op.tmp /\ op'.pc \in op.pc + 1..Len(op.m.steps)
    BY <1>2 DEF Moves
  <2>2. /\ op.pc \in 1..Len(op.m.steps) /\ Len(op.m.steps) \in Nat
        /\ {op.recv, op.arg, op.tmp, op.res} \subseteq Made \cup {None}
        /\ Running' /\ op'.pc \in Nat /\ op'.pc >= op.pc
    BY <2>1, RunningFacts DEF IInv, Running
  <2>3. Operation'
    <3>2. Operation /\ op \in Op
      BY RunningFacts DEF IInv
    <3>3. IF op'.m.on = "none" THEN op'.recv = None
          ELSE op'.recv # None /\ Fits(heap'[op'.recv].class, op'.m.on)
      BY <2>1, <2>2, <3>2 DEF Operation
    <3>4. IF op'.m.arg = "none" THEN op'.arg = None
          ELSE op'.arg \notin {None, op'.recv} /\ Fits(heap'[op'.arg].class, op'.m.arg)
      BY <2>1, <2>2, <3>2 DEF Operation
    <3>5. op'.m.arg \in Backends => heap'[op'.arg].c = "live"
      BY <2>1, <2>2, <3>2, <3>4 DEF Operation, Backends
    <3>6. op'.m.steps = FindTyped /\ op'.pc >= 3 => op'.tmp # None
      BY <2>1
    <3>7. op'.tmp # None =>
            /\ op'.m.steps = FindTyped /\ op'.pc >= 3
            /\ heap'[op'.tmp].class = "Object" /\ heap'[op'.tmp].c = "live"
            /\ heap'[op'.tmp].on = heap'[op'.recv].obj
      <4>1. op.tmp # None => op.m.steps = FindTyped /\ op.recv \in Made
        BY <2>2, <3>2, RunningFacts, FindTypedFacts DEF Operation, IInv
      <4> QED BY <2>1, <2>2, <3>2, <4>1 DEF Operation, IInv
    <3> QED BY <2>1, <2>2, <3>3, <3>4, <3>5, <3>6, <3>7 DEF Operation
  <2>4. \A w \in Made : Needed(w)' = Needed(w)
    BY NeededFacts DEF IInv, Needed
  <2>5. \A w \in Made : \A n \in Needed(w) \ {None} : heap'[n] = heap[n]
    BY NeededFacts DEF IInv
  <2>6. /\ ReceiverMentioned' => ReceiverMentioned
        /\ ArgumentMentioned' => ArgumentMentioned
    BY <2>1, <2>2, MentionedLess
  <2>7. Alive'
    BY <2>1, <2>2, <2>4, <2>5, <2>6 DEF IInv, Alive
  <2> QED BY <2>3, <2>7
<1> QED BY <1>1, <1>2
-----------------------------------------------------------------------------
(***************************************************************************)
(* The actions                                                             *)
(***************************************************************************)
\* What is said of the wrappers alone stays when the wrappers do.
LEMMA SameHeap ==
  ASSUME IInv, heap' = heap
  PROVE  Shapes' /\ Status' /\ Made' = Made
BY DEF IInv, Shapes, Shape, Status, Made

\* A method begins with its receiver and its argument usable.
LEMMA CallIInv ==
  ASSUME IInv, ~Running, NEW m \in Methods, NEW recv \in held \cup {None},
         NEW arg \in held \cup {None}, Call(m, recv, arg)
  PROVE  IInv'
<1>1. /\ op' = [recv |-> recv, arg |-> arg, tmp |-> None, res |-> None, pc |-> 1, m |-> m]
      /\ heap' = heap /\ held' = held /\ {recv, arg} \subseteq Made \cup {None}
      /\ held \subseteq Made /\ Made \subseteq Wrapper
  BY WrapperFacts DEF Call, IInv, TypeOK
<1>2. Ordered(m.steps) /\ Handles(m)
  BY MethodsSound DEF Sound
<1>3. Len(m.steps) \in Nat \ {0}
  BY <1>2 DEF Ordered
<1>4. Made' = Made /\ Shapes' /\ Status'
  BY <1>1, SameHeap
<1>5. TypeOK'
  BY <1>1, <1>3, <1>4 DEF IInv, TypeOK
<1>6. /\ op' \in Op /\ Running' /\ op'.m = m /\ op'.recv = recv /\ op'.arg = arg
      /\ op'.tmp = None /\ op'.pc = 1 /\ Step' = m.steps[1]
  BY <1>1 DEF Op, Running, Step
<1>7. /\ m.on = "none" => recv = None
      /\ m.on # "none" =>
           /\ recv \in Made /\ Fits(heap[recv].class, m.on)
           /\ m.steps[1] = "check" \/ heap[recv].ptr
           /\ heap[recv].ptr => Usable(recv)
      /\ m.arg = "none" => arg = None
      /\ m.arg # "none" =>
           /\ arg \in Made \ {recv} /\ Fits(heap[arg].class, m.arg)
           /\ Usable(arg) /\ heap[arg].c = "live"
  BY <1>1 DEF Call, HasClass, Fits
<1>8. None \notin Made
  BY WrapperFacts DEF IInv
<1>9. Operation'
  BY <1>1, <1>6, <1>7, <1>8 DEF Operation, Backends
<1>10. \A w \in Made : Needed(w)' = Needed(w)
  BY <1>1 DEF Needed
<1>11. Alive'
  BY <1>1, <1>6, <1>7, <1>8, <1>10 DEF Alive, Usable
<1> QED BY <1>4, <1>5, <1>9, <1>11 DEF IInv

\* A step that works on what it has.
LEMMA WorkIInv ==
  ASSUME IInv, Work
  PROVE  IInv'
<1>1. /\ Running /\ heap' = heap /\ Continue(op)
      /\ Step \in {"use", "useUp", "read", "keep", "keepArg", "dup"}
  BY DEF Work
<1>2. Made' = Made /\ Shapes' /\ Status'
  BY <1>1, SameHeap
<1>3. /\ op \in Op /\ Moves(op)
      /\ \/ held' = held \cup ({op.res} \ {None}) /\ op' = Idle
         \/ held' = held /\ op'.pc = op.pc + 1 /\ op' # Idle
  BY <1>1, ContinueFacts, RunningFacts DEF IInv
<1>4. TypeOK'
  BY <1>1, <1>2, <1>3, RunningFacts DEF IInv, TypeOK, Moves, Running, Idle
<1>5. ASSUME op.m.steps = FindTyped, op'.pc >= 3
      PROVE  op.tmp # None
  <2>1. op'.pc = op.pc + 1
    BY <1>3, <1>5 DEF Idle
  <2>2. op.pc # 2
    BY <1>1, <1>5, FindTypedFacts DEF Step
  <2> QED BY <1>1, <1>5, <2>1, <2>2, RunningFacts DEF IInv, Operation
<1>6. Operation' /\ Alive'
  BY <1>1, <1>2, <1>3, <1>4, <1>5, MovesOn
<1> QED BY <1>2, <1>4, <1>6 DEF IInv

\* A check lets only a wrapper with a pointer pass.
LEMMA CheckIInv ==
  ASSUME IInv, Check
  PROVE  IInv'
<1>1. Running /\ heap' = heap /\ Step = "check" /\ op \in Op
  BY RunningFacts DEF Check, IInv
<1>2. Made' = Made /\ Shapes' /\ Status'
  BY <1>1, SameHeap
<1>3. CASE ~heap[op.recv].ptr
  <2>1. op' = Idle /\ held' = held
    BY <1>1, <1>3 DEF Check, Return
  <2>2. TypeOK'
    BY <1>1, <1>2, <2>1 DEF IInv, TypeOK, Running, Idle
  <2> QED BY <1>2, <2>1, <2>2, IdleFacts DEF IInv, Idle, Running, Operation, Alive
<1>4. CASE heap[op.recv].ptr
  <2>1. /\ Moves(op)
        /\ \/ held' = held \cup ({op.res} \ {None}) /\ op' = Idle
           \/ held' = held /\ op'.pc = op.pc + 1 /\ op' # Idle
    BY <1>1, <1>4, ContinueFacts DEF IInv, Check
  <2>2. TypeOK'
    BY <1>1, <1>2, <2>1, RunningFacts DEF IInv, TypeOK, Moves, Running, Idle
  <2>3. op.m.steps # FindTyped
    BY <1>1, RunningFacts, Lists DEF IInv
  <2>4. Operation' /\ Alive'
    BY <1>1, <1>2, <1>4, <2>1, <2>2, <2>3, MovesOn
  <2> QED BY <1>2, <2>2, <2>4 DEF IInv
<1> QED BY <1>3, <1>4

\* A step at which git reports an error ends the method, or goes to the
\* deferred Free of its temporary.
LEMMA FailIInv ==
  ASSUME IInv, Fail
  PROVE  IInv'
<1>1. Running /\ heap' = heap /\ Step \in {"make", "alloc", "temp"} /\ op \in Op /\ held' = held
  BY RunningFacts DEF Fail, Return, IInv
<1>2. Made' = Made /\ Shapes' /\ Status'
  BY <1>1, SameHeap
<1>3. CASE op.tmp = None
  <2>1. op' = Idle
    BY <1>1, <1>3 DEF Fail, Return
  <2>2. TypeOK'
    BY <1>1, <1>2, <2>1 DEF IInv, TypeOK, Running, Idle
  <2> QED BY <1>2, <2>1, <2>2 DEF IInv, Idle, Running, Operation, Alive
<1>4. CASE op.tmp # None
  <2>1. op' = [op EXCEPT !.pc = Len(op.m.steps)] /\ op.m.steps = FindTyped /\ op.pc >= 3
    BY <1>1, <1>4 DEF Fail, IInv, Operation
  <2>2. Len(FindTyped) = 5 /\ op.pc = 4
    BY <1>1, <2>1, RunningFacts, FindTypedFacts DEF IInv, Step
  <2>3. Moves(op) /\ op' # Idle
    BY <1>1, <2>1, <2>2 DEF Moves, Op, Idle
  <2>4. TypeOK'
    BY <1>1, <1>2, <2>3, RunningFacts DEF IInv, TypeOK, Moves
  <2>5. Operation' /\ Alive'
    BY <1>1, <1>2, <1>4, <2>3, <2>4, MovesOn
  <2> QED BY <1>2, <2>4, <2>5 DEF IInv
<1> QED BY <1>3, <1>4

\* The wrapper that a field of the receiver points to is returned.
LEMMA ReadFieldIInv ==
  ASSUME IInv, ReadField
  PROVE  IInv'
<1> DEFINE o == [op EXCEPT !.res = heap[op.recv].up]
<1>1. Running /\ heap' = heap /\ Step = "field" /\ op \in Op /\ Continue(o)
  BY RunningFacts DEF ReadField, IInv
<1>2. Made' = Made /\ Shapes' /\ Status'
  BY <1>1, SameHeap
<1>3. op.recv \in Made /\ heap[op.recv].up \in Made
  <2>1. op.m.on = "IndexConflictIterator"
    BY <1>1, RunningFacts DEF IInv, Sound, Handles
  <2>2. op.recv \in Made /\ heap[op.recv].class = "IndexConflictIterator"
    BY <1>1, <2>1, RunningFacts DEF IInv, Operation, Fits
  <2> QED BY <2>2 DEF IInv, Shapes, Shape, Iterators
<1>4. /\ o \in Op /\ o.m = op.m /\ o.pc = op.pc /\ o.recv = op.recv /\ o.arg = op.arg
      /\ o.tmp = op.tmp /\ o.res = heap[op.recv].up
  BY <1>1, <1>3, WrapperFacts DEF Op, IInv
<1> HIDE DEF o
<1>5. /\ Moves(o)
      /\ \/ held' = held \cup ({o.res} \ {None}) /\ op' = Idle
         \/ held' = held /\ op'.pc = op.pc + 1 /\ op' # Idle
  BY <1>1, <1>4, ContinueFacts DEF IInv
<1>6. TypeOK'
  BY <1>1, <1>2, <1>3, <1>4, <1>5, RunningFacts DEF IInv, TypeOK, Moves, Running, Idle
<1>7. op.m.steps # FindTyped
  BY <1>1, RunningFacts, Lists DEF IInv
<1>8. Operation' /\ Alive'
  BY <1>1, <1>2, <1>4, <1>5, <1>6, <1>7, MovesOn
<1> QED BY <1>2, <1>6, <1>8 DEF IInv
-----------------------------------------------------------------------------
\* The Repository that a wrapper belongs to.
LEMMA RepoFacts ==
  ASSUME TypeOK, Shapes, NEW u \in Made, heap[u].class \in Sources
  PROVE  /\ RepoOf(u) \in Made /\ heap[RepoOf(u)].class \in Repositories
         /\ heap[RepoOf(u)].obj \in Made /\ heap[heap[RepoOf(u)].obj].class = "Repository"
         /\ u # None
<1> DEFINE r == RepoOf(u)
<1>1. u # None /\ None \notin Made
  BY WrapperFacts
<1>2. r \in Made /\ heap[r].class \in Repositories
  <2>1. CASE heap[u].class \in Repositories
    BY <1>1, <2>1 DEF RepoOf
  <2>2. CASE heap[u].class \in Rooted
    BY <1>1, <2>2 DEF RepoOf, Shapes, Shape, Rooted, Branches, Objects, Repositories
  <2> QED BY <2>1, <2>2 DEF Sources
<1>3. heap[r].obj \in Made /\ heap[heap[r].obj].class = "Repository"
  BY <1>2 DEF Shapes, Shape, Repositories
<1> QED BY <1>1, <1>2, <1>3

\* What a wrapper of a class is built from.
Source(class, recv) ==
  /\ class \in Rooted \cup {"WeakRepository"} => recv # None /\ heap[recv].class \in Sources
  /\ class \in {"Index", "Remote"} => recv = None \/ heap[recv].class \in Sources
  /\ class \in Iterators => recv # None /\ heap[recv].class \in {"Config", "Index"}
  /\ class = "Mempack" => recv # None

\* A new wrapper among those that are there.
LEMMA NewFacts ==
  ASSUME TypeOK, Shapes, NEW w \in Wrapper \ Made, NEW class \in Classes,
         NEW recv \in Made \cup {None}, NEW fin \in BOOLEAN, Source(class, recv),
         heap' = [heap EXCEPT ![w] = New(w, class, recv, fin)]
  PROVE  /\ heap' \in [Wrapper -> Wrapped \cup {None}]
         /\ Made' = Made \cup {w} /\ \A u \in Made : heap'[u] = heap[u]
         /\ heap'[w].class = class /\ heap'[w].c = "live" /\ heap'[w].ptr = TRUE
         /\ heap'[w].fin = fin /\ heap'[w].on = NeedOf(class, recv)
         /\ Shapes'
<1> DEFINE x == New(w, class, recv, fin)
<1>1. /\ x = [class |-> x.class, up |-> x.up, on |-> x.on, obj |-> x.obj,
              c |-> x.c, ptr |-> x.ptr, fin |-> x.fin]
      /\ x.class = class /\ x.up = FieldOf(w, class, recv) /\ x.on = NeedOf(class, recv)
      /\ x.c = "live" /\ x.ptr = TRUE /\ x.fin = fin
      /\ class = "WeakRepository" => x.obj = heap[RepoOf(recv)].obj
      /\ class = "Mempack" => x.obj = recv
      /\ class \notin {"WeakRepository", "Mempack"} => x.obj = w
  BY DEF New
<1> HIDE DEF x
<1>2. /\ None \notin Wrapper /\ Made \subseteq Wrapper /\ None \notin Made
      /\ recv # None /\ heap[recv].class \in Sources =>
           /\ RepoOf(recv) \in Made /\ heap[RepoOf(recv)].class \in Repositories
           /\ heap[RepoOf(recv)].obj \in Made
           /\ heap[heap[RepoOf(recv)].obj].class = "Repository"
  BY RepoFacts, WrapperFacts
<1>3. class \in Repositories =>
        /\ x.up = w /\ x.on = None
        /\ class = "Repository" => x.obj = w
        /\ class = "WeakRepository" => x.obj \in Made /\ heap[x.obj].class = "Repository"
  <2>1. class \in Repositories => x.up = w /\ x.on = None
    BY <1>1 DEF FieldOf, NeedOf, Repositories, Iterators, Branches, Objects
  <2> QED BY <2>1, <1>1, <1>2 DEF Source
<1>4. class \in Branches =>
        /\ x.obj = w /\ x.up \in Made \cup {None}
        /\ x.on # None => x.on \in Made /\ heap[x.on].class = "Repository"
        /\ x.up # None => heap[x.up].class \in Repositories /\ x.on = heap[x.up].obj
        /\ class \in Rooted => x.up # None
  <2>1. ASSUME class \in Branches
        PROVE  /\ x.up = RepoOf(recv) /\ x.obj = w
               /\ x.on = IF recv # None /\ RepoOf(recv) # None
                         THEN heap[RepoOf(recv)].obj ELSE None
    BY <1>1, <2>1 DEF FieldOf, NeedOf, Repositories, Iterators, Branches, Objects
  <2>2. class \in Branches => recv = None \/ heap[recv].class \in Sources
    BY DEF Source, Rooted
  <2>3. recv = None => RepoOf(recv) = None /\ class \notin Rooted
    BY DEF RepoOf, Source
  <2> QED BY <2>1, <2>2, <2>3, <1>2
<1>5. class \in Iterators =>
        /\ x.obj = w /\ x.up = x.on /\ x.up = recv
        /\ recv \in Made /\ heap[recv].class \in {"Config", "Index"}
  BY <1>1 DEF Source, FieldOf, NeedOf, Iterators, Repositories, Branches, Objects
<1>6. class \notin Repositories \cup Branches \cup Iterators =>
        /\ x.up = None /\ x.on = None
        /\ IF class = "Mempack" THEN x.obj = recv /\ recv \in Made ELSE x.obj = w
  BY <1>1 DEF Source, FieldOf, NeedOf, Repositories
<1>7. x \in Wrapped
  <2>1. /\ x.up \in Wrapper \cup {None} /\ x.obj \in Wrapper
        /\ x.on \in Wrapper \cup {None}
    BY <1>2, <1>3, <1>4, <1>5, <1>6 DEF Repositories
  <2> QED BY <1>1, <2>1 DEF Wrapped, Classes
<1>8. /\ heap' \in [Wrapper -> Wrapped \cup {None}] /\ Made' = Made \cup {w}
      /\ heap'[w] = x /\ \A u \in Made : heap'[u] = heap[u]
  BY <1>2, <1>7, Put DEF x
<1>9. ASSUME NEW u \in Made
      PROVE  Shape(u)'
  <2>1. /\ Shape(u) /\ heap[u].obj \in Made
        /\ heap[u].on \in Made \cup {None} /\ heap'[u] = heap[u]
    BY <1>8, NeededFacts DEF Shapes
  <2>2. CASE heap[u].class \in Repositories
    BY <1>8, <2>1, <2>2 DEF Shape, Repositories, Branches, Objects, Iterators, Adopted, Backends
  <2>3. CASE heap[u].class \in Branches
    BY <1>8, <2>1, <2>3 DEF Shape, Repositories, Branches, Objects, Iterators, Adopted, Backends
  <2>4. CASE heap[u].class \in Iterators
    BY <1>8, <2>1, <2>4 DEF Shape, Repositories, Branches, Objects, Iterators, Adopted, Backends
  <2>5. CASE heap[u].class \notin Repositories \cup Branches \cup Iterators
    BY <1>8, <2>1, <2>5 DEF Shape, Repositories
  <2> QED BY <2>2, <2>3, <2>4, <2>5
<1>10. Shape(w)'
  <2>1. heap'[w] = x /\ x.class = class /\ w \in Made' /\ Made \subseteq Made' /\ w \notin Made
    BY <1>1, <1>8
  <2>2. CASE class \in Repositories
    BY <1>3, <1>8, <2>1, <2>2 DEF Shape, Repositories, Branches, Objects, Iterators, Adopted,
       Backends
  <2>3. CASE class \in Branches
    BY <1>2, <1>4, <1>8, <2>1, <2>3 DEF Shape, Repositories, Branches, Objects, Iterators,
       Adopted, Backends
  <2>4. CASE class \in Iterators
    BY <1>5, <1>8, <2>1, <2>4 DEF Shape, Repositories, Branches, Objects, Iterators, Adopted,
       Backends
  <2>5. CASE class \notin Repositories \cup Branches \cup Iterators
    BY <1>6, <1>8, <2>1, <2>5 DEF Shape, Repositories, Adopted, Backends
  <2> QED BY <2>2, <2>3, <2>4, <2>5
<1>11. Shapes'
  BY <1>8, <1>9, <1>10 DEF Shapes
<1> QED BY <1>1, <1>8, <1>11

\* The wrappers' status when one is added.
LEMMA NewStatus ==
  ASSUME Status, NEW w, Made' = Made \cup {w}, \A u \in Made : heap'[u] = heap[u],
         heap'[w].c = "live", heap'[w].ptr = TRUE,
         heap'[w].class \in Adopted => ~heap'[w].fin,
         heap'[w].class \notin Unfreed \cup {"Mempack"} => heap'[w].fin
  PROVE  Status'
BY DEF Status

\* A method builds its result.
LEMMA MakeIInv ==
  ASSUME IInv, Make
  PROVE  IInv'
<1>1. Running /\ Step \in {"make", "alloc"} /\ op \in Op
  BY RunningFacts DEF Make, IInv
<1> DEFINE class == op.m.makes  recv == op.recv  fin == (Step = "make")
<1>2. PICK w \in Wrapper \ Made :
        /\ heap' = [heap EXCEPT ![w] = New(w, op.m.makes, op.recv, Step = "make")]
        /\ Continue([op EXCEPT !.res = w])
  BY DEF Make
<1> DEFINE o == [op EXCEPT !.res = w]
<1>3. /\ o \in Op /\ o.m = op.m /\ o.pc = op.pc /\ o.recv = op.recv /\ o.arg = op.arg
      /\ o.tmp = op.tmp /\ o.res = w /\ Continue(o)
  BY <1>1, <1>2 DEF Op
<1> HIDE DEF o
<1>4. class \in Classes /\ recv \in Made \cup {None} /\ fin \in BOOLEAN
  BY <1>1, RunningFacts DEF IInv, Classes
<1>5. Builds(op.m) /\ Kinds(op.m.steps) \cap Making # {} /\ Step \in Kinds(op.m.steps)
  BY <1>1, RunningFacts DEF IInv, Sound, Making
<1>6. Source(class, recv)
  <2>1. op.m.on = "none" => recv = None
    BY <1>1, RunningFacts DEF IInv, Operation
  <2>2. op.m.on # "none" => recv # None /\ Fits(heap[recv].class, op.m.on)
    BY <1>1, RunningFacts DEF IInv, Operation
  <2>3. op.m.on \in Sources => op.m.on # "none" /\ heap[recv].class \in Sources
    BY <2>2 DEF Fits, Sources, Rooted, Branches, Objects, Repositories
  <2>4. op.m.on \in {"Object", "Reference"} => op.m.on \in Sources
    BY DEF Sources, Rooted, Branches, Objects
  <2>5. op.m.on \in {"Config", "Index"} => recv # None /\ heap[recv].class = op.m.on
    BY <2>2 DEF Fits
  <2>6. op.m.on = "Odb" => recv # None
    BY <2>2
  <2>7. class \in Rooted \cup {"WeakRepository"} => recv # None /\ heap[recv].class \in Sources
    BY <1>5, <2>2, <2>3, <2>4 DEF Builds
  <2>8. class \in {"Index", "Remote"} => recv = None \/ heap[recv].class \in Sources
    BY <1>5, <2>1, <2>3 DEF Builds
  <2>9. class \in Iterators => recv # None /\ heap[recv].class \in {"Config", "Index"}
    BY <1>5, <2>5 DEF Builds
  <2>10. class = "Mempack" => recv # None
    BY <1>5, <2>6 DEF Builds
  <2> QED BY <2>7, <2>8, <2>9, <2>10 DEF Source
<1>7. /\ heap' \in [Wrapper -> Wrapped \cup {None}]
      /\ Made' = Made \cup {w} /\ \A u \in Made : heap'[u] = heap[u]
      /\ heap'[w].class = class /\ heap'[w].c = "live" /\ heap'[w].ptr = TRUE
      /\ heap'[w].fin = fin
      /\ Shapes'
  <2> HIDE DEF class, recv, fin
  <2>1. heap' = [heap EXCEPT ![w] = New(w, class, recv, fin)]
    BY <1>2 DEF class, recv, fin
  <2> QED BY <1>4, <1>6, <2>1, NewFacts DEF IInv
<1>8. Status'
  <2>1. class \in Adopted => ~fin
    BY <1>1, <1>5 DEF Builds
  <2>2. class \notin Unfreed \cup {"Mempack"} => fin
    BY <1>1, <1>5 DEF Builds, Unfreed, Adopted, Backends
  <2> QED BY <1>7, <2>1, <2>2, NewStatus DEF IInv
<1>9. /\ Moves(o)
      /\ \/ held' = held \cup ({o.res} \ {None}) /\ op' = Idle
         \/ held' = held /\ op'.pc = op.pc + 1 /\ op' # Idle
  BY <1>1, <1>3, ContinueFacts DEF IInv
<1>10. TypeOK'
  BY <1>1, <1>3, <1>7, <1>9, RunningFacts DEF IInv, TypeOK, Moves, Running, Idle
<1>11. ASSUME op.m.steps = FindTyped, op'.pc >= 3
       PROVE  op.tmp # None
  <2>1. op.pc = 4
    BY <1>1, <1>11, RunningFacts, FindTypedFacts DEF IInv, Step
  <2> QED BY <1>1, <1>11, <2>1 DEF IInv, Operation
<1>12. heap[op.recv].ptr \/ Step # "check"
  BY <1>1
<1>13. Operation' /\ Alive'
  BY <1>1, <1>3, <1>7, <1>9, <1>10, <1>11, <1>12, MovesOn
<1> QED BY <1>7, <1>8, <1>10, <1>13 DEF IInv

\* A typed lookup builds its temporary.
LEMMA MakeTemporaryIInv ==
  ASSUME IInv, MakeTemporary
  PROVE  IInv'
<1>1. /\ Running /\ Step = "temp" /\ op \in Op /\ op.m \in Methods
      /\ op.recv \in Made \cup {None} /\ {op.arg, op.res} \subseteq Made \cup {None}
  BY RunningFacts DEF MakeTemporary, IInv
<1>2. PICK w \in Wrapper \ Made :
        /\ heap' = [heap EXCEPT ![w] = New(w, "Object", op.recv, TRUE)]
        /\ Continue([op EXCEPT !.tmp = w])
  BY DEF MakeTemporary
<1> DEFINE o == [op EXCEPT !.tmp = w]
<1>3. /\ o \in Op /\ o.m = op.m /\ o.pc = op.pc /\ o.recv = op.recv /\ o.arg = op.arg
      /\ o.tmp = w /\ o.res = op.res /\ Continue(o)
  BY <1>1, <1>2 DEF Op
<1> HIDE DEF o
<1>4. op.m.steps = FindTyped /\ op.m.on = "Repository" /\ op.pc = 2
  <2>1. op.m.steps = FindTyped /\ op.m.on = "Repository"
    BY <1>1, RunningFacts, FindTypedFacts DEF IInv
  <2> QED BY <1>1, <2>1, RunningFacts, FindTypedFacts DEF IInv, Step
<1>5. op.recv \in Made /\ heap[op.recv].class \in Repositories
  BY <1>1, <1>4 DEF IInv, Operation, Fits, Repositories
<1>6. Source("Object", op.recv)
  BY <1>5, WrapperFacts DEF IInv, Source, Sources, Iterators
<1>7. /\ heap' \in [Wrapper -> Wrapped \cup {None}]
      /\ Made' = Made \cup {w} /\ \A u \in Made : heap'[u] = heap[u]
      /\ heap'[w].class = "Object" /\ heap'[w].c = "live" /\ heap'[w].ptr = TRUE
      /\ heap'[w].fin = TRUE /\ heap'[w].on = NeedOf("Object", op.recv)
      /\ Shapes'
  BY <1>2, <1>5, <1>6, NewFacts, ObjectIsMade DEF IInv
<1>8. heap'[w].on = heap[op.recv].obj
  <2>1. RepoOf(op.recv) = op.recv /\ op.recv # None
    BY <1>5, WrapperFacts DEF IInv, RepoOf
  <2> QED BY <1>7, <2>1 DEF NeedOf, Iterators, Branches, Objects
<1>9. Status'
  BY <1>7, NewStatus DEF IInv, Adopted, Backends
<1>10. /\ op' \in Op /\ op'.m = op.m /\ op'.recv = op.recv /\ op'.arg = op.arg
       /\ op'.tmp = w /\ op'.res = op.res /\ op'.pc = 3 /\ held' = held /\ op' # Idle
  <2>1. op.pc # Len(op.m.steps)
    BY <1>4, FindTypedFacts
  <2>2. op' = [o EXCEPT !.pc = @ + 1] /\ held' = held
    BY <1>3, <2>1 DEF Continue
  <2>3. op'.pc = 3
    BY <1>3, <1>4, <2>2 DEF Op
  <2> QED BY <1>3, <2>2, <2>3 DEF Op, Idle
<1>11. TypeOK'
  <2>1. op'.pc \in 1..Len(op'.m.steps)
    <3>1. op'.m.steps = FindTyped
      BY <1>4, <1>10
    <3>2. Len(op'.m.steps) = 5
      BY <3>1, FindTypedFacts
    <3> QED BY <1>10, <3>2
  <2>2. {op'.recv, op'.arg, op'.tmp, op'.res} \subseteq Made' \cup {None}
    BY <1>1, <1>7, <1>10
  <2>3. held' \subseteq Made' /\ op'.m \in Methods
    BY <1>1, <1>7, <1>10 DEF IInv, TypeOK
  <2> QED BY <1>7, <2>1, <2>2, <2>3 DEF TypeOK
<1>12. Running' /\ Step' = "dup"
  BY <1>4, <1>10, FindTypedFacts DEF Running, Step
<1>13. Operation'
  <2>1. w # None /\ w \notin Made /\ op.recv # None
    BY <1>5, WrapperFacts DEF IInv
  <2>2. /\ Fits(heap[op.recv].class, op.m.on) /\ op.m.on # "none"
        /\ IF op.m.arg = "none" THEN op.arg = None
           ELSE op.arg \notin {None, op.recv} /\ Fits(heap[op.arg].class, op.m.arg)
        /\ op.m.arg \in Backends => heap[op.arg].c = "live"
    BY <1>1, <1>4 DEF IInv, Operation
  <2>3. op.arg # None => op.arg \in Made
    BY <1>1
  <2>4. op.m.arg \in Backends => op.m.arg # "none"
    BY DEF Backends
  <2> QED BY <1>4, <1>5, <1>7, <1>8, <1>10, <1>12, <2>1, <2>2, <2>3, <2>4 DEF Operation
<1>14. \A u \in Made : Needed(u)' = Needed(u)
  BY <1>7, NeededFacts DEF IInv, Needed
<1>15. \A u \in Made : \A n \in Needed(u) \ {None} : heap'[n] = heap[n]
  BY <1>7, NeededFacts DEF IInv
<1>16. /\ ReceiverMentioned' => ReceiverMentioned
       /\ ArgumentMentioned' => ArgumentMentioned
  BY <1>4, <1>10, FindTypedFacts, MentionedLess
<1>17. Alive'
  BY <1>1, <1>5, <1>7, <1>10, <1>12, <1>14, <1>15, <1>16 DEF IInv, Alive
<1> QED BY <1>7, <1>9, <1>11, <1>13, <1>17 DEF IInv

\* Free leaves every wrapper's class and what its object is made of.
LEMMA FreedShapes ==
  ASSUME TypeOK, Shapes, NEW w \in Made, heap' = [heap EXCEPT ![w] = Freed(w)]
  PROVE  /\ heap' \in [Wrapper -> Wrapped \cup {None}] /\ Made' = Made
         /\ \A u \in Made : /\ heap'[u].class = heap[u].class
                            /\ heap'[u].obj = heap[u].obj /\ heap'[u].on = heap[u].on
                            /\ Needed(u)' = Needed(u)
         /\ \A u \in Made \ {w} : heap'[u] = heap[u]
         /\ heap'[w] = Freed(w)
         /\ Shapes'
<1> DEFINE x == Freed(w)
<1>1. /\ heap' \in [Wrapper -> Wrapped \cup {None}] /\ Made' = Made
      /\ heap'[w] = x /\ \A u \in Made \ {w} : heap'[u] = heap[u]
  <2>1. x \in Wrapped /\ w \in Wrapper /\ Made \subseteq Wrapper
    BY FreedFacts, WrapperFacts
  <2> HIDE DEF x
  <2>2. heap' = [heap EXCEPT ![w] = x]
    BY DEF x
  <2>3. heap' \in [Wrapper -> Wrapped \cup {None}] /\ heap'[w] = x
        /\ (\A u \in Wrapper \ {w} : heap'[u] = heap[u]) /\ Made' = Made \cup {w}
    BY <2>1, <2>2, Put
  <2> QED BY <2>1, <2>3
<1>2. \A u \in Made : /\ heap'[u].class = heap[u].class
                      /\ heap'[u].obj = heap[u].obj /\ heap'[u].on = heap[u].on
                      /\ heap'[u].up = IF u = w /\ heap[u].class = "Remote" THEN None
                                       ELSE heap[u].up
                      /\ heap'[u].c = "live" => heap[u].c = "live"
  <2>1. /\ heap'[w].class = heap[w].class /\ heap'[w].obj = heap[w].obj
        /\ heap'[w].on = heap[w].on
        /\ heap'[w].up = IF heap[w].class = "Remote" THEN None ELSE heap[w].up
        /\ heap'[w].c = "live" => heap[w].c = "live"
    <3> HIDE DEF x
    <3>1. /\ x.class = heap[w].class /\ x.obj = heap[w].obj /\ x.on = heap[w].on
          /\ x.up = IF heap[w].class = "Remote" THEN None ELSE heap[w].up
          /\ x.c = "live" => heap[w].c = "live"
      BY FreedFacts DEF x
    <3> QED BY <1>1, <3>1
  <2> QED BY <1>1, <2>1
<1>3. \A u \in Made : Needed(u)' = Needed(u)
  BY <1>2, NeededFacts DEF Needed
<1>4. ASSUME NEW u \in Made
      PROVE  Shape(u)'
  <2>1. Shape(u) /\ heap[u].obj \in Made /\ heap[u].on \in Made \cup {None} /\ u \in Made'
    BY <1>1, NeededFacts DEF Shapes
  <2>2. CASE heap[u].class \in Repositories
    BY <1>1, <1>2, <2>1, <2>2 DEF Shape, Repositories, Branches, Objects, Iterators,
       Adopted, Backends
  <2>3. CASE heap[u].class \in Branches
    BY <1>1, <1>2, <2>1, <2>3 DEF Shape, Repositories, Branches, Objects, Iterators,
       Adopted, Backends, Rooted
  <2>4. CASE heap[u].class \in Iterators
    BY <1>1, <1>2, <2>1, <2>4 DEF Shape, Repositories, Branches, Objects, Iterators,
       Adopted, Backends
  <2>5. CASE heap[u].class \notin Repositories \cup Branches \cup Iterators
    BY <1>1, <1>2, <2>1, <2>5 DEF Shape, Repositories, Branches
  <2> QED BY <2>2, <2>3, <2>4, <2>5
<1> QED BY <1>1, <1>2, <1>3, <1>4 DEF Shapes

\* Free keeps the status of one that is live, or whose pointer is nil.
LEMMA FreedStatus ==
  ASSUME TypeOK, Status, NEW w \in Made, Made' = Made, heap'[w] = Freed(w),
         \A u \in Made \ {w} : heap'[u] = heap[u],
         heap[w].c = "live" \/ ~heap[w].ptr
  PROVE  Status'
<1>1. /\ heap'[w].class = heap[w].class /\ heap'[w].fin = FALSE
      /\ heap'[w].c = IF ~heap[w].ptr \/ heap[w].class = "WeakRepository" THEN heap[w].c
                      ELSE IF heap[w].c = "live" THEN "freed" ELSE "twice"
  BY FreedFacts
<1>2. heap'[w].c = "live" => heap[w].class = "WeakRepository"
  BY <1>1 DEF Status
<1>3. heap'[w].c # "twice"
  BY <1>1 DEF Status
<1> QED BY <1>1, <1>2, <1>3 DEF Status, Unfreed

\* A typed lookup frees its temporary, and returns.
LEMMA FreeTemporaryIInv ==
  ASSUME IInv, FreeTemporary
  PROVE  IInv'
<1>1. /\ Running /\ Step = "freeTemp" /\ op \in Op /\ op.m \in Methods
      /\ heap' = [heap EXCEPT ![op.tmp] = Freed(op.tmp)]
      /\ Continue([op EXCEPT !.tmp = None])
  BY RunningFacts DEF FreeTemporary, IInv
<1>2. op.m.steps = FindTyped /\ op.pc = 5
  <2>1. op.m.steps = FindTyped
    BY <1>1, RunningFacts, FindTypedFacts DEF IInv
  <2> QED BY <1>1, <2>1, RunningFacts, FindTypedFacts DEF IInv, Step
<1>3. op' = Idle /\ held' = held \cup ({op.res} \ {None})
  <2>1. /\ [op EXCEPT !.tmp = None].pc = 5 /\ [op EXCEPT !.tmp = None].m.steps = FindTyped
        /\ [op EXCEPT !.tmp = None].res = op.res
    BY <1>1, <1>2 DEF Op
  <2> QED BY <1>1, <2>1, FindTypedFacts DEF Continue
<1>4. op.tmp \in Made /\ heap[op.tmp].c = "live" /\ op.res \in Made \cup {None}
  BY <1>1, <1>2, RunningFacts DEF IInv, Operation
<1>5. Shapes' /\ Status' /\ Made' = Made /\ heap' \in [Wrapper -> Wrapped \cup {None}]
  BY <1>1, <1>4, FreedShapes, FreedStatus DEF IInv
<1>6. TypeOK' /\ Operation' /\ Alive'
  BY <1>3, <1>4, <1>5 DEF IInv, TypeOK, Idle, Running, Operation, Alive
<1> QED BY <1>5, <1>6 DEF IInv

\* A backend goes to the Odb or the Refdb, or is freed.
LEMMA GiveIInv ==
  ASSUME IInv, Give
  PROVE  IInv'
<1>1. /\ Running /\ Step = "give" /\ op \in Op /\ op.m \in Methods
      /\ op.pc = Len(op.m.steps) /\ Continue(op)
  BY RunningFacts DEF Give, IInv
<1>2. op.m.arg \in Backends /\ op.m.on # "none"
  BY <1>1, RunningFacts DEF IInv, Sound, Handles
<1>3. /\ op.recv \in Made /\ op.arg \in Made /\ heap[op.arg].class \in Backends
      /\ heap[op.arg].c = "live" /\ op.res \in Made \cup {None}
  BY <1>1, <1>2, RunningFacts DEF IInv, Operation, Fits, Backends
<1>4. op' = Idle /\ held' = held \cup ({op.res} \ {None})
  BY <1>1 DEF Continue
<1>5. CASE heap' = [heap EXCEPT ![op.arg] = Freed(op.arg)]
  <2>1. Shapes' /\ Status' /\ Made' = Made /\ heap' \in [Wrapper -> Wrapped \cup {None}]
    BY <1>3, <1>5, FreedShapes, FreedStatus DEF IInv
  <2>2. TypeOK' /\ Operation' /\ Alive'
    BY <1>3, <1>4, <2>1 DEF IInv, TypeOK, Idle, Running, Operation, Alive
  <2> QED BY <2>1, <2>2 DEF IInv
<1>6. CASE heap' = [heap EXCEPT ![op.arg].c = "given", ![op.arg].obj = op.recv]
  <2> DEFINE x == [heap[op.arg] EXCEPT !.c = "given", !.obj = op.recv]
  <2>1. /\ x \in Wrapped /\ x.class = heap[op.arg].class /\ x.up = heap[op.arg].up
        /\ x.on = heap[op.arg].on /\ x.obj = op.recv /\ x.c = "given"
        /\ x.fin = heap[op.arg].fin /\ x.ptr = heap[op.arg].ptr
    <3>1. heap[op.arg] \in Wrapped /\ op.recv \in Wrapper
      BY <1>3, WrapperFacts DEF IInv
    <3>2. /\ x.class = heap[op.arg].class /\ x.up = heap[op.arg].up
          /\ x.on = heap[op.arg].on /\ x.obj = op.recv /\ x.c = "given"
          /\ x.fin = heap[op.arg].fin /\ x.ptr = heap[op.arg].ptr
      BY <3>1 DEF Wrapped
    <3>3. x \in Wrapped
      BY <3>1, <3>2 DEF Wrapped
    <3> QED BY <3>2, <3>3
  <2>2. heap' = [heap EXCEPT ![op.arg] = x]
    BY <1>3, <1>6, WrapperFacts DEF IInv, TypeOK
  <2> HIDE DEF x
  <2>3. PICK arg \in Made : arg = op.arg
    BY <1>3
  <2>4. /\ heap' \in [Wrapper -> Wrapped \cup {None}] /\ Made' = Made
        /\ heap'[arg] = x /\ \A u \in Made \ {arg} : heap'[u] = heap[u]
    <3>1. heap' = [heap EXCEPT ![arg] = x] /\ arg \in Wrapper /\ Made \subseteq Wrapper
      BY <2>2, <2>3, WrapperFacts DEF IInv
    <3>2. x \in Wrapped /\ TypeOK
      BY <2>1 DEF IInv
    <3>3. heap' \in [Wrapper -> Wrapped \cup {None}] /\ heap'[arg] = x
          /\ (\A u \in Wrapper \ {arg} : heap'[u] = heap[u]) /\ Made' = Made \cup {arg}
      BY <3>1, <3>2, Put
    <3> QED BY <3>1, <3>3
  <2>5. Shapes'
    <3>1. ASSUME NEW u \in Made
          PROVE  Shape(u)'
      <4>1. /\ Shape(u) /\ heap[u].obj \in Made /\ heap[u].on \in Made \cup {None}
            /\ heap'[u].class = heap[u].class /\ heap'[u].up = heap[u].up
            /\ heap'[u].on = heap[u].on /\ u \in Made'
            /\ u # arg => heap'[u] = heap[u]
        BY <2>1, <2>3, <2>4, NeededFacts DEF IInv, Shapes
      <4>2. \A r \in Made : heap[r].class \in Repositories => heap'[r] = heap[r]
        BY <1>3, <2>3, <2>4 DEF Backends, Repositories
      <4>3. \A r \in Made : heap'[r].class = heap[r].class
        BY <2>1, <2>3, <2>4
      <4>4. CASE u = arg
        <5>1. heap[u].class \in Backends /\ heap'[u].obj = op.recv /\ heap'[u].c = "given"
          BY <1>3, <2>1, <2>3, <2>4, <4>4
        <5> QED BY <1>3, <2>4, <4>1, <5>1 DEF Shape, Backends, Adopted, Repositories,
               Branches, Objects, Iterators
      <4>5. CASE u # arg
        BY <2>4, <4>1, <4>2, <4>3, <4>5 DEF Shape, Repositories
      <4> QED BY <4>4, <4>5
    <3> QED BY <2>4, <3>1 DEF Shapes
  <2>6. Status'
    BY <1>3, <2>1, <2>3, <2>4 DEF IInv, Status, Adopted
  <2>7. TypeOK' /\ Operation' /\ Alive'
    BY <1>3, <1>4, <2>4 DEF IInv, TypeOK, Idle, Running, Operation, Alive
  <2> QED BY <2>5, <2>6, <2>7 DEF IInv
<1> QED BY <1>5, <1>6 DEF Give
-----------------------------------------------------------------------------
(***************************************************************************)
(* The caller and the collector                                            *)
(***************************************************************************)
\* To forget a wrapper changes nothing of it.
LEMMA DropIInv ==
  ASSUME IInv, NEW w \in Wrapper, Drop(w)
  PROVE  IInv'
<1>1. heap' = heap /\ op' = op /\ held' \subseteq held
  BY DEF Drop
<1>2. Made' = Made /\ Shapes' /\ Status'
  BY <1>1, SameHeap
<1>3. TypeOK'
  BY <1>1, <1>2 DEF IInv, TypeOK, Running
<1>4. Operation' /\ Alive'
  BY <1>1 DEF IInv, Operation, Alive, Running, Step, Needed, ReceiverMentioned,
     ArgumentMentioned, Ahead, Op
<1> QED BY <1>2, <1>3, <1>4 DEF IInv

\* The caller frees a wrapper when no method runs.
LEMMA FreeIInv ==
  ASSUME IInv, NEW w \in Wrapper, Free(w)
  PROVE  IInv'
<1>1. /\ ~Running /\ w \in Made /\ heap' = [heap EXCEPT ![w] = Freed(w)]
      /\ held' = held /\ op' = op
      /\ heap[w].c = "live" \/ ~heap[w].ptr
  BY DEF Free, IInv, TypeOK
<1>2. Shapes' /\ Status' /\ Made' = Made /\ heap' \in [Wrapper -> Wrapped \cup {None}]
  BY <1>1, FreedShapes, FreedStatus DEF IInv
<1>3. TypeOK' /\ Operation' /\ Alive'
  BY <1>1, <1>2 DEF IInv, TypeOK, Running, Operation, Alive
<1> QED BY <1>2, <1>3 DEF IInv

\* What a running method mentions is reached, with what its field points to.
LEMMA MentionedReached ==
  ASSUME TypeOK, Running
  PROVE  /\ op.tmp \in Reachable
         /\ ReceiverMentioned => op.recv \in Reachable
         /\ ReceiverMentioned /\ op.recv # None => heap[op.recv].up \in Reachable
         /\ ArgumentMentioned => op.arg \in Reachable
         /\ ArgumentMentioned /\ op.arg # None => heap[op.arg].up \in Reachable
<1>1. /\ op.tmp \in Mentioned
      /\ ReceiverMentioned => op.recv \in Mentioned
      /\ ArgumentMentioned => op.arg \in Mentioned
  BY DEF Mentioned
<1>2. \A u \in Mentioned : u \in Reachable /\ (u # None => heap[u].up \in Reachable)
  BY DEF Reachable, InVariables, Reach, Fields
<1> QED BY <1>1, <1>2

\* What the collector finalizes no method mentions, nor does it stand behind
\* what a method mentions; and it is no Repository.
LEMMA CollectedFacts ==
  ASSUME IInv, NEW w \in Made, heap[w].fin, w \notin Reachable \cup HeldByFinalizer
  PROVE  /\ heap[w].class \notin Repositories \cup Adopted /\ heap[w].c = "live"
         /\ heap[w].obj = w
<1>1. Shape(w)
  BY DEF IInv, Shapes
<1>2. heap[w].class \notin Adopted /\ heap[w].c = "live"
  BY DEF IInv, Status
<1>3. heap[w].up \in HeldByFinalizer
  BY DEF HeldByFinalizer, Reach
<1>4. heap[w].class \notin Repositories
  BY <1>1, <1>3 DEF Shape, Repositories
<1> QED BY <1>1, <1>2, <1>4 DEF Shape

\* The collector finalizes a wrapper.
LEMMA CollectIInv ==
  ASSUME IInv, NEW w \in Wrapper, Collect(w)
  PROVE  IInv'
<1>1. /\ w \in Made /\ heap[w].fin /\ w \notin Reachable \cup HeldByFinalizer
      /\ heap' = [heap EXCEPT ![w] = Freed(w)] /\ held' = held /\ op' = op
  BY DEF Collect
<1>2. /\ heap[w].class \notin Repositories \cup Adopted /\ heap[w].c = "live"
      /\ heap[w].obj = w
  BY <1>1, CollectedFacts
<1>3. /\ heap' \in [Wrapper -> Wrapped \cup {None}] /\ Made' = Made
      /\ \A u \in Made : /\ heap'[u].class = heap[u].class
                         /\ heap'[u].obj = heap[u].obj /\ heap'[u].on = heap[u].on
                         /\ Needed(u)' = Needed(u)
      /\ \A u \in Made \ {w} : heap'[u] = heap[u]
      /\ heap'[w] = Freed(w) /\ Shapes'
  BY <1>1, FreedShapes DEF IInv
<1>4. Status'
  BY <1>1, <1>2, <1>3, FreedStatus DEF IInv
<1>5. TypeOK'
  BY <1>1, <1>3 DEF IInv, TypeOK, Running
<1>6. /\ Running' = Running /\ Step' = Step
      /\ ReceiverMentioned' = ReceiverMentioned /\ ArgumentMentioned' = ArgumentMentioned
  BY <1>1 DEF Running, Step, ReceiverMentioned, ArgumentMentioned, Ahead
<1>7. CASE ~Running
  BY <1>1, <1>3, <1>4, <1>5, <1>6, <1>7 DEF IInv, Operation, Alive
<1>8. CASE Running
  <2>1. /\ op \in Op /\ Sound(op.m) /\ {op.recv, op.arg, op.tmp, op.res} \subseteq Made \cup {None}
    BY <1>8, RunningFacts DEF IInv
  <2>2. \A u \in Made : heap'[u].ptr => heap[u].ptr
    <3>1. Freed(w).ptr => heap[w].ptr
      BY <1>1, FreedFacts DEF IInv
    <3> QED BY <1>3, <3>1
  <2>3. Operation'
    <3>1. op.m.arg \in Backends => heap[op.arg].class \in Backends /\ op.arg \in Made
      BY <1>8, <2>1 DEF IInv, Operation, Fits, Backends
    <3>2. op.m.arg \in Backends => op.arg # w
      BY <1>2, <3>1 DEF Adopted
    <3>3. op.tmp # w
      BY <1>1, <1>8, MentionedReached DEF IInv
    <3>4. IF op.m.on = "none" THEN op.recv = None
          ELSE op.recv # None /\ Fits(heap'[op.recv].class, op.m.on)
      BY <1>3, <1>8, <2>1 DEF IInv, Operation
    <3>5. IF op.m.arg = "none" THEN op.arg = None
          ELSE op.arg \notin {None, op.recv} /\ Fits(heap'[op.arg].class, op.m.arg)
      BY <1>3, <1>8, <2>1 DEF IInv, Operation
    <3>6. op.m.arg \in Backends => heap'[op.arg].c = "live"
      BY <1>3, <1>8, <3>1, <3>2 DEF IInv, Operation
    <3>7. op.m.steps = FindTyped /\ op.pc >= 3 => op.tmp # None
      BY <1>8 DEF IInv, Operation
    <3>8. op.tmp # None =>
            /\ op.m.steps = FindTyped /\ op.pc >= 3
            /\ heap'[op.tmp].class = "Object" /\ heap'[op.tmp].c = "live"
            /\ heap'[op.tmp].on = heap'[op.recv].obj
      <4>1. op.tmp # None => op.m \in Methods /\ op.m.steps = FindTyped /\ op.recv \in Made
        BY <1>8, <2>1, RunningFacts, FindTypedFacts DEF IInv, Operation
      <4> QED BY <1>3, <1>8, <2>1, <3>3, <4>1 DEF IInv, Operation
    <3> QED BY <1>1, <1>6, <1>8, <2>1, <3>4, <3>5, <3>6, <3>7, <3>8 DEF Operation
  <2>4. ASSUME op.recv # None, heap'[op.recv].ptr \/ Step # "check",
               NEW n \in Needed(op.recv) \ {None}
        PROVE  \/ heap'[n].c = "live"
               \/ /\ heap'[n].class # "Repository"
                  /\ ReceiverMentioned => heap'[op.recv].class = "Mempack"
    <3>1. op.recv \in Made /\ n \in Made /\ (heap[op.recv].ptr \/ Step # "check")
      BY <2>1, <2>2, <2>4, NeededFacts DEF IInv
    <3>2. \/ heap[n].c = "live"
          \/ /\ heap[n].class # "Repository"
             /\ ReceiverMentioned => heap[op.recv].class = "Mempack"
      BY <1>8, <2>4, <3>1 DEF IInv, Alive
    <3>3. CASE n # w
      BY <1>3, <3>1, <3>2, <3>3
    <3>4. CASE n = w
      <4>1. heap[op.recv].class \notin Backends
        <5>1. op.m.on \notin Backends
          BY <2>1 DEF Sound, Handles
        <5>2. Fits(heap[op.recv].class, op.m.on)
          BY <1>8, <2>1, <2>4 DEF IInv, Operation
        <5> QED BY <5>1, <5>2 DEF Fits, Backends, Objects
      <4>2. ReceiverMentioned /\ heap[op.recv].class # "Mempack" =>
              n = op.recv \/ n = heap[op.recv].up
        BY <1>2, <2>4, <3>1, <3>4, <4>1, NeededClasses DEF IInv, Repositories
      <4>3. ReceiverMentioned => heap[op.recv].class = "Mempack"
        BY <1>1, <1>8, <2>4, <3>4, <4>2, MentionedReached DEF IInv
      <4> QED BY <1>2, <1>3, <3>1, <3>4, <4>3 DEF Repositories
    <3> QED BY <3>3, <3>4
  <2>5. ASSUME op.arg # None, NEW n \in Needed(op.arg) \ {None}
        PROVE  \/ heap'[n].c = "live"
               \/ heap'[n].class # "Repository" /\ ~ArgumentMentioned
    <3>1. op.arg \in Made /\ n \in Made
      BY <2>1, <2>5, NeededFacts DEF IInv
    <3>2. \/ heap[n].c = "live"
          \/ heap[n].class # "Repository" /\ ~ArgumentMentioned
      BY <1>8, <2>5, <3>1 DEF IInv, Alive
    <3>3. CASE n # w
      BY <1>3, <3>1, <3>2, <3>3
    <3>4. CASE n = w
      <4>1. heap[op.arg].class # "Mempack"
        BY <1>8, <2>1, <2>5 DEF IInv, Operation, Fits, Sound, Handles, Objects
      <4>2. heap[op.arg].class \notin Backends
        <5>1. ASSUME heap[op.arg].class \in Backends
              PROVE  FALSE
          <6>1. op.m.arg \in Backends
            BY <1>8, <2>5, <5>1 DEF IInv, Operation, Fits, Backends, Objects
          <6>2. heap[op.arg].c = "live"
            BY <1>8, <6>1 DEF IInv, Operation
          <6>3. heap[op.arg].obj = op.arg /\ heap[op.arg].on = None
            BY <3>1, <5>1, <6>2 DEF IInv, Shapes, Shape, Backends, Repositories, Branches,
               Objects, Iterators
          <6>4. n = op.arg
            BY <2>5, <6>3 DEF Needed
          <6> QED BY <1>2, <3>4, <5>1, <6>4 DEF Adopted
        <5> QED BY <5>1
      <4>3. n = op.arg \/ n = heap[op.arg].up
        BY <1>2, <2>5, <3>1, <3>4, <4>1, <4>2, NeededClasses DEF IInv, Repositories
      <4>4. ~ArgumentMentioned
        BY <1>1, <1>8, <2>5, <3>4, <4>3, MentionedReached DEF IInv
      <4> QED BY <1>2, <1>3, <3>1, <3>4, <4>4 DEF Repositories
    <3> QED BY <3>3, <3>4
  <2>6. Alive'
    <3>1. \A u \in Made : Needed(u)' = Needed(u)
      BY <1>3
    <3> QED BY <1>1, <1>6, <2>1, <2>4, <2>5, <3>1 DEF Alive
  <2> QED BY <1>3, <1>4, <1>5, <2>3, <2>6 DEF IInv
<1> QED BY <1>7, <1>8

\* The collector takes back a place that nothing refers to.
LEMMA SweepIInv ==
  ASSUME IInv, NEW w \in Wrapper, Sweep(w)
  PROVE  IInv'
<1>1. /\ w \in Made /\ w \notin Reachable
      /\ \A u \in Made \ {w} : w # heap[u].up /\ w # heap[u].obj /\ w # heap[u].on
      /\ w # op.recv /\ w # op.arg
      /\ heap' = [heap EXCEPT ![w] = None] /\ held' = held /\ op' = op
  BY DEF Sweep
<1>2. /\ heap' \in [Wrapper -> Wrapped \cup {None}] /\ Made' = Made \ {w}
      /\ \A u \in Made \ {w} : heap'[u] = heap[u]
  BY <1>1 DEF IInv, TypeOK, Made
<1>3. \A u \in Made \ {w} :
        /\ heap[u].obj \in Made \ {w} /\ heap[u].on \in (Made \ {w}) \cup {None}
        /\ heap[heap[u].obj].on \in (Made \ {w}) \cup {None}
        /\ Needed(u) \ {None} \subseteq Made \ {w}
  <2>1. \A u \in Made \ {w} :
          heap[u].obj \in Made \ {w} /\ heap[u].on \in (Made \ {w}) \cup {None}
    BY <1>1, NeededFacts DEF IInv
  <2>2. \A u \in Made \ {w} : heap[heap[u].obj].on \in (Made \ {w}) \cup {None}
    BY <2>1
  <2> QED BY <2>1, <2>2 DEF Needed
<1>4. \A u \in Made \ {w} : Needed(u)' = Needed(u)
  BY <1>2, <1>3 DEF Needed
<1>5. Shapes'
  <2>1. ASSUME NEW u \in Made \ {w}
        PROVE  Shape(u)'
    <3>1. /\ Shape(u) /\ heap'[u] = heap[u] /\ heap[u].obj \in Made \ {w}
          /\ heap[u].on \in (Made \ {w}) \cup {None} /\ heap[u].up # w
      BY <1>1, <1>2, <1>3 DEF IInv, Shapes
    <3>2. CASE heap[u].class \in Repositories
      BY <1>2, <3>1, <3>2 DEF Shape, Repositories, Branches, Objects, Iterators, Adopted,
         Backends
    <3>3. CASE heap[u].class \in Branches
      BY <1>2, <3>1, <3>3 DEF Shape, Repositories, Branches, Objects, Iterators, Adopted,
         Backends
    <3>4. CASE heap[u].class \in Iterators
      BY <1>2, <3>1, <3>4 DEF Shape, Repositories, Branches, Objects, Iterators, Adopted,
         Backends
    <3>5. CASE heap[u].class \notin Repositories \cup Branches \cup Iterators
      BY <1>2, <3>1, <3>5 DEF Shape, Repositories
    <3> QED BY <3>2, <3>3, <3>4, <3>5
  <2> QED BY <1>2, <2>1 DEF Shapes
<1>6. Status'
  BY <1>2 DEF IInv, Status
<1>7. held \subseteq Made'
  <2>1. held \subseteq Reachable
    BY DEF Reachable, InVariables, Reach
  <2> QED BY <1>1, <1>2, <2>1 DEF IInv, TypeOK
<1>8. Running => op.tmp # w /\ op.res # w
  <2>1. Running => {op.tmp, op.res} \subseteq Reachable
    BY DEF Mentioned, Reachable, InVariables, Reach
  <2> QED BY <1>1, <2>1
<1>9. TypeOK'
  BY <1>1, <1>2, <1>7, <1>8 DEF IInv, TypeOK, Running
<1>10. /\ Running' = Running /\ Step' = Step
       /\ ReceiverMentioned' = ReceiverMentioned /\ ArgumentMentioned' = ArgumentMentioned
  BY <1>1 DEF Running, Step, ReceiverMentioned, ArgumentMentioned, Ahead
<1>11. CASE ~Running
  BY <1>1, <1>5, <1>6, <1>9, <1>10, <1>11 DEF IInv, Operation, Alive
<1>12. CASE Running
  <2>1. {op.recv, op.arg, op.tmp, op.res} \subseteq (Made \ {w}) \cup {None} /\ op.m \in Methods
    BY <1>1, <1>8, <1>12, RunningFacts DEF IInv
  <2>2. Operation'
    <3>1. Operation /\ op \in Op
      BY <1>12, RunningFacts DEF IInv
    <3>2. /\ op.m.on # "none" => op.recv \in Made \ {w}
          /\ op.m.arg # "none" => op.arg \in Made \ {w}
          /\ op.m.arg \in Backends => op.m.arg # "none"
          /\ op.tmp # None => op.tmp \in Made \ {w} /\ op.recv \in Made \ {w}
      <4>1. op.m.steps = FindTyped => op.m.on # "none"
        BY <2>1, FindTypedFacts
      <4> QED BY <1>12, <2>1, <3>1, <4>1 DEF Operation, Backends
    <3>3. IF op.m.on = "none" THEN op.recv = None
          ELSE op.recv # None /\ Fits(heap'[op.recv].class, op.m.on)
      BY <1>2, <1>12, <3>1, <3>2 DEF Operation
    <3>4. IF op.m.arg = "none" THEN op.arg = None
          ELSE op.arg \notin {None, op.recv} /\ Fits(heap'[op.arg].class, op.m.arg)
      BY <1>2, <1>12, <3>1, <3>2 DEF Operation
    <3>5. op.m.arg \in Backends => heap'[op.arg].c = "live"
      BY <1>2, <1>12, <3>1, <3>2 DEF Operation
    <3>6. op.m.steps = FindTyped /\ op.pc >= 3 => op.tmp # None
      BY <1>12, <3>1 DEF Operation
    <3>7. op.tmp # None =>
            /\ op.m.steps = FindTyped /\ op.pc >= 3
            /\ heap'[op.tmp].class = "Object" /\ heap'[op.tmp].c = "live"
            /\ heap'[op.tmp].on = heap'[op.recv].obj
      BY <1>2, <1>12, <3>1, <3>2 DEF Operation
    <3> QED BY <1>1, <1>10, <1>12, <3>1, <3>3, <3>4, <3>5, <3>6, <3>7 DEF Operation
  <2>3. \A u \in Made \ {w} : \A n \in Needed(u) \ {None} : heap'[n] = heap[n]
    BY <1>2, <1>3
  <2>4. Alive'
    BY <1>1, <1>2, <1>4, <1>10, <2>1, <2>3 DEF IInv, Alive
  <2> QED BY <1>5, <1>6, <1>9, <2>2, <2>4 DEF IInv
<1> QED BY <1>11, <1>12

\* There is nothing at first.
LEMMA InitIInv == Init => IInv
<1> SUFFICES ASSUME Init PROVE IInv
  OBVIOUS
<1>1. Made = {} /\ op = Idle /\ held = {} /\ heap \in [Wrapper -> Wrapped \cup {None}]
  BY DEF Init, Made
<1>2. TypeOK
  BY <1>1, IdleFacts DEF TypeOK
<1> QED BY <1>1, <1>2, IdleFacts DEF IInv, Shapes, Status

\* Every step keeps the inductive invariant.
LEMMA NextIInv == IInv /\ [Next]_vars => IInv'
<1> SUFFICES ASSUME IInv, [Next]_vars PROVE IInv'
  OBVIOUS
<1>1. CASE ~Running /\ \E m \in Methods, recv, arg \in held \cup {None} : Call(m, recv, arg)
  BY <1>1, CallIInv
<1>2. CASE Work
  BY <1>2, WorkIInv
<1>3. CASE Check
  BY <1>3, CheckIInv
<1>4. CASE Make
  BY <1>4, MakeIInv
<1>5. CASE MakeTemporary
  BY <1>5, MakeTemporaryIInv
<1>6. CASE FreeTemporary
  BY <1>6, FreeTemporaryIInv
<1>7. CASE Fail
  BY <1>7, FailIInv
<1>8. CASE Give
  BY <1>8, GiveIInv
<1>9. CASE ReadField
  BY <1>9, ReadFieldIInv
<1>10. CASE \E w \in Wrapper : Drop(w) \/ Free(w) \/ Collect(w) \/ Sweep(w)
  BY <1>10, DropIInv, FreeIInv, CollectIInv, SweepIInv
<1>11. CASE UNCHANGED vars
  <2>1. heap' = heap /\ held' = held /\ op' = op
    BY <1>11 DEF vars
  <2>2. Made' = Made /\ Shapes' /\ Status'
    BY <2>1, SameHeap
  <2>3. TypeOK'
    BY <2>1, <2>2 DEF IInv, TypeOK, Running
  <2>4. Operation' /\ Alive'
    BY <2>1 DEF IInv, Operation, Alive, Running, Step, Needed, ReceiverMentioned,
       ArgumentMentioned, Ahead, Op
  <2> QED BY <2>2, <2>3, <2>4 DEF IInv
<1> QED BY <1>1, <1>2, <1>3, <1>4, <1>5, <1>6, <1>7, <1>8, <1>9, <1>10, <1>11 DEF Next
-----------------------------------------------------------------------------
(***************************************************************************)
(* What the invariant shows                                                *)
(***************************************************************************)
\* Behind a Repository, weak or not, there are Repositories only.
LEMMA RepositoryNeeds ==
  ASSUME TypeOK, Shapes, NEW r \in Made, heap[r].class \in Repositories
  PROVE  /\ Needed(r) \ {None} = {heap[r].obj} /\ heap[heap[r].obj].class = "Repository"
<1>1. heap[r].obj \in Made /\ heap[heap[r].obj].class = "Repository"
  BY DEF Shapes, Shape, Repositories
<1>2. heap[heap[r].obj].on = None
  BY <1>1 DEF Shapes, Shape
<1>3. heap[r].obj # None
  BY <1>1, WrapperFacts
<1> QED BY <1>1, <1>2, <1>3 DEF Needed

\* A method that has one of these steps at or after its last use has it ahead
\* at every use.
LEMMA StillAhead ==
  ASSUME TypeOK, Operation, Running, Step \in Uses, NEW kinds, Until(op.m.steps, kinds)
  PROVE  Ahead(kinds, op.pc)
<1>1. /\ DOMAIN op.m.steps = 1..Len(op.m.steps) /\ op.pc \in 1..Len(op.m.steps)
      /\ Len(op.m.steps) \in Nat
  BY RunningFacts
<1>2. PICK j \in DOMAIN op.m.steps :
        op.m.steps[j] \in kinds /\ \A i \in DOMAIN op.m.steps : i > j => op.m.steps[i] \notin Uses
  BY DEF Until
<1>3. j >= op.pc
  BY <1>1, <1>2 DEF Step
<1> QED BY <1>1, <1>2, <1>3 DEF Ahead

\* At a use, a method whose KeepAlive calls suffice has its receiver usable.
LEMMA ReceiverIsUsable ==
  ASSUME IInv, Running, Step \in Uses, Keeps(op.m), op.recv # None
  PROVE  Usable(op.recv)
<1>1. op.recv \in Made
  BY RunningFacts DEF IInv
<1>2. op.m.on # "none" /\ Fits(heap[op.recv].class, op.m.on)
  BY DEF IInv, Operation
<1>3. SUFFICES ASSUME NEW n \in Needed(op.recv) \ {None}
               PROVE  heap[n].c = "live"
  BY DEF Usable
<1>4. \/ heap[n].c = "live"
      \/ /\ heap[n].class # "Repository"
         /\ ReceiverMentioned => heap[op.recv].class = "Mempack"
  BY <1>3 DEF IInv, Alive, Uses
<1>5. CASE op.m.on = "Repository"
  <2>1. heap[op.recv].class \in Repositories
    BY <1>2, <1>5 DEF Fits, Repositories
  <2> QED BY <1>1, <1>3, <1>4, <2>1, RepositoryNeeds DEF IInv
<1>6. CASE op.m.on # "Repository"
  <2>1. /\ op.m.on # "Mempack"
        /\ Until(op.m.steps, Keeping) \/ (op.m.makes \in Linked /\ Until(op.m.steps, Making))
    BY <1>2, <1>6 DEF Keeps
  <2>2. heap[op.recv].class # "Mempack"
    BY <1>2, <2>1 DEF Fits, Objects
  <2>3. ReceiverMentioned
    <3>1. CASE Until(op.m.steps, Keeping)
      BY <3>1, StillAhead DEF IInv, ReceiverMentioned, Keeping
    <3>2. CASE op.m.makes \in Linked /\ Until(op.m.steps, Making)
      BY <3>2, StillAhead DEF IInv, ReceiverMentioned, Making, Linked
    <3> QED BY <2>1, <3>1, <3>2
  <2> QED BY <1>4, <2>2, <2>3
<1> QED BY <1>5, <1>6

\* And its argument.
LEMMA ArgumentIsUsable ==
  ASSUME IInv, Running, Step \in Uses, Keeps(op.m), op.arg # None
  PROVE  Usable(op.arg)
<1>1. op.arg \in Made
  BY RunningFacts DEF IInv
<1>2. op.m.arg # "none" /\ Fits(heap[op.arg].class, op.m.arg)
  BY DEF IInv, Operation
<1>3. SUFFICES ASSUME NEW n \in Needed(op.arg) \ {None}
               PROVE  heap[n].c = "live"
  BY DEF Usable
<1>4. \/ heap[n].c = "live"
      \/ heap[n].class # "Repository" /\ ~ArgumentMentioned
  BY <1>3 DEF IInv, Alive
<1>5. CASE op.m.arg = "Repository"
  <2>1. heap[op.arg].class \in Repositories
    BY <1>2, <1>5 DEF Fits, Repositories
  <2> QED BY <1>1, <1>3, <1>4, <2>1, RepositoryNeeds DEF IInv
<1>6. CASE op.m.arg # "Repository"
  <2>1. Until(op.m.steps, KeepingArg)
    BY <1>2, <1>6 DEF Keeps
  <2>2. ArgumentMentioned
    BY <2>1, StillAhead DEF IInv, ArgumentMentioned, KeepingArg
  <2> QED BY <1>4, <2>2
<1> QED BY <1>5, <1>6

\* A typed lookup copies its temporary while that and its Repository live.
LEMMA TemporaryIsUsable ==
  ASSUME IInv, Running, Step = "dup"
  PROVE  op.tmp # None /\ Usable(op.tmp)
<1>1. /\ op.m.steps = FindTyped /\ op.m.on = "Repository" /\ op.m \in Methods
      /\ {op.recv, op.tmp} \subseteq Made \cup {None}
  BY RunningFacts, FindTypedFacts DEF IInv
<1>2. op.pc = 3
  BY <1>1, RunningFacts, FindTypedFacts DEF IInv, Step
<1>3. /\ op.tmp # None /\ op.tmp \in Made /\ heap[op.tmp].class = "Object"
      /\ heap[op.tmp].c = "live" /\ heap[op.tmp].on = heap[op.recv].obj
      /\ op.recv \in Made /\ heap[op.recv].class \in Repositories
  BY <1>1, <1>2 DEF IInv, Operation, Fits, Repositories
<1>4. /\ Needed(op.recv) \ {None} = {heap[op.recv].obj}
      /\ heap[heap[op.recv].obj].class = "Repository"
  BY <1>3, RepositoryNeeds DEF IInv
<1>5. heap[heap[op.recv].obj].c = "live"
  <2>1. PICK n \in Needed(op.recv) \ {None} : n = heap[op.recv].obj
    BY <1>4
  <2>2. heap[n].class = "Repository"
    BY <1>4, <2>1
  <2>3. op.recv # None
    BY <1>3, WrapperFacts DEF IInv
  <2> QED BY <2>1, <2>2, <2>3 DEF IInv, Alive
<1>6. heap[op.tmp].obj = op.tmp
  BY <1>3 DEF IInv, Shapes, Shape, Branches, Objects
<1>7. heap[op.recv].obj \in Made /\ heap[heap[op.recv].obj].on = None
  BY <1>3, <1>4, NeededFacts DEF IInv, Shapes, Shape
<1> QED BY <1>3, <1>5, <1>6, <1>7 DEF Usable, Needed

\* What a method does on the Repository of its receiver finds it open.
LEMMA RepositoryIsUsable ==
  ASSUME IInv, Running, Step = "useUp"
  PROVE  Usable(RepoOf(op.recv))
<1> DEFINE r == RepoOf(op.recv)
<1>1. op.m.on \in Sources /\ op.recv \in Made \cup {None}
  BY RunningFacts DEF IInv, Sound, Handles
<1>2. op.m.on # "none"
  BY <1>1 DEF Sources, Rooted, Branches, Objects, Repositories
<1>3. op.recv \in Made /\ Fits(heap[op.recv].class, op.m.on)
  BY <1>1, <1>2 DEF IInv, Operation
<1>4. heap[op.recv].class \in Sources
  BY <1>1, <1>3 DEF Fits, Sources, Rooted, Branches, Objects, Repositories
<1>5. /\ r \in Made /\ heap[r].class \in Repositories /\ op.recv # None
      /\ heap[r].obj \in Made /\ heap[heap[r].obj].class = "Repository"
  BY <1>3, <1>4, RepoFacts DEF IInv
<1>6. Needed(r) \ {None} = {heap[r].obj}
  BY <1>5, RepositoryNeeds DEF IInv
<1>7. heap[r].obj \in Needed(op.recv) \ {None}
  <2>1. CASE heap[op.recv].class \in Repositories
    BY <1>5, <1>6, <2>1 DEF RepoOf
  <2>2. CASE heap[op.recv].class \notin Repositories
    <3>1. heap[op.recv].class \in Rooted /\ r = heap[op.recv].up
      BY <1>4, <1>5, <2>2 DEF Sources, RepoOf
    <3>2. heap[op.recv].obj = op.recv /\ heap[op.recv].on = heap[r].obj
      BY <1>3, <1>5, <3>1, WrapperFacts DEF IInv, Shapes, Shape, Rooted
    <3>3. heap[r].obj # None
      BY <1>5, WrapperFacts DEF IInv
    <3> QED BY <1>3, <3>2, <3>3, NeededFacts DEF IInv
  <2> QED BY <2>1, <2>2
<1>8. heap[heap[r].obj].c = "live"
  BY <1>5, <1>7 DEF IInv, Alive
<1> QED BY <1>6, <1>8 DEF Usable

\* A method uses what is live.
LEMMA UsesLive == IInv => NoUseAfterFree
<1> SUFFICES ASSUME IInv, NEW w \in InUse \ {None}
             PROVE  Usable(w) \/ op.m.names \subseteq Unkept
  BY DEF NoUseAfterFree
<1>1. Running
  BY DEF InUse
<1>2. op.m.names \subseteq Unkept \/ Keeps(op.m)
  BY <1>1, RunningFacts DEF IInv, Sound
<1>3. CASE Step \in Uses /\ Keeps(op.m)
  <2>1. w = op.recv \/ w = op.arg
    BY <1>1, <1>3 DEF InUse, Uses
  <2> QED BY <1>1, <1>3, <2>1, ReceiverIsUsable, ArgumentIsUsable
<1>4. CASE Step = "dup"
  <2>1. w = op.tmp
    BY <1>1, <1>4 DEF InUse
  <2> QED BY <1>1, <1>4, <2>1, TemporaryIsUsable
<1>5. CASE Step = "useUp"
  <2>1. w = RepoOf(op.recv)
    BY <1>1, <1>5 DEF InUse
  <2> QED BY <1>1, <1>5, <2>1, RepositoryIsUsable
<1>6. Step \in Uses \cup {"dup", "useUp"}
  BY <1>1 DEF InUse, Uses
<1> QED BY <1>2, <1>3, <1>4, <1>5, <1>6

\* The fields of a wrapper lead to none of its own class: to a Repository, or
\* first to a Config or an Index.
LEMMA NoCycles ==
  ASSUME TypeOK, Shapes, NEW w \in Made,
         heap[w].class \notin Repositories
  PROVE  w \notin Reach({heap[w].up})
<1> DEFINE up == heap[w].up
<1>1. None \notin Made
  BY WrapperFacts
<1>2. \A S : Fields(S) = {heap[u].up : u \in S \ {None}}
  BY DEF Fields
<1>3. \A r \in Made : heap[r].class \in Repositories => heap[r].up = r
  BY DEF Shapes, Shape, Repositories
<1>4. CASE up = None
  <2>1. Fields({up}) = {} /\ Fields({}) = {}
    BY <1>2, <1>4
  <2> QED BY <1>1, <1>4, <2>1 DEF Reach
<1>5. CASE up \in Made /\ heap[up].class \in Repositories
  <2>1. Fields({up}) = {up}
    BY <1>1, <1>2, <1>3, <1>5
  <2> QED BY <1>5, <2>1 DEF Reach
<1>6. CASE up \in Made /\ heap[w].class \in Iterators /\ heap[up].class \in {"Config", "Index"}
  <2> DEFINE next == heap[up].up
  <2>1. next = None \/ (next \in Made /\ heap[next].class \in Repositories)
    BY <1>6 DEF Shapes, Shape, Repositories, Branches, Objects, Iterators
  <2>2. Fields({up}) = {next}
    BY <1>1, <1>2, <1>6
  <2>3. Fields({next}) \subseteq {next}
    BY <1>2, <1>3, <2>1
  <2>4. w # up /\ w # next
    BY <1>1, <1>6, <2>1 DEF Iterators
  <2> HIDE DEF next
  <2> QED BY <2>2, <2>3, <2>4 DEF Reach
<1>7. \/ up = None
      \/ up \in Made /\ heap[up].class \in Repositories
      \/ up \in Made /\ heap[w].class \in Iterators /\ heap[up].class \in {"Config", "Index"}
  BY DEF Shapes, Shape
<1> QED BY <1>4, <1>5, <1>6, <1>7

\* What nobody reaches is finalized.
LEMMA LeavesNothing == IInv => NothingLeaks
<1> SUFFICES ASSUME IInv, NEW w \in Made, heap[w].c = "live", heap[w].obj = w,
                    heap[w].class \notin Unfreed
             PROVE  heap[w].fin /\ w \notin Reach({heap[w].up})
  BY DEF NothingLeaks
<1>1. heap[w].class # "Mempack"
  BY DEF IInv, Shapes, Shape
<1>2. heap[w].fin
  BY <1>1 DEF IInv, Status
<1>3. heap[w].class \notin Repositories
  BY DEF Unfreed, Repositories
<1> QED BY <1>2, <1>3, NoCycles DEF IInv

(***************************************************************************)
(* The inductive invariant holds, for any number of wrappers.              *)
(***************************************************************************)
THEOREM Invariance == Spec => []IInv
<1> QED BY InitIInv, NextIInv, PTL DEF Spec

(***************************************************************************)
(* Every place has a wrapper or none, the caller holds wrappers that are   *)
(* there, and a method that runs is at one of its steps.                   *)
(***************************************************************************)
THEOREM TypeCorrect == Spec => []TypeOK
<1>1. IInv => TypeOK
  BY DEF IInv
<1> QED BY <1>1, Invariance, PTL

(***************************************************************************)
(* While a C function works on the object of a wrapper, or Go copies its   *)
(* memory, neither that object nor one that it refers to has been freed,   *)
(* but in the methods of Unkept.                                           *)
(***************************************************************************)
THEOREM UsedIsLive == Spec => []NoUseAfterFree
<1> QED BY UsesLive, Invariance, PTL

(***************************************************************************)
(* No C object is freed twice, by the finalizer, by a Free or by the owner *)
(* that it was handed to.                                                  *)
(***************************************************************************)
THEOREM FreedAtMostOnce == Spec => []FreedOnce
<1>1. IInv => FreedOnce
  BY DEF IInv, Status, FreedOnce
<1> QED BY <1>1, Invariance, PTL

(***************************************************************************)
(* A live object that its wrapper owns and that the caller cannot reach    *)
(* has a finalizer that can run, but for the classes of Unfreed.           *)
(***************************************************************************)
THEOREM NothingIsLeft == Spec => []NothingLeaks
<1> QED BY LeavesNothing, Invariance, PTL
=============================================================================
