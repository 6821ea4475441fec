--------------------------- MODULE PayloadsProofs ---------------------------
(***************************************************************************)
(* That payloads resolve, that each part is freed once and that no handle  *)
(* leaks, for any number of calls, holders and handles.                    *)
(*                                                                         *)
(* A call works through a list of parts, first to populate them and at the *)
(* end to free them.  So the invariant says of each part of a holder where *)
(* it stands: not populated yet, when it is still in the list and C has    *)
(* nothing of it; populated, when its payload resolves to its own entry;   *)
(* or freed, when it is out of the list and has no entry.  And a holder    *)
(* has one call at most, so that nobody else frees its parts.              *)
(***************************************************************************)
EXTENDS Payloads, TLAPS

Elements(s) == {s[i] : i \in DOMAIN s}
Distinct(s) == \A i, j \in DOMAIN s : s[i] = s[j] => i = j

\* C was given the part's callbacks.
Populated(x, part) == part \subseteq DOMAIN payload[x]

\* The call that closes x has come past the part.
Passed(x, part) ==
  \E c \in Calls : pc[c] = "free" /\ holder[c] = x /\ part \notin Elements(todo[c])

Entry(x, part) == [holder |-> x, part |-> part]

\* What a call at each place has to do with its holder, which it has for
\* itself.
Working ==
  /\ \A c \in Calls :
       /\ pc[c] # "idle" => holder[c] \in Holders
       /\ pc[c] = "populate" => state[holder[c]] = "call"
       /\ pc[c] = "free" => state[holder[c]] = "closing"
       /\ pc[c] \in {"C", "user", "crashed"} =>
            state[holder[c]] \in {"call", "object", "dropped"}
  /\ \A c, d \in Calls :
       pc[c] # "idle" /\ pc[d] # "idle" /\ holder[c] = holder[d] => c = d

\* What each holder is, by its state.
Holding ==
  /\ given \in [Holders -> SUBSET CallbackNames]
  /\ payload = [x \in Holders |-> payload[x]]
  /\ \A x \in Holders :
       /\ state[x] = "none" => DOMAIN payload[x] = {}
       /\ state[x] # "none" => kind[x] \in Bindings
       /\ state[x] \in {"object", "dropped"} => kind[x].lives # "call"
       /\ state[x] = "lent" => kind[x] = Signer

\* The parts still to be populated or freed.
ToDo == \A c \in Calls :
  /\ pc[c] \in {"populate", "free"} =>
       Distinct(todo[c]) /\ Elements(todo[c]) \subseteq PartsOf(kind[holder[c]])
  /\ pc[c] = "populate" =>
       \A part \in Elements(todo[c]) : part \cap DOMAIN payload[holder[c]] = {}

\* C has whole parts, each with one payload, which has the part's entry until
\* the part is freed.
Handed == \A x \in Holders, part \in Parts :
  /\ part \cap DOMAIN payload[x] # {} => Populated(x, part)
  /\ Populated(x, part) =>
       /\ PayloadOf(x, part) # None
       /\ \A cb \in part : payload[x][cb] \in {None, PayloadOf(x, part)}
       /\ Passed(x, part) \/ ( /\ PayloadOf(x, part) \in DOMAIN table
                               /\ table[PayloadOf(x, part)] = Entry(x, part) )

\* An entry is that of a part that was populated and is still to be freed.
Kept == \A h \in DOMAIN table, x \in Holders, part \in Parts :
  table[h] = Entry(x, part) =>
    state[x] # "none" /\ PayloadOf(x, part) = h /\ ~Passed(x, part)

IInv == TypeOK /\ Working /\ Holding /\ ToDo /\ Handed /\ Kept
-----------------------------------------------------------------------------
(***************************************************************************)
(* The parts and the bindings                                              *)
(***************************************************************************)
\* A part has callbacks, none of them another part's.
LEMMA PartFacts ==
  /\ \A p \in Parts : p # {}
  /\ \A p, q \in Parts : p \cap q # {} => p = q
  /\ CheckoutPart \in Parts \ AlwaysTracked
<1>1. \A p \in Parts \ {CheckoutPart, ApplyPart} : \E cb : p = {cb}
  BY DEF Parts, AlwaysTracked, RemotePart, ClonePart, StashPart, RebasePart,
     DiffPart, IndexPart, SignerPart, DiffFilesPart, OdbPart, PackPart,
     StashListPart, SubmodulePart, TagPart, TreePart
<1>2. \A p \in Parts \ {CheckoutPart, ApplyPart} : p \cap (CheckoutPart \cup ApplyPart) = {}
  BY DEF Parts, AlwaysTracked, RemotePart, ClonePart, StashPart, RebasePart,
     DiffPart, IndexPart, SignerPart, DiffFilesPart, OdbPart, PackPart,
     StashListPart, SubmodulePart, TagPart, TreePart, CheckoutPart, ApplyPart
<1>3. CheckoutPart \cap ApplyPart = {} /\ CheckoutPart # {} /\ ApplyPart # {}
  BY DEF CheckoutPart, ApplyPart
<1>4. CheckoutPart \in Parts \ AlwaysTracked
  BY DEF Parts, AlwaysTracked, CheckoutPart, RemotePart, SignerPart,
     DiffFilesPart, OdbPart, PackPart, StashListPart, SubmodulePart, TagPart,
     TreePart
<1>5. ASSUME NEW p \in Parts, NEW q \in Parts, p \cap q # {}
      PROVE  p = q
  <2>1. CASE p \in {CheckoutPart, ApplyPart} /\ q \in {CheckoutPart, ApplyPart}
    BY <2>1, <1>3, <1>5
  <2>2. CASE p \notin {CheckoutPart, ApplyPart} /\ q \notin {CheckoutPart, ApplyPart}
    BY <2>2, <1>1, <1>5
  <2>3. CASE p \notin {CheckoutPart, ApplyPart} /\ q \in {CheckoutPart, ApplyPart}
    BY <2>3, <1>2, <1>5
  <2>4. CASE p \in {CheckoutPart, ApplyPart} /\ q \notin {CheckoutPart, ApplyPart}
    BY <2>4, <1>2, <1>5
  <2> QED BY <2>1, <2>2, <2>3, <2>4
<1>6. \A p \in Parts : p # {}
  BY <1>1, <1>3
<1> QED BY <1>4, <1>5, <1>6

\* What a sequence of one, two or three parts that differ has.
LEMMA Sequences123 ==
  /\ \A p \in Parts : /\ <<p>> \in Seq(Parts) /\ Distinct(<<p>>)
                      /\ Elements(<<p>>) = {p}
  /\ \A p, q \in Parts : p # q =>
       /\ <<p, q>> \in Seq(Parts) /\ Distinct(<<p, q>>)
       /\ Elements(<<p, q>>) = {p, q}
  /\ \A p, q, r \in Parts : p # q /\ p # r /\ q # r =>
       /\ <<p, q, r>> \in Seq(Parts) /\ Distinct(<<p, q, r>>)
       /\ Elements(<<p, q, r>>) = {p, q, r}
<1>1. \A p, q, r : /\ DOMAIN <<p>> = {1} /\ DOMAIN <<p, q>> = {1, 2}
                   /\ DOMAIN <<p, q, r>> = {1, 2, 3}
  OBVIOUS
<1> QED BY <1>1 DEF Distinct, Elements

\* The bindings of the module, by the parts that they have.
LEMMA BindingShapes ==
  ASSUME NEW k \in Bindings
  PROVE  /\ k.lives \in {"call", "object", "credential"}
         /\ k.lives = "credential" => k = Signer
         /\ \/ \E p \in Parts : k.populates = <<p>> /\ k.frees = <<p>>
            \/ \E p, q \in Parts : /\ p # q /\ k.populates = <<p, q>>
                                   /\ k.frees \in {<<p, q>>, <<q, p>>}
            \/ \E p, q, r \in Parts : /\ p # q /\ p # r /\ q # r
                                      /\ k.populates = <<p, q, r>> /\ k.frees = <<p, q, r>>
<1>1. /\ CheckoutPart # RemotePart /\ CheckoutPart # ClonePart /\ RemotePart # ClonePart
      /\ CheckoutPart # StashPart /\ CheckoutPart # RebasePart /\ DiffFilesPart # DiffPart
  BY DEF CheckoutPart, RemotePart, ClonePart, StashPart, RebasePart,
     DiffFilesPart, DiffPart
<1>2. {CheckoutPart, RemotePart, ClonePart, StashPart, RebasePart, DiffPart,
       ApplyPart, IndexPart, SignerPart, DiffFilesPart, OdbPart, PackPart,
       StashListPart, SubmodulePart, TagPart, TreePart} \subseteq Parts
  BY DEF Parts, AlwaysTracked
<1>3. CASE k \in {Fetch, Push, Connect, Prune, Checkout, DiffTrees, DiffForEach, ApplyDiff,
                  IndexAll, OdbForEach, PackbuilderForEach, StashForeach,
                  SubmoduleForeach, TagsForeach, TreeWalk}
  BY <1>2, <1>3 DEF Fetch, Push, Connect, Prune, Checkout, DiffTrees, DiffForEach,
     ApplyDiff, IndexAll, OdbForEach, PackbuilderForEach, StashForeach,
     SubmoduleForeach, TagsForeach, TreeWalk, PerCall, Binding
<1>4. CASE k \in {Clone, SubmoduleUpdate, StashApply, DiffBlobs, Rebase}
  BY <1>1, <1>2, <1>4 DEF Clone, SubmoduleUpdate, StashApply, DiffBlobs, Rebase, Binding
<1>5. CASE k \in {Indexer, WritePack, Signer}
  BY <1>2, <1>5 DEF Indexer, WritePack, Signer, Binding
<1> QED BY <1>3, <1>4, <1>5 DEF Bindings

\* A binding frees the parts that it populates, each of them once.
LEMMA BindingFacts ==
  ASSUME NEW k \in Bindings
  PROVE  /\ k.lives \in {"call", "object", "credential"}
         /\ k.lives = "credential" => k = Signer
         /\ k.populates \in Seq(Parts) /\ k.frees \in Seq(Parts)
         /\ Distinct(k.populates) /\ Distinct(k.frees)
         /\ Elements(k.populates) = PartsOf(k) /\ Elements(k.frees) = PartsOf(k)
         /\ PartsOf(k) \subseteq Parts
<1>1. PartsOf(k) = Elements(k.populates)
  BY DEF PartsOf, Elements
<1>2. CASE \E p \in Parts : k.populates = <<p>> /\ k.frees = <<p>>
  BY <1>1, <1>2, BindingShapes, Sequences123
<1>3. CASE \E p, q \in Parts : /\ p # q /\ k.populates = <<p, q>>
                               /\ k.frees \in {<<p, q>>, <<q, p>>}
  <2>1. PICK p \in Parts, q \in Parts : /\ p # q /\ k.populates = <<p, q>>
                                        /\ k.frees \in {<<p, q>>, <<q, p>>}
    BY <1>3
  <2>2. \A s \in {<<p, q>>, <<q, p>>} :
          s \in Seq(Parts) /\ Distinct(s) /\ Elements(s) = {p, q}
    <3>1. <<p, q>> \in Seq(Parts) /\ Distinct(<<p, q>>) /\ Elements(<<p, q>>) = {p, q}
      BY <2>1, Sequences123
    <3>2. <<q, p>> \in Seq(Parts) /\ Distinct(<<q, p>>) /\ Elements(<<q, p>>) = {q, p}
      BY <2>1, Sequences123
    <3>3. {q, p} = {p, q}
      OBVIOUS
    <3> QED BY <3>1, <3>2, <3>3
  <2>3. k.populates \in {<<p, q>>, <<q, p>>} /\ k.frees \in {<<p, q>>, <<q, p>>}
    BY <2>1
  <2> QED BY <1>1, <2>2, <2>3, BindingShapes
<1>4. CASE \E p, q, r \in Parts : /\ p # q /\ p # r /\ q # r
                                  /\ k.populates = <<p, q, r>> /\ k.frees = <<p, q, r>>
  BY <1>1, <1>4, BindingShapes, Sequences123
<1> QED BY <1>2, <1>3, <1>4, BindingShapes

\* The signer's binding has its one part, and no holder's kind is no binding.
LEMMA KindFacts ==
  /\ PartsOf(Signer) = {SignerPart} /\ SignerPart \in Parts /\ Signer \in Bindings
  /\ NoKind \notin Bindings /\ CallbacksOf(NoKind) = {}
<1>1. PartsOf(Signer) = {SignerPart} /\ SignerPart \in Parts /\ Signer \in Bindings
  <2>1. SignerPart \in Parts /\ Signer \in Bindings
    BY DEF Parts, AlwaysTracked, Bindings
  <2>2. PartsOf(Signer) = Elements(<<SignerPart>>)
    BY DEF PartsOf, Elements, Signer, Binding
  <2> QED BY <2>1, <2>2, Sequences123
<1>2. NoKind \notin Bindings
  BY BindingFacts DEF NoKind, Binding
<1>3. CallbacksOf(NoKind) = {}
  BY DEF CallbacksOf, PartsOf, NoKind, Binding
<1> QED BY <1>1, <1>2, <1>3

\* The empty list, and what is left of a list without its head.
LEMMA ListFacts ==
  /\ << >> \in Seq(Parts) /\ Elements(<< >>) = {} /\ DOMAIN << >> = {}
  /\ \A s \in Seq(Parts) : s # << >> /\ Distinct(s) =>
       /\ Head(s) \in Parts /\ Head(s) \in Elements(s) /\ Tail(s) \in Seq(Parts)
       /\ Distinct(Tail(s)) /\ Elements(Tail(s)) = Elements(s) \ {Head(s)}
<1>1. << >> \in Seq(Parts) /\ Elements(<< >>) = {} /\ DOMAIN << >> = {}
  BY DEF Elements
<1>2. ASSUME NEW s \in Seq(Parts), s # << >>, Distinct(s)
      PROVE  /\ Head(s) \in Parts /\ Head(s) \in Elements(s) /\ Tail(s) \in Seq(Parts)
             /\ Distinct(Tail(s)) /\ Elements(Tail(s)) = Elements(s) \ {Head(s)}
  <2>1. /\ Len(s) \in Nat \ {0} /\ DOMAIN s = 1..Len(s) /\ Head(s) = s[1]
        /\ Tail(s) \in Seq(Parts) /\ DOMAIN Tail(s) = 1..(Len(s) - 1)
        /\ \A i \in 1..(Len(s) - 1) : Tail(s)[i] = s[i + 1]
    BY <1>2
  <2>2. Distinct(Tail(s))
    BY <1>2, <2>1 DEF Distinct
  <2>3. \A i \in 1..Len(s) : i # 1 => i - 1 \in 1..(Len(s) - 1) /\ Tail(s)[i - 1] = s[i]
    BY <2>1
  <2>4. Elements(Tail(s)) \subseteq Elements(s) \ {Head(s)}
    BY <1>2, <2>1 DEF Distinct, Elements
  <2>5. ASSUME NEW e \in Elements(s), e # Head(s)
        PROVE  e \in Elements(Tail(s))
    <3>1. PICK i \in 1..Len(s) : e = s[i]
      BY <2>1 DEF Elements
    <3>2. i # 1
      BY <2>1, <2>5, <3>1
    <3>3. i - 1 \in DOMAIN Tail(s) /\ e = Tail(s)[i - 1]
      BY <2>1, <2>3, <3>1, <3>2
    <3> QED BY <3>3 DEF Elements
  <2>6. Head(s) \in Elements(s) /\ Head(s) \in Parts
    BY <1>2, <2>1 DEF Elements
  <2> QED BY <2>1, <2>2, <2>4, <2>5, <2>6
<1> QED BY <1>1, <1>2

-----------------------------------------------------------------------------
(***************************************************************************)
(* What the invariant says                                                 *)
(***************************************************************************)
\* A payload is looked up in the holder's payloads and nowhere else.
LEMMA SamePayload ==
  ASSUME UNCHANGED payload
  PROVE  \A x, part : /\ PayloadOf(x, part)' = PayloadOf(x, part)
                      /\ Populated(x, part)' = Populated(x, part)
BY DEF PayloadOf, Populated

\* None is nothing else, and an entry is of its holder and part.
LEMMA NoneFacts ==
  /\ None \notin Calls /\ None \notin Holders /\ None \notin Handles
  /\ \A x, part : Entry(x, part).holder = x /\ Entry(x, part).part = part
BY NoneAssumption DEF Entry

\* What was populated is a part of the holder's binding; an entry is of such
\* a part, and a holder at rest has none.
LEMMA Populations ==
  ASSUME IInv
  PROVE  /\ \A x \in Holders, part \in Parts : Populated(x, part) =>
              state[x] # "none" /\ part \in PartsOf(kind[x])
         /\ \A h \in DOMAIN table :
              /\ h # None /\ h \in Handles
              /\ table[h].holder \in Holders /\ table[h].part \in Parts
              /\ table[h] = Entry(table[h].holder, table[h].part)
              /\ Populated(table[h].holder, table[h].part)
              /\ table[h].part \in PartsOf(kind[table[h].holder])
<1>1. ASSUME NEW x \in Holders, NEW part \in Parts, Populated(x, part)
      PROVE  state[x] # "none" /\ part \in PartsOf(kind[x])
  <2>1. PICK cb \in part : cb \in DOMAIN payload[x]
    BY <1>1, PartFacts DEF Populated
  <2>2. state[x] # "none" /\ kind[x] \in Bindings
    BY <2>1 DEF IInv, Holding
  <2>3. PICK q \in PartsOf(kind[x]) : cb \in q
    BY <2>1 DEF IInv, TypeOK, CallbacksOf
  <2> QED BY <2>1, <2>2, <2>3, BindingFacts, PartFacts
<1>2. ASSUME NEW h \in DOMAIN table
      PROVE  /\ h # None /\ h \in Handles
             /\ table[h].holder \in Holders /\ table[h].part \in Parts
             /\ table[h] = Entry(table[h].holder, table[h].part)
             /\ Populated(table[h].holder, table[h].part)
  <2>1. h \in Handles /\ h # None /\ table[h] \in [holder : Holders, part : Parts]
    BY NoneFacts DEF IInv, TypeOK
  <2>2. table[h] = Entry(table[h].holder, table[h].part)
    BY <2>1 DEF Entry
  <2> QED BY <2>1, <2>2 DEF IInv, Kept, Populated, PayloadOf
<1> QED BY <1>1, <1>2

\* The callbacks of a holder are callbacks of parts.
LEMMA CallbackTypes ==
  /\ \A k \in Bindings : CallbacksOf(k) \subseteq CallbackNames
  /\ \A k \in Bindings \cup {NoKind} : CallbacksOf(k) \subseteq CallbackNames
<1>1. \A k \in Bindings : CallbacksOf(k) \subseteq CallbackNames
  BY BindingFacts DEF CallbacksOf, CallbackNames
<1> QED BY <1>1, KindFacts

\* Where nothing is populated or freed it stays so.
LEMMA Frame ==
  ASSUME IInv, UNCHANGED <<table, payload>>,
         \A x \in Holders : state[x] # "none" => state'[x] # "none",
         \A x \in Holders, part \in Parts :
           Populated(x, part) => (Passed(x, part)' <=> Passed(x, part))
  PROVE  Handed' /\ Kept'
<1>1. Handed'
  BY SamePayload DEF IInv, Handed
<1>2. ASSUME NEW h \in DOMAIN table, NEW x \in Holders, NEW part \in Parts,
             table[h] = Entry(x, part)
      PROVE  state'[x] # "none" /\ PayloadOf(x, part)' = h /\ ~Passed(x, part)'
  <2>1. Populated(x, part)
    BY <1>2, NoneFacts, Populations
  <2> QED BY <1>2, <2>1, SamePayload DEF IInv, Kept
<1> QED BY <1>1, <1>2 DEF Kept

\* A call that neither was nor is closing its holder passes no part.
LEMMA SamePassed ==
  ASSUME NEW c \in Calls, pc[c] # "free", pc'[c] # "free",
         \A d \in Calls \ {c} :
           pc'[d] = pc[d] /\ holder'[d] = holder[d] /\ todo'[d] = todo[d]
  PROVE  \A x, part : Passed(x, part)' <=> Passed(x, part)
BY DEF Passed

\* A call that begins to close a holder, which it has for itself, has not
\* passed a part of it.
LEMMA NonePassed ==
  ASSUME IInv, NEW c \in Calls, NEW x \in Holders, holder'[c] = x,
         state[x] \notin {"none", "closing"}, pc[c] # "free",
         todo'[c] = kind[x].frees,
         \A d \in Calls \ {c} : 
           pc'[d] = pc[d] /\ holder'[d] = holder[d] /\ todo'[d] = todo[d]
  PROVE  \A y \in Holders, part \in Parts :
           Populated(y, part) => (Passed(y, part)' <=> Passed(y, part))
<1>1. ASSUME NEW part \in Parts, Populated(x, part)
      PROVE  part \in Elements(todo'[c])
  BY <1>1, Populations, BindingFacts DEF IInv, Holding
<1>2. ASSUME NEW part \in Parts
      PROVE  ~Passed(x, part) 
  BY DEF Passed, IInv, Working
<1> QED BY <1>1, <1>2 DEF Passed

\* A holder that goes back to rest takes its payloads along.
LEMMA ResetFacts ==
  ASSUME IInv, NEW x \in Holders, Reset(x)
  PROVE  /\ state' \in [Holders -> {"none", "call", "object", "dropped", "lent", "closing"}]
         /\ kind' \in [Holders -> Bindings \cup {NoKind}]
         /\ Holding'
         /\ \A y \in Holders :
              /\ given'[y] \subseteq CallbacksOf(kind'[y])
              /\ DOMAIN payload'[y] \subseteq CallbacksOf(kind'[y])
              /\ payload'[y] \in [DOMAIN payload'[y] -> Handles \cup {None}]
         /\ \A y \in Holders \ {x} : state'[y] = state[y] /\ kind'[y] = kind[y]
         /\ \A y \in Holders, q \in Parts : y # x =>
              /\ PayloadOf(y, q)' = PayloadOf(y, q)
              /\ Populated(y, q)' = Populated(y, q)
              /\ payload'[y] = payload[y]
         /\ DOMAIN payload'[x] = {}
         /\ \A q \in Parts : ~Populated(x, q)'
<1>1. /\ state' = [state EXCEPT ![x] = "none"] /\ kind' = [kind EXCEPT ![x] = NoKind]
      /\ given' = [given EXCEPT ![x] = {}] /\ payload' = [payload EXCEPT ![x] = << >>]
  BY DEF Reset
<1>2. /\ payload' = [y \in Holders |-> payload'[y]] /\ payload'[x] = << >>
      /\ \A y \in Holders \ {x} : payload'[y] = payload[y]
  BY <1>1 DEF IInv, Holding
<1>3. /\ given' \in [Holders -> SUBSET CallbackNames] /\ given'[x] = {}
      /\ \A y \in Holders \ {x} : given'[y] = given[y]
  BY <1>1 DEF IInv, Holding
<1>4. /\ state' \in [Holders -> {"none", "call", "object", "dropped", "lent", "closing"}]
      /\ kind' \in [Holders -> Bindings \cup {NoKind}]
      /\ state'[x] = "none" /\ kind'[x] = NoKind
      /\ \A y \in Holders \ {x} : state'[y] = state[y] /\ kind'[y] = kind[y]
  BY <1>1 DEF IInv, TypeOK
<1>5. DOMAIN payload'[x] = {} /\ payload'[x] \in [DOMAIN payload'[x] -> Handles \cup {None}]
  BY <1>2, ListFacts
<1>6. Holding'
  BY <1>2, <1>3, <1>4, <1>5 DEF IInv, Holding
<1>7. \A y \in Holders :
        /\ given'[y] \subseteq CallbacksOf(kind'[y])
        /\ DOMAIN payload'[y] \subseteq CallbacksOf(kind'[y])
        /\ payload'[y] \in [DOMAIN payload'[y] -> Handles \cup {None}]
  BY <1>2, <1>3, <1>4, <1>5 DEF IInv, TypeOK
<1>8. \A y \in Holders, q \in Parts : y # x =>
        /\ PayloadOf(y, q)' = PayloadOf(y, q)
        /\ Populated(y, q)' = Populated(y, q)
        /\ payload'[y] = payload[y]
  BY <1>2 DEF PayloadOf, Populated
<1>9. \A q \in Parts : ~Populated(x, q)'
  BY <1>5, PartFacts DEF Populated
<1> QED BY <1>4, <1>5, <1>6, <1>7, <1>8, <1>9

\* Untracking takes the handle's entry and no other.
LEMMA UntrackFacts ==
  ASSUME IInv, NEW h, Untrack(h)
  PROVE  /\ DOMAIN table' = DOMAIN table \ {h}
         /\ \A k \in DOMAIN table' : table'[k] = table[k]
         /\ DOMAIN table' \subseteq Handles
         /\ table' \in [DOMAIN table' -> [holder : Holders, part : Parts]]
<1>1. /\ DOMAIN table' = DOMAIN table \ {h} /\ \A k \in DOMAIN table' : table'[k] = table[k]
      /\ table' = [k \in DOMAIN table' |-> table'[k]]
  BY DEF Untrack
<1> QED BY <1>1 DEF IInv, TypeOK
\* A call begins with a holder that nobody has.
LEMMA BeginIInv ==
  ASSUME IInv, NEW c \in Calls, NEW p \in Calls \cup {None}, NEW x \in Holders, NEW k \in Bindings,
         NEW g \in Choices(k), Begin(c, p, x, k, g)
  PROVE  IInv'
<1>1. TypeOK'
  <2>1. k.populates \in Seq(Parts)
    BY BindingFacts
  <2>2. g \subseteq CallbacksOf(k) /\ DOMAIN payload[x] = {}
    BY DEF Choices, IInv, Holding, Begin
  <2>3. /\ kind' = [kind EXCEPT ![x] = k] /\ given' = [given EXCEPT ![x] = g]
        /\ payload' = payload /\ table' = table
    BY DEF Begin
  <2>4. \A y \in Holders :
          /\ given'[y] \subseteq CallbacksOf(kind'[y])
          /\ DOMAIN payload'[y] \subseteq CallbacksOf(kind'[y])
          /\ payload'[y] \in [DOMAIN payload'[y] -> Handles \cup {None}]
    BY <2>2, <2>3 DEF IInv, TypeOK, Holding
  <2>5. /\ state' \in [Holders -> {"none", "call", "object", "dropped", "lent", "closing"}]
        /\ kind' \in [Holders -> Bindings \cup {NoKind}]
        /\ pc' \in [Calls -> {"idle", "populate", "C", "user", "free", "crashed"}]
        /\ holder' \in [Calls -> Holders \cup {None}]
        /\ parent' \in [Calls -> Calls \cup {None}]
        /\ running' \in [Calls -> CallbackNames \cup {None}]
        /\ todo' \in [Calls -> Seq(Parts)]
    BY <2>1 DEF IInv, TypeOK, Begin, Enter
  <2> QED BY <2>3, <2>4, <2>5 DEF IInv, TypeOK
<1>2. Working'
  <2>1. \A d \in Calls : pc[d] # "idle" => holder[d] # x
    BY DEF Begin, IInv, TypeOK, Working
  <2>2. /\ pc[c] = "idle" /\ pc' = [pc EXCEPT ![c] = "populate"]
        /\ holder' = [holder EXCEPT ![c] = x] /\ state' = [state EXCEPT ![x] = "call"]
    BY DEF Begin, Enter
  <2> QED BY <2>1, <2>2 DEF IInv, TypeOK, Working
<1>3. Holding'
  <2>1. g \subseteq CallbackNames
    BY CallbackTypes DEF Choices
  <2> QED BY <2>1 DEF IInv, TypeOK, Holding, Begin
<1>4. ToDo'
  BY BindingFacts DEF IInv, TypeOK, Working, Holding, ToDo, Begin, Enter
<1>5. \A y \in Holders, part \in Parts :
       Populated(y, part) => (Passed(y, part)' <=> Passed(y, part))
  BY SamePassed DEF IInv, TypeOK, Begin, Enter
<1>6. Handed' /\ Kept'
  BY <1>5, Frame DEF IInv, TypeOK, Begin, Enter
<1> QED BY <1>1, <1>2, <1>3, <1>4, <1>5, <1>6 DEF IInv

\* The part's callbacks get a payload of their own.
LEMMA PopulateIInv ==
  ASSUME IInv, NEW c \in Calls, Populate(c)
  PROVE  IInv'
<1>0. PICK x \in Holders, part \in Parts :
        /\ x = holder[c] /\ part = Head(todo[c]) /\ pc[c] = "populate"
        /\ kind[x] \in Bindings /\ part \in PartsOf(kind[x])
        /\ part \cap DOMAIN payload[x] = {}
        /\ todo' = [todo EXCEPT ![c] = Tail(todo[c])] /\ Tail(todo[c]) \in Seq(Parts)
        /\ Distinct(Tail(todo[c]))
        /\ Elements(Tail(todo[c])) = Elements(todo[c]) \ {part}
        /\ UNCHANGED <<state, kind, given, pc, holder, parent, running>>
  <2>1. /\ holder[c] \in Holders /\ pc[c] = "populate"
        /\ todo[c] \in Seq(Parts) /\ todo[c] # << >>
    BY DEF Populate, IInv, TypeOK, Working
  <2>2. /\ Distinct(todo[c]) /\ Elements(todo[c]) \subseteq PartsOf(kind[holder[c]])
        /\ \A q \in Elements(todo[c]) : q \cap DOMAIN payload[holder[c]] = {}
    BY <2>1 DEF IInv, ToDo
  <2>3. kind[holder[c]] \in Bindings
    BY <2>1 DEF IInv, Working, Holding
  <2> QED BY <2>1, <2>2, <2>3, ListFacts DEF Populate
<1>a. \A y, q : Passed(y, q)' <=> Passed(y, q)
  BY <1>0 DEF Passed, IInv, TypeOK
<1>b. \/ UNCHANGED <<table, payload>>
      \/ \E h \in Handles \ DOMAIN table :
           /\ Track(h, x, part) /\ IsTracked(part, given[x])
           /\ payload' = [payload EXCEPT ![x] = Both(@, PayloadsOf(part, given[x], h))]
  BY <1>0 DEF Populate
<1>c. ASSUME NEW h \in Handles \ DOMAIN table,
             Track(h, x, part), IsTracked(part, given[x]),
             payload' = [payload EXCEPT ![x] = Both(@, PayloadsOf(part, given[x], h))]
      PROVE  TypeOK' /\ Handed' /\ Kept' /\ DOMAIN payload'[x] = DOMAIN payload[x] \cup part
             /\ payload' = [y \in Holders |-> payload'[y]]
             /\ \A y \in Holders \ {x} : payload'[y] = payload[y]
  <2>1. /\ payload' = [y \in Holders |-> payload'[y]]
        /\ \A y \in Holders \ {x} : payload'[y] = payload[y]
        /\ payload'[x] = Both(payload[x], PayloadsOf(part, given[x], h))
    BY <1>0, <1>c DEF IInv, Holding
  <2>2. /\ DOMAIN payload'[x] = DOMAIN payload[x] \cup part
        /\ payload'[x] = [cb \in DOMAIN payload'[x] |-> payload'[x][cb]]
        /\ \A cb \in part : payload'[x][cb] =
             IF part = CheckoutPart /\ cb \notin given[x] THEN None ELSE h
        /\ \A cb \in DOMAIN payload[x] : payload'[x][cb] = payload[x][cb]
    BY <1>0, <2>1 DEF Both, PayloadsOf
  <2>3. Populated(x, part)' /\ PayloadOf(x, part)' = h
    <3>1. Populated(x, part)' /\ \E cb : cb \in part
      BY <1>0, <2>2, PartFacts DEF Populated
    <3>2. CASE part # CheckoutPart
      BY <3>1, <3>2, <2>2 DEF PayloadOf, Populated
    <3>3. CASE part = CheckoutPart
      <4>1. part \cap given[x] # {}
        BY <1>c, <3>3, PartFacts DEF IsTracked
      <4>2. h # None /\ part = {"checkoutNotify", "checkoutProgress"}
        BY <3>3, NoneFacts DEF CheckoutPart
      <4> QED BY <4>1, <4>2, <3>1, <3>3, <2>2 DEF PayloadOf, Populated
    <3> QED BY <3>2, <3>3
  <2>4. ASSUME NEW y \in Holders, NEW q \in Parts, y # x \/ q # part
        PROVE  /\ Populated(y, q)' <=> Populated(y, q)
               /\ PayloadOf(y, q)' = PayloadOf(y, q)
               /\ q \cap DOMAIN payload'[y] = q \cap DOMAIN payload[y]
               /\ Populated(y, q) => \A cb \in q : payload'[y][cb] = payload[y][cb]
    <3>1. CASE y # x
      BY <3>1, <2>1 DEF Populated, PayloadOf
    <3>2. CASE y = x
      <4>1. q \cap part = {} /\ q # {}
        BY <1>0, <2>4, <3>2, PartFacts
      <4>2. q \cap DOMAIN payload'[x] = q \cap DOMAIN payload[x]
        BY <4>1, <2>2
      <4>3. Populated(x, q)' <=> Populated(x, q)
        BY <4>2 DEF Populated
      <4>4. Populated(x, q) => \A cb \in q : payload'[x][cb] = payload[x][cb]
        BY <2>2 DEF Populated
      <4>5. PayloadOf(x, q)' = PayloadOf(x, q)
        <5>1. CASE ~Populated(x, q)
          BY <5>1, <4>3 DEF PayloadOf, Populated
        <5>2. CASE Populated(x, q) /\ q # CheckoutPart
          BY <5>2, <4>1, <4>3, <4>4 DEF PayloadOf, Populated
        <5>3. CASE Populated(x, q) /\ q = CheckoutPart
          <6>1. "checkoutNotify" \in q /\ "checkoutProgress" \in q
            BY <5>3 DEF CheckoutPart
          <6> QED BY <5>3, <6>1, <4>3, <4>4 DEF PayloadOf, Populated
        <5> QED BY <5>1, <5>2, <5>3
      <4> QED BY <3>2, <4>2, <4>3, <4>4, <4>5
    <3> QED BY <3>1, <3>2
  <2>5. /\ DOMAIN table' = DOMAIN table \cup {h} /\ table'[h] = Entry(x, part)
        /\ \A k \in DOMAIN table : table'[k] = table[k]
        /\ table' = [k \in DOMAIN table' |-> table'[k]]
    BY <1>c DEF Track, Entry
  <2>6. TypeOK'
    <3>1. DOMAIN table' \subseteq Handles
      BY <2>5 DEF IInv, TypeOK
    <3>2. table' \in [DOMAIN table' -> [holder : Holders, part : Parts]]
      <4>1. Entry(x, part) \in [holder : Holders, part : Parts]
        BY <1>0 DEF Entry
      <4>2. \A k \in DOMAIN table : table[k] \in [holder : Holders, part : Parts]
        BY DEF IInv, TypeOK
      <4> QED BY <4>1, <4>2, <2>5
    <3>3. part \subseteq CallbacksOf(kind[x])
      BY <1>0 DEF CallbacksOf
    <3>4. /\ DOMAIN payload'[x] \subseteq CallbacksOf(kind[x])
          /\ payload'[x] \in [DOMAIN payload'[x] -> Handles \cup {None}]
      <4>1. /\ DOMAIN payload[x] \subseteq CallbacksOf(kind[x])
            /\ \A cb \in DOMAIN payload[x] : payload[x][cb] \in Handles \cup {None}
        BY <1>0 DEF IInv, TypeOK
      <4> QED BY <4>1, <3>3, <2>2
    <3>5. \A y \in Holders :
            /\ given'[y] \subseteq CallbacksOf(kind'[y])
            /\ DOMAIN payload'[y] \subseteq CallbacksOf(kind'[y])
            /\ payload'[y] \in [DOMAIN payload'[y] -> Handles \cup {None}]
      <4>1. ASSUME NEW y \in Holders \ {x}
            PROVE  /\ DOMAIN payload[y] \subseteq CallbacksOf(kind[y])
                   /\ payload[y] \in [DOMAIN payload[y] -> Handles \cup {None}]
        BY DEF IInv, TypeOK
      <4>2. \A y \in Holders : given[y] \subseteq CallbacksOf(kind[y])
        BY DEF IInv, TypeOK
      <4> QED BY <4>1, <4>2, <3>4, <2>1, <1>0
    <3>6. todo' \in [Calls -> Seq(Parts)]
      BY <1>0 DEF IInv, TypeOK
    <3> QED BY <1>0, <3>1, <3>2, <3>5, <3>6 DEF IInv, TypeOK
  <2>7. Handed'
    <3>1. ASSUME NEW y \in Holders, NEW q \in Parts, y # x \/ q # part
          PROVE  /\ q \cap DOMAIN payload'[y] # {} => Populated(y, q)'
                 /\ Populated(y, q)' =>
                      /\ PayloadOf(y, q)' # None
                      /\ \A cb \in q : payload'[y][cb] \in {None, PayloadOf(y, q)'}
                      /\ Passed(y, q)' \/ ( /\ PayloadOf(y, q)' \in DOMAIN table'
                                            /\ table'[PayloadOf(y, q)'] = Entry(y, q) )
      BY <3>1, <2>4, <2>5, <1>a DEF IInv, Handed
    <3>2. /\ Populated(x, part)' /\ PayloadOf(x, part)' # None
          /\ \A cb \in part : payload'[x][cb] \in {None, PayloadOf(x, part)'}
          /\ PayloadOf(x, part)' \in DOMAIN table'
          /\ table'[PayloadOf(x, part)'] = Entry(x, part)
      BY <2>2, <2>3, <2>5, NoneFacts
    <3> QED BY <3>1, <3>2 DEF Handed
  <2>8. Kept'
    <3>1. ~Passed(x, part)' /\ state[x] # "none"
      BY <1>0, <1>a DEF Passed, IInv, Working
    <3>2. Entry(x, part).holder = x /\ Entry(x, part).part = part
      BY NoneFacts
    <3>3. ASSUME NEW k \in DOMAIN table, NEW y \in Holders, NEW q \in Parts,
                 table[k] = Entry(y, q)
          PROVE  state'[y] # "none" /\ PayloadOf(y, q)' = k /\ ~Passed(y, q)'
      <4>1. Populated(y, q)
        BY <3>3, NoneFacts, Populations
      <4>2. y # x \/ q # part
        BY <4>1, <1>0, PartFacts DEF Populated
      <4> QED BY <4>2, <3>3, <2>4, <1>a, <1>0 DEF IInv, Kept
    <3> QED BY <1>0, <3>1, <3>2, <3>3, <2>3, <2>5, NoneFacts DEF Kept
  <2> QED BY <2>1, <2>2, <2>6, <2>7, <2>8
<1>1. TypeOK'
  <2>1. CASE UNCHANGED <<table, payload>>
    BY <1>0, <2>1 DEF IInv, TypeOK
  <2> QED BY <2>1, <1>b, <1>c
<1>2. Working'
  BY <1>0 DEF IInv, TypeOK, Working
<1>3. Holding'
  <2>1. CASE UNCHANGED <<table, payload>>
    BY <1>0, <2>1 DEF IInv, Holding
  <2>2. CASE /\ payload' = [y \in Holders |-> payload'[y]]
             /\ \A y \in Holders \ {x} : payload'[y] = payload[y]
    <3>1. state[x] = "call"
      BY <1>0 DEF IInv, Working
    <3> QED BY <1>0, <2>2, <3>1 DEF IInv, Holding
  <2> QED BY <2>1, <2>2, <1>b, <1>c
<1>4. ToDo'
  <2>1. ASSUME NEW d \in Calls, d # c, pc[d] \in {"populate", "free"}
        PROVE  holder[d] # x /\ holder[d] \in Holders
    BY <1>0, <2>1 DEF IInv, Working
  <2>2. CASE UNCHANGED <<table, payload>>
    BY <1>0, <2>2 DEF IInv, TypeOK, ToDo
  <2>3. CASE /\ DOMAIN payload'[x] = DOMAIN payload[x] \cup part
             /\ \A y \in Holders \ {x} : payload'[y] = payload[y]
    <3>1. ASSUME NEW q \in Elements(Tail(todo[c]))
          PROVE  q \cap DOMAIN payload'[x] = {}
      <4>1. q \in Elements(todo[c]) /\ q # part /\ q \in Parts
        BY <1>0, BindingFacts DEF IInv, ToDo
      <4>2. q \cap DOMAIN payload[x] = {} /\ q \cap part = {}
        BY <1>0, <4>1, PartFacts DEF IInv, ToDo
      <4> QED BY <4>2, <2>3
    <3>2. /\ Distinct(todo'[c]) /\ Elements(todo'[c]) \subseteq PartsOf(kind[x])
          /\ \A q \in Elements(todo'[c]) : q \cap DOMAIN payload'[x] = {}
      BY <1>0, <3>1 DEF IInv, TypeOK, ToDo
    <3>3. ASSUME NEW d \in Calls, d # c
          PROVE  /\ todo'[d] = todo[d]
                 /\ pc[d] = "populate" => DOMAIN payload'[holder[d]] = DOMAIN payload[holder[d]]
      BY <1>0, <2>1, <2>3, <3>3 DEF IInv, TypeOK
    <3> QED BY <1>0, <3>2, <3>3 DEF IInv, ToDo
  <2> QED BY <2>2, <2>3, <1>b, <1>c
<1>5. Handed'
  <2>1. CASE UNCHANGED <<table, payload>>
    BY <1>0, <1>a, <2>1, Frame
  <2> QED BY <2>1, <1>b, <1>c
<1>6. Kept'
  <2>1. CASE UNCHANGED <<table, payload>>
    BY <1>0, <1>a, <2>1, Frame
  <2> QED BY <2>1, <1>b, <1>c
<1> QED BY <1>1, <1>2, <1>3, <1>4, <1>5, <1>6 DEF IInv

\* With the last part populated C has them all.
LEMMA CallCIInv ==
  ASSUME IInv, NEW c \in Calls, CallC(c)
  PROVE  IInv'
<1>1. TypeOK'
  BY DEF IInv, TypeOK, Working, Holding, CallC, Goto, holderVars
<1>2. Working'
  BY NoneFacts DEF IInv, TypeOK, Working, Holding, CallC, Goto, holderVars
<1>3. Holding'
  BY DEF IInv, TypeOK, Working, Holding, CallC, Goto, holderVars
<1>4. ToDo'
  BY DEF IInv, TypeOK, Working, Holding, ToDo, CallC, Goto, holderVars
<1>5. \A y \in Holders, part \in Parts :
       Populated(y, part) => (Passed(y, part)' <=> Passed(y, part))
  BY SamePassed DEF IInv, TypeOK, CallC, Goto, holderVars
<1>6. Handed' /\ Kept'
  BY <1>5, Frame DEF IInv, TypeOK, CallC, Goto, holderVars
<1> QED BY <1>1, <1>2, <1>3, <1>4, <1>5, <1>6 DEF IInv

\* A callback leaves the parts as they are.
LEMMA CallBackIInv ==
  ASSUME IInv, NEW c \in Calls, NEW x \in Holders,
         NEW cb \in DOMAIN payload[x], CallBack(c, x, cb)
  PROVE  IInv'
<1>1. TypeOK'
  <2>1. cb \in CallbackNames
    BY CallbackTypes DEF IInv, TypeOK
  <2> QED BY <2>1 DEF IInv, TypeOK, CallBack, Goto, holderVars
<1>2. Working'
  BY NoneFacts DEF IInv, TypeOK, Working, Holding, CallBack, Goto, holderVars
<1>3. Holding'
  BY DEF IInv, TypeOK, Working, Holding, CallBack, Goto, holderVars
<1>4. ToDo'
  BY DEF IInv, TypeOK, Working, Holding, ToDo, CallBack, Goto, holderVars
<1>5. \A y \in Holders, part \in Parts :
       Populated(y, part) => (Passed(y, part)' <=> Passed(y, part))
  BY SamePassed DEF IInv, TypeOK, CallBack, Goto, holderVars
<1>6. Handed' /\ Kept'
  BY <1>5, Frame DEF IInv, TypeOK, CallBack, Goto, holderVars
<1> QED BY <1>1, <1>2, <1>3, <1>4, <1>5, <1>6 DEF IInv

\* So does one that panics: its call never frees them.
LEMMA CallBackPanicsIInv ==
  ASSUME IInv, NEW c \in Calls, NEW x \in Holders,
         NEW cb \in DOMAIN payload[x], CallBackPanics(c, x, cb)
  PROVE  IInv'
<1>1. TypeOK'
  BY DEF IInv, TypeOK, Working, Holding, CallBackPanics, Goto, holderVars
<1>2. Working'
  BY NoneFacts DEF IInv, TypeOK, Working, Holding, CallBackPanics, Goto,
     holderVars
<1>3. Holding'
  BY DEF IInv, TypeOK, Working, Holding, CallBackPanics, Goto, holderVars
<1>4. ToDo'
  BY DEF IInv, TypeOK, Working, Holding, ToDo, CallBackPanics, Goto, holderVars
<1>5. \A y \in Holders, part \in Parts :
       Populated(y, part) => (Passed(y, part)' <=> Passed(y, part))
  BY SamePassed DEF IInv, TypeOK, CallBackPanics, Goto, holderVars
<1>6. Handed' /\ Kept'
  BY <1>5, Frame DEF IInv, TypeOK, CallBackPanics, Goto, holderVars
<1> QED BY <1>1, <1>2, <1>3, <1>4, <1>5, <1>6 DEF IInv

\* User code returns to C.
LEMMA UserReturnsIInv ==
  ASSUME IInv, NEW c \in Calls, UserReturns(c)
  PROVE  IInv'
<1>1. TypeOK'
  BY DEF IInv, TypeOK, Working, Holding, UserReturns, Goto, holderVars
<1>2. Working'
  BY NoneFacts DEF IInv, TypeOK, Working, Holding, UserReturns, Goto, holderVars
<1>3. Holding'
  BY DEF IInv, TypeOK, Working, Holding, UserReturns, Goto, holderVars
<1>4. ToDo'
  BY DEF IInv, TypeOK, Working, Holding, ToDo, UserReturns, Goto, holderVars
<1>5. \A y \in Holders, part \in Parts :
       Populated(y, part) => (Passed(y, part)' <=> Passed(y, part))
  BY SamePassed DEF IInv, TypeOK, UserReturns, Goto, holderVars
<1>6. Handed' /\ Kept'
  BY <1>5, Frame DEF IInv, TypeOK, UserReturns, Goto, holderVars
<1> QED BY <1>1, <1>2, <1>3, <1>4, <1>5, <1>6 DEF IInv

\* The credential that is handed over is in nobody's use.
LEMMA HandOverIInv ==
  ASSUME IInv, NEW c \in Calls, NEW x \in Holders, HandOver(c, x)
  PROVE  IInv'
<1>1. TypeOK'
  BY DEF IInv, TypeOK, Working, Holding, HandOver, Goto, Open
<1>2. Working'
  BY NoneFacts DEF IInv, TypeOK, Working, Holding, HandOver, Goto, Open
<1>3. Holding'
  BY DEF IInv, TypeOK, Working, Holding, HandOver, Goto, Open
<1>4. ToDo'
  BY DEF IInv, TypeOK, Working, Holding, ToDo, HandOver, Goto, Open
<1>5. \A y \in Holders, part \in Parts :
       Populated(y, part) => (Passed(y, part)' <=> Passed(y, part))
  BY SamePassed DEF IInv, TypeOK, HandOver, Goto, Open
<1>6. Handed' /\ Kept'
  BY <1>5, Frame DEF IInv, TypeOK, HandOver, Goto, Open
<1> QED BY <1>1, <1>2, <1>3, <1>4, <1>5, <1>6 DEF IInv

\* The call turns to freeing all the parts.
LEMMA CallReturnsIInv ==
  ASSUME IInv, NEW c \in Calls, CallReturns(c)
  PROVE  IInv'
<1> DEFINE x == holder[c]
<1>0. /\ x \in Holders /\ kind[x] \in Bindings /\ state[x] \notin {"none", "closing"}
      /\ pc[c] = "C" /\ pc' = [pc EXCEPT ![c] = "free"]
      /\ holder' = holder /\ todo' = [todo EXCEPT ![c] = kind[x].frees]
  BY DEF CallReturns, Goto, IInv, Working, Holding
<1>1. TypeOK'
  BY <1>0, BindingFacts DEF IInv, TypeOK, Working, Holding, CallReturns, Goto
<1>2. Working'
  BY <1>0, NoneFacts DEF IInv, TypeOK, Working, Holding, CallReturns, Goto
<1>3. Holding'
  BY <1>0 DEF IInv, TypeOK, Working, Holding, CallReturns, Goto
<1>4. ToDo'
  BY <1>0, BindingFacts DEF IInv, TypeOK, Working, ToDo, CallReturns
<1>5. \A y \in Holders, part \in Parts :
       Populated(y, part) => (Passed(y, part)' <=> Passed(y, part))
  BY <1>0, NonePassed DEF IInv, TypeOK
<1>6. Handed' /\ Kept'
  BY <1>5, Frame DEF IInv, TypeOK, CallReturns, Goto
<1> QED BY <1>1, <1>2, <1>3, <1>4, <1>5, <1>6 DEF IInv

\* The object keeps the parts.
LEMMA ConstructedIInv ==
  ASSUME IInv, NEW c \in Calls, Constructed(c)
  PROVE  IInv'
<1>1. TypeOK'
  BY DEF IInv, TypeOK, Working, Holding, Constructed, Leave
<1>2. Working'
  BY NoneFacts DEF IInv, TypeOK, Working, Holding, Constructed, Leave
<1>3. Holding'
  BY DEF IInv, TypeOK, Working, Holding, Constructed, Leave
<1>4. ToDo'
  BY DEF IInv, TypeOK, Working, Holding, ToDo, Constructed, Leave
<1>5. \A y \in Holders, part \in Parts :
       Populated(y, part) => (Passed(y, part)' <=> Passed(y, part))
  BY SamePassed DEF IInv, TypeOK, Constructed, Leave
<1>6. Handed' /\ Kept'
  BY <1>5, Frame DEF IInv, TypeOK, Constructed, Leave
<1> QED BY <1>1, <1>2, <1>3, <1>4, <1>5, <1>6 DEF IInv

\* Without an object the call turns to freeing them.
LEMMA NotConstructedIInv ==
  ASSUME IInv, NEW c \in Calls, NotConstructed(c)
  PROVE  IInv'
<1> DEFINE x == holder[c]
<1>0. /\ x \in Holders /\ kind[x] \in Bindings /\ state[x] \notin {"none", "closing"}
      /\ pc[c] = "C" /\ pc' = [pc EXCEPT ![c] = "free"]
      /\ holder' = holder /\ todo' = [todo EXCEPT ![c] = kind[x].frees]
  BY DEF NotConstructed, Goto, IInv, Working, Holding
<1>1. TypeOK'
  BY <1>0, BindingFacts DEF IInv, TypeOK, Working, Holding, NotConstructed, Goto
<1>2. Working'
  BY <1>0, NoneFacts DEF IInv, TypeOK, Working, Holding, NotConstructed, Goto
<1>3. Holding'
  BY <1>0 DEF IInv, TypeOK, Working, Holding, NotConstructed, Goto
<1>4. ToDo'
  BY <1>0, BindingFacts DEF IInv, TypeOK, Working, ToDo, NotConstructed
<1>5. \A y \in Holders, part \in Parts :
       Populated(y, part) => (Passed(y, part)' <=> Passed(y, part))
  BY <1>0, NonePassed DEF IInv, TypeOK
<1>6. Handed' /\ Kept'
  BY <1>5, Frame DEF IInv, TypeOK, NotConstructed, Goto
<1> QED BY <1>1, <1>2, <1>3, <1>4, <1>5, <1>6 DEF IInv

\* A method begins on an object that nobody uses.
LEMMA MethodIInv ==
  ASSUME IInv, NEW c \in Calls, NEW p \in Calls \cup {None}, NEW x \in Holders, Method(c, p, x)
  PROVE  IInv'
<1>1. TypeOK'
  BY DEF IInv, TypeOK, Working, Holding, Method, Enter, Open, holderVars
<1>2. Working'
  BY NoneFacts DEF IInv, TypeOK, Working, Holding, Method, Enter, Open,
     holderVars
<1>3. Holding'
  BY DEF IInv, TypeOK, Working, Holding, Method, Enter, Open, holderVars
<1>4. ToDo'
  BY DEF IInv, TypeOK, Working, Holding, ToDo, Method, Enter, Open, holderVars
<1>5. \A y \in Holders, part \in Parts :
       Populated(y, part) => (Passed(y, part)' <=> Passed(y, part))
  BY SamePassed DEF IInv, TypeOK, Method, Enter, Open, holderVars
<1>6. Handed' /\ Kept'
  BY <1>5, Frame DEF IInv, TypeOK, Method, Enter, Open, holderVars
<1> QED BY <1>1, <1>2, <1>3, <1>4, <1>5, <1>6 DEF IInv

\* A method leaves the parts as they are.
LEMMA MethodReturnsIInv ==
  ASSUME IInv, NEW c \in Calls, MethodReturns(c)
  PROVE  IInv'
<1>1. TypeOK'
  BY DEF IInv, TypeOK, Working, Holding, MethodReturns, Leave, holderVars
<1>2. Working'
  BY NoneFacts DEF IInv, TypeOK, Working, Holding, MethodReturns, Leave,
     holderVars
<1>3. Holding'
  BY DEF IInv, TypeOK, Working, Holding, MethodReturns, Leave, holderVars
<1>4. ToDo'
  BY DEF IInv, TypeOK, Working, Holding, ToDo, MethodReturns, Leave, holderVars
<1>5. \A y \in Holders, part \in Parts :
       Populated(y, part) => (Passed(y, part)' <=> Passed(y, part))
  BY SamePassed DEF IInv, TypeOK, MethodReturns, Leave, holderVars
<1>6. Handed' /\ Kept'
  BY <1>5, Frame DEF IInv, TypeOK, MethodReturns, Leave, holderVars
<1> QED BY <1>1, <1>2, <1>3, <1>4, <1>5, <1>6 DEF IInv

\* Free and the finalizer turn to freeing all the parts.
LEMMA CloseIInv ==
  ASSUME IInv, NEW c \in Calls, NEW p \in Calls \cup {None}, NEW x \in Holders,
         state[x] \in {"object", "dropped"}, Open(x) = {}, Close(c, p, x)
  PROVE  IInv'
<1>1. TypeOK'
  BY BindingFacts DEF IInv, TypeOK, Working, Holding, Close, Enter, Open
<1>2. Working'
  BY NoneFacts DEF IInv, TypeOK, Working, Holding, Close, Enter, Open
<1>3. Holding'
  BY DEF IInv, TypeOK, Working, Holding, Close, Enter, Open
<1>4. ToDo'
  BY BindingFacts DEF IInv, TypeOK, Working, Holding, ToDo, Close, Enter, Open
<1>5. \A y \in Holders, part \in Parts :
       Populated(y, part) => (Passed(y, part)' <=> Passed(y, part))
  <2>1. /\ pc[c] = "idle" /\ state[x] \notin {"none", "closing"}
        /\ pc' = [pc EXCEPT ![c] = "free"] /\ holder' = [holder EXCEPT ![c] = x]
        /\ todo' = [todo EXCEPT ![c] = kind[x].frees]
    BY DEF Close, Enter
  <2> QED BY <2>1, NonePassed DEF IInv, TypeOK
<1>6. Handed' /\ Kept'
  BY <1>5, Frame DEF IInv, TypeOK, Close, Enter, Open
<1> QED BY <1>1, <1>2, <1>3, <1>4, <1>5, <1>6 DEF IInv

\* An object that is forgotten keeps the parts.
LEMMA DropIInv ==
  ASSUME IInv, NEW x \in Holders, Drop(x)
  PROVE  IInv'
<1>1. TypeOK'
  BY DEF IInv, TypeOK, Working, Holding, Drop
<1>2. Working'
  BY NoneFacts DEF IInv, TypeOK, Working, Holding, Drop
<1>3. Holding'
  BY DEF IInv, TypeOK, Working, Holding, Drop
<1>4. ToDo'
  BY DEF IInv, TypeOK, Working, Holding, ToDo, Drop
<1>5. \A y \in Holders, part \in Parts :
       Populated(y, part) => (Passed(y, part)' <=> Passed(y, part))
  BY DEF Passed, Drop
<1>6. Handed' /\ Kept'
  BY <1>5, Frame DEF IInv, TypeOK, Drop
<1> QED BY <1>1, <1>2, <1>3, <1>4, <1>5, <1>6 DEF IInv

\* The handle that is untracked is the part's own.
LEMMA FreePartIInv ==
  ASSUME IInv, NEW c \in Calls, FreePart(c)
  PROVE  IInv'
<1>0. PICK x \in Holders, part \in Parts :
        /\ x = holder[c] /\ part = Head(todo[c]) /\ pc[c] = "free"
        /\ part \in PartsOf(kind[x]) /\ part \in Elements(todo[c])
        /\ todo' = [todo EXCEPT ![c] = Tail(todo[c])] /\ Tail(todo[c]) \in Seq(Parts)
        /\ Distinct(Tail(todo[c]))
        /\ Elements(Tail(todo[c])) = Elements(todo[c]) \ {part}
        /\ UNCHANGED <<state, kind, given, payload, pc, holder, parent, running>>
  <2>1. /\ holder[c] \in Holders /\ pc[c] = "free"
        /\ todo[c] \in Seq(Parts) /\ todo[c] # << >>
    BY DEF FreePart, IInv, TypeOK, Working
  <2>2. Distinct(todo[c]) /\ Elements(todo[c]) \subseteq PartsOf(kind[holder[c]])
    BY <2>1 DEF IInv, ToDo
  <2> QED BY <2>1, <2>2, ListFacts DEF FreePart, holderVars
<1>a. /\ \A d \in Calls \ {c} : pc[d] = "free" => holder[d] # x
      /\ todo'[c] = Tail(todo[c]) /\ \A d \in Calls \ {c} : todo'[d] = todo[d]
  BY <1>0 DEF IInv, TypeOK, Working
<1>b. \A y \in Holders, q \in Parts : Passed(y, q)' <=> Passed(y, q) \/ (y = x /\ q = part)
  BY <1>0, <1>a DEF Passed
<1>c. ~Passed(x, part)
  BY <1>0, <1>a DEF Passed
<1>d. PICK h : /\ h = PayloadOf(x, part) /\ DOMAIN table' = DOMAIN table \ {h}
               /\ \A k \in DOMAIN table' : table'[k] = table[k]
               /\ DOMAIN table' \subseteq Handles
               /\ table' \in [DOMAIN table' -> [holder : Holders, part : Parts]]
  <2>1. CASE PayloadOf(x, part) # None
    BY <1>0, <2>1, UntrackFacts DEF FreePart
  <2>2. CASE PayloadOf(x, part) = None
    <3>1. /\ table' = table /\ None \notin DOMAIN table /\ DOMAIN table \subseteq Handles
          /\ table \in [DOMAIN table -> [holder : Holders, part : Parts]]
      BY <1>0, <2>2, NoneFacts DEF FreePart, IInv, TypeOK
    <3>2. DOMAIN table' = DOMAIN table \ {None}
      BY <3>1
    <3> QED BY <2>2, <3>1, <3>2
  <2> QED BY <2>1, <2>2
<1>1. TypeOK'
  BY <1>0, <1>d DEF IInv, TypeOK
<1>2. Working'
  BY <1>0 DEF IInv, Working
<1>3. Holding'
  BY <1>0 DEF IInv, Holding
<1>4. ToDo'
  BY <1>0, <1>a DEF IInv, ToDo
<1>5. Handed'
  <2>1. \A y \in Holders, q \in Parts :
          Populated(y, q) /\ ~Passed(y, q)' => PayloadOf(y, q) \in DOMAIN table'
    <3>1. ASSUME NEW y \in Holders, NEW q \in Parts, Populated(y, q), ~Passed(y, q)'
          PROVE  PayloadOf(y, q) \in DOMAIN table'
      <4>1. /\ PayloadOf(y, q) \in DOMAIN table /\ table[PayloadOf(y, q)] = Entry(y, q)
            /\ y # x \/ q # part
        BY <3>1, <1>b DEF IInv, Handed
      <4>2. CASE PayloadOf(y, q) # h
        BY <4>1, <4>2, <1>d
      <4>3. CASE PayloadOf(y, q) = h
        <5>1. Populated(x, part) /\ table[h] = Entry(x, part)
          <6>1. h # None
            BY <4>1, <4>3, Populations
          <6>2. Populated(x, part)
            BY <6>1, <1>d DEF PayloadOf, Populated
          <6> QED BY <6>2, <1>c, <1>d DEF IInv, Handed
        <5>2. Entry(x, part) = Entry(y, q)
          BY <5>1, <4>1, <4>3
        <5> QED BY <5>2, <4>1, NoneFacts
      <4> QED BY <4>2, <4>3
    <3> QED BY <3>1
  <2> QED BY <2>1, <1>0, <1>b, <1>d, SamePayload DEF IInv, Handed
<1>6. Kept'
  <2>1. ASSUME NEW k \in DOMAIN table', NEW y \in Holders, NEW q \in Parts,
               table'[k] = Entry(y, q)
        PROVE  state'[y] # "none" /\ PayloadOf(y, q)' = k /\ ~Passed(y, q)'
    <3>1. k \in DOMAIN table /\ k # h /\ table[k] = Entry(y, q)
      BY <2>1, <1>d
    <3>2. state[y] # "none" /\ PayloadOf(y, q) = k /\ ~Passed(y, q)
      BY <3>1 DEF IInv, Kept
    <3>3. y # x \/ q # part
      BY <3>1, <3>2, <1>d
    <3> QED BY <3>2, <3>3, <1>0, <1>b, SamePayload
  <2> QED BY <2>1 DEF Kept
<1> QED BY <1>1, <1>2, <1>3, <1>4, <1>5, <1>6 DEF IInv

\* With the last part freed the holder has no entry.
LEMMA FreedIInv ==
  ASSUME IInv, NEW c \in Calls, Freed(c)
  PROVE  IInv'
<1>0. PICK x \in Holders :
        /\ x = holder[c] /\ pc[c] = "free" /\ todo[c] = << >> /\ Reset(x)
        /\ pc' = [pc EXCEPT ![c] = "idle"] /\ holder' = [holder EXCEPT ![c] = None]
        /\ parent' = [parent EXCEPT ![c] = None]
        /\ UNCHANGED <<running, todo, table>>
  BY DEF Freed, Leave, IInv, Working
<1>a. /\ pc'[c] = "idle" /\ holder'[c] = None
      /\ \A d \in Calls \ {c} : /\ pc[d] # "idle" => holder[d] # x
                                /\ pc'[d] = pc[d] /\ holder'[d] = holder[d]
  BY <1>0 DEF IInv, TypeOK, Working
<1>b. \A y \in Holders, q \in Parts : y # x => (Passed(y, q)' <=> Passed(y, q))
  BY <1>0, <1>a DEF Passed
<1>c. \A q \in Parts : Passed(x, q)
  BY <1>0, ListFacts DEF Passed
<1>1. TypeOK'
  <2>1. /\ pc' \in [Calls -> {"idle", "populate", "C", "user", "free", "crashed"}]
        /\ holder' \in [Calls -> Holders \cup {None}]
        /\ parent' \in [Calls -> Calls \cup {None}]
    BY <1>0 DEF IInv, TypeOK
  <2> QED BY <1>0, <2>1, ResetFacts DEF IInv, TypeOK
<1>2. Working'
  BY <1>0, <1>a, ResetFacts DEF IInv, Working
<1>3. Holding'
  BY <1>0, ResetFacts
<1>4. ToDo'
  <2>1. ASSUME NEW d \in Calls, pc'[d] \in {"populate", "free"}
        PROVE  /\ d # c /\ pc[d] = pc'[d] /\ holder'[d] = holder[d]
               /\ kind'[holder[d]] = kind[holder[d]]
               /\ payload'[holder[d]] = payload[holder[d]]
    <3>1. /\ d # c /\ pc[d] = pc'[d] /\ holder'[d] = holder[d]
          /\ holder[d] \in Holders /\ holder[d] # x
      BY <1>a, <2>1 DEF IInv, Working
    <3>2. \E q : q \in Parts
      BY PartFacts
    <3> QED BY <3>1, <3>2, <1>0, ResetFacts
  <2> QED BY <1>0, <2>1 DEF IInv, ToDo
<1>5. Handed'
  <2>1. ASSUME NEW y \in Holders, NEW q \in Parts, y # x
        PROVE  /\ PayloadOf(y, q)' = PayloadOf(y, q)
               /\ Populated(y, q)' = Populated(y, q)
               /\ payload'[y] = payload[y] /\ (Passed(y, q)' <=> Passed(y, q))
    BY <2>1, <1>0, <1>b, ResetFacts
  <2>2. \A q \in Parts : q \cap DOMAIN payload'[x] = {} /\ ~Populated(x, q)'
    BY <1>0, ResetFacts
  <2> QED BY <1>0, <2>1, <2>2 DEF IInv, Handed
<1>6. Kept'
  <2>1. ASSUME NEW k \in DOMAIN table, NEW y \in Holders, NEW q \in Parts,
               table[k] = Entry(y, q)
        PROVE  state'[y] # "none" /\ PayloadOf(y, q)' = k /\ ~Passed(y, q)'
    <3>1. state[y] # "none" /\ PayloadOf(y, q) = k /\ ~Passed(y, q)
      BY <2>1 DEF IInv, Kept
    <3>2. y # x
      BY <3>1, <1>c
    <3> QED BY <3>1, <3>2, <1>0, <1>b, ResetFacts
  <2> QED BY <1>0, <2>1 DEF Kept
<1> QED BY <1>1, <1>2, <1>3, <1>4, <1>5, <1>6 DEF IInv

\* libgit2 frees a credential that nobody uses.
LEMMA FreedByCIInv ==
  ASSUME IInv, NEW x \in Holders, FreedByC(x)
  PROVE  IInv'
<1>0. /\ state[x] = "lent" /\ Reset(x) /\ kind[x] = Signer
      /\ UNCHANGED <<pc, holder, parent, running, todo>>
  BY DEF FreedByC, IInv, Holding
<1>a. \A d \in Calls : pc[d] # "idle" => holder[d] # x
  BY <1>0 DEF IInv, TypeOK, Working
<1>b. \A y \in Holders, q \in Parts : Passed(y, q)' <=> Passed(y, q)
  BY <1>0 DEF Passed
<1>c. ~Passed(x, SignerPart)
  BY <1>a DEF Passed
<1>d. PICK h : /\ h = PayloadOf(x, SignerPart) /\ DOMAIN table' = DOMAIN table \ {h}
               /\ \A k \in DOMAIN table' : table'[k] = table[k]
               /\ DOMAIN table' \subseteq Handles
               /\ table' \in [DOMAIN table' -> [holder : Holders, part : Parts]]
  BY UntrackFacts DEF FreedByC
<1>e. \A y \in Holders \ {x} :
        payload'[y] = payload[y] /\ kind'[y] = kind[y] /\ state'[y] = state[y]
  BY <1>0, ResetFacts, KindFacts
<1>1. TypeOK'
  BY <1>0, <1>d, ResetFacts DEF IInv, TypeOK
<1>2. Working'
  BY <1>0, <1>a, <1>e DEF IInv, Working
<1>3. Holding'
  BY <1>0, ResetFacts
<1>4. ToDo'
  <2>1. \A d \in Calls : pc[d] \in {"populate", "free"} => holder[d] \in Holders \ {x}
    BY <1>a DEF IInv, Working
  <2> QED BY <1>0, <1>e, <2>1 DEF IInv, ToDo
<1>5. Handed'
  <2>1. ASSUME NEW y \in Holders, NEW q \in Parts, y # x
        PROVE  /\ PayloadOf(y, q)' = PayloadOf(y, q)
               /\ Populated(y, q)' = Populated(y, q)
               /\ payload'[y] = payload[y]
    BY <2>1, <1>0, ResetFacts
  <2>2. \A q \in Parts : q \cap DOMAIN payload'[x] = {} /\ ~Populated(x, q)'
    BY <1>0, ResetFacts
  <2>3. ASSUME NEW y \in Holders, NEW q \in Parts, y # x, Populated(y, q), ~Passed(y, q)
        PROVE  PayloadOf(y, q) \in DOMAIN table'
    <3>1. PayloadOf(y, q) \in DOMAIN table /\ table[PayloadOf(y, q)] = Entry(y, q)
      BY <2>3 DEF IInv, Handed
    <3>2. CASE PayloadOf(y, q) # h
      BY <3>1, <3>2, <1>d
    <3>3. CASE PayloadOf(y, q) = h
      <4>1. h # None
        BY <3>1, <3>3, Populations
      <4>2. Populated(x, SignerPart)
        BY <4>1, <1>d DEF PayloadOf, Populated
      <4>3. table[h] = Entry(x, SignerPart)
        BY <4>2, <1>c, <1>d, KindFacts DEF IInv, Handed
      <4>4. Entry(x, SignerPart) = Entry(y, q)
        BY <3>1, <3>3, <4>3
      <4> QED BY <2>3, <4>4, NoneFacts
    <3> QED BY <3>2, <3>3
  <2> QED BY <1>b, <1>d, <2>1, <2>2, <2>3 DEF IInv, Handed
<1>6. Kept'
  <2>1. ASSUME NEW k \in DOMAIN table', NEW y \in Holders, NEW q \in Parts,
               table'[k] = Entry(y, q)
        PROVE  state'[y] # "none" /\ PayloadOf(y, q)' = k /\ ~Passed(y, q)'
    <3>1. k \in DOMAIN table /\ k # h /\ table[k] = Entry(y, q)
      BY <2>1, <1>d
    <3>2. state[y] # "none" /\ PayloadOf(y, q) = k /\ ~Passed(y, q)
      BY <3>1 DEF IInv, Kept
    <3>3. y # x
      <4>1. y = x => q = SignerPart
        BY <3>1, <1>0, NoneFacts, Populations, KindFacts
      <4> QED BY <4>1, <3>1, <3>2, <1>d
    <3> QED BY <3>2, <3>3, <1>0, <1>b, <1>e, ResetFacts
  <2> QED BY <2>1 DEF Kept
<1> QED BY <1>1, <1>2, <1>3, <1>4, <1>5, <1>6 DEF IInv

-----------------------------------------------------------------------------
(***************************************************************************)
(* The theorems                                                            *)
(***************************************************************************)
\* At first nobody has anything.
LEMMA InitIInv == Init => IInv
<1> SUFFICES ASSUME Init PROVE IInv
  OBVIOUS
<1>1. DOMAIN table = {} /\ \A x \in Holders : DOMAIN payload[x] = {}
  BY ListFacts DEF Init
<1>2. TypeOK
  <2>1. table \in [DOMAIN table -> [holder : Holders, part : Parts]]
    BY <1>1, ListFacts DEF Init
  <2>2. \A x \in Holders : payload[x] \in [DOMAIN payload[x] -> Handles \cup {None}]
    BY <1>1, ListFacts DEF Init
  <2> QED BY <1>1, <2>1, <2>2, ListFacts DEF Init, TypeOK
<1>3. Working
  BY DEF Init, Working
<1>4. Holding
  BY <1>1 DEF Init, Holding
<1>5. ToDo
  BY DEF Init, ToDo
<1>6. Handed
  BY <1>1, PartFacts DEF Handed, Populated
<1>7. Kept
  BY <1>1 DEF Kept
<1> QED BY <1>2, <1>3, <1>4, <1>5, <1>6, <1>7 DEF IInv

\* Every step keeps the invariant.
LEMMA NextIInv == IInv /\ [Next]_vars => IInv'
<1> SUFFICES ASSUME IInv, [Next]_vars PROVE IInv'
  OBVIOUS
<1>1. ASSUME NEW c \in Calls, NEW p \in Calls \cup {None}, NEW x \in Holders,
             \/ \E k \in Bindings : \E g \in Choices(k) : Begin(c, p, x, k, g)
             \/ Method(c, p, x)
             \/ Free(c, p, x)
      PROVE  IInv'
  <2>1. CASE \E k \in Bindings : \E g \in Choices(k) : Begin(c, p, x, k, g)
    BY <2>1, BeginIInv
  <2>2. CASE Method(c, p, x)
    BY <2>2, MethodIInv
  <2>3. CASE Free(c, p, x)
    BY <2>3, CloseIInv DEF Free
  <2> QED BY <1>1, <2>1, <2>2, <2>3
<1>2. ASSUME NEW c \in Calls,
             \/ Populate(c) \/ CallC(c) \/ UserReturns(c)
             \/ CallReturns(c) \/ Constructed(c) \/ NotConstructed(c) \/ MethodReturns(c)
             \/ FreePart(c) \/ Freed(c)
      PROVE  IInv'
  BY <1>2, PopulateIInv, CallCIInv, UserReturnsIInv, CallReturnsIInv,
     ConstructedIInv, NotConstructedIInv, MethodReturnsIInv, FreePartIInv,
     FreedIInv
<1>3. ASSUME NEW c \in Calls, NEW x \in Holders, NEW cb \in DOMAIN payload[x],
             CallBack(c, x, cb) \/ CallBackPanics(c, x, cb)
      PROVE  IInv'
  BY <1>3, CallBackIInv, CallBackPanicsIInv
<1>4. ASSUME NEW c \in Calls, NEW x \in Holders, HandOver(c, x) \/ Finalize(c, x)
      PROVE  IInv'
  BY <1>4, HandOverIInv, CloseIInv DEF Finalize
<1>5. ASSUME NEW x \in Holders, Drop(x) \/ FreedByC(x)
      PROVE  IInv'
  BY <1>5, DropIInv, FreedByCIInv
<1>6. CASE UNCHANGED vars
  <2>1. \A x, part : Passed(x, part)' = Passed(x, part)
    BY <1>6 DEF vars, Passed
  <2>2. Handed' /\ Kept'
    BY <1>6, <2>1, Frame DEF vars
  <2>3. TypeOK' /\ Working' /\ Holding' /\ ToDo'
    BY <1>6 DEF vars, IInv, TypeOK, Working, Holding, ToDo
  <2> QED BY <2>2, <2>3 DEF IInv
<1>7. CASE Next
  BY <1>7, <1>1, <1>2, <1>3, <1>4, <1>5 DEF Next
<1> QED BY <1>6, <1>7

\* The invariant holds in every reachable state.
THEOREM Invariance == Spec => []IInv
BY InitIInv, NextIInv, PTL DEF Spec

\* The variables of the calls, the holders and the handle list keep the types
\* of the Go values they stand for.
THEOREM TypeCorrect == Spec => []TypeOK
<1>1. IInv => TypeOK
  BY DEF IInv
<1> QED BY <1>1, Invariance, PTL

\* A callback that C may run finds the value that was tracked for it: the
\* free functions of options and objects never come too early.
THEOREM CallbacksResolve == Spec => []PayloadsResolve
<1>1. ASSUME IInv, NEW x \in Holders, Live(x), NEW cb \in DOMAIN payload[x],
             payload[x][cb] # None
      PROVE  Finds(payload[x][cb], cb) /\ table[payload[x][cb]].holder = x
  <2>1. PICK part \in Parts : cb \in part
    BY <1>1, KindFacts, BindingFacts DEF IInv, TypeOK, CallbacksOf
  <2>2. Populated(x, part) /\ payload[x][cb] = PayloadOf(x, part)
    BY <1>1, <2>1 DEF IInv, Handed
  <2>3. \A c \in Calls : pc[c] = "free" => holder[c] # x
    <3>1. CASE state[x] \in {"object", "dropped", "lent"}
      BY <1>1, <3>1 DEF IInv, Working
    <3>2. CASE \E c \in Open(x) : pc[c] \in {"C", "user"}
      BY <1>1, <3>2 DEF IInv, Working, Open
    <3> QED BY <1>1, <3>1, <3>2 DEF Live
  <2>4. table[payload[x][cb]] = Entry(x, part) /\ payload[x][cb] \in DOMAIN table
    BY <1>1, <2>2, <2>3 DEF IInv, Handed, Passed
  <2> QED BY <2>1, <2>4, NoneFacts DEF Finds
<1>2. IInv => PayloadsResolve
  BY <1>1 DEF PayloadsResolve
<1> QED BY <1>2, Invariance, PTL

\* Untrack is given the handle of the part that is freed, while that part
\* still has it.
THEOREM PartsAreFreedOnce == Spec => []FreesItsOwn
<1>1. ASSUME IInv, NEW c \in Calls, pc[c] = "free", NEW i \in DOMAIN todo[c],
             PayloadOf(holder[c], todo[c][i]) # None
      PROVE  /\ PayloadOf(holder[c], todo[c][i]) \in DOMAIN table
             /\ table[PayloadOf(holder[c], todo[c][i])]
                  = [holder |-> holder[c], part |-> todo[c][i]]
  <2>1. PICK x \in Holders, part \in Parts :
          x = holder[c] /\ part = todo[c][i] /\ part \in Elements(todo[c])
    <3>1. holder[c] \in Holders /\ todo[c][i] \in Parts
      BY <1>1 DEF IInv, TypeOK, Working
    <3> QED BY <3>1 DEF Elements
  <2>2. Populated(x, part)
    BY <1>1, <2>1 DEF PayloadOf, Populated
  <2>3. ~Passed(x, part)
    BY <1>1, <2>1 DEF Passed, IInv, Working
  <2> QED BY <1>1, <2>1, <2>2, <2>3 DEF IInv, Handed, Entry
<1>2. IInv => FreesItsOwn
  BY <1>1 DEF FreesItsOwn
<1> QED BY <1>2, Invariance, PTL

\* Every handle is the payload of a holder that is not at rest, so no way in
\* which a call ends leaves one behind.
THEOREM NoPayloadLeaks == Spec => []NothingLeaks
<1>1. ASSUME IInv, NEW h \in DOMAIN table
      PROVE  /\ state[table[h].holder] # "none"
             /\ PayloadOf(table[h].holder, table[h].part) = h
  BY <1>1, Populations DEF IInv, Kept
<1>2. IInv => NothingLeaks
  BY <1>1 DEF NothingLeaks
<1> QED BY <1>2, Invariance, PTL
=============================================================================
