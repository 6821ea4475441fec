---------------------------- MODULE RemotesProofs ----------------------------
(***************************************************************************)
(* That each git_remote is freed once and can be found while it lives, for *)
(* any number of goroutines, repositories, addresses and remotes.          *)
(*                                                                         *)
(* A *Remote keeps its address in ptr after it is handed over to C, and    *)
(* for a moment after it is freed, when C may use the address again.  So   *)
(* the invariant tells apart the *Remotes that own what they point at      *)
(* (Owns), and says that an address has one owner, that the maps have only *)
(* owners, and where the owner of a live address is.                       *)
(***************************************************************************)
EXTENDS Remotes, TLAPS

\* The places at which a goroutine's remote still has its git_remote.
Owning == Creating \cup {"delRemote", "delPointer", "free"}

\* o has a git_remote of its own: it will be freed through o, or handed over.
Owns(o) == o \in finalizer \/ \E t \in Threads : op[t].obj = o /\ op[t].pc \in Owning

\* Some goroutine creates, frees or hands over o.
Busy(o) == \E t \in Threads : op[t].obj = o

\* What each place in a call implies of the call's arguments.
Places == \A t \in Threads :
  /\ op[t].obj # None <=> op[t].pc \in Creating \cup Freeing
  /\ op[t].pc \notin {"untrackAll", "freeAll"} => op[t].todo = {}
  /\ op[t].keep => op[t].pc \in {"delRemote", "delPointer"}
  /\ t = GC => op[t].pc \in Freeing \cup {"idle"} /\ ~op[t].keep
  /\ op[t].pc \in Creating =>
       op[t].obj \notin finalizer /\ repo[op[t].obj] \in open
  /\ op[t].pc = "clear" => op[t].obj \notin finalizer
  /\ op[t].keep => op[t].obj \notin finalizer

\* Nobody else has a remote that one goroutine is busy with, or that user code
\* holds.
Exclusive ==
  /\ \A t1, t2 \in Threads : op[t1].obj = op[t2].obj /\ op[t1].obj # None => t1 = t2
  /\ \A o \in held : o \in finalizer /\ ~Busy(o)

\* A remote has an address and a repository as long as it owns something, and
\* none before it is made.
Owners ==
  /\ \A o \in Objects : Owns(o) => ptr[o] \in live /\ repo[o] \in Repos
  /\ \A o1, o2 \in Objects : Owns(o1) /\ Owns(o2) /\ ptr[o1] = ptr[o2] => o1 = o2
  /\ \A o \in Objects : o > made => ~Owns(o) /\ ~Busy(o)

\* The maps have only owners, each under its address, until the place in
\* untrackRemote that takes it out.
Maps ==
  /\ \A p \in Ptrs : pointers[p] # None =>
       /\ Owns(pointers[p]) /\ ptr[pointers[p]] = p
       /\ \A t \in Threads : op[t].obj = pointers[p] =>
            op[t].pc \in {"setFinalizer", "delRemote", "delPointer"} /\ t # GC
  /\ \A r \in open, p \in Ptrs : remotes[r][p] # None =>
       /\ Owns(remotes[r][p]) /\ ptr[remotes[r][p]] = p /\ repo[remotes[r][p]] = r
       /\ \A t \in Threads : op[t].obj = remotes[r][p] =>
            op[t].pc \in {"addPointer", "setFinalizer", "delRemote"} /\ t # GC

\* A remote at rest is found in both maps as long as its repository is open,
\* and one that is being created in those that it was entered in.
Tracked ==
  /\ \A o \in finalizer : repo[o] \in open /\ ~Busy(o) =>
       pointers[ptr[o]] = o /\ remotes[repo[o]][ptr[o]] = o
  /\ \A t \in Threads :
       /\ op[t].pc \in {"addPointer", "setFinalizer"} =>
            remotes[repo[op[t].obj]][ptr[op[t].obj]] = op[t].obj
       /\ op[t].pc = "setFinalizer" => pointers[ptr[op[t].obj]] = op[t].obj

\* What Repository.Free and Shutdown have yet to do is about remotes at rest,
\* whose repository is no longer open; beside Shutdown only the collector runs.
Todo == \A t \in Threads :
  /\ \A o \in op[t].todo : o \in finalizer /\ ~Busy(o) /\ repo[o] \notin open
  /\ op[t].pc = "freeAll" =>
       /\ open = {} /\ held = {} /\ byC = {} /\ pointers = NoPtrs /\ subtransport = NoPtrs
       /\ \A s \in Goroutines \ {t} : op[s].pc = "idle"

\* What C frees is what was handed over, and nothing else.
HandedOver ==
  /\ byC \subseteq live
  /\ \A o \in finalizer : ptr[o] \notin byC
  /\ \A t \in Threads : op[t].pc \in Owning => (ptr[op[t].obj] \in byC <=> op[t].keep)

\* A subtransport belongs to a live git_remote and refers to its owner.
Subtransports == \A p \in Ptrs : subtransport[p] # None =>
  p \in live /\ \A o \in Objects : Owns(o) /\ ptr[o] = p => subtransport[p] = o

\* Every live git_remote that C is not to free has an owner.
Accounted == \A p \in live \ byC : \E o \in Objects : Owns(o) /\ ptr[o] = p

IInv == /\ TypeOK /\ Places /\ Exclusive /\ Owners /\ Maps /\ Tracked /\ Todo
        /\ HandedOver /\ Subtransports /\ Accounted /\ FreesOnce
-----------------------------------------------------------------------------
\* An entry taken out of a map, and the rest of the map.
LEMMA WithoutFacts ==
  ASSUME NEW m \in [Ptrs -> Objects \cup {None}], NEW p
  PROVE  /\ Without(m, p) \in [Ptrs -> Objects \cup {None}]
         /\ \A q \in Ptrs : Without(m, p)[q] = IF q = p THEN None ELSE m[q]
BY DEF Without

\* No *Remote is None.
LEMMA NoneIsNoObject == \A o \in Objects : o # None
BY NoneAssumption DEF Objects

\* The remote that a goroutine is busy with.
LEMMA ObjFacts ==
  ASSUME IInv, NEW t \in Threads, op[t].pc \in Owning \cup {"clear"}
  PROVE  /\ Obj(t) \in Objects /\ Obj(t) # None /\ op[t].todo = {}
         /\ op[t].pc # "clear" => Owns(Obj(t)) /\ ptr[Obj(t)] \in live /\ repo[Obj(t)] \in Repos
         /\ \A s \in Threads \ {t} : op[s].obj # Obj(t) /\ Obj(t) \notin op[s].todo
         /\ Obj(t) \notin held
<1>1. op[t].obj # None
  BY DEF IInv, Places, Owning, Freeing
<1>2. Obj(t) \in Objects /\ Obj(t) # None /\ op[t].todo = {}
  BY <1>1 DEF IInv, TypeOK, Ops, Obj, Places, Owning, Creating
<1>3. \A s \in Threads \ {t} : op[s].obj # Obj(t) /\ Obj(t) \notin op[s].todo
  BY <1>1 DEF IInv, Exclusive, Todo, Busy, Obj
<1>4. Obj(t) \notin held
  BY DEF IInv, Exclusive, Busy, Obj
<1>5. op[t].pc # "clear" => Owns(Obj(t))
  BY DEF Owns, Obj
<1> QED BY <1>2, <1>3, <1>4, <1>5 DEF IInv, Owners

\* What a step does to the place of its goroutine, and to no other one.
LEMMA GotoFacts ==
  ASSUME TypeOK, NEW t \in Threads, NEW place, Goto(t, place)
  PROVE  /\ op'[t].pc = place /\ op'[t].obj = op[t].obj
         /\ op'[t].keep = op[t].keep /\ op'[t].todo = op[t].todo
         /\ \A s \in Threads \ {t} : op'[s] = op[s]
BY DEF TypeOK, Goto

\* The same of a step that gives its goroutine something else to do.
LEMMA OpFacts ==
  ASSUME TypeOK, NEW t \in Threads, NEW f, op' = [op EXCEPT ![t] = f]
  PROVE  op'[t] = f /\ \A s \in Threads \ {t} : op'[s] = op[s]
BY DEF TypeOK

\* A goroutine with nothing to do.
LEMMA IdleFacts == /\ Idle.pc = "idle" /\ Idle.obj = None
                   /\ Idle.todo = {} /\ ~Idle.keep /\ Idle \in Ops
BY DEF Idle, Ops

\* A goroutine is given something to do.
LEMMA OpTypes ==
  ASSUME TypeOK, NEW t, NEW f \in Ops, op' = [op EXCEPT ![t] = f]
  PROVE  op' \in [Threads -> Ops]
BY DEF TypeOK

\* A step that takes nothing from the remote that its goroutine is busy with.
LEMMA OwnsFacts ==
  ASSUME NEW t \in Threads, \A s \in Threads \ {t} : op'[s] = op[s],
         finalizer' = finalizer, op'[t].obj = op[t].obj,
         op[t].obj # None => (op'[t].pc \in Owning <=> op[t].pc \in Owning)
  PROVE  \A o \in Objects : (Owns(o)' <=> Owns(o)) /\ (Busy(o)' <=> Busy(o))
BY NoneIsNoObject DEF Owns, Busy

\* A new *Remote owns the new git_remote, whose address no other owner has.
LEMMA CreateIInv ==
  ASSUME IInv, NEW t \in Threads, NEW r \in Repos, NEW p \in Ptrs, Create(t, r, p)
  PROVE  IInv'
<1> DEFINE new == made + 1
<1>0. /\ new \in Objects /\ new # None /\ ~Owns(new) /\ ~Busy(new) /\ p # None
      /\ t \in Goroutines /\ op[t].pc = "idle" /\ op[t].obj = None
      /\ op'[t] = [pc |-> "addRemote", obj |-> new, keep |-> FALSE, todo |-> {}]
      /\ \A s \in Threads \ {t} : op'[s] = op[s]
      /\ ptr'[new] = p /\ repo'[new] = r
      /\ UNCHANGED <<finalizer, pointers, remotes, open>>
      /\ \A o \in Objects \ {new} : ptr'[o] = ptr[o] /\ repo'[o] = repo[o]
  <2>1. new \in Objects /\ new > made /\ new # None
    BY NoneAssumption, BoundAssumption DEF IInv, TypeOK, Create, Objects
  <2>2. ~Owns(new) /\ ~Busy(new)
    BY <2>1 DEF IInv, Owners
  <2> QED BY <2>1, <2>2, NoneAssumption
      DEF IInv, TypeOK, Places, Create, At, Idle, Threads, Creating, Freeing
<1>a. /\ \A o \in Objects : Owns(o)' <=> Owns(o) \/ o = new
      /\ \A o \in Objects : Busy(o)' <=> Busy(o) \/ o = new
  <2>2. op'[t].obj = new /\ op'[t].pc \in Owning /\ op[t].obj = None
    BY <1>0 DEF Owning, Creating
  <2>1. \A o \in Objects : Busy(o)' <=> Busy(o) \/ o = new
    BY <1>0, NoneIsNoObject DEF Busy
  <2>3. \A o \in Objects : Owns(o)' <=> Owns(o) \/ o = new
    BY <1>0, <2>2, NoneIsNoObject DEF Owns
  <2> QED BY <2>1, <2>3
<1>1. TypeOK'
  <2>1. op' \in [Threads -> Ops]
    BY <1>0 DEF IInv, TypeOK, Create, Ops, Idle, Objects
  <2>2. made' \in 0..MaxRemotes /\ live' \subseteq Ptrs
    BY BoundAssumption DEF IInv, TypeOK, Create
  <2>3. ptr' \in [Objects -> Ptrs \cup {None}] /\ repo' \in [Objects -> Repos \cup {None}]
    BY <1>0 DEF IInv, TypeOK, Create
  <2> QED BY <2>1, <2>2, <2>3 DEF IInv, TypeOK, Create
<1>2. Places'
  BY NoneAssumption, BoundAssumption DEF IInv, Creating, Objects, Owners, Owns,
     Places, TypeOK, Create, Idle
<1>3. Exclusive'
  BY NoneAssumption DEF IInv, TypeOK, Ops, Exclusive, Owners, Busy, Owns, Create
<1>4. Owners'
  <2>1. \A o \in Objects \ {new} : Owns(o)' => ptr'[o] = ptr[o] /\ ptr[o] \in live /\ ptr[o] # p
    BY <1>a DEF IInv, Owners, Create
  <2>2. \A o \in Objects : o > made' => ~Owns(o)' /\ ~Busy(o)'
    BY <1>a DEF IInv, TypeOK, Owners, Create, Objects
  <2> QED BY <1>0, <1>a, <2>2 DEF IInv, Owners, Create
<1>5. Maps'
  <2>1. \A q \in Ptrs : pointers[q] # None =>
          /\ pointers[q] \in Objects /\ pointers[q] # new
          /\ Owns(pointers[q]) /\ ptr[pointers[q]] = q
    BY <1>0 DEF IInv, TypeOK, Maps
  <2>2. \A s \in open, q \in Ptrs : remotes[s][q] # None =>
          /\ remotes[s][q] \in Objects /\ remotes[s][q] # new
          /\ Owns(remotes[s][q]) /\ ptr[remotes[s][q]] = q /\ repo[remotes[s][q]] = s
    BY <1>0 DEF IInv, TypeOK, Maps
  <2>3. \A q \in Ptrs : pointers'[q] # None =>
       /\ Owns(pointers[q])' /\ ptr'[pointers'[q]] = q
       /\ \A s \in Threads : op'[s].obj = pointers'[q] =>
            op'[s].pc \in {"setFinalizer", "delRemote", "delPointer"} /\ s # GC
    BY <1>0, <1>a, <2>1 DEF IInv, Maps
  <2>4. \A s \in open', q \in Ptrs : remotes'[s][q] # None =>
       /\ Owns(remotes[s][q])' /\ ptr'[remotes'[s][q]] = q /\ repo'[remotes'[s][q]] = s
       /\ \A u \in Threads : op'[u].obj = remotes'[s][q] =>
            op'[u].pc \in {"addPointer", "setFinalizer", "delRemote"} /\ u # GC
    BY <1>0, <1>a, <2>2 DEF IInv, Maps
  <2> QED BY <2>3, <2>4 DEF Maps
<1>6. Tracked'
  BY NoneAssumption, GCAssumption, BoundAssumption DEF IInv, Accounted, Busy,
     Creating, Exclusive, Freeing, FreesOnce, HandedOver, Maps, Objects, Ops,
     Owners, Owning, Owns, Places, Subtransports, Threads, Todo, Tracked,
     TypeOK, Create, At, Idle
<1>7. Todo'
  BY DEF IInv, TypeOK, Owners, Owns, Busy, Todo, Create, Idle
<1>8. HandedOver'
  BY NoneAssumption, GCAssumption, BoundAssumption DEF IInv, Accounted, Busy,
     Creating, Exclusive, Freeing, FreesOnce, HandedOver, Maps, Objects, Ops,
     Owners, Owning, Owns, Places, Subtransports, Threads, Todo, Tracked,
     TypeOK, Create, At, Idle
<1>9. Subtransports'
  BY DEF IInv, TypeOK, Owns, Subtransports, Create
<1>10. Accounted'
  BY NoneAssumption, GCAssumption, BoundAssumption DEF IInv, Accounted, Busy,
     Creating, Exclusive, Freeing, FreesOnce, HandedOver, Maps, Objects, Ops,
     Owners, Owning, Owns, Places, Subtransports, Threads, Todo, Tracked,
     TypeOK, Create, At, Idle
<1>11. FreesOnce'
  BY DEF IInv, FreesOnce, Create
<1> QED BY <1>1, <1>2, <1>3, <1>4, <1>5, <1>6, <1>7, <1>8, <1>9, <1>10, <1>11
           DEF IInv

\* A remote is entered in its collection.
LEMMA AddRemoteIInv ==
  ASSUME IInv, NEW t \in Threads, AddRemote(t)
  PROVE  IInv'
<1>1. TypeOK'
  <2>1. op' \in [Threads -> Ops]
    BY DEF IInv, TypeOK, Ops, AddRemote, Goto
  <2>2. Obj(t) \in Objects \cup {None}
    BY DEF IInv, TypeOK, Ops, Obj
  <2>3. remotes' \in [Repos -> [Ptrs -> Objects \cup {None}]]
    BY <2>2 DEF IInv, TypeOK, AddRemote
  <2> QED BY <2>1, <2>3 DEF IInv, TypeOK, AddRemote, cVars
<1>2. Places'
  BY DEF IInv, Places, Creating, Freeing, AddRemote, At, Goto
<1>3. Exclusive'
  BY DEF IInv, Exclusive, Busy, AddRemote, Goto
<1>4. Owners'
  BY DEF IInv, Owners, Owns, Owning, Creating, Busy, AddRemote, At, Goto, cVars
<1>5. Maps'
  <2>1. /\ op[t].pc = "addRemote" /\ op'[t].pc = "addPointer" /\ op'[t].obj = op[t].obj
        /\ \A s \in Threads \ {t} : op'[s] = op[s]
        /\ pointers' = pointers /\ ptr' = ptr /\ repo' = repo /\ open' = open
        /\ finalizer' = finalizer
    BY DEF IInv, TypeOK, Ops, AddRemote, At, Goto
  <2>2. \A o \in Objects : Owns(o)' <=> Owns(o)
    BY <2>1, OwnsFacts DEF Owning, Creating
  <2>3. \A q \in Ptrs : pointers[q] # None => pointers[q] \in Objects /\ op[t].obj # pointers[q]
    BY <2>1 DEF IInv, TypeOK, Maps
  <2>4. \A q \in Ptrs : \A o \in Objects : pointers'[q] = o =>
          /\ Owns(o)' /\ ptr'[o] = q
          /\ \A s \in Threads : op'[s].obj = o =>
               op'[s].pc \in {"setFinalizer", "delRemote", "delPointer"} /\ s # GC
    BY <2>1, <2>2, <2>3, NoneIsNoObject DEF IInv, Maps
  <2>5. /\ op[t].obj \in Objects /\ Owns(op[t].obj) /\ t # GC
        /\ \A s \in Threads \ {t} : op[s].obj # op[t].obj
    <3>1. op[t].obj # None /\ t # GC
      BY <2>1 DEF IInv, Places, Creating, Freeing
    <3>2. \A s \in Threads \ {t} : op[s].obj # op[t].obj
      BY <3>1 DEF IInv, Exclusive
    <3> QED BY <2>1, <3>1, <3>2 DEF IInv, TypeOK, Ops, Owns, Owning, Creating
  <2>6. ASSUME NEW q \in open, NEW p \in Ptrs, NEW o \in Objects, remotes'[q][p] = o
        PROVE  /\ Owns(o)' /\ ptr'[o] = p /\ repo'[o] = q
               /\ \A s \in Threads : op'[s].obj = o =>
                    op'[s].pc \in {"addPointer", "setFinalizer", "delRemote"} /\ s # GC
    <3>1. CASE q = repo[op[t].obj] /\ p = ptr[op[t].obj]
      <4>1. o = op[t].obj
        BY <2>6, <3>1 DEF IInv, TypeOK, AddRemote, Obj
      <4> QED BY <2>1, <2>2, <2>5, <3>1, <4>1
    <3>2. CASE ~(q = repo[op[t].obj] /\ p = ptr[op[t].obj])
      <4>1. remotes[q][p] = o
        BY <2>6, <3>2 DEF IInv, TypeOK, AddRemote, Obj
      <4>2. /\ Owns(o) /\ ptr[o] = p /\ repo[o] = q
            /\ \A s \in Threads : op[s].obj = o =>
                 op[s].pc \in {"addPointer", "setFinalizer", "delRemote"} /\ s # GC
        BY <4>1, NoneIsNoObject DEF IInv, Maps
      <4> QED BY <2>1, <2>2, <4>2
    <3> QED BY <3>1, <3>2
  <2>7. /\ pointers' \in [Ptrs -> Objects \cup {None}]
        /\ remotes' \in [Repos -> [Ptrs -> Objects \cup {None}]] /\ open' \subseteq Repos
    BY <1>1 DEF TypeOK
  <2> QED BY <2>1, <2>4, <2>6, <2>7 DEF Maps
<1>6. Tracked'
  BY DEF IInv, TypeOK, Ops, Places, Owners, Owns, Owning, Creating, Freeing,
     Busy, Tracked, AddRemote, At, Goto, Obj, cVars
<1>7. Todo'
  BY DEF IInv, Busy, Todo, AddRemote, At, Goto, cVars
<1>8. HandedOver'
  BY DEF IInv, Owning, Creating, HandedOver, AddRemote, At, Goto, cVars
<1>9. Subtransports'
  BY DEF IInv, Owns, Owning, Creating, Subtransports, AddRemote, At, Goto, cVars
<1>10. Accounted'
  BY DEF IInv, Owns, Owning, Creating, Accounted, AddRemote, Goto, cVars
<1>11. FreesOnce'
  BY DEF IInv, FreesOnce, AddRemote
<1> QED BY <1>1, <1>2, <1>3, <1>4, <1>5, <1>6, <1>7, <1>8, <1>9, <1>10, <1>11
           DEF IInv

\* A remote is entered in remotePointers.
LEMMA AddPointerIInv ==
  ASSUME IInv, NEW t \in Threads, AddPointer(t)
  PROVE  IInv'
<1>1. TypeOK'
  BY NoneAssumption, GCAssumption, BoundAssumption DEF IInv, TypeOK, Ops,
     Objects, Threads, AddPointer, At, Goto, Obj, cVars
<1>2. Places'
  BY DEF IInv, Places, Creating, Freeing, AddPointer, At, Goto
<1>3. Exclusive'
  BY DEF IInv, Exclusive, Busy, AddPointer, Goto
<1>4. Owners'
  BY DEF IInv, Owners, Owns, Owning, Creating, Busy, AddPointer, At, Goto, cVars
<1>5. Maps'
  BY NoneAssumption DEF IInv, TypeOK, Places, Exclusive, Owners, Owns, Owning,
     Creating, Maps, Tracked, AddPointer, At, Goto, Obj, cVars
<1>6. Tracked'
  BY DEF IInv, TypeOK, Ops, Places, Owners, Owns, Owning, Creating, Busy,
     Tracked, AddPointer, At, Goto, Obj
<1>7. Todo'
  BY DEF IInv, Places, Creating, Busy, Todo, AddPointer, At, Goto
<1>8. HandedOver'
  BY DEF IInv, Owning, Creating, HandedOver, AddPointer, At, Goto, cVars
<1>9. Subtransports'
  BY DEF IInv, Owns, Owning, Creating, Subtransports, AddPointer, At, Goto,
     cVars
<1>10. Accounted'
  BY DEF IInv, Owns, Owning, Creating, Accounted, AddPointer, Goto, cVars
<1>11. FreesOnce'
  BY DEF IInv, FreesOnce, AddPointer
<1> QED BY <1>1, <1>2, <1>3, <1>4, <1>5, <1>6, <1>7, <1>8, <1>9, <1>10, <1>11
           DEF IInv

\* A remote is at rest once it is in both maps.
LEMMA SetFinalizerIInv ==
  ASSUME IInv, NEW t \in Threads, SetFinalizer(t)
  PROVE  IInv'
<1>1. TypeOK'
  <2>1. Obj(t) \in Objects
    BY ObjFacts DEF SetFinalizer, At, Owning, Creating
  <2>2. op' \in [Threads -> Ops]
    BY OpTypes, IdleFacts DEF IInv, SetFinalizer
  <2> QED BY <2>1, <2>2 DEF IInv, TypeOK, SetFinalizer, cVars
<1>2. Places'
  BY DEF IInv, TypeOK, Places, Exclusive, Creating, Freeing, SetFinalizer, Obj,
     Idle
<1>3. Exclusive'
  BY NoneAssumption DEF IInv, Busy, Creating, Exclusive, Objects, Places,
     TypeOK, SetFinalizer, At, Obj, Idle
<1>4. Owners'
  BY NoneAssumption DEF IInv, Objects, Owners, Owns, Owning, Creating, Busy,
     SetFinalizer, At, Obj, cVars, Idle
<1>5. Maps'
  BY DEF IInv, Owns, Maps, SetFinalizer, Obj, Idle
<1>6. Tracked'
  BY DEF IInv, Busy, Tracked, SetFinalizer, At, Obj, Idle
<1>7. Todo'
  BY DEF IInv, Places, Creating, Freeing, Busy, Todo, SetFinalizer, At, Idle
<1>8. HandedOver'
  BY DEF IInv, Places, Owning, Creating, HandedOver, SetFinalizer, At, Obj,
     cVars, Idle
<1>9. Subtransports'
  BY DEF IInv, Owns, Owning, Creating, Subtransports, SetFinalizer, At, Obj,
     cVars, Idle
<1>10. Accounted'
  BY DEF IInv, Owns, Accounted, SetFinalizer, Obj, cVars
<1>11. FreesOnce'
  BY DEF IInv, FreesOnce, SetFinalizer
<1> QED BY <1>1, <1>2, <1>3, <1>4, <1>5, <1>6, <1>7, <1>8, <1>9, <1>10, <1>11
           DEF IInv

\* User code frees a remote at rest.
LEMMA FreeIInv ==
  ASSUME IInv, NEW t \in Threads, NEW o \in Objects, Free(t, o)
  PROVE  IInv'
<1>1. TypeOK'
  BY NoneAssumption, GCAssumption, BoundAssumption DEF IInv, TypeOK, Ops,
     Objects, Threads, Free, At, cVars, Idle
<1>2. Places'
  BY DEF IInv, Places, Exclusive, Creating, Freeing, Busy, Free, At, Idle
<1>3. Exclusive'
  BY DEF IInv, Exclusive, Busy, Free
<1>4. Owners'
  BY DEF IInv, Exclusive, Owners, Owns, Busy, Free, cVars
<1>5. Maps'
  BY DEF IInv, Owns, Owning, Maps, Free, At
<1>6. Tracked'
  BY NoneAssumption, GCAssumption DEF IInv, TypeOK, Ops, Threads, Places,
     Exclusive, Owners, Owns, Owning, Creating, Freeing, Busy, Maps, Todo,
     Tracked, Free, At, cVars, Idle
<1>7. Todo'
  BY DEF IInv, Busy, Todo, Free, Idle
<1>8. HandedOver'
  BY DEF IInv, Exclusive, HandedOver, Free, cVars, Idle
<1>9. Subtransports'
  BY DEF IInv, Exclusive, Owns, Subtransports, Free, cVars
<1>10. Accounted'
  BY DEF IInv, Owns, Owning, Creating, Accounted, Free, At, cVars
<1>11. FreesOnce'
  BY DEF IInv, FreesOnce, Free
<1> QED BY <1>1, <1>2, <1>3, <1>4, <1>5, <1>6, <1>7, <1>8, <1>9, <1>10, <1>11
           DEF IInv

\* User code lets go of a remote.
LEMMA DropIInv ==
  ASSUME IInv, NEW o \in Objects, Drop(o)
  PROVE  IInv'
<1>1. TypeOK'
  BY DEF IInv, TypeOK, Drop, cVars
<1>2. Places'
  BY DEF IInv, Places, Drop
<1>3. Exclusive'
  BY DEF IInv, Exclusive, Busy, Drop
<1>4. Owners'
  BY DEF IInv, Owners, Owns, Busy, Drop, cVars
<1>5. Maps'
  BY DEF IInv, Owns, Maps, Drop
<1>6. Tracked'
  BY DEF IInv, Busy, Tracked, Drop
<1>7. Todo'
  BY DEF IInv, Busy, Todo, Drop
<1>8. HandedOver'
  BY DEF IInv, HandedOver, Drop, cVars
<1>9. Subtransports'
  BY DEF IInv, Owns, Subtransports, Drop, cVars
<1>10. Accounted'
  BY DEF IInv, Owns, Accounted, Drop, cVars
<1>11. FreesOnce'
  BY DEF IInv, FreesOnce, Drop
<1> QED BY <1>1, <1>2, <1>3, <1>4, <1>5, <1>6, <1>7, <1>8, <1>9, <1>10, <1>11
           DEF IInv

\* The subtransport of a remote refers to it, as remotePointers does.
LEMMA ConnectIInv ==
  ASSUME IInv, NEW t \in Threads, NEW o \in Objects, Connect(t, o)
  PROVE  IInv'
<1>1. TypeOK'
  BY NoneAssumption, GCAssumption, BoundAssumption DEF IInv, TypeOK, Ops,
     Objects, Threads, Connect, At
<1>2. Places'
  BY DEF IInv, Places, Connect
<1>3. Exclusive'
  BY DEF IInv, Exclusive, Busy, Connect
<1>4. Owners'
  BY DEF IInv, Owners, Owns, Busy, Connect
<1>5. Maps'
  BY DEF IInv, Owns, Maps, Connect
<1>6. Tracked'
  BY DEF IInv, Busy, Tracked, Connect
<1>7. Todo'
  BY DEF IInv, Busy, Todo, Connect
<1>8. HandedOver'
  BY DEF IInv, HandedOver, Connect
<1>9. Subtransports'
  BY DEF IInv, Exclusive, Owners, Owns, Subtransports, Tracked, Connect
<1>10. Accounted'
  BY DEF IInv, Owns, Accounted, Connect
<1>11. FreesOnce'
  BY DEF IInv, FreesOnce, Connect
<1> QED BY <1>1, <1>2, <1>3, <1>4, <1>5, <1>6, <1>7, <1>8, <1>9, <1>10, <1>11
           DEF IInv

\* The collector frees what is in no map, by Tracked of a repository that is
\* not open.
LEMMA FinalizeIInv ==
  ASSUME IInv, NEW o \in Objects, Finalize(o)
  PROVE  IInv'
<1>1. TypeOK'
  BY NoneAssumption, GCAssumption, BoundAssumption DEF IInv, TypeOK, Ops,
     Objects, Threads, Finalize, At, cVars, Reachable, Idle
<1>2. Places'
  BY DEF IInv, Places, Creating, Freeing, Finalize, At, Reachable, Idle
<1>3. Exclusive'
  BY DEF IInv, Exclusive, Busy, Finalize, Reachable
<1>4. Owners'
  BY DEF IInv, Owners, Owns, Busy, Finalize, cVars
<1>5. Maps'
  BY DEF IInv, Owns, Maps, Finalize, Reachable
<1>6. Tracked'
  BY NoneAssumption, GCAssumption DEF IInv, TypeOK, Ops, Threads, Places,
     Exclusive, Owners, Owns, Owning, Creating, Freeing, Busy, Maps, Todo,
     Tracked, Finalize, At, cVars, Reachable, Idle
<1>7. Todo'
  BY GCAssumption DEF IInv, Busy, Todo, Finalize, cVars, Reachable, Idle
<1>8. HandedOver'
  BY DEF IInv, HandedOver, Finalize, cVars, Idle
<1>9. Subtransports'
  BY DEF IInv, Owns, Subtransports, Finalize, cVars
<1>10. Accounted'
  BY DEF IInv, TypeOK, Threads, Owns, Owning, Creating, Accounted, Finalize, At,
     cVars
<1>11. FreesOnce'
  BY DEF IInv, FreesOnce, Finalize
<1> QED BY <1>1, <1>2, <1>3, <1>4, <1>5, <1>6, <1>7, <1>8, <1>9, <1>10, <1>11
           DEF IInv

\* A remote is taken out of its collection.
LEMMA DelRemoteIInv ==
  ASSUME IInv, NEW t \in Threads, DelRemote(t)
  PROVE  IInv'
<1>0. /\ op[t].pc = "delRemote" /\ op'[t].obj = op[t].obj /\ op'[t].pc = "delPointer" /\ op'[t].keep = op[t].keep
      /\ \A s \in Threads \ {t} : op'[s] = op[s]
      /\ Obj(t) \in Objects /\ Owns(Obj(t)) /\ ptr[Obj(t)] \in Ptrs /\ repo[Obj(t)] \in Repos
  <2>1. op[t].pc = "delRemote" /\ Goto(t, "delPointer") /\ TypeOK
    BY DEF DelRemote, At, IInv
  <2>2. Obj(t) \in Objects /\ Owns(Obj(t)) /\ ptr[Obj(t)] \in live /\ repo[Obj(t)] \in Repos
    BY <2>1, ObjFacts DEF Owning
  <2> QED BY <2>1, <2>2, GotoFacts DEF TypeOK
<1>a. /\ \A o \in Objects : Owns(o)' <=> Owns(o)
      /\ \A o : Busy(o)' <=> Busy(o)
      /\ \A r \in Repos, p \in Ptrs : remotes'[r][p] =
           IF r = repo[Obj(t)] /\ p = ptr[Obj(t)] THEN None ELSE remotes[r][p]
  <2>1. \A o \in Objects : Owns(o)' <=> Owns(o)
    BY <1>0 DEF Owns, Owning, DelRemote
  <2>2. \A o : Busy(o)' <=> Busy(o)
    BY <1>0 DEF Busy
  <2> QED BY <2>1, <2>2 DEF IInv, TypeOK, DelRemote, Without
<1>1. TypeOK'
  <2>1. remotes[repo[Obj(t)]] \in [Ptrs -> Objects \cup {None}]
    BY ObjFacts DEF IInv, TypeOK, DelRemote, At, Owning
  <2>2. remotes' \in [Repos -> [Ptrs -> Objects \cup {None}]]
    BY <2>1, WithoutFacts DEF IInv, TypeOK, DelRemote
  <2> QED BY <2>2 DEF IInv, TypeOK, DelRemote, Ops, Goto, cVars
<1>2. Places'
  BY DEF IInv, Places, Creating, Freeing, DelRemote, At, Goto
<1>3. Exclusive'
  BY DEF IInv, Exclusive, Busy, DelRemote, Goto
<1>4. Owners'
  BY DEF IInv, Owners, Owns, Owning, Busy, DelRemote, At, Goto, cVars
<1>5. Maps'
  <2>1. pointers' = pointers /\ ptr' = ptr /\ repo' = repo /\ open' = open
    BY DEF DelRemote
  <2>2. \A p \in Ptrs : pointers[p] # None => Owns(pointers[p])'
    BY <1>a, <2>1 DEF IInv, TypeOK, Maps
  <2>3. \A r \in open, p \in Ptrs : remotes'[r][p] # None =>
          /\ remotes'[r][p] = remotes[r][p] /\ remotes[r][p] \in Objects
          /\ remotes[r][p] # Obj(t) /\ Owns(remotes[r][p])'
    BY <1>a DEF IInv, TypeOK, Maps
  <2>4. \A p \in Ptrs : pointers'[p] # None =>
       /\ Owns(pointers[p])' /\ ptr'[pointers'[p]] = p
       /\ \A s \in Threads : op'[s].obj = pointers'[p] =>
            op'[s].pc \in {"setFinalizer", "delRemote", "delPointer"} /\ s # GC
    BY <1>0, <2>1, <2>2 DEF IInv, Maps
  <2>5. \A r \in open', p \in Ptrs : remotes'[r][p] # None =>
       /\ Owns(remotes[r][p])' /\ ptr'[remotes'[r][p]] = p /\ repo'[remotes'[r][p]] = r
       /\ \A s \in Threads : op'[s].obj = remotes'[r][p] =>
            op'[s].pc \in {"addPointer", "setFinalizer", "delRemote"} /\ s # GC
    BY <1>0, <2>1, <2>3 DEF IInv, Maps, Obj
  <2> QED BY <2>4, <2>5 DEF Maps
<1>6. Tracked'
  BY NoneAssumption, GCAssumption DEF IInv, TypeOK, Ops, Threads, Places,
     Exclusive, Owners, Owns, Owning, Creating, Freeing, Busy, Maps, Todo,
     Tracked, DelRemote, At, Goto, Obj, Without, cVars
<1>7. Todo'
  BY DEF IInv, Busy, Todo, DelRemote, At, Goto, cVars
<1>8. HandedOver'
  BY DEF IInv, Owning, HandedOver, DelRemote, At, Goto, cVars
<1>9. Subtransports'
  BY DEF IInv, Owns, Owning, Subtransports, DelRemote, At, Goto, cVars
<1>10. Accounted'
  BY DEF IInv, Owns, Owning, Accounted, DelRemote, Goto, cVars
<1>11. FreesOnce'
  BY DEF IInv, FreesOnce, DelRemote
<1> QED BY <1>1, <1>2, <1>3, <1>4, <1>5, <1>6, <1>7, <1>8, <1>9, <1>10, <1>11
           DEF IInv

\* A remote is taken out of remotePointers; one that was handed over loses its
\* owner.
LEMMA DelPointerIInv ==
  ASSUME IInv, NEW t \in Threads, DelPointer(t)
  PROVE  IInv'
<1>0. /\ op[t].pc = "delPointer"
      /\ op'[t].todo = {} /\ ~op'[t].keep
      /\ op[t].keep => op'[t].obj = None /\ op'[t].pc = "idle"
      /\ ~op[t].keep => op'[t].obj = Obj(t) /\ op'[t].pc = "free"
      /\ \A s \in Threads \ {t} : op'[s] = op[s] /\ op[s].obj # Obj(t)
      /\ Obj(t) = op[t].obj /\ Obj(t) \in Objects /\ Obj(t) # None
      /\ Owns(Obj(t)) /\ ptr[Obj(t)] \in live /\ Obj(t) \notin held
      /\ \A s \in Threads : Obj(t) \notin op[s].todo
  <2>1. op[t].pc = "delPointer" /\ Obj(t) = op[t].obj /\ TypeOK
    BY DEF DelPointer, At, Obj, IInv
  <2>2. /\ Obj(t) \in Objects /\ Obj(t) # None /\ op[t].todo = {} /\ Obj(t) \notin held
        /\ Owns(Obj(t)) /\ ptr[Obj(t)] \in live
        /\ \A s \in Threads \ {t} : op[s].obj # Obj(t) /\ Obj(t) \notin op[s].todo
    BY <2>1, ObjFacts DEF Owning
  <2>3. op[t].keep \in BOOLEAN
    BY <2>1 DEF TypeOK, Ops
  <2>4. CASE op[t].keep
    <3>1. op' = [op EXCEPT ![t] = Idle]
      BY <2>4 DEF DelPointer
    <3> QED BY <2>1, <2>2, <2>4, <3>1, OpFacts, IdleFacts
  <2>5. CASE ~op[t].keep
    <3>1. Goto(t, "free")
      BY <2>5 DEF DelPointer
    <3> QED BY <2>1, <2>2, <2>5, <3>1, GotoFacts
  <2> QED BY <2>4, <2>5
<1>a. /\ \A o \in Objects : Owns(o)' <=> Owns(o) /\ (op[t].keep => o # Obj(t))
      /\ \A o \in Objects : Busy(o)' <=> Busy(o) /\ (op[t].keep => o # Obj(t))
      /\ \A p \in Ptrs : pointers'[p] = IF p = ptr[Obj(t)] THEN None ELSE pointers[p]
  <2>1. op[t].keep => Obj(t) \notin finalizer
    BY <1>0 DEF IInv, Places
  <2>2. \A o \in Objects : Owns(o)' <=> Owns(o) /\ (op[t].keep => o # Obj(t))
    BY <1>0, <2>1, NoneIsNoObject DEF Owns, Owning, DelPointer
  <2>3. \A o \in Objects : Busy(o)' <=> Busy(o) /\ (op[t].keep => o # Obj(t))
    BY <1>0, NoneIsNoObject DEF Busy
  <2> QED BY <2>2, <2>3 DEF DelPointer, Without
<1>1. TypeOK'
  <2>1. pointers' \in [Ptrs -> Objects \cup {None}]
    BY WithoutFacts DEF IInv, TypeOK, DelPointer
  <2>2. op' \in [Threads -> Ops]
    BY IdleFacts, OpTypes DEF IInv, TypeOK, DelPointer, Goto, Ops
  <2> QED BY <2>1, <2>2 DEF IInv, TypeOK, DelPointer, cVars
<1>2. Places'
  BY NoneAssumption DEF IInv, TypeOK, Ops, Threads, Places, Owners, Creating,
     Freeing, Busy, DelPointer, At, Goto, cVars, Idle
<1>3. Exclusive'
  BY <1>0, <1>a DEF IInv, TypeOK, Exclusive, DelPointer
<1>4. Owners'
  BY <1>a DEF IInv, Owners, DelPointer, cVars
<1>5. Maps'
  <2>1. \A p \in Ptrs : pointers'[p] # None =>
          /\ pointers'[p] = pointers[p] /\ pointers[p] \in Objects
          /\ pointers[p] # Obj(t) /\ Owns(pointers[p])'
    BY <1>a DEF IInv, TypeOK, Maps
  <2>2. remotes' = remotes /\ ptr' = ptr /\ repo' = repo /\ open' = open
    BY DEF DelPointer
  <2>3. \A r \in open, p \in Ptrs : remotes[r][p] # None =>
          remotes[r][p] \in Objects /\ remotes[r][p] # Obj(t)
    BY <1>0 DEF IInv, TypeOK, Maps
  <2>4. \A r \in open, p \in Ptrs : remotes[r][p] # None => Owns(remotes[r][p])'
    BY <1>a, <2>2, <2>3 DEF IInv, Maps
  <2> QED BY <1>0, <2>1, <2>2, <2>4 DEF IInv, Maps
<1>6. Tracked'
  <2>1. \A o \in finalizer : o \in Objects /\ Owns(o)
    BY DEF IInv, TypeOK, Owns
  <2>2. \A o \in finalizer : ~Busy(o)' => ~Busy(o) /\ ptr[o] # ptr[Obj(t)]
    BY <1>0, <2>1 DEF IInv, Places, Owners, Busy
  <2>3. \A o \in finalizer : ~Busy(o) /\ repo[o] \in open => ptr[o] \in Ptrs
    BY <2>1 DEF IInv, TypeOK, Owners
  <2>4. \A s \in Threads : op'[s].pc \in {"addPointer", "setFinalizer"} =>
          /\ s # t /\ op[s].obj \in Objects /\ Owns(op[s].obj) /\ ptr[op[s].obj] \in Ptrs
          /\ ptr[op[s].obj] # ptr[Obj(t)]
    <3> SUFFICES ASSUME NEW s \in Threads, op'[s].pc \in {"addPointer", "setFinalizer"}
                 PROVE  /\ s # t /\ op[s].obj \in Objects /\ Owns(op[s].obj)
                        /\ ptr[op[s].obj] \in Ptrs /\ ptr[op[s].obj] # ptr[Obj(t)]
      OBVIOUS
    <3>1. s # t /\ op[s].pc \in Owning /\ op[s].obj # Obj(t)
      BY <1>0 DEF Owning, Creating
    <3>2. op[s].obj \in Objects /\ Owns(op[s].obj) /\ ptr[op[s].obj] \in live
      BY <3>1, ObjFacts DEF Obj, Owning, Creating
    <3> QED BY <1>0, <3>2 DEF IInv, TypeOK, Owners
  <2> QED BY <1>0, <1>a, <2>2, <2>3, <2>4 DEF IInv, Tracked, DelPointer
<1>7. Todo'
  <2>1. \A p \in Ptrs : pointers[p] = None => pointers'[p] = None
    BY <1>a
  <2>2. pointers = NoPtrs => pointers' = NoPtrs
    BY DEF DelPointer, Without, NoPtrs
  <2>3. \A s \in Threads : \A o \in op'[s].todo : s # t /\ o \in op[s].todo /\ o \in Objects
    BY <1>0 DEF IInv, TypeOK, Ops
  <2>4. \A s \in Threads : op'[s].pc = "freeAll" => s # t /\ op[s].pc = "freeAll"
    BY <1>0
  <2>5. \A s \in Threads \ {t} : op[s].pc = "freeAll" => t \notin Goroutines
    BY <1>0 DEF IInv, Todo
  <2>6. \A s \in Threads : \A o \in op'[s].todo : o \in finalizer /\ ~Busy(o)' /\ repo[o] \notin open
    BY <1>a, <2>3 DEF IInv, Todo
  <2>7. /\ finalizer' = finalizer /\ repo' = repo /\ open' = open /\ held' = held /\ byC' = byC
        /\ subtransport' = subtransport
    BY DEF DelPointer, cVars
  <2>8. \A s \in Threads : \A o \in op'[s].todo : o \in finalizer' /\ ~Busy(o)' /\ repo'[o] \notin open'
    BY <2>6, <2>7
  <2>9. \A s \in Threads : op'[s].pc = "freeAll" =>
       /\ open' = {} /\ held' = {} /\ byC' = {} /\ pointers' = NoPtrs /\ subtransport' = NoPtrs
       /\ \A u \in Goroutines \ {s} : op'[u].pc = "idle"
    BY <1>0, <2>2, <2>7 DEF IInv, Todo, Threads
  <2> QED BY <2>8, <2>9 DEF Todo
<1>8. HandedOver'
  <2>1. \A s \in Threads : op'[s].pc \in Owning =>
          op'[s].obj = op[s].obj /\ (op'[s].keep <=> op[s].keep) /\ op[s].pc \in Owning
    <3>1. op'[t].pc \in Owning => op'[t].obj = op[t].obj /\ ~op'[t].keep /\ ~op[t].keep /\ op[t].pc \in Owning
      BY <1>0 DEF Owning, Creating
    <3> QED BY <1>0, <3>1
  <2> QED BY <2>1 DEF IInv, HandedOver, DelPointer, cVars
<1>9. Subtransports'
  BY <1>a DEF IInv, Subtransports, DelPointer, cVars
<1>10. Accounted'
  BY DEF IInv, TypeOK, Ops, Exclusive, Owns, Owning, Accounted, HandedOver,
     DelPointer, Goto, cVars
<1>11. FreesOnce'
  BY DEF IInv, FreesOnce, DelPointer
<1> QED BY <1>1, <1>2, <1>3, <1>4, <1>5, <1>6, <1>7, <1>8, <1>9, <1>10, <1>11
           DEF IInv

\* The owner frees its git_remote, which is in neither map and not C's.
LEMMA FreeRemoteIInv ==
  ASSUME IInv, NEW t \in Threads, FreeRemote(t)
  PROVE  IInv'
<1>1. TypeOK'
  <2>1. op' \in [Threads -> Ops]
    BY DEF IInv, TypeOK, Ops, FreeRemote, Goto
  <2>2. /\ subtransport' \in [Ptrs -> Objects \cup {None}]
        /\ live' \subseteq Ptrs /\ badFree' \in BOOLEAN
    BY DEF IInv, TypeOK, FreeRemote, CFrees, Without
  <2> QED BY <2>1, <2>2 DEF IInv, TypeOK, FreeRemote
<1>2. Places'
  BY DEF IInv, Places, Creating, Freeing, FreeRemote, At, Goto, Obj
<1>3. Exclusive'
  BY DEF IInv, Exclusive, Busy, FreeRemote, Goto, Obj
<1>4. Owners'
  BY DEF IInv, Accounted, Busy, Creating, Exclusive, Freeing, Ops, Owners,
     Owning, Owns, Places, Threads, TypeOK, FreeRemote, At, Goto, Obj, CFrees
<1>5. Maps'
  <2>1. /\ op[t].pc = "free" /\ op'[t].obj = op[t].obj /\ op'[t].pc = "clear"
        /\ \A s \in Threads \ {t} : op'[s] = op[s] /\ op[s].obj # Obj(t)
        /\ Obj(t) \in Objects /\ Obj(t) = op[t].obj
    BY GotoFacts, ObjFacts DEF IInv, FreeRemote, At, Owning, Obj
  <2>2. \A o \in Objects : o # Obj(t) => (Owns(o)' <=> Owns(o))
    BY <2>1 DEF Owns, FreeRemote
  <2>3. UNCHANGED <<pointers, remotes, ptr, repo, open>>
    BY DEF FreeRemote
  <2>4. /\ \A p \in Ptrs : pointers[p] # None => pointers[p] \in Objects \ {Obj(t)}
        /\ \A r \in open, p \in Ptrs : remotes[r][p] # None => remotes[r][p] \in Objects \ {Obj(t)}
    BY <2>1 DEF IInv, TypeOK, Maps
  <2> QED BY <2>1, <2>2, <2>3, <2>4 DEF IInv, Maps
<1>6. Tracked'
  BY DEF IInv, Busy, Tracked, FreeRemote, Goto
<1>7. Todo'
  BY DEF IInv, TypeOK, Ops, Threads, Places, Owners, Owns, Owning, Busy, Maps,
     Todo, FreeRemote, At, Goto, Obj, CFrees, Without
<1>8. HandedOver'
  BY DEF IInv, Places, Owning, HandedOver, FreeRemote, At, Goto, Obj, CFrees
<1>9. Subtransports'
  BY DEF IInv, Owns, Owning, Creating, Subtransports, FreeRemote, Goto, CFrees,
     Without
<1>10. Accounted'
  BY DEF IInv, Owns, Accounted, FreeRemote, Goto, Obj, CFrees
<1>11. FreesOnce'
  BY DEF IInv, FreesOnce, Places, Owners, Owns, Owning, Freeing, TypeOK, Ops,
     FreeRemote, At, Obj, CFrees
<1> QED BY <1>1, <1>2, <1>3, <1>4, <1>5, <1>6, <1>7, <1>8, <1>9, <1>10, <1>11
           DEF IInv

\* The fields of a *Remote that owns nothing are cleared.
LEMMA ClearFieldsIInv ==
  ASSUME IInv, NEW t \in Threads, ClearFields(t)
  PROVE  IInv'
<1>1. TypeOK'
  BY NoneAssumption, GCAssumption, BoundAssumption DEF IInv, TypeOK, Ops,
     Objects, Threads, ClearFields, At, Obj, cVars, Idle
<1>2. Places'
  BY DEF IInv, Places, Exclusive, Creating, Freeing, ClearFields, At, Obj, Idle
<1>3. Exclusive'
  BY NoneAssumption DEF IInv, Busy, Exclusive, Objects, TypeOK, ClearFields,
     Idle
<1>4. Owners'
  BY NoneAssumption DEF IInv, TypeOK, Objects, Places, Exclusive, Owners, Owns,
     Busy, ClearFields, At, Obj, cVars, Idle
<1>5. Maps'
  BY DEF IInv, Owns, Maps, ClearFields, At, Obj, Idle
<1>6. Tracked'
  BY DEF IInv, Places, Exclusive, Creating, Busy, Tracked, ClearFields, At, Obj,
     Idle
<1>7. Todo'
  BY NoneAssumption DEF IInv, TypeOK, Places, Creating, Freeing, Busy, Todo,
     ClearFields, cVars, Idle
<1>8. HandedOver'
  BY DEF IInv, Places, Exclusive, Owning, Creating, Freeing, HandedOver,
     ClearFields, At, Obj, cVars, Idle
<1>9. Subtransports'
  BY NoneAssumption DEF IInv, Owns, Owning, Creating, Subtransports,
     ClearFields, cVars, Idle
<1>10. Accounted'
  BY NoneAssumption, GCAssumption DEF IInv, TypeOK, Ops, Threads, Places,
     Exclusive, Owners, Owns, Owning, Creating, Freeing, Busy, Accounted,
     HandedOver, Todo, ClearFields, At, Obj, cVars, Idle
<1>11. FreesOnce'
  BY DEF IInv, FreesOnce, ClearFields
<1> QED BY <1>1, <1>2, <1>3, <1>4, <1>5, <1>6, <1>7, <1>8, <1>9, <1>10, <1>11
           DEF IInv

\* The remotes of a repository that is freed are at rest.
LEMMA FreeRepoIInv ==
  ASSUME IInv, NEW t \in Threads, NEW r \in Repos, FreeRepo(t, r)
  PROVE  IInv'
<1>1. TypeOK'
  <2> DEFINE todo == {remotes[r][p] : p \in Ptrs} \ {None}
  <2>1. todo \subseteq Objects
    BY DEF IInv, TypeOK
  <2>2. [Idle EXCEPT !.pc = "untrackAll", !.todo = todo] \in Ops
    BY <2>1 DEF Idle, Ops
  <2>3. op' \in [Threads -> Ops]
    BY <2>2, OpTypes DEF IInv, FreeRepo
  <2>4. remotes' \in [Repos -> [Ptrs -> Objects \cup {None}]]
    BY DEF IInv, TypeOK, FreeRepo, NoPtrs
  <2> QED BY <2>3, <2>4 DEF IInv, TypeOK, FreeRepo, cVars
<1>2. Places'
  BY DEF IInv, Places, Creating, Freeing, FreeRepo, Obj, Idle
<1>3. Exclusive'
  BY NoneAssumption, GCAssumption DEF IInv, TypeOK, Ops, Threads, Places,
     Exclusive, Owners, Creating, Freeing, Busy, Owns, Maps, Owning, FreeRepo,
     At, Obj, cVars, NoPtrs, Idle
<1>4. Owners'
  BY NoneAssumption, GCAssumption DEF IInv, TypeOK, Ops, Threads, Objects,
     Places, Exclusive, Owners, Owns, Owning, Creating, Freeing, Busy,
     HandedOver, FreeRepo, At, Obj, cVars, NoPtrs, Idle
<1>5. Maps'
  <2>1. /\ op[t].obj = None /\ op'[t].obj = None
        /\ \A s \in Threads \ {t} : op'[s] = op[s]
    BY DEF IInv, Places, FreeRepo, At, Creating, Freeing, Idle
  <2>2. \A u \in Objects : Owns(u)' <=> Owns(u)
    BY <2>1, OwnsFacts DEF FreeRepo
  <2>3. open' \subseteq open /\ \A q \in open' : remotes'[q] = remotes[q]
    BY DEF FreeRepo
  <2> QED BY <2>1, <2>2 DEF IInv, TypeOK, Maps, FreeRepo
<1>6. Tracked'
  BY NoneAssumption, GCAssumption DEF IInv, TypeOK, Ops, Threads, Places,
     Exclusive, Owners, Owns, Owning, Creating, Freeing, Busy, Maps, Todo,
     Tracked, FreeRepo, At, Obj, cVars, NoPtrs, Idle
<1>7. Todo'
  <2>1. /\ op[t].obj = None /\ op'[t].obj = None /\ op'[t].pc = "untrackAll" /\ t # GC
        /\ op'[t].todo = {remotes[r][p] : p \in Ptrs} \ {None} /\ r \in open
        /\ \A s \in Threads \ {t} : op'[s] = op[s]
        /\ open' = open \ {r} /\ finalizer' = finalizer /\ held' = held /\ byC' = byC
        /\ pointers' = pointers /\ subtransport' = subtransport /\ repo' = repo
    BY DEF IInv, TypeOK, Places, FreeRepo, At, Creating, Freeing, Idle, cVars
  <2>2. \A o \in Objects : Busy(o)' <=> Busy(o)
    BY <2>1, NoneIsNoObject DEF Busy
  <2>3. ASSUME NEW o \in op'[t].todo
        PROVE  o \in Objects /\ o \in finalizer /\ ~Busy(o) /\ repo[o] = r
    <3>1. PICK p \in Ptrs : o = remotes[r][p] /\ o # None
      BY <2>1, <2>3
    <3>2. o \in Objects /\ Owns(o) /\ repo[o] = r
      BY <2>1, <3>1 DEF IInv, TypeOK, Maps
    <3>3. \A s \in Threads : op[s].obj = o => op[s].pc \in Creating \cup Freeing
      BY <3>1 DEF IInv, Places
    <3>4. ~Busy(o)
      BY <3>2, <3>3 DEF Busy, FreeRepo, Obj
    <3> QED BY <3>2, <3>4 DEF Owns, Busy
  <2>4. \A s \in Threads : \A o \in op'[s].todo : o \in Objects
    BY <2>1, <2>3 DEF IInv, TypeOK, Ops
  <2>5. \A s \in Threads : op'[s].pc = "freeAll" => s # t /\ op[s].pc = "freeAll"
    BY <2>1
  <2>6. \A s \in Threads : op[s].pc = "freeAll" => open = {}
    BY DEF IInv, Todo
  <2> QED BY <2>1, <2>2, <2>3, <2>4, <2>5, <2>6 DEF IInv, Todo
<1>8. HandedOver'
  BY DEF IInv, Owning, Creating, HandedOver, FreeRepo, cVars
<1>9. Subtransports'
  BY DEF IInv, Owns, Owning, Creating, Subtransports, FreeRepo, cVars
<1>10. Accounted'
  BY DEF IInv, Owns, Owning, Creating, Accounted, FreeRepo, At, cVars
<1>11. FreesOnce'
  BY DEF IInv, FreesOnce, FreeRepo
<1> QED BY <1>1, <1>2, <1>3, <1>4, <1>5, <1>6, <1>7, <1>8, <1>9, <1>10, <1>11
           DEF IInv

\* A remote of a repository that was freed is taken out of remotePointers.
LEMMA UntrackNextIInv ==
  ASSUME IInv, NEW t \in Threads, NEW o \in Objects, UntrackNext(t, o)
  PROVE  IInv'
<1>1. TypeOK'
  <2>1. op' \in [Threads -> Ops]
    BY DEF IInv, TypeOK, UntrackNext, Ops
  <2>2. pointers' \in [Ptrs -> Objects \cup {None}]
    BY WithoutFacts DEF IInv, TypeOK, UntrackNext
  <2> QED BY <2>1, <2>2 DEF IInv, TypeOK, UntrackNext, cVars
<1>2. Places'
  BY DEF IInv, Places, UntrackNext
<1>3. Exclusive'
  BY DEF IInv, Exclusive, Busy, UntrackNext
<1>4. Owners'
  BY DEF IInv, Owners, Owns, Busy, UntrackNext, cVars
<1>5. Maps'
  <2>1. /\ op[t].obj = None /\ op'[t].obj = None
        /\ \A s \in Threads \ {t} : op'[s] = op[s]
    BY DEF IInv, Places, UntrackNext, Creating, Freeing
  <2>2. \A u \in Objects : Owns(u)' <=> Owns(u)
    BY OwnsFacts DEF UntrackNext
  <2>3. \A p \in Ptrs : pointers'[p] # None => pointers'[p] = pointers[p]
    BY DEF UntrackNext, Without
  <2> QED BY <2>2, <2>3 DEF IInv, TypeOK, Maps, UntrackNext
<1>6. Tracked'
  BY DEF IInv, TypeOK, Ops, Places, Owners, Owns, Owning, Creating, Busy, Todo,
     Tracked, UntrackNext, Without
<1>7. Todo'
  BY DEF IInv, Threads, Places, Freeing, Busy, Todo, UntrackNext, At
<1>8. HandedOver'
  BY DEF IInv, HandedOver, UntrackNext, cVars
<1>9. Subtransports'
  BY DEF IInv, Owns, Subtransports, UntrackNext, cVars
<1>10. Accounted'
  BY DEF IInv, Owns, Accounted, UntrackNext, cVars
<1>11. FreesOnce'
  BY DEF IInv, FreesOnce, UntrackNext
<1> QED BY <1>1, <1>2, <1>3, <1>4, <1>5, <1>6, <1>7, <1>8, <1>9, <1>10, <1>11
           DEF IInv

\* All remotes of the repository are untracked.
LEMMA UntrackedAllIInv ==
  ASSUME IInv, NEW t \in Threads, UntrackedAll(t)
  PROVE  IInv'
<1>1. TypeOK'
  BY DEF IInv, TypeOK, Ops, UntrackedAll, cVars, Idle
<1>2. Places'
  BY DEF IInv, Places, Creating, Freeing, UntrackedAll, Idle
<1>3. Exclusive'
  BY DEF IInv, Places, Exclusive, Creating, Freeing, Busy, UntrackedAll, At,
     Idle
<1>4. Owners'
  BY NoneAssumption DEF IInv, Objects, Owners, Owns, Busy, UntrackedAll, cVars,
     Idle
<1>5. Maps'
  <2>1. /\ op[t].obj = None /\ op'[t].obj = None
        /\ \A s \in Threads \ {t} : op'[s] = op[s]
    BY IdleFacts DEF IInv, Places, UntrackedAll, At, Creating, Freeing
  <2>2. \A o \in Objects : Owns(o)' <=> Owns(o)
    BY <2>1, OwnsFacts DEF UntrackedAll
  <2> QED BY <2>1, <2>2 DEF IInv, TypeOK, Maps, UntrackedAll
<1>6. Tracked'
  BY DEF IInv, Places, Freeing, Busy, Tracked, UntrackedAll, At, Idle
<1>7. Todo'
  BY DEF IInv, Places, Creating, Freeing, Busy, Todo, UntrackedAll, cVars, Idle
<1>8. HandedOver'
  BY DEF IInv, Owning, Creating, HandedOver, UntrackedAll, cVars, Idle
<1>9. Subtransports'
  BY DEF IInv, Owns, Owning, Creating, Subtransports, UntrackedAll, cVars, Idle
<1>10. Accounted'
  BY DEF IInv, Owns, Owning, Creating, Accounted, UntrackedAll, At, cVars
<1>11. FreesOnce'
  BY DEF IInv, FreesOnce, UntrackedAll
<1> QED BY <1>1, <1>2, <1>3, <1>4, <1>5, <1>6, <1>7, <1>8, <1>9, <1>10, <1>11
           DEF IInv

\* The callback of Clone hands over a remote at rest, without its finalizer.
LEMMA HandOverIInv ==
  ASSUME IInv, NEW t \in Threads, NEW o \in Objects, HandOver(t, o)
  PROVE  IInv'
<1>1. TypeOK'
  <2>1. [Idle EXCEPT !.pc = "delRemote", !.obj = o, !.keep = TRUE] \in Ops
    BY DEF Idle, Ops
  <2>2. op' \in [Threads -> Ops]
    BY <2>1, OpTypes DEF IInv, HandOver
  <2>3. ptr[o] \in Ptrs
    BY DEF IInv, TypeOK, Exclusive, Owners, Owns, HandOver
  <2> QED BY <2>2, <2>3 DEF IInv, TypeOK, HandOver
<1>2. Places'
  BY DEF IInv, Places, Exclusive, Creating, Freeing, Busy, HandOver, At, Idle
<1>3. Exclusive'
  BY DEF IInv, Exclusive, Busy, HandOver
<1>4. Owners'
  BY DEF IInv, Exclusive, Owners, Owns, Busy, HandOver
<1>5. Maps'
  BY DEF IInv, TypeOK, Ops, Owns, Owning, Maps, HandOver, At
<1>6. Tracked'
  BY NoneAssumption DEF IInv, Busy, Freeing, Objects, Places, Tracked, TypeOK,
     HandOver, At
<1>7. Todo'
  BY DEF IInv, Busy, Todo, HandOver, Idle
<1>8. HandedOver'
  BY DEF IInv, TypeOK, Ops, Places, Exclusive, Owners, Owns, Owning, Freeing,
     Busy, HandedOver, HandOver
<1>9. Subtransports'
  BY DEF IInv, Exclusive, Owns, Subtransports, HandOver
<1>10. Accounted'
  BY DEF IInv, Owns, Owning, Creating, Accounted, HandOver, At
<1>11. FreesOnce'
  BY DEF IInv, FreesOnce, HandOver
<1> QED BY <1>1, <1>2, <1>3, <1>4, <1>5, <1>6, <1>7, <1>8, <1>9, <1>10, <1>11
           DEF IInv

\* C frees a git_remote that has no owner.
LEMMA FreedByCIInv ==
  ASSUME IInv, NEW p \in Ptrs, FreedByC(p)
  PROVE  IInv'
<1>1. TypeOK'
  BY DEF IInv, TypeOK, FreedByC, CFrees, Without
<1>2. Places'
  BY DEF IInv, Places, FreedByC
<1>3. Exclusive'
  BY DEF IInv, Exclusive, Busy, FreedByC
<1>4. Owners'
  BY DEF IInv, Owners, Owns, Busy, HandedOver, FreedByC, Obj, CFrees
<1>5. Maps'
  BY DEF IInv, Owns, Maps, FreedByC
<1>6. Tracked'
  BY DEF IInv, Busy, Tracked, FreedByC
<1>7. Todo'
  BY DEF IInv, Busy, Todo, FreedByC
<1>8. HandedOver'
  BY DEF IInv, HandedOver, FreedByC, Obj, CFrees
<1>9. Subtransports'
  BY DEF IInv, Owns, Subtransports, FreedByC, CFrees, Without
<1>10. Accounted'
  BY DEF IInv, Owns, Accounted, FreedByC, CFrees
<1>11. FreesOnce'
  BY DEF IInv, FreesOnce, HandedOver, TypeOK, FreedByC, CFrees
<1> QED BY <1>1, <1>2, <1>3, <1>4, <1>5, <1>6, <1>7, <1>8, <1>9, <1>10, <1>11
           DEF IInv

\* What Shutdown takes out of remotePointers is at rest.
LEMMA ShutdownIInv ==
  ASSUME IInv, NEW t \in Threads, Shutdown(t)
  PROVE  IInv'
<1>1. TypeOK'
  <2> DEFINE todo == {pointers[p] : p \in Ptrs} \ {None}
  <2>1. todo \subseteq Objects
    BY DEF IInv, TypeOK
  <2>2. [Idle EXCEPT !.pc = "freeAll", !.todo = todo] \in Ops
    BY <2>1 DEF Idle, Ops
  <2>3. op' \in [Threads -> Ops]
    BY <2>2, OpTypes DEF IInv, Shutdown
  <2> QED BY <2>3 DEF IInv, TypeOK, Shutdown, cVars
<1>2. Places'
  BY DEF IInv, Threads, Places, Creating, Freeing, Shutdown, At, Idle
<1>3. Exclusive'
  BY DEF IInv, Exclusive, Shutdown, Idle
<1>4. Owners'
  BY NoneAssumption DEF IInv, Objects, Owners, Owns, Busy, Shutdown, cVars, Idle
<1>5. Maps'
  BY DEF Maps, Shutdown, NoPtrs
<1>6. Tracked'
  BY DEF IInv, Threads, Places, Freeing, Tracked, Shutdown, At
<1>7. Todo'
  BY DEF IInv, Threads, Places, Owns, Freeing, Busy, Maps, Todo, Shutdown, At,
     cVars, Idle
<1>8. HandedOver'
  BY DEF IInv, HandedOver, Shutdown, cVars, Idle
<1>9. Subtransports'
  BY DEF IInv, Owns, Owning, Creating, Subtransports, Shutdown, cVars
<1>10. Accounted'
  BY DEF IInv, Threads, Owns, Owning, Creating, Accounted, Shutdown, At, cVars
<1>11. FreesOnce'
  BY DEF IInv, FreesOnce, Shutdown
<1> QED BY <1>1, <1>2, <1>3, <1>4, <1>5, <1>6, <1>7, <1>8, <1>9, <1>10, <1>11
           DEF IInv

\* Shutdown frees an owner that nobody else frees.
LEMMA FreeNextIInv ==
  ASSUME IInv, NEW t \in Threads, NEW o \in Objects, FreeNext(t, o)
  PROVE  IInv'
<1>0. /\ op[t].pc = "freeAll" /\ open = {} /\ pointers = NoPtrs /\ open' = open /\ pointers' = pointers
      /\ \A s \in Threads \ {t} : op'[s] = op[s]
      /\ op'[t].pc = "freeAll" /\ op'[t].obj = op[t].obj
      /\ op'[t].todo = op[t].todo \ {o}
      /\ \A s \in Threads : op[s].pc \notin Creating
  BY DEF IInv, TypeOK, FreeNext, At, Todo, Places
<1>1. TypeOK'
  BY NoneAssumption, GCAssumption, BoundAssumption DEF IInv, TypeOK, Ops,
     Objects, Threads, FreeNext, At, CFrees, Without
<1>2. Places'
  BY DEF IInv, Places, Todo, FreeNext
<1>3. Exclusive'
  BY DEF IInv, Exclusive, Todo, FreeNext, At
<1>4. Owners'
  BY NoneAssumption DEF IInv, Exclusive, Objects, Owners, Owns, Busy, Places, Todo, TypeOK,
     FreeNext, CFrees, Without
<1>5. Maps'
  BY <1>0 DEF Maps, NoPtrs
<1>6. Tracked'
  BY <1>0 DEF Tracked, Creating
<1>7. Todo'
  <2>1. /\ finalizer' = finalizer \ {o} /\ held' = held /\ byC' = byC
        /\ subtransport' = Without(subtransport, ptr[o])
    BY DEF FreeNext, CFrees
  <2>2. \A u \in Objects : Busy(u)' <=> Busy(u)
    BY <1>0 DEF Busy
  <2>3. \A s \in Threads : \A u \in op'[s].todo : u \in op[s].todo /\ u # o /\ u \in Objects
    <3>1. \A s \in Threads \ {t} : op[s].pc \notin {"untrackAll", "freeAll"}
      BY <1>0 DEF IInv, Todo, Places, Threads, Freeing
    <3> QED BY <1>0, <3>1 DEF IInv, TypeOK, Ops, Places
  <2>4. subtransport = NoPtrs => subtransport' = NoPtrs
    BY <2>1 DEF Without, NoPtrs
  <2>5. \A s \in Threads : \A u \in op'[s].todo : u \in finalizer' /\ ~Busy(u)' /\ repo'[u] \notin open'
    BY <1>0, <2>1, <2>2, <2>3 DEF IInv, Todo
  <2>6. \A s \in Threads : op'[s].pc = "freeAll" => op[s].pc = "freeAll"
    BY <1>0
  <2>7. \A s, u \in Threads : op[s].pc = "idle" => u = t \/ op'[u] = op[u]
    BY <1>0
  <2> QED BY <1>0, <2>1, <2>4, <2>5 DEF IInv, Todo, Threads
<1>8. HandedOver'
  BY DEF IInv, HandedOver, Todo, FreeNext, At
<1>9. Subtransports'
  BY NoneAssumption DEF IInv, Owns, Subtransports, FreeNext, CFrees, Without
<1>10. Accounted'
  BY DEF IInv, Owns, Accounted, FreeNext, CFrees
<1>11. FreesOnce'
  BY DEF IInv, FreesOnce, Owners, Owns, TypeOK, Todo, FreeNext, CFrees
<1> QED BY <1>1, <1>2, <1>3, <1>4, <1>5, <1>6, <1>7, <1>8, <1>9, <1>10, <1>11
           DEF IInv

\* Shutdown has freed all remotes.
LEMMA FreedAllIInv ==
  ASSUME IInv, NEW t \in Threads, FreedAll(t)
  PROVE  IInv'
<1>1. TypeOK'
  BY DEF IInv, TypeOK, Ops, FreedAll, cVars, Idle
<1>2. Places'
  BY DEF IInv, Places, Creating, Freeing, FreedAll, Idle
<1>3. Exclusive'
  BY DEF IInv, Places, Exclusive, Creating, Freeing, Busy, FreedAll, At, Idle
<1>4. Owners'
  BY NoneAssumption DEF IInv, Objects, Owners, Owns, Busy, FreedAll, cVars, Idle
<1>5. Maps'
  BY DEF IInv, Owns, Maps, FreedAll, At, Idle
<1>6. Tracked'
  BY DEF IInv, Todo, Tracked, FreedAll, At, Idle
<1>7. Todo'
  BY DEF IInv, Places, Freeing, Busy, Todo, FreedAll, At, cVars, Idle
<1>8. HandedOver'
  BY DEF IInv, Owning, Creating, HandedOver, FreedAll, cVars, Idle
<1>9. Subtransports'
  BY DEF IInv, Owns, Owning, Creating, Subtransports, FreedAll, cVars, Idle
<1>10. Accounted'
  BY DEF IInv, Owns, Owning, Creating, Accounted, FreedAll, At, cVars
<1>11. FreesOnce'
  BY DEF IInv, FreesOnce, FreedAll
<1> QED BY <1>1, <1>2, <1>3, <1>4, <1>5, <1>6, <1>7, <1>8, <1>9, <1>10, <1>11
           DEF IInv

-----------------------------------------------------------------------------
\* Nothing is owned, and nobody is at work, in the initial states.
LEMMA InitIInv == Init => IInv
<1> SUFFICES ASSUME Init PROVE IInv
  OBVIOUS
<1>1. TypeOK
  <2>1. op \in [Threads -> Ops] /\ made \in 0..MaxRemotes
    BY BoundAssumption, IdleFacts DEF Init
  <2>2. NoPtrs \in [Ptrs -> Objects \cup {None}]
    BY DEF NoPtrs
  <2> QED BY <2>1, <2>2 DEF Init, TypeOK
<1>2. \A t \in Threads : op[t] = Idle
  BY DEF Init
<1>3. \A o \in Objects : ~Owns(o) /\ ~Busy(o)
  BY IdleFacts, NoneIsNoObject DEF Init, Owns, Busy
<1> QED BY <1>1, <1>3, IdleFacts DEF IInv, Init, NoPtrs, Places, Exclusive,
           Owners, Maps, Tracked, Todo, HandedOver, Subtransports, Accounted,
           FreesOnce, Creating, Freeing

\* Every step preserves the invariant.
LEMMA NextIInv == IInv /\ [Next]_vars => IInv'
<1> SUFFICES ASSUME IInv, [Next]_vars PROVE IInv'
  OBVIOUS
<1>1. ASSUME NEW t \in Threads, Continue(t) PROVE IInv'
  BY <1>1, AddRemoteIInv, AddPointerIInv, SetFinalizerIInv, DelRemoteIInv,
     DelPointerIInv, FreeRemoteIInv, ClearFieldsIInv, UntrackNextIInv,
     FreeNextIInv, UntrackedAllIInv, FreedAllIInv DEF Continue
<1>2. ASSUME NEW t \in Threads,
             \/ \E r \in Repos : FreeRepo(t, r) \/ \E p \in Ptrs : Create(t, r, p)
             \/ \E o \in Objects : Free(t, o) \/ HandOver(t, o) \/ Connect(t, o)
             \/ Shutdown(t)
      PROVE  IInv'
  BY <1>2, FreeRepoIInv, CreateIInv, FreeIInv, HandOverIInv, ConnectIInv,
     ShutdownIInv
<1>3. ASSUME \E o \in Objects : Drop(o) \/ Finalize(o) PROVE IInv'
  BY <1>3, DropIInv, FinalizeIInv
<1>4. ASSUME \E p \in Ptrs : FreedByC(p) PROVE IInv'
  BY <1>4, FreedByCIInv
<1>5. CASE UNCHANGED vars
  <2>1. \A o \in Objects : (Owns(o)' <=> Owns(o)) /\ (Busy(o)' <=> Busy(o))
    BY <1>5 DEF vars, Owns, Busy
  <2>2. UNCHANGED <<live, byC, subtransport, made, ptr, repo, finalizer, held, remotes,
                    pointers, open, op, badFree>>
    BY <1>5 DEF vars, cVars
  <2>3. TypeOK' /\ Places' /\ Tracked' /\ HandedOver' /\ Accounted' /\ FreesOnce'
    BY <2>2 DEF IInv, TypeOK, Places, Tracked, HandedOver, Accounted, FreesOnce,
       Busy, Owns
  <2>4. Exclusive' /\ Owners' /\ Maps' /\ Todo' /\ Subtransports'
    BY <2>2 DEF IInv, Exclusive, Owners, Maps, Todo, Subtransports, Busy, Owns
  <2> QED BY <2>3, <2>4 DEF IInv
<1> QED BY <1>1, <1>2, <1>3, <1>4, <1>5 DEF Next

\* The inductive invariant holds in every state the program reaches.
THEOREM Invariance == Spec => []IInv
BY InitIInv, NextIInv, PTL DEF Spec

\* The variables keep their types (Remotes.TypeOK).
THEOREM TypeCorrect == Spec => []TypeOK
<1>1. IInv => TypeOK
  BY DEF IInv
<1> QED BY <1>1, Invariance, PTL

\* remotePointers resolves a git_remote to the *Remote that owns it, and that
\* git_remote is still allocated.
THEOREM PointersAreOwners == Spec => []PointersResolve
<1>1. IInv => PointersResolve
  BY DEF IInv, TypeOK, Maps, Owners, PointersResolve
<1> QED BY <1>1, Invariance, PTL

\* A remote that user code holds is found by a transport that connects it: it is
\* at rest (Exclusive), so Tracked and Subtransports apply.
THEOREM HeldIsFound == Spec => []FoundByTransport
<1>1. ASSUME IInv PROVE FoundByTransport
  <2> SUFFICES ASSUME NEW o \in held
               PROVE  /\ repo[o] \in open => pointers[ptr[o]] = o
                      /\ subtransport[ptr[o]] \in {o, None}
    BY DEF FoundByTransport
  <2>1. o \in Objects /\ o \in finalizer /\ ~Busy(o) /\ Owns(o) /\ ptr[o] \in Ptrs
    BY <1>1 DEF IInv, TypeOK, Exclusive, Owners, Owns
  <2> QED BY <1>1, <2>1 DEF IInv, Tracked, Subtransports
<1> QED BY <1>1, Invariance, PTL

\* git_remote_free is called once for a git_remote.
THEOREM FreedOnce == Spec => []FreesOnce
<1>1. IInv => FreesOnce
  BY DEF IInv
<1> QED BY <1>1, Invariance, PTL

\* A live git_remote that is not C's to free has one who will free it: its owner
\* is in finalizer, or is what a goroutine is busy with.
THEOREM NoLeak == Spec => []NothingLeaks
<1>1. ASSUME IInv PROVE NothingLeaks
  <2> SUFFICES ASSUME NEW p \in live \ byC
               PROVE  \E o \in held \cup finalizer \cup {op[t].obj : t \in Threads} :
                        o # None /\ ptr[o] = p
    BY DEF NothingLeaks
  <2>1. PICK o \in Objects : Owns(o) /\ ptr[o] = p
    BY <1>1 DEF IInv, Accounted
  <2>2. o \in finalizer \cup {op[t].obj : t \in Threads}
    BY <2>1 DEF Owns
  <2> QED BY <2>1, <2>2, NoneIsNoObject
<1> QED BY <1>1, Invariance, PTL
=====
