-------------------------- MODULE TransportsProofs --------------------------
(***************************************************************************)
(* That libgit2's registry resolves, that user code keeps its transports   *)
(* and that no handle leaks, for any number of goroutines, protocols,      *)
(* remotes and handles.                                                    *)
(*                                                                         *)
(* git_transport_unregister takes out whatever stands for a protocol, and  *)
(* New, Free and Shutdown go on to untrack the handle that they know of.   *)
(* So the invariant says who holds what libgit2 has: the library's map,    *)
(* user code, or the one operation that is about to unregister it.         *)
(***************************************************************************)
EXTENDS Transports, TLAPS

Subtransport(r) == [kind |-> "managed", of |-> r]

\* The places before git_transport_unregister, and those at which the
\* operation alone has its handle.
Listed == {"replace", "free"}
Owning == {"untrackOld", "untrack", "register", "undo", "smart"}

\* What each place implies of the operation's protocol, handle and remote.
Places == \A g \in Goroutines :
  /\ op[g].pc # "idle" => op[g].name \in Protocols
  /\ op[g].pc = "idle" => op[g] = Idle
  /\ op[g].pc \in Listed => op[g].handle # None /\ cTransports[op[g].name] = op[g].handle
  /\ op[g].pc \in Owning \ {"smart"} =>
       op[g].handle # None /\ handles[op[g].handle] = Transport(op[g].name)
  /\ op[g].pc = "get" => op[g].handle # None
  /\ op[g].pc = "smart" =>
       op[g].handle # None /\ handles[op[g].handle] = Subtransport(op[g].remote)
  /\ op[g].pc \in {"get", "smart"} <=> op[g].remote # None
  /\ op[g].remote # None => op[g].remote \in remotes /\ subtransport[op[g].remote] = None

\* An operation has its handle and its remote for itself.
Exclusive ==
  /\ \A g1, g2 \in Goroutines : op[g1].remote = op[g2].remote /\ op[g1].remote # None => g1 = g2
  /\ \A g1, g2 \in Goroutines :
       op[g1].pc \in Listed \cup Owning /\ op[g2].pc \in Listed \cup Owning
         /\ op[g1].handle = op[g2].handle => g1 = g2
  /\ \A g \in Goroutines, p \in Protocols :
       /\ op[g].pc \in Owning => cTransports[p] # op[g].handle
       /\ op[g].pc \in Listed => transports[p] # op[g].handle
  /\ \A g \in Goroutines : op[g].pc \in Listed => op[g].handle \notin user
  /\ \A p \in Protocols : transports[p] \notin user

\* What libgit2 has for a protocol is a transport of it, held by one who will
\* unregister it; what the library's map and user code hold is registered.
Registry ==
  /\ RegistryResolves
  /\ \A p \in Protocols : transports[p] # None => cTransports[p] = transports[p]
  /\ \A h \in user : \E p \in Protocols : cTransports[p] = h
  /\ \A p \in Protocols : cTransports[p] # None =>
       \/ cTransports[p] = transports[p] \/ cTransports[p] \in user
       \/ \E g \in Goroutines : op[g].pc \in Listed /\ op[g].handle = cTransports[p]

\* A remote's subtransport is tracked until Shutdown clears the handle list.
Connected == \A r \in Remotes : subtransport[r] # None =>
  r \in remotes /\ (phase # "remotes" => handles[subtransport[r]] = Subtransport(r))

\* What is tracked is registered, a remote's, or an operation's own.
Accounted == \A h \in Tracked :
  \/ \E p \in Protocols : cTransports[p] = h
  \/ \E r \in Remotes : subtransport[r] = h
  \/ \E g \in Goroutines : op[g].pc \in Owning /\ op[g].handle = h

\* Shutdown runs alone, and leaves nothing behind that it has passed.
Phases ==
  /\ phase # "running" => user = {} /\ \A g \in Goroutines : op[g] = Idle
  /\ phase \in {"clear", "remotes"} => \A p \in Protocols : transports[p] = None
  /\ phase = "remotes" => Tracked = {}
  /\ phase = "init" => remotes = {}

IInv == TypeOK /\ Places /\ Exclusive /\ Registry /\ Connected /\ Accounted /\ Phases
-----------------------------------------------------------------------------
\* None is not what anything is called, nor what a handle stands for.
LEMMA NoneFacts ==
  /\ \A h \in Handles : h # None
  /\ \A p \in Protocols : p # None /\ Transport(p) # None /\ Transport(p) \in Entries
  /\ \A r \in Remotes : r # None /\ Subtransport(r) # None /\ Subtransport(r) \in Entries
BY NoneAssumption DEF Transport, Subtransport, Entries

\* An entry tells what it is of.
LEMMA EntryFacts ==
  /\ \A p, q : Transport(p) = Transport(q) => p = q
  /\ \A r, s : Subtransport(r) = Subtransport(s) => r = s
  /\ \A p, r : Transport(p) # Subtransport(r)
<1>1. \A p : Transport(p).kind = "transport" /\ Transport(p).of = p
  BY DEF Transport
<1>2. \A r : Subtransport(r).kind = "managed" /\ Subtransport(r).of = r
  BY DEF Subtransport
<1> QED BY <1>1, <1>2

\* An operation at rest.
LEMMA IdleFacts == /\ Idle.pc = "idle" /\ Idle.name = None /\ Idle.handle = None
                   /\ Idle.remote = None /\ Idle \in Ops
BY DEF Idle, Ops

\* What an operation is given to do next.
LEMMA OpTypes ==
  ASSUME TypeOK, NEW g \in Goroutines
  PROVE  /\ Done(g) => op' \in [Goroutines -> Ops]
         /\ \A place \in {"untrackOld", "untrack", "track", "undo"} :
              Goto(g, place) => op' \in [Goroutines -> Ops]
         /\ \A x \in Ops : op' = [op EXCEPT ![g] = x] => op' \in [Goroutines -> Ops]
         /\ \A place \in {"register", "smart"}, h \in Handles :
              op' = [op EXCEPT ![g].pc = place, ![g].handle = h] => op' \in [Goroutines -> Ops]
<1>1. Done(g) => op' \in [Goroutines -> Ops]
  BY IdleFacts DEF TypeOK, Done
<1>2. ASSUME NEW place \in {"untrackOld", "untrack", "track", "undo"}, Goto(g, place)
      PROVE  op' \in [Goroutines -> Ops]
  BY <1>2 DEF TypeOK, Ops, Goto
<1>3. ASSUME NEW x \in Ops, op' = [op EXCEPT ![g] = x]
      PROVE  op' \in [Goroutines -> Ops]
  BY <1>3 DEF TypeOK
<1>4. ASSUME NEW place \in {"register", "smart"}, NEW h \in Handles,
             op' = [op EXCEPT ![g].pc = place, ![g].handle = h]
      PROVE  op' \in [Goroutines -> Ops]
  <2>1. op[g] \in Ops
    BY DEF TypeOK
  <2>2. [op[g] EXCEPT !.pc = place, !.handle = h] \in Ops
    BY <2>1 DEF Ops
  <2>3. op' = [op EXCEPT ![g] = [op[g] EXCEPT !.pc = place, !.handle = h]]
    BY <1>4 DEF TypeOK
  <2> QED BY <1>3, <2>2, <2>3
<1> QED BY <1>1, <1>2, <1>3, <1>4

\* The library's transport for the protocol becomes the operation's to free.
LEMMA NewIInv ==
  ASSUME IInv, NEW g \in Goroutines, NEW p \in Protocols, New(g, p)
  PROVE  IInv'
<1>1. TypeOK'
  <2> DEFINE x == [Idle EXCEPT !.name = p, !.handle = transports[p],
                     !.pc = IF transports[p] # None THEN "replace" ELSE "track"]
  <2>1. x \in Ops
    BY DEF IInv, TypeOK, Idle, Ops
  <2>2. op' \in [Goroutines -> Ops]
    BY <2>1, OpTypes DEF IInv, New
  <2> QED BY <2>2 DEF IInv, TypeOK, New
<1>2. Places'
  BY DEF IInv, Places, Registry, New, At, Listed, Owning
<1>3. Exclusive'
  BY EntryFacts, IdleFacts DEF IInv, TypeOK, Places, Exclusive, Registry,
     RegistryResolves, New, Listed, Owning
<1>4. Registry'
  BY NoneFacts, EntryFacts, IdleFacts DEF IInv, TypeOK, Places, Exclusive,
     Registry, RegistryResolves, Phases, Ops, New, At, Listed, Owning
<1>5. Connected'
  BY DEF IInv, Connected, New
<1>6. Accounted'
  BY IdleFacts DEF IInv, Places, Accounted, Tracked, New, At
<1>7. Phases'
  BY DEF Phases, New, At
<1> QED BY <1>1, <1>2, <1>3, <1>4, <1>5, <1>6, <1>7 DEF IInv

\* User code's transport becomes the operation's to free.
LEMMA FreeIInv ==
  ASSUME IInv, NEW g \in Goroutines, NEW h \in Handles, Free(g, h)
  PROVE  IInv'
<1>0. /\ h \in user /\ h \in Handles /\ h # None /\ handles[h].of \in Protocols
      /\ cTransports[handles[h].of] = h /\ handles[h] = Transport(handles[h].of)
  <2>1. h \in user
    BY DEF Free
  <2>2. PICK p \in Protocols : cTransports[p] = h
    BY <2>1 DEF IInv, Registry
  <2>3. handles[h] = Transport(p)
    BY <2>2, NoneFacts DEF IInv, Registry, RegistryResolves
  <2> QED BY <2>1, <2>2, <2>3, NoneFacts DEF Transport
<1>1. TypeOK'
  <2> DEFINE x == [Idle EXCEPT !.pc = "free", !.name = handles[h].of, !.handle = h]
  <2>1. x \in Ops
    BY <1>0 DEF Idle, Ops
  <2>2. op' \in [Goroutines -> Ops]
    BY <2>1, OpTypes DEF IInv, Free
  <2> QED BY <2>2 DEF IInv, TypeOK, Free
<1>2. Places'
  <2>1. op'[g] = [pc |-> "free", name |-> handles[h].of, handle |-> h, remote |-> None]
    BY DEF IInv, TypeOK, Free, Idle
  <2>2. \A k \in Goroutines \ {g} : op'[k] = op[k]
    BY DEF Free
  <2>3. UNCHANGED <<handles, cTransports, remotes, subtransport>>
    BY DEF Free
  <2> QED BY <1>0, <2>1, <2>2, <2>3 DEF IInv, Places
<1>3. Exclusive'
  BY <1>0, IdleFacts DEF IInv, Exclusive, Free, Owning
<1>4. Registry'
  BY <1>0, NoneFacts, EntryFacts, IdleFacts DEF IInv, TypeOK, Places, Exclusive,
     Registry, RegistryResolves, Phases, Ops, Free, At, Listed, Owning
<1>5. Connected'
  BY DEF IInv, Connected, Free
<1>6. Accounted'
  BY IdleFacts DEF IInv, Places, Accounted, Tracked, Free, At
<1>7. Phases'
  BY DEF IInv, Phases, Free
<1> QED BY <1>1, <1>2, <1>3, <1>4, <1>5, <1>6, <1>7 DEF IInv

\* What is unregistered is what the operation knows of, and is now its own.
LEMMA UnregisterIInv ==
  ASSUME IInv, NEW g \in Goroutines, Unregister(g)
  PROVE  IInv'
<1>1. TypeOK'
  <2>1. op' \in [Goroutines -> Ops]
    BY OpTypes DEF IInv, Unregister
  <2> QED BY <2>1 DEF IInv, TypeOK, Unregister
<1>2. Places'
  BY DEF IInv, TypeOK, Places, Exclusive, Registry, RegistryResolves, Ops,
     Unregister, At, Goto, Listed
<1>3. Exclusive'
  <2>1. /\ handles' = handles /\ transports' = transports /\ user' = user
        /\ op[g].pc \in Listed /\ op[g].handle # None /\ op[g].name \in Protocols
        /\ cTransports[op[g].name] = op[g].handle
    BY NoneFacts, IdleFacts DEF IInv, Places, Unregister, At, Listed
  <2>2. /\ op'[g].handle = op[g].handle /\ op'[g].remote = op[g].remote
        /\ op'[g].pc \in Owning /\ op'[g].pc \notin Listed
        /\ \A k \in Goroutines \ {g} : op'[k] = op[k]
    BY <2>1 DEF IInv, TypeOK, Ops, Unregister, At, Goto, Listed, Owning
  <2>3. \A p \in Protocols : cTransports'[p] # op[g].handle
    BY <2>1, NoneFacts, EntryFacts DEF IInv, TypeOK, Registry, RegistryResolves, Unregister
  <2>4. \A p \in Protocols : cTransports'[p] \in {cTransports[p], None}
    BY DEF IInv, TypeOK, Unregister
  <2>5. \A k \in Goroutines, p \in Protocols :
          /\ op'[k].pc \in Owning => cTransports'[p] # op'[k].handle
          /\ op'[k].pc \in Listed => transports'[p] # op'[k].handle
    <3> SUFFICES ASSUME NEW k \in Goroutines, NEW p \in Protocols
                 PROVE  /\ op'[k].pc \in Owning => cTransports'[p] # op'[k].handle
                        /\ op'[k].pc \in Listed => transports'[p] # op'[k].handle
      OBVIOUS
    <3>1. CASE k = g
      BY <3>1, <2>2, <2>3
    <3>2. CASE k # g
      BY <3>2, <2>1, <2>2, <2>4 DEF IInv, Places, Exclusive, Owning
    <3> QED BY <3>1, <3>2
  <2> QED BY <2>1, <2>2, <2>5 DEF IInv, Exclusive
<1>4. Registry'
  BY NoneFacts, EntryFacts, IdleFacts DEF IInv, TypeOK, Places, Exclusive,
     Registry, RegistryResolves, Phases, Ops, Unregister, At, Goto, Done,
     Listed, Owning
<1>5. Connected'
  BY DEF IInv, Connected, Unregister
<1>6. Accounted'
  BY DEF IInv, TypeOK, Places, Accounted, Connected, Tracked, Ops, Unregister,
     At, Goto, Listed, Owning
<1>7. Phases'
  BY DEF Phases, Unregister, At
<1> QED BY <1>1, <1>2, <1>3, <1>4, <1>5, <1>6, <1>7 DEF IInv

\* The handle that is untracked is nobody else's.
LEMMA UntrackHandleIInv ==
  ASSUME IInv, NEW g \in Goroutines, UntrackHandle(g)
  PROVE  IInv'
<1>0. /\ op[g].pc \in {"untrackOld", "untrack"} /\ op[g].handle \in Handles
      /\ handles[op[g].handle] = Transport(op[g].name) /\ op[g].name \in Protocols
      /\ op[g].remote = None /\ op'[g].remote = None
      /\ op'[g].pc \in {"track", "idle"}
      /\ \A k \in Goroutines \ {g} : op'[k] = op[k]
      /\ \A p \in Protocols : cTransports[p] # op[g].handle
      /\ \A k \in Handles : handles'[k] = IF k = op[g].handle THEN None ELSE handles[k]
  <2>1. op[g].pc \in {"untrackOld", "untrack"}
    BY DEF UntrackHandle, At
  <2>2. /\ op[g].handle \in Handles /\ handles[op[g].handle] = Transport(op[g].name)
        /\ op[g].name \in Protocols /\ op[g].remote = None
    BY <2>1 DEF IInv, TypeOK, Ops, Places, Owning
  <2>3. \A p \in Protocols : cTransports[p] # op[g].handle
    BY <2>1 DEF IInv, Exclusive, Owning
  <2>4. op'[g].pc \in {"track", "idle"} /\ op'[g].remote = None
        /\ \A k \in Goroutines \ {g} : op'[k] = op[k]
    BY <2>2, IdleFacts DEF IInv, TypeOK, Ops, UntrackHandle, Goto, Done
  <2> QED BY <2>1, <2>2, <2>3, <2>4 DEF UntrackHandle, Untrack, IInv, TypeOK
<1>1. TypeOK'
  <2>1. op' \in [Goroutines -> Ops]
    BY OpTypes DEF IInv, UntrackHandle
  <2> QED BY <2>1 DEF IInv, TypeOK, UntrackHandle, Untrack
<1>2. Places'
  BY <1>0, IdleFacts DEF IInv, TypeOK, Places, Exclusive, Ops, UntrackHandle,
     Goto, Done, Listed, Owning
<1>3. Exclusive'
  BY <1>0 DEF IInv, Exclusive, UntrackHandle, Listed, Owning
<1>4. Registry'
  <2>1. UNCHANGED <<cTransports, transports, user>>
    BY DEF UntrackHandle
  <2>2. RegistryResolves'
    BY <1>0, <2>1 DEF IInv, TypeOK, Registry, RegistryResolves
  <2>3. \A k \in Goroutines : op[k].pc \in Listed => op'[k] = op[k]
    BY <1>0 DEF Listed
  <2> QED BY <2>1, <2>2, <2>3 DEF IInv, Registry
<1>5. Connected'
  BY <1>0, EntryFacts DEF IInv, TypeOK, Connected, UntrackHandle
<1>6. Accounted'
  BY <1>0, NoneFacts, EntryFacts, IdleFacts DEF IInv, TypeOK, Places, Exclusive,
     Registry, Accounted, Connected, Phases, Tracked, Ops, UntrackHandle, At,
     Goto, Done, Untrack, Listed, Owning
<1>7. Phases'
  BY <1>0, IdleFacts DEF IInv, Phases, UntrackHandle
<1> QED BY <1>1, <1>2, <1>3, <1>4, <1>5, <1>6, <1>7 DEF IInv

\* A new handle is the operation's own.
LEMMA TrackIInv ==
  ASSUME IInv, NEW g \in Goroutines, NEW h \in Handles, Track(g, h)
  PROVE  IInv'
<1>1. TypeOK'
  <2>1. op' \in [Goroutines -> Ops]
    BY OpTypes DEF IInv, Track
  <2>2. Transport(op[g].name) \in Entries
    BY NoneFacts DEF IInv, Places, Track, At
  <2> QED BY <2>1, <2>2 DEF IInv, TypeOK, Track
<1>2. Places'
  BY NoneFacts DEF IInv, TypeOK, Places, Track, At, Listed, Owning
<1>3. Exclusive'
  BY NoneFacts, IdleFacts DEF IInv, TypeOK, Places, Exclusive, Registry,
     RegistryResolves, Phases, Track, At
<1>4. Registry'
  BY NoneFacts, EntryFacts, IdleFacts DEF IInv, TypeOK, Places, Exclusive,
     Registry, RegistryResolves, Phases, Ops, Track, At, Listed, Owning
<1>5. Connected'
  BY NoneFacts DEF IInv, Connected, Track
<1>6. Accounted'
  <2>1. \A k \in Goroutines \ {g} : op'[k] = op[k]
    BY DEF IInv, TypeOK, Track
  <2>2. op[g].pc = "track" /\ op'[g].pc = "register" /\ op'[g].handle = h
    BY DEF IInv, TypeOK, Track, At
  <2>3. Tracked' \subseteq Tracked \cup {h}
    BY DEF Track, Tracked
  <2>4. \A k \in Goroutines : op[k].pc \in Owning => op'[k] = op[k]
    BY <2>1, <2>2 DEF Owning
  <2>5. UNCHANGED <<cTransports, subtransport>>
    BY DEF Track
  <2> SUFFICES ASSUME NEW k \in Tracked'
               PROVE  \/ \E p \in Protocols : cTransports'[p] = k
                      \/ \E r \in Remotes : subtransport'[r] = k
                      \/ \E j \in Goroutines : op'[j].pc \in Owning /\ op'[j].handle = k
    BY DEF Accounted
  <2>6. CASE k = h
    BY <2>2, <2>6 DEF Owning
  <2>7. CASE k \in Tracked
    BY <2>4, <2>5, <2>7 DEF IInv, Accounted
  <2> QED BY <2>3, <2>6, <2>7
<1>7. Phases'
  BY DEF Phases, Track, At
<1> QED BY <1>1, <1>2, <1>3, <1>4, <1>5, <1>6, <1>7 DEF IInv

\* The handle becomes libgit2's and user code's.
LEMMA RegisterIInv ==
  ASSUME IInv, NEW g \in Goroutines, Register(g)
  PROVE  IInv'
<1>1. TypeOK'
  <2>1. op' \in [Goroutines -> Ops]
    BY OpTypes DEF IInv, Register
  <2>2. op[g].handle \in Handles
    BY DEF IInv, TypeOK, Ops, Places, Register, At, Owning
  <2> QED BY <2>1, <2>2 DEF IInv, TypeOK, Register
<1>2. Places'
  BY IdleFacts DEF IInv, Places, Register, Done, Listed, Owning
<1>3. Exclusive'
  BY IdleFacts DEF IInv, TypeOK, Places, Exclusive, Registry, Register, At,
     Done, Listed, Owning
<1>4. Registry'
  BY NoneFacts, EntryFacts, IdleFacts DEF IInv, TypeOK, Places, Exclusive,
     Registry, RegistryResolves, Phases, Ops, Register, At, Done, Listed, Owning
<1>5. Connected'
  BY DEF IInv, Connected, Register
<1>6. Accounted'
  BY NoneFacts DEF IInv, TypeOK, Places, Accounted, Tracked, Register, Done
<1>7. Phases'
  BY DEF Phases, Register, At
<1> QED BY <1>1, <1>2, <1>3, <1>4, <1>5, <1>6, <1>7 DEF IInv

\* The handle is still the operation's own.
LEMMA RegisterFailsIInv ==
  ASSUME IInv, NEW g \in Goroutines, RegisterFails(g)
  PROVE  IInv'
<1>1. TypeOK'
  <2>1. op' \in [Goroutines -> Ops]
    BY OpTypes DEF IInv, RegisterFails
  <2> QED BY <2>1 DEF IInv, TypeOK, RegisterFails
<1>2. Places'
  BY DEF IInv, Places, RegisterFails, At, Goto, Listed, Owning
<1>3. Exclusive'
  BY DEF IInv, Exclusive, RegisterFails, At, Goto, Listed, Owning
<1>4. Registry'
  BY NoneFacts, EntryFacts, IdleFacts DEF IInv, TypeOK, Places, Exclusive,
     Registry, RegistryResolves, Phases, Ops, RegisterFails, At, Goto, Listed,
     Owning
<1>5. Connected'
  BY DEF IInv, Connected, RegisterFails
<1>6. Accounted'
  BY DEF IInv, Accounted, Tracked, RegisterFails, Goto, Owning
<1>7. Phases'
  BY DEF Phases, RegisterFails, At
<1> QED BY <1>1, <1>2, <1>3, <1>4, <1>5, <1>6, <1>7 DEF IInv

\* The handle that was not registered is untracked.
LEMMA UndoIInv ==
  ASSUME IInv, NEW g \in Goroutines, Undo(g)
  PROVE  IInv'
<1>1. TypeOK'
  BY NoneFacts, EntryFacts, IdleFacts DEF IInv, TypeOK, Places, Undo, At, Done,
     Untrack, Listed, Owning
<1>2. Places'
  BY IdleFacts DEF IInv, TypeOK, Places, Exclusive, Undo, At, Done, Untrack,
     Listed, Owning
<1>3. Exclusive'
  BY IdleFacts DEF IInv, Exclusive, Undo, Done, Listed, Owning
<1>4. Registry'
  BY NoneFacts, EntryFacts, IdleFacts DEF IInv, TypeOK, Places, Exclusive,
     Registry, RegistryResolves, Phases, Ops, Undo, At, Done, Untrack, Listed,
     Owning
<1>5. Connected'
  BY EntryFacts DEF IInv, Places, Connected, Undo, At, Untrack, Owning
<1>6. Accounted'
  BY DEF IInv, TypeOK, Accounted, Tracked, Undo, Done, Untrack
<1>7. Phases'
  BY DEF Phases, Undo, At
<1> QED BY <1>1, <1>2, <1>3, <1>4, <1>5, <1>6, <1>7 DEF IInv

\* A new remote has no subtransport.
LEMMA CreateRemoteIInv ==
  ASSUME IInv, NEW r \in Remotes, CreateRemote(r)
  PROVE  IInv'
<1>1. TypeOK'
  BY DEF IInv, TypeOK, CreateRemote
<1>2. Places'
  BY DEF IInv, Places, CreateRemote
<1>3. Exclusive'
  BY DEF IInv, Exclusive, CreateRemote
<1>4. Registry'
  BY NoneFacts, EntryFacts, IdleFacts DEF IInv, TypeOK, Places, Exclusive,
     Registry, RegistryResolves, Phases, Ops, CreateRemote, Listed, Owning
<1>5. Connected'
  BY DEF IInv, Connected, CreateRemote
<1>6. Accounted'
  BY DEF IInv, Accounted, Tracked, CreateRemote
<1>7. Phases'
  BY DEF Phases, CreateRemote
<1> QED BY <1>1, <1>2, <1>3, <1>4, <1>5, <1>6, <1>7 DEF IInv

\* The remote is the operation's own.
LEMMA ConnectIInv ==
  ASSUME IInv, NEW g \in Goroutines, NEW r \in Remotes, NEW p \in Protocols, Connect(g, r, p)
  PROVE  IInv'
<1>1. TypeOK'
  <2>1. [pc |-> "get", name |-> p, handle |-> cTransports[p], remote |-> r] \in Ops
    BY DEF IInv, TypeOK, Ops
  <2>2. op' \in [Goroutines -> Ops]
    BY <2>1, OpTypes DEF IInv, Connect
  <2> QED BY <2>2 DEF IInv, TypeOK, Connect
<1>2. Places'
  BY NoneFacts DEF IInv, Places, Connect, Owning
<1>3. Exclusive'
  BY DEF IInv, Exclusive, Connect, InUse, Listed, Owning
<1>4. Registry'
  BY NoneFacts, EntryFacts, IdleFacts DEF IInv, TypeOK, Places, Exclusive,
     Registry, RegistryResolves, Phases, Ops, Connect, At, InUse, Listed, Owning
<1>5. Connected'
  BY DEF IInv, Connected, Connect
<1>6. Accounted'
  BY IdleFacts DEF IInv, Places, Accounted, Tracked, Connect, At
<1>7. Phases'
  BY DEF Phases, Connect, At
<1> QED BY <1>1, <1>2, <1>3, <1>4, <1>5, <1>6, <1>7 DEF IInv

\* The subtransport's handle is the operation's own.
LEMMA SmartTransportIInv ==
  ASSUME IInv, NEW g \in Goroutines, NEW h \in Handles, SmartTransport(g, h)
  PROVE  IInv'
<1>0. /\ op[g].pc = "get" /\ op[g].remote \in Remotes /\ handles[h] = None
      /\ op[g].remote # None /\ subtransport[op[g].remote] = None
      /\ op[g].remote \in remotes /\ op[g].name \in Protocols
  BY DEF IInv, TypeOK, Places, SmartTransport, At
<1>1. TypeOK'
  <2>1. CASE panicked' = "connect" /\ UNCHANGED <<handles, op>>
    BY <2>1 DEF IInv, TypeOK, SmartTransport
  <2>2. CASE /\ handles' = [handles EXCEPT ![h] = Subtransport(op[g].remote)]
             /\ op' = [op EXCEPT ![g].pc = "smart", ![g].handle = h]
             /\ UNCHANGED panicked
    <3>1. op' \in [Goroutines -> Ops]
      BY <2>2, OpTypes DEF IInv
    <3> QED BY <1>0, <2>2, <3>1, NoneFacts DEF IInv, TypeOK, SmartTransport
  <2> QED BY <2>1, <2>2 DEF SmartTransport, Subtransport
<1>2. Places'
  <2>1. CASE panicked' = "connect" /\ UNCHANGED <<handles, op>>
    BY <2>1 DEF IInv, Places, SmartTransport
  <2>2. CASE /\ handles' = [handles EXCEPT ![h] = Subtransport(op[g].remote)]
             /\ op' = [op EXCEPT ![g].pc = "smart", ![g].handle = h]
    <3>1. /\ op'[g].pc = "smart" /\ op'[g].handle = h /\ op'[g].remote = op[g].remote
          /\ op'[g].name = op[g].name
          /\ \A k \in Goroutines \ {g} : op'[k] = op[k]
      BY <2>2 DEF IInv, TypeOK
    <3>2. handles'[h] = Subtransport(op[g].remote) /\ \A k \in Handles \ {h} : handles'[k] = handles[k]
      BY <2>2 DEF IInv, TypeOK
    <3>3. \A k \in Goroutines : op[k].pc \in Owning => op[k].handle \in Handles \ {h}
      BY <1>0, NoneFacts DEF IInv, TypeOK, Ops, Places, Owning
    <3>4. UNCHANGED <<cTransports, remotes, subtransport>>
      BY DEF SmartTransport
    <3> QED BY <1>0, <3>1, <3>2, <3>3, <3>4, NoneFacts DEF IInv, Places, Listed,
               Owning
  <2> QED BY <2>1, <2>2 DEF SmartTransport, Subtransport
<1>3. Exclusive'
  <2>1. CASE panicked' = "connect" /\ UNCHANGED <<handles, op>>
    BY <2>1 DEF IInv, Exclusive, SmartTransport
  <2>2. CASE op' = [op EXCEPT ![g].pc = "smart", ![g].handle = h]
    <3>1. /\ op'[g].pc = "smart" /\ op'[g].handle = h /\ op'[g].remote = op[g].remote
          /\ \A k \in Goroutines \ {g} : op'[k] = op[k]
      BY <2>2 DEF IInv, TypeOK
    <3>2. \A p \in Protocols : cTransports[p] # h
      BY <1>0, NoneFacts DEF IInv, Registry, RegistryResolves
    <3>3. \A k \in Goroutines : op[k].pc \in Owning \cup Listed => op[k].handle # h
      BY <1>0, <3>2, NoneFacts DEF IInv, TypeOK, Places, Owning, Listed
    <3>4. UNCHANGED <<cTransports, transports, user>>
      BY DEF SmartTransport
    <3> QED BY <3>1, <3>2, <3>3, <3>4 DEF IInv, Exclusive, Listed
  <2> QED BY <2>1, <2>2 DEF SmartTransport
<1>4. Registry'
  BY <1>0, NoneFacts, EntryFacts, IdleFacts DEF IInv, TypeOK, Places, Exclusive,
     Registry, RegistryResolves, Phases, Ops, SmartTransport, At, Listed, Owning
<1>5. Connected'
  BY NoneFacts DEF IInv, TypeOK, Connected, SmartTransport
<1>6. Accounted'
  <2>1. CASE panicked' = "connect" /\ UNCHANGED <<handles, op>>
    BY <2>1 DEF IInv, Accounted, Tracked, SmartTransport
  <2>2. CASE /\ handles' = [handles EXCEPT ![h] = Subtransport(op[g].remote)]
             /\ op' = [op EXCEPT ![g].pc = "smart", ![g].handle = h]
    <3>1. /\ op'[g].pc = "smart" /\ op'[g].handle = h
          /\ \A k \in Goroutines \ {g} : op'[k] = op[k]
      BY <2>2 DEF IInv, TypeOK
    <3>2. Tracked' \subseteq Tracked \cup {h}
      BY <2>2 DEF Tracked
    <3>3. \A k \in Goroutines : op[k].pc \in Owning => op'[k] = op[k]
      BY <1>0, <3>1 DEF Owning
    <3> QED BY <3>1, <3>2, <3>3 DEF IInv, Accounted, SmartTransport, Owning
  <2> QED BY <2>1, <2>2 DEF SmartTransport, Subtransport
<1>7. Phases'
  BY DEF Phases, SmartTransport, At
<1> QED BY <1>1, <1>2, <1>3, <1>4, <1>5, <1>6, <1>7 DEF IInv

\* The handle becomes the remote's.
LEMMA SmartCreatedIInv ==
  ASSUME IInv, NEW g \in Goroutines, SmartCreated(g)
  PROVE  IInv'
<1>1. TypeOK'
  <2>1. op' \in [Goroutines -> Ops]
    BY OpTypes DEF IInv, SmartCreated
  <2>2. op[g].handle \in Handles
    BY DEF IInv, TypeOK, Ops, Places, SmartCreated, At
  <2> QED BY <2>1, <2>2 DEF IInv, TypeOK, SmartCreated
<1>2. Places'
  BY IdleFacts DEF IInv, TypeOK, Places, Exclusive, SmartCreated, Done, Listed,
     Owning
<1>3. Exclusive'
  BY IdleFacts DEF IInv, Exclusive, SmartCreated, Done, Listed, Owning
<1>4. Registry'
  BY NoneFacts, EntryFacts, IdleFacts DEF IInv, TypeOK, Places, Exclusive,
     Registry, RegistryResolves, Phases, Ops, SmartCreated, At, Done, Listed,
     Owning
<1>5. Connected'
  BY DEF IInv, Places, Connected, SmartCreated, At
<1>6. Accounted'
  BY NoneFacts DEF IInv, TypeOK, Places, Accounted, Tracked, SmartCreated, At,
     Done
<1>7. Phases'
  BY DEF Phases, SmartCreated, At
<1> QED BY <1>1, <1>2, <1>3, <1>4, <1>5, <1>6, <1>7 DEF IInv

\* The handle of the subtransport that failed is untracked.
LEMMA SmartFailedIInv ==
  ASSUME IInv, NEW g \in Goroutines, SmartFailed(g)
  PROVE  IInv'
<1>1. TypeOK'
  BY NoneFacts, EntryFacts, IdleFacts DEF IInv, TypeOK, Places, SmartFailed, At,
     Done, Untrack, Listed, Owning
<1>2. Places'
  BY IdleFacts DEF IInv, TypeOK, Places, Exclusive, SmartFailed, At, Done,
     Untrack, Listed, Owning
<1>3. Exclusive'
  BY IdleFacts DEF IInv, Exclusive, SmartFailed, Done, Listed, Owning
<1>4. Registry'
  BY NoneFacts, EntryFacts, IdleFacts DEF IInv, TypeOK, Places, Exclusive,
     Registry, RegistryResolves, Phases, Ops, SmartFailed, At, Done, Untrack,
     Listed, Owning
<1>5. Connected'
  BY EntryFacts DEF IInv, Places, Connected, SmartFailed, At, Untrack
<1>6. Accounted'
  BY DEF IInv, TypeOK, Accounted, Tracked, SmartFailed, Done, Untrack
<1>7. Phases'
  BY DEF Phases, SmartFailed, At
<1> QED BY <1>1, <1>2, <1>3, <1>4, <1>5, <1>6, <1>7 DEF IInv

\* The subtransport's handle is nobody else's.
LEMMA FreeRemoteIInv ==
  ASSUME IInv, NEW r \in Remotes, FreeRemote(r)
  PROVE  IInv'
<1>1. TypeOK'
  BY DEF IInv, TypeOK, FreeRemote, FreeSubtransport
<1>2. Places'
  BY EntryFacts DEF IInv, Places, Connected, FreeRemote, InUse, FreeSubtransport
<1>3. Exclusive'
  BY DEF IInv, Exclusive, FreeRemote
<1>4. Registry'
  <2>1. \A k \in Handles : handles'[k] # handles[k] =>
          subtransport[r] # None /\ k = subtransport[r] /\ handles[k] = Subtransport(r)
    BY DEF IInv, Connected, FreeRemote, FreeSubtransport
  <2>2. RegistryResolves'
    BY <2>1, EntryFacts DEF IInv, TypeOK, Registry, RegistryResolves, FreeRemote
  <2> QED BY <2>2 DEF IInv, Registry, FreeRemote
<1>5. Connected'
  BY EntryFacts DEF IInv, TypeOK, Connected, FreeRemote, FreeSubtransport
<1>6. Accounted'
  BY DEF IInv, TypeOK, Accounted, Tracked, FreeRemote, FreeSubtransport
<1>7. Phases'
  BY DEF Phases, FreeRemote
<1> QED BY <1>1, <1>2, <1>3, <1>4, <1>5, <1>6, <1>7 DEF IInv

\* Nobody is at work when Shutdown begins.
LEMMA ShutdownIInv ==
  ASSUME IInv, Shutdown
  PROVE  IInv'
<1>1. TypeOK'
  BY DEF IInv, TypeOK, Shutdown
<1>2. Places'
  BY DEF IInv, Places, Shutdown
<1>3. Exclusive'
  BY DEF IInv, Exclusive, Shutdown
<1>4. Registry'
  BY NoneFacts, EntryFacts, IdleFacts DEF IInv, TypeOK, Places, Exclusive,
     Registry, RegistryResolves, Phases, Ops, Shutdown, Shutting, Listed, Owning
<1>5. Connected'
  BY DEF IInv, Connected, Shutdown, Shutting
<1>6. Accounted'
  BY DEF IInv, Accounted, Tracked, Shutdown
<1>7. Phases'
  BY DEF Phases, Shutdown
<1> QED BY <1>1, <1>2, <1>3, <1>4, <1>5, <1>6, <1>7 DEF IInv

\* What the map has is what libgit2 has.
LEMMA UnregisterManagedIInv ==
  ASSUME IInv, NEW p \in Protocols, UnregisterManaged(p)
  PROVE  IInv'
<1>1. TypeOK'
  BY DEF IInv, TypeOK, UnregisterManaged, Untrack
<1>2. Places'
  BY IdleFacts DEF IInv, Places, Phases, UnregisterManaged, Shutting
<1>3. Exclusive'
  BY NoneFacts DEF IInv, TypeOK, Places, Exclusive, UnregisterManaged
<1>4. Registry'
  BY NoneFacts, EntryFacts, IdleFacts DEF IInv, TypeOK, Places, Exclusive,
     Registry, RegistryResolves, Phases, Ops, UnregisterManaged, Untrack,
     Shutting, Listed, Owning
<1>5. Connected'
  <2>1. \A k \in Handles : handles'[k] # handles[k] => handles[k] = Transport(p)
    BY DEF IInv, TypeOK, Registry, RegistryResolves, UnregisterManaged, Untrack
  <2>2. UNCHANGED <<remotes, subtransport, phase>>
    BY DEF UnregisterManaged
  <2> QED BY <2>1, <2>2, EntryFacts DEF IInv, TypeOK, Connected
<1>6. Accounted'
  BY DEF IInv, TypeOK, Registry, Accounted, Tracked, UnregisterManaged, Untrack
<1>7. Phases'
  BY DEF IInv, Phases, UnregisterManaged
<1> QED BY <1>1, <1>2, <1>3, <1>4, <1>5, <1>6, <1>7 DEF IInv

\* With the map libgit2's list is empty.
LEMMA UnregisteredAllIInv ==
  ASSUME IInv, UnregisteredAll
  PROVE  IInv'
<1>1. TypeOK'
  BY DEF IInv, TypeOK, UnregisteredAll
<1>2. Places'
  BY DEF IInv, Places, UnregisteredAll
<1>3. Exclusive'
  BY DEF IInv, Exclusive, UnregisteredAll
<1>4. Registry'
  BY NoneFacts, EntryFacts, IdleFacts DEF IInv, TypeOK, Places, Exclusive,
     Registry, RegistryResolves, Phases, Ops, UnregisteredAll, Shutting, Listed,
     Owning
<1>5. Connected'
  BY DEF IInv, Connected, UnregisteredAll, Shutting
<1>6. Accounted'
  BY DEF IInv, Accounted, Tracked, UnregisteredAll
<1>7. Phases'
  BY DEF IInv, Phases, UnregisteredAll, Shutting
<1> QED BY <1>1, <1>2, <1>3, <1>4, <1>5, <1>6, <1>7 DEF IInv

\* All handles go, and libgit2 has none of them.
LEMMA ClearHandlesIInv ==
  ASSUME IInv, ClearHandles
  PROVE  IInv'
<1>1. TypeOK'
  BY DEF IInv, TypeOK, ClearHandles
<1>2. Places'
  BY IdleFacts DEF IInv, Places, Phases, ClearHandles, Shutting
<1>3. Exclusive'
  BY DEF IInv, Exclusive, ClearHandles
<1>4. Registry'
  BY NoneFacts, EntryFacts, IdleFacts DEF IInv, TypeOK, Places, Exclusive,
     Registry, RegistryResolves, Phases, Ops, ClearHandles, Shutting, Listed,
     Owning
<1>5. Connected'
  BY DEF IInv, Connected, ClearHandles
<1>6. Accounted'
  BY DEF Accounted, Tracked, ClearHandles
<1>7. Phases'
  BY DEF IInv, Phases, Tracked, ClearHandles, Shutting
<1> QED BY <1>1, <1>2, <1>3, <1>4, <1>5, <1>6, <1>7 DEF IInv

\* A remote goes, or Shutdown panics.
LEMMA ClearRemoteIInv ==
  ASSUME IInv, NEW r \in Remotes, ClearRemote(r)
  PROVE  IInv'
<1>1. TypeOK'
  BY DEF IInv, TypeOK, ClearRemote, FreeSubtransport
<1>2. Places'
  BY IdleFacts DEF IInv, Places, Phases, ClearRemote, Shutting
<1>3. Exclusive'
  BY DEF IInv, Exclusive, ClearRemote
<1>4. Registry'
  BY NoneFacts, EntryFacts, IdleFacts DEF IInv, TypeOK, Places, Exclusive,
     Registry, RegistryResolves, Phases, Ops, ClearRemote, Shutting,
     FreeSubtransport, Listed, Owning
<1>5. Connected'
  BY DEF IInv, TypeOK, Connected, ClearRemote, Shutting, FreeSubtransport
<1>6. Accounted'
  BY DEF IInv, TypeOK, Accounted, Tracked, ClearRemote, FreeSubtransport
<1>7. Phases'
  BY DEF IInv, TypeOK, Phases, Tracked, ClearRemote, FreeSubtransport
<1> QED BY <1>1, <1>2, <1>3, <1>4, <1>5, <1>6, <1>7 DEF IInv

\* The library starts with nothing.
LEMMA LibraryRestartsIInv ==
  ASSUME IInv, LibraryRestarts
  PROVE  IInv'
<1>1. TypeOK'
  BY DEF IInv, TypeOK, LibraryRestarts
<1>2. Places'
  BY IdleFacts DEF IInv, Places, Phases, LibraryRestarts, Shutting
<1>3. Exclusive'
  BY DEF IInv, Places, Exclusive, LibraryRestarts
<1>4. Registry'
  BY NoneFacts, EntryFacts, IdleFacts DEF IInv, TypeOK, Places, Exclusive,
     Registry, RegistryResolves, Phases, Ops, LibraryRestarts, Shutting, Listed,
     Owning
<1>5. Connected'
  BY DEF IInv, Connected, LibraryRestarts
<1>6. Accounted'
  BY DEF IInv, Accounted, Phases, Tracked, LibraryRestarts, Shutting
<1>7. Phases'
  BY DEF IInv, Phases, LibraryRestarts, Shutting
<1> QED BY <1>1, <1>2, <1>3, <1>4, <1>5, <1>6, <1>7 DEF IInv

\* The library registers a transport of its own.
LEMMA RegisterManagedIInv ==
  ASSUME IInv, NEW p \in Protocols, NEW h \in Handles, RegisterManaged(p, h)
  PROVE  IInv'
<1>1. TypeOK'
  BY NoneFacts DEF IInv, TypeOK, RegisterManaged
<1>2. Places'
  BY NoneFacts, IdleFacts DEF IInv, TypeOK, Places, RegisterManaged
<1>3. Exclusive'
  BY NoneFacts, IdleFacts DEF IInv, TypeOK, Places, Exclusive, Registry,
     RegistryResolves, RegisterManaged
<1>4. Registry'
  BY NoneFacts, IdleFacts DEF IInv, TypeOK, Places, Exclusive, Registry,
     RegistryResolves, RegisterManaged
<1>5. Connected'
  BY NoneFacts DEF IInv, Connected, RegisterManaged
<1>6. Accounted'
  BY NoneFacts DEF IInv, TypeOK, Accounted, Tracked, RegisterManaged
<1>7. Phases'
  BY DEF IInv, Phases, RegisterManaged, Shutting
<1> QED BY <1>1, <1>2, <1>3, <1>4, <1>5, <1>6, <1>7 DEF IInv

\* The library cannot register it, and the program ends.
LEMMA RegisterManagedFailsIInv ==
  ASSUME IInv, NEW p \in Protocols, RegisterManagedFails(p)
  PROVE  IInv'
<1>1. TypeOK'
  BY DEF IInv, TypeOK, RegisterManagedFails
<1>2. Places'
  BY DEF IInv, Places, RegisterManagedFails
<1>3. Exclusive'
  BY DEF IInv, Exclusive, RegisterManagedFails
<1>4. Registry'
  BY DEF IInv, Registry, RegistryResolves, RegisterManagedFails, Listed, Owning
<1>5. Connected'
  BY DEF IInv, Connected, RegisterManagedFails, Shutting
<1>6. Accounted'
  BY DEF IInv, Accounted, Tracked, RegisterManagedFails
<1>7. Phases'
  BY DEF IInv, Phases, RegisterManagedFails, Shutting
<1> QED BY <1>1, <1>2, <1>3, <1>4, <1>5, <1>6, <1>7 DEF IInv

\* Operations may begin.
LEMMA RunningIInv ==
  ASSUME IInv, Running
  PROVE  IInv'
<1>1. TypeOK'
  BY DEF IInv, TypeOK, Running
<1>2. Places'
  BY DEF IInv, Places, Running
<1>3. Exclusive'
  BY DEF IInv, Exclusive, Running
<1>4. Registry'
  BY NoneFacts, EntryFacts, IdleFacts DEF IInv, TypeOK, Places, Exclusive,
     Registry, RegistryResolves, Phases, Ops, Running, Shutting, Listed, Owning
<1>5. Connected'
  BY DEF IInv, Connected, Running, Shutting
<1>6. Accounted'
  BY DEF IInv, Accounted, Tracked, Running
<1>7. Phases'
  BY DEF Phases, Running
<1> QED BY <1>1, <1>2, <1>3, <1>4, <1>5, <1>6, <1>7 DEF IInv

-----------------------------------------------------------------------------
\* Nothing is tracked and nobody is at work before the library's init.
LEMMA InitIInv == Init => IInv
<1> SUFFICES ASSUME Init PROVE IInv
  OBVIOUS
<1>1. TypeOK
  BY IdleFacts DEF Init, TypeOK
<1>2. \A g \in Goroutines : op[g] = Idle
  BY DEF Init
<1>3. Tracked = {}
  BY DEF Init, Tracked
<1>4. Places /\ Exclusive
  BY IdleFacts DEF Init, Places, Exclusive, Listed, Owning
<1>5. Registry /\ Connected /\ Accounted /\ Phases
  BY <1>3 DEF Init, Registry, RegistryResolves, Connected, Accounted, Phases
<1> QED BY <1>1, <1>4, <1>5 DEF IInv

\* Every step preserves the invariant.
LEMMA NextIInv == IInv /\ [Next]_vars => IInv'
<1> SUFFICES ASSUME IInv, [Next]_vars PROVE IInv'
  OBVIOUS
<1>1. CASE UNCHANGED vars
  BY <1>1 DEF vars, IInv, TypeOK, Places, Exclusive, Registry, RegistryResolves,
     Connected, Accounted, Phases, Tracked
<1>2. ASSUME NEW g \in Goroutines,
             \/ \E p \in Protocols : New(g, p)
             \/ \E r \in Remotes, p \in Protocols : Connect(g, r, p)
             \/ \E h \in Handles : Free(g, h) \/ Track(g, h) \/ SmartTransport(g, h)
             \/ Unregister(g) \/ UntrackHandle(g) \/ Register(g)
             \/ RegisterFails(g) \/ Undo(g)
             \/ SmartCreated(g) \/ SmartFailed(g)
      PROVE  IInv'
  BY <1>2, NewIInv, ConnectIInv, FreeIInv, TrackIInv, SmartTransportIInv,
     UnregisterIInv, UntrackHandleIInv, RegisterIInv, RegisterFailsIInv,
     UndoIInv, SmartCreatedIInv, SmartFailedIInv
<1>3. ASSUME NEW r \in Remotes, CreateRemote(r) \/ FreeRemote(r) \/ ClearRemote(r)
      PROVE  IInv'
  BY <1>3, CreateRemoteIInv, FreeRemoteIInv, ClearRemoteIInv
<1>4. ASSUME NEW p \in Protocols,
             \/ UnregisterManaged(p) \/ RegisterManagedFails(p)
             \/ \E h \in Handles : RegisterManaged(p, h)
      PROVE  IInv'
  BY <1>4, UnregisterManagedIInv, RegisterManagedFailsIInv, RegisterManagedIInv
<1>5. CASE Shutdown \/ UnregisteredAll \/ ClearHandles \/ LibraryRestarts \/ Running
  BY <1>5, ShutdownIInv, UnregisteredAllIInv, ClearHandlesIInv,
     LibraryRestartsIInv, RunningIInv
<1> QED BY <1>1, <1>2, <1>3, <1>4, <1>5 DEF Next

\* The inductive invariant holds in every state of the program, through any
\* number of calls of Shutdown and ReInit.
THEOREM Invariance == Spec => []IInv
BY InitIInv, NextIInv, PTL DEF Spec

\* The variables keep their types.
THEOREM TypeCorrect == Spec => []TypeOK
<1>1. IInv => TypeOK
  BY DEF IInv
<1> QED BY <1>1, Invariance, PTL

\* libgit2's list has tracked handles of transports only.
THEOREM ListResolves == Spec => []RegistryResolves
<1>1. IInv => RegistryResolves
  BY DEF IInv, Registry
<1> QED BY <1>1, Invariance, PTL

\* What user code registered stays registered until it frees it.
THEOREM TransportIsKept == Spec => []UserKeepsTransport
<1>1. ASSUME IInv PROVE UserKeepsTransport
  <2> SUFFICES ASSUME NEW h \in user
               PROVE  \E p \in Protocols : cTransports[p] = h /\ handles[h] = Transport(p)
    BY DEF UserKeepsTransport
  <2>1. PICK p \in Protocols : cTransports[p] = h
    BY <1>1 DEF IInv, Registry
  <2>2. h # None
    BY <1>1, NoneFacts DEF IInv, TypeOK
  <2> QED BY <1>1, <2>2 DEF IInv, Registry, RegistryResolves
<1> QED BY <1>1, Invariance, PTL

\* Every tracked handle has an owner that will untrack it.
THEOREM NoHandleLeaks == Spec => []NothingLeaks
<1>1. IInv => NothingLeaks
  BY DEF IInv, Accounted, NothingLeaks
<1> QED BY <1>1, Invariance, PTL
=====
