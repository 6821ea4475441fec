-------------------------- MODULE HandleListProofs --------------------------
(***************************************************************************)
(* The safety of HandleList for any number of goroutines, addresses and    *)
(* values.                                                                 *)
(*                                                                         *)
(* OwnedResolves is not inductive by itself.  Three things have to be      *)
(* known besides it: what each goroutine's place in its call says about    *)
(* its arguments (Places), who holds the lock (Locked), and that an        *)
(* address is in one place at a time (Addresses): in the table, or outside *)
(* it in the hands of the one goroutine that Holds it.                     *)
(***************************************************************************)
EXTENDS HandleList, TLAPS

Places == \A g \in Goroutines :
  /\ pc[g] = "idle" <=> op[g] = "none"
  /\ pc[g] \in {"rlock", "read", "runlock"} <=> op[g] = "Get"
  /\ op[g] = "Track" => pc[g] # "free" /\ val[g] \in Objects
  /\ op[g] = "Clear" => pc[g] \in {"lock", "drain", "map", "free"}
  /\ op[g] \in {"Track", "Untrack", "Get"} \/ pc[g] = "free" => arg[g] \in Handles

Locked == \A g \in Goroutines :
  /\ writer = g <=> pc[g] \in {"drain", "map", "free", "unlock"}
  /\ g \in readers <=> pc[g] \in {"read", "runlock"}
  /\ pc[g] \in {"map", "free", "unlock"} => readers = {}
  /\ op[g] = "Clear" =>
       owned = << >> /\ \A other \in Goroutines \ {g} : pc[other] = "idle"

\* g has an address that is allocated and not in the table.
Holds(g) == \/ pc[g] = "free"
            \/ op[g] = "Track" /\ pc[g] \in {"lock", "drain", "map"}

\* g has an address that is in the table and has no owner: it was returned
\* by nobody yet, or it was given up.
Carries(g) == \/ op[g] = "Track" /\ pc[g] = "unlock"
              \/ op[g] = "Untrack" /\ pc[g] \in {"lock", "drain", "map"}

Addresses ==
  /\ DOMAIN handles \subseteq heap
  /\ \A g \in Goroutines : Holds(g) => arg[g] \in heap \ DOMAIN handles
  /\ \A g \in Goroutines : Carries(g) => arg[g] \in DOMAIN handles \ DOMAIN owned
  /\ \A g1, g2 \in Goroutines :
       /\ g1 # g2
       /\ (Holds(g1) /\ Holds(g2)) \/ (Carries(g1) /\ Carries(g2))
       => arg[g1] # arg[g2]

Stored == \A g \in Goroutines :
  op[g] = "Track" /\ pc[g] = "unlock" => handles[arg[g]] = val[g]

Resolves == \A g \in Goroutines :
  op[g] = "Get" =>
    arg[g] \in DOMAIN owned /\ (pc[g] = "runlock" => val[g] = owned[arg[g]])

Accounted ==
  /\ \A h \in heap :
       h \in DOMAIN handles \/ \E g \in Goroutines : Holds(g) /\ arg[g] = h
  /\ \A h \in DOMAIN handles :
       \/ h \in DOMAIN owned
       \/ \E g \in Goroutines : op[g] = "Clear" \/ (Carries(g) /\ arg[g] = h)

IInv == TypeOK /\ Places /\ Locked /\ Addresses /\ Stored
          /\ Resolves /\ OwnedResolves /\ Accounted

-----------------------------------------------------------------------------
(***************************************************************************)
(* Facts about tables.                                                     *)
(***************************************************************************)

\* No entries, no addresses.
LEMMA EmptyTable == IsTable(<< >>) /\ DOMAIN << >> = {}
BY DEF IsTable

\* A table with an entry less is a table.
LEMMA DeleteTable ==
  ASSUME NEW f, IsTable(f), NEW h
  PROVE  /\ IsTable(Delete(f, h))
         /\ DOMAIN Delete(f, h) = DOMAIN f \ {h}
         /\ \A k \in DOMAIN f \ {h} : Delete(f, h)[k] = f[k]
BY DEF IsTable, Delete

-----------------------------------------------------------------------------
\* The list starts with nothing allocated and nobody inside it.
LEMMA InitIInv == Init => IInv
BY NoneAssumption, EmptyTable DEF Init, IInv, TypeOK, IsTable, PCs, Ops, Places, Locked,
     Addresses, Stored, Resolves, OwnedResolves, Accounted, Holds, Carries

\* Track takes an address that nobody holds.
LEMMA TrackMallocIInv ==
  ASSUME IInv, NEW g \in Goroutines, NEW o \in Objects, TrackMalloc(g, o)
  PROVE  IInv'
<1>1. TypeOK'
  BY DEF IInv, TrackMalloc, Call, Clearing, TypeOK, PCs, Ops, Places, Locked
<1>2. Places'
  BY DEF IInv, TrackMalloc, Call, Clearing, TypeOK, Places
<1>3. Locked'
  BY DEF IInv, TrackMalloc, Call, Clearing, TypeOK, Places, Locked
<1>4. Addresses'
  BY DEF IInv, TrackMalloc, Call, Clearing, TypeOK, Places, Locked, Addresses, Holds,
     Carries
<1>5. Stored'
  BY DEF IInv, TrackMalloc, Call, Clearing, TypeOK, Places, Locked, Addresses, Stored,
     Holds, Carries
<1>6. Resolves'
  BY DEF IInv, TrackMalloc, Call, Clearing, TypeOK, Places, Locked, Addresses,
     Resolves, OwnedResolves, Holds, Carries, InUse
<1>7. OwnedResolves'
  BY DEF IInv, TrackMalloc, Call, Clearing, TypeOK, Places, Locked, Addresses,
     OwnedResolves, Holds, Carries, Stored
<1>8. Accounted'
  BY DEF IInv, TrackMalloc, Call, Clearing, TypeOK, Places, Locked, Addresses,
     Accounted, Holds, Carries
<1> QED BY <1>1, <1>2, <1>3, <1>4, <1>5, <1>6, <1>7, <1>8
  DEF IInv

\* An owner starts to give its handle back.
LEMMA UntrackCallIInv ==
  ASSUME IInv, NEW g \in Goroutines, NEW h \in Handles, UntrackCall(g, h)
  PROVE  IInv'
<1>a. /\ IsTable(owned')
      /\ DOMAIN owned' = DOMAIN owned \ {h}
      /\ \A k \in DOMAIN owned' : owned'[k] = owned[k]
      /\ h \in DOMAIN owned
  BY DeleteTable DEF IInv, TypeOK, UntrackCall
<1>1. TypeOK'
  BY <1>a DEF IInv, UntrackCall, Call, Clearing, TypeOK, PCs, Ops, Places, Locked
<1>2. Places'
  BY <1>a DEF IInv, UntrackCall, Call, Clearing, TypeOK, Places
<1>3. Locked'
  BY <1>a DEF IInv, UntrackCall, Call, Clearing, TypeOK, Places, Locked
<1>4. Addresses'
  <2>1. DOMAIN handles' \subseteq heap'
    BY DEF IInv, Addresses, UntrackCall
  <2>2. ASSUME NEW k \in Goroutines, Holds(k)'
        PROVE  arg'[k] \in heap' \ DOMAIN handles'
    BY <2>2, <1>a DEF IInv, UntrackCall, Call, TypeOK, Addresses, Holds
  <2>3. ASSUME NEW k \in Goroutines, Carries(k)'
        PROVE  /\ arg'[k] \in DOMAIN handles' \ DOMAIN owned'
               /\ k # g => Carries(k) /\ arg'[k] = arg[k] /\ arg[k] # h
    BY <2>3, <1>a DEF IInv, UntrackCall, Call, TypeOK, Addresses, OwnedResolves, Carries
  <2>4. ASSUME NEW g1 \in Goroutines, NEW g2 \in Goroutines, g1 # g2,
               (Holds(g1) /\ Holds(g2))' \/ (Carries(g1) /\ Carries(g2))'
        PROVE  arg'[g1] # arg'[g2]
    <3>1. CASE (Holds(g1) /\ Holds(g2))'
      BY <2>2, <2>4, <3>1 DEF IInv, UntrackCall, Call, TypeOK, Addresses, Holds
    <3>2. CASE (Carries(g1) /\ Carries(g2))'
      BY <2>3, <2>4, <3>2 DEF IInv, UntrackCall, Call, TypeOK, Addresses, Holds
    <3> QED BY <2>4, <3>1, <3>2
  <2> QED BY <2>1, <2>2, <2>3, <2>4 DEF Addresses
<1>5. Stored'
  BY <1>a DEF IInv, UntrackCall, Call, Clearing, TypeOK, Places, Locked, Addresses,
     Stored, Holds, Carries
<1>6. Resolves'
  BY <1>a DEF IInv, UntrackCall, Call, Clearing, TypeOK, Places, Locked, Addresses,
     Resolves, OwnedResolves, Holds, Carries, InUse
<1>7. OwnedResolves'
  BY <1>a DEF IInv, UntrackCall, Call, Clearing, TypeOK, Places, Locked, Addresses,
     OwnedResolves, Holds, Carries, Stored
<1>8. Accounted'
  BY <1>a DEF IInv, UntrackCall, Call, Clearing, TypeOK, Places, Locked, Addresses,
     Accounted, Holds, Carries
<1> QED BY <1>1, <1>2, <1>3, <1>4, <1>5, <1>6, <1>7, <1>8
  DEF IInv

\* A handle that is owned is looked up.
LEMMA GetCallIInv ==
  ASSUME IInv, NEW g \in Goroutines, NEW h \in Handles, GetCall(g, h)
  PROVE  IInv'
<1>1. TypeOK'
  BY DEF IInv, GetCall, Call, Clearing, TypeOK, PCs, Ops, Places, Locked
<1>2. Places'
  BY DEF IInv, GetCall, Call, Clearing, TypeOK, Places
<1>3. Locked'
  BY DEF IInv, GetCall, Call, Clearing, TypeOK, Places, Locked
<1>4. Addresses'
  BY DEF IInv, GetCall, Call, Clearing, TypeOK, Places, Locked, Addresses, Holds,
     Carries
<1>5. Stored'
  BY DEF IInv, GetCall, Call, Clearing, TypeOK, Places, Locked, Addresses, Stored,
     Holds, Carries
<1>6. Resolves'
  BY DEF IInv, GetCall, Call, Clearing, TypeOK, Places, Locked, Addresses, Resolves,
     OwnedResolves, Holds, Carries, InUse
<1>7. OwnedResolves'
  BY DEF IInv, GetCall, Call, Clearing, TypeOK, Places, Locked, Addresses,
     OwnedResolves, Holds, Carries, Stored
<1>8. Accounted'
  BY DEF IInv, GetCall, Call, Clearing, TypeOK, Places, Locked, Addresses, Accounted,
     Holds, Carries
<1> QED BY <1>1, <1>2, <1>3, <1>4, <1>5, <1>6, <1>7, <1>8
  DEF IInv

\* Shutdown clears the list.
LEMMA ClearCallIInv ==
  ASSUME IInv, NEW g \in Goroutines, ClearCall(g)
  PROVE  IInv'
<1>1. TypeOK'
  BY EmptyTable DEF IInv, ClearCall, Call, Clearing, TypeOK, PCs, Ops, Places, Locked
<1>2. Places'
  BY EmptyTable DEF IInv, ClearCall, Call, Clearing, TypeOK, Places
<1>3. Locked'
  BY EmptyTable DEF IInv, ClearCall, Call, Clearing, TypeOK, Places, Locked
<1>4. Addresses'
  BY EmptyTable DEF IInv, ClearCall, Call, Clearing, TypeOK, Places, Locked,
     Addresses, Holds, Carries
<1>5. Stored'
  BY EmptyTable DEF IInv, ClearCall, Call, Clearing, TypeOK, Places, Locked,
     Addresses, Stored, Holds, Carries
<1>6. Resolves'
  BY EmptyTable DEF IInv, ClearCall, Call, Clearing, TypeOK, Places, Locked,
     Addresses, Resolves, OwnedResolves, Holds, Carries, InUse
<1>7. OwnedResolves'
  BY EmptyTable DEF IInv, ClearCall, Call, Clearing, TypeOK, Places, Locked,
     Addresses, OwnedResolves, Holds, Carries, Stored
<1>8. Accounted'
  BY EmptyTable DEF IInv, ClearCall, Call, Clearing, TypeOK, Places, Locked,
     Addresses, Accounted, Holds, Carries
<1> QED BY <1>1, <1>2, <1>3, <1>4, <1>5, <1>6, <1>7, <1>8
  DEF IInv

\* A writer comes first.
LEMMA LockIInv ==
  ASSUME IInv, NEW g \in Goroutines, Lock(g)
  PROVE  IInv'
<1>1. TypeOK'
  BY DEF IInv, Lock, Goto, TypeOK, PCs, Ops, Places, Locked
<1>2. Places'
  BY DEF IInv, Lock, Goto, TypeOK, Places
<1>3. Locked'
  BY NoneAssumption DEF IInv, Lock, Goto, TypeOK, Places, Locked
<1>4. Addresses'
  BY DEF IInv, Lock, Goto, TypeOK, Places, Locked, Addresses, Holds, Carries
<1>5. Stored'
  BY DEF IInv, Lock, Goto, TypeOK, Places, Locked, Addresses, Stored, Holds, Carries
<1>6. Resolves'
  BY DEF IInv, Lock, Goto, TypeOK, Places, Locked, Addresses, Resolves, OwnedResolves,
     Holds, Carries, InUse
<1>7. OwnedResolves'
  BY DEF IInv, Lock, Goto, TypeOK, Places, Locked, Addresses, OwnedResolves, Holds,
     Carries, Stored
<1>8. Accounted'
  BY DEF IInv, Lock, Goto, TypeOK, Places, Locked, Addresses, Accounted, Holds, Carries
<1> QED BY <1>1, <1>2, <1>3, <1>4, <1>5, <1>6, <1>7, <1>8
  DEF IInv

\* A reader comes in.
LEMMA RLockIInv ==
  ASSUME IInv, NEW g \in Goroutines, RLock(g)
  PROVE  IInv'
<1>1. TypeOK'
  BY DEF IInv, RLock, Goto, TypeOK, PCs, Ops, Places, Locked
<1>2. Places'
  BY DEF IInv, RLock, Goto, TypeOK, Places
<1>3. Locked'
  BY NoneAssumption DEF IInv, RLock, Goto, TypeOK, Places, Locked
<1>4. Addresses'
  BY DEF IInv, RLock, Goto, TypeOK, Places, Locked, Addresses, Holds, Carries
<1>5. Stored'
  BY DEF IInv, RLock, Goto, TypeOK, Places, Locked, Addresses, Stored, Holds, Carries
<1>6. Resolves'
  BY DEF IInv, RLock, Goto, TypeOK, Places, Locked, Addresses, Resolves,
     OwnedResolves, Holds, Carries, InUse
<1>7. OwnedResolves'
  BY DEF IInv, RLock, Goto, TypeOK, Places, Locked, Addresses, OwnedResolves, Holds,
     Carries, Stored
<1>8. Accounted'
  BY DEF IInv, RLock, Goto, TypeOK, Places, Locked, Addresses, Accounted, Holds, Carries
<1> QED BY <1>1, <1>2, <1>3, <1>4, <1>5, <1>6, <1>7, <1>8
  DEF IInv

\* The readers have left.
LEMMA DrainIInv ==
  ASSUME IInv, NEW g \in Goroutines, Drain(g)
  PROVE  IInv'
<1>1. TypeOK'
  BY DEF IInv, Drain, Goto, TypeOK, PCs, Ops, Places, Locked
<1>2. Places'
  BY DEF IInv, Drain, Goto, TypeOK, Places
<1>3. Locked'
  BY DEF IInv, Drain, Goto, TypeOK, Places, Locked
<1>4. Addresses'
  BY DEF IInv, Drain, Goto, TypeOK, Places, Locked, Addresses, Holds, Carries
<1>5. Stored'
  BY DEF IInv, Drain, Goto, TypeOK, Places, Locked, Addresses, Stored, Holds, Carries
<1>6. Resolves'
  BY DEF IInv, Drain, Goto, TypeOK, Places, Locked, Addresses, Resolves,
     OwnedResolves, Holds, Carries, InUse
<1>7. OwnedResolves'
  BY DEF IInv, Drain, Goto, TypeOK, Places, Locked, Addresses, OwnedResolves, Holds,
     Carries, Stored
<1>8. Accounted'
  BY DEF IInv, Drain, Goto, TypeOK, Places, Locked, Addresses, Accounted, Holds, Carries
<1> QED BY <1>1, <1>2, <1>3, <1>4, <1>5, <1>6, <1>7, <1>8
  DEF IInv

\* The new entry goes in.
LEMMA TrackStoreIInv ==
  ASSUME IInv, NEW g \in Goroutines, TrackStore(g)
  PROVE  IInv'
<1>a. /\ IsTable(handles')
      /\ DOMAIN handles' = DOMAIN handles \cup {arg[g]}
      /\ handles'[arg[g]] = val[g]
      /\ \A k \in DOMAIN handles \ {arg[g]} : handles'[k] = handles[k]
  <2>1. arg[g] \in Handles /\ val[g] \in Objects
    BY DEF IInv, Places, TrackStore
  <2>2. IsTable(handles) /\ handles' = Store(handles, arg[g], val[g])
    BY DEF IInv, TypeOK, TrackStore
  <2> QED BY <2>1, <2>2 DEF IsTable, Store
<1>1. TypeOK'
  BY <1>a DEF IInv, TrackStore, Goto, TypeOK, PCs, Ops, Places, Locked
<1>2. Places'
  BY <1>a DEF IInv, TrackStore, Goto, TypeOK, Places
<1>3. Locked'
  BY <1>a DEF IInv, TrackStore, Goto, TypeOK, Places, Locked
<1>4. Addresses'
  <2>1. DOMAIN handles' \subseteq heap'
    BY <1>a DEF IInv, TrackStore, Goto, Addresses, Holds
  <2>2. ASSUME NEW k \in Goroutines, Holds(k)'
        PROVE  arg'[k] \in heap' \ DOMAIN handles' /\ Holds(k)
    BY <2>2, <1>a DEF IInv, TrackStore, Goto, TypeOK, Addresses, Holds
  <2>3. ASSUME NEW k \in Goroutines, Carries(k)'
        PROVE  /\ arg'[k] \in DOMAIN handles' \ DOMAIN owned'
               /\ k # g => Carries(k) /\ arg[k] \in DOMAIN handles
    BY <2>3, <1>a DEF IInv, TrackStore, Goto, TypeOK, Addresses, OwnedResolves, Holds,
       Carries
  <2>4. ASSUME NEW g1 \in Goroutines, NEW g2 \in Goroutines, g1 # g2,
               (Holds(g1) /\ Holds(g2))' \/ (Carries(g1) /\ Carries(g2))'
        PROVE  arg'[g1] # arg'[g2]
    <3>1. CASE (Holds(g1) /\ Holds(g2))'
      BY <2>2, <2>4, <3>1 DEF IInv, TrackStore, Goto, TypeOK, Addresses, Holds
    <3>2. CASE (Carries(g1) /\ Carries(g2))'
      BY <2>3, <2>4, <3>2 DEF IInv, TrackStore, Goto, TypeOK, Addresses, Holds
    <3> QED BY <2>4, <3>1, <3>2
  <2> QED BY <2>1, <2>2, <2>3, <2>4 DEF Addresses
<1>5. Stored'
  BY <1>a DEF IInv, TrackStore, Goto, TypeOK, Places, Locked, Addresses, Stored,
     Holds, Carries
<1>6. Resolves'
  BY <1>a DEF IInv, TrackStore, Goto, TypeOK, Places, Locked, Addresses, Resolves,
     OwnedResolves, Holds, Carries, InUse
<1>7. OwnedResolves'
  BY <1>a DEF IInv, TrackStore, Goto, TypeOK, Places, Locked, Addresses,
     OwnedResolves, Holds, Carries, Stored
<1>8. Accounted'
  BY <1>a DEF IInv, TrackStore, Goto, TypeOK, Places, Locked, Addresses, Accounted,
     Holds, Carries
<1> QED BY <1>1, <1>2, <1>3, <1>4, <1>5, <1>6, <1>7, <1>8
  DEF IInv

\* The caller becomes the owner.
LEMMA TrackReturnIInv ==
  ASSUME IInv, NEW g \in Goroutines, TrackReturn(g)
  PROVE  IInv'
<1>a. /\ IsTable(owned')
      /\ DOMAIN owned' = DOMAIN owned \cup {arg[g]}
      /\ owned'[arg[g]] = val[g]
      /\ \A k \in DOMAIN owned \ {arg[g]} : owned'[k] = owned[k]
  <2>1. arg[g] \in Handles /\ val[g] \in Objects
    BY DEF IInv, Places, TrackReturn
  <2>2. IsTable(owned) /\ owned' = Store(owned, arg[g], val[g])
    BY DEF IInv, TypeOK, TrackReturn
  <2> QED BY <2>1, <2>2 DEF IsTable, Store
<1>1. TypeOK'
  BY <1>a DEF IInv, TrackReturn, Return, TypeOK, PCs, Ops, Places, Locked
<1>2. Places'
  BY <1>a DEF IInv, TrackReturn, Return, TypeOK, Places
<1>3. Locked'
  BY NoneAssumption, <1>a DEF IInv, TrackReturn, Return, TypeOK, Places, Locked
<1>4. Addresses'
  BY <1>a DEF IInv, TrackReturn, Return, TypeOK, Places, Locked, Addresses, Holds,
     Carries
<1>5. Stored'
  BY <1>a DEF IInv, TrackReturn, Return, TypeOK, Places, Locked, Addresses, Stored,
     Holds, Carries
<1>6. Resolves'
  BY <1>a DEF IInv, TrackReturn, Return, TypeOK, Places, Locked, Addresses, Resolves,
     OwnedResolves, Holds, Carries, InUse
<1>7. OwnedResolves'
  BY <1>a DEF IInv, TrackReturn, Return, TypeOK, Places, Locked, Addresses,
     OwnedResolves, Holds, Carries, Stored
<1>8. Accounted'
  BY <1>a DEF IInv, TrackReturn, Return, TypeOK, Places, Locked, Addresses, Accounted,
     Holds, Carries
<1> QED BY <1>1, <1>2, <1>3, <1>4, <1>5, <1>6, <1>7, <1>8
  DEF IInv

\* The entry goes out.
LEMMA UntrackDeleteIInv ==
  ASSUME IInv, NEW g \in Goroutines, UntrackDelete(g)
  PROVE  IInv'
<1>a. /\ IsTable(handles')
      /\ DOMAIN handles' = DOMAIN handles \ {arg[g]}
      /\ \A k \in DOMAIN handles' : handles'[k] = handles[k]
  BY DeleteTable DEF IInv, TypeOK, UntrackDelete
<1>1. TypeOK'
  BY <1>a DEF IInv, UntrackDelete, Goto, TypeOK, PCs, Ops, Places, Locked
<1>2. Places'
  BY <1>a DEF IInv, UntrackDelete, Goto, TypeOK, Places
<1>3. Locked'
  BY <1>a DEF IInv, UntrackDelete, Goto, TypeOK, Places, Locked
<1>4. Addresses'
  BY <1>a DEF IInv, UntrackDelete, Goto, TypeOK, Places, Locked, Addresses, Holds,
     Carries
<1>5. Stored'
  BY <1>a DEF IInv, UntrackDelete, Goto, TypeOK, Places, Locked, Addresses, Stored,
     Holds, Carries
<1>6. Resolves'
  BY <1>a DEF IInv, UntrackDelete, Goto, TypeOK, Places, Locked, Addresses, Resolves,
     OwnedResolves, Holds, Carries, InUse
<1>7. OwnedResolves'
  BY <1>a DEF IInv, UntrackDelete, Goto, TypeOK, Places, Locked, Addresses,
     OwnedResolves, Holds, Carries, Stored
<1>8. Accounted'
  BY <1>a DEF IInv, UntrackDelete, Goto, TypeOK, Places, Locked, Addresses, Accounted,
     Holds, Carries
<1> QED BY <1>1, <1>2, <1>3, <1>4, <1>5, <1>6, <1>7, <1>8
  DEF IInv

\* The address goes back to the heap.
LEMMA UntrackFreeIInv ==
  ASSUME IInv, NEW g \in Goroutines, UntrackFree(g)
  PROVE  IInv'
<1>1. TypeOK'
  BY DEF IInv, UntrackFree, Goto, TypeOK, PCs, Ops, Places, Locked
<1>2. Places'
  BY DEF IInv, UntrackFree, Goto, TypeOK, Places
<1>3. Locked'
  BY DEF IInv, UntrackFree, Goto, TypeOK, Places, Locked
<1>4. Addresses'
  BY DEF IInv, UntrackFree, Goto, TypeOK, Places, Locked, Addresses, Holds, Carries
<1>5. Stored'
  BY DEF IInv, UntrackFree, Goto, TypeOK, Places, Locked, Addresses, Stored, Holds,
     Carries
<1>6. Resolves'
  BY DEF IInv, UntrackFree, Goto, TypeOK, Places, Locked, Addresses, Resolves,
     OwnedResolves, Holds, Carries, InUse
<1>7. OwnedResolves'
  BY DEF IInv, UntrackFree, Goto, TypeOK, Places, Locked, Addresses, OwnedResolves,
     Holds, Carries, Stored
<1>8. Accounted'
  BY DEF IInv, UntrackFree, Goto, TypeOK, Places, Locked, Addresses, Accounted, Holds,
     Carries
<1> QED BY <1>1, <1>2, <1>3, <1>4, <1>5, <1>6, <1>7, <1>8
  DEF IInv

\* Untrack is over.
LEMMA UntrackReturnIInv ==
  ASSUME IInv, NEW g \in Goroutines, UntrackReturn(g)
  PROVE  IInv'
<1>1. TypeOK'
  BY DEF IInv, UntrackReturn, Return, TypeOK, PCs, Ops, Places, Locked
<1>2. Places'
  BY DEF IInv, UntrackReturn, Return, TypeOK, Places
<1>3. Locked'
  BY NoneAssumption DEF IInv, UntrackReturn, Return, TypeOK, Places, Locked
<1>4. Addresses'
  BY DEF IInv, UntrackReturn, Return, TypeOK, Places, Locked, Addresses, Holds, Carries
<1>5. Stored'
  BY DEF IInv, UntrackReturn, Return, TypeOK, Places, Locked, Addresses, Stored,
     Holds, Carries
<1>6. Resolves'
  BY DEF IInv, UntrackReturn, Return, TypeOK, Places, Locked, Addresses, Resolves,
     OwnedResolves, Holds, Carries, InUse
<1>7. OwnedResolves'
  BY DEF IInv, UntrackReturn, Return, TypeOK, Places, Locked, Addresses,
     OwnedResolves, Holds, Carries, Stored
<1>8. Accounted'
  BY DEF IInv, UntrackReturn, Return, TypeOK, Places, Locked, Addresses, Accounted,
     Holds, Carries
<1> QED BY <1>1, <1>2, <1>3, <1>4, <1>5, <1>6, <1>7, <1>8
  DEF IInv

\* Clear takes out one entry.
LEMMA ClearDeleteIInv ==
  ASSUME IInv, NEW g \in Goroutines, ClearDelete(g)
  PROVE  IInv'
<1>b. PICK h \in DOMAIN handles :
        /\ op[g] = "Clear"
        /\ Goto(g, "map", "free")
        /\ handles' = Delete(handles, h)
        /\ arg' = [arg EXCEPT ![g] = h]
        /\ UNCHANGED <<writer, readers, heap, op, val, owned>>
  BY DEF ClearDelete
<1>a. /\ IsTable(handles')
      /\ DOMAIN handles' = DOMAIN handles \ {h}
      /\ \A k \in DOMAIN handles' : handles'[k] = handles[k]
      /\ h \in Handles
  BY <1>b, DeleteTable DEF IInv, TypeOK, IsTable
<1>1. TypeOK'
  BY <1>a, <1>b DEF IInv, Goto, TypeOK, PCs, Ops, Places, Locked
<1>2. Places'
  BY <1>a, <1>b DEF IInv, Goto, TypeOK, Places
<1>3. Locked'
  BY <1>a, <1>b DEF IInv, Goto, TypeOK, Places, Locked
<1>4. Addresses'
  BY <1>a, <1>b DEF IInv, Goto, TypeOK, Places, Locked, Addresses, Holds, Carries
<1>5. Stored'
  BY <1>a, <1>b DEF IInv, Goto, TypeOK, Places, Locked, Addresses, Stored, Holds,
     Carries
<1>6. Resolves'
  BY <1>a, <1>b DEF IInv, Goto, TypeOK, Places, Locked, Addresses, Resolves,
     OwnedResolves, Holds, Carries, InUse
<1>7. OwnedResolves'
  BY <1>a, <1>b DEF IInv, Goto, TypeOK, Places, Locked, Addresses, OwnedResolves,
     Holds, Carries, Stored
<1>8. Accounted'
  BY <1>a, <1>b DEF IInv, Goto, TypeOK, Places, Locked, Addresses, Accounted, Holds,
     Carries
<1> QED BY <1>1, <1>2, <1>3, <1>4, <1>5, <1>6, <1>7, <1>8
  DEF IInv

\* Clear frees its address.
LEMMA ClearFreeIInv ==
  ASSUME IInv, NEW g \in Goroutines, ClearFree(g)
  PROVE  IInv'
<1>1. TypeOK'
  BY DEF IInv, ClearFree, Goto, TypeOK, PCs, Ops, Places, Locked
<1>2. Places'
  BY DEF IInv, ClearFree, Goto, TypeOK, Places
<1>3. Locked'
  BY DEF IInv, ClearFree, Goto, TypeOK, Places, Locked
<1>4. Addresses'
  BY DEF IInv, ClearFree, Goto, TypeOK, Places, Locked, Addresses, Holds, Carries
<1>5. Stored'
  BY DEF IInv, ClearFree, Goto, TypeOK, Places, Locked, Addresses, Stored, Holds,
     Carries
<1>6. Resolves'
  BY DEF IInv, ClearFree, Goto, TypeOK, Places, Locked, Addresses, Resolves,
     OwnedResolves, Holds, Carries, InUse
<1>7. OwnedResolves'
  BY DEF IInv, ClearFree, Goto, TypeOK, Places, Locked, Addresses, OwnedResolves,
     Holds, Carries, Stored
<1>8. Accounted'
  BY DEF IInv, ClearFree, Goto, TypeOK, Places, Locked, Addresses, Accounted, Holds,
     Carries
<1> QED BY <1>1, <1>2, <1>3, <1>4, <1>5, <1>6, <1>7, <1>8
  DEF IInv

\* Clear has emptied the map.
LEMMA ClearReturnIInv ==
  ASSUME IInv, NEW g \in Goroutines, ClearReturn(g)
  PROVE  IInv'
<1>1. TypeOK'
  BY DEF IInv, ClearReturn, Return, TypeOK, PCs, Ops, Places, Locked
<1>2. Places'
  BY DEF IInv, ClearReturn, Return, TypeOK, Places
<1>3. Locked'
  BY NoneAssumption DEF IInv, ClearReturn, Return, TypeOK, Places, Locked
<1>4. Addresses'
  BY DEF IInv, ClearReturn, Return, TypeOK, Places, Locked, Addresses, Holds, Carries
<1>5. Stored'
  BY DEF IInv, ClearReturn, Return, TypeOK, Places, Locked, Addresses, Stored, Holds,
     Carries
<1>6. Resolves'
  BY DEF IInv, ClearReturn, Return, TypeOK, Places, Locked, Addresses, Resolves,
     OwnedResolves, Holds, Carries, InUse
<1>7. OwnedResolves'
  BY DEF IInv, ClearReturn, Return, TypeOK, Places, Locked, Addresses, OwnedResolves,
     Holds, Carries, Stored
<1>8. Accounted'
  BY DEF IInv, ClearReturn, Return, TypeOK, Places, Locked, Addresses, Accounted,
     Holds, Carries
<1> QED BY <1>1, <1>2, <1>3, <1>4, <1>5, <1>6, <1>7, <1>8
  DEF IInv

\* Get reads the map.
LEMMA GetReadIInv ==
  ASSUME IInv, NEW g \in Goroutines, GetRead(g)
  PROVE  IInv'
<1>1. TypeOK'
  BY DEF IInv, GetRead, Goto, IsTable, TypeOK, PCs, Ops, Places, Locked
<1>2. Places'
  BY DEF IInv, GetRead, Goto, TypeOK, Places
<1>3. Locked'
  BY DEF IInv, GetRead, Goto, TypeOK, Places, Locked
<1>4. Addresses'
  BY DEF IInv, GetRead, Goto, TypeOK, Places, Locked, Addresses, Holds, Carries
<1>5. Stored'
  BY DEF IInv, GetRead, Goto, TypeOK, Places, Locked, Addresses, Stored, Holds, Carries
<1>6. Resolves'
  BY DEF IInv, GetRead, Goto, TypeOK, Places, Locked, Addresses, Resolves,
     OwnedResolves, Holds, Carries, InUse
<1>7. OwnedResolves'
  BY DEF IInv, GetRead, Goto, TypeOK, Places, Locked, Addresses, OwnedResolves, Holds,
     Carries, Stored
<1>8. Accounted'
  BY DEF IInv, GetRead, Goto, TypeOK, Places, Locked, Addresses, Accounted, Holds,
     Carries
<1> QED BY <1>1, <1>2, <1>3, <1>4, <1>5, <1>6, <1>7, <1>8
  DEF IInv

\* Get is over.
LEMMA GetReturnIInv ==
  ASSUME IInv, NEW g \in Goroutines, GetReturn(g)
  PROVE  IInv'
<1>1. TypeOK'
  BY DEF IInv, GetReturn, Return, TypeOK, PCs, Ops, Places, Locked
<1>2. Places'
  BY DEF IInv, GetReturn, Return, TypeOK, Places
<1>3. Locked'
  BY DEF IInv, GetReturn, Return, TypeOK, Places, Locked
<1>4. Addresses'
  BY DEF IInv, GetReturn, Return, TypeOK, Places, Locked, Addresses, Holds, Carries
<1>5. Stored'
  BY DEF IInv, GetReturn, Return, TypeOK, Places, Locked, Addresses, Stored, Holds,
     Carries
<1>6. Resolves'
  BY DEF IInv, GetReturn, Return, TypeOK, Places, Locked, Addresses, Resolves,
     OwnedResolves, Holds, Carries, InUse
<1>7. OwnedResolves'
  BY DEF IInv, GetReturn, Return, TypeOK, Places, Locked, Addresses, OwnedResolves,
     Holds, Carries, Stored
<1>8. Accounted'
  BY DEF IInv, GetReturn, Return, TypeOK, Places, Locked, Addresses, Accounted, Holds,
     Carries
<1> QED BY <1>1, <1>2, <1>3, <1>4, <1>5, <1>6, <1>7, <1>8
  DEF IInv

-----------------------------------------------------------------------------
\* Every step of every goroutine keeps the invariant.
LEMMA NextIInv == IInv /\ [Next]_vars => IInv'
<1> SUFFICES ASSUME IInv, [Next]_vars PROVE IInv'
  OBVIOUS
<1>1. ASSUME NEW g \in Goroutines, Invoke(g) PROVE IInv'
  BY <1>1, TrackMallocIInv, UntrackCallIInv, GetCallIInv, ClearCallIInv DEF Invoke
<1>2. ASSUME NEW g \in Goroutines, Acquire(g) PROVE IInv'
  BY <1>2, LockIInv, RLockIInv DEF Acquire
<1>3. ASSUME NEW g \in Goroutines, Step(g) PROVE IInv'
  BY <1>3, DrainIInv, TrackStoreIInv, TrackReturnIInv, UntrackDeleteIInv,
     UntrackFreeIInv, UntrackReturnIInv, ClearDeleteIInv, ClearFreeIInv,
     ClearReturnIInv, GetReadIInv, GetReturnIInv DEF Step
<1>4. CASE UNCHANGED vars
  BY <1>4 DEF vars, IInv, TypeOK, Places, Locked, Addresses, Stored, Resolves,
     OwnedResolves, Accounted, Holds, Carries
<1> QED BY <1>1, <1>2, <1>3, <1>4 DEF Next

\* IInv is an invariant of the list.
THEOREM Invariance == Spec => []IInv
<1>1. Init => IInv
  BY InitIInv
<1>2. IInv /\ [Next]_vars => IInv'
  BY NextIInv
<1> QED BY <1>1, <1>2, PTL DEF Spec

\* The variables keep their types.
THEOREM TypeCorrect == Spec => []TypeOK
<1>1. IInv => TypeOK
  BY DEF IInv
<1> QED BY <1>1, Invariance, PTL

\* The map is never written while it is read or written.
THEOREM Exclusion == Spec => []MapAccessExclusive
<1>1. IInv => MapAccessExclusive
  BY DEF IInv, Locked, MapAccessExclusive
<1> QED BY <1>1, Invariance, PTL

\* A handle resolves to its value for as long as it is owned.
THEOREM Resolution == Spec => []OwnedResolves
<1>1. IInv => OwnedResolves
  BY DEF IInv
<1> QED BY <1>1, Invariance, PTL

\* Get never panics and never returns the value of another handle.
THEOREM GetIsRight == Spec => []GetFindsTheValue
<1>1. IInv => GetFindsTheValue
  BY DEF IInv, Places, Resolves, GetFindsTheValue
<1> QED BY <1>1, Invariance, PTL

\* An address is freed once for each time it is allocated.
THEOREM NoDoubleFree == Spec => []FreesOnce
<1>1. IInv => FreesOnce
  BY DEF IInv, Addresses, OwnedResolves, Holds, FreesOnce
<1> QED BY <1>1, Invariance, PTL

\* Nothing is kept for nobody between calls.
THEOREM NoLeak == Spec => []NothingLeaks
<1>1. IInv => NothingLeaks
  BY DEF IInv, Places, OwnedResolves, Addresses, Accounted, Holds, Carries, NothingLeaks
<1> QED BY <1>1, Invariance, PTL

-----------------------------------------------------------------------------
\* Each step of the list is a step of the abstract table, or none: a store
\* inserts, a delete removes, and nothing else touches the map.
LEMMA StepRefinement == IInv /\ [Next]_vars => [Table!Next]_handles
<1> SUFFICES ASSUME IInv, [Next]_vars PROVE [Table!Next]_handles
  OBVIOUS
<1>1. ASSUME NEW g \in Goroutines, TrackStore(g) PROVE Table!Next
  <2>1. /\ arg[g] \in Handles /\ val[g] \in Objects
        /\ arg[g] \notin DOMAIN handles
    BY <1>1 DEF IInv, Places, Addresses, Holds, TrackStore, Goto
  <2>2. Table!Insert(arg[g], val[g])
    BY <1>1, <2>1 DEF TrackStore, Store, Table!Insert
  <2> QED BY <2>1, <2>2 DEF Table!Next
<1>2. ASSUME NEW g \in Goroutines, UntrackDelete(g) PROVE Table!Next
  <2>1. arg[g] \in Handles /\ arg[g] \in DOMAIN handles
    BY <1>2 DEF IInv, Places, Addresses, Carries, UntrackDelete, Goto
  <2>2. Table!Remove(arg[g])
    BY <1>2, <2>1 DEF UntrackDelete, Delete, Table!Remove
  <2> QED BY <2>1, <2>2 DEF Table!Next
<1>3. ASSUME NEW g \in Goroutines, ClearDelete(g) PROVE Table!Next
  <2>1. PICK h \in DOMAIN handles : handles' = Delete(handles, h)
    BY <1>3 DEF ClearDelete
  <2>2. h \in Handles
    BY DEF IInv, TypeOK, IsTable
  <2>3. Table!Remove(h)
    BY <2>1 DEF Delete, Table!Remove
  <2> QED BY <2>2, <2>3 DEF Table!Next
<1>4. ASSUME NEW g \in Goroutines, Invoke(g) PROVE UNCHANGED handles
  BY <1>4 DEF Invoke, TrackMalloc, UntrackCall, GetCall, ClearCall
<1>5. ASSUME NEW g \in Goroutines, Acquire(g) PROVE UNCHANGED handles
  BY <1>5 DEF Acquire, Lock, RLock
<1>6. ASSUME NEW g \in Goroutines, Step(g)
      PROVE  \/ TrackStore(g) \/ UntrackDelete(g) \/ ClearDelete(g)
             \/ UNCHANGED handles
  BY <1>6 DEF Step, Drain, TrackReturn, UntrackFree, UntrackReturn, ClearFree,
     ClearReturn, GetRead, GetReturn
<1>7. CASE UNCHANGED vars
  BY <1>7 DEF vars
<1> QED BY <1>1, <1>2, <1>3, <1>4, <1>5, <1>6, <1>7 DEF Next

\* The list implements the table it stands for.
THEOREM Refinement == Spec => ImplementsTable
<1>1. Init => Table!Init
  BY DEF Init, Table!Init
<1>2. IInv /\ [Next]_vars => [Table!Next]_handles
  BY StepRefinement
<1> QED BY <1>1, <1>2, Invariance, PTL DEF Spec, Table!Spec, ImplementsTable
=============================================================================
