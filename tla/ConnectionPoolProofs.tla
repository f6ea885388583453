------------------------ MODULE ConnectionPoolProofs ------------------------
(* Proofs about ConnectionPool, for every number of threads and every pool  *)
(* size.                                                                    *)
EXTENDS ConnectionPool, FiniteSetTheorems, TLAPS

\* The labels between a sem_wait and the sem_post of connectionPoolSem.
Critical == {"scanGet", "takeSlot", "postGet", "scanRelease", "freeSlot",
             "postConnection", "postRelease"}

\* connectionPoolSem is a lock: one thread at most is inside, and then it is 0.
PoolLock ==
  /\ \A s, t \in Threads : pc[s] \in Critical /\ pc[t] \in Critical => s = t
  /\ \A t \in Threads : pc[t] \in Critical => connectionPoolSem = 0

\* A slot's connection is its own or none.
SlotConnection == \A slot \in Slots : connection[slot] \in {slot, NULL}

\* The slot about to be taken is free, the slot about to be freed is the one
\* of the connection given back.
ScanResult ==
  \A t \in Threads :
    /\ pc[t] = "takeSlot" => ix[t] \in Slots /\ free[ix[t]]
    /\ pc[t] = "freeSlot" => ix[t] \in Slots /\ connection[ix[t]] = held[t]

\* A connection somebody holds is in its slot, and the slot is marked.
HeldIsBusy ==
  \A t \in Threads, c \in Slots : Holds(t, c) => connection[c] = c /\ ~free[c]

IndInv == /\ TypeOK
          /\ PoolLock
          /\ SlotConnection
          /\ ScanResult
          /\ HeldIsBusy
          /\ HeldByOne

LEMMA InitIndInv == Init => IndInv
  <1> SUFFICES ASSUME Init PROVE IndInv
    OBVIOUS
  <1> USE PoolAssumption DEF Init, mongoConnectionPoolInit, Slots, NULL
  <1>1. TypeOK
    <2>1. free \in [Slots -> BOOLEAN] /\ crashed \in BOOLEAN
      BY Zenon
    <2>2. /\ connection \in [Slots -> Slots \union {NULL}]
          /\ connectionSem \in Nat
          /\ connectionPoolSem \in {0, 1}
      OBVIOUS
    <2>3. /\ pc \in [Threads -> PC]
          /\ ix \in [Threads -> 1..(PoolSize + 1)]
          /\ held \in [Threads -> Slots \union {NULL}]
          /\ cursor \in [Threads -> Slots \union {NULL}]
          /\ ops \in [Threads -> 0..MaxOps]
      BY DEF PC
    <2> QED BY <2>1, <2>2, <2>3 DEF TypeOK
  <1>2. PoolLock
    BY DEF PoolLock, Critical
  <1>3. SlotConnection
    BY DEF SlotConnection, mongoConnect
  <1>4. ScanResult
    BY DEF ScanResult
  <1>5. HeldIsBusy /\ HeldByOne
    BY DEF HeldIsBusy, HeldByOne, Holds, Holding
  <1> QED
    BY <1>1, <1>2, <1>3, <1>4, <1>5 DEF IndInv

LEMMA GetTestIndInv ==
  ASSUME IndInv, NEW t \in Threads, GetTest(t)
  PROVE  IndInv'
  <1> USE PoolAssumption DEF Slots, NULL, Goto
  <1>1. CASE ix[t] > PoolSize
    <2>1. /\ pc' = [pc EXCEPT ![t] = "postGet"]
          /\ held' = [held EXCEPT ![t] = NULL]
          /\ UNCHANGED <<connection, free, connectionSem, connectionPoolSem, ix,
                         cursor, ops, crashed>>
          /\ pc[t] = "scanGet"
      BY <1>1 DEF GetTest, IndInv, TypeOK
    <2>2. TypeOK'
      BY <2>1 DEF IndInv, TypeOK, PC
    <2>3. PoolLock' /\ SlotConnection' /\ ScanResult'
      BY <2>1 DEF IndInv, TypeOK, PoolLock, Critical, SlotConnection, ScanResult
    <2>4. HeldIsBusy' /\ HeldByOne'
      BY <2>1 DEF IndInv, TypeOK, HeldIsBusy, HeldByOne, Holds, Holding
    <2> QED BY <2>2, <2>3, <2>4 DEF IndInv
  <1>2. CASE ix[t] <= PoolSize /\ free[ix[t]]
    <2>1. /\ pc' = [pc EXCEPT ![t] = "takeSlot"]
          /\ UNCHANGED <<connection, free, connectionSem, connectionPoolSem, ix,
                         held, cursor, ops, crashed>>
          /\ pc[t] = "scanGet"
      BY <1>2 DEF GetTest, IndInv, TypeOK
    <2>2. TypeOK'
      BY <2>1 DEF IndInv, TypeOK, PC
    <2>3. PoolLock' /\ SlotConnection' /\ ScanResult'
      BY <1>2, <2>1
      DEF IndInv, TypeOK, PoolLock, Critical, SlotConnection, ScanResult
    <2>4. HeldIsBusy' /\ HeldByOne'
      BY <2>1 DEF IndInv, TypeOK, HeldIsBusy, HeldByOne, Holds, Holding
    <2> QED BY <2>2, <2>3, <2>4 DEF IndInv
  <1>3. CASE ix[t] <= PoolSize /\ ~free[ix[t]]
    <2>1. /\ ix' = [ix EXCEPT ![t] = @ + 1]
          /\ UNCHANGED <<connection, free, connectionSem, connectionPoolSem, pc,
                         held, cursor, ops, crashed>>
          /\ pc[t] = "scanGet"
      BY <1>3 DEF GetTest, IndInv, TypeOK
    <2>2. TypeOK'
      BY <1>3, <2>1 DEF IndInv, TypeOK
    <2>3. PoolLock' /\ SlotConnection' /\ ScanResult'
      BY <2>1 DEF IndInv, TypeOK, PoolLock, SlotConnection, ScanResult
    <2>4. HeldIsBusy' /\ HeldByOne'
      BY <2>1 DEF IndInv, HeldIsBusy, HeldByOne, Holds
    <2> QED BY <2>2, <2>3, <2>4 DEF IndInv
  <1> QED BY <1>1, <1>2, <1>3 DEF IndInv, TypeOK

LEMMA ReleaseTestIndInv ==
  ASSUME IndInv, NEW t \in Threads, ReleaseTest(t)
  PROVE  IndInv'
  <1> USE PoolAssumption DEF Slots, NULL, Goto
  <1>1. /\ UNCHANGED <<connection, free, connectionSem, connectionPoolSem, held,
                       cursor, ops, crashed>>
        /\ pc[t] = "scanRelease"
    BY DEF ReleaseTest
  <1>2. CASE ix[t] > PoolSize
    <2>1. pc' = [pc EXCEPT ![t] = "postRelease"] /\ ix' = ix
      BY <1>2 DEF ReleaseTest, IndInv, TypeOK
    <2>2. TypeOK'
      BY <1>1, <2>1 DEF IndInv, TypeOK, PC
    <2>3. PoolLock' /\ SlotConnection' /\ ScanResult'
      BY <1>1, <2>1
      DEF IndInv, TypeOK, PoolLock, Critical, SlotConnection, ScanResult
    <2>4. HeldIsBusy' /\ HeldByOne'
      BY <1>1, <2>1 DEF IndInv, TypeOK, HeldIsBusy, HeldByOne, Holds, Holding
    <2> QED BY <2>2, <2>3, <2>4 DEF IndInv
  <1>3. CASE ix[t] <= PoolSize /\ connection[ix[t]] = held[t]
    <2>1. pc' = [pc EXCEPT ![t] = "freeSlot"] /\ ix' = ix
      BY <1>3 DEF ReleaseTest, IndInv, TypeOK
    <2>2. TypeOK'
      BY <1>1, <2>1 DEF IndInv, TypeOK, PC
    <2>3. PoolLock' /\ SlotConnection' /\ ScanResult'
      BY <1>1, <1>3, <2>1
      DEF IndInv, TypeOK, PoolLock, Critical, SlotConnection, ScanResult
    <2>4. HeldIsBusy' /\ HeldByOne'
      BY <1>1, <2>1 DEF IndInv, TypeOK, HeldIsBusy, HeldByOne, Holds, Holding
    <2> QED BY <2>2, <2>3, <2>4 DEF IndInv
  <1>4. CASE ix[t] <= PoolSize /\ connection[ix[t]] # held[t]
    <2>1. pc' = pc /\ ix' = [ix EXCEPT ![t] = @ + 1]
      BY <1>4 DEF ReleaseTest, IndInv, TypeOK
    <2>2. TypeOK'
      BY <1>1, <1>4, <2>1 DEF IndInv, TypeOK
    <2>3. PoolLock' /\ SlotConnection' /\ ScanResult'
      BY <1>1, <2>1 DEF IndInv, TypeOK, PoolLock, SlotConnection, ScanResult
    <2>4. HeldIsBusy' /\ HeldByOne'
      BY <1>1, <2>1 DEF IndInv, HeldIsBusy, HeldByOne, Holds
    <2> QED BY <2>2, <2>3, <2>4 DEF IndInv
  <1> QED BY <1>2, <1>3, <1>4, SMTT(40) DEF IndInv, TypeOK

LEMMA NextIndInv == IndInv /\ [Next]_vars => IndInv'
  <1> SUFFICES ASSUME IndInv, [Next]_vars PROVE IndInv'
    OBVIOUS
  <1> USE PoolAssumption
  <1> USE DEF IndInv, TypeOK, PC, PoolLock, Critical, SlotConnection, ScanResult,
              HeldIsBusy, HeldByOne, Holds, Holding, Slots, NULL, Goto
  <1>1. ASSUME NEW t \in Threads, Get(t) PROVE IndInv'
    <2>1. CASE GetWaitConnection(t) BY <2>1 DEF GetWaitConnection
    <2>2. CASE GetWaitPool(t) BY <2>2 DEF GetWaitPool
    <2>3. CASE GetTest(t) BY <2>3, GetTestIndInv
    <2>4. CASE GetTake(t) BY <2>4 DEF GetTake
    <2>5. CASE GetPost(t) BY <2>5 DEF GetPost
    <2> QED BY <1>1, <2>1, <2>2, <2>3, <2>4, <2>5 DEF Get
  <1>2. ASSUME NEW t \in Threads, Use(t) PROVE IndInv'
    <2>1. CASE Operate(t) BY <2>1 DEF Operate
    <2>2. CASE OpenCursor(t) BY <2>2 DEF OpenCursor
    <2>3. CASE DereferenceNull(t) BY <2>3 DEF DereferenceNull
    <2>4. CASE NextBatch(t) BY <2>4 DEF NextBatch
    <2>5. CASE BatchReceived(t)
      <3>1. CASE cursor' = [cursor EXCEPT ![t] = NULL]
        BY <2>5, <3>1 DEF BatchReceived
      <3>2. CASE UNCHANGED cursor BY <2>5, <3>2 DEF BatchReceived
      <3> QED BY <2>5, <3>1, <3>2 DEF BatchReceived
    <2> QED BY <1>2, <2>1, <2>2, <2>3, <2>4, <2>5 DEF Use
  <1>3. ASSUME NEW t \in Threads, Release(t) PROVE IndInv'
    <2>1. CASE ReleaseWaitPool(t) BY <2>1 DEF ReleaseWaitPool
    <2>2. CASE ReleaseTest(t) BY <2>2, ReleaseTestIndInv
    <2>3. CASE ReleaseFree(t) BY <2>3 DEF ReleaseFree
    <2>4. CASE ReleasePostConnection(t) BY <2>4 DEF ReleasePostConnection
    <2>5. CASE ReleasePostPool(t) BY <2>5 DEF ReleasePostPool
    <2> QED BY <1>3, <2>1, <2>2, <2>3, <2>4, <2>5 DEF Release
  <1>4. ASSUME NEW t \in Threads, GetCall(t) PROVE IndInv'
    BY <1>4 DEF GetCall
  <1>5. ASSUME NEW t \in Threads, ReleaseNothing(t) PROVE IndInv'
    BY <1>5 DEF ReleaseNothing
  <1>6. CASE UNCHANGED vars
    BY <1>6 DEF vars
  <1> QED
    BY <1>1, <1>2, <1>3, <1>4, <1>5, <1>6 DEF Next, Step

\* The pool's state always has its type: in particular connectionPoolSem stays
\* a binary semaphore, which it is only because every sem_post follows a
\* sem_wait (mongoPoolConnectionGet, mongoPoolConnectionRelease).
THEOREM PoolTyped == Spec => []TypeOK
  <1>1. IndInv => TypeOK
    BY DEF IndInv
  <1> QED BY InitIndInv, NextIndInv, <1>1, PTL DEF Spec

\* No connection is ever handed to two threads, for any number of threads,
\* any pool size, unconnected slots included (mongoPoolConnectionGet,
\* mongoPoolConnectionRelease).
THEOREM PoolHeldByOne == Spec => []HeldByOne
  <1>1. IndInv => HeldByOne
    BY DEF IndInv
  <1> QED BY InitIndInv, NextIndInv, <1>1, PTL DEF Spec

-----------------------------------------------------------------------------
(* The count of the semaphore. A pool whose slots are all connected needs   *)
(* two more facts: a scan has left no free slot behind it, and a release    *)
(* has not yet passed the slot of the connection it gives back.             *)

ScannedAreBusy ==
  \A t \in Threads, slot \in Slots :
    pc[t] = "scanGet" /\ slot < ix[t] => ~free[slot]

ReleaseAhead ==
  \A t \in Threads :
    pc[t] = "scanRelease" /\ held[t] # NULL => ix[t] <= held[t]

\* The threads that have taken or are to give back a unit of connectionSem
\* while the slot they mean is still free.
Claiming == {t \in Threads : pc[t] \in {"waitPool", "scanGet", "takeSlot",
                                        "postConnection"}}

FreeSlots == {slot \in Slots : free[slot]}

\* A connected pool hands out connections: only a stray release holds NULL.
GotOne ==
  AllConnected =>
    \A t \in Threads : pc[t] \in {"postGet", "using"} => held[t] # NULL

CountInv == /\ ScannedAreBusy
            /\ ReleaseAhead
            /\ SemMatchesSlots
            /\ NeverEmptyHanded
            /\ GotOne

\* Both counts are counts of finite sets.
LEMMA CountsFinite ==
  /\ IsFiniteSet(Claiming) /\ Cardinality(Claiming) \in Nat
  /\ IsFiniteSet(FreeSlots) /\ Cardinality(FreeSlots) \in Nat
  <1>1. IsFiniteSet(Claiming)
    BY PoolAssumption, FS_Subset DEF Claiming
  <1>2. IsFiniteSet(Slots)
    BY PoolAssumption, FS_Interval DEF Slots
  <1>3. IsFiniteSet(FreeSlots)
    BY <1>2, FS_Subset DEF FreeSlots
  <1> QED BY <1>1, <1>3, FS_CardinalityType

LEMMA InitCountInv == Init => CountInv
  <1> SUFFICES ASSUME Init PROVE CountInv
    OBVIOUS
  <1> USE PoolAssumption DEF Init, mongoConnectionPoolInit, Slots
  <1>1. ScannedAreBusy /\ ReleaseAhead /\ NeverEmptyHanded /\ GotOne
    BY DEF ScannedAreBusy, ReleaseAhead, NeverEmptyHanded, GotOne
  <1>2. Claiming = {} /\ FreeSlots = Slots
    BY DEF Claiming, FreeSlots
  <1>3. Cardinality(FreeSlots) = PoolSize
    BY <1>2, FS_Interval
  <1>4. Cardinality(Claiming) = 0
    BY <1>2, FS_EmptySet
  <1>5. SemMatchesSlots
    BY <1>3, <1>4 DEF SemMatchesSlots, Claiming, FreeSlots
  <1> QED BY <1>1, <1>5 DEF CountInv

\* Of a step, what the counts depend on: a unit of the semaphore, a claim and
\* a free slot change together, two of the three at a time.
LEMMA SemCounts ==
  ASSUME IndInv, SemMatchesSlots, AllConnected' => AllConnected,
         \/ /\ connectionSem' = connectionSem
            /\ Claiming' = Claiming /\ FreeSlots' = FreeSlots
         \/ \E t \in Threads \ Claiming :
              /\ connectionSem > 0 /\ connectionSem' = connectionSem - 1
              /\ Claiming' = Claiming \union {t} /\ FreeSlots' = FreeSlots
         \/ \E t \in Claiming :
              /\ connectionSem' = connectionSem + 1
              /\ Claiming' = Claiming \ {t} /\ FreeSlots' = FreeSlots
         \/ \E t \in Claiming, slot \in FreeSlots :
              /\ connectionSem' = connectionSem
              /\ Claiming' = Claiming \ {t} /\ FreeSlots' = FreeSlots \ {slot}
         \/ \E t \in Threads \ Claiming, slot \in Slots \ FreeSlots :
              /\ connectionSem' = connectionSem
              /\ Claiming' = Claiming \union {t}
              /\ FreeSlots' = FreeSlots \union {slot}
  PROVE  SemMatchesSlots'
  <1> SUFFICES ASSUME AllConnected'
               PROVE  connectionSem' + Cardinality(Claiming')
                        = Cardinality(FreeSlots')
    BY DEF SemMatchesSlots, Claiming, FreeSlots
  <1>1. connectionSem + Cardinality(Claiming) = Cardinality(FreeSlots)
    BY DEF SemMatchesSlots, Claiming, FreeSlots
  <1>2. connectionSem \in Nat
    BY DEF IndInv, TypeOK
  <1>3. \A t : /\ t \notin Claiming => Cardinality(Claiming \union {t})
                                         = Cardinality(Claiming) + 1
               /\ t \in Claiming => Cardinality(Claiming \ {t})
                                      = Cardinality(Claiming) - 1
    BY CountsFinite, FS_AddElement, FS_RemoveElement
  <1>4. \A slot :
          /\ slot \notin FreeSlots => Cardinality(FreeSlots \union {slot})
                                        = Cardinality(FreeSlots) + 1
          /\ slot \in FreeSlots => Cardinality(FreeSlots \ {slot})
                                     = Cardinality(FreeSlots) - 1
    BY CountsFinite, FS_AddElement, FS_RemoveElement
  <1> QED BY <1>1, <1>2, <1>3, <1>4, CountsFinite

\* Two threads do not claim the last slot: with a thread in the scan, some slot
\* is free.
ScanFindsSlot ==
  AllConnected =>
    \A t \in Threads : pc[t] = "scanGet" => \E slot \in Slots : free[slot]

LEMMA CountsLeaveSlot == IndInv /\ SemMatchesSlots => ScanFindsSlot
  <1> SUFFICES ASSUME IndInv, SemMatchesSlots, AllConnected,
                      NEW t \in Threads, pc[t] = "scanGet"
               PROVE  \E slot \in Slots : free[slot]
    BY DEF ScanFindsSlot
  <1>1. t \in Claiming
    BY DEF Claiming
  <1>2. Cardinality(Claiming) # 0
    BY <1>1, CountsFinite, FS_EmptySet
  <1>3. Cardinality(FreeSlots) # 0
    BY <1>2, CountsFinite
    DEF SemMatchesSlots, IndInv, TypeOK, Claiming, FreeSlots
  <1>4. FreeSlots # {}
    BY <1>3, FS_EmptySet
  <1> QED BY <1>4 DEF FreeSlots

LEMMA NextCountInv == IndInv /\ CountInv /\ [Next]_vars => CountInv'
  <1> SUFFICES ASSUME IndInv, CountInv, [Next]_vars PROVE CountInv'
    OBVIOUS
  <1>0. IndInv'
    BY NextIndInv
  <1>c. connection' = connection
    BY DEF Next, Step, Get, Use, Release, GetCall, GetWaitConnection, GetWaitPool,
       GetTest, GetTake, GetPost, Operate, OpenCursor, DereferenceNull,
       ReleaseNothing, NextBatch, BatchReceived, ReleaseWaitPool, ReleaseTest,
       ReleaseFree, ReleasePostConnection, ReleasePostPool, vars
  <1>a. AllConnected' <=> AllConnected
    BY <1>c DEF AllConnected
  <1> USE PoolAssumption DEF Goto, NULL
  <1> DEFINE Scans == ScannedAreBusy /\ ReleaseAhead /\ GotOne
  <1>1. Scans'
    <2> USE DEF IndInv, TypeOK, PC, CountInv, ScannedAreBusy, ReleaseAhead, GotOne,
                Slots, PoolLock, Critical, HeldIsBusy, Holds, Holding
    <2>1. ASSUME NEW t \in Threads, Get(t) PROVE Scans'
      <3>1. CASE GetWaitConnection(t) BY <3>1, <1>a DEF GetWaitConnection
      <3>2. CASE GetWaitPool(t) BY <3>2, <1>a DEF GetWaitPool
      <3>3. CASE GetTest(t) 
        <4>1. CASE ix[t] > PoolSize
           BY <3>3, <4>1, <1>a DEF GetTest, NeverEmptyHanded
        <4>2. CASE ix[t] <= PoolSize /\ free[ix[t]]
           BY <3>3, <4>2, <1>a DEF GetTest
        <4>3. CASE ix[t] <= PoolSize /\ ~free[ix[t]]
           BY <3>3, <4>3, <1>a DEF GetTest
        <4> QED BY <4>1, <4>2, <4>3
      <3>4. CASE GetTake(t) BY <3>4, <1>a, SMTT(40) DEF GetTake, AllConnected, ScanResult
      <3>5. CASE GetPost(t) BY <3>5, <1>a DEF GetPost
      <3> QED BY <2>1, <3>1, <3>2, <3>3, <3>4, <3>5 DEF Get
    <2>2. ASSUME NEW t \in Threads, Use(t) PROVE Scans'
      <3>1. CASE Operate(t) BY <3>1, <1>a DEF Operate
      <3>2. CASE OpenCursor(t) BY <3>2, <1>a DEF OpenCursor
      <3>3. CASE DereferenceNull(t) BY <3>3, <1>a DEF DereferenceNull
      <3>4. CASE NextBatch(t) BY <3>4, <1>a DEF NextBatch
      <3>5. CASE BatchReceived(t) BY <3>5, <1>a DEF BatchReceived
      <3> QED BY <2>2, <3>1, <3>2, <3>3, <3>4, <3>5 DEF Use
    <2>3. ASSUME NEW t \in Threads, Release(t) PROVE Scans'
      <3>1. CASE ReleaseWaitPool(t) BY <3>1, <1>a DEF ReleaseWaitPool
      <3>2. CASE ReleaseTest(t)
        <4>1. CASE ix[t] > PoolSize
           BY <3>2, <4>1, <1>a DEF ReleaseTest
        <4>2. CASE ix[t] <= PoolSize /\ connection[ix[t]] = held[t]
           BY <3>2, <4>2, <1>a DEF ReleaseTest
        <4>3. CASE ix[t] <= PoolSize /\ connection[ix[t]] # held[t]
           BY <3>2, <4>3, <1>a DEF ReleaseTest
        <4> QED BY <4>1, <4>2, <4>3
      <3>3. CASE ReleaseFree(t) BY <3>3, <1>a DEF ReleaseFree
      <3>4. CASE ReleasePostConnection(t) BY <3>4, <1>a DEF ReleasePostConnection
      <3>5. CASE ReleasePostPool(t) BY <3>5, <1>a DEF ReleasePostPool
      <3> QED BY <2>3, <3>1, <3>2, <3>3, <3>4, <3>5 DEF Release
    <2>4. ASSUME NEW t \in Threads, GetCall(t) PROVE Scans'
      BY <2>4, <1>a DEF GetCall
    <2>5. ASSUME NEW t \in Threads, ReleaseNothing(t) PROVE Scans'
      BY <2>5, <1>a DEF ReleaseNothing
    <2>6. CASE UNCHANGED vars
      BY <2>6, <1>a DEF vars
    <2> QED BY <2>1, <2>2, <2>3, <2>4, <2>5, <2>6 DEF Next, Step
  <1>2. SemMatchesSlots'
    <2> USE DEF IndInv, TypeOK, PC, CountInv, Slots, Claiming, FreeSlots
    <2>0. CASE \/ ~AllConnected
               \/ /\ connectionSem' = connectionSem
                  /\ Claiming' = Claiming /\ FreeSlots' = FreeSlots
      BY <2>0, <1>a, SemCounts DEF SemMatchesSlots
    <2>1. ASSUME NEW t \in Threads, Get(t), AllConnected PROVE SemMatchesSlots'
      <3>1. CASE GetWaitConnection(t)
        <4>1. /\ t \in Threads \ Claiming
              /\ connectionSem > 0 /\ connectionSem' = connectionSem - 1
              /\ Claiming' = Claiming \union {t} /\ FreeSlots' = FreeSlots
          BY <3>1 DEF GetWaitConnection
        <4> QED BY <4>1, <1>a, SemCounts
      <3>2. CASE GetWaitPool(t) BY <3>2, <2>0 DEF GetWaitPool
      <3>3. CASE GetTest(t) BY <3>3, <2>0, <2>1 DEF GetTest, NeverEmptyHanded
      <3>4. CASE GetTake(t)
        <4>1. /\ t \in Claiming /\ ix[t] \in FreeSlots
              /\ connectionSem' = connectionSem
              /\ Claiming' = Claiming \ {t} /\ FreeSlots' = FreeSlots \ {ix[t]}
          BY <3>4 DEF GetTake, ScanResult
        <4> QED BY <4>1, <1>a, SemCounts
      <3>5. CASE GetPost(t) BY <3>5, <2>0 DEF GetPost
      <3> QED BY <2>1, <3>1, <3>2, <3>3, <3>4, <3>5 DEF Get
    <2>2. ASSUME NEW t \in Threads, Use(t) PROVE SemMatchesSlots'
      BY <2>2, <2>0
      DEF Use, Operate, OpenCursor, DereferenceNull, NextBatch, BatchReceived
    <2>3. ASSUME NEW t \in Threads, Release(t), AllConnected PROVE SemMatchesSlots'
      <3>1. CASE ReleaseWaitPool(t) BY <3>1, <2>0 DEF ReleaseWaitPool
      <3>2. CASE ReleaseTest(t) BY <3>2, <2>0 DEF ReleaseTest
      <3>3. CASE ReleaseFree(t)
        <4>1. /\ t \in Threads \ Claiming /\ ix[t] \in Slots \ FreeSlots
              /\ connectionSem' = connectionSem
              /\ Claiming' = Claiming \union {t}
              /\ FreeSlots' = FreeSlots \union {ix[t]}
          BY <3>3, <2>3
          DEF ReleaseFree, ScanResult, HeldIsBusy, Holds, Holding, SlotConnection,
              AllConnected
        <4> QED BY <4>1, <1>a, SemCounts
      <3>4. CASE ReleasePostConnection(t)
        <4>1. /\ t \in Claiming
              /\ connectionSem' = connectionSem + 1
              /\ Claiming' = Claiming \ {t} /\ FreeSlots' = FreeSlots
          BY <3>4 DEF ReleasePostConnection
        <4> QED BY <4>1, <1>a, SemCounts
      <3>5. CASE ReleasePostPool(t) BY <3>5, <2>0 DEF ReleasePostPool
      <3> QED BY <2>3, <3>1, <3>2, <3>3, <3>4, <3>5 DEF Release
    <2>4. ASSUME NEW t \in Threads, GetCall(t) \/ ReleaseNothing(t)
          PROVE  SemMatchesSlots'
      BY <2>4, <2>0 DEF GetCall, ReleaseNothing
    <2>5. CASE UNCHANGED vars
      BY <2>5, <2>0 DEF vars
    <2> QED BY <2>0, <2>1, <2>2, <2>3, <2>4, <2>5 DEF Next, Step
  <1>3. NeverEmptyHanded'
    <2> SUFFICES ASSUME AllConnected', NEW t \in Threads, pc'[t] = "scanGet"
                 PROVE  ix'[t] <= PoolSize
      BY DEF NeverEmptyHanded
    <2>0. ScanFindsSlot'
      BY <1>0, <1>2, CountsLeaveSlot, PTL
    <2>1. PICK slot \in Slots : free'[slot]
      BY <2>0 DEF ScanFindsSlot
    <2>2. ~(slot < ix'[t])
      BY <1>1, <2>1 DEF ScannedAreBusy
    <2> QED BY <1>0, <2>2 DEF IndInv, TypeOK, Slots
  <1> QED BY <1>1, <1>2, <1>3 DEF CountInv

\* With every slot connected, connectionSem counts exactly the slots nobody has
\* claimed, through every interleaving of gets and releases (sem_wait and
\* sem_post of connectionSem in mongoPoolConnectionGet and
\* mongoPoolConnectionRelease).
THEOREM PoolSemMatchesSlots == Spec => []SemMatchesSlots
  <1>1. CountInv => SemMatchesSlots
    BY DEF CountInv
  <1> QED
    BY InitIndInv, NextIndInv, InitCountInv, NextCountInv, <1>1, PTL DEF Spec

\* With every slot connected, the scan of mongoPoolConnectionGet always meets a
\* free slot: no thread leaves the loop with the NULL it started from.
THEOREM PoolNeverEmptyHanded == Spec => []NeverEmptyHanded
  <1>1. CountInv => NeverEmptyHanded
    BY DEF CountInv
  <1> QED
    BY InitIndInv, NextIndInv, InitCountInv, NextCountInv, <1>1, PTL DEF Spec

NoNullDereference == AllConnected => ~crashed

\* With every slot connected, no caller of getMongoConnection dereferences NULL,
\* although none of them tests what it was given.
THEOREM PoolNoNullDereference == Spec => []NoNullDereference
  <1>1. Init => NoNullDereference
    BY DEF Init, NoNullDereference
  <1>2. IndInv /\ CountInv /\ NoNullDereference /\ [Next]_vars
          => NoNullDereference'
    BY DEF NoNullDereference, AllConnected, CountInv, GotOne, Next, Step, Get, Use,
       Release, GetCall, GetWaitConnection, GetWaitPool, GetTest, GetTake, GetPost,
       Operate, OpenCursor, DereferenceNull, ReleaseNothing, NextBatch,
       BatchReceived, ReleaseWaitPool, ReleaseTest, ReleaseFree,
       ReleasePostConnection, ReleasePostPool, vars
  <1> QED
    BY <1>1, <1>2, InitIndInv, NextIndInv, InitCountInv, NextCountInv, PTL DEF Spec

-----------------------------------------------------------------------------
(* The refinement. A step of the pool is seen by the contract through       *)
(* waitingBar and through who holds what.                                   *)

\* ownerBar names the holder of a connection, if it has one.
OwnerIsHolder ==
  /\ ownerBar = [c \in Slots |-> ownerBar[c]]
  /\ \A c \in Slots :
       /\ \A t \in Threads : Holds(t, c) => ownerBar[c] = t
       /\ (\A t \in Threads : ~Holds(t, c)) => ownerBar[c] = None

LEMMA OwnerOfHeld == HeldByOne => OwnerIsHolder
  <1> SUFFICES ASSUME HeldByOne PROVE OwnerIsHolder
    OBVIOUS
  <1>1. ownerBar = [c \in Slots |-> ownerBar[c]]
    BY DEF ownerBar
  <1>2. ASSUME NEW c \in Slots, NEW t \in Threads, Holds(t, c)
        PROVE  ownerBar[c] = t
    <2>1. ownerBar[c] = CHOOSE u \in Threads : Holds(u, c)
      BY <1>2, Zenon DEF ownerBar
    <2>2. ownerBar[c] \in Threads /\ Holds(ownerBar[c], c)
      BY <1>2, <2>1, Zenon
    <2> QED BY <1>2, <2>2, Zenon DEF HeldByOne
  <1>3. ASSUME NEW c \in Slots, \A t \in Threads : ~Holds(t, c)
        PROVE  ownerBar[c] = None
    BY <1>3, Zenon DEF ownerBar
  <1> QED BY <1>1, <1>2, <1>3, Zenon DEF OwnerIsHolder

LEMMA SameHolders ==
  ASSUME OwnerIsHolder, OwnerIsHolder', NEW S \in SUBSET Slots,
         \A c \in S, t \in Threads : Holds(t, c)' <=> Holds(t, c)
  PROVE  \A c \in S : ownerBar'[c] = ownerBar[c]
  <1> SUFFICES ASSUME NEW c \in S PROVE ownerBar'[c] = ownerBar[c]
    OBVIOUS
  <1> c \in Slots
    OBVIOUS
  <1>1. CASE \E t \in Threads : Holds(t, c)
    BY <1>1, Zenon DEF OwnerIsHolder
  <1>2. CASE \A t \in Threads : ~Holds(t, c)
    BY <1>2, Zenon DEF OwnerIsHolder
  <1> QED BY <1>1, <1>2, Zenon

LEMMA NextContract ==
  ASSUME IndInv, CountInv, Next, AllConnected
  PROVE  [Contract!Next]_(Contract!vars)
  <1>0. IndInv'
    BY NextIndInv
  <1>o. OwnerIsHolder /\ OwnerIsHolder'
    BY <1>0, OwnerOfHeld, PTL DEF IndInv
  <1> DEFINE Stutter == Contract!vars' = Contract!vars
             Goal == Contract!Next \/ Stutter
  <1> SUFFICES Goal
    OBVIOUS
  <1> USE PoolAssumption DEF Goto, NULL
  <1>s. ASSUME waitingBar' = waitingBar,
               \A c \in Slots, t \in Threads : Holds(t, c)' <=> Holds(t, c)
        PROVE  Goal
    <2>1. \A c \in Slots : ownerBar'[c] = ownerBar[c]
      BY <1>o, <1>s, SameHolders
    <2>2. ownerBar' = ownerBar
      BY <1>o, <2>1 DEF OwnerIsHolder
    <2> QED BY <1>s, <2>2 DEF Contract!vars
  <1> HIDE DEF Goal
  <1>1. ASSUME NEW t \in Threads, GetCall(t) PROVE Goal
    <2>1. /\ t \notin waitingBar /\ waitingBar' = waitingBar \union {t}
          /\ \A c \in Slots, u \in Threads : Holds(u, c)' <=> Holds(u, c)
      BY <1>1 DEF GetCall, waitingBar, Holds, Holding, IndInv, TypeOK, PC
    <2>2. \A c \in Slots : ownerBar'[c] = ownerBar[c]
      BY <1>o, <2>1, SameHolders
    <2>3. ownerBar' = ownerBar
      BY <1>o, <2>2 DEF OwnerIsHolder
    <2> QED BY <2>1, <2>3 DEF Goal, Contract!Next, Contract!Call
  <1>2. ASSUME NEW t \in Threads, GetTake(t) PROVE Goal
    <2>0. PICK c \in Slots : c = ix[t]
      BY <1>2 DEF GetTake, IndInv, ScanResult
    <2>1. /\ free[c] /\ connection[c] = c
          /\ \A u \in Threads : ~Holds(u, c)
      BY <1>2, <2>0
      DEF GetTake, IndInv, ScanResult, SlotConnection, AllConnected, HeldIsBusy
    <2>2. /\ t \in waitingBar /\ waitingBar' = waitingBar \ {t}
          /\ Holds(t, c)'
          /\ \A d \in Slots \ {c}, u \in Threads : Holds(u, d)' <=> Holds(u, d)
      BY <1>2, <2>0, <2>1 DEF GetTake, waitingBar, Holds, Holding, IndInv, TypeOK, PC
    <2>3. \A d \in Slots \ {c} : ownerBar'[d] = ownerBar[d]
      BY <1>o, <2>2, SameHolders
    <2>4. ownerBar[c] = None /\ ownerBar'[c] = t
      BY <1>o, <2>1, <2>2 DEF OwnerIsHolder
    <2>5. ownerBar' = [ownerBar EXCEPT ![c] = t]
      BY <1>o, <2>1, <2>3, <2>4 DEF OwnerIsHolder
    <2> QED BY <2>1, <2>2, <2>4, <2>5 DEF Goal, Contract!Next, Contract!Grant
  <1>3. ASSUME NEW t \in Threads, ReleaseFree(t) PROVE Goal
    <2>0. PICK c \in Slots : c = ix[t]
      BY <1>3 DEF ReleaseFree, IndInv, ScanResult
    <2>1. connection[c] = c /\ Holds(t, c)
      BY <1>3, <2>0
      DEF ReleaseFree, IndInv, ScanResult, SlotConnection, AllConnected, Holds,
          Holding
    <2>2. /\ waitingBar' = waitingBar
          /\ \A u \in Threads : ~Holds(u, c)'
          /\ \A d \in Slots \ {c}, u \in Threads : Holds(u, d)' <=> Holds(u, d)
      BY <1>3, <2>0, <2>1
      DEF ReleaseFree, waitingBar, Holds, Holding, IndInv, TypeOK, PC, HeldByOne
    <2>3. \A d \in Slots \ {c} : ownerBar'[d] = ownerBar[d]
      BY <1>o, <2>2, SameHolders
    <2>4. ownerBar[c] = t /\ ownerBar'[c] = None
      BY <1>o, <2>1, <2>2 DEF OwnerIsHolder
    <2>5. ownerBar' = [ownerBar EXCEPT ![c] = None]
      BY <1>o, <2>1, <2>3, <2>4 DEF OwnerIsHolder
    <2> QED BY <2>1, <2>2, <2>4, <2>5 DEF Goal, Contract!Next, Contract!GiveBack
  <1>4. ASSUME NEW t \in Threads,
               Get(t) \/ Use(t) \/ Release(t) \/ ReleaseNothing(t),
               ~GetTake(t), ~ReleaseFree(t)
        PROVE  Goal
    <2> USE DEF waitingBar, Holds, Holding, IndInv, TypeOK, PC
    <2>1. CASE GetWaitConnection(t) BY <2>1, <1>s DEF GetWaitConnection
    <2>2. CASE GetWaitPool(t) BY <2>2, <1>s DEF GetWaitPool
    <2>3. CASE GetTest(t)
      BY <2>3, <1>s DEF GetTest, CountInv, NeverEmptyHanded
    <2>4. CASE GetPost(t) BY <2>4, <1>s DEF GetPost
    <2>5. CASE Operate(t) BY <2>5, <1>s DEF Operate
    <2>6. CASE OpenCursor(t) BY <2>6, <1>s DEF OpenCursor
    <2>7. CASE DereferenceNull(t) BY <2>7, <1>s DEF DereferenceNull
    <2>8. CASE NextBatch(t) BY <2>8, <1>s DEF NextBatch
    <2>9. CASE BatchReceived(t) BY <2>9, <1>s DEF BatchReceived
    <2>10. CASE ReleaseWaitPool(t) BY <2>10, <1>s DEF ReleaseWaitPool
    <2>11. CASE ReleaseTest(t)
      <3>1. CASE ix[t] > PoolSize
        <4>1. held[t] = NULL
          BY <2>11, <3>1 DEF ReleaseTest, CountInv, ReleaseAhead, Slots
        <4> QED BY <2>11, <3>1, <4>1, <1>s DEF ReleaseTest, Slots
      <3>2. CASE ix[t] <= PoolSize
        BY <2>11, <3>2, <1>s DEF ReleaseTest
      <3> QED BY <3>1, <3>2
    <2>12. CASE ReleasePostConnection(t) BY <2>12, <1>s DEF ReleasePostConnection
    <2>13. CASE ReleasePostPool(t) BY <2>13, <1>s DEF ReleasePostPool
    <2>14. CASE ReleaseNothing(t) BY <2>14, <1>s DEF ReleaseNothing, Slots
    <2> QED
      BY <1>4, <2>1, <2>2, <2>3, <2>4, <2>5, <2>6, <2>7, <2>8, <2>9, <2>10, <2>11,
         <2>12, <2>13, <2>14 DEF Get, Use, Release
  <1>5. CASE UNCHANGED vars
    BY <1>5, <1>s DEF vars, waitingBar, Holds
  <1> QED BY <1>1, <1>2, <1>3, <1>4, <1>5 DEF Next, Step

\* The pool implements the contract, for any number of threads and slots: while
\* every slot has a connection, nobody is granted what somebody owns, nobody
\* leaves the wait empty-handed and only the owner gives a connection back
\* (mongoPoolConnectionGet and mongoPoolConnectionRelease).
THEOREM PoolImplementsContract == Spec => ImplementsContract
  <1>1. Init => Contract!Init
    <2> SUFFICES ASSUME Init PROVE Contract!Init
      OBVIOUS
    <2>1. waitingBar = {} /\ \A c \in Slots, t \in Threads : ~Holds(t, c)
      BY DEF Init, waitingBar, Holds, Holding
    <2>2. OwnerIsHolder
      BY InitIndInv, OwnerOfHeld DEF IndInv
    <2>3. ownerBar = [c \in Slots |-> None]
      BY <2>1, <2>2 DEF OwnerIsHolder
    <2> QED BY <2>1, <2>3 DEF Contract!Init
  <1>2. IndInv /\ CountInv /\ [Next]_vars
          => [AllConnected => [Contract!Next]_(Contract!vars)]_vars
    BY NextContract
  <1> QED
    BY <1>1, <1>2, InitIndInv, NextIndInv, InitCountInv, NextCountInv, PTL
    DEF Spec, ImplementsContract
=============================================================================
