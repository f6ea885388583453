--------------------------- MODULE ConnectionPool ---------------------------
(***************************************************************************)
(* The pool of MongoDB connections of the broker                           *)
(* (lib/mongoBackend/mongoConnectionPool.cpp) and the threads that use it. *)
(*                                                                         *)
(* connectionSem counts the connections a thread may still claim;          *)
(* connectionPoolSem protects the vector of slots while it is scanned.     *)
(* Both scans are modelled one slot at a time, with the test of a slot and *)
(* the write to it in separate steps, so that what keeps two threads from  *)
(* taking one slot is the semaphore and not the grain of the model.        *)
(*                                                                         *)
(* A query() leaves a cursor, and its users give the connection back       *)
(* before they iterate it: a later batch is then fetched over a connection *)
(* the thread no longer holds (NextBatch).                                 *)
(***************************************************************************)
EXTENDS Naturals, FiniteSets

CONSTANTS
  Threads,      \* request threads, interval threads and the main thread
  PoolSize,     \* connectionPoolSize, option -dbPoolSize
  MaxOps,       \* bound: database operations of one thread
  AllConnect,   \* TRUE: mongoConnect succeeds for every slot at start-up
  LargeResults, \* TRUE: a query may match more documents than fit in a batch
  None          \* the owner of a connection nobody holds, in the contract

ASSUME PoolAssumption ==
  /\ IsFiniteSet(Threads)
  /\ PoolSize \in Nat \ {0}
  /\ MaxOps \in Nat
  /\ AllConnect \in BOOLEAN
  /\ LargeResults \in BOOLEAN
  /\ None \notin Threads

Slots == 1..PoolSize

\* A NULL DBClientBase*; the connection of slot ix is called ix.
NULL == 0

VARIABLES
  connection,         \* connectionPool[ix].connection
  free,               \* connectionPool[ix].free
  connectionSem,
  connectionPoolSem,
  pc,                 \* where each thread is
  ix,                 \* the loop variable of the scan a thread is in
  held,               \* the local variable 'connection' of each thread
  cursor,             \* the connection an open cursor of the thread points to
  ops,                \* operations each thread has left
  crashed             \* the process died dereferencing a NULL connection

vars == <<connection, free, connectionSem, connectionPoolSem,
          pc, ix, held, cursor, ops, crashed>>

PC == {"idle", "waitConnection", "waitPool", "scanGet", "takeSlot", "postGet",
       "using", "waitRelease", "scanRelease", "freeSlot", "postConnection",
       "postRelease", "more"}

Goto(t, label) == pc' = [pc EXCEPT ![t] = label]

-----------------------------------------------------------------------------
(* mongoConnect returns NULL after RECONNECT_RETRIES failed attempts, when  *)
(* the write concern cannot be set, when authentication fails or when the   *)
(* server's version cannot be parsed.                                       *)
mongoConnect(slot) == IF AllConnect THEN {slot} ELSE {slot, NULL}

(* mongoConnectionPoolInit stores whatever mongoConnect returned.           *)
mongoConnectionPoolInit ==
  /\ free = [slot \in Slots |-> TRUE]
  /\ connection \in [Slots -> Slots \union {NULL}]
  /\ \A slot \in Slots : connection[slot] \in mongoConnect(slot)
  /\ connectionPoolSem = 1
  /\ connectionSem = PoolSize

Init ==
  /\ mongoConnectionPoolInit
  /\ pc = [t \in Threads |-> "idle"]
  /\ ix = [t \in Threads |-> 1]
  /\ held = [t \in Threads |-> NULL]
  /\ cursor = [t \in Threads |-> NULL]
  /\ ops = [t \in Threads |-> MaxOps]
  /\ crashed = FALSE

-----------------------------------------------------------------------------
(* mongoPoolConnectionGet                                                   *)

GetCall(t) ==
  /\ pc[t] = "idle" /\ cursor[t] = NULL /\ ops[t] > 0
  /\ ops' = [ops EXCEPT ![t] = @ - 1]
  /\ Goto(t, "waitConnection")
  /\ UNCHANGED <<connection, free, connectionSem, connectionPoolSem, ix, held,
                 cursor, crashed>>

GetWaitConnection(t) ==
  /\ pc[t] = "waitConnection" /\ connectionSem > 0
  /\ connectionSem' = connectionSem - 1
  /\ Goto(t, "waitPool")
  /\ UNCHANGED <<connection, free, connectionPoolSem, ix, held, cursor, ops,
                 crashed>>

\* Mutant: the vector is scanned without taking connectionPoolSem.
GetWaitPoolUnlocked(t) ==
  /\ pc[t] = "waitPool" /\ connectionPoolSem > 0
  /\ ix' = [ix EXCEPT ![t] = 1]
  /\ Goto(t, "scanGet")
  /\ UNCHANGED <<connection, free, connectionSem, connectionPoolSem, held,
                 cursor, ops, crashed>>

GetWaitPool(t) ==
  /\ pc[t] = "waitPool" /\ connectionPoolSem > 0
  /\ connectionPoolSem' = connectionPoolSem - 1
  /\ ix' = [ix EXCEPT ![t] = 1]
  /\ Goto(t, "scanGet")
  /\ UNCHANGED <<connection, free, connectionSem, held, cursor, ops, crashed>>

(* The loop ends without a connection when no slot is free: the function   *)
(* then returns the NULL its variable was initialised with.                *)
GetTest(t) ==
  /\ pc[t] = "scanGet"
  /\ \/ /\ ix[t] > PoolSize
        /\ held' = [held EXCEPT ![t] = NULL]
        /\ Goto(t, "postGet")
        /\ UNCHANGED ix
     \/ /\ ix[t] <= PoolSize /\ free[ix[t]]
        /\ Goto(t, "takeSlot")
        /\ UNCHANGED <<ix, held>>
     \/ /\ ix[t] <= PoolSize /\ ~free[ix[t]]
        /\ ix' = [ix EXCEPT ![t] = @ + 1]
        /\ UNCHANGED <<pc, held>>
  /\ UNCHANGED <<connection, free, connectionSem, connectionPoolSem, cursor,
                 ops, crashed>>

GetTake(t) ==
  /\ pc[t] = "takeSlot"
  /\ free' = [free EXCEPT ![ix[t]] = FALSE]
  /\ held' = [held EXCEPT ![t] = connection[ix[t]]]
  /\ Goto(t, "postGet")
  /\ UNCHANGED <<connection, connectionSem, connectionPoolSem, ix, cursor, ops,
                 crashed>>

GetPost(t) ==
  /\ pc[t] = "postGet"
  /\ connectionPoolSem' = connectionPoolSem + 1
  /\ Goto(t, "using")
  /\ UNCHANGED <<connection, free, connectionSem, ix, held, cursor, ops,
                 crashed>>

-----------------------------------------------------------------------------
(* What the callers do with the connection between get and release.         *)

\* insert, update, remove, findOne, count, runCommand: the answer is complete
\* when the call returns, whether or not it ended in an exception.
Operate(t) ==
  /\ pc[t] = "using" /\ held[t] # NULL
  /\ Goto(t, "waitRelease")
  /\ UNCHANGED <<connection, free, connectionSem, connectionPoolSem, ix, held,
                 cursor, ops, crashed>>

\* query: a result larger than one batch leaves a cursor that still refers to
\* the connection.
OpenCursor(t) ==
  /\ LargeResults
  /\ pc[t] = "using" /\ held[t] # NULL
  /\ cursor' = [cursor EXCEPT ![t] = held[t]]
  /\ Goto(t, "waitRelease")
  /\ UNCHANGED <<connection, free, connectionSem, connectionPoolSem, ix, held,
                 ops, crashed>>

\* No caller tests the connection for NULL before calling a method on it.
DereferenceNull(t) ==
  /\ pc[t] = "using" /\ held[t] = NULL
  /\ crashed' = TRUE
  /\ UNCHANGED <<connection, free, connectionSem, connectionPoolSem, pc, ix,
                 held, cursor, ops>>

\* An invalid OID raises AssertionException before getMongoConnection, and the
\* handler releases the NULL the local variable still holds.
ReleaseNothing(t) ==
  /\ pc[t] = "idle" /\ cursor[t] = NULL /\ ops[t] > 0
  /\ ops' = [ops EXCEPT ![t] = @ - 1]
  /\ held' = [held EXCEPT ![t] = NULL]
  /\ Goto(t, "waitRelease")
  /\ UNCHANGED <<connection, free, connectionSem, connectionPoolSem, ix,
                 cursor, crashed>>

\* cursor->more() after the connection was released: one exchange per batch.
NextBatch(t) ==
  /\ pc[t] = "idle" /\ cursor[t] # NULL
  /\ Goto(t, "more")
  /\ UNCHANGED <<connection, free, connectionSem, connectionPoolSem, ix, held,
                 cursor, ops, crashed>>

BatchReceived(t) ==
  /\ pc[t] = "more"
  /\ \/ cursor' = [cursor EXCEPT ![t] = NULL]   \* the last batch
     \/ UNCHANGED cursor
  /\ Goto(t, "idle")
  /\ UNCHANGED <<connection, free, connectionSem, connectionPoolSem, ix, held,
                 ops, crashed>>

-----------------------------------------------------------------------------
(* mongoPoolConnectionRelease                                               *)

ReleaseWaitPool(t) ==
  /\ pc[t] = "waitRelease" /\ connectionPoolSem > 0
  /\ connectionPoolSem' = connectionPoolSem - 1
  /\ ix' = [ix EXCEPT ![t] = 1]
  /\ Goto(t, "scanRelease")
  /\ UNCHANGED <<connection, free, connectionSem, held, cursor, ops, crashed>>

ReleaseTest(t) ==
  /\ pc[t] = "scanRelease"
  /\ \/ /\ ix[t] > PoolSize
        /\ Goto(t, "postRelease")
        /\ UNCHANGED ix
     \/ /\ ix[t] <= PoolSize /\ connection[ix[t]] = held[t]
        /\ Goto(t, "freeSlot")
        /\ UNCHANGED ix
     \/ /\ ix[t] <= PoolSize /\ connection[ix[t]] # held[t]
        /\ ix' = [ix EXCEPT ![t] = @ + 1]
        /\ UNCHANGED pc
  /\ UNCHANGED <<connection, free, connectionSem, connectionPoolSem, held,
                 cursor, ops, crashed>>

ReleaseFree(t) ==
  /\ pc[t] = "freeSlot"
  /\ free' = [free EXCEPT ![ix[t]] = TRUE]
  /\ Goto(t, "postConnection")
  /\ UNCHANGED <<connection, connectionSem, connectionPoolSem, ix, held,
                 cursor, ops, crashed>>

\* Mutant: the counting semaphore is not given back.
ReleaseForgetsConnectionSem(t) ==
  /\ pc[t] = "postConnection"
  /\ Goto(t, "postRelease")
  /\ UNCHANGED <<connection, free, connectionSem, connectionPoolSem, ix, held,
                 cursor, ops, crashed>>

ReleasePostConnection(t) ==
  /\ pc[t] = "postConnection"
  /\ connectionSem' = connectionSem + 1
  /\ Goto(t, "postRelease")
  /\ UNCHANGED <<connection, free, connectionPoolSem, ix, held, cursor, ops,
                 crashed>>

ReleasePostPool(t) ==
  /\ pc[t] = "postRelease"
  /\ connectionPoolSem' = connectionPoolSem + 1
  /\ held' = [held EXCEPT ![t] = NULL]
  /\ Goto(t, "idle")
  /\ UNCHANGED <<connection, free, connectionSem, ix, cursor, ops, crashed>>

-----------------------------------------------------------------------------
Get(t) == \/ GetWaitConnection(t) \/ GetWaitPool(t) \/ GetTest(t)
          \/ GetTake(t) \/ GetPost(t)

Use(t) == \/ Operate(t) \/ OpenCursor(t) \/ DereferenceNull(t)
          \/ NextBatch(t) \/ BatchReceived(t)

Release(t) == \/ ReleaseWaitPool(t) \/ ReleaseTest(t) \/ ReleaseFree(t)
              \/ ReleasePostConnection(t) \/ ReleasePostPool(t)

Step(t) == /\ ~crashed
           /\ GetCall(t) \/ ReleaseNothing(t) \/ Get(t) \/ Use(t) \/ Release(t)

\* Every thread is through with its operations, or the process is gone.
Finished ==
  \/ crashed
  \/ \A t \in Threads : pc[t] = "idle" /\ cursor[t] = NULL /\ ops[t] = 0

Next == (\E t \in Threads : Step(t)) \/ (Finished /\ UNCHANGED vars)

Spec == Init /\ [][Next]_vars

(* A started call runs on: the scheduler gives every thread time, and the   *)
(* database answers or the driver's timeout ends the wait. A thread is not  *)
(* obliged to start an operation. POSIX semaphores promise no order among   *)
(* waiters, hence weak fairness only.                                       *)
Fairness ==
  \A t \in Threads : WF_vars(~crashed /\ (Get(t) \/ Use(t) \/ Release(t)))

FairSpec == Spec /\ Fairness

-----------------------------------------------------------------------------
TypeOK ==
  /\ connection \in [Slots -> Slots \union {NULL}]
  /\ free \in [Slots -> BOOLEAN]
  /\ connectionSem \in Nat
  /\ connectionPoolSem \in {0, 1}
  /\ pc \in [Threads -> PC]
  /\ ix \in [Threads -> 1..(PoolSize + 1)]
  /\ held \in [Threads -> Slots \union {NULL}]
  /\ cursor \in [Threads -> Slots \union {NULL}]
  /\ ops \in [Threads -> 0..MaxOps]
  /\ crashed \in BOOLEAN

\* Thread t has been given a connection and has not yet given it back.
Holding == {"postGet", "using", "waitRelease", "scanRelease", "freeSlot"}

Holds(t, c) == pc[t] \in Holding /\ held[t] = c

\* No connection is handed to two threads, whatever the interleaving of their
\* gets and releases, with unconnected slots and stray releases of NULL too
\* (mongoPoolConnectionGet, mongoPoolConnectionRelease).
HeldByOne ==
  \A s, t \in Threads, c \in Slots : Holds(s, c) /\ Holds(t, c) => s = t

AllConnected == \A slot \in Slots : connection[slot] # NULL

\* A thread that got past connectionSem always finds a free slot, so the scan
\* never runs off the end and no thread is handed NULL by a connected pool
\* (mongoPoolConnectionGet's loop has no other exit).
NeverEmptyHanded ==
  AllConnected => \A t \in Threads : pc[t] = "scanGet" => ix[t] <= PoolSize

\* The counting semaphore never promises more connections than are free: each
\* unit of connectionSem, and each thread past its sem_wait, has a slot.
SemMatchesSlots ==
  AllConnected =>
    connectionSem
      + Cardinality({t \in Threads : pc[t] \in {"waitPool", "scanGet", "takeSlot",
                                                "postConnection"}})
    = Cardinality({slot \in Slots : free[slot]})

\* A thread that starts to wait for a connection gets one, although all the
\* waiters compete and the semaphores are not fair
\* (mongoPoolConnectionGet: "wait for a connection to become avilable").
WaiterServed ==
  \A t \in Threads :
    (pc[t] = "waitConnection") ~> (pc[t] = "using" \/ crashed)

\* While a thread is in an exchange with the database over a connection, no
\* other thread is in an exchange over the same connection. Stated by
\* "Very important to call the function 'mongoPoolConnectionRelease' after
\* finishing using the connection !" (mongoConnectionPool.cpp).
Exchange(t) == IF pc[t] = "using" THEN held[t]
               ELSE IF pc[t] = "more" THEN cursor[t] ELSE NULL

ExchangeExclusive ==
  \A s, t \in Threads :
    s # t /\ Exchange(s) # NULL => Exchange(s) # Exchange(t)

-----------------------------------------------------------------------------
(* The pool, seen as who waits and who owns which connection.               *)

waitingBar == {t \in Threads : pc[t] \in {"waitConnection", "waitPool",
                                          "scanGet", "takeSlot"}}

ownerBar == [c \in Slots |-> IF \E t \in Threads : Holds(t, c)
                             THEN CHOOSE t \in Threads : Holds(t, c)
                             ELSE None]

Contract == INSTANCE PoolContract WITH
  Connections <- Slots, waiting <- waitingBar, owner <- ownerBar

\* When every slot has a connection, each step of the pool's threads is a call,
\* a grant or a return of the contract, or changes nothing in it
\* (mongoPoolConnectionGet and mongoPoolConnectionRelease implement the
\* contract). A slot that failed to connect is given out as if it had one.
ImplementsContract ==
  Contract!Init /\ [][AllConnected => [Contract!Next]_(Contract!vars)]_vars
=============================================================================
