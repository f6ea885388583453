------------------------- MODULE CurlContextsProofs -------------------------
(* Proofs about CurlContexts, for every number of senders, hosts, handles   *)
(* and calls, with and without statistics and failing allocations.          *)
EXTENDS CurlContexts, TLAPS

\* The labels from the lock of a handle's mutex to its unlock.
Locked == {"lockStat", "unlockStat", "perform", "release", "unlockHandle"}

\* The labels between a lock and an unlock of contexts_mutex.
InMap == {"find", "create", "unlock", "unlockStat"}

\* A sender has a host while it sends, and only handles that were made.
Bounded ==
  \A t \in Senders : /\ pc[t] # "idle" => host[t] \in Hosts
                     /\ curl[t] <= made
                     /\ pmutex[t] <= made

\* Before get_curl_context has found or made one, there is no handle; whoever
\* waits for a handle, or adds up how long it waited, has one with a mutex.
NothingYet ==
  \A t \in Senders :
    /\ pc[t] \in {"idle", "lock", "find", "create"} => curl[t] = NULL /\ pmutex[t] = NULL
    /\ pc[t] \in {"lockHandle", "lockStat", "unlockStat"} => pmutex[t] # NULL

\* contexts_mutex is a lock.
MapLock == \A t \in Senders : pc[t] \in InMap => contexts_mutex = t

\* Past the lock of its handle, a sender owns the mutex.
HandleLock ==
  \A t \in Senders :
    pc[t] \in Locked /\ pmutex[t] # NULL => handleMutex[pmutex[t]] = t

\* The handle whose mutex could not be made is known to one sender alone.
Private(t) ==
  /\ \A h \in Hosts : contexts[h] # curl[t]
  /\ \A u \in Senders : u # t => curl[u] # curl[t] /\ pmutex[u] # curl[t]

\* A sender uses the handle whose mutex it has, or a private one.
OwnHandle ==
  \A t \in Senders : curl[t] # NULL => curl[t] = pmutex[t] \/ (pmutex[t] = NULL /\ Private(t))

\* A sender's handle is that of its host; without a mutex, it sends only while
\* it keeps everybody from the map, in which its host has no entry.
HandleOfHost ==
  \A t \in Senders :
    /\ pmutex[t] # NULL => contexts[host[t]] = pmutex[t]
    /\ pc[t] = "perform" /\ pmutex[t] = NULL =>
         contexts_mutex = t /\ contexts[host[t]] = NULL
    /\ pc[t] = "create" => contexts[host[t]] = NULL

IndInv ==
  /\ TypeOK
  /\ Bounded
  /\ NothingYet
  /\ MapLock
  /\ HandleLock
  /\ OwnHandle
  /\ HandleOfHost

LEMMA InitIndInv == Init => IndInv
  BY CurlAssumption, NobodyAssumption
  DEF Init, IndInv, TypeOK, Bounded, NothingYet, MapLock, HandleLock, OwnHandle,
      HandleOfHost, PC, NULL, Handles, Locked, InMap

LEMMA NextIndInv == IndInv /\ [Next]_vars => IndInv'
  <1> SUFFICES ASSUME IndInv, [Next]_vars PROVE IndInv'
    OBVIOUS
  <1> USE CurlAssumption, NobodyAssumption
      DEF IndInv, TypeOK, Bounded, NothingYet, MapLock, HandleLock, OwnHandle, Private,
          HandleOfHost, PC, NULL, Handles, Locked, InMap, Goto
  <1>1. ASSUME NEW t \in Senders, Send(t) PROVE IndInv'
    BY <1>1 DEF Send
  <1>2. ASSUME NEW t \in Senders, GetLock(t) PROVE IndInv'
    BY <1>2 DEF GetLock, LockContexts
  <1>3. ASSUME NEW t \in Senders, Find(t) PROVE IndInv'
    <2>1. CASE contexts[host[t]] = NULL
      <3>1. /\ pc' = [pc EXCEPT ![t] = "create"]
            /\ pc[t] = "find"
            /\ UNCHANGED <<contexts, contexts_mutex, handleMutex, made, host, curl, pmutex,
                           sends>>
        BY <1>3, <2>1 DEF Find
      <3>2. TypeOK' /\ Bounded' /\ NothingYet' /\ MapLock'
        BY <3>1
      <3>3. HandleLock' /\ OwnHandle' /\ HandleOfHost'
        BY <3>1, <2>1
      <3> QED BY <3>2, <3>3
    <2>2. CASE contexts[host[t]] # NULL
      <3>1. /\ curl' = [curl EXCEPT ![t] = contexts[host[t]]]
            /\ pmutex' = [pmutex EXCEPT ![t] = contexts[host[t]]]
            /\ pc' = [pc EXCEPT ![t] = "unlock"]
            /\ pc[t] = "find"
            /\ UNCHANGED <<contexts, contexts_mutex, handleMutex, made, host, sends>>
        BY <1>3, <2>2 DEF Find
      <3>2. contexts[host[t]] \in 1..made
        BY <3>1, <2>2
      <3>3. TypeOK' /\ Bounded' /\ NothingYet' /\ MapLock'
        BY <3>1, <3>2
      <3>4. HandleLock' /\ HandleOfHost'
        BY <3>1, <3>2
      <3>5. OwnHandle'
        BY <3>1, <3>2
      <3> QED BY <3>3, <3>4, <3>5
    <2> QED BY <2>1, <2>2
  <1>4. ASSUME NEW t \in Senders, Create(t) PROVE IndInv'
    BY <1>4 DEF Create
  <1>5. ASSUME NEW t \in Senders, CreateNothing(t) PROVE IndInv'
    BY <1>5 DEF CreateNothing
  <1>6. ASSUME NEW t \in Senders, CreateHandleOnly(t) PROVE IndInv'
    BY <1>6 DEF CreateHandleOnly
  <1>7. ASSUME NEW t \in Senders, GetUnlock(t) PROVE IndInv'
    BY <1>7 DEF GetUnlock, UnlockContexts
  <1>8. ASSUME NEW t \in Senders, LockHandle(t) PROVE IndInv'
    BY <1>8 DEF LockHandle
  <1>9. ASSUME NEW t \in Senders, LockStat(t) PROVE IndInv'
    BY <1>9 DEF LockStat, LockContexts
  <1>10. ASSUME NEW t \in Senders, UnlockStat(t) PROVE IndInv'
    BY <1>10 DEF UnlockStat, UnlockContexts
  <1>11. ASSUME NEW t \in Senders, Perform(t) PROVE IndInv'
    BY <1>11 DEF Perform
  <1>12. ASSUME NEW t \in Senders, Reset(t) PROVE IndInv'
    BY <1>12 DEF Reset
  <1>13. ASSUME NEW t \in Senders, UnlockHandle(t) PROVE IndInv'
    BY <1>13 DEF UnlockHandle
  <1>14. CASE UNCHANGED vars
    BY <1>14 DEF vars
  <1> QED
    BY <1>1, <1>2, <1>3, <1>4, <1>5, <1>6, <1>7, <1>8, <1>9, <1>10, <1>11, <1>12, <1>13, <1>14 DEF Next, Step

\* The map, the mutexes and the senders keep their types, and whoever waits for
\* the mutex of a handle has one (get_curl_context).
THEOREM CurlTyped == Spec => []TypeOK
  <1>1. IndInv => TypeOK
    BY DEF IndInv
  <1> QED BY InitIndInv, NextIndInv, <1>1, PTL DEF Spec

\* No libcurl handle is used by two threads at a time, for any number of
\* senders and hosts, whatever allocation fails (get_curl_context,
\* release_curl_context).
THEOREM CurlHandleExclusive == Spec => []HandleExclusive
  <1>1. IndInv => HandleExclusive
    <2> SUFFICES ASSUME IndInv, NEW t \in Senders, NEW u \in Senders, NEW c \in Handles,
                        Uses(t, c), Uses(u, c)
                 PROVE t = u
      BY DEF HandleExclusive
    <2>1. c # NULL
      BY CurlAssumption DEF Handles, NULL
    <2>2. CASE pmutex[t] = c /\ pmutex[u] = c
      BY <2>1, <2>2 DEF IndInv, HandleLock, Locked, Uses
    <2>3. CASE pmutex[t] # c \/ pmutex[u] # c
      BY <2>1, <2>3 DEF IndInv, OwnHandle, Private, Uses
    <2> QED BY <2>2, <2>3
  <1> QED BY InitIndInv, NextIndInv, <1>1, PTL DEF Spec

\* The requests to one host go out one at a time (httpRequestSend).
THEOREM CurlHostSerial == Spec => []HostSerial
  <1>1. IndInv => HostSerial
    <2> SUFFICES ASSUME IndInv, NEW t \in Senders, NEW u \in Senders,
                        pc[t] = "perform", pc[u] = "perform", host[t] = host[u]
                 PROVE t = u
      BY DEF HostSerial
    <2>1. CASE pmutex[t] # NULL /\ pmutex[u] # NULL
      <3>1. pmutex[t] = pmutex[u]
        BY <2>1 DEF IndInv, HandleOfHost
      <3>2. handleMutex[pmutex[t]] = t /\ handleMutex[pmutex[u]] = u
        BY <2>1 DEF IndInv, HandleLock, Locked
      <3> QED BY <3>1, <3>2
    <2>2. CASE pmutex[t] = NULL \/ pmutex[u] = NULL
      BY <2>2 DEF IndInv, HandleOfHost
    <2> QED BY <2>1, <2>2
  <1> QED BY InitIndInv, NextIndInv, <1>1, PTL DEF Spec

\* An entry of the map is never replaced, because only a thread that found none
\* under contexts_mutex inserts (get_curl_context).
THEOREM CurlEntriesStay == Spec => EntriesStay
  <1>1. IndInv /\ [Next]_vars =>
          [\A h \in Hosts : contexts[h] # NULL => contexts'[h] = contexts[h]]_vars
    <2> SUFFICES ASSUME IndInv, Next, NEW h \in Hosts, contexts[h] # NULL
                 PROVE contexts'[h] = contexts[h]
      OBVIOUS
    <2>1. ASSUME NEW t \in Senders, Create(t) PROVE contexts'[h] = contexts[h]
      BY <2>1 DEF Create, IndInv, TypeOK, HandleOfHost, Bounded
    <2>2. ASSUME NEW t \in Senders, ~Create(t), Send(t) \/ Step(t) \/ Perform(t)
          PROVE UNCHANGED contexts
      BY <2>2 DEF Send, Step, Perform, GetLock, Find, CreateNothing, CreateHandleOnly,
                  GetUnlock, LockHandle, LockStat, UnlockStat, Reset, UnlockHandle
    <2> QED BY <2>1, <2>2 DEF Next
  <1> QED BY InitIndInv, NextIndInv, <1>1, PTL DEF Spec, EntriesStay
=============================================================================
