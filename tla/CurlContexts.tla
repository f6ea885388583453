---------------------------- MODULE CurlContexts ----------------------------
(***************************************************************************)
(* The HTTP client of the broker: httpRequestSend and the libcurl handles  *)
(* that its callers (notification senders, forwarding request threads)     *)
(* share, one per destination host, kept in the map 'contexts' of          *)
(* lib/common/sem.cpp. A libcurl handle must not be used by two threads at *)
(* a time: each has a mutex, taken by get_curl_context and released by     *)
(* release_curl_context. contexts_mutex protects the map, and, when        *)
(* waiting times are measured, the accumulator of those times.             *)
(***************************************************************************)
EXTENDS Naturals, FiniteSets

CONSTANTS
  Senders,      \* threads that call httpRequestSend
  Hosts,        \* destination hosts, the keys of the map
  MaxSends,     \* bound: calls of one sender
  MaxHandles,   \* bound: calls of curl_easy_init
  TimeStat,     \* semTimeStatistics, option -mutexTimeStat
  Timeout,      \* TRUE: requests time out (-httpTimeout is not 0)
  AllocFails    \* TRUE: curl_easy_init, malloc and mutex_init may fail

ASSUME CurlAssumption ==
  /\ MaxSends \in Nat /\ MaxHandles \in Nat
  /\ TimeStat \in BOOLEAN /\ Timeout \in BOOLEAN /\ AllocFails \in BOOLEAN

Handles == 1..MaxHandles
NULL == 0
Nobody == "nobody"
NoHost == "no host"

ASSUME NobodyAssumption == Nobody \notin Senders /\ NoHost \notin Hosts

VARIABLES
  contexts,        \* the map: Hosts -> handle, NULL when there is no entry
  contexts_mutex,  \* its owner
  handleMutex,     \* owner of the mutex of each handle
  made,            \* handles made so far
  pc,              \* where each sender is
  host,            \* the host it sends to
  curl,            \* cc.curl
  pmutex,          \* cc.pmutex, named by its handle
  sends            \* calls each sender has left

vars == <<contexts, contexts_mutex, handleMutex, made, pc, host, curl, pmutex, sends>>

Goto(t, label) == pc' = [pc EXCEPT ![t] = label]

Init ==
  /\ contexts = [h \in Hosts |-> NULL]
  /\ contexts_mutex = Nobody
  /\ handleMutex = [c \in Handles |-> Nobody]
  /\ made = 0
  /\ pc = [t \in Senders |-> "idle"]
  /\ host = [t \in Senders |-> NoHost]
  /\ curl = [t \in Senders |-> NULL]
  /\ pmutex = [t \in Senders |-> NULL]
  /\ sends = [t \in Senders |-> MaxSends]

\* pthread_mutex_lock and pthread_mutex_unlock of contexts_mutex
LockContexts(t, from, to) ==
  /\ pc[t] = from /\ contexts_mutex = Nobody
  /\ contexts_mutex' = t
  /\ Goto(t, to)

UnlockContexts(t, from, to) ==
  /\ pc[t] = from
  /\ contexts_mutex' = Nobody
  /\ Goto(t, to)

-----------------------------------------------------------------------------
(* httpRequestSend up to get_curl_context, and get_curl_context             *)

\* The preconditions of the call hold; otherwise it returns before it touches
\* any of this state.
Send(t) ==
  /\ pc[t] = "idle" /\ sends[t] > 0
  /\ sends' = [sends EXCEPT ![t] = @ - 1]
  /\ \E h \in Hosts : host' = [host EXCEPT ![t] = h]
  /\ Goto(t, "lock")
  /\ UNCHANGED <<contexts, contexts_mutex, handleMutex, made, curl, pmutex>>

\* Mutant: the map is read and written without contexts_mutex.
GetLockUnlocked(t) ==
  /\ pc[t] = "lock"
  /\ Goto(t, "find")
  /\ UNCHANGED <<contexts, contexts_mutex, handleMutex, made, host, curl, pmutex, sends>>

GetLock(t) ==
  /\ LockContexts(t, "lock", "find")
  /\ UNCHANGED <<contexts, handleMutex, made, host, curl, pmutex, sends>>

Find(t) ==
  /\ pc[t] = "find"
  /\ \/ /\ contexts[host[t]] # NULL
        /\ curl' = [curl EXCEPT ![t] = contexts[host[t]]]
        /\ pmutex' = [pmutex EXCEPT ![t] = contexts[host[t]]]
        /\ Goto(t, "unlock")
     \/ /\ contexts[host[t]] = NULL
        /\ Goto(t, "create")
        /\ UNCHANGED <<curl, pmutex>>
  /\ UNCHANGED <<contexts, contexts_mutex, handleMutex, made, host, sends>>

Create(t) ==
  /\ pc[t] = "create" /\ made < MaxHandles
  /\ made' = made + 1
  /\ curl' = [curl EXCEPT ![t] = made + 1]
  /\ pmutex' = [pmutex EXCEPT ![t] = made + 1]
  /\ contexts' = [contexts EXCEPT ![host[t]] = made + 1]
  /\ Goto(t, "unlock")
  /\ UNCHANGED <<contexts_mutex, handleMutex, host, sends>>

\* curl_easy_init returned NULL.
CreateNothing(t) ==
  /\ AllocFails /\ pc[t] = "create"
  /\ Goto(t, "unlock")
  /\ UNCHANGED <<contexts, contexts_mutex, handleMutex, made, host, curl, pmutex, sends>>

(* malloc or pthread_mutex_init failed: get_curl_context returns with       *)
(* contexts_mutex locked. Its caller looks at cc.curl alone, and sends with *)
(* the handle that is not in the map.                                       *)
CreateHandleOnly(t) ==
  /\ AllocFails /\ pc[t] = "create" /\ made < MaxHandles
  /\ made' = made + 1
  /\ curl' = [curl EXCEPT ![t] = made + 1]
  /\ Goto(t, "perform")
  /\ UNCHANGED <<contexts, contexts_mutex, handleMutex, host, pmutex, sends>>

GetUnlock(t) ==
  /\ UnlockContexts(t, "unlock", IF pmutex[t] = NULL THEN "release" ELSE "lockHandle")
  /\ UNCHANGED <<contexts, handleMutex, made, host, curl, pmutex, sends>>

LockHandle(t) ==
  /\ pc[t] = "lockHandle" /\ handleMutex[pmutex[t]] = Nobody
  /\ handleMutex' = [handleMutex EXCEPT ![pmutex[t]] = t]
  /\ Goto(t, IF TimeStat THEN "lockStat" ELSE "perform")
  /\ UNCHANGED <<contexts, contexts_mutex, made, host, curl, pmutex, sends>>

\* The waiting time is added under contexts_mutex, with the handle held.
LockStat(t) ==
  /\ LockContexts(t, "lockStat", "unlockStat")
  /\ UNCHANGED <<contexts, handleMutex, made, host, curl, pmutex, sends>>

UnlockStat(t) ==
  /\ UnlockContexts(t, "unlockStat", "perform")
  /\ UNCHANGED <<contexts, handleMutex, made, host, curl, pmutex, sends>>

-----------------------------------------------------------------------------
(* The request itself, and release_curl_context                             *)

\* The options are set and curl_easy_perform runs; or the message is too large
\* and is not sent.
Perform(t) ==
  /\ pc[t] = "perform"
  /\ Goto(t, "release")
  /\ UNCHANGED <<contexts, contexts_mutex, handleMutex, made, host, curl, pmutex, sends>>

\* Mutant: the mutex is unlocked before the handle is reset.
ReleaseUnlockFirst(t) ==
  /\ pc[t] = "release"
  /\ handleMutex' = [c \in Handles |-> IF c = pmutex[t] THEN Nobody ELSE handleMutex[c]]
  /\ Goto(t, "unlockHandle")
  /\ UNCHANGED <<contexts, contexts_mutex, made, host, curl, pmutex, sends>>

\* curl_easy_reset, when there is a handle
Reset(t) ==
  /\ pc[t] = "release"
  /\ curl' = [curl EXCEPT ![t] = NULL]
  /\ Goto(t, "unlockHandle")
  /\ UNCHANGED <<contexts, contexts_mutex, handleMutex, made, host, pmutex, sends>>

\* Mutant: the mutex stays locked after the call.
UnlockHandleForgotten(t) ==
  /\ pc[t] = "unlockHandle"
  /\ pmutex' = [pmutex EXCEPT ![t] = NULL]
  /\ curl' = [curl EXCEPT ![t] = NULL]
  /\ host' = [host EXCEPT ![t] = NoHost]
  /\ Goto(t, "idle")
  /\ UNCHANGED <<contexts, contexts_mutex, handleMutex, made, sends>>

UnlockHandle(t) ==
  /\ pc[t] = "unlockHandle"
  /\ handleMutex' = [c \in Handles |-> IF c = pmutex[t] THEN Nobody ELSE handleMutex[c]]
  /\ pmutex' = [pmutex EXCEPT ![t] = NULL]
  /\ curl' = [curl EXCEPT ![t] = NULL]
  /\ host' = [host EXCEPT ![t] = NoHost]
  /\ Goto(t, "idle")
  /\ UNCHANGED <<contexts, contexts_mutex, made, sends>>

-----------------------------------------------------------------------------
Step(t) ==
  \/ GetLock(t) \/ Find(t) \/ Create(t) \/ CreateNothing(t) \/ CreateHandleOnly(t)
  \/ GetUnlock(t) \/ LockHandle(t) \/ LockStat(t) \/ UnlockStat(t)
  \/ Reset(t) \/ UnlockHandle(t)

Next == \E t \in Senders : Send(t) \/ Step(t) \/ Perform(t)

(* A thread that can run again and again runs: with strong fairness a mutex *)
(* reaches each of its waiters in the end. curl_easy_perform returns when   *)
(* there is a timeout.                                                      *)
Fairness ==
  \A t \in Senders : SF_vars(Step(t)) /\ (Timeout => WF_vars(Perform(t)))

Spec == Init /\ [][Next]_vars
FairSpec == Spec /\ Fairness

-----------------------------------------------------------------------------
PC == {"idle", "lock", "find", "create", "unlock", "lockHandle", "lockStat",
       "unlockStat", "perform", "release", "unlockHandle"}

\* The types; the map holds only handles that were made, and a sender waits for
\* the mutex of a handle it has (get_curl_context on an empty context).
TypeOK ==
  /\ contexts \in [Hosts -> 0..made]
  /\ contexts_mutex \in Senders \union {Nobody}
  /\ handleMutex \in [Handles -> Senders \union {Nobody}]
  /\ made \in 0..MaxHandles
  /\ pc \in [Senders -> PC]
  /\ host \in [Senders -> Hosts \union {NoHost}]
  /\ curl \in [Senders -> 0..MaxHandles]
  /\ pmutex \in [Senders -> 0..MaxHandles]
  /\ sends \in [Senders -> 0..MaxSends]
  /\ \A t \in Senders : pc[t] = "lockHandle" => pmutex[t] # NULL

Uses(t, c) == curl[t] = c /\ pc[t] \in {"lockStat", "unlockStat", "perform", "release", "unlockHandle"}

\* No libcurl handle is used by two threads at a time, its reset included,
\* also when get_curl_context failed half-way.
HandleExclusive ==
  \A t, u \in Senders, c \in Handles : Uses(t, c) /\ Uses(u, c) => t = u

\* The requests to one host go out one at a time.
HostSerial ==
  \A t, u \in Senders :
    pc[t] = "perform" /\ pc[u] = "perform" /\ host[t] = host[u] => t = u

\* An entry of the map is never replaced: a thread that read it and waits for
\* its mutex waits for the one that is in use.
EntriesStay ==
  [][\A h \in Hosts : contexts[h] # NULL => contexts'[h] = contexts[h]]_vars

\* contexts_mutex is held by a sender that is past the code it protects: what
\* get_curl_context leaves behind when malloc or pthread_mutex_init fails.
MapLockLeaked ==
  \E t \in Senders : /\ contexts_mutex = t
                     /\ pc[t] \notin {"find", "create", "unlock", "unlockStat"}

\* Every call of httpRequestSend returns, though a sender waits for
\* contexts_mutex while it holds a handle, unless an allocation failed.
SendsFinish ==
  \A t \in Senders : pc[t] # "idle" ~> (pc[t] = "idle" \/ MapLockLeaked)
=============================================================================
