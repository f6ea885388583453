---------------------------- MODULE PoolContract ----------------------------
(***************************************************************************)
(* What the connection pool promises its callers, without semaphores: a    *)
(* caller waits until it is granted a connection nobody owns, and owns it  *)
(* until it gives it back. Nobody who waits is sent away without one.      *)
(***************************************************************************)
CONSTANTS Threads, Connections, None

VARIABLES
  waiting,  \* the threads inside mongoPoolConnectionGet
  owner     \* the thread that owns each connection, or None

vars == <<waiting, owner>>

Init ==
  /\ waiting = {}
  /\ owner = [c \in Connections |-> None]

Call(t) ==
  /\ t \notin waiting
  /\ waiting' = waiting \union {t}
  /\ UNCHANGED owner

Grant(t, c) ==
  /\ t \in waiting /\ owner[c] = None
  /\ waiting' = waiting \ {t}
  /\ owner' = [owner EXCEPT ![c] = t]

GiveBack(t, c) ==
  /\ owner[c] = t
  /\ owner' = [owner EXCEPT ![c] = None]
  /\ UNCHANGED waiting

Next ==
  \E t \in Threads :
    \/ Call(t)
    \/ \E c \in Connections : Grant(t, c) \/ GiveBack(t, c)

Spec == Init /\ [][Next]_vars
=============================================================================
