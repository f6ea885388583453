------------------------------- MODULE ReqSem -------------------------------
(***************************************************************************)
(* The request semaphore of lib/common/sem.cpp. Every entry point of       *)
(* mongoBackend takes it, saying whether it reads or writes, and gives it  *)
(* back. The option -reqMutexPolicy decides which of them really wait.     *)
(***************************************************************************)
EXTENDS Naturals

CONSTANTS
  Workers,  \* the request threads
  Policy    \* reqPolicy: "all" (SemReadWriteOp), "read", "write" or "none"

ASSUME PolicyAssumption == Policy \in {"all", "read", "write", "none"}

VARIABLES
  reqSem,       \* the value of the semaphore
  reqSemTaken   \* the variable 'reqSemTaken' of each request thread

semVars == <<reqSem, reqSemTaken>>

SemTypeOK ==
  /\ reqSem \in 0..1
  /\ reqSemTaken \in [Workers -> BOOLEAN]

(* semInit is called with the value 1: the semaphore is free.               *)
semInit ==
  /\ reqSem = 1
  /\ reqSemTaken = [w \in Workers |-> FALSE]

\* The policies under which an operation of a kind goes past the semaphore.
Bypassed(kind) == Policy = "none" \/ (Policy \in {"read", "write"} /\ Policy # kind)

reqSemTake(w, kind) ==
  /\ Bypassed(kind) \/ reqSem > 0
  /\ reqSem' = IF Bypassed(kind) THEN reqSem ELSE reqSem - 1
  /\ reqSemTaken' = [reqSemTaken EXCEPT ![w] = ~Bypassed(kind)]

reqSemGive(w) ==
  /\ reqSem' = IF reqSemTaken[w] THEN reqSem + 1 ELSE reqSem
  /\ reqSemTaken' = [reqSemTaken EXCEPT ![w] = FALSE]

\* A function that takes the semaphore for one database operation and gives
\* it back, in one step.
WithReqSem(kind) ==
  /\ Bypassed(kind) \/ reqSem > 0
  /\ UNCHANGED semVars

\* A return statement before reqSemGive: the variable goes out of scope, the
\* semaphore stays taken.
ReturnWithoutGive(w) ==
  /\ reqSemTaken' = [reqSemTaken EXCEPT ![w] = FALSE]
  /\ UNCHANGED reqSem
=============================================================================
