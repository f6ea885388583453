---------------------------- MODULE ReqSemProofs ----------------------------
(* The request semaphore as a lock: what taking it and giving it back do to *)
(* the thread that has it, for every policy and any number of threads. The  *)
(* proofs about the handlers rest on these lemmas.                          *)
EXTENDS ReqSem, FiniteSetTheorems, TLAPS

\* The semaphore is binary, it is 0 exactly while a thread has it, and one
\* thread has it at most.
SemLock ==
  /\ reqSem \in {0, 1}
  /\ reqSemTaken \in [Workers -> BOOLEAN]
  /\ \A v, w \in Workers : reqSemTaken[v] /\ reqSemTaken[w] => v = w
  /\ (reqSem = 1) <=> (\A w \in Workers : ~reqSemTaken[w])

LEMMA SemLockInit == semInit => SemLock
  <1> SUFFICES ASSUME semInit PROVE SemLock
    OBVIOUS
  <1>1. reqSemTaken \in [Workers -> BOOLEAN] /\ \A w \in Workers : ~reqSemTaken[w]
    BY Zenon DEF semInit
  <1>2. reqSem = 1
    BY DEF semInit
  <1> QED BY <1>1, <1>2 DEF SemLock

\* A thread that does not have the semaphore takes it, or goes past it.
LEMMA SemLockTake ==
  ASSUME SemLock, NEW w \in Workers, NEW kind, ~reqSemTaken[w], reqSemTake(w, kind)
  PROVE  /\ SemLock'
         /\ reqSemTaken'[w] <=> ~Bypassed(kind)
         /\ \A v \in Workers \ {w} : reqSemTaken'[v] = reqSemTaken[v]
  <1>0. /\ Bypassed(kind) \/ reqSem > 0
        /\ reqSem' = IF Bypassed(kind) THEN reqSem ELSE reqSem - 1
    BY DEF reqSemTake
  <1> USE DEF SemLock
  <1>1. CASE Bypassed(kind)
    <2>a. (~Bypassed(kind)) = FALSE
      BY <1>1, Zenon
    <2>b. reqSemTaken' = [reqSemTaken EXCEPT ![w] = FALSE]
      BY <2>a, Zenon DEF reqSemTake
    <2>1. reqSemTaken' = reqSemTaken
      BY <2>b
    <2> QED BY <1>0, <1>1, <2>1
  <1>2. CASE ~Bypassed(kind)
    <2>a. (~Bypassed(kind)) = TRUE
      BY <1>2, Zenon
    <2>b. reqSemTaken' = [reqSemTaken EXCEPT ![w] = TRUE]
      BY <2>a, Zenon DEF reqSemTake
    <2>c. reqSem > 0 /\ reqSem' = reqSem - 1
      BY <1>0, <1>2
    <2>1. /\ reqSem = 1 /\ reqSem' = 0
          /\ reqSemTaken' = [reqSemTaken EXCEPT ![w] = TRUE]
          /\ \A v \in Workers : ~reqSemTaken[v]
      BY <2>b, <2>c
    <2>2. reqSemTaken'[w] /\ \A v \in Workers \ {w} : ~reqSemTaken'[v]
      BY <2>1
    <2>3. \A v \in Workers \ {w} : reqSemTaken'[v] = reqSemTaken[v]
      BY <2>1
    <2>4. reqSemTaken' \in [Workers -> BOOLEAN]
      BY <2>1
    <2>5. SemLock'
      BY <2>1, <2>2, <2>4
    <2> QED BY <1>2, <2>2, <2>3, <2>5
  <1> QED BY <1>1, <1>2

LEMMA SemLockGive ==
  ASSUME SemLock, NEW w \in Workers, reqSemGive(w)
  PROVE  /\ SemLock' /\ ~reqSemTaken'[w]
         /\ \A v \in Workers \ {w} : reqSemTaken'[v] = reqSemTaken[v]
  <1> USE DEF SemLock, reqSemGive
  <1>1. CASE reqSemTaken[w]
    <2>1. /\ reqSem = 0 /\ reqSem' = 1
          /\ reqSemTaken' = [reqSemTaken EXCEPT ![w] = FALSE]
      BY <1>1
    <2> QED BY <1>1, <2>1
  <1>2. CASE ~reqSemTaken[w]
    <2>1. reqSem' = reqSem /\ reqSemTaken' = [reqSemTaken EXCEPT ![w] = FALSE]
      BY <1>2
    <2>2. reqSemTaken' = reqSemTaken
      BY <1>2, <2>1
    <2> QED BY <1>2, <2>1, <2>2
  <1> QED BY <1>1, <1>2

\* What is left of the lock where a handler may return without giving the
\* semaphore back: then nobody gets it any more.
SemExclusive ==
  /\ reqSem \in {0, 1}
  /\ reqSemTaken \in [Workers -> BOOLEAN]
  /\ \A v, w \in Workers : reqSemTaken[v] /\ reqSemTaken[w] => v = w
  /\ reqSem = 1 => \A w \in Workers : ~reqSemTaken[w]

LEMMA SemExclusiveTake ==
  ASSUME SemExclusive, NEW w \in Workers, NEW kind, ~reqSemTaken[w], reqSemTake(w, kind)
  PROVE  /\ SemExclusive'
         /\ reqSemTaken'[w] <=> ~Bypassed(kind)
         /\ \A v \in Workers \ {w} : reqSemTaken'[v] = reqSemTaken[v]
  <1>0. /\ Bypassed(kind) \/ reqSem > 0
        /\ reqSem' = IF Bypassed(kind) THEN reqSem ELSE reqSem - 1
    BY DEF reqSemTake
  <1> USE DEF SemExclusive
  <1>1. CASE Bypassed(kind)
    <2>1. (~Bypassed(kind)) = FALSE
      BY <1>1, Zenon
    <2>2. reqSemTaken' = [reqSemTaken EXCEPT ![w] = FALSE]
      BY <2>1, Zenon DEF reqSemTake
    <2>3. reqSemTaken' = reqSemTaken
      BY <2>2
    <2> QED BY <1>0, <1>1, <2>3
  <1>2. CASE ~Bypassed(kind)
    <2>1. (~Bypassed(kind)) = TRUE
      BY <1>2, Zenon
    <2>2. reqSemTaken' = [reqSemTaken EXCEPT ![w] = TRUE]
      BY <2>1, Zenon DEF reqSemTake
    <2>3. reqSem = 1 /\ reqSem' = 0 /\ \A v \in Workers : ~reqSemTaken[v]
      BY <1>0, <1>2
    <2>4. /\ reqSemTaken' \in [Workers -> BOOLEAN] /\ reqSemTaken'[w]
          /\ \A v \in Workers \ {w} : reqSemTaken'[v] = reqSemTaken[v]
      BY <2>2
    <2> QED BY <1>2, <2>3, <2>4
  <1> QED BY <1>1, <1>2

LEMMA SemExclusiveGive ==
  ASSUME SemExclusive, NEW w \in Workers, reqSemGive(w) \/ ReturnWithoutGive(w)
  PROVE  /\ SemExclusive' /\ ~reqSemTaken'[w]
         /\ \A v \in Workers \ {w} : reqSemTaken'[v] = reqSemTaken[v]
  <1> USE DEF SemExclusive
  <1>1. /\ reqSemTaken' \in [Workers -> BOOLEAN] /\ ~reqSemTaken'[w]
        /\ \A v \in Workers \ {w} : reqSemTaken'[v] = reqSemTaken[v]
    BY DEF reqSemGive, ReturnWithoutGive
  <1>2. CASE reqSemTaken[w]
    <2>1. reqSem = 0 /\ reqSem' \in {0, 1} /\ \A v \in Workers \ {w} : ~reqSemTaken[v]
      BY <1>2 DEF reqSemGive, ReturnWithoutGive
    <2> QED BY <1>1, <2>1
  <1>3. CASE ~reqSemTaken[w]
    <2>1. reqSem' = reqSem
      BY <1>3 DEF reqSemGive, ReturnWithoutGive
    <2> QED BY <1>1, <1>3, <2>1
  <1> QED BY <1>2, <1>3

\* The lock, counted: one unit is in the semaphore or with a thread.
LEMMA SemLockCount ==
  SemLock => reqSem + Cardinality({w \in Workers : reqSemTaken[w]}) = 1
  <1> SUFFICES ASSUME SemLock
               PROVE  reqSem + Cardinality({w \in Workers : reqSemTaken[w]}) = 1
    OBVIOUS
  <1>1. CASE \A w \in Workers : ~reqSemTaken[w]
    <2>1. {w \in Workers : reqSemTaken[w]} = {}
      BY <1>1
    <2> QED BY <1>1, <2>1, FS_EmptySet DEF SemLock
  <1>2. ASSUME NEW v \in Workers, reqSemTaken[v]
        PROVE  reqSem + Cardinality({w \in Workers : reqSemTaken[w]}) = 1
    <2>1. {w \in Workers : reqSemTaken[w]} = {v}
      BY <1>2 DEF SemLock
    <2>2. reqSem = 0
      BY <1>2 DEF SemLock
    <2> QED BY <2>1, <2>2, FS_Singleton
  <1> QED BY <1>1, <1>2
=============================================================================
