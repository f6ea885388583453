------------------------- MODULE SubscriptionsProofs -------------------------
(* Proofs about Subscriptions, for any number of request threads, interval  *)
(* threads and subscriptions.                                               *)
EXTENDS Subscriptions, ReqSemProofs

DocFields == {"conditions", "expiration", "throttling", "lastNotification", "count", "servicePath"}

\* What the proofs need of a document.
GoodDoc(doc) ==
  /\ DOMAIN doc = DocFields
  /\ doc.conditions \in Seq(Condition)
  /\ doc.count \in Nat
  /\ doc.lastNotification \in Int /\ doc.lastNotification <= clock
  /\ doc.throttling \in Int /\ doc.throttling < StartTime

\* The operation whose handler has the label.
OpAt(label, op) ==
  /\ label = "subscribe" => op = "subscribe"
  /\ label \in {"update", "destroy"} => op = "update"
  /\ label \in {"conditions", "write"} => op \in {"subscribe", "update"}
  /\ label \in {"unsubscribe", "remove", "destroyLast"} => op = "unsubscribe"
  /\ label \in {"entityUpdate", "trigger", "mark"} => op = "entityUpdate"
  /\ op \in {"subscribe", "update", "unsubscribe", "entityUpdate"}

RequestShape(label, r) ==
  /\ DOMAIN r = {"op", "id", "conditions", "throttling", "duration", "servicePath"}
  /\ r.conditions \in Seq(Condition)
  /\ label # "idle" =>
       /\ OpAt(label, r.op)
       /\ r.throttling \in Int
       /\ r.throttling < StartTime \/ (r.throttling = 0 /\ r.op = "update")

LocalShape(label, l) ==
  /\ DOMAIN l = {"newSub", "todo", "notified", "triggered"}
  /\ GoodDoc(l.newSub)
  /\ l.todo \in Seq(Condition)
  /\ label = "conditions" => l.todo # <<>>

Shape ==
  /\ clock \in Nat /\ clock >= StartTime
  /\ wpc \in [Workers -> WorkerPC]
  /\ DOMAIN req = Workers /\ DOMAIN local = Workers /\ DOMAIN csubs = SubIds
  /\ \A w \in Workers : RequestShape(wpc[w], req[w]) /\ LocalShape(wpc[w], local[w])
  /\ \A s \in SubIds : GoodDoc(csubs[s])

-----------------------------------------------------------------------------
(* The semaphore                                                            *)

\* The labels between reqSemTake and reqSemGive.
Section == WorkerPC \ {"idle", "take"}

SemOf(w) ==
  /\ wpc[w] \notin Section => ~reqSemTaken[w]
  /\ wpc[w] \in Section => (reqSemTaken[w] <=> ~Bypassed("write"))

SemInv == SemExclusive /\ \A w \in Workers : SemOf(w)

-----------------------------------------------------------------------------
(* The documents                                                            *)

Subscribing(w) == wpc[w] # "idle" /\ req[w].op = "subscribe"

\* The identifier of a subscription that is being made is nobody else's.
FreshOf(w) ==
  Subscribing(w) => req[w].id \in SubIds /\ req[w].id \in issued /\ ~Exists(req[w].id)

Fresh ==
  /\ \A s \in SubIds : Exists(s) => s \in issued
  /\ \A w \in Workers : FreshOf(w)
  /\ \A v, w \in Workers :
       Subscribing(v) /\ Subscribing(w) /\ req[v].id = req[w].id => v = w

\* What an update read is still in the document that it will replace.
BooksOf(w) ==
  (/\ wpc[w] \in {"destroy", "conditions", "write"} /\ req[w].op = "update"
   /\ Exists(req[w].id))
  => /\ local[w].newSub.count = csubs[req[w].id].count
     /\ local[w].newSub.lastNotification = csubs[req[w].id].lastNotification

\* What processSubscriptions knows of a subscription is still in its document.
TriggersOf(w) ==
  wpc[w] \in {"trigger", "mark"} =>
    \A g \in local[w].triggered :
      /\ g.id \in SubIds
      /\ g.throttling = csubs[g.id].throttling
      /\ g.lastNotification = csubs[g.id].lastNotification
      /\ wpc[w] = "mark" => g.id # req[w].id
      /\ \A h \in local[w].triggered : h.id = g.id => h = g

Books == \A w \in Workers : BooksOf(w) /\ TriggersOf(w)

-----------------------------------------------------------------------------
(* The interval threads                                                     *)

ThreadShape ==
  /\ DOMAIN tpc = IntervalThreads /\ DOMAIN params = IntervalThreads
  /\ DOMAIN tsub = IntervalThreads /\ DOMAIN wake = IntervalThreads
  /\ DOMAIN csi = IntervalThreads
  /\ cancelled \in [IntervalThreads -> BOOLEAN]
  /\ threadsMap \subseteq IntervalThreads

\* A thread that is not there has no cancellation pending, and none is there
\* while the process is down.
ThreadsInv ==
  /\ ThreadShape
  /\ LiveThreadsMapped
  /\ \A t \in IntervalThreads : tpc[t] = "none" => ~cancelled[t]
  /\ ~up => \A t \in IntervalThreads : tpc[t] = "none"

\* A request thread leaves the interval threads alone, starts one, or destroys
\* those of a subscription.
LEMMA WorkerThreads ==
  ASSUME NEW w \in Workers, ReceiveRequest(w) \/ RequestStep(w)
  PROVE  \/ UNCHANGED tVars
         \/ createIntervalThread(req[w].id)
         \/ destroyOntimeIntervalThreads(req[w].id)
  <1>1. CASE processConditionVector(w)
    BY <1>1 DEF processConditionVector, processOntimeIntervalCondition, processOnChangeCondition,
         SkipOnValueCondition
  <1>2. CASE UpdateDestroyThreads(w)
    BY <1>2 DEF UpdateDestroyThreads
  <1>3. CASE UnsubscribeDestroyThreads(w)
    BY <1>3 DEF UnsubscribeDestroyThreads
  <1>4. CASE ReceiveRequest(w) \/ TakeSem(w) \/ Subscribe(w) \/ UpdateFind(w) \/ WriteDoc(w)
    BY <1>4 DEF ReceiveRequest, TakeSem, Subscribe, UpdateFind, WriteDoc
  <1>5. CASE UnsubscribeEmptyId(w) \/ UnsubscribeFind(w) \/ UnsubscribeRemove(w)
    BY <1>5 DEF UnsubscribeEmptyId, UnsubscribeFind, UnsubscribeRemove
  <1>6. CASE \/ AddTriggeredSubscriptions(w) \/ ProcessSubscription(w) \/ MarkNotified(w)
             \/ EntityUpdateDone(w)
    BY <1>6 DEF AddTriggeredSubscriptions, ProcessSubscription, MarkNotified, EntityUpdateDone
  <1> QED BY <1>1, <1>2, <1>3, <1>4, <1>5, <1>6 DEF RequestStep

LEMMA CreateKeeps ==
  ASSUME ThreadsInv, up, up' = up, NEW s, createIntervalThread(s)
  PROVE  ThreadsInv'
  <1> USE DEF ThreadsInv, ThreadShape, LiveThreadsMapped
  <1>1. CASE UNCHANGED tVars
    BY <1>1 DEF tVars
  <1>2. CASE ~UNCHANGED tVars
    <2>1. PICK t \in IntervalThreads :
            /\ tpc[t] = "none" /\ GotoT(t, "start")
            /\ tsub' = [tsub EXCEPT ![t] = s]
            /\ params' = [params EXCEPT ![t] = "live"]
            /\ threadsMap' = threadsMap \union {t}
            /\ UNCHANGED <<cancelled, wake, csi>>
      BY <1>2 DEF createIntervalThread
    <2>2. /\ tpc'[t] = "start" /\ params'[t] = "live"
          /\ \A u \in IntervalThreads \ {t} : tpc'[u] = tpc[u] /\ params'[u] = params[u]
          /\ DOMAIN tpc' = IntervalThreads /\ DOMAIN params' = IntervalThreads
          /\ DOMAIN tsub' = IntervalThreads
      BY <2>1 DEF GotoT
    <2> QED BY <2>1, <2>2
  <1> QED BY <1>1, <1>2

LEMMA DestroyKeeps ==
  ASSUME ThreadsInv, up, up' = up, NEW s, destroyOntimeIntervalThreads(s)
  PROVE  ThreadsInv'
  <1> USE DEF ThreadsInv, ThreadShape, LiveThreadsMapped
  <1>1. PICK doomed : doomed = {t \in threadsMap : tsub[t] = s}
    OBVIOUS
  <1>2. /\ cancelled' = [t \in IntervalThreads |-> cancelled[t] \/ t \in doomed]
        /\ params' = [t \in IntervalThreads |-> IF t \in doomed THEN "freed" ELSE params[t]]
        /\ threadsMap' = threadsMap \ doomed
        /\ UNCHANGED <<tpc, tsub, wake, csi>>
    BY <1>1 DEF destroyOntimeIntervalThreads
  <1>3. cancelled' \in [IntervalThreads -> BOOLEAN]
    BY <1>2
  <1>4. \A t \in IntervalThreads : cancelled'[t] <=> (cancelled[t] \/ t \in doomed)
    BY <1>2
  <1>5. \A t \in IntervalThreads : t \notin doomed => params'[t] = params[t]
    BY <1>2
  <1> QED BY <1>1, <1>2, <1>3, <1>4, <1>5

LEMMA ThreadStepKeeps ==
  ASSUME ThreadsInv, up, up' = up, NEW t \in IntervalThreads, ThreadStep(t)
  PROVE  ThreadsInv'
  <1> USE DEF ThreadsInv, ThreadShape, LiveThreadsMapped
  <1>1. CASE EndCancelled(t)
    <2>1. /\ tpc'[t] = "none" /\ ~cancelled'[t] /\ cancelled' \in [IntervalThreads -> BOOLEAN]
          /\ DOMAIN tpc' = IntervalThreads /\ DOMAIN tsub' = IntervalThreads
          /\ DOMAIN wake' = IntervalThreads /\ UNCHANGED <<params, csi, threadsMap>>
          /\ \A u \in IntervalThreads \ {t} : tpc'[u] = tpc[u] /\ cancelled'[u] = cancelled[u]
          /\ cancelled[t]
      BY <1>1 DEF EndCancelled, GotoT
    <2> QED BY <2>1
  <1>2. CASE ~EndCancelled(t)
    <2>1. /\ \E label \in {"start", "query", "update", "send", "rest", "sleep"} : GotoT(t, label)
          /\ tpc[t] # "none"
      BY <1>2 DEF ThreadStep, GetSubscriptionInfo, GetContextElementResponses,
             UpdateCsubNewNotification, SendInterval, GoToSleep, Wake
    <2>2. UNCHANGED <<tsub, params, cancelled, threadsMap>>
      BY <1>2 DEF ThreadStep, GetSubscriptionInfo, GetContextElementResponses,
             UpdateCsubNewNotification, SendInterval, GoToSleep, Wake
    <2>3. DOMAIN wake' = IntervalThreads /\ DOMAIN csi' = IntervalThreads
      BY <1>2 DEF ThreadStep, GetSubscriptionInfo, GetContextElementResponses,
             UpdateCsubNewNotification, SendInterval, GoToSleep, Wake
    <2>4. /\ tpc'[t] # "none" /\ DOMAIN tpc' = IntervalThreads
          /\ \A u \in IntervalThreads \ {t} : tpc'[u] = tpc[u]
      BY <2>1 DEF GotoT
    <2> QED BY <2>1, <2>2, <2>3, <2>4
  <1> QED BY <1>1, <1>2

\* The death of the process, and its restart.
LEMMA LifeKeeps ==
  ASSUME ThreadsInv, Die \/ Restart
  PROVE  ThreadsInv'
  <1> USE DEF ThreadsInv, ThreadShape, LiveThreadsMapped
  <1>1. CASE Die
    BY <1>1 DEF Die, All
  <1>2. CASE Restart
    <2>1. PICK f \in [IntervalThreads -> SubIds \union {EmptyId}] :
            /\ tsub' = f
            /\ threadsMap' = {t \in IntervalThreads : f[t] # EmptyId}
            /\ tpc' = [t \in IntervalThreads |-> IF f[t] = EmptyId THEN "none" ELSE "start"]
            /\ params' = [t \in IntervalThreads |-> IF f[t] = EmptyId THEN "freed" ELSE "live"]
      BY <1>2 DEF Restart
    <2>2. ~up /\ up' = TRUE /\ UNCHANGED <<cancelled, wake, csi>>
      BY <1>2 DEF Restart
    <2> QED BY <2>1, <2>2
  <1> QED BY <1>1, <1>2

LEMMA ThreadsNext ==
  ASSUME ThreadsInv, [Next]_vars PROVE ThreadsInv'
  <1>1. ASSUME NEW w \in Workers, Running(ReceiveRequest(w)) \/ Running(RequestStep(w))
        PROVE  ThreadsInv'
    <2>1. up /\ up' = up /\ (ReceiveRequest(w) \/ RequestStep(w))
      BY <1>1 DEF Running
    <2>2. CASE UNCHANGED tVars
      BY <2>1, <2>2 DEF tVars, ThreadsInv, ThreadShape, LiveThreadsMapped
    <2> QED BY <2>1, <2>2, WorkerThreads, CreateKeeps, DestroyKeeps
  <1>2. ASSUME NEW t \in IntervalThreads, Running(ThreadStep(t)) PROVE ThreadsInv'
    BY <1>2, ThreadStepKeeps DEF Running
  <1>3. CASE Crash \/ Segfault \/ Restart
    BY <1>3, LifeKeeps DEF Crash, Segfault
  <1>4. CASE Tick \/ UNCHANGED vars
    BY <1>4 DEF Tick, vars, tVars, ThreadsInv, ThreadShape, LiveThreadsMapped
  <1> QED BY <1>1, <1>2, <1>3, <1>4 DEF Next

LEMMA ThreadsInit == Init => ThreadsInv
  BY DEF Init, All, ThreadsInv, ThreadShape, LiveThreadsMapped

\* A thread that still notifies is in threadsMap, where unsubscribeContext can
\* find it, unless its cancellation is pending, and the params of a thread in
\* the map are not deleted: whatever fails, and whenever the process dies.
THEOREM SubsLiveThreadsMapped == Spec => []LiveThreadsMapped
  <1>1. ThreadsInv /\ [Next]_vars => ThreadsInv'
    BY ThreadsNext
  <1>2. ThreadsInv => LiveThreadsMapped
    BY DEF ThreadsInv
  <1> QED BY <1>1, <1>2, ThreadsInit, PTL DEF Spec

-----------------------------------------------------------------------------
(* The request threads                                                      *)

\* With regard to the semaphore a step takes it, ends the handler, or does
\* neither.
LEMMA SemForms ==
  ASSUME NEW w \in Workers, wpc \in [Workers -> WorkerPC],
         RequestShape(wpc[w], req[w]), ReceiveRequest(w) \/ RequestStep(w)
  PROVE  \/ /\ wpc[w] = "take" /\ reqSemTake(w, "write")
            /\ wpc'[w] \in Section
         \/ /\ wpc[w] \in Section /\ wpc'[w] = "idle"
            /\ reqSemGive(w) \/ ReturnWithoutGive(w)
         \/ /\ UNCHANGED semVars
            /\ wpc'[w] \in WorkerPC
            /\ wpc[w] \in Section <=> wpc'[w] \in Section
  <1> USE DEF GotoW, Section, WorkerPC
  <1>1. CASE TakeSem(w)
    BY <1>1 DEF TakeSem, RequestShape, OpAt
  <1>2. CASE ReceiveRequest(w)
    BY <1>2 DEF ReceiveRequest
  <1>3. CASE Subscribe(w) \/ UpdateDestroyThreads(w) \/ processConditionVector(w)
    BY <1>3 DEF Subscribe, UpdateDestroyThreads, processConditionVector, ConditionsLeft
  <1>4. CASE UpdateFind(w)
    BY <1>4 DEF UpdateFind, Return, Answer
  <1>5. CASE WriteDoc(w) \/ UnsubscribeEmptyId(w) \/ UnsubscribeDestroyThreads(w) \/ EntityUpdateDone(w)
    BY <1>5 DEF WriteDoc, UnsubscribeEmptyId, UnsubscribeDestroyThreads, EntityUpdateDone,
         Return, Answer
  <1>6. CASE UnsubscribeFind(w) \/ UnsubscribeRemove(w)
    BY <1>6 DEF UnsubscribeFind, UnsubscribeRemove, Return, Answer
  <1>7. CASE AddTriggeredSubscriptions(w)
    BY <1>7 DEF AddTriggeredSubscriptions, Return, Answer
  <1>8. CASE ProcessSubscription(w) \/ MarkNotified(w)
    BY <1>8 DEF ProcessSubscription, MarkNotified
  <1> QED BY <1>1, <1>2, <1>3, <1>4, <1>5, <1>6, <1>7, <1>8 DEF RequestStep

\* The other request threads are left alone.
LEMMA OthersKept ==
  ASSUME Shape, NEW w \in Workers, ReceiveRequest(w) \/ RequestStep(w)
  PROVE  /\ DOMAIN wpc' = Workers /\ DOMAIN req' = Workers /\ DOMAIN local' = Workers
         /\ \A v \in Workers \ {w} :
              wpc'[v] = wpc[v] /\ req'[v] = req[v] /\ local'[v] = local[v]
         /\ wpc' = [wpc EXCEPT ![w] = wpc'[w]]
  <1> DEFINE Kept(f) == DOMAIN f' = Workers /\ \A v \in Workers \ {w} : f'[v] = f[v]
  <1>0. DOMAIN wpc = Workers /\ DOMAIN req = Workers /\ DOMAIN local = Workers
    BY DEF Shape
  <1>1. Kept(wpc) /\ wpc' = [wpc EXCEPT ![w] = wpc'[w]]
    <2>1. (\E l : GotoW(w, l)) \/ UNCHANGED wpc
      BY Zenon DEF RequestStep, Return, Answer, ReceiveRequest, TakeSem, Subscribe, UpdateFind,
           UpdateDestroyThreads, processConditionVector, WriteDoc, UnsubscribeEmptyId,
           UnsubscribeFind, UnsubscribeRemove, UnsubscribeDestroyThreads,
           AddTriggeredSubscriptions, ProcessSubscription, MarkNotified, EntityUpdateDone
    <2>2. wpc \in [Workers -> WorkerPC]
      BY DEF Shape
    <2> QED BY <1>0, <2>1, <2>2 DEF GotoW
  <1>2. Kept(req)
    BY <1>0 DEF RequestStep, Return, Answer, ReceiveRequest, TakeSem, Subscribe, UpdateFind,
         UpdateDestroyThreads, processConditionVector, WriteDoc, UnsubscribeEmptyId,
         UnsubscribeFind, UnsubscribeRemove, UnsubscribeDestroyThreads,
         AddTriggeredSubscriptions, ProcessSubscription, MarkNotified, EntityUpdateDone
  <1>3. Kept(local)
    <2>1. (\E l : SetLocal(w, l)) \/ UNCHANGED local
      BY Zenon DEF RequestStep, Return, Answer, ReceiveRequest, TakeSem, Subscribe, UpdateFind,
           UpdateDestroyThreads, processConditionVector, processOntimeIntervalCondition,
           processOnChangeCondition, SkipOnValueCondition, WriteDoc, UnsubscribeEmptyId,
           UnsubscribeFind, UnsubscribeRemove, UnsubscribeDestroyThreads,
           AddTriggeredSubscriptions, ProcessSubscription, MarkNotified, EntityUpdateDone
    <2> QED BY <1>0, <2>1 DEF SetLocal
  <1> QED BY <1>1, <1>2, <1>3

LEMMA SemKeeps ==
  ASSUME Shape, SemInv, NEW w \in Workers, ReceiveRequest(w) \/ RequestStep(w)
  PROVE  SemInv' /\ wpc' \in [Workers -> WorkerPC]
  <1>0. /\ wpc \in [Workers -> WorkerPC] /\ RequestShape(wpc[w], req[w])
    BY DEF Shape
  <1>1. \A v \in Workers \ {w} : wpc'[v] = wpc[v]
    BY OthersKept
  <1>5. wpc'[w] \in WorkerPC
    BY <1>0, SemForms DEF Section, WorkerPC
  <1>6. wpc' = [wpc EXCEPT ![w] = wpc'[w]]
    BY OthersKept
  <1>7. wpc' \in [Workers -> WorkerPC]
    BY <1>0, <1>5, <1>6
  <1>a. /\ SemExclusive
        /\ \A v \in Workers : wpc[v] \notin Section => ~reqSemTaken[v]
        /\ \A v \in Workers : wpc[v] \in Section => (reqSemTaken[v] <=> ~Bypassed("write"))
    BY DEF SemInv, SemOf
  <1>2. CASE wpc[w] = "take" /\ reqSemTake(w, "write") /\ wpc'[w] \in Section
    <2>1. ~reqSemTaken[w]
      BY <1>a, <1>2 DEF Section
    <2>2. /\ SemExclusive' /\ (reqSemTaken'[w] <=> ~Bypassed("write"))
          /\ \A v \in Workers \ {w} : reqSemTaken'[v] = reqSemTaken[v]
      BY <1>a, <1>2, <2>1, SemExclusiveTake
    <2>3. ASSUME NEW v \in Workers PROVE SemOf(v)'
      <3>1. CASE v = w
        BY <1>2, <2>2, <3>1 DEF SemOf
      <3>2. CASE v # w
        BY <1>1, <1>a, <2>2, <3>2 DEF SemOf
      <3> QED BY <3>1, <3>2
    <2> QED BY <1>7, <2>2, <2>3 DEF SemInv
  <1>3. CASE wpc[w] \in Section /\ wpc'[w] = "idle" /\ (reqSemGive(w) \/ ReturnWithoutGive(w))
    <2>1. /\ SemExclusive' /\ ~reqSemTaken'[w]
          /\ \A v \in Workers \ {w} : reqSemTaken'[v] = reqSemTaken[v]
      BY <1>a, <1>3, SemExclusiveGive
    <2>2. "idle" \notin Section
      BY DEF Section
    <2>3. ASSUME NEW v \in Workers PROVE SemOf(v)'
      <3>1. CASE v = w
        BY <1>3, <2>1, <2>2, <3>1 DEF SemOf
      <3>2. CASE v # w
        BY <1>1, <1>a, <2>1, <3>2 DEF SemOf
      <3> QED BY <3>1, <3>2
    <2> QED BY <1>7, <2>1, <2>3 DEF SemInv
  <1>4. CASE UNCHANGED semVars /\ wpc'[w] \in WorkerPC /\ (wpc[w] \in Section <=> wpc'[w] \in Section)
    <2>1. SemExclusive' /\ reqSemTaken' = reqSemTaken
      BY <1>a, <1>4 DEF SemExclusive, semVars
    <2>3. ASSUME NEW v \in Workers PROVE SemOf(v)'
      <3>1. CASE v = w
        BY <1>4, <2>1, <1>a, <3>1 DEF SemOf
      <3>2. CASE v # w
        BY <1>1, <1>a, <2>1, <3>2 DEF SemOf
      <3> QED BY <3>1, <3>2
    <2> QED BY <1>7, <2>1, <2>3 DEF SemInv
  <1> QED BY <1>0, <1>2, <1>3, <1>4, SemForms

-----------------------------------------------------------------------------
(* What a step of a request thread does to the documents                    *)

Monotone(old, new) ==
  old # NoDoc /\ new # NoDoc =>
    new.count >= old.count /\ new.lastNotification >= old.lastNotification

DocsSame == DOMAIN csubs' = SubIds /\ \A x \in SubIds : csubs'[x] = csubs[x]

\* One document changes.
Amends(s) ==
  /\ s \in SubIds /\ DOMAIN csubs' = SubIds
  /\ \A x \in SubIds \ {s} : csubs'[x] = csubs[x]
  /\ GoodDoc(csubs'[s])
  /\ Monotone(csubs[s], csubs'[s])

\* A document appears only when a subscription is made.
DocsStep(w) ==
  \/ DocsSame
  \/ /\ wpc[w] \in Section
     /\ \E s \in SubIds :
          /\ Amends(s)
          /\ \/ Exists(s) \/ csubs'[s] = NoDoc
             \/ Subscribing(w) /\ req[w].id = s /\ wpc'[w] = "idle"

\* The request thread itself, after its step.
WorkerStep(w) ==
  /\ RequestShape(wpc'[w], req'[w]) /\ LocalShape(wpc'[w], local'[w])
  /\ BooksOf(w)' /\ TriggersOf(w)' /\ FreshOf(w)'
  /\ issued \subseteq issued' /\ issued' \subseteq issued \union {req'[w].id}
  /\ Subscribing(w)' =>
       \/ Subscribing(w) /\ req'[w].id = req[w].id
       \/ req'[w].id \notin issued

DocsInv == Shape /\ Fresh /\ Books

LEMMA NoDocGood == ASSUME Shape PROVE GoodDoc(NoDoc)
  <1>1. clock \in Nat /\ clock >= StartTime /\ StartTime \in Nat
    BY SubscriptionsAssumption DEF Shape
  <1>2. /\ NoDoc.count = 0 /\ NoDoc.lastNotification = -1 /\ NoDoc.throttling = -1
        /\ NoDoc.conditions = <<>>
    BY DEF NoDoc, Absent
  <1>3. DOMAIN NoDoc = DocFields
    BY DEF NoDoc, DocFields
  <1> QED BY <1>1, <1>2, <1>3 DEF GoodDoc

LEMMA SameDocs == ASSUME Shape, UNCHANGED csubs PROVE DocsSame
  BY DEF Shape, DocsSame

LEMMA AnswerStep ==
  ASSUME Shape, NEW w \in Workers, Answer(w), UNCHANGED issued
  PROVE  WorkerStep(w) /\ wpc'[w] = "idle"
  <1>1. wpc'[w] = "idle" /\ req'[w] = NoRequest /\ local'[w] = NoLocals
    BY DEF Shape, Answer, GotoW, SetLocal
  <1>2. RequestShape(wpc'[w], req'[w])
    BY <1>1 DEF RequestShape, NoRequest
  <1>3. LocalShape(wpc'[w], local'[w])
    BY <1>1, NoDocGood DEF LocalShape, NoLocals
  <1> QED BY <1>1, <1>2, <1>3 DEF WorkerStep, BooksOf, TriggersOf, FreshOf, Subscribing

LEMMA SameLocals ==
  ASSUME NEW a, NEW b, NEW l, LocalShape(a, l), b # "conditions" PROVE LocalShape(b, l)
  BY DEF LocalShape

LEMMA ReceiveStep ==
  ASSUME DocsInv, NEW w \in Workers, ReceiveRequest(w)
  PROVE  WorkerStep(w) /\ DocsStep(w)
  <1>1. PICK r \in Requests :
          /\ req' = [req EXCEPT ![w] = r]
          /\ issued' = IF r.op = "subscribe" THEN issued \union {r.id} ELSE issued
    BY DEF ReceiveRequest
  <1>2. UNCHANGED <<csubs, local>> /\ wpc'[w] = "take" /\ req'[w] = r
    BY <1>1 DEF ReceiveRequest, GotoW, DocsInv, Shape
  <1>3. /\ DOMAIN r = {"op", "id", "conditions", "throttling", "duration", "servicePath"}
        /\ r.op \in {"subscribe", "update", "unsubscribe", "entityUpdate"}
        /\ r.throttling \in Int
        /\ r.throttling < StartTime \/ (r.throttling = 0 /\ r.op = "update")
        /\ r.op = "subscribe" => r.id \in SubIds \ issued
    <2>1. \A throttling \in Throttlings : throttling \in Int /\ throttling < StartTime
      BY SubscriptionsAssumption DEF Absent
    <2>2. Absent \in Int /\ Absent < StartTime
      BY SubscriptionsAssumption DEF Absent
    <2> QED BY <2>1, <2>2 DEF Requests
  <1>c. r.conditions \in Seq(Condition)
    <2>1. r.conditions \in CondVectors \union {<<>>}
      BY DEF Requests
    <2>2. <<>> \in Seq(Condition) /\ CondVectors \subseteq Seq(Condition)
      BY SubscriptionsAssumption
    <2> QED BY <2>1, <2>2
  <1>4. RequestShape(wpc'[w], req'[w])
    BY <1>2, <1>3, <1>c DEF RequestShape, OpAt
  <1>5. LocalShape(wpc'[w], local'[w])
    BY <1>2, SameLocals DEF DocsInv, Shape
  <1>6. FreshOf(w)'
    <2>1. \A s \in SubIds : Exists(s) => s \in issued
      BY DEF DocsInv, Fresh
    <2>2. \A s \in SubIds : Exists(s)' <=> Exists(s)
      BY <1>2 DEF Exists
    <2> QED BY <1>1, <1>2, <1>3, <2>1, <2>2 DEF FreshOf, Subscribing
  <1>7. issued \subseteq issued' /\ issued' \subseteq issued \union {req'[w].id}
    BY <1>1, <1>2
  <1>8. BooksOf(w)' /\ TriggersOf(w)'
    BY <1>2 DEF BooksOf, TriggersOf
  <1>9. WorkerStep(w)
    BY <1>2, <1>3, <1>4, <1>5, <1>6, <1>7, <1>8 DEF WorkerStep, Subscribing
  <1> QED BY <1>2, <1>9, SameDocs DEF DocsStep, DocsInv

\* A step that goes on in the same handler with the same request.
LEMMA GoOnStep ==
  ASSUME DocsInv, NEW w \in Workers, UNCHANGED <<csubs, issued>>, req'[w] = req[w],
         wpc[w] # "idle", wpc'[w] # "idle", OpAt(wpc'[w], req[w].op),
         LocalShape(wpc'[w], local'[w]), BooksOf(w)', TriggersOf(w)'
  PROVE  WorkerStep(w) /\ DocsStep(w)
  <1>1. RequestShape(wpc'[w], req'[w])
    BY DEF DocsInv, Shape, RequestShape
  <1>2. FreshOf(w)
    BY DEF DocsInv, Fresh
  <1>3. FreshOf(w)'
    BY <1>2 DEF FreshOf, Subscribing, Exists
  <1>4. WorkerStep(w)
    BY <1>1, <1>3 DEF WorkerStep, Subscribing
  <1> QED BY <1>4, SameDocs DEF DocsStep, DocsInv

\* The request and the label of a thread at work.
LEMMA AtWork ==
  ASSUME DocsInv, NEW w \in Workers, wpc[w] # "idle"
  PROVE  /\ OpAt(wpc[w], req[w].op) /\ req[w].throttling \in Int
         /\ req[w].throttling < StartTime \/ (req[w].throttling = 0 /\ req[w].op = "update")
         /\ req[w].conditions \in Seq(Condition)
         /\ LocalShape(wpc[w], local[w]) /\ BooksOf(w) /\ TriggersOf(w) /\ FreshOf(w)
  <1>1. RequestShape(wpc[w], req[w]) /\ LocalShape(wpc[w], local[w])
    BY DEF DocsInv, Shape
  <1>2. BooksOf(w) /\ TriggersOf(w) /\ FreshOf(w)
    BY DEF DocsInv, Books, Fresh
  <1> QED BY <1>1, <1>2 DEF RequestShape

LEMMA TakeStep ==
  ASSUME DocsInv, NEW w \in Workers, TakeSem(w)
  PROVE  WorkerStep(w) /\ DocsStep(w)
  <1>1. /\ wpc[w] = "take" /\ UNCHANGED <<csubs, issued, req, local>>
        /\ wpc'[w] = req[w].op
    BY DEF TakeSem, GotoW, hVars, DocsInv, Shape
  <1>2. OpAt(wpc[w], req[w].op) /\ LocalShape(wpc[w], local[w])
    BY <1>1, AtWork
  <1>3. OpAt(wpc'[w], req[w].op) /\ wpc'[w] \in {"subscribe", "update", "unsubscribe", "entityUpdate"}
    BY <1>1, <1>2 DEF OpAt
  <1>4. BooksOf(w)' /\ TriggersOf(w)'
    BY <1>1, <1>3 DEF BooksOf, TriggersOf
  <1>5. LocalShape(wpc'[w], local'[w])
    BY <1>1, <1>2, <1>3, SameLocals
  <1> QED BY <1>1, <1>3, <1>4, <1>5, GoOnStep

LEMMA SubscribeStep ==
  ASSUME DocsInv, NEW w \in Workers, Subscribe(w)
  PROVE  WorkerStep(w) /\ DocsStep(w) /\ local'[w].newSub.conditions = <<>>
  <1>1. /\ wpc[w] = "subscribe" /\ UNCHANGED <<csubs, issued, req>>
        /\ wpc'[w] = ConditionsLeft(req[w].conditions)
    BY DEF Subscribe, GotoW, hVars, DocsInv, Shape
  <1>2. /\ req[w].op = "subscribe" /\ req[w].throttling \in Int /\ req[w].throttling < StartTime
        /\ req[w].conditions \in Seq(Condition)
    BY <1>1, AtWork DEF OpAt
  <1>4. PICK d : d = [NoDoc EXCEPT !.expiration = clock + req[w].duration,
                                   !.throttling = req[w].throttling,
                                   !.servicePath = req[w].servicePath]
    OBVIOUS
  <1>5. local'[w] = [NoLocals EXCEPT !.newSub = d, !.todo = req[w].conditions]
    BY <1>4 DEF Subscribe, SetLocal, DocsInv, Shape
  <1>6. /\ d.throttling = req[w].throttling /\ d.count = NoDoc.count /\ d.conditions = <<>>
        /\ d.lastNotification = NoDoc.lastNotification /\ DOMAIN d = DocFields
    BY <1>4 DEF NoDoc, DocFields
  <1>7. GoodDoc(d)
    BY <1>2, <1>6, NoDocGood DEF GoodDoc, DocsInv
  <1>8. LocalShape(wpc'[w], local'[w]) /\ local'[w].newSub = d
    BY <1>1, <1>2, <1>5, <1>7 DEF LocalShape, NoLocals, ConditionsLeft
  <1>9. OpAt(wpc'[w], req[w].op) /\ BooksOf(w)' /\ TriggersOf(w)' /\ wpc'[w] # "idle"
    BY <1>1, <1>2 DEF OpAt, BooksOf, TriggersOf, ConditionsLeft
  <1> QED BY <1>1, <1>6, <1>8, <1>9, GoOnStep

LEMMA UpdatedDocGood ==
  ASSUME Shape, NEW sub, GoodDoc(sub), NEW r, r.throttling \in Int,
         r.throttling < StartTime \/ r.throttling = 0
  PROVE  /\ GoodDoc(UpdatedDoc(sub, r))
         /\ UpdatedDoc(sub, r).count = sub.count
         /\ UpdatedDoc(sub, r).lastNotification = sub.lastNotification
         /\ UpdatedDoc(sub, r).conditions = IF r.conditions = <<>> THEN sub.conditions ELSE <<>>
  <1>1. PICK d : d = UpdatedDoc(sub, r)
    OBVIOUS
  <1>2. /\ d.count = sub.count /\ d.lastNotification = sub.lastNotification
        /\ DOMAIN d = DocFields
        /\ d.conditions = IF r.conditions = <<>> THEN sub.conditions ELSE <<>>
    BY <1>1 DEF UpdatedDoc, NoDoc, DocFields
  <1>3. d.throttling = CASE r.throttling = Absent -> sub.throttling
                         [] r.throttling = 0 -> Absent
                         [] OTHER -> r.throttling
    BY <1>1 DEF UpdatedDoc, NoDoc
  <1>4. d.throttling \in Int /\ d.throttling < StartTime
    <2>1. StartTime \in Nat /\ sub.throttling \in Int /\ sub.throttling < StartTime
      BY SubscriptionsAssumption DEF GoodDoc
    <2> QED BY <1>3, <2>1 DEF Absent
  <1> QED BY <1>1, <1>2, <1>4 DEF GoodDoc

LEMMA UpdateFindStep ==
  ASSUME DocsInv, NEW w \in Workers, UpdateFind(w)
  PROVE  WorkerStep(w) /\ DocsStep(w)
  <1>0. wpc[w] = "update" /\ UNCHANGED <<csubs, issued>> /\ Shape
    BY DEF UpdateFind, hVars, DocsInv
  <1>1. CASE Return(w)
    BY <1>0, <1>1, AnswerStep, SameDocs DEF Return, DocsStep
  <1>2. CASE ~Return(w)
    <2>1. /\ Exists(req[w].id) /\ UNCHANGED req
          /\ SetLocal(w, [NoLocals EXCEPT !.newSub = UpdatedDoc(csubs[req[w].id], req[w])])
          /\ wpc'[w] \in {"write", "destroy"}
      BY <1>2 DEF UpdateFind, GotoW, DocsInv, Shape
    <2>2. PICK d : d = UpdatedDoc(csubs[req[w].id], req[w])
      OBVIOUS
    <2>3. local'[w] = [NoLocals EXCEPT !.newSub = d]
      BY <2>1, <2>2 DEF SetLocal, DocsInv, Shape
    <2>4. /\ local'[w].newSub = d /\ local'[w].todo = <<>>
          /\ DOMAIN local'[w] = {"newSub", "todo", "notified", "triggered"}
      BY <2>3 DEF NoLocals
    <2>5. /\ req[w].op = "update" /\ req[w].throttling \in Int
          /\ req[w].throttling < StartTime \/ req[w].throttling = 0
      BY <1>0, AtWork DEF OpAt
    <2>6. req[w].id \in SubIds /\ GoodDoc(csubs[req[w].id])
      BY <2>1 DEF Exists, DocsInv, Shape
    <2>7. /\ GoodDoc(d) /\ d.count = csubs[req[w].id].count
          /\ d.lastNotification = csubs[req[w].id].lastNotification
      BY <1>0, <2>2, <2>5, <2>6, UpdatedDocGood
    <2>8. LocalShape(wpc'[w], local'[w])
      BY <2>1, <2>4, <2>7 DEF LocalShape
    <2>9. BooksOf(w)'
      BY <1>0, <2>1, <2>4, <2>7 DEF BooksOf
    <2>10. OpAt(wpc'[w], req[w].op) /\ TriggersOf(w)'
      BY <2>1, <2>5 DEF OpAt, TriggersOf
    <2> QED BY <1>0, <2>1, <2>8, <2>9, <2>10, GoOnStep
  <1> QED BY <1>1, <1>2

\* Before the document is written the thread goes on with what it has built.
LEMMA KeepsNewSub ==
  ASSUME DocsInv, NEW w \in Workers, UNCHANGED <<csubs, issued, req>>,
         wpc[w] \in {"destroy", "conditions"}, wpc'[w] \in {"conditions", "write"},
         local'[w].newSub.count = local[w].newSub.count,
         local'[w].newSub.lastNotification = local[w].newSub.lastNotification,
         LocalShape(wpc'[w], local'[w])
  PROVE  WorkerStep(w) /\ DocsStep(w)
  <1>1. OpAt(wpc[w], req[w].op) /\ BooksOf(w)
    BY AtWork
  <1>2. OpAt(wpc'[w], req[w].op)
    BY <1>1 DEF OpAt
  <1>4. BooksOf(w)'
    BY <1>1 DEF BooksOf, Exists
  <1>5. TriggersOf(w)'
    BY DEF TriggersOf
  <1> QED BY <1>2, <1>4, <1>5, GoOnStep

LEMMA DestroyStep ==
  ASSUME DocsInv, NEW w \in Workers, UpdateDestroyThreads(w)
  PROVE  WorkerStep(w) /\ DocsStep(w) /\ local'[w].newSub = local[w].newSub
  <1>1. /\ UNCHANGED <<csubs, issued, req>> /\ wpc[w] = "destroy"
        /\ wpc'[w] = ConditionsLeft(req[w].conditions)
        /\ local'[w] = [local[w] EXCEPT !.todo = req[w].conditions]
    BY DEF UpdateDestroyThreads, GotoW, SetLocal, hVars, DocsInv, Shape
  <1>2. LocalShape(wpc[w], local[w]) /\ req[w].conditions \in Seq(Condition)
    BY <1>1, AtWork
  <1>3. /\ local'[w].newSub = local[w].newSub /\ local'[w].todo = req[w].conditions
        /\ DOMAIN local'[w] = DOMAIN local[w]
    BY <1>1, <1>2 DEF LocalShape
  <1>4. wpc'[w] \in {"conditions", "write"} /\ LocalShape(wpc'[w], local'[w])
    BY <1>1, <1>2, <1>3 DEF LocalShape, ConditionsLeft
  <1> QED BY <1>1, <1>3, <1>4, KeepsNewSub

\* A condition is stored, or skipped.
LEMMA RoundStep ==
  ASSUME DocsInv, NEW w \in Workers, processConditionVector(w)
  PROVE  /\ WorkerStep(w) /\ DocsStep(w)
         /\ local[w].todo \in Seq(Condition) /\ local[w].todo # <<>>
         /\ local'[w].newSub.conditions =
              IF Head(local[w].todo) = "ONVALUE" THEN local[w].newSub.conditions
                ELSE Append(local[w].newSub.conditions, Head(local[w].todo))
  <1>1. /\ UNCHANGED <<csubs, issued, req>> /\ wpc[w] = "conditions"
        /\ wpc'[w] = ConditionsLeft(Tail(local[w].todo))
    BY DEF processConditionVector, GotoW, hVars, DocsInv, Shape
  <1>2. /\ LocalShape(wpc[w], local[w]) /\ DOMAIN local = Workers
    BY DEF DocsInv, Shape
  <1>3. /\ local[w].todo \in Seq(Condition) /\ local[w].todo # <<>>
        /\ GoodDoc(local[w].newSub)
    BY <1>1, <1>2 DEF LocalShape
  <1>4. /\ Tail(local[w].todo) \in Seq(Condition) /\ Head(local[w].todo) \in Condition
    BY <1>3
  <1>5. ASSUME NEW l, LocalShape("write", l), l.todo = Tail(local[w].todo), l = local'[w],
               l.newSub.count = local[w].newSub.count,
               l.newSub.lastNotification = local[w].newSub.lastNotification
        PROVE  WorkerStep(w) /\ DocsStep(w)
    <2>1. wpc'[w] \in {"conditions", "write"} /\ LocalShape(wpc'[w], local'[w])
      BY <1>1, <1>4, <1>5 DEF LocalShape, ConditionsLeft
    <2> QED BY <1>1, <1>5, <2>1, KeepsNewSub
  <1>6. CASE SkipOnValueCondition(w)
    <2>1. local'[w] = [local[w] EXCEPT !.todo = Tail(@)] /\ Head(local[w].todo) = "ONVALUE"
      BY <1>2, <1>6 DEF SkipOnValueCondition, SetLocal
    <2>2. /\ local'[w].newSub = local[w].newSub /\ local'[w].todo = Tail(local[w].todo)
          /\ DOMAIN local'[w] = DOMAIN local[w]
      BY <1>2, <2>1 DEF LocalShape
    <2>3. LocalShape("write", local'[w])
      BY <1>2, <1>4, <2>2 DEF LocalShape
    <2> QED BY <1>3, <1>5, <2>1, <2>2, <2>3
  <1>7. CASE ~SkipOnValueCondition(w)
    <2>1. PICK d : d = [local[w].newSub EXCEPT !.conditions = Append(@, Head(local[w].todo))]
      OBVIOUS
    <2>2. /\ d.conditions = Append(local[w].newSub.conditions, Head(local[w].todo))
          /\ d.count = local[w].newSub.count
          /\ d.lastNotification = local[w].newSub.lastNotification
          /\ d.throttling = local[w].newSub.throttling /\ DOMAIN d = DocFields
      BY <1>3, <2>1 DEF GoodDoc, DocFields
    <2>3. GoodDoc(d)
      BY <1>3, <1>4, <2>2 DEF GoodDoc
    <2>4. PICK l : l = Appended(local[w])
      OBVIOUS
    <2>5. /\ l.newSub = d /\ l.todo = Tail(local[w].todo)
          /\ DOMAIN l = {"newSub", "todo", "notified", "triggered"}
      BY <1>2, <2>1, <2>4 DEF Appended, LocalShape
    <2>6. /\ local'[w] = l \/ local'[w] = [l EXCEPT !.notified = TRUE]
          /\ Head(local[w].todo) # "ONVALUE"
      BY <1>2, <1>7, <2>4 DEF processConditionVector, processOntimeIntervalCondition,
           processOnChangeCondition, SetLocal
    <2>7. /\ local'[w].newSub = d /\ local'[w].todo = Tail(local[w].todo)
          /\ DOMAIN local'[w] = {"newSub", "todo", "notified", "triggered"}
      BY <2>5, <2>6
    <2>8. LocalShape("write", local'[w])
      BY <1>4, <2>3, <2>7 DEF LocalShape
    <2> QED BY <1>3, <1>5, <2>2, <2>6, <2>7, <2>8
  <1> QED BY <1>6, <1>7

LEMMA AccountedGood ==
  ASSUME Shape, NEW label, NEW l, LocalShape(label, l)
  PROVE  /\ GoodDoc(Accounted(l))
         /\ Accounted(l).count >= l.newSub.count
         /\ Accounted(l).lastNotification >= l.newSub.lastNotification
         /\ Accounted(l).conditions = l.newSub.conditions
  <1>0. GoodDoc(l.newSub) /\ clock \in Nat
    BY DEF LocalShape, Shape
  <1>1. CASE l.notified
    <2>1. PICK d : d = [l.newSub EXCEPT !.lastNotification = clock, !.count = @ + 1]
      OBVIOUS
    <2>2. /\ DOMAIN d = DocFields /\ d.count = l.newSub.count + 1
          /\ d.lastNotification = clock /\ d.throttling = l.newSub.throttling
          /\ d.conditions = l.newSub.conditions
      BY <1>0, <2>1 DEF GoodDoc, DocFields
    <2>3. Accounted(l) = d
      BY <1>1, <2>1 DEF Accounted
    <2> QED BY <1>0, <2>2, <2>3 DEF GoodDoc
  <1>2. CASE ~l.notified
    <2>1. Accounted(l) = l.newSub
      BY <1>2 DEF Accounted
    <2> QED BY <1>0, <2>1 DEF GoodDoc
  <1> QED BY <1>1, <1>2

LEMMA WriteStep ==
  ASSUME DocsInv, NEW w \in Workers, WriteDoc(w)
  PROVE  WorkerStep(w) /\ DocsStep(w)
  <1>0. wpc[w] = "write" /\ UNCHANGED issued /\ Shape /\ Answer(w)
    BY DEF WriteDoc, Return, hVars, DocsInv
  <1>1. WorkerStep(w) /\ wpc'[w] = "idle"
    BY <1>0, AnswerStep
  <1>2. DocsStep(w)
    <2>1. PICK s : s = req[w].id
      OBVIOUS
    <2>2. CASE UNCHANGED csubs
      BY <1>0, <2>2, SameDocs DEF DocsStep
    <2>3. CASE ~UNCHANGED csubs
      <3>1. /\ req[w].op = "subscribe" \/ Exists(s)
            /\ csubs' = [csubs EXCEPT ![s] = Accounted(local[w])]
        BY <2>1, <2>3 DEF WriteDoc
      <3>2. /\ OpAt(wpc[w], req[w].op) /\ LocalShape(wpc[w], local[w]) /\ BooksOf(w) /\ FreshOf(w)
        BY <1>0, AtWork
      <3>3. s \in SubIds
        BY <1>0, <2>1, <3>1, <3>2 DEF FreshOf, Subscribing, Exists
      <3>4. /\ DOMAIN csubs' = SubIds /\ csubs'[s] = Accounted(local[w])
            /\ \A x \in SubIds \ {s} : csubs'[x] = csubs[x]
        BY <3>1, <3>3 DEF DocsInv, Shape
      <3>5. /\ GoodDoc(Accounted(local[w]))
            /\ Accounted(local[w]).count >= local[w].newSub.count
            /\ Accounted(local[w]).lastNotification >= local[w].newSub.lastNotification
        BY <1>0, <3>2, AccountedGood
      <3>6. Monotone(csubs[s], csubs'[s])
        <4>1. CASE Exists(s)
          <5>1. req[w].op = "update"
            BY <1>0, <2>1, <3>2, <4>1 DEF OpAt, FreshOf, Subscribing
          <5>2. /\ local[w].newSub.count = csubs[s].count
                /\ local[w].newSub.lastNotification = csubs[s].lastNotification
            BY <1>0, <2>1, <3>2, <4>1, <5>1 DEF BooksOf
          <5> QED BY <3>4, <3>5, <5>2 DEF Monotone
        <4>2. CASE ~Exists(s)
          BY <3>3, <4>2 DEF Exists, Monotone
        <4> QED BY <4>1, <4>2
      <3>7. Amends(s)
        BY <3>3, <3>4, <3>5, <3>6 DEF Amends
      <3>8. Exists(s) \/ Subscribing(w)
        BY <1>0, <3>1 DEF Subscribing
      <3> QED BY <1>0, <1>1, <2>1, <3>3, <3>7, <3>8 DEF DocsStep, Section, WorkerPC
    <2> QED BY <2>2, <2>3
  <1> QED BY <1>1, <1>2

\* unsubscribeContext, up to the removal.
LEMMA UnsubscribeStep ==
  ASSUME DocsInv, NEW w \in Workers,
         UnsubscribeEmptyId(w) \/ UnsubscribeFind(w) \/ UnsubscribeDestroyThreads(w)
  PROVE  WorkerStep(w) /\ DocsStep(w)
  <1>0. UNCHANGED <<csubs, issued>> /\ Shape
    BY DEF UnsubscribeEmptyId, UnsubscribeFind, UnsubscribeDestroyThreads, hVars, DocsInv
  <1>1. CASE Answer(w)
    BY <1>0, <1>1, AnswerStep, SameDocs DEF DocsStep
  <1>2. CASE ~Answer(w)
    <2>1. /\ wpc[w] = "unsubscribe" /\ UNCHANGED <<req, local>> /\ wpc'[w] = "remove"
      BY <1>2 DEF UnsubscribeEmptyId, UnsubscribeFind, UnsubscribeDestroyThreads, Return, GotoW,
           DocsInv, Shape
    <2>2. OpAt(wpc[w], req[w].op) /\ LocalShape(wpc[w], local[w])
      BY <2>1, AtWork
    <2>3. OpAt(wpc'[w], req[w].op) /\ BooksOf(w)' /\ TriggersOf(w)'
      BY <2>1, <2>2 DEF OpAt, BooksOf, TriggersOf
    <2>4. LocalShape(wpc'[w], local'[w])
      BY <2>1, <2>2, SameLocals
    <2> QED BY <1>0, <2>1, <2>3, <2>4, GoOnStep
  <1> QED BY <1>1, <1>2

LEMMA RemoveStep ==
  ASSUME DocsInv, NEW w \in Workers, UnsubscribeRemove(w)
  PROVE  WorkerStep(w) /\ DocsStep(w)
  <1>0. wpc[w] = "remove" /\ UNCHANGED issued /\ Shape
    BY DEF UnsubscribeRemove, DocsInv
  <1>1. CASE Return(w) /\ UNCHANGED csubs
    BY <1>0, <1>1, AnswerStep, SameDocs DEF DocsStep, Return
  <1>2. CASE ~(Return(w) /\ UNCHANGED csubs)
    <2>1. /\ csubs' = [csubs EXCEPT ![req[w].id] = NoDoc]
          /\ UNCHANGED <<req, local>> /\ wpc'[w] = "destroyLast"
      BY <1>2 DEF UnsubscribeRemove, GotoW, DocsInv, Shape
    <2>2. OpAt(wpc[w], req[w].op) /\ LocalShape(wpc[w], local[w]) /\ RequestShape(wpc[w], req[w])
      BY <1>0, AtWork DEF Shape
    <2>3. req[w].op = "unsubscribe"
      BY <1>0, <2>2 DEF OpAt
    <2>4. RequestShape(wpc'[w], req'[w])
      BY <1>0, <2>1, <2>2, <2>3 DEF RequestShape, OpAt
    <2>a. LocalShape(wpc'[w], local'[w])
      BY <2>1, <2>2, SameLocals
    <2>5. WorkerStep(w)
      BY <1>0, <2>1, <2>a, <2>3, <2>4 DEF WorkerStep, BooksOf, TriggersOf, FreshOf, Subscribing
    <2>6. DocsStep(w)
      <3>1. CASE req[w].id \in SubIds
        <4>1. /\ DOMAIN csubs' = SubIds /\ csubs'[req[w].id] = NoDoc
              /\ \A x \in SubIds \ {req[w].id} : csubs'[x] = csubs[x]
          BY <2>1, <3>1 DEF DocsInv, Shape
        <4>2. Amends(req[w].id)
          BY <1>0, <3>1, <4>1, NoDocGood DEF Amends, Monotone
        <4> QED BY <1>0, <3>1, <4>1, <4>2 DEF DocsStep, Section, WorkerPC
      <3>2. CASE req[w].id \notin SubIds
        BY <2>1, <3>2 DEF DocsInv, Shape, DocsStep, DocsSame
      <3> QED BY <3>1, <3>2
    <2> QED BY <2>5, <2>6
  <1> QED BY <1>1, <1>2

LEMMA CollectStep ==
  ASSUME DocsInv, NEW w \in Workers, AddTriggeredSubscriptions(w)
  PROVE  WorkerStep(w) /\ DocsStep(w)
  <1>0. wpc[w] = "entityUpdate" /\ UNCHANGED <<csubs, issued>> /\ Shape
    BY DEF AddTriggeredSubscriptions, hVars, DocsInv
  <1>1. CASE Return(w)
    BY <1>0, <1>1, AnswerStep, SameDocs DEF Return, DocsStep
  <1>2. CASE ~Return(w)
    <2>1. PICK S : S = {x \in SubIds : /\ OnChange(csubs[x])
                                       /\ csubs[x].expiration > clock
                                       /\ csubs[x].servicePath \in {NoPath, req[w].servicePath}}
      OBVIOUS
    <2>2. PICK T : T = {[id |-> s, throttling |-> csubs[s].throttling,
                         lastNotification |-> csubs[s].lastNotification] : s \in S}
      OBVIOUS
    <2>3. SetLocal(w, [NoLocals EXCEPT !.triggered = T]) /\ UNCHANGED req
      BY <1>2, <2>1, <2>2 DEF AddTriggeredSubscriptions
    <2>4. wpc'[w] = "trigger"
      BY <1>2 DEF AddTriggeredSubscriptions, GotoW, DocsInv, Shape
    <2>5. local'[w] = [NoLocals EXCEPT !.triggered = T]
      BY <2>3 DEF SetLocal, DocsInv, Shape
    <2>6. /\ local'[w].newSub = NoDoc /\ local'[w].triggered = T /\ local'[w].todo = <<>>
          /\ DOMAIN local'[w] = {"newSub", "todo", "notified", "triggered"}
      BY <2>5 DEF NoLocals
    <2>7. LocalShape(wpc'[w], local'[w])
      BY <1>0, <2>4, <2>6, NoDocGood DEF LocalShape
    <2>8. S \subseteq SubIds
      BY <2>1
    <2>9. \A g \in T : /\ g.id \in SubIds /\ g.throttling = csubs[g.id].throttling
                       /\ g.lastNotification = csubs[g.id].lastNotification
      BY <2>2, <2>8
    <2>10. \A g, h \in T : h.id = g.id => h = g
      BY <2>2
    <2>11. TriggersOf(w)'
      BY <1>0, <2>4, <2>6, <2>9, <2>10 DEF TriggersOf
    <2>12. OpAt(wpc[w], req[w].op)
      BY <1>0, AtWork
    <2>13. OpAt(wpc'[w], req[w].op) /\ BooksOf(w)'
      BY <1>0, <2>4, <2>12 DEF OpAt, BooksOf
    <2> QED BY <1>0, <2>3, <2>4, <2>7, <2>11, <2>13, GoOnStep
  <1> QED BY <1>1, <1>2

LEMMA NotifyStep ==
  ASSUME DocsInv, NEW w \in Workers, ProcessSubscription(w)
  PROVE  WorkerStep(w) /\ DocsStep(w)
  <1>0. wpc[w] = "trigger" /\ UNCHANGED <<csubs, issued>> /\ Shape
    BY DEF ProcessSubscription, hVars, DocsInv
  <1>1. PICK g \in local[w].triggered :
          /\ SetLocal(w, [local[w] EXCEPT !.triggered = @ \ {g}])
          /\ \/ UNCHANGED <<wpc, req>>
             \/ req' = [req EXCEPT ![w].id = g.id] /\ GotoW(w, "mark")
    BY DEF ProcessSubscription
  <1>2. /\ OpAt(wpc[w], req[w].op) /\ LocalShape(wpc[w], local[w]) /\ TriggersOf(w)
        /\ RequestShape(wpc[w], req[w])
    BY <1>0, AtWork DEF Shape
  <1>3. local'[w] = [local[w] EXCEPT !.triggered = @ \ {g}]
    BY <1>0, <1>1 DEF SetLocal, Shape
  <1>4. /\ local'[w].newSub = local[w].newSub /\ DOMAIN local'[w] = DOMAIN local[w]
        /\ local'[w].triggered = local[w].triggered \ {g} /\ local'[w].todo = local[w].todo
    BY <1>2, <1>3 DEF LocalShape
  <1>5. LocalShape(wpc'[w], local'[w])
    BY <1>0, <1>1, <1>2, <1>4 DEF LocalShape, GotoW, Shape
  <1>6. req[w].op = "entityUpdate"
    BY <1>0, <1>2 DEF OpAt
  <1>7. CASE UNCHANGED <<wpc, req>>
    <2>1. TriggersOf(w)' /\ BooksOf(w)'
      BY <1>0, <1>2, <1>4, <1>7 DEF TriggersOf, BooksOf
    <2> QED BY <1>0, <1>2, <1>5, <1>7, <2>1, GoOnStep
  <1>8. CASE req' = [req EXCEPT ![w].id = g.id] /\ GotoW(w, "mark")
    <2>1. /\ req'[w] = [req[w] EXCEPT !.id = g.id] /\ wpc'[w] = "mark"
      BY <1>0, <1>8 DEF GotoW, Shape
    <2>2. /\ DOMAIN req'[w] = DOMAIN req[w] /\ req'[w].id = g.id /\ req'[w].op = req[w].op
          /\ req'[w].throttling = req[w].throttling /\ req'[w].conditions = req[w].conditions
      BY <1>2, <2>1 DEF RequestShape
    <2>3. TriggersOf(w)' /\ BooksOf(w)'
      BY <1>0, <1>1, <1>2, <1>4, <2>1, <2>2 DEF TriggersOf, BooksOf
    <2>4. RequestShape(wpc'[w], req'[w])
      BY <1>0, <1>2, <1>6, <2>1, <2>2 DEF RequestShape, OpAt
    <2>5. WorkerStep(w)
      BY <1>0, <1>5, <1>6, <2>1, <2>2, <2>3, <2>4 DEF WorkerStep, FreshOf, Subscribing
    <2> QED BY <1>0, <2>5, SameDocs DEF DocsStep
  <1> QED BY <1>1, <1>7, <1>8

\* $set lastNotification, $inc count.
LEMMA NotifiedDocs ==
  ASSUME Shape, NEW s, csubs' = Notified(s)
  PROVE  DocsSame \/ (Exists(s) /\ Amends(s))
  <1>1. CASE ~Exists(s)
    BY <1>1, SameDocs DEF Notified
  <1>2. CASE Exists(s)
    <2>1. s \in SubIds /\ GoodDoc(csubs[s]) /\ clock \in Nat /\ DOMAIN csubs = SubIds
      BY <1>2 DEF Exists, Shape
    <2>2. csubs' = [csubs EXCEPT ![s].lastNotification = clock, ![s].count = @ + 1]
      BY <1>2 DEF Notified
    <2>3. /\ DOMAIN csubs' = SubIds
          /\ \A x \in SubIds \ {s} : csubs'[x] = csubs[x]
      BY <2>1, <2>2
    <2>4. csubs'[s] = [csubs[s] EXCEPT !.lastNotification = clock, !.count = @ + 1]
      BY <2>1, <2>2 DEF GoodDoc, DocFields
    <2>5. /\ DOMAIN csubs'[s] = DocFields /\ csubs'[s].lastNotification = clock
          /\ csubs'[s].count = csubs[s].count + 1
          /\ csubs'[s].throttling = csubs[s].throttling
          /\ csubs'[s].conditions = csubs[s].conditions
      BY <2>1, <2>4 DEF GoodDoc, DocFields
    <2>6. GoodDoc(csubs'[s]) /\ Monotone(csubs[s], csubs'[s])
      BY <2>1, <2>5 DEF GoodDoc, Monotone
    <2> QED BY <1>2, <2>1, <2>3, <2>6 DEF Amends
  <1> QED BY <1>1, <1>2

LEMMA MarkStep ==
  ASSUME DocsInv, NEW w \in Workers, MarkNotified(w)
  PROVE  WorkerStep(w) /\ DocsStep(w)
  <1>0. wpc[w] = "mark" /\ UNCHANGED <<issued, local>> /\ Shape
    BY DEF MarkNotified, hVars, DocsInv
  <1>1. /\ csubs' = Notified(req[w].id) \/ UNCHANGED csubs
        /\ req' = [req EXCEPT ![w].id = EmptyId] /\ wpc'[w] = "trigger"
    BY <1>0 DEF MarkNotified, GotoW, Shape
  <1>2. /\ OpAt(wpc[w], req[w].op) /\ LocalShape(wpc[w], local[w]) /\ TriggersOf(w)
        /\ RequestShape(wpc[w], req[w])
    BY <1>0, AtWork DEF Shape
  <1>3. DocsSame \/ (Exists(req[w].id) /\ Amends(req[w].id))
    BY <1>0, <1>1, SameDocs, NotifiedDocs
  <1>4. DocsStep(w)
    BY <1>0, <1>3 DEF DocsStep, Section, WorkerPC, Exists
  <1>5. req'[w] = [req[w] EXCEPT !.id = EmptyId]
    BY <1>0, <1>1 DEF Shape
  <1>6. /\ DOMAIN req'[w] = DOMAIN req[w] /\ req'[w].op = req[w].op
        /\ req'[w].throttling = req[w].throttling /\ req'[w].conditions = req[w].conditions
    BY <1>2, <1>5 DEF RequestShape
  <1>7. req[w].op = "entityUpdate"
    BY <1>0, <1>2 DEF OpAt
  <1>8. RequestShape(wpc'[w], req'[w])
    BY <1>0, <1>1, <1>2, <1>6, <1>7 DEF RequestShape, OpAt
  <1>9. \A x \in SubIds \ {req[w].id} : csubs'[x] = csubs[x]
    BY <1>3 DEF DocsSame, Amends
  <1>10. TriggersOf(w)' /\ BooksOf(w)'
    BY <1>0, <1>1, <1>2, <1>9 DEF TriggersOf, BooksOf
  <1>a. LocalShape(wpc'[w], local'[w])
    BY <1>0, <1>1, <1>2, SameLocals
  <1>11. WorkerStep(w)
    BY <1>0, <1>1, <1>a, <1>6, <1>7, <1>8, <1>10 DEF WorkerStep, FreshOf, Subscribing
  <1> QED BY <1>4, <1>11

LEMMA DoneStep ==
  ASSUME DocsInv, NEW w \in Workers, EntityUpdateDone(w)
  PROVE  WorkerStep(w) /\ DocsStep(w)
  <1>1. Answer(w) /\ UNCHANGED <<csubs, issued>> /\ Shape
    BY DEF EntityUpdateDone, Return, hVars, DocsInv
  <1> QED BY <1>1, AnswerStep, SameDocs DEF DocsStep

LEMMA WorkerForms ==
  ASSUME DocsInv, NEW w \in Workers, ReceiveRequest(w) \/ RequestStep(w)
  PROVE  WorkerStep(w) /\ DocsStep(w)
  BY ReceiveStep, TakeStep, SubscribeStep, UpdateFindStep, DestroyStep, RoundStep, WriteStep,
     UnsubscribeStep, RemoveStep, CollectStep, NotifyStep, MarkStep, DoneStep DEF RequestStep

\* Where writers take the semaphore, one request thread is between taking it
\* and giving it back, and then no interval thread gets it to write.
LEMMA Alone ==
  ASSUME SemInv, Policy \in {"all", "write"}
  PROVE  /\ \A v, w \in Workers : wpc[v] \in Section /\ wpc[w] \in Section => v = w
         /\ WithReqSem("write") => \A w \in Workers : wpc[w] \notin Section
  <1>1. ~Bypassed("write")
    BY DEF Bypassed
  <1>2. \A w \in Workers : wpc[w] \in Section => reqSemTaken[w]
    BY <1>1 DEF SemInv, SemOf
  <1>3. /\ \A v, w \in Workers : reqSemTaken[v] /\ reqSemTaken[w] => v = w
        /\ reqSem \in {0, 1} /\ (reqSem = 1 => \A w \in Workers : ~reqSemTaken[w])
    BY DEF SemInv, SemExclusive
  <1>4. WithReqSem("write") => reqSem > 0
    BY <1>1 DEF WithReqSem
  <1>5. WithReqSem("write") => \A w \in Workers : wpc[w] \notin Section
    BY <1>2, <1>3, <1>4
  <1> QED BY <1>2, <1>3, <1>5

\* The documents stay well formed when one changes and the clock does not.
LEMMA GoodDocsKept ==
  ASSUME Shape, UNCHANGED clock, DocsSame \/ \E s \in SubIds : Amends(s)
  PROVE  DOMAIN csubs' = SubIds /\ \A x \in SubIds : GoodDoc(csubs[x])'
  <1>1. \A x \in SubIds : GoodDoc(csubs[x])
    BY DEF Shape
  <1>2. DOMAIN csubs' = SubIds
    BY DEF DocsSame, Amends
  <1>3. \A x \in SubIds : GoodDoc(csubs'[x])
    BY <1>1 DEF DocsSame, Amends
  <1>4. \A x \in SubIds : GoodDoc(csubs[x])'
    BY <1>3 DEF GoodDoc
  <1> QED BY <1>2, <1>4

LEMMA WorkerKeeps ==
  ASSUME DocsInv, SemInv, Policy \in {"all", "write"}, UNCHANGED clock,
         NEW w \in Workers, ReceiveRequest(w) \/ RequestStep(w)
  PROVE  DocsInv'
  <1>0. Shape /\ Fresh /\ Books
    BY DEF DocsInv
  <1>1. WorkerStep(w) /\ DocsStep(w)
    BY WorkerForms
  <1>2. /\ DOMAIN req' = Workers /\ DOMAIN local' = Workers
        /\ \A v \in Workers \ {w} :
             wpc'[v] = wpc[v] /\ req'[v] = req[v] /\ local'[v] = local[v]
    BY <1>0, OthersKept
  <1>3. wpc' \in [Workers -> WorkerPC]
    BY <1>0, SemKeeps
  <1>4. DocsSame \/ \E s \in SubIds : Amends(s)
    BY <1>1 DEF DocsStep
  <1>5. Shape'
    <2>1. \A v \in Workers : RequestShape(wpc'[v], req'[v]) /\ LocalShape(wpc'[v], local'[v])
      BY <1>0, <1>1, <1>2 DEF Shape, WorkerStep
    <2>2. \A v \in Workers : (RequestShape(wpc[v], req[v]) /\ LocalShape(wpc[v], local[v]))'
      BY <2>1 DEF LocalShape, GoodDoc, RequestShape
    <2>3. DOMAIN csubs' = SubIds /\ \A x \in SubIds : GoodDoc(csubs[x])'
      BY <1>0, <1>4, GoodDocsKept
    <2>4. clock' \in Nat /\ clock' >= StartTime
      BY <1>0 DEF Shape
    <2> QED BY <1>2, <1>3, <2>2, <2>3, <2>4 DEF Shape
  <1>6. Books'
    <2>1. ASSUME NEW v \in Workers \ {w} PROVE BooksOf(v)' /\ TriggersOf(v)'
      <3>0. BooksOf(v) /\ TriggersOf(v) /\ wpc'[v] = wpc[v] /\ req'[v] = req[v] /\ local'[v] = local[v]
        BY <1>0, <1>2, <2>1 DEF Books
      <3>1. CASE DocsSame
        BY <3>0, <3>1 DEF BooksOf, TriggersOf, DocsSame, Exists
      <3>2. CASE wpc[w] \in Section
        <4>1. wpc[v] \notin Section
          BY <2>1, <3>2, Alone
        <4> QED BY <3>0, <4>1 DEF BooksOf, TriggersOf, Section, WorkerPC
      <3> QED BY <1>1, <3>1, <3>2 DEF DocsStep
    <2> QED BY <1>1, <2>1 DEF Books, WorkerStep
  <1>7. Fresh'
    <2>1. issued \subseteq issued' /\ FreshOf(w)'
      BY <1>1 DEF WorkerStep
    <2>2. /\ \A s \in SubIds : Exists(s) => s \in issued
          /\ \A v \in Workers : FreshOf(v)
      BY <1>0 DEF Fresh
    <2>3. \A v, u \in Workers : Subscribing(v) /\ Subscribing(u) /\ req[v].id = req[u].id => v = u
      BY <1>0 DEF Fresh
    <2>4. \A v \in Workers \ {w} : Subscribing(v)' <=> Subscribing(v)
      BY <1>2 DEF Subscribing
    <2>5. \A x \in SubIds : Exists(x)' => Exists(x) \/ (Subscribing(w) /\ req[w].id = x)
      <3>1. CASE DocsSame
        BY <3>1 DEF DocsSame, Exists
      <3>2. ASSUME NEW s \in SubIds, Amends(s),
                   Exists(s) \/ csubs'[s] = NoDoc \/ (Subscribing(w) /\ req[w].id = s)
            PROVE  \A x \in SubIds : Exists(x)' => Exists(x) \/ (Subscribing(w) /\ req[w].id = x)
        BY <3>2 DEF Amends, Exists
      <3> QED BY <1>1, <3>1, <3>2 DEF DocsStep
    <2>6. \A s \in SubIds : Exists(s)' => s \in issued'
      BY <2>1, <2>2, <2>5 DEF FreshOf
    <2>7. ASSUME NEW v \in Workers \ {w} PROVE FreshOf(v)'
      <3>1. FreshOf(v) /\ req'[v] = req[v] /\ (Subscribing(v)' <=> Subscribing(v))
        BY <1>2, <2>2, <2>4, <2>7
      <3>2. CASE Subscribing(v)
        <4>1. req[v].id \in SubIds /\ req[v].id \in issued /\ ~Exists(req[v].id)
          BY <3>1, <3>2 DEF FreshOf
        <4>2. ~(Subscribing(w) /\ req[w].id = req[v].id)
          BY <2>3, <2>7, <3>2
        <4>3. ~(Exists(req[v].id)')
          BY <2>5, <3>1, <4>1, <4>2 DEF Exists
        <4> QED BY <2>1, <3>1, <4>1, <4>3 DEF FreshOf, Exists
      <3>3. CASE ~Subscribing(v)
        BY <3>1, <3>3 DEF FreshOf
      <3> QED BY <3>2, <3>3
    <2>8. ASSUME NEW v \in Workers, NEW u \in Workers, Subscribing(v)', Subscribing(u)',
                 req'[v].id = req'[u].id, v # u
          PROVE  FALSE
      <3>1. ASSUME NEW x \in Workers \ {w}, Subscribing(x)', Subscribing(w)', req'[x].id = req'[w].id
            PROVE  FALSE
        <4>1. Subscribing(x) /\ req'[x] = req[x] /\ req[x].id \in issued
          BY <1>2, <2>2, <2>4, <3>1 DEF FreshOf
        <4>2. Subscribing(w) /\ req'[w].id = req[w].id
          BY <1>1, <3>1, <4>1 DEF WorkerStep
        <4> QED BY <2>3, <3>1, <4>1, <4>2
      <3>2. CASE v = w
        BY <2>8, <3>1, <3>2
      <3>3. CASE u = w
        BY <2>8, <3>1, <3>3
      <3>4. CASE v # w /\ u # w
        BY <1>2, <2>3, <2>4, <2>8, <3>4
      <3> QED BY <3>2, <3>3, <3>4
    <2> QED BY <2>1, <2>6, <2>7, <2>8 DEF Fresh
  <1> QED BY <1>5, <1>6, <1>7 DEF DocsInv

\* A step of an interval thread, of which one writes.
LEMMA ThreadDocs ==
  ASSUME DocsInv, SemInv, Policy \in {"all", "write"}, NEW t \in IntervalThreads, ThreadStep(t)
  PROVE  /\ UNCHANGED <<semVars, wVars, issued>>
         /\ \/ DocsSame
            \/ /\ \A w \in Workers : wpc[w] \notin Section
               /\ \E s \in SubIds : Exists(s) /\ Amends(s)
  <1>0. UNCHANGED <<semVars, wVars, issued>>
    BY DEF ThreadStep, GetSubscriptionInfo, GetContextElementResponses, WithReqSem, hVars,
         UpdateCsubNewNotification, SendInterval, GoToSleep, Wake, EndCancelled
  <1>1. CASE UpdateCsubNewNotification(t)
    <2>1. WithReqSem("write") /\ (csubs' = Notified(tsub[t]) \/ UNCHANGED csubs)
      BY <1>1 DEF UpdateCsubNewNotification
    <2>2. DocsSame \/ (Exists(tsub[t]) /\ Amends(tsub[t]))
      BY <2>1, SameDocs, NotifiedDocs DEF DocsInv
    <2> QED BY <1>0, <2>1, <2>2, Alone DEF Exists
  <1>2. CASE ~UpdateCsubNewNotification(t)
    <2>1. UNCHANGED csubs
      BY <1>2 DEF ThreadStep, GetSubscriptionInfo, GetContextElementResponses, SendInterval,
           GoToSleep, Wake, EndCancelled
    <2> QED BY <1>0, <2>1, SameDocs DEF DocsInv
  <1> QED BY <1>1, <1>2

LEMMA ThreadKeeps ==
  ASSUME DocsInv, SemInv, Policy \in {"all", "write"}, UNCHANGED clock,
         NEW t \in IntervalThreads, ThreadStep(t)
  PROVE  DocsInv' /\ SemInv'
  <1>0. Shape /\ Fresh /\ Books
    BY DEF DocsInv
  <1>1. UNCHANGED <<reqSem, reqSemTaken, wpc, req, local, issued>>
    BY ThreadDocs DEF semVars, wVars
  <1>2. \/ DocsSame
        \/ /\ \A w \in Workers : wpc[w] \notin Section
           /\ \E s \in SubIds : Exists(s) /\ Amends(s)
    BY ThreadDocs
  <1>3. SemInv'
    BY <1>1 DEF SemInv, SemOf, SemExclusive
  <1>4. Shape'
    <2>1. DOMAIN csubs' = SubIds /\ \A x \in SubIds : GoodDoc(csubs[x])'
      BY <1>0, <1>2, GoodDocsKept
    <2> QED BY <1>0, <1>1, <2>1 DEF Shape, LocalShape, GoodDoc
  <1>5. \A x \in SubIds : Exists(x)' => Exists(x)
    BY <1>2 DEF DocsSame, Amends, Exists
  <1>6. Fresh'
    BY <1>0, <1>1, <1>5 DEF Fresh, FreshOf, Subscribing
  <1>7. Books'
    <2>1. CASE DocsSame
      BY <1>0, <1>1, <2>1 DEF Books, BooksOf, TriggersOf, DocsSame, Exists
    <2>2. CASE \A w \in Workers : wpc[w] \notin Section
      BY <1>1, <2>2 DEF Books, BooksOf, TriggersOf, Section, WorkerPC
    <2> QED BY <1>2, <2>1, <2>2
  <1> QED BY <1>3, <1>4, <1>6, <1>7 DEF DocsInv

\* The death and the restart of the process, and the passing of time.
LEMMA LifeDocs ==
  ASSUME DocsInv, SemInv, Die \/ Restart \/ Tick \/ UNCHANGED vars
  PROVE  DocsInv' /\ SemInv' /\ DocsSame
  <1>0. Shape /\ Fresh /\ Books
    BY DEF DocsInv
  <1>1. UNCHANGED <<csubs, issued>> /\ (clock' = clock \/ clock' = clock + 1)
    BY DEF Die, Restart, Tick, vars, hVars
  <1>2. DocsSame
    BY <1>0, <1>1, SameDocs
  <1>3. clock \in Nat /\ clock >= StartTime /\ StartTime \in Nat
    BY <1>0, SubscriptionsAssumption DEF Shape
  <1>4. \A d : GoodDoc(d) => GoodDoc(d)'
    BY <1>1, <1>3 DEF GoodDoc
  <1>5. CASE Die
    <2>1. /\ \A w \in Workers : wpc'[w] = "idle" /\ req'[w] = NoRequest /\ local'[w] = NoLocals
                                /\ reqSemTaken'[w] = FALSE
          /\ wpc' \in [Workers -> WorkerPC] /\ reqSemTaken' \in [Workers -> BOOLEAN]
          /\ DOMAIN req' = Workers /\ DOMAIN local' = Workers /\ reqSem' = 1 /\ clock' = clock
      BY <1>5 DEF Die, All, WorkerPC
    <2>2. SemInv'
      BY <2>1 DEF SemInv, SemOf, SemExclusive, Section
    <2>3. RequestShape("idle", NoRequest)
      BY DEF RequestShape, NoRequest
    <2>4. LocalShape("idle", NoLocals)
      BY <1>0, NoDocGood DEF LocalShape, NoLocals
    <2>5. \A w \in Workers : RequestShape(wpc[w], req[w])' /\ LocalShape(wpc[w], local[w])'
      BY <2>1, <2>3, <2>4 DEF RequestShape, LocalShape, GoodDoc
    <2>6. \A s \in SubIds : GoodDoc(csubs[s])'
      BY <1>0, <1>1, <1>4 DEF Shape
    <2>7. Shape'
      BY <1>0, <1>1, <1>3, <2>1, <2>5, <2>6 DEF Shape
    <2>8. Fresh' /\ Books'
      BY <1>0, <1>1, <2>1 DEF Fresh, FreshOf, Subscribing, Exists, Books, BooksOf, TriggersOf
    <2> QED BY <1>2, <2>2, <2>7, <2>8 DEF DocsInv
  <1>6. CASE Restart \/ Tick \/ UNCHANGED vars
    <2>1. UNCHANGED <<reqSem, reqSemTaken, wpc, req, local>>
      BY <1>6 DEF Restart, Tick, vars, wVars, semVars
    <2>2. SemInv'
      BY <2>1 DEF SemInv, SemOf, SemExclusive
    <2>3. \A w \in Workers : RequestShape(wpc[w], req[w]) /\ LocalShape(wpc[w], local[w])
      BY <1>0 DEF Shape
    <2>4. \A w \in Workers : RequestShape(wpc[w], req[w])' /\ LocalShape(wpc[w], local[w])'
      BY <1>4, <2>1, <2>3 DEF RequestShape, LocalShape
    <2>5. \A s \in SubIds : GoodDoc(csubs[s])'
      BY <1>0, <1>1, <1>4 DEF Shape
    <2>6. Shape'
      BY <1>0, <1>1, <1>3, <2>1, <2>4, <2>5 DEF Shape
    <2>7. Fresh' /\ Books'
      BY <1>0, <1>1, <2>1 DEF Fresh, FreshOf, Subscribing, Exists, Books, BooksOf, TriggersOf
    <2> QED BY <1>2, <2>2, <2>6, <2>7 DEF DocsInv
  <1> QED BY <1>5, <1>6

LEMMA DocsInit == Init => DocsInv /\ SemInv
  <1> SUFFICES ASSUME Init PROVE DocsInv /\ SemInv
    OBVIOUS
  <1>0. /\ clock = StartTime /\ StartTime \in Nat /\ issued = {}
        /\ \A s \in SubIds : csubs[s] = NoDoc
        /\ DOMAIN csubs = SubIds /\ DOMAIN req = Workers /\ DOMAIN local = Workers
        /\ wpc \in [Workers -> WorkerPC]
    BY SubscriptionsAssumption DEF Init, All, WorkerPC
  <1>1. \A w \in Workers : wpc[w] = "idle" /\ req[w] = NoRequest /\ local[w] = NoLocals
    BY DEF Init, All
  <1>2. SemExclusive
    BY SemLockInit DEF Init, SemLock, SemExclusive
  <1>3. \A w \in Workers : ~reqSemTaken[w]
    BY Zenon DEF Init, semInit
  <1>4. SemInv
    BY <1>1, <1>2, <1>3 DEF SemInv, SemOf, Section
  <1>5. GoodDoc(NoDoc)
    BY <1>0 DEF GoodDoc, NoDoc, DocFields, Absent
  <1>6. LocalShape("idle", NoLocals) /\ RequestShape("idle", NoRequest)
    BY <1>5 DEF LocalShape, NoLocals, RequestShape, NoRequest
  <1>7. Shape
    BY <1>0, <1>1, <1>5, <1>6 DEF Shape
  <1>8. Fresh /\ Books
    BY <1>0, <1>1 DEF Fresh, FreshOf, Subscribing, Exists, Books, BooksOf, TriggersOf
  <1> QED BY <1>4, <1>7, <1>8 DEF DocsInv

LEMMA DocsNext ==
  ASSUME Policy \in {"all", "write"}, DocsInv, SemInv, [Next]_vars
  PROVE  DocsInv' /\ SemInv'
  <1>1. ASSUME NEW w \in Workers, Running(ReceiveRequest(w)) \/ Running(RequestStep(w))
        PROVE  DocsInv' /\ SemInv'
    <2>1. UNCHANGED clock /\ (ReceiveRequest(w) \/ RequestStep(w))
      BY <1>1 DEF Running
    <2> QED BY <2>1, WorkerKeeps, SemKeeps DEF DocsInv
  <1>2. ASSUME NEW t \in IntervalThreads, Running(ThreadStep(t)) PROVE DocsInv' /\ SemInv'
    BY <1>2, ThreadKeeps DEF Running
  <1>3. CASE Crash \/ Segfault \/ Restart \/ Tick \/ UNCHANGED vars
    BY <1>3, LifeDocs DEF Crash, Segfault
  <1> QED BY <1>1, <1>2, <1>3 DEF Next

LEMMA DocsAlways ==
  ASSUME Policy \in {"all", "write"} PROVE Spec => [](DocsInv /\ SemInv)
  <1>1. (DocsInv /\ SemInv) /\ [Next]_vars => (DocsInv /\ SemInv)'
    BY DocsNext
  <1> QED BY <1>1, DocsInit, PTL DEF Spec

\* Under the policies that make writers wait, two requests never work on
\* Notifier::threadsMap, which has no lock of its own, at the same time.
THEOREM SubsMapAccessExclusive ==
  ASSUME Policy \in {"all", "write"} PROVE Spec => []MapAccessExclusive
  <1>1. SemInv => MapAccessExclusive
    BY Alone DEF MapAccessExclusive, TouchesMap, Section, WorkerPC
  <1> QED BY <1>1, DocsAlways, PTL

\* Under the policies that make writers wait, no step takes back what a
\* notification wrote: while a document exists its count and lastNotification
\* never decrease, although updateContextSubscription writes values it read
\* several steps earlier, whatever fails and whenever the process dies.
THEOREM SubsBookkeepingMonotone ==
  ASSUME Policy \in {"all", "write"} PROVE Spec => BookkeepingMonotone
  <1> DEFINE Kept == \A s \in SubIds :
               Exists(s) /\ csubs'[s] # NoDoc =>
                 /\ csubs'[s].count >= csubs[s].count
                 /\ csubs'[s].lastNotification >= csubs[s].lastNotification
  <1>1. ASSUME DocsInv, SemInv, [Next]_vars PROVE Kept
    <2>0. \A s \in SubIds : GoodDoc(csubs[s]) /\ csubs[s].count \in Nat /\ csubs[s].lastNotification \in Int
      BY <1>1 DEF DocsInv, Shape, GoodDoc
    <2>1. CASE DocsSame
      BY <2>0, <2>1 DEF DocsSame
    <2>2. ASSUME NEW s \in SubIds, Amends(s) PROVE Kept
      BY <2>0, <2>2 DEF Amends, Monotone, Exists
    <2>3. ASSUME NEW w \in Workers, Running(ReceiveRequest(w)) \/ Running(RequestStep(w))
          PROVE  Kept
      <3>1. ReceiveRequest(w) \/ RequestStep(w)
        BY <2>3 DEF Running
      <3>2. DocsStep(w)
        BY <1>1, <3>1, WorkerForms
      <3> QED BY <3>2, <2>1, <2>2 DEF DocsStep
    <2>4. ASSUME NEW t \in IntervalThreads, Running(ThreadStep(t)) PROVE Kept
      <3>1. DocsSame \/ \E s \in SubIds : Exists(s) /\ Amends(s)
        BY <1>1, <2>4, ThreadDocs DEF Running
      <3> QED BY <3>1, <2>1, <2>2
    <2>5. CASE Crash \/ Segfault \/ Restart \/ Tick \/ UNCHANGED vars
      <3>1. DocsSame
        BY <1>1, <2>5, LifeDocs DEF Crash, Segfault
      <3> QED BY <3>1, <2>1
    <2> QED BY <1>1, <2>3, <2>4, <2>5 DEF Next
  <1>2. (DocsInv /\ SemInv) /\ [Next]_vars => [Kept]_vars
    BY <1>1
  <1> QED BY <1>2, DocsAlways, PTL DEF Spec, BookkeepingMonotone

\* Under the policies that make writers wait, an entity update notifies no
\* subscription whose document says that the last notification is less than
\* the throttling ago, although processSubscriptions decides on what
\* addTriggeredSubscriptions read several steps earlier.
THEOREM SubsEntityUpdatesThrottled ==
  ASSUME Policy \in {"all", "write"} PROVE Spec => EntityUpdatesThrottled
  <1> DEFINE Throttled(w) ==
               wpc[w] = "trigger" /\ wpc'[w] = "mark" =>
                 LET doc == csubs[req'[w].id] IN
                 doc.throttling > 1 => clock - doc.lastNotification >= doc.throttling
  <1>1. ASSUME DocsInv, SemInv, [Next]_vars, NEW w \in Workers, wpc[w] = "trigger", wpc'[w] = "mark"
        PROVE  ProcessSubscription(w)
    <2>0. Shape
      BY <1>1 DEF DocsInv
    <2>1. ASSUME NEW v \in Workers, Running(ReceiveRequest(v)) \/ Running(RequestStep(v))
          PROVE  ProcessSubscription(w)
      <3>1. ReceiveRequest(v) \/ RequestStep(v)
        BY <2>1 DEF Running
      <3>2. v = w
        BY <1>1, <2>0, <3>1, OthersKept
      <3>3. ReceiveRequest(w) \/ RequestStep(w)
        BY <3>1, <3>2
      <3>4. EntityUpdateDone(w) => wpc'[w] = "idle"
        BY <2>0 DEF EntityUpdateDone, Return, Answer, GotoW, Shape
      <3> QED BY <1>1, <3>3, <3>4 DEF RequestStep, ReceiveRequest, TakeSem, Subscribe, UpdateFind,
               UpdateDestroyThreads, processConditionVector, WriteDoc, UnsubscribeEmptyId,
               UnsubscribeFind, UnsubscribeRemove, UnsubscribeDestroyThreads,
               AddTriggeredSubscriptions, MarkNotified
    <2>2. ASSUME NEW t \in IntervalThreads, Running(ThreadStep(t)) PROVE UNCHANGED wpc
      BY <2>2 DEF Running, wVars, ThreadStep, GetSubscriptionInfo, GetContextElementResponses,
           UpdateCsubNewNotification, SendInterval, GoToSleep, Wake, EndCancelled
    <2>3. Die => wpc'[w] = "idle"
      BY DEF Die, All
    <2>4. Restart \/ Tick \/ UNCHANGED vars => UNCHANGED wpc
      BY DEF Restart, Tick, vars, wVars
    <2> QED BY <1>1, <2>1, <2>2, <2>3, <2>4 DEF Next, Crash, Segfault
  <1>2. ASSUME DocsInv, SemInv, [Next]_vars, NEW w \in Workers, wpc[w] = "trigger", wpc'[w] = "mark"
        PROVE  LET doc == csubs[req'[w].id] IN
               doc.throttling > 1 => clock - doc.lastNotification >= doc.throttling
    <2>0. Shape /\ TriggersOf(w)
      BY <1>2 DEF DocsInv, Books
    <2>1. PICK g \in local[w].triggered : ~Blocked(g) /\ req' = [req EXCEPT ![w].id = g.id]
      BY <1>1, <1>2 DEF ProcessSubscription
    <2>2. /\ g.id \in SubIds /\ g.throttling = csubs[g.id].throttling
          /\ g.lastNotification = csubs[g.id].lastNotification
      BY <1>2, <2>0, <2>1 DEF TriggersOf
    <2>3. DOMAIN req = Workers /\ "id" \in DOMAIN req[w]
      BY <2>0 DEF Shape, RequestShape
    <2>4. req'[w].id = g.id
      BY <2>1, <2>3
    <2>5. GoodDoc(csubs[g.id]) /\ clock \in Nat /\ clock >= StartTime /\ StartTime \in Nat
      BY <2>0, <2>2, SubscriptionsAssumption DEF Shape
    <2> QED BY <2>1, <2>2, <2>4, <2>5 DEF Blocked, GoodDoc
  <1>3. (DocsInv /\ SemInv) /\ [Next]_vars => [\A w \in Workers : Throttled(w)]_vars
    BY <1>2
  <1> QED BY <1>3, DocsAlways, PTL DEF Spec, EntityUpdatesThrottled

-----------------------------------------------------------------------------
(* One interval thread for each ONTIMEINTERVAL condition                    *)

\* Where a request thread may have left threads and document different.
Changing == {"conditions", "write", "destroyLast"}

CountOK(s) == Cardinality(ThreadsOf(s)) = IntervalConditions(csubs[s])

\* A request thread on its way from the old threads to the new document.
Midway(w) ==
  /\ wpc[w] = "destroy" => local[w].newSub.conditions = <<>>
  /\ wpc[w] \in {"destroy", "conditions", "write"} =>
       req[w].id \in SubIds /\ (Exists(req[w].id) \/ req[w].op = "subscribe")
  /\ wpc[w] \in {"conditions", "write"} =>
       Cardinality(ThreadsOf(req[w].id)) = IntervalConditions(local[w].newSub)
  /\ wpc[w] = "destroyLast" /\ req[w].id \in SubIds => csubs[req[w].id] = NoDoc

CountsInv ==
  /\ up => \A s \in SubIds :
             (\A w \in Workers : ~(wpc[w] \in Changing /\ req[w].id = s)) => CountOK(s)
  /\ \A w \in Workers : Midway(w)
  /\ ~up => \A w \in Workers : wpc[w] = "idle"

\* What the operations of the Notifier do to the threads in the map.
LEMMA ThreadsFinite ==
  ASSUME ThreadsInv, NEW s
  PROVE  IsFiniteSet(ThreadsOf(s)) /\ Cardinality(ThreadsOf(s)) \in Nat
  <1>1. ThreadsOf(s) \subseteq IntervalThreads
    BY DEF ThreadsOf, ThreadsInv, ThreadShape
  <1>2. IsFiniteSet(ThreadsOf(s))
    BY <1>1, SubscriptionsAssumption, FS_Subset
  <1> QED BY <1>2, FS_CardinalityType

LEMMA ThreadsSame ==
  ASSUME NEW s, UNCHANGED <<tsub, threadsMap>> PROVE ThreadsOf(s)' = ThreadsOf(s)
  BY DEF ThreadsOf

LEMMA CreateCount ==
  ASSUME ThreadsInv, "thread" \notin Faults, NEW s, createIntervalThread(s)
  PROVE  /\ Cardinality(ThreadsOf(s)') = Cardinality(ThreadsOf(s)) + 1
         /\ \A r : r # s => ThreadsOf(r)' = ThreadsOf(r)
  <1>1. PICK t \in IntervalThreads :
          /\ tpc[t] = "none" /\ tsub' = [tsub EXCEPT ![t] = s]
          /\ threadsMap' = threadsMap \union {t}
    BY DEF createIntervalThread
  <1>2. t \notin threadsMap /\ DOMAIN tsub = IntervalThreads /\ threadsMap \subseteq IntervalThreads
    BY <1>1 DEF ThreadsInv, ThreadShape, LiveThreadsMapped
  <1>3. tsub'[t] = s /\ \A u \in threadsMap : tsub'[u] = tsub[u]
    BY <1>1, <1>2
  <1>4. ThreadsOf(s)' = ThreadsOf(s) \union {t} /\ t \notin ThreadsOf(s)
    BY <1>1, <1>2, <1>3 DEF ThreadsOf
  <1>5. Cardinality(ThreadsOf(s)') = Cardinality(ThreadsOf(s)) + 1
    BY <1>4, ThreadsFinite, FS_AddElement
  <1>6. \A r : r # s => ThreadsOf(r)' = ThreadsOf(r)
    BY <1>1, <1>2, <1>3 DEF ThreadsOf
  <1> QED BY <1>5, <1>6

LEMMA DestroyCount ==
  ASSUME NEW s, destroyOntimeIntervalThreads(s)
  PROVE  /\ Cardinality(ThreadsOf(s)') = 0
         /\ \A r : r # s => ThreadsOf(r)' = ThreadsOf(r)
  <1>1. UNCHANGED tsub /\ threadsMap' = threadsMap \ {t \in threadsMap : tsub[t] = s}
    BY DEF destroyOntimeIntervalThreads
  <1>2. ThreadsOf(s)' = {} /\ \A r : r # s => ThreadsOf(r)' = ThreadsOf(r)
    BY <1>1 DEF ThreadsOf
  <1> QED BY <1>2, FS_EmptySet

LEMMA ThreadStepCount ==
  ASSUME ThreadsInv, NEW t \in IntervalThreads, ThreadStep(t), NEW s
  PROVE  ThreadsOf(s)' = ThreadsOf(s)
  <1>1. CASE EndCancelled(t)
    <2>1. t \notin threadsMap /\ UNCHANGED threadsMap /\ tsub' = [tsub EXCEPT ![t] = EmptyId]
      BY <1>1 DEF EndCancelled, ThreadsInv, LiveThreadsMapped
    <2>2. DOMAIN tsub = IntervalThreads /\ threadsMap \subseteq IntervalThreads
      BY DEF ThreadsInv, ThreadShape
    <2>3. \A u \in threadsMap : tsub'[u] = tsub[u]
      BY <2>1, <2>2
    <2> QED BY <2>1, <2>3 DEF ThreadsOf
  <1>2. CASE ~EndCancelled(t)
    <2>1. UNCHANGED <<tsub, threadsMap>>
      BY <1>2 DEF ThreadStep, GetSubscriptionInfo, GetContextElementResponses,
           UpdateCsubNewNotification, SendInterval, GoToSleep, Wake
    <2> QED BY <2>1, ThreadsSame
  <1> QED BY <1>1, <1>2

\* The interval conditions of a document.
LEMMA NoConditions ==
  ASSUME NEW doc, doc.conditions = <<>> PROVE IntervalConditions(doc) = 0
  <1>1. {i \in DOMAIN doc.conditions : doc.conditions[i] = "ONTIMEINTERVAL"} = {}
    OBVIOUS
  <1> QED BY <1>1, FS_EmptySet DEF IntervalConditions

LEMMA SameConditions ==
  ASSUME NEW d, NEW e, d.conditions = e.conditions
  PROVE  IntervalConditions(d) = IntervalConditions(e)
  BY DEF IntervalConditions

LEMMA AppendCondition ==
  ASSUME NEW d, NEW e, d.conditions \in Seq(Condition), NEW c \in Condition,
         e.conditions = Append(d.conditions, c)
  PROVE  /\ c = "ONTIMEINTERVAL" => IntervalConditions(e) = IntervalConditions(d) + 1
         /\ c # "ONTIMEINTERVAL" => IntervalConditions(e) = IntervalConditions(d)
         /\ IntervalConditions(d) \in Nat
  <1>1. PICK n \in Nat : n = Len(d.conditions)
    OBVIOUS
  <1>2. PICK D : D = {i \in DOMAIN d.conditions : d.conditions[i] = "ONTIMEINTERVAL"}
    OBVIOUS
  <1>3. PICK E : E = {i \in DOMAIN e.conditions : e.conditions[i] = "ONTIMEINTERVAL"}
    OBVIOUS
  <1>4. /\ DOMAIN d.conditions = 1..n /\ DOMAIN e.conditions = 1..(n + 1)
        /\ e.conditions[n + 1] = c /\ \A i \in 1..n : e.conditions[i] = d.conditions[i]
    BY <1>1
  <1>5. D \subseteq 1..n /\ IsFiniteSet(D) /\ Cardinality(D) \in Nat
    <2>1. D \subseteq 1..n
      BY <1>2, <1>4
    <2>2. IsFiniteSet(1..n)
      BY <1>1, FS_Interval
    <2>3. IsFiniteSet(D)
      BY <2>1, <2>2, FS_Subset
    <2> QED BY <2>1, <2>3, FS_CardinalityType
  <1>6. n + 1 \notin D
    BY <1>1, <1>5
  <1>7. CASE c = "ONTIMEINTERVAL"
    <2>1. E = D \union {n + 1}
      BY <1>1, <1>2, <1>3, <1>4, <1>7
    <2>2. Cardinality(E) = Cardinality(D) + 1
      BY <1>5, <1>6, <2>1, FS_AddElement
    <2> QED BY <1>2, <1>3, <1>5, <1>7, <2>2 DEF IntervalConditions
  <1>8. CASE c # "ONTIMEINTERVAL"
    <2>1. E = D
      BY <1>1, <1>2, <1>3, <1>4, <1>8
    <2> QED BY <1>2, <1>3, <1>5, <1>8, <2>1 DEF IntervalConditions
  <1> QED BY <1>7, <1>8

\* The part of CountsInv that is about a request thread that is alone.
LoneCounts(w) ==
  /\ \A s \in SubIds : ~(wpc[w] \in Changing /\ req[w].id = s) => CountOK(s)
  /\ Midway(w)

\* A step that changes neither threads nor documents, outside of the changes.
LEMMA QuietCounts ==
  ASSUME NEW w \in Workers, LoneCounts(w), UNCHANGED <<csubs, tsub, threadsMap>>,
         wpc[w] \notin Changing, wpc'[w] \notin Changing, wpc'[w] # "destroy"
  PROVE  LoneCounts(w)'
  <1>1. \A s \in SubIds : CountOK(s)
    BY DEF LoneCounts
  <1>2. \A s \in SubIds : CountOK(s)'
    BY <1>1, ThreadsSame DEF CountOK
  <1> QED BY <1>2 DEF LoneCounts, Midway, Changing

LEMMA SubscribeCounts ==
  ASSUME DocsInv, NEW w \in Workers, LoneCounts(w), Subscribe(w)
  PROVE  LoneCounts(w)'
  <1>1. /\ wpc[w] = "subscribe" /\ UNCHANGED <<csubs, req, tsub, threadsMap>>
        /\ wpc'[w] \in {"write", "conditions"}
    BY DEF Subscribe, GotoW, ConditionsLeft, tVars, DocsInv, Shape
  <1>2. local'[w].newSub.conditions = <<>>
    BY SubscribeStep
  <1>3. req[w].op = "subscribe" /\ req[w].id \in SubIds /\ csubs[req[w].id] = NoDoc
    BY <1>1, AtWork DEF OpAt, FreshOf, Subscribing, Exists
  <1>4. \A s \in SubIds : CountOK(s)
    BY <1>1 DEF LoneCounts, Changing
  <1>5. \A s \in SubIds : CountOK(s)'
    BY <1>1, <1>4, ThreadsSame DEF CountOK
  <1>6. IntervalConditions(local'[w].newSub) = 0 /\ IntervalConditions(csubs[req[w].id]) = 0
    BY <1>2, <1>3, NoConditions DEF NoDoc
  <1>7. Cardinality(ThreadsOf(req[w].id)) = 0
    BY <1>3, <1>4, <1>6 DEF CountOK
  <1>8. Cardinality(ThreadsOf(req[w].id))' = 0
    BY <1>1, <1>7 DEF ThreadsOf
  <1>9. Midway(w)'
    BY <1>1, <1>3, <1>6, <1>8 DEF Midway
  <1> QED BY <1>5, <1>9 DEF LoneCounts

LEMMA UpdateFindCounts ==
  ASSUME DocsInv, NEW w \in Workers, LoneCounts(w), UpdateFind(w)
  PROVE  LoneCounts(w)'
  <1>0. wpc[w] = "update" /\ UNCHANGED <<csubs, tsub, threadsMap>> /\ Shape
    BY DEF UpdateFind, tVars, DocsInv
  <1>1. CASE Return(w)
    <2>1. wpc'[w] = "idle"
      BY <1>0, <1>1 DEF Return, Answer, GotoW, Shape
    <2> QED BY <1>0, <2>1, QuietCounts DEF Changing
  <1>2. CASE ~Return(w)
    <2>1. /\ Exists(req[w].id) /\ UNCHANGED req
          /\ SetLocal(w, [NoLocals EXCEPT !.newSub = UpdatedDoc(csubs[req[w].id], req[w])])
          /\ wpc'[w] = IF req[w].conditions = <<>> THEN "write" ELSE "destroy"
      BY <1>2 DEF UpdateFind, GotoW, DocsInv, Shape
    <2>2. local'[w].newSub = UpdatedDoc(csubs[req[w].id], req[w])
      BY <1>0, <2>1 DEF SetLocal, Shape, NoLocals
    <2>3. /\ req[w].throttling \in Int
          /\ req[w].throttling < StartTime \/ req[w].throttling = 0
      BY <1>0, AtWork DEF OpAt
    <2>4. req[w].id \in SubIds /\ GoodDoc(csubs[req[w].id])
      BY <2>1 DEF Exists, DocsInv, Shape
    <2>5. local'[w].newSub.conditions =
            IF req[w].conditions = <<>> THEN csubs[req[w].id].conditions ELSE <<>>
      BY <1>0, <2>2, <2>3, <2>4, UpdatedDocGood
    <2>6. \A s \in SubIds : CountOK(s)
      BY <1>0 DEF LoneCounts, Changing
    <2>7. \A s \in SubIds : CountOK(s)'
      BY <1>0, <2>6, ThreadsSame DEF CountOK
    <2>8. wpc'[w] = "write" =>
            Cardinality(ThreadsOf(req[w].id))' = IntervalConditions(local[w].newSub)'
      <3>1. SUFFICES ASSUME wpc'[w] = "write"
                     PROVE  Cardinality(ThreadsOf(req[w].id))' = IntervalConditions(local'[w].newSub)
        BY DEF IntervalConditions
      <3>2. local'[w].newSub.conditions = csubs[req[w].id].conditions
        BY <2>1, <2>5, <3>1
      <3>3. IntervalConditions(local'[w].newSub) = IntervalConditions(csubs[req[w].id])
        BY <3>2, SameConditions
      <3>4. Cardinality(ThreadsOf(req[w].id)) = IntervalConditions(csubs[req[w].id])
        BY <2>4, <2>6 DEF CountOK
      <3>5. Cardinality(ThreadsOf(req[w].id))' = Cardinality(ThreadsOf(req[w].id))
        BY <1>0, <2>1 DEF ThreadsOf
      <3> QED BY <3>3, <3>4, <3>5
    <2>9. Midway(w)'
      BY <1>0, <2>1, <2>4, <2>5, <2>8 DEF Midway, Exists
    <2> QED BY <2>7, <2>9 DEF LoneCounts
  <1> QED BY <1>1, <1>2

LEMMA DestroyCounts ==
  ASSUME DocsInv, NEW w \in Workers, LoneCounts(w), UpdateDestroyThreads(w)
  PROVE  LoneCounts(w)'
  <1>1. /\ wpc[w] = "destroy" /\ UNCHANGED <<csubs, req>>
        /\ destroyOntimeIntervalThreads(req[w].id)
        /\ wpc'[w] \in {"write", "conditions"}
    BY DEF UpdateDestroyThreads, GotoW, ConditionsLeft, DocsInv, Shape
  <1>2. local'[w].newSub.conditions = <<>>
    BY <1>1, DestroyStep DEF LoneCounts, Midway
  <1>3. IntervalConditions(local'[w].newSub) = 0
    BY <1>2, NoConditions
  <1>4. /\ Cardinality(ThreadsOf(req[w].id)') = 0
        /\ \A r : r # req[w].id => ThreadsOf(r)' = ThreadsOf(r)
    BY <1>1, DestroyCount
  <1>5. \A s \in SubIds : CountOK(s)
    BY <1>1 DEF LoneCounts, Changing
  <1>6. \A s \in SubIds : s # req[w].id => CountOK(s)'
    BY <1>1, <1>4, <1>5 DEF CountOK
  <1>7. Midway(w)'
    <2>1. Cardinality(ThreadsOf(req[w].id))' = IntervalConditions(local[w].newSub)'
      BY <1>3, <1>4
    <2>2. req[w].id \in SubIds /\ (Exists(req[w].id) \/ req[w].op = "subscribe")
      BY <1>1 DEF LoneCounts, Midway
    <2> QED BY <1>1, <2>1, <2>2 DEF Midway, Exists
  <1> QED BY <1>1, <1>6, <1>7 DEF LoneCounts, Changing

LEMMA RoundCounts ==
  ASSUME DocsInv, ThreadsInv, "thread" \notin Faults,
         NEW w \in Workers, LoneCounts(w), processConditionVector(w)
  PROVE  LoneCounts(w)'
  <1>1. /\ wpc[w] = "conditions" /\ UNCHANGED <<csubs, req>>
        /\ wpc'[w] \in {"write", "conditions"}
    BY DEF processConditionVector, GotoW, ConditionsLeft, DocsInv, Shape
  <1>2. PICK s : s = req[w].id
    OBVIOUS
  <1>3. PICK c : c = Head(local[w].todo)
    OBVIOUS
  <1>4. /\ local[w].todo \in Seq(Condition) /\ local[w].todo # <<>>
        /\ local'[w].newSub.conditions =
             IF c = "ONVALUE" THEN local[w].newSub.conditions
               ELSE Append(local[w].newSub.conditions, c)
    BY <1>3, RoundStep
  <1>5. c \in Condition /\ local[w].newSub.conditions \in Seq(Condition)
    BY <1>1, <1>3, <1>4, AtWork DEF LocalShape, GoodDoc
  <1>6. /\ s \in SubIds /\ (Exists(s) \/ req[w].op = "subscribe")
        /\ Cardinality(ThreadsOf(s)) = IntervalConditions(local[w].newSub)
        /\ \A r \in SubIds : r # s => CountOK(r)
    BY <1>1, <1>2 DEF LoneCounts, Midway
  <1>7. /\ Cardinality(ThreadsOf(s)') = IntervalConditions(local'[w].newSub)
        /\ \A r : r # s => ThreadsOf(r)' = ThreadsOf(r)
    <2>1. CASE c = "ONTIMEINTERVAL"
      <3>1. createIntervalThread(s)
        BY <1>2, <1>3, <2>1 DEF processConditionVector, processOntimeIntervalCondition,
             processOnChangeCondition, SkipOnValueCondition
      <3>2. IntervalConditions(local'[w].newSub) = IntervalConditions(local[w].newSub) + 1
        BY <1>4, <1>5, <2>1, AppendCondition
      <3> QED BY <1>6, <3>1, <3>2, CreateCount
    <2>2. CASE c # "ONTIMEINTERVAL"
      <3>1. UNCHANGED <<tsub, threadsMap>>
        BY <1>3, <2>2 DEF processConditionVector, processOntimeIntervalCondition,
             processOnChangeCondition, SkipOnValueCondition, tVars
      <3>2. IntervalConditions(local'[w].newSub) = IntervalConditions(local[w].newSub)
        <4>1. CASE c = "ONVALUE"
          BY <1>4, <4>1, SameConditions
        <4>2. CASE c # "ONVALUE"
          BY <1>4, <1>5, <2>2, <4>2, AppendCondition
        <4> QED BY <4>1, <4>2
      <3> QED BY <1>6, <3>1, <3>2, ThreadsSame
    <2> QED BY <2>1, <2>2
  <1>8. \A r \in SubIds : r # s => CountOK(r)'
    BY <1>1, <1>6, <1>7 DEF CountOK
  <1>9. Midway(w)'
    <2>1. (Cardinality(ThreadsOf(req[w].id)) = IntervalConditions(local[w].newSub))'
      <3>1. ThreadsOf(req[w].id)' = ThreadsOf(s)'
        BY <1>1, <1>2 DEF ThreadsOf
      <3> QED BY <1>7, <3>1
    <2> QED BY <1>1, <1>2, <1>6, <2>1 DEF Midway, Exists
  <1> QED BY <1>1, <1>2, <1>8, <1>9 DEF LoneCounts, Changing

LEMMA WriteCounts ==
  ASSUME DocsInv, "db" \notin Faults, NEW w \in Workers, LoneCounts(w), WriteDoc(w)
  PROVE  LoneCounts(w)'
  <1>0. wpc[w] = "write" /\ UNCHANGED <<tsub, threadsMap>> /\ Shape /\ Answer(w)
    BY DEF WriteDoc, Return, tVars, DocsInv
  <1>1. wpc'[w] = "idle"
    BY <1>0 DEF Answer, GotoW, Shape
  <1>2. PICK s : s = req[w].id
    OBVIOUS
  <1>3. /\ s \in SubIds /\ (Exists(s) \/ req[w].op = "subscribe")
        /\ Cardinality(ThreadsOf(s)) = IntervalConditions(local[w].newSub)
        /\ \A r \in SubIds : r # s => CountOK(r)
    BY <1>0, <1>2 DEF LoneCounts, Midway
  <1>4. csubs' = [csubs EXCEPT ![s] = Accounted(local[w])]
    BY <1>2, <1>3 DEF WriteDoc
  <1>5. csubs'[s] = Accounted(local[w]) /\ \A r \in SubIds : r # s => csubs'[r] = csubs[r]
    BY <1>0, <1>3, <1>4 DEF Shape
  <1>6. csubs'[s].conditions = local[w].newSub.conditions
    BY <1>0, <1>5, AtWork, AccountedGood
  <1>7. IntervalConditions(csubs'[s]) = IntervalConditions(local[w].newSub)
    BY <1>6, SameConditions
  <1>8. CountOK(s)'
    BY <1>0, <1>3, <1>7, ThreadsSame DEF CountOK
  <1>9. \A r \in SubIds : r # s => CountOK(r)'
    BY <1>0, <1>3, <1>5, ThreadsSame DEF CountOK
  <1> QED BY <1>1, <1>8, <1>9 DEF LoneCounts, Midway

LEMMA RemoveCounts ==
  ASSUME DocsInv, "db" \notin Faults, NEW w \in Workers, LoneCounts(w), UnsubscribeRemove(w)
  PROVE  LoneCounts(w)'
  <1>1. /\ wpc[w] = "remove" /\ UNCHANGED <<tsub, threadsMap, req>>
        /\ csubs' = [csubs EXCEPT ![req[w].id] = NoDoc] /\ wpc'[w] = "destroyLast"
        /\ DOMAIN csubs = SubIds
    BY DEF UnsubscribeRemove, tVars, GotoW, DocsInv, Shape
  <1>2. /\ \A r \in SubIds : r # req[w].id => csubs'[r] = csubs[r]
        /\ req[w].id \in SubIds => csubs'[req[w].id] = NoDoc
    BY <1>1
  <1>3. \A r \in SubIds : r # req[w].id => CountOK(r)'
    BY <1>1, <1>2, ThreadsSame DEF LoneCounts, Changing, CountOK
  <1> QED BY <1>1, <1>2, <1>3 DEF LoneCounts, Midway, Changing

LEMMA DestroyLastCounts ==
  ASSUME DocsInv, NEW w \in Workers, LoneCounts(w), UnsubscribeDestroyThreads(w)
  PROVE  LoneCounts(w)'
  <1>1. /\ wpc[w] = "destroyLast" /\ UNCHANGED csubs /\ wpc'[w] = "idle"
        /\ destroyOntimeIntervalThreads(req[w].id)
    BY DEF UnsubscribeDestroyThreads, Return, Answer, GotoW, DocsInv, Shape
  <1>2. PICK s : s = req[w].id
    OBVIOUS
  <1>3. /\ Cardinality(ThreadsOf(s)') = 0
        /\ \A r : r # s => ThreadsOf(r)' = ThreadsOf(r)
    BY <1>1, <1>2, DestroyCount
  <1>4. s \in SubIds => csubs'[s].conditions = <<>>
    BY <1>1, <1>2 DEF LoneCounts, Midway, NoDoc
  <1>5. s \in SubIds => IntervalConditions(csubs'[s]) = 0
    BY <1>4, NoConditions
  <1>6. s \in SubIds => CountOK(s)'
    BY <1>3, <1>5 DEF CountOK
  <1>7. \A r \in SubIds : r # s => CountOK(r)
    BY <1>2 DEF LoneCounts
  <1>8. \A r \in SubIds : r # s => CountOK(r)'
    BY <1>1, <1>3, <1>7 DEF CountOK
  <1> QED BY <1>1, <1>6, <1>8 DEF LoneCounts, Midway

\* The bookkeeping of a notification leaves the conditions alone.
LEMMA NotifiedConditions ==
  ASSUME Shape, NEW s, csubs' = Notified(s) \/ UNCHANGED csubs
  PROVE  \A r \in SubIds : csubs'[r].conditions = csubs[r].conditions
  <1>1. CASE UNCHANGED csubs
    BY <1>1
  <1>2. CASE ~UNCHANGED csubs
    <2>1. /\ Exists(s) /\ csubs' = [csubs EXCEPT ![s].lastNotification = clock, ![s].count = @ + 1]
      BY <1>2 DEF Notified
    <2>2. s \in SubIds /\ GoodDoc(csubs[s]) /\ DOMAIN csubs = SubIds
      BY <2>1 DEF Exists, Shape
    <2> QED BY <2>1, <2>2 DEF GoodDoc, DocFields
  <1> QED BY <1>1, <1>2

LEMMA MarkCounts ==
  ASSUME DocsInv, NEW w \in Workers, LoneCounts(w), MarkNotified(w)
  PROVE  LoneCounts(w)'
  <1>1. /\ wpc[w] = "mark" /\ UNCHANGED <<tsub, threadsMap>> /\ wpc'[w] = "trigger"
        /\ csubs' = Notified(req[w].id) \/ UNCHANGED csubs
    BY DEF MarkNotified, tVars, GotoW, DocsInv, Shape
  <1>2. \A r \in SubIds : csubs'[r].conditions = csubs[r].conditions
    BY <1>1, NotifiedConditions DEF DocsInv
  <1>3. \A r \in SubIds : IntervalConditions(csubs'[r]) = IntervalConditions(csubs[r])
    BY <1>2, SameConditions
  <1>4. \A r \in SubIds : CountOK(r)'
    BY <1>1, <1>3, ThreadsSame DEF LoneCounts, Changing, CountOK
  <1> QED BY <1>1, <1>4 DEF LoneCounts, Midway

LEMMA OtherCounts ==
  ASSUME DocsInv, NEW w \in Workers, LoneCounts(w),
         \/ UnsubscribeEmptyId(w) \/ UnsubscribeFind(w)
         \/ AddTriggeredSubscriptions(w) \/ ProcessSubscription(w) \/ EntityUpdateDone(w)
  PROVE  LoneCounts(w)'
  <1>1. UNCHANGED <<csubs, tsub, threadsMap>>
    BY DEF UnsubscribeEmptyId, UnsubscribeFind, AddTriggeredSubscriptions, ProcessSubscription,
         EntityUpdateDone, tVars
  <1>2. /\ wpc[w] \in {"unsubscribe", "entityUpdate", "trigger"}
        /\ wpc'[w] \in {"idle", "remove", "trigger", "mark"}
    BY DEF UnsubscribeEmptyId, UnsubscribeFind, AddTriggeredSubscriptions, ProcessSubscription,
         EntityUpdateDone, Return, Answer, GotoW, DocsInv, Shape
  <1> QED BY <1>1, <1>2, QuietCounts DEF Changing

\* A request thread between taking and giving is alone, so its step has to
\* keep LoneCounts only.
LEMMA WorkerCounts ==
  ASSUME DocsInv, SemInv, ThreadsInv, CountsInv, Policy \in {"all", "write"},
         "db" \notin Faults, "thread" \notin Faults, up, up' = up,
         NEW w \in Workers, ReceiveRequest(w) \/ RequestStep(w)
  PROVE  CountsInv'
  <1>0. /\ \A s \in SubIds :
             (\A v \in Workers : ~(wpc[v] \in Changing /\ req[v].id = s)) => CountOK(s)
        /\ \A v \in Workers : Midway(v)
    BY DEF CountsInv
  <1>1. \A v \in Workers \ {w} : wpc'[v] = wpc[v] /\ req'[v] = req[v] /\ local'[v] = local[v]
    BY OthersKept DEF DocsInv
  <1>2. CASE ReceiveRequest(w) \/ TakeSem(w)
    <2>1. /\ UNCHANGED <<csubs, tsub, threadsMap>> /\ wpc[w] \in {"idle", "take"}
      BY <1>2 DEF ReceiveRequest, TakeSem, tVars
    <2>2. wpc'[w] \in {"take", "subscribe", "update", "unsubscribe", "entityUpdate"}
      <3>1. wpc[w] = "take" => OpAt(wpc[w], req[w].op)
        BY AtWork
      <3> QED BY <1>2, <3>1 DEF ReceiveRequest, TakeSem, GotoW, OpAt, DocsInv, Shape
    <2>3. \A s \in SubIds :
            (\A v \in Workers : ~(wpc'[v] \in Changing /\ req'[v].id = s)) => CountOK(s)
      BY <1>0, <1>1, <2>1 DEF Changing
    <2>4. \A s \in SubIds : CountOK(s)' <=> CountOK(s)
      BY <2>1, ThreadsSame DEF CountOK
    <2>5. ASSUME NEW v \in Workers PROVE Midway(v)'
      <3>1. CASE v = w
        BY <2>2, <3>1 DEF Midway
      <3>2. CASE v # w
        <4>1. Midway(v) /\ wpc'[v] = wpc[v] /\ req'[v] = req[v] /\ local'[v] = local[v]
          BY <1>0, <1>1, <3>2
        <4>2. ThreadsOf(req[v].id)' = ThreadsOf(req[v].id)
          BY <2>1, <4>1 DEF ThreadsOf
        <4> QED BY <2>1, <4>1, <4>2 DEF Midway, Exists
      <3> QED BY <3>1, <3>2
    <2> QED BY <2>3, <2>4, <2>5 DEF CountsInv
  <1>3. CASE ~(ReceiveRequest(w) \/ TakeSem(w))
    <2>1. wpc[w] \in Section
      BY <1>3 DEF RequestStep, Subscribe, UpdateFind, UpdateDestroyThreads,
           processConditionVector, WriteDoc, UnsubscribeEmptyId, UnsubscribeFind,
           UnsubscribeRemove, UnsubscribeDestroyThreads, AddTriggeredSubscriptions,
           ProcessSubscription, MarkNotified, EntityUpdateDone, Section, WorkerPC
    <2>2. \A v \in Workers \ {w} : wpc[v] \notin Section
      BY <2>1, Alone
    <2>3. \A v \in Workers \ {w} : wpc'[v] \notin Changing \union {"destroy"}
      BY <1>1, <2>2 DEF Changing, Section, WorkerPC
    <2>4. LoneCounts(w)
      BY <1>0, <2>2 DEF LoneCounts, Changing, Section, WorkerPC
    <2>5. LoneCounts(w)'
      BY <1>3, <2>4, SubscribeCounts, UpdateFindCounts, DestroyCounts, RoundCounts, WriteCounts,
         RemoveCounts, DestroyLastCounts, MarkCounts, OtherCounts DEF RequestStep
    <2>6. \A v \in Workers : Midway(v)'
      BY <2>3, <2>5 DEF LoneCounts, Midway, Changing
    <2>7. \A s \in SubIds :
            (\A v \in Workers : ~(wpc'[v] \in Changing /\ req'[v].id = s)) => CountOK(s)'
      BY <2>5 DEF LoneCounts
    <2> QED BY <2>6, <2>7 DEF CountsInv
  <1> QED BY <1>2, <1>3

LEMMA ThreadCounts ==
  ASSUME DocsInv, SemInv, ThreadsInv, CountsInv, Policy \in {"all", "write"}, up, up' = up,
         NEW t \in IntervalThreads, ThreadStep(t)
  PROVE  CountsInv'
  <1>0. /\ \A s \in SubIds :
             (\A v \in Workers : ~(wpc[v] \in Changing /\ req[v].id = s)) => CountOK(s)
        /\ \A v \in Workers : Midway(v)
    BY DEF CountsInv
  <1>1. UNCHANGED <<wpc, req, local>>
    BY ThreadDocs DEF wVars
  <1>2. \A s : ThreadsOf(s)' = ThreadsOf(s)
    BY ThreadStepCount
  <1>3. \A r \in SubIds : csubs'[r].conditions = csubs[r].conditions
    <2>1. csubs' = Notified(tsub[t]) \/ UNCHANGED csubs
      BY DEF ThreadStep, GetSubscriptionInfo, GetContextElementResponses,
           UpdateCsubNewNotification, SendInterval, GoToSleep, Wake, EndCancelled
    <2> QED BY <2>1, NotifiedConditions DEF DocsInv
  <1>4. \A r \in SubIds : IntervalConditions(csubs'[r]) = IntervalConditions(csubs[r])
    BY <1>3, SameConditions
  <1>5. \A r \in SubIds : CountOK(r) => CountOK(r)'
    BY <1>2, <1>4 DEF CountOK
  <1>6. ASSUME NEW v \in Workers PROVE Midway(v)'
    <2>0. Midway(v)
      BY <1>0
    <2>1. CASE wpc[v] \notin Section
      BY <1>1, <2>1 DEF Midway, Section, WorkerPC
    <2>2. CASE wpc[v] \in Section
      <3>1. DocsSame
        BY <2>2, ThreadDocs
      <3>2. ThreadsOf(req[v].id)' = ThreadsOf(req[v].id)
        BY <1>1, <1>2 DEF ThreadsOf
      <3> QED BY <1>1, <2>0, <3>1, <3>2 DEF Midway, Exists, DocsSame
    <2> QED BY <2>1, <2>2
  <1> QED BY <1>0, <1>1, <1>5, <1>6 DEF CountsInv

LEMMA LifeCounts ==
  ASSUME ThreadsInv, CountsInv, "db" \notin Faults, "thread" \notin Faults,
         Die \/ Restart \/ Tick \/ UNCHANGED vars
  PROVE  CountsInv'
  <1>1. CASE Die
    <2>1. up' = FALSE /\ \A w \in Workers : wpc'[w] = "idle"
      BY <1>1 DEF Die, All
    <2> QED BY <2>1 DEF CountsInv, Midway
  <1>2. CASE Restart
    <2>0. ~up /\ UNCHANGED <<csubs, wpc, req, local>>
      BY <1>2 DEF Restart, wVars
    <2>1. \A w \in Workers : wpc'[w] = "idle"
      BY <2>0 DEF CountsInv
    <2>2. PICK f \in [IntervalThreads -> SubIds \union {EmptyId}] :
            /\ \A s \in SubIds : Cardinality({t \in IntervalThreads : f[t] = s}) = IntervalConditions(csubs[s])
            /\ tsub' = f
            /\ threadsMap' = {t \in IntervalThreads : f[t] # EmptyId}
      BY <1>2 DEF Restart
    <2>3. ASSUME NEW s \in SubIds PROVE CountOK(s)'
      <3>1. s # EmptyId
        BY SubscriptionsAssumption
      <3>2. ThreadsOf(s)' = {t \in IntervalThreads : f[t] = s}
        BY <2>2, <3>1 DEF ThreadsOf
      <3>3. Cardinality(ThreadsOf(s)') = IntervalConditions(csubs'[s])
        BY <2>0, <2>2, <3>2
      <3> QED BY <3>3 DEF CountOK
    <2> QED BY <1>2, <2>1, <2>3 DEF CountsInv, Midway, Restart
  <1>3. CASE Tick \/ UNCHANGED vars
    <2>1. UNCHANGED <<up, csubs, wpc, req, local, tsub, threadsMap>>
      BY <1>3 DEF Tick, vars, wVars, tVars
    <2>2. \A s : CountOK(s)' <=> CountOK(s)
      BY <2>1 DEF CountOK, ThreadsOf
    <2>3. \A v \in Workers : Midway(v) => Midway(v)'
      BY <2>1 DEF Midway, ThreadsOf, Exists
    <2> QED BY <2>1, <2>2, <2>3 DEF CountsInv
  <1> QED BY <1>1, <1>2, <1>3

LEMMA CountsAlways ==
  ASSUME Policy \in {"all", "write"}, "db" \notin Faults, "thread" \notin Faults
  PROVE  Spec => [](DocsInv /\ SemInv /\ ThreadsInv /\ CountsInv)
  <1> DEFINE Inv == DocsInv /\ SemInv /\ ThreadsInv /\ CountsInv
  <1>1. Init => Inv
    <2> SUFFICES ASSUME Init PROVE Inv
      OBVIOUS
    <2>1. DocsInv /\ SemInv
      BY DocsInit
    <2>2. ThreadsInv
      BY ThreadsInit
    <2>3. \A w \in Workers : wpc[w] = "idle"
      BY DEF Init, All
    <2>4. up /\ \A s \in SubIds : csubs[s].conditions = <<>>
      BY DEF Init, NoDoc
    <2>5. \A s : ThreadsOf(s) = {}
      BY DEF Init, ThreadsOf
    <2>6. \A s \in SubIds : CountOK(s)
      BY <2>4, <2>5, NoConditions, FS_EmptySet DEF CountOK
    <2>7. CountsInv
      BY <2>3, <2>4, <2>6 DEF CountsInv, Midway
    <2> QED BY <2>1, <2>2, <2>7
  <1>2. Inv /\ [Next]_vars => Inv'
    <2> SUFFICES ASSUME Inv, [Next]_vars PROVE Inv'
      OBVIOUS
    <2>1. DocsInv' /\ SemInv'
      BY DocsNext
    <2>2. ThreadsInv'
      BY ThreadsNext
    <2>3. CountsInv'
      <3>1. ASSUME NEW w \in Workers, Running(ReceiveRequest(w)) \/ Running(RequestStep(w))
            PROVE  CountsInv'
        BY <3>1, WorkerCounts DEF Running
      <3>2. ASSUME NEW t \in IntervalThreads, Running(ThreadStep(t)) PROVE CountsInv'
        BY <3>2, ThreadCounts DEF Running
      <3>3. CASE Crash \/ Segfault \/ Restart \/ Tick \/ UNCHANGED vars
        BY <3>3, LifeCounts DEF Crash, Segfault
      <3> QED BY <3>1, <3>2, <3>3 DEF Next
    <2> QED BY <2>1, <2>2, <2>3
  <1> QED BY <1>1, <1>2, PTL DEF Spec

\* Under the policies that make writers wait, and as long as the database and
\* pthread_create do not fail: whenever no request is at work on a
\* subscription, the broker runs one registered interval thread for each
\* ONTIMEINTERVAL condition of its document and none when it has no document;
\* also after an update of the conditions, and after the process dies between
\* any two steps and recoverOntimeIntervalThreads has run.
THEOREM SubsThreadsMatchDocs ==
  ASSUME Policy \in {"all", "write"}, "db" \notin Faults, "thread" \notin Faults
  PROVE  Spec => []ThreadsMatchDocs
  <1>1. DocsInv /\ SemInv /\ ThreadsInv /\ CountsInv => ThreadsMatchDocs
    BY DEF CountsInv, CountOK, ThreadsMatchDocs, Busy, Changing
  <1> QED BY <1>1, CountsAlways, PTL

-----------------------------------------------------------------------------
(* Count, in the document of a subscription, is the number of notifications *)
(* that were sent, where its reference is a URL                             *)

\* One initial notification at most: the code counts one, however many go out.
OneOnChange(conditions) ==
  \A i, j \in DOMAIN conditions :
    conditions[i] = "ONCHANGE" /\ conditions[j] = "ONCHANGE" => i = j

NoOnChange(conditions) == \A i \in DOMAIN conditions : conditions[i] # "ONCHANGE"

\* The subscriptions that have a document, or may still get one.
Open(s) ==
  Exists(s) \/ s \notin issued \/ \E w \in Workers : Subscribing(w) /\ req[w].id = s

\* A request thread has sent a notification and not yet written it down.
Owes(w, s) ==
  /\ req[w].id = s
  /\ wpc[w] = "mark" \/ (wpc[w] \in {"conditions", "write"} /\ local[w].notified)

\* The notifications sent after one more call of sendNotifyContextRequest.
OneMore(x) == IF x \in Malformed THEN sent ELSE [sent EXCEPT ![x] = @ + 1]


\* The two sides of the account.
Debit(w, s) == IF Owes(w, s) THEN csubs[s].count + 1 ELSE csubs[s].count
Credit(s) == sent[s] + Cardinality(AboutToSend(s))

Account(w) ==
  /\ wpc[w] = "mark" => req[w].id \in SubIds /\ Exists(req[w].id)
  /\ wpc[w] = "remove" => Exists(req[w].id)
  /\ wpc[w] \in {"trigger", "mark"} => \A g \in local[w].triggered : Exists(g.id)
  /\ wpc[w] = "destroy" => ~local[w].notified
  /\ wpc[w] = "conditions" =>
       /\ OneOnChange(local[w].todo)
       /\ local[w].notified => NoOnChange(local[w].todo)
  /\ wpc[w] # "idle" => OneOnChange(req[w].conditions)
  /\ wpc[w] \in {"conditions", "write"} /\ req[w].op = "subscribe" => local[w].newSub.count = 0

\* Nobody reads a subscription before it is there.
ThreadsRead ==
  /\ \A t \in IntervalThreads : tsub[t] \in issued \union {EmptyId}
  /\ \A t \in IntervalThreads :
       tpc[t] \in {"query", "update", "send"} /\ Exists(tsub[t]) => csi[t] = "read"
  /\ \A w \in Workers : Subscribing(w) =>
       \A t \in IntervalThreads :
         tsub[t] = req[w].id => tpc[t] = "start" /\ wpc[w] # "take"

Balanced ==
  \A s \in SubIds \ Malformed : Open(s) =>
    /\ (\A w \in Workers : ~Owes(w, s)) => csubs[s].count = Credit(s)
    /\ \A w \in Workers : Owes(w, s) => csubs[s].count + 1 = Credit(s)

SentInv ==
  /\ up
  /\ sent \in [SubIds -> Nat]
  /\ \A w \in Workers : Account(w)
  /\ ThreadsRead
  /\ Balanced

NotDied ==
  /\ crashes \in Nat /\ crashes <= MaxCrashes
  /\ crashes = MaxCrashes => SentInv

CountAssumptions ==
  /\ Policy = "all" /\ "db" \notin Faults /\ "thread" \notin Faults
  /\ \A c \in CondVectors : OneOnChange(c)

LEMMA TailOnChange ==
  ASSUME NEW c \in Seq(Condition), c # <<>>, OneOnChange(c)
  PROVE  /\ OneOnChange(Tail(c))
         /\ Head(c) = "ONCHANGE" => NoOnChange(Tail(c))
         /\ NoOnChange(c) => NoOnChange(Tail(c)) /\ Head(c) # "ONCHANGE"
  <1>1. /\ Len(c) \in Nat /\ Len(c) >= 1 /\ DOMAIN c = 1..Len(c)
        /\ DOMAIN Tail(c) = 1..(Len(c) - 1) /\ Head(c) = c[1]
        /\ \A i \in 1..(Len(c) - 1) : Tail(c)[i] = c[i + 1]
    OBVIOUS
  <1>2. \A i \in 1..(Len(c) - 1) : i + 1 \in 1..Len(c) /\ i + 1 # 1
    BY <1>1
  <1>3. 1 \in 1..Len(c)
    BY <1>1
  <1>4. OneOnChange(Tail(c))
    <2>1. SUFFICES ASSUME NEW i \in 1..(Len(c) - 1), NEW j \in 1..(Len(c) - 1),
                          c[i + 1] = "ONCHANGE", c[j + 1] = "ONCHANGE"
                   PROVE  i = j
      BY <1>1 DEF OneOnChange
    <2>2. i + 1 = j + 1
      BY <1>1, <1>2, <2>1 DEF OneOnChange
    <2> QED BY <1>1, <2>2
  <1>5. Head(c) = "ONCHANGE" => NoOnChange(Tail(c))
    BY <1>1, <1>2, <1>3 DEF OneOnChange, NoOnChange
  <1>6. NoOnChange(c) => NoOnChange(Tail(c)) /\ Head(c) # "ONCHANGE"
    BY <1>1, <1>2, <1>3 DEF NoOnChange
  <1> QED BY <1>4, <1>5, <1>6

-----------------------------------------------------------------------------
(* The request threads                                                      *)

LEMMA AnswerAccount ==
  ASSUME Shape, NEW w \in Workers, Answer(w)
  PROVE  Account(w)' /\ \A s : ~Owes(w, s)'
  <1>1. wpc'[w] = "idle"
    BY DEF Answer, GotoW, Shape
  <1> QED BY <1>1 DEF Account, Owes

LEMMA ReceiveAccount ==
  ASSUME CountAssumptions, DocsInv, NEW w \in Workers, ReceiveRequest(w) \/ TakeSem(w), Account(w)
  PROVE  Account(w)' /\ \A s : ~Owes(w, s) /\ ~Owes(w, s)'
  <1>1. CASE ReceiveRequest(w)
    <2>1. PICK r \in Requests : req' = [req EXCEPT ![w] = r]
      BY <1>1 DEF ReceiveRequest
    <2>2. wpc[w] = "idle" /\ wpc'[w] = "take" /\ req'[w] = r
      BY <1>1, <2>1 DEF ReceiveRequest, GotoW, DocsInv, Shape
    <2>3. r.conditions \in CondVectors \union {<<>>}
      BY DEF Requests
    <2>4. OneOnChange(<<>>)
      BY DEF OneOnChange
    <2>5. OneOnChange(r.conditions)
      BY <2>3, <2>4 DEF CountAssumptions
    <2> QED BY <2>2, <2>5 DEF Account, Owes
  <1>2. CASE TakeSem(w)
    <2>1. wpc[w] = "take" /\ wpc'[w] = req[w].op /\ UNCHANGED req
      BY <1>2 DEF TakeSem, GotoW, DocsInv, Shape
    <2>2. wpc'[w] \in {"subscribe", "update", "unsubscribe", "entityUpdate"}
      BY <2>1, AtWork DEF OpAt
    <2> QED BY <2>1, <2>2 DEF Account, Owes
  <1> QED BY <1>1, <1>2

LEMMA SubscribeAccount ==
  ASSUME DocsInv, NEW w \in Workers, Subscribe(w), Account(w)
  PROVE  Account(w)' /\ \A s : ~Owes(w, s) /\ ~Owes(w, s)'
  <1>1. /\ wpc[w] = "subscribe" /\ UNCHANGED req /\ wpc'[w] \in {"write", "conditions"}
    BY DEF Subscribe, GotoW, ConditionsLeft, DocsInv, Shape
  <1>2. PICK d : d = [NoDoc EXCEPT !.expiration = clock + req[w].duration,
                                   !.throttling = req[w].throttling,
                                   !.servicePath = req[w].servicePath]
    OBVIOUS
  <1>3. local'[w] = [NoLocals EXCEPT !.newSub = d, !.todo = req[w].conditions]
    BY <1>2 DEF Subscribe, SetLocal, DocsInv, Shape
  <1>4. d.count = 0
    BY <1>2 DEF NoDoc
  <1>5. local'[w].newSub = d /\ local'[w].todo = req[w].conditions /\ local'[w].notified = FALSE
    BY <1>3 DEF NoLocals
  <1> QED BY <1>1, <1>4, <1>5 DEF Account, Owes

LEMMA UpdateFindAccount ==
  ASSUME DocsInv, NEW w \in Workers, UpdateFind(w), Account(w)
  PROVE  Account(w)' /\ \A s : ~Owes(w, s) /\ ~Owes(w, s)'
  <1>0. wpc[w] = "update" /\ Shape
    BY DEF UpdateFind, DocsInv
  <1>1. CASE Return(w)
    BY <1>0, <1>1, AnswerAccount DEF Return, Owes
  <1>2. CASE ~Return(w)
    <2>1. /\ UNCHANGED req /\ wpc'[w] \in {"write", "destroy"}
          /\ SetLocal(w, [NoLocals EXCEPT !.newSub = UpdatedDoc(csubs[req[w].id], req[w])])
      BY <1>2 DEF UpdateFind, GotoW, DocsInv, Shape
    <2>2. local'[w].notified = FALSE
      BY <1>0, <2>1 DEF SetLocal, Shape, NoLocals
    <2>3. req[w].op = "update"
      BY <1>0, AtWork DEF OpAt
    <2> QED BY <1>0, <2>1, <2>2, <2>3 DEF Account, Owes
  <1> QED BY <1>1, <1>2

LEMMA DestroyAccount ==
  ASSUME DocsInv, NEW w \in Workers, UpdateDestroyThreads(w), Account(w)
  PROVE  Account(w)' /\ \A s : ~Owes(w, s) /\ ~Owes(w, s)'
  <1>1. /\ UNCHANGED req /\ wpc[w] = "destroy" /\ wpc'[w] \in {"conditions", "write"}
        /\ local'[w] = [local[w] EXCEPT !.todo = req[w].conditions]
    BY DEF UpdateDestroyThreads, GotoW, SetLocal, ConditionsLeft, DocsInv, Shape
  <1>2. DOMAIN local[w] = {"newSub", "todo", "notified", "triggered"}
    BY DEF DocsInv, Shape, LocalShape
  <1>3. local'[w].todo = req[w].conditions /\ local'[w].notified = local[w].notified
    BY <1>1, <1>2
  <1>4. req[w].op = "update" /\ ~local[w].notified
    BY <1>1, AtWork DEF OpAt, Account
  <1> QED BY <1>1, <1>3, <1>4 DEF Account, Owes

\* A round of processConditionVector sends nothing and owes what it owed, or
\* sends one notification and owes it.
LEMMA RoundAccount ==
  ASSUME CountAssumptions, DocsInv, NEW w \in Workers, processConditionVector(w), Account(w)
  PROVE  /\ Account(w)'
         /\ \/ UNCHANGED sent /\ \A s : Owes(w, s)' <=> Owes(w, s)
            \/ /\ sent' = OneMore(req[w].id)
               /\ \A s : ~Owes(w, s) /\ (Owes(w, s)' <=> s = req[w].id)
  <1>1. /\ UNCHANGED req /\ wpc[w] = "conditions" /\ wpc'[w] \in {"conditions", "write"}
    BY DEF processConditionVector, GotoW, ConditionsLeft, DocsInv, Shape
  <1>2. /\ LocalShape(wpc[w], local[w]) /\ DOMAIN local = Workers
    BY DEF DocsInv, Shape
  <1>3. /\ local[w].todo \in Seq(Condition) /\ local[w].todo # <<>>
        /\ DOMAIN local[w] = {"newSub", "todo", "notified", "triggered"}
        /\ DOMAIN local[w].newSub = DocFields
    BY <1>1, <1>2 DEF LocalShape, GoodDoc
  <1>4. /\ OneOnChange(local[w].todo) /\ (local[w].notified => NoOnChange(local[w].todo))
    BY <1>1 DEF Account
  <1>5. /\ OneOnChange(Tail(local[w].todo))
        /\ Head(local[w].todo) = "ONCHANGE" => NoOnChange(Tail(local[w].todo)) /\ ~local[w].notified
        /\ NoOnChange(local[w].todo) => NoOnChange(Tail(local[w].todo))
    BY <1>3, <1>4, TailOnChange
  <1>6. PICK l : l = Appended(local[w])
    OBVIOUS
  <1>7. PICK d : d = [local[w].newSub EXCEPT !.conditions = Append(@, Head(local[w].todo))]
    OBVIOUS
  <1>8. /\ l.newSub = d /\ l.todo = Tail(local[w].todo) /\ l.notified = local[w].notified
        /\ DOMAIN l = DOMAIN local[w]
    BY <1>3, <1>6, <1>7 DEF Appended
  <1>9. d.count = local[w].newSub.count
    BY <1>3, <1>7 DEF DocFields
  <1>10. ASSUME local'[w].todo = Tail(local[w].todo), local'[w].newSub.count = local[w].newSub.count,
                local'[w].notified => NoOnChange(Tail(local[w].todo))
         PROVE  Account(w)'
    BY <1>1, <1>5, <1>10 DEF Account
  <1>11. CASE /\ UNCHANGED sVars
              /\ \/ local'[w] = l
                 \/ local'[w] = [local[w] EXCEPT !.todo = Tail(@)]
    <2>1. /\ local'[w].todo = Tail(local[w].todo) /\ local'[w].notified = local[w].notified
          /\ local'[w].newSub.count = local[w].newSub.count
      BY <1>3, <1>8, <1>9, <1>11
    <2>2. Account(w)'
      BY <1>4, <1>5, <1>10, <2>1
    <2>3. \A s : Owes(w, s)' <=> Owes(w, s)
      BY <1>1, <2>1 DEF Owes
    <2> QED BY <1>11, <2>2, <2>3 DEF sVars
  <1>12. CASE /\ Head(local[w].todo) = "ONCHANGE"
              /\ sendNotifyContextRequest(req[w].id)
              /\ local'[w] = [l EXCEPT !.notified = TRUE]
    <2>1. sent' = OneMore(req[w].id)
      BY <1>12 DEF sendNotifyContextRequest, CountAssumptions, OneMore, sVars
    <2>2. /\ local'[w].todo = Tail(local[w].todo) /\ local'[w].notified = TRUE
          /\ local'[w].newSub.count = local[w].newSub.count
      BY <1>3, <1>8, <1>9, <1>12
    <2>3. Account(w)'
      BY <1>5, <1>10, <1>12, <2>2
    <2>4. \A s : ~Owes(w, s) /\ (Owes(w, s)' <=> s = req[w].id)
      BY <1>1, <1>5, <1>12, <2>2 DEF Owes
    <2> QED BY <2>1, <2>3, <2>4
  <1>13. \/ /\ UNCHANGED sVars
            /\ \/ local'[w] = l
               \/ local'[w] = [local[w] EXCEPT !.todo = Tail(@)]
         \/ /\ Head(local[w].todo) = "ONCHANGE"
            /\ sendNotifyContextRequest(req[w].id)
            /\ local'[w] = [l EXCEPT !.notified = TRUE]
    BY <1>2, <1>6 DEF processConditionVector, processOntimeIntervalCondition,
         processOnChangeCondition, SkipOnValueCondition, SetLocal
  <1> QED BY <1>11, <1>12, <1>13

LEMMA UnsubscribeAccount ==
  ASSUME DocsInv, NEW w \in Workers, Account(w),
         UnsubscribeEmptyId(w) \/ UnsubscribeFind(w) \/ UnsubscribeDestroyThreads(w)
  PROVE  Account(w)' /\ \A s : ~Owes(w, s) /\ ~Owes(w, s)'
  <1>0. wpc[w] \in {"unsubscribe", "destroyLast"} /\ Shape /\ UNCHANGED csubs
    BY DEF UnsubscribeEmptyId, UnsubscribeFind, UnsubscribeDestroyThreads, DocsInv
  <1>1. CASE Answer(w)
    BY <1>0, <1>1, AnswerAccount DEF Owes
  <1>2. CASE ~Answer(w)
    <2>1. UNCHANGED <<req, local>> /\ wpc'[w] = "remove" /\ Exists(req[w].id)
      BY <1>2 DEF UnsubscribeEmptyId, UnsubscribeFind, UnsubscribeDestroyThreads, Return, GotoW,
           DocsInv, Shape
    <2> QED BY <1>0, <2>1 DEF Account, Owes, Exists
  <1> QED BY <1>1, <1>2

LEMMA CollectAccount ==
  ASSUME DocsInv, NEW w \in Workers, Account(w), AddTriggeredSubscriptions(w)
  PROVE  Account(w)' /\ \A s : ~Owes(w, s) /\ ~Owes(w, s)'
  <1>0. wpc[w] = "entityUpdate" /\ UNCHANGED csubs /\ Shape
    BY DEF AddTriggeredSubscriptions, DocsInv
  <1>1. CASE Return(w)
    BY <1>0, <1>1, AnswerAccount DEF Return, Owes
  <1>2. CASE ~Return(w)
    <2>1. PICK S : S = {x \in SubIds : /\ OnChange(csubs[x])
                                       /\ csubs[x].expiration > clock
                                       /\ csubs[x].servicePath \in {NoPath, req[w].servicePath}}
      OBVIOUS
    <2>2. PICK T : T = {[id |-> s, throttling |-> csubs[s].throttling,
                         lastNotification |-> csubs[s].lastNotification] : s \in S}
      OBVIOUS
    <2>3. SetLocal(w, [NoLocals EXCEPT !.triggered = T]) /\ UNCHANGED req /\ wpc'[w] = "trigger"
      BY <1>0, <1>2, <2>1, <2>2 DEF AddTriggeredSubscriptions, GotoW, Shape
    <2>4. local'[w].triggered = T
      BY <1>0, <2>3 DEF SetLocal, Shape, NoLocals
    <2>5. \A s \in S : Exists(s)
      BY <2>1 DEF OnChange, Exists, NoDoc
    <2>6. \A g \in T : Exists(g.id)
      BY <2>2, <2>5
    <2> QED BY <1>0, <2>3, <2>4, <2>6 DEF Account, Owes, Exists
  <1> QED BY <1>1, <1>2

LEMMA NotifyAccount ==
  ASSUME CountAssumptions, DocsInv, NEW w \in Workers, Account(w), ProcessSubscription(w)
  PROVE  /\ Account(w)'
         /\ \A s : ~Owes(w, s)
         /\ \/ UNCHANGED sent /\ \A s : ~Owes(w, s)'
            \/ \E x \in SubIds : /\ sent' = OneMore(x)
                                 /\ \A s : Owes(w, s)' <=> s = x
  <1>0. wpc[w] = "trigger" /\ UNCHANGED csubs /\ Shape
    BY DEF ProcessSubscription, DocsInv
  <1>1. PICK g \in local[w].triggered :
          /\ SetLocal(w, [local[w] EXCEPT !.triggered = @ \ {g}])
          /\ \/ UNCHANGED <<wpc, req, sVars>>
             \/ /\ sendNotifyContextRequest(g.id)
                /\ req' = [req EXCEPT ![w].id = g.id] /\ GotoW(w, "mark")
    BY DEF ProcessSubscription
  <1>2. DOMAIN local = Workers /\ DOMAIN local[w] = {"newSub", "todo", "notified", "triggered"}
    BY <1>0 DEF Shape, LocalShape
  <1>3. local'[w].triggered = local[w].triggered \ {g}
    BY <1>1, <1>2 DEF SetLocal
  <1>4. \A h \in local[w].triggered : Exists(h.id)
    BY <1>0 DEF Account
  <1>5. CASE UNCHANGED <<wpc, req, sVars>>
    BY <1>0, <1>3, <1>4, <1>5 DEF Account, Owes, Exists, sVars
  <1>6. CASE /\ sendNotifyContextRequest(g.id)
             /\ req' = [req EXCEPT ![w].id = g.id] /\ GotoW(w, "mark")
    <2>1. sent' = OneMore(g.id)
      BY <1>6 DEF sendNotifyContextRequest, CountAssumptions, OneMore, sVars
    <2>2. /\ DOMAIN req = Workers /\ wpc'[w] = "mark"
          /\ DOMAIN req[w] = {"op", "id", "conditions", "throttling", "duration", "servicePath"}
      BY <1>0, <1>6 DEF Shape, GotoW, RequestShape
    <2>3. req'[w].id = g.id /\ req'[w].conditions = req[w].conditions
      BY <1>6, <2>2
    <2>4. Exists(g.id) /\ g.id \in SubIds
      BY <1>1, <1>4 DEF Exists
    <2>5. Account(w)'
      BY <1>0, <1>3, <1>4, <2>2, <2>3, <2>4 DEF Account, Exists
    <2>6. \A s : ~Owes(w, s) /\ (Owes(w, s)' <=> s = g.id)
      BY <1>0, <2>2, <2>3 DEF Owes
    <2> QED BY <2>1, <2>4, <2>5, <2>6
  <1> QED BY <1>1, <1>5, <1>6

LEMMA MarkAccount ==
  ASSUME CountAssumptions, DocsInv, NEW w \in Workers, Account(w), MarkNotified(w)
  PROVE  /\ Account(w)' /\ UNCHANGED sent
         /\ \A s : (Owes(w, s) <=> s = req[w].id) /\ ~Owes(w, s)'
         /\ req[w].id \in SubIds /\ csubs'[req[w].id].count = csubs[req[w].id].count + 1
         /\ \A x \in SubIds \ {req[w].id} : csubs'[x] = csubs[x]
  <1>0. wpc[w] = "mark" /\ UNCHANGED local /\ Shape /\ UNCHANGED sent
    BY DEF MarkNotified, DocsInv, sVars
  <1>1. /\ csubs' = Notified(req[w].id) /\ wpc'[w] = "trigger"
        /\ req' = [req EXCEPT ![w].id = EmptyId]
    BY <1>0 DEF MarkNotified, GotoW, Shape, CountAssumptions
  <1>2. Exists(req[w].id) /\ req[w].id \in SubIds /\ \A g \in local[w].triggered : Exists(g.id)
    BY <1>0 DEF Account, Exists
  <1>3. csubs' = [csubs EXCEPT ![req[w].id].lastNotification = clock, ![req[w].id].count = @ + 1]
    BY <1>1, <1>2 DEF Notified
  <1>4. DOMAIN csubs = SubIds /\ DOMAIN csubs[req[w].id] = DocFields
    BY <1>0, <1>2 DEF Shape, GoodDoc
  <1>5. /\ csubs'[req[w].id].count = csubs[req[w].id].count + 1
        /\ \A x \in SubIds \ {req[w].id} : csubs'[x] = csubs[x]
    BY <1>2, <1>3, <1>4 DEF DocFields
  <1>6. \A g \in local[w].triggered : g.id # req[w].id
    BY <1>0, AtWork DEF TriggersOf
  <1>7. \A g \in local[w].triggered : Exists(g.id)'
    BY <1>2, <1>5, <1>6 DEF Exists
  <1>8. /\ DOMAIN req = Workers
        /\ DOMAIN req[w] = {"op", "id", "conditions", "throttling", "duration", "servicePath"}
    BY <1>0 DEF Shape, RequestShape
  <1>9. req'[w].conditions = req[w].conditions
    BY <1>1, <1>8
  <1>10. Account(w)'
    BY <1>0, <1>1, <1>7, <1>9 DEF Account
  <1> QED BY <1>0, <1>1, <1>2, <1>5, <1>10 DEF Owes

-----------------------------------------------------------------------------
(* The balance of a request thread that is alone                            *)

LoneBalance(w) == \A s \in SubIds \ Malformed : Open(s) => Debit(w, s) = Credit(s)

LEMMA PendingNat ==
  ASSUME NEW s PROVE IsFiniteSet(AboutToSend(s)) /\ Cardinality(AboutToSend(s)) \in Nat
  <1>1. AboutToSend(s) \subseteq IntervalThreads
    BY DEF AboutToSend
  <1>2. IsFiniteSet(AboutToSend(s))
    BY <1>1, SubscriptionsAssumption, FS_Subset
  <1> QED BY <1>2, FS_CardinalityType

\* A request thread changes nothing about the threads that are about to send.
LEMMA PendingKept ==
  ASSUME ThreadsInv, NEW w \in Workers, ReceiveRequest(w) \/ RequestStep(w), NEW s
  PROVE  AboutToSend(s)' = AboutToSend(s)
  <1>1. CASE UNCHANGED tVars
    BY <1>1 DEF tVars, AboutToSend
  <1>2. CASE destroyOntimeIntervalThreads(req[w].id)
    BY <1>2 DEF destroyOntimeIntervalThreads, AboutToSend
  <1>3. CASE createIntervalThread(req[w].id) /\ ~UNCHANGED tVars
    <2>1. PICK t \in IntervalThreads :
            /\ tpc[t] = "none" /\ GotoT(t, "start")
            /\ tsub' = [tsub EXCEPT ![t] = req[w].id] /\ UNCHANGED csi
      BY <1>3 DEF createIntervalThread
    <2>2. /\ tpc'[t] = "start"
          /\ \A u \in IntervalThreads \ {t} : tpc'[u] = tpc[u] /\ tsub'[u] = tsub[u]
      BY <2>1 DEF GotoT, ThreadsInv, ThreadShape
    <2> QED BY <2>1, <2>2 DEF AboutToSend
  <1> QED BY <1>1, <1>2, <1>3, WorkerThreads

\* No step of a request thread makes a subscription open again.
LEMMA OpenKept ==
  ASSUME DocsInv, NEW w \in Workers, ReceiveRequest(w) \/ RequestStep(w), NEW s \in SubIds \ Malformed, Open(s)'
  PROVE  Open(s)
  <1>1. WorkerStep(w) /\ DocsStep(w)
    BY WorkerForms
  <1>2. CASE Exists(s)'
    <2>1. CASE DocsSame
      BY <1>2, <2>1 DEF DocsSame, Exists, Open
    <2>2. ASSUME NEW x \in SubIds, Amends(x),
                 Exists(x) \/ csubs'[x] = NoDoc \/ (Subscribing(w) /\ req[w].id = x)
          PROVE  Open(s)
      <3>1. CASE x = s
        BY <1>2, <2>2, <3>1 DEF Open, Exists
      <3>2. CASE x # s
        BY <1>2, <2>2, <3>2 DEF Open, Exists, Amends
      <3> QED BY <3>1, <3>2
    <2> QED BY <1>1, <2>1, <2>2 DEF DocsStep
  <1>3. CASE s \notin issued'
    BY <1>1, <1>3 DEF WorkerStep, Open
  <1>4. ASSUME NEW v \in Workers, Subscribing(v)', req'[v].id = s PROVE Open(s)
    <2>1. CASE v = w
      BY <1>1, <1>4, <2>1 DEF WorkerStep, Open
    <2>2. CASE v # w
      <3>1. wpc'[v] = wpc[v] /\ req'[v] = req[v]
        BY <2>2, OthersKept DEF DocsInv
      <3> QED BY <1>4, <3>1 DEF Open, Subscribing
    <2> QED BY <2>1, <2>2
  <1> QED BY <1>2, <1>3, <1>4 DEF Open

LEMMA BalanceSame ==
  ASSUME DocsInv, ThreadsInv, NEW w \in Workers, LoneBalance(w), ReceiveRequest(w) \/ RequestStep(w),
         UNCHANGED sent, \A s \in SubIds : csubs'[s] = csubs[s],
         \A s : Owes(w, s)' <=> Owes(w, s)
  PROVE  LoneBalance(w)'
  <1> SUFFICES ASSUME NEW s \in SubIds \ Malformed, Open(s)' PROVE Debit(w, s)' = Credit(s)'
    BY DEF LoneBalance
  <1>1. Debit(w, s) = Credit(s)
    BY OpenKept DEF LoneBalance
  <1>2. Credit(s)' = Credit(s)
    BY PendingKept DEF Credit
  <1>3. Debit(w, s)' = Debit(w, s)
    BY DEF Debit
  <1> QED BY <1>1, <1>2, <1>3

LEMMA BalanceSent ==
  ASSUME DocsInv, ThreadsInv, NEW w \in Workers, LoneBalance(w), ReceiveRequest(w) \/ RequestStep(w),
         sent \in [SubIds -> Nat], \A s \in SubIds : csubs'[s] = csubs[s],
         NEW x, sent' = OneMore(x),
         \A s : ~Owes(w, s) /\ (Owes(w, s)' <=> s = x)
  PROVE  LoneBalance(w)'
  <1> SUFFICES ASSUME NEW s \in SubIds \ Malformed, Open(s)' PROVE Debit(w, s)' = Credit(s)'
    BY DEF LoneBalance
  <1>1. csubs[s].count = Credit(s)
    BY OpenKept DEF LoneBalance, Debit
  <1>2. Cardinality(AboutToSend(s))' = Cardinality(AboutToSend(s)) /\ Cardinality(AboutToSend(s)) \in Nat
    BY PendingKept, PendingNat
  <1>3. CASE s = x
    <2>1. sent'[s] = sent[s] + 1 /\ sent[s] \in Nat
      BY <1>3 DEF OneMore
    <2>2. Credit(s)' = Credit(s) + 1
      BY <1>2, <2>1 DEF Credit
    <2>3. Debit(w, s)' = csubs[s].count + 1
      BY <1>3 DEF Debit
    <2> QED BY <1>1, <2>2, <2>3
  <1>4. CASE s # x
    <2>1. sent'[s] = sent[s]
      BY <1>4 DEF OneMore
    <2>2. Credit(s)' = Credit(s)
      BY <1>2, <2>1 DEF Credit
    <2>3. Debit(w, s)' = csubs[s].count
      BY <1>4 DEF Debit
    <2> QED BY <1>1, <2>2, <2>3
  <1> QED BY <1>3, <1>4

LEMMA MarkBalance ==
  ASSUME CountAssumptions, DocsInv, ThreadsInv, NEW w \in Workers, LoneBalance(w), Account(w),
         MarkNotified(w)
  PROVE  LoneBalance(w)'
  <1> SUFFICES ASSUME NEW s \in SubIds \ Malformed, Open(s)' PROVE Debit(w, s)' = Credit(s)'
    BY DEF LoneBalance
  <1>0. RequestStep(w)
    BY DEF RequestStep
  <1>1. Debit(w, s) = Credit(s)
    BY <1>0, OpenKept DEF LoneBalance
  <1>2. /\ UNCHANGED sent /\ (Owes(w, s) <=> s = req[w].id) /\ ~Owes(w, s)'
        /\ csubs'[req[w].id].count = csubs[req[w].id].count + 1
        /\ \A x \in SubIds \ {req[w].id} : csubs'[x] = csubs[x]
    BY MarkAccount
  <1>3. Credit(s)' = Credit(s)
    BY <1>0, <1>2, PendingKept DEF Credit
  <1>4. Debit(w, s)' = Debit(w, s)
    BY <1>2 DEF Debit
  <1> QED BY <1>1, <1>3, <1>4

LEMMA WriteBalance ==
  ASSUME CountAssumptions, DocsInv, ThreadsInv, CountsInv, NEW w \in Workers, LoneBalance(w), Account(w),
         WriteDoc(w)
  PROVE  LoneBalance(w)'
  <1> SUFFICES ASSUME NEW s \in SubIds \ Malformed, Open(s)' PROVE Debit(w, s)' = Credit(s)'
    BY DEF LoneBalance
  <1>0. /\ RequestStep(w) /\ wpc[w] = "write" /\ UNCHANGED sent /\ Shape /\ Answer(w)
    BY DEF RequestStep, WriteDoc, Return, sVars, DocsInv
  <1>1. Debit(w, s) = Credit(s)
    BY <1>0, OpenKept DEF LoneBalance
  <1>2. Credit(s)' = Credit(s)
    BY <1>0, PendingKept DEF Credit
  <1>3. ~Owes(w, s)'
    BY <1>0, AnswerAccount
  <1>4. PICK x : x = req[w].id
    OBVIOUS
  <1>5. x \in SubIds /\ (Exists(x) \/ req[w].op = "subscribe")
    BY <1>0, <1>4 DEF CountsInv, Midway
  <1>6. csubs' = [csubs EXCEPT ![x] = Accounted(local[w])]
    BY <1>4, <1>5 DEF WriteDoc, CountAssumptions
  <1>7. csubs'[x] = Accounted(local[w]) /\ \A r \in SubIds \ {x} : csubs'[r] = csubs[r]
    BY <1>0, <1>5, <1>6 DEF Shape
  <1>8. CASE s # x
    BY <1>1, <1>2, <1>3, <1>4, <1>7, <1>8 DEF Debit, Owes
  <1>9. CASE s = x
    <2>1. local[w].newSub.count = csubs[x].count
      <3>1. OpAt(wpc[w], req[w].op) /\ BooksOf(w) /\ FreshOf(w)
        BY <1>0, AtWork
      <3>2. CASE req[w].op = "subscribe"
        <4>1. csubs[x] = NoDoc
          BY <1>0, <1>4, <1>5, <3>1, <3>2 DEF FreshOf, Subscribing, Exists
        <4> QED BY <1>0, <3>2, <4>1 DEF Account, NoDoc
      <3>3. CASE req[w].op # "subscribe"
        BY <1>0, <1>4, <1>5, <3>1, <3>3 DEF BooksOf, OpAt
      <3> QED BY <3>2, <3>3
    <2>2. DOMAIN local[w].newSub = DocFields
      BY <1>0 DEF Shape, LocalShape, GoodDoc
    <2>3. Accounted(local[w]).count =
            IF local[w].notified THEN local[w].newSub.count + 1 ELSE local[w].newSub.count
      BY <2>2 DEF Accounted, DocFields
    <2>4. Owes(w, x) <=> local[w].notified
      BY <1>0, <1>4 DEF Owes
    <2>5. csubs'[x].count = Debit(w, x)
      BY <1>7, <2>1, <2>3, <2>4 DEF Debit
    <2> QED BY <1>1, <1>2, <1>3, <1>9, <2>5 DEF Debit
  <1> QED BY <1>8, <1>9

\* A subscription that is removed is not open any more.
LEMMA RemoveBalance ==
  ASSUME CountAssumptions, DocsInv, ThreadsInv, NEW w \in Workers, LoneBalance(w), Account(w),
         UnsubscribeRemove(w)
  PROVE  LoneBalance(w)' /\ Account(w)'
  <1>0. RequestStep(w) /\ Shape /\ Fresh
    BY DEF RequestStep, DocsInv
  <1>1. /\ wpc[w] = "remove" /\ UNCHANGED <<req, local, sent, issued>>
        /\ csubs' = [csubs EXCEPT ![req[w].id] = NoDoc] /\ wpc'[w] = "destroyLast"
    BY <1>0 DEF UnsubscribeRemove, GotoW, Shape, sVars, CountAssumptions
  <1>2. PICK x \in SubIds : x = req[w].id /\ Exists(x)
    BY <1>1 DEF Account, Exists
  <1>3. csubs'[x] = NoDoc /\ \A r \in SubIds \ {x} : csubs'[r] = csubs[r]
    BY <1>0, <1>1, <1>2 DEF Shape
  <1>4. Account(w)'
    BY <1>1 DEF Account
  <1>5. ~Open(x)'
    <2>1. x \in issued' /\ ~Exists(x)'
      BY <1>0, <1>1, <1>2, <1>3 DEF Fresh, Exists
    <2>2. ASSUME NEW v \in Workers, Subscribing(v)', req'[v].id = x PROVE FALSE
      <3>1. CASE v = w
        <4>1. req[w].op = "unsubscribe"
          BY <1>1, AtWork DEF OpAt
        <4> QED BY <1>1, <2>2, <3>1, <4>1 DEF Subscribing
      <3>2. CASE v # w
        <4>1. wpc'[v] = wpc[v] /\ req'[v] = req[v] /\ FreshOf(v)
          BY <1>0, <3>2, OthersKept DEF Fresh
        <4> QED BY <1>2, <2>2, <4>1 DEF FreshOf, Subscribing
      <3> QED BY <3>1, <3>2
    <2> QED BY <2>1, <2>2 DEF Open
  <1>6. ASSUME NEW s \in SubIds \ Malformed, Open(s)' PROVE Debit(w, s)' = Credit(s)'
    <2>1. s # x /\ Debit(w, s) = Credit(s)
      BY <1>0, <1>5, <1>6, OpenKept DEF LoneBalance
    <2>2. Credit(s)' = Credit(s)
      BY <1>0, <1>1, PendingKept DEF Credit
    <2>3. Debit(w, s)' = Debit(w, s)
      BY <1>1, <1>3, <2>1 DEF Debit, Owes
    <2> QED BY <2>1, <2>2, <2>3
  <1> QED BY <1>4, <1>6 DEF LoneBalance

LEMMA SentNat ==
  ASSUME sent \in [SubIds -> Nat], NEW x, sent' = OneMore(x)
  PROVE  sent' \in [SubIds -> Nat]
  <1>1. CASE x \in SubIds
    <2>1. sent[x] + 1 \in Nat
      BY <1>1
    <2> QED BY <2>1 DEF OneMore
  <1>2. CASE x \notin SubIds
    <2>1. sent' = sent
      BY <1>2 DEF OneMore
    <2> QED BY <2>1
  <1> QED BY <1>1, <1>2

LEMMA SectionAccount ==
  ASSUME CountAssumptions, DocsInv, ThreadsInv, CountsInv, sent \in [SubIds -> Nat],
         NEW w \in Workers, LoneBalance(w), Account(w), RequestStep(w), ~TakeSem(w)
  PROVE  LoneBalance(w)' /\ Account(w)' /\ sent' \in [SubIds -> Nat]
  <1>a. ASSUME UNCHANGED <<csubs, sent>>, Account(w)', \A s : ~Owes(w, s) /\ ~Owes(w, s)'
        PROVE  LoneBalance(w)' /\ Account(w)' /\ sent' \in [SubIds -> Nat]
    BY <1>a, BalanceSame
  <1>b. ASSUME NEW x, sent' = OneMore(x) PROVE sent' \in [SubIds -> Nat]
    BY <1>b, SentNat
  <1>1. CASE Subscribe(w)
    BY <1>1, <1>a, SubscribeAccount DEF Subscribe, sVars
  <1>2. CASE UpdateFind(w)
    BY <1>2, <1>a, UpdateFindAccount DEF UpdateFind, sVars
  <1>3. CASE UpdateDestroyThreads(w)
    BY <1>3, <1>a, DestroyAccount DEF UpdateDestroyThreads, sVars
  <1>4. CASE processConditionVector(w)
    <2>0. UNCHANGED csubs /\ Account(w)'
      BY <1>4, RoundAccount DEF processConditionVector
    <2>1. CASE UNCHANGED sent /\ \A s : Owes(w, s)' <=> Owes(w, s)
      BY <2>0, <2>1, BalanceSame
    <2>2. CASE /\ sent' = OneMore(req[w].id)
               /\ \A s : ~Owes(w, s) /\ (Owes(w, s)' <=> s = req[w].id)
      BY <1>b, <2>0, <2>2, BalanceSent
    <2> QED BY <1>4, <2>1, <2>2, RoundAccount
  <1>5. CASE WriteDoc(w)
    <2>1. Answer(w) /\ UNCHANGED sent /\ Shape
      BY <1>5 DEF WriteDoc, Return, sVars, DocsInv
    <2> QED BY <1>5, <2>1, WriteBalance, AnswerAccount
  <1>6. CASE UnsubscribeEmptyId(w) \/ UnsubscribeFind(w) \/ UnsubscribeDestroyThreads(w)
    BY <1>6, <1>a, UnsubscribeAccount DEF UnsubscribeEmptyId, UnsubscribeFind,
       UnsubscribeDestroyThreads, sVars
  <1>7. CASE UnsubscribeRemove(w)
    <2>1. UNCHANGED sent
      BY <1>7 DEF UnsubscribeRemove, sVars
    <2> QED BY <1>7, <2>1, RemoveBalance
  <1>8. CASE AddTriggeredSubscriptions(w)
    BY <1>8, <1>a, CollectAccount DEF AddTriggeredSubscriptions, sVars
  <1>9. CASE ProcessSubscription(w)
    <2>0. UNCHANGED csubs /\ Account(w)' /\ \A s : ~Owes(w, s)
      BY <1>9, NotifyAccount DEF ProcessSubscription
    <2>1. CASE UNCHANGED sent /\ \A s : ~Owes(w, s)'
      BY <1>a, <2>0, <2>1
    <2>2. ASSUME NEW x \in SubIds, sent' = OneMore(x),
                 \A s : Owes(w, s)' <=> s = x
          PROVE  LoneBalance(w)' /\ Account(w)' /\ sent' \in [SubIds -> Nat]
      BY <1>b, <2>0, <2>2, BalanceSent
    <2> QED BY <1>9, <2>1, <2>2, NotifyAccount
  <1>10. CASE MarkNotified(w)
    BY <1>10, MarkBalance, MarkAccount
  <1>11. CASE EntityUpdateDone(w)
    <2>1. Answer(w) /\ UNCHANGED <<csubs, sent>> /\ wpc[w] = "trigger" /\ Shape
      BY <1>11 DEF EntityUpdateDone, Return, sVars, DocsInv
    <2>2. \A s : ~Owes(w, s)
      BY <2>1 DEF Owes
    <2> QED BY <1>a, <2>1, <2>2, AnswerAccount
  <1> QED BY <1>1, <1>2, <1>3, <1>4, <1>5, <1>6, <1>7, <1>8, <1>9, <1>10, <1>11 DEF RequestStep

\* Where a request thread may start interval threads for a subscription, the
\* subscription has been issued.
LEMMA IssuedId ==
  ASSUME DocsInv, CountsInv, NEW w \in Workers, wpc[w] \in {"destroy", "conditions", "write"}
  PROVE  /\ req[w].id \in SubIds /\ req[w].id \in issued
         /\ Exists(req[w].id) \/ Subscribing(w)
  <1>1. req[w].id \in SubIds /\ (Exists(req[w].id) \/ req[w].op = "subscribe")
    BY DEF CountsInv, Midway
  <1>2. FreshOf(w) /\ \A s \in SubIds : Exists(s) => s \in issued
    BY DEF DocsInv, Fresh
  <1> QED BY <1>1, <1>2 DEF FreshOf, Subscribing

\* A step of a request thread, as the interval threads see it.
LEMMA WorkerTsub ==
  ASSUME ThreadsInv, NEW w \in Workers, ReceiveRequest(w) \/ RequestStep(w)
  PROVE  /\ UNCHANGED csi
         /\ \A t \in IntervalThreads :
              \/ tsub'[t] = tsub[t] /\ tpc'[t] = tpc[t]
              \/ tsub'[t] = req[w].id /\ tpc'[t] = "start" /\ wpc[w] = "conditions" /\ req'[w] = req[w]
  <1>1. CASE processConditionVector(w)
    <2>1. CASE UNCHANGED tVars
      BY <2>1 DEF tVars
    <2>2. CASE ~UNCHANGED tVars
      <3>1. createIntervalThread(req[w].id) /\ wpc[w] = "conditions" /\ UNCHANGED req
        BY <1>1, <2>2 DEF processConditionVector, processOntimeIntervalCondition,
             processOnChangeCondition, SkipOnValueCondition, tVars
      <3>2. PICK u \in IntervalThreads :
              /\ GotoT(u, "start") /\ tsub' = [tsub EXCEPT ![u] = req[w].id] /\ UNCHANGED csi
        BY <2>2, <3>1 DEF createIntervalThread
      <3> QED BY <3>1, <3>2 DEF GotoT, ThreadsInv, ThreadShape
    <2> QED BY <2>1, <2>2
  <1>2. CASE ~processConditionVector(w)
    <2>1. UNCHANGED <<tsub, tpc, csi>>
      BY <1>2 DEF RequestStep, ReceiveRequest, TakeSem, Subscribe, UpdateFind, UpdateDestroyThreads,
           WriteDoc, UnsubscribeEmptyId, UnsubscribeFind, UnsubscribeRemove,
           UnsubscribeDestroyThreads, AddTriggeredSubscriptions, ProcessSubscription,
           MarkNotified, EntityUpdateDone, tVars, destroyOntimeIntervalThreads
    <2> QED BY <2>1
  <1> QED BY <1>1, <1>2

LEMMA OnlyReceive ==
  ASSUME Shape, NEW w \in Workers, ReceiveRequest(w) \/ RequestStep(w), wpc'[w] = "take"
  PROVE  ReceiveRequest(w)
  <1>0. RequestShape(wpc[w], req[w]) /\ wpc \in [Workers -> WorkerPC]
    BY DEF Shape
  <1>1. CASE TakeSem(w)
    BY <1>0, <1>1 DEF TakeSem, GotoW, RequestShape, OpAt
  <1>2. CASE RequestStep(w) /\ ~TakeSem(w)
    <2>1. wpc[w] \in Section
      BY <1>2 DEF RequestStep, Subscribe, UpdateFind, UpdateDestroyThreads,
           processConditionVector, WriteDoc, UnsubscribeEmptyId, UnsubscribeFind,
           UnsubscribeRemove, UnsubscribeDestroyThreads, AddTriggeredSubscriptions,
           ProcessSubscription, MarkNotified, EntityUpdateDone, Section, WorkerPC
    <2> QED BY <1>0, <2>1, SemForms DEF Section
  <1> QED BY <1>1, <1>2

LEMMA WorkerReads ==
  ASSUME DocsInv, ThreadsInv, CountsInv, ThreadsRead,
         NEW w \in Workers, ReceiveRequest(w) \/ RequestStep(w)
  PROVE  ThreadsRead'
  <1>0. /\ \A t \in IntervalThreads : tsub[t] \in issued \union {EmptyId}
        /\ \A t \in IntervalThreads :
             tpc[t] \in {"query", "update", "send"} /\ Exists(tsub[t]) => csi[t] = "read"
        /\ \A v \in Workers : Subscribing(v) =>
             \A t \in IntervalThreads :
               tsub[t] = req[v].id => tpc[t] = "start" /\ wpc[v] # "take"
    BY DEF ThreadsRead
  <1>1. /\ UNCHANGED csi
        /\ \A t \in IntervalThreads :
             \/ tsub'[t] = tsub[t] /\ tpc'[t] = tpc[t]
             \/ tsub'[t] = req[w].id /\ tpc'[t] = "start" /\ wpc[w] = "conditions" /\ req'[w] = req[w]
    BY WorkerTsub
  <1>2. WorkerStep(w) /\ DocsStep(w)
    BY WorkerForms
  <1>3. issued \subseteq issued'
    BY <1>2 DEF WorkerStep
  <1>4. wpc[w] = "conditions" => /\ req[w].id \in SubIds /\ req[w].id \in issued
                                 /\ Exists(req[w].id) \/ Subscribing(w)
    BY IssuedId
  <1>5. \A t \in IntervalThreads : tsub'[t] \in issued' \union {EmptyId}
    BY <1>0, <1>1, <1>3, <1>4
  <1>6. \A x : Exists(x)' => Exists(x) \/ (Subscribing(w) /\ req[w].id = x)
    <2>1. CASE DocsSame
      BY <2>1 DEF DocsSame, Exists
    <2>2. ASSUME NEW s \in SubIds, Amends(s),
                 Exists(s) \/ csubs'[s] = NoDoc \/ (Subscribing(w) /\ req[w].id = s)
          PROVE  \A x : Exists(x)' => Exists(x) \/ (Subscribing(w) /\ req[w].id = x)
      BY <2>2 DEF Amends, Exists
    <2> QED BY <1>2, <2>1, <2>2 DEF DocsStep
  <1>7. ASSUME NEW t \in IntervalThreads, tpc'[t] \in {"query", "update", "send"}, Exists(tsub[t])'
        PROVE  csi'[t] = "read"
    <2>1. tsub'[t] = tsub[t] /\ tpc'[t] = tpc[t]
      BY <1>1, <1>7
    <2>2. Exists(tsub[t]) \/ (Subscribing(w) /\ req[w].id = tsub[t])
      BY <1>6, <1>7, <2>1 DEF Exists
    <2> QED BY <1>0, <1>1, <1>7, <2>1, <2>2
  <1>8. ASSUME NEW v \in Workers, Subscribing(v)', NEW t \in IntervalThreads, tsub'[t] = req'[v].id
        PROVE  tpc'[t] = "start" /\ wpc'[v] # "take"
    <2>1. CASE v = w
      <3>1. CASE Subscribing(w) /\ req'[w].id = req[w].id
        <4>1. wpc'[w] # "take"
          <5>1. wpc'[w] = "take" => ReceiveRequest(w)
            BY OnlyReceive DEF DocsInv
          <5>2. ReceiveRequest(w) => ~Subscribing(w)
            BY DEF ReceiveRequest, Subscribing
          <5> QED BY <3>1, <5>1, <5>2
        <4> QED BY <1>0, <1>1, <1>8, <2>1, <3>1, <4>1
      <3>2. CASE req'[w].id \notin issued
        <4>1. req'[w].id \in SubIds /\ req'[w].id # EmptyId
          BY <1>2, <1>8, <2>1, SubscriptionsAssumption DEF WorkerStep, FreshOf
        <4> QED BY <1>0, <1>1, <1>4, <1>8, <2>1, <3>2, <4>1
      <3> QED BY <1>2, <1>8, <2>1, <3>1, <3>2 DEF WorkerStep
    <2>2. CASE v # w
      <3>1. wpc'[v] = wpc[v] /\ req'[v] = req[v]
        BY <2>2, OthersKept DEF DocsInv
      <3>2. Subscribing(v)
        BY <1>8, <3>1 DEF Subscribing
      <3>3. ~(tsub'[t] = req[w].id /\ wpc[w] = "conditions")
        <4>1. FreshOf(v) /\ (Subscribing(w) => req[v].id # req[w].id)
          BY <2>2, <3>2 DEF DocsInv, Fresh
        <4> QED BY <1>4, <1>8, <3>1, <3>2, <4>1 DEF FreshOf
      <3> QED BY <1>0, <1>1, <1>8, <3>1, <3>2, <3>3
    <2> QED BY <2>1, <2>2
  <1> QED BY <1>5, <1>7, <1>8 DEF ThreadsRead

\* Between taking and giving a request thread is alone, so its step has to keep
\* LoneBalance only.
LEMMA WorkerSent ==
  ASSUME CountAssumptions, DocsInv, SemInv, ThreadsInv, CountsInv, SentInv, up' = up,
         NEW w \in Workers, ReceiveRequest(w) \/ RequestStep(w)
  PROVE  SentInv'
  <1>0. /\ up /\ sent \in [SubIds -> Nat] /\ ThreadsRead /\ Balanced
        /\ \A v \in Workers : Account(v)
    BY DEF SentInv
  <1>1. \A v \in Workers \ {w} : wpc'[v] = wpc[v] /\ req'[v] = req[v] /\ local'[v] = local[v]
    BY OthersKept DEF DocsInv
  <1>2. ThreadsRead'
    BY <1>0, WorkerReads
  <1>3. CASE ReceiveRequest(w) \/ TakeSem(w)
    <2>1. UNCHANGED <<csubs, sent>>
      BY <1>3 DEF ReceiveRequest, TakeSem, sVars
    <2>2. Account(w)' /\ \A s : ~Owes(w, s) /\ ~Owes(w, s)'
      BY <1>0, <1>3, ReceiveAccount
    <2>3. ASSUME NEW v \in Workers \ {w} PROVE Account(v)' /\ \A s : Owes(v, s)' <=> Owes(v, s)
      <3>1. Account(v) /\ wpc'[v] = wpc[v] /\ req'[v] = req[v] /\ local'[v] = local[v]
        BY <1>0, <1>1
      <3> QED BY <2>1, <3>1 DEF Account, Owes, Exists
    <2>4. \A v \in Workers : Account(v)' /\ \A s : Owes(v, s)' <=> Owes(v, s)
      BY <2>2, <2>3
    <2>5. ASSUME NEW s \in SubIds \ Malformed, Open(s)'
          PROVE  /\ (\A v \in Workers : ~Owes(v, s)') => csubs'[s].count = Credit(s)'
                 /\ \A v \in Workers : Owes(v, s)' => csubs'[s].count + 1 = Credit(s)'
      <3>1. Open(s)
        BY <2>5, OpenKept
      <3>2. Credit(s)' = Credit(s)
        BY <2>1, PendingKept DEF Credit
      <3> QED BY <1>0, <2>1, <2>4, <3>1, <3>2 DEF Balanced
    <2>6. Balanced'
      BY <2>5 DEF Balanced
    <2> QED BY <1>0, <1>2, <2>1, <2>4, <2>6 DEF SentInv
  <1>4. CASE ~(ReceiveRequest(w) \/ TakeSem(w))
    <2>1. wpc[w] \in Section /\ RequestStep(w)
      BY <1>4 DEF RequestStep, Subscribe, UpdateFind, UpdateDestroyThreads,
           processConditionVector, WriteDoc, UnsubscribeEmptyId, UnsubscribeFind,
           UnsubscribeRemove, UnsubscribeDestroyThreads, AddTriggeredSubscriptions,
           ProcessSubscription, MarkNotified, EntityUpdateDone, Section, WorkerPC
    <2>2. \A v \in Workers \ {w} : wpc[v] \notin Section
      BY <2>1, Alone DEF CountAssumptions
    <2>3. \A v \in Workers \ {w} : \A s : ~Owes(v, s) /\ ~Owes(v, s)'
      BY <1>1, <2>2 DEF Owes, Section, WorkerPC
    <2>4. LoneBalance(w)
      BY <1>0, <2>3 DEF Balanced, LoneBalance, Debit
    <2>5. LoneBalance(w)' /\ Account(w)' /\ sent' \in [SubIds -> Nat]
      BY <1>0, <1>4, <2>1, <2>4, SectionAccount
    <2>6. ASSUME NEW v \in Workers \ {w} PROVE Account(v)'
      <3>1. Account(v) /\ wpc'[v] = wpc[v] /\ req'[v] = req[v] /\ wpc[v] \notin Section
        BY <1>0, <1>1, <2>2
      <3> QED BY <3>1 DEF Account, Section, WorkerPC
    <2>7. Balanced'
      BY <2>3, <2>5 DEF Balanced, LoneBalance, Debit
    <2> QED BY <1>0, <1>2, <2>5, <2>6, <2>7 DEF SentInv
  <1> QED BY <1>3, <1>4

-----------------------------------------------------------------------------
(* The interval threads                                                     *)

\* Under the policy that makes everybody wait, no interval thread reads a
\* subscription while a request thread is at work.
LEMMA AloneToRead ==
  ASSUME CountAssumptions, SemInv, WithReqSem("read")
  PROVE  \A w \in Workers : wpc[w] \notin Section
  <1>1. WithReqSem("write")
    BY DEF WithReqSem, Bypassed, CountAssumptions
  <1> QED BY <1>1, Alone DEF CountAssumptions

\* A step of an interval thread that is not one of the two that count.
LEMMA ThreadQuiet ==
  ASSUME ThreadsInv, NEW t \in IntervalThreads, ThreadStep(t),
         ~UpdateCsubNewNotification(t), ~SendInterval(t)
  PROVE  /\ UNCHANGED <<csubs, sent>>
         /\ tpc[t] # "send" /\ tpc'[t] # "send"
         /\ \A u \in IntervalThreads \ {t} :
              tpc'[u] = tpc[u] /\ tsub'[u] = tsub[u] /\ csi'[u] = csi[u]
  BY DEF ThreadStep, GetSubscriptionInfo, GetContextElementResponses, GoToSleep, Wake,
     EndCancelled, GotoT, ThreadsInv, ThreadShape, sVars

LEMMA ThreadExists ==
  ASSUME CountAssumptions, DocsInv, SemInv, NEW t \in IntervalThreads, ThreadStep(t), NEW s, Exists(s)'
  PROVE  Exists(s)
  <1>1. DocsSame \/ \E x \in SubIds : Exists(x) /\ Amends(x)
    BY ThreadDocs DEF CountAssumptions
  <1> QED BY <1>1 DEF DocsSame, Amends, Exists

LEMMA ThreadReads ==
  ASSUME CountAssumptions, DocsInv, SemInv, ThreadsInv, ThreadsRead,
         NEW t \in IntervalThreads, ThreadStep(t)
  PROVE  ThreadsRead'
  <1>0. /\ \A u \in IntervalThreads : tsub[u] \in issued \union {EmptyId}
        /\ \A u \in IntervalThreads :
             tpc[u] \in {"query", "update", "send"} /\ Exists(tsub[u]) => csi[u] = "read"
        /\ \A v \in Workers : Subscribing(v) =>
             \A u \in IntervalThreads :
               tsub[u] = req[v].id => tpc[u] = "start" /\ wpc[v] # "take"
    BY DEF ThreadsRead
  <1>1. UNCHANGED <<wpc, req, issued>>
    BY ThreadDocs DEF wVars, CountAssumptions
  <1>2. \A u \in IntervalThreads \ {t} :
          tpc'[u] = tpc[u] /\ tsub'[u] = tsub[u] /\ csi'[u] = csi[u]
    BY DEF ThreadStep, GetSubscriptionInfo, GetContextElementResponses, GoToSleep, Wake,
         UpdateCsubNewNotification, SendInterval, EndCancelled, GotoT, ThreadsInv, ThreadShape
  <1>3. tsub'[t] = tsub[t] \/ tsub'[t] = EmptyId
    BY DEF ThreadStep, GetSubscriptionInfo, GetContextElementResponses, GoToSleep, Wake,
         UpdateCsubNewNotification, SendInterval, EndCancelled, ThreadsInv, ThreadShape
  <1>4. ASSUME NEW u \in IntervalThreads, tpc'[u] \in {"query", "update", "send"}, Exists(tsub[u])'
        PROVE  csi'[u] = "read"
    <2>1. Exists(tsub'[u])
      BY <1>4, ThreadExists DEF Exists
    <2>2. tsub'[u] # EmptyId
      BY <2>1, SubscriptionsAssumption DEF Exists
    <2>3. CASE u # t
      BY <1>0, <1>2, <1>4, <2>1, <2>3
    <2>4. CASE u = t
      <3>0. DOMAIN tpc = IntervalThreads /\ DOMAIN csi = IntervalThreads /\ tsub'[t] = tsub[t]
        BY <1>3, <2>2, <2>4 DEF ThreadsInv, ThreadShape
      <3>1. CASE GetSubscriptionInfo(t)
        BY <2>1, <2>4, <3>0, <3>1 DEF GetSubscriptionInfo, CountAssumptions
      <3>2. CASE ~GetSubscriptionInfo(t)
        <4>1. tpc[t] \in {"query", "update", "send"} /\ UNCHANGED csi
          BY <1>4, <2>4, <3>0, <3>2 DEF ThreadStep, GetContextElementResponses, GoToSleep, Wake,
               UpdateCsubNewNotification, SendInterval, EndCancelled, GotoT
        <4> QED BY <1>0, <2>1, <2>4, <3>0, <4>1
      <3> QED BY <3>1, <3>2
    <2> QED BY <2>3, <2>4
  <1>5. ASSUME NEW v \in Workers, Subscribing(v)', NEW u \in IntervalThreads, tsub'[u] = req'[v].id
        PROVE  tpc'[u] = "start" /\ wpc'[v] # "take"
    <2>1. Subscribing(v)
      BY <1>1, <1>5 DEF Subscribing
    <2>2. req[v].id # EmptyId
      BY <2>1, SubscriptionsAssumption DEF DocsInv, Fresh, FreshOf
    <2>3. tsub[u] = req[v].id
      BY <1>1, <1>2, <1>3, <1>5, <2>2
    <2>4. tpc[u] = "start" /\ wpc[v] # "take"
      BY <1>0, <2>1, <2>3
    <2>5. CASE u # t
      BY <1>1, <1>2, <2>4, <2>5
    <2>6. CASE u = t
      <3>1. WithReqSem("read")
        BY <2>4, <2>6 DEF ThreadStep, GetSubscriptionInfo, GetContextElementResponses, GoToSleep,
             Wake, UpdateCsubNewNotification, SendInterval, EndCancelled
      <3>2. wpc[v] \in Section
        BY <2>1, <2>4 DEF Subscribing, Section, DocsInv, Shape
      <3> QED BY <3>1, <3>2, AloneToRead
    <2> QED BY <2>5, <2>6
  <1>6. \A u \in IntervalThreads : tsub'[u] \in issued' \union {EmptyId}
    BY <1>0, <1>1, <1>2, <1>3
  <1> QED BY <1>4, <1>5, <1>6 DEF ThreadsRead

\* An interval thread that writes a notification down has it pending, and one
\* that sends it has not.
LEMMA ThreadBalance ==
  ASSUME CountAssumptions, DocsInv, SemInv, ThreadsInv, ThreadsRead, sent \in [SubIds -> Nat],
         NEW t \in IntervalThreads, ThreadStep(t), NEW s \in SubIds \ Malformed, Open(s)
  PROVE  csubs'[s].count + Credit(s) = csubs[s].count + Credit(s)'
  <1>0. /\ csubs[s].count \in Nat /\ sent[s] \in Nat /\ DOMAIN csubs = SubIds
        /\ IsFiniteSet(AboutToSend(s)) /\ Cardinality(AboutToSend(s)) \in Nat
        /\ DOMAIN tpc = IntervalThreads
    BY PendingNat DEF DocsInv, Shape, GoodDoc, ThreadsInv, ThreadShape
  <1>1. CASE ~UpdateCsubNewNotification(t) /\ ~SendInterval(t)
    <2>1. UNCHANGED <<csubs, sent>> /\ AboutToSend(s)' = AboutToSend(s)
      BY <1>1, ThreadQuiet DEF AboutToSend
    <2> QED BY <1>0, <2>1 DEF Credit
  <1>2. CASE UpdateCsubNewNotification(t)
    <2>1. /\ tpc[t] = "update" /\ csubs' = Notified(tsub[t]) /\ tpc'[t] = "send"
          /\ UNCHANGED <<sent, tsub, csi>>
          /\ \A u \in IntervalThreads \ {t} : tpc'[u] = tpc[u]
      BY <1>0, <1>2 DEF UpdateCsubNewNotification, GotoT, sVars, CountAssumptions
    <2>2. CASE s # tsub[t]
      <3>1. csubs'[s] = csubs[s]
        BY <1>0, <2>1, <2>2 DEF Notified
      <3>2. AboutToSend(s)' = AboutToSend(s)
        BY <2>1, <2>2 DEF AboutToSend
      <3> QED BY <1>0, <2>1, <3>1, <3>2 DEF Credit
    <2>3. CASE s = tsub[t]
      <3>1. Exists(s)
        <4>1. s \in issued
          BY <2>3, SubscriptionsAssumption DEF ThreadsRead
        <4>2. \A w \in Workers : ~(Subscribing(w) /\ req[w].id = s)
          BY <2>1, <2>3 DEF ThreadsRead
        <4> QED BY <4>1, <4>2 DEF Open
      <3>2. csi[t] = "read"
        BY <2>1, <2>3, <3>1 DEF ThreadsRead
      <3>3. t \notin AboutToSend(s) /\ AboutToSend(s)' = AboutToSend(s) \union {t}
        BY <2>1, <2>3, <3>2 DEF AboutToSend
      <3>4. Cardinality(AboutToSend(s)') = Cardinality(AboutToSend(s)) + 1
        BY <1>0, <3>3, FS_AddElement
      <3>5. csubs'[s] = [csubs[s] EXCEPT !.lastNotification = clock, !.count = @ + 1]
        BY <1>0, <2>1, <2>3, <3>1 DEF Notified
      <3>6. csubs'[s].count = csubs[s].count + 1
        BY <3>5 DEF DocsInv, Shape, GoodDoc, DocFields
      <3> QED BY <1>0, <2>1, <3>4, <3>6 DEF Credit
    <2> QED BY <2>2, <2>3
  <1>3. CASE SendInterval(t)
    <2>1. /\ tpc[t] = "send" /\ tpc'[t] = "rest" /\ UNCHANGED <<csubs, tsub, csi>>
          /\ \A u \in IntervalThreads \ {t} : tpc'[u] = tpc[u]
          /\ IF csi[t] = "read" THEN sent' = OneMore(tsub[t]) ELSE UNCHANGED sent
      BY <1>0, <1>3 DEF SendInterval, GotoT, sendNotifyContextRequest, sVars, CountAssumptions, OneMore
    <2>2. CASE csi[t] = "read" /\ s = tsub[t]
      <3>1. t \in AboutToSend(s) /\ AboutToSend(s)' = AboutToSend(s) \ {t}
        BY <2>1, <2>2 DEF AboutToSend
      <3>2. Cardinality(AboutToSend(s)') = Cardinality(AboutToSend(s)) - 1
        BY <1>0, <3>1, FS_RemoveElement
      <3>3. sent'[s] = sent[s] + 1
        BY <2>1, <2>2 DEF OneMore
      <3> QED BY <1>0, <2>1, <3>2, <3>3 DEF Credit
    <2>3. CASE ~(csi[t] = "read" /\ s = tsub[t])
      <3>1. AboutToSend(s)' = AboutToSend(s)
        BY <2>1, <2>3 DEF AboutToSend
      <3>2. sent'[s] = sent[s]
        BY <2>1, <2>3 DEF OneMore
      <3> QED BY <1>0, <2>1, <3>1, <3>2 DEF Credit
    <2> QED BY <2>2, <2>3
  <1> QED BY <1>1, <1>2, <1>3

LEMMA ThreadSent ==
  ASSUME CountAssumptions, DocsInv, SemInv, ThreadsInv, SentInv, up' = up, UNCHANGED clock,
         NEW t \in IntervalThreads, ThreadStep(t)
  PROVE  SentInv'
  <1>0. /\ up /\ sent \in [SubIds -> Nat] /\ ThreadsRead /\ Balanced
        /\ \A v \in Workers : Account(v)
    BY DEF SentInv
  <1>1. UNCHANGED <<wpc, req, local, issued>>
    BY ThreadDocs DEF wVars, CountAssumptions
  <1>2. ThreadsRead'
    BY <1>0, ThreadReads
  <1>3. sent' \in [SubIds -> Nat]
    <2>1. UNCHANGED sent \/ sent' = OneMore(tsub[t])
      BY DEF ThreadStep, GetSubscriptionInfo, GetContextElementResponses, GoToSleep, Wake,
           UpdateCsubNewNotification, SendInterval, EndCancelled, sendNotifyContextRequest, sVars,
           OneMore
    <2> QED BY <1>0, <2>1, SentNat
  <1>4. ASSUME NEW v \in Workers PROVE Account(v)'
    <2>1. CASE DocsSame
      BY <1>0, <1>1, <2>1 DEF Account, Exists, DocsSame
    <2>2. CASE wpc[v] \notin Section
      BY <1>0, <1>1, <2>2 DEF Account, Section, WorkerPC
    <2> QED BY <2>1, <2>2, ThreadDocs DEF CountAssumptions
  <1>5. ASSUME NEW s \in SubIds \ Malformed, Open(s)'
        PROVE  /\ (\A v \in Workers : ~Owes(v, s)') => csubs'[s].count = Credit(s)'
               /\ \A v \in Workers : Owes(v, s)' => csubs'[s].count + 1 = Credit(s)'
    <2>1. Open(s)
      BY <1>1, <1>5, ThreadExists DEF Open, Subscribing
    <2>2. csubs'[s].count + Credit(s) = csubs[s].count + Credit(s)'
      BY <1>0, <2>1, ThreadBalance
    <2>3. \A v \in Workers : Owes(v, s)' <=> Owes(v, s)
      BY <1>1 DEF Owes
    <2>4. csubs[s].count \in Nat /\ csubs'[s].count \in Nat
      <3>1. DocsInv'
        BY ThreadKeeps DEF CountAssumptions
      <3> QED BY <3>1 DEF DocsInv, Shape, GoodDoc
    <2>5. Credit(s) \in Nat /\ Credit(s)' \in Nat
      <3>1. IsFiniteSet(AboutToSend(s)')
        <4>1. AboutToSend(s)' \subseteq IntervalThreads
          BY DEF AboutToSend
        <4> QED BY <4>1, SubscriptionsAssumption, FS_Subset
      <3>2. Cardinality(AboutToSend(s)') \in Nat
        BY <3>1, FS_CardinalityType
      <3> QED BY <1>0, <1>3, <3>2, PendingNat DEF Credit
    <2> QED BY <1>0, <2>1, <2>2, <2>3, <2>4, <2>5 DEF Balanced
  <1>6. Balanced'
    BY <1>5 DEF Balanced
  <1> QED BY <1>0, <1>2, <1>3, <1>4, <1>6 DEF SentInv

-----------------------------------------------------------------------------
(* The life of the process                                                  *)

LEMMA SentSame ==
  ASSUME SentInv,
         UNCHANGED <<up, csubs, wpc, req, local, tpc, tsub, csi, sent, issued>>
  PROVE  SentInv'
  <1>1. \A s : (Open(s)' <=> Open(s)) /\ (Exists(s)' <=> Exists(s)) /\ Credit(s)' = Credit(s)
    BY DEF Open, Exists, Subscribing, Credit, AboutToSend
  <1>2. \A v : \A s : Owes(v, s)' <=> Owes(v, s)
    BY DEF Owes
  <1>3. Balanced'
    BY <1>1, <1>2 DEF SentInv, Balanced
  <1>4. \A v \in Workers : Account(v)'
    BY DEF SentInv, Account, Exists
  <1>5. ThreadsRead'
    BY DEF SentInv, ThreadsRead, Exists, Subscribing
  <1> QED BY <1>3, <1>4, <1>5 DEF SentInv

LEMMA SentInit == Init => NotDied
  <1> SUFFICES ASSUME Init PROVE NotDied
    OBVIOUS
  <1>1. /\ \A w \in Workers : wpc[w] = "idle"
        /\ \A t \in IntervalThreads : tpc[t] = "none" /\ tsub[t] = EmptyId
        /\ \A s \in SubIds : csubs[s].count = 0 /\ sent[s] = 0
        /\ up /\ crashes = MaxCrashes /\ sent \in [SubIds -> Nat]
    BY DEF Init, All, NoDoc
  <1>2. \A s : AboutToSend(s) = {}
    BY <1>1 DEF AboutToSend
  <1>3. \A s \in SubIds : Credit(s) = 0
    <2>1. Cardinality({}) = 0
      BY FS_EmptySet
    <2> SUFFICES ASSUME NEW s \in SubIds PROVE sent[s] + Cardinality(AboutToSend(s)) = 0
      BY DEF Credit
    <2>2. sent[s] = 0 /\ AboutToSend(s) = {}
      BY <1>1, <1>2
    <2> QED BY <2>1, <2>2
  <1>4. Balanced
    BY <1>1, <1>3 DEF Balanced, Owes
  <1>5. ThreadsRead
    BY <1>1 DEF ThreadsRead, Subscribing
  <1>6. \A w \in Workers : Account(w)
    BY <1>1 DEF Account
  <1> QED BY <1>1, <1>4, <1>5, <1>6, SubscriptionsAssumption DEF NotDied, SentInv

LEMMA SentNext ==
  ASSUME CountAssumptions, DocsInv, SemInv, ThreadsInv, CountsInv, NotDied, [Next]_vars
  PROVE  NotDied'
  <1>0. crashes \in Nat /\ crashes <= MaxCrashes /\ MaxCrashes \in Nat
    BY SubscriptionsAssumption DEF NotDied
  <1>1. ASSUME NEW w \in Workers, Running(ReceiveRequest(w)) \/ Running(RequestStep(w))
        PROVE  NotDied'
    <2>1. UNCHANGED <<clock, up, crashes>> /\ (ReceiveRequest(w) \/ RequestStep(w))
      BY <1>1 DEF Running
    <2> QED BY <2>1, WorkerSent DEF NotDied
  <1>2. ASSUME NEW t \in IntervalThreads, Running(ThreadStep(t)) PROVE NotDied'
    <2>1. UNCHANGED <<clock, up, crashes>> /\ ThreadStep(t)
      BY <1>2 DEF Running
    <2> QED BY <2>1, ThreadSent DEF NotDied
  <1>3. CASE Crash \/ Segfault
    <2>1. crashes > 0 /\ crashes' = crashes - 1
      BY <1>3 DEF Crash, Segfault, Die
    <2> QED BY <1>0, <2>1 DEF NotDied
  <1>4. CASE Restart
    <2>1. ~up /\ UNCHANGED crashes
      BY <1>4 DEF Restart
    <2> QED BY <2>1 DEF NotDied, SentInv
  <1>5. CASE Tick \/ UNCHANGED vars
    <2>1. UNCHANGED <<up, crashes, csubs, wpc, req, local, tpc, tsub, csi, sent, issued>>
      BY <1>5 DEF Tick, vars, wVars, tVars, sVars, hVars
    <2> QED BY <2>1, SentSame DEF NotDied
  <1> QED BY <1>1, <1>2, <1>3, <1>4, <1>5 DEF Next

\* Under the policy that makes every operation wait, as long as the database
\* and pthread_create do not fail and the process has not died, and where no
\* request has more than one ONCHANGE condition (the handler counts one initial
\* notification however many go out): count, in the document of a subscription
\* whose reference is a URL and that no request is at work on, is the number of notifications that were
\* sent, plus those of the interval threads that have updated it and are about
\* to send. It holds although request threads and interval threads read, write
\* and send in separate steps.
THEOREM SubsCountMatchesSent ==
  ASSUME CountAssumptions PROVE Spec => []CountMatchesSent
  <1> DEFINE Inv == DocsInv /\ SemInv /\ ThreadsInv /\ CountsInv
  <1>1. Spec => []Inv
    BY CountsAlways DEF CountAssumptions
  <1>2. Inv /\ NotDied /\ [Next]_vars => NotDied'
    BY SentNext
  <1>3. NotDied => CountMatchesSent
    <2> SUFFICES ASSUME NotDied, NEW s \in SubIds \ Malformed, crashes = MaxCrashes, Exists(s), ~Busy(s)
                 PROVE  csubs[s].count = sent[s] + Cardinality(AboutToSend(s))
      BY DEF CountMatchesSent, AboutToSend
    <2>1. Balanced /\ Open(s)
      BY DEF NotDied, SentInv, Open
    <2>2. \A w \in Workers : ~Owes(w, s)
      BY DEF Owes, Busy
    <2> QED BY <2>1, <2>2 DEF Balanced, Credit
  <1> QED BY <1>1, <1>2, <1>3, SentInit, PTL DEF Spec
=============================================================================
