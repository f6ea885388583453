---------------------------- MODULE Subscriptions ----------------------------
(***************************************************************************)
(* Context subscriptions and their notifications: the handlers of          *)
(* subscribeContext, updateContextSubscription and unsubscribeContext, the *)
(* notification of ONCHANGE subscriptions by an entity update, the         *)
(* detached threads that serve ONTIMEINTERVAL conditions, and the recovery *)
(* of those threads when the broker starts.                                *)
(*                                                                         *)
(* The csubs collection outlives the process; all the rest is lost in a    *)
(* crash. A request thread runs its handler under the request semaphore,   *)
(* one database operation or one thread operation per step. An interval    *)
(* thread takes the semaphore for each database operation alone, so        *)
(* between two of its steps anything may happen to its subscription.       *)
(***************************************************************************)
EXTENDS Integers, Sequences, FiniteSets, ReqSem

CONSTANTS
  IntervalThreads,  \* bound: interval threads that exist at one time
  SubIds,           \* bound: subscriptions ever made
  Ops,              \* the operations the clients request
  CondVectors,      \* the notifyConditionVectors of the requests
  Throttlings,      \* the throttling fields of the requests
  Paths,            \* the service paths of the requests
  Malformed,        \* the subscriptions whose reference is no URL: nobody looks at it
                    \* before the first notification, and no update changes it
  Duration,         \* the duration of every request, in seconds
  Interval,         \* the condition value of every ONTIMEINTERVAL condition
  StartTime,        \* the clock when the broker starts
  MaxClock,         \* bound: last second of the run
  MaxRequests,      \* bound: requests of all clients
  MaxCrashes,       \* bound: times the process dies
  EmptyIds,         \* TRUE: clients send requests with an empty subscriptionId
  Faults            \* which of "db", "thread" and "crash" happen

Condition == {"ONCHANGE", "ONTIMEINTERVAL", "ONVALUE"}

\* A field that a document or a request does not have.
Absent == -1
NoPath == ""
EmptyId == ""

\* getCurrentTime() counts from 1970, so it exceeds any throttling: a missing
\* lastNotification (-1) never blocks a notification.
ASSUME SubscriptionsAssumption ==
  /\ Ops \subseteq {"subscribe", "update", "unsubscribe", "entityUpdate"}
  /\ CondVectors \subseteq Seq(Condition)
  /\ StartTime \in Nat /\ MaxClock \in Nat /\ MaxRequests \in Nat
  /\ MaxCrashes \in Nat
  /\ Duration \in Nat \ {0} /\ Interval \in Nat \ {0}
  /\ \A throttling \in Throttlings :
        throttling \in Nat \union {Absent} /\ throttling < StartTime
  /\ EmptyId \notin SubIds /\ IsFiniteSet(IntervalThreads)
  /\ Malformed \subseteq SubIds
  /\ EmptyIds \in BOOLEAN
  /\ Faults \subseteq {"db", "thread", "crash"}

NoDoc == [conditions |-> <<>>, expiration |-> Absent, throttling |-> Absent,
          lastNotification |-> Absent, count |-> 0, servicePath |-> NoPath]

VARIABLES
  clock,
  up,           \* the process is running
  csubs,        \* the collection: SubIds -> document or NoDoc
  wpc,          \* where each request thread is
  req,          \* the request it serves
  local,        \* its local variables (see NoLocals)
  tpc,          \* where each interval thread is
  tsub,         \* params->subId
  params,       \* its OnIntervalThreadParams: "live" or "freed"
  cancelled,    \* pthread_cancel was called on it
  wake,         \* when its sleep ends
  csi,          \* its ContextSubscriptionInfo: "read" or "garbage"
  threadsMap,   \* the threads in Notifier::threadsMap
  \* history
  issued,       \* subscription ids handed out so far
  removed,      \* subscriptions whose document was removed
  path,         \* the service path each subscription was made with
  sent,         \* notifications started, per subscription
  lastSent,     \* when the last one was
  requests,     \* requests the clients have left
  crashes       \* times the process may still die

wVars == <<wpc, req, local>>
tVars == <<tpc, tsub, params, cancelled, wake, csi, threadsMap>>
sVars == <<sent, lastSent>>
hVars == <<issued, removed, path, requests>>
vars == <<clock, up, crashes, csubs, semVars, wVars, tVars, sVars, hVars>>

Exists(s) == s \in SubIds /\ csubs[s] # NoDoc

OnChange(doc) == \E i \in DOMAIN doc.conditions : doc.conditions[i] = "ONCHANGE"
IntervalConditions(doc) ==
  Cardinality({i \in DOMAIN doc.conditions : doc.conditions[i] = "ONTIMEINTERVAL"})

NoRequest == [op |-> "none", id |-> EmptyId, conditions |-> <<>>,
              throttling |-> Absent, duration |-> Absent, servicePath |-> NoPath]

NoLocals ==
  [newSub    |-> NoDoc,   \* BSON builder: the document to insert or to replace
   todo      |-> <<>>,    \* processConditionVector: conditions still to process
   notified  |-> FALSE,   \* notificationDone
   triggered |-> {}]      \* processSubscriptions: TriggeredSubscriptions left

GotoW(w, label) == wpc' = [wpc EXCEPT ![w] = label]
GotoT(t, label) == tpc' = [tpc EXCEPT ![t] = label]

SetLocal(w, locals) == local' = [local EXCEPT ![w] = locals]

\* The handler answers the client and its variables go out of scope.
Answer(w) ==
  /\ GotoW(w, "idle")
  /\ req' = [req EXCEPT ![w] = NoRequest]
  /\ SetLocal(w, NoLocals)

Return(w) == reqSemGive(w) /\ Answer(w)

-----------------------------------------------------------------------------
(* The Notifier                                                             *)

\* sendNotifyContextRequest hands the message to a detached thread of its
\* own. Nobody learns that parseUrl refused the reference, or that the thread
\* could not be created: the caller goes on as if the notification were sent.
sendNotifyContextRequest(s) ==
  \/ /\ s \notin Malformed
     /\ sent' = [sent EXCEPT ![s] = @ + 1]
     /\ lastSent' = [lastSent EXCEPT ![s] = clock]
  \/ s \in Malformed /\ UNCHANGED sVars
  \/ "thread" \in Faults /\ UNCHANGED sVars

createIntervalThread(s) ==
  \/ \E t \in IntervalThreads :
       /\ tpc[t] = "none"
       /\ GotoT(t, "start")
       /\ tsub' = [tsub EXCEPT ![t] = s]
       /\ params' = [params EXCEPT ![t] = "live"]
       /\ threadsMap' = threadsMap \union {t}
       /\ UNCHANGED <<cancelled, wake, csi>>
  \/ "thread" \in Faults /\ UNCHANGED tVars

\* Mutant: the entries of the threads are not removed from the map.
destroyKeepsEntries(s) ==
  LET doomed == {t \in threadsMap : tsub[t] = s} IN
  /\ cancelled' = [t \in IntervalThreads |-> cancelled[t] \/ t \in doomed]
  /\ params' = [t \in IntervalThreads |-> IF t \in doomed THEN "freed" ELSE params[t]]
  /\ UNCHANGED <<tpc, tsub, wake, csi, threadsMap>>

\* Mutant: the threads are forgotten but not cancelled.
destroyDoesNotCancel(s) ==
  /\ threadsMap' = {t \in threadsMap : tsub[t] # s}
  /\ UNCHANGED <<tpc, tsub, params, cancelled, wake, csi>>

(* The threads were detached, so pthread_join fails at once: nothing waits  *)
(* for a cancelled thread to end, and its params are deleted before it does.*)
destroyOntimeIntervalThreads(s) ==
  LET doomed == {t \in threadsMap : tsub[t] = s} IN
  /\ cancelled' = [t \in IntervalThreads |-> cancelled[t] \/ t \in doomed]
  /\ params' = [t \in IntervalThreads |-> IF t \in doomed THEN "freed" ELSE params[t]]
  /\ threadsMap' = threadsMap \ doomed
  /\ UNCHANGED <<tpc, tsub, wake, csi>>

-----------------------------------------------------------------------------
(* Requests                                                                 *)

Requests ==
  [op : {"subscribe"} \intersect Ops, id : SubIds \ issued, conditions : CondVectors,
   throttling : Throttlings, duration : {Duration}, servicePath : Paths]
  \union
  [op : {"update"} \intersect Ops,
   id : issued \union IF EmptyIds THEN {EmptyId} ELSE {},
   conditions : CondVectors \union {<<>>}, throttling : Throttlings \union {0},
   duration : {Duration, Absent}, servicePath : {NoPath}]
  \union
  [op : {"unsubscribe"} \intersect Ops,
   id : issued \union IF EmptyIds THEN {EmptyId} ELSE {},
   conditions : {<<>>}, throttling : {Absent}, duration : {Absent},
   servicePath : {NoPath}]
  \union
  [op : {"entityUpdate"} \intersect Ops, id : {EmptyId}, conditions : {<<>>},
   throttling : {Absent}, duration : {Absent}, servicePath : Paths]

ReceiveRequest(w) ==
  /\ wpc[w] = "idle" /\ requests > 0
  /\ \E r \in Requests :
       /\ req' = [req EXCEPT ![w] = r]
       /\ issued' = IF r.op = "subscribe" THEN issued \union {r.id} ELSE issued
       /\ path' = IF r.op = "subscribe"
                    THEN [path EXCEPT ![r.id] = r.servicePath] ELSE path
  /\ requests' = requests - 1
  /\ GotoW(w, "take")
  /\ UNCHANGED <<csubs, semVars, local, tVars, sVars, removed>>

TakeSem(w) ==
  /\ wpc[w] = "take"
  /\ reqSemTake(w, "write")
  /\ GotoW(w, req[w].op)
  /\ UNCHANGED <<csubs, req, local, tVars, sVars, hVars>>

ConditionsLeft(conditions) == IF conditions = <<>> THEN "write" ELSE "conditions"

(* mongoSubscribeContext, up to processConditionVector                      *)
Subscribe(w) ==
  /\ wpc[w] = "subscribe"
  /\ SetLocal(w, [NoLocals EXCEPT
       !.newSub = [NoDoc EXCEPT !.expiration = clock + req[w].duration,
                                !.throttling = req[w].throttling,
                                !.servicePath = req[w].servicePath],
       !.todo = req[w].conditions])
  /\ GotoW(w, ConditionsLeft(req[w].conditions))
  /\ UNCHANGED <<csubs, semVars, req, tVars, sVars, hVars>>

(* mongoUpdateContextSubscription: the new document is built from nothing,  *)
(* and servicePath is not among the fields that are copied to it.           *)
UpdatedDoc(sub, r) ==
  [NoDoc EXCEPT
     !.expiration = IF r.duration = Absent THEN sub.expiration ELSE clock + r.duration,
     !.throttling = CASE r.throttling = Absent -> sub.throttling
                      [] r.throttling = 0 -> Absent
                      [] OTHER -> r.throttling,
     !.conditions = IF r.conditions = <<>> THEN sub.conditions ELSE <<>>,
     !.lastNotification = sub.lastNotification,
     !.count = sub.count]

UpdateFind(w) ==
  /\ wpc[w] = "update"
  /\ \/ /\ ~Exists(req[w].id) \/ "db" \in Faults
        /\ Return(w)
     \/ /\ Exists(req[w].id)
        /\ SetLocal(w, [NoLocals EXCEPT !.newSub = UpdatedDoc(csubs[req[w].id], req[w])])
        /\ GotoW(w, IF req[w].conditions = <<>> THEN "write" ELSE "destroy")
        /\ UNCHANGED <<semVars, req>>
  /\ UNCHANGED <<csubs, tVars, sVars, hVars>>

UpdateDestroyThreads(w) ==
  /\ wpc[w] = "destroy"
  /\ destroyOntimeIntervalThreads(req[w].id)
  /\ SetLocal(w, [local[w] EXCEPT !.todo = req[w].conditions])
  /\ GotoW(w, ConditionsLeft(req[w].conditions))
  /\ UNCHANGED <<csubs, semVars, req, sVars, hVars>>

\* conds.append(): the condition goes into the document.
Appended(locals) ==
  [locals EXCEPT !.newSub.conditions = Append(@, Head(locals.todo)), !.todo = Tail(@)]

(* One round of processConditionVector. An initial notification goes out    *)
(* when the entities exist and have one of the condition's attributes. An   *)
(* ONVALUE condition is neither served nor stored.                          *)
processOntimeIntervalCondition(w) ==
  /\ Head(local[w].todo) = "ONTIMEINTERVAL"
  /\ createIntervalThread(req[w].id)
  /\ SetLocal(w, Appended(local[w]))
  /\ UNCHANGED sVars

processOnChangeCondition(w) ==
  /\ Head(local[w].todo) = "ONCHANGE"
  /\ \/ /\ SetLocal(w, Appended(local[w]))
        /\ UNCHANGED sVars
     \/ /\ sendNotifyContextRequest(req[w].id)
        /\ SetLocal(w, [Appended(local[w]) EXCEPT !.notified = TRUE])
  /\ UNCHANGED tVars

SkipOnValueCondition(w) ==
  /\ Head(local[w].todo) = "ONVALUE"
  /\ SetLocal(w, [local[w] EXCEPT !.todo = Tail(@)])
  /\ UNCHANGED <<tVars, sVars>>

processConditionVector(w) ==
  /\ wpc[w] = "conditions"
  /\ \/ processOntimeIntervalCondition(w) \/ processOnChangeCondition(w)
     \/ SkipOnValueCondition(w)
  /\ GotoW(w, ConditionsLeft(Tail(local[w].todo)))
  /\ UNCHANGED <<csubs, semVars, req, hVars>>

\* lastNotification and count as they are written at the end: one, however
\* many initial notifications there were.
Accounted(locals) ==
  IF locals.notified
    THEN [locals.newSub EXCEPT !.lastNotification = clock, !.count = @ + 1]
    ELSE locals.newSub

WriteDoc(w) ==
  LET s == req[w].id IN
  /\ wpc[w] = "write"
  /\ \/ csubs' = IF req[w].op = "subscribe" \/ Exists(s)
                   THEN [csubs EXCEPT ![s] = Accounted(local[w])] ELSE csubs
     \/ "db" \in Faults /\ UNCHANGED csubs
  /\ Return(w)
  /\ UNCHANGED <<tVars, sVars, hVars>>

(* mongoUnsubscribeContext                                                  *)
UnsubscribeEmptyId(w) ==
  /\ wpc[w] = "unsubscribe" /\ req[w].id = EmptyId
  /\ ReturnWithoutGive(w)
  /\ Answer(w)
  /\ UNCHANGED <<csubs, tVars, sVars, hVars>>

\* Mutant: the semaphore is not given back when there is no such subscription.
UnsubscribeFindKeepsSem(w) ==
  /\ wpc[w] = "unsubscribe" /\ req[w].id # EmptyId
  /\ \/ /\ ~Exists(req[w].id)
        /\ ReturnWithoutGive(w)
        /\ Answer(w)
     \/ /\ Exists(req[w].id)
        /\ GotoW(w, "remove")
        /\ UNCHANGED <<semVars, req, local>>
  /\ UNCHANGED <<csubs, tVars, sVars, hVars>>

UnsubscribeFind(w) ==
  /\ wpc[w] = "unsubscribe" /\ req[w].id # EmptyId
  /\ \/ /\ ~Exists(req[w].id) \/ "db" \in Faults
        /\ Return(w)
     \/ /\ Exists(req[w].id)
        /\ GotoW(w, "remove")
        /\ UNCHANGED <<semVars, req, local>>
  /\ UNCHANGED <<csubs, tVars, sVars, hVars>>

UnsubscribeRemove(w) ==
  /\ wpc[w] = "remove"
  /\ \/ /\ csubs' = [csubs EXCEPT ![req[w].id] = NoDoc]
        /\ removed' = removed \union {req[w].id}
        /\ GotoW(w, "destroyLast")
        /\ UNCHANGED <<semVars, req, local>>
     \/ "db" \in Faults /\ Return(w) /\ UNCHANGED <<csubs, removed>>
  /\ UNCHANGED <<tVars, sVars, issued, path, requests>>

UnsubscribeDestroyThreads(w) ==
  /\ wpc[w] = "destroyLast"
  /\ destroyOntimeIntervalThreads(req[w].id)
  /\ Return(w)
  /\ UNCHANGED <<csubs, sVars, hVars>>

-----------------------------------------------------------------------------
(* An entity update: addTriggeredSubscriptions collects the ONCHANGE        *)
(* subscriptions of the attribute, processSubscriptions notifies them.      *)
(* A subscription without servicePath matches an update of any path.        *)
AddTriggeredSubscriptions(w) ==
  /\ wpc[w] = "entityUpdate"
  /\ \/ /\ SetLocal(w, [NoLocals EXCEPT !.triggered =
             {[id |-> s, throttling |-> csubs[s].throttling,
               lastNotification |-> csubs[s].lastNotification] :
                s \in {x \in SubIds : /\ OnChange(csubs[x])
                                      /\ csubs[x].expiration > clock
                                      /\ csubs[x].servicePath
                                           \in {NoPath, req[w].servicePath}}}])
        /\ GotoW(w, "trigger")
        /\ UNCHANGED <<semVars, req>>
     \/ "db" \in Faults /\ Return(w)
  /\ UNCHANGED <<csubs, tVars, sVars, hVars>>

\* Mutant: a throttling period is one second short.
BlockedShort(trigs) == trigs.throttling > clock - trigs.lastNotification + 1

(* The test excludes throttling 1 and lastNotification 1 from the check     *)
(* (a missing field is -1).                                                 *)
Blocked(trigs) ==
  /\ trigs.throttling # 1 /\ trigs.lastNotification # 1
  /\ trigs.throttling > clock - trigs.lastNotification

\* A subscription is dropped unnotified when it is blocked, or when the entity
\* has none of the attributes the subscription asks for.
ProcessSubscription(w) ==
  /\ wpc[w] = "trigger"
  /\ \E trigs \in local[w].triggered :
       /\ SetLocal(w, [local[w] EXCEPT !.triggered = @ \ {trigs}])
       /\ \/ UNCHANGED <<wpc, req, sVars>>
          \/ /\ ~Blocked(trigs)
             /\ sendNotifyContextRequest(trigs.id)
             /\ req' = [req EXCEPT ![w].id = trigs.id]
             /\ GotoW(w, "mark")
  /\ UNCHANGED <<csubs, semVars, tVars, hVars>>

\* $set lastNotification, $inc count. An update matches nothing, and says
\* nothing, when the document is gone.
Notified(s) ==
  IF Exists(s)
    THEN [csubs EXCEPT ![s].lastNotification = clock, ![s].count = @ + 1]
    ELSE csubs

\* Mutant: count is not incremented.
MarkWithoutCount(w) ==
  /\ wpc[w] = "mark"
  /\ csubs' = [csubs EXCEPT ![req[w].id].lastNotification = clock]
  /\ req' = [req EXCEPT ![w].id = EmptyId]
  /\ GotoW(w, "trigger")
  /\ UNCHANGED <<semVars, local, tVars, sVars, hVars>>

MarkNotified(w) ==
  /\ wpc[w] = "mark"
  /\ \/ csubs' = Notified(req[w].id)
     \/ "db" \in Faults /\ UNCHANGED csubs
  /\ req' = [req EXCEPT ![w].id = EmptyId]
  /\ GotoW(w, "trigger")
  /\ UNCHANGED <<semVars, local, tVars, sVars, hVars>>

EntityUpdateDone(w) ==
  /\ wpc[w] = "trigger" /\ local[w].triggered = {}
  /\ Return(w)
  /\ UNCHANGED <<csubs, tVars, sVars, hVars>>

-----------------------------------------------------------------------------
(* The interval threads. doNotification runs with cancellation disabled, so *)
(* a cancelled thread ends in its next sleep.                               *)

(* mongoGetContextSubscriptionInfo and the checks of doNotification. When   *)
(* there is no document, or the query fails, it returns SccOk and leaves    *)
(* expiration, throttling and lastNotification uninitialised: the checks    *)
(* may end either way.                                                      *)
PassesChecks(doc) ==
  /\ clock < doc.expiration
  /\ \/ doc.throttling < 0
     \/ doc.lastNotification < 0
     \/ doc.lastNotification + doc.throttling < clock

GetSubscriptionInfo(t) ==
  /\ tpc[t] = "start"
  /\ WithReqSem("read")
  /\ \/ /\ Exists(tsub[t])
        /\ csi' = [csi EXCEPT ![t] = "read"]
        /\ GotoT(t, IF PassesChecks(csubs[tsub[t]]) THEN "query" ELSE "rest")
     \/ /\ ~Exists(tsub[t]) \/ "db" \in Faults
        /\ csi' = [csi EXCEPT ![t] = "garbage"]
        /\ \E label \in {"query", "rest"} : GotoT(t, label)
  /\ UNCHANGED <<csubs, wVars, tsub, params, cancelled, wake, threadsMap, sVars, hVars>>

(* mongoGetContextElementResponses. For a garbage csi there are no entities *)
(* to look for; the database rejects the query and the error it reports     *)
(* counts as an element.                                                    *)
GetContextElementResponses(t) ==
  /\ tpc[t] = "query"
  /\ WithReqSem("read")
  /\ \E label \in {"update", "rest"} : GotoT(t, label)
  /\ UNCHANGED <<csubs, wVars, tsub, params, cancelled, wake, csi, threadsMap,
                 sVars, hVars>>

\* Mutant: the document is updated without the semaphore.
UpdateCsubUnprotected(t) ==
  /\ tpc[t] = "update"
  /\ \/ csubs' = Notified(tsub[t]) /\ GotoT(t, "send")
     \/ "db" \in Faults /\ UNCHANGED csubs /\ GotoT(t, "rest")
  /\ UNCHANGED <<semVars, wVars, tsub, params, cancelled, wake, csi, threadsMap,
                 sVars, hVars>>

(* mongoUpdateCsubNewNotification *)
UpdateCsubNewNotification(t) ==
  /\ tpc[t] = "update"
  /\ WithReqSem("write")
  /\ \/ csubs' = Notified(tsub[t]) /\ GotoT(t, "send")
     \/ "db" \in Faults /\ UNCHANGED csubs /\ GotoT(t, "rest")
  /\ UNCHANGED <<wVars, tsub, params, cancelled, wake, csi, threadsMap, sVars, hVars>>

\* The url of a garbage csi is empty: the notification is dropped as malformed.
SendInterval(t) ==
  /\ tpc[t] = "send"
  /\ IF csi[t] = "read" THEN sendNotifyContextRequest(tsub[t]) ELSE UNCHANGED sVars
  /\ GotoT(t, "rest")
  /\ UNCHANGED <<csubs, semVars, wVars, tsub, params, cancelled, wake, csi, threadsMap,
                 hVars>>

GoToSleep(t) ==
  /\ tpc[t] = "rest"
  /\ wake' = [wake EXCEPT ![t] = clock + Interval]
  /\ csi' = [csi EXCEPT ![t] = "garbage"]
  /\ GotoT(t, "sleep")
  /\ UNCHANGED <<csubs, semVars, wVars, tsub, params, cancelled, threadsMap, sVars,
                 hVars>>

Wake(t) ==
  /\ tpc[t] = "sleep" /\ ~cancelled[t] /\ clock >= wake[t]
  /\ GotoT(t, "start")
  /\ UNCHANGED <<csubs, semVars, wVars, tsub, params, cancelled, wake, csi, threadsMap,
                 sVars, hVars>>

EndCancelled(t) ==
  /\ tpc[t] = "sleep" /\ cancelled[t]
  /\ GotoT(t, "none")
  /\ tsub' = [tsub EXCEPT ![t] = EmptyId]
  /\ cancelled' = [cancelled EXCEPT ![t] = FALSE]
  /\ wake' = [wake EXCEPT ![t] = 0]
  /\ UNCHANGED <<csubs, semVars, wVars, params, csi, threadsMap, sVars,
                 hVars>>

-----------------------------------------------------------------------------
(* The life of the process                                                  *)

All(S, value) == [x \in S |-> value]

Init ==
  /\ clock = StartTime
  /\ up = TRUE
  /\ csubs = [s \in SubIds |-> NoDoc]
  /\ semInit
  /\ wpc = All(Workers, "idle") /\ req = All(Workers, NoRequest)
  /\ local = All(Workers, NoLocals)
  /\ tpc = All(IntervalThreads, "none") /\ tsub = All(IntervalThreads, EmptyId)
  /\ params = All(IntervalThreads, "freed") /\ cancelled = All(IntervalThreads, FALSE)
  /\ wake = All(IntervalThreads, 0) /\ csi = All(IntervalThreads, "garbage")
  /\ threadsMap = {}
  /\ issued = {} /\ removed = {}
  /\ path = [s \in SubIds |-> NoPath]
  /\ sent = [s \in SubIds |-> 0]
  /\ lastSent = [s \in SubIds |-> Absent]
  /\ requests = MaxRequests
  /\ crashes = MaxCrashes

\* The process dies: only the collection is left.
Die ==
  /\ up /\ up' = FALSE
  /\ crashes > 0 /\ crashes' = crashes - 1
  /\ reqSem' = 1 /\ reqSemTaken' = All(Workers, FALSE)
  /\ wpc' = All(Workers, "idle") /\ req' = All(Workers, NoRequest)
  /\ local' = All(Workers, NoLocals)
  /\ tpc' = All(IntervalThreads, "none") /\ tsub' = All(IntervalThreads, EmptyId)
  /\ params' = All(IntervalThreads, "freed") /\ cancelled' = All(IntervalThreads, FALSE)
  /\ wake' = All(IntervalThreads, 0) /\ csi' = All(IntervalThreads, "garbage")
  /\ threadsMap' = {}
  /\ UNCHANGED <<clock, csubs, sVars, hVars>>

Crash == "crash" \in Faults /\ Die

\* What a thread reads through deleted params is still the old contents, as
\* the steps above have it, or takes the process down.
ReadsParams(t) == tpc[t] \in {"start", "update", "send", "rest"}

Segfault ==
  /\ \E t \in IntervalThreads : ReadsParams(t) /\ params[t] = "freed"
  /\ Die

(* contextBrokerInit: recoverOntimeIntervalThreads starts a thread for each *)
(* ONTIMEINTERVAL condition in the collection, before requests are served.  *)
(* When its query fails it starts none, and the broker starts nevertheless. *)
Restart ==
  /\ ~up /\ up' = TRUE
  /\ \E f \in [IntervalThreads -> SubIds \union {EmptyId}] :
       /\ \A s \in SubIds :
            LET started == Cardinality({t \in IntervalThreads : f[t] = s}) IN
            \/ started = IntervalConditions(csubs[s])
            \/ "thread" \in Faults /\ started < IntervalConditions(csubs[s])
            \/ "db" \in Faults /\ \A t \in IntervalThreads : f[t] = EmptyId
       /\ tsub' = f
       /\ threadsMap' = {t \in IntervalThreads : f[t] # EmptyId}
       /\ tpc' = [t \in IntervalThreads |-> IF f[t] = EmptyId THEN "none" ELSE "start"]
       /\ params' = [t \in IntervalThreads |-> IF f[t] = EmptyId THEN "freed" ELSE "live"]
  /\ UNCHANGED <<clock, crashes, csubs, semVars, wVars, cancelled, wake, csi, sVars,
                 hVars>>

Tick ==
  /\ clock < MaxClock
  /\ clock' = clock + 1
  /\ UNCHANGED <<up, crashes, csubs, semVars, wVars, tVars, sVars, hVars>>

RequestStep(w) ==
  \/ TakeSem(w)
  \/ Subscribe(w) \/ UpdateFind(w) \/ UpdateDestroyThreads(w)
  \/ processConditionVector(w) \/ WriteDoc(w)
  \/ UnsubscribeEmptyId(w) \/ UnsubscribeFind(w) \/ UnsubscribeRemove(w)
  \/ UnsubscribeDestroyThreads(w)
  \/ AddTriggeredSubscriptions(w) \/ ProcessSubscription(w) \/ MarkNotified(w)
  \/ EntityUpdateDone(w)

ThreadStep(t) ==
  \/ GetSubscriptionInfo(t) \/ GetContextElementResponses(t)
  \/ UpdateCsubNewNotification(t) \/ SendInterval(t)
  \/ GoToSleep(t) \/ Wake(t) \/ EndCancelled(t)

Running(A) == up /\ A /\ UNCHANGED <<clock, up, crashes>>

Next ==
  \/ \E w \in Workers : Running(ReceiveRequest(w)) \/ Running(RequestStep(w))
  \/ \E t \in IntervalThreads : Running(ThreadStep(t))
  \/ Crash \/ Segfault \/ Restart
  \/ Tick

(* Every thread that can run runs eventually; a client need not send.       *)
Fairness ==
  /\ \A w \in Workers : WF_vars(Running(RequestStep(w)))
  /\ \A t \in IntervalThreads : WF_vars(Running(ThreadStep(t)))

Spec == Init /\ [][Next]_vars
FairSpec == Spec /\ Fairness

-----------------------------------------------------------------------------
(* Properties                                                               *)

Doc == [conditions : Seq(Condition), expiration : Int, throttling : Int,
        lastNotification : Int, count : Nat, servicePath : Paths \union {NoPath}]

WorkerPC == {"idle", "take", "subscribe", "update", "unsubscribe", "entityUpdate",
             "destroy", "conditions", "write", "remove", "destroyLast", "trigger", "mark"}
ThreadPC == {"none", "start", "query", "update", "send", "rest", "sleep"}

\* The types; the request semaphore stays binary whatever path a handler
\* takes.
TypeOK ==
  /\ clock \in StartTime..MaxClock
  /\ up \in BOOLEAN
  /\ csubs \in [SubIds -> Doc]
  /\ SemTypeOK
  /\ wpc \in [Workers -> WorkerPC]
  /\ \A w \in Workers :
       /\ local[w].newSub \in Doc
       /\ local[w].todo \in Seq(Condition)
       /\ local[w].notified \in BOOLEAN
  /\ tpc \in [IntervalThreads -> ThreadPC]
  /\ tsub \in [IntervalThreads -> SubIds \union {EmptyId}]
  /\ params \in [IntervalThreads -> {"live", "freed"}]
  /\ cancelled \in [IntervalThreads -> BOOLEAN]
  /\ csi \in [IntervalThreads -> {"read", "garbage"}]
  /\ threadsMap \subseteq IntervalThreads
  /\ issued \subseteq SubIds /\ removed \subseteq issued
  /\ sent \in [SubIds -> Nat]

Busy(s) == \E w \in Workers : wpc[w] \notin {"idle", "take"} /\ req[w].id = s
ThreadsOf(s) == {t \in threadsMap : tsub[t] = s}

\* Whenever no request is at work on a subscription, the broker runs one
\* registered interval thread for each ONTIMEINTERVAL condition of its
\* document, and none when it has no document: also after an update of the
\* conditions, and after a crash between any two steps and the recovery.
ThreadsMatchDocs ==
  up => \A s \in SubIds : ~Busy(s) => Cardinality(ThreadsOf(s)) = IntervalConditions(csubs[s])

\* A thread that still notifies is in threadsMap, where unsubscribe can find
\* it, unless its cancellation is pending; and the params of a registered
\* thread are not deleted. This holds through every failure of the database
\* and of thread creation.
LiveThreadsMapped ==
  \A t \in IntervalThreads :
    /\ t \in threadsMap <=> tpc[t] # "none" /\ ~cancelled[t]
    /\ t \in threadsMap => params[t] = "live"

\* The threads that have counted a notification and not yet sent it.
AboutToSend(s) == {t \in IntervalThreads : tsub[t] = s /\ tpc[t] = "send" /\ csi[t] = "read"}

\* As long as the process has not died, count is the number of notifications
\* sent, where the reference of the subscription is a URL: it runs ahead only
\* for threads that have updated it and are about to send. (Where it is not,
\* count goes up and nothing is sent: CountIsSent.)
CountMatchesSent ==
  \A s \in SubIds \ Malformed :
    crashes = MaxCrashes /\ Exists(s) /\ ~Busy(s) =>
      csubs[s].count = sent[s] + Cardinality(AboutToSend(s))

\* The count of every subscription, in the collection, is the number of
\* notifications sent for it, as doc/manuals/admin/database_model.md says. The
\* code does not have it: sendNotifyContextRequest drops the notification of a
\* subscription whose reference does not parse, and its callers count it.
CountIsSent ==
  \A s \in SubIds :
    Exists(s) /\ ~Busy(s) /\ AboutToSend(s) = {} => csubs[s].count = sent[s]

TouchesMap(w) == wpc[w] \in {"destroy", "conditions", "destroyLast"}

\* Two requests never work on threadsMap, which has no lock of its own, at
\* the same time.
MapAccessExclusive ==
  \A v, w \in Workers : TouchesMap(v) /\ TouchesMap(w) => v = w

\* No update of a subscription takes back what a notification wrote: while
\* the document exists, count and lastNotification never decrease. The
\* handler of updateContextSubscription writes values it read earlier.
BookkeepingMonotone ==
  [][\A s \in SubIds :
       Exists(s) /\ csubs'[s] # NoDoc =>
         /\ csubs'[s].count >= csubs[s].count
         /\ csubs'[s].lastNotification >= csubs[s].lastNotification]_vars

\* An entity update notifies no subscription whose document says that the
\* last notification is less than the throttling ago: what was read when the
\* subscription was triggered is still so when the notification is sent.
EntityUpdatesThrottled ==
  [][\A w \in Workers :
       wpc[w] = "trigger" /\ wpc'[w] = "mark" =>
         LET doc == csubs[req'[w].id] IN
         doc.throttling > 1 => clock - doc.lastNotification >= doc.throttling]_vars

\* Two notifications of one subscription are at least its throttling apart.
ThrottlingRespected ==
  [][\A s \in SubIds :
       sent'[s] > sent[s] /\ Exists(s) /\ lastSent[s] # Absent =>
         clock - lastSent[s] >= csubs[s].throttling]_vars

\* Cancelled, and the cancellation acknowledged.
Ended(s) == s \in removed /\ ~Busy(s)

\* destroyOntimeIntervalThreads deletes the params of no thread that is about
\* to read them.
NoDanglingUse ==
  \A t \in IntervalThreads : ReadsParams(t) => params[t] = "live"

\* An entity update notifies only subscriptions made for its service path.
OnlyItsServicePath ==
  \A w \in Workers : wpc[w] = "trigger" =>
    \A trigs \in local[w].triggered : path[trigs.id] \in {NoPath, req[w].servicePath}

\* Every request is answered.
RequestsFinish == \A w \in Workers : wpc[w] # "idle" ~> wpc[w] = "idle"

\* The interval threads of a cancelled subscription end.
CancelledThreadsEnd ==
  \A s \in SubIds :
    Ended(s) ~> \A t \in IntervalThreads : tsub[t] # s
=============================================================================
