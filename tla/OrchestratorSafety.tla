------------------------- MODULE OrchestratorSafety -------------------------
(***************************************************************************)
(* What the orchestrator guarantees over any number of replicas, requests  *)
(* and restarts, whichever handlers fail or are dropped on the way: what   *)
(* an answered submission has left behind, what a runner can pop, what is  *)
(* audited, and when a queue position is shown.                            *)
(***************************************************************************)
EXTENDS OrchestratorProofs

-----------------------------------------------------------------------------
(* Queue positions.                                                        *)

(* Whatever Positioned returns, in whatever table, has a position exactly  *)
(* when it waits.                                                          *)
LEMMA PositionedFits ==
  ASSUME NEW r, NEW d \in Data
  PROVE  PositionFits(Positioned(r, d))
<1>1. Ahead(r, d) \in Nat
  BY AheadType
<1>2. Positioned(r, d).status = d.status
  BY DEF Positioned, Data
<1>3. Positioned(r, d).position = IF d.status = "IN_QUEUE" THEN Ahead(r, d) ELSE NoPosition
  BY DEF Positioned, Data
<1> QED
  BY <1>1, <1>2, <1>3 DEF PositionFits, NoPosition

(* Storing such a record keeps the whole table so.                         *)
LEMMA StoreFits ==
  ASSUME TypeOK, NEW r \in Replicas, NEW j \in Jobs, NEW d, Store(r, j, d), PositionFits(d),
         \A r2 \in Replicas, j2 \in Jobs : PositionFits(mem[r2][j2])
  PROVE  \A r2 \in Replicas, j2 \in Jobs : PositionFits(mem'[r2][j2])
BY DEF Store, TypeOK

(* Every step keeps PositionOnlyInQueue, which is inductive over Shape:    *)
(* each record that is stored went through Positioned under the lock, and  *)
(* rows, channels and copies only ever receive such a record.              *)
LEMMA PositionStep ==
  ASSUME Shape, PositionOnlyInQueue, [RestartNext]_vars
  PROVE  PositionOnlyInQueue'
<1> USE DEF PositionOnlyInQueue
<1>1. ASSUME NEW q \in Jobs, NEW r \in Replicas, NEW k \in Queues, BeginSubmit(q, r, k)
      PROVE  PositionOnlyInQueue'
  <2>1. PositionFits(local'[q])
    BY <1>1 DEF BeginSubmit, Shape, TypeOK, Requests, PositionFits, NoPosition
  <2>2. \A p \in Requests : p # q => local'[p] = local[p]
    BY <1>1 DEF BeginSubmit, Shape, TypeOK
  <2>3. UNCHANGED <<mem, rows, watch>>
    BY <1>1 DEF BeginSubmit, processVars, dbVars
  <2> QED
    BY <2>1, <2>2, <2>3 
<1>2. ASSUME NEW q \in Jobs, InsertJob(q)
      PROVE  PositionOnlyInQueue'
  <2> DEFINE d == Positioned(proc[q], local[q])
  <2>1. q \in Requests /\ proc[q] \in Replicas /\ local[q] \in Data
    BY <1>2 DEF InsertJob, Shape, TypeOK, Bound, Submitting, Requests
  <2>2. d \in Data /\ PositionFits(d)
    BY <2>1, PositionedFits, PositionedType
  <2>3. \A r2 \in Replicas, j2 \in Jobs : PositionFits(mem'[r2][j2])
    BY <1>2, <2>1, <2>2, StoreFits DEF InsertJob, Shape
  <2> HIDE DEF d
  <2> QED
    BY <1>2, <2>1, <2>2, <2>3 DEF d, InsertJob, Send, dbVars, Shape, TypeOK
<1>3. ASSUME NEW q \in Requests, CacheRow(q)
      PROVE  PositionOnlyInQueue'
  <2> DEFINE d == Positioned(proc[q], local[q])
  <2>1. proc[q] \in Replicas /\ target[q] \in Jobs /\ local[q] \in Data
    BY <1>3 DEF CacheRow, Shape, TypeOK, Bound, Holding
  <2>2. d \in Data /\ PositionFits(d)
    BY <2>1, PositionedFits, PositionedType
  <2>3. \A r2 \in Replicas, j2 \in Jobs : PositionFits(mem'[r2][j2])
    BY <1>3, <2>1, <2>2, StoreFits DEF CacheRow, Shape
  <2>4. watch' = [watch EXCEPT ![q] = d] /\ local' = [local EXCEPT ![q] = None]
    BY <1>3 DEF CacheRow, Send
  <2> HIDE DEF d
  <2> QED
    BY <1>3, <2>2, <2>3, <2>4 DEF CacheRow, dbVars, Shape, TypeOK, PositionFits
<1>4. ASSUME NEW q \in Requests, MutateReport(q)
      PROVE  PositionOnlyInQueue'
  <2> DEFINE d == Positioned(proc[q], Reported(mem[proc[q]][target[q]], q, event[q]))
  <2>1. proc[q] \in Replicas /\ target[q] \in Jobs /\ mem[proc[q]][target[q]] \in Data
        /\ event[q] \in Event
    BY <1>4 DEF MutateReport, Shape, TypeOK, Bound, Cached
  <2>2. d \in Data /\ PositionFits(d)
    BY <2>1, PositionedFits, PositionedType, ReportedType
  <2>3. \A r2 \in Replicas, j2 \in Jobs : PositionFits(mem'[r2][j2])
    BY <1>4, <2>1, <2>2, StoreFits DEF MutateReport, Shape
  <2>4. watch' = [watch EXCEPT ![notifier[proc[q]][target[q]]] = d]
        /\ local' = [local EXCEPT ![q] = d]
    BY <1>4 DEF MutateReport, Send
  <2> HIDE DEF d
  <2> QED
    BY <1>4, <2>2, <2>3, <2>4 DEF MutateReport, dbVars, Shape, TypeOK
<1>5. ASSUME NEW q \in Requests, MutateCancel(q)
      PROVE  PositionOnlyInQueue'
  <2> DEFINE d == Positioned(proc[q], IF Waiting(proc[q], target[q])
                                      THEN Withdrawn(mem[proc[q]][target[q]], q)
                                      ELSE mem[proc[q]][target[q]])
  <2>1. proc[q] \in Replicas /\ target[q] \in Jobs /\ mem[proc[q]][target[q]] \in Data
    BY <1>5 DEF MutateCancel, Shape, TypeOK, Bound, Cached
  <2>2. d \in Data /\ PositionFits(d)
    BY <2>1, PositionedFits, PositionedType, WithdrawnType
  <2>3. \A r2 \in Replicas, j2 \in Jobs : PositionFits(mem'[r2][j2])
    BY <1>5, <2>1, <2>2, StoreFits DEF MutateCancel, Shape
  <2>4. watch' = [watch EXCEPT ![notifier[proc[q]][target[q]]] = d]
        /\ local' = [local EXCEPT ![q] = d]
    BY <1>5 DEF MutateCancel, Send
  <2> HIDE DEF d
  <2> QED
    BY <1>5, <2>2, <2>3, <2>4 DEF MutateCancel, dbVars, Shape, TypeOK
<1>6. ASSUME NEW q \in Requests, Refresh(q)
      PROVE  PositionOnlyInQueue'
  <2> DEFINE d == Positioned(proc[q], mem[proc[q]][target[q]])
  <2>1. proc[q] \in Replicas /\ target[q] \in Jobs /\ mem[proc[q]][target[q]] \in Data
    BY <1>6 DEF Refresh, Shape, TypeOK, Bound, Cached
  <2>2. PositionFits(d)
    BY <2>1, PositionedFits
  <2>3. \A r2 \in Replicas, j2 \in Jobs : PositionFits(mem'[r2][j2])
    BY <1>6, <2>1, <2>2, StoreFits DEF Refresh, Shape
  <2>4. local' = [local EXCEPT ![q] = d]
    BY <1>6 DEF Refresh
  <2> HIDE DEF d
  <2> QED
    BY <1>6, <2>2, <2>3, <2>4 DEF Refresh, dbVars, Shape, TypeOK
<1>7. ASSUME NEW q \in Requests, ReadRow(q)
      PROVE  PositionOnlyInQueue'
  BY <1>7 DEF Executes, ReadRow, processVars, dbVars, Shape, TypeOK, Bound
<1>8. ASSUME NEW q \in Jobs, InsertRow(q)
      PROVE  PositionOnlyInQueue'
  BY <1>8 DEF Executes, InsertRow, processVars, Requests, Shape, TypeOK
<1>9. ASSUME NEW q \in Requests, UpdateRow(q)
      PROVE  PositionOnlyInQueue'
  <2>1. target[q] \in Jobs /\ PositionFits(local[q])
    BY <1>9 DEF Executes, UpdateRow, Shape, Bound
  <2>2. \A j \in Jobs : rows'[j] \in {rows[j], local[q]}
    BY <1>9, <2>1 DEF Executes, UpdateRow, Shape, TypeOK
  <2> QED
    BY <1>9, <2>1, <2>2 DEF Executes, UpdateRow, processVars
<1>10. ASSUME NEW q \in Requests, Publish(q)
      PROVE  PositionOnlyInQueue'
  BY <1>10 DEF Publish, Send, dbVars, Shape, TypeOK
<1>11. ASSUME NEW q \in Requests, StreamSend(q)
      PROVE  PositionOnlyInQueue'
  BY <1>11 DEF StreamSend, processVars, dbVars, Shape, TypeOK, Bound
<1>12. ASSUME NEW q \in Requests, Unknown(q) \/ Respond(q) \/ StreamEnd(q) \/ Abandon(q)
      PROVE  PositionOnlyInQueue'
  <2>1. \E a : End(q, a)
    BY <1>12 DEF Executes, Unknown, Respond, StreamEnd, Abandon
  <2>2. \A p \in Requests : local'[p] \in {None, local[p]}
    BY <2>1 DEF End, Shape, TypeOK
  <2>3. UNCHANGED <<mem, rows, watch>>
    BY <1>12 DEF Executes, Unknown, Respond, StreamEnd, Abandon, processVars, dbVars
  <2> QED
    BY <2>2, <2>3 DEF PositionFits
<1>13. ASSUME NEW r \in Replicas, Restart(r)
      PROVE  PositionOnlyInQueue'
  <2>1. \A r2 \in Replicas, j2 \in Jobs : mem'[r2][j2] \in {None, mem[r2][j2]}
    BY <1>13 DEF Restart, Shape, TypeOK
  <2>2. \A q \in Requests : watch'[q] \in {None, watch[q]} /\ local'[q] \in {None, local[q]}
    BY <1>13 DEF Restart
  <2> QED
    BY <1>13, <2>1, <2>2 DEF Restart, dbVars, PositionFits
<1>14. CASE UNCHANGED <<mem, rows, watch, local>>
  BY <1>14
<1>15. ASSUME NEW q \in Jobs, InsertEvent(q) \/ SetKey(q) \/ Push(q)
      PROVE  PositionOnlyInQueue'
  BY <1>14, <1>15 DEF Executes, InsertEvent, SetKey, Push, processVars, dbVars
<1>16. ASSUME NEW q \in Requests, NEW r \in Replicas, NEW j \in Jobs, Arrive(q, r, j)
      PROVE  PositionOnlyInQueue'
  BY <1>14, <1>16 DEF Arrive, processVars, dbVars
<1>17. ASSUME NEW q \in Requests,
             CacheHit(q) \/ CacheMiss(q) \/ RecordEvent(q) \/ Subscribe(q) \/ CancelIgnoresDbError(q)
      PROVE  PositionOnlyInQueue'
  BY <1>14, <1>17 DEF Executes, CacheHit, CacheMiss, RecordEvent, Subscribe, CancelIgnoresDbError,
                      processVars, dbVars
<1>18. ASSUME NEW k \in Queues, Dequeue(k)
      PROVE  PositionOnlyInQueue'
  BY <1>14, <1>18 DEF Dequeue, processVars, handlerVars, dbVars
<1>19. ASSUME UNCHANGED vars
      PROVE  PositionOnlyInQueue'
  BY <1>14, <1>19 DEF vars, processVars, handlerVars, dbVars
<1> HIDE DEF PositionOnlyInQueue
<1> QED
  BY <1>1, <1>2, <1>3, <1>4, <1>5, <1>6, <1>7, <1>8, <1>9, <1>10, <1>11, <1>12, <1>13, <1>15,
     <1>16, <1>17, <1>18, <1>19, RefusedFails
     DEF RestartNext, Next, Arrival, Progress, Submission, Handler, Lookup, Change, Showing,
         Failure, Delivery, ArriveReport, ArriveRequest, Requests

(* Nothing is stored yet.                                                  *)
LEMMA PositionInit == Init => PositionOnlyInQueue
BY DEF Init, PositionOnlyInQueue, PositionFits

(* queue_position is present exactly while a job is IN_QUEUE, in every     *)
(* table, row, channel and snapshot on its way (docs/api_reference.md:     *)
(* "present only in IN_QUEUE").                                            *)
THEOREM PositionCorrect == Spec => []PositionOnlyInQueue
BY PositionInit, PositionStep, ShapeInvariant, PTL DEF Spec, RestartNext

-----------------------------------------------------------------------------
(* The audit trail.                                                        *)

(* A report that is past record_event, and the record it left.             *)
Audited(q) == \E a \in audit : a.request = q /\ a.job = target[q]

AuditBound ==
  /\ \A q \in Reports : answer[q] = "ACCEPTED" => pc[q] = "done"
  /\ \A q \in Reports : HasDb /\ (pc[q] \in {"refresh", "publish", "respond"}
                                  \/ answer[q] = "ACCEPTED") => Audited(q)

(* job_events is only ever inserted into by the service.                   *)
LEMMA AuditGrows ==
  ASSUME [RestartNext]_vars
  PROVE  audit \subseteq audit'
<1>1. ASSUME NEW q \in Jobs, Submission(q)
      PROVE  audit \subseteq audit'
  BY <1>1 DEF Executes, Submission, InsertJob, InsertRow, InsertEvent, SetKey, Push, dbVars
<1>2. ASSUME NEW q \in Requests, Lookup(q)
      PROVE  audit \subseteq audit'
  BY <1>2 DEF Executes, Lookup, CacheHit, CacheMiss, ReadRow, CacheRow, Unknown, dbVars
<1>3. ASSUME NEW q \in Requests, Change(q)
      PROVE  audit \subseteq audit'
  BY <1>3 DEF Executes, Change, MutateReport, MutateCancel, UpdateRow, RecordEvent, dbVars
<1>4. ASSUME NEW q \in Requests, Showing(q) \/ Respond(q)
      PROVE  audit \subseteq audit'
  BY <1>4 DEF Showing, Refresh, Publish, Respond, Subscribe, StreamSend, StreamEnd, dbVars
<1>5. CASE UNCHANGED dbVars
  BY <1>5 DEF dbVars
<1>6. CASE Arrival \/ Failure \/ Delivery \/ \E r \in Replicas : Restart(r)
  BY <1>5, <1>6 DEF Arrival, BeginSubmit, ArriveReport, ArriveRequest, Arrive, Failure,
                    Abandon, CancelIgnoresDbError, Delivery, Dequeue, Restart
<1>7. ASSUME NEW q \in Requests, Refused(q)
      PROVE  audit \subseteq audit'
  BY <1>6, <1>7, RefusedFails DEF Failure
<1> QED
  BY <1>1, <1>2, <1>3, <1>4, <1>5, <1>6, <1>7 DEF RestartNext, Next, Progress, Handler, vars

(* AuditBound is inductive over Shape: a report reaches the steps after    *)
(* record_event only through it.                                           *)
LEMMA AuditStep ==
  ASSUME Shape, AuditBound, [RestartNext]_vars
  PROVE  AuditBound'
<1> USE EndpointsDisjoint DEF AuditBound
<1>1. audit \subseteq audit'
  BY AuditGrows
<1>2. ASSUME NEW q \in Jobs, NEW r \in Replicas, NEW k \in Queues, BeginSubmit(q, r, k)
      PROVE  AuditBound'
  BY <1>1, <1>2 DEF BeginSubmit, Goto, Audited, Shape, TypeOK, Requests
<1>3. ASSUME NEW q \in Jobs, Submission(q)
      PROVE  AuditBound'
  <2>1. \A p \in Reports : pc'[p] = pc[p] /\ answer'[p] = answer[p] /\ target'[p] = target[p]
    BY <1>3 DEF Executes, Submission, InsertJob, InsertRow, InsertEvent, SetKey, Push, Goto,
                Shape, TypeOK, Requests
  <2> QED
    BY <1>1, <2>1 DEF Audited
<1>4. ASSUME NEW q \in Requests, NEW r \in Replicas, NEW j \in Jobs, Arrive(q, r, j)
      PROVE  AuditBound'
  BY <1>1, <1>4 DEF Arrive, Goto, Audited, Shape, TypeOK, Requests
<1>5. ASSUME NEW q \in Requests, CacheHit(q) \/ CacheMiss(q) \/ ReadRow(q) \/ CacheRow(q)
      PROVE  AuditBound'
  BY <1>1, <1>5 DEF Executes, CacheHit, CacheMiss, ReadRow, CacheRow, Goto, AfterCached, Audited,
                    Shape, TypeOK, Requests
<1>6. ASSUME NEW q \in Requests, MutateReport(q) \/ UpdateRow(q)
      PROVE  AuditBound'
  BY <1>1, <1>6 DEF Executes, MutateReport, UpdateRow, Goto, Audited, Shape, TypeOK, Requests
<1>7. ASSUME NEW q \in Requests, MutateCancel(q)
      PROVE  AuditBound'
  <2>1. \A p \in Reports : pc'[p] = pc[p] /\ answer'[p] = answer[p] /\ target'[p] = target[p]
    BY <1>7 DEF MutateCancel, Goto, Shape, TypeOK, Requests
  <2> QED
    BY <1>1, <2>1 DEF Audited
<1>8. ASSUME NEW q \in Requests, RecordEvent(q)
      PROVE  AuditBound'
  <2>1. Audited(q)'
    <3> DEFINE a == [job |-> target[q], request |-> q, status |-> local[q].status]
    <3>1. a \in audit' /\ target' = target
      BY <1>8 DEF Executes, RecordEvent
    <3>2. a.request = q /\ a.job = target[q]
      OBVIOUS
    <3> QED
      BY <3>1, <3>2 DEF Audited
  <2>2. \A p \in Reports : p # q => pc'[p] = pc[p]
    BY <1>8 DEF Executes, RecordEvent, Goto, Shape, TypeOK, Requests
  <2>3. UNCHANGED <<answer, target>> /\ (q \in Reports => answer[q] # "ACCEPTED")
    BY <1>8 DEF Executes, RecordEvent, Shape, TypeOK, Requests
  <2> QED
    BY <1>1, <2>1, <2>2, <2>3 DEF Audited
<1>9. ASSUME NEW q \in Requests, Refresh(q) \/ Publish(q) \/ Subscribe(q) \/ StreamSend(q)
      PROVE  AuditBound'
  <2>1. UNCHANGED <<answer, target>>
        /\ pc[q] \in {"refresh", "publish", "subscribe", "streaming"}
        /\ \A p \in Requests : p # q => pc'[p] = pc[p]
    BY <1>9 DEF Refresh, Publish, Subscribe, StreamSend, Goto, Shape, TypeOK
  <2>2. pc[q] \notin {"refresh", "publish"} => pc'[q] = "streaming"
    BY <1>9 DEF Refresh, Publish, Subscribe, StreamSend, Goto, Shape, TypeOK
  <2> QED
    BY <1>1, <2>1, <2>2 DEF Audited, Requests
<1>10. ASSUME NEW q \in Requests, Unknown(q) \/ StreamEnd(q) \/ Abandon(q)
       PROVE  AuditBound'
  <2>1. \E a : a # "ACCEPTED" /\ End(q, a)
    BY <1>10 DEF Executes, Unknown, StreamEnd, Abandon
  <2>2. \A p \in Reports : p # q => pc'[p] = pc[p] /\ answer'[p] = answer[p]
    BY <2>1 DEF End, Goto, Shape, TypeOK, Requests
  <2>3. q \in Reports => pc'[q] = "done" /\ answer'[q] # "ACCEPTED"
    BY <2>1 DEF End, Goto, Shape, TypeOK, Requests
  <2>4. UNCHANGED target
    BY <1>10 DEF Executes, Unknown, StreamEnd, Abandon
  <2> QED
    BY <1>1, <2>2, <2>3, <2>4 DEF Audited
<1>11. ASSUME NEW q \in Requests, Respond(q)
       PROVE  AuditBound'
  BY <1>1, <1>11 DEF Respond, End, Goto, Audited, Shape, TypeOK, Requests
<1>12. ASSUME NEW q \in Requests, CancelIgnoresDbError(q)
       PROVE  AuditBound'
  BY <1>1, <1>12 DEF CancelIgnoresDbError, Goto, Audited, Shape, TypeOK, Requests
<1>13. ASSUME NEW r \in Replicas, Restart(r)
       PROVE  AuditBound'
  BY <1>1, <1>13 DEF Restart, Audited, Shape, TypeOK, Requests
<1>14. ASSUME UNCHANGED handlerVars
       PROVE  AuditBound'
  BY <1>1, <1>14 DEF handlerVars, Audited
<1> HIDE DEF AuditBound
<1> QED
  BY <1>2, <1>3, <1>4, <1>5, <1>6, <1>7, <1>8, <1>9, <1>10, <1>11, <1>12, <1>13, <1>14, RefusedFails
     DEF RestartNext, Next, Arrival, Progress, Handler, Lookup, Change, Showing, Failure,
         Delivery, ArriveReport, ArriveRequest, Requests, Dequeue, vars

(* No report is under way.                                                 *)
LEMMA AuditInit == Init => AuditBound
BY DEF Init, AuditBound, Requests

(* A report answered 202 is in job_events, on whichever replica it was     *)
(* taken, whatever restarts and failures follow.                           *)
THEOREM AuditCorrect == Spec => []AcceptedIsAudited
<1>1. AuditBound => AcceptedIsAudited
  BY DEF AuditBound, AcceptedIsAudited, Audited
<1> QED
  BY <1>1, AuditInit, AuditStep, ShapeInvariant, PTL DEF Spec, RestartNext

-----------------------------------------------------------------------------
(* Submissions.                                                            *)

(* A job is in a list, or a runner had it.                                 *)
Queued(j) == (\E k \in Queues : \E i \in DOMAIN queue[k] : queue[k][i] = j) \/ delivered[j] > 0

Kept(j) == HasDb => rows[j] # None

(* What a submission has left behind it at each of its steps.              *)
Ready ==
  \A j \in Jobs :
    /\ pc[j] \in {"setKey", "push"} => Kept(j)
    /\ pc[j] = "push" => j \in keys
    /\ pc[j] = "respond" \/ answer[j] = "CREATED" => Queued(j)
    /\ answer[j] = "CREATED" => pc[j] = "done"
    /\ Queued(j) => j \in keys /\ Kept(j)

(* The two ways of saying that a job was pushed agree.                     *)
LEMMA InListQueued ==
  ASSUME NEW j \in Jobs
  PROVE  InList(j) # {} \/ delivered[j] > 0 <=> Queued(j)
<1> DEFINE at(k) == {i \in DOMAIN queue[k] : queue[k][i] = j}
<1>1. ASSUME NEW k \in Queues, NEW i \in DOMAIN queue[k], queue[k][i] = j
      PROVE  InList(j) # {}
  <2>1. <<k, i>> \in {k} \X at(k)
    BY <1>1
  <2>2. {k} \X at(k) \in {{h} \X at(h) : h \in Queues}
    OBVIOUS
  <2>3. <<k, i>> \in InList(j)
    BY <2>1, <2>2 DEF InList
  <2> QED
    BY <2>3
<1>2. ASSUME InList(j) # {}
      PROVE  \E k \in Queues : \E i \in DOMAIN queue[k] : queue[k][i] = j
  <2>1. PICK p : p \in InList(j)
    BY <1>2
  <2>2. PICK k \in Queues : p \in {k} \X at(k)
    BY <2>1 DEF InList
  <2>3. p[2] \in at(k)
    BY <2>2
  <2> QED
    BY <2>3
<1> QED
  BY <1>1, <1>2 DEF Queued

(* RPUSH adds the job of the handler to its list and no other.             *)
LEMMA PushQueues ==
  ASSUME Shape, NEW q \in Jobs, Push(q), NEW j \in Jobs
  PROVE  Queued(j)' <=> Queued(j) \/ j = q
<1>1. local[q].queue \in Queues
  BY DEF Push, Shape, TypeOK, Bound, Submitting, Requests, Data
<1>2. PICK k \in Queues : queue' = [queue EXCEPT ![k] = Append(queue[k], q)]
  BY <1>1 DEF Push, Shape, TypeOK
<1>3. queue[k] \in Seq(Jobs) /\ queue'[k] = Append(queue[k], q)
  BY <1>2 DEF Shape, TypeOK
<1>4. \A h \in Queues : h # k => queue'[h] = queue[h]
  BY <1>2 DEF Shape, TypeOK
<1>5. (\E i \in DOMAIN queue'[k] : queue'[k][i] = j)
        <=> (\E i \in DOMAIN queue[k] : queue[k][i] = j) \/ j = q
  <2> DEFINE n == Len(queue[k])
  <2>1. n \in Nat /\ DOMAIN queue[k] = 1..n /\ DOMAIN queue'[k] = 1..(n + 1)
    BY <1>3
  <2>2. queue'[k][n + 1] = q
    BY <1>3
  <2>3. \A i \in 1..n : queue'[k][i] = queue[k][i] /\ i \in 1..(n + 1)
    BY <1>3
  <2>4. \A i \in 1..(n + 1) : i \in 1..n \/ i = n + 1
    BY <2>1
  <2>5. n + 1 \in 1..(n + 1)
    BY <2>1
  <2> HIDE DEF n
  <2> QED
    BY <2>1, <2>2, <2>3, <2>4, <2>5
<1>6. delivered' = delivered
  BY DEF Push
<1> QED
  BY <1>4, <1>5, <1>6 DEF Queued

(* What BLPOP takes from a list it hands to a runner.                      *)
LEMMA DequeueKeeps ==
  ASSUME Shape, NEW k \in Queues, Dequeue(k), NEW j \in Jobs
  PROVE  Queued(j)' <=> Queued(j)
<1>1. queue[k] \in Seq(Jobs) /\ queue[k] # <<>> /\ queue'[k] = Tail(queue[k])
  BY DEF Dequeue, Shape, TypeOK
<1>2. \A h \in Queues : h # k => queue'[h] = queue[h]
  BY DEF Dequeue, Shape, TypeOK
<1>3. (\E i \in DOMAIN queue[k] : queue[k][i] = j)
        <=> (\E i \in DOMAIN queue'[k] : queue'[k][i] = j) \/ j = Head(queue[k])
  <2>1. ASSUME NEW i \in DOMAIN queue[k], queue[k][i] = j, i # 1
        PROVE  i - 1 \in DOMAIN queue'[k] /\ queue'[k][i - 1] = j
    <3>1. i - 1 \in 1..(Len(queue[k]) - 1) /\ Len(queue[k]) \in Nat
      BY <1>1, <2>1
    <3>2. Len(queue'[k]) = Len(queue[k]) - 1 /\ DOMAIN queue'[k] = 1..(Len(queue[k]) - 1)
      BY <1>1
    <3>3. queue'[k][i - 1] = queue[k][i - 1 + 1]
      BY <1>1, <3>1, <3>2
    <3> QED
      BY <2>1, <3>1, <3>2, <3>3
  <2>2. ASSUME NEW i \in DOMAIN queue'[k], queue'[k][i] = j
        PROVE  i + 1 \in DOMAIN queue[k] /\ queue[k][i + 1] = j
    BY <1>1, <2>2
  <2>3. 1 \in DOMAIN queue[k] /\ Head(queue[k]) = queue[k][1]
    BY <1>1
  <2> QED
    BY <2>1, <2>2, <2>3
<1>4. Head(queue[k]) \in Jobs
  BY <1>1
<1>5. delivered' = [delivered EXCEPT ![Head(queue[k])] = @ + 1]
  BY DEF Dequeue
<1>6. delivered'[j] > 0 <=> delivered[j] > 0 \/ j = Head(queue[k])
  BY <1>4, <1>5 DEF Shape, TypeOK
<1> QED
  BY <1>2, <1>3, <1>6 DEF Queued

(* The service never removes a row.                                        *)
LEMMA RowsGrow ==
  ASSUME Shape, [RestartNext]_vars, NEW j \in Jobs, rows[j] # None
  PROVE  rows'[j] # None
<1>1. ASSUME NEW q \in Jobs, InsertRow(q)
      PROVE  rows'[j] # None
  BY <1>1 DEF Executes, InsertRow, Shape, TypeOK, Bound, Submitting, Requests
<1>2. ASSUME NEW q \in Requests, UpdateRow(q)
      PROVE  rows'[j] # None
  BY <1>2 DEF Executes, UpdateRow, Shape, TypeOK, Bound, Holding
<1>3. ASSUME UNCHANGED rows
      PROVE  rows'[j] # None
  BY <1>3
<1>4. ASSUME NEW q \in Jobs, InsertJob(q) \/ InsertEvent(q) \/ SetKey(q) \/ Push(q)
      PROVE  UNCHANGED rows
  BY <1>4 DEF Executes, InsertJob, InsertEvent, SetKey, Push, dbVars
<1>5. ASSUME NEW q \in Requests, Lookup(q)
      PROVE  UNCHANGED rows
  BY <1>5 DEF Executes, Lookup, CacheHit, CacheMiss, ReadRow, CacheRow, Unknown, dbVars
<1>6. ASSUME NEW q \in Requests, MutateReport(q) \/ MutateCancel(q) \/ RecordEvent(q)
      PROVE  UNCHANGED rows
  BY <1>6 DEF Executes, MutateReport, MutateCancel, RecordEvent, dbVars
<1>7. ASSUME NEW q \in Requests, Showing(q) \/ Respond(q)
      PROVE  UNCHANGED rows
  BY <1>7 DEF Showing, Refresh, Publish, Respond, Subscribe, StreamSend, StreamEnd, dbVars
<1>8. Arrival \/ Failure \/ Delivery \/ (\E r \in Replicas : Restart(r)) => UNCHANGED dbVars
  BY DEF Arrival, BeginSubmit, ArriveReport, ArriveRequest, Arrive, Failure,
         Abandon, CancelIgnoresDbError, Delivery, Dequeue, Restart
<1>9. ASSUME NEW q \in Requests, Refused(q)
      PROVE  UNCHANGED dbVars
  BY <1>8, <1>9, RefusedFails DEF Failure
<1> QED
  BY <1>1, <1>2, <1>3, <1>4, <1>5, <1>6, <1>7, <1>8, <1>9
     DEF RestartNext, Next, Progress, Submission, Handler, Change, vars, dbVars

(* Ready is inductive over Shape: the row is inserted before the payload,  *)
(* the payload before the id, and the id before the answer.                *)
LEMMA ReadyStep ==
  ASSUME Shape, Ready, [RestartNext]_vars
  PROVE  Ready'
<1> USE EndpointsDisjoint
<1>1. \A j \in Jobs : Kept(j) => Kept(j)'
  BY RowsGrow DEF Kept
<1>2. ASSUME NEW q \in Jobs, NEW r \in Replicas, NEW k \in Queues, BeginSubmit(q, r, k)
      PROVE  Ready'
  BY <1>1, <1>2 DEF Ready, BeginSubmit, Goto, Queued, Shape, TypeOK, Requests, redisVars
<1>3. ASSUME NEW q \in Jobs, InsertJob(q)
      PROVE  Ready'
  BY <1>1, <1>3 DEF Ready, InsertJob, Goto, Queued, Kept, Shape, TypeOK, Requests, redisVars
<1>4. ASSUME NEW q \in Jobs, InsertRow(q) \/ InsertEvent(q) \/ SetKey(q)
      PROVE  Ready'
  BY <1>1, <1>4 DEF Executes, Ready, InsertRow, InsertEvent, SetKey, Goto, Queued, Kept, Shape, TypeOK, Requests, redisVars
<1>5. ASSUME NEW q \in Jobs, Push(q)
      PROVE  Ready'
  <2>1. \A j \in Jobs : Queued(j)' <=> Queued(j) \/ j = q
    BY <1>5, PushQueues
  <2>2. \A j \in Jobs : j # q => pc'[j] = pc[j]
    BY <1>5 DEF Push, Goto, Shape, TypeOK, Requests
  <2>3. pc[q] = "push" /\ pc'[q] = "respond" /\ UNCHANGED <<keys, answer>>
    BY <1>5 DEF Push, Goto, Shape, TypeOK, Requests
  <2> QED
    BY <1>1, <2>1, <2>2, <2>3 DEF Ready
<1>6. ASSUME NEW k \in Queues, Dequeue(k)
      PROVE  Ready'
  BY <1>1, <1>6, DequeueKeeps DEF Ready, Dequeue, handlerVars
<1>7. ASSUME UNCHANGED redisVars,
             \A j \in Jobs : \/ pc'[j] = pc[j] /\ answer'[j] = answer[j]
                             \/ pc'[j] = "done" /\ answer'[j] # "CREATED"
      PROVE  Ready'
  BY <1>1, <1>7 DEF Ready, Queued, redisVars
<1>8. ASSUME NEW q \in Requests, NEW r \in Replicas, NEW j \in Jobs,
             ArriveRequest(q, r, j) \/ \E e \in Events : ArriveReport(q, r, j, e)
      PROVE  Ready'
  <2>1. q \notin Jobs /\ UNCHANGED redisVars /\ UNCHANGED answer /\ pc' = [pc EXCEPT ![q] = "check"]
    BY <1>8 DEF ArriveRequest, ArriveReport, Arrive, Goto, redisVars
  <2> QED
    BY <1>7, <2>1 DEF Shape, TypeOK, Requests
<1>9. ASSUME NEW q \in Requests, q \notin Jobs, UNCHANGED redisVars,
             \A p \in Requests : p # q => pc'[p] = pc[p] /\ answer'[p] = answer[p]
      PROVE  Ready'
  BY <1>7, <1>9 DEF Requests
<1>10. ASSUME NEW q \in Requests, CacheHit(q) \/ CacheMiss(q) \/ ReadRow(q) \/ CacheRow(q)
       PROVE  Ready'
  BY <1>9, <1>10 DEF Executes, CacheHit, CacheMiss, ReadRow, CacheRow, Goto, Shape, TypeOK, Bound, Holding
<1>11. ASSUME NEW q \in Requests, MutateReport(q) \/ MutateCancel(q) \/ UpdateRow(q) \/ RecordEvent(q)
       PROVE  Ready'
  BY <1>9, <1>11 DEF Executes, MutateReport, MutateCancel, UpdateRow, RecordEvent, Goto, Shape, TypeOK,
                     Bound, Holding, Cached, redisVars
<1>12. ASSUME NEW q \in Requests, Refresh(q) \/ Publish(q) \/ Subscribe(q) \/ StreamSend(q)
       PROVE  Ready'
  BY <1>9, <1>12 DEF Refresh, Publish, Subscribe, StreamSend, Goto, Shape, TypeOK, Bound, Holding, Cached
<1>13. ASSUME NEW q \in Requests, CancelIgnoresDbError(q)
       PROVE  Ready'
  BY <1>9, <1>13 DEF CancelIgnoresDbError, Goto, Shape, TypeOK
<1>14. ASSUME NEW q \in Requests, Unknown(q) \/ StreamEnd(q) \/ Abandon(q)
       PROVE  Ready'
  <2>1. \E a : a # "CREATED" /\ End(q, a)
    BY <1>14 DEF Executes, Unknown, StreamEnd, Abandon, Shape, TypeOK, Bound, Cached
  <2>2. UNCHANGED redisVars
    BY <1>14 DEF Executes, Unknown, StreamEnd, Abandon
  <2> QED
    BY <1>7, <2>1, <2>2 DEF End, Goto, Shape, TypeOK, Requests
<1>15. ASSUME NEW q \in Requests, Respond(q)
       PROVE  Ready'
  <2>1. UNCHANGED redisVars /\ pc[q] = "respond" /\ pc' = [pc EXCEPT ![q] = "done"]
    BY <1>15 DEF Respond, End, Goto
  <2>2. \A p \in Requests : p # q => answer'[p] = answer[p]
    BY <1>15 DEF Respond, End, Shape, TypeOK
  <2> QED
    BY <1>1, <2>1, <2>2 DEF Ready, Queued, redisVars, Shape, TypeOK, Requests
<1>16. ASSUME NEW r \in Replicas, Restart(r)
       PROVE  Ready'
  BY <1>7, <1>16 DEF Restart, Requests
<1>17. ASSUME UNCHANGED vars
       PROVE  Ready'
  BY <1>7, <1>17 DEF vars, handlerVars
<1> QED
  BY <1>2, <1>3, <1>4, <1>5, <1>6, <1>8, <1>10, <1>11, <1>12, <1>13, <1>14, <1>15, <1>16, <1>17, RefusedFails
     DEF RestartNext, Next, Arrival, Progress, Submission, Handler, Lookup, Change, Showing,
         Failure, Delivery, Requests

(* No submission has begun.                                                *)
LEMMA ReadyInit == Init => Ready
BY DEF Init, Ready, Queued, Requests

(* Whatever id a runner can pop has a payload and, with a database, a row: *)
(* enqueue_job pushes the id after everything else.                        *)
THEOREM ListedCorrect == Spec => []ListedIsReady
<1>1. Ready => ListedIsReady
  BY InListQueued DEF Ready, ListedIsReady, Kept
<1> QED
  BY <1>1, ReadyInit, ReadyStep, ShapeInvariant, PTL DEF Spec, RestartNext

(* A submission answered 201 has a row, and its id is in a list or was     *)
(* popped, whatever the failures and restarts of other handlers.           *)
THEOREM CreatedCorrect == Spec => []CreatedIsDurable
<1>1. Ready => CreatedIsDurable
  BY InListQueued DEF Ready, CreatedIsDurable, Kept
<1> QED
  BY <1>1, ReadyInit, ReadyStep, ShapeInvariant, PTL DEF Spec, RestartNext

-----------------------------------------------------------------------------
(* Delivery.                                                               *)

(* Job j is at place i of list k.                                          *)
Place(j, k, i) == k \in Queues /\ i \in DOMAIN queue[k] /\ queue[k][i] = j

(* An id is in one place at most, or with one runner, and before it is     *)
(* pushed it is nowhere.                                                   *)
Once ==
  \A j \in Jobs :
    /\ pc[j] = "idle" \/ pc[j] \in Submitting => ~Queued(j)
    /\ \A k, h, i, l : Place(j, k, i) /\ Place(j, h, l) => k = h /\ i = l
    /\ \A k, i : Place(j, k, i) => delivered[j] = 0
    /\ delivered[j] <= 1

(* RPUSH makes one new place, at the end of one list.                      *)
LEMMA PushPlaces ==
  ASSUME Shape, NEW q \in Jobs, Push(q)
  PROVE  \E k, n : \A j, h, i : Place(j, h, i)' <=> Place(j, h, i) \/ (j = q /\ h = k /\ i = n)
<1>1. local[q].queue \in Queues
  BY DEF Push, Shape, TypeOK, Bound, Submitting, Requests, Data
<1>2. PICK k \in Queues : queue' = [queue EXCEPT ![k] = Append(queue[k], q)]
  BY <1>1 DEF Push, Shape, TypeOK
<1>3. queue[k] \in Seq(Jobs) /\ queue'[k] = Append(queue[k], q)
  BY <1>2 DEF Shape, TypeOK
<1>4. \A h \in Queues : h # k => queue'[h] = queue[h]
  BY <1>2 DEF Shape, TypeOK
<1>5. PICK n \in Nat : n = Len(queue[k])
  BY <1>3
<1>6. DOMAIN queue[k] = 1..n /\ DOMAIN queue'[k] = 1..(n + 1)
  BY <1>3, <1>5
<1>7. queue'[k][n + 1] = q /\ \A i \in 1..n : queue'[k][i] = queue[k][i]
  BY <1>3, <1>5
<1>8. \A i : i \in 1..(n + 1) <=> i \in 1..n \/ i = n + 1
  OBVIOUS
<1>9. n + 1 \notin 1..n
  OBVIOUS
<1>10. ASSUME NEW j, NEW i
       PROVE  Place(j, k, i)' <=> Place(j, k, i) \/ (j = q /\ i = n + 1)
  BY <1>6, <1>7, <1>8, <1>9 DEF Place
<1>11. ASSUME NEW j, NEW h, NEW i, h # k
       PROVE  Place(j, h, i)' <=> Place(j, h, i)
  BY <1>4, <1>11 DEF Place
<1>12. \A j, h, i : Place(j, h, i)' <=> Place(j, h, i) \/ (j = q /\ h = k /\ i = n + 1)
  BY <1>10, <1>11
<1> QED
  BY <1>12

(* BLPOP takes the first place of one list and moves the others down.      *)
LEMMA DequeuePlaces ==
  ASSUME Shape, NEW k \in Queues, Dequeue(k)
  PROVE  /\ Place(Head(queue[k]), k, 1) /\ Head(queue[k]) \in Jobs
         /\ \A j, h, i : Place(j, h, i)' =>
              IF h = k THEN i \in Nat /\ i > 0 /\ Place(j, h, i + 1) ELSE Place(j, h, i)
<1>1. queue[k] \in Seq(Jobs) /\ queue[k] # <<>> /\ queue'[k] = Tail(queue[k])
  BY DEF Dequeue, Shape, TypeOK
<1>2. \A h \in Queues : h # k => queue'[h] = queue[h]
  BY DEF Dequeue, Shape, TypeOK
<1>3. 1 \in DOMAIN queue[k] /\ Head(queue[k]) = queue[k][1] /\ Head(queue[k]) \in Jobs
  BY <1>1
<1>4. ASSUME NEW i \in DOMAIN queue'[k]
      PROVE  i \in Nat /\ i > 0 /\ i + 1 \in DOMAIN queue[k] /\ queue[k][i + 1] = queue'[k][i]
  BY <1>1, <1>4
<1> QED
  BY <1>2, <1>3, <1>4 DEF Place

(* Once is inductive over Shape: one handler pushes the id, on the one     *)
(* step from "push" to "respond", and a pop moves it from its only place   *)
(* to a runner.                                                            *)
LEMMA OnceStep ==
  ASSUME Shape, Once, [RestartNext]_vars
  PROVE  Once'
<1> USE EndpointsDisjoint
<1>1. ASSUME UNCHANGED redisVars \/ UNCHANGED <<queue, delivered>>,
             \A j \in Jobs : pc'[j] = "idle" \/ pc'[j] \in Submitting =>
                             pc[j] = "idle" \/ pc[j] \in Submitting
      PROVE  Once'
  BY <1>1 DEF Once, Queued, Place, redisVars
<1>2. ASSUME NEW q \in Jobs, NEW r \in Replicas, NEW k \in Queues, BeginSubmit(q, r, k)
      PROVE  Once'
  BY <1>1, <1>2 DEF BeginSubmit, Goto, Shape, TypeOK, Requests
<1>3. ASSUME NEW q \in Jobs, InsertJob(q) \/ InsertRow(q) \/ InsertEvent(q) \/ SetKey(q)
      PROVE  Once'
  BY <1>1, <1>3 DEF Executes, InsertJob, InsertRow, InsertEvent, SetKey, Goto, Shape, TypeOK, Requests,
                    Submitting
<1>4. ASSUME NEW q \in Jobs, Push(q)
      PROVE  Once'
  <2>1. PICK k, n : \A j, h, i : Place(j, h, i)' <=> Place(j, h, i) \/ (j = q /\ h = k /\ i = n)
    BY <1>4, PushPlaces
  <2>2. ~Queued(q) /\ pc'[q] = "respond" /\ delivered' = delivered
    BY <1>4 DEF Push, Once, Goto, Shape, TypeOK, Requests, Submitting
  <2>3. \A h, i : ~Place(q, h, i)
    BY <2>2 DEF Queued, Place
  <2>4. delivered[q] = 0
    BY <2>2 DEF Queued, Shape, TypeOK
  <2>5. \A j \in Jobs : j # q => pc'[j] = pc[j]
    BY <1>4 DEF Push, Goto, Shape, TypeOK, Requests
  <2>6. \A j \in Jobs : Queued(j)' <=> Queued(j) \/ j = q
    BY <1>4, PushQueues
  <2> QED
    BY <2>1, <2>2, <2>3, <2>4, <2>5, <2>6 DEF Once, Submitting
<1>5. ASSUME NEW k \in Queues, Dequeue(k)
      PROVE  Once'
  <2>0. PICK q : q = Head(queue[k])
    OBVIOUS
  <2>1. Place(q, k, 1) /\ q \in Jobs
    BY <1>5, <2>0, DequeuePlaces
  <2>2. \A j, h, i : Place(j, h, i)' =>
          IF h = k THEN i \in Nat /\ i > 0 /\ Place(j, h, i + 1) ELSE Place(j, h, i)
    BY <1>5, DequeuePlaces
  <2>3. delivered' = [delivered EXCEPT ![q] = @ + 1] /\ UNCHANGED pc
    BY <1>5, <2>0 DEF Dequeue, handlerVars
  <2>4. \A h, i : ~Place(q, h, i)'
    <3> SUFFICES ASSUME NEW h, NEW i, Place(q, h, i)'
                 PROVE  FALSE
      OBVIOUS
    <3>1. CASE h = k
      BY <2>1, <2>2, <3>1 DEF Once
    <3>2. CASE h # k
      BY <2>1, <2>2, <3>2 DEF Once
    <3> QED
      BY <3>1, <3>2
  <2>5. delivered[q] = 0
    BY <2>1 DEF Once
  <2>6. ASSUME NEW j \in Jobs, NEW h, NEW i, NEW g, NEW l, Place(j, h, i)', Place(j, g, l)'
        PROVE  h = g /\ i = l
    <3>1. CASE h = k /\ g = k
      <4>1. i \in Nat /\ l \in Nat /\ Place(j, h, i + 1) /\ Place(j, g, l + 1)
        BY <2>2, <2>6, <3>1
      <4>2. i + 1 = l + 1
        BY <4>1 DEF Once
      <4> QED
        BY <3>1, <4>1, <4>2
    <3>2. CASE h # k /\ g # k
      BY <2>2, <2>6, <3>2 DEF Once
    <3>3. CASE h = k /\ g # k
      BY <2>2, <2>6, <3>3 DEF Once
    <3>4. CASE h # k /\ g = k
      BY <2>2, <2>6, <3>4 DEF Once
    <3> QED
      BY <3>1, <3>2, <3>3, <3>4
  <2>7. ASSUME NEW j \in Jobs, j # q
        PROVE  delivered'[j] = delivered[j]
    BY <2>1, <2>3, <2>7 DEF Shape, TypeOK
  <2>8. delivered'[q] = 1
    BY <2>1, <2>3, <2>5 DEF Shape, TypeOK
  <2>9. \A j \in Jobs : Queued(j)' <=> Queued(j)
    BY <1>5, DequeueKeeps
  <2>10. ASSUME NEW j \in Jobs, NEW h, NEW i, Place(j, h, i)'
         PROVE  delivered'[j] = 0
    <3>1. j # q
      BY <2>4, <2>10
    <3>2. \E l : Place(j, h, l)
      BY <2>2, <2>10
    <3> QED
      BY <2>7, <3>1, <3>2 DEF Once
  <2> QED
    BY <2>3, <2>6, <2>7, <2>8, <2>9, <2>10 DEF Once
<1>6. ASSUME NEW q \in Requests, q \notin Jobs, UNCHANGED redisVars,
             \A p \in Requests : p # q => pc'[p] = pc[p]
      PROVE  Once'
  BY <1>1, <1>6 DEF Requests
<1>7. ASSUME NEW q \in Requests, UNCHANGED redisVars,
             \A p \in Requests : p # q => pc'[p] = pc[p], pc'[q] = "done"
      PROVE  Once'
  BY <1>1, <1>7 DEF Requests, Submitting
<1>8. ASSUME NEW q \in Requests, NEW r \in Replicas, NEW j \in Jobs,
             ArriveRequest(q, r, j) \/ \E e \in Events : ArriveReport(q, r, j, e)
      PROVE  Once'
  BY <1>6, <1>8 DEF ArriveRequest, ArriveReport, Arrive, Goto, Shape, TypeOK
<1>9. ASSUME NEW q \in Requests, CacheHit(q) \/ CacheMiss(q) \/ ReadRow(q) \/ CacheRow(q)
      PROVE  Once'
  BY <1>6, <1>9 DEF Executes, CacheHit, CacheMiss, ReadRow, CacheRow, Goto, Shape, TypeOK, Bound, Holding
<1>10. ASSUME NEW q \in Requests, MutateReport(q) \/ MutateCancel(q) \/ UpdateRow(q) \/ RecordEvent(q)
       PROVE  Once'
  BY <1>6, <1>10 DEF Executes, MutateReport, MutateCancel, UpdateRow, RecordEvent, Goto, Shape, TypeOK,
                     Bound, Holding, Cached, redisVars
<1>11. ASSUME NEW q \in Requests, Refresh(q) \/ Publish(q) \/ Subscribe(q) \/ StreamSend(q)
       PROVE  Once'
  BY <1>6, <1>11 DEF Refresh, Publish, Subscribe, StreamSend, Goto, Shape, TypeOK, Bound, Holding, Cached
<1>12. ASSUME NEW q \in Requests, CancelIgnoresDbError(q)
       PROVE  Once'
  BY <1>6, <1>12 DEF CancelIgnoresDbError, Goto, Shape, TypeOK
<1>13. ASSUME NEW q \in Requests, Unknown(q) \/ StreamEnd(q) \/ Abandon(q) \/ Respond(q)
       PROVE  Once'
  BY <1>7, <1>13 DEF Executes, Unknown, StreamEnd, Abandon, Respond, End, Goto, Shape, TypeOK
<1>14. ASSUME NEW r \in Replicas, Restart(r)
       PROVE  Once'
  BY <1>1, <1>14 DEF Restart, Requests, Submitting
<1>15. ASSUME UNCHANGED vars
       PROVE  Once'
  BY <1>1, <1>15 DEF vars, handlerVars
<1> QED
  BY <1>2, <1>3, <1>4, <1>5, <1>8, <1>9, <1>10, <1>11, <1>12, <1>13, <1>14, <1>15, RefusedFails
     DEF RestartNext, Next, Arrival, Progress, Submission, Handler, Lookup, Change, Showing,
         Failure, Delivery, Requests

(* Every list is empty.                                                    *)
LEMMA OnceInit == Init => Once
BY DEF Init, Once, Place, Queued

(* Two places of a job are equal, so it has none or one.                   *)
LEMMA OnceDelivers ==
  ASSUME TypeOK, Once
  PROVE  DeliveredAtMostOnce
<1> SUFFICES ASSUME NEW j \in Jobs
             PROVE  Cardinality(InList(j)) + delivered[j] <= 1
  BY DEF DeliveredAtMostOnce
<1>1. ASSUME NEW p \in InList(j)
      PROVE  p = <<p[1], p[2]>> /\ Place(j, p[1], p[2])
  <2>1. PICK k \in Queues : p \in {k} \X {i \in DOMAIN queue[k] : queue[k][i] = j}
    BY <1>1 DEF InList
  <2> QED
    BY <2>1 DEF Place
<1>2. CASE InList(j) = {}
  BY <1>2, FS_EmptySet DEF TypeOK, Once
<1>3. CASE InList(j) # {}
  <2>1. PICK p \in InList(j) : TRUE
    BY <1>3
  <2>2. InList(j) = {p}
    BY <1>1, <2>1 DEF Once
  <2>3. Cardinality(InList(j)) = 1
    BY <2>2, FS_Singleton
  <2>4. delivered[j] = 0
    BY <1>1, <2>1 DEF Once
  <2> QED
    BY <2>3, <2>4
<1> QED
  BY <1>2, <1>3

(* An id is handed to at most one runner, however submissions, failures    *)
(* and restarts interleave: it is pushed once and popped once.             *)
THEOREM DeliveryCorrect == Spec => []DeliveredAtMostOnce
BY OnceInit, OnceStep, OnceDelivers, ShapeInvariant, PTL DEF Spec, RestartNext, Shape
=============================================================================
