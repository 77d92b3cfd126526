------------------------- MODULE OrchestratorProofs -------------------------
(***************************************************************************)
(* Proofs about Orchestrator, for every number of replicas and requests,   *)
(* with and without a database, over any number of restarts.               *)
(***************************************************************************)
EXTENDS Orchestrator, FiniteSetTheorems, TLAPS

(* Where a handler stands tells what it holds.                             *)
Submitting == {"insert", "insertRow", "insertEvent", "setKey", "push"}
Holding    == {"cacheRow", "updateRow", "record", "publish"}
Cached     == {"mutate", "updateRow", "record", "refresh", "publish", "subscribe",
               "streaming"}

Bound ==
  \A q \in Requests :
    /\ q \in Jobs => target[q] = q
    /\ pc[q] = "idle" => proc[q] = None
    /\ pc[q] # "idle" => proc[q] \in Replicas /\ target[q] \in Jobs
    /\ q \in Reports /\ pc[q] # "idle" => event[q] \in Event
    /\ pc[q] \in Submitting => q \in Jobs /\ local[q] # None
    /\ pc[q] \in Holding => q \notin Jobs /\ local[q] # None
    /\ pc[q] \in Cached => q \notin Jobs /\ mem[proc[q]][target[q]] # None
    /\ pc[q] \in {"publish", "streaming"} => sender[q] # None
    /\ pc[q] \in {"check", "readRow"} => q \notin Jobs

Channels ==
  \A r \in Replicas, j \in Jobs : mem[r][j] # None => notifier[r][j] # None

Shape == TypeOK /\ Bound /\ Channels

RestartNext == Next \/ \E r \in Replicas : Restart(r)

(* A position counts jobs: the filter of the table walks a finite map.     *)
LEMMA AheadType ==
  ASSUME NEW r, NEW d
  PROVE  Ahead(r, d) \in Nat
<1> DEFINE S == {k \in Jobs : Waiting(r, k) /\ mem[r][k].created < d.created}
<1>1. S \subseteq Jobs
  OBVIOUS
<1>2. IsFiniteSet(S)
  BY <1>1, JobsFinite, FS_Subset
<1>3. Cardinality(S) \in Nat
  BY <1>2, FS_CardinalityType
<1> QED
  BY <1>3 DEF Ahead

(* Recomputing the position of a record leaves a record.                   *)
LEMMA PositionedType ==
  ASSUME NEW r, NEW d \in Data
  PROVE  Positioned(r, d) \in Data
BY AheadType DEF Positioned, Data, NoPosition

(* The mutator of handle_runner_event turns a record into a record,        *)
(* whatever the status of the job and the body of the event.               *)
LEMMA ReportedType ==
  ASSUME NEW d \in Data, NEW q \in Requests, NEW ev \in Event
  PROVE  Reported(d, q, ev) \in Data
BY DEF Reported, Data, Event, Status

(* The mutator of cancel_job turns a record into a record.                 *)
LEMMA WithdrawnType ==
  ASSUME NEW d \in Data, NEW q \in Requests
  PROVE  Withdrawn(d, q) \in Data
BY DEF Withdrawn, Data, Status

(* HashMap::insert of a record keeps the table a table of records.         *)
LEMMA StoreType ==
  ASSUME NEW r \in Replicas, NEW j \in Jobs, NEW d \in Data, Store(r, j, d),
         mem \in [Replicas -> [Jobs -> Data \cup {None}]]
  PROVE  mem' \in [Replicas -> [Jobs -> Data \cup {None}]]
BY DEF Store

(* send_replace of a snapshot keeps every channel holding a snapshot.      *)
LEMMA SendType ==
  ASSUME NEW c \in Requests, NEW d \in Data, Send(c, d),
         watch \in [Requests -> Data \cup {None}]
  PROVE  watch' \in [Requests -> Data \cup {None}]
BY DEF Send

(* ensure_job_cached inserts a record and a channel of its own.            *)
LEMMA CacheRowType ==
  ASSUME Shape, NEW q \in Requests, CacheRow(q)
  PROVE  TypeOK'
<1> DEFINE r == proc[q]
           j == target[q]
           d == Positioned(r, local[q])
<1>1. r \in Replicas /\ j \in Jobs
  BY DEF Shape, Bound, CacheRow
<1>2. d \in Data
  BY <1>1, PositionedType DEF Shape, TypeOK, Bound, Holding, CacheRow
<1>3. mem' \in [Replicas -> [Jobs -> Data \cup {None}]]
  BY <1>1, <1>2, StoreType DEF CacheRow, Shape, TypeOK
<1>4. watch' \in [Requests -> Data \cup {None}]
  BY <1>1, <1>2, SendType DEF CacheRow, Shape, TypeOK
<1> QED
  BY <1>1, <1>3, <1>4 DEF CacheRow, Shape, TypeOK, Goto, AfterCached, Locations, dbVars, redisVars

(* A report finds the record and the channel that ensure_job_cached left,  *)
(* and leaves a record.                                                    *)
LEMMA MutateReportType ==
  ASSUME Shape, NEW q \in Requests, MutateReport(q)
  PROVE  TypeOK'
<1> DEFINE r == proc[q]
           j == target[q]
           d == Positioned(r, Reported(mem[r][j], q, event[q]))
<1>1. r \in Replicas /\ j \in Jobs /\ mem[r][j] # None /\ event[q] \in Event
  BY DEF Shape, Bound, Cached, MutateReport
<1>2. mem[r][j] \in Data /\ notifier[r][j] \in Requests
  BY <1>1 DEF Shape, TypeOK, Channels
<1>3. d \in Data
  BY <1>1, <1>2, PositionedType, ReportedType
<1>4. mem' \in [Replicas -> [Jobs -> Data \cup {None}]]
  BY <1>1, <1>3, StoreType DEF MutateReport, Shape, TypeOK
<1>5. watch' \in [Requests -> Data \cup {None}]
  BY <1>1, <1>2, <1>3, SendType DEF MutateReport, Shape, TypeOK
<1> QED
  BY <1>3, <1>4, <1>5 DEF MutateReport, Shape, TypeOK, Goto, Locations, dbVars, redisVars

(* So does a cancellation, whether it is granted or not.                   *)
LEMMA MutateCancelType ==
  ASSUME Shape, NEW q \in Requests, MutateCancel(q)
  PROVE  TypeOK'
<1> DEFINE r == proc[q]
           j == target[q]
           d == Positioned(r, IF Waiting(r, j) THEN Withdrawn(mem[r][j], q) ELSE mem[r][j])
<1>1. r \in Replicas /\ j \in Jobs /\ mem[r][j] # None
  BY DEF Shape, Bound, Cached, MutateCancel
<1>2. mem[r][j] \in Data /\ notifier[r][j] \in Requests
  BY <1>1 DEF Shape, TypeOK, Channels
<1>3. d \in Data
  BY <1>1, <1>2, PositionedType, WithdrawnType
<1>4. mem' \in [Replicas -> [Jobs -> Data \cup {None}]]
  BY <1>1, <1>3, StoreType DEF MutateCancel, Shape, TypeOK
<1>5. watch' \in [Requests -> Data \cup {None}]
  BY <1>1, <1>2, <1>3, SendType DEF MutateCancel, Shape, TypeOK
<1>6. CancelStatus(mem[r][j].status) \in Answers
  BY DEF CancelStatus, Answers
<1>7. pc' \in [Requests -> Locations]
  BY DEF MutateCancel, Shape, TypeOK, Goto, Locations
<1> QED
  BY <1>3, <1>4, <1>5, <1>6, <1>7 DEF MutateCancel, Shape, TypeOK, dbVars, redisVars

(* record_event writes the status of the copy the handler holds.           *)
LEMMA RecordEventType ==
  ASSUME Shape, NEW q \in Requests, RecordEvent(q)
  PROVE  TypeOK'
<1>1. target[q] \in Jobs /\ local[q] \in Data
  BY DEF Executes, Shape, TypeOK, Bound, Holding, RecordEvent
<1>2. local[q].status \in Status
  BY <1>1 DEF Data
<1>3. audit' \subseteq [job : Jobs, request : Requests, status : Status]
  BY <1>1, <1>2 DEF Executes, RecordEvent, Shape, TypeOK
<1>4. pc' \in [Requests -> Locations]
  BY DEF Executes, RecordEvent, Shape, TypeOK, Goto, AfterRecord, Locations
<1> QED
  BY <1>3, <1>4 DEF Executes, RecordEvent, Shape, TypeOK, processVars, redisVars

(* refresh_snapshot finds the record, and takes a channel with it.         *)
LEMMA RefreshType ==
  ASSUME Shape, NEW q \in Requests, Refresh(q)
  PROVE  TypeOK'
<1> DEFINE r == proc[q]
           j == target[q]
           d == Positioned(r, mem[r][j])
<1>1. r \in Replicas /\ j \in Jobs /\ mem[r][j] # None
  BY DEF Shape, Bound, Cached, Refresh
<1>2. mem[r][j] \in Data /\ notifier[r][j] \in Requests
  BY <1>1 DEF Shape, TypeOK, Channels
<1>3. d \in Data
  BY <1>1, <1>2, PositionedType
<1>4. mem' \in [Replicas -> [Jobs -> Data \cup {None}]]
  BY <1>1, <1>3, StoreType DEF Refresh, Shape, TypeOK
<1> QED
  BY <1>2, <1>3, <1>4 DEF Refresh, Shape, TypeOK, Goto, Locations, dbVars, redisVars

(* cancel_job goes on after an error as it does without one.               *)
LEMMA CancelIgnoresDbErrorType ==
  ASSUME Shape, NEW q \in Requests, CancelIgnoresDbError(q)
  PROVE  TypeOK'
<1>1. pc \in [Requests -> Locations]
  BY DEF Shape, TypeOK
<1>2. Goto(q, "record") \/ Goto(q, "respond")
  BY DEF CancelIgnoresDbError
<1>3. pc' \in [Requests -> Locations]
  BY <1>1, <1>2 DEF Goto, Locations
<1> QED
  BY <1>3 DEF CancelIgnoresDbError, Shape, TypeOK, processVars, dbVars, redisVars

(* A statement that the driver refuses ends its handler with an error, or  *)
(* is one of the two whose error cancel_job drops.                         *)
LEMMA RefusedFails ==
  ASSUME NEW q \in Requests, Refused(q)
  PROVE  Abandon(q) \/ CancelIgnoresDbError(q)
BY DEF Refused, Abandon

(* No insert removes a record from the table (the remove of mutate_job and *)
(* of refresh_snapshot is undone under the same lock).                     *)
LEMMA StoreKeeps ==
  ASSUME Shape, NEW r \in Replicas, NEW j \in Jobs, NEW d \in Data, Store(r, j, d)
  PROVE  \A r2 \in Replicas, j2 \in Jobs : mem[r2][j2] # None => mem'[r2][j2] # None
BY ConstantsTyped DEF Store, Shape, TypeOK

(* ... nor takes its channel from a record that was there.                 *)
LEMMA StoreChannels ==
  ASSUME Shape, NEW r \in Replicas, NEW j \in Jobs, NEW d, Store(r, j, d),
         mem[r][j] # None, UNCHANGED notifier
  PROVE  Channels'
BY DEF Store, Shape, TypeOK, Channels

(* What mutate_job, subscribe and refresh_snapshot look up is there.       *)
LEMMA CachedHas ==
  ASSUME Shape, NEW q \in Requests, pc[q] \in Cached
  PROVE  /\ proc[q] \in Replicas /\ target[q] \in Jobs /\ q \notin Jobs /\ pc[q] # "idle"
         /\ mem[proc[q]][target[q]] \in Data /\ mem[proc[q]][target[q]] # None
<1>1. proc[q] \in Replicas /\ target[q] \in Jobs /\ mem[proc[q]][target[q]] # None /\ q \notin Jobs
      /\ pc[q] # "idle"
  BY DEF Shape, Bound, Cached
<1> QED
  BY <1>1 DEF Shape, TypeOK

(* A handler that goes on to place l holds what it will unwrap there, and  *)
(* takes nothing from the others.                                          *)
LEMMA GoesBound ==
  ASSUME Shape, NEW q \in Requests, pc[q] # "idle", NEW l \in Locations \ {"idle"},
         pc' = [pc EXCEPT ![q] = l], UNCHANGED <<proc, target, event>>,
         \A p \in Requests : p # q => local'[p] = local[p] /\ sender'[p] = sender[p],
         \A r \in Replicas, j \in Jobs : mem[r][j] # None => mem'[r][j] # None,
         l \in Submitting => q \in Jobs /\ local'[q] # None,
         l \in Holding => q \notin Jobs /\ local'[q] # None,
         l \in Cached => q \notin Jobs /\ mem'[proc[q]][target[q]] # None,
         l \in {"publish", "streaming"} => sender'[q] # None,
         l \in {"check", "readRow"} => q \notin Jobs
  PROVE  Bound'
<1>1. pc'[q] = l /\ \A p \in Requests : p # q => pc'[p] = pc[p]
  BY DEF Shape, TypeOK
<1>2. ASSUME NEW p \in Requests, p # q
      PROVE  pc[p] \in Cached => p \notin Jobs /\ mem'[proc[p]][target[p]] # None
  BY <1>2 DEF Shape, Bound, Cached
<1> QED
  BY <1>1, <1>2 DEF Shape, Bound

(* Every step of the service keeps the types of its state.                 *)
LEMMA TypeStep ==
  ASSUME Shape, [RestartNext]_vars
  PROVE  TypeOK'
<1> USE ConstantsTyped, EndpointsDisjoint
    DEF Shape, TypeOK, Requests, Locations, Answers
<1>1. ASSUME NEW q \in Jobs, NEW r \in Replicas, NEW k \in Queues, BeginSubmit(q, r, k)
      PROVE  TypeOK'
  BY <1>1 DEF Data, Status, BeginSubmit, processVars, dbVars, redisVars, Goto
<1>2. ASSUME NEW q \in Jobs, InsertJob(q)
      PROVE  TypeOK'
  BY <1>2, PositionedType, StoreType, SendType DEF Bound, Submitting, InsertJob, dbVars, redisVars, Goto, Store, Send
<1>3. ASSUME NEW q \in Jobs, InsertRow(q)
      PROVE  TypeOK'
  BY <1>3 DEF Executes, Bound, Channels, Data, Submitting, Holding, Cached, InsertRow, processVars, redisVars, Goto
<1>4. ASSUME NEW q \in Jobs, InsertEvent(q)
      PROVE  TypeOK'
  BY <1>4 DEF Executes, Data, Bound, Submitting, InsertEvent, processVars, redisVars, Goto
<1>5. ASSUME NEW q \in Jobs, SetKey(q)
      PROVE  TypeOK'
  BY <1>5 DEF SetKey, processVars, dbVars, Goto
<1>6. ASSUME NEW q \in Jobs, Push(q)
      PROVE  TypeOK'
  BY <1>6 DEF Bound, Channels, Data, Submitting, Holding, Cached, Push, processVars, dbVars, Goto
<1>7. ASSUME NEW q \in Reports, NEW r \in Replicas, NEW j \in Jobs, NEW e \in Events,
             ArriveReport(q, r, j, e)
      PROVE  TypeOK'
  BY <1>7 DEF ArriveReport, Arrive, processVars, dbVars, redisVars, Goto
<1>8. ASSUME NEW q \in Requests, NEW r \in Replicas, NEW j \in Jobs,
             ArriveRequest(q, r, j)
      PROVE  TypeOK'
  BY <1>8 DEF ArriveRequest, Arrive, processVars, dbVars, redisVars, Goto
<1>9. ASSUME NEW q \in Requests, CacheHit(q)
      PROVE  TypeOK'
  BY <1>9 DEF CacheHit, processVars, dbVars, redisVars, AfterCached, Goto
<1>10. ASSUME NEW q \in Requests, CacheMiss(q)
      PROVE  TypeOK'
  BY <1>10 DEF CacheMiss, processVars, dbVars, redisVars, Goto
<1>11. ASSUME NEW q \in Requests, ReadRow(q)
      PROVE  TypeOK'
  BY <1>11 DEF Executes, Bound, Channels, Data, Submitting, Holding, Cached, ReadRow, processVars, dbVars, redisVars, Goto
<1>12. ASSUME NEW q \in Requests, CacheRow(q)
      PROVE  TypeOK'
  BY <1>12, CacheRowType
<1>13. ASSUME NEW q \in Requests, Unknown(q)
      PROVE  TypeOK'
  BY <1>13 DEF Executes, Unknown, processVars, dbVars, redisVars, Goto, End
<1>14. ASSUME NEW q \in Requests, MutateReport(q)
      PROVE  TypeOK'
  BY <1>14, MutateReportType
<1>15. ASSUME NEW q \in Requests, MutateCancel(q)
      PROVE  TypeOK'
  BY <1>15, MutateCancelType
<1>16. ASSUME NEW q \in Requests, UpdateRow(q)
      PROVE  TypeOK'
  BY <1>16 DEF Executes, Bound, Channels, Data, Submitting, Holding, Cached, UpdateRow, processVars, redisVars, Goto
<1>17. ASSUME NEW q \in Requests, RecordEvent(q)
      PROVE  TypeOK'
  BY <1>17, RecordEventType
<1>18. ASSUME NEW q \in Requests, Refresh(q)
      PROVE  TypeOK'
  BY <1>18, RefreshType
<1>19. ASSUME NEW q \in Requests, Publish(q)
      PROVE  TypeOK'
  BY <1>19 DEF Bound, Channels, Data, Submitting, Holding, Cached, Publish, dbVars, redisVars, Goto, Send
<1>20. ASSUME NEW q \in Requests, Respond(q)
      PROVE  TypeOK'
  BY <1>20 DEF Bound, Channels, Data, Submitting, Holding, Cached, Respond, processVars, dbVars, redisVars, Goto, End
<1>21. ASSUME NEW q \in Requests, Subscribe(q)
      PROVE  TypeOK'
  BY <1>21 DEF Bound, Channels, Data, Submitting, Holding, Cached, Subscribe, processVars, dbVars, redisVars, Goto
<1>22. ASSUME NEW q \in Requests, StreamSend(q)
      PROVE  TypeOK'
  BY <1>22 DEF Bound, Channels, Data, Submitting, Holding, Cached, StreamSend, processVars, dbVars, redisVars
<1>23. ASSUME NEW q \in Requests, StreamEnd(q)
      PROVE  TypeOK'
  BY <1>23 DEF StreamEnd, processVars, dbVars, redisVars, Goto, End
<1>24. ASSUME NEW q \in Requests, Abandon(q)
      PROVE  TypeOK'
  BY <1>24 DEF Abandon, processVars, dbVars, redisVars, Goto, End
<1>25. ASSUME NEW q \in Requests, CancelIgnoresDbError(q)
      PROVE  TypeOK'
  BY <1>25, CancelIgnoresDbErrorType
<1>26. ASSUME NEW r \in Replicas, Restart(r)
      PROVE  TypeOK'
  BY <1>26 DEF Restart, dbVars, redisVars
<1>27. ASSUME NEW k \in Queues, Dequeue(k)
      PROVE  TypeOK'
  BY <1>27 DEF Dequeue, processVars, handlerVars, dbVars
<1>28. ASSUME UNCHANGED vars
      PROVE  TypeOK'
  BY <1>28 DEF vars, processVars, handlerVars, dbVars, redisVars
<1> HIDE DEF Shape, TypeOK, Bound, Channels
<1> QED
  BY <1>1, <1>2, <1>3, <1>4, <1>5, <1>6, <1>7, <1>8, <1>9, <1>10, <1>11,
     <1>12, <1>13, <1>14, <1>15, <1>16, <1>17, <1>18, <1>19, <1>20, <1>21,
     <1>22, <1>23, <1>24, <1>25, <1>26, <1>27, <1>28, RefusedFails
     DEF RestartNext, Next, Arrival, Progress, Submission, Handler, Lookup, Change, Showing,
         Failure, Delivery

(* Every step leaves every handler holding what its next step unwraps: a   *)
(* replica, a job, a body, a copy, a channel - and the job in the table of *)
(* its replica, which is what makes "job not found" unreachable in         *)
(* mutate_job, subscribe and refresh_snapshot after ensure_job_cached.     *)
LEMMA BoundStep ==
  ASSUME Shape, [RestartNext]_vars, TypeOK'
  PROVE  Bound'
<1>0. \A q \in Requests : pc[q] \in Cached =>
        /\ proc[q] \in Replicas /\ target[q] \in Jobs /\ q \notin Jobs /\ pc[q] # "idle"
        /\ mem[proc[q]][target[q]] \in Data /\ mem[proc[q]][target[q]] # None
  BY CachedHas
<1> USE ConstantsTyped, EndpointsDisjoint
    DEF Shape, TypeOK, Bound, Requests, Submitting, Holding, Cached, Goto, End
<1>1. ASSUME NEW q \in Jobs, NEW r \in Replicas, NEW k \in Queues, BeginSubmit(q, r, k)
      PROVE  Bound'
  <2>1. local'[q] # None
    <3>1. local'[q] = [status |-> "IN_QUEUE", position |-> 0, lines |-> {}, result |-> None,
                       created |-> clock, queue |-> k]
      BY <1>1 DEF BeginSubmit
    <3>2. local'[q] \in Data
      BY <3>1 DEF Data, Status
    <3> QED
      BY <3>2
  <2>2. /\ pc' = [pc EXCEPT ![q] = "insert"]
        /\ proc' = [proc EXCEPT ![q] = r]
        /\ \A p \in Requests : p # q => local'[p] = local[p]
        /\ UNCHANGED <<mem, target, event, sender>>
    BY <1>1 DEF BeginSubmit, processVars
  <2> QED
    BY <2>1, <2>2
<1>2. ASSUME NEW q \in Jobs, InsertJob(q)
      PROVE  Bound'
  <2>1. proc[q] \in Replicas /\ local[q] \in Data /\ pc[q] = "insert"
    BY <1>2 DEF InsertJob
  <2>2. Positioned(proc[q], local[q]) \in Data
    BY <2>1, PositionedType
  <2>3. \A r2 \in Replicas, j2 \in Jobs : mem[r2][j2] # None => mem'[r2][j2] # None
    BY <1>2, <2>1, <2>2, StoreKeeps DEF InsertJob
  <2>4. PICK l \in {"insertRow", "setKey"} : pc' = [pc EXCEPT ![q] = l]
    BY <1>2 DEF InsertJob
  <2>5. local'[q] = Positioned(proc[q], local[q]) /\ UNCHANGED <<proc, target, event, sender>>
        /\ \A p \in Requests : p # q => local'[p] = local[p]
    BY <1>2 DEF InsertJob
  <2> HIDE DEF Shape, TypeOK, Bound
  <2> QED
    BY <2>1, <2>2, <2>3, <2>4, <2>5, GoesBound DEF Locations
<1>3. ASSUME NEW q \in Jobs, InsertRow(q)
      PROVE  Bound'
  BY <1>3 DEF Executes, InsertRow, processVars, redisVars
<1>4. ASSUME NEW q \in Jobs, InsertEvent(q)
      PROVE  Bound'
  BY <1>4 DEF Executes, InsertEvent, processVars, redisVars
<1>5. ASSUME NEW q \in Jobs, SetKey(q)
      PROVE  Bound'
  BY <1>5 DEF SetKey, processVars, dbVars
<1>6. ASSUME NEW q \in Jobs, Push(q)
      PROVE  Bound'
  BY <1>6 DEF Push, processVars, dbVars
<1>7. ASSUME NEW q \in Reports, NEW r \in Replicas, NEW j \in Jobs, NEW e \in Events,
             ArriveReport(q, r, j, e)
      PROVE  Bound'
  BY <1>7 DEF ArriveReport, Arrive, processVars, dbVars, redisVars
<1>8. ASSUME NEW q \in Requests, NEW r \in Replicas, NEW j \in Jobs,
             ArriveRequest(q, r, j)
      PROVE  Bound'
  BY <1>8 DEF ArriveRequest, Arrive, processVars, dbVars, redisVars
<1>9. ASSUME NEW q \in Requests, CacheHit(q)
      PROVE  Bound'
  BY <1>9 DEF CacheHit, processVars, dbVars, redisVars, AfterCached
<1>10. ASSUME NEW q \in Requests, CacheMiss(q)
      PROVE  Bound'
  BY <1>10 DEF CacheMiss, processVars, dbVars, redisVars
<1>11. ASSUME NEW q \in Requests, ReadRow(q)
      PROVE  Bound'
  BY <1>11 DEF Executes, ReadRow, processVars, dbVars, redisVars
<1>12. ASSUME NEW q \in Requests, CacheRow(q)
      PROVE  Bound'
  <2>1. proc[q] \in Replicas /\ target[q] \in Jobs /\ local[q] \in Data
    BY <1>12 DEF CacheRow
  <2>2. Positioned(proc[q], local[q]) \in Data
    BY <2>1, PositionedType
  <2>3. \A r2 \in Replicas, j2 \in Jobs : mem[r2][j2] # None => mem'[r2][j2] # None
    BY <1>12, <2>1, <2>2, StoreKeeps DEF CacheRow
  <2>4. mem'[proc[q]][target[q]] # None
    BY <1>12, <2>1, <2>2 DEF CacheRow, Store
  <2> QED
    BY <1>12, <2>1, <2>3, <2>4 DEF CacheRow, AfterCached
<1>13. ASSUME NEW q \in Requests, Unknown(q)
      PROVE  Bound'
  BY <1>13 DEF Executes, Unknown, processVars, dbVars, redisVars
<1>14. ASSUME NEW q \in Requests, MutateReport(q)
      PROVE  Bound'
  <2>1. proc[q] \in Replicas /\ target[q] \in Jobs /\ mem[proc[q]][target[q]] \in Data /\ event[q] \in Event
    BY <1>14 DEF MutateReport
  <2>2. Positioned(proc[q], Reported(mem[proc[q]][target[q]], q, event[q])) \in Data
    BY <2>1, PositionedType, ReportedType
  <2>3. \A r2 \in Replicas, j2 \in Jobs : mem[r2][j2] # None => mem'[r2][j2] # None
    BY <1>14, <2>1, <2>2, StoreKeeps DEF MutateReport
  <2>4. PICK l \in {"updateRow", "refresh"} : pc' = [pc EXCEPT ![q] = l]
    BY <1>14 DEF MutateReport
  <2>5. local'[q] # None /\ UNCHANGED <<proc, target, event, sender>>
        /\ \A p \in Requests : p # q => local'[p] = local[p]
    BY <1>14, <2>2 DEF MutateReport
  <2>6. mem'[proc[q]][target[q]] # None /\ q \notin Jobs /\ pc[q] # "idle"
    BY <1>14, <2>1, <2>3 DEF MutateReport
  <2> HIDE DEF Shape, TypeOK, Bound
  <2> QED
    BY <2>3, <2>4, <2>5, <2>6, GoesBound DEF Locations
<1>15. ASSUME NEW q \in Requests, MutateCancel(q)
      PROVE  Bound'
  <2> DEFINE d == Positioned(proc[q], IF Waiting(proc[q], target[q])
                                      THEN Withdrawn(mem[proc[q]][target[q]], q)
                                      ELSE mem[proc[q]][target[q]])
  <2>1. /\ proc[q] \in Replicas /\ target[q] \in Jobs /\ q \notin Jobs /\ pc[q] # "idle"
        /\ mem[proc[q]][target[q]] \in Data /\ mem[proc[q]][target[q]] # None
    BY ONLY <1>0, <1>15 DEF MutateCancel, Cached
  <2>2. d \in Data
    BY <2>1, PositionedType, WithdrawnType
  <2>3. \A r2 \in Replicas, j2 \in Jobs : mem[r2][j2] # None => mem'[r2][j2] # None
    BY <1>15, <2>1, <2>2, StoreKeeps DEF MutateCancel
  <2>4. PICK l \in {"updateRow", "respond"} : pc' = [pc EXCEPT ![q] = l]
    BY <1>15 DEF MutateCancel
  <2>5. local'[q] = d /\ UNCHANGED <<proc, target, event, sender>>
        /\ \A p \in Requests : p # q => local'[p] = local[p]
    BY <1>15 DEF MutateCancel
  <2> HIDE DEF d
  <2>6. mem'[proc[q]][target[q]] # None
    BY ONLY <2>1, <2>3
  <2> HIDE DEF Shape, TypeOK, Bound
  <2> QED
    BY <2>1, <2>2, <2>3, <2>4, <2>5, <2>6, GoesBound DEF Locations
<1>16. ASSUME NEW q \in Requests, UpdateRow(q)
      PROVE  Bound'
  BY <1>16 DEF Executes, UpdateRow, processVars, redisVars
<1>17. ASSUME NEW q \in Requests, RecordEvent(q)
      PROVE  Bound'
  BY <1>17 DEF Executes, RecordEvent, processVars, redisVars, AfterRecord
<1>18. ASSUME NEW q \in Requests, Refresh(q)
      PROVE  Bound'
  <2>1. /\ proc[q] \in Replicas /\ target[q] \in Jobs /\ q \notin Jobs /\ pc[q] # "idle"
        /\ mem[proc[q]][target[q]] \in Data /\ mem[proc[q]][target[q]] # None
    BY ONLY <1>0, <1>18 DEF Refresh, Cached
  <2>2. Positioned(proc[q], mem[proc[q]][target[q]]) \in Data
    BY <2>1, PositionedType
  <2>3. \A r2 \in Replicas, j2 \in Jobs : mem[r2][j2] # None => mem'[r2][j2] # None
    BY <1>18, <2>1, <2>2, StoreKeeps DEF Refresh
  <2>4. sender'[q] # None /\ \A p \in Requests : p # q => sender'[p] = sender[p]
    <3>1. notifier[proc[q]][target[q]] # None
      BY ONLY <2>1, Channels DEF Channels
    <3>2. sender' = [sender EXCEPT ![q] = notifier[proc[q]][target[q]]]
      BY ONLY <1>18 DEF Refresh
    <3>3. sender \in [Requests -> Requests \cup {None}]
      OBVIOUS
    <3> QED
      BY ONLY <3>1, <3>2, <3>3, q \in Requests
  <2>5. local'[q] # None /\ UNCHANGED <<proc, target, event>> /\ pc' = [pc EXCEPT ![q] = "publish"]
        /\ \A p \in Requests : p # q => local'[p] = local[p]
    <3>1. local' = [local EXCEPT ![q] = Positioned(proc[q], mem[proc[q]][target[q]])]
          /\ UNCHANGED <<proc, target, event>> /\ pc' = [pc EXCEPT ![q] = "publish"]
      BY ONLY <1>18 DEF Refresh, Goto
    <3> QED
      BY <2>2, <3>1
  <2>6. mem'[proc[q]][target[q]] # None
    BY ONLY <2>1, <2>3
  <2> HIDE DEF Shape, TypeOK, Bound
  <2> QED
    BY <2>1, <2>3, <2>4, <2>5, <2>6, GoesBound DEF Locations
<1>19. ASSUME NEW q \in Requests, Publish(q)
      PROVE  Bound'
  BY <1>19 DEF Publish, dbVars, redisVars, Send
<1>20. ASSUME NEW q \in Requests, Respond(q)
      PROVE  Bound'
  BY <1>20 DEF Respond, processVars, dbVars, redisVars
<1>21. ASSUME NEW q \in Requests, Subscribe(q)
      PROVE  Bound'
  <2>1. proc[q] \in Replicas /\ target[q] \in Jobs /\ notifier[proc[q]][target[q]] # None
    BY <1>21 DEF Subscribe, Channels
  <2> QED
    BY <1>21, <2>1 DEF Subscribe, processVars
<1>22. ASSUME NEW q \in Requests, StreamSend(q)
      PROVE  Bound'
  BY <1>22 DEF StreamSend, processVars, dbVars, redisVars
<1>23. ASSUME NEW q \in Requests, StreamEnd(q)
      PROVE  Bound'
  BY <1>23 DEF StreamEnd, processVars, dbVars, redisVars
<1>24. ASSUME NEW q \in Requests, Abandon(q)
      PROVE  Bound'
  BY <1>24 DEF Abandon, processVars, dbVars, redisVars
<1>25. ASSUME NEW q \in Requests, CancelIgnoresDbError(q)
      PROVE  Bound'
  BY <1>25 DEF CancelIgnoresDbError, processVars, dbVars, redisVars
<1>26. ASSUME NEW r \in Replicas, Restart(r)
      PROVE  Bound'
  <2> SUFFICES ASSUME NEW p \in Requests
               PROVE  /\ p \in Jobs => target'[p] = p
                      /\ pc'[p] = "idle" => proc'[p] = None
                      /\ pc'[p] # "idle" => proc'[p] \in Replicas /\ target'[p] \in Jobs
                      /\ p \in Reports /\ pc'[p] # "idle" => event'[p] \in Event
                      /\ pc'[p] \in Submitting => p \in Jobs /\ local'[p] # None
                      /\ pc'[p] \in Holding => p \notin Jobs /\ local'[p] # None
                      /\ pc'[p] \in Cached => p \notin Jobs /\ mem'[proc'[p]][target'[p]] # None
                      /\ pc'[p] \in {"publish", "streaming"} => sender'[p] # None
                      /\ pc'[p] \in {"check", "readRow"} => p \notin Jobs
    BY Zenon
  <2>1. CASE proc[p] = r /\ pc[p] # "done"
    <3>1. pc[p] # "idle" /\ pc'[p] = "done" /\ UNCHANGED <<proc, target, event>>
      BY <1>26, <2>1 DEF Restart
    <3> QED
      BY <3>1
  <2>2. CASE ~(proc[p] = r /\ pc[p] # "done")
    <3>1. pc'[p] = pc[p] /\ local'[p] = local[p] /\ sender'[p] = sender[p]
      BY <1>26, <2>2 DEF Restart
    <3>2. proc[p] # r => mem'[proc[p]] = mem[proc[p]]
      BY <1>26 DEF Restart
    <3> QED
      BY <1>26, <2>2, <3>1, <3>2 DEF Restart
  <2> QED
    BY <2>1, <2>2
<1>27. ASSUME NEW k \in Queues, Dequeue(k)
      PROVE  Bound'
  BY <1>27 DEF Dequeue, processVars, handlerVars, dbVars
<1>28. ASSUME UNCHANGED vars
      PROVE  Bound'
  BY <1>28 DEF vars, processVars, handlerVars, dbVars, redisVars
<1> HIDE DEF Shape, TypeOK, Bound, Channels
<1> QED
  BY <1>1, <1>2, <1>3, <1>4, <1>5, <1>6, <1>7, <1>8, <1>9, <1>10, <1>11,
     <1>12, <1>13, <1>14, <1>15, <1>16, <1>17, <1>18, <1>19, <1>20, <1>21,
     <1>22, <1>23, <1>24, <1>25, <1>26, <1>27, <1>28, RefusedFails
     DEF RestartNext, Next, Arrival, Progress, Submission, Handler, Lookup, Change, Showing,
         Failure, Delivery

(* Every record of a table has its channel.                                *)
LEMMA ChannelsStep ==
  ASSUME Shape, [RestartNext]_vars, TypeOK'
  PROVE  Channels'
<1>0. \A q \in Requests : pc[q] \in Cached =>
        /\ proc[q] \in Replicas /\ target[q] \in Jobs /\ q \notin Jobs /\ pc[q] # "idle"
        /\ mem[proc[q]][target[q]] \in Data /\ mem[proc[q]][target[q]] # None
  BY CachedHas
<1> USE ConstantsTyped DEF Shape, TypeOK, Channels, Requests
<1>1. ASSUME NEW q \in Jobs, NEW r \in Replicas, NEW k \in Queues, BeginSubmit(q, r, k)
      PROVE  Channels'
  BY <1>1 DEF BeginSubmit, processVars, dbVars, redisVars
<1>2. ASSUME NEW q \in Jobs, InsertJob(q)
      PROVE  Channels'
  BY <1>2 DEF Bound, Submitting, Holding, Cached, InsertJob, dbVars, redisVars, Store
<1>3. ASSUME NEW q \in Jobs, InsertRow(q)
      PROVE  Channels'
  BY <1>3 DEF Executes, InsertRow, processVars, redisVars
<1>4. ASSUME NEW q \in Jobs, InsertEvent(q)
      PROVE  Channels'
  BY <1>4 DEF Executes, InsertEvent, processVars, redisVars
<1>5. ASSUME NEW q \in Jobs, SetKey(q)
      PROVE  Channels'
  BY <1>5 DEF SetKey, processVars, dbVars
<1>6. ASSUME NEW q \in Jobs, Push(q)
      PROVE  Channels'
  BY <1>6 DEF Push, processVars, dbVars
<1>7. ASSUME NEW q \in Reports, NEW r \in Replicas, NEW j \in Jobs, NEW e \in Events,
             ArriveReport(q, r, j, e)
      PROVE  Channels'
  BY <1>7 DEF ArriveReport, Arrive, processVars, dbVars, redisVars
<1>8. ASSUME NEW q \in Requests, NEW r \in Replicas, NEW j \in Jobs,
             ArriveRequest(q, r, j)
      PROVE  Channels'
  BY <1>8 DEF ArriveRequest, Arrive, processVars, dbVars, redisVars
<1>9. ASSUME NEW q \in Requests, CacheHit(q)
      PROVE  Channels'
  BY <1>9 DEF CacheHit, processVars, dbVars, redisVars
<1>10. ASSUME NEW q \in Requests, CacheMiss(q)
      PROVE  Channels'
  BY <1>10 DEF CacheMiss, processVars, dbVars, redisVars
<1>11. ASSUME NEW q \in Requests, ReadRow(q)
      PROVE  Channels'
  BY <1>11 DEF Executes, ReadRow, processVars, dbVars, redisVars
<1>12. ASSUME NEW q \in Requests, CacheRow(q)
      PROVE  Channels'
  BY <1>12 DEF Bound, Submitting, Holding, Cached, CacheRow, dbVars, redisVars, Store
<1>13. ASSUME NEW q \in Requests, Unknown(q)
      PROVE  Channels'
  BY <1>13 DEF Executes, Unknown, processVars, dbVars, redisVars
<1>14. ASSUME NEW q \in Requests, MutateReport(q)
      PROVE  Channels'
  <2>1. proc[q] \in Replicas /\ target[q] \in Jobs /\ mem[proc[q]][target[q]] # None
    BY ONLY <1>0, <1>14 DEF MutateReport, Cached
  <2> HIDE DEF Shape, TypeOK, Channels
  <2> QED
    BY <1>14, <2>1, StoreChannels DEF MutateReport
<1>15. ASSUME NEW q \in Requests, MutateCancel(q)
      PROVE  Channels'
  <2>1. proc[q] \in Replicas /\ target[q] \in Jobs /\ mem[proc[q]][target[q]] # None
    BY ONLY <1>0, <1>15 DEF MutateCancel, Cached
  <2> HIDE DEF Shape, TypeOK, Channels
  <2> QED
    BY <1>15, <2>1, StoreChannels DEF MutateCancel
<1>16. ASSUME NEW q \in Requests, UpdateRow(q)
      PROVE  Channels'
  BY <1>16 DEF Executes, UpdateRow, processVars, redisVars
<1>17. ASSUME NEW q \in Requests, RecordEvent(q)
      PROVE  Channels'
  BY <1>17 DEF Executes, RecordEvent, processVars, redisVars
<1>18. ASSUME NEW q \in Requests, Refresh(q)
      PROVE  Channels'
  <2>1. proc[q] \in Replicas /\ target[q] \in Jobs /\ mem[proc[q]][target[q]] # None
    BY ONLY <1>0, <1>18 DEF Refresh, Cached
  <2> HIDE DEF Shape, TypeOK, Channels
  <2> QED
    BY <1>18, <2>1, StoreChannels DEF Refresh
<1>19. ASSUME NEW q \in Requests, Publish(q)
      PROVE  Channels'
  BY <1>19 DEF Publish, dbVars, redisVars
<1>20. ASSUME NEW q \in Requests, Respond(q)
      PROVE  Channels'
  BY <1>20 DEF Respond, processVars, dbVars, redisVars
<1>21. ASSUME NEW q \in Requests, Subscribe(q)
      PROVE  Channels'
  BY <1>21 DEF Subscribe, processVars, dbVars, redisVars
<1>22. ASSUME NEW q \in Requests, StreamSend(q)
      PROVE  Channels'
  BY <1>22 DEF StreamSend, processVars, dbVars, redisVars
<1>23. ASSUME NEW q \in Requests, StreamEnd(q)
      PROVE  Channels'
  BY <1>23 DEF StreamEnd, processVars, dbVars, redisVars
<1>24. ASSUME NEW q \in Requests, Abandon(q)
      PROVE  Channels'
  BY <1>24 DEF Abandon, processVars, dbVars, redisVars
<1>25. ASSUME NEW q \in Requests, CancelIgnoresDbError(q)
      PROVE  Channels'
  BY <1>25 DEF CancelIgnoresDbError, processVars, dbVars, redisVars
<1>26. ASSUME NEW r \in Replicas, Restart(r)
      PROVE  Channels'
  BY <1>26 DEF Restart, dbVars, redisVars
<1>27. ASSUME NEW k \in Queues, Dequeue(k)
      PROVE  Channels'
  BY <1>27 DEF Dequeue, processVars, handlerVars, dbVars
<1>28. ASSUME UNCHANGED vars
      PROVE  Channels'
  BY <1>28 DEF vars, processVars, handlerVars, dbVars, redisVars
<1> HIDE DEF Shape, TypeOK, Bound, Channels
<1> QED
  BY <1>1, <1>2, <1>3, <1>4, <1>5, <1>6, <1>7, <1>8, <1>9, <1>10, <1>11,
     <1>12, <1>13, <1>14, <1>15, <1>16, <1>17, <1>18, <1>19, <1>20, <1>21,
     <1>22, <1>23, <1>24, <1>25, <1>26, <1>27, <1>28, RefusedFails
     DEF RestartNext, Next, Arrival, Progress, Submission, Handler, Lookup, Change, Showing,
         Failure, Delivery

(* The service starts with empty tables and no handler.                    *)
LEMMA ShapeInit == Init => Shape
BY ConstantsTyped, EndpointsDisjoint
   DEF Init, Shape, TypeOK, Bound, Channels, Requests, Locations, Answers, Submitting, Holding,
       Cached

(* Shape is inductive.                                                     *)
LEMMA ShapeStep == Shape /\ [RestartNext]_vars => Shape'
BY TypeStep, BoundStep, ChannelsStep DEF Shape

(* Over any number of restarts, failures, replicas and requests, a handler *)
(* that is suspended holds what it will use.                               *)
THEOREM ShapeInvariant == Spec => []Shape
BY ShapeInit, ShapeStep, PTL DEF Spec, RestartNext

(* TypeOK for every value of the constants: in particular every status     *)
(* ever stored or answered is one of the five of JobStatus.                *)
THEOREM TypeCorrect == Spec => []TypeOK
BY ShapeInvariant, PTL DEF Shape

=============================================================================
