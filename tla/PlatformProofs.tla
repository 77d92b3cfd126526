--------------------------- MODULE PlatformProofs ---------------------------
(***************************************************************************)
(* Proofs about Platform.  Over every accident and every operation of the  *)
(* admin service, for any number of replicas and workers: a job is with    *)
(* one runner, and a deleted row stays deleted.  Without accidents, and    *)
(* with one orchestrator process: a job that its runner could read and     *)
(* report on, and is through with, has ended, for good.                    *)
(***************************************************************************)
EXTENDS Platform, OrchestratorSafety, OrchestratorTable

-----------------------------------------------------------------------------
(* Over accidents and the admin service.                                   *)

WorkersTyped ==
  /\ stage \in [Workers -> Stages]
  /\ held \in [Workers -> Jobs \cup {None}]
  /\ call \in [Workers -> Reports \cup {None}]
  /\ client \in {"none", "works", "raises"} /\ odd \subseteq Jobs

(* A worker that holds a job has popped it, and no two hold the same.      *)
Apart ==
  /\ \A w \in Workers : /\ held[w] # None <=> stage[w] # "poll"
                        /\ held[w] # None => delivered[held[w]] > 0
  /\ \A w, v \in Workers : held[w] = held[v] /\ held[w] # None => w = v

Runs == Shape /\ Once /\ WorkersTyped /\ Apart

HostileNext == PlatformNext \/ Accident \/ Admin

(* Whatever does not work behind its back is a step of the orchestrator,   *)
(* or none.                                                                *)
LEMMA ServiceSteps ==
  ASSUME WorkersTyped, Apart, PlatformNext \/ Accident
  PROVE  [RestartNext]_vars
<1>1. CASE Service
  BY <1>1 DEF Service, Callers, RestartNext, Next, Arrival, Requests
<1>2. ASSUME NEW w \in Workers, Runner(w)
      PROVE  [RestartNext]_vars
  <2>1. CASE Pop(w)
    BY <2>1 DEF Pop, RestartNext, Next, Delivery
  <2>2. CASE Post(w)
    <3>1. Body(stage[w]) \in Events
      BY RunnersPost DEF Body
    <3>2. PICK q \in Reports, r \in Replicas : ArriveReport(q, r, held[w], Body(stage[w]))
      BY <2>2 DEF Post
    <3>3. held[w] \in Jobs
      BY <2>2 DEF Post, Reporting, WorkersTyped, Apart
    <3> QED
      BY <3>1, <3>2, <3>3 DEF RestartNext, Next, Arrival
  <2> QED
    BY <1>2, <2>1, <2>2 DEF Runner, Fetch, BodyRaises, ClientRaises, Unsent, Answered, Generate
<1>3. CASE Accident
  BY <1>3 DEF Accident, RestartNext, Next, PostLost, Crash
<1> QED
  BY <1>1, <1>2, <1>3 DEF PlatformNext


(* What the admin service does: lists, payloads and rows go, and nothing   *)
(* else changes.                                                           *)
LEMMA AdminSteps ==
  ASSUME Shape, Admin
  PROVE  /\ UNCHANGED <<processVars, handlerVars, idType, delivered, clock, workerVars>>
         /\ rows' \in [Jobs -> Data \cup {None}] /\ audit' \subseteq audit /\ keys' \subseteq keys
         /\ \A j \in Jobs : rows'[j] \in {rows[j], None}
         /\ queue' \in [Queues -> Seq(Jobs)]
         /\ \A k \in Queues : queue'[k] \in {queue[k], <<>>}
<1> USE DEF Shape, TypeOK
<1>1. ASSUME NEW k \in Queues, ClearQueue(k)
      PROVE  /\ UNCHANGED <<processVars, handlerVars, dbVars, keys, delivered, clock, workerVars>>
             /\ queue' \in [Queues -> Seq(Jobs)]
             /\ \A h \in Queues : queue'[h] \in {queue[h], <<>>}
  BY <1>1 DEF ClearQueue
<1>2. ASSUME WipeRedis
      PROVE  /\ UNCHANGED <<processVars, handlerVars, dbVars, delivered, clock, workerVars>>
             /\ keys' \subseteq keys
             /\ queue' \in [Queues -> Seq(Jobs)]
             /\ \A h \in Queues : queue'[h] \in {queue[h], <<>>}
  BY <1>2 DEF WipeRedis
<1>3. ASSUME NEW j \in Jobs, DeleteJob(j)
      PROVE  /\ UNCHANGED <<processVars, handlerVars, idType, redisVars, clock, workerVars>>
             /\ rows' \in [Jobs -> Data \cup {None}] /\ audit' \subseteq audit
             /\ \A k \in Jobs : rows'[k] \in {rows[k], None}
  BY <1>3 DEF DeleteJob
<1>4. ASSUME NEW j \in Jobs, KeyExpires(j)
      PROVE  /\ UNCHANGED <<processVars, handlerVars, dbVars, queue, delivered, clock, workerVars>>
             /\ keys' \subseteq keys
  BY <1>4 DEF KeyExpires
<1> QED
  BY <1>1, <1>2, <1>3, <1>4 DEF Admin, dbVars, redisVars

(* The shape of the orchestrator does not depend on what they take away.   *)
LEMMA AdminShape ==
  ASSUME Shape, Admin
  PROVE  Shape'
<1>1. /\ UNCHANGED <<mem, notifier, watch, pc, proc, target, event, local, sender, answer, idType, delivered, clock>>
      /\ rows' \in [Jobs -> Data \cup {None}] /\ audit' \subseteq audit /\ keys' \subseteq keys
      /\ queue' \in [Queues -> Seq(Jobs)]
  BY AdminSteps DEF processVars, handlerVars
<1>2. TypeOK'
  BY <1>1 DEF Shape, TypeOK
<1>3. Bound' /\ Channels'
  BY <1>1 DEF Shape, Bound, Channels
<1> QED
  BY <1>2, <1>3 DEF Shape

(* Nor does the one place of a job: a list that is deleted has none.       *)
LEMMA AdminOnce ==
  ASSUME Shape, Once, Admin
  PROVE  Once'
<1>1. /\ UNCHANGED <<pc, delivered>>
      /\ \A k \in Queues : queue'[k] \in {queue[k], <<>>}
  BY AdminSteps DEF handlerVars
<1>2. ASSUME NEW j, NEW k, NEW i, Place(j, k, i)'
      PROVE  Place(j, k, i)
  <2>1. k \in Queues /\ i \in DOMAIN queue'[k] /\ queue'[k][i] = j
    BY <1>2 DEF Place
  <2>2. queue'[k] = queue[k]
    BY <1>1, <2>1
  <2> QED
    BY <2>1, <2>2 DEF Place
<1>3. ASSUME NEW j \in Jobs, Queued(j)'
      PROVE  Queued(j)
  <2>1. delivered[j] > 0 \/ \E k, i : Place(j, k, i)'
    BY <1>1, <1>3 DEF Queued, Place
  <2> QED
    BY <1>2, <2>1 DEF Queued, Place
<1> QED
  BY <1>1, <1>2, <1>3 DEF Once, Submitting

(* Deliveries are counted and never taken back.                            *)
LEMMA DeliveredGrows ==
  ASSUME Shape, [RestartNext]_vars
  PROVE  \A j \in Jobs : delivered'[j] \in Nat /\ delivered[j] \in Nat /\ delivered'[j] >= delivered[j]
<1>1. ASSUME NEW k \in Queues, Dequeue(k), NEW j \in Jobs
      PROVE  delivered'[j] \in Nat /\ delivered[j] \in Nat /\ delivered'[j] >= delivered[j]
  <2>1. Head(queue[k]) \in Jobs
    BY <1>1, DequeuePlaces
  <2>2. PICK h \in Jobs : delivered' = [delivered EXCEPT ![h] = delivered[h] + 1]
    BY <1>1, <2>1 DEF Dequeue
  <2> QED
    BY <2>2 DEF Shape, TypeOK
<1>2. CASE UNCHANGED delivered
  BY <1>2 DEF Shape, TypeOK
<1>3. (\E k \in Queues : Dequeue(k)) \/ UNCHANGED delivered
  <2>1. CASE Arrival \/ Failure \/ (\E r \in Replicas : Restart(r)) \/ UNCHANGED vars
    BY <2>1 DEF Arrival, BeginSubmit, ArriveReport, ArriveRequest, Arrive,
                Failure, Abandon, CancelIgnoresDbError, Restart, redisVars, vars
  <2>2. ASSUME NEW q \in Jobs, Submission(q)
        PROVE  UNCHANGED delivered
    BY <2>2 DEF Executes, Submission, InsertJob, InsertRow, InsertEvent, SetKey, Push, redisVars
  <2>3. ASSUME NEW q \in Requests, Handler(q)
        PROVE  UNCHANGED delivered
    <3>1. CASE Lookup(q)
      BY <3>1 DEF Executes, Lookup, CacheHit, CacheMiss, ReadRow, CacheRow, Unknown, redisVars
    <3>2. CASE Change(q)
      BY <3>2 DEF Executes, Change, MutateReport, MutateCancel, UpdateRow, RecordEvent, redisVars
    <3>3. CASE Showing(q) \/ Respond(q)
      BY <3>3 DEF Showing, Refresh, Publish, Respond, Subscribe, StreamSend, StreamEnd, redisVars
    <3>4. CASE Refused(q)
      BY <3>4, RefusedFails DEF Abandon, CancelIgnoresDbError, redisVars
    <3> QED
      BY <2>3, <3>1, <3>2, <3>3, <3>4 DEF Handler
  <2> QED
    BY <2>1, <2>2, <2>3 DEF RestartNext, Next, Progress, Delivery
<1> QED
  BY <1>1, <1>2, <1>3


(* A worker takes an id that no other holds: it was in a list, and so had  *)
(* not been handed out.                                                    *)
LEMMA PopApart ==
  ASSUME Runs, NEW w \in Workers, Pop(w)
  PROVE  /\ WorkersTyped' /\ Apart' /\ stage'[w] = "fetch" /\ held'[w] # None /\ call' = call
         /\ delivered[held'[w]] = 0 /\ UNCHANGED inputs
         /\ \A v \in Workers : v # w => stage'[v] = stage[v] /\ held'[v] = held[v]
<1> USE ConstantsTyped
<1>1. PICK k \in Queues : held' = [held EXCEPT ![w] = Head(queue[k])] /\ Dequeue(k)
  BY DEF Pop
<1> DEFINE j == Head(queue[k])
<1>2. j \in Jobs /\ Place(j, k, 1)
  BY <1>1, DequeuePlaces DEF Runs
<1>3. delivered[j] = 0 /\ delivered' = [delivered EXCEPT ![j] = delivered[j] + 1]
  BY <1>1, <1>2 DEF Runs, Once, Dequeue
<1> HIDE DEF j
<1>4. held' = [held EXCEPT ![w] = j] /\ stage' = [stage EXCEPT ![w] = "fetch"] /\ call' = call
      /\ UNCHANGED inputs
  BY <1>1 DEF j, Pop
<1>5. WorkersTyped'
  BY <1>2, <1>4 DEF Runs, WorkersTyped, Stages, inputs
<1>6. /\ stage'[w] = "fetch" /\ held'[w] = j /\ j # None
      /\ \A v \in Workers : v # w => stage'[v] = stage[v] /\ held'[v] = held[v]
  BY <1>2, <1>4 DEF Runs, WorkersTyped
<1>7. /\ delivered'[j] = 1
      /\ \A i \in Jobs : i # j => delivered'[i] = delivered[i]
  BY <1>2, <1>3 DEF Runs, Shape, TypeOK
<1>8. \A v \in Workers : held[v] # None => held[v] # j /\ held[v] \in Jobs
  BY <1>3 DEF Runs, Apart, WorkersTyped
<1>9. Apart'
  <2>1. ASSUME NEW v \in Workers
        PROVE  /\ held'[v] # None <=> stage'[v] # "poll"
               /\ held'[v] # None => delivered'[held'[v]] > 0
    BY <1>6, <1>7, <1>8 DEF Runs, Apart
  <2>2. ASSUME NEW u \in Workers, NEW v \in Workers, held'[u] = held'[v], held'[u] # None
        PROVE  u = v
    BY <1>6, <1>8, <2>2 DEF Runs, Apart
  <2> QED
    BY <2>1, <2>2 DEF Apart
<1> QED
  BY <1>3, <1>4, <1>5, <1>6, <1>9

(* The other steps of a worker keep what it holds, or let it go.           *)
LEMMA WorkersApart ==
  ASSUME Runs, [HostileNext]_platformVars
  PROVE  WorkersTyped' /\ Apart'
<1> USE ConstantsTyped
<1>1. \A j \in Jobs : delivered[j] > 0 => delivered'[j] > 0
  <2>1. CASE Admin
    BY <2>1, AdminSteps DEF Runs, Shape, TypeOK
  <2>2. CASE PlatformNext \/ Accident
    <3>1. [RestartNext]_vars
      BY <2>2, ServiceSteps DEF Runs
    <3>2. \A j \in Jobs : delivered'[j] \in Nat /\ delivered[j] \in Nat /\ delivered'[j] >= delivered[j]
      BY <3>1, DeliveredGrows DEF Runs
    <3> QED
      BY <3>2
  <2> QED
    BY <2>1, <2>2 DEF HostileNext, platformVars, vars, redisVars
<1>2. ASSUME NEW w \in Workers, NEW s \in Stages, NEW h \in {held[w], None},
             NEW c \in Reports \cup {None},
             stage' = [stage EXCEPT ![w] = s], held' = [held EXCEPT ![w] = h],
             call' = [call EXCEPT ![w] = c], h # None <=> s # "poll", UNCHANGED inputs
      PROVE  WorkersTyped' /\ Apart'
  <2>1. WorkersTyped'
    BY <1>2 DEF Runs, WorkersTyped, inputs
  <2>2. /\ stage'[w] = s /\ held'[w] = h
        /\ \A v \in Workers : v # w => stage'[v] = stage[v] /\ held'[v] = held[v]
        /\ \A v \in Workers : held[v] # None => held[v] \in Jobs
    BY <1>2 DEF Runs, WorkersTyped
  <2> QED
    BY <1>1, <1>2, <2>1, <2>2 DEF Runs, Apart
<1>3. ASSUME UNCHANGED workerVars
      PROVE  WorkersTyped' /\ Apart'
  BY <1>1, <1>3 DEF workerVars, inputs, Runs, WorkersTyped, Apart
<1>4. ASSUME NEW w \in Workers, Pop(w)
      PROVE  WorkersTyped' /\ Apart'
  BY <1>4, PopApart
<1>5. \A w \in Workers : /\ held[w] \in Jobs \cup {None} /\ stage[w] \in Stages /\ call[w] \in Reports \cup {None}
                         /\ stage[w] # "poll" => held[w] # None
                         /\ stage = [stage EXCEPT ![w] = stage[w]] /\ held = [held EXCEPT ![w] = held[w]]
                         /\ call = [call EXCEPT ![w] = call[w]]
  BY DEF Runs, WorkersTyped, Apart
<1>6. ASSUME NEW w \in Workers, Fetch(w) \/ Generate(w)
      PROVE  WorkersTyped' /\ Apart'
  <2>1. PICK s \in Stages \ {"poll"} : stage' = [stage EXCEPT ![w] = s]
    BY <1>6 DEF Fetch, Generate, Stages
  <2>2. held' = held /\ call' = call /\ held[w] # None /\ UNCHANGED inputs
    BY <1>5, <1>6 DEF Fetch, Generate
  <2> QED
    BY <1>2, <1>5, <2>1, <2>2
<1>7. ASSUME NEW w \in Workers, Post(w)
      PROVE  WorkersTyped' /\ Apart'
  <2>1. PICK q \in Reports : call' = [call EXCEPT ![w] = q]
    BY <1>7 DEF Post
  <2>2. held' = held /\ stage' = stage /\ held[w] # None /\ stage[w] # "poll" /\ UNCHANGED inputs
    BY <1>5, <1>7 DEF Post, Reporting
  <2> QED
    BY <1>2, <1>5, <2>1, <2>2
<1>8. ASSUME NEW w \in Workers, MoveOn(w), stage[w] # "poll"
      PROVE  WorkersTyped' /\ Apart'
  <2>1. After(stage[w]) \in {"generate", "poll"} /\ held[w] # None
    BY <1>5, <1>8 DEF After
  <2>2. /\ stage' = [stage EXCEPT ![w] = After(stage[w])]
        /\ held' = [held EXCEPT ![w] = IF After(stage[w]) = "poll" THEN None ELSE held[w]]
        /\ call' = [call EXCEPT ![w] = None] /\ UNCHANGED inputs
    BY <1>8 DEF MoveOn
  <2> QED
    BY <1>2, <2>1, <2>2 DEF Stages
<1>9. ASSUME NEW w \in Workers, PostLost(w) \/ Unsent(w) \/ (Answered(w) /\ stage[w] # "poll")
      PROVE  WorkersTyped' /\ Apart'
  BY <1>8, <1>9 DEF PostLost, Unsent, Reporting, Answered
<1>10. ASSUME NEW w \in Workers, Crash(w) \/ BodyRaises(w) \/ ClientRaises(w)
       PROVE  WorkersTyped' /\ Apart'
  BY <1>2, <1>10 DEF Crash, BodyRaises, ClientRaises, LetGo, Stages
<1>11. ASSUME NEW w \in Workers, Answered(w), stage[w] = "poll"
       PROVE  WorkersTyped' /\ Apart'
  <2>1. After(stage[w]) = "poll"
    BY <1>11 DEF After
  <2>2. /\ stage' = [stage EXCEPT ![w] = "poll"]
        /\ held' = [held EXCEPT ![w] = None]
        /\ call' = [call EXCEPT ![w] = None] /\ UNCHANGED inputs
    BY <1>11, <2>1 DEF Answered, MoveOn
  <2> QED
    BY <1>2, <2>2 DEF Stages
<1>12. CASE Admin
  BY <1>3, <1>12, AdminSteps DEF Runs
<1> QED
  BY <1>3, <1>4, <1>6, <1>7, <1>9, <1>10, <1>11, <1>12
     DEF HostileNext, PlatformNext, Service, Accident, Runner, platformVars

(* Runs is an invariant of the platform, whatever happens.                 *)
LEMMA RunsStep == Runs /\ [HostileNext]_platformVars => Runs'
<1> SUFFICES ASSUME Runs, [HostileNext]_platformVars
             PROVE  Runs'
  OBVIOUS
<1>1. CASE Admin
  BY <1>1, AdminShape, AdminOnce, WorkersApart DEF Runs
<1>2. CASE PlatformNext \/ Accident \/ UNCHANGED platformVars
  <2>1. [RestartNext]_vars
    BY <1>2, ServiceSteps DEF Runs, platformVars
  <2> QED
    BY <2>1, ShapeStep, OnceStep, WorkersApart DEF Runs
<1> QED
  BY <1>1, <1>2 DEF HostileNext

(* It holds before anybody has come.                                       *)
LEMMA RunsInit == PlatformInit => Runs
<1>1. PlatformInit => WorkersTyped /\ Apart
  BY DEF PlatformInit, WorkersTyped, Apart, Stages
<1> QED
  BY <1>1, ShapeInit, OnceInit DEF PlatformInit, Runs

(* Hence always.                                                           *)
LEMMA RunsAlways == HostileSpec => []Runs
BY RunsInit, RunsStep, PTL DEF HostileSpec, HostileNext

(* The reliable platform is one of those.                                  *)
LEMMA ReliableIsHostile == ReliableSpec => HostileSpec
<1>1. [PlatformNext]_platformVars => [PlatformNext \/ Accident \/ Admin]_platformVars
  OBVIOUS
<1> QED
  BY <1>1, PTL DEF ReliableSpec, HostileSpec

(* The variables keep their types, over any accident.                      *)
THEOREM PlatformTypeCorrect == HostileSpec => []PlatformTypeOK
<1>1. Runs => PlatformTypeOK
  BY DEF Runs, Shape, WorkersTyped, PlatformTypeOK
<1> QED
  BY <1>1, RunsAlways, PTL

(* A model never runs twice for one job: BLPOP hands an id to one worker,  *)
(* and it is in no list then, whatever fails.                              *)
THEOREM OneRunnerCorrect == HostileSpec => []OneRunner
<1>1. Runs => OneRunner
  <2>1. ASSUME Runs, NEW w \in Workers, held[w] # None
        PROVE  InList(held[w]) = {}
    <3>1. held[w] \in Jobs /\ delivered[held[w]] > 0
      BY <2>1 DEF Runs, WorkersTyped, Apart
    <3>2. \A k, i : ~Place(held[w], k, i)
      BY <2>1, <3>1 DEF Runs, Once
    <3> QED
      BY <3>2 DEF InList, Place
  <2> QED
    BY <2>1 DEF OneRunner, Runs, Apart
<1> QED
  BY <1>1, RunsAlways, PTL

(* Only create_job and update_job_row write rows.                          *)
LEMMA RowsWritten ==
  ASSUME [RestartNext]_vars
  PROVE  \/ UNCHANGED rows
         \/ \E q \in Jobs : InsertRow(q)
         \/ \E q \in Requests : UpdateRow(q)
<1>1. CASE Arrival \/ Delivery \/ Failure \/ (\E r \in Replicas : Restart(r)) \/ UNCHANGED vars
  BY <1>1 DEF Arrival, BeginSubmit, ArriveReport, ArriveRequest, Arrive, Delivery, Dequeue,
              Failure, Abandon, CancelIgnoresDbError, Restart, dbVars, vars
<1>2. ASSUME NEW q \in Jobs, Submission(q)
      PROVE  UNCHANGED rows \/ InsertRow(q)
  BY <1>2 DEF Submission, InsertJob, InsertEvent, SetKey, Push, dbVars
<1>3. ASSUME NEW q \in Requests, Handler(q)
      PROVE  UNCHANGED rows \/ UpdateRow(q)
  <2>1. CASE Lookup(q)
    BY <2>1 DEF Lookup, CacheHit, CacheMiss, ReadRow, CacheRow, Unknown, dbVars
  <2>2. CASE Change(q)
    BY <2>2 DEF Change, MutateReport, MutateCancel, RecordEvent, dbVars
  <2>3. CASE Showing(q) \/ Respond(q)
    BY <2>3 DEF Showing, Refresh, Publish, Respond, Subscribe, StreamSend, StreamEnd, dbVars
  <2>4. CASE Refused(q)
    BY <2>4, RefusedFails DEF Abandon, CancelIgnoresDbError, dbVars
  <2> QED
    BY <1>3, <2>1, <2>2, <2>3, <2>4 DEF Handler
<1> QED
  BY <1>1, <1>2, <1>3 DEF RestartNext, Next, Progress

(* A row that is gone is not written back by whoever still works on the    *)
(* job: only create_job inserts, and update_job_row updates what is there. *)
THEOREM DeletedCorrect == HostileSpec => DeletedStaysDeleted
<1>1. ASSUME Runs, [HostileNext]_platformVars, NEW j \in Jobs, Disclosed(j), rows[j] = None
      PROVE  rows'[j] = None
  <2>1. CASE Admin
    BY <1>1, <2>1, AdminSteps DEF Runs
  <2>2. CASE PlatformNext \/ Accident \/ UNCHANGED platformVars
    <3>1. [RestartNext]_vars
      BY <1>1, <2>2, ServiceSteps DEF Runs, platformVars
    <3>2. ASSUME NEW i \in Jobs, InsertRow(i)
          PROVE  rows'[j] = None
      BY <1>1, <3>2 DEF Executes, InsertRow, Disclosed, Runs, Shape, TypeOK
    <3>3. ASSUME NEW q \in Requests, UpdateRow(q)
          PROVE  rows'[j] = None
      BY <1>1, <3>3 DEF Executes, UpdateRow, Runs, Shape, TypeOK
    <3>4. \/ UNCHANGED rows
          \/ \E i \in Jobs : InsertRow(i)
          \/ \E q \in Requests : UpdateRow(q)
      BY <3>1, RowsWritten
    <3> QED
      BY <1>1, <3>2, <3>3, <3>4
  <2> QED
    BY <1>1, <2>1, <2>2 DEF HostileNext
<1>2. Runs /\ [HostileNext]_platformVars =>
        [\A j \in Jobs : Disclosed(j) /\ rows[j] = None => rows'[j] = None]_platformVars
  BY <1>1
<1> QED
  BY <1>2, RunsAlways, PTL DEF HostileSpec, HostileNext, DeletedStaysDeleted


-----------------------------------------------------------------------------
(* Without accidents, and with one orchestrator process.                   *)

(* The process.                                                            *)
Primary == CHOOSE r \in Replicas : TRUE

(* A submission past its insertion, and a row, has the record that         *)
(* create_job made; so no look-up misses a job that has a row, and nothing *)
(* is ever cached from one.                                                *)
Underway == Submitting \ {"insert"}

Alone ==
  /\ Fits
  /\ \A j \in Jobs : pc[j] \in Underway \/ rows[j] # None => Own(Primary, j)
  /\ \A q \in Requests : pc[q] # "cacheRow"

(* Where the handler of a report is, once the runner has sent it; and      *)
(* before it has changed the record.                                       *)
Sent == {"check", "mutate", "updateRow", "record", "refresh", "publish", "respond", "done"}
Unsaid == {"check", "mutate"}

(* The worker has said its last word on the job, and the record has it.    *)
LastSaid(w) == call[w] # None /\ stage[w] # "start" /\ pc[call[w]] \notin Unsaid

(* A worker waits for the report of its stage; the job it holds has ended  *)
(* just when its last report has been taken.                               *)
Waits(w) ==
  /\ call[w] # None => /\ Reporting(w) /\ target[call[w]] = held[w]
                       /\ event[call[w]] = Body(stage[w])
                       /\ pc[call[w]] \in Sent /\ client = "works"
  /\ held[w] # None => (LastSaid(w) <=> Ended(mem[Primary][held[w]]))

(* Every report is some worker's; every job in a list has its record; and  *)
(* a job that was handed out has a worker, or has ended.                   *)
Attended ==
  /\ \A w \in Workers : Waits(w)
  /\ \A q \in Reports : pc[q] \notin {"idle", "done"} => \E w \in Workers : call[w] = q
  /\ \A j \in Jobs :
       /\ Queued(j) => mem[Primary][j] # None
       /\ Ended(mem[Primary][j]) => delivered[j] > 0
       /\ Readable(j) /\ delivered[j] > 0 => Ended(mem[Primary][j]) \/ \E w \in Workers : held[w] = j

Reliable == Runs /\ Alone /\ Attended


(* What the runner can read and report does not change on the way.         *)
LEMMA ReadableSame ==
  ASSUME [PlatformNext]_platformVars, NEW j \in Jobs
  PROVE  Readable(j)' <=> Readable(j)
<1>1. ASSUME NEW w \in Workers, Runner(w)
      PROVE  UNCHANGED inputs
  BY <1>1 DEF Runner, Pop, Fetch, BodyRaises, Post, ClientRaises, Unsent, Answered, Generate,
              LetGo, MoveOn
<1>2. UNCHANGED inputs
  BY <1>1 DEF PlatformNext, Service, platformVars, workerVars
<1> QED
  BY <1>2 DEF inputs, Readable

(* No accident, and the step is one of the orchestrator between restarts.  *)
LEMMA ReliableSteps ==
  ASSUME WorkersTyped, Apart, [PlatformNext]_platformVars
  PROVE  [Next]_vars
<1>1. CASE Service
  BY <1>1 DEF Service, Callers, Next, Arrival, Requests
<1>2. ASSUME NEW w \in Workers, Runner(w)
      PROVE  [Next]_vars
  <2>1. CASE Pop(w)
    BY <2>1 DEF Pop, Next, Delivery
  <2>2. CASE Post(w)
    <3>1. Body(stage[w]) \in Events
      BY RunnersPost DEF Body
    <3>2. PICK q \in Reports, r \in Replicas : ArriveReport(q, r, held[w], Body(stage[w]))
      BY <2>2 DEF Post
    <3>3. held[w] \in Jobs
      BY <2>2 DEF Post, Reporting, WorkersTyped, Apart
    <3> QED
      BY <3>1, <3>2, <3>3 DEF Next, Arrival
  <2> QED
    BY <1>2, <2>1, <2>2 DEF Runner, Fetch, BodyRaises, ClientRaises, Unsent, Answered, Generate
<1> QED
  BY <1>1, <1>2 DEF PlatformNext, platformVars

(* A handler comes to a submission's statements by the insertion alone,    *)
(* and to the caching of a row by reading it.                              *)
LEMMA PlaceSteps ==
  ASSUME Shape, [Next]_vars, NEW p \in Requests
  PROVE  /\ pc'[p] \in Underway => pc[p] \in Underway \/ (p \in Jobs /\ InsertJob(p))
         /\ pc'[p] = "cacheRow" => pc[p] = "cacheRow" \/ ReadRow(p)
<1> DEFINE Good == /\ pc'[p] \in Underway => pc[p] \in Underway \/ (p \in Jobs /\ InsertJob(p))
                   /\ pc'[p] = "cacheRow" => pc[p] = "cacheRow" \/ ReadRow(p)
<1> USE DEF Goto
<1>0. pc \in [Requests -> Locations]
  BY DEF Shape, TypeOK
<1>1. ASSUME NEW q \in Requests, NEW l, l \notin Underway, l # "cacheRow", pc' = [pc EXCEPT ![q] = l]
      PROVE  Good
  BY <1>0, <1>1
<1>2. ASSUME NEW q \in Jobs, NEW r \in Replicas, NEW k \in Queues, BeginSubmit(q, r, k)
      PROVE  Good
  BY <1>1, <1>2 DEF BeginSubmit, Requests, Underway
<1>3. ASSUME NEW q \in Jobs, InsertJob(q)
      PROVE  Good
  <2>1. \E l : l # "cacheRow" /\ pc' = [pc EXCEPT ![q] = l]
    BY <1>3 DEF InsertJob
  <2> QED
    BY <1>0, <1>3, <2>1 DEF Requests
<1>4. ASSUME NEW q \in Jobs, InsertRow(q) \/ InsertEvent(q) \/ SetKey(q) \/ Push(q)
      PROVE  Good
  <2>1. pc[q] \in Underway /\ \E l : l # "cacheRow" /\ pc' = [pc EXCEPT ![q] = l]
    BY <1>4 DEF Executes, InsertRow, InsertEvent, SetKey, Push, Underway, Submitting
  <2> QED
    BY <1>0, <2>1 DEF Requests
<1>5. ASSUME NEW q \in Requests, NEW r \in Replicas, NEW i \in Jobs, Arrive(q, r, i)
      PROVE  Good
  BY <1>1, <1>5 DEF Arrive, Underway, Submitting
<1>6. ASSUME NEW q \in Requests, ReadRow(q)
      PROVE  Good
  <2>1. pc' = [pc EXCEPT ![q] = "cacheRow"]
    BY <1>6 DEF ReadRow
  <2> QED
    BY <1>0, <1>6, <2>1 DEF Underway, Submitting
<1>7. ASSUME NEW q \in Requests, CacheHit(q) \/ CacheMiss(q) \/ CacheRow(q)
      PROVE  Good
  <2>1. \E l \in {"readRow", AfterCached(q)} : pc' = [pc EXCEPT ![q] = l]
    BY <1>7 DEF CacheHit, CacheMiss, CacheRow
  <2> QED
    BY <1>1, <2>1 DEF AfterCached, Underway, Submitting
<1>8. ASSUME NEW q \in Requests,
             Change(q) \/ Refresh(q) \/ Publish(q) \/ Subscribe(q) \/ CancelIgnoresDbError(q)
      PROVE  Good
  <2>1. \E l \in {"updateRow", "refresh", "respond", "record", "publish", "streaming"} :
          pc' = [pc EXCEPT ![q] = l]
    BY <1>8 DEF Executes, Change, MutateReport, MutateCancel, UpdateRow, RecordEvent, Refresh,
                Publish, Subscribe, CancelIgnoresDbError, AfterRecord
  <2> QED
    BY <1>1, <2>1 DEF Underway, Submitting
<1>9. ASSUME NEW q \in Requests, Unknown(q) \/ StreamEnd(q) \/ Abandon(q) \/ Respond(q)
      PROVE  Good
  <2>1. pc' = [pc EXCEPT ![q] = "done"]
    BY <1>9 DEF Unknown, StreamEnd, Abandon, Respond, End
  <2> QED
    BY <1>1, <2>1 DEF Underway, Submitting
<1>10. CASE UNCHANGED pc
  BY <1>10
<1>11. ASSUME NEW q \in Requests, StreamSend(q)
       PROVE  Good
  BY <1>10, <1>11 DEF StreamSend
<1>12. ASSUME NEW k \in Queues, Dequeue(k)
       PROVE  Good
  BY <1>10, <1>12 DEF Dequeue, handlerVars
<1>13. ASSUME UNCHANGED vars
       PROVE  Good
  BY <1>10, <1>13 DEF vars, handlerVars
<1> HIDE DEF Good
<1>14. Good
  BY <1>2, <1>3, <1>4, <1>5, <1>6, <1>7, <1>8, <1>9, <1>11, <1>12, <1>13, RefusedFails
     DEF Next, Arrival, Progress, Submission, Handler, Lookup, Showing, Failure, Delivery,
         ArriveReport, ArriveRequest, Requests
<1> QED
  BY <1>14 DEF Good

(* While the process lives, a record stays the one that create_job made.   *)
LEMMA AloneStep ==
  ASSUME Shape, Alone, Replicas = {Primary}, [Next]_vars
  PROVE  Alone'
<1> USE ConstantsTyped
<1>1. [RestartNext]_vars
  BY DEF RestartNext
<1>2. Fits'
  BY <1>1, FitsStep DEF Alone
<1>3. ASSUME NEW q \in Jobs, InsertJob(q)
      PROVE  Own(Primary, q)' /\ \A j \in Jobs : Own(Primary, j) => Own(Primary, j)'
  <2>1. proc[q] = Primary
    BY <1>3 DEF InsertJob, Shape, Bound, Requests
  <2>2. Put(notifier, notifier', Primary, q, q)
    BY <1>3, <2>1, InsertExtends DEF Alone
  <2> QED
    BY <2>2 DEF Put, Own
<1>4. ASSUME NEW j \in Jobs, Own(Primary, j)
      PROVE  Own(Primary, j)'
  <2>1. UNCHANGED notifier => Own(Primary, j)'
    BY <1>4 DEF Own
  <2>2. \A q \in Requests : ~CacheRow(q)
    BY DEF Alone, CacheRow
  <2> QED
    BY <1>3, <1>4, <2>1, <2>2, LiveSteps DEF MutateReport, MutateCancel, Refresh
<1>5. ASSUME NEW j \in Jobs, pc'[j] \in Underway
      PROVE  Own(Primary, j)'
  BY <1>3, <1>4, <1>5, PlaceSteps DEF Alone, Requests
<1>6. ASSUME NEW j \in Jobs, rows'[j] # None
      PROVE  Own(Primary, j)'
  <2>1. rows[j] # None => Own(Primary, j)'
    BY <1>4 DEF Alone
  <2>2. ASSUME NEW q \in Jobs, InsertRow(q)
        PROVE  Own(Primary, j)'
    <3>1. pc[q] \in Underway
      BY <2>2 DEF InsertRow, Executes, Underway, Submitting
    <3>2. Own(Primary, q)'
      BY <1>4, <3>1 DEF Alone
    <3>3. q # j => rows'[j] = rows[j]
      BY <2>2 DEF InsertRow, Shape, TypeOK
    <3> QED
      BY <1>6, <2>1, <3>2, <3>3
  <2>3. ASSUME NEW q \in Requests, UpdateRow(q)
        PROVE  Own(Primary, j)'
    <3>1. rows'[j] = rows[j] \/ rows[j] # None
      BY <1>6, <2>3 DEF UpdateRow, Shape, TypeOK
    <3> QED
      BY <1>6, <2>1, <3>1
  <2> QED
    BY <1>1, <1>6, <2>1, <2>2, <2>3, RowsWritten
<1>7. ASSUME NEW q \in Requests
      PROVE  pc'[q] # "cacheRow"
  <2>1. ~ReadRow(q)
    <3>1. ASSUME ReadRow(q)
          PROVE  FALSE
      <4>1. pc[q] = "readRow" /\ rows[target[q]] # None /\ target[q] \in Jobs /\ proc[q] = Primary
        BY <3>1 DEF ReadRow, Executes, Shape, Bound
      <4> QED
        BY <4>1 DEF Alone, Fits, RequestFits
    <3> QED
      BY <3>1
  <2> QED
    BY <2>1, PlaceSteps DEF Alone
<1> QED
  BY <1>2, <1>5, <1>6, <1>7 DEF Alone

(* Nobody has come.                                                        *)
LEMMA AloneInit == Init => Alone
<1> SUFFICES ASSUME Init
             PROVE  Alone
  OBVIOUS
<1>1. Fits
  BY FitsInit
<1>2. (\A j \in Jobs : pc[j] = "idle" /\ rows[j] = None) /\ \A q \in Requests : pc[q] = "idle"
  BY DEF Init, Requests
<1> QED
  BY <1>1, <1>2 DEF Alone, Underway, Submitting

(* Only a report changes whether a job has ended, and what came of it.     *)
LEMMA EndedKeeps ==
  ASSUME Shape, Alone, Replicas = {Primary}, [Next]_vars,
         \A q \in Requests : ~MutateReport(q), NEW j \in Jobs
  PROVE  /\ Ended(mem'[Primary][j]) <=> Ended(mem[Primary][j])
         /\ Ended(mem[Primary][j]) => /\ mem'[Primary][j].status = mem[Primary][j].status
                                      /\ mem'[Primary][j].result = mem[Primary][j].result
         /\ mem[Primary][j] # None => mem'[Primary][j] # None
<1> USE ConstantsTyped
<1>1. CASE UNCHANGED mem
  BY <1>1
<1>2. ASSUME NEW q \in Jobs, InsertJob(q)
      PROVE  /\ Ended(mem'[Primary][j]) <=> Ended(mem[Primary][j])
             /\ Ended(mem[Primary][j]) => mem'[Primary][j] = mem[Primary][j]
             /\ mem[Primary][j] # None => mem'[Primary][j] # None
  <2>1. proc[q] = Primary
    BY <1>2 DEF InsertJob, Shape, Bound, Requests
  <2>2. PICK d : mem[Primary][q] = None /\ Extends(Primary, q, d) /\ d.status = "IN_QUEUE"
    BY <1>2, <2>1, InsertExtends DEF Alone
  <2> QED
    BY <2>2 DEF Extends, Put, Ended
<1>3. ASSUME NEW q \in Requests, MutateCancel(q) \/ Refresh(q)
      PROVE  /\ Ended(mem'[Primary][j]) <=> Ended(mem[Primary][j])
             /\ Ended(mem[Primary][j]) => /\ mem'[Primary][j].status = mem[Primary][j].status
                                          /\ mem'[Primary][j].result = mem[Primary][j].result
             /\ mem[Primary][j] # None => mem'[Primary][j] # None
  <2>1. proc[q] = Primary /\ target[q] \in Jobs /\ mem[Primary][target[q]] \in Data
    BY <1>3, CachedHas DEF MutateCancel, Refresh, Cached
  <2>2. PICK d : /\ Extends(Primary, target[q], d)
                 /\ \/ d.status = "CANCELED" /\ Waiting(Primary, target[q])
                    \/ d.status = mem[Primary][target[q]].status /\ d.result = mem[Primary][target[q]].result
    BY <1>3, <2>1, CancelExtends, RefreshExtends
  <2> QED
    BY <2>1, <2>2 DEF Extends, Put, Ended, Waiting
<1>4. \A q \in Requests : ~CacheRow(q)
  BY DEF Alone, CacheRow
<1> QED
  BY <1>1, <1>2, <1>3, <1>4, LiveSteps

(* A report makes of the job what its worker says: under way, or ended.    *)
LEMMA ReportSays ==
  ASSUME Reliable, Replicas = {Primary}, NEW q \in Requests, MutateReport(q)
  PROVE  \E w \in Workers :
           /\ call[w] = q /\ held[w] \in Jobs /\ target[q] = held[w] /\ Reporting(w) /\ ~LastSaid(w)
           /\ Ended(mem'[Primary][held[w]]) <=> stage[w] # "start"
           /\ mem'[Primary][held[w]] # None
           /\ \A k \in Jobs : k # held[w] => mem'[Primary][k] = mem[Primary][k]
<1> USE ConstantsTyped
<1>1. q \in Reports /\ pc[q] = "mutate"
  BY DEF MutateReport
<1>2. PICK w \in Workers : call[w] = q
  BY <1>1 DEF Reliable, Attended
<1>3. /\ Reporting(w) /\ target[q] = held[w] /\ event[q] = Body(stage[w])
      /\ held[w] \in Jobs /\ ~LastSaid(w) /\ q # None
  BY <1>1, <1>2 DEF Reliable, Attended, Waits, Runs, WorkersTyped, Apart, Reporting, LastSaid,
                    Unsaid, Requests
<1>4. proc[q] = Primary
  BY <1>1 DEF Reliable, Runs, Shape, Bound, Requests
<1>5. PICK d : /\ Extends(Primary, held[w], d)
               /\ event[q].kind # "LOG" => d.status = event[q].kind
  BY <1>3, <1>4, ReportExtends DEF Reliable, Runs
<1>6. /\ event[q].kind # "LOG"
      /\ event[q].kind \in {"COMPLETED", "ERROR"} <=> stage[w] # "start"
  BY <1>3 DEF Body, Progressed, Completed, Failed, Reporting
<1>7. Ended(d) <=> stage[w] # "start"
  BY <1>5, <1>6 DEF Extends, Ended
<1> QED
  BY <1>2, <1>3, <1>5, <1>7 DEF Extends, Put

(* How the handlers of reports go on: through the places of Sent, to an    *)
(* answer, and past "mutate" by changing the record only.                  *)
OnTheirWay ==
  \A q \in Reports :
    /\ target'[q] = target[q] /\ event'[q] = event[q]
    /\ pc'[q] = pc[q] \/ (pc[q] \in Sent /\ pc[q] # "done" /\ pc'[q] \in Sent)
    /\ MutateReport(q) \/ (pc[q] \in Unsaid <=> pc'[q] \in Unsaid)
    /\ MutateReport(q) => pc'[q] \notin Unsaid

(* The service takes every report further on its way, or leaves it alone.  *)
LEMMA ReportsOnTheirWay ==
  ASSUME Reliable, Replicas = {Primary}, Service
  PROVE  OnTheirWay
<1> USE EndpointsDisjoint, ConstantsTyped
<1>1. /\ pc \in [Requests -> Locations] /\ Reports \subseteq Requests
      /\ target \in [Requests -> Jobs \cup {None}]
  BY DEF Reliable, Runs, Shape, TypeOK, Requests
<1>2. ASSUME NEW p \in Requests, p \notin Reports, UNCHANGED event,
             \A q \in Requests : q # p => pc'[q] = pc[q] /\ target'[q] = target[q]
      PROVE  OnTheirWay
  <2>1. ASSUME NEW q \in Reports
        PROVE  /\ pc'[q] = pc[q] /\ target'[q] = target[q]
               /\ pc'[q] = "mutate" => ~MutateReport(q)
    <3>1. MutateReport(q) => pc'[q] # "mutate"
      BY <1>1, <2>1 DEF MutateReport, Goto
    <3> QED
      BY <1>1, <1>2, <2>1, <3>1
  <2> QED
    BY <1>2, <2>1 DEF OnTheirWay, MutateReport
<1>3. ASSUME NEW j \in Jobs, NEW r \in Replicas, NEW k \in Queues, BeginSubmit(j, r, k)
      PROVE  OnTheirWay
  BY <1>1, <1>2, <1>3 DEF BeginSubmit, Goto, Requests
<1>4. ASSUME NEW q \in Requests, NEW r \in Replicas, NEW j \in Jobs, ArriveRequest(q, r, j)
      PROVE  OnTheirWay
  BY <1>1, <1>2, <1>4 DEF ArriveRequest, Arrive, Goto
<1>5. ASSUME NEW j \in Jobs, Submission(j)
      PROVE  OnTheirWay
  BY <1>1, <1>2, <1>5 DEF Executes, Submission, InsertJob, InsertRow, InsertEvent, SetKey, Push, Goto, Requests
<1>6. ASSUME NEW q \in Requests, q \notin Reports, Handler(q)
      PROVE  OnTheirWay
  <2>1. CASE Refused(q)
    BY <1>1, <1>2, <1>6, <2>1, RefusedFails DEF Abandon, CancelIgnoresDbError, End, Goto
  <2>2. CASE ~Refused(q)
    BY <1>1, <1>2, <1>6, <2>2
       DEF Executes, Handler, Lookup, Change, Showing, CacheHit, CacheMiss, ReadRow, CacheRow,
           Unknown, End, MutateReport, MutateCancel, UpdateRow, RecordEvent, Refresh, Publish,
           Respond, Subscribe, StreamSend, StreamEnd, Goto
  <2> QED
    BY <2>1, <2>2
<1>7. ASSUME NEW q \in Reports, Handler(q)
      PROVE  OnTheirWay
  <2>1. pc[q] \notin {"idle", "done"}
    <3>1. CASE Refused(q)
      BY <1>7, <3>1, RefusedFails DEF Abandon, CancelIgnoresDbError, Requests
    <3>2. CASE ~Refused(q)
      BY <1>7, <3>2
         DEF Executes, Handler, Lookup, Change, Showing, CacheHit, CacheMiss, ReadRow, CacheRow,
             Unknown, MutateReport, MutateCancel, UpdateRow, RecordEvent, Refresh, Publish, Respond,
             Subscribe, StreamSend, StreamEnd
    <3> QED
      BY <3>1, <3>2
  <2>2. PICK w \in Workers : call[w] = q
    BY <2>1 DEF Reliable, Attended
  <2>3. pc[q] \in Sent /\ target[q] = held[w] /\ held[w] \in Jobs /\ delivered[held[w]] > 0
    BY <1>1, <2>2 DEF Reliable, Attended, Waits, Runs, WorkersTyped, Apart, Reporting, Requests
  <2>4. mem[Primary][target[q]] # None
    BY <2>3 DEF Reliable, Attended, Queued
  <2>5. proc[q] = Primary
    BY <1>1, <2>1 DEF Reliable, Runs, Shape, Bound
  <2>6. q \notin Gets \cup Streams \cup Cancels \cup Jobs
    OBVIOUS
  <2>7. /\ UNCHANGED event /\ UNCHANGED target
        /\ \/ pc' = [pc EXCEPT ![q] = "mutate"] /\ pc[q] = "check"
           \/ MutateReport(q) /\ \E l \in {"updateRow", "refresh"} : pc' = [pc EXCEPT ![q] = l]
           \/ /\ pc[q] \notin Unsaid
              /\ \E l \in {"record", "refresh", "publish", "respond", "done"} : pc' = [pc EXCEPT ![q] = l]
    <3>1. CASE Lookup(q)
      BY <1>1, <2>3, <2>4, <2>5, <2>6, <3>1
         DEF Executes, Lookup, CacheHit, CacheMiss, ReadRow, CacheRow, Unknown, Goto, AfterCached, Sent
    <3>2. CASE Change(q) \/ Respond(q)
      BY <2>6, <3>2 DEF Executes, Change, MutateReport, MutateCancel, UpdateRow, RecordEvent, Respond, End, Goto,
                        AfterRecord, Unsaid
    <3>3. CASE Showing(q)
      BY <2>3, <3>3 DEF Showing, Refresh, Publish, Subscribe, StreamSend, StreamEnd, Goto, Sent, Unsaid
    <3>4. CASE Refused(q)
      <4>1. pc[q] \in {"insertRow", "insertEvent", "readRow", "updateRow", "record"} /\ End(q, "FAILED")
            /\ UNCHANGED <<target, event>>
        BY <2>6, <3>4 DEF Refused
      <4> QED
        BY <4>1 DEF End, Goto, Unsaid
    <3> QED
      BY <1>7, <3>1, <3>2, <3>3, <3>4 DEF Handler
  <2>8. ASSUME NEW p \in Reports, p # q
        PROVE  pc'[p] = pc[p] /\ ~MutateReport(p)
    <3>1. pc'[p] = pc[p]
      BY <1>1, <2>7, <2>8
    <3>2. MutateReport(p) => pc'[p] # "mutate" /\ pc[p] = "mutate"
      BY <1>1 DEF MutateReport, Goto
    <3> QED
      BY <3>1, <3>2
  <2>9. /\ pc'[q] = pc[q] \/ (pc[q] \in Sent /\ pc[q] # "done" /\ pc'[q] \in Sent)
        /\ MutateReport(q) \/ (pc[q] \in Unsaid <=> pc'[q] \in Unsaid)
        /\ MutateReport(q) => pc'[q] \notin Unsaid
    <3>1. MutateReport(q) => \E l \in {"updateRow", "refresh"} : pc' = [pc EXCEPT ![q] = l]
      BY DEF MutateReport, Goto
    <3> QED
      BY <1>1, <2>1, <2>3, <2>7, <3>1 DEF Sent, Unsaid
  <2> QED
    BY <2>7, <2>8, <2>9 DEF OnTheirWay
<1> QED
  BY <1>3, <1>4, <1>5, <1>6, <1>7 DEF Service, Callers, Progress

(* The service hands no job out, and lists one only once it is recorded.   *)
LEMMA ServiceQueues ==
  ASSUME Shape, Alone, Replicas = {Primary}, Service, NEW j \in Jobs
  PROVE  /\ delivered' = delivered
         /\ Queued(j)' => Queued(j) \/ mem[Primary][j] # None
<1>1. ASSUME NEW q \in Jobs, Push(q)
      PROVE  /\ delivered' = delivered
             /\ Queued(j)' => Queued(j) \/ mem[Primary][j] # None
  <2>1. Own(Primary, q)
    BY <1>1 DEF Push, Alone, Underway, Submitting
  <2>2. mem[Primary][q] # None
    BY <2>1 DEF Alone, Fits, JobFits
  <2> QED
    BY <1>1, <2>2, PushQueues DEF Push
<1>2. ASSUME Callers
      PROVE  UNCHANGED <<queue, delivered>>
  BY <1>2 DEF Callers, BeginSubmit, ArriveRequest, Arrive, redisVars
<1>3. ASSUME NEW q \in Jobs, Submission(q)
      PROVE  UNCHANGED <<queue, delivered>> \/ Push(q)
  BY <1>3 DEF Executes, Submission, InsertJob, InsertRow, InsertEvent, SetKey, redisVars
<1>4. ASSUME NEW q \in Requests, Handler(q)
      PROVE  UNCHANGED <<queue, delivered>>
  <2>1. CASE Lookup(q)
    BY <2>1 DEF Executes, Lookup, CacheHit, CacheMiss, ReadRow, CacheRow, Unknown, redisVars
  <2>2. CASE Change(q)
    BY <2>2 DEF Executes, Change, MutateReport, MutateCancel, UpdateRow, RecordEvent, redisVars
  <2>3. CASE Showing(q) \/ Respond(q)
    BY <2>3 DEF Showing, Refresh, Publish, Respond, Subscribe, StreamSend, StreamEnd, redisVars
  <2>4. CASE Refused(q)
    BY <2>4, RefusedFails DEF Abandon, CancelIgnoresDbError, redisVars
  <2> QED
    BY <1>4, <2>1, <2>2, <2>3, <2>4 DEF Handler
<1>5. UNCHANGED <<queue, delivered>> \/ \E q \in Jobs : Push(q)
  BY <1>2, <1>3, <1>4 DEF Service, Progress
<1> QED
  BY <1>1, <1>5 DEF Queued

(* No step is two reports' mutations.                                      *)
LEMMA OneMutates ==
  ASSUME TypeOK, NEW p \in Requests, NEW q \in Requests, MutateReport(p), MutateReport(q)
  PROVE  p = q
<1>1. pc'[p] # "mutate" /\ pc[p] = "mutate" /\ \A l : p # q => (pc' = [pc EXCEPT ![q] = l] => pc'[p] = pc[p])
  BY DEF MutateReport, Goto, TypeOK
<1> QED
  BY <1>1 DEF MutateReport, Goto

(* While the service works, workers stay as attentive as they were.        *)
LEMMA AttendedService ==
  ASSUME Reliable, Replicas = {Primary}, Service
  PROVE  Attended'
<1> USE ConstantsTyped
<1>1. [Next]_vars /\ UNCHANGED workerVars
  BY ReliableSteps DEF Reliable, Runs, PlatformNext, Service
<1>2. OnTheirWay
  BY ReportsOnTheirWay
<1>3. stage' = stage /\ held' = held /\ call' = call
  BY <1>1 DEF workerVars
<1>4. \A j \in Jobs : /\ delivered'[j] = delivered[j]
                      /\ Queued(j)' => Queued(j) \/ mem[Primary][j] # None
  BY ServiceQueues DEF Reliable, Runs
<1>5. \A q \in Reports : pc'[q] \notin {"idle", "done"} => \E w \in Workers : call'[w] = q
  BY <1>2, <1>3 DEF OnTheirWay, Sent, Reliable, Attended
<1>6. ASSUME NEW w \in Workers, call'[w] # None
      PROVE  Reporting(w)' /\ target'[call'[w]] = held'[w] /\ event'[call'[w]] = Body(stage'[w])
             /\ pc'[call'[w]] \in Sent
  <2>1. call[w] \in Reports /\ call'[w] = call[w]
    BY <1>3, <1>6 DEF Reliable, Runs, WorkersTyped
  <2>2. Reporting(w) /\ target[call[w]] = held[w] /\ event[call[w]] = Body(stage[w]) /\ pc[call[w]] \in Sent
    BY <1>3, <1>6 DEF Reliable, Attended, Waits
  <2>3. target'[call[w]] = target[call[w]] /\ event'[call[w]] = event[call[w]] /\ pc'[call[w]] \in Sent
    BY <1>2, <2>1, <2>2 DEF OnTheirWay
  <2>4. Reporting(w)' /\ Body(stage'[w]) = Body(stage[w]) /\ held'[w] = held[w]
    BY <1>3, <2>2 DEF Reporting
  <2> QED
    BY <2>1, <2>2, <2>3, <2>4
<1>7. ASSUME \A j \in Jobs : /\ Ended(mem'[Primary][j]) => delivered[j] > 0
                             /\ Readable(j) /\ delivered[j] > 0 =>
                                  Ended(mem'[Primary][j]) \/ \E w \in Workers : held[w] = j
                             /\ mem[Primary][j] # None => mem'[Primary][j] # None,
             \A w \in Workers : held[w] # None => (LastSaid(w)' <=> Ended(mem'[Primary][held[w]]))
      PROVE  Attended'
  <2>1. \A w \in Workers : Waits(w)'
    BY <1>1, <1>3, <1>6, <1>7 DEF Waits, Reliable, Attended, workerVars, inputs
  <2>2. \A j \in Jobs : Queued(j)' => mem'[Primary][j] # None
    BY <1>4, <1>7 DEF Reliable, Attended
  <2>3. \A j \in Jobs : Readable(j)' <=> Readable(j)
    BY ReadableSame DEF PlatformNext
  <2> QED
    BY <1>3, <1>4, <1>5, <1>7, <2>1, <2>2, <2>3 DEF Attended
<1>8. ASSUME NEW w \in Workers, call[w] # None => ~MutateReport(call[w])
      PROVE  LastSaid(w)' <=> LastSaid(w)
  <2>1. call[w] # None => call[w] \in Reports
    BY DEF Reliable, Runs, WorkersTyped
  <2> QED
    BY <1>2, <1>3, <1>8, <2>1 DEF OnTheirWay, LastSaid
<1>9. CASE \A q \in Requests : ~MutateReport(q)
  <2>1. ASSUME NEW j \in Jobs
        PROVE  /\ Ended(mem'[Primary][j]) <=> Ended(mem[Primary][j])
               /\ mem[Primary][j] # None => mem'[Primary][j] # None
    BY <1>1, <1>9, EndedKeeps DEF Reliable, Runs
  <2>2. ASSUME NEW w \in Workers, held[w] # None
        PROVE  LastSaid(w)' <=> Ended(mem'[Primary][held[w]])
    <3>1. held[w] \in Jobs /\ (call[w] # None => call[w] \in Requests)
      BY <2>2 DEF Reliable, Runs, WorkersTyped, Requests
    <3> QED
      BY <1>8, <1>9, <2>1, <2>2, <3>1 DEF Reliable, Attended, Waits
  <2> QED
    BY <1>7, <2>1, <2>2 DEF Reliable, Attended
<1>10. ASSUME NEW q \in Requests, MutateReport(q)
       PROVE  Attended'
  <2>1. PICK w \in Workers :
           /\ call[w] = q /\ held[w] \in Jobs /\ target[q] = held[w] /\ Reporting(w) /\ ~LastSaid(w)
           /\ Ended(mem'[Primary][held[w]]) <=> stage[w] # "start"
           /\ mem'[Primary][held[w]] # None
           /\ \A k \in Jobs : k # held[w] => mem'[Primary][k] = mem[Primary][k]
    BY <1>10, ReportSays
  <2>2. ~Ended(mem[Primary][held[w]]) /\ delivered[held[w]] > 0 /\ held[w] # None /\ q \in Reports /\ q # None
    BY <1>10, <2>1 DEF Reliable, Attended, Waits, Runs, Apart, MutateReport, Requests
  <2>3. LastSaid(w)' <=> stage[w] # "start"
    BY <1>2, <1>3, <1>10, <2>1, <2>2 DEF OnTheirWay, LastSaid
  <2>4. ASSUME NEW v \in Workers, held[v] # None, v # w
        PROVE  LastSaid(v)' <=> Ended(mem'[Primary][held[v]])
    <3>1. held[v] \in Jobs /\ held[v] # held[w] /\ (call[v] # None => call[v] \in Requests)
      BY <2>1, <2>4 DEF Reliable, Runs, WorkersTyped, Apart, Requests
    <3>2. call[v] # None => target[call[v]] = held[v]
      BY DEF Reliable, Attended, Waits
    <3>3. call[v] # None => ~MutateReport(call[v])
      BY <1>10, <2>1, <3>1, <3>2, OneMutates DEF Reliable, Runs, Shape
    <3> QED
      BY <1>8, <2>1, <2>4, <3>1, <3>3 DEF Reliable, Attended, Waits
  <2>5. \A v \in Workers : held[v] # None => (LastSaid(v)' <=> Ended(mem'[Primary][held[v]]))
    BY <2>1, <2>3, <2>4
  <2>6. ASSUME NEW j \in Jobs
        PROVE  /\ Ended(mem'[Primary][j]) => delivered[j] > 0
               /\ Readable(j) /\ delivered[j] > 0 =>
                    Ended(mem'[Primary][j]) \/ \E v \in Workers : held[v] = j
               /\ mem[Primary][j] # None => mem'[Primary][j] # None
    BY <2>1, <2>2 DEF Reliable, Attended
  <2> QED
    BY <1>7, <2>5, <2>6
<1> QED
  BY <1>9, <1>10

(* What one worker does leaves the others waiting as they were.            *)
LEMMA OthersWait ==
  ASSUME Attended, NEW w \in Workers, mem' = mem, UNCHANGED <<queue, delivered>>, Waits(w)',
         \A v \in Workers : v # w =>
           /\ stage'[v] = stage[v] /\ held'[v] = held[v] /\ call'[v] = call[v]
           /\ call[v] # None => /\ pc'[call[v]] = pc[call[v]] /\ target'[call[v]] = target[call[v]]
                                /\ event'[call[v]] = event[call[v]],
         \A p \in Reports : pc'[p] \notin {"idle", "done"} =>
           call'[w] = p \/ \E v \in Workers : v # w /\ call[v] = p,
         held'[w] = held[w] \/ Ended(mem[Primary][held[w]]) \/ ~Readable(held[w]),
         UNCHANGED inputs
  PROVE  Attended'
<1>1. ASSUME NEW v \in Workers, v # w
      PROVE  Waits(v)'
  BY <1>1 DEF Attended, Waits, Reporting, LastSaid, inputs
<1>2. \A p \in Reports : pc'[p] \notin {"idle", "done"} => \E v \in Workers : call'[v] = p
  OBVIOUS
<1>3. ASSUME NEW j \in Jobs
      PROVE  /\ Queued(j)' => mem'[Primary][j] # None
             /\ Ended(mem'[Primary][j]) => delivered'[j] > 0
             /\ Readable(j)' /\ delivered'[j] > 0 =>
                  Ended(mem'[Primary][j]) \/ \E v \in Workers : held'[v] = j
  <2>1. Queued(j)' => Queued(j)
    BY DEF Queued
  <2>2. Readable(j) /\ delivered[j] > 0 =>
          Ended(mem[Primary][j]) \/ \E v \in Workers : held'[v] = j
    <3>1. ASSUME NEW v \in Workers, held[v] = j, Readable(j)
          PROVE  Ended(mem[Primary][j]) \/ held'[v] = j
      BY <3>1
    <3> QED
      BY <3>1 DEF Attended
  <2> QED
    BY <2>1, <2>2 DEF Attended, Readable, inputs
<1> QED
  BY <1>1, <1>2, <1>3 DEF Attended

(* A worker that pops a job finds it not yet ended, and then attends it.   *)
LEMMA AttendedPop ==
  ASSUME Reliable, Replicas = {Primary}, NEW w \in Workers, Pop(w)
  PROVE  Attended'
<1> USE ConstantsTyped
<1> DEFINE j == held'[w]
<1>1. /\ j # None /\ delivered[j] = 0 /\ call' = call /\ stage'[w] = "fetch" /\ WorkersTyped'
      /\ UNCHANGED inputs
      /\ \A v \in Workers : v # w => stage'[v] = stage[v] /\ held'[v] = held[v]
  BY PopApart DEF Reliable
<1>2. PICK k \in Queues : Dequeue(k) /\ held' = [held EXCEPT ![w] = Head(queue[k])]
  BY DEF Pop
<1>3. j \in Jobs
  BY <1>1 DEF WorkersTyped
<1>4. /\ mem' = mem /\ pc' = pc /\ target' = target /\ event' = event
      /\ \A i \in Jobs : Queued(i)' <=> Queued(i)
  BY <1>2, DequeueKeeps DEF Dequeue, processVars, handlerVars, Reliable, Runs
<1>5. \A i \in Jobs : delivered[i] \in Nat /\ delivered'[i] >= delivered[i] /\ delivered'[i] \in Nat
  <2>1. [RestartNext]_vars
    BY <1>2 DEF RestartNext, Next, Delivery
  <2> QED
    BY <2>1, DeliveredGrows DEF Reliable, Runs
<1>6. \A i \in Jobs : i # j => delivered'[i] = delivered[i]
  <2>1. j = Head(queue[k])
    BY <1>2 DEF Reliable, Runs, WorkersTyped
  <2>2. PICK h : h = Head(queue[k]) /\ delivered' = [delivered EXCEPT ![h] = delivered[h] + 1]
    BY <1>2 DEF Dequeue
  <2> QED
    BY <2>1, <2>2 DEF Reliable, Runs, Shape, TypeOK
<1>7. call[w] = None /\ held[w] = None
  BY DEF Pop, Reliable, Attended, Waits, Reporting, Runs, Apart
<1>8. ~Ended(mem[Primary][j])
  BY <1>1, <1>3 DEF Reliable, Attended
<1> HIDE DEF j
<1>9. held'[w] = j
  BY DEF j
<1>10. ASSUME NEW v \in Workers
       PROVE  Waits(v)'
  <2>1. CASE v = w
    BY <1>1, <1>4, <1>7, <1>8, <1>9, <2>1 DEF Waits, LastSaid
  <2>2. CASE v # w
    BY <1>1, <1>4, <2>2 DEF Reliable, Attended, Waits, LastSaid, Reporting, inputs
  <2> QED
    BY <2>1, <2>2
<1>11. ASSUME NEW i \in Jobs
       PROVE  /\ Queued(i)' => mem'[Primary][i] # None
              /\ Ended(mem'[Primary][i]) => delivered'[i] > 0
              /\ Readable(i)' /\ delivered'[i] > 0 =>
                   Ended(mem'[Primary][i]) \/ \E v \in Workers : held'[v] = i
  <2>1. CASE i = j
    BY <1>4, <1>8, <1>9, <2>1 DEF Reliable, Attended
  <2>2. CASE i # j
    <3>1. \A v \in Workers : held[v] = i => held'[v] = i
      BY <1>1, <1>3, <1>7, <2>2
    <3>2. Readable(i)' <=> Readable(i)
      BY <1>1 DEF Readable, inputs
    <3> QED
      BY <1>4, <1>5, <1>6, <2>2, <3>1, <3>2 DEF Reliable, Attended
  <2> QED
    BY <2>1, <2>2
<1> QED
  BY <1>1, <1>4, <1>10, <1>11 DEF Reliable, Attended

(* Whatever else a worker does, it attends its job until the job has ended.*)
LEMMA AttendedWorker ==
  ASSUME Reliable, Replicas = {Primary}, NEW w \in Workers,
         \/ Fetch(w) \/ BodyRaises(w) \/ Generate(w)
         \/ Post(w) \/ ClientRaises(w) \/ Unsent(w) \/ Answered(w)
  PROVE  Attended'
<1> USE ConstantsTyped
<1>1. /\ Attended /\ Waits(w)
      /\ stage \in [Workers -> Stages] /\ held \in [Workers -> Jobs \cup {None}]
      /\ call \in [Workers -> Reports \cup {None}]
      /\ held[w] # None <=> stage[w] # "poll"
      /\ \A q \in Reports : q # None
      /\ pc \in [Requests -> Locations] /\ target \in [Requests -> Jobs \cup {None}]
      /\ event \in [Requests -> Event \cup {None}]
  BY DEF Reliable, Attended, Runs, Apart, WorkersTyped, Shape, TypeOK, Requests
<1>2. ASSUME NEW s \in {"start", "missing", "complete", "fail"}, stage[w] \in {"fetch", "generate"},
             stage' = [stage EXCEPT ![w] = s], UNCHANGED <<vars, held, call, inputs>>
      PROVE  Attended'
  <2>1. /\ mem' = mem /\ queue' = queue /\ delivered' = delivered /\ pc' = pc
        /\ target' = target /\ event' = event /\ held' = held /\ call' = call
    BY <1>2 DEF vars, processVars, handlerVars, redisVars
  <2>2. call[w] = None
    BY <1>1, <1>2 DEF Waits, Reporting
  <2>3. Waits(w)'
    BY <1>1, <1>2, <2>1, <2>2 DEF Waits, LastSaid
  <2>4. \A p \in Reports : pc'[p] \notin {"idle", "done"} =>
          call'[w] = p \/ \E v \in Workers : v # w /\ call[v] = p
    BY <1>1, <2>1, <2>2 DEF Attended
  <2>5. \A v \in Workers : v # w => stage'[v] = stage[v]
    BY <1>1, <1>2
  <2> QED
    BY <1>1, <1>2, <2>1, <2>3, <2>4, <2>5, OthersWait
<1>3. CASE Fetch(w)
  BY <1>2, <1>3 DEF Fetch
<1>4. CASE Generate(w)
  BY <1>2, <1>4 DEF Generate
<1>5. CASE Post(w)
  <2>1. PICK q \in Reports, r \in Replicas :
          ArriveReport(q, r, held[w], Body(stage[w])) /\ call' = [call EXCEPT ![w] = q]
    BY <1>5 DEF Post
  <2>2. /\ pc[q] = "idle" /\ pc' = [pc EXCEPT ![q] = "check"]
        /\ target' = [target EXCEPT ![q] = held[w]]
        /\ event' = [event EXCEPT ![q] = Body(stage[w])]
        /\ mem' = mem /\ queue' = queue /\ delivered' = delivered
    BY <2>1 DEF ArriveReport, Arrive, Goto, processVars, redisVars
  <2>3. /\ Reporting(w) /\ call[w] = None /\ stage' = stage /\ held' = held
        /\ client = "works" /\ client' = client /\ UNCHANGED inputs
    BY <1>5 DEF Post, inputs
  <2>4. /\ pc'[q] = "check" /\ target'[q] = held[w] /\ event'[q] = Body(stage[w]) /\ call'[w] = q
        /\ \A p \in Requests : p # q => pc'[p] = pc[p] /\ target'[p] = target[p] /\ event'[p] = event[p]
        /\ \A v \in Workers : v # w => call'[v] = call[v]
    BY <1>1, <2>1, <2>2 DEF Requests
  <2>5. Waits(w)'
    BY <1>1, <2>2, <2>3, <2>4 DEF Waits, LastSaid, Sent, Unsaid, Reporting
  <2>6. \A v \in Workers : call[v] # None => call[v] # q /\ call[v] \in Requests
    BY <1>1, <2>2 DEF Attended, Waits, Sent, Requests
  <2>7. \A p \in Reports : pc'[p] \notin {"idle", "done"} =>
          call'[w] = p \/ \E v \in Workers : v # w /\ call[v] = p
    BY <1>1, <2>3, <2>4 DEF Attended, Requests
  <2> QED
    BY <1>1, <2>2, <2>3, <2>4, <2>5, <2>6, <2>7, OthersWait
<1>6. CASE Answered(w)
  <2>1. /\ mem' = mem /\ queue' = queue /\ delivered' = delivered /\ pc' = pc
        /\ target' = target /\ event' = event
    BY <1>6 DEF Answered, vars, processVars, handlerVars, redisVars
  <2>2. call[w] # None /\ pc[call[w]] = "done" /\ MoveOn(w) /\ Reporting(w)
    BY <1>1, <1>6 DEF Answered, Waits
  <2>3. /\ stage'[w] = After(stage[w]) /\ call'[w] = None
        /\ held'[w] = IF After(stage[w]) = "poll" THEN None ELSE held[w]
        /\ \A v \in Workers : v # w => stage'[v] = stage[v] /\ held'[v] = held[v] /\ call'[v] = call[v]
        /\ UNCHANGED inputs
    BY <1>1, <2>2 DEF MoveOn
  <2>4. stage[w] # "start" => Ended(mem[Primary][held[w]])
    BY <1>1, <2>2 DEF Waits, LastSaid, Unsaid, Reporting
  <2>5. Waits(w)' /\ (held'[w] = held[w] \/ Ended(mem[Primary][held[w]]))
    BY <1>1, <2>1, <2>2, <2>3, <2>4 DEF Waits, LastSaid, After
  <2>6. \A p \in Reports : pc'[p] \notin {"idle", "done"} =>
          call'[w] = p \/ \E v \in Workers : v # w /\ call[v] = p
    BY <1>1, <2>1, <2>2 DEF Attended
  <2> QED
    BY <1>1, <2>1, <2>3, <2>5, <2>6, OthersWait
<1>7. ASSUME BodyRaises(w) \/ ClientRaises(w) \/ Unsent(w)
      PROVE  Attended'
  <2>1. /\ mem' = mem /\ queue' = queue /\ delivered' = delivered /\ pc' = pc
        /\ target' = target /\ event' = event
    BY <1>7 DEF BodyRaises, ClientRaises, Unsent, vars, processVars, handlerVars, redisVars
  <2>2. call[w] = None
    BY <1>1, <1>7 DEF BodyRaises, ClientRaises, Unsent, Waits, Reporting
  <2>3. ~Readable(held[w]) /\ UNCHANGED inputs
    BY <1>7 DEF BodyRaises, ClientRaises, Unsent, LetGo, MoveOn, Readable
  <2>4. PICK s \in Stages, h \in {held[w], None} :
          /\ stage' = [stage EXCEPT ![w] = s] /\ held' = [held EXCEPT ![w] = h]
          /\ call' = [call EXCEPT ![w] = None]
    BY <1>7 DEF BodyRaises, ClientRaises, Unsent, LetGo, MoveOn, After, Stages
  <2>5. /\ stage'[w] = s /\ held'[w] = h /\ call'[w] = None
        /\ \A v \in Workers : v # w => stage'[v] = stage[v] /\ held'[v] = held[v] /\ call'[v] = call[v]
    BY <1>1, <2>4
  <2>6. ~LastSaid(w) /\ (held[w] # None => ~Ended(mem[Primary][held[w]]))
    BY <1>1, <2>2 DEF Waits, LastSaid
  <2>7. Waits(w)'
    BY <1>1, <2>1, <2>5, <2>6 DEF Waits, LastSaid
  <2>8. \A p \in Reports : pc'[p] \notin {"idle", "done"} =>
          call'[w] = p \/ \E v \in Workers : v # w /\ call[v] = p
    BY <1>1, <2>1, <2>2 DEF Attended
  <2> QED
    BY <1>1, <2>1, <2>3, <2>5, <2>7, <2>8, OthersWait
<1> QED
  BY <1>3, <1>4, <1>5, <1>6, <1>7

(* With one process and no accident, Reliable is kept by every step.       *)
LEMMA ReliableStep ==
  ASSUME Reliable, Replicas = {Primary}, [PlatformNext]_platformVars
  PROVE  Reliable'
<1>1. [Next]_vars
  BY ReliableSteps DEF Reliable, Runs
<1>2. Runs'
  BY RunsStep DEF Reliable, HostileNext
<1>3. Alone'
  BY <1>1, AloneStep DEF Reliable, Runs
<1>4. Attended'
  <2>1. CASE UNCHANGED platformVars
    BY <2>1 DEF Reliable, Attended, Waits, LastSaid, Reporting, Queued, Readable, platformVars,
                workerVars, inputs, vars, processVars, handlerVars, redisVars
  <2> QED
    BY <2>1, AttendedService, AttendedPop, AttendedWorker DEF PlatformNext, Runner
<1> QED
  BY <1>2, <1>3, <1>4 DEF Reliable

(* ... and holds at the start.                                             *)
LEMMA ReliableInit ==
  ASSUME Replicas = {Primary}
  PROVE  PlatformInit => Reliable
<1> SUFFICES ASSUME PlatformInit
             PROVE  Reliable
  OBVIOUS
<1>1. Runs /\ Alone
  BY RunsInit, AloneInit DEF PlatformInit
<1>2. Attended
  BY DEF PlatformInit, Init, Attended, Waits, Ended, Queued, Requests
<1> QED
  BY <1>1, <1>2 DEF Reliable

(* Hence the reliable platform is always reliable.                         *)
LEMMA ReliableAlways ==
  ASSUME Replicas = {Primary}
  PROVE  ReliableSpec => []Reliable
BY ReliableInit, ReliableStep, PTL DEF ReliableSpec

(* A job that was popped, that its worker could read and report on, and    *)
(* that no worker holds any more has ended in the table: the last report   *)
(* was answered before the worker let go.                                  *)
THEOREM ThroughCorrect ==
  ASSUME Replicas = {Primary}
  PROVE  ReliableSpec => []ThroughIsEnded
<1>1. Reliable => ThroughIsEnded
  BY DEF Reliable, Attended, ThroughIsEnded
<1> QED
  BY <1>1, ReliableAlways, PTL

(* How a job ended is final: its only worker has said its last word, a     *)
(* cancellation leaves an ended job alone, and no report is sent twice.    *)
THEOREM EndedCorrect ==
  ASSUME Replicas = {Primary}
  PROVE  ReliableSpec => EndedIsFinal
<1>1. ASSUME Reliable, [PlatformNext]_platformVars, NEW j \in Jobs, Ended(mem[Primary][j])
      PROVE  mem'[Primary][j].status = mem[Primary][j].status
             /\ mem'[Primary][j].result = mem[Primary][j].result
  <2>1. [Next]_vars
    BY <1>1, ReliableSteps DEF Reliable, Runs
  <2>2. ASSUME NEW q \in Requests, MutateReport(q)
        PROVE  mem'[Primary][j] = mem[Primary][j]
    <3>1. PICK w \in Workers :
            /\ held[w] \in Jobs /\ ~LastSaid(w)
            /\ \A k \in Jobs : k # held[w] => mem'[Primary][k] = mem[Primary][k]
      BY <1>1, <2>2, ReportSays
    <3>2. ~Ended(mem[Primary][held[w]])
      BY <1>1, <3>1, ConstantsTyped DEF Reliable, Attended, Waits
    <3> QED
      BY <1>1, <3>1, <3>2
  <2> QED
    BY <1>1, <2>1, <2>2, EndedKeeps DEF Reliable, Runs
<1>2. Reliable /\ [PlatformNext]_platformVars =>
        [\A r \in Replicas, j \in Jobs :
           Ended(mem[r][j]) => mem'[r][j].status = mem[r][j].status
                               /\ mem'[r][j].result = mem[r][j].result]_platformVars
  BY <1>1
<1> QED
  BY <1>2, ReliableAlways, PTL DEF ReliableSpec, EndedIsFinal
=============================================================================
