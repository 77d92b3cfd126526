---------------------------- MODULE Orchestrator ----------------------------
(***************************************************************************)
(* The job store of the orchestrator service (orchestrator/src/state.rs):  *)
(* the in-memory job table of each replica, the Postgres rows and event    *)
(* log behind it, the Redis queues and job keys in front of the runners,   *)
(* and the watch channel that status streams read.                         *)
(*                                                                         *)
(* An HTTP request is a process.  Its handler is cut at every await of the *)
(* code: between two steps of one handler any step of another may happen.  *)
(* A job is named by the request that submits it (the handler draws the    *)
(* job's UUID), and a log line or a result by the request that carried it. *)
(***************************************************************************)
EXTENDS Integers, Sequences, FiniteSets

CONSTANTS
  Replicas,   \* orchestrator processes behind the service
  Jobs,       \* POST   /v1/internal/jobs          (and the jobs they create)
  Cancels,    \* PUT    /v1/internal/jobs/:id/cancel
  Reports,    \* POST   /v1/internal/runners/:id/events
  Gets,       \* GET    /v1/internal/jobs/:id
  Streams,    \* GET    /v1/internal/jobs/:id/stream
  Queues,     \* Redis lists queue:<model> and queue:<node>:<model>
  Events,     \* bodies a runner posts
  HasDb,      \* ORCHESTRATOR_DATABASE_URL is set
  None        \* Rust's None, SQL's NULL, and "not yet"

Requests == Jobs \cup Cancels \cup Reports \cup Gets \cup Streams

Status == {"IN_QUEUE", "IN_PROGRESS", "COMPLETED", "ERROR", "CANCELED"}

(* serde: queue_position is an Option<i32>; NoPosition stands for None.    *)
NoPosition == -1

(* What the handlers read and write of a JobData.  The artifacts are       *)
(* assigned with the result; updated_at is written and never read.         *)
Data == [status   : Status,
         position : Int,
         lines    : SUBSET Requests,
         result   : Requests \cup {None},
         created  : Nat,
         queue    : Queues]

Event == [kind : {"IN_PROGRESS", "LOG", "COMPLETED", "ERROR"}, hasResult : BOOLEAN]

ASSUME EndpointsDisjoint ==
  /\ Jobs \cap (Cancels \cup Reports \cup Gets \cup Streams) = {}
  /\ Cancels \cap (Reports \cup Gets \cup Streams) = {}
  /\ Reports \cap (Gets \cup Streams) = {}
  /\ Gets \cap Streams = {}

ASSUME JobsFinite == IsFiniteSet(Jobs)

ASSUME ConstantsTyped ==
  /\ Events \subseteq Event
  /\ HasDb \in BOOLEAN
  /\ None \notin Requests \cup Replicas \cup Jobs \cup Data \cup Event

VARIABLES
  \* one orchestrator process each
  mem,        \* jobs: HashMap<Uuid, JobRecord>, the data half
  notifier,   \* JobRecord.notifier: the channel, named by the request that made it
  watch,      \* the value held by each watch channel
  \* one handler invocation each
  pc,         \* where the handler is suspended
  proc,       \* the replica that runs it
  target,     \* the job it is about
  event,      \* the body of a runner's report
  local,      \* the handler's own copy of the job data or snapshot
  sender,     \* the sender (or receiver) of a channel it holds
  answer,     \* the response it decided on; sent when pc is "done"
  \* Postgres
  rows,       \* table jobs
  audit,      \* table job_events
  idType,     \* the type of jobs.id and job_events.job_id: "uuid" in every
              \* schema of the repository; the code binds a String, as to "text"
  \* Redis
  keys,       \* job:<id> present
  queue,      \* the lists
  delivered,  \* how often BLPOP has handed a job to a runner
  clock       \* Utc::now() at submission

processVars == <<mem, notifier, watch>>
handlerVars == <<pc, proc, target, event, local, sender, answer>>
dbVars      == <<rows, audit, idType>>
redisVars   == <<keys, queue, delivered>>
vars == <<processVars, handlerVars, dbVars, redisVars, clock>>

Locations == {"idle", "insert", "insertRow", "insertEvent", "setKey", "push",
              "check", "readRow", "cacheRow", "mutate", "updateRow", "record",
              "refresh", "publish", "subscribe", "streaming", "respond", "done"}

(* FAILED is every error status, and a caller that is no longer there.     *)
Answers == {"none", "CREATED", "ACCEPTED", "DETAILS", "STREAMED", "FAILED",
            "CANCELLATION_REQUESTED", "TOO_LATE", "ALREADY_COMPLETED"}

TypeOK ==
  /\ mem \in [Replicas -> [Jobs -> Data \cup {None}]]
  /\ notifier \in [Replicas -> [Jobs -> Requests \cup {None}]]
  /\ watch \in [Requests -> Data \cup {None}]
  /\ pc \in [Requests -> Locations]
  /\ proc \in [Requests -> Replicas \cup {None}]
  /\ target \in [Requests -> Jobs \cup {None}]
  /\ event \in [Requests -> Event \cup {None}]
  /\ local \in [Requests -> Data \cup {None}]
  /\ sender \in [Requests -> Requests \cup {None}]
  /\ answer \in [Requests -> Answers]
  /\ rows \in [Jobs -> Data \cup {None}]
  /\ audit \subseteq [job : Jobs, request : Requests, status : Status]
  /\ idType \in {"uuid", "text"}
  /\ keys \subseteq Jobs
  /\ queue \in [Queues -> Seq(Jobs)]
  /\ delivered \in [Jobs -> Nat]
  /\ clock \in Nat

-----------------------------------------------------------------------------
(* Helpers.                                                                *)

Waiting(r, j) == mem[r][j] # None /\ mem[r][j].status = "IN_QUEUE"

(* The number of jobs this replica holds in IN_QUEUE that were submitted   *)
(* before the one with data d: of every model and node, whatever the list. *)
Ahead(r, d) == Cardinality({k \in Jobs : Waiting(r, k) /\ mem[r][k].created < d.created})

(* Mutant: the position is left alone once the job no longer waits.        *)
PositionedOnce(r, d) ==
  [d EXCEPT !.position = IF d.status = "IN_QUEUE" THEN Ahead(r, d) ELSE @]

(* The queue_position that every write of a record recomputes.             *)
Positioned(r, d) ==
  [d EXCEPT !.position = IF d.status = "IN_QUEUE" THEN Ahead(r, d) ELSE NoPosition]

(* Mutant: the lines of the report replace the log.                        *)
ReportedAlone(d, q, ev) ==
  [d EXCEPT !.lines  = {q},
            !.status = IF ev.kind = "LOG" THEN @ ELSE ev.kind,
            !.result = IF ev.hasResult THEN q ELSE @]

(* handle_runner_event's mutator: no status is protected.                  *)
Reported(d, q, ev) ==
  [d EXCEPT !.lines  = @ \cup {q},
            !.status = IF ev.kind = "LOG" THEN @ ELSE ev.kind,
            !.result = IF ev.kind = "COMPLETED" \/ (ev.kind = "ERROR" /\ ev.hasResult)
                       THEN IF ev.hasResult THEN q ELSE None
                       ELSE @]

(* Mutant: a status that the enum of the API does not have.                *)
WithdrawnMisspelt(d, q) == [d EXCEPT !.status = "CANCELLED", !.lines = @ \cup {q}]

(* cancel_job's mutator when the job is IN_QUEUE.                          *)
Withdrawn(d, q) == [d EXCEPT !.status = "CANCELED", !.lines = @ \cup {q}]

(* Mutant: a job that is already canceled is confirmed once more.          *)
CancelStatusAgain(s) ==
  CASE s \in {"IN_QUEUE", "CANCELED"} -> "CANCELLATION_REQUESTED"
    [] s = "IN_PROGRESS"              -> "TOO_LATE"
    [] OTHER                          -> "ALREADY_COMPLETED"

(* What cancel_job answers of a job it finds in status s.                  *)
CancelStatus(s) ==
  CASE s = "IN_QUEUE"    -> "CANCELLATION_REQUESTED"
    [] s = "IN_PROGRESS" -> "TOO_LATE"
    [] OTHER             -> "ALREADY_COMPLETED"

(* Where a handler goes on once the job is in the replica's table.         *)
AfterCached(q) ==
  IF q \in Gets THEN "refresh" ELSE IF q \in Streams THEN "subscribe" ELSE "mutate"

(* The request id has left the handler that drew it: with the row, with    *)
(* the Redis keys or with the response.                                    *)
Disclosed(j) == pc[j] \notin {"idle", "insert", "insertRow"}

Goto(q, l) == pc' = [pc EXCEPT ![q] = l]

(* tokio-postgres sends a statement whose id is a String only for a column *)
(* of text; for a UUID the call returns an error.                          *)
Executes(q, l) == pc[q] = l /\ idType = "text"

(* The record and the channel of job j at replica r.                       *)
Store(r, j, d) == mem' = [mem EXCEPT ![r][j] = d]
Send(c, d) == watch' = [watch EXCEPT ![c] = d]

(* A handler ends: its locals go with it.                                  *)
End(q, a) ==
  /\ Goto(q, "done")
  /\ answer' = [answer EXCEPT ![q] = a]
  /\ local' = [local EXCEPT ![q] = None]
  /\ sender' = [sender EXCEPT ![q] = None]

Init ==
  /\ mem = [r \in Replicas |-> [j \in Jobs |-> None]]
  /\ notifier = [r \in Replicas |-> [j \in Jobs |-> None]]
  /\ watch = [q \in Requests |-> None]
  /\ pc = [q \in Requests |-> "idle"]
  /\ proc = [q \in Requests |-> None]
  /\ target = [q \in Requests |-> IF q \in Jobs THEN q ELSE None]
  /\ event = [q \in Requests |-> None]
  /\ local = [q \in Requests |-> None]
  /\ sender = [q \in Requests |-> None]
  /\ answer = [q \in Requests |-> "none"]
  /\ rows = [j \in Jobs |-> None]
  /\ audit = {}
  /\ idType \in IF HasDb THEN {"uuid", "text"} ELSE {"text"}
  /\ keys = {}
  /\ queue = [k \in Queues |-> <<>>]
  /\ delivered = [j \in Jobs |-> 0]
  /\ clock = 0

-----------------------------------------------------------------------------
(* create_job                                                              *)

(* The model, the version and the node (hence the list) are resolved; the  *)
(* handler draws the id and the time and waits for the table's lock.       *)
BeginSubmit(j, r, k) ==
  /\ pc[j] = "idle"
  /\ Goto(j, "insert")
  /\ proc' = [proc EXCEPT ![j] = r]
  /\ clock' = clock + 1
  /\ local' = [local EXCEPT ![j] =
       [status |-> "IN_QUEUE", position |-> 0, lines |-> {}, result |-> None,
        created |-> clock, queue |-> k]]
  /\ UNCHANGED <<processVars, target, event, sender, answer, dbVars, redisVars>>

InsertJob(j) ==
  /\ pc[j] = "insert"
  /\ LET r == proc[j]
         d == Positioned(r, local[j])
     IN /\ Store(r, j, d)
        /\ notifier' = [notifier EXCEPT ![r][j] = j]
        /\ Send(j, d)
        /\ local' = [local EXCEPT ![j] = d]
  /\ Goto(j, IF HasDb THEN "insertRow" ELSE "setKey")
  /\ UNCHANGED <<proc, target, event, sender, answer, dbVars, redisVars, clock>>

(* Mutant: the error of the INSERT is logged and dropped.                  *)
InsertRowOrNot(j) ==
  /\ Executes(j, "insertRow")
  /\ rows' \in {rows, [rows EXCEPT ![j] = local[j]]}
  /\ Goto(j, "setKey")
  /\ UNCHANGED <<processVars, proc, target, event, local, sender, answer, audit,
                 idType, redisVars, clock>>

(* persist_new_job: two statements, no transaction.                        *)
InsertRow(j) ==
  /\ Executes(j, "insertRow")
  /\ rows' = [rows EXCEPT ![j] = local[j]]
  /\ Goto(j, "insertEvent")
  /\ UNCHANGED <<processVars, proc, target, event, local, sender, answer, audit,
                 idType, redisVars, clock>>

InsertEvent(j) ==
  /\ Executes(j, "insertEvent")
  /\ rows[j] # None
  /\ audit' = audit \cup {[job |-> j, request |-> j, status |-> local[j].status]}
  /\ Goto(j, "setKey")
  /\ UNCHANGED <<processVars, proc, target, event, local, sender, answer, rows,
                 idType, redisVars, clock>>

(* Mutant: the job is answered for once its payload is written.            *)
SetKeyOnly(j) ==
  /\ pc[j] = "setKey"
  /\ keys' = keys \cup {j}
  /\ Goto(j, "respond")
  /\ UNCHANGED <<processVars, proc, target, event, local, sender, answer, dbVars,
                 queue, delivered, clock>>

(* enqueue_job: SETEX job:<id>, then RPUSH.                                *)
SetKey(j) ==
  /\ pc[j] = "setKey"
  /\ keys' = keys \cup {j}
  /\ Goto(j, "push")
  /\ UNCHANGED <<processVars, proc, target, event, local, sender, answer, dbVars,
                 queue, delivered, clock>>

(* Mutant: a push whose answer is late is tried once more.                 *)
PushRetried(j) ==
  /\ pc[j] = "push"
  /\ queue' = [queue EXCEPT ![local[j].queue] = Append(@, j)]
  /\ \E l \in {"push", "respond"} : Goto(j, l)
  /\ Cardinality({i \in DOMAIN queue[local[j].queue] : queue[local[j].queue][i] = j}) < 2
  /\ UNCHANGED <<processVars, proc, target, event, local, sender, answer, dbVars,
                 keys, delivered, clock>>

Push(j) ==
  /\ pc[j] = "push"
  /\ queue' = [queue EXCEPT ![local[j].queue] = Append(@, j)]
  /\ Goto(j, "respond")
  /\ UNCHANGED <<processVars, proc, target, event, local, sender, answer, dbVars,
                 keys, delivered, clock>>

-----------------------------------------------------------------------------
(* Every other endpoint first makes sure the job is in the table.          *)

Arrive(q, r, j) ==
  /\ pc[q] = "idle"
  /\ Disclosed(j)
  /\ Goto(q, "check")
  /\ proc' = [proc EXCEPT ![q] = r]
  /\ target' = [target EXCEPT ![q] = j]
  /\ UNCHANGED <<processVars, local, sender, answer, dbVars, redisVars, clock>>

ArriveReport(q, r, j, e) ==
  /\ q \in Reports
  /\ Arrive(q, r, j)
  /\ event' = [event EXCEPT ![q] = e]

ArriveRequest(q, r, j) ==
  /\ q \in Cancels \cup Gets \cup Streams
  /\ Arrive(q, r, j)
  /\ UNCHANGED event

(* ensure_job_cached: a read lock for the look-up ...                      *)
CacheHit(q) ==
  /\ pc[q] = "check"
  /\ mem[proc[q]][target[q]] # None
  /\ Goto(q, AfterCached(q))
  /\ UNCHANGED <<processVars, proc, target, event, local, sender, answer, dbVars,
                 redisVars, clock>>

CacheMiss(q) ==
  /\ pc[q] = "check"
  /\ mem[proc[q]][target[q]] = None
  /\ HasDb
  /\ Goto(q, "readRow")
  /\ UNCHANGED <<processVars, proc, target, event, local, sender, answer, dbVars,
                 redisVars, clock>>

(* ... no lock for the query ...                                           *)
ReadRow(q) ==
  /\ Executes(q, "readRow")
  /\ rows[target[q]] # None
  /\ local' = [local EXCEPT ![q] = rows[target[q]]]
  /\ Goto(q, "cacheRow")
  /\ UNCHANGED <<processVars, proc, target, event, sender, answer, dbVars,
                 redisVars, clock>>

(* ... and a write lock for the insertion, of whatever the query returned  *)
(* and with a channel of its own.                                          *)
CacheRow(q) ==
  /\ pc[q] = "cacheRow"
  /\ LET r == proc[q]
         j == target[q]
         d == Positioned(r, local[q])
     IN /\ Store(r, j, d)
        /\ notifier' = [notifier EXCEPT ![r][j] = q]
        /\ Send(q, d)
  /\ local' = [local EXCEPT ![q] = None]
  /\ Goto(q, AfterCached(q))
  /\ UNCHANGED <<proc, target, event, sender, answer, dbVars, redisVars, clock>>

(* No table entry and no database, or no row: the job is unknown.          *)
Unknown(q) ==
  /\ \/ pc[q] = "check" /\ mem[proc[q]][target[q]] = None /\ ~HasDb
     \/ Executes(q, "readRow") /\ rows[target[q]] = None
  /\ End(q, "FAILED")
  /\ UNCHANGED <<processVars, proc, target, event, dbVars, redisVars, clock>>

-----------------------------------------------------------------------------
(* mutate_job under the write lock, then the row and the event without it. *)

(* Mutant: a report about a job that is over is accepted and ignored.      *)
MutateReportIfOpen(q) ==
  /\ pc[q] = "mutate"
  /\ q \in Reports
  /\ LET r == proc[q]
         j == target[q]
         open == mem[r][j].status \in {"IN_QUEUE", "IN_PROGRESS"}
         d == Positioned(r, IF open THEN Reported(mem[r][j], q, event[q]) ELSE mem[r][j])
     IN /\ Store(r, j, d)
        /\ Send(notifier[r][j], d)
        /\ local' = [local EXCEPT ![q] = d]
  /\ Goto(q, IF HasDb THEN "updateRow" ELSE "refresh")
  /\ UNCHANGED <<notifier, proc, target, event, sender, answer, dbVars, redisVars,
                 clock>>

MutateReport(q) ==
  /\ pc[q] = "mutate"
  /\ q \in Reports
  /\ LET r == proc[q]
         j == target[q]
         d == Positioned(r, Reported(mem[r][j], q, event[q]))
     IN /\ Store(r, j, d)
        /\ Send(notifier[r][j], d)
        /\ local' = [local EXCEPT ![q] = d]
  /\ Goto(q, IF HasDb THEN "updateRow" ELSE "refresh")
  /\ UNCHANGED <<notifier, proc, target, event, sender, answer, dbVars, redisVars,
                 clock>>

(* Mutant: whatever its status, the job is canceled.                       *)
MutateCancelAny(q) ==
  /\ pc[q] = "mutate"
  /\ q \in Cancels
  /\ LET r == proc[q]
         j == target[q]
         d == Positioned(r, Withdrawn(mem[r][j], q))
     IN /\ Store(r, j, d)
        /\ Send(notifier[r][j], d)
        /\ local' = [local EXCEPT ![q] = d]
        /\ answer' = [answer EXCEPT ![q] = CancelStatus(mem[r][j].status)]
  /\ Goto(q, IF HasDb THEN "updateRow" ELSE "respond")
  /\ UNCHANGED <<notifier, proc, target, event, sender, dbVars, redisVars, clock>>

MutateCancel(q) ==
  /\ pc[q] = "mutate"
  /\ q \in Cancels
  /\ LET r == proc[q]
         j == target[q]
         waiting == Waiting(r, j)
         d == Positioned(r, IF waiting THEN Withdrawn(mem[r][j], q) ELSE mem[r][j])
     IN /\ Store(r, j, d)
        /\ Send(notifier[r][j], d)
        /\ local' = [local EXCEPT ![q] = d]
        /\ answer' = [answer EXCEPT ![q] = CancelStatus(mem[r][j].status)]
        /\ Goto(q, IF waiting /\ HasDb THEN "updateRow" ELSE "respond")
  /\ UNCHANGED <<notifier, proc, target, event, sender, dbVars, redisVars, clock>>

(* Mutant: the UPDATE is an upsert.                                        *)
UpsertRow(q) ==
  /\ Executes(q, "updateRow")
  /\ rows' = [rows EXCEPT ![target[q]] = local[q]]
  /\ Goto(q, "record")
  /\ UNCHANGED <<processVars, proc, target, event, local, sender, answer, audit,
                 idType, redisVars, clock>>

(* update_job_row: the UPDATE of a missing row is no error.                *)
UpdateRow(q) ==
  /\ Executes(q, "updateRow")
  /\ rows' = [rows EXCEPT ![target[q]] = IF @ = None THEN None ELSE local[q]]
  /\ Goto(q, "record")
  /\ UNCHANGED <<processVars, proc, target, event, local, sender, answer, audit,
                 idType, redisVars, clock>>

AfterRecord(q) == IF q \in Reports THEN "refresh" ELSE "respond"

(* record_event: job_events.job_id references the row.                     *)
RecordEvent(q) ==
  /\ Executes(q, "record")
  /\ rows[target[q]] # None
  /\ audit' = audit \cup
       {[job |-> target[q], request |-> q, status |-> local[q].status]}
  /\ Goto(q, AfterRecord(q))
  /\ UNCHANGED <<processVars, proc, target, event, local, sender, answer, rows,
                 idType, redisVars, clock>>

-----------------------------------------------------------------------------
(* refresh_snapshot: the position under the lock, the send after it.       *)

(* Mutant: the record is put back from the handler's copy.                  *)
RefreshCopy(q) ==
  /\ pc[q] = "refresh"
  /\ LET r == proc[q]
         j == target[q]
         d == Positioned(r, local[q])
     IN /\ Store(r, j, d)
        /\ local' = [local EXCEPT ![q] = d]
        /\ sender' = [sender EXCEPT ![q] = notifier[r][j]]
  /\ Goto(q, "publish")
  /\ UNCHANGED <<notifier, watch, proc, target, event, answer, dbVars, redisVars,
                 clock>>

Refresh(q) ==
  /\ pc[q] = "refresh"
  /\ LET r == proc[q]
         j == target[q]
         d == Positioned(r, mem[r][j])
     IN /\ Store(r, j, d)
        /\ local' = [local EXCEPT ![q] = d]
        /\ sender' = [sender EXCEPT ![q] = notifier[r][j]]
  /\ Goto(q, "publish")
  /\ UNCHANGED <<notifier, watch, proc, target, event, answer, dbVars, redisVars,
                 clock>>

Publish(q) ==
  /\ pc[q] = "publish"
  /\ Send(sender[q], local[q])
  /\ Goto(q, "respond")
  /\ UNCHANGED <<mem, notifier, proc, target, event, local, sender, answer, dbVars,
                 redisVars, clock>>

(* The response reaches the caller.                                        *)
Respond(q) ==
  /\ pc[q] = "respond"
  /\ End(q, IF q \in Jobs THEN "CREATED"
            ELSE IF q \in Reports THEN "ACCEPTED"
            ELSE IF q \in Gets THEN "DETAILS" ELSE answer[q])
  /\ UNCHANGED <<processVars, proc, target, event, dbVars, redisVars, clock>>

-----------------------------------------------------------------------------
(* subscribe and stream_job_status: the stream ends when its channel is    *)
(* closed and what it held has been sent, and for no other reason.         *)

Subscribe(q) ==
  /\ pc[q] = "subscribe"
  /\ sender' = [sender EXCEPT ![q] = notifier[proc[q]][target[q]]]
  /\ Goto(q, "streaming")
  /\ UNCHANGED <<processVars, proc, target, event, local, answer, dbVars, redisVars,
                 clock>>

StreamSend(q) ==
  /\ pc[q] = "streaming"
  /\ watch[sender[q]] # local[q]
  /\ local' = [local EXCEPT ![q] = watch[sender[q]]]
  /\ UNCHANGED <<processVars, pc, proc, target, event, sender, answer, dbVars,
                 redisVars, clock>>

(* A channel is open while its record, the create_job that made it, or a   *)
(* refresh_snapshot holds a sender.                                        *)
ChannelOpen(c, r, j) ==
  \/ notifier[r][j] = c
  \/ c = j /\ pc[c] \in {"insertRow", "insertEvent", "setKey", "push"}
  \/ \E q \in Requests : pc[q] = "publish" /\ sender[q] = c

StreamEnd(q) ==
  /\ pc[q] = "streaming"
  /\ watch[sender[q]] = local[q]
  /\ ~ChannelOpen(sender[q], proc[q], target[q])
  /\ End(q, "STREAMED")
  /\ UNCHANGED <<processVars, proc, target, event, dbVars, redisVars, clock>>

-----------------------------------------------------------------------------
(* What goes wrong.                                                        *)

(* An await fails and `?` returns, or the caller hangs up and the server   *)
(* drops the handler where it is suspended.                                *)
Abandon(q) ==
  /\ pc[q] \notin {"idle", "done"}
  /\ End(q, "FAILED")
  /\ UNCHANGED <<processVars, proc, target, event, dbVars, redisVars, clock>>

(* Mutant: handle_runner_event drops them too.                             *)
AnyoneIgnoresDbError(q) ==
  /\ \/ pc[q] = "updateRow" /\ Goto(q, "record")
     \/ pc[q] = "record" /\ Goto(q, "respond")
  /\ UNCHANGED <<processVars, proc, target, event, local, sender, answer, dbVars,
                 redisVars, clock>>

(* cancel_job drops the errors of its two statements and goes on.          *)
CancelIgnoresDbError(q) ==
  /\ q \in Cancels
  /\ \/ pc[q] = "updateRow" /\ Goto(q, "record")
     \/ pc[q] = "record" /\ Goto(q, "respond")
  /\ UNCHANGED <<processVars, proc, target, event, local, sender, answer, dbVars,
                 redisVars, clock>>

(* What becomes of a handler whose statement the database's driver does    *)
(* not send: an error for its caller, but not in cancel_job's two.         *)
Refused(q) ==
  /\ idType = "uuid"
  /\ IF q \in Cancels /\ pc[q] # "readRow" THEN CancelIgnoresDbError(q)
     ELSE /\ pc[q] \in {"insertRow", "insertEvent", "readRow", "updateRow", "record"}
          /\ End(q, "FAILED")
          /\ UNCHANGED <<processVars, proc, target, event, dbVars, redisVars, clock>>

(* The process dies: its table, its channels and its handlers are gone.    *)
Restart(r) ==
  /\ mem' = [mem EXCEPT ![r] = [j \in Jobs |-> None]]
  /\ notifier' = [notifier EXCEPT ![r] = [j \in Jobs |-> None]]
  /\ LET killed == {q \in Requests : proc[q] = r /\ pc[q] # "done"}
     IN /\ pc' = [q \in Requests |-> IF q \in killed THEN "done" ELSE pc[q]]
        /\ answer' = [q \in Requests |-> IF q \in killed THEN "FAILED" ELSE answer[q]]
        /\ local' = [q \in Requests |-> IF q \in killed THEN None ELSE local[q]]
        /\ sender' = [q \in Requests |-> IF q \in killed THEN None ELSE sender[q]]
  /\ watch' = [q \in Requests |-> IF proc[q] = r THEN None ELSE watch[q]]
  /\ UNCHANGED <<proc, target, event, dbVars, redisVars, clock>>

(* A runner's BLPOP.                                                       *)
Dequeue(k) ==
  /\ queue[k] # <<>>
  /\ delivered' = [delivered EXCEPT ![Head(queue[k])] = @ + 1]
  /\ queue' = [queue EXCEPT ![k] = Tail(@)]
  /\ UNCHANGED <<processVars, handlerVars, dbVars, keys, clock>>

-----------------------------------------------------------------------------
(* The steps of one handler that is not the first.                         *)
Submission(j) ==
  \/ InsertJob(j)
  \/ InsertRow(j)
  \/ InsertEvent(j)
  \/ SetKey(j)
  \/ Push(j)

Lookup(q) == CacheHit(q) \/ CacheMiss(q) \/ ReadRow(q) \/ CacheRow(q) \/ Unknown(q)

Change(q) == MutateReport(q) \/ MutateCancel(q) \/ UpdateRow(q) \/ RecordEvent(q)

Showing(q) ==
  \/ Refresh(q)
  \/ Publish(q)
  \/ Subscribe(q)
  \/ StreamSend(q)
  \/ StreamEnd(q)

Handler(q) == Lookup(q) \/ Change(q) \/ Showing(q) \/ Refused(q) \/ Respond(q)

Arrival ==
  \/ \E j \in Jobs, r \in Replicas, k \in Queues : BeginSubmit(j, r, k)
  \/ \E q \in Reports, r \in Replicas, j \in Jobs, e \in Events : ArriveReport(q, r, j, e)
  \/ \E q \in Requests, r \in Replicas, j \in Jobs : ArriveRequest(q, r, j)

Progress == (\E j \in Jobs : Submission(j)) \/ (\E q \in Requests : Handler(q))

Failure == \E q \in Requests : Abandon(q) \/ CancelIgnoresDbError(q)

Delivery == \E k \in Queues : Dequeue(k)

Next == Arrival \/ Progress \/ Delivery \/ Failure

(* The service over any number of restarts: each life of a process begins  *)
(* with an empty table and with the rows that the earlier ones left.       *)
Spec == Init /\ [][Next \/ \E r \in Replicas : Restart(r)]_vars

(* Tokio polls every handler that can run; nothing fails.                  *)
FairSpec ==
  /\ Init
  /\ [][Arrival \/ Progress \/ Delivery]_vars
  /\ \A j \in Jobs : WF_vars(Submission(j))
  /\ \A q \in Requests : WF_vars(Handler(q))

-----------------------------------------------------------------------------
(* What holds over restarts and with any number of replicas.               *)

(* The places of a job in the lists.                                       *)
InList(j) == UNION {{k} \X {i \in DOMAIN queue[k] : queue[k][i] = j} : k \in Queues}

(* A job is handed to at most one runner: however submissions, failures    *)
(* and restarts interleave, its id is pushed once and popped once.         *)
DeliveredAtMostOnce == \A j \in Jobs : Cardinality(InList(j)) + delivered[j] <= 1

(* A submission answered 201 left a row behind and an id in a list (or     *)
(* with a runner): create_job answers after both stores hold the job.      *)
CreatedIsDurable ==
  \A j \in Jobs : answer[j] = "CREATED" =>
    /\ HasDb => rows[j] # None
    /\ InList(j) # {} \/ delivered[j] > 0

(* Whatever a runner can pop, it finds a payload for, and a report about   *)
(* it finds a row: enqueue_job pushes the id last.                         *)
ListedIsReady ==
  \A j \in Jobs : InList(j) # {} \/ delivered[j] > 0 =>
    j \in keys /\ (HasDb => rows[j] # None)

(* A report answered 202 is in job_events, whichever replica took it and   *)
(* whatever later handlers wrote to the row.                               *)
AcceptedIsAudited ==
  \A q \in Reports : HasDb /\ answer[q] = "ACCEPTED" =>
    \E a \in audit : a.request = q /\ a.job = target[q]

(* docs/api_reference.md: queue_position is "present only in IN_QUEUE" -   *)
(* in the table, in the row, on the channel and in a handler's copy.       *)
PositionFits(d) == d = None \/ (d.position # NoPosition <=> d.status = "IN_QUEUE")

PositionOnlyInQueue ==
  /\ \A r \in Replicas, j \in Jobs : PositionFits(mem[r][j])
  /\ \A j \in Jobs : PositionFits(rows[j])
  /\ \A q \in Requests : PositionFits(watch[q]) /\ PositionFits(local[q])

-----------------------------------------------------------------------------
(* What a process keeps of the jobs it took, for as long as it lives.      *)

Lines(d) == IF d = None THEN {} ELSE d.lines

(* create_job made this record in this life of r.  A record that           *)
(* ensure_job_cached made of a row of an earlier life, or of another       *)
(* replica, has the channel of the handler that looked it up.              *)
Own(r, j) == notifier[r][j] = j

(* No copy of such a job knows more than the table: its channel and every  *)
(* handler's clone are what the table once held, and so is the row unless  *)
(* another replica writes to it.                                           *)
TableIsAhead ==
  \A r \in Replicas, j \in Jobs : Own(r, j) =>
    /\ Lines(watch[j]) \subseteq Lines(mem[r][j])
    /\ \A q \in Requests : proc[q] = r /\ target[q] = j =>
         Lines(local[q]) \subseteq Lines(mem[r][j])
    /\ Replicas = {r} => Lines(rows[j]) \subseteq Lines(mem[r][j])

(* A report it answered 202 is never forgotten by the table.               *)
AcceptedIsKept ==
  \A q \in Reports : answer[q] = "ACCEPTED" /\ Own(proc[q], target[q]) =>
    q \in Lines(mem[proc[q]][target[q]])

(* Of all the callers that cancel such a job there at most one is told     *)
(* that its cancellation was requested.                                    *)
OneCancellation ==
  \A p, q \in Cancels :
    /\ target[p] = target[q] /\ proc[p] = proc[q]
    /\ target[p] # None /\ Own(proc[p], target[p])
    /\ answer[p] = "CANCELLATION_REQUESTED"
    /\ answer[q] = "CANCELLATION_REQUESTED"
    => p = q

(* A job that left IN_QUEUE does not return to it, and its log never loses *)
(* a line.                                                                 *)
Onward(d, e) ==
  /\ e # None
  /\ d.status # "IN_QUEUE" => e.status # "IN_QUEUE"
  /\ d.lines \subseteq e.lines

(* The process forgets all, or a second of two look-ups that missed puts   *)
(* the row it has read over the record that the first one made.            *)
Forgotten(r) == \A j \in Jobs : mem'[r][j] = None
PutAgain(r, j) == ~Own(r, j) /\ notifier'[r][j] # notifier[r][j]

(* Nothing else moves a record back, whichever process made it of what: in *)
(* particular nothing at all does in the life that created the job.        *)
TableMovesOnward ==
  [][\A r \in Replicas, j \in Jobs :
       mem[r][j] # None =>
         Onward(mem[r][j], mem'[r][j]) \/ Forgotten(r) \/ PutAgain(r, j)]_vars

-----------------------------------------------------------------------------
(* What the documents say and the code does not do.                        *)

(* docs/phase2c_orchestrator_artifacts.md: "Orchestrator updates job       *)
(* record (status/artifacts) and pushes status via SSE": when no handler   *)
(* is at work on a job any more, its stream has shown the status of the    *)
(* record, which is what a poll would answer.                              *)
AtWork(q) == pc[q] \notin {"idle", "streaming", "done"}

StreamShowsTheRecord ==
  \A s \in Streams :
    /\ pc[s] = "streaming" /\ watch[sender[s]] = local[s]
    /\ \A q \in Requests : target[q] = target[s] => ~AtWork(q)
    => local[s].status = mem[proc[s]][target[s]].status

(* docs/api_reference.md: the status stream "terminates on completion or   *)
(* cancellation".                                                          *)
Finished(d) == d # None /\ d.status \in {"COMPLETED", "CANCELED"}

StreamTerminates ==
  \A s \in Streams :
    pc[s] = "streaming" /\ Finished(local[s]) ~> pc[s] = "done" \/ ~Finished(local[s])

=============================================================================
