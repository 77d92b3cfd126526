------------------------------ MODULE Platform ------------------------------
(***************************************************************************)
(* The orchestrator composed with the runners that drain its lists         *)
(* (runners/template and runner-qwen, app/worker.py) and with the admin    *)
(* service that works on the same Redis and Postgres behind its back       *)
(* (cmd/admin-rest/main.go).                                               *)
(*                                                                         *)
(* A runner pops an id, fetches its payload, reports IN_PROGRESS, runs the *)
(* model and reports the outcome.  A report is an HTTP request to the      *)
(* orchestrator: here, a Reports request the runner then waits for.        *)
(***************************************************************************)
EXTENDS Orchestrator

CONSTANTS
  Workers,    \* worker tasks
  Listens     \* the lists a worker names in its BLPOP, in order

ASSUME ListensTyped == Listens \in [Workers -> Seq(Queues)]

VARIABLES
  stage,      \* what a worker is doing
  held,       \* the job it popped
  call,       \* the report it waits for
  client,     \* the runners' callback client: "none" without a URL; or it is
              \* made on first use, which "works" or "raises"
  odd         \* the jobs whose payload is a string, a list, a number or TRUE

inputs == <<client, odd>>
workerVars == <<stage, held, call, inputs>>
platformVars == <<vars, workerVars>>

Stages == {"poll", "fetch", "missing", "start", "generate", "complete", "fail"}

Progressed == [kind |-> "IN_PROGRESS", hasResult |-> FALSE]
Completed  == [kind |-> "COMPLETED", hasResult |-> TRUE]
Failed     == [kind |-> "ERROR", hasResult |-> FALSE]

ASSUME RunnersPost == {Progressed, Completed, Failed} \subseteq Events

PlatformTypeOK ==
  /\ TypeOK
  /\ stage \in [Workers -> Stages]
  /\ held \in [Workers -> Jobs \cup {None}]
  /\ call \in [Workers -> Reports \cup {None}]
  /\ client \in {"none", "works", "raises"}
  /\ odd \subseteq Jobs

PlatformInit ==
  /\ Init
  /\ stage = [w \in Workers |-> "poll"]
  /\ held = [w \in Workers |-> None]
  /\ call = [w \in Workers |-> None]
  /\ client \in {"none", "works", "raises"}
  /\ odd \in SUBSET Jobs

-----------------------------------------------------------------------------
(* poll_and_process: BLPOP takes from the first list that is not empty.    *)

FirstReady(w, k) ==
  \E i \in DOMAIN Listens[w] :
    /\ Listens[w][i] = k
    /\ queue[k] # <<>>
    /\ \A h \in 1..(i - 1) : queue[Listens[w][h]] = <<>>

(* Mutant: the id is read and not removed.                                 *)
Peek(w) ==
  /\ stage[w] = "poll"
  /\ \E k \in Queues :
       /\ FirstReady(w, k)
       /\ held' = [held EXCEPT ![w] = Head(queue[k])]
  /\ stage' = [stage EXCEPT ![w] = "fetch"]
  /\ UNCHANGED <<vars, call, inputs>>

Pop(w) ==
  /\ stage[w] = "poll"
  /\ \E k \in Queues :
       /\ FirstReady(w, k)
       /\ held' = [held EXCEPT ![w] = Head(queue[k])]
       /\ Dequeue(k)
  /\ stage' = [stage EXCEPT ![w] = "fetch"]
  /\ UNCHANGED <<call, inputs>>

(* process_job returns, or raises into poll_and_process, which logs it and *)
(* polls again.                                                            *)
LetGo(w) ==
  /\ stage' = [stage EXCEPT ![w] = "poll"]
  /\ held' = [held EXCEPT ![w] = None]
  /\ call' = [call EXCEPT ![w] = None]
  /\ UNCHANGED inputs

(* fetch_job_payload ...                                                   *)
Fetch(w) ==
  /\ stage[w] = "fetch"
  /\ stage' = [stage EXCEPT ![w] = IF held[w] \in keys THEN "start" ELSE "missing"]
  /\ UNCHANGED <<vars, held, call, inputs>>

(* ... and the prompt taken from its body: of one that is no object, in    *)
(* the template before anything is reported and outside of the try (in     *)
(* runner-qwen it is inside, and generate fails).                          *)
BodyRaises(w) ==
  /\ stage[w] = "fetch"
  /\ held[w] \in keys \cap odd
  /\ LetGo(w)
  /\ UNCHANGED vars

(* The report of each stage, and what process_job does after it.           *)
Body(s) == CASE s = "start" -> Progressed [] s = "complete" -> Completed [] OTHER -> Failed

(* Mutants: the worker loop ends after a job; a completed report is        *)
(* followed by the report of the failure branch.                           *)
AfterStopped(s) == IF s = "start" THEN "generate" ELSE "stopped"
AfterFallsThrough(s) ==
  CASE s = "start" -> "generate" [] s = "complete" -> "fail" [] OTHER -> "poll"

After(s) == IF s = "start" THEN "generate" ELSE "poll"

Reporting(w) == stage[w] \in {"missing", "start", "complete", "fail"}

(* post_event: the request is sent ...                                     *)
Post(w) ==
  /\ Reporting(w)
  /\ client = "works"
  /\ call[w] = None
  /\ \E q \in Reports, r \in Replicas :
       /\ ArriveReport(q, r, held[w], Body(stage[w]))
       /\ call' = [call EXCEPT ![w] = q]
  /\ UNCHANGED <<stage, held, inputs>>

(* ... or _ensure_client raises, outside of its try: on the way to         *)
(* COMPLETED the report of the failure raises once more ...                *)
ClientRaises(w) ==
  /\ Reporting(w)
  /\ client = "raises"
  /\ LetGo(w)
  /\ UNCHANGED vars

MoveOn(w) ==
  /\ stage' = [stage EXCEPT ![w] = After(stage[w])]
  /\ held' = [held EXCEPT ![w] = IF After(stage[w]) = "poll" THEN None ELSE @]
  /\ call' = [call EXCEPT ![w] = None]
  /\ UNCHANGED inputs

(* ... or nothing is sent.                                                 *)
Unsent(w) ==
  /\ Reporting(w)
  /\ client = "none"
  /\ MoveOn(w)
  /\ UNCHANGED vars

(* Mutant: the report is sent in the background.                           *)
NotAwaited(w) ==
  /\ call[w] # None
  /\ MoveOn(w)
  /\ UNCHANGED vars

(* A report is answered, with success or not: errors are logged and dropped.   *)
Answered(w) ==
  /\ call[w] # None
  /\ pc[call[w]] = "done"
  /\ MoveOn(w)
  /\ UNCHANGED vars

(* Mutant: an exception of the backend ends the job unreported.            *)
GenerateRaises(w) ==
  /\ stage[w] = "generate"
  /\ \/ stage' = [stage EXCEPT ![w] = "complete"] /\ UNCHANGED held
     \/ stage' = [stage EXCEPT ![w] = "poll"] /\ held' = [held EXCEPT ![w] = None]
  /\ UNCHANGED <<vars, call, inputs>>

(* backend.generate returns or raises.                                     *)
Generate(w) ==
  /\ stage[w] = "generate"
  /\ \E s \in {"complete", "fail"} : stage' = [stage EXCEPT ![w] = s]
  /\ UNCHANGED <<vars, held, call, inputs>>

(* The request never arrives, or its answer does not come in time.         *)
PostLost(w) ==
  /\ Reporting(w)
  /\ client = "works"
  /\ MoveOn(w)
  /\ UNCHANGED vars

(* The runner dies; nothing puts the job back.                             *)
Crash(w) ==
  /\ stage[w] # "poll"
  /\ LetGo(w)
  /\ UNCHANGED vars

-----------------------------------------------------------------------------
(* The admin service and Redis itself.                                     *)

(* handleClearQueue: DEL of one list.                                      *)
ClearQueue(k) ==
  /\ queue[k] # <<>>
  /\ queue' = [queue EXCEPT ![k] = <<>>]
  /\ UNCHANGED <<processVars, handlerVars, dbVars, keys, delivered, clock, workerVars>>

(* handleFlushRedis, and handleWipeAll: KEYS of the lists, KEYS of the     *)
(* payloads, DEL of both; what is written between the three escapes.       *)
WipeRedis ==
  /\ keys # {}
  /\ \E lists \in SUBSET Queues, payloads \in SUBSET keys :
       /\ queue' = [k \in Queues |-> IF k \in lists THEN <<>> ELSE queue[k]]
       /\ keys' = keys \ payloads
  /\ UNCHANGED <<processVars, handlerVars, dbVars, delivered, clock, workerVars>>

(* handleDeleteJob (handleClearAllJobs, one by one): the row, and by the   *)
(* foreign key its events.                                                 *)
DeleteJob(j) ==
  /\ rows[j] # None
  /\ rows' = [rows EXCEPT ![j] = None]
  /\ audit' = {a \in audit : a.job # j}
  /\ UNCHANGED <<processVars, handlerVars, idType, redisVars, clock, workerVars>>

(* The payload's day is over: SETEX ... 86400.                             *)
KeyExpires(j) ==
  /\ j \in keys
  /\ keys' = keys \ {j}
  /\ UNCHANGED <<processVars, handlerVars, dbVars, queue, delivered, clock, workerVars>>

-----------------------------------------------------------------------------
Runner(w) ==
  \/ Pop(w)
  \/ Fetch(w)
  \/ BodyRaises(w)
  \/ Post(w)
  \/ ClientRaises(w)
  \/ Unsent(w)
  \/ Answered(w)
  \/ Generate(w)

Callers ==
  \/ \E j \in Jobs, r \in Replicas, k \in Queues : BeginSubmit(j, r, k)
  \/ \E q \in Requests, r \in Replicas, j \in Jobs : ArriveRequest(q, r, j)

Service == (Callers \/ Progress) /\ UNCHANGED workerVars

Accident ==
  \/ (Failure \/ \E r \in Replicas : Restart(r)) /\ UNCHANGED workerVars
  \/ \E w \in Workers : PostLost(w) \/ Crash(w)

Admin ==
  \/ \E k \in Queues : ClearQueue(k)
  \/ WipeRedis
  \/ \E j \in Jobs : DeleteJob(j) \/ KeyExpires(j)

PlatformNext == Service \/ \E w \in Workers : Runner(w)

(* Nothing fails: callers may come or not, handlers and runners go on.     *)
ReliableSpec ==
  /\ PlatformInit
  /\ [][PlatformNext]_platformVars
  /\ \A j \in Jobs : WF_platformVars(Submission(j) /\ UNCHANGED workerVars)
  /\ \A q \in Requests : WF_platformVars(Handler(q) /\ UNCHANGED workerVars)
  /\ \A w \in Workers : WF_platformVars(Runner(w))

(* Everything may fail and the admin service is used.                      *)
HostileSpec == PlatformInit /\ [][PlatformNext \/ Accident \/ Admin]_platformVars

-----------------------------------------------------------------------------
(* Properties.                                                             *)

(* A model never runs twice for one job: no two workers hold the same id,  *)
(* and an id a worker holds is in no list - not after any crash, restart,  *)
(* lost answer or admin operation.                                         *)
OneRunner ==
  /\ \A w, v \in Workers : held[w] = held[v] /\ held[w] # None => w = v
  /\ \A w \in Workers : held[w] # None => InList(held[w]) = {}

(* A row that was deleted is never written back by a handler that was      *)
(* suspended, or had its copy in the table, when the row went.             *)
DeletedStaysDeleted ==
  [][\A j \in Jobs : Disclosed(j) /\ rows[j] = None => rows'[j] = None]_platformVars

Ended(d) == d # None /\ d.status \in {"COMPLETED", "ERROR"}

(* The runner can read the job's body and report on it.                    *)
Readable(j) == client = "works" /\ j \notin odd

(* Without accidents, a job that its runner could read and is through with *)
(* has ended in the table: the runner waits for each answer, and the table *)
(* was written before the answer.                                          *)
ThroughIsEnded ==
  \A j \in Jobs :
    Readable(j) /\ delivered[j] > 0 /\ (\A w \in Workers : held[w] # j) =>
      \A r \in Replicas : Ended(mem[r][j])

(* ... and it stays as it ended.                                           *)
EndedIsFinal ==
  [][\A r \in Replicas, j \in Jobs :
       Ended(mem[r][j]) => mem'[r][j].status = mem[r][j].status
                           /\ mem'[r][j].result = mem[r][j].result]_platformVars

(* Without accidents, and where the database takes the ids, every readable *)
(* submission is worked off for good, in the table and in the row.         *)
EverySubmissionEnds ==
  \A j \in Jobs : pc[j] = "insert" /\ Readable(j) /\ idType = "text" ~>
    []((\A r \in Replicas : Ended(mem[r][j])) /\ (HasDb => Ended(rows[j])))

(* docs/system_design.md: on cancellation "orchestrator attempts to signal *)
(* runner": a job is not run to completion after its cancellation.         *)
CanceledIsNotRun ==
  \A c \in Cancels : answer[c] = "CANCELLATION_REQUESTED" =>
    \A r \in Replicas : mem[r][target[c]] # None =>
      mem[r][target[c]].status # "COMPLETED"
=============================================================================
