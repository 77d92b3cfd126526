------------------------------ MODULE NodeQueue ------------------------------
(***************************************************************************)
(* The queue of pkg/queue/redis.go and the FLUX runner's worker that       *)
(* serves it (runner-flux/app/worker.py).  A job for a node is pushed to   *)
(* the list of the node and to the list of the model; who pops it from one *)
(* list has to take it out of the other.  Of its record the status and the *)
(* expiry are kept, and of its params whether the worker can use them.     *)
(* A list is kept as the number of times it has each job; its order is     *)
(* left out: pops take any of its jobs.                                    *)
(* The repository has no caller of EnqueueJob: the orchestrator pushes to  *)
(* one list, and writes params under a name this worker does not read      *)
(* (params = "none", forNode = FALSE here).                                *)
(***************************************************************************)
EXTENDS Naturals, FiniteSets

CONSTANTS
  Jobs,
  NodeWorkers, ModelWorkers,  \* FLUX workers with and without VYVO_NODE_ID
  Consumers,    \* callers of DequeueJob, CompleteJob and FailJob
  None,
  MaxMishaps    \* bound: commands that fail or are repeated,
                \* answers that are lost, workers that stop

ASSUME WorkersDisjoint ==
  /\ NodeWorkers \cap ModelWorkers = {}
  /\ Consumers \cap (NodeWorkers \cup ModelWorkers) = {}
ASSUME MishapsAreCounted == MaxMishaps \in Nat

VARIABLES
  record,       \* job:<id>
  list,         \* queue:<node>:<model> and queue:<model>: copies of each job
  enqueue,      \* EnqueueJob's place
  forNode,      \* the job has a NodeID
  params,       \* "prompt", "none": no prompt in them, "unfit": null, or with a
                \* field InvokeRequest refuses
  pc, cur,      \* a worker's or consumer's place and job
  client,       \* RUNNER_CALLBACK_URL: "none", or whether the HTTP client of
                \* the worker can be made: "works", "raises"
  takers, pops, \* history: who popped a job, and how often
  raced,        \* history: jobs popped amid their pushes, or from one list while
                \* who popped them from the other had not removed them; jobs
                \* with a push that was repeated
  ended, raised,     \* history: jobs with a result or an ERROR report; jobs that
                \* raised an exception in the worker
  mishaps

queueVars == <<record, list, enqueue, forNode, params>>
workVars == <<pc, cur>>
historyVars == <<takers, pops, raced, ended, raised>>
vars == <<queueVars, workVars, client, historyVars, mishaps>>

Workers == NodeWorkers \cup ModelWorkers
Takers == Workers \cup Consumers
Lists == {"node", "model"}
Record == [status : {"pending", "processing", "completed", "failed"}, ttl : BOOLEAN]

ASSUME NoneIsNoValue == None \notin Jobs \cup Record

QueueTypeOK ==
  /\ record \in [Jobs -> Record \cup {None}]
  /\ list \in [Lists -> [Jobs -> Nat]]
  /\ enqueue \in [Jobs -> {"idle", "node", "model", "done", "failed"}]
  /\ forNode \in [Jobs -> BOOLEAN] /\ params \in [Jobs -> {"prompt", "none", "unfit"}]
  /\ pc \in [Takers -> {"poll", "drop node", "drop model", "read", "begin", "report",
                        "run", "tell", "working", "complete", "fail"}]
  /\ cur \in [Takers -> Jobs \cup {None}]
  /\ client \in {"none", "works", "raises"}
  /\ takers \in [Jobs -> SUBSET Takers]
  /\ pops \in [Jobs -> Nat] /\ \A j \in Jobs : pops[j] <= 2 + MaxMishaps
  /\ raced \subseteq Jobs /\ ended \subseteq Jobs /\ raised \subseteq Jobs
  /\ mishaps \in 0..MaxMishaps

Init ==
  /\ record = [j \in Jobs |-> None] /\ list = [l \in Lists |-> [j \in Jobs |-> 0]]
  /\ enqueue = [j \in Jobs |-> "idle"]
  /\ forNode \in [Jobs -> BOOLEAN] /\ params \in [Jobs -> {"prompt", "none", "unfit"}]
  /\ pc = [t \in Takers |-> "poll"] /\ cur = [t \in Takers |-> None]
  /\ client \in {"none", "works", "raises"}
  /\ takers = [j \in Jobs |-> {}] /\ pops = [j \in Jobs |-> 0]
  /\ raced = {} /\ ended = {} /\ raised = {} /\ mishaps = 0

Mishap == mishaps < MaxMishaps /\ mishaps' = mishaps + 1

-----------------------------------------------------------------------------
(* EnqueueJob: SET, and a push to each list; an error ends it.             *)

Set(j, status, ttl) == record' = [record EXCEPT ![j] = [status |-> status, ttl |-> ttl]]
Push(l, j) == list' = [list EXCEPT ![l][j] = @ + 1]
EnqueueAt(j, l) == enqueue' = [enqueue EXCEPT ![j] = l]

EnqueueRest == UNCHANGED <<forNode, params, workVars, client, historyVars, mishaps>>

EnqueueSet(j) ==
  /\ enqueue[j] = "idle"
  /\ Set(j, "pending", TRUE)
  /\ EnqueueAt(j, IF forNode[j] THEN "node" ELSE "model")
  /\ UNCHANGED list /\ EnqueueRest

EnqueuePush(j) ==
  /\ \/ enqueue[j] = "node" /\ Push("node", j) /\ EnqueueAt(j, "model")
     \/ enqueue[j] = "model" /\ Push("model", j) /\ EnqueueAt(j, "done")
  /\ UNCHANGED record /\ EnqueueRest

(* A push that took effect, but whose answer is lost: the client, made with *)
(* the default options, repeats the command.                               *)
EnqueueAgain(j) ==
  /\ \E l \in Lists : enqueue[j] = l /\ Push(l, j)
  /\ Mishap /\ raced' = raced \cup {j}
  /\ UNCHANGED <<record, enqueue, forNode, params, workVars, client, takers, pops, ended, raised>>

EnqueueFails(j) ==
  /\ enqueue[j] \in {"idle", "node", "model"}
  /\ Mishap /\ EnqueueAt(j, "failed")
  /\ UNCHANGED <<record, list, forNode, params, workVars, client, historyVars>>

(* The 24 hours of a record are over; a record the worker has written has  *)
(* none.                                                                   *)
Expires(j) ==
  /\ record[j] # None /\ record[j].ttl
  /\ record' = [record EXCEPT ![j] = None]
  /\ UNCHANGED <<list, enqueue>> /\ EnqueueRest

-----------------------------------------------------------------------------
(* Steps of who takes jobs.                                                *)

Goto(t, l) == pc' = [pc EXCEPT ![t] = l]
Stay == UNCHANGED cur
Over(t) == Goto(t, "poll") /\ cur' = [cur EXCEPT ![t] = None]

Other(l) == IF l = "node" THEN "model" ELSE "node"
Dropping(l) == IF l = "node" THEN "drop node" ELSE "drop model"
AtRemove(w, j) == pc[w] \in {"drop node", "drop model"} /\ cur[w] = j

(* BLPOP takes the job off the list, for this taker alone.                 *)
Take(t, l, j) ==
  /\ pc[t] = "poll" /\ list[l][j] > 0
  /\ list' = [list EXCEPT ![l][j] = @ - 1]
  /\ cur' = [cur EXCEPT ![t] = j]
  /\ takers' = [takers EXCEPT ![j] = @ \cup {t}] /\ pops' = [pops EXCEPT ![j] = @ + 1]
  /\ raced' = IF enqueue[j] \in {"node", "model"} \/ \E w \in Workers : AtRemove(w, j)
               THEN raced \cup {j} ELSE raced
  /\ UNCHANGED <<record, enqueue, forNode, params, client, ended, raised, mishaps>>

Still == UNCHANGED <<enqueue, forNode, params, client, takers, pops>>
At(w, l) == pc[w] = l /\ Still /\ UNCHANGED raced

(* The job has left its list, and the answer is lost with the connection.  *)
Loses(t) ==
  /\ pc[t] = "poll" /\ Mishap
  /\ \E l \in Lists, j \in Jobs :
       /\ l = "node" => t \in NodeWorkers
       /\ list[l][j] > 0 /\ list' = [list EXCEPT ![l][j] = @ - 1]
  /\ UNCHANGED <<record, enqueue, forNode, params, workVars, client, historyVars>>

(* post_event: without a URL it returns and sends nothing.  The client is  *)
(* made on first use, outside of the try: what that raises leaves          *)
(* _process, where the loop logs it.  A post that fails is logged, too.    *)
Returns == client # "raises"

(* FluxQueueWorker.run: BLPOP looks at the lists in order.                 *)
Pop(w) ==
  \/ \E j \in Jobs : w \in NodeWorkers /\ Take(w, "node", j) /\ Goto(w, Dropping("model"))
  \/ \E j \in Jobs :
       /\ w \in NodeWorkers /\ \A k \in Jobs : list["node"][k] = 0
       /\ Take(w, "model", j) /\ Goto(w, Dropping("node"))
  \/ \E j \in Jobs : w \in ModelWorkers /\ Take(w, "model", j) /\ Goto(w, "read")

(* Mutant: the job is left on the other list.                              *)
RemoveNothing(w) ==
  /\ \E l \in Lists : At(w, Dropping(l))
  /\ Goto(w, "read")
  /\ UNCHANGED <<record, list, ended, raised, mishaps>> /\ Stay

(* LREM of every copy in the other list.                                   *)
Remove(w) ==
  /\ \E l \in Lists : At(w, Dropping(l)) /\ list' = [list EXCEPT ![l][cur[w]] = 0]
  /\ Goto(w, "read")
  /\ UNCHANGED <<record, ended, raised, mishaps>> /\ Stay

(* Mutant: a job without a record is dropped.                              *)
ReadSilently(w) ==
  LET j == cur[w] IN
  /\ At(w, "read")
  /\ \/ (record[j] = None \/ params[j] = "none") /\ Over(w) /\ UNCHANGED raised
     \/ record[j] # None /\ params[j] = "unfit" /\ Over(w) /\ raised' = raised \cup {j}
     \/ record[j] # None /\ params[j] = "prompt" /\ Goto(w, "begin") /\ Stay /\ UNCHANGED raised
  /\ UNCHANGED <<record, list, ended, mishaps>>

(* _process: GET; without a record or a prompt an ERROR is reported, and   *)
(* the record stays as it is.  Params that are null, or that InvokeRequest *)
(* refuses, raise outside of the try: nothing is reported.                 *)
Read(w) ==
  LET j == cur[w] IN
  /\ At(w, "read")
  /\ \/ /\ record[j] = None \/ params[j] = "none"
        /\ Over(w) /\ ended' = (IF client = "works" THEN ended \cup {j} ELSE ended)
        /\ UNCHANGED raised
     \/ /\ record[j] # None /\ params[j] = "unfit"
        /\ Over(w) /\ raised' = raised \cup {j} /\ UNCHANGED ended
     \/ /\ record[j] # None /\ params[j] = "prompt"
        /\ Goto(w, "begin") /\ Stay /\ UNCHANGED <<ended, raised>>
  /\ UNCHANGED <<record, list, mishaps>>

(* Mutant: the status is the report's.                                     *)
BeginReported(w) ==
  /\ At(w, "begin") /\ Goto(w, "report")
  /\ Set(cur[w], "IN_PROGRESS", FALSE)
  /\ UNCHANGED <<list, ended, raised, mishaps>> /\ Stay

(* processing; a SET without EX, so the record now stays.                  *)
Begin(w) ==
  /\ At(w, "begin") /\ Goto(w, "report")
  /\ Set(cur[w], "processing", FALSE)
  /\ UNCHANGED <<list, ended, raised, mishaps>> /\ Stay

(* IN_PROGRESS.                                                            *)
Report(w) ==
  /\ At(w, "report")
  /\ IF Returns THEN Goto(w, "run") /\ Stay ELSE Over(w)
  /\ UNCHANGED <<record, list, ended, raised, mishaps>>

(* backend.generate: completed and SET, or an exception - which the clause *)
(* except HTTPException, a name the module does not have, turns into a     *)
(* NameError: no report, and the record stays processing.                  *)
Run(w) ==
  LET j == cur[w] IN
  /\ At(w, "run")
  /\ \/ Set(j, "completed", FALSE) /\ ended' = ended \cup {j}
        /\ Goto(w, "tell") /\ Stay /\ UNCHANGED raised
     \/ raised' = raised \cup {j} /\ Over(w) /\ UNCHANGED <<record, ended>>
  /\ UNCHANGED <<list, mishaps>>

(* COMPLETED, and the loop goes on.                                        *)
Tell(w) ==
  /\ At(w, "tell") /\ Over(w)
  /\ UNCHANGED <<record, list, ended, raised, mishaps>>

(* A command fails, or the process stops: the job has left its list.       *)
(* If it stops before the LREM it is still in the other.                   *)
Stops(t) ==
  /\ pc[t] # "poll" /\ Still
  /\ Mishap /\ Over(t)
  /\ raced' = IF AtRemove(t, cur[t]) THEN raced \cup {cur[t]} ELSE raced
  /\ UNCHANGED <<record, list, ended, raised>>

-----------------------------------------------------------------------------
(* DequeueJob, CompleteJob and FailJob.                                    *)

DequeuePop(c) == \E j \in Jobs : Take(c, "model", j) /\ Goto(c, "read")

(* DequeueJob: GET; no record is an error.  The SET's error is dropped.    *)
DequeueRead(c) ==
  /\ At(c, "read")
  /\ IF record[cur[c]] = None THEN Over(c) ELSE Goto(c, "begin") /\ Stay
  /\ UNCHANGED <<record, list, ended, raised, mishaps>>

DequeueSet(c) ==
  /\ At(c, "begin") /\ Goto(c, "working")
  /\ Set(cur[c], "processing", TRUE)
  /\ UNCHANGED <<list, ended, raised, mishaps>> /\ Stay

(* CompleteJob and FailJob: GET (no record is an error) ...                *)
FinishRead(c) ==
  /\ At(c, "working")
  /\ IF record[cur[c]] = None THEN Over(c)
     ELSE (Goto(c, "complete") \/ Goto(c, "fail")) /\ Stay
  /\ UNCHANGED <<record, list, ended, raised, mishaps>>

(* ... and SET.                                                            *)
CompleteJob(c) ==
  /\ At(c, "complete") /\ Set(cur[c], "completed", TRUE)
  /\ ended' = ended \cup {cur[c]} /\ Over(c)
  /\ UNCHANGED <<list, raised, mishaps>>

FailJob(c) ==
  /\ At(c, "fail") /\ Set(cur[c], "failed", TRUE)
  /\ ended' = ended \cup {cur[c]} /\ Over(c)
  /\ UNCHANGED <<list, raised, mishaps>>

-----------------------------------------------------------------------------
Process(w) == Remove(w) \/ Read(w) \/ Begin(w) \/ Report(w) \/ Run(w) \/ Tell(w)

Consume(c) ==
  DequeuePop(c) \/ DequeueRead(c) \/ DequeueSet(c) \/ FinishRead(c) \/ CompleteJob(c) \/ FailJob(c)

Next ==
  \/ \E j \in Jobs : EnqueueSet(j) \/ EnqueuePush(j) \/ EnqueueAgain(j) \/ EnqueueFails(j) \/ Expires(j)
  \/ \E w \in Workers : Pop(w) \/ Process(w)
  \/ \E c \in Consumers : Consume(c)
  \/ \E t \in Takers : Stops(t) \/ Loses(t)

(* The worker's loop runs, and the backend returns or raises.              *)
Spec == Init /\ [][Next]_vars /\ \A w \in Workers : WF_vars(Process(w))

-----------------------------------------------------------------------------
(* Properties.                                                             *)

(* A job is popped twice only if it was popped amid its pushes, between    *)
(* another worker's BLPOP and LREM, after a worker that stopped between    *)
(* them, or by somebody who does not know the list of the node, or if a    *)
(* push of it was repeated; and a record that is completed only changes    *)
(* (before it expires) if its job was popped twice.                        *)
OneRunUnlessRaced ==
  [][\A j \in Jobs :
       /\ pops'[j] > 1 => j \in raced' \/ takers'[j] \ NodeWorkers # {}
       /\ record[j] # None /\ record[j].status = "completed" =>
            record'[j] = None \/ record'[j].status = "completed" \/ pops[j] > 1]_vars

(* A job a worker has popped gets a result or an ERROR report - unless it  *)
(* raised an exception, the worker cannot send reports or has no URL to    *)
(* send them to, or a command failed.                                      *)
EveryPopEnds ==
  \A w \in Workers, j \in Jobs :
    cur[w] = j ~> j \in ended \cup raised \/ client # "works" \/ mishaps > 0
=============================================================================
