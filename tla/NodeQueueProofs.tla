--------------------------- MODULE NodeQueueProofs ---------------------------
(***************************************************************************)
(* Proofs about NodeQueue, for every number of jobs, workers and consumers *)
(* and any number of commands that fail.                                   *)
(***************************************************************************)
EXTENDS NodeQueue, TLAPS

(* The pops a job still has coming: a push yet to be made, a copy on a     *)
(* list.                                                                   *)
Left(j) == IF enqueue[j] \in {"idle", "node"} THEN 2 ELSE IF enqueue[j] = "model" THEN 1 ELSE 0

(* No job is popped more than twice but for repeated pushes, and a job     *)
(* that waits to be enqueued has left no trace.                            *)
Budget ==
  \A j \in Jobs :
    /\ pops[j] + list["node"][j] + list["model"][j] + Left(j) <= 2 + mishaps
    /\ enqueue[j] = "idle" =>
         record[j] = None /\ pops[j] = 0 /\ list["node"][j] = 0 /\ list["model"][j] = 0

(* Who waits for a list holds no job, who does not holds one it popped.    *)
Holding ==
  \A t \in Takers :
    /\ pc[t] = "poll" <=> cur[t] = None
    /\ cur[t] # None => pops[cur[t]] > 0

(* The places of who holds a job.                                          *)
Busy == {"drop node", "drop model", "read", "begin", "report", "run", "tell", "working", "complete", "fail"}

(* The types, in two parts: what the steps below need of them, the rest.   *)
Typed ==
  /\ list \in [Lists -> [Jobs -> Nat]] /\ pops \in [Jobs -> Nat] /\ mishaps \in Nat
  /\ enqueue \in [Jobs -> {"idle", "node", "model", "done", "failed"}]
  /\ record \in [Jobs -> Record \cup {None}] /\ takers \in [Jobs -> SUBSET Takers]
  /\ pc \in [Takers -> Busy \cup {"poll"}] /\ cur \in [Takers -> Jobs \cup {None}]

Others ==
  /\ forNode \in [Jobs -> BOOLEAN] /\ params \in [Jobs -> {"prompt", "none", "unfit"}]
  /\ client \in {"none", "works", "raises"}
  /\ raced \subseteq Jobs /\ ended \subseteq Jobs /\ raised \subseteq Jobs
  /\ mishaps \in 0..MaxMishaps

QueueShape == Typed /\ Others /\ Holding /\ Budget

(* A push that was not repeated leaves one copy, and none is there before  *)
(* it; the job a worker popped and nobody else did is on no list any more, *)
(* or about to be taken off the only one that has it.                      *)
Unpushed(l, j) == IF l = "node" THEN enqueue[j] \in {"idle", "node"}
                  ELSE enqueue[j] \in {"idle", "node", "model"}
OneCopy ==
  \A j \in Jobs : j \notin raced =>
    /\ \A l \in Lists : list[l][j] <= 1 /\ (Unpushed(l, j) => list[l][j] = 0)
    /\ takers[j] \subseteq NodeWorkers /\ pops[j] > 0 =>
         /\ pops[j] = 1 /\ enqueue[j] \in {"done", "failed"}
         /\ \/ list["node"][j] = 0 /\ list["model"][j] = 0
            \/ \E l \in Lists, w \in Workers :
                 pc[w] = Dropping(l) /\ cur[w] = j /\ list[Other(l)][j] = 0

(* A job popped once has one holder, who has nothing to write any more     *)
(* once its record is completed.                                           *)
OneHolder ==
  \A j \in Jobs :
    /\ pops[j] = 0 /\ record[j] # None => record[j].status = "pending"
    /\ pops[j] < 2 => \A t, u \in Takers : cur[t] = j /\ cur[u] = j => t = u
    /\ pops[j] < 2 /\ record[j] # None /\ record[j].status = "completed" =>
         \A t \in Takers : cur[t] = j => pc[t] = "tell"

(* A step of who holds a job: it keeps the job or lets it go, takes it off *)
(* the lists where it has to, and writes no record but that of the job.    *)
Works(t) ==
  /\ pc[t] # "poll" /\ Still /\ UNCHANGED <<raced, mishaps>>
  /\ Over(t) \/ (Stay /\ pc[t] # "tell" /\ \E l \in Busy : Goto(t, l))
  /\ \/ pc[t] \notin {"drop node", "drop model"} /\ UNCHANGED list
     \/ \E l \in Lists : pc[t] = Dropping(l) /\ list' = [list EXCEPT ![l][cur[t]] = 0]
  /\ \/ UNCHANGED record
     \/ /\ pc[t] # "tell"
        /\ \E r \in Record :
             /\ record' = [record EXCEPT ![cur[t]] = r]
             /\ r.status = "completed" => Over(t) \/ Goto(t, "tell")
  /\ ended' = ended \/ ended' = ended \cup {cur[t]}
  /\ raised' = raised \/ raised' = raised \cup {cur[t]}

(* All steps of workers and consumers after the pop are of that kind.      *)
LEMMA WorkStep ==
  ASSUME QueueShape, NEW t \in Takers, Process(t) \/ (Consume(t) /\ ~DequeuePop(t))
  PROVE  Works(t)
<1> USE DEF At, Busy, Works
<1>1. CASE Remove(t)
  BY <1>1 DEF Remove, Lists, Dropping
<1>1a. CASE Report(t) \/ Tell(t)
  BY <1>1a DEF Report, Tell, Over
<1>2. CASE Read(t)
  BY <1>2 DEF Read
<1>3. ASSUME NEW s \in {"pending", "processing", "completed", "failed"}, NEW b \in BOOLEAN
      PROVE  [status |-> s, ttl |-> b] \in Record
  BY DEF Record
<1>4. CASE Begin(t)
  BY <1>3, <1>4 DEF Begin, Set
<1>5. CASE Run(t)
  BY <1>3, <1>5 DEF Run, Set
<1>6. CASE DequeueRead(t) \/ FinishRead(t)
  BY <1>6 DEF DequeueRead, FinishRead
<1>7. CASE DequeueSet(t)
  BY <1>3, <1>7 DEF DequeueSet, Set
<1>8. CASE CompleteJob(t)
  BY <1>3, <1>8 DEF CompleteJob, Set
<1>9. CASE FailJob(t)
  BY <1>3, <1>9 DEF FailJob, Set
<1> QED
  BY <1>1, <1>1a, <1>2, <1>4, <1>5, <1>6, <1>7, <1>8, <1>9 DEF Process, Consume

(* Such a step moves one taker and writes one record.                      *)
LEMMA WorkMoves ==
  ASSUME Typed, Holding, NEW t \in Takers, Works(t)
  PROVE  /\ UNCHANGED <<enqueue, takers, pops, raced>> /\ cur[t] \in Jobs /\ pops[cur[t]] > 0
         /\ \A u \in Takers \ {t} : UNCHANGED <<pc[u], cur[u]>>
         /\ cur'[t] \in {None, cur[t]} /\ (pc[t] = "tell" => cur'[t] = None)
         /\ \A k \in Jobs \ {cur[t]} : record'[k] = record[k]
         /\ \/ record' = record
            \/ /\ pc[t] # "tell"
               /\ record'[cur[t]].status = "completed" => cur'[t] = None \/ pc'[t] = "tell"
<1>1. /\ UNCHANGED <<enqueue, takers, pops, raced>> /\ pc[t] # "poll"
      /\ Over(t) \/ (Stay /\ pc[t] # "tell" /\ \E l \in Busy : Goto(t, l))
  BY DEF Works, Still
<1>2. cur[t] \in Jobs /\ pops[cur[t]] > 0
  <2>1. cur[t] # None /\ cur[t] \in Jobs \cup {None}
    BY <1>1 DEF Holding, Typed
  <2> QED
    BY <2>1 DEF Holding
<1>3. CASE Over(t)
  <2>1. /\ \A u \in Takers \ {t} : UNCHANGED <<pc[u], cur[u]>>
        /\ cur'[t] = None
    BY <1>3 DEF Over, Goto, Typed
  <2>2. record' = record \/ (pc[t] # "tell" /\ \E r \in Record : record' = [record EXCEPT ![cur[t]] = r])
    BY DEF Works
  <2>3. \A k \in Jobs \ {cur[t]} : record'[k] = record[k]
    BY <1>2, <2>2 DEF Typed
  <2> QED
    BY <1>1, <1>2, <2>1, <2>2, <2>3
<1>4. ASSUME NEW l \in Busy, Stay, pc[t] # "tell", Goto(t, l)
      PROVE  /\ \A u \in Takers \ {t} : UNCHANGED <<pc[u], cur[u]>>
             /\ cur'[t] = cur[t] /\ \A k \in Jobs \ {cur[t]} : record'[k] = record[k]
             /\ record' # record /\ record'[cur[t]].status = "completed" => pc'[t] = "tell"
  <2>1. /\ \A u \in Takers \ {t} : UNCHANGED <<pc[u], cur[u]>>
        /\ cur'[t] = cur[t]
    BY <1>4 DEF Stay, Goto, Typed
  <2>2. ASSUME NEW r \in Record, record' = [record EXCEPT ![cur[t]] = r],
               r.status = "completed" => Over(t) \/ Goto(t, "tell")
        PROVE  /\ \A k \in Jobs \ {cur[t]} : record'[k] = record[k]
               /\ record'[cur[t]].status = "completed" => pc'[t] = "tell"
    <3>1. record'[cur[t]] = r /\ \A k \in Jobs \ {cur[t]} : record'[k] = record[k]
      BY <1>2, <2>2 DEF Typed
    <3>2. ~Over(t)
      BY <1>2, <2>1, NoneIsNoValue DEF Over, Typed
    <3>3. Goto(t, "tell") => pc'[t] = "tell"
      BY DEF Goto, Typed
    <3> QED
      BY <2>2, <3>1, <3>2, <3>3
  <2> QED
    BY <2>1, <2>2 DEF Works
<1> QED
  BY <1>1, <1>2, <1>3, <1>4

(* A pop, with the place it leads to: who serves the node removes the      *)
(* other copy next.                                                        *)
Pops(t, l, j) ==
  /\ Take(t, l, j)
  /\ \E to \in {Dropping(Other(l)), "read"} :
       Goto(t, to) /\ (t \in NodeWorkers => to = Dropping(Other(l)))

(* Every pop is of that kind.                                              *)
LEMMA PopStep ==
  ASSUME NEW t \in Takers, (t \in Workers /\ Pop(t)) \/ (t \in Consumers /\ DequeuePop(t))
  PROVE  \E l \in Lists, j \in Jobs : Pops(t, l, j)
<1> USE WorkersDisjoint DEF Pops, Lists
<1>1. ASSUME NEW j \in Jobs, NEW l \in Lists, t \in NodeWorkers, Take(t, l, j),
             Goto(t, Dropping(Other(l)))
      PROVE  \E m \in Lists, k \in Jobs : Pops(t, m, k)
  BY <1>1
<1>2. ASSUME NEW j \in Jobs, t \notin NodeWorkers, Take(t, "model", j), Goto(t, "read")
      PROVE  \E m \in Lists, k \in Jobs : Pops(t, m, k)
  BY <1>2
<1>3. Other("node") = "model" /\ Other("model") = "node"
  BY DEF Other
<1> QED
  BY <1>1, <1>2, <1>3 DEF Pop, DequeuePop, Workers

(* At the start.                                                           *)
LEMMA QueueShapeInit == Init => QueueShape /\ OneCopy /\ OneHolder
<1> SUFFICES ASSUME Init
             PROVE  QueueShape /\ OneCopy /\ OneHolder
  OBVIOUS
<1> USE NoneIsNoValue, MishapsAreCounted DEF Init, Lists
<1>1. Typed /\ Others
  BY DEF Typed, Others
<1>2. Holding
  BY DEF Holding
<1>3. Budget
  BY DEF Budget, Left
<1>4. OneCopy /\ OneHolder
  BY DEF OneCopy, OneHolder
<1> QED
  BY <1>1, <1>2, <1>3, <1>4 DEF QueueShape

(* The budget, job by job: what is pushed, popped or lost stays in it.     *)
LEMMA BudgetKept ==
  ASSUME Typed, Typed', Budget, mishaps' >= mishaps, NEW j \in Jobs,
         \/ /\ pops'[j] <= pops[j]
            /\ list'["node"][j] <= list["node"][j] /\ list'["model"][j] <= list["model"][j]
            /\ Left(j)' <= Left(j)
         \/ /\ pops'[j] + list'["node"][j] + list'["model"][j] + Left(j)'
                 <= pops[j] + list["node"][j] + list["model"][j] + Left(j)
         \/ /\ mishaps' = mishaps + 1
            /\ pops'[j] + list'["node"][j] + list'["model"][j] + Left(j)'
                 <= pops[j] + list["node"][j] + list["model"][j] + Left(j) + 1
  PROVE  pops'[j] + list'["node"][j] + list'["model"][j] + Left(j)' <= 2 + mishaps'
<1>1. /\ pops[j] \in Nat /\ list["node"][j] \in Nat /\ list["model"][j] \in Nat /\ mishaps \in Nat
      /\ Left(j) \in Nat
  BY DEF Typed, Lists, Left
<1>2. /\ pops'[j] \in Nat /\ list'["node"][j] \in Nat /\ list'["model"][j] \in Nat
      /\ mishaps' \in Nat /\ Left(j)' \in Nat
  BY DEF Typed, Lists, Left
<1>3. pops[j] + list["node"][j] + list["model"][j] + Left(j) <= 2 + mishaps
  BY DEF Budget
<1> QED
  BY <1>1, <1>2, <1>3

(* The types, the holders and the pops are kept.                           *)
LEMMA QueueShapeStep ==
  ASSUME QueueShape, [Next]_vars
  PROVE  QueueShape'
<1> USE NoneIsNoValue DEF Goto, historyVars, workVars
<1>0. Typed /\ Others /\ Holding /\ Budget /\ mishaps \in Nat /\ MaxMishaps \in Nat
  BY MishapsAreCounted DEF QueueShape, Typed
<1>1. ASSUME NEW j \in Jobs, EnqueueSet(j)
      PROVE  QueueShape'
  <2> DEFINE r == [status |-> "pending", ttl |-> TRUE]
  <2>1. r \in Record
    BY DEF Record
  <2> HIDE DEF r
  <2>2. /\ record' = [record EXCEPT ![j] = r] /\ enqueue[j] = "idle"
        /\ \E l \in Lists : enqueue' = [enqueue EXCEPT ![j] = l]
        /\ UNCHANGED <<list, forNode, params, workVars, client, historyVars, mishaps>>
    BY <1>1 DEF r, EnqueueSet, Set, EnqueueAt, EnqueueRest, Lists
  <2>3. Typed' /\ Others' /\ Holding'
    BY <1>0, <2>1, <2>2 DEF Typed, Others, Holding, Lists
  <2>4. ASSUME NEW k \in Jobs
        PROVE  Left(k)' <= Left(k) /\ (enqueue'[k] = "idle" => k # j /\ enqueue[k] = "idle")
    BY <1>0, <2>2 DEF Typed, Left, Lists
  <2>5. \A k \in Jobs \ {j} : record'[k] = record[k]
    BY <1>0, <2>2 DEF Typed
  <2>6. ASSUME NEW k \in Jobs
        PROVE  pops'[k] + list'["node"][k] + list'["model"][k] + Left(k)' <= 2 + mishaps'
    <3>1. /\ pops'[k] <= pops[k] /\ mishaps' >= mishaps
          /\ list'["node"][k] <= list["node"][k] /\ list'["model"][k] <= list["model"][k]
      BY <1>0, <2>2 DEF Typed, Lists
    <3> QED
      BY <1>0, <2>3, <2>4, <3>1, BudgetKept
  <2>7. Budget'
    BY <1>0, <2>2, <2>4, <2>5, <2>6 DEF Budget
  <2> QED
    BY <2>3, <2>7 DEF QueueShape
<1>2. ASSUME NEW j \in Jobs, NEW l \in Lists, enqueue[j] = l, Push(l, j),
             UNCHANGED <<record, forNode, params, workVars, client, takers, pops, ended, raised>>,
             raced' = raced \/ raced' = raced \cup {j},
             \/ /\ enqueue' = [enqueue EXCEPT ![j] = IF l = "node" THEN "model" ELSE "done"]
                /\ UNCHANGED mishaps
             \/ UNCHANGED enqueue /\ Mishap
      PROVE  QueueShape'
  <2>1. list' = [list EXCEPT ![l][j] = @ + 1]
    BY <1>2 DEF Push
  <2>2. /\ \A k \in Jobs \ {j}, m \in Lists : list'[m][k] = list[m][k]
        /\ list'[l][j] = list[l][j] + 1 /\ \A m \in Lists \ {l} : list'[m][j] = list[m][j]
    BY <1>0, <2>1 DEF Typed
  <2>3. list' \in [Lists -> [Jobs -> Nat]]
    BY <1>0, <2>1 DEF Typed
  <2>4. enqueue' \in [Jobs -> {"idle", "node", "model", "done", "failed"}]
    BY <1>0, <1>2 DEF Typed
  <2>5. mishaps' \in 0..MaxMishaps /\ mishaps' \in Nat /\ mishaps' >= mishaps
    BY <1>0, <1>2 DEF Others, Mishap
  <2>6. Typed' /\ Others' /\ Holding'
    BY <1>0, <1>2, <2>3, <2>4, <2>5 DEF Typed, Others, Holding
  <2>7. /\ \A k \in Jobs \ {j} : enqueue'[k] = enqueue[k]
        /\ (Left(j)' = Left(j) - 1 \/ (Left(j)' = Left(j) /\ mishaps' = mishaps + 1))
        /\ enqueue'[j] # "idle"
    <3>1. enqueue[j] = "node" \/ enqueue[j] = "model"
      BY <1>2 DEF Lists
    <3>2. CASE enqueue' = [enqueue EXCEPT ![j] = IF l = "node" THEN "model" ELSE "done"]
      BY <1>0, <1>2, <3>1, <3>2 DEF Typed, Left
    <3>3. CASE UNCHANGED enqueue /\ Mishap
      BY <1>0, <3>1, <3>3 DEF Left, Mishap
    <3> QED
      BY <1>2, <3>2, <3>3
  <2>8. pops'[j] + list'["node"][j] + list'["model"][j] + Left(j)' <= 2 + mishaps'
    <3>1. list'["node"][j] + list'["model"][j] = list["node"][j] + list["model"][j] + 1
          /\ list["node"][j] \in Nat /\ list["model"][j] \in Nat /\ pops[j] \in Nat /\ Left(j) \in Nat
      BY <1>0, <2>2 DEF Lists, Typed, Left
    <3>2. pops'[j] = pops[j] /\ list'["node"][j] \in Nat /\ list'["model"][j] \in Nat
      BY <1>2, <2>3 DEF Lists
    <3> QED
      BY <1>0, <2>5, <2>6, <2>7, <3>1, <3>2, BudgetKept
  <2>9. ASSUME NEW k \in Jobs \ {j}
        PROVE  pops'[k] + list'["node"][k] + list'["model"][k] + Left(k)' <= 2 + mishaps'
    <3>1. /\ pops'[k] <= pops[k] /\ Left(k)' <= Left(k)
          /\ list'["node"][k] <= list["node"][k] /\ list'["model"][k] <= list["model"][k]
      BY <1>0, <1>2, <2>2, <2>7 DEF Typed, Lists, Left
    <3> QED
      BY <1>0, <2>5, <2>6, <3>1, BudgetKept
  <2>10. Budget'
    BY <1>0, <1>2, <2>2, <2>7, <2>8, <2>9 DEF Budget, Lists
  <2> QED
    BY <2>6, <2>10 DEF QueueShape
<1>3. ASSUME NEW j \in Jobs, EnqueuePush(j) \/ EnqueueAgain(j)
      PROVE  QueueShape'
  <2>1. CASE EnqueuePush(j)
    BY <1>2, <2>1 DEF EnqueuePush, EnqueueAt, EnqueueRest, Lists
  <2>2. CASE EnqueueAgain(j)
    BY <1>2, <2>2 DEF EnqueueAgain
  <2> QED
    BY <1>3, <2>1, <2>2
<1>4. ASSUME NEW j \in Jobs, EnqueueFails(j) \/ Expires(j)
      PROVE  QueueShape'
  <2>1. /\ enqueue' = enqueue \/ enqueue' = [enqueue EXCEPT ![j] = "failed"]
        /\ record' = record \/ record' = [record EXCEPT ![j] = None]
        /\ mishaps' = mishaps \/ Mishap
        /\ UNCHANGED <<list, forNode, params, workVars, client, historyVars>>
    BY <1>4 DEF EnqueueFails, Expires, EnqueueAt, EnqueueRest
  <2>2. mishaps' \in 0..MaxMishaps /\ mishaps' \in Nat /\ mishaps' >= mishaps
    BY <1>0, <2>1 DEF Others, Mishap
  <2>3. Typed' /\ Others' /\ Holding'
    BY <1>0, <2>1, <2>2 DEF Typed, Others, Holding
  <2>4. ASSUME NEW k \in Jobs
        PROVE  /\ Left(k)' <= Left(k) /\ (enqueue'[k] = "idle" => enqueue[k] = "idle")
               /\ record[k] = None => record'[k] = None
    BY <1>0, <2>1 DEF Typed, Left
  <2>5. ASSUME NEW k \in Jobs
        PROVE  pops'[k] + list'["node"][k] + list'["model"][k] + Left(k)' <= 2 + mishaps'
    <3>1. /\ pops'[k] <= pops[k]
          /\ list'["node"][k] <= list["node"][k] /\ list'["model"][k] <= list["model"][k]
      BY <1>0, <2>1 DEF Typed, Lists
    <3> QED
      BY <1>0, <2>2, <2>3, <2>4, <3>1, BudgetKept
  <2>6. Budget'
    BY <1>0, <2>1, <2>4, <2>5 DEF Budget
  <2> QED
    BY <2>3, <2>6 DEF QueueShape
<1>5. ASSUME NEW t \in Takers, NEW l \in Lists, NEW j \in Jobs, Pops(t, l, j)
      PROVE  QueueShape'
  <2>1. /\ pc[t] = "poll" /\ list[l][j] > 0 /\ list' = [list EXCEPT ![l][j] = @ - 1]
        /\ cur' = [cur EXCEPT ![t] = j] /\ \E to \in Busy : pc' = [pc EXCEPT ![t] = to]
        /\ takers' = [takers EXCEPT ![j] = @ \cup {t}] /\ pops' = [pops EXCEPT ![j] = @ + 1]
        /\ raced' = raced \/ raced' = raced \cup {j}
        /\ UNCHANGED <<record, enqueue, forNode, params, client, ended, raised, mishaps>>
    BY <1>5 DEF Pops, Take, Dropping, Other, Busy
  <2>2. /\ pops[j] \in Nat /\ list["node"][j] \in Nat /\ list["model"][j] \in Nat
        /\ list[l][j] - 1 \in Nat
    BY <1>0, <2>1 DEF Typed, Lists
  <2>3. /\ \A k \in Jobs \ {j} : pops'[k] = pops[k] /\ \A m \in Lists : list'[m][k] = list[m][k]
        /\ pops'[j] = pops[j] + 1
        /\ list'[l][j] = list[l][j] - 1 /\ \A m \in Lists \ {l} : list'[m][j] = list[m][j]
    BY <1>0, <2>1 DEF Typed
  <2>4. Typed'
    <3>1. list' \in [Lists -> [Jobs -> Nat]]
      BY <1>0, <2>1, <2>2 DEF Typed
    <3>2. pops' \in [Jobs -> Nat] /\ takers' \in [Jobs -> SUBSET Takers]
      BY <1>0, <2>1, <2>2 DEF Typed
    <3> QED
      BY <1>0, <2>1, <3>1, <3>2 DEF Typed
  <2>5. Others'
    BY <1>0, <2>1 DEF Others
  <2>6. Holding'
    <3>1. \A u \in Takers \ {t} : pc'[u] = pc[u] /\ cur'[u] = cur[u]
      BY <1>0, <2>1 DEF Typed
    <3>2. pc'[t] # "poll" /\ cur'[t] = j
      BY <1>0, <2>1 DEF Typed, Busy
    <3>3. ASSUME NEW k \in Jobs, pops[k] > 0
          PROVE  pops'[k] > 0
      BY <2>2, <2>3, <3>3
    <3> QED
      BY <1>0, <2>2, <2>3, <3>1, <3>2, <3>3 DEF Holding, Typed
  <2>7. pops'[j] + list'["node"][j] + list'["model"][j] + Left(j)' <= 2 + mishaps'
    <3>1. pops'[j] + list'["node"][j] + list'["model"][j] = pops[j] + list["node"][j] + list["model"][j]
      BY <2>2, <2>3 DEF Lists
    <3>2. Left(j)' = Left(j) /\ mishaps' = mishaps
      BY <2>1 DEF Left
    <3> QED
      BY <1>0, <2>4, <3>1, <3>2 DEF Budget
  <2>8. Budget'
    BY <1>0, <2>1, <2>2, <2>3, <2>7 DEF Budget, Lists, Left
  <2> QED
    BY <2>4, <2>5, <2>6, <2>8 DEF QueueShape
<1>6. ASSUME NEW t \in Takers, Works(t)
      PROVE  QueueShape'
  <2>1. cur[t] \in Jobs /\ pops[cur[t]] > 0
    BY <1>0, <1>6 DEF Works, Holding, Typed
  <2>2. /\ list' \in [Lists -> [Jobs -> Nat]]
        /\ \A l \in Lists, j \in Jobs : list'[l][j] = list[l][j] \/ list'[l][j] = 0
    <3>1. CASE UNCHANGED list
      BY <1>0, <3>1 DEF Typed
    <3>2. ASSUME NEW l \in Lists, list' = [list EXCEPT ![l][cur[t]] = 0]
          PROVE  /\ list' \in [Lists -> [Jobs -> Nat]]
                 /\ \A m \in Lists, j \in Jobs : list'[m][j] = list[m][j] \/ list'[m][j] = 0
      BY <1>0, <2>1, <3>2 DEF Typed
    <3> QED
      BY <1>6, <3>1, <3>2 DEF Works
  <2>3. record' = record \/ \E r \in Record : record' = [record EXCEPT ![cur[t]] = r]
    BY <1>6 DEF Works
  <2>4. /\ UNCHANGED <<enqueue, forNode, params, client, takers, pops, raced, mishaps>>
        /\ ended' = ended \/ ended' = ended \cup {cur[t]}
        /\ raised' = raised \/ raised' = raised \cup {cur[t]}
    BY <1>6 DEF Works, Still
  <2>5. Over(t) \/ (cur' = cur /\ \E l \in Busy : pc' = [pc EXCEPT ![t] = l])
    BY <1>6 DEF Works, Stay
  <2>6. pc[t] # "poll"
    BY <1>6 DEF Works
  <2>7. Typed'
    <3>1. record' \in [Jobs -> Record \cup {None}]
      BY <1>0, <2>1, <2>3 DEF Typed
    <3>2. pc' \in [Takers -> Busy \cup {"poll"}] /\ cur' \in [Takers -> Jobs \cup {None}]
      BY <1>0, <2>5 DEF Typed, Over
    <3> QED
      BY <1>0, <2>2, <2>4, <3>1, <3>2 DEF Typed
  <2>8. Others'
    BY <1>0, <2>1, <2>4 DEF Others
  <2>9. Holding'
    <3>1. \A u \in Takers \ {t} : pc'[u] = pc[u] /\ cur'[u] = cur[u]
      BY <1>0, <2>5 DEF Typed, Over
    <3>2. (pc'[t] = "poll" /\ cur'[t] = None) \/ (pc'[t] # "poll" /\ cur'[t] = cur[t])
      BY <1>0, <2>5 DEF Typed, Over, Busy
    <3> QED
      BY <1>0, <2>1, <2>4, <3>1, <3>2 DEF Holding
  <2>10. Budget'
    <3>1. enqueue[cur[t]] # "idle"
      BY <1>0, <2>1 DEF Budget, Typed
    <3>2. \A j \in Jobs : enqueue[j] = "idle" => record'[j] = record[j]
      BY <1>0, <2>3, <3>1 DEF Typed
    <3>3. ASSUME NEW j \in Jobs
          PROVE  pops'[j] + list'["node"][j] + list'["model"][j] + Left(j)' <= 2 + mishaps'
      <4>1. /\ pops'[j] <= pops[j] /\ Left(j)' <= Left(j) /\ mishaps' >= mishaps
        BY <1>0, <2>4 DEF Typed, Left
      <4>2. list'["node"][j] <= list["node"][j] /\ list'["model"][j] <= list["model"][j]
        BY <1>0, <2>2 DEF Typed, Lists
      <4> QED
        BY <1>0, <2>7, <4>1, <4>2, BudgetKept
    <3> QED
      BY <1>0, <2>2, <2>4, <3>2, <3>3 DEF Budget, Lists
  <2> QED
    BY <2>7, <2>8, <2>9, <2>10 DEF QueueShape
<1>7. ASSUME NEW t \in Takers, Stops(t)
      PROVE  QueueShape'
  <2>1. cur[t] \in Jobs
    BY <1>0, <1>7 DEF Stops, Holding, Typed
  <2>2. /\ Over(t) /\ Mishap /\ (raced' = raced \/ raced' = raced \cup {cur[t]})
        /\ UNCHANGED <<enqueue, forNode, params, client, takers, pops, record, list, ended, raised>>
    BY <1>7 DEF Stops, Still
  <2>3. mishaps' \in 0..MaxMishaps /\ mishaps' \in Nat /\ mishaps' >= mishaps
    BY <1>0, <2>2 DEF Others, Mishap
  <2>4. Typed' /\ Holding'
    BY <1>0, <2>2, <2>3 DEF Over, Typed, Holding
  <2>5. Others'
    BY <1>0, <2>1, <2>2, <2>3 DEF Others
  <2>6. \A j \in Jobs : Left(j)' = Left(j)
    BY <2>2 DEF Left
  <2>7. Budget'
    <3>1. ASSUME NEW j \in Jobs
          PROVE  pops'[j] + list'["node"][j] + list'["model"][j] + Left(j)' <= 2 + mishaps'
      <4>1. /\ pops'[j] <= pops[j] /\ Left(j)' <= Left(j)
            /\ list'["node"][j] <= list["node"][j] /\ list'["model"][j] <= list["model"][j]
        BY <1>0, <2>2, <2>6 DEF Typed, Lists, Left
      <4> QED
        BY <1>0, <2>3, <2>4, <4>1, BudgetKept
    <3> QED
      BY <1>0, <2>2, <3>1 DEF Budget
  <2> QED
    BY <2>4, <2>5, <2>7 DEF QueueShape
<1>8. ASSUME NEW t \in Takers, Loses(t)
      PROVE  QueueShape'
  <2>1. PICK l \in Lists, j \in Jobs : list[l][j] > 0 /\ list' = [list EXCEPT ![l][j] = @ - 1]
    BY <1>8 DEF Loses
  <2>2. /\ Mishap /\ UNCHANGED <<record, enqueue, forNode, params, workVars, client, historyVars>>
    BY <1>8 DEF Loses
  <2>3. mishaps' \in 0..MaxMishaps /\ mishaps' \in Nat /\ mishaps' >= mishaps
    BY <1>0, <2>2 DEF Others, Mishap
  <2>4. list[l][j] - 1 \in Nat /\ \A m \in Lists, k \in Jobs : list[m][k] \in Nat
    BY <1>0, <2>1 DEF Typed
  <2>5. /\ list' \in [Lists -> [Jobs -> Nat]]
        /\ \A m \in Lists, k \in Jobs :
             list'[m][k] = list[m][k] \/ (list[m][k] > 0 /\ list'[m][k] = list[m][k] - 1)
    BY <1>0, <2>1, <2>4 DEF Typed
  <2>6. Typed' /\ Others' /\ Holding'
    BY <1>0, <2>2, <2>3, <2>5 DEF Typed, Others, Holding
  <2>7. ASSUME NEW k \in Jobs
        PROVE  /\ pops'[k] + list'["node"][k] + list'["model"][k] + Left(k)' <= 2 + mishaps'
               /\ \A m \in Lists : list[m][k] = 0 => list'[m][k] = 0
    <3>1. /\ pops'[k] <= pops[k] /\ Left(k)' <= Left(k)
          /\ list'["node"][k] <= list["node"][k] /\ list'["model"][k] <= list["model"][k]
      BY <1>0, <2>2, <2>4, <2>5 DEF Typed, Lists, Left
    <3> QED
      BY <1>0, <2>3, <2>4, <2>5, <2>6, <3>1, BudgetKept
  <2>8. Budget'
    BY <1>0, <2>2, <2>7 DEF Budget, Lists
  <2> QED
    BY <2>6, <2>8 DEF QueueShape
<1>9. ASSUME UNCHANGED vars
      PROVE  QueueShape'
  BY <1>0, <1>9 DEF vars, queueVars, QueueShape, Typed, Others, Holding, Budget, Left
<1> QED
  BY <1>1, <1>3, <1>4, <1>5, <1>6, <1>7, <1>8, <1>9, PopStep, WorkStep
     DEF Next, Takers, Workers, Consume

(* The parts of the types make the whole.                                  *)
LEMMA ShapeTyped == QueueShape => QueueTypeOK
<1> SUFFICES ASSUME QueueShape
             PROVE  QueueTypeOK
  OBVIOUS
<1>1. Typed /\ Others /\ Budget
  BY DEF QueueShape
<1>2. \A j \in Jobs : pops[j] <= 2 + MaxMishaps
  <2> SUFFICES ASSUME NEW j \in Jobs
               PROVE  pops[j] <= 2 + MaxMishaps
    OBVIOUS
  <2>1. /\ pops[j] \in Nat /\ list["node"][j] \in Nat /\ list["model"][j] \in Nat /\ Left(j) \in Nat
    BY <1>1 DEF Typed, Lists, Left
  <2>2. mishaps \in Nat /\ mishaps <= MaxMishaps
    BY <1>1, MishapsAreCounted DEF Others
  <2> QED
    BY <1>1, <2>1, <2>2, MishapsAreCounted DEF Budget
<1> QED
  BY <1>1, <1>2 DEF Typed, Others, QueueTypeOK, Busy

(* QueueShape holds in every state.                                        *)
LEMMA QueueShapeInvariant == Spec => []QueueShape
BY QueueShapeInit, QueueShapeStep, PTL DEF Spec

(* QueueTypeOK for every value of the constants: above all, no job is      *)
(* popped more than twice, but for pushes that were repeated.              *)
THEOREM QueueTypeCorrect == Spec => []QueueTypeOK
BY QueueShapeInvariant, ShapeTyped, PTL

(* A job popped from the list of its node is run once.                     *)
LEMMA OneCopyStep ==
  ASSUME QueueShape, QueueShape', OneCopy, [Next]_vars
  PROVE  OneCopy'
<1> USE DEF Goto, historyVars, workVars, Lists
<1>0. Typed /\ Holding /\ Budget /\ Typed'
  BY DEF QueueShape
<1>1. ASSUME NEW j \in Jobs, EnqueueSet(j) \/ EnqueueFails(j)
      PROVE  OneCopy'
  <2>1. /\ enqueue[j] \notin {"done", "failed"} /\ UNCHANGED <<workVars, historyVars, list>>
        /\ \/ enqueue[j] = "idle" /\ \E l \in Lists : enqueue' = [enqueue EXCEPT ![j] = l]
           \/ enqueue' = [enqueue EXCEPT ![j] = "failed"]
    BY <1>1 DEF EnqueueSet, EnqueueFails, EnqueueAt, EnqueueRest
  <2>2. ASSUME NEW k \in Jobs, NEW l \in Lists, Unpushed(l, k)'
        PROVE  Unpushed(l, k)
    BY <1>0, <2>1, <2>2 DEF Unpushed, Typed
  <2>3. \A k \in Jobs \ {j} : enqueue'[k] = enqueue[k]
    BY <1>0, <2>1 DEF Typed
  <2> QED
    BY <2>1, <2>2, <2>3 DEF OneCopy
<1>2. ASSUME NEW j \in Jobs, EnqueuePush(j)
      PROVE  OneCopy'
  <2>1. PICK m \in Lists : /\ enqueue[j] = m /\ list' = [list EXCEPT ![m][j] = @ + 1]
                          /\ enqueue' = [enqueue EXCEPT ![j] = IF m = "node" THEN "model" ELSE "done"]
    BY <1>2 DEF EnqueuePush, Push, EnqueueAt
  <2>2. UNCHANGED <<workVars, historyVars>>
    BY <1>2 DEF EnqueuePush, EnqueueRest
  <2>3. \A k \in Jobs \ {j} : enqueue'[k] = enqueue[k] /\ \A l \in Lists : list'[l][k] = list[l][k]
    BY <1>0, <2>1 DEF Typed
  <2>4. ASSUME NEW k \in Jobs \ {j}, k \notin raced'
        PROVE  /\ \A l \in Lists : list'[l][k] <= 1 /\ (Unpushed(l, k)' => list'[l][k] = 0)
               /\ takers'[k] \subseteq NodeWorkers /\ pops'[k] > 0 =>
                    /\ pops'[k] = 1 /\ enqueue'[k] \in {"done", "failed"}
                    /\ \/ list'["node"][k] = 0 /\ list'["model"][k] = 0
                       \/ \E l \in Lists, w \in Workers :
                            pc'[w] = Dropping(l) /\ cur'[w] = k /\ list'[Other(l)][k] = 0
    BY <2>2, <2>3, <2>4 DEF OneCopy, Unpushed, Other
  <2>5. ASSUME j \notin raced'
        PROVE  /\ \A l \in Lists : list'[l][j] <= 1 /\ (Unpushed(l, j)' => list'[l][j] = 0)
               /\ ~(takers'[j] \subseteq NodeWorkers /\ pops'[j] > 0)
    <3>1. j \notin raced /\ Unpushed(m, j)
      BY <2>1, <2>2, <2>5 DEF Unpushed
    <3>2. list[m][j] = 0 /\ \A l \in Lists : list[l][j] <= 1 /\ (Unpushed(l, j) => list[l][j] = 0)
      BY <3>1 DEF OneCopy
    <3>3. list'[m][j] = 1 /\ \A l \in Lists \ {m} : list'[l][j] = list[l][j]
      BY <1>0, <2>1, <3>2 DEF Typed
    <3>4. ~Unpushed(m, j)' /\ \A l \in Lists \ {m} : Unpushed(l, j)' => Unpushed(l, j)
      BY <1>0, <2>1 DEF Unpushed, Typed
    <3>5. ~(takers'[j] \subseteq NodeWorkers /\ pops'[j] > 0)
      BY <2>1, <2>2, <3>1 DEF OneCopy
    <3> QED
      BY <3>2, <3>3, <3>4, <3>5
  <2> QED
    BY <2>4, <2>5 DEF OneCopy
<1>3. ASSUME NEW j \in Jobs, EnqueueAgain(j)
      PROVE  OneCopy'
  <2>1. /\ \E m \in Lists : list' = [list EXCEPT ![m][j] = @ + 1]
        /\ raced' = raced \cup {j} /\ UNCHANGED <<enqueue, pc, cur, takers, pops>>
    BY <1>3 DEF EnqueueAgain, Push
  <2>2. \A k \in Jobs \ {j}, l \in Lists : list'[l][k] = list[l][k]
    BY <1>0, <2>1 DEF Typed
  <2> QED
    BY <2>1, <2>2 DEF OneCopy, Unpushed, Other
<1>4. ASSUME NEW j \in Jobs, Expires(j)
      PROVE  OneCopy'
  BY <1>4 DEF Expires, EnqueueRest, OneCopy, Unpushed
<1>5. ASSUME NEW t \in Takers, NEW l \in Lists, NEW j \in Jobs, Pops(t, l, j)
      PROVE  OneCopy'
  <2>1. /\ pc[t] = "poll" /\ list[l][j] > 0 /\ list' = [list EXCEPT ![l][j] = @ - 1]
        /\ cur' = [cur EXCEPT ![t] = j]
        /\ takers' = [takers EXCEPT ![j] = @ \cup {t}] /\ pops' = [pops EXCEPT ![j] = @ + 1]
        /\ raced' = IF enqueue[j] \in {"node", "model"} \/ \E w \in Workers : AtRemove(w, j)
                    THEN raced \cup {j} ELSE raced
        /\ UNCHANGED enqueue
        /\ \E to \in {Dropping(Other(l)), "read"} :
             pc' = [pc EXCEPT ![t] = to] /\ (t \in NodeWorkers => to = Dropping(Other(l)))
    BY <1>5 DEF Pops, Take
  <2>2. /\ \A k \in Jobs \ {j} : pops'[k] = pops[k] /\ takers'[k] = takers[k]
                                 /\ \A m \in Lists : list'[m][k] = list[m][k]
        /\ list'[l][j] = list[l][j] - 1 /\ \A m \in Lists \ {l} : list'[m][j] = list[m][j]
        /\ \A u \in Takers \ {t} : pc'[u] = pc[u] /\ cur'[u] = cur[u]
    BY <1>0, <2>1 DEF Typed
  <2>3. \A m \in Lists : list[m][j] \in Nat
    BY <1>0 DEF Typed
  <2>4. ASSUME NEW k \in Jobs \ {j}, k \notin raced'
        PROVE  /\ \A m \in Lists : list'[m][k] <= 1 /\ (Unpushed(m, k)' => list'[m][k] = 0)
               /\ takers'[k] \subseteq NodeWorkers /\ pops'[k] > 0 =>
                    /\ pops'[k] = 1 /\ enqueue'[k] \in {"done", "failed"}
                    /\ \/ list'["node"][k] = 0 /\ list'["model"][k] = 0
                       \/ \E m \in Lists, w \in Workers :
                            pc'[w] = Dropping(m) /\ cur'[w] = k /\ list'[Other(m)][k] = 0
    <3>1. k \notin raced /\ (Unpushed("node", k)' => Unpushed("node", k))
          /\ (Unpushed("model", k)' => Unpushed("model", k))
      BY <2>1, <2>4 DEF Unpushed
    <3>2. ASSUME NEW m \in Lists, NEW w \in Workers, pc[w] = Dropping(m)
          PROVE  pc'[w] = pc[w] /\ cur'[w] = cur[w]
      BY <2>1, <2>2, <3>2 DEF Dropping, Takers
    <3> QED
      BY <2>1, <2>2, <3>1, <3>2 DEF OneCopy, Other
  <2>5. ASSUME j \notin raced'
        PROVE  /\ enqueue[j] \notin {"node", "model"} /\ j \notin raced
               /\ ~\E w \in Workers : AtRemove(w, j)
               /\ enqueue[j] \in {"done", "failed"}
    <3>1. /\ enqueue[j] \notin {"node", "model"} /\ j \notin raced
          /\ ~\E w \in Workers : AtRemove(w, j)
      BY <2>1, <2>5
    <3>2. enqueue[j] # "idle"
      BY <1>0, <2>1 DEF Budget
    <3> QED
      BY <1>0, <3>1, <3>2 DEF Typed
  <2>6. ASSUME j \notin raced'
        PROVE  /\ list'[l][j] = 0
               /\ \A m \in Lists : list'[m][j] <= 1 /\ (Unpushed(m, j)' => list'[m][j] = 0)
    <3>1. \A m \in Lists : list[m][j] <= 1
      BY <2>5, <2>6 DEF OneCopy
    <3>2. ~Unpushed("node", j)' /\ ~Unpushed("model", j)'
      BY <2>1, <2>5, <2>6 DEF Unpushed
    <3> QED
      BY <2>1, <2>2, <2>3, <3>1, <3>2
  <2>7. ASSUME j \notin raced', takers'[j] \subseteq NodeWorkers
        PROVE  /\ pops'[j] = 1 /\ enqueue'[j] \in {"done", "failed"}
               /\ \E m \in Lists, w \in Workers :
                    pc'[w] = Dropping(m) /\ cur'[w] = j /\ list'[Other(m)][j] = 0
    <3>1. takers[j] \subseteq NodeWorkers /\ t \in NodeWorkers
      BY <1>0, <2>1, <2>7 DEF Typed
    <3>2. pops[j] = 0
      <4>1. ~(list["node"][j] = 0 /\ list["model"][j] = 0)
        BY <2>1
      <4>2. ASSUME NEW m \in Lists, NEW w \in Workers, pc[w] = Dropping(m)
            PROVE  cur[w] # j
        BY <2>5, <2>7, <4>2 DEF AtRemove, Dropping
      <4>3. ~(pops[j] > 0)
        BY <2>5, <2>7, <3>1, <4>1, <4>2 DEF OneCopy
      <4> QED
        BY <1>0, <4>3 DEF Typed
    <3>3. pc'[t] = Dropping(Other(l)) /\ cur'[t] = j /\ t \in Workers
      BY <1>0, <2>1, <3>1 DEF Typed, Workers
    <3>4. Other(l) \in Lists /\ Other(Other(l)) = l
      BY DEF Other
    <3>5. pops'[j] = 1 /\ enqueue'[j] \in {"done", "failed"}
      BY <1>0, <2>1, <2>5, <2>7, <3>2 DEF Typed
    <3> QED
      BY <2>6, <2>7, <3>3, <3>4, <3>5
  <2> QED
    BY <2>4, <2>6, <2>7 DEF OneCopy
<1>6. ASSUME NEW t \in Takers, Works(t)
      PROVE  OneCopy'
  <2>1. UNCHANGED <<enqueue, takers, pops, raced>> /\ cur[t] \in Jobs
    BY <1>0, <1>6, WorkMoves
  <2>2. \A u \in Takers \ {t} : pc'[u] = pc[u] /\ cur'[u] = cur[u]
    BY <1>0, <1>6, WorkMoves
  <2>3. CASE pc[t] \notin {"drop node", "drop model"} /\ UNCHANGED list
    <3>1. ASSUME NEW l \in Lists, NEW w \in Workers, pc[w] = Dropping(l)
          PROVE  pc'[w] = pc[w] /\ cur'[w] = cur[w]
      BY <2>2, <2>3, <3>1 DEF Dropping, Takers
    <3>2. \A k \in Jobs, l \in Lists : Unpushed(l, k)' => Unpushed(l, k)
      BY <2>1 DEF Unpushed
    <3>3. list' = list
      BY <2>3
    <3> QED
      BY <2>1, <3>1, <3>2, <3>3 DEF OneCopy
  <2>4. ASSUME NEW m \in Lists, pc[t] = Dropping(m), list' = [list EXCEPT ![m][cur[t]] = 0]
        PROVE  OneCopy'
    <3>1. /\ \A k \in Jobs \ {cur[t]}, l \in Lists : list'[l][k] = list[l][k]
          /\ list'[m][cur[t]] = 0 /\ \A l \in Lists \ {m} : list'[l][cur[t]] = list[l][cur[t]]
      BY <1>0, <2>1, <2>4 DEF Typed
    <3>2. \A k \in Jobs, l \in Lists : Unpushed(l, k)' => Unpushed(l, k)
      BY <2>1 DEF Unpushed
    <3>3. ASSUME NEW k \in Jobs, k \notin raced', takers'[k] \subseteq NodeWorkers, pops'[k] > 0
          PROVE  /\ pops'[k] = 1 /\ enqueue'[k] \in {"done", "failed"}
                 /\ \/ list'["node"][k] = 0 /\ list'["model"][k] = 0
                    \/ \E l \in Lists, w \in Workers :
                         pc'[w] = Dropping(l) /\ cur'[w] = k /\ list'[Other(l)][k] = 0
      <4>1. pops'[k] = 1 /\ enqueue'[k] \in {"done", "failed"}
        BY <2>1, <3>3 DEF OneCopy
      <4>2. CASE list["node"][k] = 0 /\ list["model"][k] = 0
        BY <3>1, <4>1, <4>2
      <4>3. ASSUME NEW l \in Lists, NEW w \in Workers,
                   pc[w] = Dropping(l), cur[w] = k, list[Other(l)][k] = 0
            PROVE  \/ list'["node"][k] = 0 /\ list'["model"][k] = 0
                   \/ pc'[w] = Dropping(l) /\ cur'[w] = k /\ list'[Other(l)][k] = 0
        <5>1. CASE w = t
          BY <2>4, <3>1, <4>3, <5>1 DEF Dropping, Other
        <5>2. CASE w # t
          BY <2>2, <3>1, <4>3, <5>2 DEF Other, Takers
        <5> QED
          BY <5>1, <5>2
      <4> QED
        BY <2>1, <3>3, <4>1, <4>2, <4>3 DEF OneCopy
    <3>4. \A k \in Jobs, l \in Lists : list'[l][k] <= list[l][k] /\ list'[l][k] \in Nat
                                     /\ list[l][k] \in Nat
      BY <1>0, <2>1, <3>1 DEF Typed
    <3>5. ASSUME NEW k \in Jobs, k \notin raced', NEW l \in Lists
          PROVE  list'[l][k] <= 1 /\ (Unpushed(l, k)' => list'[l][k] = 0)
      BY <2>1, <3>2, <3>4, <3>5 DEF OneCopy
    <3> QED
      BY <3>3, <3>5 DEF OneCopy
  <2> QED
    BY <1>6, <2>3, <2>4 DEF Works
<1>7. ASSUME NEW t \in Takers, Stops(t)
      PROVE  OneCopy'
  <2>1. /\ UNCHANGED <<enqueue, takers, pops, list>>
        /\ raced' = IF AtRemove(t, cur[t]) THEN raced \cup {cur[t]} ELSE raced
        /\ \A u \in Takers \ {t} : pc'[u] = pc[u] /\ cur'[u] = cur[u]
    BY <1>0, <1>7 DEF Stops, Still, Over, Typed
  <2>2. ASSUME NEW l \in Lists, NEW w \in Workers, pc[w] = Dropping(l), cur[w] \notin raced'
        PROVE  pc'[w] = pc[w] /\ cur'[w] = cur[w]
    BY <2>1, <2>2 DEF AtRemove, Dropping, Takers
  <2>3. raced \subseteq raced'
    BY <2>1
  <2> QED
    BY <2>1, <2>2, <2>3 DEF OneCopy, Unpushed
<1>8. ASSUME NEW t \in Takers, Loses(t)
      PROVE  OneCopy'
  <2>1. /\ \E l \in Lists, j \in Jobs : list[l][j] > 0 /\ list' = [list EXCEPT ![l][j] = @ - 1]
        /\ UNCHANGED <<enqueue, pc, cur, takers, pops, raced>>
    BY <1>8 DEF Loses
  <2>2. \A k \in Jobs, m \in Lists : list'[m][k] <= list[m][k] /\ list'[m][k] \in Nat
                                   /\ list[m][k] \in Nat
    BY <1>0, <2>1 DEF Typed
  <2>3. \A k \in Jobs, m \in Lists : list[m][k] = 0 => list'[m][k] = 0
    BY <2>2
  <2>4. \A k \in Jobs, m \in Lists : list[m][k] <= 1 => list'[m][k] <= 1
    BY <2>2
  <2>5. \A l \in Lists : Other(l) \in Lists
    BY DEF Other
  <2> QED
    BY <2>1, <2>3, <2>4, <2>5 DEF OneCopy, Unpushed
<1>9. ASSUME UNCHANGED vars
      PROVE  OneCopy'
  BY <1>9 DEF vars, queueVars, OneCopy, Unpushed
<1> QED
  BY <1>1, <1>2, <1>3, <1>4, <1>5, <1>6, <1>7, <1>8, <1>9, PopStep, WorkStep
     DEF Next, Takers, Workers, Consume

(* The holder of a job popped once is alone to write its record.           *)
LEMMA OneHolderStep ==
  ASSUME QueueShape, QueueShape', OneHolder, [Next]_vars
  PROVE  OneHolder'
<1> USE NoneIsNoValue DEF Goto, historyVars, workVars
<1>0. Typed /\ Holding /\ Budget /\ Typed'
  BY DEF QueueShape
<1>1. ASSUME NEW j \in Jobs,
             EnqueueSet(j) \/ EnqueuePush(j) \/ EnqueueAgain(j) \/ EnqueueFails(j) \/ Expires(j)
      PROVE  OneHolder'
  <2>1. /\ UNCHANGED <<workVars, pops>>
        /\ \A k \in Jobs : \/ record'[k] = record[k] \/ record'[k] = None
                           \/ record'[k].status = "pending"
    BY <1>0, <1>1 DEF EnqueueSet, EnqueuePush, EnqueueAgain, EnqueueFails, Expires, EnqueueRest, Set, Typed
  <2> QED
    BY <1>0, <2>1 DEF OneHolder
<1>2. ASSUME NEW t \in Takers, NEW l \in Lists, NEW j \in Jobs, Pops(t, l, j)
      PROVE  OneHolder'
  <2>1. /\ pc[t] = "poll" /\ cur[t] = None /\ UNCHANGED record
        /\ pops'[j] = pops[j] + 1 /\ cur'[t] = j
        /\ \A k \in Jobs \ {j} : pops'[k] = pops[k]
        /\ \A u \in Takers \ {t} : UNCHANGED <<pc[u], cur[u]>>
    BY <1>0, <1>2 DEF Pops, Take, Holding, Typed
  <2>2. pops[j] \in Nat /\ pops'[j] \in Nat
    BY <1>0 DEF Typed
  <2>3. pops[j] = 0 => /\ \A u \in Takers : cur[u] # j
                       /\ record[j] # None => record[j].status = "pending"
    BY <1>0 DEF Holding, OneHolder, Typed
  <2> QED
    BY <1>0, <2>1, <2>2, <2>3 DEF OneHolder
<1>3. ASSUME NEW t \in Takers, Works(t)
      PROVE  OneHolder'
  <2>1. /\ UNCHANGED pops /\ cur[t] \in Jobs /\ pops[cur[t]] > 0
        /\ \A u \in Takers \ {t} : UNCHANGED <<pc[u], cur[u]>>
        /\ cur'[t] \in {None, cur[t]}
    BY <1>0, <1>3, WorkMoves
  <2>2. /\ \A k \in Jobs \ {cur[t]} : record'[k] = record[k]
        /\ \/ record' = record
           \/ /\ pc[t] # "tell"
              /\ record'[cur[t]].status = "completed" => cur'[t] = None \/ pc'[t] = "tell"
    BY <1>0, <1>3, WorkMoves
  <2>3. pc[t] = "tell" => cur'[t] = None
    BY <1>0, <1>3, WorkMoves
  <2>4. ASSUME NEW j \in Jobs, pops'[j] < 2
        PROVE  /\ pops'[j] = 0 /\ record'[j] # None => record'[j].status = "pending"
               /\ \A u, v \in Takers : cur'[u] = j /\ cur'[v] = j => u = v
    <3>1. pops[j] < 2 /\ (pops'[j] = 0 => j # cur[t])
      BY <1>0, <2>1, <2>4
    <3>2. pops'[j] = 0 => record'[j] = record[j] /\ pops[j] = 0
      BY <1>0, <2>1, <2>2, <2>4, <3>1
    <3>3. \A u \in Takers : cur'[u] = j => cur[u] = j
      BY <1>0, <2>1, <2>4, NoneIsNoValue
    <3> QED
      BY <3>1, <3>2, <3>3 DEF OneHolder
  <2>5. ASSUME NEW j \in Jobs, pops'[j] < 2, record'[j] # None, record'[j].status = "completed",
               NEW u \in Takers, cur'[u] = j
        PROVE  pc'[u] = "tell"
    <3>1. cur[u] = j
      BY <1>0, <2>1, <2>5
    <3>2. CASE u = t
      BY <1>0, <2>1, <2>2, <2>3, <2>5, <3>1, <3>2 DEF OneHolder
    <3>3. CASE u # t
      <4>1. cur[t] # j
        BY <1>0, <2>1, <2>5, <3>1, <3>3 DEF OneHolder
      <4> QED
        BY <1>0, <2>1, <2>2, <2>5, <3>1, <3>3, <4>1 DEF OneHolder
    <3> QED
      BY <3>2, <3>3
  <2> QED
    BY <1>0, <2>1, <2>4, <2>5 DEF OneHolder, Typed
<1>4a. ASSUME NEW t \in Takers, Loses(t)
       PROVE  OneHolder'
  BY <1>0, <1>4a DEF Loses, OneHolder
<1>4. ASSUME NEW t \in Takers, Stops(t)
      PROVE  OneHolder'
  <2>1. /\ UNCHANGED <<pops, record>> /\ cur'[t] = None
        /\ \A u \in Takers \ {t} : UNCHANGED <<pc[u], cur[u]>>
    BY <1>0, <1>4 DEF Stops, Still, Over, Typed
  <2> QED
    BY <1>0, <2>1 DEF OneHolder
<1>5. ASSUME UNCHANGED vars
      PROVE  OneHolder'
  BY <1>0, <1>5 DEF vars, queueVars, OneHolder
<1> QED
  BY <1>1, <1>2, <1>3, <1>4, <1>4a, <1>5, PopStep, WorkStep DEF Next, Takers, Workers, Consume

(* A job is popped twice only in the ways the property names, and a        *)
(* completed record changes only if it was: for every number of workers,   *)
(* consumers and failures.                                                 *)
THEOREM OneRunCorrect == Spec => OneRunUnlessRaced
<1>1. ASSUME QueueShape, QueueShape', OneCopy', OneHolder, [Next]_vars, NEW j \in Jobs
      PROVE  /\ pops'[j] > 1 => j \in raced' \/ takers'[j] \ NodeWorkers # {}
             /\ record[j] # None /\ record[j].status = "completed" =>
                  record'[j] = None \/ record'[j].status = "completed" \/ pops[j] > 1
  <2>0. Typed /\ Typed' /\ Budget /\ Holding
    BY <1>1 DEF QueueShape
  <2>1. pops'[j] > 1 => j \in raced' \/ takers'[j] \ NodeWorkers # {}
    BY <1>1, <2>0 DEF OneCopy, Typed
  <2>2. ASSUME record[j] # None, record[j].status = "completed", pops[j] < 2,
               record'[j] # None, record'[j] # record[j]
        PROVE  FALSE
    <3>1. ASSUME NEW k \in Jobs, EnqueueSet(k)
          PROVE  FALSE
      BY <1>1, <2>0, <2>2, <3>1 DEF EnqueueSet, Set, Typed, Budget
    <3>2. ASSUME NEW k \in Jobs, EnqueuePush(k) \/ EnqueueAgain(k) \/ EnqueueFails(k) \/ Expires(k)
          PROVE  FALSE
      BY <1>1, <2>0, <2>2, <3>2 DEF EnqueuePush, EnqueueAgain, EnqueueFails, Expires, Typed
    <3>3. ASSUME NEW t \in Takers, NEW l \in Lists, NEW k \in Jobs, Pops(t, l, k)
          PROVE  FALSE
      BY <2>2, <3>3 DEF Pops, Take
    <3>4. ASSUME NEW t \in Takers, Works(t)
          PROVE  FALSE
      <4>1. record' # record /\ (cur[t] # j => record'[j] = record[j])
        BY <2>0, <2>2, <3>4, WorkMoves
      <4>2. cur[t] = j /\ pc[t] # "tell"
        BY <2>0, <2>2, <3>4, <4>1, WorkMoves
      <4> QED
        BY <1>1, <2>2, <4>2 DEF OneHolder
    <3>5. ASSUME NEW t \in Takers, Stops(t) \/ Loses(t)
          PROVE  FALSE
      BY <2>2, <3>5 DEF Stops, Loses
    <3>6. ~UNCHANGED vars
      BY <2>2 DEF vars, queueVars
    <3> QED
      BY <1>1, <3>1, <3>2, <3>3, <3>4, <3>5, <3>6, PopStep, WorkStep DEF Next, Takers, Workers, Consume
  <2> QED
    BY <1>1, <2>0, <2>1, <2>2 DEF Typed
<1>2. ASSUME QueueShape, QueueShape', OneCopy', OneHolder, [Next]_vars
      PROVE  [\A j \in Jobs :
                /\ pops'[j] > 1 => j \in raced' \/ takers'[j] \ NodeWorkers # {}
                /\ record[j] # None /\ record[j].status = "completed" =>
                     record'[j] = None \/ record'[j].status = "completed" \/ pops[j] > 1]_vars
  BY <1>1, <1>2
<1> QED
  BY <1>2, QueueShapeInit, QueueShapeInvariant, OneCopyStep, OneHolderStep, PTL
     DEF Spec, OneRunUnlessRaced
=============================================================================
