------------------------- MODULE OrchestratorTable -------------------------
(***************************************************************************)
(* What an orchestrator process guarantees of the jobs it took, from the   *)
(* submission to the end of its life: with any number of replicas and      *)
(* requests, failing or dropped on the way, over any number of restarts.   *)
(* Its table is ahead of every copy of such a job, keeps every accepted    *)
(* report, grants a cancellation once, and implements JobLifecycle.  Of a  *)
(* record that was made of a row only TableMovesOnward is promised.        *)
(***************************************************************************)
EXTENDS OrchestratorProofs, OrchestratorRefinement

(* A handler of another request learns of a job when its record is there,  *)
(* so it never reads the row of a job that its own process took; and the   *)
(* channel that create_job made belongs to that record alone.              *)
JobFits(j) ==
  /\ pc[j] \in {"idle", "insert"} =>
       rows[j] = None /\ \A r \in Replicas : mem[r][j] = None /\ notifier[r][j] = None
  /\ pc[j] = "insert" => local[j].status = "IN_QUEUE" /\ local[j].lines = {}
  /\ \A r \in Replicas :
       /\ Own(r, j) => proc[j] = r /\ mem[r][j] # None
       /\ notifier[r][j] \in Jobs => notifier[r][j] = j

RequestFits(q) ==
  /\ pc[q] \in {"idle", "done"} => local[q] = None
  /\ pc[q] \in {"idle", "insert", "done"} => sender[q] = None
  /\ q \notin Jobs /\ pc[q] # "idle" => Disclosed(target[q])
  /\ pc[q] \in {"readRow", "cacheRow"} => ~Own(proc[q], target[q])
  /\ q \notin Jobs /\ pc[q] \in {"idle", "check", "readRow", "cacheRow"} =>
       \A r \in Replicas, j \in Jobs : notifier[r][j] # q
  /\ sender[q] \in Jobs => sender[q] = target[q] /\ Own(proc[q], target[q])
  /\ sender[q] # None /\ Own(proc[q], target[q]) => sender[q] = target[q]

Fits == (\A j \in Jobs : JobFits(j)) /\ (\A q \in Requests : RequestFits(q))

(* One entry of a table that is replaced.                                  *)
Put(f, g, r, j, d) ==
  /\ g[r][j] = d
  /\ \A s \in Replicas, k \in Jobs : <<s, k>> # <<r, j>> => g[s][k] = f[s][k]

(* Storing a record changes that record only.                              *)
LEMMA StoreAt ==
  ASSUME TypeOK, NEW r \in Replicas, NEW j \in Jobs, NEW d, Store(r, j, d)
  PROVE  Put(mem, mem', r, j, d)
BY DEF Store, TypeOK, Put

(* So does the insertion of a channel.                                     *)
LEMMA ChannelAt ==
  ASSUME TypeOK, NEW r \in Replicas, NEW j \in Jobs, NEW c,
         notifier' = [notifier EXCEPT ![r][j] = c]
  PROVE  Put(notifier, notifier', r, j, c)
BY DEF TypeOK, Put

(* Recomputing a position leaves status, lines and result alone.           *)
LEMMA PositionedSame ==
  ASSUME NEW r, NEW d \in Data
  PROVE  /\ Positioned(r, d).status = d.status /\ Positioned(r, d).lines = d.lines
         /\ Positioned(r, d).result = d.result
BY DEF Positioned, Data

(* What the mutators do to status and lines.                               *)
LEMMA ReportedSays ==
  ASSUME NEW d \in Data, NEW q \in Requests, NEW ev \in Event
  PROVE  /\ Reported(d, q, ev).lines = d.lines \cup {q}
         /\ Reported(d, q, ev).status \in {"IN_PROGRESS", "COMPLETED", "ERROR", d.status}
         /\ ev.kind # "LOG" => Reported(d, q, ev).status = ev.kind
BY DEF Reported, Data, Event

(* A withdrawal adds the line of the cancellation.                         *)
LEMMA WithdrawnSays ==
  ASSUME NEW d \in Data, NEW q \in Requests
  PROVE  Withdrawn(d, q).lines = d.lines \cup {q} /\ Withdrawn(d, q).status = "CANCELED"
BY DEF Withdrawn, Data

(* The record of job j at r becomes d, which has every line it had and     *)
(* does not wait unless it did.                                            *)
Extends(r, j, d) ==
  /\ r \in Replicas /\ j \in Jobs
  /\ d \in Data /\ d # None
  /\ Put(mem, mem', r, j, d)
  /\ mem[r][j] # None => Onward(mem[r][j], d)

(* A report adds its line to the record and sets status and result.        *)
LEMMA ReportExtends ==
  ASSUME Shape, NEW q \in Requests, MutateReport(q)
  PROVE  \E d :
           LET r == proc[q]
               j == target[q]
           IN /\ Extends(r, j, d) /\ mem[r][j] \in Data /\ mem[r][j] # None
              /\ d.lines = mem[r][j].lines \cup {q}
              /\ d.status \in {"IN_PROGRESS", "COMPLETED", "ERROR", mem[r][j].status}
              /\ event[q].kind # "LOG" => d.status = event[q].kind
              /\ watch' = [watch EXCEPT ![notifier[r][j]] = d]
              /\ local' = [local EXCEPT ![q] = d]
<1> DEFINE r == proc[q]
           j == target[q]
           e == Reported(mem[r][j], q, event[q])
           d == Positioned(r, e)
<1>1. r \in Replicas /\ j \in Jobs /\ mem[r][j] \in Data /\ mem[r][j] # None
  BY CachedHas DEF MutateReport, Cached
<1>2. event[q] \in Event
  BY DEF MutateReport, Shape, Bound
<1>3. /\ e \in Data /\ e.lines = mem[r][j].lines \cup {q}
      /\ e.status \in {"IN_PROGRESS", "COMPLETED", "ERROR", mem[r][j].status}
      /\ event[q].kind # "LOG" => e.status = event[q].kind
  BY <1>1, <1>2, ReportedType, ReportedSays
<1>4. d \in Data /\ d.lines = e.lines /\ d.status = e.status
  BY <1>3, PositionedType, PositionedSame
<1>5. Store(r, j, d) /\ watch' = [watch EXCEPT ![notifier[r][j]] = d]
      /\ local' = [local EXCEPT ![q] = d]
  BY DEF MutateReport, Send
<1>6. Put(mem, mem', r, j, d)
  BY <1>1, <1>5, StoreAt DEF Shape
<1> HIDE DEF r, j, e, d
<1>7. Extends(r, j, d)
  BY <1>1, <1>3, <1>4, <1>6, ConstantsTyped DEF Extends, Onward
<1> QED
  BY <1>1, <1>3, <1>4, <1>5, <1>7 DEF r, j

(* A cancellation withdraws a waiting job and leaves any other as it is.   *)
LEMMA CancelExtends ==
  ASSUME Shape, NEW q \in Requests, MutateCancel(q)
  PROVE  \E d :
           LET r == proc[q]
               j == target[q]
           IN /\ Extends(r, j, d) /\ mem[r][j] \in Data /\ mem[r][j] # None
              /\ watch' = [watch EXCEPT ![notifier[r][j]] = d]
              /\ local' = [local EXCEPT ![q] = d]
              /\ IF Waiting(r, j)
                 THEN d.lines = mem[r][j].lines \cup {q} /\ d.status = "CANCELED"
                 ELSE /\ d.lines = mem[r][j].lines /\ d.status = mem[r][j].status
                      /\ d.result = mem[r][j].result
<1> DEFINE r == proc[q]
           j == target[q]
           e == IF Waiting(r, j) THEN Withdrawn(mem[r][j], q) ELSE mem[r][j]
           d == Positioned(r, e)
<1>1. r \in Replicas /\ j \in Jobs /\ mem[r][j] \in Data /\ mem[r][j] # None
  BY CachedHas DEF MutateCancel, Cached
<1>2. /\ e \in Data
      /\ IF Waiting(r, j)
         THEN e.lines = mem[r][j].lines \cup {q} /\ e.status = "CANCELED"
         ELSE e.lines = mem[r][j].lines /\ e.status = mem[r][j].status /\ e.result = mem[r][j].result
  BY <1>1, WithdrawnType, WithdrawnSays
<1>3. d \in Data /\ d.lines = e.lines /\ d.status = e.status /\ d.result = e.result
  BY <1>2, PositionedType, PositionedSame
<1>4. Store(r, j, d) /\ watch' = [watch EXCEPT ![notifier[r][j]] = d]
      /\ local' = [local EXCEPT ![q] = d]
  BY DEF MutateCancel, Send
<1>5. Put(mem, mem', r, j, d)
  BY <1>1, <1>4, StoreAt DEF Shape
<1> HIDE DEF r, j, e, d
<1>6. Extends(r, j, d)
  BY <1>1, <1>2, <1>3, <1>5, ConstantsTyped DEF Extends, Onward
<1> QED
  BY <1>1, <1>2, <1>3, <1>4, <1>6 DEF r, j

(* A snapshot recomputes the position and nothing else.                    *)
LEMMA RefreshExtends ==
  ASSUME Shape, NEW q \in Requests, Refresh(q)
  PROVE  \E d :
           LET r == proc[q]
               j == target[q]
           IN /\ Extends(r, j, d) /\ mem[r][j] \in Data /\ mem[r][j] # None
              /\ local' = [local EXCEPT ![q] = d]
              /\ d.lines = mem[r][j].lines /\ d.status = mem[r][j].status
              /\ d.result = mem[r][j].result
<1> DEFINE r == proc[q]
           j == target[q]
           d == Positioned(r, mem[r][j])
<1>1. r \in Replicas /\ j \in Jobs /\ mem[r][j] \in Data /\ mem[r][j] # None
  BY CachedHas DEF Refresh, Cached
<1>2. d \in Data /\ d.lines = mem[r][j].lines /\ d.status = mem[r][j].status
      /\ d.result = mem[r][j].result
  BY <1>1, PositionedType, PositionedSame
<1>3. Store(r, j, d) /\ local' = [local EXCEPT ![q] = d]
  BY DEF Refresh
<1>4. Put(mem, mem', r, j, d)
  BY <1>1, <1>3, StoreAt DEF Shape
<1> HIDE DEF r, j, d
<1>5. Extends(r, j, d)
  BY <1>1, <1>2, <1>4, ConstantsTyped DEF Extends, Onward
<1> QED
  BY <1>1, <1>2, <1>3, <1>5 DEF r, j

(* A submission makes the first record of its job, waiting and empty.      *)
LEMMA InsertExtends ==
  ASSUME Shape, Fits, NEW q \in Jobs, InsertJob(q)
  PROVE  \E d :
           LET r == proc[q] IN
            /\ mem[r][q] = None /\ Extends(r, q, d)
            /\ Put(notifier, notifier', r, q, q)
            /\ watch' = [watch EXCEPT ![q] = d]
            /\ local' = [local EXCEPT ![q] = d]
            /\ d.lines = {} /\ d.status = "IN_QUEUE"
            /\ target[q] = q
<1> DEFINE r == proc[q]
           d == Positioned(r, local[q])
<1>1. r \in Replicas /\ local[q] \in Data /\ mem[r][q] = None /\ target[q] = q
  BY DEF InsertJob, Shape, TypeOK, Bound, Submitting, Requests, Fits, JobFits
<1>2. d \in Data /\ d.lines = {} /\ d.status = "IN_QUEUE"
  BY <1>1, PositionedType, PositionedSame DEF InsertJob, Fits, JobFits
<1>3. Store(r, q, d) /\ local' = [local EXCEPT ![q] = d] /\ watch' = [watch EXCEPT ![q] = d]
      /\ notifier' = [notifier EXCEPT ![r][q] = q]
  BY DEF InsertJob, Send
<1>4. Put(mem, mem', r, q, d) /\ Put(notifier, notifier', r, q, q)
  BY <1>1, <1>3, StoreAt, ChannelAt DEF Shape
<1> HIDE DEF r, d
<1>5. Extends(r, q, d)
  BY <1>1, <1>2, <1>4, ConstantsTyped DEF Extends
<1> QED
  BY <1>1, <1>2, <1>3, <1>4, <1>5 DEF r

(* A row is put into the table with a channel of the handler that read it, *)
(* never over the record of a job that the process took.                   *)
LEMMA CacheRowPuts ==
  ASSUME Shape, Fits, NEW q \in Requests, CacheRow(q)
  PROVE  \E d \in Data :
           LET r == proc[q]
               j == target[q]
           IN /\ r \in Replicas /\ j \in Jobs /\ q \notin Jobs /\ d # None
              /\ ~Own(r, j) /\ notifier[r][j] # q
              /\ Put(mem, mem', r, j, d)
              /\ Put(notifier, notifier', r, j, q)
              /\ watch' = [watch EXCEPT ![q] = d]
<1> DEFINE r == proc[q]
           j == target[q]
           d == Positioned(r, local[q])
<1>1. r \in Replicas /\ j \in Jobs /\ q \notin Jobs /\ local[q] \in Data
  BY DEF CacheRow, Shape, TypeOK, Bound, Holding
<1>2. d \in Data /\ d # None
  BY <1>1, PositionedType, ConstantsTyped
<1>3. ~Own(r, j) /\ notifier[r][j] # q
  BY <1>1 DEF CacheRow, Fits, RequestFits
<1>4. Store(r, j, d) /\ notifier' = [notifier EXCEPT ![r][j] = q] /\ watch' = [watch EXCEPT ![q] = d]
  BY DEF CacheRow, Send
<1>5. Put(mem, mem', r, j, d) /\ Put(notifier, notifier', r, j, q)
  BY <1>1, <1>4, StoreAt, ChannelAt DEF Shape
<1> HIDE DEF r, j, d
<1> QED
  BY <1>1, <1>2, <1>3, <1>4, <1>5 DEF r, j

-----------------------------------------------------------------------------
(* Fits is inductive.                                                      *)

(* A handler that goes from one await to the next, makes or removes no     *)
(* record, and at most takes the channel of the one it is about.           *)
LEMMA MoveFits ==
  ASSUME Shape, Fits, NEW q \in Requests, NEW l, pc' = [pc EXCEPT ![q] = l],
         UNCHANGED <<notifier, target, proc>>,
         \A r \in Replicas, j \in Jobs : mem'[r][j] = None <=> mem[r][j] = None,
         \A j \in Jobs : pc[j] \in {"idle", "insert"} => rows'[j] = rows[j],
         \A p \in Requests : p # q => local'[p] = local[p] /\ sender'[p] = sender[p],
         \/ sender'[q] = sender[q]
         \/ q \notin Jobs /\ sender'[q] = notifier[proc[q]][target[q]],
         pc[q] \notin {"idle", "insert", "done"},
         l \notin {"idle", "insert", "insertRow", "check", "done"},
         l \in {"readRow", "cacheRow"} =>
           q \notin Jobs /\ pc[q] \in {"check", "readRow"} /\ ~Own(proc[q], target[q])
  PROVE  Fits'
<1>1. pc'[q] = l /\ \A p \in Requests : p # q => pc'[p] = pc[p]
  BY DEF Shape, TypeOK
<1>2. ASSUME NEW j \in Jobs
      PROVE  JobFits(j)'
  BY <1>1, <1>2 DEF Fits, JobFits, Requests, Own
<1>3. ASSUME NEW p \in Requests
      PROVE  RequestFits(p)'
  <2>1. p \notin Jobs /\ pc'[p] # "idle" => pc[p] # "idle" /\ target[p] \in Jobs
    BY <1>1 DEF Shape, Bound
  <2>2. p \notin Jobs /\ pc'[p] # "idle" => Disclosed(target[p])'
    BY <1>1, <2>1 DEF Fits, RequestFits, Disclosed
  <2>3. CASE p = q
    <3>1. q \notin Jobs => proc[q] \in Replicas /\ target[q] \in Jobs
      BY DEF Shape, Bound
    <3>2. /\ sender'[q] \in Jobs => sender'[q] = target[q] /\ Own(proc[q], target[q])
          /\ sender'[q] # None /\ Own(proc[q], target[q]) => sender'[q] = target[q]
      BY <3>1 DEF Fits, RequestFits, JobFits, Own
    <3> QED
      BY <1>1, <2>2, <2>3, <3>2 DEF Fits, RequestFits, Own
  <2>4. CASE p # q
    BY <1>1, <2>2, <2>4 DEF Fits, RequestFits, Own
  <2> QED
    BY <2>3, <2>4
<1> QED
  BY <1>2, <1>3 DEF Fits

(* A handler that ends lets go of what it held.                            *)
LEMMA EndFits ==
  ASSUME Shape, Fits, NEW q \in Requests, NEW a, End(q, a), pc[q] # "idle",
         UNCHANGED <<mem, notifier, rows, target, proc>>
  PROVE  Fits'
<1>1. pc'[q] = "done" /\ local'[q] = None /\ sender'[q] = None
  BY DEF End, Goto, Shape, TypeOK
<1>2. \A p \in Requests : p # q => pc'[p] = pc[p] /\ local'[p] = local[p] /\ sender'[p] = sender[p]
  BY DEF End, Goto, Shape, TypeOK
<1>3. ASSUME NEW j \in Jobs
      PROVE  JobFits(j)'
  BY <1>1, <1>2, <1>3 DEF Fits, JobFits, Requests, Own
<1>4. ASSUME NEW p \in Requests
      PROVE  RequestFits(p)'
  <2>1. p \notin Jobs /\ pc'[p] # "idle" => pc[p] # "idle" /\ target[p] \in Jobs
    BY <1>1, <1>2 DEF Shape, Bound
  <2>2. p \notin Jobs /\ pc'[p] # "idle" => Disclosed(target[p])'
    BY <1>1, <1>2, <2>1 DEF Fits, RequestFits, Disclosed, Requests
  <2> QED
    BY <1>1, <1>2, <2>2, ConstantsTyped DEF Fits, RequestFits, Own
<1> QED
  BY <1>3, <1>4 DEF Fits

(* Every step of the service keeps Fits.                                   *)
LEMMA FitsStep ==
  ASSUME Shape, Fits, [RestartNext]_vars
  PROVE  Fits'
<1> USE ConstantsTyped, EndpointsDisjoint DEF Goto
<1>0. /\ \A q \in Requests : pc[q] # "idle" => proc[q] \in Replicas /\ target[q] \in Jobs
      /\ \A q \in Requests : q \notin Jobs /\ pc[q] # "idle" => Disclosed(target[q])
  BY DEF Shape, Bound, Fits, RequestFits
<1>1. ASSUME NEW q \in Jobs, NEW r \in Replicas, NEW k \in Queues, BeginSubmit(q, r, k)
      PROVE  Fits'
  <2>1. pc[q] = "idle" /\ pc'[q] = "insert" /\ q \in Requests /\ target[q] = q
        /\ \A p \in Requests : p # q => pc'[p] = pc[p] /\ proc'[p] = proc[p] /\ local'[p] = local[p]
    BY <1>1 DEF BeginSubmit, Shape, TypeOK, Bound, Requests
  <2>2. UNCHANGED <<mem, notifier, target, sender, rows>>
    BY <1>1 DEF BeginSubmit, processVars, dbVars
  <2>3. local'[q].status = "IN_QUEUE" /\ local'[q].lines = {}
    BY <1>1 DEF BeginSubmit, Shape, TypeOK, Requests
  <2>4. ASSUME NEW j \in Jobs
        PROVE  JobFits(j)'
    BY <2>1, <2>2, <2>3 DEF Fits, JobFits, Requests, Own
  <2>5. ASSUME NEW p \in Requests
        PROVE  RequestFits(p)'
    <3>1. p \notin Jobs /\ pc'[p] # "idle" => pc[p] # "idle" /\ target[p] \in Jobs
      BY <1>0, <2>1
    <3>2. p \notin Jobs /\ pc'[p] # "idle" => Disclosed(target[p])'
      BY <1>0, <2>1, <2>2, <3>1 DEF Disclosed, Requests
    <3>3. p = q => sender'[p] = None
      BY <2>1, <2>2 DEF Fits, RequestFits
    <3> QED
      BY <2>1, <2>2, <3>2, <3>3 DEF Fits, RequestFits, Own
  <2> QED
    BY <2>4, <2>5 DEF Fits
<1>2. ASSUME NEW q \in Jobs, InsertJob(q)
      PROVE  Fits'
  <2>1. PICK d : /\ mem[proc[q]][q] = None /\ Extends(proc[q], q, d)
                 /\ Put(notifier, notifier', proc[q], q, q)
                 /\ local' = [local EXCEPT ![q] = d]
                 /\ target[q] = q
    BY <1>2, InsertExtends
  <2>2. /\ pc[q] = "insert" /\ q \in Requests /\ pc'[q] \in {"insertRow", "setKey"}
        /\ UNCHANGED <<rows, target, sender, proc>>
        /\ \A p \in Requests : p # q => pc'[p] = pc[p] /\ local'[p] = local[p]
    BY <1>2, <2>1 DEF InsertJob, Shape, TypeOK, Requests, dbVars
  <2>3. \A p \in Requests : p # q /\ pc[p] # "idle" => target[p] # q
    BY <1>0, <2>2 DEF Disclosed, Shape, Bound
  <2>4. \A r \in Replicas : notifier[r][q] = None
    BY <2>2 DEF Fits, JobFits
  <2>5. ASSUME NEW j \in Jobs
        PROVE  JobFits(j)'
    <3>1. CASE j = q
      BY <2>1, <2>2, <2>4, <3>1 DEF Fits, JobFits, Own, Put, Extends
    <3>2. CASE j # q
      BY <2>1, <2>2, <3>2 DEF Fits, JobFits, Own, Put, Extends, Requests
    <3> QED
      BY <3>1, <3>2
  <2>6. ASSUME NEW p \in Requests
        PROVE  RequestFits(p)'
    <3>1. p \notin Jobs /\ pc'[p] # "idle" => pc[p] # "idle" /\ target[p] \in Jobs
      BY <1>0, <2>2
    <3>2. p \notin Jobs /\ pc'[p] # "idle" => Disclosed(target[p])'
      BY <1>0, <2>2, <3>1 DEF Disclosed, Requests
    <3>3. sender[q] = None
      BY <2>2 DEF Fits, RequestFits
    <3>4. p # q /\ pc[p] # "idle" => (Own(proc[p], target[p])' <=> Own(proc[p], target[p]))
      BY <1>0, <2>1, <2>2, <2>3 DEF Own, Put
    <3>5. \A r \in Replicas, j \in Jobs : notifier'[r][j] \in {q, notifier[r][j]}
      BY <2>1 DEF Put
    <3>6. pc[p] = "idle" => sender[p] = None
      BY DEF Fits, RequestFits
    <3> QED
      BY <2>2, <3>2, <3>3, <3>4, <3>5, <3>6 DEF Fits, RequestFits
  <2> QED
    BY <2>5, <2>6 DEF Fits
<1>3. ASSUME NEW q \in Jobs, InsertRow(q) \/ InsertEvent(q) \/ SetKey(q) \/ Push(q)
      PROVE  Fits'
  <2>1. pc[q] \in {"insertRow", "insertEvent", "setKey", "push"} /\ q \in Requests
        /\ \E l \in {"insertEvent", "setKey", "push", "respond"} : pc' = [pc EXCEPT ![q] = l]
    BY <1>3 DEF Executes, InsertRow, InsertEvent, SetKey, Push, Requests
  <2>2. UNCHANGED <<mem, notifier, local, sender, target, proc>>
    BY <1>3 DEF Executes, InsertRow, InsertEvent, SetKey, Push, processVars
  <2>3. \A j \in Jobs : j # q => rows'[j] = rows[j]
    BY <1>3 DEF Executes, InsertRow, InsertEvent, SetKey, Push, dbVars, Shape, TypeOK
  <2> QED
    BY <2>1, <2>2, <2>3, MoveFits
<1>4. ASSUME NEW q \in Requests, NEW r \in Replicas, NEW j \in Jobs,
             ArriveRequest(q, r, j) \/ \E e \in Events : ArriveReport(q, r, j, e)
      PROVE  Fits'
  <2>1. q \notin Jobs /\ Arrive(q, r, j)
    BY <1>4 DEF ArriveRequest, ArriveReport
  <2>2. pc[q] = "idle" /\ pc'[q] = "check" /\ target'[q] = j /\ Disclosed(j)
    BY <2>1 DEF Arrive, Shape, TypeOK
  <2>3. \A p \in Requests : p # q => pc'[p] = pc[p] /\ target'[p] = target[p] /\ proc'[p] = proc[p]
    BY <2>1 DEF Arrive, Shape, TypeOK
  <2>4. UNCHANGED <<mem, notifier, rows, local, sender>>
    BY <2>1 DEF Arrive, processVars, dbVars
  <2>5. ASSUME NEW k \in Jobs
        PROVE  JobFits(k)'
    BY <2>1, <2>2, <2>3, <2>4 DEF Fits, JobFits, Own, Requests
  <2>6. ASSUME NEW p \in Requests
        PROVE  RequestFits(p)'
    <3>1. \A k \in Jobs : Disclosed(k) => Disclosed(k)'
      BY <2>1, <2>2, <2>3 DEF Disclosed, Requests
    <3>2. p # q /\ p \notin Jobs /\ pc[p] # "idle" => Disclosed(target[p])'
      BY <1>0, <2>3, <3>1
    <3>3. sender[q] = None
      BY <2>2 DEF Fits, RequestFits
    <3> QED
      BY <2>1, <2>2, <2>3, <2>4, <3>1, <3>2, <3>3 DEF Fits, RequestFits, Own, Disclosed
  <2> QED
    BY <2>5, <2>6 DEF Fits
<1>5. ASSUME NEW q \in Requests, CacheHit(q) \/ CacheMiss(q) \/ ReadRow(q)
      PROVE  Fits'
  <2>1. pc[q] \in {"check", "readRow"} /\ q \notin Jobs
    BY <1>5 DEF Executes, CacheHit, CacheMiss, ReadRow, Shape, Bound
  <2>2. UNCHANGED <<mem, notifier, rows, sender, target, proc>>
    BY <1>5 DEF Executes, CacheHit, CacheMiss, ReadRow, processVars, dbVars
  <2>3. \A p \in Requests : p # q => local'[p] = local[p]
    BY <1>5 DEF Executes, CacheHit, CacheMiss, ReadRow, Shape, TypeOK
  <2>4. \/ pc' = [pc EXCEPT ![q] = AfterCached(q)]
        \/ \E l \in {"readRow", "cacheRow"} :
             pc' = [pc EXCEPT ![q] = l] /\ ~Own(proc[q], target[q])
    BY <1>0, <1>5, <2>1 DEF Executes, CacheHit, CacheMiss, ReadRow, Fits, RequestFits, JobFits
  <2> QED
    BY <2>1, <2>2, <2>3, <2>4, MoveFits DEF AfterCached
<1>6. ASSUME NEW q \in Requests, CacheRow(q)
      PROVE  Fits'
  <2> DEFINE r == proc[q]
             j == target[q]
  <2>1. PICK d \in Data : /\ r \in Replicas /\ j \in Jobs /\ q \notin Jobs /\ d # None
                          /\ ~Own(r, j) /\ notifier[r][j] # q
                          /\ Put(mem, mem', r, j, d)
                          /\ Put(notifier, notifier', r, j, q)
    BY <1>6, CacheRowPuts
  <2>2. /\ pc[q] = "cacheRow" /\ pc'[q] = AfterCached(q)
        /\ UNCHANGED <<rows, target, sender, proc>>
        /\ \A p \in Requests : p # q => pc'[p] = pc[p] /\ local'[p] = local[p]
    BY <1>6 DEF CacheRow, Shape, TypeOK, dbVars
  <2>3. Disclosed(j)
    BY <1>0, <2>1, <2>2
  <2>4. \A s \in Replicas, k \in Jobs : Own(s, k)' <=> Own(s, k)
    BY <2>1 DEF Own, Put
  <2>5. ASSUME NEW k \in Jobs
        PROVE  JobFits(k)'
    <3>1. CASE k = j
      BY <2>1, <2>2, <2>3, <2>4, <3>1 DEF Fits, JobFits, Put, Disclosed, Requests
    <3>2. CASE k # j
      BY <2>1, <2>2, <2>4, <3>2 DEF Fits, JobFits, Put, Requests
    <3> QED
      BY <3>1, <3>2
  <2>6. ASSUME NEW p \in Requests
        PROVE  RequestFits(p)'
    <3>1. p \notin Jobs /\ pc'[p] # "idle" => Disclosed(target[p])'
      BY <1>0, <2>1, <2>2 DEF Disclosed, Requests
    <3>2. pc[p] # "idle" => (Own(proc[p], target[p])' <=> Own(proc[p], target[p]))
      BY <1>0, <2>2, <2>4
    <3>3. \A s \in Replicas, k \in Jobs : notifier'[s][k] \in {q, notifier[s][k]}
      BY <2>1 DEF Put
    <3>4. pc[p] = "idle" => sender[p] = None
      BY DEF Fits, RequestFits
    <3> QED
      BY <2>1, <2>2, <3>1, <3>2, <3>3, <3>4 DEF Fits, RequestFits, AfterCached
  <2> QED
    BY <2>5, <2>6 DEF Fits
<1>7. ASSUME NEW q \in Requests, Unknown(q) \/ StreamEnd(q) \/ Abandon(q) \/ Respond(q)
      PROVE  Fits'
  <2>1. \E a : End(q, a)
    BY <1>7 DEF Unknown, StreamEnd, Abandon, Respond
  <2>2. UNCHANGED <<mem, notifier, rows, target, proc>> /\ pc[q] # "idle"
    BY <1>7 DEF Executes, Unknown, StreamEnd, Abandon, Respond, processVars, dbVars
  <2> QED
    BY <2>1, <2>2, EndFits
<1>8. ASSUME NEW q \in Requests, MutateReport(q) \/ MutateCancel(q) \/ Refresh(q)
      PROVE  Fits'
  <2>1. PICK d : Extends(proc[q], target[q], d) /\ mem[proc[q]][target[q]] # None
                 /\ local' = [local EXCEPT ![q] = d]
    BY <1>8, ReportExtends, CancelExtends, RefreshExtends
  <2>2. \A r \in Replicas, j \in Jobs : mem'[r][j] = None <=> mem[r][j] = None
    BY <2>1 DEF Extends, Put
  <2>3. UNCHANGED <<notifier, target, proc, rows>>
    BY <1>8 DEF MutateReport, MutateCancel, Refresh, dbVars
  <2>4. pc[q] \in {"mutate", "refresh"} /\ q \notin Jobs
        /\ \E l \in {"updateRow", "refresh", "respond", "publish"} : pc' = [pc EXCEPT ![q] = l]
    BY <1>8, CachedHas DEF MutateReport, MutateCancel, Refresh, Cached
  <2>5. \A p \in Requests : p # q => local'[p] = local[p] /\ sender'[p] = sender[p]
    BY <1>8 DEF MutateReport, MutateCancel, Refresh, Shape, TypeOK
  <2>6. sender'[q] \in {sender[q], notifier[proc[q]][target[q]]}
    BY <1>8 DEF MutateReport, MutateCancel, Refresh, Shape, TypeOK
  <2> QED
    BY <2>2, <2>3, <2>4, <2>5, <2>6, MoveFits
<1>9. ASSUME NEW q \in Requests, UpdateRow(q)
      PROVE  Fits'
  <2>1. pc[q] = "updateRow" /\ pc' = [pc EXCEPT ![q] = "record"]
        /\ UNCHANGED <<mem, notifier, local, sender, target, proc>>
    BY <1>9 DEF Executes, UpdateRow, processVars
  <2>2. \A j \in Jobs : rows[j] = None => rows'[j] = rows[j]
    BY <1>9 DEF Executes, UpdateRow, Shape, TypeOK
  <2>3. \A j \in Jobs : pc[j] \in {"idle", "insert"} => rows'[j] = rows[j]
    BY <2>2 DEF Fits, JobFits
  <2> QED
    BY <2>1, <2>3, MoveFits
<1>10. ASSUME NEW q \in Requests,
              RecordEvent(q) \/ CancelIgnoresDbError(q) \/ Publish(q) \/ Subscribe(q)
       PROVE  Fits'
  <2>1. UNCHANGED <<mem, notifier, rows, local, target, proc>>
    BY <1>10 DEF Executes, RecordEvent, CancelIgnoresDbError, Publish, Subscribe, processVars, dbVars
  <2>2. pc[q] \in {"updateRow", "record", "publish", "subscribe"} /\ q \notin Jobs
        /\ \E l \in {"record", "refresh", "respond", "streaming"} : pc' = [pc EXCEPT ![q] = l]
    BY <1>10, CachedHas
       DEF Executes, RecordEvent, CancelIgnoresDbError, Publish, Subscribe, AfterRecord, Cached
  <2>3. \A p \in Requests : p # q => sender'[p] = sender[p]
    BY <1>10 DEF Executes, RecordEvent, CancelIgnoresDbError, Publish, Subscribe, Shape, TypeOK
  <2>4. sender'[q] \in {sender[q], notifier[proc[q]][target[q]]}
    BY <1>10 DEF Executes, RecordEvent, CancelIgnoresDbError, Publish, Subscribe, Shape, TypeOK
  <2> QED
    BY <2>1, <2>2, <2>3, <2>4, MoveFits
<1>11. ASSUME NEW q \in Requests, StreamSend(q)
       PROVE  Fits'
  <2>1. pc[q] = "streaming" /\ pc' = [pc EXCEPT ![q] = "streaming"]
    BY <1>11 DEF StreamSend, Shape, TypeOK
  <2>2. \A p \in Requests : p # q => local'[p] = local[p]
    BY <1>11 DEF StreamSend, Shape, TypeOK
  <2>3. UNCHANGED <<mem, notifier, rows, sender, target, proc>>
    BY <1>11 DEF StreamSend, processVars, dbVars
  <2> QED
    BY <2>1, <2>2, <2>3, MoveFits
<1>12. ASSUME NEW r \in Replicas, Restart(r)
       PROVE  Fits'
  <2>1. /\ \A j \in Jobs : mem'[r][j] = None /\ notifier'[r][j] = None
        /\ \A s \in Replicas, j \in Jobs : s # r => mem'[s][j] = mem[s][j] /\ notifier'[s][j] = notifier[s][j]
    BY <1>12 DEF Restart, Shape, TypeOK
  <2>2. UNCHANGED <<rows, target, proc>>
    BY <1>12 DEF Restart, dbVars
  <2>3. \A q \in Requests :
          IF proc[q] = r /\ pc[q] # "done"
          THEN pc'[q] = "done" /\ local'[q] = None /\ sender'[q] = None
          ELSE pc'[q] = pc[q] /\ local'[q] = local[q] /\ sender'[q] = sender[q]
    BY <1>12 DEF Restart
  <2>4. ASSUME NEW j \in Jobs
        PROVE  JobFits(j)'
    BY <2>1, <2>2, <2>3 DEF Fits, JobFits, Own, Requests
  <2>5. ASSUME NEW q \in Requests
        PROVE  RequestFits(q)'
    <3>1. q \notin Jobs /\ pc'[q] # "idle" => Disclosed(target[q])'
      <4>1. \A j \in Jobs : Disclosed(j) => Disclosed(j)'
        BY <2>3 DEF Disclosed, Requests
      <4>2. pc'[q] # "idle" => pc[q] # "idle"
        BY <2>3 DEF Shape, Bound
      <4>3. target'[q] = target[q]
        BY <2>2
      <4> QED
        BY <1>0, <4>1, <4>2, <4>3
    <3>2. proc[q] # r /\ pc[q] # "idle" => (Own(proc[q], target[q])' <=> Own(proc[q], target[q]))
      BY <1>0, <2>1, <2>2 DEF Own
    <3>3. proc[q] = r => pc'[q] = "done"
      BY <2>3
    <3>4. /\ pc'[q] \in {"idle", "done"} => local'[q] = None
          /\ pc'[q] \in {"idle", "insert", "done"} => sender'[q] = None
      BY <2>3 DEF Fits, RequestFits
    <3>5. \A s \in Replicas, j \in Jobs : notifier'[s][j] \in {None, notifier[s][j]}
      BY <2>1
    <3> QED
      BY <2>2, <2>3, <3>1, <3>2, <3>3, <3>4, <3>5 DEF Fits, RequestFits
  <2> QED
    BY <2>4, <2>5 DEF Fits
<1>13. ASSUME UNCHANGED <<processVars, handlerVars, dbVars>>
       PROVE  Fits'
  BY <1>13 DEF Fits, JobFits, RequestFits, processVars, handlerVars, dbVars, Disclosed, Own
<1>14. ASSUME NEW k \in Queues, Dequeue(k)
       PROVE  Fits'
  BY <1>13, <1>14 DEF Dequeue
<1> QED
  BY <1>1, <1>2, <1>3, <1>4, <1>5, <1>6, <1>7, <1>8, <1>9, <1>10, <1>11, <1>12, <1>13, <1>14,
     RefusedFails
     DEF RestartNext, Next, Arrival, Progress, Submission, Handler, Lookup, Change, Showing,
         Failure, Delivery, Requests, vars

(* No handler has begun.                                                   *)
LEMMA FitsInit == Init => Fits
BY ConstantsTyped DEF Init, Fits, JobFits, RequestFits, Own, Requests

(* Fits holds over any number of restarts.                                 *)
LEMMA FitsInvariant == Spec => []Fits
BY FitsInit, FitsStep, ShapeInvariant, PTL DEF Spec, RestartNext

-----------------------------------------------------------------------------
(* What a step does to the table.                                          *)

(* Every handler leaves the table as it is, or is one of the five that     *)
(* write a record under the lock.                                          *)
LEMMA LiveSteps ==
  ASSUME [Next]_vars
  PROVE  \/ UNCHANGED <<mem, notifier>>
         \/ \E q \in Jobs : InsertJob(q)
         \/ \E q \in Requests : CacheRow(q) \/ MutateReport(q) \/ MutateCancel(q) \/ Refresh(q)
<1>1. ASSUME NEW q \in Jobs, InsertRow(q) \/ InsertEvent(q) \/ SetKey(q) \/ Push(q)
      PROVE  UNCHANGED <<mem, notifier>>
  BY <1>1 DEF InsertRow, InsertEvent, SetKey, Push, processVars
<1>2. ASSUME NEW q \in Requests, CacheHit(q) \/ CacheMiss(q) \/ ReadRow(q) \/ Unknown(q)
      PROVE  UNCHANGED <<mem, notifier>>
  BY <1>2 DEF CacheHit, CacheMiss, ReadRow, Unknown, processVars
<1>3. ASSUME NEW q \in Requests, UpdateRow(q) \/ RecordEvent(q)
      PROVE  UNCHANGED <<mem, notifier>>
  BY <1>3 DEF UpdateRow, RecordEvent, processVars
<1>4. ASSUME NEW q \in Requests,
             Publish(q) \/ Subscribe(q) \/ StreamSend(q) \/ StreamEnd(q) \/ Respond(q)
      PROVE  UNCHANGED <<mem, notifier>>
  BY <1>4 DEF Publish, Subscribe, StreamSend, StreamEnd, Respond, processVars
<1>5. Arrival \/ Failure \/ Delivery \/ UNCHANGED vars => UNCHANGED <<mem, notifier>>
  BY DEF Arrival, BeginSubmit, ArriveReport, ArriveRequest, Arrive, Failure, Abandon,
         CancelIgnoresDbError, Delivery, Dequeue, vars, processVars
<1>6. ASSUME NEW q \in Requests, Refused(q)
      PROVE  UNCHANGED <<mem, notifier>>
  BY <1>5, <1>6, RefusedFails DEF Failure
<1> QED
  BY <1>1, <1>2, <1>3, <1>4, <1>5, <1>6
     DEF Next, Progress, Submission, Handler, Lookup, Change, Showing

(* Otherwise the process dies.                                             *)
LEMMA TableSteps ==
  ASSUME [RestartNext]_vars
  PROVE  \/ UNCHANGED <<mem, notifier>>
         \/ \E q \in Jobs : InsertJob(q)
         \/ \E q \in Requests : CacheRow(q) \/ MutateReport(q) \/ MutateCancel(q) \/ Refresh(q)
         \/ \E r \in Replicas : Restart(r)
BY LiveSteps DEF RestartNext

(* No report, cancellation or refresh moves a record back, and a look-up   *)
(* does so only where it puts one row over another.                        *)
LEMMA RecordMovesOnward ==
  ASSUME Shape, Fits, [RestartNext]_vars, NEW r \in Replicas, NEW j \in Jobs, mem[r][j] # None
  PROVE  Onward(mem[r][j], mem'[r][j]) \/ Forgotten(r) \/ PutAgain(r, j)
<1>1. ASSUME NEW s, NEW k, NEW d, Extends(s, k, d)
      PROVE  Onward(mem[r][j], mem'[r][j])
  <2>1. CASE s = r /\ k = j
    BY <1>1, <2>1 DEF Extends, Put
  <2>2. CASE ~(s = r /\ k = j)
    BY <1>1, <2>2 DEF Extends, Put, Onward
  <2> QED
    BY <2>1, <2>2
<1>2. ASSUME NEW q \in Jobs, InsertJob(q)
      PROVE  Onward(mem[r][j], mem'[r][j])
  BY <1>1, <1>2, InsertExtends
<1>3. ASSUME NEW q \in Requests, MutateReport(q) \/ MutateCancel(q) \/ Refresh(q)
      PROVE  Onward(mem[r][j], mem'[r][j])
  BY <1>1, <1>3, ReportExtends, CancelExtends, RefreshExtends
<1>4. ASSUME NEW q \in Requests, CacheRow(q)
      PROVE  Onward(mem[r][j], mem'[r][j]) \/ PutAgain(r, j)
  <2>1. PICK d \in Data :
          /\ proc[q] \in Replicas /\ target[q] \in Jobs
          /\ ~Own(proc[q], target[q]) /\ notifier[proc[q]][target[q]] # q
          /\ Put(mem, mem', proc[q], target[q], d)
          /\ Put(notifier, notifier', proc[q], target[q], q)
    BY <1>4, CacheRowPuts
  <2>2. CASE proc[q] = r /\ target[q] = j
    BY <2>1, <2>2 DEF PutAgain, Put
  <2>3. CASE ~(proc[q] = r /\ target[q] = j)
    BY <2>1, <2>3 DEF Put, Onward
  <2> QED
    BY <2>2, <2>3
<1>5. ASSUME NEW s \in Replicas, Restart(s)
      PROVE  Onward(mem[r][j], mem'[r][j]) \/ Forgotten(r)
  <2>1. CASE s = r
    BY <1>5, <2>1 DEF Restart, Forgotten, Shape, TypeOK
  <2>2. CASE s # r
    BY <1>5, <2>2 DEF Restart, Onward, Shape, TypeOK
  <2> QED
    BY <2>1, <2>2
<1>6. CASE UNCHANGED mem
  BY <1>6 DEF Onward
<1> QED
  BY <1>2, <1>3, <1>4, <1>5, <1>6, TableSteps

(* TableMovesOnward for any number of replicas and requests: no report,    *)
(* refresh or cancellation, whatever it raced with, puts a job back into   *)
(* the queue or drops a line of its log, and no look-up does so to a       *)
(* record that its process itself made.                                    *)
THEOREM OnwardCorrect == Spec => TableMovesOnward
<1>1. ASSUME Shape, Fits, [RestartNext]_vars
      PROVE  [\A r \in Replicas, j \in Jobs :
                mem[r][j] # None =>
                  Onward(mem[r][j], mem'[r][j]) \/ Forgotten(r) \/ PutAgain(r, j)]_vars
  BY <1>1, RecordMovesOnward
<1> QED
  BY <1>1, FitsInvariant, ShapeInvariant, PTL DEF Spec, RestartNext, TableMovesOnward

(* The record of a job is the process's own from the step that makes it to *)
(* the process's end, and moves onward meanwhile.                          *)
LEMMA OwnMovesOnward ==
  ASSUME Shape, Fits, [RestartNext]_vars, NEW r \in Replicas, NEW j \in Jobs, Own(r, j)'
  PROVE  \/ Own(r, j) /\ mem[r][j] # None /\ Onward(mem[r][j], mem'[r][j])
         \/ InsertJob(j) /\ r = proc[j]
<1>1. CASE Own(r, j)
  <2>1. mem[r][j] # None
    BY <1>1 DEF Fits, JobFits
  <2>2. mem'[r][j] # None
    BY FitsStep DEF Fits, JobFits
  <2>3. ~Forgotten(r) /\ ~PutAgain(r, j)
    BY <1>1, <2>2 DEF Forgotten, PutAgain
  <2> QED
    BY <1>1, <2>1, <2>3, RecordMovesOnward
<1>2. CASE ~Own(r, j)
  <2>1. ASSUME NEW q \in Jobs, InsertJob(q)
        PROVE  InsertJob(j) /\ r = proc[j]
    <3>1. Put(notifier, notifier', proc[q], q, q)
      BY <2>1, InsertExtends
    <3> QED
      BY <1>2, <2>1, <3>1 DEF Own, Put
  <2>2. ASSUME NEW q \in Requests, CacheRow(q)
        PROVE  FALSE
    <3>1. q \notin Jobs /\ Put(notifier, notifier', proc[q], target[q], q)
      BY <2>2, CacheRowPuts
    <3> QED
      BY <1>2, <3>1 DEF Own, Put
  <2>3. ASSUME NEW q \in Requests, MutateReport(q) \/ MutateCancel(q) \/ Refresh(q)
        PROVE  UNCHANGED notifier
    BY <2>3 DEF MutateReport, MutateCancel, Refresh
  <2>4. ASSUME NEW s \in Replicas, Restart(s)
        PROVE  notifier'[r][j] \in {None, notifier[r][j]}
    BY <2>4 DEF Restart, Shape, TypeOK
  <2>5. j # None
    BY ConstantsTyped
  <2> QED
    BY <1>2, <2>1, <2>2, <2>3, <2>4, <2>5, TableSteps DEF Own
<1> QED
  BY <1>1, <1>2

-----------------------------------------------------------------------------
(* The copies of a record.                                                 *)

(* What the step of a handler leaves in its own copy of a job that its     *)
(* process took: nothing, what was there, the record, or the channel.      *)
LEMMA LocalSteps ==
  ASSUME Shape, Fits, [RestartNext]_vars, NEW q \in Requests, NEW s \in Replicas, NEW i \in Jobs,
         proc'[q] = s, target'[q] = i, Own(s, i)'
  PROVE  \/ local'[q] = None
         \/ local'[q] = mem'[s][i]
         \/ /\ proc[q] = s /\ target[q] = i
            /\ local'[q] = local[q] \/ (local'[q] = watch[i] /\ Own(s, i))
<1> USE ConstantsTyped
<1> DEFINE Good == \/ local'[q] = None
                   \/ local'[q] = mem'[s][i]
                   \/ /\ proc[q] = s /\ target[q] = i
                      /\ local'[q] = local[q] \/ (local'[q] = watch[i] /\ Own(s, i))
<1>1. ASSUME NEW p \in Jobs, NEW r \in Replicas, NEW k \in Queues, BeginSubmit(p, r, k)
      PROVE  Good
  <2>1. CASE p = q
    <3>1. i = q /\ pc[q] = "idle" /\ UNCHANGED notifier
      BY <1>1, <2>1 DEF BeginSubmit, processVars, Shape, Bound
    <3>2. ~Own(s, i)'
      BY <2>1, <3>1 DEF Fits, JobFits, Own
    <3> QED
      BY <3>2
  <2>2. CASE p # q
    BY <1>1, <2>2 DEF BeginSubmit, Shape, TypeOK
  <2> QED
    BY <2>1, <2>2
<1>2. ASSUME NEW p \in Jobs, InsertJob(p)
      PROVE  Good
  <2>1. PICK d : /\ Extends(proc[p], p, d) /\ target[p] = p
                 /\ local' = [local EXCEPT ![p] = d]
    BY <1>2, InsertExtends
  <2>2. UNCHANGED <<proc, target>>
    BY <1>2 DEF InsertJob
  <2>3. mem'[proc[p]][p] = d
    BY <2>1 DEF Extends, Put
  <2>4. local'[q] = IF q = p THEN d ELSE local[q]
    BY <2>1 DEF Shape, TypeOK
  <2> QED
    BY <2>1, <2>2, <2>3, <2>4
<1>3. ASSUME NEW p \in Requests, MutateReport(p) \/ MutateCancel(p) \/ Refresh(p)
      PROVE  Good
  <2>1. PICK d : Extends(proc[p], target[p], d) /\ local' = [local EXCEPT ![p] = d]
    BY <1>3, ReportExtends, CancelExtends, RefreshExtends
  <2>2. UNCHANGED <<proc, target>>
    BY <1>3 DEF MutateReport, MutateCancel, Refresh
  <2>3. mem'[proc[p]][target[p]] = d
    BY <2>1 DEF Extends, Put
  <2>4. local'[q] = IF q = p THEN d ELSE local[q]
    BY <2>1 DEF Shape, TypeOK
  <2> QED
    BY <2>1, <2>2, <2>3, <2>4
<1>4. ASSUME NEW p \in Requests, ReadRow(p)
      PROVE  Good
  <2>1. pc[p] = "readRow" /\ UNCHANGED <<proc, target, notifier>>
    BY <1>4 DEF Executes, ReadRow, processVars
  <2>2. p # q
    BY <2>1 DEF Fits, RequestFits, Own
  <2> QED
    BY <1>4, <2>1, <2>2 DEF ReadRow, Shape, TypeOK
<1>5. ASSUME NEW p \in Requests, StreamSend(p)
      PROVE  Good
  <2>1. pc[p] = "streaming" /\ UNCHANGED <<proc, target, notifier>> /\ sender[p] # None
        /\ local' = [local EXCEPT ![p] = watch[sender[p]]]
    BY <1>5 DEF StreamSend, processVars, Shape, Bound
  <2>2. p = q => sender[p] = target[p] /\ Own(proc[p], target[p])
    BY <2>1 DEF Fits, RequestFits, Own
  <2>3. local'[q] = IF q = p THEN watch[sender[p]] ELSE local[q]
    BY <2>1 DEF Shape, TypeOK
  <2> QED
    BY <2>1, <2>2, <2>3
<1>6. ASSUME NEW p \in Requests, CacheRow(p) \/ Unknown(p) \/ StreamEnd(p) \/ Abandon(p) \/ Respond(p)
      PROVE  Good
  <2>1. UNCHANGED <<proc, target>> /\ local' = [local EXCEPT ![p] = None]
    BY <1>6 DEF CacheRow, Unknown, StreamEnd, Abandon, Respond, End
  <2>2. local'[q] \in {None, local[q]}
    BY <2>1 DEF Shape, TypeOK
  <2> QED
    BY <2>1, <2>2
<1>7. ASSUME NEW p \in Requests, NEW r \in Replicas, NEW j \in Jobs, Arrive(p, r, j)
      PROVE  Good
  <2>1. CASE p = q
    BY <1>7, <2>1 DEF Arrive, Fits, RequestFits
  <2>2. CASE p # q
    BY <1>7, <2>2 DEF Arrive, Shape, TypeOK
  <2> QED
    BY <2>1, <2>2
<1>8. ASSUME NEW r \in Replicas, Restart(r)
      PROVE  Good
  BY <1>8 DEF Restart
<1>9. CASE UNCHANGED <<local, proc, target>>
  BY <1>9
<1>10. ASSUME NEW p \in Jobs, InsertRow(p) \/ InsertEvent(p) \/ SetKey(p) \/ Push(p)
      PROVE  Good
  BY <1>9, <1>10 DEF InsertRow, InsertEvent, SetKey, Push
<1>11. ASSUME NEW p \in Requests,
              CacheHit(p) \/ CacheMiss(p) \/ UpdateRow(p) \/ RecordEvent(p)
                \/ CancelIgnoresDbError(p) \/ Publish(p) \/ Subscribe(p)
      PROVE  Good
  BY <1>9, <1>11
     DEF CacheHit, CacheMiss, UpdateRow, RecordEvent, CancelIgnoresDbError, Publish, Subscribe
<1>12. ASSUME NEW k \in Queues, Dequeue(k)
      PROVE  Good
  BY <1>9, <1>12 DEF Dequeue, handlerVars
<1>13. ASSUME UNCHANGED vars
      PROVE  Good
  BY <1>9, <1>13 DEF vars, handlerVars
<1> HIDE DEF Good
<1>14. Good
  BY <1>1, <1>2, <1>3, <1>4, <1>5, <1>6, <1>7, <1>8, <1>10, <1>11, <1>12, <1>13, RefusedFails
     DEF RestartNext, Next, Arrival, Progress, Submission, Handler, Lookup, Change, Showing,
         Failure, Delivery, ArriveReport, ArriveRequest, Requests
<1> QED
  BY <1>14 DEF Good

(* A channel of create_job only ever receives the copy of a handler that   *)
(* is about this job, at the process that took it.                         *)
LEMMA WatchSteps ==
  ASSUME Shape, Fits, [RestartNext]_vars, NEW j \in Jobs
  PROVE  \/ watch'[j] \in {None, watch[j]}
         \/ \E q \in Requests : /\ proc'[q] \in Replicas /\ target'[q] = j
                                /\ Own(proc[q], j)' /\ watch'[j] = local'[q]
<1> DEFINE Good == \/ watch'[j] \in {None, watch[j]}
                   \/ \E q \in Requests : /\ proc'[q] \in Replicas /\ target'[q] = j
                                          /\ Own(proc[q], j)' /\ watch'[j] = local'[q]
<1>0. j \in Requests
  BY DEF Requests
<1>1. ASSUME NEW q \in Jobs, InsertJob(q)
      PROVE  Good
  <2>1. PICK d : /\ Extends(proc[q], q, d) /\ target[q] = q
                 /\ Put(notifier, notifier', proc[q], q, q)
                 /\ watch' = [watch EXCEPT ![q] = d]
                 /\ local' = [local EXCEPT ![q] = d]
    BY <1>1, InsertExtends
  <2>2. UNCHANGED <<proc, target>>
    BY <1>1 DEF InsertJob
  <2>3. CASE q = j
    BY <1>0, <2>1, <2>2, <2>3 DEF Extends, Put, Own, Shape, TypeOK
  <2>4. CASE q # j
    BY <1>0, <2>1, <2>4 DEF Shape, TypeOK
  <2> QED
    BY <2>3, <2>4
<1>2. ASSUME NEW q \in Requests, CacheRow(q)
      PROVE  Good
  <2>1. q \notin Jobs /\ \E d : watch' = [watch EXCEPT ![q] = d]
    BY <1>2, CacheRowPuts
  <2> QED
    BY <1>0, <2>1 DEF Shape, TypeOK
<1>3. ASSUME NEW q \in Requests, MutateReport(q) \/ MutateCancel(q)
      PROVE  Good
  <2>1. PICK d : /\ Extends(proc[q], target[q], d)
                 /\ watch' = [watch EXCEPT ![notifier[proc[q]][target[q]]] = d]
                 /\ local' = [local EXCEPT ![q] = d]
    BY <1>3, ReportExtends, CancelExtends
  <2>2. UNCHANGED <<proc, target, notifier>> /\ proc[q] \in Replicas /\ target[q] \in Jobs
    BY <1>3, <2>1 DEF MutateReport, MutateCancel, Extends
  <2>3. CASE notifier[proc[q]][target[q]] = j
    <3>1. target[q] = j
      BY <2>2, <2>3 DEF Fits, JobFits
    <3>2. watch'[j] = d /\ local'[q] = d
      BY <1>0, <2>1, <2>3 DEF Shape, TypeOK
    <3> QED
      BY <2>2, <2>3, <3>1, <3>2 DEF Own
  <2>4. CASE notifier[proc[q]][target[q]] # j
    BY <1>0, <2>1, <2>4 DEF Shape, TypeOK
  <2> QED
    BY <2>3, <2>4
<1>4. ASSUME NEW q \in Requests, Publish(q)
      PROVE  Good
  <2>1. watch' = [watch EXCEPT ![sender[q]] = local[q]]
        /\ UNCHANGED <<proc, target, notifier, local>> /\ proc[q] \in Replicas
    BY <1>4, CachedHas DEF Publish, Send, Cached
  <2>2. CASE sender[q] = j
    <3>1. target[q] = j /\ Own(proc[q], j)
      BY <2>2 DEF Fits, RequestFits
    <3>2. watch'[j] = local[q]
      BY <1>0, <2>1, <2>2 DEF Shape, TypeOK
    <3> QED
      BY <2>1, <3>1, <3>2 DEF Own
  <2>3. CASE sender[q] # j
    BY <1>0, <2>1, <2>3 DEF Shape, TypeOK
  <2> QED
    BY <2>2, <2>3
<1>5. ASSUME NEW r \in Replicas, Restart(r)
      PROVE  Good
  BY <1>0, <1>5 DEF Restart
<1>6. CASE UNCHANGED watch
  BY <1>6
<1>7. ASSUME NEW q \in Jobs, InsertRow(q) \/ InsertEvent(q) \/ SetKey(q) \/ Push(q)
      PROVE  Good
  BY <1>6, <1>7 DEF InsertRow, InsertEvent, SetKey, Push, processVars
<1>8. ASSUME NEW q \in Requests,
             CacheHit(q) \/ CacheMiss(q) \/ ReadRow(q) \/ Unknown(q) \/ UpdateRow(q) \/ RecordEvent(q)
      PROVE  Good
  BY <1>6, <1>8 DEF CacheHit, CacheMiss, ReadRow, Unknown, UpdateRow, RecordEvent, processVars
<1>9. ASSUME NEW q \in Requests,
             Refresh(q) \/ Subscribe(q) \/ StreamSend(q) \/ StreamEnd(q) \/ Respond(q)
      PROVE  Good
  BY <1>6, <1>9 DEF Refresh, Subscribe, StreamSend, StreamEnd, Respond, processVars
<1>10. ASSUME Arrival \/ Failure \/ Delivery \/ UNCHANGED vars
       PROVE  Good
  BY <1>6, <1>10 DEF Arrival, BeginSubmit, ArriveReport, ArriveRequest, Arrive, Failure, Abandon,
                     CancelIgnoresDbError, Delivery, Dequeue, vars, processVars
<1>11. ASSUME NEW q \in Requests, Refused(q)
       PROVE  Good
  BY <1>10, <1>11, RefusedFails DEF Failure
<1> HIDE DEF Good
<1>12. Good
  BY <1>1, <1>2, <1>3, <1>4, <1>5, <1>6, <1>7, <1>8, <1>9, <1>10, <1>11
     DEF RestartNext, Next, Progress, Submission, Handler, Lookup, Change, Showing
<1> QED
  BY <1>12 DEF Good

(* A row only ever receives the copy of a handler that is about its job.   *)
LEMMA RowSteps ==
  ASSUME Shape, [RestartNext]_vars, NEW j \in Jobs
  PROVE  \/ rows'[j] = rows[j] \/ rows'[j] = None
         \/ \E q \in Requests : /\ proc'[q] \in Replicas /\ target'[q] = j
                                /\ rows'[j] = local'[q]
<1> DEFINE Good == \/ rows'[j] = rows[j] \/ rows'[j] = None
                   \/ \E q \in Requests : /\ proc'[q] \in Replicas /\ target'[q] = j
                                          /\ rows'[j] = local'[q]
<1>1. ASSUME NEW q \in Jobs, InsertRow(q)
      PROVE  Good
  <2>1. q \in Requests /\ target[q] = q /\ proc[q] \in Replicas
        /\ UNCHANGED <<proc, target, local>>
        /\ rows' = [rows EXCEPT ![q] = local[q]]
    BY <1>1 DEF Executes, InsertRow, Shape, Bound, Requests
  <2> QED
    BY <2>1 DEF Shape, TypeOK
<1>2. ASSUME NEW q \in Requests, UpdateRow(q)
      PROVE  Good
  <2>1. target[q] \in Jobs /\ proc[q] \in Replicas /\ UNCHANGED <<proc, target, local>>
        /\ rows' = [rows EXCEPT ![target[q]] = IF @ = None THEN None ELSE local[q]]
    BY <1>2, CachedHas DEF Executes, UpdateRow, Cached
  <2> QED
    BY <2>1 DEF Shape, TypeOK
<1>3. CASE UNCHANGED rows
  BY <1>3
<1>4. ASSUME NEW q \in Jobs, InsertJob(q) \/ InsertEvent(q) \/ SetKey(q) \/ Push(q)
      PROVE  Good
  BY <1>3, <1>4 DEF InsertJob, InsertEvent, SetKey, Push, dbVars
<1>5. ASSUME NEW q \in Requests, Lookup(q)
      PROVE  Good
  BY <1>3, <1>5 DEF Lookup, CacheHit, CacheMiss, ReadRow, CacheRow, Unknown, dbVars
<1>6. ASSUME NEW q \in Requests, MutateReport(q) \/ MutateCancel(q) \/ RecordEvent(q)
      PROVE  Good
  BY <1>3, <1>6 DEF MutateReport, MutateCancel, RecordEvent, dbVars
<1>7. ASSUME NEW q \in Requests, Showing(q) \/ Respond(q)
      PROVE  Good
  BY <1>3, <1>7 DEF Showing, Refresh, Publish, Respond, Subscribe, StreamSend, StreamEnd, dbVars
<1>8. ASSUME Arrival \/ Failure \/ Delivery \/ (\E r \in Replicas : Restart(r)) \/ UNCHANGED vars
      PROVE  Good
  BY <1>3, <1>8 DEF Arrival, BeginSubmit, ArriveReport, ArriveRequest, Arrive, Failure, Abandon,
                    CancelIgnoresDbError, Delivery, Dequeue, Restart, vars, dbVars
<1>9. ASSUME NEW q \in Requests, Refused(q)
      PROVE  Good
  BY <1>8, <1>9, RefusedFails DEF Failure
<1> HIDE DEF Good
<1>10. Good
  BY <1>1, <1>2, <1>3, <1>4, <1>5, <1>6, <1>7, <1>8, <1>9
     DEF RestartNext, Next, Progress, Submission, Handler, Change
<1> QED
  BY <1>10 DEF Good

(* TableIsAhead is inductive over Shape and Fits.                          *)
LEMMA AheadStep ==
  ASSUME Shape, Fits, TableIsAhead, [RestartNext]_vars
  PROVE  TableIsAhead'
<1> USE ConstantsTyped
<1>0. Fits' /\ Shape'
  BY FitsStep, ShapeStep
<1>1. ASSUME NEW q \in Requests, NEW r \in Replicas, NEW j \in Jobs,
             proc'[q] = r, target'[q] = j, Own(r, j)'
      PROVE  Lines(local'[q]) \subseteq Lines(mem'[r][j])
  <2>1. CASE Own(r, j) /\ mem[r][j] # None /\ Onward(mem[r][j], mem'[r][j])
    <3>1. Lines(mem[r][j]) \subseteq Lines(mem'[r][j])
      BY <2>1 DEF Onward, Lines
    <3>2. Lines(watch[j]) \subseteq Lines(mem[r][j])
      BY <1>1, <2>1 DEF TableIsAhead
    <3>3. proc[q] = r /\ target[q] = j => Lines(local[q]) \subseteq Lines(mem[r][j])
      BY <1>1, <2>1 DEF TableIsAhead
    <3>4. Lines(None) = {}
      BY DEF Lines
    <3> QED
      BY <1>1, <3>1, <3>2, <3>3, <3>4, LocalSteps
  <2>2. CASE InsertJob(j) /\ r = proc[j]
    <3>1. pc[j] = "insert" /\ ~Disclosed(j) /\ UNCHANGED <<proc, target>>
      BY <2>2 DEF InsertJob, Disclosed
    <3>2. PICK d : Extends(r, j, d) /\ local' = [local EXCEPT ![j] = d]
      BY <1>1, <2>2, InsertExtends
    <3>3. CASE q = j
      BY <3>2, <3>3 DEF Extends, Put, Shape, TypeOK
    <3>4. CASE q # j
      <4>1. q \in Jobs => target[q] = q
        BY DEF Shape, Bound
      <4>2. pc[q] = "idle"
        BY <1>1, <3>1, <3>4, <4>1 DEF Fits, RequestFits
      <4>3. local'[q] = None
        BY <3>2, <3>4, <4>2 DEF Fits, RequestFits, Shape, TypeOK
      <4> QED
        BY <4>3 DEF Lines
    <3> QED
      BY <3>3, <3>4
  <2> QED
    BY <1>1, <2>1, <2>2, OwnMovesOnward
<1>2. ASSUME NEW r \in Replicas, NEW j \in Jobs, Own(r, j)'
      PROVE  /\ Lines(watch'[j]) \subseteq Lines(mem'[r][j])
             /\ Replicas = {r} => Lines(rows'[j]) \subseteq Lines(mem'[r][j])
  <2>1. proc'[j] = r
    BY <1>0, <1>2 DEF Fits, JobFits
  <2>2. Lines(None) = {}
    BY DEF Lines
  <2>3. CASE Own(r, j) /\ mem[r][j] # None /\ Onward(mem[r][j], mem'[r][j])
    <3>1. Lines(mem[r][j]) \subseteq Lines(mem'[r][j])
      BY <2>3 DEF Onward, Lines
    <3>2. /\ Lines(watch[j]) \subseteq Lines(mem[r][j])
          /\ Replicas = {r} => Lines(rows[j]) \subseteq Lines(mem[r][j])
      BY <2>3 DEF TableIsAhead
    <3>3. ASSUME NEW q \in Requests, proc'[q] \in Replicas, target'[q] = j, Own(proc[q], j)'
          PROVE  Lines(local'[q]) \subseteq Lines(mem'[r][j])
      <4>1. proc'[q] = r
        BY <1>0, <2>1, <3>3 DEF Fits, JobFits, Own
      <4> QED
        BY <1>1, <1>2, <3>3, <4>1
    <3>4. Lines(watch'[j]) \subseteq Lines(mem'[r][j])
      BY <2>2, <3>1, <3>2, <3>3, WatchSteps
    <3>5. ASSUME Replicas = {r}
          PROVE  Lines(rows'[j]) \subseteq Lines(mem'[r][j])
      <4>1. ASSUME NEW q \in Requests, proc'[q] \in Replicas, target'[q] = j
            PROVE  Lines(local'[q]) \subseteq Lines(mem'[r][j])
        <5>1. proc'[q] = r
          BY <3>5, <4>1
        <5> QED
          BY <1>1, <1>2, <4>1, <5>1
      <4>2. Lines(rows[j]) \subseteq Lines(mem'[r][j])
        BY <3>1, <3>2, <3>5
      <4> QED
        BY <2>2, <4>1, <4>2, RowSteps
    <3> QED
      BY <3>4, <3>5
  <2>4. CASE InsertJob(j) /\ r = proc[j]
    <3>1. PICK d : /\ Extends(r, j, d) /\ watch' = [watch EXCEPT ![j] = d]
      BY <2>4, InsertExtends
    <3>2. watch'[j] = mem'[r][j]
      BY <3>1 DEF Extends, Put, Shape, TypeOK, Requests
    <3>3. rows'[j] = None
      BY <2>4 DEF InsertJob, dbVars, Fits, JobFits
    <3> QED
      BY <2>2, <3>2, <3>3
  <2> QED
    BY <1>2, <2>3, <2>4, OwnMovesOnward
<1> QED
  BY <1>1, <1>2 DEF TableIsAhead

(* A row, a snapshot on its way or the last status a stream has sent never *)
(* has a line that the table of the process that took the job lacks.       *)
THEOREM TableAheadCorrect == Spec => []TableIsAhead
<1>1. Init => TableIsAhead
  BY ConstantsTyped DEF Init, TableIsAhead, Own
<1> QED
  BY <1>1, AheadStep, FitsInvariant, ShapeInvariant, PTL DEF Spec, RestartNext

-----------------------------------------------------------------------------
(* What callers were told.                                                 *)

(* A report past its mutation is in the table; a cancellation that was     *)
(* granted has taken its job out of the queue.                             *)
ToldReport(q) ==
  /\ answer[q] = "ACCEPTED" => pc[q] = "done"
  /\ /\ pc[q] \in {"updateRow", "record", "refresh", "publish", "respond"}
          \/ answer[q] = "ACCEPTED"
     /\ Own(proc[q], target[q])
     => q \in Lines(mem[proc[q]][target[q]])

ToldCancel(q) ==
  answer[q] = "CANCELLATION_REQUESTED" =>
    /\ pc[q] # "idle"
    /\ Own(proc[q], target[q]) => mem[proc[q]][target[q]].status # "IN_QUEUE"

Told == (\A q \in Reports : ToldReport(q)) /\ (\A q \in Cancels : ToldCancel(q)) /\ OneCancellation

(* What the table told a handler that does not move stays true.            *)
LEMMA ToldStays ==
  ASSUME Shape, Fits, Told, [RestartNext]_vars, NEW q \in Requests, q \notin Jobs, pc[q] # "idle",
         proc'[q] = proc[q], target'[q] = target[q], Own(proc[q], target[q])'
  PROVE  LET d == mem[proc[q]][target[q]]
             e == mem'[proc[q]][target[q]]
         IN /\ Own(proc[q], target[q]) /\ d # None /\ Onward(d, e)
            /\ Lines(d) \subseteq Lines(e)
<1>1. proc[q] \in Replicas /\ target[q] \in Jobs /\ Disclosed(target[q])
  BY DEF Shape, Bound, Fits, RequestFits
<1>2. ~InsertJob(target[q])
  BY <1>1 DEF InsertJob, Disclosed
<1> QED
  BY <1>1, <1>2, OwnMovesOnward DEF Onward, Lines

(* Told after the step of one handler, in terms of that handler.           *)
LEMMA ToldKeeps ==
  ASSUME Shape, Fits, Told, [RestartNext]_vars, NEW q \in Requests,
         \A p \in Requests : p # q => /\ pc'[p] = pc[p] /\ answer'[p] = answer[p]
                                      /\ target'[p] = target[p] /\ proc'[p] = proc[p],
         q \in Reports => ToldReport(q)',
         q \in Cancels => ToldCancel(q)',
         q \in Cancels /\ answer'[q] = "CANCELLATION_REQUESTED" =>
           /\ proc'[q] = proc[q] /\ target'[q] = target[q]
           /\ \/ answer[q] = answer'[q]
              \/ mem[proc[q]][target[q]].status = "IN_QUEUE" /\ pc[q] # "idle"
  PROVE  Told'
<1> USE EndpointsDisjoint
<1>1. Reports \subseteq Requests /\ Cancels \subseteq Requests
      /\ Reports \cap Jobs = {} /\ Cancels \cap Jobs = {}
  BY DEF Requests
<1>2. \A p \in Reports : ToldReport(p)'
  <2> SUFFICES ASSUME NEW p \in Reports, p # q
               PROVE  ToldReport(p)'
    OBVIOUS
  <2>1. ToldReport(p)
    BY DEF Told
  <2>2. pc'[p] = pc[p] /\ answer'[p] = answer[p] /\ target'[p] = target[p] /\ proc'[p] = proc[p]
    BY <1>1
  <2>3. p \notin Jobs /\ p \in Requests
    BY <1>1
  <2> QED
    BY <2>1, <2>2, <2>3, ToldStays DEF ToldReport
<1>3. \A p \in Cancels : ToldCancel(p)'
  <2> SUFFICES ASSUME NEW p \in Cancels, p # q
               PROVE  ToldCancel(p)'
    OBVIOUS
  <2>1. ToldCancel(p)
    BY DEF Told
  <2>2. pc'[p] = pc[p] /\ answer'[p] = answer[p] /\ target'[p] = target[p] /\ proc'[p] = proc[p]
    BY <1>1
  <2>3. p \notin Jobs /\ p \in Requests
    BY <1>1
  <2> QED
    BY <2>1, <2>2, <2>3, ToldStays DEF ToldCancel, Onward
<1>4. OneCancellation'
  <2> SUFFICES ASSUME NEW p \in Cancels, NEW c \in Cancels,
                      target'[p] = target'[c], proc'[p] = proc'[c],
                      target'[p] # None, Own(proc[p], target[p])',
                      answer'[p] = "CANCELLATION_REQUESTED", answer'[c] = "CANCELLATION_REQUESTED"
               PROVE  p = c
    BY DEF OneCancellation
  <2>1. \A x \in {p, c} :
          /\ proc'[x] = proc[x] /\ target'[x] = target[x]
          /\ \/ answer[x] = "CANCELLATION_REQUESTED" /\ pc[x] # "idle"
             \/ x = q /\ mem[proc[x]][target[x]].status = "IN_QUEUE" /\ pc[x] # "idle"
    BY <1>1 DEF Told, ToldCancel
  <2>2. pc[p] # "idle" /\ p \notin Jobs /\ p \in Requests
    BY <1>1, <2>1
  <2>3. Own(proc[p], target[p])
    BY <2>1, <2>2, ToldStays
  <2>4. \A x \in {p, c} : answer[x] = "CANCELLATION_REQUESTED" =>
          mem[proc[p]][target[p]].status # "IN_QUEUE"
    BY <2>1, <2>3 DEF Told, ToldCancel
  <2>5. CASE answer[p] = "CANCELLATION_REQUESTED" /\ answer[c] = "CANCELLATION_REQUESTED"
    BY <2>1, <2>3, <2>5 DEF Told, OneCancellation
  <2>6. CASE ~(answer[p] = "CANCELLATION_REQUESTED" /\ answer[c] = "CANCELLATION_REQUESTED")
    BY <2>1, <2>4, <2>6
  <2> QED
    BY <2>5, <2>6
<1> QED
  BY <1>2, <1>3, <1>4 DEF Told

(* Told is inductive over Shape and Fits.                                  *)
LEMMA ToldStep ==
  ASSUME Shape, Fits, Told, [RestartNext]_vars
  PROVE  Told'
<1> USE EndpointsDisjoint DEF Goto
<1>1. Reports \subseteq Requests /\ Cancels \subseteq Requests /\ Jobs \subseteq Requests
  BY DEF Requests
<1>2. ASSUME NEW q \in Jobs, (\E r \in Replicas, k \in Queues : BeginSubmit(q, r, k)) \/ Submission(q)
      PROVE  Told'
  <2>1. q \notin Reports /\ q \notin Cancels
    OBVIOUS
  <2>2. \A p \in Requests : p # q => /\ pc'[p] = pc[p] /\ answer'[p] = answer[p]
                                     /\ target'[p] = target[p] /\ proc'[p] = proc[p]
    BY <1>2 DEF Executes, BeginSubmit, Submission, InsertJob, InsertRow, InsertEvent, SetKey,
                Push, Shape, TypeOK
  <2> QED
    BY <1>1, <2>1, <2>2, ToldKeeps
<1>3. ASSUME NEW q \in Requests, NEW r \in Replicas, NEW j \in Jobs, Arrive(q, r, j)
      PROVE  Told'
  <2>1. pc[q] = "idle" /\ pc'[q] = "check" /\ answer' = answer
    BY <1>3 DEF Arrive, Shape, TypeOK
  <2>2. \A p \in Requests : p # q => /\ pc'[p] = pc[p] /\ answer'[p] = answer[p]
                                     /\ target'[p] = target[p] /\ proc'[p] = proc[p]
    BY <1>3 DEF Arrive, Shape, TypeOK
  <2>3. q \in Reports => ToldReport(q)'
    BY <2>1 DEF Told, ToldReport
  <2>4. q \in Cancels => answer'[q] # "CANCELLATION_REQUESTED"
    BY <2>1 DEF Told, ToldCancel
  <2> QED
    BY <2>1, <2>2, <2>3, <2>4, ToldKeeps DEF ToldCancel
<1>4. ASSUME NEW q \in Requests, q \notin Jobs, pc[q] # "idle",
             UNCHANGED <<answer, target, proc>>, pc'[q] # "idle",
             \A p \in Requests : p # q => pc'[p] = pc[p],
             q \in Reports => ToldReport(q)'
      PROVE  Told'
  <2>1. q \in Cancels => ToldCancel(q)'
    BY <1>4, ToldStays DEF Told, ToldCancel, Onward
  <2> QED
    BY <1>4, <2>1, ToldKeeps
<1>5. ASSUME NEW q \in Requests, CacheHit(q) \/ CacheMiss(q) \/ ReadRow(q) \/ CacheRow(q)
      PROVE  Told'
  <2>1. pc[q] \in {"check", "readRow", "cacheRow"} /\ UNCHANGED <<answer, target, proc>>
        /\ \E l \in {"readRow", "cacheRow", "mutate", AfterCached(q)} : pc' = [pc EXCEPT ![q] = l]
    BY <1>5 DEF Executes, CacheHit, CacheMiss, ReadRow, CacheRow
  <2>2. \A p \in Requests : p # q => pc'[p] = pc[p]
    BY <2>1 DEF Shape, TypeOK
  <2>3. q \in Reports => pc'[q] \in {"readRow", "cacheRow", "mutate"} /\ answer[q] # "ACCEPTED"
    BY <2>1 DEF AfterCached, Told, ToldReport, Shape, TypeOK
  <2>4. pc'[q] # "idle" /\ q \notin Jobs
    BY <2>1 DEF AfterCached, Shape, TypeOK, Bound, Holding
  <2>5. q \in Reports => ToldReport(q)'
    BY <2>1, <2>3 DEF ToldReport
  <2> QED
    BY <1>4, <2>1, <2>2, <2>4, <2>5
<1>6. ASSUME NEW q \in Requests, MutateReport(q)
      PROVE  Told'
  <2>1. PICK d : Extends(proc[q], target[q], d) /\ d.lines = mem[proc[q]][target[q]].lines \cup {q}
    BY <1>6, ReportExtends
  <2>2. q \in Lines(mem'[proc[q]][target[q]])
    BY <2>1 DEF Extends, Put, Lines
  <2>3. q \in Reports /\ pc[q] = "mutate" /\ UNCHANGED <<answer, target, proc>>
    BY <1>6 DEF MutateReport
  <2>4. pc'[q] # "idle" /\ \A p \in Requests : p # q => pc'[p] = pc[p]
    BY <1>6 DEF MutateReport, Shape, TypeOK
  <2>5. answer[q] # "ACCEPTED"
    BY <2>3 DEF Told, ToldReport
  <2>6. ToldReport(q)'
    BY <2>2, <2>3, <2>5 DEF ToldReport
  <2> QED
    BY <1>4, <2>3, <2>4, <2>6
<1>7. ASSUME NEW q \in Requests, MutateCancel(q)
      PROVE  Told'
  <2>1. PICK d : /\ Extends(proc[q], target[q], d)
                 /\ mem[proc[q]][target[q]] \in Data /\ mem[proc[q]][target[q]] # None
                 /\ Waiting(proc[q], target[q]) => d.status = "CANCELED"
    BY <1>7, CancelExtends
  <2>2. q \in Cancels /\ q \notin Reports /\ pc[q] = "mutate" /\ UNCHANGED <<target, proc>>
        /\ answer' = [answer EXCEPT ![q] = CancelStatus(mem[proc[q]][target[q]].status)]
    BY <1>7 DEF MutateCancel
  <2>3. pc'[q] # "idle" /\ \A p \in Requests : p # q => pc'[p] = pc[p] /\ answer'[p] = answer[p]
    BY <1>7 DEF MutateCancel, Shape, TypeOK
  <2>4. answer'[q] = "CANCELLATION_REQUESTED" => mem[proc[q]][target[q]].status = "IN_QUEUE"
    BY <2>2 DEF CancelStatus, Shape, TypeOK
  <2>5. answer'[q] = "CANCELLATION_REQUESTED" => mem'[proc[q]][target[q]].status # "IN_QUEUE"
    BY <2>1, <2>4 DEF Waiting, Extends, Put
  <2>6. ToldCancel(q)'
    BY <2>2, <2>3, <2>5 DEF ToldCancel
  <2> QED
    BY <2>2, <2>3, <2>4, <2>6, ToldKeeps
<1>8. ASSUME NEW q \in Requests,
             UpdateRow(q) \/ RecordEvent(q) \/ CancelIgnoresDbError(q) \/ Refresh(q) \/ Publish(q)
      PROVE  Told'
  <2>1. UNCHANGED <<answer, target, proc>>
        /\ \E l \in {"record", "refresh", "respond", "publish"} : pc' = [pc EXCEPT ![q] = l]
    BY <1>8 DEF Executes, UpdateRow, RecordEvent, CancelIgnoresDbError, Refresh, Publish, AfterRecord
  <2>2. pc[q] \in {"updateRow", "record", "refresh", "publish"} /\ q \notin Jobs
    BY <1>8, CachedHas
       DEF Executes, UpdateRow, RecordEvent, CancelIgnoresDbError, Refresh, Publish, Cached
  <2>3. pc'[q] # "idle" /\ \A p \in Requests : p # q => pc'[p] = pc[p]
    BY <2>1 DEF Shape, TypeOK
  <2>4. q \in Reports => ToldReport(q)'
    <3>1. q \in Reports => answer[q] # "ACCEPTED"
      BY <2>2 DEF Told, ToldReport
    <3>2. q \in Reports /\ Own(proc[q], target[q]) => q \in Lines(mem[proc[q]][target[q]])
      BY <2>2 DEF Told, ToldReport
    <3>3. Own(proc[q], target[q])' =>
            /\ Own(proc[q], target[q])
            /\ Lines(mem[proc[q]][target[q]]) \subseteq Lines(mem'[proc[q]][target[q]])
      BY <2>1, <2>2, ToldStays
    <3> QED
      BY <2>1, <3>1, <3>2, <3>3 DEF ToldReport
  <2> QED
    BY <1>4, <2>1, <2>2, <2>3, <2>4
<1>9. ASSUME NEW q \in Requests, Subscribe(q) \/ StreamSend(q)
      PROVE  Told'
  <2>1. UNCHANGED <<answer, target, proc>> /\ pc[q] \in {"subscribe", "streaming"}
        /\ pc' = [pc EXCEPT ![q] = "streaming"]
    BY <1>9 DEF Subscribe, StreamSend, Shape, TypeOK
  <2>2. pc'[q] = "streaming" /\ \A p \in Requests : p # q => pc'[p] = pc[p]
    BY <2>1 DEF Shape, TypeOK
  <2>3. q \notin Jobs
    BY <2>1, CachedHas DEF Cached
  <2>4. q \in Reports => ToldReport(q)'
    BY <2>1, <2>2 DEF Told, ToldReport
  <2> QED
    BY <1>4, <2>1, <2>2, <2>3, <2>4
<1>10. ASSUME NEW q \in Requests, Unknown(q) \/ StreamEnd(q) \/ Abandon(q)
       PROVE  Told'
  <2>1. UNCHANGED <<target, proc>> /\ \E a \in {"FAILED", "STREAMED"} : End(q, a)
    BY <1>10 DEF Unknown, StreamEnd, Abandon
  <2>2. \A p \in Requests : p # q => pc'[p] = pc[p] /\ answer'[p] = answer[p]
    BY <2>1 DEF End, Shape, TypeOK
  <2>3. pc'[q] = "done" /\ answer'[q] \in {"FAILED", "STREAMED"}
    BY <2>1 DEF End, Shape, TypeOK
  <2>4. ToldReport(q)' /\ ToldCancel(q)'
    BY <2>3 DEF ToldReport, ToldCancel
  <2> QED
    BY <2>1, <2>2, <2>3, <2>4, ToldKeeps
<1>11. ASSUME NEW q \in Requests, Respond(q)
       PROVE  Told'
  <2>1. UNCHANGED <<target, proc, mem, notifier>> /\ pc[q] = "respond"
    BY <1>11 DEF Respond, processVars
  <2>2. \A p \in Requests : p # q => pc'[p] = pc[p] /\ answer'[p] = answer[p]
    BY <1>11 DEF Respond, End, Shape, TypeOK
  <2>3. pc'[q] = "done" /\ (q \in Cancels => answer'[q] = answer[q])
    BY <1>11 DEF Respond, End, Shape, TypeOK
  <2>4. q \in Reports => ToldReport(q)'
    BY <2>1, <2>3 DEF Told, ToldReport, Own
  <2>5. q \in Cancels => ToldCancel(q)'
    BY <2>1, <2>3 DEF Told, ToldCancel, Own
  <2> QED
    BY <2>1, <2>2, <2>3, <2>4, <2>5, ToldKeeps
<1>12. ASSUME NEW r \in Replicas, Restart(r)
       PROVE  Told'
  <2>1. UNCHANGED <<target, proc>>
        /\ \A j \in Jobs : notifier'[r][j] = None
        /\ \A s \in Replicas, k \in Jobs :
             s # r => mem'[s][k] = mem[s][k] /\ notifier'[s][k] = notifier[s][k]
    BY <1>12 DEF Restart, Shape, TypeOK
  <2>2. \A q \in Requests : IF proc[q] = r /\ pc[q] # "done"
                            THEN pc'[q] = "done" /\ answer'[q] = "FAILED"
                            ELSE pc'[q] = pc[q] /\ answer'[q] = answer[q]
    BY <1>12 DEF Restart
  <2>3. \A q \in Requests : pc[q] # "idle" => proc[q] \in Replicas /\ target[q] \in Jobs
    BY DEF Shape, Bound
  <2>4. \A q \in Requests : proc[q] = r => pc[q] # "idle"
    BY ConstantsTyped DEF Shape, Bound
  <2>5. \A q \in Requests : pc[q] # "idle" /\ Own(proc[q], target[q])' =>
          /\ proc[q] # r /\ Own(proc[q], target[q])
          /\ mem'[proc[q]][target[q]] = mem[proc[q]][target[q]]
    BY <2>1, <2>3, ConstantsTyped DEF Own
  <2>6. \A q \in Reports : ToldReport(q)'
    BY <1>1, <2>1, <2>2, <2>5 DEF Told, ToldReport
  <2>7. \A q \in Cancels : ToldCancel(q)'
    BY <1>1, <2>1, <2>2, <2>4, <2>5 DEF Told, ToldCancel
  <2>8. OneCancellation'
    BY <1>1, <2>1, <2>2, <2>5 DEF Told, ToldCancel, OneCancellation
  <2> QED
    BY <2>6, <2>7, <2>8 DEF Told
<1>13. ASSUME UNCHANGED <<mem, notifier, pc, proc, answer, target>>
       PROVE  Told'
  BY <1>13 DEF Told, ToldReport, ToldCancel, OneCancellation, Own, Lines
<1>14. ASSUME NEW k \in Queues, Dequeue(k)
       PROVE  Told'
  BY <1>13, <1>14 DEF Dequeue, processVars, handlerVars
<1>15. ASSUME UNCHANGED vars
       PROVE  Told'
  BY <1>13, <1>15 DEF vars, processVars, handlerVars
<1> QED
  BY <1>2, <1>3, <1>5, <1>6, <1>7, <1>8, <1>9, <1>10, <1>11, <1>12, <1>14, <1>15, RefusedFails
     DEF RestartNext, Next, Arrival, Progress, Handler, Lookup, Change, Showing, Failure, Delivery,
         ArriveReport, ArriveRequest, Requests

(* Nobody was told anything.                                               *)
LEMMA ToldInit == Init => Told
BY DEF Init, Told, ToldReport, ToldCancel, OneCancellation, Requests

(* What the callers of a process were told stays true of its table.        *)
LEMMA ToldInvariant == Spec => []Told
BY ToldInit, ToldStep, FitsInvariant, ShapeInvariant, PTL DEF Spec, RestartNext

(* The process that took a job never forgets a report about it that it     *)
(* answered 202, whatever cancellations and reports raced with it.         *)
THEOREM AcceptedCorrect == Spec => []AcceptedIsKept
<1>1. Told => AcceptedIsKept
  BY DEF Told, ToldReport, AcceptedIsKept
<1> QED
  BY <1>1, ToldInvariant, PTL

(* Of all callers that cancel a job at the process that took it one at     *)
(* most is told that it did: the status is tested and set under one lock,  *)
(* and no later report, copy or look-up returns the job to the queue.      *)
THEOREM CancellationCorrect == Spec => []OneCancellation
<1>1. Told => OneCancellation
  BY DEF Told
<1> QED
  BY <1>1, ToldInvariant, PTL

-----------------------------------------------------------------------------
(* The table implements JobLifecycle.                                      *)

SameSeen(j) == TableStatus(j)' = TableStatus(j) /\ TableLines(j)' = TableLines(j)
ForgottenSeen(j) == TableStatus(j)' = "FORGOTTEN" /\ TableLines(j)' = {}

(* A step that no record but forgotten ones shows is a Forget.             *)
LEMMA ForgetSeen ==
  ASSUME \A j \in Jobs : SameSeen(j) \/ ForgottenSeen(j)
  PROVE  Life!LifecycleNext
<1> DEFINE S == {j \in Jobs : ForgottenSeen(j)}
<1>1. \A j \in Jobs : TableStatus(j)' = IF j \in S THEN "FORGOTTEN" ELSE TableStatus(j)
  BY DEF SameSeen, ForgottenSeen
<1>2. \A j \in Jobs : TableLines(j)' = IF j \in S THEN {} ELSE TableLines(j)
  BY DEF SameSeen, ForgottenSeen
<1>3. S \in SUBSET Jobs
  OBVIOUS
<1> HIDE DEF S
<1>4. Life!Forget(S)
  BY <1>1, <1>2 DEF Life!Forget
<1> QED
  BY <1>3, <1>4 DEF Life!LifecycleNext

(* A submission keeps its process and never starts again.                  *)
LEMMA JobSteps ==
  ASSUME Shape, [RestartNext]_vars, NEW j \in Jobs
  PROVE  /\ pc[j] # "idle" => proc'[j] = proc[j]
         /\ pc[j] \notin {"idle", "insert"} => pc'[j] \notin {"idle", "insert"}
<1> DEFINE Good == /\ pc[j] # "idle" => proc'[j] = proc[j]
                   /\ pc[j] \notin {"idle", "insert"} => pc'[j] \notin {"idle", "insert"}
<1> USE EndpointsDisjoint DEF Goto
<1>0. j \in Requests /\ pc \in [Requests -> Locations]
  BY DEF Requests, Shape, TypeOK
<1>1. ASSUME NEW q \in Jobs, NEW r \in Replicas, NEW k \in Queues, BeginSubmit(q, r, k)
      PROVE  Good
  BY <1>0, <1>1 DEF BeginSubmit, Shape, TypeOK
<1>2. ASSUME NEW q \in Requests, NEW l, l \notin {"idle", "insert"}, pc' = [pc EXCEPT ![q] = l],
             UNCHANGED proc
      PROVE  Good
  BY <1>0, <1>2
<1>3. ASSUME NEW q \in Jobs, Submission(q)
      PROVE  Good
  <2>1. UNCHANGED proc /\ \E l \in {"insertRow", "insertEvent", "setKey", "push", "respond"} :
                            pc' = [pc EXCEPT ![q] = l]
    BY <1>3 DEF Executes, Submission, InsertJob, InsertRow, InsertEvent, SetKey, Push
  <2> QED
    BY <1>2, <2>1 DEF Requests
<1>4. ASSUME NEW q \in Requests, NEW r \in Replicas, NEW i \in Jobs, Arrive(q, r, i), q \notin Jobs
      PROVE  Good
  BY <1>0, <1>4 DEF Arrive, Shape, TypeOK
<1>5. ASSUME NEW q \in Requests, CacheHit(q) \/ CacheMiss(q) \/ ReadRow(q) \/ CacheRow(q)
      PROVE  Good
  <2>1. UNCHANGED proc /\ \E l \in {"readRow", "cacheRow", AfterCached(q)} : pc' = [pc EXCEPT ![q] = l]
    BY <1>5 DEF Executes, CacheHit, CacheMiss, ReadRow, CacheRow
  <2> QED
    BY <1>2, <2>1 DEF AfterCached
<1>6. ASSUME NEW q \in Requests,
             Change(q) \/ Refresh(q) \/ Publish(q) \/ Subscribe(q) \/ CancelIgnoresDbError(q)
      PROVE  Good
  <2>1. UNCHANGED proc /\ \E l \in {"updateRow", "refresh", "respond", "record", "publish", "streaming"} :
                            pc' = [pc EXCEPT ![q] = l]
    BY <1>6 DEF Executes, Change, MutateReport, MutateCancel, UpdateRow, RecordEvent, Refresh,
                Publish, Subscribe, CancelIgnoresDbError, AfterRecord
  <2> QED
    BY <1>2, <2>1
<1>7. ASSUME NEW q \in Requests, Unknown(q) \/ StreamEnd(q) \/ Abandon(q) \/ Respond(q)
      PROVE  Good
  <2>1. UNCHANGED proc /\ pc' = [pc EXCEPT ![q] = "done"]
    BY <1>7 DEF Unknown, StreamEnd, Abandon, Respond, End
  <2> QED
    BY <1>2, <2>1
<1>8. CASE UNCHANGED <<pc, proc>>
  BY <1>8
<1>9. ASSUME NEW q \in Requests, StreamSend(q)
      PROVE  Good
  BY <1>8, <1>9 DEF StreamSend
<1>10. ASSUME NEW r \in Replicas, Restart(r)
       PROVE  Good
  BY <1>0, <1>10 DEF Restart
<1>11. ASSUME NEW k \in Queues, Dequeue(k)
       PROVE  Good
  BY <1>8, <1>11 DEF Dequeue, handlerVars
<1>12. ASSUME UNCHANGED vars
       PROVE  Good
  BY <1>8, <1>12 DEF vars, handlerVars
<1> HIDE DEF Good
<1>13. Good
  BY <1>1, <1>3, <1>4, <1>5, <1>6, <1>7, <1>9, <1>10, <1>11, <1>12, RefusedFails
     DEF RestartNext, Next, Arrival, Progress, Handler, Lookup, Showing, Failure, Delivery,
         ArriveReport, ArriveRequest, Requests
<1> QED
  BY <1>13 DEF Good

(* What the mapping shows of a job whose record the process keeps.         *)
LEMMA KnownSeen ==
  ASSUME NEW j \in Jobs, Known(j)
  PROVE  TableStatus(j) = mem[proc[j]][j].status /\ TableLines(j) = mem[proc[j]][j].lines
BY DEF TableStatus, TableLines

(* ... after a step of a process that goes on.                             *)
LEMMA KnownSeenNext ==
  ASSUME NEW j \in Jobs, Known(j)'
  PROVE  TableStatus(j)' = mem'[proc'[j]][j].status /\ TableLines(j)' = mem'[proc'[j]][j].lines
BY DEF TableStatus, TableLines

(* A job whose record the step leaves alone looks as before.               *)
LEMMA OthersSame ==
  ASSUME Shape, Fits, [RestartNext]_vars, NEW j \in Jobs, pc'[j] = pc[j], proc'[j] = proc[j],
         proc[j] # None => (Own(proc[j], j)' <=> Own(proc[j], j)),
         Known(j) => mem'[proc[j]][j].status = mem[proc[j]][j].status
                     /\ mem'[proc[j]][j].lines = mem[proc[j]][j].lines
  PROVE  SameSeen(j)
<1>1. Known(j)' <=> Known(j)
  BY DEF Known, Own
<1> QED
  BY <1>1 DEF SameSeen, TableStatus, TableLines

(* So does every job but the one whose record is extended, and that one    *)
(* too when the process did not make its record.                           *)
LEMMA ExtendsSame ==
  ASSUME Shape, Fits, [RestartNext]_vars, NEW r, NEW i, NEW d, Extends(r, i, d),
         UNCHANGED <<notifier, proc>>, \A k \in Jobs : pc'[k] = pc[k],
         NEW j \in Jobs, j = i => ~Own(r, i)
  PROVE  SameSeen(j)
<1>1. proc[j] # None => proc[j] \in Replicas
  BY DEF Shape, TypeOK, Requests
<1>2. Known(j) => mem'[proc[j]][j] = mem[proc[j]][j]
  BY <1>1 DEF Known, Own, Extends, Put
<1> QED
  BY <1>2, OthersSame DEF Own

(* InsertJob is Submit, MutateReport Report and MutateCancel of a job that *)
(* waits Cancel, at the process that took the job; a restart, or the end   *)
(* of a submission that made no record, is Forget; all else is invisible.  *)
LEMMA LifecycleStep ==
  ASSUME Shape, Fits, [RestartNext]_vars
  PROVE  Life!LifecycleNext
<1> USE EndpointsDisjoint
<1>0. Jobs \subseteq Requests /\ \A k \in Jobs : proc[k] \in Replicas \cup {None}
  BY DEF Requests, Shape, TypeOK
<1>1. ASSUME NEW q \in Jobs, InsertJob(q)
      PROVE  Life!LifecycleNext
  <2>1. PICK r \in Replicas : r = proc[q]
    BY <1>0, <1>1 DEF InsertJob, Shape, Bound
  <2>2. PICK d : /\ Extends(r, q, d) /\ Put(notifier, notifier', r, q, q)
                 /\ d.lines = {} /\ d.status = "IN_QUEUE"
    BY <1>1, <2>1, InsertExtends
  <2>3. pc[q] = "insert" /\ UNCHANGED proc /\ \A k \in Jobs : k # q => pc'[k] = pc[k]
    BY <1>0, <1>1 DEF InsertJob, Goto, Shape, TypeOK
  <2>4. notifier[r][q] = None /\ r # None /\ q # None
    BY <2>3, ConstantsTyped DEF Fits, JobFits
  <2>5. TableStatus(q) = "ABSENT" /\ TableLines(q) = {}
    BY <2>1, <2>3, <2>4 DEF TableStatus, TableLines, Known, Own
  <2>6. Known(q)' /\ mem'[proc'[q]][q] = d
    BY <2>1, <2>2, <2>3, <2>4 DEF Known, Own, Extends, Put
  <2>7. TableStatus(q)' = "IN_QUEUE" /\ TableLines(q)' = {}
    BY <2>2, <2>6, KnownSeenNext
  <2>8. ASSUME NEW k \in Jobs, k # q
        PROVE  SameSeen(k)
    <3>1. proc[k] # None => notifier'[proc[k]][k] = notifier[proc[k]][k]
                            /\ mem'[proc[k]][k] = mem[proc[k]][k]
      BY <1>0, <2>2, <2>8 DEF Extends, Put
    <3> QED
      BY <2>3, <2>8, <3>1, OthersSame DEF Own, Known
  <2>9. Life!Submit(q)
    BY <2>5, <2>7, <2>8 DEF Life!Submit, SameSeen
  <2> QED
    BY <2>9 DEF Life!LifecycleNext
<1>2. ASSUME NEW q \in Requests, MutateReport(q)
      PROVE  Life!LifecycleNext
  <2>1. PICK r \in Replicas, j \in Jobs : r = proc[q] /\ j = target[q]
    BY <1>2, CachedHas DEF MutateReport, Cached
  <2>2. PICK d : /\ Extends(r, j, d) /\ mem[r][j] \in Data
                 /\ d.lines = mem[r][j].lines \cup {q}
                 /\ d.status \in {"IN_PROGRESS", "COMPLETED", "ERROR", mem[r][j].status}
    BY <1>2, <2>1, ReportExtends
  <2>3. UNCHANGED <<notifier, proc>> /\ q \in Reports /\ q \notin Cancels
        /\ \A k \in Jobs : pc'[k] = pc[k]
    BY <1>0, <1>2 DEF MutateReport, Goto, Shape, TypeOK
  <2>4. CASE ~Own(r, j)
    BY <2>2, <2>3, <2>4, ExtendsSame, ForgetSeen
  <2>5. CASE Own(r, j)
    <3>1. proc[j] = r /\ r # None
      BY <2>5, ConstantsTyped DEF Fits, JobFits
    <3>2. Known(j) /\ Known(j)' /\ mem'[proc'[j]][j] = d
      BY <2>2, <2>3, <2>5, <3>1 DEF Known, Own, Extends, Put
    <3>3. /\ TableStatus(j) = mem[r][j].status /\ TableLines(j) = mem[r][j].lines
          /\ TableStatus(j)' = d.status /\ TableLines(j)' = TableLines(j) \cup {q}
      BY <2>2, <3>1, <3>2, KnownSeen, KnownSeenNext
    <3>4. \A k \in Jobs : k # j => SameSeen(k)
      BY <2>2, <2>3, ExtendsSame
    <3>5. mem[r][j].status \in Status
      BY <2>2 DEF Data
    <3>6. Life!Report(j, q, d.status)
      <4>1. TableLines(j)' \cap Reports = (TableLines(j) \cap Reports) \cup {q}
            /\ TableLines(j)' \cap Cancels = TableLines(j) \cap Cancels
        BY <2>3, <3>3
      <4> QED
        BY <2>2, <3>3, <3>4, <3>5, <4>1 DEF Life!Report, SameSeen, Status
    <3> QED
      BY <2>2, <2>3, <3>5, <3>6 DEF Life!LifecycleNext, Status
  <2> QED
    BY <2>4, <2>5
<1>3. ASSUME NEW q \in Requests, MutateCancel(q)
      PROVE  Life!LifecycleNext
  <2>1. PICK r \in Replicas, j \in Jobs : r = proc[q] /\ j = target[q]
    BY <1>3, CachedHas DEF MutateCancel, Cached
  <2>2. PICK d : /\ Extends(r, j, d) /\ mem[r][j] \in Data /\ mem[r][j] # None
                 /\ IF Waiting(r, j)
                    THEN d.lines = mem[r][j].lines \cup {q} /\ d.status = "CANCELED"
                    ELSE d.lines = mem[r][j].lines /\ d.status = mem[r][j].status
    BY <1>3, <2>1, CancelExtends
  <2>3. UNCHANGED <<notifier, proc>> /\ q \in Cancels /\ q \notin Reports
        /\ \A k \in Jobs : pc'[k] = pc[k]
    BY <1>0, <1>3 DEF MutateCancel, Goto, Shape, TypeOK
  <2>4. CASE ~Own(r, j)
    BY <2>2, <2>3, <2>4, ExtendsSame, ForgetSeen
  <2>5. CASE Own(r, j)
    <3>1. proc[j] = r /\ r # None
      BY <2>5, ConstantsTyped DEF Fits, JobFits
    <3>2. Known(j) /\ Known(j)' /\ mem'[proc'[j]][j] = d
      BY <2>2, <2>3, <2>5, <3>1 DEF Known, Own, Extends, Put
    <3>3. /\ TableStatus(j) = mem[r][j].status /\ TableLines(j) = mem[r][j].lines
          /\ TableStatus(j)' = d.status /\ TableLines(j)' = d.lines
      BY <2>2, <3>1, <3>2, KnownSeen, KnownSeenNext
    <3>4. \A k \in Jobs : k # j => SameSeen(k)
      BY <2>2, <2>3, ExtendsSame
    <3>5. CASE Waiting(r, j)
      <4>1. TableStatus(j) = "IN_QUEUE" /\ TableStatus(j)' = "CANCELED"
            /\ TableLines(j)' = TableLines(j) \cup {q}
        BY <2>2, <3>3, <3>5 DEF Waiting
      <4>2. TableLines(j)' \cap Cancels = (TableLines(j) \cap Cancels) \cup {q}
            /\ TableLines(j)' \cap Reports = TableLines(j) \cap Reports
        BY <2>3, <4>1
      <4>3. Life!Cancel(j, q)
        BY <3>4, <4>1, <4>2 DEF Life!Cancel, SameSeen
      <4> QED
        BY <2>3, <4>3 DEF Life!LifecycleNext
    <3>6. CASE ~Waiting(r, j)
      <4>1. SameSeen(j)
        BY <2>2, <3>3, <3>6 DEF SameSeen
      <4> QED
        BY <3>4, <4>1, ForgetSeen
    <3> QED
      BY <3>5, <3>6
  <2> QED
    BY <2>4, <2>5
<1>4. ASSUME NEW q \in Requests, Refresh(q)
      PROVE  Life!LifecycleNext
  <2>1. PICK r \in Replicas, j \in Jobs : r = proc[q] /\ j = target[q]
    BY <1>4, CachedHas DEF Refresh, Cached
  <2>2. PICK d : /\ Extends(r, j, d)
                 /\ d.lines = mem[r][j].lines /\ d.status = mem[r][j].status
    BY <1>4, <2>1, RefreshExtends
  <2>3. UNCHANGED <<notifier, proc>> /\ \A k \in Jobs : pc'[k] = pc[k]
    BY <1>0, <1>4, CachedHas DEF Refresh, Goto, Shape, TypeOK, Cached
  <2>4. ASSUME NEW k \in Jobs
        PROVE  SameSeen(k)
    <3>1. CASE k = j
      <4>1. Known(k) => proc[k] = r \/ mem'[proc[k]][k] = mem[proc[k]][k]
        BY <1>0, <2>2 DEF Known, Extends, Put
      <4>2. mem'[r][j] = d
        BY <2>2 DEF Extends, Put
      <4> QED
        BY <2>2, <2>3, <3>1, <4>1, <4>2, OthersSame DEF Own
    <3>2. CASE k # j
      BY <2>2, <2>3, <3>2, ExtendsSame
    <3> QED
      BY <3>1, <3>2
  <2> QED
    BY <2>4, ForgetSeen
<1>5. ASSUME NEW q \in Requests, CacheRow(q)
      PROVE  Life!LifecycleNext
  <2>1. PICK r \in Replicas, j \in Jobs : r = proc[q] /\ j = target[q]
    BY <1>5, CacheRowPuts
  <2>2. PICK d \in Data : /\ q \notin Jobs /\ ~Own(r, j)
                          /\ Put(mem, mem', r, j, d) /\ Put(notifier, notifier', r, j, q)
    BY <1>5, <2>1, CacheRowPuts
  <2>3. UNCHANGED proc /\ \A k \in Jobs : pc'[k] = pc[k]
    BY <1>0, <1>5, <2>2 DEF CacheRow, Goto, Shape, TypeOK
  <2>4. ASSUME NEW k \in Jobs
        PROVE  SameSeen(k)
    <3>1. proc[k] # None => (Own(proc[k], k)' <=> Own(proc[k], k))
      BY <1>0, <2>2, <2>3 DEF Own, Put
    <3>2. Known(k) => mem'[proc[k]][k] = mem[proc[k]][k]
      BY <1>0, <2>2 DEF Known, Own, Put
    <3> QED
      BY <2>3, <3>1, <3>2, OthersSame
  <2> QED
    BY <2>4, ForgetSeen
<1>6. ASSUME NEW j \in Jobs, ~Known(j)', pc'[j] \notin {"idle", "insert"}
      PROVE  ForgottenSeen(j)
  BY <1>6 DEF ForgottenSeen, TableStatus, TableLines
<1>7. ASSUME NEW r \in Replicas, Restart(r)
      PROVE  Life!LifecycleNext
  <2>1. ASSUME NEW j \in Jobs
        PROVE  SameSeen(j) \/ ForgottenSeen(j)
    <3>1. UNCHANGED proc
      BY <1>7 DEF Restart
    <3>2. CASE proc[j] = r
      <4>1. pc'[j] = "done" /\ notifier'[r][j] = None /\ j # None
        BY <1>0, <1>7, <3>2, ConstantsTyped DEF Restart, Shape, TypeOK
      <4> QED
        BY <1>6, <3>1, <3>2, <4>1 DEF Known, Own
    <3>3. CASE proc[j] # r
      <4>1. pc'[j] = pc[j]
        BY <1>0, <1>7, <3>3 DEF Restart
      <4>2. proc[j] # None => mem'[proc[j]][j] = mem[proc[j]][j]
                              /\ notifier'[proc[j]][j] = notifier[proc[j]][j]
        BY <1>0, <1>7, <3>3 DEF Restart, Shape, TypeOK
      <4> QED
        BY <3>1, <4>1, <4>2, OthersSame DEF Own, Known
    <3> QED
      BY <3>2, <3>3
  <2> QED
    BY <2>1, ForgetSeen
<1>8. CASE UNCHANGED <<mem, notifier>>
  <2>1. ASSUME NEW j \in Jobs
        PROVE  SameSeen(j) \/ ForgottenSeen(j)
    <3>1. /\ pc[j] # "idle" => proc'[j] = proc[j]
          /\ pc[j] \notin {"idle", "insert"} => pc'[j] \notin {"idle", "insert"}
      BY JobSteps
    <3>2. CASE Known(j)
      <4>1. pc[j] # "idle" /\ Known(j)'
        BY <1>0, <1>8, <3>1, <3>2 DEF Known, Own, Shape, Bound
      <4> QED
        BY <1>8, <3>1, <3>2, <4>1, KnownSeen, KnownSeenNext DEF SameSeen
    <3>3. CASE ~Known(j)
      <4>1. ~Known(j)'
        <5>1. CASE pc[j] = "idle"
          <6>1. \A s \in Replicas : notifier[s][j] = None /\ j # None
            BY <5>1, ConstantsTyped DEF Fits, JobFits
          <6>2. proc'[j] \in Replicas \cup {None}
            BY <1>0, ShapeStep DEF Shape, TypeOK
          <6> QED
            BY <1>8, <6>1, <6>2 DEF Known, Own
        <5>2. CASE pc[j] # "idle"
          BY <1>8, <3>1, <3>3, <5>2 DEF Known, Own
        <5> QED
          BY <5>1, <5>2
      <4>2. CASE pc'[j] \notin {"idle", "insert"}
        BY <1>6, <4>1, <4>2
      <4>3. CASE pc'[j] \in {"idle", "insert"}
        BY <3>1, <3>3, <4>1, <4>3 DEF SameSeen, TableStatus, TableLines
      <4> QED
        BY <4>2, <4>3
    <3> QED
      BY <3>2, <3>3
  <2> QED
    BY <2>1, ForgetSeen
<1> QED
  BY <1>1, <1>2, <1>3, <1>4, <1>5, <1>7, <1>8, TableSteps

(* The table is empty.                                                     *)
LEMMA LifecycleStart == Init => Life!LifecycleInit
BY DEF Init, Life!LifecycleInit, TableStatus, TableLines, Known, Requests

(* The refinement, for any number of replicas and requests and over any    *)
(* number of restarts: the table of the process that takes a job behaves   *)
(* as JobLifecycle promises.                                               *)
THEOREM LifecycleRefinement == Spec => TableIsLifecycle
BY LifecycleStart, LifecycleStep, FitsInvariant, ShapeInvariant, PTL
   DEF Spec, RestartNext, TableIsLifecycle, Life!LifecycleSpec
=============================================================================
