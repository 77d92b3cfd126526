------------------------- MODULE ControlPlaneProofs -------------------------
(***************************************************************************)
(* Proofs about ControlPlane, for every number of nodes, models, editors   *)
(* and provisioning runs, with either store, over any restarts of the      *)
(* server and errors of its storage.                                       *)
(***************************************************************************)
EXTENDS ControlPlane, TLAPS

Updating == {"update", "save", "note"}
OnTheHost == {"connect", "push", "move", "steps", "check"}

(* Where a goroutine stands tells what it holds.                           *)
Placed ==
  \A p \in Goroutines :
    /\ pc[p] \in {"idle", "done"} <=> site[p] = None
    /\ pc[p] \in Updating => change[p] \in Changes /\ (p \in Runs <=> change[p].op = "status")
    /\ pc[p] = "save" => copy[p] \in Node /\ kind = "postgres"
    /\ pc[p] = "note" => kind = "file" /\ p \in Runs
    /\ pc[p] \in OnTheHost => p \in Runs

Shape == TypeOK /\ Placed

(* A change makes a node of a node.                                        *)
LEMMA AppliedType ==
  ASSUME NEW d \in Node, NEW c \in Changes
  PROVE  /\ Applied(d, c) \in Node
         /\ d.assigned \subseteq Applied(d, c).assigned
         /\ c.op = "assign" => c.name \in Applied(d, c).assigned /\ Applied(d, c).status = d.status
         /\ c.op = "status" => Applied(d, c).status = c.to
<1>1. CASE c \in [op : {"status"}, to : Status \ {"PENDING"}]
  BY <1>1 DEF Applied, Node
<1>2. CASE c \in [op : {"assign"}, name : Names]
  BY <1>2 DEF Applied, WithAssignment, Node
<1> QED
  BY <1>1, <1>2 DEF Changes

(* The goroutine between two calls, or at work.                            *)
LEMMA ShapeInit == Init => Shape
BY NoneIsNoValue, BoundsAreCounts
   DEF Init, Shape, TypeOK, Placed, Goroutines, Updating, OnTheHost, Content

(* The part of TypeOK about the goroutines.                                *)
ProcsTyped ==
  /\ pc \in [Goroutines -> {"idle", "done"} \cup Updating \cup OnTheHost]
  /\ site \in [Goroutines -> Nodes \cup {None}]
  /\ change \in [Goroutines -> Changes \cup {None}]
  /\ copy \in [Goroutines -> Node \cup {None}]
  /\ seen \in [Runs -> SUBSET Names]

(* A goroutine that returns.                                               *)
LEMMA LeaveShape ==
  ASSUME Shape, NEW p \in Goroutines, Leave(p), kind' = kind
  PROVE  ProcsTyped' /\ Placed'
BY DEF Leave, Goto, Ended, Shape, TypeOK, ProcsTyped, Placed, Updating, OnTheHost, Goroutines

(* The ways a run leaves a step on the host: for the next one, or to store *)
(* its outcome.                                                            *)
GoesOn(r) ==
  \/ \E l \in OnTheHost : Proceed(r, l)
  \/ \E s \in {"READY", "ERROR"} : Ask(r, [op |-> "status", to |-> s])

(* A run on the host keeps its node and what it has read of it.            *)
LEMMA GoesOnShape ==
  ASSUME Shape, NEW r \in Runs, pc[r] \in OnTheHost, GoesOn(r), kind' = kind
  PROVE  ProcsTyped' /\ Placed' /\ UNCHANGED <<site, copy, seen>>
<1>1. CASE \E l \in OnTheHost : Proceed(r, l)
  BY <1>1 DEF Proceed, Goto, Shape, TypeOK, ProcsTyped, Placed, Updating, OnTheHost, Goroutines
<1>2. ASSUME NEW s \in {"READY", "ERROR"}, Ask(r, [op |-> "status", to |-> s])
      PROVE  ProcsTyped' /\ Placed' /\ UNCHANGED <<site, copy, seen>>
  <2> DEFINE c == [op |-> "status", to |-> s]
  <2>1. c \in Changes /\ c.op = "status"
    BY DEF Changes, Status
  <2> HIDE DEF c
  <2> QED
    BY <1>2, <2>1
       DEF c, Ask, Goto, Shape, TypeOK, ProcsTyped, Placed, Updating, OnTheHost, Goroutines
<1> QED
  BY <1>1, <1>2 DEF GoesOn

(* Saving the file leaves a file and counts its errors.                    *)
LEMMA SaveType ==
  ASSUME TypeOK, NEW nodes \in [Nodes -> Node \cup {None}], Save(nodes)
  PROVE  disk' \in [Nodes -> Node \cup {None}] /\ failures' \in 0..MaxMishaps
BY BoundsAreCounts DEF Save, StorageFails, TypeOK

(* Neither count falls, and a save that has gone wrong is seen.            *)
LEMMA CountsGrow ==
  ASSUME TypeOK
  PROVE  StorageFails => failures' # 0 /\ failures' \in 0..MaxMishaps
BY BoundsAreCounts DEF TypeOK, StorageFails

(* What creating or deleting a node does: to no other node, and to its row *)
(* nothing but a new PENDING node that goes unmarked.                      *)
LEMMA CallerStep ==
  ASSUME TypeOK, NEW n \in Nodes,
         CreateFile(n) \/ CreateRow(n) \/ DeleteFile(n) \/ DeleteRow(n)
  PROVE  /\ UNCHANGED <<kind, procVars, hostVars, shared, owed, crashes>>
         /\ row' \in [Nodes -> Node \cup {None}] /\ stale' \in [Nodes -> BOOLEAN]
         /\ life' \in [Nodes -> {"unborn", "known", "unsure", "deleted"}]
         /\ acked' \in [Nodes -> SUBSET Names]
         /\ \A k \in Nodes \ {n} : UNCHANGED <<row[k], stale[k], life[k], acked[k]>>
         /\ stale[n] => stale'[n]
         /\ \/ UNCHANGED <<row, life, acked>>
            \/ /\ life'[n] # "unborn"
               /\ \/ row'[n] = None \/ stale'[n]
                  \/ row'[n].status = "PENDING" /\ life[n] = "unborn"
         /\ disk' = disk \/ (kind = "file" /\ disk' = row')
         /\ failures' = failures \/ (failures' # 0 /\ failures' \in 0..MaxMishaps)
<1>1. CASE CreateFile(n)
  <2>1. PICK models \in SUBSET Names :
          /\ row' = [row EXCEPT ![n] = [status |-> "PENDING", assigned |-> models]]
          /\ Save(row')
          /\ life' = [life EXCEPT ![n] = IF Saved THEN "known" ELSE "unsure"]
          /\ acked' = IF Saved THEN [acked EXCEPT ![n] = models] ELSE acked
    BY <1>1 DEF CreateFile
  <2>2. UNCHANGED <<kind, procVars, hostVars, runVars, crashes>> /\ life[n] = "unborn" /\ kind = "file"
    BY <1>1 DEF CreateFile
  <2>3. [status |-> "PENDING", assigned |-> models] \in Node
    BY DEF Node, Status
  <2>4. row' \in [Nodes -> Node \cup {None}] /\ row'[n].status = "PENDING"
        /\ \A k \in Nodes \ {n} : row'[k] = row[k]
    BY <2>1, <2>3 DEF TypeOK
  <2>5. /\ life' \in [Nodes -> {"unborn", "known", "unsure", "deleted"}] /\ life'[n] # "unborn"
        /\ \A k \in Nodes \ {n} : life'[k] = life[k]
    BY <2>1 DEF TypeOK
  <2>6. acked' \in [Nodes -> SUBSET Names] /\ \A k \in Nodes \ {n} : acked'[k] = acked[k]
    BY <2>1 DEF TypeOK
  <2>7. /\ disk' = disk \/ disk' = row'
        /\ failures' = failures \/ (failures' # 0 /\ failures' \in 0..MaxMishaps)
    BY <2>1, CountsGrow DEF Save
  <2>8. stale' = stale /\ UNCHANGED <<shared, owed>>
    BY <2>2 DEF runVars
  <2> QED
    BY <2>2, <2>4, <2>5, <2>6, <2>7, <2>8 DEF TypeOK
<1>2. CASE CreateRow(n)
  <2>1. UNCHANGED <<kind, disk, procVars, hostVars, shared, owed, crashes>>
    BY <1>2 DEF CreateRow
  <2>2. CASE StorageFails /\ UNCHANGED <<row, stale, life, acked>>
    BY <2>1, <2>2, CountsGrow DEF TypeOK
  <2>3. ASSUME NEW node \in Node,
               row' = [row EXCEPT ![n] = node],
               stale' = [stale EXCEPT ![n] =
                           @ \/ life[n] # "unborn" \/ node.status # "PENDING"],
               life' = [life EXCEPT ![n] = "known"],
               acked' = [acked EXCEPT ![n] = node.assigned],
               failures' = failures
        PROVE  /\ row' \in [Nodes -> Node \cup {None}] /\ stale' \in [Nodes -> BOOLEAN]
               /\ life' \in [Nodes -> {"unborn", "known", "unsure", "deleted"}]
               /\ acked' \in [Nodes -> SUBSET Names]
               /\ \A k \in Nodes \ {n} : UNCHANGED <<row[k], stale[k], life[k], acked[k]>>
               /\ stale[n] => stale'[n]
               /\ life'[n] # "unborn"
               /\ stale'[n] \/ (row'[n].status = "PENDING" /\ life[n] = "unborn")
    <3>1. PICK b \in BOOLEAN : b = (stale[n] \/ life[n] # "unborn" \/ node.status # "PENDING")
      BY Zenon
    <3>2. stale' = [stale EXCEPT ![n] = b]
      BY <2>3, <3>1, Zenon
    <3>3. node.assigned \in SUBSET Names
      BY DEF Node
    <3>4. stale' \in [Nodes -> BOOLEAN] /\ stale'[n] = b /\ \A k \in Nodes \ {n} : stale'[k] = stale[k]
      BY <3>2 DEF TypeOK
    <3> QED
      BY <2>3, <3>1, <3>3, <3>4 DEF TypeOK
  <2> QED
    BY <1>2, <2>1, <2>2, <2>3 DEF CreateRow
<1>3. CASE DeleteFile(n) \/ DeleteRow(n)
  <2>1. /\ UNCHANGED <<kind, procVars, hostVars, runVars, crashes>>
        /\ row' = [row EXCEPT ![n] = None] /\ acked' = [acked EXCEPT ![n] = {}]
        /\ \E l \in {"deleted", "unsure"} : life' = [life EXCEPT ![n] = l]
    BY <1>3 DEF DeleteFile, DeleteRow
  <2>2. /\ disk' = disk \/ (kind = "file" /\ disk' = row')
        /\ failures' = failures \/ (failures' # 0 /\ failures' \in 0..MaxMishaps)
    BY <1>3, CountsGrow DEF DeleteFile, DeleteRow, Save
  <2>3. stale' = stale /\ UNCHANGED <<shared, owed>>
    BY <2>1 DEF runVars
  <2> QED
    BY <2>1, <2>2, <2>3 DEF TypeOK
<1> QED
  BY <1>1, <1>2, <1>3

(* Shape is inductive: one step per action.                                *)
LEMMA ShapeStep ==
  ASSUME Shape, [Next]_vars
  PROVE  Shape'
<1> USE NoneIsNoValue, BoundsAreCounts, GoroutinesDisjoint DEF Shape, Goto
<1>1. ASSUME NEW n \in Nodes, CreateFile(n) \/ CreateRow(n) \/ DeleteFile(n) \/ DeleteRow(n)
      PROVE  Shape'
  <2>1. /\ UNCHANGED <<kind, procVars, hostVars, shared, owed, crashes>>
        /\ row' \in [Nodes -> Node \cup {None}] /\ stale' \in [Nodes -> BOOLEAN]
        /\ life' \in [Nodes -> {"unborn", "known", "unsure", "deleted"}]
        /\ acked' \in [Nodes -> SUBSET Names]
        /\ disk' = disk \/ disk' = row'
        /\ failures' = failures \/ failures' \in 0..MaxMishaps
    BY <1>1, CallerStep
  <2> QED
    BY <2>1 DEF TypeOK, Placed, procVars, hostVars
<1>3. ASSUME NEW e \in Editors, NEW n \in Nodes, Edit(e, n)
      PROVE  Shape'
  <2>1. PICK c \in Changes : c.op # "status" /\ change' = [change EXCEPT ![e] = c]
    BY <1>3 DEF Edit
  <2>2. UNCHANGED <<copy, seen, storeVars, hostVars, toldVars, runVars, crashes>>
        /\ site' = [site EXCEPT ![e] = n] /\ pc' = [pc EXCEPT ![e] = "update"] /\ pc[e] = "idle"
    BY <1>3 DEF Edit
  <2> QED
    BY <2>1, <2>2 DEF TypeOK, Placed, Updating, OnTheHost, Goroutines, storeVars, hostVars, toldVars, runVars
<1>4. ASSUME NEW r \in Runs, NEW n \in Nodes, StartRun(r, n)
      PROVE  Shape'
  <2> DEFINE c == [op |-> "status", to |-> "PROVISIONING"]
  <2>1. c \in Changes /\ c.op = "status"
    BY DEF Changes, Status
  <2> HIDE DEF c
  <2> QED
    BY <1>4, <2>1 DEF c, StartRun, TypeOK, Placed, Updating, OnTheHost, Goroutines, storeVars, hostVars,
       toldVars, runVars, Node
<1>5. ASSUME NEW p \in Goroutines, UpdateFile(p)
      PROVE  Shape'
  <2>1. site[p] \in Nodes /\ change[p] \in Changes /\ kind = "file" /\ pc[p] = "update"
    BY <1>5 DEF UpdateFile, TypeOK, Placed, Updating
  <2>2. UNCHANGED <<kind, hostVars, runVars, crashes>>
    BY <1>5 DEF UpdateFile
  <2>3. CASE row[site[p]] = None
    <3>1. Leave(p) /\ UNCHANGED <<row, disk, failures, toldVars>>
      BY <1>5, <2>3 DEF UpdateFile
    <3> QED
      BY <2>2, <3>1, LeaveShape DEF TypeOK, ProcsTyped, Updating, OnTheHost, hostVars, runVars, toldVars
  <2>4. CASE row[site[p]] # None
    <3>1. Applied(row[site[p]], change[p]) \in Node
      BY <2>1, <2>4, AppliedType DEF TypeOK
    <3>2. row' = [row EXCEPT ![site[p]] = Applied(row[site[p]], change[p])] /\ Save(row')
      BY <1>5, <2>4 DEF UpdateFile
    <3>3. row' \in [Nodes -> Node \cup {None}]
      BY <2>1, <3>1, <3>2 DEF TypeOK
    <3>4. disk' \in [Nodes -> Node \cup {None}] /\ failures' \in 0..MaxMishaps
      BY <3>2, <3>3, SaveType
    <3>5. acked' \in [Nodes -> SUBSET Names] /\ life' = life
      <4>1. change[p].op = "assign" => change[p].name \in Names
        BY <2>1 DEF Changes
      <4>2. UNCHANGED life /\ acked' \in {acked, [acked EXCEPT ![site[p]] = @ \cup {change[p].name}]}
            /\ (change[p].op # "assign" => acked' = acked)
        BY <1>5, <2>4 DEF UpdateFile, Answered
      <4> QED
        BY <4>1, <4>2 DEF TypeOK
    <3>6. \/ Leave(p)
          \/ pc' = [pc EXCEPT ![p] = "note"] /\ UNCHANGED <<site, change, copy, seen>> /\ p \in Runs
      BY <1>5, <2>4 DEF UpdateFile
    <3>7. CASE Leave(p)
      BY <2>2, <3>3, <3>4, <3>5, <3>7, LeaveShape DEF TypeOK, ProcsTyped, Updating, OnTheHost, hostVars, runVars
    <3>8. CASE pc' = [pc EXCEPT ![p] = "note"] /\ UNCHANGED <<site, change, copy, seen>> /\ p \in Runs
      BY <2>1, <2>2, <3>3, <3>4, <3>5, <3>8 DEF TypeOK, Placed, Updating, OnTheHost, hostVars, runVars
    <3> QED
      BY <3>6, <3>7, <3>8
  <2> QED
    BY <2>3, <2>4
<1>6. ASSUME NEW p \in Goroutines, Note(p)
      PROVE  Shape'
  <2>1. site[p] \in Nodes /\ change[p] \in Changes /\ kind = "file" /\ p \in Runs
    BY <1>6 DEF Note, TypeOK, Placed, Updating
  <2>2. UNCHANGED <<kind, row, hostVars, toldVars, runVars, crashes>>
    BY <1>6 DEF Note
  <2>3. disk' \in [Nodes -> Node \cup {None}] /\ failures' \in 0..MaxMishaps
    BY <1>6, SaveType DEF Note, TypeOK
  <2>4. CASE Leave(p)
    BY <2>2, <2>3, <2>4, LeaveShape DEF TypeOK, ProcsTyped, Updating, OnTheHost, hostVars, runVars, toldVars
  <2>5. CASE /\ pc' = [pc EXCEPT ![p] = "connect"] /\ change' = [change EXCEPT ![p] = None]
             /\ copy' = [copy EXCEPT ![p] = None] /\ UNCHANGED <<site, seen>>
    BY <1>6, <2>1, <2>2, <2>3, <2>5 DEF Note, TypeOK, Placed, Updating, OnTheHost, hostVars, runVars, toldVars
  <2> QED
    BY <1>6, <2>4, <2>5 DEF Note, Onward
<1>7. ASSUME NEW p \in Goroutines, ReadRow(p)
      PROVE  Shape'
  <2>1. site[p] \in Nodes /\ change[p] \in Changes /\ kind = "postgres" /\ pc[p] = "update"
    BY <1>7 DEF ReadRow, TypeOK, Placed, Updating
  <2>2. UNCHANGED <<kind, row, disk, hostVars, runVars, crashes>>
    BY <1>7 DEF ReadRow
  <2>3. failures' \in 0..MaxMishaps /\ UNCHANGED toldVars
    BY <1>7 DEF ReadRow, StorageFails, Answered, TypeOK, toldVars
  <2>4. CASE Leave(p)
    BY <2>2, <2>3, <2>4, LeaveShape DEF TypeOK, ProcsTyped, Updating, OnTheHost, hostVars, runVars, toldVars
  <2>5. CASE /\ row[site[p]] # None /\ copy' = [copy EXCEPT ![p] = row[site[p]]]
             /\ pc' = [pc EXCEPT ![p] = "save"] /\ UNCHANGED <<site, change, seen>>
    BY <2>1, <2>2, <2>3, <2>5 DEF TypeOK, Placed, Updating, OnTheHost, hostVars, runVars, toldVars
  <2> QED
    BY <1>7, <2>4, <2>5 DEF ReadRow
<1>8. ASSUME NEW p \in Goroutines, SaveRow(p)
      PROVE  Shape'
  <2>1. site[p] \in Nodes /\ change[p] \in Changes /\ copy[p] \in Node /\ pc[p] = "save"
        /\ (p \in Runs <=> change[p].op = "status")
    BY <1>8 DEF SaveRow, TypeOK, Placed, Updating
  <2>2. UNCHANGED <<kind, disk, hostVars, shared, owed, crashes>>
    BY <1>8 DEF SaveRow
  <2>3. Applied(copy[p], change[p]) \in Node
    BY <2>1, AppliedType
  <2>4. row' \in [Nodes -> Node \cup {None}] /\ failures' \in 0..MaxMishaps
    <3>1. row' = row \/ row' = [row EXCEPT ![site[p]] = Applied(copy[p], change[p])]
      BY <1>8 DEF SaveRow
    <3>2. failures' = failures \/ StorageFails
      BY <1>8 DEF SaveRow
    <3> QED
      BY <2>3, <3>1, <3>2 DEF StorageFails, TypeOK
  <2>5. stale' \in [Nodes -> BOOLEAN]
    <3>1. PICK b \in BOOLEAN : b = (stale[site[p]] \/ row[site[p]] # copy[p])
      BY Zenon
    <3>2. stale' = stale \/ stale' = [stale EXCEPT ![site[p]] = b]
      BY <1>8, <3>1, Zenon DEF SaveRow
    <3> QED
      BY <3>2 DEF TypeOK
  <2>6. acked' \in [Nodes -> SUBSET Names] /\ life' = life
    <3>1. change[p].op = "assign" => change[p].name \in Names
      BY <2>1 DEF Changes
    <3>2. UNCHANGED life /\ acked' \in {acked, [acked EXCEPT ![site[p]] = @ \cup {change[p].name}]}
          /\ (change[p].op # "assign" => acked' = acked)
      BY <1>8 DEF SaveRow, Answered
    <3> QED
      BY <3>1, <3>2 DEF TypeOK
  <2>7. CASE Leave(p)
    BY <2>2, <2>4, <2>5, <2>6, <2>7, LeaveShape DEF TypeOK, ProcsTyped, Updating, OnTheHost, hostVars
  <2>8. CASE /\ pc' = [pc EXCEPT ![p] = "connect"] /\ change' = [change EXCEPT ![p] = None]
             /\ copy' = [copy EXCEPT ![p] = None] /\ UNCHANGED <<site, seen>> /\ p \in Runs
    BY <2>1, <2>2, <2>4, <2>5, <2>6, <2>8 DEF TypeOK, Placed, Updating, OnTheHost, hostVars
  <2> QED
    BY <1>8, <2>7, <2>8 DEF SaveRow, Onward
<1>9. ASSUME NEW r \in Runs, NEW at \in OnTheHost, OnHost(r, at)
      PROVE  /\ pc[r] = at /\ site[r] \in Nodes /\ Compose(seen[r]) \in Content
             /\ UNCHANGED <<kind, row, root, toldVars, shared, stale, crashes>>
  BY <1>9 DEF OnHost, TypeOK, Placed, OnTheHost, Goroutines, Compose, Content
<1>10. ASSUME UNCHANGED <<disk, failures>> \/ Logs
       PROVE  disk' \in [Nodes -> Node \cup {None}] /\ failures' \in 0..MaxMishaps
  BY <1>10, SaveType DEF Logs, TypeOK
<1>11. ASSUME NEW r \in Runs, WriteEnv(r)
       PROVE  Shape'
  <2>1. OnHost(r, "connect") /\ GoesOn(r) /\ (Logs \/ UNCHANGED <<disk, failures>>)
        /\ UNCHANGED <<account, tmp, file, loaded, owed>>
    BY <1>11 DEF WriteEnv, Connect, Fail, GoesOn, OnTheHost
  <2> QED
    BY <1>9, <1>10, <2>1, GoesOnShape DEF TypeOK, ProcsTyped, Updating, OnTheHost, toldVars
<1>12. ASSUME NEW r \in Runs, PushCompose(r)
       PROVE  Shape'
  <2>1. OnHost(r, "push") /\ GoesOn(r) /\ UNCHANGED <<disk, failures, account, loaded, owed>>
    BY <1>12 DEF PushCompose, Fail, GoesOn, OnTheHost
  <2>2. UNCHANGED <<tmp, file>> \/ \E part \in Content : Written(site[r], part)
    <3>1. Compose(seen[r]) \in Content /\ SUBSET Compose(seen[r]) \subseteq Content
      BY <1>9, <2>1 DEF Content, OnTheHost
    <3> QED
      BY <1>12, <3>1 DEF PushCompose
  <2>3. file' \in [Nodes -> Content] /\ tmp' \in [Nodes -> Content \cup {None}]
    BY <2>2 DEF Written, TypeOK
  <2> QED
    BY <1>9, <2>1, <2>3, GoesOnShape DEF TypeOK, ProcsTyped, Updating, OnTheHost, toldVars
<1>13. ASSUME NEW r \in Runs, Move(r)
       PROVE  Shape'
  <2>1. OnHost(r, "move") /\ GoesOn(r) /\ UNCHANGED <<disk, failures, account, loaded, owed>>
    BY <1>13 DEF Move, Fail, GoesOn, OnTheHost
  <2>2. file' \in [Nodes -> Content] /\ tmp' \in [Nodes -> Content \cup {None}]
    BY <1>9, <1>13, <2>1 DEF Move, TypeOK, OnTheHost
  <2> QED
    BY <1>9, <2>1, <2>2, GoesOnShape DEF TypeOK, ProcsTyped, Updating, OnTheHost, toldVars
<1>14. ASSUME NEW r \in Runs, RestartUnit(r)
       PROVE  Shape'
  <2>1. OnHost(r, "steps") /\ GoesOn(r) /\ Logs /\ UNCHANGED <<tmp, file, owed>>
    BY <1>14 DEF RestartUnit, Fail, GoesOn, OnTheHost
  <2>2. account' \in [Nodes -> BOOLEAN] /\ loaded' \in [Nodes -> Content]
    <3>1. site[r] \in Nodes
      BY <1>9, <2>1 DEF OnTheHost
    <3>2. account' = account \/ account' = [account EXCEPT ![site[r]] = TRUE]
      BY <1>14 DEF RestartUnit, AddAccount, Setup
    <3>3. loaded' = loaded \/ loaded' = [loaded EXCEPT ![site[r]] = file[site[r]]]
      BY <1>14 DEF RestartUnit, Setup, Load
    <3>4. account' \in [Nodes -> BOOLEAN]
      BY <3>2 DEF TypeOK
    <3>5. loaded' \in [Nodes -> Content]
      BY <3>1, <3>3 DEF TypeOK
    <3> QED
      BY <3>4, <3>5
  <2> QED
    BY <1>9, <1>10, <2>1, <2>2, GoesOnShape DEF TypeOK, ProcsTyped, Updating, OnTheHost, toldVars
<1>15. ASSUME NEW r \in Runs, Check(r)
       PROVE  Shape'
  <2>1. OnHost(r, "check") /\ GoesOn(r) /\ UNCHANGED <<disk, failures, account, tmp, file, loaded>>
    BY <1>15 DEF Check, Fail, GoesOn
  <2>2. owed' \in [Nodes -> SUBSET Names]
    BY <1>9, <1>15, <2>1 DEF Check, TypeOK, OnTheHost
  <2> QED
    BY <1>9, <2>1, <2>2, GoesOnShape DEF TypeOK, ProcsTyped, Updating, OnTheHost, toldVars
<1>16. ASSUME ServerRestarts
       PROVE  Shape'
  BY <1>16 DEF ServerRestarts, Ended, TypeOK, Placed, Updating, OnTheHost, Goroutines, hostVars,
               toldVars, runVars
<1>17. ASSUME UNCHANGED vars
       PROVE  Shape'
  BY <1>17 DEF vars, storeVars, procVars, hostVars, toldVars, runVars, TypeOK, Placed
<1> HIDE DEF Shape
<1> QED
  BY <1>1, <1>3, <1>4, <1>5, <1>6, <1>7, <1>8, <1>11, <1>12, <1>13, <1>14, <1>15, <1>16, <1>17
     DEF Next, Callers, Update, Upload, Install

(* Over any number of restarts and errors, a goroutine at work has a node  *)
(* and a change to make of it.                                             *)
LEMMA ShapeInvariant == Spec => []Shape
BY ShapeInit, ShapeStep, PTL DEF Spec

(* TypeOK for every value of the constants: a status is one of the four    *)
(* of the documents, an assignment names a model.                          *)
THEOREM TypeCorrect == Spec => []TypeOK
BY ShapeInvariant, PTL DEF Shape

-----------------------------------------------------------------------------
(* What the steps of a run do.                                             *)

(* What a step on the host does to the run and to the store.               *)
LEMMA HostStep ==
  ASSUME Shape, NEW r \in Runs, Upload(r) \/ Install(r)
  PROVE  /\ site[r] \in Nodes /\ r \in Goroutines
         /\ UNCHANGED <<kind, row, root, toldVars, shared, stale, crashes>>
         /\ disk' = disk \/ disk' = row
         /\ \/ pc[r] \in OnTheHost /\ Fail(r)
            \/ pc[r] = "connect" /\ Proceed(r, "push")
            \/ pc[r] = "push" /\ (Proceed(r, "move") \/ Proceed(r, "steps"))
            \/ pc[r] = "move" /\ Proceed(r, "steps")
            \/ pc[r] = "steps" /\ Proceed(r, "check")
            \/ pc[r] = "check" /\ Ask(r, [op |-> "status", to |-> "READY"])
<1>1. ASSUME NEW at \in OnTheHost, OnHost(r, at)
      PROVE  /\ pc[r] = at /\ site[r] \in Nodes /\ r \in Goroutines
             /\ UNCHANGED <<kind, row, root, toldVars, shared, stale, crashes>>
  BY <1>1 DEF OnHost, Shape, TypeOK, Placed, OnTheHost, Goroutines
<1>2. CASE WriteEnv(r)
  BY <1>1, <1>2 DEF WriteEnv, Connect, Logs, Save, OnTheHost
<1>3. CASE PushCompose(r)
  BY <1>1, <1>3 DEF PushCompose, OnTheHost
<1>4. CASE Move(r)
  BY <1>1, <1>4 DEF Move, OnTheHost
<1>5. CASE RestartUnit(r)
  <2>1. OnHost(r, "steps") /\ (disk' = disk \/ disk' = row)
    BY <1>5 DEF RestartUnit, Logs, Save
  <2>2. Fail(r) \/ Proceed(r, "check")
    BY <1>5 DEF RestartUnit
  <2> QED
    BY <1>1, <2>1, <2>2 DEF OnTheHost
<1>6. CASE Check(r)
  BY <1>1, <1>6 DEF Check, OnTheHost
<1> QED
  BY <1>2, <1>3, <1>4, <1>5, <1>6 DEF Upload, Install

(* What a step of an update does to the goroutine, and to no other.        *)
LEMMA UpdateProcs ==
  ASSUME Shape, NEW p \in Goroutines, Update(p)
  PROVE  /\ UNCHANGED <<hostVars, shared, owed>> /\ pc[p] \in Updating
         /\ \A q \in Goroutines \ {p} : UNCHANGED <<pc[q], site[q], change[q]>>
         /\ \A q \in Runs \ {p} : UNCHANGED seen[q]
         /\ \/ Leave(p)
            \/ /\ pc' = [pc EXCEPT ![p] = "connect"] /\ UNCHANGED <<site, seen>>
               /\ p \in Runs /\ change[p].to = "PROVISIONING"
            \/ /\ \E l \in {"save", "note"} : pc' = [pc EXCEPT ![p] = l]
               /\ UNCHANGED <<site, change, seen>>
<1> USE DEF Goto
<1>1. Leave(p) => /\ \A q \in Goroutines \ {p} : UNCHANGED <<pc[q], site[q], change[q]>>
                  /\ \A q \in Runs \ {p} : UNCHANGED seen[q]
  BY DEF Leave, Shape, TypeOK
<1>2. Onward(p) => /\ \A q \in Goroutines \ {p} : UNCHANGED <<pc[q], site[q], change[q]>>
                   /\ \A q \in Runs \ {p} : UNCHANGED seen[q]
                   /\ \/ Leave(p)
                      \/ /\ pc' = [pc EXCEPT ![p] = "connect"] /\ UNCHANGED <<site, seen>>
                         /\ p \in Runs /\ change[p].to = "PROVISIONING"
  BY <1>1 DEF Onward, Shape, TypeOK
<1>3. CASE UpdateFile(p)
  BY <1>1, <1>3 DEF UpdateFile, Updating, runVars, Shape, TypeOK
<1>4. CASE Note(p)
  BY <1>2, <1>4 DEF Note, Updating, runVars
<1>5. CASE ReadRow(p)
  BY <1>1, <1>5 DEF ReadRow, Updating, runVars, Shape, TypeOK
<1>6. CASE SaveRow(p)
  BY <1>1, <1>2, <1>6 DEF SaveRow, Updating
<1> QED
  BY <1>3, <1>4, <1>5, <1>6 DEF Update

(* What it does to the rows and to the file: it makes its change to the    *)
(* row, or to a copy that is no longer the row, and says yes to an editor  *)
(* only when the change is stored.                                         *)
Stores(p, n) ==
  /\ n = site[p] /\ change[p] \in Changes /\ (p \in Runs <=> change[p].op = "status")
  /\ UNCHANGED <<kind, life, crashes>>
  /\ \A k \in Nodes : stale[k] => stale'[k]
  /\ \/ row' = row
     \/ \E d \in Node : /\ row' = [row EXCEPT ![n] = Applied(d, change[p])]
                        /\ d = row[n] \/ stale'[n]
  /\ disk' = disk \/ (kind = "file" /\ disk' = row')
  /\ \/ acked' = acked
     \/ /\ change[p].op = "assign"
        /\ acked' = [acked EXCEPT ![n] = @ \cup {change[p].name}]
        /\ row'[n] \in Node /\ change[p].name \in row'[n].assigned
        /\ kind = "file" => disk' = row'

(* Every step of an update is such a step.                                 *)
LEMMA UpdateRow ==
  ASSUME Shape, NEW p \in Goroutines, Update(p)
  PROVE  \E n \in Nodes : Stores(p, n)
<1> USE NoneIsNoValue DEF Stores
<1>1. PICK n \in Nodes : n = site[p]
  BY UpdateProcs DEF Shape, TypeOK, Placed, Updating
<1>2. change[p] \in Changes /\ (p \in Runs <=> change[p].op = "status")
  BY UpdateProcs DEF Shape, Placed
<1>3. ASSUME UNCHANGED <<row, kind, life, crashes, stale, acked>>,
             disk' = disk \/ (kind = "file" /\ disk' = row)
      PROVE  /\ UNCHANGED <<kind, life, crashes>> /\ row' = row /\ acked' = acked
             /\ \A k \in Nodes : stale[k] => stale'[k]
             /\ disk' = disk \/ (kind = "file" /\ disk' = row')
  BY <1>3
<1>4. CASE UpdateFile(p)
  <2>1. UNCHANGED <<kind, crashes, stale>> /\ kind = "file"
    BY <1>4 DEF UpdateFile, runVars
  <2>2. CASE row[n] = None
    BY <1>1, <1>2, <1>4, <2>1, <2>2 DEF UpdateFile, toldVars
  <2>3. CASE row[n] # None
    <3>1. row[n] \in Node /\ Applied(row[n], change[p]) \in Node
      BY <1>2, <2>3, AppliedType DEF Shape, TypeOK
    <3>2. /\ row' = [row EXCEPT ![n] = Applied(row[n], change[p])]
          /\ Save(row') /\ Answered(p, Saved)
      BY <1>1, <1>4, <2>3, Zenon DEF UpdateFile
    <3>3. disk' = disk \/ disk' = row'
      BY <3>2 DEF Save
    <3>4. row'[n] = Applied(row[n], change[p])
      BY <3>2 DEF Shape, TypeOK
    <3>5. \/ acked' = acked
          \/ /\ change[p].op = "assign" /\ Saved
             /\ acked' = [acked EXCEPT ![n] = @ \cup {change[p].name}]
      BY <1>1, <3>2 DEF Answered
    <3>6. Saved => disk' = row'
      BY <3>2 DEF Save, Saved, StorageFails, Shape, TypeOK
    <3>7. change[p].op = "assign" => change[p].name \in row'[n].assigned
      BY <1>2, <3>1, <3>4, AppliedType
    <3>8. life' = life
      BY <3>2 DEF Answered
    <3> QED
      BY <1>1, <1>2, <2>1, <2>3, <3>1, <3>2, <3>3, <3>4, <3>5, <3>6, <3>7, <3>8
  <2> QED
    BY <2>2, <2>3
<1>5. CASE Note(p)
  <2>1. UNCHANGED <<row, kind, life, crashes, stale, acked>>
        /\ kind = "file" /\ (disk' = disk \/ disk' = row)
    BY <1>5 DEF Note, Save, toldVars, runVars, Shape, Placed
  <2> QED
    BY <1>1, <1>2, <1>3, <2>1
<1>6. CASE ReadRow(p)
  <2>1. UNCHANGED <<row, kind, life, crashes, stale, acked, disk>>
    BY <1>6 DEF ReadRow, Answered, toldVars, runVars
  <2> QED
    BY <1>1, <1>2, <1>3, <2>1
<1>7. CASE SaveRow(p)
  <2>1. UNCHANGED <<kind, life, crashes, disk>> /\ copy[p] \in Node /\ kind = "postgres"
    BY <1>7 DEF SaveRow, Answered, Shape, Placed
  <2>2. CASE UNCHANGED <<row, stale>> /\ Answered(p, FALSE)
    BY <1>1, <1>2, <2>1, <2>2 DEF Answered
  <2>3. CASE /\ row' = [row EXCEPT ![n] = Applied(copy[p], change[p])]
             /\ stale' = [stale EXCEPT ![n] = @ \/ row[n] # copy[p]]
             /\ Answered(p, TRUE)
    <3>1. Applied(copy[p], change[p]) \in Node /\ row'[n] = Applied(copy[p], change[p])
      BY <1>2, <2>1, <2>3, AppliedType DEF Shape, TypeOK
    <3>2. (\A k \in Nodes : stale[k] => stale'[k]) /\ (copy[p] = row[n] \/ stale'[n])
      <4>1. stale'[n] <=> stale[n] \/ row[n] # copy[p]
        BY <2>3, Zenon DEF Shape, TypeOK
      <4>2. \A k \in Nodes \ {n} : stale'[k] = stale[k]
        BY <2>3 DEF Shape, TypeOK
      <4> QED
        BY <4>1, <4>2
    <3>3. \/ acked' = acked
          \/ /\ change[p].op = "assign"
             /\ acked' = [acked EXCEPT ![n] = @ \cup {change[p].name}]
      BY <1>1, <2>3 DEF Answered
    <3>4. change[p].op = "assign" => change[p].name \in row'[n].assigned
      BY <1>2, <2>1, <3>1, AppliedType
    <3> QED
      BY <1>1, <1>2, <2>1, <2>3, <3>1, <3>2, <3>3, <3>4
  <2> QED
    BY <1>1, <1>7, <2>2, <2>3, Zenon DEF SaveRow
<1> QED
  BY <1>4, <1>5, <1>6, <1>7 DEF Update

-----------------------------------------------------------------------------
(* The run a PROVISIONING node waits for.                                  *)

(* A run that has yet to store its outcome.                                *)
Busy(r, n) == site[r] = n /\ ~(pc[r] = "note" /\ change[r].to # "PROVISIONING")

(* ProvisioningHasRun, of a run that is not about to return.               *)
HasRun ==
  \A n \in Nodes :
    row[n] # None /\ row[n].status = "PROVISIONING" /\ crashes = 0 /\ failures = 0 /\ ~stale[n] =>
      \E r \in Runs : Busy(r, n)

(* HasRun is kept: a run gives the node another status before it leaves.   *)
LEMMA HasRunStep ==
  ASSUME Shape, HasRun, [Next]_vars
  PROVE  HasRun'
<1> USE GoroutinesDisjoint, NoneIsNoValue DEF Goto
<1>0. /\ \A p \in Goroutines : pc[p] \in Updating \cup OnTheHost => site[p] \in Nodes
      /\ \A p \in Goroutines : pc[p] \notin Updating \cup OnTheHost => site[p] = None
      /\ \A r \in Runs : r \in Goroutines /\ r \notin Editors
  BY DEF Shape, TypeOK, Placed, Updating, OnTheHost, Goroutines
<1>1. ASSUME NEW n \in Nodes, CreateFile(n) \/ CreateRow(n) \/ DeleteFile(n) \/ DeleteRow(n)
      PROVE  HasRun'
  <2>1. UNCHANGED <<procVars, crashes>> /\ (failures' = failures \/ failures' # 0)
    BY <1>1, CallerStep DEF Shape
  <2>2. ASSUME NEW k \in Nodes, row'[k] # None, row'[k].status = "PROVISIONING", ~stale'[k]
        PROVE  row[k] = row'[k] /\ ~stale[k]
    BY <1>1, <2>2, CallerStep DEF Shape
  <2> QED
    BY <2>1, <2>2 DEF HasRun, Busy, procVars
<1>2. ASSUME NEW e \in Editors, NEW n \in Nodes, Edit(e, n)
      PROVE  HasRun'
  <2>1. \A r \in Runs : UNCHANGED <<pc[r], site[r], change[r]>>
    BY <1>0, <1>2 DEF Edit, Shape, TypeOK
  <2> QED
    BY <1>2, <2>1 DEF Edit, HasRun, Busy, storeVars, runVars
<1>3. ASSUME NEW r \in Runs, NEW n \in Nodes, StartRun(r, n)
      PROVE  HasRun'
  <2>1. UNCHANGED <<row, crashes, failures, stale>> /\ Busy(r, n)'
    BY <1>0, <1>3 DEF StartRun, storeVars, Busy, Shape, TypeOK
  <2>2. \A q \in Runs \ {r} : UNCHANGED <<pc[q], site[q], change[q]>>
    BY <1>0, <1>3 DEF StartRun, Shape, TypeOK
  <2>3. site[r] = None
    BY <1>0, <1>3 DEF StartRun, Updating, OnTheHost
  <2> QED
    BY <2>1, <2>2, <2>3 DEF HasRun, Busy
<1>4. ASSUME NEW p \in Goroutines, Update(p)
      PROVE  \A q \in Goroutines \ {p} : UNCHANGED <<pc[q], site[q], change[q]>>
  BY <1>4, UpdateProcs
<1>5. ASSUME NEW p \in Goroutines, Update(p),
             NEW n \in Nodes, row'[n] # None, row'[n].status = "PROVISIONING",
             crashes' = 0, failures' = 0, ~stale'[n]
      PROVE  \E r \in Runs : Busy(r, n)'
  <2>1. site[p] \in Nodes /\ change[p] \in Changes /\ (p \in Runs <=> change[p].op = "status")
    <3>1. pc[p] \in Updating
      BY <1>5 DEF Update, UpdateFile, Note, ReadRow, SaveRow, Updating
    <3> QED
      BY <1>0, <3>1 DEF Shape, Placed
  <2>2. failures = 0 /\ crashes = 0
    <3>1. UNCHANGED crashes /\ (failures' = failures \/ StorageFails)
      BY <1>5 DEF Update, UpdateFile, Note, ReadRow, SaveRow, Save
    <3> QED
      BY <1>5, <3>1, CountsGrow DEF Shape
  <2>3. CASE row[n] # None /\ row[n].status = "PROVISIONING" /\ ~stale[n]
             /\ ~(p \in Runs /\ site[p] = n)
    <3>1. PICK r \in Runs : Busy(r, n)
      BY <2>2, <2>3 DEF HasRun
    <3> QED
      BY <1>0, <1>4, <1>5, <2>3, <3>1 DEF Busy
  <2>4. CASE p \in Runs /\ site[p] = n
    <3>1. CASE UpdateFile(p)
      <4>1. row[n] # None
        BY <1>5, <2>4, <3>1 DEF UpdateFile
      <4>2. /\ row' = [row EXCEPT ![n] = Applied(row[n], change[p])]
            /\ Save(row')
            /\ IF Saved THEN pc' = [pc EXCEPT ![p] = "note"] /\ UNCHANGED <<site, change, copy, seen>>
               ELSE Leave(p)
        BY <2>4, <3>1, <4>1, Zenon DEF UpdateFile
      <4>3. pc' = [pc EXCEPT ![p] = "note"] /\ UNCHANGED <<site, change>>
        BY <1>5, <2>2, <4>2 DEF Saved
      <4>4. change[p].to = "PROVISIONING"
        <5>1. Applied(row[n], change[p]).status = change[p].to
          BY <2>1, <2>4, <4>1, AppliedType DEF Shape, TypeOK
        <5> QED
          BY <1>5, <4>2, <5>1 DEF Shape, TypeOK
      <4> QED
        BY <2>4, <4>3, <4>4 DEF Busy
    <3>2. CASE Note(p)
      <4>1. row' = row /\ pc[p] = "note" /\ Onward(p)
        BY <3>2 DEF Note
      <4>2. CASE change[p].to = "PROVISIONING"
        BY <2>4, <4>1, <4>2 DEF Onward, Busy, Shape, TypeOK
      <4>3. CASE change[p].to # "PROVISIONING"
        <5>1. stale' = stale
          BY <3>2 DEF Note, runVars
        <5>2. PICK r \in Runs : Busy(r, n)
          BY <1>5, <2>2, <4>1, <5>1 DEF HasRun
        <5>3. r # p
          BY <4>1, <4>3, <5>2 DEF Busy
        <5> QED
          BY <1>0, <1>4, <1>5, <5>2, <5>3 DEF Busy
      <4> QED
        BY <4>2, <4>3
    <3>3. CASE ReadRow(p)
      <4>1. row' = row /\ failures' = failures
        BY <1>5, <2>2, <3>3, CountsGrow DEF ReadRow, Shape
      <4>2. pc' = [pc EXCEPT ![p] = "save"] /\ UNCHANGED <<site, change>>
        <5>1. ~StorageFails
          BY <1>5, CountsGrow DEF Shape
        <5> QED
          BY <1>5, <2>4, <3>3, <4>1, <5>1 DEF ReadRow
      <4> QED
        BY <2>4, <4>2 DEF Busy, Shape, TypeOK
    <3>4. CASE SaveRow(p)
      <4>1. row' = [row EXCEPT ![n] = Applied(copy[p], change[p])] /\ Onward(p) /\ pc[p] = "save"
        <5>1. ~StorageFails
          BY <1>5, CountsGrow DEF Shape
        <5> QED
          BY <2>4, <3>4, <5>1 DEF SaveRow
      <4>2. change[p].to = "PROVISIONING"
        <5>1. Applied(copy[p], change[p]).status = change[p].to
          BY <2>1, <2>4, <4>1, AppliedType DEF Shape, Placed
        <5> QED
          BY <1>5, <4>1, <5>1 DEF Shape, TypeOK
      <4> QED
        BY <2>4, <4>1, <4>2 DEF Onward, Busy, Shape, TypeOK
    <3> QED
      BY <1>5, <3>1, <3>2, <3>3, <3>4 DEF Update
  <2>5. CASE ~(p \in Runs /\ site[p] = n) /\ ~stale[n]
    <3>1. row[n] # None /\ row[n].status = "PROVISIONING"
      <4>1. CASE site[p] # n
        <5>1. row'[n] = row[n]
          BY <1>5, <4>1 DEF Update, UpdateFile, Note, ReadRow, SaveRow, Shape, TypeOK
        <5> QED
          BY <1>5, <5>1
      <4>2. CASE site[p] = n /\ p \notin Runs
        <5>1. change[p].op = "assign"
          BY <2>1, <4>2 DEF Changes
        <5>2. row'[n] # row[n] =>
                \/ row[n] # None /\ row'[n] = Applied(row[n], change[p])
                \/ copy[p] = row[n] /\ copy[p] \in Node /\ row'[n] = Applied(copy[p], change[p])
          <6>1. CASE UpdateFile(p)
            BY <4>2, <6>1 DEF UpdateFile, Shape, TypeOK
          <6>2. CASE Note(p) \/ ReadRow(p)
            BY <6>2 DEF Note, ReadRow
          <6>3. CASE SaveRow(p)
            <7>1. copy[p] \in Node
              BY <6>3 DEF SaveRow, Shape, Placed
            <7>2. stale' = stale \/ copy[p] = row[n]
              <8>1. stale' = stale \/ stale' = [stale EXCEPT ![n] = @ \/ row[n] # copy[p]]
                BY <4>2, <6>3, Zenon DEF SaveRow
              <8> QED
                BY <1>5, <8>1 DEF Shape, TypeOK
            <7>3. row' = row \/ (/\ row' = [row EXCEPT ![n] = Applied(copy[p], change[p])]
                                 /\ stale' = [stale EXCEPT ![n] = @ \/ row[n] # copy[p]])
              BY <4>2, <6>3, Zenon DEF SaveRow
            <7>4. row' # row => row[n] = copy[p]
              BY <1>5, <7>3 DEF Shape, TypeOK
            <7> QED
              BY <7>1, <7>3, <7>4 DEF Shape, TypeOK
          <6> QED
            BY <1>5, <6>1, <6>2, <6>3 DEF Update
        <5> QED
          BY <1>5, <2>1, <5>1, <5>2, AppliedType DEF Shape, TypeOK
      <4> QED
        BY <2>5, <4>1, <4>2
    <3> QED
      BY <2>3, <2>5, <3>1
  <2>6. ~stale[n]
    <3>1. stale' = stale \/ stale' = [stale EXCEPT ![site[p]] = @ \/ row[site[p]] # copy[p]]
      BY <1>5, Zenon DEF Update, UpdateFile, Note, ReadRow, SaveRow, runVars
    <3> QED
      BY <1>5, <3>1 DEF Shape, TypeOK
  <2> QED
    BY <2>4, <2>5, <2>6
<1>6. ASSUME NEW r \in Runs, Upload(r) \/ Install(r)
      PROVE  HasRun'
  <2>1. /\ UNCHANGED <<row, stale, crashes, site>>
        /\ pc' = [pc EXCEPT ![r] = pc'[r]] /\ change' = [change EXCEPT ![r] = change'[r]]
        /\ pc'[r] # "note"
    BY <1>6, HostStep DEF Fail, Ask, Proceed, Shape, TypeOK
  <2>2. failures' = failures \/ failures' # 0
    BY <1>6, CountsGrow DEF Upload, Install, WriteEnv, Connect, PushCompose, Move, RestartUnit,
       Check, Logs, Save, Shape
  <2>3. ASSUME NEW q \in Runs, NEW n \in Nodes, Busy(q, n)
        PROVE  Busy(q, n)'
    BY <1>0, <2>1, <2>3 DEF Busy, Shape, TypeOK
  <2> QED
    BY <2>1, <2>2, <2>3 DEF HasRun
<1>7. ASSUME ServerRestarts
      PROVE  HasRun'
  BY <1>7 DEF ServerRestarts, HasRun, Shape, TypeOK
<1>8. ASSUME UNCHANGED vars
      PROVE  HasRun'
  BY <1>8 DEF vars, storeVars, procVars, runVars, HasRun, Busy
<1>9. ASSUME NEW p \in Goroutines, Update(p)
      PROVE  HasRun'
  BY <1>5, <1>9 DEF HasRun
<1> QED
  BY <1>1, <1>2, <1>3, <1>6, <1>7, <1>8, <1>9 DEF Next, Callers

(* Some run is at work on every PROVISIONING node, however many runs and   *)
(* editors there are, unless the server restarted, its storage failed or a *)
(* stale copy was saved.                                                   *)
THEOREM ProvisioningHasRunCorrect == Spec => []ProvisioningHasRun
<1>1. Init => HasRun
  BY DEF Init, HasRun
<1>2. Shape /\ HasRun => ProvisioningHasRun
  BY DEF Shape, TypeOK, HasRun, Busy, ProvisioningHasRun, AtWork
<1> QED
  BY <1>1, <1>2, HasRunStep, ShapeInvariant, PTL DEF Spec

-----------------------------------------------------------------------------
(* The stack a host runs.                                                  *)

(* A run that has not yet told what came of it.                            *)
Begun(r) == pc[r] \in OnTheHost \/ (pc[r] \in Updating /\ change[r].to = "PROVISIONING")

(* What the run r of the node has in its hands is what it read at first.   *)
InHand(r, n) ==
  /\ Begun(r) => owed[n] = {}
  /\ pc[r] = "move" => tmp[n] = Compose(seen[r])
  /\ pc[r] = "steps" => file[n] = Compose(seen[r])
  /\ pc[r] = "check" => loaded[n] = Compose(seen[r])

(* As long as the runs of a node do not overlap, the one at work finds its *)
(* own compose file at every step, and what the last run left is loaded.   *)
Stack ==
  \A n \in Nodes : ~shared[n] =>
    /\ \A p, q \in AtWork(n) : p = q
    /\ owed[n] \cap Served \subseteq loaded[n]
    /\ \A r \in AtWork(n) : InHand(r, n)

(* Stack is kept: the names in /tmp, the file and the unit pass from step  *)
(* to step of one run.                                                     *)
LEMMA StackStep ==
  ASSUME Shape, Stack, [Next]_vars
  PROVE  Stack'
<1> USE GoroutinesDisjoint, NoneIsNoValue DEF Goto
<1>0. /\ \A p \in Goroutines : pc[p] \in Updating \cup OnTheHost => site[p] \in Nodes
      /\ \A p \in Goroutines : pc[p] \notin Updating \cup OnTheHost => site[p] = None
      /\ \A r \in Runs : r \in Goroutines /\ r \notin Editors
  BY DEF Shape, TypeOK, Placed, Updating, OnTheHost, Goroutines
<1>1. ASSUME UNCHANGED <<hostVars, shared, owed>>,
             \A q \in Runs : UNCHANGED <<pc[q], site[q], change[q], seen[q]>>
      PROVE  Stack'
  <2>1. \A n \in Nodes : AtWork(n)' = AtWork(n)
    BY <1>1 DEF AtWork
  <2>2. \A n \in Nodes : \A q \in AtWork(n) : InHand(q, n) => InHand(q, n)'
    BY <1>1 DEF InHand, Begun, AtWork, Compose, hostVars
  <2> QED
    BY <1>1, <2>1, <2>2 DEF Stack, hostVars
<1>2. ASSUME NEW n \in Nodes, CreateFile(n) \/ CreateRow(n) \/ DeleteFile(n) \/ DeleteRow(n)
      PROVE  Stack'
  <2>1. UNCHANGED <<hostVars, shared, owed, procVars>>
    BY <1>2, CallerStep DEF Shape
  <2> QED
    BY <1>1, <2>1 DEF procVars
<1>3. ASSUME NEW e \in Editors, NEW n \in Nodes, Edit(e, n)
      PROVE  Stack'
  <2>1. \A q \in Runs : UNCHANGED <<pc[q], site[q], change[q], seen[q]>>
    BY <1>0, <1>3 DEF Edit, Shape, TypeOK
  <2> QED
    BY <1>1, <1>3, <2>1 DEF Edit, runVars
<1>4. ASSUME NEW r \in Runs, NEW n \in Nodes, StartRun(r, n)
      PROVE  Stack'
  <2>1. /\ site[r] = None /\ UNCHANGED hostVars
        /\ site' = [site EXCEPT ![r] = n] /\ pc' = [pc EXCEPT ![r] = "update"]
        /\ \A q \in Runs \ {r} : UNCHANGED <<pc[q], site[q], change[q], seen[q]>>
        /\ shared' = [shared EXCEPT ![n] = AtWork(n) # {}] /\ owed' = [owed EXCEPT ![n] = {}]
    BY <1>0, <1>4 DEF StartRun, Updating, OnTheHost, Shape, TypeOK
  <2>2. AtWork(n)' = AtWork(n) \cup {r} /\ \A k \in Nodes \ {n} : AtWork(k)' = AtWork(k)
    BY <1>0, <2>1 DEF AtWork, Shape, TypeOK
  <2>3. ASSUME NEW k \in Nodes \ {n}, ~shared'[k]
        PROVE  /\ \A p, q \in AtWork(k)' : p = q
               /\ owed'[k] \cap Served \subseteq loaded'[k]
               /\ \A q \in AtWork(k)' : InHand(q, k)'
    <3>1. ~shared[k] /\ UNCHANGED <<owed[k], loaded[k]>>
      BY <2>1, <2>3 DEF hostVars, Shape, TypeOK
    <3>2. \A q \in AtWork(k) : q # r /\ q \in Runs
      BY <2>1 DEF AtWork
    <3>3. \A q \in AtWork(k) : InHand(q, k) => InHand(q, k)'
      BY <2>1, <3>1, <3>2 DEF InHand, Begun, Compose, hostVars
    <3> QED
      BY <2>2, <3>1, <3>3 DEF Stack
  <2>4. ASSUME ~shared'[n]
        PROVE  /\ \A p, q \in AtWork(n)' : p = q
               /\ owed'[n] \cap Served \subseteq loaded'[n]
               /\ \A q \in AtWork(n)' : InHand(q, n)'
    <3>1. AtWork(n) = {}
      BY <2>1, <2>4, Zenon DEF Shape, TypeOK
    <3>2. AtWork(n)' = {r} /\ owed'[n] = {} /\ pc'[r] = "update"
      BY <1>0, <2>1, <2>2, <3>1 DEF Shape, TypeOK
    <3> QED
      BY <3>2 DEF InHand, Begun
  <2> QED
    BY <2>3, <2>4 DEF Stack
<1>5. ASSUME NEW p \in Goroutines, Update(p)
      PROVE  Stack'
  <2>1. /\ UNCHANGED <<hostVars, shared, owed>> /\ pc[p] \in Updating
        /\ \A q \in Runs \ {p} : UNCHANGED <<pc[q], site[q], change[q], seen[q]>>
        /\ \/ Leave(p)
           \/ /\ pc' = [pc EXCEPT ![p] = "connect"] /\ UNCHANGED <<site, seen>>
              /\ change[p].to = "PROVISIONING"
           \/ (\E l \in {"save", "note"} : pc' = [pc EXCEPT ![p] = l]) /\ UNCHANGED <<site, change, seen>>
    BY <1>0, <1>5, UpdateProcs
  <2>2. \A n \in Nodes : AtWork(n)' \subseteq AtWork(n)
    BY <1>0, <2>1 DEF Leave, AtWork, Shape, TypeOK
  <2>3. ASSUME NEW n \in Nodes, NEW q \in AtWork(n)', InHand(q, n)
        PROVE  InHand(q, n)'
    <3>1. q \in Runs /\ site'[q] = n
      BY DEF AtWork
    <3>2. CASE q # p
      BY <2>1, <2>3, <3>1, <3>2 DEF InHand, Begun, Compose, hostVars
    <3>3. CASE q = p
      <4>1. ~Leave(p)
        BY <1>0, <3>1, <3>3 DEF Leave, Shape, TypeOK
      <4>2. pc'[p] \in {"save", "note", "connect"} /\ (Begun(p)' => Begun(p))
        BY <1>0, <2>1, <3>1, <3>3, <4>1 DEF Begun, Updating, OnTheHost, Shape, TypeOK
      <4> QED
        BY <2>1, <2>3, <3>3, <4>2 DEF InHand
    <3> QED
      BY <3>2, <3>3
  <2> QED
    BY <2>1, <2>2, <2>3 DEF Stack, hostVars
<1>6. ASSUME NEW r \in Runs, Upload(r) \/ Install(r)
      PROVE  Stack'
  <2>0. PICK n \in Nodes : n = site[r]
    BY <1>6, HostStep
  <2>1. /\ n \in Nodes /\ pc[r] \in OnTheHost /\ r \in AtWork(n)
        /\ UNCHANGED <<shared, site, seen>>
        /\ \A q \in Runs \ {r} : UNCHANGED <<pc[q], change[q]>>
    BY <1>0, <1>6, <2>0, HostStep DEF OnTheHost, AtWork, Fail, Ask, Proceed, Shape, TypeOK
  <2>2. \A k \in Nodes \ {n} : UNCHANGED <<tmp[k], file[k], loaded[k], owed[k]>>
    BY <1>6, <2>0, <2>1 DEF Upload, Install, WriteEnv, PushCompose, Written, Move, RestartUnit, Check,
       Setup, Load, Shape, TypeOK
  <2>3. \A k \in Nodes : AtWork(k)' = AtWork(k)
    BY <2>1 DEF AtWork
  <2>4. ASSUME NEW k \in Nodes \ {n}
        PROVE  \A q \in AtWork(k) : InHand(q, k) => InHand(q, k)'
    BY <2>1, <2>2 DEF AtWork, InHand, Begun, Compose
  <2>5. ASSUME ~shared[n]
        PROVE  InHand(r, n)' /\ owed'[n] \cap Served \subseteq loaded'[n]
    <3>1. owed[n] = {} /\ InHand(r, n) /\ owed[n] \cap Served \subseteq loaded[n]
      BY <2>1, <2>5 DEF Stack, InHand, Begun
    <3>2. CASE WriteEnv(r)
      <4>1. pc'[r] \in {"push", "update"} /\ owed' = owed
        BY <1>0, <3>2 DEF WriteEnv, Connect, Proceed, Fail, Ask, Shape, TypeOK
      <4> QED
        BY <3>1, <4>1 DEF InHand
    <3>3. CASE PushCompose(r)
      <4>1. pc'[r] \in {"move", "steps", "update"} /\ owed' = owed
        BY <1>0, <3>3 DEF PushCompose, Proceed, Fail, Ask, Shape, TypeOK
      <4>2. pc'[r] # "update" => /\ Written(n, Compose(seen[r]))
                                  /\ pc'[r] = IF root[n] THEN "steps" ELSE "move"
        BY <1>0, <2>0, <3>3 DEF PushCompose, Proceed, Fail, Ask, Shape, TypeOK
      <4>3. /\ pc'[r] = "move" => tmp'[n] = Compose(seen[r])
            /\ pc'[r] = "steps" => file'[n] = Compose(seen[r])
        BY <2>1, <4>2 DEF Written, Shape, TypeOK
      <4>4. Compose(seen[r])' = Compose(seen[r])
        BY <2>1 DEF Compose
      <4> QED
        BY <3>1, <4>1, <4>3, <4>4 DEF InHand
    <3>4. CASE Move(r)
      <4>1. pc[r] = "move" /\ pc'[r] \in {"steps", "update"} /\ owed' = owed
        BY <1>0, <3>4 DEF Move, OnHost, Proceed, Fail, Ask, Shape, TypeOK
      <4>2. pc'[r] = "steps" => file'[n] = Compose(seen[r])
        BY <1>0, <2>0, <2>1, <3>1, <3>4, <4>1 DEF Move, InHand, Fail, Ask, Shape, TypeOK
      <4>3. Compose(seen[r])' = Compose(seen[r])
        BY <2>1 DEF Compose
      <4> QED
        BY <3>1, <4>1, <4>2, <4>3 DEF InHand
    <3>5. CASE RestartUnit(r)
      <4>1. pc[r] = "steps" /\ pc'[r] \in {"check", "update"} /\ owed' = owed
        BY <1>0, <3>5 DEF RestartUnit, OnHost, Proceed, Fail, Ask, Shape, TypeOK
      <4>2. pc'[r] = "check" => loaded'[n] = Compose(seen[r])
        BY <1>0, <2>0, <2>1, <3>1, <3>5, <4>1 DEF RestartUnit, InHand, Load, Fail, Ask, Shape, TypeOK
      <4>3. Compose(seen[r])' = Compose(seen[r])
        BY <2>1 DEF Compose
      <4> QED
        BY <3>1, <4>1, <4>2, <4>3 DEF InHand
    <3>6. CASE Check(r)
      <4>1. pc[r] = "check" /\ pc'[r] = "update" /\ loaded' = loaded
        BY <1>0, <3>6 DEF Check, OnHost, Fail, Ask, Shape, TypeOK
      <4>2. change'[r].to \in {"READY", "ERROR"}
        BY <1>0, <3>6 DEF Check, Fail, Ask, Shape, TypeOK
      <4>3. owed' = owed \/ owed' = [owed EXCEPT ![n] = seen[r]]
        BY <2>0, <3>6 DEF Check
      <4>4. loaded[n] = seen[r] \cap Served
        BY <3>1, <4>1 DEF InHand, Compose
      <4> QED
        BY <2>1, <3>1, <4>1, <4>2, <4>3, <4>4 DEF InHand, Begun, OnTheHost, Shape, TypeOK
    <3> QED
      BY <1>6, <3>2, <3>3, <3>4, <3>5, <3>6 DEF Upload, Install
  <2>6. ASSUME NEW k \in Nodes, ~shared'[k]
        PROVE  /\ \A p, q \in AtWork(k)' : p = q
               /\ owed'[k] \cap Served \subseteq loaded'[k]
               /\ \A q \in AtWork(k)' : InHand(q, k)'
    <3>1. CASE k = n
      BY <2>1, <2>3, <2>5, <2>6, <3>1 DEF Stack
    <3>2. CASE k # n
      BY <2>1, <2>2, <2>3, <2>4, <2>6, <3>2 DEF Stack
    <3> QED
      BY <3>1, <3>2
  <2> QED
    BY <2>6 DEF Stack
<1>7. ASSUME ServerRestarts
      PROVE  Stack'
  <2>1. \A n \in Nodes : AtWork(n)' = {}
    BY <1>0, <1>7 DEF ServerRestarts, AtWork
  <2> QED
    BY <1>7, <2>1 DEF ServerRestarts, Stack, hostVars, runVars
<1>8. ASSUME UNCHANGED vars
      PROVE  Stack'
  BY <1>1, <1>8 DEF vars, procVars, runVars
<1> QED
  BY <1>2, <1>3, <1>4, <1>5, <1>6, <1>7, <1>8 DEF Next, Callers

(* Stack holds in every state.                                             *)
LEMMA StackInvariant == Spec => []Stack
<1>1. Init => Stack
  BY NoneIsNoValue DEF Init, Stack, AtWork, Goroutines
<1> QED
  BY <1>1, StackStep, ShapeInvariant, PTL DEF Spec

(* A node that is found for a model its last run had read runs a stack     *)
(* with the service of that model: for every number of nodes, models and   *)
(* runs, with either store.                                                *)
THEOREM FoundCorrect == Spec => []FoundIsLoaded
<1>1. Stack => FoundIsLoaded
  BY DEF Stack, FoundIsLoaded, Candidates
<1> QED
  BY <1>1, StackInvariant, PTL

-----------------------------------------------------------------------------
(* What callers were told.                                                 *)

(* Nothing is known of a node before it is created.                        *)
Fresh ==
  \A n \in Nodes : life[n] = "unborn" =>
    row[n] = None /\ disk[n] = None /\ acked[n] = {} /\ \A p \in Goroutines : site[p] # n

(* Fresh is kept: what is not there is neither edited nor provisioned.     *)
LEMMA FreshStep ==
  ASSUME Shape, Fresh, [Next]_vars
  PROVE  Fresh'
<1> USE NoneIsNoValue, GoroutinesDisjoint DEF Fresh, Goto
<1>1. ASSUME NEW n \in Nodes, CreateFile(n) \/ CreateRow(n) \/ DeleteFile(n) \/ DeleteRow(n)
      PROVE  Fresh'
  <2>1. UNCHANGED site
    BY <1>1, CallerStep DEF Shape, procVars
  <2>2. ASSUME NEW k \in Nodes, life'[k] = "unborn"
        PROVE  life[k] = "unborn" /\ row'[k] = row[k] /\ acked'[k] = acked[k]
    BY <1>1, <2>2, CallerStep DEF Shape
  <2>3. disk' = disk \/ disk' = row'
    BY <1>1, CallerStep DEF Shape
  <2> QED
    BY <2>1, <2>2, <2>3
<1>2. ASSUME NEW p \in Goroutines, NEW n \in Nodes, Edit(p, n) \/ StartRun(p, n)
      PROVE  Fresh'
  <2>1. UNCHANGED <<storeVars, toldVars>> /\ site' = [site EXCEPT ![p] = n] /\ life[n] # "unborn"
    BY <1>2 DEF Edit, StartRun
  <2> QED
    BY <2>1 DEF storeVars, toldVars, Shape, TypeOK
<1>3. ASSUME NEW p \in Goroutines, Update(p)
      PROVE  Fresh'
  <2>1. \A q \in Goroutines : site'[q] = site[q] \/ site'[q] = None
    BY <1>3, UpdateProcs DEF Leave, Shape, TypeOK
  <2>2. PICK n \in Nodes : Stores(p, n)
    BY <1>3, UpdateRow
  <2>3. ASSUME NEW k \in Nodes, life'[k] = "unborn"
        PROVE  row'[k] = None /\ disk'[k] = None /\ acked'[k] = {} /\ k # n
    <3>1. life[k] = "unborn" /\ k # n
      BY <2>2, <2>3 DEF Stores
    <3>2. row'[k] = row[k]
      <4>1. row' = row \/ \E d \in Node : row' = [row EXCEPT ![n] = Applied(d, change[p])]
        BY <2>2 DEF Stores
      <4> QED
        BY <3>1, <4>1 DEF Shape, TypeOK
    <3>3. acked'[k] = acked[k]
      <4>1. acked' = acked \/ acked' = [acked EXCEPT ![n] = @ \cup {change[p].name}]
        BY <2>2 DEF Stores
      <4> QED
        BY <3>1, <4>1 DEF Shape, TypeOK
    <3>4. disk' = disk \/ disk' = row'
      BY <2>2 DEF Stores
    <3> QED
      BY <3>1, <3>2, <3>3, <3>4
  <2> QED
    BY <2>1, <2>2, <2>3 DEF Stores
<1>4. ASSUME NEW r \in Runs, Upload(r) \/ Install(r)
      PROVE  Fresh'
  <2>1. UNCHANGED <<row, toldVars, site>> /\ (disk' = disk \/ disk' = row)
    BY <1>4, HostStep DEF Fail, Ask, Proceed
  <2> QED
    BY <2>1 DEF toldVars
<1>5. ASSUME ServerRestarts \/ UNCHANGED vars
      PROVE  Fresh'
  BY <1>5 DEF ServerRestarts, vars, storeVars, procVars, toldVars
<1> QED
  BY <1>1, <1>2, <1>3, <1>4, <1>5 DEF Next, Callers, Goroutines

(* Fresh holds in every state.                                             *)
LEMMA FreshInvariant == Spec => []Fresh
<1>1. Init => Fresh
  BY NoneIsNoValue DEF Init, Fresh
<1> QED
  BY <1>1, FreshStep, ShapeInvariant, PTL DEF Spec

(* What is stored agrees with the answers about the node.                  *)
Holds(n, nodes) ==
  /\ life[n] = "known" => nodes[n] # None
  /\ life[n] = "deleted" => nodes[n] = None
  /\ acked[n] # {} => nodes[n] # None /\ acked[n] \subseteq nodes[n].assigned

(* AcknowledgedHolds is kept, and needs nothing but Fresh: the file is     *)
(* always one that agrees too, so that a restart may fall back on it.      *)
LEMMA AcknowledgedStep ==
  ASSUME Shape, Fresh, AcknowledgedHolds, [Next]_vars
  PROVE  AcknowledgedHolds'
<1> USE NoneIsNoValue, GoroutinesDisjoint DEF Goto
<1>0. ASSUME NEW n \in Nodes, ~stale[n]
      PROVE  Holds(n, row) /\ (kind = "file" => Holds(n, disk))
  BY <1>0 DEF AcknowledgedHolds, Holds
<1>1. ASSUME kind' = kind, \A n \in Nodes : stale[n] => stale'[n],
             \A n \in Nodes : ~stale'[n] => Holds(n, row)' /\ (kind = "file" => Holds(n, disk)')
      PROVE  AcknowledgedHolds'
  BY <1>1 DEF AcknowledgedHolds, Holds
<1>2. ASSUME NEW n \in Nodes, CreateFile(n) \/ CreateRow(n) \/ DeleteFile(n) \/ DeleteRow(n)
      PROVE  AcknowledgedHolds'
  <2>1. kind' = kind /\ \A k \in Nodes : stale[k] => stale'[k]
    BY <1>2, CallerStep DEF Shape
  <2>2. ASSUME NEW k \in Nodes \ {n}, ~stale'[k]
        PROVE  Holds(k, row)' /\ (kind = "file" => Holds(k, disk)')
    <3>1. ~stale[k] /\ UNCHANGED <<row[k], life[k], acked[k]>> /\ (disk' = disk \/ disk' = row')
      BY <1>2, <2>2, CallerStep DEF Shape
    <3> QED
      BY <1>0, <3>1 DEF Holds
  <2>3. ASSUME ~stale'[n]
        PROVE  Holds(n, row)' /\ (kind = "file" => Holds(n, disk)')
    <3>1. CASE CreateFile(n)
      <4>1. PICK models \in SUBSET Names :
              /\ row' = [row EXCEPT ![n] = [status |-> "PENDING", assigned |-> models]]
              /\ Save(row')
              /\ life' = [life EXCEPT ![n] = IF Saved THEN "known" ELSE "unsure"]
              /\ acked' = IF Saved THEN [acked EXCEPT ![n] = models] ELSE acked
        BY <3>1 DEF CreateFile
      <4>2. acked[n] = {} /\ acked \in [Nodes -> SUBSET Names] /\ life \in [Nodes -> {"unborn", "known", "unsure", "deleted"}]
            /\ row \in [Nodes -> Node \cup {None}]
        BY <3>1 DEF CreateFile, Fresh, Shape, TypeOK
      <4>3. [status |-> "PENDING", assigned |-> models] \in Node
        BY DEF Node, Status
      <4>4. row'[n] = [status |-> "PENDING", assigned |-> models] /\ row'[n] # None
        BY <4>1, <4>2, <4>3
      <4>5. CASE Saved
        <5>1. disk' = row'
          BY <4>1, <4>5 DEF Save, Saved, StorageFails, Shape, TypeOK
        <5>2. life'[n] = "known" /\ acked'[n] = models
          BY <4>1, <4>2, <4>5
        <5> QED
          BY <4>4, <5>1, <5>2 DEF Holds
      <4>6. CASE ~Saved
        <5>1. life'[n] = "unsure" /\ acked'[n] = {}
          BY <4>1, <4>2, <4>6
        <5> QED
          BY <5>1 DEF Holds
      <4> QED
        BY <4>5, <4>6
    <3>2. CASE CreateRow(n)
      <4>1. kind' = "postgres" /\ kind = "postgres"
        BY <3>2 DEF CreateRow
      <4>2. CASE UNCHANGED <<row, stale, life, acked>>
        BY <1>0, <2>3, <4>1, <4>2 DEF Holds
      <4>3. ASSUME NEW node \in Node, row' = [row EXCEPT ![n] = node],
                   life' = [life EXCEPT ![n] = "known"],
                   acked' = [acked EXCEPT ![n] = node.assigned]
            PROVE  Holds(n, row)'
        BY <4>3 DEF Holds, Shape, TypeOK
      <4> QED
        BY <3>2, <4>1, <4>2, <4>3 DEF CreateRow
    <3>3. CASE DeleteFile(n)
      BY <3>3 DEF Holds, DeleteFile, Saved, Save, StorageFails, Shape, TypeOK
    <3>4. CASE DeleteRow(n)
      BY <3>4 DEF Holds, DeleteRow, Shape, TypeOK
    <3> QED
      BY <1>2, <3>1, <3>2, <3>3, <3>4
  <2>4. \A k \in Nodes : ~stale'[k] => Holds(k, row)' /\ (kind = "file" => Holds(k, disk)')
    BY <2>2, <2>3
  <2> QED
    BY <1>1, <2>1, <2>4
<1>3. ASSUME NEW p \in Goroutines, NEW n \in Nodes, Edit(p, n) \/ StartRun(p, n)
      PROVE  AcknowledgedHolds'
  BY <1>3 DEF Edit, StartRun, storeVars, toldVars, runVars, AcknowledgedHolds
<1>4. ASSUME NEW p \in Goroutines, Update(p)
      PROVE  AcknowledgedHolds'
  <2>1. PICK n \in Nodes : Stores(p, n)
    BY <1>4, UpdateRow
  <2>2. ASSUME NEW k \in Nodes, ~stale'[k]
        PROVE  /\ row'[k] = row[k] \/ (row[k] \in Node /\ row'[k] \in Node
                                       /\ row[k].assigned \subseteq row'[k].assigned)
    <3>1. CASE row' = row
      BY <3>1
    <3>2. ASSUME NEW d \in Node, row' = [row EXCEPT ![n] = Applied(d, change[p])],
                 d = row[n] \/ stale'[n]
          PROVE  \/ row'[k] = row[k]
                 \/ /\ row[k] \in Node /\ row'[k] \in Node
                    /\ row[k].assigned \subseteq row'[k].assigned
      <4>1. Applied(d, change[p]) \in Node /\ d.assigned \subseteq Applied(d, change[p]).assigned
        BY <2>1, AppliedType DEF Stores
      <4> QED
        BY <2>2, <3>2, <4>1 DEF Shape, TypeOK
    <3>3. row' = row \/ \E d \in Node : /\ row' = [row EXCEPT ![n] = Applied(d, change[p])]
                                        /\ d = row[n] \/ stale'[n]
      BY <2>1 DEF Stores
    <3> QED
      BY <3>1, <3>2, <3>3
  <2>3. ASSUME NEW k \in Nodes, ~stale'[k]
        PROVE  Holds(k, row)'
    <3>1. Holds(k, row) /\ life' = life
      BY <1>0, <2>1, <2>3 DEF Stores
    <3>2. acked'[k] = acked[k]
          \/ (acked'[k] = acked[k] \cup {change[p].name} /\ row'[k] \in Node
              /\ change[p].name \in row'[k].assigned)
      BY <2>1 DEF Stores, Shape, TypeOK
    <3> QED
      BY <2>2, <2>3, <3>1, <3>2 DEF Holds
  <2>4. ASSUME NEW k \in Nodes, ~stale'[k], kind = "file"
        PROVE  Holds(k, disk)'
    <3>1. CASE disk' = row'
      BY <2>3, <2>4, <3>1 DEF Holds
    <3>2. CASE disk' = disk /\ acked' = acked
      BY <1>0, <2>1, <2>4, <3>2 DEF Stores, Holds
    <3> QED
      BY <2>1, <2>4, <3>1, <3>2 DEF Stores
  <2> QED
    BY <1>1, <2>1, <2>3, <2>4 DEF Stores
<1>5. ASSUME NEW r \in Runs, Upload(r) \/ Install(r)
      PROVE  AcknowledgedHolds'
  <2>1. UNCHANGED <<kind, row, toldVars, stale>> /\ (disk' = disk \/ disk' = row)
    BY <1>5, HostStep
  <2> QED
    BY <2>1 DEF toldVars, AcknowledgedHolds
<1>6. ASSUME ServerRestarts \/ UNCHANGED vars
      PROVE  AcknowledgedHolds'
  BY <1>6 DEF ServerRestarts, vars, storeVars, toldVars, runVars, AcknowledgedHolds
<1> QED
  BY <1>2, <1>3, <1>4, <1>5, <1>6 DEF Next, Callers, Goroutines

(* What a caller was told of a node is so, over every interleaving of      *)
(* editors and runs, every error of the storage and every restart.         *)
THEOREM AcknowledgedCorrect == Spec => []AcknowledgedHolds
<1>1. Init => AcknowledgedHolds
  BY DEF Init, AcknowledgedHolds
<1> QED
  BY <1>1, AcknowledgedStep, FreshInvariant, ShapeInvariant, PTL DEF Spec

-----------------------------------------------------------------------------
(* The status a run shows.                                                 *)

(* Between the status it stores first and the one it stores last.          *)
Provisioning(r) ==
  \/ pc[r] \in OnTheHost
  \/ pc[r] \in {"update", "save"} /\ change[r].to # "PROVISIONING"
  \/ pc[r] = "note" /\ change[r].to = "PROVISIONING"

(* A node shows the run at work on it, unless another was there, or a      *)
(* stale copy hid it.                                                      *)
Shown ==
  \A n \in Nodes : \A r \in AtWork(n) :
    Provisioning(r) /\ ~shared[n] /\ ~stale[n] => row[n] = None \/ row[n].status = "PROVISIONING"

(* A row with a new status got it from the change of a run.                *)
LEMMA UpdateStatus ==
  ASSUME Shape, NEW p \in Goroutines, NEW n \in Nodes, Update(p), Stores(p, n),
         NEW k \in Nodes, ~stale'[k], row'[k] # None
  PROVE  /\ row[k] # None
         /\ \/ row'[k].status = row[k].status
            \/ k = n /\ p \in Runs /\ row'[k].status = change[p].to
<1> USE NoneIsNoValue
<1>1. CASE row' = row
  BY <1>1
<1>2. ASSUME NEW d \in Node, row' = [row EXCEPT ![n] = Applied(d, change[p])], d = row[n] \/ stale'[n]
      PROVE  /\ row[k] # None
             /\ \/ row'[k].status = row[k].status
                \/ k = n /\ p \in Runs /\ row'[k].status = change[p].to
  <2>1. k # n => row'[k] = row[k]
    BY <1>2 DEF Shape, TypeOK
  <2>2. k = n => row'[k] = Applied(row[k], change[p]) /\ row[k] \in Node
    BY <1>2 DEF Shape, TypeOK
  <2>3. k = n => row'[k].status = row[k].status \/ (p \in Runs /\ row'[k].status = change[p].to)
    <3>1. change[p] \in Changes /\ (p \in Runs <=> change[p].op = "status")
      BY DEF Stores
    <3>2. change[p].op \in {"status", "assign"}
      BY <3>1 DEF Changes
    <3> QED
      BY <2>2, <3>1, <3>2, AppliedType
  <2> QED
    BY <2>1, <2>2, <2>3
<1>3. row' = row \/ \E d \in Node : /\ row' = [row EXCEPT ![n] = Applied(d, change[p])]
                                    /\ d = row[n] \/ stale'[n]
  BY DEF Stores
<1> QED
  BY <1>1, <1>2, <1>3

(* Shown is kept: a run alone at work on a node is told of before it       *)
(* connects, and nobody else writes a status.                              *)
LEMMA ShownStep ==
  ASSUME Shape, Fresh, Stack, Shown, [Next]_vars
  PROVE  Shown'
<1> USE NoneIsNoValue, GoroutinesDisjoint DEF Goto
<1>0. /\ \A p \in Goroutines : pc[p] \in Updating \cup OnTheHost => site[p] \in Nodes
      /\ \A p \in Goroutines : pc[p] \notin Updating \cup OnTheHost => site[p] = None
      /\ \A r \in Runs : r \in Goroutines /\ r \notin Editors
  BY DEF Shape, TypeOK, Placed, Updating, OnTheHost, Goroutines
<1>1. ASSUME NEW n \in Nodes, CreateFile(n) \/ CreateRow(n) \/ DeleteFile(n) \/ DeleteRow(n)
      PROVE  Shown'
  <2>1. UNCHANGED <<procVars, shared>>
    BY <1>1, CallerStep DEF Shape
  <2>2. ASSUME NEW k \in Nodes, NEW r \in AtWork(k), ~stale'[k]
        PROVE  ~stale[k] /\ (row'[k] = row[k] \/ row'[k] = None)
    <3>1. life[k] # "unborn"
      BY <1>0 DEF Fresh, AtWork
    <3> QED
      BY <1>1, <2>2, <3>1, CallerStep DEF Shape
  <2> QED
    BY <2>1, <2>2 DEF Shown, Provisioning, AtWork, procVars
<1>2. ASSUME NEW e \in Editors, NEW n \in Nodes, Edit(e, n)
      PROVE  Shown'
  <2>1. /\ UNCHANGED <<row, runVars>>
        /\ \A q \in Runs : UNCHANGED <<pc[q], site[q], change[q]>>
    BY <1>0, <1>2 DEF Edit, storeVars, Shape, TypeOK
  <2> QED
    BY <2>1 DEF Shown, Provisioning, AtWork, runVars
<1>3. ASSUME NEW r \in Runs, NEW n \in Nodes, StartRun(r, n)
      PROVE  Shown'
  <2>1. /\ UNCHANGED <<row, stale>> /\ ~Provisioning(r)'
        /\ \A q \in Runs \ {r} : UNCHANGED <<pc[q], site[q], change[q]>>
        /\ shared' = [shared EXCEPT ![n] = AtWork(n) # {}]
    BY <1>0, <1>3 DEF StartRun, storeVars, Provisioning, OnTheHost, Shape, TypeOK
  <2>2. ~shared'[n] => AtWork(n) = {}
    BY <2>1, Zenon DEF Shape, TypeOK
  <2>3. \A k \in Nodes \ {n} : shared'[k] = shared[k]
    BY <2>1 DEF Shape, TypeOK
  <2> QED
    BY <2>1, <2>2, <2>3 DEF Shown, Provisioning, AtWork
<1>4. ASSUME NEW p \in Goroutines, Update(p)
      PROVE  Shown'
  <2>1. PICK n \in Nodes : Stores(p, n)
    BY <1>4, UpdateRow
  <2>2. SUFFICES ASSUME NEW k \in Nodes, NEW r \in AtWork(k)', Provisioning(r)',
                        ~shared'[k], ~stale'[k], row'[k] # None
                 PROVE  row'[k].status = "PROVISIONING"
    BY DEF Shown
  <2>3. /\ r \in Runs /\ r \in AtWork(k) /\ ~shared[k] /\ ~stale[k] /\ n = site[p]
        /\ (r # p => UNCHANGED <<pc[r], change[r]>>)
        /\ (r = p => ~Leave(p))
    <3>1. r \in Runs /\ site'[r] = k
      BY DEF AtWork
    <3>2. ~shared[k] /\ ~stale[k] /\ n = site[p]
      BY <1>4, <2>1, <2>2, UpdateProcs DEF Stores
    <3>3. CASE r # p
      BY <1>0, <1>4, <3>1, <3>2, <3>3, UpdateProcs DEF AtWork
    <3>4. CASE r = p
      <4>1. ~Leave(p)
        BY <1>0, <3>1, <3>4 DEF Leave, Shape, TypeOK
      <4> QED
        BY <1>4, <3>1, <3>2, <3>4, <4>1, UpdateProcs DEF AtWork
    <3> QED
      BY <3>3, <3>4
  <2>4. /\ row[k] # None
        /\ \/ row'[k].status = row[k].status
           \/ k = n /\ p \in Runs /\ row'[k].status = change[p].to
    BY <1>4, <2>1, <2>2, UpdateStatus
  <2>5. p \in Runs /\ n = k => r = p
    BY <2>3 DEF Stack, AtWork
  <2>6. CASE r # p
    <3>1. Provisioning(r)
      BY <2>2, <2>3, <2>6 DEF Provisioning
    <3> QED
      BY <2>3, <2>4, <2>5, <2>6, <3>1 DEF Shown
  <2>7. CASE r = p /\ Provisioning(p)
    <3>1. row[k].status = "PROVISIONING"
      BY <2>3, <2>4, <2>7 DEF Shown
    <3>2. CASE row'[k].status = row[k].status
      BY <3>1, <3>2
    <3>3. CASE row'[k].status # row[k].status
      <4>1. pc[p] \in {"update", "save"}
        BY <1>4, <3>3 DEF Update, UpdateFile, Note, ReadRow, SaveRow
      <4>2. CASE UpdateFile(p)
        <5>1. pc'[p] = "note" /\ UNCHANGED change
          BY <1>0, <2>3, <2>7, <4>2 DEF UpdateFile, Shape, TypeOK
        <5> QED
          BY <2>2, <2>4, <2>7, <3>3, <5>1 DEF Provisioning, OnTheHost
      <4>3. CASE SaveRow(p)
        BY <2>3, <2>4, <2>7, <3>3, <4>3 DEF SaveRow, Onward
      <4> QED
        BY <1>4, <3>3, <4>2, <4>3 DEF Update, Note, ReadRow
    <3> QED
      BY <3>2, <3>3
  <2>8. CASE r = p /\ ~Provisioning(p)
    <3>1. CASE UpdateFile(p)
      <4>1. /\ pc[p] = "update" /\ pc'[p] = "note" /\ UNCHANGED change
            /\ site[p] = k /\ row' = [row EXCEPT ![k] = Applied(row[k], change[p])]
        BY <1>0, <2>3, <2>4, <2>8, <3>1 DEF UpdateFile, AtWork, Shape, TypeOK
      <4>2. change[p].to = "PROVISIONING"
        BY <2>8, <4>1 DEF Provisioning
      <4>3. Applied(row[k], change[p]).status = change[p].to
        BY <2>1, <2>3, <2>4, <2>8, AppliedType DEF Stores, Shape, TypeOK
      <4> QED
        BY <4>1, <4>2, <4>3 DEF Shape, TypeOK
    <3>2. CASE Note(p)
      BY <2>3, <2>8, <3>2 DEF Note, Onward, Provisioning
    <3>3. CASE ReadRow(p)
      <4>1. pc[p] = "update" /\ pc'[p] = "save" /\ UNCHANGED change
        BY <1>0, <2>3, <2>8, <3>3 DEF ReadRow, Shape, TypeOK
      <4> QED
        BY <2>2, <2>8, <4>1 DEF Provisioning, OnTheHost
    <3>4. CASE SaveRow(p)
      <4>1. /\ pc[p] = "save" /\ change[p].to = "PROVISIONING" /\ site[p] = k
            /\ row' = [row EXCEPT ![k] = Applied(copy[p], change[p])]
        BY <2>3, <2>8, <3>4 DEF SaveRow, Onward, AtWork
      <4>2. Applied(copy[p], change[p]).status = change[p].to
        BY <2>1, <2>3, <2>8, <4>1, AppliedType DEF Stores, Shape, Placed
      <4> QED
        BY <4>1, <4>2 DEF Shape, TypeOK
    <3> QED
      BY <1>4, <3>1, <3>2, <3>3, <3>4 DEF Update
  <2> QED
    BY <2>6, <2>7, <2>8
<1>5. ASSUME NEW r \in Runs, Upload(r) \/ Install(r)
      PROVE  Shown'
  <2>1. /\ UNCHANGED <<row, stale, shared, site>> /\ Provisioning(r)
        /\ \A q \in Runs \ {r} : UNCHANGED <<pc[q], change[q]>>
    BY <1>0, <1>5, HostStep DEF Provisioning, OnTheHost, Fail, Ask, Proceed, Shape, TypeOK
  <2> QED
    BY <2>1 DEF Shown, Provisioning, AtWork
<1>6. ASSUME ServerRestarts
      PROVE  Shown'
  <2>1. \A n \in Nodes : AtWork(n)' = {}
    BY <1>0, <1>6 DEF ServerRestarts, AtWork
  <2> QED
    BY <2>1 DEF Shown
<1>7. ASSUME UNCHANGED vars
      PROVE  Shown'
  BY <1>7 DEF vars, storeVars, procVars, runVars, Shown, Provisioning, AtWork
<1> QED
  BY <1>1, <1>2, <1>3, <1>4, <1>5, <1>6, <1>7 DEF Next, Callers

(* Shown holds in every state.                                             *)
LEMMA ShownInvariant == Spec => []Shown
<1>1. Init => Shown
  BY NoneIsNoValue DEF Init, Shown, AtWork, Goroutines
<1> QED
  BY <1>1, ShownStep, ShapeInvariant, FreshInvariant, StackInvariant, PTL DEF Spec

(* The documented life of a node, for every number of runs and editors:    *)
(* only overlapping runs, a stale copy or a restart takes it elsewhere.    *)
THEOREM StatusCorrect == Spec => StatusMovesAsDocumented
<1>1. ASSUME Shape, Fresh, Stack, Shown, [Next]_vars, NEW n \in Nodes,
             row[n] # None, row'[n] # None, row'[n].status # row[n].status,
             row'[n].status # "PROVISIONING", ~shared[n], ~stale'[n], crashes' = crashes
      PROVE  row[n].status = "PROVISIONING" /\ row'[n].status \in {"READY", "ERROR"}
  <2>1. PICK p \in Goroutines : Update(p)
    <3>1. ASSUME NEW k \in Nodes, CreateFile(k) \/ CreateRow(k) \/ DeleteFile(k) \/ DeleteRow(k)
          PROVE  FALSE
      <4>1. row'[n] = row[n] \/ (n = k /\ life[n] = "unborn")
        BY <1>1, <3>1, CallerStep DEF Shape
      <4> QED
        BY <1>1, <4>1 DEF Fresh
    <3>2. row' # row
      BY <1>1
    <3>3. ~ServerRestarts
      BY <1>1 DEF ServerRestarts, Shape, TypeOK
    <3>4. ASSUME NEW r \in Runs
          PROVE  ~(Upload(r) \/ Install(r))
      BY <1>1, <3>2, HostStep
    <3> QED
      BY <1>1, <3>1, <3>2, <3>3, <3>4 DEF Next, Callers, Edit, StartRun, vars, storeVars
  <2>2. PICK k \in Nodes : Stores(p, k)
    BY <1>1, <2>1, UpdateRow
  <2>3. n = k /\ p \in Runs /\ row'[n].status = change[p].to
    BY <1>1, <2>1, <2>2, UpdateStatus
  <2>4. site[p] = n /\ change[p] \in Changes /\ change[p].op = "status" /\ ~stale[n]
    BY <1>1, <2>2, <2>3 DEF Stores
  <2>5. pc[p] \in {"update", "save"}
    BY <1>1, <2>1 DEF Update, UpdateFile, Note, ReadRow, SaveRow
  <2>6. row[n].status = "PROVISIONING"
    BY <1>1, <2>3, <2>4, <2>5 DEF Shown, Provisioning, AtWork
  <2>7. change[p].to \in Status \ {"PENDING"}
    BY <2>4 DEF Changes
  <2> QED
    BY <1>1, <2>3, <2>6, <2>7 DEF Status
<1>2. ASSUME Shape, Fresh, Stack, Shown, [Next]_vars
      PROVE  [\A n \in Nodes :
                \/ row[n] = None \/ row'[n] = None \/ row'[n].status = row[n].status
                \/ row'[n].status = "PROVISIONING"
                \/ row[n].status = "PROVISIONING" /\ row'[n].status \in {"READY", "ERROR"}
                \/ shared[n] \/ stale'[n] \/ crashes' # crashes]_vars
  BY <1>1, <1>2
<1> QED
  BY <1>2, ShapeInvariant, FreshInvariant, StackInvariant, ShownInvariant, PTL
     DEF Spec, StatusMovesAsDocumented
=============================================================================
