---------------------------- MODULE ControlPlane ----------------------------
(***************************************************************************)
(* The control plane library (pkg/controlplane): a store of nodes, kept    *)
(* either in one JSON file (Store) or in Postgres (PostgresStore), and the *)
(* provisioner that installs the runner stack of a node over SSH.          *)
(*                                                                         *)
(* The callers are goroutines of one server: editors, which create, assign *)
(* and delete, and provisioning runs.  Every change of a node follows the  *)
(* same protocol, Update: under the mutex for the file, and as a read, a   *)
(* change of the copy and an upsert - with no transaction - for Postgres.  *)
(* Credentials, versions and events are left out of the node; that an      *)
(* event saves the whole file is not.                                      *)
(***************************************************************************)
EXTENDS Naturals, FiniteSets

CONSTANTS
  Nodes, Names,             \* node ids; model names that differ in more than case
  Served,                   \* the names composeForNode has a service for
  Runs, Editors,            \* goroutines of provision, and of the other callers
  None,
  MaxMishaps                \* bound: restarts of the server and errors of its storage

ASSUME ServedAreNames == Served \subseteq Names
ASSUME GoroutinesDisjoint == Runs \cap Editors = {}
ASSUME RunsAreNumbered == Runs \subseteq Nat    \* in the order they start
ASSUME BoundsAreCounts == MaxMishaps \in Nat

VARIABLES
  kind,       \* which store the server was built with
  row,        \* nodes: the map in memory, or the table
  disk,       \* nodes: the file (unused with Postgres)
  pc, site, change, copy,   \* a goroutine's place, node, change, and copy of the row
  seen,       \* the models of the node as a run read them
  root, account, tmp, file, loaded,  \* a host: SSH user is root; the service
              \* account exists; the uploaded and the installed compose file;
              \* the one the unit was last started with
  life, acked,              \* history: what callers were told of a node
  shared, stale, owed,      \* history: runs overlapped; a save overwrote a newer
              \* row, or a caller registered an id again or with a status of
              \* its own; the models of the run that last passed its check
  crashes, failures

storeVars == <<kind, row, disk, failures>>
procVars == <<pc, site, change, copy, seen>>
hostVars == <<root, account, tmp, file, loaded>>
toldVars == <<life, acked>>
runVars == <<shared, stale, owed>>
vars == <<storeVars, procVars, hostVars, toldVars, runVars, crashes>>

Goroutines == Runs \cup Editors
Status == {"PENDING", "PROVISIONING", "READY", "ERROR"}
Node == [status : Status, assigned : SUBSET Names]

ASSUME NoneIsNoValue == None \notin Nodes \cup Node

Changes ==
  [op : {"status"}, to : Status \ {"PENDING"}]
    \cup [op : {"assign"}, name : Names]

Content == SUBSET Served       \* of a compose file; no file is as good as an empty one

TypeOK ==
  /\ kind \in {"file", "postgres"}
  /\ row \in [Nodes -> Node \cup {None}] /\ disk \in [Nodes -> Node \cup {None}]
  /\ pc \in [Goroutines -> {"idle", "done", "update", "save", "note", "connect", "push",
                            "move", "steps", "check"}]
  /\ site \in [Goroutines -> Nodes \cup {None}]
  /\ change \in [Goroutines -> Changes \cup {None}]
  /\ copy \in [Goroutines -> Node \cup {None}]
  /\ seen \in [Runs -> SUBSET Names]
  /\ root \in [Nodes -> BOOLEAN] /\ account \in [Nodes -> BOOLEAN]
  /\ tmp \in [Nodes -> Content \cup {None}] /\ file \in [Nodes -> Content] /\ loaded \in [Nodes -> Content]
  /\ life \in [Nodes -> {"unborn", "known", "unsure", "deleted"}]
  /\ acked \in [Nodes -> SUBSET Names]
  /\ shared \in [Nodes -> BOOLEAN] /\ stale \in [Nodes -> BOOLEAN]
  /\ owed \in [Nodes -> SUBSET Names]
  /\ crashes \in 0..MaxMishaps /\ failures \in 0..MaxMishaps

Init ==
  /\ kind \in {"file", "postgres"}
  /\ row = [n \in Nodes |-> None] /\ disk = [n \in Nodes |-> None]
  /\ pc = [p \in Goroutines |-> "idle"] /\ site = [p \in Goroutines |-> None]
  /\ change = [p \in Goroutines |-> None] /\ copy = [p \in Goroutines |-> None]
  /\ seen = [r \in Runs |-> {}]
  /\ root \in [Nodes -> BOOLEAN] /\ account \in [Nodes -> BOOLEAN]
  /\ \A n \in Nodes : root[n] => ~account[n]   \* root needs none
  /\ tmp = [n \in Nodes |-> None] /\ file = [n \in Nodes |-> {}]
  /\ loaded = [n \in Nodes |-> {}]
  /\ life = [n \in Nodes |-> "unborn"] /\ acked = [n \in Nodes |-> {}]
  /\ shared = [n \in Nodes |-> FALSE] /\ stale = [n \in Nodes |-> FALSE]
  /\ owed = [n \in Nodes |-> {}]
  /\ crashes = 0 /\ failures = 0

-----------------------------------------------------------------------------
(* The nodes and what a change makes of one.                               *)

(* Mutant: the model is added before its name is known.                    *)
AddUnnamed(d, m) == [d EXCEPT !.assigned = @ \cup {None}]

(* UpsertAssignment: the assignment of that model is replaced or added,    *)
(* and with it the model (the two stores share the text).                  *)
WithAssignment(d, m) == [d EXCEPT !.assigned = @ \cup {m}]

(* UpdateStatus, UpsertAssignment.                                         *)
Applied(d, c) ==
  CASE c.op = "status" -> [d EXCEPT !.status = c.to]
    [] OTHER -> WithAssignment(d, c.name)

(* FindAssignmentForModel: the nodes it chooses from.                      *)
Candidates(m) ==
  {n \in Nodes : row[n] # None /\ row[n].status = "READY" /\ m \in row[n].assigned}

(* composeForNode: the services of the stack.                              *)
Compose(models) == models \cap Served

AtWork(n) == {r \in Runs : site[r] = n}

-----------------------------------------------------------------------------
(* Steps of a goroutine.                                                   *)

Goto(p, l) == pc' = [pc EXCEPT ![p] = l]

Ended(p) == IF p \in Runs THEN "done" ELSE "idle"

Leave(p) ==
  /\ Goto(p, Ended(p))
  /\ site' = [site EXCEPT ![p] = None]
  /\ change' = [change EXCEPT ![p] = None]
  /\ copy' = [copy EXCEPT ![p] = None]
  /\ seen' = [r \in Runs |-> IF r = p THEN {} ELSE seen[r]]

Ask(p, c) ==
  /\ Goto(p, "update")
  /\ change' = [change EXCEPT ![p] = c]
  /\ UNCHANGED <<site, copy, seen>>

(* Mutant: the error is logged only.                                       *)
FailSilently(r) ==
  /\ Leave(r)

(* fail: the error becomes the status of the node.                         *)
Fail(r) == Ask(r, [op |-> "status", to |-> "ERROR"])

StorageFails == failures + crashes < MaxMishaps /\ failures' = failures + 1

(* Mutant: save writes the file as it was read at the start.               *)
NotSaved(nodes) ==
  \/ disk' = disk /\ UNCHANGED failures
  \/ StorageFails /\ UNCHANGED disk

(* save: all nodes, to a temporary file that is then renamed - or an       *)
(* error and the old file.                                                 *)
Save(nodes) ==
  \/ disk' = nodes /\ UNCHANGED failures
  \/ StorageFails /\ UNCHANGED disk

Saved == UNCHANGED failures

(* Mutant: the caller is told of success before the change is stored.      *)
AnsweredEarly(p, ok) ==
  LET n == site[p]  c == change[p] IN
  /\ acked' = IF c.op = "assign" THEN [acked EXCEPT ![n] = @ \cup {c.name}] ELSE acked
  /\ UNCHANGED life

(* The caller has its answer: what it may rely on from now on.             *)
Answered(p, ok) ==
  LET n == site[p]  c == change[p] IN
  /\ acked' = IF ok /\ c.op = "assign" THEN [acked EXCEPT ![n] = @ \cup {c.name}] ELSE acked
  /\ UNCHANGED life

(* After UpdateStatus: a run goes on once it is PROVISIONING, and returns  *)
(* after READY, ERROR or an error of the store.                            *)
Onward(p) ==
  IF p \in Runs /\ change[p].to = "PROVISIONING"
  THEN /\ Goto(p, "connect")
       /\ change' = [change EXCEPT ![p] = None]
       /\ copy' = [copy EXCEPT ![p] = None]
       /\ UNCHANGED <<site, seen>>
  ELSE Leave(p)

(* Store.updateNode, under the mutex: when the save fails the map keeps    *)
(* the change.                                                             *)
UpdateFile(p) ==
  LET n == site[p] IN
  /\ kind = "file" /\ pc[p] = "update"
  /\ IF row[n] = None
     THEN Leave(p) /\ UNCHANGED <<row, disk, failures, toldVars>>
     ELSE /\ row' = [row EXCEPT ![n] = Applied(row[n], change[p])]
          /\ Save(row')
          /\ Answered(p, Saved)
          /\ IF Saved /\ p \in Runs THEN Goto(p, "note") /\ UNCHANGED <<site, change, copy, seen>>
             ELSE Leave(p)
  /\ UNCHANGED <<kind, hostVars, runVars, crashes>>

(* Store.appendEvent after it, in a lock section of its own: its save is   *)
(* not checked.                                                            *)
Note(p) ==
  /\ pc[p] = "note"
  /\ Save(row)
  /\ Onward(p)
  /\ UNCHANGED <<kind, row, hostVars, toldVars, runVars, crashes>>

(* PostgresStore.UpdateNode: GetNode ...                                   *)
ReadRow(p) ==
  LET n == site[p] IN
  /\ kind = "postgres" /\ pc[p] = "update"
  /\ \/ /\ row[n] # None
        /\ copy' = [copy EXCEPT ![p] = row[n]]
        /\ Goto(p, "save")
        /\ UNCHANGED <<site, change, seen, failures, toldVars>>
     \/ row[n] = None /\ Leave(p) /\ UNCHANGED <<failures, toldVars>>
     \/ StorageFails /\ Leave(p) /\ Answered(p, FALSE)
  /\ UNCHANGED <<kind, row, disk, hostVars, runVars, crashes>>

(* Mutant: the caller goes on after an error.                              *)
SaveUnchecked(p) ==
  LET n == site[p] IN
  /\ pc[p] = "save"
  /\ \/ row' = [row EXCEPT ![n] = Applied(copy[p], change[p])] /\ UNCHANGED failures
     \/ StorageFails /\ UNCHANGED row
  /\ stale' = [stale EXCEPT ![n] = @ \/ row[n] # copy[p]]
  /\ Answered(p, FALSE) /\ Onward(p)
  /\ UNCHANGED <<kind, disk, hostVars, shared, owed, crashes>>

(* ... and saveNode: INSERT ... ON CONFLICT DO UPDATE of the whole copy,   *)
(* whatever the row is by now, deleted or not.                             *)
SaveRow(p) ==
  LET n == site[p] IN
  /\ pc[p] = "save"
  /\ \/ /\ row' = [row EXCEPT ![n] = Applied(copy[p], change[p])]
        /\ stale' = [stale EXCEPT ![n] = @ \/ row[n] # copy[p]]
        /\ Answered(p, TRUE) /\ Onward(p) /\ UNCHANGED failures
     \/ StorageFails /\ Answered(p, FALSE) /\ Leave(p) /\ UNCHANGED <<row, stale>>
  /\ UNCHANGED <<kind, disk, hostVars, shared, owed, crashes>>

-----------------------------------------------------------------------------
(* The other callers.                                                      *)

(* Store.CreateNode: a new id, and PENDING, whatever the caller gave; the  *)
(* map keeps a node it cannot save.                                        *)
CreateFile(n) ==
  /\ kind = "file" /\ life[n] = "unborn"
  /\ \E models \in SUBSET Names :
       /\ row' = [row EXCEPT ![n] = [status |-> "PENDING", assigned |-> models]]
       /\ Save(row')
       /\ life' = [life EXCEPT ![n] = IF Saved THEN "known" ELSE "unsure"]
       /\ acked' = IF Saved THEN [acked EXCEPT ![n] = models] ELSE acked
  /\ UNCHANGED <<kind, procVars, hostVars, runVars, crashes>>

(* PostgresStore.CreateNode: an id and a status the caller gave are kept,  *)
(* and saveNode puts the node over the one that has that id.  (Bound: such *)
(* a node is not registered once more: nothing is claimed of it by then.)  *)
CreateRow(n) ==
  /\ kind = "postgres" /\ ~stale[n]
  /\ \/ \E node \in Node :
          /\ row' = [row EXCEPT ![n] = node]
          /\ stale' = [stale EXCEPT ![n] =
                          @ \/ life[n] # "unborn" \/ node.status # "PENDING"]
          /\ life' = [life EXCEPT ![n] = "known"]
          /\ acked' = [acked EXCEPT ![n] = node.assigned]
          /\ UNCHANGED failures
     \/ StorageFails /\ UNCHANGED <<row, stale, life, acked>>
  /\ UNCHANGED <<kind, disk, procVars, hostVars, shared, owed, crashes>>

(* UpsertAssignment is called; UpdateSecrets does to the store what        *)
(* assigning a model once more does.                                       *)
Edit(e, n) ==
  /\ pc[e] = "idle" /\ life[n] # "unborn"
  /\ site' = [site EXCEPT ![e] = n]
  /\ \E c \in Changes : c.op # "status" /\ change' = [change EXCEPT ![e] = c]
  /\ Goto(e, "update")
  /\ UNCHANGED <<copy, seen, storeVars, hostVars, toldVars, runVars, crashes>>

(* Store.DeleteNode.                                                       *)
DeleteFile(n) ==
  /\ kind = "file" /\ row[n] # None
  /\ row' = [row EXCEPT ![n] = None]
  /\ Save(row')
  /\ life' = [life EXCEPT ![n] = IF Saved THEN "deleted" ELSE "unsure"]
  /\ acked' = [acked EXCEPT ![n] = {}]
  /\ UNCHANGED <<kind, procVars, hostVars, runVars, crashes>>

(* PostgresStore.DeleteNode.                                               *)
DeleteRow(n) ==
  /\ kind = "postgres" /\ row[n] # None
  /\ row' = [row EXCEPT ![n] = None]
  /\ life' = [life EXCEPT ![n] = "deleted"]
  /\ acked' = [acked EXCEPT ![n] = {}]
  /\ UNCHANGED <<kind, disk, failures, procVars, hostVars, runVars, crashes>>

(* The server stops between any two steps and starts again: NewStore, load *)
(* (the map is what the file says, without what was never saved).  No run  *)
(* is resumed.                                                             *)
ServerRestarts ==
  /\ failures + crashes < MaxMishaps /\ crashes' = crashes + 1
  /\ row' = IF kind = "file" THEN disk ELSE row
  /\ pc' = [p \in Goroutines |-> IF pc[p] = "idle" THEN "idle" ELSE Ended(p)]
  /\ site' = [p \in Goroutines |-> None]
  /\ change' = [p \in Goroutines |-> None] /\ copy' = [p \in Goroutines |-> None]
  /\ seen' = [r \in Runs |-> {}]
  /\ UNCHANGED <<kind, disk, failures, hostVars, toldVars, runVars>>

-----------------------------------------------------------------------------
(* Provisioner.provision: one goroutine per call of Provision.  A command  *)
(* on the host fails, or its half hour runs out, at any time.              *)

(* GetNode; nothing keeps a second run away.                               *)
StartRun(r, n) ==
  /\ pc[r] = "idle" /\ \A q \in Runs : q < r => pc[q] # "idle"
  /\ row[n] # None
  /\ seen' = [seen EXCEPT ![r] = row[n].assigned]
  /\ site' = [site EXCEPT ![r] = n]
  /\ Goto(r, "update")
  /\ change' = [change EXCEPT ![r] = [op |-> "status", to |-> "PROVISIONING"]]
  /\ shared' = [shared EXCEPT ![n] = AtWork(n) # {}]
  /\ owed' = [owed EXCEPT ![n] = {}]
  /\ UNCHANGED <<copy, stale, storeVars, hostVars, toldVars, crashes>>

(* AppendEvent: with the file, a save whose error is dropped.              *)
Logs == IF kind = "file" THEN Save(row) ELSE UNCHANGED <<disk, failures>>

OnHost(r, at) ==
  /\ pc[r] = at
  /\ UNCHANGED <<kind, row, root, toldVars, shared, stale, crashes>>

Proceed(r, l) == Goto(r, l) /\ UNCHANGED <<site, change, copy, seen>>

(* buildAuthMethods, ssh.Dial, whoami, the upload of the setup script.     *)
Connect(r) == Proceed(r, "push") /\ Logs

(* writeRunnerFiles, first half: runner.env and qwen.env.  A user who is   *)
(* not root ends with chown vyvo:vyvo, which needs the account.            *)
WriteEnv(r) ==
  /\ OnHost(r, "connect")
  /\ \/ (root[site[r]] \/ account[site[r]]) /\ Connect(r)
     \/ Fail(r) /\ Logs
     \/ Fail(r) /\ UNCHANGED <<disk, failures>>
  /\ UNCHANGED <<account, tmp, file, loaded, owed>>

(* pushFile: Create empties the file before it is written.  It is written  *)
(* in place for root, else to a name in /tmp that all runs of a host share. *)
Written(n, content) ==
  IF root[n] THEN file' = [file EXCEPT ![n] = content] /\ UNCHANGED tmp
  ELSE tmp' = [tmp EXCEPT ![n] = content] /\ UNCHANGED file

(* pushFile of the compose file.  An error before the end leaves any part  *)
(* of it, an error of Create the file that was there.                      *)
PushCompose(r) ==
  LET n == site[r] IN
  /\ OnHost(r, "push")
  /\ \/ Written(n, Compose(seen[r])) /\ Proceed(r, IF root[n] THEN "steps" ELSE "move")
     \/ Fail(r) /\ \E part \in SUBSET Compose(seen[r]) : Written(n, part)
     \/ Fail(r) /\ UNCHANGED <<tmp, file>>
  /\ UNCHANGED <<disk, failures, account, loaded, owed>>

(* pushFileWithSudo: mv, chmod, chown.  The file is gone when another run  *)
(* has moved it; a failure may come before or after the move.              *)
Move(r) ==
  LET n == site[r] IN
  /\ OnHost(r, "move")
  /\ \/ /\ tmp[n] # None
        /\ file' = [file EXCEPT ![n] = tmp[n]] /\ tmp' = [tmp EXCEPT ![n] = None]
        /\ Proceed(r, "steps") \/ Fail(r)
     \/ Fail(r) /\ UNCHANGED <<tmp, file>>
  /\ UNCHANGED <<disk, failures, account, loaded, owed>>

Load(n) == loaded' = [loaded EXCEPT ![n] = file[n]]

(* setup_runner_host.sh adds the account, keeps the compose file that is   *)
(* there, and starts the unit, which does nothing to one that runs.        *)
AddAccount(r) == account' = [account EXCEPT ![site[r]] = TRUE]
Setup(r) == AddAccount(r) /\ (UNCHANGED loaded \/ Load(site[r]))

(* Mutant: the unit is started, not restarted.                             *)
StartUnit(r) ==
  /\ OnHost(r, "steps")
  /\ Logs /\ Setup(r) /\ Proceed(r, "check")
  /\ UNCHANGED <<tmp, file, owed>>

(* The steps of installRunner: the setup script, systemctl daemon-reload   *)
(* and restart.  The unit starts the stack of the installed file.          *)
RestartUnit(r) ==
  /\ OnHost(r, "steps")
  /\ Logs
  /\ \/ AddAccount(r) /\ Load(site[r]) /\ Proceed(r, "check")
     \/ Setup(r) /\ Fail(r)
     \/ Fail(r) /\ UNCHANGED <<account, loaded>>
  /\ UNCHANGED <<tmp, file, owed>>

(* systemctl is-active: a unit that is not active is an error too.         *)
Check(r) ==
  /\ OnHost(r, "check")
  /\ \/ /\ Ask(r, [op |-> "status", to |-> "READY"])
        /\ owed' = [owed EXCEPT ![site[r]] = seen[r]]
     \/ Fail(r) /\ UNCHANGED owed
  /\ UNCHANGED <<disk, failures, account, tmp, file, loaded>>

-----------------------------------------------------------------------------
Update(p) == UpdateFile(p) \/ Note(p) \/ ReadRow(p) \/ SaveRow(p)

Upload(r) == WriteEnv(r) \/ PushCompose(r) \/ Move(r)
Install(r) == RestartUnit(r) \/ Check(r)

Callers ==
  \E n \in Nodes :
    \/ CreateFile(n) \/ CreateRow(n) \/ DeleteFile(n) \/ DeleteRow(n)
    \/ \E e \in Editors : Edit(e, n)
    \/ \E r \in Runs : StartRun(r, n)

Next ==
  \/ Callers
  \/ \E p \in Goroutines : Update(p)
  \/ \E r \in Runs : Upload(r) \/ Install(r)
  \/ ServerRestarts

(* No fairness: the handshake, SFTP, the opening of a session, the         *)
(* commands of pushFileWithSudo and the storage run under no deadline, so  *)
(* nothing says that a run ever ends.                                      *)
Spec == Init /\ [][Next]_vars

-----------------------------------------------------------------------------
(* Properties.                                                             *)

(* What a caller was told holds: a node that was created is there, one     *)
(* that was deleted is not, and an accepted assignment is kept - in the    *)
(* map, in the file and after any restart.  With Postgres it holds until a *)
(* save overwrites a row that changed after it was read.                   *)
AcknowledgedHolds ==
  \A n \in Nodes, nodes \in IF kind = "file" THEN {row, disk} ELSE {row} :
    stale[n] \/
      /\ life[n] = "known" => nodes[n] # None
      /\ life[n] = "deleted" => nodes[n] = None
      /\ acked[n] # {} => nodes[n] # None /\ acked[n] \subseteq nodes[n].assigned

(* docs/control_plane.md: PENDING -> PROVISIONING -> READY/ERROR, and a    *)
(* retry.  A status moves otherwise only when runs of the node overlap,    *)
(* a stale copy is saved, or an unsaved status is lost in a restart.       *)
StatusMovesAsDocumented ==
  [][\A n \in Nodes :
       \/ row[n] = None \/ row'[n] = None \/ row'[n].status = row[n].status
       \/ row'[n].status = "PROVISIONING"
       \/ row[n].status = "PROVISIONING" /\ row'[n].status \in {"READY", "ERROR"}
       \/ shared[n] \/ stale'[n] \/ crashes' # crashes]_vars

(* A node is left PROVISIONING with no run at work on it only by a restart *)
(* of the server, an error of the store, or a stale copy.                  *)
ProvisioningHasRun ==
  \A n \in Nodes :
    row[n] # None /\ row[n].status = "PROVISIONING" /\ AtWork(n) = {} =>
      crashes > 0 \/ failures > 0 \/ stale[n]

(* A node found for a model that its last run to succeed had read has the  *)
(* service of that model in the stack its unit was started with - unless   *)
(* a run is at work, the last ones overlapped, or a stale copy was saved.  *)
FoundIsLoaded ==
  \A m \in Served : \A n \in Candidates(m) :
    m \in owed[n] /\ AtWork(n) = {} /\ ~shared[n] /\ ~stale[n] =>
      m \in loaded[n]
=============================================================================
