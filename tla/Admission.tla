------------------------------ MODULE Admission ------------------------------
(***************************************************************************)
(* How a submission becomes a job: the gateway hands it to the             *)
(* orchestrator, which resolves the model through its cache of the         *)
(* registry (registry.rs), takes the default version, asks the control     *)
(* plane for a node that has it (control_plane.rs), and records and        *)
(* queues the job (module Orchestrator, here one step).  The cache is a    *)
(* RwLock around a snapshot; a fetch runs outside of it, so that           *)
(* submissions overtake each other between the answer of the registry and  *)
(* its being stored.                                                       *)
(***************************************************************************)
EXTENDS ModelRegistry, Functions

CONSTANTS
  Submissions,  \* requests at the gateway
  Wanted,       \* the models they name
  Nodes,        \* nodes of the control plane
  Suffix        \* a model's name after the last slash

VARIABLES
  cache, fresh, \* the cached listing (0: empty), and whether its TTL runs
  floor,        \* history: the listing at the last expiry of the TTL
  rolledBack, late,  \* history: a store put an older listing in the place of a
                \* newer one; a store brought one read before the last expiry
  pc, ask, known,    \* a submission's place and identifier; history: it named
                \* a model that was registered when it came
  step, got,    \* resolve_model's lookup; the listing fetched and not yet stored
  found, job,   \* the listing that had the model (0: none), the selection
  queued, answer     \* its job is in Redis; what the gateway told the client

cacheVars == <<cache, fresh, floor, rolledBack, late>>
handlerVars == <<pc, ask, known, step, got, found, job, queued, answer>>
vars == <<registryVars, failures, cacheVars, handlerVars>>

Assignments == [name : Models, version : Versions]
Identifiers == [model : Models, byId : BOOLEAN]

ASSUME WantedAreModels == Wanted \subseteq Models
ASSUME NoneIsNoAnswer == None \notin Assignments \cup Identifiers

AdmissionTypeOK ==
  /\ RegistryTypeOK
  /\ cache \in 0..Len(past) /\ floor \in 0..Len(past)
  /\ fresh \in BOOLEAN /\ rolledBack \in BOOLEAN /\ late \in BOOLEAN
  /\ pc \in [Submissions -> {"idle", "look", "fetch", "store", "refetch", "restore",
                             "select", "admit", "respond", "done"}]
  /\ ask \in [Submissions -> Identifiers \cup {None}]
  /\ known \in [Submissions -> BOOLEAN] /\ queued \in [Submissions -> BOOLEAN]
  /\ step \in [Submissions -> 1..4]
  /\ got \in [Submissions -> 0..Len(past)]
  /\ found \in [Submissions -> 0..Len(past)]
  /\ job \in [Submissions -> Assignments \cup {None}]
  /\ answer \in [Submissions -> {"none", "201", "502", "timeout"}]

Init ==
  /\ RegistryInit
  /\ cache = 0 /\ fresh = FALSE /\ floor = 0 /\ rolledBack = FALSE /\ late = FALSE
  /\ pc = [s \in Submissions |-> "idle"] /\ ask = [s \in Submissions |-> None]
  /\ known = [s \in Submissions |-> FALSE] /\ step = [s \in Submissions |-> 1]
  /\ got = [s \in Submissions |-> 0] /\ found = [s \in Submissions |-> 0]
  /\ job = [s \in Submissions |-> None]
  /\ queued = [s \in Submissions |-> FALSE] /\ answer = [s \in Submissions |-> "none"]

-----------------------------------------------------------------------------
(* ModelRegistryCache.                                                     *)

Listing(k) == IF k = 0 THEN NoModel ELSE past[k]

(* Mutant: the TTL is not looked at once something is cached.              *)
CachedForever(s) == cache > 0

(* ensure_cache, in the read lock: the cached listing will do.             *)
CacheWillDo(s) == fresh

Expire ==
  /\ fresh /\ fresh' = FALSE
  /\ floor' = Len(past)
  /\ UNCHANGED <<registryVars, failures, cache, rolledBack, late, handlerVars>>

(* fetch_remote: the answer of handleListModels.  It holds no lock, and    *)
(* has no timeout.                                                         *)
FetchRemote(s) ==
  /\ got' = [got EXCEPT ![s] = ListModels]
  /\ UNCHANGED failures

(* A fetch that fails: ensure_cache takes it for an empty listing.         *)
FetchFails(s) ==
  /\ failures < MaxFailures /\ failures' = failures + 1
  /\ got' = [got EXCEPT ![s] = 0]

(* store_models and the fresh timestamp, in the write lock.                *)
StoreModels(s) ==
  /\ cache' = got[s] /\ fresh' = TRUE
  /\ rolledBack' = (rolledBack \/ got[s] < cache)
  /\ late' = (late \/ got[s] \in 1..(floor - 1))
  /\ UNCHANGED floor

-----------------------------------------------------------------------------
(* One submission.                                                         *)

Goto(s, l) == pc' = [pc EXCEPT ![s] = l]
Handles(s, l) ==
  /\ pc[s] = l
  /\ UNCHANGED <<registryVars, ask, known>>
Untold == UNCHANGED <<queued, answer>>

(* handleQueueSubmission and SubmitJob of the gateway: create_job begins.  *)
(* The identifier in the path may be the external id or the row's.         *)
Submit(s) ==
  /\ pc[s] = "idle" /\ Goto(s, "look")
  /\ \E m \in Wanted, b \in BOOLEAN :
       /\ ask' = [ask EXCEPT ![s] = [model |-> m, byId |-> b]]
       /\ known' = [known EXCEPT ![s] = model[m] # None /\ model[m].default # None]
  /\ UNCHANGED <<registryVars, failures, cacheVars, step, got, found, job>> /\ Untold

(* Lookups 1 and 3 are by external id, 2 and 4 by id.                      *)
Hits(s, k) ==
  /\ (step[s] \in {2, 4}) = ask[s].byId
  /\ Listing(k)[ask[s].model] # None

(* Mutant: a model that is not cached is refused without a refresh.        *)
ResolveCached(s, k) ==
  IF Hits(s, k)
  THEN /\ found' = [found EXCEPT ![s] = k]
       /\ Goto(s, IF Listing(k)[ask[s].model].default = None THEN "respond" ELSE "select")
       /\ UNCHANGED step
  ELSE /\ UNCHANGED found
       /\ IF step[s] = 1 THEN Goto(s, "look") /\ step' = [step EXCEPT ![s] = 2]
          ELSE Goto(s, "respond") /\ UNCHANGED step

(* resolve_model on the listing a lookup was given, and default_version_id *)
(* of what it finds: after two misses it refreshes and looks twice more.   *)
Resolve(s, k) ==
  IF Hits(s, k)
  THEN /\ found' = [found EXCEPT ![s] = k]
       /\ Goto(s, IF Listing(k)[ask[s].model].default = None THEN "respond" ELSE "select")
       /\ UNCHANGED step
  ELSE /\ UNCHANGED found
       /\ CASE step[s] = 2 -> Goto(s, "refetch") /\ UNCHANGED step
            [] step[s] = 4 -> Goto(s, "respond") /\ UNCHANGED step
            [] OTHER -> Goto(s, "look") /\ step' = [step EXCEPT ![s] = @ + 1]

(* get_model_by_external and get_model_by_id: ensure_cache.                *)
Look(s) ==
  /\ Handles(s, "look")
  /\ IF CacheWillDo(s) THEN Resolve(s, cache) ELSE Goto(s, "fetch") /\ UNCHANGED <<step, found>>
  /\ UNCHANGED <<failures, cacheVars, got, job>> /\ Untold

Fetch(s) ==
  /\ Handles(s, "fetch") /\ Goto(s, "store")
  /\ FetchRemote(s) \/ FetchFails(s)
  /\ UNCHANGED <<cacheVars, step, found, job>> /\ Untold

Store(s) ==
  /\ Handles(s, "store")
  /\ StoreModels(s) /\ Resolve(s, got[s])
  /\ got' = [got EXCEPT ![s] = 0]
  /\ UNCHANGED <<failures, job>> /\ Untold

(* refresh: here an error refuses the submission.                          *)
Refetch(s) ==
  /\ Handles(s, "refetch")
  /\ \/ FetchRemote(s) /\ Goto(s, "restore")
     \/ FetchFails(s) /\ Goto(s, "respond")
  /\ UNCHANGED <<cacheVars, step, found, job>> /\ Untold

Restore(s) ==
  /\ Handles(s, "restore")
  /\ StoreModels(s) /\ Goto(s, "look") /\ step' = [step EXCEPT ![s] = 3]
  /\ got' = [got EXCEPT ![s] = 0]
  /\ UNCHANGED <<failures, found, job>> /\ Untold

(* matches_model: the same name, or the same last part of it.              *)
Matches(assigned, requested) == Suffix[assigned] = Suffix[requested]

(* GET /api/nodes, the READY ones.  Nothing relates the model and the      *)
(* version of an assignment to each other or to the registry.              *)
Fleets == [Nodes -> Assignments \cup {None}]

(* Mutant: the version of the assignment is not compared.                  *)
SelectAnyVersion(fleet, m, v) == {a \in Assignments : a \in Range(fleet) /\ Matches(a.name, m)}

(* select_assignment: that of a READY node with the version of the model.  *)
SelectAssignment(fleet, m, v) ==
  {a \in Assignments : a \in Range(fleet) /\ Matches(a.name, m) /\ a.version = v}

(* select_node; fetch_nodes may fail.                                      *)
SelectNode(s) ==
  LET m == ask[s].model  v == Listing(found[s])[m].default IN
  /\ Handles(s, "select")
  /\ \/ /\ UNCHANGED failures
        /\ \E fleet \in Fleets :
             LET candidates == SelectAssignment(fleet, m, v) IN
             \/ candidates = {} /\ Goto(s, "respond") /\ UNCHANGED job
             \/ \E a \in candidates : job' = [job EXCEPT ![s] = a] /\ Goto(s, "admit")
     \/ /\ failures < MaxFailures /\ failures' = failures + 1
        /\ Goto(s, "respond") /\ UNCHANGED job
  /\ UNCHANGED <<cacheVars, step, got, found>> /\ Untold

(* The rest of create_job: the job is recorded and pushed.  An error may   *)
(* come before the push or after it (the reply is lost).                   *)
Admit(s) ==
  /\ Handles(s, "admit") /\ Goto(s, "respond")
  /\ \/ queued' = [queued EXCEPT ![s] = TRUE] /\ UNCHANGED <<failures, job>>
     \/ /\ failures < MaxFailures /\ failures' = failures + 1
        /\ \E q \in BOOLEAN : queued' = [queued EXCEPT ![s] = q]
        /\ job' = [job EXCEPT ![s] = None]
  /\ UNCHANGED <<cacheVars, step, got, found, answer>>

(* The handler returns, or is dropped: its locals are gone.                *)
Return(s) ==
  /\ Goto(s, "done")
  /\ ask' = [ask EXCEPT ![s] = None] /\ known' = [known EXCEPT ![s] = FALSE]
  /\ step' = [step EXCEPT ![s] = 1] /\ got' = [got EXCEPT ![s] = 0]
  /\ found' = [found EXCEPT ![s] = 0] /\ job' = [job EXCEPT ![s] = None]
  /\ UNCHANGED <<registryVars, failures, cacheVars, queued>>

(* SubmitJob: 201 and an envelope, or an error.                            *)
SubmitJob(s) == IF job[s] # None THEN "201" ELSE "502"

(* The gateway passes it on - if it still waits.                           *)
Respond(s) ==
  /\ pc[s] = "respond" /\ Return(s)
  /\ answer' = [answer EXCEPT ![s] = IF @ = "timeout" THEN @ ELSE SubmitJob(s)]

(* The client's 15 seconds in the gateway: 502, while create_job runs on.  *)
(* (When they end earlier nothing else shows: a handler that never goes on *)
(* is one that is slow.)                                                   *)
GiveUp(s) ==
  /\ pc[s] \in {"admit", "respond"} /\ answer[s] = "none"
  /\ answer' = [answer EXCEPT ![s] = "timeout"]
  /\ UNCHANGED <<registryVars, failures, cacheVars, pc, ask, known, step, got, found, job, queued>>

(* Or does not: the connection is closed, and the handler is dropped at an *)
(* await.                                                                  *)
Dropped(s) ==
  /\ pc[s] # "done" /\ answer[s] = "timeout"
  /\ Return(s) /\ UNCHANGED answer

Handler(s) ==
  \/ Submit(s) \/ Look(s) \/ Fetch(s) \/ Store(s) \/ Refetch(s) \/ Restore(s)
  \/ SelectNode(s) \/ Admit(s) \/ Respond(s) \/ GiveUp(s) \/ Dropped(s)

Rest == UNCHANGED <<cacheVars, handlerVars>>

Registry ==
  \/ \E a \in Admins :
       \/ \E m \in Models :
            \/ HandleCreateModel(a, m) /\ Rest
            \/ HandleImport(a, m) /\ Rest
       \/ AddVersion(a) /\ Rest
       \/ PromoteOwn(a) /\ Rest
       \/ LabelTaken(a) /\ Rest
       \/ StatementFails(a) /\ Rest
  \/ \E m \in Models :
       \/ HandleCreateVersion(m) /\ Rest
       \/ HandlePromoteVersion(m) /\ Rest

Next ==
  \/ Registry
  \/ Expire
  \/ \E s \in Submissions : Handler(s)

Spec == Init /\ [][Next]_vars

-----------------------------------------------------------------------------
(* Properties.                                                             *)

(* A model that had a default version when a submission came is refused as *)
(* unknown only if something failed or the cache went back to an older     *)
(* listing: a fetch that was answered earlier was stored later.            *)
UnknownNeedsFailure ==
  \A s \in Submissions :
    pc[s] = "respond" /\ known[s] /\ found[s] = 0 => failures > 0 \/ rolledBack

(* The listing a model is found in is no older than the last expiry of the *)
(* TTL - unless a fetch was under way across it: the timestamp is that of  *)
(* the store, not of the answer.                                           *)
StaleOnlyByLateFetch ==
  [][\A s \in Submissions : found'[s] \notin {0, found[s]} => found'[s] >= floor \/ late']_vars

(* A job is given a version of the model that was asked for, although the  *)
(* listing may be old, names match by their last part, and an assignment   *)
(* may pair any model with any version.  (The assignment it is given may   *)
(* be one of another model with the same last part.)                       *)
JobOnItsVersion ==
  \A s \in Submissions : job[s] # None => job[s].version \in VersionsOf(ask[s].model)
=============================================================================
