---------------------------- MODULE ModelRegistry ----------------------------
(***************************************************************************)
(* The model registry: the tables models and model_versions               *)
(* (pkg/modelregistry/postgres.go) under the handlers of admin-rest that   *)
(* write them.  A handler is a sequence of statements, each a transaction  *)
(* of its own: one that fails, or the process stopping, leaves what the    *)
(* earlier ones did.  Images, parameters and the status of a version,      *)
(* which no statement and no reader of it asks for, are left out.          *)
(***************************************************************************)
EXTENDS Naturals, Sequences

CONSTANTS
  Models,       \* external ids; a row's own id stands for it one to one
  Versions,     \* ids of version rows
  Labels,       \* their version names
  Older,        \* the models registered before, each with its version
  Admins,       \* requests to admin-rest at a time
  None,
  MaxListings,  \* bound: how often the list of models changes
  MaxFailures   \* bound: failures of a statement, a fetch or a store

ASSUME OlderIsTable ==
  /\ Older \in [Models -> Versions \cup {None}]
  /\ \A m, n \in Models : Older[m] = Older[n] => m = n \/ Older[m] = None
ASSUME RegistryBounds == MaxListings \in Nat /\ MaxFailures \in Nat

VARIABLES
  model,        \* table models: status and default_version_id
  version,      \* table model_versions
  at, work,     \* a handler's place and its request
  asked,        \* history: the models somebody asked to create and promote
  foreign,      \* history: the models that were given a version by handleCreateVersion
  past,         \* history: what GET /api/models would have answered, oldest first
  failures

tableVars == <<model, version, past>>
registryVars == <<tableVars, at, work, asked, foreign>>

ModelRow == [status : {"INACTIVE", "READY"}, default : Versions \cup {None}]
VersionRow == [model : Models, label : Labels]
Request == [model : Models, promote : BOOLEAN, version : Versions \cup {None}]
NoModel == [m \in Models |-> None]

ASSUME NoneIsNoRow == None \notin Versions \cup ModelRow \cup VersionRow \cup Request

RegistryTypeOK ==
  /\ model \in [Models -> ModelRow \cup {None}]
  /\ version \in [Versions -> VersionRow \cup {None}]
  /\ at \in [Admins -> {"idle", "version", "promote"}]
  /\ work \in [Admins -> Request \cup {None}]
  /\ asked \subseteq Models /\ foreign \subseteq Models
  /\ failures \in 0..MaxFailures

RegistryInit ==
  /\ model = [m \in Models |-> IF Older[m] = None THEN None
                               ELSE [status |-> "READY", default |-> Older[m]]]
  /\ \E l \in Labels :
       version = [v \in Versions |->
                    IF \E m \in Models : Older[m] = v
                    THEN [model |-> CHOOSE m \in Models : Older[m] = v, label |-> l] ELSE None]
  /\ at = [a \in Admins |-> "idle"] /\ work = [a \in Admins |-> None]
  /\ asked = {} /\ foreign = {} /\ past = <<model>> /\ failures = 0

-----------------------------------------------------------------------------
(* The statements.                                                         *)

(* ListModels: every model with its default version.                       *)
ListModels == Len(past)

Listed == Len(past) < MaxListings /\ past' = Append(past, model')

(* Mutant: a model begins with the status of a version.                    *)
CreateDraft(m) ==
  /\ model[m] = None
  /\ model' = [model EXCEPT ![m] = [status |-> "DRAFT", default |-> None]]
  /\ Listed /\ UNCHANGED version

(* INSERT INTO models: external_id is UNIQUE.                              *)
CreateModel(m) ==
  /\ model[m] = None
  /\ model' = [model EXCEPT ![m] = [status |-> "INACTIVE", default |-> None]]
  /\ Listed /\ UNCHANGED version

VersionsOf(m) == {v \in Versions : version[v] # None /\ version[v].model = m}

(* INSERT INTO model_versions: (model_id, version) is UNIQUE.              *)
CreateVersion(m, v, l) ==
  /\ model[m] # None /\ version[v] = None
  /\ \A w \in VersionsOf(m) : version[w].label # l
  /\ version' = [version EXCEPT ![v] = [model |-> m, label |-> l]]
  /\ UNCHANGED <<model, past>>

(* Mutant: without AND EXISTS (SELECT ... v.model_id = $3).                *)
PromoteAny(m, v) ==
  /\ model[m] # None /\ version[v] # None
  /\ model' = [model EXCEPT ![m] = [status |-> "READY", default |-> v]]
  /\ (IF model' = model THEN UNCHANGED past ELSE Listed) /\ UNCHANGED version

(* UPDATE models ... AND EXISTS a version v of it: default and READY, in   *)
(* one statement.                                                          *)
PromoteVersion(m, v) ==
  /\ v \in VersionsOf(m)
  /\ model' = [model EXCEPT ![m] = [status |-> "READY", default |-> v]]
  /\ (IF model' = model THEN UNCHANGED past ELSE Listed) /\ UNCHANGED version

-----------------------------------------------------------------------------
(* The handlers.                                                           *)

Leave(a) ==
  /\ at' = [at EXCEPT ![a] = "idle"] /\ work' = [work EXCEPT ![a] = None]
  /\ UNCHANGED <<asked, foreign>>

Enter(a, m, promote) ==
  /\ at' = [at EXCEPT ![a] = "version"]
  /\ work' = [work EXCEPT ![a] = [model |-> m, promote |-> promote, version |-> None]]
  /\ asked' = IF promote THEN asked \cup {m} ELSE asked
  /\ UNCHANGED foreign

(* handleCreateModel: the model alone, or with a version, promoted or not. *)
HandleCreateModel(a, m) ==
  /\ at[a] = "idle" /\ CreateModel(m)
  /\ UNCHANGED <<at, work, asked, foreign>> \/ \E p \in BOOLEAN : Enter(a, m, p)
  /\ UNCHANGED failures

(* handleImportHuggingFaceModel: after the answer of the hub the same      *)
(* three statements; it promotes unless it is told not to.                 *)
HandleImport(a, m) ==
  /\ at[a] = "idle" /\ CreateModel(m)
  /\ \E p \in BOOLEAN : Enter(a, m, p)
  /\ UNCHANGED failures

(* Mutant: the version comes last, and nothing is promoted.                *)
AddVersionOnly(a) ==
  /\ at[a] = "version"
  /\ \E v \in Versions, l \in Labels : CreateVersion(work[a].model, v, l)
  /\ Leave(a) /\ UNCHANGED failures

(* Their second statement.                                                 *)
AddVersion(a) ==
  /\ at[a] = "version"
  /\ \E v \in Versions, l \in Labels :
       /\ CreateVersion(work[a].model, v, l)
       /\ IF ~work[a].promote THEN Leave(a)
          ELSE /\ at' = [at EXCEPT ![a] = "promote"]
               /\ work' = [work EXCEPT ![a].version = v]
               /\ UNCHANGED <<asked, foreign>>
  /\ UNCHANGED failures

(* Their third.                                                            *)
PromoteOwn(a) ==
  /\ at[a] = "promote"
  /\ PromoteVersion(work[a].model, work[a].version)
  /\ Leave(a) /\ UNCHANGED failures

(* The second statement is refused: another call has added a version of    *)
(* that name in between.                                                   *)
LabelTaken(a) ==
  /\ at[a] = "version" /\ VersionsOf(work[a].model) # {}
  /\ Leave(a) /\ UNCHANGED <<tableVars, failures>>

(* A statement fails, or admin-rest stops: the handler does not go on, and *)
(* what it did stays.                                                      *)
StatementFails(a) ==
  /\ at[a] # "idle" /\ failures < MaxFailures
  /\ failures' = failures + 1
  /\ Leave(a) /\ UNCHANGED tableVars

(* handleCreateVersion and handlePromoteVersion, one statement each.       *)
HandleCreateVersion(m) ==
  /\ \E v \in Versions, l \in Labels : CreateVersion(m, v, l)
  /\ foreign' = foreign \cup {m}
  /\ UNCHANGED <<at, work, asked, failures>>

HandlePromoteVersion(m) ==
  /\ \E v \in Versions : PromoteVersion(m, v)
  /\ UNCHANGED <<at, work, asked, foreign, failures>>

-----------------------------------------------------------------------------
(* A model that was to be created and promoted, with no handler at work on *)
(* it, is served - or a statement failed, or another call gave it the      *)
(* version name first.  (A retry does not help: the external id is taken.) *)
UnservedNeedsFailure ==
  \A m \in asked :
    (\A a \in Admins : work[a] = None \/ work[a].model # m) =>
      \/ model[m].status = "READY"
      \/ failures > 0
      \/ m \in foreign
=============================================================================
