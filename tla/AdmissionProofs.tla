--------------------------- MODULE AdmissionProofs ---------------------------
(***************************************************************************)
(* Proofs about Admission and the ModelRegistry under it, for every number *)
(* of models, versions, requests, submissions and nodes, and any number of *)
(* failures.                                                               *)
(***************************************************************************)
EXTENDS Admission, TLAPS

-----------------------------------------------------------------------------
(* The registry.                                                           *)

(* What the list of models has said of a model it goes on saying: models,  *)
(* defaults and versions only come.                                        *)
Keeps(i, k) ==
  \A m \in Models : i[m] # None =>
    k[m] # None /\ (i[m].default # None => k[m].default # None)

(* The listings: the last is the table, none loses what an earlier one     *)
(* had, and a default is a version of its model.                           *)
PastInOrder ==
  /\ past \in Seq([Models -> ModelRow \cup {None}])
  /\ Len(past) > 0 /\ past[Len(past)] = model
  /\ \A i, k \in 1..Len(past) : i <= k => Keeps(past[i], past[k])
  /\ \A i \in 1..Len(past), m \in Models :
       past[i][m] # None /\ past[i][m].default # None => past[i][m].default \in VersionsOf(m)

(* A request at work is the one that created its model, and knows what     *)
(* there is of it.                                                         *)
Creator(a) ==
  /\ at[a] = "idle" <=> work[a] = None
  /\ at[a] # "idle" => model[work[a].model] # None
  /\ at[a] = "version" => VersionsOf(work[a].model) = {} \/ work[a].model \in foreign
  /\ at[a] = "promote" => work[a].version \in VersionsOf(work[a].model)
  /\ at[a] # "idle" /\ work[a].model \in asked => work[a].promote

(* No model has two of them, and one that is not there has none.           *)
Creators ==
  /\ \A a \in Admins : Creator(a)
  /\ \A a, b \in Admins :
       work[a] # None /\ work[b] # None /\ work[a].model = work[b].model => a = b
  /\ \A m \in Models : model[m] = None => VersionsOf(m) = {} /\ m \notin asked

RegistryShape == RegistryTypeOK /\ PastInOrder /\ Creators

(* A model that somebody asked to promote is READY, or its request is at   *)
(* work - or cannot be.                                                    *)
Attended ==
  \A m \in asked :
    \/ model[m].status = "READY"
    \/ failures > 0 \/ m \in foreign
    \/ \E a \in Admins : work[a] # None /\ work[a].model = m

-----------------------------------------------------------------------------
(* Submissions.                                                            *)

(* Where a submission stands tells what it holds.                          *)
Standing(s) ==
  /\ ask[s] = None <=> pc[s] \in {"idle", "done"}
  /\ pc[s] = "idle" => step[s] = 1
  /\ known[s] => ask[s] # None
  /\ job[s] # None => pc[s] \in {"admit", "respond"}
  /\ pc[s] = "admit" => job[s] # None
  /\ queued[s] => pc[s] \in {"respond", "done"}
  /\ pc[s] \in {"select", "admit"} => found[s] # 0
  /\ pc[s] = "select" => /\ Listing(found[s])[ask[s].model] # None
                         /\ Listing(found[s])[ask[s].model].default # None

(* The listing has the model that was asked for, with a default version.   *)
Has(s, k) == k # 0 /\ past[k][ask[s].model] # None /\ past[k][ask[s].model].default # None

(* A model that was registered when it was asked for is in every listing   *)
(* since, and is not missed twice after the refresh.                       *)
Sought(s) ==
  known[s] =>
    /\ Has(s, Len(past))
    /\ \/ failures > 0 \/ rolledBack
       \/ /\ pc[s] \in {"store", "restore"} => Has(s, got[s])
          /\ pc[s] \in {"look", "fetch", "store"} /\ step[s] \in {3, 4} => Has(s, cache)
          /\ pc[s] \in {"look", "fetch", "store"} /\ step[s] = 4 => ask[s].byId
          /\ pc[s] = "respond" => found[s] # 0

(* JobOnItsVersion, of one submission.                                     *)
OnItsVersion(s) ==
  job[s] # None => job[s].version \in VersionsOf(ask[s].model)

Submitted(s) == Standing(s) /\ Sought(s) /\ OnItsVersion(s)

(* While the TTL runs, the cached listing is one of this TTL.              *)
InTime == fresh => late \/ cache = 0 \/ cache >= floor

AdmissionInv ==
  /\ AdmissionTypeOK /\ RegistryShape /\ Attended /\ InTime
  /\ \A s \in Submissions : Submitted(s)

-----------------------------------------------------------------------------
(* Steps of the registry.                                                  *)

(* Listings and versions stay as they are, and new ones come after them.   *)
Grows ==
  /\ Len(past') >= Len(past) /\ \A i \in 1..Len(past) : past'[i] = past[i]
  /\ \A v \in Versions : version[v] # None => version'[v] = version[v]

(* A listing that is appended, or not, after a statement.                  *)
LEMMA Appended ==
  ASSUME RegistryTypeOK, PastInOrder,
         model' \in [Models -> ModelRow \cup {None}], Keeps(model, model'),
         \A m \in Models : VersionsOf(m) \subseteq VersionsOf(m)',
         \A m \in Models : model'[m] # None /\ model'[m].default # None =>
                             model'[m].default \in VersionsOf(m)',
         past' = Append(past, model') \/ (past' = past /\ model' = model)
  PROVE  /\ PastInOrder'
         /\ Len(past') >= Len(past) /\ \A i \in 1..Len(past) : past'[i] = past[i]
<1>1. CASE past' = past /\ model' = model
  BY <1>1 DEF PastInOrder, Keeps
<1>2. CASE past' = Append(past, model')
  <2>1. /\ past \in Seq([Models -> ModelRow \cup {None}]) /\ Len(past) \in Nat /\ Len(past) > 0
        /\ past' \in Seq([Models -> ModelRow \cup {None}]) /\ Len(past') = Len(past) + 1
        /\ past'[Len(past')] = model' /\ \A i \in 1..Len(past) : past'[i] = past[i]
    BY <1>2 DEF PastInOrder
  <2>2. ASSUME NEW i \in 1..Len(past'), NEW k \in 1..Len(past'), i <= k
        PROVE  Keeps(past'[i], past'[k])
    <3>1. CASE k <= Len(past)
      BY <2>1, <2>2, <3>1 DEF PastInOrder
    <3>2. CASE i <= Len(past) /\ k = Len(past) + 1
      <4>1. Keeps(past[i], model)
        BY <2>1, <3>2 DEF PastInOrder
      <4>2. Keeps(past[i], model')
        BY <4>1 DEF Keeps
      <4> QED
        BY <2>1, <3>2, <4>2
    <3>3. CASE i = Len(past) + 1
      <4>1. k = i
        BY <2>1, <2>2, <3>3
      <4> QED
        BY <4>1 DEF Keeps
    <3> QED
      BY <2>1, <3>1, <3>2, <3>3
  <2>3. ASSUME NEW i \in 1..Len(past'), NEW m \in Models,
               past'[i][m] # None, past'[i][m].default # None
        PROVE  past'[i][m].default \in VersionsOf(m)'
    BY <2>1, <2>3 DEF PastInOrder
  <2> QED
    BY <2>1, <2>2, <2>3 DEF PastInOrder
<1> QED
  BY <1>1, <1>2

(* What the three statements, or none, do to the tables.                   *)
LEMMA StatementStep ==
  ASSUME RegistryTypeOK, PastInOrder, NEW m \in Models,
         \/ CreateModel(m)
         \/ \E v \in Versions, l \in Labels : CreateVersion(m, v, l)
         \/ \E v \in Versions : PromoteVersion(m, v)
         \/ UNCHANGED tableVars
  PROVE  /\ model' \in [Models -> ModelRow \cup {None}]
         /\ version' \in [Versions -> VersionRow \cup {None}]
         /\ PastInOrder' /\ Grows
<1> USE NoneIsNoRow
<1>1. CASE CreateModel(m)
  <2> DEFINE r == [status |-> "INACTIVE", default |-> None]
  <2>1. r \in ModelRow /\ r.default = None
    BY DEF ModelRow
  <2> HIDE DEF r
  <2>2. /\ model[m] = None /\ model' = [model EXCEPT ![m] = r] /\ version' = version
        /\ past' = Append(past, model')
    BY <1>1 DEF r, CreateModel, Listed
  <2>3. model' \in [Models -> ModelRow \cup {None}] /\ Keeps(model, model')
    BY <2>1, <2>2 DEF RegistryTypeOK, Keeps
  <2>4. ASSUME NEW k \in Models, model'[k] # None, model'[k].default # None
        PROVE  model'[k].default \in VersionsOf(k)'
    <3>1. model'[k] = model[k]
      BY <2>1, <2>2, <2>4 DEF RegistryTypeOK
    <3> QED
      BY <2>2, <2>4, <3>1 DEF PastInOrder, VersionsOf
  <2>5. \A k \in Models : VersionsOf(k) \subseteq VersionsOf(k)'
    BY <2>2 DEF VersionsOf
  <2> QED
    BY <2>2, <2>3, <2>4, <2>5, Appended DEF RegistryTypeOK, Grows
<1>2. ASSUME NEW v \in Versions, NEW l \in Labels, CreateVersion(m, v, l)
      PROVE  /\ model' \in [Models -> ModelRow \cup {None}]
             /\ version' \in [Versions -> VersionRow \cup {None}]
             /\ PastInOrder' /\ Grows
  <2> DEFINE r == [model |-> m, label |-> l]
  <2>1. r \in VersionRow
    BY DEF VersionRow
  <2> HIDE DEF r
  <2>2. UNCHANGED <<model, past>> /\ version[v] = None /\ version' = [version EXCEPT ![v] = r]
    BY <1>2 DEF r, CreateVersion
  <2>3. \A k \in Models : VersionsOf(k) \subseteq VersionsOf(k)'
    BY <2>2 DEF VersionsOf, RegistryTypeOK
  <2>4. Keeps(model, model')
    BY <2>2 DEF Keeps
  <2>5. \A k \in Models : model'[k] # None /\ model'[k].default # None =>
                           model'[k].default \in VersionsOf(k)'
    BY <2>2, <2>3 DEF PastInOrder
  <2> QED
    BY <2>1, <2>2, <2>3, <2>4, <2>5, Appended DEF RegistryTypeOK, Grows
<1>3. ASSUME NEW v \in Versions, PromoteVersion(m, v)
      PROVE  /\ model' \in [Models -> ModelRow \cup {None}]
             /\ version' \in [Versions -> VersionRow \cup {None}]
             /\ PastInOrder' /\ Grows
  <2> DEFINE r == [status |-> "READY", default |-> v]
  <2>1. r \in ModelRow /\ r.default = v
    BY DEF ModelRow
  <2> HIDE DEF r
  <2>2. /\ v \in VersionsOf(m) /\ model' = [model EXCEPT ![m] = r] /\ version' = version
        /\ past' = Append(past, model') \/ (past' = past /\ model' = model)
    BY <1>3 DEF r, PromoteVersion, Listed
  <2>3. model' \in [Models -> ModelRow \cup {None}] /\ Keeps(model, model')
    BY <2>1, <2>2 DEF RegistryTypeOK, Keeps
  <2>4. \A k \in Models : VersionsOf(k) = VersionsOf(k)'
    BY <2>2 DEF VersionsOf
  <2>5. ASSUME NEW k \in Models, model'[k] # None, model'[k].default # None
        PROVE  model'[k].default \in VersionsOf(k)'
    <3>1. model'[k] = model[k] \/ (k = m /\ model'[k] = r)
      BY <2>2 DEF RegistryTypeOK
    <3> QED
      BY <2>1, <2>2, <2>4, <2>5, <3>1 DEF PastInOrder
  <2> QED
    BY <2>2, <2>3, <2>4, <2>5, Appended DEF RegistryTypeOK, Grows
<1>4. CASE UNCHANGED tableVars
  BY <1>4 DEF tableVars, RegistryTypeOK, PastInOrder, Keeps, Grows, VersionsOf
<1> QED
  BY <1>1, <1>2, <1>3, <1>4


(* What a step of the registry owes: all of the above, and that nothing is *)
(* taken back.                                                             *)
Advances == RegistryShape' /\ Attended' /\ Grows /\ failures' \in Nat /\ failures' >= failures

(* The first statement: the model is new, and so is what is asked of it.   *)
LEMMA CreateStep ==
  ASSUME RegistryShape, Attended, NEW a \in Admins, NEW m \in Models,
         at[a] = "idle", CreateModel(m), UNCHANGED failures,
         UNCHANGED <<at, work, asked, foreign>> \/ \E p \in BOOLEAN : Enter(a, m, p)
  PROVE  Advances
<1> USE NoneIsNoRow, RegistryBounds
<1>1. RegistryTypeOK /\ PastInOrder /\ Creators
  BY DEF RegistryShape
<1>2. /\ model' \in [Models -> ModelRow \cup {None}]
      /\ version' \in [Versions -> VersionRow \cup {None}]
      /\ PastInOrder' /\ Grows
  BY <1>1, StatementStep
<1>3. /\ model[m] = None /\ model'[m] # None /\ model'[m].status = "INACTIVE"
      /\ \A k \in Models : k # m => model'[k] = model[k]
      /\ \A k \in Models : VersionsOf(k)' = VersionsOf(k)
  <2> DEFINE r == [status |-> "INACTIVE", default |-> None]
  <2>1. r # None /\ r.status = "INACTIVE"
    BY DEF ModelRow
  <2> HIDE DEF r
  <2>2. model' = [model EXCEPT ![m] = r] /\ version' = version /\ model[m] = None
    BY DEF r, CreateModel
  <2> QED
    BY <1>1, <2>1, <2>2 DEF RegistryTypeOK, VersionsOf
<1>4. VersionsOf(m) = {} /\ m \notin asked /\ work[a] = None
      /\ \A b \in Admins : work[b] # None => work[b].model # m /\ work[b].model \in Models
  BY <1>1, <1>3 DEF Creators, Creator, RegistryTypeOK, Request
<1>5. failures' = failures /\ failures \in Nat /\ failures \in 0..MaxFailures
  BY <1>1 DEF RegistryTypeOK
<1>6. CASE UNCHANGED <<at, work, asked, foreign>>
  <2>1. RegistryTypeOK'
    BY <1>1, <1>2, <1>5, <1>6 DEF RegistryTypeOK
  <2>2. Creators'
    BY <1>1, <1>3, <1>4, <1>6 DEF Creators, Creator, RegistryTypeOK, Request
  <2>3. Attended'
    BY <1>1, <1>3, <1>4, <1>5, <1>6 DEF Attended, RegistryTypeOK
  <2> QED
    BY <1>2, <1>5, <2>1, <2>2, <2>3 DEF Advances, RegistryShape
<1>7. ASSUME NEW p \in BOOLEAN, Enter(a, m, p)
      PROVE  Advances
  <2> DEFINE r == [model |-> m, promote |-> p, version |-> None]
  <2>1. r \in Request /\ r.model = m /\ r.promote = p
    BY DEF Request
  <2> HIDE DEF r
  <2>2. /\ at' = [at EXCEPT ![a] = "version"] /\ work' = [work EXCEPT ![a] = r]
        /\ asked' = (IF p THEN asked \cup {m} ELSE asked) /\ foreign' = foreign
    BY <1>7 DEF r, Enter
  <2>3. /\ at'[a] = "version" /\ work'[a] = r /\ r # None
        /\ \A b \in Admins : b # a => at'[b] = at[b] /\ work'[b] = work[b]
    BY <1>1, <2>1, <2>2 DEF RegistryTypeOK
  <2>4. RegistryTypeOK'
    BY <1>1, <1>2, <1>5, <2>1, <2>2 DEF RegistryTypeOK
  <2>5. Creators'
    <3>1. ASSUME NEW b \in Admins
          PROVE  Creator(b)'
      <4>1. CASE b = a
        BY <1>3, <1>4, <2>1, <2>2, <2>3, <4>1 DEF Creator
      <4>2. CASE b # a
        BY <1>1, <1>3, <1>4, <2>2, <2>3, <4>2 DEF Creators, Creator
      <4> QED
        BY <4>1, <4>2
    <3>2. \A b, c \in Admins :
            work'[b] # None /\ work'[c] # None /\ work'[b].model = work'[c].model => b = c
      BY <1>1, <1>4, <2>1, <2>3 DEF Creators
    <3>3. \A k \in Models : model'[k] = None => VersionsOf(k)' = {} /\ k \notin asked'
      BY <1>1, <1>3, <2>2 DEF Creators
    <3> QED
      BY <3>1, <3>2, <3>3 DEF Creators
  <2>6. Attended'
    BY <1>1, <1>3, <1>4, <1>5, <2>1, <2>2, <2>3 DEF Attended, RegistryTypeOK
  <2> QED
    BY <1>2, <1>5, <2>4, <2>5, <2>6 DEF Advances, RegistryShape
<1> QED
  BY <1>6, <1>7

(* A version is added: to the model of the request, by its handler, or by  *)
(* another call.                                                           *)
LEMMA VersionStep ==
  ASSUME RegistryShape, NEW m \in Models, NEW v \in Versions, NEW l \in Labels,
         CreateVersion(m, v, l)
  PROVE  /\ UNCHANGED model /\ model[m] # None
         /\ \A k \in Models : VersionsOf(k)' = IF k = m THEN VersionsOf(k) \cup {v} ELSE VersionsOf(k)
<1> USE NoneIsNoRow
<1> DEFINE r == [model |-> m, label |-> l]
<1>1. r \in VersionRow /\ r.model = m
  BY DEF VersionRow
<1> HIDE DEF r
<1>2. UNCHANGED model /\ model[m] # None /\ version[v] = None /\ version' = [version EXCEPT ![v] = r]
  BY DEF r, CreateVersion
<1>3. \A w \in Versions : version'[w] = IF w = v THEN r ELSE version[w]
  BY <1>2 DEF RegistryShape, RegistryTypeOK
<1>4. ASSUME NEW k \in Models
      PROVE  VersionsOf(k)' = IF k = m THEN VersionsOf(k) \cup {v} ELSE VersionsOf(k)
  BY <1>1, <1>2, <1>3 DEF VersionsOf
<1> QED
  BY <1>2, <1>4

(* The second statement of a handler.                                      *)
LEMMA AddVersionStep ==
  ASSUME RegistryShape, Attended, NEW a \in Admins, AddVersion(a)
  PROVE  Advances
<1> USE NoneIsNoRow, RegistryBounds
<1>1. RegistryTypeOK /\ PastInOrder /\ Creators
  BY DEF RegistryShape
<1>2. at[a] = "version" /\ work[a] # None /\ work[a] \in Request /\ Creator(a)
  BY <1>1 DEF AddVersion, Creators, Creator, RegistryTypeOK
<1> DEFINE m == work[a].model
<1>3. m \in Models
  BY <1>2 DEF Request
<1> HIDE DEF m
<1>4. PICK v \in Versions, l \in Labels :
        /\ CreateVersion(m, v, l)
        /\ IF ~work[a].promote THEN Leave(a)
           ELSE /\ at' = [at EXCEPT ![a] = "promote"]
                /\ work' = [work EXCEPT ![a].version = v]
                /\ UNCHANGED <<asked, foreign>>
  BY DEF AddVersion, m
<1>5. /\ model' \in [Models -> ModelRow \cup {None}]
      /\ version' \in [Versions -> VersionRow \cup {None}]
      /\ PastInOrder' /\ Grows
  BY <1>1, <1>3, <1>4, StatementStep
<1>6. /\ UNCHANGED model /\ model[m] # None
      /\ \A k \in Models : VersionsOf(k)' = IF k = m THEN VersionsOf(k) \cup {v} ELSE VersionsOf(k)
  BY <1>3, <1>4, VersionStep
<1>7. /\ failures' = failures /\ failures \in Nat /\ failures \in 0..MaxFailures
      /\ asked' = asked /\ foreign' = foreign
  BY <1>1, <1>4 DEF AddVersion, RegistryTypeOK, Leave
<1>8. \A b \in Admins : b # a /\ work[b] # None => work[b].model # m /\ work[b] \in Request /\ work[b].model \in Models
  BY <1>1, <1>2 DEF Creators, RegistryTypeOK, Request, m
<1>9. CASE ~work[a].promote
  <2>1. at' = [at EXCEPT ![a] = "idle"] /\ work' = [work EXCEPT ![a] = None] /\ m \notin asked
    BY <1>2, <1>4, <1>9 DEF Leave, Creator, m
  <2>2. /\ at'[a] = "idle" /\ work'[a] = None
        /\ \A b \in Admins : b # a => at'[b] = at[b] /\ work'[b] = work[b]
    BY <1>1, <2>1 DEF RegistryTypeOK
  <2>3. RegistryTypeOK'
    BY <1>1, <1>5, <1>7, <2>1 DEF RegistryTypeOK
  <2>4. ASSUME NEW b \in Admins
        PROVE  Creator(b)'
    BY <1>1, <1>6, <1>7, <1>8, <2>2 DEF Creators, Creator
  <2>5. Creators'
    BY <1>1, <1>6, <1>7, <2>2, <2>4 DEF Creators
  <2>6. Attended'
    BY <1>1, <1>6, <1>7, <2>1, <2>2 DEF Attended, m
  <2> QED
    BY <1>5, <1>7, <2>3, <2>5, <2>6 DEF Advances, RegistryShape
<1>10. CASE work[a].promote
  <2> DEFINE r == [work[a] EXCEPT !.version = v]
  <2>1. r \in Request /\ r.model = m /\ r.promote = work[a].promote /\ r.version = v
    BY <1>2 DEF Request, m
  <2> HIDE DEF r
  <2>2. at' = [at EXCEPT ![a] = "promote"] /\ work' = [work EXCEPT ![a] = r]
    BY <1>1, <1>2, <1>4, <1>10 DEF r, RegistryTypeOK
  <2>3. /\ at'[a] = "promote" /\ work'[a] = r /\ r # None
        /\ \A b \in Admins : b # a => at'[b] = at[b] /\ work'[b] = work[b]
    BY <1>1, <2>1, <2>2 DEF RegistryTypeOK
  <2>4. RegistryTypeOK'
    BY <1>1, <1>5, <1>7, <2>1, <2>2 DEF RegistryTypeOK
  <2>5. ASSUME NEW b \in Admins
        PROVE  Creator(b)'
    <3>1. CASE b = a
      BY <1>3, <1>6, <1>10, <2>1, <2>3, <3>1 DEF Creator
    <3>2. CASE b # a
      BY <1>1, <1>6, <1>7, <1>8, <2>3, <3>2 DEF Creators, Creator
    <3> QED
      BY <3>1, <3>2
  <2>6. \A b, c \in Admins :
          work'[b] # None /\ work'[c] # None /\ work'[b].model = work'[c].model => b = c
    BY <1>1, <1>2, <1>8, <2>1, <2>3 DEF Creators
  <2>7. Creators'
    BY <1>1, <1>6, <1>7, <2>5, <2>6 DEF Creators
  <2>8. Attended'
    BY <1>1, <1>2, <1>6, <1>7, <2>1, <2>3 DEF Attended, m
  <2> QED
    BY <1>5, <1>7, <2>4, <2>7, <2>8 DEF Advances, RegistryShape
<1> QED
  BY <1>9, <1>10

(* A version becomes the default of its model, which is READY then.        *)
LEMMA PromoteStep ==
  ASSUME RegistryShape, NEW m \in Models, NEW v \in Versions, PromoteVersion(m, v)
  PROVE  /\ model[m] # None /\ model'[m] # None /\ model'[m].status = "READY"
         /\ \A k \in Models : k # m => model'[k] = model[k]
         /\ \A k \in Models : VersionsOf(k)' = VersionsOf(k)
<1> USE NoneIsNoRow
<1> DEFINE r == [status |-> "READY", default |-> v]
<1>1. r \in ModelRow /\ r.status = "READY"
  BY DEF ModelRow
<1> HIDE DEF r
<1>2. v \in VersionsOf(m) /\ model' = [model EXCEPT ![m] = r] /\ version' = version
  BY DEF r, PromoteVersion
<1>3. model[m] # None
  BY <1>2 DEF RegistryShape, Creators
<1>4. \A k \in Models : VersionsOf(k)' = VersionsOf(k)
  BY <1>2 DEF VersionsOf
<1> QED
  BY <1>1, <1>2, <1>3, <1>4 DEF RegistryShape, RegistryTypeOK

(* The third statement of a handler.                                       *)
LEMMA PromoteOwnStep ==
  ASSUME RegistryShape, Attended, NEW a \in Admins, PromoteOwn(a)
  PROVE  Advances
<1> USE NoneIsNoRow, RegistryBounds
<1>1. RegistryTypeOK /\ PastInOrder /\ Creators
  BY DEF RegistryShape
<1>2. at[a] = "promote" /\ work[a] # None /\ work[a] \in Request /\ Creator(a)
  BY <1>1 DEF PromoteOwn, Creators, Creator, RegistryTypeOK
<1> DEFINE m == work[a].model
<1> DEFINE v == work[a].version
<1>3. m \in Models /\ v \in Versions
  BY <1>2 DEF Request, Creator, VersionsOf
<1> HIDE DEF m, v
<1>4. PromoteVersion(m, v) /\ Leave(a) /\ UNCHANGED failures
  BY DEF PromoteOwn, m, v
<1>5. /\ model' \in [Models -> ModelRow \cup {None}]
      /\ version' \in [Versions -> VersionRow \cup {None}]
      /\ PastInOrder' /\ Grows
  BY <1>1, <1>3, <1>4, StatementStep
<1>6. /\ model[m] # None /\ model'[m] # None /\ model'[m].status = "READY"
      /\ \A k \in Models : k # m => model'[k] = model[k]
      /\ \A k \in Models : VersionsOf(k)' = VersionsOf(k)
  BY <1>3, <1>4, PromoteStep
<1>7. /\ failures' = failures /\ failures \in Nat /\ failures \in 0..MaxFailures
      /\ asked' = asked /\ foreign' = foreign
  BY <1>1, <1>4 DEF RegistryTypeOK, Leave
<1>8. /\ at' = [at EXCEPT ![a] = "idle"] /\ work' = [work EXCEPT ![a] = None]
      /\ at'[a] = "idle" /\ work'[a] = None
      /\ \A b \in Admins : b # a => at'[b] = at[b] /\ work'[b] = work[b]
  BY <1>1, <1>4 DEF Leave, RegistryTypeOK
<1>9. RegistryTypeOK'
  BY <1>1, <1>5, <1>7, <1>8 DEF RegistryTypeOK
<1>10. ASSUME NEW b \in Admins
       PROVE  Creator(b)'
  <2>1. CASE b = a
    BY <1>8, <2>1 DEF Creator
  <2>2. CASE b # a
    <3>1. Creator(b) /\ at'[b] = at[b] /\ work'[b] = work[b]
      BY <1>1, <1>8, <2>2 DEF Creators
    <3>2. at[b] # "idle" => work[b].model \in Models
      BY <1>1, <3>1 DEF Creator, RegistryTypeOK, Request
    <3> QED
      BY <1>6, <1>7, <3>1, <3>2 DEF Creator
  <2> QED
    BY <2>1, <2>2
<1>11. Creators'
  BY <1>1, <1>6, <1>7, <1>8, <1>10 DEF Creators
<1>12. Attended'
  BY <1>1, <1>6, <1>7, <1>8 DEF Attended, m, RegistryTypeOK
<1> QED
  BY <1>5, <1>7, <1>9, <1>11, <1>12 DEF Advances, RegistryShape

(* Calls that stand alone: another version, another promotion; and the     *)
(* handlers that end early.                                                *)
LEMMA OtherCallStep ==
  ASSUME RegistryShape, Attended, NEW m \in Models,
         HandleCreateVersion(m) \/ HandlePromoteVersion(m)
  PROVE  Advances
<1> USE NoneIsNoRow, RegistryBounds
<1>1. RegistryTypeOK /\ PastInOrder /\ Creators
  BY DEF RegistryShape
<1>2. failures' = failures /\ failures \in Nat /\ failures \in 0..MaxFailures
  BY <1>1 DEF RegistryTypeOK, HandleCreateVersion, HandlePromoteVersion
<1>3. /\ model' \in [Models -> ModelRow \cup {None}]
      /\ version' \in [Versions -> VersionRow \cup {None}]
      /\ PastInOrder' /\ Grows
  BY <1>1, StatementStep DEF HandleCreateVersion, HandlePromoteVersion
<1>4. CASE HandleCreateVersion(m)
  <2>1. PICK v \in Versions, l \in Labels : CreateVersion(m, v, l)
    BY <1>4 DEF HandleCreateVersion
  <2>2. /\ UNCHANGED model /\ model[m] # None
        /\ \A k \in Models : VersionsOf(k)' = IF k = m THEN VersionsOf(k) \cup {v} ELSE VersionsOf(k)
    BY <2>1, VersionStep
  <2>3. UNCHANGED <<at, work, asked>> /\ foreign' = foreign \cup {m}
    BY <1>4 DEF HandleCreateVersion
  <2>4. RegistryTypeOK'
    BY <1>1, <1>2, <1>3, <2>3 DEF RegistryTypeOK
  <2>5. ASSUME NEW b \in Admins
        PROVE  Creator(b)'
    BY <1>1, <2>2, <2>3 DEF Creators, Creator, RegistryTypeOK, Request
  <2>6. Creators'
    BY <1>1, <2>2, <2>3, <2>5 DEF Creators
  <2>7. Attended'
    BY <1>1, <1>2, <2>2, <2>3 DEF Attended
  <2> QED
    BY <1>2, <1>3, <2>4, <2>6, <2>7 DEF Advances, RegistryShape
<1>5. CASE HandlePromoteVersion(m)
  <2>1. PICK v \in Versions : PromoteVersion(m, v)
    BY <1>5 DEF HandlePromoteVersion
  <2>2. /\ model[m] # None /\ model'[m] # None /\ model'[m].status = "READY"
        /\ \A k \in Models : k # m => model'[k] = model[k]
        /\ \A k \in Models : VersionsOf(k)' = VersionsOf(k)
    BY <2>1, PromoteStep
  <2>3. UNCHANGED <<at, work, asked, foreign>>
    BY <1>5 DEF HandlePromoteVersion
  <2>4. RegistryTypeOK'
    BY <1>1, <1>2, <1>3, <2>3 DEF RegistryTypeOK
  <2>5. ASSUME NEW b \in Admins
        PROVE  Creator(b)'
    <3>1. Creator(b)
      BY <1>1 DEF Creators
    <3>2. work[b] # None /\ at[b] # "idle" => work[b].model \in Models
      BY <1>1 DEF RegistryTypeOK, Request
    <3> QED
      BY <2>2, <2>3, <3>1, <3>2 DEF Creator
  <2>6. Creators'
    BY <1>1, <2>2, <2>3, <2>5 DEF Creators
  <2>7. Attended'
    BY <1>1, <1>2, <2>2, <2>3 DEF Attended, RegistryTypeOK
  <2> QED
    BY <1>2, <1>3, <2>4, <2>6, <2>7 DEF Advances, RegistryShape
<1> QED
  BY <1>4, <1>5

(* A handler that does not go on leaves what it did; its model may stay    *)
(* unserved, but then a statement failed or another call took the label.   *)
LEMMA LeaveStep ==
  ASSUME RegistryShape, Attended, NEW a \in Admins, LabelTaken(a) \/ StatementFails(a)
  PROVE  Advances
<1> USE NoneIsNoRow, RegistryBounds
<1>1. RegistryTypeOK /\ PastInOrder /\ Creators
  BY DEF RegistryShape
<1>2. UNCHANGED tableVars /\ Leave(a)
  BY DEF LabelTaken, StatementFails
<1>3. /\ failures \in Nat /\ failures' \in Nat /\ failures' >= failures /\ failures' \in 0..MaxFailures
      /\ failures' > 0 \/ LabelTaken(a)
  BY <1>1 DEF RegistryTypeOK, LabelTaken, StatementFails
<1>4. at[a] # "idle" /\ work[a] # None /\ work[a] \in Request /\ work[a].model \in Models
  BY <1>1 DEF Creators, Creator, RegistryTypeOK, Request, LabelTaken, StatementFails
<1>5. /\ at' = [at EXCEPT ![a] = "idle"] /\ work' = [work EXCEPT ![a] = None]
      /\ at'[a] = "idle" /\ work'[a] = None /\ asked' = asked /\ foreign' = foreign
      /\ \A b \in Admins : b # a => at'[b] = at[b] /\ work'[b] = work[b]
  BY <1>1, <1>2 DEF Leave, RegistryTypeOK
<1>6. /\ model' = model /\ version' = version /\ PastInOrder' /\ Grows
      /\ \A k \in Models : VersionsOf(k)' = VersionsOf(k)
  <2>1. PastInOrder' /\ Grows
    BY <1>1, <1>2, <1>4, StatementStep
  <2> QED
    BY <1>2, <2>1 DEF tableVars, VersionsOf
<1>7. RegistryTypeOK'
  BY <1>1, <1>3, <1>5, <1>6 DEF RegistryTypeOK
<1>8. ASSUME NEW b \in Admins
      PROVE  Creator(b)'
  <2>1. CASE b = a
    BY <1>5, <2>1 DEF Creator
  <2>2. CASE b # a
    <3>1. Creator(b) /\ at'[b] = at[b] /\ work'[b] = work[b]
      BY <1>1, <1>5, <2>2 DEF Creators
    <3>2. at[b] # "idle" => work[b].model \in Models
      BY <1>1, <3>1 DEF Creator, RegistryTypeOK, Request
    <3> QED
      BY <1>5, <1>6, <3>1, <3>2 DEF Creator
  <2> QED
    BY <2>1, <2>2
<1>9. Creators'
  BY <1>1, <1>5, <1>6, <1>8 DEF Creators
<1>10. Attended'
  <2>1. failures' > 0 \/ work[a].model \in foreign
    BY <1>1, <1>3, <1>4 DEF LabelTaken, Creators, Creator
  <2>2. ASSUME failures' = 0
        PROVE  Attended'
    <3>1. failures = 0 /\ work[a].model \in foreign
      BY <1>3, <2>1, <2>2
    <3> QED
      BY <1>5, <1>6, <3>1 DEF Attended
  <2> QED
    BY <1>3, <2>2 DEF Attended
<1> QED
  BY <1>3, <1>6, <1>7, <1>9, <1>10 DEF Advances, RegistryShape

(* All of them; every other step of the system leaves the registry alone.  *)
LEMMA RegistryStep ==
  ASSUME RegistryShape, Attended, Registry
  PROVE  Advances /\ Rest
<1>1. ASSUME NEW a \in Admins, NEW m \in Models, HandleCreateModel(a, m) \/ HandleImport(a, m)
      PROVE  Advances
  BY <1>1, CreateStep DEF HandleCreateModel, HandleImport
<1> QED
  BY <1>1, AddVersionStep, PromoteOwnStep, LeaveStep, OtherCallStep DEF Registry

-----------------------------------------------------------------------------
(* Steps of a submission.                                                  *)

(* Nothing happens to a submission itself.                                 *)
Still(t) ==
  /\ pc'[t] = pc[t] /\ ask'[t] = ask[t] /\ known'[t] = known[t] /\ step'[t] = step[t]
  /\ got'[t] = got[t] /\ found'[t] = found[t] /\ job'[t] = job[t]
  /\ queued'[t] = queued[t] /\ answer'[t] = answer[t]

(* What others do does not harm it: listings come, none is lost, and one   *)
(* that is stored is a later one or a step back that is remembered.        *)
LEMMA OthersHarmless ==
  ASSUME AdmissionTypeOK, RegistryShape, RegistryShape', Grows,
         failures' \in Nat, failures' >= failures,
         rolledBack => rolledBack', rolledBack' \/ cache' >= cache,
         cache' \in 0..Len(past),
         NEW t \in Submissions, Submitted(t), Still(t)
  PROVE  Submitted(t)'
<1> USE NoneIsNoRow, NoneIsNoAnswer
<1>1. /\ got[t] \in 0..Len(past) /\ found[t] \in 0..Len(past) /\ cache \in 0..Len(past)
      /\ Len(past) \in Nat /\ Len(past) > 0 /\ Len(past') \in Nat /\ Len(past') >= Len(past)
      /\ failures \in Nat /\ (failures > 0 => failures' > 0)
  BY RegistryBounds DEF AdmissionTypeOK, RegistryShape, PastInOrder, RegistryTypeOK, Grows
<1>2. /\ \A k \in 1..Len(past) : past'[k] = past[k]
      /\ \A i, k \in 1..Len(past') : i <= k => Keeps(past'[i], past'[k])
  BY DEF Grows, RegistryShape, PastInOrder
<1>3. ask[t] # None => ask[t].model \in Models
  BY DEF AdmissionTypeOK, Identifiers
<1>4. \A m \in Models : VersionsOf(m) \subseteq VersionsOf(m)'
  BY DEF Grows, VersionsOf, RegistryShape, RegistryTypeOK
<1>5. Standing(t)'
  <2>1. found'[t] = found[t] /\ ask'[t] = ask[t] /\ Standing(t)
    BY DEF Still, Submitted
  <2>2. pc[t] = "select" => Listing(found[t]) = past[found[t]] /\ Listing(found[t])' = past'[found[t]]
    BY <2>1 DEF Standing, Listing
  <2>3. pc[t] = "select" => past'[found[t]] = past[found[t]]
    BY <1>1, <1>2, <2>1 DEF Standing
  <2>4. pc[t] = "select" => Listing(found[t])' = Listing(found[t])
    BY <2>2, <2>3
  <2> QED
    BY <2>1, <2>4 DEF Still, Standing
<1>6. ASSUME NEW k \in 1..Len(past), NEW i \in 1..Len(past'), k <= i, known[t], Has(t, k)
      PROVE  past'[i][ask[t].model] # None /\ past'[i][ask[t].model].default # None
  <2>1. Keeps(past'[k], past'[i])
    BY <1>1, <1>2, <1>6
  <2>2. ask[t].model \in Models
    BY <1>3, <1>6 DEF Submitted, Standing
  <2> QED
    BY <1>2, <1>6, <2>1, <2>2 DEF Keeps, Has
<1>7. Sought(t)'
  <2>1. CASE ~known[t]
    BY <2>1 DEF Still, Sought
  <2>2. CASE known[t]
    <3>1. Has(t, Len(past))
      BY <2>2 DEF Submitted, Sought
    <3>2. Has(t, Len(past))'
      <4>1. Len(past) \in 1..Len(past) /\ Len(past') \in 1..Len(past') /\ Len(past) <= Len(past')
        BY <1>1
      <4>2. /\ past'[Len(past')][ask[t].model] # None
            /\ past'[Len(past')][ask[t].model].default # None
        BY <1>6, <2>2, <3>1, <4>1
      <4> QED
        BY <1>1, <4>2 DEF Has, Still
    <3>3. pc[t] \in {"store", "restore"} /\ Has(t, got[t]) => Has(t, got[t])'
      BY <1>1, <1>6, <2>2 DEF Has, Still
    <3>4. rolledBack' \/ (Has(t, cache) => Has(t, cache)')
      BY <1>1, <1>6, <2>2 DEF Has, Still
    <3> QED
      BY <1>1, <2>2, <3>2, <3>3, <3>4 DEF Submitted, Sought, Still
  <2> QED
    BY <2>1, <2>2
<1>8. OnItsVersion(t)'
  BY <1>3, <1>4 DEF Submitted, OnItsVersion, Standing, Still
<1> QED
  BY <1>5, <1>7, <1>8 DEF Submitted


(* What the step of one submission owes.                                   *)
Moves(s) ==
  /\ UNCHANGED registryVars /\ AdmissionTypeOK' /\ failures' >= failures
  /\ rolledBack => rolledBack'
  /\ rolledBack' \/ cache' >= cache
  /\ InTime' /\ Submitted(s)'
  /\ found'[s] \notin {0, found[s]} => found'[s] >= floor \/ late'
  /\ \A t \in Submissions : t # s => Still(t)

(* The places of a submission.                                             *)
Stations == {"idle", "look", "fetch", "store", "refetch", "restore",
             "select", "admit", "respond", "done"}

(* A lookup: a hit in a listing, or the next lookup, a refresh or a        *)
(* refusal.                                                                *)
LEMMA Resolved ==
  ASSUME AdmissionTypeOK, NEW s \in Submissions, NEW k \in 0..Len(past), Resolve(s, k),
         ask[s] # None
  PROVE  /\ pc' \in [Submissions -> Stations] /\ step' \in [Submissions -> 1..4]
         /\ found' \in [Submissions -> 0..Len(past)]
         /\ \A t \in Submissions : t # s => pc'[t] = pc[t] /\ step'[t] = step[t] /\ found'[t] = found[t]
         /\ \/ /\ Hits(s, k) /\ found'[s] = k /\ k # 0 /\ step'[s] = step[s]
               /\ \/ pc'[s] = "respond"
                  \/ pc'[s] = "select" /\ past[k][ask[s].model].default # None
            \/ /\ ~Hits(s, k) /\ found'[s] = found[s]
               /\ \/ pc'[s] = "refetch" /\ step[s] = 2 /\ step'[s] = 2
                  \/ pc'[s] = "respond" /\ step[s] = 4 /\ step'[s] = 4
                  \/ pc'[s] = "look" /\ step[s] = 1 /\ step'[s] = 2
                  \/ pc'[s] = "look" /\ step[s] = 3 /\ step'[s] = 4
<1> USE NoneIsNoAnswer DEF AdmissionTypeOK, Stations, Goto
<1>1. ask[s].model \in Models /\ step[s] \in 1..4
  BY DEF Identifiers
<1>2. CASE Hits(s, k)
  <2>1. k # 0
    BY <1>1, <1>2 DEF Hits, Listing, NoModel
  <2>2. CASE Listing(k)[ask[s].model].default = None
    <3>1. found' = [found EXCEPT ![s] = k] /\ pc' = [pc EXCEPT ![s] = "respond"] /\ step' = step
      BY <1>2, <2>2 DEF Resolve
    <3> QED
      BY <1>2, <2>1, <3>1
  <2>3. CASE Listing(k)[ask[s].model].default # None
    <3>1. found' = [found EXCEPT ![s] = k] /\ pc' = [pc EXCEPT ![s] = "select"] /\ step' = step
      BY <1>2, <2>3 DEF Resolve
    <3>2. past[k][ask[s].model].default # None
      BY <2>1, <2>3 DEF Listing
    <3> QED
      BY <1>2, <2>1, <3>1, <3>2
  <2> QED
    BY <2>2, <2>3
<1>3. CASE ~Hits(s, k)
  <2>1. CASE step[s] = 2
    <3>1. pc' = [pc EXCEPT ![s] = "refetch"] /\ step' = step /\ found' = found
      BY <1>3, <2>1 DEF Resolve
    <3> QED
      BY <1>3, <2>1, <3>1
  <2>2. CASE step[s] = 4
    <3>1. pc' = [pc EXCEPT ![s] = "respond"] /\ step' = step /\ found' = found
      BY <1>3, <2>2 DEF Resolve
    <3> QED
      BY <1>3, <2>2, <3>1
  <2>3. CASE step[s] \in {1, 3}
    <3>1. pc' = [pc EXCEPT ![s] = "look"] /\ step' = [step EXCEPT ![s] = step[s] + 1] /\ found' = found
      BY <1>3, <2>3 DEF Resolve
    <3> QED
      BY <1>3, <2>3, <3>1
  <2> QED
    BY <1>1, <2>1, <2>2, <2>3
<1> QED
  BY <1>2, <1>3

(* The listing that has what was asked for is one that a lookup hits, and  *)
(* no lookup by its own key misses it.                                     *)
LEMMA FoundWhenThere ==
  ASSUME AdmissionTypeOK, NEW s \in Submissions, NEW k \in 0..Len(past), Has(s, k),
         step[s] = 4 => ask[s].byId, step[s] \in {3, 4}, ~Hits(s, k), ask[s] # None
  PROVE  step[s] = 3 /\ ask[s].byId
BY NoneIsNoAnswer DEF Has, Hits, Listing, AdmissionTypeOK, Identifiers

(* What a lookup leaves a submission with.                                 *)
LEMMA ResolvedWell ==
  ASSUME AdmissionInv, NEW s \in Submissions, NEW k \in 0..Len(past), Resolve(s, k),
         pc[s] \in {"look", "store"}, UNCHANGED registryVars, UNCHANGED failures,
         ask'[s] = ask[s], known'[s] = known[s], job'[s] = job[s], queued'[s] = queued[s],
         answer'[s] = answer[s], cache' = k, rolledBack => rolledBack',
         known[s] /\ step[s] \in {3, 4} => failures > 0 \/ rolledBack \/ Has(s, k)
  PROVE  Submitted(s)'
<1> USE NoneIsNoAnswer, NoneIsNoRow
<1>1. AdmissionTypeOK /\ Submitted(s) /\ ask[s] # None
  BY DEF AdmissionInv, Submitted, Standing
<1>2. /\ Len(past) \in Nat /\ past' = past /\ version' = version
      /\ ask[s].model \in Models /\ step[s] \in 1..4
  BY <1>1 DEF AdmissionTypeOK, Identifiers, AdmissionInv, RegistryShape, PastInOrder, registryVars, tableVars
<1>3. \/ /\ Hits(s, k) /\ found'[s] = k /\ k # 0 /\ step'[s] = step[s]
         /\ \/ pc'[s] = "respond"
            \/ pc'[s] = "select" /\ past[k][ask[s].model].default # None
      \/ /\ ~Hits(s, k) /\ found'[s] = found[s]
         /\ \/ pc'[s] = "refetch" /\ step[s] = 2 /\ step'[s] = 2
            \/ pc'[s] = "respond" /\ step[s] = 4 /\ step'[s] = 4
            \/ pc'[s] = "look" /\ step[s] = 1 /\ step'[s] = 2
            \/ pc'[s] = "look" /\ step[s] = 3 /\ step'[s] = 4
  BY <1>1, Resolved
<1>4. job[s] = None /\ ~queued[s]
  BY <1>1 DEF Submitted, Standing
<1>5. Standing(s)'
  <2>1. pc'[s] = "select" => /\ past[found'[s]][ask[s].model] # None
                             /\ past[found'[s]][ask[s].model].default # None
    BY <1>3 DEF Hits, Listing
  <2> QED
    BY <1>1, <1>2, <1>3, <1>4, <2>1 DEF Submitted, Standing, Listing
<1>6. Sought(s)'
  <2>1. CASE ~known[s]
    BY <2>1 DEF Sought
  <2>2. CASE known[s] /\ (failures > 0 \/ rolledBack)
    BY <1>1, <1>2, <2>2 DEF Submitted, Sought, Has
  <2>3. CASE known[s] /\ ~(failures > 0 \/ rolledBack)
    <3>1. /\ Has(s, Len(past)) /\ (step[s] \in {3, 4} => Has(s, k))
          /\ step[s] = 4 => ask[s].byId
      BY <1>1, <2>3 DEF Submitted, Sought
    <3>2. ~Hits(s, k) /\ step[s] \in {3, 4} => step[s] = 3 /\ ask[s].byId
      BY <1>1, <3>1, FoundWhenThere
    <3>3. /\ pc'[s] = "respond" => found'[s] # 0
          /\ pc'[s] = "look" /\ step'[s] \in {3, 4} => Has(s, k) /\ ask[s].byId
          /\ pc'[s] \notin {"store", "restore", "fetch"}
      BY <1>3, <3>1, <3>2
    <3> QED
      BY <1>2, <2>3, <3>1, <3>3 DEF Sought, Has
  <2> QED
    BY <2>1, <2>2, <2>3
<1>7. OnItsVersion(s)'
  BY <1>4 DEF OnItsVersion
<1> QED
  BY <1>5, <1>6, <1>7 DEF Submitted


(* What every step of a submission shares: the registry does not move, and *)
(* a failure is one more.                                                  *)
LEMMA HandlerFrame ==
  ASSUME AdmissionInv, NEW s \in Submissions, Handler(s)
  PROVE  /\ UNCHANGED registryVars /\ past' = past /\ version' = version
         /\ failures \in Nat /\ failures' \in Nat /\ failures' \in 0..MaxFailures
         /\ failures' >= failures /\ RegistryTypeOK'
<1>1. UNCHANGED registryVars
  BY DEF Handler, Submit, Look, Fetch, Store, Refetch, Restore, SelectNode, Admit, Respond,
         GiveUp, Dropped, Handles, Return
<1>2. /\ failures \in Nat /\ failures \in 0..MaxFailures /\ RegistryTypeOK
      /\ failures' = failures \/ (failures < MaxFailures /\ failures' = failures + 1)
  BY RegistryBounds DEF Handler, Submit, Look, Fetch, Store, Refetch, Restore, SelectNode, Admit, Respond,
         GiveUp, Dropped, Return, FetchRemote, FetchFails, AdmissionInv, AdmissionTypeOK, RegistryTypeOK
<1>3. failures' \in Nat /\ failures' \in 0..MaxFailures /\ failures' >= failures
  BY <1>2, RegistryBounds
<1> QED
  BY <1>1, <1>2, <1>3 DEF registryVars, tableVars, RegistryTypeOK, VersionRow, ModelRow, Request

(* It comes: what it names is in the last listing, if it was known.        *)
LEMMA SubmitMoves ==
  ASSUME AdmissionInv, NEW s \in Submissions, Submit(s)
  PROVE  Moves(s)
<1> USE NoneIsNoAnswer, NoneIsNoRow
<1>1. AdmissionTypeOK /\ Submitted(s) /\ RegistryShape
  BY DEF AdmissionInv
<1>2. /\ UNCHANGED registryVars /\ past' = past /\ version' = version
      /\ failures \in Nat /\ failures' >= failures /\ RegistryTypeOK'
  BY HandlerFrame DEF Handler
<1>3. PICK m \in Wanted, b \in BOOLEAN :
        /\ ask' = [ask EXCEPT ![s] = [model |-> m, byId |-> b]]
        /\ known' = [known EXCEPT ![s] = model[m] # None /\ model[m].default # None]
  BY DEF Submit
<1> DEFINE r == [model |-> m, byId |-> b]
<1>4. r \in Identifiers /\ r.model = m /\ m \in Models
  BY WantedAreModels DEF Identifiers
<1> HIDE DEF r
<1>5. /\ pc[s] = "idle" /\ pc' = [pc EXCEPT ![s] = "look"] /\ ask' = [ask EXCEPT ![s] = r]
      /\ UNCHANGED <<failures, cache, fresh, floor, rolledBack, late, step, got, found, job, queued, answer>>
  BY <1>3 DEF Submit, r, Goto, cacheVars, Untold
<1>6. known' \in [Submissions -> BOOLEAN]
      /\ \A t \in Submissions : t # s => known'[t] = known[t]
  BY <1>1, <1>3 DEF AdmissionTypeOK
<1>7. known'[s] => model[m] # None /\ model[m].default # None
  BY <1>1, <1>3 DEF AdmissionTypeOK
<1>8. AdmissionTypeOK'
  BY <1>1, <1>2, <1>4, <1>5, <1>6 DEF AdmissionTypeOK
<1>9. pc'[s] = "look" /\ ask'[s] = r /\ r # None
  BY <1>1, <1>4, <1>5 DEF AdmissionTypeOK
<1>10. Standing(s)' /\ OnItsVersion(s)'
  BY <1>1, <1>5, <1>9 DEF Submitted, Standing, OnItsVersion
<1>11. Sought(s)'
  <2>1. known'[s] => Has(s, Len(past))'
    BY <1>1, <1>2, <1>4, <1>7, <1>9 DEF Has, RegistryShape, PastInOrder
  <2>2. step'[s] = 1 /\ pc'[s] = "look"
    BY <1>1, <1>5, <1>9 DEF Submitted, Standing
  <2> QED
    BY <2>1, <2>2 DEF Sought
<1>12. \A t \in Submissions : t # s => Still(t)
  BY <1>1, <1>5, <1>6 DEF AdmissionTypeOK, Still
<1>13. InTime' /\ cache' >= cache /\ found'[s] = found[s]
  BY <1>1, <1>5 DEF AdmissionInv, InTime, AdmissionTypeOK, RegistryShape, PastInOrder
<1> QED
  BY <1>2, <1>5, <1>8, <1>10, <1>11, <1>12, <1>13 DEF Moves, Submitted

(* A lookup in the cache, or the way to a fetch.                           *)
LEMMA LookMoves ==
  ASSUME AdmissionInv, NEW s \in Submissions, Look(s)
  PROVE  Moves(s)
<1> USE NoneIsNoAnswer, NoneIsNoRow
<1>1. AdmissionTypeOK /\ Submitted(s) /\ RegistryShape /\ Len(past) \in Nat
      /\ cache \in 0..Len(past) /\ cache \in Int /\ floor \in Int
  BY DEF AdmissionInv, AdmissionTypeOK, RegistryShape, PastInOrder
<1>2. /\ UNCHANGED registryVars /\ past' = past /\ version' = version
      /\ failures \in Nat /\ failures' >= failures /\ RegistryTypeOK'
  BY HandlerFrame DEF Handler
<1>3. /\ pc[s] = "look" /\ UNCHANGED <<ask, known, got, job, queued, answer, failures>>
      /\ UNCHANGED <<cache, fresh, floor, rolledBack, late>>
  BY DEF Look, Handles, Untold, cacheVars
<1>4. ask[s] # None
  BY <1>1, <1>3 DEF Submitted, Standing
<1>5. InTime' /\ cache' >= cache
  BY <1>1, <1>3 DEF AdmissionInv, InTime
<1>6. CASE fresh /\ Resolve(s, cache)
  <2>1. /\ pc' \in [Submissions -> Stations] /\ step' \in [Submissions -> 1..4]
        /\ found' \in [Submissions -> 0..Len(past)]
        /\ \A t \in Submissions : t # s => pc'[t] = pc[t] /\ step'[t] = step[t] /\ found'[t] = found[t]
        /\ found'[s] = found[s] \/ (found'[s] = cache /\ cache # 0)
    BY <1>1, <1>4, <1>6, Resolved
  <2>2. AdmissionTypeOK'
    BY <1>1, <1>2, <1>3, <2>1 DEF AdmissionTypeOK, Stations
  <2>3. known[s] /\ step[s] \in {3, 4} => failures > 0 \/ rolledBack \/ Has(s, cache)
    BY <1>1, <1>3 DEF Submitted, Sought
  <2>4. Submitted(s)'
    BY <1>1, <1>2, <1>3, <1>6, <2>3, ResolvedWell
  <2>5. found'[s] \notin {0, found[s]} => found'[s] >= floor \/ late'
    BY <1>3, <1>6, <2>1 DEF AdmissionInv, InTime
  <2>6. \A t \in Submissions : t # s => Still(t)
    BY <1>3, <2>1 DEF Still
  <2> QED
    BY <1>2, <1>3, <1>5, <2>2, <2>4, <2>5, <2>6 DEF Moves
<1>7. CASE pc' = [pc EXCEPT ![s] = "fetch"] /\ UNCHANGED <<step, found>>
  <2>1. AdmissionTypeOK'
    BY <1>1, <1>2, <1>3, <1>7 DEF AdmissionTypeOK
  <2>2. pc'[s] = "fetch" /\ \A t \in Submissions : t # s => Still(t)
    BY <1>1, <1>3, <1>7 DEF AdmissionTypeOK, Still
  <2>3. Submitted(s)'
    <3>1. Standing(s)' /\ OnItsVersion(s)'
      BY <1>1, <1>2, <1>3, <1>7, <2>2 DEF Submitted, Standing, OnItsVersion
    <3>2. Sought(s)'
      BY <1>1, <1>2, <1>3, <1>7, <2>2 DEF Submitted, Sought, Has
    <3> QED
      BY <3>1, <3>2 DEF Submitted
  <2> QED
    BY <1>2, <1>3, <1>5, <1>7, <2>1, <2>2, <2>3 DEF Moves
<1> QED
  BY <1>6, <1>7 DEF Look, CacheWillDo, Goto


(* An answer of the registry is its last listing; a fetch that fails is    *)
(* counted.                                                                *)
LEMMA FetchMoves ==
  ASSUME AdmissionInv, NEW s \in Submissions, Fetch(s) \/ Refetch(s)
  PROVE  Moves(s)
<1> USE NoneIsNoAnswer, NoneIsNoRow
<1>1. AdmissionTypeOK /\ Submitted(s) /\ RegistryShape /\ Len(past) \in Nat
      /\ cache \in Int /\ floor \in Int
  BY DEF AdmissionInv, AdmissionTypeOK, RegistryShape, PastInOrder
<1>2. /\ UNCHANGED registryVars /\ past' = past /\ version' = version
      /\ failures \in Nat /\ failures' \in Nat /\ failures' >= failures /\ RegistryTypeOK'
  BY HandlerFrame DEF Handler
<1>3. /\ UNCHANGED <<ask, known, step, found, job, queued, answer>>
      /\ UNCHANGED <<cache, fresh, floor, rolledBack, late>>
  BY DEF Fetch, Refetch, Handles, Untold, cacheVars
<1>4. InTime' /\ cache' >= cache
  BY <1>1, <1>3 DEF AdmissionInv, InTime
<1>5. PICK k \in 0..Len(past), l \in {"store", "restore", "respond"} :
        /\ got' = [got EXCEPT ![s] = k] /\ pc' = [pc EXCEPT ![s] = l]
        /\ k = Len(past) \/ failures' > 0
        /\ l = "respond" => failures' > 0
        /\ pc[s] \in {"fetch", "refetch"}
  BY <1>1, <1>2 DEF Fetch, Refetch, FetchRemote, FetchFails, ListModels, Goto, Handles
<1>6. AdmissionTypeOK'
  BY <1>1, <1>2, <1>3, <1>5 DEF AdmissionTypeOK
<1>7. /\ pc'[s] = l /\ got'[s] = k /\ \A t \in Submissions : t # s => Still(t)
  BY <1>1, <1>3, <1>5 DEF AdmissionTypeOK, Still
<1>8. job[s] = None /\ ~queued[s] /\ ask[s] # None
  BY <1>1, <1>5 DEF Submitted, Standing
<1>9. Standing(s)' /\ OnItsVersion(s)'
  BY <1>1, <1>3, <1>7, <1>8 DEF Submitted, Standing, OnItsVersion
<1>10. Sought(s)'
  <2>1. CASE ~known[s]
    BY <1>3, <2>1 DEF Sought
  <2>2. CASE known[s] /\ (failures' > 0 \/ rolledBack)
    BY <1>1, <1>2, <1>3, <2>2 DEF Submitted, Sought, Has
  <2>3. CASE known[s] /\ ~(failures' > 0 \/ rolledBack)
    <3>1. failures = 0 /\ k = Len(past) /\ l # "respond" /\ Has(s, Len(past))
      BY <1>1, <1>2, <1>5, <2>3 DEF Submitted, Sought
    <3>2. /\ Has(s, Len(past))' /\ Has(s, got[s])'
          /\ Has(s, cache) => Has(s, cache)'
      BY <1>2, <1>3, <1>7, <3>1 DEF Has
    <3>3. CASE Fetch(s)
      <4>1. pc[s] = "fetch" /\ l = "store"
        BY <1>1, <1>5, <1>7, <3>3 DEF Fetch, Handles, Goto, AdmissionTypeOK
      <4> QED
        BY <1>1, <1>3, <1>7, <2>3, <3>1, <3>2, <4>1 DEF Submitted, Sought
    <3>4. CASE Refetch(s)
      <4>1. pc[s] = "refetch" /\ l = "restore"
        BY <1>1, <1>2, <1>5, <1>7, <3>1, <3>4 DEF Refetch, Handles, Goto, AdmissionTypeOK
      <4> QED
        BY <1>7, <3>2, <4>1 DEF Sought
    <3> QED
      BY <3>3, <3>4
  <2> QED
    BY <2>1, <2>2, <2>3
<1> QED
  BY <1>2, <1>3, <1>4, <1>6, <1>7, <1>9, <1>10 DEF Moves, Submitted

(* What is stored: a step back is remembered, and so is a listing from     *)
(* before the last expiry.                                                 *)
LEMMA Stored ==
  ASSUME AdmissionInv, NEW s \in Submissions, StoreModels(s)
  PROVE  /\ cache' = got[s] /\ cache' \in 0..Len(past) /\ fresh' = TRUE /\ floor' = floor
         /\ rolledBack' \in BOOLEAN /\ late' \in BOOLEAN
         /\ rolledBack => rolledBack'
         /\ rolledBack' \/ cache' >= cache
         /\ cache' = 0 \/ cache' >= floor \/ late'
         /\ InTime'
<1>1. /\ got[s] \in 0..Len(past) /\ cache \in 0..Len(past) /\ floor \in 0..Len(past)
      /\ Len(past) \in Nat /\ got[s] \in Int /\ cache \in Int /\ floor \in Int
  BY DEF AdmissionInv, AdmissionTypeOK, RegistryShape, PastInOrder
<1>2. /\ cache' = got[s] /\ fresh' = TRUE /\ floor' = floor
      /\ rolledBack' \in BOOLEAN /\ late' \in BOOLEAN
      /\ rolledBack => rolledBack'
      /\ rolledBack' \/ ~(got[s] < cache)
      /\ late' \/ got[s] \notin 1..(floor - 1)
  BY DEF StoreModels, AdmissionInv, AdmissionTypeOK
<1>3. cache' = 0 \/ cache' >= floor \/ late'
  BY <1>1, <1>2
<1> QED
  BY <1>1, <1>2, <1>3 DEF InTime

(* The listing comes into the cache, and the lookup is of that one.        *)
LEMMA StoreMoves ==
  ASSUME AdmissionInv, NEW s \in Submissions, Store(s)
  PROVE  Moves(s)
<1> USE NoneIsNoAnswer, NoneIsNoRow
<1>1. AdmissionTypeOK /\ Submitted(s) /\ RegistryShape /\ Len(past) \in Nat
      /\ got[s] \in 0..Len(past)
  BY DEF AdmissionInv, AdmissionTypeOK, RegistryShape, PastInOrder
<1>2. /\ UNCHANGED registryVars /\ past' = past /\ version' = version
      /\ failures \in Nat /\ failures' >= failures /\ RegistryTypeOK'
  BY HandlerFrame DEF Handler
<1>3. /\ pc[s] = "store" /\ UNCHANGED <<ask, known, job, queued, answer, failures>>
      /\ StoreModels(s) /\ Resolve(s, got[s]) /\ got' = [got EXCEPT ![s] = 0]
  BY DEF Store, Handles, Untold
<1>4. ask[s] # None
  BY <1>1, <1>3 DEF Submitted, Standing
<1>5. /\ cache' = got[s] /\ cache' \in 0..Len(past) /\ fresh' = TRUE /\ floor' = floor
      /\ rolledBack' \in BOOLEAN /\ late' \in BOOLEAN
      /\ rolledBack => rolledBack'
      /\ rolledBack' \/ cache' >= cache
      /\ cache' = 0 \/ cache' >= floor \/ late'
      /\ InTime'
  BY <1>3, Stored
<1>6. /\ pc' \in [Submissions -> Stations] /\ step' \in [Submissions -> 1..4]
      /\ found' \in [Submissions -> 0..Len(past)]
      /\ \A t \in Submissions : t # s => pc'[t] = pc[t] /\ step'[t] = step[t] /\ found'[t] = found[t]
      /\ found'[s] = found[s] \/ (found'[s] = got[s] /\ got[s] # 0)
  BY <1>1, <1>3, <1>4, Resolved
<1>7. AdmissionTypeOK'
  <2>1. got' \in [Submissions -> 0..Len(past)] /\ floor \in 0..Len(past)
    BY <1>1, <1>3 DEF AdmissionTypeOK
  <2> QED
    BY <1>1, <1>2, <1>3, <1>5, <1>6, <2>1 DEF AdmissionTypeOK, Stations
<1>8. known[s] /\ step[s] \in {3, 4} => failures > 0 \/ rolledBack \/ Has(s, got[s])
  BY <1>1, <1>3 DEF Submitted, Sought
<1>9. Submitted(s)'
  BY <1>1, <1>2, <1>3, <1>5, <1>8, ResolvedWell
<1>10. found'[s] \notin {0, found[s]} => found'[s] >= floor \/ late'
  BY <1>5, <1>6
<1>11. \A t \in Submissions : t # s => Still(t)
  BY <1>1, <1>3, <1>6 DEF Still, AdmissionTypeOK
<1> QED
  BY <1>2, <1>5, <1>7, <1>9, <1>10, <1>11 DEF Moves

(* After the refresh the lookups begin again, in a cache that has it.      *)
LEMMA RestoreMoves ==
  ASSUME AdmissionInv, NEW s \in Submissions, Restore(s)
  PROVE  Moves(s)
<1> USE NoneIsNoAnswer, NoneIsNoRow
<1>1. AdmissionTypeOK /\ Submitted(s) /\ RegistryShape /\ Len(past) \in Nat
      /\ got[s] \in 0..Len(past)
  BY DEF AdmissionInv, AdmissionTypeOK, RegistryShape, PastInOrder
<1>2. /\ UNCHANGED registryVars /\ past' = past /\ version' = version
      /\ failures \in Nat /\ failures' >= failures /\ RegistryTypeOK'
  BY HandlerFrame DEF Handler
<1>3. /\ pc[s] = "restore" /\ UNCHANGED <<ask, known, found, job, queued, answer, failures>>
      /\ StoreModels(s) /\ got' = [got EXCEPT ![s] = 0]
      /\ pc' = [pc EXCEPT ![s] = "look"] /\ step' = [step EXCEPT ![s] = 3]
  BY DEF Restore, Handles, Untold, Goto
<1>4. /\ cache' = got[s] /\ cache' \in 0..Len(past) /\ fresh' = TRUE /\ floor' = floor
      /\ rolledBack' \in BOOLEAN /\ late' \in BOOLEAN
      /\ rolledBack => rolledBack'
      /\ rolledBack' \/ cache' >= cache
      /\ InTime'
  BY <1>3, Stored
<1>5. AdmissionTypeOK'
  BY <1>1, <1>2, <1>3, <1>4 DEF AdmissionTypeOK
<1>6. /\ pc'[s] = "look" /\ step'[s] = 3 /\ got'[s] = 0
      /\ \A t \in Submissions : t # s => Still(t)
  BY <1>1, <1>3 DEF AdmissionTypeOK, Still
<1>7. job[s] = None /\ ~queued[s] /\ ask[s] # None
  BY <1>1, <1>3 DEF Submitted, Standing
<1>8. Standing(s)' /\ OnItsVersion(s)'
  BY <1>3, <1>6, <1>7 DEF Standing, OnItsVersion
<1>9. Sought(s)'
  BY <1>1, <1>2, <1>3, <1>4, <1>6 DEF Submitted, Sought, Has
<1> QED
  BY <1>2, <1>3, <1>4, <1>5, <1>6, <1>8, <1>9 DEF Moves, Submitted


(* The assignment that is chosen has the version that the listing gave,    *)
(* which is one of the model that was asked for and of no other.           *)
LEMMA SelectMoves ==
  ASSUME AdmissionInv, NEW s \in Submissions, SelectNode(s)
  PROVE  Moves(s)
<1> USE NoneIsNoAnswer, NoneIsNoRow
<1>1. AdmissionTypeOK /\ Submitted(s) /\ RegistryShape /\ Len(past) \in Nat /\ cache \in Int
  BY DEF AdmissionInv, AdmissionTypeOK, RegistryShape, PastInOrder
<1>2. /\ UNCHANGED registryVars /\ past' = past /\ version' = version
      /\ failures \in Nat /\ failures' \in Nat /\ failures' >= failures /\ RegistryTypeOK'
  BY HandlerFrame DEF Handler
<1>3. /\ pc[s] = "select" /\ UNCHANGED <<ask, known, step, got, found, queued, answer>>
      /\ UNCHANGED <<cache, fresh, floor, rolledBack, late>>
  BY DEF SelectNode, Handles, Untold, cacheVars
<1>4. /\ ask[s] # None /\ ask[s].model \in Models /\ found[s] # 0 /\ job[s] = None
      /\ Listing(found[s])[ask[s].model] # None
      /\ Listing(found[s])[ask[s].model].default # None
      /\ found[s] \in 1..Len(past) /\ ~queued[s]
  BY <1>1, <1>3 DEF Submitted, Standing, AdmissionTypeOK, Identifiers
<1> DEFINE v == Listing(found[s])[ask[s].model].default
<1>5. v \in VersionsOf(ask[s].model)
  BY <1>1, <1>4 DEF Listing, RegistryShape, PastInOrder
<1>6. \/ job' = job /\ pc' = [pc EXCEPT ![s] = "respond"]
      \/ \E a \in Assignments :
           /\ job' = [job EXCEPT ![s] = a] /\ pc' = [pc EXCEPT ![s] = "admit"]
           /\ a.version = v
  <2>1. ASSUME NEW fleet \in Fleets, NEW a \in SelectAssignment(fleet, ask[s].model, v)
        PROVE  a \in Assignments /\ a.version = v
    BY <2>1 DEF SelectAssignment
  <2> QED
    BY <2>1 DEF SelectNode, Goto
<1>7. InTime' /\ cache' >= cache
  BY <1>1, <1>3 DEF AdmissionInv, InTime
<1>8. CASE job' = job /\ pc' = [pc EXCEPT ![s] = "respond"]
  <2>1. AdmissionTypeOK'
    BY <1>1, <1>2, <1>3, <1>8 DEF AdmissionTypeOK
  <2>2. pc'[s] = "respond" /\ \A t \in Submissions : t # s => Still(t)
    BY <1>1, <1>3, <1>8 DEF AdmissionTypeOK, Still
  <2>3. Standing(s)' /\ OnItsVersion(s)'
    BY <1>3, <1>4, <1>8, <2>2 DEF Standing, OnItsVersion
  <2>4. Sought(s)'
    BY <1>1, <1>2, <1>3, <1>4, <2>2 DEF Submitted, Sought, Has
  <2> QED
    BY <1>2, <1>3, <1>7, <2>1, <2>2, <2>3, <2>4 DEF Moves, Submitted
<1>9. ASSUME NEW a \in Assignments,
             job' = [job EXCEPT ![s] = a], pc' = [pc EXCEPT ![s] = "admit"],
             a.version = v
      PROVE  Moves(s)
  <2>1. AdmissionTypeOK'
    BY <1>1, <1>2, <1>3, <1>9 DEF AdmissionTypeOK
  <2>2. /\ pc'[s] = "admit" /\ job'[s] = a /\ a # None
        /\ \A t \in Submissions : t # s => Still(t)
    BY <1>1, <1>3, <1>9 DEF AdmissionTypeOK, Still
  <2>3. Standing(s)'
    BY <1>3, <1>4, <2>2 DEF Standing
  <2>4. OnItsVersion(s)'
    BY <1>2, <1>3, <1>5, <1>9, <2>2 DEF OnItsVersion, VersionsOf
  <2>5. Sought(s)'
    BY <1>1, <1>2, <1>3, <2>2 DEF Submitted, Sought, Has
  <2> QED
    BY <1>2, <1>3, <1>7, <2>1, <2>2, <2>3, <2>4, <2>5 DEF Moves, Submitted
<1> QED
  BY <1>6, <1>8, <1>9

(* The job is recorded and queued, or a call failed on the way.            *)
LEMMA AdmitMoves ==
  ASSUME AdmissionInv, NEW s \in Submissions, Admit(s)
  PROVE  Moves(s)
<1> USE NoneIsNoAnswer, NoneIsNoRow
<1>1. AdmissionTypeOK /\ Submitted(s) /\ RegistryShape /\ Len(past) \in Nat /\ cache \in Int
  BY DEF AdmissionInv, AdmissionTypeOK, RegistryShape, PastInOrder
<1>2. /\ UNCHANGED registryVars /\ past' = past /\ version' = version
      /\ failures \in Nat /\ failures' \in Nat /\ failures' >= failures /\ RegistryTypeOK'
  BY HandlerFrame DEF Handler
<1>3. /\ pc[s] = "admit" /\ UNCHANGED <<ask, known, step, got, found, answer>>
      /\ UNCHANGED <<cache, fresh, floor, rolledBack, late>>
      /\ pc' = [pc EXCEPT ![s] = "respond"]
  BY DEF Admit, Handles, cacheVars, Goto
<1>4. PICK q \in BOOLEAN, j \in {job[s], None} :
        /\ queued' = [queued EXCEPT ![s] = q] /\ job' = [job EXCEPT ![s] = j]
        /\ (q /\ j = job[s]) \/ (j = None /\ failures' > 0)
  <2>1. job = [job EXCEPT ![s] = job[s]]
    BY <1>1 DEF AdmissionTypeOK
  <2>2. CASE queued' = [queued EXCEPT ![s] = TRUE] /\ job' = job
    BY <2>1, <2>2
  <2>3. CASE /\ failures' = failures + 1 /\ job' = [job EXCEPT ![s] = None]
             /\ \E q \in BOOLEAN : queued' = [queued EXCEPT ![s] = q]
    <3>1. failures' > 0
      BY <1>2, <2>3
    <3> QED
      BY <2>3, <3>1
  <2> QED
    BY <2>2, <2>3 DEF Admit
<1>5. AdmissionTypeOK'
  BY <1>1, <1>2, <1>3, <1>4 DEF AdmissionTypeOK
<1>6. /\ pc'[s] = "respond" /\ job'[s] = j /\ queued'[s] = q
      /\ \A t \in Submissions : t # s => Still(t)
  BY <1>1, <1>3, <1>4 DEF AdmissionTypeOK, Still
<1>7. /\ ask[s] # None /\ found[s] # 0 /\ job[s] # None
  BY <1>1, <1>3 DEF Submitted, Standing
<1>8. Standing(s)'
  BY <1>3, <1>4, <1>6, <1>7 DEF Standing
<1>9. OnItsVersion(s)'
  BY <1>1, <1>2, <1>3, <1>4, <1>6 DEF Submitted, OnItsVersion, VersionsOf
<1>10. Sought(s)'
  BY <1>1, <1>2, <1>3, <1>6, <1>7 DEF Submitted, Sought, Has
<1>11. InTime' /\ cache' >= cache
  BY <1>1, <1>3 DEF AdmissionInv, InTime
<1> QED
  BY <1>2, <1>3, <1>5, <1>6, <1>8, <1>9, <1>10, <1>11 DEF Moves, Submitted

(* The end: an answer, or none.                                            *)
LEMMA ReturnMoves ==
  ASSUME AdmissionInv, NEW s \in Submissions, Respond(s) \/ Dropped(s)
  PROVE  Moves(s)
<1> USE NoneIsNoAnswer, NoneIsNoRow
<1>1. AdmissionTypeOK /\ Submitted(s) /\ RegistryShape /\ Len(past) \in Nat /\ cache \in Int
  <2>1. AdmissionTypeOK /\ Submitted(s) /\ RegistryShape
    BY DEF AdmissionInv
  <2>2. Len(past) \in Nat
    BY <2>1 DEF RegistryShape, PastInOrder
  <2> QED
    BY <2>1, <2>2 DEF AdmissionTypeOK
<1>2. /\ UNCHANGED registryVars /\ past' = past /\ version' = version
      /\ failures' = failures /\ failures \in Nat /\ failures' >= failures /\ RegistryTypeOK'
  <2>1. UNCHANGED failures
    BY DEF Respond, Dropped, Return
  <2> QED
    BY <2>1, HandlerFrame DEF Handler
<1>3. /\ pc' = [pc EXCEPT ![s] = "done"] /\ UNCHANGED queued
      /\ ask' = [ask EXCEPT ![s] = None] /\ known' = [known EXCEPT ![s] = FALSE]
      /\ step' = [step EXCEPT ![s] = 1] /\ got' = [got EXCEPT ![s] = 0]
      /\ found' = [found EXCEPT ![s] = 0] /\ job' = [job EXCEPT ![s] = None]
      /\ UNCHANGED <<cache, fresh, floor, rolledBack, late>>
  BY DEF Respond, Dropped, Return, Goto, cacheVars
<1>4. PICK x \in {"none", "201", "502", "timeout"} : answer' = [answer EXCEPT ![s] = x]
  <2>1. CASE Dropped(s)
    BY <1>1, <2>1 DEF Dropped, AdmissionTypeOK
  <2>2. CASE Respond(s)
    <3>1. PICK x \in {"timeout", "201", "502"} :
            x = IF answer[s] = "timeout" THEN answer[s] ELSE SubmitJob(s)
      BY DEF SubmitJob
    <3> QED
      BY <2>2, <3>1 DEF Respond
  <2> QED
    BY <2>1, <2>2
<1>5. AdmissionTypeOK'
  BY <1>1, <1>2, <1>3, <1>4 DEF AdmissionTypeOK
<1>6. /\ pc'[s] = "done" /\ ask'[s] = None /\ known'[s] = FALSE /\ step'[s] = 1 /\ got'[s] = 0
      /\ found'[s] = 0 /\ job'[s] = None /\ answer'[s] = x
      /\ \A t \in Submissions : t # s => Still(t)
  BY <1>1, <1>3, <1>4 DEF AdmissionTypeOK, Still
<1>7. Submitted(s)'
  BY <1>2, <1>3, <1>4, <1>6 DEF Submitted, Standing, Sought, OnItsVersion
<1>8. InTime' /\ cache' >= cache
  BY <1>1, <1>3 DEF AdmissionInv, InTime
<1> QED
  BY <1>2, <1>3, <1>5, <1>6, <1>7, <1>8 DEF Moves

(* The gateway has given up; the orchestrator does not know.               *)
LEMMA GiveUpMoves ==
  ASSUME AdmissionInv, NEW s \in Submissions, GiveUp(s)
  PROVE  Moves(s)
<1> USE NoneIsNoAnswer, NoneIsNoRow
<1>1. AdmissionTypeOK /\ Submitted(s) /\ RegistryShape /\ Len(past) \in Nat /\ cache \in Int
  BY DEF AdmissionInv, AdmissionTypeOK, RegistryShape, PastInOrder
<1>2. /\ UNCHANGED registryVars /\ past' = past /\ version' = version
      /\ failures \in Nat /\ failures' >= failures /\ RegistryTypeOK'
  BY HandlerFrame DEF Handler
<1>3. /\ answer' = [answer EXCEPT ![s] = "timeout"]
      /\ UNCHANGED <<failures, pc, ask, known, step, got, found, job, queued>>
      /\ UNCHANGED <<cache, fresh, floor, rolledBack, late>>
  BY DEF GiveUp, cacheVars
<1>4. AdmissionTypeOK'
  BY <1>1, <1>2, <1>3 DEF AdmissionTypeOK
<1>5. answer'[s] = "timeout" /\ \A t \in Submissions : t # s => Still(t)
  BY <1>1, <1>3 DEF AdmissionTypeOK, Still
<1>6. Standing(s)' /\ OnItsVersion(s)'
  BY <1>1, <1>2, <1>3, <1>5 DEF Submitted, Standing, OnItsVersion, Listing, VersionsOf
<1>7. Sought(s)'
  BY <1>1, <1>2, <1>3 DEF Submitted, Sought, Has
<1>8. InTime' /\ cache' >= cache
  BY <1>1, <1>3 DEF AdmissionInv, InTime
<1> QED
  BY <1>2, <1>3, <1>4, <1>5, <1>6, <1>7, <1>8 DEF Moves, Submitted


-----------------------------------------------------------------------------
(* The theorems.                                                           *)

(* A step of one submission leaves the invariant, for it and the others.   *)
LEMMA HandlerStep ==
  ASSUME AdmissionInv, NEW s \in Submissions, Handler(s)
  PROVE  Moves(s) /\ AdmissionInv'
<1>1. Moves(s)
  BY SubmitMoves, LookMoves, FetchMoves, StoreMoves, RestoreMoves, SelectMoves, AdmitMoves,
     ReturnMoves, GiveUpMoves DEF Handler
<1>2. /\ UNCHANGED registryVars /\ past' = past /\ version' = version
      /\ failures \in Nat /\ failures' \in Nat /\ failures' >= failures /\ RegistryTypeOK'
  BY HandlerFrame
<1>3. RegistryShape' /\ Grows
  <2>1. /\ model' = model /\ at' = at /\ work' = work /\ asked' = asked /\ foreign' = foreign
        /\ Len(past) \in Nat /\ PastInOrder /\ Creators
    BY <1>2 DEF registryVars, tableVars, AdmissionInv, RegistryShape, PastInOrder
  <2>2. \A m \in Models : VersionsOf(m)' = VersionsOf(m)
    BY <1>2 DEF VersionsOf
  <2>3. PastInOrder'
    BY <1>2, <2>1, <2>2 DEF PastInOrder
  <2>4. Creators'
    BY <1>2, <2>1 DEF Creators, Creator, VersionsOf
  <2> QED
    BY <1>2, <2>1, <2>3, <2>4 DEF RegistryShape, Grows
<1>4. Attended'
  BY <1>2 DEF AdmissionInv, Attended, registryVars, tableVars
<1>5. cache' \in 0..Len(past)
  BY <1>1, <1>2 DEF Moves, AdmissionTypeOK
<1>6. ASSUME NEW t \in Submissions
      PROVE  Submitted(t)'
  <2>1. CASE t = s
    BY <1>1, <2>1 DEF Moves
  <2>2. CASE t # s
    <3>1. /\ AdmissionTypeOK /\ RegistryShape /\ Submitted(t) /\ Still(t)
          /\ rolledBack => rolledBack'
          /\ rolledBack' \/ cache' >= cache
      BY <1>1, <2>2 DEF Moves, AdmissionInv
    <3> QED
      BY <1>2, <1>3, <1>5, <3>1, OthersHarmless
  <2> QED
    BY <2>1, <2>2
<1> QED
  BY <1>1, <1>3, <1>4, <1>6 DEF Moves, AdmissionInv

(* A step of the registry, or the end of a TTL, too.                       *)
LEMMA BesideStep ==
  ASSUME AdmissionInv, Registry \/ Expire
  PROVE  AdmissionInv' /\ UNCHANGED found
<1>1. /\ AdmissionTypeOK /\ RegistryShape /\ Attended /\ InTime
      /\ Len(past) \in Nat /\ failures \in Nat
  BY RegistryBounds DEF AdmissionInv, RegistryShape, PastInOrder, RegistryTypeOK
<1>2. /\ RegistryShape' /\ Attended' /\ Grows /\ failures' \in Nat /\ failures' >= failures
  <2>1. CASE Registry
    BY <1>1, <2>1, RegistryStep DEF Advances
  <2>2. CASE Expire
    <3>1. /\ UNCHANGED <<model, version, past, at, work, asked, foreign, failures>>
      BY <2>2 DEF Expire, registryVars, tableVars
    <3>2. \A m \in Models : VersionsOf(m)' = VersionsOf(m)
      BY <3>1 DEF VersionsOf
    <3>3. PastInOrder'
      BY <1>1, <3>1, <3>2 DEF PastInOrder, RegistryShape
    <3>4. Creators' /\ RegistryTypeOK'
      BY <1>1, <3>1 DEF Creators, Creator, VersionsOf, RegistryShape, RegistryTypeOK,
                        VersionRow, ModelRow, Request
    <3> QED
      BY <1>1, <3>1, <3>3, <3>4 DEF RegistryShape, Grows, Attended
  <2> QED
    BY <2>1, <2>2
<1>3. /\ UNCHANGED <<cache, rolledBack, late, pc, ask, known, step, got, found, job, queued, answer>>
      /\ \/ fresh' = fresh /\ floor' = floor
         \/ fresh' = FALSE /\ floor' = Len(past)
  BY RegistryStep, <1>1 DEF Expire, Rest, cacheVars, handlerVars
<1>4. Len(past') \in Nat /\ Len(past') >= Len(past)
  BY <1>2 DEF RegistryShape, PastInOrder, Grows
<1>5. AdmissionTypeOK'
  <2>1. 0..Len(past) \subseteq 0..Len(past')
    BY <1>1, <1>4
  <2>2. /\ got' \in [Submissions -> 0..Len(past')] /\ found' \in [Submissions -> 0..Len(past')]
        /\ cache' \in 0..Len(past') /\ floor' \in 0..Len(past') /\ fresh' \in BOOLEAN
    <3>1. /\ got \in [Submissions -> 0..Len(past)] /\ found \in [Submissions -> 0..Len(past)]
          /\ cache \in 0..Len(past) /\ floor \in 0..Len(past) /\ fresh \in BOOLEAN
      BY <1>1 DEF AdmissionTypeOK
    <3>2. Len(past) \in 0..Len(past')
      BY <1>1, <1>4
    <3>3. got' = got /\ found' = found /\ cache' = cache
      BY <1>3
    <3>4. cache' \in 0..Len(past') /\ floor' \in 0..Len(past') /\ fresh' \in BOOLEAN
      BY <1>3, <2>1, <3>1, <3>2, <3>3
    <3>5. got' \in [Submissions -> 0..Len(past')] /\ found' \in [Submissions -> 0..Len(past')]
      BY <2>1, <3>1, <3>3
    <3> QED
      BY <3>4, <3>5
  <2> QED
    BY <1>1, <1>2, <1>3, <2>2 DEF AdmissionTypeOK, RegistryShape
<1>6. InTime'
  BY <1>1, <1>3 DEF InTime
<1>7. ASSUME NEW t \in Submissions
      PROVE  Submitted(t)'
  <2>1. Still(t) /\ Submitted(t)
    BY <1>3 DEF Still, AdmissionInv
  <2>2. cache' \in 0..Len(past) /\ cache' >= cache /\ (rolledBack => rolledBack')
    BY <1>1, <1>3 DEF AdmissionTypeOK
  <2> QED
    BY <1>1, <1>2, <2>1, <2>2, OthersHarmless
<1> QED
  BY <1>2, <1>3, <1>5, <1>6, <1>7 DEF AdmissionInv

(* It holds at first: nothing is asked, and every older model has its      *)
(* version.                                                                *)
LEMMA InitInv ==
  ASSUME Init
  PROVE  AdmissionInv
<1> USE NoneIsNoRow, NoneIsNoAnswer, RegistryBounds, OlderIsTable
<1>1. PICK l \in Labels :
        version = [v \in Versions |->
                     IF \E m \in Models : Older[m] = v
                     THEN [model |-> CHOOSE m \in Models : Older[m] = v, label |-> l] ELSE None]
  BY DEF Init, RegistryInit
<1>2. \A m \in Models :
        /\ Older[m] = None => model[m] = None
        /\ Older[m] # None => /\ model[m] \in ModelRow /\ model[m].default = Older[m]
                              /\ Older[m] \in Versions
  BY DEF Init, RegistryInit, ModelRow
<1>3. ASSUME NEW v \in Versions
      PROVE  /\ version[v] \in VersionRow \cup {None}
             /\ \A m \in Models : Older[m] = v => version[v] # None /\ version[v].model = m
             /\ (\A m \in Models : Older[m] # v) => version[v] = None
  <2>1. CASE \A m \in Models : Older[m] # v
    BY <1>1, <2>1
  <2>2. ASSUME NEW m \in Models, Older[m] = v
        PROVE  version[v] = [model |-> m, label |-> l]
    <3>1. (CHOOSE k \in Models : Older[k] = v) = m
      BY <2>2
    <3> QED
      BY <1>1, <2>2, <3>1
  <2>3. ASSUME NEW m \in Models, Older[m] = v
        PROVE  version[v] \in VersionRow /\ version[v].model = m
    <3>1. version[v] = [model |-> m, label |-> l]
      BY <2>2, <2>3
    <3> QED
      BY <3>1 DEF VersionRow
  <2>4. version[v] \in VersionRow \cup {None}
    BY <2>1, <2>3
  <2> QED
    BY <2>1, <2>3, <2>4
<1>4. ASSUME NEW m \in Models, Older[m] = None
      PROVE  VersionsOf(m) = {}
  BY <1>3, <1>4 DEF VersionsOf
<1>5. /\ model \in [Models -> ModelRow \cup {None}] /\ version \in [Versions -> VersionRow \cup {None}]
      /\ past = <<model>> /\ asked = {} /\ foreign = {} /\ failures = 0
      /\ at = [a \in Admins |-> "idle"] /\ work = [a \in Admins |-> None]
  <2>1. model \in [Models -> ModelRow \cup {None}]
    BY <1>2 DEF Init, RegistryInit
  <2>2. version \in [Versions -> VersionRow \cup {None}]
    BY <1>1, <1>3
  <2> QED
    BY <2>1, <2>2 DEF Init, RegistryInit
<1>6. RegistryTypeOK
  BY <1>5 DEF RegistryTypeOK
<1>7. PastInOrder
  <2>1. past \in Seq([Models -> ModelRow \cup {None}]) /\ Len(past) = 1 /\ past[1] = model
    BY <1>5
  <2>2. \A m \in Models : model[m] # None /\ model[m].default # None => model[m].default \in VersionsOf(m)
    BY <1>2, <1>3 DEF VersionsOf
  <2>3. Keeps(model, model)
    BY DEF Keeps
  <2> QED
    BY <2>1, <2>2, <2>3 DEF PastInOrder
<1>8. Creators
  BY <1>2, <1>4, <1>5 DEF Creators, Creator
<1>9. AdmissionTypeOK
  <2>1. Len(past) = 1
    BY <1>5
  <2> QED
    <3>1. cache \in 0..Len(past) /\ floor \in 0..Len(past)
      BY <2>1 DEF Init
    <3>2. /\ got \in [Submissions -> 0..Len(past)] /\ found \in [Submissions -> 0..Len(past)]
          /\ step \in [Submissions -> 1..4]
      BY <2>1 DEF Init
    <3> QED
      BY <1>6, <3>1, <3>2 DEF Init, AdmissionTypeOK
<1>10. Attended /\ InTime
  BY <1>5 DEF Attended, InTime, Init
<1>11. \A s \in Submissions : Submitted(s)
  BY DEF Init, Submitted, Standing, Sought, OnItsVersion
<1> QED
  BY <1>6, <1>7, <1>8, <1>9, <1>10, <1>11 DEF AdmissionInv, RegistryShape

(* Every step leaves the invariant.                                        *)
LEMMA NextInv ==
  ASSUME AdmissionInv, [Next]_vars
  PROVE  AdmissionInv'
<1>1. CASE Next
  BY <1>1, HandlerStep, BesideStep DEF Next
<1>2. CASE UNCHANGED vars
  <2>1. UNCHANGED <<model, version, past, at, work, asked, foreign, failures, cache, fresh, floor,
                    rolledBack, late, pc, ask, known, step, got, found, job, queued, answer>>
    BY <1>2 DEF vars, registryVars, tableVars, cacheVars, handlerVars
  <2>2. RegistryShape' /\ Attended' /\ InTime'
    <3>1. RegistryShape /\ Attended /\ InTime
      BY DEF AdmissionInv
    <3>2. RegistryShape'
      BY <2>1, <3>1 DEF RegistryShape, RegistryTypeOK, PastInOrder, Creators, Creator,
                        VersionsOf, Keeps, VersionRow, ModelRow, Request
    <3>3. Attended' /\ InTime'
      BY <2>1, <3>1 DEF Attended, InTime, VersionsOf
    <3> QED
      BY <3>2, <3>3
  <2>3. AdmissionTypeOK'
    BY <2>1, <2>2 DEF AdmissionInv, AdmissionTypeOK, RegistryShape
  <2>4. \A s \in Submissions : Submitted(s)'
    BY <2>1 DEF AdmissionInv, Submitted, Standing, Sought, OnItsVersion, Has, Listing, VersionsOf
  <2> QED
    BY <2>2, <2>3, <2>4 DEF AdmissionInv
<1> QED
  BY <1>1, <1>2

(* The invariant holds always.                                             *)
LEMMA AlwaysInv == Spec => []AdmissionInv
<1>1. Init => AdmissionInv
  BY InitInv
<1>2. AdmissionInv /\ [Next]_vars => AdmissionInv'
  BY NextInv
<1> QED
  BY <1>1, <1>2, PTL DEF Spec


(* The variables keep their types.                                         *)
THEOREM AdmissionTypeCorrect == Spec => []AdmissionTypeOK
<1>1. AdmissionInv => AdmissionTypeOK
  BY DEF AdmissionInv
<1> QED
  BY <1>1, AlwaysInv, PTL

(* A model that was to be created and promoted ends up served, unless a    *)
(* statement failed or another call took the name of its version: the      *)
(* handlers of admin-rest, whatever else runs between their statements.    *)
THEOREM ServedCorrect == Spec => []UnservedNeedsFailure
<1>1. AdmissionInv => UnservedNeedsFailure
  <2>1. ASSUME AdmissionInv, NEW m \in asked,
               \A a \in Admins : work[a] = None \/ work[a].model # m
        PROVE  model[m].status = "READY" \/ failures > 0 \/ m \in foreign
    BY <2>1 DEF AdmissionInv, Attended
  <2> QED
    BY <2>1 DEF UnservedNeedsFailure
<1> QED
  BY <1>1, AlwaysInv, PTL

(* resolve_model refuses a model that was there when the request came only *)
(* if a call failed or the cache went back to an older listing.            *)
THEOREM KnownIsFound == Spec => []UnknownNeedsFailure
<1>1. AdmissionInv => UnknownNeedsFailure
  <2>1. ASSUME AdmissionInv, NEW s \in Submissions,
               pc[s] = "respond", known[s], found[s] = 0
        PROVE  failures > 0 \/ rolledBack
    BY <2>1 DEF AdmissionInv, Submitted, Sought
  <2> QED
    BY <2>1 DEF UnknownNeedsFailure
<1> QED
  BY <1>1, AlwaysInv, PTL

(* select_node gives a job a version of the model that was asked for,      *)
(* whatever the nodes are assigned.                                        *)
THEOREM JobOnItsVersionCorrect == Spec => []JobOnItsVersion
<1>1. AdmissionInv => JobOnItsVersion
  BY DEF AdmissionInv, Submitted, OnItsVersion, JobOnItsVersion
<1> QED
  BY <1>1, AlwaysInv, PTL

(* A listing older than the last expiry is used only if it was under way   *)
(* across it.                                                              *)
THEOREM StaleCorrect == Spec => StaleOnlyByLateFetch
<1>1. ASSUME AdmissionInv, [Next]_vars
      PROVE  [\A s \in Submissions : found'[s] \notin {0, found[s]} => found'[s] >= floor \/ late']_vars
  <2>1. ASSUME NEW s \in Submissions, Handler(s), NEW t \in Submissions,
               found'[t] \notin {0, found[t]}
        PROVE  found'[t] >= floor \/ late'
    <3>1. Moves(s)
      BY <1>1, <2>1, HandlerStep
    <3> QED
      BY <2>1, <3>1 DEF Moves, Still
  <2>2. CASE Registry \/ Expire
    BY <1>1, <2>2, BesideStep
  <2> QED
    BY <1>1, <2>1, <2>2 DEF Next
<1> QED
  BY <1>1, AlwaysInv, PTL DEF Spec, StaleOnlyByLateFetch
=============================================================================
