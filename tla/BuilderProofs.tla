---------------------------- MODULE BuilderProofs ----------------------------
(***************************************************************************)
(* Proofs about Builder, for any number of builds, readers, steps and      *)
(* lines, and channels of any capacity: its types, that no line falls      *)
(* between the replay of a log and the broadcasts, that a build succeeds   *)
(* after its pipes were read, that a channel is closed once, and that a    *)
(* send on a closed one needs a command that failed.                       *)
(***************************************************************************)
EXTENDS Builder, SequenceTheorems, TLAPS

-----------------------------------------------------------------------------
(* The inductive invariant.                                                *)

(* The lock is held by the reader that subscribes, or by the build that    *)
(* closes its subscribers.                                                 *)
Locked ==
  /\ \A s \in Readers : place[s] \in {"locked", "replay"} => lock = s
  /\ \A b \in Builds : pc[Main(b)] = "closing" => lock = Main(b)

(* A process that died has no goroutines.                                  *)
Dead == crash # "no" => \A g \in Goroutines : pc[g] = "none"

(* What is left of a script is a last part of it.                          *)
Remains(left, whole) ==
  /\ Len(left) <= Len(whole)
  /\ \A i \in 1..Len(left) : left[i] = whole[Len(whole) - Len(left) + i]

Out(b) == <<b, "stdout">>
Err(b) == <<b, "stderr">>
Over(p) == pc[p] \in {"none", "done"}

(* How many calls the main goroutine has still to make.                    *)
Left(b) == Len(script[b])

(* How far a build is, by the calls it has still to make: its two pipe     *)
(* readers run from "start" until each was met by a "drain".               *)
Absent(b) ==
  /\ script[b] = <<>> /\ status[b] = "none"
  /\ pc[Main(b)] = "none" /\ pc[Out(b)] = "none" /\ pc[Err(b)] = "none"

Simulates(b) ==
  /\ Remains(script[b], Simulated) /\ pc[Out(b)] = "none" /\ pc[Err(b)] = "none"

Commands(b) ==
  /\ Remains(script[b], Commanded)
  /\ Left(b) >= 8 => pc[Out(b)] = "none" /\ pc[Err(b)] = "none"
  /\ Left(b) \in {6, 7} => ~Over(Out(b)) /\ ~Over(Err(b))
  /\ Left(b) = 5 => (Over(Out(b)) <=> ~Over(Err(b)))
  /\ Left(b) <= 4 => Over(Out(b)) /\ Over(Err(b))
  /\ Left(b) >= 4 => status[b] # "succeeded"

GivesUp(b) ==
  /\ Remains(script[b], NotStarted) /\ pc[Out(b)] = "none" /\ pc[Err(b)] = "none"

Fails(b) ==
  /\ Remains(script[b], CommandFailed) /\ command[b] = "error" /\ status[b] # "succeeded"

Course(b) ==
  /\ Absent(b) \/ Simulates(b) \/ Commands(b) \/ GivesUp(b) \/ Fails(b)
  /\ status[b] = "none" => Absent(b)
  /\ Left(b) <= 1 => pc[Main(b)] \in {"none", "ready", "closing"}
  /\ pc[Main(b)] = "closing" => Left(b) <= 1

Courses == \A b \in Builds : Course(b)

(* A reader is registered once, with the build it asked for, and a closed  *)
(* channel is one of a build that has no more to say.                      *)
Reader(s) ==
  /\ place[s] \in {"idle", "locked"} => /\ replayed[s] = 0
                                        /\ \A b \in Builds : s \notin subscribers[b]
                                        /\ \A g \in Goroutines : s \notin todo[g]
  /\ place[s] \in {"locked", "replay", "streaming"} => of[s] \in Builds /\ status[of[s]] # "none"
  /\ s \in closed => place[s] \in {"streaming", "done"}
  /\ s \in closed /\ place[s] = "streaming" => Left(of[s]) <= 1
  /\ \A b \in Builds : s \in subscribers[b] => place[s] = "done" \/ of[s] = b
  /\ \A b, c \in Builds : s \in subscribers[b] /\ s \in subscribers[c] => b = c
  /\ \A g \in Goroutines : s \in todo[g] =>
       /\ pc[g] = "send"
       /\ \A b \in Builds : s \in subscribers[b] => b = Build(g)
       /\ s \in closed => command[Build(g)] = "error"

Streams == \A s \in Readers : Reader(s)

BuilderInv ==
  /\ BuilderTypeOK
  /\ Locked
  /\ Dead
  /\ Courses
  /\ Streams
  /\ ClosedOnce
  /\ PanicNeedsFailure
  /\ NoLineFallsBetween

-----------------------------------------------------------------------------
(* Goroutines and scripts.                                                 *)

(* Whose goroutine is which.                                               *)
LEMMA Names ==
  /\ \A b \in Builds : /\ Main(b) \in Mains /\ Main(b) \in Goroutines /\ Build(Main(b)) = b
                       /\ Main(b) \notin Pipes
                       /\ Out(b) \in Pipes /\ Build(Out(b)) = b
                       /\ Err(b) \in Pipes /\ Build(Err(b)) = b /\ Out(b) # Err(b)
  /\ \A g \in Goroutines : Build(g) \in Builds
  /\ \A p \in Pipes : p \in Goroutines /\ p \notin Mains /\ (p = Out(Build(p)) \/ p = Err(Build(p)))
  /\ \A g \in Mains : g \in Goroutines /\ g = Main(Build(g))
BY DEF Main, Out, Err, Build, Mains, Pipes, Goroutines

Ops == {"log", "running", "start", "wait", "drain", "succeeded", "failed", "close", "notify"}

(* The calls of the four scripts, by how many are still to be made.        *)
LEMMA CommandedIs == Commanded \in Seq(Ops) /\ Len(Commanded) = 10
BY DEF Commanded, Succeeding, Ops

(* What the command's script says when n of its calls are left.            *)
LEMMA CommandedAt ==
  ASSUME NEW n \in 1..10
  PROVE  /\ Commanded[11 - n] = "start" <=> n = 8
         /\ Commanded[11 - n] = "wait" <=> n = 7
         /\ Commanded[11 - n] = "drain" <=> n \in {5, 6}
         /\ Commanded[11 - n] = "succeeded" <=> n = 4
         /\ Commanded[11 - n] = "close" <=> n = 2
         /\ Commanded[11 - n] = "notify" <=> n = 1
<1>1. /\ Commanded[1] = "log" /\ Commanded[2] = "running" /\ Commanded[3] = "start"
      /\ Commanded[4] = "wait" /\ Commanded[5] = "drain" /\ Commanded[6] = "drain"
      /\ Commanded[7] = "succeeded" /\ Commanded[8] = "log" /\ Commanded[9] = "close"
      /\ Commanded[10] = "notify"
  BY DEF Commanded, Succeeding
<1>2. n \in {1, 2, 3, 4, 5, 6, 7, 8, 9, 10}
  OBVIOUS
<1> QED
  BY <1>1, <1>2

(* The two scripts of a build that fails.                                  *)
LEMMA FailingIs ==
  /\ NotStarted \in Seq(Ops) /\ Len(NotStarted) = 3
  /\ CommandFailed \in Seq(Ops) /\ Len(CommandFailed) = 4
BY DEF NotStarted, CommandFailed, Ops

(* What they say when n of their calls are left.                           *)
LEMMA FailingAt ==
  /\ \A n \in 1..3 : /\ NotStarted[4 - n] = "log" <=> n = 3
                     /\ NotStarted[4 - n] = "failed" <=> n = 2
                     /\ NotStarted[4 - n] = "close" <=> n = 1
  /\ \A n \in 1..4 : /\ CommandFailed[5 - n] = "log" <=> n = 4
                     /\ CommandFailed[5 - n] = "failed" <=> n = 3
                     /\ CommandFailed[5 - n] = "close" <=> n \in {1, 2}
<1>1. /\ NotStarted[1] = "log" /\ NotStarted[2] = "failed" /\ NotStarted[3] = "close"
      /\ CommandFailed[1] = "log" /\ CommandFailed[2] = "failed" /\ CommandFailed[3] = "close"
      /\ CommandFailed[4] = "close"
  BY DEF NotStarted, CommandFailed
<1> QED
  BY <1>1

(* The script of a simulated build, of any number of steps.                *)
LEMMA SimulatedIs ==
  /\ Simulated \in Seq(Ops) /\ Len(Simulated) = Steps + 6
  /\ \A i \in 1..(Steps + 6) :
       Simulated[i] = IF i = 2 THEN "running"
                      ELSE IF i = Steps + 3 THEN "succeeded"
                      ELSE IF i = Steps + 5 THEN "close"
                      ELSE IF i = Steps + 6 THEN "notify" ELSE "log"
<1> DEFINE a == <<"log", "running">>
           l == Log(Steps)
           c == a \o l
<1>1. Steps \in Nat
  BY BuilderConstants
<1>2. a \in Seq(Ops) /\ Len(a) = 2 /\ a[1] = "log" /\ a[2] = "running"
  BY DEF Ops
<1>3. l \in Seq(Ops) /\ Len(l) = Steps /\ \A i \in 1..Steps : l[i] = "log"
  BY <1>1 DEF Log, Ops
<1>4. /\ Succeeding \in Seq(Ops) /\ Len(Succeeding) = 4
      /\ Succeeding[1] = "succeeded" /\ Succeeding[2] = "log" /\ Succeeding[3] = "close"
      /\ Succeeding[4] = "notify"
  BY DEF Succeeding, Ops
<1>5. Simulated = c \o Succeeding
  BY DEF Simulated
<1> HIDE DEF a, l
<1>6. /\ c \in Seq(Ops) /\ Len(c) = Len(a) + Len(l)
      /\ \A i \in 1..(Len(a) + Len(l)) : c[i] = IF i <= Len(a) THEN a[i] ELSE l[i - Len(a)]
  BY <1>2, <1>3, ConcatProperties
<1> HIDE DEF c
<1> HIDE DEF c
<1>7. /\ Simulated \in Seq(Ops) /\ Len(Simulated) = Len(c) + Len(Succeeding)
      /\ \A i \in 1..(Len(c) + Len(Succeeding)) :
           Simulated[i] = IF i <= Len(c) THEN c[i] ELSE Succeeding[i - Len(c)]
  <2>1. c \in Seq(Ops) /\ Succeeding \in Seq(Ops)
    BY <1>4, <1>6
  <2>2. /\ c \o Succeeding \in Seq(Ops) /\ Len(c \o Succeeding) = Len(c) + Len(Succeeding)
        /\ \A i \in 1..(Len(c) + Len(Succeeding)) :
             (c \o Succeeding)[i] = IF i <= Len(c) THEN c[i] ELSE Succeeding[i - Len(c)]
    BY ONLY <2>1, ConcatProperties
  <2> QED
    BY ONLY <1>5, <2>2
<1>9. \A i \in 1..(Steps + 2) : c[i] = IF i = 2 THEN "running" ELSE "log"
  <2> SUFFICES ASSUME NEW i \in 1..(Steps + 2)
               PROVE  c[i] = IF i = 2 THEN "running" ELSE "log"
    OBVIOUS
  <2>1. CASE i = 1 \/ i = 2
    BY <1>1, <1>2, <1>3, <1>6, <2>1
  <2>2. CASE i > 2
    <3>1. i - 2 \in 1..Steps /\ c[i] = l[i - 2]
      BY <1>1, <1>2, <1>3, <1>6, <2>2
    <3> QED
      BY <1>3, <2>2, <3>1
  <2> QED
    BY <1>1, <2>1, <2>2
<1>8. ASSUME NEW i \in 1..(Steps + 6), i > Steps + 2
      PROVE  Simulated[i] = IF i = Steps + 3 THEN "succeeded"
                            ELSE IF i = Steps + 5 THEN "close"
                            ELSE IF i = Steps + 6 THEN "notify" ELSE "log"
  <2>1. i = Steps + 3 \/ i = Steps + 4 \/ i = Steps + 5 \/ i = Steps + 6
    BY <1>1, <1>8
  <2> QED
    BY <1>1, <1>2, <1>3, <1>4, <1>6, <1>7, <2>1
<1> QED
  <2>1. ASSUME NEW i \in 1..(Steps + 6), i <= Steps + 2
        PROVE  Simulated[i] = IF i = 2 THEN "running" ELSE "log"
    <3>1. i \in 1..(Steps + 2) /\ Simulated[i] = c[i]
      BY <1>1, <1>2, <1>3, <1>4, <1>6, <1>7, <2>1
    <3> QED
      BY <1>9, <3>1
  <2>2. Simulated \in Seq(Ops) /\ Len(Simulated) = Steps + 6
    BY <1>1, <1>2, <1>3, <1>4, <1>6, <1>7
  <2> QED
    BY <1>1, <1>8, <2>1, <2>2

(* What it says when n of its calls are left.                              *)
LEMMA SimulatedAt ==
  ASSUME NEW n \in 1..(Steps + 6)
  PROVE  /\ Simulated[Steps + 7 - n] \notin {"start", "wait", "drain"}
         /\ Simulated[Steps + 7 - n] = "close" <=> n = 2
         /\ Simulated[Steps + 7 - n] = "notify" <=> n = 1
<1> DEFINE i == Steps + 7 - n
<1>1. /\ i \in 1..(Steps + 6)
      /\ i = 2 => n = Steps + 5
      /\ i = Steps + 3 <=> n = 4
      /\ i = Steps + 5 <=> n = 2
      /\ i = Steps + 6 <=> n = 1
      /\ i = 2 => n # 2 /\ n # 1
  BY BuilderConstants
<1> HIDE DEF i
<1>2. Simulated[i] = IF i = 2 THEN "running"
                     ELSE IF i = Steps + 3 THEN "succeeded"
                     ELSE IF i = Steps + 5 THEN "close"
                     ELSE IF i = Steps + 6 THEN "notify" ELSE "log"
  BY <1>1, SimulatedIs
<1>3. Simulated[i] \notin {"start", "wait", "drain"} /\ (Simulated[i] = "close" <=> n = 2)
      /\ (Simulated[i] = "notify" <=> n = 1)
  BY ONLY <1>1, <1>2, BuilderConstants
<1> QED
  BY <1>3 DEF i

(* What is left of a script after a call; and before the first.            *)
LEMMA RemainsTail ==
  ASSUME NEW whole \in Seq(Ops), NEW left \in Seq(Ops), Remains(left, whole), left # <<>>
  PROVE  Tail(left) \in Seq(Ops) /\ Len(Tail(left)) = Len(left) - 1 /\ Remains(Tail(left), whole)
<1>1. Len(left) \in Nat \ {0} /\ Len(whole) \in Nat
  OBVIOUS
<1>2. /\ Tail(left) \in Seq(Ops) /\ Len(Tail(left)) = Len(left) - 1
      /\ \A i \in 1..Len(Tail(left)) : Tail(left)[i] = left[i + 1]
  BY HeadTailProperties
<1> QED
  BY <1>1, <1>2 DEF Remains

(* A script that was not begun is left whole.                              *)
LEMMA RemainsWhole ==
  ASSUME NEW whole \in Seq(Ops)
  PROVE  Remains(whole, whole)
BY DEF Remains

(* The next call is found by how many are left.                            *)
LEMMA RemainsNext ==
  ASSUME NEW whole \in Seq(Ops), NEW s \in Seq(Ops), Remains(s, whole), s # <<>>
  PROVE  \E n \in 1..Len(whole) : n = Len(s) /\ Head(s) = whole[Len(whole) - n + 1]
<1>1. Len(s) \in Nat \ {0} /\ Len(whole) \in Nat /\ Head(s) = s[1]
  OBVIOUS
<1> QED
  BY <1>1 DEF Remains

(* Which call is next, in each of the scripts.                             *)
LEMMA CommandedNext ==
  ASSUME NEW s \in Seq(Ops), s # <<>>, Remains(s, Commanded)
  PROVE  /\ Len(s) \in 1..10
         /\ Head(s) = "start" <=> Len(s) = 8
         /\ Head(s) = "wait" <=> Len(s) = 7
         /\ Head(s) = "drain" <=> Len(s) \in {5, 6}
         /\ Head(s) = "succeeded" <=> Len(s) = 4
         /\ Head(s) = "close" <=> Len(s) = 2
         /\ Head(s) = "notify" <=> Len(s) = 1
<1>1. PICK n \in 1..Len(Commanded) : n = Len(s) /\ Head(s) = Commanded[Len(Commanded) - n + 1]
  BY RemainsNext, CommandedIs
<1>2. n \in 1..10 /\ n = Len(s) /\ Head(s) = Commanded[11 - n]
  <2>1. Len(Commanded) = 10
    BY CommandedIs
  <2>2. n \in 1..10
    BY <2>1
  <2>3. 10 - n + 1 = 11 - n
    BY ONLY <2>2
  <2> QED
    BY <1>1, <2>1, <2>2, <2>3, Zenon
<1> QED
  BY ONLY <1>2, CommandedAt

(* The same for a simulated build: it starts no command.                   *)
LEMMA SimulatedNext ==
  ASSUME NEW s \in Seq(Ops), s # <<>>, Remains(s, Simulated)
  PROVE  /\ Len(s) \in Nat \ {0} /\ Head(s) \notin {"start", "wait", "drain"}
         /\ Head(s) = "close" <=> Len(s) = 2
         /\ Head(s) = "notify" <=> Len(s) = 1
<1>1. Steps \in Nat
  BY BuilderConstants
<1>2. PICK n \in 1..Len(Simulated) : n = Len(s) /\ Head(s) = Simulated[Len(Simulated) - n + 1]
  BY RemainsNext, SimulatedIs
<1>3. n \in 1..(Steps + 6) /\ n = Len(s) /\ Head(s) = Simulated[Steps + 7 - n]
  BY <1>1, <1>2, SimulatedIs
<1>4. n \in Nat \ {0}
  BY ONLY <1>1, <1>3
<1>5. /\ Simulated[Steps + 7 - n] \notin {"start", "wait", "drain"}
      /\ Simulated[Steps + 7 - n] = "close" <=> n = 2
      /\ Simulated[Steps + 7 - n] = "notify" <=> n = 1
  BY <1>3, SimulatedAt
<1> QED
  BY ONLY <1>3, <1>4, <1>5

(* The same for the builds that fail.                                      *)
LEMMA FailingNext ==
  ASSUME NEW s \in Seq(Ops), s # <<>>
  PROVE  /\ Remains(s, NotStarted) => /\ Len(s) \in 1..3
                                      /\ Head(s) = "log" <=> Len(s) = 3
                                      /\ Head(s) = "failed" <=> Len(s) = 2
                                      /\ Head(s) = "close" <=> Len(s) = 1
         /\ Remains(s, CommandFailed) => /\ Len(s) \in 1..4
                                         /\ Head(s) = "log" <=> Len(s) = 4
                                         /\ Head(s) = "failed" <=> Len(s) = 3
                                         /\ Head(s) = "close" <=> Len(s) \in {1, 2}
<1>1. ASSUME Remains(s, NotStarted)
      PROVE  /\ Len(s) \in 1..3
             /\ Head(s) = "log" <=> Len(s) = 3
             /\ Head(s) = "failed" <=> Len(s) = 2
             /\ Head(s) = "close" <=> Len(s) = 1
  <2>1. PICK n \in 1..Len(NotStarted) : n = Len(s) /\ Head(s) = NotStarted[Len(NotStarted) - n + 1]
    BY <1>1, RemainsNext, FailingIs
  <2>2. n \in 1..3 /\ n = Len(s) /\ Head(s) = NotStarted[4 - n]
    BY <2>1, FailingIs
  <2>3. /\ NotStarted[4 - n] = "log" <=> n = 3
        /\ NotStarted[4 - n] = "failed" <=> n = 2
        /\ NotStarted[4 - n] = "close" <=> n = 1
    BY <2>2, FailingAt, Zenon
  <2> QED
    BY ONLY <2>2, <2>3
<1>2. ASSUME Remains(s, CommandFailed)
      PROVE  /\ Len(s) \in 1..4
             /\ Head(s) = "log" <=> Len(s) = 4
             /\ Head(s) = "failed" <=> Len(s) = 3
             /\ Head(s) = "close" <=> Len(s) \in {1, 2}
  <2>1. PICK n \in 1..Len(CommandFailed) : n = Len(s) /\ Head(s) = CommandFailed[Len(CommandFailed) - n + 1]
    BY <1>2, RemainsNext, FailingIs
  <2>2. n \in 1..4 /\ n = Len(s) /\ Head(s) = CommandFailed[5 - n]
    BY <2>1, FailingIs
  <2> QED
    BY ONLY <2>2, FailingAt
<1> QED
  BY <1>1, <1>2

-----------------------------------------------------------------------------
(* Types.                                                                  *)

ScriptsTyped == script \in [Builds -> Seq(Ops)]

BuffersTyped == buffer \in [Readers -> Seq(Nat)] /\ \A s \in Readers : Len(buffer[s]) <= Cap

FieldsTyped ==
  /\ mode \in Modes
  /\ crash \in {"no", "closedChannel", "tornSlice"}
  /\ lock \in {Free} \cup Readers \cup Mains
  /\ status \in [Builds -> {"none", "queued", "running", "succeeded", "failed"}]
  /\ logs \in [Builds -> Nat]
  /\ subscribers \in [Builds -> SUBSET Readers]
  /\ closed \subseteq Readers
  /\ pc \in [Goroutines -> {"none", "ready", "append", "lookup", "range", "send",
                            "closing", "done"}]
  /\ line \in [Goroutines -> Nat]
  /\ todo \in [Goroutines -> SUBSET Readers]
  /\ command \in [Builds -> {"none", "running", "ok", "error"}]
  /\ unread \in [Pipes -> Nat]
  /\ erred \subseteq Pipes
  /\ place \in [Readers -> {"idle", "locked", "replay", "streaming", "done"}]
  /\ of \in [Readers -> Builds \cup {Free}]
  /\ replayed \in [Readers -> Nat]
  /\ settled \in [Readers -> SUBSET Nat]
  /\ registered \subseteq Builds

(* The types, with the sequences apart.                                    *)
LEMMA TypeParts == BuilderTypeOK <=> ScriptsTyped /\ BuffersTyped /\ FieldsTyped
BY DEF BuilderTypeOK, ScriptsTyped, BuffersTyped, FieldsTyped, Ops

(* The variables that are no sequences keep their types.                   *)
LEMMA FieldsStep ==
  ASSUME FieldsTyped, BuffersTyped, BuilderNext
  PROVE  FieldsTyped'
<1> USE Names, BuilderConstants DEF FieldsTyped, Goto, storeVars, commandVars, buildVars, readerVars
<1>1. ASSUME NEW b \in Builds, Create(b)
      PROVE  FieldsTyped'
  BY <1>1 DEF Create
<1>2. ASSUME NEW b \in Builds, AppendOwn(b)
      PROVE  FieldsTyped'
  BY <1>2 DEF AppendOwn, Appended, Calls, Advance
<1>3. ASSUME NEW b \in Builds, UpdateStatus(b)
      PROVE  FieldsTyped'
  BY <1>3 DEF UpdateStatus, Calls, Advance
<1>4. ASSUME NEW b \in Builds, StartFails(b)
      PROVE  FieldsTyped'
  BY <1>4 DEF StartFails, Calls, Advance
<1>5. ASSUME NEW b \in Builds, Start(b)
      PROVE  FieldsTyped'
  <2>1. /\ pc' = [g \in Goroutines |-> IF g \in Pipes /\ Build(g) = b THEN "ready" ELSE pc[g]]
        /\ UNCHANGED <<mode, crash, lock, status, logs, subscribers, closed, erred, line, todo,
                       place, of, replayed, settled, registered>>
        /\ command' = [command EXCEPT ![b] = "running"]
    BY ONLY <1>5 DEF Start, storeVars, readerVars
  <2>2. PICK o \in Nat \X Nat :
          unread' = [unread EXCEPT ![<<b, "stdout">>] = o[1], ![<<b, "stderr">>] = o[2]]
    BY ONLY <1>5, BuilderConstants DEF Start
  <2>3. unread' \in [Pipes -> Nat]
    BY <2>2
  <2>4. command' \in [Builds -> {"none", "running", "ok", "error"}]
    BY <2>1
  <2>5. pc' \in [Goroutines -> {"none", "ready", "append", "lookup", "range", "send",
                               "closing", "done"}]
    BY <2>1
  <2> QED
    BY ONLY FieldsTyped, <2>1, <2>3, <2>4, <2>5 DEF FieldsTyped
<1>6. ASSUME NEW b \in Builds, Wait(b)
      PROVE  FieldsTyped'
  BY <1>6 DEF Wait, Calls, Advance
<1>7. ASSUME NEW b \in Builds, Drain(b)
      PROVE  FieldsTyped'
  BY <1>7 DEF Drain, Calls, Advance
<1>8. ASSUME NEW b \in Builds, Close(b)
      PROVE  FieldsTyped'
  BY <1>8 DEF Close, Calls, Advance
<1>9. ASSUME NEW b \in Builds, Forget(b)
      PROVE  FieldsTyped'
  BY <1>9 DEF Forget
<1>10. ASSUME NEW b \in Builds, Notify(b)
       PROVE  FieldsTyped'
  BY <1>10 DEF Notify, Calls, Advance
<1>11. ASSUME NEW b \in Builds, Exit(b)
       PROVE  FieldsTyped'
  BY <1>11 DEF Exit
<1>12. ASSUME NEW p \in Pipes, Scan(p)
       PROVE  FieldsTyped'
  BY <1>12 DEF Scan
<1>13. ASSUME NEW p \in Pipes, ScanFails(p)
       PROVE  FieldsTyped'
  BY <1>13 DEF ScanFails
<1>14. ASSUME NEW p \in Pipes, AppendScanned(p)
       PROVE  FieldsTyped'
  BY <1>14 DEF AppendScanned, Appended
<1>15. ASSUME NEW g \in Goroutines, Lookup(g)
       PROVE  FieldsTyped'
  BY <1>15 DEF Lookup
<1>16. ASSUME NEW g \in Goroutines, RangeLoop(g)
       PROVE  FieldsTyped'
  BY <1>16 DEF RangeLoop, Reaches
<1>17. ASSUME NEW why \in {"closedChannel", "tornSlice"}, Die(why)
       PROVE  FieldsTyped'
  BY <1>17 DEF Die
<1>18. ASSUME NEW g \in Goroutines, NEW s \in Readers, Deliver(g, s)
       PROVE  FieldsTyped'
  <2>1. settled' = settled \/ settled' = [settled EXCEPT ![s] = settled[s] \cup {line[g]}]
    BY <1>18 DEF Deliver
  <2>2. settled' \in [Readers -> SUBSET Nat]
    BY <2>1
  <2>3. UNCHANGED <<mode, crash, lock, status, logs, subscribers, closed, commandVars,
                    script, place, of, replayed, registered>>
    BY <1>18 DEF Deliver
  <2>4. /\ todo' \in [Goroutines -> SUBSET Readers] /\ line' \in [Goroutines -> Nat]
        /\ pc' \in [Goroutines -> {"none", "ready", "append", "lookup", "range", "send",
                                  "closing", "done"}]
    BY <1>18 DEF Deliver, Reaches
  <2> QED
    BY <2>2, <2>3, <2>4
<1>19. ASSUME NEW s \in Readers, Register(s)
       PROVE  FieldsTyped'
  <2>1. subscribers' = [subscribers EXCEPT ![of[s]] = subscribers[of[s]] \cup {s}]
    BY <1>19 DEF Register
  <2>2. subscribers' \in [Builds -> SUBSET Readers]
    <3>1. subscribers \in [Builds -> SUBSET Readers] /\ s \in Readers
      OBVIOUS
    <3>2. ASSUME NEW b \in Builds
          PROVE  (IF b = of[s] THEN subscribers[of[s]] \cup {s} ELSE subscribers[b]) \in SUBSET Readers
      BY ONLY <3>1
    <3>3. subscribers' = [b \in Builds |-> IF b = of[s] THEN subscribers[of[s]] \cup {s}
                                                       ELSE subscribers[b]]
      BY ONLY <2>1, <3>1
    <3> QED
      BY ONLY <3>2, <3>3
  <2> QED
    BY <1>19, <2>2 DEF Register
<1>20. ASSUME NEW s \in Readers, Replay(s)
       PROVE  FieldsTyped'
  BY <1>20 DEF Replay
<1>21. ASSUME NEW s \in Readers, Subscribed(s)
       PROVE  FieldsTyped'
  BY <1>21 DEF Subscribed
<1>22. ASSUME NEW s \in Readers, Receive(s)
       PROVE  FieldsTyped'
  <2>1. Head(buffer[s]) \in Nat
    BY <1>22, HeadTailProperties DEF Receive, BuffersTyped
  <2> QED
    BY <1>22, <2>1 DEF Receive
<1>23. ASSUME NEW s \in Readers, Leave(s)
       PROVE  FieldsTyped'
  BY <1>23 DEF Leave
<1>24. ASSUME NEW s \in Readers, NEW b \in Builds, Subscribe(s, b)
       PROVE  FieldsTyped'
  BY <1>24 DEF Subscribe
<1> QED
  BY <1>1, <1>2, <1>3, <1>4, <1>5, <1>6, <1>7, <1>8, <1>9, <1>10, <1>11, <1>12, <1>13, <1>14,
     <1>15, <1>16, <1>17, <1>18, <1>19, <1>20, <1>21, <1>22, <1>23, <1>24
     DEF BuilderNext, RunBuild, StreamPipe, Broadcast, StreamLogs, StreamClosed, RangeTorn,
         DeliverToClosed

(* Only the calls of the main goroutine change a script, and only what is  *)
(* read, delivered or replayed changes a channel.                          *)
ScriptMoves ==
  \/ UNCHANGED script
  \/ script' = [b \in Builds |-> <<>>]
  \/ \E b \in Builds, whole \in {Simulated, Commanded, NotStarted, CommandFailed} :
       script' = [script EXCEPT ![b] = whole]
  \/ \E b \in Builds : script[b] # <<>> /\ script' = [script EXCEPT ![b] = Tail(script[b])]

BufferMoves ==
  \/ UNCHANGED buffer
  \/ buffer' = [s \in Readers |-> <<>>]
  \/ \E s \in Readers : buffer[s] # <<>> /\ buffer' = [buffer EXCEPT ![s] = Tail(buffer[s])]
  \/ \E s \in Readers, l \in Nat :
       Len(buffer[s]) < Cap /\ buffer' = [buffer EXCEPT ![s] = Append(buffer[s], l)]

(* What happens to the scripts.                                            *)
LEMMA ScriptSteps == ASSUME BuilderNext PROVE ScriptMoves
<1>1. ASSUME NEW b \in Builds, Create(b) \/ StartFails(b)
      PROVE  ScriptMoves
  BY <1>1 DEF Create, StartFails, ScriptMoves
<1>2. ASSUME NEW b \in Builds, Wait(b)
      PROVE  ScriptMoves
  <2>1. /\ script[b] # <<>>
        /\ \/ script' = [script EXCEPT ![b] = Tail(script[b])]
           \/ script' = [script EXCEPT ![b] = CommandFailed]
    BY <1>2 DEF Wait, Calls
  <2> QED
    BY <2>1 DEF ScriptMoves
<1>3. ASSUME NEW b \in Builds,
             AppendOwn(b) \/ UpdateStatus(b) \/ Start(b) \/ Drain(b) \/ Close(b) \/ Notify(b)
      PROVE  ScriptMoves
  <2>1. script[b] # <<>> /\ script' = [script EXCEPT ![b] = Tail(script[b])]
    BY <1>3 DEF AppendOwn, UpdateStatus, Start, Drain, Close, Notify, Calls, Advance
  <2> QED
    BY <2>1 DEF ScriptMoves
<1>4. ASSUME NEW b \in Builds, Forget(b) \/ Exit(b)
      PROVE  ScriptMoves
  BY <1>4 DEF Forget, Exit, buildVars, ScriptMoves
<1>5. ASSUME NEW p \in Pipes, StreamPipe(p)
      PROVE  ScriptMoves
  BY <1>5 DEF StreamPipe, Scan, ScanFails, AppendScanned, ScriptMoves
<1>6. ASSUME NEW g \in Goroutines, Broadcast(g)
      PROVE  ScriptMoves
  BY <1>6 DEF Broadcast, Lookup, RangeLoop, RangeTorn, Deliver, DeliverToClosed, Die, ScriptMoves
<1>7. ASSUME NEW s \in Readers, StreamLogs(s) \/ Leave(s)
      PROVE  ScriptMoves
  BY <1>7 DEF StreamLogs, StreamClosed, Register, Replay, Subscribed, Receive, Leave, buildVars,
              ScriptMoves
<1>8. ASSUME NEW s \in Readers, NEW b \in Builds, Subscribe(s, b)
      PROVE  ScriptMoves
  BY <1>8 DEF Subscribe, buildVars, ScriptMoves
<1> QED
  BY <1>1, <1>2, <1>3, <1>4, <1>5, <1>6, <1>7, <1>8 DEF BuilderNext, RunBuild

(* Scripts are made of calls.                                              *)
LEMMA ScriptsStep ==
  ASSUME ScriptsTyped, BuilderNext
  PROVE  ScriptsTyped'
<1>1. \A whole \in {Simulated, Commanded, NotStarted, CommandFailed} : whole \in Seq(Ops)
  BY CommandedIs, SimulatedIs, FailingIs
<1>2. ASSUME NEW b \in Builds, NEW s \in Seq(Ops), script' = [script EXCEPT ![b] = s]
      PROVE  ScriptsTyped'
  BY <1>2 DEF ScriptsTyped
<1>3. \A b \in Builds : script[b] # <<>> => Tail(script[b]) \in Seq(Ops)
  BY HeadTailProperties DEF ScriptsTyped
<1>4. CASE script' = [b \in Builds |-> <<>>]
  <2>1. <<>> \in Seq(Ops)
    OBVIOUS
  <2> QED
    BY <1>4, <2>1 DEF ScriptsTyped
<1>5. CASE UNCHANGED script
  BY <1>5 DEF ScriptsTyped
<1> QED
  BY ScriptSteps, <1>1, <1>2, <1>3, <1>4, <1>5 DEF ScriptMoves

(* What happens to the channels.                                           *)
LEMMA BufferSteps == ASSUME FieldsTyped, BuilderNext PROVE BufferMoves
<1>1. ASSUME NEW b \in Builds, Create(b) \/ RunBuild(b) \/ Exit(b)
      PROVE  BufferMoves
  BY <1>1
     DEF Create, RunBuild, Exit, AppendOwn, UpdateStatus, StartFails, Start, Wait, Drain, Close,
              Forget, Notify, storeVars, BufferMoves
<1>2. ASSUME NEW p \in Pipes, StreamPipe(p)
      PROVE  BufferMoves
  BY <1>2 DEF StreamPipe, Scan, ScanFails, AppendScanned, storeVars, BufferMoves
<1>3. ASSUME NEW g \in Goroutines, Broadcast(g)
      PROVE  BufferMoves
  <2>1. CASE Lookup(g) \/ RangeLoop(g)
    BY <2>1 DEF Lookup, RangeLoop, storeVars, BufferMoves
  <2>2. ASSUME NEW why, Die(why)
        PROVE  BufferMoves
    BY <2>2 DEF Die, BufferMoves
  <2>3. ASSUME NEW s \in Readers, Deliver(g, s)
        PROVE  BufferMoves
    <3>1. \/ UNCHANGED buffer
          \/ Len(buffer[s]) < Cap /\ buffer' = [buffer EXCEPT ![s] = Append(buffer[s], line[g])]
      BY <2>3 DEF Deliver
    <3>2. line[g] \in Nat
      BY DEF FieldsTyped
    <3> QED
      BY <3>1, <3>2 DEF BufferMoves
  <2> QED
    BY <1>3, <2>1, <2>2, <2>3 DEF Broadcast, RangeTorn, DeliverToClosed
<1>4. ASSUME NEW s \in Readers, StreamLogs(s)
      PROVE  BufferMoves
  <2>1. CASE Replay(s)
    <3>1. /\ Len(buffer[s]) < Cap
          /\ replayed' = [replayed EXCEPT ![s] = replayed[s] + 1]
          /\ buffer' = [buffer EXCEPT ![s] = Append(buffer[s], replayed'[s])]
      BY <2>1 DEF Replay
    <3>2. replayed'[s] \in Nat
      BY <3>1 DEF FieldsTyped
    <3> QED
      BY <3>1, <3>2 DEF BufferMoves
  <2>2. CASE Receive(s)
    BY <2>2 DEF Receive, BufferMoves
  <2>3. CASE Register(s) \/ Subscribed(s) \/ StreamClosed(s)
    BY <2>3 DEF Register, Subscribed, StreamClosed, Leave, storeVars, BufferMoves
  <2> QED
    BY <1>4, <2>1, <2>2, <2>3 DEF StreamLogs
<1>5. ASSUME NEW s \in Readers, NEW b \in Builds, Leave(s) \/ Subscribe(s, b)
      PROVE  BufferMoves
  BY <1>5 DEF Leave, Subscribe, storeVars, BufferMoves
<1>6. ASSUME NEW s \in Readers, Leave(s)
      PROVE  BufferMoves
  BY <1>6 DEF Leave, storeVars, BufferMoves
<1> QED
  BY <1>1, <1>2, <1>3, <1>4, <1>5, <1>6 DEF BuilderNext

(* No channel holds more than it takes.                                    *)
LEMMA BuffersStep ==
  ASSUME FieldsTyped, BuffersTyped, BuilderNext
  PROVE  BuffersTyped'
<1>1. ASSUME NEW s \in Readers, NEW q \in Seq(Nat), Len(q) <= Cap, buffer' = [buffer EXCEPT ![s] = q]
      PROVE  BuffersTyped'
  BY <1>1 DEF BuffersTyped
<1>2. ASSUME NEW s \in Readers
      PROVE  buffer[s] \in Seq(Nat) /\ Len(buffer[s]) \in Nat /\ Len(buffer[s]) <= Cap
  BY DEF BuffersTyped
<1>3. Cap \in Nat
  BY BuilderConstants
<1>4. ASSUME NEW s \in Readers, buffer[s] # <<>>
      PROVE  Tail(buffer[s]) \in Seq(Nat) /\ Len(Tail(buffer[s])) <= Cap
  <2>1. Tail(buffer[s]) \in Seq(Nat) /\ Len(Tail(buffer[s])) = Len(buffer[s]) - 1
    BY ONLY <1>2, <1>4, HeadTailProperties, s \in Readers
  <2> QED
    BY ONLY <1>2, <1>3, <2>1, s \in Readers
<1>5. ASSUME NEW s \in Readers, NEW l \in Nat, Len(buffer[s]) < Cap
      PROVE  Append(buffer[s], l) \in Seq(Nat) /\ Len(Append(buffer[s], l)) <= Cap
  <2>1. Append(buffer[s], l) \in Seq(Nat) /\ Len(Append(buffer[s], l)) = Len(buffer[s]) + 1
    BY ONLY <1>2, AppendProperties, s \in Readers, l \in Nat
  <2> QED
    BY ONLY <1>2, <1>3, <1>5, <2>1, s \in Readers
<1>6. CASE buffer' = [s \in Readers |-> <<>>]
  <2>1. <<>> \in Seq(Nat) /\ Len(<<>>) = 0
    OBVIOUS
  <2> QED
    BY <1>3, <1>6, <2>1 DEF BuffersTyped
<1>7. CASE UNCHANGED buffer
  BY <1>7 DEF BuffersTyped
<1> QED
  BY BufferSteps, <1>1, <1>4, <1>5, <1>6, <1>7 DEF BufferMoves

(* The types are kept.                                                     *)
LEMMA TypeStep ==
  ASSUME BuilderTypeOK, BuilderNext
  PROVE  BuilderTypeOK'
<1>1. ScriptsTyped /\ BuffersTyped /\ FieldsTyped
  BY TypeParts
<1>2. ScriptsTyped' /\ BuffersTyped' /\ FieldsTyped'
  BY <1>1, ScriptsStep, BuffersStep, FieldsStep
<1> QED
  BY <1>2, TypeParts DEF BuilderTypeOK, ScriptsTyped, BuffersTyped, FieldsTyped, Ops

-----------------------------------------------------------------------------
(* The lock, and the death of the process.                                 *)

(* The lock is taken and given back by whom it belongs to.                 *)
LEMMA LockedStep ==
  ASSUME FieldsTyped, Locked, BuilderNext
  PROVE  Locked'
<1> USE Names, BuilderConstants DEF FieldsTyped, Locked, Goto, storeVars, commandVars, buildVars, readerVars
<1>1. ASSUME NEW b \in Builds, Create(b)
      PROVE  Locked'
  BY <1>1 DEF Create
<1>2. ASSUME NEW b \in Builds, AppendOwn(b)
      PROVE  Locked'
  BY <1>2 DEF AppendOwn, Appended, Calls, Advance
<1>3. ASSUME NEW b \in Builds, UpdateStatus(b)
      PROVE  Locked'
  BY <1>3 DEF UpdateStatus, Calls, Advance
<1>4. ASSUME NEW b \in Builds, StartFails(b)
      PROVE  Locked'
  BY <1>4 DEF StartFails, Calls, Advance
<1>5. ASSUME NEW b \in Builds, Start(b)
      PROVE  Locked'
  BY <1>5 DEF Start, Calls, Advance
<1>6. ASSUME NEW b \in Builds, Wait(b)
      PROVE  Locked'
  BY <1>6 DEF Wait, Calls, Advance
<1>7. ASSUME NEW b \in Builds, Drain(b)
      PROVE  Locked'
  BY <1>7 DEF Drain, Calls, Advance
<1>8. ASSUME NEW b \in Builds, Close(b)
      PROVE  Locked'
  BY <1>8 DEF Close, Calls, Advance
<1>9. ASSUME NEW b \in Builds, Forget(b)
      PROVE  Locked'
  BY <1>9 DEF Forget
<1>10. ASSUME NEW b \in Builds, Notify(b)
       PROVE  Locked'
  BY <1>10 DEF Notify, Calls, Advance
<1>11. ASSUME NEW b \in Builds, Exit(b)
       PROVE  Locked'
  BY <1>11 DEF Exit
<1>12. ASSUME NEW p \in Pipes, Scan(p)
       PROVE  Locked'
  BY <1>12 DEF Scan
<1>13. ASSUME NEW p \in Pipes, ScanFails(p)
       PROVE  Locked'
  BY <1>13 DEF ScanFails
<1>14. ASSUME NEW p \in Pipes, AppendScanned(p)
       PROVE  Locked'
  BY <1>14 DEF AppendScanned, Appended
<1>15. ASSUME NEW g \in Goroutines, Lookup(g)
       PROVE  Locked'
  BY <1>15 DEF Lookup
<1>16. ASSUME NEW g \in Goroutines, RangeLoop(g)
       PROVE  Locked'
  BY <1>16 DEF RangeLoop, Reaches
<1>17. ASSUME NEW why \in {"closedChannel", "tornSlice"}, Die(why)
       PROVE  Locked'
  BY <1>17 DEF Die
<1>18. ASSUME NEW g \in Goroutines, NEW s \in Readers, Deliver(g, s)
       PROVE  Locked'
  BY <1>18 DEF Deliver, Reaches
<1>19. ASSUME NEW s \in Readers, Register(s)
       PROVE  Locked'
  BY <1>19 DEF Register
<1>20. ASSUME NEW s \in Readers, Replay(s)
       PROVE  Locked'
  BY <1>20 DEF Replay
<1>21. ASSUME NEW s \in Readers, Subscribed(s)
       PROVE  Locked'
  BY <1>21 DEF Subscribed
<1>22. ASSUME NEW s \in Readers, Receive(s)
       PROVE  Locked'
  BY <1>22 DEF Receive
<1>23. ASSUME NEW s \in Readers, Leave(s)
       PROVE  Locked'
  BY <1>23 DEF Leave
<1>24. ASSUME NEW s \in Readers, NEW b \in Builds, Subscribe(s, b)
       PROVE  Locked'
  BY <1>24 DEF Subscribe
<1> QED
  BY <1>1, <1>2, <1>3, <1>4, <1>5, <1>6, <1>7, <1>8, <1>9, <1>10, <1>11, <1>12, <1>13, <1>14,
     <1>15, <1>16, <1>17, <1>18, <1>19, <1>20, <1>21, <1>22, <1>23, <1>24
     DEF BuilderNext, RunBuild, StreamPipe, Broadcast, StreamLogs, StreamClosed, RangeTorn,
         DeliverToClosed

(* Nobody does anything in a process that died.                            *)
LEMMA DeadStep ==
  ASSUME FieldsTyped, Dead, BuilderNext
  PROVE  Dead'
<1> USE Names, BuilderConstants DEF FieldsTyped, Dead, Goto, storeVars, commandVars, buildVars, readerVars
<1>1. ASSUME NEW b \in Builds, Create(b)
      PROVE  Dead'
  BY <1>1 DEF Create
<1>2. ASSUME NEW b \in Builds, AppendOwn(b)
      PROVE  Dead'
  BY <1>2 DEF AppendOwn, Appended, Calls, Advance
<1>3. ASSUME NEW b \in Builds, UpdateStatus(b)
      PROVE  Dead'
  BY <1>3 DEF UpdateStatus, Calls, Advance
<1>4. ASSUME NEW b \in Builds, StartFails(b)
      PROVE  Dead'
  BY <1>4 DEF StartFails, Calls, Advance
<1>5. ASSUME NEW b \in Builds, Start(b)
      PROVE  Dead'
  BY <1>5 DEF Start, Calls, Advance
<1>6. ASSUME NEW b \in Builds, Wait(b)
      PROVE  Dead'
  BY <1>6 DEF Wait, Calls, Advance
<1>7. ASSUME NEW b \in Builds, Drain(b)
      PROVE  Dead'
  BY <1>7 DEF Drain, Calls, Advance
<1>8. ASSUME NEW b \in Builds, Close(b)
      PROVE  Dead'
  BY <1>8 DEF Close, Calls, Advance
<1>9. ASSUME NEW b \in Builds, Forget(b)
      PROVE  Dead'
  BY <1>9 DEF Forget
<1>10. ASSUME NEW b \in Builds, Notify(b)
       PROVE  Dead'
  BY <1>10 DEF Notify, Calls, Advance
<1>11. ASSUME NEW b \in Builds, Exit(b)
       PROVE  Dead'
  BY <1>11 DEF Exit
<1>12. ASSUME NEW p \in Pipes, Scan(p)
       PROVE  Dead'
  BY <1>12 DEF Scan
<1>13. ASSUME NEW p \in Pipes, ScanFails(p)
       PROVE  Dead'
  BY <1>13 DEF ScanFails
<1>14. ASSUME NEW p \in Pipes, AppendScanned(p)
       PROVE  Dead'
  BY <1>14 DEF AppendScanned, Appended
<1>15. ASSUME NEW g \in Goroutines, Lookup(g)
       PROVE  Dead'
  BY <1>15 DEF Lookup
<1>16. ASSUME NEW g \in Goroutines, RangeLoop(g)
       PROVE  Dead'
  BY <1>16 DEF RangeLoop, Reaches
<1>17. ASSUME NEW why \in {"closedChannel", "tornSlice"}, Die(why)
       PROVE  Dead'
  BY <1>17 DEF Die
<1>18. ASSUME NEW g \in Goroutines, NEW s \in Readers, Deliver(g, s)
       PROVE  Dead'
  BY <1>18 DEF Deliver, Reaches
<1>19. ASSUME NEW s \in Readers, Register(s)
       PROVE  Dead'
  BY <1>19 DEF Register
<1>20. ASSUME NEW s \in Readers, Replay(s)
       PROVE  Dead'
  BY <1>20 DEF Replay
<1>21. ASSUME NEW s \in Readers, Subscribed(s)
       PROVE  Dead'
  BY <1>21 DEF Subscribed
<1>22. ASSUME NEW s \in Readers, Receive(s)
       PROVE  Dead'
  BY <1>22 DEF Receive
<1>23. ASSUME NEW s \in Readers, Leave(s)
       PROVE  Dead'
  BY <1>23 DEF Leave
<1>24. ASSUME NEW s \in Readers, NEW b \in Builds, Subscribe(s, b)
       PROVE  Dead'
  BY <1>24 DEF Subscribe
<1> QED
  BY <1>1, <1>2, <1>3, <1>4, <1>5, <1>6, <1>7, <1>8, <1>9, <1>10, <1>11, <1>12, <1>13, <1>14,
     <1>15, <1>16, <1>17, <1>18, <1>19, <1>20, <1>21, <1>22, <1>23, <1>24
     DEF BuilderNext, RunBuild, StreamPipe, Broadcast, StreamLogs, StreamClosed, RangeTorn,
         DeliverToClosed

-----------------------------------------------------------------------------
(* The course of a build.                                                  *)

(* The step makes none of the calls of build c, and its pipe readers       *)
(* neither begin nor end.                                                  *)
Still(c) ==
  /\ script'[c] = script[c] /\ status'[c] = status[c]
  /\ command[c] = "error" => command'[c] = "error"
  /\ \A p \in {Out(c), Err(c)} : /\ pc'[p] = "none" <=> pc[p] = "none"
                                 /\ pc'[p] = "done" <=> pc[p] = "done"
  /\ pc'[Main(c)] = "none" <=> pc[Main(c)] = "none"
  /\ \/ pc'[Main(c)] = pc[Main(c)]
     \/ pc[Main(c)] \notin {"none", "ready", "closing"}
     \/ pc'[Main(c)] \in {"none", "ready", "closing"}
  /\ pc'[Main(c)] = "closing" => pc[Main(c)] = "closing"

(* Such a step keeps it on its course.                                     *)
LEMMA CourseKept ==
  ASSUME NEW c \in Builds, Course(c), Still(c)
  PROVE  Course(c)'
BY DEF Still, Course, Absent, Simulates, Commands, GivesUp, Fails, Over, Remains, Left

(* A build that makes a call that is none of "start", "wait" and "drain"   *)
(* stays on its course.                                                    *)
LEMMA CourseCalled ==
  ASSUME NEW c \in Builds, Course(c), script[c] \in Seq(Ops), script[c] # <<>>,
         Head(script[c]) \notin {"start", "wait", "drain"},
         script'[c] = Tail(script[c]), command'[c] = command[c],
         pc[Main(c)] = "ready", pc'[Main(c)] \in {"ready", "closing", "lookup"},
         Head(script[c]) # "log" => pc'[Main(c)] \in {"ready", "closing"},
         pc'[Main(c)] = "closing" => Head(script[c]) = "close",
         \A p \in {Out(c), Err(c)} : pc'[p] = pc[p],
         \/ status'[c] = status[c] /\ Head(script[c]) # "succeeded"
         \/ status'[c] = Head(script[c]) /\ status'[c] # "none"
  PROVE  Course(c)'
<1>1. /\ Len(Tail(script[c])) = Len(script[c]) - 1 /\ Len(script[c]) \in Nat \ {0}
      /\ \A whole \in Seq(Ops) : Remains(script[c], whole) => Remains(Tail(script[c]), whole)
  <2>1. Len(script[c]) \in Nat \ {0}
    OBVIOUS
  <2>2. Len(Tail(script[c])) = Len(script[c]) - 1
    BY HeadTailProperties
  <2> QED
    BY <2>1, <2>2, RemainsTail
<1>2. PICK n, op, rest :
        n = Len(script[c]) /\ op = Head(script[c]) /\ rest = Tail(script[c])
  BY <1>1
<1>3. /\ n \in Nat \ {0} /\ Left(c) = n /\ Left(c)' = n - 1
      /\ script'[c] = rest /\ command'[c] = command[c]
      /\ pc[Main(c)] = "ready" /\ pc'[Main(c)] \in {"ready", "closing", "lookup"}
      /\ op # "log" => pc'[Main(c)] \in {"ready", "closing"}
      /\ pc'[Main(c)] = "closing" => op = "close"
      /\ pc'[Out(c)] = pc[Out(c)] /\ pc'[Err(c)] = pc[Err(c)]
      /\ \/ status'[c] = status[c] /\ op # "succeeded"
         \/ status'[c] = op
      /\ status'[c] # "none"
  <2>1. status[c] # "none"
    BY DEF Absent, Course
  <2> QED
    BY <1>1, <1>2, <2>1 DEF Left
<1>4. CASE Simulates(c)
  <2>1. Remains(rest, Simulated)
    BY <1>1, <1>2, <1>4, SimulatedIs DEF Simulates
  <2>2. (op = "close" <=> n = 2) /\ (op = "notify" <=> n = 1)
    BY <1>2, <1>4, SimulatedNext DEF Simulates
  <2>3. pc[Out(c)] = "none" /\ pc[Err(c)] = "none"
    BY <1>4 DEF Simulates
  <2> QED
    BY ONLY <1>3, <2>1, <2>2, <2>3 DEF Course, Simulates
<1>5. CASE Commands(c)
  <2>1. Remains(rest, Commanded)
    BY <1>1, <1>2, <1>5, CommandedIs DEF Commands
  <2>2. /\ n \in 1..10
        /\ op = "start" <=> n = 8
        /\ op = "wait" <=> n = 7
        /\ op = "drain" <=> n \in {5, 6}
        /\ op = "succeeded" <=> n = 4
        /\ op = "close" <=> n = 2
        /\ op = "notify" <=> n = 1
    BY <1>2, <1>5, CommandedNext DEF Commands
  <2>3. op \notin {"start", "wait", "drain"}
    BY <1>2
  <2>4. n \in {1, 2, 3, 4, 9, 10}
    BY ONLY <2>2, <2>3
  <2>5. /\ n >= 8 => pc[Out(c)] = "none" /\ pc[Err(c)] = "none"
        /\ n <= 4 => Over(Out(c)) /\ Over(Err(c))
        /\ n >= 4 => status[c] # "succeeded"
    BY <1>3, <1>5 DEF Commands
  <2> QED
    BY ONLY <1>3, <2>1, <2>2, <2>4, <2>5 DEF Course, Commands, Over
<1>6. CASE GivesUp(c)
  <2>1. Remains(rest, NotStarted)
    BY <1>1, <1>2, <1>6, FailingIs DEF GivesUp
  <2>2. /\ op = "log" <=> n = 3
        /\ op = "failed" <=> n = 2
        /\ op = "close" <=> n = 1
    BY <1>2, <1>6, FailingNext DEF GivesUp
  <2>3. pc[Out(c)] = "none" /\ pc[Err(c)] = "none"
    BY <1>6 DEF GivesUp
  <2> QED
    BY ONLY <1>3, <2>1, <2>2, <2>3 DEF Course, GivesUp
<1>7. CASE Fails(c)
  <2>1. Remains(rest, CommandFailed)
    BY <1>1, <1>2, <1>7, FailingIs DEF Fails
  <2>2. /\ n \in 1..4
        /\ op = "log" <=> n = 4
        /\ op = "failed" <=> n = 3
        /\ op = "close" <=> n \in {1, 2}
    BY <1>2, <1>7, FailingNext DEF Fails
  <2>3. command[c] = "error" /\ status[c] # "succeeded"
    BY <1>7 DEF Fails
  <2> QED
    BY ONLY <1>3, <2>1, <2>2, <2>3 DEF Course, Fails
<1> QED
  BY <1>4, <1>5, <1>6, <1>7 DEF Course, Absent


(* What a script becomes, and that the others stay.                        *)
LEMMA ScriptAt ==
  ASSUME ScriptsTyped, NEW b \in Builds
  PROVE  /\ script[b] \in Seq(Ops)
         /\ \A v : script' = [script EXCEPT ![b] = v] =>
                     script'[b] = v /\ \A c \in Builds \ {b} : script'[c] = script[c]
BY DEF ScriptsTyped

(* The course of a build whose command is started, waited for, or read.    *)
LEMMA CourseCommanded ==
  ASSUME NEW c \in Builds, Course(c), script[c] \in Seq(Ops), script[c] # <<>>,
         Head(script[c]) \in {"start", "wait", "drain"}
  PROVE  /\ Commands(c) /\ status[c] # "none"
         /\ Head(script[c]) = "start" => Left(c) = 8
         /\ Head(script[c]) = "wait" => Left(c) = 7
         /\ Head(script[c]) = "drain" => Left(c) \in {5, 6}
         /\ script'[c] = Tail(script[c]) => Left(c)' = Left(c) - 1 /\ Remains(script[c], Commanded)'
<1>1. ~Absent(c) /\ status[c] # "none"
  BY DEF Absent, Course
<1>2. ~Simulates(c) /\ ~GivesUp(c) /\ ~Fails(c)
  BY SimulatedNext, FailingNext DEF Simulates, GivesUp, Fails
<1>3. Commands(c)
  BY <1>1, <1>2 DEF Course
<1>4. Remains(script[c], Commanded)
  BY <1>3 DEF Commands
<1>5. /\ Len(script[c]) \in 1..10
      /\ Head(script[c]) = "start" <=> Len(script[c]) = 8
      /\ Head(script[c]) = "wait" <=> Len(script[c]) = 7
      /\ Head(script[c]) = "drain" <=> Len(script[c]) \in {5, 6}
  BY <1>4, CommandedNext
<1>6. Len(Tail(script[c])) = Len(script[c]) - 1 /\ Remains(Tail(script[c]), Commanded)
  BY <1>4, RemainsTail, CommandedIs
<1>7. script'[c] = Tail(script[c]) => Left(c)' = Left(c) - 1 /\ Remains(script[c], Commanded)'
  <2>1. PICK rest, n : rest = Tail(script[c]) /\ n = Len(script[c])
    OBVIOUS
  <2>2. Len(rest) = n - 1 /\ Remains(rest, Commanded) /\ Left(c) = n
    BY <1>6, <2>1 DEF Left
  <2>3. script'[c] = rest => Left(c)' = n - 1 /\ Remains(script[c], Commanded)'
    BY ONLY <2>2 DEF Left
  <2> QED
    BY ONLY <2>1, <2>2, <2>3
<1> QED
  BY ONLY <1>1, <1>3, <1>5, <1>7 DEF Left

(* Every build stays on its course.                                        *)
LEMMA CoursesStep ==
  ASSUME FieldsTyped, ScriptsTyped, Courses, BuilderNext
  PROVE  Courses'
<1> USE Names DEF FieldsTyped, Goto, storeVars, commandVars, buildVars, readerVars
<1>1. ASSUME NEW b \in Builds, Create(b)
      PROVE  Courses'
  <2>1. /\ status[b] = "none" /\ status'[b] = "queued" /\ pc'[Main(b)] = "ready"
        /\ command' = command /\ pc'[Out(b)] = pc[Out(b)] /\ pc'[Err(b)] = pc[Err(b)]
        /\ \A c \in Builds \ {b} :
             /\ pc'[Main(c)] = pc[Main(c)] /\ pc'[Out(c)] = pc[Out(c)] /\ pc'[Err(c)] = pc[Err(c)]
             /\ status'[c] = status[c]
    BY <1>1 DEF Create
  <2>2. /\ script'[b] \in {Simulated, Commanded}
        /\ \A c \in Builds \ {b} : script'[c] = script[c]
    BY <1>1, ScriptAt DEF Create
  <2>3. Absent(b)
    BY <2>1 DEF Courses, Course
  <2>4. ASSUME script'[b] = Simulated
        PROVE  Course(b)'
    <3>1. Simulates(b)' /\ Left(b)' > 1 /\ Left(b)' \in Nat
      <4>1. Remains(Simulated, Simulated) /\ Len(Simulated) \in Nat /\ Len(Simulated) > 1
        BY RemainsWhole, SimulatedIs, BuilderConstants
      <4> QED
        BY ONLY <2>1, <2>3, <2>4, <4>1 DEF Simulates, Absent, Left
    <3> QED
      BY ONLY <2>1, <3>1 DEF Course
  <2>5. ASSUME script'[b] = Commanded
        PROVE  Course(b)'
    <3>1. Remains(script[b], Commanded)' /\ Left(b)' = 10
      <4>1. Remains(Commanded, Commanded) /\ Len(Commanded) = 10
        BY RemainsWhole, CommandedIs
      <4> QED
        BY ONLY <2>5, <4>1 DEF Left
    <3> QED
      BY ONLY <2>1, <2>3, <3>1 DEF Course, Commands, Absent
  <2>6. ASSUME NEW c \in Builds, c # b
        PROVE  Course(c)'
    <3>1. Still(c)
      BY <2>1, <2>2, <2>6 DEF Still
    <3> QED
      BY ONLY <3>1, c \in Builds, Courses, CourseKept DEF Courses
  <2> QED
    BY <2>2, <2>4, <2>5, <2>6 DEF Courses
<1>2. ASSUME NEW b \in Builds, AppendOwn(b)
      PROVE  Courses'
  <2>1. /\ script[b] \in Seq(Ops) /\ script[b] # <<>> /\ script'[b] = Tail(script[b])
        /\ \A c \in Builds \ {b} : script'[c] = script[c]
    BY <1>2, ScriptAt DEF AppendOwn, Calls, Advance
  <2>2. /\ Head(script[b]) \notin {"start", "wait", "drain"} /\ command'[b] = command[b]
        /\ pc[Main(b)] = "ready" /\ pc'[Main(b)] \in {"ready", "closing", "lookup"}
        /\ Head(script[b]) # "log" => pc'[Main(b)] \in {"ready", "closing"}
        /\ pc'[Main(b)] = "closing" => Head(script[b]) = "close"
        /\ \A p \in {Out(b), Err(b)} : pc'[p] = pc[p]
        /\ \/ status'[b] = status[b] /\ Head(script[b]) # "succeeded"
           \/ status'[b] = Head(script[b]) /\ status'[b] # "none"
    BY <1>2 DEF AppendOwn, Calls, Appended
  <2>3. Course(b)'
    BY <2>1, <2>2, CourseCalled DEF Courses
  <2>4. ASSUME NEW c \in Builds, c # b
        PROVE  Course(c)'
    <3>1. /\ pc'[Main(c)] = pc[Main(c)] /\ pc'[Out(c)] = pc[Out(c)] /\ pc'[Err(c)] = pc[Err(c)]
          /\ status'[c] = status[c] /\ command'[c] = command[c]
      BY <1>2, <2>4 DEF AppendOwn, Appended
    <3> QED
      BY <2>1, <2>4, <3>1, CourseKept DEF Still, Courses
  <2> QED
    BY <2>3, <2>4 DEF Courses
<1>3. ASSUME NEW b \in Builds, UpdateStatus(b)
      PROVE  Courses'
  <2>1. /\ script[b] \in Seq(Ops) /\ script[b] # <<>> /\ script'[b] = Tail(script[b])
        /\ \A c \in Builds \ {b} : script'[c] = script[c]
    BY <1>3, ScriptAt DEF UpdateStatus, Calls, Advance
  <2>2. /\ Head(script[b]) \notin {"start", "wait", "drain"} /\ command'[b] = command[b]
        /\ pc[Main(b)] = "ready" /\ pc'[Main(b)] \in {"ready", "closing", "lookup"}
        /\ Head(script[b]) # "log" => pc'[Main(b)] \in {"ready", "closing"}
        /\ pc'[Main(b)] = "closing" => Head(script[b]) = "close"
        /\ \A p \in {Out(b), Err(b)} : pc'[p] = pc[p]
        /\ \/ status'[b] = status[b] /\ Head(script[b]) # "succeeded"
           \/ status'[b] = Head(script[b]) /\ status'[b] # "none"
    BY <1>3 DEF UpdateStatus, Calls
  <2>3. Course(b)'
    BY <2>1, <2>2, CourseCalled DEF Courses
  <2>4. ASSUME NEW c \in Builds, c # b
        PROVE  Course(c)'
    <3>1. /\ pc'[Main(c)] = pc[Main(c)] /\ pc'[Out(c)] = pc[Out(c)] /\ pc'[Err(c)] = pc[Err(c)]
          /\ status'[c] = status[c] /\ command'[c] = command[c]
      BY <1>3, <2>4 DEF UpdateStatus
    <3> QED
      BY <2>1, <2>4, <3>1, CourseKept DEF Still, Courses
  <2> QED
    BY <2>3, <2>4 DEF Courses
<1>4. ASSUME NEW b \in Builds, StartFails(b)
      PROVE  Courses'
  <2>1. /\ script[b] \in Seq(Ops) /\ script[b] # <<>> /\ Head(script[b]) = "start"
        /\ script'[b] = NotStarted /\ \A c \in Builds \ {b} : script'[c] = script[c]
    BY <1>4, ScriptAt DEF StartFails, Calls
  <2>2. pc[Main(b)] = "ready" /\ pc' = pc /\ status' = status /\ command' = command
    BY <1>4 DEF StartFails, Calls
  <2>3. Commands(b) /\ status[b] # "none" /\ Left(b) = 8
    BY <2>1, CourseCommanded DEF Courses
  <2>4. Remains(script[b], NotStarted)'
    BY <2>1, RemainsWhole, FailingIs
  <2>5. GivesUp(b)'
    BY <2>2, <2>3, <2>4 DEF GivesUp, Commands
  <2>6. Course(b)'
    BY <2>2, <2>3, <2>5 DEF Course
  <2>7. ASSUME NEW c \in Builds, c # b
        PROVE  Course(c)'
    <3>1. Still(c)
      BY <2>1, <2>2, <2>7 DEF Still
    <3> QED
      BY ONLY <3>1, c \in Builds, Courses, CourseKept DEF Courses
  <2> QED
    BY <2>6, <2>7 DEF Courses
<1>5. ASSUME NEW b \in Builds, Start(b)
      PROVE  Courses'
  <2>1. /\ script[b] \in Seq(Ops) /\ script[b] # <<>> /\ Head(script[b]) = "start"
        /\ script'[b] = Tail(script[b]) /\ \A c \in Builds \ {b} : script'[c] = script[c]
    BY <1>5, ScriptAt DEF Start, Calls, Advance
  <2>2. /\ pc[Main(b)] = "ready" /\ status' = status /\ pc'[Main(b)] = "ready"
        /\ pc'[Out(b)] = "ready" /\ pc'[Err(b)] = "ready"
        /\ \A c \in Builds \ {b} :
             /\ pc'[Main(c)] = pc[Main(c)] /\ pc'[Out(c)] = pc[Out(c)] /\ pc'[Err(c)] = pc[Err(c)]
             /\ command'[c] = command[c]
    BY <1>5 DEF Start, Calls
  <2>3. /\ Commands(b) /\ status[b] # "none" /\ Left(b) = 8
        /\ Left(b)' = Left(b) - 1 /\ Remains(script[b], Commanded)'
    BY <2>1, CourseCommanded DEF Courses
  <2>4. Commands(b)'
    BY <2>2, <2>3 DEF Commands, Over
  <2>5. Course(b)'
    BY <2>2, <2>3, <2>4 DEF Course
  <2>6. ASSUME NEW c \in Builds, c # b
        PROVE  Course(c)'
    <3>1. Still(c)
      BY ONLY <2>1, <2>2, <2>6, c \in Builds DEF Still
    <3> QED
      BY ONLY <3>1, c \in Builds, Courses, CourseKept DEF Courses
  <2> QED
    BY <2>5, <2>6 DEF Courses
<1>6. ASSUME NEW b \in Builds, Wait(b)
      PROVE  Courses'
  <2>1. /\ script[b] \in Seq(Ops) /\ script[b] # <<>> /\ Head(script[b]) = "wait"
        /\ \/ script'[b] = Tail(script[b])
           \/ script'[b] = CommandFailed /\ command[b] = "error"
        /\ \A c \in Builds \ {b} : script'[c] = script[c]
    BY <1>6, ScriptAt DEF Wait, Calls
  <2>2. pc[Main(b)] = "ready" /\ pc' = pc /\ status' = status /\ command' = command
    BY <1>6 DEF Wait, Calls
  <2>3. /\ Commands(b) /\ status[b] # "none" /\ Left(b) = 7
        /\ script'[b] = Tail(script[b]) => Left(b)' = Left(b) - 1 /\ Remains(script[b], Commanded)'
    BY <2>1, CourseCommanded DEF Courses
  <2>4. ASSUME script'[b] = Tail(script[b])
        PROVE  Course(b)'
    <3>1. Left(b)' = 6 /\ Remains(script[b], Commanded)'
      BY <2>3, <2>4
    <3>2. Commands(b)'
      BY <2>2, <2>3, <3>1 DEF Commands, Over
    <3> QED
      BY ONLY <2>2, <2>3, <3>1, <3>2 DEF Course
  <2>5. ASSUME script'[b] = CommandFailed /\ command[b] = "error"
        PROVE  Course(b)'
    <3>1. Remains(script[b], CommandFailed)'
      BY <2>5, RemainsWhole, FailingIs
    <3>2. Fails(b)'
      BY <2>2, <2>3, <2>5, <3>1 DEF Fails, Commands
    <3> QED
      BY ONLY <2>2, <2>3, <3>2 DEF Course
  <2>6. ASSUME NEW c \in Builds, c # b
        PROVE  Course(c)'
    <3>1. Still(c)
      BY <2>1, <2>2, <2>6 DEF Still
    <3> QED
      BY ONLY <3>1, c \in Builds, Courses, CourseKept DEF Courses
  <2> QED
    BY <2>1, <2>4, <2>5, <2>6 DEF Courses
<1>7. ASSUME NEW b \in Builds, Drain(b)
      PROVE  Courses'
  <2>1. /\ script[b] \in Seq(Ops) /\ script[b] # <<>> /\ Head(script[b]) = "drain"
        /\ script'[b] = Tail(script[b]) /\ \A c \in Builds \ {b} : script'[c] = script[c]
    BY <1>7, ScriptAt DEF Drain, Calls, Advance
  <2>2. PICK p \in {Out(b), Err(b)} : pc[p] = "ready" /\ pc' = [pc EXCEPT ![p] = "done"]
    BY <1>7 DEF Drain
  <2>3. /\ pc[Main(b)] = "ready" /\ status' = status /\ command' = command
        /\ pc'[Main(b)] = "ready" /\ pc'[p] = "done"
        /\ \A o \in {Out(b), Err(b)} \ {p} : pc'[o] = pc[o]
        /\ \A c \in Builds \ {b} :
             pc'[Main(c)] = pc[Main(c)] /\ pc'[Out(c)] = pc[Out(c)] /\ pc'[Err(c)] = pc[Err(c)]
    <3>1. pc[Main(b)] = "ready" /\ UNCHANGED <<status, command>> /\ p \in Goroutines
          /\ \A c \in Builds : {Main(c), Out(c), Err(c)} \subseteq Goroutines
      BY <1>7, <2>2, Names DEF Drain, Calls
    <3>2. Main(b) # p /\ \A c \in Builds \ {b} : p \notin {Main(c), Out(c), Err(c)}
      BY ONLY p \in {Out(b), Err(b)} DEF Main, Out, Err
    <3>3. \A g \in Goroutines : pc'[g] = IF g = p THEN "done" ELSE pc[g]
      BY <2>2
    <3> QED
      BY ONLY <3>1, <3>2, <3>3
  <2>4. /\ Commands(b) /\ status[b] # "none" /\ Left(b) \in {5, 6}
        /\ Left(b)' = Left(b) - 1 /\ Remains(script[b], Commanded)'
    BY <2>1, CourseCommanded DEF Courses
  <2>5. Commands(b)'
    BY <2>2, <2>3, <2>4 DEF Commands, Over
  <2>6. Course(b)'
    BY ONLY <2>3, <2>4, <2>5 DEF Course
  <2>7. ASSUME NEW c \in Builds, c # b
        PROVE  Course(c)'
    <3>1. Still(c)
      BY ONLY <2>1, <2>3, <2>7, c \in Builds DEF Still
    <3> QED
      BY ONLY <3>1, c \in Builds, Courses, CourseKept DEF Courses
  <2> QED
    BY <2>6, <2>7 DEF Courses
<1>8. ASSUME NEW b \in Builds, Close(b)
      PROVE  Courses'
  <2>1. /\ script[b] \in Seq(Ops) /\ script[b] # <<>> /\ script'[b] = Tail(script[b])
        /\ \A c \in Builds \ {b} : script'[c] = script[c]
    BY <1>8, ScriptAt DEF Close, Calls, Advance
  <2>2. /\ Head(script[b]) \notin {"start", "wait", "drain"} /\ command'[b] = command[b]
        /\ pc[Main(b)] = "ready" /\ pc'[Main(b)] \in {"ready", "closing", "lookup"}
        /\ Head(script[b]) # "log" => pc'[Main(b)] \in {"ready", "closing"}
        /\ pc'[Main(b)] = "closing" => Head(script[b]) = "close"
        /\ \A p \in {Out(b), Err(b)} : pc'[p] = pc[p]
        /\ \/ status'[b] = status[b] /\ Head(script[b]) # "succeeded"
           \/ status'[b] = Head(script[b]) /\ status'[b] # "none"
    BY <1>8 DEF Close, Calls
  <2>3. Course(b)'
    BY <2>1, <2>2, CourseCalled DEF Courses
  <2>4. ASSUME NEW c \in Builds, c # b
        PROVE  Course(c)'
    <3>1. /\ pc'[Main(c)] = pc[Main(c)] /\ pc'[Out(c)] = pc[Out(c)] /\ pc'[Err(c)] = pc[Err(c)]
          /\ status'[c] = status[c] /\ command'[c] = command[c]
      BY <1>8, <2>4 DEF Close
    <3> QED
      BY <2>1, <2>4, <3>1, CourseKept DEF Still, Courses
  <2> QED
    BY <2>3, <2>4 DEF Courses
<1>9. ASSUME NEW b \in Builds, Forget(b)
      PROVE  Courses'
  <2>1. \A c \in Builds : Still(c)
    BY <1>9 DEF Still, Forget
  <2> QED
    BY ONLY <2>1, Courses, CourseKept DEF Courses
<1>10. ASSUME NEW b \in Builds, Notify(b)
       PROVE  Courses'
  <2>1. /\ script[b] \in Seq(Ops) /\ script[b] # <<>> /\ script'[b] = Tail(script[b])
        /\ \A c \in Builds \ {b} : script'[c] = script[c]
    BY <1>10, ScriptAt DEF Notify, Calls, Advance
  <2>2. /\ Head(script[b]) \notin {"start", "wait", "drain"} /\ command'[b] = command[b]
        /\ pc[Main(b)] = "ready" /\ pc'[Main(b)] \in {"ready", "closing", "lookup"}
        /\ Head(script[b]) # "log" => pc'[Main(b)] \in {"ready", "closing"}
        /\ pc'[Main(b)] = "closing" => Head(script[b]) = "close"
        /\ \A p \in {Out(b), Err(b)} : pc'[p] = pc[p]
        /\ \/ status'[b] = status[b] /\ Head(script[b]) # "succeeded"
           \/ status'[b] = Head(script[b]) /\ status'[b] # "none"
    BY <1>10 DEF Notify, Calls
  <2>3. Course(b)'
    BY <2>1, <2>2, CourseCalled DEF Courses
  <2>4. ASSUME NEW c \in Builds, c # b
        PROVE  Course(c)'
    <3>1. /\ pc'[Main(c)] = pc[Main(c)] /\ pc'[Out(c)] = pc[Out(c)] /\ pc'[Err(c)] = pc[Err(c)]
          /\ status'[c] = status[c] /\ command'[c] = command[c]
      BY <1>10, <2>4 DEF Notify
    <3> QED
      BY <2>1, <2>4, <3>1, CourseKept DEF Still, Courses
  <2> QED
    BY <2>3, <2>4 DEF Courses
<1>11. ASSUME NEW b \in Builds, Exit(b)
       PROVE  Courses'
  <2>1. \A c \in Builds : Still(c)
    BY <1>11 DEF Still, Exit
  <2> QED
    BY ONLY <2>1, Courses, CourseKept DEF Courses
<1>12. ASSUME NEW p \in Pipes, Scan(p)
       PROVE  Courses'
  <2>1. \A c \in Builds : Still(c)
    BY <1>12 DEF Still, Scan
  <2> QED
    BY ONLY <2>1, Courses, CourseKept DEF Courses
<1>13. ASSUME NEW p \in Pipes, ScanFails(p)
       PROVE  Courses'
  <2>1. \A c \in Builds : Still(c)
    BY <1>13 DEF Still, ScanFails
  <2> QED
    BY ONLY <2>1, Courses, CourseKept DEF Courses
<1>14. ASSUME NEW p \in Pipes, AppendScanned(p)
       PROVE  Courses'
  <2>1. \A c \in Builds : Still(c)
    BY <1>14 DEF Still, AppendScanned, Appended
  <2> QED
    BY ONLY <2>1, Courses, CourseKept DEF Courses
<1>15. ASSUME NEW g \in Goroutines, Lookup(g)
       PROVE  Courses'
  <2>1. \A c \in Builds : Still(c)
    BY <1>15 DEF Still, Lookup
  <2> QED
    BY ONLY <2>1, Courses, CourseKept DEF Courses
<1>16. ASSUME NEW g \in Goroutines, RangeLoop(g)
       PROVE  Courses'
  <2>1. \A c \in Builds : Still(c)
    BY <1>16 DEF Still, RangeLoop, Reaches
  <2> QED
    BY ONLY <2>1, Courses, CourseKept DEF Courses
<1>17. ASSUME NEW why \in {"closedChannel", "tornSlice"}, Die(why)
       PROVE  Courses'
  <2>1. <<>> = <<>> /\ \A c \in Builds : Absent(c)'
    BY <1>17 DEF Die, Absent
  <2> QED
    BY <1>17, <2>1 DEF Die, Courses, Course
<1>18. ASSUME NEW g \in Goroutines, NEW s \in Readers, Deliver(g, s)
       PROVE  Courses'
  <2>1. /\ pc[g] = "send" /\ script' = script /\ status' = status /\ command' = command
        /\ \E l \in {"ready", "send"} : pc' = [pc EXCEPT ![g] = l]
    <3>1. \/ pc' = [pc EXCEPT ![g] = "ready"]
          \/ pc' = [pc EXCEPT ![g] = "send"]
      BY <1>18 DEF Deliver, Reaches
    <3> QED
      BY <1>18, <3>1 DEF Deliver
  <2>2. \A c \in Builds : Still(c)
    BY <2>1 DEF Still
  <2> QED
    BY ONLY <2>2, Courses, CourseKept DEF Courses
<1>19. ASSUME NEW s \in Readers, Register(s)
       PROVE  Courses'
  <2>1. \A c \in Builds : Still(c)
    BY <1>19 DEF Still, Register
  <2> QED
    BY ONLY <2>1, Courses, CourseKept DEF Courses
<1>20. ASSUME NEW s \in Readers, Replay(s)
       PROVE  Courses'
  <2>1. \A c \in Builds : Still(c)
    BY <1>20 DEF Still, Replay
  <2> QED
    BY ONLY <2>1, Courses, CourseKept DEF Courses
<1>21. ASSUME NEW s \in Readers, Subscribed(s)
       PROVE  Courses'
  <2>1. \A c \in Builds : Still(c)
    BY <1>21 DEF Still, Subscribed
  <2> QED
    BY ONLY <2>1, Courses, CourseKept DEF Courses
<1>22. ASSUME NEW s \in Readers, Receive(s)
       PROVE  Courses'
  <2>1. \A c \in Builds : Still(c)
    BY <1>22 DEF Still, Receive
  <2> QED
    BY ONLY <2>1, Courses, CourseKept DEF Courses
<1>23. ASSUME NEW s \in Readers, Leave(s)
       PROVE  Courses'
  <2>1. \A c \in Builds : Still(c)
    BY <1>23 DEF Still, Leave
  <2> QED
    BY ONLY <2>1, Courses, CourseKept DEF Courses
<1>24. ASSUME NEW s \in Readers, NEW b \in Builds, Subscribe(s, b)
       PROVE  Courses'
  <2>1. \A c \in Builds : Still(c)
    BY <1>24 DEF Still, Subscribe
  <2> QED
    BY ONLY <2>1, Courses, CourseKept DEF Courses
<1> QED
  BY <1>1, <1>2, <1>3, <1>4, <1>5, <1>6, <1>7, <1>8, <1>9, <1>10, <1>11, <1>12, <1>13, <1>14,
     <1>15, <1>16, <1>17, <1>18, <1>19, <1>20, <1>21, <1>22, <1>23, <1>24
     DEF BuilderNext, RunBuild, StreamPipe, Broadcast, StreamLogs, StreamClosed, RangeTorn,
         DeliverToClosed


(* What the course of a build says about where its goroutines are.         *)
LEMMA CourseSays ==
  ASSUME NEW b \in Builds, Course(b), script[b] \in Seq(Ops)
  PROVE  /\ status[b] = "succeeded" => Over(Out(b)) /\ Over(Err(b))
         /\ pc[Main(b)] = "closing" => (Over(Out(b)) /\ Over(Err(b))) \/ command[b] = "error"
         /\ script[b] # <<>> /\ Head(script[b]) = "close" =>
              /\ Left(b) \in {1, 2}
              /\ (Over(Out(b)) /\ Over(Err(b))) \/ command[b] = "error"
         /\ script[b] # <<>> /\ Head(script[b]) = "start" =>
              Left(b) = 8 /\ pc[Out(b)] = "none" /\ pc[Err(b)] = "none"
         /\ script[b] # <<>> /\ Left(b) <= 1 =>
              Head(script[b]) \notin {"start", "wait", "drain", "succeeded"}
<1>1. Left(b) \in Nat /\ (script[b] # <<>> => Left(b) \in Nat \ {0})
  BY DEF Left
<1>2. CASE Absent(b)
  BY <1>1, <1>2 DEF Absent
<1>3. CASE Simulates(b)
  <2>1. pc[Out(b)] = "none" /\ pc[Err(b)] = "none"
    BY <1>3 DEF Simulates
  <2>2. script[b] # <<>> =>
          /\ Head(script[b]) \notin {"start", "wait", "drain"}
          /\ Head(script[b]) = "close" <=> Left(b) = 2
          /\ Head(script[b]) = "notify" <=> Left(b) = 1
    BY <1>3, SimulatedNext DEF Simulates, Left
  <2> QED
    BY ONLY <1>1, <2>1, <2>2 DEF Over
<1>4. CASE Commands(b)
  <2>1. script[b] # <<>> =>
          /\ Head(script[b]) = "start" <=> Left(b) = 8
          /\ Head(script[b]) = "wait" <=> Left(b) = 7
          /\ Head(script[b]) = "drain" <=> Left(b) \in {5, 6}
          /\ Head(script[b]) = "succeeded" <=> Left(b) = 4
          /\ Head(script[b]) = "close" <=> Left(b) = 2
    BY <1>4, CommandedNext DEF Commands, Left
  <2>2. pc[Main(b)] = "closing" => Left(b) <= 1
    BY DEF Course
  <2> QED
    BY ONLY <1>1, <1>4, <2>1, <2>2 DEF Commands, Over
<1>5. CASE GivesUp(b)
  <2>1. pc[Out(b)] = "none" /\ pc[Err(b)] = "none"
    BY <1>5 DEF GivesUp
  <2>2. script[b] # <<>> => /\ Left(b) \in 1..3
                            /\ Head(script[b]) = "log" <=> Left(b) = 3
                            /\ Head(script[b]) = "failed" <=> Left(b) = 2
                            /\ Head(script[b]) = "close" <=> Left(b) = 1
    BY <1>5, FailingNext DEF GivesUp, Left
  <2> QED
    BY ONLY <1>1, <2>1, <2>2 DEF Over
<1>6. CASE Fails(b)
  <2>1. command[b] = "error" /\ status[b] # "succeeded"
    BY <1>6 DEF Fails
  <2>2. script[b] # <<>> => /\ Left(b) \in 1..4
                            /\ Head(script[b]) = "log" <=> Left(b) = 4
                            /\ Head(script[b]) = "failed" <=> Left(b) = 3
                            /\ Head(script[b]) = "close" <=> Left(b) \in {1, 2}
    BY <1>6, FailingNext DEF Fails, Left
  <2> QED
    BY ONLY <1>1, <2>1, <2>2
<1> QED
  BY <1>2, <1>3, <1>4, <1>5, <1>6 DEF Course

-----------------------------------------------------------------------------
(* The readers.                                                            *)

(* A build that exists goes on, and what is still to be sent was sent by a *)
(* goroutine whose command fails no less for it.                           *)
Onward ==
  /\ \A b \in Builds : status[b] # "none" =>
       status'[b] # "none" /\ (Left(b) <= 1 => Left(b)' <= 1)
  /\ \A g \in Goroutines : pc[g] = "send" /\ command[Build(g)] = "error" =>
       command'[Build(g)] = "error"

(* A step that advances the script of one build, or leaves them alone.     *)
LEMMA OnwardOf ==
  ASSUME ScriptsTyped, NEW b \in Builds, script[b] # <<>>,
         script' = [script EXCEPT ![b] = Tail(script[b])]
  PROVE  /\ Left(b) \in Nat \ {0} /\ Left(b)' = Left(b) - 1
         /\ \A c \in Builds \ {b} : Left(c)' = Left(c)
<1>1. /\ script[b] \in Seq(Ops) /\ script'[b] = Tail(script[b])
      /\ \A c \in Builds \ {b} : script'[c] = script[c]
  BY ScriptAt
<1>2. Len(script[b]) \in Nat \ {0} /\ Len(Tail(script[b])) = Len(script[b]) - 1
  <2>1. Len(script[b]) \in Nat \ {0}
    BY <1>1
  <2> QED
    BY <1>1, <2>1, HeadTailProperties
<1>3. PICK rest : rest = Tail(script[b])
  OBVIOUS
<1>4. Len(rest) = Len(script[b]) - 1 /\ script'[b] = rest
  BY ONLY <1>1, <1>2, <1>3
<1>5. Left(b) \in Nat \ {0} /\ Left(b)' = Left(b) - 1
  BY ONLY <1>2, <1>4 DEF Left
<1> QED
  BY ONLY <1>1, <1>5 DEF Left

(* While the process lives.                                               *)
LEMMA OnwardStep ==
  ASSUME FieldsTyped, ScriptsTyped, Courses, BuilderNext
  PROVE  Onward \/ \E why \in {"closedChannel", "tornSlice"} : Die(why)
<1> USE Names DEF FieldsTyped, Goto, storeVars, commandVars, buildVars, readerVars
<1>1. ASSUME NEW b \in Builds, Create(b)
      PROVE  Onward
  <2>1. /\ status[b] = "none" /\ \A c \in Builds \ {b} : script'[c] = script[c]
        /\ \A c \in Builds : status[c] # "none" => status'[c] = status[c]
    BY <1>1, ScriptAt DEF Create
  <2> QED
    BY <1>1, <2>1 DEF Create, Onward, Left
<1>2. ASSUME NEW b \in Builds, AppendOwn(b)
      PROVE  Onward
  <2>1. script[b] # <<>> /\ script' = [script EXCEPT ![b] = Tail(script[b])]
    BY <1>2 DEF AppendOwn, Calls, Advance
  <2>2. /\ Left(b) \in Nat \ {0} /\ Left(b)' = Left(b) - 1
        /\ \A c \in Builds \ {b} : Left(c)' = Left(c)
    BY ONLY <2>1, ScriptsTyped, OnwardOf, b \in Builds
  <2>3. \A c \in Builds : status[c] # "none" => status'[c] # "none"
    BY <1>2 DEF AppendOwn, Appended
  <2>4. command' = command
    BY <1>2 DEF AppendOwn
  <2> QED
    BY ONLY <2>2, <2>3, <2>4 DEF Onward
<1>3. ASSUME NEW b \in Builds, UpdateStatus(b)
      PROVE  Onward
  <2>1. script[b] # <<>> /\ script' = [script EXCEPT ![b] = Tail(script[b])]
    BY <1>3 DEF UpdateStatus, Calls, Advance
  <2>2. /\ Left(b) \in Nat \ {0} /\ Left(b)' = Left(b) - 1
        /\ \A c \in Builds \ {b} : Left(c)' = Left(c)
    BY ONLY <2>1, ScriptsTyped, OnwardOf, b \in Builds
  <2>3. \A c \in Builds : status[c] # "none" => status'[c] # "none"
    BY <1>3 DEF UpdateStatus
  <2>4. command' = command
    BY <1>3 DEF UpdateStatus
  <2> QED
    BY ONLY <2>2, <2>3, <2>4 DEF Onward
<1>4. ASSUME NEW b \in Builds, StartFails(b)
      PROVE  Onward
  <2>1. /\ script[b] # <<>> /\ Head(script[b]) = "start"
        /\ \A c \in Builds \ {b} : script'[c] = script[c]
    BY <1>4, ScriptAt DEF StartFails, Calls
  <2>2. Left(b) = 8
    BY <2>1, CourseSays, ScriptAt DEF Courses
  <2>3. status' = status /\ command' = command
    BY <1>4 DEF StartFails
  <2>4. \A c \in Builds \ {b} : Left(c)' = Left(c)
    BY <2>1 DEF Left
  <2> QED
    BY ONLY <2>2, <2>3, <2>4 DEF Onward
<1>5. ASSUME NEW b \in Builds, Start(b)
      PROVE  Onward
  <2>1. /\ script[b] # <<>> /\ Head(script[b]) = "start"
        /\ script' = [script EXCEPT ![b] = Tail(script[b])]
    BY <1>5 DEF Start, Calls, Advance
  <2>2. /\ Left(b) \in Nat \ {0} /\ Left(b)' = Left(b) - 1
        /\ \A c \in Builds \ {b} : Left(c)' = Left(c)
    BY ONLY <2>1, ScriptsTyped, OnwardOf, b \in Builds
  <2>3. pc[Out(b)] = "none" /\ pc[Err(b)] = "none" /\ pc[Main(b)] = "ready"
    BY <1>5, <2>1, CourseSays, ScriptAt DEF Start, Calls, Courses
  <2>4. status' = status /\ \A c \in Builds \ {b} : command'[c] = command[c]
    BY <1>5 DEF Start
  <2>5. \A g \in Goroutines : pc[g] = "send" => Build(g) # b
    <3>1. \A g \in Goroutines : g = Main(Build(g)) \/ g = Out(Build(g)) \/ g = Err(Build(g))
      BY DEF Goroutines
    <3> QED
      BY <2>3, <3>1
  <2> QED
    BY <2>2, <2>4, <2>5 DEF Onward
<1>6. ASSUME NEW b \in Builds, Wait(b)
      PROVE  Onward
  <2>1. /\ script[b] # <<>> /\ Head(script[b]) = "wait"
        /\ \A c \in Builds \ {b} : script'[c] = script[c]
    BY <1>6, ScriptAt DEF Wait, Calls
  <2>2. Left(b) = 7
    BY <2>1, CourseCommanded, ScriptAt DEF Courses
  <2>3. status' = status /\ command' = command
    BY <1>6 DEF Wait
  <2>4. \A c \in Builds \ {b} : Left(c)' = Left(c)
    BY <2>1 DEF Left
  <2> QED
    BY ONLY <2>2, <2>3, <2>4 DEF Onward
<1>7. ASSUME NEW b \in Builds, Drain(b)
      PROVE  Onward
  <2>1. script[b] # <<>> /\ script' = [script EXCEPT ![b] = Tail(script[b])]
    BY <1>7 DEF Drain, Calls, Advance
  <2>2. /\ Left(b) \in Nat \ {0} /\ Left(b)' = Left(b) - 1
        /\ \A c \in Builds \ {b} : Left(c)' = Left(c)
    BY ONLY <2>1, ScriptsTyped, OnwardOf, b \in Builds
  <2>3. \A c \in Builds : status[c] # "none" => status'[c] # "none"
    BY <1>7 DEF Drain
  <2>4. command' = command
    BY <1>7 DEF Drain
  <2> QED
    BY ONLY <2>2, <2>3, <2>4 DEF Onward
<1>8. ASSUME NEW b \in Builds, Close(b)
      PROVE  Onward
  <2>1. script[b] # <<>> /\ script' = [script EXCEPT ![b] = Tail(script[b])]
    BY <1>8 DEF Close, Calls, Advance
  <2>2. /\ Left(b) \in Nat \ {0} /\ Left(b)' = Left(b) - 1
        /\ \A c \in Builds \ {b} : Left(c)' = Left(c)
    BY ONLY <2>1, ScriptsTyped, OnwardOf, b \in Builds
  <2>3. \A c \in Builds : status[c] # "none" => status'[c] # "none"
    BY <1>8 DEF Close
  <2>4. command' = command
    BY <1>8 DEF Close
  <2> QED
    BY ONLY <2>2, <2>3, <2>4 DEF Onward
<1>9. ASSUME NEW b \in Builds, Forget(b)
      PROVE  Onward
  BY <1>9 DEF Forget, Onward, Left
<1>10. ASSUME NEW b \in Builds, Notify(b)
       PROVE  Onward
  <2>1. script[b] # <<>> /\ script' = [script EXCEPT ![b] = Tail(script[b])]
    BY <1>10 DEF Notify, Calls, Advance
  <2>2. /\ Left(b) \in Nat \ {0} /\ Left(b)' = Left(b) - 1
        /\ \A c \in Builds \ {b} : Left(c)' = Left(c)
    BY ONLY <2>1, ScriptsTyped, OnwardOf, b \in Builds
  <2>3. \A c \in Builds : status[c] # "none" => status'[c] # "none"
    BY <1>10 DEF Notify
  <2>4. command' = command
    BY <1>10 DEF Notify
  <2> QED
    BY ONLY <2>2, <2>3, <2>4 DEF Onward
<1>11. ASSUME NEW b \in Builds, Exit(b)
       PROVE  Onward
  BY <1>11 DEF Exit, Onward, Left
<1>12. ASSUME NEW p \in Pipes, Scan(p)
       PROVE  Onward
  BY <1>12 DEF Scan, Onward, Left
<1>13. ASSUME NEW p \in Pipes, ScanFails(p)
       PROVE  Onward
  BY <1>13 DEF ScanFails, Onward, Left
<1>14. ASSUME NEW p \in Pipes, AppendScanned(p)
       PROVE  Onward
  BY <1>14 DEF AppendScanned, Onward, Left, Appended
<1>15. ASSUME NEW g \in Goroutines, Lookup(g)
       PROVE  Onward
  BY <1>15 DEF Lookup, Onward, Left
<1>16. ASSUME NEW g \in Goroutines, RangeLoop(g)
       PROVE  Onward
  BY <1>16 DEF RangeLoop, Onward, Left, Reaches
<1>17. ASSUME NEW why \in {"closedChannel", "tornSlice"}, Die(why)
       PROVE  \E w \in {"closedChannel", "tornSlice"} : Die(w)
  BY <1>17
<1>18. ASSUME NEW g \in Goroutines, NEW s \in Readers, Deliver(g, s)
       PROVE  Onward
  BY <1>18 DEF Deliver, Onward, Left, Reaches
<1>19. ASSUME NEW s \in Readers, Register(s)
       PROVE  Onward
  BY <1>19 DEF Register, Onward, Left
<1>20. ASSUME NEW s \in Readers, Replay(s)
       PROVE  Onward
  BY <1>20 DEF Replay, Onward, Left
<1>21. ASSUME NEW s \in Readers, Subscribed(s)
       PROVE  Onward
  BY <1>21 DEF Subscribed, Onward, Left
<1>22. ASSUME NEW s \in Readers, Receive(s)
       PROVE  Onward
  BY <1>22 DEF Receive, Onward, Left
<1>23. ASSUME NEW s \in Readers, Leave(s)
       PROVE  Onward
  BY <1>23 DEF Leave, Onward, Left
<1>24. ASSUME NEW s \in Readers, NEW b \in Builds, Subscribe(s, b)
       PROVE  Onward
  BY <1>24 DEF Subscribe, Onward, Left
<1> QED
  BY <1>1, <1>2, <1>3, <1>4, <1>5, <1>6, <1>7, <1>8, <1>9, <1>10, <1>11, <1>12, <1>13, <1>14,
     <1>15, <1>16, <1>17, <1>18, <1>19, <1>20, <1>21, <1>22, <1>23, <1>24
     DEF BuilderNext, RunBuild, StreamPipe, Broadcast, StreamLogs, StreamClosed, RangeTorn,
         DeliverToClosed


(* A step that moves no reader and no channel leaves the readers as they   *)
(* are.                                                                    *)
LEMMA StreamsKept ==
  ASSUME FieldsTyped, Streams, Onward,
         UNCHANGED <<place, of, replayed, subscribers, todo, closed>>,
         \A g \in Goroutines : pc[g] = "send" => pc'[g] = "send"
  PROVE  Streams'
<1> SUFFICES ASSUME NEW s \in Readers
             PROVE  Reader(s)'
  BY DEF Streams
<1>1. Reader(s)
  BY DEF Streams
<1>2. \A g \in Goroutines : Build(g) \in Builds
  BY Names
<1> QED
  BY <1>1, <1>2 DEF Reader, Onward

(* What is known of the readers stays true.                                *)
LEMMA StreamsStep ==
  ASSUME FieldsTyped, ScriptsTyped, Locked, Courses, Streams, ClosedOnce, Onward, BuilderNext
  PROVE  Streams'
<1> USE Names, BuilderConstants DEF FieldsTyped, Goto, storeVars, commandVars, buildVars, readerVars
<1>1. ASSUME NEW b \in Builds, Create(b)
      PROVE  Streams'
  <2>1. UNCHANGED <<place, of, replayed, subscribers, todo, closed>>
    BY <1>1 DEF Create
  <2>2. pc[Main(b)] = "none"
    BY <1>1 DEF Create, Courses, Course, Absent
  <2>3. \A h \in Goroutines : pc[h] = "send" => pc'[h] = "send"
    BY <1>1, <2>2 DEF Create
  <2> QED
    BY <2>1, <2>3, StreamsKept
<1>2. ASSUME NEW b \in Builds, AppendOwn(b)
      PROVE  Streams'
  <2>1. UNCHANGED <<place, of, replayed, subscribers, todo, closed>>
    BY <1>2 DEF AppendOwn, Appended, Calls
  <2>2. \A h \in Goroutines : pc[h] = "send" => pc'[h] = "send"
    BY <1>2 DEF AppendOwn, Appended, Calls
  <2> QED
    BY <2>1, <2>2, StreamsKept
<1>3. ASSUME NEW b \in Builds, UpdateStatus(b)
      PROVE  Streams'
  <2>1. UNCHANGED <<place, of, replayed, subscribers, todo, closed>>
    BY <1>3 DEF UpdateStatus, Calls
  <2>2. \A h \in Goroutines : pc[h] = "send" => pc'[h] = "send"
    BY <1>3 DEF UpdateStatus, Calls
  <2> QED
    BY <2>1, <2>2, StreamsKept
<1>4. ASSUME NEW b \in Builds, StartFails(b)
      PROVE  Streams'
  <2>1. UNCHANGED <<place, of, replayed, subscribers, todo, closed>>
    BY <1>4 DEF StartFails, Calls
  <2>2. \A h \in Goroutines : pc[h] = "send" => pc'[h] = "send"
    BY <1>4 DEF StartFails, Calls
  <2> QED
    BY <2>1, <2>2, StreamsKept
<1>5. ASSUME NEW b \in Builds, Start(b)
      PROVE  Streams'
  <2>1. UNCHANGED <<place, of, replayed, subscribers, todo, closed>>
    BY <1>5 DEF Start
  <2>2. script[b] # <<>> /\ Head(script[b]) = "start"
    BY <1>5 DEF Start, Calls
  <2>3. pc[Out(b)] = "none" /\ pc[Err(b)] = "none"
    BY <2>2, CourseSays, ScriptAt DEF Courses
  <2>4. \A p \in Pipes : Build(p) = b => pc[p] = "none"
    BY <2>3
  <2>5. \A h \in Goroutines : pc[h] = "send" => pc'[h] = "send"
    BY <1>5, <2>4 DEF Start
  <2> QED
    BY <2>1, <2>5, StreamsKept
<1>6. ASSUME NEW b \in Builds, Wait(b)
      PROVE  Streams'
  <2>1. UNCHANGED <<place, of, replayed, subscribers, todo, closed>>
    BY <1>6 DEF Wait, Calls
  <2>2. \A h \in Goroutines : pc[h] = "send" => pc'[h] = "send"
    BY <1>6 DEF Wait, Calls
  <2> QED
    BY <2>1, <2>2, StreamsKept
<1>7. ASSUME NEW b \in Builds, Drain(b)
      PROVE  Streams'
  <2>1. UNCHANGED <<place, of, replayed, subscribers, todo, closed>>
    BY <1>7 DEF Drain, Calls
  <2>2. \A h \in Goroutines : pc[h] = "send" => pc'[h] = "send"
    BY <1>7 DEF Drain, Calls
  <2> QED
    BY <2>1, <2>2, StreamsKept
<1>8. ASSUME NEW b \in Builds, Close(b)
      PROVE  Streams'
  <2> SUFFICES ASSUME NEW r \in Readers
               PROVE  Reader(r)'
    BY DEF Streams
  <2>1. Reader(r)
    BY DEF Streams
  <2>2. /\ UNCHANGED <<place, of, replayed, todo, subscribers, status, command>>
        /\ closed' = closed \cup subscribers[b] /\ lock = Free
        /\ pc[Main(b)] = "ready" /\ script[b] # <<>> /\ Head(script[b]) = "close"
        /\ \A h \in Goroutines : pc[h] = "send" => pc'[h] = "send"
    BY <1>8 DEF Close, Calls
  <2>3. /\ Left(b) \in {1, 2}
        /\ (Over(Out(b)) /\ Over(Err(b))) \/ command[b] = "error"
    BY <2>2, CourseSays, ScriptAt DEF Courses
  <2>4. Left(b)' = Left(b) - 1
    <3>1. script' = [script EXCEPT ![b] = Tail(script[b])]
      BY <1>8 DEF Close, Advance
    <3> QED
      BY <2>2, <3>1, OnwardOf
  <2>5. place[r] \notin {"locked", "replay"}
    BY <2>2 DEF Locked
  <2>6. r \in subscribers[b] =>
          /\ place[r] \in {"streaming", "done"}
          /\ place[r] = "streaming" => of[r] = b
          /\ \A g \in Goroutines : r \in todo[g] => command[Build(g)] = "error"
    <3> SUFFICES ASSUME r \in subscribers[b]
                 PROVE  /\ place[r] \in {"streaming", "done"}
                        /\ place[r] = "streaming" => of[r] = b
                        /\ \A g \in Goroutines : r \in todo[g] => command[Build(g)] = "error"
      OBVIOUS
    <3>1. place[r] \in {"streaming", "done"} /\ (place[r] = "streaming" => of[r] = b)
      BY <2>1, <2>5 DEF Reader
    <3>2. ASSUME NEW g \in Goroutines, r \in todo[g]
          PROVE  command[Build(g)] = "error"
      <4>1. pc[g] = "send" /\ Build(g) = b
        BY <2>1, <3>2 DEF Reader
      <4>2. g = Out(b) \/ g = Err(b)
        BY <2>2, <4>1 DEF Goroutines
      <4> QED
        BY <2>3, <4>1, <4>2 DEF Over
    <3> QED
      BY <3>1, <3>2
  <2> QED
    BY ONLY <2>1, <2>2, <2>3, <2>4, <2>6, b \in Builds, r \in Readers, Onward DEF Reader, Onward
<1>9. ASSUME NEW b \in Builds, Forget(b)
      PROVE  Streams'
  <2> SUFFICES ASSUME NEW r \in Readers
               PROVE  Reader(r)'
    BY DEF Streams
  <2>1. Reader(r)
    BY DEF Streams
  <2>2. /\ UNCHANGED <<place, of, replayed, todo, closed>>
        /\ subscribers' = [subscribers EXCEPT ![b] = {}]
        /\ \A h \in Goroutines : pc[h] = "send" => pc'[h] = "send"
    BY <1>9 DEF Forget
  <2> QED
    BY <2>1, <2>2 DEF Reader, Onward
<1>10. ASSUME NEW b \in Builds, Notify(b)
       PROVE  Streams'
  <2>1. UNCHANGED <<place, of, replayed, subscribers, todo, closed>>
    BY <1>10 DEF Notify, Calls
  <2>2. \A h \in Goroutines : pc[h] = "send" => pc'[h] = "send"
    BY <1>10 DEF Notify, Calls
  <2> QED
    BY <2>1, <2>2, StreamsKept
<1>11. ASSUME NEW b \in Builds, Exit(b)
       PROVE  Streams'
  <2>1. UNCHANGED <<place, of, replayed, subscribers, todo, closed>>
    BY <1>11 DEF Exit
  <2>2. \A h \in Goroutines : pc[h] = "send" => pc'[h] = "send"
    BY <1>11 DEF Exit
  <2> QED
    BY <2>1, <2>2, StreamsKept
<1>12. ASSUME NEW p \in Pipes, Scan(p)
       PROVE  Streams'
  <2>1. UNCHANGED <<place, of, replayed, subscribers, todo, closed>>
    BY <1>12 DEF Scan
  <2>2. \A h \in Goroutines : pc[h] = "send" => pc'[h] = "send"
    BY <1>12 DEF Scan
  <2> QED
    BY <2>1, <2>2, StreamsKept
<1>13. ASSUME NEW p \in Pipes, ScanFails(p)
       PROVE  Streams'
  <2>1. UNCHANGED <<place, of, replayed, subscribers, todo, closed>>
    BY <1>13 DEF ScanFails
  <2>2. \A h \in Goroutines : pc[h] = "send" => pc'[h] = "send"
    BY <1>13 DEF ScanFails
  <2> QED
    BY <2>1, <2>2, StreamsKept
<1>14. ASSUME NEW p \in Pipes, AppendScanned(p)
       PROVE  Streams'
  <2>1. UNCHANGED <<place, of, replayed, subscribers, todo, closed>>
    BY <1>14 DEF AppendScanned, Appended
  <2>2. \A h \in Goroutines : pc[h] = "send" => pc'[h] = "send"
    BY <1>14 DEF AppendScanned, Appended
  <2> QED
    BY <2>1, <2>2, StreamsKept
<1>15. ASSUME NEW g \in Goroutines, Lookup(g)
       PROVE  Streams'
  <2>1. UNCHANGED <<place, of, replayed, subscribers, todo, closed>>
    BY <1>15 DEF Lookup
  <2>2. \A h \in Goroutines : pc[h] = "send" => pc'[h] = "send"
    BY <1>15 DEF Lookup
  <2> QED
    BY <2>1, <2>2, StreamsKept
<1>16. ASSUME NEW g \in Goroutines, RangeLoop(g)
       PROVE  Streams'
  <2> SUFFICES ASSUME NEW r \in Readers
               PROVE  Reader(r)'
    BY DEF Streams
  <2>1. Reader(r)
    BY DEF Streams
  <2>2. /\ UNCHANGED <<place, of, replayed, subscribers, closed, status, command>>
        /\ todo' = [todo EXCEPT ![g] = subscribers[Build(g)]]
        /\ pc' = [pc EXCEPT ![g] = IF subscribers[Build(g)] = {} THEN "ready" ELSE "send"]
        /\ pc[g] = "range" /\ script' = script
    BY <1>16 DEF RangeLoop, Reaches
  <2>3. r \in subscribers[Build(g)] /\ r \in closed => command[Build(g)] = "error"
    <3> SUFFICES ASSUME r \in subscribers[Build(g)] \cap closed
                 PROVE  command[Build(g)] = "error"
      OBVIOUS
    <3>1. Build(g) \in Builds
      OBVIOUS
    <3>2. pc[Main(Build(g))] = "closing"
      BY <3>1 DEF ClosedOnce
    <3>3. g = Out(Build(g)) \/ g = Err(Build(g))
      BY <2>2, <3>2 DEF Goroutines
    <3>4. ~(Over(Out(Build(g))) /\ Over(Err(Build(g))))
      BY <2>2, <3>3 DEF Over
    <3> QED
      BY <3>1, <3>2, <3>4, CourseSays, ScriptAt DEF Courses
  <2>4. Build(g) \in Builds
    OBVIOUS
  <2>5. ASSUME NEW h \in Goroutines, r \in todo'[h]
        PROVE  /\ place[r] \notin {"idle", "locked"} /\ pc'[h] = "send"
               /\ \A b \in Builds : r \in subscribers[b] => b = Build(h)
               /\ r \in closed => command[Build(h)] = "error"
    <3>1. CASE h = g
      <4>1. r \in subscribers[Build(g)] /\ pc'[g] = "send"
        BY <2>2, <2>5, <3>1
      <4> QED
        BY <2>1, <2>3, <2>4, <3>1, <4>1 DEF Reader
    <3>2. CASE h # g
      <4>1. r \in todo[h] /\ pc'[h] = pc[h]
        BY <2>2, <2>5, <3>2
      <4> QED
        BY <2>1, <4>1 DEF Reader
    <3> QED
      BY <3>1, <3>2
  <2>6. \A b \in Builds : Left(b)' = Left(b)
    BY <2>2 DEF Left
  <2> QED
    BY ONLY <2>1, <2>2, <2>5, <2>6, FieldsTyped, r \in Readers DEF Reader, FieldsTyped
<1>17. ASSUME NEW why \in {"closedChannel", "tornSlice"}, Die(why)
       PROVE  Streams'
  <2> SUFFICES ASSUME NEW r \in Readers
               PROVE  Reader(r)'
    BY DEF Streams
  <2>1. Reader(r)
    BY DEF Streams
  <2> QED
    BY <1>17 DEF Die, Reader
<1>18. ASSUME NEW g \in Goroutines, NEW s \in Readers, Deliver(g, s)
       PROVE  Streams'
  <2> SUFFICES ASSUME NEW r \in Readers
               PROVE  Reader(r)'
    BY DEF Streams
  <2>1. Reader(r)
    BY DEF Streams
  <2>2. /\ UNCHANGED <<place, of, replayed, subscribers, closed, status, command>>
        /\ todo' = [todo EXCEPT ![g] = todo[g] \ {s}]
        /\ pc' = [pc EXCEPT ![g] = IF todo[g] \ {s} = {} THEN "ready" ELSE "send"]
        /\ pc[g] = "send" /\ script' = script
    BY <1>18 DEF Deliver, Reaches
  <2>3. \A h \in Goroutines : r \in todo'[h] => r \in todo[h] /\ pc'[h] = pc[h]
    BY <2>2
  <2>4. \A b \in Builds : Left(b)' = Left(b)
    BY <2>2 DEF Left
  <2> QED
    BY ONLY <2>1, <2>2, <2>3, <2>4, FieldsTyped, r \in Readers DEF Reader, FieldsTyped
<1>19. ASSUME NEW s \in Readers, Register(s)
       PROVE  Streams'
  <2> SUFFICES ASSUME NEW r \in Readers
               PROVE  Reader(r)'
    BY DEF Streams
  <2>1. Reader(r)
    BY DEF Streams
  <2>2. /\ UNCHANGED <<of, replayed, todo, closed, status, command, pc, script>>
        /\ place[s] = "locked" /\ place' = [place EXCEPT ![s] = "replay"]
    BY <1>19 DEF Register
  <2>3. Reader(s)
    BY DEF Streams
  <2>4. of[s] \in Builds
    BY <2>2, <2>3 DEF Reader
  <2>5. \A b \in Builds : subscribers'[b] = IF b = of[s] THEN subscribers[b] \cup {s} ELSE subscribers[b]
    BY <1>19, <2>4 DEF Register
  <2>6. r # s => \A b \in Builds : r \in subscribers'[b] <=> r \in subscribers[b]
    BY ONLY <2>5
  <2>7. \A b \in Builds : Left(b)' = Left(b)
    BY <2>2 DEF Left
  <2>8. CASE r = s
    <3>1. \A b \in Builds : r \in subscribers'[b] <=> b = of[s]
      <4>1. \A b \in Builds : s \notin subscribers[b]
        BY <2>2, <2>3 DEF Reader
      <4> QED
        BY ONLY <2>4, <2>5, <2>8, <4>1
    <3> QED
      BY ONLY <2>2, <2>3, <2>4, <2>8, <3>1, FieldsTyped, r \in Readers DEF Reader, FieldsTyped
  <2>9. CASE r # s
    <3>1. place'[r] = place[r]
      BY <2>2, <2>9
    <3> QED
      BY ONLY <2>1, <2>2, <2>6, <2>7, <2>9, <3>1, FieldsTyped, r \in Readers
         DEF Reader, FieldsTyped
  <2> QED
    BY <2>8, <2>9
<1>20. ASSUME NEW s \in Readers, Replay(s)
       PROVE  Streams'
  <2> SUFFICES ASSUME NEW r \in Readers
               PROVE  Reader(r)'
    BY DEF Streams
  <2>1. Reader(r)
    BY DEF Streams
  <2> QED
    BY <1>20, <2>1 DEF Replay, Reader, Left
<1>21. ASSUME NEW s \in Readers, Subscribed(s)
       PROVE  Streams'
  <2> SUFFICES ASSUME NEW r \in Readers
               PROVE  Reader(r)'
    BY DEF Streams
  <2>1. Reader(r)
    BY DEF Streams
  <2> QED
    BY <1>21, <2>1 DEF Subscribed, Reader, Left
<1>22. ASSUME NEW s \in Readers, Receive(s)
       PROVE  Streams'
  <2>1. UNCHANGED <<place, of, replayed, subscribers, todo, closed>>
    BY <1>22 DEF Receive
  <2>2. \A h \in Goroutines : pc[h] = "send" => pc'[h] = "send"
    BY <1>22 DEF Receive
  <2> QED
    BY <2>1, <2>2, StreamsKept
<1>23. ASSUME NEW s \in Readers, Leave(s)
       PROVE  Streams'
  <2> SUFFICES ASSUME NEW r \in Readers
               PROVE  Reader(r)'
    BY DEF Streams
  <2>1. Reader(r)
    BY DEF Streams
  <2>2. /\ place[s] = "streaming" /\ place' = [place EXCEPT ![s] = "done"]
        /\ of' = [of EXCEPT ![s] = Free]
        /\ UNCHANGED <<replayed, subscribers, todo, closed, status, command, pc, script>>
    BY ONLY <1>23 DEF Leave, storeVars, commandVars, buildVars
  <2>3. (place'[r] = place[r] /\ of'[r] = of[r]) \/ place'[r] = "done"
    BY <2>2
  <2> QED
    BY ONLY <2>1, <2>2, <2>3 DEF Reader, Left
<1>24. ASSUME NEW s \in Readers, NEW b \in Builds, Subscribe(s, b)
       PROVE  Streams'
  <2> SUFFICES ASSUME NEW r \in Readers
               PROVE  Reader(r)'
    BY DEF Streams
  <2>1. Reader(r)
    BY DEF Streams
  <2> QED
    BY <1>24, <2>1 DEF Subscribe, Reader, Left
<1> QED
  BY <1>1, <1>2, <1>3, <1>4, <1>5, <1>6, <1>7, <1>8, <1>9, <1>10, <1>11, <1>12, <1>13, <1>14,
     <1>15, <1>16, <1>17, <1>18, <1>19, <1>20, <1>21, <1>22, <1>23, <1>24
     DEF BuilderNext, RunBuild, StreamPipe, Broadcast, StreamLogs, StreamClosed, RangeTorn,
         DeliverToClosed


(* A channel that is closed is about to be forgotten.                      *)
LEMMA ClosedStep ==
  ASSUME FieldsTyped, Courses, Streams, ClosedOnce, BuilderNext
  PROVE  ClosedOnce'
<1> USE Names, BuilderConstants DEF FieldsTyped, Goto, storeVars, commandVars, buildVars, readerVars
<1>1. ASSUME NEW b \in Builds, Create(b)
      PROVE  ClosedOnce'
  <2>1. pc[Main(b)] = "none"
    BY <1>1 DEF Create, Courses, Course, Absent
  <2> QED
    BY <1>1, <2>1 DEF Create, ClosedOnce
<1>2. ASSUME NEW b \in Builds, AppendOwn(b)
      PROVE  ClosedOnce'
  BY <1>2 DEF AppendOwn, ClosedOnce, Appended, Calls, Advance
<1>3. ASSUME NEW b \in Builds, UpdateStatus(b)
      PROVE  ClosedOnce'
  BY <1>3 DEF UpdateStatus, ClosedOnce, Calls, Advance
<1>4. ASSUME NEW b \in Builds, StartFails(b)
      PROVE  ClosedOnce'
  BY <1>4 DEF StartFails, ClosedOnce, Calls, Advance
<1>5. ASSUME NEW b \in Builds, Start(b)
      PROVE  ClosedOnce'
  BY <1>5 DEF Start, ClosedOnce, Calls, Advance
<1>6. ASSUME NEW b \in Builds, Wait(b)
      PROVE  ClosedOnce'
  BY <1>6 DEF Wait, ClosedOnce, Calls, Advance
<1>7. ASSUME NEW b \in Builds, Drain(b)
      PROVE  ClosedOnce'
  BY <1>7 DEF Drain, ClosedOnce, Calls, Advance
<1>8. ASSUME NEW b \in Builds, Close(b)
      PROVE  ClosedOnce'
  <2>1. /\ closed' = closed \cup subscribers[b] /\ pc' = [pc EXCEPT ![Main(b)] = "closing"]
        /\ subscribers' = subscribers
    BY <1>8 DEF Close
  <2>2. ASSUME NEW c \in Builds, NEW s \in subscribers[c] \cap closed'
        PROVE  pc'[Main(c)] = "closing"
    <3>1. s \in Readers /\ Reader(s)
      BY <2>2 DEF Streams
    <3>2. s \in closed \/ c = b
      BY <2>1, <2>2, <3>1 DEF Reader
    <3> QED
      BY <2>1, <2>2, <3>2 DEF ClosedOnce
  <2> QED
    BY <2>1, <2>2 DEF ClosedOnce
<1>9. ASSUME NEW b \in Builds, Forget(b)
      PROVE  ClosedOnce'
  BY <1>9 DEF Forget, ClosedOnce
<1>10. ASSUME NEW b \in Builds, Notify(b)
       PROVE  ClosedOnce'
  BY <1>10 DEF Notify, ClosedOnce, Calls, Advance
<1>11. ASSUME NEW b \in Builds, Exit(b)
       PROVE  ClosedOnce'
  BY <1>11 DEF Exit, ClosedOnce
<1>12. ASSUME NEW p \in Pipes, Scan(p)
       PROVE  ClosedOnce'
  BY <1>12 DEF Scan, ClosedOnce
<1>13. ASSUME NEW p \in Pipes, ScanFails(p)
       PROVE  ClosedOnce'
  BY <1>13 DEF ScanFails, ClosedOnce
<1>14. ASSUME NEW p \in Pipes, AppendScanned(p)
       PROVE  ClosedOnce'
  BY <1>14 DEF AppendScanned, ClosedOnce, Appended
<1>15. ASSUME NEW g \in Goroutines, Lookup(g)
       PROVE  ClosedOnce'
  BY <1>15 DEF Lookup, ClosedOnce
<1>16. ASSUME NEW g \in Goroutines, RangeLoop(g)
       PROVE  ClosedOnce'
  <2>1. pc[g] = "range" /\ UNCHANGED <<subscribers, closed>>
        /\ \A h \in Goroutines \ {g} : pc'[h] = pc[h]
    BY <1>16 DEF RangeLoop, Reaches
  <2> QED
    BY <2>1 DEF ClosedOnce
<1>17. ASSUME NEW why \in {"closedChannel", "tornSlice"}, Die(why)
       PROVE  ClosedOnce'
  BY <1>17 DEF Die, ClosedOnce
<1>18. ASSUME NEW g \in Goroutines, NEW s \in Readers, Deliver(g, s)
       PROVE  ClosedOnce'
  <2>1. pc[g] = "send" /\ UNCHANGED <<subscribers, closed>>
        /\ \A h \in Goroutines \ {g} : pc'[h] = pc[h]
    BY <1>18 DEF Deliver, Reaches
  <2> QED
    BY <2>1 DEF ClosedOnce
<1>19. ASSUME NEW s \in Readers, Register(s)
       PROVE  ClosedOnce'
  <2>1. Reader(s) /\ place[s] = "locked"
    BY <1>19 DEF Register, Streams
  <2>2. s \notin closed /\ of[s] \in Builds
    BY <2>1 DEF Reader
  <2>3. ASSUME NEW c \in Builds
        PROVE  subscribers'[c] \cap closed = subscribers[c] \cap closed
    <3>1. subscribers'[c] = IF c = of[s] THEN subscribers[c] \cup {s} ELSE subscribers[c]
      BY <1>19, <2>2 DEF Register
    <3> QED
      BY ONLY <2>2, <3>1
  <2> QED
    BY <1>19, <2>3 DEF Register, ClosedOnce
<1>20. ASSUME NEW s \in Readers, Replay(s)
       PROVE  ClosedOnce'
  BY <1>20 DEF Replay, ClosedOnce
<1>21. ASSUME NEW s \in Readers, Subscribed(s)
       PROVE  ClosedOnce'
  BY <1>21 DEF Subscribed, ClosedOnce
<1>22. ASSUME NEW s \in Readers, Receive(s)
       PROVE  ClosedOnce'
  BY <1>22 DEF Receive, ClosedOnce
<1>23. ASSUME NEW s \in Readers, Leave(s)
       PROVE  ClosedOnce'
  BY <1>23 DEF Leave, ClosedOnce
<1>24. ASSUME NEW s \in Readers, NEW b \in Builds, Subscribe(s, b)
       PROVE  ClosedOnce'
  BY <1>24 DEF Subscribe, ClosedOnce
<1> QED
  BY <1>1, <1>2, <1>3, <1>4, <1>5, <1>6, <1>7, <1>8, <1>9, <1>10, <1>11, <1>12, <1>13, <1>14,
     <1>15, <1>16, <1>17, <1>18, <1>19, <1>20, <1>21, <1>22, <1>23, <1>24
     DEF BuilderNext, RunBuild, StreamPipe, Broadcast, StreamLogs, StreamClosed, RangeTorn,
         DeliverToClosed

(* A send on a closed channel is one of a build whose command failed, and  *)
(* the process does not come back.                                         *)
LEMMA PanicStep ==
  ASSUME FieldsTyped, Dead, Streams, PanicNeedsFailure, BuilderNext
  PROVE  PanicNeedsFailure'
<1> USE Names
<1>1. ASSUME NEW b \in Builds, Create(b) \/ RunBuild(b) \/ Exit(b)
      PROVE  crash' = "no" \/ (crash' = crash /\ command' = command)
  <2>1. CASE Create(b) \/ Exit(b)
    BY <2>1 DEF Create, Exit
  <2>2. CASE Forget(b)
    BY <2>2 DEF Forget, commandVars
  <2>3. CASE Start(b)
    BY <2>3 DEF Start, Calls, Dead, FieldsTyped
  <2>4. CASE AppendOwn(b) \/ UpdateStatus(b) \/ StartFails(b) \/ Wait(b) \/ Drain(b) \/ Close(b)
             \/ Notify(b)
    BY <2>4 DEF AppendOwn, UpdateStatus, StartFails, Wait, Drain, Close, Notify, commandVars
  <2> QED
    BY <1>1, <2>1, <2>2, <2>3, <2>4 DEF RunBuild
<1>2. ASSUME NEW p \in Pipes, StreamPipe(p)
      PROVE  crash' = crash /\ command' = command
  BY <1>2 DEF StreamPipe, Scan, ScanFails, AppendScanned, commandVars
<1>3. ASSUME NEW g \in Goroutines, Broadcast(g)
      PROVE  \/ crash' = crash /\ command' = command
             \/ crash' = "tornSlice"
             \/ \E b \in Builds : command'[b] = "error"
  <2>1. CASE Lookup(g) \/ RangeLoop(g)
    BY <2>1 DEF Lookup, RangeLoop, commandVars
  <2>2. CASE RangeTorn(g)
    BY <2>2 DEF RangeTorn, Die
  <2>3. ASSUME NEW s \in Readers, Deliver(g, s)
        PROVE  crash' = crash /\ command' = command
    BY <2>3 DEF Deliver, commandVars
  <2>4. ASSUME NEW s \in Readers, DeliverToClosed(g, s)
        PROVE  \E b \in Builds : command'[b] = "error"
    <3>1. s \in todo[g] /\ s \in closed /\ command' = command
      BY <2>4 DEF DeliverToClosed, Die
    <3>2. command[Build(g)] = "error"
      BY <3>1 DEF Streams, Reader
    <3> QED
      BY <3>1, <3>2
  <2> QED
    BY <1>3, <2>1, <2>2, <2>3, <2>4 DEF Broadcast
<1>4. ASSUME NEW s \in Readers, StreamLogs(s) \/ Leave(s)
      PROVE  crash' = crash /\ command' = command
  BY <1>4 DEF StreamLogs, StreamClosed, Register, Replay, Subscribed, Receive, Leave, commandVars
<1>5. ASSUME NEW s \in Readers, NEW b \in Builds, Subscribe(s, b)
      PROVE  crash' = crash /\ command' = command
  BY <1>5 DEF Subscribe, commandVars
<1> QED
  BY <1>1, <1>2, <1>3, <1>4, <1>5 DEF BuilderNext, PanicNeedsFailure


-----------------------------------------------------------------------------
(* The lines.                                                              *)

(* Reader s is one that must miss no line; line i has not fallen between.  *)
Listens(s) ==
  /\ place[s] \in {"replay", "streaming"}
  /\ s \in subscribers[of[s]] \/ (s \in closed /\ status[of[s]] = "succeeded")

Kept(s, i) == i \in settled[s] \cup Buffered(s) \/ Coming(s, i)

(* The invariant in these words.                                           *)
LEMMA NoLineIs ==
  NoLineFallsBetween <=> \A s \in Readers : Listens(s) => \A i \in 1..logs[of[s]] : Kept(s, i)
BY DEF NoLineFallsBetween, Listens, Kept

(* The same after a step.                                                  *)
LEMMA NoLineWillBe ==
  ASSUME \A s \in Readers : Listens(s)' => \A i \in 1..logs'[of'[s]] : Kept(s, i)'
  PROVE  NoLineFallsBetween'
BY DEF NoLineFallsBetween, Listens, Kept

(* A step that makes nobody listen, adds no line and loses none.           *)
LEMMA NoLineKept ==
  ASSUME NoLineFallsBetween,
         \A s \in Readers : Listens(s)' =>
           /\ Listens(s) /\ of'[s] = of[s] /\ logs'[of[s]] = logs[of[s]]
           /\ \A i \in 1..logs[of[s]] : Kept(s, i) => Kept(s, i)'
  PROVE  NoLineFallsBetween'
<1>1. ASSUME NEW s \in Readers, Listens(s)', NEW i \in 1..logs'[of'[s]]
      PROVE  Kept(s, i)'
  BY <1>1, NoLineIs
<1> QED
  BY <1>1, NoLineWillBe

(* The step does nothing to the channel of reader s, and who broadcasts    *)
(* goes no further than to its range loop.                                 *)
Silent(s) ==
  /\ place'[s] = place[s] /\ of'[s] = of[s] /\ replayed'[s] = replayed[s]
  /\ buffer'[s] = buffer[s] /\ settled'[s] = settled[s]
  /\ \A g \in Goroutines : pc[g] \in {"lookup", "range", "send"} =>
       /\ line'[g] = line[g] /\ todo'[g] = todo[g]
       /\ pc'[g] = pc[g] \/ (pc[g] = "lookup" /\ pc'[g] = "range")

(* Then no line is lost to it.                                             *)
LEMMA SilentKeeps ==
  ASSUME NEW s \in Readers, Silent(s), NEW i, Kept(s, i)
  PROVE  Kept(s, i)'
<1>1. CASE i \in settled[s] \cup Buffered(s)
  BY <1>1 DEF Silent, Kept, Buffered
<1>2. CASE place[s] = "replay" /\ i > replayed[s]
  BY <1>2 DEF Silent, Kept, Coming
<1>3. ASSUME NEW g \in Goroutines, Build(g) = of[s], line[g] = i,
             pc[g] \in {"lookup", "range"} \/ (pc[g] = "send" /\ s \in todo[g])
      PROVE  Kept(s, i)'
  BY <1>3 DEF Silent, Kept, Coming
<1> QED
  BY <1>1, <1>2, <1>3 DEF Kept, Coming

(* What is in a channel, before and after its ends move.                   *)
LEMMA BufferedAppend ==
  ASSUME NEW s \in Readers, buffer[s] \in Seq(Nat), NEW l \in Nat, buffer'[s] = Append(buffer[s], l)
  PROVE  Buffered(s) \subseteq Buffered(s)' /\ l \in Buffered(s)'
<1>1. /\ Len(Append(buffer[s], l)) = Len(buffer[s]) + 1 /\ Len(buffer[s]) \in Nat
      /\ Append(buffer[s], l)[Len(buffer[s]) + 1] = l
      /\ \A i \in 1..Len(buffer[s]) : Append(buffer[s], l)[i] = buffer[s][i]
      /\ DOMAIN buffer[s] = 1..Len(buffer[s])
      /\ DOMAIN Append(buffer[s], l) = 1..(Len(buffer[s]) + 1)
  BY AppendProperties
<1>2. PICK q, n : q = Append(buffer[s], l) /\ n = Len(buffer[s])
  OBVIOUS
<1>3. /\ n \in Nat /\ q[n + 1] = l /\ DOMAIN q = 1..(n + 1) /\ DOMAIN buffer[s] = 1..n
      /\ \A i \in 1..n : q[i] = buffer[s][i]
      /\ buffer'[s] = q
  BY <1>1, <1>2, Zenon
<1> QED
  BY ONLY <1>3 DEF Buffered

(* What is taken out was at the head.                                      *)
LEMMA BufferedTail ==
  ASSUME NEW s \in Readers, buffer[s] \in Seq(Nat), buffer[s] # <<>>, buffer'[s] = Tail(buffer[s])
  PROVE  Buffered(s) \subseteq Buffered(s)' \cup {Head(buffer[s])}
<1>1. /\ Len(Tail(buffer[s])) = Len(buffer[s]) - 1 /\ Len(buffer[s]) \in Nat \ {0}
      /\ Head(buffer[s]) = buffer[s][1]
      /\ \A i \in 1..Len(Tail(buffer[s])) : Tail(buffer[s])[i] = buffer[s][i + 1]
      /\ DOMAIN buffer[s] = 1..Len(buffer[s])
      /\ DOMAIN Tail(buffer[s]) = 1..Len(Tail(buffer[s]))
  <2>1. /\ Tail(buffer[s]) \in Seq(Nat) /\ Len(Tail(buffer[s])) = Len(buffer[s]) - 1
        /\ \A i \in 1..Len(Tail(buffer[s])) : Tail(buffer[s])[i] = buffer[s][i + 1]
    BY HeadTailProperties
  <2>2. Len(buffer[s]) \in Nat \ {0} /\ DOMAIN buffer[s] = 1..Len(buffer[s])
        /\ Head(buffer[s]) = buffer[s][1]
    OBVIOUS
  <2>3. DOMAIN Tail(buffer[s]) = 1..Len(Tail(buffer[s]))
    BY <2>1
  <2> QED
    BY <2>1, <2>2, <2>3
<1>2. PICK q, n, h : q = Tail(buffer[s]) /\ n = Len(buffer[s]) /\ h = Head(buffer[s])
  OBVIOUS
<1>3. /\ n \in Nat \ {0} /\ h = buffer[s][1] /\ DOMAIN buffer[s] = 1..n /\ DOMAIN q = 1..(n - 1)
      /\ \A i \in 1..(n - 1) : q[i] = buffer[s][i + 1]
      /\ buffer'[s] = q
  BY <1>1, <1>2, Zenon
<1>4. ASSUME NEW i \in 1..n, i # 1
      PROVE  i - 1 \in 1..(n - 1) /\ q[i - 1] = buffer[s][i]
  BY ONLY <1>3, <1>4, i \in 1..n
<1>5. \A i \in 1..n : buffer[s][i] = h \/ buffer[s][i] \in {q[j] : j \in 1..(n - 1)}
  BY ONLY <1>3, <1>4
<1>6. Buffered(s) \subseteq Buffered(s)' \cup {h}
  <2>1. Buffered(s) = {buffer[s][i] : i \in 1..n}
    BY ONLY <1>3 DEF Buffered
  <2>2. Buffered(s)' = {q[j] : j \in 1..(n - 1)}
    BY ONLY <1>3 DEF Buffered
  <2> QED
    BY ONLY <1>5, <2>1, <2>2
<1> QED
  BY ONLY <1>2, <1>6

(* No line falls between.                                                  *)
LEMMA NoLineStep ==
  ASSUME FieldsTyped, ScriptsTyped, BuffersTyped, Courses, Streams,
         NoLineFallsBetween, BuilderNext
  PROVE  NoLineFallsBetween'
<1> USE Names, BuilderConstants DEF FieldsTyped, Goto, storeVars, commandVars, buildVars, readerVars
<1>1. ASSUME NEW b \in Builds, Create(b)
      PROVE  NoLineFallsBetween'
  <2>1. ASSUME NEW r \in Readers, Listens(r)'
        PROVE  /\ Listens(r) /\ of'[r] = of[r] /\ logs'[of[r]] = logs[of[r]]
               /\ \A i \in 1..logs[of[r]] : Kept(r, i) => Kept(r, i)'
    <3>3. pc[Main(b)] = "none"
      BY <1>1 DEF Create, Courses, Course, Absent
    <3>1. Silent(r)
      BY <1>1, <3>3 DEF Silent, Create
    <3>2. Listens(r) /\ of'[r] = of[r] /\ logs'[of[r]] = logs[of[r]]
      BY <1>1, <2>1, <3>3 DEF Listens, Create
    <3> QED
      BY <3>1, <3>2, SilentKeeps
  <2> QED
    BY <2>1, NoLineKept
<1>2. ASSUME NEW b \in Builds, AppendOwn(b)
      PROVE  NoLineFallsBetween'
  <2>1. /\ pc[Main(b)] \in {"ready", "append"} /\ pc' = [pc EXCEPT ![Main(b)] = "lookup"]
        /\ logs' = [logs EXCEPT ![Build(Main(b))] = @ + 1]
        /\ line' = [line EXCEPT ![Main(b)] = logs[Build(Main(b))] + 1]
        /\ Main(b) \in Goroutines /\ Build(Main(b)) \in Builds
        /\ UNCHANGED <<place, of, replayed, buffer, settled, todo, status, subscribers, closed>>
    BY <1>2 DEF AppendOwn, Appended, Calls
  <2>2. ASSUME NEW r \in Readers, Listens(r)', NEW i \in 1..logs'[of'[r]]
        PROVE  Kept(r, i)'
    <3>1. Listens(r) /\ of' = of
      BY <2>1, <2>2 DEF Listens
    <3>2. Silent(r)
      BY <2>1 DEF Silent
    <3>3. of[r] \in Builds
      BY <3>1 DEF Listens, Streams, Reader
    <3>4. CASE i \in 1..logs[of[r]]
      <4>1. Kept(r, i)
        BY <3>1, <3>4, NoLineIs
      <4> QED
        BY <3>2, <4>1, SilentKeeps
    <3>5. CASE i \notin 1..logs[of[r]]
      <4>1. of[r] = Build(Main(b)) /\ i = logs[Build(Main(b))] + 1
        <5>1. /\ i \in 1..logs'[of[r]] /\ logs[of[r]] \in Nat
              /\ logs'[of[r]] = IF of[r] = Build(Main(b)) THEN logs[of[r]] + 1 ELSE logs[of[r]]
          BY <2>1, <2>2, <3>1, <3>3
        <5> QED
          BY ONLY <3>5, <5>1
      <4>2. line'[Main(b)] = i /\ pc'[Main(b)] = "lookup"
        BY <2>1, <4>1
      <4> QED
        BY <2>1, <3>1, <4>1, <4>2 DEF Kept, Coming
    <3> QED
      BY <3>4, <3>5
  <2> QED
    BY <2>2, NoLineWillBe
<1>3. ASSUME NEW b \in Builds, UpdateStatus(b)
      PROVE  NoLineFallsBetween'
  <2>1. ASSUME NEW r \in Readers, Listens(r)'
        PROVE  /\ Listens(r) /\ of'[r] = of[r] /\ logs'[of[r]] = logs[of[r]]
               /\ \A i \in 1..logs[of[r]] : Kept(r, i) => Kept(r, i)'
    <3>1. Silent(r)
      BY <1>3 DEF Silent, UpdateStatus, Calls
    <3>2. Listens(r) /\ of'[r] = of[r] /\ logs'[of[r]] = logs[of[r]]
      <4>1. r \in closed /\ place[r] = "streaming" /\ of[r] = b => status'[b] # "succeeded"
        <5> SUFFICES ASSUME r \in closed, place[r] = "streaming", of[r] = b
                     PROVE  status'[b] # "succeeded"
          OBVIOUS
        <5>1. Left(b) <= 1
          BY DEF Streams, Reader
        <5>2. script[b] # <<>> => Head(script[b]) # "succeeded"
          BY <5>1, CourseSays, ScriptAt DEF Courses
        <5> QED
          BY <1>3, <5>2 DEF UpdateStatus, Calls
      <4>2. r \in closed => place[r] \in {"streaming", "done"}
        BY DEF Streams, Reader
      <4>3. \A c \in Builds \ {b} : status'[c] = status[c]
        BY <1>3 DEF UpdateStatus
      <4>4. UNCHANGED <<place, subscribers, closed, of, logs>>
        BY <1>3 DEF UpdateStatus
      <4>5. place[r] \in {"replay", "streaming"} => of[r] \in Builds
        BY DEF Streams, Reader
      <4> QED
        BY ONLY <2>1, <4>1, <4>2, <4>3, <4>4, <4>5 DEF Listens
    <3> QED
      BY <3>1, <3>2, SilentKeeps
  <2> QED
    BY <2>1, NoLineKept
<1>4. ASSUME NEW b \in Builds, StartFails(b)
      PROVE  NoLineFallsBetween'
  <2>1. ASSUME NEW r \in Readers, Listens(r)'
        PROVE  /\ Listens(r) /\ of'[r] = of[r] /\ logs'[of[r]] = logs[of[r]]
               /\ \A i \in 1..logs[of[r]] : Kept(r, i) => Kept(r, i)'
    <3>1. Silent(r)
      BY <1>4 DEF Silent, StartFails, Calls
    <3>2. Listens(r) /\ of'[r] = of[r] /\ logs'[of[r]] = logs[of[r]]
      BY <1>4, <2>1 DEF Listens, StartFails, Calls
    <3> QED
      BY <3>1, <3>2, SilentKeeps
  <2> QED
    BY <2>1, NoLineKept
<1>5. ASSUME NEW b \in Builds, Start(b)
      PROVE  NoLineFallsBetween'
  <2>1. ASSUME NEW r \in Readers, Listens(r)'
        PROVE  /\ Listens(r) /\ of'[r] = of[r] /\ logs'[of[r]] = logs[of[r]]
               /\ \A i \in 1..logs[of[r]] : Kept(r, i) => Kept(r, i)'
    <3>3. script[b] # <<>> /\ Head(script[b]) = "start"
      BY <1>5 DEF Start, Calls
    <3>4. pc[Out(b)] = "none" /\ pc[Err(b)] = "none"
      BY <3>3, CourseSays, ScriptAt DEF Courses
    <3>5. \A p \in Pipes : Build(p) = b => pc[p] = "none"
      BY <3>4
    <3>1. Silent(r)
      BY <1>5, <3>5 DEF Silent, Start, Calls
    <3>2. Listens(r) /\ of'[r] = of[r] /\ logs'[of[r]] = logs[of[r]]
      BY <1>5, <2>1, <3>5 DEF Listens, Start, Calls
    <3> QED
      BY <3>1, <3>2, SilentKeeps
  <2> QED
    BY <2>1, NoLineKept
<1>6. ASSUME NEW b \in Builds, Wait(b)
      PROVE  NoLineFallsBetween'
  <2>1. ASSUME NEW r \in Readers, Listens(r)'
        PROVE  /\ Listens(r) /\ of'[r] = of[r] /\ logs'[of[r]] = logs[of[r]]
               /\ \A i \in 1..logs[of[r]] : Kept(r, i) => Kept(r, i)'
    <3>1. Silent(r)
      BY <1>6 DEF Silent, Wait, Calls
    <3>2. Listens(r) /\ of'[r] = of[r] /\ logs'[of[r]] = logs[of[r]]
      BY <1>6, <2>1 DEF Listens, Wait, Calls
    <3> QED
      BY <3>1, <3>2, SilentKeeps
  <2> QED
    BY <2>1, NoLineKept
<1>7. ASSUME NEW b \in Builds, Drain(b)
      PROVE  NoLineFallsBetween'
  <2>1. ASSUME NEW r \in Readers, Listens(r)'
        PROVE  /\ Listens(r) /\ of'[r] = of[r] /\ logs'[of[r]] = logs[of[r]]
               /\ \A i \in 1..logs[of[r]] : Kept(r, i) => Kept(r, i)'
    <3>1. Silent(r)
      BY <1>7 DEF Silent, Drain, Calls
    <3>2. Listens(r) /\ of'[r] = of[r] /\ logs'[of[r]] = logs[of[r]]
      BY <1>7, <2>1 DEF Listens, Drain, Calls
    <3> QED
      BY <3>1, <3>2, SilentKeeps
  <2> QED
    BY <2>1, NoLineKept
<1>8. ASSUME NEW b \in Builds, Close(b)
      PROVE  NoLineFallsBetween'
  <2>1. ASSUME NEW r \in Readers, Listens(r)'
        PROVE  /\ Listens(r) /\ of'[r] = of[r] /\ logs'[of[r]] = logs[of[r]]
               /\ \A i \in 1..logs[of[r]] : Kept(r, i) => Kept(r, i)'
    <3>1. Silent(r)
      BY <1>8 DEF Silent, Close, Calls
    <3>2. Listens(r) /\ of'[r] = of[r] /\ logs'[of[r]] = logs[of[r]]
      <4>1. r \in subscribers[b] => place[r] = "done" \/ of[r] = b
        BY DEF Streams, Reader
      <4> QED
        BY <1>8, <2>1, <4>1 DEF Listens, Close
    <3> QED
      BY <3>1, <3>2, SilentKeeps
  <2> QED
    BY <2>1, NoLineKept
<1>9. ASSUME NEW b \in Builds, Forget(b)
      PROVE  NoLineFallsBetween'
  <2>1. ASSUME NEW r \in Readers, Listens(r)'
        PROVE  /\ Listens(r) /\ of'[r] = of[r] /\ logs'[of[r]] = logs[of[r]]
               /\ \A i \in 1..logs[of[r]] : Kept(r, i) => Kept(r, i)'
    <3>1. Silent(r)
      BY <1>9 DEF Silent, Forget
    <3>2. Listens(r) /\ of'[r] = of[r] /\ logs'[of[r]] = logs[of[r]]
      <4>1. place[r] \in {"replay", "streaming"} => of[r] \in Builds
        BY DEF Streams, Reader
      <4> QED
        BY <1>9, <2>1, <4>1 DEF Listens, Forget
    <3> QED
      BY <3>1, <3>2, SilentKeeps
  <2> QED
    BY <2>1, NoLineKept
<1>10. ASSUME NEW b \in Builds, Notify(b)
       PROVE  NoLineFallsBetween'
  <2>1. ASSUME NEW r \in Readers, Listens(r)'
        PROVE  /\ Listens(r) /\ of'[r] = of[r] /\ logs'[of[r]] = logs[of[r]]
               /\ \A i \in 1..logs[of[r]] : Kept(r, i) => Kept(r, i)'
    <3>1. Silent(r)
      BY <1>10 DEF Silent, Notify, Calls
    <3>2. Listens(r) /\ of'[r] = of[r] /\ logs'[of[r]] = logs[of[r]]
      BY <1>10, <2>1 DEF Listens, Notify, Calls
    <3> QED
      BY <3>1, <3>2, SilentKeeps
  <2> QED
    BY <2>1, NoLineKept
<1>11. ASSUME NEW b \in Builds, Exit(b)
       PROVE  NoLineFallsBetween'
  <2>1. ASSUME NEW r \in Readers, Listens(r)'
        PROVE  /\ Listens(r) /\ of'[r] = of[r] /\ logs'[of[r]] = logs[of[r]]
               /\ \A i \in 1..logs[of[r]] : Kept(r, i) => Kept(r, i)'
    <3>1. Silent(r)
      BY <1>11 DEF Silent, Exit
    <3>2. Listens(r) /\ of'[r] = of[r] /\ logs'[of[r]] = logs[of[r]]
      BY <1>11, <2>1 DEF Listens, Exit
    <3> QED
      BY <3>1, <3>2, SilentKeeps
  <2> QED
    BY <2>1, NoLineKept
<1>12. ASSUME NEW p \in Pipes, Scan(p)
       PROVE  NoLineFallsBetween'
  <2>1. ASSUME NEW r \in Readers, Listens(r)'
        PROVE  /\ Listens(r) /\ of'[r] = of[r] /\ logs'[of[r]] = logs[of[r]]
               /\ \A i \in 1..logs[of[r]] : Kept(r, i) => Kept(r, i)'
    <3>1. Silent(r)
      BY <1>12 DEF Silent, Scan
    <3>2. Listens(r) /\ of'[r] = of[r] /\ logs'[of[r]] = logs[of[r]]
      BY <1>12, <2>1 DEF Listens, Scan
    <3> QED
      BY <3>1, <3>2, SilentKeeps
  <2> QED
    BY <2>1, NoLineKept
<1>13. ASSUME NEW p \in Pipes, ScanFails(p)
       PROVE  NoLineFallsBetween'
  <2>1. ASSUME NEW r \in Readers, Listens(r)'
        PROVE  /\ Listens(r) /\ of'[r] = of[r] /\ logs'[of[r]] = logs[of[r]]
               /\ \A i \in 1..logs[of[r]] : Kept(r, i) => Kept(r, i)'
    <3>1. Silent(r)
      BY <1>13 DEF Silent, ScanFails
    <3>2. Listens(r) /\ of'[r] = of[r] /\ logs'[of[r]] = logs[of[r]]
      BY <1>13, <2>1 DEF Listens, ScanFails
    <3> QED
      BY <3>1, <3>2, SilentKeeps
  <2> QED
    BY <2>1, NoLineKept
<1>14. ASSUME NEW p \in Pipes, AppendScanned(p)
       PROVE  NoLineFallsBetween'
  <2>1. /\ pc[p] \in {"ready", "append"} /\ pc' = [pc EXCEPT ![p] = "lookup"]
        /\ logs' = [logs EXCEPT ![Build(p)] = @ + 1]
        /\ line' = [line EXCEPT ![p] = logs[Build(p)] + 1]
        /\ p \in Goroutines /\ Build(p) \in Builds
        /\ UNCHANGED <<place, of, replayed, buffer, settled, todo, status, subscribers, closed>>
    BY <1>14 DEF AppendScanned, Appended, Calls
  <2>2. ASSUME NEW r \in Readers, Listens(r)', NEW i \in 1..logs'[of'[r]]
        PROVE  Kept(r, i)'
    <3>1. Listens(r) /\ of' = of
      BY <2>1, <2>2 DEF Listens
    <3>2. Silent(r)
      BY <2>1 DEF Silent
    <3>3. of[r] \in Builds
      BY <3>1 DEF Listens, Streams, Reader
    <3>4. CASE i \in 1..logs[of[r]]
      <4>1. Kept(r, i)
        BY <3>1, <3>4, NoLineIs
      <4> QED
        BY <3>2, <4>1, SilentKeeps
    <3>5. CASE i \notin 1..logs[of[r]]
      <4>1. of[r] = Build(p) /\ i = logs[Build(p)] + 1
        <5>1. /\ i \in 1..logs'[of[r]] /\ logs[of[r]] \in Nat
              /\ logs'[of[r]] = IF of[r] = Build(p) THEN logs[of[r]] + 1 ELSE logs[of[r]]
          BY <2>1, <2>2, <3>1, <3>3
        <5> QED
          BY ONLY <3>5, <5>1
      <4>2. line'[p] = i /\ pc'[p] = "lookup"
        BY <2>1, <4>1
      <4> QED
        BY <2>1, <3>1, <4>1, <4>2 DEF Kept, Coming
    <3> QED
      BY <3>4, <3>5
  <2> QED
    BY <2>2, NoLineWillBe
<1>15. ASSUME NEW g \in Goroutines, Lookup(g)
       PROVE  NoLineFallsBetween'
  <2>1. ASSUME NEW r \in Readers, Listens(r)'
        PROVE  /\ Listens(r) /\ of'[r] = of[r] /\ logs'[of[r]] = logs[of[r]]
               /\ \A i \in 1..logs[of[r]] : Kept(r, i) => Kept(r, i)'
    <3>1. Silent(r)
      BY <1>15 DEF Silent, Lookup
    <3>2. Listens(r) /\ of'[r] = of[r] /\ logs'[of[r]] = logs[of[r]]
      BY <1>15, <2>1 DEF Listens, Lookup
    <3> QED
      BY <3>1, <3>2, SilentKeeps
  <2> QED
    BY <2>1, NoLineKept
<1>16. ASSUME NEW g \in Goroutines, RangeLoop(g)
       PROVE  NoLineFallsBetween'
  <2>1. ASSUME NEW r \in Readers, Listens(r)'
        PROVE  /\ Listens(r) /\ of'[r] = of[r] /\ logs'[of[r]] = logs[of[r]]
               /\ \A i \in 1..logs[of[r]] : Kept(r, i) => Kept(r, i)'
    <3>1. /\ UNCHANGED <<place, of, replayed, buffer, settled, status, logs, subscribers, closed>>
          /\ pc[g] = "range" /\ todo' = [todo EXCEPT ![g] = subscribers[Build(g)]]
          /\ subscribers[Build(g)] # {} =>
               line' = [line EXCEPT ![g] = line[g]] /\ pc' = [pc EXCEPT ![g] = "send"]
          /\ \A h \in Goroutines \ {g} : pc'[h] = pc[h] /\ line'[h] = line[h] /\ todo'[h] = todo[h]
      <4>1. /\ UNCHANGED <<place, of, replayed, buffer, settled, status, logs, subscribers, closed>>
            /\ pc[g] = "range" /\ Reaches(g, subscribers[Build(g)])
        BY ONLY <1>16 DEF RangeLoop, storeVars, readerVars
      <4>2. /\ pc \in [Goroutines -> {"none", "ready", "append", "lookup", "range", "send",
                                     "closing", "done"}]
            /\ line \in [Goroutines -> Nat] /\ todo \in [Goroutines -> SUBSET Readers]
        OBVIOUS
      <4> QED
        BY ONLY <4>1, <4>2, g \in Goroutines DEF Reaches, Goto
    <3>2. Listens(r)
      BY <2>1, <3>1 DEF Listens
    <3>3. Build(g) = of[r] => r \in subscribers[Build(g)]
      <4> SUFFICES ASSUME Build(g) = of[r], r \notin subscribers[Build(g)]
                   PROVE  FALSE
        OBVIOUS
      <4>1. /\ r \in closed /\ place[r] \in {"replay", "streaming"}
            /\ status[Build(g)] = "succeeded" /\ Build(g) \in Builds
        BY <3>2 DEF Listens
      <4>2. Left(Build(g)) <= 1
        BY <4>1 DEF Streams, Reader
      <4>3. pc[Main(Build(g))] # "range"
        BY <4>1, <4>2 DEF Courses, Course
      <4>4. Over(Out(Build(g))) /\ Over(Err(Build(g)))
        BY <4>1, CourseSays, ScriptAt DEF Courses
      <4>5. g = Main(Build(g)) \/ g = Out(Build(g)) \/ g = Err(Build(g))
        BY DEF Goroutines
      <4> QED
        BY <3>1, <4>3, <4>4, <4>5 DEF Over
    <3>4. ASSUME NEW i, Kept(r, i)
          PROVE  Kept(r, i)'
      <4>1. CASE i \in settled[r] \cup Buffered(r)
        BY <3>1, <4>1 DEF Kept, Buffered
      <4>2. CASE place[r] = "replay" /\ i > replayed[r]
        BY <3>1, <4>2 DEF Kept, Coming
      <4>3. ASSUME NEW h \in Goroutines, Build(h) = of[r], line[h] = i,
                   pc[h] \in {"lookup", "range"} \/ (pc[h] = "send" /\ r \in todo[h])
            PROVE  Kept(r, i)'
        <5>1. CASE h = g
          <6>1. r \in subscribers[Build(g)]
            BY <3>3, <4>3, <5>1
          <6>2. line'[h] = i /\ pc'[h] = "send" /\ r \in todo'[h] /\ of' = of
            BY <3>1, <4>3, <5>1, <6>1
          <6> QED
            BY ONLY <4>3, <6>2, h \in Goroutines DEF Kept, Coming
        <5>2. CASE h # g
          <6>1. line'[h] = i /\ pc'[h] = pc[h] /\ todo'[h] = todo[h] /\ of' = of
            BY <3>1, <4>3, <5>2
          <6> QED
            BY ONLY <4>3, <6>1, h \in Goroutines DEF Kept, Coming
        <5> QED
          BY <5>1, <5>2
      <4> QED
        BY <3>4, <4>1, <4>2, <4>3 DEF Kept, Coming
    <3> QED
      BY <3>1, <3>2, <3>4
  <2> QED
    BY <2>1, NoLineKept
<1>17. ASSUME NEW why \in {"closedChannel", "tornSlice"}, Die(why)
       PROVE  NoLineFallsBetween'
  <2>1. \A r \in Readers : ~Listens(r)'
    BY <1>17 DEF Die, Listens
  <2> QED
    BY <2>1, NoLineWillBe
<1>18. ASSUME NEW g \in Goroutines, NEW s \in Readers, Deliver(g, s)
       PROVE  NoLineFallsBetween'
  <2>1. ASSUME NEW r \in Readers, Listens(r)'
        PROVE  /\ Listens(r) /\ of'[r] = of[r] /\ logs'[of[r]] = logs[of[r]]
               /\ \A i \in 1..logs[of[r]] : Kept(r, i) => Kept(r, i)'
    <3>1. /\ UNCHANGED <<place, of, replayed, status, logs, subscribers, closed>>
          /\ pc[g] = "send" /\ s \in todo[g] /\ todo' = [todo EXCEPT ![g] = todo[g] \ {s}]
          /\ todo[g] \ {s} # {} =>
               line' = [line EXCEPT ![g] = line[g]] /\ pc' = [pc EXCEPT ![g] = "send"]
          /\ \A h \in Goroutines \ {g} : pc'[h] = pc[h] /\ line'[h] = line[h] /\ todo'[h] = todo[h]
      <4>1. /\ UNCHANGED <<place, of, replayed, status, logs, subscribers, closed>>
            /\ pc[g] = "send" /\ s \in todo[g] /\ Reaches(g, todo[g] \ {s})
        BY ONLY <1>18 DEF Deliver
      <4>2. /\ pc \in [Goroutines -> {"none", "ready", "append", "lookup", "range", "send",
                                     "closing", "done"}]
            /\ line \in [Goroutines -> Nat] /\ todo \in [Goroutines -> SUBSET Readers]
        OBVIOUS
      <4> QED
        BY ONLY <4>1, <4>2, g \in Goroutines DEF Reaches, Goto
    <3>2. Listens(r)
      BY <2>1, <3>1 DEF Listens
    <3>3. \/ /\ buffer' = [buffer EXCEPT ![s] = Append(buffer[s], line[g])]
             /\ settled' = settled
          \/ /\ settled' = [settled EXCEPT ![s] = settled[s] \cup {line[g]}]
             /\ buffer' = buffer
      BY <1>18 DEF Deliver
    <3>4. /\ settled[r] \cup Buffered(r) \subseteq settled'[r] \cup Buffered(r)'
          /\ r = s => line[g] \in settled'[r] \cup Buffered(r)'
      <4>1. CASE buffer' = buffer /\ settled' = [settled EXCEPT ![s] = settled[s] \cup {line[g]}]
        <5>1. Buffered(r)' = Buffered(r)
          BY <4>1 DEF Buffered
        <5>2. settled[r] \subseteq settled'[r] /\ (r = s => line[g] \in settled'[r])
          BY <4>1
        <5> QED
          BY ONLY <5>1, <5>2
      <4>2. CASE settled' = settled /\ buffer' = [buffer EXCEPT ![s] = Append(buffer[s], line[g])]
        <5>1. buffer[s] \in Seq(Nat) /\ (r # s => buffer'[r] = buffer[r])
              /\ buffer'[s] = Append(buffer[s], line[g]) /\ line[g] \in Nat
          BY <4>2 DEF BuffersTyped
        <5>2. CASE r = s
          <6>1. Buffered(s) \subseteq Buffered(s)' /\ line[g] \in Buffered(s)'
            BY <5>1, BufferedAppend
          <6> QED
            BY ONLY <4>2, <5>2, <6>1
        <5>3. CASE r # s
          <6>1. Buffered(r)' = Buffered(r)
            BY ONLY <5>1, <5>3 DEF Buffered
          <6> QED
            BY ONLY <4>2, <5>3, <6>1
        <5> QED
          BY ONLY <5>2, <5>3
      <4> QED
        BY <3>3, <4>1, <4>2
    <3>5. ASSUME NEW i, Kept(r, i)
          PROVE  Kept(r, i)'
      <4>1. CASE i \in settled[r] \cup Buffered(r)
        BY ONLY <3>4, <4>1 DEF Kept
      <4>2. CASE place[r] = "replay" /\ i > replayed[r]
        BY ONLY <3>1, <4>2 DEF Kept, Coming
      <4>3. ASSUME NEW h \in Goroutines, Build(h) = of[r], line[h] = i,
                   pc[h] \in {"lookup", "range"} \/ (pc[h] = "send" /\ r \in todo[h])
            PROVE  Kept(r, i)'
        <5>1. CASE h = g /\ r = s
          BY ONLY <3>4, <4>3, <5>1 DEF Kept
        <5>2. CASE h = g /\ r # s
          <6>1. r \in todo[g] \ {s}
            BY <3>1, <4>3, <5>2
          <6>2. line'[h] = i /\ pc'[h] = "send" /\ r \in todo'[h] /\ of' = of
            BY <3>1, <4>3, <5>2, <6>1
          <6> QED
            BY ONLY <4>3, <6>2, h \in Goroutines DEF Kept, Coming
        <5>3. CASE h # g
          <6>1. line'[h] = i /\ pc'[h] = pc[h] /\ todo'[h] = todo[h] /\ of' = of
            BY <3>1, <4>3, <5>3
          <6> QED
            BY ONLY <4>3, <6>1, h \in Goroutines DEF Kept, Coming
        <5> QED
          BY <5>1, <5>2, <5>3
      <4> QED
        BY <3>5, <4>1, <4>2, <4>3 DEF Kept, Coming
    <3> QED
      BY <3>1, <3>2, <3>5
  <2> QED
    BY <2>1, NoLineKept
<1>19. ASSUME NEW s \in Readers, Register(s)
       PROVE  NoLineFallsBetween'
  <2>1. ASSUME NEW r \in Readers, Listens(r)', NEW i \in 1..logs'[of'[r]]
        PROVE  Kept(r, i)'
    <3>1. CASE r = s
      <4>1. replayed'[s] = 0 /\ place'[s] = "replay"
        BY <1>19 DEF Register, Streams, Reader
      <4> QED
        BY <2>1, <3>1, <4>1 DEF Kept, Coming
    <3>2. CASE r # s
      <4>1. Silent(r)
        BY <1>19, <3>2 DEF Silent, Register
      <4>2. /\ place'[r] = place[r] /\ of' = of /\ closed' = closed /\ status' = status
            /\ logs' = logs
            /\ subscribers' = [subscribers EXCEPT ![of[s]] = subscribers[of[s]] \cup {s}]
        BY <1>19, <3>2 DEF Register
      <4>3. place[r] \in {"replay", "streaming"} => of[r] \in Builds
        BY DEF Streams, Reader
      <4>4. of[r] \in Builds => (r \in subscribers'[of[r]] => r \in subscribers[of[r]])
        BY <3>2, <4>2
      <4>5. Listens(r)
        BY ONLY <2>1, <4>2, <4>3, <4>4 DEF Listens
      <4>6. Kept(r, i)
        BY <2>1, <4>2, <4>5, NoLineIs
      <4> QED
        BY <4>1, <4>6, SilentKeeps
    <3> QED
      BY <3>1, <3>2
  <2> QED
    BY <2>1, NoLineWillBe
<1>20. ASSUME NEW s \in Readers, Replay(s)
       PROVE  NoLineFallsBetween'
  <2>1. ASSUME NEW r \in Readers, Listens(r)'
        PROVE  /\ Listens(r) /\ of'[r] = of[r] /\ logs'[of[r]] = logs[of[r]]
               /\ \A i \in 1..logs[of[r]] : Kept(r, i) => Kept(r, i)'
    <3>1. CASE r # s
      <4>1. Silent(r)
        BY <1>20, <3>1 DEF Silent, Replay
      <4>2. Listens(r) /\ of'[r] = of[r] /\ logs'[of[r]] = logs[of[r]]
        BY <1>20, <2>1, <3>1 DEF Listens, Replay
      <4> QED
        BY <4>1, <4>2, SilentKeeps
    <3>2. CASE r = s
      <4>1. Listens(s) /\ of'[s] = of[s] /\ logs'[of[s]] = logs[of[s]]
        BY <1>20, <2>1, <3>2 DEF Listens, Replay
      <4>2. ASSUME NEW i \in 1..logs[of[s]], Kept(s, i)
            PROVE  Kept(s, i)'
        <5>1. UNCHANGED <<place, of, settled, pc, line, todo>> /\ replayed'[s] = replayed[s] + 1
              /\ replayed[s] \in Nat
          BY <1>20 DEF Replay
        <5>2. Buffered(s) \subseteq Buffered(s)' /\ replayed[s] + 1 \in Buffered(s)'
          <6>1. buffer[s] \in Seq(Nat) /\ replayed[s] + 1 \in Nat
            BY ONLY <5>1, BuffersTyped, s \in Readers DEF BuffersTyped
          <6>2. buffer'[s] = Append(buffer[s], replayed[s] + 1)
            BY ONLY <1>20, <5>1, BuffersTyped, s \in Readers DEF Replay, BuffersTyped
          <6> QED
            BY <6>1, <6>2, BufferedAppend
        <5>3. CASE i \in settled[s] \cup Buffered(s)
          BY ONLY <5>1, <5>2, <5>3 DEF Kept
        <5>4. CASE place[s] = "replay" /\ i > replayed[s]
          <6>1. i = replayed[s] + 1 \/ i > replayed'[s]
            BY <5>1, <5>4
          <6> QED
            BY ONLY <5>1, <5>2, <5>4, <6>1 DEF Kept, Coming
        <5>5. ASSUME NEW h \in Goroutines, Build(h) = of[s], line[h] = i,
                     pc[h] \in {"lookup", "range"} \/ (pc[h] = "send" /\ s \in todo[h])
              PROVE  Kept(s, i)'
          BY ONLY <5>1, <5>5, h \in Goroutines DEF Kept, Coming
        <5> QED
          BY ONLY <4>2, <5>3, <5>4, <5>5, i \in 1..logs[of[s]] DEF Kept, Coming
      <4> QED
        BY <3>2, <4>1, <4>2
    <3> QED
      BY <3>1, <3>2
  <2> QED
    BY <2>1, NoLineKept
<1>21. ASSUME NEW s \in Readers, Subscribed(s)
       PROVE  NoLineFallsBetween'
  <2>1. ASSUME NEW r \in Readers, Listens(r)'
        PROVE  /\ Listens(r) /\ of'[r] = of[r] /\ logs'[of[r]] = logs[of[r]]
               /\ \A i \in 1..logs[of[r]] : Kept(r, i) => Kept(r, i)'
    <3>1. CASE r # s
      <4>1. Silent(r)
        BY <1>21, <3>1 DEF Silent, Subscribed
      <4>2. Listens(r) /\ of'[r] = of[r] /\ logs'[of[r]] = logs[of[r]]
        BY <1>21, <2>1, <3>1 DEF Listens, Subscribed
      <4> QED
        BY <4>1, <4>2, SilentKeeps
    <3>2. CASE r = s
      <4>1. Listens(s) /\ of'[s] = of[s] /\ logs'[of[s]] = logs[of[s]]
        BY <1>21, <2>1, <3>2 DEF Listens, Subscribed
      <4>2. ASSUME NEW i \in 1..logs[of[s]], Kept(s, i)
            PROVE  Kept(s, i)'
        <5>1. UNCHANGED <<of, buffer, settled, pc, line, todo>> /\ replayed[s] = logs[of[s]]
          BY <1>21 DEF Subscribed
        <5>2. ~(i > replayed[s])
          <6>1. logs[of[s]] \in Nat
            BY <4>1 DEF Listens, Streams, Reader
          <6> QED
            BY ONLY <5>1, <6>1, i \in 1..logs[of[s]]
        <5>3. CASE i \in settled[s] \cup Buffered(s)
          BY ONLY <5>1, <5>3 DEF Kept, Buffered
        <5>4. ASSUME NEW h \in Goroutines, Build(h) = of[s], line[h] = i,
                     pc[h] \in {"lookup", "range"} \/ (pc[h] = "send" /\ s \in todo[h])
              PROVE  Kept(s, i)'
          BY ONLY <5>1, <5>4, h \in Goroutines DEF Kept, Coming
        <5> QED
          BY ONLY <4>2, <5>2, <5>3, <5>4, i \in 1..logs[of[s]] DEF Kept, Coming
      <4> QED
        BY <3>2, <4>1, <4>2
    <3> QED
      BY <3>1, <3>2
  <2> QED
    BY <2>1, NoLineKept
<1>22. ASSUME NEW s \in Readers, Receive(s)
       PROVE  NoLineFallsBetween'
  <2>1. ASSUME NEW r \in Readers, Listens(r)'
        PROVE  /\ Listens(r) /\ of'[r] = of[r] /\ logs'[of[r]] = logs[of[r]]
               /\ \A i \in 1..logs[of[r]] : Kept(r, i) => Kept(r, i)'
    <3>1. CASE r # s
      <4>1. Silent(r)
        BY <1>22, <3>1 DEF Silent, Receive
      <4>2. Listens(r) /\ of'[r] = of[r] /\ logs'[of[r]] = logs[of[r]]
        BY <1>22, <2>1, <3>1 DEF Listens, Receive
      <4> QED
        BY <4>1, <4>2, SilentKeeps
    <3>2. CASE r = s
      <4>1. Listens(s) /\ of'[s] = of[s] /\ logs'[of[s]] = logs[of[s]]
        BY <1>22, <2>1, <3>2 DEF Listens, Receive
      <4>2. ASSUME NEW i \in 1..logs[of[s]], Kept(s, i)
            PROVE  Kept(s, i)'
        <5>1. UNCHANGED <<place, of, replayed, pc, line, todo>>
          BY <1>22 DEF Receive
        <5>2. settled[s] \cup Buffered(s) \subseteq settled'[s] \cup Buffered(s)'
          <6>1. buffer[s] \in Seq(Nat) /\ buffer[s] # <<>> /\ buffer'[s] = Tail(buffer[s])
            BY <1>22 DEF Receive, BuffersTyped
          <6>2. Buffered(s) \subseteq Buffered(s)' \cup {Head(buffer[s])}
            BY <6>1, BufferedTail
          <6>3. settled'[s] = settled[s] \cup {Head(buffer[s])}
            BY <1>22 DEF Receive
          <6> QED
            BY ONLY <6>2, <6>3
        <5>3. CASE i \in settled[s] \cup Buffered(s)
          BY ONLY <5>2, <5>3 DEF Kept
        <5>4. CASE place[s] = "replay" /\ i > replayed[s]
          BY ONLY <5>1, <5>4 DEF Kept, Coming
        <5>5. ASSUME NEW h \in Goroutines, Build(h) = of[s], line[h] = i,
                     pc[h] \in {"lookup", "range"} \/ (pc[h] = "send" /\ s \in todo[h])
              PROVE  Kept(s, i)'
          BY ONLY <5>1, <5>5, h \in Goroutines DEF Kept, Coming
        <5> QED
          BY ONLY <4>2, <5>3, <5>4, <5>5, i \in 1..logs[of[s]] DEF Kept, Coming
      <4> QED
        BY <3>2, <4>1, <4>2
    <3> QED
      BY <3>1, <3>2
  <2> QED
    BY <2>1, NoLineKept
<1>23. ASSUME NEW s \in Readers, Leave(s)
       PROVE  NoLineFallsBetween'
  <2>1. ASSUME NEW r \in Readers, Listens(r)'
        PROVE  /\ Listens(r) /\ of'[r] = of[r] /\ logs'[of[r]] = logs[of[r]]
               /\ \A i \in 1..logs[of[r]] : Kept(r, i) => Kept(r, i)'
    <3>3. r # s
      BY <1>23, <2>1 DEF Leave, Listens
    <3>1. Silent(r)
      BY <1>23, <3>3 DEF Silent, Leave
    <3>2. Listens(r) /\ of'[r] = of[r] /\ logs'[of[r]] = logs[of[r]]
      BY <1>23, <2>1, <3>3 DEF Listens, Leave
    <3> QED
      BY <3>1, <3>2, SilentKeeps
  <2> QED
    BY <2>1, NoLineKept
<1>24. ASSUME NEW s \in Readers, NEW b \in Builds, Subscribe(s, b)
       PROVE  NoLineFallsBetween'
  <2>1. ASSUME NEW r \in Readers, Listens(r)'
        PROVE  /\ Listens(r) /\ of'[r] = of[r] /\ logs'[of[r]] = logs[of[r]]
               /\ \A i \in 1..logs[of[r]] : Kept(r, i) => Kept(r, i)'
    <3>3. r # s
      BY <1>24, <2>1 DEF Subscribe, Listens
    <3>1. Silent(r)
      BY <1>24, <3>3 DEF Silent, Subscribe
    <3>2. Listens(r) /\ of'[r] = of[r] /\ logs'[of[r]] = logs[of[r]]
      BY <1>24, <2>1, <3>3 DEF Listens, Subscribe
    <3> QED
      BY <3>1, <3>2, SilentKeeps
  <2> QED
    BY <2>1, NoLineKept
<1> QED
  BY <1>1, <1>2, <1>3, <1>4, <1>5, <1>6, <1>7, <1>8, <1>9, <1>10, <1>11, <1>12, <1>13, <1>14,
     <1>15, <1>16, <1>17, <1>18, <1>19, <1>20, <1>21, <1>22, <1>23, <1>24
     DEF BuilderNext, RunBuild, StreamPipe, Broadcast, StreamLogs, StreamClosed, RangeTorn,
         DeliverToClosed


-----------------------------------------------------------------------------
(* The invariant.                                                          *)

(* It holds before the first build.                                        *)
LEMMA BuilderInvInit == BuilderInit => BuilderInv
<1> SUFFICES ASSUME BuilderInit
             PROVE  BuilderInv
  OBVIOUS
<1> USE Names, BuilderConstants
<1>1. FieldsTyped
  BY DEF BuilderInit, FieldsTyped
<1>2. ScriptsTyped
  <2>1. <<>> \in Seq(Ops)
    OBVIOUS
  <2> QED
    BY <2>1 DEF BuilderInit, ScriptsTyped
<1>3. BuffersTyped
  <2>1. <<>> \in Seq(Nat) /\ Len(<<>>) = 0
    OBVIOUS
  <2> QED
    BY <2>1 DEF BuilderInit, BuffersTyped
<1>4. Locked /\ Dead /\ ClosedOnce /\ PanicNeedsFailure
  BY DEF BuilderInit, Locked, Dead, ClosedOnce, PanicNeedsFailure
<1>5. Courses
  <2>1. \A b \in Builds : Absent(b)
    BY DEF BuilderInit, Absent
  <2> QED
    BY <2>1 DEF BuilderInit, Courses, Course
<1>6. Streams
  BY DEF BuilderInit, Streams, Reader
<1>7. NoLineFallsBetween
  BY DEF BuilderInit, NoLineFallsBetween
<1> QED
  BY <1>1, <1>2, <1>3, <1>4, <1>5, <1>6, <1>7, TypeParts DEF BuilderInv

(* Every step keeps it.                                                    *)
LEMMA BuilderInvStep == BuilderInv /\ [BuilderNext]_bvars => BuilderInv'
<1>1. ASSUME BuilderInv, BuilderNext
      PROVE  BuilderInv'
  <2>1. /\ BuilderTypeOK /\ Locked /\ Dead /\ Courses /\ Streams /\ ClosedOnce
        /\ PanicNeedsFailure /\ NoLineFallsBetween
        /\ ScriptsTyped /\ BuffersTyped /\ FieldsTyped
    BY <1>1, TypeParts DEF BuilderInv
  <2>2. BuilderTypeOK'
    BY <1>1, <2>1, TypeStep
  <2>3. Locked' /\ Dead' /\ Courses'
    BY <1>1, <2>1, LockedStep, DeadStep, CoursesStep
  <2>4. Streams'
    <3>1. CASE Onward
      BY <1>1, <2>1, <3>1, StreamsStep
    <3>2. ASSUME NEW why, Die(why)
          PROVE  Streams'
      BY <3>2 DEF Die, Streams, Reader
    <3> QED
      BY <1>1, <2>1, <3>1, <3>2, OnwardStep
  <2>5. ClosedOnce' /\ PanicNeedsFailure' /\ NoLineFallsBetween'
    BY <1>1, <2>1, ClosedStep, PanicStep, NoLineStep
  <2> QED
    BY <2>2, <2>3, <2>4, <2>5 DEF BuilderInv
<1>2. ASSUME BuilderInv, UNCHANGED bvars
      PROVE  BuilderInv'
  <2>1. BuilderTypeOK' /\ Locked' /\ Dead' /\ ClosedOnce' /\ PanicNeedsFailure'
    BY <1>2 DEF BuilderInv, bvars, storeVars, commandVars, buildVars, readerVars,
                BuilderTypeOK, Locked, Dead, ClosedOnce, PanicNeedsFailure
  <2>2. Courses' /\ Streams'
    BY <1>2 DEF BuilderInv, bvars, storeVars, commandVars, buildVars, readerVars,
                Courses, Course, Absent, Simulates, Commands, GivesUp, Fails, Over, Left,
                Streams, Reader
  <2>3. NoLineFallsBetween'
    BY <1>2 DEF BuilderInv, bvars, storeVars, commandVars, buildVars, readerVars,
                NoLineFallsBetween, Buffered, Coming
  <2> QED
    BY <2>1, <2>2, <2>3 DEF BuilderInv
<1> QED
  BY <1>1, <1>2

(* It holds of every behaviour of the builder.                             *)
LEMMA BuilderInvariant == BuilderSpec => []BuilderInv
BY BuilderInvInit, BuilderInvStep, PTL DEF BuilderSpec

-----------------------------------------------------------------------------
(* The theorems.                                                           *)

(* The variables of the builder have their types, and no channel ever      *)
(* holds more than it takes.                                               *)
THEOREM BuilderTypeCorrect == BuilderSpec => []BuilderTypeOK
<1>1. BuilderInv => BuilderTypeOK
  BY DEF BuilderInv
<1> QED
  BY <1>1, BuilderInvariant, PTL

(* No line of a log falls between what Subscribe replays and what          *)
(* AppendLog broadcasts: it is passed on, in the channel, coming, or was   *)
(* dropped because the channel was full.                                   *)
THEOREM NoLineCorrect == BuilderSpec => []NoLineFallsBetween
<1>1. BuilderInv => NoLineFallsBetween
  BY DEF BuilderInv
<1> QED
  BY <1>1, BuilderInvariant, PTL

(* runBuild reports a build as succeeded only after both readers of the    *)
(* command's pipes are through.                                            *)
THEOREM SucceededCorrect == BuilderSpec => []SucceededHasWhatWasRead
<1>1. BuilderInv => SucceededHasWhatWasRead
  <2> SUFFICES ASSUME BuilderInv, NEW p \in Pipes, status[Build(p)] = "succeeded"
               PROVE  pc[p] \in {"none", "done"}
    BY DEF SucceededHasWhatWasRead
  <2>1. Build(p) \in Builds /\ (p = Out(Build(p)) \/ p = Err(Build(p)))
    BY Names
  <2>2. ScriptsTyped /\ Courses
    BY TypeParts DEF BuilderInv
  <2>3. Over(Out(Build(p))) /\ Over(Err(Build(p)))
    BY <2>1, <2>2, CourseSays, ScriptAt DEF Courses
  <2> QED
    BY <2>1, <2>3 DEF Over
<1> QED
  BY <1>1, BuilderInvariant, PTL

(* CloseSubscribers closes no channel that is closed, although failBuild   *)
(* and runBuild both call it.                                              *)
THEOREM ClosedCorrect == BuilderSpec => []ClosedOnce
<1>1. BuilderInv => ClosedOnce
  BY DEF BuilderInv
<1> QED
  BY <1>1, BuilderInvariant, PTL

(* AppendLog sends to a closed channel, which kills the process, only when *)
(* a command failed and its pipes were not waited for.                     *)
THEOREM PanicCorrect == BuilderSpec => []PanicNeedsFailure
<1>1. BuilderInv => PanicNeedsFailure
  BY DEF BuilderInv
<1> QED
  BY <1>1, BuilderInvariant, PTL
=============================================================================
