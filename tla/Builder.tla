------------------------------- MODULE Builder -------------------------------
(***************************************************************************)
(* The builder service: the goroutines of cmd/builder/main.go on the       *)
(* in-memory store of pkg/builder/store.go.                                *)
(*                                                                         *)
(* A build is run by a goroutine of its own, which in command mode starts  *)
(* a shell command and two more goroutines that read its pipes.  All of    *)
(* them append to the log of the build and broadcast what they append; a   *)
(* caller of GET .../logs registers a buffered channel and reads from it.  *)
(* Every step is what one goroutine does between two waits for the store's *)
(* lock, for a channel or for the command.  A line of a log is named by    *)
(* its index.                                                              *)
(*                                                                         *)
(* PostgresStore.Create lists 10 columns and 11 values, so Postgres takes  *)
(* no build: its updates find no row, its log lines violate the foreign    *)
(* key, and runBuild goes on.  The mirror stays empty and is left out.     *)
(***************************************************************************)
EXTENDS Integers, Sequences, FiniteSets

CONSTANTS
  Builds,     \* POST /api/builds
  Readers,    \* GET  /api/builds/:id/logs
  Modes,      \* which of "simulation", "command" BUILDER_BUILD_COMMAND may select
  Cap,        \* capacity of a subscriber's channel: 32
  Steps,      \* steps of a simulated build: 4
  Outputs,    \* bound: how many lines commands write to <<stdout, stderr>>
  Overlong,   \* the outputs on which a line may be longer than a Scanner takes
  Free        \* no build, no holder of the lock

Pipes == Builds \X {"stdout", "stderr"}
Mains == Builds \X {"main"}
Goroutines == Mains \cup Pipes
Build(g) == g[1]
Main(b) == <<b, "main">>

ASSUME BuilderConstants ==
  /\ Modes \subseteq {"simulation", "command"} /\ Modes # {}
  /\ Cap \in Nat \ {0} /\ Steps \in Nat /\ Outputs \subseteq Nat \X Nat
  /\ Overlong \subseteq {"stdout", "stderr"}
  /\ Free \notin Builds \cup Readers \cup Goroutines
  /\ Readers \cap Goroutines = {}

VARIABLES
  mode,         \* os.Getenv("BUILDER_BUILD_COMMAND"), one for the process
  crash,        \* why the process died, if it did
  lock,         \* who holds MemStore.mu for writing across steps
  status,       \* build.Status; "none" before the build exists
  logs,         \* len(rec.logs)
  subscribers,  \* rec.subscribers
  closed,       \* the channels that were closed
  buffer,       \* what each channel holds
  pc,           \* where each goroutine is
  script,       \* what the main goroutine of a build has still to do
  line,         \* the line a goroutine is broadcasting
  todo,         \* the channels its range loop has not reached
  command,      \* the shell command: "none", "running", "ok", "error"
  unread,       \* lines of its output that nobody has taken out of each pipe
  erred,        \* pipes whose scanner stopped with an error
  place,        \* where each reader's handler is
  of,           \* the build it asked for
  replayed,     \* the lines Subscribe has put into its channel
  settled,      \* the lines it has passed on, or that found its channel full
  registered    \* builds the model registry was told of

storeVars   == <<lock, status, logs, subscribers, closed, buffer>>
commandVars == <<command, unread, erred>>
buildVars   == <<pc, script, line, todo>>
readerVars  == <<place, of, replayed, settled>>
bvars == <<mode, crash, storeVars, commandVars, buildVars, readerVars, registered>>

BuilderTypeOK ==
  /\ mode \in Modes
  /\ crash \in {"no", "closedChannel", "tornSlice"}
  /\ lock \in {Free} \cup Readers \cup Mains
  /\ status \in [Builds -> {"none", "queued", "running", "succeeded", "failed"}]
  /\ logs \in [Builds -> Nat]
  /\ subscribers \in [Builds -> SUBSET Readers]
  /\ closed \subseteq Readers
  /\ buffer \in [Readers -> Seq(Nat)] /\ \A s \in Readers : Len(buffer[s]) <= Cap
  /\ pc \in [Goroutines -> {"none", "ready", "append", "lookup", "range", "send",
                            "closing", "done"}]
  /\ script \in [Builds -> Seq({"log", "running", "start", "wait", "drain", "succeeded",
                                "failed", "close", "notify"})]
  /\ line \in [Goroutines -> Nat]
  /\ todo \in [Goroutines -> SUBSET Readers]
  /\ command \in [Builds -> {"none", "running", "ok", "error"}]
  /\ unread \in [Pipes -> Nat]
  /\ erred \subseteq Pipes
  /\ place \in [Readers -> {"idle", "locked", "replay", "streaming", "done"}]
  /\ of \in [Readers -> Builds \cup {Free}]
  /\ replayed \in [Readers -> Nat]
  /\ settled \in [Readers -> SUBSET Nat]
  /\ registered \subseteq Builds

(* runBuild as the list of its calls, for a build that is simulated, whose *)
(* command ends well, could not be started, or fails: in the last case     *)
(* failBuild and then runBuild itself close the subscribers.               *)
Log(n) == [i \in 1..n |-> "log"]

Succeeding == <<"succeeded", "log", "close", "notify">>

Simulated == <<"log", "running">> \o Log(Steps) \o Succeeding

(* Mutants: one pipe reader is waited for; the build has succeeded when    *)
(* its command has.                                                        *)
CommandedOneDrain == <<"log", "running", "start", "wait", "drain">> \o Succeeding
CommandedUndrained ==
  <<"log", "running", "start", "wait", "succeeded", "drain", "drain", "log", "close",
    "notify">>

Commanded == <<"log", "running", "start", "wait", "drain", "drain">> \o Succeeding

(* Mutants: a status the API does not have; the early return leaves the    *)
(* channels open.                                                          *)
NotStartedMisspelt == <<"log", "error", "close">>
NotStartedUnclosed == <<"log", "failed">>

NotStarted == <<"log", "failed", "close">>

CommandFailed == <<"log", "failed", "close", "close">>

BuilderInit ==
  /\ mode \in Modes
  /\ crash = "no"
  /\ lock = Free
  /\ status = [b \in Builds |-> "none"]
  /\ logs = [b \in Builds |-> 0]
  /\ subscribers = [b \in Builds |-> {}]
  /\ closed = {}
  /\ buffer = [s \in Readers |-> <<>>]
  /\ pc = [g \in Goroutines |-> "none"]
  /\ script = [b \in Builds |-> <<>>]
  /\ line = [g \in Goroutines |-> 0]
  /\ todo = [g \in Goroutines |-> {}]
  /\ command = [b \in Builds |-> "none"]
  /\ unread = [p \in Pipes |-> 0]
  /\ erred = {}
  /\ place = [s \in Readers |-> "idle"]
  /\ of = [s \in Readers |-> Free]
  /\ replayed = [s \in Readers |-> 0]
  /\ settled = [s \in Readers |-> {}]
  /\ registered = {}

Goto(g, l) == pc' = [pc EXCEPT ![g] = l]

Advance(b) == script' = [script EXCEPT ![b] = Tail(@)]

(* The call the main goroutine of b has to make now.                       *)
Calls(b, op) == pc[Main(b)] = "ready" /\ script[b] # <<>> /\ Head(script[b]) = op

-----------------------------------------------------------------------------
(* handleCreateBuild.                                                      *)
Create(b) ==
  /\ crash = "no"
  /\ status[b] = "none"
  /\ lock = Free
  /\ status' = [status EXCEPT ![b] = "queued"]
  /\ Goto(Main(b), "ready")
  /\ script' = [script EXCEPT ![b] = IF mode = "simulation" THEN Simulated ELSE Commanded]
  /\ UNCHANGED <<mode, crash, lock, logs, subscribers, closed, buffer, commandVars,
                 line, todo, readerVars, registered>>

-----------------------------------------------------------------------------
(* appendLog: MemStore.AppendLog looks the record up, appends under the    *)
(* lock ...                                                                *)

Appended(g) ==
  /\ lock = Free
  /\ logs' = [logs EXCEPT ![Build(g)] = @ + 1]
  /\ line' = [line EXCEPT ![g] = logs'[Build(g)]]

AppendOwn(b) ==
  /\ Calls(b, "log")
  /\ Appended(Main(b))
  /\ Goto(Main(b), "lookup")
  /\ Advance(b)
  /\ UNCHANGED <<mode, crash, lock, status, subscribers, closed, buffer, commandVars,
                 todo, readerVars, registered>>

AppendScanned(p) ==
  /\ pc[p] = "append"
  /\ Appended(p)
  /\ Goto(p, "lookup")
  /\ UNCHANGED <<mode, crash, lock, status, subscribers, closed, buffer, commandVars,
                 script, todo, readerVars, registered>>

(* ... and broadcasts: it looks the record up again ...                    *)
Lookup(g) ==
  /\ pc[g] = "lookup"
  /\ lock = Free
  /\ Goto(g, "range")
  /\ UNCHANGED <<mode, crash, storeVars, commandVars, script, line, todo, readerVars,
                 registered>>

(* What the range loop has still to reach; then AppendLog returns.         *)
Reaches(g, rest) ==
  /\ todo' = [todo EXCEPT ![g] = rest]
  /\ line' = [line EXCEPT ![g] = IF rest = {} THEN 0 ELSE @]
  /\ Goto(g, IF rest = {} THEN "ready" ELSE "send")

(* ... reads rec.subscribers when the lock is already released ...         *)
RangeLoop(g) ==
  /\ pc[g] = "range"
  /\ Reaches(g, subscribers[Build(g)])
  /\ UNCHANGED <<mode, crash, storeVars, commandVars, script, readerVars, registered>>

(* The process dies; its memory and its goroutines go with it.             *)
Die(why) ==
  /\ crash' = why
  /\ lock' = Free
  /\ status' = [b \in Builds |-> "none"]
  /\ logs' = [b \in Builds |-> 0]
  /\ subscribers' = [b \in Builds |-> {}]
  /\ closed' = {}
  /\ buffer' = [s \in Readers |-> <<>>]
  /\ pc' = [g \in Goroutines |-> "none"]
  /\ script' = [b \in Builds |-> <<>>]
  /\ line' = [g \in Goroutines |-> 0]
  /\ todo' = [g \in Goroutines |-> {}]
  /\ erred' = {}
  /\ place' = [s \in Readers |-> "done"]
  /\ of' = [s \in Readers |-> Free]
  /\ replayed' = [s \in Readers |-> 0]
  /\ settled' = [s \in Readers |-> {}]
  /\ UNCHANGED <<mode, command, unread, registered>>

(* ... which is a data race with the two functions that assign the slice:  *)
(* the pointer of the one value may come with the length of the other.     *)
RangeTorn(g) ==
  /\ pc[g] = "range"
  /\ \/ \E s \in Readers : place[s] = "locked" /\ of[s] = Build(g)
     \/ pc[Main(Build(g))] = "closing"
  /\ Die("tornSlice")

(* ... and sends to one channel after the other, skipping the full ones.   *)
Deliver(g, s) ==
  /\ pc[g] = "send"
  /\ s \in todo[g]
  /\ s \notin closed
  /\ IF Len(buffer[s]) < Cap
     THEN /\ buffer' = [buffer EXCEPT ![s] = Append(@, line[g])]
          /\ UNCHANGED settled
     ELSE /\ settled' = [settled EXCEPT ![s] = @ \cup {line[g]}]
          /\ UNCHANGED buffer
  /\ Reaches(g, todo[g] \ {s})
  /\ UNCHANGED <<mode, crash, lock, status, logs, subscribers, closed, commandVars,
                 script, place, of, replayed, registered>>

DeliverToClosed(g, s) ==
  /\ pc[g] = "send"
  /\ s \in todo[g] \cap closed
  /\ Die("closedChannel")

-----------------------------------------------------------------------------
(* The other calls of runBuild.                                            *)

(* updateStatus.                                                           *)
UpdateStatus(b) ==
  /\ \E st \in {"running", "succeeded", "failed"} :
       Calls(b, st) /\ status' = [status EXCEPT ![b] = st]
  /\ lock = Free
  /\ Advance(b)
  /\ UNCHANGED <<mode, crash, lock, logs, subscribers, closed, buffer, commandVars, pc,
                 line, todo, readerVars, registered>>

(* A pipe or cmd.Start fails, or the command runs and its pipes are read.  *)
(* What it will print is drawn here: that a line comes late is that it is  *)
(* read late.                                                              *)
StartFails(b) ==
  /\ Calls(b, "start")
  /\ script' = [script EXCEPT ![b] = NotStarted]
  /\ UNCHANGED <<mode, crash, storeVars, commandVars, pc, line, todo, readerVars,
                 registered>>

Start(b) ==
  /\ Calls(b, "start")
  /\ Advance(b)
  /\ command' = [command EXCEPT ![b] = "running"]
  /\ \E o \in Outputs :
       unread' = [unread EXCEPT ![<<b, "stdout">>] = o[1], ![<<b, "stderr">>] = o[2]]
  /\ pc' = [g \in Goroutines |-> IF g \in Pipes /\ Build(g) = b THEN "ready" ELSE pc[g]]
  /\ UNCHANGED <<mode, crash, storeVars, erred, line, todo, readerVars, registered>>

Exit(b) ==
  /\ crash = "no"
  /\ command[b] = "running"
  /\ \E c \in {"ok", "error"} : command' = [command EXCEPT ![b] = c]
  /\ UNCHANGED <<mode, crash, storeVars, unread, erred, buildVars, readerVars, registered>>

(* cmd.Wait returns; from then on the pipes are closed for reading.        *)
Wait(b) ==
  /\ Calls(b, "wait")
  /\ command[b] \in {"ok", "error"}
  /\ script' = [script EXCEPT ![b] = IF command[b] = "ok" THEN Tail(@) ELSE CommandFailed]
  /\ UNCHANGED <<mode, crash, storeVars, commandVars, pc, line, todo, readerVars,
                 registered>>

Waited(b) ==
  /\ command[b] \in {"ok", "error"}
  /\ \A i \in DOMAIN script[b] : script[b][i] # "wait"

-----------------------------------------------------------------------------
(* streamPipe: a line that was written is read, from the pipe or, once     *)
(* that is closed, from what the scanner had taken out of it ...           *)
Scan(p) ==
  /\ pc[p] = "ready"
  /\ p \notin erred
  /\ unread[p] > 0
  /\ unread' = [unread EXCEPT ![p] = @ - 1]
  /\ Goto(p, "append")
  /\ UNCHANGED <<mode, crash, storeVars, command, erred, script, line, todo,
                 readerVars, registered>>

(* ... or the pipe is closed, and what it held is lost, or a line is too   *)
(* long, whether the command is over or not: an error line.                *)
ScanFails(p) ==
  /\ pc[p] = "ready"
  /\ p \notin erred
  /\ Waited(Build(p)) \/ (p[2] \in Overlong /\ unread[p] > 0)
  /\ erred' = erred \cup {p}
  /\ Goto(p, "append")
  /\ UNCHANGED <<mode, crash, storeVars, command, unread, script, line, todo,
                 readerVars, registered>>

(* Mutant: streamPipe returns early when its scanner failed.               *)
ScanEndedUnlessFailed(p) ==
  p \notin erred /\ command[Build(p)] \in {"ok", "error"} /\ unread[p] = 0

(* The end of the file, or the error was logged: the reader meets the main *)
(* goroutine at the unbuffered channel `done`, if that one comes.          *)
ScanEnded(p) ==
  \/ p \in erred
  \/ command[Build(p)] \in {"ok", "error"} /\ unread[p] = 0

Drain(b) ==
  /\ Calls(b, "drain")
  /\ \E p \in Pipes :
       /\ Build(p) = b
       /\ pc[p] = "ready"
       /\ ScanEnded(p)
       /\ Goto(p, "done")
  /\ Advance(b)
  /\ UNCHANGED <<mode, crash, storeVars, commandVars, line, todo, readerVars,
                 registered>>

(* A command that writes to a pipe whose reader has given up waits, once   *)
(* the pipe is full, for as long as the pipe is open: until Wait returns.  *)
Undrained(b) ==
  /\ command[b] = "running"
  /\ \E p \in erred : Build(p) = b /\ unread[p] > 0

-----------------------------------------------------------------------------
(* CloseSubscribers closes the channels, then forgets them.                *)

Close(b) ==
  /\ Calls(b, "close")
  /\ lock = Free
  /\ lock' = Main(b)
  /\ closed' = closed \cup subscribers[b]
  /\ Goto(Main(b), "closing")
  /\ Advance(b)
  /\ UNCHANGED <<mode, crash, status, logs, subscribers, buffer, commandVars, line,
                 todo, readerVars, registered>>

(* Mutant: the closed channels stay in the record.                         *)
ForgetNot(b) ==
  /\ pc[Main(b)] = "closing"
  /\ lock' = Free
  /\ Goto(Main(b), "ready")
  /\ UNCHANGED <<mode, crash, status, logs, subscribers, closed, buffer, commandVars,
                 script, line, todo, readerVars, registered>>

Forget(b) ==
  /\ pc[Main(b)] = "closing"
  /\ subscribers' = [subscribers EXCEPT ![b] = {}]
  /\ lock' = Free
  /\ Goto(Main(b), "ready")
  /\ UNCHANGED <<mode, crash, status, logs, closed, buffer, commandVars, script, line,
                 todo, readerVars, registered>>

(* notifyRegistry: every error is logged and dropped; the end.             *)
Notify(b) ==
  /\ Calls(b, "notify")
  /\ registered' \in {registered, registered \cup {b}}
  /\ Advance(b)
  /\ UNCHANGED <<mode, crash, storeVars, commandVars, pc, line, todo, readerVars>>

-----------------------------------------------------------------------------
(* handleStreamLogs.  Subscribe takes the lock ...                         *)
Subscribe(s, b) ==
  /\ place[s] = "idle"
  /\ crash = "no"
  /\ status[b] # "none"
  /\ lock = Free
  /\ lock' = s
  /\ of' = [of EXCEPT ![s] = b]
  /\ place' = [place EXCEPT ![s] = "locked"]
  /\ UNCHANGED <<mode, crash, status, logs, subscribers, closed, buffer, commandVars,
                 buildVars, replayed, settled, registered>>

(* ... adds the channel to the record ...                                  *)
Register(s) ==
  /\ place[s] = "locked"
  /\ subscribers' = [subscribers EXCEPT ![of[s]] = @ \cup {s}]
  /\ place' = [place EXCEPT ![s] = "replay"]
  /\ UNCHANGED <<mode, crash, lock, status, logs, closed, buffer, commandVars,
                 buildVars, of, replayed, settled, registered>>

(* ... sends it the log so far, waiting while it is full ...               *)
Replay(s) ==
  /\ place[s] = "replay"
  /\ replayed[s] < logs[of[s]]
  /\ Len(buffer[s]) < Cap
  /\ replayed' = [replayed EXCEPT ![s] = @ + 1]
  /\ buffer' = [buffer EXCEPT ![s] = Append(@, replayed'[s])]
  /\ UNCHANGED <<mode, crash, lock, status, logs, subscribers, closed, commandVars,
                 buildVars, place, of, settled, registered>>

(* Mutant: the lock is released before the log is sent.                    *)
SubscribedEarly(s) ==
  /\ place[s] = "replay"
  /\ lock' = Free
  /\ place' = [place EXCEPT ![s] = "streaming"]
  /\ replayed' = [replayed EXCEPT ![s] = 0]
  /\ UNCHANGED <<mode, crash, status, logs, subscribers, closed, buffer, commandVars,
                 buildVars, of, settled, registered>>

(* ... and returns: only now is there somebody who reads the channel.      *)
Subscribed(s) ==
  /\ place[s] = "replay"
  /\ replayed[s] = logs[of[s]]
  /\ lock' = Free
  /\ place' = [place EXCEPT ![s] = "streaming"]
  /\ replayed' = [replayed EXCEPT ![s] = 0]
  /\ UNCHANGED <<mode, crash, status, logs, subscribers, closed, buffer, commandVars,
                 buildVars, of, settled, registered>>

Receive(s) ==
  /\ place[s] = "streaming"
  /\ buffer[s] # <<>>
  /\ buffer' = [buffer EXCEPT ![s] = Tail(@)]
  /\ settled' = [settled EXCEPT ![s] = @ \cup {Head(buffer[s])}]
  /\ UNCHANGED <<mode, crash, lock, status, logs, subscribers, closed, commandVars,
                 buildVars, place, of, replayed, registered>>

(* "[stream closed]", or the caller has hung up.                           *)
Leave(s) ==
  /\ place[s] = "streaming"
  /\ place' = [place EXCEPT ![s] = "done"]
  /\ of' = [of EXCEPT ![s] = Free]
  /\ settled' = [settled EXCEPT ![s] = {}]
  /\ UNCHANGED <<mode, crash, storeVars, commandVars, buildVars, replayed, registered>>

StreamClosed(s) == s \in closed /\ buffer[s] = <<>> /\ Leave(s)

-----------------------------------------------------------------------------
(* What a goroutine does of its own accord.                                *)
RunBuild(b) ==
  \/ AppendOwn(b)
  \/ UpdateStatus(b)
  \/ StartFails(b)
  \/ Start(b)
  \/ Wait(b)
  \/ Drain(b)
  \/ Close(b)
  \/ Forget(b)
  \/ Notify(b)

StreamPipe(p) == Scan(p) \/ ScanFails(p) \/ AppendScanned(p)

Broadcast(g) ==
  \/ Lookup(g)
  \/ RangeLoop(g)
  \/ RangeTorn(g)
  \/ \E s \in Readers : Deliver(g, s) \/ DeliverToClosed(g, s)

Goroutine(g) ==
  \/ g \in Mains /\ RunBuild(Build(g))
  \/ g \in Pipes /\ StreamPipe(g)
  \/ Broadcast(g)

StreamLogs(s) ==
  \/ Register(s)
  \/ Replay(s)
  \/ Subscribed(s)
  \/ Receive(s)
  \/ StreamClosed(s)

BuilderNext ==
  \/ \E b \in Builds : Create(b) \/ RunBuild(b) \/ Exit(b)
  \/ \E p \in Pipes : StreamPipe(p)
  \/ \E g \in Goroutines : Broadcast(g)
  \/ \E s \in Readers : StreamLogs(s) \/ Leave(s) \/ \E b \in Builds : Subscribe(s, b)

(* Goroutines are scheduled, and commands end whose output is taken; a     *)
(* caller comes, stays or hangs up as it likes.                            *)
BuilderSpec ==
  /\ BuilderInit
  /\ [][BuilderNext]_bvars
  /\ \A g \in Goroutines : WF_bvars(Goroutine(g))
  /\ \A s \in Readers : WF_bvars(StreamLogs(s))
  /\ \A b \in Builds : WF_bvars(Exit(b) /\ ~Undrained(b))

-----------------------------------------------------------------------------
(* Properties.                                                             *)

Buffered(s) == {buffer[s][i] : i \in DOMAIN buffer[s]}

(* Line i is on its way to reader s: still to be replayed, or a goroutine  *)
(* of its build that appended it has not reached the channel yet.          *)
Coming(s, i) ==
  \/ place[s] = "replay" /\ i > replayed[s]
  \/ \E g \in Goroutines :
       /\ Build(g) = of[s]
       /\ line[g] = i
       /\ \/ pc[g] \in {"lookup", "range"}
          \/ pc[g] = "send" /\ s \in todo[g]

(* No line falls between the replay of the log and the broadcasts: while a *)
(* reader is registered, and after the close of a build that succeeded,    *)
(* each line of the log was passed on, is in the channel, is coming, or    *)
(* was dropped because the channel was full.                               *)
NoLineFallsBetween ==
  \A s \in Readers :
    /\ place[s] \in {"replay", "streaming"}
    /\ s \in subscribers[of[s]] \/ (s \in closed /\ status[of[s]] = "succeeded")
    => \A i \in 1..logs[of[s]] :
         i \in settled[s] \cup Buffered(s) \/ Coming(s, i)

(* A build that is reported as succeeded has every line in its log that    *)
(* was read from its command, and nobody appends to it behind the main     *)
(* goroutine's back.                                                       *)
SucceededHasWhatWasRead ==
  \A p \in Pipes : status[Build(p)] = "succeeded" =>
    pc[p] \in {"none", "done"}

(* A send on a closed channel, which kills the process, needs a command    *)
(* that failed: only then does the close not come after the last broadcast.*)
PanicNeedsFailure ==
  crash = "closedChannel" => \E b \in Builds : command[b] = "error"

(* A channel is closed once: closing it again would panic.                 *)
ClosedOnce ==
  \A b \in Builds : subscribers[b] \cap closed # {} => pc[Main(b)] = "closing"

(* A reader that holds the lock and waits for a reader of its own channel. *)
Stuck(s) ==
  /\ place[s] = "replay"
  /\ replayed[s] < logs[of[s]]
  /\ Len(buffer[s]) = Cap

Blocked == crash # "no" \/ \E s \in Readers : Stuck(s)

(* Every build comes to its end, also one whose output is read to an error *)
(* - unless the process dies, a reader asks for more lines than its        *)
(* channel takes, or the command still writes where nobody reads any more. *)
EveryBuildEnds ==
  \A b \in Builds :
    status[b] = "queued" ~>
      status[b] \in {"succeeded", "failed"} \/ Blocked \/ Undrained(b)

(* Whoever registers while the build is going on has its stream closed,    *)
(* with the same exceptions.                                               *)
EveryStreamIsClosed ==
  \A s \in Readers, b \in Builds :
    s \in subscribers[b] /\ status[b] \in {"queued", "running"} ~>
      s \in closed \/ Blocked \/ Undrained(b)

(* cmd/builder/main.go:191 "Wait for stream goroutines to finish draining":*)
(* a build that succeeded has logged all its command printed.              *)
SucceededIsDrained ==
  \A p \in Pipes : status[Build(p)] = "succeeded" => unread[p] = 0

=============================================================================
