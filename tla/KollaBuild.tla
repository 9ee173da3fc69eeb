---------------------------- MODULE KollaBuild -----------------------------
(***************************************************************************)
(* The build engine of kolla-build: run_build, the WorkerThreads it        *)
(* starts, the two task queues between them and the tasks themselves.      *)
(*                                                                         *)
(* The main thread starts the build threads and the push threads, polls    *)
(* the unfinished_tasks counters of both queues, and ends the threads with *)
(* a tombstone per queue.  A thread takes tasks from its queue, runs each  *)
(* up to retries + 1 times and queues the follow-ups of a successful one.  *)
(* Building an image is followed by queueing its push and the builds of    *)
(* its children.  Image statuses are shared by all threads and no lock     *)
(* protects them.  Ctrl-C may reach the main thread at any of its steps.   *)
(*                                                                         *)
(* A step of a thread is the code from one access to shared state (a       *)
(* status, a queue, should_stop) to the next.  The container engine and    *)
(* the registry are external: an operation on them may succeed or fail.    *)
(***************************************************************************)
EXTENDS ImageTree, Integers, Sequences, FiniteSets

CONSTANTS
    BuildThreads,       \* conf.threads workers on the build queue
    PushThreads,        \* conf.push_threads workers on the push queue
    Confs,              \* the configurations considered
    AllowedToFail,      \* conf.allowed_to_fail
    MaxInterrupts       \* bound: how often the user presses Ctrl-C

Workers == BuildThreads \cup PushThreads

Conf == [push : BOOLEAN, squash : BOOLEAN, engine : {"docker", "podman"},
         retries : Nat, summary : BOOLEAN]

\* Both thread options are integers with min=1 and retries has min=0 in
\* config.py.
ASSUME BuildAssumption ==
    /\ IsFiniteSet(Images)
    /\ IsFiniteSet(BuildThreads) /\ IsFiniteSet(PushThreads)
    /\ BuildThreads # {} /\ PushThreads # {}
    /\ BuildThreads \cap PushThreads = {}
    /\ Confs \subseteq Conf
    /\ AllowedToFail \subseteq Images
    /\ MaxInterrupts \in Nat

-----------------------------------------------------------------------------
(***************************************************************************)
(* BuildTask, PushIntoQueueTask ("queuepush") and PushTask are a kind and  *)
(* an image; the tombstone is the object that ends a worker.               *)
(***************************************************************************)
Tasks == [kind : {"build", "queuepush", "push"}, image : Images]

Tombstone == [kind |-> "tombstone"]

NoTask == [kind |-> "none"]

Task(k, i) == [kind |-> k, image |-> i]

VARIABLES
    conf,           \* the parsed configuration, never written
    status,         \* image.status, shared by all threads
    queue,          \* queue name -> FIFO of tasks and tombstones
    unfinished,     \* queue name -> queue.unfinished_tasks
    \* the main thread
    mpc,            \* where it is
    started,        \* the workers whose start() was called
    registered,     \* the list "workers": appended after start()
    interrupts,     \* how many KeyboardInterrupts were raised in it
    forced,         \* it stopped waiting for the workers
    report,         \* the cached dictionaries of get_image_statuses
    exitCode,
    \* the workers
    wpc, task, attempt, success, pending, should_stop,
    \* outside kolla
    engine,         \* the images the container engine built in this run
    squashed,       \* those docker-squash flattened
    registry        \* the images whose push the registry accepted

mainVars   == <<mpc, started, registered, interrupts, forced, report, exitCode>>
workerVars == <<wpc, task, attempt, success, pending, should_stop>>
extVars    == <<engine, squashed, registry>>
queueVars  == <<queue, unfinished>>

vars == <<conf, status, queueVars, mainVars, workerVars, extVars>>

QueueNames == {"build", "push"}

QueueOf(w) == IF w \in BuildThreads THEN "build" ELSE "push"

LeftOut == {"unmatched", "skipped", "unbuildable"}

Classes == {"bad", "good", "unmatched", "skipped", "unbuildable",
            "allowed_to_fail"}

NotReported == <<>>

\* The worker is executing task.run().
Running == {"check", "sources", "engine", "squash", "queuepush", "push"}

TypeOK ==
    /\ conf \in Confs
    /\ status \in [Images -> Status]
    /\ queue \in [QueueNames -> Seq(Tasks \cup {Tombstone})]
    /\ unfinished \in [QueueNames -> Int]
    /\ mpc \in {"start", "append", "pollBuild", "pollPush", "tombPush",
                "tombBuild", "join", "stopping", "stopBuild", "waiting",
                "summary", "cleanup", "return", "exited", "killed"}
    /\ started \subseteq Workers
    /\ registered \subseteq started
    /\ interrupts \in 0..MaxInterrupts
    /\ forced \in BOOLEAN
    /\ report \in [Images -> Classes] \cup {NotReported}
    /\ exitCode \in {"none", "0", "1"}
    /\ wpc \in [Workers -> {"new", "loop", "get", "putback", "attempt",
                            "followups", "put", "exited"} \cup Running]
    /\ task \in [Workers -> Tasks \cup {NoTask}]
    /\ attempt \in [Workers -> Nat]
    /\ success \in [Workers -> BOOLEAN]
    /\ pending \in [Workers -> SUBSET Tasks]
    /\ should_stop \in [Workers -> BOOLEAN]
    /\ engine \subseteq Images
    /\ squashed \subseteq Images
    /\ registry \subseteq Images

-----------------------------------------------------------------------------
(***************************************************************************)
(* Queue.put, and the queue KollaWorker.build_queue fills: a build task    *)
(* for each image of the plan that has no parent to build first.           *)
(***************************************************************************)
Put(q, t) ==
    /\ queue' = [queue EXCEPT ![q] = Append(@, t)]
    /\ unfinished' = [unfinished EXCEPT ![q] = @ + 1]

IsRoot(i) == Parent[i] = NoImage \/ status[Parent[i]] = "skipped"

\* Mutation: an image below a skipped one is not taken for a root.
RootsWithoutParent ==
    {i \in Images : status[i] \notin LeftOut /\ Parent[i] = NoImage}

\* Mutation: images with a parent to build first are queued at once.
RootsAll == {i \in Images : status[i] \notin LeftOut}

Roots == {i \in Images : status[i] \notin LeftOut /\ IsRoot(i)}

\* The tasks of the set R, each once, in the order self.images has.
QueuesOf(R) ==
    {q \in [1..Cardinality(R) -> {Task("build", i) : i \in R}] :
        \A j, k \in 1..Cardinality(R) : q[j] = q[k] => j = k}

Init ==
    /\ conf \in Confs
    /\ status \in Plans
    /\ \E q \in QueuesOf(Roots) :
          queue = [n \in QueueNames |-> IF n = "build" THEN q ELSE <<>>]
    /\ unfinished = [n \in QueueNames |->
                        IF n = "build" THEN Cardinality(Roots) ELSE 0]
    /\ mpc = "start"
    /\ started = {} /\ registered = {}
    /\ interrupts = 0 /\ forced = FALSE
    /\ report = NotReported /\ exitCode = "none"
    /\ wpc = [w \in Workers |-> "new"]
    /\ task = [w \in Workers |-> NoTask]
    /\ attempt = [w \in Workers |-> 0]
    /\ success = [w \in Workers |-> FALSE]
    /\ pending = [w \in Workers |-> {}]
    /\ should_stop = [w \in Workers |-> FALSE]
    /\ engine = {} /\ squashed = {} /\ registry = {}

-----------------------------------------------------------------------------
(***************************************************************************)
(* The main thread: start, poll, tombstones, join, report.                 *)
(***************************************************************************)
GoMain(from, to) == mpc = from /\ mpc' = to

NextToStart == IF BuildThreads \subseteq started
               THEN PushThreads \ started
               ELSE BuildThreads \ started

StartWorker(w) ==
    /\ GoMain("start", "append")
    /\ w \in NextToStart
    /\ started' = started \cup {w}
    /\ wpc' = [wpc EXCEPT ![w] = "loop"]
    /\ UNCHANGED <<conf, status, queueVars, registered, interrupts, forced,
                   report, exitCode, task, attempt, success, pending,
                   should_stop, extVars>>

AppendWorker ==
    /\ mpc = "append"
    /\ mpc' = IF started = Workers THEN "pollBuild" ELSE "start"
    /\ registered' = started
    /\ UNCHANGED <<conf, status, queueVars, started, interrupts, forced,
                   report, exitCode, workerVars, extVars>>

(***************************************************************************)
(* "while build_queue.unfinished_tasks or push_queue.unfinished_tasks":    *)
(* two reads, at two moments, the build queue first.  A non-zero counter   *)
(* means three seconds of sleep and both reads again.                      *)
(***************************************************************************)
\* Mutation: the loop asks whether the queue is empty, not whether the
\* tasks taken from it are done.
PollBuildEmpty ==
    /\ GoMain("pollBuild", "pollPush")
    /\ queue["build"] = <<>>
    /\ UNCHANGED <<conf, status, queueVars, started, registered, interrupts,
                   forced, report, exitCode, workerVars, extVars>>

PollBuild ==
    /\ GoMain("pollBuild", "pollPush")
    /\ unfinished["build"] = 0
    /\ UNCHANGED <<conf, status, queueVars, started, registered, interrupts,
                   forced, report, exitCode, workerVars, extVars>>

PollPush ==
    /\ mpc = "pollPush"
    /\ mpc' = IF unfinished["push"] = 0 THEN "tombPush" ELSE "pollBuild"
    /\ UNCHANGED <<conf, status, queueVars, started, registered, interrupts,
                   forced, report, exitCode, workerVars, extVars>>

PutTombstone(from, q, to) ==
    /\ GoMain(from, to)
    /\ Put(q, Tombstone)
    /\ UNCHANGED <<conf, status, started, registered, interrupts, forced,
                   report, exitCode, workerVars, extVars>>

TombstonePush  == PutTombstone("tombPush", "push", "tombBuild")
TombstoneBuild == PutTombstone("tombBuild", "build", "join")

AllExited == \A w \in registered : wpc[w] = "exited"

Join ==
    /\ GoMain("join", "summary")
    /\ AllExited
    /\ UNCHANGED <<conf, status, queueVars, started, registered, interrupts,
                   forced, report, exitCode, workerVars, extVars>>

(***************************************************************************)
(* Ctrl-C.  In the try block it starts the handler (stop the workers, put  *)
(* the tombstones, raise again); in the handler, or while joining, it      *)
(* lands in join_many, which waits for the threads; while join_many        *)
(* waits, it ends the waiting; after that nothing catches it.              *)
(***************************************************************************)
InTry == {"start", "append", "pollBuild", "pollPush", "tombPush", "tombBuild"}

InHandlerOrJoin == {"stopping", "stopBuild", "join"}

Interrupt ==
    /\ interrupts < MaxInterrupts
    /\ mpc \notin {"exited", "killed"}
    /\ interrupts' = interrupts + 1
    /\ mpc' = CASE mpc \in InTry           -> "stopping"
                [] mpc \in InHandlerOrJoin -> "waiting"
                [] mpc = "waiting"         -> "summary"
                [] OTHER                   -> "killed"
    /\ forced' = (forced \/ mpc = "waiting")
    /\ UNCHANGED <<conf, status, queueVars, started, registered, report,
                   exitCode, workerVars, extVars>>

\* "for w in workers: w.should_stop = True"
StopWorker(w) ==
    /\ mpc = "stopping"
    /\ w \in registered
    /\ ~should_stop[w]
    /\ should_stop' = [should_stop EXCEPT ![w] = TRUE]
    /\ UNCHANGED <<conf, status, queueVars, mainVars, wpc, task, attempt,
                   success, pending, extVars>>

StopPushQueue ==
    /\ \A w \in registered : should_stop[w]
    /\ PutTombstone("stopping", "push", "stopBuild")

\* Mutation: only the push queue gets its tombstone.
StopWithoutTombstone ==
    /\ GoMain("stopBuild", "waiting")
    /\ UNCHANGED <<conf, status, queueVars, started, registered, interrupts,
                   forced, report, exitCode, workerVars, extVars>>

StopBuildQueue == PutTombstone("stopBuild", "build", "waiting")

\* Mutation: join_many leaves on Ctrl-C without joining.
WaitNobody ==
    /\ GoMain("waiting", "summary")
    /\ UNCHANGED <<conf, status, queueVars, started, registered, interrupts,
                   forced, report, exitCode, workerVars, extVars>>

WaitWorkers ==
    /\ GoMain("waiting", "summary")
    /\ AllExited
    /\ UNCHANGED <<conf, status, queueVars, started, registered, interrupts,
                   forced, report, exitCode, workerVars, extVars>>

\* t.join(0xffff) returns after 18 hours even if the thread is alive.
JoinTimeout ==
    /\ GoMain("waiting", "summary")
    /\ ~AllExited
    /\ forced' = TRUE
    /\ UNCHANGED <<conf, status, queueVars, started, registered, interrupts,
                   report, exitCode, workerVars, extVars>>

(***************************************************************************)
(* get_image_statuses sorts the images into six dictionaries once and      *)
(* answers from them ever after; summary (if configured) is the first to   *)
(* ask, and main's exit code is 1 if the dictionary of bad images is not   *)
(* empty.                                                                  *)
(***************************************************************************)
Class(i) ==
    CASE status[i] = "built"         -> "good"
      [] status[i] \in LeftOut       -> status[i]
      [] status[i] \notin {"built"} \cup LeftOut ->
            IF i \in AllowedToFail THEN "allowed_to_fail" ELSE "bad"

GetImageStatuses ==
    report' = IF report = NotReported THEN [i \in Images |-> Class(i)]
                                      ELSE report

Summary ==
    /\ GoMain("summary", "cleanup")
    /\ IF conf.summary THEN GetImageStatuses ELSE UNCHANGED report
    /\ UNCHANGED <<conf, status, queueVars, started, registered, interrupts,
                   forced, exitCode, workerVars, extVars>>

\* rmtree of the directory the workers build from
Cleanup ==
    /\ GoMain("cleanup", "return")
    /\ UNCHANGED <<conf, status, queueVars, started, registered, interrupts,
                   forced, report, exitCode, workerVars, extVars>>

Return ==
    /\ GoMain("return", "exited")
    /\ GetImageStatuses
    /\ exitCode' = IF \E i \in Images : report'[i] = "bad" THEN "1" ELSE "0"
    /\ UNCHANGED <<conf, status, queueVars, started, registered, interrupts,
                   forced, workerVars, extVars>>

-----------------------------------------------------------------------------
(***************************************************************************)
(* A worker.  The threads are daemons: they die with the process.          *)
(***************************************************************************)
Alive == mpc \notin {"exited", "killed"}

At(w, from) == Alive /\ wpc[w] = from

Goto(w, to) == wpc' = [wpc EXCEPT ![w] = to]

\* "while not self.should_stop"
Loop(w) ==
    /\ At(w, "loop")
    /\ Goto(w, IF should_stop[w] THEN "exited" ELSE "get")
    /\ UNCHANGED <<conf, status, queueVars, mainVars, task, attempt, success,
                   pending, should_stop, extVars>>

\* queue.get() blocks while the queue is empty.
Get(w) ==
    LET q == QueueOf(w) IN
    /\ At(w, "get")
    /\ queue[q] # <<>>
    /\ queue' = [queue EXCEPT ![q] = Tail(@)]
    /\ IF Head(queue[q]) = Tombstone
       THEN Goto(w, "putback") /\ UNCHANGED task
       ELSE /\ Goto(w, "attempt")
            /\ task' = [task EXCEPT ![w] = Head(queue[q])]
    /\ UNCHANGED <<conf, status, unfinished, mainVars, attempt, success,
                   pending, should_stop, extVars>>

\* "Ensure any other threads also get the tombstone."
PutBack(w) ==
    /\ At(w, "putback")
    /\ Put(QueueOf(w), Tombstone)
    /\ Goto(w, "exited")
    /\ UNCHANGED <<conf, status, mainVars, task, attempt, success, pending,
                   should_stop, extVars>>

\* Mutation: the name of the task is taken for the name of its first step.
RunOfKind(kind) == kind

RunOf(kind) == IF kind = "build" THEN "check" ELSE kind

\* The head of "for attempt in range(self.conf.retries + 1)".
Attempt(w) ==
    /\ At(w, "attempt")
    /\ Goto(w, IF attempt[w] > conf.retries \/ should_stop[w]
               THEN "followups" ELSE RunOf(task[w].kind))
    /\ UNCHANGED <<conf, status, queueVars, mainVars, task, attempt, success,
                   pending, should_stop, extVars>>

(***************************************************************************)
(* What follows task.run(): a success leaves the retry loop; a failure, or *)
(* an exception run() lets through, resets the task and tries again.       *)
(***************************************************************************)
Finish(w, ok) ==
    /\ success' = [success EXCEPT ![w] = ok]
    /\ attempt' = [attempt EXCEPT ![w] = IF ok THEN @ ELSE @ + 1]
    /\ Goto(w, IF ok THEN "followups" ELSE "attempt")
    /\ UNCHANGED <<task, pending, should_stop>>

\* BuildTask.run ends with status s.
EndBuild(w, s) ==
    /\ status' = [status EXCEPT ![task[w].image] = s]
    /\ Finish(w, s \in {"built", "skipped"})

-----------------------------------------------------------------------------
(***************************************************************************)
(* BuildTask.builder, up to the assignment of BUILDING: what is left out   *)
(* is not built, and neither is what has a parent in error.                *)
(***************************************************************************)
\* Mutation: a parent that is only skipped counts as an error.
EntryParentNotBuilt(i) ==
    IF Parent[i] \in Images /\ status[Parent[i]] # "built"
    THEN "parent_error" ELSE "building"

BuilderEntry(i) ==
    IF status[i] \in LeftOut THEN status[i]
    ELSE IF Parent[i] \in Images /\ status[Parent[i]] \in STATUS_ERRORS
         THEN "parent_error"
         ELSE "building"

Check(w) ==
    LET i == task[w].image IN
    /\ At(w, "check")
    /\ IF BuilderEntry(i) = "building"
       THEN /\ status' = [status EXCEPT ![i] = "building"]
            /\ Goto(w, "sources")
            /\ UNCHANGED <<task, attempt, success, pending, should_stop>>
       ELSE EndBuild(w, BuilderEntry(i))
    /\ UNCHANGED <<conf, queueVars, mainVars, extVars>>

(***************************************************************************)
(* process_source for the image and make_an_archive for its plugins and    *)
(* additions.  A download that fails sets ERROR, a directory that cannot   *)
(* be made CONNECTION_ERROR; an archive that is refused, and an exception  *)
(* nobody catches, leave the status at BUILDING.                           *)
(***************************************************************************)
SourcesReady(w) ==
    /\ At(w, "sources")
    /\ Goto(w, "engine")
    /\ UNCHANGED <<conf, status, queueVars, mainVars, task, attempt, success,
                   pending, should_stop, extVars>>

SourcesFail(w) ==
    /\ At(w, "sources")
    /\ \E s \in {"error", "connection_error", "building"} : EndBuild(w, s)
    /\ UNCHANGED <<conf, queueVars, mainVars, extVars>>

\* engine_client.images.build and the stream it returns
EngineBuildOk(w) ==
    LET i == task[w].image IN
    /\ At(w, "engine")
    /\ engine' = engine \cup {i}
    /\ squashed' = squashed \ {i}
    /\ IF conf.squash /\ conf.engine = "docker"
       THEN /\ Goto(w, "squash")
            /\ UNCHANGED <<status, task, attempt, success, pending, should_stop>>
       ELSE EndBuild(w, "built")
    /\ UNCHANGED <<conf, queueVars, mainVars, registry>>

EngineBuildFail(w) ==
    /\ At(w, "engine")
    /\ EndBuild(w, "error")
    /\ UNCHANGED <<conf, queueVars, mainVars, extVars>>

SquashOk(w) ==
    /\ At(w, "squash")
    /\ squashed' = squashed \cup {task[w].image}
    /\ EndBuild(w, "built")
    /\ UNCHANGED <<conf, queueVars, mainVars, engine, registry>>

(***************************************************************************)
(* The parent's last layer is not found: squash sets ERROR and returns,    *)
(* and the else branch of builder's try statement then sets BUILT.         *)
(***************************************************************************)
SquashNoParentLayer(w) ==
    /\ At(w, "squash")
    /\ EndBuild(w, "built")
    /\ UNCHANGED <<conf, queueVars, mainVars, extVars>>

SquashFail(w) ==
    /\ At(w, "squash")
    /\ EndBuild(w, "error")
    /\ UNCHANGED <<conf, queueVars, mainVars, extVars>>

-----------------------------------------------------------------------------
(***************************************************************************)
(* PushIntoQueueTask.run and PushTask.run.                                 *)
(***************************************************************************)
RunQueuePush(w) ==
    /\ At(w, "queuepush")
    /\ Put("push", Task("push", task[w].image))
    /\ Finish(w, TRUE)
    /\ UNCHANGED <<conf, status, mainVars, extVars>>

PushOk(w) ==
    /\ At(w, "push")
    /\ registry' = registry \cup {task[w].image}
    /\ status' = [status EXCEPT ![task[w].image] = "built"]
    /\ Finish(w, TRUE)
    /\ UNCHANGED <<conf, queueVars, mainVars, engine, squashed>>

\* Mutation: a refused push is logged and forgotten.
PushFailIgnored(w) ==
    /\ At(w, "push")
    /\ Finish(w, TRUE)
    /\ UNCHANGED <<conf, status, queueVars, mainVars, extVars>>

PushFail(w) ==
    /\ At(w, "push")
    /\ \E s \in {"push_error", "connection_error"} :
          status' = [status EXCEPT ![task[w].image] = s]
    /\ Finish(w, FALSE)
    /\ UNCHANGED <<conf, queueVars, mainVars, extVars>>

-----------------------------------------------------------------------------
(***************************************************************************)
(* Follow-ups, and task_done in the finally clause.                        *)
(***************************************************************************)
\* Mutation: the push of the image is forgotten.
OnlyChildren(t) ==
    IF t.kind = "build"
    THEN {Task("build", c) :
             c \in {c \in Children(t.image) : status[c] \notin LeftOut}}
    ELSE {}

Followups(t) ==
    IF t.kind = "build"
    THEN (IF conf.push THEN {Task("queuepush", t.image)} ELSE {})
         \cup {Task("build", c) :
                  c \in {c \in Children(t.image) : status[c] \notin LeftOut}}
    ELSE {}

\* Mutation: follow-ups do not wait for a success.
CollectAlways(w) ==
    /\ At(w, "followups")
    /\ pending' = [pending EXCEPT ![w] = Followups(task[w])]
    /\ Goto(w, "put")
    /\ UNCHANGED <<conf, status, queueVars, mainVars, task, attempt, success,
                   should_stop, extVars>>

CollectFollowups(w) ==
    /\ At(w, "followups")
    /\ pending' = [pending EXCEPT ![w] =
                      IF success[w] /\ ~should_stop[w]
                      THEN Followups(task[w]) ELSE {}]
    /\ Goto(w, "put")
    /\ UNCHANGED <<conf, status, queueVars, mainVars, task, attempt, success,
                   should_stop, extVars>>

\* The push comes first in the list, then the children in any order.
PutFollowup(w) ==
    /\ At(w, "put")
    /\ \E t \in pending[w] :
          /\ t.kind = "build" => \A u \in pending[w] : u.kind = "build"
          /\ pending' = [pending EXCEPT ![w] = @ \ {t}]
          /\ Put(QueueOf(w), t)
    /\ UNCHANGED <<conf, status, mainVars, wpc, task, attempt, success,
                   should_stop, extVars>>

\* Mutation: task_done is not in a finally clause, a failure skips it.
TaskDoneOnSuccess(w) ==
    /\ At(w, "put")
    /\ pending[w] = {}
    /\ unfinished' = [unfinished EXCEPT ![QueueOf(w)] =
                          IF success[w] THEN @ - 1 ELSE @]
    /\ Goto(w, "loop")
    /\ task' = [task EXCEPT ![w] = NoTask]
    /\ attempt' = [attempt EXCEPT ![w] = 0]
    /\ success' = [success EXCEPT ![w] = FALSE]
    /\ UNCHANGED <<conf, status, queue, mainVars, pending, should_stop, extVars>>

TaskDone(w) ==
    /\ At(w, "put")
    /\ pending[w] = {}
    /\ unfinished' = [unfinished EXCEPT ![QueueOf(w)] = @ - 1]
    /\ Goto(w, "loop")
    /\ task' = [task EXCEPT ![w] = NoTask]
    /\ attempt' = [attempt EXCEPT ![w] = 0]
    /\ success' = [success EXCEPT ![w] = FALSE]
    /\ UNCHANGED <<conf, status, queue, mainVars, pending, should_stop, extVars>>

-----------------------------------------------------------------------------
BuildRun(w) ==
    \/ Check(w)
    \/ SourcesReady(w)  \/ SourcesFail(w)
    \/ EngineBuildOk(w) \/ EngineBuildFail(w)
    \/ SquashOk(w) \/ SquashNoParentLayer(w) \/ SquashFail(w)

PushRun(w) == RunQueuePush(w) \/ PushOk(w) \/ PushFail(w)

WorkerStep(w) ==
    \/ Loop(w) \/ Get(w) \/ PutBack(w) \/ Attempt(w)
    \/ BuildRun(w) \/ PushRun(w)
    \/ CollectFollowups(w) \/ PutFollowup(w) \/ TaskDone(w)

MainStep ==
    \/ \E w \in Workers : StartWorker(w) \/ StopWorker(w)
    \/ AppendWorker \/ PollBuild \/ PollPush
    \/ TombstonePush \/ TombstoneBuild \/ Join
    \/ StopPushQueue \/ StopBuildQueue \/ WaitWorkers
    \/ Summary \/ Cleanup \/ Return

Terminated == ~Alive /\ UNCHANGED vars

Next ==
    \/ MainStep
    \/ \E w \in Workers : WorkerStep(w)
    \/ Interrupt
    \/ JoinTimeout
    \/ Terminated

Spec == Init /\ [][Next]_vars

(***************************************************************************)
(* The operating system schedules every thread, and builds, downloads and  *)
(* pushes end (in success or failure).  Nothing makes the user press       *)
(* Ctrl-C, and no result depends on the 18-hour timeout.                   *)
(***************************************************************************)
Fairness == WF_vars(MainStep) /\ \A w \in Workers : WF_vars(WorkerStep(w))

FairSpec == Spec /\ Fairness
-----------------------------------------------------------------------------
(***************************************************************************)
(* Properties.                                                             *)
(***************************************************************************)

\* The worker holds a task and has not finished running it.
Holds(w, k, i) == task[w] = Task(k, i)

InRun(w) == wpc[w] \in {"attempt"} \cup Running

(***************************************************************************)
(* image.status is written without a lock by the thread that builds the    *)
(* image and by the thread that pushes it.  No two threads ever work on    *)
(* the same image at once: not two builds, not a build and a push.  (Then  *)
(* the status a task reads back after its own run is the one it wrote.)    *)
(***************************************************************************)
Works(w, i) ==
    InRun(w) /\ (Holds(w, "build", i) \/ Holds(w, "push", i))

OneWriterPerImage ==
    \A v, w \in Workers : \A i \in Images :
        Works(v, i) /\ Works(w, i) => v = w

(***************************************************************************)
(* The engine builds an image FROM its parent: a thread reaches the engine *)
(* only when this run has built the parent, or the filter skipped it       *)
(* because it is expected to exist, or there is none.                      *)
(***************************************************************************)
ParentBuiltFirst ==
    \A w \in Workers :
        wpc[w] \in {"sources", "engine", "squash"} =>
            LET p == Parent[task[w].image] IN
            p = NoImage \/ status[p] = "skipped" \/ p \in engine

(***************************************************************************)
(* The counters run_build polls: until a tombstone is queued or Ctrl-C is  *)
(* pressed, unfinished_tasks of a queue is the number of tasks in it plus  *)
(* the tasks its threads hold.  Python's task_done raises below zero.      *)
(***************************************************************************)
UnfinishedIsExact ==
    interrupts = 0 /\ mpc \in {"start", "append", "pollBuild", "pollPush"} =>
        \A q \in QueueNames :
            unfinished[q] = Len(queue[q])
                + Cardinality({w \in Workers :
                                  QueueOf(w) = q /\ task[w] # NoTask})

(***************************************************************************)
(* Exit code 0 of an uninterrupted kolla-build means what a CI job takes   *)
(* it to mean: every image of the plan that is not allowed to fail was     *)
(* built by the engine, has status BUILT and, with --push, is in the       *)
(* registry.                                                               *)
(***************************************************************************)
ExitZeroIsHonest ==
    mpc = "exited" /\ exitCode = "0" /\ interrupts = 0 =>
        \A i \in Images :
            status[i] \in LeftOut \/ i \in AllowedToFail \/
                /\ status[i] = "built"
                /\ i \in engine
                /\ conf.push => i \in registry

(***************************************************************************)
(* No image of the plan is forgotten: when an uninterrupted run is over,   *)
(* an image whose build was never tried (still MATCHED) has a parent this  *)
(* run failed to build.  Followups and roots queue everything else.        *)
(***************************************************************************)
UntriedOnlyBelowFailure ==
    mpc \in {"summary", "cleanup", "return", "exited"} /\ interrupts = 0 =>
        \A i \in Images : status[i] = "matched" =>
            Parent[i] \in Images /\ status[Parent[i]] \notin {"built", "skipped"}

(***************************************************************************)
(* Children are queued only after their parent was built, so PARENT_ERROR  *)
(* can only come from a push of the parent that failed meanwhile: without  *)
(* --push it never appears.                                                *)
(***************************************************************************)
ParentErrorNeedsPush ==
    ~conf.push => \A i \in Images : status[i] # "parent_error"

(***************************************************************************)
(* kolla.cleanup removes the directory the images are built from.  Unless  *)
(* the user or the timeout forced the exit, no worker that run_build knows *)
(* of is still running a task by then.                                     *)
(***************************************************************************)
CleanupAfterWorkers ==
    mpc \in {"return", "exited"} /\ ~forced =>
        \A w \in registered : wpc[w] \notin Running

(***************************************************************************)
(* A built image is never built again in the same run: from BUILT, only a  *)
(* failing push changes a status.                                          *)
(***************************************************************************)
BuiltIsNotRebuilt ==
    [][\A i \in Images : status[i] = "built" =>
          status'[i] \in {"built", "push_error", "connection_error"}]_vars

(***************************************************************************)
(* With --squash and docker, "cannot squash" is an error: squash logs      *)
(* 'Parent last layer is not found, cannot squash.' and sets the status    *)
(* ERROR.  An image reported BUILT is a squashed one.                      *)
(***************************************************************************)
BuiltIsSquashed ==
    conf.squash /\ conf.engine = "docker" =>
        \A i \in Images : status[i] = "built" => i \in squashed

(***************************************************************************)
(* kolla-build ends: whatever fails, however often it is retried, with or  *)
(* without a Ctrl-C, the process exits.                                    *)
(***************************************************************************)
Termination == <>~Alive

(***************************************************************************)
(* With --push, a built image ends up in the registry or in a push error,  *)
(* unless the run is interrupted: the push is handed from the build queue  *)
(* to the push queue and not lost.                                         *)
(***************************************************************************)
BuiltIsPushed ==
    \A i \in Images :
        (conf.push /\ status[i] = "built") ~>
            \/ i \in registry
            \/ status[i] \in {"push_error", "connection_error"}
            \/ interrupts > 0
=============================================================================
