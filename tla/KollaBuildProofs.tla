-------------------------- MODULE KollaBuildProofs -------------------------
(***************************************************************************)
(* Proofs about the build engine, for any forest of images, any number of  *)
(* threads, any configuration and any number of interrupts.                *)
(***************************************************************************)
EXTENDS KollaBuild, TLAPS, FiniteSetTheorems, SequenceTheorems

-----------------------------------------------------------------------------
(***************************************************************************)
(* Part 1: type correctness.  The type invariant is not inductive alone:   *)
(* "engine \cup {task[w].image}" is a set of images only because a thread  *)
(* that reached the engine holds a task.                                   *)
(***************************************************************************)
Idle == {"new", "loop", "get", "putback", "exited"}

BuildPcs == {"check", "sources", "engine", "squash"}

PcMatchesTask ==
    \A w \in Workers :
        /\ wpc[w] \in Idle => task[w] = NoTask
        /\ wpc[w] \notin Idle => task[w] \in Tasks
        /\ wpc[w] \in BuildPcs => task[w].kind = "build"
        /\ wpc[w] = "queuepush" => task[w].kind = "queuepush"
        /\ wpc[w] = "push" => task[w].kind = "push"
        /\ pending[w] # {} => wpc[w] = "put"
        /\ w \notin started => wpc[w] = "new"

TInv == TypeOK /\ PcMatchesTask

\* A task is made of its kind and its image; tombstone and "no task" are none.
LEMMA TaskShape ==
    /\ \A k \in {"build", "queuepush", "push"}, i \in Images :
          /\ Task(k, i) \in Tasks
          /\ Task(k, i).kind = k /\ Task(k, i).image = i
    /\ \A t \in Tasks : /\ t.kind \in {"build", "queuepush", "push"}
                        /\ t.image \in Images
                        /\ t = Task(t.kind, t.image)
    /\ NoTask \notin Tasks
    /\ Tombstone \notin Tasks
  BY DEF Task, Tasks, NoTask, Tombstone

\* Queue.put keeps the queues well-formed.
LEMMA PutType ==
    ASSUME TypeOK, NEW q \in QueueNames, NEW t \in Tasks \cup {Tombstone},
           Put(q, t)
    PROVE  /\ queue' \in [QueueNames -> Seq(Tasks \cup {Tombstone})]
           /\ unfinished' \in [QueueNames -> Int]
<1>1. Append(queue[q], t) \in Seq(Tasks \cup {Tombstone})
  BY AppendProperties DEF TypeOK
<1> QED BY <1>1 DEF Put, TypeOK

\* The queue build_queue returns is a sequence of build tasks.
LEMMA InitialQueue ==
    ASSUME NEW R \in SUBSET Images, NEW q \in QueuesOf(R)
    PROVE  /\ Cardinality(R) \in Nat
           /\ q \in Seq(Tasks \cup {Tombstone})
           /\ Len(q) = Cardinality(R)
<1>1. Cardinality(R) \in Nat
  BY FS_Subset, FS_CardinalityType, BuildAssumption
<1>2. q \in [1..Cardinality(R) -> Tasks \cup {Tombstone}]
  BY TaskShape DEF QueuesOf
<1> QED BY <1>1, <1>2

LEMMA TInvInit == Init => TInv
<1> SUFFICES ASSUME Init PROVE TInv
  OBVIOUS
<1>1. PICK q \in QueuesOf(Roots) :
          queue = [n \in QueueNames |-> IF n = "build" THEN q ELSE <<>>]
  BY DEF Init
<1>2. /\ Roots \in SUBSET Images
      /\ Cardinality(Roots) \in Nat
      /\ q \in Seq(Tasks \cup {Tombstone})
  BY <1>1, InitialQueue DEF Roots
<1>3. queue \in [QueueNames -> Seq(Tasks \cup {Tombstone})]
  BY <1>1, <1>2, EmptySeq DEF QueueNames
<1>4. unfinished \in [QueueNames -> Int]
  BY <1>2 DEF Init, QueueNames
<1>5. status \in [Images -> Status]
  BY DEF Init, Plans, PlanStatus, Status
<1>6. TypeOK
  <2>1. /\ conf \in Confs /\ mpc = "start" /\ exitCode = "none"
        /\ started = {} /\ registered = {} /\ interrupts = 0 /\ forced = FALSE
        /\ report = NotReported /\ engine = {} /\ squashed = {} /\ registry = {}
    BY DEF Init
  <2>2. /\ wpc \in [Workers -> {"new"}]
        /\ task \in [Workers -> Tasks \cup {NoTask}]
        /\ attempt \in [Workers -> Nat]
        /\ success \in [Workers -> BOOLEAN]
        /\ pending \in [Workers -> SUBSET Tasks]
        /\ should_stop \in [Workers -> BOOLEAN]
    BY DEF Init
  <2>3. wpc \in [Workers -> {"new", "loop", "get", "putback", "attempt",
                             "followups", "put", "exited"} \cup Running]
    BY <2>2
  <2>4. interrupts \in 0..MaxInterrupts
    BY <2>1, BuildAssumption
  <2> QED BY <1>3, <1>4, <1>5, <2>1, <2>2, <2>3, <2>4 DEF TypeOK
<1>7. PcMatchesTask
  BY DEF Init, PcMatchesTask, Idle, BuildPcs
<1> QED BY <1>6, <1>7 DEF TInv
\* An unchanged state keeps the invariant.
LEMMA TInvStutter == TInv /\ UNCHANGED vars => TInv'
  BY DEF TInv, TypeOK, PcMatchesTask, vars, queueVars, mainVars, workerVars,
         extVars

LEMMA TInvMain ==
    ASSUME TInv, MainStep \/ Interrupt \/ JoinTimeout
    PROVE  TInv'
<1> USE DEF TInv, TypeOK, PcMatchesTask, GoMain, queueVars, mainVars,
            workerVars, extVars
<1>1. ASSUME NEW w \in Workers, StartWorker(w) PROVE TInv'
  BY <1>1 DEF StartWorker, NextToStart, Workers, Idle, BuildPcs
<1>2. ASSUME NEW w \in Workers, StopWorker(w) PROVE TInv'
  BY <1>2 DEF StopWorker
<1>3. CASE AppendWorker
  BY <1>3 DEF AppendWorker
<1>4. CASE PollBuild \/ PollPush
  BY <1>4 DEF PollBuild, PollPush
<1>5. CASE TombstonePush \/ TombstoneBuild \/ StopPushQueue \/ StopBuildQueue
  <2>1. \E q \in QueueNames : Put(q, Tombstone)
    BY <1>5 DEF TombstonePush, TombstoneBuild, StopPushQueue, StopBuildQueue,
                PutTombstone, QueueNames
  <2>2. /\ queue' \in [QueueNames -> Seq(Tasks \cup {Tombstone})]
        /\ unfinished' \in [QueueNames -> Int]
    BY <2>1, PutType
  <2> QED
    BY <1>5, <2>2 DEF TombstonePush, TombstoneBuild, StopPushQueue,
                      StopBuildQueue, PutTombstone
<1>6. CASE Join \/ WaitWorkers \/ JoinTimeout \/ Cleanup
  BY <1>6 DEF Join, WaitWorkers, JoinTimeout, Cleanup
<1>7. CASE Interrupt
  <2>1. interrupts' \in 0..MaxInterrupts /\ forced' \in BOOLEAN
    BY <1>7, BuildAssumption DEF Interrupt
  <2>2. mpc' \in {"stopping", "waiting", "summary", "killed"}
    BY <1>7 DEF Interrupt
  <2> QED BY <1>7, <2>1, <2>2 DEF Interrupt
<1>8. CASE Summary \/ Return
  <2>1. [i \in Images |-> Class(i)] \in [Images -> Classes]
    BY DEF Class, Classes, LeftOut
  <2>2. report' \in [Images -> Classes] \cup {NotReported}
    BY <1>8, <2>1 DEF Summary, Return, GetImageStatuses
  <2> QED BY <1>8, <2>2 DEF Summary, Return
<1> QED
  BY <1>1, <1>2, <1>3, <1>4, <1>5, <1>6, <1>7, <1>8 DEF MainStep
\* What a task's run writes keeps the types: the shared part of EndBuild.
LEMMA EndBuildType ==
    ASSUME TInv, NEW w \in Workers, NEW s \in Status, EndBuild(w, s),
           wpc[w] \in BuildPcs
    PROVE  /\ status' \in [Images -> Status]
           /\ success' \in [Workers -> BOOLEAN]
           /\ attempt' \in [Workers -> Nat]
           /\ UNCHANGED <<task, pending, should_stop>>
           /\ \A v \in Workers \ {w} : wpc'[v] = wpc[v]
           /\ wpc'[w] \in {"followups", "attempt"}
<1>1. \E ok \in BOOLEAN : Finish(w, ok)
  <2>1. CASE s \in {"built", "skipped"}
    <3>1. (s \in {"built", "skipped"}) = TRUE
      BY <2>1
    <3>2. Finish(w, TRUE)
      BY <3>1 DEF EndBuild
    <3> QED BY <3>2
  <2>2. CASE s \notin {"built", "skipped"}
    <3>1. (s \in {"built", "skipped"}) = FALSE
      BY <2>2
    <3>2. Finish(w, FALSE)
      BY <3>1 DEF EndBuild
    <3> QED BY <3>2
  <2> QED BY <2>1, <2>2
<1>2. status' \in [Images -> Status]
  BY DEF TInv, TypeOK, EndBuild
<1> QED BY <1>1, <1>2 DEF TInv, TypeOK, Finish, Goto

LEMMA TInvBuildRun ==
    ASSUME TInv, NEW w \in Workers, BuildRun(w) PROVE TInv'
<1> USE DEF At, Goto, TInv, queueVars, mainVars, extVars
<1>1. wpc[w] \in BuildPcs /\ task[w] \in Tasks /\ wpc[w] # "new"
  BY DEF BuildRun, Check, SourcesReady, SourcesFail, EngineBuildOk,
         EngineBuildFail, SquashOk, SquashNoParentLayer, SquashFail,
         PcMatchesTask, BuildPcs, Idle
<1>2. task[w].image \in Images
  BY <1>1, TaskShape
<1>3. CASE \E s \in Status : EndBuild(w, s)
  <2>1. PICK s \in Status : EndBuild(w, s)
    BY <1>3
  <2>2. /\ status' \in [Images -> Status]
        /\ success' \in [Workers -> BOOLEAN]
        /\ attempt' \in [Workers -> Nat]
        /\ UNCHANGED <<task, pending, should_stop>>
        /\ \A v \in Workers \ {w} : wpc'[v] = wpc[v]
        /\ wpc' = [wpc EXCEPT ![w] = wpc'[w]]
        /\ wpc'[w] \in {"followups", "attempt"}
    BY <2>1, <1>1, EndBuildType DEF EndBuild, Finish, TypeOK
  <2>3. /\ UNCHANGED <<conf, queue, unfinished, mpc, started, registered,
                       interrupts, forced, report, exitCode>>
        /\ engine' \subseteq Images /\ squashed' \subseteq Images
        /\ registry' \subseteq Images
    BY <1>2 DEF BuildRun, Check, SourcesReady, SourcesFail, EngineBuildOk,
           EngineBuildFail, SquashOk, SquashNoParentLayer, SquashFail, TypeOK
  <2>4. TypeOK'
    BY <2>2, <2>3 DEF TypeOK
  <2>5. PcMatchesTask'
    BY <2>2, <2>3, <1>1 DEF PcMatchesTask, Idle, BuildPcs, TypeOK
  <2> QED BY <2>4, <2>5
<1>4. CASE ~\E s \in Status : EndBuild(w, s)
  <2>1. /\ UNCHANGED <<conf, queue, unfinished, mpc, started, registered,
                       interrupts, forced, report, exitCode, task, attempt,
                       success, pending, should_stop, registry>>
        /\ status' \in [Images -> Status]
        /\ engine' \subseteq Images /\ squashed' \subseteq Images
        /\ \E pc \in BuildPcs : wpc' = [wpc EXCEPT ![w] = pc]
    BY <1>1, <1>2, <1>4
       DEF BuildRun, Check, SourcesReady, SourcesFail, EngineBuildOk,
           EngineBuildFail, SquashOk, SquashNoParentLayer, SquashFail, TypeOK,
           Status, BuilderEntry, LeftOut, BuildPcs
  <2>2. TypeOK'
    BY <2>1 DEF TypeOK, BuildPcs, Running
  <2>3. PcMatchesTask'
    BY <2>1, <1>1 DEF PcMatchesTask, Idle, BuildPcs, TypeOK
  <2> QED BY <2>2, <2>3
<1> QED BY <1>3, <1>4

LEMMA TInvWorker ==
    ASSUME TInv, NEW w \in Workers, WorkerStep(w) PROVE TInv'
<1> USE DEF At, Goto, TInv, queueVars, mainVars, extVars
<1>q. QueueOf(w) \in QueueNames /\ "push" \in QueueNames
  BY DEF QueueOf, QueueNames
<1>1. CASE Loop(w)
  BY <1>1 DEF Loop, TypeOK, PcMatchesTask, Idle, BuildPcs
<1>2. CASE Get(w)
  <2>1. queue[QueueOf(w)] # <<>> /\ wpc[w] = "get"
    BY <1>2 DEF Get
  <2>2. /\ Head(queue[QueueOf(w)]) \in Tasks \cup {Tombstone}
        /\ Tail(queue[QueueOf(w)]) \in Seq(Tasks \cup {Tombstone})
    BY <2>1, <1>q, HeadTailProperties DEF TypeOK
  <2>3. queue' \in [QueueNames -> Seq(Tasks \cup {Tombstone})]
    BY <1>2, <2>2, <1>q DEF Get, TypeOK
  <2>4. CASE Head(queue[QueueOf(w)]) = Tombstone
    <3>1. TypeOK'
      BY <1>2, <2>3, <2>4 DEF Get, TypeOK
    <3>2. PcMatchesTask'
      BY <1>2, <2>1, <2>4 DEF Get, TypeOK, PcMatchesTask, Idle, BuildPcs
    <3> QED BY <3>1, <3>2
  <2>5. CASE Head(queue[QueueOf(w)]) # Tombstone
    <3>1. TypeOK'
      BY <1>2, <2>2, <2>3, <2>5 DEF Get, TypeOK
    <3>2. PcMatchesTask'
      BY <1>2, <2>1, <2>2, <2>5 DEF Get, TypeOK, PcMatchesTask, Idle, BuildPcs
    <3> QED BY <3>1, <3>2
  <2> QED BY <2>4, <2>5
<1>3. CASE PutBack(w)
  <2>1. /\ queue' \in [QueueNames -> Seq(Tasks \cup {Tombstone})]
        /\ unfinished' \in [QueueNames -> Int]
    BY <1>3, <1>q, PutType DEF PutBack
  <2> QED BY <1>3, <2>1 DEF PutBack, TypeOK, PcMatchesTask, Idle, BuildPcs
<1>4. CASE Attempt(w)
  <2>1. wpc[w] = "attempt" /\ task[w] \in Tasks
    BY <1>4 DEF Attempt, PcMatchesTask, Idle
  <2>2. task[w].kind \in {"build", "queuepush", "push"}
    BY <2>1, TaskShape
  <2>3. \/ wpc' = [wpc EXCEPT ![w] = "followups"]
        \/ wpc' = [wpc EXCEPT ![w] = RunOf(task[w].kind)]
    BY <1>4 DEF Attempt
  <2> QED
    BY <1>4, <2>1, <2>2, <2>3
       DEF Attempt, RunOf, TypeOK, PcMatchesTask, Idle, BuildPcs, Running
<1>5. CASE BuildRun(w)
  BY <1>5, TInvBuildRun
<1>6. CASE RunQueuePush(w)
  <2>1. wpc[w] = "queuepush" /\ task[w] \in Tasks
    BY <1>6 DEF RunQueuePush, PcMatchesTask, Idle
  <2>2. /\ queue' \in [QueueNames -> Seq(Tasks \cup {Tombstone})]
        /\ unfinished' \in [QueueNames -> Int]
    BY <1>6, <2>1, <1>q, PutType, TaskShape DEF RunQueuePush
  <2> QED
    BY <1>6, <2>1, <2>2
       DEF RunQueuePush, Finish, TypeOK, PcMatchesTask, Idle, BuildPcs
<1>7. CASE PushOk(w) \/ PushFail(w)
  <2>1. wpc[w] = "push" /\ task[w] \in Tasks /\ task[w].image \in Images
    BY <1>7, TaskShape DEF PushOk, PushFail, PcMatchesTask, Idle
  <2>2. /\ status' \in [Images -> Status]
        /\ registry' \subseteq Images
    BY <1>7, <2>1 DEF PushOk, PushFail, TypeOK, Status
  <2>3. /\ UNCHANGED <<conf, queue, unfinished, mpc, started, registered,
                       interrupts, forced, report, exitCode, task, pending,
                       should_stop, engine, squashed>>
        /\ \E ok \in BOOLEAN : Finish(w, ok)
    BY <1>7 DEF PushOk, PushFail, Finish
  <2> QED
    BY <2>1, <2>2, <2>3 DEF Finish, TypeOK, PcMatchesTask, Idle, BuildPcs
<1>8. CASE CollectFollowups(w)
  <2>1. wpc[w] = "followups" /\ task[w] \in Tasks
    BY <1>8 DEF CollectFollowups, PcMatchesTask, Idle
  <2>2. Followups(task[w]) \subseteq Tasks
    BY <2>1, TaskShape DEF Followups, Children
  <2> QED
    BY <1>8, <2>1, <2>2
       DEF CollectFollowups, TypeOK, PcMatchesTask, Idle, BuildPcs
<1>9. CASE PutFollowup(w)
  <2>1. PICK t \in pending[w] :
            /\ pending' = [pending EXCEPT ![w] = @ \ {t}]
            /\ Put(QueueOf(w), t)
    BY <1>9 DEF PutFollowup
  <2>2. /\ queue' \in [QueueNames -> Seq(Tasks \cup {Tombstone})]
        /\ unfinished' \in [QueueNames -> Int]
    BY <2>1, <1>q, PutType DEF TypeOK
  <2> QED
    BY <1>9, <2>1, <2>2 DEF PutFollowup, TypeOK, PcMatchesTask
<1>10. CASE TaskDone(w)
  BY <1>10, <1>q DEF TaskDone, TypeOK, PcMatchesTask, Idle, BuildPcs
<1> HIDE DEF At, Goto, TInv, queueVars, mainVars, extVars
<1> QED
  BY <1>1, <1>2, <1>3, <1>4, <1>5, <1>6, <1>7, <1>8, <1>9, <1>10
     DEF WorkerStep, PushRun

LEMMA TInvStep == TInv /\ [Next]_vars => TInv'
  BY TInvStutter, TInvMain, TInvWorker DEF Next, Terminated

(***************************************************************************)
(* In every reachable state of the build engine each variable holds a      *)
(* value of its type: no thread ever runs with something that is not a     *)
(* task, or past the end of run_build's program.                           *)
(***************************************************************************)
THEOREM TypeCorrect == Spec => []TypeOK
<1>1. TInv => TypeOK
  BY DEF TInv
<1> QED BY TInvInit, TInvStep, <1>1, PTL DEF Spec
-----------------------------------------------------------------------------
(***************************************************************************)
(* Part 2: one thread per image, parents first.                            *)
(*                                                                         *)
(* Neither property is inductive.  That two threads never build the same   *)
(* image follows from a task being in one place only: in a queue, among    *)
(* the follow-ups a thread has yet to queue, or in a thread's hands.  That *)
(* a follow-up is not a second copy follows from the tree: before a thread *)
(* has collected the follow-ups of an image, no task for a child of it,    *)
(* and no push of it, exists anywhere.  No history is needed: what has     *)
(* happened to an image can be read off its status.                        *)
(***************************************************************************)
QueuedTasks ==
    {t \in Tasks : \E q \in QueueNames : \E k \in 1..Len(queue[q]) :
                      queue[q][k] = t}

Waiting(t) == t \in QueuedTasks \/ \E w \in Workers : t \in pending[w]

Held(t) == \E w \in Workers : task[w] = t

Present(t) == Waiting(t) \/ Held(t)

Planned(i) == status[i] \notin LeftOut

Tried(i) == status[i] \notin LeftOut \cup {"matched"}

\* The build of i succeeded and its follow-ups have been collected.
Collected(i) ==
    /\ Tried(i)
    /\ i \in engine
    /\ \A w \in Workers : task[w] = Task("build", i) => wpc[w] = "put"

Ready(i) ==
    \/ Parent[i] = NoImage
    \/ status[Parent[i]] = "skipped"
    \/ Parent[i] \in Images /\ Collected(Parent[i])

\* No task is twice in the queues, nor in two places.
QueueDistinct ==
    \A q, r \in QueueNames :
        \A j \in 1..Len(queue[q]), k \in 1..Len(queue[r]) :
            queue[q][j] \in Tasks /\ queue[q][j] = queue[r][k]
                => q = r /\ j = k

OnePlace ==
    \A t \in Tasks : \A v \in Workers :
        /\ t \in QueuedTasks => task[v] # t /\ t \notin pending[v]
        /\ \A w \in Workers :
              /\ task[v] = t /\ task[w] = t => v = w
              /\ t \in pending[v] /\ t \in pending[w] => v = w
              /\ t \in pending[v] => task[w] # t

\* A build that waits has not been tried before.
WaitingIsFresh ==
    \A i \in Images : Waiting(Task("build", i)) => status[i] = "matched"

\* Builds are of planned images whose parent is done with.
BuildsAreReady ==
    \A i \in Images : Present(Task("build", i)) \/ Tried(i)
                         => Planned(i) /\ Ready(i)

\* Pushes are of images whose build is done with.
PushesAreCollected ==
    \A i \in Images : Present(Task("queuepush", i)) \/ Present(Task("push", i))
                         => Collected(i)

\* A push that is still to be queued is not queued already.
PushNotYetQueued ==
    \A i \in Images :
        \/ Waiting(Task("queuepush", i))
        \/ \E w \in Workers : /\ task[w] = Task("queuepush", i)
                              /\ wpc[w] \in {"attempt", "queuepush"}
        => ~Present(Task("push", i))

\* success tells the truth, and is reset between tasks.
SuccessIsTrue ==
    \A w \in Workers :
        /\ wpc[w] \notin {"followups", "put"} => ~success[w]
        /\ wpc[w] = "squash" => task[w].image \in engine
        /\ success[w] /\ task[w].kind = "build" =>
              Tried(task[w].image) /\ task[w].image \in engine

OneInv ==
    /\ QueueDistinct
    /\ OnePlace
    /\ WaitingIsFresh
    /\ BuildsAreReady
    /\ PushesAreCollected
    /\ PushNotYetQueued
    /\ SuccessIsTrue

BInv == TInv /\ OneInv
-----------------------------------------------------------------------------
\* What Queue.put does to the set of queued tasks.
LEMMA PutQueued ==
    ASSUME TypeOK, NEW q \in QueueNames, NEW t \in Tasks \cup {Tombstone},
           Put(q, t)
    PROVE  /\ QueuedTasks' = QueuedTasks \cup ({t} \cap Tasks)
           /\ QueueDistinct /\ t \notin QueuedTasks => QueueDistinct'
<1> DEFINE Q == queue[q]
<1>1. Q \in Seq(Tasks \cup {Tombstone})
  BY DEF TypeOK
<1>2. queue' = [queue EXCEPT ![q] = Append(Q, t)]
  BY DEF Put
<1>3. /\ queue'[q] = Append(Q, t)
      /\ \A r \in QueueNames \ {q} : queue'[r] = queue[r]
  BY <1>2 DEF TypeOK
<1>4. /\ Len(queue'[q]) = Len(Q) + 1
      /\ \A k \in 1..Len(Q) : queue'[q][k] = Q[k]
      /\ queue'[q][Len(Q) + 1] = t
  BY <1>1, <1>3, AppendProperties
<1>5. Len(Q) \in Nat
  BY <1>1, LenProperties
<1>6. \A u \in Tasks : u \in QueuedTasks' <=> u \in QueuedTasks \/ u = t
  <2> TAKE u \in Tasks
  <2>1. ASSUME u \in QueuedTasks' PROVE u \in QueuedTasks \/ u = t
    <3>0. PICK r \in QueueNames : \E k \in 1..Len(queue'[r]) : queue'[r][k] = u
      BY <2>1 DEF QueuedTasks
    <3>1. PICK k \in 1..Len(queue'[r]) : queue'[r][k] = u
      BY <3>0
    <3>2. CASE r # q
      BY <1>3, <3>1, <3>2 DEF QueuedTasks
    <3>3. CASE r = q
      BY <1>4, <1>5, <3>1, <3>3 DEF QueuedTasks
    <3> QED BY <3>2, <3>3
  <2>2. ASSUME u \in QueuedTasks PROVE u \in QueuedTasks'
    <3>0. PICK r \in QueueNames : \E k \in 1..Len(queue[r]) : queue[r][k] = u
      BY <2>2 DEF QueuedTasks
    <3>1. PICK k \in 1..Len(queue[r]) : queue[r][k] = u
      BY <3>0
    <3>2. k \in 1..Len(queue'[r]) /\ queue'[r][k] = u
      BY <1>3, <1>4, <1>5, <3>1
    <3> QED BY <3>1, <3>2 DEF QueuedTasks
  <2>3. ASSUME u = t PROVE u \in QueuedTasks'
    <3>1. Len(Q) + 1 \in 1..Len(queue'[q])
      BY <1>4, <1>5
    <3> QED BY <1>4, <2>3, <3>1 DEF QueuedTasks
  <2> QED BY <2>1, <2>2, <2>3
<1>7. ASSUME QueueDistinct, t \notin QueuedTasks PROVE QueueDistinct'
  <2> SUFFICES ASSUME NEW r1 \in QueueNames, NEW r2 \in QueueNames,
                      NEW j \in 1..Len(queue'[r1]),
                      NEW k \in 1..Len(queue'[r2]),
                      queue'[r1][j] \in Tasks, queue'[r1][j] = queue'[r2][k]
               PROVE  r1 = r2 /\ j = k
    BY DEF QueueDistinct
  <2> DEFINE New(r, n) == r = q /\ n = Len(Q) + 1
  <2>1. ASSUME NEW r \in QueueNames, NEW n \in 1..Len(queue'[r]), ~New(r, n)
        PROVE  n \in 1..Len(queue[r]) /\ queue'[r][n] = queue[r][n]
    <3>1. CASE r # q
      BY <1>3, <3>1
    <3>2. CASE r = q
      <4>1. n \in 1..(Len(Q) + 1) /\ n # Len(Q) + 1
        BY <1>4, <2>1, <3>2
      <4> QED BY <1>4, <1>5, <3>2, <4>1
    <3> QED BY <3>1, <3>2
  <2>2. ASSUME NEW r \in QueueNames, NEW n \in 1..Len(queue'[r]), New(r, n)
        PROVE  queue'[r][n] = t
    BY <1>4, <2>2
  <2>3. CASE ~New(r1, j) /\ ~New(r2, k)
    BY <1>7, <2>1, <2>3 DEF QueueDistinct
  <2> HIDE DEF New
  <2>7. ASSUME NEW r \in QueueNames, NEW n \in 1..Len(queue'[r]), ~New(r, n),
               queue'[r][n] = t, t \in Tasks
        PROVE  FALSE
    <3>1. n \in 1..Len(queue[r]) /\ queue[r][n] = t
      BY <2>1, <2>7
    <3>2. t \in QueuedTasks
      BY <2>7, <3>1 DEF QueuedTasks
    <3> QED BY <1>7, <3>2
  <2>4. CASE New(r1, j) /\ ~New(r2, k)
    BY <2>2, <2>4, <2>7
  <2>5. CASE ~New(r1, j) /\ New(r2, k)
    BY <2>2, <2>5, <2>7
  <2>6. CASE New(r1, j) /\ New(r2, k)
    BY <2>6 DEF New
  <2> QED BY <2>3, <2>4, <2>5, <2>6
<1>8. QueuedTasks \subseteq Tasks /\ QueuedTasks' \subseteq Tasks
  BY DEF QueuedTasks
<1> QED BY <1>6, <1>7, <1>8

LEMMA HeadAndTail ==
    ASSUME TypeOK, NEW q \in QueueNames, queue[q] # <<>>
    PROVE  /\ Len(queue[q]) \in Nat /\ Len(queue[q]) # 0
           /\ Head(queue[q]) = queue[q][1]
           /\ Len(Tail(queue[q])) = Len(queue[q]) - 1
           /\ \A k \in 1..Len(Tail(queue[q])) :
                 Tail(queue[q])[k] = queue[q][k + 1]
<1>1. queue[q] \in Seq(Tasks \cup {Tombstone})
  BY DEF TypeOK
<1> QED BY <1>1, EmptySeq, LenProperties, HeadTailProperties

\* What Queue.get does to it.
LEMMA GetQueued ==
    ASSUME TypeOK, QueueDistinct, NEW q \in QueueNames, queue[q] # <<>>,
           queue' = [queue EXCEPT ![q] = Tail(@)]
    PROVE  /\ QueueDistinct'
           /\ Head(queue[q]) \in Tasks => Head(queue[q]) \in QueuedTasks
           /\ QueuedTasks' = QueuedTasks \ {Head(queue[q])}
<1> DEFINE Q == queue[q]
<1>1. Q \in Seq(Tasks \cup {Tombstone})
  BY DEF TypeOK
<1>2. /\ queue'[q] = Tail(Q)
      /\ \A r \in QueueNames \ {q} : queue'[r] = queue[r]
  BY DEF TypeOK
<1>3. /\ Len(Q) \in Nat /\ Len(Q) > 0
      /\ Q[1] = Head(Q)
      /\ Len(queue'[q]) = Len(Q) - 1
      /\ \A k \in 1..Len(queue'[q]) : queue'[q][k] = Q[k + 1]
  <2>1. /\ Len(Q) \in Nat /\ Len(Q) # 0
        /\ Head(Q) = Q[1]
        /\ Len(Tail(Q)) = Len(Q) - 1
        /\ \A k \in 1..Len(Tail(Q)) : Tail(Q)[k] = Q[k + 1]
    BY HeadAndTail
  <2>2. Len(Q) > 0
    <3>1. \A n \in Nat : n # 0 => n > 0
      OBVIOUS
    <3> HIDE DEF Q
    <3> QED BY <2>1, <3>1
  <2> HIDE DEF Q
  <2> QED BY <1>2, <2>1, <2>2, Zenon
<1> DEFINE Old(r, n) == IF r = q THEN n + 1 ELSE n
<1>4. ASSUME NEW r \in QueueNames, NEW n \in 1..Len(queue'[r])
      PROVE  /\ Old(r, n) \in 1..Len(queue[r])
             /\ queue'[r][n] = queue[r][Old(r, n)]
             /\ r = q => Old(r, n) # 1
  <2>1. CASE r # q
    BY <1>2, <2>1
  <2>2. CASE r = q
    <3>1. n \in 1..(Len(Q) - 1) /\ queue'[q][n] = Q[n + 1]
      BY <1>3, <2>2
    <3>2. n + 1 \in 1..Len(Q) /\ n + 1 # 1
      BY <1>3, <3>1
    <3> QED BY <2>2, <3>1, <3>2
  <2> QED BY <2>1, <2>2
<1>5. QueueDistinct'
  <2> SUFFICES ASSUME NEW r1 \in QueueNames, NEW r2 \in QueueNames,
                      NEW j \in 1..Len(queue'[r1]),
                      NEW k \in 1..Len(queue'[r2]),
                      queue'[r1][j] \in Tasks, queue'[r1][j] = queue'[r2][k]
               PROVE  r1 = r2 /\ j = k
    BY DEF QueueDistinct
  <2>1. r1 = r2 /\ Old(r1, j) = Old(r2, k)
    <3>1. /\ Old(r1, j) \in 1..Len(queue[r1])
          /\ Old(r2, k) \in 1..Len(queue[r2])
          /\ queue[r1][Old(r1, j)] \in Tasks
          /\ queue[r1][Old(r1, j)] = queue[r2][Old(r2, k)]
      <4> HIDE DEF Old
      <4>1. /\ Old(r1, j) \in 1..Len(queue[r1])
            /\ queue'[r1][j] = queue[r1][Old(r1, j)]
        BY <1>4
      <4>2. /\ Old(r2, k) \in 1..Len(queue[r2])
            /\ queue'[r2][k] = queue[r2][Old(r2, k)]
        BY <1>4
      <4> QED BY <4>1, <4>2
    <3>2. \A a \in 1..Len(queue[r1]), b \in 1..Len(queue[r2]) :
             queue[r1][a] \in Tasks /\ queue[r1][a] = queue[r2][b]
                => r1 = r2 /\ a = b
      BY DEF QueueDistinct
    <3> HIDE DEF Old
    <3> QED BY <3>1, <3>2
  <2>2. j \in Int /\ k \in Int
    OBVIOUS
  <2> QED BY <2>1, <2>2
<1>6. Head(Q) \in Tasks => Head(Q) \in QueuedTasks
  <2>1. 1 \in 1..Len(Q)
    BY <1>3
  <2> QED BY <1>3, <2>1 DEF QueuedTasks
<1>7. \A u \in Tasks : u \in QueuedTasks' <=> u \in QueuedTasks /\ u # Head(Q)
  <2> TAKE u \in Tasks
  <2>1. ASSUME u \in QueuedTasks' PROVE u \in QueuedTasks /\ u # Head(Q)
    <3>0. PICK r \in QueueNames : \E n \in 1..Len(queue'[r]) : queue'[r][n] = u
      BY <2>1 DEF QueuedTasks
    <3>1. PICK n \in 1..Len(queue'[r]) : queue'[r][n] = u
      BY <3>0
    <3>2. u \in QueuedTasks
      BY <1>4, <3>1 DEF QueuedTasks
    <3>3. u # Head(Q)
      <4>1. SUFFICES ASSUME u = Head(Q) PROVE FALSE
        OBVIOUS
      <4>2. 1 \in 1..Len(Q)
        BY <1>3
      <4>3. queue[q][1] \in Tasks /\ queue[q][1] = queue[r][Old(r, n)]
        BY <1>3, <1>4, <3>1, <4>1
      <4>4. q = r /\ 1 = Old(r, n)
        BY <1>4, <4>2, <4>3 DEF QueueDistinct
      <4> QED BY <1>4, <4>4
    <3> QED BY <3>2, <3>3
  <2>2. ASSUME u \in QueuedTasks, u # Head(Q) PROVE u \in QueuedTasks'
    <3>0. PICK r \in QueueNames : \E n \in 1..Len(queue[r]) : queue[r][n] = u
      BY <2>2 DEF QueuedTasks
    <3>1. PICK n \in 1..Len(queue[r]) : queue[r][n] = u
      BY <3>0
    <3>2. CASE r # q
      BY <1>2, <3>1, <3>2 DEF QueuedTasks
    <3>3. CASE r = q
      <4>1. n # 1
        BY <1>3, <2>2, <3>1, <3>3
      <4>2. n - 1 \in 1..Len(queue'[q]) /\ queue'[q][n - 1] = u
        BY <1>3, <3>1, <3>3, <4>1
      <4> QED BY <4>2 DEF QueuedTasks
    <3> QED BY <3>2, <3>3
  <2> QED BY <2>1, <2>2
<1>8. QueuedTasks \subseteq Tasks /\ QueuedTasks' \subseteq Tasks
  BY DEF QueuedTasks
<1> QED BY <1>5, <1>6, <1>7, <1>8
-----------------------------------------------------------------------------
\* At the start only the roots of the plan are queued.
LEMMA OneInvInit == Init => OneInv
<1> SUFFICES ASSUME Init PROVE OneInv
  OBVIOUS
<1>1. PICK q \in QueuesOf(Roots) :
          queue = [n \in QueueNames |-> IF n = "build" THEN q ELSE <<>>]
  BY DEF Init
<1>2. Roots \in SUBSET Images /\ Cardinality(Roots) \in Nat
  BY InitialQueue DEF Roots
<1>3. /\ q \in [1..Cardinality(Roots) -> {Task("build", i) : i \in Roots}]
      /\ \A j, k \in 1..Cardinality(Roots) : q[j] = q[k] => j = k
      /\ Len(q) = Cardinality(Roots)
  BY <1>2, InitialQueue DEF QueuesOf
<1>4. /\ queue["build"] = q
      /\ queue["push"] = <<>> /\ Len(queue["push"]) = 0
      /\ QueueNames = {"build", "push"}
  BY <1>1, EmptySeq DEF QueueNames
<1>5. QueueDistinct
  BY <1>2, <1>3, <1>4 DEF QueueDistinct
<1>6. \A t \in QueuedTasks : \E i \in Roots : t = Task("build", i)
  BY <1>2, <1>3, <1>4 DEF QueuedTasks
<1>7. /\ \A w \in Workers : /\ wpc[w] = "new" /\ task[w] = NoTask
                            /\ success[w] = FALSE /\ pending[w] = {}
      /\ status \in [Images -> PlanStatus]
  BY DEF Init, Plans
<1>8. \A i \in Images : status[i] \in LeftOut \/ status[i] = "matched"
  BY <1>7 DEF LeftOut, PlanStatus
<1>9. \A t \in Tasks : Present(t) => t \in QueuedTasks
  BY <1>7, TaskShape DEF Present, Waiting, Held
<1>10. \A i \in Images : /\ Present(Task("build", i)) => i \in Roots
                         /\ ~Present(Task("queuepush", i))
                         /\ ~Present(Task("push", i))
  <2> TAKE i \in Images
  <2>1. \A k \in {"build", "queuepush", "push"} :
           Present(Task(k, i)) => \E j \in Roots : Task(k, i) = Task("build", j)
    BY <1>6, <1>9, TaskShape
  <2>2. \A k \in {"build", "queuepush", "push"} :
           Present(Task(k, i)) => k = "build" /\ i \in Roots
    BY <2>1, <1>2, TaskShape
  <2> QED BY <2>2
<1>11. OnePlace
  BY <1>7, TaskShape DEF OnePlace
<1>12. WaitingIsFresh
  BY <1>8, <1>10 DEF WaitingIsFresh, Present, Roots
<1>13. BuildsAreReady
  BY <1>8, <1>10 DEF BuildsAreReady, Roots, IsRoot, Ready, Planned, Tried
<1>14. PushesAreCollected /\ PushNotYetQueued
  BY <1>10 DEF PushesAreCollected, PushNotYetQueued
<1>15. SuccessIsTrue
  BY <1>7 DEF SuccessIsTrue
<1> QED
  BY <1>5, <1>11, <1>12, <1>13, <1>14, <1>15 DEF OneInv

(***************************************************************************)
(* A step that moves no task and writes no status.                         *)
(***************************************************************************)
LEMMA QuietStep ==
    ASSUME BInv,
           UNCHANGED <<status, task, pending, success>>,
           engine \subseteq engine',
           QueuedTasks' = QueuedTasks, QueueDistinct',
           \A v \in Workers :
              /\ wpc'[v] \notin {"followups", "put"} => ~success[v]
              /\ wpc'[v] = "squash" =>
                    wpc[v] = "squash" \/ task[v].image \in engine'
              /\ task[v] \in Tasks /\ wpc[v] = "put" => wpc'[v] = "put"
              /\ task[v] \in Tasks /\ wpc'[v] \in {"attempt", "queuepush"} =>
                    wpc[v] \in {"attempt", "queuepush"}
    PROVE  OneInv'
<1> USE DEF BInv, OneInv
<1>1. \A t : /\ Waiting(t)' <=> Waiting(t)
             /\ Present(t)' <=> Present(t)
  BY DEF Waiting, Held, Present
<1>2. \A i \in Images : /\ Tried(i)' <=> Tried(i)
                        /\ Planned(i)' <=> Planned(i)
                        /\ Collected(i) => Collected(i)'
  BY TaskShape DEF Tried, Planned, Collected
<1>3. \A i \in Images : Ready(i) => Ready(i)'
  BY <1>2 DEF Ready
<1>4. OnePlace'
  BY DEF OnePlace
<1>5. WaitingIsFresh'
  BY <1>1 DEF WaitingIsFresh
<1>6. BuildsAreReady'
  BY <1>1, <1>2, <1>3 DEF BuildsAreReady
<1>7. PushesAreCollected'
  BY <1>1, <1>2 DEF PushesAreCollected
<1>8. PushNotYetQueued'
  BY <1>1, TaskShape DEF PushNotYetQueued
<1>9. SuccessIsTrue'
  <2> SUFFICES ASSUME NEW v \in Workers
               PROVE  /\ wpc'[v] \notin {"followups", "put"} => ~success[v]
                      /\ wpc'[v] = "squash" => task[v].image \in engine'
                      /\ success[v] /\ task[v].kind = "build" =>
                            /\ status[task[v].image] \notin LeftOut \cup {"matched"}
                            /\ task[v].image \in engine'
    BY DEF SuccessIsTrue, Tried
  <2> QED BY DEF SuccessIsTrue, Tried
<1> QED BY <1>4, <1>5, <1>6, <1>7, <1>8, <1>9

(***************************************************************************)
(* A step inside task.run() that may write the status of the image worked  *)
(* on: of an image being built, or being pushed.                           *)
(***************************************************************************)
LEMMA RunStep ==
    ASSUME BInv, NEW w \in Workers, NEW i \in Images, NEW s \in Status,
           task[w] = Task("build", i) \/ task[w] = Task("push", i),
           s \notin LeftOut \cup {"matched"},
           status' = [status EXCEPT ![i] = s],
           engine \subseteq engine',
           UNCHANGED <<queue, task, pending>>,
           wpc[w] # "put",
           \A v \in Workers \ {w} : wpc'[v] = wpc[v] /\ success'[v] = success[v],
           wpc'[w] \notin {"followups", "put"} => ~success'[w],
           wpc'[w] = "squash" => i \in engine',
           success'[w] /\ task[w].kind = "build" => i \in engine'
    PROVE  OneInv'
<1> USE DEF BInv, OneInv
<1>1. \A t : /\ Waiting(t)' <=> Waiting(t)
             /\ Present(t)' <=> Present(t)
  BY DEF Waiting, Held, Present, QueuedTasks
<1>2. Planned(i) /\ Ready(i) /\ ~Waiting(Task("build", i))
  <2>1. CASE task[w] = Task("build", i)
    BY <2>1, TaskShape DEF BuildsAreReady, OnePlace, Waiting, Present, Held
  <2>2. CASE task[w] = Task("push", i)
    <3>1. Collected(i)
      BY <2>2 DEF PushesAreCollected, Present, Held
    <3> QED BY <3>1 DEF BuildsAreReady, WaitingIsFresh, Collected, Tried
  <2> QED BY <2>1, <2>2
<1>3. status' \in [Images -> Status] /\ status \in [Images -> Status]
  BY DEF TInv, TypeOK
<1>4. \A j \in Images : /\ j # i => status'[j] = status[j]
                        /\ j = i => status'[j] = s
  BY <1>3
<1>5. \A j \in Images : /\ Tried(j) => Tried(j)'
                        /\ Tried(j)' => Tried(j) \/ j = i
                        /\ Planned(j) => Planned(j)'
                        /\ Collected(j) => Collected(j)'
  <2> TAKE j \in Images
  <2>1. /\ Tried(j) => Tried(j)'
        /\ Tried(j)' => Tried(j) \/ j = i
        /\ Planned(j) => Planned(j)'
    BY <1>4 DEF Tried, Planned
  <2>2. ASSUME Collected(j) PROVE Collected(j)'
    <3>1. task[w] # Task("build", j)
      BY <2>2 DEF Collected
    <3>2. \A v \in Workers : task'[v] = Task("build", j) => wpc'[v] = "put"
      BY <2>2, <3>1 DEF Collected
    <3> QED BY <2>1, <2>2, <3>2 DEF Collected
  <2> QED BY <2>1, <2>2
<1>6. \A j \in Images : Ready(j) => Ready(j)'
  <2>1. status[i] # "skipped"
    BY <1>2 DEF Planned, LeftOut
  <2>2. \A j \in Images : Parent[j] = NoImage \/ Parent[j] \in Images
    BY ForestAssumption
  <2>3. NoImage \notin Images
    BY ForestAssumption
  <2>4. ASSUME NEW j \in Images, Ready(j) PROVE Ready(j)'
    <3>1. CASE Parent[j] = NoImage
      BY <3>1 DEF Ready
    <3>2. CASE Parent[j] \in Images
      BY <1>4, <1>5, <2>1, <2>3, <2>4, <3>2 DEF Ready
    <3> QED BY <2>2, <3>1, <3>2
  <2> QED BY <2>4
<1>7. QueueDistinct' /\ OnePlace'
  BY DEF QueueDistinct, OnePlace, QueuedTasks
<1>8. WaitingIsFresh'
  BY <1>1, <1>2, <1>4 DEF WaitingIsFresh
<1>9. BuildsAreReady'
  BY <1>1, <1>2, <1>5, <1>6 DEF BuildsAreReady
<1>10. PushesAreCollected'
  BY <1>1, <1>5 DEF PushesAreCollected
<1>11. PushNotYetQueued'
  <2>1. \A j \in Images : task[w] # Task("queuepush", j)
    BY TaskShape
  <2>2. \A j \in Images, v \in Workers :
           /\ task'[v] = Task("queuepush", j)
           /\ wpc'[v] \in {"attempt", "queuepush"}
           => task[v] = Task("queuepush", j) /\ wpc[v] \in {"attempt", "queuepush"}
    BY <2>1
  <2> QED BY <1>1, <2>2 DEF PushNotYetQueued
<1>12. SuccessIsTrue'
  <2>1. task[w].image = i
    BY TaskShape
  <2>2. Tried(i)'
    BY <1>4 DEF Tried
  <2>3. ASSUME NEW v \in Workers \ {w}
        PROVE  /\ wpc'[v] \notin {"followups", "put"} => ~success'[v]
               /\ wpc'[v] = "squash" => task'[v].image \in engine'
               /\ success'[v] /\ task'[v].kind = "build" =>
                     /\ status'[task'[v].image] \notin LeftOut \cup {"matched"}
                     /\ task'[v].image \in engine'
    <3>1. /\ wpc[v] \notin {"followups", "put"} => ~success[v]
          /\ wpc[v] = "squash" => task[v].image \in engine
          /\ success[v] /\ task[v].kind = "build" =>
                Tried(task[v].image) /\ task[v].image \in engine
      BY DEF SuccessIsTrue
    <3>2. engine \subseteq Images
      BY DEF TInv, TypeOK
    <3>3. ASSUME success[v], task[v].kind = "build"
          PROVE  status'[task[v].image] \notin LeftOut \cup {"matched"}
      <4>1. task[v].image \in Images
        BY <3>1, <3>2, <3>3
      <4>2. Tried(task[v].image)
        BY <3>1, <3>3
      <4> QED BY <1>4, <4>1, <4>2 DEF Tried
    <3> QED BY <3>1, <3>3
  <2>4. /\ wpc'[w] \notin {"followups", "put"} => ~success'[w]
        /\ wpc'[w] = "squash" => task'[w].image \in engine'
        /\ success'[w] /\ task'[w].kind = "build" =>
              /\ status'[task'[w].image] \notin LeftOut \cup {"matched"}
              /\ task'[w].image \in engine'
    BY <1>4, <2>1
  <2> QED BY <2>3, <2>4 DEF SuccessIsTrue, Tried
<1> QED
  BY <1>7, <1>8, <1>9, <1>10, <1>11, <1>12
-----------------------------------------------------------------------------
\* Queueing a tombstone, or nothing, leaves the queued tasks alone.
LEMMA NoTaskQueued ==
    ASSUME BInv, UNCHANGED queue \/ \E q \in QueueNames : Put(q, Tombstone)
    PROVE  QueuedTasks' = QueuedTasks /\ QueueDistinct'
<1>1. CASE UNCHANGED queue
  BY <1>1 DEF QueuedTasks, QueueDistinct, BInv, OneInv
<1>2. CASE \E q \in QueueNames : Put(q, Tombstone)
  <2>1. PICK q \in QueueNames : Put(q, Tombstone)
    BY <1>2
  <2>2. Tombstone \notin Tasks /\ Tombstone \notin QueuedTasks
    BY TaskShape DEF QueuedTasks
  <2>3. /\ QueuedTasks' = QueuedTasks \cup ({Tombstone} \cap Tasks)
        /\ QueueDistinct /\ Tombstone \notin QueuedTasks => QueueDistinct'
    BY <2>1, PutQueued DEF BInv, TInv
  <2> QED BY <2>2, <2>3 DEF BInv, OneInv
<1> QED BY <1>1, <1>2

\* The main thread moves no task and writes no status.
LEMMA OneInvMain ==
    ASSUME BInv, MainStep \/ Interrupt \/ JoinTimeout
    PROVE  OneInv'
<1> USE DEF queueVars, mainVars, workerVars, extVars, GoMain, PutTombstone
<1>1. /\ UNCHANGED <<status, engine, task, pending, success>>
      /\ UNCHANGED queue \/ \E q \in QueueNames : Put(q, Tombstone)
  BY DEF MainStep, StartWorker, StopWorker, AppendWorker, PollBuild, PollPush,
         TombstonePush, TombstoneBuild, Join, StopPushQueue, StopBuildQueue,
         WaitWorkers, Summary, Cleanup, Return, Interrupt, JoinTimeout,
         QueueNames
<1>2. \/ UNCHANGED wpc
      \/ \E w \in Workers : /\ wpc[w] = "new" /\ task[w] = NoTask
                            /\ wpc' = [wpc EXCEPT ![w] = "loop"]
  <2>1. CASE \E w \in Workers : StartWorker(w)
    <3>1. PICK w \in Workers : StartWorker(w)
      BY <2>1
    <3>2. w \notin started
      BY <3>1 DEF StartWorker, NextToStart
    <3> QED
      BY <3>1, <3>2 DEF StartWorker, BInv, TInv, PcMatchesTask, Idle
  <2>2. CASE ~\E w \in Workers : StartWorker(w)
    BY <2>2 DEF MainStep, StopWorker, AppendWorker, PollBuild, PollPush,
         TombstonePush, TombstoneBuild, Join, StopPushQueue, StopBuildQueue,
         WaitWorkers, Summary, Cleanup, Return, Interrupt, JoinTimeout
  <2> QED BY <2>1, <2>2
<1>3. \A v \in Workers :
          \/ wpc'[v] = wpc[v]
          \/ wpc[v] = "new" /\ wpc'[v] = "loop" /\ task[v] = NoTask
  <2>1. wpc \in [Workers -> {"new", "loop", "get", "putback", "attempt",
                             "followups", "put", "exited"} \cup Running]
    BY DEF BInv, TInv, TypeOK
  <2> QED BY <1>2, <2>1
<1>4. QueuedTasks' = QueuedTasks /\ QueueDistinct'
  BY <1>1, NoTaskQueued
<1>5. \A v \in Workers :
          /\ wpc'[v] \notin {"followups", "put"} => ~success[v]
          /\ wpc'[v] = "squash" => wpc[v] = "squash"
          /\ task[v] \in Tasks /\ wpc[v] = "put" => wpc'[v] = "put"
          /\ task[v] \in Tasks /\ wpc'[v] \in {"attempt", "queuepush"} =>
                wpc[v] \in {"attempt", "queuepush"}
  BY <1>3, TaskShape DEF BInv, OneInv, SuccessIsTrue
<1> QED BY <1>1, <1>4, <1>5, QuietStep

\* The steps of a worker that only move its program counter.
LEMMA OneInvQuietWorker ==
    ASSUME BInv, NEW w \in Workers,
           \/ Loop(w) \/ PutBack(w) \/ Attempt(w) \/ SourcesReady(w)
    PROVE  OneInv'
<1> USE DEF At, Goto, queueVars, mainVars, extVars
<1>1. /\ UNCHANGED <<status, engine, task, pending, success>>
      /\ UNCHANGED queue \/ \E q \in QueueNames : Put(q, Tombstone)
  BY DEF Loop, PutBack, Attempt, SourcesReady, QueueOf, QueueNames
<1>2. /\ \A v \in Workers \ {w} : wpc'[v] = wpc[v]
      /\ \/ wpc[w] = "loop" /\ wpc'[w] \in {"exited", "get"}
         \/ wpc[w] = "putback" /\ wpc'[w] = "exited"
         \/ wpc[w] = "attempt" /\ wpc'[w] \in {"followups", "check", "push",
                                               "queuepush"}
         \/ wpc[w] = "sources" /\ wpc'[w] = "engine"
  <2>1. CASE Attempt(w)
    <3>1. task[w] \in Tasks
      BY <2>1 DEF Attempt, BInv, TInv, PcMatchesTask, Idle
    <3>2. RunOf(task[w].kind) \in {"check", "push", "queuepush"}
      BY <3>1, TaskShape DEF RunOf
    <3> QED BY <2>1, <3>2 DEF Attempt, BInv, TInv, TypeOK
  <2>2. CASE Loop(w) \/ PutBack(w) \/ SourcesReady(w)
    BY <2>2 DEF Loop, PutBack, SourcesReady, BInv, TInv, TypeOK
  <2> QED BY <2>1, <2>2
<1>3. QueuedTasks' = QueuedTasks /\ QueueDistinct'
  BY <1>1, NoTaskQueued
<1>4. \A v \in Workers :
          /\ wpc'[v] \notin {"followups", "put"} => ~success[v]
          /\ wpc'[v] = "squash" => wpc[v] = "squash"
          /\ task[v] \in Tasks /\ wpc[v] = "put" => wpc'[v] = "put"
          /\ task[v] \in Tasks /\ wpc'[v] \in {"attempt", "queuepush"} =>
                wpc[v] \in {"attempt", "queuepush"}
  BY <1>2 DEF BInv, OneInv, SuccessIsTrue
<1> QED BY <1>1, <1>3, <1>4, QuietStep

\* The steps of BuildTask.run that write the status of the image.
LEMMA OneInvBuildRun ==
    ASSUME BInv, NEW w \in Workers, BuildRun(w), ~SourcesReady(w)
    PROVE  OneInv'
<1> USE DEF At, Goto, queueVars, mainVars, extVars
<1> DEFINE i == task[w].image
<1>1. wpc[w] \in BuildPcs /\ task[w] \in Tasks /\ task[w].kind = "build"
  BY DEF BuildRun, Check, SourcesFail, EngineBuildOk,
         EngineBuildFail, SquashOk, SquashNoParentLayer, SquashFail,
         BInv, TInv, PcMatchesTask, BuildPcs, Idle
<1>2. i \in Images /\ task[w] = Task("build", i)
  BY <1>1, TaskShape
<1>3. Planned(i)
  BY <1>2 DEF BInv, OneInv, BuildsAreReady, Present, Held
<1>4. UNCHANGED <<queue, task, pending>> /\ engine \subseteq engine'
  BY DEF BuildRun, Check, SourcesFail, EngineBuildOk, EngineBuildFail,
         SquashOk, SquashNoParentLayer, SquashFail, EndBuild, Finish
<1>5. wpc \in [Workers -> {"new", "loop", "get", "putback", "attempt",
                           "followups", "put", "exited"} \cup Running]
      /\ success \in [Workers -> BOOLEAN] /\ status \in [Images -> Status]
  BY DEF BInv, TInv, TypeOK
<1>6. ~success[w] /\ (wpc[w] = "squash" => i \in engine)
  BY <1>1 DEF BInv, OneInv, SuccessIsTrue, BuildPcs
<1>7. ASSUME NEW s \in Status, s \notin LeftOut \cup {"matched"},
             EndBuild(w, s), s = "built" => i \in engine'
      PROVE  OneInv'
  <2>1. /\ status' = [status EXCEPT ![i] = s]
        /\ \A v \in Workers \ {w} : wpc'[v] = wpc[v] /\ success'[v] = success[v]
        /\ wpc'[w] \in {"followups", "attempt"}
    BY <1>5, <1>7 DEF EndBuild, Finish
  <2>2. CASE s = "built"
    <3>1. wpc'[w] = "followups"
      BY <1>5, <1>7, <2>2 DEF EndBuild, Finish
    <3> QED
      BY <1>1, <1>2, <1>4, <1>7, <2>1, <2>2, <3>1, RunStep DEF BuildPcs
  <2>3. CASE s # "built"
    <3>1. (s \in {"built", "skipped"}) = FALSE
      BY <1>7, <2>3 DEF LeftOut
    <3>2. ~success'[w]
      BY <1>5, <1>7, <3>1 DEF EndBuild, Finish
    <3> QED
      BY <1>1, <1>2, <1>4, <1>7, <2>1, <3>2, RunStep DEF BuildPcs
  <2> QED BY <2>2, <2>3
<1>8. CASE Check(w)
  <2>1. CASE BuilderEntry(i) = "building"
    <3>1. /\ status' = [status EXCEPT ![i] = "building"]
          /\ wpc' = [wpc EXCEPT ![w] = "sources"]
          /\ UNCHANGED success
      BY <1>8, <2>1 DEF Check
    <3>2. "building" \in Status /\ "building" \notin LeftOut \cup {"matched"}
      BY DEF Status, LeftOut
    <3> QED
      BY <1>1, <1>2, <1>4, <1>5, <1>6, <3>1, <3>2, RunStep DEF BuildPcs
  <2>2. CASE BuilderEntry(i) # "building"
    <3>1. BuilderEntry(i) = "parent_error"
      BY <1>3, <2>2 DEF BuilderEntry, Planned
    <3>2. EndBuild(w, "parent_error")
      BY <1>8, <2>2, <3>1 DEF Check
    <3> QED BY <1>7, <3>2 DEF Status, LeftOut
  <2> QED BY <2>1, <2>2
<1>9. CASE SourcesFail(w)
  BY <1>7, <1>9 DEF SourcesFail, Status, LeftOut
<1>10. CASE EngineBuildOk(w)
  <2>1. engine' = engine \cup {i}
    BY <1>10 DEF EngineBuildOk
  <2>2. CASE EndBuild(w, "built")
    BY <1>7, <2>1, <2>2 DEF Status, LeftOut
  <2>3. CASE ~EndBuild(w, "built")
    <3>1. UNCHANGED <<status, success>> /\ wpc' = [wpc EXCEPT ![w] = "squash"]
          /\ wpc[w] = "engine"
      BY <1>10, <2>3 DEF EngineBuildOk
    <3>2. QueuedTasks' = QueuedTasks /\ QueueDistinct'
      BY <1>4, NoTaskQueued
    <3>3. \A v \in Workers :
              /\ wpc'[v] = IF v = w THEN "squash" ELSE wpc[v]
              /\ wpc'[v] \notin {"followups", "put"} => ~success[v]
      BY <1>5, <1>6, <3>1 DEF BInv, OneInv, SuccessIsTrue
    <3> QED BY <1>4, <2>1, <3>1, <3>2, <3>3, QuietStep
  <2> QED BY <2>2, <2>3
<1>11. CASE EngineBuildFail(w) \/ SquashFail(w)
  BY <1>7, <1>11 DEF EngineBuildFail, SquashFail, Status, LeftOut
<1>12. CASE SquashOk(w) \/ SquashNoParentLayer(w)
  <2>1. i \in engine' /\ EndBuild(w, "built")
    BY <1>6, <1>12 DEF SquashOk, SquashNoParentLayer
  <2> QED BY <1>7, <2>1 DEF Status, LeftOut
<1> HIDE DEF At, Goto, queueVars, mainVars, extVars
<1> QED BY <1>8, <1>9, <1>10, <1>11, <1>12 DEF BuildRun
-----------------------------------------------------------------------------
(***************************************************************************)
(* The steps that move tasks.  Each is shown to keep every task in one     *)
(* place, and to respect what a task's presence says about its image.      *)
(***************************************************************************)
LEMMA OneInvGet ==
    ASSUME BInv, NEW w \in Workers, Get(w), Head(queue[QueueOf(w)]) # Tombstone
    PROVE  OneInv'
<1> DEFINE t == Head(queue[QueueOf(w)])
<1>1. QueueOf(w) \in QueueNames /\ queue[QueueOf(w)] # <<>>
  BY DEF Get, QueueOf, QueueNames
<1>2. t \in Tasks
  <2>1. queue[QueueOf(w)] \in Seq(Tasks \cup {Tombstone})
    BY <1>1 DEF BInv, TInv, TypeOK
  <2> QED BY <1>1, <2>1, HeadTailProperties
<1>3. /\ QueueDistinct'
      /\ t \in QueuedTasks
      /\ QueuedTasks' = QueuedTasks \ {t}
  BY <1>1, <1>2, GetQueued DEF Get, BInv, TInv, OneInv
<1>4. /\ task' = [task EXCEPT ![w] = t]
      /\ wpc' = [wpc EXCEPT ![w] = "attempt"]
      /\ wpc[w] = "get"
      /\ UNCHANGED <<status, engine, success, pending>>
  BY DEF Get, At, Goto, extVars
<1>5. /\ task[w] = NoTask /\ NoTask \notin Tasks
      /\ task \in [Workers -> Tasks \cup {NoTask}]
      /\ wpc \in [Workers -> {"new", "loop", "get", "putback", "attempt",
                              "followups", "put", "exited"} \cup Running]
  BY <1>4, TaskShape DEF BInv, TInv, TypeOK, PcMatchesTask, Idle
<1>6. \A v \in Workers : /\ task'[v] = IF v = w THEN t ELSE task[v]
                         /\ wpc'[v] = IF v = w THEN "attempt" ELSE wpc[v]
  BY <1>4, <1>5
<1>7. \A u \in Tasks : /\ Waiting(u)' => Waiting(u)
                       /\ Present(u)' => Present(u)
  BY <1>3, <1>4, <1>6 DEF Waiting, Present, Held
<1>8. \A i \in Images : t = Task("build", i) => status[i] = "matched"
  BY <1>3 DEF BInv, OneInv, WaitingIsFresh, Waiting
<1>9. \A i \in Images : /\ Tried(i)' <=> Tried(i)
                        /\ Planned(i)' <=> Planned(i)
                        /\ Collected(i) => Collected(i)'
  BY <1>4, <1>6, <1>8 DEF Tried, Planned, Collected
<1>10. \A i \in Images : Ready(i) => Ready(i)'
  BY <1>4, <1>9 DEF Ready
<1>11. OnePlace'
  BY <1>2, <1>3, <1>4, <1>6 DEF BInv, OneInv, OnePlace
<1>12. WaitingIsFresh' /\ BuildsAreReady' /\ PushesAreCollected'
  BY <1>4, <1>7, <1>9, <1>10, TaskShape
     DEF BInv, OneInv, WaitingIsFresh, BuildsAreReady, PushesAreCollected
<1>13. PushNotYetQueued'
  <2> SUFFICES ASSUME NEW i \in Images,
                      \/ Waiting(Task("queuepush", i))'
                      \/ \E v \in Workers :
                            /\ task'[v] = Task("queuepush", i)
                            /\ wpc'[v] \in {"attempt", "queuepush"},
                      Present(Task("push", i))'
               PROVE  FALSE
    BY DEF PushNotYetQueued
  <2>1. Present(Task("push", i))
    BY <1>7, TaskShape
  <2>2. \/ Waiting(Task("queuepush", i))
        \/ \E v \in Workers : /\ task[v] = Task("queuepush", i)
                              /\ wpc[v] \in {"attempt", "queuepush"}
    BY <1>3, <1>6, <1>7, TaskShape DEF Waiting
  <2> QED BY <2>1, <2>2 DEF BInv, OneInv, PushNotYetQueued
<1>14. SuccessIsTrue'
  <2>1. ~success[w]
    BY <1>4 DEF BInv, OneInv, SuccessIsTrue
  <2> QED BY <1>4, <1>6, <2>1 DEF BInv, OneInv, SuccessIsTrue, Tried
<1> QED BY <1>3, <1>11, <1>12, <1>13, <1>14 DEF OneInv

\* A worker that takes the tombstone keeps what it has: nothing.
LEMMA OneInvGetTombstone ==
    ASSUME BInv, NEW w \in Workers, Get(w), Head(queue[QueueOf(w)]) = Tombstone
    PROVE  OneInv'
<1>1. QueueOf(w) \in QueueNames /\ queue[QueueOf(w)] # <<>>
  BY DEF Get, QueueOf, QueueNames
<1>2. /\ QueueDistinct'
      /\ QueuedTasks' = QueuedTasks \ {Tombstone}
  BY <1>1, GetQueued DEF Get, BInv, TInv, OneInv
<1>3. QueuedTasks' = QueuedTasks
  BY <1>2, TaskShape DEF QueuedTasks
<1>4. /\ UNCHANGED <<status, engine, task, pending, success>>
      /\ wpc' = [wpc EXCEPT ![w] = "putback"]
      /\ wpc[w] = "get"
  BY DEF Get, At, Goto, extVars
<1>5. wpc'[w] = "putback" /\ \A v \in Workers \ {w} : wpc'[v] = wpc[v]
  BY <1>4 DEF BInv, TInv, TypeOK
<1>6. \A v \in Workers :
          /\ wpc'[v] \notin {"followups", "put"} => ~success[v]
          /\ wpc'[v] = "squash" => wpc[v] = "squash"
          /\ task[v] \in Tasks /\ wpc[v] = "put" => wpc'[v] = "put"
          /\ task[v] \in Tasks /\ wpc'[v] \in {"attempt", "queuepush"} =>
                wpc[v] \in {"attempt", "queuepush"}
  BY <1>4, <1>5 DEF BInv, OneInv, SuccessIsTrue
<1> QED BY <1>2, <1>3, <1>4, <1>6, QuietStep

\* What success says carries over to a worker that gets on with its task.
LEMMA SuccessStep ==
    ASSUME SuccessIsTrue, UNCHANGED <<status, engine>>, NEW w \in Workers,
           \A v \in Workers \ {w} :
              wpc'[v] = wpc[v] /\ success'[v] = success[v] /\ task'[v] = task[v],
           wpc'[w] \notin {"followups", "put"} => ~success'[w],
           wpc'[w] # "squash",
           \/ ~success'[w]
           \/ task'[w] = task[w] /\ (success[w] \/ task[w].kind # "build")
    PROVE  SuccessIsTrue'
<1> SUFFICES ASSUME NEW v \in Workers
             PROVE  /\ wpc'[v] \notin {"followups", "put"} => ~success'[v]
                    /\ wpc'[v] = "squash" => task'[v].image \in engine
                    /\ success'[v] /\ task'[v].kind = "build" =>
                          /\ status[task'[v].image] \notin LeftOut \cup {"matched"}
                          /\ task'[v].image \in engine
  BY DEF SuccessIsTrue, Tried
<1>1. /\ wpc[v] \notin {"followups", "put"} => ~success[v]
      /\ wpc[v] = "squash" => task[v].image \in engine
      /\ success[v] /\ task[v].kind = "build" =>
            /\ status[task[v].image] \notin LeftOut \cup {"matched"}
            /\ task[v].image \in engine
  BY DEF SuccessIsTrue, Tried
<1>2. CASE v # w
  BY <1>1, <1>2
<1>3. CASE v = w
  BY <1>1, <1>3
<1> QED BY <1>2, <1>3

LEMMA OneInvQueuePush ==
    ASSUME BInv, NEW w \in Workers, RunQueuePush(w) PROVE OneInv'
<1>0. PICK i \in Images : wpc[w] = "queuepush" /\ task[w] = Task("queuepush", i)
  <2>1. /\ wpc[w] = "queuepush" /\ task[w] \in Tasks
        /\ task[w].kind = "queuepush"
    BY DEF RunQueuePush, At, BInv, TInv, PcMatchesTask, Idle
  <2> QED BY <2>1, TaskShape
<1> DEFINE t == Task("push", i)
<1>1. /\ wpc[w] = "queuepush" /\ task[w] = Task("queuepush", i) /\ i \in Images
      /\ t \in Tasks /\ task[w] # t /\ task[w].image = i
  BY <1>0, TaskShape
<1>2. ~Present(t)
  BY <1>1 DEF BInv, OneInv, PushNotYetQueued
<1>3. QueuedTasks' = QueuedTasks \cup {t} /\ QueueDistinct'
  <2>1. /\ QueuedTasks' = QueuedTasks \cup ({t} \cap Tasks)
        /\ QueueDistinct /\ t \notin QueuedTasks => QueueDistinct'
    BY <1>1, PutQueued DEF RunQueuePush, BInv, TInv, QueueNames
  <2> QED BY <1>1, <1>2, <2>1 DEF Present, Waiting, BInv, OneInv
<1>4. /\ wpc' = [wpc EXCEPT ![w] = "followups"]
      /\ success' = [success EXCEPT ![w] = TRUE]
      /\ UNCHANGED <<status, engine, task, pending>>
  BY DEF RunQueuePush, Finish, Goto, extVars
<1>5. /\ wpc'[w] = "followups"
      /\ \A v \in Workers \ {w} : /\ wpc'[v] = wpc[v]
                                  /\ success'[v] = success[v]
                                  /\ task'[v] = task[v]
      /\ task' = task
  BY <1>4 DEF BInv, TInv, TypeOK
<1>6. \A u \in Tasks : u # t => /\ Waiting(u)' <=> Waiting(u)
                                /\ Present(u)' <=> Present(u)
  BY <1>3, <1>4 DEF Waiting, Present, Held
<1>7. \A j \in Images : /\ Tried(j)' <=> Tried(j)
                        /\ Planned(j)' <=> Planned(j)
                        /\ Collected(j) => Collected(j)'
  BY <1>1, <1>4, <1>5, TaskShape DEF Tried, Planned, Collected
<1>8. \A j \in Images : Ready(j) => Ready(j)'
  BY <1>4, <1>7 DEF Ready
<1>9. Collected(i)
  BY <1>1 DEF BInv, OneInv, PushesAreCollected, Present, Held
<1>10. OnePlace'
  <2>1. \A v \in Workers : task[v] # t /\ t \notin pending[v]
    BY <1>2 DEF Present, Waiting, Held
  <2> QED BY <1>3, <1>4, <2>1 DEF BInv, OneInv, OnePlace
<1>11. \A j \in Images : /\ Task("build", j) # t /\ Task("queuepush", j) # t
                         /\ Task("push", j) = t => j = i
  BY <1>1, TaskShape
<1>12. WaitingIsFresh' /\ BuildsAreReady'
  BY <1>4, <1>6, <1>7, <1>8, <1>11, TaskShape
     DEF BInv, OneInv, WaitingIsFresh, BuildsAreReady
<1>13. PushesAreCollected'
  BY <1>6, <1>7, <1>9, <1>11, TaskShape DEF BInv, OneInv, PushesAreCollected
<1>14. PushNotYetQueued'
  <2> SUFFICES ASSUME NEW j \in Images,
                      \/ Waiting(Task("queuepush", j))'
                      \/ \E v \in Workers :
                            /\ task'[v] = Task("queuepush", j)
                            /\ wpc'[v] \in {"attempt", "queuepush"},
                      Present(Task("push", j))'
               PROVE  FALSE
    BY DEF PushNotYetQueued
  <2>1. Task("queuepush", j) \in Tasks /\ Task("push", j) \in Tasks
    BY TaskShape
  <2>2. ASSUME NEW v \in Workers, task'[v] = Task("queuepush", j),
               wpc'[v] \in {"attempt", "queuepush"}
        PROVE  /\ v # w /\ task[v] = Task("queuepush", j)
               /\ wpc[v] \in {"attempt", "queuepush"}
    BY <1>4, <1>5, <2>2
  <2>3. CASE j = i
    <3>1. ~Waiting(Task("queuepush", i))
      BY <1>1, <2>1, <2>3 DEF BInv, OneInv, OnePlace, Waiting
    <3>2. \A v \in Workers : task[v] = Task("queuepush", i) => v = w
      BY <1>1, <2>1, <2>3 DEF BInv, OneInv, OnePlace
    <3>3. ~Waiting(Task("queuepush", i))'
      BY <1>6, <1>11, <2>1, <2>3, <3>1
    <3> QED BY <2>2, <2>3, <3>2, <3>3
  <2>4. CASE j # i
    <3>1. Present(Task("push", j))
      BY <1>6, <1>11, <2>1, <2>4
    <3>2. \/ Waiting(Task("queuepush", j))
          \/ \E v \in Workers : /\ task[v] = Task("queuepush", j)
                                /\ wpc[v] \in {"attempt", "queuepush"}
      <4>1. CASE Waiting(Task("queuepush", j))'
        BY <1>6, <1>11, <2>1, <4>1
      <4>2. CASE ~Waiting(Task("queuepush", j))'
        BY <2>2, <4>2
      <4> QED BY <4>1, <4>2
    <3> QED BY <3>1, <3>2 DEF BInv, OneInv, PushNotYetQueued
  <2> QED BY <2>3, <2>4
<1>15. SuccessIsTrue'
  <2>1. task[w].kind = "queuepush"
    BY <1>1, TaskShape
  <2> QED BY <1>4, <1>5, <2>1, SuccessStep DEF BInv, OneInv
<1> QED BY <1>3, <1>10, <1>12, <1>13, <1>14, <1>15 DEF OneInv

LEMMA OneInvPushRun ==
    ASSUME BInv, NEW w \in Workers, PushOk(w) \/ PushFail(w) PROVE OneInv'
<1>1. PICK i \in Images : wpc[w] = "push" /\ task[w] = Task("push", i)
  <2>1. wpc[w] = "push" /\ task[w] \in Tasks /\ task[w].kind = "push"
    BY DEF PushOk, PushFail, At, BInv, TInv, PcMatchesTask, Idle
  <2> QED BY <2>1, TaskShape
<1>2. task[w].image = i /\ task[w].kind = "push"
  BY <1>1, TaskShape
<1>3. UNCHANGED <<queue, task, pending>> /\ engine \subseteq engine'
  BY DEF PushOk, PushFail, Finish, queueVars, extVars
<1>4. \E s \in {"built", "push_error", "connection_error"} :
         status' = [status EXCEPT ![i] = s]
  BY <1>2 DEF PushOk, PushFail
<1>5. PICK s \in {"built", "push_error", "connection_error"} :
         status' = [status EXCEPT ![i] = s]
  BY <1>4
<1>6. s \in Status /\ s \notin LeftOut \cup {"matched"}
  BY DEF Status, LeftOut
<1>7. /\ \A v \in Workers \ {w} : wpc'[v] = wpc[v] /\ success'[v] = success[v]
      /\ wpc'[w] # "squash"
      /\ wpc'[w] \notin {"followups", "put"} => ~success'[w]
  <2>1. /\ wpc \in [Workers -> {"new", "loop", "get", "putback", "attempt",
                               "followups", "put", "exited"} \cup Running]
        /\ success \in [Workers -> BOOLEAN]
    BY DEF BInv, TInv, TypeOK
  <2>2. CASE PushOk(w)
    BY <2>1, <2>2 DEF PushOk, Finish, Goto
  <2>3. CASE PushFail(w)
    BY <2>1, <2>3 DEF PushFail, Finish, Goto
  <2> QED BY <2>2, <2>3
<1> QED BY <1>1, <1>2, <1>3, <1>5, <1>6, <1>7, RunStep

(***************************************************************************)
(* The follow-ups of a build that succeeded exist nowhere yet: what is     *)
(* present, or tried, below the image or as its push, is there only after  *)
(* they were collected.                                                    *)
(***************************************************************************)
LEMMA FreshFollowups ==
    ASSUME BInv, NEW w \in Workers, wpc[w] = "followups", success[w],
           NEW i \in Images, task[w] = Task("build", i)
    PROVE  /\ Tried(i) /\ i \in engine
           /\ ~Present(Task("queuepush", i)) /\ ~Present(Task("push", i))
           /\ \A c \in Images : Parent[c] = i /\ status[c] \notin LeftOut =>
                 ~Present(Task("build", c)) /\ status[c] = "matched"
<1>1. Tried(i) /\ i \in engine
  BY TaskShape DEF BInv, OneInv, SuccessIsTrue
<1>2. ~Collected(i)
  BY DEF Collected
<1>3. ~Present(Task("queuepush", i)) /\ ~Present(Task("push", i))
  BY <1>2 DEF BInv, OneInv, PushesAreCollected
<1>4. ASSUME NEW c \in Images, Parent[c] = i, status[c] \notin LeftOut
      PROVE  ~Present(Task("build", c)) /\ status[c] = "matched"
  <2>1. ~Ready(c)
    BY <1>1, <1>2, <1>4, ForestAssumption DEF Ready, Tried, LeftOut
  <2>2. ~Present(Task("build", c)) /\ ~Tried(c)
    BY <2>1 DEF BInv, OneInv, BuildsAreReady
  <2> QED BY <1>4, <2>2 DEF Tried
<1> QED BY <1>1, <1>3, <1>4

LEMMA OneInvCollect ==
    ASSUME BInv, NEW w \in Workers, CollectFollowups(w) PROVE OneInv'
<1> DEFINE N == IF success[w] /\ ~should_stop[w]
                THEN Followups(task[w]) ELSE {}
<1>1. /\ wpc[w] = "followups" /\ task[w] \in Tasks /\ pending[w] = {}
      /\ UNCHANGED <<status, engine, queue, task, success>>
      /\ pending' = [pending EXCEPT ![w] = N]
      /\ wpc' = [wpc EXCEPT ![w] = "put"]
  BY DEF CollectFollowups, At, Goto, queueVars, extVars, BInv, TInv,
         PcMatchesTask, Idle
<1>2. /\ wpc'[w] = "put" /\ pending'[w] = N
      /\ \A v \in Workers \ {w} : wpc'[v] = wpc[v] /\ pending'[v] = pending[v]
  BY <1>1 DEF BInv, TInv, TypeOK
<1>3. QueuedTasks' = QueuedTasks /\ QueueDistinct'
  BY <1>1, NoTaskQueued
<1>4. CASE N = {}
  <2>1. pending' = pending
    BY <1>1, <1>4 DEF BInv, TInv, TypeOK
  <2>2. \A v \in Workers :
              /\ wpc'[v] \notin {"followups", "put"} => ~success[v]
              /\ wpc'[v] = "squash" => wpc[v] = "squash"
              /\ task[v] \in Tasks /\ wpc[v] = "put" => wpc'[v] = "put"
              /\ task[v] \in Tasks /\ wpc'[v] \in {"attempt", "queuepush"} =>
                    wpc[v] \in {"attempt", "queuepush"}
    BY <1>2 DEF BInv, OneInv, SuccessIsTrue
  <2> QED BY <1>1, <1>3, <2>1, <2>2, QuietStep
<1>5. CASE N # {}
  <2>1. success[w] /\ N = Followups(task[w]) /\ task[w].kind = "build"
    BY <1>5 DEF Followups
  <2>2. PICK i \in Images : task[w] = Task("build", i)
    BY <1>1, <2>1, TaskShape
  <2>3. /\ Tried(i) /\ i \in engine
        /\ ~Present(Task("queuepush", i)) /\ ~Present(Task("push", i))
        /\ \A c \in Images : Parent[c] = i /\ status[c] \notin LeftOut =>
              ~Present(Task("build", c)) /\ status[c] = "matched"
    BY <1>1, <2>1, <2>2, FreshFollowups
  <2>4. \A u \in N : \/ u = Task("queuepush", i)
                     \/ \E c \in Images : /\ u = Task("build", c)
                                          /\ Parent[c] = i
                                          /\ status[c] \notin LeftOut
    BY <2>1, <2>2, TaskShape DEF Followups, Children
  <2>5. \A u \in N : u \in Tasks /\ ~Present(u)
    BY <2>3, <2>4, TaskShape
  <2>6. \A u : Waiting(u)' <=> Waiting(u) \/ u \in N
    BY <1>1, <1>2, <1>3 DEF Waiting
  <2>7. \A u : Present(u)' <=> Present(u) \/ u \in N
    BY <1>1, <2>6 DEF Present, Held
  <2> HIDE DEF N
  <2>8. \A j \in Images : /\ Tried(j)' <=> Tried(j)
                          /\ Planned(j)' <=> Planned(j)
                          /\ Collected(j) => Collected(j)'
    BY <1>1, <1>2 DEF Tried, Planned, Collected
  <2>9. \A j \in Images : Ready(j) => Ready(j)'
    BY <1>1, <2>8 DEF Ready
  <2>10. Collected(i)'
    <3>1. \A v \in Workers : task[v] = Task("build", i) => v = w
      BY <2>2, TaskShape DEF BInv, OneInv, OnePlace
    <3> QED BY <1>1, <1>2, <2>3, <2>8, <3>1 DEF Collected
  <2>11. OnePlace'
    <3> SUFFICES ASSUME NEW t \in Tasks, NEW v \in Workers, NEW u \in Workers
                 PROVE  /\ t \in QueuedTasks' =>
                              task'[v] # t /\ t \notin pending'[v]
                        /\ task'[v] = t /\ task'[u] = t => v = u
                        /\ t \in pending'[v] /\ t \in pending'[u] => v = u
                        /\ t \in pending'[v] => task'[u] # t
      BY DEF OnePlace
    <3>1. /\ t \in QueuedTasks => task[v] # t /\ t \notin pending[v]
          /\ task[v] = t /\ task[u] = t => v = u
          /\ t \in pending[v] /\ t \in pending[u] => v = u
          /\ t \in pending[v] => task[u] # t
      BY DEF BInv, OneInv, OnePlace
    <3>2. t \in N => /\ t \notin QueuedTasks
                     /\ \A x \in Workers : t \notin pending[x] /\ task[x] # t
      BY <2>5 DEF Present, Waiting, Held
    <3> QED BY <1>1, <1>2, <1>3, <3>1, <3>2
  <2>12. WaitingIsFresh'
    <3> SUFFICES ASSUME NEW j \in Images, Waiting(Task("build", j))'
                 PROVE  status'[j] = "matched"
      BY DEF WaitingIsFresh
    <3>1. CASE Waiting(Task("build", j))
      BY <1>1, <3>1 DEF BInv, OneInv, WaitingIsFresh
    <3>2. CASE Task("build", j) \in N
      <4>1. Parent[j] = i /\ status[j] \notin LeftOut
        BY <2>2, <2>4, <3>2, TaskShape
      <4> QED BY <1>1, <2>3, <4>1
    <3> QED BY <2>6, <3>1, <3>2
  <2>13. BuildsAreReady'
    <3> SUFFICES ASSUME NEW j \in Images, Present(Task("build", j))' \/ Tried(j)'
                 PROVE  Planned(j)' /\ Ready(j)'
      BY DEF BuildsAreReady
    <3>1. CASE Present(Task("build", j)) \/ Tried(j)
      BY <2>8, <2>9, <3>1 DEF BInv, OneInv, BuildsAreReady
    <3>2. CASE Task("build", j) \in N
      <4>1. Parent[j] = i /\ status[j] \notin LeftOut
        BY <2>2, <2>4, <3>2, TaskShape
      <4> QED BY <1>1, <2>8, <2>10, <4>1 DEF Planned, Ready
    <3> QED BY <2>7, <2>8, <3>1, <3>2
  <2>14. PushesAreCollected'
    <3> SUFFICES ASSUME NEW j \in Images,
                        \/ Present(Task("queuepush", j))'
                        \/ Present(Task("push", j))'
                 PROVE  Collected(j)'
      BY DEF PushesAreCollected
    <3>1. CASE Present(Task("queuepush", j)) \/ Present(Task("push", j))
      BY <2>8, <3>1 DEF BInv, OneInv, PushesAreCollected
    <3>2. CASE Task("queuepush", j) \in N \/ Task("push", j) \in N
      <4>1. j = i
        BY <2>2, <2>4, <3>2, TaskShape
      <4> QED BY <2>10, <4>1
    <3> QED BY <2>7, <3>1, <3>2
  <2>15. PushNotYetQueued'
    <3> SUFFICES ASSUME NEW j \in Images,
                        \/ Waiting(Task("queuepush", j))'
                        \/ \E v \in Workers :
                              /\ task'[v] = Task("queuepush", j)
                              /\ wpc'[v] \in {"attempt", "queuepush"},
                        Present(Task("push", j))'
                 PROVE  FALSE
      BY DEF PushNotYetQueued
    <3>1. Task("push", j) \notin N
      BY <2>2, <2>4, TaskShape
    <3>2. Present(Task("push", j))
      BY <2>7, <3>1
    <3>3. Task("queuepush", j) \in N => j = i
      BY <2>2, <2>4, TaskShape
    <3>4. Task("queuepush", j) \notin N
      BY <2>3, <3>2, <3>3
    <3>5. \/ Waiting(Task("queuepush", j))
          \/ \E v \in Workers : /\ task[v] = Task("queuepush", j)
                                /\ wpc[v] \in {"attempt", "queuepush"}
      <4>1. CASE Waiting(Task("queuepush", j))'
        BY <2>6, <3>4, <4>1
      <4>2. CASE ~Waiting(Task("queuepush", j))'
        BY <1>1, <1>2, <4>2
      <4> QED BY <4>1, <4>2
    <3> QED BY <3>2, <3>5 DEF BInv, OneInv, PushNotYetQueued
  <2>16. SuccessIsTrue'
    <3>1. /\ \A v \in Workers \ {w} :
                wpc'[v] = wpc[v] /\ success'[v] = success[v] /\ task'[v] = task[v]
          /\ wpc'[w] = "put" /\ success'[w] = success[w] /\ task'[w] = task[w]
      BY <1>1, <1>2
    <3> QED BY <1>1, <3>1, SuccessStep DEF BInv, OneInv
  <2> QED
    BY <1>3, <2>11, <2>12, <2>13, <2>14, <2>15, <2>16 DEF OneInv
<1> QED BY <1>4, <1>5

\* Queueing a follow-up moves it from the list of follow-ups to the queue.
LEMMA OneInvPutFollowup ==
    ASSUME BInv, NEW w \in Workers, PutFollowup(w) PROVE OneInv'
<1>1. PICK t \in pending[w] : /\ pending' = [pending EXCEPT ![w] = @ \ {t}]
                              /\ Put(QueueOf(w), t)
  BY DEF PutFollowup
<1>2. /\ t \in Tasks /\ QueueOf(w) \in QueueNames
      /\ UNCHANGED <<status, engine, task, success, wpc>>
  BY <1>1 DEF PutFollowup, At, extVars, BInv, TInv, TypeOK, QueueOf, QueueNames
<1>3. /\ pending'[w] = pending[w] \ {t}
      /\ \A v \in Workers \ {w} : pending'[v] = pending[v]
  BY <1>1 DEF BInv, TInv, TypeOK
<1>4. /\ t \notin QueuedTasks
      /\ \A v \in Workers : /\ task[v] # t
                            /\ t \in pending[v] => v = w
  BY <1>1, <1>2 DEF BInv, OneInv, OnePlace
<1>5. QueuedTasks' = QueuedTasks \cup {t} /\ QueueDistinct'
  <2>1. /\ QueuedTasks' = QueuedTasks \cup ({t} \cap Tasks)
        /\ QueueDistinct /\ t \notin QueuedTasks => QueueDistinct'
    BY <1>1, <1>2, PutQueued DEF BInv, TInv
  <2> QED BY <1>2, <1>4, <2>1 DEF BInv, OneInv
<1>6. \A u : /\ Waiting(u)' <=> Waiting(u)
             /\ Present(u)' <=> Present(u)
  BY <1>1, <1>2, <1>3, <1>5 DEF Waiting, Present, Held
<1>7. \A j \in Images : /\ Tried(j)' <=> Tried(j)
                        /\ Planned(j)' <=> Planned(j)
                        /\ Collected(j)' <=> Collected(j)
                        /\ Ready(j)' <=> Ready(j)
  <2>1. \A j \in Images : /\ Tried(j)' <=> Tried(j)
                          /\ Planned(j)' <=> Planned(j)
                          /\ Collected(j)' <=> Collected(j)
    BY <1>2 DEF Tried, Planned, Collected
  <2> QED BY <1>2, <2>1 DEF Ready
<1>8. OnePlace'
  <2> SUFFICES ASSUME NEW u \in Tasks, NEW v \in Workers, NEW x \in Workers
               PROVE  /\ u \in QueuedTasks' =>
                            task'[v] # u /\ u \notin pending'[v]
                      /\ task'[v] = u /\ task'[x] = u => v = x
                      /\ u \in pending'[v] /\ u \in pending'[x] => v = x
                      /\ u \in pending'[v] => task'[x] # u
    BY DEF OnePlace
  <2>1. /\ u \in QueuedTasks => task[v] # u /\ u \notin pending[v]
        /\ task[v] = u /\ task[x] = u => v = x
        /\ u \in pending[v] /\ u \in pending[x] => v = x
        /\ u \in pending[v] => task[x] # u
    BY DEF BInv, OneInv, OnePlace
  <2> QED BY <1>2, <1>3, <1>4, <1>5, <2>1
<1>9. WaitingIsFresh' /\ BuildsAreReady' /\ PushesAreCollected'
  BY <1>2, <1>6, <1>7
     DEF BInv, OneInv, WaitingIsFresh, BuildsAreReady, PushesAreCollected
<1>10. PushNotYetQueued'
  BY <1>2, <1>6 DEF BInv, OneInv, PushNotYetQueued
<1>11. SuccessIsTrue'
  BY <1>2 DEF BInv, OneInv, SuccessIsTrue, Tried
<1> QED BY <1>5, <1>8, <1>9, <1>10, <1>11 DEF OneInv

\* With task_done the task disappears: its image is done with.
LEMMA OneInvTaskDone ==
    ASSUME BInv, NEW w \in Workers, TaskDone(w) PROVE OneInv'
<1>1. /\ UNCHANGED <<status, engine, queue, pending>>
      /\ task'[w] = NoTask /\ wpc'[w] = "loop" /\ success'[w] = FALSE
      /\ \A v \in Workers \ {w} : /\ task'[v] = task[v] /\ wpc'[v] = wpc[v]
                                  /\ success'[v] = success[v]
  BY DEF TaskDone, At, Goto, extVars, BInv, TInv, TypeOK
<1>2. QueuedTasks' = QueuedTasks /\ QueueDistinct'
  BY <1>1, NoTaskQueued
<1>3. \A u \in Tasks : /\ Waiting(u)' <=> Waiting(u)
                       /\ Present(u)' => Present(u)
  BY <1>1, <1>2, TaskShape DEF Waiting, Present, Held
<1>4. \A j \in Images : /\ Tried(j)' <=> Tried(j)
                        /\ Planned(j)' <=> Planned(j)
                        /\ Collected(j) => Collected(j)'
  BY <1>1, TaskShape DEF Tried, Planned, Collected
<1>5. \A j \in Images : Ready(j) => Ready(j)'
  BY <1>1, <1>4 DEF Ready
<1>6. OnePlace'
  <2> SUFFICES ASSUME NEW u \in Tasks, NEW v \in Workers, NEW x \in Workers
               PROVE  /\ u \in QueuedTasks' =>
                            task'[v] # u /\ u \notin pending'[v]
                      /\ task'[v] = u /\ task'[x] = u => v = x
                      /\ u \in pending'[v] /\ u \in pending'[x] => v = x
                      /\ u \in pending'[v] => task'[x] # u
    BY DEF OnePlace
  <2>1. /\ u \in QueuedTasks => task[v] # u /\ u \notin pending[v]
        /\ task[v] = u /\ task[x] = u => v = x
        /\ u \in pending[v] /\ u \in pending[x] => v = x
        /\ u \in pending[v] => task[x] # u
    BY DEF BInv, OneInv, OnePlace
  <2> QED BY <1>1, <1>2, <2>1, TaskShape
<1>7. WaitingIsFresh' /\ BuildsAreReady' /\ PushesAreCollected'
  BY <1>1, <1>3, <1>4, <1>5, TaskShape
     DEF BInv, OneInv, WaitingIsFresh, BuildsAreReady, PushesAreCollected
<1>8. PushNotYetQueued'
  <2> SUFFICES ASSUME NEW j \in Images,
                      \/ Waiting(Task("queuepush", j))'
                      \/ \E v \in Workers :
                            /\ task'[v] = Task("queuepush", j)
                            /\ wpc'[v] \in {"attempt", "queuepush"},
                      Present(Task("push", j))'
               PROVE  FALSE
    BY DEF PushNotYetQueued
  <2>1. Present(Task("push", j))
    BY <1>3, TaskShape
  <2>2. \/ Waiting(Task("queuepush", j))
        \/ \E v \in Workers : /\ task[v] = Task("queuepush", j)
                              /\ wpc[v] \in {"attempt", "queuepush"}
    <3>1. CASE Waiting(Task("queuepush", j))'
      BY <1>3, <3>1, TaskShape
    <3>2. CASE ~Waiting(Task("queuepush", j))'
      BY <1>1, <3>2, TaskShape
    <3> QED BY <3>1, <3>2
  <2> QED BY <2>1, <2>2 DEF BInv, OneInv, PushNotYetQueued
<1>9. SuccessIsTrue'
  <2>1. ~success'[w] /\ wpc'[w] # "squash"
    BY <1>1
  <2> QED BY <1>1, <2>1, SuccessStep DEF BInv, OneInv
<1> QED BY <1>2, <1>6, <1>7, <1>8, <1>9 DEF OneInv
-----------------------------------------------------------------------------
LEMMA OneInvStep == BInv /\ [Next]_vars => OneInv'
<1> SUFFICES ASSUME BInv, [Next]_vars PROVE OneInv'
  OBVIOUS
<1>1. CASE UNCHANGED vars
  <2>1. UNCHANGED <<status, task, pending, success, wpc, engine, queue>>
    BY <1>1 DEF vars, queueVars, mainVars, workerVars, extVars
  <2>2. QueuedTasks' = QueuedTasks /\ QueueDistinct'
    BY <2>1, NoTaskQueued
  <2>3. \A v \in Workers : wpc'[v] \notin {"followups", "put"} => ~success[v]
    BY <2>1 DEF BInv, OneInv, SuccessIsTrue
  <2> QED BY <2>1, <2>2, <2>3, QuietStep
<1>2. CASE MainStep \/ Interrupt \/ JoinTimeout
  BY <1>2, OneInvMain
<1>3. ASSUME NEW w \in Workers, WorkerStep(w) PROVE OneInv'
  <2>1. CASE Loop(w) \/ PutBack(w) \/ Attempt(w) \/ SourcesReady(w)
    BY <2>1, OneInvQuietWorker
  <2>2. CASE Get(w)
    <3>1. CASE Head(queue[QueueOf(w)]) # Tombstone
      BY <2>2, <3>1, OneInvGet
    <3>2. CASE Head(queue[QueueOf(w)]) = Tombstone
      BY <2>2, <3>2, OneInvGetTombstone
    <3> QED BY <3>1, <3>2
  <2>3. CASE BuildRun(w) /\ ~SourcesReady(w)
    BY <2>3, OneInvBuildRun
  <2>4. CASE PushRun(w)
    BY <2>4, OneInvQueuePush, OneInvPushRun DEF PushRun
  <2>5. CASE CollectFollowups(w) \/ PutFollowup(w) \/ TaskDone(w)
    BY <2>5, OneInvCollect, OneInvPutFollowup, OneInvTaskDone
  <2> QED BY <1>3, <2>1, <2>2, <2>3, <2>4, <2>5 DEF WorkerStep
<1> QED BY <1>1, <1>2, <1>3 DEF Next, Terminated

LEMMA BInvAlways == Spec => []BInv
<1>1. Init => BInv
  BY TInvInit, OneInvInit DEF BInv
<1>2. BInv /\ [Next]_vars => BInv'
  <2>1. BInv => TInv
    BY DEF BInv
  <2> QED BY <2>1, TInvStep, OneInvStep DEF BInv
<1> QED BY <1>1, <1>2, PTL DEF Spec

(***************************************************************************)
(* No two threads ever work on the same image, in any tree, with any       *)
(* number of threads and retries and however often the run is interrupted: *)
(* the writes of image.status, which no lock protects, never race.         *)
(***************************************************************************)
THEOREM OneWriter == Spec => []OneWriterPerImage
<1>1. BInv => OneWriterPerImage
  <2> SUFFICES ASSUME BInv, NEW v \in Workers, NEW w \in Workers,
                      NEW i \in Images, Works(v, i), Works(w, i)
               PROVE  v = w
    BY DEF OneWriterPerImage
  <2>1. /\ Holds(v, "build", i) \/ Holds(v, "push", i)
        /\ Holds(w, "build", i) \/ Holds(w, "push", i)
        /\ wpc[v] # "put" /\ wpc[w] # "put"
    BY DEF Works, InRun, Running
  <2>2. \A k \in {"build", "push"} : Holds(v, k, i) /\ Holds(w, k, i) => v = w
    BY TaskShape DEF Holds, BInv, OneInv, OnePlace
  <2>3. ASSUME NEW x \in Workers, NEW y \in Workers,
               Holds(x, "build", i), Holds(y, "push", i), wpc[x] # "put"
        PROVE  FALSE
    <3>1. Collected(i)
      BY <2>3 DEF Holds, Present, Held, BInv, OneInv, PushesAreCollected
    <3> QED BY <2>3, <3>1 DEF Collected, Holds
  <2> QED BY <2>1, <2>2, <2>3
<1> QED BY BInvAlways, <1>1, PTL

(***************************************************************************)
(* A thread asks the engine to build an image only when this run has built *)
(* its parent, or the filter skipped the parent, or it has none.           *)
(***************************************************************************)
THEOREM ParentsFirst == Spec => []ParentBuiltFirst
<1>1. BInv => ParentBuiltFirst
  <2> SUFFICES ASSUME BInv, NEW w \in Workers,
                      wpc[w] \in {"sources", "engine", "squash"}
               PROVE  LET p == Parent[task[w].image] IN
                      p = NoImage \/ status[p] = "skipped" \/ p \in engine
    BY DEF ParentBuiltFirst
  <2>1. task[w] \in Tasks /\ task[w].kind = "build"
    BY DEF BInv, TInv, PcMatchesTask, Idle, BuildPcs
  <2>2. PICK i \in Images : task[w] = Task("build", i)
    BY <2>1, TaskShape
  <2>3. task[w].image = i /\ Ready(i)
    BY <2>2, TaskShape DEF BInv, OneInv, BuildsAreReady, Present, Held
  <2> QED BY <2>3 DEF Ready, Collected
<1> QED BY BInvAlways, <1>1, PTL
=============================================================================
