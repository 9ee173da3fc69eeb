------------------------ MODULE KollaBuildExitProofs ------------------------
(***************************************************************************)
(* Proofs about the end of a run: the counters run_build polls, and what   *)
(* an uninterrupted run has done when it is over.                          *)
(***************************************************************************)
EXTENDS KollaBuildStatusProofs

Early == {"start", "append", "pollBuild", "pollPush"}

Late == {"tombPush", "tombBuild", "join", "summary", "cleanup", "return",
         "exited"}

\* The push queue and its threads know only pushes, the build queue and its
\* threads only builds and the queueing of pushes.
Belongs(t, q) == t.kind = "push" <=> q = "push"

KindsAreApart ==
    /\ \A w \in Workers :
          /\ task[w] \in Tasks => Belongs(task[w], QueueOf(w))
          /\ \A t \in pending[w] : Belongs(t, QueueOf(w))
    /\ \A q \in QueueNames : \A k \in 1..Len(queue[q]) :
          queue[q][k] \in Tasks => Belongs(queue[q][k], q)

\* Before run_build puts a tombstone there is none.
NoTombstone ==
    mpc \in Early =>
        /\ \A q \in QueueNames : queue[q] \in Seq(Tasks)
        /\ \A w \in Workers : wpc[w] # "putback"

Busy(q) == {w \in Workers : QueueOf(w) = q /\ task[w] # NoTask}

CountersExact ==
    mpc \in Early =>
        \A q \in QueueNames : unfinished[q] = Len(queue[q]) + Cardinality(Busy(q))

\* No task of a queue is queued, held or among the follow-ups.
Drained(q) == \A t \in Tasks : Present(t) => ~Belongs(t, q)

PollsMeanDrained ==
    /\ mpc = "pollPush" \/ mpc \in Late => Drained("build")
    /\ mpc \in Late => Drained("push")

\* The report is that of the statuses as they are.
ReportIsCurrent ==
    /\ mpc \in Early \cup {"tombPush", "tombBuild", "join", "summary"} =>
          report = NotReported
    /\ report # NotReported \/ mpc = "exited" =>
          \A i \in Images : report[i] = Class(i)
    /\ mpc = "exited" /\ exitCode = "0" =>
          \A i \in Images : report[i] # "bad"

JustBuilt(w, i) ==
    task[w] = Task("build", i) /\ wpc[w] = "followups" /\ success[w]

\* An image of the plan that is untried is on its way, or its parent was
\* not built, or was built just now.
NothingForgotten ==
    \A i \in Images : status[i] = "matched" /\ ~Present(Task("build", i)) =>
        LET p == Parent[i] IN
        /\ p \in Images /\ status[p] # "skipped"
        /\ ~Present(Task("queuepush", p)) /\ ~Present(Task("push", p))
        /\ status[p] = "built" => \E w \in Workers : JustBuilt(w, p)

FirstPush(w, i) ==
    /\ attempt[w] = 0
    /\ \/ task[w] = Task("queuepush", i) /\ wpc[w] \in {"attempt", "queuepush"}
       \/ task[w] = Task("push", i) /\ wpc[w] \in {"attempt", "push"}

\* With --push, the push of a built image was made or is on its way.
NoPushForgotten ==
    conf.push => \A i \in Images : status[i] = "built" =>
        \/ i \in registry
        \/ Waiting(Task("queuepush", i)) \/ Waiting(Task("push", i))
        \/ \E w \in Workers : JustBuilt(w, i) \/ FirstPush(w, i)

Undisturbed ==
    /\ mpc \in Early \cup Late
    /\ \A w \in Workers : ~should_stop[w]
    /\ NoTombstone /\ CountersExact /\ PollsMeanDrained
    /\ ReportIsCurrent /\ NothingForgotten /\ NoPushForgotten

ExitInv ==
    /\ KindsAreApart
    /\ mpc = "waiting" => interrupts > 0
    /\ interrupts = 0 => Undisturbed

XInv == SInv /\ ExitInv
-----------------------------------------------------------------------------
(***************************************************************************)
(* What the steps do to the queues and their counters, and to the program  *)
(* counter of the main thread as long as nobody presses Ctrl-C.            *)
(***************************************************************************)
NoNewPutBack ==
    \A w \in Workers : wpc'[w] = "putback" => wpc[w] = "putback"

QueuesRest == UNCHANGED <<queue, unfinished, task>> /\ NoNewPutBack

PutsTombstone(q) ==
    /\ Put(q, Tombstone) /\ UNCHANGED task
    /\ mpc \notin Early \/ \E w \in Workers : wpc[w] = "putback"

PutsTask(q, t) ==
    /\ Put(q, t) /\ UNCHANGED task /\ NoNewPutBack
    /\ \/ q = "push" /\ t.kind = "push"
       \/ \E w \in Workers : q = QueueOf(w) /\ t \in pending[w]

LEMMA QueueStep ==
    ASSUME TInv, [Next]_vars
    PROVE  \/ QueuesRest
           \/ \E q \in QueueNames : PutsTombstone(q)
           \/ \E q \in QueueNames, t \in Tasks : PutsTask(q, t)
           \/ \E w \in Workers : Get(w) \/ TaskDone(w)
<1> USE DEF At, Goto, GoMain, queueVars, mainVars, workerVars, extVars
<1>0. wpc \in [Workers -> {"new", "loop", "get", "putback", "attempt",
                           "followups", "put", "exited"} \cup Running]
  BY DEF TInv, TypeOK
<1>1. CASE UNCHANGED vars
  BY <1>1 DEF vars, QueuesRest, NoNewPutBack
<1>2. ASSUME NEW w \in Workers, StartWorker(w) PROVE QueuesRest
  BY <1>0, <1>2 DEF StartWorker, QueuesRest, NoNewPutBack
<1>3. ASSUME NEW w \in Workers, StopWorker(w) PROVE QueuesRest
  BY <1>3 DEF StopWorker, QueuesRest, NoNewPutBack
<1>4. CASE \/ AppendWorker \/ PollBuild \/ PollPush \/ Join \/ WaitWorkers
           \/ JoinTimeout \/ Interrupt \/ Summary \/ Cleanup \/ Return
  BY <1>4 DEF AppendWorker, PollBuild, PollPush, Join, WaitWorkers, JoinTimeout,
              Interrupt, Summary, Cleanup, Return, QueuesRest, NoNewPutBack
<1>5. CASE TombstonePush \/ TombstoneBuild \/ StopPushQueue \/ StopBuildQueue
  BY <1>5 DEF TombstonePush, TombstoneBuild, StopPushQueue, StopBuildQueue,
              PutTombstone, PutsTombstone, QueueNames, Early
<1>6. ASSUME NEW w \in Workers, WorkerStep(w)
      PROVE  \/ QueuesRest
             \/ \E q \in QueueNames : PutsTombstone(q)
             \/ \E q \in QueueNames, t \in Tasks : PutsTask(q, t)
             \/ Get(w) \/ TaskDone(w)
  <2>q. QueueOf(w) \in QueueNames /\ "push" \in QueueNames
    BY DEF QueueOf, QueueNames
  <2>1. CASE Loop(w) \/ CollectFollowups(w)
    BY <1>0, <2>1 DEF Loop, CollectFollowups, QueuesRest, NoNewPutBack
  <2>2. CASE Attempt(w)
    <3>1. wpc[w] = "attempt" /\ task[w] \in Tasks
      BY <2>2 DEF Attempt, TInv, PcMatchesTask, Idle
    <3>2. RunOf(task[w].kind) # "putback"
      BY <3>1, TaskShape DEF RunOf
    <3> QED BY <1>0, <2>2, <3>2 DEF Attempt, QueuesRest, NoNewPutBack
  <2>3. CASE BuildRun(w) \/ PushOk(w) \/ PushFail(w)
    <3>1. /\ UNCHANGED <<queue, unfinished, task>>
          /\ \E pc \in BuildPcs \cup {"followups", "attempt"} :
                wpc' = [wpc EXCEPT ![w] = pc]
      BY <2>3 DEF BuildRun, Check, SourcesReady, SourcesFail, EngineBuildOk,
             EngineBuildFail, SquashOk, SquashNoParentLayer, SquashFail, PushOk,
             PushFail, Finish, EndBuild, BuildPcs
    <3> QED BY <1>0, <3>1 DEF QueuesRest, NoNewPutBack, BuildPcs
  <2>4. CASE PutBack(w)
    BY <2>q, <2>4 DEF PutBack, PutsTombstone
  <2>5. CASE RunQueuePush(w)
    <3>1. task[w] \in Tasks
      BY <2>5 DEF RunQueuePush, TInv, PcMatchesTask, Idle
    <3>2. Task("push", task[w].image) \in Tasks
          /\ Task("push", task[w].image).kind = "push"
      BY <3>1, TaskShape
    <3>3. PutsTask("push", Task("push", task[w].image))
      BY <1>0, <2>5, <3>2 DEF RunQueuePush, Finish, PutsTask, NoNewPutBack
    <3> QED BY <2>q, <3>2, <3>3
  <2>6. CASE PutFollowup(w)
    <3>1. PICK t \in pending[w] : Put(QueueOf(w), t)
      BY <2>6 DEF PutFollowup
    <3>2. t \in Tasks /\ UNCHANGED <<task, wpc>>
      BY <2>6, <3>1 DEF PutFollowup, TInv, TypeOK
    <3> QED BY <2>q, <3>1, <3>2 DEF PutsTask, NoNewPutBack
  <2> HIDE DEF At, Goto, GoMain, queueVars, mainVars, workerVars, extVars
  <2> QED BY <1>6, <2>1, <2>2, <2>3, <2>4, <2>5, <2>6 DEF WorkerStep, PushRun
<1> HIDE DEF At, Goto, GoMain, queueVars, mainVars, workerVars, extVars
<1> QED BY <1>1, <1>2, <1>3, <1>4, <1>5, <1>6 DEF Next, MainStep, Terminated

\* The follow-ups a thread has yet to queue are old ones or those of a build.
LEMMA PendingStep ==
    ASSUME TInv, [Next]_vars, NEW w \in Workers, NEW t \in pending'[w]
    PROVE  \/ t \in pending[w]
           \/ task[w] \in Tasks /\ task[w].kind = "build" /\ t.kind # "push"
<1> USE DEF At, Goto, GoMain, PutTombstone, queueVars, mainVars, workerVars, extVars
<1>0. pending \in [Workers -> SUBSET Tasks]
  BY DEF TInv, TypeOK
<1>1. ASSUME NEW v \in Workers, CollectFollowups(v)
      PROVE  \/ t \in pending[w]
             \/ task[w] \in Tasks /\ task[w].kind = "build" /\ t.kind # "push"
  <2>1. CASE v # w
    BY <1>0, <1>1, <2>1 DEF CollectFollowups
  <2>2. CASE v = w
    <3>1. t \in Followups(task[w]) /\ task[w] \in Tasks
      BY <1>0, <1>1, <2>2 DEF CollectFollowups, TInv, PcMatchesTask, Idle
    <3>2. task[w].kind = "build" /\ task[w].image \in Images
      BY <3>1, TaskShape DEF Followups
    <3>3. \E i \in Images : t = Task("queuepush", i) \/ t = Task("build", i)
      BY <3>1, <3>2 DEF Followups, Children
    <3> QED BY <3>1, <3>2, <3>3, TaskShape
  <2> QED BY <2>1, <2>2
<1>2. ASSUME NEW v \in Workers, PutFollowup(v) PROVE t \in pending[w]
  BY <1>0, <1>2 DEF PutFollowup
<1>3. ASSUME NEW v \in Workers,
             \/ Loop(v) \/ Get(v) \/ PutBack(v) \/ Attempt(v) \/ TaskDone(v)
             \/ BuildRun(v) \/ PushRun(v)
      PROVE  UNCHANGED pending
  BY <1>3 DEF Loop, Get, PutBack, Attempt, TaskDone, BuildRun, Check,
         SourcesReady, SourcesFail, EngineBuildOk, EngineBuildFail, SquashOk,
         SquashNoParentLayer, SquashFail, PushRun, RunQueuePush, PushOk,
         PushFail, Finish, EndBuild
<1>4. CASE MainStep \/ Interrupt \/ JoinTimeout \/ UNCHANGED vars
  BY <1>4 DEF vars, MainStep, StartWorker, StopWorker, AppendWorker, PollBuild,
         PollPush, TombstonePush, TombstoneBuild, Join, StopPushQueue,
         StopBuildQueue, WaitWorkers, Summary, Cleanup, Return, Interrupt,
         JoinTimeout
<1> HIDE DEF At, Goto, GoMain, PutTombstone, queueVars, mainVars, workerVars, extVars
<1> QED BY <1>1, <1>2, <1>3, <1>4 DEF Next, Terminated, WorkerStep

\* The main thread, as long as nobody presses Ctrl-C.
CalmMove ==
    \/ UNCHANGED <<mpc, report, exitCode>>
    \/ /\ mpc \in {"start", "append"} /\ mpc' \in {"start", "append", "pollBuild"}
       /\ UNCHANGED <<report, exitCode>>
    \/ PollBuild \/ PollPush \/ Summary \/ Return
    \/ /\ \/ mpc = "tombPush" /\ mpc' = "tombBuild"
          \/ mpc = "tombBuild" /\ mpc' = "join"
          \/ mpc = "join" /\ mpc' = "summary"
          \/ mpc = "cleanup" /\ mpc' = "return"
       /\ UNCHANGED <<report, exitCode>>

LEMMA MainMoves ==
    ASSUME TInv, [Next]_vars, mpc \in Early \cup Late, interrupts' = 0
    PROVE  interrupts = 0 /\ UNCHANGED should_stop /\ CalmMove
<1> USE DEF GoMain, PutTombstone, queueVars, mainVars, workerVars, extVars
<1>0. interrupts \in Nat
  BY BuildAssumption DEF TInv, TypeOK
<1>1. CASE UNCHANGED vars
  BY <1>1 DEF vars, CalmMove
<1>2. ASSUME NEW w \in Workers, StartWorker(w)
      PROVE  interrupts = 0 /\ UNCHANGED should_stop /\ CalmMove
  BY <1>2 DEF StartWorker, CalmMove
<1>3. ASSUME NEW w \in Workers, StopWorker(w) PROVE FALSE
  BY <1>3 DEF StopWorker, Early, Late
<1>4. CASE \/ StopPushQueue \/ StopBuildQueue \/ WaitWorkers \/ JoinTimeout
           \/ Interrupt
  BY <1>0, <1>4 DEF StopPushQueue, StopBuildQueue, WaitWorkers, JoinTimeout,
                    Interrupt, Early, Late
<1>5. CASE AppendWorker
  BY <1>5 DEF AppendWorker, CalmMove
<1>6. CASE PollBuild \/ PollPush \/ Summary \/ Return
  BY <1>6 DEF PollBuild, PollPush, Summary, Return, CalmMove
<1>7. CASE TombstonePush \/ TombstoneBuild \/ Join \/ Cleanup
  BY <1>7 DEF TombstonePush, TombstoneBuild, Join, Cleanup, CalmMove
<1>8. ASSUME NEW w \in Workers, WorkerStep(w)
      PROVE  interrupts = 0 /\ UNCHANGED should_stop /\ CalmMove
  <2>1. UNCHANGED <<mpc, interrupts, report, exitCode, should_stop>>
    BY <1>8 DEF WorkerStep, Loop, Get, PutBack, Attempt, TaskDone, BuildRun,
           Check, SourcesReady, SourcesFail, EngineBuildOk, EngineBuildFail,
           SquashOk, SquashNoParentLayer, SquashFail, PushRun, RunQueuePush,
           PushOk, PushFail, CollectFollowups, PutFollowup, Finish, EndBuild
  <2> QED BY <2>1 DEF CalmMove
<1> HIDE DEF GoMain, PutTombstone, queueVars, mainVars, workerVars, extVars
<1> QED BY <1>1, <1>2, <1>3, <1>4, <1>5, <1>6, <1>7, <1>8
       DEF Next, MainStep, Terminated
-----------------------------------------------------------------------------
(***************************************************************************)
(* Kinds, tombstones and counters.                                         *)
(***************************************************************************)
\* Queue.put and Queue.get, queue by queue.
LEMMA PutSeq ==
    ASSUME TInv, NEW q \in QueueNames, NEW t \in Tasks \cup {Tombstone},
           Put(q, t)
    PROVE  /\ queue'[q] = Append(queue[q], t)
           /\ Len(queue'[q]) = Len(queue[q]) + 1
           /\ unfinished'[q] = unfinished[q] + 1
           /\ \A k \in 1..Len(queue'[q]) :
                 \/ queue'[q][k] = t
                 \/ \E j \in 1..Len(queue[q]) : queue'[q][k] = queue[q][j]
           /\ \A r \in QueueNames \ {q} : /\ queue'[r] = queue[r]
                                          /\ unfinished'[r] = unfinished[r]
<1> DEFINE Q == queue[q]
<1>1. Q \in Seq(Tasks \cup {Tombstone}) /\ Len(Q) \in Nat
  BY LenProperties DEF TInv, TypeOK
<1>2. /\ queue'[q] = Append(Q, t) /\ unfinished'[q] = unfinished[q] + 1
      /\ \A r \in QueueNames \ {q} : /\ queue'[r] = queue[r]
                                     /\ unfinished'[r] = unfinished[r]
  BY DEF Put, TInv, TypeOK
<1>3. /\ Len(Append(Q, t)) = Len(Q) + 1
      /\ \A k \in 1..Len(Q) : Append(Q, t)[k] = Q[k]
      /\ Append(Q, t)[Len(Q) + 1] = t
  BY <1>1, AppendProperties
<1>4. \A k \in 1..(Len(Q) + 1) : k \in 1..Len(Q) \/ k = Len(Q) + 1
  BY <1>1
<1> QED BY <1>2, <1>3, <1>4

LEMMA GetSeq ==
    ASSUME TInv, NEW w \in Workers, Get(w)
    PROVE  LET q == QueueOf(w) IN
           /\ queue[q] \in Seq(Tasks \cup {Tombstone}) /\ queue[q] # <<>>
           /\ 1 \in 1..Len(queue[q]) /\ Head(queue[q]) = queue[q][1]
           /\ queue'[q] = Tail(queue[q])
           /\ Len(queue'[q]) = Len(queue[q]) - 1
           /\ \A k \in 1..Len(queue'[q]) :
                 \E j \in 1..Len(queue[q]) : queue'[q][k] = queue[q][j]
           /\ \A r \in QueueNames \ {q} : queue'[r] = queue[r]
<1> DEFINE q == QueueOf(w)
<1>1. q \in QueueNames /\ queue[q] # <<>> /\ queue' = [queue EXCEPT ![q] = Tail(@)]
  BY DEF Get, QueueOf, QueueNames
<1>2. /\ queue[q] \in Seq(Tasks \cup {Tombstone})
      /\ queue'[q] = Tail(queue[q])
      /\ \A r \in QueueNames \ {q} : queue'[r] = queue[r]
  BY <1>1 DEF TInv, TypeOK
<1>3. /\ Len(queue[q]) \in Nat /\ Len(queue[q]) # 0
      /\ Head(queue[q]) = queue[q][1]
      /\ Len(Tail(queue[q])) = Len(queue[q]) - 1
      /\ \A k \in 1..Len(Tail(queue[q])) : Tail(queue[q])[k] = queue[q][k + 1]
  BY <1>1, HeadAndTail DEF TInv
<1> HIDE DEF q
<1>4. /\ 1 \in 1..Len(queue[q])
      /\ \A k \in 1..(Len(queue[q]) - 1) : k + 1 \in 1..Len(queue[q])
  BY <1>3
<1>5. \A k \in 1..Len(queue'[q]) :
          \E j \in 1..Len(queue[q]) : queue'[q][k] = queue[q][j]
  BY <1>2, <1>3, <1>4
<1> QED BY <1>1, <1>2, <1>3, <1>4, <1>5 DEF q

\* What Queue.get hands to a thread.
LEMMA GetTask ==
    ASSUME TInv, NEW w \in Workers, Get(w)
    PROVE  LET q == QueueOf(w) IN
           /\ task[w] = NoTask /\ UNCHANGED unfinished
           /\ \A v \in Workers \ {w} : task'[v] = task[v] /\ wpc'[v] = wpc[v]
           /\ Head(queue[q]) = Tombstone => task'[w] = NoTask
           /\ Head(queue[q]) # Tombstone =>
                 task'[w] = Head(queue[q]) /\ wpc'[w] = "attempt"
  BY DEF Get, At, Goto, TInv, TypeOK, PcMatchesTask, Idle

LEMMA DoneTask ==
    ASSUME TInv, NEW w \in Workers, TaskDone(w)
    PROVE  /\ task[w] \in Tasks /\ task'[w] = NoTask /\ UNCHANGED queue
           /\ \A v \in Workers \ {w} : task'[v] = task[v]
           /\ \A v \in Workers : wpc'[v] = IF v = w THEN "loop" ELSE wpc[v]
           /\ unfinished' = [unfinished EXCEPT ![QueueOf(w)] = @ - 1]
  BY DEF TaskDone, At, Goto, TInv, TypeOK, PcMatchesTask, Idle

LEMMA KindsStay ==
    ASSUME TInv, KindsAreApart, [Next]_vars
    PROVE  KindsAreApart'
<1>n. \A w \in Workers : QueueOf(w) \in QueueNames
  BY DEF QueueOf, QueueNames
<1>1. ASSUME NEW w \in Workers, task'[w] \in Tasks
      PROVE  Belongs(task'[w], QueueOf(w))
  <2>1. CASE task'[w] = task[w]
    BY <1>1, <2>1 DEF KindsAreApart
  <2>2. CASE Get(w)
    <3>1. Head(queue[QueueOf(w)]) # Tombstone
      BY <1>1, <2>2, GetTask, TaskShape
    <3>2. /\ task'[w] = queue[QueueOf(w)][1]
          /\ 1 \in 1..Len(queue[QueueOf(w)])
      BY <2>2, <3>1, GetTask, GetSeq
    <3> QED BY <1>n, <1>1, <3>2 DEF KindsAreApart
  <2>3. ASSUME NEW v \in Workers, \/ Get(v) /\ v # w
                                  \/ TaskDone(v)
        PROVE  task'[w] = task[w]
    BY <1>1, <2>3, GetTask, DoneTask, TaskShape
  <2> QED BY <2>1, <2>2, <2>3, QueueStep DEF QueuesRest, PutsTombstone, PutsTask
<1>2. ASSUME NEW w \in Workers, NEW t \in pending'[w]
      PROVE  Belongs(t, QueueOf(w))
  BY <1>2, PendingStep DEF KindsAreApart, Belongs
<1>3. ASSUME NEW q \in QueueNames, NEW k \in 1..Len(queue'[q]),
             queue'[q][k] \in Tasks
      PROVE  Belongs(queue'[q][k], q)
  <2>1. CASE \E j \in 1..Len(queue[q]) : queue'[q][k] = queue[q][j]
    BY <1>3, <2>1 DEF KindsAreApart
  <2>2. ASSUME NEW r \in QueueNames, NEW t \in Tasks, PutsTask(r, t)
        PROVE  Belongs(queue'[q][k], q)
    <3>1. Belongs(t, r)
      BY <2>2 DEF PutsTask, Belongs, KindsAreApart
    <3>2. \/ q = r /\ queue'[q][k] = t
          \/ \E j \in 1..Len(queue[q]) : queue'[q][k] = queue[q][j]
      BY <1>3, <2>2, PutSeq DEF PutsTask
    <3> QED BY <2>1, <3>1, <3>2
  <2>3. ASSUME NEW r \in QueueNames, PutsTombstone(r)
        PROVE  \E j \in 1..Len(queue[q]) : queue'[q][k] = queue[q][j]
    <3>1. Put(r, Tombstone) /\ Tombstone \notin Tasks
      BY <2>3, TaskShape DEF PutsTombstone
    <3>2. CASE q = r
      BY <1>3, <3>1, <3>2, PutSeq
    <3>3. CASE q # r
      <4>1. queue'[q] = queue[q]
        BY <3>1, <3>3, PutSeq
      <4> QED BY <1>3, <4>1
    <3> QED BY <3>2, <3>3
  <2>4. ASSUME NEW w \in Workers, Get(w) \/ TaskDone(w)
        PROVE  \E j \in 1..Len(queue[q]) : queue'[q][k] = queue[q][j]
    BY <1>3, <1>n, <2>4, GetSeq, DoneTask
  <2>5. CASE UNCHANGED queue
    BY <2>1, <2>5
  <2> QED BY <2>1, <2>2, <2>3, <2>4, <2>5, QueueStep DEF QueuesRest
<1> QED BY <1>1, <1>2, <1>3 DEF KindsAreApart

LEMMA NoTombstoneYet ==
    ASSUME TInv, NoTombstone, mpc \in Early, [Next]_vars
    PROVE  /\ \A q \in QueueNames : queue'[q] \in Seq(Tasks)
           /\ \A w \in Workers : wpc'[w] # "putback"
<1>1. /\ \A q \in QueueNames : queue[q] \in Seq(Tasks)
      /\ \A w \in Workers : wpc[w] # "putback"
  BY DEF NoTombstone
<1>2. CASE QueuesRest
  BY <1>1, <1>2 DEF QueuesRest, NoNewPutBack
<1>3. ASSUME NEW q \in QueueNames, NEW t \in Tasks, PutsTask(q, t)
      PROVE  /\ \A r \in QueueNames : queue'[r] \in Seq(Tasks)
             /\ \A w \in Workers : wpc'[w] # "putback"
  <2>1. Append(queue[q], t) \in Seq(Tasks)
    BY <1>1, AppendProperties
  <2>2. \A r \in QueueNames : queue'[r] = IF r = q THEN Append(queue[q], t)
                                                  ELSE queue[r]
    BY <1>3, PutSeq DEF PutsTask
  <2> QED BY <1>1, <1>3, <2>1, <2>2 DEF PutsTask, NoNewPutBack
<1>4. ASSUME NEW w \in Workers, Get(w)
      PROVE  /\ \A r \in QueueNames : queue'[r] \in Seq(Tasks)
             /\ \A v \in Workers : wpc'[v] # "putback"
  <2>1. QueueOf(w) \in QueueNames /\ queue[QueueOf(w)] # <<>>
    BY <1>4, GetSeq DEF QueueOf, QueueNames
  <2>2. /\ Head(queue[QueueOf(w)]) \in Tasks
        /\ Tail(queue[QueueOf(w)]) \in Seq(Tasks)
    BY <1>1, <2>1, HeadTailProperties
  <2>3. \A r \in QueueNames : queue'[r] \in Seq(Tasks)
    BY <1>1, <1>4, <2>2, GetSeq
  <2>4. Head(queue[QueueOf(w)]) # Tombstone
    BY <2>2, TaskShape
  <2>5. /\ wpc'[w] = "attempt"
        /\ \A v \in Workers \ {w} : wpc'[v] = wpc[v]
    BY <1>4, <2>4, GetTask
  <2> QED BY <1>1, <2>3, <2>5
<1>5. ASSUME NEW w \in Workers, TaskDone(w)
      PROVE  /\ \A r \in QueueNames : queue'[r] \in Seq(Tasks)
             /\ \A v \in Workers : wpc'[v] # "putback"
  BY <1>1, <1>5, DoneTask
<1> QED BY <1>1, <1>2, <1>3, <1>4, <1>5, QueueStep DEF PutsTombstone

LEMMA CountersStay ==
    ASSUME TInv, NoTombstone, CountersExact, mpc \in Early, [Next]_vars
    PROVE  \A q \in QueueNames :
              unfinished'[q] = Len(queue'[q]) + Cardinality(Busy(q)')
<1>1. ASSUME NEW q \in QueueNames
      PROVE  /\ unfinished[q] = Len(queue[q]) + Cardinality(Busy(q))
             /\ Len(queue[q]) \in Nat
             /\ IsFiniteSet(Busy(q)) /\ Cardinality(Busy(q)) \in Nat
  <2>1. Busy(q) \subseteq BuildThreads \/ Busy(q) \subseteq PushThreads
    BY DEF Busy, Workers, QueueOf, QueueNames
  <2>2. IsFiniteSet(Busy(q))
    BY <2>1, FS_Subset, BuildAssumption
  <2> QED
    BY <2>2, FS_CardinalityType, LenProperties DEF CountersExact, TInv, TypeOK
<1>2. ASSUME UNCHANGED task, NEW q \in QueueNames PROVE Busy(q)' = Busy(q)
  BY <1>2 DEF Busy
<1>3. CASE QueuesRest
  BY <1>1, <1>2, <1>3 DEF QueuesRest
<1>4. ASSUME NEW r \in QueueNames, NEW t \in Tasks, PutsTask(r, t),
             NEW q \in QueueNames
      PROVE  unfinished'[q] = Len(queue'[q]) + Cardinality(Busy(q)')
  <2>1. Busy(q)' = Busy(q)
    BY <1>2, <1>4 DEF PutsTask
  <2>2. CASE q = r
    <3>1. /\ Len(queue'[q]) = Len(queue[q]) + 1
          /\ unfinished'[q] = unfinished[q] + 1
      BY <1>4, <2>2, PutSeq DEF PutsTask
    <3> QED BY <1>1, <2>1, <3>1
  <2>3. CASE q # r
    <3>1. queue'[q] = queue[q] /\ unfinished'[q] = unfinished[q]
      BY <1>4, <2>3, PutSeq DEF PutsTask
    <3> QED BY <1>1, <2>1, <3>1
  <2> QED BY <2>2, <2>3
<1>5. ASSUME NEW w \in Workers, Get(w), NEW q \in QueueNames
      PROVE  unfinished'[q] = Len(queue'[q]) + Cardinality(Busy(q)')
  <2>1. /\ QueueOf(w) \in QueueNames /\ queue[QueueOf(w)] # <<>>
        /\ queue[QueueOf(w)] \in Seq(Tasks)
    BY <1>5, GetSeq DEF QueueOf, QueueNames, NoTombstone
  <2>2. Head(queue[QueueOf(w)]) \in Tasks
    BY <2>1, HeadTailProperties
  <2>3. /\ task[w] = NoTask /\ task'[w] # NoTask /\ UNCHANGED unfinished
        /\ \A v \in Workers \ {w} : task'[v] = task[v]
    BY <1>5, <2>2, GetTask, TaskShape
  <2>4. CASE q = QueueOf(w)
    <3>1. Busy(q)' = Busy(q) \cup {w} /\ w \notin Busy(q)
      BY <2>3, <2>4 DEF Busy
    <3>2. Cardinality(Busy(q)') = Cardinality(Busy(q)) + 1
      BY <1>1, <3>1, FS_AddElement
    <3>3. Len(queue'[q]) = Len(queue[q]) - 1
      BY <1>5, <2>4, GetSeq
    <3> QED BY <1>1, <2>3, <3>2, <3>3
  <2>5. CASE q # QueueOf(w)
    <3>1. Busy(q)' = Busy(q)
      BY <2>3, <2>5 DEF Busy
    <3>2. queue'[q] = queue[q]
      BY <1>5, <2>5, GetSeq
    <3> QED BY <1>1, <2>3, <3>1, <3>2
  <2> QED BY <2>4, <2>5
<1>6. ASSUME NEW w \in Workers, TaskDone(w), NEW q \in QueueNames
      PROVE  unfinished'[q] = Len(queue'[q]) + Cardinality(Busy(q)')
  <2>1. /\ task[w] # NoTask /\ task'[w] = NoTask /\ UNCHANGED queue
        /\ \A v \in Workers \ {w} : task'[v] = task[v]
    BY <1>6, DoneTask, TaskShape
  <2>2. unfinished'[q] = IF q = QueueOf(w) THEN unfinished[q] - 1 ELSE unfinished[q]
    BY <1>6, DoneTask DEF TInv, TypeOK
  <2>3. CASE q = QueueOf(w)
    <3>1. Busy(q)' = Busy(q) \ {w} /\ w \in Busy(q)
      BY <2>1, <2>3 DEF Busy
    <3>2. Cardinality(Busy(q)') = Cardinality(Busy(q)) - 1
      BY <1>1, <3>1, FS_RemoveElement
    <3> QED BY <1>1, <2>1, <2>2, <2>3, <3>2
  <2>4. CASE q # QueueOf(w)
    <3>1. Busy(q)' = Busy(q)
      BY <2>1, <2>4 DEF Busy
    <3> QED BY <1>1, <2>1, <2>2, <2>4, <3>1
  <2> QED BY <2>3, <2>4
<1> QED BY <1>3, <1>4, <1>5, <1>6, QueueStep DEF PutsTombstone, NoTombstone
-----------------------------------------------------------------------------
(***************************************************************************)
(* What the polls of the counters say, and the report.                     *)
(***************************************************************************)
\* A counter that reads zero means that no task of its queue exists.
LEMMA ZeroIsDrained ==
    ASSUME BInv, KindsAreApart, NEW q \in QueueNames,
           unfinished[q] = 0,
           unfinished[q] = Len(queue[q]) + Cardinality(Busy(q))
    PROVE  Drained(q)
<1>1. IsFiniteSet(Busy(q)) /\ Cardinality(Busy(q)) \in Nat /\ Len(queue[q]) \in Nat
  <2>1. Busy(q) \subseteq BuildThreads \/ Busy(q) \subseteq PushThreads
    BY DEF Busy, Workers, QueueOf, QueueNames
  <2> QED
    BY <2>1, FS_Subset, FS_CardinalityType, BuildAssumption, LenProperties
       DEF BInv, TInv, TypeOK
<1>2. Len(queue[q]) = 0 /\ Busy(q) = {}
  <2>1. Len(queue[q]) = 0 /\ Cardinality(Busy(q)) = 0
    BY <1>1
  <2> QED BY <1>1, <2>1, FS_EmptySet
<1>3. ASSUME NEW t \in Tasks, Present(t), Belongs(t, q) PROVE FALSE
  <2>1. \A r \in QueueNames : Belongs(t, r) => r = q
    BY <1>3 DEF Belongs, QueueNames
  <2>2. ASSUME NEW w \in Workers, task[w] \in Tasks PROVE QueueOf(w) # q
    BY <1>2, <2>2, TaskShape DEF Busy
  <2>3. CASE t \in QueuedTasks
    <3>0. PICK r \in QueueNames : \E k \in 1..Len(queue[r]) : queue[r][k] = t
      BY <2>3 DEF QueuedTasks
    <3>1. PICK k \in 1..Len(queue[r]) : queue[r][k] = t
      BY <3>0
    <3>2. r = q
      BY <2>1, <3>1 DEF KindsAreApart
    <3> QED BY <1>2, <3>1, <3>2
  <2>4. ASSUME NEW w \in Workers, t \in pending[w] PROVE FALSE
    <3>1. QueueOf(w) = q
      BY <2>1, <2>4 DEF KindsAreApart, QueueOf, QueueNames
    <3>2. task[w] \in Tasks
      BY <2>4 DEF BInv, TInv, PcMatchesTask, Idle
    <3> QED BY <2>2, <3>1, <3>2
  <2>5. ASSUME NEW w \in Workers, task[w] = t PROVE FALSE
    <3>1. QueueOf(w) = q
      BY <2>1, <2>5 DEF KindsAreApart, QueueOf, QueueNames
    <3> QED BY <2>2, <2>5, <3>1
  <2> QED BY <1>3, <2>3, <2>4, <2>5 DEF Present, Waiting, Held
<1> QED BY <1>3 DEF Drained

\* A drained build queue stays drained, and then a drained push queue too.
LEMMA DrainedStays ==
    ASSUME BInv, NEW w \in Workers, Quiet \/ WorkerEffect(w), Drained("build")
    PROVE  Drained("build")' /\ (Drained("push") => Drained("push")')
<1>1. \A t \in Tasks : t.kind \in {"build", "queuepush"} => ~Present(t)
  BY DEF Drained, Belongs
<1>2. ASSUME NEW t \in Tasks, Present(t)' PROVE Present(t)
  <2>1. ASSUME NEW i \in Images, QueuesPush(w, i) PROVE FALSE
    BY <1>1, <2>1, TaskShape DEF QueuesPush, Present, Held
  <2>2. ASSUME NEW N \in SUBSET Tasks, Collects(w, N) PROVE N = {}
    <3>1. ASSUME NEW u \in N PROVE FALSE
      <4>1. PICK i \in Images : task[w] = Task("build", i)
        BY <2>2, FollowupsAre
      <4> QED BY <1>1, <4>1, TaskShape DEF Present, Held
    <3> QED BY <3>1
  <2> QED
    BY <1>2, <2>1, <2>2
       DEF Quiet, WorkerEffect, Takes, Enters, Fails, Produces, Succeeds, Builds,
           Pushes, FailsToPush, Collects, GivesUp, Leaves, SamePlaces
<1> QED BY <1>2 DEF Drained

LEMMA PollsStay ==
    ASSUME BInv, KindsAreApart, CountersExact, PollsMeanDrained,
           NEW w \in Workers, Quiet \/ WorkerEffect(w), CalmMove
    PROVE  PollsMeanDrained'
<1>1. mpc' = "pollPush" \/ mpc' \in Late => Drained("build")
  <2>1. CASE PollBuild
    BY <2>1, ZeroIsDrained DEF PollBuild, GoMain, CountersExact, Early, QueueNames
  <2>2. CASE ~PollBuild /\ (mpc' = "pollPush" \/ mpc' \in Late)
    <3>1. mpc = "pollPush" \/ mpc \in Late
      BY <2>2 DEF CalmMove, PollPush, Summary, Return, GoMain, Late
    <3> QED BY <3>1 DEF PollsMeanDrained
  <2> QED BY <2>1, <2>2
<1>2. mpc' \in Late => Drained("push")
  <2>1. CASE PollPush /\ unfinished["push"] = 0
    BY <2>1, ZeroIsDrained DEF PollPush, CountersExact, Early, QueueNames
  <2>2. CASE ~(PollPush /\ unfinished["push"] = 0) /\ mpc' \in Late
    <3>1. mpc \in Late
      BY <2>2 DEF CalmMove, PollBuild, PollPush, Summary, Return, GoMain, Late
    <3> QED BY <3>1 DEF PollsMeanDrained
  <2> QED BY <2>1, <2>2
<1> QED BY <1>1, <1>2, DrainedStays DEF PollsMeanDrained

\* When both queues are drained, nothing is present.
LEMMA LateIsEmpty ==
    ASSUME PollsMeanDrained, mpc \in Late
    PROVE  \A t \in Tasks : ~Present(t)
<1> SUFFICES ASSUME NEW t \in Tasks, Present(t) PROVE FALSE
  OBVIOUS
<1>1. ~Belongs(t, "build") /\ ~Belongs(t, "push")
  BY DEF PollsMeanDrained, Drained
<1> QED BY <1>1 DEF Belongs

LEMMA ReportStays ==
    ASSUME BInv, PollsMeanDrained, ReportIsCurrent, mpc \in Early \cup Late,
           NEW w \in Workers, Quiet \/ WorkerEffect(w), CalmMove
    PROVE  ReportIsCurrent'
<1> DEFINE Before == Early \cup {"tombPush", "tombBuild", "join", "summary"}
<1>1. ASSUME mpc \in Late PROVE UNCHANGED status
  <2>1. ASSUME ~UNCHANGED status PROVE FALSE
    <3>1. \E i \in Images : task[w] = Task("build", i) \/ task[w] = Task("push", i)
      BY <2>1, Writes DEF Quiet
    <3> QED BY <1>1, <3>1, LateIsEmpty, TaskShape DEF Present, Held
  <2> QED BY <2>1
<1>2. ASSUME mpc \in Late PROVE \A i \in Images : Class(i)' = Class(i)
  BY <1>1, <1>2 DEF Class
<1>3. CASE mpc' \in Before
  <2>1. mpc \in Before /\ UNCHANGED report
    BY <1>3 DEF CalmMove, PollBuild, PollPush, Summary, Return, GoMain, Early
  <2> QED BY <1>3, <2>1 DEF ReportIsCurrent, Early
<1>4. CASE mpc' \notin Before
  <2>1. \/ UNCHANGED <<mpc, report, exitCode>>
        \/ mpc = "cleanup" /\ mpc' = "return" /\ UNCHANGED <<report, exitCode>>
        \/ Summary \/ Return
    BY <1>4 DEF CalmMove, PollBuild, PollPush, GoMain, Early
  <2>2. mpc \in Late
    BY <1>4, <2>1 DEF Summary, Return, GoMain, Early, Late
  <2>3. /\ \A i \in Images : Class(i)' = Class(i)
        /\ \A i \in Images : [j \in Images |-> Class(j)][i] = Class(i)
    BY <1>2, <2>2
  <2>4. CASE UNCHANGED <<mpc, report, exitCode>>
    BY <1>4, <2>3, <2>4 DEF ReportIsCurrent
  <2>5. CASE mpc = "cleanup" /\ mpc' = "return" /\ UNCHANGED <<report, exitCode>>
    BY <1>4, <2>3, <2>5 DEF ReportIsCurrent
  <2>6. CASE Summary
    <3>1. \/ UNCHANGED report /\ mpc' = "cleanup"
          \/ report' = [i \in Images |-> Class(i)] /\ mpc' = "cleanup"
      BY <2>6 DEF Summary, GetImageStatuses, GoMain
    <3> QED BY <1>4, <2>3, <3>1 DEF ReportIsCurrent
  <2>7. CASE Return
    <3>1. \A i \in Images : report'[i] = Class(i)
      <4>1. CASE report = NotReported
        BY <2>3, <2>7, <4>1 DEF Return, GetImageStatuses
      <4>2. CASE report # NotReported
        BY <2>7, <4>2 DEF Return, GetImageStatuses, ReportIsCurrent
      <4> QED BY <4>1, <4>2
    <3>2. /\ mpc' = "exited"
          /\ exitCode' = "0" => \A i \in Images : report'[i] # "bad"
      BY <2>7 DEF Return, GoMain
    <3> QED BY <1>4, <2>3, <3>1, <3>2 DEF ReportIsCurrent
  <2> QED BY <2>1, <2>4, <2>5, <2>6, <2>7
<1> QED BY <1>3, <1>4
-----------------------------------------------------------------------------
(***************************************************************************)
(* Nothing is forgotten.                                                   *)
(***************************************************************************)
\* No step makes an image untried, and two make it built.
LEMMA StatusWrites ==
    ASSUME BInv, NEW w \in Workers, Quiet \/ WorkerEffect(w), NEW i \in Images
    PROVE  /\ status'[i] = "matched" => status[i] = "matched"
           /\ status'[i] = "built" =>
                 status[i] = "built" \/ Succeeds(w, i) \/ Pushes(w, i)
<1>1. CASE UNCHANGED status
  BY <1>1
<1>2. CASE ~UNCHANGED status
  <2>1. PICK j \in Images : \/ Enters(w, j) \/ Fails(w, j) \/ Succeeds(w, j)
                           \/ Pushes(w, j) \/ FailsToPush(w, j)
    BY <1>2 DEF Quiet, WorkerEffect, Takes, Produces, QueuesPush, Collects,
                GivesUp, Leaves
  <2>2. CASE i = j
    BY <2>1, <2>2, WorkerTypes DEF Enters, Fails, Succeeds, Pushes, FailsToPush
  <2>3. CASE i # j
    BY <2>1, <2>3, WorkerTypes DEF Enters, Fails, Succeeds, Pushes, FailsToPush
  <2> QED BY <2>2, <2>3
<1> QED BY <1>1, <1>2

\* A thread that is not the one that moves stays where it is, and so does one
\* that has just built an image until it collects the follow-ups.
LEMMA JustBuiltStays ==
    ASSUME BInv, NEW w \in Workers, Quiet \/ WorkerEffect(w),
           NEW v \in Workers, NEW i \in Images, JustBuilt(v, i)
    PROVE  \/ JustBuilt(v, i)'
           \/ v = w /\ \E N \in SUBSET Tasks : Collects(w, N)
<1>1. CASE Quiet
  BY <1>1 DEF Quiet, QuietMove, JustBuilt
<1>2. CASE WorkerEffect(w) /\ v # w
  BY <1>2 DEF WorkerEffect, Takes, Enters, Fails, Produces, Succeeds,
              QueuesPush, Pushes, FailsToPush, Collects, GivesUp, Leaves, Moves,
              JustBuilt
<1>3. CASE WorkerEffect(w) /\ v = w
  BY <1>3 DEF WorkerEffect, Takes, Enters, Fails, Produces, Succeeds,
              QueuesPush, Pushes, FailsToPush, GivesUp, Leaves, Moves,
              JustBuilt, BuildPcs
<1> QED BY <1>1, <1>2, <1>3

\* A thread that collects after a success collects everything.
LEMMA CollectsAll ==
    ASSUME NEW w \in Workers, NEW N, Collects(w, N), ~should_stop[w],
           NEW i \in Images, task[w] = Task("build", i), success[w]
    PROVE  /\ conf.push => Task("queuepush", i) \in N
           /\ \A c \in Images : Parent[c] = i /\ status[c] \notin LeftOut =>
                 Task("build", c) \in N
<1>1. N = Followups(Task("build", i))
  BY DEF Collects
<1>2. Task("build", i).kind = "build" /\ Task("build", i).image = i
  BY TaskShape
<1> QED BY <1>1, <1>2 DEF Followups, Children

LEMMA NothingForgottenStays ==
    ASSUME SInv, \A v \in Workers : ~should_stop[v], NothingForgotten,
           NEW w \in Workers, Quiet \/ WorkerEffect(w), BInv'
    PROVE  NothingForgotten'
<1>0. BInv /\ StatusInv
  BY DEF SInv
<1> SUFFICES ASSUME NEW i \in Images, status'[i] = "matched",
                    ~Present(Task("build", i))'
             PROVE  LET p == Parent[i] IN
                    /\ p \in Images /\ status'[p] # "skipped"
                    /\ ~Present(Task("queuepush", p))'
                    /\ ~Present(Task("push", p))'
                    /\ status'[p] = "built" => \E v \in Workers : JustBuilt(v, p)'
  BY DEF NothingForgotten
<1>1. status[i] = "matched" /\ Task("build", i) \in Tasks
  BY <1>0, StatusWrites, TaskShape
<1>2. ~Present(Task("build", i))
  <2>1. ASSUME Present(Task("build", i)) PROVE FALSE
    <3>1. Leaves(w) /\ task[w] = Task("build", i)
      BY <1>1, <2>1
         DEF Quiet, WorkerEffect, Takes, Enters, Fails, Produces, Succeeds,
             Builds, QueuesPush, Pushes, FailsToPush, Collects, GivesUp, Leaves,
             SamePlaces
    <3>2. Tried(i)
      BY <1>0, <3>1 DEF Leaves, Moves, StatusInv, BegunIsTried
    <3> QED BY <1>1, <3>2 DEF Tried
  <2> QED BY <2>1
<1> DEFINE p == Parent[i]
<1>3. /\ p \in Images /\ status[p] # "skipped"
      /\ ~Present(Task("queuepush", p)) /\ ~Present(Task("push", p))
      /\ status[p] = "built" => \E v \in Workers : JustBuilt(v, p)
  BY <1>1, <1>2 DEF NothingForgotten
<1>4. status'[p] # "skipped"
  BY <1>0, <1>3, TriedStays
<1>5. ASSUME NEW N \in SUBSET Tasks, Collects(w, N)
      PROVE  ~(task[w] = Task("build", p) /\ success[w])
  <2>1. Task("build", i) \notin N
    BY <1>1, <1>5 DEF Collects
  <2> QED BY <1>1, <1>3, <1>5, <2>1, CollectsAll DEF LeftOut
<1>6. /\ Task("queuepush", p) \in Tasks /\ Task("push", p) \in Tasks
      /\ \A j \in Images : /\ Task("queuepush", p) = Task("queuepush", j) => j = p
                           /\ Task("push", p) = Task("push", j) => j = p
                           /\ Task("queuepush", p) # Task("push", j)
                           /\ Task("queuepush", p) # Task("build", j)
                           /\ Task("push", p) # Task("queuepush", j)
                           /\ Task("push", p) # Task("build", j)
  BY <1>3, TaskShape
<1>7. ASSUME NEW N \in SUBSET Tasks, Collects(w, N)
      PROVE  Task("queuepush", p) \notin N /\ Task("push", p) \notin N
  BY <1>0, <1>5, <1>6, <1>7, FollowupsAre
<1>8. ASSUME NEW j \in Images, QueuesPush(w, j) PROVE j # p
  BY <1>3, <1>6, <1>8 DEF QueuesPush, Present, Held
<1>9. ~Present(Task("queuepush", p))' /\ ~Present(Task("push", p))'
  BY <1>3, <1>6, <1>7, <1>8
     DEF Quiet, WorkerEffect, Takes, Enters, Fails, Produces, Succeeds, Builds,
         QueuesPush, Pushes, FailsToPush, Collects, GivesUp, Leaves, SamePlaces
<1>10. ASSUME status'[p] = "built" PROVE \E v \in Workers : JustBuilt(v, p)'
  <2>1. CASE status[p] = "built"
    <3>1. PICK v \in Workers : JustBuilt(v, p)
      BY <1>3, <2>1
    <3>2. ~(v = w /\ \E N \in SUBSET Tasks : Collects(w, N))
      BY <1>5, <3>1 DEF JustBuilt
    <3> QED BY <1>0, <1>3, <3>1, <3>2, JustBuiltStays
  <2>2. CASE Succeeds(w, p)
    BY <2>2 DEF Succeeds, Builds, Moves, JustBuilt
  <2>3. ~Pushes(w, p)
    BY <1>3, <1>6 DEF Pushes, Present, Held
  <2> QED BY <1>0, <1>3, <1>10, <2>1, <2>2, <2>3, StatusWrites
<1> QED BY <1>3, <1>4, <1>9, <1>10

LEMMA NoPushForgottenStays ==
    ASSUME SInv, \A v \in Workers : ~should_stop[v], NoPushForgotten,
           NEW w \in Workers, Quiet \/ WorkerEffect(w), BInv'
    PROVE  NoPushForgotten'
<1>0. BInv /\ StatusInv
  BY DEF SInv
<1> SUFFICES ASSUME conf'.push, NEW i \in Images, status'[i] = "built"
             PROVE  \/ i \in registry'
                    \/ Waiting(Task("queuepush", i))' \/ Waiting(Task("push", i))'
                    \/ \E v \in Workers : JustBuilt(v, i)' \/ FirstPush(v, i)'
  BY DEF NoPushForgotten
<1>1. conf' = conf /\ registry \subseteq registry'
  BY DEF Quiet, WorkerEffect, Takes, Enters, Fails, Produces, Succeeds, Builds,
         QueuesPush, Pushes, FailsToPush, Collects, GivesUp, Leaves, Moves
<1>2. /\ Task("queuepush", i) \in Tasks /\ Task("push", i) \in Tasks
      /\ Task("queuepush", i) # Task("push", i)
      /\ Task("queuepush", i).kind = "queuepush" /\ Task("push", i).kind = "push"
  BY TaskShape
<1>3. CASE status[i] # "built"
  <2>1. CASE Succeeds(w, i)
    BY <2>1 DEF Succeeds, Builds, Moves, JustBuilt
  <2>2. CASE Pushes(w, i)
    BY <2>2 DEF Pushes
  <2> QED BY <1>0, <1>3, <2>1, <2>2, StatusWrites
<1>4. CASE i \in registry
  BY <1>1, <1>4
<1>5. ASSUME NEW k \in {"queuepush", "push"}, Waiting(Task(k, i))
      PROVE  Waiting(Task(k, i))' \/ FirstPush(w, i)'
  <2>1. CASE Takes(w, Task(k, i))
    <3>1. wpc[w] = "get" /\ wpc'[w] = "attempt" /\ task'[w] = Task(k, i)
          /\ attempt' = attempt
      BY <2>1 DEF Takes, Moves
    <3>2. attempt[w] = 0
      BY <1>0, <3>1 DEF StatusInv, BegunIsTried, Idle
    <3> QED BY <3>1, <3>2 DEF FirstPush
  <2>2. CASE ~Takes(w, Task(k, i))
    BY <1>2, <1>5, <2>2
       DEF Quiet, WorkerEffect, Takes, Enters, Fails, Produces, Succeeds, Builds,
           QueuesPush, Pushes, FailsToPush, Collects, GivesUp, Leaves, SamePlaces
  <2> QED BY <2>1, <2>2
<1>6. ASSUME NEW v \in Workers, JustBuilt(v, i)
      PROVE  JustBuilt(v, i)' \/ Waiting(Task("queuepush", i))'
  <2>1. ASSUME v = w, NEW N \in SUBSET Tasks, Collects(w, N)
        PROVE  Waiting(Task("queuepush", i))'
    <3>1. Task("queuepush", i) \in N
      BY <1>1, <1>6, <2>1, CollectsAll DEF JustBuilt
    <3> QED BY <1>2, <2>1, <3>1 DEF Collects
  <2> QED BY <1>0, <1>6, <2>1, JustBuiltStays
<1>7. ASSUME NEW v \in Workers, FirstPush(v, i)
      PROVE  \/ FirstPush(v, i)' \/ Waiting(Task("push", i))' \/ i \in registry'
  <2>1. CASE Quiet
    BY <1>2, <1>7, <2>1 DEF Quiet, QuietMove, FirstPush, RunOf
  <2>2. CASE WorkerEffect(w) /\ v # w
    BY <1>7, <2>2
       DEF WorkerEffect, Takes, Enters, Fails, Produces, Succeeds, Builds,
           QueuesPush, Pushes, FailsToPush, Collects, GivesUp, Leaves, Moves,
           FirstPush
  <2>3. CASE WorkerEffect(w) /\ v = w
    <3>1. ~GivesUp(w)
      <4>1. conf.retries \in Nat
        BY <1>0, BuildAssumption DEF BInv, TInv, TypeOK, Conf
      <4> QED BY <1>7, <2>3, <4>1 DEF GivesUp, FirstPush
    <3>2. \A j \in Images : /\ task[w] = Task("queuepush", j) => j = i
                            /\ task[w] = Task("push", j) => j = i
      BY <1>7, <2>3, TaskShape DEF FirstPush
    <3>3. ~FailsToPush(w, i)
      BY <1>0, WorkerTypes DEF FailsToPush
    <3>4. QueuesPush(w, i) \/ Pushes(w, i)
      <4>1. wpc[w] \in {"attempt", "queuepush", "push"}
        BY <1>7, <2>3 DEF FirstPush
      <4>2. \E j \in Images : QueuesPush(w, j) \/ Pushes(w, j) \/ FailsToPush(w, j)
        BY <2>3, <3>1, <4>1, EffectFacts
      <4>3. \A j \in Images :
               /\ QueuesPush(w, j) => j = i
               /\ Pushes(w, j) \/ FailsToPush(w, j) => j = i
        BY <3>2 DEF QueuesPush, Pushes, FailsToPush
      <4> QED BY <3>3, <4>2, <4>3
    <3> QED BY <1>2, <3>4 DEF QueuesPush, Pushes
  <2> QED BY <2>1, <2>2, <2>3
<1>8. CASE status[i] = "built"
  BY <1>1, <1>4, <1>5, <1>6, <1>7, <1>8 DEF NoPushForgotten
<1> QED BY <1>3, <1>8
-----------------------------------------------------------------------------
(***************************************************************************)
(* The invariant.                                                          *)
(***************************************************************************)
\* At the start every root of the plan is queued.
LEMMA RootsAreQueued ==
    ASSUME NEW R \in SUBSET Images, NEW q \in QueuesOf(R), NEW i \in R
    PROVE  \E k \in 1..Len(q) : q[k] = Task("build", i)
<1> DEFINE T == {Task("build", r) : r \in R}
           n == Cardinality(R)
           f == [r \in R |-> Task("build", r)]
<1>1. n \in Nat /\ Len(q) = n /\ IsFiniteSet(R)
  BY InitialQueue, FS_Subset, BuildAssumption
<1>2. f \in Bijection(R, T)
  <2>1. \A r \in R, s \in R : Task("build", r) = Task("build", s) => r = s
    BY TaskShape
  <2>2. f \in Injection(R, T)
    BY <2>1 DEF Injection, IsInjective
  <2>3. f \in Surjection(R, T)
    BY DEF Surjection
  <2> QED BY <2>2, <2>3 DEF Bijection
<1>3. IsFiniteSet(T) /\ Cardinality(T) = n
  BY <1>1, <1>2, FS_Bijection DEF ExistsBijection
<1>4. q \in Injection(1..n, T)
  BY DEF QueuesOf, Injection, IsInjective
<1>5. Cardinality(1..n) = n
  BY <1>1, FS_Interval
<1>6. q \in Surjection(1..n, T)
  BY <1>3, <1>4, <1>5, FS_Injection
<1>7. Task("build", i) \in T
  OBVIOUS
<1> QED BY <1>1, <1>6, <1>7 DEF Surjection

LEMMA ExitInit == Init => ExitInv
<1> SUFFICES ASSUME Init PROVE ExitInv
  OBVIOUS
<1>1. PICK q \in QueuesOf(Roots) :
          queue = [n \in QueueNames |-> IF n = "build" THEN q ELSE <<>>]
  BY DEF Init
<1>2. /\ Roots \in SUBSET Images /\ Cardinality(Roots) \in Nat
      /\ q \in [1..Cardinality(Roots) -> {Task("build", i) : i \in Roots}]
      /\ Len(q) = Cardinality(Roots)
  <2>1. Roots \in SUBSET Images
    BY DEF Roots
  <2> QED BY <1>1, <2>1, InitialQueue DEF QueuesOf
<1>3. /\ queue["build"] = q /\ queue["push"] = <<>> /\ Len(queue["push"]) = 0
      /\ QueueNames = {"build", "push"}
  BY <1>1, EmptySeq DEF QueueNames
<1>4. /\ mpc = "start" /\ interrupts = 0 /\ report = NotReported
      /\ unfinished = [n \in QueueNames |->
                           IF n = "build" THEN Cardinality(Roots) ELSE 0]
      /\ status \in [Images -> PlanStatus]
      /\ \A w \in Workers : /\ wpc[w] = "new" /\ task[w] = NoTask
                            /\ pending[w] = {} /\ ~should_stop[w]
  BY DEF Init, Plans
<1>5. \A k \in 1..Len(q) : q[k] \in Tasks /\ q[k].kind = "build"
  BY <1>2, TaskShape
<1>6. KindsAreApart
  BY <1>3, <1>4, <1>5, TaskShape DEF KindsAreApart, Belongs
<1>7. NoTombstone
  <2>1. q \in Seq(Tasks)
    BY <1>2, <1>5
  <2> QED BY <1>3, <1>4, <2>1, EmptySeq DEF NoTombstone
<1>8. CountersExact
  <2>1. \A n \in QueueNames : Busy(n) = {} /\ Cardinality(Busy(n)) = 0
    BY <1>4, FS_EmptySet DEF Busy
  <2>2. \A n \in QueueNames : unfinished[n] = Len(queue[n])
    BY <1>2, <1>3, <1>4
  <2>3. \A n \in QueueNames : Len(queue[n]) = Len(queue[n]) + 0
    BY <1>2, <1>3
  <2> QED BY <2>1, <2>2, <2>3 DEF CountersExact
<1>9. PollsMeanDrained /\ ReportIsCurrent
  BY <1>4 DEF PollsMeanDrained, ReportIsCurrent, Late, Early
<1>10. NothingForgotten
  <2> SUFFICES ASSUME NEW i \in Images, status[i] = "matched",
                      ~Present(Task("build", i))
               PROVE  LET p == Parent[i] IN
                      /\ p \in Images /\ status[p] # "skipped"
                      /\ ~Present(Task("queuepush", p)) /\ ~Present(Task("push", p))
                      /\ status[p] # "built"
    BY DEF NothingForgotten
  <2>1. i \notin Roots
    <3>1. ASSUME i \in Roots PROVE FALSE
      <4>1. \E k \in 1..Len(queue["build"]) : queue["build"][k] = Task("build", i)
        BY <1>1, <1>2, <1>3, <3>1, RootsAreQueued
      <4>2. Task("build", i) \in QueuedTasks
        BY <1>3, <4>1, TaskShape DEF QueuedTasks
      <4> QED BY <4>2 DEF Present, Waiting
    <3> QED BY <3>1
  <2>2. Parent[i] \in Images /\ status[Parent[i]] # "skipped"
    BY <2>1, ForestAssumption DEF Roots, IsRoot, LeftOut
  <2>3. status[Parent[i]] # "built"
    BY <1>4, <2>2 DEF PlanStatus
  <2>4. \A t \in Tasks : t.kind # "build" => ~Present(t)
    BY <1>3, <1>4, <1>5, TaskShape DEF Present, Waiting, Held, QueuedTasks
  <2> QED BY <2>2, <2>3, <2>4, TaskShape
<1>11. NoPushForgotten
  BY <1>4 DEF NoPushForgotten, PlanStatus
<1> QED
  BY <1>4, <1>6, <1>7, <1>8, <1>9, <1>10, <1>11
     DEF ExitInv, Undisturbed, Early

LEMMA ExitStep ==
    ASSUME XInv, BInv', [Next]_vars
    PROVE  ExitInv'
<1>0. SInv /\ BInv /\ TInv /\ ExitInv
  BY DEF XInv, SInv, BInv
<1>1. KindsAreApart'
  BY <1>0, KindsStay DEF ExitInv
<1>2. interrupts > 0 => interrupts' > 0
  <2> USE DEF GoMain, PutTombstone, queueVars, mainVars, workerVars, extVars
  <2>1. CASE Interrupt
    BY <1>0, <2>1, BuildAssumption DEF Interrupt, TInv, TypeOK
  <2>2. CASE ~Interrupt
    <3>1. MainStep \/ JoinTimeout \/ Terminated \/ UNCHANGED vars
          => UNCHANGED interrupts
      BY DEF MainStep, StartWorker, StopWorker, AppendWorker, PollBuild,
             PollPush, TombstonePush, TombstoneBuild, Join, StopPushQueue,
             StopBuildQueue, WaitWorkers, Summary, Cleanup, Return,
             JoinTimeout, Terminated, vars
    <3>2. ASSUME NEW w \in Workers, WorkerStep(w) PROVE UNCHANGED interrupts
      BY <3>2 DEF WorkerStep, Loop, Get, PutBack, Attempt, TaskDone, BuildRun,
           Check, SourcesReady, SourcesFail, EngineBuildOk, EngineBuildFail,
           SquashOk, SquashNoParentLayer, SquashFail, PushRun, RunQueuePush,
           PushOk, PushFail, CollectFollowups, PutFollowup, Finish, EndBuild
    <3> QED BY <2>2, <3>1, <3>2 DEF Next
  <2> QED BY <2>1, <2>2
<1>3. mpc' = "waiting" => interrupts' > 0
  <2>0. interrupts \in Nat
    BY <1>0, BuildAssumption DEF TInv, TypeOK
  <2>2. ASSUME interrupts' = 0 PROVE mpc' # "waiting"
    <3>1. interrupts = 0
      BY <1>2, <2>0, <2>2
    <3>2. mpc \in Early \cup Late
      BY <1>0, <3>1 DEF ExitInv, Undisturbed
    <3>3. CalmMove
      BY <1>0, <2>2, <3>2, MainMoves
    <3> QED BY <3>2, <3>3
            DEF CalmMove, PollBuild, PollPush, Summary, Return, GoMain, Early,
                Late
  <2>3. interrupts' \in Nat
    BY BuildAssumption DEF BInv, TInv, TypeOK
  <2> QED BY <2>2, <2>3
<1>4. ASSUME interrupts' = 0 PROVE Undisturbed'
  <2>1. interrupts = 0
    <3>1. interrupts = 0 \/ interrupts > 0
      BY <1>0, BuildAssumption DEF TInv, TypeOK
    <3> QED BY <1>4, <1>2, <3>1
  <2>2. Undisturbed
    BY <1>0, <2>1 DEF ExitInv
  <2>3. UNCHANGED should_stop /\ CalmMove
    BY <1>0, <1>4, <2>2, MainMoves DEF Undisturbed
  <2>4. PICK w \in Workers : Quiet \/ WorkerEffect(w)
    BY <1>0, StepEffect, BuildAssumption DEF Workers
  <2>5. mpc' \in Early => mpc \in Early
    BY <2>2, <2>3 DEF CalmMove, PollBuild, PollPush, Summary, Return, GoMain,
                      Early, Late, Undisturbed
  <2>6. NoTombstone' /\ CountersExact'
    BY <1>0, <2>2, <2>5, NoTombstoneYet, CountersStay
       DEF Undisturbed, NoTombstone, CountersExact
  <2>7. PollsMeanDrained' /\ ReportIsCurrent'
    BY <1>0, <2>2, <2>3, <2>4, PollsStay, ReportStays DEF Undisturbed, ExitInv
  <2>8. NothingForgotten' /\ NoPushForgotten'
    BY <1>0, <2>2, <2>4, NothingForgottenStays, NoPushForgottenStays
       DEF Undisturbed
  <2>9. mpc' \in Early \cup Late /\ \A v \in Workers : ~should_stop'[v]
    BY <2>2, <2>3 DEF CalmMove, PollBuild, PollPush, Summary, Return, GoMain,
                      Early, Late, Undisturbed
  <2> QED BY <2>6, <2>7, <2>8, <2>9 DEF Undisturbed
<1> QED BY <1>1, <1>3, <1>4 DEF ExitInv

LEMMA XInvAlways == Spec => []XInv
<1>1. Init => ExitInv
  BY ExitInit
<1>2. ExitInv /\ SInv /\ BInv' /\ [Next]_vars => ExitInv'
  BY ExitStep DEF XInv
<1>3. SInv /\ ExitInv => XInv
  BY DEF XInv
<1> QED BY BInvAlways, SInvAlways, <1>1, <1>2, <1>3, PTL DEF Spec

(***************************************************************************)
(* The counters run_build polls are the number of tasks queued and held,   *)
(* until it puts a tombstone or Ctrl-C is pressed: task_done is called     *)
(* exactly once for each task, whatever becomes of it.                     *)
(***************************************************************************)
THEOREM CountersAreExact == Spec => []UnfinishedIsExact
<1>1. XInv => UnfinishedIsExact
  BY DEF XInv, ExitInv, Undisturbed, CountersExact, Early, Busy, UnfinishedIsExact
<1> QED BY XInvAlways, <1>1, PTL

(***************************************************************************)
(* When an uninterrupted run is over, an image of the plan that was never  *)
(* tried is below one whose build or push failed: the polls let run_build  *)
(* go on only when no task is left, and a success queues every child.      *)
(***************************************************************************)
THEOREM NothingIsForgotten == Spec => []UntriedOnlyBelowFailure
<1>1. XInv => UntriedOnlyBelowFailure
  <2> SUFFICES ASSUME XInv, interrupts = 0,
                      mpc \in {"summary", "cleanup", "return", "exited"},
                      NEW i \in Images, status[i] = "matched"
               PROVE  /\ Parent[i] \in Images
                      /\ status[Parent[i]] \notin {"built", "skipped"}
    BY DEF UntriedOnlyBelowFailure
  <2>1. Undisturbed /\ mpc \in Late
    BY DEF XInv, ExitInv, Late
  <2>2. \A t \in Tasks : ~Present(t)
    BY <2>1, LateIsEmpty DEF Undisturbed
  <2>3. ~Present(Task("build", i))
    BY <2>2, TaskShape
  <2>4. /\ Parent[i] \in Images /\ status[Parent[i]] # "skipped"
        /\ status[Parent[i]] = "built" => \E w \in Workers : JustBuilt(w, Parent[i])
    BY <2>1, <2>3 DEF Undisturbed, NothingForgotten
  <2>5. \A w \in Workers : ~JustBuilt(w, Parent[i])
    BY <2>2, <2>4, TaskShape DEF JustBuilt, Present, Held
  <2> QED BY <2>4, <2>5
<1> QED BY XInvAlways, <1>1, PTL

(***************************************************************************)
(* Exit code 0 of an uninterrupted kolla-build means that every image of   *)
(* the plan that is not allowed to fail has status BUILT, was built by the *)
(* engine and, with --push, is in the registry.                            *)
(***************************************************************************)
THEOREM ExitIsHonest == Spec => []ExitZeroIsHonest
<1>1. XInv => ExitZeroIsHonest
  <2> SUFFICES ASSUME XInv, interrupts = 0, mpc = "exited", exitCode = "0",
                      NEW i \in Images,
                      status[i] \notin LeftOut, i \notin AllowedToFail
               PROVE  /\ status[i] = "built" /\ i \in engine
                      /\ conf.push => i \in registry
    BY DEF ExitZeroIsHonest
  <2>1. Undisturbed /\ mpc \in Late /\ StatusInv
    BY DEF XInv, ExitInv, SInv, Late
  <2>2. Class(i) # "bad"
    BY <2>1 DEF Undisturbed, ReportIsCurrent
  <2>3. status[i] = "built"
    BY <2>2 DEF Class
  <2>4. i \in engine
    BY <2>1, <2>3 DEF StatusInv, EngineAndStatus
  <2>5. ASSUME conf.push PROVE i \in registry
    <3>1. \A t \in Tasks : ~Present(t)
      BY <2>1, LateIsEmpty DEF Undisturbed
    <3>2. /\ ~Waiting(Task("queuepush", i)) /\ ~Waiting(Task("push", i))
          /\ \A w \in Workers : ~JustBuilt(w, i) /\ ~FirstPush(w, i)
      BY <3>1, TaskShape DEF Present, Held, JustBuilt, FirstPush
    <3> QED BY <2>1, <2>3, <2>5, <3>2 DEF Undisturbed, NoPushForgotten
  <2> QED BY <2>3, <2>4, <2>5
<1> QED BY XInvAlways, <1>1, PTL
=============================================================================
