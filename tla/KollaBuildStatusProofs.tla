----------------------- MODULE KollaBuildStatusProofs -----------------------
(***************************************************************************)
(* Proofs about what the statuses, the engine's images and the registry    *)
(* say of each other, for any forest, any number of threads and retries,   *)
(* any configuration and any number of interrupts.                         *)
(***************************************************************************)
EXTENDS KollaBuildProofs

\* The thread is at work on a push task that was not made yet, or will be.
PushAhead(i) ==
    \/ Waiting(Task("queuepush", i)) \/ Waiting(Task("push", i))
    \/ \E w \in Workers :
          \/ task[w] = Task("queuepush", i) /\ wpc[w] \in {"attempt", "queuepush"}
          \/ task[w] = Task("push", i) /\ wpc[w] \in {"attempt", "push"}

\* Until its thread collects follow-ups, an image is built exactly if the
\* thread remembers a success.
SuccessIsBuilt ==
    \A w \in Workers, i \in Images :
        task[w] = Task("build", i) /\ wpc[w] # "put" =>
            (status[i] = "built" => success[w]) /\ (success[w] => status[i] = "built")

\* A thread that has begun to build an image has written its status.
BegunIsTried ==
    \A w \in Workers :
        /\ wpc[w] \in Idle => attempt[w] = 0
        /\ \A i \in Images : task[w] = Task("build", i) =>
              /\ wpc[w] \in {"sources", "engine", "squash"} => Tried(i)
              /\ wpc[w] = "attempt" => attempt[w] = 0 \/ Tried(i)
              /\ wpc[w] \in {"followups", "put"} => Tried(i) \/ should_stop[w]

\* What the engine has is what was tried, and what is built it has.
EngineAndStatus ==
    \A i \in Images : /\ status[i] = "built" => i \in engine
                      /\ i \in engine => Tried(i)

\* Without --push there are no push tasks.
NoPushTasks ==
    ~conf.push => \A i \in Images : /\ ~Present(Task("queuepush", i))
                                    /\ ~Present(Task("push", i))

\* And then the parent of an image that is or was to be built stays built.
ParentsStayBuilt ==
    ~conf.push => \A i \in Images :
        Present(Task("build", i)) \/ Tried(i) =>
            Parent[i] = NoImage \/ status[Parent[i]] \in {"skipped", "built"}

\* An image in the registry is done with: no build and no push lies ahead.
PushedIsOver ==
    \A i \in registry : Collected(i) /\ ~PushAhead(i)

StatusInv ==
    /\ SuccessIsBuilt
    /\ BegunIsTried
    /\ EngineAndStatus
    /\ NoPushTasks
    /\ ParentsStayBuilt
    /\ PushedIsOver

SInv == BInv /\ StatusInv
-----------------------------------------------------------------------------
(***************************************************************************)
(* What the steps do: one lemma for each kind of step, for the invariants  *)
(* of this module and of those that extend it.                             *)
(***************************************************************************)
\* The places of the tasks in a state and in the next.
SamePlaces ==
    \A t \in Tasks : /\ Waiting(t)' <=> Waiting(t)
                     /\ Present(t)' <=> Present(t)

\* The steps of the main thread, and Loop, PutBack, SourcesReady, PutFollowup,
\* an Attempt that is made and a Get that finds the tombstone.
QuietMove(v) ==
    \/ wpc'[v] = wpc[v]
    \/ wpc[v] \in {"new", "loop", "get", "putback"}
       /\ wpc'[v] \in {"loop", "get", "putback", "exited"}
    \/ wpc[v] = "attempt" /\ wpc'[v] = RunOf(task[v].kind)
       /\ ~(attempt[v] > conf.retries \/ should_stop[v])
    \/ wpc[v] = "sources" /\ wpc'[v] = "engine"

Quiet ==
    /\ UNCHANGED <<conf, status, engine, registry, task, success, attempt>>
    /\ SamePlaces
    /\ \A v \in Workers : QuietMove(v) /\ (should_stop[v] => should_stop'[v])

\* A step of one worker that is at "from" and goes to "to".
Moves(w, from, to) ==
    /\ wpc[w] = from /\ wpc'[w] = to
    /\ UNCHANGED <<conf, should_stop>>
    /\ \A v \in Workers \ {w} :
          /\ wpc'[v] = wpc[v] /\ task'[v] = task[v]
          /\ attempt'[v] = attempt[v] /\ success'[v] = success[v]

\* It gets the task t.
Takes(w, t) ==
    /\ Moves(w, "get", "attempt")
    /\ task[w] = NoTask /\ task'[w] = t
    /\ UNCHANGED <<status, engine, registry, attempt, success>>
    /\ Waiting(t)
    /\ \A u \in Tasks : /\ Waiting(u)' <=> Waiting(u) /\ u # t
                        /\ Present(u)' <=> Present(u)

\* It is at work on the build of i, and remains so.
Builds(w, i) ==
    /\ task[w] = Task("build", i) /\ ~success[w]
    /\ UNCHANGED <<task, registry>> /\ SamePlaces

Enters(w, i) ==
    /\ Builds(w, i) /\ Moves(w, "check", "sources")
    /\ status' = [status EXCEPT ![i] = "building"]
    /\ UNCHANGED <<engine, attempt, success>>

Fails(w, i) ==
    \E from \in BuildPcs :
        /\ Builds(w, i) /\ Moves(w, from, "attempt")
        /\ \E s \in Status \ (LeftOut \cup {"matched", "built", "skipped"}) :
              /\ status' = [status EXCEPT ![i] = s]
              /\ s = "parent_error" =>
                    Parent[i] \in Images /\ status[Parent[i]] \in STATUS_ERRORS
        /\ UNCHANGED engine
        /\ ~success'[w] /\ attempt'[w] = attempt[w] + 1

Produces(w, i) ==
    /\ Builds(w, i) /\ Moves(w, "engine", "squash")
    /\ engine' = engine \cup {i}
    /\ UNCHANGED <<status, attempt, success>>

Succeeds(w, i) ==
    \E from \in {"engine", "squash"} :
        /\ Builds(w, i) /\ Moves(w, from, "followups")
        /\ status' = [status EXCEPT ![i] = "built"]
        /\ engine' = engine \cup {i}
        /\ success'[w] /\ UNCHANGED attempt

QueuesPush(w, i) ==
    /\ Moves(w, "queuepush", "followups")
    /\ task[w] = Task("queuepush", i)
    /\ UNCHANGED <<task, status, engine, registry, attempt>>
    /\ success'[w]
    /\ \A u \in Tasks :
          /\ Waiting(u)' <=> Waiting(u) \/ u = Task("push", i)
          /\ Present(u)' <=> Present(u) \/ u = Task("push", i)

Pushes(w, i) ==
    /\ Moves(w, "push", "followups")
    /\ task[w] = Task("push", i)
    /\ status' = [status EXCEPT ![i] = "built"]
    /\ registry' = registry \cup {i}
    /\ UNCHANGED <<task, engine, attempt>> /\ SamePlaces
    /\ success'[w]

FailsToPush(w, i) ==
    /\ Moves(w, "push", "attempt")
    /\ task[w] = Task("push", i)
    /\ \E s \in {"push_error", "connection_error"} :
          status' = [status EXCEPT ![i] = s]
    /\ UNCHANGED <<task, engine, registry>> /\ SamePlaces
    /\ ~success'[w] /\ attempt'[w] = attempt[w] + 1

GivesUp(w) ==
    /\ Moves(w, "attempt", "followups")
    /\ attempt[w] > conf.retries \/ should_stop[w]
    /\ UNCHANGED <<task, status, engine, registry, attempt, success>>
    /\ SamePlaces

\* N are the follow-ups it has yet to queue.
Collects(w, N) ==
    /\ Moves(w, "followups", "put")
    /\ UNCHANGED <<task, status, engine, registry, attempt, success>>
    /\ N = IF success[w] /\ ~should_stop[w] THEN Followups(task[w]) ELSE {}
    /\ \A u \in Tasks : /\ Waiting(u)' <=> Waiting(u) \/ u \in N
                        /\ Present(u)' <=> Present(u) \/ u \in N

Leaves(w) ==
    /\ Moves(w, "put", "loop")
    /\ UNCHANGED <<status, engine, registry>>
    /\ task'[w] = NoTask /\ ~success'[w] /\ attempt'[w] = 0
    /\ \A u \in Tasks : /\ Waiting(u)' <=> Waiting(u)
                        /\ Present(u)' <=> Present(u) /\ u # task[w]

WorkerEffect(w) ==
    \/ \E t \in Tasks : Takes(w, t)
    \/ \E i \in Images :
          \/ Enters(w, i) \/ Fails(w, i) \/ Produces(w, i) \/ Succeeds(w, i)
          \/ QueuesPush(w, i) \/ Pushes(w, i) \/ FailsToPush(w, i)
    \/ \E N \in SUBSET Tasks : Collects(w, N)
    \/ GivesUp(w) \/ Leaves(w)

\* The others are where they were, and where it is says what it does.
LEMMA EffectFacts ==
    ASSUME NEW w \in Workers, WorkerEffect(w)
    PROVE  /\ \A v \in Workers \ {w} :
                 /\ wpc'[v] = wpc[v] /\ task'[v] = task[v]
                 /\ attempt'[v] = attempt[v] /\ success'[v] = success[v]
           /\ wpc[w] = "put" => Leaves(w)
           /\ wpc[w] = "attempt" => GivesUp(w)
           /\ wpc[w] = "queuepush" => \E i \in Images : QueuesPush(w, i)
           /\ wpc[w] = "push" => \E i \in Images : Pushes(w, i) \/ FailsToPush(w, i)
           /\ task'[w] = task[w] \/ task'[w] = NoTask
              \/ \E t \in Tasks : Takes(w, t)
<1>1. CASE \E t \in Tasks : Takes(w, t)
  BY <1>1 DEF Takes, Moves
<1>2. ASSUME NEW i \in Images,
             Enters(w, i) \/ Fails(w, i) \/ Produces(w, i) \/ Succeeds(w, i)
      PROVE  /\ wpc[w] \in BuildPcs /\ task'[w] = task[w]
             /\ \A v \in Workers \ {w} :
                   /\ wpc'[v] = wpc[v] /\ task'[v] = task[v]
                   /\ attempt'[v] = attempt[v] /\ success'[v] = success[v]
  BY <1>2 DEF Enters, Fails, Produces, Succeeds, Builds, Moves, BuildPcs
<1>3. ASSUME NEW i \in Images,
             QueuesPush(w, i) \/ Pushes(w, i) \/ FailsToPush(w, i)
      PROVE  /\ wpc[w] = IF QueuesPush(w, i) THEN "queuepush" ELSE "push"
             /\ task'[w] = task[w]
             /\ \A v \in Workers \ {w} :
                   /\ wpc'[v] = wpc[v] /\ task'[v] = task[v]
                   /\ attempt'[v] = attempt[v] /\ success'[v] = success[v]
  BY <1>3 DEF QueuesPush, Pushes, FailsToPush, Moves
<1>4. CASE \E N \in SUBSET Tasks : Collects(w, N)
  BY <1>4 DEF Collects, Moves
<1>5. CASE GivesUp(w)
  BY <1>5 DEF GivesUp, Moves
<1>6. CASE Leaves(w)
  BY <1>6 DEF Leaves, Moves
<1> QED BY <1>1, <1>2, <1>3, <1>4, <1>5, <1>6 DEF WorkerEffect, BuildPcs

LEMMA SamePlacesIf ==
    ASSUME QueuedTasks' = QueuedTasks, UNCHANGED <<task, pending>>
    PROVE  SamePlaces
  BY DEF SamePlaces, Waiting, Present, Held

LEMMA MainQuiet ==
    ASSUME BInv, MainStep \/ Interrupt \/ JoinTimeout
    PROVE  Quiet
<1> USE DEF queueVars, mainVars, workerVars, extVars, GoMain, PutTombstone
<1>1. /\ UNCHANGED <<conf, status, engine, registry, task, pending, success, attempt>>
      /\ UNCHANGED queue \/ \E q \in QueueNames : Put(q, Tombstone)
  BY DEF MainStep, StartWorker, StopWorker, AppendWorker, PollBuild, PollPush,
         TombstonePush, TombstoneBuild, Join, StopPushQueue, StopBuildQueue,
         WaitWorkers, Summary, Cleanup, Return, Interrupt, JoinTimeout,
         QueueNames
<1>2. SamePlaces
  BY <1>1, NoTaskQueued, SamePlacesIf
<1>3. ASSUME NEW w \in Workers, StartWorker(w), NEW v \in Workers
      PROVE  QuietMove(v) /\ should_stop'[v] = should_stop[v]
  <2>1. wpc[w] = "new"
    BY <1>3 DEF StartWorker, NextToStart, BInv, TInv, PcMatchesTask
  <2>2. wpc' = [wpc EXCEPT ![w] = "loop"] /\ UNCHANGED should_stop
    BY <1>3 DEF StartWorker
  <2>3. v # w => wpc'[v] = wpc[v]
    BY <2>2 DEF BInv, TInv, TypeOK
  <2>4. v = w => wpc'[v] = "loop"
    BY <2>2 DEF BInv, TInv, TypeOK
  <2> QED BY <2>1, <2>2, <2>3, <2>4 DEF QuietMove
<1>4. ASSUME NEW w \in Workers, StopWorker(w), NEW v \in Workers
      PROVE  QuietMove(v) /\ (should_stop[v] => should_stop'[v])
  <2>1. UNCHANGED wpc /\ should_stop' = [should_stop EXCEPT ![w] = TRUE]
    BY <1>4 DEF StopWorker
  <2> QED BY <2>1 DEF QuietMove, BInv, TInv, TypeOK
<1>5. ASSUME ~\E w \in Workers : StartWorker(w) \/ StopWorker(w), NEW v \in Workers
      PROVE  QuietMove(v) /\ should_stop'[v] = should_stop[v]
  <2>1. UNCHANGED <<wpc, should_stop>>
    BY <1>5 DEF MainStep, AppendWorker, PollBuild, PollPush,
         TombstonePush, TombstoneBuild, Join, StopPushQueue, StopBuildQueue,
         WaitWorkers, Summary, Cleanup, Return, Interrupt, JoinTimeout
  <2> QED BY <2>1 DEF QuietMove
<1> QED BY <1>1, <1>2, <1>3, <1>4, <1>5 DEF Quiet

LEMMA WorkerQuiet ==
    ASSUME BInv, NEW w \in Workers,
           \/ Loop(w) \/ PutBack(w) \/ SourcesReady(w)
           \/ Attempt(w) /\ ~(attempt[w] > conf.retries \/ should_stop[w])
           \/ Get(w) /\ Head(queue[QueueOf(w)]) = Tombstone
    PROVE  Quiet /\ \A v \in Workers \ {w} : wpc'[v] = wpc[v]
<1> USE DEF At, Goto, queueVars, mainVars, extVars
<1>1. UNCHANGED <<conf, status, engine, registry, task, pending, success, attempt,
                  should_stop>>
  BY DEF Loop, PutBack, Attempt, SourcesReady, Get
<1>2. QueuedTasks' = QueuedTasks
  <2>1. CASE Get(w) /\ Head(queue[QueueOf(w)]) = Tombstone
    <3>1. QueueOf(w) \in QueueNames /\ queue[QueueOf(w)] # <<>>
      BY <2>1 DEF Get, QueueOf, QueueNames
    <3>2. QueuedTasks' = QueuedTasks \ {Tombstone}
      BY <2>1, <3>1, GetQueued DEF Get, BInv, TInv, OneInv
    <3> QED BY <3>2, TaskShape DEF QueuedTasks
  <2>2. CASE Loop(w) \/ PutBack(w) \/ Attempt(w) \/ SourcesReady(w)
    <3>1. UNCHANGED queue \/ \E q \in QueueNames : Put(q, Tombstone)
      BY <2>2 DEF Loop, PutBack, Attempt, SourcesReady, QueueOf, QueueNames
    <3> QED BY <3>1, NoTaskQueued
  <2> QED BY <2>1, <2>2
<1>3. \E pc : wpc' = [wpc EXCEPT ![w] = pc]
  BY DEF Loop, PutBack, Attempt, SourcesReady, Get
<1>4. wpc \in [Workers -> {"new", "loop", "get", "putback", "attempt",
                           "followups", "put", "exited"} \cup Running]
  BY DEF BInv, TInv, TypeOK
<1>5. \A v \in Workers \ {w} : wpc'[v] = wpc[v]
  BY <1>3, <1>4
<1>6. QuietMove(w)
  <2>1. CASE Attempt(w) /\ ~(attempt[w] > conf.retries \/ should_stop[w])
    BY <2>1, <1>4 DEF Attempt, QuietMove
  <2>2. CASE \/ Loop(w) \/ PutBack(w) \/ SourcesReady(w)
             \/ Get(w) /\ Head(queue[QueueOf(w)]) = Tombstone
    BY <2>2, <1>4 DEF Loop, PutBack, SourcesReady, Get, QuietMove
  <2> QED BY <2>1, <2>2
<1> QED BY <1>1, <1>2, <1>5, <1>6, SamePlacesIf DEF Quiet, QuietMove

\* What the effects take from the type invariant.
LEMMA WorkerTypes ==
    ASSUME BInv
    PROVE  /\ wpc \in [Workers -> {"new", "loop", "get", "putback", "attempt",
                                    "followups", "put", "exited"} \cup Running]
           /\ task \in [Workers -> Tasks \cup {NoTask}]
           /\ attempt \in [Workers -> Nat] /\ success \in [Workers -> BOOLEAN]
           /\ pending \in [Workers -> SUBSET Tasks]
           /\ status \in [Images -> Status]
  BY DEF BInv, TInv, TypeOK

LEMMA GetEffect ==
    ASSUME BInv, NEW w \in Workers, Get(w), Head(queue[QueueOf(w)]) # Tombstone
    PROVE  \E t \in Tasks : Takes(w, t)
<1> DEFINE t == Head(queue[QueueOf(w)])
<1>1. QueueOf(w) \in QueueNames /\ queue[QueueOf(w)] # <<>>
  BY DEF Get, QueueOf, QueueNames
<1>2. t \in Tasks
  <2>1. queue[QueueOf(w)] \in Seq(Tasks \cup {Tombstone})
    BY <1>1 DEF BInv, TInv, TypeOK
  <2> QED BY <1>1, <2>1, HeadTailProperties
<1>3. /\ t \in QueuedTasks
      /\ QueuedTasks' = QueuedTasks \ {t}
  BY <1>1, <1>2, GetQueued DEF Get, BInv, TInv, OneInv
<1>4. /\ task' = [task EXCEPT ![w] = t]
      /\ wpc' = [wpc EXCEPT ![w] = "attempt"]
      /\ wpc[w] = "get"
      /\ UNCHANGED <<conf, status, engine, registry, attempt, success, pending,
                     should_stop>>
  BY DEF Get, At, Goto, extVars
<1>5. task[w] = NoTask /\ NoTask \notin Tasks
  BY <1>4, TaskShape DEF BInv, TInv, PcMatchesTask, Idle
<1>6. \A v \in Workers : /\ task'[v] = IF v = w THEN t ELSE task[v]
                         /\ wpc'[v] = IF v = w THEN "attempt" ELSE wpc[v]
  BY <1>4, WorkerTypes
<1>7. \A v \in Workers : t \notin pending[v]
  BY <1>2, <1>3 DEF BInv, OneInv, OnePlace
<1>8. \A u \in Tasks : Waiting(u)' <=> Waiting(u) /\ u # t
  BY <1>3, <1>4, <1>7 DEF Waiting
<1>9. \A u \in Tasks : Held(u)' <=> Held(u) \/ u = t
  BY <1>5, <1>6 DEF Held
<1>10. \A u \in Tasks : Present(u)' <=> Present(u)
  BY <1>3, <1>8, <1>9 DEF Present, Waiting
<1>11. Moves(w, "get", "attempt")
  BY <1>4, <1>6 DEF Moves
<1> QED
  BY <1>2, <1>3, <1>4, <1>5, <1>6, <1>8, <1>10, <1>11 DEF Takes, Waiting

LEMMA GiveUpEffect ==
    ASSUME BInv, NEW w \in Workers, Attempt(w),
           attempt[w] > conf.retries \/ should_stop[w]
    PROVE  GivesUp(w)
<1>1. /\ wpc[w] = "attempt" /\ wpc' = [wpc EXCEPT ![w] = "followups"]
      /\ UNCHANGED <<conf, status, queue, engine, registry, task, pending, success,
                     attempt, should_stop>>
  BY DEF Attempt, At, Goto, queueVars, extVars
<1>2. SamePlaces
  BY <1>1, SamePlacesIf DEF QueuedTasks
<1>3. Moves(w, "attempt", "followups")
  BY <1>1, WorkerTypes DEF Moves
<1> QED BY <1>1, <1>2, <1>3 DEF GivesUp

LEMMA BuildEffect ==
    ASSUME BInv, NEW w \in Workers, BuildRun(w), ~SourcesReady(w)
    PROVE  \E i \in Images : \/ Enters(w, i) \/ Fails(w, i)
                             \/ Produces(w, i) \/ Succeeds(w, i)
<1> USE DEF At, Goto, queueVars, mainVars, extVars
<1> DEFINE i == task[w].image
<1>1. wpc[w] \in BuildPcs /\ task[w] \in Tasks /\ task[w].kind = "build"
  BY DEF BuildRun, Check, SourcesFail, EngineBuildOk,
         EngineBuildFail, SquashOk, SquashNoParentLayer, SquashFail,
         BInv, TInv, PcMatchesTask, BuildPcs, Idle
<1>2. i \in Images /\ task[w] = Task("build", i)
  BY <1>1, TaskShape
<1>3. Planned(i)
  BY <1>2 DEF BInv, OneInv, BuildsAreReady, Present, Held
<1>4. UNCHANGED <<conf, queue, task, pending, should_stop, registry>>
  BY DEF BuildRun, Check, SourcesFail, EngineBuildOk, EngineBuildFail,
         SquashOk, SquashNoParentLayer, SquashFail, EndBuild, Finish
<1>5. Builds(w, i)
  <2>1. ~success[w]
    BY <1>1 DEF BInv, OneInv, SuccessIsTrue, BuildPcs
  <2>2. SamePlaces
    BY <1>4, SamePlacesIf DEF QueuedTasks
  <2> QED BY <1>2, <1>4, <2>1, <2>2 DEF Builds
<1>6. ASSUME NEW pc, wpc' = [wpc EXCEPT ![w] = pc],
             \A v \in Workers \ {w} :
                attempt'[v] = attempt[v] /\ success'[v] = success[v]
      PROVE  Moves(w, wpc[w], pc)
  BY <1>4, <1>6, WorkerTypes DEF Moves
<1>7. ASSUME NEW s \in Status \ (LeftOut \cup {"matched", "built"}),
             EndBuild(w, s), UNCHANGED engine,
             s = "parent_error" =>
                Parent[i] \in Images /\ status[Parent[i]] \in STATUS_ERRORS
      PROVE  Fails(w, i)
  <2>1. (s \in {"built", "skipped"}) = FALSE
    BY <1>7 DEF LeftOut
  <2>2. /\ status' = [status EXCEPT ![i] = s]
        /\ success' = [success EXCEPT ![w] = FALSE]
        /\ attempt' = [attempt EXCEPT ![w] = attempt[w] + 1]
        /\ wpc' = [wpc EXCEPT ![w] = "attempt"]
    BY <1>7, <2>1 DEF EndBuild, Finish
  <2>3. s \in Status \ (LeftOut \cup {"matched", "built", "skipped"})
    BY <1>7 DEF LeftOut
  <2>4. Moves(w, wpc[w], "attempt") /\ ~success'[w] /\ attempt'[w] = attempt[w] + 1
    BY <1>6, <2>2, WorkerTypes
  <2> QED BY <1>1, <1>5, <1>7, <2>2, <2>3, <2>4 DEF Fails
<1>8. ASSUME EndBuild(w, "built"), engine' = engine \cup {i},
             wpc[w] \in {"engine", "squash"}
      PROVE  Succeeds(w, i)
  <2>1. /\ status' = [status EXCEPT ![i] = "built"]
        /\ success' = [success EXCEPT ![w] = TRUE]
        /\ attempt' = [attempt EXCEPT ![w] = @]
        /\ wpc' = [wpc EXCEPT ![w] = "followups"]
    BY <1>8 DEF EndBuild, Finish
  <2>2. /\ Moves(w, wpc[w], "followups") /\ success'[w] /\ UNCHANGED attempt
    BY <1>6, <2>1, WorkerTypes
  <2> QED BY <1>5, <1>8, <2>1, <2>2 DEF Succeeds
<1>9. CASE Check(w)
  <2>1. CASE BuilderEntry(i) = "building"
    <3>1. /\ status' = [status EXCEPT ![i] = "building"]
          /\ wpc' = [wpc EXCEPT ![w] = "sources"] /\ wpc[w] = "check"
          /\ UNCHANGED <<engine, attempt, success>>
      BY <1>9, <2>1 DEF Check
    <3>2. Moves(w, "check", "sources")
      BY <1>6, <3>1
    <3> QED BY <1>2, <1>5, <3>1, <3>2 DEF Enters
  <2>2. CASE BuilderEntry(i) # "building"
    <3>1. /\ BuilderEntry(i) = "parent_error"
          /\ Parent[i] \in Images /\ status[Parent[i]] \in STATUS_ERRORS
      BY <1>3, <2>2 DEF BuilderEntry, Planned
    <3>2. EndBuild(w, "parent_error") /\ UNCHANGED engine
      BY <1>9, <2>2, <3>1 DEF Check
    <3> QED BY <1>2, <1>7, <3>1, <3>2 DEF Status, LeftOut
  <2> QED BY <2>1, <2>2
<1>10. CASE SourcesFail(w)
  <2>1. PICK s \in {"error", "connection_error", "building"} : EndBuild(w, s)
    BY <1>10 DEF SourcesFail
  <2>2. UNCHANGED engine
    BY <1>10 DEF SourcesFail
  <2> QED BY <1>2, <1>7, <2>1, <2>2 DEF Status, LeftOut
<1>11. CASE EngineBuildOk(w)
  <2>1. engine' = engine \cup {i} /\ wpc[w] = "engine"
    BY <1>11 DEF EngineBuildOk
  <2>2. CASE EndBuild(w, "built")
    BY <1>2, <1>8, <2>1, <2>2
  <2>3. CASE ~EndBuild(w, "built")
    <3>1. /\ UNCHANGED <<status, attempt, success>>
          /\ wpc' = [wpc EXCEPT ![w] = "squash"]
      BY <1>11, <2>3 DEF EngineBuildOk
    <3>2. Moves(w, "engine", "squash")
      BY <1>6, <2>1, <3>1
    <3> QED BY <1>2, <1>5, <2>1, <3>1, <3>2 DEF Produces
  <2> QED BY <2>2, <2>3
<1>12. CASE EngineBuildFail(w) \/ SquashFail(w)
  <2>1. EndBuild(w, "error") /\ UNCHANGED engine
    BY <1>12 DEF EngineBuildFail, SquashFail
  <2> QED BY <1>2, <1>7, <2>1 DEF Status, LeftOut
<1>13. CASE SquashOk(w) \/ SquashNoParentLayer(w)
  <2>1. /\ EndBuild(w, "built") /\ UNCHANGED engine /\ wpc[w] = "squash"
    BY <1>13 DEF SquashOk, SquashNoParentLayer
  <2>2. i \in engine
    BY <2>1 DEF BInv, OneInv, SuccessIsTrue
  <2>3. engine' = engine \cup {i}
    BY <2>1, <2>2
  <2> QED BY <1>2, <1>8, <2>1, <2>3
<1> HIDE DEF At, Goto, queueVars, mainVars, extVars
<1> QED BY <1>9, <1>10, <1>11, <1>12, <1>13 DEF BuildRun

LEMMA QueuePushEffect ==
    ASSUME BInv, NEW w \in Workers, RunQueuePush(w)
    PROVE  \E i \in Images : QueuesPush(w, i)
<1>1. PICK i \in Images : wpc[w] = "queuepush" /\ task[w] = Task("queuepush", i)
  <2>1. /\ wpc[w] = "queuepush" /\ task[w] \in Tasks
        /\ task[w].kind = "queuepush"
    BY DEF RunQueuePush, At, BInv, TInv, PcMatchesTask, Idle
  <2> QED BY <2>1, TaskShape
<1> DEFINE t == Task("push", i)
<1>2. task[w].image = i /\ t \in Tasks
  BY <1>1, TaskShape
<1>3. QueuedTasks' = QueuedTasks \cup {t}
  <2>1. QueuedTasks' = QueuedTasks \cup ({t} \cap Tasks)
    BY <1>2, PutQueued DEF RunQueuePush, BInv, TInv, QueueNames
  <2> QED BY <1>2, <2>1
<1>4. /\ wpc' = [wpc EXCEPT ![w] = "followups"]
      /\ success' = [success EXCEPT ![w] = TRUE]
      /\ attempt' = [attempt EXCEPT ![w] = @]
      /\ UNCHANGED <<conf, status, engine, registry, task, pending, should_stop>>
  BY DEF RunQueuePush, Finish, Goto, extVars
<1>5. \A u \in Tasks : Waiting(u)' <=> Waiting(u) \/ u = t
  BY <1>3, <1>4 DEF Waiting
<1>6. \A u \in Tasks : Present(u)' <=> Present(u) \/ u = t
  BY <1>4, <1>5 DEF Present, Held
<1>7. Moves(w, "queuepush", "followups") /\ success'[w] /\ UNCHANGED attempt
  BY <1>1, <1>4, WorkerTypes DEF Moves
<1> QED BY <1>1, <1>4, <1>5, <1>6, <1>7 DEF QueuesPush

LEMMA PushEffect ==
    ASSUME BInv, NEW w \in Workers, PushOk(w) \/ PushFail(w)
    PROVE  \E i \in Images : Pushes(w, i) \/ FailsToPush(w, i)
<1>1. PICK i \in Images : wpc[w] = "push" /\ task[w] = Task("push", i)
  <2>1. wpc[w] = "push" /\ task[w] \in Tasks /\ task[w].kind = "push"
    BY DEF PushOk, PushFail, At, BInv, TInv, PcMatchesTask, Idle
  <2> QED BY <2>1, TaskShape
<1>2. task[w].image = i
  BY <1>1, TaskShape
<1>3. UNCHANGED <<conf, queue, task, pending, should_stop, engine>>
  BY DEF PushOk, PushFail, Finish, queueVars, extVars
<1>4. SamePlaces
  BY <1>3, SamePlacesIf DEF QueuedTasks
<1>5. CASE PushOk(w)
  <2>1. /\ status' = [status EXCEPT ![i] = "built"]
        /\ registry' = registry \cup {i}
        /\ success' = [success EXCEPT ![w] = TRUE]
        /\ attempt' = [attempt EXCEPT ![w] = @]
        /\ wpc' = [wpc EXCEPT ![w] = "followups"]
    BY <1>2, <1>5 DEF PushOk, Finish, Goto
  <2>2. Moves(w, "push", "followups") /\ success'[w] /\ UNCHANGED attempt
    BY <1>1, <1>3, <2>1, WorkerTypes DEF Moves
  <2> QED BY <1>1, <1>3, <1>4, <2>1, <2>2 DEF Pushes
<1>6. CASE PushFail(w)
  <2>1. /\ \E s \in {"push_error", "connection_error"} :
              status' = [status EXCEPT ![i] = s]
        /\ UNCHANGED registry
        /\ success' = [success EXCEPT ![w] = FALSE]
        /\ attempt' = [attempt EXCEPT ![w] = attempt[w] + 1]
        /\ wpc' = [wpc EXCEPT ![w] = "attempt"]
    BY <1>2, <1>6 DEF PushFail, Finish, Goto, extVars
  <2>2. /\ Moves(w, "push", "attempt")
        /\ ~success'[w] /\ attempt'[w] = attempt[w] + 1
    BY <1>1, <1>3, <2>1, WorkerTypes DEF Moves
  <2> QED BY <1>1, <1>3, <1>4, <2>1, <2>2 DEF FailsToPush
<1> QED BY <1>5, <1>6

LEMMA CollectEffect ==
    ASSUME BInv, NEW w \in Workers, CollectFollowups(w)
    PROVE  \E N \in SUBSET Tasks : Collects(w, N)
<1> DEFINE N == IF success[w] /\ ~should_stop[w]
                THEN Followups(task[w]) ELSE {}
<1>1. /\ wpc[w] = "followups" /\ task[w] \in Tasks /\ pending[w] = {}
      /\ UNCHANGED <<conf, status, engine, registry, queue, task, attempt,
                     success, should_stop>>
      /\ pending' = [pending EXCEPT ![w] = N]
      /\ wpc' = [wpc EXCEPT ![w] = "put"]
  BY DEF CollectFollowups, At, Goto, queueVars, extVars, BInv, TInv,
         PcMatchesTask, Idle
<1>2. N \in SUBSET Tasks
  BY <1>1, TaskShape DEF Followups, Children
<1>3. \A v \in Workers : pending'[v] = IF v = w THEN N ELSE pending[v]
  BY <1>1, WorkerTypes
<1>4. QueuedTasks' = QueuedTasks
  BY <1>1, NoTaskQueued
<1>5. \A u \in Tasks : Waiting(u)' <=> Waiting(u) \/ u \in N
  BY <1>1, <1>3, <1>4 DEF Waiting
<1>6. \A u \in Tasks : Present(u)' <=> Present(u) \/ u \in N
  BY <1>1, <1>5 DEF Present, Held
<1>7. Moves(w, "followups", "put")
  BY <1>1, WorkerTypes DEF Moves
<1> QED BY <1>1, <1>2, <1>5, <1>6, <1>7 DEF Collects

LEMMA PutQuiet ==
    ASSUME BInv, NEW w \in Workers, PutFollowup(w) PROVE Quiet
<1>1. PICK t \in pending[w] : /\ pending' = [pending EXCEPT ![w] = @ \ {t}]
                              /\ Put(QueueOf(w), t)
  BY DEF PutFollowup
<1>2. /\ t \in Tasks /\ QueueOf(w) \in QueueNames
      /\ UNCHANGED <<conf, status, engine, registry, task, success, attempt,
                     wpc, should_stop>>
  BY <1>1, WorkerTypes DEF PutFollowup, extVars, QueueOf, QueueNames
<1>3. \A v \in Workers :
         pending'[v] = IF v = w THEN pending[w] \ {t} ELSE pending[v]
  BY <1>1, WorkerTypes
<1>4. QueuedTasks' = QueuedTasks \cup {t}
  <2>1. QueuedTasks' = QueuedTasks \cup ({t} \cap Tasks)
    BY <1>1, <1>2, PutQueued DEF BInv, TInv
  <2> QED BY <1>2, <2>1
<1>5. \A u \in Tasks : Waiting(u)' <=> Waiting(u)
  BY <1>1, <1>3, <1>4 DEF Waiting
<1>6. \A u \in Tasks : Present(u)' <=> Present(u)
  BY <1>2, <1>5 DEF Present, Held
<1> QED BY <1>2, <1>5, <1>6 DEF Quiet, SamePlaces, QuietMove

LEMMA LeaveEffect ==
    ASSUME BInv, NEW w \in Workers, TaskDone(w) PROVE Leaves(w)
<1>1. /\ wpc[w] = "put"
      /\ UNCHANGED <<conf, status, engine, registry, queue, pending, should_stop>>
      /\ task' = [task EXCEPT ![w] = NoTask]
      /\ wpc' = [wpc EXCEPT ![w] = "loop"]
      /\ success' = [success EXCEPT ![w] = FALSE]
      /\ attempt' = [attempt EXCEPT ![w] = 0]
  BY DEF TaskDone, At, Goto, extVars
<1>2. task[w] \in Tasks
  BY <1>1 DEF BInv, TInv, PcMatchesTask, Idle
<1>3. \A u \in Tasks : Waiting(u)' <=> Waiting(u)
  BY <1>1 DEF Waiting, QueuedTasks
<1>4. \A v \in Workers : task'[v] = IF v = w THEN NoTask ELSE task[v]
  BY <1>1, WorkerTypes
<1>5. \A u \in Tasks : Held(u)' <=> Held(u) /\ u # task[w]
  BY <1>2, <1>4, TaskShape DEF Held, BInv, OneInv, OnePlace
<1>6. ~Waiting(task[w])
  BY <1>2 DEF Waiting, BInv, OneInv, OnePlace
<1>7. \A u \in Tasks : Present(u)' <=> Present(u) /\ u # task[w]
  BY <1>3, <1>5, <1>6 DEF Present
<1>8. /\ Moves(w, "put", "loop")
      /\ task'[w] = NoTask /\ ~success'[w] /\ attempt'[w] = 0
  BY <1>1, WorkerTypes DEF Moves
<1> QED BY <1>1, <1>3, <1>7, <1>8 DEF Leaves

\* Every step is one of these.
LEMMA StepEffect ==
    ASSUME BInv, [Next]_vars
    PROVE  Quiet \/ \E w \in Workers : WorkerEffect(w)
<1>1. CASE UNCHANGED vars
  <2>1. /\ UNCHANGED <<conf, status, engine, registry, task, pending, success,
                        attempt, wpc, should_stop, queue>>
    BY <1>1 DEF vars, queueVars, mainVars, workerVars, extVars
  <2>2. SamePlaces
    BY <2>1, SamePlacesIf DEF QueuedTasks
  <2> QED BY <2>1, <2>2 DEF Quiet, QuietMove
<1>2. CASE MainStep \/ Interrupt \/ JoinTimeout
  BY <1>2, MainQuiet
<1>3. ASSUME NEW w \in Workers, WorkerStep(w) PROVE Quiet \/ WorkerEffect(w)
  <2>1. CASE \/ Loop(w) \/ PutBack(w) \/ SourcesReady(w)
             \/ Attempt(w) /\ ~(attempt[w] > conf.retries \/ should_stop[w])
             \/ Get(w) /\ Head(queue[QueueOf(w)]) = Tombstone
    BY <2>1, WorkerQuiet
  <2>8. CASE Attempt(w) /\ (attempt[w] > conf.retries \/ should_stop[w])
    BY <2>8, GiveUpEffect DEF WorkerEffect
  <2>2. CASE Get(w) /\ Head(queue[QueueOf(w)]) # Tombstone
    BY <2>2, GetEffect DEF WorkerEffect
  <2>3. CASE BuildRun(w) /\ ~SourcesReady(w)
    BY <2>3, BuildEffect DEF WorkerEffect
  <2>4. CASE PushRun(w)
    BY <2>4, QueuePushEffect, PushEffect DEF PushRun, WorkerEffect
  <2>5. CASE CollectFollowups(w)
    BY <2>5, CollectEffect DEF WorkerEffect
  <2>6. CASE PutFollowup(w)
    BY <2>6, PutQuiet
  <2>7. CASE TaskDone(w)
    BY <2>7, LeaveEffect DEF WorkerEffect
  <2> QED BY <1>3, <2>1, <2>2, <2>3, <2>4, <2>5, <2>6, <2>7, <2>8
         DEF WorkerStep
<1> QED BY <1>1, <1>2, <1>3 DEF Next, Terminated
-----------------------------------------------------------------------------
(***************************************************************************)
(* The invariant is kept.                                                  *)
(***************************************************************************)
\* Who writes a status, and what.
LEMMA Writes ==
    ASSUME BInv, NEW w \in Workers, WorkerEffect(w), ~UNCHANGED status
    PROVE  \E i \in Images :
              /\ \/ task[w] = Task("build", i) /\ wpc[w] \in BuildPcs /\ ~success[w]
                 \/ task[w] = Task("push", i) /\ wpc[w] = "push"
              /\ \E s \in Status \ (LeftOut \cup {"matched"}) :
                    \A j \in Images : status'[j] = IF j = i THEN s ELSE status[j]
<1>1. PICK i \in Images : \/ Enters(w, i) \/ Fails(w, i) \/ Succeeds(w, i)
                         \/ Pushes(w, i) \/ FailsToPush(w, i)
  BY DEF WorkerEffect, Takes, Produces, QueuesPush, Collects, GivesUp, Leaves
<1>2. \E s \in Status \ (LeftOut \cup {"matched"}) : status' = [status EXCEPT ![i] = s]
  BY <1>1 DEF Enters, Fails, Succeeds, Pushes, FailsToPush, Status, LeftOut
<1>3. \/ task[w] = Task("build", i) /\ wpc[w] \in BuildPcs /\ ~success[w]
      \/ task[w] = Task("push", i) /\ wpc[w] = "push"
  BY <1>1 DEF Enters, Fails, Succeeds, Pushes, FailsToPush, Builds, Moves, BuildPcs
<1> QED BY <1>2, <1>3, WorkerTypes

\* Follow-ups are those of a build: a push and the builds of children.
LEMMA FollowupsAre ==
    ASSUME BInv, NEW w \in Workers, NEW N, Collects(w, N), NEW u \in N
    PROVE  \E i \in Images :
              /\ task[w] = Task("build", i) /\ success[w] /\ ~should_stop[w]
              /\ \/ conf.push /\ u = Task("queuepush", i)
                 \/ \E c \in Images : /\ u = Task("build", c) /\ Parent[c] = i
                                      /\ status[c] \notin LeftOut
<1>1. /\ task[w] \in Tasks /\ success[w] /\ ~should_stop[w]
      /\ u \in Followups(task[w])
  BY DEF Collects, Moves, BInv, TInv, PcMatchesTask, Idle
<1>2. task[w].kind = "build" /\ task[w].image \in Images
  BY <1>1, TaskShape DEF Followups
<1>3. task[w] = Task("build", task[w].image)
  BY <1>1, <1>2, TaskShape
<1>4. \/ conf.push /\ u = Task("queuepush", task[w].image)
      \/ \E c \in Images : /\ u = Task("build", c) /\ Parent[c] = task[w].image
                           /\ status[c] \notin LeftOut
  BY <1>1, <1>2 DEF Followups, Children
<1> QED BY <1>1, <1>2, <1>3, <1>4

\* What has happened to an image is not undone.
LEMMA TriedStays ==
    ASSUME BInv, BInv', NEW w \in Workers, Quiet \/ WorkerEffect(w),
           NEW i \in Images
    PROVE  /\ Tried(i) => Tried(i)'
           /\ Collected(i) => Collected(i)'
           /\ Tried(i)' => Tried(i) \/ Present(Task("build", i))
           /\ Planned(i)' <=> Planned(i)
           /\ status'[i] = "skipped" <=> status[i] = "skipped"
<1>1. CASE Quiet
  <2>1. UNCHANGED <<status, engine, task>>
    BY <1>1 DEF Quiet
  <2>2. \A v \in Workers : wpc[v] = "put" => wpc'[v] = "put"
    BY <1>1 DEF Quiet, QuietMove
  <2> QED BY <2>1, <2>2 DEF Tried, Planned, Collected
<1>2. CASE WorkerEffect(w)
  <2>1. /\ Tried(i) => Tried(i)'
        /\ Planned(i)' <=> Planned(i)
        /\ Tried(i)' => Tried(i) \/ Present(Task("build", i))
        /\ status'[i] = "skipped" <=> status[i] = "skipped"
    <3>1. CASE UNCHANGED status
      BY <3>1 DEF Tried, Planned
    <3>2. CASE ~UNCHANGED status
      <4>1. PICK j \in Images :
                /\ task[w] = Task("build", j) \/ task[w] = Task("push", j)
                /\ \E s \in Status \ (LeftOut \cup {"matched"}) :
                      \A k \in Images : status'[k] = IF k = j THEN s ELSE status[k]
        BY <1>2, <3>2, Writes
      <4>2. Present(Task("build", j)) \/ Tried(j)
        BY <4>1 DEF Present, Held, BInv, OneInv, PushesAreCollected, Collected
      <4>3. Planned(j)
        BY <4>2 DEF BInv, OneInv, BuildsAreReady
      <4> QED BY <4>1, <4>2, <4>3 DEF Tried, Planned, LeftOut
    <3> QED BY <3>1, <3>2
  <2>2. engine \subseteq engine'
    BY <1>2 DEF WorkerEffect, Takes, Enters, Fails, Produces, Succeeds,
                QueuesPush, Pushes, FailsToPush, Collects, GivesUp, Leaves
  <2>3. ASSUME Collected(i), NEW v \in Workers, task'[v] = Task("build", i)
        PROVE  wpc'[v] = "put"
    <3>1. CASE task[v] = Task("build", i)
      <4>1. wpc[v] = "put"
        BY <2>3, <3>1 DEF Collected
      <4>2. v # w \/ Leaves(w)
        BY <1>2, <4>1, EffectFacts
      <4>3. v # w
        BY <2>3, <3>1, <4>2, TaskShape DEF Leaves
      <4> QED BY <1>2, <4>1, <4>3, EffectFacts
    <3>2. CASE task[v] # Task("build", i)
      <4>0. v = w /\ \E t \in Tasks : Takes(w, t)
        BY <1>2, <2>3, <3>2, EffectFacts, TaskShape
      <4>1. \E t \in Tasks : Takes(w, t) /\ t = Task("build", i)
        BY <2>3, <4>0 DEF Takes
      <4>2. Waiting(Task("build", i))
        BY <4>1 DEF Takes
      <4> QED
        BY <2>3, <4>2 DEF Collected, Tried, BInv, OneInv, WaitingIsFresh
    <3> QED BY <3>1, <3>2
  <2> QED BY <2>1, <2>2, <2>3 DEF Collected
<1> QED BY <1>1, <1>2

LEMMA StatusInit == Init => StatusInv
<1> SUFFICES ASSUME Init PROVE StatusInv
  OBVIOUS
<1>1. BInv
  BY TInvInit, OneInvInit DEF BInv
<1>2. /\ engine = {} /\ registry = {}
      /\ \A i \in Images : status[i] \in LeftOut \cup {"matched"}
      /\ \A w \in Workers : /\ wpc[w] = "new" /\ task[w] = NoTask
                            /\ attempt[w] = 0
  BY DEF Init, Plans, PlanStatus, LeftOut
<1>3. \A i \in Images : ~Tried(i) /\ ~Collected(i) /\ status[i] # "built"
  BY <1>2 DEF Tried, Collected, LeftOut
<1>4. NoPushTasks
  BY <1>1, <1>3 DEF NoPushTasks, BInv, OneInv, PushesAreCollected
<1>5. ParentsStayBuilt
  BY <1>1, <1>3 DEF ParentsStayBuilt, BInv, OneInv, BuildsAreReady, Ready
<1> QED
  BY <1>2, <1>3, <1>4, <1>5, TaskShape
     DEF StatusInv, SuccessIsBuilt, BegunIsTried, EngineAndStatus, PushedIsOver

LEMMA SuccessStays ==
    ASSUME SInv, BInv', NEW w \in Workers, Quiet \/ WorkerEffect(w)
    PROVE  SuccessIsBuilt'
<1> SUFFICES ASSUME NEW v \in Workers, NEW i \in Images,
                    task'[v] = Task("build", i), wpc'[v] # "put"
             PROVE  status'[i] = "built" <=> success'[v]
  BY DEF SuccessIsBuilt
<1>0. BInv /\ StatusInv /\ success[v] \in BOOLEAN /\ success'[v] \in BOOLEAN
  BY WorkerTypes DEF SInv, BInv, TInv, TypeOK
<1>1. ASSUME task[v] = Task("build", i), wpc[v] # "put"
      PROVE  status[i] = "built" <=> success[v]
  BY <1>0, <1>1 DEF StatusInv, SuccessIsBuilt
<1>2. CASE Quiet
  <2>1. wpc[v] # "put"
    BY <1>2 DEF Quiet, QuietMove
  <2> QED BY <1>1, <1>2, <2>1 DEF Quiet
<1>3. CASE WorkerEffect(w) /\ v # w
  <2>1. wpc'[v] = wpc[v] /\ task'[v] = task[v] /\ success'[v] = success[v]
    BY <1>3 DEF WorkerEffect, Takes, Enters, Fails, Produces, Succeeds,
                QueuesPush, Pushes, FailsToPush, Collects, GivesUp, Leaves, Moves
  <2>2. task[w] # Task("build", i) /\ task[w] # Task("push", i)
    <3>1. ~Collected(i)
      BY <2>1 DEF Collected
    <3> QED
      BY <1>0, <1>3, <2>1, <3>1, TaskShape
         DEF BInv, OneInv, OnePlace, PushesAreCollected, Present, Held
  <2>3. status'[i] = status[i]
    <3>1. CASE UNCHANGED status
      BY <3>1
    <3>2. CASE ~UNCHANGED status
      <4>1. PICK j \in Images :
                /\ task[w] = Task("build", j) \/ task[w] = Task("push", j)
                /\ \E s \in Status \ (LeftOut \cup {"matched"}) :
                      \A k \in Images : status'[k] = IF k = j THEN s ELSE status[k]
        BY <1>0, <1>3, <3>2, Writes
      <4> QED BY <2>2, <4>1
    <3> QED BY <3>1, <3>2
  <2> QED BY <1>1, <2>1, <2>3
<1>4. CASE WorkerEffect(w) /\ v = w
  <2>1. CASE \E t \in Tasks : Takes(w, t)
    <3>1. /\ wpc[w] = "get" /\ success'[w] = success[w]
          /\ Waiting(Task("build", i)) /\ UNCHANGED status
      BY <1>4, <2>1 DEF Takes, Moves
    <3>2. status[i] = "matched" /\ ~success[w]
      BY <1>0, <3>1 DEF BInv, OneInv, WaitingIsFresh, SuccessIsTrue
    <3> QED BY <1>4, <3>1, <3>2
  <2>2. ASSUME NEW j \in Images, Enters(w, j) \/ Fails(w, j) \/ Succeeds(w, j)
        PROVE  status'[i] = "built" <=> success'[w]
    <3>1. i = j
      BY <1>4, <2>2, TaskShape DEF Enters, Fails, Succeeds, Builds
    <3> QED
      BY <1>0, <2>2, <3>1, WorkerTypes DEF Enters, Fails, Succeeds, Builds
  <2>3. CASE \E j \in Images : Produces(w, j)
    BY <1>1, <1>4, <2>3 DEF Produces, Builds, Moves
  <2>4. CASE \E j \in Images : QueuesPush(w, j) \/ Pushes(w, j) \/ FailsToPush(w, j)
    BY <1>4, <2>4, TaskShape DEF QueuesPush, Pushes, FailsToPush
  <2>5. CASE (\E N \in SUBSET Tasks : Collects(w, N)) \/ Leaves(w)
    BY <1>4, <2>5, TaskShape DEF Collects, Moves, Leaves
  <2>6. CASE GivesUp(w)
    BY <1>1, <1>4, <2>6 DEF GivesUp, Moves
  <2> QED BY <1>4, <2>1, <2>2, <2>3, <2>4, <2>5, <2>6 DEF WorkerEffect
<1> QED BY <1>2, <1>3, <1>4

LEMMA BegunStays ==
    ASSUME SInv, BInv', NEW w \in Workers, Quiet \/ WorkerEffect(w)
    PROVE  BegunIsTried'
<1>0. BInv /\ StatusInv
  BY DEF SInv
<1>1. \A i \in Images : Tried(i) => Tried(i)'
  BY <1>0, TriedStays
<1> SUFFICES ASSUME NEW v \in Workers
             PROVE  /\ wpc'[v] \in Idle => attempt'[v] = 0
                    /\ \A i \in Images : task'[v] = Task("build", i) =>
                       /\ wpc'[v] \in {"sources", "engine", "squash"} => Tried(i)'
                       /\ wpc'[v] = "attempt" => attempt'[v] = 0 \/ Tried(i)'
                       /\ wpc'[v] \in {"followups", "put"} =>
                             Tried(i)' \/ should_stop'[v]
  BY DEF BegunIsTried
<1>2. /\ wpc[v] \in Idle => attempt[v] = 0
      /\ \A i \in Images : task[v] = Task("build", i) =>
            /\ wpc[v] \in {"sources", "engine", "squash"} => Tried(i)
            /\ wpc[v] = "attempt" => attempt[v] = 0 \/ Tried(i)
            /\ wpc[v] \in {"followups", "put"} => Tried(i) \/ should_stop[v]
  BY <1>0 DEF StatusInv, BegunIsTried
<1>3. CASE Quiet
  <2>1. UNCHANGED <<task, attempt>> /\ QuietMove(v) /\ (should_stop[v] => should_stop'[v])
    BY <1>3 DEF Quiet
  <2>2. wpc[v] = "attempt" => RunOf(task[v].kind) \in {"check", "queuepush", "push"}
    <3>1. wpc[v] = "attempt" => task[v] \in Tasks
      BY <1>0 DEF BInv, TInv, PcMatchesTask, Idle
    <3> QED BY <3>1, TaskShape DEF RunOf
  <2> QED BY <1>1, <1>2, <2>1, <2>2 DEF QuietMove, Idle
<1>4. CASE WorkerEffect(w) /\ v # w
  <2>1. /\ wpc'[v] = wpc[v] /\ task'[v] = task[v] /\ attempt'[v] = attempt[v]
        /\ UNCHANGED should_stop
    BY <1>4 DEF WorkerEffect, Takes, Enters, Fails, Produces, Succeeds,
                QueuesPush, Pushes, FailsToPush, Collects, GivesUp, Leaves, Moves
  <2> QED BY <1>1, <1>2, <2>1
<1>5. CASE WorkerEffect(w) /\ v = w
  <2>1. CASE \E t \in Tasks : Takes(w, t)
    <3>1. wpc[w] = "get" /\ wpc'[w] = "attempt" /\ attempt'[w] = attempt[w]
      BY <2>1 DEF Takes, Moves
    <3> QED BY <1>2, <1>5, <3>1 DEF Idle
  <2>2. ASSUME NEW j \in Images, Enters(w, j) \/ Fails(w, j) \/ Succeeds(w, j)
        PROVE  /\ wpc'[w] \notin Idle
               /\ \A i \in Images : task'[w] = Task("build", i) => Tried(i)'
    <3>1. Tried(j)'
      BY <1>0, <2>2, WorkerTypes
         DEF Enters, Fails, Succeeds, Tried, LeftOut, Status
    <3>2. \A i \in Images : task'[w] = Task("build", i) => i = j
      BY <2>2, TaskShape DEF Enters, Fails, Succeeds, Builds
    <3> QED BY <2>2, <3>1, <3>2 DEF Enters, Fails, Succeeds, Moves, Idle
  <2>3. CASE \E j \in Images : Produces(w, j)
    BY <1>1, <1>2, <1>5, <2>3 DEF Produces, Builds, Moves, Idle
  <2>4. CASE \E j \in Images : QueuesPush(w, j) \/ Pushes(w, j) \/ FailsToPush(w, j)
    <3>1. \A i \in Images : task'[w] # Task("build", i)
      BY <2>4, TaskShape DEF QueuesPush, Pushes, FailsToPush
    <3> QED BY <1>5, <2>4, <3>1 DEF QueuesPush, Pushes, FailsToPush, Moves, Idle
  <2>5. CASE \E N \in SUBSET Tasks : Collects(w, N)
    BY <1>1, <1>2, <1>5, <2>5 DEF Collects, Moves, Idle
  <2>6. CASE Leaves(w)
    BY <1>5, <2>6, TaskShape DEF Leaves, Moves
  <2>7. CASE GivesUp(w)
    <3>1. conf.retries \in Nat
      BY <1>0, BuildAssumption DEF BInv, TInv, TypeOK, Conf
    <3>2. \A n \in Nat : ~(0 > n)
      OBVIOUS
    <3>3. attempt[w] # 0 \/ should_stop[w]
      BY <2>7, <3>1, <3>2 DEF GivesUp
    <3> QED BY <1>1, <1>2, <1>5, <2>7, <3>3 DEF GivesUp, Moves, Idle
  <2> QED BY <1>5, <2>1, <2>2, <2>3, <2>4, <2>5, <2>6, <2>7 DEF WorkerEffect
<1> QED BY <1>3, <1>4, <1>5

LEMMA EngineStays ==
    ASSUME SInv, BInv', NEW w \in Workers, Quiet \/ WorkerEffect(w)
    PROVE  EngineAndStatus'
<1>0. BInv /\ StatusInv
  BY DEF SInv
<1> SUFFICES ASSUME NEW i \in Images
             PROVE  /\ status'[i] = "built" => i \in engine'
                    /\ i \in engine' => Tried(i)'
  BY DEF EngineAndStatus
<1>1. /\ status[i] = "built" => i \in engine
      /\ i \in engine => Tried(i)
      /\ Tried(i) => Tried(i)'
  BY <1>0, TriedStays DEF StatusInv, EngineAndStatus
<1>2. CASE Quiet \/ (\E t \in Tasks : Takes(w, t)) \/ GivesUp(w) \/ Leaves(w)
           \/ (\E N \in SUBSET Tasks : Collects(w, N))
           \/ (\E j \in Images : QueuesPush(w, j))
  BY <1>1, <1>2 DEF Quiet, Takes, GivesUp, Leaves, Collects, QueuesPush
<1>3. ASSUME NEW j \in Images, Enters(w, j) \/ Fails(w, j) \/ FailsToPush(w, j)
      PROVE  /\ status'[i] = "built" => i \in engine'
             /\ i \in engine' => Tried(i)'
  BY <1>0, <1>1, <1>3, WorkerTypes DEF Enters, Fails, FailsToPush
<1>4. ASSUME NEW j \in Images, Succeeds(w, j)
      PROVE  /\ status'[i] = "built" => i \in engine'
             /\ i \in engine' => Tried(i)'
  <2>1. status'[j] = "built"
    BY <1>0, <1>4, WorkerTypes DEF Succeeds
  <2>2. Tried(j)'
    BY <2>1 DEF Tried, LeftOut
  <2> QED BY <1>0, <1>1, <1>4, <2>2, WorkerTypes DEF Succeeds
<1>5. ASSUME NEW j \in Images, Produces(w, j)
      PROVE  /\ status'[i] = "built" => i \in engine'
             /\ i \in engine' => Tried(i)'
  <2>1. Tried(j)
    BY <1>0, <1>5 DEF Produces, Builds, Moves, StatusInv, BegunIsTried
  <2> QED BY <1>1, <1>5, <2>1 DEF Produces, Tried
<1>6. ASSUME NEW j \in Images, Pushes(w, j)
      PROVE  /\ status'[i] = "built" => i \in engine'
             /\ i \in engine' => Tried(i)'
  <2>1. Collected(j)
    BY <1>0, <1>6 DEF Pushes, BInv, OneInv, PushesAreCollected, Present, Held
  <2> QED BY <1>0, <1>1, <1>6, <2>1, WorkerTypes DEF Pushes, Collected
<1> QED BY <1>2, <1>3, <1>4, <1>5, <1>6 DEF WorkerEffect

LEMMA NoPushStays ==
    ASSUME SInv, BInv', NEW w \in Workers, Quiet \/ WorkerEffect(w)
    PROVE  NoPushTasks'
<1>0. BInv /\ StatusInv
  BY DEF SInv
<1> SUFFICES ASSUME ~conf'.push, NEW i \in Images, NEW k \in {"queuepush", "push"}
             PROVE  ~Present(Task(k, i))'
  BY DEF NoPushTasks
<1>1. /\ ~Present(Task("queuepush", i)) /\ ~Present(Task("push", i))
      /\ conf' = conf
  <2>1. conf' = conf
    BY DEF Quiet, WorkerEffect, Takes, Enters, Fails, Produces, Succeeds,
           QueuesPush, Pushes, FailsToPush, Collects, GivesUp, Leaves, Moves
  <2> QED BY <1>0, <2>1 DEF StatusInv, NoPushTasks
<1>2. Task(k, i) \in Tasks /\ ~Present(Task(k, i))
  BY <1>1, TaskShape
<1>3. CASE Quiet \/ (\E t \in Tasks : Takes(w, t)) \/ GivesUp(w) \/ Leaves(w)
  BY <1>2, <1>3 DEF Quiet, SamePlaces, Takes, GivesUp, Leaves
<1>4. CASE \E j \in Images : \/ Enters(w, j) \/ Fails(w, j) \/ Produces(w, j)
                             \/ Succeeds(w, j) \/ Pushes(w, j) \/ FailsToPush(w, j)
  <2>1. SamePlaces
    BY <1>4 DEF Enters, Fails, Produces, Succeeds, Builds, Pushes, FailsToPush
  <2> QED BY <1>2, <2>1 DEF SamePlaces
<1>5. ASSUME NEW j \in Images, QueuesPush(w, j) PROVE FALSE
  <2>1. Present(Task("queuepush", j))
    BY <1>5 DEF QueuesPush, Present, Held
  <2> QED BY <1>0, <1>1, <2>1 DEF StatusInv, NoPushTasks
<1>6. ASSUME NEW N \in SUBSET Tasks, Collects(w, N) PROVE Task(k, i) \notin N
  <2>1. ~conf.push /\ \A c \in Images : Task(k, i) # Task("build", c)
    BY <1>1, TaskShape
  <2> QED BY <1>0, <1>6, <2>1, FollowupsAre
<1> QED BY <1>2, <1>3, <1>4, <1>5, <1>6 DEF WorkerEffect, Collects

LEMMA ParentsStay ==
    ASSUME SInv, BInv', NEW w \in Workers, Quiet \/ WorkerEffect(w)
    PROVE  ParentsStayBuilt'
<1>0. BInv /\ StatusInv /\ (conf' = conf)
  BY DEF SInv, Quiet, WorkerEffect, Takes, Enters, Fails, Produces, Succeeds,
         QueuesPush, Pushes, FailsToPush, Collects, GivesUp, Leaves, Moves
<1> SUFFICES ASSUME ~conf.push, NEW i \in Images,
                    Present(Task("build", i))' \/ Tried(i)', Parent[i] # NoImage
             PROVE  status'[Parent[i]] \in {"skipped", "built"}
  BY <1>0 DEF ParentsStayBuilt
<1> DEFINE p == Parent[i]
<1>1. p \in Images
  BY ForestAssumption
<1>2. ASSUME status[p] \in {"skipped", "built"}
      PROVE  status'[p] \in {"skipped", "built"}
  <2>1. CASE UNCHANGED status
    BY <1>2, <2>1
  <2>2. CASE ~UNCHANGED status
    <3>1. WorkerEffect(w)
      BY <2>2 DEF Quiet
    <3>2. PICK j \in Images :
              /\ \/ task[w] = Task("build", j) /\ wpc[w] \in BuildPcs /\ ~success[w]
                 \/ task[w] = Task("push", j) /\ wpc[w] = "push"
              /\ \E s \in Status \ (LeftOut \cup {"matched"}) :
                    \A k \in Images : status'[k] = IF k = j THEN s ELSE status[k]
      BY <1>0, <2>2, <3>1, Writes
    <3>3. ~Present(Task("push", j))
      BY <1>0 DEF StatusInv, NoPushTasks
    <3>4. task[w] = Task("build", j) /\ wpc[w] \in BuildPcs /\ ~success[w]
      BY <3>2, <3>3 DEF Present, Held
    <3>5. status[j] # "built"
      BY <1>0, <3>4 DEF StatusInv, SuccessIsBuilt, BuildPcs
    <3>6. status[j] # "skipped"
      BY <1>0, <3>4 DEF BInv, OneInv, BuildsAreReady, Present, Held, Planned, LeftOut
    <3> QED BY <1>1, <1>2, <3>2, <3>5, <3>6
  <2> QED BY <2>1, <2>2
<1>3. CASE Present(Task("build", i)) \/ Tried(i)
  BY <1>0, <1>2, <1>3 DEF StatusInv, ParentsStayBuilt
<1>4. CASE ~Present(Task("build", i)) /\ ~Tried(i)
  <2>1. Present(Task("build", i))'
    BY <1>0, <1>4, TriedStays
  <2>2. Task("build", i) \in Tasks /\ \A j \in Images : Task("build", i) # Task("push", j)
    BY TaskShape
  <2>3. PICK N \in SUBSET Tasks : Collects(w, N) /\ Task("build", i) \in N
    BY <1>4, <2>1, <2>2
       DEF Quiet, WorkerEffect, Takes, Enters, Fails, Produces, Succeeds, Builds,
           QueuesPush, Pushes, FailsToPush, Collects, GivesUp, Leaves, SamePlaces
  <2>4. /\ \A j \in Images : Task("build", i) # Task("queuepush", j)
        /\ \A j \in Images : Task("build", i) = Task("build", j) => j = i
    BY TaskShape
  <2>5. PICK j \in Images : /\ task[w] = Task("build", j) /\ success[w]
                           /\ Parent[i] = j
    <3>1. \E j \in Images :
              /\ task[w] = Task("build", j) /\ success[w] /\ ~should_stop[w]
              /\ \/ conf.push /\ Task("build", i) = Task("queuepush", j)
                 \/ \E c \in Images : /\ Task("build", i) = Task("build", c)
                                      /\ Parent[c] = j /\ status[c] \notin LeftOut
      BY <1>0, <2>3, FollowupsAre
    <3> QED BY <2>4, <3>1
  <2>6. wpc[w] = "followups"
    BY <2>3 DEF Collects, Moves
  <2>7. status[j] = "built"
    BY <1>0, <2>5, <2>6 DEF StatusInv, SuccessIsBuilt
  <2> QED BY <1>2, <2>5, <2>7
<1> QED BY <1>3, <1>4

LEMMA PushedStays ==
    ASSUME SInv, BInv', NEW w \in Workers, Quiet \/ WorkerEffect(w)
    PROVE  PushedIsOver'
<1>0. BInv /\ StatusInv
  BY DEF SInv
<1> SUFFICES ASSUME NEW i \in registry' PROVE Collected(i)' /\ ~PushAhead(i)'
  BY DEF PushedIsOver
<1>1. registry' \subseteq Images
  BY DEF BInv, TInv, TypeOK
<1>2. CASE i \in registry
  <2>1. Collected(i) /\ ~PushAhead(i)
    BY <1>0, <1>2 DEF StatusInv, PushedIsOver
  <2>2. Collected(i)'
    BY <1>0, <1>1, <2>1, TriedStays
  <2>3. \A k \in {"queuepush", "push"} :
           Task(k, i) \in Tasks /\ \A j \in Images : Task(k, i) = Task("push", j) => j = i
    BY <1>1, TaskShape
  <2>4. CASE Quiet
    <3>1. /\ SamePlaces /\ task' = task
          /\ \A v \in Workers : wpc'[v] \in {"attempt", "queuepush", "push"}
                                /\ task[v] \in Tasks
                => wpc[v] = "attempt" \/ wpc[v] = wpc'[v]
      BY <1>0, <2>4 DEF Quiet, QuietMove
    <3> QED BY <2>1, <2>2, <2>3, <3>1 DEF PushAhead, SamePlaces
  <2>5. ASSUME NEW t \in Tasks, Takes(w, t) PROVE ~PushAhead(i)'
    <3>1. t # Task("queuepush", i) /\ t # Task("push", i)
      BY <2>1, <2>5 DEF Takes, PushAhead
    <3>2. \A v \in Workers : v # w => task'[v] = task[v] /\ wpc'[v] = wpc[v]
      BY <2>5 DEF Takes, Moves
    <3> QED BY <2>1, <2>3, <2>5, <3>1, <3>2 DEF Takes, PushAhead
  <2>6. ASSUME NEW j \in Images,
               \/ Enters(w, j) \/ Fails(w, j) \/ Produces(w, j) \/ Succeeds(w, j)
        PROVE  ~PushAhead(i)'
    <3>1. /\ SamePlaces /\ task' = task /\ task[w] = Task("build", j)
          /\ \A v \in Workers : v # w => wpc'[v] = wpc[v]
      BY <2>6 DEF Enters, Fails, Produces, Succeeds, Builds, Moves
    <3>2. \A k \in {"queuepush", "push"} : task[w] # Task(k, i)
      BY <1>1, <3>1, TaskShape
    <3> QED BY <2>1, <2>3, <3>1, <3>2 DEF PushAhead, SamePlaces
  <2>7. ASSUME NEW j \in Images, QueuesPush(w, j) PROVE ~PushAhead(i)'
    <3>1. j # i
      BY <2>1, <2>7 DEF QueuesPush, Moves, PushAhead
    <3>2. Task("push", i) # Task("push", j) /\ Task("queuepush", i) # Task("push", j)
      BY <1>1, <3>1, TaskShape
    <3> QED BY <2>1, <2>3, <2>7, <3>2 DEF QueuesPush, Moves, PushAhead
  <2>8. ASSUME NEW j \in Images, Pushes(w, j) \/ FailsToPush(w, j)
        PROVE  ~PushAhead(i)'
    <3>1. j # i
      BY <2>1, <2>8 DEF Pushes, FailsToPush, Moves, PushAhead
    <3>2. Task("push", i) # Task("push", j) /\ Task("queuepush", i) # Task("push", j)
      BY <1>1, <3>1, TaskShape
    <3> QED BY <2>1, <2>3, <2>8, <3>2
            DEF Pushes, FailsToPush, Moves, PushAhead, SamePlaces
  <2>9. ASSUME NEW N \in SUBSET Tasks, Collects(w, N) PROVE ~PushAhead(i)'
    <3>1. Task("queuepush", i) \notin N /\ Task("push", i) \notin N
      <4>1. task[w] # Task("build", i)
        BY <2>1, <2>9 DEF Collects, Moves, Collected
      <4>2. \A j \in Images : /\ Task("queuepush", i) = Task("queuepush", j) => j = i
                             /\ Task("push", i) # Task("queuepush", j)
                             /\ Task("queuepush", i) # Task("build", j)
                             /\ Task("push", i) # Task("build", j)
        BY <1>1, TaskShape
      <4> QED BY <1>0, <2>9, <4>1, <4>2, FollowupsAre
    <3> QED BY <2>1, <2>3, <2>9, <3>1 DEF Collects, Moves, PushAhead
  <2>10. ASSUME Leaves(w) PROVE ~PushAhead(i)'
    BY <2>1, <2>3, <2>10 DEF Leaves, Moves, PushAhead
  <2>11. ASSUME GivesUp(w) PROVE ~PushAhead(i)'
    BY <2>1, <2>3, <2>11 DEF GivesUp, Moves, PushAhead, SamePlaces
  <2> QED
    BY <2>2, <2>4, <2>5, <2>6, <2>7, <2>8, <2>9, <2>10, <2>11 DEF WorkerEffect
<1>3. CASE i \notin registry
  <2>1. Pushes(w, i)
    <3>1. PICK j \in Images : Pushes(w, j)
      BY <1>3 DEF Quiet, WorkerEffect, Takes, Enters, Fails, Produces, Succeeds,
                  Builds, QueuesPush, FailsToPush, Collects, GivesUp, Leaves
    <3> QED BY <1>3, <3>1 DEF Pushes
  <2>2. /\ task'[w] = Task("push", i) /\ wpc'[w] = "followups"
        /\ Task("push", i) \in Tasks
    BY <1>1, <2>1, TaskShape DEF Pushes, Moves
  <2>3. Present(Task("push", i))'
    BY <2>2 DEF Present, Held
  <2>4. Collected(i)'
    BY <1>1, <2>3 DEF BInv, OneInv, PushesAreCollected
  <2>5. /\ ~Waiting(Task("queuepush", i))'
        /\ ~\E v \in Workers : /\ task'[v] = Task("queuepush", i)
                               /\ wpc'[v] \in {"attempt", "queuepush"}
    BY <1>1, <2>3 DEF BInv, OneInv, PushNotYetQueued
  <2>6. ~Waiting(Task("push", i))' /\ \A v \in Workers : task'[v] = Task("push", i) => v = w
    BY <2>2 DEF BInv, OneInv, OnePlace, Waiting
  <2> QED BY <2>2, <2>4, <2>5, <2>6 DEF PushAhead
<1> QED BY <1>2, <1>3
-----------------------------------------------------------------------------
LEMMA SInvStep == SInv /\ BInv' /\ [Next]_vars => SInv'
<1> SUFFICES ASSUME SInv, BInv', [Next]_vars PROVE SInv'
  OBVIOUS
<1>1. PICK w \in Workers : Quiet \/ WorkerEffect(w)
  BY StepEffect, BuildAssumption DEF SInv, Workers
<1> QED
  BY <1>1, SuccessStays, BegunStays, EngineStays, NoPushStays, ParentsStay,
     PushedStays DEF SInv, StatusInv

LEMMA SInvAlways == Spec => []SInv
<1>1. Init => SInv
  BY TInvInit, OneInvInit, StatusInit DEF SInv, BInv
<1> QED BY BInvAlways, <1>1, SInvStep, PTL DEF Spec

(***************************************************************************)
(* A built image is never built again in the same run, however many        *)
(* threads, retries and pushes there are: a build task exists only before  *)
(* its image is built, and its thread leaves the retry loop when it is.    *)
(***************************************************************************)
THEOREM NeverRebuilt == Spec => BuiltIsNotRebuilt
<1> DEFINE Kept == \A i \in Images : status[i] = "built" =>
                      status'[i] \in {"built", "push_error", "connection_error"}
<1>1. SInv /\ [Next]_vars => Kept
  <2> SUFFICES ASSUME SInv, [Next]_vars, NEW i \in Images, status[i] = "built"
               PROVE  status'[i] \in {"built", "push_error", "connection_error"}
    OBVIOUS
  <2>1. BInv /\ StatusInv
    BY DEF SInv
  <2>2. PICK w \in Workers : Quiet \/ WorkerEffect(w)
    BY <2>1, StepEffect, BuildAssumption DEF Workers
  <2>3. CASE UNCHANGED status
    BY <2>3
  <2>4. ASSUME NEW j \in Images, Enters(w, j) \/ Fails(w, j) \/ Succeeds(w, j)
        PROVE  status'[i] = "built"
    <3>1. /\ task[w] = Task("build", j) /\ ~success[w] /\ wpc[w] # "put"
      BY <2>4 DEF Enters, Fails, Succeeds, Builds, Moves, BuildPcs
    <3>2. i # j
      BY <2>1, <3>1 DEF StatusInv, SuccessIsBuilt
    <3> QED BY <2>1, <2>4, <3>2, WorkerTypes DEF Enters, Fails, Succeeds
  <2>5. ASSUME NEW j \in Images, Pushes(w, j) \/ FailsToPush(w, j)
        PROVE  status'[i] \in {"built", "push_error", "connection_error"}
    BY <2>1, <2>5, WorkerTypes DEF Pushes, FailsToPush
  <2> QED
    BY <2>2, <2>3, <2>4, <2>5
       DEF Quiet, WorkerEffect, Takes, Produces, QueuesPush, Collects, GivesUp, Leaves
<1>2. [Next]_vars /\ SInv => [Kept]_vars
  BY <1>1
<1> QED BY SInvAlways, <1>2, PTL DEF Spec, BuiltIsNotRebuilt

(***************************************************************************)
(* Without --push no image ends with PARENT_ERROR: a child is queued only  *)
(* after its parent was built, and then only a failing push can spoil the  *)
(* status of the parent.                                                   *)
(***************************************************************************)
THEOREM ParentErrorIsPushError == Spec => []ParentErrorNeedsPush
<1>1. Init => ParentErrorNeedsPush
  BY DEF Init, Plans, PlanStatus, ParentErrorNeedsPush
<1>2. SInv /\ ParentErrorNeedsPush /\ [Next]_vars => ParentErrorNeedsPush'
  <2> SUFFICES ASSUME SInv, ParentErrorNeedsPush, [Next]_vars,
                      ~conf'.push, NEW i \in Images
               PROVE  status'[i] # "parent_error"
    BY DEF ParentErrorNeedsPush
  <2>1. BInv /\ StatusInv
    BY DEF SInv
  <2>2. PICK w \in Workers : Quiet \/ WorkerEffect(w)
    BY <2>1, StepEffect, BuildAssumption DEF Workers
  <2>3. conf' = conf /\ status[i] # "parent_error"
    <3>1. conf' = conf
      BY <2>2 DEF Quiet, WorkerEffect, Takes, Enters, Fails, Produces, Succeeds,
                  QueuesPush, Pushes, FailsToPush, Collects, GivesUp, Leaves, Moves
    <3> QED BY <3>1 DEF ParentErrorNeedsPush
  <2>4. CASE UNCHANGED status
    BY <2>3, <2>4
  <2>5. ASSUME NEW j \in Images, \/ Enters(w, j) \/ Succeeds(w, j)
                                 \/ Pushes(w, j) \/ FailsToPush(w, j)
        PROVE  status'[i] # "parent_error"
    BY <2>1, <2>3, <2>5, WorkerTypes DEF Enters, Succeeds, Pushes, FailsToPush
  <2>6. ASSUME NEW j \in Images, Fails(w, j) PROVE status'[i] # "parent_error"
    <3>1. PICK s : /\ status' = [status EXCEPT ![j] = s]
                   /\ s = "parent_error" =>
                         Parent[j] \in Images /\ status[Parent[j]] \in STATUS_ERRORS
      BY <2>6 DEF Fails
    <3>2. Parent[j] = NoImage \/ status[Parent[j]] \in {"skipped", "built"}
      <4>1. Present(Task("build", j))
        BY <2>6 DEF Fails, Builds, Present, Held
      <4> QED BY <2>1, <2>3, <4>1 DEF StatusInv, ParentsStayBuilt
    <3>3. s # "parent_error"
      BY <3>1, <3>2, ForestAssumption DEF STATUS_ERRORS
    <3> QED BY <2>1, <2>3, <3>1, <3>3, WorkerTypes
  <2> QED
    BY <2>2, <2>4, <2>5, <2>6
       DEF Quiet, WorkerEffect, Takes, Produces, QueuesPush, Collects, GivesUp, Leaves
<1> QED BY SInvAlways, <1>1, <1>2, PTL DEF Spec

\* Past the join, every worker run_build knows of is gone.
JoinedAreGone ==
    mpc \in {"summary", "cleanup", "return", "exited"} /\ ~forced => AllExited

(***************************************************************************)
(* Unless a second Ctrl-C or the timeout forced the exit, no worker that   *)
(* run_build knows of is running a task when the directory the images are  *)
(* built from is removed: whatever was pressed or failed before.           *)
(***************************************************************************)
THEOREM CleanupIsLast == Spec => []CleanupAfterWorkers
<1>1. Init => JoinedAreGone
  BY DEF Init, JoinedAreGone
<1>2. TInv /\ JoinedAreGone /\ [Next]_vars => JoinedAreGone'
  <2> SUFFICES ASSUME TInv, JoinedAreGone, [Next]_vars PROVE JoinedAreGone'
    OBVIOUS
  <2> USE DEF JoinedAreGone, AllExited, GoMain, PutTombstone, queueVars,
              mainVars, workerVars, extVars
  <2>1. CASE UNCHANGED vars
    BY <2>1 DEF vars
  <2>2. ASSUME NEW w \in Workers, StartWorker(w) PROVE JoinedAreGone'
    BY <2>2 DEF StartWorker
  <2>3. ASSUME NEW w \in Workers, StopWorker(w) PROVE JoinedAreGone'
    BY <2>3 DEF StopWorker
  <2>4. CASE \/ AppendWorker \/ PollBuild \/ PollPush
             \/ TombstonePush \/ TombstoneBuild \/ StopPushQueue \/ StopBuildQueue
    BY <2>4 DEF AppendWorker, PollBuild, PollPush, TombstonePush,
                TombstoneBuild, StopPushQueue, StopBuildQueue
  <2>5. CASE Join \/ WaitWorkers \/ Summary \/ Cleanup \/ Return
    BY <2>5 DEF Join, WaitWorkers, Summary, Cleanup, Return
  <2>6. CASE Interrupt
    BY <2>6 DEF Interrupt, InTry, InHandlerOrJoin
  <2>7. CASE JoinTimeout
    BY <2>7 DEF JoinTimeout
  <2>8. ASSUME NEW w \in Workers, WorkerStep(w) PROVE JoinedAreGone'
    <3>1. wpc[w] # "exited" /\ UNCHANGED <<mpc, forced, registered>>
      BY <2>8 DEF WorkerStep, Loop, Get, PutBack, Attempt, BuildRun, Check,
             SourcesReady, SourcesFail, EngineBuildOk, EngineBuildFail, SquashOk,
             SquashNoParentLayer, SquashFail, PushRun, RunQueuePush, PushOk,
             PushFail, CollectFollowups, PutFollowup, TaskDone, At
    <3>2. \A v \in Workers \ {w} : wpc'[v] = wpc[v]
      <4>1. UNCHANGED wpc \/ \E pc : wpc' = [wpc EXCEPT ![w] = pc]
        BY <2>8 DEF WorkerStep, Loop, Get, PutBack, Attempt, BuildRun, Check,
             SourcesReady, SourcesFail, EngineBuildOk, EngineBuildFail, SquashOk,
             SquashNoParentLayer, SquashFail, PushRun, RunQueuePush, PushOk,
             PushFail, CollectFollowups, PutFollowup, TaskDone, At, Goto, Finish,
             EndBuild
      <4> QED BY <4>1 DEF TInv, TypeOK
    <3>3. registered \subseteq Workers
      BY DEF TInv, TypeOK
    <3> QED BY <3>1, <3>2, <3>3
  <2> HIDE DEF JoinedAreGone, AllExited, GoMain, PutTombstone, queueVars,
              mainVars, workerVars, extVars
  <2> QED BY <2>1, <2>2, <2>3, <2>4, <2>5, <2>6, <2>7, <2>8
          DEF Next, MainStep, Terminated
<1>3. JoinedAreGone => CleanupAfterWorkers
  BY DEF JoinedAreGone, CleanupAfterWorkers, AllExited, Running
<1>4. BInv => TInv
  BY DEF BInv
<1> QED BY BInvAlways, <1>1, <1>2, <1>3, <1>4, PTL DEF Spec
=============================================================================
