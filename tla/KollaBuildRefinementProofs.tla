--------------------- MODULE KollaBuildRefinementProofs ---------------------
(***************************************************************************)
(* The proof that the build engine implements ImageBuilds, step by step,   *)
(* for any forest of images, any number of threads, any configuration and  *)
(* any number of interrupts.                                               *)
(***************************************************************************)
EXTENDS KollaBuildRefinement, KollaBuildStatusProofs

\* The phase of an image nobody is at work on.
Rest(i) == IF Tried(i) THEN "over" ELSE "waiting"

OwnTasks(i) == {Task("build", i), Task("push", i)}

\* Where the phase of an image can be read off one thread.
PhasesAre ==
    \A i \in Images :
        /\ \A w \in Workers :
              /\ task[w] = Task("build", i) /\ InRun(w) => PhaseOf(i) = "building"
              /\ task[w] = Task("push", i) /\ InRun(w) => PhaseOf(i) = "pushing"
              /\ task[w] \in OwnTasks(i) /\ wpc[w] = "followups" =>
                    PhaseOf(i) = Rest(i)
        /\ (\A w \in Workers : task[w] \in OwnTasks(i) => ~InRun(w)) =>
              PhaseOf(i) = Rest(i)

LEMMA PhasesFollow == BInv => PhasesAre
<1> SUFFICES ASSUME BInv, NEW i \in Images
             PROVE  /\ \A w \in Workers :
                          /\ task[w] = Task("build", i) /\ InRun(w) =>
                                PhaseOf(i) = "building"
                          /\ task[w] = Task("push", i) /\ InRun(w) =>
                                PhaseOf(i) = "pushing"
                          /\ task[w] \in OwnTasks(i) /\ wpc[w] = "followups" =>
                                PhaseOf(i) = Rest(i)
                    /\ (\A w \in Workers : task[w] \in OwnTasks(i) => ~InRun(w)) =>
                          PhaseOf(i) = Rest(i)
  BY DEF PhasesAre
<1>1. ASSUME \A w \in Workers : task[w] \in OwnTasks(i) => ~InRun(w)
      PROVE  PhaseOf(i) = Rest(i)
  <2>1. ~WorkedOn("build", i) /\ ~WorkedOn("push", i)
    BY <1>1 DEF WorkedOn, Holds, OwnTasks
  <2> QED BY <2>1 DEF PhaseOf, Rest, Tried
<1>2. \A v, w \in Workers :
         task[v] = Task("push", i) /\ task[w] = Task("build", i) => wpc[w] = "put"
  BY DEF BInv, OneInv, PushesAreCollected, Collected, Present, Held
<1> SUFFICES ASSUME NEW w \in Workers
             PROVE  /\ task[w] = Task("build", i) /\ InRun(w) =>
                          PhaseOf(i) = "building"
                    /\ task[w] = Task("push", i) /\ InRun(w) =>
                          PhaseOf(i) = "pushing"
                    /\ task[w] \in OwnTasks(i) /\ wpc[w] = "followups" =>
                          PhaseOf(i) = Rest(i)
  BY <1>1
<1>3. ASSUME task[w] = Task("build", i), InRun(w) PROVE PhaseOf(i) = "building"
  BY <1>3 DEF PhaseOf, WorkedOn, Holds
<1>4. ASSUME task[w] = Task("push", i), InRun(w) PROVE PhaseOf(i) = "pushing"
  <2>1. ~WorkedOn("build", i)
    BY <1>2, <1>4 DEF WorkedOn, Holds, InRun, Running
  <2> QED BY <1>4, <2>1 DEF PhaseOf, WorkedOn, Holds
<1>5. ASSUME task[w] \in OwnTasks(i), wpc[w] = "followups"
      PROVE  PhaseOf(i) = Rest(i)
  <2>1. ASSUME NEW v \in Workers, task[v] \in OwnTasks(i), InRun(v) PROVE FALSE
    <3>1. v # w /\ wpc[v] # "put"
      BY <1>5, <2>1 DEF InRun, Running
    <3>2. task[v] # task[w]
      BY <2>1, <3>1, TaskShape DEF BInv, OneInv, OnePlace, OwnTasks
    <3> QED BY <1>2, <1>5, <2>1, <3>1, <3>2 DEF OwnTasks
  <2> QED BY <1>1, <2>1
<1> QED BY <1>3, <1>4, <1>5

LEMMA PhasesFollowNext == BInv' => PhasesAre'
  BY PhasesFollow, PTL

\* A step of a worker leaves the phase of the images it has no task of.
LEMMA PhaseKept ==
    ASSUME NEW w \in Workers, NEW j \in Images,
           \A v \in Workers \ {w} : wpc'[v] = wpc[v] /\ task'[v] = task[v],
           \/ task[w] \notin OwnTasks(j) /\ task'[w] \notin OwnTasks(j)
           \/ task'[w] = task[w] /\ (InRun(w)' <=> InRun(w)),
           Tried(j)' <=> Tried(j)
    PROVE  PhaseOf(j)' = PhaseOf(j)
<1>1. \A k \in {"build", "push"} : WorkedOn(k, j)' <=> WorkedOn(k, j)
  <2> TAKE k \in {"build", "push"}
  <2>1. \A v \in Workers : (Holds(v, k, j) /\ InRun(v))' <=> Holds(v, k, j) /\ InRun(v)
    BY DEF Holds, InRun, OwnTasks
  <2> QED BY <2>1 DEF WorkedOn
<1> QED BY <1>1 DEF PhaseOf, Tried

\* The plan and the request to push are what they were.
LEMMA PlanKept ==
    ASSUME SInv, BInv', [Next]_vars
    PROVE  /\ \A i \in Images : PlanOf(i)' = PlanOf(i)
           /\ conf' = conf
<1>1. PICK w \in Workers : Quiet \/ WorkerEffect(w)
  BY StepEffect, BuildAssumption DEF SInv, Workers
<1>2. \A i \in Images : /\ Planned(i)' <=> Planned(i)
                        /\ status'[i] = "skipped" <=> status[i] = "skipped"
  BY <1>1, TriedStays DEF SInv
<1>3. conf' = conf
  BY <1>1 DEF Quiet, WorkerEffect, Takes, Enters, Fails, Produces, Succeeds,
              QueuesPush, Pushes, FailsToPush, Collects, GivesUp, Leaves, Moves
<1> QED BY <1>2, <1>3 DEF PlanOf, Planned

LEMMA PhaseMoves ==
    ASSUME NEW i \in Images, NEW a, NEW b, PhaseOf(i) = a, PhaseOf(i)' = b,
           \A j \in Images \ {i} : PhaseOf(j)' = PhaseOf(j)
    PROVE  Promise!Move(i, a, b)
  BY DEF Promise!Move

LEMMA PhasesRest ==
    ASSUME \A j \in Images : PhaseOf(j)' = PhaseOf(j)
    PROVE  UNCHANGED [j \in Images |-> PhaseOf(j)]
  OBVIOUS
-----------------------------------------------------------------------------
(***************************************************************************)
(* The steps that the promise does not see.                                *)
(***************************************************************************)
LEMMA Unseen ==
    ASSUME SInv, BInv', NEW w \in Workers,
           \/ Quiet \/ Leaves(w) \/ \E N \in SUBSET Tasks : Collects(w, N)
           \/ \E i \in Images : \/ Enters(w, i) \/ Fails(w, i)
                               \/ QueuesPush(w, i) \/ FailsToPush(w, i)
    PROVE  /\ UNCHANGED [j \in Images |-> PhaseOf(j)]
           /\ UNCHANGED <<engine, registry>>
<1>0. BInv /\ StatusInv /\ PhasesAre /\ PhasesAre'
  BY PhasesFollow, PhasesFollowNext DEF SInv
<1>1. UNCHANGED <<engine, registry>>
  BY DEF Quiet, Leaves, Collects, Enters, Fails, Builds, QueuesPush, FailsToPush
<1>2. SUFFICES ASSUME NEW j \in Images PROVE PhaseOf(j)' = PhaseOf(j)
  BY <1>1, PhasesRest
<1>3. CASE Quiet
  <2>1. ASSUME NEW k \in {"build", "push"}, NEW v \in Workers
        PROVE  (Holds(v, k, j) /\ InRun(v))' <=> Holds(v, k, j) /\ InRun(v)
    <3>1. task' = task /\ QuietMove(v)
      BY <1>3 DEF Quiet
    <3>2. Holds(v, k, j) => task[v] \in Tasks /\ task[v].kind \in {"build", "push"}
      BY TaskShape DEF Holds
    <3>3. task[v] \in Tasks => wpc[v] \notin Idle
      BY <1>0, TaskShape DEF BInv, TInv, PcMatchesTask
    <3>4. ASSUME task[v].kind \in {"build", "push"}, wpc[v] \notin Idle
          PROVE  InRun(v)' <=> InRun(v)
      BY <3>1, <3>4 DEF QuietMove, InRun, Idle, Running, RunOf
    <3> QED BY <3>1, <3>2, <3>3, <3>4 DEF Holds
  <2>2. \A k \in {"build", "push"} : WorkedOn(k, j)' <=> WorkedOn(k, j)
    BY <2>1 DEF WorkedOn
  <2> QED BY <1>3, <2>2 DEF Quiet, PhaseOf
<1>4. CASE Leaves(w) \/ \E N \in SUBSET Tasks : Collects(w, N)
  <2>1. /\ \A v \in Workers \ {w} : wpc'[v] = wpc[v] /\ task'[v] = task[v]
        /\ \A k \in {"build", "push"} : /\ ~(Holds(w, k, j) /\ InRun(w))
                                       /\ ~(Holds(w, k, j) /\ InRun(w))'
        /\ UNCHANGED status
    BY <1>4 DEF Leaves, Collects, Moves, InRun, Running
  <2>2. \A k \in {"build", "push"} : WorkedOn(k, j)' <=> WorkedOn(k, j)
    BY <2>1 DEF WorkedOn, Holds, InRun
  <2> QED BY <2>1, <2>2 DEF PhaseOf
<1>5. ASSUME NEW i \in Images, Enters(w, i) \/ Fails(w, i) PROVE PhaseOf(j)' = PhaseOf(j)
  <2>1. /\ task[w] = Task("build", i) /\ task' = task
        /\ \A v \in Workers \ {w} : wpc'[v] = wpc[v]
        /\ InRun(w) /\ InRun(w)'
        /\ \E s \in Status \ (LeftOut \cup {"matched"}) : status' = [status EXCEPT ![i] = s]
    BY <1>5 DEF Enters, Fails, Builds, Moves, BuildPcs, InRun, Running, Status, LeftOut
  <2>2. CASE j = i
    BY <1>0, <2>1, <2>2 DEF PhasesAre
  <2>3. CASE j # i
    <3>1. Tried(j)' <=> Tried(j)
      BY <1>0, <2>1, <2>3, WorkerTypes DEF Tried
    <3> QED BY <2>1, <3>1, PhaseKept
  <2> QED BY <2>2, <2>3
<1>6. ASSUME NEW i \in Images, QueuesPush(w, i) PROVE PhaseOf(j)' = PhaseOf(j)
  <2>1. task[w] \notin OwnTasks(j)
    BY <1>6, TaskShape DEF QueuesPush, OwnTasks
  <2>2. /\ task' = task /\ UNCHANGED status
        /\ \A v \in Workers \ {w} : wpc'[v] = wpc[v] /\ task'[v] = task[v]
    BY <1>6 DEF QueuesPush, Moves
  <2>3. task'[w] \notin OwnTasks(j) /\ (Tried(j)' <=> Tried(j))
    BY <2>1, <2>2 DEF Tried
  <2> QED BY <2>1, <2>2, <2>3, PhaseKept
<1>7. ASSUME NEW i \in Images, FailsToPush(w, i) PROVE PhaseOf(j)' = PhaseOf(j)
  <2>1. /\ task[w] = Task("push", i) /\ task' = task
        /\ \A v \in Workers \ {w} : wpc'[v] = wpc[v]
        /\ InRun(w) /\ InRun(w)'
        /\ \E s \in Status : status' = [status EXCEPT ![i] = s]
    BY <1>7 DEF FailsToPush, Moves, InRun, Running, Status
  <2>2. CASE j = i
    BY <1>0, <2>1, <2>2 DEF PhasesAre
  <2>3. CASE j # i
    <3>1. Tried(j)' <=> Tried(j)
      BY <1>0, <2>1, <2>3, WorkerTypes DEF Tried
    <3> QED BY <2>1, <3>1, PhaseKept
  <2> QED BY <2>2, <2>3
<1> QED BY <1>3, <1>4, <1>5, <1>6, <1>7
-----------------------------------------------------------------------------
(***************************************************************************)
(* The steps that are steps of the promise, for the image of the task.     *)
(***************************************************************************)
\* What the promise reads: the phases, and who the parent of an image is.
LEMMA PromiseReads ==
    /\ \A i \in Images : /\ [j \in Images |-> PhaseOf(j)][i] = PhaseOf(i)
                         /\ [j \in Images |-> PlanOf(j)][i] = PlanOf(i)
    /\ \A i \in Images : Parent[i] = NoImage \/ Parent[i] \in Images
    /\ NoImage \notin Images
  BY ForestAssumption

LEMMA TakesIsBegin ==
    ASSUME SInv, BInv', [Next]_vars, NEW w \in Workers, NEW t \in Tasks, Takes(w, t)
    PROVE  \/ UNCHANGED [j \in Images |-> PhaseOf(j)] /\ UNCHANGED <<engine, registry>>
           \/ \E i \in Images : Promise!Begin(i) \/ Promise!BeginPush(i)
<1>0. /\ BInv /\ StatusInv /\ PhasesAre /\ PhasesAre'
      /\ \A i \in Images : PlanOf(i)' = PlanOf(i)
      /\ conf' = conf
  BY PhasesFollow, PhasesFollowNext, PlanKept DEF SInv
<1>1. /\ Waiting(t) /\ UNCHANGED <<status, engine, registry>>
      /\ task[w] = NoTask /\ task'[w] = t /\ wpc'[w] = "attempt"
      /\ \A v \in Workers \ {w} : wpc'[v] = wpc[v] /\ task'[v] = task[v]
  BY DEF Takes, Moves
<1>2. \A v \in Workers : task[v] # t
  BY <1>0, <1>1 DEF BInv, OneInv, OnePlace, Waiting
<1>3. InRun(w)'
  BY <1>1 DEF InRun
<1>4. ASSUME NEW j \in Images, t \notin OwnTasks(j) PROVE PhaseOf(j)' = PhaseOf(j)
  <2>1. task[w] \notin OwnTasks(j)
    BY <1>1, TaskShape DEF OwnTasks
  <2>2. Tried(j)' <=> Tried(j)
    BY <1>1 DEF Tried
  <2> QED BY <1>1, <1>4, <2>1, <2>2, PhaseKept
<1>5. PICK i \in Images : /\ t \in {Task("build", i), Task("queuepush", i), Task("push", i)}
                         /\ \A j \in Images \ {i} : t \notin OwnTasks(j)
  BY TaskShape DEF OwnTasks
<1>6. CASE t = Task("build", i)
  <2>1. status[i] = "matched" /\ ~Tried(i) /\ Ready(i)
    BY <1>0, <1>1, <1>6
       DEF BInv, OneInv, WaitingIsFresh, BuildsAreReady, Present, Tried
  <2>2. \A v \in Workers : task[v] # Task("push", i)
    BY <1>0, <2>1 DEF BInv, OneInv, PushesAreCollected, Collected, Present, Held
  <2>3. PhaseOf(i) = "waiting"
    BY <1>0, <1>2, <1>6, <2>1, <2>2 DEF PhasesAre, OwnTasks, Rest
  <2>4. PhaseOf(i)' = "building"
    BY <1>0, <1>1, <1>3, <1>6 DEF PhasesAre
  <2>5. Promise!Move(i, "waiting", "building")
    BY <1>4, <1>5, <2>3, <2>4, PhaseMoves
  <2>6. PlanOf(i) = "build"
    BY <2>1 DEF PlanOf, LeftOut
  <2>7. Promise!ParentReady(i)
    <3>1. CASE Parent[i] = NoImage
      BY <3>1 DEF Promise!ParentReady
    <3>2. CASE Parent[i] \in Images /\ status[Parent[i]] = "skipped"
      <4>1. PlanOf(Parent[i]) = "exists"
        BY <3>2 DEF PlanOf
      <4> QED BY <3>2, <4>1, PromiseReads DEF Promise!ParentReady
    <3>3. CASE Parent[i] \in Images /\ Collected(Parent[i])
      <4>1. Parent[i] \in engine /\ ~WorkedOn("build", Parent[i])
        BY <3>3 DEF Collected, WorkedOn, Holds, InRun, Running
      <4>2. PhaseOf(Parent[i]) # "building"
        BY <4>1 DEF PhaseOf
      <4> QED BY <3>3, <4>1, <4>2, PromiseReads DEF Promise!ParentReady
    <3> QED BY <2>1, <3>1, <3>2, <3>3, PromiseReads DEF Ready
  <2>8. Promise!Begin(i)
    BY <1>0, <1>1, <2>5, <2>6, <2>7, PromiseReads DEF Promise!Begin
  <2> QED BY <2>8
<1>7. CASE t = Task("push", i)
  <2>1. Collected(i)
    BY <1>0, <1>1, <1>7 DEF BInv, OneInv, PushesAreCollected, Present
  <2>2. PhaseOf(i) = "over"
    <3>1. \A v \in Workers : task[v] \in OwnTasks(i) => ~InRun(v)
      BY <1>2, <1>7, <2>1 DEF OwnTasks, Collected, InRun, Running
    <3> QED BY <1>0, <2>1, <3>1 DEF PhasesAre, Rest, Collected
  <2>3. PhaseOf(i)' = "pushing"
    BY <1>0, <1>1, <1>3, <1>7 DEF PhasesAre
  <2>4. Promise!Move(i, "over", "pushing")
    BY <1>4, <1>5, <2>2, <2>3, PhaseMoves
  <2>5. conf.push
    BY <1>0, <1>1, <1>7 DEF StatusInv, NoPushTasks, Present
  <2>6. i \in engine \ registry
    BY <1>0, <1>1, <1>7, <2>1 DEF StatusInv, PushedIsOver, PushAhead, Collected
  <2>7. Promise!BeginPush(i)
    BY <1>0, <1>1, <2>4, <2>5, <2>6 DEF Promise!BeginPush
  <2> QED BY <2>7
<1>8. CASE t = Task("queuepush", i)
  <2>1. t \notin OwnTasks(i)
    BY <1>8, TaskShape DEF OwnTasks
  <2>2. \A j \in Images : PhaseOf(j)' = PhaseOf(j)
    BY <1>4, <1>5, <2>1
  <2> QED BY <1>1, <2>2, PhasesRest
<1> QED BY <1>5, <1>6, <1>7, <1>8

LEMMA BuildIsProduce ==
    ASSUME SInv, BInv', [Next]_vars, NEW w \in Workers, NEW i \in Images,
           Produces(w, i) \/ Succeeds(w, i)
    PROVE  Promise!Produce(i)
<1>0. /\ BInv /\ PhasesAre /\ PhasesAre'
      /\ \A j \in Images : PlanOf(j)' = PlanOf(j)
      /\ conf' = conf
  BY PhasesFollow, PhasesFollowNext, PlanKept DEF SInv
<1>1. /\ task[w] = Task("build", i) /\ task' = task /\ InRun(w)
      /\ \A v \in Workers \ {w} : wpc'[v] = wpc[v]
      /\ engine' = engine \cup {i} /\ UNCHANGED registry
  BY DEF Produces, Succeeds, Builds, Moves, InRun, Running
<1>2. PhaseOf(i) = "building"
  BY <1>0, <1>1 DEF PhasesAre
<1>3. \A j \in Images \ {i} : task[w] \notin OwnTasks(j)
  BY <1>1, TaskShape DEF OwnTasks
<1>4. ASSUME NEW j \in Images \ {i} PROVE PhaseOf(j)' = PhaseOf(j)
  <2>1. Tried(j)' <=> Tried(j)
    BY <1>0, WorkerTypes DEF Produces, Succeeds, Tried
  <2> QED BY <1>1, <1>3, <2>1, PhaseKept
<1>5. CASE Produces(w, i)
  <2>1. PhaseOf(i)' = "building"
    <3>1. InRun(w)'
      BY <1>5 DEF Produces, Moves, InRun, Running
    <3> QED BY <1>0, <1>1, <3>1 DEF PhasesAre
  <2>2. Promise!Move(i, "building", "building")
    BY <1>2, <1>4, <2>1, PhaseMoves
  <2> QED BY <1>0, <1>1, <2>2 DEF Promise!Produce
<1>6. CASE Succeeds(w, i)
  <2>1. wpc'[w] = "followups" /\ Tried(i)'
    BY <1>0, <1>6, WorkerTypes DEF Succeeds, Moves, Tried, LeftOut
  <2>2. PhaseOf(i)' = "over"
    BY <1>0, <1>1, <2>1 DEF PhasesAre, OwnTasks, Rest
  <2>3. Promise!Move(i, "building", "over")
    BY <1>2, <1>4, <2>2, PhaseMoves
  <2> QED BY <1>0, <1>1, <2>3 DEF Promise!Produce
<1> QED BY <1>5, <1>6

LEMMA PushIsAccept ==
    ASSUME SInv, BInv', [Next]_vars, NEW w \in Workers, NEW i \in Images,
           Pushes(w, i)
    PROVE  Promise!Accept(i)
<1>0. /\ BInv /\ PhasesAre /\ PhasesAre'
      /\ \A j \in Images : PlanOf(j)' = PlanOf(j)
      /\ conf' = conf
  BY PhasesFollow, PhasesFollowNext, PlanKept DEF SInv
<1>1. /\ task[w] = Task("push", i) /\ task' = task /\ InRun(w)
      /\ wpc'[w] = "followups"
      /\ \A v \in Workers \ {w} : wpc'[v] = wpc[v]
      /\ registry' = registry \cup {i} /\ UNCHANGED engine
      /\ status' = [status EXCEPT ![i] = "built"]
  BY DEF Pushes, Moves, InRun, Running
<1>2. PhaseOf(i) = "pushing"
  BY <1>0, <1>1 DEF PhasesAre
<1>3. PhaseOf(i)' = "over"
  <2>1. Tried(i)'
    BY <1>0, <1>1, WorkerTypes DEF Tried, LeftOut
  <2> QED BY <1>0, <1>1, <2>1 DEF PhasesAre, OwnTasks, Rest
<1>4. ASSUME NEW j \in Images \ {i} PROVE PhaseOf(j)' = PhaseOf(j)
  <2>1. task[w] \notin OwnTasks(j)
    BY <1>1, TaskShape DEF OwnTasks
  <2>2. Tried(j)' <=> Tried(j)
    BY <1>0, <1>1, WorkerTypes DEF Tried
  <2> QED BY <1>1, <2>1, <2>2, PhaseKept
<1>5. Promise!Move(i, "pushing", "over")
  BY <1>2, <1>3, <1>4, PhaseMoves
<1> QED BY <1>0, <1>1, <1>5 DEF Promise!Accept

LEMMA GiveUpIsEnd ==
    ASSUME SInv, BInv', [Next]_vars, NEW w \in Workers, GivesUp(w)
    PROVE  \/ UNCHANGED [j \in Images |-> PhaseOf(j)] /\ UNCHANGED <<engine, registry>>
           \/ \E i \in Images : Promise!End(i) \/ Promise!Refuse(i)
<1>0. /\ BInv /\ StatusInv /\ PhasesAre /\ PhasesAre'
      /\ \A j \in Images : PlanOf(j)' = PlanOf(j)
      /\ conf' = conf
  BY PhasesFollow, PhasesFollowNext, PlanKept DEF SInv
<1>1. /\ task' = task /\ InRun(w) /\ wpc[w] = "attempt" /\ wpc'[w] = "followups"
      /\ \A v \in Workers \ {w} : wpc'[v] = wpc[v]
      /\ UNCHANGED <<status, engine, registry>>
  BY DEF GivesUp, Moves, InRun
<1>2. PICK i \in Images : /\ task[w] \in {Task("build", i), Task("queuepush", i),
                                           Task("push", i)}
                         /\ \A j \in Images \ {i} : task[w] \notin OwnTasks(j)
  <2>1. task[w] \in Tasks
    BY <1>0, <1>1 DEF BInv, TInv, PcMatchesTask, Idle
  <2> QED BY <2>1, TaskShape DEF OwnTasks
<1>3. ASSUME NEW j \in Images, task[w] \notin OwnTasks(j)
      PROVE  PhaseOf(j)' = PhaseOf(j)
  <2>1. Tried(j)' <=> Tried(j)
    BY <1>1 DEF Tried
  <2> QED BY <1>1, <1>3, <2>1, PhaseKept
<1>4. task[w] \in OwnTasks(i) => PhaseOf(i)' = Rest(i)
  <2>1. Rest(i)' = Rest(i)
    BY <1>1 DEF Rest, Tried
  <2> QED BY <1>0, <1>1, <2>1 DEF PhasesAre
<1>5. CASE task[w] = Task("build", i)
  <2>1. PhaseOf(i) = "building"
    BY <1>0, <1>1, <1>5 DEF PhasesAre
  <2>2. PhaseOf(i)' = Rest(i)
    BY <1>4, <1>5 DEF OwnTasks
  <2>3. Promise!Move(i, "building", Rest(i))
    BY <1>2, <1>3, <2>1, <2>2, PhaseMoves
  <2>4. /\ Rest(i) \in {"waiting", "over"}
        /\ Rest(i) = "waiting" => i \notin engine
    BY <1>0 DEF Rest, StatusInv, EngineAndStatus
  <2>5. Promise!End(i)
    BY <1>0, <1>1, <2>3, <2>4 DEF Promise!End
  <2> QED BY <2>5
<1>6. CASE task[w] = Task("push", i)
  <2>1. PhaseOf(i) = "pushing"
    BY <1>0, <1>1, <1>6 DEF PhasesAre
  <2>2. Collected(i)
    BY <1>0, <1>6 DEF BInv, OneInv, PushesAreCollected, Present, Held
  <2>3. PhaseOf(i)' = "over"
    BY <1>4, <1>6, <2>2 DEF OwnTasks, Rest, Collected
  <2>4. Promise!Move(i, "pushing", "over")
    BY <1>2, <1>3, <2>1, <2>3, PhaseMoves
  <2>5. Promise!Refuse(i)
    BY <1>0, <1>1, <2>4 DEF Promise!Refuse
  <2> QED BY <2>5
<1>7. CASE task[w] = Task("queuepush", i)
  <2>1. task[w] \notin OwnTasks(i)
    BY <1>7, TaskShape DEF OwnTasks
  <2>2. \A j \in Images : PhaseOf(j)' = PhaseOf(j)
    BY <1>2, <1>3, <2>1
  <2> QED BY <1>1, <2>2, PhasesRest
<1> QED BY <1>2, <1>5, <1>6, <1>7
-----------------------------------------------------------------------------
(***************************************************************************)
(* Every behaviour of the build engine is one of ImageBuilds: with any     *)
(* number of threads, retries and interrupts, an image is built at most    *)
(* once, from a parent whose build is over, and pushed at most once, after *)
(* its own build, and only if --push was given.                            *)
(***************************************************************************)
THEOREM Implementation == Spec => ImplementsImageBuilds
<1>1. Init => Promise!Init
  <2> SUFFICES ASSUME Init PROVE Promise!Init
    OBVIOUS
  <2>1. /\ \A w \in Workers : task[w] = NoTask
        /\ \A i \in Images : status[i] \in LeftOut \cup {"matched"}
        /\ conf \in Confs /\ engine = {} /\ registry = {}
    BY DEF Init, Plans, PlanStatus, LeftOut
  <2>2. \A i \in Images : PhaseOf(i) = "waiting"
    <3>1. \A i \in Images : ~WorkedOn("build", i) /\ ~WorkedOn("push", i)
      <4>1. \A i \in Images : Task("build", i) # NoTask /\ Task("push", i) # NoTask
        BY DEF Task, NoTask
      <4> QED BY <2>1, <4>1 DEF WorkedOn, Holds
    <3> QED BY <2>1, <3>1 DEF PhaseOf
  <2>3. \A i \in Images : PlanOf(i) \in {"build", "exists", "leave"}
    BY DEF PlanOf
  <2>4. conf.push \in BOOLEAN
    BY <2>1, BuildAssumption DEF Conf
  <2> QED BY <2>1, <2>2, <2>3, <2>4 DEF Promise!Init
<1>2. SInv /\ BInv' /\ [Next]_vars => [Promise!Next]_(Promise!vars)
  <2> SUFFICES ASSUME SInv, BInv', [Next]_vars
               PROVE  Promise!Next \/ UNCHANGED Promise!vars
    OBVIOUS
  <2>1. /\ UNCHANGED [i \in Images |-> PlanOf(i)]
        /\ conf' = conf
    BY PlanKept
  <2>2. PICK w \in Workers : Quiet \/ WorkerEffect(w)
    BY StepEffect, BuildAssumption DEF SInv, Workers
  <2>3. \/ UNCHANGED [j \in Images |-> PhaseOf(j)] /\ UNCHANGED <<engine, registry>>
        \/ \E i \in Images : \/ Promise!Begin(i) \/ Promise!BeginPush(i)
                            \/ Promise!Produce(i) \/ Promise!Accept(i)
                            \/ Promise!End(i) \/ Promise!Refuse(i)
    <3>1. CASE \/ Quiet \/ Leaves(w) \/ \E N \in SUBSET Tasks : Collects(w, N)
               \/ \E i \in Images : \/ Enters(w, i) \/ Fails(w, i)
                                   \/ QueuesPush(w, i) \/ FailsToPush(w, i)
      BY <3>1, Unseen
    <3>2. CASE \E t \in Tasks : Takes(w, t)
      BY <3>2, TakesIsBegin
    <3>3. CASE \E i \in Images : Produces(w, i) \/ Succeeds(w, i)
      BY <3>3, BuildIsProduce
    <3>4. CASE \E i \in Images : Pushes(w, i)
      BY <3>4, PushIsAccept
    <3>5. CASE GivesUp(w)
      BY <3>5, GiveUpIsEnd
    <3> QED BY <2>2, <3>1, <3>2, <3>3, <3>4, <3>5 DEF WorkerEffect
  <2> QED BY <2>1, <2>3 DEF Promise!Next, Promise!vars
<1> QED
  BY SInvAlways, BInvAlways, <1>1, <1>2, PTL
     DEF Spec, ImplementsImageBuilds, Promise!Spec
=============================================================================
