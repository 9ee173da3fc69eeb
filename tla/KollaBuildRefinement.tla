------------------------ MODULE KollaBuildRefinement ------------------------
(***************************************************************************)
(* KollaBuild implements ImageBuilds: the phase of an image is what the    *)
(* threads that hold its tasks are doing, and over once it was tried.      *)
(***************************************************************************)
EXTENDS KollaBuild

WorkedOn(k, i) == \E w \in Workers : Holds(w, k, i) /\ InRun(w)

PhaseOf(i) ==
    IF WorkedOn("build", i) THEN "building"
    ELSE IF WorkedOn("push", i) THEN "pushing"
    ELSE IF status[i] \in LeftOut \cup {"matched"} THEN "waiting"
    ELSE "over"

PlanOf(i) ==
    IF status[i] = "skipped" THEN "exists"
    ELSE IF status[i] \in LeftOut THEN "leave"
    ELSE "build"

Promise ==
    INSTANCE ImageBuilds WITH
        plan    <- [i \in Images |-> PlanOf(i)],
        publish <- conf.push,
        phase   <- [i \in Images |-> PhaseOf(i)]

(***************************************************************************)
(* The threads, queues and retries of run_build, and statuses nobody       *)
(* locks, keep the promise: an image is built at most once, from a parent  *)
(* whose build is over, and pushed at most once, after its own build.      *)
(***************************************************************************)
ImplementsImageBuilds == Promise!Spec
=============================================================================
