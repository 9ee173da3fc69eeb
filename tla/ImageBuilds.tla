---------------------------- MODULE ImageBuilds ----------------------------
(***************************************************************************)
(* What a run of kolla-build promises for each image, with no threads, no  *)
(* queues, no retries and no interrupts: a planned image is built at most  *)
(* once, after its parent, and pushed at most once, when its build is over *)
(* and only if pushing was asked for.                                      *)
(*                                                                         *)
(* KollaBuildRefinement shows that the threads and queues of run_build     *)
(* keep this promise.                                                      *)
(***************************************************************************)
EXTENDS ImageTree

VARIABLES
    plan,       \* image -> "build", "exists" (skipped) or "leave"
    publish,    \* --push
    phase,      \* image -> where its build is
    engine,     \* the images the container engine built
    registry    \* the images the registry accepted

vars == <<plan, publish, phase, engine, registry>>

Phases == {"waiting", "building", "over", "pushing"}

TypeOK ==
    /\ plan \in [Images -> {"build", "exists", "leave"}]
    /\ publish \in BOOLEAN
    /\ phase \in [Images -> Phases]
    /\ engine \subseteq Images
    /\ registry \subseteq engine

Init ==
    /\ plan \in [Images -> {"build", "exists", "leave"}]
    /\ publish \in BOOLEAN
    /\ phase = [i \in Images |-> "waiting"]
    /\ engine = {} /\ registry = {}

Move(i, from, to) ==
    phase[i] = from /\ phase' = [phase EXCEPT ![i] = to]

\* There is something to build FROM, and nobody is still at work on it.
ParentReady(i) ==
    LET p == Parent[i] IN
    \/ p = NoImage
    \/ plan[p] = "exists"
    \/ p \in engine /\ phase[p] # "building"

Begin(i) ==
    /\ Move(i, "waiting", "building")
    /\ plan[i] = "build"
    /\ ParentReady(i)
    /\ UNCHANGED <<plan, publish, engine, registry>>

\* The engine has the image; squashing it may come next, or a retry.
Produce(i) ==
    /\ \E to \in {"building", "over"} : Move(i, "building", to)
    /\ engine' = engine \cup {i}
    /\ UNCHANGED <<plan, publish, registry>>

\* The last attempt is over, or none was made.
End(i) ==
    /\ \E to \in {"waiting", "over"} :
          /\ Move(i, "building", to)
          /\ to = "waiting" => i \notin engine
    /\ UNCHANGED <<plan, publish, engine, registry>>

BeginPush(i) ==
    /\ Move(i, "over", "pushing")
    /\ publish
    /\ i \in engine \ registry
    /\ UNCHANGED <<plan, publish, engine, registry>>

Accept(i) ==
    /\ Move(i, "pushing", "over")
    /\ registry' = registry \cup {i}
    /\ UNCHANGED <<plan, publish, engine>>

Refuse(i) ==
    /\ Move(i, "pushing", "over")
    /\ UNCHANGED <<plan, publish, engine, registry>>

Next ==
    \E i \in Images :
        \/ Begin(i) \/ Produce(i) \/ End(i)
        \/ BeginPush(i) \/ Accept(i) \/ Refuse(i)

Spec == Init /\ [][Next]_vars
=============================================================================
