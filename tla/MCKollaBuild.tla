---------------------------- MODULE MCKollaBuild ---------------------------
(***************************************************************************)
(* Instances of KollaBuild for TLC.                                        *)
(***************************************************************************)
EXTENDS KollaBuildRefinement, TLC

CONSTANTS base, openstack, nova, redis, b1, b2, p1

\* base <- openstack <- nova,  base <- redis
TreeImages == {base, openstack, nova, redis}

TreeParent == [i \in TreeImages |->
                  CASE i = base      -> NoImage
                    [] i = openstack -> base
                    [] i = nova      -> openstack
                    [] i = redis     -> base]

\* base <- openstack
PairImages == {base, openstack}

PairParent == [i \in PairImages |-> TreeParent[i]]

MCBuildThreads == {b1, b2}
OneBuildThread == {b1}
MCPushThreads  == {p1}

Plain(push, retries) ==
    [push |-> push, squash |-> FALSE, engine |-> "docker",
     retries |-> retries, summary |-> TRUE]

TreeConfs == {Plain(TRUE, 0), Plain(FALSE, 0)}

InterruptConfs ==
    {Plain(TRUE, 1),
     [Plain(FALSE, 0) EXCEPT !.squash = TRUE, !.summary = FALSE]}

RetryConfs == {Plain(TRUE, 1)}

SquashConfs == {[Plain(FALSE, 0) EXCEPT !.squash = TRUE],
                [Plain(FALSE, 0) EXCEPT !.squash = TRUE, !.engine = "podman"]}

ThreadSymmetry == Permutations(MCBuildThreads)
=============================================================================
