----------------------------- MODULE ImageTree -----------------------------
(***************************************************************************)
(* The forest of container images kolla-build works on, and the status     *)
(* every image carries.                                                    *)
(*                                                                         *)
(* KollaWorker.find_parents links an image to the image its Dockerfile's   *)
(* FROM line names; an image whose FROM line names nothing kolla builds    *)
(* has no parent.                                                          *)
(***************************************************************************)
EXTENDS Naturals

CONSTANTS
    Images,     \* the images found under docker/
    NoImage,    \* the parent of a root ("image.parent is None")
    Parent      \* image -> its parent image, or NoImage

(***************************************************************************)
(* The only assumption on the shape: following FROM lines never cycles,    *)
(* said without recursion (every non-empty set of images has a member      *)
(* whose parent is outside the set).  Every loop that climbs to the root   *)
(* ("while ancestor_image.parent is not None") relies on it.               *)
(***************************************************************************)
ASSUME ForestAssumption ==
    /\ NoImage \notin Images
    /\ Parent \in [Images -> Images \cup {NoImage}]
    /\ \A S \in SUBSET Images :
          S # {} => \E i \in S : Parent[i] \notin S

-----------------------------------------------------------------------------
(***************************************************************************)
(* class Status, and the tuple STATUS_ERRORS.                              *)
(***************************************************************************)
Status == {"connection_error", "push_error", "error", "parent_error",
           "built", "building", "unmatched", "matched", "unprocessed",
           "skipped", "unbuildable"}

STATUS_ERRORS == {"connection_error", "push_error", "error", "parent_error"}

\* image.children, filled in by find_parents.
Children(p) == {c \in Images : Parent[c] = p}

-----------------------------------------------------------------------------
(***************************************************************************)
(* Climbing.  ClimbUntil(i, stop) is the set of images the variable        *)
(* ancestor_image takes when it starts at i and moves to its parent for    *)
(* as long as the parent exists and is not in stop.  It is the least set   *)
(* that contains i and is closed under that move.                          *)
(***************************************************************************)
ClosedUp(S, stop) ==
    \A j \in S : Parent[j] \in Images \ stop => Parent[j] \in S

\* Mutation: the climb looks at the image and stops.
ClimbNowhere(i, stop) == {i}

ClimbUntil(i, stop) ==
    {a \in Images :
        \A S \in SUBSET Images : (i \in S /\ ClosedUp(S, stop)) => a \in S}

Lineage(i) == ClimbUntil(i, {})         \* i and all its ancestors

-----------------------------------------------------------------------------
(***************************************************************************)
(* What filter_images hands to build_queue: every image is unbuildable,    *)
(* unmatched, matched or skipped; what is below an unbuildable image is    *)
(* unbuildable; what is above an image chosen for the build (matched or    *)
(* skipped) is chosen too.  ImageFilter establishes it and KollaBuild      *)
(* starts from it.                                                         *)
(***************************************************************************)
PlanStatus == {"unbuildable", "unmatched", "matched", "skipped"}

Chosen == {"matched", "skipped"}

ClosedPlan(s) ==
    \A i \in Images : Parent[i] \in Images =>
        /\ s[Parent[i]] = "unbuildable" => s[i] = "unbuildable"
        /\ s[i] \in Chosen => s[Parent[i]] \in Chosen

Plans == {s \in [Images -> PlanStatus] : ClosedPlan(s)}
=============================================================================
