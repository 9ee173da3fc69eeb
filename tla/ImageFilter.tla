---------------------------- MODULE ImageFilter ----------------------------
(***************************************************************************)
(* KollaWorker.filter_images: which of the images found on disk this run   *)
(* of kolla-build will build.                                              *)
(*                                                                         *)
(* Three loops over self.images follow one another, and each iteration     *)
(* reads and writes the statuses of the image and of its ancestors.  The   *)
(* order of self.images is the order os.walk happened to list the          *)
(* directories in, so a loop here takes its images in any order: an        *)
(* iteration is one action, and todo holds the images the loop has yet to  *)
(* reach.                                                                  *)
(***************************************************************************)
EXTENDS ImageTree

VARIABLES
    inputs,     \* what the command line, the tables and the engine say
    status,     \* image.status
    phase,      \* the loop being executed
    todo        \* the images that loop has yet to visit

vars == <<inputs, status, phase, todo>>

(***************************************************************************)
(* names: unbuildable_images after the UNBUILDABLE_IMAGES table was        *)
(* filtered by base distribution and architecture (empty with              *)
(* --enable-unbuildable); filtered: a regex or a profile was given;        *)
(* matching: the images whose name it finds; cached: the images for which  *)
(* in_engine_cache() answers yes.                                          *)
(***************************************************************************)
Inputs == [names : SUBSET Images, filtered : BOOLEAN,
           matching : SUBSET Images, cached : SUBSET Images,
           skip_existing : BOOLEAN, skip_parents : BOOLEAN]

TypeOK ==
    /\ inputs \in Inputs
    /\ status \in [Images -> PlanStatus \cup {"unprocessed"}]
    /\ phase \in {"unbuildable", "match", "skip", "done"}
    /\ todo \in SUBSET Images

\* matching and cached are only consulted under their option.
Init ==
    /\ inputs \in Inputs
    /\ ~inputs.filtered => inputs.matching = {}
    /\ ~inputs.skip_existing => inputs.cached = {}
    /\ status = [i \in Images |-> "unprocessed"]
    /\ todo = Images
    /\ phase = IF inputs.names # {} THEN "unbuildable" ELSE "match"

-----------------------------------------------------------------------------
(***************************************************************************)
(* Mark an image unbuildable when the table names it, or when the climb    *)
(* meets an ancestor that is named or already marked; the climb stops at   *)
(* the first such ancestor and marks it too.                               *)
(***************************************************************************)
Spoiled == {a \in Images : a \in inputs.names \/ status[a] = "unbuildable"}

\* Mutation: the check looks at the parent only.
OnlyParentSpoiled(i) == {a \in inputs.names : Parent[i] = a}

NearestSpoiled(i) ==
    {a \in Spoiled : \E j \in ClimbUntil(i, Spoiled) : Parent[j] = a}

MarkUnbuildable(i) ==
    /\ phase = "unbuildable"
    /\ i \in todo
    /\ todo' = todo \ {i}
    /\ LET hit == IF i \in inputs.names THEN {i}
                  ELSE IF NearestSpoiled(i) # {}
                       THEN {i} \cup NearestSpoiled(i)
                       ELSE {}
       IN  status' = [a \in Images |->
                         IF a \in hit THEN "unbuildable" ELSE status[a]]
    /\ UNCHANGED <<inputs, phase>>

(***************************************************************************)
(* Match an image.  A requested image pulls in its ancestors, up to the    *)
(* first whose parent is matched already.                                  *)
(***************************************************************************)
Matched == {a \in Images : status[a] = "matched"}

\* Mutation: the filter forgets that some images cannot be built.
MatchUnbuildableToo(i) ==
    /\ phase = "match"
    /\ i \in todo
    /\ todo' = todo \ {i}
    /\ status' = [status EXCEPT ![i] =
                     IF ~inputs.filtered \/ i \in inputs.matching
                     THEN "matched" ELSE "unmatched"]
    /\ UNCHANGED <<inputs, phase>>

MatchImage(i) ==
    /\ phase = "match"
    /\ i \in todo
    /\ todo' = todo \ {i}
    /\ status' =
         IF ~inputs.filtered
         THEN IF status[i] # "unbuildable"
              THEN [status EXCEPT ![i] = "matched"]
              ELSE status
         ELSE IF status[i] \in {"matched", "unbuildable"}
              THEN status
              ELSE IF i \in inputs.matching
                   THEN [a \in Images |->
                            IF a \in ClimbUntil(i, Matched)
                            THEN "matched" ELSE status[a]]
                   ELSE [status EXCEPT ![i] = "unmatched"]
    /\ UNCHANGED <<inputs, phase>>

(***************************************************************************)
(* Skip a matched image that exists already, or that has children.         *)
(***************************************************************************)
Skips(i) == \/ inputs.skip_existing /\ i \in inputs.cached
            \/ inputs.skip_parents /\ Children(i) # {}

\* Mutation: the skipped image gets the status of a finished one.
SkipAsBuilt(i) ==
    /\ phase = "skip"
    /\ i \in todo
    /\ todo' = todo \ {i}
    /\ status' = IF status[i] = "matched" /\ Skips(i)
                 THEN [status EXCEPT ![i] = "built"]
                 ELSE status
    /\ UNCHANGED <<inputs, phase>>

SkipImage(i) ==
    /\ phase = "skip"
    /\ i \in todo
    /\ todo' = todo \ {i}
    /\ status' = IF status[i] = "matched" /\ Skips(i)
                 THEN [status EXCEPT ![i] = "skipped"]
                 ELSE status
    /\ UNCHANGED <<inputs, phase>>

\* A loop ends when it has visited every image.
NextPhase ==
    /\ phase # "done"
    /\ todo = {}
    /\ phase' = CASE phase = "unbuildable" -> "match"
                  [] phase = "match"       -> "skip"
                  [] phase = "skip"        -> "done"
    /\ todo' = IF phase = "skip" THEN {} ELSE Images
    /\ UNCHANGED <<inputs, status>>

Done == phase = "done" /\ UNCHANGED vars

Next ==
    \/ \E i \in Images : MarkUnbuildable(i) \/ MatchImage(i) \/ SkipImage(i)
    \/ NextPhase
    \/ Done

Spec == Init /\ [][Next]_vars

-----------------------------------------------------------------------------
(***************************************************************************)
(* The reference: what the filter means, with no loop and no order.        *)
(***************************************************************************)
Unbuildable == {i \in Images : Lineage(i) \cap inputs.names # {}}

Requested ==
    IF inputs.filtered THEN inputs.matching \ Unbuildable
                       ELSE Images \ Unbuildable

Wanted == {a \in Images : \E i \in Requested : a \in Lineage(i)}

Reference ==
    [i \in Images |->
        CASE i \in Unbuildable                    -> "unbuildable"
          [] i \notin Unbuildable \cup Wanted     -> "unmatched"
          [] i \in Wanted /\ Skips(i)             -> "skipped"
          [] i \in Wanted /\ ~Skips(i)            -> "matched"]

(***************************************************************************)
(* The outcome of filter_images does not depend on the order of            *)
(* self.images: it is the declarative reading of the options.  (Each climb *)
(* stops early at a status another iteration left behind, and the status   *)
(* "unmatched" may be overwritten by a later climb.)                       *)
(***************************************************************************)
FilterIsOrderIndependent == phase = "done" => status = Reference

(***************************************************************************)
(* What build_queue and BuildTask.followups rely on: the statuses          *)
(* filter_images leaves form a plan.  An image to build never hangs below  *)
(* an image that is left out, or its BuildTask would never be queued.      *)
(***************************************************************************)
FilterYieldsPlan == phase = "done" => status \in Plans

(***************************************************************************)
(* The climb of the match loop overwrites whatever it meets, without       *)
(* looking: an image once found unbuildable is never matched after all.    *)
(***************************************************************************)
UnbuildableStays ==
    [][\A i \in Images : status[i] = "unbuildable" =>
                            status'[i] = "unbuildable"]_vars

(***************************************************************************)
(* The release note of --skip-parents promises that "only the image(s)     *)
(* specified by the regex and their children" are built, that is, what     *)
(* the flag removes is the parents that only came along: an image the      *)
(* regex names, below which nothing else is matched, is still built.       *)
(***************************************************************************)
SkipParentsKeepsRequested ==
    phase = "done" /\ inputs.filtered /\ ~inputs.skip_existing =>
        \A i \in Requested :
            (\A j \in Requested : i \in Lineage(j) => i = j)
                => status[i] = "matched"

=============================================================================
