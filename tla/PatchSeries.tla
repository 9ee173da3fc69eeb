---------------------------- MODULE PatchSeries ----------------------------
(***************************************************************************)
(* kolla_patch, which the Dockerfile of an image runs after it copied the  *)
(* patches of the image to /patches.  An image inherits from its parent    *)
(* /patches/series.applied, the names of every series so far, and the log  *)
(* /etc/kolla/patched; the script goes through both series and applies     *)
(* what it does not find in the log.                                       *)
(***************************************************************************)
EXTENDS Sequences, SequencesExt

CONSTANTS
    Patches,        \* names of patch files
    PartOf,         \* <<p, q>>: the name p is a part of the name q
    NoSeries        \* there is no series file

ASSUME PatchSeriesAssumption ==
    /\ PartOf \subseteq Patches \X Patches
    /\ \A p \in Patches : <<p, p>> \in PartOf

\* Of an image: series.applied, and the patches its log names, in order.
PatchedImage == [applied : Seq(Patches), patched : Seq(Patches)]

\* grep -q "$patchfile" /etc/kolla/patched: a part of a line is enough.
InLog(p, log) == \E q \in Range(log) : <<p, q>> \in PartOf

\* Mutation: the log is not looked at.
ApplyAgain(run, p, good) ==
    IF run.failed THEN run
    ELSE IF p \in good THEN [run EXCEPT !.log = Append(@, p)]
    ELSE [run EXCEPT !.failed = TRUE]

\* One patch file, unless the script has exited; "good" are those that
\* apply.
ApplyOne(run, p, good) ==
    IF run.failed \/ InLog(p, run.log) THEN run
    ELSE IF p \in good THEN [run EXCEPT !.log = Append(@, p)]
    ELSE [run EXCEPT !.failed = TRUE]

\* /patches/series as the loop reads it
FullSeries(image, series) == image.applied \o series

\* After each line of it
PatchSteps(image, series, good) ==
    LET full == FullSeries(image, series)
        run[n \in 0..Len(full)] ==
            IF n = 0 THEN [log |-> image.patched, failed |-> FALSE]
                     ELSE ApplyOne(run[n - 1], full[n], good)
    IN  run

PatchRun(image, series, good) ==
    PatchSteps(image, series, good)[Len(FullSeries(image, series))]

PatchFails(image, series, good) ==
    series # NoSeries /\ PatchRun(image, series, good).failed

KollaPatch(image, series, good) ==
    IF series = NoSeries THEN image
    ELSE [applied |-> FullSeries(image, series),
          patched |-> PatchRun(image, series, good).log]

-----------------------------------------------------------------------------
(***************************************************************************)
(* What the script is for: the log goes on from that of the parent, no     *)
(* patch is applied twice, what is new is applied in the order of the      *)
(* series, and every patch of the series was applied, now or before, or    *)
(* its name is a part of the name of one that was.                         *)
(***************************************************************************)
Added(before, after) ==
    SubSeq(after.patched, Len(before.patched) + 1, Len(after.patched))

InOrderOf(new, full) ==
    \A i, j \in DOMAIN new : i < j =>
        \E k, l \in DOMAIN full :
            k < l /\ full[k] = new[i] /\ full[l] = new[j]

SeriesApplied(before, series, after) ==
    /\ IsPrefix(before.patched, after.patched)
    /\ IsInjective(Added(before, after))
    /\ Range(Added(before, after)) \cap Range(before.patched) = {}
    /\ series # NoSeries =>
          /\ \A p \in Range(series) : InLog(p, after.patched)
          /\ InOrderOf(Added(before, after), FullSeries(before, series))
=============================================================================
