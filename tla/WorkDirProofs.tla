--------------------------- MODULE WorkDirProofs ----------------------------
(***************************************************************************)
(* Proofs about the directory an image is built from, for any sources,     *)
(* templates and patches, any number of runs and of retries, with and      *)
(* without --work-dir, and wherever earlier runs were killed.              *)
(***************************************************************************)
EXTENDS WorkDir, SequenceTheorems, WellFoundedInduction, TLAPS

-----------------------------------------------------------------------------
(***************************************************************************)
(* How far a run has come.                                                 *)
(***************************************************************************)
InAttempt == {"main", "plugins", "extract", "pack", "engine"}

Patched == {"ready"} \cup InAttempt

Rendered == {"patch"} \cup Patched

Copied == {"render"} \cup Rendered

\* The template, the Dockerfile and the patches are those of now.
FilesAreCurrent ==
    /\ pc \in Copied /\ template # None => dir.template = template
    /\ pc \in Rendered => dir.dockerfile = dir.template /\ dir.template # None
    /\ pc \in Patched /\ patches # NoSeries => dir.series = patches

\* What was fetched in this attempt is in the archives, and then in plugins/
\* and in the packed archive.
SourcesAreCurrent ==
    /\ pc \in InAttempt =>
          \A s \in Sources : fetched[s] # None => dir.archive[s] = fetched[s]
    /\ pc \in InAttempt \ {"main"} =>
          (IsOn(conf, Main) => fetched[Main] # None)
    /\ pc \in InAttempt =>
          \A p \in Plugins :
             IsOn(conf, p) => fetched[p] # None \/ (pc \in {"main", "plugins"} /\ p \in todo)
    /\ pc \in {"pack", "engine"} =>
          \A p \in Plugins : IsOn(conf, p) => <<p, fetched[p]>> \in dir.plugins
    /\ pc = "engine" => dir.packed = dir.plugins

\* In a temporary directory there is nothing that this run did not put there.
OnlyOurs ==
    ~work_dir =>
        /\ pc = "copy" => dir = Fresh
        /\ pc \in Copied => dir.template = template
        /\ pc \in {"render", "patch"} => dir.series = NoSeries
        /\ pc \in Patched => dir.series = patches
        /\ pc \in {"render", "patch", "ready"} =>
              /\ dir.archive = [s \in Sources |-> None]
              /\ dir.plugins = {}
        /\ pc \in InAttempt =>
              /\ \A s \in Sources : dir.archive[s] # None =>
                    IsOn(conf, s) /\ <<s, dir.archive[s]>> \in all
              /\ \A e \in dir.plugins : IsOn(conf, e[1]) /\ e \in all
        /\ pc \in {"main", "plugins", "extract"} /\ attempt = 0 =>
              dir.plugins = {}
        /\ pc \in {"pack", "engine"} /\ attempt = 0 =>
              \A e \in dir.plugins : e[2] = fetched[e[1]]

DirInv == TypeOK /\ FilesAreCurrent /\ SourcesAreCurrent /\ OnlyOurs

-----------------------------------------------------------------------------
(***************************************************************************)
(* kolla_patch.  What holds after every line of the series is shown by     *)
(* induction on the lines, for which a nonempty set of numbers has a least *)
(* element; and the function that follows the loop exists for the same     *)
(* reason.                                                                 *)
(***************************************************************************)
LEMMA LeastNumber ==
    ASSUME NEW T \in SUBSET Nat, T # {}
    PROVE  \E m \in T : \A k \in T : m <= k
<1>1. PICK x \in T : \A y \in T : ~(<<y, x>> \in OpToRel(<, Nat))
  BY NatLessThanWellFounded, WFMin
<1>2. ASSUME NEW y \in T PROVE x <= y
  <2>1. ~(y < x)
    BY <1>1 DEF OpToRel
  <2> QED BY <2>1
<1> QED BY <1>2

LEMMA Counting ==
    ASSUME NEW S, 0 \in S, \A n \in Nat : n \in S => n + 1 \in S
    PROVE  Nat \subseteq S
<1> DEFINE T == Nat \ S
<1> SUFFICES ASSUME T # {} PROVE FALSE
  OBVIOUS
<1>1. PICK m \in T : \A k \in T : m <= k
  BY LeastNumber
<1>2. m # 0 /\ m - 1 \in Nat /\ m - 1 \notin T
  BY <1>1
<1> QED BY <1>1, <1>2

\* A loop of N rounds has a value after each of them.
Loop(f, R, b, N, S) ==
    /\ f \in [0..N -> R]
    /\ f[0] = b /\ \A k \in 1..N : f[k] = S[k][f[k - 1]]

LEMMA LoopHasValues ==
    ASSUME NEW R, NEW b \in R, NEW N \in Nat, NEW S \in [1..N -> [R -> R]]
    PROVE  \E f : Loop(f, R, b, N, S)
<1> DEFINE Values(f, n) == f[0] = b /\ \A k \in 1..n : f[k] = S[k][f[k - 1]]
           Upto == {n \in Nat : n <= N => \E f \in [0..n -> R] : Values(f, n)}
<1>1. 0 \in Upto
  <2> DEFINE g == [k \in 0..0 |-> b]
  <2>1. g \in [0..0 -> R] /\ Values(g, 0)
    OBVIOUS
  <2> QED BY <2>1
<1>2. ASSUME NEW n \in Nat, n \in Upto PROVE n + 1 \in Upto
  <2> SUFFICES ASSUME n + 1 <= N
               PROVE  \E g \in [0..(n + 1) -> R] : Values(g, n + 1)
    OBVIOUS
  <2>1. PICK f \in [0..n -> R] : Values(f, n)
    BY <1>2
  <2> DEFINE v == S[n + 1][f[n]]
             g == [k \in 0..(n + 1) |-> IF k = n + 1 THEN v ELSE f[k]]
  <2>2. v \in R
    <3>1. n + 1 \in 1..N /\ f[n] \in R
      BY <2>1
    <3> QED BY <3>1
  <2>3. /\ g \in [0..(n + 1) -> R] /\ g[n + 1] = v
        /\ \A k \in 0..n : g[k] = f[k]
    BY <2>1, <2>2
  <2> HIDE DEF g
  <2>4. ASSUME NEW k \in 1..(n + 1) PROVE g[k] = S[k][g[k - 1]]
    <3>1. CASE k = n + 1
      <4>1. k - 1 = n /\ n \in 0..n
        BY <3>1
      <4> QED BY <2>3, <3>1, <4>1
    <3>2. CASE k # n + 1
      <4>1. k \in 1..n /\ k \in 0..n /\ k - 1 \in 0..n
        BY <3>2
      <4> QED BY <2>1, <2>3, <4>1
    <3> QED BY <3>1, <3>2
  <2>5. 0 \in 0..n
    OBVIOUS
  <2> QED BY <2>1, <2>3, <2>4, <2>5
<1> HIDE DEF Upto
<1>3. N \in Upto
  BY <1>1, <1>2, Counting
<1> QED BY <1>3 DEF Upto, Loop

PatchRuns == [log : Seq(Patches), failed : BOOLEAN]

LEMMA ApplyOneFacts ==
    ASSUME NEW run \in PatchRuns, NEW p \in Patches, NEW good
    PROVE  /\ ApplyOne(run, p, good) \in PatchRuns
           /\ \/ ApplyOne(run, p, good) = run /\ (run.failed \/ InLog(p, run.log))
              \/ /\ ~run.failed /\ ~InLog(p, run.log)
                 /\ ApplyOne(run, p, good).log = Append(run.log, p)
                 /\ ApplyOne(run, p, good).failed = FALSE
              \/ /\ ApplyOne(run, p, good).log = run.log
                 /\ ApplyOne(run, p, good).failed
<1>1. Append(run.log, p) \in Seq(Patches)
  BY AppendProperties DEF PatchRuns
<1>2. \A l \in Seq(Patches) : LET r == [run EXCEPT !.log = l] IN
         r \in PatchRuns /\ r.log = l /\ r.failed = run.failed
  BY DEF PatchRuns
<1>3. LET r == [run EXCEPT !.failed = TRUE] IN
      r \in PatchRuns /\ r.log = run.log /\ r.failed
  BY DEF PatchRuns
<1>4. CASE run.failed \/ InLog(p, run.log)
  BY <1>4 DEF ApplyOne
<1>5. CASE ~run.failed /\ ~InLog(p, run.log) /\ p \in good
  <2>1. ApplyOne(run, p, good) = [run EXCEPT !.log = Append(run.log, p)]
    BY <1>5 DEF ApplyOne
  <2>2. run.failed = FALSE
    BY <1>5 DEF PatchRuns
  <2> QED BY <1>1, <1>2, <1>5, <2>1, <2>2
<1>6. CASE ~run.failed /\ ~InLog(p, run.log) /\ p \notin good
  <2>1. ApplyOne(run, p, good) = [run EXCEPT !.failed = TRUE]
    BY <1>6 DEF ApplyOne
  <2> QED BY <1>3, <2>1
<1> QED BY <1>4, <1>5, <1>6

LEMMA PatchStepsFacts ==
    ASSUME NEW img \in PatchedImage, NEW series \in Seq(Patches), NEW good
    PROVE  LET full  == FullSeries(img, series)
               steps == PatchSteps(img, series, good)
           IN  /\ full \in Seq(Patches) /\ Len(full) \in Nat
               /\ steps[0] = [log |-> img.patched, failed |-> FALSE]
               /\ \A k \in 1..Len(full) :
                     steps[k] = ApplyOne(steps[k - 1], full[k], good)
<1> DEFINE full  == FullSeries(img, series)
           b     == [log |-> img.patched, failed |-> FALSE]
           N     == Len(full)
           S     == [k \in 1..N |-> [r \in PatchRuns |-> ApplyOne(r, full[k], good)]]
           steps == PatchSteps(img, series, good)
<1>1. full \in Seq(Patches) /\ N \in Nat /\ b \in PatchRuns
  BY ConcatProperties, LenProperties DEF FullSeries, PatchedImage, PatchRuns
<1>2. \A k \in 1..N : full[k] \in Patches
  BY <1>1, ElementOfSeq
<1> HIDE DEF full, N
<1>3. S \in [1..N -> [PatchRuns -> PatchRuns]]
  BY <1>2, ApplyOneFacts
<1>4. \A k \in 1..N, r \in PatchRuns : S[k][r] = ApplyOne(r, full[k], good)
  OBVIOUS
<1> HIDE DEF b, S
<1>5. PICK f : Loop(f, PatchRuns, b, N, S)
  BY <1>1, <1>3, LoopHasValues
<1>6. ASSUME NEW n \in 0..N
      PROVE  f[n] = IF n = 0 THEN b ELSE ApplyOne(f[n - 1], full[n], good)
  <2>1. CASE n # 0
    <3>1. n \in 1..N /\ n - 1 \in 0..N
      BY <1>1, <2>1
    <3>2. f[n - 1] \in PatchRuns
      BY <1>5, <3>1 DEF Loop
    <3> QED BY <1>4, <1>5, <2>1, <3>1, <3>2 DEF Loop
  <2> QED BY <1>5, <2>1 DEF Loop
<1>7. f = [n \in 0..N |-> IF n = 0 THEN b ELSE ApplyOne(f[n - 1], full[n], good)]
  BY <1>5, <1>6 DEF Loop
<1>8. steps = [n \in 0..N |-> IF n = 0 THEN b
                                      ELSE ApplyOne(steps[n - 1], full[n], good)]
  BY <1>7 DEF PatchSteps, b, full, N
<1> HIDE DEF steps
<1>9. steps[0] = b
  BY <1>1, <1>8
<1>10. \A k \in 1..N : steps[k] = ApplyOne(steps[k - 1], full[k], good)
  BY <1>1, <1>8
<1> QED BY <1>1, <1>9, <1>10 DEF b, full, N, steps

(***************************************************************************)
(* After n lines: the log goes on from that of the parent, what is new in  *)
(* it is new to it, comes from lines "at" that go up, and all lines read   *)
(* are in it if the script has not failed.                                 *)
(***************************************************************************)
Increasing(at, log, from) ==
    \A i, j \in 1..Len(log) : from < i /\ i < j => at[i] < at[j]

FromLines(at, log, from, full, n) ==
    \A i \in 1..Len(log) : from < i => at[i] \in 1..n /\ full[at[i]] = log[i]

Patching(img, full, n, run) ==
    LET m == Len(img.patched)
        log == run.log
    IN  /\ run \in PatchRuns
        /\ m <= Len(log)
        /\ \A i \in 1..m : log[i] = img.patched[i]
        /\ \A i, j \in 1..Len(log) : i < j /\ m < j => log[i] # log[j]
        /\ ~run.failed => \A k \in 1..n : InLog(full[k], log)
        /\ \E at \in [1..Len(log) -> 0..n] :
              Increasing(at, log, m) /\ FromLines(at, log, m, full, n)

LEMMA OneLine ==
    ASSUME NEW img \in PatchedImage, NEW full \in Seq(Patches), NEW good,
           NEW n \in Nat, n + 1 \in 1..Len(full),
           NEW run, Patching(img, full, n, run)
    PROVE  Patching(img, full, n + 1, ApplyOne(run, full[n + 1], good))
<1> DEFINE m == Len(img.patched)
           p == full[n + 1]
           log == run.log
           new == ApplyOne(run, p, good)
<1>1. /\ run \in PatchRuns /\ log \in Seq(Patches) /\ Len(log) \in Nat /\ m \in Nat
      /\ p \in Patches
  BY LenProperties, ElementOfSeq DEF Patching, PatchRuns, PatchedImage
<1>2. PICK at \in [1..Len(log) -> 0..n] :
         Increasing(at, log, m) /\ FromLines(at, log, m, full, n)
  BY DEF Patching
<1>3. /\ m <= Len(log)
      /\ \A i \in 1..m : log[i] = img.patched[i]
      /\ \A i, j \in 1..Len(log) : i < j /\ m < j => log[i] # log[j]
      /\ ~run.failed => \A k \in 1..n : InLog(full[k], log)
  BY DEF Patching
<1>4. new \in PatchRuns
  BY <1>1, ApplyOneFacts
<1> HIDE DEF m, p, log, new
<1>5. CASE new.log = log /\ (~new.failed => InLog(p, log) /\ ~run.failed)
  <2>1. at \in [1..Len(log) -> 0..(n + 1)] /\ FromLines(at, log, m, full, n + 1)
    BY <1>2 DEF FromLines
  <2>2. ASSUME ~new.failed, NEW k \in 1..(n + 1) PROVE InLog(full[k], log)
    <3>1. CASE k = n + 1
      BY <1>5, <2>2, <3>1 DEF p
    <3>2. CASE k # n + 1
      <4>1. k \in 1..n
        BY <3>2
      <4> QED BY <1>3, <1>5, <2>2, <4>1
    <3> QED BY <3>1, <3>2
  <2> QED BY <1>2, <1>3, <1>4, <1>5, <2>1, <2>2 DEF Patching, m, p, new
<1>6. CASE /\ ~run.failed /\ ~InLog(p, log)
           /\ new.log = Append(log, p) /\ new.failed = FALSE
  <2> DEFINE L == Append(log, p)
             last == Len(log) + 1
             to == [i \in 1..last |-> IF i = last THEN n + 1 ELSE at[i]]
  <2>1. /\ L \in Seq(Patches) /\ Len(L) = last /\ L[last] = p
        /\ \A i \in 1..Len(log) : L[i] = log[i]
    BY <1>1, AppendProperties
  <2>2. \A i \in 1..Len(log) : log[i] # p
    <3>1. <<p, p>> \in PartOf
      BY <1>1, PatchSeriesAssumption
    <3>2. Range(log) = {log[i] : i \in 1..Len(log)}
      BY <1>1, RangeEquality
    <3> QED BY <1>6, <3>1, <3>2 DEF InLog
  <2>3. \A q : InLog(q, log) => InLog(q, L)
    <3>1. Range(log) \subseteq Range(L)
      <4>1. Range(log) = {log[i] : i \in 1..Len(log)}
        BY <1>1, RangeEquality
      <4>2. Range(L) = {L[i] : i \in 1..Len(L)}
        BY <2>1, RangeEquality
      <4>3. \A i \in 1..Len(log) : i \in 1..Len(L)
        BY <1>1, <2>1
      <4> QED BY <2>1, <4>1, <4>2, <4>3
    <3> QED BY <3>1 DEF InLog
  <2>4. InLog(p, L)
    <3>1. Range(L) = {L[i] : i \in 1..Len(L)}
      BY <2>1, RangeEquality
    <3>2. last \in 1..Len(L)
      BY <1>1, <2>1
    <3>3. p \in Range(L)
      BY <2>1, <3>1, <3>2
    <3> QED BY <1>1, <3>3, PatchSeriesAssumption DEF InLog
  <2>5. /\ to \in [1..last -> 0..(n + 1)] /\ to[last] = n + 1
        /\ \A i \in 1..Len(log) : to[i] = at[i]
    BY <1>1, <1>2
  <2> HIDE DEF L, to
  <2>6. \A i \in 1..last : i = last \/ i \in 1..Len(log)
    BY <1>1
  <2>7. FromLines(to, L, m, full, n + 1)
    <3> SUFFICES ASSUME NEW i \in 1..last, m < i
                 PROVE  to[i] \in 1..(n + 1) /\ full[to[i]] = L[i]
      BY <2>1 DEF FromLines
    <3>1. CASE i = last
      BY <2>1, <2>5, <3>1 DEF p
    <3>2. CASE i \in 1..Len(log)
      <4>1. at[i] \in 1..n /\ full[at[i]] = log[i]
        BY <1>2, <3>2 DEF FromLines
      <4> QED BY <2>1, <2>5, <3>2, <4>1
    <3> QED BY <2>6, <3>1, <3>2
  <2>8. Increasing(to, L, m)
    <3> SUFFICES ASSUME NEW i \in 1..last, NEW j \in 1..last, m < i, i < j
                 PROVE  to[i] < to[j]
      BY <2>1 DEF Increasing
    <3>1. i \in 1..Len(log)
      BY <1>1
    <3>2. at[i] \in 1..n
      BY <1>2, <3>1 DEF FromLines
    <3>3. CASE j = last
      BY <2>5, <3>1, <3>2, <3>3
    <3>4. CASE j \in 1..Len(log)
      BY <1>2, <2>5, <3>1, <3>4 DEF Increasing
    <3> QED BY <2>6, <3>3, <3>4
  <2>9. ASSUME NEW i \in 1..last, NEW j \in 1..last, i < j, m < j
        PROVE  L[i] # L[j]
    <3>1. i \in 1..Len(log)
      BY <1>1, <2>9
    <3>2. CASE j = last
      BY <2>1, <2>2, <3>1, <3>2
    <3>3. CASE j \in 1..Len(log)
      BY <1>3, <2>1, <2>9, <3>1, <3>3
    <3> QED BY <2>6, <3>2, <3>3
  <2>10. ASSUME NEW k \in 1..(n + 1) PROVE InLog(full[k], L)
    <3>1. CASE k = n + 1
      BY <2>4, <3>1 DEF p
    <3>2. CASE k # n + 1
      <4>1. k \in 1..n
        BY <3>2
      <4> QED BY <1>3, <1>6, <2>3, <4>1
    <3> QED BY <3>1, <3>2
  <2>11. m <= last /\ \A i \in 1..m : i \in 1..Len(log)
    BY <1>1, <1>3
  <2>12. \A i \in 1..m : L[i] = img.patched[i]
    BY <1>3, <2>1, <2>11
  <2>13. new.log = L
    BY <1>6 DEF L
  <2> HIDE DEF last
  <2>14. Patching(img, full, n + 1, new)
    BY <1>4, <2>1, <2>5, <2>7, <2>8, <2>9, <2>10, <2>11, <2>12, <2>13
       DEF Patching, m
  <2> QED BY <2>14 DEF new, p
<1>7. \/ new.log = log /\ (~new.failed => InLog(p, log) /\ ~run.failed)
      \/ /\ ~run.failed /\ ~InLog(p, log)
         /\ new.log = Append(log, p) /\ new.failed = FALSE
  BY <1>1, ApplyOneFacts DEF new, log
<1> QED BY <1>5, <1>6, <1>7

LEMMA PatchRunFacts ==
    ASSUME NEW img \in PatchedImage, NEW series \in Seq(Patches), NEW good
    PROVE  LET full == FullSeries(img, series) IN
           /\ full \in Seq(Patches) /\ Len(full) \in Nat
           /\ Patching(img, full, Len(full), PatchRun(img, series, good))
<1> DEFINE full  == FullSeries(img, series)
           N     == Len(full)
           steps == PatchSteps(img, series, good)
           Read  == {n \in Nat : n <= N => Patching(img, full, n, steps[n])}
<1>1. /\ full \in Seq(Patches) /\ N \in Nat
      /\ steps[0] = [log |-> img.patched, failed |-> FALSE]
      /\ \A k \in 1..N : steps[k] = ApplyOne(steps[k - 1], full[k], good)
  BY PatchStepsFacts
<1> HIDE DEF full, N, steps
<1>2. 0 \in Read
  <2> DEFINE log == img.patched
             at == [i \in 1..Len(log) |-> 0]
  <2>1. log \in Seq(Patches) /\ Len(log) \in Nat /\ steps[0] \in PatchRuns
        /\ steps[0].log = log
    BY <1>1, LenProperties DEF PatchedImage, PatchRuns
  <2>2. at \in [1..Len(log) -> 0..0]
    OBVIOUS
  <2> HIDE DEF log, at
  <2>3. Increasing(at, log, Len(log)) /\ FromLines(at, log, Len(log), full, 0)
    BY <2>1 DEF Increasing, FromLines
  <2>4. \A j \in 1..Len(log) : ~(Len(log) < j)
    BY <2>1
  <2>5. \A i \in 1..Len(log) : log[i] = img.patched[i]
    BY DEF log
  <2>6. Patching(img, full, 0, steps[0])
    BY <2>1, <2>2, <2>3, <2>4, <2>5 DEF Patching, log
  <2> QED BY <2>6
<1>3. ASSUME NEW n \in Nat, n \in Read PROVE n + 1 \in Read
  <2> SUFFICES ASSUME n + 1 <= N PROVE Patching(img, full, n + 1, steps[n + 1])
    OBVIOUS
  <2>1. Patching(img, full, n, steps[n]) /\ n + 1 \in 1..Len(full)
    BY <1>1, <1>3 DEF N
  <2>2. steps[n + 1] = ApplyOne(steps[n], full[n + 1], good)
    <3>1. n + 1 \in 1..N /\ (n + 1) - 1 = n
      BY <1>1
    <3> QED BY <1>1, <3>1
  <2> QED BY <1>1, <2>1, <2>2, OneLine
<1> HIDE DEF Read
<1>4. N \in Read
  BY <1>1, <1>2, <1>3, Counting
<1> QED BY <1>1, <1>4 DEF Read, PatchRun, full, N, steps

\* What a log has beyond its first m names.
LEMMA Beyond ==
    ASSUME NEW log \in Seq(Patches), NEW m \in 0..Len(log)
    PROVE  LET new == SubSeq(log, m + 1, Len(log)) IN
           /\ DOMAIN new = 1..(Len(log) - m)
           /\ \A i \in DOMAIN new : m + i \in 1..Len(log) /\ new[i] = log[m + i]
<1>1. Len(log) \in Nat
  BY LenProperties
<1>2. CASE m = Len(log)
  <2>1. SubSeq(log, m + 1, Len(log)) = <<>>
    BY <1>1, <1>2, SubSeqEmpty
  <2>2. 1..(Len(log) - m) = {}
    BY <1>1, <1>2
  <2> QED BY <2>1, <2>2
<1>3. CASE m # Len(log)
  <2>1. m + 1 \in 1..Len(log) /\ m \in Nat
    BY <1>1, <1>3
  <2>2. \A i \in (m + 1)..Len(log) : log[i] \in Patches
    BY <1>1, <2>1, ElementOfSeq
  <2> DEFINE new == SubSeq(log, m + 1, Len(log))
  <2>3. /\ Len(new) = Len(log) - m
        /\ new \in Seq(Patches)
        /\ \A i \in 1..(Len(log) - m) : new[i] = log[m + i]
    BY <1>1, <2>1
  <2>4. DOMAIN new = 1..(Len(log) - m)
    BY <2>3, LenProperties
  <2> HIDE DEF new
  <2>5. \A i \in 1..(Len(log) - m) : m + i \in 1..Len(log)
    BY <1>1, <2>1
  <2>6. \A i \in DOMAIN new : m + i \in 1..Len(log) /\ new[i] = log[m + i]
    BY <2>3, <2>4, <2>5
  <2> QED BY <2>4, <2>6 DEF new
<1> QED BY <1>1, <1>2, <1>3

LEMMA PatchesAreApplied ==
    ASSUME NEW img \in PatchedImage, NEW series \in Seq(Patches) \cup {NoSeries},
           NEW good, ~PatchFails(img, series, good)
    PROVE  /\ KollaPatch(img, series, good) \in PatchedImage
           /\ SeriesApplied(img, series, KollaPatch(img, series, good))
<1> DEFINE after == KollaPatch(img, series, good)
           old == img.patched
           log == after.patched
           m   == Len(old)
           new == SubSeq(log, m + 1, Len(log))
<1>1. old \in Seq(Patches) /\ m \in Nat /\ img.applied \in Seq(Patches)
  BY LenProperties DEF PatchedImage
<1>2. CASE series = NoSeries
  <2>1. after = img
    BY <1>2 DEF KollaPatch
  <2>2. Added(img, after) = <<>>
    BY <1>1, <2>1, SubSeqEmpty DEF Added
  <2>3. IsPrefix(old, log) /\ IsInjective(<<>>) /\ Range(<<>>) = {}
    BY <1>1, <2>1 DEF IsPrefix, IsInjective, Range
  <2> QED BY <1>2, <2>1, <2>2, <2>3 DEF SeriesApplied
<1>3. CASE series # NoSeries
  <2> DEFINE full == FullSeries(img, series)
             run  == PatchRun(img, series, good)
  <2>1. series \in Seq(Patches)
    BY <1>3
  <2>2. full \in Seq(Patches) /\ Len(full) \in Nat
        /\ Patching(img, full, Len(full), run)
    BY <2>1, PatchRunFacts
  <2>3. after = [applied |-> full, patched |-> run.log] /\ ~run.failed
    BY <1>3 DEF KollaPatch, PatchFails
  <2> HIDE DEF full, run, after
  <2>4. log \in Seq(Patches) /\ Len(log) \in Nat /\ log = run.log
    BY <2>2, <2>3, LenProperties DEF Patching, PatchRuns
  <2>5. after \in PatchedImage
    BY <2>2, <2>3, <2>4 DEF PatchedImage
  <2>6. /\ m <= Len(log)
        /\ \A i \in 1..m : log[i] = old[i]
        /\ \A i, j \in 1..Len(log) : i < j /\ m < j => log[i] # log[j]
        /\ \A k \in 1..Len(full) : InLog(full[k], log)
    BY <2>2, <2>3, <2>4 DEF Patching
  <2>7. PICK at \in [1..Len(log) -> 0..Len(full)] :
           Increasing(at, log, m) /\ FromLines(at, log, m, full, Len(full))
    BY <2>2, <2>4 DEF Patching
  <2> HIDE DEF log, m, old
  <2>8. m \in 0..Len(log) /\ m \in Nat
    BY <1>1, <2>4, <2>6 DEF m, old
  <2>9. /\ DOMAIN new = 1..(Len(log) - m)
        /\ \A i \in DOMAIN new : /\ m + i \in 1..Len(log)
                                 /\ new[i] = log[m + i] /\ i \in Nat /\ m < m + i
    <3>1. /\ DOMAIN new = 1..(Len(log) - m)
          /\ \A i \in DOMAIN new : m + i \in 1..Len(log) /\ new[i] = log[m + i]
      BY <2>4, <2>8, Beyond
    <3> HIDE DEF new
    <3>2. \A i \in 1..(Len(log) - m) : i \in Nat /\ m < m + i
      BY <2>4, <2>8
    <3> QED BY <3>1, <3>2
  <2> HIDE DEF new
  <2>10. IsPrefix(old, log)
    <3>1. \A i \in 1..m : old[i] \in Patches /\ log[i] \in Patches
      BY <1>1, <2>4, <2>8, ElementOfSeq DEF m, old
    <3>2. SubSeq(old, 1, m) = old
      BY <1>1, SubSeqFull DEF m, old
    <3>3. SubSeq(log, 1, m) = old
      <4>1. SubSeq(log, 1, m) = [i \in 1..m |-> log[i]]
        BY <2>4, <2>8
      <4>2. old = [i \in 1..m |-> old[i]]
        BY <1>1 DEF m, old
      <4> QED BY <2>6, <4>1, <4>2
    <3> QED BY <2>6, <3>2, <3>3 DEF IsPrefix, m
  <2>11. IsInjective(new)
    <3> SUFFICES ASSUME NEW a \in DOMAIN new, NEW b \in DOMAIN new, new[a] = new[b]
                 PROVE  a = b
      BY DEF IsInjective
    <3>1. a \in Int /\ b \in Int /\ m \in Int /\ log[m + a] = log[m + b]
      BY <2>8, <2>9
    <3>2. ~(m + a < m + b) /\ ~(m + b < m + a)
      BY <2>6, <2>9, <3>1
    <3> QED BY <3>1, <3>2
  <2>12. Range(new) \cap Range(old) = {}
    <3>1. ASSUME NEW a \in DOMAIN new, NEW b \in DOMAIN old, new[a] = old[b]
          PROVE  FALSE
      <4>1. b \in 1..m
        BY <1>1, <3>1 DEF m, old
      <4>2. b \in 1..Len(log) /\ b < m + a /\ b \in Int
        BY <2>4, <2>8, <2>9, <4>1
      <4> QED BY <2>6, <2>9, <3>1, <4>1, <4>2
    <3> QED BY <3>1 DEF Range
  <2>13. \A p \in Range(series) : InLog(p, log)
    <3>1. ASSUME NEW k \in 1..Len(series) PROVE InLog(series[k], log)
      <4>1. /\ Len(full) = Len(img.applied) + Len(series)
            /\ full[Len(img.applied) + k] = series[k]
            /\ Len(img.applied) + k \in 1..Len(full)
        BY <1>1, <2>1, <3>1, ConcatProperties, LenProperties DEF full, FullSeries
      <4> QED BY <2>6, <4>1
    <3> QED BY <2>1, <3>1, RangeEquality
  <2>14. ASSUME NEW i \in DOMAIN new, NEW j \in DOMAIN new, i < j
         PROVE  \E k, l \in DOMAIN full :
                   k < l /\ full[k] = new[i] /\ full[l] = new[j]
    <3>1. /\ m + i \in 1..Len(log) /\ m + j \in 1..Len(log)
          /\ m < m + i /\ m < m + j /\ m + i < m + j
          /\ new[i] = log[m + i] /\ new[j] = log[m + j]
      BY <2>8, <2>9, <2>14
    <3>2. /\ at[m + i] \in 1..Len(full) /\ full[at[m + i]] = log[m + i]
          /\ at[m + j] \in 1..Len(full) /\ full[at[m + j]] = log[m + j]
      BY <2>7, <3>1 DEF FromLines
    <3>3. at[m + i] < at[m + j]
      BY <2>7, <3>1 DEF Increasing
    <3>4. DOMAIN full = 1..Len(full)
      BY <2>2, LenProperties
    <3> QED BY <3>1, <3>2, <3>3, <3>4
  <2>15. SeriesApplied(img, series, after)
    <3>1. InOrderOf(new, full)
      BY <2>14 DEF InOrderOf
    <3>2. log = after.patched /\ old = img.patched /\ new = Added(img, after)
      BY DEF new, log, m, old, Added
    <3> QED BY <2>10, <2>11, <2>12, <2>13, <3>1, <3>2 DEF SeriesApplied, full
  <2> QED BY <2>5, <2>15 DEF after
<1> QED BY <1>2, <1>3

-----------------------------------------------------------------------------
(***************************************************************************)
(* Types.                                                                  *)
(***************************************************************************)
\* A series file that is read to its end is one of its beginnings.
LEMMA SeriesFacts ==
    /\ SeriesChoices \subseteq Series
    /\ \A s \in SeriesChoices : Beginnings(s) \subseteq Series
    /\ Series \subseteq Seq(Patches)
<1>1. ASSUME NEW s \in SeriesChoices PROVE s \in Beginnings(s)
  <2>1. s \in Seq(Patches)
    BY WorkDirAssumption
  <2>2. Len(s) \in Nat /\ SubSeq(s, 1, Len(s)) = s
    BY <2>1
  <2>3. Len(s) \in 0..Len(s)
    BY <2>2
  <2> QED BY <2>2, <2>3 DEF Beginnings
<1>2. ASSUME NEW s \in SeriesChoices, NEW n \in 0..Len(s)
      PROVE  SubSeq(s, 1, n) \in Seq(Patches)
  <2>1. s \in Seq(Patches)
    BY WorkDirAssumption
  <2>2. Len(s) \in Nat /\ \A i \in 1..n : i \in 1..Len(s)
    BY <2>1, LenProperties
  <2>3. \A i \in 1..n : s[i] \in Patches
    BY <2>1, <2>2, ElementOfSeq
  <2> QED BY <2>1, <2>2, <2>3
<1>3. Series \subseteq Seq(Patches)
  BY <1>2 DEF Series, Beginnings
<1> QED BY <1>1, <1>3 DEF Series

LEMMA FreshFacts ==
    /\ Fresh \in Directory /\ Fresh.template = None /\ Fresh.series = NoSeries
    /\ Fresh.archive = [s \in Sources |-> None] /\ Fresh.plugins = {}
<1>1. [s \in Sources |-> None] \in [Sources -> File]
  BY DEF File
<1> QED BY <1>1 DEF Fresh, Directory

\* One field of the directory is written, and the others are as they were.
LEMMA DirChange ==
    ASSUME NEW d \in Directory
    PROVE  /\ \A x \in Templates \cup {None} :
                 LET e == [d EXCEPT !.template = x] IN
                 /\ e \in Directory /\ e.template = x
                 /\ e.series = d.series /\ e.archive = d.archive
                 /\ e.plugins = d.plugins
           /\ \A x \in Templates \cup {None, Torn} :
                 LET e == [d EXCEPT !.dockerfile = x] IN
                 /\ e \in Directory /\ e.dockerfile = x /\ e.template = d.template
                 /\ e.series = d.series /\ e.archive = d.archive
                 /\ e.plugins = d.plugins
           /\ \A x \in Series \cup {NoSeries} :
                 LET e == [d EXCEPT !.series = x] IN
                 /\ e \in Directory /\ e.series = x /\ e.template = d.template
                 /\ e.dockerfile = d.dockerfile /\ e.archive = d.archive
                 /\ e.plugins = d.plugins
           /\ \A x \in File, s \in Sources :
                 LET e == [d EXCEPT !.archive[s] = x] IN
                 /\ e \in Directory /\ e.archive = [d.archive EXCEPT ![s] = x]
                 /\ e.template = d.template /\ e.dockerfile = d.dockerfile
                 /\ e.series = d.series /\ e.plugins = d.plugins
           /\ \A x \in SUBSET Extracted :
                 LET e == [d EXCEPT !.plugins = x] IN
                 /\ e \in Directory /\ e.plugins = x /\ e.template = d.template
                 /\ e.dockerfile = d.dockerfile /\ e.series = d.series
                 /\ e.archive = d.archive
           /\ \A x \in (SUBSET Extracted) \cup {None, Torn} :
                 LET e == [d EXCEPT !.packed = x] IN
                 /\ e \in Directory /\ e.packed = x /\ e.template = d.template
                 /\ e.dockerfile = d.dockerfile /\ e.series = d.series
                 /\ e.archive = d.archive /\ e.plugins = d.plugins
           /\ d.plugins \in SUBSET Extracted /\ d.archive \in [Sources -> File]
           /\ d.template \in Templates \cup {None}
BY DEF Directory

\* What is extracted comes from the archives of what is enabled.
LEMMA ArchivesFacts ==
    ASSUME TypeOK
    PROVE  /\ Archives \subseteq Extracted
           /\ \A e \in Archives : /\ e[1] \in Plugins /\ IsOn(conf, e[1])
                                  /\ e = <<e[1], dir.archive[e[1]]>>
           /\ \A p \in Plugins : IsOn(conf, p) => <<p, dir.archive[p]>> \in Archives
BY DirChange DEF Archives, Extracted, TypeOK, Sources

LEMMA AttemptFacts ==
    ASSUME TypeOK, NEW n \in Nat, BeginAttempt(n)
    PROVE  /\ pc' = "main" /\ attempt' = n /\ todo' \subseteq Plugins
           /\ fetched' = [s \in Sources |-> None]
           /\ fetched' \in [Sources -> Tree \cup {None}]
           /\ \A p \in Plugins : IsOn(conf, p) => p \in todo'
<1>1. \A p \in Plugins : IsOn(conf, p) => conf[p] # "absent"
  BY WorkDirAssumption DEF IsOn
<1> QED BY <1>1 DEF BeginAttempt

\* An attempt that fails either begins anew or leaves the directory.
LEMMA FailFacts ==
    ASSUME TypeOK, AttemptFails
    PROVE  \/ /\ attempt' \in 1..Retries /\ BeginAttempt(attempt')
           \/ /\ pc' = "cleanup"
              /\ UNCHANGED <<todo, attempt, fetched>>
<1>1. CASE attempt < Retries
  <2>1. attempt + 1 \in 1..Retries /\ BeginAttempt(attempt + 1)
    BY <1>1, WorkDirAssumption DEF AttemptFails, TypeOK
  <2>2. attempt' = attempt + 1
    BY <2>1 DEF BeginAttempt
  <2> QED BY <2>1, <2>2
<1>2. CASE ~(attempt < Retries)
  BY <1>2 DEF AttemptFails
<1> QED BY <1>1, <1>2

\* The steps, the failures of an attempt together.
Fails ==
    /\ AttemptFails /\ pc \in InAttempt
    /\ UNCHANGED <<work_dir, operator, upstream, image, dir, conf, runs, all,
                   parent>>

LEMMA NextCases ==
    ASSUME [Next]_vars
    PROVE  \/ StartRun \/ SetupWorkingDir \/ CreateDockerfile
           \/ CreatePatchFiles \/ StopEarly \/ StartBuild
           \/ \E s \in Sources : SkipSource(s) \/ Fetch(s)
           \/ Fails \/ SourcesDone \/ Extract \/ Pack \/ EngineBuild \/ Cleanup
           \/ Kill \/ OperatorEdits \/ UpstreamMoves \/ UNCHANGED vars
<1>1. ASSUME NEW s \in Sources, FetchFail(s) PROVE Fails
  BY <1>1 DEF FetchFail, Fetching, IsTurn, Fails, InAttempt
<1>2. ArchivingError \/ EngineFail => Fails
  BY DEF ArchivingError, EngineFail, Fails, InAttempt
<1> QED BY <1>1, <1>2 DEF Next

\* What the engine makes of the parent and of the series in the directory.
LEMMA EnginePatches ==
    ASSUME TypeOK, EngineBuild
    PROVE  image' \in PatchedImage /\ SeriesApplied(parent, dir.series, image')
<1>1. parent \in PatchedImage /\ dir.series \in Seq(Patches) \cup {NoSeries}
  BY SeriesFacts, WorkDirAssumption DEF TypeOK, Directory
<1>2. /\ ~PatchFails(parent, dir.series, Good)
      /\ image' = KollaPatch(parent, dir.series, Good)
  BY DEF EngineBuild
<1> QED BY <1>1, <1>2, PatchesAreApplied

LEMMA DirTypeStep ==
    ASSUME TypeOK, [Next]_vars
    PROVE  TypeOK'
<1>1. CASE StartRun
  <2>1. runs' \in 0..MaxRuns
    BY <1>1, WorkDirAssumption DEF StartRun, TypeOK
  <2> QED BY <1>1, <2>1, FreshFacts DEF StartRun, Go, TypeOK, operator
<1>2. CASE SetupWorkingDir
  <2>1. dir' \in Directory
    BY <1>2, DirChange DEF SetupWorkingDir, TypeOK
  <2> QED BY <1>2, <2>1 DEF SetupWorkingDir, Go, TypeOK, operator
<1>3. CASE CreateDockerfile
  <2>1. dir' \in Directory
    BY <1>3, DirChange DEF CreateDockerfile, TypeOK
  <2> QED BY <1>3, <2>1 DEF CreateDockerfile, TypeOK, operator
<1>4. CASE CreatePatchFiles
  <2>1. dir' \in Directory
    <3>1. dir' = [dir EXCEPT !.series = IF patches = NoSeries THEN dir.series
                                                              ELSE patches]
      BY <1>4 DEF CreatePatchFiles
    <3>2. dir.series \in Series \cup {NoSeries}
      BY DEF TypeOK, Directory
    <3> QED BY <3>1, <3>2, DirChange, SeriesFacts DEF TypeOK
  <2> QED BY <1>4, <2>1 DEF CreatePatchFiles, Go, TypeOK, operator
<1>5. CASE StopEarly
  BY <1>5, FreshFacts DEF StopEarly, Go, TypeOK, operator
<1>6. CASE StartBuild
  BY <1>6, AttemptFacts, WorkDirAssumption DEF StartBuild, TypeOK, operator
<1>7. ASSUME NEW s \in Sources, SkipSource(s) PROVE TypeOK'
  BY <1>7 DEF SkipSource, NextSource, TypeOK, operator
<1>8. ASSUME NEW s \in Sources, Fetch(s) PROVE TypeOK'
  <2>1. <<conf[s], upstream>> \in Tree
    BY <1>8 DEF Fetch, Fetching, IsOn, Tree, TypeOK
  <2>2. dir' \in Directory
    BY <1>8, <2>1, DirChange DEF Fetch, TypeOK, File
  <2>3. /\ fetched' \in [Sources -> Tree \cup {None}]
        /\ all' \subseteq Sources \X Tree
    BY <1>8, <2>1 DEF Fetch, TypeOK
  <2> QED BY <1>8, <2>2, <2>3 DEF Fetch, NextSource, TypeOK, operator
<1>9. CASE Fails
  <2>1. ASSUME NEW n \in 0..Retries, BeginAttempt(n) PROVE TypeOK'
    BY <1>9, <2>1, AttemptFacts DEF Fails, TypeOK, operator
  <2>2. CASE pc' = "cleanup" /\ UNCHANGED <<todo, attempt, fetched>>
    BY <1>9, <2>2 DEF Fails, TypeOK, operator
  <2> QED BY <1>9, <2>1, <2>2, FailFacts DEF Fails
<1>10. CASE SourcesDone
  BY <1>10 DEF SourcesDone, Go, TypeOK, operator
<1>11. CASE Extract
  <2>1. dir' \in Directory
    BY <1>11, DirChange, ArchivesFacts DEF Extract, TypeOK
  <2> QED BY <1>11, <2>1 DEF Extract, Go, TypeOK, operator
<1>12. CASE Pack
  <2>1. dir' \in Directory
    BY <1>12, DirChange DEF Pack, TypeOK
  <2> QED BY <1>12, <2>1 DEF Pack, Go, TypeOK, operator
<1>13. CASE EngineBuild
  <2>1. image' \in PatchedImage
    BY <1>13, EnginePatches
  <2> QED BY <1>13, <2>1 DEF EngineBuild, Go, TypeOK, operator
<1>14. CASE Cleanup
  BY <1>14, FreshFacts DEF Cleanup, Go, TypeOK, operator
<1>15. CASE Kill
  <2>1. TornDirs \subseteq Directory
    <3>1. {[dir EXCEPT !.dockerfile = Torn]} \subseteq Directory
      BY DirChange DEF TypeOK
    <3>2. patches # NoSeries =>
             {[dir EXCEPT !.series = s] : s \in Beginnings(patches)} \subseteq Directory
      BY DirChange, SeriesFacts DEF TypeOK
    <3>3. {[dir EXCEPT !.archive[s] = Torn] :
             s \in {x \in Sources : Fetching(x)}} \subseteq Directory
      BY DirChange DEF TypeOK, File
    <3>4. {[dir EXCEPT !.plugins = dir.plugins \cup A] : A \in SUBSET Archives}
             \subseteq Directory
      <4>1. \A A \in SUBSET Archives : dir.plugins \cup A \in SUBSET Extracted
        BY DirChange, ArchivesFacts DEF TypeOK
      <4>2. \A x \in SUBSET Extracted : [dir EXCEPT !.plugins = x] \in Directory
        BY DirChange DEF TypeOK
      <4> QED BY <4>1, <4>2
    <3>5. {[dir EXCEPT !.packed = Torn]} \subseteq Directory
      BY DirChange DEF TypeOK
    <3> QED BY <3>1, <3>2, <3>3, <3>4, <3>5 DEF TornDirs, TypeOK
  <2> QED BY <1>15, <2>1 DEF Kill, TypeOK, operator
<1>16. CASE OperatorEdits
  BY <1>16 DEF OperatorEdits, TypeOK
<1>17. CASE UpstreamMoves
  BY <1>17, WorkDirAssumption DEF UpstreamMoves, Versions, TypeOK, operator
<1>18. CASE UNCHANGED vars
  BY <1>18 DEF vars, operator, TypeOK
<1> QED BY <1>1, <1>2, <1>3, <1>4, <1>5, <1>6, <1>7, <1>8, <1>9, <1>10, <1>11,
           <1>12, <1>13, <1>14, <1>15, <1>16, <1>17, <1>18, NextCases

-----------------------------------------------------------------------------
(***************************************************************************)
(* The files of the image.                                                 *)
(***************************************************************************)
LEMMA FilesStep ==
    ASSUME DirInv, [Next]_vars
    PROVE  FilesAreCurrent'
<1> USE DEF DirInv, FilesAreCurrent, Copied, Rendered, Patched, InAttempt
<1>1. CASE StartRun \/ StopEarly \/ Cleanup \/ Kill
  BY <1>1 DEF StartRun, StopEarly, Cleanup, Kill, Go
<1>2. CASE SetupWorkingDir
  <2>1. template # None => dir'.template = template
    BY <1>2, DirChange DEF SetupWorkingDir, TypeOK
  <2> QED BY <1>2, <2>1 DEF SetupWorkingDir, Go, operator
<1>3. CASE CreateDockerfile
  <2>1. CASE dir.template = None
    BY <1>3, <2>1 DEF CreateDockerfile
  <2>2. CASE dir.template # None
    <3>1. /\ pc = "render" /\ pc' = "patch"
          /\ dir' = [dir EXCEPT !.dockerfile = dir.template]
          /\ template' = template
      BY <1>3, <2>2 DEF CreateDockerfile, operator
    <3>2. dir'.dockerfile = dir.template /\ dir'.template = dir.template
      BY <3>1, DirChange DEF TypeOK
    <3> QED BY <2>2, <3>1, <3>2
  <2> QED BY <2>1, <2>2
<1>4. CASE CreatePatchFiles
  <2>1. /\ pc = "patch" /\ pc' = "ready" /\ UNCHANGED <<template, patches>>
        /\ dir' = [dir EXCEPT !.series = IF patches = NoSeries THEN dir.series
                                                               ELSE patches]
    BY <1>4 DEF CreatePatchFiles, Go, operator
  <2>2. dir.series \in Series \cup {NoSeries}
    BY DEF TypeOK, Directory
  <2>3. /\ dir'.template = dir.template /\ dir'.dockerfile = dir.dockerfile
        /\ patches # NoSeries => dir'.series = patches
    BY <2>1, <2>2, DirChange, SeriesFacts DEF TypeOK
  <2> QED BY <2>1, <2>3
<1>5. ASSUME /\ UNCHANGED <<template, patches>>
             /\ dir'.template = dir.template /\ dir'.dockerfile = dir.dockerfile
             /\ dir'.series = dir.series
             /\ pc \in Patched /\ pc' \in Patched \cup {"cleanup"}
      PROVE  FilesAreCurrent'
  BY <1>5
<1>6. CASE StartBuild
  BY <1>5, <1>6 DEF StartBuild, BeginAttempt, operator
<1>7. ASSUME NEW s \in Sources, SkipSource(s) PROVE FilesAreCurrent'
  BY <1>5, <1>7 DEF SkipSource, IsTurn, NextSource, operator
<1>8. ASSUME NEW s \in Sources, Fetch(s) PROVE FilesAreCurrent'
  <2>1. <<conf[s], upstream>> \in File
    BY <1>8 DEF Fetch, Fetching, IsOn, Tree, File, TypeOK
  <2> QED BY <1>5, <1>8, <2>1, DirChange
          DEF Fetch, Fetching, IsTurn, NextSource, operator, TypeOK
<1>9. CASE Fails
  <2>1. pc' \in {"main", "cleanup"}
    BY <1>9, FailFacts DEF Fails, BeginAttempt
  <2> QED BY <1>5, <1>9, <2>1 DEF Fails, operator
<1>10. CASE SourcesDone \/ EngineBuild
  BY <1>5, <1>10 DEF SourcesDone, EngineBuild, Go, operator
<1>11. CASE Extract
  BY <1>5, <1>11, DirChange, ArchivesFacts DEF Extract, Go, operator, TypeOK
<1>12. CASE Pack
  BY <1>5, <1>12, DirChange DEF Pack, Go, operator, TypeOK
<1>13. CASE OperatorEdits
  BY <1>13 DEF OperatorEdits
<1>14. CASE UpstreamMoves \/ UNCHANGED vars
  BY <1>14 DEF UpstreamMoves, vars, operator
<1> QED BY <1>1, <1>2, <1>3, <1>4, <1>6, <1>7, <1>8, <1>9, <1>10, <1>11, <1>12,
           <1>13, <1>14, NextCases

-----------------------------------------------------------------------------
(***************************************************************************)
(* The sources.                                                            *)
(***************************************************************************)
\* One source is fetched.
LEMMA FetchFacts ==
    ASSUME TypeOK, NEW s \in Sources, Fetch(s)
    PROVE  LET tree == <<conf[s], upstream>> IN
           /\ tree \in Tree /\ tree # None
           /\ fetched'[s] = tree /\ dir'.archive[s] = tree
           /\ \A x \in Sources : x # s => /\ fetched'[x] = fetched[x]
                                          /\ dir'.archive[x] = dir.archive[x]
           /\ all' = all \cup {<<s, tree>>}
           /\ dir'.template = dir.template /\ dir'.dockerfile = dir.dockerfile
           /\ dir'.series = dir.series /\ dir'.plugins = dir.plugins
           /\ IsOn(conf, s)
           /\ (s = Main /\ pc = "main") \/ (pc = "plugins" /\ s \in todo)
<1> DEFINE tree == <<conf[s], upstream>>
<1>1. tree \in Tree /\ tree \in File /\ tree # None
  BY WorkDirAssumption DEF Fetch, Fetching, IsOn, Tree, File, TypeOK
<1>2. /\ dir' = [dir EXCEPT !.archive[s] = tree]
      /\ fetched' = [fetched EXCEPT ![s] = tree]
      /\ all' = all \cup {<<s, tree>>}
      /\ IsOn(conf, s) /\ IsTurn(s)
  BY DEF Fetch, Fetching
<1>3. dir.archive \in [Sources -> File]
  BY DirChange DEF TypeOK
<1>4. /\ dir'.archive = [dir.archive EXCEPT ![s] = tree]
      /\ dir'.template = dir.template /\ dir'.dockerfile = dir.dockerfile
      /\ dir'.series = dir.series /\ dir'.plugins = dir.plugins
  BY <1>1, <1>2, DirChange DEF TypeOK
<1>5. fetched \in [Sources -> Tree \cup {None}]
  BY DEF TypeOK
<1> HIDE DEF tree
<1>6. fetched'[s] = tree /\ dir'.archive[s] = tree
      /\ \A x \in Sources : x # s => /\ fetched'[x] = fetched[x]
                                     /\ dir'.archive[x] = dir.archive[x]
  BY <1>2, <1>3, <1>4, <1>5
<1> QED BY <1>1, <1>2, <1>4, <1>6 DEF IsTurn, tree

\* The steps that leave the attempt, and those that do not touch it.
LEMMA AttemptSteps ==
    ASSUME [Next]_vars
    PROVE  \/ pc' \notin InAttempt
           \/ StartBuild \/ Fails \/ SourcesDone \/ Extract \/ Pack
           \/ \E s \in Sources : SkipSource(s) \/ Fetch(s)
           \/ UNCHANGED <<work_dir, template, patches, dir, pc, conf, todo,
                          attempt, fetched, all>>
<1>1. CASE StartRun \/ SetupWorkingDir \/ CreateDockerfile \/ CreatePatchFiles
           \/ StopEarly \/ EngineBuild \/ Cleanup \/ Kill \/ OperatorEdits
  BY <1>1 DEF StartRun, SetupWorkingDir, CreateDockerfile, CreatePatchFiles,
              StopEarly, EngineBuild, Cleanup, Kill, OperatorEdits, Go, InAttempt
<1>2. CASE UpstreamMoves \/ UNCHANGED vars
  BY <1>2 DEF UpstreamMoves, vars, operator
<1> QED BY <1>1, <1>2, NextCases

\* A new attempt has fetched nothing yet.
LEMMA SourcesBegin ==
    ASSUME TypeOK, NEW n \in Nat, BeginAttempt(n), conf' = conf
    PROVE  SourcesAreCurrent'
BY AttemptFacts DEF SourcesAreCurrent, InAttempt, IsOn, Sources

LEMMA SourcesStep ==
    ASSUME DirInv, [Next]_vars
    PROVE  SourcesAreCurrent'
<1> USE DEF DirInv
<1>1. CASE pc' \notin InAttempt
  BY <1>1 DEF SourcesAreCurrent, InAttempt
<1>2. CASE StartBuild
  BY <1>2, SourcesBegin DEF StartBuild
<1>3. CASE Fails
  <2>1. CASE pc' = "cleanup"
    BY <1>1, <2>1 DEF InAttempt
  <2>2. CASE attempt' \in Nat /\ BeginAttempt(attempt')
    BY <1>3, <2>2, SourcesBegin DEF Fails
  <2> QED BY <1>3, <2>1, <2>2, FailFacts DEF Fails
<1>4. ASSUME NEW s \in Sources, SkipSource(s) PROVE SourcesAreCurrent'
  <2>1. /\ pc' = "plugins" /\ todo' = todo \ {s} /\ ~IsOn(conf, s)
        /\ UNCHANGED <<dir, conf, fetched>>
        /\ (s = Main /\ pc = "main") \/ (pc = "plugins" /\ s \in todo)
    BY <1>4 DEF SkipSource, NextSource, IsTurn
  <2>2. \A x \in Sources : fetched[x] # None => dir.archive[x] = fetched[x]
    BY <2>1 DEF SourcesAreCurrent, InAttempt
  <2>3. IsOn(conf, Main) => fetched[Main] # None
    BY <2>1 DEF SourcesAreCurrent, InAttempt
  <2>4. \A p \in Plugins : IsOn(conf, p) => fetched[p] # None \/ p \in todo
    BY <2>1 DEF SourcesAreCurrent, InAttempt
  <2>5. \A p \in Plugins : IsOn(conf, p) => fetched[p] # None \/ p \in todo'
    BY <2>1, <2>4
  <2> QED BY <2>1, <2>2, <2>3, <2>5 DEF SourcesAreCurrent, InAttempt, IsOn
<1>5. ASSUME NEW s \in Sources, Fetch(s) PROVE SourcesAreCurrent'
  <2>1. /\ pc' = "plugins" /\ todo' = todo \ {s} /\ conf' = conf
        /\ (s = Main /\ pc = "main") \/ (pc = "plugins" /\ s \in todo)
    BY <1>5, FetchFacts DEF Fetch, NextSource, Fetching, IsTurn
  <2>2. /\ fetched'[s] # None /\ dir'.archive[s] = fetched'[s]
        /\ \A x \in Sources : x # s => /\ fetched'[x] = fetched[x]
                                       /\ dir'.archive[x] = dir.archive[x]
    BY <1>5, FetchFacts
  <2>3. \A x \in Sources : fetched'[x] # None => dir'.archive[x] = fetched'[x]
    BY <2>1, <2>2 DEF SourcesAreCurrent, InAttempt
  <2>4. IsOn(conf, Main) => fetched'[Main] # None
    BY <2>1, <2>2 DEF SourcesAreCurrent, InAttempt, Sources
  <2>5. \A p \in Plugins : IsOn(conf, p) => fetched[p] # None \/ p \in todo
    BY <2>1 DEF SourcesAreCurrent, InAttempt
  <2>6. \A p \in Plugins : IsOn(conf, p) => fetched'[p] # None \/ p \in todo'
    BY <2>1, <2>2, <2>5 DEF Sources
  <2> QED BY <2>1, <2>3, <2>4, <2>6 DEF SourcesAreCurrent, InAttempt, IsOn
<1>6. CASE SourcesDone
  BY <1>6 DEF SourcesDone, Go, SourcesAreCurrent, InAttempt, IsOn
<1>7. CASE Extract
  <2>1. /\ pc = "extract" /\ pc' = "pack" /\ UNCHANGED <<conf, fetched>>
        /\ dir' = [dir EXCEPT !.plugins = dir.plugins \cup Archives]
    BY <1>7 DEF Extract, Go
  <2>2. /\ dir'.plugins = dir.plugins \cup Archives
        /\ dir'.archive = dir.archive
    BY <2>1, DirChange, ArchivesFacts DEF TypeOK
  <2>3. \A p \in Plugins : IsOn(conf, p) =>
           fetched[p] # None /\ dir.archive[p] = fetched[p]
    BY <2>1 DEF SourcesAreCurrent, InAttempt, Sources
  <2>4. \A p \in Plugins : IsOn(conf, p) => <<p, fetched[p]>> \in dir'.plugins
    BY <2>2, <2>3, ArchivesFacts
  <2> QED BY <2>1, <2>2, <2>3, <2>4 DEF SourcesAreCurrent, InAttempt, IsOn
<1>8. CASE Pack
  <2>1. /\ pc = "pack" /\ pc' = "engine" /\ UNCHANGED <<conf, fetched>>
        /\ dir' = [dir EXCEPT !.packed = dir.plugins]
    BY <1>8 DEF Pack, Go
  <2>2. /\ dir'.packed = dir.plugins /\ dir'.plugins = dir.plugins
        /\ dir'.archive = dir.archive
    BY <2>1, DirChange DEF TypeOK
  <2> QED BY <2>1, <2>2 DEF SourcesAreCurrent, InAttempt, IsOn
<1>9. CASE UNCHANGED <<work_dir, template, patches, dir, pc, conf, todo,
                       attempt, fetched, all>>
  BY <1>9 DEF SourcesAreCurrent, InAttempt, IsOn
<1> QED BY <1>1, <1>2, <1>3, <1>4, <1>5, <1>6, <1>7, <1>8, <1>9, AttemptSteps

-----------------------------------------------------------------------------
(***************************************************************************)
(* What is in a temporary directory.                                       *)
(***************************************************************************)
LEMMA OnlyOursStep ==
    ASSUME DirInv, [Next]_vars
    PROVE  OnlyOurs'
<1> USE DEF DirInv
<1>1. work_dir' = work_dir
  BY NextCases
     DEF StartRun, SetupWorkingDir, CreateDockerfile, CreatePatchFiles,
         StopEarly, StartBuild, SkipSource, Fetch, Fails, SourcesDone, Extract,
         Pack, EngineBuild, Cleanup, Kill, OperatorEdits, UpstreamMoves, vars
<1>2. CASE work_dir
  BY <1>1, <1>2 DEF OnlyOurs
<1>3. CASE pc' \in {"idle", "cleanup"}
  BY <1>3 DEF OnlyOurs, Copied, Rendered, Patched, InAttempt
<1> SUFFICES ASSUME ~work_dir PROVE OnlyOurs'
  BY <1>2
<1>4. CASE StartRun
  BY <1>4, FreshFacts DEF StartRun, Go, OnlyOurs, Copied, Rendered, Patched, InAttempt
<1>5. CASE SetupWorkingDir
  <2>1. /\ pc = "copy" /\ pc' = "render" /\ template' = template
        /\ dir' = [dir EXCEPT !.template = IF template = None THEN dir.template
                                                              ELSE template]
    BY <1>5 DEF SetupWorkingDir, Go, operator
  <2>2. dir = Fresh
    BY <2>1 DEF OnlyOurs
  <2>3. /\ dir'.template = template /\ dir'.series = NoSeries
        /\ dir'.archive = [s \in Sources |-> None] /\ dir'.plugins = {}
    BY <2>1, <2>2, FreshFacts, DirChange DEF TypeOK
  <2> QED BY <2>1, <2>3 DEF OnlyOurs, Copied, Rendered, Patched, InAttempt
<1>6. CASE CreateDockerfile
  <2>1. CASE dir.template = None
    BY <1>3, <1>6, <2>1 DEF CreateDockerfile
  <2>2. CASE dir.template # None
    <3>1. /\ pc = "render" /\ pc' = "patch" /\ template' = template
          /\ dir' = [dir EXCEPT !.dockerfile = dir.template]
      BY <1>6, <2>2 DEF CreateDockerfile, operator
    <3>2. /\ dir'.template = dir.template /\ dir'.series = dir.series
          /\ dir'.archive = dir.archive /\ dir'.plugins = dir.plugins
      BY <3>1, DirChange DEF TypeOK
    <3> QED BY <3>1, <3>2 DEF OnlyOurs, Copied, Rendered, Patched, InAttempt
  <2> QED BY <2>1, <2>2
<1>7. CASE CreatePatchFiles
  <2>1. /\ pc = "patch" /\ pc' = "ready" /\ UNCHANGED <<template, patches>>
        /\ dir' = [dir EXCEPT !.series = IF patches = NoSeries THEN dir.series
                                                               ELSE patches]
    BY <1>7 DEF CreatePatchFiles, Go, operator
  <2>2. dir.series = NoSeries
    BY <2>1 DEF OnlyOurs
  <2>3. /\ dir'.template = dir.template /\ dir'.series = patches
        /\ dir'.archive = dir.archive /\ dir'.plugins = dir.plugins
    BY <2>1, <2>2, DirChange, SeriesFacts DEF TypeOK
  <2> QED BY <2>1, <2>3 DEF OnlyOurs, Copied, Rendered, Patched, InAttempt
<1>8. CASE StartBuild
  <2>1. /\ pc = "ready" /\ pc' = "main"
        /\ UNCHANGED <<template, patches, dir, conf, all>>
    BY <1>8 DEF StartBuild, BeginAttempt, operator
  <2>2. /\ dir.archive = [s \in Sources |-> None] /\ dir.plugins = {}
        /\ dir.template = template /\ dir.series = patches
    BY <2>1 DEF OnlyOurs, Copied, Rendered, Patched
  <2> QED BY <2>1, <2>2 DEF OnlyOurs, Copied, Rendered, Patched, InAttempt
<1>9. ASSUME NEW s \in Sources, SkipSource(s) PROVE OnlyOurs'
  <2>1. /\ pc \in {"main", "plugins"} /\ pc' = "plugins"
        /\ UNCHANGED <<template, patches, dir, conf, attempt, all>>
    BY <1>9 DEF SkipSource, IsTurn, NextSource, operator
  <2> QED BY <2>1 DEF OnlyOurs, Copied, Rendered, Patched, InAttempt, IsOn
<1>10. ASSUME NEW s \in Sources, Fetch(s) PROVE OnlyOurs'
  <2> DEFINE tree == <<conf[s], upstream>>
  <2>1. /\ pc \in {"main", "plugins"} /\ pc' = "plugins"
        /\ UNCHANGED <<template, patches, conf, attempt>>
    BY <1>10 DEF Fetch, Fetching, IsTurn, NextSource, operator
  <2>2. /\ IsOn(conf, s) /\ dir'.archive[s] = tree
        /\ \A x \in Sources : x # s => dir'.archive[x] = dir.archive[x]
        /\ all' = all \cup {<<s, tree>>}
        /\ dir'.template = dir.template /\ dir'.series = dir.series
        /\ dir'.plugins = dir.plugins
    BY <1>10, FetchFacts
  <2> HIDE DEF tree
  <2>3. /\ dir.template = template /\ dir.series = patches
        /\ \A x \in Sources : dir.archive[x] # None =>
              IsOn(conf, x) /\ <<x, dir.archive[x]>> \in all
        /\ \A e \in dir.plugins : IsOn(conf, e[1]) /\ e \in all
        /\ attempt = 0 => dir.plugins = {}
    BY <2>1 DEF OnlyOurs, Copied, Rendered, Patched, InAttempt
  <2>4. \A x \in Sources : dir'.archive[x] # None =>
           IsOn(conf, x) /\ <<x, dir'.archive[x]>> \in all'
    BY <2>2, <2>3
  <2> QED BY <2>1, <2>2, <2>3, <2>4
          DEF OnlyOurs, Copied, Rendered, Patched, InAttempt, IsOn
<1>11. CASE Fails
  <2>1. CASE pc' = "cleanup"
    BY <1>3, <2>1
  <2>2. CASE attempt' > 0 /\ attempt' \in Nat /\ BeginAttempt(attempt')
    <3>1. /\ pc \in InAttempt /\ pc' = "main" /\ attempt' # 0
          /\ UNCHANGED <<template, patches, dir, conf, all>>
      BY <1>11, <2>2 DEF Fails, BeginAttempt, operator
    <3> QED BY <3>1 DEF OnlyOurs, Copied, Rendered, Patched, InAttempt, IsOn
  <2> QED BY <1>11, <2>1, <2>2, FailFacts DEF Fails
<1>12. CASE SourcesDone
  BY <1>12 DEF SourcesDone, Go, operator, OnlyOurs, Copied, Rendered, Patched,
               InAttempt, IsOn
<1>13. CASE Extract
  <2>1. /\ pc = "extract" /\ pc' = "pack"
        /\ UNCHANGED <<template, patches, conf, attempt, fetched, all>>
        /\ dir' = [dir EXCEPT !.plugins = dir.plugins \cup Archives]
    BY <1>13 DEF Extract, Go, operator
  <2>2. /\ dir'.plugins = dir.plugins \cup Archives
        /\ dir'.archive = dir.archive /\ dir'.template = dir.template
        /\ dir'.series = dir.series
    BY <2>1, DirChange, ArchivesFacts DEF TypeOK
  <2>3. /\ dir.template = template /\ dir.series = patches
        /\ \A x \in Sources : dir.archive[x] # None =>
              IsOn(conf, x) /\ <<x, dir.archive[x]>> \in all
        /\ \A e \in dir.plugins : IsOn(conf, e[1]) /\ e \in all
        /\ attempt = 0 => dir.plugins = {}
    BY <2>1 DEF OnlyOurs, Copied, Rendered, Patched, InAttempt
  <2>4. ASSUME NEW e \in Archives
        PROVE  /\ IsOn(conf, e[1]) /\ e \in all /\ e[2] = fetched[e[1]]
    <3>1. /\ e[1] \in Plugins /\ IsOn(conf, e[1])
          /\ e = <<e[1], dir.archive[e[1]]>>
      BY ArchivesFacts
    <3>2. /\ fetched[e[1]] # None /\ dir.archive[e[1]] = fetched[e[1]]
      BY <2>1, <3>1 DEF SourcesAreCurrent, InAttempt, Sources
    <3> QED BY <2>3, <3>1, <3>2 DEF Sources
  <2>5. /\ \A e \in dir'.plugins : IsOn(conf, e[1]) /\ e \in all
        /\ attempt = 0 => \A e \in dir'.plugins : e[2] = fetched[e[1]]
    BY <2>2, <2>3, <2>4
  <2> QED BY <2>1, <2>2, <2>3, <2>5
          DEF OnlyOurs, Copied, Rendered, Patched, InAttempt, IsOn
<1>14. CASE Pack
  <2>1. /\ pc = "pack" /\ pc' = "engine"
        /\ UNCHANGED <<template, patches, conf, attempt, fetched, all>>
        /\ dir' = [dir EXCEPT !.packed = dir.plugins]
    BY <1>14 DEF Pack, Go, operator
  <2>2. /\ dir'.plugins = dir.plugins
        /\ dir'.archive = dir.archive /\ dir'.template = dir.template
        /\ dir'.series = dir.series
    BY <2>1, DirChange DEF TypeOK
  <2> QED BY <2>1, <2>2 DEF OnlyOurs, Copied, Rendered, Patched, InAttempt, IsOn
<1>15. CASE StopEarly \/ EngineBuild \/ Cleanup \/ Kill \/ OperatorEdits
  BY <1>3, <1>15 DEF StopEarly, EngineBuild, Cleanup, Kill, OperatorEdits, Go
<1>16. CASE UpstreamMoves \/ UNCHANGED vars
  BY <1>16 DEF UpstreamMoves, vars, operator, OnlyOurs, Copied, Rendered,
               Patched, InAttempt, IsOn
<1> QED BY <1>4, <1>5, <1>6, <1>7, <1>8, <1>9, <1>10, <1>11, <1>12, <1>13,
           <1>14, <1>15, <1>16, NextCases

-----------------------------------------------------------------------------
(***************************************************************************)
(* The theorems.                                                           *)
(***************************************************************************)
LEMMA DirInit == Init => DirInv
<1> SUFFICES ASSUME Init PROVE DirInv
  OBVIOUS
<1>1. TypeOK
  BY FreshFacts, WorkDirAssumption DEF Init, TypeOK, Versions
<1> QED BY <1>1 DEF Init, DirInv, FilesAreCurrent, SourcesAreCurrent, OnlyOurs,
                    Copied, Rendered, Patched, InAttempt

\* The directory, the image and what a run of kolla-build knows keep their
\* types; that of the image is a fact about what kolla_patch leaves.
THEOREM DirTypesCorrect == Spec => []TypeOK
<1>1. Init => TypeOK
  BY DirInit DEF DirInv
<1>2. TypeOK /\ [Next]_vars => TypeOK'
  BY DirTypeStep
<1> QED BY <1>1, <1>2, PTL DEF Spec

\* The directory is always that of the present run, as far as the run has
\* come, whatever earlier attempts and runs left in it.
LEMMA DirInvAlways == Spec => []DirInv
<1>1. DirInv /\ [Next]_vars => DirInv'
  <2> SUFFICES ASSUME DirInv, [Next]_vars PROVE DirInv'
    OBVIOUS
  <2>1. TypeOK'
    BY DirTypeStep DEF DirInv
  <2> QED BY <2>1, FilesStep, SourcesStep, OnlyOursStep DEF DirInv
<1> QED BY <1>1, DirInit, PTL DEF Spec

\* The engine gets the present template and patches and the trees fetched in
\* this attempt (KollaWorker and BuildTask, --work-dir or not).
THEOREM EngineGetsCurrent == Spec => []ContextIsCurrent
<1>1. DirInv => ContextIsCurrent
  <2> SUFFICES ASSUME DirInv, pc = "engine" PROVE ContextIsCurrent
    BY DEF ContextIsCurrent
  <2>1. /\ dir.dockerfile = dir.template
        /\ template # None => dir.template = template
    BY DEF DirInv, FilesAreCurrent, Copied, Rendered, Patched, InAttempt
  <2>2. patches # NoSeries => dir.series = patches
    BY DEF DirInv, FilesAreCurrent, Patched, InAttempt
  <2>3. IsOn(conf, Main) => fetched[Main] # None /\ dir.archive[Main] = fetched[Main]
    BY DEF DirInv, SourcesAreCurrent, InAttempt, Sources
  <2>4. \A p \in Plugins : IsOn(conf, p) =>
           fetched[p] # None /\ <<p, fetched[p]>> \in dir.packed
    BY DEF DirInv, SourcesAreCurrent, InAttempt, Sources
  <2> QED BY <2>1, <2>2, <2>3, <2>4 DEF ContextIsCurrent
<1> QED BY <1>1, DirInvAlways, PTL

\* What the engine built (BuildTask.builder) is the parent with the series in
\* the directory applied: every patch once, in order, none of those the log of
\* the parent names (kolla_patch.sh), however long the series and whichever
\* patches apply.
THEOREM ImagesArePatched == Spec => ImageIsPatched
<1>1. TypeOK => (EngineBuild => SeriesApplied(parent, dir.series, image'))
  BY EnginePatches
<1> QED BY <1>1, DirTypesCorrect, PTL DEF ImageIsPatched

\* A temporary directory brings the engine nothing that this run did not
\* configure and fetch (mkdtemp in KollaWorker.setup_working_dir).
THEOREM OnlyOursIsBuilt == Spec => []NothingForeign
<1>1. DirInv => NothingForeign
  <2> SUFFICES ASSUME DirInv, pc = "engine", ~work_dir PROVE NothingForeign
    BY DEF NothingForeign
  <2>1. template # None /\ dir.series = patches
    BY DEF DirInv, FilesAreCurrent, OnlyOurs, Copied, Rendered, Patched, InAttempt
  <2>2. ~IsOn(conf, Main) => dir.archive[Main] = None
    BY DEF DirInv, OnlyOurs, InAttempt, Sources
  <2>3. dir.packed = dir.plugins
    BY DEF DirInv, SourcesAreCurrent
  <2>4. /\ \A e \in dir.plugins : IsOn(conf, e[1]) /\ e \in all
        /\ attempt = 0 => \A e \in dir.plugins : e[2] = fetched[e[1]]
    BY DEF DirInv, OnlyOurs, InAttempt
  <2> QED BY <2>1, <2>2, <2>3, <2>4 DEF NothingForeign
<1> QED BY <1>1, DirInvAlways, PTL
=============================================================================
