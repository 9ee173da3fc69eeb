------------------------- MODULE ImageFilterProofs --------------------------
(***************************************************************************)
(* Proofs about KollaWorker.filter_images, for any forest of images, any   *)
(* options and any order in which its three loops take the images: what it *)
(* computes is the declarative reading of the options.                     *)
(***************************************************************************)
EXTENDS ImageFilter, TLAPS

-----------------------------------------------------------------------------
(***************************************************************************)
(* Climbing to the root.                                                   *)
(***************************************************************************)
LEMMA ClimbFacts ==
    ASSUME NEW i \in Images, NEW stop
    PROVE  /\ ClimbUntil(i, stop) \subseteq Images
           /\ i \in ClimbUntil(i, stop)
           /\ ClosedUp(ClimbUntil(i, stop), stop)
<1>1. ClimbUntil(i, stop) \subseteq Images /\ i \in ClimbUntil(i, stop)
  BY DEF ClimbUntil
<1>2. ASSUME NEW j \in ClimbUntil(i, stop), Parent[j] \in Images \ stop
      PROVE  Parent[j] \in ClimbUntil(i, stop)
  <2>1. ASSUME NEW S \in SUBSET Images, i \in S, ClosedUp(S, stop)
        PROVE  Parent[j] \in S
    <3>1. j \in S
      BY <2>1 DEF ClimbUntil
    <3> QED BY <1>2, <2>1, <3>1 DEF ClosedUp
  <2> QED BY <1>2, <2>1 DEF ClimbUntil
<1> QED BY <1>1, <1>2 DEF ClosedUp

LEMMA ClimbIsLeast ==
    ASSUME NEW i \in Images, NEW stop, NEW S \in SUBSET Images,
           i \in S, ClosedUp(S, stop)
    PROVE  ClimbUntil(i, stop) \subseteq S
BY DEF ClimbUntil

\* A climb that stops early is a part of the whole.
LEMMA ClimbInLineage ==
    ASSUME NEW i \in Images, NEW stop
    PROVE  ClimbUntil(i, stop) \subseteq Lineage(i)
<1>1. /\ Lineage(i) \in SUBSET Images /\ i \in Lineage(i)
      /\ ClosedUp(Lineage(i), {})
  BY ClimbFacts DEF Lineage
<1>2. ClosedUp(Lineage(i), stop)
  BY <1>1 DEF ClosedUp
<1> QED BY <1>1, <1>2, ClimbIsLeast

LEMMA LineageFacts ==
    ASSUME NEW i \in Images
    PROVE  /\ Lineage(i) \subseteq Images /\ i \in Lineage(i)
           /\ \A a \in Lineage(i) : /\ Lineage(a) \subseteq Lineage(i)
                                    /\ Parent[a] \in Images =>
                                          Parent[a] \in Lineage(i)
<1>1. /\ Lineage(i) \in SUBSET Images /\ i \in Lineage(i)
      /\ ClosedUp(Lineage(i), {})
  BY ClimbFacts DEF Lineage
<1>2. ASSUME NEW a \in Lineage(i)
      PROVE  Lineage(a) \subseteq Lineage(i)
  BY <1>1, ClimbIsLeast DEF Lineage
<1> QED BY <1>1, <1>2 DEF ClosedUp

\* The climb stops below the first ancestor in "stop" if there is one.
LEMMA ClimbMeets ==
    ASSUME NEW i \in Images, NEW stop \in SUBSET Images,
           NEW a \in Lineage(i), a \in stop, i \notin stop
    PROVE  \E j \in ClimbUntil(i, stop) : Parent[j] \in stop
<1> DEFINE S == ClimbUntil(i, stop)
<1>1. S \in SUBSET Images /\ i \in S /\ ClosedUp(S, stop)
  BY ClimbFacts
<1> SUFFICES ASSUME \A j \in S : Parent[j] \notin stop PROVE FALSE
  OBVIOUS
<1> HIDE DEF S
<1>2. ClosedUp(S, {})
  BY <1>1 DEF ClosedUp
<1>3. a \in S
  BY <1>1, <1>2, ClimbIsLeast DEF Lineage
<1>4. i \in S \ {a} /\ S \ {a} \in SUBSET Images /\ ClosedUp(S \ {a}, stop)
  BY <1>1 DEF ClosedUp
<1>5. S \subseteq S \ {a}
  BY <1>4, ClimbIsLeast DEF S
<1> QED BY <1>3, <1>5

-----------------------------------------------------------------------------
(***************************************************************************)
(* The reference.                                                          *)
(***************************************************************************)
LEMMA UnbuildableFacts ==
    /\ Unbuildable \subseteq Images
    /\ inputs.names \cap Images \subseteq Unbuildable
    /\ \A i \in Images : \A a \in Lineage(i) :
          a \in Unbuildable => i \in Unbuildable
    /\ \A i \in Images : Parent[i] \in Unbuildable => i \in Unbuildable
BY LineageFacts DEF Unbuildable

LEMMA WantedFacts ==
    ASSUME TypeOK
    PROVE  /\ Requested \subseteq Wanted /\ Wanted \subseteq Images
           /\ Wanted \cap Unbuildable = {}
           /\ \A i \in Wanted : Parent[i] \in Images => Parent[i] \in Wanted
<1>1. Requested \subseteq Images /\ Requested \cap Unbuildable = {}
  BY DEF Requested, TypeOK, Inputs
<1>2. Requested \subseteq Wanted
  BY <1>1, LineageFacts DEF Wanted
<1>3. Wanted \cap Unbuildable = {}
  BY <1>1, UnbuildableFacts DEF Wanted
<1>4. ASSUME NEW i \in Wanted, Parent[i] \in Images
      PROVE  Parent[i] \in Wanted
  <2>1. PICK r \in Requested : i \in Lineage(r)
    BY DEF Wanted
  <2>2. Parent[i] \in Lineage(r)
    BY <1>1, <1>4, <2>1, LineageFacts
  <2> QED BY <1>4, <2>1, <2>2 DEF Wanted
<1> QED BY <1>2, <1>3, <1>4 DEF Wanted

\* Without a filter everything that can be built is wanted.
LEMMA UnfilteredWanted ==
    ASSUME ~inputs.filtered
    PROVE  Wanted = Images \ Unbuildable
<1>1. Requested = Images \ Unbuildable
  BY DEF Requested
<1>2. Wanted \subseteq Images \ Unbuildable
  BY <1>1, UnbuildableFacts DEF Wanted
<1>3. Images \ Unbuildable \subseteq Wanted
  BY <1>1, LineageFacts DEF Wanted
<1> QED BY <1>2, <1>3

\* What is wanted is what any set has that is closed upwards, has what was
\* requested and has nothing else.
LEMMA WantedIsLeast ==
    ASSUME TypeOK, NEW S \in SUBSET Images, Requested \subseteq S, ClosedUp(S, {})
    PROVE  Wanted \subseteq S
<1>1. ASSUME NEW a \in Wanted PROVE a \in S
  <2>1. PICK r \in Requested : a \in Lineage(r)
    BY DEF Wanted
  <2>2. r \in Images /\ r \in S
    BY <2>1
  <2> QED BY <2>1, <2>2, ClimbIsLeast DEF Lineage
<1> QED BY <1>1

-----------------------------------------------------------------------------
(***************************************************************************)
(* What each of the three loops has done with the images it has visited.   *)
(***************************************************************************)
MarkingSoFar ==
    phase = "unbuildable" =>
        \A i \in Images :
            /\ status[i] \in {"unprocessed", "unbuildable"}
            /\ status[i] = "unbuildable" => i \in Unbuildable
            /\ i \in Unbuildable /\ i \notin todo => status[i] = "unbuildable"

MatchingSoFar ==
    phase = "match" =>
        /\ \A i \in Images :
              /\ status[i] = "unbuildable" <=> i \in Unbuildable
              /\ status[i] # "skipped"
              /\ status[i] = "matched" => i \in Wanted
              /\ i \in Requested /\ i \notin todo => status[i] = "matched"
              /\ i \notin todo => status[i] # "unprocessed"
        /\ inputs.filtered => ClosedUp(Matched, {})

BeforeSkips ==
    [i \in Images |-> IF i \in Unbuildable THEN "unbuildable"
                      ELSE IF i \in Wanted THEN "matched" ELSE "unmatched"]

SkippingSoFar ==
    phase = "skip" =>
        \A i \in Images :
            status[i] = IF i \notin todo /\ i \in Wanted /\ Skips(i)
                        THEN "skipped" ELSE BeforeSkips[i]

FilterInv ==
    /\ TypeOK
    /\ MarkingSoFar /\ MatchingSoFar /\ SkippingSoFar
    /\ FilterIsOrderIndependent

-----------------------------------------------------------------------------
(***************************************************************************)
(* The steps.                                                              *)
(***************************************************************************)
\* The options do not change, and with them what the reference says.
LEMMA InputsKept ==
    ASSUME [Next]_vars
    PROVE  /\ inputs' = inputs /\ Unbuildable' = Unbuildable
           /\ Requested' = Requested /\ Wanted' = Wanted
           /\ Reference' = Reference /\ BeforeSkips' = BeforeSkips
           /\ \A i \in Images : Skips(i)' <=> Skips(i)
<1>1. inputs' = inputs
  BY DEF Next, MarkUnbuildable, MatchImage, SkipImage, NextPhase, Done, vars
<1>2. Unbuildable' = Unbuildable
  BY <1>1 DEF Unbuildable
<1>3. Requested' = Requested
  BY <1>1, <1>2 DEF Requested
<1>4. Wanted' = Wanted
  BY <1>3 DEF Wanted
<1>5. \A i \in Images : Skips(i)' <=> Skips(i)
  BY <1>1 DEF Skips
<1>6. BeforeSkips' = BeforeSkips
  BY <1>2, <1>4 DEF BeforeSkips
<1>7. Reference' = Reference
  BY <1>2, <1>4, <1>5 DEF Reference
<1> QED BY <1>1, <1>2, <1>3, <1>4, <1>5, <1>6, <1>7

\* The three kinds of images are disjoint: the CASE of Reference has one
\* answer.
LEMMA ReferenceFacts ==
    ASSUME TypeOK, NEW i \in Images
    PROVE  Reference[i] = IF i \in Wanted /\ Skips(i) THEN "skipped"
                          ELSE BeforeSkips[i]
BY WantedFacts DEF Reference, BeforeSkips

\* One iteration of the first loop marks what cannot be built, only that,
\* and the image it visits if it is.
LEMMA MarkFacts ==
    ASSUME FilterInv, NEW i \in Images, MarkUnbuildable(i)
    PROVE  /\ phase = "unbuildable" /\ phase' = phase /\ todo' = todo \ {i}
           /\ \E hit \in SUBSET Unbuildable :
                 /\ status' = [a \in Images |->
                                  IF a \in hit THEN "unbuildable" ELSE status[a]]
                 /\ i \in Unbuildable =>
                       i \in hit \/ status[i] = "unbuildable"
<1> DEFINE hit == IF i \in inputs.names THEN {i}
                  ELSE IF NearestSpoiled(i) # {}
                       THEN {i} \cup NearestSpoiled(i)
                       ELSE {}
<1>1. /\ phase = "unbuildable" /\ phase' = phase /\ todo' = todo \ {i}
      /\ status' = [a \in Images |->
                       IF a \in hit THEN "unbuildable" ELSE status[a]]
  BY DEF MarkUnbuildable
<1>2. Spoiled \subseteq Unbuildable
  BY <1>1, UnbuildableFacts DEF Spoiled, FilterInv, MarkingSoFar
<1>3. NearestSpoiled(i) \subseteq Unbuildable
  BY <1>2 DEF NearestSpoiled
<1>4. ASSUME NEW a \in NearestSpoiled(i) PROVE i \in Unbuildable
  <2>1. PICK j \in ClimbUntil(i, Spoiled) : Parent[j] = a
    BY DEF NearestSpoiled
  <2>2. j \in Lineage(i) /\ a \in Images
    BY ClimbInLineage DEF NearestSpoiled, Spoiled
  <2>3. a \in Lineage(i)
    BY <2>1, <2>2, LineageFacts
  <2> QED BY <1>3, <2>3, UnbuildableFacts
<1>5. ASSUME i \in Unbuildable, i \notin Spoiled
      PROVE  NearestSpoiled(i) # {}
  <2>1. PICK a \in Lineage(i) : a \in inputs.names
    BY <1>5 DEF Unbuildable
  <2>2. a \in Spoiled /\ Spoiled \in SUBSET Images
    BY <2>1, LineageFacts DEF Spoiled
  <2>3. PICK j \in ClimbUntil(i, Spoiled) : Parent[j] \in Spoiled
    BY <1>5, <2>1, <2>2, ClimbMeets
  <2> QED BY <2>3 DEF NearestSpoiled
<1>6. hit \in SUBSET Unbuildable
  BY <1>3, <1>4, UnbuildableFacts
<1>7. i \in Unbuildable => i \in hit \/ status[i] = "unbuildable"
  BY <1>5 DEF Spoiled
<1> HIDE DEF hit
<1> QED BY <1>1, <1>6, <1>7

\* One iteration of the second loop matches what is wanted and no more.
LEMMA MatchFacts ==
    ASSUME FilterInv, NEW i \in Images, MatchImage(i)
    PROVE  /\ phase = "match" /\ phase' = phase /\ todo' = todo \ {i}
           /\ status' \in [Images -> PlanStatus \cup {"unprocessed"}]
           /\ \E S \in SUBSET Wanted :
                 /\ i \in Requested => i \in S \/ status[i] = "matched"
                 /\ \A a \in Images : a \in S => status'[a] = "matched"
                 /\ \A a \in Images \ S :
                       \/ status'[a] = status[a]
                       \/ /\ a = i /\ status[i] \notin {"matched", "unbuildable"}
                          /\ status'[a] = "unmatched"
                 /\ i \notin S => status'[i] # "unprocessed"
                 /\ inputs.filtered => ClosedUp(Matched \cup S, {})
<1> USE DEF FilterInv
<1>1. /\ phase = "match" /\ phase' = phase /\ todo' = todo \ {i}
      /\ status \in [Images -> PlanStatus \cup {"unprocessed"}]
  BY DEF MatchImage, TypeOK
<1>2. /\ status[i] = "unbuildable" <=> i \in Unbuildable
      /\ inputs.filtered => ClosedUp(Matched, {})
  BY <1>1 DEF MatchingSoFar
<1>3. CASE ~inputs.filtered
  <2> DEFINE S == {i} \ Unbuildable
  <2>1. S \in SUBSET Wanted
    BY <1>3, UnfilteredWanted
  <2>2. \A a \in Images : status'[a] = IF a \in S THEN "matched" ELSE status[a]
    BY <1>1, <1>2, <1>3 DEF MatchImage
  <2>3. status' \in [Images -> PlanStatus \cup {"unprocessed"}]
    BY <1>1, <1>3 DEF MatchImage, PlanStatus
  <2>4. i \in Requested => i \in S
    BY <1>3 DEF Requested
  <2>5. i \notin S => status'[i] # "unprocessed"
    BY <1>2, <2>2
  <2> QED BY <1>1, <1>3, <2>1, <2>2, <2>3, <2>4, <2>5
<1>4. CASE inputs.filtered /\ status[i] \in {"matched", "unbuildable"}
  <2>1. status' = status
    BY <1>4 DEF MatchImage
  <2>2. i \in Requested => status[i] = "matched"
    BY <1>2, <1>4 DEF Requested
  <2>3. ClosedUp(Matched \cup {}, {})
    BY <1>2, <1>4
  <2> DEFINE S == {}
  <2>4. S \in SUBSET Wanted /\ ClosedUp(Matched \cup S, {})
    BY <2>3
  <2> QED BY <1>1, <1>4, <2>1, <2>2, <2>4
<1>5. CASE /\ inputs.filtered /\ status[i] \notin {"matched", "unbuildable"}
           /\ i \in inputs.matching
  <2> DEFINE S == ClimbUntil(i, Matched)
  <2>1. i \in Requested
    BY <1>2, <1>5 DEF Requested
  <2>2. S \in SUBSET Wanted /\ i \in S
    BY <2>1, ClimbInLineage, ClimbFacts DEF Wanted
  <2>3. status' = [a \in Images |-> IF a \in S THEN "matched" ELSE status[a]]
    BY <1>5 DEF MatchImage
  <2>4. ClosedUp(Matched \cup S, {})
    <3>1. ClosedUp(S, Matched)
      BY ClimbFacts
    <3> QED BY <1>2, <1>5, <3>1 DEF ClosedUp
  <2> HIDE DEF S
  <2>5. status' \in [Images -> PlanStatus \cup {"unprocessed"}]
    BY <1>1, <2>3 DEF PlanStatus
  <2> QED BY <1>1, <2>2, <2>3, <2>4, <2>5
<1>6. CASE /\ inputs.filtered /\ status[i] \notin {"matched", "unbuildable"}
           /\ i \notin inputs.matching
  <2>1. status' = [status EXCEPT ![i] = "unmatched"]
    BY <1>6 DEF MatchImage
  <2>2. i \notin Requested
    BY <1>6 DEF Requested
  <2>3. ClosedUp(Matched \cup {}, {})
    BY <1>2, <1>6
  <2>4. status' \in [Images -> PlanStatus \cup {"unprocessed"}]
    BY <1>1, <2>1 DEF PlanStatus
  <2> DEFINE S == {}
  <2>5. S \in SUBSET Wanted /\ ClosedUp(Matched \cup S, {})
    BY <2>3
  <2> QED BY <1>1, <1>6, <2>1, <2>2, <2>4, <2>5
<1> QED BY <1>3, <1>4, <1>5, <1>6

\* No step takes the status "unbuildable" away.
UnbuildableKept ==
    \A i \in Images : status[i] = "unbuildable" => status'[i] = "unbuildable"

LEMMA MarkStep ==
    ASSUME FilterInv, NEW i \in Images, MarkUnbuildable(i)
    PROVE  FilterInv' /\ UnbuildableKept
<1> USE DEF FilterInv
<1>1. PICK hit \in SUBSET Unbuildable :
         /\ status' = [a \in Images |->
                          IF a \in hit THEN "unbuildable" ELSE status[a]]
         /\ i \in Unbuildable => i \in hit \/ status[i] = "unbuildable"
  BY MarkFacts
<1>2. phase = "unbuildable" /\ phase' = phase /\ todo' = todo \ {i}
  BY MarkFacts
<1>3. inputs' = inputs /\ Unbuildable' = Unbuildable
  BY InputsKept DEF Next
<1>4. TypeOK'
  BY <1>1, <1>2, <1>3 DEF TypeOK, PlanStatus
<1>5. MarkingSoFar'
  <2>1. ASSUME NEW a \in Images
        PROVE  /\ status'[a] \in {"unprocessed", "unbuildable"}
               /\ status'[a] = "unbuildable" => a \in Unbuildable
               /\ a \in Unbuildable /\ a \notin todo' => status'[a] = "unbuildable"
    BY <1>1, <1>2 DEF MarkingSoFar
  <2> QED BY <1>3, <2>1 DEF MarkingSoFar
<1> QED BY <1>1, <1>2, <1>4, <1>5
        DEF MatchingSoFar, SkippingSoFar, FilterIsOrderIndependent,
            UnbuildableKept

LEMMA MatchStep ==
    ASSUME FilterInv, NEW i \in Images, MatchImage(i)
    PROVE  FilterInv' /\ UnbuildableKept
<1> USE DEF FilterInv
<1>1. PICK S \in SUBSET Wanted :
         /\ i \in Requested => i \in S \/ status[i] = "matched"
         /\ \A a \in Images : a \in S => status'[a] = "matched"
         /\ \A a \in Images \ S :
               \/ status'[a] = status[a]
               \/ /\ a = i /\ status[i] \notin {"matched", "unbuildable"}
                  /\ status'[a] = "unmatched"
         /\ i \notin S => status'[i] # "unprocessed"
         /\ inputs.filtered => ClosedUp(Matched \cup S, {})
  BY MatchFacts
<1>2. /\ phase = "match" /\ phase' = phase /\ todo' = todo \ {i}
      /\ status' \in [Images -> PlanStatus \cup {"unprocessed"}]
  BY MatchFacts
<1>3. /\ inputs' = inputs /\ Unbuildable' = Unbuildable
      /\ Wanted' = Wanted /\ Requested' = Requested
  BY InputsKept DEF Next
<1>4. Wanted \cap Unbuildable = {} /\ Wanted \subseteq Images
  BY WantedFacts
<1>5. TypeOK'
  BY <1>2, <1>3 DEF TypeOK
<1>6. Matched' = Matched \cup S
  BY <1>1, <1>4 DEF Matched
<1>7. ASSUME NEW a \in Images
      PROVE  /\ status'[a] = "unbuildable" <=> a \in Unbuildable
             /\ status[a] = "unbuildable" => status'[a] = "unbuildable"
             /\ status'[a] # "skipped"
             /\ status'[a] = "matched" => a \in Wanted
             /\ a \in Requested /\ a \notin todo' => status'[a] = "matched"
             /\ a \notin todo' => status'[a] # "unprocessed"
  <2>1. /\ status[a] = "unbuildable" <=> a \in Unbuildable
        /\ status[a] # "skipped"
        /\ status[a] = "matched" => a \in Wanted
        /\ a \in Requested /\ a \notin todo => status[a] = "matched"
        /\ a \notin todo => status[a] # "unprocessed"
    BY <1>2 DEF MatchingSoFar
  <2> QED BY <1>1, <1>2, <1>4, <2>1
<1>8. MatchingSoFar'
  BY <1>1, <1>3, <1>6, <1>7 DEF MatchingSoFar
<1> QED BY <1>2, <1>5, <1>7, <1>8
        DEF MarkingSoFar, SkippingSoFar, FilterIsOrderIndependent,
            UnbuildableKept

LEMMA SkipStep ==
    ASSUME FilterInv, NEW i \in Images, SkipImage(i)
    PROVE  FilterInv' /\ UnbuildableKept
<1> USE DEF FilterInv
<1>1. /\ phase = "skip" /\ phase' = phase /\ todo' = todo \ {i} /\ i \in todo
      /\ status' = IF status[i] = "matched" /\ Skips(i)
                   THEN [status EXCEPT ![i] = "skipped"] ELSE status
  BY DEF SkipImage
<1>2. /\ inputs' = inputs /\ Wanted' = Wanted /\ BeforeSkips' = BeforeSkips
      /\ \A a \in Images : Skips(a)' <=> Skips(a)
  BY InputsKept DEF Next
<1>3. TypeOK'
  BY <1>1, <1>2 DEF TypeOK, PlanStatus
<1>4. status[i] = "matched" <=> i \in Wanted
  BY <1>1, WantedFacts DEF SkippingSoFar, BeforeSkips
<1>5. ASSUME NEW a \in Images
      PROVE  status'[a] = IF a \notin todo' /\ a \in Wanted /\ Skips(a)
                          THEN "skipped" ELSE BeforeSkips[a]
  BY <1>1, <1>4 DEF SkippingSoFar, TypeOK
<1>6. SkippingSoFar'
  BY <1>2, <1>5 DEF SkippingSoFar
<1>7. UnbuildableKept
  BY <1>1 DEF UnbuildableKept, TypeOK
<1> QED BY <1>1, <1>3, <1>6, <1>7
        DEF MarkingSoFar, MatchingSoFar, FilterIsOrderIndependent

LEMMA PhaseStep ==
    ASSUME FilterInv, NextPhase
    PROVE  FilterInv' /\ UnbuildableKept
<1> USE DEF FilterInv
<1>1. todo = {} /\ inputs' = inputs /\ status' = status
  BY DEF NextPhase
<1>2. /\ Unbuildable' = Unbuildable /\ Wanted' = Wanted
      /\ Requested' = Requested /\ BeforeSkips' = BeforeSkips
      /\ Reference' = Reference
  BY InputsKept DEF Next
<1>3. UnbuildableKept
  BY <1>1 DEF UnbuildableKept
<1>4. CASE phase = "unbuildable"
  <2>1. phase' = "match" /\ todo' = Images
    BY <1>4 DEF NextPhase
  <2>2. \A i \in Images : /\ status[i] \in {"unprocessed", "unbuildable"}
                          /\ status[i] = "unbuildable" <=> i \in Unbuildable
    BY <1>1, <1>4 DEF MarkingSoFar
  <2>3. Matched' = {}
    BY <1>1, <2>2 DEF Matched
  <2>4. MatchingSoFar'
    BY <1>1, <1>2, <2>1, <2>2, <2>3 DEF MatchingSoFar, ClosedUp
  <2> QED BY <1>1, <1>3, <2>1, <2>4
          DEF TypeOK, MarkingSoFar, SkippingSoFar, FilterIsOrderIndependent
<1>5. CASE phase = "match"
  <2>1. phase' = "skip" /\ todo' = Images
    BY <1>5 DEF NextPhase
  <2>2. Matched = Wanted
    <3>1. Requested \subseteq Matched /\ Matched \subseteq Wanted
      BY <1>1, <1>5 DEF MatchingSoFar, Matched, Requested, TypeOK, Inputs
    <3>2. CASE inputs.filtered
      <4>1. ClosedUp(Matched, {}) /\ Matched \in SUBSET Images
        BY <1>5, <3>2 DEF MatchingSoFar, Matched
      <4> QED BY <3>1, <4>1, WantedIsLeast
    <3>3. CASE ~inputs.filtered
      BY <3>1, <3>3, UnfilteredWanted DEF Requested
    <3> QED BY <3>2, <3>3
  <2>3. ASSUME NEW i \in Images
        PROVE  status[i] = BeforeSkips[i]
    <3>1. /\ status[i] = "unbuildable" <=> i \in Unbuildable
          /\ status[i] # "skipped" /\ status[i] # "unprocessed"
          /\ status[i] \in PlanStatus \cup {"unprocessed"}
      BY <1>1, <1>5 DEF MatchingSoFar, TypeOK
    <3>2. status[i] = "matched" <=> i \in Wanted
      BY <2>2 DEF Matched
    <3> QED BY <3>1, <3>2 DEF BeforeSkips, PlanStatus
  <2>4. SkippingSoFar'
    BY <1>1, <1>2, <2>1, <2>3 DEF SkippingSoFar
  <2> QED BY <1>1, <1>3, <2>1, <2>4
          DEF TypeOK, MarkingSoFar, MatchingSoFar, FilterIsOrderIndependent
<1>6. CASE phase = "skip"
  <2>1. phase' = "done" /\ todo' = {}
    BY <1>6 DEF NextPhase
  <2>2. \A i \in Images : status[i] = Reference[i]
    BY <1>1, <1>6, ReferenceFacts DEF SkippingSoFar
  <2>3. status = Reference
    BY <2>2 DEF TypeOK, Reference
  <2> QED BY <1>1, <1>2, <1>3, <2>1, <2>3
          DEF TypeOK, MarkingSoFar, MatchingSoFar, SkippingSoFar,
              FilterIsOrderIndependent
<1> QED BY <1>4, <1>5, <1>6 DEF NextPhase, TypeOK

LEMMA FilterStep ==
    ASSUME FilterInv, [Next]_vars
    PROVE  FilterInv' /\ UnbuildableKept
<1>1. CASE UNCHANGED vars
  <2>1. FilterInv'
    BY <1>1, InputsKept
       DEF vars, FilterInv, TypeOK, MarkingSoFar, MatchingSoFar, SkippingSoFar,
           FilterIsOrderIndependent, Matched
  <2> QED BY <1>1, <2>1 DEF vars, UnbuildableKept
<1> QED BY <1>1, MarkStep, MatchStep, SkipStep, PhaseStep DEF Next, Done

LEMMA FilterInit == Init => FilterInv
<1> SUFFICES ASSUME Init PROVE FilterInv
  OBVIOUS
<1>1. TypeOK
  BY DEF Init, TypeOK
<1>2. Matched = {}
  BY DEF Init, Matched
<1>3. phase = "match" => Unbuildable = {}
  BY DEF Init, Unbuildable
<1> QED BY <1>1, <1>2, <1>3
        DEF Init, FilterInv, MarkingSoFar, MatchingSoFar, SkippingSoFar,
            FilterIsOrderIndependent, ClosedUp

LEMMA FilterInvAlways == Spec => []FilterInv
BY FilterInit, FilterStep, PTL DEF Spec

-----------------------------------------------------------------------------
(***************************************************************************)
(* The theorems.                                                           *)
(***************************************************************************)
(***************************************************************************)
(* filter_images gives each image one of the statuses a filter may give.   *)
(***************************************************************************)
THEOREM FilterTypeCorrect == Spec => []TypeOK
<1>1. FilterInv => TypeOK
  BY DEF FilterInv
<1> QED BY <1>1, FilterInvAlways, PTL

(***************************************************************************)
(* What filter_images computes is the declarative reading of the options,  *)
(* in whatever order os.walk listed the images.                            *)
(***************************************************************************)
THEOREM OrderDoesNotMatter == Spec => []FilterIsOrderIndependent
<1>1. FilterInv => FilterIsOrderIndependent
  BY DEF FilterInv
<1> QED BY <1>1, FilterInvAlways, PTL

(***************************************************************************)
(* The statuses filter_images leaves form a plan build_queue can work on.  *)
(***************************************************************************)
THEOREM FilterMakesPlan == Spec => []FilterYieldsPlan
<1>1. ASSUME FilterInv, phase = "done" PROVE status \in Plans
  <2>1. TypeOK /\ status = Reference
    BY <1>1 DEF FilterInv, FilterIsOrderIndependent
  <2>2. \A i \in Images :
           /\ status[i] = "unbuildable" <=> i \in Unbuildable
           /\ status[i] \in Chosen <=> i \in Wanted
           /\ status[i] \in PlanStatus
    BY <2>1, ReferenceFacts, WantedFacts DEF BeforeSkips, Chosen, PlanStatus
  <2>3. status \in [Images -> PlanStatus]
    BY <2>1, <2>2 DEF TypeOK
  <2>4. ClosedPlan(status)
    BY <2>1, <2>2, UnbuildableFacts, WantedFacts DEF ClosedPlan
  <2> QED BY <2>3, <2>4 DEF Plans
<1>2. FilterInv => FilterYieldsPlan
  BY <1>1 DEF FilterYieldsPlan
<1> QED BY <1>2, FilterInvAlways, PTL

(***************************************************************************)
(* No climb of the match loop overwrites the status "unbuildable".         *)
(***************************************************************************)
THEOREM UnbuildableForEver == Spec => UnbuildableStays
<1>1. FilterInv /\ [Next]_vars =>
         [\A i \in Images : status[i] = "unbuildable" =>
                               status'[i] = "unbuildable"]_vars
  BY FilterStep DEF UnbuildableKept
<1> QED BY <1>1, FilterInvAlways, PTL DEF Spec, UnbuildableStays
=============================================================================
