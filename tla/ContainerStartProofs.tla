------------------------ MODULE ContainerStartProofs ------------------------
(***************************************************************************)
(* Proofs about kolla_set_configs and the start of a container, for any    *)
(* destinations, contents and commands, however often the container is     *)
(* started, killed and configured anew.                                    *)
(***************************************************************************)
EXTENDS ContainerStart, SetConfigsRefinement, TLAPS

-----------------------------------------------------------------------------
(***************************************************************************)
(* Part 1: kolla_set_configs.  A start is a program of five phases; what   *)
(* must be remembered between the starts is what the state file says of    *)
(* the two copies of each tracked file.                                    *)
(***************************************************************************)
Working == {"restore", "backup", "saving", "copy", "finish"}

\* Tracked as a file the image does not have, as one that was saved, and as
\* one that was restored: the swap of RestoreBegin.
Missing(d)  == [source |-> Live(d), dest |-> Null]
Saved(d)    == [source |-> Live(d), dest |-> Default(d)]
Restored(d) == [source |-> Default(d), dest |-> Live(d)]

Undo(v) == IF v.dest = Null THEN v ELSE [source |-> v.dest, dest |-> v.source]

\* What was tracked so is what was there.
Truly(d, v) ==
    \/ v = Missing(d) /\ original[d] = Absent
    \/ v = Saved(d) /\ original[d] # Absent /\ fs[Default(d)] = original[d]

\* Where a start is, and what it holds.
ProcessShape ==
    /\ pc \in Working => conf \in Config /\ exit = "none"
    /\ pc \notin Working => todo = {} /\ copying = Nothing
    /\ pc \in {"restore", "backup", "saving"} => saves < MaxSaves
    /\ pc = "copy" => todo \subseteq Declared(conf)
    /\ pc \in {"saving", "finish"} => todo = {} /\ copying = Nothing
    /\ configured => strategy = "COPY_ONCE" /\ pc \notin Working
    /\ pc \in {"copy", "finish", "up"} \/ configured => saves > 0 /\ ~torn

\* The copy under way.
CopyUnderWay ==
    copying # Nothing =>
        \/ /\ pc = "restore"
           /\ \E d \in DOMAIN state \ todo :
                 /\ state[d].dest # Null /\ copying[1] = state[d].source
                 /\ saves <= 1 => copying[2] = original[d]
        \/ /\ pc = "backup"
           /\ \E d \in todo : copying = <<Default(d), original[d]>>
        \/ /\ pc = "copy"
           /\ \E d \in Available(conf) \ todo :
                 copying = <<Live(d), conf.files[d].source>>

\* The state file.
StateShape ==
    /\ DOMAIN state \subseteq Dests \ Wildcards
    /\ saves = 0 => DOMAIN state = {}
    /\ \A d \in DOMAIN state :
          /\ state[d] \in {Missing(d), Saved(d), Restored(d)}
          /\ state[d] = Missing(d) => original[d] = Absent
          /\ saves <= 1 => Truly(d, state[d])

\* The state in memory.
MemShape ==
    /\ pc = "restore" =>
          /\ DOMAIN mem = DOMAIN state /\ todo \subseteq DOMAIN state
          /\ \A d \in DOMAIN state :
                mem[d] = IF d \in todo THEN state[d] ELSE Undo(state[d])
    /\ pc \in {"backup", "saving"} =>
          /\ DOMAIN state \subseteq DOMAIN mem
          /\ DOMAIN mem \cup todo = DOMAIN state \cup (Available(conf) \ Wildcards)
          /\ DOMAIN mem \cap todo = {}
          /\ \A d \in DOMAIN state : mem[d] = Undo(state[d])
          /\ \A d \in DOMAIN mem \ DOMAIN state : Truly(d, mem[d])
    /\ pc \in {"copy", "finish"} =>
          Available(conf) \ Wildcards \subseteq DOMAIN state

\* The defaults: a file that is not tracked is as it was, and before the
\* first save nothing is saved of what is not there.
DefaultsShape ==
    /\ \A d \in (Dests \ Wildcards) \ DOMAIN state : fs[Live(d)] = original[d]
    /\ saves <= 1 =>
          \A d \in Dests :
             original[d] = Absent /\ (saves = 0 \/ d \in DOMAIN state)
                => fs[Default(d)] = Absent

\* What a start has undone so far.
Undoable(d, n) == saves <= n \/ state[d].dest = Null

UndoneSoFar ==
    /\ pc = "restore" =>
          \A d \in DOMAIN state \ todo :
             Undoable(d, 1) => Undone(d) \/ copying = <<Live(d), original[d]>>
    /\ pc \in {"backup", "saving"} =>
          \A d \in DOMAIN state : Undoable(d, 1) => Undone(d)
    /\ pc \in {"copy", "finish"} =>
          \A d \in DOMAIN state \ Available(conf) : Undoable(d, 2) => Undone(d)
    /\ pc = "up" /\ strategy = "COPY_ALWAYS" =>
          \A d \in (DOMAIN state \ Available(applied)) \ touched :
             Undoable(d, 2) => Undone(d)

\* And what it has applied.
AppliedSoFar ==
    /\ pc = "copy" =>
          \A d \in Available(conf) \ todo :
             \/ fs[Live(d)] = conf.files[d].source
             \/ copying = <<Live(d), conf.files[d].source>>
    /\ pc = "finish" =>
          /\ run_command = conf.command
          /\ \A d \in Available(conf) : fs[Live(d)] = conf.files[d].source
    /\ pc = "up" \/ configured =>
          /\ applied # Nothing
          /\ run_command = applied.command
          /\ \A d \in Available(applied) \ touched :
                fs[Live(d)] = applied.files[d].source

ConfigsInv ==
    /\ TypeOK /\ ProcessShape /\ CopyUnderWay
    /\ StateShape /\ MemShape /\ DefaultsShape
    /\ UndoneSoFar /\ AppliedSoFar

-----------------------------------------------------------------------------
(***************************************************************************)
(* Places, states and configurations.                                      *)
(***************************************************************************)
\* A destination and its default are different places, and none is Null.
LEMMA PlaceFacts ==
    /\ \A d \in Dests : Live(d) \in Places /\ Default(d) \in Places
    /\ \A d, e \in Dests : Live(d) # Default(e)
    /\ \A d, e \in Dests : Live(d) = Live(e) => d = e
    /\ \A d, e \in Dests : Default(d) = Default(e) => d = e
    /\ \A d \in Dests : Live(d)[1] = "live" /\ Live(d)[2] = d
    /\ \A d \in Dests : Default(d)[1] = "default" /\ Default(d)[2] = d
    /\ Null \notin Places
BY DEF Live, Default, Places, Null

\* Every place is a destination or a default.
LEMMA PlaceSplit ==
    ASSUME NEW p \in Places
    PROVE  \E d \in Dests : p = Live(d) \/ p = Default(d)
BY DEF Live, Default, Places

\* What a state file may hold.
LEMMA StateFacts ==
    ASSUME NEW S \in States
    PROVE  /\ DOMAIN S \subseteq Dests
           /\ \A d \in DOMAIN S : S[d] \in Tracking
           /\ S = [d \in DOMAIN S |-> S[d]]
BY DEF States

LEMMA StateChange ==
    ASSUME NEW S \in States, NEW d \in Dests, NEW v \in Tracking
    PROVE  /\ [S EXCEPT ![d] = v] \in States
           /\ [x \in DOMAIN S \cup {d} |-> IF x = d THEN v ELSE S[x]] \in States
<1>1. DOMAIN S \subseteq Dests /\ (\A x \in DOMAIN S : S[x] \in Tracking)
  BY StateFacts
<1>2. S \in [DOMAIN S -> Tracking]
  BY <1>1, StateFacts
<1>3. [S EXCEPT ![d] = v] \in [DOMAIN S -> Tracking]
  BY <1>2
<1>4. [x \in DOMAIN S \cup {d} |-> IF x = d THEN v ELSE S[x]]
         \in [DOMAIN S \cup {d} -> Tracking]
  BY <1>1
<1>5. DOMAIN S \in SUBSET Dests /\ DOMAIN S \cup {d} \in SUBSET Dests
  BY <1>1
<1> QED BY <1>3, <1>4, <1>5 DEF States

LEMMA EmptyState == Empty \in States /\ DOMAIN Empty = {}
<1>1. Empty \in [{} -> Tracking] BY DEF Empty
<1> QED BY <1>1 DEF States, Empty

LEMMA ConfigFacts ==
    ASSUME NEW c \in Config
    PROVE  /\ Declared(c) \subseteq Dests
           /\ Available(c) \subseteq Declared(c)
           /\ \A d \in Declared(c) : c.files[d] \in Entries
           /\ \A d \in Available(c) : c.files[d].source \in Sources
           /\ c.command \in Commands
           /\ c # Nothing
<1>1. c.files \in UNION {[D -> Entries] : D \in SUBSET Dests}
      /\ c.command \in Commands
  BY DEF Config
<1>2. DOMAIN c.files \subseteq Dests
      /\ (\A d \in DOMAIN c.files : c.files[d] \in Entries)
  BY <1>1
<1>3. c # Nothing
  BY DEF Config, Nothing
<1> QED BY <1>1, <1>2, <1>3 DEF Declared, Available, Entries

-----------------------------------------------------------------------------
(***************************************************************************)
(* Types.                                                                  *)
(***************************************************************************)
LEMMA InitTypeOK == Init => TypeOK
<1> SUFFICES ASSUME Init PROVE TypeOK
  OBVIOUS
<1>1. fs \in [Places -> Contents \cup {Absent, Partial}]
  BY DEF Init, Places
<1>2. state \in States /\ mem \in States
  BY EmptyState DEF Init
<1>3. saves \in 0..MaxSaves
  BY SetConfigsAssumption DEF Init
<1> QED BY <1>1, <1>2, <1>3 DEF Init, TypeOK

LEMMA ExitFacts ==
    ASSUME NEW where, NEW code, ExitTo(where, code)
    PROVE  /\ pc' = where /\ exit' = code
           /\ conf' = Nothing /\ mem' = Empty /\ todo' = {} /\ copying' = Nothing
BY DEF ExitTo

LEMMA CopyFacts ==
    ASSUME TypeOK, NEW c \in Contents \cup {Partial}, NEW to \in Places,
           BeginCopy(c, to)
    PROVE  /\ copying = Nothing /\ copying' = <<to, c>> /\ copying' # Nothing
           /\ copying'[1] = to /\ copying'[2] = c
           /\ copying' \in (Places \X (Contents \cup {Partial})) \cup {Nothing}
           /\ fs' \in [Places -> Contents \cup {Absent, Partial}]
           /\ fs'[to] \in {Absent, Partial}
           /\ \A p \in Places : p # to => fs'[p] = fs[p]
BY DEF TypeOK, BeginCopy, Nothing

LEMMA EndCopyFacts ==
    ASSUME TypeOK, EndCopy
    PROVE  /\ copying # Nothing /\ copying' = Nothing
           /\ copying[1] \in Places /\ copying[2] \in Contents \cup {Partial}
           /\ copying = <<copying[1], copying[2]>>
           /\ fs' \in [Places -> Contents \cup {Absent, Partial}]
           /\ fs'[copying[1]] = copying[2]
           /\ \A p \in Places : p # copying[1] => fs'[p] = fs[p]
<1>1. copying \in Places \X (Contents \cup {Partial})
  BY DEF TypeOK, EndCopy
<1> QED BY <1>1 DEF TypeOK, EndCopy

\* The actions of Next.
LEMMA NextCases ==
    ASSUME [Next]_vars
    PROVE  \/ Start \/ RestoreEnd \/ BackupStarts \/ SaveBegin \/ SaveEnd
           \/ CopyEnd \/ WriteCommand \/ Finish \/ Halt \/ OperatorEdits
           \/ \E d \in Dests : \/ RestoreRemove(d) \/ RestoreBegin(d)
                               \/ BackupAbsent(d) \/ BackupBegin(d)
                               \/ BackupEnd(d) \/ CopyMissing(d)
                               \/ CopyBegin(d) \/ ServiceWrites(d)
           \/ UNCHANGED vars
BY DEF Next, Configure

LEMMA TypeStep ==
    ASSUME ConfigsInv, [Next]_vars
    PROVE  TypeOK'
<1> USE DEF ConfigsInv
<1>1. CASE Start
  <2>1. state \in States /\ DOMAIN state \subseteq Dests
    BY StateFacts DEF TypeOK
  <2> QED BY <1>1, <2>1, EmptyState DEF Start, Fail, ExitTo, TypeOK, history
<1>2. ASSUME NEW d \in Dests, RestoreRemove(d) PROVE TypeOK'
  BY <1>2, PlaceFacts DEF RestoreRemove, TypeOK, history
<1>3. ASSUME NEW d \in Dests, RestoreBegin(d) PROVE TypeOK'
  <2> DEFINE v == [source |-> mem[d].dest, dest |-> mem[d].source]
  <2>1. d \in DOMAIN mem
    BY <1>3 DEF RestoreBegin, MemShape
  <2>2. mem[d] \in Tracking /\ mem[d].dest # Null
    BY <2>1, <1>3, StateFacts DEF RestoreBegin, TypeOK
  <2>3. v \in Tracking /\ v.source \in Places /\ v.dest \in Places
    BY <2>2 DEF Tracking
  <2>4. CASE fs[v.source] = Absent
    BY <1>3, <2>4, EmptyState DEF RestoreBegin, Fail, ExitTo, TypeOK, history
  <2>5. CASE fs[v.source] # Absent
    <3>1. fs[v.source] \in Contents \cup {Partial}
      BY <2>3, <2>5 DEF TypeOK
    <3>2. BeginCopy(fs[v.source], v.dest) /\ mem' = [mem EXCEPT ![d] = v]
          /\ todo' = todo \ {d}
      BY <1>3, <2>5 DEF RestoreBegin
    <3>3. mem' \in States
      BY <3>2, <2>3, StateChange DEF TypeOK
    <3>4. /\ copying' \in (Places \X (Contents \cup {Partial})) \cup {Nothing}
          /\ fs' \in [Places -> Contents \cup {Absent, Partial}]
      BY <3>1, <3>2, <2>3, CopyFacts
    <3>5. UNCHANGED <<strategy, config, state, torn, configured, run_command,
                      history, pc, conf, exit>>
      BY <1>3, <2>5 DEF RestoreBegin
    <3> QED BY <3>2, <3>3, <3>4, <3>5 DEF TypeOK, history
  <2> QED BY <2>4, <2>5
<1>4. CASE RestoreEnd
  BY <1>4, EndCopyFacts DEF RestoreEnd, TypeOK, history
<1>5. CASE BackupStarts
  <2>1. todo' \subseteq Dests
    BY <1>5, ConfigFacts DEF BackupStarts, ToBackUp, ProcessShape, Working
  <2> QED BY <1>5, <2>1 DEF BackupStarts, TypeOK, history
<1>6. ASSUME NEW d \in Dests, BackupAbsent(d) PROVE TypeOK'
  <2>1. [source |-> Live(d), dest |-> Null] \in Tracking
    BY PlaceFacts DEF Tracking
  <2>2. mem' \in States
    BY <1>6, <2>1, StateChange DEF BackupAbsent, Track, TypeOK
  <2> QED BY <1>6, <2>2 DEF BackupAbsent, TypeOK, history
<1>7. ASSUME NEW d \in Dests, BackupBegin(d) PROVE TypeOK'
  <2>1. fs[Live(d)] \in Contents \cup {Partial} /\ Default(d) \in Places
    BY <1>7, PlaceFacts DEF BackupBegin, TypeOK
  <2> QED BY <1>7, <2>1, CopyFacts DEF BackupBegin, TypeOK, history
<1>8. ASSUME NEW d \in Dests, BackupEnd(d) PROVE TypeOK'
  <2>1. [source |-> Live(d), dest |-> Default(d)] \in Tracking
    BY PlaceFacts DEF Tracking
  <2>2. mem' \in States
    BY <1>8, <2>1, StateChange DEF BackupEnd, Track, TypeOK
  <2> QED BY <1>8, <2>2, EndCopyFacts DEF BackupEnd, TypeOK, history
<1>9. CASE SaveBegin
  BY <1>9 DEF SaveBegin, TypeOK, history
<1>10. CASE SaveEnd
  <2>1. saves < MaxSaves /\ conf \in Config
    BY <1>10 DEF SaveEnd, ProcessShape, Working
  <2>2. saves' \in 0..MaxSaves
    BY <1>10, <2>1, SetConfigsAssumption DEF SaveEnd, TypeOK
  <2> QED BY <1>10, <2>1, <2>2, ConfigFacts DEF SaveEnd, TypeOK
<1>11. ASSUME NEW d \in Dests, CopyMissing(d) PROVE TypeOK'
  BY <1>11, EmptyState DEF CopyMissing, Fail, ExitTo, TypeOK, history
<1>12. ASSUME NEW d \in Dests, CopyBegin(d) PROVE TypeOK'
  <2>1. conf.files[d].source \in Contents \cup {Partial} /\ Live(d) \in Places
    BY <1>12, ConfigFacts, PlaceFacts, ConfigFilesAssumption
       DEF CopyBegin, ProcessShape, Working
  <2> QED BY <1>12, <2>1, CopyFacts DEF CopyBegin, TypeOK, history
<1>13. CASE CopyEnd
  BY <1>13, EndCopyFacts DEF CopyEnd, TypeOK, history
<1>14. CASE WriteCommand
  <2>1. conf.command \in Commands
    BY <1>14, ConfigFacts DEF WriteCommand, ProcessShape, Working
  <2> QED BY <1>14, <2>1 DEF WriteCommand, TypeOK, history
<1>15. CASE Finish
  BY <1>15, EmptyState DEF Finish, ExitTo, TypeOK
<1>16. CASE Halt
  BY <1>16, EmptyState DEF Halt, ExitTo, TypeOK, history
<1>17. CASE OperatorEdits
  BY <1>17 DEF OperatorEdits, TypeOK, process, history
<1>18. ASSUME NEW d \in Dests, ServiceWrites(d) PROVE TypeOK'
  BY <1>18, PlaceFacts DEF ServiceWrites, TypeOK, process
<1>19. CASE UNCHANGED vars
  BY <1>19 DEF vars, process, history, TypeOK
<1> QED BY <1>1, <1>2, <1>3, <1>4, <1>5, <1>6, <1>7, <1>8, <1>9, <1>10, <1>11,
           <1>12, <1>13, <1>14, <1>15, <1>16, <1>17, <1>18, <1>19, NextCases

-----------------------------------------------------------------------------
(***************************************************************************)
(* Where a start is.                                                       *)
(***************************************************************************)
LEMMA ProcessStep ==
    ASSUME ConfigsInv, [Next]_vars
    PROVE  ProcessShape'
<1> USE DEF ConfigsInv
<1>1. CASE Start
  BY <1>1 DEF Start, Fail, ExitTo, TypeOK, history, ProcessShape, Working
<1>2. ASSUME NEW d \in Dests, RestoreRemove(d) PROVE ProcessShape'
  BY <1>2 DEF RestoreRemove, history, ProcessShape, Working
<1>3. ASSUME NEW d \in Dests, RestoreBegin(d) PROVE ProcessShape'
  BY <1>3 DEF RestoreBegin, Fail, ExitTo, history, ProcessShape, Working
<1>4. CASE RestoreEnd
  BY <1>4 DEF RestoreEnd, EndCopy, history, ProcessShape, Working
<1>5. CASE BackupStarts
  BY <1>5 DEF BackupStarts, history, ProcessShape, Working
<1>6. ASSUME NEW d \in Dests, BackupAbsent(d) PROVE ProcessShape'
  BY <1>6 DEF BackupAbsent, history, ProcessShape, Working
<1>7. ASSUME NEW d \in Dests, BackupBegin(d) PROVE ProcessShape'
  BY <1>7 DEF BackupBegin, history, ProcessShape, Working
<1>8. ASSUME NEW d \in Dests, BackupEnd(d) PROVE ProcessShape'
  BY <1>8 DEF BackupEnd, history, ProcessShape, Working
<1>9. CASE SaveBegin
  BY <1>9 DEF SaveBegin, history, ProcessShape, Working
<1>10. CASE SaveEnd
  BY <1>10, SetConfigsAssumption
     DEF SaveEnd, TypeOK, ProcessShape, Working, Declared
<1>11. ASSUME NEW d \in Dests, CopyMissing(d) PROVE ProcessShape'
  BY <1>11 DEF CopyMissing, Fail, ExitTo, history, ProcessShape, Working, Declared
<1>12. ASSUME NEW d \in Dests, CopyBegin(d) PROVE ProcessShape'
  BY <1>12 DEF CopyBegin, history, ProcessShape, Working, Declared
<1>13. CASE CopyEnd
  BY <1>13 DEF CopyEnd, history, ProcessShape, Working, Declared
<1>14. CASE WriteCommand
  BY <1>14 DEF WriteCommand, history, ProcessShape, Working
<1>15. CASE Finish
  BY <1>15, SetConfigsAssumption
     DEF Finish, ExitTo, TypeOK, ProcessShape, Working
<1>16. CASE Halt
  BY <1>16 DEF Halt, ExitTo, history, ProcessShape, Working
<1>17. CASE OperatorEdits
  BY <1>17 DEF OperatorEdits, process, history, ProcessShape, Working, Declared
<1>18. ASSUME NEW d \in Dests, ServiceWrites(d) PROVE ProcessShape'
  BY <1>18 DEF ServiceWrites, process, ProcessShape, Working, Declared
<1>19. CASE UNCHANGED vars
  BY <1>19 DEF vars, process, history, ProcessShape, Working, Declared
<1> QED BY <1>1, <1>2, <1>3, <1>4, <1>5, <1>6, <1>7, <1>8, <1>9, <1>10, <1>11,
           <1>12, <1>13, <1>14, <1>15, <1>16, <1>17, <1>18, <1>19, NextCases

-----------------------------------------------------------------------------
(***************************************************************************)
(* Which step writes what.                                                 *)
(***************************************************************************)
\* The state file is written by SaveEnd, and what the service writes to a
\* file that is not tracked is what it held.
LEMMA HistoryWrites ==
    ASSUME [Next]_vars
    PROVE  /\ ~SaveEnd => state' = state /\ saves' = saves
           /\ (\A d \in Dests : ~ServiceWrites(d)) => original' = original
           /\ ~Finish /\ (\A d \in Dests : ~ServiceWrites(d)) =>
                 touched' = touched
           /\ ~Finish => applied' = applied /\ configured' = configured
           /\ ~WriteCommand => run_command' = run_command
           /\ strategy' = strategy
<1>1. CASE Start
  BY <1>1 DEF Start, history
<1>2. ASSUME NEW d \in Dests,
             RestoreRemove(d) \/ RestoreBegin(d) \/ BackupAbsent(d)
             \/ BackupBegin(d) \/ BackupEnd(d) \/ CopyMissing(d) \/ CopyBegin(d)
      PROVE  UNCHANGED <<strategy, state, saves, original, touched, applied,
                         configured, run_command>>
  BY <1>2 DEF RestoreRemove, RestoreBegin, BackupAbsent, BackupBegin, BackupEnd,
              CopyMissing, CopyBegin, history
<1>3. CASE RestoreEnd \/ BackupStarts \/ SaveBegin \/ CopyEnd \/ Halt
  BY <1>3 DEF RestoreEnd, BackupStarts, SaveBegin, CopyEnd, Halt, history
<1>4. CASE SaveEnd \/ WriteCommand \/ Finish
  BY <1>4 DEF SaveEnd, WriteCommand, Finish, history
<1>5. CASE OperatorEdits
  BY <1>5 DEF OperatorEdits, history
<1>6. ASSUME NEW d \in Dests, ServiceWrites(d)
      PROVE  UNCHANGED <<strategy, state, saves, applied, configured, run_command>>
  BY <1>6 DEF ServiceWrites
<1>7. CASE UNCHANGED vars
  BY <1>7 DEF vars, history
<1> QED BY <1>1, <1>2, <1>3, <1>4, <1>5, <1>6, <1>7, NextCases

\* Steps that write no file.
LEMMA NoFileWritten ==
    ASSUME \/ Start \/ BackupStarts \/ SaveBegin \/ SaveEnd \/ WriteCommand
           \/ Finish \/ Halt \/ OperatorEdits
           \/ \E d \in Dests : BackupAbsent(d) \/ CopyMissing(d)
           \/ UNCHANGED vars
    PROVE  fs' = fs
BY DEF Start, BackupStarts, SaveBegin, SaveEnd, WriteCommand, Finish, Halt,
       OperatorEdits, BackupAbsent, CopyMissing, vars

\* The files that are written, by the phase of the start.
LEMMA RestoreWrites ==
    ASSUME ConfigsInv, NEW d \in Dests,
           RestoreRemove(d) \/ RestoreBegin(d),
           NEW p \in Places, fs'[p] # fs[p]
    PROVE  /\ pc = "restore" /\ d \in DOMAIN state /\ d \in todo
           /\ p = state[d].source
           /\ saves <= 1 => p = Live(d)
<1> USE DEF ConfigsInv
<1>1. pc = "restore" /\ d \in todo
  BY DEF RestoreRemove, RestoreBegin
<1>2. d \in DOMAIN state /\ mem[d] = state[d]
  BY <1>1 DEF MemShape
<1>3. state[d] \in {Missing(d), Saved(d), Restored(d)}
      /\ (saves <= 1 => state[d] \in {Missing(d), Saved(d)})
  BY <1>2 DEF StateShape, Truly
<1>4. /\ Missing(d).source = Live(d) /\ Missing(d).dest = Null
      /\ Saved(d).source = Live(d) /\ Saved(d).dest # Null
      /\ Restored(d).source = Default(d) /\ Restored(d).dest # Null
      /\ Saved(d).source \in Places /\ Restored(d).source \in Places
  BY PlaceFacts DEF Missing, Saved, Restored
<1>5. CASE RestoreRemove(d)
  <2>1. state[d].dest = Null
    BY <1>5, <1>2 DEF RestoreRemove
  <2>2. p = Live(d)
    BY <1>5, PlaceFacts DEF RestoreRemove, TypeOK
  <2> QED BY <1>1, <1>2, <1>3, <1>4, <2>1, <2>2
<1>6. CASE RestoreBegin(d)
  <2> DEFINE v == [source |-> mem[d].dest, dest |-> mem[d].source]
  <2>1. BeginCopy(fs[v.source], v.dest)
    BY <1>6 DEF RestoreBegin
  <2>2. p = mem[d].source
    BY <2>1 DEF BeginCopy, TypeOK
  <2> QED BY <1>1, <1>2, <1>3, <1>4, <2>2
<1> QED BY <1>5, <1>6

LEMMA EndWrites ==
    ASSUME ConfigsInv, EndCopy, NEW p \in Places, fs'[p] # fs[p]
    PROVE  p = copying[1] /\ fs'[p] = copying[2]
BY EndCopyFacts DEF ConfigsInv

\* A default is written by a backup, or by a restore of what was restored.
LEMMA DefaultWrites ==
    ASSUME ConfigsInv, [Next]_vars, NEW d \in Dests,
           fs'[Default(d)] # fs[Default(d)]
    PROVE  \/ pc = "backup" /\ d \in todo
           \/ pc = "restore" /\ saves > 1
<1> USE DEF ConfigsInv
<1>1. Default(d) \in Places /\ (\A e \in Dests : Live(e) # Default(d))
      /\ (\A e \in Dests : Default(e) = Default(d) => e = d)
  BY PlaceFacts
<1>2. saves \in Nat
  BY SetConfigsAssumption DEF TypeOK
<1>3. ASSUME NEW e \in Dests, RestoreRemove(e) \/ RestoreBegin(e)
      PROVE  pc = "restore" /\ saves > 1
  BY <1>1, <1>2, <1>3, RestoreWrites
<1>4. ASSUME RestoreEnd PROVE pc = "restore" /\ saves > 1
  <2>1. pc = "restore" /\ EndCopy
    BY <1>4 DEF RestoreEnd
  <2>2. Default(d) = copying[1] /\ copying # Nothing
    BY <1>1, <2>1, EndWrites, EndCopyFacts
  <2>3. PICK e \in DOMAIN state : Default(d) = state[e].source
    BY <2>1, <2>2 DEF CopyUnderWay
  <2>4. e \in Dests /\ (saves <= 1 => Truly(e, state[e]))
    BY DEF StateShape
  <2>5. Truly(e, state[e]) => state[e].source = Live(e)
    BY DEF Truly, Missing, Saved
  <2> QED BY <1>1, <1>2, <2>1, <2>3, <2>4, <2>5
<1>5. ASSUME NEW e \in Dests, BackupBegin(e)
      PROVE  pc = "backup" /\ d \in todo
  BY <1>1, <1>5 DEF BackupBegin, BeginCopy, TypeOK
<1>6. ASSUME NEW e \in Dests, BackupEnd(e)
      PROVE  pc = "backup" /\ d \in todo
  BY <1>1, <1>6, EndWrites DEF BackupEnd
<1>7. ASSUME NEW e \in Dests, CopyBegin(e) PROVE FALSE
  BY <1>1, <1>7 DEF CopyBegin, BeginCopy, TypeOK
<1>8. ASSUME CopyEnd PROVE FALSE
  <2>1. pc = "copy" /\ EndCopy
    BY <1>8 DEF CopyEnd
  <2>2. Default(d) = copying[1] /\ copying # Nothing
    BY <1>1, <2>1, EndWrites, EndCopyFacts
  <2>3. PICK e \in Available(conf) : copying = <<Live(e), conf.files[e].source>>
    BY <2>1, <2>2 DEF CopyUnderWay
  <2>4. e \in Dests
    BY <2>1, ConfigFacts DEF ProcessShape, Working
  <2> QED BY <1>1, <2>2, <2>3, <2>4
<1>9. ASSUME NEW e \in Dests, ServiceWrites(e) PROVE FALSE
  BY <1>1, <1>9 DEF ServiceWrites, TypeOK
<1> QED BY <1>3, <1>4, <1>5, <1>6, <1>7, <1>8, <1>9, NextCases, NoFileWritten

\* A destination is written by a restore, by a copy or by the service.
LEMMA LiveWrites ==
    ASSUME ConfigsInv, [Next]_vars, NEW d \in Dests, fs'[Live(d)] # fs[Live(d)]
    PROVE  \/ /\ pc = "restore" /\ d \in DOMAIN state
              /\ RestoreEnd \/ RestoreRemove(d) \/ RestoreBegin(d)
           \/ pc = "copy" /\ d \in Available(conf) /\ (CopyEnd \/ CopyBegin(d))
           \/ ServiceWrites(d)
<1> USE DEF ConfigsInv
<1>1. Live(d) \in Places /\ (\A e \in Dests : Live(d) # Default(e))
      /\ (\A e \in Dests : Live(d) = Live(e) => e = d)
  BY PlaceFacts
<1>2. \A e \in DOMAIN state : e \in Dests
         /\ (state[e].source = Live(d) => e = d)
  <2> TAKE e \in DOMAIN state
  <2>1. e \in Dests /\ state[e] \in {Missing(e), Saved(e), Restored(e)}
    BY DEF StateShape
  <2>2. state[e].source \in {Live(e), Default(e)}
    BY <2>1 DEF Missing, Saved, Restored
  <2> QED BY <1>1, <2>1, <2>2
<1>3. ASSUME NEW e \in Dests, RestoreRemove(e) \/ RestoreBegin(e)
      PROVE  pc = "restore" /\ d \in DOMAIN state
             /\ (RestoreRemove(d) \/ RestoreBegin(d))
  BY <1>1, <1>2, <1>3, RestoreWrites
<1>4. ASSUME RestoreEnd PROVE pc = "restore" /\ d \in DOMAIN state
  <2>1. pc = "restore" /\ EndCopy
    BY <1>4 DEF RestoreEnd
  <2>2. Live(d) = copying[1] /\ copying # Nothing
    BY <1>1, <2>1, EndWrites, EndCopyFacts
  <2>3. PICK e \in DOMAIN state : Live(d) = state[e].source
    BY <2>1, <2>2 DEF CopyUnderWay
  <2> QED BY <1>2, <2>1, <2>3
<1>5. ASSUME NEW e \in Dests, BackupBegin(e) PROVE FALSE
  BY <1>1, <1>5, PlaceFacts DEF BackupBegin, BeginCopy, TypeOK
<1>6. ASSUME NEW e \in Dests, BackupEnd(e) PROVE FALSE
  BY <1>1, <1>6, EndWrites DEF BackupEnd
<1>7. ASSUME NEW e \in Dests, CopyBegin(e)
      PROVE  pc = "copy" /\ d \in Available(conf) /\ CopyBegin(d)
  <2>1. e = d
    BY <1>1, <1>7, PlaceFacts DEF CopyBegin, BeginCopy, TypeOK
  <2> QED BY <1>7, <2>1 DEF CopyBegin
<1>8. ASSUME CopyEnd PROVE pc = "copy" /\ d \in Available(conf)
  <2>1. pc = "copy" /\ EndCopy
    BY <1>8 DEF CopyEnd
  <2>2. Live(d) = copying[1] /\ copying # Nothing
    BY <1>1, <2>1, EndWrites, EndCopyFacts
  <2>3. PICK e \in Available(conf) : copying = <<Live(e), conf.files[e].source>>
    BY <2>1, <2>2 DEF CopyUnderWay
  <2>4. e \in Dests
    BY <2>1, ConfigFacts DEF ProcessShape, Working
  <2> QED BY <1>1, <2>1, <2>2, <2>3, <2>4
<1>9. ASSUME NEW e \in Dests, ServiceWrites(e) PROVE ServiceWrites(d)
  <2>1. PICK c \in Contents \cup {Absent} : fs' = [fs EXCEPT ![Live(e)] = c]
    BY <1>9 DEF ServiceWrites
  <2>2. fs \in [Places -> Contents \cup {Absent, Partial}]
    BY DEF TypeOK
  <2>3. Live(d) = Live(e)
    BY <1>1, <2>1, <2>2
  <2>4. e = d
    BY <1>1, <2>3
  <2> QED BY <1>9, <2>4
<1> QED BY <1>3, <1>4, <1>5, <1>6, <1>7, <1>8, <1>9, NextCases, NoFileWritten

-----------------------------------------------------------------------------
(***************************************************************************)
(* What the state file says, and what is under /etc/kolla/defaults.        *)
(***************************************************************************)
\* The service writes only when a start has saved its state.
LEMMA ServiceFacts ==
    ASSUME ConfigsInv, NEW d \in Dests, ServiceWrites(d)
    PROVE  /\ saves > 0 /\ pc = "up"
           /\ \A e \in Dests : e # d \/ d \in DOMAIN state =>
                 original'[e] = original[e]
           /\ d \notin DOMAIN state => original'[d] = fs'[Live(d)]
           /\ touched' = touched \cup {d}
           /\ UNCHANGED <<strategy, config, state, torn, configured, run_command,
                          pc, conf, mem, todo, copying, exit, saves, applied>>
<1>1. PICK c \in Contents \cup {Absent} :
          /\ fs' = [fs EXCEPT ![Live(d)] = c]
          /\ original' = [original EXCEPT ![d] =
                             IF d \in DOMAIN state THEN original[d] ELSE c]
  BY DEF ServiceWrites
<1>2. fs'[Live(d)] = c
  BY <1>1, PlaceFacts DEF ConfigsInv, TypeOK
<1>3. \A e \in Dests : original'[e] = IF e = d /\ d \notin DOMAIN state
                                      THEN c ELSE original[e]
  BY <1>1 DEF ConfigsInv, TypeOK
<1> QED BY <1>2, <1>3 DEF ServiceWrites, ConfigsInv, ProcessShape, process

\* What a destination held is remembered as long as it is tracked.
LEMMA OriginalKept ==
    ASSUME ConfigsInv, [Next]_vars, NEW d \in DOMAIN state
    PROVE  original'[d] = original[d]
<1>1. d \in Dests
  BY DEF ConfigsInv, StateShape
<1> QED BY <1>1, HistoryWrites, ServiceFacts

\* Before the second save no default of what is tracked is written.
LEMMA TruthStays ==
    ASSUME ConfigsInv, [Next]_vars, saves <= 1, NEW d \in DOMAIN state
    PROVE  /\ Truly(d, state[d])
           /\ fs'[Default(d)] = fs[Default(d)]
           /\ original'[d] = original[d]
<1> USE DEF ConfigsInv
<1>1. d \in Dests /\ Truly(d, state[d])
  BY DEF StateShape
<1>2. saves \in Nat
  BY SetConfigsAssumption DEF TypeOK
<1>3. ~(pc = "backup" /\ d \in todo)
  BY DEF MemShape
<1> QED BY <1>1, <1>2, <1>3, DefaultWrites, OriginalKept

LEMMA UndoShape ==
    ASSUME NEW d \in Dests
    PROVE  /\ Undo(Missing(d)) = Missing(d)
           /\ Undo(Saved(d)) = Restored(d)
           /\ Undo(Restored(d)) = Saved(d)
           /\ Saved(d) # Missing(d) /\ Restored(d) # Missing(d)
           /\ Missing(d).dest = Null /\ Missing(d).source = Live(d)
           /\ Saved(d).dest = Default(d) /\ Saved(d).source = Live(d)
           /\ Restored(d).dest = Live(d) /\ Restored(d).source = Default(d)
           /\ Live(d) # Null /\ Default(d) # Null
BY PlaceFacts DEF Undo, Missing, Saved, Restored

\* What is written into the state file: what was tracked, undone, and what
\* this start tracks, truly.
LEMMA SavedState ==
    ASSUME ConfigsInv, SaveEnd
    PROVE  /\ state' = mem /\ saves' = saves + 1 /\ fs' = fs
           /\ original' = original
           /\ DOMAIN mem = DOMAIN state \cup (Available(conf) \ Wildcards)
           /\ \A d \in DOMAIN state : mem[d] = Undo(state[d])
           /\ \A d \in DOMAIN mem \ DOMAIN state : Truly(d, mem[d])
BY DEF ConfigsInv, ProcessShape, MemShape, SaveEnd

LEMMA StateStep ==
    ASSUME ConfigsInv, [Next]_vars
    PROVE  StateShape'
<1> USE DEF ConfigsInv
<1>1. saves \in Nat
  BY SetConfigsAssumption DEF TypeOK
<1>2. CASE SaveEnd
  <2>1. DOMAIN mem \subseteq Dests \ Wildcards
    BY <1>2, SavedState, ConfigFacts
       DEF SaveEnd, StateShape, ProcessShape, Working
  <2>2. saves' # 0 /\ (saves' <= 1 => DOMAIN state = {})
    BY <1>1, <1>2, SavedState DEF StateShape
  <2>3. ASSUME NEW d \in DOMAIN mem
        PROVE  /\ mem[d] \in {Missing(d), Saved(d), Restored(d)}
               /\ mem[d] = Missing(d) => original[d] = Absent
    <3>1. CASE d \in DOMAIN state
      BY <1>2, <2>1, <3>1, SavedState, UndoShape DEF StateShape
    <3>2. CASE d \notin DOMAIN state
      BY <1>2, <2>1, <3>2, <2>3, SavedState, UndoShape DEF Truly
    <3> QED BY <3>1, <3>2
  <2>4. ASSUME NEW d \in DOMAIN mem, saves' <= 1 PROVE Truly(d, mem[d])
    BY <1>2, <2>2, <2>4, SavedState
  <2> QED BY <1>2, <2>1, <2>2, <2>3, <2>4, SavedState
          DEF StateShape, Truly, Missing, Saved, Restored
<1>3. CASE ~SaveEnd
  <2>1. state' = state /\ saves' = saves
    BY <1>3, HistoryWrites
  <2>2. \A d \in DOMAIN state : original'[d] = original[d]
    BY OriginalKept
  <2>3. \A d \in DOMAIN state : saves <= 1 =>
           Truly(d, state[d]) /\ fs'[Default(d)] = fs[Default(d)]
    BY TruthStays
  <2> QED BY <2>1, <2>2, <2>3 DEF StateShape, Truly, Missing, Saved, Restored
<1> QED BY <1>2, <1>3

\* What a backup is about to save is what was there.
LEMMA BackupFacts ==
    ASSUME ConfigsInv, pc = "backup", NEW d \in todo
    PROVE  /\ d \in (Dests \ Wildcards) \ DOMAIN mem
           /\ d \in Available(conf) /\ d \notin DOMAIN state
           /\ fs[Live(d)] = original[d]
<1>1. d \in Available(conf) \ Wildcards /\ d \notin DOMAIN mem
  BY DEF ConfigsInv, MemShape
<1>2. Available(conf) \subseteq Dests
  BY ConfigFacts DEF ConfigsInv, ProcessShape, Working
<1> QED BY <1>1, <1>2 DEF ConfigsInv, MemShape, DefaultsShape

LEMMA MemStep ==
    ASSUME ConfigsInv, [Next]_vars
    PROVE  MemShape'
<1> USE DEF ConfigsInv
<1>1. CASE Start
  BY <1>1 DEF Start, Fail, ExitTo, MemShape
<1>2. ASSUME NEW d \in Dests, RestoreRemove(d) PROVE MemShape'
  <2>1. d \in DOMAIN state /\ mem[d] = state[d] /\ Undo(state[d]) = state[d]
    BY <1>2 DEF RestoreRemove, MemShape, Undo
  <2> QED BY <1>2, <2>1 DEF RestoreRemove, MemShape
<1>3. ASSUME NEW d \in Dests, RestoreBegin(d) PROVE MemShape'
  <2> DEFINE v == [source |-> mem[d].dest, dest |-> mem[d].source]
  <2>1. CASE fs[v.source] = Absent
    BY <1>3, <2>1 DEF RestoreBegin, Fail, ExitTo, MemShape
  <2>2. CASE fs[v.source] # Absent
    <3>1. /\ pc = "restore" /\ d \in todo /\ mem[d].dest # Null
          /\ mem' = [mem EXCEPT ![d] = v] /\ todo' = todo \ {d}
          /\ pc' = pc /\ conf' = conf /\ state' = state
      BY <1>3, <2>2 DEF RestoreBegin
    <3>2. d \in DOMAIN state /\ v = Undo(state[d])
      BY <3>1 DEF MemShape, Undo
    <3>3. DOMAIN mem = DOMAIN state /\ todo \subseteq DOMAIN state
          /\ (\A e \in DOMAIN state :
                mem[e] = IF e \in todo THEN state[e] ELSE Undo(state[e]))
      BY <3>1 DEF MemShape
    <3>4. \A e \in DOMAIN state :
             mem'[e] = IF e \in todo' THEN state[e] ELSE Undo(state[e])
      BY <3>1, <3>2, <3>3
    <3> QED BY <3>1, <3>3, <3>4 DEF MemShape, Undo
  <2> QED BY <2>1, <2>2
<1>4. CASE RestoreEnd
  BY <1>4 DEF RestoreEnd, MemShape, Undo
<1>5. CASE BackupStarts
  BY <1>5 DEF BackupStarts, ToBackUp, MemShape, Undo
<1>6. ASSUME NEW d \in Dests, BackupAbsent(d) PROVE MemShape'
  <2>1. /\ pc = "backup" /\ d \in todo /\ fs[Live(d)] = Absent
        /\ Track(d, Null) /\ todo' = todo \ {d}
        /\ UNCHANGED <<fs, state, pc, conf, original>>
    BY <1>6 DEF BackupAbsent, history
  <2>2. d \notin DOMAIN mem /\ d \notin DOMAIN state /\ original[d] = Absent
    BY <2>1, BackupFacts
  <2>3. DOMAIN mem' = DOMAIN mem \cup {d} /\ mem'[d] = Missing(d)
        /\ (\A e \in DOMAIN mem : mem'[e] = mem[e])
    BY <2>1, <2>2 DEF Track, Missing
  <2>4. \A e \in DOMAIN mem' \ DOMAIN state : Truly(e, mem[e])'
    BY <2>1, <2>2, <2>3 DEF MemShape, Truly, Missing, Saved
  <2> QED BY <2>1, <2>2, <2>3, <2>4 DEF MemShape, Truly, Missing, Saved, Undo
<1>7. ASSUME NEW d \in Dests, BackupBegin(d) PROVE MemShape'
  <2>1. /\ pc = "backup" /\ d \in todo
        /\ UNCHANGED <<state, pc, conf, mem, todo, original>>
    BY <1>7 DEF BackupBegin, history
  <2>2. \A e \in DOMAIN mem \ DOMAIN state :
           e \in Dests /\ fs'[Default(e)] = fs[Default(e)]
    <3>1. DOMAIN mem \subseteq Dests
      BY StateFacts DEF TypeOK
    <3> QED BY <2>1, <3>1, DefaultWrites, <1>7, BackupFacts DEF Next, Configure
  <2> QED BY <2>1, <2>2 DEF MemShape, Truly, Missing, Saved, Undo
<1>8. ASSUME NEW d \in Dests, BackupEnd(d) PROVE MemShape'
  <2>1. /\ pc = "backup" /\ d \in todo /\ EndCopy /\ copying[1] = Default(d)
        /\ Track(d, Default(d)) /\ todo' = todo \ {d}
        /\ UNCHANGED <<state, pc, conf, original>>
    BY <1>8 DEF BackupEnd, history
  <2>2. d \notin DOMAIN mem /\ d \notin DOMAIN state
    BY <2>1, BackupFacts
  <2>3. DOMAIN mem' = DOMAIN mem \cup {d} /\ mem'[d] = Saved(d)
        /\ (\A e \in DOMAIN mem : mem'[e] = mem[e])
    BY <2>1, <2>2 DEF Track, Saved
  <2>4. copying[2] = original[d]
    BY <2>1, EndCopyFacts, PlaceFacts DEF CopyUnderWay, TypeOK
  <2>5. fs'[Default(d)] = original[d] /\ original[d] # Absent
    BY <2>1, <2>4, EndCopyFacts, ConfigFilesAssumption
  <2>6. DOMAIN mem \subseteq Dests
    BY StateFacts DEF TypeOK
  <2>7. \A e \in DOMAIN mem : fs'[Default(e)] = fs[Default(e)]
    BY <2>1, <2>2, <2>6, EndCopyFacts, PlaceFacts
  <2>8. \A e \in DOMAIN mem' \ DOMAIN state : Truly(e, mem[e])'
    BY <2>1, <2>2, <2>3, <2>5, <2>7 DEF MemShape, Truly, Missing, Saved
  <2> QED BY <2>1, <2>2, <2>3, <2>8 DEF MemShape, Truly, Missing, Saved, Undo
<1>9. CASE SaveBegin
  BY <1>9 DEF SaveBegin, history, MemShape, Truly, Missing, Saved, Undo
<1>10. CASE SaveEnd
  BY <1>10, SavedState DEF SaveEnd, MemShape
<1>11. ASSUME NEW d \in Dests, CopyMissing(d) PROVE MemShape'
  BY <1>11 DEF CopyMissing, Fail, ExitTo, MemShape, Available, Declared
<1>12. ASSUME NEW d \in Dests, CopyBegin(d) PROVE MemShape'
  BY <1>12 DEF CopyBegin, MemShape, Available, Declared
<1>13. CASE CopyEnd
  BY <1>13 DEF CopyEnd, MemShape, Available, Declared
<1>14. CASE WriteCommand
  BY <1>14 DEF WriteCommand, MemShape, Available, Declared
<1>15. CASE Finish
  BY <1>15 DEF Finish, ExitTo, MemShape
<1>16. CASE Halt
  BY <1>16 DEF Halt, ExitTo, MemShape
<1>17. CASE OperatorEdits
  BY <1>17 DEF OperatorEdits, process, MemShape
<1>18. ASSUME NEW d \in Dests, ServiceWrites(d) PROVE MemShape'
  BY <1>18, ServiceFacts DEF MemShape
<1>19. CASE UNCHANGED vars
  BY <1>19 DEF vars, process, history, MemShape, Truly, Missing, Saved, Undo,
               Available, Declared
<1> QED BY <1>1, <1>2, <1>3, <1>4, <1>5, <1>6, <1>7, <1>8, <1>9, <1>10, <1>11,
           <1>12, <1>13, <1>14, <1>15, <1>16, <1>17, <1>18, <1>19, NextCases

LEMMA DefaultsStep ==
    ASSUME ConfigsInv, [Next]_vars
    PROVE  DefaultsShape'
<1> USE DEF ConfigsInv
<1>1. saves \in Nat /\ saves' \in Nat
  BY TypeStep, SetConfigsAssumption DEF TypeOK
<1>2. DOMAIN state \subseteq DOMAIN state'
  BY SavedState, HistoryWrites
<1>3. ASSUME NEW d \in (Dests \ Wildcards) \ DOMAIN state'
      PROVE  fs'[Live(d)] = original'[d]
  <2>1. d \notin DOMAIN state /\ fs[Live(d)] = original[d]
    BY <1>2, <1>3 DEF DefaultsShape
  <2>2. CASE \E e \in Dests : ServiceWrites(e)
    <3>1. PICK e \in Dests : ServiceWrites(e)
      BY <2>2
    <3>2. CASE e = d
      BY <2>1, <3>1, <3>2, ServiceFacts
    <3>3. CASE e # d
      <4>1. fs'[Live(d)] = fs[Live(d)]
        BY <3>1, <3>3, PlaceFacts DEF ServiceWrites, TypeOK
      <4> QED BY <2>1, <3>1, <3>3, <4>1, ServiceFacts
    <3> QED BY <3>2, <3>3
  <2>3. CASE ~(\E e \in Dests : ServiceWrites(e))
    <3>1. original' = original
      BY <2>3, HistoryWrites
    <3>2. ~(pc = "copy" /\ d \in Available(conf))
      BY <2>1 DEF MemShape
    <3>3. fs'[Live(d)] = fs[Live(d)]
      BY <2>1, <2>3, <3>2, LiveWrites
    <3> QED BY <2>1, <3>1, <3>3
  <2> QED BY <2>2, <2>3
<1>4. ASSUME NEW d \in Dests, saves' <= 1, original'[d] = Absent,
             saves' = 0 \/ d \in DOMAIN state'
      PROVE  fs'[Default(d)] = Absent
  <2>1. CASE SaveEnd
    <3>1. saves = 0 /\ original[d] = Absent /\ fs' = fs
      BY <1>1, <1>4, <2>1, SavedState
    <3> QED BY <3>1 DEF DefaultsShape
  <2>2. CASE ~SaveEnd
    <3>1. saves' = saves /\ state' = state
      BY <2>2, HistoryWrites
    <3>2. original[d] = Absent
      BY <1>1, <1>4, <3>1, HistoryWrites, ServiceFacts
    <3>3. fs[Default(d)] = Absent
      BY <1>4, <3>1, <3>2 DEF DefaultsShape
    <3>4. CASE fs'[Default(d)] # fs[Default(d)]
      <4>1. pc = "backup" /\ d \in todo
        BY <1>1, <1>4, <3>1, <3>4, DefaultWrites
      <4>2. fs[Live(d)] = Absent /\ copying # <<Default(d), original[d]>>
        BY <3>2, <4>1, BackupFacts, ConfigFilesAssumption DEF TypeOK, Nothing
      <4>3. \A e \in Dests : ~BackupBegin(e)
        <5>1. SUFFICES ASSUME NEW e \in Dests, BackupBegin(e) PROVE FALSE
          OBVIOUS
        <5>2. Default(d) = Default(e)
          BY <3>4, <5>1, PlaceFacts DEF BackupBegin, BeginCopy, TypeOK
        <5> QED BY <4>2, <5>1, <5>2, PlaceFacts DEF BackupBegin
      <4>4. \A e \in Dests : ~BackupEnd(e)
        <5>1. SUFFICES ASSUME NEW e \in Dests, BackupEnd(e) PROVE FALSE
          OBVIOUS
        <5>2. copying[1] = Default(d) /\ copying # Nothing
          BY <3>4, <5>1, EndWrites, EndCopyFacts, PlaceFacts DEF BackupEnd
        <5>3. PICK x \in todo : copying = <<Default(x), original[x]>>
          BY <4>1, <5>2 DEF CopyUnderWay
        <5>4. x = d
          BY <5>2, <5>3, PlaceFacts DEF TypeOK
        <5> QED BY <4>2, <5>3, <5>4
      <4>5. PICK e \in Dests : BackupBegin(e) \/ BackupEnd(e)
        BY <3>4, <4>1, NextCases, NoFileWritten, ServiceFacts
           DEF RestoreRemove, RestoreBegin, RestoreEnd, CopyBegin, CopyEnd
      <4> QED BY <4>3, <4>4, <4>5
    <3> QED BY <3>3, <3>4
  <2> QED BY <2>1, <2>2
<1> QED BY <1>3, <1>4 DEF DefaultsShape

-----------------------------------------------------------------------------
(***************************************************************************)
(* The copy under way, what a start has undone and what it has applied.    *)
(***************************************************************************)
\* A restore, by the source and the destination of the copy.
LEMMA RestoreFacts ==
    ASSUME ConfigsInv, NEW d \in Dests, RestoreBegin(d)
    PROVE  /\ pc = "restore" /\ copying = Nothing
           /\ d \in DOMAIN state /\ d \in todo /\ state[d].dest # Null
           /\ UNCHANGED <<state, original, saves>>
           /\ saves <= 1 =>
                 /\ state[d] = Saved(d) /\ fs[Default(d)] = original[d]
                 /\ original[d] # Absent
           /\ \/ /\ fs[state[d].dest] = Absent /\ exit' = "1"
                 /\ pc' = "down" /\ copying' = Nothing /\ fs' = fs
              \/ /\ pc' = pc /\ todo' = todo \ {d} /\ copying' # Nothing
                 /\ copying' = <<state[d].source, fs[state[d].dest]>>
                 /\ BeginCopy(fs[state[d].dest], state[d].source)
<1> USE DEF ConfigsInv
<1>1. pc = "restore" /\ d \in todo /\ d \in DOMAIN state /\ mem[d] = state[d]
  BY DEF RestoreBegin, MemShape
<1>2. state[d].dest # Null /\ copying = Nothing
      /\ UNCHANGED <<state, original, saves>>
  BY <1>1, ExitFacts DEF RestoreBegin, Fail, BeginCopy, history
<1>3. ASSUME saves <= 1
      PROVE  /\ state[d] = Saved(d) /\ fs[Default(d)] = original[d]
             /\ original[d] # Absent
  BY <1>1, <1>2, <1>3, UndoShape DEF StateShape, Truly
<1>4. CASE fs[state[d].dest] = Absent
  BY <1>1, <1>2, <1>3, <1>4 DEF RestoreBegin, Fail, ExitTo
<1>5. CASE fs[state[d].dest] # Absent
  <2>1. /\ pc' = pc /\ todo' = todo \ {d}
        /\ BeginCopy(fs[state[d].dest], state[d].source)
    BY <1>1, <1>5 DEF RestoreBegin
  <2> QED BY <1>1, <1>2, <1>3, <2>1 DEF BeginCopy, Nothing
<1> QED BY <1>4, <1>5

LEMMA CopyStep ==
    ASSUME ConfigsInv, [Next]_vars
    PROVE  CopyUnderWay'
<1> USE DEF ConfigsInv
<1>1. ASSUME copying' = Nothing PROVE CopyUnderWay'
  BY <1>1 DEF CopyUnderWay, Nothing
<1>2. ASSUME NEW d \in Dests, RestoreBegin(d), copying' # Nothing
      PROVE  CopyUnderWay'
  <2>1. /\ pc' = "restore" /\ d \in DOMAIN state' \ todo'
        /\ state' = state /\ saves' = saves /\ original' = original
        /\ state[d].dest # Null
        /\ copying' = <<state[d].source, fs[state[d].dest]>>
    BY <1>2, RestoreFacts
  <2>2. saves <= 1 => fs[state[d].dest] = original[d]
    BY <1>2, RestoreFacts, UndoShape
  <2> QED BY <2>1, <2>2 DEF CopyUnderWay
<1>3. ASSUME NEW d \in Dests, BackupBegin(d) PROVE CopyUnderWay'
  <2>1. /\ pc' = "backup" /\ d \in todo' /\ d \in todo /\ pc = "backup"
        /\ original' = original /\ copying' = <<Default(d), fs[Live(d)]>>
    BY <1>3 DEF BackupBegin, BeginCopy, history
  <2>2. fs[Live(d)] = original[d]
    BY <2>1, BackupFacts
  <2> QED BY <2>1, <2>2 DEF CopyUnderWay
<1>4. ASSUME NEW d \in Dests, CopyBegin(d) PROVE CopyUnderWay'
  <2>1. /\ pc' = "copy" /\ d \in Available(conf) \ todo' /\ conf' = conf
        /\ copying' = <<Live(d), conf.files[d].source>>
    BY <1>4 DEF CopyBegin, BeginCopy
  <2> QED BY <2>1 DEF CopyUnderWay, Available, Declared
<1>5. CASE UNCHANGED vars
  BY <1>5 DEF vars, process, history, CopyUnderWay, Available, Declared
<1>6. ASSUME NEW d \in Dests,
             RestoreRemove(d) \/ BackupAbsent(d) \/ BackupEnd(d)
             \/ CopyMissing(d) \/ ServiceWrites(d)
      PROVE  copying' = Nothing
  <2>1. ServiceWrites(d) => copying' = Nothing
    BY ServiceFacts DEF ProcessShape, Working
  <2>2. BackupEnd(d) => copying' = Nothing
    BY DEF BackupEnd, EndCopy
  <2> QED BY <1>6, <2>1, <2>2
          DEF RestoreRemove, BackupAbsent, CopyMissing, Fail, ExitTo
<1>7. ASSUME \/ Start \/ RestoreEnd \/ BackupStarts \/ SaveBegin \/ SaveEnd
             \/ CopyEnd \/ WriteCommand \/ Finish \/ Halt \/ OperatorEdits
      PROVE  copying' = Nothing
  BY <1>7 DEF Start, RestoreEnd, BackupStarts, SaveBegin, SaveEnd, CopyEnd,
              WriteCommand, Finish, Halt, OperatorEdits, process, Fail, ExitTo,
              EndCopy, ProcessShape, Working
<1> QED BY <1>1, <1>2, <1>3, <1>4, <1>5, <1>6, <1>7, NextCases

\* The steps of a start while it restores.
LEMMA RestorePhase ==
    ASSUME [Next]_vars, pc = "restore", pc' = "restore"
    PROVE  \/ RestoreEnd
           \/ \E d \in Dests : RestoreRemove(d) \/ RestoreBegin(d)
           \/ UNCHANGED vars
<1>1. ~Start /\ ~BackupStarts /\ ~SaveBegin /\ ~SaveEnd /\ ~CopyEnd
      /\ ~WriteCommand
  BY DEF Start, BackupStarts, SaveBegin, SaveEnd, CopyEnd, WriteCommand
<1>2. ~Finish /\ ~Halt /\ ~OperatorEdits
  BY DEF Finish, Halt, OperatorEdits, ExitTo
<1>3. \A d \in Dests :
         /\ ~BackupAbsent(d) /\ ~BackupBegin(d) /\ ~BackupEnd(d)
         /\ ~CopyMissing(d) /\ ~CopyBegin(d) /\ ~ServiceWrites(d)
  BY DEF BackupAbsent, BackupBegin, BackupEnd, CopyMissing, CopyBegin,
         ServiceWrites
<1> QED BY <1>1, <1>2, <1>3, NextCases

\* While a start restores, what it has undone stays so.
LEMMA RestoreUndoes ==
    ASSUME ConfigsInv, [Next]_vars, pc = "restore", pc' = "restore",
           NEW d \in DOMAIN state' \ todo', Undoable(d, 1)'
    PROVE  Undone(d)' \/ copying' = <<Live(d), original'[d]>>
<1> USE DEF ConfigsInv
<1>1. state' = state /\ saves' = saves /\ d \in DOMAIN state /\ d \in Dests
      /\ Undoable(d, 1)
  <2>1. ~SaveEnd
    BY DEF SaveEnd
  <2> QED BY <2>1, HistoryWrites DEF StateShape, Undoable
<1>2. original'[d] = original[d]
  BY <1>1, OriginalKept
<1>3. /\ Live(d) \in Places /\ saves \in Nat
      /\ \A e \in DOMAIN state : state[e].source \in Places
            /\ (state[e].source = Live(d) => e = d)
  <2> SUFFICES ASSUME NEW e \in DOMAIN state
               PROVE  state[e].source \in Places
                      /\ (state[e].source = Live(d) => e = d)
    BY <1>1, PlaceFacts, SetConfigsAssumption DEF TypeOK
  <2>1. e \in Dests /\ state[e].source \in {Live(e), Default(e)}
    BY UndoShape DEF StateShape
  <2> QED BY <1>1, <2>1, PlaceFacts
<1>4. d \notin todo => Undone(d) \/ copying = <<Live(d), original[d]>>
  BY <1>1 DEF UndoneSoFar
<1>5. ASSUME d \in todo
      PROVE  Undone(d)' \/ copying' = <<Live(d), original'[d]>>
  <2>1. PICK e \in Dests : RestoreRemove(e) \/ RestoreBegin(e)
    BY <1>5, RestorePhase DEF RestoreEnd, vars, process
  <2>2. CASE RestoreRemove(e)
    <3>1. /\ e \in todo /\ mem[e].dest = Null /\ todo' = todo \ {e}
          /\ fs' = [fs EXCEPT ![Live(e)] = Absent]
      BY <2>2 DEF RestoreRemove
    <3>2. e = d
      BY <1>5, <3>1
    <3>3. state[d].dest = Null
      BY <1>1, <3>1, <3>2 DEF MemShape
    <3>4. original[d] = Absent
      BY <1>1, <3>3, UndoShape DEF StateShape
    <3> QED BY <1>2, <1>3, <3>1, <3>2, <3>4 DEF Undone, TypeOK
  <2>3. CASE RestoreBegin(e)
    <3>1. /\ todo' = todo \ {e} /\ state[e].dest # Null /\ e = d
          /\ copying' = <<state[e].source, fs[state[e].dest]>>
      BY <1>5, <2>3, RestoreFacts
    <3>2. saves <= 1
      BY <1>1, <3>1 DEF Undoable
    <3>3. state[d] = Saved(d) /\ fs[Default(d)] = original[d]
      BY <2>3, <3>1, <3>2, RestoreFacts
    <3> QED BY <1>1, <1>2, <3>1, <3>3, UndoShape
  <2> QED BY <2>1, <2>2, <2>3
<1>6. ASSUME d \notin todo, Undone(d), fs'[Live(d)] # fs[Live(d)]
      PROVE  Undone(d)'
  <2>1. CASE RestoreEnd
    <3>1. EndCopy /\ Live(d) = copying[1] /\ fs'[Live(d)] = copying[2]
          /\ copying # Nothing
      BY <1>3, <1>6, <2>1, EndWrites, EndCopyFacts DEF RestoreEnd
    <3>2. PICK e \in DOMAIN state :
             /\ state[e].dest # Null /\ copying[1] = state[e].source
             /\ saves <= 1 => copying[2] = original[e]
      BY <3>1 DEF CopyUnderWay
    <3>3. e = d
      BY <1>3, <3>1, <3>2
    <3>4. saves <= 1
      BY <1>1, <3>2, <3>3 DEF Undoable
    <3> QED BY <1>2, <3>1, <3>2, <3>3, <3>4 DEF Undone
  <2>2. CASE \E e \in Dests : RestoreRemove(e) \/ RestoreBegin(e)
    <3>1. PICK e \in Dests : RestoreRemove(e) \/ RestoreBegin(e)
      BY <2>2
    <3>2. e \in todo /\ e \in DOMAIN state /\ Live(d) = state[e].source
      BY <1>3, <1>6, <3>1, RestoreWrites
    <3> QED BY <1>3, <1>6, <3>2
  <2>3. ~(\E e \in Dests : ServiceWrites(e))
    BY ServiceFacts
  <2> QED BY <1>1, <1>6, <2>1, <2>2, <2>3, LiveWrites
<1>7. ASSUME d \notin todo, copying = <<Live(d), original[d]>>
      PROVE  Undone(d)' \/ copying' = <<Live(d), original'[d]>>
  <2>1. copying # Nothing
    BY <1>7 DEF Nothing
  <2>2. CASE RestoreEnd
    <3>1. EndCopy
      BY <2>2 DEF RestoreEnd
    <3>2. fs'[Live(d)] = original[d]
      BY <1>7, <3>1, EndCopyFacts
    <3> QED BY <1>2, <3>2 DEF Undone
  <2>3. CASE ~RestoreEnd
    <3>1. copying' = copying
      BY <2>1, <2>3, RestorePhase, RestoreFacts DEF RestoreRemove, vars, process
    <3> QED BY <1>2, <1>7, <3>1
  <2> QED BY <2>2, <2>3
<1> QED BY <1>2, <1>4, <1>5, <1>6, <1>7 DEF Undone

\* How a start goes from phase to phase.
LEMMA Phases ==
    ASSUME [Next]_vars
    PROVE  /\ pc' = "restore" => pc = "restore" \/ Start
           /\ pc' \in {"backup", "saving"} =>
                 pc \in {"backup", "saving"} \/ BackupStarts
           /\ pc' = "copy" => pc = "copy" \/ SaveEnd
           /\ pc' = "finish" => pc = "finish" \/ WriteCommand
           /\ pc' = "up" => pc = "up" \/ Finish
                               \/ (Start /\ strategy = "COPY_ONCE" /\ configured)
           /\ pc' \in Working /\ pc \in Working => conf' = conf
<1>1. CASE Start
  BY <1>1 DEF Start, Fail, ExitTo, Working
<1>2. ASSUME NEW d \in Dests,
             RestoreRemove(d) \/ RestoreBegin(d) \/ CopyMissing(d)
      PROVE  (pc' = pc /\ conf' = conf) \/ pc' = "down"
  BY <1>2 DEF RestoreRemove, RestoreBegin, CopyMissing, Fail, ExitTo
<1>3. ASSUME NEW d \in Dests,
             BackupAbsent(d) \/ BackupBegin(d) \/ BackupEnd(d) \/ CopyBegin(d)
             \/ ServiceWrites(d)
      PROVE  pc' = pc /\ conf' = conf
  BY <1>3 DEF BackupAbsent, BackupBegin, BackupEnd, CopyBegin, ServiceWrites,
              process
<1>4. CASE RestoreEnd \/ CopyEnd \/ OperatorEdits \/ UNCHANGED vars
  BY <1>4 DEF RestoreEnd, CopyEnd, OperatorEdits, vars, process
<1>5. CASE BackupStarts \/ SaveBegin \/ SaveEnd \/ WriteCommand
  BY <1>5 DEF BackupStarts, SaveBegin, SaveEnd, WriteCommand
<1>6. CASE Finish \/ Halt
  BY <1>6 DEF Finish, Halt, ExitTo, Working
<1>7. CASE \E d \in Dests : RestoreRemove(d) \/ RestoreBegin(d) \/ CopyMissing(d)
  BY <1>2, <1>7 DEF Working
<1>8. CASE \E d \in Dests : BackupAbsent(d) \/ BackupBegin(d) \/ BackupEnd(d)
                            \/ CopyBegin(d) \/ ServiceWrites(d)
  BY <1>3, <1>8
<1> QED BY <1>1, <1>4, <1>5, <1>6, <1>7, <1>8, NextCases

LEMMA UndoneStep ==
    ASSUME ConfigsInv, [Next]_vars
    PROVE  UndoneSoFar'
<1> USE DEF ConfigsInv
<1>a. saves \in Nat /\ DOMAIN state \subseteq Dests
  BY SetConfigsAssumption DEF TypeOK, StateShape
\* What is undone stays undone if the destination is not written.
<1>b. ASSUME NEW d \in DOMAIN state, Undone(d), fs'[Live(d)] = fs[Live(d)]
      PROVE  Undone(d)'
  BY <1>b, OriginalKept DEF Undone
<1>c. ASSUME ~SaveEnd
      PROVE  /\ state' = state /\ strategy' = strategy
             /\ \A d, n : Undoable(d, n)' <=> Undoable(d, n)
  BY <1>c, HistoryWrites DEF Undoable
<1>1. ASSUME pc' = "restore", NEW d \in DOMAIN state' \ todo', Undoable(d, 1)'
      PROVE  Undone(d)' \/ copying' = <<Live(d), original'[d]>>
  <2>1. Start => todo' = DOMAIN state'
    BY <1>1 DEF Start, ExitTo, Fail
  <2> QED BY <1>1, <2>1, Phases, RestoreUndoes
<1>2. ASSUME pc' \in {"backup", "saving"}, NEW d \in DOMAIN state',
             Undoable(d, 1)'
      PROVE  Undone(d)'
  <2>1. ~SaveEnd /\ (\A e \in Dests : ~ServiceWrites(e))
    BY <1>2, ServiceFacts DEF SaveEnd
  <2>2. d \in DOMAIN state /\ Undoable(d, 1)
    BY <1>2, <1>c, <2>1
  <2>3. CASE BackupStarts
    <3>1. pc = "restore" /\ copying = Nothing /\ todo = {} /\ fs' = fs
      BY <2>3 DEF BackupStarts
    <3>2. Undone(d)
      BY <2>2, <3>1 DEF UndoneSoFar, Nothing
    <3> QED BY <1>b, <2>2, <3>1, <3>2
  <2>4. CASE pc \in {"backup", "saving"}
    <3>1. Undone(d)
      BY <2>2, <2>4 DEF UndoneSoFar
    <3>2. fs'[Live(d)] = fs[Live(d)]
      BY <1>a, <2>1, <2>2, <2>4, LiveWrites
    <3> QED BY <1>b, <2>2, <3>1, <3>2
  <2> QED BY <1>2, <2>3, <2>4, Phases
<1>3. ASSUME pc' \in {"copy", "finish"},
             NEW d \in DOMAIN state' \ Available(conf'), Undoable(d, 2)'
      PROVE  Undone(d)'
  <2>1. CASE SaveEnd
    <3>1. /\ pc = "saving" /\ conf' = conf /\ state' = mem /\ fs' = fs
          /\ saves' = saves + 1
      BY <2>1 DEF SaveEnd
    <3>2. d \in DOMAIN state /\ d \in Dests /\ mem[d] = Undo(state[d])
      BY <1>3, <1>a, <2>1, <3>1, SavedState
    <3>3. mem[d].dest = Null => state[d].dest = Null
      BY <3>2, UndoShape DEF StateShape
    <3>4. Undoable(d, 1)
      BY <1>3, <1>a, <3>1, <3>3 DEF Undoable
    <3>5. Undone(d)
      BY <3>1, <3>2, <3>4 DEF UndoneSoFar
    <3> QED BY <1>b, <3>1, <3>2, <3>5
  <2>2. CASE ~SaveEnd
    <3>1. pc \in {"copy", "finish"} /\ conf' = conf
      <4>1. pc = "copy" \/ pc = "finish" \/ WriteCommand
        BY <1>3, <2>2, Phases
      <4>2. WriteCommand => pc = "copy"
        BY DEF WriteCommand
      <4> QED BY <1>3, <4>1, <4>2, Phases DEF Working
    <3>2. d \in DOMAIN state \ Available(conf) /\ Undoable(d, 2)
      BY <1>3, <1>c, <2>2, <3>1
    <3>3. Undone(d)
      BY <3>1, <3>2 DEF UndoneSoFar
    <3>4. fs'[Live(d)] = fs[Live(d)]
      BY <1>a, <3>1, <3>2, LiveWrites, ServiceFacts
    <3> QED BY <1>b, <3>2, <3>3, <3>4
  <2> QED BY <2>1, <2>2
<1>4. ASSUME pc' = "up", strategy' = "COPY_ALWAYS",
             NEW d \in (DOMAIN state' \ Available(applied')) \ touched',
             Undoable(d, 2)'
      PROVE  Undone(d)'
  <2>1. strategy = "COPY_ALWAYS" /\ state' = state /\ Undoable(d, 2)
        /\ d \in DOMAIN state
    <3>1. ~SaveEnd
      BY <1>4 DEF SaveEnd
    <3> QED BY <1>4, <1>c, <3>1
  <2>2. CASE Finish
    <3>1. pc = "finish" /\ applied' = conf /\ fs' = fs
      BY <2>2 DEF Finish
    <3>2. Undone(d)
      BY <1>4, <2>1, <3>1 DEF UndoneSoFar
    <3> QED BY <1>b, <2>1, <3>1, <3>2
  <2>3. CASE ~Finish
    <3>1. pc = "up" /\ applied' = applied
      BY <1>4, <2>1, <2>3, Phases, HistoryWrites
    <3>2. d \notin touched /\ ~ServiceWrites(d)
      <4>a. d \in Dests
        BY <1>a, <2>1
      <4>b. ~ServiceWrites(d)
        BY <1>4, <4>a, ServiceFacts
      <4>1. CASE \E e \in Dests : ServiceWrites(e)
        <5>1. PICK e \in Dests : ServiceWrites(e)
          BY <4>1
        <5>2. touched' = touched \cup {e}
          BY <5>1, ServiceFacts
        <5> QED BY <1>4, <4>b, <5>2
      <4>2. CASE ~(\E e \in Dests : ServiceWrites(e))
        BY <1>4, <2>3, <4>b, <4>2, HistoryWrites
      <4> QED BY <4>1, <4>2
    <3>3. Undone(d)
      BY <1>4, <2>1, <3>1, <3>2 DEF UndoneSoFar
    <3>4. fs'[Live(d)] = fs[Live(d)]
      BY <1>a, <2>1, <3>1, <3>2, LiveWrites
    <3> QED BY <1>b, <2>1, <3>3, <3>4
  <2> QED BY <2>2, <2>3
<1> QED BY <1>1, <1>2, <1>3, <1>4 DEF UndoneSoFar

\* The steps of a start while it copies.
LEMMA CopyPhase ==
    ASSUME [Next]_vars, pc = "copy", pc' = "copy"
    PROVE  \/ CopyEnd
           \/ \E d \in Dests : CopyMissing(d) \/ CopyBegin(d)
           \/ UNCHANGED vars
<1>1. ~Start /\ ~RestoreEnd /\ ~BackupStarts /\ ~SaveBegin /\ ~SaveEnd
      /\ ~WriteCommand
  BY DEF Start, RestoreEnd, BackupStarts, SaveBegin, SaveEnd, WriteCommand
<1>2. ~Finish /\ ~Halt /\ ~OperatorEdits
  BY DEF Finish, Halt, OperatorEdits, ExitTo
<1>3. \A d \in Dests :
         /\ ~RestoreRemove(d) /\ ~RestoreBegin(d) /\ ~BackupAbsent(d)
         /\ ~BackupBegin(d) /\ ~BackupEnd(d) /\ ~ServiceWrites(d)
  BY DEF RestoreRemove, RestoreBegin, BackupAbsent, BackupBegin, BackupEnd,
         ServiceWrites
<1> QED BY <1>1, <1>2, <1>3, NextCases

LEMMA AppliedStep ==
    ASSUME ConfigsInv, [Next]_vars
    PROVE  AppliedSoFar'
<1> USE DEF ConfigsInv
<1>a. pc \in {"copy", "finish"} =>
         Available(conf) \subseteq Dests /\ conf # Nothing
  BY ConfigFacts DEF ProcessShape, Working
<1>1. ASSUME pc' = "copy", NEW d \in Available(conf') \ todo'
      PROVE  \/ fs'[Live(d)] = conf'.files[d].source
             \/ copying' = <<Live(d), conf'.files[d].source>>
  <2>1. CASE SaveEnd
    BY <1>1, <2>1 DEF SaveEnd, Available
  <2>2. CASE ~SaveEnd
    <3>1. pc = "copy" /\ conf' = conf /\ d \in Dests
      BY <1>1, <1>a, <2>2, Phases DEF Working
    <3>2. CASE d \in todo
      <4>1. PICK e \in Dests : CopyMissing(e) \/ CopyBegin(e)
        BY <1>1, <3>1, <3>2, CopyPhase DEF CopyEnd, vars, process
      <4>2. e = d
        BY <1>1, <3>2, <4>1 DEF CopyMissing, CopyBegin, Fail, ExitTo
      <4>3. CopyBegin(d)
        BY <1>1, <3>1, <4>1, <4>2 DEF CopyMissing
      <4> QED BY <3>1, <4>3 DEF CopyBegin, BeginCopy
    <3>3. CASE d \notin todo
      <4>1. \/ fs[Live(d)] = conf.files[d].source
            \/ copying = <<Live(d), conf.files[d].source>>
        BY <1>1, <3>1, <3>3 DEF AppliedSoFar
      <4>2. CASE CopyEnd
        <5>1. EndCopy /\ Live(d) \in Places /\ pc = "copy"
          BY <3>1, <4>2, PlaceFacts DEF CopyEnd
        <5>2. CASE copying = <<Live(d), conf.files[d].source>>
          BY <3>1, <5>1, <5>2, EndCopyFacts
        <5>3. CASE copying # <<Live(d), conf.files[d].source>>
          <6>1. PICK e \in Available(conf) \ todo :
                   copying = <<Live(e), conf.files[e].source>>
            BY <3>1, <5>1, EndCopyFacts DEF CopyUnderWay
          <6>2. e # d /\ e \in Dests
            BY <1>a, <3>1, <5>3, <6>1
          <6>3. copying[1] # Live(d)
            BY <3>1, <6>1, <6>2, PlaceFacts
          <6> QED BY <3>1, <4>1, <5>1, <5>3, <6>3, EndCopyFacts
        <5> QED BY <5>2, <5>3
      <4>3. CASE copying # Nothing /\ ~CopyEnd
        <5>1. UNCHANGED <<fs, copying>>
          BY <1>1, <3>1, <4>3, CopyPhase
             DEF CopyMissing, CopyBegin, BeginCopy, vars, process
        <5> QED BY <3>1, <4>1, <5>1
      <4>4. CASE copying = Nothing
        <5>1. fs[Live(d)] = conf.files[d].source
          BY <4>1, <4>4 DEF Nothing
        <5>2. fs'[Live(d)] = fs[Live(d)]
          <6>1. ~CopyBegin(d) /\ ~ServiceWrites(d) /\ ~CopyEnd
            BY <3>1, <3>3, <4>4, ServiceFacts DEF CopyBegin, CopyEnd, EndCopy
          <6> QED BY <3>1, <6>1, LiveWrites
        <5> QED BY <3>1, <5>1, <5>2
      <4> QED BY <4>2, <4>3, <4>4
    <3> QED BY <3>2, <3>3
  <2> QED BY <2>1, <2>2
<1>2. ASSUME pc' = "finish"
      PROVE  /\ run_command' = conf'.command
             /\ \A d \in Available(conf') : fs'[Live(d)] = conf'.files[d].source
  <2>1. CASE WriteCommand
    <3>1. /\ pc = "copy" /\ copying = Nothing /\ todo = {} /\ fs' = fs
          /\ conf' = conf /\ run_command' = conf.command
      BY <2>1 DEF WriteCommand
    <3>2. \A d \in Available(conf) : fs[Live(d)] = conf.files[d].source
      BY <3>1 DEF AppliedSoFar, Nothing
    <3> QED BY <3>1, <3>2
  <2>2. CASE ~WriteCommand
    <3>1. pc = "finish" /\ conf' = conf
      BY <1>2, <2>2, Phases DEF Working
    <3>2. run_command' = run_command
      BY <2>2, HistoryWrites
    <3>3. \A d \in Available(conf) : fs'[Live(d)] = fs[Live(d)]
      BY <1>a, <3>1, LiveWrites, ServiceFacts
    <3> QED BY <3>1, <3>2, <3>3 DEF AppliedSoFar
  <2> QED BY <2>1, <2>2
<1>3. ASSUME pc' = "up" \/ configured'
      PROVE  /\ applied' # Nothing
             /\ run_command' = applied'.command
             /\ \A d \in Available(applied') \ touched' :
                   fs'[Live(d)] = applied'.files[d].source
  <2>1. CASE Finish
    <3>1. /\ pc = "finish" /\ applied' = conf /\ fs' = fs
          /\ run_command' = run_command
      BY <2>1 DEF Finish
    <3> QED BY <1>a, <3>1 DEF AppliedSoFar
  <2>2. CASE ~Finish
    <3>1. applied' = applied /\ configured' = configured
      BY <2>2, HistoryWrites
    <3>2. pc = "up" \/ configured
      BY <1>3, <2>2, <3>1, Phases
    <3>3. /\ applied # Nothing /\ applied \in Config
          /\ run_command = applied.command
          /\ \A d \in Available(applied) \ touched :
                fs[Live(d)] = applied.files[d].source
      BY <3>2 DEF AppliedSoFar, TypeOK
    <3>4. pc \notin Working
      BY <3>2 DEF ProcessShape, Working
    <3>5. run_command' = run_command
      BY <3>4, HistoryWrites DEF WriteCommand, Working
    <3>6. ASSUME NEW d \in Available(applied) \ touched'
          PROVE  fs'[Live(d)] = applied.files[d].source
      <4>1. d \in Dests
        BY <3>3, ConfigFacts
      <4>2. ~ServiceWrites(d)
        BY <3>6, <4>1, ServiceFacts
      <4>3. d \notin touched
        <5>1. CASE \E e \in Dests : ServiceWrites(e)
          <6>1. PICK e \in Dests : ServiceWrites(e)
            BY <5>1
          <6> QED BY <3>6, <6>1, ServiceFacts
        <5>2. CASE ~(\E e \in Dests : ServiceWrites(e))
          BY <2>2, <3>6, <5>2, HistoryWrites
        <5> QED BY <5>1, <5>2
      <4>4. fs'[Live(d)] = fs[Live(d)]
        BY <3>4, <4>1, <4>2, LiveWrites DEF Working
      <4> QED BY <3>3, <3>6, <4>3, <4>4
    <3> QED BY <3>1, <3>3, <3>5, <3>6
  <2> QED BY <2>1, <2>2
<1> QED BY <1>1, <1>2, <1>3 DEF AppliedSoFar

-----------------------------------------------------------------------------
(***************************************************************************)
(* The theorems about kolla_set_configs.                                   *)
(***************************************************************************)
LEMMA ConfigsInit == Init => ConfigsInv
<1> SUFFICES ASSUME Init PROVE ConfigsInv
  OBVIOUS
<1>1. TypeOK
  BY InitTypeOK
<1>2. DOMAIN state = {} /\ todo = {} /\ copying = Nothing /\ pc = "down"
  BY EmptyState DEF Init
<1>3. \A d \in Dests : fs[Live(d)] = original[d] /\ fs[Default(d)] = Absent
  <2> TAKE d \in Dests
  <2>1. Live(d) \in Places /\ Default(d) \in Places /\ Live(d)[1] = "live"
        /\ Live(d)[2] = d /\ Default(d)[1] = "default"
    BY PlaceFacts
  <2> QED BY <2>1 DEF Init
<1>4. ProcessShape /\ CopyUnderWay
  BY <1>2 DEF Init, ProcessShape, CopyUnderWay, Working, Nothing
<1>5. StateShape /\ MemShape /\ DefaultsShape
  BY <1>2, <1>3 DEF Init, StateShape, MemShape, DefaultsShape
<1>6. UndoneSoFar /\ AppliedSoFar
  BY <1>2 DEF Init, UndoneSoFar, AppliedSoFar
<1> QED BY <1>1, <1>4, <1>5, <1>6 DEF ConfigsInv

LEMMA ConfigsStep ==
    ASSUME ConfigsInv, [Next]_vars
    PROVE  ConfigsInv'
BY TypeStep, ProcessStep, CopyStep, StateStep, MemStep, DefaultsStep, UndoneStep,
   AppliedStep DEF ConfigsInv

LEMMA ConfigsInvAlways == Spec => []ConfigsInv
BY ConfigsInit, ConfigsStep, PTL DEF Spec

(***************************************************************************)
(* The variables of kolla_set_configs stay within their types: the state   *)
(* file in particular names only destinations, and no start works without  *)
(* a config.json it has read.                                              *)
(***************************************************************************)
THEOREM ConfigsTypeCorrect == Spec => []TypeOK
<1>1. ConfigsInv => TypeOK
  BY DEF ConfigsInv
<1> QED BY <1>1, ConfigsInvAlways, PTL

(***************************************************************************)
(* The service starts only on the files and with the command of a          *)
(* config.json that was applied as a whole (copy_config, /run_command).    *)
(***************************************************************************)
THEOREM UpIsApplied == Spec => []UpMeansApplied
<1>1. ConfigsInv => UpMeansApplied
  BY DEF ConfigsInv, AppliedSoFar, UpMeansApplied
<1> QED BY <1>1, ConfigsInvAlways, PTL

(***************************************************************************)
(* Until the second save, wherever a start is cut short, what a            *)
(* destination held is there or under /etc/kolla/defaults                  *)
(* (backup_configs, set_defaults_state).                                   *)
(***************************************************************************)
THEOREM DefaultsSurvive == Spec => []DefaultKept
<1>1. ASSUME ConfigsInv, saves <= 1, NEW d \in Dests \ Wildcards
      PROVE  original[d] \in {fs[Live(d)], fs[Default(d)]}
  <2>1. CASE d \notin DOMAIN state
    BY <1>1, <2>1 DEF ConfigsInv, DefaultsShape
  <2>2. CASE d \in DOMAIN state
    BY <1>1, <2>2 DEF ConfigsInv, StateShape, DefaultsShape, Truly
  <2> QED BY <2>1, <2>2
<1>2. ConfigsInv => DefaultKept
  BY <1>1 DEF DefaultKept
<1> QED BY <1>2, ConfigsInvAlways, PTL

(***************************************************************************)
(* After a start, a tracked file that config.json declares no more is what *)
(* it was before, as far as the swap of source and dest allows             *)
(* (remove_or_restore_configs).                                            *)
(***************************************************************************)
THEOREM UndoneWhenUp == Spec => []RemovedIsUndone
<1>1. ConfigsInv => RemovedIsUndone
  BY DEF ConfigsInv, UndoneSoFar, Undoable, RemovedIsUndone
<1> QED BY <1>1, ConfigsInvAlways, PTL

(***************************************************************************)
(* No start drops an entry of the state file, and a file the image does    *)
(* not have is never taken for a default (set_defaults_state).             *)
(***************************************************************************)
THEOREM TrackedForEver == Spec => TrackedIsKept
<1>1. ASSUME ConfigsInv, [Next]_vars, NEW d \in DOMAIN state
      PROVE  /\ d \in DOMAIN state'
             /\ state[d].dest = Null => state'[d] = state[d]
  <2>1. CASE SaveEnd
    BY <1>1, <2>1, SavedState DEF Undo
  <2>2. CASE ~SaveEnd
    BY <1>1, <2>2, HistoryWrites
  <2> QED BY <2>1, <2>2
<1>2. ConfigsInv /\ [Next]_vars =>
         [\A d \in DOMAIN state :
             /\ d \in DOMAIN state'
             /\ state[d].dest = Null => state'[d] = state[d]]_vars
  BY <1>1
<1> QED BY <1>2, ConfigsInvAlways, PTL DEF Spec, TrackedIsKept

(***************************************************************************)
(* Until the second save no start fails for want of a default to restore:  *)
(* an entry reaches the state file only after its backup is complete.      *)
(***************************************************************************)
THEOREM DefaultIsFound == Spec => RestoreFindsDefault
<1>1. ASSUME ConfigsInv, [Next]_vars, pc = "restore", saves <= 1
      PROVE  exit' # "1"
  <2> USE <1>1
  <2>1. exit = "none"
    BY DEF ConfigsInv, ProcessShape, Working
  <2>2. ASSUME NEW d \in Dests, RestoreBegin(d) PROVE exit' # "1"
    <3>1. fs[state[d].dest] # Absent
      BY <2>2, RestoreFacts, UndoShape
    <3>2. d \in DOMAIN state /\ mem[d] = state[d]
      BY <2>2, RestoreFacts DEF ConfigsInv, MemShape
    <3> QED BY <2>1, <2>2, <3>1, <3>2 DEF RestoreBegin
  <2>3. ASSUME NEW d \in Dests, RestoreRemove(d) PROVE exit' # "1"
    BY <2>1, <2>3 DEF RestoreRemove
  <2>4. ASSUME RestoreEnd \/ BackupStarts \/ Halt \/ UNCHANGED vars
        PROVE  exit' # "1"
    BY <2>1, <2>4 DEF RestoreEnd, BackupStarts, Halt, ExitTo, vars, process
  <2>5. /\ ~Start /\ ~SaveBegin /\ ~SaveEnd /\ ~CopyEnd /\ ~WriteCommand
        /\ ~Finish /\ ~OperatorEdits
        /\ \A d \in Dests : /\ ~BackupAbsent(d) /\ ~BackupBegin(d)
                            /\ ~BackupEnd(d) /\ ~CopyMissing(d)
                            /\ ~CopyBegin(d) /\ ~ServiceWrites(d)
    BY DEF Start, SaveBegin, SaveEnd, CopyEnd, WriteCommand, Finish,
           OperatorEdits, BackupAbsent, BackupBegin, BackupEnd, CopyMissing,
           CopyBegin, ServiceWrites
  <2> QED BY <2>2, <2>3, <2>4, <2>5, NextCases
<1>2. ConfigsInv /\ [Next]_vars =>
         [pc = "restore" /\ saves <= 1 => exit' # "1"]_vars
  BY <1>1
<1> QED BY <1>2, ConfigsInvAlways, PTL DEF Spec, RestoreFindsDefault

(***************************************************************************)
(* COPY_ONCE: once /configured exists, starting the container again writes *)
(* no file (execute_config_strategy).                                      *)
(***************************************************************************)
THEOREM OnceIsOnce == Spec => ConfiguredIsFrozen
<1>1. ASSUME ConfigsInv, [Next]_vars, configured, pc # "up"
      PROVE  UNCHANGED <<fs, run_command, state>>
  <2>1. pc \notin Working /\ pc = "down"
    BY <1>1 DEF ConfigsInv, ProcessShape, TypeOK, Working
  <2>2. ~SaveEnd /\ ~WriteCommand /\ ~RestoreEnd /\ ~CopyEnd
        /\ (\A d \in Dests :
               /\ ~RestoreRemove(d) /\ ~RestoreBegin(d) /\ ~BackupBegin(d)
               /\ ~BackupEnd(d) /\ ~CopyBegin(d) /\ ~ServiceWrites(d))
    BY <2>1 DEF SaveEnd, WriteCommand, RestoreEnd, CopyEnd, RestoreRemove,
                RestoreBegin, BackupBegin, BackupEnd, CopyBegin, ServiceWrites
  <2>3. fs' = fs
    BY <1>1, <2>2, NextCases, NoFileWritten
  <2> QED BY <1>1, <2>2, <2>3, HistoryWrites
<1>2. ConfigsInv /\ [Next]_vars =>
         [configured /\ pc # "up" => UNCHANGED <<fs, run_command, state>>]_vars
  BY <1>1
<1> QED BY <1>2, ConfigsInvAlways, PTL DEF Spec, ConfiguredIsFrozen

-----------------------------------------------------------------------------
(***************************************************************************)
(* kolla_set_configs implements ConfiguredContainer.  To ConfigsInv this   *)
(* adds what a start has passed over, and that a file the container did    *)
(* not have is never taken for one that it had.                            *)
(***************************************************************************)
PassedOver(c, rest) ==
    \A d \in Declared(c) \ (Available(c) \cup rest) : c.files[d].optional

PromiseInv ==
    /\ pc \notin Working => conf = Nothing
    /\ pc \in {"copy", "finish"} => PassedOver(conf, todo)
    /\ \A d \in DOMAIN state : original[d] = Absent => state[d].dest = Null

LEMMA AbsentStays ==
    ASSUME ConfigsInv, PromiseInv, [Next]_vars,
           NEW d \in DOMAIN state', original'[d] = Absent
    PROVE  state'[d].dest = Null
<1>1. CASE SaveEnd
  <2>1. /\ state' = mem /\ original[d] = Absent
        /\ d \in DOMAIN state => mem[d] = Undo(state[d])
        /\ d \notin DOMAIN state => Truly(d, mem[d])
    BY <1>1, SavedState
  <2>2. CASE d \in DOMAIN state
    BY <2>1, <2>2 DEF PromiseInv, Undo
  <2>3. CASE d \notin DOMAIN state
    BY <2>1, <2>3 DEF Truly, Missing
  <2> QED BY <2>2, <2>3
<1>2. CASE ~SaveEnd
  BY <1>2, HistoryWrites, OriginalKept DEF PromiseInv
<1> QED BY <1>1, <1>2

LEMMA PassedOverStep ==
    ASSUME ConfigsInv, PromiseInv, [Next]_vars, pc' \in {"copy", "finish"}
    PROVE  PassedOver(conf, todo)'
<1> USE DEF PromiseInv, PassedOver, Available, Declared
<1>1. CASE SaveEnd
  BY <1>1 DEF SaveEnd
<1>2. CASE WriteCommand
  BY <1>2 DEF WriteCommand
<1>3. CASE pc = "copy" /\ pc' = "copy"
  <2>1. CASE CopyEnd \/ UNCHANGED vars
    BY <1>3, <2>1 DEF CopyEnd, vars, process
  <2>2. ASSUME NEW d \in Dests, CopyMissing(d) PROVE PassedOver(conf, todo)'
    BY <1>3, <2>2 DEF CopyMissing, Fail, ExitTo
  <2>3. ASSUME NEW d \in Dests, CopyBegin(d) PROVE PassedOver(conf, todo)'
    BY <1>3, <2>3 DEF CopyBegin
  <2> QED BY <1>3, <2>1, <2>2, <2>3, CopyPhase
<1>4. CASE pc = "finish" /\ pc' = "finish"
  <2>1. conf' = conf /\ todo = {}
    BY <1>4, Phases DEF Working, ConfigsInv, ProcessShape
  <2> QED BY <1>4, <2>1
<1> QED BY <1>1, <1>2, <1>3, <1>4, Phases

\* A process that is not at work has forgotten config.json.
LEMMA ForgetsStep ==
    ASSUME PromiseInv, [Next]_vars, pc' \notin Working
    PROVE  conf' = Nothing
<1> USE DEF PromiseInv
<1>1. CASE Start \/ Finish \/ Halt
  BY <1>1 DEF Start, Finish, Halt, Fail, ExitTo, Working
<1>2. ASSUME NEW d \in Dests, RestoreBegin(d) \/ CopyMissing(d)
      PROVE  conf' = Nothing
  BY <1>2 DEF RestoreBegin, CopyMissing, Fail, ExitTo, Working
<1>3. ASSUME NEW d \in Dests,
             \/ RestoreRemove(d) \/ BackupAbsent(d) \/ BackupBegin(d)
             \/ BackupEnd(d) \/ CopyBegin(d) \/ ServiceWrites(d)
      PROVE  conf' = Nothing
  BY <1>3 DEF RestoreRemove, BackupAbsent, BackupBegin, BackupEnd, CopyBegin,
              ServiceWrites, process
<1>4. CASE RestoreEnd \/ CopyEnd \/ OperatorEdits \/ UNCHANGED vars
  BY <1>4 DEF RestoreEnd, CopyEnd, OperatorEdits, vars, process
<1>5. CASE BackupStarts \/ SaveBegin \/ SaveEnd \/ WriteCommand
  BY <1>5 DEF BackupStarts, SaveBegin, SaveEnd, WriteCommand, Working
<1> QED BY <1>1, <1>2, <1>3, <1>4, <1>5, NextCases

LEMMA PromiseInvAlways == Spec => []PromiseInv
<1>1. Init => PromiseInv
  BY EmptyState DEF Init, PromiseInv
<1>2. ConfigsInv /\ PromiseInv /\ [Next]_vars => PromiseInv'
  BY AbsentStays, PassedOverStep, ForgetsStep DEF PromiseInv
<1> QED BY <1>1, <1>2, ConfigsInvAlways, PTL DEF Spec

\* Both specifications read the same config.json.
LEMMA SameConfig ==
    /\ Promise!Config = Config /\ Promise!Nothing = Nothing
    /\ \A c : /\ Promise!Declared(c) = Declared(c)
              /\ Promise!Available(c) = Available(c)
BY DEF Promise!Config, Config, Promise!Entries, Entries, Promise!Nothing,
       Nothing, Promise!Declared, Declared, Promise!Available, Available

\* The destinations, without the defaults.
File == [d \in Dests |-> fs[Live(d)]]

\* A step of a start that does not touch the state file: what it changes, if
\* it is no default, is a file the state file has, or one of a pattern.
LEMMA WorkIsChange ==
    ASSUME ConfigsInv, [Next]_vars, pc \in Working, pc' \in Working,
           UNCHANGED <<strategy, config, conf, state, original, run_command,
                       configured>>,
           NEW p \in Places, NEW c \in Contents \cup {Absent, Partial},
           fs' = [fs EXCEPT ![p] = c]
    PROVE  (\E d \in Dests : Promise!Change(d)) \/ UNCHANGED Promise!vars
<1>1. fs \in [Places -> Contents \cup {Absent, Partial}]
  BY DEF ConfigsInv, TypeOK
<1>2. /\ (IF pc \in {"down", "up"} THEN pc ELSE "working") = "working"
      /\ (IF pc' \in {"down", "up"} THEN pc' ELSE "working") = "working"
  BY DEF Working
<1>3. CASE File' = File
  BY <1>2, <1>3 DEF Promise!vars, File
<1>4. CASE File' # File
  <2>1. PICK d \in Dests : fs'[Live(d)] # fs[Live(d)]
    BY <1>4 DEF File
  <2>2. p = Live(d)
    BY <1>1, <2>1, PlaceFacts
  <2>3. File' = [File EXCEPT ![d] = c]
    BY <1>1, <2>2, PlaceFacts DEF File
  <2>4. d \in DOMAIN state \/ d \in Available(conf) \cap Wildcards
    <3>1. ~ServiceWrites(d)
      BY DEF ServiceWrites, Working
    <3>2. d \in DOMAIN state \/ (pc = "copy" /\ d \in Available(conf))
      BY <2>1, <3>1, LiveWrites
    <3> QED BY <3>2 DEF ConfigsInv, MemShape
  <2> QED BY <1>2, <2>3, <2>4, SameConfig DEF Promise!Change, File
<1> QED BY <1>3, <1>4

\* The steps of a start that write a file.
LEMMA Writers ==
    ASSUME ConfigsInv, NEW d \in Dests,
           \/ RestoreRemove(d) \/ (RestoreBegin(d) /\ pc' # "down")
           \/ BackupBegin(d) \/ BackupEnd(d) \/ CopyBegin(d)
           \/ RestoreEnd \/ CopyEnd
    PROVE  /\ pc \in Working /\ pc' = pc
           /\ UNCHANGED <<strategy, config, conf, state, original, run_command,
                          configured>>
           /\ \E p \in Places, c \in Contents \cup {Absent, Partial} :
                 fs' = [fs EXCEPT ![p] = c]
<1> USE DEF Working
<1>1. ASSUME NEW q \in Places, NEW c, BeginCopy(c, q)
      PROVE  \E p \in Places, x \in Contents \cup {Absent, Partial} :
                fs' = [fs EXCEPT ![p] = x]
  BY <1>1 DEF BeginCopy
<1>2. ASSUME EndCopy
      PROVE  \E p \in Places, x \in Contents \cup {Absent, Partial} :
                fs' = [fs EXCEPT ![p] = x]
  BY <1>2, EndCopyFacts DEF EndCopy, ConfigsInv
<1>3. CASE RestoreRemove(d)
  BY <1>3, PlaceFacts DEF RestoreRemove, history
<1>4. CASE RestoreBegin(d) /\ pc' # "down"
  <2>1. /\ pc = "restore" /\ pc' = pc /\ d \in DOMAIN state
        /\ BeginCopy(fs[state[d].dest], state[d].source)
    BY <1>4, RestoreFacts
  <2>2. state[d].source \in Places
    BY <2>1, StateFacts DEF ConfigsInv, TypeOK, Tracking
  <2>3. conf' = conf
    BY <1>4 DEF RestoreBegin, Fail, ExitTo
  <2> QED BY <1>1, <1>4, <2>1, <2>2, <2>3 DEF RestoreBegin, history
<1>5. CASE BackupBegin(d)
  BY <1>1, <1>5, PlaceFacts DEF BackupBegin, history
<1>6. CASE BackupEnd(d)
  BY <1>2, <1>6 DEF BackupEnd, history
<1>7. CASE CopyBegin(d)
  BY <1>1, <1>7, PlaceFacts DEF CopyBegin, history
<1>8. CASE RestoreEnd \/ CopyEnd
  BY <1>2, <1>8 DEF RestoreEnd, CopyEnd, history
<1> QED BY <1>3, <1>4, <1>5, <1>6, <1>7, <1>8

\* The steps that change nothing one sees from outside.
LEMMA Hidden ==
    ASSUME NEW d, \/ BackupStarts \/ SaveBegin \/ UNCHANGED vars
                  \/ BackupAbsent(d) \/ (CopyMissing(d) /\ pc' # "down")
    PROVE  UNCHANGED Promise!vars
<1> USE DEF Promise!vars, history
<1>1. CASE BackupStarts \/ SaveBegin \/ BackupAbsent(d)
  BY <1>1 DEF BackupStarts, SaveBegin, BackupAbsent
<1>2. CASE CopyMissing(d) /\ pc' # "down"
  BY <1>2 DEF CopyMissing, Fail, ExitTo
<1>3. CASE UNCHANGED vars
  BY <1>3 DEF vars, process
<1> QED BY <1>1, <1>2, <1>3

\* A start that fails or is killed.
LEMMA EndIsStop ==
    ASSUME NEW d, \/ Halt
                  \/ (RestoreBegin(d) \/ CopyMissing(d)) /\ pc' = "down"
    PROVE  Promise!Stop
<1>1. /\ pc # "down" /\ pc' = "down" /\ conf' = Nothing
      /\ UNCHANGED <<strategy, config, fs, state, original, run_command,
                     configured>>
  <2>1. CASE Halt
    BY <2>1 DEF Halt, ExitTo, history
  <2>2. CASE RestoreBegin(d) /\ pc' = "down"
    BY <2>2 DEF RestoreBegin, Fail, ExitTo, history
  <2>3. CASE CopyMissing(d) /\ pc' = "down"
    BY <2>3 DEF CopyMissing, Fail, ExitTo, history
  <2> QED BY <2>1, <2>2, <2>3
<1> QED BY <1>1, SameConfig DEF Promise!Stop

LEMMA StartIsBegin ==
    ASSUME ConfigsInv, PromiseInv, Start
    PROVE  Promise!Begin \/ Promise!Resume \/ UNCHANGED Promise!vars
<1>1. /\ pc = "down" /\ conf = Nothing
      /\ UNCHANGED <<strategy, config, fs, state, original, run_command,
                     configured>>
  BY DEF Start, history, PromiseInv, Working
<1>2. CASE configured
  <2>1. pc' = "up" /\ conf' = Nothing
    BY <1>2 DEF Start, ExitTo, ConfigsInv, ProcessShape
  <2> QED BY <1>1, <1>2, <2>1 DEF Promise!Resume
<1>3. CASE ~configured /\ torn
  <2>1. pc' = "down" /\ conf' = Nothing
    BY <1>3 DEF Start, Fail, ExitTo
  <2> QED BY <1>1, <2>1 DEF Promise!vars
<1>4. CASE ~configured /\ ~torn
  <2>1. pc' = "restore" /\ conf' = config
    BY <1>4 DEF Start
  <2> QED BY <1>1, <1>4, <2>1 DEF Promise!Begin
<1> QED BY <1>2, <1>3, <1>4

\* What is saved was not changed yet.
LEMMA SaveIsRecord ==
    ASSUME ConfigsInv, SaveEnd
    PROVE  Promise!Record
<1> DEFINE D == Available(conf) \ Wildcards
<1>1. /\ pc = "saving" /\ pc' = "copy"
      /\ UNCHANGED <<strategy, config, fs, conf, original, run_command,
                     configured>>
  BY DEF SaveEnd
<1>2. DOMAIN state' = DOMAIN state \cup D
  BY SavedState
<1>3. D \subseteq Dests \ Wildcards
  BY <1>1, ConfigFacts DEF ConfigsInv, ProcessShape, Working
<1>4. \A d \in D \ DOMAIN state : File[d] = original[d]
  BY <1>3 DEF ConfigsInv, DefaultsShape, File
<1> QED BY <1>1, <1>2, <1>4, SameConfig DEF Promise!Record, File

LEMMA FinishIsComplete ==
    ASSUME ConfigsInv, PromiseInv, Finish
    PROVE  Promise!Complete
<1>1. /\ pc = "finish" /\ pc' = "up" /\ conf' = Nothing
      /\ configured' = (strategy = "COPY_ONCE")
      /\ UNCHANGED <<strategy, config, fs, state, original, run_command>>
  BY DEF Finish, ExitTo
<1>2. /\ run_command = conf.command
      /\ Available(conf) \subseteq Dests /\ DOMAIN state \subseteq Dests
  BY <1>1, ConfigFacts
     DEF ConfigsInv, ProcessShape, Working, StateShape, AppliedSoFar
<1>3. \A d \in Declared(conf) \ Available(conf) : conf.files[d].optional
  BY <1>1 DEF PromiseInv, PassedOver, ConfigsInv, ProcessShape
<1>4. ASSUME NEW d \in DOMAIN state \ Available(conf), original[d] = Absent
      PROVE  fs[Live(d)] = Absent
  <2>1. Undoable(d, 2)
    BY <1>4 DEF PromiseInv, Undoable
  <2>2. Undone(d)
    BY <1>1, <2>1 DEF ConfigsInv, UndoneSoFar
  <2> QED BY <1>4, <2>2 DEF Undone
<1>5. Promise!Configured
  <2>1. Promise!Available(conf) = Available(conf)
        /\ Promise!Declared(conf) = Declared(conf)
    BY SameConfig
  <2>2. ASSUME NEW d \in Available(conf)
        PROVE  /\ [x \in Dests |-> fs[Live(x)]][d] = conf.files[d].source
               /\ d \in DOMAIN state \/ d \in Wildcards
    BY <1>1, <1>2 DEF ConfigsInv, AppliedSoFar, MemShape
  <2>3. ASSUME NEW d \in DOMAIN state \ Available(conf), original[d] = Absent
        PROVE  [x \in Dests |-> fs[Live(x)]][d] = Absent
    BY <1>2, <1>4, <2>3
  <2> QED BY <1>2, <1>3, <2>1, <2>2, <2>3 DEF Promise!Configured
<1> QED BY <1>1, <1>5, SameConfig DEF Promise!Complete

LEMMA ServiceIsService ==
    ASSUME ConfigsInv, NEW d \in Dests, ServiceWrites(d)
    PROVE  Promise!ServiceWrites(d)
<1>1. PICK c \in Contents \cup {Absent} :
         /\ fs' = [fs EXCEPT ![Live(d)] = c]
         /\ original' = [original EXCEPT ![d] =
                            IF d \in DOMAIN state THEN original[d] ELSE c]
  BY DEF ServiceWrites
<1>2. /\ pc = "up"
      /\ UNCHANGED <<strategy, config, pc, conf, state, run_command,
                     configured>>
  BY DEF ServiceWrites, process
<1>3. File' = [File EXCEPT ![d] = c]
  <2>1. fs \in [Places -> Contents \cup {Absent, Partial}]
    BY DEF ConfigsInv, TypeOK
  <2>2. \A e \in Dests : fs'[Live(e)] = IF e = d THEN c ELSE fs[Live(e)]
    BY <1>1, <2>1, PlaceFacts
  <2> QED BY <2>2 DEF File
<1>4. original' = IF d \in DOMAIN state THEN original
                                        ELSE [original EXCEPT ![d] = c]
  BY <1>1 DEF ConfigsInv, TypeOK
<1> QED BY <1>1, <1>2, <1>3, <1>4 DEF Promise!ServiceWrites, File

(***************************************************************************)
(* kolla_set_configs keeps the promise of ConfiguredContainer: it          *)
(* overwrites or removes a file only once the state file has it on disk,   *)
(* completes only with all of one config.json, and leaves a COPY_ONCE      *)
(* container alone, wherever earlier starts were cut short.                *)
(***************************************************************************)
THEOREM SetConfigsKeepsPromise == Spec => ImplementsConfiguredContainer
<1>1. Init => Promise!Init
  <2> SUFFICES ASSUME Init PROVE Promise!Init
    OBVIOUS
  <2>1. File = original
    BY PlaceFacts DEF Init, File
  <2>2. /\ pc = "down" /\ conf = Nothing /\ DOMAIN state = {}
        /\ config \in Config /\ strategy \in Strategies
        /\ run_command = Absent /\ configured = FALSE
        /\ original \in [Dests -> Contents \cup {Absent}]
    BY EmptyState DEF Init
  <2> QED BY <2>1, <2>2, SameConfig DEF Promise!Init, File
<1>2. ConfigsInv /\ PromiseInv /\ [Next]_vars => [Promise!Next]_(Promise!vars)
  <2> SUFFICES ASSUME ConfigsInv, PromiseInv, [Next]_vars
               PROVE  Promise!Next \/ UNCHANGED Promise!vars
    OBVIOUS
  <2>1. ASSUME NEW d \in Dests,
               \/ RestoreRemove(d) \/ (RestoreBegin(d) /\ pc' # "down")
               \/ BackupBegin(d) \/ BackupEnd(d) \/ CopyBegin(d)
               \/ RestoreEnd \/ CopyEnd
        PROVE  (\E e \in Dests : Promise!Change(e)) \/ UNCHANGED Promise!vars
    BY <2>1, Writers, WorkIsChange
  <2>2. CASE RestoreEnd \/ CopyEnd
    <3>1. Dests # {}
      BY <2>2, EndCopyFacts DEF RestoreEnd, CopyEnd, ConfigsInv, Places
    <3> QED BY <2>1, <2>2, <3>1 DEF Promise!Next
  <2>3. CASE Start
    BY <2>3, StartIsBegin DEF Promise!Next
  <2>4. CASE SaveEnd
    BY <2>4, SaveIsRecord DEF Promise!Next
  <2>5. CASE WriteCommand
    BY <2>5 DEF WriteCommand, history, Promise!LeaveCommand, Promise!Next
  <2>6. CASE Finish
    BY <2>6, FinishIsComplete DEF Promise!Next
  <2>7. CASE OperatorEdits
    BY <2>7, SameConfig DEF OperatorEdits, process, history, Promise!Edit,
                            Promise!Next
  <2>8. CASE Halt
    BY <2>8, EndIsStop DEF Promise!Next
  <2>9. CASE BackupStarts \/ SaveBegin \/ UNCHANGED vars
    BY <2>9, Hidden
  <2>10. ASSUME NEW d \in Dests,
                \/ RestoreRemove(d) \/ RestoreBegin(d) \/ BackupAbsent(d)
                \/ BackupBegin(d) \/ BackupEnd(d) \/ CopyMissing(d)
                \/ CopyBegin(d) \/ ServiceWrites(d)
         PROVE  Promise!Next \/ UNCHANGED Promise!vars
    <3>1. CASE \/ RestoreRemove(d) \/ (RestoreBegin(d) /\ pc' # "down")
               \/ BackupBegin(d) \/ BackupEnd(d) \/ CopyBegin(d)
      <4>1. (\E e \in Dests : Promise!Change(e)) \/ UNCHANGED Promise!vars
        BY <2>1, <3>1
      <4> QED BY <4>1 DEF Promise!Next
    <3>2. CASE BackupAbsent(d) \/ (CopyMissing(d) /\ pc' # "down")
      BY <3>2, Hidden
    <3>3. CASE (RestoreBegin(d) \/ CopyMissing(d)) /\ pc' = "down"
      BY <3>3, EndIsStop DEF Promise!Next
    <3>4. CASE ServiceWrites(d)
      BY <3>4, ServiceIsService DEF Promise!Next
    <3> QED BY <2>10, <3>1, <3>2, <3>3, <3>4
  <2> QED BY <2>2, <2>3, <2>4, <2>5, <2>6, <2>7, <2>8, <2>9, <2>10, NextCases
<1> QED
  BY ConfigsInvAlways, PromiseInvAlways, <1>1, <1>2, PTL
     DEF Spec, ImplementsConfiguredContainer, Promise!Spec

-----------------------------------------------------------------------------
(***************************************************************************)
(* Part 2: start.sh around it.  Each step of a container is a step of      *)
(* kolla_set_configs or leaves its variables alone, so that part 1 holds   *)
(* of a container as well.                                                 *)
(***************************************************************************)
LEMMA ContainerSteps ==
    ASSUME [ContainerNext]_startVars
    PROVE  [Next]_vars
<1>1. CASE SetConfigsStep
  BY <1>1 DEF SetConfigsStep, Next
<1>2. CASE ReadCommand \/ RemoveOldCerts \/ CopyCerts \/ UpdateBundle
           \/ ExtendStart \/ EditLegacy
  BY <1>2 DEF ReadCommand, RemoveOldCerts, CopyCerts, UpdateBundle, ExtendStart,
              EditLegacy, Go
<1>3. CASE Stop \/ Edit
  BY <1>3 DEF Stop, Edit, Next
<1>4. CASE \E d \in Dests : Write(d)
  BY <1>4 DEF Write, Next
<1>5. CASE UNCHANGED startVars
  BY <1>5 DEF startVars
<1> QED BY <1>1, <1>2, <1>3, <1>4, <1>5 DEF ContainerNext

(***************************************************************************)
(* A container configures itself as kolla_set_configs does: start.sh adds  *)
(* no way to write its files or its state.                                 *)
(***************************************************************************)
THEOREM ContainerConfigures == ContainerSpec => Spec
<1>1. ContainerInit => Init
  BY DEF ContainerInit
<1> QED BY <1>1, ContainerSteps, PTL DEF ContainerSpec, Spec

(***************************************************************************)
(* And so the whole start of a container, start.sh and its helpers         *)
(* included, keeps the promise of ConfiguredContainer.                     *)
(***************************************************************************)
THEOREM ContainerKeepsPromise == ContainerSpec => ImplementsConfiguredContainer
BY ContainerConfigures, SetConfigsKeepsPromise, PTL

\* The content config.json declares for the CA certificates is in place, and
\* is that of a directory the image does not have, with certificates in it.
CasDeclared ==
    /\ CaDest \in (DOMAIN state \cap Available(applied)) \ touched
    /\ state[CaDest].dest = Null
    /\ CertsOf[applied.files[CaDest].source] # {}

\* What start.sh has done so far.
StartShape ==
    /\ sh \in {"remove", "copy", "update", "extend", "running"} =>
          cmd = run_command
    /\ CasDeclared =>
          LET cas == CertsOf[applied.files[CaDest].source] IN
          /\ sh = "update" => anchors = cas /\ update_needed
          /\ sh \in {"extend", "running"} => bundle = cas

ContainerInv == ConfigsInv /\ StartTypeOK /\ StartShape

LEMMA ContainerInvInit == ContainerInit => ContainerInv
<1> SUFFICES ASSUME ContainerInit PROVE ContainerInv
  OBVIOUS
<1>1. Init /\ ConfigsInv /\ pc = "down"
  BY ConfigsInit DEF ContainerInit, Init
<1> QED BY <1>1 DEF ContainerInit, ContainerInv, StartTypeOK, StartShape, ConfigsInv

LEMMA StartTypeStep ==
    ASSUME ContainerInv, [ContainerNext]_startVars
    PROVE  StartTypeOK'
<1> USE DEF ContainerInv, StartTypeOK
<1>1. TypeOK'
  BY ContainerSteps, TypeStep
<1>2. CASE SetConfigsStep
  BY <1>1, <1>2 DEF SetConfigsStep, caVars
<1>3. CASE ReadCommand
  BY <1>1, <1>3 DEF ReadCommand, Go, caVars, vars, process, TypeOK
<1>4. CASE RemoveOldCerts
  BY <1>1, <1>4, ContainerStartAssumption
     DEF RemoveOldCerts, Go, vars, process
<1>5. CASE CopyCerts
  <2>1. SourceCerts \subseteq Certs
    <3>1. fs[Live(CaDest)] \in Contents \cup {Absent, Partial}
      BY PlaceFacts, ContainerStartAssumption DEF TypeOK
    <3> QED BY <3>1, ContainerStartAssumption DEF SourceCerts
  <2> QED BY <1>1, <1>5, <2>1 DEF CopyCerts, Go, vars, process
<1>6. CASE UpdateBundle
  BY <1>1, <1>6 DEF UpdateBundle, Go, vars, process
<1>7. CASE ExtendStart
  BY <1>1, <1>7 DEF ExtendStart, Go, caVars, vars, process
<1>8. CASE Stop
  BY <1>1, <1>8 DEF Stop, Halt, ExitTo
<1>9. CASE Edit
  BY <1>1, <1>9 DEF Edit, OperatorEdits, process, caVars
<1>10. CASE EditLegacy
  BY <1>1, <1>10 DEF EditLegacy, vars, process
<1>11. ASSUME NEW d \in Dests, Write(d) PROVE StartTypeOK'
  BY <1>1, <1>11 DEF Write, ServiceWrites, process, caVars
<1>12. CASE UNCHANGED startVars
  BY <1>1, <1>12 DEF startVars, caVars, vars, process
<1> QED BY <1>2, <1>3, <1>4, <1>5, <1>6, <1>7, <1>8, <1>9, <1>10, <1>11, <1>12
        DEF ContainerNext

LEMMA StartShapeStep ==
    ASSUME ContainerInv, [ContainerNext]_startVars
    PROVE  StartShape'
<1> USE DEF ContainerInv
<1>1. CASE SetConfigsStep
  BY <1>1 DEF SetConfigsStep, StartShape
<1>2. ASSUME UNCHANGED <<state, applied, touched>>
      PROVE  /\ CasDeclared' <=> CasDeclared
             /\ applied' = applied
  BY <1>2 DEF CasDeclared, Available, Declared
<1>3. CASE ReadCommand
  BY <1>3 DEF ReadCommand, Go, vars, StartShape
<1>4. CASE RemoveOldCerts
  BY <1>4 DEF RemoveOldCerts, Go, vars, StartShape
<1>5. CASE CopyCerts
  <2>1. sh = "copy" /\ sh' = "update" /\ UNCHANGED vars /\ cmd' = cmd
        /\ anchors' = SourceCerts
        /\ update_needed' = (update_needed \/ SourceCerts # {})
    BY <1>5 DEF CopyCerts, Go
  <2>2. pc = "up"
    BY <2>1 DEF StartTypeOK
  <2>3. ASSUME CasDeclared
        PROVE  SourceCerts = CertsOf[applied.files[CaDest].source]
    <3>1. ~torn
      BY <2>2 DEF ConfigsInv, ProcessShape
    <3>2. state[CaDest].source = Live(CaDest)
      <4>1. CaDest \in DOMAIN state /\ state[CaDest].dest = Null
        BY <2>3 DEF CasDeclared
      <4> QED BY <4>1, UndoShape, ContainerStartAssumption
              DEF ConfigsInv, StateShape
    <3>3. fs[Live(CaDest)] = applied.files[CaDest].source
      BY <2>2, <2>3 DEF ConfigsInv, AppliedSoFar, CasDeclared
    <3> QED BY <2>3, <3>1, <3>2, <3>3 DEF SourceCerts, CasDeclared
  <2>4. UNCHANGED <<state, applied, touched, run_command>>
    BY <2>1 DEF vars, history
  <2> QED BY <1>2, <2>1, <2>3, <2>4 DEF StartShape, CasDeclared
<1>6. CASE UpdateBundle
  <2>1. sh = "update" /\ sh' = "extend" /\ cmd' = cmd
        /\ bundle' = (IF update_needed THEN anchors ELSE bundle)
        /\ UNCHANGED <<state, applied, touched, run_command>>
    BY <1>6 DEF UpdateBundle, Go, vars, history
  <2> QED BY <1>2, <2>1 DEF StartShape
<1>7. CASE ExtendStart
  <2>1. sh = "extend" /\ sh' = "running" /\ cmd' = cmd /\ bundle' = bundle
        /\ UNCHANGED <<state, applied, touched, run_command>>
    BY <1>7 DEF ExtendStart, Go, vars, history, caVars
  <2> QED BY <1>2, <2>1 DEF StartShape
<1>8. CASE Stop
  BY <1>8 DEF Stop, StartShape
<1>9. CASE Edit \/ EditLegacy \/ UNCHANGED startVars
  <2>1. UNCHANGED <<sh, cmd, update_needed, anchors, bundle>>
        /\ UNCHANGED <<state, applied, touched, run_command>>
    BY <1>9 DEF Edit, OperatorEdits, EditLegacy, startVars, vars, history, caVars
  <2> QED BY <1>2, <2>1 DEF StartShape
<1>10. ASSUME NEW d \in Dests, Write(d) PROVE StartShape'
  <2>1. /\ UNCHANGED <<sh, cmd, update_needed, anchors, bundle>>
        /\ UNCHANGED <<state, applied, run_command>>
        /\ touched \subseteq touched'
    BY <1>10 DEF Write, ServiceWrites, caVars
  <2>2. CasDeclared' => CasDeclared
    BY <2>1 DEF CasDeclared, Available, Declared
  <2> QED BY <2>1, <2>2 DEF StartShape
<1> QED BY <1>1, <1>3, <1>4, <1>5, <1>6, <1>7, <1>8, <1>9, <1>10
        DEF ContainerNext

LEMMA ContainerInvAlways == ContainerSpec => []ContainerInv
<1>1. ASSUME ContainerInv, [ContainerNext]_startVars PROVE ContainerInv'
  BY <1>1, StartTypeStep, StartShapeStep, ContainerSteps, ConfigsStep
     DEF ContainerInv
<1> QED BY <1>1, ContainerInvInit, PTL DEF ContainerSpec

-----------------------------------------------------------------------------
(***************************************************************************)
(* The theorems about the start of a container.                            *)
(***************************************************************************)
(***************************************************************************)
(* start.sh is at kolla_set_configs exactly as long as that has not        *)
(* succeeded, and its variables stay within their types.                   *)
(***************************************************************************)
THEOREM StartTypeCorrect == ContainerSpec => []StartTypeOK
<1>1. ContainerInv => StartTypeOK
  BY DEF ContainerInv
<1> QED BY <1>1, ContainerInvAlways, PTL

(***************************************************************************)
(* The service is executed with the command and on the files of one        *)
(* config.json that was applied as a whole (start.sh: CMD, exec).          *)
(***************************************************************************)
THEOREM ServiceRunsAsApplied == ContainerSpec => []RunsAsApplied
<1>1. ContainerInv => RunsAsApplied
  BY DEF ContainerInv, ConfigsInv, AppliedSoFar, StartTypeOK, StartShape,
         RunsAsApplied
<1> QED BY <1>1, ContainerInvAlways, PTL

(***************************************************************************)
(* A --check that answers 0 means that a restart is not needed             *)
(* (execute_config_check, execute_command_check).                          *)
(***************************************************************************)
THEOREM CheckIsSound == ContainerSpec => []CheckedNeedsNoRestart
<1>1. ASSUME ContainerInv, sh = "running", CheckAnswer = "0"
      PROVE  /\ cmd = config.command
             /\ \A d \in Dests : \/ fs[Live(d)] = AfterRestart(d)
                                 \/ d \in Declared(config) \ Available(config)
  <2>1. /\ config.command = run_command /\ Undeclared = {}
        /\ \A d \in Declared(config) : ~BadState(d)
    BY <1>1 DEF CheckAnswer
  <2>2. cmd = run_command
    BY <1>1 DEF ContainerInv, StartShape
  <2>3. ASSUME NEW d \in Available(config)
        PROVE  fs[Live(d)] = AfterRestart(d)
    BY <2>1, <2>3 DEF Available, BadState, AfterRestart
  <2>4. ASSUME NEW d \in Dests \ Available(config)
        PROVE  \/ fs[Live(d)] = AfterRestart(d)
               \/ d \in Declared(config) \ Available(config)
    BY <2>1, <2>4 DEF Undeclared, AfterRestart
  <2> QED BY <2>1, <2>2, <2>3, <2>4
<1>2. ContainerInv => CheckedNeedsNoRestart
  BY <1>1 DEF CheckedNeedsNoRestart
<1> QED BY <1>2, ContainerInvAlways, PTL

(***************************************************************************)
(* A service that runs trusts the custom CAs of the directory config.json  *)
(* declares, wherever earlier starts were killed (copy_cacerts.sh).        *)
(***************************************************************************)
THEOREM CasAreTrusted == ContainerSpec => []DeclaredCasAreTrusted
<1>1. ContainerInv => DeclaredCasAreTrusted
  BY DEF ContainerInv, StartShape, CasDeclared, DeclaredCasAreTrusted
<1> QED BY <1>1, ContainerInvAlways, PTL
=============================================================================
