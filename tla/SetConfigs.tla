---------------------------- MODULE SetConfigs -----------------------------
(***************************************************************************)
(* kolla_set_configs, which start.sh runs whenever a container starts: it  *)
(* copies the files config.json declares over those of the image.          *)
(*                                                                         *)
(* Before it overwrites a file for the first time it copies the default    *)
(* under /etc/kolla/defaults and tracks it in the state file there; at     *)
(* each later start it first undoes what it tracks (removes the file, or   *)
(* copies the default back), so that a file config.json does not declare   *)
(* any more is as the image had it.                                        *)
(*                                                                         *)
(* A copy deletes its destination and then writes it, and the state file   *)
(* is truncated and then written: a container that is killed, or a system  *)
(* call that fails, may leave each of them half done.  Between two starts  *)
(* the operator edits config.json and the service edits its files.         *)
(*                                                                         *)
(* A destination stands for a file or a directory.  Owners, modes and      *)
(* symbolic links are left out, and so is merge=true.                      *)
(***************************************************************************)
EXTENDS ConfigFiles, Naturals

CONSTANT
    MaxSaves        \* bound: how often the state file is written

ASSUME SetConfigsAssumption == MaxSaves \in Nat

\* The "dest" of a tracked file that the image does not have (null).
Null == <<"null">>

Live(d)    == <<"live", d>>         \* the destination itself
Default(d) == <<"default", d>>      \* KOLLA_DEFAULTS + destination

Places == {"live", "default"} \X Dests

\* The state file: what is tracked, by destination.
Tracking == [source : Places, dest : Places \cup {Null}]

States == UNION {[D -> Tracking] : D \in SUBSET Dests}

Empty == [d \in {} |-> Null]

VARIABLES
    strategy,       \* the environment variable of the container
    config,         \* config.json and its sources, as the operator has them
    \* the file system of the container
    fs,             \* place -> content
    state,          \* the state file; Empty if there is none
    torn,           \* it was truncated, and "state" is what it held before
    configured,     \* /configured exists
    run_command,    \* the content of /run_command
    \* the process
    pc, conf, mem,  \* where it is, config.json as loaded, state as loaded
    todo,           \* the loop it is in: what is left to do
    copying,        \* the copy under way: destination and content
    exit,           \* how the last run ended
    \* history
    saves,          \* how often the state file was written
    original,       \* what a destination held before it was tracked
    applied,        \* the config.json of the last run that configured
    touched         \* what the service changed since

process == <<pc, conf, mem, todo, copying, exit>>
history == <<saves, original, applied, touched>>
vars == <<strategy, config, fs, state, torn, configured, run_command,
          process, history>>

TypeOK ==
    /\ strategy \in Strategies
    /\ config \in Config
    /\ fs \in [Places -> Contents \cup {Absent, Partial}]
    /\ state \in States /\ torn \in BOOLEAN
    /\ configured \in BOOLEAN
    /\ run_command \in Commands \cup {Absent}
    /\ pc \in {"down", "restore", "backup", "saving", "copy", "finish", "up"}
    /\ conf \in Config \cup {Nothing} /\ mem \in States
    /\ todo \subseteq Dests
    /\ copying \in (Places \X (Contents \cup {Partial})) \cup {Nothing}
    /\ exit \in {"none", "0", "1", "2"}
    /\ saves \in 0..MaxSaves
    /\ original \in [Dests -> Contents \cup {Absent}]
    /\ applied \in Config \cup {Nothing}
    /\ touched \subseteq Dests

\* A container fresh from its image, with files the image has or has not.
Init ==
    /\ strategy \in Strategies
    /\ config \in Config
    /\ original \in [Dests -> Contents \cup {Absent}]
    /\ fs = [p \in Places |-> IF p[1] = "live" THEN original[p[2]] ELSE Absent]
    /\ state = Empty /\ torn = FALSE
    /\ configured = FALSE /\ run_command = Absent
    /\ pc = "down" /\ conf = Nothing /\ mem = Empty /\ todo = {}
    /\ copying = Nothing /\ exit = "none"
    /\ saves = 0 /\ applied = Nothing /\ touched = {}

-----------------------------------------------------------------------------
\* The process exits; what it held in memory is gone.
ExitTo(where, code) ==
    /\ pc' = where /\ exit' = code
    /\ conf' = Nothing /\ mem' = Empty /\ todo' = {} /\ copying' = Nothing

\* start.sh stops with it, and so does the container.
Fail(code) == ExitTo("down", code)

(***************************************************************************)
(* load_config, the strategy, and get_defaults_state.  A state file that   *)
(* is no JSON raises an exception main answers with exit code 2; a         *)
(* configured COPY_ONCE container is left as it is, with exit code 0.      *)
(***************************************************************************)
\* Mutation: /configured is not looked at.
StartAnyway ==
    /\ pc = "down" /\ saves < MaxSaves
    /\ IF torn THEN Fail("2")
       ELSE /\ pc' = "restore" /\ conf' = config /\ mem' = state
            /\ todo' = DOMAIN state /\ exit' = "none" /\ UNCHANGED copying
    /\ UNCHANGED <<strategy, config, fs, state, torn, configured, run_command,
                   history>>

\* Mutation: only what is still declared is restored.
StartWithDeclared ==
    /\ pc = "down" /\ saves < MaxSaves
    /\ IF strategy = "COPY_ONCE" /\ configured
       THEN ExitTo("up", "0")
       ELSE IF torn THEN Fail("2")
       ELSE /\ pc' = "restore" /\ conf' = config /\ mem' = state
            /\ todo' = DOMAIN state \cap Declared(config) /\ exit' = "none"
            /\ UNCHANGED copying
    /\ UNCHANGED <<strategy, config, fs, state, torn, configured, run_command,
                   history>>

Start ==
    /\ pc = "down" /\ saves < MaxSaves
    /\ IF strategy = "COPY_ONCE" /\ configured
       THEN ExitTo("up", "0")
       ELSE IF torn THEN Fail("2")
       ELSE /\ pc' = "restore" /\ conf' = config /\ mem' = state
            /\ todo' = DOMAIN state /\ exit' = "none" /\ UNCHANGED copying
    /\ UNCHANGED <<strategy, config, fs, state, torn, configured, run_command,
                   history>>

(***************************************************************************)
(* ConfigFile.copy of a file that is there: _delete_path removes the       *)
(* destination, shutil.copy creates it empty and writes it.                *)
(***************************************************************************)
BeginCopy(content, to) ==
    /\ copying = Nothing
    /\ copying' = <<to, content>>
    /\ \E half \in {Absent, Partial} : fs' = [fs EXCEPT ![to] = half]

EndCopy ==
    /\ copying # Nothing
    /\ fs' = [fs EXCEPT ![copying[1]] = copying[2]]
    /\ copying' = Nothing

-----------------------------------------------------------------------------
(***************************************************************************)
(* remove_or_restore_configs.  The swap of source and dest is done in the  *)
(* loaded state itself, and so becomes part of what is saved.              *)
(***************************************************************************)
RestoreRemove(d) ==
    /\ pc = "restore" /\ copying = Nothing
    /\ d \in todo /\ mem[d].dest = Null
    /\ fs' = [fs EXCEPT ![Live(d)] = Absent]
    /\ todo' = todo \ {d}
    /\ UNCHANGED <<strategy, config, state, torn, configured, run_command,
                   pc, conf, mem, copying, exit, history>>

RestoreBegin(d) ==
    LET v == [source |-> mem[d].dest, dest |-> mem[d].source] IN
    /\ pc = "restore" /\ copying = Nothing
    /\ d \in todo /\ mem[d].dest # Null
    /\ IF fs[v.source] = Absent
       THEN Fail("1") /\ UNCHANGED fs      \* MissingRequiredSource
       ELSE /\ mem' = [mem EXCEPT ![d] = v]
            /\ BeginCopy(fs[v.source], v.dest)
            /\ todo' = todo \ {d}
            /\ UNCHANGED <<pc, conf, exit>>
    /\ UNCHANGED <<strategy, config, state, torn, configured, run_command,
                   history>>

RestoreEnd ==
    /\ pc = "restore"
    /\ EndCopy
    /\ UNCHANGED <<strategy, config, state, torn, configured, run_command,
                   pc, conf, mem, todo, exit, history>>

(***************************************************************************)
(* backup_configs: what is declared, not tracked, and about to be          *)
(* overwritten.  os.path.exists is false for a pattern.                    *)
(***************************************************************************)
\* Mutation: what is tracked is backed up again.
BackupEvenTracked == Available(conf) \ Wildcards

ToBackUp == (Available(conf) \ Wildcards) \ DOMAIN mem

BackupStarts ==
    /\ pc = "restore" /\ copying = Nothing /\ todo = {}
    /\ pc' = "backup" /\ todo' = ToBackUp
    /\ UNCHANGED <<strategy, config, fs, state, torn, configured, run_command,
                   conf, mem, copying, exit, history>>

Track(d, to) ==
    mem' = [x \in DOMAIN mem \cup {d} |->
               IF x = d THEN [source |-> Live(d), dest |-> to] ELSE mem[x]]

\* Mutation: a file that is not there is tracked as one that was saved.
BackupAbsentAsSaved(d) ==
    /\ pc = "backup" /\ copying = Nothing
    /\ d \in todo /\ fs[Live(d)] = Absent
    /\ Track(d, Default(d))
    /\ todo' = todo \ {d}
    /\ UNCHANGED <<strategy, config, fs, state, torn, configured, run_command,
                   pc, conf, copying, exit, history>>

BackupAbsent(d) ==
    /\ pc = "backup" /\ copying = Nothing
    /\ d \in todo /\ fs[Live(d)] = Absent
    /\ Track(d, Null)
    /\ todo' = todo \ {d}
    /\ UNCHANGED <<strategy, config, fs, state, torn, configured, run_command,
                   pc, conf, copying, exit, history>>

BackupBegin(d) ==
    /\ pc = "backup"
    /\ d \in todo /\ fs[Live(d)] # Absent
    /\ BeginCopy(fs[Live(d)], Default(d))
    /\ UNCHANGED <<strategy, config, state, torn, configured, run_command,
                   pc, conf, mem, todo, exit, history>>

BackupEnd(d) ==
    /\ pc = "backup"
    /\ d \in todo /\ EndCopy /\ copying[1] = Default(d)
    /\ Track(d, Default(d))
    /\ todo' = todo \ {d}
    /\ UNCHANGED <<strategy, config, state, torn, configured, run_command,
                   pc, conf, exit, history>>

(***************************************************************************)
(* set_defaults_state: open(..., 'w') truncates the file, then json.dump   *)
(* writes it.                                                              *)
(***************************************************************************)
SaveBegin ==
    /\ pc = "backup" /\ copying = Nothing /\ todo = {}
    /\ pc' = "saving"
    /\ torn' = TRUE
    /\ UNCHANGED <<strategy, config, fs, state, configured, run_command, conf, mem,
                   todo, copying, exit, history>>

\* Mutation: only what is declared stays in the state.
SaveDeclared ==
    /\ pc = "saving"
    /\ pc' = "copy" /\ todo' = Declared(conf)
    /\ torn' = FALSE
    /\ state' = [d \in DOMAIN mem \cap Declared(conf) |-> mem[d]]
    /\ saves' = saves + 1
    /\ UNCHANGED <<strategy, config, fs, configured, run_command, conf, mem,
                   copying, exit, original, applied, touched>>

\* Mutation: the container counts as configured before its files are there.
SaveConfigured ==
    /\ pc = "saving"
    /\ pc' = "copy" /\ todo' = Declared(conf)
    /\ torn' = FALSE /\ state' = mem
    /\ saves' = saves + 1
    /\ configured' = (strategy = "COPY_ONCE")
    /\ UNCHANGED <<strategy, config, fs, run_command, conf, mem,
                   copying, exit, original, applied, touched>>

\* Mutation: what was backed up at this start is not saved.
SaveLoaded ==
    /\ pc = "saving"
    /\ pc' = "copy" /\ todo' = Declared(conf)
    /\ torn' = FALSE /\ state' = [d \in DOMAIN state |-> mem[d]]
    /\ saves' = saves + 1
    /\ UNCHANGED <<strategy, config, fs, configured, run_command, conf, mem,
                   copying, exit, original, applied, touched>>

SaveEnd ==
    /\ pc = "saving"
    /\ pc' = "copy" /\ todo' = Declared(conf)
    /\ torn' = FALSE /\ state' = mem
    /\ saves' = saves + 1
    /\ UNCHANGED <<strategy, config, fs, configured, run_command, conf, mem,
                   copying, exit, original, applied, touched>>

(***************************************************************************)
(* copy_config.                                                            *)
(***************************************************************************)
CopyMissing(d) ==
    /\ pc = "copy" /\ copying = Nothing
    /\ d \in todo \ Available(conf)
    /\ IF conf.files[d].optional
       THEN todo' = todo \ {d} /\ UNCHANGED <<pc, conf, mem, copying, exit>>
       ELSE Fail("1")                       \* MissingRequiredSource
    /\ UNCHANGED <<strategy, config, fs, state, torn, configured, run_command,
                   history>>

\* Mutation: a source that is not there is copied like any other.
CopyUnchecked(d) ==
    /\ pc = "copy"
    /\ d \in todo
    /\ BeginCopy(conf.files[d].source, Live(d))
    /\ todo' = todo \ {d}
    /\ UNCHANGED <<strategy, config, state, torn, configured, run_command,
                   pc, conf, mem, exit, history>>

CopyBegin(d) ==
    /\ pc = "copy"
    /\ d \in todo \cap Available(conf)
    /\ BeginCopy(conf.files[d].source, Live(d))
    /\ todo' = todo \ {d}
    /\ UNCHANGED <<strategy, config, state, torn, configured, run_command,
                   pc, conf, mem, exit, history>>

CopyEnd ==
    /\ pc = "copy"
    /\ EndCopy
    /\ UNCHANGED <<strategy, config, state, torn, configured, run_command,
                   pc, conf, mem, todo, exit, history>>

WriteCommand ==
    /\ pc = "copy" /\ copying = Nothing /\ todo = {}
    /\ pc' = "finish"
    /\ run_command' = conf.command
    /\ UNCHANGED <<strategy, config, fs, state, torn, configured, conf, mem,
                   todo, copying, exit, history>>

\* handle_permissions, and /configured for COPY_ONCE; start.sh goes on.
Finish ==
    /\ pc = "finish"
    /\ configured' = (strategy = "COPY_ONCE")
    /\ ExitTo("up", "0")
    /\ applied' = conf /\ touched' = {}
    /\ UNCHANGED <<strategy, config, fs, state, torn, run_command, saves,
                   original>>

-----------------------------------------------------------------------------
\* Killed, stopped, or ended by an exception not modelled (a full disk).
Halt ==
    /\ pc # "down"
    /\ ExitTo("down", "none")
    /\ UNCHANGED <<strategy, config, fs, state, torn, configured, run_command,
                   history>>

OperatorEdits ==
    /\ pc \in {"down", "up"}
    /\ config' \in Config \ {config}
    /\ UNCHANGED <<strategy, fs, state, torn, configured, run_command, process,
                   history>>

ServiceWrites(d) ==
    /\ pc = "up"
    /\ \E c \in Contents \cup {Absent} :
          /\ fs' = [fs EXCEPT ![Live(d)] = c]
          /\ original' = [original EXCEPT ![d] =
                             IF d \in DOMAIN state THEN @ ELSE c]
    /\ touched' = touched \cup {d}
    /\ UNCHANGED <<strategy, config, state, torn, configured, run_command,
                   process, saves, applied>>

\* kolla_set_configs at work.
Configure ==
    \/ Start
    \/ \E d \in Dests : RestoreRemove(d) \/ RestoreBegin(d)
    \/ RestoreEnd
    \/ BackupStarts
    \/ \E d \in Dests : BackupAbsent(d) \/ BackupBegin(d) \/ BackupEnd(d)
    \/ SaveBegin \/ SaveEnd
    \/ \E d \in Dests : CopyMissing(d) \/ CopyBegin(d)
    \/ CopyEnd \/ WriteCommand \/ Finish

Next ==
    \/ Configure
    \/ Halt \/ OperatorEdits
    \/ \E d \in Dests : ServiceWrites(d)

Spec == Init /\ [][Next]_vars
-----------------------------------------------------------------------------
(***************************************************************************)
(* Properties.                                                             *)
(***************************************************************************)

(***************************************************************************)
(* The service starts only with the files and the command of a config.json *)
(* that was applied as a whole, however often earlier starts were cut      *)
(* short, and for COPY_ONCE however often it starts again.                 *)
(***************************************************************************)
UpMeansApplied ==
    pc = "up" =>
        /\ applied # Nothing
        /\ run_command = applied.command
        /\ \A d \in Available(applied) \ touched :
              fs[Live(d)] = applied.files[d].source

(***************************************************************************)
(* No crash loses a default: until the state file is written for the       *)
(* second time, what a destination held before it was tracked is there or  *)
(* under /etc/kolla/defaults.  (The source of a pattern is not backed up.) *)
(***************************************************************************)
DefaultKept ==
    saves <= 1 =>
        \A d \in Dests \ Wildcards :
            original[d] \in {fs[Live(d)], fs[Default(d)]}

(***************************************************************************)
(* remove_or_restore_configs: after a start, a tracked file that           *)
(* config.json declares no more is what it was before: gone if there was   *)
(* none, the default otherwise.                                            *)
(***************************************************************************)
Undone(d) == fs[Live(d)] = original[d]

RemovedIsUndone ==
    pc = "up" /\ strategy = "COPY_ALWAYS" =>
        \A d \in (DOMAIN state \ Available(applied)) \ touched :
            saves <= 2 \/ state[d].dest = Null => Undone(d)

(***************************************************************************)
(* The same for every start: "restoring the configuration file by copying  *)
(* it back to its original location".                                      *)
(***************************************************************************)
RemovedIsRestored ==
    pc = "up" /\ strategy = "COPY_ALWAYS" =>
        \A d \in (DOMAIN state \ Available(applied)) \ touched : Undone(d)

(***************************************************************************)
(* What is tracked stays tracked, whatever is declared later, and a file   *)
(* the image did not have is never taken for a default.                    *)
(***************************************************************************)
TrackedIsKept ==
    [][\A d \in DOMAIN state :
          /\ d \in DOMAIN state'
          /\ state[d].dest = Null => state'[d] = state[d]]_vars

(***************************************************************************)
(* Until the state file is written for the second time no start fails for  *)
(* want of a default to restore: an entry is saved after its backup.       *)
(***************************************************************************)
RestoreFindsDefault ==
    [][pc = "restore" /\ saves <= 1 => exit' # "1"]_vars

(***************************************************************************)
(* COPY_ONCE: once configured, starting the container again changes no     *)
(* file; only the service does.                                            *)
(***************************************************************************)
ConfiguredIsFrozen ==
    [][configured /\ pc # "up" => UNCHANGED <<fs, run_command, state>>]_vars
=============================================================================
