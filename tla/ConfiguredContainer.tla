------------------------- MODULE ConfiguredContainer ------------------------
(***************************************************************************)
(* What kolla_set_configs promises for the files of a container, with no   *)
(* state file, no defaults, no phases and no copies under way:             *)
(*                                                                         *)
(*   - it changes no file but those it tracks, and it tracks a file of     *)
(*     config.json before it changes it for the first time, while the file *)
(*     is what it was (the files of a pattern are never tracked);          *)
(*   - the service starts only when the files and the command are those of *)
(*     one config.json, with nothing missing that it requires, and what it *)
(*     does not have, and the container had not, is gone;                  *)
(*   - a COPY_ONCE container that has come so far is left alone for ever.  *)
(*                                                                         *)
(* A start may be cut short at any moment.  SetConfigsRefinement shows     *)
(* that kolla_set_configs keeps this promise.                              *)
(***************************************************************************)
EXTENDS ConfigFiles

VARIABLES
    strategy,       \* the environment variable of the container
    config,         \* config.json and its sources, as the operator has them
    phase,          \* of the container: "down", "working" or "up"
    wanted,         \* the config.json of the start under way
    file,           \* destination -> content
    tracked,        \* the destinations that were recorded
    original,       \* what a destination held before it was recorded
    command,        \* what start.sh will run
    frozen          \* no start configures the container any more

vars == <<strategy, config, phase, wanted, file, tracked, original, command,
          frozen>>

Init ==
    /\ strategy \in Strategies /\ config \in Config
    /\ phase = "down" /\ wanted = Nothing
    /\ original \in [Dests -> Contents \cup {Absent}] /\ file = original
    /\ tracked = {} /\ command = Absent /\ frozen = FALSE

Begin ==
    /\ phase = "down" /\ ~frozen
    /\ phase' = "working" /\ wanted' = config
    /\ UNCHANGED <<strategy, config, file, tracked, original, command, frozen>>

Resume ==
    /\ phase = "down" /\ frozen
    /\ phase' = "up"
    /\ UNCHANGED <<strategy, config, wanted, file, tracked, original, command,
                   frozen>>

Record ==
    /\ phase = "working"
    /\ \E D \in SUBSET (Available(wanted) \ Wildcards) :
          /\ \A d \in D \ tracked : file[d] = original[d]
          /\ tracked' = tracked \cup D
    /\ UNCHANGED <<strategy, config, phase, wanted, file, original, command,
                   frozen>>

\* On the way a file may hold anything.
Change(d) ==
    /\ phase = "working"
    /\ d \in tracked \/ d \in Available(wanted) \cap Wildcards
    /\ \E c \in Contents \cup {Absent, Partial} : file' = [file EXCEPT ![d] = c]
    /\ UNCHANGED <<strategy, config, phase, wanted, tracked, original, command,
                   frozen>>

LeaveCommand ==
    /\ phase = "working"
    /\ command' = wanted.command
    /\ UNCHANGED <<strategy, config, phase, wanted, file, tracked, original,
                   frozen>>

\* Every file and the command are as config.json says.
Configured ==
    /\ command = wanted.command
    /\ \A d \in Available(wanted) :
          /\ file[d] = wanted.files[d].source
          /\ d \in tracked \/ d \in Wildcards
    /\ \A d \in Declared(wanted) \ Available(wanted) : wanted.files[d].optional
    /\ \A d \in tracked \ Available(wanted) :
          original[d] = Absent => file[d] = Absent

Complete ==
    /\ phase = "working" /\ Configured
    /\ phase' = "up" /\ wanted' = Nothing
    /\ frozen' = (strategy = "COPY_ONCE")
    /\ UNCHANGED <<strategy, config, file, tracked, original, command>>

\* The start fails, or the container is stopped or killed.
Stop ==
    /\ phase # "down"
    /\ phase' = "down" /\ wanted' = Nothing
    /\ UNCHANGED <<strategy, config, file, tracked, original, command, frozen>>

Edit ==
    /\ phase # "working"
    /\ config' \in Config
    /\ UNCHANGED <<strategy, phase, wanted, file, tracked, original, command,
                   frozen>>

ServiceWrites(d) ==
    /\ phase = "up"
    /\ \E c \in Contents \cup {Absent} :
          /\ file' = [file EXCEPT ![d] = c]
          /\ original' = IF d \in tracked THEN original
                                          ELSE [original EXCEPT ![d] = c]
    /\ UNCHANGED <<strategy, config, phase, wanted, tracked, command, frozen>>

Next ==
    \/ Edit \/ Stop
    \/ Begin \/ Resume \/ Record \/ LeaveCommand \/ Complete
    \/ \E d \in Dests : Change(d) \/ ServiceWrites(d)

Spec == Init /\ [][Next]_vars
=============================================================================
