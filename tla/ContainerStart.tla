--------------------------- MODULE ContainerStart --------------------------
(***************************************************************************)
(* The start of a container: start.sh runs kolla_set_configs, reads the    *)
(* command it left in /run_command, installs the custom CA certificates,   *)
(* sources kolla_extend_start and executes the command.  While the service *)
(* runs, "kolla_set_configs --check" may be asked whether the container    *)
(* has to be restarted for a changed config.json.                          *)
(*                                                                         *)
(* start.sh stops at the first command that fails (errexit); the script    *)
(* that installs the certificates does not.  It removes what it installed  *)
(* before, copies the certificates of one of two directories to the        *)
(* anchors of the system and rebuilds the bundle the programs read.  Which *)
(* directory it takes depends on the state file of kolla_set_configs.      *)
(***************************************************************************)
EXTENDS SetConfigs

CONSTANTS
    CaDest,         \* the destination /var/lib/kolla/share/ca-certificates
    Certs,          \* custom CA certificates
    CertsOf,        \* content of CaDest -> the certificates in it
    LegacyDirs,     \* contents of config_files/ca-certificates considered
    FindAnswers     \* whether "find" meets all three directories it is given

ASSUME ContainerStartAssumption ==
    /\ CaDest \in Dests
    /\ CertsOf \in [Contents \cup {Absent, Partial} -> SUBSET Certs]
    /\ CertsOf[Absent] = {}
    /\ LegacyDirs \subseteq SUBSET Certs
    /\ FindAnswers \subseteq BOOLEAN

VARIABLES
    sh,             \* where start.sh is
    cmd,            \* its variable CMD
    update_needed,  \* the variable of copy_cacerts.sh
    legacy,         \* the certificates in config_files/ca-certificates
    anchors,        \* the kolla-customca-* files
    bundle          \* the custom CAs the programs of the container trust

caVars == <<update_needed, legacy, anchors, bundle>>
startVars == <<vars, sh, cmd, caVars>>

StartTypeOK ==
    /\ TypeOK
    /\ sh \in {"configs", "command", "remove", "copy", "update", "extend",
               "running"}
    /\ sh = "configs" <=> pc # "up"
    /\ cmd \in Commands \cup {Absent}
    /\ update_needed \in BOOLEAN
    /\ legacy \in LegacyDirs
    /\ anchors \subseteq Certs /\ bundle \subseteq Certs

ContainerInit ==
    /\ Init
    /\ sh = "configs" /\ cmd = Absent
    /\ update_needed = FALSE
    /\ legacy \in LegacyDirs
    /\ anchors = {} /\ bundle = {}

-----------------------------------------------------------------------------
\* sudo -E kolla_set_configs
SetConfigsStep ==
    /\ Configure
    /\ sh = "configs"
    /\ sh' = IF pc' = "up" THEN "command" ELSE "configs"
    /\ UNCHANGED <<cmd, caVars>>

\* start.sh has come to step "from" and goes on to step "to".
Go(from, to) == sh = from /\ sh' = to /\ UNCHANGED vars

\* CMD=$(cat /run_command)
ReadCommand ==
    /\ Go("command", "remove")
    /\ run_command # Absent
    /\ cmd' = run_command
    /\ UNCHANGED caVars

(***************************************************************************)
(* kolla_copy_cacerts.  "find ... -exec rm" answers false if one of the    *)
(* three directories is missing, and has removed the certificates then     *)
(* too.                                                                    *)
(***************************************************************************)
RemoveOldCerts ==
    /\ Go("remove", "copy")
    /\ anchors' = {}
    /\ update_needed' \in FindAnswers
    /\ UNCHANGED <<cmd, legacy, bundle>>

\* Mutation: only the legacy directory is known.
LegacySource == legacy

\* "grep" finds the source of an entry in the state file.
SourceCerts ==
    IF ~torn /\ \E d \in DOMAIN state : state[d].source = Live(CaDest)
    THEN CertsOf[fs[Live(CaDest)]]
    ELSE legacy

CopyCerts ==
    /\ Go("copy", "update")
    /\ anchors' = SourceCerts
    /\ update_needed' = (update_needed \/ SourceCerts # {})
    /\ UNCHANGED <<cmd, legacy, bundle>>

\* Mutation: the bundle is built only if old certificates were found.
UpdateIfRemoved ==
    /\ Go("update", "extend")
    /\ bundle' = IF update_needed /\ bundle # {} THEN anchors ELSE bundle
    /\ UNCHANGED <<cmd, update_needed, legacy, anchors>>

UpdateBundle ==
    /\ Go("update", "extend")
    /\ bundle' = IF update_needed THEN anchors ELSE bundle
    /\ UNCHANGED <<cmd, update_needed, legacy, anchors>>

\* install_projects and the extend_start of the service
ExtendStart ==
    /\ Go("extend", "running")
    /\ UNCHANGED <<cmd, caVars>>

-----------------------------------------------------------------------------
\* The container is stopped or killed, or a command of start.sh failed.
Stop ==
    /\ Halt
    /\ sh' = "configs" /\ cmd' = Absent /\ update_needed' = FALSE
    /\ UNCHANGED <<legacy, anchors, bundle>>

Edit == OperatorEdits /\ UNCHANGED <<sh, cmd, caVars>>

EditLegacy ==
    /\ pc \in {"down", "up"}
    /\ legacy' \in LegacyDirs \ {legacy}
    /\ UNCHANGED <<vars, sh, cmd, update_needed, anchors, bundle>>

Write(d) ==
    /\ sh = "running"
    /\ ServiceWrites(d)
    /\ UNCHANGED <<sh, cmd, caVars>>

ContainerNext ==
    \/ SetConfigsStep
    \/ ReadCommand \/ RemoveOldCerts \/ CopyCerts \/ UpdateBundle
    \/ ExtendStart
    \/ Stop \/ Edit \/ EditLegacy
    \/ \E d \in Dests : Write(d)

ContainerSpec == ContainerInit /\ [][ContainerNext]_startVars

-----------------------------------------------------------------------------
(***************************************************************************)
(* kolla_set_configs --check: the exit code it would have now.  A missing  *)
(* /run_command and a torn state file raise exceptions of Python (2), the  *)
(* others are exceptions of the script (1).                                *)
(***************************************************************************)
\* execute_config_check: tracked, and not declared (StateMismatch)
Undeclared == DOMAIN state \ Declared(config)

\* ConfigFile.check: a required source is missing, or the file is not its
\* source.
BadState(d) ==
    IF d \in Available(config)
    THEN fs[Live(d)] # config.files[d].source
    ELSE ~config.files[d].optional

\* Mutation: the state file is not looked at.
CheckFilesOnly ==
    IF run_command = Absent THEN "2"
    ELSE IF config.command # run_command THEN "1"
    ELSE IF \E d \in Declared(config) : BadState(d) THEN "1"
    ELSE "0"

CheckAnswer ==
    IF run_command = Absent THEN "2"
    ELSE IF config.command # run_command THEN "1"
    ELSE IF torn THEN "2"
    ELSE IF Undeclared # {} \/ \E d \in Declared(config) : BadState(d) THEN "1"
    ELSE "0"

-----------------------------------------------------------------------------
(***************************************************************************)
(* Properties.                                                             *)
(***************************************************************************)

(***************************************************************************)
(* The service is executed with the command and on the files of a          *)
(* config.json that was applied as a whole.                                *)
(***************************************************************************)
RunsAsApplied ==
    sh = "running" =>
        /\ applied # Nothing
        /\ cmd = applied.command
        /\ \A d \in Available(applied) \ touched :
              fs[Live(d)] = applied.files[d].source

(***************************************************************************)
(* A --check that answers 0 means that a restart is not needed: each       *)
(* destination has what a start with the present config.json would leave   *)
(* there, be it the source, or what was there before it was tracked.  The  *)
(* one exception is an optional file whose source is gone, which --check   *)
(* passes over while a start would restore the default.                    *)
(***************************************************************************)
AfterRestart(d) ==
    IF d \in Available(config) THEN config.files[d].source
    ELSE IF d \in DOMAIN state THEN original[d]
    ELSE fs[Live(d)]

CheckedNeedsNoRestart ==
    sh = "running" /\ CheckAnswer = "0" =>
        /\ cmd = config.command
        /\ \A d \in Dests :
              \/ fs[Live(d)] = AfterRestart(d)
              \/ d \in Declared(config) \ Available(config)

(***************************************************************************)
(* A service that runs trusts the custom CAs of the directory config.json  *)
(* declares, and no others, however often the container was killed while   *)
(* it installed them.  It takes that directory to be one the image does    *)
(* not have, and not an empty one: then the bundle is not rebuilt.         *)
(***************************************************************************)
DeclaredCasAreTrusted ==
    sh = "running" /\ CaDest \in (DOMAIN state \cap Available(applied)) \ touched =>
        LET cas == CertsOf[applied.files[CaDest].source] IN
        cas # {} /\ state[CaDest].dest = Null => bundle = cas

(***************************************************************************)
(* "Check whether the configs changed": right after a start, with nothing  *)
(* edited since and nothing changed by the service, they did not.          *)
(***************************************************************************)
StartedIsUnchanged ==
    sh = "running" /\ config = applied /\ touched = {} => CheckAnswer = "0"
=============================================================================
