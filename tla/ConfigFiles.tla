---------------------------- MODULE ConfigFiles ----------------------------
(***************************************************************************)
(* config.json, which tells kolla_set_configs what files a container gets  *)
(* and what command it runs.  A destination stands for a file or a         *)
(* directory; "source" is what is there to copy, or Absent.                *)
(***************************************************************************)
EXTENDS FiniteSets

CONSTANTS
    Dests,          \* the destinations config.json may declare
    Wildcards,      \* those whose source is a pattern with a "*"
    Contents,       \* contents of files
    Sources,        \* those the sources of config.json may have
    Absent,         \* no file
    Partial,        \* a file whose writing was cut short
    Commands,       \* values of the "command" key
    Strategies      \* values of KOLLA_CONFIG_STRATEGY

ASSUME ConfigFilesAssumption ==
    /\ IsFiniteSet(Dests) /\ Wildcards \subseteq Dests
    /\ Sources \subseteq Contents
    /\ Absent \notin Contents /\ Partial \notin Contents /\ Absent # Partial
    /\ Strategies \subseteq {"COPY_ALWAYS", "COPY_ONCE"}

\* An entry of config_files.
Entries == [source : Sources \cup {Absent}, optional : BOOLEAN]

\* config.json: the entries by destination, and the command.
Config == [files : UNION {[D -> Entries] : D \in SUBSET Dests},
           command : Commands]

Declared(c) == DOMAIN c.files

Available(c) == {d \in Declared(c) : c.files[d].source # Absent}

\* No config.json is loaded.
Nothing == <<>>
=============================================================================
