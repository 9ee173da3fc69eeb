-------------------------- MODULE MCContainerStart -------------------------
(***************************************************************************)
(* Instances of ContainerStart for TLC: one destination, the directory of  *)
(* the CA certificates, which stands for every file as well.               *)
(***************************************************************************)
EXTENDS ContainerStart, SetConfigsRefinement

CONSTANTS ca_certs, none, shared, old, cmd1, cmd2

OneDest == {ca_certs}

NoWildcard == {}

\* a directory with a certificate, and one without
TwoContents == {none, shared}

TwoCommands == {cmd1, cmd2}

TwoCerts == {shared, old}

MCCertsOf == [c \in TwoContents \cup {Absent, Partial} |->
                 IF c = shared THEN {shared} ELSE {}]

TwoLegacyDirs == {{}, {old}}

BothStrategies == {"COPY_ALWAYS", "COPY_ONCE"}
=============================================================================
