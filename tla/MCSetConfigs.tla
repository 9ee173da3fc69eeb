--------------------------- MODULE MCSetConfigs ----------------------------
(***************************************************************************)
(* Instances of SetConfigs for TLC: two destinations, one of which may be  *)
(* declared with a pattern.                                                *)
(***************************************************************************)
EXTENDS SetConfigs

CONSTANTS conf1, conf2, factory, new, cmd

OneDest == {conf1}

TwoDests == {conf1, conf2}

NoWildcard == {}

SecondIsWildcard == {conf2}

TwoContents == {factory, new}

OneSource == {new}

OneCommand == {cmd}

BothStrategies == {"COPY_ALWAYS", "COPY_ONCE"}

CopyAlways == {"COPY_ALWAYS"}
=============================================================================
