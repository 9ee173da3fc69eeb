----------------------------- MODULE MCWorkDir -----------------------------
(***************************************************************************)
(* Instances of WorkDir for TLC.                                           *)
(***************************************************************************)
EXTENDS WorkDir

CONSTANTS main, plugin, master, j2, j2new, fix, fix2

OnePlugin == {plugin}

\* the reference every source asks for
OneLabel == {master}

\* the Dockerfile.j2 before and after an edit
TwoTemplates == {j2, j2new}

TwoPatches == {fix, fix2}

\* "fix" is a part of "fix2"
NameParts == {<<fix, fix>>, <<fix2, fix2>>, <<fix, fix2>>}

TwoSeries == {<<fix2, fix>>, <<fix, fix2>>}

MCParents == {[applied |-> <<>>, patched |-> <<>>],
              [applied |-> <<fix>>, patched |-> <<fix>>]}
=============================================================================
