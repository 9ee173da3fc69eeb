----------------------------- MODULE MCCertSync ----------------------------
(***************************************************************************)
(* Instances of CertSync for TLC.                                          *)
(***************************************************************************)
EXTENDS CertSync, TLC

CONSTANTS ctl1, ctl11

TwoHosts == <<ctl1, ctl11>>

\* The addresses end in .1 and .11: grep finds the first in the second.
Addresses == (ctl1 :> {ctl1}) @@ (ctl11 :> {ctl1, ctl11})
=============================================================================
