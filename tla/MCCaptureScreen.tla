-------------------------- MODULE MCCaptureScreen -------------------------
(***************************************************************************)
(* Instances of CaptureScreen for TLC.                                     *)
(***************************************************************************)
EXTENDS CaptureScreen, TLC

\* Clients are interchangeable.
Symmetry == Permutations(Clients)
===========================================================================
