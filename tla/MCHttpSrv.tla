------------------------------ MODULE MCHttpSrv ------------------------------
(***************************************************************************)
(* Small instances of the test server for TLC.                             *)
(***************************************************************************)
EXTENDS HttpSrv, TLC

\* struct reqs are interchangeable.
MCSymmetry == Permutations(Reqs)
==============================================================================
