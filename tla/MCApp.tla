-------------------------------- MODULE MCApp --------------------------------
(***************************************************************************)
(* A small instance of the client's threads for TLC.                       *)
(***************************************************************************)
EXTENDS App

\* One worker makes two requests, so that it may be swept between them.
MCMaxReqs == <<2, 1>>
==============================================================================
