----------------------------- MODULE MCMgrConfig -----------------------------
(***************************************************************************)
(* Small instances of the client's configuration for TLC.                  *)
(***************************************************************************)
EXTENDS MgrConfig

\* Unlimited, none, and two numbers that do not divide each other.
MCValues == {-1, 0, 2, 3}

\* Two threads and fewer connections than threads.
MCFew == {1, 2}
==============================================================================
