----------------------------- MODULE MCPacerRate -----------------------------
(* Instances of PacerRate: rates around the multiples of the tick rate,     *)
(* where truncation and clamping change sides.                              *)
EXTENDS PacerRate

MCRates == {1, 50, 99, 100, 101, 150, 199, 200, 250, 299, 333}
MCLowRates == {50, 99}
==============================================================================
