---------------------------- MODULE MCRelayRace ----------------------------
(* Model values of RelayRace for TLC: every trace of at most MaxCalls      *)
(* calls.                                                                  *)
EXTENDS RelayRaceInv

CONSTANT MaxCalls

MCTraces == UNION {[1..n -> 0..2] : n \in 0..MaxCalls}
=============================================================================
