----------------------------- MODULE MCStandby ------------------------------
(* The unit as it is left to itself: two layers, every amplifier on and in   *)
(* the path of AMP standby, a mode of standby chosen and its time come.      *)
EXTENDS Standby

MCInit ==
    /\ Init
    /\ chosen # {} /\ window = Algos /\ ext
    /\ layer = "mimo" /\ lead = "low"
    /\ user = Amps /\ path = Amps

MCSpec == MCInit /\ [][Next]_vars /\ Fairness
=============================================================================
