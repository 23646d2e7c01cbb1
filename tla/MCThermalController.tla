------------------------- MODULE MCThermalController -------------------------
(* ThermalController for TLC, with the thresholds of a build with          *)
(* MFR_TEMP_CLOCK_READ in their order: 80, 90, 100, 102, 105 and 110       *)
(* degrees are 1 to 6.                                                     *)
EXTENDS ThermalController, TLC

MfrThresholds ==
    "deepsleep" :> [critical |-> 5, concern |-> 3, safe |-> 2] @@
    "reboot"    :> [critical |-> 6, concern |-> 4, safe |-> 3] @@
    "declock"   :> [critical |-> 3, concern |-> 2, safe |-> 1]

CallerSymmetry == Permutations(Callers)
=============================================================================
