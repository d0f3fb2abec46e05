---------------------------- MODULE MCHvacRuntime ----------------------------
(* Values for the timers of HvacRuntime, scaled down; the order of the     *)
(* defaults (idle < off, run < failsafe < max run) is kept.                *)
EXTENDS HvacRuntime

PerEquipment(h, c) == [e \in Equipment |-> IF e = "heat" THEN h ELSE c]

TwoThree == PerEquipment(2, 3)
TwoOne == PerEquipment(2, 1)
OneTwo == PerEquipment(1, 2)
OneOne == PerEquipment(1, 1)
ThreeZero == PerEquipment(3, 0)

OneInTwo == { [period |-> 2, duration |-> 1] }
HalfAndAlways == { [period |-> 2, duration |-> 1], [period |-> 1, duration |-> 2] }
=============================================================================
