--------------------------- MODULE MCControllerLoop ---------------------------
(* Small timers for ControllerLoop; the heat relay waits less than the     *)
(* others, as in the code (500 ms and 1000 ms).                            *)
EXTENDS ControllerLoop

PerEquipment(h, c) == [e \in Equipment |-> IF e = "heat" THEN h ELSE c]
OneOne == PerEquipment(1, 1)
ThreeZero == PerEquipment(3, 0)
OneThree == PerEquipment(1, 3)
OneInTwo == { [period |-> 2, duration |-> 1] }
HeatOneOthersTwo == [r \in {"heat", "cool", "fan", "spare"} |-> IF r = "heat" THEN 1 ELSE 2]
=============================================================================
