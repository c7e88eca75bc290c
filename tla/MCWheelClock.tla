---------------------------- MODULE MCWheelClock ----------------------------
(* Two keys, a wheel of two slots of eight milliseconds, deadlines up to    *)
(* more than one turn ahead.                                                *)
EXTENDS WheelClock

MCDelays == {0, 5, 15, 36}
=============================================================================
