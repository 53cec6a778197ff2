---------------------------- MODULE MCTimingInput ---------------------------
(* An instance of TimingInput: four messages of two bytes, of which one is *)
(* internal, and one that is a byte too long.                              *)
EXTENDS TimingInput

Time(size) == [size |-> size, type |-> "time"]

MCMessages == <<Time(2), [size |-> 2, type |-> "Z"], Time(3), Time(2)>>
=============================================================================
