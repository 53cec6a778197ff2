----------------------------- MODULE MCRunTable -----------------------------
(* An instance of RunTable: three runs of one of two events; two of them   *)
(* share a car, two a driver, and two neither.                             *)
EXTENDS RunTable, TLC

CONSTANTS e1, e2, r1, r2, r3, d1, d2, k1, k2

MCRunEvent   == r1 :> e1 @@ r2 :> e1 @@ r3 :> e1
MCRunDriver  == r1 :> d1 @@ r2 :> d2 @@ r3 :> d2
MCRunCar     == r1 :> 1 @@ r2 :> 1 @@ r3 :> 2
MCClassOf    == 1 :> k1 @@ 2 :> k2
MCRegDrivers == e1 :> {d1, d2} @@ e2 :> {d1}
MCRegCars    == e1 :> {1, 2} @@ e2 :> {2}
=============================================================================
