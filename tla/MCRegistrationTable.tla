------------------------ MODULE MCRegistrationTable ------------------------
(* An instance of RegistrationTable: two registrations of one of two       *)
(* events.                                                                 *)
EXTENDS RegistrationTable, TLC

CONSTANTS e1, e2, r1, r2, d1, d2, c1, c2, k1, k2

MCRegEvent  == r1 :> e1 @@ r2 :> e1
MCRegDriver == r1 :> d1 @@ r2 :> d2
MCRegCar    == r1 :> c1 @@ r2 :> c2
MCClassOf   == c1 :> k1 @@ c2 :> k2
=============================================================================
