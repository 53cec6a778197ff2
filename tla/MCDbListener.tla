---------------------------- MODULE MCDbListener ----------------------------
(* Instances of DbListener: two models of one table and one of another.    *)
EXTENDS DbListener, TLC

CONSTANTS m1, m2, m3, t1, t2

MCTableOf == m1 :> t1 @@ m2 :> t1 @@ m3 :> t2
=============================================================================
