----------------------------- MODULE MCService -----------------------------
(* Service on small instances: the cfg files choose the values.            *)
EXTENDS Service
=============================================================================
