----------------------------- MODULE MCAdmission -----------------------------
(* Admission on small instances: the cfg file chooses the values.          *)
EXTENDS Admission
=============================================================================
