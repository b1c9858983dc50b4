---------------------------- MODULE MCQuarantine ----------------------------
(* The quarantine model on small instances.                                *)
EXTENDS Quarantine
=============================================================================
