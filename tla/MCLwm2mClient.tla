--------------------------- MODULE MCLwm2mClient ---------------------------
(* Instances of Lwm2mClient for TLC. *)
EXTENDS Lwm2mClient, TLC
=============================================================================
