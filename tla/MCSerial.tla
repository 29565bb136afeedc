------------------------------ MODULE MCSerial ------------------------------
(* Instances of Serial for TLC. *)
EXTENDS Serial

AllExits == {"pass", "fail", "broken", "conf", "other", "signal"}
=============================================================================
