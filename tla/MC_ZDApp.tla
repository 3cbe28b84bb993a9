------------------------------ MODULE MC_ZDApp ------------------------------
(* No network, one that knows the device, one that only takes new devices. *)
EXTENDS ZDApp

MCAirs == {{}, {"JOIN"}, Procedures}
=============================================================================
