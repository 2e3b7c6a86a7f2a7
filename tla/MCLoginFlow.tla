----------------------------- MODULE MCLoginFlow -----------------------------
(* Instances of LoginFlow for TLC.                                         *)
EXTENDS LoginFlow

AllScopes == {{"register", "setup", "device"}, {"remember", "setup"}, {"device", "admin", "setup"}, {"reset"}, {"api"}}
=============================================================================
