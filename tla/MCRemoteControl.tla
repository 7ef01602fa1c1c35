--------------------------- MODULE MCRemoteControl ---------------------------
(* Instances of RemoteControl: the volumes and songs are strings, compared  *)
(* with the undefined values of the model.                                  *)
EXTENDS RemoteControl

TwoVolumes == {"low", "high"}
OneSong == {"a"}
=============================================================================
