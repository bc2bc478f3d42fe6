------------------------ MODULE MC_RemoteModuleCall ------------------------
(* Instances of RemoteModuleCall for TLC.                                   *)
EXTENDS RemoteModuleCall

\* Three calls: a python module, a native one, a python one.
MCPython == {1, 3}
=============================================================================
