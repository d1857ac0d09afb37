-------------------------- MODULE MCGatewayDaemon ---------------------------
(***************************************************************************)
(* Instances of GatewayDaemon: a daemon, its restarts and the operators    *)
(* who stop it.                                                            *)
(***************************************************************************)
EXTENDS GatewayDaemon, TLC

DaemonSymm == Permutations(Daemons) \cup Permutations(Stops)
=============================================================================
