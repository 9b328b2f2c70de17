-------------------------------- MODULE MCMoshi --------------------------------
(***************************************************************************)
(* Two handler threads, two workers and two GPUs that a peer takes too:    *)
(* with each fault that a property admits, and with all of them.           *)
(***************************************************************************)
EXTENDS MoshiSupervisor

MCScenes == {{"config"}, {"stubborn"}, {"config", "slow", "stubborn", "crash"}}
MCSlow == {{"slow"}}
=============================================================================
