------------------------------ MODULE MCHandover ------------------------------
(***************************************************************************)
(* Hermes, two peers that claim the GPUs, and requests that fail; both     *)
(* when nothing changes during a handover and when anything may.           *)
(***************************************************************************)
EXTENDS GpuHandover
=============================================================================
