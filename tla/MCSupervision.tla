----------------------------- MODULE MCSupervision -----------------------------
(***************************************************************************)
(* Two streams of one supervisor or of two, queues and a ring short enough *)
(* to overflow.                                                            *)
(***************************************************************************)
EXTENDS Supervision
=============================================================================
