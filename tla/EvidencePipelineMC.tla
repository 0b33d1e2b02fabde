-------------------------- MODULE EvidencePipelineMC --------------------------
(***************************************************************************)
(* The instances of the evidence pipeline that TLC checks.                 *)
(***************************************************************************)
EXTENDS EvidencePipelineProps, TLC

WorkerSymmetry == Permutations(Workers)

=============================================================================
