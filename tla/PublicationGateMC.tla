------------------------- MODULE PublicationGateMC -------------------------
(***************************************************************************)
(* Properties of the publication gate and the instances TLC checks.        *)
(***************************************************************************)
EXTENDS PublicationGateProps, TLC

\* No operator is a reviewer here, so operators are interchangeable.
OperatorSymmetry == Permutations(Operators)

=============================================================================
