------------------------------ MODULE MCRollouts ------------------------------
(***************************************************************************)
(* Two administrators whose operations on one rollout may overlap, a       *)
(* rollout of three stages, and a repository that joins meanwhile.         *)
(***************************************************************************)
EXTENDS EffectivePolicy

\* Of few repositories two percentages select the same ones.
MCStages == <<{"r1"}, {"r1"}, {"r1", "r2"}>>
MCScopeOf == [e \in {} |-> e]
=============================================================================
