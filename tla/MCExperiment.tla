---------------------------- MODULE MCExperiment ----------------------------
(***************************************************************************)
(* ExperimentPipeline with the three policies of the script.               *)
(***************************************************************************)
EXTENDS ExperimentPipeline

MCPolicies == <<"Local", "Remote", "_Inter">>
=============================================================================
