------------------------------ MODULE MCAnalysis ------------------------------
(* Model of Analysis for TLC: a runtime with containerd, and the two that    *)
(* share their configurations; one and two containers.                       *)
EXTENDS Analysis

Runtimes == <<"ctrd", "crun", "crun_batch">>

OneAndTwo == <<1, 2>>
==============================================================================
