---- MODULE MCCloudRuns ----
(* Two instances, two requests, two batches, two values, two attempts. *)
EXTENDS AgentCloudSteps
====
