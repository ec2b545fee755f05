---------------------------- MODULE MCReplayJobs ----------------------------
(* Instances of ReplayJobs for TLC. Each replay's worker id is the uuid of   *)
(* its own request, so one worker per replay.                                *)
EXTENDS ReplayJobs, TLC

MCJob == {1, 2}
MCWorkerOf(j) == j
=============================================================================
