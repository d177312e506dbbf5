-------------------------- MODULE MCCheckPipeline --------------------------
(* Four of the seventeen checks, in their order: one that fires the hook    *)
(* itself, one that stashes a reason, one that does not, and one that never *)
(* reports.                                                                 *)
EXTENDS CheckPipeline, TLC

MCChecks == <<"route_config", "ip_security", "cloud_provider", "custom_request">>

=============================================================================
