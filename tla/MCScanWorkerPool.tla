-------------------------- MODULE MCScanWorkerPool --------------------------
(* Three scans on a pool of two workers: enough for a whole-pool replacement *)
(* with a scan in flight on the replaced pool, and for a queued scan.        *)
EXTENDS ScanWorkerPool
=============================================================================
