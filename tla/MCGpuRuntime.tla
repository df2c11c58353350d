---------------------------- MODULE MCGpuRuntime ----------------------------
(* Instances of GpuRuntime for TLC. *)
EXTENDS GpuRuntime, TLC

CONSTANTS t1, t2, r1, r2

TwoThreads == {t1, t2}
OneRuntime == {r1}
TwoRuntimes == {r1, r2}

=============================================================================
