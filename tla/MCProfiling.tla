----------------------------- MODULE MCProfiling -----------------------------
(* Instances of Profiling for TLC. *)
EXTENDS Profiling

CONSTANTS qkv, head, norm

MCKeys == {qkv, head, norm}

\* Every GPU a runtime can meet.
AllGpus == {"timestamps", "unsupported", "denied", "off"}
=============================================================================
