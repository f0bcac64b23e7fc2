----------------------------- MODULE MCTelemetry -----------------------------
(* Instances of the telemetry reader for TLC. *)
EXTENDS Telemetry

MCSources == {[job |-> "j1", generation |-> 1], [job |-> "j2", generation |-> 2]}
MCReported == {"created", "rejected"}
MCLength == [s \in MCReported |-> IF s = "created" THEN 1 ELSE 2]
=============================================================================
