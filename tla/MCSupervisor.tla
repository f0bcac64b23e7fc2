----------------------------- MODULE MCSupervisor -----------------------------
(* Instances of the supervisor for TLC. *)
EXTENDS Supervisor, TLC

MCLimit == "stdout" :> 1 @@ "stderr" :> 0
=============================================================================
