------------------------------- MODULE MCPull -------------------------------
(* Instances of Pull: three resources captured by two workers, a pull that *)
(* may be repeated, and a project file that is edited, with and without an *)
(* effect on how its resources are captured.  A rival has the stored file. *)
EXTENDS Pull

Stored == [project |-> "stored", options |-> "plain", policy |-> "mask"]

MCRequests ==
  {Stored, [Stored EXCEPT !.project = "edited"],
   [Stored EXCEPT !.project = "edited", !.options = "gzip"]}

RivalAsks == request'["rival"] \in {None, Stored}

MCSpec == PullInit /\ [][PullNext /\ RivalAsks]_pullAll /\ WF_pullAll(PullStep)

=============================================================================
