------------------------ MODULE MCRenderSupervisor ------------------------
(* An instance of RenderSupervisor for TLC: a deployment of two containers. *)
EXTENDS RenderSupervisor

CONSTANTS r1, r2

TwoContainers == {r1, r2}

=============================================================================
