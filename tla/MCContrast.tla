----------------------------- MODULE MCContrast -----------------------------
(* A small instance of Contrast: all that may go wrong beside the agents, and *)
(* on its own, agents whose time runs out.                                    *)
EXTENDS Contrast

MCFaultSets == {AllFaults \ {"time"}, {"time"}}

=============================================================================
