------------------------------ MODULE MCAgent -------------------------------
(* A small instance of Agent: AUTHZ says on, off in two ways, or is misspelt. *)
EXTENDS Agent

MCEnvValue == {"off", " OFF ", "on", "offf"}

MCLowercase == [v \in MCEnvValue |-> IF v = " OFF " THEN "off" ELSE v]

=============================================================================
