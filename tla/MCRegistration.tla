--------------------------- MODULE MCRegistration ---------------------------
(* One process that is started again under an id of its own, and a second  *)
(* one that may share the id (the default id of the command line is the    *)
(* same for every robot).                                                  *)
EXTENDS RegistrationHistory, TLC

CONSTANTS a, b

SharedId == [p \in {a, b} |-> "7"]
Runs == (a :> 2) @@ (b :> 1)
=============================================================================
