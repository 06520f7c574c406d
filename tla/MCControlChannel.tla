-------------------------- MODULE MCControlChannel --------------------------
(* Instances of ControlChannel for TLC. *)
EXTENDS ControlChannel

\* int is -2..2 here.
MinIntSmall == -2
NumSmall == -3..3

Object(i, j) == [root |-> "object", client_id |-> i, job |-> j]

\* One body for each outcome of parse.
BodiesFew == {Object(Json("int", 1), Job), Object(Json("int", -1), Job), Object(Null, Job),
              [root |-> "array", client_id |-> Null, job |-> Null]}
=============================================================================
