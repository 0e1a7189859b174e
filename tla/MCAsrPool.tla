------------------------------ MODULE MCAsrPool ------------------------------
(***************************************************************************)
(* Instances of the recognition pool for TLC: two executions of one task   *)
(* and one of another, which shares a model with the second.               *)
(***************************************************************************)
EXTENDS AsrPoolProperties

CONSTANTS first, again, other

ThreeRequests == {first, again, other}
TwoTasks      == [r \in ThreeRequests |-> IF r = other THEN 2 ELSE 1]
TwoRoles      == {"primary", "fallback"}
OneRole       == [r \in ThreeRequests |-> IF r = first THEN {"primary"} ELSE {"fallback"}]
=============================================================================
