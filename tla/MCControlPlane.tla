--------------------------- MODULE MCControlPlane ---------------------------
(* A suite with an id, one without, a kill and a budget for the first      *)
(* payload, a dial, a crash and a call with a bad argument.                *)
EXTENDS ControlPlane

C(tool, arg, valid, id) == [tool |-> tool, arg |-> arg, valid |-> valid, id |-> id]

MCCall ==
    [runA |-> C("run_suite", "m4", TRUE, "a"),
     runN |-> C("run_suite", "m4", TRUE, NoId),
     kill |-> C("kill", 0, TRUE, "k"),
     budget |-> C("set_budget", 0, TRUE, "s"),
     dial |-> C("set_autonomy", "autonomous", TRUE, "d"),
     crash |-> C("crash", 0, TRUE, "c"),
     bad |-> C("run_suite", "none", FALSE, "x")]
MCOp == DOMAIN MCCall
MCMaxFires == [o \in MCOp |-> IF o \in {"runA", "kill"} THEN 2 ELSE 1]

(* The first opId hashes to the empty slot's value but for the lowest bit. *)
MCRawHash == [a |-> 0, k |-> 4, s |-> 6, d |-> 8, c |-> 10, x |-> 12]

=============================================================================
