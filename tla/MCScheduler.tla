---------------------------- MODULE MCScheduler ----------------------------
(* A small kernel for TLC: images and suites cut down from IMAGES and the  *)
(* seed_suite functions of payload.rs.                                     *)
EXTENDS Scheduler

MCCap == {"write", "spawn"}

(* delegator and worker (suite m10), runaway (m4), forker (m6), and DOOM,  *)
(* which owns the serial line.                                             *)
MCImage == {"delegator", "redelegator", "worker", "runaway", "doom"}
MCCeiling == [i \in MCImage |->
    IF i \in {"delegator", "redelegator"} THEN MCCap ELSE {"write"}]
MCBudget == [i \in MCImage |-> IF i = "runaway" THEN 1 ELSE 0]

MCSuites == {[images |-> <<"delegator">>, fork |-> 1],
             [images |-> <<"runaway", "worker">>, fork |-> 0],
             [images |-> <<"doom">>, fork |-> 1]}

(* The delegation chain alone (m10), with one continuation of whoever      *)
(* checkpoints.                                                            *)
MCChain == {[images |-> <<"delegator">>, fork |-> 1]}
MCNoBudget == [i \in MCImage |-> 0]

=============================================================================
