------------------------------ MODULE MCOutreach ------------------------------
(* Constants of the Outreach instances that a cfg cannot write down.          *)
EXTENDS Outreach, TLC

(* One tick between any two messages of the sequence. *)
EveryTick == [k \in 0 .. MaxFollowUps - 1 |-> 1]

(* Leads are interchangeable: no rule compares two of them. *)
LeadSymmetry == Permutations(Leads)
===============================================================================
