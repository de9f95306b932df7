------------------------------ MODULE MCTMbfr ------------------------------
(* Instances of TMbfr for TLC. *)
EXTENDS TMbfr_inv

CONSTANTS f1, f2, o1

\* Two readers of TM/DCf; one of each node; one of TM/DCf
TwoDCf  == [r \in {f1, f2} |-> "DCf"]
OneEach == [r \in {f1, o1} |-> IF r = o1 THEN "DCo" ELSE "DCf"]
OneDCf  == [r \in {f1} |-> "DCf"]
=============================================================================
