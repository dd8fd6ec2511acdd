------------------------------ MODULE MCCampaign ------------------------------
(* Two rates with two and one qualification runs, a third rate that is     *)
(* never qualified, and a comparison run that does not depend on it.       *)
EXTENDS Campaign

MCQualification == {"q1a", "q1b", "q2"}
MCComparative == {"c1", "c2", "c3", "free"}
MCGated == {"c1", "c2", "c3"}
MCRate == [item \in Item |->
             IF item \in {"q1a", "q1b", "c1"} THEN 1
             ELSE IF item \in {"q2", "c2"} THEN 2
             ELSE 3]

=============================================================================
