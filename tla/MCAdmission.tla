------------------------------ MODULE MCAdmission ------------------------------
(* Admission for TLC; slots, ids and keys are interchangeable.               *)
EXTENDS Admission, TLC

AdmissionSymmetry == Permutations(Requests) \cup Permutations(Jobs) \cup Permutations(Analyses)
===============================================================================
