----------------------------- MODULE MCDiagnosis ------------------------------
(***************************************************************************)
(* The engine and the evaluation that compares its reports with a corpus,  *)
(* one after the other: every bundle with an evaluation that is refused at *)
(* once, then every evaluation after a diagnosis that is.                  *)
(***************************************************************************)
EXTENDS MCEngine, MCEvaluation, Evaluation

MCInit ==
  \/ corpus = Unfounded /\ EvaluationInit /\ Init
  \/ evidence = Unsealed /\ pc = "verify" /\ Init /\ EvaluationInit

MCNext ==
  \/ Next /\ UNCHANGED evaluation
  \/ pc = "done" /\ EvaluationNext /\ UNCHANGED vars

MCSpec == MCInit /\ [][MCNext]_<<vars, evaluation>>
===============================================================================
