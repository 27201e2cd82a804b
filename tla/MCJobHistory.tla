---------------------------- MODULE MCJobHistory ----------------------------
(* JobHistory for TLC: the instances of MCTxMiningManager.                 *)
EXTENDS JobHistory, MCTxMiningManager
=============================================================================
