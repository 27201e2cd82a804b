--------------------------- MODULE MCBlockMining ---------------------------
(* Instances of BlockMining for TLC.                                       *)
EXTENDS BlockMining
-----------------------------------------------------------------------------
\* "the submission from the second miner will be accepted but not propagated"
\* (tests/test_manager.py): no block is pushed of a height that a block was
\* found of before.
FoundHeightIsNotPushed ==
    [][\A h \in Heights : pushing'[h] > pushing[h] => found[h] = 0]_vars
=============================================================================
