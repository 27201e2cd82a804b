------------------------------ MODULE MCHttpApi ------------------------------
(* Instances of HttpApi for TLC.                                           *)
EXTENDS HttpApi, TLC

\* Every hash of the bodies.
Hashes == Bodies \X Times

PollSymmetry == Permutations(Polls)
=============================================================================
