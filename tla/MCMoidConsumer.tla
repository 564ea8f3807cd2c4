----------------------------- MODULE MCMoidConsumer -----------------------------
(***************************************************************************)
(* Small instances of MoidConsumer.                                        *)
(***************************************************************************)
EXTENDS MoidConsumer, TLC

CONSTANTS w1, w2, n1, op1, op2, h1, rn1

MCWorkers == {w1, w2}
MCServers == {op1, op2}
MCResponseNonces == {rn1}
MCAssocTerms == {1}
OneWorker == {w1}
OneNonce == {n1}
OneServer == {op1}
OneHandle == {h1}

\* Processes and providers are interchangeable.
MCSymmetry == Permutations(MCWorkers) \cup Permutations(MCServers)

================================================================================
