------------------------ MODULE MCExecutionReceipts ------------------------
(* Three calls, two of them under one key, on a clock of four readings.    *)
EXTENDS ExecutionReceipts, TLC

CONSTANTS c1, c2, c3, k1, k2

MCCalls == {c1, c2, c3}
MCKeys == {k1, k2}
MCKeyOf == c1 :> k1 @@ c2 :> k1 @@ c3 :> k2
MCTimes == 0..3
MCWindows == {2, 3}
=============================================================================
