--------------------------- MODULE SnapshotStore ----------------------------
(***************************************************************************)
(* What the daemon promises its readers, with no collectors, no loop and   *)
(* no errors in sight: a register with the latest window, a register with  *)
(* the last window that carried metrics, and the number of collection      *)
(* cycles since that one.  Numbers count up by one, times never go back.   *)
(***************************************************************************)
EXTENDS Integers

VARIABLES latest, lastGood, misses

storeVars == <<latest, lastGood, misses>>

(* seq = 0: nothing was ever published.                                    *)
Nothing == [seq |-> 0, at |-> 0]

StoreInit == latest = Nothing /\ lastGood = Nothing /\ misses = 0

Advance == latest'.seq = latest.seq + 1 /\ latest'.at >= latest.at

(* A cycle that read the exporter.                                         *)
PublishGood == Advance /\ lastGood' = latest' /\ misses' = 0

(* A cycle that only other sources answered.                               *)
PublishOther == Advance /\ misses' = misses + 1 /\ UNCHANGED lastGood

(* A cycle that produced no window.                                        *)
Miss == misses' = misses + 1 /\ UNCHANGED <<latest, lastGood>>

StoreNext == PublishGood \/ PublishOther \/ Miss

StoreSpec == StoreInit /\ [][StoreNext]_storeVars
=============================================================================
