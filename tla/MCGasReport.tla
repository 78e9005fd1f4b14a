---------------------------- MODULE MCGasReport ----------------------------
(* The four channels of the board, with a reading out of range and readings *)
(* that put every channel in several bands of its table.                    *)
EXTENDS GasReport

MCMillivolts == {40, 600, 1200, 1650, 2000, 2400, 3000, 3294}
=============================================================================
