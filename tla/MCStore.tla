------------------------------- MODULE MCStore -------------------------------
(* Small instances of FirmwareStore: two packs and one removal thread.      *)
EXTENDS FirmwareStore, TLC

CONSTANTS europe, northAmerica

Packs == Permutations(Pack)
==============================================================================
