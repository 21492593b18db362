--------------------------- MODULE MCInfraPrinter ----------------------------
(* Instances of InfraPrinter for TLC.                                      *)
EXTENDS InfraPrinter, MCJobQueue

DeviceSymmetry == Permutations(Devices) \cup Permutations(Proxies)
=============================================================================
