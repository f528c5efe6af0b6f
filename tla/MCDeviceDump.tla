------------------------------ MODULE MCDeviceDump ------------------------------
(* Symmetry of the devices for the runs of DeviceDumpHandler.              *)
EXTENDS DeviceDumpHandler

Symmetry == Permutations(Devices)
=================================================================================
