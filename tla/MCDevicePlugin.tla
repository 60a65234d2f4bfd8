--------------------------- MODULE MCDevicePlugin ---------------------------
(***************************************************************************)
(* Pools for DevicePlugin: none; two ways in each of two caches; a way     *)
(* that two digits name; NUMA nodes that they name, whose IDs coincide.    *)
(***************************************************************************)
EXTENDS DevicePlugin

At(n, w) == [node |-> n, way |-> w]

SomePools == {{}, {At(0, 1), At(0, 2), At(1, 1), At(1, 2)}, {At(0, 11), At(1, 1)},
              {At(1, 11), At(11, 1)}}
=============================================================================
