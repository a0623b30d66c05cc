-------------------------- MODULE MCReliabilityLab --------------------------
(* The experiments of the reliability lab share no state: a behaviour is a  *)
(* behaviour of one of them.                                                *)
EXTENDS Packet, Cache, Fence

VARIABLE experiment

LabInit ==
    /\ experiment \in {"packet", "cache", "fence"}
    /\ PacketInit /\ CacheInit /\ FenceInit

LabNext ==
    /\ UNCHANGED experiment
    /\ \/ experiment = "packet" /\ PacketNext /\ UNCHANGED <<cacheVars, fenceVars>>
       \/ experiment = "cache" /\ CacheNext /\ UNCHANGED <<packetVars, fenceVars>>
       \/ experiment = "fence" /\ FenceNext /\ UNCHANGED <<packetVars, cacheVars>>

LabSpec == LabInit /\ [][LabNext]_<<experiment, packetVars, cacheVars, fenceVars>>
=============================================================================
