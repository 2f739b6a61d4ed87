--------------------------- MODULE MCSampledDataSet --------------------------
(***************************************************************************)
(* Five samples, two pairs of them of equal priority (as the events of one *)
(* transaction or trace are), and reservoirs of no to three samples.       *)
(***************************************************************************)
EXTENDS SampledDataSet

MCSamples  == 1 .. 5
MCPriority == [s \in MCSamples |-> (s + 1) \div 2]
=============================================================================
