--------------------------- MODULE MC_BoxDevice ----------------------------
(***************************************************************************)
(* Model-checking instances of BoxDevice.                                  *)
(***************************************************************************)
EXTENDS BoxDevice, TLC

\* Two channels per list (MAXIMUM_CHANNEL_LIST_SIZE is 3 in app_config.h):
\* channel 3 of region 1 and 35 of region 3, as do_channel_list_generation
\* picks them, and the first two default pairing channels.
MC_SystemChList == <<3, 35>>
MC_PairingChList == <<2, 48>>
\* One channel per list: no hopping, every beacon starts a new frame cycle.
MC_SystemChList1 == <<3>>
MC_PairingChList1 == <<2>>

\* Every node powers on with an erased data store: first pairing.
MC_FreshFlash ==
  [n \in Nodes |-> IF n = Box THEN ErasedBoxDs ELSE ErasedDevDs]
\* Every node powers on with the data store a completed pairing leaves:
\* the box's slots all taken, each device holding its slot.
MC_PairedFlash ==
  [n \in Nodes |->
     IF n = Box
     THEN [sig |-> TRUE, disp |-> MAXIMUM_DISPLAY_DEV,
           ctrl |-> MAXIMUM_CONTROLLER_DEV, chlist |-> SystemChList]
     ELSE [chlist |-> SystemChList, sys |-> BoxChip,
           idx |-> CHOOSE i \in 1..NumDev : TRUE]]

=============================================================================
