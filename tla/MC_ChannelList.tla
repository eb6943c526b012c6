-------------------------- MODULE MC_ChannelList ---------------------------
(***************************************************************************)
(* Model-checking instance of ChannelList.                                 *)
(***************************************************************************)
EXTENDS ChannelList

\* The first three channels of REGION1_CHANNEL_LIST and
\* REGION3_CHANNEL_LIST, the first two rows of scheme 2's
\* gca_available_chlist.
MC_available_chlist == <<<<1, 3, 4>>, <<32, 35, 36>>>>

=============================================================================
