---------------------------- MODULE ChannelList ----------------------------
(***************************************************************************)
(* do_channel_list_generation of examples/proprietary_rf/box/main.c: the   *)
(* box's pick of one system channel per region before pairing.  For each   *)
(* region i it samples the RSSI of every channel of the region            *)
(* MAXIMUM_RSSI_SAMPLES times, channel after channel, adds each reading to *)
(* the channel's rssi[k], and keeps in selected_ch the channel whose sum   *)
(* last rose above highest_rssi.  The readings of NRF_RADIO->RSSISAMPLE    *)
(* are the inputs, chosen by the Measure step.  The radio register         *)
(* sequence (RXEN, START, RSSISTART, DISABLE and their busy-waits) is one  *)
(* reading.                                                                *)
(***************************************************************************)
EXTENDS Integers, Sequences, SequencesExt

CONSTANTS
  gca_available_chlist,  \* region -> its channels (scheme 2: regions 1, 3, 5)
  MAXIMUM_RSSI_SAMPLES,
  RssiSamples,           \* values NRF_RADIO->RSSISAMPLE can read
  UninitByte             \* values the uninitialised selected_ch can hold

MAXIMUM_CHANNEL_LIST_SIZE   == Len(gca_available_chlist)
MAXIMUM_CHANNELS_PER_REGION == Len(gca_available_chlist[1])
Regions  == 1..MAXIMUM_CHANNEL_LIST_SIZE
Channels == 1..MAXIMUM_CHANNELS_PER_REGION

ASSUME \A r \in Regions : Len(gca_available_chlist[r]) = MAXIMUM_CHANNELS_PER_REGION
ASSUME RssiSamples \subseteq 0..127          \* RSSISAMPLE is 7 bits wide
ASSUME UninitByte \subseteq 0..255 /\ UninitByte # {}
ASSUME MAXIMUM_RSSI_SAMPLES \in Nat \ {0}

VARIABLES
  i,             \* region index (1-based)
  samples,       \* sample round within the region
  k,             \* channel index within the region (1-based)
  rssi,          \* uint16_t rssi[MAXIMUM_CHANNELS_PER_REGION]
  highest_rssi,
  selected_ch,
  chlist         \* g_ds.chlist

vars == <<i, samples, k, rssi, highest_rssi, selected_ch, chlist>>

\* uint16_t arithmetic.  256 samples of at most 127 never wrap, but the
\* sums keep their width.
U16(x) == x % 65536

NoRssi == [c \in Channels |-> 0]

\* Entry: selected_ch is not initialised; g_ds.chlist is what ds_get read
\* (an erased page before the first pairing).  The loop body of region 1
\* has cleared rssi and highest_rssi.
Init ==
  /\ i = 1 /\ samples = 0 /\ k = 1
  /\ rssi = NoRssi /\ highest_rssi = 0
  /\ selected_ch \in UninitByte
  /\ chlist = [r \in Regions |-> 255]

\* One pass of the inner k loop: read channel k's RSSI, add it to rssi[k],
\* and select the channel when its sum beats the highest so far.
RegionMeasure(v) ==
  LET sum == U16(rssi[k] + v)
  IN /\ rssi' = [rssi EXCEPT ![k] = sum]
     /\ IF highest_rssi < sum
        THEN highest_rssi' = sum /\ selected_ch' = gca_available_chlist[i][k]
        ELSE UNCHANGED <<highest_rssi, selected_ch>>

\* The next (k, samples) of the two inner loops.
\* Mutation: the k loop runs while k <= MAXIMUM_CHANNELS_PER_REGION.
NextRound_off(kk, s) ==
  IF kk > MAXIMUM_CHANNELS_PER_REGION THEN <<1, s + 1>> ELSE <<kk + 1, s>>
NextRound(kk, s) ==
  IF kk = MAXIMUM_CHANNELS_PER_REGION THEN <<1, s + 1>> ELSE <<kk + 1, s>>

Measure ==
  /\ i \in Regions
  /\ samples < MAXIMUM_RSSI_SAMPLES
  /\ \E v \in RssiSamples : RegionMeasure(v)
  /\ k' = NextRound(k, samples)[1]
  /\ samples' = NextRound(k, samples)[2]
  /\ UNCHANGED <<i, chlist>>

\* Mutation: highest_rssi is not cleared for the next region.
ClearedHighest_kept(h) == h
ClearedHighest(h) == 0

\* g_ds.chlist[i] = selected_ch, then the body of the next region clears
\* rssi and highest_rssi; selected_ch is left as it was.
EndRegion ==
  /\ i \in Regions
  /\ samples = MAXIMUM_RSSI_SAMPLES
  /\ chlist' = [chlist EXCEPT ![i] = selected_ch]
  /\ i' = i + 1
  /\ samples' = 0
  /\ rssi' = IF i < MAXIMUM_CHANNEL_LIST_SIZE THEN NoRssi ELSE rssi
  /\ highest_rssi' = IF i < MAXIMUM_CHANNEL_LIST_SIZE
                     THEN ClearedHighest(highest_rssi) ELSE highest_rssi
  /\ UNCHANGED <<k, selected_ch>>

\* The function has returned.
Done == i > MAXIMUM_CHANNEL_LIST_SIZE
Terminating == Done /\ UNCHANGED vars

Next == Measure \/ EndRegion \/ Terminating

Spec == Init /\ [][Next]_vars

(***************************************************************************)
(* Properties.                                                             *)
(***************************************************************************)

\* The loop counters, sums and selected channel have their C types.
TypeOK ==
  /\ i \in 1..(MAXIMUM_CHANNEL_LIST_SIZE + 1)
  /\ samples \in 0..MAXIMUM_RSSI_SAMPLES
  /\ k \in Channels
  /\ rssi \in [Channels -> 0..65535]
  /\ highest_rssi \in 0..65535
  /\ selected_ch \in 0..255
  /\ chlist \in [Regions -> 0..255]

\* Reference: the channels of region r whose summed RSSISAMPLE over all
\* samples, tot, is the largest of the region.
HighestRssiChannels(r, tot) ==
  {gca_available_chlist[r][c] :
     c \in {x \in Channels : \A y \in Channels : tot[y] <= tot[x]}}

\* When the sampling of a region ends, the channel the running comparison
\* of partial sums selected is one of the region's channels with the
\* largest summed RSSI, whatever the order the sums grew in.
RegionPicksHighestRssi ==
  (i \in Regions /\ samples = MAXIMUM_RSSI_SAMPLES)
    => selected_ch \in HighestRssiChannels(i, rssi)

=============================================================================
