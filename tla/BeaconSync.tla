----------------------------- MODULE BeaconSync -----------------------------
(***************************************************************************)
(* Scheme 2 beacon following in normal mode, in time: the box's TIMER0    *)
(* fires every INTERVAL_TIMER_INTERVAL_10MS * 100 us, hops its channel     *)
(* index and sends a beacon; the device's TIMER0 fires every 1 ms and      *)
(* counts g_scan_timeout and g_sync_timeout down, hopping when the scan    *)
(* times out.  A beacon the device hears re-arms g_sync_timeout and        *)
(* restarts its timer (TASKS_CLEAR) after it has answered.                 *)
(*                                                                         *)
(* Time is a grid of 1 ms.  In each millisecond the box's tick comes       *)
(* first (stage "BOX"), then its beacon is on the air ("AIR"), then the    *)
(* device's tick ("DEV").  The device's timer runs from the moment it      *)
(* restarted, just after a box tick, so at a shared millisecond its tick   *)
(* is the later one; a free-running phase is equivalent to some such grid. *)
(* Channels are indices into the system channel list both nodes share;     *)
(* the device's index MAXIMUM_CHANNEL_LIST_SIZE is the pairing channel it  *)
(* holds before its first hop.  The radio is abstracted to: the device     *)
(* hears a beacon when it listens on the beacon's channel, unless the      *)
(* beacon is lost.                                                         *)
(***************************************************************************)
EXTENDS Integers

CONSTANTS
  MAXIMUM_CHANNEL_LIST_SIZE,
  INTERVAL_TIMER_INTERVAL_10MS

L == MAXIMUM_CHANNEL_LIST_SIZE
\* Box: NRF_TIMER0->CC[0] = INTERVAL_TIMER_INTERVAL_10MS * 100 at 1 MHz.
BoxPeriodMs == (INTERVAL_TIMER_INTERVAL_10MS * 100) \div 1000
\* Device: timer ticks of 1 ms (CC[0] = 1000 at 1 MHz).
BEACON_SCAN_SHORT_TIMEOUT_MS == INTERVAL_TIMER_INTERVAL_10MS \div 10
BEACON_SCAN_LONG_TIMEOUT_MS  == (INTERVAL_TIMER_INTERVAL_10MS \div 10) * (L + 1)

ASSUME L \in Nat \ {0} /\ BoxPeriodMs \in Nat \ {0}

VARIABLES
  stage,     \* "BOX", "AIR" or "DEV": the part of the millisecond
  bt,        \* ms until the box's timer fires (1: in this millisecond)
  bIdx,      \* box g_cur_ch_idx
  air,       \* the beacon on the air: [ch, new, named]
  dIdx,      \* device g_cur_ch_idx
  rx,        \* the device's radio is in RX
  scan,      \* g_scan_timeout
  sync,      \* g_sync_timeout
  force,     \* g_force_hop_channel
  restarted, \* the device's timer was restarted in this millisecond
  recv,      \* box g_devs_data_recv_mask: the device's bit
  led3,      \* box LED_3, toggled at a frame start when data is missing
  tracked,   \* history: the device had sync through the box's frame
  losses     \* history: beacons and data of the device lost in the frame

vars == <<stage, bt, bIdx, air, dIdx, rx, scan, sync, force, restarted,
          recv, led3, tracked, losses>>
devVars == <<dIdx, rx, scan, sync, force, restarted>>

NextChIdx(i) == IF i + 1 >= L THEN 0 ELSE i + 1

\* The box has been in normal mode for a while, or has just entered it
\* (g_cur_ch_idx = MAXIMUM_CHANNEL_LIST_SIZE); the device has just run
\* enter_normal_mode: long scan, no sync, forced hop, timer started.
Init ==
  /\ stage = "BOX"
  /\ bt \in 1..BoxPeriodMs
  /\ bIdx \in 0..L
  /\ air = [ch |-> L, new |-> FALSE, named |-> FALSE]
  /\ dIdx = L /\ rx = FALSE
  /\ scan = BEACON_SCAN_LONG_TIMEOUT_MS /\ sync = 0 /\ force = TRUE
  /\ restarted = FALSE
  /\ recv \in BOOLEAN /\ led3 = FALSE /\ tracked = FALSE /\ losses = 0

\* The devices a resend beacon names: ~g_devs_data_recv_mask & paired.
\* Mutation: the complement is dropped.
ResendMask_heard(r) == r
ResendMask(r) == ~r

\* send_beacon at channel index i: at a frame start LED_3 toggles when not
\* every paired device was heard, the mask is cleared and new data is
\* asked for; otherwise the devices not heard are asked to resend.
send_beacon(i) ==
  /\ led3' = IF i = 0 /\ ~recv THEN ~led3 ELSE led3
  /\ recv' = IF i = 0 THEN FALSE ELSE recv
  /\ air' = [ch |-> i, new |-> i = 0, named |-> i # 0 /\ ResendMask(recv)]

\* Box interval_timer_event_handler in normal mode: hop_channel, then
\* send_beacon.  A frame start also starts the history of the frame.
BoxTimer ==
  /\ stage = "BOX" /\ bt = 1
  /\ bIdx' = NextChIdx(bIdx)
  /\ send_beacon(bIdx')
  /\ IF bIdx' = 0 THEN tracked' = (sync > 0) /\ losses' = 0
                  ELSE UNCHANGED <<tracked, losses>>
  /\ bt' = BoxPeriodMs
  /\ stage' = "AIR"
  /\ UNCHANGED devVars

BoxIdle ==
  /\ stage = "BOX" /\ bt > 1
  /\ bt' = bt - 1
  /\ stage' = "DEV"
  /\ UNCHANGED <<bIdx, air, recv, led3, tracked, losses>>
  /\ UNCHANGED devVars

\* Device hop after its data went out (TX_SUCCESS or TX_FAILED in normal
\* mode): short scan, hop_channel, esb_init(false), start RX, timer start.
\* Mutation: no hop.
dev_restart_rx_nohop(i) == i
dev_restart_rx(i) == NextChIdx(i)

\* Box RX_RECEIVED in normal mode: a data packet (pipe 1..6, 32 bytes)
\* sets its sender's bit of g_devs_data_recv_mask.
box_data_recv(r, delivered) == r \/ delivered

\* Device RX_RECEIVED with a beacon in normal mode.  Sending (new data, or
\* a resend naming the device): stop the timer, send the data; the box,
\* back in RX on the same channel, sets the device's bit of its mask when
\* the data arrives (delivered); TX_SUCCESS or TX_FAILED then runs
\* dev_restart_rx.  Not sending: short scan and a forced hop at the next
\* tick, RX left stopped by esb_init(false).
DevRxBeacon(delivered) ==
  /\ stage = "AIR"
  /\ rx /\ dIdx = air.ch
  /\ sync' = BEACON_SCAN_LONG_TIMEOUT_MS
  /\ scan' = BEACON_SCAN_SHORT_TIMEOUT_MS
  /\ IF air.new \/ air.named
     THEN /\ dIdx' = dev_restart_rx(dIdx) /\ rx' = TRUE
          /\ recv' = box_data_recv(recv, delivered)
          /\ losses' = IF delivered THEN losses ELSE losses + 1
          /\ UNCHANGED force
     ELSE /\ force' = TRUE /\ rx' = FALSE
          /\ UNCHANGED <<dIdx, recv, losses>>
  /\ restarted' = TRUE
  /\ stage' = "DEV"
  /\ UNCHANGED <<bt, bIdx, air, led3, tracked>>

\* The beacon is not heard: the device listens elsewhere, or it is lost.
BeaconMissed ==
  /\ stage = "AIR"
  /\ losses' = IF rx /\ dIdx = air.ch THEN losses + 1 ELSE losses
  /\ stage' = "DEV"
  /\ UNCHANGED <<bt, bIdx, air, recv, led3, tracked>>
  /\ UNCHANGED devVars

\* The scan length after a hop: long once sync is lost.
\* Mutation: the long scan after losing sync is dropped.
ScanAfterHop_short(sy) == BEACON_SCAN_SHORT_TIMEOUT_MS
ScanAfterHop(sy) ==
  IF sy = 0 THEN BEACON_SCAN_LONG_TIMEOUT_MS ELSE BEACON_SCAN_SHORT_TIMEOUT_MS

\* "if(x) x--;" on the timeouts.  Mutation: the guard is dropped.
CountDown_unguarded(x) == x - 1
CountDown(x) == IF x > 0 THEN x - 1 ELSE 0

\* Device interval_timer_event_handler (skipped in the millisecond its
\* timer was restarted): count down, and on a scan timeout or a forced hop
\* stop RX, hop_channel and start RX.  Then time moves on.
DevTimer ==
  /\ stage = "DEV"
  /\ IF restarted \/ ~(scan > 0 \/ sync > 0 \/ force)
     THEN UNCHANGED <<dIdx, rx, scan, sync, force>>
     ELSE LET sc == CountDown(scan)
              sy == CountDown(sync)
          IN /\ sync' = sy
             /\ IF sc = 0 \/ force
                THEN /\ scan' = ScanAfterHop(sy)
                     /\ force' = FALSE
                     /\ dIdx' = NextChIdx(dIdx) /\ rx' = TRUE
                ELSE /\ scan' = sc
                     /\ UNCHANGED <<force, dIdx, rx>>
  /\ restarted' = FALSE
  /\ tracked' = (tracked /\ sync' > 0)
  /\ stage' = "BOX"
  /\ UNCHANGED <<bt, bIdx, air, recv, led3, losses>>

Next ==
  \/ BoxTimer \/ BoxIdle \/ BeaconMissed \/ DevTimer
  \/ \E delivered \in BOOLEAN : DevRxBeacon(delivered)

\* Time advances (the timers fire), and a beacon the device listens for is
\* not lost for ever.
Fairness == WF_vars(Next) /\ SF_vars(\E d \in BOOLEAN : DevRxBeacon(d))

Spec == Init /\ [][Next]_vars /\ Fairness

(***************************************************************************)
(* Properties.                                                             *)
(***************************************************************************)

TypeOK ==
  /\ stage \in {"BOX", "AIR", "DEV"}
  /\ bt \in 1..BoxPeriodMs /\ bIdx \in 0..L /\ dIdx \in 0..L
  /\ scan \in 0..BEACON_SCAN_LONG_TIMEOUT_MS
  /\ sync \in 0..BEACON_SCAN_LONG_TIMEOUT_MS
  /\ rx \in BOOLEAN /\ force \in BOOLEAN /\ restarted \in BOOLEAN
  /\ recv \in BOOLEAN /\ led3 \in BOOLEAN /\ tracked \in BOOLEAN
  /\ losses \in 0..L

\* Lockstep: while g_sync_timeout runs, the device listens on the channel
\* of every beacon the box sends, also after beacons it lost: its short
\* scan and the box's interval are the same, and its hops after a beacon
\* land on the box's next channel.
SyncedDeviceOnBeaconChannel ==
  (stage = "AIR" /\ sync > 0) => (rx /\ dIdx = air.ch)

\* The device hears beacons again and again: from any phase of the two
\* timers, the long scan holds a channel until the box's hopping comes by,
\* and lockstep keeps it following.
DeviceKeepsHearingBeacons == []<>(ENABLED \E d \in BOOLEAN : DevRxBeacon(d))

\* The box reports a lost frame (LED_3 toggles at the next frame start)
\* for a device that kept sync through the frame only when every one of
\* the frame's MAXIMUM_CHANNEL_LIST_SIZE chances failed: each beacon was
\* lost, or the data it asked for was.  A lost packet must be asked for
\* again by the resend mask, and the device must be on the next channel
\* to hear the request.
FrameLossOnlyAfterEveryChance ==
  [][(led3' # led3 /\ tracked) => losses = L]_vars

=============================================================================
