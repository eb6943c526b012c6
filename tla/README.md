# TLA+ models of the nRF ESB box/device example

This directory holds TLA+ models of the proprietary-RF example in `src/`. They are checked with TLC.

## The system

| Part | Source | What it does |
|---|---|---|
| ESB engine | `src/components/proprietary_rf/esb/nrf_esb.h` | The Enhanced ShockBurst radio driver: TX and RX FIFOs of 8 payloads, PTX/PRX roles, ack payloads, PIDs, and three event flags (`TX_SUCCESS`, `TX_FAILED`, `RX_DR`) raised "since the last event" and dispatched by the SWI0 event interrupt. Only the header is in the repository. |
| Box | `src/examples/proprietary_rf/box/main.c` | Pairing server and data collector. In setup mode it listens as PRX on the pairing channels and hands out display/controller slots (`ID_PAIR_REQ`, `ID_PAIR_INFO_GET`). In normal mode a 4 ms timer hops over the system channel list and sends a beacon as PTX (new data, or a resend mask of the paired devices it has not heard). After the beacon it goes back to PRX for the devices' data. |
| Device | `src/examples/proprietary_rf/device/main.c` | Pairing client, then beacon scanner. It sends `PAIR_REQ`, waits for the ack, and sends `PAIR_INFO_GET`; the pairing information comes back as an ack payload. In normal mode a 1 ms timer hops channels while scanning. On a beacon it turns PTX and sends one of two data buffers on pipe 1 (a resend repeats the last one). |
| Data store | `src/examples/proprietary_rf/common/app_common.c` | `ds_get` reads the data-store flash page at boot. `ds_update` erases and rewrites it word by word with interrupts disabled. |
| Channel list generation | `src/examples/proprietary_rf/box/main.c` (`do_channel_list_generation`) | Before pairing, the box samples the RSSI of each channel of each region and picks one channel per region for the system channel list. |
| Configuration | `src/examples/proprietary_rf/common/app_config.h` | Channel lists, slot counts, payload ids, `pair_info_t`. |

**How the parts interact.** Each node runs three interrupt contexts:

- the radio interrupt (priority 1);
- the ESB event interrupt, SWI0 (priority 2), which takes all raised flags at once and calls `nrf_esb_event_handler` once per flag in bit order;
- TIMER0 (priority 0, the highest), which calls `interval_timer_event_handler`.

Box and device talk only over the air. Pipe 0 is the pairing address. Pipes 1..6 are the box chip id as base address 1, with the slot index as prefix. A device learns its slot index and the box's system channel list from `pair_info`.

## Modules

- **`EsbEngine.tla`** models the engine of one node as a record, and every API call as an operator from record to record.
  - A `<Call>Result` operator gives the return code the header documents, e.g. `WriteResult` lists the `nrf_esb_write_payload` checks in header order, and `SetChannelResult` gives `INVALID_STATE`/`BUSY`/`INVALID_PARAM`.
  - The implementation is not in the repository, so these parts follow `spec.md`: PID assignment and its reset on flush, the duplicate filter (`Accept`), ack payloads (`AckPayload`, `TakeAck`) and the radio outcomes (`TxAcked`, `TxNotAcked`). `PROJECT.json` marks them `spec_modelled`.
- **`BoxDevice.tla`** models one box and a set of devices over a shared medium.
  - **Variables:**
    - `esb` (engine per node);
    - `latched` (flags taken by a running SWI0);
    - `chan`, `addr` (RF channel and pipe addresses);
    - `app` (the application globals of either `main.c`);
    - `flash` (the data-store page);
    - `cycles` (user power cycles).
  - **Handler operators.** Each C function that changes state is an operator on a context record `S`, named after the function (`box_hop_channel`, `send_beacon`, `box_pair_req`, `dev_enter_normal_mode`, `DevTimerStep`, ...). A handler threads `S` through the calls it makes, in the code's order.
  - **Resets.** `SetChannel` models `APP_ERROR_CHECK(nrf_esb_set_rf_channel(..))`: a failure sets `fault`, and `Commit` turns that into a reset (`NVIC_SystemReset`, mode `RESET`).
  - **Actions:**
    - `RadioTxNoAck`: a beacon, heard by any subset of listeners.
    - `RadioTxAck` / `RadioTxAckTo`: an acked frame heard by one listener, whose ack is delivered or lost.
    - `RadioTxLost`.
    - `SwiEnter`: SWI0 latches the flags.
    - `BoxEvent` / `DevEvent`: one handler call for the first latched flag.
    - `DevEventResume`: the device's pairing `RX_RECEIVED` handler after `ds_update`.
    - `BoxEventResume`: the next `nrf_esb` call of a preempted box handler.
    - `BoxTimer` / `DevTimer`.
    - `Restart`: `main()` again after a reset.
    - `PowerCycle`: the user, holding buttons or not.
    - `PowerLossInDsUpdate`: a power cycle inside `ds_update`.
  - **Granularity and hangs.** Each handler call is one atomic step, with one exception on the device. `ds_update` ends with `__enable_irq` (`app_common.c:82`), and the radio interrupt pending since `__disable_irq` runs there. So the pairing `RX_RECEIVED` handler stops after `ds_update` (`app[d].pc = "ENTER_NORMAL"`). `DevEventResume` runs `enter_normal_mode` once no transmission is in flight (`RadioSettled`): the page erase lasts far longer than a frame and its ack window. `DevEventReady` stands for the busy-wait in the device's `hop_channel` when it runs inside SWI0: the radio interrupt preempts it, so the handler proceeds once the engine is idle. The same busy-wait inside TIMER0 can never end when a transmission is in progress. `DevTimerStep` then puts the device in mode `HUNG`.
  - **Preemption.** With `PreemptSwi`, the box's normal-mode event handler is cut at its `nrf_esb` calls (`box_event` up to the first cut, then `box_event_resume` one call at a time, with the position in `app[Box].pc`). `BoxTimer` and the radio actions can run at each cut, as TIMER0 and the radio interrupt preempt SWI0. Without it, `box_event_finish` runs the handler to its return in one step. Setup-mode handlers stay whole: the setup-mode timer only stops and restarts RX, and `enter_normal_mode` stops the timer.
  - **Torn flash.** `PowerLossInDsUpdate` is a power loss inside the `ds_update` of a handler. The node boots on `TornDs`: the erased page plus the first 0, 1 or 2 of its three words.
  - **Refinement.** `Proto == INSTANCE BoxProtocol WITH ...` maps the box onto the abstract protocol:
    - its mode to the phase;
    - `g_ds`'s counters to the slots;
    - the received mask to `heard`;
    - `g_cur_ch_idx` to the beacon position;
    - beacon byte 3 to the last beacon;
    - the flash page to the saved record.

    `BoxImplementsProtocol == Proto!Spec` is checked as a `PROPERTY`.
- **`BoxProtocol.tla`** is the abstract specification of what the box promises:
  - slots are handed out in order, each marking one bit;
  - setup mode ends only when every slot is taken and the counters are saved;
  - in normal mode every `MAXIMUM_CHANNEL_LIST_SIZE`-th beacon starts a frame and forgets who was heard;
  - every other beacon names exactly the paired devices not heard in this frame;
  - only paired devices are heard;
  - a boot restores setup mode or the saved slots.

  It has no radio, interrupts or engine.
- **`ChannelList.tla`** models `do_channel_list_generation` as a loop state machine (`Measure` for one RSSI reading, `EndRegion` for a region's result). The readings of `NRF_RADIO->RSSISAMPLE` are its inputs. Sums are `uint16_t`. `HighestRssiChannels` is the reference: the argmax of each channel's total over all samples.
- **`BeaconSync.tla`** models normal-mode beacon following in time, which `BoxDevice` leaves untimed.
  - **Time.** A grid of 1 ms. In each millisecond the box's tick comes first (`stage` "BOX"), then its beacon is on the air ("AIR"), then the device's tick ("DEV"). The device restarts its timer with `TASKS_CLEAR` (`interval_timer_start`) right after it hears a beacon, so at a shared millisecond its tick is the later one.
  - **Periods from the code.** The box's TIMER0 fires every `INTERVAL_TIMER_INTERVAL_10MS * 100` µs (4 ms). The device's fires every 1 ms. `BEACON_SCAN_SHORT_TIMEOUT_MS` = 4 and `BEACON_SCAN_LONG_TIMEOUT_MS` = 16, with `MAXIMUM_CHANNEL_LIST_SIZE` = 3.
  - **Actions.**
    - `BoxTimer`: the box's `hop_channel` and `send_beacon`. At index 0, LED_3 toggles if the device's data of the ending frame is missing, the received mask is cleared, and new data is asked for. At other indices, the resend names the device when its bit of `g_devs_data_recv_mask` is clear (`ResendMask`).
    - `BoxIdle`: a millisecond without a box tick.
    - `DevRxBeacon(delivered)`: the device's beacon handler. It re-arms `g_sync_timeout` and sets the short scan. It then either sends its data and hops after the TX (`dev_restart_rx`), or sets `g_force_hop_channel`. Sent data reaches the box or is lost (`delivered`). If it arrives, the box's RX handler sets the device's bit (`box_data_recv`). `TX_SUCCESS` and `TX_FAILED` restart RX the same way, so a lost ack needs no case of its own.
    - `BeaconMissed`: a lost beacon.
    - `DevTimer`: the device's `interval_timer_event_handler`.
  - **Start.** The device has just run `enter_normal_mode`. The box is at any channel index and any phase of its timer.
  - **History.** Two history variables record the current frame:
    - `tracked`: the device had sync from the frame's first beacon onwards.
    - `losses`: how many of the device's chances in the frame were lost, as a lost beacon it listened for or lost data.
  - **Data.** Channels are indices into the shared list. The radio is reduced to: a device listening on the beacon's channel hears it, or the beacon is lost.
- **`MC_BoxDevice.tla`** defines the channel lists and the initial flash contents: `MC_FreshFlash` (erased) and `MC_PairedFlash` (what a completed pairing leaves).

## Runs

| Run | Config | Expect | What it shows |
|---|---|---|---|
| lifecycle | `MC_Lifecycle.cfg` | pass (779K states, ~80 s) | One box and one display device go from erased flash through pairing, the box's completion, beacons and data. The box refines `BoxProtocol` (`BoxImplementsProtocol`). The device never hangs in its TIMER0 busy-wait (`NoDeviceHang`), and in normal mode it uses the address and slot it was given (`PairedAddressApplied`). Both rest on the radio interrupt that runs at `ds_update`'s `__enable_irq`: with the handler going straight on to `enter_normal_mode` (the mutant), a transmission still in flight makes `enter_normal_mode`'s calls return `BUSY` and arms a timer that hangs. Its resend mask matches its slot counters (`PairedMaskMatchesSlots`). Normal mode runs on what was saved (`BoxNormalIsPersisted`). Data is marked only for paired slots (`RecvOnlyPaired`). In normal mode, once its radio is initialised, the box is always sending, listening or about to be re-armed by a beacon completion (`BoxNeverDeaf`). |
| power_cycle | `MC_PowerCycle.cfg` | pass (551K states, ~46 s) | The lifecycle invariants on one channel per list, with up to two power cycles of any node, buttons held or not. A power cycle can also fall inside `ds_update` and leave a torn page. The box's normal-mode handler is preempted by TIMER0 and the radio interrupt between its `nrf_esb` calls (`PreemptSwi`). Each invariant holds all the same, `BoxNeverDeaf` included: a preempted handler counts as about to re-arm RX. |
| duplicate_slot | `MC_UniqueDevIdx.cfg` | violation | Two devices pairing at once both get slot 1. The box's pair_info ack payload goes to whichever frame arrives next on pipe 0. |
| box_reset_loop | `MC_NoBoxErrorReset.cfg` | violation | A box booting from paired flash calls `nrf_esb_set_rf_channel` before `nrf_esb_init`, so `APP_ERROR_CHECK` resets it, on every boot. |
| pairing_stranded | `MC_PairingNotStranded.cfg` | violation | A device whose `INFO_GET` is acked without pair_info stays in pairing mode with nothing that can move it on. |
| stale_beacon | `MC_NoStaleBeacon.cfg` | violation | Two beacons are in the device's RX FIFO, the second raising `RX_RECEIVED` again after SWI0 latched the first. The `RX_RECEIVED` handler reads the first beacon, and the `esb_init(true)` of its new-data branch (`device/main.c:299`) flushes the second. The second event is still delivered: its read returns `NOT_FOUND`, which is ignored, and the handler acts a second time on the first beacon, still in `rx_payload`. |
| torn_data_store | `MC_BoxDataStoreValid.cfg` | violation | A power loss after `ds_update` wrote the signature but not the counters. The box then boots with a valid signature and counters of 0xff. |
| preempted_reset | `MC_PreemptedReset.cfg` | violation | TIMER0 preempts the box's `TX_SUCCESS` handler between `nrf_esb_disable` and `nrf_esb_init`. `hop_channel`'s `nrf_esb_set_rf_channel` fails with `NRF_INVALID_STATE` and `APP_ERROR_CHECK` resets the box, which then loops as in box_reset_loop. |
| beacon_sync | `MC_BeaconSync.cfg` | pass (3.8K states) | With the code's timer periods and from every phase of the two timers, three results hold. (1) While `g_sync_timeout` runs, the device listens on the channel of every beacon the box sends, lost beacons included (`SyncedDeviceOnBeaconChannel`). (2) Under fair time and fair beacon delivery, it hears beacons again and again (`DeviceKeepsHearingBeacons`). This needs the long scan after lost sync: with only short scans both nodes hop at the same rate and may never meet. (3) The box reports a lost frame (LED_3) for a device that kept sync only when all `MAXIMUM_CHANNEL_LIST_SIZE` chances of the frame failed (`FrameLossOnlyAfterEveryChance`). A lost packet is asked for again at every remaining beacon, and the hop after the failed TX puts the device on that beacon's channel. |
| channel_list | `MC_ChannelList.cfg` | pass (1.5K states) | For every sequence of RSSI readings (values 1..3, two samples, two regions of three channels), the running comparison picks a channel whose total RSSI is the largest of its region (`RegionPicksHighestRssi`). |

`PROJECT.json` lists the findings behind the violation runs and every hazard with the properties that cover it. Each property of a passing run has a mutant: a plausible bug in the mapped definition that TLC catches under that run's configuration.

## Bounds and why they are enough

- **Channel lists.** The lists have 2 channels, where the code has `MAXIMUM_CHANNEL_LIST_SIZE` = 3. Two channels give hopping, index wrap-around (`g_cur_ch_idx = MAXIMUM_CHANNEL_LIST_SIZE` in `enter_normal_mode`, then 0), frame cycles with both new-data and resend beacons, and nodes on different channels. The power-cycle run uses 1 channel, which removes resend beacons but keeps every boot path.
- **Slots.** `MAXIMUM_DISPLAY_DEV = 1` and `MAXIMUM_CONTROLLER_DEV = 0` let one device fill the box, so the box completes pairing and enters normal mode. The literal 6 of the mask arithmetic is `NumDev = MAXIMUM_DISPLAY_DEV + MAXIMUM_CONTROLLER_DEV`. `duplicate_slot` uses two devices and two display slots.
- **FIFOs.** TX/RX FIFO size is 2, where the code has 8. Both applications flush before each write, so at most one payload is ever queued for TX. RX size 2 still lets a second frame arrive before SWI0 runs, which is what flag coalescing needs.
- **Timers.** `BEACON_SCAN_SHORT_TIMEOUT_MS` = 1 and `BEACON_SCAN_LONG_TIMEOUT_MS` = 3, in device timer ticks. This keeps the code's ratio LONG = SHORT × (list size + 1).
- **Power cycles.** `MaxPowerCycles` is 0 in `lifecycle`, and 2 in `power_cycle`. `torn_data_store` uses 1.
- **Preemption.** `PreemptSwi` is TRUE only in `power_cycle` and `preempted_reset`. With it on and two-channel lists, the lifecycle grows to 5.9M states (8 minutes). These runs therefore use one channel per list, where every beacon starts a frame. The refinement is checked by `lifecycle`, with whole handlers.
- **Beacon timing.** `BeaconSync` uses the code's own values (list of 3, interval 40). Its initial states cover every box timer phase (1..4 ms), channel index and received-mask bit, which is every relative phase of the two timers on the 1 ms grid. A frame of three beacons gives every split of three chances into lost and delivered.
- **Larger lifecycle.** With the code's three-channel lists (`BEACON_SCAN_LONG_TIMEOUT_MS` = 4 ticks), `lifecycle` passes with 2.5M states, but takes about 4.5 minutes. The kept run uses two channels.
- **Channel list.** `ChannelList` uses two regions of three channels and two samples per channel. Readings come from {1, 2, 3}, which makes ties, strict wins and late overtakes between partial sums. A region whose readings are all 0 keeps the uninitialised `selected_ch` (hazard at `box/main.c:366`). That needs 0 dBm on every channel of the region, and no run checks it.

## Fairness

`BoxDevice` and `ChannelList` are checked for safety only: invariants, and the refinement `[][Next]_vars` of `BoxProtocol`. No fairness is assumed there.

`BeaconSync` assumes `WF_vars(Next) /\ SF_vars(\E d \in BOOLEAN : DevRxBeacon(d))`:
- Weak fairness of `Next` is time advancing. Both timers are free-running hardware (`SHORTS = COMPARE0_CLEAR`), so a tick always comes.
- Strong fairness of `DevRxBeacon` says a beacon the device listens for is not lost on every occasion. It is enabled only in "AIR" stages, on and off, hence strong fairness. Without it, a radio that loses every beacon refutes any liveness property. Nothing is assumed about the data: `FrameLossOnlyAfterEveryChance` is a safety property and counts the losses.
No other fairness is assumed. In particular nothing assumes the device hears a beacon it does not listen for.

A first attempt at "pairing eventually ends" under weak fairness of the interrupts failed in an untimed way: box and device hopping in anti-phase for ever. The real timings rule that out, because the device retries within one box dwell. The defect behind it is checked as the safety property `PairingNotStranded` instead.

## Not modelled (yet)

- The engine features the applications never use: manual TX, retransmits, `suspend`, `pop_tx`, `set_tx_power`, `set_address_length`, `enable_pipes`.
- LEDs other than the box's LED_3 loss report (in `BeaconSync`), delays, logging, the clock start-up and the chip-id read.
- Preemption inside the device's handlers, other than the radio interrupt at `ds_update`'s `__enable_irq`. The device's TIMER0 is still running when its beacon `RX_RECEIVED` handler starts, and is stopped only at `device/main.c:297`/`307`. A tick before that point is not modelled; cutting the device handler as the box's is cut would multiply the lifecycle state space again.
- The read-modify-write of `g_devs_data_recv_mask |=` as separate load and store. With one device the lost update cannot be told apart from the correct result.
- The refinement under power cycles: a torn page breaks it by the same path as torn_data_store.
- The refinement under preemption. It is checked with whole handlers (`lifecycle`); with preemption the two-channel lifecycle is beyond a short run. The preemption invariants are checked in `power_cycle`.
- Time in `BoxDevice`, and time of the pairing protocol. `BeaconSync` times only normal-mode beacon following, where data is the device's answer and nothing else.
- Clock drift between the two nodes' timers. `BeaconSync` keeps the nominal periods.
- Sub-millisecond timing. Three cases are outside the 1 ms grid:
  - the `APP_PACKET_DELAY_US` × (`dev_idx` − 1) wait of up to 1.75 ms;
  - the race between device 1's data and the box's `esb_init(false)`/`nrf_esb_start_rx` after its beacon, which is decided by CPU cycles;
  - with several devices, the read-modify-write of the received mask against the box's next TIMER0. The data of the last device arrives about 2 ms after the beacon, half a period before the next tick.
- Packet contents. `BeaconSync` reduces data to delivered or lost. A resend sends the buffer last sent as new (`send_device_data`, `device/main.c:170`). So a device that missed the frame's NEW beacon answers a resend naming it with an earlier frame's packet, and the box counts it for this frame. The example's buffers hold constant data, and no property tells the frames' packets apart (hazard listed without a property).

## Plan for later sittings

1. Several devices in `BeaconSync`, on a grid fine enough for the `dev_idx` delays.
2. A second abstract specification, for the device (pairing then beacon-following), and its refinement.
3. Two devices with preemption in a bounded configuration, for the lost update on the received mask.
