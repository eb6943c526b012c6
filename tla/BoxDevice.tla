----------------------------- MODULE BoxDevice -----------------------------
(***************************************************************************)
(* The box/device example of the repository: one box (PTX beacon sender,  *)
(* PRX data collector, pairing server) and a set of devices (pairing      *)
(* clients, beacon scanners, data senders), each node running the ESB     *)
(* engine of EsbEngine over a shared, lossy radio medium.                 *)
(*                                                                         *)
(* Every node runs three interrupt contexts: the radio interrupt (the      *)
(* Radio* actions), the ESB event software interrupt that calls           *)
(* nrf_esb_event_handler once per latched flag (SwiEnter, BoxEvent,       *)
(* DevEvent) and the TIMER0 interrupt that calls                           *)
(* interval_timer_event_handler (BoxTimer, DevTimer).  Each handler call  *)
(* is one atomic step; the radio interrupt interleaves between them.       *)
(* Boot runs main() after power-on or after NVIC_SystemReset.              *)
(***************************************************************************)
EXTENDS EsbEngine, FiniteSets

CONSTANTS
  Box,                          \* the box node
  Devices,                      \* the device nodes
  PairingChList,                \* DEFAULT_PAIRING_CHANNEL_LIST
  SystemChList,                 \* the list do_channel_list_generation picks
  BoxChip,                      \* the box's chip id, its base address 1
  Erased,                       \* an erased flash word / 0xFFFFFFFF address
  MAXIMUM_DISPLAY_DEV,
  MAXIMUM_CONTROLLER_DEV,
  BEACON_SCAN_SHORT_TIMEOUT_MS, \* timer ticks of a short beacon scan
  BEACON_SCAN_LONG_TIMEOUT_MS,  \* timer ticks of a long beacon scan
  MaxPowerCycles,               \* bound on user power cycles of all nodes
  PreemptSwi,                   \* TIMER0 may preempt the box's SWI0 handler
  InitFlash                     \* node -> data store page at power-on

Nodes == {Box} \cup Devices
\* The literal 6 of the box and device code (bit 6 - pipe, 6 - slot).
NumDev == MAXIMUM_DISPLAY_DEV + MAXIMUM_CONTROLLER_DEV
MAXIMUM_CHANNEL_LIST_SIZE == Len(PairingChList)

ASSUME Box \notin Devices
ASSUME PreemptSwi \in BOOLEAN
ASSUME Pipes = 0..NumDev /\ NumDev <= 6
ASSUME Len(SystemChList) = MAXIMUM_CHANNEL_LIST_SIZE
ASSUME 0 < BEACON_SCAN_SHORT_TIMEOUT_MS
       /\ BEACON_SCAN_SHORT_TIMEOUT_MS <= BEACON_SCAN_LONG_TIMEOUT_MS

DEV_TYPE_DISPLAY    == 1
DEV_TYPE_CONTROLLER == 2
PIPE_0_PREFIX       == 136          \* 0x88
NoIdx               == 255          \* dev_idx 0xff: not paired
\* NRF_ESB_ADDR_DEFAULT pipe prefixes, for pipes nobody configures.
DefaultPrefix == <<231, 194, 195, 196, 197, 198, 199, 200>>

(***************************************************************************)
(* Payloads.  The bytes are abstracted to a body record; length keeps the  *)
(* value the code checks.                                                  *)
(***************************************************************************)
BodyLength(b) ==
  CASE b.kind \in {"PAIR_REQ", "PAIR_INFO_GET"} -> 2
    [] b.kind = "PAIR_INFO"                     -> 8   \* sizeof(pair_info_t)
    [] b.kind = "BEACON"                        -> 10
    [] b.kind = "DATA"                          -> 32
    [] OTHER                                    -> 0
Payload(pipe, noack, b) ==
  [pipe |-> pipe, noack |-> noack, length |-> BodyLength(b), pid |-> 0,
   body |-> b]
\* The zero-initialised static rx_payload of the device.
EmptyPayload == Payload(0, FALSE, [kind |-> "NONE"])

\* Flash page contents as ds_get returns them.
ErasedBoxDs == [sig |-> FALSE, disp |-> 255, ctrl |-> 255,
                chlist |-> [i \in 1..MAXIMUM_CHANNEL_LIST_SIZE |-> 255]]
ErasedDevDs == [chlist |-> [i \in 1..MAXIMUM_CHANNEL_LIST_SIZE |-> 255],
                sys |-> Erased, idx |-> NoIdx]

VARIABLES
  esb,        \* node -> engine record
  latched,    \* node -> flags taken by the running ESB event interrupt
  chan,       \* node -> RF channel
  addr,       \* node -> [base1, prefix, npipes] address configuration
  app,        \* node -> application globals of box/main.c or device/main.c
  flash,      \* node -> data store page (ds_get / ds_update)
  cycles      \* user power cycles so far

vars == <<esb, latched, chan, addr, app, flash, cycles>>

(***************************************************************************)
(* One interrupt handler call threads a record S through the C calls it    *)
(* makes: engine e, addresses a, channel ch, application globals r, and    *)
(* flash page fl, fault, set when APP_ERROR_CHECK fails (NVIC_SystemReset), *)
(* and dsw, set when the handler calls ds_update.                          *)
(***************************************************************************)
Ctx(n) == [e |-> esb[n], a |-> addr[n], ch |-> chan[n], r |-> app[n],
           fl |-> flash[n], fault |-> FALSE, dsw |-> FALSE]

\* Write the handler's result back; a fault resets the node instead.
Commit(n, S, lat) ==
  IF S.fault
  THEN /\ esb' = [esb EXCEPT ![n] = EsbPowerOn]
       /\ latched' = [latched EXCEPT ![n] = {}]
       /\ app' = [app EXCEPT ![n].mode = "RESET"]
       /\ UNCHANGED <<chan, addr, flash>>
  ELSE /\ esb' = [esb EXCEPT ![n] = S.e]
       /\ latched' = [latched EXCEPT ![n] = lat]
       /\ chan' = [chan EXCEPT ![n] = S.ch]
       /\ addr' = [addr EXCEPT ![n] = S.a]
       /\ app' = [app EXCEPT ![n] = S.r]
       /\ flash' = [flash EXCEPT ![n] = S.fl]

SetChannel(S, ch) ==
  IF SetChannelResult(S.e, ch) = "SUCCESS" THEN [S EXCEPT !.ch = ch]
  ELSE [S EXCEPT !.fault = TRUE]

NextChIdx(i) == IF i + 1 >= MAXIMUM_CHANNEL_LIST_SIZE THEN 0 ELSE i + 1
Running(n)   == app[n].mode \notin {"RESET", "HUNG"}

\* ds_update: erase the data store page and write the record.  Its early
\* return (length % 4) never fires: both ds_data_t records are 12 bytes.
\* Interrupts are disabled throughout, so no handler sees a partial page;
\* a power loss can still stop it part-way (TornDs).
ds_update_skipped(S, d) == S     \* mutation: the page is not written
ds_update(S, d) == [S EXCEPT !.fl = d, !.dsw = TRUE]

\* The page after the erase and the first k of its three words: word 0 is
\* the signature; word 1 holds chlist and display_slot_idx (box) or chlist
\* and the first byte of sys_address_32 (device); word 2 the rest.  A
\* device's partly written sys_address_32 is unused, as its dev_idx (the
\* last byte) is still erased, and is modelled as Erased.
DsWords == 3
TornDs(n, d, k) ==
  IF n = Box
  THEN [ErasedBoxDs EXCEPT !.sig = k >= 1 /\ d.sig,
                           !.chlist = IF k >= 2 THEN d.chlist ELSE @,
                           !.disp = IF k >= 2 THEN d.disp ELSE @]
  ELSE [ErasedDevDs EXCEPT !.chlist = IF k >= 2 THEN d.chlist ELSE @]

(***************************************************************************)
(* Box: examples/proprietary_rf/box/main.c                                 *)
(***************************************************************************)

\* esb_init(is_ptx): nrf_esb_disable, then nrf_esb_init (never busy then).
box_esb_init(e, mode) == nrf_esb_init(nrf_esb_disable(e), mode)

\* hop_channel with M_ESB_STOP_RX_WAIT_IDLE: stop RX, or re-initialise as
\* PRX when stopping fails, then set the next channel (APP_ERROR_CHECK).
box_hop_channel(S) ==
  LET i  == NextChIdx(S.r.chIdx)
      e1 == IF nrf_esb_is_idle(S.e) THEN S.e
            ELSE IF StopRxResult(S.e) = "SUCCESS" THEN nrf_esb_stop_rx(S.e)
            ELSE box_esb_init(S.e, "PRX")
  IN SetChannel([S EXCEPT !.e = e1, !.r.chIdx = i], S.r.chlist[i + 1])

\* Mutation: the resend mask names every paired device.
send_beacon_allmask(S) ==
  LET r   == S.r
      new == r.chIdx = 0
      b   == IF new THEN [r.beacon EXCEPT !.b3 = 1]
             ELSE [b3 |-> 2, mask |-> r.paired]
  IN [S EXCEPT !.r.recv = IF new THEN {} ELSE @,
               !.r.beacon = b,
               !.e = nrf_esb_write_payload(@, Payload(0, TRUE,
                       [kind |-> "BEACON", b3 |-> b.b3, mask |-> b.mask]))]
\* send_beacon: a new frame cycle at channel index 0 clears the received
\* mask; other beacons ask the paired devices not yet heard to resend.
send_beacon(S) ==
  LET r   == S.r
      new == r.chIdx = 0
      b   == IF new THEN [r.beacon EXCEPT !.b3 = 1]
             ELSE [b3 |-> 2, mask |-> r.paired \ r.recv]
  IN [S EXCEPT !.r.recv = IF new THEN {} ELSE @,
               !.r.beacon = b,
               !.e = nrf_esb_write_payload(@, Payload(0, TRUE,
                       [kind |-> "BEACON", b3 |-> b.b3, mask |-> b.mask]))]

box_enter_normal_mode(r) ==
  [r EXCEPT !.chlist = r.ds.chlist, !.mode = "NORMAL",
            !.chIdx = MAXIMUM_CHANNEL_LIST_SIZE, !.timer = TRUE]

\* enter_setup_mode: pick the system channel list, listen as PRX on the
\* first pairing channel with all slots free.
box_enter_setup_mode(S) ==
  LET S1 == SetChannel([S EXCEPT
              !.e = box_esb_init(@, "PRX"),
              !.r = [@ EXCEPT !.ds.chlist = SystemChList,
                              !.chlist = PairingChList, !.chIdx = 0,
                              !.paired = {}, !.mode = "PAIRING",
                              !.ds.ctrl = 0, !.ds.disp = 0]],
              PairingChList[1])
  IN [S1 EXCEPT !.e = nrf_esb_start_rx(@),
                !.fault = @ \/ StartRxResult(S1.e) # "SUCCESS",
                !.r.timer = TRUE]

\* The paired mask main() rebuilds from the slot counters in flash.  With
\* an erased counter (0xff) the loop shifts by negative amounts; the
\* Cortex-M register shift (LSL) then yields 0, and the uint8_t cast drops
\* bits above 7, so only bits 0..7 can be set.
RestoredMask(f) ==
  ({NumDev - 1 - i : i \in 0..(f.disp - 1)} \cup
   {MAXIMUM_CONTROLLER_DEV - 1 - i : i \in 0..(f.ctrl - 1)}) \cap 0..7

\* main(): read the data store, set the addresses (pipe 0 for pairing,
\* pipes 1..6 on the chip id), then setup or normal mode.
BoxBoot(f, button) ==
  LET force == ~f.sig \/ (f.ctrl = 0 /\ f.disp = 0)
      a  == [base1 |-> BoxChip,
             prefix |-> [p \in Pipes |-> IF p = 0 THEN PIPE_0_PREFIX ELSE p],
             npipes |-> NumDev + 1]
      r0 == [mode |-> "NORMAL", chIdx |-> 0,
             chlist |-> [i \in 1..MAXIMUM_CHANNEL_LIST_SIZE |-> 0],
             curType |-> 0, ds |-> [f EXCEPT !.sig = TRUE],
             paired |-> IF force THEN {} ELSE RestoredMask(f), recv |-> {},
             beacon |-> [b3 |-> 238, mask |-> {0, 2, 3, 4, 6, 7}],
             timer |-> FALSE, pc |-> "NONE", rxp |-> 0]
      S0 == [e |-> EsbPowerOn, a |-> a, ch |-> 2, r |-> r0, fl |-> f,
             fault |-> FALSE, dsw |-> FALSE]
  IN IF force \/ button THEN box_enter_setup_mode(S0)
     ELSE [S0 EXCEPT !.r = box_enter_normal_mode(@)]

\* The scheme 2 mask bits: 6 - display_slot_idx and 2 - controller_slot_idx
\* for a slot counted by ID_PAIR_INFO_GET, 6 - pipe for data on a pipe.
DisplayBit_before(slot) == NumDev - slot + 1   \* mutation: pre-increment slot
DisplayBit(slot)    == NumDev - slot
ControllerBit(slot) == MAXIMUM_CONTROLLER_DEV - slot
RecvBit_off(pipe)   == NumDev + 1 - pipe       \* mutation: off by one
RecvBit(pipe)       == NumDev - pipe

\* ID_PAIR_REQ: offer the next free slot of the device's type as the ack
\* payload of pipe 0.
box_pair_req(S, p) ==
  LET r    == S.r
      disp == p.body.type = DEV_TYPE_DISPLAY /\ r.ds.disp < MAXIMUM_DISPLAY_DEV
      ctrl == p.body.type = DEV_TYPE_CONTROLLER
              /\ r.ds.ctrl < MAXIMUM_CONTROLLER_DEV
      idx  == CASE disp -> r.ds.disp + 1
                [] ctrl -> MAXIMUM_DISPLAY_DEV + r.ds.ctrl + 1
                [] OTHER -> NoIdx
      info == Payload(0, FALSE, [kind |-> "PAIR_INFO", sys |-> BoxChip,
                                 chlist |-> r.ds.chlist, idx |-> idx])
  IN [S EXCEPT !.r.curType = CASE disp -> DEV_TYPE_DISPLAY
                                [] ctrl -> DEV_TYPE_CONTROLLER
                                [] OTHER -> 0,
               !.e = IF idx # NoIdx
                     THEN nrf_esb_write_payload(nrf_esb_flush_tx(@), info)
                     ELSE @]

\* ID_PAIR_INFO_GET: the slot offered is taken; with every slot taken the
\* data store is saved and the box enters normal mode.
box_pair_info_get(S) ==
  LET r    == S.r
      incD == r.curType = DEV_TYPE_DISPLAY /\ r.ds.disp < MAXIMUM_DISPLAY_DEV
      incC == ~incD /\ r.curType = DEV_TYPE_CONTROLLER
              /\ r.ds.ctrl < MAXIMUM_CONTROLLER_DEV
      ds   == [r.ds EXCEPT !.disp = IF incD THEN @ + 1 ELSE @,
                           !.ctrl = IF incC THEN @ + 1 ELSE @]
      r1   == [r EXCEPT !.ds = ds, !.curType = 0,
                 !.paired = @ \cup (IF incD THEN {DisplayBit(ds.disp)} ELSE {})
                              \cup (IF incC THEN {ControllerBit(ds.ctrl)} ELSE {})]
      done == ds.ctrl = MAXIMUM_CONTROLLER_DEV /\ ds.disp = MAXIMUM_DISPLAY_DEV
      S1   == [S EXCEPT !.e = nrf_esb_flush_tx(@), !.r = r1]
  IN IF done
     THEN [ds_update(S1, ds) EXCEPT !.r = box_enter_normal_mode(@)]
     ELSE S1

(***************************************************************************)
(* The box's handler runs in SWI0 (priority 2), which TIMER0 (priority 0)  *)
(* and the radio interrupt (priority 1) preempt.  In normal mode the      *)
(* handler is cut at its nrf_esb calls: pc names the next call still to    *)
(* make, and the event stays latched until the handler returns.  In setup  *)
(* mode the TIMER0 handler only stops and restarts RX, and its             *)
(* enter_normal_mode stops the timer, so those handlers stay whole.        *)
(***************************************************************************)
\* Mutation: the "switch to PRX mode" does not start RX.
box_start_rx_skipped(e) == e
box_start_rx(e) == nrf_esb_start_rx(e)

\* nrf_esb_event_handler of the box, for one event, up to the first cut.
box_event(S, ev) ==
  IF ev \in {TX_SUCCESS, TX_FAILED}
  THEN LET S1 == [S EXCEPT !.e = nrf_esb_flush_tx(nrf_esb_flush_rx(@))]
       IN IF S1.r.mode = "NORMAL"
          THEN [S1 EXCEPT !.r.pc = "DISABLE"]   \* switch to PRX mode
          ELSE S1
  ELSE IF ReadResult(S.e) # "SUCCESS" THEN S
  ELSE LET p  == Head(S.e.rxq)
           S1 == [S EXCEPT !.e = nrf_esb_flush_rx(nrf_esb_read_rx_payload(@))]
       IN CASE S1.r.mode = "PAIRING" /\ p.length = 2 ->
                 CASE p.body.kind = "PAIR_REQ"      -> box_pair_req(S1, p)
                   [] p.body.kind = "PAIR_INFO_GET" -> box_pair_info_get(S1)
                   [] OTHER                         -> S1
            [] S1.r.mode = "NORMAL" /\ p.pipe # 0 /\ p.length = 32 ->
                 [S1 EXCEPT !.r.pc = "MARK", !.r.rxp = p.pipe]
            [] OTHER -> S1

\* The rest of the handler, one nrf_esb call (or the mask update) at a time:
\* esb_init(false) is nrf_esb_disable then nrf_esb_init; then
\* nrf_esb_start_rx; for data, g_devs_data_recv_mask |= 6 - pipe.  rxp is
\* rx_payload.pipe, which nothing reads after the mask update (0 there).
box_event_resume(S) ==
  CASE S.r.pc = "DISABLE" -> [S EXCEPT !.e = nrf_esb_disable(@), !.r.pc = "INIT"]
    [] S.r.pc = "INIT"    -> [S EXCEPT !.e = nrf_esb_init(@, "PRX"),
                                       !.r.pc = "START_RX"]
    [] S.r.pc = "START_RX" -> [S EXCEPT !.e = box_start_rx(@), !.r.pc = "NONE"]
    [] S.r.pc = "MARK"    -> [S EXCEPT !.r.recv = @ \cup {RecvBit(S.r.rxp)},
                                       !.r.pc = "NONE", !.r.rxp = 0]

\* interval_timer_event_handler of the box.
box_timer(S) ==
  LET S1 == box_hop_channel(S)
  IN CASE S1.r.mode = "NORMAL"  -> send_beacon([S1 EXCEPT !.e = box_esb_init(@, "PTX")])
       [] S1.r.mode = "PAIRING" -> [S1 EXCEPT !.e = nrf_esb_start_rx(@)]
       [] OTHER                 -> S1

(***************************************************************************)
(* Device: examples/proprietary_rf/device/main.c                           *)
(***************************************************************************)

\* hop_channel after its while(!nrf_esb_is_idle()) wait has passed.
dev_hop_channel(S) ==
  LET i == NextChIdx(S.r.chIdx)
  IN SetChannel([S EXCEPT !.r.chIdx = i], S.r.chlist[i + 1])

send_pairing_req(S) ==
  [S EXCEPT !.e = nrf_esb_write_payload(nrf_esb_flush_tx(@),
       Payload(0, FALSE, [kind |-> "PAIR_REQ", type |-> S.r.devType]))]

send_get_info_req(S) ==
  [S EXCEPT !.e = nrf_esb_write_payload(nrf_esb_flush_tx(@),
       Payload(0, FALSE, [kind |-> "PAIR_INFO_GET"]))]

\* send_device_data: a resend repeats the other of the two buffers, that
\* is the one sent last; a new send flips the buffer index.
send_device_data(S, resend) ==
  LET idx == IF resend THEN 1 - S.r.payIdx ELSE S.r.payIdx
  IN [S EXCEPT !.e = nrf_esb_write_payload(nrf_esb_flush_tx(@),
                       Payload(1, FALSE, [kind |-> "DATA", buf |-> idx])),
               !.r.payIdx = IF resend THEN @ ELSE 1 - @]

\* enter_normal_mode: PRX on the system channel list, pipe 1 addressed as
\* the slot the box gave.  The three ESB calls fail with NRF_ERROR_BUSY
\* (ignored) when a transmission is still in progress.
dev_enter_normal_mode(S) ==
  LET e1 == nrf_esb_init(S.e, "PRX")
      a1 == IF AddressResult(e1) = "SUCCESS"
            THEN [S.a EXCEPT !.base1 = S.r.ds.sys] ELSE S.a
      a2 == IF UpdatePrefixResult(e1, 1) = "SUCCESS"
            THEN [a1 EXCEPT !.prefix[1] = S.r.ds.idx] ELSE a1
  IN [S EXCEPT !.e = e1, !.a = a2,
               !.r = [@ EXCEPT !.mode = "NORMAL", !.pairState = "NONE",
                        !.chlist = S.r.ds.chlist,
                        !.chIdx = MAXIMUM_CHANNEL_LIST_SIZE,
                        !.scan = BEACON_SCAN_LONG_TIMEOUT_MS, !.sync = 0,
                        !.force = TRUE, !.timer = TRUE]]

do_pairing(S) ==
  LET S1 == SetChannel([S EXCEPT !.e = nrf_esb_init(@, "PTX"),
                                 !.r.chlist = PairingChList, !.r.chIdx = 0],
                       PairingChList[1])
  IN send_pairing_req([S1 EXCEPT !.r.mode = "PAIRING",
                                 !.r.pairState = "SEND_REQ"])

\* main(): addresses from the data store, pipe 1 only once paired; pair
\* when unpaired or BUTTON_1 is held, BUTTON_2 selects the controller type.
DevBoot(f, button1, button2) ==
  LET paired == f.idx # NoIdx
      a  == [base1 |-> f.sys,
             prefix |-> [p \in Pipes |-> CASE p = 0 -> PIPE_0_PREFIX
                                          [] p = 1 -> f.idx
                                          [] OTHER -> DefaultPrefix[p + 1]],
             npipes |-> IF paired THEN 2 ELSE 1]
      r0 == [mode |-> "NORMAL", pairState |-> "NONE", ds |-> f,
             devType |-> IF button2 THEN DEV_TYPE_CONTROLLER
                         ELSE DEV_TYPE_DISPLAY,
             chIdx |-> 0, chlist |-> [i \in 1..MAXIMUM_CHANNEL_LIST_SIZE |-> 0],
             scan |-> 0, sync |-> 0, force |-> FALSE, payIdx |-> 0,
             timer |-> FALSE, rx |-> EmptyPayload, pc |-> "NONE"]
      S0 == [e |-> EsbPowerOn, a |-> a, ch |-> 2, r |-> r0, fl |-> f,
             fault |-> FALSE, dsw |-> FALSE]
      S1 == IF ~paired \/ button1 THEN do_pairing(S0)
            ELSE dev_enter_normal_mode(S0)
  IN [S1 EXCEPT !.r.timer = TRUE]

\* Back to PRX scanning after a data packet, sent or failed.
dev_restart_rx(S) ==
  LET S1 == dev_hop_channel([S EXCEPT !.r.scan = BEACON_SCAN_SHORT_TIMEOUT_MS])
  IN [S1 EXCEPT !.e = nrf_esb_start_rx(nrf_esb_init(@, "PRX")),
                !.r.timer = TRUE]

is_beacon_packet(p) ==
  p.pipe = 0 /\ p.length = 10 /\ p.body.kind = "BEACON"

\* A beacon in normal mode: new data, or a resend request naming this
\* device's bit, makes the device a PTX that sends one data packet.
dev_beacon(S, p) ==
  LET r      == S.r
      send   == \/ p.body.b3 = 1
                \/ p.body.b3 = 2 /\ (NumDev - r.ds.idx) \in p.body.mask
      S1     == [S EXCEPT !.r.sync = BEACON_SCAN_LONG_TIMEOUT_MS,
                          !.r.timer = FALSE, !.e = nrf_esb_stop_rx(@)]
  IN IF send
     THEN send_device_data([S1 EXCEPT !.e = nrf_esb_init(@, "PTX")],
                           p.body.b3 # 1)
     ELSE [S1 EXCEPT !.e = nrf_esb_init(@, "PRX"),
                     !.r.scan = BEACON_SCAN_SHORT_TIMEOUT_MS,
                     !.r.force = TRUE, !.r.timer = TRUE]

\* nrf_esb_event_handler of the device, for one event.  The return value
\* of nrf_esb_read_rx_payload is ignored: on an empty FIFO rx_payload keeps
\* the previous packet.
dev_event(S, ev) ==
  CASE ev = TX_SUCCESS /\ S.r.mode = "PAIRING" ->
         IF S.r.pairState = "SEND_REQ"
         THEN send_get_info_req([S EXCEPT !.r.pairState = "WAIT_FOR_INFO"])
         ELSE S
    [] ev = TX_SUCCESS /\ S.r.mode = "NORMAL" -> dev_restart_rx(S)
    [] ev = TX_FAILED ->
         LET S1 == [S EXCEPT !.e = nrf_esb_flush_tx(@)]
         IN CASE S1.r.mode = "PAIRING" ->
                   IF S1.r.pairState = "WAIT_FOR_INFO"
                   THEN send_get_info_req(dev_hop_channel(S1))
                   ELSE send_pairing_req(dev_hop_channel(S1))
              [] S1.r.mode = "NORMAL" -> dev_restart_rx(S1)
              [] OTHER -> S1
    [] ev = RX_RECEIVED ->
         LET p  == IF ReadResult(S.e) = "SUCCESS" THEN Head(S.e.rxq) ELSE S.r.rx
             S1 == [S EXCEPT !.e = nrf_esb_read_rx_payload(@), !.r.rx = p]
             ds == [chlist |-> p.body.chlist, sys |-> p.body.sys,
                    idx |-> p.body.idx]
         IN CASE S1.r.mode = "PAIRING" /\ S1.r.pairState = "WAIT_FOR_INFO" ->
                   IF p.length = 8
                   THEN [ds_update([S1 EXCEPT !.r.ds = ds], ds)
                           EXCEPT !.r.pc = "ENTER_NORMAL"]
                   ELSE S1
              [] S1.r.mode = "NORMAL" /\ is_beacon_packet(p) -> dev_beacon(S1, p)
              [] OTHER -> S1
    [] OTHER -> S

\* The busy-wait in hop_channel runs in the ESB event interrupt, which the
\* radio interrupt preempts: the handler proceeds once the engine is idle.
DevEventReady(d, ev) ==
  (\/ ev = TX_SUCCESS /\ app[d].mode = "NORMAL"
   \/ ev = TX_FAILED /\ app[d].mode \in {"PAIRING", "NORMAL"})
  => nrf_esb_is_idle(esb[d])

\* ds_update ends with __enable_irq: the radio interrupt, pending since
\* __disable_irq, runs before the handler goes on to enter_normal_mode.
\* The page erase lasts far longer than a frame and its ack window, so a
\* transmission in flight has ended and its completion is handled first.
\* Mutation: the handler goes on at once.
RadioSettled_no(e) == TRUE
RadioSettled(e) == e.state # "Tx"

\* The pairing RX_RECEIVED handler after ds_update.
dev_event_resume(S) == [dev_enter_normal_mode(S) EXCEPT !.r.pc = "NONE"]

\* interval_timer_event_handler of the device (1 ms tick).  It runs at a
\* higher priority than the radio interrupt, so its busy-wait for idle in
\* hop_channel never ends while a transmission is in progress.
DevTimerStep(S) ==
  LET r     == S.r
      scan1 == IF r.scan > 0 THEN r.scan - 1 ELSE 0
      sync1 == IF r.sync > 0 THEN r.sync - 1 ELSE 0
      S1    == [S EXCEPT !.r.scan = scan1, !.r.sync = sync1]
      S2    == [S1 EXCEPT !.r.force = FALSE,
                   !.r.scan = IF sync1 = 0 THEN BEACON_SCAN_LONG_TIMEOUT_MS
                              ELSE BEACON_SCAN_SHORT_TIMEOUT_MS,
                   !.e = nrf_esb_stop_rx(@)]
      S3    == dev_hop_channel(S2)
  IN CASE ~(scan1 = 0 \/ r.force)  -> S1
       [] ~nrf_esb_is_idle(S2.e)   -> [S2 EXCEPT !.r.mode = "HUNG",
                                         !.r.chIdx = NextChIdx(@)]
       [] OTHER                    -> [S3 EXCEPT !.e = nrf_esb_start_rx(@)]

(***************************************************************************)
(* The radio medium.  A frame on pipe p of node n carries the address of   *)
(* that pipe; a node hears it when it listens on the same channel with an  *)
(* enabled pipe of that address and room in its RX FIFO.  Any frame may be *)
(* lost; an acknowledged frame is heard by at most one node and its ack    *)
(* may be lost too.                                                        *)
(***************************************************************************)
FrameAddr(n, p) ==
  IF p = 0 THEN <<"base0", addr[n].prefix[0]>>
  ELSE <<addr[n].base1, addr[n].prefix[p]>>

RxPipes(r, a) == {q \in 0..(addr[r].npipes - 1) : FrameAddr(r, q) = a}

\* Mutation of Listeners: a node with a full RX FIFO still takes frames.
Listeners_nofull(n, a) ==
  {r \in Nodes \ {n} : /\ Running(r)
                       /\ esb[r].state = "Rx"
                       /\ chan[r] = chan[n]
                       /\ RxPipes(r, a) # {}}

Listeners(n, a) ==
  {r \in Nodes \ {n} : /\ Running(r)
                       /\ esb[r].state = "Rx"
                       /\ chan[r] = chan[n]
                       /\ RxPipes(r, a) # {}
                       /\ Len(esb[r].rxq) < NRF_ESB_RX_FIFO_SIZE}

RxPipe(r, a) == CHOOSE q \in RxPipes(r, a) : TRUE

\* A frame without ack request: every listener may or may not hear it.
RadioTxNoAck(n) ==
  /\ Running(n)
  /\ esb[n].state = "Tx"
  /\ esb[n].air.noack
  /\ LET f == esb[n].air
         a == FrameAddr(n, f.pipe)
     IN \E heard \in SUBSET Listeners(n, a) :
          esb' = [r \in Nodes |->
                   CASE r = n      -> TxAcked(esb[n], NoFrame)
                     [] r \in heard -> Accept(esb[r], RxPipe(r, a),
                                              [f EXCEPT !.pipe = RxPipe(r, a)])
                     [] OTHER      -> esb[r]]
  /\ UNCHANGED <<latched, chan, addr, app, flash, cycles>>

\* An acked frame heard by r, whose ack (with r's queued ack payload for
\* that pipe) reaches n or is lost.
RadioTxAckTo(n, r, delivered) ==
  /\ Running(n)
  /\ esb[n].state = "Tx"
  /\ ~esb[n].air.noack
  /\ LET f == esb[n].air
         a == FrameAddr(n, f.pipe)
     IN /\ r \in Listeners(n, a)
        /\ LET q  == RxPipe(r, a)
               ap == AckPayload(esb[r], q)
           IN esb' = [esb EXCEPT
                        ![r] = Accept(TakeAck(@, q), q, [f EXCEPT !.pipe = q]),
                        ![n] = IF ~delivered THEN TxNotAcked(@)
                               ELSE IF ap = NoFrame THEN TxAcked(@, NoFrame)
                               ELSE TxAcked(@, [ap EXCEPT !.pipe = f.pipe])]
  /\ UNCHANGED <<latched, chan, addr, app, flash, cycles>>

RadioTxAck(n) == \E r \in Nodes, delivered \in BOOLEAN : RadioTxAckTo(n, r, delivered)

\* An acked frame nobody hears.
RadioTxLost(n) ==
  /\ Running(n)
  /\ esb[n].state = "Tx"
  /\ ~esb[n].air.noack
  /\ esb' = [esb EXCEPT ![n] = TxNotAcked(@)]
  /\ UNCHANGED <<latched, chan, addr, app, flash, cycles>>

(***************************************************************************)
(* Interrupt handlers and boot.                                            *)
(***************************************************************************)

\* ESB_EVT_IRQHandler takes all raised flags at once.
SwiEnter(n) ==
  /\ Running(n)
  /\ latched[n] = {}
  /\ esb[n].flags # {}
  /\ latched' = [latched EXCEPT ![n] = esb[n].flags]
  /\ esb' = [esb EXCEPT ![n].flags = {}]
  /\ UNCHANGED <<chan, addr, app, flash, cycles>>

\* ... then calls the handler once per taken flag, in flag bit order.
FirstEvent(n) ==
  EventOrder[SelectInSeq(EventOrder, LAMBDA ev : ev \in latched[n])]

\* The handler run to its return, when TIMER0 and the radio interrupt are
\* not let in between its nrf_esb calls.
RECURSIVE box_event_finish(_)
box_event_finish(S) ==
  IF S.r.pc = "NONE" THEN S ELSE box_event_finish(box_event_resume(S))

\* The handler of the box's first latched event starts, or goes on from its
\* cut; the event is taken off when the handler returns.
BoxSwiStep(S) ==
  LET ev == FirstEvent(Box)
  IN Commit(Box, S, IF S.r.pc = "NONE" THEN latched[Box] \ {ev}
                    ELSE latched[Box])

BoxEvent ==
  /\ Running(Box)
  /\ latched[Box] # {}
  /\ app[Box].pc = "NONE"
  /\ LET S == box_event(Ctx(Box), FirstEvent(Box))
     IN BoxSwiStep(IF PreemptSwi THEN S ELSE box_event_finish(S))
  /\ UNCHANGED cycles

BoxEventResume ==
  /\ Running(Box)
  /\ app[Box].pc # "NONE"
  /\ BoxSwiStep(box_event_resume(Ctx(Box)))
  /\ UNCHANGED cycles

DevEvent(d) ==
  /\ Running(d)
  /\ latched[d] # {}
  /\ app[d].pc = "NONE"
  /\ LET ev == FirstEvent(d)
         S  == dev_event(Ctx(d), ev)
     IN /\ DevEventReady(d, ev)
        /\ Commit(d, S, IF S.r.pc = "NONE" THEN latched[d] \ {ev}
                        ELSE latched[d])
  /\ UNCHANGED cycles

DevEventResume(d) ==
  /\ Running(d)
  /\ app[d].pc = "ENTER_NORMAL"
  /\ RadioSettled(esb[d])
  /\ Commit(d, dev_event_resume(Ctx(d)), latched[d] \ {FirstEvent(d)})
  /\ UNCHANGED cycles

BoxTimer ==
  /\ Running(Box)
  /\ app[Box].timer
  /\ Commit(Box, box_timer(Ctx(Box)), latched[Box])
  /\ UNCHANGED cycles

\* Ticks that change nothing (all counters zero) are stuttering steps.
DevTimer(d) ==
  /\ Running(d)
  /\ app[d].timer
  /\ app[d].scan > 0 \/ app[d].sync > 0 \/ app[d].force
  /\ Commit(d, DevTimerStep(Ctx(d)), latched[d])
  /\ UNCHANGED cycles

\* main() on data store page f, buttons b1 (BUTTON_1) and b2 (BUTTON_2).
BootWith(n, f) ==
  \E b1, b2 \in BOOLEAN :
    Commit(n, IF n = Box THEN BoxBoot(f, b1) ELSE DevBoot(f, b1, b2), {})

BootNode(n) == BootWith(n, flash[n])

\* main() again after NVIC_SystemReset.
Restart(n) ==
  /\ app[n].mode = "RESET"
  /\ BootNode(n)
  /\ UNCHANGED cycles

\* The user switches a node off and on (holding buttons or not).
PowerCycle(n) ==
  /\ cycles < MaxPowerCycles
  /\ cycles' = cycles + 1
  /\ BootNode(n)

\* Power is lost while the ESB event handler of n is in ds_update, after
\* the erase and k word writes; the node then boots on the torn page.
PowerLossInDsUpdate(n) ==
  /\ cycles < MaxPowerCycles
  /\ Running(n)
  /\ latched[n] # {}
  /\ LET ev == FirstEvent(n)
         S  == IF n = Box THEN box_event(Ctx(n), ev) ELSE dev_event(Ctx(n), ev)
     IN /\ n = Box => app[Box].pc = "NONE"
        /\ n # Box => DevEventReady(n, ev) /\ app[n].pc = "NONE"
        /\ S.dsw
        /\ \E k \in 0..(DsWords - 1) : BootWith(n, TornDs(n, S.fl, k))
  /\ cycles' = cycles + 1

(***************************************************************************)
(* Initial state: every node has just run main() on its flash contents.    *)
(***************************************************************************)
Init ==
  /\ cycles = 0
  /\ flash = InitFlash
  /\ \E b \in [Nodes -> BOOLEAN \X BOOLEAN] :
       LET S(n) == IF n = Box THEN BoxBoot(InitFlash[n], b[n][1])
                   ELSE DevBoot(InitFlash[n], b[n][1], b[n][2])
       IN /\ esb = [n \in Nodes |-> IF S(n).fault THEN EsbPowerOn ELSE S(n).e]
          /\ chan = [n \in Nodes |-> S(n).ch]
          /\ addr = [n \in Nodes |-> S(n).a]
          /\ app = [n \in Nodes |-> IF S(n).fault
                                    THEN [S(n).r EXCEPT !.mode = "RESET"]
                                    ELSE S(n).r]
  /\ latched = [n \in Nodes |-> {}]

Next ==
  \/ \E n \in Nodes : RadioTxNoAck(n) \/ RadioTxAck(n) \/ RadioTxLost(n)
  \/ \E n \in Nodes : SwiEnter(n)
  \/ BoxEvent \/ BoxEventResume \/ BoxTimer
  \/ \E d \in Devices : DevEvent(d) \/ DevEventResume(d) \/ DevTimer(d)
  \/ \E n \in Nodes : Restart(n) \/ PowerCycle(n) \/ PowerLossInDsUpdate(n)

Spec == Init /\ [][Next]_vars

(***************************************************************************)
(* Properties.                                                             *)
(***************************************************************************)
Modes   == {"NORMAL", "PAIRING", "RESET", "HUNG"}

\* Every node's engine, interrupt and application state has its type (the
\* payload body is checked only for its kind).
TypeOK ==
  /\ cycles \in 0..MaxPowerCycles
  /\ \A n \in Nodes :
       /\ esb[n].state \in {"Idle", "Tx", "Rx"} /\ esb[n].mode \in {"PTX", "PRX"}
       /\ Len(esb[n].txq) <= NRF_ESB_TX_FIFO_SIZE
       /\ Len(esb[n].rxq) <= NRF_ESB_RX_FIFO_SIZE
       /\ esb[n].flags \subseteq Events /\ latched[n] \subseteq Events
       /\ esb[n].pid \in [Pipes -> 0..NRF_ESB_PID_MAX]
       /\ app[n].mode \in Modes
       /\ app[n].chIdx \in 0..MAXIMUM_CHANNEL_LIST_SIZE
  /\ \A d \in Devices :
       /\ app[d].pairState \in {"NONE", "SEND_REQ", "WAIT_FOR_INFO"}
       /\ app[d].payIdx \in {0, 1}
       /\ app[d].pc \in {"NONE", "ENTER_NORMAL"}
       /\ app[d].scan \in 0..BEACON_SCAN_LONG_TIMEOUT_MS
       /\ app[d].sync \in 0..BEACON_SCAN_LONG_TIMEOUT_MS
  /\ app[Box].pc \in {"NONE", "DISABLE", "INIT", "START_RX", "MARK"}
  /\ app[Box].ds.disp \in 0..MAXIMUM_DISPLAY_DEV \cup {255}
  /\ app[Box].ds.ctrl \in 0..MAXIMUM_CONTROLLER_DEV \cup {255}

\* The box in normal mode is never deaf and mute: it is sending a beacon,
\* listening as PRX, or has a beacon completion still to handle (whose
\* handler re-initialises it as PRX and starts RX), even with TIMER0
\* preempting that handler.  The timer handler and the TX_SUCCESS /
\* TX_FAILED handlers between them keep the radio busy.  A box that boots
\* into normal mode has not initialised the radio before its first tick
\* (box_reset_loop); the property is about the radio once initialised,
\* or disabled by the handler itself.
BoxNeverDeaf ==
  app[Box].mode = "NORMAL" /\ (esb[Box].init \/ app[Box].pc # "NONE") =>
    \/ esb[Box].state \in {"Tx", "Rx"}
    \/ ({TX_SUCCESS, TX_FAILED} \cap (esb[Box].flags \cup latched[Box])) # {}

\* The resend mask bits the box sets when ID_PAIR_INFO_GET counts a slot
\* (6 - display_slot_idx, 2 - controller_slot_idx) are the bits main()
\* rebuilds from the slot counters after a reset (5 - i, 1 - i).
PairedMaskMatchesSlots ==
  app[Box].mode \in {"PAIRING", "NORMAL"} =>
    app[Box].paired = RestoredMask(app[Box].ds)

\* A box in normal mode runs on the slot counters and channel list stored
\* in flash: the data store was saved before the box left pairing.
BoxNormalIsPersisted ==
  app[Box].mode = "NORMAL" =>
    /\ flash[Box].sig
    /\ flash[Box].disp = app[Box].ds.disp /\ flash[Box].ctrl = app[Box].ds.ctrl
    /\ flash[Box].chlist = app[Box].chlist

\* The box marks data received only for slots it has paired.
RecvOnlyPaired == app[Box].recv \subseteq app[Box].paired


\* A device never stops for good: the interval timer interrupt, which runs
\* above the radio interrupt, never busy-waits in hop_channel for a
\* transmission that only the radio interrupt can finish.  The pairing
\* handler may run while a transmission is still in flight; ds_update's
\* __enable_irq lets the radio interrupt end it before enter_normal_mode
\* arms the timer.
NoDeviceHang == \A d \in Devices : app[d].mode # "HUNG"

\* A device in normal mode listens and sends on the address the box gave
\* it: enter_normal_mode applied the system address to base address 1 and
\* the slot index to the prefix of pipe 1.  Their BUSY results, ignored by
\* the code, are ruled out only because a transmission in flight has ended
\* by the time ds_update returns.
PairedAddressApplied ==
  \A d \in Devices :
    app[d].mode = "NORMAL" =>
      /\ addr[d].base1 = app[d].ds.sys
      /\ addr[d].prefix[1] = app[d].ds.idx

\* No two devices hold the same slot: each ID_PAIR_INFO_GET the box counts
\* hands out a slot index once, so two paired devices never share the
\* pipe address (and resend mask bit) of one slot.
UniqueDevIdx ==
  \A d1, d2 \in Devices :
    d1 # d2 /\ flash[d1].idx # NoIdx /\ flash[d2].idx # NoIdx
      => flash[d1].idx # flash[d2].idx

\* The box never takes the APP_ERROR_CHECK reset path (NVIC_SystemReset):
\* every nrf_esb call it checks succeeds.
NoBoxErrorReset == app[Box].mode # "RESET"

\* A pairing device always has something that moves it on: a transmission
\* in the air, a raised or taken ESB event, or a timer count.  A device
\* with none of these runs no handler again; nothing in the code would end
\* its pairing (g_pairing_timeout is set but never counted down).
PairingNotStranded ==
  \A d \in Devices :
    app[d].mode = "PAIRING" =>
      \/ esb[d].state = "Tx"
      \/ esb[d].flags # {} \/ latched[d] # {}
      \/ app[d].scan > 0 \/ app[d].sync > 0 \/ app[d].force

\* A data store page that ds_get accepts (its signature is DS_SIGNATURE)
\* holds a complete record: slot counters in range and a channel list the
\* radio can tune to.  main() trusts every field of a signed page.
BoxDataStoreValid ==
  flash[Box].sig =>
    /\ flash[Box].disp \in 0..MAXIMUM_DISPLAY_DEV
    /\ flash[Box].ctrl \in 0..MAXIMUM_CONTROLLER_DEV
    /\ \A i \in 1..MAXIMUM_CHANNEL_LIST_SIZE : flash[Box].chlist[i] <= 125

\* A device acts on each beacon once: when its handler is about to take an
\* RX_RECEIVED event in normal mode, either the RX FIFO holds the packet
\* nrf_esb_read_rx_payload will return, or rx_payload (which the ignored
\* NOT_FOUND result leaves in place) is no beacon it could act on again.
NoStaleBeacon ==
  \A d \in Devices :
    app[d].mode = "NORMAL" /\ RX_RECEIVED \in latched[d] /\ esb[d].rxq = <<>>
      => ~is_beacon_packet(app[d].rx)

(***************************************************************************)
(* Refinement: the box implements BoxProtocol.  Its mode is the protocol  *)
(* phase, g_ds's slot counters the slots handed out, g_devs_recv_mask the  *)
(* devices heard, g_cur_ch_idx the beacon position in normal mode, the    *)
(* beacon's byte 3 (1: new data, 2: resend) the last beacon, and the      *)
(* flash page the saved record.                                            *)
(***************************************************************************)
BoxPhase ==
  CASE app[Box].mode = "NORMAL"  -> "NORMAL"
    [] app[Box].mode = "PAIRING" -> "SETUP"
    [] OTHER                     -> "DOWN"

BoxBeacon ==
  CASE app[Box].beacon.b3 = 1 -> "NEW"
    [] app[Box].beacon.b3 = 2 -> app[Box].beacon.mask
    [] OTHER                  -> "NONE"

SavedRecord(f) == [sig |-> f.sig, disp |-> f.disp, ctrl |-> f.ctrl]

Proto == INSTANCE BoxProtocol WITH
  phase  <- BoxPhase,
  disp   <- app[Box].ds.disp,
  ctrl   <- app[Box].ds.ctrl,
  paired <- app[Box].paired,
  heard  <- app[Box].recv,
  pos    <- IF app[Box].mode = "PAIRING" THEN MAXIMUM_CHANNEL_LIST_SIZE
            ELSE app[Box].chIdx,
  beacon <- BoxBeacon,
  saved  <- SavedRecord(flash[Box]),
  InitSaved <- SavedRecord(InitFlash[Box])

\* Every step of the box's handlers, boots and resets is a step of the
\* protocol or leaves its view unchanged: slots are taken in order and the
\* counters saved before normal mode, each frame starts with a new-data
\* beacon every MAXIMUM_CHANNEL_LIST_SIZE beacons, each resend beacon
\* names exactly the paired devices not heard since, and only paired
\* devices are heard.
BoxImplementsProtocol == Proto!Spec

=============================================================================
