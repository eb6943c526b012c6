----------------------------- MODULE EsbEngine -----------------------------
(***************************************************************************)
(* The Enhanced ShockBurst engine (nrf_esb) seen through its public API.   *)
(*                                                                         *)
(* The engine's implementation is not part of the repository: only its    *)
(* header, components/proprietary_rf/esb/nrf_esb.h, is.  The operators     *)
(* below translate the header's documented contract (return codes, queue  *)
(* sizes, event flags) and, where the header is silent, the behaviour      *)
(* spec.md gives the engine (PID assignment, duplicate filtering, ack      *)
(* payloads).  The engine of one node is a record; every API call is an    *)
(* operator from record to record, and a <Call>Result operator gives the   *)
(* return code the caller sees.  Only the configuration both applications  *)
(* pass to nrf_esb_init is modelled: automatic TX mode, retransmit_count   *)
(* 0, selective auto-ack enabled.                                          *)
(***************************************************************************)
EXTENDS Integers, Sequences, SequencesExt

CONSTANTS
  Pipes,                        \* pipe numbers in use, a subset of 0..7
  NRF_ESB_TX_FIFO_SIZE,
  NRF_ESB_RX_FIFO_SIZE,
  NRF_ESB_MAX_PAYLOAD_LENGTH,
  NRF_ESB_PID_MAX,
  NoFrame                       \* model value: "no payload"

ASSUME Pipes \subseteq 0..7 /\ 0 \in Pipes
ASSUME NRF_ESB_PID_MAX \in Nat

\* The three interrupt flags of nrf_esb.h, in bit order.
TX_SUCCESS  == "TX_SUCCESS"
TX_FAILED   == "TX_FAILED"
RX_RECEIVED == "RX_RECEIVED"
EventOrder  == <<TX_SUCCESS, TX_FAILED, RX_RECEIVED>>
Events      == {TX_SUCCESS, TX_FAILED, RX_RECEIVED}

\* The configuration both applications use (esb_init in box and device).
selective_auto_ack == TRUE

(***************************************************************************)
(* Engine state.  state is the main state of the radio controller: Idle,   *)
(* Tx (a PTX frame in the air or awaiting its ack) or Rx (listening).      *)
(* air is the frame handed to the radio, pid the next PID per pipe, last   *)
(* the last frame accepted per pipe (duplicate filter).                    *)
(***************************************************************************)
EsbPowerOn ==
  [init |-> FALSE, mode |-> "PTX", state |-> "Idle",
   txq |-> <<>>, rxq |-> <<>>, air |-> NoFrame, flags |-> {},
   pid |-> [p \in Pipes |-> 0], last |-> [p \in Pipes |-> NoFrame]]

nrf_esb_is_idle(e) == e.state = "Idle"

\* nrf_esb_init: NRF_ERROR_BUSY if the radio is busy; otherwise fresh queues
\* and PID state.  Flags already raised stay raised until dispatched.
InitResult(e) == IF nrf_esb_is_idle(e) THEN "SUCCESS" ELSE "BUSY"
nrf_esb_init(e, mode) ==
  IF InitResult(e) = "SUCCESS"
  THEN [EsbPowerOn EXCEPT !.init = TRUE, !.mode = mode, !.flags = e.flags]
  ELSE e

\* nrf_esb_disable: stops the radio at once and flushes both queues.
nrf_esb_disable(e) == [EsbPowerOn EXCEPT !.flags = e.flags]

\* nrf_esb_write_payload: the checks in the order the header lists them.
WriteResult(e, p) ==
  CASE ~e.init                                     -> "INVALID_STATE"
    [] ~p.noack /\ ~selective_auto_ack             -> "NOT_SUPPORTED"
    [] Len(e.txq) >= NRF_ESB_TX_FIFO_SIZE          -> "NO_MEM"
    [] p.length = 0 \/ p.length > NRF_ESB_MAX_PAYLOAD_LENGTH
                                                   -> "INVALID_LENGTH"
    [] OTHER                                       -> "SUCCESS"

\* A queued PTX payload gets the pipe's next PID; in automatic TX mode an
\* idle PTX starts transmitting the head of the queue at once.
nrf_esb_write_payload(e, p) ==
  IF WriteResult(e, p) # "SUCCESS" THEN e
  ELSE LET f     == [p EXCEPT !.pid = e.pid[p.pipe]]
           start == e.mode = "PTX" /\ e.state = "Idle"
       IN [e EXCEPT !.txq = Append(@, f),
                    !.pid[p.pipe] = (@ + 1) % (NRF_ESB_PID_MAX + 1),
                    !.state = IF start THEN "Tx" ELSE @,
                    !.air = IF start THEN Head(e.txq \o <<f>>) ELSE @]

\* nrf_esb_read_rx_payload: removes the head of the RX FIFO; an empty FIFO
\* leaves the caller's buffer untouched.
ReadResult(e) ==
  CASE ~e.init        -> "INVALID_STATE"
    [] e.rxq = <<>>   -> "NOT_FOUND"
    [] OTHER          -> "SUCCESS"
nrf_esb_read_rx_payload(e) ==
  IF ReadResult(e) = "SUCCESS" THEN [e EXCEPT !.rxq = Tail(@)] ELSE e

StartRxResult(e) == IF nrf_esb_is_idle(e) THEN "SUCCESS" ELSE "BUSY"
nrf_esb_start_rx(e) ==
  IF StartRxResult(e) = "SUCCESS" THEN [e EXCEPT !.state = "Rx"] ELSE e

StopRxResult(e) == IF e.state = "Rx" THEN "SUCCESS" ELSE "NOT_IN_RX_MODE"
nrf_esb_stop_rx(e) ==
  IF StopRxResult(e) = "SUCCESS" THEN [e EXCEPT !.state = "Idle"] ELSE e

\* Flushing a queue also resets the PID / duplicate state it belongs to.
nrf_esb_flush_tx(e) ==
  IF e.init THEN [e EXCEPT !.txq = <<>>, !.pid = [p \in Pipes |-> 0]] ELSE e
nrf_esb_flush_rx(e) ==
  IF e.init THEN [e EXCEPT !.rxq = <<>>, !.last = [p \in Pipes |-> NoFrame]]
  ELSE e

\* nrf_esb_set_rf_channel: module initialized, idle, channel <= 125.
SetChannelResult(e, ch) ==
  CASE ~e.init                -> "INVALID_STATE"
    [] ~nrf_esb_is_idle(e)    -> "BUSY"
    [] ch > 125               -> "INVALID_PARAM"
    [] OTHER                  -> "SUCCESS"

\* Address setters (base addresses, prefixes): NRF_ERROR_BUSY unless idle.
AddressResult(e) == IF nrf_esb_is_idle(e) THEN "SUCCESS" ELSE "BUSY"
UpdatePrefixResult(e, pipe) ==
  CASE ~nrf_esb_is_idle(e)  -> "BUSY"
    [] pipe > 7             -> "INVALID_PARAM"
    [] OTHER                -> "SUCCESS"

(***************************************************************************)
(* Radio completions, applied by the radio interrupt.                      *)
(***************************************************************************)

\* PTX: the frame in the air was acknowledged (or needed no ack).  ap is the
\* ack payload or NoFrame.  The head is popped; automatic TX mode carries on
\* with the next queued payload.
TxAcked(e, ap) ==
  LET rest == IF e.txq = <<>> THEN <<>> ELSE Tail(e.txq)
      keep == ap # NoFrame /\ Len(e.rxq) < NRF_ESB_RX_FIFO_SIZE
  IN [e EXCEPT !.txq = rest,
               !.rxq = IF keep THEN Append(@, ap) ELSE @,
               !.flags = @ \cup {TX_SUCCESS} \cup
                         (IF keep THEN {RX_RECEIVED} ELSE {}),
               !.state = IF rest # <<>> THEN "Tx" ELSE "Idle",
               !.air = IF rest # <<>> THEN Head(rest) ELSE NoFrame]

\* PTX: retransmit_count (0) retransmissions went unanswered.  The payload
\* stays at the head of the TX FIFO.
TxNotAcked(e) ==
  [e EXCEPT !.flags = @ \cup {TX_FAILED}, !.state = "Idle", !.air = NoFrame]

\* PRX: a frame f arrived on pipe q.  A frame equal (same PID and content,
\* hence same CRC) to the last one accepted on q is a duplicate: it is acked
\* but not queued again.
Accept(e, q, f) ==
  IF e.last[q] = f THEN e
  ELSE [e EXCEPT !.rxq = Append(@, f), !.flags = @ \cup {RX_RECEIVED},
                 !.last[q] = f]

\* PRX: the ack payload for pipe q is the first queued payload of that pipe.
AckIndex(e, q)   == SelectInSeq(e.txq, LAMBDA p : p.pipe = q)
AckPayload(e, q) == IF AckIndex(e, q) = 0 THEN NoFrame ELSE e.txq[AckIndex(e, q)]
TakeAck(e, q)    ==
  IF AckIndex(e, q) = 0 THEN e
  ELSE [e EXCEPT !.txq = RemoveAt(@, AckIndex(e, q))]

=============================================================================
