---------------------------- MODULE BoxProtocol ----------------------------
(***************************************************************************)
(* What the box of the scheme 2 example promises, as pairing server and   *)
(* beacon master, without radio, interrupts or engine:                     *)
(*                                                                         *)
(*  - in setup mode it hands out display and controller slots in order,    *)
(*    each marking one bit of the paired mask;                             *)
(*  - it leaves setup mode only when every slot is taken, after saving     *)
(*    the slot counters;                                                   *)
(*  - in normal mode every MAXIMUM_CHANNEL_LIST_SIZE-th beacon starts a    *)
(*    frame and forgets which devices were heard; every other beacon asks  *)
(*    exactly the paired devices not heard in this frame to resend;        *)
(*  - it hears only paired devices;                                        *)
(*  - after a boot it is in setup mode with no slots (nothing saved, or    *)
(*    the pairing button held) or in normal mode on the saved slots.       *)
(***************************************************************************)
EXTENDS Integers

CONSTANTS
  MAXIMUM_DISPLAY_DEV,
  MAXIMUM_CONTROLLER_DEV,
  MAXIMUM_CHANNEL_LIST_SIZE,
  InitSaved               \* the saved counters at first power-on

NumDev == MAXIMUM_DISPLAY_DEV + MAXIMUM_CONTROLLER_DEV

VARIABLES
  phase,     \* "SETUP", "NORMAL" or "DOWN" (reset, main() not yet run)
  disp,      \* display slots handed out
  ctrl,      \* controller slots handed out
  paired,    \* mask bits of the slots handed out
  heard,     \* mask bits of the devices heard in this frame
  pos,       \* beacon position in the frame; MAXIMUM_CHANNEL_LIST_SIZE
             \* before the first frame
  beacon,    \* the last beacon: "NONE", "NEW" or the resend mask
  saved      \* the saved record: [sig, disp, ctrl]

vars == <<phase, disp, ctrl, paired, heard, pos, beacon, saved>>

\* Mask bit of the i-th display slot and the i-th controller slot.
DisplayBitOf(i)    == NumDev - i
ControllerBitOf(i) == MAXIMUM_CONTROLLER_DEV - i
PairedOf(d, c) ==
  {DisplayBitOf(i) : i \in 1..d} \cup {ControllerBitOf(i) : i \in 1..c}

\* The phase and slot counters main() starts with on saved record s.
BootState(s, button) ==
  IF ~s.sig \/ (s.disp = 0 /\ s.ctrl = 0) \/ button
  THEN [phase |-> "SETUP", disp |-> 0, ctrl |-> 0]
  ELSE [phase |-> "NORMAL", disp |-> s.disp, ctrl |-> s.ctrl]

Booted(b) ==
  /\ phase = b.phase /\ disp = b.disp /\ ctrl = b.ctrl
  /\ paired = PairedOf(b.disp, b.ctrl)
  /\ heard = {} /\ pos = MAXIMUM_CHANNEL_LIST_SIZE /\ beacon = "NONE"

Init ==
  /\ saved = InitSaved
  /\ \E button \in BOOLEAN : Booted(BootState(InitSaved, button))

\* A slot is handed out; the last one saves the counters and ends setup.
Take(d, c) ==
  /\ phase = "SETUP"
  /\ disp' = d /\ ctrl' = c
  /\ paired' = PairedOf(d, c)
  /\ IF d = MAXIMUM_DISPLAY_DEV /\ c = MAXIMUM_CONTROLLER_DEV
     THEN /\ saved' = [sig |-> TRUE, disp |-> d, ctrl |-> c]
          /\ phase' = "NORMAL" /\ pos' = MAXIMUM_CHANNEL_LIST_SIZE
     ELSE UNCHANGED <<saved, phase, pos>>
  /\ UNCHANGED <<heard, beacon>>

TakeDisplay    == disp < MAXIMUM_DISPLAY_DEV /\ Take(disp + 1, ctrl)
TakeController == ctrl < MAXIMUM_CONTROLLER_DEV /\ Take(disp, ctrl + 1)

NextPos(p) == IF p + 1 >= MAXIMUM_CHANNEL_LIST_SIZE THEN 0 ELSE p + 1

SendBeacon ==
  /\ phase = "NORMAL"
  /\ pos' = NextPos(pos)
  /\ IF pos' = 0
     THEN heard' = {} /\ beacon' = "NEW"
     ELSE UNCHANGED heard /\ beacon' = paired \ heard
  /\ UNCHANGED <<phase, disp, ctrl, paired, saved>>

Hear(b) ==
  /\ phase = "NORMAL"
  /\ b \in paired
  /\ heard' = heard \cup {b}
  /\ UNCHANGED <<phase, disp, ctrl, paired, pos, beacon, saved>>

\* A reset (NVIC_SystemReset): nothing but the frame position is lost.
Down ==
  /\ phase' = "DOWN"
  /\ pos' \in 0..MAXIMUM_CHANNEL_LIST_SIZE
  /\ UNCHANGED <<disp, ctrl, paired, heard, beacon, saved>>

\* main() runs again, on the saved record.
Reboot ==
  /\ \E button \in BOOLEAN : Booted(BootState(saved, button))'
  /\ UNCHANGED saved

Next ==
  \/ TakeDisplay \/ TakeController \/ SendBeacon
  \/ \E b \in 0..7 : Hear(b)
  \/ Down \/ Reboot

Spec == Init /\ [][Next]_vars

\* Its own invariants: the paired mask is the mask of the slots handed
\* out, and only paired devices are heard.
ProtocolInv ==
  /\ paired = PairedOf(disp, ctrl)
  /\ phase = "NORMAL" => heard \subseteq paired

=============================================================================
