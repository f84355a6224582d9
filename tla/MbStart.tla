------------------------------- MODULE MbStart -------------------------------
(***************************************************************************)
(* How the USB task starts the Modbus RTU slave: eMBInit and eMBEnable     *)
(* (FreeModbus/modbus/mb.c), eMBRTUInit, eMBRTUStart and xMBRTUTransmitFSM *)
(* (modbus/rtu/mbrtu.c) and the serial port over USB CDC                   *)
(* (BARE/port/portserial.c).  NDEBUG is not defined, so assert is active;  *)
(* an assertion that fails ends in the endless loop of __aeabi_assert, in  *)
(* a task of higher priority than the network, DNS and link tasks.         *)
(***************************************************************************)

VARIABLES
  eMBState, eRcvState, eSndState,
  pc        \* where the USB task is

vars == <<eMBState, eRcvState, eSndState, pc>>

Init ==
  /\ eMBState = "NOT_INITIALIZED"
  /\ eRcvState = "RX_INIT" /\ eSndState = "TX_IDLE"
  /\ pc = "eMBInit"

\* Semaphores, timer or event queue may not be created; the USB task looks at
\* neither result.
MbInit ==
  /\ pc = "eMBInit"
  /\ eMBState' \in {"DISABLED", "NOT_INITIALIZED"}
  /\ pc' = "eMBEnable"
  /\ UNCHANGED <<eRcvState, eSndState>>

\* eMBEnable of a stack that was not initialised.
EnableRefused ==
  /\ pc = "eMBEnable" /\ eMBState # "DISABLED"
  /\ pc' = "loop"
  /\ UNCHANGED <<eMBState, eRcvState, eSndState>>

\* eMBEnable calls eMBRTUStart, which sets the receiver's state first.
RtuStart ==
  /\ pc = "eMBEnable" /\ eMBState = "DISABLED"
  /\ eRcvState' = "RX_INIT"
  /\ pc' = "SerialEnable"
  /\ UNCHANGED <<eMBState, eSndState>>

\* vMBPortSerialEnable(TRUE, FALSE): nothing is buffered at this point, and
\* the port tells the stack at once that the transmitter is empty.
SerialEnable ==
  /\ pc = "SerialEnable"
  /\ pc' = "TransmitFSM"
  /\ UNCHANGED <<eMBState, eRcvState, eSndState>>

\* xMBRTUTransmitFSM with an idle transmitter: the assertion, then the
\* receiver is enabled, through vMBPortSerialEnable again.
TransmitFSM ==
  /\ pc = "TransmitFSM"
  /\ pc' = IF eRcvState = "RX_IDLE" THEN "SerialEnable" ELSE "assert"
  /\ UNCHANGED <<eMBState, eRcvState, eSndState>>

Next == MbInit \/ EnableRefused \/ RtuStart \/ SerialEnable \/ TransmitFSM

Spec == Init /\ [][Next]_vars

\* assert( eRcvState == STATE_RX_IDLE ) on entry to xMBRTUTransmitFSM: the
\* transmitter only runs while the receiver is idle.
TransmitterAssertion == pc = "TransmitFSM" => eRcvState = "RX_IDLE"
==============================================================================
