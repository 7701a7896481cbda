------------------------------- MODULE IoDevices -------------------------------
(***************************************************************************)
(* The devices that talk to the world: uart_t (uart.h), led_t and ethmac_t     *)
(* (memory-map.cc).  The MW stage of a cycle accesses one of them, and the     *)
(* tick of the Ethernet MAC follows (simulator_t::run).                        *)
(*                                                                         *)
(* The UART is used by main and by an interrupt handler, each of which asks    *)
(* for the status before it reads.  Input is a file that ends, or a terminal   *)
(* whose user types on.  The driver of the Ethernet MAC uses its buffer for    *)
(* one frame to send and one to receive, looks at the ready bits before it     *)
(* touches either, and clears a bit only after it saw it; it may start the     *)
(* next transfer before that.                                              *)
(***************************************************************************)
EXTENDS Naturals, Sequences, SequencesExt

CONSTANTS
  Input,        \* the bytes of the UART's input
  IsTTY,
  LedStates,    \* what the program shows
  MaxPrinted,   \* bound on the changes of the LEDs
  Frames,       \* what it sends, one by one
  Arrivals      \* the frames that come from the network

VARIABLES
  turn, handling,
  file,         \* bytes not yet typed, or not yet read from the file
  kernel,       \* typed bytes the terminal still has
  buffer,       \* bytes in the buffer of In_stream
  stalled,      \* a load from the UART waits in MW
  received,     \* bytes the program has read
  polled,       \* the contexts that saw data and have not read since, and none other has
  led, printed, \* Curr_state; what led_t printed
  tx, txReady, txBuffer, started, sent,
  rx, rxReady, rxBuffer, network, taken,
  txSeen, rxSeen,          \* the ready bits as the driver saw them
  sending, receiving       \* does it wait for a transfer?

uart == <<file, kernel, buffer, stalled, received, polled>>
leds == <<led, printed>>
sender == <<tx, txReady, txBuffer, txSeen, sending, started, sent>>
receiver == <<rx, rxReady, rxBuffer, rxSeen, receiving, network, taken>>
ethmac == <<sender, receiver>>
vars == <<turn, handling, uart, leds, ethmac>>

Nothing == 0

-----------------------------------------------------------------------------
(* The UART.                                                               *)

MW == turn = "MW" /\ turn' = "tick"
Runs == MW /\ ~ stalled

\* read_status: bytes that are in the stream's buffer already do not count for a
\* terminal.
AnyInput == IF IsTTY THEN kernel # <<>> ELSE file # <<>>

Status ==
  /\ Runs /\ Input # <<>>
  /\ polled' = IF AnyInput THEN polled \cup {handling} ELSE polled \ {handling}
  /\ UNCHANGED <<handling, file, kernel, buffer, stalled, received, leds, ethmac>>

\* The stream as read takes from it: a terminal is read into the buffer, as far as it
\* was typed.
Available == IF ~ IsTTY THEN file ELSE IF buffer # <<>> THEN buffer ELSE kernel

\* Faulty: the byte stays in the stream, as after a peek.
TakenByPeek == Available

Remaining == Tail(Available)

\* read_data: nothing was read at the end of the file, and the load is repeated; a
\* terminal makes the simulator wait for a byte.
ReadData ==
  /\ MW
  /\ Input # <<>>
  /\ IF Available = <<>>
     THEN /\ ~ IsTTY
          /\ stalled' = TRUE /\ UNCHANGED <<file, kernel, buffer, received>>
     ELSE /\ stalled' = FALSE
          /\ received' = Append(received, Head(Available))
          /\ file' = IF IsTTY THEN file ELSE Remaining
          /\ buffer' = IF IsTTY THEN Remaining ELSE buffer
          /\ kernel' = IF IsTTY /\ buffer = <<>> THEN <<>> ELSE kernel
  /\ polled' = {}
  /\ UNCHANGED <<handling, leds, ethmac>>

\* The user types a byte.
Type ==
  /\ IsTTY /\ file # <<>>
  /\ kernel' = Append(kernel, Head(file))
  /\ file' = Tail(file)
  /\ UNCHANGED <<turn, handling, buffer, stalled, received, polled, leds, ethmac>>

\* An interrupt is taken, or its handler returns.
Switch ==
  /\ Runs
  /\ handling' = ~ handling
  /\ UNCHANGED <<uart, leds, ethmac>>

-----------------------------------------------------------------------------
(* The LEDs.                                                               *)

\* Faulty: every state is printed.
PrintsAll(state) == TRUE

Prints(state) == state # led

Show(state) ==
  /\ Runs /\ Len(printed) < MaxPrinted
  /\ led' = state
  /\ printed' = IF Prints(state) THEN Append(printed, state) ELSE printed
  /\ UNCHANGED <<handling, uart, ethmac>>

-----------------------------------------------------------------------------
(* The Ethernet MAC.                                                       *)

\* The driver writes a frame into the buffer when no other is being sent.
Fill ==
  /\ Runs
  /\ ~ sending /\ txBuffer = Nothing /\ Len(started) < Len(Frames)
  /\ txBuffer' = Frames[Len(started) + 1]
  /\ UNCHANGED <<handling, uart, leds, tx, txReady, txSeen, sending, started, sent, receiver>>

\* Writes to 0xf400 and 0xf600.
StartTx ==
  /\ Runs
  /\ ~ sending /\ txBuffer # Nothing
  /\ tx' = TRUE
  /\ sending' = TRUE
  /\ started' = Append(started, txBuffer)
  /\ UNCHANGED <<handling, uart, leds, txReady, txBuffer, txSeen, sent, receiver>>

StartRx ==
  /\ Runs
  /\ ~ receiving /\ Arrivals # <<>>
  /\ rx' = TRUE
  /\ receiving' = TRUE
  /\ UNCHANGED <<handling, uart, leds, rxReady, rxBuffer, rxSeen, network, taken, sender>>

\* A read of 0xf004: a ready bit that is new to the driver ends the transfer it waits
\* for.
ReadReady ==
  /\ Runs
  /\ txSeen' = txReady /\ rxSeen' = rxReady
  /\ sending' = (sending /\ ~ (txReady /\ ~ txSeen))
  /\ receiving' = (receiving /\ ~ (rxReady /\ ~ rxSeen))
  /\ txBuffer' = IF txReady /\ ~ txSeen THEN Nothing ELSE txBuffer
  /\ taken' = IF rxReady /\ ~ rxSeen THEN Append(taken, Nothing) ELSE taken
  /\ UNCHANGED <<handling, uart, leds, tx, txReady, started, sent, rx, rxReady, rxBuffer, network>>

\* The driver reads the frame it was told of.
ReadFrame ==
  /\ Runs
  /\ rxSeen /\ Last(taken) = Nothing
  /\ taken' = Append(Front(taken), rxBuffer)
  /\ UNCHANGED <<handling, uart, leds, rx, rxReady, rxBuffer, rxSeen, receiving, network, sender>>

\* Writes of ones to 0xf004 clear the bits.
ClearTx ==
  /\ Runs
  /\ txSeen
  /\ txReady' = FALSE /\ txSeen' = FALSE
  /\ UNCHANGED <<handling, uart, leds, tx, txBuffer, sending, started, sent, receiver>>

ClearRx ==
  /\ Runs
  /\ rxSeen /\ Last(taken) # Nothing
  /\ rxReady' = FALSE /\ rxSeen' = FALSE
  /\ UNCHANGED <<handling, uart, leds, rx, rxBuffer, receiving, network, taken, sender>>

\* Faulty: a frame may arrive although the last one has not been acknowledged.
AcceptsAlways == rx

\* A frame is taken from the network when one is asked for and the last was acknowledged.
Accepts == rx /\ ~ rxReady

\* Faulty: the request stays.
TxKept == tx

TxAfterSending == FALSE

\* ethmac_t::tick; a frame from the network may arrive at any time.
Tick ==
  /\ turn = "tick" /\ turn' = "MW"
  /\ IF tx /\ ~ txReady
     THEN sent' = Append(sent, txBuffer) /\ tx' = TxAfterSending /\ txReady' = TRUE
     ELSE UNCHANGED <<sent, tx, txReady>>
  /\ \/ /\ Accepts /\ network # <<>>
        /\ rxBuffer' = Head(network) /\ network' = Tail(network)
        /\ rx' = FALSE /\ rxReady' = TRUE
     \/ UNCHANGED <<rxBuffer, network, rx, rxReady>>
  /\ UNCHANGED <<handling, uart, leds, txBuffer, txSeen, sending, started, rxSeen, receiving, taken>>

-----------------------------------------------------------------------------
Init ==
  /\ turn = "MW" /\ handling = FALSE
  /\ file = Input /\ kernel = <<>> /\ buffer = <<>>
  /\ stalled = FALSE /\ received = <<>> /\ polled = {}
  /\ led = 0 /\ printed = <<>>
  /\ tx = FALSE /\ txReady = FALSE /\ txBuffer = Nothing /\ txSeen = FALSE
  /\ sending = FALSE /\ started = <<>> /\ sent = <<>>
  /\ rx = FALSE /\ rxReady = FALSE /\ rxBuffer = Nothing /\ rxSeen = FALSE
  /\ receiving = FALSE /\ network = Arrivals /\ taken = <<>>

Next ==
  \/ Status \/ ReadData \/ Type \/ Switch
  \/ \E state \in LedStates : Show(state)
  \/ Fill \/ StartTx \/ StartRx \/ ReadReady \/ ReadFrame \/ ClearTx \/ ClearRx
  \/ Tick

Spec == Init /\ [][Next]_vars

-----------------------------------------------------------------------------
\* The program reads the bytes of the input in their order, every one once; a context
\* that saw data and reads is answered at once, unless the other has read in between.
UartInOrder ==
  /\ received' \o (buffer' \o (kernel' \o file')) = Input
  /\ stalled' => stalled \/ handling \notin polled

\* A change of the LEDs is printed, once.
LedsPrinted ==
  /\ led' = IF printed' = <<>> THEN 0 ELSE Last(printed')
  /\ \A k \in 2 .. Len(printed') : printed'[k] # printed'[k - 1]

\* Every frame is sent as it was when it was started, once and in order; every frame
\* from the network is taken, once and in order.
FramesInOrder ==
  /\ IsPrefix(sent', started') /\ IsPrefix(started', Frames)
  /\ LET read == SelectSeq(taken', LAMBDA f : f # Nothing)
         waits == IF rxReady' /\ (~ rxSeen' \/ read # taken') THEN <<rxBuffer'>> ELSE <<>>
     IN read \o (waits \o network') = Arrivals

StreamsInOrder == UartInOrder /\ LedsPrinted /\ FramesInOrder
=============================================================================
