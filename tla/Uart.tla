--------------------------------- MODULE Uart ---------------------------------
(***************************************************************************)
(* What goes over the board's serial line: the serial port of a running    *)
(* sketch, or the bootloader before it, which is a program of its own and  *)
(* keeps nothing of the other.                                             *)
(***************************************************************************)
EXTENDS SerialTx, Boot

VARIABLE program    \* the one that is looked at

uartVars == <<txVars, bootVars, program>>

UartInit == TxInit /\ BootInit /\ program \in {"sketch", "bootloader"}

SketchRuns == program = "sketch" /\ TxNext /\ UNCHANGED <<bootVars, program>>
BootloaderRuns == program = "bootloader" /\ BootNext /\ UNCHANGED <<txVars, program>>

\* No fair step is enabled in the initial state of either, where the one that is not
\* looked at stays.
UartSpec == UartInit /\ [][SketchRuns \/ BootloaderRuns]_uartVars /\ TxFairness /\ BootFairness
=============================================================================
