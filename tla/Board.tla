-------------------------------- MODULE Board --------------------------------
(***************************************************************************)
(* The board's own parts and the parts of the core that have no timer, one *)
(* at a time: what the LCD shows, software serial ports, the SPI bus with  *)
(* an SD card, the dataflash, pins, pulses and the delays that count       *)
(* cycles, strings and what is printed and parsed, the EEPROM and the      *)
(* thermometer.  They share no variable, so nothing is lost by leaving all *)
(* but one of them at rest.                                                *)
(***************************************************************************)
EXTENDS Lcd, SoftSerial, Dataflash, SdCard, Pins, Pulse, WString, Text, Eeprom, Temp

VARIABLE part    \* the one that is looked at

boardVars == <<lcdVars, portVars, dfVars, busCardVars, pinsVars, pulseVars, stringVars, textVars, eepromVars, tempVars, part>>

BoardInit ==
    /\ LcdInit /\ PortInit /\ DataflashInit /\ SdCardInit /\ PinsInit /\ PulseInit /\ StringInit /\ TextInit
    /\ EepromInit /\ TempInit
    /\ part \in {"lcd", "port", "dataflash", "bus", "pins", "pulse", "string", "text", "eeprom", "temp"}

LcdMoves == part = "lcd" /\ LcdNext
    /\ UNCHANGED <<portVars, dfVars, busCardVars, pinsVars, pulseVars, stringVars, textVars, eepromVars, tempVars, part>>
PortMoves == part = "port" /\ PortNext
    /\ UNCHANGED <<lcdVars, dfVars, busCardVars, pinsVars, pulseVars, stringVars, textVars, eepromVars, tempVars, part>>
DataflashMoves == part = "dataflash" /\ DataflashNext
    /\ UNCHANGED <<lcdVars, portVars, busCardVars, pinsVars, pulseVars, stringVars, textVars, eepromVars, tempVars, part>>
BusMoves == part = "bus" /\ ~misused /\ SdCardNext
    /\ UNCHANGED <<lcdVars, portVars, dfVars, pinsVars, pulseVars, stringVars, textVars, eepromVars, tempVars, part>>
PinsMove == part = "pins" /\ PinsNext
    /\ UNCHANGED <<lcdVars, portVars, dfVars, busCardVars, pulseVars, stringVars, textVars, eepromVars, tempVars, part>>
PulseMoves == part = "pulse" /\ PulseNext
    /\ UNCHANGED <<lcdVars, portVars, dfVars, busCardVars, pinsVars, stringVars, textVars, eepromVars, tempVars, part>>
StringMoves == part = "string" /\ StringNext
    /\ UNCHANGED <<lcdVars, portVars, dfVars, busCardVars, pinsVars, pulseVars, textVars, eepromVars, tempVars, part>>
TextMoves == part = "text" /\ TextNext
    /\ UNCHANGED <<lcdVars, portVars, dfVars, busCardVars, pinsVars, pulseVars, stringVars, eepromVars, tempVars, part>>

EepromMoves == part = "eeprom" /\ EepromNext
    /\ UNCHANGED <<lcdVars, portVars, dfVars, busCardVars, pinsVars, pulseVars, stringVars, textVars, tempVars, part>>
TempMoves == part = "temp" /\ TempNext
    /\ UNCHANGED <<lcdVars, portVars, dfVars, busCardVars, pinsVars, pulseVars, stringVars, textVars, eepromVars, part>>

BoardNext == LcdMoves \/ PortMoves \/ DataflashMoves \/ BusMoves \/ PinsMove \/ PulseMoves \/ StringMoves \/ TextMoves
                \/ EepromMoves \/ TempMoves

BoardSpec == BoardInit /\ [][BoardNext]_boardVars

------------------------------------------------------------------------------
\* Every call of the dataflash does to the buffers and the pages what FlashMemory says
\* (with two differences from the library's comments), and reads what is there: over the
\* end of a page, for addresses of more than eight bits, and whatever call came before;
\* but for deep power-down, which is entered and left with the chip deselected, and
\* during which nothing else is called.  The EEPROM gives an object back as
\* it was put there, wherever the power failed of another.
StoresKept ==
    /\ Memory!MemInit
    /\ [][part = "dataflash" => FlashStep]_dfVars
    /\ [](part = "eeprom" => CellsKept /\ ObjectComesBack)

\* Pins are what the calls made them, whatever an interrupt handler does to its own; a
\* pulse is measured as long as it was seen; a delay that counts takes the cycles asked
\* for to within four, and one that does not was asked for at most 25; a search of a
\* stream ends at the first target to come. The handler's pins are on no timer of
\* the sketch's (the run's are not), or else PinsKept fails.
PinsAndWaits ==
    /\ part = "pins" => PinsKept
    /\ part = "pulse" => PulseMeasured /\ DelayIsAsked
    /\ part = "text" => FindsFirst

\* What is converted is worth the same: the bits of a shift and of a frame of a serial
\* port in software, the readings of the thermometer, the text of a String in a buffer
\* it fits in, and a number that is printed and parsed.
ConversionsHold ==
    /\ part = "pins" => ShiftedWhole
    /\ part = "port" => FrameIsByte
    /\ part = "temp" => ScalesAgree
    /\ part = "string" => StringFits /\ StringIsText /\ StringAnswers
    /\ part = "text" => NumbersSurvive
=============================================================================
