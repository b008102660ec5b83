----------------------------- MODULE Dataflash -----------------------------
(***************************************************************************)
(* ButterflyDataflash.cpp: the calls of the library as the bytes they send *)
(* to the chip, an AT45DB041, and the command decoder of that chip, which  *)
(* takes a command, three bytes of address and as many more as that        *)
(* command wants, and carries out a copy when it is deselected.            *)
(*                                                                         *)
(* A call leaves the chip selected, so that the next byte can be read or   *)
(* written; the next call deselects it for a moment first (DF_reset).  The *)
(* two calls about deep power-down do not, and a sketch that has used the  *)
(* chip must call Deactivate() itself before them.                         *)
(***************************************************************************)
EXTENDS Naturals, Sequences

CONSTANTS
    PageSize, Cells, Pages, Data,   \* as in FlashMemory
    MaxFlashCalls                   \* bound: the calls of a sketch

\* An address is of one of 2048 pages and of 9 bits within it.
ASSUME DataflashAssumption ==
    /\ PageSize \in 1 .. 512 /\ Cells \subseteq 0 .. PageSize - 1
    /\ Pages \subseteq 0 .. 2047

VARIABLES
    df,         \* the chip
    dfAnswer,   \* what the last call returned
    dfCalls

dfVars == <<df, dfAnswer, dfCalls>>

\* the opcodes
FlashToBuf(b) == IF b = 1 THEN 83 ELSE 85       \* 0x53, 0x55
BufRead(b) == IF b = 1 THEN 84 ELSE 86          \* 0x54, 0x56
StatusReg == 87                                 \* 0x57
FlashToBufCompare(b) == IF b = 1 THEN 96 ELSE 97
ContArrayRead == 104                            \* 0x68
PageEraseCmd == 129                             \* 0x81
BufToFlashWE(b) == IF b = 1 THEN 131 ELSE 134   \* 0x83, 0x86
BufWrite(b) == IF b = 1 THEN 132 ELSE 135       \* 0x84, 0x87
EnterDeepPowerdown == 185                       \* 0xB9
ExitDeepPowerdown == 171                        \* 0xAB
None == 0

------------------------------------------------------------------------------
\* The chip.  in counts the bytes since the opcode, adr is made of the first three.
BufferOf(op) == IF op \in {83, 84, 96, 131, 132} THEN 1 ELSE 2
PageOf(adr) == adr \div 512
Fillers(op) == CASE op = ContArrayRead -> 4 [] op \in {BufRead(1), BufRead(2)} -> 1 [] OTHER -> 0

\* where the byte number i after the address and its fillers is
Cell(d, i) == ((d.adr % 512) + i) % PageSize
CellPage(d, i) == (PageOf(d.adr) + (((d.adr % 512) + i) \div PageSize)) % 2048

\* The place the chip has got to, in terms of the promise.
Place(d) ==
    LET i == d.in - 3 - Fillers(d.op)
        is(use) == [use |-> use, of |-> IF use = "flash" THEN CellPage(d, i) ELSE BufferOf(d.op), at |-> Cell(d, i)]
    IN CASE d.op \in {BufRead(1), BufRead(2)} -> is("read")
         [] d.op \in {BufWrite(1), BufWrite(2)} -> is("write")
         [] d.op = ContArrayRead -> is("flash")
         [] OTHER -> [use |-> "none", of |-> 0, at |-> 0]

Memory == INSTANCE FlashMemory WITH buffers <- df.buf, pages <- df.page, place <- Place(df), answer <- dfAnswer

DataflashInit ==
    /\ df = [cs |-> "high", op |-> None, in |-> 0, adr |-> 0, power |-> "up", status |-> Memory!Same, out |-> Memory!NoAnswer,
             buf |-> [b \in Memory!Buffers |-> Memory!Blank], page |-> [p \in Pages |-> Memory!Blank]]
    /\ dfAnswer = Memory!NoAnswer /\ dfCalls = 0

Shown(d, i) ==
    CASE d.op \in {BufRead(1), BufRead(2)} -> Memory!At(d.buf[BufferOf(d.op)], Cell(d, i))
      [] d.op = ContArrayRead /\ CellPage(d, i) \in Pages -> Memory!At(d.page[CellPage(d, i)], Cell(d, i))
      [] OTHER -> Memory!Unknown

\* one byte is clocked in, and one out
Clock(d, byte) ==
    LET i == d.in - 3 - Fillers(d.op)
        n == [d EXCEPT !.in = @ + 1]
        deaf == d.cs = "high" \/ (d.power = "down" /\ d.op = None /\ byte # ExitDeepPowerdown)
    IN IF deaf THEN d
       ELSE CASE d.op = None -> [d EXCEPT !.op = byte]
              [] d.op = StatusReg -> [n EXCEPT !.out = d.status]
              [] d.op # StatusReg /\ d.op # None /\ d.in < 3 -> [n EXCEPT !.adr = @ * 256 + byte]
              [] d.op \in {BufWrite(1), BufWrite(2)} /\ d.in >= 3 ->
                   [n EXCEPT !.buf[BufferOf(d.op)] = Memory!Put(@, Cell(d, i), byte)]
              [] OTHER -> IF d.in >= 3 + Fillers(d.op) THEN [n EXCEPT !.out = Shown(d, i)] ELSE n

\* it is deselected: what was asked for with a whole address is done
Deselect(d) ==
    LET b == BufferOf(d.op)
        p == PageOf(d.adr)
        asked == d.cs = "low" /\ d.in = 3 /\ p \in Pages
        e == [d EXCEPT !.cs = "high", !.op = None, !.in = 0, !.adr = 0, !.out = Memory!NoAnswer]
    IN CASE asked /\ d.op \in {131, 134} -> [e EXCEPT !.page[p] = d.buf[b]]
         [] asked /\ d.op \in {83, 85} -> [e EXCEPT !.buf[b] = d.page[p]]
         [] asked /\ d.op \in {96, 97} -> [e EXCEPT !.status = IF d.buf[b] = d.page[p] THEN Memory!Same ELSE Memory!Differ]
         [] asked /\ d.op = PageEraseCmd -> [e EXCEPT !.page[p] = Memory!Blank]
         [] d.op = EnterDeepPowerdown -> [e EXCEPT !.power = "down"]
         [] d.op = ExitDeepPowerdown -> [e EXCEPT !.power = "up"]
         [] OTHER -> e

Select(d) == [d EXCEPT !.cs = "low"]

------------------------------------------------------------------------------
\* Forms an error could give the operators below; no action uses them.
NoReset(d) == Select(d)
LowByteOnly(page, at) == <<page \div 128, (page * 2) % 256, at % 256>>

------------------------------------------------------------------------------
\* The library.
DF_reset(d) == Select(Deselect(d))

\* DF_SPI_RW() of every byte
Send(d, bytes) ==
    LET f[i \in 0 .. Len(bytes)] == IF i = 0 THEN d ELSE Clock(f[i - 1], bytes[i]) IN f[Len(bytes)]

Address(page, at) == <<page \div 128, ((page * 2) % 256) + (at \div 256), at % 256>>

ReadDFStatus(d) == Send(DF_reset(d), <<StatusReg, 0>>)

\* the four calls that have the chip do something with a page and wait for it
PageCall(d, op, page) == ReadDFStatus(DF_reset(Send(DF_reset(d), <<op>> \o Address(page, 0))))

Enable(d, op, page, at, fillers) == Send(DF_reset(d), <<op>> \o Address(page, at) \o fillers)

CallsFlash(d, result) == dfCalls < MaxFlashCalls /\ dfCalls' = dfCalls + 1 /\ df' = d /\ dfAnswer' = result

BufferToPage == \E b \in Memory!Buffers, p \in Pages : CallsFlash(PageCall(df, BufToFlashWE(b), p), Memory!NoAnswer)
PageToBuffer == \E b \in Memory!Buffers, p \in Pages : CallsFlash(PageCall(df, FlashToBuf(b), p), Memory!NoAnswer)
PageErase == \E p \in Pages : CallsFlash(PageCall(df, PageEraseCmd, p), Memory!NoAnswer)

PageBufferCompare ==
    \E b \in Memory!Buffers, p \in Pages : LET d == PageCall(df, FlashToBufCompare(b), p) IN CallsFlash(d, d.out)

ContFlashReadEnable ==
    \E p \in Pages, at \in Cells : CallsFlash(Enable(df, ContArrayRead, p, at, <<0, 0, 0, 0>>), Memory!NoAnswer)

BufferReadEnable ==
    \E b \in Memory!Buffers, at \in Cells : CallsFlash(Enable(df, BufRead(b), 0, at, <<0>>), Memory!NoAnswer)

\* BufferReadByte(), and BufferReadStr() of one byte
BufferReadByte ==
    \E b \in Memory!Buffers, at \in Cells :
        LET d == Enable(df, BufRead(b), 0, at, <<0, 0>>) IN CallsFlash(d, d.out)

\* BufferWriteEnable(), BufferWriteByte() and BufferWriteStr()
BufferWrite ==
    \E b \in Memory!Buffers, at \in Cells, data \in {<<>>} \cup {<<x>> : x \in Data} \cup {<<x, x>> : x \in Data} :
        CallsFlash(Enable(df, BufWrite(b), 0, at, data), Memory!NoAnswer)

\* what they are for: after a call that enables reading or writing
ReadNextByte ==
    /\ df.op \in {BufRead(1), BufRead(2), ContArrayRead}
    /\ LET d == Send(df, <<0>>) IN CallsFlash(d, d.out)

WriteNextByte == df.op \in {BufWrite(1), BufWrite(2)} /\ \E x \in Data : CallsFlash(Send(df, <<x>>), Memory!NoAnswer)

Activate == CallsFlash(Select(df), Memory!NoAnswer)
Deactivate == CallsFlash(Deselect(df), Memory!NoAnswer)

EnterDeepPowerDown == df.cs = "high" /\ CallsFlash(Deselect(Send(Select(df), <<EnterDeepPowerdown>>)), Memory!NoAnswer)
ExitDeepPowerDown == df.cs = "high" /\ CallsFlash(Deselect(Send(Select(df), <<ExitDeepPowerdown>>)), Memory!NoAnswer)

DataflashNext ==
    \/ df.power = "up" /\ (\/ BufferToPage \/ PageToBuffer \/ PageErase \/ PageBufferCompare
                      \/ ContFlashReadEnable \/ BufferReadEnable \/ BufferReadByte \/ BufferWrite
                      \/ ReadNextByte \/ WriteNextByte \/ Activate \/ Deactivate \/ EnterDeepPowerDown)
    \/ df.power = "down" /\ ExitDeepPowerDown

DataflashSpec == DataflashInit /\ [][DataflashNext]_dfVars

------------------------------------------------------------------------------
\* Seen through the chip's commands, a call does to the buffers and the pages what
\* FlashMemory says it may.
FlashStep == Memory!MemNext \/ UNCHANGED Memory!memVars
=============================================================================
