------------------------------- MODULE SdCard -------------------------------
(***************************************************************************)
(* Sd2Card.cpp: the driver of the SD card, on a bus that others use too.   *)
(* A call is a list of steps (module Spi); one that fails goes to the end  *)
(* of its function, where most, but not all, release the card.  Compiled   *)
(* with USE_SPI_LIB.                                                       *)
(*                                                                         *)
(* With partial block reads, and after a writeStart() or writeData() that  *)
(* did not fail, the card stays selected and the transaction open from one *)
(* call to the next.  A sketch goes on with writeData() or writeStop(),    *)
(* which do not look whether that is so.                                   *)
(***************************************************************************)
EXTENDS Spi

CONSTANTS
    BlockSize,  \* 512 in the code
    Blocks      \* bound: the blocks a sketch reads and writes

ASSUME SdCardAssumption == BlockSize \in Nat \ {0}

CrcSize == 2

VARIABLES
    inBlock_, partialBlockRead_, block_, offset_,
    chip_select_asserted, selected, \* a static variable, and the pin itself
    card,       \* the card: what it is sending, and how far it is
    stream,     \* history: of a multiple block write (see Streams)
    fetched     \* history: the bytes the last readData() was to get and those it got

cardVars == <<inBlock_, partialBlockRead_, block_, offset_, chip_select_asserted, selected, card, fetched>>
sdVars == <<cardVars, stream>>
driverVars == <<inBlock_, partialBlockRead_, block_, offset_>>
busCardVars == <<spiVars, sdVars>>

Resting == [block |-> 0, pos |-> BlockSize + CrcSize]   \* nothing left to send
Nothing == [want |-> <<>>, got |-> <<>>]

\* A multiple block write waits for its next call, or a call of it has begun that
\* no successful one came before, or neither.
Streams == {"none", "open", "late"}

SdCardInit ==
    /\ SpiInit
    /\ inBlock_ = FALSE /\ partialBlockRead_ = FALSE /\ block_ = 0 /\ offset_ = 0
    /\ chip_select_asserted = FALSE /\ selected = FALSE /\ card = Resting
    /\ stream = "none" /\ fetched = Nothing

------------------------------------------------------------------------------
\* Forms an error could give the operators below; no action uses them.
LeaveSelected == <<>>
SkipOneShort(c, n) == [c EXCEPT !.pos = @ + n - 1]
NoLow == <<"readEnd", "command">>

------------------------------------------------------------------------------
\* chipSelectHigh() and chipSelectLow()
High ==
    /\ selected' = FALSE /\ chip_select_asserted' = FALSE
    /\ IF chip_select_asserted THEN endTransaction ELSE UNCHANGED <<intVars, interruptSave, depth, misused>>

Low ==
    /\ selected' = TRUE /\ chip_select_asserted' = TRUE
    /\ IF chip_select_asserted THEN UNCHANGED <<intVars, interruptSave, depth, misused>> ELSE beginTransaction

\* n bytes are clocked out of the card
Clocked(c, n) == [c EXCEPT !.pos = @ + n]

\* the step goes on, or the function fails
Fail == <<"high">>
Fails(op) == Next(op) \/ (todo # <<>> /\ Head(todo) = op /\ todo' = Fail)

quietVars == <<modeVars, intFunc, arg, wantVars, disturbed, stream>>
busVars == <<intVars, interruptSave, depth, misused>>

\* readEnd(): the rest of the block and its checksum.  readData() calls it when
\* it is done, but for a partial read that has not reached the end of the block.
readEnd ==
    /\ \/ Next("readEnd")
       \/ Next("readEndIfDone")
    /\ IF inBlock_ /\ (Head(todo) = "readEnd" \/ ~partialBlockRead_ \/ offset_ >= BlockSize)
       THEN /\ card' = IF selected THEN Clocked(card, BlockSize + CrcSize - offset_) ELSE card
            /\ offset_' = BlockSize + CrcSize /\ inBlock_' = FALSE /\ High
       ELSE UNCHANGED <<busVars, card, offset_, inBlock_, selected, chip_select_asserted>>
    /\ fetched' = Nothing
    /\ UNCHANGED <<quietVars, partialBlockRead_, block_>>

ChipSelect ==
    /\ \/ Next("high") /\ High
       \/ Next("low") /\ Low
    /\ arg' = IF todo' = <<>> THEN NoArg ELSE arg
    /\ UNCHANGED <<modeVars, intFunc, wantVars, disturbed, driverVars, card, stream, fetched>>

\* Commands, waitNotBusy(), writeData() and the registers, which the card may
\* refuse or let time out; a command with more steps to come opens a block.
Exchange ==
    /\ Fails("command") \/ Fails("wait") \/ Fails("data") \/ Next("ignored")
    /\ UNCHANGED <<quietVars, busVars, sdVars>>

\* waitStartBlock(), which releases the card itself when it fails
StartBlock ==
    /\ todo # <<>> /\ Head(todo) = "start"
    /\ \/ /\ todo' = Tail(todo) /\ inBlock_' = TRUE /\ offset_' = 0
          /\ card' = [block |-> block_, pos |-> 0]
          /\ UNCHANGED <<busVars, selected, chip_select_asserted>>
       \/ todo' = Fail /\ High /\ UNCHANGED <<inBlock_, offset_, card>>
    /\ UNCHANGED <<quietVars, partialBlockRead_, block_, fetched>>

\* readData() clocks out what lies before the offset and takes the bytes
Take ==
    LET skipped == IF offset_ < arg.offset THEN arg.offset - offset_ ELSE 0
        n == skipped + arg.count
    IN /\ Next("take")
       /\ fetched' = [want |-> <<arg.block, arg.offset>>,
                    got |-> IF selected THEN <<card.block, card.pos + skipped>> ELSE <<>>]
       /\ card' = IF selected THEN Clocked(card, n) ELSE card
       /\ offset_' = offset_ + n /\ arg' = NoArg
       /\ UNCHANGED <<modeVars, intFunc, wantVars, disturbed, busVars, inBlock_, partialBlockRead_, block_, selected, chip_select_asserted, stream>>

------------------------------------------------------------------------------
Done == <<"high">>
Command == <<"readEnd", "low", "command">>
Acmd == <<"readEnd", "low", "ignored">> \o Command
Register == Command \o <<"startRegister", "transfer", "high">>

Start(steps, a) ==
    /\ Call(steps, a)
    /\ UNCHANGED <<intVars, modeVars, interruptSave, intFunc, depth, wantVars, disturbed>>

\* a range of bytes that does not lie in one block fails, and leaves inBlock_.
\* The sketch calls nothing else between a writeStart() and its writeStop().
readData(block, offset, count) ==
    LET a == [NoArg EXCEPT !.block = block, !.offset = offset, !.count = count]
        past == offset + count > BlockSize
    IN /\ CASE past -> Start(Fail, a) /\ UNCHANGED block_
            [] ~past /\ inBlock_ /\ block = block_ /\ offset >= offset_ ->
                  Start(<<"take", "readEndIfDone">>, a) /\ UNCHANGED block_
            [] OTHER -> Start(Command \o <<"start", "take", "readEndIfDone">>, a) /\ block_' = block
       /\ misused' = (misused \/ stream = "open" \/ (past /\ inBlock_))
       /\ stream' = "none" /\ fetched' = Nothing
       /\ UNCHANGED <<inBlock_, partialBlockRead_, offset_, chip_select_asserted, selected, card>>

\* writeBlock(), erase(), cardSize() with the other reads of a register, and
\* partialBlockRead(); block 0 may not be written
otherCall ==
    /\ \E steps \in {Command \o <<"data", "wait">> \o Command \o Done, Fail,
                     Register \o Command \o Command \o Command \o <<"wait">> \o Done, Register,
                     <<"readEnd", "setPartial">>} :
          /\ Start(steps, NoArg)
          /\ misused' = (misused \/ stream = "open" \/ (steps = Fail /\ inBlock_))
    /\ stream' = "none" /\ UNCHANGED cardVars

\* Three calls write blocks in a row.  The first two keep the bus when they are
\* done; block 0 may not be written.
writeStart ==
    /\ \E steps \in {Acmd \o Command \o <<"opened">>, Fail} :
          /\ Start(steps, NoArg)
          /\ misused' = (misused \/ stream = "open" \/ (steps = Fail /\ inBlock_))
    /\ stream' = "none" /\ UNCHANGED cardVars

GoOn(steps) ==
    /\ Start(steps, NoArg)
    /\ misused' = (misused \/ inBlock_)
    /\ stream' = IF stream = "open" THEN "none" ELSE "late"
    /\ UNCHANGED cardVars

writeData == GoOn(<<"wait", "data", "opened">>)
writeStop == GoOn(<<"wait", "transfer", "wait">> \o Done)

\* A call of them ends without releasing the card.  A late one has not selected
\* it: what it read was nobody's.
Opened ==
    /\ Next("opened") /\ stream' = IF stream = "late" THEN "late" ELSE "open"
    /\ UNCHANGED <<modeVars, intFunc, arg, wantVars, disturbed, busVars, cardVars>>

StartRegister ==
    /\ todo # <<>> /\ Head(todo) = "startRegister"
    /\ \/ todo' = Tail(todo) /\ UNCHANGED <<busVars, selected, chip_select_asserted>>
       \/ todo' = Fail /\ High
    /\ UNCHANGED <<quietVars, driverVars, card, fetched>>

SetPartial ==
    /\ Next("setPartial") /\ partialBlockRead_' = ~partialBlockRead_
    /\ UNCHANGED <<quietVars, busVars, inBlock_, block_, offset_, chip_select_asserted, selected, card, fetched>>

\* init() makes the pin high but keeps chip_select_asserted as it is
init ==
    /\ Start(<<"begin", "transfer", "end", "low">> \o Command \o Acmd \o Command \o Done, NoArg)
    /\ inBlock_' = FALSE /\ partialBlockRead_' = FALSE /\ selected' = FALSE
    /\ misused' = (misused \/ chip_select_asserted)
    /\ card' = Resting /\ stream' = "none"
    /\ UNCHANGED <<block_, offset_, chip_select_asserted, fetched>>

SdCardNext ==
    \/ readEnd \/ ChipSelect \/ Exchange \/ StartBlock \/ StartRegister \/ Take \/ SetPartial \/ Opened
    \/ \E block \in Blocks, offset, count \in 0 .. BlockSize : count > 0 /\ readData(block, offset, count)
    \/ otherCall \/ writeStart \/ writeData \/ writeStop \/ init
    \/ SpiNext /\ UNCHANGED sdVars

\* what follows once a sketch has done what it should not is of no interest
SdCardSpec == SdCardInit /\ [][~misused /\ SdCardNext]_busCardVars

------------------------------------------------------------------------------
\* A call gives the bus back, whatever step of it fails, with the card released
\* and nothing left to send.  Only a partial read, and a writeStart() or a
\* writeData() that succeeds, keep it, and then the transaction is open and the
\* card selected.
CardReleased ==
    todo = <<>> /\ ~misused =>
        /\ selected = chip_select_asserted /\ selected = (depth > 0)
        /\ selected = (inBlock_ \/ stream = "open") /\ ~(inBlock_ /\ stream = "open")
        /\ ~inBlock_ => card.pos = BlockSize + CrcSize

\* readData() gets the bytes of the block and offset it was asked for, also when
\* the card goes on from an earlier call.
ReadIsRight == ~misused => fetched.want = fetched.got

\* The driver clocks the bus in a transaction only, so that no handler comes
\* between its bytes.  Except that a writeData() or writeStop() without a
\* writeStart() before it, or after a call of the write that failed and so
\* released the card, does it without.
Clocking == {"command", "ignored", "wait", "data", "start", "startRegister", "take", "transfer"}

ClockedInside ==
    ~misused /\ todo # <<>> /\ Head(todo) \in Clocking => depth > 0 \/ stream = "late"

\* A call of the card's driver gives the bus back, uses it in a transaction, and
\* reads what was asked for.
CardKept == CardReleased /\ ClockedInside /\ ReadIsRight
=============================================================================
