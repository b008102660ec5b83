-------------------------------- MODULE Eeprom --------------------------------
(***************************************************************************)
(* EEPROM.h: single cells, with the operators of EERef, and objects of     *)
(* several cells, a cell at a time.  The power may fail at any moment; it  *)
(* leaves a cell that is being written with any value.                     *)
(***************************************************************************)
EXTENDS Integers, Sequences

CONSTANTS
    Length,     \* of the EEPROM, in cells
    CellBits,   \* of a cell, 8 in the chip
    MaxObject   \* bound: the size of an object

ASSUME EepromAssumption == Length \in Nat

VARIABLES
    cells,      \* what the EEPROM holds
    transfer,     \* the put(), get() or single write in progress
    due         \* what a sketch counts on: the last value of a cell, nothing if it was cut off

eepromVars == <<cells, transfer, due>>

Addresses == 0 .. Length - 1
CellValues == 0 .. 2 ^ CellBits - 1
Lost == -1

NoAccess == [kind |-> "none", index |-> 0, bytes |-> <<>>, count |-> 0]
EepromInit == cells = [c \in Addresses |-> 2 ^ CellBits - 1] /\ due = cells /\ transfer = NoAccess

------------------------------------------------------------------------------
\* Forms an error could give the operators below; no action uses them.
EveryCell(value, c) == TRUE

\* EERef::update(): only a cell that differs is written
Differs(value, c) == value # cells[c]

\* EEPtr: the cell of a pass, which starts with count of the object's size to go
At(from, count, size) == from + (size - count)

ThisCell == At(transfer.index, transfer.count, Len(transfer.bytes))
Byte == transfer.bytes[Len(transfer.bytes) - transfer.count + 1]

\* The operators of EERef: what becomes of a cell that held v
Operations == {"=", "+=", "-=", "*=", "/=", "%=", "^=", "&=", "|=", "<<=", ">>=", "++", "--"}
Result(op, v, in) ==
    LET w == 2 ^ CellBits
        bit(n, i) == (n \div 2 ^ i) % 2
        bits(f(_, _)) == LET sum[i \in 0 .. CellBits] ==
                                IF i = 0 THEN 0 ELSE sum[i - 1] + 2 ^ (i - 1) * f(bit(v, i - 1), bit(in, i - 1))
                         IN sum[CellBits]
    IN CASE op = "=" -> in
         [] op = "+=" -> (v + in) % w
         [] op = "-=" -> (v - in) % w
         [] op = "*=" -> (v * in) % w
         [] op = "/=" -> v \div in
         [] op = "%=" -> v % in
         [] op = "<<=" -> (v * 2 ^ in) % w
         [] op = ">>=" -> v \div 2 ^ in
         [] op = "^=" -> bits(LAMBDA a, b : (a + b) % 2)
         [] op = "&=" -> bits(LAMBDA a, b : a * b)
         [] op = "|=" -> bits(LAMBDA a, b : a + b - a * b)
         [] op = "++" -> (v + 1) % w
         [] op = "--" -> (v - 1) % w

------------------------------------------------------------------------------
Fits(index, size) == index + size <= Length

put == transfer = NoAccess /\ UNCHANGED <<cells, due>> /\
    \E index \in Addresses, size \in 1 .. MaxObject : Fits(index, size) /\
        \E bytes \in [1 .. size -> CellValues] :
            transfer' = [kind |-> "put", index |-> index, bytes |-> bytes, count |-> size]

\* write() and the operators, which write whatever the cell held
write == transfer = NoAccess /\ UNCHANGED <<cells, due>> /\
    \E index \in Addresses, op \in Operations, in \in CellValues : (op \in {"/=", "%="} => in > 0) /\
        transfer' = [kind |-> "write", index |-> index, bytes |-> <<Result(op, cells[index], in)>>, count |-> 1]

get == transfer = NoAccess /\ UNCHANGED <<cells, due>> /\
    \E index \in Addresses, size \in 1 .. MaxObject : Fits(index, size) /\
        transfer' = [kind |-> "get", index |-> index, bytes |-> [i \in 1 .. size |-> 0], count |-> size]

Writing == transfer.kind = "write" \/ (transfer.kind = "put" /\ Differs(Byte, ThisCell))

\* A pass over one cell
PutPass ==
    /\ transfer.kind \in {"put", "write"} /\ transfer.count > 0
    /\ cells' = IF Writing THEN [cells EXCEPT ![ThisCell] = Byte] ELSE cells
    /\ due' = [due EXCEPT ![transfer.index + Len(transfer.bytes) - transfer.count] = Byte]
    /\ transfer' = [transfer EXCEPT !.count = @ - 1]

GetPass ==
    /\ transfer.kind = "get" /\ transfer.count > 0
    /\ transfer' = [transfer EXCEPT !.bytes[Len(transfer.bytes) - transfer.count + 1] = cells[ThisCell], !.count = @ - 1]
    /\ UNCHANGED <<cells, due>>

CallEnds == transfer # NoAccess /\ transfer.count = 0 /\ transfer' = NoAccess /\ UNCHANGED <<cells, due>>

\* The sketch starts again, and does not know what it was about
PowerFails ==
    /\ transfer # NoAccess /\ transfer' = NoAccess
    /\ IF transfer.count > 0 /\ transfer.kind # "get" /\ Writing
       THEN /\ \E v \in CellValues : cells' = [cells EXCEPT ![ThisCell] = v]
            \* (nothing is written of what is there already)
            /\ due' = [due EXCEPT ![ThisCell] = IF transfer.kind = "put" /\ Byte = @ THEN @ ELSE Lost]
       ELSE UNCHANGED <<cells, due>>

EepromNext == put \/ write \/ get \/ PutPass \/ GetPass \/ CallEnds \/ PowerFails

EepromSpec == EepromInit /\ [][EepromNext]_eepromVars

------------------------------------------------------------------------------
\* A cell holds the last value that it was given, whatever was put around it and
\* wherever power failed: that damages the one cell that was being written, and of
\* what put() finds as it is to be not even that ("update ... in != *this",
\* EEPROM.h:59,137-142).
CellsKept == \A c \in Addresses : due[c] \in {cells[c], Lost}

\* get() gives an object as it was put(), each byte in its place (EEPROM.h:130-142).
ObjectComesBack ==
    transfer.kind = "get" /\ transfer.count = 0 =>
        \A i \in DOMAIN transfer.bytes : due[transfer.index + i - 1] \in {transfer.bytes[i], Lost}
=============================================================================
