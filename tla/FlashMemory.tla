---------------------------- MODULE FlashMemory ----------------------------
(***************************************************************************)
(* What the calls of the Butterfly's data flash library come to, without   *)
(* their bytes and commands: two buffers and the pages of a flash, copied  *)
(* one into the other, and a place where reading or writing goes on byte   *)
(* by byte.                                                                *)
(*                                                                         *)
(* It is what the opcodes that the library sends do in the chip, and so    *)
(* not all that the library's comments say: ButterflyDataflash.cpp:441-442 *)
(* has a read of the flash return to the start of its page, but the opcode *)
(* is the continuous read, which takes the next page; and line 705 has a   *)
(* comparison answer 1, but the code answers bit 6 of the status, 64.      *)
(***************************************************************************)
EXTENDS Naturals

CONSTANTS
    PageSize,   \* 264 bytes in the chip
    Cells,      \* bound: the offsets within a page whose bytes are followed
    Pages,      \* bound: the pages used
    Data        \* bound: the bytes written

VARIABLES
    buffers, pages, \* what is stored, by cell
    place,          \* where the next byte is read or written
    answer          \* what the last call returned

memVars == <<buffers, pages, place, answer>>

Buffers == {1, 2}
Erased == 255
Blank == [cell \in Cells |-> Erased]
NoAnswer == 300    \* of a call that returns nothing
Unknown == 301     \* the byte of a cell that is not followed
Same == 0
Differ == 64
Nowhere == [use |-> "none", of |-> 0, at |-> 0]

At(memory, cell) == IF cell \in Cells THEN memory[cell] ELSE Unknown
Put(memory, cell, d) == [c \in Cells |-> IF c = cell THEN d ELSE memory[c]]

\* a buffer begins again at its end; a read of the flash goes on into the next of its 2048
\* pages (the comment at ButterflyDataflash.cpp:441 says: begins again in the same)
Further(p) ==
    LET last == p.at = PageSize - 1
    IN [use |-> p.use, of |-> IF last /\ p.use = "flash" THEN (p.of + 1) % 2048 ELSE p.of,
        at |-> IF last THEN 0 ELSE p.at + 1]

Under(p) ==
    CASE p.use = "read" -> At(buffers[p.of], p.at)
      [] p.use = "flash" /\ p.of \in Pages -> At(pages[p.of], p.at)
      [] OTHER -> Unknown

MemInit ==
    /\ buffers = [b \in Buffers |-> Blank] /\ pages = [p \in Pages |-> Blank]
    /\ place = Nowhere /\ answer = NoAnswer

Point(use, of, at) ==
    /\ place' = [use |-> use, of |-> of, at |-> at]
    /\ answer' = NoAnswer /\ UNCHANGED <<buffers, pages>>

Read == place.use \in {"read", "flash"} /\ answer' = Under(place) /\ place' = Further(place) /\ UNCHANGED <<buffers, pages>>

Write(d) ==
    /\ place.use = "write"
    /\ buffers' = [buffers EXCEPT ![place.of] = Put(@, place.at, d)]
    /\ place' = Further(place) /\ answer' = NoAnswer /\ UNCHANGED pages

ReadAt(b, at) ==
    /\ answer' = At(buffers[b], at) /\ place' = Further([use |-> "read", of |-> b, at |-> at])
    /\ UNCHANGED <<buffers, pages>>

\* writing two bytes leaves each where one at a time would have
WriteAt(b, at, d, n) ==
    LET first == [use |-> "write", of |-> b, at |-> at]
        second == Further(first)
        one == Put(buffers[b], first.at, d)
    IN /\ buffers' = [buffers EXCEPT ![b] = IF n = 1 THEN one ELSE Put(one, second.at, d)]
       /\ place' = (IF n = 1 THEN second ELSE Further(second)) /\ answer' = NoAnswer /\ UNCHANGED pages

Copy(b, p) == pages' = [pages EXCEPT ![p] = buffers[b]] /\ place' = Nowhere /\ answer' = NoAnswer /\ UNCHANGED buffers
Load(b, p) == buffers' = [buffers EXCEPT ![b] = pages[p]] /\ place' = Nowhere /\ answer' = NoAnswer /\ UNCHANGED pages
Erase(p) == pages' = [pages EXCEPT ![p] = Blank] /\ place' = Nowhere /\ answer' = NoAnswer /\ UNCHANGED buffers

\* the comparison answers 0 or, where line 705 of the comment says 1, the status bit
Compare(b, p) ==
    /\ answer' = (IF buffers[b] = pages[p] THEN Same ELSE Differ)
    /\ place' = Nowhere /\ UNCHANGED <<buffers, pages>>

Rest == answer' = NoAnswer /\ UNCHANGED <<buffers, pages, place>>
Stop == place' = Nowhere /\ answer' = NoAnswer /\ UNCHANGED <<buffers, pages>>

MemNext ==
    \/ \E b \in Buffers, at \in Cells :
          \/ Point("read", b, at) \/ Point("write", b, at) \/ ReadAt(b, at)
          \/ \E d \in Data, n \in 1 .. 2 : WriteAt(b, at, d, n)
    \/ \E p \in Pages, at \in Cells : Point("flash", p, at)
    \/ Read \/ Rest \/ Stop \/ \E d \in Data : Write(d)
    \/ \E b \in Buffers, p \in Pages : Copy(b, p) \/ Load(b, p) \/ Compare(b, p)
    \/ \E p \in Pages : Erase(p)

MemSpec == MemInit /\ [][MemNext]_memVars
=============================================================================
