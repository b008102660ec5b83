------------------------------ MODULE SdVolume ------------------------------
(***************************************************************************)
(* The FAT volume of the SD library: the one block cache every access      *)
(* goes through, the file allocation table behind it, its second copy.     *)
(*                                                                         *)
(* A call of the library is a computation on a machine m:                  *)
(*   card    what each block of the card holds                             *)
(*   cb, buf, dirty, mirror, alloc                                         *)
(*           cacheBlockNumber_, cacheBuffer_, cacheDirty_,                 *)
(*           cacheMirrorBlock_, allocSearchStart_                          *)
(*   fail    which of the next transfers of a block the card refuses       *)
(*           (0: none), late: a refused write has changed the block        *)
(*   ok      FALSE from the first return of a failure on: no operator      *)
(*           below does anything then, as the code returns                 *)
(*   val     what the last function gave back through a pointer            *)
(*   f, d    the SdFile the call is about, the directory it is given       *)
(* A block holds BlockSize units; a unit is an entry of a directory, or as *)
(* much of the data of a file.                                             *)
(***************************************************************************)
EXTENDS Integers, Sequences

CONSTANTS BlockSize,         \* units in a block
          BlocksPerCluster,  \* blocksPerCluster_
          LastCluster,       \* the clusters are 2..LastCluster
          PerFat             \* FAT entries in a block

ASSUME GeometryAssumption ==
    /\ {BlockSize, BlocksPerCluster, PerFat} \subseteq Nat \ {0}
    /\ LastCluster \in Nat /\ LastCluster >= 2

EOC == LastCluster + 2                          \* any end-of-chain mark
FatBlocks == (LastCluster \div PerFat) + 1      \* blocksPerFat_
FatBlock(c) == 1 + (c \div PerFat)
Root == 2 * FatBlocks + 1                       \* rootDirStart_: one block
clusterStartBlock(c) == Root + 1 + (c - 2) * BlocksPerCluster
Blocks == 0 .. clusterStartBlock(LastCluster) + BlocksPerCluster - 1
NoBlock == clusterStartBlock(EOC)               \* 0XFFFFFFFF

Unit(n) == [name |-> n, dir |-> FALSE, first |-> 0, size |-> 0]
None == Unit("free")
Zero == [i \in 1..BlockSize |-> None]
-----------------------------------------------------------------------------
Failed(m) == [m EXCEPT !.ok = FALSE]
Check(m, cond) == IF cond THEN m ELSE Failed(m)

(* Go on with F from where m stopped, unless it has failed.                *)
Do(m, F(_)) == IF m.ok THEN F(m) ELSE m

(* Whether the card takes part in the transfer: the count down to the one  *)
(* it refuses, and an address that is no block of it.                      *)
Transfer(m, b) ==
    [m EXCEPT !.ok = @ /\ b \in Blocks /\ m.fail # 1,
              !.fail = IF @ = 0 \/ ~m.ok THEN @ ELSE @ - 1]

writeBlock(m, b, c) ==
    IF m.ok /\ b \in Blocks /\ (m.fail # 1 \/ m.late)
    THEN [Transfer(m, b) EXCEPT !.card[b] = c]
    ELSE Transfer(m, b)

(* Forms an error could give the operators below; no action uses them.     *)
cacheFlushDropped(m) ==
    IF ~m.dirty THEN m
    ELSE IF m.mirror = 0 THEN writeBlock([m EXCEPT !.dirty = FALSE], m.cb, m.buf)
    ELSE writeBlock(writeBlock([m EXCEPT !.mirror = 0, !.dirty = FALSE], m.cb, m.buf),
                    m.mirror, m.buf)

cacheFlush(m) ==
    IF ~m.dirty THEN m
    ELSE Do(IF m.mirror = 0 THEN writeBlock(m, m.cb, m.buf)
            ELSE writeBlock(writeBlock(m, m.cb, m.buf), m.mirror, m.buf),
            LAMBDA x : [x EXCEPT !.mirror = 0, !.dirty = FALSE])

cacheRawBlock(m, b, action) ==
    Do(m, LAMBDA x :
        IF x.cb = b THEN [x EXCEPT !.dirty = @ \/ action]
        ELSE Do(Transfer(cacheFlush(x), b),
                LAMBDA y : [y EXCEPT !.buf = y.card[b], !.cb = b, !.dirty = action]))

cacheZeroBlock(m, b) ==
    Do(cacheFlush(m), LAMBDA x : [x EXCEPT !.buf = Zero, !.cb = b, !.dirty = TRUE])

fatGet(m, c) ==
    Do(cacheRawBlock(Check(m, c <= LastCluster), FatBlock(c), FALSE),
       LAMBDA x : [x EXCEPT !.val = x.buf[c]])

fatPutOnce(m, c, v) ==
    Do(cacheRawBlock(Check(m, c \in 2..LastCluster), FatBlock(c), FALSE),
       LAMBDA x : [x EXCEPT !.buf[c] = v, !.dirty = TRUE])

fatPut(m, c, v) ==
    Do(cacheRawBlock(Check(m, c \in 2..LastCluster), FatBlock(c), FALSE),
       LAMBDA x : [x EXCEPT !.buf[c] = v, !.dirty = TRUE, !.mirror = FatBlock(c) + FatBlocks])

freeFirst(m, c) == fatPut(fatGet(m, c), c, 0)

RECURSIVE freeChain(_, _)
freeChain(m, c) ==
    Do(fatGet([m EXCEPT !.alloc = IF m.ok THEN 2 ELSE @], c), LAMBDA x :
        Do(fatPut(x, c, 0), LAMBDA y : IF x.val = EOC THEN y ELSE freeChain(y, x.val)))

(* The clusters of a chain, as chainSize() counts them, in m.val.          *)
RECURSIVE chainSize(_, _, _)
chainSize(m, c, n) ==
    Do(fatGet(m, c), LAMBDA x :
        IF x.val = EOC THEN [x EXCEPT !.val = n + 1] ELSE chainSize(x, x.val, n + 1))

(* The search of allocContiguous() for count free clusters in a row: n     *)
(* clusters looked at, the row starts at bgn and the next one is end.      *)
RECURSIVE Search(_, _, _, _, _)
Search(m, n, bgn, end, count) ==
    IF end > LastCluster /\ n < LastCluster - 1 THEN Search(m, n, 2, 2, count)
    ELSE Do(fatGet(Check(m, n < LastCluster - 1), end), LAMBDA x :
            IF x.val # 0 THEN Search(x, n + 1, end + 1, end + 1, count)
            ELSE IF end - bgn + 1 = count THEN [x EXCEPT !.val = bgn]
            ELSE Search(x, n + 1, bgn, end + 1, count))

RECURSIVE Link(_, _, _)
Link(m, bgn, end) == IF end > bgn THEN Link(fatPut(m, end - 1, end), bgn, end - 1) ELSE m

allocContiguous(m, count, cur) ==
    LET start == IF cur # 0 THEN cur + 1 ELSE m.alloc
        Join(x, c) == IF cur # 0 THEN fatPut(x, cur, c) ELSE x
        Took(x, c) == [x EXCEPT !.val = c, !.alloc = IF cur = 0 /\ count = 1 THEN c + 1 ELSE @]
    IN  Do(Search(m, 0, start, start, count), LAMBDA x :
            Do(Join(Link(fatPut(x, x.val + count - 1, EOC), x.val, x.val + count - 1), x.val),
               LAMBDA y : Took(y, x.val)))
=============================================================================
