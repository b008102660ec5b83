------------------------------- MODULE SdFile -------------------------------
(***************************************************************************)
(* Files and directories of the SD library, as computations on the machine *)
(* of SdVolume. h names one of its SdFile objects: "f", the one the call   *)
(* is about, or "d", the directory it is given.                            *)
(***************************************************************************)
EXTENDS SdVolume, SequencesExt

CONSTANTS HasClock,  \* a dateTimeCallback() is installed
          Stale      \* a byte of the cache that was there before

Closed == [type |-> "closed", flags |-> {}, first |-> 0, size |-> 0, pos |-> 0, cur |-> 0,
           blk |-> 0, idx |-> 0]
openRoot == [Closed EXCEPT !.type = "root", !.flags = {"READ"}, !.size = BlockSize]
ClusterSize == BlockSize * BlocksPerCluster

isOpen(s) == s.type # "closed"
isDir(s) == s.type \in {"root", "dir"}

Entry(m, h) == m.buf[m[h].idx + 1]
PutEntry(m, h, e) ==
    IF m.ok THEN [m EXCEPT !.buf[m[h].idx + 1] = e, !.dirty = TRUE] ELSE m
(* A step on the fields of the SdFile alone.                               *)
Upd(m, h, F(_)) == IF m.ok THEN [m EXCEPT ![h] = F(@)] ELSE m
Dirty(s) == [s EXCEPT !.flags = @ \cup {"DIRTY"}]
Rewound(s) == [s EXCEPT !.pos = 0, !.cur = 0]
-----------------------------------------------------------------------------
addCluster(m, h) ==
    Do(allocContiguous(m, 1, m[h].cur), LAMBDA x :
        Upd(x, h, LAMBDA s : IF s.first # 0 THEN [s EXCEPT !.cur = x.val]
                             ELSE Dirty([s EXCEPT !.cur = x.val, !.first = x.val])))

addDirCluster(m, h) ==
    Upd(FoldLeft(LAMBDA x, i : Do(x, LAMBDA y :
                     cacheZeroBlock(y, clusterStartBlock(y[h].cur) + BlocksPerCluster - i)),
                 addCluster(m, h), [i \in 1..BlocksPerCluster |-> i]),
        h, LAMBDA s : [s EXCEPT !.size = @ + ClusterSize])

cacheDirEntry(m, h, action) == cacheRawBlock(m, m[h].blk, action)

sync(m, h) ==
    Do(Check(m, isOpen(m[h])), LAMBDA x :
        cacheFlush(
            IF "DIRTY" \notin x[h].flags THEN x
            ELSE Do(cacheDirEntry(x, h, TRUE), LAMBDA y :
                    Upd(PutEntry(y, h, [Entry(y, h) EXCEPT
                                          !.size = IF isDir(y[h]) THEN @ ELSE y[h].size,
                                          !.first = y[h].first]),
                        h, LAMBDA s : [s EXCEPT !.flags = @ \ {"DIRTY"}]))))

close(m, h) == Upd(sync(m, h), h, LAMBDA s : [s EXCEPT !.type = "closed"])

(* Walk n links of the chain; what was walked stays in curCluster_.        *)
RECURSIVE Follow(_, _, _)
Follow(m, h, n) ==
    IF n = 0 THEN m
    ELSE Do(fatGet(m, m[h].cur), LAMBDA x : Follow([x EXCEPT ![h].cur = x.val], h, n - 1))

seekSet(m, h, p) ==
    LET nCur == (m[h].pos - 1) \div ClusterSize
        nNew == (p - 1) \div ClusterSize
        back == nNew < nCur \/ m[h].pos = 0
    IN  Do(Check(m, isOpen(m[h]) /\ p <= m[h].size), LAMBDA x :
            IF p = 0 /\ x[h].type # "root" THEN [x EXCEPT ![h] = Rewound(@)]
            ELSE Upd(IF x[h].type = "root" THEN x
                     ELSE IF back THEN Follow([x EXCEPT ![h].cur = x[h].first], h, nNew)
                     ELSE Follow(x, h, nNew - nCur),
                     h, LAMBDA s : [s EXCEPT !.pos = p]))

BlockAt(s) ==
    IF s.type = "root" THEN Root + (s.pos \div BlockSize)
    ELSE clusterStartBlock(s.cur) + ((s.pos \div BlockSize) % BlocksPerCluster)

(* A form an error could give the operator below; no action uses it.       *)
NextClusterKept(m, h) ==
    IF m[h].type = "root" \/ m[h].pos % ClusterSize # 0 \/ m[h].cur # 0 THEN m
    ELSE [m EXCEPT ![h].cur = m[h].first]

(* At the start of a cluster read() finds which.                           *)
NextCluster(m, h) ==
    IF m[h].type = "root" \/ m[h].pos % ClusterSize # 0 THEN m
    ELSE IF m[h].pos = 0 THEN [m EXCEPT ![h].cur = m[h].first]
    ELSE Do(fatGet(m, m[h].cur), LAMBDA x : [x EXCEPT ![h].cur = x.val])

(* The rest of block b, at most n units from o on, for n units: k of them. *)
Part(n, o) == IF n > BlockSize - o THEN BlockSize - o ELSE n

(* read(): n units, appended to got. A whole block that is not in the      *)
(* cache is read past it.                                                  *)
RECURSIVE ReadLoop(_, _, _)
ReadLoop(m, h, n) ==
    LET Block(x, b, o, k) ==
            IF k = BlockSize /\ b # x.cb
            THEN Do(Transfer(x, b), LAMBDA y : [y EXCEPT !.got = @ \o y.card[b]])
            ELSE Do(cacheRawBlock(x, b, FALSE),
                    LAMBDA y : [y EXCEPT !.got = @ \o SubSeq(y.buf, o + 1, o + k)])
        Step(x, o, k) ==
            Do(Block(x, BlockAt(x[h]), o, k),
               LAMBDA y : ReadLoop([y EXCEPT ![h].pos = @ + k], h, n - k))
    IN  IF n = 0 THEN m
        ELSE Do(NextCluster(m, h), LAMBDA x :
                Step(x, x[h].pos % BlockSize, Part(n, x[h].pos % BlockSize)))

(* More than is left is read when the position is past the end: the        *)
(* difference is unsigned.                                                 *)
read(m, h, n) ==
    LET left == m[h].size - m[h].pos
    IN  Do(Check([m EXCEPT !.got = <<>>], isOpen(m[h]) /\ "READ" \in m[h].flags),
           LAMBDA x : ReadLoop(x, h, IF left >= 0 /\ n > left THEN left ELSE n))

(* The next entry of a directory, in the cache, and in m.val.              *)
readDirCache(m, h) ==
    Do(read(Check(m, isDir(m[h])), h, 1),
       LAMBDA x : IF x.got = <<>> THEN Failed(x) ELSE [x EXCEPT !.val = x.got[1]])

(* readDir(): past the entries not in use, m.got stays empty at the end.   *)
RECURSIVE readDir(_, _)
readDir(m, h) ==
    Do(read(Check(m, isDir(m[h])), h, 1), LAMBDA x :
        IF x.got = <<>> \/ x.got[1].name = "free" THEN [x EXCEPT !.got = <<>>]
        ELSE IF x.got[1].name \in {"gone", ".", ".."} THEN readDir(x, h) ELSE x)

Live(e) == e.name \notin {"free", "gone", ".", ".."}

truncate(m, n) ==
    LET FreeRest(x) ==
            Do(fatGet(x, x.f.cur), LAMBDA y :
               IF y.val = EOC THEN y ELSE fatPut(freeChain(y, y.val), y.f.cur, EOC))
        Cut(x) ==
            IF n = 0
            THEN Upd(freeChain(x, x.f.first), "f", LAMBDA s : [s EXCEPT !.first = 0])
            ELSE FreeRest(x)
    IN  Do(Check(m, m.f.type = "file" /\ "WRITE" \in m.f.flags /\ n <= m.f.size), LAMBDA x :
            IF x.f.size = 0 THEN x
            ELSE seekSet(sync(Upd(Do(seekSet(x, "f", n), Cut), "f",
                                  LAMBDA s : Dirty([s EXCEPT !.size = n])), "f"),
                         "f", IF x.f.pos > n THEN n ELSE x.f.pos))

openCachedEntry(m, h, idx, oflag) ==
    LET As(x, e, blk) ==
            [x EXCEPT ![h] =
               [Closed EXCEPT !.type = IF e.dir THEN "dir" ELSE "file", !.first = e.first,
                              !.flags = oflag \cap {"READ", "WRITE", "SYNC", "APPEND"},
                              !.size = IF e.dir THEN x.val * ClusterSize ELSE e.size,
                              !.blk = blk, !.idx = idx]]
        Found(x, e) ==
            Do(IF e.dir THEN chainSize(Check(x, oflag \cap {"WRITE", "TRUNC"} = {}), e.first, 0)
               ELSE x,
               LAMBDA y : As(y, e, x.cb))
    IN  Do(m, LAMBDA x : Found(x, x.buf[idx + 1]))

(* open() looks for the name in the directory d, with the first slot it    *)
(* may use kept in blk and idx (blk = 0: none); m.val tells what it found. *)
RECURSIVE Lookup(_, _, _)
Lookup(m, h, name) ==
    LET Note(x, idx) == IF x.val.name \in {"free", "gone"} /\ x[h].blk = 0
                        THEN [x EXCEPT ![h].blk = x.cb, ![h].idx = idx] ELSE x
        Look(x, idx) == IF x.val.name = "free" THEN [Note(x, idx) EXCEPT !.val = "absent"]
                        ELSE IF x.val.name = name THEN [x EXCEPT ![h].idx = idx, !.val = "found"]
                        ELSE Lookup(Note(x, idx), h, name)
    IN  IF m.d.pos >= m.d.size THEN [m EXCEPT !.val = "absent"]
        ELSE Do(readDirCache(m, "d"), LAMBDA x : Look(x, m.d.pos % BlockSize))

(* The slot of a file that open() creates.                                 *)
NewSlot(m, h) ==
    IF m[h].blk # 0 THEN cacheDirEntry(m, h, TRUE)
    ELSE Upd(addDirCluster(Check(m, m.d.type # "root"), "d"), h, LAMBDA s : [s EXCEPT !.idx = 0])

(* open() of a name, but for the truncate(0) that openCachedEntry() ends    *)
(* with when O_TRUNC is given.                                             *)
Find(m, h, name, oflag) ==
    LET Create(x) ==
            Do(NewSlot(Check(x, {"CREAT", "WRITE"} \subseteq oflag), h),
               LAMBDA y : cacheFlush(PutEntry(y, h, Unit(name))))
        Place(x) == IF x.val = "found" THEN Check(x, ~({"CREAT", "EXCL"} \subseteq oflag))
                    ELSE Create(x)
    IN  Do(Check(m, ~isOpen(m[h])), LAMBDA w :
            Do(Lookup([w EXCEPT !.d = Rewound(@), ![h].blk = 0], h, name), LAMBDA x :
                Do(Place(x), LAMBDA y : openCachedEntry(y, h, y[h].idx, oflag))))

open(m, name, oflag) ==
    Do(Find(m, "f", name, oflag), LAMBDA x : IF "TRUNC" \in oflag THEN truncate(x, 0) ELSE x)

(* open() by the index of the entry in d.                                  *)
openIndex(m, h, index, oflag) ==
    Do(readDirCache(seekSet(m, "d", index), "d"),
       LAMBDA x : openCachedEntry(Check(x, Live(x.val)), h, index % BlockSize, oflag))
-----------------------------------------------------------------------------
(* At the start of a cluster write() finds which, or adds one.             *)
WriteCluster(m) ==
    IF m.f.pos % ClusterSize # 0 THEN m
    ELSE IF m.f.cur = 0
    THEN IF m.f.first = 0 THEN addCluster(m, "f") ELSE [m EXCEPT !.f.cur = m.f.first]
    ELSE Do(fatGet(m, m.f.cur), LAMBDA x :
            IF x.val = EOC THEN addCluster(x, "f") ELSE [x EXCEPT !.f.cur = x.val])

(* The loop of write(): n units with the value v.                          *)
RECURSIVE WriteLoop(_, _, _)
WriteLoop(m, n, v) ==
    LET Cached(x, b, o) ==
            IF o = 0 /\ x.f.pos >= x.f.size
            THEN Do(cacheFlush(x), LAMBDA y : [y EXCEPT !.cb = b, !.dirty = TRUE,
                                                       !.buf = [i \in 1..BlockSize |-> Stale]])
            ELSE cacheRawBlock(x, b, TRUE)
        Block(x, b, o, k) ==
            IF k = BlockSize
            THEN writeBlock([x EXCEPT !.cb = IF @ = b THEN NoBlock ELSE @], b,
                            [i \in 1..BlockSize |-> v])
            ELSE Do(Cached(x, b, o), LAMBDA y :
                    [y EXCEPT !.buf = [i \in 1..BlockSize |->
                                         IF i \in o + 1 .. o + k THEN v ELSE @[i]]])
        Step(x, o, k) ==
            Do(Block(x, BlockAt(x.f), o, k),
               LAMBDA y : WriteLoop([y EXCEPT !.f.pos = @ + k], n - k, v))
    IN  IF n = 0 THEN m
        ELSE Do(WriteCluster(m), LAMBDA x :
                Step(x, x.f.pos % BlockSize, Part(n, x.f.pos % BlockSize)))

write(m, n, v) ==
    LET Sized(s) == IF s.pos > s.size THEN Dirty([s EXCEPT !.size = s.pos])
                    ELSE IF HasClock /\ n > 0 THEN Dirty(s) ELSE s
        End(x) == IF "APPEND" \in x.f.flags /\ x.f.pos # x.f.size
                  THEN seekSet(x, "f", x.f.size) ELSE x
    IN  Do(End(Check(m, m.f.type = "file" /\ "WRITE" \in m.f.flags)), LAMBDA x :
            Do(Upd(WriteLoop(x, n, v), "f", Sized), LAMBDA y :
                IF "SYNC" \in y.f.flags THEN sync(y, "f") ELSE y))

remove(m) ==
    Do(truncate(m, 0), LAMBDA x :
        Do(cacheDirEntry(x, "f", TRUE), LAMBDA y :
            cacheFlush([PutEntry(y, "f", [Entry(y, "f") EXCEPT !.name = "gone"])
                          EXCEPT !.f.type = "closed"])))

(* rmDir(): only a directory with no entry in use, as a file, is removed.  *)
RECURSIVE Unused(_)
Unused(m) ==
    IF m.f.pos >= m.f.size THEN m
    ELSE Do(readDirCache(m, "f"), LAMBDA x :
            IF x.val.name = "free" THEN x ELSE Unused(Check(x, ~Live(x.val))))

rmDir(m) ==
    Do(Do(Check([m EXCEPT !.f = Rewound(@)], m.f.type = "dir"), Unused), LAMBDA x :
        remove([x EXCEPT !.f.type = "file", !.f.flags = @ \cup {"WRITE"}]))

makeDir(m, name) ==
    LET Dots(x, e) ==
            [i \in 1..BlockSize |->
               IF i = 1 THEN [e EXCEPT !.name = "."]
               ELSE IF i = 2 THEN [e EXCEPT !.name = "..", !.first = x.d.first] ELSE x.buf[i]]
        Fill(x, e) ==
            Do(cacheRawBlock(PutEntry(x, "f", e), clusterStartBlock(x.f.first), TRUE), LAMBDA y :
                cacheFlush([y EXCEPT !.buf = Dots(y, e), !.f.pos = 2]))
        Made(x) ==
            sync(addDirCluster(Upd(x, "f", LAMBDA s : [s EXCEPT !.flags = {"READ"},
                                                                !.type = "dir"]), "f"), "f")
    IN  Do(Find(m, "f", name, {"CREAT", "EXCL", "READ", "WRITE"}), LAMBDA x :
            Do(Made(x), LAMBDA y :
                Do(cacheDirEntry(y, "f", TRUE), LAMBDA z :
                    Fill(z, [Entry(z, "f") EXCEPT !.dir = TRUE]))))

createContiguous(m, name, size) ==
    LET Alloc(x) == allocContiguous(x, (size - 1) \div ClusterSize + 1, 0)
        Keep(x) == IF x.ok
                   THEN sync([x EXCEPT !.f = Dirty([@ EXCEPT !.first = x.val, !.size = size])], "f")
                   ELSE Failed(remove([x EXCEPT !.ok = TRUE]))
    IN  Do(Find(Check(m, size # 0), "f", name, {"CREAT", "EXCL", "READ", "WRITE"}),
           LAMBDA x : Keep(Alloc(x)))

(* contiguousRange(): the last cluster, in m.val.                          *)
RECURSIVE LastInRow(_, _)
LastInRow(m, c) ==
    Do(fatGet(m, c), LAMBDA x :
        IF x.val = c + 1 THEN LastInRow(x, c + 1) ELSE [Check(x, x.val = EOC) EXCEPT !.val = c])
contiguousRange(m) == LastInRow(Check(m, m.f.first # 0), m.f.first)

(* rmRfStar(): the directory d is emptied, its directories first.          *)
RECURSIVE rmRfStar(_)
RECURSIVE RemoveAll(_)
RemoveAll(m) ==
    LET Drop(x) ==
            IF x.f.type = "dir"
            THEN [rmRfStar([x EXCEPT !.d = x.f]) EXCEPT !.d = x.d]
            ELSE remove([x EXCEPT !.f.flags = @ \cup {"WRITE"}])
        Next1(x, i) == IF x.d.pos # i THEN seekSet(x, "d", i) ELSE x
        One(x, i) == Do(Do(openIndex([x EXCEPT !.f = Closed], "f", i, {"READ"}), Drop),
                        LAMBDA y : Next1(y, i + 1))
    IN  IF m.d.pos >= m.d.size THEN m
        ELSE Do(readDirCache(m, "d"), LAMBDA x :
                IF x.val.name = "free" THEN x
                ELSE IF ~Live(x.val) THEN RemoveAll(x)
                ELSE Do(One(x, m.d.pos), RemoveAll))
rmRfStar(m) ==
    Do(RemoveAll([m EXCEPT !.d = Rewound(@)]), LAMBDA x :
        IF x.d.type = "root" THEN x ELSE rmDir([x EXCEPT !.f = x.d]))
=============================================================================
