--------------------------------- MODULE SD ---------------------------------
(***************************************************************************)
(* A sketch that uses the SD library: the calls of SD.cpp and File.cpp on  *)
(* the files of a card, one at a time, any transfer of which the card may  *)
(* refuse, and resets that take the RAM and leave the card.                *)
(***************************************************************************)
EXTENDS SdFile, FiniteSets

CONSTANTS Files,         \* the paths the sketch uses for files: sequences of names
          Dirs,          \* and for directories
          Values,        \* what it writes to each of its files, in turn
          Modes,         \* the modes it opens files with
          Counts,        \* the numbers of units it reads and writes
          Positions,     \* the positions it seeks, and the sizes it truncates to
          MaxCalls,      \* bound: the calls of a behaviour
          MaxSize,       \* bound: the size of a file
          MaxFaults,     \* bound: transfers refused, and resets
          MaxTransfers   \* bound: which transfer of a call may be refused

VARIABLES card,    \* what the blocks of the card hold
          cache,   \* the cache of SdVolume
          mounted, \* begin() has succeeded
          file,    \* the SdFile of each path, as File keeps it
          want,    \* what each path should hold, by the calls that succeeded
          safe,    \* what it holds even if the power fails now
          faults,  \* refused transfers and resets so far
          failed,  \* a call that changes the card has failed
          cut,     \* one that frees clusters has
          lag,     \* the FAT blocks whose copy a reset has left behind
          calls,   \* the calls so far
          honest   \* the answers of the calls agreed with want

vars == <<card, cache, mounted, file, want, safe, faults, failed, cut, lag, calls,
          honest>>

Paths == Files \cup Dirs
Absent == <<Unit("absent")>>
IsDir == <<Unit("dir")>>
Unsure == <<Unit("unsure")>>

Cold == [cb |-> NoBlock, buf |-> Zero, dirty |-> FALSE, mirror |-> 0, alloc |-> 2]
FatOf(i) == [c \in {x \in 0..LastCluster : FatBlock(x) = i} |-> IF c < 2 THEN EOC ELSE 0]
Formatted == [b \in Blocks |-> IF b \in 1..FatBlocks THEN FatOf(b)
                               ELSE IF b \in FatBlocks + 1 .. 2 * FatBlocks
                               THEN FatOf(b - FatBlocks) ELSE Zero]
-----------------------------------------------------------------------------
(* What a volume v (its blocks) holds.                                     *)
RECURSIVE Chain(_, _, _)
Chain(v, c, n) ==
    IF c \notin 2..LastCluster \/ n = 0 THEN <<>>
    ELSE <<c>> \o Chain(v, v[FatBlock(c)][c], n - 1)
ChainOf(v, c) == Chain(v, c, LastCluster)

Proper(v, c) ==
    c # 0 => LET s == ChainOf(v, c)
             IN  s # <<>> /\ v[FatBlock(s[Len(s)])][s[Len(s)]] = EOC

BlocksOf(v, c) ==
    FlattenSeq([i \in 1..Len(ChainOf(v, c)) |->
                  [j \in 1..BlocksPerCluster |-> clusterStartBlock(ChainOf(v, c)[i]) + j - 1]])
Contents(v, blks) == FlattenSeq([i \in 1..Len(blks) |-> v[blks[i]]])

Slots(v, blks) ==
    {s \in ToSet(blks) \X (0 .. BlockSize - 1) : Live(v[s[1]][s[2] + 1])}
Ent(v, s) == v[s[1]][s[2] + 1]

(* A file that is open may be ahead of its entry.                          *)
First(v, s) ==
    IF \E p \in Files : isOpen(file[p]) /\ <<file[p].blk, file[p].idx>> = s
    THEN file[CHOOSE p \in Files : isOpen(file[p]) /\ <<file[p].blk, file[p].idx>> = s].first
    ELSE Ent(v, s).first

AllSlots(v) ==
    LET r == Slots(v, <<Root>>)
    IN  r \cup UNION {Slots(v, BlocksOf(v, Ent(v, s).first)) : s \in {x \in r : Ent(v, x).dir}}

Sound(v) ==
    /\ \A s \in AllSlots(v) : Proper(v, First(v, s)) /\ (Ent(v, s).dir => First(v, s) # 0)
    /\ \A s, t \in AllSlots(v) :
          s # t => ToSet(ChainOf(v, First(v, s))) \cap ToSet(ChainOf(v, First(v, t))) = {}

Owned(v) == UNION {ToSet(ChainOf(v, First(v, s))) : s \in AllSlots(v)}

At(v, path) ==
    LET Named(blks, n) == {s \in Slots(v, blks) : Ent(v, s).name = n}
        top == Named(<<Root>>, path[1])
        up == Ent(v, CHOOSE s \in top : TRUE)
        low == IF Len(path) = 1 THEN top
               ELSE IF top = {} \/ ~up.dir THEN {} ELSE Named(BlocksOf(v, up.first), path[2])
        e == Ent(v, CHOOSE s \in low : TRUE)
        all == Contents(v, BlocksOf(v, e.first))
    IN  IF low = {} THEN Absent
        ELSE IF e.dir THEN IsDir
        ELSE SubSeq(all, 1, IF e.size > Len(all) THEN Len(all) ELSE e.size)

Volume == IF cache.cb \in Blocks THEN [card EXCEPT ![cache.cb] = cache.buf] ELSE card

(* A partial write, then a write of that whole block: the cache is dirty   *)
(* and belongs to no block (SdFile.cpp:1181-1183). From then on every      *)
(* flush writes to block 0xFFFFFFFF, and fails though the card works.      *)
Frozen == cache.dirty /\ cache.cb = NoBlock
-----------------------------------------------------------------------------
(* SD.cpp. close() and seek() whose result is not looked at: Quiet.        *)
Quiet(m) == [m EXCEPT !.ok = TRUE]

(* getParentDir(): from the root down, each directory closed when the next *)
(* one is open.                                                            *)
Down(m, name) ==
    Do(Find([m EXCEPT !.f = Closed], "f", name, {"READ"}),
       LAMBDA x : [Quiet(close(x, "d")) EXCEPT !.d = x.f, !.f = Closed])

(* The directory that is given back or done with is closed, not the root.  *)
Leave(m) == IF m.d.type = "root" THEN m ELSE [close(Quiet(m), "d") EXCEPT !.ok = m.ok]

SDopen(m, path, mode) ==
    Do(FoldLeft(Down, m, Front(path)), LAMBDA p :
        Do(open(p, Last(path), mode), LAMBDA x :
            IF mode \cap {"APPEND", "WRITE"} # {}
            THEN Quiet(seekSet(Leave(x), "f", x.f.size)) ELSE Leave(x)))

(* What is done at each name of a path: its callback_ function.            *)
callback(m, op, name, last) ==
    LET mode == IF op = "remove" THEN {"WRITE"} ELSE {"READ"}
        Known(x) == IF x.ok THEN Quiet(close(x, "f")) ELSE x
        Make(x) == IF x.ok THEN x ELSE makeDir([Quiet(x) EXCEPT !.f = Closed], name)
        Then(x) == IF op = "exists" THEN Known(x)
                   ELSE IF op = "mkdir" THEN Make(Known(x))
                   ELSE Do(x, LAMBDA y : IF op = "remove" THEN remove(y) ELSE rmDir(y))
    IN  IF op \in {"remove", "rmdir"} /\ ~last THEN m ELSE Then(Find(m, "f", name, mode))

RECURSIVE walkPath(_, _, _)
walkPath(m, op, path) ==
    LET Into(x) == IF x.ok THEN walkPath([Leave(x) EXCEPT !.d = x.f, !.f = Closed], op, Tail(path))
                   ELSE Leave(x)
        After(x) == IF ~x.ok \/ Len(path) = 1 THEN Leave(x)
                    ELSE Into(Find([x EXCEPT !.f = Closed], "f", Head(path), {"READ"}))
    IN  After(callback(m, op, Head(path), Len(path) = 1))

(* A sketch that lists a directory: openNextFile() until it gives no file; *)
(* the names of the files it gave in m.val.                                *)
RECURSIVE List(_, _)
List(m, names) ==
    LET File(x, e) ==
            Do(Find([x EXCEPT !.f = Closed], "f", e.name, {"READ"}),
               LAMBDA y : List(Quiet(close(y, "f")), names \cup {e.name}))
    IN  Do(readDir(m, "d"), LAMBDA x :
            IF x.got = <<>> THEN [x EXCEPT !.val = names] ELSE File(x, x.got[1]))
-----------------------------------------------------------------------------
Init ==
    /\ card = Formatted /\ cache = Cold /\ mounted = FALSE
    /\ file = [p \in Files |-> Closed]
    /\ want = [p \in Paths |-> Absent] /\ safe = [p \in Paths |-> Absent]
    /\ faults = 0 /\ failed = FALSE /\ cut = FALSE
    /\ lag = {} /\ calls = 0 /\ honest = TRUE

Machines ==
    {[card |-> card, cb |-> cache.cb, buf |-> cache.buf, dirty |-> cache.dirty,
      mirror |-> cache.mirror, alloc |-> cache.alloc, ok |-> TRUE, fail |-> k, late |-> l,
      val |-> 0, got |-> <<>>, f |-> Closed, d |-> openRoot] :
        k \in IF faults < MaxFaults THEN 0..MaxTransfers ELSE {0}, l \in BOOLEAN}

(* The library is not called on a volume with a chain that a failed call   *)
(* has left broken: what it reads then is no longer a directory.           *)
Ready == mounted /\ calls < MaxCalls /\ (cut => Sound(Volume))

(* The call that took the machine from m0 to m. What it changes, and what  *)
(* it frees, when it fails, is remembered.                                 *)
Call(m0, m, changes, frees) ==
    /\ m.fail = 0 /\ (m0.late => m0.fail > 0)
    /\ card' = m.card
    /\ cache' = [cb |-> m.cb, buf |-> m.buf, dirty |-> m.dirty, mirror |-> m.mirror,
                 alloc |-> m.alloc]
    /\ faults' = IF m0.fail > 0 THEN faults + 1 ELSE faults
    /\ failed' = (failed \/ (changes /\ ~m.ok))
    /\ cut' = (cut \/ (frees /\ ~m.ok))
    /\ calls' = IF mounted THEN calls + 1 ELSE calls
    /\ UNCHANGED lag

Sure(p) == want[p] # Unsure
(* The card works and the cache can be flushed: nothing but the sketch's   *)
(* own wish makes this call fail.                                          *)
Healthy(m0) == m0.fail = 0 /\ ~Frozen

(* init() of the volume: block 0 is read for a table of partitions, which  *)
(* this card has not, then as the first of a volume.                       *)
init(m) == cacheRawBlock(Quiet(cacheRawBlock(m, 0, FALSE)), 0, FALSE)

Begin ==
    \E m0 \in Machines :
        LET m == init(m0)
        IN  /\ ~mounted
            /\ Call(m0, m, FALSE, FALSE)
            /\ mounted' = m.ok
            /\ UNCHANGED <<file, want, safe, honest>>

Open(p, mode) ==
    /\ Ready /\ ~isOpen(file[p])
    /\ \E m0 \in Machines : \E m \in {SDopen(m0, p, mode)} :
        LET lost == "WRITE" \in mode /\ m.f.pos # m.f.size   \* the seek to the end failed
            new == IF lost \/ \E q \in Dirs : IsPrefix(q, p) /\ want[q] = Unsure THEN Unsure
                   ELSE IF "TRUNC" \in mode \/ want[p] = Absent THEN <<>>
                   ELSE IF want[p] = Unsure THEN safe[p] ELSE want[p]
            changes == "TRUNC" \in mode \/ (want[p] = Absent /\ "CREAT" \in mode)
        IN  /\ Call(m0, m, changes, "TRUNC" \in mode)
            /\ file' = [file EXCEPT ![p] = IF m.ok THEN m.f ELSE Closed]
            /\ want' = [want EXCEPT ![p] =
                          IF m.ok THEN new ELSE IF changes /\ ~Healthy(m0) THEN Unsure ELSE @]
            /\ safe' = [safe EXCEPT ![p] = IF changes /\ want'[p] # want[p] THEN Unsure ELSE @]
            /\ honest' = (Sure(p) /\ Healthy(m0) /\ "CREAT" \notin mode => (m.ok <=> want[p] # Absent))
            /\ UNCHANGED mounted

(* A call on the File of an open path: its SdFile, what the path then      *)
(* holds, whether it is on the card.                                       *)
OnFile(p, m0, m, changes, frees, hold, sure) ==
    /\ Call(m0, m, changes, frees)
    /\ file' = [file EXCEPT ![p] = m.f]
    /\ want' = [want EXCEPT ![p] = IF m.ok THEN hold ELSE Unsure]
    /\ safe' = [safe EXCEPT ![p] = IF m.ok /\ sure THEN hold ELSE IF changes THEN Unsure ELSE @]
    /\ UNCHANGED mounted

With(m0, p) == [m0 EXCEPT !.f = file[p]]

Write(p, n) ==
    /\ Ready /\ isOpen(file[p])
    /\ \E m0 \in Machines, v \in {Values[p][1 + (calls % Len(Values[p]))]} :
       \E m \in {write(With(m0, p), n, v)} :
        LET s == file[p]
            at == IF "APPEND" \in s.flags THEN s.size ELSE s.pos
            old == want[p]
        IN  /\ at + n <= MaxSize
            /\ OnFile(p, m0, m, TRUE, FALSE,
                      IF old = Unsure THEN Unsure
                      ELSE [i \in 1 .. IF at + n > Len(old) THEN at + n ELSE Len(old) |->
                              IF i \in at + 1 .. at + n THEN v ELSE old[i]],
                      "SYNC" \in s.flags)
            /\ UNCHANGED honest

Read(p, n) ==
    /\ Ready /\ isOpen(file[p])
    /\ \E m0 \in Machines : \E m \in {read(With(m0, p), "f", n)} :
        LET s == file[p]
        IN  /\ OnFile(p, m0, m, FALSE, FALSE, want[p], FALSE)
            /\ honest' = (Sure(p) /\ m.ok /\ "READ" \in s.flags =>
                             m.got = SubSeq(want[p], s.pos + 1,
                                            IF s.pos + n > Len(want[p]) THEN Len(want[p])
                                            ELSE s.pos + n))

Seek(p, n) ==
    /\ Ready /\ isOpen(file[p]) /\ n <= file[p].size /\ n # file[p].pos
    /\ \E m0 \in Machines : \E m \in {seekSet(With(m0, p), "f", n)} :
        /\ OnFile(p, m0, m, FALSE, FALSE, want[p], FALSE)
        /\ UNCHANGED honest

Truncate(p, n) ==
    /\ Ready /\ isOpen(file[p]) /\ "WRITE" \in file[p].flags /\ n < file[p].size
    /\ \E m0 \in Machines : \E m \in {truncate(With(m0, p), n)} :
        /\ OnFile(p, m0, m, TRUE, TRUE,
                  IF want[p] = Unsure THEN Unsure ELSE SubSeq(want[p], 1, n), FALSE)
        /\ UNCHANGED honest

(* File::flush() and File::close() do not look at what sync() returns.     *)
Flush(p) ==
    /\ Ready /\ isOpen(file[p])
    /\ \E m0 \in Machines : \E m \in {sync(With(m0, p), "f")} :
            /\ Call(m0, m, TRUE, FALSE)
            /\ file' = [file EXCEPT ![p] = m.f]
            /\ safe' = [safe EXCEPT ![p] = IF m.ok THEN want[p] ELSE @]
            /\ honest' = (Healthy(m0) => m.ok)
            /\ UNCHANGED <<mounted, want>>

Close(p) ==
    /\ Ready /\ isOpen(file[p])
    /\ \E m0 \in Machines : \E m \in {close(With(m0, p), "f")} :
            /\ Call(m0, m, TRUE, FALSE)
            /\ file' = [file EXCEPT ![p] = Closed]
            /\ safe' = [safe EXCEPT ![p] = IF m.ok THEN want[p] ELSE @]
            /\ want' = [want EXCEPT ![p] = safe'[p]]
            /\ honest' = (Healthy(m0) => m.ok)
            /\ UNCHANGED mounted

(* SD.remove(), SD.rmdir(), SD.mkdir() and SD.exists(), on paths of which  *)
(* no file is open.                                                        *)
Idle(p) == \A q \in Files : isOpen(file[q]) => ~IsPrefix(p, q)

PathCall(op, p) ==
    /\ Ready /\ Idle(p)
    /\ p \in Dirs => op # "remove"
    /\ p \in Files => op \in {"remove", "exists"}
    /\ \E m0 \in Machines : \E m \in {walkPath(m0, op, p)} :
        LET touched == IF op = "exists" THEN {} 
                       ELSE IF op = "mkdir" THEN {q \in Paths : IsPrefix(q, p)} ELSE {p}
            Hold(q) == IF op # "mkdir" THEN Absent ELSE IF want[q] = Unsure THEN Unsure ELSE IsDir
        IN  /\ Call(m0, m, op # "exists", op \in {"remove", "rmdir"})
            /\ want' = [q \in Paths |-> IF q \notin touched \/ (~m.ok /\ Healthy(m0) /\ op # "mkdir")
                                        THEN want[q]
                                        ELSE IF m.ok THEN Hold(q) ELSE Unsure]
            /\ safe' = [q \in Paths |-> IF want'[q] = want[q] THEN safe[q] ELSE want'[q]]
            /\ honest' = (Sure(p) /\ Healthy(m0) /\ op = "exists" => (m.ok <=> want[p] # Absent))
            /\ UNCHANGED <<mounted, file>>

(* createContiguous() of a file in the root: what it holds is what its     *)
(* clusters held. contiguousRange() then gives their last.                 *)
Contiguous(p, n) ==
    /\ Ready /\ ~isOpen(file[p]) /\ Len(p) = 1
    /\ \E m0 \in Machines : \E m \in {createContiguous(m0, p[1], n)} :
        LET clusters == (n - 1) \div ClusterSize + 1
            held == Contents(m.card, [i \in 1 .. clusters * BlocksPerCluster |->
                                        clusterStartBlock(m.f.first) + i - 1])
            new == m.ok \/ want[p] = Absent
        IN  /\ Call(m0, m, TRUE, TRUE)
            /\ file' = [file EXCEPT ![p] = IF m.ok THEN m.f ELSE Closed]
            /\ want' = [want EXCEPT ![p] = IF m.ok THEN SubSeq(held, 1, n)
                                          ELSE IF want[p] = Absent THEN Unsure ELSE @]
            /\ safe' = [safe EXCEPT ![p] = IF new THEN want'[p] ELSE @]
            /\ honest' = (m.ok => contiguousRange([m EXCEPT !.fail = 0]).val
                                     = m.f.first + clusters - 1)
            /\ UNCHANGED mounted

(* A sketch that empties a directory with rmRfStar().                      *)
Empty(p) ==
    /\ Ready /\ Idle(p)
    /\ \E m0 \in Machines :
       \E m \in {Do(Find(m0, "f", p[1], {"READ"}),
                   LAMBDA x : rmRfStar([x EXCEPT !.d = x.f]))} :
        LET under == {q \in Paths : IsPrefix(p, q)}
        IN  /\ Call(m0, m, TRUE, TRUE)
            /\ want' = [q \in Paths |-> IF q \notin under \/ want[p] = Absent THEN want[q]
                                        ELSE IF m.ok THEN Absent ELSE Unsure]
            /\ safe' = [q \in Paths |-> IF want'[q] = want[q] THEN safe[q] ELSE want'[q]]
            /\ honest' = (Healthy(m0) /\ want[p] = IsDir => m.ok)
            /\ UNCHANGED <<mounted, file>>

(* A sketch that lists the root directory or one below it.                 *)
ListDir(p) ==
    /\ Ready
    /\ \E m0 \in Machines :
       \E m \in {Do(FoldLeft(Down, m0, p), LAMBDA x : List(x, {}))} :
        LET below == {q \in Paths : Len(q) = Len(p) + 1 /\ IsPrefix(p, q)}
        IN  /\ Call(m0, m, FALSE, FALSE)
            /\ honest' = (m.ok => /\ {q[Len(q)] : q \in {x \in below : want[x] \notin {Absent, Unsure}}}
                                        \subseteq m.val
                                  /\ m.val \subseteq {q[Len(q)] : q \in {x \in below : want[x] # Absent}})
            /\ UNCHANGED <<mounted, file, want, safe>>

Reset ==
    /\ faults < MaxFaults
    /\ cache' = Cold /\ mounted' = FALSE
    /\ file' = [p \in Files |-> Closed]
    /\ want' = safe
    /\ faults' = faults + 1
    /\ failed' = TRUE
    /\ lag' = {i \in 1..FatBlocks : card[i] # card[i + FatBlocks]}
    /\ UNCHANGED <<card, safe, cut, calls, honest>>

Next ==
    \/ Begin \/ Reset
    \/ \E p \in Files : \/ \E mode \in Modes : Open(p, mode)
                        \/ \E n \in Counts : Write(p, n)
                        \/ \E n \in Counts : Read(p, n)
                        \/ \E n \in Positions : Seek(p, n) \/ Truncate(p, n)
                        \/ Contiguous(p, MaxSize)
                        \/ Flush(p) \/ Close(p)
    \/ \E p \in Dirs : Empty(p) \/ ListDir(p)
    \/ ListDir(<<>>)
    \/ \E p \in Paths, op \in {"exists", "mkdir", "rmdir", "remove"} : PathCall(op, p)

Spec == Init /\ [][Next]_vars
-----------------------------------------------------------------------------
(* What a path held when it was last closed, flushed or made, by calls     *)
(* that succeeded, is on the card: no later call on another path, no       *)
(* failed transfer and no reset takes it away. (sync(), cacheFlush(), the  *)
(* order of the writes of open(), makeDir(), remove() and truncate().)     *)
SyncedIsSafe == \A p \in Paths : safe[p] # Unsure => At(card, p) = safe[p]

(* The two copies of the FAT differ only in a block that is still to be    *)
(* written, with its copy, or that a reset caught between the two.         *)
(* (fatPut() and cacheFlush().)                                            *)
MirrorFollows ==
    \A i \in (1..FatBlocks) \ lag :
        card[i] # card[i + FatBlocks] =>
            cache.dirty /\ cache.cb = i /\ cache.mirror = i + FatBlocks

(* No cluster belongs to two files, every chain ends, and no cluster is in *)
(* use that no file owns - unless a call that frees clusters, or any that  *)
(* changes the card, has failed halfway. (allocContiguous(), freeChain(),  *)
(* addCluster(), truncate(), remove(), rmDir() and rmRfStar().)            *)
OneOwner ==
    /\ ~cut => Sound(Volume)
    /\ ~failed => \A c \in 2..LastCluster :
                     Volume[FatBlock(c)][c] # 0 => c \in Owned(Volume)

(* What the calls answer agrees with what the sketch did: the data read,   *)
(* the names listed, whether a path exists, that a file made in one piece  *)
(* is in one piece. A flush(), close() or rmRfStar() with a working card   *)
(* succeeds, and exists() and open() see what is there, except when the    *)
(* cache is Frozen: these calls then fail, other than the comment of       *)
(* sync() says (SdFile.cpp:956-963).                                       *)
ReadBack == honest
=============================================================================
