------------------------------ MODULE WString ------------------------------
(***************************************************************************)
(* Class String: a heap buffer that ends with a zero byte and grows by     *)
(* realloc(), which may fail.  Two strings of a sketch, s and t, change by *)
(* the class's operations; meant is what each of them should be.           *)
(*                                                                         *)
(* A buffer is the sequence of its bytes, empty for NULL; those behind the *)
(* terminator are not followed.  An argument is a text, as const char*,    *)
(* a number or another String that is valid; it is never the string        *)
(* itself, whose buffer the operation moves.                               *)
(***************************************************************************)
EXTENDS Integers, Sequences

CONSTANTS
    Letters,    \* of the texts, out of "a", "A" and the blank " "
    MaxText,    \* bound: the length of a text
    GrowFinds   \* bound: how long a text may be that a longer one replaces

VARIABLES strings, meant

stringVars == <<strings, meant>>

Wide == 65536    \* of an unsigned int
Nul == "0"
Behind == "?"
Lower(c) == IF c = "A" THEN "a" ELSE c
Upper(c) == IF c = "a" THEN "A" ELSE c
TextsUpto(n) == UNION {[1 .. k -> Letters] : k \in 0 .. n}

Null == [buf |-> <<>>, len |-> 0]   \* init(), invalidate()
Invalid == <<"invalid">>            \* "if (s)" is false
MovedFrom == <<"moved">>            \* may only be assigned to

Capacity(o) == IF o.buf = <<>> THEN 0 ELSE Len(o.buf) - 1
IsValid(o) == o.buf # <<>>

\* what C makes of a buffer: the bytes before the first zero
Strlen(b) == CHOOSE n \in 0 .. Len(b) : /\ \A i \in 1 .. n : b[i] # Nul
                                        /\ n = Len(b) \/ b[n + 1] = Nul
CString(b) == SubSeq(b, 1, Strlen(b))

\* strcpy() to an offset; what does not fit is lost from the model, len shows it
Strcpy(b, at, t) ==
    [i \in 1 .. Len(b) |-> CASE i <= at -> b[i]
                             [] i > at /\ i <= at + Len(t) -> t[i - at]
                             [] i = at + Len(t) + 1 -> Nul
                             [] OTHER -> Behind]

Holding(o, t) == [buf |-> Strcpy(o.buf, 0, t), len |-> Len(t)]

StringInit ==
    /\ strings = [x \in {"s", "t"} |-> [buf |-> <<Nul>>, len |-> 0]]
    /\ meant = [x \in {"s", "t"} |-> <<>>]

------------------------------------------------------------------------------
\* realloc(): the bytes that are there stay
Resized(o, size) == [o EXCEPT !.buf = [i \in 1 .. size + 1 |-> IF i <= Len(o.buf) THEN o.buf[i] ELSE Behind]]

\* Forms an error could give the operators below; no action uses them.
RoomForText(o, size) == IsValid(o) /\ Capacity(o) + 1 >= size
UnsavedByte(o, left, right) == CString(SubSeq(o.buf, left + 1, Len(o.buf)))

\* reserve() and changeBuffer(): what may come of them
HasRoom(o, size) == IsValid(o) /\ Capacity(o) >= size

Reserved(o, size) ==
    LET grown == Resized(o, size)
    IN IF HasRoom(o, size) THEN {o}
       ELSE {Null, IF o.len = 0 THEN [grown EXCEPT !.buf[1] = Nul] ELSE grown}

\* o becomes one of the objects, and m what it should be
Becomes(x, o, m) == strings' = [strings EXCEPT ![x] = o] /\ meant' = [meant EXCEPT ![x] = m]

Usable(x) == meant[x] # MovedFrom
TextOf(x) == IF meant[x] = Invalid THEN <<>> ELSE meant[x]
Usables == {x \in {"s", "t"} : Usable(x)}

------------------------------------------------------------------------------
\* The constructors and operator = of a text; NULL makes the string invalid
assign(x) ==
    \/ \E t \in TextsUpto(MaxText) :
          \E r \in Reserved(strings[x], Len(t)) :
              IF IsValid(r) THEN Becomes(x, Holding(r, t), t) ELSE Becomes(x, Null, Invalid)
    \/ Becomes(x, Null, Invalid)

\* operator = (const String &)
assignString(x, y) ==
    /\ Usable(y)
    /\ LET t == CString(strings[y].buf)
       IN IF ~IsValid(strings[y]) THEN Becomes(x, Null, Invalid)
          ELSE \E r \in Reserved(strings[x], strings[y].len) :
                   IF IsValid(r) THEN Becomes(x, [Holding(r, t) EXCEPT !.len = strings[y].len], meant[y])
                   ELSE Becomes(x, Null, Invalid)

\* move(): not from an invalid string, of which it would copy address 0
Moved(o, from) ==
    IF IsValid(o) /\ Capacity(o) >= from.len
    THEN <<[Holding(o, CString(from.buf)) EXCEPT !.len = from.len], [from EXCEPT !.len = 0]>>
    ELSE <<from, Null>>

move(x, y) ==
    /\ Usable(y) /\ IsValid(strings[y])
    /\ LET m == Moved(strings[x], strings[y])
       IN strings' = [strings EXCEPT ![x] = m[1], ![y] = m[2]]
    /\ meant' = [meant EXCEPT ![x] = meant[y], ![y] = MovedFrom]

\* reserve() of a sketch
reserve(x) ==
    /\ Usable(x)
    /\ \E size \in 0 .. MaxText : \E r \in Reserved(strings[x], size) :
          IF IsValid(r) THEN Becomes(x, r, TextOf(x))
          ELSE UNCHANGED stringVars

\* concat() of a text, and what is done if there is no room for it.  No text
\* becomes more than MaxText long.
Concatenated(x, failed) ==
    \E t \in TextsUpto(MaxText) :
        LET o == strings[x]
            newlen == o.len + Len(t)
            all == TextOf(x) \o t
        IN /\ Usable(x) /\ newlen <= MaxText
           /\ IF t = <<>> THEN UNCHANGED stringVars
              ELSE \E r \in Reserved(o, newlen) :
                       IF IsValid(r) THEN Becomes(x, [buf |-> Strcpy(r.buf, o.len, t), len |-> newlen], all)
                       ELSE failed

\* "if unsuccessful the string is left unchanged", but a sum becomes invalid
concat(x) == Concatenated(x, UNCHANGED stringVars)
plus(x) == Concatenated(x, Becomes(x, Null, Invalid))

------------------------------------------------------------------------------
\* strstr() from an offset: where, or -1
Matches(b, f, p) == p + Len(f) <= Strlen(b) /\ SubSeq(b, p + 1, p + Len(f)) = f
Strstr(b, f, from) ==
    LET found == {p \in from .. Strlen(b) : Matches(b, f, p)}
    IN IF found = {} THEN -1 ELSE CHOOSE p \in found : \A q \in found : p <= q

\* substring() for a new string y, that ends its text for a moment with a zero
Cut(o, left, right) == CString(Strcpy(SubSeq(o.buf, left + 1, right + 1), right - left, <<>>))

substring(x, y) ==
    \E i, j \in 0 .. MaxText :
        LET left == IF i < j THEN i ELSE j
            to == IF i < j THEN j ELSE i
            right == IF to > strings[x].len THEN strings[x].len ELSE to
            out == IF left >= strings[x].len THEN <<>> ELSE Cut(strings[x], left, right)
            old == TextOf(x)
        IN /\ Usable(x)
           /\ \/ Becomes(y, [buf |-> out \o <<Nul>>, len |-> Len(out)], SubSeq(old, left + 1, IF to > Len(old) THEN Len(old) ELSE to))
              \/ Becomes(y, Null, Invalid)

\* lastIndexOf(String, from): the search goes on behind each find
LastIndexOf(o, f, from) ==
    LET last == IF from >= o.len THEN o.len - 1 ELSE from
        \* the loop: p, and what was found
        loop[n \in 0 .. o.len + 1] ==
            IF n = 0 THEN [p |-> 0, found |-> -1]
            ELSE LET l == loop[n - 1]
                     p == IF l.p = -1 \/ l.p > last THEN -1 ELSE Strstr(o.buf, f, l.p)
                 IN IF p = -1 THEN [l EXCEPT !.p = -1]
                    ELSE [p |-> p + 1, found |-> IF p <= last THEN p ELSE l.found]
    IN IF Len(f) = 0 \/ o.len = 0 \/ Len(f) > o.len THEN -1 ELSE loop[o.len + 1].found

\* replace(): forward, if the text does not become longer ...
Splice(t, p, f, r) == SubSeq(t, 1, p) \o r \o SubSeq(t, p + Len(f) + 1, Len(t))

Forward(t, f, r) ==
    LET loop[n \in 0 .. Len(t)] ==
            IF n = 0 THEN [t |-> t, readFrom |-> 0, count |-> 0]
            ELSE LET l == loop[n - 1]
                     p == Strstr(l.t \o <<Nul>>, f, l.readFrom)
                 IN IF p = -1 THEN l
                    ELSE [t |-> Splice(l.t, p, f, r), readFrom |-> p + Len(r), count |-> l.count + 1]
    IN loop[Len(t)]

\* ... and else from the end, once there is room for what was counted
Backward(o, f, r) ==
    LET loop[n \in 0 .. o.len] ==
            IF n = 0 THEN [t |-> CString(o.buf), index |-> o.len - 1]
            ELSE LET l == loop[n - 1]
                     p == IF l.index < 0 THEN -1
                          ELSE LastIndexOf([buf |-> l.t \o <<Nul>>, len |-> Len(l.t)], f, l.index)
                 IN IF p = -1 THEN [l EXCEPT !.index = -1] ELSE [t |-> Splice(l.t, p, f, r), index |-> p - 1]
    IN loop[o.len].t

\* every occurrence, from the left, without overlap
Replaced(t, f, r) ==
    LET at(p) == p > 0 /\ p + Len(f) - 1 <= Len(t) /\ SubSeq(t, p, p + Len(f) - 1) = f
        taken[p \in 0 .. Len(t)] == at(p) /\ \A q \in 1 .. p - 1 : taken[q] => q + Len(f) <= p
        out[p \in 0 .. Len(t)] ==
            IF p = 0 THEN <<>>
            ELSE out[p - 1] \o (CASE taken[p] -> r
                                  [] ~taken[p] /\ (\E q \in 1 .. p - 1 : taken[q] /\ q + Len(f) > p) -> <<>>
                                  [] OTHER -> <<t[p]>>)
    IN out[Len(t)]

\* what may be found: any other text changes nothing
Parts(b) == {SubSeq(b, i, j) : i \in 1 .. Strlen(b), j \in 1 .. Strlen(b)} \intersect (TextsUpto(2) \ {<<>>})

replace(x) ==
    \E f \in Parts(strings[x].buf) : \E r \in TextsUpto(Len(f) + 1) :
        LET o == strings[x]
            t == CString(o.buf)
            forward == Forward(t, f, r)
            size == o.len + forward.count * (Len(r) - Len(f))
            m == Replaced(meant[x], f, r)
        IN /\ Usable(x) /\ meant[x] # Invalid /\ size <= MaxText
           /\ Len(r) > Len(f) => Len(f) \in GrowFinds
           /\ IF Len(r) <= Len(f) THEN Becomes(x, Holding(o, forward.t), m)
              ELSE LET done(p) == [buf |-> Strcpy(p.buf, 0, Backward(p, f, r)), len |-> Len(Backward(p, f, r))]
                   IN \/ HasRoom(o, size) /\ Becomes(x, done(o), m)
                      \/ ~HasRoom(o, size) /\ Becomes(x, done(Resized(o, size)), m)
                      \/ ~HasRoom(o, size) /\ UNCHANGED stringVars

\* replace() of a character, toLowerCase(), toUpperCase(), setCharAt(), trim(), remove()
Each(x, f) ==
    /\ Usable(x) /\ meant[x] # Invalid
    /\ LET change(s) == [i \in 1 .. Len(s) |-> IF s[i] \in Letters THEN f[s[i]] ELSE s[i]]
       IN Becomes(x, Holding(strings[x], change(CString(strings[x].buf))), change(meant[x]))

changeCase(x) ==
    \/ Each(x, [c \in Letters |-> Lower(c)])
    \/ Each(x, [c \in Letters |-> Upper(c)])
    \/ \E find, by \in Letters : Each(x, [c \in Letters |-> IF c = find THEN by ELSE c])

setCharAt(x) ==
    /\ Usable(x) /\ meant[x] # Invalid
    /\ \E loc \in 0 .. MaxText, c \in Letters :
          IF loc < strings[x].len
          THEN Becomes(x, [strings[x] EXCEPT !.buf[loc + 1] = c], [meant[x] EXCEPT ![loc + 1] = c])
          ELSE UNCHANGED stringVars

Blank(b, i) == i \in 1 .. Len(b) /\ b[i] = " "

Trimmed(o) ==
    LET begin == CHOOSE n \in 0 .. o.len : ~Blank(o.buf, n + 1) /\ \A i \in 1 .. n : Blank(o.buf, i)
        end == CHOOSE n \in begin - 1 .. o.len - 1 :
                   (n < begin \/ ~Blank(o.buf, n + 1)) /\ \A i \in n + 1 .. o.len - 1 : Blank(o.buf, i + 1)
    IN Holding(o, SubSeq(o.buf, begin + 1, end + 1))

\* the longest part without a blank at either end
Bare(m) ==
    LET inner == {s \in {SubSeq(m, i, j) : i \in 1 .. Len(m) + 1, j \in 0 .. Len(m)} : ~Blank(s, 1) /\ ~Blank(s, Len(s))}
    IN CHOOSE s \in inner : \A r \in inner : Len(r) <= Len(s)

trim(x) ==
    /\ Usable(x) /\ meant[x] # Invalid /\ strings[x].len > 0
    /\ Becomes(x, Trimmed(strings[x]), Bare(meant[x]))

Removed(o, index, count) ==
    LET n == IF count > o.len - index THEN o.len - index ELSE count
        rest == SubSeq(o.buf, index + n + 1, o.len)
    IN [buf |-> Strcpy(o.buf, index, rest), len |-> o.len - n]

remove(x) ==
    /\ Usable(x) /\ meant[x] # Invalid
    /\ \E index \in 0 .. strings[x].len - 1, count \in 1 .. MaxText :
          Becomes(x, Removed(strings[x], index, count),
                  SubSeq(meant[x], 1, index) \o SubSeq(meant[x], index + count + 1, Len(meant[x])))

StringNext ==
    \/ assign("s") \/ reserve("s") \/ concat("s") \/ plus("s") \/ replace("s") \/ changeCase("s") \/ setCharAt("s") \/ trim("s") \/ remove("s")
    \/ assign("t") \/ substring("s", "t")
    \/ \E x, y \in {"s", "t"} : x # y /\ (assignString(x, y) \/ move(x, y))

StringSpec == StringInit /\ [][StringNext]_stringVars

------------------------------------------------------------------------------
\* Questions, which change nothing (lastIndexOf() and substring() put back what
\* they overwrite).

indexOf(o, f, from) == IF from >= o.len THEN -1 ELSE Strstr(o.buf, f, from)

\* offset > len - s2.len, of unsigned numbers
startsWith(o, f, offset) ==
    IsValid(o) /\ offset <= (o.len - Len(f)) % Wide /\ Matches(o.buf, f, offset)

endsWith(o, f) ==
    IsValid(o) /\ o.len >= Len(f) /\ SubSeq(CString(o.buf), o.len - Len(f) + 1, o.len) = f

\* the sign of strcmp(); an invalid string is an empty one
Order(c) == CASE c = " " -> 1 [] c = "A" -> 2 [] c = "a" -> 3
Strcmp(s, t) ==
    LET differs == {i \in DOMAIN s \cap DOMAIN t : s[i] # t[i]}
        first == CHOOSE i \in differs : \A j \in differs : i <= j
    IN IF differs # {} THEN (IF Order(s[first]) < Order(t[first]) THEN -1 ELSE 1)
       ELSE IF s = t THEN 0 ELSE IF Len(s) < Len(t) THEN -1 ELSE 1
compareTo(o, p) == Strcmp(CString(o.buf), CString(p.buf))

equals(o, p) == o.len = p.len /\ compareTo(o, p) = 0
equalsIgnoreCase(o, p) ==
    o.len = p.len /\ \A i \in 1 .. Strlen(o.buf) : Lower(o.buf[i]) = Lower(p.buf[i])

\* A form an error could give the operator below; nothing uses it.
EveryByte(o, bufsize, index) == IF index >= o.len THEN <<>> ELSE SubSeq(CString(o.buf), index + 1, o.len)

\* toCharArray(): what arrives in a buffer of bufsize bytes
getBytes(o, bufsize, index) ==
    IF index >= o.len THEN <<>>
    ELSE LET n == IF bufsize - 1 > o.len - index THEN o.len - index ELSE bufsize - 1
         IN SubSeq(CString(o.buf), index + 1, index + n)

------------------------------------------------------------------------------
(* Whatever was done to it, and whichever memory was missing: a string the  *)
(* sketch may use holds the text it should, in a buffer with a zero behind  *)
(* it, and one whose operation was to make it invalid has no buffer.        *)
StringIsText ==
    \A x \in Usables :
        IF meant[x] = Invalid THEN strings[x] = Null
        ELSE /\ strings[x].len = Len(meant[x])
             /\ SubSeq(strings[x].buf, 1, Len(meant[x]) + 1) = meant[x] \o <<Nul>>

(* A text never reaches beyond the memory that was asked for it: "compute   *)
(* size needed for result" (WString.cpp:667).                               *)
StringFits == \A x \in {"s", "t"} : strings[x].len <= Capacity(strings[x])

\* where f is in the text m, at from or behind it
Places(m, f, from) == {p \in from .. Len(m) - Len(f) : SubSeq(m, p + 1, p + Len(f)) = f}
Least(P) == IF P = {} THEN -1 ELSE CHOOSE p \in P : \A q \in P : p <= q
Greatest(P) == IF P = {} THEN -1 ELSE CHOOSE p \in P : \A q \in P : p >= q

(* Searches find the first and the last place there is, a comparison says   *)
(* no start or end that is not one, an order is an order and getBytes()     *)
(* writes no more than it may, whatever the string went through before.     *)
StringAnswers ==
    \A x, y \in Usables : x # y /\ meant[y] # Invalid =>
        LET o == strings[x]
            m == TextOf(x)
            f == meant[y]
        IN /\ \A from \in 0 .. MaxText :
                 /\ f # <<>> => /\ indexOf(o, f, from) = Least(Places(m, f, from))
                                /\ LastIndexOf(o, f, from) = Greatest({p \in Places(m, f, 0) : p <= from})
                 /\ from <= Len(m) /\ IsValid(o) => (startsWith(o, f, from) <=> from \in Places(m, f, from))
                 /\ LET b == getBytes(o, from + 1, 1)
                    IN Len(b) <= from /\ b = SubSeq(m, 2, 1 + Len(b)) /\ (Len(b) < from => Len(b) >= Len(m) - 1)
           /\ IsValid(o) => (endsWith(o, f) <=> \E p \in Places(m, f, 0) : p + Len(f) = Len(m))
           /\ equals(o, strings[y]) <=> m = f
           /\ equals(o, strings[y]) => equalsIgnoreCase(o, strings[y])
           /\ compareTo(o, strings[y]) = -compareTo(strings[y], o)
=============================================================================
