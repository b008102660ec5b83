-------------------------------- MODULE Text --------------------------------
(***************************************************************************)
(* Print and Stream: how numbers become text and text becomes numbers, and *)
(* the searches of a stream that takes its characters one by one, each in  *)
(* time or not (timedRead() and timedPeek() return -1 then).               *)
(*                                                                         *)
(* A digit is its value, other characters are codes above fifteen.  A long *)
(* has LongBits bits; a double is an exact number of thousandths, its      *)
(* rounding, nan, inf and ovf are left out.                                *)
(***************************************************************************)
EXTENDS Integers, Sequences

CONSTANTS
    LongBits,   \* of a long
    Longs,      \* bound: numbers to print, as unsigned long
    Letter,     \* two characters, of searched texts
    MaxTarget,  \* bound: the length of a target
    MaxHeard    \* bound: the characters that one call takes

ASSUME TextAssumption == {MaxTarget, MaxHeard} \subseteq Nat

VARIABLES
    said,       \* a text that a sketch may print, and then parse
    call,       \* the search or the read in progress
    taken       \* the characters it took

textVars == <<said, call, taken>>

Minus == 16
Point == 17
Space == 18
Other == 19
Comma == 20     \* an ignored character
LongWide == 2 ^ LongBits
Long(v) == ((v + LongWide \div 2) % LongWide) - LongWide \div 2
Unit == 1000
Targets == UNION {[1 .. k -> Letter] : k \in 0 .. MaxTarget}

------------------------------------------------------------------------------
\* Forms an error could give the operators below; no action uses them.
LastFirst(n, base) ==
    LET digits[k \in 0 .. n] == IF k < base THEN <<k>> ELSE <<k % base>> \o digits[k \div base] IN digits[n]
FromTheStart(t, index, c) == IF c = t[index + 1] THEN index + 1 ELSE IF c = t[1] THEN 1 ELSE 0

\* printNumber(): the digits from the last one on
printNumber(n, base) ==
    LET digits[k \in 0 .. n] == IF k < base THEN <<k>> ELSE Append(digits[k \div base], k % base) IN digits[n]

\* print(long), of a negative number the digits of -n
printLong(n) == IF n < 0 THEN <<Minus>> \o printNumber((-n) % LongWide, 10) ELSE printNumber(n, 10)

\* printFloat(): rounded, then digit by digit
printFloat(number, digits) ==
    LET rounded == (IF number < 0 THEN -number ELSE number) + (Unit \div 2) \div (10 ^ digits)
        remainder[d \in 0 .. digits] == IF d = 0 THEN rounded % Unit ELSE (10 * remainder[d - 1]) % Unit
    IN (IF number < 0 THEN <<Minus>> ELSE <<>>) \o printNumber(rounded \div Unit, 10)
       \o (IF digits > 0 THEN <<Point>> ELSE <<>>) \o [d \in 1 .. digits |-> (10 * remainder[d - 1]) \div Unit]

\* peekNextDigit(): where a number starts, or 0; the end of the text is a timeout
peekNextDigit(t, lookahead, detectDecimal) ==
    LET starts(i) == t[i] \in 0 .. 9 \/ t[i] = Minus \/ (detectDecimal /\ t[i] = Point)
        skips(i) == lookahead = "all" \/ (lookahead = "whitespace" /\ t[i] = Space)
        places == {i \in 1 .. Len(t) : starts(i) /\ \A j \in 1 .. i - 1 : ~starts(j) /\ skips(j)}
    IN IF places = {} THEN 0 ELSE CHOOSE i \in places : TRUE

Continues(t, i, ignore) == t[i] \in 0 .. 9 \/ t[i] = ignore

\* what parseInt() consumes: the character it found, and what continues it
Run(t, i, ignore) ==
    SubSeq(t, i, CHOOSE e \in i .. Len(t) : /\ \A j \in i + 1 .. e : Continues(t, j, ignore)
                                           /\ (e = Len(t) \/ ~Continues(t, e + 1, ignore)))

ValueOf(r, ignore) ==
    LET value[k \in 0 .. Len(r)] ==
            IF k = 0 THEN 0
            ELSE IF r[k] # ignore /\ r[k] \in 0 .. 9 THEN Long(10 * value[k - 1] + r[k]) ELSE value[k - 1]
    IN value[Len(r)]

parseInt(t, lookahead, ignore) ==
    LET i == peekNextDigit(t, lookahead, FALSE)
        r == Run(t, i, ignore)
    IN IF i = 0 THEN 0
       ELSE IF r[1] = Minus THEN Long(-ValueOf(r, ignore)) ELSE ValueOf(r, ignore)

\* parseFloat(): a run of digits with at most one point; value and the digits behind it
parseFloat(t, lookahead, ignore) ==
    LET i == peekNextDigit(t, lookahead, TRUE)
        points(j) == \E k \in i .. j - 1 : t[k] = Point
        goesOn(j) == Continues(t, j, ignore) \/ (t[j] = Point /\ ~points(j))
        end == CHOOSE e \in i .. Len(t) : (\A j \in i + 1 .. e : goesOn(j)) /\ (e = Len(t) \/ ~goesOn(e + 1))
        r == SubSeq(t, i, end)
        value == ValueOf(r, ignore)
        behind == {j \in 1 .. Len(r) : r[j] \in 0 .. 9 /\ \E k \in 1 .. j - 1 : r[k] = Point}
    IN IF i = 0 THEN <<0, 0>>
       ELSE <<IF r[1] = Minus THEN Long(-value) ELSE value, IF behind = {} THEN 0 ELSE 1 + Len(r) - (CHOOSE j \in behind : \A k \in behind : j <= k)>>

\* IPAddress: four bytes, and the text "1.2.3.4"
printTo(bytes) ==
    printNumber(bytes[1], 10) \o <<Point>> \o printNumber(bytes[2], 10) \o <<Point>>
        \o printNumber(bytes[3], 10) \o <<Point>> \o printNumber(bytes[4], 10)

\* fromString(): what the object holds, and whether it says that it is right
fromString(t, before) ==
    LET next(s, c) ==
            CASE ~s.ok -> s
              [] s.ok /\ c \in 0 .. 9 /\ 10 * s.acc + c <= 255 -> [s EXCEPT !.acc = 10 * @ + c]
              [] s.ok /\ c = Point /\ s.dots < 3 -> [s EXCEPT !.acc = 0, !.dots = @ + 1, !.bytes[s.dots + 1] = s.acc]
              [] OTHER -> [s EXCEPT !.ok = FALSE]
        s[k \in 0 .. Len(t)] ==
            IF k = 0 THEN [ok |-> TRUE, acc |-> 0, dots |-> 0, bytes |-> before] ELSE next(s[k - 1], t[k])
        all == s[Len(t)]
    IN IF all.ok /\ all.dots = 3 THEN [all EXCEPT !.bytes[4] = all.acc] ELSE [all EXCEPT !.ok = FALSE]

------------------------------------------------------------------------------
\* findMulti(): how much of a target ends with the character, after index of it
\* did.  It walks back to a shorter start, and compares what lies before.
Walked(t, index, c) ==
    LET fits(k) == c = t[k + 1] /\ \A i \in 1 .. k : t[i] = t[i + index - k]
        back == {k \in 0 .. index - 1 : fits(k)}
    IN IF c = t[index + 1] THEN index + 1
       ELSE IF back = {} THEN 0 ELSE 1 + (CHOOSE k \in back : \A j \in back : j <= k)

Idle == [kind |-> "none", targets |-> <<>>, index |-> <<>>, result |-> -1]

\* find(), findUntil(): a target without characters is found at once
Find(targets) ==
    LET empty == {n \in DOMAIN targets : targets[n] = <<>>}
    IN /\ call' = IF empty = {} THEN [kind |-> "find", targets |-> targets, index |-> [n \in DOMAIN targets |-> 0], result |-> -1]
                  ELSE [kind |-> "found", targets |-> targets, index |-> [n \in DOMAIN targets |-> 0],
                        result |-> CHOOSE n \in empty : \A m \in empty : n <= m]
       /\ taken' = <<>> /\ UNCHANGED said

Begins == call = Idle /\ said = <<>>

FindCalled == Begins /\ \/ \E t \in Targets : Find(<<t>>)
                        \/ \E t, u \in Targets : Find(<<t, u>>)

\* targets later in the row than one that is found do not take the character
FindHears(c) ==
    /\ call.kind = "find" /\ Len(taken) < MaxHeard
    /\ taken' = Append(taken, c)
    /\ LET index == [n \in DOMAIN call.targets |-> Walked(call.targets[n], call.index[n], c)]
           whole == {n \in DOMAIN index : index[n] = Len(call.targets[n])}
       IN call' = IF whole = {} THEN [call EXCEPT !.index = index]
                  ELSE [call EXCEPT !.kind = "found", !.result = CHOOSE n \in whole : \A m \in whole : n <= m]
    /\ UNCHANGED said

\* readBytesUntil() and readBytes(): index counts, targets is the stop if there is
\* one; readString() and readStringUntil() have no length.
ReadCalled ==
    /\ Begins
    /\ \E stop \in {<<>>} \union {<<c>> : c \in Letter}, length \in 1 .. MaxHeard :
          call' = [kind |-> "bytes", targets |-> stop, index |-> <<length, 0>>, result |-> -1]
    /\ UNCHANGED <<said, taken>>

ReadHears(c) ==
    /\ call.kind = "bytes"
    /\ taken' = Append(taken, c)
    /\ call' = IF <<c>> = call.targets THEN [call EXCEPT !.kind = "read", !.result = call.index[2]]
               ELSE IF call.index[2] + 1 = call.index[1]
                    THEN [call EXCEPT !.kind = "read", !.index[2] = @ + 1, !.result = call.index[1]]
               ELSE [call EXCEPT !.index[2] = @ + 1]
    /\ UNCHANGED said

TimesOut ==
    \/ call.kind = "find" /\ call' = [call EXCEPT !.kind = "lost"] /\ UNCHANGED <<said, taken>>
    \/ call.kind = "bytes" /\ call' = [call EXCEPT !.kind = "read", !.result = call.index[2]] /\ UNCHANGED <<said, taken>>

\* the sketch goes on: another call, another text
Forget ==
    /\ call.kind \in {"found", "lost", "read"} \/ said # <<>>
    /\ call' = Idle /\ taken' = <<>> /\ said' = <<>>

Says ==
    /\ Begins
    /\ \E n \in Longs : said' = <<Long(n)>>
    /\ UNCHANGED <<call, taken>>

TextInit == said = <<>> /\ call = Idle /\ taken = <<>>

TextNext ==
    \/ Says \/ FindCalled \/ ReadCalled \/ TimesOut \/ Forget
    \/ \E c \in Letter : FindHears(c) \/ ReadHears(c)

TextSpec == TextInit /\ [][TextNext]_textVars

------------------------------------------------------------------------------
EndsWith(h, t, k) == k <= Len(h) /\ SubSeq(h, Len(h) - k + 1, Len(h)) = SubSeq(t, 1, k)
Found(h, t) == EndsWith(h, t, Len(t))

(* A search ends with the first character that completes a target and takes *)
(* no more; until then it knows of the longest start of each target that    *)
(* could still become one, however the start repeats itself ("'1112'        *)
(* doesn't match the first position in '11112'", Stream.cpp:291).           *)
FindsFirst ==
    /\ call.kind = "find" =>
         \A n \in DOMAIN call.targets :
             LET t == call.targets[n]
             IN /\ ~\E k \in 0 .. Len(taken) : Found(SubSeq(taken, 1, k), t)
                /\ EndsWith(taken, t, call.index[n])
                /\ \A k \in call.index[n] + 1 .. Len(t) : ~EndsWith(taken, t, k)
    /\ call.kind = "found" =>
         /\ Found(taken, call.targets[call.result])
         /\ \A n \in DOMAIN call.targets, k \in 0 .. Len(taken) :
               Found(SubSeq(taken, 1, k), call.targets[n]) => k = Len(taken) /\ n >= call.result
    /\ call.kind = "read" =>
         /\ Len(taken) - call.result \in {0, 1}
         /\ call.result < Len(taken) => <<taken[Len(taken)]>> = call.targets
         /\ \A i \in 1 .. call.result : <<taken[i]>> # call.targets

(* What one sketch prints another one parses: the same number, behind       *)
(* whatever the lookahead skips and with ignored characters within it; and  *)
(* a fraction to half a unit of its last digit.                             *)
NumberSurvives ==
    \A n \in {said[i] : i \in DOMAIN said} :
        LET t == printLong(n)
            commas == [i \in 1 .. 2 * Len(t) - 1 |-> IF i % 2 = 0 THEN Comma ELSE t[(i + 1) \div 2]]
        IN /\ \A after \in {<<>>, <<Space>>, <<Minus, 1>>, <<Point>>} :
                 /\ parseInt(<<Space, Space>> \o t \o after, "whitespace", Comma) = n
                 /\ parseInt(<<Other, Space>> \o t \o after, "all", Comma) = n
                 /\ parseInt(commas \o after, "none", Comma) = n
           /\ \A d \in 0 .. 2 :
                 LET f == parseFloat(<<Other>> \o printFloat(n, d) \o <<Point>>, "all", Comma)
                     error == f[1] * (Unit \div 10 ^ f[2]) - n
                 IN f[2] = d /\ 2 * (IF error < 0 THEN -error ELSE error) <= Unit \div 10 ^ d
           /\ \A base \in {2, 10, 16} :
                 LET digits == printNumber(n % LongWide, base)
                     value[i \in 0 .. Len(digits)] == IF i = 0 THEN 0 ELSE base * value[i - 1] + digits[i]
                 IN value[Len(digits)] = n % LongWide /\ (Len(digits) > 1 => digits[1] # 0)

(* An address that is printed is read back as the same one, whatever the    *)
(* object held; with a part more or less, a part above 255 or another       *)
(* character it is refused (IPAddress.cpp:46-86,105-115).                   *)
AddressSurvives ==
    \A n \in {said[i] : i \in DOMAIN said} :
        LET address == <<n % 256, (n \div 256) % 256, (n + 7) % 256, 255>>
            t == printTo(address)
            of(text) == fromString(text, <<9, 9, 9, 9>>)
        IN /\ of(t).ok /\ of(t).bytes = address
           /\ \A wrong \in {t \o <<Point, 1>>, <<1, Point>> \o t, t \o <<0>>, t \o <<Space>>, SubSeq(t, 1, Len(t) - 4)} :
                 ~of(wrong).ok

NumbersSurvive == NumberSurvives /\ AddressSurvives
=============================================================================
