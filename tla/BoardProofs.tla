----------------------------- MODULE BoardProofs -----------------------------
(***************************************************************************)
(* What is proved of the board: serial ports in software and the LCD's     *)
(* text, which an interrupt handler shares with the main line, objects in  *)
(* an EEPROM whose power fails, and the calls that count cycles, each for  *)
(* any ring, number of objects, sizes and widths; and from these and       *)
(* PartsProofs what the whole board keeps.                                 *)
(***************************************************************************)
EXTENDS Board, PartsProofs

------------------------------------------------------------------------------
(***************************************************************************)
(* SoftwareSerial.  What can be left of a call: the steps that stop the    *)
(* listener, with or without those that make another one it, and the two   *)
(* of read().                                                              *)
(***************************************************************************)
Listening ==
    {<<"flag", "tail", "head", "thisLow", "thisHigh", "maskOn">>,
     <<"tail", "head", "thisLow", "thisHigh", "maskOn">>, <<"head", "thisLow", "thisHigh", "maskOn">>,
     <<"thisLow", "thisHigh", "maskOn">>, <<"thisHigh", "maskOn">>, <<"maskOn">>}
Changing ==
    {<<"maskOff", "nullLow", "nullHigh", "flag", "tail", "head", "thisLow", "thisHigh", "maskOn">>,
     <<"nullLow", "nullHigh", "flag", "tail", "head", "thisLow", "thisHigh", "maskOn">>,
     <<"nullHigh", "flag", "tail", "head", "thisLow", "thisHigh", "maskOn">>}
Stopping == {<<"maskOff", "nullLow", "nullHigh">>, <<"nullLow", "nullHigh">>, <<"nullHigh">>}
Reading == {<<"load", "advance">>, <<"advance">>}

PortOps == {"maskOff", "nullLow", "nullHigh", "flag", "tail", "head", "thisLow", "thisHigh", "maskOn"}

\* the step that comes next, if one does
Foremost(s) == IF s = <<>> THEN "none" ELSE Head(s)
Upcoming == Foremost(portTodo)

PortTypes ==
    /\ active_object \in [low : Ports \cup {Nobody}, high : Ports \cup {Nobody}]
    /\ PCMSK \subseteq Ports /\ delays \subseteq Ports /\ overflow \in [Ports -> BOOLEAN] /\ missed \in BOOLEAN
    /\ _head \in 0 .. MaxBuff - 1 /\ _tail \in 0 .. MaxBuff - 1
    /\ DOMAIN _buffer = 0 .. MaxBuff - 1 /\ heard \in Seq(Heard)
    /\ \/ portTodo \in Listening \cup Changing /\ portArg \in delays
       \/ portTodo \in Stopping \cup Reading \cup {<<>>}

\* both bytes of the pointer, but for the moment they are being stored
Whose ==
    LET low == active_object.low
        high == active_object.high
    IN CASE Upcoming = "none" -> low = high /\ low \in delays \cup {Nobody}
         [] Upcoming = "maskOn" -> low = portArg /\ high = portArg
         [] Upcoming \in {"load", "advance", "maskOff", "nullLow"} -> low = high /\ low \in delays
         [] Upcoming = "nullHigh" -> low = Nobody /\ high \in delays
         [] Upcoming \in {"flag", "tail", "head", "thisLow"} -> low = Nobody /\ high = Nobody
         [] Upcoming = "thisHigh" -> low = portArg /\ high = Nobody

\* only the listener's pin interrupts, and none while the listener changes
MaskFits ==
    ~unmasked => IF Upcoming \in {"none", "load", "advance", "maskOff"} THEN PCMSK \subseteq {active_object.low} ELSE PCMSK = {}

InRing(head, tail, buffer, bytes) ==
    /\ Len(bytes) = (tail + MaxBuff - head) % MaxBuff
    /\ \A i \in 1 .. Len(bytes) : buffer[(head + i - 1) % MaxBuff] = bytes[i]

RingHeld ==
    /\ Upcoming \notin {"tail", "head"} => InRing(_head, _tail, _buffer, heard)
    /\ Upcoming \in {"tail", "head"} => heard = <<>>
    /\ Upcoming = "head" => _tail = 0
    /\ Upcoming \in {"load", "advance"} => heard # <<>>
    /\ portAnswer[1] = portAnswer[2]

MissedSays ==
    /\ \A p \in Ports : missed /\ active_object = Pointer(p) => overflow[p]
    /\ Upcoming \in {"tail", "head", "thisLow", "thisHigh"} => ~missed

PortInv == PortTypes /\ Whose /\ MaskFits /\ RingHeld /\ MissedSays

(* Which step follows which in a call that makes an object the listener.   *)
LEMMA ListenForm ==
    ASSUME NEW s \in Listening \cup Changing
    PROVE  /\ s # <<>> /\ Tail(s) \in Listening \cup Changing \cup {<<>>}
           /\ \/ Head(s) = "maskOff" /\ Foremost(Tail(s)) = "nullLow"
              \/ Head(s) = "nullLow" /\ Foremost(Tail(s)) = "nullHigh"
              \/ Head(s) = "nullHigh" /\ Foremost(Tail(s)) = "flag"
              \/ Head(s) = "flag" /\ Foremost(Tail(s)) = "tail"
              \/ Head(s) = "tail" /\ Foremost(Tail(s)) = "head"
              \/ Head(s) = "head" /\ Foremost(Tail(s)) = "thisLow"
              \/ Head(s) = "thisLow" /\ Foremost(Tail(s)) = "thisHigh"
              \/ Head(s) = "thisHigh" /\ Foremost(Tail(s)) = "maskOn"
              \/ Head(s) = "maskOn" /\ Foremost(Tail(s)) = "none"
<1>1. CASE s = <<"flag", "tail", "head", "thisLow", "thisHigh", "maskOn">>
  <2>1. s # <<>> /\ Head(s) = "flag" /\ Tail(s) = <<"tail", "head", "thisLow", "thisHigh", "maskOn">>
    BY <1>1
  <2>2. <<"tail", "head", "thisLow", "thisHigh", "maskOn">> # <<>> /\ Head(<<"tail", "head", "thisLow", "thisHigh", "maskOn">>) = "tail"
    OBVIOUS
  <2> QED
    BY <2>1, <2>2, Zenon DEF Foremost, Listening, Changing
<1>2. CASE s = <<"tail", "head", "thisLow", "thisHigh", "maskOn">>
  <2>1. s # <<>> /\ Head(s) = "tail" /\ Tail(s) = <<"head", "thisLow", "thisHigh", "maskOn">>
    BY <1>2
  <2>2. <<"head", "thisLow", "thisHigh", "maskOn">> # <<>> /\ Head(<<"head", "thisLow", "thisHigh", "maskOn">>) = "head"
    OBVIOUS
  <2> QED
    BY <2>1, <2>2, Zenon DEF Foremost, Listening, Changing
<1>3. CASE s = <<"head", "thisLow", "thisHigh", "maskOn">>
  <2>1. s # <<>> /\ Head(s) = "head" /\ Tail(s) = <<"thisLow", "thisHigh", "maskOn">>
    BY <1>3
  <2>2. <<"thisLow", "thisHigh", "maskOn">> # <<>> /\ Head(<<"thisLow", "thisHigh", "maskOn">>) = "thisLow"
    OBVIOUS
  <2> QED
    BY <2>1, <2>2, Zenon DEF Foremost, Listening, Changing
<1>4. CASE s = <<"thisLow", "thisHigh", "maskOn">>
  <2>1. s # <<>> /\ Head(s) = "thisLow" /\ Tail(s) = <<"thisHigh", "maskOn">>
    BY <1>4
  <2>2. <<"thisHigh", "maskOn">> # <<>> /\ Head(<<"thisHigh", "maskOn">>) = "thisHigh"
    OBVIOUS
  <2> QED
    BY <2>1, <2>2, Zenon DEF Foremost, Listening, Changing
<1>5. CASE s = <<"thisHigh", "maskOn">>
  <2>1. s # <<>> /\ Head(s) = "thisHigh" /\ Tail(s) = <<"maskOn">>
    BY <1>5
  <2>2. <<"maskOn">> # <<>> /\ Head(<<"maskOn">>) = "maskOn"
    OBVIOUS
  <2> QED
    BY <2>1, <2>2, Zenon DEF Foremost, Listening, Changing
<1>6. CASE s = <<"maskOn">>
  <2>1. s # <<>> /\ Head(s) = "maskOn" /\ Tail(s) = <<>>
    BY <1>6
  <2> QED
    BY <2>1, Zenon DEF Foremost, Listening, Changing
<1>7. CASE s = <<"maskOff", "nullLow", "nullHigh", "flag", "tail", "head", "thisLow", "thisHigh", "maskOn">>
  <2>1. s # <<>> /\ Head(s) = "maskOff" /\ Tail(s) = <<"nullLow", "nullHigh", "flag", "tail", "head", "thisLow", "thisHigh", "maskOn">>
    BY <1>7
  <2>2. <<"nullLow", "nullHigh", "flag", "tail", "head", "thisLow", "thisHigh", "maskOn">> # <<>> /\ Head(<<"nullLow", "nullHigh", "flag", "tail", "head", "thisLow", "thisHigh", "maskOn">>) = "nullLow"
    OBVIOUS
  <2> QED
    BY <2>1, <2>2, Zenon DEF Foremost, Listening, Changing
<1>8. CASE s = <<"nullLow", "nullHigh", "flag", "tail", "head", "thisLow", "thisHigh", "maskOn">>
  <2>1. s # <<>> /\ Head(s) = "nullLow" /\ Tail(s) = <<"nullHigh", "flag", "tail", "head", "thisLow", "thisHigh", "maskOn">>
    BY <1>8
  <2>2. <<"nullHigh", "flag", "tail", "head", "thisLow", "thisHigh", "maskOn">> # <<>> /\ Head(<<"nullHigh", "flag", "tail", "head", "thisLow", "thisHigh", "maskOn">>) = "nullHigh"
    OBVIOUS
  <2> QED
    BY <2>1, <2>2, Zenon DEF Foremost, Listening, Changing
<1>9. CASE s = <<"nullHigh", "flag", "tail", "head", "thisLow", "thisHigh", "maskOn">>
  <2>1. s # <<>> /\ Head(s) = "nullHigh" /\ Tail(s) = <<"flag", "tail", "head", "thisLow", "thisHigh", "maskOn">>
    BY <1>9
  <2>2. <<"flag", "tail", "head", "thisLow", "thisHigh", "maskOn">> # <<>> /\ Head(<<"flag", "tail", "head", "thisLow", "thisHigh", "maskOn">>) = "flag"
    OBVIOUS
  <2> QED
    BY <2>1, <2>2, Zenon DEF Foremost, Listening, Changing
<1> QED
  BY <1>1, <1>2, <1>3, <1>4, <1>5, <1>6, <1>7, <1>8, <1>9, Zenon DEF Listening, Changing

(* And in one that stops it, or reads.                                     *)
LEMMA StopForm ==
    ASSUME NEW s \in Stopping \cup Reading
    PROVE  /\ s # <<>> /\ Tail(s) \in Stopping \cup Reading \cup {<<>>}
           /\ \/ Head(s) = "maskOff" /\ Foremost(Tail(s)) = "nullLow"
              \/ Head(s) = "nullLow" /\ Foremost(Tail(s)) = "nullHigh"
              \/ Head(s) = "nullHigh" /\ Foremost(Tail(s)) = "none"
              \/ Head(s) = "load" /\ Foremost(Tail(s)) = "advance"
              \/ Head(s) = "advance" /\ Foremost(Tail(s)) = "none"
<1>1. CASE s = <<"maskOff", "nullLow", "nullHigh">>
  <2>1. s # <<>> /\ Head(s) = "maskOff" /\ Tail(s) = <<"nullLow", "nullHigh">>
    BY <1>1
  <2>2. <<"nullLow", "nullHigh">> # <<>> /\ Head(<<"nullLow", "nullHigh">>) = "nullLow"
    OBVIOUS
  <2> QED
    BY <2>1, <2>2, Zenon DEF Foremost, Stopping, Reading
<1>2. CASE s = <<"nullLow", "nullHigh">>
  <2>1. s # <<>> /\ Head(s) = "nullLow" /\ Tail(s) = <<"nullHigh">>
    BY <1>2
  <2>2. <<"nullHigh">> # <<>> /\ Head(<<"nullHigh">>) = "nullHigh"
    OBVIOUS
  <2> QED
    BY <2>1, <2>2, Zenon DEF Foremost, Stopping, Reading
<1>3. CASE s = <<"nullHigh">>
  <2>1. s # <<>> /\ Head(s) = "nullHigh" /\ Tail(s) = <<>>
    BY <1>3
  <2> QED
    BY <2>1, Zenon DEF Foremost, Stopping, Reading
<1>4. CASE s = <<"load", "advance">>
  <2>1. s # <<>> /\ Head(s) = "load" /\ Tail(s) = <<"advance">>
    BY <1>4
  <2>2. <<"advance">> # <<>> /\ Head(<<"advance">>) = "advance"
    OBVIOUS
  <2> QED
    BY <2>1, <2>2, Zenon DEF Foremost, Stopping, Reading
<1>5. CASE s = <<"advance">>
  <2>1. s # <<>> /\ Head(s) = "advance" /\ Tail(s) = <<>>
    BY <1>5
  <2> QED
    BY <2>1, Zenon DEF Foremost, Stopping, Reading
<1> QED
  BY <1>1, <1>2, <1>3, <1>4, <1>5, Zenon DEF Stopping, Reading

(* The ring: the index that follows, the number of bytes between two       *)
(* indices, and the place of the k-th byte, without the modulus.           *)
LEMMA PlacesIs ==
    /\ \A i \in 0 .. MaxBuff - 1 :
           Following(i) \in 0 .. MaxBuff - 1 /\ Following(i) = IF i = MaxBuff - 1 THEN 0 ELSE i + 1
    /\ \A h, t \in 0 .. MaxBuff - 1 : (t + MaxBuff - h) % MaxBuff = IF t >= h THEN t - h ELSE t + MaxBuff - h
    /\ \A h \in 0 .. MaxBuff - 1, k \in 1 .. MaxBuff :
           (h + k - 1) % MaxBuff = IF h + k - 1 < MaxBuff THEN h + k - 1 ELSE h + k - 1 - MaxBuff
<1>1. \A i \in 0 .. MaxBuff - 1 :
           Following(i) \in 0 .. MaxBuff - 1 /\ Following(i) = IF i = MaxBuff - 1 THEN 0 ELSE i + 1
  BY SoftSerialAssumption DEF Following
<1>2. \A h, t \in 0 .. MaxBuff - 1 : (t + MaxBuff - h) % MaxBuff = IF t >= h THEN t - h ELSE t + MaxBuff - h
  BY SoftSerialAssumption
<1>3. \A h \in 0 .. MaxBuff - 1, k \in 1 .. MaxBuff :
           (h + k - 1) % MaxBuff = IF h + k - 1 < MaxBuff THEN h + k - 1 ELSE h + k - 1 - MaxBuff
  BY SoftSerialAssumption
<1> QED
  BY <1>1, <1>2, <1>3

(* A byte that is put into a ring that is not full waits behind the others.*)
LEMMA PutKeeps ==
    ASSUME NEW h \in 0 .. MaxBuff - 1, NEW t \in 0 .. MaxBuff - 1, NEW b, DOMAIN b = 0 .. MaxBuff - 1,
           NEW s \in Seq(Heard), NEW d \in Heard, InRing(h, t, b, s), Following(t) # h
    PROVE  InRing(h, Following(t), [b EXCEPT ![t] = d], Append(s, d))
<1>1. PICK n \in Nat : n = Len(s)
  BY LenProperties
<1>2. Len(Append(s, d)) = n + 1 /\ Append(s, d)[n + 1] = d /\ \A i \in 1 .. n : Append(s, d)[i] = s[i]
  BY <1>1, AppendProperties
<1>3. PICK u \in 0 .. MaxBuff - 1 : u = Following(t) /\ u = IF t = MaxBuff - 1 THEN 0 ELSE t + 1
  BY PlacesIs
<1>4. n = IF t >= h THEN t - h ELSE t + MaxBuff - h
  BY <1>1, PlacesIs DEF InRing
<1>5. (u + MaxBuff - h) % MaxBuff = n + 1 /\ n + 1 <= MaxBuff
  <2>1. (u + MaxBuff - h) % MaxBuff = IF u >= h THEN u - h ELSE u + MaxBuff - h
    BY PlacesIs
  <2> QED
    BY <1>3, <1>4, <2>1, SoftSerialAssumption
<1>6. (h + (n + 1) - 1) % MaxBuff = t
  <2>1. PICK k \in 1 .. MaxBuff : k = n + 1
    BY <1>5, SoftSerialAssumption
  <2>2. (h + k - 1) % MaxBuff = IF h + k - 1 < MaxBuff THEN h + k - 1 ELSE h + k - 1 - MaxBuff
    BY PlacesIs
  <2> QED
    BY <1>4, <2>1, <2>2, SoftSerialAssumption
<1>7. \A i \in 1 .. n : (h + i - 1) % MaxBuff \in 0 .. MaxBuff - 1 /\ (h + i - 1) % MaxBuff # t
  <2>1. SUFFICES ASSUME NEW i \in 1 .. n
                 PROVE (h + i - 1) % MaxBuff \in 0 .. MaxBuff - 1 /\ (h + i - 1) % MaxBuff # t
    OBVIOUS
  <2>2. i \in 1 .. MaxBuff
    BY <1>5, SoftSerialAssumption
  <2>3. (h + i - 1) % MaxBuff = IF h + i - 1 < MaxBuff THEN h + i - 1 ELSE h + i - 1 - MaxBuff
    BY <2>2, PlacesIs
  <2> QED
    BY <1>4, <2>2, <2>3, SoftSerialAssumption
<1>8. \A i \in 1 .. n + 1 : [b EXCEPT ![t] = d][(h + i - 1) % MaxBuff] = Append(s, d)[i]
  <2>1. SUFFICES ASSUME NEW i \in 1 .. n + 1 PROVE [b EXCEPT ![t] = d][(h + i - 1) % MaxBuff] = Append(s, d)[i]
    OBVIOUS
  <2>2. CASE i = n + 1
    BY <1>2, <1>6, <2>2
  <2>3. CASE i \in 1 .. n
    <3>1. PICK k : k = (h + i - 1) % MaxBuff
      OBVIOUS
    <3>2. b[k] = s[i] /\ k \in 0 .. MaxBuff - 1 /\ k # t
      BY <1>1, <1>7, <2>3, <3>1 DEF InRing
    <3> QED
      BY <1>2, <2>3, <3>1, <3>2
  <2>4. i = n + 1 \/ i \in 1 .. n
    OBVIOUS
  <2> QED
    BY <2>2, <2>3, <2>4, Zenon
<1> QED
  BY <1>2, <1>3, <1>5, <1>8 DEF InRing

(* The byte at the head is the first that waits; behind it are the others. *)
LEMMA TakeKeeps ==
    ASSUME NEW h \in 0 .. MaxBuff - 1, NEW t \in 0 .. MaxBuff - 1, NEW b,
           NEW s \in Seq(Heard), InRing(h, t, b, s), s # <<>>
    PROVE  b[h] = Head(s) /\ InRing(Following(h), t, b, Tail(s))
<1>1. PICK n \in Nat : n = Len(s)
  BY LenProperties
<1>2. n > 0 /\ Head(s) = s[1] /\ Len(Tail(s)) = n - 1 /\ \A i \in 1 .. n - 1 : Tail(s)[i] = s[i + 1]
  BY <1>1, EmptySeq, HeadTailProperties
<1>3. PICK u \in 0 .. MaxBuff - 1 : u = Following(h) /\ u = IF h = MaxBuff - 1 THEN 0 ELSE h + 1
  BY PlacesIs
<1>4. n = IF t >= h THEN t - h ELSE t + MaxBuff - h
  BY <1>1, PlacesIs DEF InRing
<1>5. b[h] = s[1]
  <2>1. (h + 1 - 1) % MaxBuff = h
    BY SoftSerialAssumption
  <2>2. 1 \in 1 .. Len(s)
    BY <1>1, <1>2
  <2> QED
    BY <2>1, <2>2 DEF InRing
<1>6. (t + MaxBuff - u) % MaxBuff = n - 1
  <2>1. (t + MaxBuff - u) % MaxBuff = IF t >= u THEN t - u ELSE t + MaxBuff - u
    BY PlacesIs
  <2> QED
    BY <1>2, <1>3, <1>4, <2>1, SoftSerialAssumption
<1>7. \A i \in 1 .. n - 1 : b[(u + i - 1) % MaxBuff] = Tail(s)[i]
  <2>1. SUFFICES ASSUME NEW i \in 1 .. n - 1 PROVE b[(u + i - 1) % MaxBuff] = Tail(s)[i]
    OBVIOUS
  <2>2. i \in 1 .. MaxBuff /\ i + 1 \in 1 .. MaxBuff /\ i + 1 \in 1 .. n
    BY <1>4, SoftSerialAssumption
  <2>3. (u + i - 1) % MaxBuff = IF u + i - 1 < MaxBuff THEN u + i - 1 ELSE u + i - 1 - MaxBuff
    BY <2>2, PlacesIs
  <2>4. (h + (i + 1) - 1) % MaxBuff = IF h + (i + 1) - 1 < MaxBuff THEN h + (i + 1) - 1 ELSE h + (i + 1) - 1 - MaxBuff
    BY <2>2, PlacesIs
  <2>5. (u + i - 1) % MaxBuff = (h + (i + 1) - 1) % MaxBuff
    BY <1>3, <2>2, <2>3, <2>4, SoftSerialAssumption
  <2>6. b[(h + (i + 1) - 1) % MaxBuff] = s[i + 1]
    BY <1>1, <2>2 DEF InRing
  <2> QED
    BY <1>2, <2>5, <2>6
<1> QED
  BY <1>2, <1>3, <1>5, <1>6, <1>7 DEF InRing

\* A ring whose indices are equal is empty.
LEMMA NoneInRing ==
    ASSUME NEW h \in 0 .. MaxBuff - 1, NEW b
    PROVE  InRing(h, h, b, <<>>)
<1>1. (h + MaxBuff - h) % MaxBuff = 0
  BY SoftSerialAssumption
<1>2. Len(<<>>) = 0
  OBVIOUS
<1> QED
  BY <1>1, <1>2 DEF InRing

\* A change of the listener stops the one before.
LEMMA StopThenListen ==
    StopSteps \o ListenSteps
        = <<"maskOff", "nullLow", "nullHigh", "flag", "tail", "head", "thisLow", "thisHigh", "maskOn">>
<1> DEFINE a == StopSteps
           b == ListenSteps
           c == <<"maskOff", "nullLow", "nullHigh", "flag", "tail", "head", "thisLow", "thisHigh", "maskOn">>
<1>1. a \in Seq(PortOps) /\ Len(a) = 3 /\ a[1] = "maskOff" /\ a[2] = "nullLow" /\ a[3] = "nullHigh"
  BY DEF StopSteps, PortOps
<1>2. /\ b \in Seq(PortOps) /\ Len(b) = 6 /\ b[1] = "flag" /\ b[2] = "tail" /\ b[3] = "head"
      /\ b[4] = "thisLow" /\ b[5] = "thisHigh" /\ b[6] = "maskOn"
  BY DEF ListenSteps, PortOps
<1>3. /\ c \in Seq(PortOps) /\ Len(c) = 9 /\ c[1] = "maskOff" /\ c[2] = "nullLow" /\ c[3] = "nullHigh"
      /\ c[4] = "flag" /\ c[5] = "tail" /\ c[6] = "head" /\ c[7] = "thisLow" /\ c[8] = "thisHigh" /\ c[9] = "maskOn"
  BY DEF PortOps
<1> HIDE DEF a, b, c
<1>4. /\ a \o b \in Seq(PortOps) /\ Len(a \o b) = Len(a) + Len(b)
      /\ \A n \in 1 .. Len(a) + Len(b) : (a \o b)[n] = IF n <= Len(a) THEN a[n] ELSE b[n - Len(a)]
  BY <1>1, <1>2, ConcatProperties
<1>5. Len(a) + Len(b) = 9 /\ Len(a) = 3
  BY <1>1, <1>2
<1>6. Len(a \o b) = 9 /\ \A n \in 1 .. 9 : (a \o b)[n] = c[n]
  <2>1. Len(a \o b) = 9
    BY <1>4, <1>5
  <2>2. ASSUME NEW n \in 1 .. 9 PROVE (a \o b)[n] = c[n]
    <3>1. (a \o b)[n] = IF n <= 3 THEN a[n] ELSE b[n - 3]
      BY <1>4, <1>5, Zenon
    <3>2. CASE n \in 1 .. 3
      <4>1. (a \o b)[n] = a[n]
        BY <3>1, <3>2
      <4>2. n = 1 \/ n = 2 \/ n = 3
        BY <3>2
      <4> QED
        BY <1>1, <1>3, <4>1, <4>2, Zenon
    <3>3. CASE n \in 4 .. 9
      <4>1. PICK m \in 1 .. 6 : m = n - 3
        BY <3>3
      <4>2. (a \o b)[n] = b[m]
        BY <3>1, <3>3, <4>1
      <4>3. \/ (n = 4 /\ m = 1) \/ (n = 5 /\ m = 2) \/ (n = 6 /\ m = 3)
            \/ (n = 7 /\ m = 4) \/ (n = 8 /\ m = 5) \/ (n = 9 /\ m = 6)
        BY <3>3, <4>1
      <4> QED
        BY <1>2, <1>3, <4>2, <4>3, Zenon
    <3>4. n \in 1 .. 3 \/ n \in 4 .. 9
      OBVIOUS
    <3> QED
      BY <3>2, <3>3, <3>4, Zenon
  <2> QED
    BY <2>1, <2>2
<1>7. a \o b = c
  BY <1>3, <1>4, <1>6, SeqEqual
<1> QED
  BY <1>7 DEF a, b, c

LEMMA PortStart ==
    ASSUME PortInit
    PROVE  PortInv
<1>1. Upcoming = "none"
  BY DEF PortInit, Upcoming, Foremost
<1>2. 0 \in 0 .. MaxBuff - 1
  BY SoftSerialAssumption
<1>3. <<>> \in Seq(Heard)
  OBVIOUS
<1>4. PortTypes
  BY <1>2, <1>3 DEF PortInit, PortTypes, Pointer
<1>5. RingHeld
  BY <1>1, <1>2, NoneInRing DEF PortInit, RingHeld
<1> QED
  BY <1>1, <1>4, <1>5 DEF PortInit, PortInv, Whose, MaskFits, MissedSays, Pointer

(* The handler finds the ring whole, and the pointer: it comes only where  *)
(* both are.                                                               *)
LEMMA ReceiveKeeps ==
    ASSUME PortInv, NEW p \in Ports, isListening(p), recv(p),
           \/ p \in PCMSK /\ unmasked' = unmasked
           \/ Upcoming = "nullLow" /\ unmasked' = TRUE
    PROVE  PortInv'
<1>1. /\ PortTypes /\ Whose /\ MaskFits /\ RingHeld /\ MissedSays
      /\ PCMSK' = PCMSK \cup {p} /\ UNCHANGED <<active_object, delays, _head, portTodo, portArg, portAnswer>>
  BY DEF PortInv, recv, portCall
<1>2. Upcoming' = Upcoming
  BY <1>1 DEF Upcoming
<1>3. active_object.low = p /\ active_object.high = p /\ p # Nobody
  BY SoftSerialAssumption DEF isListening, Pointer
<1>4. Upcoming \notin {"tail", "head", "thisLow", "thisHigh"}
  BY <1>1, <1>3 DEF Whose
<1>5. PICK d \in Heard :
         IF Full
         THEN /\ overflow' = [overflow EXCEPT ![p] = TRUE] /\ missed' = TRUE
              /\ UNCHANGED <<_buffer, _tail, heard>>
         ELSE /\ _buffer' = [_buffer EXCEPT ![_tail] = d] /\ _tail' = Following(_tail)
              /\ heard' = Append(heard, d) /\ UNCHANGED <<overflow, missed>>
  BY DEF recv
<1>6. CASE Full
  <2>1. overflow' \in [Ports -> BOOLEAN] /\ overflow'[p] = TRUE /\ missed' \in BOOLEAN
    BY <1>1, <1>5, <1>6 DEF PortTypes
  <2>2. PortTypes'
    BY <1>1, <1>5, <1>6, <2>1 DEF PortTypes
  <2>3. RingHeld'
    BY <1>1, <1>2, <1>5, <1>6 DEF RingHeld
  <2>4. MissedSays'
    <3>1. \A q \in Ports : active_object' = Pointer(q) => q = p
      BY <1>1, <1>3 DEF Pointer
    <3> QED
      BY <1>2, <1>4, <2>1, <3>1 DEF MissedSays
  <2>5. Whose' /\ MaskFits'
    BY <1>1, <1>2, <1>3 DEF Whose, MaskFits
  <2> QED
    BY <2>2, <2>3, <2>4, <2>5 DEF PortInv
<1>7. CASE ~Full
  <2>1. /\ _buffer' = [_buffer EXCEPT ![_tail] = d] /\ _tail' = Following(_tail) /\ heard' = Append(heard, d)
        /\ UNCHANGED <<overflow, missed>> /\ Following(_tail) # _head
    BY <1>5, <1>7 DEF Full
  <2>2. _tail' \in 0 .. MaxBuff - 1 /\ DOMAIN _buffer' = 0 .. MaxBuff - 1 /\ heard' \in Seq(Heard) /\ heard' # <<>>
    <3>1. _tail \in 0 .. MaxBuff - 1 /\ DOMAIN _buffer = 0 .. MaxBuff - 1 /\ heard \in Seq(Heard)
      BY <1>1 DEF PortTypes
    <3>2. Append(heard, d) \in Seq(Heard) /\ Append(heard, d) # <<>>
      BY <3>1, AppendProperties
    <3> QED
      BY <2>1, <3>1, <3>2, PlacesIs
  <2>3. PortTypes'
    BY <1>1, <2>1, <2>2 DEF PortTypes
  <2>4. InRing(_head, Following(_tail), [_buffer EXCEPT ![_tail] = d], Append(heard, d))
    BY <1>1, <1>4, <2>1, PutKeeps DEF PortTypes, RingHeld
  <2>5. RingHeld'
    <3>1. InRing(_head', _tail', _buffer', heard')
      BY <1>1, <2>1, <2>4, Zenon DEF InRing
    <3> QED
      BY <1>1, <1>2, <1>4, <2>2, <3>1 DEF RingHeld
  <2>6. MissedSays'
    BY <1>1, <1>2, <2>1 DEF MissedSays
  <2>7. Whose' /\ MaskFits'
    BY <1>1, <1>2, <1>3 DEF Whose, MaskFits
  <2> QED
    BY <2>3, <2>5, <2>6, <2>7 DEF PortInv
<1> QED
  BY <1>6, <1>7

(* A call begins: nothing is left of the one before.                       *)
LEMMA CallKeeps ==
    ASSUME PortInv, listen \/ begin_port \/ end_port \/ read_port
    PROVE  PortInv'
<1>1. /\ PortTypes /\ Whose /\ MaskFits /\ RingHeld /\ MissedSays /\ portTodo = <<>>
      /\ UNCHANGED <<active_object, PCMSK, overflow, _head, _tail, _buffer, portAnswer, heard, missed, unmasked>>
  BY DEF PortInv, listen, begin_port, end_port, read_port, Listen, PortCall, restOfPort, ringVars
<1>2. PICK low \in delays \cup {Nobody} : active_object = Pointer(low) /\ Upcoming = "none"
  <2>1. Upcoming = "none"
    BY <1>1 DEF Upcoming, Foremost
  <2> QED
    BY <1>1, <2>1 DEF Whose, PortTypes, Pointer
<1>3. InRing(_head, _tail, _buffer, heard) /\ portAnswer[1] = portAnswer[2]
  BY <1>1, <1>2 DEF RingHeld
<1>4. low = Nobody /\ ~unmasked => PCMSK = {}
  BY <1>1, <1>2, SoftSerialAssumption DEF MaskFits, PortTypes, Pointer
<1>5. ASSUME delays' \subseteq Ports, delays \subseteq delays',
             \/ portTodo' \in Listening \cup Changing /\ portArg' \in delays'
             \/ portTodo' \in Stopping \cup Reading,
             \/ Upcoming' = "maskOff" /\ low # Nobody
             \/ Upcoming' = "flag" /\ low = Nobody
             \/ Upcoming' = "load" /\ low # Nobody /\ heard # <<>>
      PROVE  PortInv'
  <2>1. PortTypes'
    BY <1>1, <1>5 DEF PortTypes
  <2>2. Whose'
    BY <1>1, <1>2, <1>5 DEF Whose, Pointer
  <2>3. MaskFits'
    BY <1>1, <1>2, <1>4, <1>5 DEF MaskFits, Pointer
  <2>4. RingHeld'
    <3>1. InRing(_head', _tail', _buffer', heard')
      BY <1>1, <1>3, Zenon DEF InRing
    <3> QED
      BY <1>1, <1>3, <1>5, <3>1 DEF RingHeld
  <2>5. MissedSays'
    BY <1>1, <1>5 DEF MissedSays
  <2> QED
    BY <2>1, <2>2, <2>3, <2>4, <2>5 DEF PortInv
<1>6. CASE \E p \in Ports : Listen(p) /\ delays' = delays \cup {p}
  <2>1. PICK p \in Ports : Listen(p) /\ delays' = delays \cup {p}
    BY <1>6
  <2>2. portArg' = p /\ portTodo' = (IF low = Nobody THEN <<>> ELSE StopSteps) \o ListenSteps
    BY <1>2, <2>1, SoftSerialAssumption DEF Listen, PortCall, Pointer
  <2>3. portTodo' \in Listening \cup Changing /\ Upcoming' = IF low = Nobody THEN "flag" ELSE "maskOff"
    <3>1. <<>> \o ListenSteps = <<"flag", "tail", "head", "thisLow", "thisHigh", "maskOn">>
      BY ConcatEmptySeq DEF ListenSteps
    <3>2. CASE low = Nobody
      <4>1. portTodo' = <<"flag", "tail", "head", "thisLow", "thisHigh", "maskOn">>
        BY <2>2, <3>1, <3>2
      <4>2. portTodo' # <<>> /\ Head(portTodo') = "flag"
        BY <4>1
      <4> QED
        BY <3>2, <4>1, <4>2 DEF Listening, Upcoming, Foremost
    <3>3. CASE low # Nobody
      <4>1. portTodo' = <<"maskOff", "nullLow", "nullHigh", "flag", "tail", "head", "thisLow", "thisHigh", "maskOn">>
        BY <2>2, <3>3, StopThenListen
      <4>2. portTodo' # <<>> /\ Head(portTodo') = "maskOff"
        BY <4>1
      <4> QED
        BY <3>3, <4>1, <4>2 DEF Changing, Upcoming, Foremost
    <3> QED
      BY <3>2, <3>3
  <2> QED
    BY <1>1, <1>5, <2>1, <2>2, <2>3 DEF PortTypes
<1>7. CASE listen
  BY <1>1, <1>6, <1>7 DEF listen, PortTypes
<1>8. CASE begin_port
  BY <1>6, <1>8 DEF begin_port
<1>9. CASE end_port
  <2>1. delays' = delays /\ portTodo' = <<"maskOff", "nullLow", "nullHigh">> /\ low # Nobody
    BY <1>2, <1>9, SoftSerialAssumption DEF end_port, PortCall, StopSteps, isListening, Pointer
  <2>2. portTodo' \in Stopping /\ Upcoming' = "maskOff"
    BY <2>1 DEF Stopping, Upcoming, Foremost
  <2> QED
    BY <1>1, <1>5, <2>1, <2>2 DEF PortTypes
<1>10. CASE read_port
  <2>1. delays' = delays /\ portTodo' = <<"load", "advance">> /\ low # Nobody /\ _head # _tail
    BY <1>2, <1>10, SoftSerialAssumption DEF read_port, PortCall, isListening, Pointer
  <2>2. portTodo' \in Reading /\ Upcoming' = "load"
    BY <2>1 DEF Reading, Upcoming, Foremost
  <2>3. heard # <<>>
    <3>1. (_tail + MaxBuff - _head) % MaxBuff = IF _tail >= _head THEN _tail - _head ELSE _tail + MaxBuff - _head
      BY <1>1, PlacesIs DEF PortTypes
    <3>2. _head \in 0 .. MaxBuff - 1 /\ _tail \in 0 .. MaxBuff - 1 /\ Len(heard) = (_tail + MaxBuff - _head) % MaxBuff
      BY <1>1, <1>3 DEF InRing, PortTypes
    <3>3. Len(heard) # 0
      BY <2>1, <3>1, <3>2, SoftSerialAssumption
    <3> QED
      BY <3>3
  <2> QED
    BY <1>1, <1>5, <2>1, <2>2, <2>3 DEF PortTypes
<1> QED
  BY <1>7, <1>8, <1>9, <1>10

\* An answer, a frame and an emptied ring leave the listener as it is.
LEMMA WholeKeeps ==
    ASSUME PortInv, flush_port \/ overflow_port \/ write_port
    PROVE  PortInv'
<1>1. /\ PortTypes /\ Whose /\ MaskFits /\ RingHeld /\ MissedSays
      /\ portTodo = <<>>
      /\ UNCHANGED <<active_object, PCMSK, delays, _buffer, portTodo, portArg, portAnswer, unmasked>>
  BY DEF PortInv, flush_port, overflow_port, write_port, portCall, ringVars
<1>2. Upcoming = "none" /\ Upcoming' = "none"
  BY <1>1 DEF Upcoming, Foremost
<1>3. Whose' /\ MaskFits'
  BY <1>1, <1>2 DEF Whose, MaskFits
<1>4. CASE flush_port
  <2>1. 0 \in 0 .. MaxBuff - 1 /\ <<>> \in Seq(Heard)
    BY SoftSerialAssumption
  <2>2. _head' = 0 /\ _tail' = 0 /\ heard' = <<>> /\ UNCHANGED <<overflow, missed>>
    BY <1>4 DEF flush_port
  <2>3. PortTypes'
    BY <1>1, <2>1, <2>2 DEF PortTypes
  <2>4. RingHeld'
    BY <1>1, <1>2, <2>1, <2>2, NoneInRing DEF RingHeld
  <2>5. MissedSays'
    BY <1>1, <1>2, <2>2 DEF MissedSays
  <2> QED
    BY <1>3, <2>3, <2>4, <2>5 DEF PortInv
<1>5. CASE overflow_port
  <2>1. PICK p \in Ports : overflow' = [overflow EXCEPT ![p] = FALSE] /\ missed' = (missed /\ ~isListening(p))
    BY <1>5 DEF overflow_port
  <2>2. UNCHANGED <<_head, _tail, heard>> /\ (missed' => missed /\ ~isListening(p)) /\ missed' \in BOOLEAN
    BY <1>5, <2>1 DEF overflow_port, ringVars
  <2>3. PortTypes'
    BY <1>1, <2>1, <2>2 DEF PortTypes
  <2>4. RingHeld'
    <3>1. InRing(_head', _tail', _buffer', heard')
      BY <1>1, <1>2, <2>2, Zenon DEF RingHeld, InRing
    <3> QED
      BY <1>1, <1>2, <3>1 DEF RingHeld
  <2>5. MissedSays'
    <3>1. \A q \in Ports : missed' /\ active_object' = Pointer(q) => q # p /\ overflow[q]
      BY <1>1, <2>2 DEF MissedSays, isListening
    <3>2. \A q \in Ports : q # p => overflow'[q] = overflow[q]
      BY <1>1, <2>1 DEF PortTypes
    <3> QED
      BY <1>2, <3>1, <3>2 DEF MissedSays
  <2> QED
    BY <1>3, <2>3, <2>4, <2>5 DEF PortInv
<1>6. CASE write_port
  <2>1. UNCHANGED <<_head, _tail, heard, overflow, missed>>
    BY <1>6 DEF write_port, ringVars
  <2>2. PortTypes'
    BY <1>1, <2>1 DEF PortTypes
  <2>3. RingHeld'
    <3>1. InRing(_head', _tail', _buffer', heard')
      BY <1>1, <1>2, <2>1, Zenon DEF RingHeld, InRing
    <3> QED
      BY <1>1, <1>2, <3>1 DEF RingHeld
  <2>4. MissedSays'
    BY <1>1, <1>2, <2>1 DEF MissedSays
  <2> QED
    BY <1>3, <2>2, <2>3, <2>4 DEF PortInv
<1> QED
  BY <1>4, <1>5, <1>6

(* A step of a call, and which one comes after it.                         *)
LEMMA PortSteps ==
    ASSUME PortInv, PortStep
    PROVE  /\ PointerStep \/ MaskStep \/ RingStep
           /\ portTodo # <<>> /\ Head(portTodo) = Upcoming /\ UNCHANGED <<delays, unmasked>>
           /\ \/ portTodo' \in Listening \cup Changing /\ portArg' = portArg /\ portArg \in delays
              \/ portTodo' \in Stopping \cup Reading \cup {<<>>}
           /\ Upcoming' # "none" => portArg' = portArg
           /\ \/ Upcoming = "maskOff" /\ Upcoming' = "nullLow"
              \/ Upcoming = "nullLow" /\ Upcoming' = "nullHigh"
              \/ Upcoming = "nullHigh" /\ Upcoming' \in {"none", "flag"}
              \/ Upcoming = "flag" /\ Upcoming' = "tail"
              \/ Upcoming = "tail" /\ Upcoming' = "head"
              \/ Upcoming = "head" /\ Upcoming' = "thisLow"
              \/ Upcoming = "thisLow" /\ Upcoming' = "thisHigh" /\ portArg \in delays
              \/ Upcoming = "thisHigh" /\ Upcoming' = "maskOn" /\ portArg \in delays
              \/ Upcoming = "maskOn" /\ Upcoming' = "none" /\ portArg \in delays
              \/ Upcoming = "load" /\ Upcoming' = "advance"
              \/ Upcoming = "advance" /\ Upcoming' = "none"
<1>1. /\ PointerStep \/ MaskStep \/ RingStep
      /\ portTodo # <<>> /\ portTodo' = Tail(portTodo) /\ portArg' = IF portTodo' = <<>> THEN Nobody ELSE portArg
      /\ UNCHANGED <<delays, unmasked>> /\ PortTypes
  BY DEF PortInv, PortStep, PointerStep, MaskStep, RingStep, PortOp
<1>2. /\ Upcoming = Head(portTodo) /\ Upcoming' = Foremost(Tail(portTodo))
  BY <1>1 DEF Upcoming, Foremost
<1>3. Upcoming' # "none" => portArg' = portArg
  BY <1>1 DEF Upcoming, Foremost
<1>4. CASE portTodo \in Listening \cup Changing /\ portArg \in delays
  <2>1. portTodo' = <<>> \/ portArg' = portArg
    BY <1>1
  <2> QED
    BY <1>1, <1>2, <1>3, <1>4, <2>1, ListenForm, Zenon
<1>5. CASE portTodo \in Stopping \cup Reading
  BY <1>1, <1>2, <1>3, <1>5, StopForm, Zenon
<1> QED
  BY <1>1, <1>4, <1>5 DEF PortTypes

LEMMA StepKeeps ==
    ASSUME PortInv, PortStep
    PROVE  PortInv'
<1>1. /\ PortTypes /\ Whose /\ MaskFits /\ RingHeld /\ MissedSays
  BY DEF PortInv
<1>2. /\ portTodo # <<>> /\ Head(portTodo) = Upcoming /\ UNCHANGED <<delays, unmasked>>
      /\ \/ portTodo' \in Listening \cup Changing /\ portArg' = portArg /\ portArg \in delays
         \/ portTodo' \in Stopping \cup Reading \cup {<<>>}
      /\ Upcoming' # "none" => portArg' = portArg
  BY PortSteps
<1>3. CASE PointerStep
  <2>1. UNCHANGED <<PCMSK, overflow, _head, _tail, _buffer, portAnswer, heard, missed>>
    BY <1>3 DEF PointerStep, ringVars
  <2>2. \/ Upcoming = "nullLow" /\ active_object' = [active_object EXCEPT !.low = Nobody] /\ Upcoming' = "nullHigh"
        \/ Upcoming = "nullHigh" /\ active_object' = [active_object EXCEPT !.high = Nobody] /\ Upcoming' \in {"none", "flag"}
        \/ Upcoming = "thisLow" /\ active_object' = [active_object EXCEPT !.low = portArg]
             /\ Upcoming' = "thisHigh" /\ portArg \in delays
        \/ Upcoming = "thisHigh" /\ active_object' = [active_object EXCEPT !.high = portArg]
             /\ Upcoming' = "maskOn" /\ portArg \in delays
    BY <1>2, <1>3, PortSteps DEF PointerStep, PortOp
  <2>3. active_object' \in [low : Ports \cup {Nobody}, high : Ports \cup {Nobody}]
    BY <1>1, <2>2 DEF PortTypes
  <2>4. PortTypes'
    BY <1>1, <1>2, <2>1, <2>3 DEF PortTypes
  <2>5. Whose'
    BY <1>1, <1>2, <2>2 DEF Whose, PortTypes
  <2>6. MaskFits'
    BY <1>1, <1>2, <2>1, <2>2 DEF MaskFits
  <2>7. RingHeld'
    <3>1. InRing(_head', _tail', _buffer', heard')
      BY <1>1, <2>1, <2>2, Zenon DEF RingHeld, InRing
    <3> QED
      BY <1>1, <2>1, <2>2, <3>1 DEF RingHeld
  <2>8. MissedSays'
    <3>1. Upcoming \in {"nullLow", "nullHigh"} => active_object'.low = Nobody
      BY <1>1, <2>2 DEF Whose, PortTypes
    <3>2. Upcoming \in {"thisLow", "thisHigh"} => ~missed
      BY <1>1 DEF MissedSays
    <3> QED
      BY <2>1, <2>2, <3>1, <3>2, SoftSerialAssumption DEF MissedSays, Pointer
  <2> QED
    BY <2>4, <2>5, <2>6, <2>7, <2>8 DEF PortInv
<1>4. CASE MaskStep
  <2>1. UNCHANGED <<active_object, overflow, _head, _tail, _buffer, portAnswer, heard, missed>>
    BY <1>4 DEF MaskStep, ringVars
  <2>2. \/ Upcoming = "maskOff" /\ PCMSK' = PCMSK \ {active_object.low} /\ Upcoming' = "nullLow"
        \/ Upcoming = "maskOn" /\ PCMSK' = PCMSK \cup {portArg} /\ Upcoming' = "none" /\ portArg \in delays
    BY <1>2, <1>4, PortSteps DEF MaskStep, PortOp
  <2>3. PortTypes'
    BY <1>1, <1>2, <2>1, <2>2 DEF PortTypes
  <2>4. Whose'
    BY <1>1, <1>2, <2>1, <2>2 DEF Whose
  <2>5. MaskFits'
    BY <1>1, <1>2, <2>1, <2>2 DEF MaskFits, Whose
  <2>6. RingHeld'
    <3>1. InRing(_head', _tail', _buffer', heard')
      BY <1>1, <2>1, <2>2, Zenon DEF RingHeld, InRing
    <3> QED
      BY <1>1, <2>1, <2>2, <3>1 DEF RingHeld
  <2>7. MissedSays'
    BY <1>1, <2>1, <2>2 DEF MissedSays
  <2> QED
    BY <2>3, <2>4, <2>5, <2>6, <2>7 DEF PortInv
<1>5. CASE RingStep
  <2>1. UNCHANGED <<active_object, PCMSK>>
    BY <1>5 DEF RingStep
  <2>2. \/ Upcoming = "flag" /\ Upcoming' = "tail"
        \/ Upcoming = "tail" /\ Upcoming' = "head"
        \/ Upcoming = "head" /\ Upcoming' = "thisLow"
        \/ Upcoming = "load" /\ Upcoming' = "advance"
        \/ Upcoming = "advance" /\ Upcoming' = "none"
    BY <1>2, <1>5, PortSteps DEF RingStep, PortOp
  <2>3. Whose' /\ MaskFits'
    BY <1>1, <1>2, <2>1, <2>2 DEF Whose, MaskFits
  <2>4. 0 \in 0 .. MaxBuff - 1 /\ <<>> \in Seq(Heard) /\ _head \in 0 .. MaxBuff - 1 /\ _tail \in 0 .. MaxBuff - 1
        /\ heard \in Seq(Heard)
    BY <1>1, SoftSerialAssumption DEF PortTypes
  <2>5. CASE Upcoming = "flag"
    <3>1. /\ overflow' = [overflow EXCEPT ![portArg] = FALSE] /\ missed' = FALSE
          /\ heard' = <<>> /\ UNCHANGED <<_head, _tail, _buffer, portAnswer>>
      BY <1>2, <1>5, <2>5 DEF RingStep, PortOp, ringVars
    <3>2. PortTypes'
      BY <1>1, <1>2, <2>1, <2>4, <3>1 DEF PortTypes
    <3>3. RingHeld' /\ MissedSays'
      BY <1>1, <2>2, <2>5, <3>1 DEF RingHeld, MissedSays
    <3> QED
      BY <2>3, <3>2, <3>3 DEF PortInv
  <2>6. CASE Upcoming = "tail"
    <3>1. _tail' = 0 /\ UNCHANGED <<overflow, _head, _buffer, portAnswer, heard, missed>>
      BY <1>2, <1>5, <2>6 DEF RingStep, PortOp
    <3>2. PortTypes'
      BY <1>1, <1>2, <2>1, <2>4, <3>1 DEF PortTypes
    <3>3. RingHeld' /\ MissedSays'
      BY <1>1, <2>1, <2>2, <2>6, <3>1 DEF RingHeld, MissedSays
    <3> QED
      BY <2>3, <3>2, <3>3 DEF PortInv
  <2>7. CASE Upcoming = "head"
    <3>1. _head' = 0 /\ UNCHANGED <<overflow, _tail, _buffer, portAnswer, heard, missed>>
      BY <1>2, <1>5, <2>7 DEF RingStep, PortOp
    <3>2. PortTypes'
      BY <1>1, <1>2, <2>1, <2>4, <3>1 DEF PortTypes
    <3>3. _tail' = 0 /\ heard' = <<>>
      BY <1>1, <2>7, <3>1 DEF RingHeld
    <3>4. RingHeld' /\ MissedSays'
      BY <1>1, <2>1, <2>2, <2>4, <2>7, <3>1, <3>3, NoneInRing DEF RingHeld, MissedSays
    <3> QED
      BY <2>3, <3>2, <3>4 DEF PortInv
  <2>8. CASE Upcoming = "load"
    <3>1. portAnswer' = <<_buffer[_head], Head(heard)>> /\ UNCHANGED <<overflow, _head, _tail, _buffer, heard, missed>>
      BY <1>2, <1>5, <2>8 DEF RingStep, PortOp, ringVars
    <3>2. PortTypes'
      BY <1>1, <1>2, <2>1, <3>1 DEF PortTypes
    <3>3. InRing(_head, _tail, _buffer, heard) /\ heard # <<>>
      BY <1>1, <2>8 DEF RingHeld
    <3>4. _buffer[_head] = Head(heard)
      BY <2>4, <3>3, TakeKeeps
    <3>5. portAnswer'[1] = portAnswer'[2]
      BY <3>1, <3>4
    <3>6. InRing(_head', _tail', _buffer', heard')
      BY <3>1, <3>3, Zenon DEF InRing
    <3>7. RingHeld' /\ MissedSays'
      BY <1>1, <2>1, <2>2, <2>8, <3>1, <3>3, <3>5, <3>6 DEF RingHeld, MissedSays
    <3> QED
      BY <2>3, <3>2, <3>7 DEF PortInv
  <2>9. CASE Upcoming = "advance"
    <3>1. /\ _head' = Following(_head) /\ heard' = Tail(heard) /\ portAnswer' = <<0, 0>>
          /\ UNCHANGED <<overflow, _tail, _buffer, missed>>
      BY <1>2, <1>5, <2>9 DEF RingStep, PortOp
    <3>2. InRing(_head, _tail, _buffer, heard) /\ heard # <<>>
      BY <1>1, <2>9 DEF RingHeld
    <3>3. Following(_head) \in 0 .. MaxBuff - 1 /\ Tail(heard) \in Seq(Heard)
      BY <2>4, <3>2, PlacesIs, HeadTailProperties
    <3>4. PortTypes'
      BY <1>1, <1>2, <2>1, <3>1, <3>3 DEF PortTypes
    <3>5. InRing(Following(_head), _tail, _buffer, Tail(heard))
      BY <2>4, <3>2, TakeKeeps
    <3>6. InRing(_head', _tail', _buffer', heard')
      BY <3>1, <3>5, Zenon DEF InRing
    <3>7. RingHeld' /\ MissedSays'
      BY <1>1, <2>1, <2>2, <2>9, <3>1, <3>6 DEF RingHeld, MissedSays
    <3> QED
      BY <2>3, <3>4, <3>7 DEF PortInv
  <2> QED
    BY <2>2, <2>5, <2>6, <2>7, <2>8, <2>9
<1> QED
  BY <1>3, <1>4, <1>5, PortSteps

(* A port that listens gives the bytes that it received since it began to, *)
(* in order and none of the port before it, drops one only if the ring is  *)
(* full, and says so; and no interrupt finds half of a pointer or an object*)
(* that was not begun (SoftwareSerial.cpp:97-162, 227-264, 418-475).       *)
THEOREM PortHolds == PortSpec => []PortKept
<1>1. ASSUME PortInv, [PortNext]_portVars PROVE PortInv'
  <2>1. CASE UNCHANGED portVars
    <3>1. /\ UNCHANGED <<active_object, PCMSK, overflow, delays, _head, _tail, _buffer, portTodo, portArg>>
          /\ UNCHANGED <<portAnswer, heard, missed, unmasked>>
      BY <2>1 DEF portVars, ringVars, portCall
    <3>2. Upcoming' = Upcoming /\ PortTypes /\ Whose /\ MaskFits /\ RingHeld /\ MissedSays
      BY <1>1, <3>1 DEF Upcoming, PortInv
    <3>3. PortTypes' /\ Whose' /\ MaskFits' /\ MissedSays'
      BY <3>1, <3>2 DEF PortTypes, Whose, MaskFits, MissedSays
    <3>4. RingHeld'
      BY <3>1, <3>2, Zenon DEF RingHeld, InRing
    <3> QED
      BY <3>3, <3>4 DEF PortInv
  <2>2. CASE PCINT0_vect
    <3>1. PICK p \in PCMSK : isListening(p) /\ recv(p) /\ UNCHANGED unmasked
      BY <2>2 DEF PCINT0_vect
    <3>2. p \in Ports
      BY <1>1, <3>1 DEF PortInv, PortTypes
    <3> QED
      BY <1>1, <3>1, <3>2, ReceiveKeeps
  <2>3. CASE LateInterrupt
    <3>1. PICK p \in Ports : isListening(p) /\ recv(p)
      BY <2>3 DEF LateInterrupt
    <3>2. Upcoming = "nullLow" /\ unmasked' = TRUE
      BY <2>3 DEF LateInterrupt, Upcoming, Foremost
    <3> QED
      BY <1>1, <3>1, <3>2, ReceiveKeeps
  <2> QED
    BY <1>1, <2>1, <2>2, <2>3, CallKeeps, WholeKeeps, StepKeeps DEF PortNext
<1>2. PortInv => PortKept
  <2>1. SUFFICES ASSUME PortInv PROVE SoftRxInOrder /\ WholeListener
    BY DEF PortKept
  <2>2. SoftRxInOrder
    <3>1. portAnswer[1] = portAnswer[2]
      BY <2>1 DEF PortInv, RingHeld
    <3>2. ASSUME portTodo = <<>>, NEW p \in Ports, isListening(p)
          PROVE  /\ available = Len(heard)
                 /\ \A i \in 1 .. Len(heard) : _buffer[(_head + i - 1) % MaxBuff] = heard[i]
                 /\ missed => overflow[active_object.low]
      <4>1. Upcoming = "none" /\ active_object.low = p
        BY <3>2 DEF Upcoming, Foremost, isListening, Pointer
      <4> QED
        BY <2>1, <3>2, <4>1 DEF PortInv, RingHeld, InRing, available, MissedSays, isListening
    <3> QED
      BY <3>1, <3>2 DEF SoftRxInOrder
  <2>3. WholeListener
    <3> SUFFICES ASSUME PCMSK # {}, ~unmasked PROVE active_object.low = active_object.high /\ PCMSK \subseteq delays
      BY DEF WholeListener
    <3>1. Upcoming \in {"none", "load", "advance", "maskOff"} /\ PCMSK \subseteq {active_object.low} /\ PCMSK \subseteq Ports
      BY <2>1 DEF PortInv, MaskFits, PortTypes
    <3>2. active_object.low = active_object.high /\ active_object.low \in delays \cup {Nobody}
      BY <2>1, <3>1 DEF PortInv, Whose
    <3> QED
      BY <3>1, <3>2, SoftSerialAssumption
  <2> QED
    BY <2>2, <2>3
<1> QED
  BY <1>1, <1>2, PortStart, PTL DEF PortSpec

------------------------------------------------------------------------------
(***************************************************************************)
(* The LCD.  Of what is left of a call only this matters: the last stores  *)
(* are the indices and the flag that the interrupt uses, in this order, and*)
(* every place of the text is as it should be, or will be, by the last     *)
(* store to it.                                                            *)
(***************************************************************************)
Shapes == STRING \cup {"A", "B", "0", Empty}
LcdOps == {"char", "scroll", "start", "end", "count", "update", "clear", "clearNext", "newline", "wait"}
LcdSteps == [op : LcdOps, at : Nat, c : Shapes]

CharTo(step, p) == step.op = "char" /\ step.at = p
Rewrites(s, p) == \E i \in 1 .. Len(s) : CharTo(s[i], p)
Leaves(s, p, c) ==
    \E i \in 1 .. Len(s) : CharTo(s[i], p) /\ s[i].c = c /\ \A j \in 1 .. Len(s) : j > i => ~CharTo(s[j], p)

\* the step that is the k-th from behind, of a call that makes the text end at n
BodyOp(step) == step.op # "wait" /\ (step.op = "end" => step.at >= Nulls)
EndOp(step, k, n) ==
    /\ k = 0 => step.op \in {"wait", "clear"}
    /\ k = 1 => step.op = "update"
    /\ k = 2 => step.op = "count"
    /\ k = 3 => step.op = "end" /\ step.at = n
    /\ k = 4 => step.op = "start"
    /\ k > 0 => BodyOp(step)
CallLeft(s, n) == \A i \in 1 .. Len(s) : EndOp(s[i], Len(s) - i, n)

(* Two lists in a row.                                                     *)
LEMMA JoinIs ==
    ASSUME NEW S, NEW a \in Seq(S), NEW b \in Seq(S)
    PROVE  /\ a \o b \in Seq(S) /\ Len(a) \in Nat /\ Len(b) \in Nat /\ Len(a \o b) = Len(a) + Len(b)
           /\ \A i \in 1 .. Len(a) : i \in 1 .. Len(a \o b) /\ (a \o b)[i] = a[i]
           /\ \A i \in 1 .. Len(b) : Len(a) + i \in 1 .. Len(a \o b) /\ (a \o b)[Len(a) + i] = b[i]
           /\ \A i \in 1 .. Len(a \o b) : i \in 1 .. Len(a) \/ \E k \in 1 .. Len(b) : i = Len(a) + k
<1>1. PICK m, n \in Nat : m = Len(a) /\ n = Len(b)
  BY LenProperties
<1>2. /\ a \o b \in Seq(S) /\ Len(a \o b) = m + n
      /\ \A i \in 1 .. m + n : (a \o b)[i] = IF i <= m THEN a[i] ELSE b[i - m]
  BY <1>1, ConcatProperties
<1>3. \A i \in 1 .. m : i \in 1 .. m + n /\ (a \o b)[i] = a[i]
  BY <1>2
<1>4. \A i \in 1 .. n : m + i \in 1 .. m + n /\ (a \o b)[m + i] = b[i]
  <2>1. SUFFICES ASSUME NEW i \in 1 .. n PROVE m + i \in 1 .. m + n /\ (a \o b)[m + i] = b[i]
    OBVIOUS
  <2>2. PICK j \in 1 .. m + n : j = m + i
    OBVIOUS
  <2>3. ~(j <= m) /\ j - m = i
    BY <2>2
  <2> QED
    BY <1>2, <2>2, <2>3
<1>5. \A i \in 1 .. m + n : i \in 1 .. m \/ \E k \in 1 .. n : i = m + k
  <2>1. SUFFICES ASSUME NEW i \in 1 .. m + n, i \notin 1 .. m PROVE \E k \in 1 .. n : i = m + k
    OBVIOUS
  <2>2. i - m \in 1 .. n /\ i = m + (i - m)
    BY <2>1
  <2> QED
    BY <2>2
<1> QED
  BY <1>1, <1>2, <1>3, <1>4, <1>5

LEMMA RewritesJoin ==
    ASSUME NEW a \in Seq(LcdSteps), NEW b \in Seq(LcdSteps), NEW p
    PROVE  Rewrites(a \o b, p) <=> Rewrites(a, p) \/ Rewrites(b, p)
<1>1. ASSUME Rewrites(a \o b, p) PROVE Rewrites(a, p) \/ Rewrites(b, p)
  <2>1. PICK i \in 1 .. Len(a \o b) : CharTo((a \o b)[i], p)
    BY <1>1 DEF Rewrites
  <2>2. CASE i \in 1 .. Len(a)
    BY <2>1, <2>2, JoinIs DEF Rewrites
  <2>3. CASE \E k \in 1 .. Len(b) : i = Len(a) + k
    <3>1. PICK k \in 1 .. Len(b) : i = Len(a) + k
      BY <2>3
    <3>2. (a \o b)[i] = b[k]
      BY <3>1, JoinIs
    <3> QED
      BY <2>1, <3>2 DEF Rewrites
  <2> QED
    BY <2>2, <2>3, JoinIs
<1>2. ASSUME Rewrites(a, p) PROVE Rewrites(a \o b, p)
  BY <1>2, JoinIs DEF Rewrites
<1>3. ASSUME Rewrites(b, p) PROVE Rewrites(a \o b, p)
  <2>1. PICK k \in 1 .. Len(b) : CharTo(b[k], p)
    BY <1>3 DEF Rewrites
  <2>2. PICK i : i = Len(a) + k
    OBVIOUS
  <2>3. i \in 1 .. Len(a \o b) /\ (a \o b)[i] = b[k]
    <3>1. Len(a) + k \in 1 .. Len(a \o b) /\ (a \o b)[Len(a) + k] = b[k]
      BY JoinIs
    <3> QED
      BY <2>2, <3>1, Zenon
  <2>4. CharTo((a \o b)[i], p)
    BY <2>1, <2>3, Zenon
  <2> QED
    BY <2>3, <2>4, Zenon DEF Rewrites
<1> QED
  BY <1>1, <1>2, <1>3

\* The last store to a place is that of the second list, if it has one there.
LEMMA LeavesJoin ==
    ASSUME NEW a \in Seq(LcdSteps), NEW b \in Seq(LcdSteps), NEW p, NEW c,
           Leaves(b, p, c) \/ (Leaves(a, p, c) /\ ~Rewrites(b, p))
    PROVE  Leaves(a \o b, p, c)
<1>1. CASE Leaves(b, p, c)
  <2>1. PICK k \in 1 .. Len(b) : CharTo(b[k], p) /\ b[k].c = c /\ \A j \in 1 .. Len(b) : j > k => ~CharTo(b[j], p)
    BY <1>1 DEF Leaves
  <2>2. PICK i \in 1 .. Len(a \o b) : i = Len(a) + k /\ (a \o b)[i] = b[k]
    BY JoinIs
  <2>3. ASSUME NEW j \in 1 .. Len(a \o b), j > i PROVE ~CharTo((a \o b)[j], p)
    <3>1. Len(a) \in Nat /\ Len(b) \in Nat
      BY JoinIs
    <3>2. j \notin 1 .. Len(a)
      BY <2>2, <2>3, <3>1
    <3>3. PICK m \in 1 .. Len(b) : j = Len(a) + m
      BY <3>2, JoinIs
    <3>4. (a \o b)[j] = b[m] /\ m > k
      BY <2>2, <2>3, <3>1, <3>3, JoinIs
    <3> QED
      BY <2>1, <3>4
  <2> QED
    BY <2>1, <2>2, <2>3 DEF Leaves
<1>2. CASE Leaves(a, p, c) /\ ~Rewrites(b, p)
  <2>1. PICK k \in 1 .. Len(a) : CharTo(a[k], p) /\ a[k].c = c /\ \A j \in 1 .. Len(a) : j > k => ~CharTo(a[j], p)
    BY <1>2 DEF Leaves
  <2>2. k \in 1 .. Len(a \o b) /\ (a \o b)[k] = a[k]
    BY JoinIs
  <2>3. ASSUME NEW j \in 1 .. Len(a \o b), j > k PROVE ~CharTo((a \o b)[j], p)
    <3>1. CASE j \in 1 .. Len(a)
      BY <2>1, <2>3, <3>1, JoinIs
    <3>2. CASE \E m \in 1 .. Len(b) : j = Len(a) + m
      <4>1. PICK m \in 1 .. Len(b) : j = Len(a) + m
        BY <3>2
      <4>2. (a \o b)[j] = b[m]
        BY <4>1, JoinIs
      <4> QED
        BY <1>2, <4>2 DEF Rewrites
    <3> QED
      BY <3>1, <3>2, JoinIs
  <2> QED
    BY <2>1, <2>2, <2>3 DEF Leaves
<1> QED
  BY <1>1, <1>2

LEMMA BodyJoin ==
    ASSUME NEW a \in Seq(LcdSteps), NEW b \in Seq(LcdSteps),
           \A i \in 1 .. Len(a) : BodyOp(a[i]), \A i \in 1 .. Len(b) : BodyOp(b[i])
    PROVE  \A i \in 1 .. Len(a \o b) : BodyOp((a \o b)[i])
<1>1. SUFFICES ASSUME NEW i \in 1 .. Len(a \o b) PROVE BodyOp((a \o b)[i])
  OBVIOUS
<1>2. CASE i \in 1 .. Len(a)
  <2>1. (a \o b)[i] = a[i] /\ BodyOp(a[i])
    BY <1>2, JoinIs
  <2> QED
    BY <2>1
<1>3. CASE \E k \in 1 .. Len(b) : i = Len(a) + k
  <2>1. PICK k \in 1 .. Len(b) : i = Len(a) + k
    BY <1>3
  <2>2. (a \o b)[i] = b[k]
    BY <2>1, JoinIs
  <2> QED
    BY <2>2
<1> QED
  BY <1>2, <1>3, JoinIs

\* What comes before the end of a call may be any stores that do not wait.
LEMMA EndsJoin ==
    ASSUME NEW a \in Seq(LcdSteps), NEW b \in Seq(LcdSteps), NEW n,
           CallLeft(b, n), Len(b) > 4, \A i \in 1 .. Len(a) : BodyOp(a[i])
    PROVE  CallLeft(a \o b, n)
<1>1. SUFFICES ASSUME NEW i \in 1 .. Len(a \o b) PROVE EndOp((a \o b)[i], Len(a \o b) - i, n)
  BY DEF CallLeft
<1>2. Len(a) \in Nat /\ Len(b) \in Nat /\ Len(a \o b) = Len(a) + Len(b)
  BY JoinIs
<1>3. CASE i \in 1 .. Len(a)
  <2>1. (a \o b)[i] = a[i] /\ BodyOp(a[i])
    BY <1>3, JoinIs
  <2>2. Len(a \o b) - i > 4
    BY <1>2, <1>3
  <2> QED
    BY <2>1, <2>2 DEF EndOp
<1>4. CASE \E k \in 1 .. Len(b) : i = Len(a) + k
  <2>1. PICK k \in 1 .. Len(b) : i = Len(a) + k
    BY <1>4
  <2>2. (a \o b)[i] = b[k] /\ Len(a \o b) - i = Len(b) - k
    BY <1>2, <2>1, JoinIs
  <2> QED
    BY <2>2 DEF CallLeft
<1> QED
  BY <1>3, <1>4, JoinIs

(* The list without its first step.                                        *)
LEMMA RestIs ==
    ASSUME NEW s \in Seq(LcdSteps), s # <<>>
    PROVE  /\ Head(s) = s[1] /\ Head(s) \in LcdSteps /\ Tail(s) \in Seq(LcdSteps)
           /\ Len(s) \in Nat \ {0} /\ Len(Tail(s)) = Len(s) - 1
           /\ \A i \in 1 .. Len(Tail(s)) : i + 1 \in 1 .. Len(s) /\ Tail(s)[i] = s[i + 1]
<1>1. PICK n \in Nat : n = Len(s)
  BY LenProperties
<1>2. n # 0
  BY <1>1, EmptySeq
<1>3. /\ Head(s) = s[1] /\ Head(s) \in LcdSteps /\ Tail(s) \in Seq(LcdSteps) /\ Len(Tail(s)) = n - 1
      /\ \A i \in 1 .. n - 1 : Tail(s)[i] = s[i + 1]
  BY <1>1, HeadTailProperties
<1> QED
  BY <1>1, <1>2, <1>3

LEMMA RestKeeps ==
    ASSUME NEW s \in Seq(LcdSteps), s # <<>>, NEW p, NEW c, NEW n
    PROVE  /\ Leaves(s, p, c) => \/ Leaves(Tail(s), p, c)
                                 \/ CharTo(Head(s), p) /\ Head(s).c = c /\ ~Rewrites(Tail(s), p)
           /\ ~Rewrites(s, p) => ~CharTo(Head(s), p) /\ ~Rewrites(Tail(s), p)
           /\ CallLeft(s, n) => CallLeft(Tail(s), n) /\ EndOp(Head(s), Len(Tail(s)), n)
<1>1. /\ Head(s) = s[1] /\ Len(s) \in Nat \ {0} /\ Len(Tail(s)) = Len(s) - 1
      /\ \A i \in 1 .. Len(Tail(s)) : i + 1 \in 1 .. Len(s) /\ Tail(s)[i] = s[i + 1]
  BY RestIs
<1>2. ASSUME Leaves(s, p, c)
      PROVE  Leaves(Tail(s), p, c) \/ (CharTo(Head(s), p) /\ Head(s).c = c /\ ~Rewrites(Tail(s), p))
  <2>1. PICK k \in 1 .. Len(s) : CharTo(s[k], p) /\ s[k].c = c /\ \A j \in 1 .. Len(s) : j > k => ~CharTo(s[j], p)
    BY <1>2 DEF Leaves
  <2>2. CASE k = 1
    <3>1. ASSUME NEW i \in 1 .. Len(Tail(s)) PROVE ~CharTo(Tail(s)[i], p)
      <4>1. PICK j \in 1 .. Len(s) : j = i + 1 /\ Tail(s)[i] = s[j]
        BY <1>1
      <4>2. j > k
        BY <2>2, <4>1
      <4> QED
        BY <2>1, <4>1, <4>2
    <3> QED
      BY <1>1, <2>1, <2>2, <3>1 DEF Rewrites
  <2>3. CASE k # 1
    <3>1. PICK m \in 1 .. Len(Tail(s)) : k = m + 1
      <4>1. k - 1 \in 1 .. Len(Tail(s)) /\ k = (k - 1) + 1
        BY <1>1, <2>3
      <4> QED
        BY <4>1
    <3>2. Tail(s)[m] = s[k]
      BY <1>1, <3>1
    <3>3. ASSUME NEW i \in 1 .. Len(Tail(s)), i > m PROVE ~CharTo(Tail(s)[i], p)
      <4>1. PICK j \in 1 .. Len(s) : j = i + 1 /\ Tail(s)[i] = s[j]
        BY <1>1
      <4>2. j > k
        BY <3>1, <3>3, <4>1
      <4> QED
        BY <2>1, <4>1, <4>2
    <3> QED
      BY <2>1, <3>2, <3>3 DEF Leaves
  <2> QED
    BY <2>2, <2>3
<1>3. ASSUME ~Rewrites(s, p) PROVE ~CharTo(Head(s), p) /\ ~Rewrites(Tail(s), p)
  <2>1. 1 \in 1 .. Len(s)
    BY <1>1
  <2> QED
    BY <1>1, <1>3, <2>1 DEF Rewrites
<1>4. ASSUME CallLeft(s, n) PROVE CallLeft(Tail(s), n) /\ EndOp(Head(s), Len(Tail(s)), n)
  <2>1. EndOp(s[1], Len(s) - 1, n)
    <3>1. 1 \in 1 .. Len(s)
      BY <1>1
    <3> QED
      BY <1>4, <3>1 DEF CallLeft
  <2>2. ASSUME NEW i \in 1 .. Len(Tail(s)) PROVE EndOp(Tail(s)[i], Len(Tail(s)) - i, n)
    <3>1. PICK j \in 1 .. Len(s) : j = i + 1 /\ Tail(s)[i] = s[j]
      BY <1>1
    <3>2. Len(Tail(s)) - i = Len(s) - j
      BY <1>1, <3>1
    <3>3. EndOp(s[j], Len(s) - j, n)
      BY <1>4 DEF CallLeft
    <3> QED
      BY <3>1, <3>2, <3>3
  <2> QED
    BY <1>1, <2>1, <2>2 DEF CallLeft
<1> QED
  BY <1>2, <1>3, <1>4

(* The lists that calls are made of.                                       *)
LEMMA NullsIs == Nulls \in Nat /\ Nulls >= 2 /\ Nulls = DisplaySize + 1
BY LcdAssumption DEF Nulls

LEMMA TableIs ==
    ASSUME NEW S, NEW n \in Nat, NEW f \in [1 .. n -> S]
    PROVE  f \in Seq(S) /\ Len(f) = n
<1>1. f \in Seq(S)
  BY SeqDef
<1> QED
  BY <1>1, LenProperties

LEMMA BlanksIs ==
    ASSUME NEW m \in Nat
    PROVE  /\ Blanks(m) \in Seq(LcdSteps) /\ Len(Blanks(m)) = Nulls + 1
           /\ \A p \in Nat : p < m => ~Rewrites(Blanks(m), p)
           /\ \A p \in m .. m + Nulls - 1 : Leaves(Blanks(m), p, Empty)
           /\ \A i \in 1 .. Len(Blanks(m)) : BodyOp(Blanks(m)[i])
<1>1. ASSUME NEW i \in 1 .. Nulls + 1
      PROVE  /\ CharAt(m + i - 1, IF i > Nulls THEN "0" ELSE Empty) \in LcdSteps
             /\ BodyOp(CharAt(m + i - 1, IF i > Nulls THEN "0" ELSE Empty))
  <2>1. m + i - 1 \in Nat
    BY NullsIs
  <2> QED
    BY <2>1 DEF CharAt, LcdSteps, LcdOps, Shapes, BodyOp
<1>2. Blanks(m) \in Seq(LcdSteps) /\ Len(Blanks(m)) = Nulls + 1
  <2>1. PICK n \in Nat : n = Nulls + 1
    BY NullsIs
  <2>2. Blanks(m) \in [1 .. n -> LcdSteps]
    BY <1>1, <2>1, Zenon DEF Blanks
  <2> QED
    BY <2>1, <2>2, TableIs
<1>3. \A i \in 1 .. Nulls + 1 : Blanks(m)[i] = CharAt(m + i - 1, IF i > Nulls THEN "0" ELSE Empty)
  BY DEF Blanks
<1>4. \A i \in 1 .. Nulls + 1 : Blanks(m)[i].op = "char" /\ Blanks(m)[i].at = m + i - 1
  <2>1. SUFFICES ASSUME NEW i \in 1 .. Nulls + 1 PROVE Blanks(m)[i].op = "char" /\ Blanks(m)[i].at = m + i - 1
    OBVIOUS
  <2>2. PICK a, c : a = m + i - 1 /\ c = IF i > Nulls THEN "0" ELSE Empty
    OBVIOUS
  <2>3. Blanks(m)[i] = CharAt(a, c)
    BY <1>3, <2>2, Zenon
  <2> QED
    BY <2>2, <2>3 DEF CharAt
<1>5. ASSUME NEW p \in Nat, p < m PROVE ~Rewrites(Blanks(m), p)
  <2>1. \A i \in 1 .. Nulls + 1 : m + i - 1 # p
    BY <1>5, NullsIs
  <2> QED
    BY <1>2, <1>4, <2>1 DEF Rewrites, CharTo
<1>6. ASSUME NEW p \in m .. m + Nulls - 1 PROVE Leaves(Blanks(m), p, Empty)
  <2>1. PICK i \in 1 .. Nulls + 1 : i = p - m + 1 /\ i <= Nulls /\ m + i - 1 = p
    <3>1. p - m + 1 \in 1 .. Nulls + 1 /\ p - m + 1 <= Nulls /\ m + (p - m + 1) - 1 = p
      BY NullsIs
    <3> QED
      BY <3>1
  <2>2. CharTo(Blanks(m)[i], p) /\ Blanks(m)[i].c = Empty
    <3>1. ~(i > Nulls)
      BY <2>1, NullsIs
    <3> QED
      <4>1. PICK a, c : a = m + i - 1 /\ c = IF i > Nulls THEN "0" ELSE Empty
        OBVIOUS
      <4>2. Blanks(m)[i] = CharAt(a, c) /\ c = Empty /\ a = p
        BY <1>3, <2>1, <3>1, <4>1, Zenon
      <4> QED
        BY <4>2 DEF CharTo, CharAt
  <2>3. \A j \in 1 .. Nulls + 1 : j > i => m + j - 1 # p
    BY <2>1, NullsIs
  <2> QED
    BY <1>2, <1>4, <2>2, <2>3 DEF Leaves, CharTo
<1> QED
  BY <1>1, <1>2, <1>3, <1>5, <1>6

LEMMA OneIs ==
    ASSUME NEW step \in LcdSteps
    PROVE  /\ <<step>> \in Seq(LcdSteps) /\ Len(<<step>>) = 1
           /\ \A p : Rewrites(<<step>>, p) <=> CharTo(step, p)
           /\ \A p : CharTo(step, p) => Leaves(<<step>>, p, step.c)
           /\ BodyOp(step) => \A i \in 1 .. Len(<<step>>) : BodyOp(<<step>>[i])
<1>1. <<step>> \in Seq(LcdSteps) /\ Len(<<step>>) = 1 /\ <<step>>[1] = step
  OBVIOUS
<1>2. \A i \in 1 .. Len(<<step>>) : <<step>>[i] = step /\ i = 1
  BY <1>1
<1>3. 1 \in 1 .. Len(<<step>>)
  BY <1>1
<1> QED
  BY <1>1, <1>2, <1>3 DEF Rewrites, Leaves

LEMMA ShowingIs ==
    ASSUME NEW n \in Nat, n >= Nulls, NEW last \in {"wait", "clear"}
    PROVE  /\ Showing(n, last) \in Seq(LcdSteps) /\ Len(Showing(n, last)) = 5
           /\ \A p : ~Rewrites(Showing(n, last), p)
           /\ CallLeft(Showing(n, last), n)
           /\ last = "clear" => \A i \in 1 .. 5 : BodyOp(Showing(n, last)[i])
<1>1. /\ Op("start", 0) \in LcdSteps /\ Op("end", n) \in LcdSteps /\ Op("count", 0) \in LcdSteps
      /\ Op("update", 0) \in LcdSteps /\ Op(last, 0) \in LcdSteps
  BY DEF Op, LcdSteps, LcdOps, Shapes
<1>2. /\ Showing(n, last) \in Seq(LcdSteps) /\ Len(Showing(n, last)) = 5
      /\ Showing(n, last)[1] = Op("start", 0) /\ Showing(n, last)[2] = Op("end", n)
      /\ Showing(n, last)[3] = Op("count", 0) /\ Showing(n, last)[4] = Op("update", 0)
      /\ Showing(n, last)[5] = Op(last, 0)
  BY <1>1 DEF Showing
<1>3. ASSUME NEW i \in 1 .. 5
      PROVE  /\ EndOp(Showing(n, last)[i], 5 - i, n) /\ Showing(n, last)[i].op # "char"
             /\ last = "clear" => BodyOp(Showing(n, last)[i])
  <2>1. i = 1 \/ i = 2 \/ i = 3 \/ i = 4 \/ i = 5
    OBVIOUS
  <2>2. CASE i = 1
    BY <1>2, <2>2 DEF Op, EndOp, BodyOp
  <2>3. CASE i = 2
    BY <1>2, <2>3 DEF Op, EndOp, BodyOp
  <2>4. CASE i = 3
    BY <1>2, <2>4 DEF Op, EndOp, BodyOp
  <2>5. CASE i = 4
    BY <1>2, <2>5 DEF Op, EndOp, BodyOp
  <2>6. CASE i = 5
    BY <1>2, <2>6 DEF Op, EndOp, BodyOp
  <2> QED
    BY <2>1, <2>2, <2>3, <2>4, <2>5, <2>6
<1> QED
  BY <1>2, <1>3 DEF Rewrites, CharTo, CallLeft

LEMMA RawIs ==
    ASSUME NEW t \in Seq(Shapes)
    PROVE  /\ Raw(t) \in Seq(LcdSteps)
           /\ \A p \in 0 .. Len(t) - 1 : Leaves(Raw(t), p, t[p + 1])
           /\ \A i \in 1 .. Len(Raw(t)) : BodyOp(Raw(t)[i])
<1>1. PICK n \in Nat : n = Len(t)
  BY LenProperties
<1>2. ASSUME NEW i \in 1 .. n PROVE CharAt(i - 1, t[i]) \in LcdSteps /\ BodyOp(CharAt(i - 1, t[i]))
  <2>1. i - 1 \in Nat /\ t[i] \in Shapes
    BY <1>1, LenProperties
  <2> QED
    BY <2>1 DEF CharAt, LcdSteps, LcdOps, BodyOp
<1>3. Raw(t) \in Seq(LcdSteps) /\ Len(Raw(t)) = n /\ \A i \in 1 .. n : Raw(t)[i] = CharAt(i - 1, t[i])
  <2>1. Raw(t) \in [1 .. n -> LcdSteps]
    BY <1>1, <1>2, Zenon DEF Raw
  <2> QED
    BY <1>1, <2>1, TableIs DEF Raw
<1>4. ASSUME NEW p \in 0 .. n - 1 PROVE Leaves(Raw(t), p, t[p + 1])
  <2>1. PICK i \in 1 .. n : i = p + 1 /\ i - 1 = p
    <3>1. p + 1 \in 1 .. n /\ p + 1 - 1 = p
      OBVIOUS
    <3> QED
      BY <3>1
  <2>2. CharTo(Raw(t)[i], p) /\ Raw(t)[i].c = t[p + 1]
    BY <1>3, <2>1 DEF CharTo, CharAt
  <2>3. ASSUME NEW j \in 1 .. n, j > i PROVE ~CharTo(Raw(t)[j], p)
    <3>1. j - 1 # p
      BY <2>1, <2>3
    <3> QED
      BY <1>3, <3>1 DEF CharTo, CharAt
  <2> QED
    BY <1>3, <2>2, <2>3 DEF Leaves
<1> QED
  BY <1>1, <1>2, <1>3, <1>4

LEMMA LoadIs ==
    ASSUME NEW t \in Seq(STRING), NEW n \in Nat, n <= Len(t)
    PROVE  /\ Load(t, n) \in Seq(LcdSteps)
           /\ \A i \in 1 .. n : Glyph(t[i]) \in Shapes
           /\ \A p \in 0 .. n - 1 : Leaves(Load(t, n), p, Glyph(t[p + 1]))
           /\ \A i \in 1 .. Len(Load(t, n)) : BodyOp(Load(t, n)[i])
<1>1. ASSUME NEW i \in 1 .. n PROVE Glyph(t[i]) \in Shapes
  <2>1. t[i] \in STRING
    BY LenProperties
  <2> QED
    BY <2>1 DEF Glyph, Shapes
<1>2. ASSUME NEW i \in 1 .. n PROVE CharAt(i - 1, Glyph(t[i])) \in LcdSteps /\ BodyOp(CharAt(i - 1, Glyph(t[i])))
  <2>1. i - 1 \in Nat
    OBVIOUS
  <2> QED
    BY <1>1, <2>1 DEF CharAt, LcdSteps, LcdOps, BodyOp
<1>3. Load(t, n) \in Seq(LcdSteps) /\ Len(Load(t, n)) = n /\ \A i \in 1 .. n : Load(t, n)[i] = CharAt(i - 1, Glyph(t[i]))
  <2>1. Load(t, n) \in [1 .. n -> LcdSteps]
    BY <1>2, Zenon DEF Load
  <2> QED
    BY <2>1, TableIs DEF Load
<1>4. ASSUME NEW p \in 0 .. n - 1 PROVE Leaves(Load(t, n), p, Glyph(t[p + 1]))
  <2>1. PICK i \in 1 .. n : i = p + 1 /\ i - 1 = p
    <3>1. p + 1 \in 1 .. n /\ p + 1 - 1 = p
      OBVIOUS
    <3> QED
      BY <3>1
  <2>2. CharTo(Load(t, n)[i], p) /\ Load(t, n)[i].c = Glyph(t[p + 1])
    BY <1>3, <2>1 DEF CharTo, CharAt
  <2>3. ASSUME NEW j \in 1 .. n, j > i PROVE ~CharTo(Load(t, n)[j], p)
    <3>1. j - 1 # p
      BY <2>1, <2>3
    <3> QED
      BY <1>3, <3>1 DEF CharTo, CharAt
  <2> QED
    BY <1>3, <2>2, <2>3 DEF Leaves
<1> QED
  BY <1>1, <1>2, <1>3, <1>4

\* What print() and appendc() do once the characters are stored.
LEMMA FinishIs ==
    ASSUME NEW m \in Nat
    PROVE  /\ Finish(m) \in Seq(LcdSteps) /\ Len(Finish(m)) > 4 /\ CallLeft(Finish(m), m + Nulls)
           /\ \A p \in Nat : p < m => ~Rewrites(Finish(m), p)
           /\ \A p \in m .. m + Nulls - 1 : Leaves(Finish(m), p, Empty)
<1> DEFINE a == <<Op("scroll", m)>>
           b == Blanks(m)
           c == Showing(m + Nulls, "wait")
<1>1. Op("scroll", m) \in LcdSteps /\ BodyOp(Op("scroll", m)) /\ \A p : ~CharTo(Op("scroll", m), p)
  BY DEF Op, LcdSteps, LcdOps, Shapes, BodyOp, CharTo
<1>2. a \in Seq(LcdSteps) /\ Len(a) = 1 /\ (\A p : ~Rewrites(a, p)) /\ \A i \in 1 .. Len(a) : BodyOp(a[i])
  BY <1>1, OneIs
<1>3. m + Nulls \in Nat /\ m + Nulls >= Nulls
  BY NullsIs
<1>4. c \in Seq(LcdSteps) /\ Len(c) = 5 /\ (\A p : ~Rewrites(c, p)) /\ CallLeft(c, m + Nulls)
  BY <1>3, ShowingIs
<1>5. /\ b \in Seq(LcdSteps) /\ (\A p \in Nat : p < m => ~Rewrites(b, p))
      /\ (\A p \in m .. m + Nulls - 1 : Leaves(b, p, Empty)) /\ \A i \in 1 .. Len(b) : BodyOp(b[i])
  BY BlanksIs
<1>6. Finish(m) = (a \o b) \o c
  BY DEF Finish
<1> HIDE DEF a, b, c
<1>7. /\ a \o b \in Seq(LcdSteps) /\ \A i \in 1 .. Len(a \o b) : BodyOp((a \o b)[i])
  BY <1>2, <1>5, JoinIs, BodyJoin
<1>8. (a \o b) \o c \in Seq(LcdSteps) /\ Len((a \o b) \o c) > 4
  <2>1. /\ (a \o b) \o c \in Seq(LcdSteps) /\ Len((a \o b) \o c) = Len(a \o b) + Len(c) /\ Len(a \o b) \in Nat
    BY <1>4, <1>7, JoinIs
  <2> QED
    BY <1>4, <2>1
<1>9. CallLeft((a \o b) \o c, m + Nulls)
  <2>1. Len(c) > 4
    BY <1>4
  <2> QED
    BY <1>4, <1>7, <2>1, EndsJoin
<1>10. ASSUME NEW p \in Nat, p < m PROVE ~Rewrites((a \o b) \o c, p)
  BY <1>2, <1>4, <1>5, <1>7, <1>10, RewritesJoin
<1>11. ASSUME NEW p \in m .. m + Nulls - 1 PROVE Leaves((a \o b) \o c, p, Empty)
  BY <1>2, <1>4, <1>5, <1>7, LeavesJoin
<1> QED
  BY <1>6, <1>8, <1>9, <1>10, <1>11

LEMMA ClearingIs ==
    /\ Clearing \in Seq(LcdSteps) /\ Len(Clearing) > 4 /\ CallLeft(Clearing, Nulls)
    /\ \A p \in 0 .. Nulls - 1 : Leaves(Clearing, p, Empty)
    /\ \A i \in 1 .. Len(Clearing) : BodyOp(Clearing[i])
<1> DEFINE a == Blanks(0)
           b == <<Op("clearNext", 0)>>
           c == Showing(Nulls, "clear")
<1>1. Op("clearNext", 0) \in LcdSteps /\ BodyOp(Op("clearNext", 0)) /\ \A p : ~CharTo(Op("clearNext", 0), p)
  BY DEF Op, LcdSteps, LcdOps, Shapes, BodyOp, CharTo
<1>2. b \in Seq(LcdSteps) /\ Len(b) = 1 /\ (\A p : ~Rewrites(b, p)) /\ \A i \in 1 .. Len(b) : BodyOp(b[i])
  BY <1>1, OneIs
<1>3. Nulls \in Nat /\ Nulls >= Nulls
  BY NullsIs
<1>4. /\ c \in Seq(LcdSteps) /\ Len(c) = 5 /\ (\A p : ~Rewrites(c, p)) /\ CallLeft(c, Nulls)
      /\ \A i \in 1 .. Len(c) : BodyOp(c[i])
  <2>1. c \in Seq(LcdSteps) /\ Len(c) = 5 /\ (\A p : ~Rewrites(c, p)) /\ CallLeft(c, Nulls)
    BY <1>3, ShowingIs
  <2>2. \A i \in 1 .. 5 : BodyOp(c[i])
    BY <1>3, ShowingIs
  <2> QED
    BY <2>1, <2>2
<1>5. /\ a \in Seq(LcdSteps) /\ (\A p \in 0 .. Nulls - 1 : Leaves(a, p, Empty)) /\ \A i \in 1 .. Len(a) : BodyOp(a[i])
  <2>1. PICK z \in Nat : z = 0
    OBVIOUS
  <2>2. /\ Blanks(z) \in Seq(LcdSteps) /\ (\A p \in z .. z + Nulls - 1 : Leaves(Blanks(z), p, Empty))
        /\ \A i \in 1 .. Len(Blanks(z)) : BodyOp(Blanks(z)[i])
    BY BlanksIs
  <2>3. \A p \in 0 .. Nulls - 1 : p \in z .. z + Nulls - 1
    BY <2>1, NullsIs
  <2> QED
    BY <2>1, <2>2, <2>3, Zenon
<1>6. Clearing = (a \o b) \o c
  BY DEF Clearing
<1> HIDE DEF a, b, c
<1>7. /\ a \o b \in Seq(LcdSteps) /\ \A i \in 1 .. Len(a \o b) : BodyOp((a \o b)[i])
  BY <1>2, <1>5, JoinIs, BodyJoin
<1>8. (a \o b) \o c \in Seq(LcdSteps) /\ Len((a \o b) \o c) > 4
  <2>1. /\ (a \o b) \o c \in Seq(LcdSteps) /\ Len((a \o b) \o c) = Len(a \o b) + Len(c) /\ Len(a \o b) \in Nat
    BY <1>4, <1>7, JoinIs
  <2> QED
    BY <1>4, <2>1
<1>9. CallLeft((a \o b) \o c, Nulls)
  <2>1. Len(c) > 4
    BY <1>4
  <2> QED
    BY <1>4, <1>7, <2>1, EndsJoin
<1>10. ASSUME NEW p \in 0 .. Nulls - 1 PROVE Leaves((a \o b) \o c, p, Empty)
  BY <1>2, <1>4, <1>5, <1>7, LeavesJoin
<1>11. \A i \in 1 .. Len((a \o b) \o c) : BodyOp(((a \o b) \o c)[i])
  BY <1>4, <1>7, BodyJoin
<1> QED
  BY <1>6, <1>8, <1>9, <1>10, <1>11

(***************************************************************************)
(* The invariant.  A place of the ring is as it is due to be, or the last  *)
(* store that is left to it makes it so.  While the indices are stored, one*)
(* interrupt at most moves the start on; once the end is stored they belong*)
(* together; and when the flag has been seen, the display shows the text.  *)
(***************************************************************************)
TextEnd == Len(text) + Nulls
Due(p) == IF p < Len(text) THEN text[p + 1] ELSE Empty
PlaceKept(s, p, c, buffer) == Leaves(s, p, c) \/ (~Rewrites(s, p) /\ buffer[p] = c)

LcdTypes ==
    /\ text \in Seq(Shapes) /\ Len(text) <= TextBufferSize /\ lcdTodo \in Seq(LcdSteps)
    /\ DOMAIN TextBuffer = DisplayPlaces /\ StrStart \in Nat /\ StrEnd \in Nat /\ StrEnd >= Nulls
    /\ framed \in BOOLEAN /\ UpdateDisplay \in BOOLEAN /\ cursorPosition \in Digit

RingDue == \A p \in 0 .. TextEnd - 1 : PlaceKept(lcdTodo, p, Due(p), TextBuffer)

Indices ==
    /\ Len(lcdTodo) = 4 => StrStart <= IF framed THEN 1 ELSE 0
    /\ Len(lcdTodo) <= 3 => StrEnd = TextEnd /\ StrStart <= StrEnd

DisplayShows ==
    /\ StrStart \in 1 .. TextEnd /\ shownAt \in Digit
    /\ \A d \in Digit : d >= shownAt => display[d] = Due((StrStart - 1 + d - shownAt) % TextEnd)

LcdInv ==
    /\ LcdTypes /\ CallLeft(lcdTodo, TextEnd) /\ RingDue /\ Indices
    /\ Len(lcdTodo) <= 1 /\ ~UpdateDisplay => DisplayShows

LEMMA LongIs ==
    ASSUME LcdTypes
    PROVE  Len(text) \in Nat /\ TextEnd \in Nat /\ TextEnd = Len(text) + Nulls /\ TextEnd >= Nulls
<1>1. Len(text) \in Nat
  BY LenProperties DEF LcdTypes
<1> QED
  BY <1>1, NullsIs DEF TextEnd

\* Near its end a call stores no character any more.
LEMMA NoneLeft ==
    ASSUME LcdTypes, CallLeft(lcdTodo, TextEnd), Len(lcdTodo) <= 3, NEW p
    PROVE  ~Rewrites(lcdTodo, p)
<1>1. SUFFICES ASSUME NEW i \in 1 .. Len(lcdTodo) PROVE ~CharTo(lcdTodo[i], p)
  BY DEF Rewrites
<1>2. EndOp(lcdTodo[i], Len(lcdTodo) - i, TextEnd) /\ Len(lcdTodo) \in Nat
  BY LenProperties DEF LcdTypes, CallLeft
<1>3. Len(lcdTodo) - i = 0 \/ Len(lcdTodo) - i = 1 \/ Len(lcdTodo) - i = 2
  BY <1>2
<1> QED
  BY <1>2, <1>3 DEF EndOp, CharTo

(* Around the ring.                                                        *)
LEMMA AroundIs ==
    ASSUME NEW l \in Nat, l >= Nulls, NEW s \in 0 .. l, NEW k \in 0 .. DisplaySize - 1,
           NEW x \in Int, s = l => x = k, s # l => x = s + k
    PROVE  /\ s + k >= l => x % l = s + k - l
           /\ ~(s + k >= l) => x % l = s + k
           /\ s + k \in Nat /\ s + k < l + l
<1>1. s + k \in Nat /\ s + k < l + l /\ x \in Nat /\ x < l + l /\ k < l
  BY NullsIs, LcdAssumption
<1>2. x % l = IF x < l THEN x ELSE x - l
  BY <1>1, NullsIs
<1> QED
  BY <1>1, <1>2, NullsIs, LcdAssumption

(* The frame interrupt.                                                    *)
LEMMA FrameKeeps ==
    ASSUME LcdInv, LCD_vect
    PROVE  LcdInv'
<1> DEFINE scrolls == ScrollFlags /\ ScrollCount = 0
           from == IF clearDisplay THEN 0 ELSE cursorPosition
           between == lcdTodo # <<>> /\ Head(lcdTodo).op # "wait"
<1>1. /\ LcdTypes /\ CallLeft(lcdTodo, TextEnd) /\ RingDue /\ Indices
      /\ Len(lcdTodo) <= 1 /\ ~UpdateDisplay => DisplayShows
      /\ UNCHANGED <<TextBuffer, StrEnd, cursorPosition, lcdTodo, text>>
      /\ between => ~framed
      /\ framed' = between
  BY DEF LcdInv, LCD_vect
<1>2. Len(lcdTodo) = 4 => between
  <2>1. SUFFICES ASSUME Len(lcdTodo) = 4 PROVE between
    OBVIOUS
  <2>2. lcdTodo # <<>> /\ lcdTodo \in Seq(LcdSteps)
    <3>1. lcdTodo \in Seq(LcdSteps)
      BY <1>1 DEF LcdTypes
    <3>2. Len(<<>>) # 4
      OBVIOUS
    <3>3. lcdTodo # <<>>
      BY <2>1, <3>2, Zenon
    <3> QED
      BY <3>1, <3>3
  <2>3. EndOp(Head(lcdTodo), Len(Tail(lcdTodo)), TextEnd) /\ Len(Tail(lcdTodo)) = 3
    BY <1>1, <2>1, <2>2, RestKeeps, RestIs
  <2> QED
    BY <2>2, <2>3 DEF EndOp
<1>3. framed' \in BOOLEAN
  BY <1>1
<1>4. Len(lcdTodo) = 4 => framed' /\ StrStart = 0
  <2>1. SUFFICES ASSUME Len(lcdTodo) = 4 PROVE framed' /\ StrStart = 0
    OBVIOUS
  <2>2. between /\ ~framed
    BY <1>1, <1>2, <2>1, Zenon
  <2>3. framed'
    BY <1>1, <2>2, Zenon
  <2>4. StrStart <= 0
    BY <1>1, <2>1, <2>2 DEF Indices
  <2>5. StrStart \in Nat
    BY <1>1 DEF LcdTypes
  <2>6. StrStart = 0
    BY <2>4, <2>5
  <2> QED
    BY <2>3, <2>6
<1>5. TextEnd' = TextEnd /\ TextEnd \in Nat /\ TextEnd >= Nulls /\ \A p : Due(p)' = Due(p)
  BY <1>1, LongIs DEF TextEnd, Due
<1>6. CallLeft(lcdTodo, TextEnd)' /\ RingDue'
  BY <1>1, <1>5, Zenon DEF CallLeft, RingDue
<1>7. CASE UpdateDisplay \/ scrolls
  <2>1. /\ display' = [d \in Digit |-> IF d < from THEN display[d] ELSE TextBuffer[Wrapped(StrStart + d - from)]]
        /\ StrStart' = IF StrStart = StrEnd THEN 1 ELSE StrStart + 1
        /\ UpdateDisplay' = FALSE /\ shownAt' = from
    BY <1>7 DEF LCD_vect
  <2>2. from \in Digit
    BY <1>1, LcdAssumption DEF LcdTypes, Digit
  <2>3. StrStart' \in Nat
    BY <1>1, <2>1 DEF LcdTypes
  <2>4. LcdTypes'
    BY <1>1, <1>3, <2>1, <2>3 DEF LcdTypes
  <2>5. Indices'
    <3>1. Len(lcdTodo) = 4 => StrStart' = 1
      BY <1>1, <1>4, <2>1, NullsIs DEF LcdTypes
    <3>2. Len(lcdTodo) <= 3 => StrStart' <= StrEnd
      BY <1>1, <2>1, NullsIs DEF LcdTypes, Indices
    <3> QED
      BY <1>1, <1>4, <1>5, <3>1, <3>2 DEF Indices
  <2>6. ASSUME Len(lcdTodo) <= 3 PROVE DisplayShows'
    <3>1. StrEnd = TextEnd /\ StrStart \in 0 .. TextEnd
      BY <1>1, <1>5, <2>6 DEF Indices, LcdTypes
    <3>2. \A p \in 0 .. TextEnd - 1 : TextBuffer[p] = Due(p)
      <4>1. SUFFICES ASSUME NEW p \in 0 .. TextEnd - 1 PROVE TextBuffer[p] = Due(p)
        OBVIOUS
      <4>2. ~Rewrites(lcdTodo, p)
        BY <1>1, <2>6, NoneLeft
      <4>3. ~Leaves(lcdTodo, p, Due(p))
        BY <4>2 DEF Leaves, Rewrites
      <4> QED
        BY <1>1, <4>3 DEF RingDue, PlaceKept
    <3>3. ASSUME NEW d \in Digit, d >= from PROVE display'[d] = Due((StrStart' - 1 + d - from) % TextEnd)
      <4>1. PICK k \in 0 .. DisplaySize - 1 : k = d - from
        BY <2>2, <3>3, LcdAssumption DEF Digit
      <4>2. display'[d] = TextBuffer[Wrapped(StrStart + d - from)]
        <5>1. ~(d < from)
          BY <2>2, <3>3, LcdAssumption DEF Digit
        <5> QED
          BY <2>1, <5>1
      <4>3. StrStart + d - from = StrStart + k /\ StrStart' - 1 + d - from = StrStart' - 1 + k
        BY <2>2, <2>3, <3>1, <4>1, LcdAssumption DEF Digit
      <4>4. PICK l \in Nat : l = TextEnd
        BY <1>5
      <4>5. PICK s \in 0 .. l : s = StrStart
        BY <3>1, <4>4
      <4>6. PICK z \in Int : z = StrStart' - 1 + k
        BY <2>3, <4>1, LcdAssumption
      <4>7. (s = l => z = k) /\ (s # l => z = s + k)
        BY <2>1, <3>1, <4>1, <4>4, <4>5, <4>6, LcdAssumption
      <4>8. l >= Nulls
        BY <1>5, <4>4
      <4>9. /\ s + k >= l => z % l = s + k - l
            /\ ~(s + k >= l) => z % l = s + k
            /\ s + k \in Nat /\ s + k < l + l
        BY <4>7, <4>8, AroundIs
      <4>10. PICK y \in Nat : y = s + k
        BY <4>9
      <4>11. PICK x : x = Wrapped(y)
        OBVIOUS
      <4>12. x = IF y >= l THEN y - l ELSE y
        <5>1. l = StrEnd
          BY <3>1, <4>4
        <5> QED
          BY <4>11, <5>1, Zenon DEF Wrapped
      <4>13. x = z % l /\ x \in 0 .. l - 1
        BY <4>9, <4>10, <4>12
      <4>14. display'[d] = TextBuffer[x]
        <5>1. StrStart + d - from = y
          BY <4>3, <4>5, <4>10
        <5> QED
          BY <4>2, <4>11, <5>1, Zenon
      <4>15. StrStart' - 1 + d - from = z
        BY <4>3, <4>6
      <4> QED
        BY <3>2, <4>4, <4>13, <4>14, <4>15
    <3>4. StrStart' \in 1 .. TextEnd
      BY <1>5, <2>1, <3>1, NullsIs
    <3> QED
      BY <1>5, <2>1, <2>2, <3>3, <3>4 DEF DisplayShows
  <2> QED
    BY <1>1, <1>6, <2>4, <2>5, <2>6, LenProperties DEF LcdInv, LcdTypes
<1>8. CASE ~(UpdateDisplay \/ scrolls)
  <2>1. UNCHANGED <<display, StrStart, UpdateDisplay, shownAt>>
    BY <1>8 DEF LCD_vect
  <2>2. LcdTypes'
    BY <1>1, <1>3, <2>1 DEF LcdTypes
  <2>3. Indices'
    BY <1>1, <1>4, <1>5, <2>1 DEF Indices
  <2>4. DisplayShows => DisplayShows'
    BY <1>1, <1>5, <2>1, Zenon DEF DisplayShows
  <2> QED
    BY <1>1, <1>6, <2>1, <2>2, <2>3, <2>4 DEF LcdInv
<1> QED
  BY <1>7, <1>8

(* A step of a call.                                                       *)
LEMMA TextStepKeeps ==
    ASSUME LcdInv, LcdStep
    PROVE  LcdInv'
<1>0. PICK step, k : step = Head(lcdTodo) /\ k = Len(Tail(lcdTodo))
  OBVIOUS
<1>1. /\ LcdTypes /\ CallLeft(lcdTodo, TextEnd) /\ RingDue /\ Indices
      /\ Len(lcdTodo) <= 1 /\ ~UpdateDisplay => DisplayShows
  BY DEF LcdInv
<1>2. /\ lcdTodo # <<>> /\ lcdTodo' = Tail(lcdTodo)
      /\ TextBuffer' = IF step.op = "char" /\ step.at \in DisplayPlaces THEN [TextBuffer EXCEPT ![step.at] = step.c] ELSE TextBuffer
      /\ StrStart' = IF step.op = "start" THEN 0 ELSE StrStart
      /\ StrEnd' = IF step.op = "end" THEN step.at ELSE StrEnd
      /\ UNCHANGED <<cursorPosition, display, framed, text, shownAt>>
  BY <1>0 DEF LcdStep
<1>3. /\ UpdateDisplay' \in BOOLEAN /\ (UpdateDisplay => UpdateDisplay') /\ (step.op = "update" => UpdateDisplay')
      /\ (UpdateDisplay' => UpdateDisplay \/ step.op = "update")
  BY <1>0, Zenon DEF LcdStep
<1>4. lcdTodo \in Seq(LcdSteps)
  BY <1>1 DEF LcdTypes
<1>5. /\ step \in LcdSteps /\ Tail(lcdTodo) \in Seq(LcdSteps) /\ k \in Nat /\ Len(lcdTodo) = k + 1
      /\ CallLeft(Tail(lcdTodo), TextEnd) /\ EndOp(step, k, TextEnd)
  <2>1. /\ step \in LcdSteps /\ Tail(lcdTodo) \in Seq(LcdSteps)
        /\ Len(lcdTodo) \in Nat \ {0} /\ Len(Tail(lcdTodo)) = Len(lcdTodo) - 1
    BY <1>0, <1>2, <1>4, RestIs
  <2>2. CallLeft(Tail(lcdTodo), TextEnd) /\ EndOp(step, k, TextEnd)
    BY <1>0, <1>1, <1>2, <1>4, RestKeeps
  <2> QED
    BY <1>0, <2>1, <2>2
<1>6. TextEnd' = TextEnd /\ TextEnd \in Nat /\ TextEnd >= Nulls /\ \A p : Due(p)' = Due(p)
  BY <1>1, <1>2, LongIs DEF TextEnd, Due
<1>7. step.op = "end" => step.at \in Nat /\ step.at >= Nulls
  <2>1. step.at \in Nat
    BY <1>5 DEF LcdSteps
  <2> QED
    BY <1>5, <2>1 DEF EndOp, BodyOp
<1>8. LcdTypes'
  <2>1. /\ text \in Seq(Shapes) /\ Len(text) <= TextBufferSize /\ DOMAIN TextBuffer = DisplayPlaces
        /\ StrStart \in Nat /\ StrEnd \in Nat /\ StrEnd >= Nulls /\ framed \in BOOLEAN /\ cursorPosition \in Digit
    BY <1>1 DEF LcdTypes
  <2>2. DOMAIN TextBuffer' = DisplayPlaces
    BY <1>2, <2>1
  <2>3. StrStart' \in Nat /\ StrEnd' \in Nat /\ StrEnd' >= Nulls
    BY <1>2, <1>7, <2>1
  <2>4. text' \in Seq(Shapes) /\ Len(text') <= TextBufferSize /\ framed' \in BOOLEAN /\ cursorPosition' \in Digit
    BY <1>2, <2>1, Zenon
  <2>5. lcdTodo' \in Seq(LcdSteps)
    BY <1>2, <1>5, Zenon
  <2> QED
    BY <1>3, <2>2, <2>3, <2>4, <2>5, Zenon DEF LcdTypes
<1>9. RingDue'
  <2>1. SUFFICES ASSUME NEW p \in 0 .. TextEnd - 1 PROVE PlaceKept(Tail(lcdTodo), p, Due(p), TextBuffer')
    BY <1>2, <1>6, Zenon DEF RingDue
  <2>2. PlaceKept(lcdTodo, p, Due(p), TextBuffer)
    BY <1>1 DEF RingDue
  <2>3. p \in DisplayPlaces /\ DOMAIN TextBuffer = DisplayPlaces
    <3>1. /\ Len(text) \in Nat /\ TextEnd = Len(text) + Nulls
          /\ Len(text) <= TextBufferSize /\ DOMAIN TextBuffer = DisplayPlaces
      BY <1>1, LongIs DEF LcdTypes
    <3> QED
      BY <3>1, NullsIs, LcdAssumption DEF DisplayPlaces
  <2>4. CharTo(step, p) => TextBuffer'[p] = step.c
    BY <1>2, <2>3 DEF CharTo
  <2>5. ~CharTo(step, p) => TextBuffer'[p] = TextBuffer[p]
    BY <1>2, <2>3 DEF CharTo
  <2>6. CASE Leaves(lcdTodo, p, Due(p))
    BY <1>0, <1>2, <1>4, <2>4, <2>6, RestKeeps DEF PlaceKept
  <2>7. CASE ~Rewrites(lcdTodo, p) /\ TextBuffer[p] = Due(p)
    BY <1>0, <1>2, <1>4, <2>5, <2>7, RestKeeps DEF PlaceKept
  <2> QED
    BY <2>2, <2>6, <2>7 DEF PlaceKept
<1>10. Indices'
  <2>1. StrStart \in Nat /\ StrEnd \in Nat /\ framed \in BOOLEAN
    BY <1>1 DEF LcdTypes
  <2>2. ASSUME k = 4 PROVE StrStart' = 0
    BY <1>2, <1>5, <2>2 DEF EndOp
  <2>3. ASSUME k = 3 PROVE StrEnd' = TextEnd /\ StrStart' <= StrEnd'
    <3>1. step.op = "end" /\ step.at = TextEnd
      BY <1>5, <2>3 DEF EndOp
    <3>2. StrStart <= 1
      BY <1>1, <1>5, <2>1, <2>3 DEF Indices
    <3> QED
      BY <1>2, <1>6, <2>1, <3>1, <3>2, NullsIs
  <2>4. ASSUME k <= 2 PROVE StrEnd' = TextEnd /\ StrStart' <= StrEnd'
    <3>1. k = 0 \/ k = 1 \/ k = 2
      BY <1>5, <2>4
    <3>2. step.op # "end" /\ step.op # "start"
      BY <1>5, <3>1 DEF EndOp
    <3> QED
      BY <1>1, <1>2, <1>5, <2>4, <3>2 DEF Indices
  <2>5. Len(lcdTodo') = k
    BY <1>0, <1>2
  <2>6. k <= 3 => k = 3 \/ k <= 2
    BY <1>5
  <2>7. k = 4 => StrStart' <= IF framed' THEN 1 ELSE 0
    BY <2>2
  <2>8. k <= 3 => StrEnd' = TextEnd' /\ StrStart' <= StrEnd'
    BY <1>6, <2>3, <2>4, <2>6, Zenon
  <2> QED
    BY <2>5, <2>7, <2>8, Zenon DEF Indices
<1>11. ASSUME k <= 1, ~UpdateDisplay' PROVE DisplayShows'
  <2>1. k = 0
    <3>1. k # 1
      BY <1>3, <1>5, <1>11 DEF EndOp
    <3> QED
      BY <1>5, <1>11, <3>1
  <2>2. step.op # "start" /\ Len(lcdTodo) <= 1
    BY <1>5, <2>1 DEF EndOp
  <2>3. DisplayShows
    BY <1>1, <1>3, <1>11, <2>2, Zenon
  <2>4. StrStart' = StrStart
    BY <1>2, <2>2
  <2> QED
    BY <1>2, <1>6, <2>3, <2>4, Zenon DEF DisplayShows
<1>12. CallLeft(lcdTodo, TextEnd)'
  BY <1>2, <1>5, <1>6, Zenon DEF CallLeft
<1>13. (Len(lcdTodo) <= 1 /\ ~UpdateDisplay => DisplayShows)'
  <2>1. Len(lcdTodo') = k
    BY <1>0, <1>2, Zenon
  <2> QED
    BY <1>11, <2>1, Zenon
<1>14. LcdTypes' /\ (CallLeft(lcdTodo, TextEnd))' /\ RingDue' /\ Indices'
  BY <1>8, <1>9, <1>10, <1>12
<1> QED
  BY <1>14, <1>13 DEF LcdInv

LEMMA SplitIs ==
    ASSUME NEW m \in Nat, NEW l \in Nat, l = m + Nulls, NEW p \in 0 .. l - 1
    PROVE  (p \in 0 .. m - 1 /\ p < m) \/ (p \in m .. m + Nulls - 1 /\ ~(p < m))
BY NullsIs

(* A call begins: what it lists makes every place of its text right.       *)
LEMMA CallBegins ==
    ASSUME LcdInv, lcdTodo = <<>>,
           NEW s \in Seq(LcdSteps), NEW t \in Seq(Shapes), Len(t) <= TextBufferSize,
           lcdTodo' = s, text' = t, framed' = FALSE, cursorPosition' \in Digit, UNCHANGED lcdRest,
           Len(s) > 4, CallLeft(s, Len(t) + Nulls),
           \A p \in 0 .. Len(t) - 1 : PlaceKept(s, p, t[p + 1], TextBuffer),
           \A p \in Len(t) .. Len(t) + Nulls - 1 : PlaceKept(s, p, Empty, TextBuffer)
    PROVE  LcdInv'
<1>1. UNCHANGED <<TextBuffer, StrStart, StrEnd>> /\ UpdateDisplay' = UpdateDisplay
  BY DEF lcdRest
<1>2. ~(Len(lcdTodo') = 4) /\ ~(Len(lcdTodo') <= 3) /\ ~(Len(lcdTodo') <= 1)
  <2>1. PICK n \in Nat : n = Len(s)
    BY LenProperties
  <2>2. n > 4 /\ n = Len(lcdTodo')
    BY <2>1, Zenon
  <2>3. \A i \in Nat : i > 4 => ~(i = 4) /\ ~(i <= 3) /\ ~(i <= 1)
    OBVIOUS
  <2> QED
    BY <2>2, <2>3, Zenon
<1>3. LcdTypes'
  <2>1. DOMAIN TextBuffer = DisplayPlaces /\ StrStart \in Nat /\ StrEnd \in Nat /\ StrEnd >= Nulls /\ UpdateDisplay \in BOOLEAN
    BY DEF LcdInv, LcdTypes
  <2> QED
    BY <1>1, <2>1 DEF LcdTypes
<1>4. TextEnd' = Len(t) + Nulls
  BY DEF TextEnd, Nulls
<1>5. RingDue'
  <2>1. PICK m \in Nat : m = Len(t)
    BY LenProperties
  <2>2. SUFFICES ASSUME NEW p \in 0 .. TextEnd' - 1 PROVE PlaceKept(s, p, Due(p)', TextBuffer)
    BY <1>1, Zenon DEF RingDue
  <2>3. PICK l \in Nat : l = m + Nulls
    BY NullsIs
  <2>4. p \in 0 .. l - 1
    <3>1. TextEnd' = l
      BY <1>4, <2>1, <2>3, Zenon
    <3> QED
      BY <3>1, Zenon
  <2>5. (p \in 0 .. m - 1 /\ p < m) \/ (p \in m .. m + Nulls - 1 /\ ~(p < m))
    BY <2>3, <2>4, SplitIs, Zenon
  <2>6. CASE p \in 0 .. m - 1 /\ p < m
    <3>1. Due(p)' = t[p + 1]
      BY <2>1, <2>6 DEF Due
    <3>2. PlaceKept(s, p, t[p + 1], TextBuffer)
      BY <2>1, <2>6, Zenon
    <3> QED
      BY <3>1, <3>2, Zenon
  <2>7. CASE p \in m .. m + Nulls - 1 /\ ~(p < m)
    <3>1. Due(p)' = Empty
      BY <2>1, <2>7 DEF Due
    <3>2. PlaceKept(s, p, Empty, TextBuffer)
      BY <2>1, <2>7, Zenon
    <3> QED
      BY <3>1, <3>2, Zenon
  <2> QED
    BY <2>5, <2>6, <2>7, Zenon
<1>6. Indices'
  BY <1>2, Zenon DEF Indices
<1>7. (Len(lcdTodo) <= 1 /\ ~UpdateDisplay => DisplayShows)'
  BY <1>2
<1>8. CallLeft(lcdTodo, TextEnd)'
  BY <1>4, Zenon DEF CallLeft
<1> QED
  BY <1>3, <1>5, <1>6, <1>7, <1>8 DEF LcdInv

\* A list of stores before the end of print() or appendc().
LEMMA FinishJoin ==
    ASSUME NEW a \in Seq(LcdSteps), \A i \in 1 .. Len(a) : BodyOp(a[i]), NEW m \in Nat
    PROVE  /\ a \o Finish(m) \in Seq(LcdSteps) /\ Len(a \o Finish(m)) > 4 /\ CallLeft(a \o Finish(m), m + Nulls)
           /\ \A c, b : \A p \in Nat : p < m /\ PlaceKept(a, p, c, b) => PlaceKept(a \o Finish(m), p, c, b)
           /\ \A b : \A p \in m .. m + Nulls - 1 : PlaceKept(a \o Finish(m), p, Empty, b)
<1>1. /\ Finish(m) \in Seq(LcdSteps) /\ Len(Finish(m)) > 4 /\ CallLeft(Finish(m), m + Nulls)
      /\ \A p \in Nat : p < m => ~Rewrites(Finish(m), p)
      /\ \A p \in m .. m + Nulls - 1 : Leaves(Finish(m), p, Empty)
  BY FinishIs
<1>2. a \o Finish(m) \in Seq(LcdSteps) /\ Len(a \o Finish(m)) > 4
  <2>1. a \o Finish(m) \in Seq(LcdSteps) /\ Len(a) \in Nat /\ Len(Finish(m)) \in Nat /\ Len(a \o Finish(m)) = Len(a) + Len(Finish(m))
    BY <1>1, JoinIs
  <2> QED
    BY <1>1, <2>1
<1>3. CallLeft(a \o Finish(m), m + Nulls)
  BY <1>1, EndsJoin
<1>4. ASSUME NEW p \in Nat, NEW c, NEW b, p < m, PlaceKept(a, p, c, b) PROVE PlaceKept(a \o Finish(m), p, c, b)
  <2>1. ~Rewrites(Finish(m), p)
    BY <1>1, <1>4
  <2>2. CASE Leaves(a, p, c)
    BY <1>1, <2>1, <2>2, LeavesJoin DEF PlaceKept
  <2>3. CASE ~Rewrites(a, p) /\ b[p] = c
    BY <1>1, <2>1, <2>3, RewritesJoin DEF PlaceKept
  <2> QED
    BY <1>4, <2>2, <2>3 DEF PlaceKept
<1>5. ASSUME NEW p \in m .. m + Nulls - 1, NEW b PROVE PlaceKept(a \o Finish(m), p, Empty, b)
  BY <1>1, LeavesJoin DEF PlaceKept
<1> QED
  BY <1>2, <1>3, <1>4, <1>5

LEMMA TextBegins ==
    ASSUME LcdInv, lcdTodo = <<>>,
           NEW a \in Seq(LcdSteps), \A i \in 1 .. Len(a) : BodyOp(a[i]),
           NEW t \in Seq(Shapes), Len(t) <= TextBufferSize,
           lcdTodo' = a \o Finish(Len(t)), text' = t, framed' = FALSE, cursorPosition' \in Digit, UNCHANGED lcdRest,
           \A p \in 0 .. Len(t) - 1 : PlaceKept(a, p, t[p + 1], TextBuffer)
    PROVE  LcdInv'
<1>1. PICK m \in Nat : m = Len(t)
  BY LenProperties
<1>2. PICK s : s = a \o Finish(m)
  OBVIOUS
<1>3. /\ s \in Seq(LcdSteps) /\ Len(s) > 4 /\ CallLeft(s, m + Nulls)
      /\ \A c, b : \A p \in Nat : p < m /\ PlaceKept(a, p, c, b) => PlaceKept(s, p, c, b)
      /\ \A b : \A p \in m .. m + Nulls - 1 : PlaceKept(s, p, Empty, b)
  BY <1>2, FinishJoin
<1>4. ASSUME NEW p \in 0 .. m - 1 PROVE PlaceKept(s, p, t[p + 1], TextBuffer)
  <2>1. p \in Nat /\ p < m /\ PlaceKept(a, p, t[p + 1], TextBuffer)
    BY <1>1
  <2> QED
    BY <1>3, <2>1
<1>5. lcdTodo' = s
  BY <1>1, <1>2
<1>6. /\ CallLeft(s, Len(t) + Nulls)
      /\ \A p \in 0 .. Len(t) - 1 : PlaceKept(s, p, t[p + 1], TextBuffer)
      /\ \A p \in Len(t) .. Len(t) + Nulls - 1 : PlaceKept(s, p, Empty, TextBuffer)
  BY <1>1, <1>3, <1>4, Zenon
<1> QED
  BY <1>3, <1>5, <1>6, CallBegins

(* print(), with or without the copy from flash before it.                 *)
LEMMA PrintKeeps ==
    ASSUME LcdInv, print
    PROVE  LcdInv'
<1>1. PICK r \in Texts : LET n == IF Len(r) < TextBufferSize THEN Len(r) ELSE TextBufferSize
                         IN /\ \/ LcdCall(Load(r, n) \o Finish(n))
                               \/ Len(r) <= TextBufferSize /\ LcdCall(Raw(r) \o Load(r, n) \o Finish(n))
                            /\ text' = [i \in 1 .. n |-> Glyph(r[i])]
  BY DEF print
<1>2. r \in Seq(STRING) /\ Len(r) \in Nat
  BY LcdAssumption, LenProperties
<1>3. PICK n \in Nat : n = IF Len(r) < TextBufferSize THEN Len(r) ELSE TextBufferSize
  BY <1>2, LcdAssumption
<1>4. n <= Len(r) /\ n <= TextBufferSize
  BY <1>2, <1>3, LcdAssumption
<1>5. PICK t : t = [i \in 1 .. n |-> Glyph(r[i])]
  OBVIOUS
<1>6. /\ LcdCall(Load(r, n) \o Finish(n)) \/ LcdCall(Raw(r) \o Load(r, n) \o Finish(n))
      /\ text' = t /\ UNCHANGED lcdRest /\ cursorPosition' = cursorPosition
  BY <1>1, <1>3, <1>5, Zenon DEF print
<1>7. /\ Load(r, n) \in Seq(LcdSteps) /\ (\A i \in 1 .. n : Glyph(r[i]) \in Shapes)
      /\ \A p \in 0 .. n - 1 : Leaves(Load(r, n), p, Glyph(r[p + 1]))
      /\ \A i \in 1 .. Len(Load(r, n)) : BodyOp(Load(r, n)[i])
  BY <1>2, <1>4, LoadIs
<1>8. t \in Seq(Shapes) /\ Len(t) = n
  <2>1. t \in [1 .. n -> Shapes]
    BY <1>5, <1>7, Zenon
  <2> QED
    BY <2>1, TableIs
<1>9. \A p \in 0 .. n - 1 : Leaves(Load(r, n), p, t[p + 1])
  <2>1. SUFFICES ASSUME NEW p \in 0 .. n - 1 PROVE t[p + 1] = Glyph(r[p + 1])
    BY <1>7, Zenon
  <2>2. p + 1 \in 1 .. n
    OBVIOUS
  <2> QED
    BY <1>5, <2>2, Zenon
<1>10. Raw(r) \in Seq(LcdSteps) /\ \A i \in 1 .. Len(Raw(r)) : BodyOp(Raw(r)[i])
  <2>1. r \in Seq(Shapes)
    <3>1. r \in [1 .. Len(r) -> STRING]
      BY <1>2, LenProperties
    <3>2. \A x \in STRING : x \in Shapes
      BY DEF Shapes
    <3>3. r \in [1 .. Len(r) -> Shapes]
      BY <3>1, <3>2, Zenon
    <3> QED
      BY <1>2, <3>3, TableIs
  <2> QED
    BY <2>1, RawIs
<1>11. PICK a : /\ a \in Seq(LcdSteps) /\ (\A i \in 1 .. Len(a) : BodyOp(a[i])) /\ LcdCall(a \o Finish(n))
                /\ \A p \in 0 .. n - 1 : Leaves(a, p, t[p + 1])
  <2>1. CASE LcdCall(Load(r, n) \o Finish(n))
    BY <1>7, <1>9, <2>1, Zenon
  <2>2. CASE LcdCall(Raw(r) \o Load(r, n) \o Finish(n))
    <3>1. PICK b, c : b = Raw(r) /\ c = Load(r, n)
      OBVIOUS
    <3>2. b \in Seq(LcdSteps) /\ c \in Seq(LcdSteps) /\ (\A i \in 1 .. Len(b) : BodyOp(b[i])) /\ \A i \in 1 .. Len(c) : BodyOp(c[i])
      BY <1>7, <1>10, <3>1, Zenon
    <3>3. b \o c \in Seq(LcdSteps) /\ \A i \in 1 .. Len(b \o c) : BodyOp((b \o c)[i])
      BY <3>2, JoinIs, BodyJoin
    <3>4. ASSUME NEW p \in 0 .. n - 1 PROVE Leaves(b \o c, p, t[p + 1])
      <4>1. Leaves(c, p, t[p + 1])
        BY <1>9, <3>1, Zenon
      <4> QED
        BY <3>2, <4>1, LeavesJoin
    <3> QED
      BY <2>2, <3>1, <3>3, <3>4, Zenon
  <2> QED
    BY <1>6, <2>1, <2>2
<1>12. lcdTodo = <<>> /\ lcdTodo' = a \o Finish(Len(t)) /\ framed' = FALSE
  BY <1>8, <1>11, Zenon DEF LcdCall
<1>13. cursorPosition' \in Digit
  BY <1>6 DEF LcdInv, LcdTypes
<1>14. Len(t) <= TextBufferSize /\ \A p \in 0 .. Len(t) - 1 : PlaceKept(a, p, t[p + 1], TextBuffer)
  BY <1>4, <1>8, <1>11, Zenon DEF PlaceKept
<1> QED
  BY <1>6, <1>8, <1>11, <1>12, <1>13, <1>14, TextBegins

(* clear().                                                                *)
LEMMA ClearKeeps ==
    ASSUME LcdInv, clear
    PROVE  LcdInv'
<1>1. lcdTodo = <<>> /\ lcdTodo' = Clearing /\ framed' = FALSE /\ text' = <<>> /\ UNCHANGED lcdRest
  BY DEF clear, LcdCall
<1>2. PICK t : t = <<>>
  OBVIOUS
<1>3. t \in Seq(Shapes) /\ Len(t) = 0
  BY <1>2
<1>4. cursorPosition' \in Digit
  BY DEF clear, LcdInv, LcdTypes
<1>5. /\ Len(t) <= TextBufferSize /\ Len(t) + Nulls = Nulls
      /\ \A p \in 0 .. Len(t) - 1 : FALSE
  BY <1>3, NullsIs, LcdAssumption
<1>6. /\ Clearing \in Seq(LcdSteps) /\ Len(Clearing) > 4 /\ CallLeft(Clearing, Len(t) + Nulls)
      /\ \A p \in Len(t) .. Len(t) + Nulls - 1 : PlaceKept(Clearing, p, Empty, TextBuffer)
  <2>1. Clearing \in Seq(LcdSteps) /\ Len(Clearing) > 4 /\ CallLeft(Clearing, Len(t) + Nulls)
    BY <1>5, ClearingIs, Zenon
  <2>2. ASSUME NEW p \in Len(t) .. Len(t) + Nulls - 1 PROVE PlaceKept(Clearing, p, Empty, TextBuffer)
    <3>1. p \in 0 .. Nulls - 1
      BY <1>3, NullsIs
    <3> QED
      BY <3>1, ClearingIs, Zenon DEF PlaceKept
  <2> QED
    BY <2>1, <2>2
<1>7. text' = t
  BY <1>1, <1>2
<1>8. \A p \in 0 .. Len(t) - 1 : PlaceKept(Clearing, p, t[p + 1], TextBuffer)
  BY <1>5, Zenon
<1> QED
  BY <1>1, <1>3, <1>4, <1>5, <1>6, <1>7, <1>8, CallBegins

(* appendc(): with the clearing that a new line put off, and the shift of a*)
(* full buffer.                                                            *)
LEMMA AppendKeeps ==
    ASSUME LcdInv, append
    PROVE  LcdInv'
<1>1. /\ LcdTypes /\ RingDue /\ Indices
      /\ text \in Seq(Shapes) /\ Len(text) \in Nat /\ Len(text) <= TextBufferSize
  BY LenProperties DEF LcdInv, LcdTypes
<1>2. PICK old, at, full, moved, kept, shift, clearing, g :
        /\ old = IF ClearNext THEN <<>> ELSE text
        /\ at = IF ClearNext THEN 0 ELSE StrEnd - DisplaySize - 1
        /\ (full <=> at = TextBufferSize)
        /\ moved = IF full THEN at - 1 ELSE at
        /\ kept = IF full THEN Tail(old) ELSE old
        /\ shift = IF full THEN Raw(kept) ELSE <<>>
        /\ clearing = IF ClearNext THEN Clearing ELSE <<>>
        /\ \/ LcdCall(clearing \o shift \o <<Op("newline", 0)>> \o Finish(moved)) /\ text' = kept
           \/ /\ g \in {Glyph("a"), Glyph("b")}
              /\ LcdCall(clearing \o shift \o <<CharAt(moved, g)>> \o Finish(moved + 1)) /\ text' = Append(kept, g)
  BY Zenon DEF append
<1>3. lcdTodo = <<>> /\ framed' = FALSE
  BY <1>2, Zenon DEF LcdCall
<1>4. g \in {Glyph("a"), Glyph("b")} => g \in Shapes
  BY DEF Glyph, Shapes
<1>5. UNCHANGED lcdRest /\ cursorPosition' \in Digit
  BY DEF append, LcdInv, LcdTypes
<1>6. StrEnd = Len(text) + Nulls
  <2>1. Len(lcdTodo) <= 3
    BY <1>3
  <2> QED
    BY <1>1, <2>1 DEF Indices, TextEnd

<1>7. old \in Seq(Shapes) /\ Len(old) = at /\ at \in Nat /\ at <= TextBufferSize
  <2>1. CASE ClearNext
    <3>1. old = <<>> /\ at = 0
      BY <1>2, <2>1, Zenon
    <3> QED
      BY <3>1, LcdAssumption
  <2>2. CASE ~ClearNext
    <3>1. old = text /\ at = StrEnd - DisplaySize - 1
      BY <1>2, <2>2, Zenon
    <3>2. at = Len(text)
      BY <1>1, <1>6, <3>1, NullsIs, LcdAssumption
    <3> QED
      BY <1>1, <3>1, <3>2
  <2> QED
    BY <2>1, <2>2
<1>8. /\ kept \in Seq(Shapes) /\ Len(kept) = moved /\ moved \in Nat /\ moved < TextBufferSize
  <2>1. CASE full
    <3>1. kept = Tail(old) /\ moved = at - 1 /\ at = TextBufferSize
      BY <1>2, <2>1, Zenon
    <3>2. old # <<>>
      <4>1. at # 0 /\ Len(<<>>) = 0
        BY <3>1, LcdAssumption
      <4> QED
        BY <1>7, <4>1, Zenon
    <3>3. Tail(old) \in Seq(Shapes) /\ Len(Tail(old)) = at - 1
      BY <1>7, <3>2, HeadTailProperties
    <3> QED
      BY <1>7, <3>1, <3>3, LcdAssumption
  <2>2. CASE ~full
    <3>1. kept = old /\ moved = at /\ at # TextBufferSize
      BY <1>2, <2>2, Zenon
    <3> QED
      BY <1>7, <3>1, LcdAssumption
  <2> QED
    BY <2>1, <2>2
<1>9. /\ <<>> \in Seq(LcdSteps) /\ (\A i \in 1 .. Len(<<>>) : BodyOp(<<>>[i])) /\ \A p : ~Rewrites(<<>>, p)
  <2>1. <<>> \in Seq(LcdSteps) /\ \A i \in 1 .. Len(<<>>) : FALSE
    OBVIOUS
  <2> QED
    BY <2>1, Zenon DEF Rewrites
<1>10. /\ shift \in Seq(LcdSteps) /\ (\A i \in 1 .. Len(shift) : BodyOp(shift[i]))
       /\ full => \A p \in 0 .. moved - 1 : Leaves(shift, p, kept[p + 1])
  <2>1. CASE full
    <3>1. shift = Raw(kept)
      BY <1>2, <2>1, Zenon
    <3>2. /\ Raw(kept) \in Seq(LcdSteps) /\ (\A i \in 1 .. Len(Raw(kept)) : BodyOp(Raw(kept)[i]))
          /\ \A p \in 0 .. Len(kept) - 1 : Leaves(Raw(kept), p, kept[p + 1])
      BY <1>8, RawIs
    <3> QED
      BY <1>8, <3>1, <3>2, Zenon
  <2>2. CASE ~full
    <3>1. shift = <<>>
      BY <1>2, <2>2, Zenon
    <3> QED
      BY <1>9, <2>2, <3>1, Zenon
  <2> QED
    BY <2>1, <2>2
<1>11. clearing \in Seq(LcdSteps) /\ \A i \in 1 .. Len(clearing) : BodyOp(clearing[i])
  BY <1>2, <1>9, ClearingIs, Zenon
<1>12. PICK b \in Seq(LcdSteps) : b = clearing \o shift /\ \A i \in 1 .. Len(b) : BodyOp(b[i])
  BY <1>10, <1>11, JoinIs, BodyJoin
<1>13. ASSUME NEW p \in 0 .. moved - 1 PROVE PlaceKept(b, p, kept[p + 1], TextBuffer)
  <2>1. CASE full
    <3>1. Leaves(shift, p, kept[p + 1])
      BY <1>10, <2>1
    <3> QED
      BY <1>10, <1>11, <1>12, <3>1, LeavesJoin DEF PlaceKept
  <2>2. CASE ~full
    <3>1. ~ClearNext
      <4>1. moved # 0
        BY <1>8
      <4> QED
        BY <1>2, <2>2, <4>1, Zenon
    <3>2. clearing = <<>> /\ shift = <<>> /\ kept = text
      BY <1>2, <2>2, <3>1, Zenon
    <3>3. ~Rewrites(clearing, p) /\ ~Rewrites(shift, p)
      BY <1>9, <3>2, Zenon
    <3>4. ~Rewrites(b, p)
      BY <1>10, <1>11, <1>12, <3>3, RewritesJoin
    <3>5. TextBuffer[p] = Due(p)
      <4>1. p \in 0 .. TextEnd - 1
        BY <1>1, <1>8, <3>2, NullsIs DEF TextEnd
      <4>2. ~Rewrites(lcdTodo, p) /\ ~Leaves(lcdTodo, p, Due(p))
        BY <1>3, <1>9, Zenon DEF Leaves, Rewrites
      <4> QED
        BY <1>1, <4>1, <4>2, Zenon DEF RingDue, PlaceKept
    <3>6. Due(p) = kept[p + 1]
      BY <1>8, <3>2 DEF Due
    <3> QED
      BY <3>4, <3>5, <3>6, Zenon DEF PlaceKept
  <2> QED
    BY <2>1, <2>2
<1>14. ASSUME NEW x \in LcdSteps, BodyOp(x), \A p \in 0 .. moved - 1 : ~CharTo(x, p)
       PROVE  /\ b \o <<x>> \in Seq(LcdSteps) /\ (\A i \in 1 .. Len(b \o <<x>>) : BodyOp((b \o <<x>>)[i]))
              /\ \A p \in 0 .. moved - 1 : PlaceKept(b \o <<x>>, p, kept[p + 1], TextBuffer)
              /\ CharTo(x, moved) => Leaves(b \o <<x>>, moved, x.c)
  <2>1. PICK y : y = <<x>>
    OBVIOUS
  <2>2. /\ y \in Seq(LcdSteps) /\ (\A i \in 1 .. Len(y) : BodyOp(y[i]))
        /\ (\A p : Rewrites(y, p) <=> CharTo(x, p)) /\ \A p : CharTo(x, p) => Leaves(y, p, x.c)
    BY <1>14, <2>1, OneIs
  <2>3. b \o y \in Seq(LcdSteps) /\ \A i \in 1 .. Len(b \o y) : BodyOp((b \o y)[i])
    BY <1>12, <2>2, JoinIs, BodyJoin
  <2>4. ASSUME NEW p \in 0 .. moved - 1 PROVE PlaceKept(b \o y, p, kept[p + 1], TextBuffer)
    <3>1. ~Rewrites(y, p) /\ PlaceKept(b, p, kept[p + 1], TextBuffer)
      BY <1>13, <1>14, <2>2
    <3>2. CASE Leaves(b, p, kept[p + 1])
      BY <2>2, <3>1, <3>2, LeavesJoin DEF PlaceKept
    <3>3. CASE ~Rewrites(b, p) /\ TextBuffer[p] = kept[p + 1]
      BY <2>2, <3>1, <3>3, RewritesJoin DEF PlaceKept
    <3> QED
      BY <3>1, <3>2, <3>3 DEF PlaceKept
  <2>5. CharTo(x, moved) => Leaves(b \o y, moved, x.c)
    BY <2>2, LeavesJoin
  <2> QED
    BY <2>1, <2>3, <2>4, <2>5, Zenon
<1>15. CASE LcdCall(clearing \o shift \o <<Op("newline", 0)>> \o Finish(moved)) /\ text' = kept
  <2>1. PICK x : x = Op("newline", 0)
    OBVIOUS
  <2>2. x \in LcdSteps /\ BodyOp(x) /\ \A p \in 0 .. moved - 1 : ~CharTo(x, p)
    BY <2>1 DEF Op, LcdSteps, LcdOps, Shapes, BodyOp, CharTo
  <2>3. PICK a : a = b \o <<x>>
    OBVIOUS
  <2>4. /\ a \in Seq(LcdSteps) /\ (\A i \in 1 .. Len(a) : BodyOp(a[i]))
        /\ \A p \in 0 .. moved - 1 : PlaceKept(a, p, kept[p + 1], TextBuffer)
    BY <1>14, <2>2, <2>3, Zenon
  <2>5. lcdTodo' = a \o Finish(moved) /\ text' = kept
    BY <1>12, <1>15, <2>1, <2>3, Zenon DEF LcdCall
  <2>6. Len(kept) <= TextBufferSize
    BY <1>8, LcdAssumption
  <2> QED
    BY <1>3, <1>5, <1>8, <2>4, <2>5, <2>6, TextBegins
<1>16. CASE /\ g \in {Glyph("a"), Glyph("b")}
            /\ LcdCall(clearing \o shift \o <<CharAt(moved, g)>> \o Finish(moved + 1)) /\ text' = Append(kept, g)
  <2>1. PICK x : x = CharAt(moved, g)
    OBVIOUS
  <2>2. /\ x \in LcdSteps /\ BodyOp(x) /\ CharTo(x, moved) /\ x.c = g
        /\ \A p \in 0 .. moved - 1 : ~CharTo(x, p)
    BY <1>4, <1>8, <1>16, <2>1 DEF CharAt, LcdSteps, LcdOps, BodyOp, CharTo
  <2>3. PICK a, t : a = b \o <<x>> /\ t = Append(kept, g)
    OBVIOUS
  <2>4. /\ a \in Seq(LcdSteps) /\ (\A i \in 1 .. Len(a) : BodyOp(a[i])) /\ Leaves(a, moved, g)
        /\ \A p \in 0 .. moved - 1 : PlaceKept(a, p, kept[p + 1], TextBuffer)
    BY <1>14, <2>2, <2>3, Zenon
  <2>5. /\ t \in Seq(Shapes) /\ Len(t) = moved + 1 /\ t[moved + 1] = g
        /\ \A i \in 1 .. moved : t[i] = kept[i]
    BY <1>4, <1>8, <1>16, <2>3, AppendProperties
  <2>6. ASSUME NEW p \in 0 .. moved PROVE PlaceKept(a, p, t[p + 1], TextBuffer)
    <3>1. CASE p = moved
      BY <2>4, <2>5, <3>1, Zenon DEF PlaceKept
    <3>2. CASE p # moved
      <4>1. p \in 0 .. moved - 1 /\ p + 1 \in 1 .. moved
        BY <1>8, <3>2
      <4>2. t[p + 1] = kept[p + 1]
        BY <2>5, <4>1, Zenon
      <4> QED
        BY <2>4, <4>1, <4>2, Zenon
    <3> QED
      BY <3>1, <3>2
  <2>7. lcdTodo' = a \o Finish(Len(t)) /\ text' = t
    BY <1>12, <1>16, <2>1, <2>3, <2>5, Zenon DEF LcdCall
  <2>8. Len(t) <= TextBufferSize /\ Len(t) - 1 = moved
    BY <1>8, <2>5, LcdAssumption
  <2>9. \A p \in 0 .. Len(t) - 1 : PlaceKept(a, p, t[p + 1], TextBuffer)
    BY <2>6, <2>8, Zenon
  <2> QED
    BY <1>3, <1>5, <2>4, <2>5, <2>7, <2>8, <2>9, TextBegins
<1> QED
  BY <1>2, <1>15, <1>16

(* showColons(): nothing but the flag.                                     *)
LEMMA ColonsKeep ==
    ASSUME LcdInv, showColons
    PROVE  LcdInv'
<1>1. PICK s : s = <<Op("update", 0), Op("wait", 0)>>
  OBVIOUS
<1>2. /\ lcdTodo = <<>> /\ lcdTodo' = s /\ framed' = FALSE /\ text' = text /\ cursorPosition' = cursorPosition
      /\ UNCHANGED lcdRest
  BY <1>1 DEF showColons, LcdCall
<1>3. UNCHANGED <<TextBuffer, StrStart, StrEnd>> /\ UpdateDisplay' = UpdateDisplay
  BY <1>2 DEF lcdRest
<1>4. /\ LcdTypes /\ RingDue /\ Indices
  BY DEF LcdInv
<1>5. /\ s \in Seq(LcdSteps) /\ Len(s) = 2 /\ s[1] = Op("update", 0) /\ s[2] = Op("wait", 0)
  <2>1. Op("update", 0) \in LcdSteps /\ Op("wait", 0) \in LcdSteps
    BY DEF Op, LcdSteps, LcdOps, Shapes
  <2> QED
    BY <1>1, <2>1
<1>6. ASSUME NEW i \in 1 .. 2, NEW n PROVE EndOp(s[i], 2 - i, n) /\ s[i].op # "char"
  <2>1. i = 1 \/ i = 2
    OBVIOUS
  <2>2. CASE i = 1
    BY <1>5, <2>2 DEF Op, EndOp, BodyOp
  <2>3. CASE i = 2
    BY <1>5, <2>3 DEF Op, EndOp, BodyOp
  <2> QED
    BY <2>1, <2>2, <2>3
<1>7. CallLeft(s, TextEnd') /\ \A p : ~Rewrites(s, p)
  BY <1>5, <1>6 DEF CallLeft, Rewrites, CharTo
<1>8. TextEnd' = TextEnd /\ \A p : Due(p)' = Due(p)
  BY <1>2 DEF TextEnd, Due
<1>9. RingDue'
  <2>1. SUFFICES ASSUME NEW p \in 0 .. TextEnd - 1 PROVE PlaceKept(s, p, Due(p), TextBuffer)
    BY <1>2, <1>3, <1>8, Zenon DEF RingDue
  <2>2. ~Rewrites(lcdTodo, p) /\ ~Leaves(lcdTodo, p, Due(p))
    <3>1. \A i \in 1 .. Len(<<>>) : FALSE
      OBVIOUS
    <3> QED
      BY <1>2, <3>1, Zenon DEF Leaves, Rewrites
  <2> QED
    BY <1>4, <1>7, <2>2, Zenon DEF RingDue, PlaceKept
<1>10. Indices'
  <2>1. ~(Len(s) = 4) /\ Len(lcdTodo) <= 3
    BY <1>2, <1>5
  <2>2. StrEnd = TextEnd /\ StrStart <= StrEnd
    BY <1>4, <2>1, Zenon DEF Indices
  <2> QED
    BY <1>2, <1>3, <1>8, <2>1, <2>2, Zenon DEF Indices
<1>11. LcdTypes'
  <2>1. /\ text \in Seq(Shapes) /\ Len(text) <= TextBufferSize /\ DOMAIN TextBuffer = DisplayPlaces
        /\ StrStart \in Nat /\ StrEnd \in Nat /\ StrEnd >= Nulls /\ UpdateDisplay \in BOOLEAN /\ cursorPosition \in Digit
    BY <1>4 DEF LcdTypes
  <2>2. framed' \in BOOLEAN /\ UpdateDisplay' \in BOOLEAN
    BY <1>2, <1>3, <2>1, Zenon
  <2> QED
    BY <1>2, <1>3, <1>5, <2>1, <2>2, Zenon DEF LcdTypes
<1>12. (Len(lcdTodo) <= 1 /\ ~UpdateDisplay => DisplayShows)'
  <2>1. ~(Len(s) <= 1)
    BY <1>5
  <2> QED
    BY <1>2, <2>1, Zenon
<1>13. CallLeft(lcdTodo, TextEnd)'
  BY <1>2, <1>7, Zenon DEF CallLeft
<1> QED
  BY <1>9, <1>10, <1>11, <1>12, <1>13 DEF LcdInv

(* What leaves the text and the call alone.                                *)
LEMMA RestOfLcdKeeps ==
    ASSUME LcdInv, setCursor \/ UNCHANGED lcdVars
    PROVE  LcdInv'
<1>1. /\ UNCHANGED <<TextBuffer, StrStart, StrEnd, display, shownAt, text, lcdTodo>>
      /\ UpdateDisplay' = UpdateDisplay /\ framed' = framed
  BY DEF setCursor, lcdRest, lcdVars, flags
<1>2. LcdInv /\ LcdTypes /\ cursorPosition' \in Digit
  BY DEF LcdInv, LcdTypes, setCursor, lcdVars, flags
<1>3. LcdTypes'
  <2>1. framed \in BOOLEAN /\ UpdateDisplay \in BOOLEAN
    BY <1>2 DEF LcdTypes
  <2>2. framed' \in BOOLEAN /\ UpdateDisplay' \in BOOLEAN
    BY <1>1, <2>1, Zenon
  <2> QED
    BY <1>1, <1>2, <2>2, Zenon DEF LcdTypes
<1>4. TextEnd' = TextEnd /\ \A p : Due(p)' = Due(p)
  BY <1>1 DEF TextEnd, Due
<1>5. RingDue' /\ CallLeft(lcdTodo, TextEnd)'
  BY <1>1, <1>2, <1>4, Zenon DEF LcdInv, RingDue, CallLeft
<1>6. Indices'
  BY <1>1, <1>2, <1>4, Zenon DEF LcdInv, Indices
<1>7. (Len(lcdTodo) <= 1 /\ ~UpdateDisplay => DisplayShows)'
  <2>1. DisplayShows => DisplayShows'
    BY <1>1, <1>4, Zenon DEF DisplayShows
  <2> QED
    BY <1>1, <1>2, <2>1, Zenon DEF LcdInv
<1> QED
  BY <1>3, <1>5, <1>6, <1>7 DEF LcdInv

LEMMA LcdStart == LcdInit => LcdInv
<1> SUFFICES ASSUME LcdInit PROVE LcdInv
  OBVIOUS
<1>1. /\ TextBuffer = [i \in DisplayPlaces |-> Empty] /\ StrStart = 1 /\ StrEnd = Nulls
      /\ cursorPosition = 0 /\ display = [d \in Digit |-> Empty] /\ lcdTodo = <<>>
      /\ text = <<>> /\ shownAt = 0
  BY DEF LcdInit
<1>2. framed \in BOOLEAN /\ UpdateDisplay \in BOOLEAN
  BY Zenon DEF LcdInit
<1>3. Len(text) = 0 /\ text \in Seq(Shapes) /\ lcdTodo \in Seq(LcdSteps) /\ Len(lcdTodo) = 0
  BY <1>1
<1>4. 0 \in Digit
  BY LcdAssumption DEF Digit
<1>5. LcdTypes
  BY <1>1, <1>2, <1>3, <1>4, NullsIs, LcdAssumption DEF LcdTypes
<1>6. TextEnd = Nulls /\ \A p \in Nat : Due(p) = Empty
  BY <1>3, NullsIs DEF TextEnd, Due
<1>7. CallLeft(lcdTodo, TextEnd) /\ \A p : ~Rewrites(lcdTodo, p)
  BY <1>3 DEF CallLeft, Rewrites
<1>8. RingDue
  <2>1. SUFFICES ASSUME NEW p \in 0 .. Nulls - 1 PROVE TextBuffer[p] = Due(p)
    BY <1>6, <1>7, Zenon DEF RingDue, PlaceKept
  <2>2. p \in DisplayPlaces /\ p \in Nat
    BY NullsIs, LcdAssumption DEF DisplayPlaces
  <2> QED
    BY <1>1, <1>6, <2>2
<1>9. Indices
  BY <1>1, <1>3, <1>6, NullsIs DEF Indices
<1>10. DisplayShows
  <2>1. StrStart \in 1 .. TextEnd
    BY <1>1, <1>6, NullsIs
  <2>2. ASSUME NEW d \in Digit PROVE display[d] = Due((StrStart - 1 + d - shownAt) % TextEnd)
    <3>1. PICK x \in Nat : x = (StrStart - 1 + d - shownAt) % TextEnd
      BY <1>1, <1>6, NullsIs, LcdAssumption DEF Digit
    <3> QED
      BY <1>1, <1>6, <3>1
  <2> QED
    BY <1>1, <1>4, <2>1, <2>2 DEF DisplayShows
<1> QED
  BY <1>5, <1>7, <1>8, <1>9, <1>10, Zenon DEF LcdInv

(* Once a call is over and its text shown, the display shows that text from*)
(* some place on, and nothing of the text before it: whatever the size of  *)
(* the display and of the buffer, and wherever the interrupts come.        *)
THEOREM TextShows == LcdSpec => []LcdShows
<1>1. LcdInv /\ [LcdNext]_lcdVars => LcdInv'
  BY FrameKeeps, PrintKeeps, ClearKeeps, AppendKeeps, ColonsKeep, TextStepKeeps, RestOfLcdKeeps DEF LcdNext
<1>2. LcdInv => LcdShows
  <2>1. SUFFICES ASSUME LcdInv, lcdTodo = <<>>, ~UpdateDisplay,
                        NEW long, long = Len(text) + Nulls,
                        NEW ring, ring = [i \in 0 .. long - 1 |-> IF i < Len(text) THEN text[i + 1] ELSE Empty]
                 PROVE  /\ StrEnd = long
                        /\ \A d \in Digit : d >= shownAt => display[d] = ring[(StrStart - 1 + d - shownAt) % long]
    BY Zenon DEF LcdShows
  <2>2. LcdTypes /\ Indices /\ DisplayShows
    <3>1. Len(lcdTodo) <= 1
      BY <2>1
    <3> QED
      BY <2>1, <3>1, Zenon DEF LcdInv
  <2>3. long = TextEnd /\ long \in Nat /\ long > 0
    BY <2>1, <2>2, LongIs, NullsIs
  <2>4. StrEnd = long
    <3>1. Len(lcdTodo) <= 3
      BY <2>1
    <3> QED
      BY <2>2, <2>3, <3>1 DEF Indices
  <2>5. ASSUME NEW d \in Digit, d >= shownAt PROVE display[d] = ring[(StrStart - 1 + d - shownAt) % long]
    <3>1. StrStart \in 1 .. long /\ shownAt \in Digit
      BY <2>2, <2>3 DEF DisplayShows
    <3>2. PICK x \in 0 .. long - 1 : x = (StrStart - 1 + d - shownAt) % long
      <4>1. PICK y \in Nat : y = StrStart - 1 + d - shownAt
        BY <2>5, <3>1, LcdAssumption DEF Digit
      <4>2. y % long \in 0 .. long - 1
        BY <2>3
      <4> QED
        BY <4>1, <4>2
    <3>3. display[d] = Due(x)
      BY <2>2, <2>3, <2>5, <3>2 DEF DisplayShows
    <3>4. ring[x] = Due(x)
      BY <2>1, Zenon DEF Due
    <3> QED
      BY <3>2, <3>3, <3>4
  <2> QED
    BY <2>4, <2>5
<1> QED
  BY <1>1, <1>2, LcdStart, PTL DEF LcdSpec
------------------------------------------------------------------------------
(***************************************************************************)
(* EEPROM.                                                                 *)
(***************************************************************************)
\* the size of the object that is being moved
Size == Len(transfer.bytes)

Access ==
    /\ transfer = [kind |-> transfer.kind, index |-> transfer.index, bytes |-> transfer.bytes, count |-> transfer.count]
    /\ transfer.kind \in {"put", "write", "get"} /\ transfer.index \in Addresses
    /\ Size \in Nat \ {0} /\ transfer.count \in 0 .. Size /\ transfer.index + Size <= Length
    /\ transfer.bytes = [i \in 1 .. Size |-> transfer.bytes[i]]
    /\ transfer.kind = "put" => \A i \in 1 .. Size : transfer.bytes[i] \in CellValues

\* what get() has read so far is what is due
ReadSoFar ==
    transfer.kind = "get" =>
        \A i \in 1 .. Size : i <= Size - transfer.count => due[transfer.index + i - 1] \in {transfer.bytes[i], Lost}

EepromInv ==
    /\ cells = [c \in Addresses |-> cells[c]] /\ due = [c \in Addresses |-> due[c]]
    /\ CellsKept
    /\ transfer = NoAccess \/ (Access /\ ReadSoFar)

LEMMA BytesAre ==
    ASSUME NEW n \in Nat, NEW s, s = [i \in 1 .. n |-> s[i]]
    PROVE  Len(s) = n
<1>1. s \in [1 .. n -> {s[i] : i \in 1 .. n}]
  OBVIOUS
<1>2. s \in Seq({s[i] : i \in 1 .. n})
  BY <1>1
<1> QED
  BY <1>1, <1>2, LenProperties

LEMMA EepromStarts == EepromInit => EepromInv
<1>1. SUFFICES ASSUME EepromInit PROVE EepromInv
  OBVIOUS
<1>2. cells = [c \in Addresses |-> cells[c]] /\ due = cells
  BY <1>1 DEF EepromInit
<1> QED
  BY <1>1, <1>2 DEF EepromInit, EepromInv, CellsKept

\* A call begins: of bytes that put() writes or that get() will have read.
LEMMA AccessBegins ==
    ASSUME EepromInv, UNCHANGED <<cells, due>>,
           NEW k \in {"put", "write", "get"}, NEW a \in Addresses, NEW n \in Nat \ {0}, NEW b,
           b = [i \in 1 .. n |-> b[i]], a + n <= Length,
           k = "put" => \A i \in 1 .. n : b[i] \in CellValues,
           transfer' = [kind |-> k, index |-> a, bytes |-> b, count |-> n]
    PROVE  EepromInv'
<1>1. Len(b) = n
  BY BytesAre
<1>2. /\ transfer'.kind = k /\ transfer'.index = a /\ transfer'.bytes = b /\ transfer'.count = n
      /\ transfer' = [kind |-> transfer'.kind, index |-> transfer'.index, bytes |-> transfer'.bytes, count |-> transfer'.count]
  OBVIOUS
<1>3. Access'
  BY <1>1, <1>2 DEF Access, Size, Addresses, CellValues
<1>4. ReadSoFar'
  BY <1>1, <1>2 DEF ReadSoFar, Size
<1> QED
  BY <1>3, <1>4 DEF EepromInv, CellsKept, Addresses

LEMMA EepromCallsKeep == EepromInv /\ (put \/ write \/ get) => EepromInv'
<1>1. ASSUME EepromInv, put PROVE EepromInv'
  <2>1. PICK a \in Addresses, n \in 1 .. MaxObject : Fits(a, n) /\
            \E b \in [1 .. n -> CellValues] : transfer' = [kind |-> "put", index |-> a, bytes |-> b, count |-> n]
    BY <1>1 DEF put
  <2>2. PICK b \in [1 .. n -> CellValues] : transfer' = [kind |-> "put", index |-> a, bytes |-> b, count |-> n]
    BY <2>1
  <2>3. b = [i \in 1 .. n |-> b[i]] /\ \A i \in 1 .. n : b[i] \in CellValues
    BY <2>2
  <2> QED
    BY <1>1, <2>1, <2>2, <2>3, AccessBegins DEF put, Fits
<1>2. ASSUME EepromInv, write PROVE EepromInv'
  <2>1. PICK a \in Addresses : \E v : transfer' = [kind |-> "write", index |-> a, bytes |-> <<v>>, count |-> 1]
    BY <1>2 DEF write
  <2>2. PICK v : transfer' = [kind |-> "write", index |-> a, bytes |-> <<v>>, count |-> 1]
    BY <2>1
  <2>3. PICK n \in Nat \ {0} : n = 1
    OBVIOUS
  <2>4. PICK b : b = <<v>>
    OBVIOUS
  <2>5. b = [i \in 1 .. n |-> b[i]]
    BY <2>3, <2>4
  <2>6. a + n <= Length
    BY <2>3, EepromAssumption DEF Addresses
  <2>7. transfer' = [kind |-> "write", index |-> a, bytes |-> b, count |-> n] /\ UNCHANGED <<cells, due>>
    BY <1>2, <2>2, <2>3, <2>4 DEF write
  <2> QED
    BY <1>2, <2>5, <2>6, <2>7, AccessBegins
<1>3. ASSUME EepromInv, get PROVE EepromInv'
  <2>1. PICK a \in Addresses, n \in 1 .. MaxObject : Fits(a, n) /\
            transfer' = [kind |-> "get", index |-> a, bytes |-> [i \in 1 .. n |-> 0], count |-> n]
    BY <1>3 DEF get
  <2> QED
    BY <1>3, <2>1, AccessBegins DEF get, Fits
<1> QED
  BY <1>1, <1>2, <1>3

\* The cell of a pass is one of the EEPROM, and no other.
LEMMA CellOfAPass ==
    ASSUME Access, transfer.count > 0
    PROVE  /\ Size - transfer.count + 1 \in 1 .. Size
           /\ ThisCell \in Addresses /\ ThisCell = transfer.index + Size - transfer.count
           /\ transfer.kind = "put" => Byte \in CellValues
BY EepromAssumption DEF Access, Size, ThisCell, At, Addresses, Byte

\* A pass leaves what has begun as it was, but for the bytes that get() reads.
LEMMA PassLeaves ==
    ASSUME Access, transfer.count > 0, NEW b, Len(b) = Size, b = [i \in 1 .. Size |-> b[i]],
           transfer.kind = "put" => b = transfer.bytes,
           transfer' = [transfer EXCEPT !.bytes = b, !.count = @ - 1]
    PROVE  /\ Access' /\ Size' = Size /\ transfer'.kind = transfer.kind /\ transfer'.index = transfer.index
           /\ transfer'.bytes = b /\ transfer'.count = transfer.count - 1
<1>1. /\ transfer'.kind = transfer.kind /\ transfer'.index = transfer.index
      /\ transfer'.bytes = b /\ transfer'.count = transfer.count - 1
      /\ transfer' = [kind |-> transfer'.kind, index |-> transfer'.index, bytes |-> transfer'.bytes, count |-> transfer'.count]
  BY DEF Access
<1>2. Size' = Size
  BY <1>1 DEF Size
<1>3. Access'
  BY <1>1, <1>2 DEF Access, Addresses, CellValues, Size
<1> QED
  BY <1>1, <1>2, <1>3

LEMMA PutPassKeeps == EepromInv /\ PutPass => EepromInv'
<1>1. SUFFICES ASSUME EepromInv, PutPass PROVE EepromInv'
  OBVIOUS
<1>2. Access /\ transfer.kind \in {"put", "write"} /\ transfer.count > 0
  BY <1>1 DEF EepromInv, PutPass, NoAccess
<1>3. PICK c \in Addresses : c = ThisCell /\ c = transfer.index + Size - transfer.count
  BY <1>2, CellOfAPass
<1>4. PICK v : v = Byte
  OBVIOUS
<1>5. due' = [due EXCEPT ![c] = v]
  BY <1>1, <1>3, <1>4 DEF PutPass, Size
<1>6. cells' = [cells EXCEPT ![c] = v]
  <2>1. CASE Writing
    BY <1>1, <1>3, <1>4, <2>1 DEF PutPass
  <2>2. CASE ~Writing
    <3>1. cells' = cells /\ cells[c] = v
      BY <1>1, <1>2, <1>3, <1>4, <2>2 DEF PutPass, Writing, Differs
    <3> QED
      BY <1>1, <3>1 DEF EepromInv
  <2> QED
    BY <2>1, <2>2
<1>7. Access' /\ transfer'.kind = transfer.kind
  <2>1. transfer' = [transfer EXCEPT !.bytes = transfer.bytes, !.count = @ - 1]
    BY <1>1, <1>2 DEF PutPass, Access
  <2> QED
    BY <1>2, <2>1, PassLeaves DEF Access, Size
<1>8. ReadSoFar'
  BY <1>2, <1>7 DEF ReadSoFar
<1>9. CellsKept'
  BY <1>1, <1>5, <1>6 DEF CellsKept, EepromInv, Addresses
<1>10. (cells = [d \in Addresses |-> cells[d]] /\ due = [d \in Addresses |-> due[d]])'
  BY <1>1, <1>5, <1>6 DEF EepromInv, Addresses
<1> QED
  BY <1>7, <1>8, <1>9, <1>10 DEF EepromInv

LEMMA GetPassKeeps == EepromInv /\ GetPass => EepromInv'
<1>1. SUFFICES ASSUME EepromInv, GetPass PROVE EepromInv'
  OBVIOUS
<1>2. Access /\ ReadSoFar /\ transfer.kind = "get" /\ transfer.count > 0
  BY <1>1 DEF EepromInv, GetPass, NoAccess
<1>3. PICK c \in Addresses : c = ThisCell /\ c = transfer.index + Size - transfer.count
  BY <1>2, CellOfAPass
<1>4. PICK k \in 1 .. Size : k = Size - transfer.count + 1
  BY <1>2, CellOfAPass
<1>5. PICK b : b = [transfer.bytes EXCEPT ![k] = cells[c]]
  OBVIOUS
<1>6. b = [i \in 1 .. Size |-> b[i]] /\ Len(b) = Size
  <2>1. b = [i \in 1 .. Size |-> b[i]]
    BY <1>2, <1>5 DEF Access
  <2> QED
    BY <1>2, <2>1, BytesAre DEF Access
<1>7. transfer' = [transfer EXCEPT !.bytes = b, !.count = @ - 1]
  BY <1>1, <1>2, <1>3, <1>4, <1>5 DEF GetPass, Access, Size
<1>8. /\ Access' /\ Size' = Size /\ transfer'.kind = transfer.kind /\ transfer'.index = transfer.index
      /\ transfer'.bytes = b /\ transfer'.count = transfer.count - 1
  BY <1>2, <1>6, <1>7, PassLeaves
<1>9. due' = due /\ cells' = cells
  BY <1>1 DEF GetPass
<1>10. ReadSoFar'
  <2>1. SUFFICES ASSUME NEW i \in 1 .. Size, i <= Size - (transfer.count - 1)
                 PROVE  due[transfer.index + i - 1] \in {b[i], Lost}
    BY <1>8, <1>9 DEF ReadSoFar
  <2>2. CASE i = k
    <3>1. transfer.index + i - 1 = c /\ b[i] = cells[c]
      BY <1>2, <1>3, <1>4, <1>5, <2>2 DEF Access, Addresses
    <3> QED
      BY <1>1, <3>1 DEF EepromInv, CellsKept
  <2>3. CASE i # k
    <3>1. i <= Size - transfer.count /\ b[i] = transfer.bytes[i]
      BY <1>2, <1>4, <1>5, <2>1, <2>3 DEF Access
    <3> QED
      BY <1>2, <3>1 DEF ReadSoFar
  <2> QED
    BY <2>2, <2>3
<1>11. CellsKept'
  BY <1>1, <1>9 DEF EepromInv, CellsKept, Addresses
<1> QED
  BY <1>1, <1>8, <1>9, <1>10, <1>11 DEF EepromInv, Addresses

LEMMA EepromStopsKeep == EepromInv /\ (CallEnds \/ PowerFails) => EepromInv'
<1>1. ASSUME EepromInv, CallEnds PROVE EepromInv'
  BY <1>1 DEF EepromInv, CallEnds, CellsKept, Addresses
<1>2. ASSUME EepromInv, PowerFails PROVE EepromInv'
  <2>1. transfer' = NoAccess /\ Access
    BY <1>2 DEF PowerFails, EepromInv
  <2>2. CASE transfer.count > 0 /\ transfer.kind # "get" /\ Writing
    <3>1. PICK c \in Addresses : c = ThisCell
      BY <2>1, <2>2, CellOfAPass
    <3>2. PICK v \in CellValues : cells' = [cells EXCEPT ![c] = v]
      BY <1>2, <2>2, <3>1 DEF PowerFails
    <3>3. due' = [due EXCEPT ![c] = Lost]
      <4>1. CASE transfer.kind = "put" /\ Byte = due[c]
        <5>1. due[c] = Lost
          BY <1>2, <2>2, <3>1, <4>1 DEF EepromInv, CellsKept, Writing, Differs
        <5>2. Byte # Lost
          BY <2>1, <2>2, <4>1, CellOfAPass DEF CellValues, Lost
        <5> QED
          BY <4>1, <5>1, <5>2
      <4>2. CASE ~(transfer.kind = "put" /\ Byte = due[c])
        BY <1>2, <2>2, <3>1, <4>2 DEF PowerFails
      <4> QED
        BY <4>1, <4>2
    <3>4. CellsKept'
      BY <1>2, <3>2, <3>3 DEF EepromInv, CellsKept, Addresses
    <3>5. (cells = [d \in Addresses |-> cells[d]] /\ due = [d \in Addresses |-> due[d]])'
      BY <1>2, <3>2, <3>3 DEF EepromInv, Addresses
    <3> QED
      BY <2>1, <3>4, <3>5 DEF EepromInv, NoAccess
  <2>3. CASE ~(transfer.count > 0 /\ transfer.kind # "get" /\ Writing)
    BY <1>2, <2>1, <2>3 DEF PowerFails, EepromInv, CellsKept, Addresses, NoAccess
  <2> QED
    BY <2>2, <2>3
<1> QED
  BY <1>1, <1>2

\* Every step of a call, its end and the power's failing keep EepromInv.
LEMMA EepromGoesOn == EepromInv /\ [EepromNext]_eepromVars => EepromInv'
<1>1. ASSUME EepromInv, UNCHANGED eepromVars PROVE EepromInv'
  BY <1>1 DEF EepromInv, eepromVars, Access, ReadSoFar, CellsKept, Addresses, Size, NoAccess
<1> QED
  BY <1>1, EepromCallsKeep, PutPassKeeps, GetPassKeeps, EepromStopsKeep DEF EepromNext

\* What was got is what was put, once nothing is left of the transfer.
LEMMA EepromIsSound == EepromInv => CellsKept /\ ObjectComesBack
<1>1. SUFFICES ASSUME EepromInv PROVE ObjectComesBack
  BY DEF EepromInv
<1>2. CASE transfer = NoAccess
  BY <1>2 DEF ObjectComesBack, NoAccess
<1>3. CASE Access /\ ReadSoFar
  <2>1. SUFFICES ASSUME transfer.kind = "get", transfer.count = 0
                 PROVE  \A i \in DOMAIN transfer.bytes : due[transfer.index + i - 1] \in {transfer.bytes[i], Lost}
    BY DEF ObjectComesBack
  <2>2. DOMAIN transfer.bytes = 1 .. Size
    BY <1>3 DEF Access
  <2> QED
    BY <1>3, <2>1, <2>2 DEF ReadSoFar, Access
<1> QED
  BY <1>1, <1>2, <1>3 DEF EepromInv

(* A cell holds the last value that was written to it, and get() gives an  *)
(* object as it was put(), wherever the power failed of another write, for *)
(* an EEPROM, cells and objects of any size and any sequence of calls      *)
(* (EEPROM.h:59,130-142).                                                  *)
THEOREM ObjectsComeBack == EepromSpec => [](CellsKept /\ ObjectComesBack)
  BY EepromStarts, EepromGoesOn, EepromIsSound, PTL DEF EepromSpec

------------------------------------------------------------------------------
(***************************************************************************)
(* Pulses and delays.                                                      *)
(***************************************************************************)
\* pulseInLong() can see its timeout pass before the clock comes round.
ClockOutlastsTimeouts == \A t \in Timeouts : t + 3 < 2 ^ ClockBits

\* What the polls were in each of the three loops
AllOn(polls) == \A i \in 1 .. Len(polls) : polls[i] = 1
HasFallen(polls) ==
    /\ Len(polls) > 0 /\ polls[Len(polls)] = 0
    /\ \A i, j \in 1 .. Len(polls) : i < j /\ polls[i] = 0 => polls[j] = 0
InPulse(polls, s) ==
    /\ s \in 2 .. Len(polls) /\ polls[s - 1] = 0
    /\ \A i, j \in 1 .. s - 1 : i < j /\ polls[i] = 0 => polls[j] = 0
    /\ \A i \in s .. Len(polls) : polls[i] = 1

PulseTypes ==
    /\ line \in Seq({0, 1})
    /\ meter \in [call : {"none", "pulseIn", "pulseInLong", "delay"}, at : {"old", "wait", "pulse", "ended"},
                  asked : Nat, left : Nat, width : Int, began : 0 .. 2 ^ ClockBits - 1, start : Int]
    /\ meter.call = "none" => meter = NoCall
    /\ meter.call = "delay" => meter.at = "ended"
    /\ meter.call \in {"pulseIn", "pulseInLong"} => meter.asked \in Timeouts

\* pulseIn(): its count for the timeout is what is left of it
Counted ==
    meter.call = "pulseIn" =>
        /\ meter.at \in {"old", "wait"} => meter.width = 0
        /\ meter.at = "old" => AllOn(line)
        /\ meter.at = "wait" => HasFallen(line)
        /\ meter.at = "pulse" => \E s \in 2 .. Len(line) : InPulse(line, s) /\ meter.width = Len(line) - s
        /\ meter.asked > 0 /\ meter.at # "ended" =>
            /\ meter.left \in 1 .. meter.asked
            /\ meter.at = "old" => Len(line) = meter.asked - meter.left
            /\ meter.at = "wait" => Len(line) = meter.asked - meter.left + 1
            /\ meter.at = "pulse" => meter.width < meter.left /\ Len(line) = meter.asked - meter.left + 2 + meter.width

\* pulseInLong(): the timeout has not passed, but in the polls that changed its loop
PulseClocked ==
    meter.call = "pulseInLong" =>
        /\ meter.at = "old" => AllOn(line) /\ Len(line) <= meter.asked
        /\ meter.at = "wait" => HasFallen(line) /\ Len(line) <= meter.asked + 1
        /\ meter.at = "pulse" =>
            /\ \E s \in 2 .. Len(line) : InPulse(line, s) /\ meter.start = Modulo(meter.began + s)
            /\ Len(line) <= meter.asked + 2

PulseInv == PulseTypes /\ Counted /\ PulseClocked /\ PulseMeasured /\ DelayIsAsked

------------------------------------------------------------------------------
LEMMA LessThan ==
    ASSUME NEW w \in Nat \ {0}, NEW x \in 0 .. w - 1
    PROVE  x % w = x
OBVIOUS

\* The clock tells how long ago it was read, if it has not come round since.
LEMMA ClockTells ==
    ASSUME NEW w \in Nat \ {0}, NEW b \in 0 .. w - 1, NEW s \in 0 .. w - 1, NEW k \in 0 .. w - 1, s <= k
    PROVE  (((b + k) % w) - ((b + s) % w)) % w = k - s /\ (((b + k) % w) - b) % w = k
<1>1. PICK x : x = (b + s) % w
  OBVIOUS
<1>2. PICK y : y = (b + k) % w
  OBVIOUS
<1>3. (x = b + s /\ b + s < w) \/ (x = b + s - w /\ b + s >= w)
  BY <1>1
<1>4. (y = b + k /\ b + k < w) \/ (y = b + k - w /\ b + k >= w)
  BY <1>2
<1>5. y - x = k - s \/ y - x = k - s - w
  BY <1>3, <1>4
<1>6. y - b = k \/ y - b = k - w
  BY <1>4
<1>7. (y - x) % w = k - s /\ (y - b) % w = k
  BY <1>5, <1>6
<1> QED
  BY <1>1, <1>2, <1>7

LEMMA Polled ==
    ASSUME NEW p \in Seq({0, 1}), NEW v \in {0, 1}, NEW q, q = Append(p, v)
    PROVE  /\ q \in Seq({0, 1}) /\ Len(q) = Len(p) + 1 /\ q[Len(q)] = v
           /\ \A i \in 1 .. Len(p) : q[i] = p[i]
BY AppendProperties

LEMMA PollOnOld ==
    ASSUME NEW p \in Seq({0, 1}), AllOn(p)
    PROVE  AllOn(Append(p, 1)) /\ HasFallen(Append(p, 0))
<1>1. PICK q : q = Append(p, 1)
  OBVIOUS
<1>2. AllOn(q)
  BY <1>1, Polled DEF AllOn
<1>3. PICK r : r = Append(p, 0)
  OBVIOUS
<1>4. HasFallen(r)
  BY <1>3, Polled DEF AllOn, HasFallen
<1> QED
  BY <1>1, <1>2, <1>3, <1>4

LEMMA PollOnWait ==
    ASSUME NEW p \in Seq({0, 1}), HasFallen(p)
    PROVE  HasFallen(Append(p, 0)) /\ InPulse(Append(p, 1), Len(p) + 1)
<1>1. PICK q : q = Append(p, 1)
  OBVIOUS
<1>2. InPulse(q, Len(p) + 1)
  BY <1>1, Polled DEF InPulse, HasFallen
<1>3. PICK r : r = Append(p, 0)
  OBVIOUS
<1>4. HasFallen(r)
  BY <1>3, Polled DEF HasFallen
<1> QED
  BY <1>1, <1>2, <1>3, <1>4

LEMMA PollOnPulse ==
    ASSUME NEW p \in Seq({0, 1}), NEW s, InPulse(p, s)
    PROVE  InPulse(Append(p, 1), s)
<1>1. PICK q : q = Append(p, 1)
  OBVIOUS
<1>2. InPulse(q, s)
  BY <1>1, Polled DEF InPulse
<1> QED
  BY <1>1, <1>2

\* A pulse that ends is the first whole one.
LEMMA PulseEnds ==
    ASSUME PulseTypes, NEW s, InPulse(line, s), line' = Append(line, 0)
    PROVE  s \in 1 .. Len(line') /\ FirstPulse(s)'
BY Polled DEF PulseTypes, InPulse, FirstPulse

------------------------------------------------------------------------------
\* delayMicroseconds(), of any number of microseconds that an unsigned int holds.
LEMMA PassesOfOne ==
    ASSUME NEW w \in Nat \ {0}, NEW us \in 0 .. w - 1, us > 25
    PROVE  /\ (us - 22) % w = us - 22
           /\ (us - 22) \div 4 > 0 /\ 22 + 4 * ((us - 22) \div 4) - us \in -3 .. 0
OBVIOUS

LEMMA PassesOfMore ==
    ASSUME NEW w \in Nat \ {0}, NEW us \in Nat, NEW each \in Nat, NEW spent \in Nat, us * each < w, us * each > spent
    PROVE  (((us * each) % w) - spent) % w = us * each - spent
<1>1. PICK x \in Nat : x = us * each
  OBVIOUS
<1>2. x % w = x
  BY <1>1, LessThan
<1>3. (x - spent) % w = x - spent
  BY <1>1, LessThan
<1> QED
  BY <1>1, <1>2, <1>3

LEMMA DelayAsked ==
    ASSUME NEW rate \in {1, 8, 12, 16, 20, 24}, NEW us \in 0 .. 2 ^ IntBits - 1
    PROVE  IF us <= Skipped[rate] THEN us * rate <= 25
           ELSE rate = 1 \/ us * PerMicro[rate] < 2 ^ IntBits => DelayCycles(rate, us) - us * rate \in -4 .. 4
<1>1. PICK w \in Nat \ {0} : w = 2 ^ IntBits
  BY PulseAssumption
<1>2. us \in 0 .. w - 1 /\ us \in Nat
  BY <1>1
<1>3. CASE us <= Skipped[rate]
  BY <1>2, <1>3 DEF Skipped
<1>4. CASE us > Skipped[rate] /\ rate = 1
  <2>1. Skipped[1] = 25 /\ Spent[1] = 22 /\ CallCycles[1] = 22
    BY DEF Skipped, Spent, CallCycles
  <2>2. DelayPasses(1, us) = (us - 22) \div 4
    BY <1>1, <1>2, <1>4, <2>1, PassesOfOne DEF DelayPasses
  <2>3. DelayCycles(1, us) = 22 + 4 * ((us - 22) \div 4)
    BY <2>1, <2>2 DEF DelayCycles
  <2> QED
    BY <1>2, <1>4, <2>1, <2>3, PassesOfOne
<1>5. CASE us > Skipped[rate] /\ rate # 1 /\ us * PerMicro[rate] < w
  <2>1. PICK each \in Nat, spent \in Nat, base \in Nat :
            /\ each = PerMicro[rate] /\ spent = Spent[rate] /\ base = CallCycles[rate]
            /\ us * each > spent /\ 4 * each = rate /\ base - 4 * spent \in -4 .. 4
    <3>1. CASE rate = 8
      BY <1>2, <1>5, <3>1 DEF PerMicro, Spent, CallCycles, Skipped
    <3>2. CASE rate = 12
      BY <1>2, <1>5, <3>2 DEF PerMicro, Spent, CallCycles, Skipped
    <3>3. CASE rate = 16
      BY <1>2, <1>5, <3>3 DEF PerMicro, Spent, CallCycles, Skipped
    <3>4. CASE rate = 20
      BY <1>2, <1>5, <3>4 DEF PerMicro, Spent, CallCycles, Skipped
    <3>5. CASE rate = 24
      BY <1>2, <1>5, <3>5 DEF PerMicro, Spent, CallCycles, Skipped
    <3> QED
      BY <1>5, <3>1, <3>2, <3>3, <3>4, <3>5
  <2>2. ~(us <= Skipped[rate])
    BY <1>2, <1>5 DEF Skipped
  <2>3. DelayPasses(rate, us) = us * each - spent
    <3>1. us * each < w
      BY <1>5, <2>1
    <3>2. (((us * each) % w) - spent) % w = us * each - spent
      BY <1>2, <2>1, <3>1, PassesOfMore
    <3>3. us * each - spent # 0
      BY <1>2, <2>1
    <3> QED
      BY <1>1, <1>5, <2>1, <2>2, <3>2, <3>3, Zenon DEF DelayPasses
  <2>4. DelayCycles(rate, us) = base + 4 * (us * each - spent)
    BY <2>1, <2>3 DEF DelayCycles
  <2>5. us * rate = 4 * (us * each)
    BY <1>2, <2>1
  <2>6. PICK x \in Nat : x = us * each
    BY <1>2
  <2>7. base + 4 * (x - spent) - 4 * x \in -4 .. 4
    BY <2>1
  <2>8. DelayCycles(rate, us) - us * rate \in -4 .. 4
    BY <2>4, <2>5, <2>6, <2>7
  <2> QED
    BY <1>1, <1>5, <2>2, <2>8, Zenon
<1> QED
  BY <1>1, <1>2, <1>3, <1>4, <1>5 DEF Skipped

------------------------------------------------------------------------------
\* The two ways in which a call can end.
LEMMA EndsIs ==
    ASSUME PulseTypes, meter.call \in {"pulseIn", "pulseInLong"}, line' \in Seq({0, 1}), NEW w \in Int, Ends(w)
    PROVE  /\ meter'.call = meter.call /\ meter'.at = "ended" /\ meter'.asked = meter.asked /\ meter'.width = w
           /\ PulseTypes'
<1>1. meter'.call = meter.call /\ meter'.at = "ended" /\ meter'.asked = meter.asked /\ meter'.width = w
  BY DEF PulseTypes, Ends
<1>2. meter' \in [call : {"none", "pulseIn", "pulseInLong", "delay"}, at : {"old", "wait", "pulse", "ended"},
                  asked : Nat, left : Nat, width : Int, began : 0 .. 2 ^ ClockBits - 1, start : Int]
  BY DEF PulseTypes, Ends
<1>3. meter.asked \in Timeouts
  BY DEF PulseTypes
<1> QED
  BY <1>1, <1>2, <1>3 DEF PulseTypes

LEMMA TimedOut ==
    ASSUME PulseTypes, meter.call \in {"pulseIn", "pulseInLong"}, line' \in Seq({0, 1}), Len(line') >= meter.asked,
           meter.call = "pulseIn" /\ meter.asked > 0 => Len(line') <= 2 * meter.asked + 2,
           meter.call = "pulseInLong" => Len(line') <= meter.asked + 3,
           Ends(0)
    PROVE  PulseInv'
<1>1. /\ meter'.call = meter.call /\ meter'.at = "ended" /\ meter'.asked = meter.asked /\ meter'.width = 0
      /\ PulseTypes'
  BY EndsIs
<1>2. Counted' /\ PulseClocked' /\ DelayIsAsked'
  BY <1>1 DEF Counted, PulseClocked, DelayIsAsked
<1>3. PulseMeasured'
  BY <1>1 DEF PulseMeasured
<1> QED
  BY <1>1, <1>2, <1>3 DEF PulseInv

LEMMA PulseOver ==
    ASSUME PulseTypes, meter.call \in {"pulseIn", "pulseInLong"}, NEW s, InPulse(line, s), line' = Append(line, 0),
           NEW w \in Nat, Ends(w),
           meter.call = "pulseIn" => w = Len(line) - s,
           meter.call = "pulseInLong" => w = Len(line) + 1 - s,
           meter.call = "pulseIn" /\ meter.asked > 0 => Len(line) + 1 <= 2 * meter.asked + 2,
           meter.call = "pulseInLong" => Len(line) + 1 <= meter.asked + 3
    PROVE  PulseInv'
<1>1. /\ meter'.call = meter.call /\ meter'.at = "ended" /\ meter'.asked = meter.asked /\ meter'.width = w
      /\ line' \in Seq({0, 1}) /\ Len(line') = Len(line) + 1 /\ PulseTypes'
  <2>1. line' \in Seq({0, 1}) /\ Len(line') = Len(line) + 1
    BY Polled DEF PulseTypes
  <2> QED
    BY <2>1, EndsIs
<1>2. Counted' /\ PulseClocked' /\ DelayIsAsked'
  BY <1>1 DEF Counted, PulseClocked, DelayIsAsked
<1>3. s \in 1 .. Len(line') /\ FirstPulse(s)' /\ s \in Nat /\ Len(line) \in Nat
  <2>1. s \in 1 .. Len(line') /\ FirstPulse(s)'
    BY PulseEnds
  <2> QED
    BY <1>1, <2>1 DEF PulseTypes
<1>4. CASE w > 0
  <2>1. w = IF meter.call = "pulseIn" THEN Len(line') - s - 1 ELSE Len(line') - s
    BY <1>1, <1>3
  <2>2. PulseMeasured'
    BY <1>1, <1>3, <1>4, <2>1 DEF PulseMeasured
  <2> QED
    BY <1>1, <1>2, <2>2 DEF PulseInv
<1>5. CASE w = 0
  <2>1. meter.call = "pulseIn" /\ s = Len(line') - 1
    BY <1>1, <1>3, <1>5 DEF InPulse
  <2>2. FirstPulse(Len(line) - 1)'
    BY <1>3, <2>1
  <2>3. PulseMeasured'
    BY <1>1, <1>3, <1>5, <2>1, <2>2 DEF PulseMeasured
  <2> QED
    BY <1>1, <1>2, <2>3 DEF PulseInv
<1> QED
  BY <1>4, <1>5

LEMMA GoesOn ==
    ASSUME (PulseTypes /\ Counted /\ PulseClocked)', meter'.call \in {"pulseIn", "pulseInLong"}, meter'.at # "ended"
    PROVE  PulseInv'
<1>1. Len(line') \in Nat /\ meter'.asked \in Nat
  BY DEF PulseTypes
<1>2. meter'.call = "pulseIn" /\ meter'.asked > 0 => Len(line') <= 2 * meter'.asked + 2
  <2>1. SUFFICES ASSUME meter'.call = "pulseIn", meter'.asked > 0 PROVE Len(line') <= 2 * meter'.asked + 2
    OBVIOUS
  <2>2. PICK l \in 1 .. meter'.asked : l = meter'.left
    BY <2>1 DEF Counted
  <2>3. CASE meter'.at \in {"old", "wait"}
    BY <1>1, <2>1, <2>2, <2>3 DEF Counted
  <2>4. CASE meter'.at = "pulse"
    <3>1. PICK w \in Int : w = meter'.width
      BY DEF PulseTypes
    <3>2. w < l /\ Len(line') = meter'.asked - l + 2 + w
      BY <2>1, <2>2, <2>4, <3>1 DEF Counted
    <3> QED
      BY <1>1, <2>2, <3>1, <3>2
  <2> QED
    BY <2>3, <2>4 DEF PulseTypes
<1>3. meter'.call = "pulseInLong" => Len(line') <= meter'.asked + 3
  BY <1>1 DEF PulseClocked, PulseTypes
<1>4. PulseMeasured'
  BY <1>2, <1>3 DEF PulseMeasured
<1> QED
  BY <1>4 DEF PulseInv, DelayIsAsked

LEMMA PulseCallsKeep == PulseInv /\ (pulseIn \/ pulseInLong \/ delayMicroseconds \/ Returned) => PulseInv'
<1>1. ASSUME PulseInv, pulseIn PROVE PulseInv'
  <2>1. PICK t \in Timeouts : Called([NoCall EXCEPT !.call = "pulseIn", !.at = "old", !.asked = t, !.left = t])
    BY <1>1 DEF pulseIn
  <2>2. t \in Nat
    BY PulseAssumption
  <2>3. line' = <<>> /\ Len(line') = 0 /\ line' \in Seq({0, 1})
    BY <2>1 DEF Called
  <2>4. meter' = [call |-> "pulseIn", at |-> "old", asked |-> t, left |-> t, width |-> 0, began |-> 0, start |-> 0]
    BY <2>1 DEF Called, NoCall
  <2>5. PulseTypes'
    BY <2>2, <2>3, <2>4, PulseAssumption DEF PulseTypes
  <2>6. Counted' /\ PulseClocked'
    BY <2>2, <2>3, <2>4 DEF Counted, PulseClocked, AllOn
  <2> QED
    BY <2>4, <2>5, <2>6, GoesOn
<1>2. ASSUME PulseInv, pulseInLong PROVE PulseInv'
  <2>1. PICK t \in Timeouts, b \in 0 .. 2 ^ ClockBits - 1 :
            Called([NoCall EXCEPT !.call = "pulseInLong", !.at = "old", !.asked = t, !.began = b])
    BY <1>2 DEF pulseInLong
  <2>2. t \in Nat
    BY PulseAssumption
  <2>3. line' = <<>> /\ Len(line') = 0 /\ line' \in Seq({0, 1})
    BY <2>1 DEF Called
  <2>4. meter' = [call |-> "pulseInLong", at |-> "old", asked |-> t, left |-> 0, width |-> 0, began |-> b, start |-> 0]
    BY <2>1 DEF Called, NoCall
  <2>5. PulseTypes'
    BY <2>2, <2>3, <2>4, PulseAssumption DEF PulseTypes
  <2>6. Counted' /\ PulseClocked'
    BY <2>2, <2>3, <2>4 DEF Counted, PulseClocked, AllOn
  <2> QED
    BY <2>4, <2>5, <2>6, GoesOn
<1>3. ASSUME PulseInv, delayMicroseconds PROVE PulseInv'
  <2>1. PICK rate \in {1, 8, 12, 16, 20, 24}, us \in 0 .. 2 ^ IntBits - 1 :
            Called([NoCall EXCEPT !.call = "delay", !.asked = us, !.left = rate, !.width = DelayCycles(rate, us)])
    BY <1>3 DEF delayMicroseconds, Skipped
  <2>2. us \in Nat
    BY PulseAssumption
  <2>3. line' = <<>> /\ line' \in Seq({0, 1})
    BY <2>1 DEF Called
  <2>4. PICK w : w = DelayCycles(rate, us)
    OBVIOUS
  <2>5. meter' = [call |-> "delay", at |-> "ended", asked |-> us, left |-> rate, width |-> w, began |-> 0, start |-> 0]
    BY <2>1, <2>4 DEF Called, NoCall
  <2>6. w \in Int
    <3>1. PICK m \in Nat \ {0} : m = 2 ^ IntBits
      BY PulseAssumption
    <3>2. PICK each \in Nat, spent \in Nat, base \in Nat :
            (rate = 1 \/ each = PerMicro[rate]) /\ spent = Spent[rate] /\ base = CallCycles[rate]
      <4>1. rate = 1 \/ PerMicro[rate] \in Nat
        BY DEF PerMicro
      <4>2. Spent[rate] \in Nat
        BY DEF Spent
      <4>3. CallCycles[rate] \in Nat
        BY DEF CallCycles
      <4> QED
        BY <4>1, <4>2, <4>3
    <3>3. PICK q \in Int : q = ((us - 22) % m) \div 4
      BY <2>2, <3>1
    <3>4. PICK p \in Int : p = (((us * each) % m) - spent) % m
      BY <2>2, <3>1, <3>2
    <3>5. Spent[1] = 22
      BY DEF Spent
    <3>6. DelayPasses(rate, us) \in {0, m, q, p}
      BY <3>1, <3>2, <3>3, <3>4, <3>5, Zenon DEF DelayPasses
    <3> QED
      BY <2>4, <3>1, <3>2, <3>3, <3>4, <3>6 DEF DelayCycles
  <2>7. PulseTypes'
    BY <2>2, <2>3, <2>5, <2>6, PulseAssumption DEF PulseTypes
  <2>8. (Counted /\ PulseClocked /\ PulseMeasured)'
    BY <2>5 DEF Counted, PulseClocked, PulseMeasured
  <2>9. DelayIsAsked'
    BY <2>4, <2>5, DelayAsked DEF DelayIsAsked
  <2> QED
    BY <2>7, <2>8, <2>9 DEF PulseInv
<1>4. ASSUME PulseInv, Returned PROVE PulseInv'
  BY <1>4, PulseAssumption DEF Returned, PulseInv, PulseTypes, Counted, PulseClocked, PulseMeasured, DelayIsAsked, NoCall
<1> QED
  BY <1>1, <1>2, <1>3, <1>4

------------------------------------------------------------------------------
\* The two loops of countPulseASM() that wait count the timeout down.
LEMMA CountsDownIs ==
    ASSUME ClockOutlastsTimeouts, PulseTypes, Counted, meter.call = "pulseIn", meter.at # "ended", CountsDown
    PROVE  \/ Ends(0) /\ (meter.asked > 0 => meter.left = 1)
           \/ \E l \in Nat : /\ meter' = [meter EXCEPT !.left = l]
                             /\ meter.asked > 0 => meter.left > 1 /\ l = meter.left - 1
<1>1. PICK w \in Nat \ {0} : w = 2 ^ ClockBits
  BY PulseAssumption
<1>2. PICK t \in Nat, n \in Nat : t = meter.asked /\ n = meter.left
  BY DEF PulseTypes
<1>3. PICK l \in Nat : l = (n - 1) % w
  BY <1>1, <1>2
<1>4. t > 0 => n \in 1 .. t /\ l = n - 1
  <2>1. SUFFICES ASSUME t > 0 PROVE n \in 1 .. t /\ l = n - 1
    OBVIOUS
  <2>2. n \in 1 .. t
    BY <1>2, <2>1 DEF Counted
  <2>3. t + 3 < w
    BY <1>1, <1>2 DEF ClockOutlastsTimeouts, PulseTypes
  <2>4. n - 1 \in 0 .. w - 1
    BY <2>2, <2>3
  <2> QED
    BY <1>3, <2>2, <2>4, LessThan
<1>5. IF l = 0 THEN Ends(0) ELSE meter' = [meter EXCEPT !.left = l]
  BY <1>1, <1>2, <1>3 DEF CountsDown, Modulo
<1>6. CASE l = 0
  BY <1>2, <1>4, <1>5, <1>6
<1>7. CASE l # 0
  BY <1>2, <1>4, <1>5, <1>7
<1> QED
  BY <1>6, <1>7

LEMMA CountKeeps ==
    ASSUME ClockOutlastsTimeouts, PulseInv, meter.call = "pulseIn", CountsDown,
           \/ meter.at = "old" /\ line' = Append(line, 1)
           \/ meter.at = "wait" /\ line' = Append(line, 0)
    PROVE  PulseInv'
<1>1. PulseTypes /\ Counted
  BY DEF PulseInv
<1>2. line' \in Seq({0, 1}) /\ Len(line') = Len(line) + 1 /\ Len(line) \in Nat
  BY <1>1, Polled DEF PulseTypes
<1>3. meter.asked \in Nat /\ meter.left \in Nat
  BY <1>1 DEF PulseTypes
<1>4. meter.asked > 0 =>
        /\ meter.left \in 1 .. meter.asked
        /\ meter.at = "old" => Len(line) = meter.asked - meter.left
        /\ meter.at = "wait" => Len(line) = meter.asked - meter.left + 1
  BY <1>1 DEF Counted
<1>5. CASE Ends(0) /\ (meter.asked > 0 => meter.left = 1)
  <2>1. Len(line') >= meter.asked
    BY <1>2, <1>3, <1>4, <1>5
  <2>2. meter.asked > 0 => Len(line') <= 2 * meter.asked + 2
    BY <1>2, <1>3, <1>4, <1>5
  <2> QED
    BY <1>1, <1>2, <1>5, <2>1, <2>2, TimedOut
<1>6. ASSUME NEW l \in Nat, meter' = [meter EXCEPT !.left = l], meter.asked > 0 => meter.left > 1 /\ l = meter.left - 1
      PROVE  PulseInv'
  <2>1. /\ meter'.call = "pulseIn" /\ meter'.at = meter.at /\ meter'.asked = meter.asked
        /\ meter'.left = l /\ meter'.width = meter.width
    BY <1>1, <1>6 DEF PulseTypes
  <2>2. PulseTypes'
    BY <1>1, <1>2, <1>6 DEF PulseTypes
  <2>3. meter.at = "old" => AllOn(line')
    BY <1>1, PollOnOld DEF Counted, PulseTypes
  <2>4. meter.at = "wait" => HasFallen(line')
    BY <1>1, PollOnWait DEF Counted, PulseTypes
  <2>5. meter.asked > 0 =>
        /\ l \in 1 .. meter.asked
        /\ meter.at = "old" => Len(line') = meter.asked - l
        /\ meter.at = "wait" => Len(line') = meter.asked - l + 1
    <3>1. SUFFICES ASSUME meter.asked > 0
                   PROVE  /\ l \in 1 .. meter.asked
                          /\ meter.at = "old" => Len(line') = meter.asked - l
                          /\ meter.at = "wait" => Len(line') = meter.asked - l + 1
      OBVIOUS
    <3>2. meter.left \in 1 .. meter.asked /\ meter.left > 1 /\ l = meter.left - 1
      BY <1>4, <1>6, <3>1
    <3>3. l \in 1 .. meter.asked
      BY <1>3, <3>2
    <3>4. CASE meter.at = "old"
      <4>1. Len(line) = meter.asked - meter.left
        BY <1>4, <3>1, <3>4
      <4> QED
        BY <1>2, <1>3, <3>2, <3>3, <3>4, <4>1
    <3>5. CASE meter.at = "wait"
      <4>1. Len(line) = meter.asked - meter.left + 1
        BY <1>4, <3>1, <3>5
      <4> QED
        BY <1>2, <1>3, <3>2, <3>3, <3>5, <4>1
    <3> QED
      BY <3>3, <3>4, <3>5
  <2>6. Counted'
    BY <1>1, <2>1, <2>3, <2>4, <2>5 DEF Counted
  <2>7. PulseClocked'
    BY <2>1 DEF PulseClocked
  <2> QED
    BY <2>1, <2>2, <2>6, <2>7, GoesOn
<1> QED
  BY <1>1, <1>5, <1>6, CountsDownIs

\* The end of a previous pulse, and the start of the one to measure
LEMMA NextLoopKeeps ==
    ASSUME PulseInv, meter.call = "pulseIn",
           \/ meter.at = "old" /\ line' = Append(line, 0) /\ Waits
           \/ meter.at = "wait" /\ line' = Append(line, 1) /\ Starts
    PROVE  PulseInv'
<1>1. PulseTypes /\ Counted
  BY DEF PulseInv
<1>2. line' \in Seq({0, 1}) /\ Len(line') = Len(line) + 1 /\ Len(line) \in Nat
  BY <1>1, Polled DEF PulseTypes
<1>3. meter.asked \in Nat /\ meter.left \in Nat /\ meter.width = 0
  BY <1>1 DEF PulseTypes, Counted
<1>4. meter.asked > 0 =>
        /\ meter.left \in 1 .. meter.asked
        /\ meter.at = "old" => Len(line) = meter.asked - meter.left
        /\ meter.at = "wait" => Len(line) = meter.asked - meter.left + 1
  BY <1>1 DEF Counted
<1>5. CASE meter.at = "old"
  <2>1. line' = Append(line, 0) /\ Waits
    BY <1>5
  <2>2. /\ meter'.call = "pulseIn" /\ meter'.at = "wait" /\ meter'.asked = meter.asked
        /\ meter'.left = meter.left /\ meter'.width = 0
    BY <1>1, <1>3, <2>1 DEF PulseTypes, Waits
  <2>3. PulseTypes'
    BY <1>1, <1>2, <2>1 DEF PulseTypes, Waits
  <2>4. HasFallen(line')
    BY <1>1, <1>5, <2>1, PollOnOld DEF Counted, PulseTypes
  <2>5. meter.asked > 0 => Len(line') = meter.asked - meter.left + 1
    BY <1>2, <1>3, <1>4, <1>5
  <2>6. Counted' /\ PulseClocked'
    BY <1>4, <2>2, <2>4, <2>5 DEF Counted, PulseClocked
  <2> QED
    BY <2>2, <2>3, <2>6, GoesOn
<1>6. CASE meter.at = "wait"
  <2>1. line' = Append(line, 1) /\ Starts
    BY <1>6
  <2>2. PICK now \in Int : now = micros
    BY <1>1, PulseAssumption DEF micros, Modulo, PulseTypes
  <2>3. meter' = [meter EXCEPT !.at = "pulse", !.start = now]
    BY <2>1, <2>2 DEF Starts
  <2>4. /\ meter'.call = "pulseIn" /\ meter'.at = "pulse" /\ meter'.asked = meter.asked
        /\ meter'.left = meter.left /\ meter'.width = 0
    BY <1>1, <1>3, <2>3 DEF PulseTypes
  <2>5. PulseTypes'
    BY <1>1, <1>2, <2>3 DEF PulseTypes
  <2>6. PICK s : s = Len(line')
    OBVIOUS
  <2>7. InPulse(line', s) /\ s \in 2 .. Len(line') /\ 0 = Len(line') - s
    <3>1. InPulse(line', Len(line) + 1)
      BY <1>1, <1>6, <2>1, PollOnWait DEF Counted, PulseTypes
    <3>2. InPulse(line', s)
      BY <1>2, <2>6, <3>1
    <3> QED
      BY <1>2, <2>6, <3>2 DEF InPulse
  <2>8. meter.asked > 0 => 0 < meter.left /\ Len(line') = meter.asked - meter.left + 2 + 0
    BY <1>2, <1>3, <1>4, <1>6
  <2>9. Counted'
    BY <1>4, <2>4, <2>7, <2>8 DEF Counted
  <2>10. PulseClocked'
    BY <2>4 DEF PulseClocked
  <2> QED
    BY <2>4, <2>5, <2>9, <2>10, GoesOn
<1> QED
  BY <1>5, <1>6

LEMMA OneMore ==
    ASSUME NEW w \in Nat, NEW l \in Nat, NEW a \in Nat, NEW n \in Nat, w + 1 # l, w < l, n = a - l + 2 + w
    PROVE  w + 1 < l /\ n + 1 = a - l + 2 + (w + 1)
OBVIOUS

\* The loop that measures counts up to what is left.
LEMMA MeasureKeeps ==
    ASSUME PulseInv, meter.call = "pulseIn", meter.at = "pulse",
           \/ line' = Append(line, 1) /\ CountsUp
           \/ line' = Append(line, 0) /\ Ends(meter.width)
    PROVE  PulseInv'
<1>1. PulseTypes /\ Counted
  BY DEF PulseInv
<1>2. line' \in Seq({0, 1}) /\ Len(line') = Len(line) + 1 /\ Len(line) \in Nat
  BY <1>1, Polled DEF PulseTypes
<1>3. meter.asked \in Nat /\ meter.left \in Nat
  BY <1>1 DEF PulseTypes
<1>4. PICK s \in 2 .. Len(line) : InPulse(line, s) /\ meter.width = Len(line) - s
  BY <1>1 DEF Counted
<1>5. PICK w \in Nat : w = meter.width /\ w = Len(line) - s
  BY <1>2, <1>4
<1>6. meter.asked > 0 => meter.left \in 1 .. meter.asked /\ w < meter.left /\ Len(line) = meter.asked - meter.left + 2 + w
  BY <1>1, <1>5 DEF Counted
<1>7. meter.asked > 0 => Len(line) + 1 <= 2 * meter.asked + 2
  BY <1>2, <1>3, <1>5, <1>6
<1>8. CASE line' = Append(line, 0) /\ Ends(meter.width)
  <2>1. Ends(w)
    BY <1>5, <1>8
  <2> QED
    BY <1>1, <1>4, <1>5, <1>7, <1>8, <2>1, PulseOver
<1>9. CASE line' = Append(line, 1) /\ CountsUp /\ w + 1 = meter.left
  <2>1. Ends(0)
    BY <1>5, <1>9 DEF CountsUp
  <2>2. Len(line') >= meter.asked
    <3>1. CASE meter.asked > 0
      BY <1>2, <1>3, <1>5, <1>6, <1>9, <3>1
    <3>2. CASE meter.asked = 0
      BY <1>2, <3>2
    <3> QED
      BY <1>3, <3>1, <3>2
  <2>3. meter.asked > 0 => Len(line') <= 2 * meter.asked + 2
    BY <1>2, <1>7
  <2> QED
    BY <1>1, <1>2, <2>1, <2>2, <2>3, TimedOut
<1>10. CASE line' = Append(line, 1) /\ CountsUp /\ w + 1 # meter.left
  <2>1. meter' = [meter EXCEPT !.width = w + 1]
    BY <1>5, <1>10 DEF CountsUp
  <2>2. /\ meter'.call = "pulseIn" /\ meter'.at = "pulse" /\ meter'.asked = meter.asked
        /\ meter'.left = meter.left /\ meter'.width = w + 1
    BY <1>1, <2>1 DEF PulseTypes
  <2>3. PulseTypes'
    <3>1. w + 1 \in Int
      OBVIOUS
    <3>2. meter' \in [call : {"none", "pulseIn", "pulseInLong", "delay"}, at : {"old", "wait", "pulse", "ended"},
                      asked : Nat, left : Nat, width : Int, began : 0 .. 2 ^ ClockBits - 1, start : Int]
      BY <1>1, <2>1, <3>1 DEF PulseTypes
    <3>3. meter.asked \in Timeouts
      BY <1>1 DEF PulseTypes
    <3> QED
      BY <1>2, <2>2, <3>2, <3>3 DEF PulseTypes
  <2>4. InPulse(line', s) /\ s \in 2 .. Len(line') /\ w + 1 = Len(line') - s
    <3>1. InPulse(line', s)
      BY <1>1, <1>4, <1>10, PollOnPulse DEF PulseTypes
    <3> QED
      BY <1>2, <1>4, <1>5, <3>1
  <2>5. meter.asked > 0 => w + 1 < meter.left /\ Len(line') = meter.asked - meter.left + 2 + (w + 1)
    <3>1. w + 1 # meter.left
      BY <1>10
    <3>2. SUFFICES ASSUME meter.asked > 0
                   PROVE  w + 1 < meter.left /\ Len(line') = meter.asked - meter.left + 2 + (w + 1)
      OBVIOUS
    <3>3. w < meter.left /\ Len(line) = meter.asked - meter.left + 2 + w
      BY <1>6, <3>2
    <3>4. PICK l \in Nat, a \in Nat, n \in Nat : l = meter.left /\ a = meter.asked /\ n = Len(line) /\ n + 1 = Len(line')
      BY <1>2, <1>3
    <3>5. w + 1 # l /\ w < l /\ n = a - l + 2 + w
      BY <3>1, <3>3, <3>4, Zenon
    <3>6. w + 1 < l /\ n + 1 = a - l + 2 + (w + 1)
      BY <3>5, OneMore
    <3> QED
      BY <3>4, <3>6
  <2>6. Counted'
    BY <1>6, <2>2, <2>4, <2>5 DEF Counted
  <2>7. PulseClocked'
    BY <2>2 DEF PulseClocked
  <2> QED
    BY <2>2, <2>3, <2>6, <2>7, GoesOn
<1> QED
  BY <1>8, <1>9, <1>10

LEMMA CountPulseKeeps == ClockOutlastsTimeouts /\ PulseInv /\ countPulseASM => PulseInv'
BY CountKeeps, NextLoopKeeps, MeasureKeeps DEF countPulseASM, Pass, Polls

------------------------------------------------------------------------------
\* What pulseInLong() knows of the clock after a poll, the one of number k
LEMMA ClockIs ==
    ASSUME ClockOutlastsTimeouts, PulseTypes, meter.call = "pulseInLong", Len(line) <= meter.asked + 2
    PROVE  /\ Elapsed(meter.began) = Len(line) + 1 /\ micros \in Int
           /\ micros = Modulo(meter.began + (Len(line) + 1))
           /\ \A s \in 1 .. Len(line) : meter.start = Modulo(meter.began + s) => Elapsed(meter.start) = Len(line) + 1 - s
<1>1. PICK w \in Nat \ {0} : w = 2 ^ ClockBits
  BY PulseAssumption
<1>2. PICK b \in 0 .. w - 1, t \in Nat, k \in Nat \ {0} : b = meter.began /\ t = meter.asked /\ k = Len(line) + 1
  BY <1>1 DEF PulseTypes
<1>3. t + 3 < w
  BY <1>1, <1>2 DEF ClockOutlastsTimeouts, PulseTypes
<1>4. k \in 0 .. w - 1 /\ k <= t + 3
  <2>1. Len(line) \in Nat
    BY DEF PulseTypes
  <2> QED
    BY <1>2, <1>3, <2>1
<1>5. PICK y : y = (b + k) % w
  OBVIOUS
<1>6. micros = y
  <2>1. meter.began + Len(line) + 1 = b + k
    BY <1>2 DEF PulseTypes
  <2> QED
    BY <1>1, <1>5, <2>1 DEF micros, Modulo
<1>7. (y - b) % w = k
  <2>1. 0 \in 0 .. w - 1 /\ k \in 0 .. w - 1 /\ 0 <= k
    BY <1>4
  <2>2. (((b + k) % w) - b) % w = k
    BY <2>1, ClockTells
  <2> QED
    BY <1>5, <2>2
<1>8. ASSUME NEW r \in 0 .. w - 1, k \in r .. w - 1, NEW x, x = (b + r) % w
      PROVE  (y - x) % w = k - r
  <2>1. k \in 0 .. w - 1 /\ r <= k
    BY <1>8
  <2>2. (((b + k) % w) - ((b + r) % w)) % w = k - r
    BY <2>1, ClockTells
  <2> QED
    BY <1>5, <1>8, <2>2
<1>9. ASSUME NEW s \in 1 .. Len(line), meter.start = Modulo(meter.began + s)
      PROVE  Elapsed(meter.start) = k - s
  <2>1. PICK r \in 0 .. w - 1 : r = s /\ k \in r .. w - 1
    <3>1. Len(line) \in Nat
      BY DEF PulseTypes
    <3> QED
      BY <1>2, <1>4, <3>1
  <2>2. PICK x : x = (b + r) % w
    OBVIOUS
  <2>3. meter.start = x
    BY <1>1, <1>2, <1>9, <2>1, <2>2 DEF Modulo
  <2>4. k \in r .. w - 1
    BY <2>1
  <2>5. (y - x) % w = k - r
    BY <1>8, <2>2, <2>4, Zenon
  <2> QED
    BY <1>1, <1>6, <2>1, <2>3, <2>5 DEF Elapsed, Modulo
<1>10. Elapsed(meter.began) = k
  BY <1>1, <1>2, <1>6, <1>7 DEF Elapsed, Modulo
<1>11. y \in Int /\ y = Modulo(meter.began + k)
  BY <1>1, <1>2, <1>5 DEF Modulo
<1> QED
  BY <1>2, <1>6, <1>9, <1>10, <1>11

LEMMA AskKeeps ==
    ASSUME ClockOutlastsTimeouts, PulseInv, meter.call = "pulseInLong", Asks,
           \/ meter.at = "old" /\ line' = Append(line, 1)
           \/ meter.at = "wait" /\ line' = Append(line, 0)
           \/ meter.at = "pulse" /\ line' = Append(line, 1)
    PROVE  PulseInv'
<1>1. PulseTypes /\ PulseClocked
  BY DEF PulseInv
<1>2. line' \in Seq({0, 1}) /\ Len(line') = Len(line) + 1 /\ Len(line) \in Nat
  BY <1>1, Polled DEF PulseTypes
<1>3. meter.asked \in Nat
  BY <1>1 DEF PulseTypes
<1>4. Len(line) <= meter.asked + 2
  BY <1>1, <1>2, <1>3 DEF PulseClocked
<1>5. Elapsed(meter.began) = Len(line')
  BY <1>1, <1>2, <1>4, ClockIs
<1>6. CASE Len(line') > meter.asked
  <2>1. Ends(0)
    BY <1>5, <1>6 DEF Asks
  <2>2. Len(line') >= meter.asked /\ Len(line') <= meter.asked + 3
    BY <1>2, <1>3, <1>4, <1>6
  <2> QED
    BY <1>1, <1>2, <2>1, <2>2, TimedOut
<1>7. CASE ~(Len(line') > meter.asked)
  <2>1. meter' = meter
    BY <1>5, <1>7 DEF Asks
  <2>2. Len(line') <= meter.asked
    BY <1>2, <1>3, <1>7
  <2>3. PulseTypes'
    BY <1>1, <1>2, <2>1 DEF PulseTypes
  <2>4. meter.at = "old" => AllOn(line')
    BY <1>1, PollOnOld DEF PulseClocked, PulseTypes
  <2>5. meter.at = "wait" => HasFallen(line')
    BY <1>1, PollOnWait DEF PulseClocked, PulseTypes
  <2>6. meter.at = "pulse" => \E s \in 2 .. Len(line') : InPulse(line', s) /\ meter.start = Modulo(meter.began + s)
    <3>1. SUFFICES ASSUME meter.at = "pulse"
                   PROVE  \E s \in 2 .. Len(line') : InPulse(line', s) /\ meter.start = Modulo(meter.began + s)
      OBVIOUS
    <3>2. PICK s \in 2 .. Len(line) : InPulse(line, s) /\ meter.start = Modulo(meter.began + s)
      BY <1>1, <3>1 DEF PulseClocked
    <3>3. InPulse(line', s)
      BY <1>1, <3>1, <3>2, PollOnPulse DEF PulseTypes
    <3>4. s \in 2 .. Len(line')
      BY <1>2
    <3> QED
      BY <3>2, <3>3, <3>4
  <2>7. Len(line') <= meter.asked + 1 /\ Len(line') <= meter.asked + 2
    BY <1>2, <1>3, <2>2
  <2>8. PulseClocked'
    BY <2>1, <2>2, <2>4, <2>5, <2>6, <2>7 DEF PulseClocked, Modulo
  <2>9. Counted'
    BY <2>1 DEF Counted
  <2> QED
    BY <2>1, <2>3, <2>8, <2>9, GoesOn
<1> QED
  BY <1>6, <1>7

LEMMA AnswerKeeps ==
    ASSUME ClockOutlastsTimeouts, PulseInv, meter.call = "pulseInLong",
           \/ meter.at = "old" /\ line' = Append(line, 0) /\ Waits
           \/ meter.at = "wait" /\ line' = Append(line, 1) /\ Starts
           \/ meter.at = "pulse" /\ line' = Append(line, 0) /\ Ends(Elapsed(meter.start))
    PROVE  PulseInv'
<1>1. PulseTypes /\ PulseClocked
  BY DEF PulseInv
<1>2. line' \in Seq({0, 1}) /\ Len(line') = Len(line) + 1 /\ Len(line) \in Nat
  BY <1>1, Polled DEF PulseTypes
<1>3. meter.asked \in Nat
  BY <1>1 DEF PulseTypes
<1>4. Len(line) <= meter.asked + 2
  BY <1>1, <1>2, <1>3 DEF PulseClocked
<1>5. CASE meter.at = "old"
  <2>1. line' = Append(line, 0) /\ Waits
    BY <1>5
  <2>2. meter'.call = "pulseInLong" /\ meter'.at = "wait" /\ meter'.asked = meter.asked
    BY <1>1, <2>1 DEF PulseTypes, Waits
  <2>3. PulseTypes'
    BY <1>1, <1>2, <2>1 DEF PulseTypes, Waits
  <2>4. HasFallen(line')
    BY <1>1, <1>5, <2>1, PollOnOld DEF PulseClocked, PulseTypes
  <2>5. Len(line') <= meter.asked + 1
    BY <1>1, <1>2, <1>3, <1>5 DEF PulseClocked
  <2>6. Counted' /\ PulseClocked'
    BY <2>2, <2>4, <2>5 DEF Counted, PulseClocked
  <2> QED
    BY <2>2, <2>3, <2>6, GoesOn
<1>6. CASE meter.at = "wait"
  <2>1. line' = Append(line, 1) /\ Starts
    BY <1>6
  <2>2. PICK now \in Int : now = micros /\ now = Modulo(meter.began + (Len(line) + 1))
    BY <1>1, <1>4, ClockIs
  <2>3. meter' = [meter EXCEPT !.at = "pulse", !.start = now]
    BY <2>1, <2>2 DEF Starts
  <2>4. /\ meter'.call = "pulseInLong" /\ meter'.at = "pulse" /\ meter'.asked = meter.asked
        /\ meter'.start = now /\ meter'.began = meter.began
    BY <1>1, <2>3 DEF PulseTypes
  <2>5. PulseTypes'
    BY <1>1, <1>2, <2>3 DEF PulseTypes
  <2>6. PICK s : s = Len(line')
    OBVIOUS
  <2>7. InPulse(line', s) /\ s \in 2 .. Len(line')
    <3>1. InPulse(line', Len(line) + 1)
      BY <1>1, <1>6, <2>1, PollOnWait DEF PulseClocked, PulseTypes
    <3>2. InPulse(line', s)
      BY <1>2, <2>6, <3>1
    <3> QED
      BY <1>2, <2>6, <3>2 DEF InPulse
  <2>8. meter'.start = Modulo(meter'.began + s)
    BY <1>2, <2>2, <2>4, <2>6
  <2>9. Len(line') <= meter.asked + 2
    BY <1>1, <1>2, <1>3, <1>6 DEF PulseClocked
  <2>10. PulseClocked'
    BY <2>4, <2>7, <2>8, <2>9 DEF PulseClocked, Modulo
  <2>11. Counted'
    BY <2>4 DEF Counted
  <2> QED
    BY <2>4, <2>5, <2>10, <2>11, GoesOn
<1>7. CASE meter.at = "pulse"
  <2>1. line' = Append(line, 0) /\ Ends(Elapsed(meter.start))
    BY <1>7
  <2>2. PICK s \in 2 .. Len(line) : InPulse(line, s) /\ meter.start = Modulo(meter.began + s)
    BY <1>1, <1>7 DEF PulseClocked
  <2>3. s \in 1 .. Len(line)
    BY <1>2
  <2>4. PICK w \in Nat : w = Len(line) + 1 - s
    BY <1>2
  <2>5. Ends(w)
    BY <1>1, <1>4, <2>1, <2>2, <2>3, <2>4, ClockIs
  <2>6. Len(line) + 1 <= meter.asked + 3
    BY <1>2, <1>3, <1>4
  <2> QED
    BY <1>1, <2>1, <2>2, <2>4, <2>5, <2>6, PulseOver
<1> QED
  BY <1>5, <1>6, <1>7

LEMMA LongPollsKeep == ClockOutlastsTimeouts /\ PulseInv /\ pulseInLongPolls => PulseInv'
BY AskKeeps, AnswerKeeps DEF pulseInLongPolls, Pass, Polls

(* A width that pulseIn() or pulseInLong() returns is that of the first    *)
(* whole pulse of the call, and a call ends by its timeout, for every line,*)
(* every time at which the call begins and every timeout that passes       *)
(* before the clock comes round (wiring_pulse.c:33-93); and a delay that   *)
(* counts takes the cycles asked for, four more or less, for every number  *)
(* of microseconds that the count can hold, while one that returns without *)
(* counting was asked for 25 cycles at most (wiring.c:120-239): not that a *)
(* delay never ends early.                                                 *)
THEOREM PulsesAndDelays == ASSUME ClockOutlastsTimeouts PROVE PulseSpec => [](PulseMeasured /\ DelayIsAsked)
<1>1. PulseInit => PulseInv
  BY PulseAssumption DEF PulseInit, PulseInv, PulseTypes, Counted, PulseClocked, PulseMeasured, DelayIsAsked, NoCall
<1>2. PulseInv /\ [PulseNext]_pulseVars => PulseInv'
  <2>1. ASSUME PulseInv, UNCHANGED pulseVars PROVE PulseInv'
    <3>1. meter' = meter /\ line' = line
      BY <2>1 DEF pulseVars
    <3> QED
      BY <2>1, <3>1 DEF PulseInv, PulseTypes, Counted, PulseClocked, PulseMeasured, DelayIsAsked, FirstPulse, Modulo
  <2> QED
    BY <2>1, PulseCallsKeep, CountPulseKeeps, LongPollsKeep DEF PulseNext
<1>3. PulseInv => PulseMeasured /\ DelayIsAsked
  BY DEF PulseInv
<1> QED
  BY <1>1, <1>2, <1>3, PTL DEF PulseSpec

------------------------------------------------------------------------------
(***************************************************************************)
(* The board as a whole.  Moves of one part leave all others alone.        *)
(***************************************************************************)
\* A step of the board is one of a part, or leaves it alone.
LEMMA PartsApart == [BoardNext]_boardVars => /\ [DataflashNext]_dfVars /\ [EepromNext]_eepromVars
                                             /\ [PortNext]_portVars /\ [LcdNext]_lcdVars
                                             /\ [PinsNext]_pinsVars /\ [PulseNext]_pulseVars /\ [TextNext]_textVars
<1>1. BoardNext => /\ DataflashNext \/ UNCHANGED dfVars
                   /\ EepromNext \/ UNCHANGED eepromVars
                   /\ PortNext \/ UNCHANGED portVars
                   /\ LcdNext \/ UNCHANGED lcdVars
                   /\ PinsNext \/ UNCHANGED pinsVars
                   /\ PulseNext \/ UNCHANGED pulseVars
                   /\ TextNext \/ UNCHANGED textVars
  BY DEF BoardNext, LcdMoves, PortMoves, DataflashMoves, BusMoves, PinsMove, PulseMoves, StringMoves, TextMoves,
         EepromMoves, TempMoves
<1>2. UNCHANGED boardVars => /\ UNCHANGED dfVars /\ UNCHANGED eepromVars /\ UNCHANGED portVars /\ UNCHANGED lcdVars
                             /\ UNCHANGED pinsVars /\ UNCHANGED pulseVars /\ UNCHANGED textVars
  BY DEF boardVars
<1> QED
  BY <1>1, <1>2

\* On the board, too, a serial port in software gives what it received and the LCD shows
\* the text of the last call, whatever the other parts do.
THEOREM BoardShares == BoardSpec => [](PortKept /\ LcdShows)
<1>1. BoardInit => PortInit /\ LcdInit
  BY DEF BoardInit
<1>2. BoardSpec => PortSpec /\ LcdSpec
  BY <1>1, PartsApart, PTL DEF BoardSpec, PortSpec, LcdSpec
<1> QED
  BY <1>2, PortHolds, TextShows, PTL

\* StoresKept: each call of ButterflyDataflash does to the chip's buffers and pages
\* what FlashMemory says of it, for every page size, set of pages and cells, and
\* EEPROM.get() returns what EEPROM.put() left, wherever the power failed.
THEOREM StoresHold == BoardSpec => StoresKept
<1>1. BoardInit => DataflashInit /\ EepromInit
  BY DEF BoardInit
<1>2. FlashInv /\ EepromInv /\ [BoardNext]_boardVars => [part = "dataflash" => FlashStep]_dfVars /\ FlashInv' /\ EepromInv'
  BY PartsApart, FlashGoesOn, EepromGoesOn
<1>3. EepromInv => (part = "eeprom" => CellsKept /\ ObjectComesBack)
  BY EepromIsSound
<1> QED
  BY <1>1, <1>2, <1>3, FlashBegins, EepromStarts, PTL DEF BoardSpec, StoresKept

\* Pins are what the calls made them, pulses are measured as they were seen, a delay that
\* counts takes the cycles asked for to within four (one that does not was asked for 25
\* at most), and a search ends at the first target to come, for every set of pins,
\* width of the clock and length of a target or a stream, when timeouts pass before the
\* clock comes round and the handler's pins are on no timer of the sketch's.
THEOREM PinsAndWaitsHold ==
    ASSUME ClockOutlastsTimeouts, TimersApart
    PROVE  BoardSpec => []PinsAndWaits
<1>1. BoardInit => PinsInit /\ PulseInit /\ TextInit
  BY DEF BoardInit
<1>2. BoardSpec => PinsSpec /\ PulseSpec /\ TextSpec
  BY <1>1, PartsApart, PTL DEF BoardSpec, PinsSpec, PulseSpec, TextSpec
<1>3. BoardSpec => [](PinsKept /\ PulseMeasured /\ DelayIsAsked /\ FindsFirst)
  BY <1>2, PinsHold, PulsesAndDelays, TextFinds, PTL
<1>4. PinsKept /\ PulseMeasured /\ DelayIsAsked /\ FindsFirst => PinsAndWaits
  BY DEF PinsAndWaits
<1> QED
  BY <1>3, <1>4, PTL
==============================================================================
