----------------------------- MODULE SdCardProofs -----------------------------
(***************************************************************************)
(* Transactions of the SD card and of others on one bus, with INT0 between *)
(* any two steps: what is proved of the one saved flag, of the pointer that*)
(* INT0 calls and of the card between two calls of its driver, for every   *)
(* size of a block and every sequence of calls.                            *)
(***************************************************************************)
EXTENDS SdCard, SequenceTheorems, TLAPS

------------------------------------------------------------------------------
(***************************************************************************)
(* The shape of what is left of a call.  Only access() and init() name the *)
(* two ends of a transaction, in a row; the steps of the card's driver     *)
(* open and close theirs by the pin.  Attaching and detaching are never    *)
(* mixed with either.                                                      *)
(***************************************************************************)
CardOps ==
    {"readEnd", "readEndIfDone", "low", "high", "command", "wait", "data", "ignored", "start",
     "take", "startRegister", "transfer", "setPartial", "opened"}

Plain(s) == s \in Seq(CardOps)

Leads(s, op) == s # <<>> /\ Head(s) = op

Ending(s) == Leads(s, "end") /\ Plain(Tail(s))
Transferring(s) == Leads(s, "transfer") /\ Ending(Tail(s))
Beginning(s) == Leads(s, "begin") /\ Transferring(Tail(s))

AttachEnable(s) == Leads(s, "enable") /\ Tail(s) = <<>>
AttachHigh(s) == Leads(s, "storeHigh") /\ AttachEnable(Tail(s))
AttachLow(s) == Leads(s, "storeLow") /\ AttachHigh(Tail(s))

DetachHigh(s) == Leads(s, "storeHigh") /\ Tail(s) = <<>>
DetachLow(s) == Leads(s, "storeLow") /\ DetachHigh(Tail(s))
DetachDisable(s) == Leads(s, "disable") /\ DetachLow(Tail(s))

Attaching(s) == AttachLow(s) \/ AttachHigh(s) \/ AttachEnable(s)
Detaching(s) == DetachDisable(s) \/ DetachLow(s) \/ DetachHigh(s)

\* The transaction that access() or init() has begun is still open.
Inside(s) == Transferring(s) \/ Ending(s)

(* The head of a plain list is a step of the driver, and so are the others. *)
LEMMA PlainHead ==
    ASSUME NEW s, Plain(s), s # <<>>
    PROVE  Head(s) \in CardOps /\ Plain(Tail(s))
BY HeadTailProperties DEF Plain

LEMMA PlainNot ==
    ASSUME NEW s, Plain(s)
    PROVE  /\ ~Inside(s) /\ ~Beginning(s) /\ ~Attaching(s) /\ ~Detaching(s)
<1>1. s # <<>> => Head(s) \in CardOps /\ Plain(Tail(s))
  BY PlainHead
<1>2. Plain(Tail(s)) /\ Tail(s) # <<>> => Head(Tail(s)) \in CardOps
  BY PlainHead
<1> QED
  BY <1>1, <1>2
  DEF CardOps, Leads, Inside, Transferring, Ending, Beginning, Attaching, AttachLow, AttachHigh,
      AttachEnable, Detaching, DetachDisable, DetachLow, DetachHigh

(* The lists that calls start with.                                        *)
LEMMA AccessList ==
    Beginning(<<"begin", "transfer", "end">>)
<1> DEFINE a == <<"begin", "transfer", "end">>
           b == <<"transfer", "end">>
           d == <<"end">>
<1>1. a # <<>> /\ Head(a) = "begin" /\ Tail(a) = b
  OBVIOUS
<1>2. b # <<>> /\ Head(b) = "transfer" /\ Tail(b) = d
  OBVIOUS
<1>3. d # <<>> /\ Head(d) = "end" /\ Tail(d) = <<>> /\ Plain(<<>>)
  BY DEF Plain
<1> QED
  BY <1>1, <1>2, <1>3 DEF Beginning, Transferring, Ending, Leads

LEMMA AttachLists ==
    /\ AttachLow(<<"storeLow", "storeHigh", "enable">>)
    /\ DetachDisable(<<"disable", "storeLow", "storeHigh">>)
<1>1. /\ Head(<<"storeLow", "storeHigh", "enable">>) = "storeLow"
      /\ Tail(<<"storeLow", "storeHigh", "enable">>) = <<"storeHigh", "enable">>
      /\ Head(<<"storeHigh", "enable">>) = "storeHigh"
      /\ Tail(<<"storeHigh", "enable">>) = <<"enable">>
      /\ Head(<<"enable">>) = "enable" /\ Tail(<<"enable">>) = <<>>
  OBVIOUS
<1>2. /\ Head(<<"disable", "storeLow", "storeHigh">>) = "disable"
      /\ Tail(<<"disable", "storeLow", "storeHigh">>) = <<"storeLow", "storeHigh">>
      /\ Head(<<"storeLow", "storeHigh">>) = "storeLow"
      /\ Tail(<<"storeLow", "storeHigh">>) = <<"storeHigh">>
      /\ Head(<<"storeHigh">>) = "storeHigh" /\ Tail(<<"storeHigh">>) = <<>>
  OBVIOUS
<1>3. /\ <<"storeLow", "storeHigh", "enable">> # <<>> /\ <<"storeHigh", "enable">> # <<>>
      /\ <<"enable">> # <<>>
      /\ <<"disable", "storeLow", "storeHigh">> # <<>> /\ <<"storeLow", "storeHigh">> # <<>>
      /\ <<"storeHigh">> # <<>>
  OBVIOUS
<1> QED
  BY <1>1, <1>2, <1>3
  DEF AttachLow, AttachHigh, AttachEnable, DetachDisable, DetachLow, DetachHigh, Leads

(* The lists of the card's driver.                                         *)
LEMMA PlainConcat ==
    ASSUME NEW s, NEW u, Plain(s), Plain(u)
    PROVE  Plain(s \o u)
BY ConcatProperties DEF Plain

LEMMA DriverLists ==
    /\ Plain(<<>>) /\ Plain(Fail) /\ Plain(Done) /\ Plain(Command) /\ Plain(Acmd) /\ Plain(Register)
    /\ Plain(<<"take", "readEndIfDone">>)
    /\ Plain(Command \o <<"start", "take", "readEndIfDone">>)
    /\ Plain(Command \o <<"data", "wait">> \o Command \o Done)
    /\ Plain(Register \o Command \o Command \o Command \o <<"wait">> \o Done)
    /\ Plain(<<"readEnd", "setPartial">>)
    /\ Plain(Acmd \o Command \o <<"opened">>) /\ Plain(<<"wait", "data", "opened">>)
    /\ Plain(<<"wait", "transfer", "wait">> \o Done)
<1>1. /\ Plain(<<>>) /\ Plain(<<"high">>) /\ Plain(<<"readEnd", "low", "command">>)
      /\ Plain(<<"readEnd", "low", "ignored">>) /\ Plain(<<"startRegister", "transfer", "high">>)
      /\ Plain(<<"take", "readEndIfDone">>) /\ Plain(<<"start", "take", "readEndIfDone">>)
      /\ Plain(<<"data", "wait">>) /\ Plain(<<"wait">>) /\ Plain(<<"readEnd", "setPartial">>)
      /\ Plain(<<"opened">>) /\ Plain(<<"wait", "data", "opened">>) /\ Plain(<<"wait", "transfer", "wait">>)
  BY DEF Plain, CardOps
<1>2. Plain(Fail) /\ Plain(Done) /\ Plain(Command)
  BY <1>1 DEF Fail, Done, Command
<1>3. Plain(Acmd) /\ Plain(Register)
  BY <1>1, <1>2, PlainConcat DEF Acmd, Register
<1> QED
  BY <1>1, <1>2, <1>3, PlainConcat, Zenon

(* What is appended to a list leaves its head.                             *)
LEMMA HeadStays ==
    ASSUME NEW S, NEW s \in Seq(S), NEW u \in Seq(S), s # <<>>
    PROVE  s \o u # <<>> /\ Head(s \o u) = Head(s) /\ Tail(s \o u) = Tail(s) \o u
<1>1. Len(s) \in Nat \ {0} /\ Len(u) \in Nat
  BY EmptySeq, LenProperties
<1>2. /\ s \o u \in Seq(S) /\ Len(s \o u) = Len(s) + Len(u)
      /\ \A i \in 1 .. Len(s) + Len(u) : (s \o u)[i] = IF i <= Len(s) THEN s[i] ELSE u[i - Len(s)]
  BY ConcatProperties
<1>3. s \o u # <<>> /\ Head(s \o u) = (s \o u)[1] /\ Head(s) = s[1] /\ (s \o u)[1] = s[1]
  BY <1>1, <1>2
<1>4. /\ Tail(s) \in Seq(S) /\ Len(Tail(s)) = Len(s) - 1
      /\ \A i \in 1 .. Len(s) - 1 : Tail(s)[i] = s[i + 1]
  BY HeadTailProperties
<1>5. /\ Tail(s \o u) \in Seq(S) /\ Len(Tail(s \o u)) = Len(s) + Len(u) - 1
      /\ \A i \in 1 .. Len(s) + Len(u) - 1 : Tail(s \o u)[i] = (s \o u)[i + 1]
  BY <1>2, <1>3, HeadTailProperties
<1>6. /\ Tail(s) \o u \in Seq(S) /\ Len(Tail(s) \o u) = Len(s) - 1 + Len(u)
      /\ \A i \in 1 .. Len(s) - 1 + Len(u) :
            (Tail(s) \o u)[i] = IF i <= Len(s) - 1 THEN Tail(s)[i] ELSE u[i - (Len(s) - 1)]
  BY <1>4, ConcatProperties
<1>7. ASSUME NEW i \in 1 .. Len(s) + Len(u) - 1
      PROVE  Tail(s \o u)[i] = (Tail(s) \o u)[i]
  <2>1. i + 1 \in 1 .. Len(s) + Len(u) /\ i \in 1 .. Len(s) - 1 + Len(u)
    BY <1>1
  <2>2. Tail(s \o u)[i] = IF i + 1 <= Len(s) THEN s[i + 1] ELSE u[i + 1 - Len(s)]
    BY <1>2, <1>5, <2>1
  <2>3. CASE i + 1 <= Len(s)
    <3>1. i \in 1 .. Len(s) - 1 /\ i <= Len(s) - 1
      BY <1>1, <2>3
    <3> QED
      BY <1>4, <1>6, <2>1, <2>2, <2>3, <3>1
  <2>4. CASE ~(i + 1 <= Len(s))
    <3>1. ~(i <= Len(s) - 1) /\ i - (Len(s) - 1) = i + 1 - Len(s)
      BY <1>1, <2>4
    <3> QED
      BY <1>6, <2>1, <2>2, <2>4, <3>1
  <2> QED
    BY <2>3, <2>4
<1>8. Tail(s \o u) = Tail(s) \o u
  <2>1. Len(Tail(s \o u)) = Len(Tail(s) \o u)
    BY <1>1, <1>5, <1>6
  <2> QED
    BY <1>5, <1>6, <1>7, <2>1, SeqEqual
<1> QED
  BY <1>3, <1>8

AllOps == CardOps \cup {"begin", "end"}

(* init() goes on with the driver's steps when its transaction is over.    *)
LEMMA BeginConcat ==
    ASSUME NEW s \in Seq(AllOps), Beginning(s), NEW u, Plain(u)
    PROVE  s \o u \in Seq(AllOps) /\ Beginning(s \o u)
<1> DEFINE s1 == Tail(s)
           s2 == Tail(s1)
           s3 == Tail(s2)
<1>1. u \in Seq(AllOps)
  BY DEF Plain, AllOps
<1>2. /\ s # <<>> /\ Head(s) = "begin"
      /\ s1 # <<>> /\ Head(s1) = "transfer"
      /\ s2 # <<>> /\ Head(s2) = "end" /\ Plain(s3)
  BY DEF Beginning, Transferring, Ending, Leads
<1>3. s1 \in Seq(AllOps) /\ s2 \in Seq(AllOps)
  <2>1. s1 \in Seq(AllOps)
    BY <1>2, HeadTailProperties
  <2> QED
    BY <1>2, <2>1, HeadTailProperties
<1>4. s \o u # <<>> /\ Head(s \o u) = "begin" /\ Tail(s \o u) = s1 \o u
  BY <1>1, <1>2, HeadStays
<1>5. s1 \o u # <<>> /\ Head(s1 \o u) = "transfer" /\ Tail(s1 \o u) = s2 \o u
  BY <1>1, <1>2, <1>3, HeadStays
<1>6. s2 \o u # <<>> /\ Head(s2 \o u) = "end" /\ Tail(s2 \o u) = s3 \o u
  BY <1>1, <1>2, <1>3, HeadStays
<1>7. Plain(s3 \o u)
  BY <1>2, PlainConcat
<1>8. s \o u \in Seq(AllOps)
  BY <1>1, ConcatProperties
<1> QED
  BY <1>4, <1>5, <1>6, <1>7, <1>8, Zenon DEF Beginning, Transferring, Ending, Leads

LEMMA InitList ==
    Beginning(<<"begin", "transfer", "end", "low">> \o Command \o Acmd \o Command \o Done)
<1> DEFINE a == <<"begin", "transfer", "end", "low">>
           b == <<"transfer", "end", "low">>
           d == <<"end", "low">>
<1>1. a # <<>> /\ Head(a) = "begin" /\ Tail(a) = b
  OBVIOUS
<1>2. b # <<>> /\ Head(b) = "transfer" /\ Tail(b) = d
  OBVIOUS
<1>3. d # <<>> /\ Head(d) = "end" /\ Tail(d) = <<"low">> /\ Plain(<<"low">>)
  BY DEF Plain, CardOps
<1>4. a \in Seq(AllOps)
  BY DEF AllOps, CardOps
<1>5. Beginning(a)
  BY <1>1, <1>2, <1>3 DEF Beginning, Transferring, Ending, Leads
<1> HIDE DEF a
<1>6. a \o Command \in Seq(AllOps) /\ Beginning(a \o Command)
  BY <1>4, <1>5, DriverLists, BeginConcat
<1>7. a \o Command \o Acmd \in Seq(AllOps) /\ Beginning(a \o Command \o Acmd)
  BY <1>6, DriverLists, BeginConcat
<1>8. a \o Command \o Acmd \o Command \in Seq(AllOps) /\ Beginning(a \o Command \o Acmd \o Command)
  BY <1>7, DriverLists, BeginConcat
<1>9. Beginning(a \o Command \o Acmd \o Command \o Done)
  BY <1>8, DriverLists, BeginConcat
<1> QED
  BY <1>9 DEF a

(* A list has one shape.                                                   *)
LEMMA OneShape ==
    ASSUME NEW s
    PROVE  /\ Beginning(s) => ~Inside(s) /\ ~Attaching(s) /\ ~Detaching(s)
           /\ Inside(s) => ~Attaching(s) /\ ~Detaching(s)
           /\ Attaching(s) => ~Detaching(s)
           /\ AttachLow(s) => ~AttachHigh(s) /\ ~AttachEnable(s)
           /\ AttachHigh(s) => ~AttachEnable(s)
BY DEF Leads, Inside, Transferring, Ending, Beginning, Attaching, AttachLow, AttachHigh,
       AttachEnable, Detaching, DetachDisable, DetachLow, DetachHigh

Shaped(s) == Plain(s) \/ Beginning(s) \/ Inside(s) \/ Attaching(s) \/ Detaching(s)

(* A step of the driver leaves a plain list.                               *)
LEMMA DriverShape ==
    ASSUME NEW s, Shaped(s), s # <<>>, Head(s) \in CardOps \ {"transfer"}
    PROVE  Plain(s) /\ Plain(Tail(s))
<1>1. Plain(s)
  BY DEF Shaped, CardOps, Leads, Inside, Transferring, Ending, Beginning, Attaching, AttachLow,
         AttachHigh, AttachEnable, Detaching, DetachDisable, DetachLow, DetachHigh
<1> QED
  BY <1>1, PlainHead

(* The steps of a transaction, and those of attaching and detaching.       *)
LEMMA OtherShapes ==
    ASSUME NEW s, Shaped(s), s # <<>>
    PROVE  /\ Head(s) = "begin" => Beginning(s) /\ Transferring(Tail(s))
           /\ Head(s) = "end" => Ending(s) /\ Plain(Tail(s))
           /\ Head(s) = "transfer" =>
                 \/ Transferring(s) /\ Ending(Tail(s))
                 \/ Plain(s) /\ Plain(Tail(s))
           /\ Head(s) = "storeLow" =>
                 \/ AttachLow(s) /\ AttachHigh(Tail(s))
                 \/ DetachLow(s) /\ DetachHigh(Tail(s))
           /\ Head(s) = "storeHigh" =>
                 \/ AttachHigh(s) /\ AttachEnable(Tail(s))
                 \/ DetachHigh(s) /\ Tail(s) = <<>>
           /\ Head(s) = "enable" => AttachEnable(s) /\ Tail(s) = <<>>
           /\ Head(s) = "disable" => DetachDisable(s) /\ DetachLow(Tail(s))
<1>1. Plain(s) => Head(s) \in CardOps /\ Plain(Tail(s))
  BY PlainHead
<1> QED
  BY <1>1
  DEF Shaped, CardOps, Leads, Inside, Transferring, Ending, Beginning, Attaching, AttachLow,
      AttachHigh, AttachEnable, Detaching, DetachDisable, DetachLow, DetachHigh

------------------------------------------------------------------------------
(***************************************************************************)
(* The invariant, for a sketch that has done nothing it should not.  What  *)
(* is saved belongs to the one open transaction (MaskInv): a handler that  *)
(* could overwrite it is masked, because usingInterrupt() knows of it      *)
(* (PointerInv).  How many transactions are open follows from the pin and  *)
(* from what is left of the call (DepthInv).                               *)
(***************************************************************************)
Pointers == Functions \cup {"nothing"}

BusTypes ==
    /\ EIMSK \in BOOLEAN /\ I \in BOOLEAN /\ interruptMask \in BOOLEAN /\ interruptSave \in BOOLEAN
    /\ wantEIMSK \in BOOLEAN /\ wantI \in BOOLEAN
    /\ disturbed \in BOOLEAN /\ misused \in BOOLEAN /\ chip_select_asserted \in BOOLEAN
    /\ interruptMode \in 0 .. 2 /\ depth \in Nat
    /\ intFunc \in [low : Pointers, high : Pointers]
    /\ arg.f \in Pointers

DepthInv ==
    /\ depth = IF chip_select_asserted \/ Inside(todo) THEN 1 ELSE 0
    /\ ~chip_select_asserted \/ ~Inside(todo)
    /\ Attaching(todo) \/ Detaching(todo) => ~chip_select_asserted

MaskInv ==
    /\ ~disturbed
    /\ IF depth = 1 /\ interruptMode = 2 THEN ~I /\ interruptSave = wantI ELSE I = wantI
    /\ IF depth = 1 /\ interruptMode = 1
       THEN interruptSave = wantEIMSK /\ (EIMSK <=> wantEIMSK /\ ~interruptMask)
       ELSE EIMSK = wantEIMSK

Registered(f) == ~Unregistered(interruptMode, interruptMask, f)

PointerInv ==
    /\ Registered(intFunc.low) /\ Registered(arg.f)
    /\ ~Attaching(todo) => arg.f = "nothing"
    /\ Attaching(todo) => arg.f \in Functions /\ ~wantEIMSK
    /\ AttachHigh(todo) => intFunc.low = arg.f
    /\ AttachEnable(todo) => intFunc.low = arg.f /\ intFunc.high = arg.f
    /\ DetachLow(todo) \/ DetachHigh(todo) => ~wantEIMSK
    /\ wantEIMSK => intFunc.low = intFunc.high /\ intFunc.low \in Functions

BusInv ==
    /\ BusTypes
    /\ ~misused => Shaped(todo) /\ DepthInv /\ MaskInv /\ PointerInv

(* A call of the card's driver that starts, and one that goes on, leave    *)
(* transactions and pointers as they are.                                  *)
LEMMA QuietStep ==
    ASSUME BusInv, ~misused, Plain(todo), Plain(todo'),
           UNCHANGED <<intVars, modeVars, interruptSave, intFunc, depth, wantVars, disturbed>>,
           UNCHANGED chip_select_asserted, misused' \in BOOLEAN, arg'.f = "nothing"
    PROVE  BusInv'
<1>1. /\ ~Inside(todo) /\ ~Attaching(todo) /\ ~Detaching(todo)
      /\ ~Inside(todo)' /\ ~Attaching(todo)' /\ ~Detaching(todo)'
  BY PlainNot
<1>2. Shaped(todo)'
  BY DEF Shaped
<1>3. /\ ~AttachHigh(todo)' /\ ~AttachEnable(todo)' /\ ~DetachLow(todo)' /\ ~DetachHigh(todo)'
  BY <1>1 DEF Attaching, Detaching
<1> USE DEF BusInv, intVars, modeVars, wantVars
<1>4. BusTypes'
  BY DEF BusTypes, Pointers
<1>5. DepthInv'
  BY <1>1 DEF DepthInv
<1>6. MaskInv'
  BY DEF MaskInv
<1>7. PointerInv'
  BY <1>1, <1>3 DEF PointerInv, Registered, Unregistered
<1> QED
  BY <1>2, <1>4, <1>5, <1>6, <1>7

(* The card is selected: a transaction begins, unless one is open.         *)
LEMMA LowStep ==
    ASSUME BusInv, ~misused, Plain(todo), Plain(todo'), Low, arg'.f = "nothing",
           UNCHANGED <<modeVars, intFunc, wantVars, disturbed>>
    PROVE  BusInv'
<1>1. /\ ~Inside(todo) /\ ~Attaching(todo) /\ ~Detaching(todo)
      /\ ~Inside(todo)' /\ ~Attaching(todo)' /\ ~Detaching(todo)'
  BY PlainNot
<1>2. Shaped(todo)'
  BY DEF Shaped
<1>3. /\ ~AttachHigh(todo)' /\ ~AttachEnable(todo)' /\ ~DetachLow(todo)' /\ ~DetachHigh(todo)'
  BY <1>1 DEF Attaching, Detaching
<1> USE DEF BusInv, Low, beginTransaction, Save, Masked, modeVars, wantVars, intVars
<1>4. BusTypes'
  <2>1. CASE chip_select_asserted
    BY <2>1 DEF BusTypes, Pointers
  <2>2. CASE ~chip_select_asserted
    <3>1. chip_select_asserted' = TRUE /\ depth' \in Nat
      BY <2>2 DEF BusTypes
    <3>2. interruptSave' \in BOOLEAN
      BY <2>2 DEF BusTypes
    <3>3. EIMSK' \in BOOLEAN /\ I' \in BOOLEAN /\ misused' \in BOOLEAN
      BY <2>2 DEF BusTypes
    <3> QED
      BY <3>1, <3>2, <3>3 DEF BusTypes, Pointers
  <2> QED
    BY <2>1, <2>2
<1>5. DepthInv'
  BY <1>1 DEF DepthInv, BusTypes
<1>6. MaskInv'
  BY <1>1 DEF MaskInv, DepthInv, BusTypes
<1>7. PointerInv'
  BY <1>1, <1>3 DEF PointerInv, Registered, Unregistered
<1> QED
  BY <1>2, <1>4, <1>5, <1>6, <1>7

(* The card is released: if a transaction is open, it ends.                *)
LEMMA HighStep ==
    ASSUME BusInv, ~misused, Plain(todo), Plain(todo'), High, arg'.f = "nothing",
           UNCHANGED <<modeVars, intFunc, wantVars, disturbed>>
    PROVE  BusInv'
<1>1. /\ ~Inside(todo) /\ ~Attaching(todo) /\ ~Detaching(todo)
      /\ ~Inside(todo)' /\ ~Attaching(todo)' /\ ~Detaching(todo)'
  BY PlainNot
<1>2. Shaped(todo)'
  BY DEF Shaped
<1>3. /\ ~AttachHigh(todo)' /\ ~AttachEnable(todo)' /\ ~DetachLow(todo)' /\ ~DetachHigh(todo)'
  BY <1>1 DEF Attaching, Detaching
<1> USE DEF BusInv, High, endTransaction, Restore, modeVars, wantVars, intVars
<1>4. BusTypes'
  <2>1. CASE ~chip_select_asserted
    BY <2>1 DEF BusTypes, Pointers
  <2>2. CASE chip_select_asserted
    <3>1. chip_select_asserted' = FALSE /\ depth' \in Nat
      BY <2>2 DEF BusTypes
    <3>2. EIMSK' \in BOOLEAN /\ I' \in BOOLEAN
      BY <2>2 DEF BusTypes
    <3> QED
      BY <2>2, <3>1, <3>2 DEF BusTypes, Pointers
  <2> QED
    BY <2>1, <2>2
<1>5. DepthInv'
  BY <1>1 DEF DepthInv, BusTypes
<1>6. MaskInv'
  BY <1>1 DEF MaskInv, DepthInv, BusTypes
<1>7. PointerInv'
  BY <1>1, <1>3 DEF PointerInv, Registered, Unregistered
<1> QED
  BY <1>2, <1>4, <1>5, <1>6, <1>7

------------------------------------------------------------------------------
(***************************************************************************)
(* The steps of the card's driver.                                         *)
(***************************************************************************)
LEMMA DriverMove ==
    ASSUME BusInv, ~misused, todo # <<>>, Head(todo) \in CardOps \ {"transfer"},
           todo' = Tail(todo) \/ todo' = Fail
    PROVE  Plain(todo) /\ Plain(todo') /\ arg.f = "nothing"
<1>1. Plain(todo) /\ Plain(Tail(todo))
  BY DriverShape DEF BusInv
<1>2. Plain(todo')
  BY <1>1, DriverLists
<1>3. ~Attaching(todo)
  BY <1>1, PlainNot
<1> QED
  BY <1>1, <1>2, <1>3 DEF BusInv, PointerInv

LEMMA NothingLeft ==
    ASSUME BusInv, ~misused, todo = <<>>
    PROVE  /\ Plain(todo) /\ arg.f = "nothing"
           /\ ~Inside(todo) /\ ~Attaching(todo) /\ ~Detaching(todo)
<1>1. Plain(todo)
  BY DriverLists
<1>2. ~Inside(todo) /\ ~Attaching(todo) /\ ~Detaching(todo)
  BY <1>1, PlainNot
<1> QED
  BY <1>1, <1>2 DEF BusInv, PointerInv

LEMMA ReadEndStep ==
    ASSUME BusInv, ~misused, readEnd
    PROVE  BusInv'
<1>1. Plain(todo) /\ Plain(todo') /\ arg.f = "nothing"
  BY DriverMove DEF readEnd, Next, CardOps
<1>2. UNCHANGED <<modeVars, intFunc, wantVars, disturbed, arg>>
  BY DEF readEnd, quietVars
<1>3. High \/ UNCHANGED <<busVars, chip_select_asserted>>
  BY DEF readEnd
<1>4. misused \in BOOLEAN
  BY DEF BusInv, BusTypes
<1> QED
  BY <1>1, <1>2, <1>3, <1>4, HighStep, QuietStep DEF busVars

LEMMA ChipSelectStep ==
    ASSUME BusInv, ~misused, ChipSelect
    PROVE  BusInv'
<1>1. Plain(todo) /\ Plain(todo') /\ arg.f = "nothing"
  BY DriverMove DEF ChipSelect, Next, CardOps
<1>2. UNCHANGED <<modeVars, intFunc, wantVars, disturbed>> /\ arg'.f = "nothing"
  BY <1>1 DEF ChipSelect, NoArg
<1>3. High \/ Low
  BY DEF ChipSelect
<1> QED
  BY <1>1, <1>2, <1>3, HighStep, LowStep

LEMMA ExchangeStep ==
    ASSUME BusInv, ~misused, Exchange
    PROVE  BusInv'
<1>1. Plain(todo) /\ Plain(todo') /\ arg.f = "nothing"
  BY DriverMove DEF Exchange, Fails, Next, CardOps
<1>2. /\ UNCHANGED <<intVars, modeVars, interruptSave, intFunc, depth, wantVars, disturbed>>
      /\ UNCHANGED <<chip_select_asserted, arg, misused>>
  BY DEF Exchange, quietVars, busVars, sdVars, cardVars
<1>3. misused \in BOOLEAN
  BY DEF BusInv, BusTypes
<1> QED
  BY <1>1, <1>2, <1>3, QuietStep

LEMMA StartBlockStep ==
    ASSUME BusInv, ~misused, StartBlock
    PROVE  BusInv'
<1>1. Plain(todo) /\ Plain(todo') /\ arg.f = "nothing"
  BY DriverMove DEF StartBlock, CardOps
<1>2. UNCHANGED <<modeVars, intFunc, wantVars, disturbed, arg>>
  BY DEF StartBlock, quietVars
<1>3. High \/ UNCHANGED <<busVars, chip_select_asserted>>
  BY DEF StartBlock
<1>4. misused \in BOOLEAN
  BY DEF BusInv, BusTypes
<1> QED
  BY <1>1, <1>2, <1>3, <1>4, HighStep, QuietStep DEF busVars

LEMMA StartRegisterStep ==
    ASSUME BusInv, ~misused, StartRegister
    PROVE  BusInv'
<1>1. Plain(todo) /\ Plain(todo') /\ arg.f = "nothing"
  BY DriverMove DEF StartRegister, CardOps
<1>2. UNCHANGED <<modeVars, intFunc, wantVars, disturbed, arg>>
  BY DEF StartRegister, quietVars
<1>3. High \/ UNCHANGED <<busVars, chip_select_asserted>>
  BY DEF StartRegister
<1>4. misused \in BOOLEAN
  BY DEF BusInv, BusTypes
<1> QED
  BY <1>1, <1>2, <1>3, <1>4, HighStep, QuietStep DEF busVars

LEMMA TakeStep ==
    ASSUME BusInv, ~misused, Take
    PROVE  BusInv'
<1>1. Plain(todo) /\ Plain(todo')
  BY DriverMove DEF Take, Next, CardOps
<1>2. /\ UNCHANGED <<intVars, modeVars, interruptSave, intFunc, depth, wantVars, disturbed>>
      /\ UNCHANGED <<chip_select_asserted, misused>> /\ arg'.f = "nothing"
  BY DEF Take, busVars, NoArg
<1>3. misused \in BOOLEAN
  BY DEF BusInv, BusTypes
<1> QED
  BY <1>1, <1>2, <1>3, QuietStep

LEMMA SetPartialStep ==
    ASSUME BusInv, ~misused, SetPartial
    PROVE  BusInv'
<1>1. Plain(todo) /\ Plain(todo') /\ arg.f = "nothing"
  BY DriverMove DEF SetPartial, Next, CardOps
<1>2. /\ UNCHANGED <<intVars, modeVars, interruptSave, intFunc, depth, wantVars, disturbed>>
      /\ UNCHANGED <<chip_select_asserted, arg, misused>>
  BY DEF SetPartial, quietVars, busVars
<1>3. misused \in BOOLEAN
  BY DEF BusInv, BusTypes
<1> QED
  BY <1>1, <1>2, <1>3, QuietStep

(* A call that starts.                                                     *)
LEMMA StartPlain ==
    ASSUME BusInv, ~misused, NEW steps, NEW a, Start(steps, a), Plain(steps), a.f = "nothing",
           UNCHANGED chip_select_asserted, misused' \in BOOLEAN
    PROVE  BusInv'
<1>1. Plain(todo) /\ Plain(todo') /\ arg'.f = "nothing"
  BY NothingLeft DEF Start, Call
<1> QED
  BY <1>1, QuietStep DEF Start

LEMMA ReadDataStep ==
    ASSUME BusInv, ~misused, NEW block, NEW offset, NEW count, readData(block, offset, count)
    PROVE  BusInv'
<1> DEFINE a == [NoArg EXCEPT !.block = block, !.offset = offset, !.count = count]
<1>1. a.f = "nothing"
  BY DEF NoArg
<1>2. UNCHANGED chip_select_asserted /\ misused' \in BOOLEAN
  BY DEF readData
<1>3. \/ Start(Fail, a)
      \/ Start(<<"take", "readEndIfDone">>, a)
      \/ Start(Command \o <<"start", "take", "readEndIfDone">>, a)
  <2>1. CASE offset + count > BlockSize
    BY <2>1 DEF readData
  <2>2. CASE ~(offset + count > BlockSize)
    BY <2>2 DEF readData
  <2> QED
    BY <2>1, <2>2
<1> HIDE DEF a
<1> QED
  BY <1>1, <1>2, <1>3, DriverLists, StartPlain

LEMMA OtherCallStep ==
    ASSUME BusInv, ~misused, otherCall
    PROVE  BusInv'
<1>1. NoArg.f = "nothing"
  BY DEF NoArg
<1>2. PICK steps \in {Command \o <<"data", "wait">> \o Command \o Done, Fail,
                     Register \o Command \o Command \o Command \o <<"wait">> \o Done, Register,
                     <<"readEnd", "setPartial">>} :
         Start(steps, NoArg) /\ misused' = (misused \/ stream = "open" \/ (steps = Fail /\ inBlock_))
  BY DEF otherCall
<1>3. Plain(steps)
  BY <1>2, DriverLists
<1>4. UNCHANGED chip_select_asserted /\ misused' \in BOOLEAN
  BY <1>2 DEF otherCall, cardVars
<1> QED
  BY <1>1, <1>2, <1>3, <1>4, StartPlain

LEMMA WriteStartStep ==
    ASSUME BusInv, ~misused, writeStart
    PROVE  BusInv'
<1>1. NoArg.f = "nothing"
  BY DEF NoArg
<1>2. PICK steps \in {Acmd \o Command \o <<"opened">>, Fail} :
         Start(steps, NoArg) /\ misused' = (misused \/ stream = "open" \/ (steps = Fail /\ inBlock_))
  BY DEF writeStart
<1>3. Plain(steps)
  BY <1>2, DriverLists
<1>4. UNCHANGED chip_select_asserted /\ misused' \in BOOLEAN
  BY <1>2 DEF writeStart, cardVars
<1> QED
  BY <1>1, <1>2, <1>3, <1>4, StartPlain

LEMMA GoOnStep ==
    ASSUME BusInv, ~misused, writeData \/ writeStop
    PROVE  BusInv'
<1>1. NoArg.f = "nothing"
  BY DEF NoArg
<1>2. UNCHANGED chip_select_asserted /\ misused' \in BOOLEAN
  BY DEF writeData, writeStop, GoOn, cardVars
<1>3. \/ Start(<<"wait", "data", "opened">>, NoArg)
      \/ Start(<<"wait", "transfer", "wait">> \o Done, NoArg)
  BY DEF writeData, writeStop, GoOn
<1> QED
  BY <1>1, <1>2, <1>3, DriverLists, StartPlain

LEMMA OpenedStep ==
    ASSUME BusInv, ~misused, Opened
    PROVE  BusInv'
<1>1. Plain(todo) /\ Plain(todo') /\ arg.f = "nothing"
  BY DriverMove DEF Opened, Next, CardOps
<1>2. /\ UNCHANGED <<intVars, modeVars, interruptSave, intFunc, depth, wantVars, disturbed>>
      /\ UNCHANGED <<chip_select_asserted, arg, misused>>
  BY DEF Opened, busVars, cardVars
<1>3. misused \in BOOLEAN
  BY DEF BusInv, BusTypes
<1> QED
  BY <1>1, <1>2, <1>3, QuietStep

(* A call that begins a transaction of its own: access() and init().       *)
LEMMA StartBeginning ==
    ASSUME BusInv, ~misused, todo = <<>>, Beginning(todo'), arg' = NoArg,
           UNCHANGED <<intVars, modeVars, interruptSave, intFunc, depth, wantVars, disturbed>>,
           UNCHANGED chip_select_asserted, misused' \in BOOLEAN
    PROVE  BusInv'
<1>1. ~Inside(todo) /\ ~Attaching(todo) /\ ~Detaching(todo)
  BY NothingLeft
<1>2. ~Inside(todo)' /\ ~Attaching(todo)' /\ ~Detaching(todo)' /\ Shaped(todo)'
  BY OneShape DEF Shaped
<1>3. ~AttachHigh(todo)' /\ ~AttachEnable(todo)' /\ ~DetachLow(todo)' /\ ~DetachHigh(todo)'
  BY <1>2 DEF Attaching, Detaching
<1> USE DEF BusInv, intVars, modeVars, wantVars, NoArg
<1>4. BusTypes'
  BY DEF BusTypes, Pointers
<1>5. DepthInv'
  BY <1>1, <1>2 DEF DepthInv
<1>6. MaskInv'
  BY DEF MaskInv
<1>7. PointerInv'
  BY <1>2, <1>3 DEF PointerInv, Registered, Unregistered
<1> QED
  BY <1>2, <1>4, <1>5, <1>6, <1>7

LEMMA InitStep ==
    ASSUME BusInv, ~misused, init
    PROVE  BusInv'
<1>1. Beginning(todo') /\ todo = <<>> /\ arg' = NoArg
  BY InitList DEF init, Start, Call
<1> QED
  BY <1>1, StartBeginning DEF init, Start

LEMMA AccessStep ==
    ASSUME BusInv, ~misused, access, UNCHANGED sdVars
    PROVE  BusInv'
<1>1. Beginning(todo') /\ todo = <<>> /\ arg' = NoArg
  BY AccessList DEF access, Call
<1>2. UNCHANGED <<chip_select_asserted, misused>> /\ misused \in BOOLEAN
  BY DEF access, sdVars, cardVars, BusInv, BusTypes
<1> QED
  BY <1>1, <1>2, StartBeginning DEF access

------------------------------------------------------------------------------
(***************************************************************************)
(* The steps of the bus and of the interrupt.                              *)
(***************************************************************************)
(* What the library is told between two calls: nothing is open then, or    *)
(* the sketch should not have done it.                                     *)
LEMMA SettingStep ==
    ASSUME BusInv, ~misused, todo = <<>>,
           interruptMode' \in 0 .. 2, interruptMask' \in BOOLEAN,
           Change(interruptMode', interruptMask', intFunc.low),
           UNCHANGED <<intVars, interruptSave, intFunc, todo, arg, depth, wantVars, disturbed>>,
           UNCHANGED chip_select_asserted
    PROVE  BusInv'
<1>1. /\ arg.f = "nothing"
      /\ ~Inside(todo) /\ ~Attaching(todo) /\ ~Detaching(todo)
  BY NothingLeft
<1>2. todo' = todo
  OBVIOUS
<1>3. Shaped(todo)' /\ ~Inside(todo)' /\ ~Attaching(todo)' /\ ~Detaching(todo)'
  BY <1>1, <1>2, DriverLists DEF Shaped
<1>4. ~AttachHigh(todo)' /\ ~AttachEnable(todo)' /\ ~DetachLow(todo)' /\ ~DetachHigh(todo)'
  BY <1>3 DEF Attaching, Detaching
<1> USE DEF BusInv, intVars, wantVars, Change
<1>5. BusTypes'
  BY DEF BusTypes, Pointers
<1>6. ASSUME ~misused' PROVE Shaped(todo)' /\ DepthInv' /\ MaskInv' /\ PointerInv'
  <2>0. ~(depth > 0) /\ ~Unregistered(interruptMode', interruptMask', intFunc.low)
    BY <1>6, Zenon
  <2>1. depth = 0 /\ ~Unregistered(interruptMode', interruptMask', intFunc.low)
    BY <2>0 DEF BusTypes
  <2>2. DepthInv'
    BY <1>1, <1>3 DEF DepthInv
  <2>3. MaskInv'
    BY <2>1 DEF MaskInv
  <2>4. PointerInv'
    BY <1>1, <1>3, <1>4, <2>1 DEF PointerInv, Registered, Unregistered
  <2> QED
    BY <1>3, <2>2, <2>3, <2>4
<1> QED
  BY <1>5, <1>6

LEMMA SettingsStep ==
    ASSUME BusInv, ~misused, usingInterrupt \/ notUsingInterrupt \/ end, UNCHANGED sdVars
    PROVE  BusInv'
<1>1. interruptMode \in 0 .. 2 /\ interruptMask \in BOOLEAN
  BY DEF BusInv, BusTypes
<1>2. UNCHANGED chip_select_asserted
  BY DEF sdVars, cardVars
<1>3. CASE usingInterrupt
  <2>1. interruptMode' \in 0 .. 2 /\ interruptMask' \in BOOLEAN
    <3>1. interruptMode' \in 0 .. 2
      BY <1>1, <1>3 DEF usingInterrupt
    <3>2. interruptMask' \in BOOLEAN
      BY <1>1, <1>3, Zenon DEF usingInterrupt
    <3> QED
      BY <3>1, <3>2
  <2>2. /\ todo = <<>> /\ Change(interruptMode', interruptMask', intFunc.low)
        /\ UNCHANGED <<intVars, interruptSave, intFunc, todo, arg, depth, wantVars, disturbed>>
    BY <1>3 DEF usingInterrupt
  <2> QED
    BY <1>2, <2>1, <2>2, SettingStep
<1>4. CASE notUsingInterrupt
  <2>1. interruptMode' = 0 /\ interruptMask' = FALSE
    BY <1>4 DEF notUsingInterrupt
  <2>2. /\ todo = <<>> /\ Change(interruptMode', interruptMask', intFunc.low)
        /\ UNCHANGED <<intVars, interruptSave, intFunc, todo, arg, depth, wantVars, disturbed>>
    BY <1>4, <2>1 DEF notUsingInterrupt
  <2>3. interruptMode' \in 0 .. 2 /\ interruptMask' \in BOOLEAN
    <3>1. interruptMode' \in 0 .. 2
      BY <2>1
    <3>2. interruptMask' \in BOOLEAN
      BY <2>1, Zenon
    <3> QED
      BY <3>1, <3>2
  <2> QED
    BY <1>2, <2>2, <2>3, SettingStep
<1>5. CASE end
  <2>1. interruptMode' \in 0 .. 2 /\ interruptMask' = interruptMask
    BY <1>1, <1>5 DEF end
  <2>2. /\ todo = <<>> /\ Change(interruptMode', interruptMask', intFunc.low)
        /\ UNCHANGED <<intVars, interruptSave, intFunc, todo, arg, depth, wantVars, disturbed>>
    BY <1>5, <2>1 DEF end
  <2> QED
    BY <1>1, <1>2, <2>1, <2>2, SettingStep
<1> QED
  BY <1>3, <1>4, <1>5

LEMMA InterruptsStep ==
    ASSUME BusInv, ~misused, interrupts, UNCHANGED sdVars
    PROVE  BusInv'
<1>1. /\ arg.f = "nothing"
      /\ ~Inside(todo) /\ ~Attaching(todo) /\ ~Detaching(todo)
  BY NothingLeft DEF interrupts
<1>2. todo' = todo
  BY DEF interrupts
<1>3. Shaped(todo)' /\ ~Inside(todo)' /\ ~Attaching(todo)' /\ ~Detaching(todo)'
  BY <1>1, <1>2, DriverLists DEF Shaped, interrupts
<1>4. ~AttachHigh(todo)' /\ ~AttachEnable(todo)' /\ ~DetachLow(todo)' /\ ~DetachHigh(todo)'
  BY <1>3 DEF Attaching, Detaching
<1> USE DEF BusInv, interrupts, sdVars, cardVars, modeVars
<1>5. BusTypes'
  <2>1. I' \in BOOLEAN /\ wantI' \in BOOLEAN /\ misused' \in BOOLEAN
    BY DEF BusTypes
  <2> QED
    BY <2>1 DEF BusTypes, Pointers
<1>6. ASSUME ~misused' PROVE DepthInv' /\ MaskInv' /\ PointerInv'
  <2>0. ~(depth > 0) /\ depth' = depth
    BY <1>6, Zenon
  <2>1. depth = 0 /\ depth' = 0
    BY <2>0 DEF BusTypes
  <2>2. DepthInv'
    BY <1>1, <1>3 DEF DepthInv
  <2>3. MaskInv'
    BY <2>1 DEF MaskInv
  <2>4. PointerInv'
    BY <1>1, <1>3, <1>4 DEF PointerInv, Registered, Unregistered
  <2> QED
    BY <2>2, <2>3, <2>4
<1> QED
  BY <1>3, <1>5, <1>6

(* A handler that uses the bus finds no transaction open, since it is      *)
(* masked in each: what it saves is nobody's.                              *)
LEMMA HandlerStep ==
    ASSUME BusInv, ~misused, INT0_vect, UNCHANGED sdVars
    PROVE  BusInv'
<1> USE DEF BusInv, INT0_vect, sdVars, cardVars, modeVars, intVars, wantVars
<1>1. intFunc.low = "bus" => depth = 0
  BY DEF BusTypes, DepthInv, MaskInv, PointerInv, Registered, Unregistered
<1>2. disturbed' = FALSE
  <2>1. disturbed = FALSE /\ depth \in Nat
    BY DEF MaskInv, BusTypes
  <2>2. intFunc.low = "bus" => ~(depth > 0)
    BY <1>1
  <2>3. CASE intFunc.low = "bus"
    BY <2>1, <2>2, <2>3, Zenon
  <2>4. CASE intFunc.low # "bus"
    BY <2>1, <2>4
  <2> QED
    BY <2>3, <2>4
<1>3. todo' = todo /\ misused' = misused
  OBVIOUS
<1>4. BusTypes'
  <2>1. interruptSave' \in BOOLEAN
    BY DEF BusTypes
  <2> QED
    BY <1>2, <2>1 DEF BusTypes, Pointers
<1>5. Shaped(todo)' /\ DepthInv'
  <2>1. /\ Shaped(todo)' <=> Shaped(todo)
        /\ Inside(todo)' <=> Inside(todo)
        /\ Attaching(todo)' <=> Attaching(todo)
        /\ Detaching(todo)' <=> Detaching(todo)
    BY <1>3 DEF Shaped, Inside, Beginning, Attaching, Detaching, Transferring, Ending,
                AttachLow, AttachHigh, AttachEnable, DetachDisable, DetachLow, DetachHigh, Leads, Plain
  <2>2. depth' = depth /\ chip_select_asserted' = chip_select_asserted
    OBVIOUS
  <2> QED
    BY <2>1, <2>2 DEF DepthInv
<1>6. MaskInv'
  BY <1>1, <1>2 DEF MaskInv
<1>7. PointerInv'
  BY <1>3 DEF PointerInv, Registered, Unregistered, Attaching, Detaching,
              AttachLow, AttachHigh, AttachEnable, DetachDisable, DetachLow, DetachHigh, Leads
<1> QED
  BY <1>4, <1>5, <1>6, <1>7

(* The bus is taken and given back around a transfer.                      *)
LEMMA TransactionStep ==
    ASSUME BusInv, ~misused, Transaction, UNCHANGED sdVars
    PROVE  BusInv'
<1> USE DEF BusInv, modeVars, intVars, wantVars, sdVars, cardVars
<1>1. /\ UNCHANGED <<interruptMode, interruptMask, intFunc, arg, wantEIMSK, wantI, disturbed>>
      /\ chip_select_asserted' = chip_select_asserted /\ todo # <<>> /\ todo' = Tail(todo)
  BY DEF Transaction, Next
<1>2. ASSUME Shaped(todo'), ~Attaching(todo) /\ ~Detaching(todo),
             ~Attaching(todo') /\ ~Detaching(todo')
      PROVE  Shaped(todo)' /\ PointerInv'
  <2>1. ~AttachHigh(todo') /\ ~AttachEnable(todo') /\ ~DetachLow(todo') /\ ~DetachHigh(todo')
    BY <1>2 DEF Attaching, Detaching
  <2> QED
    BY <1>1, <1>2, <2>1 DEF PointerInv, Registered, Unregistered
<1>3. CASE Next("begin") /\ beginTransaction
  <2>1. Beginning(todo) /\ Transferring(todo')
    BY <1>3, OtherShapes DEF Next
  <2>2. /\ ~Inside(todo) /\ ~Attaching(todo) /\ ~Detaching(todo) /\ Shaped(todo')
        /\ Inside(todo') /\ ~Attaching(todo') /\ ~Detaching(todo')
    BY <2>1, OneShape DEF Inside, Shaped
  <2>3. Shaped(todo)' /\ PointerInv'
    BY <1>2, <2>2
  <2>4. BusTypes'
    <3>1. interruptSave' \in BOOLEAN
      BY <1>3 DEF beginTransaction, Save, BusTypes
    <3>2. EIMSK' \in BOOLEAN /\ I' \in BOOLEAN /\ misused' \in BOOLEAN
      BY <1>3 DEF beginTransaction
    <3>3. depth' \in Nat
      BY <1>3 DEF beginTransaction, BusTypes
    <3> QED
      BY <1>1, <3>1, <3>2, <3>3 DEF BusTypes, Pointers
  <2>5. ASSUME ~misused' PROVE DepthInv' /\ MaskInv'
    <3>1. ~(depth > 0)
      BY <1>3, <2>5, Zenon DEF beginTransaction
    <3>2. depth = 0 /\ ~chip_select_asserted
      BY <2>2, <3>1 DEF BusTypes, DepthInv
    <3>3. depth' = 1
      BY <1>3, <3>2 DEF beginTransaction
    <3>4. DepthInv'
      BY <1>1, <2>2, <3>2, <3>3 DEF DepthInv
    <3>5. MaskInv'
      BY <1>1, <1>3, <3>2, <3>3 DEF MaskInv, beginTransaction, Save, Masked, BusTypes
    <3> QED
      BY <3>4, <3>5
  <2> QED
    BY <2>3, <2>4, <2>5
<1>4. CASE Next("end") /\ endTransaction
  <2>1. Ending(todo) /\ Plain(todo')
    BY <1>4, OtherShapes DEF Next
  <2>2. /\ Inside(todo) /\ ~Attaching(todo) /\ ~Detaching(todo) /\ Shaped(todo')
        /\ ~Inside(todo') /\ ~Attaching(todo') /\ ~Detaching(todo')
    BY <2>1, OneShape, PlainNot DEF Inside, Shaped
  <2>3. Shaped(todo)' /\ PointerInv'
    BY <1>2, <2>2
  <2>4. depth = 1 /\ ~chip_select_asserted /\ depth' = 0
    BY <1>4, <2>2 DEF DepthInv, endTransaction
  <2>5. BusTypes'
    <3>1. EIMSK' \in BOOLEAN /\ I' \in BOOLEAN
      BY <1>4 DEF endTransaction, Restore, BusTypes
    <3>2. interruptSave' = interruptSave /\ misused' = misused
      BY <1>4 DEF endTransaction
    <3> QED
      BY <1>1, <2>4, <3>1, <3>2 DEF BusTypes, Pointers
  <2>6. DepthInv'
    BY <1>1, <2>2, <2>4 DEF DepthInv
  <2>7. MaskInv'
    BY <1>1, <1>4, <2>4 DEF MaskInv, endTransaction, Restore, BusTypes
  <2> QED
    BY <2>3, <2>5, <2>6, <2>7
<1>5. CASE Next("transfer") /\ UNCHANGED <<intVars, interruptSave, depth, misused>>
  <2>1. \/ Transferring(todo) /\ Ending(todo')
        \/ Plain(todo) /\ Plain(todo')
    BY <1>5, OtherShapes DEF Next
  <2>2. /\ Inside(todo') = Inside(todo) /\ ~Attaching(todo) /\ ~Detaching(todo)
        /\ Shaped(todo') /\ ~Attaching(todo') /\ ~Detaching(todo')
    <3>1. CASE Transferring(todo) /\ Ending(todo')
      BY <3>1, OneShape DEF Inside, Shaped
    <3>2. CASE Plain(todo) /\ Plain(todo')
      <4>1. ~Inside(todo) /\ ~Inside(todo') /\ ~Attaching(todo) /\ ~Attaching(todo')
        BY <3>2, PlainNot
      <4>2. ~Detaching(todo) /\ ~Detaching(todo') /\ Shaped(todo')
        BY <3>2, PlainNot DEF Shaped
      <4> QED
        BY <4>1, <4>2 DEF Inside, Transferring, Ending, Leads
    <3> QED
      BY <2>1, <3>1, <3>2
  <2>3. Shaped(todo)' /\ PointerInv'
    BY <1>2, <2>2
  <2>4. BusTypes'
    BY <1>1, <1>5 DEF BusTypes, Pointers
  <2>5. DepthInv'
    BY <1>1, <1>5, <2>2 DEF DepthInv
  <2>6. MaskInv'
    BY <1>1, <1>5 DEF MaskInv
  <2> QED
    BY <2>3, <2>4, <2>5, <2>6
<1> QED
  BY <1>3, <1>4, <1>5 DEF Transaction

(* attachInterrupt() and detachInterrupt() start: nothing is open, nothing *)
(* is attached, and the function is one that transactions mask.            *)
LEMMA AttachStep ==
    ASSUME BusInv, ~misused, attachInterrupt, UNCHANGED sdVars
    PROVE  BusInv'
<1> DEFINE steps == <<"storeLow", "storeHigh", "enable">>
<1>1. PICK f \in Functions :
         /\ todo = <<>> /\ todo' = steps /\ arg' = [NoArg EXCEPT !.f = f]
         /\ misused' = (misused \/ depth > 0 \/ intFunc # Whole("nothing") \/ Unregistered(interruptMode, interruptMask, f))
         /\ UNCHANGED <<intVars, modeVars, interruptSave, intFunc, depth, wantVars, disturbed>>
  BY DEF attachInterrupt, Call
<1>2. ~Inside(todo) /\ ~Attaching(todo) /\ ~Detaching(todo)
  BY <1>1, NothingLeft
<1>3. AttachLow(todo')
  BY <1>1, AttachLists
<1> HIDE DEF steps
<1>4. /\ Attaching(todo') /\ Shaped(todo') /\ ~Inside(todo')
      /\ ~AttachHigh(todo') /\ ~AttachEnable(todo') /\ ~Detaching(todo')
  BY <1>3, OneShape DEF Attaching, Shaped
<1>5. ~DetachLow(todo') /\ ~DetachHigh(todo')
  BY <1>4 DEF Detaching
<1>6. arg'.f = f /\ chip_select_asserted' = chip_select_asserted
  BY <1>1 DEF NoArg, sdVars, cardVars
<1> USE DEF BusInv, intVars, modeVars, wantVars
<1>7. BusTypes'
  BY <1>1, <1>6 DEF BusTypes, Pointers
<1>8. ASSUME ~misused' PROVE DepthInv' /\ MaskInv' /\ PointerInv'
  <2>1. ~(depth > 0) /\ intFunc = Whole("nothing") /\ Registered(f)
    BY <1>1, <1>8, Zenon DEF Registered
  <2>2. depth = 0 /\ ~chip_select_asserted
    BY <1>2, <2>1 DEF BusTypes, DepthInv
  <2>3. DepthInv'
    BY <1>1, <1>4, <1>6, <2>2 DEF DepthInv
  <2>4. MaskInv'
    BY <1>1 DEF MaskInv
  <2>5. intFunc'.low = "nothing" /\ ~wantEIMSK'
    BY <1>1, <2>1 DEF PointerInv, Whole, Functions
  <2>6. PointerInv'
    BY <1>1, <1>4, <1>5, <1>6, <2>1, <2>5 DEF PointerInv, Registered, Unregistered
  <2> QED
    BY <2>3, <2>4, <2>6
<1> QED
  BY <1>4, <1>7, <1>8

LEMMA DetachStep ==
    ASSUME BusInv, ~misused, detachInterrupt, UNCHANGED sdVars
    PROVE  BusInv'
<1>1. ~Inside(todo) /\ ~Attaching(todo) /\ ~Detaching(todo)
  BY NothingLeft DEF detachInterrupt, Call
<1>2. DetachDisable(todo')
  BY AttachLists DEF detachInterrupt, DetachSteps, Call
<1>3. /\ Detaching(todo') /\ Shaped(todo') /\ ~Inside(todo') /\ ~Attaching(todo')
      /\ ~DetachLow(todo') /\ ~DetachHigh(todo')
  BY <1>2, OneShape DEF Detaching, Shaped, DetachDisable, DetachLow, DetachHigh, Leads
<1>4. ~AttachHigh(todo') /\ ~AttachEnable(todo')
  BY <1>3 DEF Attaching
<1> USE DEF BusInv, intVars, modeVars, wantVars, sdVars, cardVars
<1>5. /\ UNCHANGED <<intVars, modeVars, interruptSave, intFunc, depth, wantVars, disturbed>>
      /\ arg'.f = "nothing" /\ misused' = (misused \/ depth > 0)
      /\ chip_select_asserted' = chip_select_asserted
  BY DEF detachInterrupt, Call, NoArg
<1>6. BusTypes'
  BY <1>5 DEF BusTypes, Pointers
<1>7. ASSUME ~misused' PROVE DepthInv' /\ MaskInv' /\ PointerInv'
  <2>1. ~(depth > 0)
    BY <1>5, <1>7, Zenon
  <2>2. depth = 0 /\ ~chip_select_asserted
    BY <1>1, <2>1 DEF BusTypes, DepthInv
  <2>3. DepthInv'
    BY <1>3, <1>5, <2>2 DEF DepthInv
  <2>4. MaskInv'
    BY <1>5 DEF MaskInv
  <2>5. PointerInv'
    BY <1>3, <1>4, <1>5 DEF PointerInv, Registered, Unregistered
  <2> QED
    BY <2>3, <2>4, <2>5
<1> QED
  BY <1>3, <1>6, <1>7

(* One byte of the pointer is stored while INT0 is disabled.               *)
LEMMA StoreStep ==
    ASSUME BusInv, ~misused, Store, UNCHANGED sdVars
    PROVE  BusInv'
<1> USE DEF BusInv, intVars, modeVars, wantVars, sdVars, cardVars
<1>1. /\ UNCHANGED <<EIMSK, I, interruptMode, interruptMask, interruptSave, depth, wantEIMSK, wantI>>
      /\ UNCHANGED <<disturbed, misused, chip_select_asserted>>
      /\ todo # <<>> /\ todo' = Tail(todo) /\ arg' = IF todo' = <<>> THEN NoArg ELSE arg
  BY DEF Store, Next
<1>2. arg'.f \in Pointers /\ intFunc' \in [low : Pointers, high : Pointers]
  <2>1. arg.f \in Pointers /\ intFunc \in [low : Pointers, high : Pointers]
    BY DEF BusTypes
  <2>2. arg'.f \in Pointers
    BY <1>1, <2>1 DEF NoArg, Pointers
  <2> QED
    BY <2>1, <2>2 DEF Store
<1>3. BusTypes' /\ MaskInv'
  BY <1>1, <1>2 DEF BusTypes, MaskInv
<1>4. CASE Next("storeLow") /\ intFunc' = [intFunc EXCEPT !.low = arg.f]
  <2>1. \/ AttachLow(todo) /\ AttachHigh(todo')
        \/ DetachLow(todo) /\ DetachHigh(todo')
    BY <1>4, OtherShapes DEF Next
  <2>2. todo' # <<>> /\ arg' = arg
    BY <1>1, <2>1 DEF AttachHigh, DetachHigh, Leads
  <2>3. intFunc'.low = arg.f
    BY <1>4 DEF BusTypes
  <2>4. CASE AttachLow(todo) /\ AttachHigh(todo')
    <3>1. /\ Attaching(todo) /\ Attaching(todo') /\ Shaped(todo') /\ ~Inside(todo') /\ ~Inside(todo)
          /\ ~AttachEnable(todo') /\ ~Detaching(todo')
      BY <2>4, OneShape DEF Attaching, Shaped
    <3>2. ~DetachLow(todo') /\ ~DetachHigh(todo')
      BY <3>1 DEF Detaching
    <3>3. DepthInv'
      BY <1>1, <3>1 DEF DepthInv
    <3>4. PointerInv'
      BY <1>1, <2>2, <2>3, <3>1, <3>2 DEF PointerInv, Registered, Unregistered
    <3> QED
      BY <1>3, <3>1, <3>3, <3>4
  <2>5. CASE DetachLow(todo) /\ DetachHigh(todo')
    <3>1. /\ Detaching(todo) /\ Detaching(todo') /\ Shaped(todo')
          /\ ~Inside(todo') /\ ~Inside(todo) /\ ~Attaching(todo') /\ ~Attaching(todo)
      BY <2>5, OneShape DEF Detaching, Shaped
    <3>2. ~AttachHigh(todo') /\ ~AttachEnable(todo')
      BY <3>1 DEF Attaching
    <3>3. DepthInv'
      BY <1>1, <3>1 DEF DepthInv
    <3>4. PointerInv'
      BY <1>1, <2>2, <2>3, <2>5, <3>1, <3>2 DEF PointerInv, Registered, Unregistered
    <3> QED
      BY <1>3, <3>1, <3>3, <3>4
  <2> QED
    BY <2>1, <2>4, <2>5
<1>5. CASE Next("storeHigh") /\ intFunc' = [intFunc EXCEPT !.high = arg.f]
  <2>1. \/ AttachHigh(todo) /\ AttachEnable(todo')
        \/ DetachHigh(todo) /\ todo' = <<>>
    BY <1>5, OtherShapes DEF Next
  <2>2. intFunc'.high = arg.f /\ intFunc'.low = intFunc.low
    BY <1>5 DEF BusTypes
  <2>3. CASE AttachHigh(todo) /\ AttachEnable(todo')
    <3>1. /\ Attaching(todo) /\ Attaching(todo') /\ Shaped(todo') /\ ~Inside(todo') /\ ~Inside(todo)
          /\ ~AttachHigh(todo') /\ ~Detaching(todo')
      BY <2>3, OneShape DEF Attaching, Shaped
    <3>2. ~DetachLow(todo') /\ ~DetachHigh(todo')
      BY <3>1 DEF Detaching
    <3>3. arg' = arg
      BY <1>1, <2>3 DEF AttachEnable, Leads
    <3>4. DepthInv'
      BY <1>1, <3>1 DEF DepthInv
    <3>5. PointerInv'
      BY <1>1, <2>2, <2>3, <3>1, <3>2, <3>3 DEF PointerInv, Registered, Unregistered
    <3> QED
      BY <1>3, <3>1, <3>4, <3>5
  <2>4. CASE DetachHigh(todo) /\ todo' = <<>>
    <3>1. Plain(todo') /\ Shaped(todo')
      BY <2>4, DriverLists DEF Shaped
    <3>2. /\ Detaching(todo) /\ ~Detaching(todo') /\ ~Inside(todo') /\ ~Inside(todo)
          /\ ~Attaching(todo') /\ ~Attaching(todo)
      BY <2>4, <3>1, OneShape, PlainNot DEF Detaching
    <3>3. ~AttachHigh(todo') /\ ~AttachEnable(todo') /\ ~DetachLow(todo') /\ ~DetachHigh(todo')
      BY <3>2 DEF Attaching, Detaching
    <3>4. arg'.f = "nothing"
      BY <1>1, <2>4 DEF NoArg
    <3>5. DepthInv'
      BY <1>1, <3>2 DEF DepthInv
    <3>6. PointerInv'
      BY <1>1, <2>2, <2>4, <3>2, <3>3, <3>4 DEF PointerInv, Registered, Unregistered
    <3> QED
      BY <1>3, <3>1, <3>5, <3>6
  <2> QED
    BY <2>1, <2>3, <2>4
<1> QED
  BY <1>4, <1>5 DEF Store

(* INT0 is enabled when its pointer is whole, and disabled before it is    *)
(* not.                                                                    *)
LEMMA SetINT0Step ==
    ASSUME BusInv, ~misused, SetINT0, UNCHANGED sdVars
    PROVE  BusInv'
<1> USE DEF BusInv, intVars, modeVars, wantVars, sdVars, cardVars
<1>1. /\ UNCHANGED <<I, interruptMode, interruptMask, interruptSave, intFunc, depth, wantI>>
      /\ UNCHANGED <<disturbed, misused, chip_select_asserted>>
      /\ wantEIMSK' = EIMSK' /\ EIMSK' \in BOOLEAN
      /\ todo # <<>> /\ todo' = Tail(todo) /\ arg' = IF todo' = <<>> THEN NoArg ELSE arg
  BY DEF SetINT0, Next
<1>2. BusTypes'
  <2>1. arg'.f \in Pointers
    BY <1>1 DEF NoArg, Pointers, BusTypes
  <2> QED
    BY <1>1, <2>1 DEF BusTypes
<1>3. CASE Next("enable") /\ EIMSK' = TRUE
  <2>1. AttachEnable(todo) /\ todo' = <<>>
    BY <1>3, OtherShapes DEF Next
  <2>2. Plain(todo') /\ Shaped(todo')
    BY <2>1, DriverLists DEF Shaped
  <2>3. /\ Attaching(todo) /\ ~Detaching(todo') /\ ~Inside(todo') /\ ~Inside(todo) /\ ~Attaching(todo')
    BY <2>1, <2>2, OneShape, PlainNot DEF Attaching
  <2>4. ~AttachHigh(todo') /\ ~AttachEnable(todo') /\ ~DetachLow(todo') /\ ~DetachHigh(todo')
    BY <2>3 DEF Attaching, Detaching
  <2>5. arg'.f = "nothing" /\ depth = 0
    BY <1>1, <2>1, <2>3 DEF NoArg, DepthInv
  <2>6. DepthInv'
    BY <1>1, <2>3 DEF DepthInv
  <2>7. MaskInv'
    BY <1>1, <2>5 DEF MaskInv
  <2>8. PointerInv'
    BY <1>1, <2>1, <2>3, <2>4, <2>5 DEF PointerInv, Registered, Unregistered
  <2> QED
    BY <1>2, <2>2, <2>6, <2>7, <2>8
<1>4. CASE Next("disable") /\ EIMSK' = FALSE
  <2>1. DetachDisable(todo) /\ DetachLow(todo')
    BY <1>4, OtherShapes DEF Next
  <2>2. /\ Detaching(todo) /\ Detaching(todo') /\ Shaped(todo')
        /\ ~Inside(todo') /\ ~Inside(todo) /\ ~Attaching(todo') /\ ~Attaching(todo)
    BY <2>1, OneShape DEF Detaching, Shaped
  <2>3. ~AttachHigh(todo') /\ ~AttachEnable(todo')
    BY <2>2 DEF Attaching
  <2>4. arg'.f = "nothing" /\ depth = 0
    BY <1>1, <2>2 DEF NoArg, DepthInv, PointerInv
  <2>5. DepthInv'
    BY <1>1, <2>2 DEF DepthInv
  <2>6. MaskInv'
    BY <1>1, <2>4 DEF MaskInv
  <2>7. PointerInv'
    BY <1>1, <1>4, <2>2, <2>3, <2>4 DEF PointerInv, Registered, Unregistered
  <2> QED
    BY <1>2, <2>2, <2>5, <2>6, <2>7
<1> QED
  BY <1>3, <1>4 DEF SetINT0

(* What the invariant does not speak of may change: a further begin().     *)
LEMMA StutterStep ==
    ASSUME BusInv,
           UNCHANGED <<intVars, interruptMode, interruptMask, interruptSave, intFunc, todo, arg, depth>>,
           UNCHANGED <<wantVars, disturbed, misused, chip_select_asserted>>
    PROVE  BusInv'
<1> USE DEF BusInv, intVars, wantVars
<1>1. todo' = todo
  OBVIOUS
<1>2. /\ Shaped(todo)' <=> Shaped(todo)
      /\ Inside(todo)' <=> Inside(todo)
      /\ Attaching(todo)' <=> Attaching(todo)
      /\ Detaching(todo)' <=> Detaching(todo)
      /\ AttachHigh(todo)' <=> AttachHigh(todo)
      /\ AttachEnable(todo)' <=> AttachEnable(todo)
      /\ DetachLow(todo)' <=> DetachLow(todo)
      /\ DetachHigh(todo)' <=> DetachHigh(todo)
  BY <1>1 DEF Shaped, Inside, Beginning, Attaching, Detaching, Transferring, Ending,
              AttachLow, AttachHigh, AttachEnable, DetachDisable, DetachLow, DetachHigh, Leads, Plain
<1>3. BusTypes'
  BY DEF BusTypes, Pointers
<1>4. DepthInv => DepthInv'
  BY <1>2 DEF DepthInv
<1>5. MaskInv => MaskInv'
  BY DEF MaskInv
<1>6. PointerInv => PointerInv'
  BY <1>2 DEF PointerInv, Registered, Unregistered
<1> QED
  BY <1>2, <1>3, <1>4, <1>5, <1>6

LEMMA BusStep ==
    ASSUME BusInv, [~misused /\ SdCardNext]_busCardVars
    PROVE  BusInv'
<1>1. CASE UNCHANGED busCardVars
  BY <1>1, StutterStep DEF busCardVars, spiVars, sdVars, cardVars, modeVars
<1>2. CASE ~misused /\ (readEnd \/ ChipSelect \/ Exchange \/ StartBlock)
  BY <1>2, ReadEndStep, ChipSelectStep, ExchangeStep, StartBlockStep
<1>3. CASE ~misused /\ (StartRegister \/ Take \/ SetPartial \/ Opened)
  BY <1>3, StartRegisterStep, TakeStep, SetPartialStep, OpenedStep
<1>4. CASE ~misused /\ \E block \in Blocks, offset, count \in 0 .. BlockSize :
                           count > 0 /\ readData(block, offset, count)
  BY <1>4, ReadDataStep
<1>5. CASE ~misused /\ (otherCall \/ writeStart \/ writeData \/ writeStop \/ init)
  BY <1>5, OtherCallStep, WriteStartStep, GoOnStep, InitStep
<1>6. ASSUME ~misused, SpiNext, UNCHANGED sdVars PROVE BusInv'
  <2>1. CASE begin
    BY <1>6, <2>1, StutterStep DEF begin, sdVars, cardVars
  <2>2. CASE usingInterrupt \/ notUsingInterrupt \/ end
    BY <1>6, <2>2, SettingsStep
  <2>3. CASE attachInterrupt \/ detachInterrupt
    BY <1>6, <2>3, AttachStep, DetachStep
  <2>4. CASE Store \/ SetINT0 \/ interrupts
    BY <1>6, <2>4, StoreStep, SetINT0Step, InterruptsStep
  <2>5. CASE INT0_vect \/ access \/ Transaction
    BY <1>6, <2>5, HandlerStep, AccessStep, TransactionStep
  <2> QED
    BY <1>6, <2>1, <2>2, <2>3, <2>4, <2>5 DEF SpiNext
<1> QED
  BY <1>1, <1>2, <1>3, <1>4, <1>5, <1>6 DEF SdCardNext

LEMMA BusStart == SdCardInit => BusInv
<1> SUFFICES ASSUME SdCardInit PROVE BusInv
  OBVIOUS
<1> USE DEF SdCardInit, SpiInit
<1>1. /\ Plain(todo) /\ ~Inside(todo) /\ ~Attaching(todo) /\ ~Detaching(todo)
  BY DriverLists, PlainNot
<1>2. /\ ~AttachHigh(todo) /\ ~AttachEnable(todo) /\ ~DetachLow(todo) /\ ~DetachHigh(todo)
  BY <1>1 DEF Attaching, Detaching
<1>3. arg.f = "nothing" /\ intFunc = [low |-> "nothing", high |-> "nothing"]
  BY DEF NoArg, Whole
<1>4. BusTypes
  <2>1. /\ EIMSK \in BOOLEAN /\ I \in BOOLEAN /\ interruptMask \in BOOLEAN /\ interruptSave \in BOOLEAN
        /\ wantEIMSK \in BOOLEAN /\ wantI \in BOOLEAN
        /\ disturbed \in BOOLEAN /\ misused \in BOOLEAN /\ chip_select_asserted \in BOOLEAN
    BY Zenon
  <2>2. interruptMode \in 0 .. 2 /\ depth \in Nat
    OBVIOUS
  <2> QED
    BY <1>3, <2>1, <2>2 DEF BusTypes, Pointers
<1>5. DepthInv /\ MaskInv
  <2>1. ~chip_select_asserted /\ ~disturbed /\ depth = 0
    OBVIOUS
  <2>2. I = wantI /\ EIMSK = wantEIMSK
    BY Zenon
  <2> QED
    BY <1>1, <2>1, <2>2 DEF DepthInv, MaskInv
<1>6. PointerInv
  BY <1>1, <1>2, <1>3 DEF PointerInv, Registered, Unregistered
<1> QED
  BY <1>1, <1>4, <1>5, <1>6 DEF BusInv, Shaped

(* Whatever the card and the other users of the bus do, and wherever INT0  *)
(* comes in it, as long as a sketch keeps to the library's rules: beginning*)
(* and ending transactions leaves the interrupts as the sketch has set     *)
(* them, and no handler uses the bus in someone else's transaction         *)
(* (SPI.h:181-287, Sd2Card.cpp's chipSelectLow() and chipSelectHigh()).    *)
THEOREM InterruptsKept == SdCardSpec => []TransactionsHold
<1>1. BusInv => TransactionsHold
  BY DEF BusInv, TransactionsHold, MaskInv
<1> QED
  BY <1>1, BusStart, BusStep, PTL DEF SdCardSpec

(* Under the same rules INT0 calls a pointer that is whole: it is disabled *)
(* while attachInterrupt() or detachInterrupt() stores the two bytes of it *)
(* (WInterrupts.c:70-111), and no transaction, whose end puts a   *)
(* saved mask back, enables it meanwhile.                                  *)
THEOREM NeverHalfAPointer == SdCardSpec => []CalledWhole
<1>1. BusInv => CalledWhole
  <2> SUFFICES ASSUME BusInv, ~misused, EIMSK, I PROVE intFunc.low = intFunc.high
    BY Zenon DEF CalledWhole
  <2>1. wantEIMSK
    BY DEF BusInv, BusTypes, MaskInv
  <2> QED
    BY <2>1 DEF BusInv, PointerInv
<1> QED
  BY <1>1, BusStart, BusStep, PTL DEF SdCardSpec

------------------------------------------------------------------------------
(***************************************************************************)
(* The card: what is left of a call says who will release it.  A call that *)
(* releases it at the end, or leaves it to the next call of a multiple     *)
(* block write (Releasing), may find it selected or not; the one that opens*)
(* a block does so with its steps (Opening), and hands the card to the     *)
(* block, which keeps it until readEnd().                                  *)
(***************************************************************************)
ReleaseOps ==
    {"readEnd", "low", "high", "command", "wait", "data", "ignored", "startRegister", "transfer", "begin", "end",
     "opened"}

Lasts == {"high", "opened"}

Releasing(s) == s \in Seq(ReleaseOps) /\ s # <<>> /\ s[Len(s)] \in Lasts

Selecting == {<<"readEnd", "low", "command", "start", "take", "readEndIfDone">>,
              <<"low", "command", "start", "take", "readEndIfDone">>}
Asking == {<<"command", "start", "take", "readEndIfDone">>, <<"start", "take", "readEndIfDone">>}
Opening == Selecting \cup Asking
Taking == {<<"take", "readEndIfDone">>}
Finishing == {<<"readEndIfDone">>}

\* calls that leave the card as it is, and partialBlockRead()
Others ==
    {<<>>, <<"readEnd", "setPartial">>, <<"setPartial">>, <<"begin", "transfer", "end">>, <<"transfer", "end">>, <<"end">>}

CallForm(s) ==
    Releasing(s) \/ s \in Opening \cup Taking \cup Finishing \cup Others \/ Attaching(s) \/ Detaching(s)

CardTypes ==
    /\ inBlock_ \in BOOLEAN /\ offset_ \in Nat /\ block_ \in Blocks \cup {0}
    /\ card \in [block : Blocks \cup {0}, pos : Nat]
    /\ arg \in [f : Pointers, block : Blocks \cup {0}, offset : Nat, count : Nat]

\* a block that is open
BlockOpen ==
    inBlock_ =>
        /\ selected /\ card.pos = offset_
        /\ card.block = block_ \/ (todo # <<>> /\ Head(todo) = "readEnd")
        /\ todo # <<>> => Head(todo) \in {"readEnd", "take", "readEndIfDone", "begin"}

BlockShut ==
    ~inBlock_ =>
        /\ card.pos = BlockSize + CrcSize /\ todo \notin Taking \cup Finishing
        /\ selected => (Releasing(todo) \/ todo \in Opening \/ stream = "open")

\* a multiple block write that waits for its next call
StreamOpen ==
    stream = "open" => selected /\ ~inBlock_ /\ (todo # <<>> => Head(todo) = "begin")

ReadFits ==
    /\ todo \in Opening \cup Taking => arg.block = block_
    /\ todo \in Asking => selected
    /\ todo \in Taking => offset_ <= arg.offset

CardFacts ==
    /\ CardTypes /\ selected = chip_select_asserted /\ CallForm(todo)
    /\ BlockOpen /\ BlockShut /\ StreamOpen /\ ReadFits /\ fetched.want = fetched.got

CardInv == ~misused => CardFacts

(* What is left when one that releases goes on.                            *)
LEMMA ReleaseTail ==
    ASSUME NEW s, Releasing(s)
    PROVE  /\ s # <<>> /\ Head(s) \in ReleaseOps
           /\ (Tail(s) = <<>> /\ Head(s) \in Lasts) \/ Releasing(Tail(s))
<1>1. s \in Seq(ReleaseOps) /\ s # <<>> /\ s[Len(s)] \in Lasts /\ Len(s) \in Nat \ {0}
  BY EmptySeq, LenProperties DEF Releasing
<1>2. /\ Head(s) = s[1] /\ Head(s) \in ReleaseOps /\ Tail(s) \in Seq(ReleaseOps) /\ Len(Tail(s)) = Len(s) - 1
      /\ \A i \in 1 .. Len(s) - 1 : Tail(s)[i] = s[i + 1]
  BY <1>1, HeadTailProperties
<1>3. CASE Len(s) = 1
  <2>1. Len(Tail(s)) = 0
    BY <1>2, <1>3
  <2>2. Tail(s) = <<>>
    BY <1>2, <2>1, EmptySeq
  <2>3. Head(s) \in Lasts
    BY <1>1, <1>2, <1>3
  <2> QED
    BY <1>1, <1>2, <2>2, <2>3
<1>4. CASE Len(s) # 1
  <2>1. Len(s) - 1 \in 1 .. Len(s) - 1 /\ Len(s) - 1 + 1 = Len(s)
    <3>1. PICK n \in Nat \ {0} : n = Len(s)
      BY <1>1
    <3>2. n # 1
      BY <1>4, <3>1
    <3>3. n - 1 \in 1 .. n - 1 /\ n - 1 + 1 = n
      BY <3>2
    <3> QED
      BY <3>1, <3>3
  <2>2. Tail(s)[Len(Tail(s))] = s[Len(s)]
    BY <1>2, <2>1
  <2>3. Len(Tail(s)) # 0
    BY <1>2, <2>1
  <2>4. Tail(s)[Len(Tail(s))] \in Lasts /\ Tail(s) # <<>>
    BY <1>1, <2>2, <2>3, EmptySeq, Zenon
  <2> QED
    BY <1>1, <1>2, <2>4 DEF Releasing
<1> QED
  BY <1>3, <1>4

LEMMA ReleaseConcat ==
    ASSUME NEW s \in Seq(ReleaseOps), NEW u, Releasing(u)
    PROVE  Releasing(s \o u)
<1>1. u \in Seq(ReleaseOps) /\ u[Len(u)] \in Lasts /\ Len(u) \in Nat \ {0} /\ Len(s) \in Nat
  BY EmptySeq, LenProperties DEF Releasing
<1>2. /\ s \o u \in Seq(ReleaseOps) /\ Len(s \o u) = Len(s) + Len(u)
      /\ \A i \in 1 .. Len(s) + Len(u) : (s \o u)[i] = IF i <= Len(s) THEN s[i] ELSE u[i - Len(s)]
  BY <1>1, ConcatProperties
<1>3. /\ Len(s) + Len(u) \in 1 .. Len(s) + Len(u) /\ ~(Len(s) + Len(u) <= Len(s))
      /\ Len(s) + Len(u) - Len(s) = Len(u)
  BY <1>1
<1>4. (s \o u)[Len(s \o u)] \in Lasts
  BY <1>1, <1>2, <1>3
<1>5. s \o u # <<>>
  BY <1>1, <1>2, <1>3, EmptySeq
<1> QED
  BY <1>2, <1>4, <1>5 DEF Releasing

\* The calls that release the card; but for one that fails at once, the later calls
\* of a multiple block write and init(), they first end a read.
LEMMA ReleaseLists ==
    /\ Releasing(Fail)
    /\ \A s \in {Command \o <<"data", "wait">> \o Command \o Done,
                 Register \o Command \o Command \o Command \o <<"wait">> \o Done, Register,
                 Acmd \o Command \o <<"opened">>} :
          Releasing(s) /\ Head(s) = "readEnd"
    /\ Releasing(<<"wait", "data", "opened">>) /\ Releasing(<<"wait", "transfer", "wait">> \o Done)
    /\ Releasing(<<"begin", "transfer", "end", "low">> \o Command \o Acmd \o Command \o Done)
<1> DEFINE R == Seq(ReleaseOps)
<1>1. /\ <<"data", "wait">> \in R /\ <<"wait">> \in R /\ <<"wait", "transfer", "wait">> \in R
      /\ <<"begin", "transfer", "end", "low">> \in R /\ <<"startRegister", "transfer", "high">> \in R
      /\ <<"readEnd", "low", "ignored">> \in R /\ <<"opened">> \in R
  BY DEF ReleaseOps
<1>2. Command \in R /\ Command # <<>> /\ Head(Command) = "readEnd"
  BY DEF ReleaseOps, Command
<1>3. Releasing(<<"high">>) /\ Releasing(<<"opened">>) /\ Releasing(<<"wait", "data", "opened">>)
  BY DEF Releasing, ReleaseOps, Lasts
<1>4. Releasing(<<"startRegister", "transfer", "high">>)
  BY DEF Releasing, ReleaseOps, Lasts
<1>5. \A s, u \in R : s \o u \in R
  BY ConcatProperties
<1>6. \A s, u \in R : s # <<>> => (s \o u # <<>> /\ Head(s \o u) = Head(s))
  BY HeadStays
<1>7. \A s \in R : \A u : Releasing(u) => Releasing(s \o u)
  BY ReleaseConcat
<1>8. Releasing(Fail) /\ Releasing(Done) /\ Done \in R
  BY <1>3 DEF Fail, Done, Releasing
<1>9. /\ Acmd \in R /\ Acmd # <<>> /\ Head(Acmd) = "readEnd"
  <2>1. <<"readEnd", "low", "ignored">> # <<>> /\ Head(<<"readEnd", "low", "ignored">>) = "readEnd"
    OBVIOUS
  <2> QED
    BY <1>1, <1>2, <1>5, <1>6, <2>1, Zenon DEF Acmd
<1>10. Register \in R /\ Register # <<>> /\ Head(Register) = "readEnd" /\ Releasing(Register)
  BY <1>1, <1>2, <1>4, <1>5, <1>6, <1>7, Zenon DEF Register
<1> HIDE DEF R
<1>11. ASSUME NEW a \in R, NEW b \in R, a # <<>>, Head(a) = "readEnd"
       PROVE  a \o b \in R /\ a \o b # <<>> /\ Head(a \o b) = "readEnd"
  BY <1>5, <1>6, <1>11, Zenon
<1>12. Releasing(Command \o <<"data", "wait">> \o Command \o Done)
       /\ Head(Command \o <<"data", "wait">> \o Command \o Done) = "readEnd"
  <2>1. Command \o <<"data", "wait">> \in R /\ Command \o <<"data", "wait">> # <<>>
        /\ Head(Command \o <<"data", "wait">>) = "readEnd"
    BY <1>1, <1>2, <1>11, Zenon
  <2>2. Command \o <<"data", "wait">> \o Command \in R /\ Command \o <<"data", "wait">> \o Command # <<>>
        /\ Head(Command \o <<"data", "wait">> \o Command) = "readEnd"
    BY <1>2, <1>11, <2>1, Zenon
  <2> QED
    BY <1>7, <1>8, <1>11, <2>2, Zenon
<1>13. Releasing(Register \o Command \o Command \o Command \o <<"wait">> \o Done)
       /\ Head(Register \o Command \o Command \o Command \o <<"wait">> \o Done) = "readEnd"
  <2>1. Register \o Command \in R /\ Register \o Command # <<>> /\ Head(Register \o Command) = "readEnd"
    BY <1>2, <1>10, <1>11, Zenon
  <2>2. Register \o Command \o Command \in R /\ Register \o Command \o Command # <<>>
        /\ Head(Register \o Command \o Command) = "readEnd"
    BY <1>2, <1>11, <2>1, Zenon
  <2>3. Register \o Command \o Command \o Command \in R /\ Register \o Command \o Command \o Command # <<>>
        /\ Head(Register \o Command \o Command \o Command) = "readEnd"
    BY <1>2, <1>11, <2>2, Zenon
  <2>4. /\ Register \o Command \o Command \o Command \o <<"wait">> \in R
        /\ Register \o Command \o Command \o Command \o <<"wait">> # <<>>
        /\ Head(Register \o Command \o Command \o Command \o <<"wait">>) = "readEnd"
    BY <1>1, <1>11, <2>3, Zenon
  <2> QED
    BY <1>7, <1>8, <1>11, <2>4, Zenon
<1>14. /\ Releasing(Acmd \o Command \o <<"opened">>) /\ Head(Acmd \o Command \o <<"opened">>) = "readEnd"
       /\ Releasing(<<"wait", "transfer", "wait">> \o Done)
  <2>1. Acmd \o Command \in R /\ Acmd \o Command # <<>> /\ Head(Acmd \o Command) = "readEnd"
    BY <1>2, <1>9, <1>11, Zenon
  <2>2. <<"opened">> \in R
    BY <1>1
  <2>3. Releasing(<<"wait", "transfer", "wait">> \o Done)
    BY <1>1, <1>7, <1>8
  <2> QED
    BY <1>3, <1>7, <1>11, <2>1, <2>2, <2>3, Zenon
<1>15. Releasing(<<"begin", "transfer", "end", "low">> \o Command \o Acmd \o Command \o Done)
  <2>1. <<"begin", "transfer", "end", "low">> \o Command \in R
    BY <1>1, <1>2, <1>5, Zenon
  <2>2. <<"begin", "transfer", "end", "low">> \o Command \o Acmd \in R
    BY <1>5, <1>9, <2>1, Zenon
  <2>3. <<"begin", "transfer", "end", "low">> \o Command \o Acmd \o Command \in R
    BY <1>2, <1>5, <2>2, Zenon
  <2> QED
    BY <1>7, <1>8, <2>3, Zenon
<1> QED
  BY <1>3, <1>8, <1>10, <1>12, <1>13, <1>14, <1>15

LEMMA OpenIs ==
    Command \o <<"start", "take", "readEndIfDone">> = <<"readEnd", "low", "command", "start", "take", "readEndIfDone">>
<1> DEFINE b == <<"start", "take", "readEndIfDone">>
           c == <<"readEnd", "low", "command", "start", "take", "readEndIfDone">>
<1>1. /\ Command \in Seq(CardOps) /\ Len(Command) = 3
      /\ Command[1] = "readEnd" /\ Command[2] = "low" /\ Command[3] = "command"
  BY DEF Command, CardOps
<1>2. b \in Seq(CardOps) /\ Len(b) = 3 /\ b[1] = "start" /\ b[2] = "take" /\ b[3] = "readEndIfDone"
  BY DEF CardOps
<1>3. /\ c \in Seq(CardOps) /\ Len(c) = 6 /\ c[1] = "readEnd" /\ c[2] = "low" /\ c[3] = "command"
      /\ c[4] = "start" /\ c[5] = "take" /\ c[6] = "readEndIfDone"
  BY DEF CardOps
<1> HIDE DEF b, c
<1>4. /\ Command \o b \in Seq(CardOps) /\ Len(Command \o b) = Len(Command) + Len(b)
      /\ \A n \in 1 .. Len(Command) + Len(b) :
            (Command \o b)[n] = IF n <= Len(Command) THEN Command[n] ELSE b[n - Len(Command)]
  BY <1>1, <1>2, ConcatProperties
<1>5. Len(Command \o b) = 6 /\ \A n \in 1 .. 6 : (Command \o b)[n] = IF n <= 3 THEN Command[n] ELSE b[n - 3]
  BY <1>1, <1>2, <1>4
<1>6. \A n \in 1 .. 6 : (Command \o b)[n] = c[n]
  BY <1>1, <1>2, <1>3, <1>5
<1>7. Command \o b = c
  BY <1>3, <1>4, <1>5, <1>6, SeqEqual
<1> QED
  BY <1>7 DEF b, c

\* Forms that exclude each other.
LEMMA FormsApart ==
    ASSUME NEW s
    PROVE  /\ Releasing(s) => s \notin Opening \cup Taking \cup Finishing \cup Others
           /\ (Attaching(s) \/ Detaching(s)) => ~Releasing(s) /\ s \notin Opening \cup Taking \cup Finishing
           /\ s \in Others => s \notin Opening \cup Taking \cup Finishing
<1>1. ASSUME Releasing(s) PROVE s \notin Opening \cup Taking \cup Finishing
  <2>1. s[Len(s)] \in {"high", "opened"}
    BY <1>1 DEF Releasing, Lasts
  <2>2. s \notin Selecting
    BY <2>1 DEF Selecting
  <2>3. s \notin Asking
    BY <2>1 DEF Asking
  <2>4. s \notin Taking \cup Finishing
    BY <2>1 DEF Taking, Finishing
  <2> QED
    BY <2>2, <2>3, <2>4 DEF Opening
<1>2. ASSUME Releasing(s) PROVE s \notin Others
  <2>1. s[Len(s)] \in {"high", "opened"} /\ s # <<>>
    BY <1>2 DEF Releasing, Lasts
  <2> QED
    BY <2>1 DEF Others
<1>3. ASSUME Attaching(s) \/ Detaching(s) PROVE s # <<>> /\ Head(s) \in {"storeLow", "storeHigh", "enable", "disable"}
  BY <1>3 DEF Attaching, Detaching, AttachLow, AttachHigh, AttachEnable, DetachDisable, DetachLow, DetachHigh, Leads
<1>4. ASSUME Attaching(s) \/ Detaching(s) PROVE ~Releasing(s)
  <2>1. Releasing(s) => Head(s) \in ReleaseOps
    BY ReleaseTail
  <2> QED
    BY <1>3, <1>4, <2>1 DEF ReleaseOps
<1>5. ASSUME s \in Opening \cup Taking \cup Finishing
      PROVE  Head(s) \in {"readEnd", "low", "command", "start", "take", "readEndIfDone"}
  BY <1>5 DEF Opening, Selecting, Asking, Taking, Finishing
<1>6. ASSUME s \in Others PROVE s \notin Opening \cup Taking \cup Finishing
  BY <1>6 DEF Others, Opening, Selecting, Asking, Taking, Finishing
<1> QED
  BY <1>1, <1>2, <1>3, <1>4, <1>5, <1>6

\* What a step leaves of each form.
LEMMA FormStep ==
    ASSUME NEW s, CallForm(s), s # <<>>
    PROVE  /\ Head(s) = "readEnd" => \/ Releasing(s) /\ Releasing(Tail(s))
                                     \/ s \in Selecting /\ Tail(s) \in Selecting
                                     \/ s \in Others /\ Tail(s) = <<"setPartial">>
           /\ Head(s) = "low" => \/ Releasing(s) /\ Releasing(Tail(s))
                                 \/ s \in Selecting /\ Tail(s) \in Asking
           /\ Head(s) \in Lasts => Releasing(s) /\ (Tail(s) = <<>> \/ Releasing(Tail(s)))
           /\ Head(s) = "command" => \/ Releasing(s) /\ Releasing(Tail(s))
                                     \/ s \in Asking /\ Tail(s) \in Asking
           /\ Head(s) \in {"wait", "data", "ignored", "startRegister"} => Releasing(s) /\ Releasing(Tail(s))
           /\ Head(s) = "start" => s \in Asking /\ Tail(s) \in Taking
           /\ Head(s) = "take" => s \in Taking /\ Tail(s) \in Finishing
           /\ Head(s) = "readEndIfDone" => s \in Finishing /\ Tail(s) = <<>>
           /\ Head(s) = "setPartial" => s \in Others /\ Tail(s) = <<>>
           /\ Head(s) \in {"begin", "transfer", "end"} => \/ Releasing(s) /\ Releasing(Tail(s))
                                                          \/ s \in Others /\ Tail(s) \in Others
           /\ Head(s) \in {"storeLow", "storeHigh", "enable", "disable"} =>
                 /\ Attaching(s) \/ Detaching(s)
                 /\ Attaching(Tail(s)) \/ Detaching(Tail(s)) \/ Tail(s) = <<>>
<1> USE DEF Lasts
<1>1. CASE Releasing(s)
  BY <1>1, ReleaseTail DEF ReleaseOps
<1>2. CASE s \in Selecting
  <2>1. /\ Head(<<"readEnd", "low", "command", "start", "take", "readEndIfDone">>) = "readEnd"
        /\ Tail(<<"readEnd", "low", "command", "start", "take", "readEndIfDone">>)
              = <<"low", "command", "start", "take", "readEndIfDone">>
        /\ Head(<<"low", "command", "start", "take", "readEndIfDone">>) = "low"
        /\ Tail(<<"low", "command", "start", "take", "readEndIfDone">>)
              = <<"command", "start", "take", "readEndIfDone">>
    OBVIOUS
  <2>2. \/ Head(s) = "readEnd" /\ Tail(s) = <<"low", "command", "start", "take", "readEndIfDone">>
        \/ Head(s) = "low" /\ Tail(s) = <<"command", "start", "take", "readEndIfDone">>
    BY <1>2, <2>1, Zenon DEF Selecting
  <2> QED
    BY <1>2, <2>2 DEF Selecting, Asking
<1>3. CASE s \in Asking
  <2>1. /\ Head(<<"command", "start", "take", "readEndIfDone">>) = "command"
        /\ Tail(<<"command", "start", "take", "readEndIfDone">>) = <<"start", "take", "readEndIfDone">>
        /\ Head(<<"start", "take", "readEndIfDone">>) = "start"
        /\ Tail(<<"start", "take", "readEndIfDone">>) = <<"take", "readEndIfDone">>
    OBVIOUS
  <2>2. \/ Head(s) = "command" /\ Tail(s) = <<"start", "take", "readEndIfDone">>
        \/ Head(s) = "start" /\ Tail(s) = <<"take", "readEndIfDone">>
    BY <1>3, <2>1, Zenon DEF Asking
  <2> QED
    BY <1>3, <2>2 DEF Taking, Asking
<1>4. CASE s \in Taking \cup Finishing
  <2>0. /\ Head(<<"take", "readEndIfDone">>) = "take" /\ Tail(<<"take", "readEndIfDone">>) = <<"readEndIfDone">>
        /\ Head(<<"readEndIfDone">>) = "readEndIfDone" /\ Tail(<<"readEndIfDone">>) = <<>>
    OBVIOUS
  <2>1. \/ s \in Taking /\ Head(s) = "take" /\ Tail(s) = <<"readEndIfDone">>
        \/ s \in Finishing /\ Head(s) = "readEndIfDone" /\ Tail(s) = <<>>
    BY <1>4, <2>0, Zenon DEF Taking, Finishing
  <2> QED
    BY <2>1 DEF Finishing
<1>5. CASE s \in Others
  <2>0. /\ Head(<<"readEnd", "setPartial">>) = "readEnd" /\ Tail(<<"readEnd", "setPartial">>) = <<"setPartial">>
        /\ Head(<<"setPartial">>) = "setPartial" /\ Tail(<<"setPartial">>) = <<>>
        /\ Head(<<"begin", "transfer", "end">>) = "begin"
        /\ Tail(<<"begin", "transfer", "end">>) = <<"transfer", "end">>
        /\ Head(<<"transfer", "end">>) = "transfer" /\ Tail(<<"transfer", "end">>) = <<"end">>
        /\ Head(<<"end">>) = "end" /\ Tail(<<"end">>) = <<>>
    OBVIOUS
  <2>1. \/ Head(s) = "readEnd" /\ Tail(s) = <<"setPartial">>
        \/ Head(s) = "setPartial" /\ Tail(s) = <<>>
        \/ Head(s) = "begin" /\ Tail(s) = <<"transfer", "end">>
        \/ Head(s) = "transfer" /\ Tail(s) = <<"end">>
        \/ Head(s) = "end" /\ Tail(s) = <<>>
    BY <1>5, <2>0, Zenon DEF Others
  <2>2. {<<"transfer", "end">>, <<"end">>, <<>>} \subseteq Others
    BY DEF Others
  <2> QED
    BY <1>5, <2>1, <2>2
<1>6. CASE Attaching(s) \/ Detaching(s)
  BY <1>6 DEF Attaching, Detaching, AttachLow, AttachHigh, AttachEnable, DetachDisable, DetachLow, DetachHigh, Leads
<1> QED
  BY <1>1, <1>2, <1>3, <1>4, <1>5, <1>6 DEF CallForm, Opening

(***************************************************************************)
(* The order of the steps.  One that clocks the bus, or hands the card on  *)
(* to the next call, comes first in its list or after one that does so too *)
(* or that begins a transaction; and nothing comes after the last.         *)
(***************************************************************************)
Steps == AllOps \cup {"storeLow", "storeHigh", "enable", "disable"}

Held == Clocking \cup {"opened"}

Following(a, b) == a # "opened" /\ (b \in Held => a \in Clocking \cup {"low", "begin"})

Linked(s) == s \in Seq(Steps) /\ \A i \in 1 .. Len(s) - 1 : Following(s[i], s[i + 1])

\* a list from its first step to its last
Goes(s, a, b) == Linked(s) /\ s # <<>> /\ s[1] = a /\ s[Len(s)] = b

LEMMA LinkedTail ==
    ASSUME NEW s, Linked(s), s # <<>>
    PROVE  Linked(Tail(s)) /\ (Tail(s) # <<>> => Following(Head(s), Head(Tail(s))))
<1>1. s \in Seq(Steps) /\ Len(s) \in Nat \ {0}
  BY EmptySeq, LenProperties DEF Linked
<1>2. /\ Head(s) = s[1] /\ Tail(s) \in Seq(Steps) /\ Len(Tail(s)) = Len(s) - 1
      /\ \A i \in 1 .. Len(s) - 1 : Tail(s)[i] = s[i + 1]
  BY <1>1, HeadTailProperties
<1>3. PICK n \in Nat \ {0} : n = Len(s)
  BY <1>1
<1>4. ASSUME NEW i \in 1 .. Len(Tail(s)) - 1 PROVE Following(Tail(s)[i], Tail(s)[i + 1])
  <2>1. i \in 1 .. n - 1 /\ i + 1 \in 1 .. n - 1
    BY <1>2, <1>3
  <2>2. Following(s[i + 1], s[i + 1 + 1])
    BY <1>3, <2>1 DEF Linked
  <2> QED
    BY <1>2, <1>3, <2>1, <2>2
<1>5. ASSUME Tail(s) # <<>> PROVE Following(Head(s), Head(Tail(s)))
  <2>1. n - 1 # 0
    BY <1>2, <1>3, <1>5, EmptySeq
  <2>2. 1 \in 1 .. n - 1 /\ 1 + 1 = 2
    BY <2>1
  <2>3. Following(s[1], s[1 + 1]) /\ Tail(s)[1] = s[1 + 1]
    BY <1>2, <1>3, <2>2 DEF Linked
  <2>4. Head(Tail(s)) = Tail(s)[1]
    BY <1>2, <1>5, HeadTailProperties
  <2> QED
    BY <1>2, <2>3, <2>4
<1> QED
  BY <1>2, <1>4, <1>5 DEF Linked

LEMMA GoesConcat ==
    ASSUME NEW s, NEW a, NEW b, Goes(s, a, b), NEW u, NEW c, NEW d, Goes(u, c, d), Following(b, c)
    PROVE  Goes(s \o u, a, d)
<1>1. s \in Seq(Steps) /\ u \in Seq(Steps) /\ Len(s) \in Nat \ {0} /\ Len(u) \in Nat \ {0}
  BY EmptySeq, LenProperties DEF Goes, Linked
<1>2. /\ s \o u \in Seq(Steps) /\ Len(s \o u) = Len(s) + Len(u)
      /\ \A i \in 1 .. Len(s) + Len(u) : (s \o u)[i] = IF i <= Len(s) THEN s[i] ELSE u[i - Len(s)]
  BY <1>1, ConcatProperties
<1>3. PICK n \in Nat \ {0}, m \in Nat \ {0} : n = Len(s) /\ m = Len(u)
  BY <1>1
<1>4. PICK w : w = s \o u
  OBVIOUS
<1>5. Len(w) = n + m /\ \A i \in 1 .. n + m : w[i] = IF i <= n THEN s[i] ELSE u[i - n]
  BY <1>2, <1>3, <1>4
<1>6. ASSUME NEW i \in 1 .. n + m - 1 PROVE Following(w[i], w[i + 1])
  <2>1. CASE i < n
    <3>1. i \in 1 .. n - 1 /\ i \in 1 .. n + m /\ i + 1 \in 1 .. n + m /\ i <= n /\ i + 1 <= n
      BY <2>1
    <3>2. w[i] = s[i] /\ w[i + 1] = s[i + 1]
      BY <1>5, <3>1
    <3>3. Following(s[i], s[i + 1])
      BY <1>3, <3>1 DEF Goes, Linked
    <3> QED
      BY <3>2, <3>3
  <2>2. CASE i = n
    <3>1. i \in 1 .. n + m /\ i + 1 \in 1 .. n + m /\ i <= n /\ ~(i + 1 <= n) /\ i + 1 - n = 1
      BY <2>2
    <3>2. w[i] = s[n] /\ w[i + 1] = u[1]
      BY <1>5, <2>2, <3>1
    <3> QED
      BY <1>3, <3>2 DEF Goes
  <2>3. CASE i > n
    <3>1. PICK j \in 1 .. m - 1 : i = n + j
      <4>1. i - n \in 1 .. m - 1 /\ i = n + (i - n)
        BY <2>3
      <4> QED
        BY <4>1
    <3>2. /\ i \in 1 .. n + m /\ i + 1 \in 1 .. n + m /\ ~(i <= n) /\ ~(i + 1 <= n)
          /\ i - n = j /\ i + 1 - n = j + 1
      BY <3>1
    <3>3. w[i] = u[j] /\ w[i + 1] = u[j + 1]
      BY <1>5, <3>2
    <3>4. Following(u[j], u[j + 1])
      BY <1>3, <3>1 DEF Goes, Linked
    <3> QED
      BY <3>3, <3>4
  <2> QED
    BY <2>1, <2>2, <2>3
<1>7. w # <<>> /\ w[1] = s[1] /\ w[Len(w)] = u[m]
  <2>1. /\ 1 \in 1 .. n + m /\ 1 <= n /\ n + m \in 1 .. n + m /\ ~(n + m <= n) /\ n + m - n = m
        /\ n + m # 0
    OBVIOUS
  <2>2. w[1] = s[1] /\ w[n + m] = u[m]
    BY <1>5, <2>1
  <2>3. w # <<>>
    BY <1>2, <1>4, <1>5, <2>1, EmptySeq
  <2> QED
    BY <1>5, <2>2, <2>3
<1>8. Linked(w)
  BY <1>2, <1>4, <1>5, <1>6 DEF Linked
<1> QED
  BY <1>3, <1>4, <1>7, <1>8 DEF Goes

LEMMA GoesPieces ==
    /\ Goes(Fail, "high", "high") /\ Goes(Done, "high", "high") /\ Goes(Command, "readEnd", "command")
    /\ Goes(<<"readEnd", "low", "ignored">>, "readEnd", "ignored")
    /\ Goes(<<"startRegister", "transfer", "high">>, "startRegister", "high")
    /\ Goes(<<"take", "readEndIfDone">>, "take", "readEndIfDone")
    /\ Goes(<<"start", "take", "readEndIfDone">>, "start", "readEndIfDone")
    /\ Goes(<<"data", "wait">>, "data", "wait") /\ Goes(<<"wait">>, "wait", "wait")
    /\ Goes(<<"readEnd", "setPartial">>, "readEnd", "setPartial") /\ Goes(<<"opened">>, "opened", "opened")
    /\ Goes(<<"wait", "data", "opened">>, "wait", "opened") /\ Goes(<<"wait", "transfer", "wait">>, "wait", "wait")
    /\ Goes(<<"begin", "transfer", "end", "low">>, "begin", "low")
    /\ Goes(<<"begin", "transfer", "end">>, "begin", "end")
    /\ Goes(<<"storeLow", "storeHigh", "enable">>, "storeLow", "enable")
    /\ Goes(<<"disable", "storeLow", "storeHigh">>, "disable", "storeHigh")
<1> USE DEF Goes, Linked, Following, Held, Clocking, Steps, AllOps, CardOps
<1>1. /\ Goes(<<"high">>, "high", "high") /\ Goes(<<"wait">>, "wait", "wait")
      /\ Goes(<<"opened">>, "opened", "opened")
  OBVIOUS
<1>2. Goes(<<"take", "readEndIfDone">>, "take", "readEndIfDone")
  OBVIOUS
<1>3. Goes(<<"data", "wait">>, "data", "wait")
  OBVIOUS
<1>4. Goes(<<"readEnd", "setPartial">>, "readEnd", "setPartial")
  OBVIOUS
<1>5. Goes(<<"readEnd", "low", "command">>, "readEnd", "command")
  OBVIOUS
<1>6. Goes(<<"readEnd", "low", "ignored">>, "readEnd", "ignored")
  OBVIOUS
<1>7. Goes(<<"startRegister", "transfer", "high">>, "startRegister", "high")
  OBVIOUS
<1>8. Goes(<<"start", "take", "readEndIfDone">>, "start", "readEndIfDone")
  OBVIOUS
<1>9. Goes(<<"wait", "data", "opened">>, "wait", "opened")
  OBVIOUS
<1>10. Goes(<<"wait", "transfer", "wait">>, "wait", "wait")
  OBVIOUS
<1>11. Goes(<<"begin", "transfer", "end", "low">>, "begin", "low")
  OBVIOUS
<1>12. Goes(<<"begin", "transfer", "end">>, "begin", "end")
  OBVIOUS
<1>13. Goes(<<"storeLow", "storeHigh", "enable">>, "storeLow", "enable")
  OBVIOUS
<1>14. Goes(<<"disable", "storeLow", "storeHigh">>, "disable", "storeHigh")
  OBVIOUS
<1> HIDE DEF Goes
<1> QED
  BY <1>1, <1>2, <1>3, <1>4, <1>5, <1>6, <1>7, <1>8, <1>9, <1>10, <1>11, <1>12, <1>13, <1>14, Zenon
  DEF Fail, Done, Command

\* The lists of the calls: their first steps.
LEMMA GoesLists ==
    /\ Goes(Command \o <<"start", "take", "readEndIfDone">>, "readEnd", "readEndIfDone")
    /\ Goes(Command \o <<"data", "wait">> \o Command \o Done, "readEnd", "high")
    /\ Goes(Register \o Command \o Command \o Command \o <<"wait">> \o Done, "readEnd", "high")
    /\ Goes(Register, "readEnd", "high")
    /\ Goes(Acmd \o Command \o <<"opened">>, "readEnd", "opened")
    /\ Goes(<<"wait", "transfer", "wait">> \o Done, "wait", "high")
    /\ Goes(<<"begin", "transfer", "end", "low">> \o Command \o Acmd \o Command \o Done, "begin", "high")
<1>1. /\ Following("command", "start") /\ Following("command", "data") /\ Following("wait", "readEnd")
      /\ Following("command", "high") /\ Following("command", "startRegister") /\ Following("high", "readEnd")
      /\ Following("command", "readEnd") /\ Following("command", "wait") /\ Following("wait", "high")
      /\ Following("ignored", "readEnd") /\ Following("command", "opened") /\ Following("low", "readEnd")
  BY DEF Following, Held, Clocking
<1>2. Goes(Register, "readEnd", "high") /\ Goes(Acmd, "readEnd", "command")
  BY <1>1, GoesPieces, GoesConcat, Zenon DEF Register, Acmd
<1>3. Goes(Command \o <<"start", "take", "readEndIfDone">>, "readEnd", "readEndIfDone")
  BY <1>1, GoesPieces, GoesConcat, Zenon
<1>4. Goes(Command \o <<"data", "wait">> \o Command \o Done, "readEnd", "high")
  <2>1. Goes(Command \o <<"data", "wait">>, "readEnd", "wait")
    BY <1>1, GoesPieces, GoesConcat, Zenon
  <2>2. Goes(Command \o <<"data", "wait">> \o Command, "readEnd", "command")
    BY <1>1, <2>1, GoesPieces, GoesConcat, Zenon
  <2> QED
    BY <1>1, <2>2, GoesPieces, GoesConcat, Zenon
<1>5. Goes(Register \o Command \o Command \o Command \o <<"wait">> \o Done, "readEnd", "high")
  <2>1. Goes(Register \o Command, "readEnd", "command")
    BY <1>1, <1>2, GoesPieces, GoesConcat, Zenon
  <2>2. Goes(Register \o Command \o Command, "readEnd", "command")
    BY <1>1, <2>1, GoesPieces, GoesConcat, Zenon
  <2>3. Goes(Register \o Command \o Command \o Command, "readEnd", "command")
    BY <1>1, <2>2, GoesPieces, GoesConcat, Zenon
  <2>4. Goes(Register \o Command \o Command \o Command \o <<"wait">>, "readEnd", "wait")
    BY <1>1, <2>3, GoesPieces, GoesConcat, Zenon
  <2> QED
    BY <1>1, <2>4, GoesPieces, GoesConcat, Zenon
<1>6. Goes(Acmd \o Command \o <<"opened">>, "readEnd", "opened")
  <2>1. Goes(Acmd \o Command, "readEnd", "command")
    BY <1>1, <1>2, GoesPieces, GoesConcat, Zenon
  <2> QED
    BY <1>1, <2>1, GoesPieces, GoesConcat, Zenon
<1>7. Goes(<<"wait", "transfer", "wait">> \o Done, "wait", "high")
  BY <1>1, GoesPieces, GoesConcat, Zenon
<1>8. Goes(<<"begin", "transfer", "end", "low">> \o Command \o Acmd \o Command \o Done, "begin", "high")
  <2>1. Goes(<<"begin", "transfer", "end", "low">> \o Command, "begin", "command")
    BY <1>1, GoesPieces, GoesConcat, Zenon
  <2>2. Goes(<<"begin", "transfer", "end", "low">> \o Command \o Acmd, "begin", "command")
    BY <1>1, <1>2, <2>1, GoesPieces, GoesConcat, Zenon
  <2>3. Goes(<<"begin", "transfer", "end", "low">> \o Command \o Acmd \o Command, "begin", "command")
    BY <1>1, <2>2, GoesPieces, GoesConcat, Zenon
  <2> QED
    BY <1>1, <2>3, GoesPieces, GoesConcat, Zenon
<1> QED
  BY <1>2, <1>3, <1>4, <1>5, <1>6, <1>7, <1>8

\* What a step has to leave where no block is open.
LEMMA ShutKept ==
    ASSUME CardTypes', inBlock_' = FALSE, selected' = chip_select_asserted', card'.pos = BlockSize + CrcSize,
           fetched'.want = fetched'.got, CallForm(todo'), todo' \notin Taking \cup Finishing,
           selected' => (Releasing(todo') \/ todo' \in Opening \/ stream' = "open"),
           stream' = "open" => selected' /\ (todo' # <<>> => Head(todo') = "begin"),
           todo' \in Opening => arg'.block = block_', todo' \in Asking => selected'
    PROVE  CardFacts'
BY DEF CardFacts, BlockOpen, BlockShut, StreamOpen, ReadFits

\* In a step of a list that releases, or that leaves the card alone, no block is open.
LEMMA ShutSteps ==
    ASSUME CardFacts, todo # <<>>, Head(todo) \notin {"readEnd", "take", "readEndIfDone", "begin"}
    PROVE  /\ inBlock_ = FALSE /\ card.pos = BlockSize + CrcSize /\ todo \notin Taking \cup Finishing
           /\ selected => (Releasing(todo) \/ todo \in Opening)
BY DEF CardFacts, BlockOpen, BlockShut, StreamOpen, CardTypes

\* A multiple block write that waits for its next call waits for no step.
LEMMA NoStream ==
    ASSUME CardFacts, todo # <<>>, Head(todo) # "begin"
    PROVE  stream # "open"
BY DEF CardFacts, StreamOpen

LEMMA ReadEndKeeps ==
    ASSUME CardFacts, readEnd
    PROVE  CardFacts'
<1>1. /\ CardTypes /\ CallForm(todo) /\ BlockOpen /\ BlockShut /\ ReadFits /\ selected = chip_select_asserted
      /\ todo # <<>> /\ todo' = Tail(todo) /\ Head(todo) \in {"readEnd", "readEndIfDone"}
  BY DEF CardFacts, readEnd, Next
<1>2. fetched' = Nothing /\ arg' = arg /\ block_' = block_ /\ stream' = stream /\ stream # "open"
  BY <1>1, NoStream DEF readEnd, quietVars
<1>3. fetched'.want = fetched'.got
  BY <1>2 DEF Nothing
<1>4. /\ Head(todo) = "readEnd" => \/ Releasing(todo) /\ Releasing(todo')
                                   \/ todo \in Selecting /\ todo' \in Selecting
                                   \/ todo \in Others /\ todo' = <<"setPartial">>
      /\ Head(todo) = "readEndIfDone" => todo \in Finishing /\ todo' = <<>>
  BY <1>1, FormStep
<1>5. <<>> \in Others /\ <<"setPartial">> \in Others
  BY DEF Others
<1>6. /\ CallForm(todo') /\ todo' \notin Taking \cup Finishing
      /\ todo' \in Opening => arg.block = block_
      /\ todo' \notin Asking
  <2>1. CASE Releasing(todo')
    BY <2>1, FormsApart DEF CallForm, Opening
  <2>2. CASE todo \in Selecting /\ todo' \in Selecting
    BY <1>1, <2>2 DEF CallForm, Opening, ReadFits, Selecting, Asking, Taking, Finishing
  <2>3. CASE todo' \in Others
    BY <2>3, FormsApart DEF CallForm, Opening
  <2> QED
    BY <1>1, <1>4, <1>5, <2>1, <2>2, <2>3
<1>7. CASE inBlock_ /\ (Head(todo) = "readEnd" \/ ~partialBlockRead_ \/ offset_ >= BlockSize)
  <2>1. /\ card' = (IF selected THEN Clocked(card, BlockSize + CrcSize - offset_) ELSE card)
        /\ offset_' = BlockSize + CrcSize /\ inBlock_' = FALSE /\ selected' = FALSE /\ chip_select_asserted' = FALSE
    BY <1>7 DEF readEnd, High
  <2>2. selected /\ card.pos = offset_
    BY <1>1, <1>7 DEF BlockOpen
  <2>3. BlockSize + CrcSize \in Nat
    BY SdCardAssumption DEF CrcSize
  <2>4. card \in [block : Blocks \cup {0}, pos : Nat] /\ offset_ \in Nat
    BY <1>1 DEF CardTypes
  <2>5. card'.pos = BlockSize + CrcSize /\ card'.block = card.block /\ card' \in [block : Blocks \cup {0}, pos : Nat]
    <3>1. PICK whole \in Nat : whole = BlockSize + CrcSize
      BY <2>3
    <3>2. PICK m : m = BlockSize + CrcSize - offset_
      OBVIOUS
    <3>3. card' = Clocked(card, m)
      BY <2>1, <2>2, <3>2, Zenon
    <3>4. card.pos + m = whole
      <4>1. m = whole - offset_
        BY <3>1, <3>2, <2>4, SdCardAssumption DEF CrcSize
      <4> QED
        BY <2>2, <2>4, <4>1
    <3> QED
      BY <2>4, <3>1, <3>3, <3>4 DEF Clocked
  <2>6. CardTypes'
    BY <1>1, <1>2, <2>1, <2>3, <2>5 DEF CardTypes
  <2> QED
    BY <1>2, <1>3, <1>6, <2>1, <2>5, <2>6, ShutKept
<1>8. CASE ~(inBlock_ /\ (Head(todo) = "readEnd" \/ ~partialBlockRead_ \/ offset_ >= BlockSize))
  <2>1. UNCHANGED <<card, offset_, inBlock_, selected, chip_select_asserted>>
    BY <1>8 DEF readEnd
  <2>2. CardTypes'
    BY <1>1, <1>2, <2>1 DEF CardTypes
  <2>3. CASE inBlock_
    <3>1. Head(todo) = "readEndIfDone" /\ todo' = <<>>
      BY <1>1, <1>4, <1>8, <2>3
    <3>2. BlockOpen' /\ StreamOpen'
      BY <1>1, <1>2, <2>1, <2>3, <3>1 DEF BlockOpen, StreamOpen
    <3>3. BlockShut' /\ ReadFits'
      BY <1>2, <1>6, <2>1, <2>3 DEF BlockShut, ReadFits
    <3> QED
      BY <1>1, <1>3, <1>6, <2>1, <2>2, <3>2, <3>3 DEF CardFacts
  <2>4. CASE ~inBlock_
    <3>1. /\ card.pos = BlockSize + CrcSize /\ todo \notin Taking \cup Finishing
          /\ selected => (Releasing(todo) \/ todo \in Opening)
      BY <1>1, <1>2, <2>4 DEF BlockShut
    <3>2. Head(todo) = "readEnd"
      BY <1>1, <1>4, <3>1
    <3>3. selected => (Releasing(todo') \/ todo' \in Opening)
      BY <1>4, <3>1, <3>2, FormsApart DEF Opening
    <3>4. inBlock_' = FALSE
      BY <1>1, <2>1, <2>4 DEF CardTypes
    <3> QED
      BY <1>1, <1>2, <1>3, <1>6, <2>1, <2>2, <3>1, <3>3, <3>4, ShutKept
  <2> QED
    BY <2>3, <2>4
<1> QED
  BY <1>7, <1>8

LEMMA ChipSelectKeeps ==
    ASSUME CardFacts, ChipSelect
    PROVE  CardFacts'
<1>1. /\ CardTypes /\ CallForm(todo) /\ ReadFits /\ fetched.want = fetched.got
      /\ todo # <<>> /\ todo' = Tail(todo) /\ Head(todo) \in {"high", "low"}
  BY DEF CardFacts, ChipSelect, Next
<1>2. /\ UNCHANGED <<inBlock_, partialBlockRead_, block_, offset_, card, fetched>>
      /\ arg' = IF todo' = <<>> THEN NoArg ELSE arg
      /\ stream' = stream /\ stream # "open"
  BY <1>1, NoStream DEF ChipSelect, driverVars
<1>3. inBlock_ = FALSE /\ card.pos = BlockSize + CrcSize
  BY <1>1, ShutSteps
<1>4. CardTypes'
  <2>1. NoArg \in [f : Pointers, block : Blocks \cup {0}, offset : Nat, count : Nat]
    BY DEF NoArg, Pointers
  <2>2. arg' \in [f : Pointers, block : Blocks \cup {0}, offset : Nat, count : Nat]
    BY <1>1, <1>2, <2>1 DEF CardTypes
  <2> QED
    BY <1>1, <1>2, <2>2 DEF CardTypes
<1>5. CASE Head(todo) = "high"
  <2>1. selected' = FALSE /\ chip_select_asserted' = FALSE
    BY <1>5 DEF ChipSelect, Next, High
  <2>2. todo' = <<>> \/ Releasing(todo')
    BY <1>1, <1>5, FormStep DEF Lasts
  <2>3. <<>> \in Others
    BY DEF Others
  <2>4. CallForm(todo') /\ todo' \notin Opening \cup Taking \cup Finishing
    BY <2>2, <2>3, FormsApart DEF CallForm
  <2> QED
    BY <1>1, <1>2, <1>3, <1>4, <2>1, <2>4, ShutKept DEF Opening
<1>6. CASE Head(todo) = "low"
  <2>1. selected' = TRUE /\ chip_select_asserted' = TRUE
    BY <1>6 DEF ChipSelect, Next, Low
  <2>2. \/ Releasing(todo')
        \/ todo \in Selecting /\ todo' \in Asking
    BY <1>1, <1>6, FormStep
  <2>3. CASE Releasing(todo')
    BY <1>1, <1>2, <1>3, <1>4, <2>1, <2>3, FormsApart, ShutKept DEF CallForm, Opening
  <2>4. CASE todo \in Selecting /\ todo' \in Asking
    <3>1. todo' # <<>> /\ todo' \notin Taking \cup Finishing /\ CallForm(todo') /\ todo' \in Opening
      BY <2>4 DEF Asking, Taking, Finishing, CallForm, Opening
    <3>2. arg'.block = block_'
      BY <1>1, <1>2, <2>4, <3>1 DEF ReadFits, Opening
    <3> QED
      BY <1>1, <1>2, <1>3, <1>4, <2>1, <3>1, <3>2, ShutKept
  <2> QED
    BY <2>2, <2>3, <2>4
<1> QED
  BY <1>1, <1>5, <1>6

\* A step that goes on with the card as it is, or that fails.
LEMMA GoesOn ==
    ASSUME CardFacts, todo # <<>>, Head(todo) \in {"command", "wait", "data", "ignored", "startRegister"},
           todo' = Tail(todo) \/ (todo' = Fail /\ selected' = chip_select_asserted'),
           todo' = Tail(todo) => UNCHANGED <<selected, chip_select_asserted>>,
           UNCHANGED <<inBlock_, block_, offset_, card, fetched, arg, stream>>
    PROVE  CardFacts'
<1>1. /\ CardTypes /\ CallForm(todo) /\ ReadFits /\ fetched.want = fetched.got /\ selected = chip_select_asserted
  BY DEF CardFacts
<1>2. /\ inBlock_ = FALSE /\ card.pos = BlockSize + CrcSize /\ (selected => (Releasing(todo) \/ todo \in Opening))
      /\ stream # "open"
  BY ShutSteps, NoStream
<1>3. CardTypes'
  BY <1>1 DEF CardTypes
<1>4. CASE Releasing(todo')
  BY <1>1, <1>2, <1>3, <1>4, FormsApart, ShutKept DEF CallForm, Opening
<1>5. CASE todo' = Tail(todo) /\ ~Releasing(todo')
  <2>1. todo \in Asking /\ todo' \in Asking
    BY <1>1, <1>5, FormStep
  <2>2. todo' \notin Taking \cup Finishing /\ CallForm(todo') /\ todo' \in Opening
    BY <2>1 DEF Asking, Taking, Finishing, CallForm, Opening
  <2>3. arg'.block = block_' /\ selected'
    BY <1>1, <1>5, <2>1 DEF ReadFits, Opening
  <2> QED
    BY <1>1, <1>2, <1>3, <1>5, <2>2, <2>3, ShutKept
<1> QED
  BY <1>4, <1>5, ReleaseLists

LEMMA ExchangeKeeps ==
    ASSUME CardFacts, Exchange
    PROVE  CardFacts'
<1>1. UNCHANGED sdVars /\ UNCHANGED arg
  BY DEF Exchange, quietVars
<1>2. /\ todo # <<>> /\ Head(todo) \in {"command", "wait", "data", "ignored"}
      /\ todo' = Tail(todo) \/ todo' = Fail
  BY DEF Exchange, Fails, Next
<1>3. selected = chip_select_asserted
  BY DEF CardFacts
<1> QED
  BY <1>1, <1>2, <1>3, GoesOn DEF sdVars, cardVars

LEMMA StartRegisterKeeps ==
    ASSUME CardFacts, StartRegister
    PROVE  CardFacts'
<1>1. UNCHANGED <<inBlock_, block_, offset_, card, fetched, arg, stream>>
  BY DEF StartRegister, quietVars, driverVars
<1>2. /\ todo # <<>> /\ Head(todo) = "startRegister"
      /\ \/ todo' = Tail(todo) /\ UNCHANGED <<selected, chip_select_asserted>>
         \/ todo' = Fail /\ selected' = FALSE /\ chip_select_asserted' = FALSE
  BY DEF StartRegister, High
<1>3. CASE todo' = Tail(todo) /\ UNCHANGED <<selected, chip_select_asserted>>
  BY <1>1, <1>2, <1>3, GoesOn
<1>4. CASE todo' = Fail /\ selected' = FALSE /\ chip_select_asserted' = FALSE
  <2>1. CardTypes' /\ inBlock_' = FALSE /\ card'.pos = BlockSize + CrcSize /\ stream' # "open"
    BY <1>1, <1>2, ShutSteps, NoStream DEF CardFacts, CardTypes
  <2>2. Releasing(todo')
    BY <1>4, ReleaseLists
  <2>3. fetched'.want = fetched'.got
    BY <1>1 DEF CardFacts
  <2> QED
    BY <1>4, <2>1, <2>2, <2>3, FormsApart, ShutKept DEF CallForm, Opening
<1> QED
  BY <1>2, <1>3, <1>4

LEMMA StartBlockKeeps ==
    ASSUME CardFacts, StartBlock
    PROVE  CardFacts'
<1>1. /\ CardTypes /\ CallForm(todo) /\ ReadFits /\ fetched.want = fetched.got /\ selected = chip_select_asserted
  BY DEF CardFacts
<1>2. todo # <<>> /\ Head(todo) = "start" /\ UNCHANGED <<block_, fetched, arg>> /\ stream' = stream /\ stream # "open"
  BY NoStream DEF StartBlock, quietVars
<1>3. todo \in Asking /\ Tail(todo) \in Taking
  BY <1>1, <1>2, FormStep
<1>4. CASE todo' = Fail
  <2>1. selected' = FALSE /\ chip_select_asserted' = FALSE /\ UNCHANGED <<inBlock_, offset_, card>>
    <3>1. Fail # Tail(todo)
      BY <1>3, ReleaseLists, FormsApart
    <3> QED
      BY <1>4, <3>1 DEF StartBlock, High
  <2>2. CardTypes' /\ inBlock_' = FALSE /\ card'.pos = BlockSize + CrcSize
    BY <1>1, <1>2, <2>1, ShutSteps DEF CardTypes
  <2>3. Releasing(todo')
    BY <1>4, ReleaseLists
  <2> QED
    BY <1>1, <1>2, <2>1, <2>2, <2>3, FormsApart, ShutKept DEF CallForm, Opening
<1>5. CASE todo' # Fail
  <2>1. /\ todo' = Tail(todo) /\ inBlock_' = TRUE /\ offset_' = 0 /\ card' = [block |-> block_, pos |-> 0]
        /\ UNCHANGED <<selected, chip_select_asserted>>
    BY <1>5 DEF StartBlock
  <2>2. CardTypes'
    BY <1>1, <1>2, <2>1 DEF CardTypes
  <2>3. selected /\ arg.block = block_
    BY <1>1, <1>3 DEF ReadFits, Opening
  <2>4. todo' \in Taking /\ Head(todo') = "take"
    <3>1. Head(<<"take", "readEndIfDone">>) = "take"
      OBVIOUS
    <3> QED
      BY <1>3, <2>1, <3>1 DEF Taking
  <2>5. todo' \notin Opening
    BY <2>4 DEF Taking, Opening, Selecting, Asking
  <2>6. 0 <= arg.offset
    BY <1>1 DEF CardTypes
  <2>7. BlockOpen' /\ BlockShut' /\ StreamOpen' /\ ReadFits'
    BY <1>2, <2>1, <2>3, <2>4, <2>5, <2>6 DEF BlockOpen, BlockShut, StreamOpen, ReadFits, Opening
  <2>8. CallForm(todo')
    BY <2>4 DEF CallForm
  <2> QED
    BY <1>1, <1>2, <2>1, <2>2, <2>7, <2>8 DEF CardFacts
<1> QED
  BY <1>4, <1>5

LEMMA TakeKeeps ==
    ASSUME CardFacts, Take
    PROVE  CardFacts'
<1>1. /\ CardTypes /\ CallForm(todo) /\ ReadFits /\ BlockOpen /\ BlockShut /\ selected = chip_select_asserted
      /\ todo # <<>> /\ Head(todo) = "take" /\ todo' = Tail(todo)
  BY DEF CardFacts, Take, Next
<1>2. todo \in Taking /\ todo' \in Finishing
  BY <1>1, FormStep
<1>3. inBlock_ /\ selected /\ card.block = block_ /\ card.pos = offset_
      /\ arg.block = block_ /\ offset_ <= arg.offset
  BY <1>1, <1>2 DEF BlockOpen, BlockShut, ReadFits
<1>4. PICK p \in Nat, o \in Nat, c \in Nat : p = offset_ /\ o = arg.offset /\ c = arg.count
  BY <1>1 DEF CardTypes
<1>5. PICK skipped \in Nat : skipped = (IF p < o THEN o - p ELSE 0) /\ p + skipped = o
  <2>1. CASE p < o
    <3>1. o - p \in Nat /\ p + (o - p) = o
      BY <2>1
    <3> QED
      BY <2>1, <3>1
  <2>2. CASE ~(p < o)
    <3>1. p = o /\ 0 \in Nat /\ p + 0 = o
      BY <1>3, <1>4, <2>2
    <3> QED
      BY <2>2, <3>1
  <2> QED
    BY <2>1, <2>2
<1>6. /\ fetched' = [want |-> <<arg.block, arg.offset>>, got |-> <<card.block, card.pos + skipped>>]
      /\ card' = Clocked(card, skipped + c) /\ offset_' = offset_ + (skipped + c) /\ arg' = NoArg
  BY <1>3, <1>4, <1>5 DEF Take
<1>7. UNCHANGED <<inBlock_, block_, selected, chip_select_asserted>> /\ stream' = stream /\ stream # "open"
  BY <1>1, NoStream DEF Take
<1>8. PICK n \in Nat : n = skipped + c
  OBVIOUS
<1>9. PICK after \in Nat : after = p + n
  OBVIOUS
<1>10. card' = [card EXCEPT !.pos = after] /\ offset_' = after
  BY <1>3, <1>4, <1>6, <1>8, <1>9 DEF Clocked
<1>11. card'.pos = offset_' /\ card'.block = block_' /\ card' \in [block : Blocks \cup {0}, pos : Nat]
  BY <1>1, <1>3, <1>7, <1>10 DEF CardTypes
<1>12. fetched'.want = fetched'.got
  <2>1. card.pos + skipped = arg.offset
    BY <1>3, <1>4, <1>5
  <2>2. fetched' = [want |-> <<arg.block, arg.offset>>, got |-> <<arg.block, arg.offset>>]
    BY <1>3, <1>6, <2>1
  <2> QED
    BY <2>2
<1>13. CardTypes'
  <2>1. NoArg \in [f : Pointers, block : Blocks \cup {0}, offset : Nat, count : Nat]
    BY DEF NoArg, Pointers
  <2> QED
    BY <1>1, <1>6, <1>7, <1>10, <1>11, <2>1 DEF CardTypes
<1>14. todo' = <<"readEndIfDone">> /\ Head(<<"readEndIfDone">>) = "readEndIfDone"
  BY <1>2 DEF Finishing
<1>15. BlockOpen'
  BY <1>3, <1>7, <1>11, <1>14 DEF BlockOpen
<1>16. BlockShut' /\ StreamOpen' /\ ReadFits'
  <2>1. todo' \notin Opening /\ todo' \notin Taking
    BY <1>14 DEF Opening, Selecting, Asking, Taking
  <2> QED
    BY <1>3, <1>7, <2>1 DEF BlockShut, StreamOpen, ReadFits, Opening
<1>17. CallForm(todo')
  BY <1>2 DEF CallForm
<1> QED
  BY <1>1, <1>7, <1>12, <1>13, <1>15, <1>16, <1>17 DEF CardFacts

LEMMA SetPartialKeeps ==
    ASSUME CardFacts, SetPartial
    PROVE  CardFacts'
<1>1. /\ CardTypes /\ CallForm(todo) /\ fetched.want = fetched.got /\ selected = chip_select_asserted
      /\ todo # <<>> /\ Head(todo) = "setPartial" /\ todo' = Tail(todo)
      /\ UNCHANGED <<inBlock_, block_, offset_, chip_select_asserted, selected, card, fetched, arg, stream>>
  BY DEF CardFacts, SetPartial, Next, quietVars
<1>2. todo \in Others /\ todo' = <<>> /\ <<>> \in Others
  BY <1>1, FormStep DEF Others
<1>3. inBlock_ = FALSE /\ card.pos = BlockSize + CrcSize /\ ~selected /\ stream # "open"
  BY <1>1, <1>2, ShutSteps, NoStream, FormsApart
<1>4. CardTypes'
  BY <1>1 DEF CardTypes
<1> QED
  BY <1>1, <1>2, <1>3, <1>4, FormsApart, ShutKept DEF CallForm, Opening

\* Where a call starts, the card is selected if and only if a block is open, or a
\* multiple block write waits for it.
LEMMA AtStart ==
    ASSUME CardFacts, todo = <<>>
    PROVE  /\ inBlock_ => selected /\ card.pos = offset_ /\ card.block = block_ /\ stream # "open"
           /\ ~inBlock_ => card.pos = BlockSize + CrcSize /\ (selected => stream = "open")
           /\ stream = "open" => selected
<1>1. <<>> \in Others
  BY DEF Others
<1> QED
  BY <1>1, FormsApart DEF CardFacts, BlockOpen, BlockShut, StreamOpen

LEMMA ReadDataKeeps ==
    ASSUME CardFacts, NEW block \in Blocks, NEW offset \in 0 .. BlockSize, NEW count \in 0 .. BlockSize,
           readData(block, offset, count), ~misused'
    PROVE  CardFacts'
<1> DEFINE a == [NoArg EXCEPT !.block = block, !.offset = offset, !.count = count]
<1>1. /\ CardTypes /\ selected = chip_select_asserted /\ fetched' = Nothing
      /\ UNCHANGED <<inBlock_, offset_, chip_select_asserted, selected, card>>
      /\ misused' = (misused \/ stream = "open" \/ (offset + count > BlockSize /\ inBlock_))
      /\ stream # "open" /\ stream' = "none"
  BY DEF CardFacts, readData
<1>2. a \in [f : Pointers, block : Blocks \cup {0}, offset : Nat, count : Nat] /\ a.block = block /\ a.offset = offset
  <2>1. offset \in Nat /\ count \in Nat
    BY SdCardAssumption
  <2> QED
    BY <2>1 DEF NoArg, Pointers
<1>3. fetched'.want = fetched'.got
  BY <1>1 DEF Nothing
<1>4. CASE offset + count > BlockSize
  <2>1. Start(Fail, a) /\ block_' = block_ /\ ~inBlock_
    BY <1>1, <1>4 DEF readData
  <2>2. todo = <<>> /\ todo' = Fail /\ arg' = a
    BY <2>1 DEF Start, Call
  <2>3. Releasing(todo')
    BY <2>2, ReleaseLists
  <2>4. CardTypes' /\ inBlock_' = FALSE
    BY <1>1, <1>2, <2>1, <2>2 DEF CardTypes
  <2>5. card'.pos = BlockSize + CrcSize
    BY <1>1, <2>1, <2>2, AtStart
  <2> QED
    BY <1>1, <1>3, <2>3, <2>4, <2>5, FormsApart, ShutKept DEF CallForm, Opening
<1>5. CASE ~(offset + count > BlockSize) /\ inBlock_ /\ block = block_ /\ offset >= offset_
  <2>1. Start(<<"take", "readEndIfDone">>, a) /\ block_' = block_
    BY <1>5 DEF readData
  <2>2. todo = <<>> /\ todo' = <<"take", "readEndIfDone">> /\ arg' = a
    BY <2>1 DEF Start, Call
  <2>3. Head(<<"take", "readEndIfDone">>) = "take"
    OBVIOUS
  <2>4. CardTypes'
    BY <1>1, <1>2, <2>1, <2>2 DEF CardTypes
  <2>5. selected /\ card.pos = offset_ /\ card.block = block_
    BY <1>5, <2>2, AtStart
  <2>6. BlockOpen' /\ StreamOpen'
    BY <1>1, <2>1, <2>2, <2>3, <2>5 DEF BlockOpen, StreamOpen
  <2>7. todo' \in Taking /\ todo' \notin Opening
    BY <2>2 DEF Opening, Selecting, Asking, Taking
  <2>8. offset_ <= offset
    BY <1>1, <1>5 DEF CardTypes
  <2>9. BlockShut' /\ ReadFits'
    BY <1>1, <1>2, <1>5, <2>1, <2>2, <2>5, <2>7, <2>8 DEF BlockShut, ReadFits, Opening
  <2>10. CallForm(todo')
    BY <2>7 DEF CallForm
  <2> QED
    BY <1>1, <1>3, <2>4, <2>6, <2>9, <2>10 DEF CardFacts
<1>6. CASE ~(offset + count > BlockSize) /\ ~(inBlock_ /\ block = block_ /\ offset >= offset_)
  <2>1. Start(Command \o <<"start", "take", "readEndIfDone">>, a) /\ block_' = block
    BY <1>6 DEF readData
  <2>2. todo = <<>> /\ todo' \in Selecting /\ arg' = a /\ todo' # <<>> /\ Head(todo') = "readEnd"
    <3>1. Command \o <<"start", "take", "readEndIfDone">>
            = <<"readEnd", "low", "command", "start", "take", "readEndIfDone">>
      BY OpenIs
    <3>2. /\ <<"readEnd", "low", "command", "start", "take", "readEndIfDone">> # <<>>
          /\ Head(<<"readEnd", "low", "command", "start", "take", "readEndIfDone">>) = "readEnd"
      OBVIOUS
    <3> QED
      BY <2>1, <3>1, <3>2 DEF Start, Call, Selecting
  <2>3. CardTypes'
    BY <1>1, <1>2, <2>1, <2>2 DEF CardTypes
  <2>4. todo' \in Opening /\ todo' \notin Asking /\ todo' \notin Taking \cup Finishing
    BY <2>2 DEF Opening, Selecting, Asking, Taking, Finishing
  <2>5. CallForm(todo') /\ arg'.block = block_'
    BY <1>2, <2>1, <2>2, <2>4 DEF CallForm
  <2>6. CASE inBlock_
    <3>1. selected /\ card.pos = offset_
      BY <2>2, <2>6, AtStart
    <3>2. BlockOpen' /\ BlockShut' /\ StreamOpen' /\ ReadFits'
      BY <1>1, <2>2, <2>4, <2>5, <2>6, <3>1 DEF BlockOpen, BlockShut, StreamOpen, ReadFits
    <3> QED
      BY <1>1, <1>3, <2>3, <2>5, <3>2 DEF CardFacts
  <2>7. CASE ~inBlock_
    <3>1. card.pos = BlockSize + CrcSize /\ inBlock_' = FALSE
      BY <1>1, <2>2, <2>7, AtStart DEF CardTypes
    <3> QED
      BY <1>1, <1>3, <2>3, <2>4, <2>5, <3>1, ShutKept
  <2> QED
    BY <2>6, <2>7
<1> QED
  BY <1>4, <1>5, <1>6

\* A call that releases the card at its end; one that begins while a block is open first ends it.
LEMMA StartReleasing ==
    ASSUME CardFacts, todo = <<>>, CallForm(todo'), Releasing(todo') \/ todo' \in Others,
           inBlock_ => Head(todo') = "readEnd" \/ Head(todo') = "begin", arg' = NoArg, UNCHANGED cardVars,
           stream' = "open" => stream = "open" /\ Head(todo') = "begin",
           stream = "open" /\ ~Releasing(todo') => stream' = "open"
    PROVE  CardFacts'
<1>1. /\ CardTypes /\ selected = chip_select_asserted /\ fetched.want = fetched.got
      /\ UNCHANGED <<inBlock_, block_, offset_, chip_select_asserted, selected, card, fetched>>
  BY DEF CardFacts, cardVars
<1>2. CardTypes'
  <2>1. NoArg \in [f : Pointers, block : Blocks \cup {0}, offset : Nat, count : Nat]
    BY DEF NoArg, Pointers
  <2> QED
    BY <1>1, <2>1 DEF CardTypes
<1>3. todo' \notin Opening \cup Taking \cup Finishing
  BY FormsApart
<1>4. CASE inBlock_
  <2>1. BlockOpen' /\ BlockShut' /\ StreamOpen' /\ ReadFits'
    BY <1>1, <1>3, <1>4, AtStart DEF BlockOpen, BlockShut, StreamOpen, ReadFits, Opening
  <2> QED
    BY <1>1, <1>2, <2>1 DEF CardFacts
<1>5. CASE ~inBlock_
  <2>1. /\ card.pos = BlockSize + CrcSize /\ inBlock_' = FALSE
        /\ selected' => Releasing(todo') \/ stream' = "open"
        /\ stream' = "open" => selected'
    BY <1>1, <1>5, AtStart DEF CardTypes
  <2> QED
    BY <1>1, <1>2, <1>3, <2>1, ShutKept DEF Opening
<1> QED
  BY <1>4, <1>5

LEMMA OtherCallKeeps ==
    ASSUME CardFacts, otherCall, ~misused'
    PROVE  CardFacts'
<1>1. PICK steps \in {Command \o <<"data", "wait">> \o Command \o Done, Fail,
                     Register \o Command \o Command \o Command \o <<"wait">> \o Done, Register,
                     <<"readEnd", "setPartial">>} :
         Start(steps, NoArg) /\ misused' = (misused \/ stream = "open" \/ (steps = Fail /\ inBlock_))
  BY DEF otherCall
<1>2. todo = <<>> /\ todo' = steps /\ arg' = NoArg /\ UNCHANGED cardVars /\ stream # "open" /\ stream' = "none"
  BY <1>1 DEF Start, Call, otherCall
<1>3. CASE steps = Fail
  BY <1>1, <1>2, <1>3, ReleaseLists, StartReleasing DEF CallForm
<1>4. CASE steps = <<"readEnd", "setPartial">>
  <2>1. Head(<<"readEnd", "setPartial">>) = "readEnd"
    OBVIOUS
  <2>2. steps \in Others
    BY <1>4 DEF Others
  <2> QED
    BY <1>2, <1>4, <2>1, <2>2, StartReleasing DEF CallForm
<1>5. CASE steps # Fail /\ steps # <<"readEnd", "setPartial">>
  <2>1. Releasing(steps) /\ Head(steps) = "readEnd"
    BY <1>1, <1>5, ReleaseLists, Zenon
  <2> QED
    BY <1>2, <2>1, StartReleasing DEF CallForm
<1> QED
  BY <1>3, <1>4, <1>5

LEMMA WriteStartKeeps ==
    ASSUME CardFacts, writeStart, ~misused'
    PROVE  CardFacts'
<1>1. PICK steps \in {Acmd \o Command \o <<"opened">>, Fail} :
         Start(steps, NoArg) /\ misused' = (misused \/ stream = "open" \/ (steps = Fail /\ inBlock_))
  BY DEF writeStart
<1>2. todo = <<>> /\ todo' = steps /\ arg' = NoArg /\ UNCHANGED cardVars /\ stream # "open" /\ stream' = "none"
  BY <1>1 DEF Start, Call, writeStart
<1>3. CASE steps = Fail
  BY <1>1, <1>2, <1>3, ReleaseLists, StartReleasing DEF CallForm
<1>4. CASE steps # Fail
  <2>1. Releasing(steps) /\ Head(steps) = "readEnd"
    BY <1>1, <1>4, ReleaseLists, Zenon
  <2> QED
    BY <1>2, <2>1, StartReleasing DEF CallForm
<1> QED
  BY <1>3, <1>4

LEMMA GoOnKeeps ==
    ASSUME CardFacts, writeData \/ writeStop, ~misused'
    PROVE  CardFacts'
<1>1. Releasing(todo')
  BY ReleaseLists DEF writeData, writeStop, GoOn, Start, Call
<1>2. /\ todo = <<>> /\ arg' = NoArg /\ UNCHANGED cardVars /\ ~inBlock_
      /\ stream' # "open"
  BY DEF writeData, writeStop, GoOn, Start, Call
<1> QED
  BY <1>1, <1>2, StartReleasing DEF CallForm

\* A call that hands the card on has it, unless it came late.
LEMMA OpenedKeeps ==
    ASSUME CardFacts, Opened, stream # "late" <=> selected, Linked(todo)
    PROVE  CardFacts'
<1>1. /\ CardTypes /\ CallForm(todo) /\ fetched.want = fetched.got /\ selected = chip_select_asserted
      /\ todo # <<>> /\ Head(todo) = "opened" /\ todo' = Tail(todo)
      /\ UNCHANGED <<inBlock_, block_, offset_, chip_select_asserted, selected, card, fetched, arg>>
      /\ stream' = IF stream = "late" THEN "late" ELSE "open"
  BY DEF CardFacts, Opened, Next, cardVars
<1>2. todo' = <<>> /\ <<>> \in Others
  BY <1>1, LinkedTail DEF Following, Others
<1>3. inBlock_ = FALSE /\ card.pos = BlockSize + CrcSize
  BY <1>1, ShutSteps
<1>4. CardTypes'
  BY <1>1 DEF CardTypes
<1> QED
  BY <1>1, <1>2, <1>3, <1>4, FormsApart, ShutKept DEF CallForm, Opening

LEMMA InitKeeps ==
    ASSUME CardFacts, init, ~misused'
    PROVE  CardFacts'
<1>1. PICK steps : steps = <<"begin", "transfer", "end", "low">> \o Command \o Acmd \o Command \o Done
  OBVIOUS
<1>2. Start(steps, NoArg)
  BY <1>1 DEF init
<1>3. /\ inBlock_' = FALSE /\ selected' = FALSE /\ card' = Resting /\ ~chip_select_asserted
      /\ UNCHANGED <<block_, offset_, chip_select_asserted, fetched>> /\ stream' = "none"
  BY DEF init
<1>4. todo' = steps /\ arg' = NoArg
  BY <1>2 DEF Start, Call
<1>5. Releasing(todo')
  BY <1>1, <1>4, ReleaseLists, Zenon
<1>6. CardTypes /\ fetched.want = fetched.got
  BY DEF CardFacts
<1>7. CardTypes' /\ card'.pos = BlockSize + CrcSize
  <2>1. NoArg \in [f : Pointers, block : Blocks \cup {0}, offset : Nat, count : Nat]
    BY DEF NoArg, Pointers
  <2>2. BlockSize + CrcSize \in Nat
    BY SdCardAssumption DEF CrcSize
  <2> QED
    BY <1>3, <1>4, <1>6, <2>1, <2>2 DEF CardTypes, Resting
<1>8. chip_select_asserted' = FALSE
  <2>1. selected \in BOOLEAN => chip_select_asserted = FALSE
    BY <1>3 DEF CardFacts
  <2> QED
    BY <1>3, <2>1
<1> QED
  BY <1>3, <1>5, <1>6, <1>7, <1>8, FormsApart, ShutKept DEF CallForm, Opening

\* The bus and the interrupt: the driver's state stays, and no step of theirs is one of the card.
LEMMA BusKeeps ==
    ASSUME BusInv, CardFacts, ~misused, SpiNext, UNCHANGED sdVars, ~misused'
    PROVE  CardFacts'
<1>1. /\ CardTypes /\ CallForm(todo) /\ selected = chip_select_asserted /\ fetched.want = fetched.got
      /\ UNCHANGED <<inBlock_, block_, offset_, chip_select_asserted, selected, card, fetched, stream>>
      /\ ~selected => stream # "open"
  BY DEF CardFacts, StreamOpen, sdVars, cardVars
<1>2. CASE UNCHANGED <<todo, arg>>
  <2>1. CardTypes' /\ BlockOpen' /\ BlockShut' /\ StreamOpen' /\ ReadFits'
    BY <1>1, <1>2 DEF CardFacts, CardTypes, BlockOpen, BlockShut, StreamOpen, ReadFits
  <2>2. CallForm(todo')
    BY <1>1, <1>2
  <2> QED
    BY <1>1, <2>1, <2>2 DEF CardFacts
<1>3. NoArg \in [f : Pointers, block : Blocks \cup {0}, offset : Nat, count : Nat]
  BY DEF NoArg, Pointers
<1>4. ASSUME arg' \in [f : Pointers, block : Blocks \cup {0}, offset : Nat, count : Nat],
             ~inBlock_, ~selected, card.pos = BlockSize + CrcSize, CallForm(todo'),
             todo' \notin Opening \cup Taking \cup Finishing
      PROVE  CardFacts'
  <2>1. CardTypes' /\ inBlock_' = FALSE
    BY <1>1, <1>4 DEF CardTypes
  <2> QED
    BY <1>1, <1>4, <2>1, ShutKept DEF Opening
<1>5. CASE attachInterrupt \/ detachInterrupt
  <2>1. todo = <<>> /\ (Attaching(todo') \/ Detaching(todo')) /\ ~(depth > 0)
        /\ arg' \in [f : Pointers, block : Blocks \cup {0}, offset : Nat, count : Nat]
    <3>1. CASE attachInterrupt
      <4>1. PICK f \in Functions : Call(<<"storeLow", "storeHigh", "enable">>, [NoArg EXCEPT !.f = f])
        BY <3>1 DEF attachInterrupt
      <4>2. [NoArg EXCEPT !.f = f] \in [f : Pointers, block : Blocks \cup {0}, offset : Nat, count : Nat]
        BY <1>3 DEF Pointers
      <4>3. ~(depth > 0)
        BY <3>1 DEF attachInterrupt
      <4> QED
        BY <4>1, <4>2, <4>3, AttachLists DEF Call, Attaching
    <3>2. CASE detachInterrupt
      BY <1>3, <3>2, AttachLists DEF detachInterrupt, DetachSteps, Call, Detaching
    <3> QED
      BY <1>5, <3>1, <3>2
  <2>2. ~chip_select_asserted
    BY <2>1 DEF BusInv, DepthInv
  <2>3. ~inBlock_ /\ ~selected /\ card.pos = BlockSize + CrcSize
    BY <1>1, <2>1, <2>2, AtStart DEF CardTypes
  <2> QED
    BY <1>4, <2>1, <2>3, FormsApart DEF CallForm
<1>6. CASE Store \/ SetINT0
  <2>1. /\ todo # <<>> /\ Head(todo) \in {"storeLow", "storeHigh", "enable", "disable"} /\ todo' = Tail(todo)
        /\ arg' = IF todo' = <<>> THEN NoArg ELSE arg
    BY <1>6 DEF Store, SetINT0, Next
  <2>2. /\ Attaching(todo) \/ Detaching(todo)
        /\ Attaching(todo') \/ Detaching(todo') \/ todo' = <<>>
    BY <1>1, <2>1, FormStep
  <2>3. ~inBlock_ /\ ~selected /\ card.pos = BlockSize + CrcSize
    BY <2>1, <2>2, ShutSteps, FormsApart
  <2>4. CallForm(todo') /\ todo' \notin Opening \cup Taking \cup Finishing
    <3>1. <<>> \in Others
      BY DEF Others
    <3> QED
      BY <2>2, <3>1, FormsApart DEF CallForm
  <2>5. arg' \in [f : Pointers, block : Blocks \cup {0}, offset : Nat, count : Nat]
    BY <1>1, <1>3, <2>1 DEF CardTypes
  <2> QED
    BY <1>4, <2>3, <2>4, <2>5
<1>7. CASE access
  <2>1. todo = <<>> /\ todo' = <<"begin", "transfer", "end">> /\ arg' = NoArg
    BY <1>7 DEF access, Call
  <2>2. Head(<<"begin", "transfer", "end">>) = "begin" /\ <<"begin", "transfer", "end">> \in Others
    BY DEF Others
  <2>3. UNCHANGED cardVars /\ stream' = stream
    BY <1>1 DEF sdVars
  <2> QED
    BY <2>1, <2>2, <2>3, StartReleasing DEF CallForm
<1>8. CASE Transaction
  <2>1. todo # <<>> /\ Head(todo) \in {"begin", "transfer", "end"} /\ todo' = Tail(todo) /\ arg' = arg
    BY <1>8 DEF Transaction, Next
  <2>2. \/ Releasing(todo) /\ Releasing(todo')
        \/ todo \in Others /\ todo' \in Others
    BY <1>1, <2>1, FormStep
  <2>3. Head(todo) = "begin" => ~chip_select_asserted
    <3>1. SUFFICES ASSUME Head(todo) = "begin" PROVE ~chip_select_asserted
      OBVIOUS
    <3>2. beginTransaction
      BY <1>8, <3>1 DEF Transaction, Next
    <3>3. ~(depth > 0)
      BY <3>2 DEF beginTransaction
    <3>4. depth = IF chip_select_asserted \/ Inside(todo) THEN 1 ELSE 0
      BY DEF BusInv, DepthInv
    <3> QED
      BY <3>3, <3>4
  <2>4. /\ inBlock_ = FALSE /\ card.pos = BlockSize + CrcSize /\ (selected => (Releasing(todo) \/ todo \in Opening))
        /\ stream # "open"
    <3>1. CASE Head(todo) = "begin"
      BY <1>1, <2>3, <3>1 DEF CardFacts, BlockOpen, BlockShut, CardTypes
    <3>2. CASE Head(todo) # "begin"
      BY <2>1, <3>2, ShutSteps, NoStream
    <3> QED
      BY <3>1, <3>2
  <2>5. CardTypes'
    BY <1>1, <2>1 DEF CardTypes
  <2>6. CallForm(todo') /\ todo' \notin Opening \cup Taking \cup Finishing
    BY <2>2, FormsApart DEF CallForm
  <2>7. selected => Releasing(todo')
    BY <2>2, <2>4, FormsApart
  <2> QED
    BY <1>1, <2>4, <2>5, <2>6, <2>7, ShutKept DEF Opening
<1>9. CASE usingInterrupt \/ notUsingInterrupt \/ begin \/ end \/ interrupts \/ INT0_vect
  BY <1>2, <1>9 DEF usingInterrupt, notUsingInterrupt, begin, end, interrupts, INT0_vect
<1> QED
  BY <1>5, <1>6, <1>7, <1>8, <1>9 DEF SpiNext

(***************************************************************************)
(* The bus is clocked in a transaction: the order of a call's steps        *)
(* (Linked) says that it is open when one of them comes, as it was for the *)
(* step before.  A late call of a multiple block write never selects.      *)
(***************************************************************************)
Lowless(s) == s \in Seq(Steps \ {"low"})

ChainFacts ==
    /\ Linked(todo)
    /\ todo # <<>> /\ Head(todo) \in Held => depth > 0 \/ stream = "late"
    /\ stream = "late" => ~selected /\ Lowless(todo)

ChainInv == ~misused => ChainFacts

\* A step after which the call goes on.
LEMMA Moves ==
    ASSUME ChainFacts, todo # <<>>, todo' = Tail(todo),
           stream = "late" <=> stream' = "late",
           Head(todo) \in Clocking => depth' = depth,
           Head(todo) \in {"low", "begin"} => depth' > 0,
           selected' => selected \/ Head(todo) = "low"
    PROVE  ChainFacts'
<1>1. Linked(todo') /\ (todo' # <<>> => Following(Head(todo), Head(todo')))
  BY LinkedTail DEF ChainFacts
<1>2. ASSUME stream' = "late" PROVE ~selected' /\ Lowless(todo')
  <2>1. ~selected /\ todo \in Seq(Steps \ {"low"})
    BY <1>2 DEF ChainFacts, Lowless
  <2>2. Head(todo) # "low" /\ Tail(todo) \in Seq(Steps \ {"low"})
    BY <2>1, HeadTailProperties
  <2> QED
    BY <2>1, <2>2 DEF Lowless
<1>3. ASSUME todo' # <<>>, Head(todo') \in Held PROVE depth' > 0 \/ stream' = "late"
  <2>1. Head(todo) \in Clocking \cup {"low", "begin"}
    BY <1>1, <1>3 DEF Following
  <2>2. CASE Head(todo) \in Clocking
    BY <2>2 DEF ChainFacts, Held
  <2> QED
    BY <2>1, <2>2
<1> QED
  BY <1>1, <1>2, <1>3 DEF ChainFacts

\* A step that fails.
LEMMA Fallen ==
    ASSUME ChainFacts, todo' = Fail, stream' = stream, selected' => selected
    PROVE  ChainFacts'
<1>1. Linked(todo') /\ todo' # <<>> /\ Head(todo') = "high"
  BY GoesPieces DEF Goes, Fail
<1>2. "high" \notin Held
  BY DEF Held, Clocking
<1>3. Lowless(todo')
  BY DEF Fail, Lowless, Steps, AllOps, CardOps
<1> QED
  BY <1>1, <1>2, <1>3 DEF ChainFacts

\* A call that starts.
LEMMA Starts ==
    ASSUME NEW a, NEW b, Goes(todo', a, b), a \in Held => depth' > 0 \/ stream' = "late",
           stream' = "late" => ~selected' /\ Lowless(todo')
    PROVE  ChainFacts'
<1>1. Linked(todo') /\ todo' # <<>> /\ Head(todo') = a
  <2>1. Linked(todo') /\ todo' # <<>> /\ todo'[1] = a /\ todo' \in Seq(Steps)
    BY DEF Goes, Linked
  <2> QED
    BY <2>1, HeadTailProperties
<1> QED
  BY <1>1 DEF ChainFacts

LEMMA DriverChain ==
    ASSUME BusInv', ~misused', ChainFacts,
           readEnd \/ ChipSelect \/ Exchange \/ StartBlock \/ StartRegister \/ Take \/ SetPartial \/ Opened
    PROVE  ChainFacts'
<1> USE DEF Next, Clocking
<1>1. CASE readEnd
  BY <1>1, Moves DEF readEnd, quietVars, High
<1>2. CASE ChipSelect
  <2>1. todo # <<>> /\ todo' = Tail(todo) /\ Head(todo) \in {"low", "high"} /\ stream' = stream
    BY <1>2 DEF ChipSelect
  <2>2. CASE Head(todo) = "low"
    <3>1. chip_select_asserted' = TRUE
      BY <1>2, <2>2 DEF ChipSelect, Low
    <3>2. depth' = 1
      BY <3>1 DEF BusInv, DepthInv
    <3> QED
      BY <2>1, <2>2, <3>2, Moves
  <2>3. CASE Head(todo) = "high"
    <3>1. selected' = FALSE
      BY <1>2, <2>3 DEF ChipSelect, High
    <3> QED
      BY <2>1, <2>3, <3>1, Moves
  <2> QED
    BY <2>1, <2>2, <2>3
<1>3. CASE Exchange
  <2>1. /\ todo # <<>> /\ Head(todo) \in {"command", "wait", "data", "ignored"}
        /\ todo' = Tail(todo) \/ todo' = Fail
        /\ UNCHANGED <<depth, stream, selected>>
    BY <1>3 DEF Exchange, Fails, busVars, sdVars, cardVars
  <2> QED
    BY <2>1, Moves, Fallen
<1>4. CASE StartBlock
  <2>1. /\ todo # <<>> /\ Head(todo) = "start" /\ stream' = stream /\ (selected' => selected)
        /\ (todo' = Tail(todo) /\ depth' = depth) \/ todo' = Fail
    BY <1>4 DEF StartBlock, quietVars, busVars, High
  <2> QED
    BY <2>1, Moves, Fallen
<1>5. CASE StartRegister
  <2>1. /\ todo # <<>> /\ Head(todo) = "startRegister" /\ stream' = stream /\ (selected' => selected)
        /\ (todo' = Tail(todo) /\ depth' = depth) \/ todo' = Fail
    BY <1>5 DEF StartRegister, quietVars, busVars, High
  <2> QED
    BY <2>1, Moves, Fallen
<1>6. CASE Take
  BY <1>6, Moves DEF Take, busVars
<1>7. CASE SetPartial
  BY <1>7, Moves DEF SetPartial, quietVars, busVars
<1>8. CASE Opened
  BY <1>8, Moves DEF Opened, busVars, cardVars
<1> QED
  BY <1>1, <1>2, <1>3, <1>4, <1>5, <1>6, <1>7, <1>8

LEMMA LateLists ==
    /\ Lowless(<<"wait", "data", "opened">>) /\ Lowless(<<"wait", "transfer", "wait">> \o Done)
    /\ Lowless(<<"begin", "transfer", "end">>) /\ Lowless(<<"storeLow", "storeHigh", "enable">>)
    /\ Lowless(<<"disable", "storeLow", "storeHigh">>)
<1> USE DEF Lowless, Steps, AllOps, CardOps
<1>1. Lowless(<<"wait", "data", "opened">>) /\ Lowless(<<"wait", "transfer", "wait">>) /\ Lowless(Done)
  BY DEF Done
<1>2. Lowless(<<"begin", "transfer", "end">>) /\ Lowless(<<"storeLow", "storeHigh", "enable">>)
  OBVIOUS
<1>3. Lowless(<<"disable", "storeLow", "storeHigh">>)
  OBVIOUS
<1>4. Lowless(<<"wait", "transfer", "wait">> \o Done)
  BY <1>1, ConcatProperties
<1> QED
  BY <1>1, <1>2, <1>3, <1>4

\* Where a call starts, the transaction is open if the card is selected.
LEMMA OpenAtStart ==
    ASSUME BusInv, ~misused, CardFacts, selected
    PROVE  depth > 0
<1>1. chip_select_asserted
  BY DEF CardFacts
<1> QED
  BY <1>1 DEF BusInv, DepthInv

LEMMA CallChain ==
    ASSUME BusInv, ~misused, CardFacts, ~misused',
           \/ \E block \in Blocks, offset, count \in 0 .. BlockSize : count > 0 /\ readData(block, offset, count)
           \/ otherCall \/ writeStart \/ writeData \/ writeStop \/ init
    PROVE  ChainFacts'
<1>1. ASSUME NEW block, NEW offset, NEW count, readData(block, offset, count) PROVE ChainFacts'
  <2>1. stream' = "none"
    BY <1>1 DEF readData
  <2>2. \/ todo' = Fail
        \/ todo' = <<"take", "readEndIfDone">> /\ inBlock_ /\ depth' = depth
        \/ todo' = Command \o <<"start", "take", "readEndIfDone">>
    <3>1. CASE offset + count > BlockSize
      BY <1>1, <3>1 DEF readData, Start, Call
    <3>2. CASE ~(offset + count > BlockSize)
      BY <1>1, <3>2 DEF readData, Start, Call
    <3> QED
      BY <3>1, <3>2
  <2>3. inBlock_ => depth > 0
    BY OpenAtStart DEF CardFacts, BlockOpen
  <2>4. "high" \notin Held /\ "readEnd" \notin Held
    BY DEF Held, Clocking
  <2> QED
    BY <2>1, <2>2, <2>3, <2>4, GoesPieces, GoesLists, Starts
<1>2. CASE otherCall
  <2>1. stream' = "none" /\ todo' \in {Command \o <<"data", "wait">> \o Command \o Done, Fail,
                     Register \o Command \o Command \o Command \o <<"wait">> \o Done, Register,
                     <<"readEnd", "setPartial">>}
    BY <1>2, Zenon DEF otherCall, Start, Call
  <2>2. "high" \notin Held /\ "readEnd" \notin Held /\ "none" # "late"
    BY DEF Held, Clocking
  <2>3. Goes(todo', "readEnd", "high") \/ Goes(todo', "high", "high") \/ Goes(todo', "readEnd", "setPartial")
    BY <2>1, GoesPieces, GoesLists, Zenon
  <2>4. PICK a, b : a \in {"high", "readEnd"} /\ Goes(todo', a, b)
    BY <2>3
  <2> QED
    BY <2>1, <2>2, <2>4, Starts
<1>3. CASE writeStart
  <2>1. stream' = "none" /\ todo' \in {Acmd \o Command \o <<"opened">>, Fail}
    BY <1>3, Zenon DEF writeStart, Start, Call
  <2>2. "high" \notin Held /\ "readEnd" \notin Held /\ "none" # "late"
    BY DEF Held, Clocking
  <2>3. Goes(todo', "readEnd", "opened") \/ Goes(todo', "high", "high")
    BY <2>1, GoesPieces, GoesLists, Zenon
  <2>4. PICK a, b : a \in {"high", "readEnd"} /\ Goes(todo', a, b)
    BY <2>3
  <2> QED
    BY <2>1, <2>2, <2>4, Starts
<1>4. CASE writeData \/ writeStop
  <2>1. /\ todo' = <<"wait", "data", "opened">> \/ todo' = <<"wait", "transfer", "wait">> \o Done
        /\ todo = <<>> /\ depth' = depth /\ ~inBlock_ /\ selected' = selected
        /\ stream' = IF stream = "open" THEN "none" ELSE "late"
    BY <1>4 DEF writeData, writeStop, GoOn, Start, Call, cardVars
  <2>2. stream = "open" => depth > 0
    BY OpenAtStart DEF CardFacts, StreamOpen
  <2>3. stream # "open" => ~selected
    BY <2>1, AtStart
  <2> QED
    BY <2>1, <2>2, <2>3, GoesPieces, GoesLists, LateLists, Starts
<1>5. CASE init
  <2>1. stream' = "none" /\ Goes(todo', "begin", "high")
    BY <1>5, GoesLists, Zenon DEF init, Start, Call
  <2>2. "begin" \notin Held
    BY DEF Held, Clocking
  <2> QED
    BY <2>1, <2>2, Starts
<1> QED
  BY <1>1, <1>2, <1>3, <1>4, <1>5

LEMMA BusChain ==
    ASSUME BusInv, ~misused, ChainFacts, ~misused', SpiNext, UNCHANGED sdVars
    PROVE  ChainFacts'
<1>1. UNCHANGED <<stream, selected>>
  BY DEF sdVars, cardVars
<1>2. CASE UNCHANGED <<todo, depth>>
  BY <1>1, <1>2 DEF ChainFacts
<1>3. /\ Goes(<<"begin", "transfer", "end">>, "begin", "end")
      /\ Goes(<<"storeLow", "storeHigh", "enable">>, "storeLow", "enable")
      /\ Goes(<<"disable", "storeLow", "storeHigh">>, "disable", "storeHigh")
      /\ "begin" \notin Held /\ "storeLow" \notin Held /\ "disable" \notin Held
  BY GoesPieces DEF Held, Clocking
<1>4. CASE attachInterrupt
  <2>1. todo' = <<"storeLow", "storeHigh", "enable">>
    BY <1>4 DEF attachInterrupt, Call
  <2> QED
    BY <1>1, <1>3, <2>1, LateLists, Starts DEF ChainFacts
<1>5. CASE detachInterrupt
  <2>1. todo' = <<"disable", "storeLow", "storeHigh">>
    BY <1>5 DEF detachInterrupt, DetachSteps, Call
  <2> QED
    BY <1>1, <1>3, <2>1, LateLists, Starts DEF ChainFacts
<1>6. CASE access
  <2>1. todo' = <<"begin", "transfer", "end">>
    BY <1>6 DEF access, Call
  <2> QED
    BY <1>1, <1>3, <2>1, LateLists, Starts DEF ChainFacts
<1>7. CASE Store \/ SetINT0
  <2>1. todo # <<>> /\ todo' = Tail(todo) /\ Head(todo) \in {"storeLow", "storeHigh", "enable", "disable"}
    BY <1>7 DEF Store, SetINT0, Next
  <2> QED
    BY <1>1, <2>1, Moves DEF Clocking
<1>8. CASE Transaction
  <2>1. todo # <<>> /\ todo' = Tail(todo) /\ Head(todo) \in {"begin", "transfer", "end"}
    BY <1>8 DEF Transaction, Next
  <2>2. Head(todo) = "begin" => depth' > 0
    <3>1. depth \in Nat
      BY DEF BusInv, BusTypes
    <3>2. Head(todo) = "begin" => depth' = depth + 1
      BY <1>8 DEF Transaction, Next, beginTransaction
    <3> QED
      BY <3>1, <3>2
  <2>3. Head(todo) = "transfer" => depth' = depth
    BY <1>8 DEF Transaction, Next
  <2> QED
    BY <1>1, <2>1, <2>2, <2>3, Moves DEF Clocking
<1>9. CASE usingInterrupt \/ notUsingInterrupt \/ begin \/ end \/ interrupts \/ INT0_vect
  BY <1>2, <1>9 DEF usingInterrupt, notUsingInterrupt, begin, end, interrupts, INT0_vect
<1> QED
  BY <1>4, <1>5, <1>6, <1>7, <1>8, <1>9 DEF SpiNext

LEMMA ChainStep ==
    ASSUME BusInv, CardInv, ChainInv, [~misused /\ SdCardNext]_busCardVars
    PROVE  ChainInv'
<1>1. CASE UNCHANGED busCardVars
  <2>1. UNCHANGED <<misused, todo, depth, stream, selected>>
    BY <1>1 DEF busCardVars, spiVars, sdVars, cardVars
  <2> QED
    BY <2>1 DEF ChainInv, ChainFacts
<1>2. CASE ~misused /\ SdCardNext
  <2> SUFFICES ASSUME ~misused' PROVE ChainFacts'
    BY DEF ChainInv
  <2>1. CardFacts /\ ChainFacts /\ BusInv'
    BY <1>2, BusStep DEF CardInv, ChainInv
  <2>2. CASE readEnd \/ ChipSelect \/ Exchange \/ StartBlock \/ StartRegister \/ Take \/ SetPartial \/ Opened
    BY <2>1, <2>2, DriverChain
  <2>3. CASE SpiNext /\ UNCHANGED sdVars
    BY <1>2, <2>1, <2>3, BusChain
  <2> QED
    BY <1>2, <2>1, <2>2, <2>3, CallChain DEF SdCardNext
<1> QED
  BY <1>1, <1>2

LEMMA ChainStart == SdCardInit => ChainInv
<1> SUFFICES ASSUME SdCardInit PROVE ChainFacts
  BY DEF ChainInv
<1>1. todo = <<>> /\ stream = "none"
  BY DEF SdCardInit, SpiInit
<1>2. Linked(<<>>)
  BY DEF Linked
<1> QED
  BY <1>1, <1>2 DEF ChainFacts

LEMMA CardStep ==
    ASSUME BusInv, CardInv, ChainInv, [~misused /\ SdCardNext]_busCardVars
    PROVE  CardInv'
<1>1. CASE UNCHANGED busCardVars
  <2>1. UNCHANGED <<misused, todo, arg, inBlock_, block_, offset_, chip_select_asserted, selected, card, fetched, stream>>
    BY <1>1 DEF busCardVars, spiVars, sdVars, cardVars
  <2>2. CallForm(todo') <=> CallForm(todo)
    BY <2>1
  <2> QED
    BY <2>1, <2>2 DEF CardInv, CardFacts, CardTypes, BlockOpen, BlockShut, StreamOpen, ReadFits
<1>2. CASE ~misused /\ SdCardNext
  <2> SUFFICES ASSUME ~misused' PROVE CardFacts'
    BY DEF CardInv
  <2>1. CardFacts
    BY <1>2 DEF CardInv
  <2>2. CASE readEnd \/ ChipSelect \/ Exchange \/ StartBlock \/ StartRegister \/ Take \/ SetPartial
    BY <2>1, <2>2, ReadEndKeeps, ChipSelectKeeps, ExchangeKeeps, StartBlockKeeps, StartRegisterKeeps, TakeKeeps,
       SetPartialKeeps
  <2>3. CASE \E block \in Blocks, offset, count \in 0 .. BlockSize : count > 0 /\ readData(block, offset, count)
    BY <2>1, <2>3, ReadDataKeeps
  <2>4. CASE otherCall \/ writeStart \/ writeData \/ writeStop \/ init
    BY <2>1, <2>4, OtherCallKeeps, WriteStartKeeps, GoOnKeeps, InitKeeps
  <2>5. CASE SpiNext /\ UNCHANGED sdVars
    BY <1>2, <2>1, <2>5, BusKeeps
  <2>6. CASE Opened
    <3>1. ChainFacts /\ todo # <<>> /\ Head(todo) = "opened"
      BY <1>2, <2>6 DEF ChainInv, Opened, Next
    <3>2. Linked(todo) /\ (depth > 0 \/ stream = "late") /\ (stream = "late" => ~selected)
      BY <3>1 DEF ChainFacts, Held
    <3>3. ~Inside(todo)
      BY <3>1 DEF Inside, Transferring, Ending, Leads
    <3>4. depth = (IF chip_select_asserted THEN 1 ELSE 0) /\ selected = chip_select_asserted
      BY <1>2, <2>1, <3>3 DEF BusInv, DepthInv, CardFacts
    <3> QED
      BY <2>1, <2>6, <3>2, <3>4, OpenedKeeps
  <2> QED
    BY <1>2, <2>2, <2>3, <2>4, <2>5, <2>6 DEF SdCardNext
<1> QED
  BY <1>1, <1>2

LEMMA CardStart == SdCardInit => CardInv
<1> SUFFICES ASSUME SdCardInit PROVE CardFacts
  BY DEF CardInv
<1>1. todo = <<>> /\ todo \in Others /\ todo \notin Opening \cup Taking \cup Finishing
  BY FormsApart DEF SdCardInit, SpiInit, Others
<1>2. BlockSize + CrcSize \in Nat
  BY SdCardAssumption DEF CrcSize
<1>3. CardTypes
  BY <1>2 DEF SdCardInit, SpiInit, CardTypes, Resting, NoArg, Pointers
<1>4. BlockOpen /\ BlockShut /\ StreamOpen /\ ReadFits
  BY <1>1 DEF SdCardInit, SpiInit, BlockOpen, BlockShut, StreamOpen, ReadFits, Resting, Opening
<1>5. CallForm(todo)
  BY <1>1 DEF CallForm
<1> QED
  BY <1>3, <1>4, <1>5 DEF SdCardInit, CardFacts, Nothing

(* A call of the card's driver gives the bus back with the card released   *)
(* and nothing left to send, whatever step of it fails, unless it is a     *)
(* partial read, or a writeStart() or writeData() that succeeds, which keep*)
(* both; the driver clocks the bus in a transaction only, unless it is a   *)
(* writeData() or writeStop() that no successful call came before; and     *)
(* readData() gets the bytes of the block and offset it was asked for, also*)
(* when the card goes on from an earlier call (Sd2Card.cpp:160-180,        *)
(* 376-467, 604-706), for every size of a block and every sequence of calls*)
(* that keeps to the rules.                                                *)
THEOREM CardIsKept == SdCardSpec => []CardKept
<1>1. ASSUME BusInv, CardInv, ChainInv PROVE CardKept
  <2>1. CASE misused
    BY <2>1 DEF CardKept, CardReleased, ClockedInside, ReadIsRight
  <2>2. CASE ~misused
    <3>1. CardFacts
      BY <1>1, <2>2 DEF CardInv
    <3>2. ReadIsRight
      BY <3>1 DEF ReadIsRight, CardFacts
    <3>3. ASSUME todo = <<>>
          PROVE  /\ selected = chip_select_asserted /\ selected = (depth > 0)
                 /\ selected = (inBlock_ \/ stream = "open") /\ ~(inBlock_ /\ stream = "open")
                 /\ ~inBlock_ => card.pos = BlockSize + CrcSize
      <4>1. selected = chip_select_asserted /\ inBlock_ \in BOOLEAN
        BY <3>1 DEF CardFacts, CardTypes
      <4>2. /\ inBlock_ => selected /\ stream # "open"
            /\ ~inBlock_ => card.pos = BlockSize + CrcSize /\ (selected => stream = "open")
            /\ stream = "open" => selected
        BY <3>1, <3>3, AtStart
      <4>3. chip_select_asserted \in BOOLEAN /\ depth = IF chip_select_asserted THEN 1 ELSE 0
        BY <1>1, <2>2, <3>3, NothingLeft DEF BusInv, BusTypes, DepthInv
      <4>4. (depth > 0) = chip_select_asserted
        BY <4>3
      <4>5. selected = (inBlock_ \/ stream = "open")
        BY <4>1, <4>2, <4>3, Zenon
      <4> QED
        BY <4>1, <4>2, <4>4, <4>5
    <3>4. ClockedInside
      BY <1>1, <2>2 DEF ClockedInside, ChainInv, ChainFacts, Held
    <3> QED
      BY <3>2, <3>3, <3>4 DEF CardKept, CardReleased
  <2> QED
    BY <2>1, <2>2
<1> QED
  BY <1>1, BusStart, BusStep, CardStart, CardStep, ChainStart, ChainStep, PTL DEF SdCardSpec
==============================================================================
