-------------------------------- MODULE Lcd --------------------------------
(***************************************************************************)
(* ButterflyLCD.cpp: a text in TextBuffer, which the LCD's frame interrupt *)
(* copies to the display when UpdateDisplay is set, and moves on by one    *)
(* character every ScrollCount frames if it is longer than the display.    *)
(* A call rewrites the buffer while the interrupt may read it, and then    *)
(* waits for the interrupt to have shown it.  A frame is longer than it    *)
(* takes to rewrite the buffer: at most one interrupt comes meanwhile.     *)
(*                                                                         *)
(* Characters are as written or, once translated, as the segment table has *)
(* them.  print() of a text of TextBufferSize characters ends it one byte  *)
(* after the buffer; that byte is not followed here.                       *)
(***************************************************************************)
EXTENDS Naturals, Sequences

CONSTANTS
    DisplaySize, TextBufferSize,    \* LCD_DISPLAY_SIZE, LCD_TEXTBUFFER_SIZE
    ScrollDefault, DelayDefault,    \* LCD_SCROLLCOUNT_DEFAULT, LCD_DELAYCOUNT_DEFAULT
    Texts                           \* bound: the texts printed

ASSUME LcdAssumption ==
    /\ DisplaySize \in Nat \ {0} /\ TextBufferSize \in Nat \ {0}
    /\ ScrollDefault \in Nat /\ DelayDefault \in Nat /\ \A t \in Texts : t \in Seq(STRING)

VARIABLES
    TextBuffer, StrStart, StrEnd, ScrollCount, ScrollFlags,
    UpdateDisplay, clearDisplay, ClearNext, cursorPosition,
    display,            \* what the digits show
    lcdTodo, framed,    \* what is left of a call, and that an interrupt came in it
    text, shownAt       \* history: the text to be shown, and where it began on the
                        \* display when it was shown last

flags == <<UpdateDisplay, clearDisplay, ClearNext, cursorPosition>>
lcdVars == <<TextBuffer, StrStart, StrEnd, ScrollCount, ScrollFlags, flags, display, lcdTodo, framed, text, shownAt>>

Empty == " "
Glyph(c) == CASE c = "a" -> "A" [] c = "b" -> "B" [] OTHER -> c
Digit == 0 .. DisplaySize - 1
DisplayPlaces == 0 .. TextBufferSize + DisplaySize     \* the array is one longer than its last place
Nulls == DisplaySize + 1

Op(op, n) == [op |-> op, at |-> n, c |-> Empty]
CharAt(at, c) == [op |-> "char", at |-> at, c |-> c]

\* begin() clears, shows that and returns
LcdInit ==
    /\ TextBuffer = [i \in DisplayPlaces |-> Empty] /\ StrStart = 1 /\ StrEnd = Nulls
    /\ ScrollCount = ScrollDefault + DelayDefault /\ ScrollFlags = FALSE
    /\ UpdateDisplay = FALSE /\ clearDisplay = FALSE /\ ClearNext = FALSE /\ cursorPosition = 0
    /\ display = [d \in Digit |-> Empty] /\ lcdTodo = <<>> /\ framed = FALSE
    /\ text = <<>> /\ shownAt = 0

------------------------------------------------------------------------------
\* Forms an error could give the operators below; no action uses them.
WrapLate(byte) == IF byte > StrEnd THEN byte - StrEnd ELSE byte

------------------------------------------------------------------------------
\* LCD_vect
Wrapped(byte) == IF byte >= StrEnd THEN byte - StrEnd ELSE byte

LCD_vect ==
    LET due == ScrollFlags /\ ScrollCount = 0
        from == IF clearDisplay THEN 0 ELSE cursorPosition
        between == lcdTodo # <<>> /\ Head(lcdTodo).op # "wait"
    IN /\ between => ~framed
       /\ framed' = between
       /\ ScrollCount' = CASE due -> ScrollDefault
                           [] ScrollFlags /\ ~due -> ScrollCount - 1
                           [] OTHER -> ScrollCount
       /\ IF UpdateDisplay \/ due
          THEN /\ display' = [d \in Digit |-> IF d < from THEN display[d] ELSE TextBuffer[Wrapped(StrStart + d - from)]]
               /\ StrStart' = IF StrStart = StrEnd THEN 1 ELSE StrStart + 1
               /\ UpdateDisplay' = FALSE /\ clearDisplay' = FALSE /\ shownAt' = from
          ELSE UNCHANGED <<display, StrStart, UpdateDisplay, clearDisplay, shownAt>>
       /\ UNCHANGED <<TextBuffer, StrEnd, ScrollFlags, ClearNext, cursorPosition, lcdTodo, text>>

------------------------------------------------------------------------------
\* The end of print(), appendc() and clear(): nulls, and all that the interrupt uses
Blanks(at) == [i \in 1 .. Nulls + 1 |-> CharAt(at + i - 1, IF i > Nulls THEN "0" ELSE Empty)]

Showing(n, last) == <<Op("start", 0), Op("end", n), Op("count", 0), Op("update", 0), Op(last, 0)>>

Finish(loadB) == <<Op("scroll", loadB)>> \o Blanks(loadB) \o Showing(loadB + Nulls, "wait")

Clearing == Blanks(0) \o <<Op("clearNext", 0)>> \o Showing(Nulls, "clear")

\* the first n characters of t, translated or as they are
Load(t, n) == [i \in 1 .. n |-> CharAt(i - 1, Glyph(t[i]))]
Raw(t) == [i \in 1 .. Len(t) |-> CharAt(i - 1, t[i])]

LcdCall(steps) == lcdTodo = <<>> /\ lcdTodo' = steps /\ framed' = FALSE
lcdRest == <<TextBuffer, StrStart, StrEnd, ScrollCount, ScrollFlags, UpdateDisplay, clearDisplay, display, shownAt>>

\* print() takes as much as there is room for; print_f() first copies the text
\* from flash into the same buffer, as it is, and print_f() and printNumber() then
\* call print()
print ==
    /\ \E t \in Texts :
          LET n == IF Len(t) < TextBufferSize THEN Len(t) ELSE TextBufferSize
          IN /\ \/ LcdCall(Load(t, n) \o Finish(n))
                \/ Len(t) <= TextBufferSize /\ LcdCall(Raw(t) \o Load(t, n) \o Finish(n))
             /\ text' = [i \in 1 .. n |-> Glyph(t[i])]
    /\ ClearNext' = FALSE
    /\ UNCHANGED <<cursorPosition, lcdRest>>

clear ==
    /\ LcdCall(Clearing) /\ text' = <<>>
    /\ UNCHANGED <<ClearNext, cursorPosition, lcdRest>>

\* appendc(): a new line has the next character clear the text; a full buffer is
\* shifted by one
append ==
    /\ \E c \in {"a", "b", "\n"} :
          LET old == IF ClearNext THEN <<>> ELSE text
              at == IF ClearNext THEN 0 ELSE StrEnd - DisplaySize - 1
              full == at = TextBufferSize
              moved == IF full THEN at - 1 ELSE at
              kept == IF full THEN Tail(old) ELSE old
              shift == IF full THEN Raw(kept) ELSE <<>>
              clearing == IF ClearNext THEN Clearing ELSE <<>>
          IN IF c = "\n"
             THEN /\ LcdCall(clearing \o shift \o <<Op("newline", 0)>> \o Finish(moved)) /\ text' = kept
             ELSE /\ LcdCall(clearing \o shift \o <<CharAt(moved, Glyph(c))>> \o Finish(moved + 1))
                  /\ text' = Append(kept, Glyph(c))
    /\ UNCHANGED <<ClearNext, cursorPosition, lcdRest>>

setCursor ==
    /\ lcdTodo = <<>> /\ cursorPosition' \in Digit
    /\ UNCHANGED <<ClearNext, text, lcdTodo, framed, lcdRest>>

showColons ==
    /\ LcdCall(<<Op("update", 0), Op("wait", 0)>>)
    /\ UNCHANGED <<ClearNext, cursorPosition, text, lcdRest>>

\* one step of a call; wait() ends once the interrupt has been
LcdStep ==
    LET step == Head(lcdTodo)
        at(op) == step.op = op
    IN /\ lcdTodo # <<>> /\ (at("wait") => ~UpdateDisplay)
       /\ lcdTodo' = Tail(lcdTodo)
       /\ TextBuffer' = IF at("char") /\ step.at \in DisplayPlaces THEN [TextBuffer EXCEPT ![step.at] = step.c] ELSE TextBuffer
       /\ ScrollFlags' = IF at("scroll") THEN step.at > DisplaySize ELSE ScrollFlags
       /\ StrStart' = IF at("start") THEN 0 ELSE StrStart
       /\ StrEnd' = IF at("end") THEN step.at ELSE StrEnd
       /\ ScrollCount' = IF at("count") THEN ScrollDefault + DelayDefault ELSE ScrollCount
       /\ UpdateDisplay' = (UpdateDisplay \/ at("update"))
       /\ clearDisplay' = (clearDisplay \/ at("clear"))
       /\ ClearNext' = (at("newline") \/ (ClearNext /\ ~at("clearNext")))
       /\ UNCHANGED <<cursorPosition, display, framed, text, shownAt>>

LcdNext == LCD_vect \/ print \/ clear \/ append \/ setCursor \/ showColons \/ LcdStep
LcdSpec == LcdInit /\ [][LcdNext]_lcdVars

------------------------------------------------------------------------------
\* Once a call is over and its text shown, the display shows that text from some
\* place on, with the blanks that end it, and nothing of the text before it or of
\* one half translated.
LcdShows ==
    lcdTodo = <<>> /\ ~UpdateDisplay =>
        LET long == Len(text) + Nulls
            ring == [i \in 0 .. long - 1 |-> IF i < Len(text) THEN text[i + 1] ELSE Empty]
        IN /\ StrEnd = long
           /\ \A d \in Digit : d >= shownAt => display[d] = ring[(StrStart - 1 + d - shownAt) % long]
=============================================================================
