--------------------------------- MODULE Temp ---------------------------------
(***************************************************************************)
(* The thermometer: readings of a thermistor through the A/D converter,    *)
(* one or eight of them added up, looked up in a table for each unit.      *)
(* What lies past the end of a table in flash may be any word.  No handler *)
(* uses the converter.                                                     *)
(***************************************************************************)
EXTENDS Integers, Sequences

CONSTANTS
    Readings,   \* of one conversion, 0 .. 1023 in the chip
    Noise       \* bound: how far two samples of a call differ

VARIABLES
    sampled,    \* the call in progress: its unit, the readings to take, their sum
    extremes,   \* the least and the greatest reading of it
    degrees     \* what it returned

tempVars == <<sampled, extremes, degrees>>

\* TEMP_Fahrenheit_pos of 0 to 140 degrees
Fahrenheit == <<
    938, 935, 932, 929, 926, 923, 920, 916, 913, 909, 906, 902, 898, 894, 891, 887, 882, 878, 874, 870,
    865, 861, 856, 851, 847, 842, 837, 832, 827, 822, 816, 811, 806, 800, 795, 789, 783, 778, 772, 766,
    760, 754, 748, 742, 735, 729, 723, 716, 710, 703, 697, 690, 684, 677, 670, 663, 657, 650, 643, 636,
    629, 622, 616, 609, 602, 595, 588, 581, 574, 567, 560, 553, 546, 539, 533, 526, 519, 512, 505, 498,
    492, 485, 478, 472, 465, 459, 452, 446, 439, 433, 426, 420, 414, 408, 402, 396, 390, 384, 378, 372,
    366, 360, 355, 349, 344, 338, 333, 327, 322, 317, 312, 307, 302, 297, 292, 287, 282, 277, 273, 268,
    264, 259, 255, 251, 246, 242, 238, 234, 230, 226, 222, 219, 215, 211, 207, 204, 200, 197, 194, 190,
    187>>
\* TEMP_Celsius_pos of 0 to 60 degrees, TEMP_Celsius_neg of -1 to -15
CelsiusPos == <<
    806, 796, 786, 775, 765, 754, 743, 732, 720, 709, 697, 685, 673, 661, 649, 636, 624, 611, 599, 586,
    574, 562, 549, 537, 524, 512, 500, 488, 476, 464, 452, 440, 429, 418, 406, 396, 385, 374, 364, 354,
    344, 334, 324, 315, 306, 297, 288, 279, 271, 263, 255, 247, 240, 233, 225, 219, 212, 205, 199, 193,
    187>>
CelsiusNeg == <<815, 825, 834, 843, 851, 860, 868, 876, 883, 891, 898, 904, 911, 917, 923>>

------------------------------------------------------------------------------
\* The first of the entries that match, as a set of one index: none if none matches
First(matching) == {i \in matching : \A j \in matching : i <= j}

\* Forms an error could give the operators below; no action uses them.
SumOfFour(sum) == sum \div 4

\* The loops end after the last entry or past it; the words there decide where
mapToF(a2d) ==
    LET found == First({i \in 0 .. 140 : a2d > Fahrenheit[i + 1]})
    IN IF found = {} THEN {141, 142} ELSE found
mapToC(a2d) ==
    LET neg == First({i \in 0 .. 14 : a2d <= CelsiusNeg[i + 1]})
        pos == First({i \in 0 .. 60 : a2d >= CelsiusPos[i + 1]})
    IN CASE a2d > 810 -> {-i : i \in IF neg = {} THEN {0} \cup 15 .. 25 ELSE neg}
         [] a2d < 800 -> IF pos = {} THEN {0} \cup 61 .. 99 ELSE pos
         [] OTHER -> {0}

MapTo(unit, a2d) == IF unit = "FAHRENHEIT" THEN mapToF(a2d) ELSE mapToC(a2d)

\* getTemp(): v >>= 3
Averaged(sum) == sum \div 8

------------------------------------------------------------------------------
NoSample == [unit |-> "none", over |-> FALSE, left |-> 0, sum |-> 0]
TempInit == sampled = NoSample /\ extremes = <<0, 0>> /\ degrees = 0

getTemp ==
    /\ sampled = NoSample
    /\ \E unit \in {"CELSIUS", "FAHRENHEIT"}, over \in BOOLEAN, a2d \in Readings :
        /\ sampled' = [unit |-> unit, over |-> over, left |-> IF over THEN 7 ELSE 0, sum |-> a2d]
        /\ extremes' = <<a2d, a2d>>
    /\ UNCHANGED degrees

TakeSample ==
    /\ sampled.left > 0
    /\ \E a2d \in Readings \cap (extremes[2] - Noise .. extremes[1] + Noise) :
        /\ sampled' = [sampled EXCEPT !.left = @ - 1, !.sum = @ + a2d]
        /\ extremes' = <<IF a2d < extremes[1] THEN a2d ELSE extremes[1], IF a2d > extremes[2] THEN a2d ELSE extremes[2]>>
    /\ UNCHANGED degrees

Convert ==
    /\ sampled.unit \in {"CELSIUS", "FAHRENHEIT"} /\ sampled.left = 0
    /\ degrees' \in MapTo(sampled.unit, IF sampled.over THEN Averaged(sampled.sum) ELSE sampled.sum)
    /\ sampled' = [sampled EXCEPT !.unit = IF @ = "CELSIUS" THEN "C" ELSE "F"]
    /\ UNCHANGED extremes

TempReturns ==
    /\ sampled.unit \in {"C", "F"}
    /\ sampled' = NoSample /\ extremes' = <<0, 0>> /\ degrees' = 0

TempNext == getTemp \/ TakeSample \/ Convert \/ TempReturns

TempSpec == TempInit /\ [][TempNext]_tempVars

------------------------------------------------------------------------------
\* How far the other table is from a value, by 5 f = 9 c + 160
Apart(a2d, unit, value) ==
    {IF unit = "C" THEN 9 * value + 160 - 5 * other ELSE 9 * other + 160 - 5 * value :
        other \in IF unit = "C" THEN mapToF(a2d) ELSE mapToC(a2d)}

\* What getTemp() returns is the temperature of a reading between the least and the
\* greatest it took, and within both tables the other table has for that reading the
\* same temperature to two degrees Fahrenheit (ButterflyTemp.cpp:18-86,
\* ButterflyTemp.h:14-46).
ScalesAgree ==
    sampled.unit \in {"C", "F"} =>
        \E a2d \in extremes[1] .. extremes[2] :
            /\ degrees \in MapTo(IF sampled.unit = "C" THEN "CELSIUS" ELSE "FAHRENHEIT", a2d)
            /\ a2d \in 188 .. 923 => Apart(a2d, sampled.unit, degrees) \subseteq -10 .. 10
=============================================================================
