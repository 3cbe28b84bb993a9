------------------------------- MODULE NtcTable -------------------------------
(***************************************************************************)
(* The table of the temperature sensors (NTC_Table.c) and the search in    *)
(* it, EnddeviceApp_LookupTemp, one iteration of its loop per step.  The   *)
(* table falls from its first entry to its last; indices start at 0.       *)
(***************************************************************************)
EXTENDS Integers

CONSTANTS NTC_TABLE_SIZE,    \* 86 in the source
          AdcDat,            \* ntcTableAdcDat, a function on the indices
          Temp,              \* ntcTableTemp
          Beyond,            \* the word that follows ntcTableAdcDat
          Adcs               \* the values that are looked up

Last == NTC_TABLE_SIZE - 1

ASSUME TableAssumption ==
  /\ NTC_TABLE_SIZE \in 2 .. 128
  /\ AdcDat \in [0 .. Last -> Nat]
  /\ Adcs \subseteq 0 .. AdcDat[0]

ASSUME TempAssumption == Temp \in [0 .. Last -> Int]

\* 16-bit values, which fall along the table
ASSUME FallingAssumption ==
  /\ Beyond \in Nat /\ Beyond <= 65535
  /\ \A i \in 0 .. Last : AdcDat[i] <= 65535
  /\ \A i, j \in 0 .. Last : i < j => AdcDat[i] > AdcDat[j]

VARIABLES adcDat, left, mid, right, temp, searchPc

tableVars == <<adcDat, left, mid, right, temp, searchPc>>

\* the first two comparisons answer for the ends of the table
TableInit ==
  /\ adcDat \in Adcs
  /\ left = 0 /\ right = Last
  /\ mid = 0
  /\ IF adcDat = AdcDat[0] THEN searchPc = "done" /\ temp = Temp[0]
     ELSE IF adcDat = AdcDat[Last] THEN searchPc = "done" /\ temp = Temp[Last]
     ELSE searchPc = "search" /\ temp = 0

\* one iteration of the loop; right is an unsigned byte
Search ==
  /\ searchPc = "search"
  /\ mid' = (left + right) \div 2
  /\ \/ /\ adcDat < AdcDat[mid']
        /\ left' = mid' + 1
        /\ searchPc' = IF left' < right THEN "search" ELSE "interpolate"
        /\ UNCHANGED <<right, temp>>
     \/ /\ adcDat > AdcDat[mid']
        /\ right' = (mid' + 255) % 256
        /\ searchPc' = IF left < right' THEN "search" ELSE "interpolate"
        /\ UNCHANGED <<left, temp>>
     \/ /\ adcDat = AdcDat[mid']
        /\ temp' = Temp[mid']
        /\ searchPc' = "done"
        /\ UNCHANGED <<left, right>>
  /\ UNCHANGED adcDat

\* the table entry the code reads at i: past the end there is another object
Entry(i) == IF i = NTC_TABLE_SIZE THEN Beyond ELSE AdcDat[i]

\* ten tenths of a degree per entry, in 16-bit unsigned arithmetic
Part(above, below, gap) == (((above - below) * 10) % 65536) \div (gap % 65536)

\* Mutant: a value above the entry is taken for a warmer one.
Interpolate_adds ==
  /\ searchPc = "interpolate"
  /\ temp' = IF AdcDat[right] >= adcDat
             THEN Temp[right] + Part(AdcDat[right], adcDat,
                                     AdcDat[right] - Entry(right + 1))
             ELSE Temp[right] + Part(adcDat, AdcDat[right],
                                     AdcDat[right - 1] - AdcDat[right])
  /\ searchPc' = "done"
  /\ UNCHANGED <<adcDat, left, mid, right>>

Interpolate ==
  /\ searchPc = "interpolate"
  /\ temp' = IF AdcDat[right] >= adcDat
             THEN Temp[right] + Part(AdcDat[right], adcDat,
                                     AdcDat[right] - Entry(right + 1))
             ELSE Temp[right] - Part(adcDat, AdcDat[right],
                                     AdcDat[right - 1] - AdcDat[right])
  /\ searchPc' = "done"
  /\ UNCHANGED <<adcDat, left, mid, right>>

TableNext == Search \/ Interpolate

TableSpec == TableInit /\ [][TableNext]_tableVars

-----------------------------------------------------------------------------

SearchOK ==
  /\ adcDat \in Adcs
  /\ left \in 0 .. Last /\ mid \in 0 .. Last /\ right \in 0 .. Last
  /\ searchPc \in {"search", "interpolate", "done"}

TableTypeOK == SearchOK /\ temp \in Int

\* The search never loses the value: what it left behind on one side is above
\* the value, on the other side below it.
Bracketed ==
  searchPc # "done" =>
    /\ left <= right + 1
    /\ left > 0 => AdcDat[left - 1] > adcDat
    /\ right < Last => adcDat > AdcDat[right + 1]

\* The two entries the interpolation reads are the neighbours of the value;
\* only for a value below the last entry is one of them not in the table.
ReadsNeighbours ==
  searchPc = "interpolate" =>
    IF AdcDat[right] >= adcDat
    THEN IF right < Last THEN adcDat > AdcDat[right + 1]
                         ELSE adcDat < AdcDat[Last]
    ELSE right > 0 /\ AdcDat[right - 1] > adcDat

\* The entries of the table are one degree apart, which the interpolation
\* relies on (the factor 10 of NTC_Table.c:75 and 79): the temperature of a
\* value between two entries is between their degrees.  The temperature the
\* source has at index 20 is wrong (10 for 100, NTC_Table.c:30), but only an
\* ADC value equal to that entry, which is odd, would read it: the values are
\* even (EnddeviceApp.c:329-330).  A value below the table gets its last
\* temperature, although the word behind the table is read for it.
Degree(i) == Temp[0] + 10 * i

Accurate ==
  searchPc = "done" =>
    IF adcDat < AdcDat[Last] THEN temp = Temp[Last]
    ELSE \A i \in 0 .. Last - 1 :
           AdcDat[i] >= adcDat /\ adcDat >= AdcDat[i + 1]
             => Degree(i) <= temp /\ temp <= Degree(i + 1)
=============================================================================
