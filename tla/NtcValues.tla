------------------------------ MODULE NtcValues ------------------------------
(***************************************************************************)
(* The two tables of NTC_Table.c: the ADC values of a sensor, and its      *)
(* temperatures in tenths of a degree, with the value the source has at    *)
(* index 20.  Indices start at 0.                                          *)
(***************************************************************************)
EXTENDS Integers

ntcTableAdcDat ==
  LET dat == <<3496, 3466, 3435, 3404, 3371, 3338, 3303, 3268, 3232, 3195,
               3157, 3118, 3079, 3038, 2998, 2956, 2914, 2871, 2827, 2783,
               2739, 2694, 2648, 2603, 2557, 2511, 2464, 2418, 2371, 2325,
               2278, 2232, 2186, 2140, 2094, 2048, 2003, 1958, 1913, 1869,
               1825, 1782, 1739, 1697, 1655, 1614, 1574, 1534, 1495, 1457,
               1419, 1382, 1346, 1310, 1275, 1241, 1208, 1175, 1143, 1112,
               1082, 1052, 1023, 995, 967, 940, 914, 888, 863, 839,
               816, 793, 770, 749, 728, 707, 687, 668, 649, 631,
               613, 596, 579, 563, 547, 532>>
  IN  [i \in 0 .. 85 |-> dat[i + 1]]

\* -10 degrees to 75 degrees, one degree per entry, but for entry 20
ntcTableTemp == [i \in 0 .. 85 |-> IF i = 20 THEN 10 ELSE 10 * i - 100]
=============================================================================
