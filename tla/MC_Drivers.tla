----------------------------- MODULE MC_Drivers -----------------------------
(***************************************************************************)
(* Four parts of the program that do not touch each other: the key driver  *)
(* with three of its keys and every combination of keys in one poll, the   *)
(* search in the table of the source, the heap, the lower half of the MAC. *)
(* A behaviour is one of the part that part names; the others rest in      *)
(* their initial states.                                                   *)
(***************************************************************************)
EXTENDS HalKey, NtcTable, NtcValues, OSAL_Memory, MacLowLevel

VARIABLE part

allVars == <<part, keyVars, tableVars, memVars, vars>>

MCKeys == {"DEC", "INC", "PWR"}

\* A sensor whose averaged sample is 1700 or more, or 150 or less, is broken
\* and is not looked up: the values are the doubles of 151 .. 1699.
MCAdcs == {2 * n : n \in 151 .. 1699}

\* The initial states of the parts; the parts at rest have one.
MCInit == /\ part \in {"keys", "table", "heap", "mac"}
          /\ KeyInit /\ MemInit /\ Init
          /\ TableInit /\ (part # "table" => adcDat = 302)

MCNext ==
  \/ part = "keys" /\ Poll /\ UNCHANGED <<part, tableVars, memVars, vars>>
  \/ part = "table" /\ TableNext /\ UNCHANGED <<part, keyVars, memVars, vars>>
  \/ part = "heap" /\ MemNext /\ UNCHANGED <<part, keyVars, tableVars, vars>>
  \/ part = "mac" /\ Next /\ UNCHANGED <<part, keyVars, tableVars, memVars>>

MCQuiet == part = "keys" /\ QuietPoll /\ UNCHANGED <<part, tableVars, memVars, vars>>

\* The fairness of the MAC asks nothing while another part is at work: its
\* actions are disabled only by what they say, so each is bound to the part.
MCSpec == MCInit /\ [][MCNext]_allVars /\ WF_allVars(MCQuiet)
          /\ (part = "mac" => MacFairness)
=============================================================================
