------------------------------- MODULE HalKey -------------------------------
(***************************************************************************)
(* The polled key driver (src/Components/hal/target/CC2530EB/hal_key.c).   *)
(* Every 100 ms HalKeyPoll reads the five keys and reports the ones that   *)
(* were released since the last poll: alone (NORMAL), while the power key  *)
(* is held (SHIFT), or as the release that ends a shift (SHIFTBOUNCE).     *)
(* The same key released twice in quick succession starts a double hit,    *)
(* which ends with EXIT_DOUBLE_HIT once the keys have been quiet.          *)
(***************************************************************************)
EXTENDS Naturals, Sequences

CONSTANTS Keys,                 \* the keys that are pressed in an instance
          MAX_DOUBLE_HIT_GAP,   \* 8 polls in the source
          Chords                \* TRUE: several keys may change in one poll

AllKeys == {"DEC", "INC", "PWR", "FLR", "AIR"}

ASSUME KeyAssumption ==
  /\ Keys \subseteq AllKeys
  /\ MAX_DOUBLE_HIT_GAP \in Nat \ {0}
  /\ Chords \in BOOLEAN

VARIABLES halKeySavedKeystate,    \* keys held at the last poll
          halKeySavedKeybounce,   \* keys of the last release
          hal_key_mode,           \* 0 normal, 1 shift, 3 double hit is over
          key_depressed_gap,      \* polls since the last release
          double_hit

keyVars == <<halKeySavedKeystate, halKeySavedKeybounce, hal_key_mode,
             key_depressed_gap, double_hit>>

States == {"NORMAL", "SHIFT", "SHIFTBOUNCE", "EXIT_DOUBLE_HIT"}
KeyMsg == [state : States, keys : SUBSET Keys]

KeyInit ==
  /\ halKeySavedKeystate = {}
  /\ halKeySavedKeybounce = {}
  /\ hal_key_mode = 0
  /\ key_depressed_gap = 0
  /\ double_hit = FALSE

KeyRestart ==
  /\ halKeySavedKeystate' = {}
  /\ halKeySavedKeybounce' = {}
  /\ hal_key_mode' = 0
  /\ key_depressed_gap' = 0
  /\ double_hit' = FALSE

-----------------------------------------------------------------------------
(* The steps of HalKeyPoll, for the keys "now" read by HalKeyRead          *)

HalKeyBounce(now) == halKeySavedKeystate \ now

\* after the end of a double hit was reported, the mode is normal again
ModeAfterExit == IF hal_key_mode = 3 THEN 0 ELSE hal_key_mode

StartsDoubleHit(bounce) ==
  /\ bounce # {}
  /\ bounce = halKeySavedKeybounce
  /\ bounce \cap {"DEC", "INC"} # {}
  /\ ModeAfterExit = 0
  /\ key_depressed_gap < MAX_DOUBLE_HIT_GAP

BounceState(now) ==
  IF "PWR" \in now THEN "SHIFT"
  ELSE IF ModeAfterExit = 1 THEN "SHIFTBOUNCE" ELSE "NORMAL"

Callbacks(now) ==
  LET bounce == HalKeyBounce(now) IN
  (IF hal_key_mode = 3 THEN <<[state |-> "EXIT_DOUBLE_HIT", keys |-> bounce]>>
                       ELSE <<>>)
  \o
  (IF bounce # {} THEN <<[state |-> BounceState(now), keys |-> bounce]>>
                  ELSE <<>>)

\* Mutant: a poll without a release ends the shift.
ModeAfterBounce_forgets(now) ==
  IF HalKeyBounce(now) # {} /\ "PWR" \in now THEN 1 ELSE 0

ModeAfterBounce(now) ==
  IF HalKeyBounce(now) = {} THEN ModeAfterExit
  ELSE IF "PWR" \in now THEN 1 ELSE 0

GapIsOver == key_depressed_gap >= MAX_DOUBLE_HIT_GAP

\* Mutant: the end of a double hit is not handed over to the next poll.
NextMode_noExit(now) == ModeAfterBounce(now)

\* the keys have been quiet for the whole gap: a double hit is over
NextMode(now) ==
  IF GapIsOver /\ (double_hit \/ StartsDoubleHit(HalKeyBounce(now)))
  THEN 3 ELSE ModeAfterBounce(now)

NextGap(now) ==
  IF HalKeyBounce(now) # {} THEN 1
  ELSE IF GapIsOver THEN MAX_DOUBLE_HIT_GAP ELSE key_depressed_gap + 1

HalKeyPoll(now) ==
  /\ hal_key_mode' = NextMode(now)
  /\ double_hit' = (~GapIsOver
                    /\ (double_hit \/ StartsDoubleHit(HalKeyBounce(now))))
  /\ halKeySavedKeystate' = now
  /\ halKeySavedKeybounce' =
       IF HalKeyBounce(now) # {} THEN HalKeyBounce(now)
                                 ELSE halKeySavedKeybounce
  /\ key_depressed_gap' = NextGap(now)

\* what the user's fingers can do between two polls
Reachable(now) ==
  \/ Chords
  \/ \E k \in Keys : (now \ halKeySavedKeystate)
                     \cup (halKeySavedKeystate \ now) \subseteq {k}

Poll == \E now \in SUBSET Keys : Reachable(now) /\ HalKeyPoll(now)

KeySpec == KeyInit /\ [][Poll]_keyVars

\* The HAL task polls the keys every 100 ms, whether they change or not.
QuietPoll == HalKeyPoll(halKeySavedKeystate)

-----------------------------------------------------------------------------

KeyTypeOK ==
  /\ halKeySavedKeystate \in SUBSET Keys
  /\ halKeySavedKeybounce \in SUBSET Keys
  /\ hal_key_mode \in {0, 1, 3}
  /\ key_depressed_gap \in 0 .. MAX_DOUBLE_HIT_GAP
  /\ double_hit \in BOOLEAN

\* the step is a poll that reports a release in state s
ReportedAs(s) ==
  \E i \in DOMAIN Callbacks(halKeySavedKeystate') :
     Callbacks(halKeySavedKeystate')[i].state = s

\* A double hit ends once the user leaves the keys alone: the next poll then
\* reports EXIT_DOUBLE_HIT, on which the application relies to save what the
\* double hit changed (hal_key.c:425-436).
DoubleHitEnds ==
  <>[][halKeySavedKeystate' = halKeySavedKeystate]_keyVars
    => (double_hit ~> hal_key_mode = 3)

\* A release of the power key that ends a shift is never reported as a plain
\* press: as long as the power key stays down after a SHIFT callback the
\* driver stays in the shift mode ("in the shift hal_key_mode, the shift
\* depressed will create the shiftevent", hal_key.c:405).  Only a double hit
\* that ends meanwhile takes the shift mode away (hal_key.c:432).
ShiftLastsUnlessDoubleHit ==
  [][(hal_key_mode = 1 \/ ReportedAs("SHIFT")) /\ "PWR" \in halKeySavedKeystate'
       /\ ~double_hit /\ ~double_hit' => hal_key_mode' = 1]_keyVars
=============================================================================
