-------------------------- MODULE SetupLifecycle --------------------------
(***************************************************************************)
(* What the day-by-day signals of one code promise a reader: a setup opens *)
(* once, its floor (support, invalid price, target) is sealed before any   *)
(* trigger, both stay as sealed for as long as the setup lives, and a dead *)
(* setup stays dead.  SetupEngine.tla implements it.                       *)
(***************************************************************************)
EXTENDS Naturals

CONSTANTS
    Anchors,  \* the anchor dates that can identify a setup
    Floors,   \* the possible frozen support, invalid price and target
    Triggers, \* the possible frozen B2 triggers
    None      \* nothing frozen, or no setup

VARIABLES
    latest,   \* the last limit-up date seen
    setup,    \* the setup in force
    phase,    \* how far it has come
    floor,    \* what its first B1 day froze
    trigger   \* what its first B2 day froze

lcVars == <<latest, setup, phase, floor, trigger>>

LCInit ==
    /\ latest = 0
    /\ setup = None
    /\ phase = "idle"
    /\ floor = None
    /\ trigger = None

\* No valid anchor: everything is forgotten.
LCIdle ==
    /\ latest' >= latest
    /\ setup' = None
    /\ phase' = "idle"
    /\ floor' = None
    /\ trigger' = None

\* Only a limit-up later than every one seen opens a setup.
LCOpen ==
    /\ latest' > latest
    /\ latest' \in Anchors
    /\ setup' = latest'
    /\ phase' = "watch"
    /\ floor' = None
    /\ trigger' = None

LCSeal ==
    /\ phase = "watch"
    /\ phase' = "b1"
    /\ floor' \in Floors
    /\ UNCHANGED <<latest, setup, trigger>>

LCArm ==
    /\ phase = "b1"
    /\ phase' = "b2"
    /\ trigger' \in Triggers
    /\ UNCHANGED <<latest, setup, floor>>

LCConfirm ==
    /\ phase \in {"b2", "confirmed"}
    /\ phase' = "confirmed"
    /\ UNCHANGED <<latest, setup, floor, trigger>>

\* A confirmed day is not final: the next one may hold the trigger only.
LCLapse ==
    /\ phase = "confirmed"
    /\ phase' = "b2"
    /\ UNCHANGED <<latest, setup, floor, trigger>>

LCKill ==
    /\ phase \in {"b1", "b2", "confirmed", "dead"}
    /\ phase' = "dead"
    /\ UNCHANGED <<latest, setup, floor, trigger>>

LCNext ==
    \/ LCIdle
    \/ LCOpen
    \/ LCSeal
    \/ LCArm
    \/ LCConfirm
    \/ LCLapse
    \/ LCKill

LCSpec == LCInit /\ [][LCNext]_lcVars
=============================================================================
