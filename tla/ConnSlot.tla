------------------------------ MODULE ConnSlot ------------------------------
(***************************************************************************)
(* What the flags connecting and IsConnected of internal/jabber/globals.go *)
(* do achieve, without the program around them: one slot for the           *)
(* connection.  Whoever enters it has it alone once it is marked, and      *)
(* until the mark is taken off: a second goroutine gets in only while the  *)
(* first one is entering or leaving.  From then on nothing is promised.    *)
(* The owner either leaves it connected or loses it for good: the code has *)
(* no path that takes the mark off after a failure.                        *)
(***************************************************************************)
EXTENDS Naturals

CONSTANT Owners   \* the goroutines that may establish the connection, numbered from 1

VARIABLES
  phase,          \* "idle", "entering", "dialing", "leaving", "connected",
                  \* "wedged" or "contested"
  owner           \* who has it, 0 when nobody has it or two have

slotVars == <<phase, owner>>

SlotInit == phase = "idle" /\ owner = 0

\* A goroutine enters; a slot that is connected may be entered again.
Enter(g) ==
  /\ phase \in {"idle", "connected"}
  /\ phase' = "entering" /\ owner' = g

\* It has marked the slot: from here on nobody else enters.
Mark ==
  /\ phase = "entering" /\ phase' = "dialing" /\ UNCHANGED owner

\* It takes the mark off ...
Unmark ==
  /\ phase = "dialing" /\ phase' = "leaving" /\ UNCHANGED owner

\* ... and only then says that it is connected.
Connect ==
  /\ phase = "leaving" /\ phase' = "connected" /\ owner' = 0

\* The owner fails, and the slot is never free again.
Lose ==
  /\ phase = "dialing" /\ phase' = "wedged" /\ owner' = 0

\* A second goroutine finds no mark, or an old connection, and enters too.
Contest ==
  /\ phase \in {"entering", "leaving"} /\ phase' = "contested" /\ owner' = 0

SlotNext == (\E g \in Owners : Enter(g)) \/ Mark \/ Unmark \/ Connect \/ Lose \/ Contest

SlotSpec == SlotInit /\ [][SlotNext]_slotVars
=============================================================================
