-------------------------------- MODULE Tomb --------------------------------
(***************************************************************************)
(* gopkg.in/tomb.v2 as the program uses it: operators on the value of a    *)
(* tomb.Tomb, no state of their own.  What matters of it is the counter    *)
(* `alive' and how far its channels are:                                   *)
(*   "raw"      not made yet (t.dead == nil): a tomb between               *)
(*              `GTomb = tomb.Tomb{}' and the first call of init();        *)
(*   "running"  made, both open;                                           *)
(*   "dying"    dying is closed;       "dead"  dead is closed as well.     *)
(* The methods hold the tomb's mutex, so each is one step of its caller.   *)
(***************************************************************************)
EXTENDS Integers

\* A tomb; alive is an Int because nothing in the code keeps it from going
\* below zero when a goroutine of an overwritten tomb returns.
TombType == [state : {"raw", "running", "dying", "dead"}, alive : Int]

\* The literal tomb.Tomb{}.
NewTomb == [state |-> "raw", alive |-> 0]

\* Dying() is closed.
TombDying(t) == t.state \in {"dying", "dead"}

\* Go() panics when Dead() is closed.
TombGoPanics(t) == t.state = "dead"

\* Go(f) on a tomb that is not dead: init(), and f becomes a tracked goroutine.
TombGo(t) == [state |-> IF t.state = "raw" THEN "running" ELSE t.state,
              alive |-> t.alive + 1]

\* Kill(reason): init(), then close dying if it is open.
TombKill(t) == [state |-> IF t.state = "dead" THEN "dead" ELSE "dying",
                alive |-> t.alive]

\* The end of run(f): f has returned, failed says whether with an error.
\* run() does not call init(): on a raw tomb t.reason is nil and not
\* ErrStillAlive, so kill() closes nothing, and init() later overwrites the
\* reason it stored.  That kill is lost.
TombReturn(t, failed) ==
  [state |-> IF t.alive = 1 THEN "dead"
             ELSE IF failed /\ t.state = "running" THEN "dying" ELSE t.state,
   alive |-> t.alive - 1]
=============================================================================
