----------------------------- MODULE ServerPing -----------------------------
(***************************************************************************)
(* How a dead connection is told from a live one: ProbeServerLiveness      *)
(* (internal/jabber/lib.go:140-228) pings the server every                 *)
(* ServerPingDelay seconds and some splay, the receive loop notes when a   *)
(* pong came (event_parser.go:344-346), and a probe that finds the last    *)
(* pong too old returns the error that ends the session (module Session    *)
(* takes over from there).                                                 *)
(*                                                                         *)
(* Time is time.Now().Unix(), in whole seconds, and starts at 1 where      *)
(* myLoop sets ServerPingTimestampRx (main.go:141).  Between two readings  *)
(* of it a sleep of Delay seconds and less than Splay seconds more counts  *)
(* Delay .. Delay + Splay; what happens within a second is in any order.   *)
(*                                                                         *)
(* The server answers a ping with a pong or with an error, and of the      *)
(* errors only the one that quotes the ping is understood as a refusal.    *)
(***************************************************************************)
EXTENDS Integers

CONSTANTS
  Delay,     \* Config.Jabber.ServerPingDelay
  Connect,   \* Config.Jabber.ConnectionTimeout
  Splay,     \* Config.Jabber.PingSplayDelay
  Answer,    \* a peer that answers is heard by the receive loop within this
  Horizon    \* bound: the time the model runs to

ASSUME PingAssumption ==
  /\ Delay \in Nat \ {0} /\ Connect \in Nat \ {0} /\ Splay \in Nat \ {0}
  /\ Answer \in Nat /\ Answer < Delay
  /\ Horizon \in Nat

VARIABLES
  now,
  wake,            \* when the sleep of the probe ends
  Rx, Tx,          \* ServerPingTimestampRx, ServerPingTimestampTx
  caps,            \* ServerCapsQueried and ServerCapsList's urn:xmpp:ping
  since,           \* history: when caps became "ping" last
  inFlight,        \* for each ping not answered yet, when its answer is due
  last,            \* history: the last answer, "none", "pong" or "error"
  peer,            \* "answers", or "silent" from some time on
  probe            \* "sleep", or "stalled" once it has returned its error

capsVars   == <<caps, since>>
answerVars == <<inFlight, last>>
vars       == <<now, wake, Rx, Tx, capsVars, answerVars, peer, probe>>

Sleeps(t) == (t + Delay) .. (t + Delay + Splay)

Init ==
  /\ now = 1 /\ wake \in Sleeps(1) /\ Rx = 1 /\ Tx = 0
  /\ caps = "asked" /\ since = 1 /\ inFlight = {} /\ last = "none"
  /\ peer = "answers" /\ probe = "sleep"

\* txTimeout, and rxTimeAgo > rxTimeout * 2
Timeout == Delay + Connect + Splay

\* Mutants: the timeout of one ping; milliseconds, which the sleep is in.
TooOld_Single(age) == age > Delay
TooOld_Millis(age) == age > Timeout * 2000

TooOld(age) == age > Timeout * 2

\* The connection is up and the sleep is over.  Without the capability a
\* whitespace is sent, which nothing answers.
WakeUp ==
  /\ probe = "sleep" /\ now = wake
  /\ IF caps # "ping"
     THEN wake' \in Sleeps(now) /\ UNCHANGED <<Tx, inFlight, probe>>
     ELSE IF Tx > 0 /\ TooOld(now - Rx)
     THEN probe' = "stalled" /\ UNCHANGED <<wake, Tx, inFlight>>
     ELSE /\ Tx' = now /\ inFlight' = inFlight \cup {now + Answer}
          /\ wake' \in Sleeps(now) /\ UNCHANGED probe
  /\ UNCHANGED <<now, Rx, capsVars, last, peer>>

\* The server answers the oldest ping: the answers of a stream come in the
\* order of the queries.
Answered(what) ==
  /\ peer = "answers" /\ last' = what
  /\ \E d \in inFlight : (\A e \in inFlight : d <= e) /\ inFlight' = inFlight \ {d}
  /\ UNCHANGED <<now, wake, Tx, peer, probe>>

Pong == Answered("pong") /\ Rx' = now /\ UNCHANGED capsVars

\* An error that quotes the ping: whitespaces from now on.
Refused == Answered("error") /\ caps' = "refused" /\ UNCHANGED <<Rx, since>>

\* An error that does not, or not with the name of the server as its sender,
\* is logged: neither a pong nor a refusal.
ErrorIgnored == Answered("error") /\ UNCHANGED <<Rx, capsVars>>

\* A result of disco#info with the identity of a server: the answer to what
\* EstablishConnection asked, or one of anybody at any time.  It adds features
\* and never takes one away, but it undoes a refusal.
Features ==
  /\ \/ caps = "asked" /\ caps' = "unable" /\ UNCHANGED since
     \/ caps # "ping" /\ caps' = "ping" /\ since' = now
  /\ UNCHANGED <<now, wake, Rx, Tx, answerVars, peer, probe>>

GoSilent ==
  /\ peer = "answers" /\ peer' = "silent"
  /\ UNCHANGED <<now, wake, Rx, Tx, capsVars, answerVars, probe>>

\* A second passes: the sleep that ends now ends first, and so does the
\* time of a peer that answers.
Tick ==
  /\ now < Horizon /\ (probe = "sleep" => now < wake)
  /\ peer = "answers" => \A d \in inFlight : now < d
  /\ now' = now + 1
  /\ UNCHANGED <<wake, Rx, Tx, capsVars, answerVars, peer, probe>>

Next == WakeUp \/ Pong \/ Refused \/ ErrorIgnored \/ Features \/ GoSilent \/ Tick

Spec == Init /\ [][Next]_vars

-----------------------------------------------------------------------------
(***************************************************************************)
(* Properties                                                              *)
(***************************************************************************)

\* Type invariant.
TypeOK ==
  /\ now \in Nat /\ wake \in Nat /\ Rx \in Nat /\ Tx \in Nat /\ since \in Nat
  /\ caps \in {"asked", "ping", "unable", "refused"}
  /\ inFlight \subseteq Nat /\ last \in {"none", "pong", "error"}
  /\ peer \in {"answers", "silent"} /\ probe \in {"sleep", "stalled"}

\* A server that answers every ping in time, and the last one with a pong, is
\* never declared dead.  One whose last answer was an error may be: an error
\* that does not quote the ping is no answer to the probe
\* (event_parser.go:484-487), and when anybody's features undo a refusal
\* (event_parser.go:608-616) the last pong is already too old.
NoFalseStall == probe = "stalled" => peer = "silent" \/ last = "error"

\* While the server is to be pinged, the probe does not sleep through more than
\* twice the timeout and one more sleep without a pong, counted from the last
\* pong or from when the capability came.
StallIsFound ==
  probe = "sleep" /\ caps = "ping" =>
    \E t \in {Rx, since} : now - t <= Timeout * 2 + Delay + Splay

\* The parts of the inductive invariant.  A ping of a server that answers is
\* answered before the next wake-up; so the probe that finds no pong of a
\* server whose last answer was one slept only once since.
Deadlines ==
  /\ 1 <= now /\ Rx <= now /\ Tx <= now /\ since <= now
  /\ probe = "sleep" => now <= wake /\ wake <= now + Delay + Splay /\ Tx + Delay <= wake
  /\ caps \in {"asked", "unable"} => Tx = 0

InTime == peer = "answers" =>
  /\ \A d \in inFlight : now <= d /\ d = Tx + Answer
  /\ Tx = 0 => inFlight = {}
  /\ caps = "refused" => inFlight = {} /\ last = "error"
  /\ inFlight # {} => probe = "sleep" /\ wake <= Tx + Delay + Splay

LastPong == peer = "answers" /\ Tx > 0 =>
  \/ last = "error" \/ Tx + Answer \in inFlight
  \/ caps = "ping" /\ Rx >= Tx /\ (probe = "sleep" => wake <= Tx + Delay + Splay)

Bounded == probe = "sleep" /\ caps = "ping" =>
  /\ Tx = 0 => wake <= since + Delay + Splay
  /\ \E t \in {Rx, since} : wake <= t + Timeout * 2 + Delay + Splay

PingInv == TypeOK /\ Deadlines /\ InTime /\ LastPong /\ Bounded /\ NoFalseStall
=============================================================================
