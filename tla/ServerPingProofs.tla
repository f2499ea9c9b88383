-------------------------- MODULE ServerPingProofs --------------------------
(***************************************************************************)
(* Proofs about ServerPing for every setting of the delays, as long as the *)
(* server answers within the time between two pings.                       *)
(***************************************************************************)
EXTENDS ServerPing, TLAPS

\* The timeout is a natural number, and a sleep is no longer.
LEMMA TimeoutBound == Timeout \in Nat /\ Delay + Splay <= Timeout
BY PingAssumption DEF Timeout

\* The invariant holds when the session starts.
LEMMA PingInit == Init => PingInv
BY PingAssumption, TimeoutBound
   DEF Init, Sleeps, PingInv, TypeOK, Deadlines, InTime, LastPong, Bounded, NoFalseStall

-----------------------------------------------------------------------------
(***************************************************************************)
(* The probe                                                               *)
(***************************************************************************)

\* When it wakes up, a server that answers has answered every ping.
LEMMA AllAnswered ==
  ASSUME PingInv, WakeUp, peer = "answers" PROVE inFlight = {}
<1>1. now = wake /\ probe = "sleep"
  BY DEF WakeUp
<1>2. \A d \in inFlight : now <= d /\ d = Tx + Answer
  BY DEF PingInv, InTime
<1>3. Tx + Delay <= now
  BY <1>1 DEF PingInv, Deadlines
<1>. QED
  BY <1>2, <1>3, PingAssumption DEF PingInv, TypeOK

\* It sends a whitespace.
LEMMA WakeKeepsAlive ==
  ASSUME PingInv, WakeUp, caps # "ping" PROVE PingInv'
<1>1. /\ probe = "sleep" /\ now = wake /\ wake' \in Sleeps(now)
      /\ UNCHANGED <<now, Rx, Tx, caps, since, inFlight, last, peer, probe>>
  BY DEF WakeUp, capsVars
<1>2. wake' \in Nat /\ now + Delay <= wake' /\ wake' <= now + Delay + Splay
  BY <1>1, PingAssumption DEF Sleeps, PingInv, TypeOK
<1>3. TypeOK' /\ Deadlines'
  BY <1>1, <1>2, PingAssumption DEF PingInv, TypeOK, Deadlines
<1>4. InTime' /\ LastPong'
  BY <1>1, AllAnswered DEF PingInv, InTime, LastPong
<1>5. Bounded' /\ NoFalseStall'
  BY <1>1 DEF Bounded, NoFalseStall
<1>. QED  BY <1>3, <1>4, <1>5 DEF PingInv

\* It declares the server dead: one that answers has sent an error last.
LEMMA WakeStalls ==
  ASSUME PingInv, WakeUp, caps = "ping", Tx > 0, TooOld(now - Rx) PROVE PingInv'
<1>1. /\ probe = "sleep" /\ now = wake /\ probe' = "stalled"
      /\ UNCHANGED <<now, wake, Rx, Tx, caps, since, inFlight, last, peer>>
  BY DEF WakeUp, capsVars
<1>2. peer = "answers" => last = "error"
  <2>. SUFFICES ASSUME peer = "answers", last # "error" PROVE FALSE  OBVIOUS
  <2>1. Rx >= Tx /\ now <= Tx + Delay + Splay
    BY <1>1, AllAnswered DEF PingInv, LastPong
  <2>. QED
    BY <2>1, TimeoutBound, PingAssumption DEF TooOld, PingInv, TypeOK
<1>3. NoFalseStall'
  BY <1>1, <1>2 DEF PingInv, TypeOK, NoFalseStall
<1>4. TypeOK' /\ Deadlines' /\ InTime' /\ LastPong' /\ Bounded'
  BY <1>1, AllAnswered DEF PingInv, TypeOK, Deadlines, InTime, LastPong, Bounded
<1>. QED  BY <1>3, <1>4 DEF PingInv

\* It sends a ping: the first, or one after a pong that is not too old.
LEMMA WakePings ==
  ASSUME PingInv, WakeUp, caps = "ping", ~(Tx > 0 /\ TooOld(now - Rx)) PROVE PingInv'
<1>1. /\ probe = "sleep" /\ now = wake /\ wake' \in Sleeps(now)
      /\ Tx' = now /\ inFlight' = inFlight \cup {now + Answer}
      /\ UNCHANGED <<now, Rx, caps, since, last, peer, probe>>
  BY DEF WakeUp, capsVars
<1>2. wake' \in Nat /\ now + Delay <= wake' /\ wake' <= now + Delay + Splay
  BY <1>1, PingAssumption DEF Sleeps, PingInv, TypeOK
<1>3. /\ now \in Nat /\ now >= 1 /\ Rx \in Nat /\ since \in Nat /\ Tx \in Nat
      /\ Rx <= now /\ since <= now
  BY DEF PingInv, TypeOK, Deadlines
<1>4. TypeOK' /\ Deadlines'
  BY <1>1, <1>2, <1>3, PingAssumption DEF PingInv, TypeOK, Deadlines
<1>5. InTime' /\ LastPong'
  BY <1>1, <1>2, <1>3, AllAnswered, PingAssumption DEF PingInv, InTime, LastPong
<1>6. \E t \in {Rx, since} : now <= t + Timeout * 2
  <2>1. CASE Tx = 0
    BY <1>1, <1>3, <2>1, TimeoutBound, PingAssumption DEF PingInv, Bounded
  <2>2. CASE Tx > 0
    BY <1>3, <2>2, TimeoutBound DEF TooOld
  <2>. QED  BY <1>3, <2>1, <2>2
<1>7. Bounded'
  <2>1. Tx' # 0
    BY <1>1, <1>3
  <2>2. PICK t \in {Rx, since} : now <= t + Timeout * 2
    BY <1>6
  <2>3. wake' <= t + Timeout * 2 + Delay + Splay
    BY <1>2, <1>3, <2>2, TimeoutBound, PingAssumption
  <2>. QED  BY <1>1, <2>1, <2>3 DEF Bounded
<1>8. NoFalseStall'
  BY <1>1 DEF NoFalseStall
<1>. QED  BY <1>4, <1>5, <1>7, <1>8 DEF PingInv

-----------------------------------------------------------------------------
(***************************************************************************)
(* The server, and the time                                                *)
(***************************************************************************)

\* An answer leaves no other ping behind.
LEMMA AnsweredIsLast ==
  ASSUME PingInv, NEW what \in {"pong", "error"}, Answered(what)
  PROVE  /\ peer = "answers" /\ caps # "refused" /\ Tx > 0 /\ inFlight' = {} /\ last' = what
         /\ probe = "sleep" /\ wake <= Tx + Delay + Splay
         /\ UNCHANGED <<now, wake, Tx, peer, probe>>
<1>1. PICK d \in inFlight : inFlight' = inFlight \ {d}
  BY DEF Answered
<1>2. peer = "answers"
  BY DEF Answered
<1>3. \A e \in inFlight : e = Tx + Answer
  BY <1>2 DEF PingInv, InTime
<1>4. inFlight' = {}
  BY <1>1, <1>3
<1>5. Tx > 0
  BY <1>1, <1>2 DEF PingInv, InTime, TypeOK
<1>. QED  BY <1>1, <1>2, <1>4, <1>5 DEF Answered, PingInv, InTime

LEMMA PingPong == ASSUME PingInv, Pong PROVE PingInv'
<1>1. Answered("pong") /\ Rx' = now /\ UNCHANGED <<caps, since>>
  BY DEF Pong, capsVars
<1>2. /\ peer = "answers" /\ caps # "refused" /\ Tx > 0 /\ inFlight' = {} /\ last' = "pong"
      /\ probe = "sleep" /\ wake <= Tx + Delay + Splay
      /\ UNCHANGED <<now, wake, Tx, peer, probe>>
  BY <1>1, AnsweredIsLast
<1>3. caps = "ping"
  BY <1>2 DEF PingInv, TypeOK, Deadlines
<1>4. TypeOK' /\ Deadlines' /\ InTime'
  BY <1>1, <1>2 DEF PingInv, TypeOK, Deadlines, InTime
<1>5. LastPong'
  BY <1>1, <1>2, <1>3 DEF PingInv, Deadlines, LastPong
<1>6. Bounded'
  BY <1>1, <1>2, TimeoutBound, PingAssumption DEF PingInv, TypeOK, Deadlines, Bounded
<1>7. NoFalseStall'
  BY <1>2 DEF NoFalseStall
<1>. QED  BY <1>4, <1>5, <1>6, <1>7 DEF PingInv

LEMMA PingError == ASSUME PingInv, Refused \/ ErrorIgnored PROVE PingInv'
<1>1. /\ Answered("error") /\ UNCHANGED <<Rx, since>> /\ caps' \in {caps, "refused"}
  BY DEF Refused, ErrorIgnored, capsVars
<1>2. /\ peer = "answers" /\ Tx > 0 /\ inFlight' = {} /\ last' = "error"
      /\ UNCHANGED <<now, wake, Tx, peer, probe>>
  BY <1>1, AnsweredIsLast
<1>3. TypeOK' /\ Deadlines' /\ InTime' /\ LastPong' /\ NoFalseStall'
  BY <1>1, <1>2 DEF PingInv, TypeOK, Deadlines, InTime, LastPong, NoFalseStall
<1>4. Bounded'
  BY <1>1, <1>2 DEF PingInv, Bounded
<1>. QED  BY <1>3, <1>4 DEF PingInv

\* The features of a server that had refused find an error as its last answer.
LEMMA PingFeatures == ASSUME PingInv, Features PROVE PingInv'
<1>1. UNCHANGED <<now, wake, Rx, Tx, inFlight, last, peer, probe>>
  BY DEF Features, answerVars
<1>2. CASE caps = "asked" /\ caps' = "unable" /\ UNCHANGED since
  BY <1>1, <1>2
     DEF PingInv, TypeOK, Deadlines, InTime, LastPong, Bounded, NoFalseStall
<1>3. CASE caps # "ping" /\ caps' = "ping" /\ since' = now
  <2>1. TypeOK' /\ Deadlines' /\ InTime' /\ NoFalseStall'
    BY <1>1, <1>3 DEF PingInv, TypeOK, Deadlines, InTime, NoFalseStall
  <2>2. LastPong'
    BY <1>1, <1>3 DEF PingInv, LastPong
  <2>3. Bounded'
    BY <1>1, <1>3, TimeoutBound, PingAssumption
       DEF PingInv, TypeOK, Deadlines, Bounded
  <2>. QED  BY <2>1, <2>2, <2>3 DEF PingInv
<1>. QED  BY <1>2, <1>3 DEF Features

LEMMA PingRest == ASSUME PingInv, GoSilent \/ Tick PROVE PingInv'
<1>1. CASE GoSilent
  BY <1>1 DEF GoSilent, capsVars, answerVars, PingInv, TypeOK, Deadlines, InTime,
              LastPong, Bounded, NoFalseStall
<1>2. CASE Tick
  <2>1. now' = now + 1 /\ UNCHANGED <<wake, Rx, Tx, caps, since, inFlight, last, peer, probe>>
    BY <1>2 DEF Tick, capsVars, answerVars
  <2>2. /\ probe = "sleep" => now + 1 <= wake
        /\ peer = "answers" => \A d \in inFlight : now + 1 <= d
    BY <1>2, PingAssumption DEF Tick, PingInv, TypeOK
  <2>3. TypeOK' /\ Deadlines'
    BY <2>1, <2>2, PingAssumption DEF PingInv, TypeOK, Deadlines
  <2>4. InTime' /\ LastPong' /\ Bounded' /\ NoFalseStall'
    BY <2>1, <2>2 DEF PingInv, InTime, LastPong, Bounded, NoFalseStall
  <2>. QED  BY <2>3, <2>4 DEF PingInv
<1>. QED  BY <1>1, <1>2

-----------------------------------------------------------------------------
(***************************************************************************)
(* The theorems                                                            *)
(***************************************************************************)

\* The inductive invariant holds whatever the delays.
LEMMA PingCorrect == Spec => []PingInv
<1>1. PingInv /\ [Next]_vars => PingInv'
  <2>. SUFFICES ASSUME PingInv, [Next]_vars PROVE PingInv'  OBVIOUS
  <2>1. CASE WakeUp
    BY <2>1, WakeKeepsAlive, WakeStalls, WakePings
  <2>2. CASE UNCHANGED vars
    BY <2>2 DEF vars, capsVars, answerVars, PingInv, TypeOK, Deadlines, InTime, LastPong,
                Bounded, NoFalseStall
  <2>. QED  BY <2>1, <2>2, PingPong, PingError, PingFeatures, PingRest DEF Next
<1>. QED  BY PingInit, <1>1, PTL DEF Spec

\* Every reachable state is well typed.
THEOREM TypesHold == Spec => []TypeOK
<1>1. PingInv => TypeOK  BY DEF PingInv
<1>. QED  BY PingCorrect, <1>1, PTL

\* A server that answers within ServerPingDelay, and the last time with a pong,
\* is not declared dead, whatever the delays, whoever sends features and
\* whatever errors came before (lib.go:178-190).
THEOREM NeverFalse == Spec => []NoFalseStall
<1>1. PingInv => NoFalseStall  BY DEF PingInv
<1>. QED  BY PingCorrect, <1>1, PTL

\* A silence is found after twice the timeout and one sleep at most.
THEOREM AlwaysFound == Spec => []StallIsFound
<1>1. PingInv => StallIsFound
  <2>. SUFFICES ASSUME PingInv, probe = "sleep", caps = "ping"
                PROVE  \E t \in {Rx, since} : now - t <= Timeout * 2 + Delay + Splay
    BY DEF StallIsFound
  <2>1. PICK t \in {Rx, since} : wake <= t + Timeout * 2 + Delay + Splay
    BY DEF PingInv, Bounded
  <2>2. now <= wake /\ now \in Nat /\ wake \in Nat /\ t \in Nat
    BY DEF PingInv, Deadlines, TypeOK
  <2>. QED  BY <2>1, <2>2, TimeoutBound, PingAssumption
<1>. QED  BY PingCorrect, <1>1, PTL
=============================================================================
