------------------------------- MODULE IqProofs -------------------------------
(***************************************************************************)
(* The timestamps and the pings, whatever stanzas come and in whatever     *)
(* order, for any peers and for any length of time.                        *)
(***************************************************************************)
EXTENDS IqResponder, FiniteSetTheorems, TLAPS

\* The inductive invariant.  While the flags are set the last activity is one
\* of this process; what was told was the last activity of its moment.
Types ==
  now \in Nat \ {0} /\ LastActivity \in Nat /\ pings \in BOOLEAN /\ phase \in {"dial", "up"}

ActiveWhileUp == phase = "up" => LastActivity >= 1

IqInv == Types /\ ActiveWhileUp /\ LastSinceStart

LEMMA IqInvInit == Init => IqInv
<1> SUFFICES ASSUME Init PROVE IqInv
  OBVIOUS
<1>1. Types
  <2>1. pings \in BOOLEAN
    BY Zenon DEF Init
  <2>2. QED
    BY <2>1 DEF Init, Types
<1>2. ActiveWhileUp /\ LastSinceStart
  BY DEF Init, ActiveWhileUp, LastSinceStart
<1>3. QED
  BY <1>1, <1>2 DEF IqInv

\* An answer to jabber:iq:last tells what LastActivity is.
LEMMA ParseKeeps == IqInv /\ Parse => IqInv'
<1> SUFFICES ASSUME IqInv, Parse PROVE IqInv'
  OBVIOUS
<1>1. UNCHANGED <<now, LastActivity, phase>> /\ pings' = (pings /\ ~Refuses(stanza))
  BY DEF Parse
<1>2. told' \subseteq {[since |-> LastActivity, phase |-> phase]}
  BY DEF Parse
<1>3. Types' /\ ActiveWhileUp'
  BY <1>1 DEF IqInv, Types, ActiveWhileUp
<1>4. LastActivity >= 1 \/ phase = "dial"
  BY DEF IqInv, Types, ActiveWhileUp
<1>5. LastSinceStart'
  BY <1>1, <1>2, <1>4 DEF LastSinceStart
<1>6. QED
  BY <1>3, <1>5 DEF IqInv

\* Nothing else is told; a connection and a phrase set the time to now.
LEMMA OthersKeep ==
  /\ IqInv /\ told' \subseteq told /\ pings' \in BOOLEAN
  /\ now' \in {now, now + 1} /\ phase' \in {"dial", "up"}
  /\ \/ LastActivity' = now
     \/ LastActivity' = LastActivity /\ phase' = phase
     \/ LastActivity' = 0 /\ phase' = "dial"
  => IqInv'
BY DEF IqInv, Types, ActiveWhileUp, LastSinceStart

LEMMA IqInvNext == IqInv /\ [Next]_vars => IqInv'
<1> SUFFICES ASSUME IqInv, [Next]_vars PROVE IqInv'
  OBVIOUS
<1>1. phase \in {"dial", "up"} /\ pings \in BOOLEAN
  BY DEF IqInv, Types
<1>2. CASE Arrive
  BY <1>1, <1>2, OthersKeep DEF Arrive, heardVars, runVars
<1>3. CASE RecvFails
  BY <1>1, <1>3, OthersKeep DEF RecvFails, heardVars
<1>4. CASE RecvKeeps
  <2>1. pings' \in BOOLEAN
    BY <1>1, <1>4 DEF RecvKeeps, Announces
  <2>2. QED
    BY <1>1, <1>4, <2>1, OthersKeep DEF RecvKeeps, runVars
<1>5. CASE Parse
  BY <1>5, ParseKeeps
<1>6. CASE Break
  BY <1>1, <1>6, OthersKeep DEF Break, heardVars
<1>7. CASE Phrase
  BY <1>1, <1>7, OthersKeep DEF Phrase, stanzaVars
<1>8. CASE Connected
  BY <1>1, <1>8, OthersKeep DEF Connected, stanzaVars
<1>9. CASE Reset
  BY <1>1, <1>9, OthersKeep DEF Reset, stanzaVars
<1>10. CASE Tick
  BY <1>1, <1>10, OthersKeep DEF Tick, stanzaVars, heardVars, runVars
<1>11. CASE UNCHANGED vars
  BY <1>1, <1>11, OthersKeep DEF vars, stanzaVars, heardVars, runVars
<1>12. QED
  BY <1>2, <1>3, <1>4, <1>5, <1>6, <1>7, <1>8, <1>9, <1>10, <1>11 DEF Next, Recv

LEMMA IqInvAlways == Spec => []IqInv
BY IqInvInit, IqInvNext, PTL DEF Spec

\* What a step may do to the pings and to the time of the last pong.
Trusts ==
  \/ phase' # phase
  \/ tomb = "dying" /\ tomb' = "alive"
  \/ stanza.from = Server /\ stanza.type \in {"result", "error"}
  \/ /\ UNCHANGED ServerPingTimestampRx
     /\ pings' = pings \/ (pings' /\ stanza.type = "result" /\ stanza.child = "info")

LEMMA StepTrusts == IqInv /\ [Next]_vars => [Trusts]_vars
<1> SUFFICES ASSUME IqInv, Next PROVE Trusts
  BY DEF vars
<1>1. CASE Parse
  <2>1. CASE IsPong(stanza) \/ Refuses(stanza)
    BY <2>1 DEF IsPong, Refuses, Trusts
  <2>2. CASE ~IsPong(stanza) /\ ~Refuses(stanza)
    <3>1. pings' = pings
      BY <1>1, <2>2 DEF Parse, IqInv, Types
    <3>2. ServerPingTimestampRx' = ServerPingTimestampRx
      BY <1>1, <2>2 DEF Parse
    <3>3. QED
      BY <3>1, <3>2 DEF Trusts
  <2>3. QED
    BY <2>1, <2>2
<1>2. CASE Connected
  BY <1>2 DEF Connected, Trusts
<1>3. CASE Reset
  BY <1>3 DEF Reset, Trusts
<1>4. CASE RecvKeeps
  <2>1. UNCHANGED ServerPingTimestampRx
    BY <1>4 DEF RecvKeeps
  <2>2. pings' = pings \/ (pings' /\ Announces(stanza))
    BY <1>4 DEF RecvKeeps, IqInv, Types
  <2>3. QED
    BY <2>1, <2>2 DEF Announces, Trusts
<1>5. CASE Arrive \/ RecvFails \/ Break \/ Phrase \/ Tick
  BY <1>5 DEF Arrive, RecvFails, Break, Phrase, Tick, heardVars, Trusts
<1>6. QED
  BY <1>1, <1>2, <1>3, <1>4, <1>5 DEF Next, Recv

-----------------------------------------------------------------------------
(***************************************************************************)
(* How often a stanza is answered                                          *)
(***************************************************************************)

\* Names for the parts of AnswerCount, so that a step replaces them whole.
Kinds      == {"result", "error", "lost"}
Arrived(r) == Cardinality({i \in DOMAIN r : r[i] # "lost"})
ByRecv(s)  == IF IsPing(s) THEN 1 ELSE 0
ByParse(s) == IF IsQuery(s) THEN 1 ELSE 0

\* What arrived is among the first n, if the rest was lost.
LEMMA ArrivedAtMost ==
  ASSUME NEW r \in Seq(Kinds), NEW n \in Nat, \A i \in 1 .. Len(r) : r[i] # "lost" => i <= n
  PROVE  Arrived(r) \in 0 .. n
<1>1. {i \in DOMAIN r : r[i] # "lost"} \subseteq 1 .. n
  OBVIOUS
<1>2. IsFiniteSet(1 .. n) /\ Cardinality(1 .. n) = n
  BY FS_Interval
<1>3. QED
  BY <1>1, <1>2, FS_Subset, FS_CardinalityType DEF Arrived

\* No more arrives than was written, and nothing of what is lost.
LEMMA ArrivedLength == ASSUME NEW r \in Seq(Kinds) PROVE Arrived(r) \in 0 .. Len(r)
BY ArrivedAtMost

LEMMA NothingArrives == Arrived(<<>>) = 0 /\ Arrived(<<"lost">>) = 0
<1>1. <<>> \in Seq(Kinds) /\ <<"lost">> \in Seq(Kinds)
  BY DEF Kinds
<1>2. \A i \in 1 .. Len(<<>>) : <<>>[i] # "lost" => i <= 0
  OBVIOUS
<1>3. Arrived(<<>>) \in 0 .. 0
  BY <1>1, <1>2, ArrivedAtMost
<1>4. \A i \in 1 .. Len(<<"lost">>) : <<"lost">>[i] # "lost" => i <= 0
  OBVIOUS
<1>5. Arrived(<<"lost">>) \in 0 .. 0
  BY <1>1, <1>4, ArrivedAtMost
<1>6. QED
  BY <1>3, <1>5

\* What Recv writes is one answer to a ping, what ParseEvent writes at most
\* one answer to a query; either may be lost instead.
LEMMA ShortReplies ==
  /\ Library = <<>> \/ (IsPing(stanza) /\ Library = <<"result">>)
  /\ \/ Answer(stanza) = <<>>
     \/ IsQuery(stanza) /\ Answer(stanza) \in {<<"result">>, <<"error">>}
<1>1. Library = <<>> \/ (IsPing(stanza) /\ Library = <<"result">>)
  BY DEF Library, LibraryAnswers, IsPing
<1>2. Answer(stanza) = <<>> \/ (IsQuery(stanza) /\ Answer(stanza) \in {<<"result">>, <<"error">>})
  BY DEF Answer, IsQuery
<1>3. QED
  BY <1>1, <1>2

\* Of two rounds of replies no more arrive than were written; of a second
\* one that is lost, nothing.
LEMMA ConcatArrives ==
  ASSUME NEW a \in Seq(Kinds), NEW b \in Seq(Kinds)
  PROVE  /\ Arrived(a \o b) \in 0 .. Len(a) + Len(b)
         /\ Arrived(a \o <<"lost">>) \in 0 .. Len(a)
<1>1. a \o b \in Seq(Kinds) /\ Len(a \o b) = Len(a) + Len(b)
  OBVIOUS
<1>2. Arrived(a \o b) \in 0 .. Len(a) + Len(b)
  BY <1>1, ArrivedLength
<1>3. /\ a \o <<"lost">> \in Seq(Kinds) /\ Len(a) \in Nat
      /\ \A i \in 1 .. Len(a \o <<"lost">>) : (a \o <<"lost">>)[i] # "lost" => i <= Len(a)
  BY DEF Kinds
<1>4. Arrived(a \o <<"lost">>) \in 0 .. Len(a)
  BY <1>3, ArrivedAtMost
<1>5. QED
  BY <1>2, <1>4

\* What a round may write is within what is allowed for its stanza.
LEMMA RoundArrives ==
  /\ Arrived(Library) <= ByRecv(stanza) + ByParse(stanza)
  /\ Arrived(Library \o <<"lost">>) <= ByRecv(stanza) + ByParse(stanza)
  /\ Arrived(Library \o Answer(stanza)) <= ByRecv(stanza) + ByParse(stanza)
<1>1. ByRecv(stanza) \in {0, 1} /\ ByParse(stanza) \in {0, 1}
  BY DEF ByRecv, ByParse
<1>2. Library \in Seq(Kinds) /\ Len(Library) \in 0 .. ByRecv(stanza)
  <2>1. CASE Library = <<>>
    BY <1>1, <2>1
  <2>2. CASE IsPing(stanza) /\ Library = <<"result">>
    <3>1. ByRecv(stanza) = 1
      BY <2>2 DEF ByRecv
    <3>2. QED
      BY <2>2, <3>1 DEF Kinds
  <2>3. QED
    BY <2>1, <2>2, ShortReplies
<1>3. Answer(stanza) \in Seq(Kinds) /\ Len(Answer(stanza)) \in 0 .. ByParse(stanza)
  <2>1. CASE Answer(stanza) = <<>>
    BY <1>1, <2>1
  <2>2. CASE IsQuery(stanza) /\ Answer(stanza) \in {<<"result">>, <<"error">>}
    <3>1. ByParse(stanza) = 1
      BY <2>2 DEF ByParse
    <3>2. <<"result">> \in Seq(Kinds) /\ <<"error">> \in Seq(Kinds)
      BY DEF Kinds
    <3>3. Len(Answer(stanza)) = 1
      BY <2>2
    <3>4. Answer(stanza) \in Seq(Kinds)
      BY <2>2, <3>2
    <3>5. QED
      BY <3>1, <3>3, <3>4
  <2>3. QED
    BY <2>1, <2>2, ShortReplies
<1>4. Arrived(Library) \in 0 .. Len(Library)
  BY <1>2, ArrivedLength
<1>5. /\ Arrived(Library \o <<"lost">>) \in 0 .. Len(Library)
      /\ Arrived(Library \o Answer(stanza)) \in 0 .. Len(Library) + Len(Answer(stanza))
  BY <1>2, <1>3, ConcatArrives
<1>6. QED
  BY <1>1, <1>2, <1>3, <1>4, <1>5

\* A stanza takes its replies with it when the next one arrives.
LEMMA CountNext == AnswerCount /\ [Next]_vars => AnswerCount'
<1> SUFFICES ASSUME AnswerCount, [Next]_vars PROVE AnswerCount'
  OBVIOUS
<1>1. AnswerCount <=> Arrived(replies) <= ByRecv(stanza) + ByParse(stanza)
  BY DEF AnswerCount, Arrived, ByRecv, ByParse
<1>2. AnswerCount' <=> Arrived(replies') <= ByRecv(stanza') + ByParse(stanza')
  BY DEF AnswerCount, Arrived, ByRecv, ByParse, IsPing, IsQuery
<1>3. CASE replies' \in {<<>>, <<"lost">>}
  <2>1. Arrived(replies') = 0
    BY <1>3, NothingArrives
  <2>2. ByRecv(stanza') \in Nat /\ ByParse(stanza') \in Nat
    BY DEF ByRecv, ByParse
  <2>4. QED
    BY <1>2, <2>1, <2>2
<1>4. CASE /\ stanza' = stanza
           /\ replies' \in {Library, Library \o <<"lost">>, Library \o Answer(stanza)}
  BY <1>2, <1>4, RoundArrives
<1>5. CASE UNCHANGED <<stanza, replies>>
  BY <1>1, <1>2, <1>5
<1>6. CASE Arrive \/ Break
  BY <1>3, <1>5, <1>6 DEF Arrive, Break
<1>7. CASE RecvFails \/ RecvKeeps \/ Parse
  BY <1>3, <1>4, <1>7 DEF RecvFails, RecvKeeps, Parse
<1>8. CASE Phrase \/ Connected \/ Reset \/ Tick \/ UNCHANGED vars
  BY <1>5, <1>8 DEF Phrase, Connected, Reset, Tick, vars, stanzaVars
<1>9. QED
  BY <1>6, <1>7, <1>8 DEF Next, Recv

-----------------------------------------------------------------------------
(***************************************************************************)
(* The theorems                                                            *)
(***************************************************************************)

\* The answer to jabber:iq:last counts from 1970 only while a loop goes on
\* over the reset of the next generation.
THEOREM ToldSinceStart == Spec => []LastSinceStart
<1>1. IqInv => LastSinceStart
  BY DEF IqInv
<1>2. QED
  BY IqInvAlways, <1>1, PTL

\* A query is answered at most once, for the pings that Recv answers too.
THEOREM AnsweredOnce == Spec => []AnswerCount
<1>1. Init => AnswerCount
  <2>1. ByRecv(stanza) \in Nat /\ ByParse(stanza) \in Nat
    BY DEF ByRecv, ByParse
  <2>2. Arrived(<<>>) <= ByRecv(stanza) + ByParse(stanza)
    BY <2>1, NothingArrives
  <2>3. QED
    BY <2>2 DEF Init, AnswerCount, Arrived, ByRecv, ByParse
<1>2. QED
  BY <1>1, CountNext, PTL DEF Spec

\* Nobody but the server ends the pings, or is taken for its pong; a list of
\* features, of anybody, can only start them.
THEOREM OnlyServerTrusted == Spec => ProbeTrustsServer
<1>1. IqInv /\ [Next]_vars => [Trusts]_vars
  BY StepTrusts
<1>2. QED
  BY IqInvAlways, <1>1, PTL DEF Spec, ProbeTrustsServer, Trusts
=============================================================================
