------------------------------- MODULE IqResponder -------------------------------
(***************************************************************************)
(* What becomes of an IQ stanza: Recv of go-xmpp answers some by itself,   *)
(* keeps some, and hands the rest to ParseEvent (xmpp.go:1174-1361), which *)
(* dispatches on the type and the first element in it                      *)
(* (internal/jabber/event_parser.go:83-492, 600-618): it answers, notes a  *)
(* pong, starts or gives up pinging the server, or does nothing.  A write  *)
(* that fails ends the loop in Recv, and kills the tomb in ParseEvent,     *)
(* whose loop goes on while the next generation resets its variables and   *)
(* dials.                                                                  *)
(*                                                                         *)
(* The stream is endless: the model keeps the last stanza, and of it the   *)
(* type, the sender, the class of the id ("own", "blank", or "taken" for   *)
(* the ids that go-xmpp gives a meaning in a stanza of that type), and the *)
(* element in it:                                                          *)
(*   version last info items   <query> of that namespace                   *)
(*   query                     <query> of another                          *)
(*   queryPing                 <query xmlns="urn:xmpp:ping">               *)
(*   ping pingOther            <ping> of urn:xmpp:ping, of another         *)
(*   time timeOther, pubsub pubsubOther   likewise                         *)
(*   other none                another element; no element, or only one    *)
(*                             that go-xmpp keeps, like <error>            *)
(***************************************************************************)
EXTENDS Integers, Sequences, FiniteSets

CONSTANTS
  Server,   \* Config.Jabber.Server
  Peers,    \* the other senders
  Horizon   \* bound: the time the model runs to

ASSUME IqAssumption == Server \notin Peers /\ Horizon \in Nat \ {0}

VARIABLES
  now,
  stanza,        \* the last stanza of the stream
  read,          \* whether Recv has taken it
  replies,       \* the types of what was sent back, "lost" for a failed write
  told,          \* when the seconds that were told begin, if it asked for them
  LastActivity,
  ServerPingTimestampRx,
  pings,         \* ServerCapsList's urn:xmpp:ping, FALSE also while it has none
  loop,          \* "none", "recv", or "failed" once it has returned an error
  tomb,          \* "alive" or "dying"
  phase          \* "dial" from the reset to the flags; "up"

stanzaVars == <<stanza, read, replies, told>>
heardVars  == <<LastActivity, ServerPingTimestampRx, pings>>
runVars    == <<loop, tomb, phase>>
vars       == <<now, stanzaVars, heardVars, runVars>>

Children ==
  {"version", "last", "info", "items", "query", "queryPing", "ping", "pingOther",
   "time", "timeOther", "pubsub", "pubsubOther", "other", "none"}

Stanzas ==
  [type : {"get", "set", "result", "error"}, from : Peers \cup {Server},
   id : {"own", "blank", "taken"}, child : Children]

\* Before the first one.
NoStanza == [type |-> "none", from |-> Server, id |-> "blank", child |-> "none"]

Init ==
  /\ now = 1
  /\ stanza = NoStanza /\ read = TRUE /\ replies = <<>> /\ told = {}
  /\ LastActivity = 0 /\ ServerPingTimestampRx = 0 /\ pings = FALSE
  /\ loop = "none" /\ tomb = "alive" /\ phase = "dial"

-----------------------------------------------------------------------------
(***************************************************************************)
(* Dispatch                                                                *)
(***************************************************************************)

\* What Recv answers itself: the namespace is looked at before the type.
LibraryAnswers(s) == s.child \in {"ping", "queryPing"}

\* A stanza that Recv answered is then treated like an error.  The id sub1 of
\* an error must come with a list of errors, or Recv fails; of the results
\* with an id that go-xmpp knows none comes out as an IQ.
MayFail(s)   == s.id = "taken" /\ (LibraryAnswers(s) \/ s.type \in {"error", "result"})
Delivered(s) == ~MayFail(s)

\* The gets that have an answer: by the namespace of a <query>, else by the
\* name of the element.
Queries == {"version", "last", "queryPing", "info"}
Others  == {"time", "ping", "pingOther"}

\* The gets that are answered with an error.
Declined == {"items", "pubsub"}

\* Mutants: a stanza that is no get is refused; what is no <query> is given up
\* at once.
Answer_ElseSet(s) ==
  CASE s.id = "blank"                                     -> <<>>
    [] s.type # "get"                                     -> <<"error">>
    [] s.child \in Queries \cup Others                    -> <<"result">>
    [] s.child \in Declined                               -> <<"error">>
    [] OTHER                                              -> <<>>
Answer_QueryOnly(s) ==
  CASE s.id = "blank"                                     -> <<>>
    [] s.type = "get" /\ s.child \in Queries              -> <<"result">>
    [] s.type = "get" /\ s.child = "items"                -> <<"error">>
    [] s.type = "set"                                     -> <<"error">>
    [] OTHER                                              -> <<>>

\* What ParseEvent answers: a set always with feature-not-implemented, an
\* answer never, and nothing without an id.
Answer(s) ==
  CASE s.id = "blank"                                     -> <<>>
    [] s.type = "get" /\ s.child \in Queries \cup Others  -> <<"result">>
    [] s.type = "get" /\ s.child \in Declined             -> <<"error">>
    [] s.type = "set"                                     -> <<"error">>
    [] OTHER                                              -> <<>>

\* Mutant: any empty result is a pong.
IsPong_Anybody(s) == s.type = "result" /\ s.child = "none" /\ s.id # "blank"

\* An empty result from the server; that it is for this client is seen by the
\* name in Talk, which is blank while the next generation dials.
IsPong(s) == s.type = "result" /\ s.child = "none" /\ s.from = Server /\ s.id # "blank"

\* Mutant: any error that shows a ping is a refusal.
Refuses_Anybody(s) == s.type = "error" /\ s.child = "ping" /\ s.id # "blank"

\* An error from the server that shows the ping it is about; an error that
\* does not show it refuses nothing.
Refuses(s) == s.type = "error" /\ s.child = "ping" /\ s.from = Server /\ s.id # "blank"

\* A result of disco#info, which Recv returns as one: of anybody, since nobody
\* looks at the sender of what calls itself a server (event_parser.go:608).
Announces(s) == s.type = "result" /\ s.child = "info" /\ s.id = "taken"

AsksLast(s) == s.type = "get" /\ s.child = "last" /\ s.id # "blank"

-----------------------------------------------------------------------------
(***************************************************************************)
(* The receive loop                                                        *)
(***************************************************************************)

\* The next stanza on the stream.
Arrive ==
  /\ loop = "recv" /\ read
  /\ stanza' \in Stanzas /\ read' = FALSE /\ replies' = <<>> /\ told' = {}
  /\ UNCHANGED <<now, heardVars, runVars>>

Take == loop = "recv" /\ ~read /\ read' = TRUE

Library == IF LibraryAnswers(stanza) THEN <<"result">> ELSE <<>>

\* Recv fails: on the write of its own answer, or on what it cannot decode.
RecvFails ==
  /\ Take
  /\ \/ LibraryAnswers(stanza) /\ replies' = <<"lost">>
     \/ MayFail(stanza) /\ replies' = Library
  /\ loop' = "failed" /\ tomb' = "dying"
  /\ UNCHANGED <<now, stanza, told, heardVars, phase>>

\* Recv goes on to the next stanza, or hands out something that is no IQ; of
\* this only a list of features matters here, if it is a server's and urn:xmpp:ping
\* is one of them.
RecvKeeps ==
  /\ Take /\ MayFail(stanza) /\ replies' = Library
  /\ pings' \in {pings, pings \/ Announces(stanza)}
  /\ UNCHANGED <<now, stanza, told, LastActivity, ServerPingTimestampRx, runVars>>

\* ParseEvent, whose write succeeds or kills the tomb.
Parse ==
  /\ Take /\ Delivered(stanza)
  /\ \/ /\ replies' = Library \o Answer(stanza) /\ UNCHANGED tomb
        /\ told' = IF AsksLast(stanza) THEN {[since |-> LastActivity, phase |-> phase]} ELSE {}
     \/ /\ Answer(stanza) # <<>> /\ replies' = Library \o <<"lost">>
        /\ tomb' = "dying" /\ told' = {}
  /\ ServerPingTimestampRx' =
       IF IsPong(stanza) /\ phase = "up" THEN now ELSE ServerPingTimestampRx
  /\ pings' = (pings /\ ~Refuses(stanza))
  /\ UNCHANGED <<now, stanza, LastActivity, loop, phase>>

\* The stream breaks, and what was on it is lost.
Break ==
  /\ loop = "recv" /\ loop' = "failed" /\ tomb' = "dying"
  /\ read' = TRUE /\ replies' = IF read THEN replies ELSE <<"lost">>
  /\ UNCHANGED <<now, stanza, told, heardVars, phase>>

\* A phrase of somebody else, or in private: it counts once it is published.
Phrase ==
  /\ loop = "recv"
  /\ \/ LastActivity' = now /\ UNCHANGED tomb
     \/ tomb' = "dying" /\ UNCHANGED LastActivity
  /\ UNCHANGED <<now, stanzaVars, ServerPingTimestampRx, pings, loop, phase>>

\* A mutant of Connected: the time is left as the reset made it.
Connected_Unset ==
  /\ phase = "dial" /\ phase' = "up" /\ loop' = "recv"
  /\ ServerPingTimestampRx' = now
  /\ UNCHANGED <<now, stanzaVars, LastActivity, pings, tomb>>

\* EstablishConnection has a stream, and the loop of its generation receives;
\* the connection counts as activity, and as a first pong.
Connected ==
  /\ phase = "dial" /\ phase' = "up" /\ loop' = "recv"
  /\ LastActivity' = now /\ ServerPingTimestampRx' = now
  /\ UNCHANGED <<now, stanzaVars, pings, tomb>>

\* The next generation resets what myLoop resets, while a loop that only saw
\* its tomb die goes on reading.
Reset ==
  /\ tomb = "dying" /\ tomb' = "alive" /\ phase' = "dial"
  /\ LastActivity' = 0 /\ ServerPingTimestampRx' = 0 /\ pings' = FALSE
  /\ UNCHANGED <<now, stanzaVars, loop>>

Tick ==
  /\ now < Horizon /\ now' = now + 1
  /\ UNCHANGED <<stanzaVars, heardVars, runVars>>

Recv == RecvFails \/ RecvKeeps \/ Parse

Next == Arrive \/ Recv \/ Break \/ Phrase \/ Connected \/ Reset \/ Tick

Spec == Init /\ [][Next]_vars

\* The receive loop is scheduled.
FairSpec == Spec /\ WF_vars(Recv)

-----------------------------------------------------------------------------
(***************************************************************************)
(* Properties                                                              *)
(***************************************************************************)

IsPing(s)  == s.child \in {"ping", "queryPing"}
IsQuery(s) == s.type \in {"get", "set"}

\* A query is answered at most once and an answer never, except for pings:
\* Recv and ParseEvent do not know of each other, so a ping is answered twice
\* (a set with result and error), and a refused ping once (xmpp.go:1176,
\* event_parser.go:138, 391).
AnswerCount ==
  Cardinality({i \in DOMAIN replies : replies[i] # "lost"})
    <= (IF IsPing(stanza) THEN 1 ELSE 0) + (IF IsQuery(stanza) THEN 1 ELSE 0)

\* Within one connection nobody but the server can stop the pings or pass for
\* its pong (event_parser.go:344, 419), by whatever he sends; a list of
\* features, of the server or not, can only start them (event_parser.go:608-616).
ProbeTrustsServer ==
  [][\/ phase' # phase
     \/ tomb = "dying" /\ tomb' = "alive"
     \/ stanza.from = Server /\ stanza.type \in {"result", "error"}
     \/ /\ UNCHANGED ServerPingTimestampRx
        /\ pings' = pings \/ (pings' /\ stanza.type = "result" /\ stanza.child = "info")]_vars

\* The seconds of jabber:iq:last are counted from a phrase or a connection
\* (event_parser.go:150-151), so never from before the start of the program,
\* except while a loop goes on over the reset of the next generation: then
\* from 1970 (main.go:126).
LastSinceStart == \A t \in told : t.since >= 1 \/ t.phase = "dial"

\* What disco#info advertises (event_parser.go:174-178) is answered, whoever
\* asks and whatever the loop is doing, or at least the answer or the stream
\* was lost.
Advertised == {"version", "time", "ping", "last", "info"}

AdvertisedIsAnswered ==
  (~read /\ stanza.type = "get" /\ stanza.child \in Advertised /\ stanza.id # "blank")
  ~> (read /\ replies # <<>>)
=============================================================================
