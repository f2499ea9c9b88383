--------------------------------- MODULE Rooms ---------------------------------
(***************************************************************************)
(* What the bot knows of its rooms in one session: joinMuc enters them     *)
(* (internal/jabber/lib.go:67-136), ParseEvent keeps the list of rooms and *)
(* the roster of each from the presences of the stream                     *)
(* (event_parser.go:494-597), the commands of a room ask the roster who is *)
(* an administrator (lib.go:390-416), and ProbeMUCLiveness decides from    *)
(* the time of the last activity which room to ping (lib.go:231-292).      *)
(*                                                                         *)
(* The rooms themselves are outside: who is in, and what they send to an   *)
(* occupant, in order, over one stream.  The collections are new when the  *)
(* session starts (main.go:125-132).  An occupant is its nick; its         *)
(* affiliation is "admin", for owner and admin, or "member", for the rest; *)
(* "out" is the affiliation of who is not there, and of the presences with *)
(* the role none.  RoomsConnected is a set: slices.Compact leaves each     *)
(* room once, and the empty strings it leaves behind it name no room.      *)
(***************************************************************************)
EXTENDS Sequences, FiniteSets, Integers

CONSTANTS
  Rooms,        \* Config.Jabber.Channels
  People,       \* nicks of the others
  Nick, Alias,  \* Config.Jabber.Nick, and the nick in a renamed room
  MaxWire       \* bound: nothing is sent while the stream holds as many stanzas

ASSUME RoomsAssumption ==
  /\ IsFiniteSet(People)
  /\ Nick \notin People /\ Alias \notin People /\ Nick # Alias
  /\ MaxWire \in Nat \ {0}

VARIABLES
  renamed,          \* rooms that the configuration gives a nick of their own
  occupants,        \* per room and nick, the affiliation
  asked,            \* rooms that have a request of the bot to enter
  wire,             \* what the server has sent and Recv has not returned
  join,             \* per room, where joinMuc is
  RoomsConnected,
  RoomPresences,    \* per room, presences as [nick, aff]
  MucCapsList,      \* rooms whose features came
  LastMucActivity,  \* the addresses it has a time for
  pinged,           \* what ProbeMUCLiveness pinged last
  verdicts          \* of the last command: what it was told, what was right

serverVars == <<renamed, occupants, asked>>
rosterVars == <<RoomsConnected, RoomPresences>>
probeVars  == <<MucCapsList, LastMucActivity, pinged>>
vars       == <<serverVars, wire, join, rosterVars, probeVars, verdicts>>

Nicks == People \cup {Nick, Alias}

\* getBotNickFromRoomConfig
BotNick(r) == IF r \in renamed THEN Alias ELSE Nick

\* The address of an occupant, and of the room itself.
Address(r, n) == <<r, n>>
Bare(r)       == <<r>>

Init ==
  /\ renamed \in SUBSET Rooms
  /\ occupants \in [Rooms -> [Nicks -> {"out", "member", "admin"}]]
  /\ \A r \in Rooms, n \in {Nick, Alias} : occupants[r][n] = "out"
  /\ asked = {} /\ wire = <<>>
  /\ join = [r \in Rooms |-> "caps"]
  /\ RoomsConnected = {} /\ RoomPresences = [r \in Rooms |-> {}]
  /\ MucCapsList = {} /\ LastMucActivity = {} /\ pinged = {}
  /\ verdicts = {}

-----------------------------------------------------------------------------
(***************************************************************************)
(* The rooms                                                               *)
(***************************************************************************)

BotIn(r) == occupants[r][BotNick(r)] # "out"

Presence(r, n, a, plain) ==
  [kind |-> "presence", room |-> r, nick |-> n, aff |-> a, plain |-> plain]

\* All orders in which a room may present the people who are in it.
Presented(r) ==
  LET there == {n \in People : occupants[r][n] # "out"}
  IN  {[i \in 1 .. Cardinality(there) |-> Presence(r, order[i], occupants[r][order[i]], TRUE)] :
         order \in {f \in [1 .. Cardinality(there) -> there] :
                      \A i, j \in DOMAIN f : f[i] = f[j] => i = j}}

Sends(stanzas) ==
  /\ Len(wire) < MaxWire
  /\ wire' = wire \o stanzas

Occupies(r, n, a) == occupants' = [occupants EXCEPT ![r] = [@ EXCEPT ![n] = a]]

\* The one answer to disco#info of joinMuc, early or late.
SendFeatures(r) ==
  /\ r \notin MucCapsList
  /\ \A i \in DOMAIN wire : ~(wire[i].kind = "features" /\ wire[i].room = r)
  /\ Sends(<<[kind |-> "features", room |-> r]>>)
  /\ UNCHANGED <<serverVars, join, rosterVars, probeVars, verdicts>>

\* The bot is let in: first the others, then its own presence.
Admit(r) ==
  /\ r \in asked /\ asked' = asked \ {r}
  /\ Occupies(r, BotNick(r), "member")
  /\ \E others \in Presented(r) :
       Sends(Append(others, Presence(r, BotNick(r), "member", TRUE)))
  /\ UNCHANGED <<renamed, join, rosterVars, probeVars, verdicts>>

\* Or not: it is banned, or the nick is taken.
Refuse(r) ==
  /\ r \in asked /\ asked' = asked \ {r}
  /\ Sends(<<[kind |-> "error", room |-> r]>>)
  /\ UNCHANGED <<renamed, occupants, join, rosterVars, probeVars, verdicts>>

\* Somebody enters, leaves, becomes or stops being an administrator, or
\* shows a status; the bot hears of it while it is in the room.
Peer(r, n) ==
  \E a \in {"out", "member", "admin"} :
    /\ occupants[r][n] # "out" \/ a # "out"
    /\ Occupies(r, n, a)
    /\ IF BotIn(r) THEN Sends(<<Presence(r, n, a, TRUE)>>) ELSE UNCHANGED wire
    /\ UNCHANGED <<renamed, asked, join, rosterVars, probeVars, verdicts>>

\* RotateStatus(room) shows a status, and the room shows it to everybody.
OwnStatus(r) ==
  /\ join[r] = "entered" /\ BotIn(r)
  /\ \E plain \in BOOLEAN : Sends(<<Presence(r, BotNick(r), "member", plain)>>)
  /\ UNCHANGED <<serverVars, join, rosterVars, probeVars, verdicts>>

\* The bot is removed, with a presence or, when the server of the room
\* restarts, without one.
Remove(r) ==
  /\ BotIn(r) /\ Occupies(r, BotNick(r), "out")
  /\ \/ Sends(<<Presence(r, BotNick(r), "out", TRUE)>>)
     \/ UNCHANGED wire
  /\ UNCHANGED <<renamed, asked, join, rosterVars, probeVars, verdicts>>

\* An occupant gives an administrator's command.
Say(r, n) ==
  /\ BotIn(r) /\ occupants[r][n] # "out"
  /\ Sends(<<[kind |-> "command", room |-> r, nick |-> n, aff |-> occupants[r][n]]>>)
  /\ UNCHANGED <<serverVars, join, rosterVars, probeVars, verdicts>>

-----------------------------------------------------------------------------
(***************************************************************************)
(* The bot                                                                 *)
(***************************************************************************)

\* Mutant: a status is required, instead of none.
OwnPresence_Shown(v) == v.nick = Nick /\ ~v.plain

\* v.Show == "" && v.Status == "", and the nick of the configuration, also in
\* a room where the bot has another, and also in the presence of its removal.
OwnPresence(v) == v.nick = Nick /\ v.plain

\* Mutants: the entry before is kept; who goes is kept.
Updated_Appended(roster, v) ==
  IF v.aff = "out" THEN {p \in roster : p.nick # v.nick}
  ELSE roster \cup {[nick |-> v.nick, aff |-> v.aff]}
Updated_NoneKept(roster, v) ==
  {p \in roster : p.nick # v.nick} \cup {[nick |-> v.nick, aff |-> v.aff]}

\* The roster after a presence: the entry of the nick is dropped, and unless
\* the role is none the presence is the new one.
Updated(roster, v) ==
  {p \in roster : p.nick # v.nick}
  \cup (IF v.aff = "out" THEN {} ELSE {[nick |-> v.nick, aff |-> v.aff]})

\* isMucAdmin
IsMucAdmin(r, n) == \E p \in RoomPresences[r] : p.nick = n /\ p.aff = "admin"

Received(kind) == wire # <<>> /\ Head(wire).kind = kind /\ wire' = Tail(wire)

RecvPresence ==
  /\ Received("presence")
  /\ LET v == Head(wire) IN
       /\ RoomsConnected' = IF OwnPresence(v) THEN RoomsConnected \cup {v.room} ELSE RoomsConnected
       /\ RoomPresences' = [RoomPresences EXCEPT ![v.room] = Updated(@, v)]
  /\ UNCHANGED <<serverVars, join, probeVars, verdicts>>

\* A presence of the type error is logged; the branch for a removal inside it
\* is never taken, since it wants another type.
RecvError ==
  /\ Received("error")
  /\ UNCHANGED <<serverVars, join, rosterVars, probeVars, verdicts>>

RecvFeatures ==
  /\ Received("features") /\ MucCapsList' = MucCapsList \cup {Head(wire).room}
  /\ UNCHANGED <<serverVars, join, rosterVars, LastMucActivity, pinged, verdicts>>

\* A message: cmd() looks the sender up, then the activity of its address is
\* noted.  The other stanzas note the activity of the address they are sent
\* to if that is a room; it is the bot's.
RecvCommand ==
  /\ Received("command")
  /\ LET v == Head(wire) IN
       /\ verdicts' = {[told |-> IsMucAdmin(v.room, v.nick), right |-> v.aff = "admin"]}
       /\ LastMucActivity' = LastMucActivity \cup {Address(v.room, v.nick)}
  /\ UNCHANGED <<serverVars, join, rosterVars, MucCapsList, pinged>>

JoinTo(r, here, there) == join[r] = here /\ join' = [join EXCEPT ![r] = there]

\* The features came, or 20 * ConnectionTimeout polls found none: either way
\* the bot asks to enter.
JoinMUC(r) ==
  /\ JoinTo(r, "caps", "enter") /\ asked' = asked \cup {r}
  /\ UNCHANGED <<renamed, occupants, wire, rosterVars, probeVars, verdicts>>

JoinEntered(r) ==
  /\ JoinTo(r, "enter", "entered") /\ r \in RoomsConnected
  /\ UNCHANGED <<serverVars, wire, rosterVars, probeVars, verdicts>>

JoinTimeout(r) ==
  /\ JoinTo(r, "enter", "failed")
  /\ UNCHANGED <<serverVars, wire, rosterVars, probeVars, verdicts>>

\* One round of ProbeMUCLiveness, late enough for every activity to be old:
\* a room is pinged if a time is noted for it and its features are known.
\* None is, so no answer to a ping is modelled, nor the rejoin that the answer
\* of a room the bot is not in would cause.
ProbeMUC ==
  /\ pinged' = {r \in RoomsConnected \cap MucCapsList : Bare(r) \in LastMucActivity}
  /\ UNCHANGED <<serverVars, wire, join, rosterVars, MucCapsList, LastMucActivity, verdicts>>

RoomStep(r) ==
  \/ SendFeatures(r) \/ Admit(r) \/ Refuse(r) \/ OwnStatus(r) \/ Remove(r)
  \/ \E n \in People : Peer(r, n) \/ Say(r, n)

Recv == RecvPresence \/ RecvError \/ RecvFeatures \/ RecvCommand

Next ==
  \/ \E r \in Rooms : RoomStep(r) \/ JoinMUC(r) \/ JoinEntered(r) \/ JoinTimeout(r)
  \/ Recv
  \/ ProbeMUC

Spec == Init /\ [][Next]_vars

\* The receive loop and ProbeMUCLiveness are scheduled.
FairSpec == Spec /\ WF_vars(Recv) /\ WF_vars(ProbeMUC)

-----------------------------------------------------------------------------
(***************************************************************************)
(* Properties                                                              *)
(***************************************************************************)

Stanzas ==
  [kind : {"presence"}, room : Rooms, nick : Nicks, aff : {"out", "member", "admin"},
   plain : BOOLEAN]
  \cup [kind : {"command"}, room : Rooms, nick : People, aff : {"member", "admin"}]
  \cup [kind : {"features", "error"}, room : Rooms]

\* Types.  A roster holds nobody who is out.
TypeOK ==
  /\ renamed \subseteq Rooms
  /\ occupants \in [Rooms -> [Nicks -> {"out", "member", "admin"}]]
  /\ asked \subseteq Rooms
  /\ Len(wire) <= MaxWire + Cardinality(People) /\ \A i \in 1 .. Len(wire) : wire[i] \in Stanzas
  /\ join \in [Rooms -> {"caps", "enter", "entered", "failed"}]
  /\ RoomsConnected \subseteq Rooms
  /\ RoomPresences \in [Rooms -> SUBSET [nick : Nicks, aff : {"member", "admin"}]]
  /\ MucCapsList \subseteq Rooms /\ pinged \subseteq Rooms
  /\ LastMucActivity \subseteq {Bare(r) : r \in Rooms} \cup {Address(r, n) : r \in Rooms, n \in Nicks}
  /\ verdicts \subseteq [told : BOOLEAN, right : BOOLEAN]

Heard(r) == \A i \in DOMAIN wire : ~(wire[i].kind = "presence" /\ wire[i].room = r)

\* Once the presences of a room the bot is in are read, the roster is the
\* room's: the same nicks, each once, with the affiliation it has there.  The
\* roster is edited entry by entry, by joins, leaves, changes of affiliation
\* and of status, of all rooms mixed on one stream (event_parser.go:547-596).
RosterSettles ==
  \A r \in Rooms : BotIn(r) /\ Heard(r) =>
    RoomPresences[r] = {[nick |-> n, aff |-> occupants[r][n]] :
                          n \in {m \in Nicks : occupants[r][m] # "out"}}

\* A command of an administrator is obeyed, and one of anybody else refused,
\* by what the sender was when it spoke: neither a promotion or demotion
\* before it, nor another room, misleads isMucAdmin (commands.go:113-214).
AdminRight == \A v \in verdicts : v.told = v.right

\* A room the bot is in under its general nick is in RoomsConnected once its
\* presences are read, so that joinMuc goes on to the status of the room
\* (lib.go:110-118).
OwnRoomsKnown ==
  \A r \in Rooms \ renamed : BotIn(r) /\ Heard(r) => r \in RoomsConnected

\* A room that has been silent for long is pinged (globals.go:55-56,
\* data/sample_config.json:48-49): one the bot is in, whose features came and
\* that something was heard from, which is when the code would have a time to
\* compare with (lib.go:240-243).
IdleRoomIsPinged ==
  \A r \in Rooms :
    (r \in RoomsConnected \cap MucCapsList /\ \E a \in LastMucActivity : a[1] = r)
    ~> r \in pinged
=============================================================================
