------------------------------ MODULE RoomsProofs ------------------------------
(***************************************************************************)
(* The roster follows the room, for any number of rooms and people and any *)
(* number of stanzas on the stream.                                        *)
(***************************************************************************)
EXTENDS Rooms, FiniteSetTheorems, TLAPS

-----------------------------------------------------------------------------
(***************************************************************************)
(* What a stream tells of a nick                                           *)
(***************************************************************************)

About(s, r, n) == s.kind = "presence" /\ s.room = r /\ s.nick = n

\* A roster says that n is a.
In(roster, n, a) ==
  IF a = "out" THEN \A p \in roster : p.nick # n
  ELSE [nick |-> n, aff |-> a] \in roster /\ \A p \in roster : p.nick = n => p.aff = a

\* Once the first k stanzas of w are read, the roster of r says that n is a:
\* by the last presence of n among them, or if there is none by what it says.
Told(w, roster, r, n, k, a) ==
  \/ \E j \in 1 .. k : /\ About(w[j], r, n) /\ w[j].aff = a
                       /\ \A m \in j + 1 .. k : ~About(w[m], r, n)
  \/ (\A j \in 1 .. k : ~About(w[j], r, n)) /\ In(roster, n, a)

\* The roster of r after a stanza.
Read(roster, r, s) ==
  IF s.kind = "presence" /\ s.room = r THEN Updated(roster, s) ELSE roster

Affs    == {"out", "member", "admin"}
Rosters == SUBSET [nick : Nicks, aff : {"member", "admin"}]

-----------------------------------------------------------------------------
(***************************************************************************)
(* Lemmas about streams                                                    *)
(***************************************************************************)

LEMMA Joined ==
  ASSUME NEW s \in Seq(Stanzas), NEW t \in Seq(Stanzas)
  PROVE  /\ s \o t \in Seq(Stanzas) /\ Len(s \o t) = Len(s) + Len(t)
         /\ \A j \in 1 .. Len(s) : (s \o t)[j] = s[j]
         /\ \A j \in 1 .. Len(t) : (s \o t)[Len(s) + j] = t[j]
OBVIOUS

\* Of the stanzas that are there, more at the end tell nothing else.
LEMMA ToldPrefix ==
  ASSUME NEW w \in Seq(Stanzas), NEW t \in Seq(Stanzas), NEW roster, NEW r, NEW n, NEW a,
         NEW k \in 0 .. Len(w), Told(w, roster, r, n, k, a)
  PROVE  Told(w \o t, roster, r, n, k, a)
<1>1. \A j \in 1 .. k : (w \o t)[j] = w[j]
  BY Joined
<1>2. QED
  BY <1>1 DEF Told

\* Stanzas about others change nothing for n.
LEMMA ToldLater ==
  ASSUME NEW w \in Seq(Stanzas), NEW t \in Seq(Stanzas), NEW roster, NEW r, NEW n, NEW a,
         Told(w, roster, r, n, Len(w), a), \A i \in 1 .. Len(t) : ~About(t[i], r, n)
  PROVE  Told(w \o t, roster, r, n, Len(w \o t), a)
<1>1. /\ Len(w \o t) = Len(w) + Len(t) /\ Len(w) \in Nat /\ Len(t) \in Nat
      /\ \A j \in 1 .. Len(w) : (w \o t)[j] = w[j]
      /\ \A j \in 1 .. Len(t) : (w \o t)[Len(w) + j] = t[j]
  BY Joined
<1>2. \A j \in Len(w) + 1 .. Len(w \o t) : ~About((w \o t)[j], r, n)
  <2>1. SUFFICES ASSUME NEW j \in Len(w) + 1 .. Len(w \o t) PROVE ~About((w \o t)[j], r, n)
    OBVIOUS
  <2>2. j - Len(w) \in 1 .. Len(t) /\ j = Len(w) + (j - Len(w))
    BY <1>1
  <2>3. (w \o t)[j] = t[j - Len(w)]
    BY <1>1, <2>2
  <2>4. QED
    BY <2>2, <2>3
<1>3. CASE \E j \in 1 .. Len(w) : /\ About(w[j], r, n) /\ w[j].aff = a
                                  /\ \A m \in j + 1 .. Len(w) : ~About(w[m], r, n)
  <2>1. PICK j \in 1 .. Len(w) : /\ About(w[j], r, n) /\ w[j].aff = a
                                 /\ \A m \in j + 1 .. Len(w) : ~About(w[m], r, n)
    BY <1>3
  <2>2. j \in 1 .. Len(w \o t) /\ About((w \o t)[j], r, n) /\ (w \o t)[j].aff = a
    BY <1>1, <2>1
  <2>3. \A m \in j + 1 .. Len(w) : ~About((w \o t)[m], r, n)
    BY <1>1, <2>1
  <2>4. \A m \in j + 1 .. Len(w \o t) : ~About((w \o t)[m], r, n)
    BY <1>1, <1>2, <2>3
  <2>5. QED
    BY <2>2, <2>4 DEF Told
<1>4. CASE (\A j \in 1 .. Len(w) : ~About(w[j], r, n)) /\ In(roster, n, a)
  <2>1. \A j \in 1 .. Len(w) : ~About((w \o t)[j], r, n)
    BY <1>1, <1>4
  <2>2. \A j \in 1 .. Len(w \o t) : ~About((w \o t)[j], r, n)
    BY <1>1, <1>2, <2>1
  <2>3. QED
    BY <1>4, <2>2 DEF Told
<1>5. QED
  BY <1>3, <1>4 DEF Told

\* The last presence of n tells what n is.
LEMMA ToldNew ==
  ASSUME NEW w \in Seq(Stanzas), NEW t \in Seq(Stanzas), NEW roster, NEW r, NEW n, NEW a,
         NEW i \in 1 .. Len(t), About(t[i], r, n), t[i].aff = a,
         \A m \in i + 1 .. Len(t) : ~About(t[m], r, n)
  PROVE  Told(w \o t, roster, r, n, Len(w \o t), a)
<1>1. /\ Len(w \o t) = Len(w) + Len(t) /\ Len(w) \in Nat /\ Len(t) \in Nat
      /\ \A j \in 1 .. Len(t) : (w \o t)[Len(w) + j] = t[j]
  BY Joined
<1> DEFINE j == Len(w) + i
<1>2. j \in 1 .. Len(w \o t) /\ (w \o t)[j] = t[i]
  BY <1>1
<1>3. \A m \in j + 1 .. Len(w \o t) : ~About((w \o t)[m], r, n)
  <2>1. SUFFICES ASSUME NEW m \in j + 1 .. Len(w \o t) PROVE ~About((w \o t)[m], r, n)
    OBVIOUS
  <2>2. m - Len(w) \in i + 1 .. Len(t) /\ m = Len(w) + (m - Len(w))
    BY <1>1
  <2>3. (w \o t)[m] = t[m - Len(w)]
    BY <1>1, <2>2
  <2>4. QED
    BY <2>2, <2>3
<1>4. QED
  BY <1>2, <1>3 DEF Told

LEMMA Tailed ==
  ASSUME NEW w \in Seq(Stanzas), w # <<>>
  PROVE  /\ Head(w) = w[1] /\ Head(w) \in Stanzas /\ Len(w) \in Nat \ {0}
         /\ Tail(w) \in Seq(Stanzas) /\ Len(Tail(w)) = Len(w) - 1
         /\ \A j \in 1 .. Len(w) - 1 : Tail(w)[j] = w[j + 1]
OBVIOUS

\* A presence makes the roster say what it says, and nothing else of others.
LEMMA ReadIn ==
  ASSUME NEW s \in Stanzas, NEW roster \in Rosters, NEW r \in Rooms, NEW n \in Nicks, NEW a \in Affs
  PROVE  /\ About(s, r, n) => In(Read(roster, r, s), n, s.aff)
         /\ ~About(s, r, n) /\ In(roster, n, a) => In(Read(roster, r, s), n, a)
         /\ Read(roster, r, s) \in Rosters
<1>1. About(s, r, n) => In(Read(roster, r, s), n, s.aff)
  BY DEF About, In, Read, Updated
<1>2. ~About(s, r, n) /\ In(roster, n, a) => In(Read(roster, r, s), n, a)
  BY DEF About, In, Read, Updated, Stanzas, Rosters
<1>3. Read(roster, r, s) \in Rosters
  BY DEF Read, Updated, Stanzas, Rosters
<1>4. QED
  BY <1>1, <1>2, <1>3

\* Reading the first stanza does not change what the stream tells.
LEMMA ToldTail ==
  ASSUME NEW w \in Seq(Stanzas), w # <<>>, NEW roster \in Rosters,
         NEW r \in Rooms, NEW n \in Nicks, NEW a \in Affs,
         NEW k \in 1 .. Len(w), Told(w, roster, r, n, k, a)
  PROVE  Told(Tail(w), Read(roster, r, Head(w)), r, n, k - 1, a)
<1> DEFINE s == Head(w)
           v == Tail(w)
           after == Read(roster, r, s)
<1>1. /\ s = w[1] /\ s \in Stanzas /\ Len(w) \in Nat \ {0}
      /\ \A j \in 1 .. Len(w) - 1 : v[j] = w[j + 1]
  BY Tailed
<1> SUFFICES Told(v, after, r, n, k - 1, a)
  OBVIOUS
<1> HIDE DEF v, s
<1>2. k - 1 \in 0 .. Len(w) - 1 /\ \A j \in 1 .. k - 1 : v[j] = w[j + 1] /\ j + 1 \in 2 .. k
  BY <1>1
<1>3. ASSUME NEW j \in 2 .. k, About(w[j], r, n), w[j].aff = a,
             \A m \in j + 1 .. k : ~About(w[m], r, n)
      PROVE  Told(v, after, r, n, k - 1, a)
  <2>1. j - 1 \in 1 .. k - 1 /\ v[j - 1] = w[j]
    BY <1>1, <1>2
  <2>2. \A m \in (j - 1) + 1 .. k - 1 : ~About(v[m], r, n)
    BY <1>2, <1>3
  <2>3. About(v[j - 1], r, n) /\ v[j - 1].aff = a
    BY <1>3, <2>1
  <2>4. QED
    BY <2>1, <2>2, <2>3 DEF Told
<1>4. ASSUME \A m \in 2 .. k : ~About(w[m], r, n), In(after, n, a)
      PROVE  Told(v, after, r, n, k - 1, a)
  <2>1. \A m \in 1 .. k - 1 : ~About(v[m], r, n)
    BY <1>2, <1>4
  <2>2. QED
    BY <1>4, <2>1 DEF Told
<1>5. CASE \E j \in 1 .. k : /\ About(w[j], r, n) /\ w[j].aff = a
                             /\ \A m \in j + 1 .. k : ~About(w[m], r, n)
  <2>1. PICK j \in 1 .. k : /\ About(w[j], r, n) /\ w[j].aff = a
                            /\ \A m \in j + 1 .. k : ~About(w[m], r, n)
    BY <1>5
  <2>2. CASE j = 1
    <3>1. In(after, n, a)
      BY <1>1, <2>1, <2>2, ReadIn
    <3>2. QED
      BY <1>4, <2>1, <2>2, <3>1
  <2>3. CASE j # 1
    <3>1. j \in 2 .. k
      BY <2>3
    <3>2. QED
      BY <1>3, <2>1, <3>1
  <2>4. QED
    BY <2>2, <2>3
<1>6. CASE (\A j \in 1 .. k : ~About(w[j], r, n)) /\ In(roster, n, a)
  <2>1. ~About(s, r, n) /\ \A m \in 2 .. k : ~About(w[m], r, n)
    BY <1>1, <1>6
  <2>2. In(after, n, a)
    BY <1>1, <1>6, <2>1, ReadIn
  <2>3. QED
    BY <1>4, <2>1, <2>2
<1>7. QED
  BY <1>5, <1>6 DEF Told

-----------------------------------------------------------------------------
(***************************************************************************)
(* The inductive invariant                                                 *)
(***************************************************************************)

\* Nobody has the nick that the bot has in other rooms.
Unused(r) == \A n \in {Nick, Alias} : n # BotNick(r) => occupants[r][n] = "out"

Served ==
  /\ renamed \subseteq Rooms /\ asked \subseteq Rooms
  /\ occupants \in [Rooms -> [Nicks -> Affs]]
  /\ \A r \in Rooms : occupants[r][BotNick(r)] # "admin" /\ Unused(r)

Wired == wire \in Seq(Stanzas) /\ Len(wire) <= MaxWire + Cardinality(People)

Listed ==
  /\ join \in [Rooms -> {"caps", "enter", "entered", "failed"}]
  /\ RoomsConnected \subseteq Rooms
  /\ RoomPresences \in [Rooms -> Rosters]

\* Only addresses of occupants are noted.
Probed ==
  /\ MucCapsList \subseteq Rooms
  /\ LastMucActivity \subseteq {Address(r, n) : r \in Rooms, n \in Nicks}
  /\ pinged = {}

Judged == verdicts \subseteq [told : BOOLEAN, right : BOOLEAN] /\ AdminRight

Types == Served /\ Wired /\ Listed /\ Probed /\ Judged

\* The bot asks to enter a room once, and hears nothing of it before.
Silent(r) ==
  /\ ~BotIn(r) /\ RoomPresences[r] = {}
  /\ \A j \in 1 .. Len(wire) : ~(wire[j].kind = "presence" /\ wire[j].room = r)

Before == \A r \in Rooms :
  /\ r \in asked => join[r] # "caps"
  /\ join[r] = "caps" \/ r \in asked => Silent(r)

\* The stream tells of a room the bot is in what is there.
Consistent == \A r \in Rooms : BotIn(r) =>
  \A n \in Nicks : Told(wire, RoomPresences[r], r, n, Len(wire), occupants[r][n])

\* And before a command what its sender was.
CommandsOf(w, presences) == \A k \in 1 .. Len(w) : w[k].kind = "command" =>
  Told(w, presences[w[k].room], w[k].room, w[k].nick, k, w[k].aff)

Commands == CommandsOf(wire, RoomPresences)

\* The bot's own presence has been read, or will be.
Known == \A r \in Rooms \ renamed : BotIn(r) =>
  r \in RoomsConnected \/ \E j \in 1 .. Len(wire) : About(wire[j], r, Nick) /\ wire[j].plain

RInv == Types /\ Before /\ Consistent /\ Commands /\ Known

-----------------------------------------------------------------------------
(***************************************************************************)
(* Sending and reading                                                     *)
(***************************************************************************)

\* Stanzas that are no commands leave the commands before them as they are.
LEMMA CommandsLonger ==
  ASSUME NEW w \in Seq(Stanzas), NEW t \in Seq(Stanzas), NEW presences,
         CommandsOf(w, presences), \A i \in 1 .. Len(t) : t[i].kind # "command"
  PROVE  CommandsOf(w \o t, presences)
<1>1. SUFFICES ASSUME NEW k \in 1 .. Len(w \o t), (w \o t)[k].kind = "command"
               PROVE  LET s == (w \o t)[k]
                      IN  Told(w \o t, presences[s.room], s.room, s.nick, k, s.aff)
  BY DEF CommandsOf
<1>2. k \in 1 .. Len(w)
  <2>1. SUFFICES ASSUME k \notin 1 .. Len(w) PROVE FALSE
    OBVIOUS
  <2>2. Len(w) \in Nat /\ Len(w \o t) = Len(w) + Len(t)
    BY Joined
  <2>3. k - Len(w) \in 1 .. Len(t) /\ k = Len(w) + (k - Len(w))
    BY <2>1, <2>2
  <2>4. (w \o t)[k] = t[k - Len(w)]
    BY <2>3, Joined
  <2>5. QED
    BY <1>1, <2>3, <2>4
<1>3. (w \o t)[k] = w[k]
  BY <1>2, Joined
<1>4. Told(w, presences[w[k].room], w[k].room, w[k].nick, k, w[k].aff)
  BY <1>1, <1>2, <1>3 DEF CommandsOf
<1>5. k \in 0 .. Len(w)
  BY <1>2
<1>6. QED
  BY <1>3, <1>4, <1>5, ToldPrefix

\* A command whose sender is what the stream tells until then.
LEMMA CommandAdded ==
  ASSUME NEW w \in Seq(Stanzas), NEW s \in Stanzas, NEW presences, CommandsOf(w, presences),
         s.kind = "command",
         Told(w, presences[s.room], s.room, s.nick, Len(w), s.aff)
  PROVE  CommandsOf(w \o <<s>>, presences)
<1> DEFINE t == <<s>>
<1>1. t \in Seq(Stanzas) /\ Len(t) = 1 /\ t[1] = s
  OBVIOUS
<1> HIDE DEF t
<1>2. /\ Len(w) \in Nat /\ Len(w \o t) = Len(w) + 1
      /\ \A j \in 1 .. Len(w) : (w \o t)[j] = w[j]
      /\ (w \o t)[Len(w) + 1] = s
  <2>1. 1 \in 1 .. Len(t)
    BY <1>1
  <2>2. (w \o t)[Len(w) + 1] = t[1]
    BY <1>1, <2>1, Joined
  <2>3. Len(w \o t) = Len(w) + Len(t) /\ \A j \in 1 .. Len(w) : (w \o t)[j] = w[j]
    BY <1>1, Joined
  <2>4. QED
    BY <1>1, <2>2, <2>3
<1>3. SUFFICES ASSUME NEW k \in 1 .. Len(w \o t), (w \o t)[k].kind = "command"
               PROVE  LET c == (w \o t)[k]
                      IN  Told(w \o t, presences[c.room], c.room, c.nick, k, c.aff)
  BY DEF CommandsOf, t
<1>4. CASE k \in 1 .. Len(w)
  <2>1. Told(w, presences[w[k].room], w[k].room, w[k].nick, k, w[k].aff)
    BY <1>2, <1>3, <1>4 DEF CommandsOf
  <2>2. k \in 0 .. Len(w)
    BY <1>4
  <2>3. QED
    BY <1>1, <1>2, <1>4, <2>1, <2>2, ToldPrefix
<1>5. CASE k = Len(w) + 1
  <2>1. \A i \in 1 .. Len(t) : ~About(t[i], s.room, s.nick)
    BY <1>1 DEF About
  <2>2. Told(w \o t, presences[s.room], s.room, s.nick, Len(w \o t), s.aff)
    BY <1>1, <2>1, ToldLater
  <2>3. QED
    BY <1>2, <1>5, <2>2
<1>6. QED
  BY <1>2, <1>4, <1>5

\* What is read makes no difference to the commands behind it.
LEMMA CommandsTail ==
  ASSUME NEW w \in Seq(Stanzas), w # <<>>, NEW before \in [Rooms -> Rosters], NEW after,
         CommandsOf(w, before), \A r \in Rooms : after[r] = Read(before[r], r, Head(w))
  PROVE  CommandsOf(Tail(w), after)
<1>1. SUFFICES ASSUME NEW k \in 1 .. Len(Tail(w)), Tail(w)[k].kind = "command"
               PROVE  LET c == Tail(w)[k]
                      IN  Told(Tail(w), after[c.room], c.room, c.nick, k, c.aff)
  BY DEF CommandsOf
<1>2. k + 1 \in 1 .. Len(w) /\ Tail(w)[k] = w[k + 1] /\ (k + 1) - 1 = k
  BY Tailed
<1>3. PICK c \in Stanzas : c = w[k + 1]
  BY <1>2
<1>4. c.kind = "command" /\ c.room \in Rooms /\ c.nick \in Nicks /\ c.aff \in Affs
  BY <1>1, <1>2, <1>3 DEF Stanzas, Nicks, Affs
<1>5. Told(w, before[c.room], c.room, c.nick, k + 1, c.aff)
  BY <1>2, <1>3, <1>4 DEF CommandsOf
<1>6. before[c.room] \in Rosters
  BY <1>4
<1>7. Told(Tail(w), Read(before[c.room], c.room, Head(w)), c.room, c.nick, (k + 1) - 1, c.aff)
  BY <1>2, <1>4, <1>5, <1>6, ToldTail
<1>8. QED
  BY <1>2, <1>3, <1>4, <1>7

-----------------------------------------------------------------------------
(***************************************************************************)
(* The rooms                                                               *)
(***************************************************************************)

LEMMA RInvInit == Init => RInv
<1> SUFFICES ASSUME Init PROVE RInv
  OBVIOUS
<1>1. Cardinality(People) \in Nat
  BY RoomsAssumption, FS_CardinalityType
<1>2. \A r \in Rooms : ~BotIn(r) /\ occupants[r][BotNick(r)] # "admin" /\ Unused(r)
  BY DEF Init, BotIn, BotNick, Unused
<1>3. Served
  BY <1>2 DEF Init, Served, Affs
<1>4. Wired
  BY <1>1, RoomsAssumption DEF Init, Wired
<1>5. Listed
  BY DEF Init, Listed, Rosters
<1>6. Probed /\ Judged
  BY DEF Init, Probed, Judged, AdminRight
<1>7. Before
  BY <1>2 DEF Init, Before, Silent
<1>8. Consistent /\ Known
  BY <1>2 DEF Consistent, Known
<1>9. Commands
  BY DEF Init, Commands, CommandsOf
<1>10. QED
  BY <1>3, <1>4, <1>5, <1>6, <1>7, <1>8, <1>9 DEF RInv, Types

\* The last presence of n in t is what n is then; or there is none in t, and
\* n is what it was, or is out and the bot has heard nothing of it.
TellsOf(t, r, n) ==
  \/ \E i \in 1 .. Len(t) : /\ About(t[i], r, n) /\ t[i].aff = occupants'[r][n]
                            /\ \A m \in i + 1 .. Len(t) : ~About(t[m], r, n)
  \/ /\ \A i \in 1 .. Len(t) : ~About(t[i], r, n)
     /\ \/ BotIn(r) /\ occupants'[r][n] = occupants[r][n]
        \/ Silent(r) /\ occupants'[r][n] = "out"

Quiet(t, r) == \A i \in 1 .. Len(t) : ~(t[i].kind = "presence" /\ t[i].room = r)

\* Stanzas that tell what happens keep the invariant.
LEMMA SentKeeps ==
  ASSUME NEW t \in Seq(Stanzas)
  PROVE  /\ RInv /\ wire' = wire \o t /\ Served' /\ Wired' /\ asked' \subseteq asked
         /\ UNCHANGED <<renamed, join, rosterVars, probeVars, verdicts>>
         /\ \A i \in 1 .. Len(t) : t[i].kind # "command"
         /\ \A r \in Rooms : join[r] = "caps" \/ r \in asked' => ~BotIn(r)' /\ Quiet(t, r)
         /\ \A r \in Rooms : BotIn(r)' => \A n \in Nicks : TellsOf(t, r, n)
         /\ \A r \in Rooms \ renamed : BotIn(r)' =>
              BotIn(r) \/ \E i \in 1 .. Len(t) : About(t[i], r, Nick) /\ t[i].plain
         => RInv'
<1> SUFFICES ASSUME
      RInv, wire' = wire \o t, Served', Wired', asked' \subseteq asked,
      UNCHANGED <<renamed, join, rosterVars, probeVars, verdicts>>,
      \A i \in 1 .. Len(t) : t[i].kind # "command",
      \A r \in Rooms : join[r] = "caps" \/ r \in asked' => ~BotIn(r)' /\ Quiet(t, r),
      \A r \in Rooms : BotIn(r)' => \A n \in Nicks : TellsOf(t, r, n),
      \A r \in Rooms \ renamed : BotIn(r)' =>
        BotIn(r) \/ \E i \in 1 .. Len(t) : About(t[i], r, Nick) /\ t[i].plain
    PROVE RInv'
  OBVIOUS
<1>1. /\ UNCHANGED <<join, RoomsConnected, RoomPresences, MucCapsList, LastMucActivity, pinged, verdicts>>
      /\ UNCHANGED renamed
  BY DEF rosterVars, probeVars
<1>2. PICK w \in Seq(Stanzas) : w = wire
  BY DEF RInv, Types, Wired
<1>3. /\ wire' = w \o t /\ Len(w) \in Nat /\ Len(t) \in Nat /\ Len(w \o t) = Len(w) + Len(t)
      /\ \A j \in 1 .. Len(w) : (w \o t)[j] = w[j]
      /\ \A j \in 1 .. Len(t) : (w \o t)[Len(w) + j] = t[j]
  BY <1>2, Joined
<1>4. Types'
  BY <1>1 DEF RInv, Types, Listed, Probed, Judged, AdminRight
<1>5. Before'
  <2>1. SUFFICES ASSUME NEW r \in Rooms
                 PROVE  /\ r \in asked' => join'[r] # "caps"
                        /\ join'[r] = "caps" \/ r \in asked' => Silent(r)'
    BY DEF Before
  <2>2. r \in asked' => join'[r] # "caps"
    BY <1>1 DEF RInv, Before
  <2>3. ASSUME join'[r] = "caps" \/ r \in asked' PROVE Silent(r)'
    <3>1. Silent(r) /\ ~BotIn(r)' /\ Quiet(t, r)
      BY <1>1, <2>3 DEF RInv, Before
    <3>2. RoomPresences'[r] = {}
      BY <1>1, <3>1 DEF Silent
    <3>3. \A j \in 1 .. Len(w \o t) : ~((w \o t)[j].kind = "presence" /\ (w \o t)[j].room = r)
      <4>1. SUFFICES ASSUME NEW j \in 1 .. Len(w \o t)
                     PROVE  ~((w \o t)[j].kind = "presence" /\ (w \o t)[j].room = r)
        OBVIOUS
      <4>2. CASE j \in 1 .. Len(w)
        BY <1>2, <1>3, <3>1, <4>2 DEF Silent
      <4>3. CASE j \notin 1 .. Len(w)
        <5>1. j - Len(w) \in 1 .. Len(t) /\ j = Len(w) + (j - Len(w))
          BY <1>3, <4>3
        <5>2. (w \o t)[j] = t[j - Len(w)]
          BY <1>3, <5>1
        <5>3. QED
          BY <3>1, <5>1, <5>2 DEF Quiet
      <4>4. QED
        BY <4>2, <4>3
    <3>4. QED
      BY <1>3, <3>1, <3>2, <3>3 DEF Silent
  <2>4. QED
    BY <2>2, <2>3
<1>6. Consistent'
  <2>1. SUFFICES ASSUME NEW r \in Rooms, BotIn(r)', NEW n \in Nicks
                 PROVE  Told(w \o t, RoomPresences[r], r, n, Len(w \o t), occupants'[r][n])
    BY <1>1, <1>3 DEF Consistent
  <2>2. TellsOf(t, r, n)
    BY <2>1
  <2>3. CASE \E i \in 1 .. Len(t) : /\ About(t[i], r, n) /\ t[i].aff = occupants'[r][n]
                                    /\ \A m \in i + 1 .. Len(t) : ~About(t[m], r, n)
    BY <2>3, ToldNew
  <2>4. CASE /\ \A i \in 1 .. Len(t) : ~About(t[i], r, n)
             /\ BotIn(r) /\ occupants'[r][n] = occupants[r][n]
    <3>1. Told(w, RoomPresences[r], r, n, Len(w), occupants'[r][n])
      BY <1>2, <2>4 DEF RInv, Consistent
    <3>2. QED
      BY <2>4, <3>1, ToldLater
  <2>5. CASE /\ \A i \in 1 .. Len(t) : ~About(t[i], r, n)
             /\ Silent(r) /\ occupants'[r][n] = "out"
    <3>1. Told(w, RoomPresences[r], r, n, Len(w), occupants'[r][n])
      <4>1. \A j \in 1 .. Len(w) : ~About(w[j], r, n)
        BY <1>2, <2>5 DEF Silent, About
      <4>2. In(RoomPresences[r], n, occupants'[r][n])
        BY <2>5 DEF Silent, In
      <4>3. QED
        BY <4>1, <4>2 DEF Told
    <3>2. QED
      BY <2>5, <3>1, ToldLater
  <2>6. QED
    BY <2>2, <2>3, <2>4, <2>5 DEF TellsOf
<1>7. Commands'
  BY <1>1, <1>2, <1>3, CommandsLonger DEF RInv, Commands
<1>8. Known'
  <2>1. SUFFICES ASSUME NEW r \in Rooms \ renamed, BotIn(r)'
                 PROVE  \/ r \in RoomsConnected
                        \/ \E j \in 1 .. Len(w \o t) : About((w \o t)[j], r, Nick) /\ (w \o t)[j].plain
    BY <1>1, <1>3 DEF Known
  <2>2. CASE BotIn(r)
    <3>1. \/ r \in RoomsConnected
          \/ \E j \in 1 .. Len(w) : About(w[j], r, Nick) /\ w[j].plain
      BY <1>2, <2>2 DEF RInv, Known
    <3>2. \A j \in 1 .. Len(w) : j \in 1 .. Len(w \o t) /\ (w \o t)[j] = w[j]
      BY <1>3
    <3>3. QED
      BY <3>1, <3>2
  <2>3. CASE \E i \in 1 .. Len(t) : About(t[i], r, Nick) /\ t[i].plain
    <3>1. PICK i \in 1 .. Len(t) : About(t[i], r, Nick) /\ t[i].plain
      BY <2>3
    <3>2. Len(w) + i \in 1 .. Len(w \o t) /\ (w \o t)[Len(w) + i] = t[i]
      BY <1>3
    <3>3. QED
      BY <3>1, <3>2
  <2>4. QED
    BY <2>1, <2>2, <2>3
<1>9. QED
  BY <1>4, <1>5, <1>6, <1>7, <1>8 DEF RInv

LEMMA One ==
  ASSUME NEW s \in Stanzas
  PROVE  <<s>> \in Seq(Stanzas) /\ Len(<<s>>) = 1 /\ <<s>>[1] = s
OBVIOUS

LEMMA None == <<>> \in Seq(Stanzas) /\ Len(<<>>) = 0
OBVIOUS

\* One stanza, or none, does not overfill the stream.
LEMMA OneFits ==
  ASSUME NEW t \in Seq(Stanzas), Len(t) <= 1
  PROVE  RInv /\ Len(wire) < MaxWire /\ wire' = wire \o t => Wired'
<1> SUFFICES ASSUME RInv, Len(wire) < MaxWire, wire' = wire \o t PROVE Wired'
  OBVIOUS
<1>1. Cardinality(People) \in Nat /\ MaxWire \in Nat
  BY RoomsAssumption, FS_CardinalityType
<1>2. PICK w \in Seq(Stanzas) : w = wire
  BY DEF RInv, Types, Wired
<1>3. wire' \in Seq(Stanzas) /\ Len(wire') = Len(w) + Len(t)
  BY <1>2, Joined
<1>4. Len(w) < MaxWire /\ Len(w) \in Nat /\ Len(t) \in Nat
  BY <1>2
<1>5. QED
  BY <1>1, <1>3, <1>4 DEF Wired

\* Whether the bot is in depends on its own nick alone.
LEMMA SameBot ==
  ASSUME NEW r
  PROVE  renamed' = renamed /\ occupants'[r][BotNick(r)] = occupants[r][BotNick(r)]
         => BotIn(r)' = BotIn(r)
BY DEF BotIn, BotNick

\* Features and refusals.
LEMMA PlainKeeps ==
  ASSUME NEW s \in Stanzas, s.kind \in {"features", "error"}
  PROVE  /\ RInv /\ Sends(<<s>>) /\ asked' \subseteq asked
         /\ UNCHANGED <<renamed, occupants, join, rosterVars, probeVars, verdicts>>
         => RInv'
<1> SUFFICES ASSUME RInv, Sends(<<s>>), asked' \subseteq asked,
                    UNCHANGED <<renamed, occupants, join, rosterVars, probeVars, verdicts>>
             PROVE  RInv'
  OBVIOUS
<1>1. PICK t \in Seq(Stanzas) : t = <<s>> /\ Len(t) = 1 /\ t[1] = s
  BY One
<1>2. wire' = wire \o t /\ Len(wire) < MaxWire
  BY <1>1 DEF Sends
<1>3. Wired'
  <2>1. Len(t) <= 1
    BY <1>1
  <2>2. QED
    BY <1>2, <2>1, OneFits
<1>4. Served'
  BY DEF RInv, Types, Served, Unused, BotNick
<1>5. \A i \in 1 .. Len(t) : t[i].kind \notin {"command", "presence"}
  BY <1>1
<1>6. \A r \in Rooms : BotIn(r)' = BotIn(r)
  BY SameBot
<1>7. \A r \in Rooms : join[r] = "caps" \/ r \in asked' => ~BotIn(r)' /\ Quiet(t, r)
  BY <1>5, <1>6 DEF RInv, Before, Silent, Quiet
<1>8. \A r \in Rooms : BotIn(r)' => \A n \in Nicks : TellsOf(t, r, n)
  BY <1>5, <1>6 DEF TellsOf, About
<1>9. QED
  BY <1>2, <1>3, <1>4, <1>5, <1>6, <1>7, <1>8, SentKeeps

\* The nick of the bot is nobody else's.
LEMMA BotAlone == \A r \in Rooms, n \in People : BotNick(r) \in Nicks /\ BotNick(r) # n
BY RoomsAssumption DEF BotNick, Nicks

\* A presence that tells what its nick is from now on.
LEMMA PresenceKeeps ==
  ASSUME NEW r \in Rooms, NEW n \in Nicks, NEW a \in Affs, NEW plain \in BOOLEAN
  PROVE  /\ RInv /\ BotIn(r) /\ Sends(<<Presence(r, n, a, plain)>>)
         /\ occupants' \in [Rooms -> [Nicks -> Affs]] /\ occupants'[r][n] = a
         /\ \A q \in Rooms, m \in Nicks : q # r \/ m # n => occupants'[q][m] = occupants[q][m]
         /\ (n = BotNick(r) /\ a # "admin") \/ n \in People
         /\ UNCHANGED <<renamed, asked, join, rosterVars, probeVars, verdicts>>
         => RInv'
<1> SUFFICES ASSUME RInv, BotIn(r), Sends(<<Presence(r, n, a, plain)>>),
                    occupants' \in [Rooms -> [Nicks -> Affs]], occupants'[r][n] = a,
                    \A q \in Rooms, m \in Nicks : q # r \/ m # n => occupants'[q][m] = occupants[q][m],
                    (n = BotNick(r) /\ a # "admin") \/ n \in People,
                    UNCHANGED <<renamed, asked, join, rosterVars, probeVars, verdicts>>
             PROVE  RInv'
  OBVIOUS
<1>1. Presence(r, n, a, plain) \in Stanzas
  BY DEF Presence, Stanzas, Affs
<1>2. PICK t \in Seq(Stanzas) : t = <<Presence(r, n, a, plain)>> /\ Len(t) = 1
                               /\ t[1] = Presence(r, n, a, plain)
  BY <1>1, One
<1>3. wire' = wire \o t /\ Len(wire) < MaxWire
  BY <1>2 DEF Sends
<1>4. Wired'
  <2>1. Len(t) <= 1
    BY <1>2
  <2>2. QED
    BY <1>3, <2>1, OneFits
<1>5. \A q \in Rooms : BotNick(q) \in Nicks /\ BotNick(q)' = BotNick(q)
  BY DEF BotNick, Nicks
<1>6. Served'
  <2>1. \A q \in Rooms : occupants'[q][BotNick(q)] # "admin"
    BY <1>5, BotAlone DEF RInv, Types, Served
  <2>2. \A q \in Rooms : Unused(q)'
    <3>1. Nick \in Nicks /\ Alias \in Nicks /\ Nick \notin People /\ Alias \notin People
      BY RoomsAssumption DEF Nicks
    <3>2. QED
      BY <1>5, <3>1 DEF RInv, Types, Served, Unused
  <2>3. QED
    BY <1>5, <2>1, <2>2 DEF RInv, Types, Served
<1>7. \A i \in 1 .. Len(t) :
        t[i].kind = "presence" /\ t[i].room = r /\ t[i].nick = n /\ t[i].aff = a
  BY <1>2 DEF Presence
<1>8. \A q \in Rooms : BotIn(q)' => BotIn(q)
  <2>1. SUFFICES ASSUME NEW q \in Rooms, q # r PROVE BotIn(q)' => BotIn(q)
    OBVIOUS
  <2>2. QED
    BY <1>5, <2>1 DEF BotIn
<1>9. \A q \in Rooms : join[q] = "caps" \/ q \in asked' => ~BotIn(q)' /\ Quiet(t, q)
  <2>1. SUFFICES ASSUME NEW q \in Rooms, join[q] = "caps" \/ q \in asked'
                 PROVE  ~BotIn(q)' /\ Quiet(t, q)
    OBVIOUS
  <2>2. ~BotIn(q)
    BY <2>1 DEF RInv, Before, Silent
  <2>3. QED
    BY <1>7, <1>8, <2>2 DEF Quiet
<1>10. \A q \in Rooms : BotIn(q)' => \A m \in Nicks : TellsOf(t, q, m)
  <2>1. SUFFICES ASSUME NEW q \in Rooms, BotIn(q), NEW m \in Nicks PROVE TellsOf(t, q, m)
    BY <1>8
  <2>2. CASE q = r /\ m = n
    <3>1. About(t[1], q, m) /\ t[1].aff = occupants'[q][m] /\ 1 \in 1 .. Len(t)
      BY <1>2, <1>7, <2>2 DEF About
    <3>2. \A k \in 1 + 1 .. Len(t) : ~About(t[k], q, m)
      BY <1>2
    <3>3. QED
      BY <3>1, <3>2 DEF TellsOf
  <2>3. CASE q # r \/ m # n
    BY <1>7, <2>1, <2>3 DEF TellsOf, About
  <2>4. QED
    BY <2>2, <2>3
<1>11. \A i \in 1 .. Len(t) : t[i].kind # "command"
  BY <1>7
<1>12. QED
  BY <1>3, <1>4, <1>6, <1>8, <1>9, <1>10, <1>11, SentKeeps

\* Somebody changes, or the bot is removed, and the bot is not told.
LEMMA UntoldKeeps ==
  ASSUME NEW r \in Rooms
  PROVE  /\ RInv /\ ~BotIn(r)' /\ Unused(r)' /\ wire' = wire
         /\ occupants' \in [Rooms -> [Nicks -> Affs]]
         /\ \A q \in Rooms \ {r} : occupants'[q] = occupants[q]
         /\ UNCHANGED <<renamed, asked, join, rosterVars, probeVars, verdicts>>
         => RInv'
<1> SUFFICES ASSUME RInv, ~BotIn(r)', Unused(r)', wire' = wire,
                    occupants' \in [Rooms -> [Nicks -> Affs]],
                    \A q \in Rooms \ {r} : occupants'[q] = occupants[q],
                    UNCHANGED <<renamed, asked, join, rosterVars, probeVars, verdicts>>
             PROVE  RInv'
  OBVIOUS
<1>1. \A q \in Rooms : BotNick(q)' = BotNick(q)
  BY DEF BotNick
<1>2. Served'
  <2>1. occupants'[r][BotNick(r)] # "admin"
    BY <1>1 DEF BotIn
  <2>2. \A q \in Rooms : occupants'[q][BotNick(q)] # "admin"
    BY <2>1 DEF RInv, Types, Served
  <2>3. \A q \in Rooms : Unused(q)'
    BY <1>1 DEF RInv, Types, Served, Unused
  <2>4. QED
    BY <1>1, <2>2, <2>3 DEF RInv, Types, Served
<1>3. \A q \in Rooms : BotIn(q)' => q # r /\ BotIn(q)
  BY <1>1 DEF BotIn
<1>4. PICK t \in Seq(Stanzas) : t = <<>> /\ Len(t) = 0
  BY None
<1>5. wire' = wire \o t
  BY <1>4 DEF RInv, Types, Wired
<1>6. Wired'
  BY DEF RInv, Types, Wired
<1>7. \A i \in 1 .. Len(t) : FALSE
  BY <1>4
<1>8. \A q \in Rooms : join[q] = "caps" \/ q \in asked' => ~BotIn(q)' /\ Quiet(t, q)
  BY <1>3, <1>7 DEF RInv, Before, Silent, Quiet
<1>9. \A q \in Rooms : BotIn(q)' => \A n \in Nicks : TellsOf(t, q, n)
  BY <1>3, <1>7 DEF TellsOf
<1>10. QED
  BY <1>2, <1>3, <1>5, <1>6, <1>7, <1>8, <1>9, SentKeeps

\* Somebody in a room says something, being what the stream tells it is.
LEMMA SayKeeps == ASSUME NEW r \in Rooms, NEW n \in People PROVE RInv /\ Say(r, n) => RInv'
<1> SUFFICES ASSUME RInv, Say(r, n) PROVE RInv'
  OBVIOUS
<1> DEFINE s == [kind |-> "command", room |-> r, nick |-> n, aff |-> occupants[r][n]]
<1>1. /\ BotIn(r) /\ occupants[r][n] # "out" /\ Sends(<<s>>)
      /\ UNCHANGED <<renamed, occupants, asked, join, rosterVars, probeVars, verdicts>>
  BY DEF Say, serverVars
<1>2. n \in Nicks /\ occupants[r][n] \in {"member", "admin"}
  BY <1>1 DEF RInv, Types, Served, Affs, Nicks
<1>3. s \in Stanzas
  BY <1>2 DEF Stanzas
<1>4. s.kind = "command" /\ s.room = r /\ s.nick = n /\ s.aff = occupants[r][n]
  OBVIOUS
<1> HIDE DEF s
<1>5. PICK t \in Seq(Stanzas) : t = <<s>> /\ Len(t) = 1 /\ t[1] = s
  BY <1>3, One
<1>6. wire' = wire \o t /\ Len(wire) < MaxWire
  BY <1>1, <1>5 DEF Sends
<1>7. /\ UNCHANGED <<RoomsConnected, RoomPresences, MucCapsList, LastMucActivity, pinged>>
      /\ UNCHANGED <<renamed, occupants, asked, join, verdicts>>
  BY <1>1 DEF rosterVars, probeVars
<1>8. PICK w \in Seq(Stanzas) : w = wire
  BY DEF RInv, Types, Wired
<1>9. /\ wire' = w \o t /\ Len(w) \in Nat /\ Len(w \o t) = Len(w) + 1
      /\ \A j \in 1 .. Len(w) : (w \o t)[j] = w[j]
      /\ (w \o t)[Len(w) + 1] = s
  <2>1. 1 \in 1 .. Len(t)
    BY <1>5
  <2>2. (w \o t)[Len(w) + 1] = t[1]
    BY <2>1, Joined
  <2>3. Len(w \o t) = Len(w) + Len(t) /\ \A j \in 1 .. Len(w) : (w \o t)[j] = w[j]
    BY Joined
  <2>4. QED
    BY <1>5, <1>6, <1>8, <2>2, <2>3
<1>10. \A q \in Rooms : BotIn(q)' = BotIn(q)
  BY <1>7, SameBot
<1>11. Types'
  <2>1. Len(t) <= 1
    BY <1>5
  <2>2. Wired'
    BY <1>6, <2>1, OneFits
  <2>3. QED
    BY <1>7, <2>2 DEF RInv, Types, Served, Unused, Listed, Probed, Judged, AdminRight, BotNick
<1>12. Before'
  <2>1. \A q \in Rooms : Silent(q) => Silent(q)'
    <3>1. SUFFICES ASSUME NEW q \in Rooms, Silent(q)
                   PROVE  \A j \in 1 .. Len(w) + 1 :
                            ~((w \o t)[j].kind = "presence" /\ (w \o t)[j].room = q)
      BY <1>7, <1>9, <1>10 DEF Silent
    <3>2. \A j \in 1 .. Len(w) : ~((w \o t)[j].kind = "presence" /\ (w \o t)[j].room = q)
      BY <1>8, <1>9, <3>1 DEF Silent
    <3>3. QED
      BY <1>4, <1>9, <3>2
  <2>2. QED
    BY <1>7, <2>1 DEF RInv, Before
<1>13. Consistent'
  <2>1. SUFFICES ASSUME NEW q \in Rooms, BotIn(q), NEW m \in Nicks
                 PROVE  Told(w \o t, RoomPresences[q], q, m, Len(w \o t), occupants[q][m])
    BY <1>7, <1>9, <1>10 DEF Consistent
  <2>2. Told(w, RoomPresences[q], q, m, Len(w), occupants[q][m])
    BY <1>8, <2>1 DEF RInv, Consistent
  <2>3. \A i \in 1 .. Len(t) : ~About(t[i], q, m)
    BY <1>4, <1>5 DEF About
  <2>4. QED
    BY <2>2, <2>3, ToldLater
<1>14. Commands'
  <2>1. Told(w, RoomPresences[s.room], s.room, s.nick, Len(w), s.aff)
    BY <1>1, <1>2, <1>4, <1>8 DEF RInv, Consistent
  <2>2. CommandsOf(w, RoomPresences)
    BY <1>8 DEF RInv, Commands
  <2>3. CommandsOf(w \o <<s>>, RoomPresences)
    BY <1>3, <1>4, <2>1, <2>2, CommandAdded
  <2>4. QED
    BY <1>5, <1>7, <1>9, <2>3 DEF Commands
<1>15. Known'
  <2>1. \A j \in 1 .. Len(w) : j \in 1 .. Len(w \o t) /\ (w \o t)[j] = w[j]
    BY <1>9
  <2>2. QED
    BY <1>7, <1>8, <1>9, <1>10, <2>1 DEF RInv, Known
<1>16. QED
  BY <1>11, <1>12, <1>13, <1>14, <1>15 DEF RInv

\* One occupant is what it becomes, the others what they were.
LEMMA Occupied ==
  ASSUME NEW r \in Rooms, NEW n \in Nicks, NEW a \in Affs
  PROVE  RInv /\ Occupies(r, n, a) =>
           /\ occupants' \in [Rooms -> [Nicks -> Affs]] /\ occupants'[r][n] = a
           /\ \A q \in Rooms, m \in Nicks : q # r \/ m # n => occupants'[q][m] = occupants[q][m]
           /\ \A q \in Rooms \ {r} : occupants'[q] = occupants[q]
<1> SUFFICES ASSUME RInv, Occupies(r, n, a)
             PROVE  /\ occupants' \in [Rooms -> [Nicks -> Affs]] /\ occupants'[r][n] = a
                    /\ \A q \in Rooms, m \in Nicks :
                         q # r \/ m # n => occupants'[q][m] = occupants[q][m]
                    /\ \A q \in Rooms \ {r} : occupants'[q] = occupants[q]
  OBVIOUS
<1>1. occupants \in [Rooms -> [Nicks -> Affs]]
  BY DEF RInv, Types, Served
<1> DEFINE now == [occupants[r] EXCEPT ![n] = a]
<1>2. now \in [Nicks -> Affs] /\ now[n] = a /\ \A m \in Nicks \ {n} : now[m] = occupants[r][m]
  BY <1>1
<1>3. occupants' = [occupants EXCEPT ![r] = now]
  BY DEF Occupies
<1> HIDE DEF now
<1>4. occupants'[r] = now /\ \A q \in Rooms \ {r} : occupants'[q] = occupants[q]
  BY <1>1, <1>3
<1>5. occupants' \in [Rooms -> [Nicks -> Affs]]
  BY <1>1, <1>2, <1>3
<1>6. QED
  BY <1>2, <1>4, <1>5

LEMMA PeerKeeps == ASSUME NEW r \in Rooms, NEW n \in People PROVE RInv /\ Peer(r, n) => RInv'
<1> SUFFICES ASSUME RInv, Peer(r, n) PROVE RInv'
  OBVIOUS
<1>1. n \in Nicks /\ BotNick(r) # n /\ BotNick(r) \in Nicks
  BY BotAlone DEF Nicks
<1>2. PICK a \in Affs :
        /\ Occupies(r, n, a)
        /\ IF BotIn(r) THEN Sends(<<Presence(r, n, a, TRUE)>>) ELSE UNCHANGED wire
        /\ UNCHANGED <<renamed, asked, join, rosterVars, probeVars, verdicts>>
  BY DEF Peer, Affs
<1>3. /\ occupants' \in [Rooms -> [Nicks -> Affs]] /\ occupants'[r][n] = a
      /\ \A q \in Rooms, m \in Nicks : q # r \/ m # n => occupants'[q][m] = occupants[q][m]
      /\ \A q \in Rooms \ {r} : occupants'[q] = occupants[q]
  BY <1>1, <1>2, Occupied
<1>4. CASE BotIn(r)
  BY <1>1, <1>2, <1>3, <1>4, PresenceKeeps
<1>5. CASE ~BotIn(r)
  <2>1. ~BotIn(r)'
    BY <1>1, <1>2, <1>3, <1>5, SameBot
  <2>2. Unused(r)'
    <3>1. Nick \in Nicks /\ Alias \in Nicks /\ Nick # n /\ Alias # n
      BY RoomsAssumption DEF Nicks
    <3>2. BotNick(r)' = BotNick(r)
      BY <1>2 DEF BotNick
    <3>3. QED
      BY <1>3, <3>1, <3>2 DEF RInv, Types, Served, Unused
  <2>3. QED
    BY <1>2, <1>3, <1>5, <2>1, <2>2, UntoldKeeps
<1>6. QED
  BY <1>4, <1>5

\* The bot's status comes back as a presence of what it is.
LEMMA StatusKeeps == ASSUME NEW r \in Rooms PROVE RInv /\ OwnStatus(r) => RInv'
<1> SUFFICES ASSUME RInv, OwnStatus(r) PROVE RInv'
  OBVIOUS
<1>1. PICK plain \in BOOLEAN : Sends(<<Presence(r, BotNick(r), "member", plain)>>)
  BY DEF OwnStatus
<1>2. /\ BotIn(r)
      /\ UNCHANGED <<renamed, occupants, asked, join, rosterVars, probeVars, verdicts>>
  BY DEF OwnStatus, serverVars
<1>3. PICK n \in Nicks : n = BotNick(r)
  BY DEF BotNick, Nicks
<1>4. "member" \in Affs /\ occupants \in [Rooms -> [Nicks -> Affs]] /\ occupants[r][n] = "member"
  BY <1>2, <1>3 DEF RInv, Types, Served, Affs, BotIn
<1>5. QED
  BY <1>1, <1>2, <1>3, <1>4, PresenceKeeps

\* The bot is removed, and told so or not.
LEMMA RemoveKeeps == ASSUME NEW r \in Rooms PROVE RInv /\ Remove(r) => RInv'
<1> SUFFICES ASSUME RInv, Remove(r) PROVE RInv'
  OBVIOUS
<1>1. PICK n \in Nicks : n = BotNick(r)
  BY DEF BotNick, Nicks
<1>2. /\ BotIn(r) /\ Occupies(r, n, "out")
      /\ Sends(<<Presence(r, n, "out", TRUE)>>) \/ UNCHANGED wire
      /\ UNCHANGED <<renamed, asked, join, rosterVars, probeVars, verdicts>>
  BY <1>1 DEF Remove
<1>3. "out" \in Affs
  BY DEF Affs
<1>4. /\ occupants' \in [Rooms -> [Nicks -> Affs]] /\ occupants'[r][n] = "out"
      /\ \A q \in Rooms, m \in Nicks : q # r \/ m # n => occupants'[q][m] = occupants[q][m]
      /\ \A q \in Rooms \ {r} : occupants'[q] = occupants[q]
  BY <1>2, <1>3, Occupied
<1>5. CASE Sends(<<Presence(r, n, "out", TRUE)>>)
  BY <1>1, <1>2, <1>3, <1>4, <1>5, PresenceKeeps
<1>6. CASE UNCHANGED wire
  <2>1. BotNick(r)' = BotNick(r)
    BY <1>2 DEF BotNick
  <2>2. ~BotIn(r)'
    BY <1>1, <1>4, <2>1 DEF BotIn
  <2>3. Unused(r)'
    <3>1. Nick \in Nicks /\ Alias \in Nicks
      BY DEF Nicks
    <3>2. QED
      BY <1>1, <1>4, <2>1, <3>1 DEF RInv, Types, Served, Unused
  <2>4. QED
    BY <1>2, <1>4, <1>6, <2>2, <2>3, UntoldKeeps
<1>7. QED
  BY <1>2, <1>5, <1>6

LEMMA PresenceIs ==
  ASSUME NEW r \in Rooms, NEW n \in Nicks, NEW a \in Affs, NEW plain \in BOOLEAN
  PROVE  LET s == Presence(r, n, a, plain)
         IN  /\ s \in Stanzas /\ s.kind = "presence" /\ s.room = r
             /\ s.nick = n /\ s.aff = a /\ s.plain = plain
BY DEF Presence, Stanzas, Affs

\* A room presents everybody who is there, once.
LEMMA PresentedAll ==
  ASSUME NEW r \in Rooms, NEW others \in Presented(r), occupants \in [Rooms -> [Nicks -> Affs]]
  PROVE  /\ others \in Seq(Stanzas) /\ Len(others) <= Cardinality(People)
         /\ \A i \in 1 .. Len(others) :
              /\ others[i].kind = "presence" /\ others[i].room = r
              /\ others[i].nick \in People /\ others[i].aff = occupants[r][others[i].nick]
              /\ others[i].aff # "out"
         /\ \A i, j \in 1 .. Len(others) : others[i].nick = others[j].nick => i = j
         /\ \A n \in People : occupants[r][n] # "out" =>
              \E i \in 1 .. Len(others) : others[i].nick = n
<1> DEFINE there == {n \in People : occupants[r][n] # "out"}
           c == Cardinality(there)
<1>1. c \in Nat /\ c <= Cardinality(People) /\ IsFiniteSet(there)
  BY RoomsAssumption, FS_Subset, FS_CardinalityType
<1>2. PICK order \in [1 .. c -> there] :
        /\ \A i, j \in 1 .. c : order[i] = order[j] => i = j
        /\ others = [i \in 1 .. c |-> Presence(r, order[i], occupants[r][order[i]], TRUE)]
  BY DEF Presented
<1>3. \A n \in there : \E i \in 1 .. c : order[i] = n
  <2>1. order \in Injection(1 .. c, there)
    BY <1>2 DEF Injection, IsInjective
  <2>2. Cardinality(1 .. c) = c
    BY <1>1, FS_Interval
  <2>3. order \in Surjection(1 .. c, there)
    BY <1>1, <2>1, <2>2, FS_Injection
  <2>4. QED
    BY <2>3 DEF Surjection
<1>4. \A i \in 1 .. c : /\ order[i] \in People /\ occupants[r][order[i]] \in Affs
                        /\ occupants[r][order[i]] # "out"
  BY <1>2 DEF Nicks
<1> HIDE DEF there, c
<1>5. \A i \in 1 .. c : others[i] = Presence(r, order[i], occupants[r][order[i]], TRUE)
  BY <1>2
<1>6. ASSUME NEW i \in 1 .. c
      PROVE  /\ others[i] \in Stanzas
             /\ others[i].kind = "presence" /\ others[i].room = r
             /\ others[i].nick = order[i] /\ others[i].aff = occupants[r][order[i]]
  <2>1. PICK n \in Nicks : n = order[i]
    BY <1>4 DEF Nicks
  <2>2. PICK a \in Affs : a = occupants[r][order[i]]
    BY <1>4
  <2>3. others[i] = Presence(r, n, a, TRUE)
    BY <1>5, <2>1, <2>2
  <2>4. PICK s \in Stanzas : /\ s = Presence(r, n, a, TRUE)
                             /\ s.kind = "presence" /\ s.room = r /\ s.nick = n /\ s.aff = a
    BY PresenceIs
  <2>5. QED
    BY <2>1, <2>2, <2>3, <2>4
<1>7. others \in Seq(Stanzas) /\ Len(others) = c
  <2>1. others \in [1 .. c -> Stanzas]
    BY <1>2, <1>6
  <2>2. QED
    BY <1>1, <2>1
<1>8. \A n \in People : occupants[r][n] # "out" => \E i \in 1 .. c : others[i].nick = n
  <2>1. SUFFICES ASSUME NEW n \in there PROVE \E i \in 1 .. c : others[i].nick = n
    BY DEF there
  <2>2. PICK i \in 1 .. c : order[i] = n
    BY <1>3, <2>1
  <2>3. QED
    BY <1>6, <2>2
<1>9. \A i, j \in 1 .. c : others[i].nick = others[j].nick => i = j
  <2>1. SUFFICES ASSUME NEW i \in 1 .. c, NEW j \in 1 .. c, others[i].nick = others[j].nick
                 PROVE  i = j
    OBVIOUS
  <2>2. order[i] = order[j]
    BY <1>6, <2>1
  <2>3. QED
    BY <1>2, <2>2
<1>10. \A i \in 1 .. c : /\ others[i].kind = "presence" /\ others[i].room = r
                         /\ others[i].nick \in People
                         /\ others[i].aff = occupants[r][others[i].nick]
                         /\ others[i].aff # "out"
  BY <1>4, <1>6
<1>11. QED
  BY <1>1, <1>7, <1>8, <1>9, <1>10

LEMMA Added ==
  ASSUME NEW s \in Seq(Stanzas), NEW x \in Stanzas
  PROVE  /\ Append(s, x) \in Seq(Stanzas) /\ Len(s) \in Nat /\ Len(Append(s, x)) = Len(s) + 1
         /\ \A i \in 1 .. Len(s) : Append(s, x)[i] = s[i]
         /\ Append(s, x)[Len(s) + 1] = x
OBVIOUS

\* The bot is let in, and is told who is there.
LEMMA AdmitKeeps == ASSUME NEW r \in Rooms PROVE RInv /\ Admit(r) => RInv'
<1> SUFFICES ASSUME RInv, Admit(r) PROVE RInv'
  OBVIOUS
<1>1. PICK b \in Nicks : b = BotNick(r) /\ b \in {Nick, Alias}
  BY DEF BotNick, Nicks
<1>2. PICK own \in Stanzas :
        /\ own = Presence(r, b, "member", TRUE) /\ own.kind = "presence" /\ own.room = r
        /\ own.nick = b /\ own.aff = "member" /\ own.plain
  <2>1. PICK a \in Affs : a = "member"
    BY DEF Affs
  <2>2. PICK s \in Stanzas : /\ s = Presence(r, b, a, TRUE)
                             /\ s.kind = "presence" /\ s.room = r /\ s.nick = b /\ s.aff = a
    BY PresenceIs
  <2>3. s.plain
    BY <2>2 DEF Presence
  <2>4. QED
    BY <2>1, <2>2, <2>3
<1>3. /\ r \in asked /\ asked' = asked \ {r} /\ Occupies(r, b, "member")
      /\ UNCHANGED <<renamed, join, rosterVars, probeVars, verdicts>>
  BY <1>1 DEF Admit
<1>4. PICK others \in Presented(r) : Sends(Append(others, own))
  BY <1>1, <1>2 DEF Admit
<1>5. occupants \in [Rooms -> [Nicks -> Affs]]
  BY DEF RInv, Types, Served
<1>6. /\ others \in Seq(Stanzas) /\ Len(others) <= Cardinality(People)
      /\ \A i \in 1 .. Len(others) :
           /\ others[i].kind = "presence" /\ others[i].room = r
           /\ others[i].nick \in People /\ others[i].aff = occupants[r][others[i].nick]
           /\ others[i].aff # "out"
      /\ \A i, j \in 1 .. Len(others) : others[i].nick = others[j].nick => i = j
      /\ \A n \in People : occupants[r][n] # "out" =>
           \E i \in 1 .. Len(others) : others[i].nick = n
  BY <1>5, PresentedAll
<1>7. PICK t \in Seq(Stanzas) :
        /\ t = Append(others, own) /\ Len(others) \in Nat /\ Len(t) = Len(others) + 1
        /\ \A i \in 1 .. Len(others) : t[i] = others[i]
        /\ t[Len(others) + 1] = own
  <2>1. /\ Append(others, own) \in Seq(Stanzas) /\ Len(others) \in Nat
        /\ Len(Append(others, own)) = Len(others) + 1
        /\ \A i \in 1 .. Len(others) : Append(others, own)[i] = others[i]
        /\ Append(others, own)[Len(others) + 1] = own
    BY <1>6, Added
  <2>2. QED
    BY <2>1
<1>8. wire' = wire \o t /\ Len(wire) < MaxWire
  BY <1>4, <1>7 DEF Sends
<1>9. Wired'
  <2>1. Cardinality(People) \in Nat /\ MaxWire \in Nat
    BY RoomsAssumption, FS_CardinalityType
  <2>2. PICK w \in Seq(Stanzas) : w = wire
    BY DEF RInv, Types, Wired
  <2>3. wire' \in Seq(Stanzas) /\ Len(wire') = Len(w) + Len(t)
    BY <1>8, <2>2, Joined
  <2>4. Len(w) < MaxWire /\ Len(w) \in Nat
    BY <1>8, <2>2
  <2>5. QED
    BY <1>6, <1>7, <2>1, <2>3, <2>4 DEF Wired
<1>10. /\ occupants' \in [Rooms -> [Nicks -> Affs]] /\ occupants'[r][b] = "member"
       /\ \A q \in Rooms, m \in Nicks : q # r \/ m # b => occupants'[q][m] = occupants[q][m]
       /\ \A q \in Rooms \ {r} : occupants'[q] = occupants[q]
  <2>1. "member" \in Affs
    BY DEF Affs
  <2>2. QED
    BY <1>3, <2>1, Occupied
<1>11. \A q \in Rooms : BotNick(q) \in Nicks /\ BotNick(q)' = BotNick(q)
  BY <1>3 DEF BotNick, Nicks
<1>12. Served'
  <2>1. \A q \in Rooms : occupants'[q][BotNick(q)] # "admin"
    BY <1>1, <1>10, <1>11 DEF RInv, Types, Served
  <2>2. \A q \in Rooms : Unused(q)'
    <3>1. Nick \in Nicks /\ Alias \in Nicks
      BY DEF Nicks
    <3>2. QED
      BY <1>1, <1>10, <1>11, <3>1 DEF RInv, Types, Served, Unused
  <2>3. QED
    BY <1>3, <1>10, <1>11, <2>1, <2>2 DEF RInv, Types, Served
<1>13. \A i \in 1 .. Len(t) : t[i].kind = "presence" /\ t[i].room = r
  <2>1. \A i \in 1 .. Len(others) : t[i].kind = "presence" /\ t[i].room = r
    BY <1>6, <1>7
  <2>2. t[Len(others) + 1].kind = "presence" /\ t[Len(others) + 1].room = r
    BY <1>2, <1>7
  <2>3. QED
    BY <1>7, <2>1, <2>2
<1>14. \A q \in Rooms \ {r} : BotIn(q)' = BotIn(q)
  BY <1>3, <1>10, SameBot
<1>15. Silent(r)
  BY <1>3 DEF RInv, Before
<1>16. \A q \in Rooms : join[q] = "caps" \/ q \in asked' => ~BotIn(q)' /\ Quiet(t, q)
  <2>1. SUFFICES ASSUME NEW q \in Rooms, join[q] = "caps" \/ q \in asked'
                 PROVE  ~BotIn(q)' /\ Quiet(t, q)
    OBVIOUS
  <2>2. q # r /\ Silent(q)
    BY <1>3, <2>1 DEF RInv, Before
  <2>3. QED
    BY <1>13, <1>14, <2>2 DEF Quiet, Silent
<1>17. ASSUME NEW m \in Nicks PROVE TellsOf(t, r, m)
  <2>1. CASE m = b
    <3>1. Len(others) + 1 \in 1 .. Len(t) /\ Len(others) + 1 + 1 > Len(t)
      BY <1>7
    <3>2. About(t[Len(others) + 1], r, m) /\ t[Len(others) + 1].aff = occupants'[r][m]
      BY <1>2, <1>7, <1>10, <2>1 DEF About
    <3>3. \A k \in Len(others) + 1 + 1 .. Len(t) : ~About(t[k], r, m)
      BY <1>7, <3>1
    <3>4. QED
      BY <3>1, <3>2, <3>3 DEF TellsOf
  <2>2. CASE m # b /\ occupants[r][m] = "out"
    <3>1. \A i \in 1 .. Len(others) : ~About(t[i], r, m)
      BY <1>6, <1>7, <2>2 DEF About
    <3>2. ~About(t[Len(others) + 1], r, m)
      BY <1>2, <1>7, <2>2 DEF About
    <3>3. \A i \in 1 .. Len(t) : ~About(t[i], r, m)
      BY <1>7, <3>1, <3>2
    <3>4. occupants'[r][m] = "out"
      BY <1>10, <2>2
    <3>5. QED
      BY <1>15, <3>3, <3>4 DEF TellsOf
  <2>3. CASE m # b /\ occupants[r][m] # "out"
    <3>1. m \in People
      BY <1>1, <2>3 DEF RInv, Types, Served, Unused, Nicks
    <3>2. PICK i \in 1 .. Len(others) : others[i].nick = m
      BY <1>6, <2>3, <3>1
    <3>3. i \in 1 .. Len(t) /\ t[i] = others[i]
      BY <1>7
    <3>4. About(t[i], r, m) /\ t[i].aff = occupants'[r][m]
      BY <1>6, <1>10, <2>3, <3>2, <3>3 DEF About
    <3>5. \A k \in i + 1 .. Len(others) : ~About(t[k], r, m)
      BY <1>6, <1>7, <3>2 DEF About
    <3>6. ~About(t[Len(others) + 1], r, m)
      BY <1>2, <1>7, <2>3 DEF About
    <3>7. \A k \in i + 1 .. Len(t) : ~About(t[k], r, m)
      BY <1>7, <3>5, <3>6
    <3>8. QED
      BY <3>3, <3>4, <3>7 DEF TellsOf
  <2>4. QED
    BY <2>1, <2>2, <2>3
<1>18. \A q \in Rooms : BotIn(q)' => \A m \in Nicks : TellsOf(t, q, m)
  <2>1. SUFFICES ASSUME NEW q \in Rooms \ {r}, BotIn(q)', NEW m \in Nicks PROVE TellsOf(t, q, m)
    BY <1>17
  <2>2. BotIn(q) /\ occupants'[q][m] = occupants[q][m]
    BY <1>10, <1>14, <2>1
  <2>3. \A i \in 1 .. Len(t) : ~About(t[i], q, m)
    BY <1>13 DEF About
  <2>4. QED
    BY <2>2, <2>3 DEF TellsOf
<1>19. \A q \in Rooms \ renamed : BotIn(q)' =>
         BotIn(q) \/ \E i \in 1 .. Len(t) : About(t[i], q, Nick) /\ t[i].plain
  <2>1. SUFFICES ASSUME r \notin renamed
                 PROVE  \E i \in 1 .. Len(t) : About(t[i], r, Nick) /\ t[i].plain
    BY <1>14
  <2>2. b = Nick
    BY <1>1, <2>1 DEF BotNick
  <2>3. Len(others) + 1 \in 1 .. Len(t)
    BY <1>7
  <2>4. QED
    BY <1>2, <1>7, <2>2, <2>3 DEF About
<1>20. \A i \in 1 .. Len(t) : t[i].kind # "command"
  BY <1>13
<1>21. asked' \subseteq asked
  BY <1>3
<1>22. QED
  BY <1>3, <1>8, <1>9, <1>12, <1>16, <1>18, <1>19, <1>20, <1>21, SentKeeps

LEMMA PlainIs ==
  ASSUME NEW r \in Rooms
  PROVE  /\ \E s \in Stanzas : s = [kind |-> "features", room |-> r] /\ s.kind = "features"
         /\ \E s \in Stanzas : s = [kind |-> "error", room |-> r] /\ s.kind = "error"
<1>1. [kind |-> "features", room |-> r] \in Stanzas /\ [kind |-> "error", room |-> r] \in Stanzas
  BY DEF Stanzas
<1>2. QED
  BY <1>1

LEMMA FeaturesKeep == ASSUME NEW r \in Rooms PROVE RInv /\ SendFeatures(r) => RInv'
<1> SUFFICES ASSUME RInv, SendFeatures(r) PROVE RInv'
  OBVIOUS
<1>1. PICK s \in Stanzas : s = [kind |-> "features", room |-> r] /\ s.kind = "features"
  BY PlainIs
<1>2. Sends(<<s>>) /\ UNCHANGED <<renamed, occupants, asked, join, rosterVars, probeVars, verdicts>>
  BY <1>1 DEF SendFeatures, serverVars
<1>3. QED
  BY <1>1, <1>2, PlainKeeps

LEMMA RefuseKeeps == ASSUME NEW r \in Rooms PROVE RInv /\ Refuse(r) => RInv'
<1> SUFFICES ASSUME RInv, Refuse(r) PROVE RInv'
  OBVIOUS
<1>1. PICK s \in Stanzas : s = [kind |-> "error", room |-> r] /\ s.kind = "error"
  BY PlainIs
<1>2. /\ Sends(<<s>>) /\ asked' \subseteq asked
      /\ UNCHANGED <<renamed, occupants, join, rosterVars, probeVars, verdicts>>
  BY <1>1 DEF Refuse
<1>3. QED
  BY <1>1, <1>2, PlainKeeps

-----------------------------------------------------------------------------
(***************************************************************************)
(* The bot                                                                 *)
(***************************************************************************)

\* The stages of joinMuc: only the first ends with a request to enter.
LEMMA JoinKeeps ==
  ASSUME NEW r \in Rooms
  PROVE  RInv /\ (JoinMUC(r) \/ JoinEntered(r) \/ JoinTimeout(r)) => RInv'
<1> SUFFICES ASSUME RInv, JoinMUC(r) \/ JoinEntered(r) \/ JoinTimeout(r) PROVE RInv'
  OBVIOUS
<1>1. /\ UNCHANGED <<renamed, occupants, wire, RoomsConnected, RoomPresences>>
      /\ UNCHANGED <<MucCapsList, LastMucActivity, pinged, verdicts>>
  BY DEF JoinMUC, JoinEntered, JoinTimeout, serverVars, rosterVars, probeVars
<1>2. /\ join' \in [Rooms -> {"caps", "enter", "entered", "failed"}] /\ join'[r] # "caps"
      /\ \A q \in Rooms \ {r} : join'[q] = join[q]
  BY DEF JoinMUC, JoinEntered, JoinTimeout, JoinTo, RInv, Types, Listed
<1>3. \/ asked' = asked
      \/ asked' = asked \cup {r} /\ join[r] = "caps"
  BY DEF JoinMUC, JoinEntered, JoinTimeout, JoinTo, serverVars
<1>4. \A q \in Rooms : BotIn(q)' = BotIn(q)
  BY <1>1, SameBot
<1>5. Types'
  <2>1. Served'
    BY <1>1, <1>3 DEF RInv, Types, Served, Unused, BotNick
  <2>2. Wired' /\ Listed'
    BY <1>1, <1>2 DEF RInv, Types, Wired, Listed
  <2>3. Probed' /\ Judged'
    BY <1>1 DEF RInv, Types, Probed, Judged, AdminRight
  <2>4. QED
    BY <2>1, <2>2, <2>3 DEF Types
<1>6. Before'
  <2>1. \A q \in Rooms : Silent(q) => Silent(q)'
    BY <1>1, <1>4 DEF Silent
  <2>2. QED
    BY <1>2, <1>3, <2>1 DEF RInv, Before
<1>7. Consistent' /\ Known'
  BY <1>1, <1>4 DEF RInv, Consistent, Known
<1>8. Commands'
  BY <1>1 DEF RInv, Commands
<1>9. QED
  BY <1>5, <1>6, <1>7, <1>8 DEF RInv

\* Reading a stanza, once its presence is in the roster and the bot's own in
\* the list of rooms.
LEMMA ReadKeeps ==
  /\ RInv /\ wire # <<>> /\ wire' = Tail(wire) /\ UNCHANGED <<serverVars, join>>
  /\ Listed' /\ Probed' /\ Judged'
  /\ \A r \in Rooms : RoomPresences'[r] = Read(RoomPresences[r], r, Head(wire))
  /\ RoomsConnected \subseteq RoomsConnected'
  /\ \A r \in Rooms : About(Head(wire), r, Nick) /\ Head(wire).plain => r \in RoomsConnected'
  => RInv'
<1> SUFFICES ASSUME
      RInv, wire # <<>>, wire' = Tail(wire), UNCHANGED <<serverVars, join>>,
      Listed', Probed', Judged',
      \A r \in Rooms : RoomPresences'[r] = Read(RoomPresences[r], r, Head(wire)),
      RoomsConnected \subseteq RoomsConnected',
      \A r \in Rooms : About(Head(wire), r, Nick) /\ Head(wire).plain => r \in RoomsConnected'
    PROVE RInv'
  OBVIOUS
<1>1. PICK w \in Seq(Stanzas) : w = wire /\ w # <<>>
  BY DEF RInv, Types, Wired
<1>2. /\ Head(w) = w[1] /\ Head(w) \in Stanzas /\ Len(w) \in Nat \ {0}
      /\ wire' \in Seq(Stanzas) /\ Len(wire') = Len(w) - 1
      /\ \A j \in 1 .. Len(w) - 1 : wire'[j] = w[j + 1]
  BY <1>1, Tailed
<1>3. UNCHANGED <<renamed, occupants, asked, join>>
  BY DEF serverVars
<1>4. \A r \in Rooms : BotIn(r)' = BotIn(r)
  BY <1>3, SameBot
<1>5. Types'
  <2>1. Cardinality(People) \in Nat /\ MaxWire \in Nat
    BY RoomsAssumption, FS_CardinalityType
  <2>2. Len(w) <= MaxWire + Cardinality(People)
    BY <1>1 DEF RInv, Types, Wired
  <2>3. Wired'
    BY <1>2, <2>1, <2>2 DEF Wired
  <2>4. Served'
    BY <1>3 DEF RInv, Types, Served, Unused, BotNick
  <2>5. QED
    BY <2>3, <2>4 DEF Types
<1>6. Before'
  <2>1. ASSUME NEW r \in Rooms, Silent(r) PROVE Silent(r)'
    <3>1. \A j \in 1 .. Len(w) : ~(w[j].kind = "presence" /\ w[j].room = r)
      BY <1>1, <2>1 DEF Silent
    <3>2. 1 \in 1 .. Len(w) /\ \A j \in 1 .. Len(w) - 1 : j + 1 \in 1 .. Len(w)
      BY <1>2
    <3>3. RoomPresences'[r] = {}
      BY <1>1, <1>2, <2>1, <3>1, <3>2 DEF Silent, Read
    <3>4. \A j \in 1 .. Len(wire') : ~(wire'[j].kind = "presence" /\ wire'[j].room = r)
      BY <1>2, <3>1, <3>2
    <3>5. QED
      BY <1>4, <2>1, <3>3, <3>4 DEF Silent
  <2>2. QED
    BY <1>3, <2>1 DEF RInv, Before
<1>7. Consistent'
  <2>1. SUFFICES ASSUME NEW r \in Rooms, BotIn(r), NEW n \in Nicks
                 PROVE  Told(wire', RoomPresences'[r], r, n, Len(wire'), occupants[r][n])
    BY <1>3, <1>4 DEF Consistent
  <2>2. PICK a \in Affs : a = occupants[r][n]
    BY DEF RInv, Types, Served
  <2>3. PICK roster \in Rosters : roster = RoomPresences[r]
    BY DEF RInv, Types, Listed
  <2>4. Told(w, roster, r, n, Len(w), a)
    BY <1>1, <2>1, <2>2, <2>3 DEF RInv, Consistent
  <2>5. Len(w) \in 1 .. Len(w)
    BY <1>2
  <2>6. Told(Tail(w), Read(roster, r, Head(w)), r, n, Len(w) - 1, a)
    BY <1>1, <2>4, <2>5, ToldTail
  <2>7. QED
    BY <1>1, <1>2, <2>2, <2>3, <2>6
<1>8. Commands'
  <2>1. PICK before \in [Rooms -> Rosters] : before = RoomPresences
    BY DEF RInv, Types, Listed
  <2>2. CommandsOf(w, before)
    BY <1>1, <2>1 DEF RInv, Commands
  <2>3. \A r \in Rooms : RoomPresences'[r] = Read(before[r], r, Head(w))
    BY <1>1, <2>1
  <2>4. CommandsOf(Tail(w), RoomPresences')
    BY <1>1, <2>2, <2>3, CommandsTail
  <2>5. QED
    BY <1>1, <2>4 DEF Commands
<1>9. Known'
  <2>1. SUFFICES ASSUME NEW r \in Rooms \ renamed, BotIn(r), r \notin RoomsConnected'
                 PROVE  \E j \in 1 .. Len(wire') : About(wire'[j], r, Nick) /\ wire'[j].plain
    BY <1>3, <1>4 DEF Known
  <2>2. PICK j \in 1 .. Len(w) : About(w[j], r, Nick) /\ w[j].plain
    BY <1>1, <2>1 DEF RInv, Known
  <2>3. j # 1
    BY <1>1, <1>2, <2>1, <2>2
  <2>4. j - 1 \in 1 .. Len(w) - 1 /\ (j - 1) + 1 = j
    BY <1>2, <2>3
  <2>5. j - 1 \in 1 .. Len(wire') /\ wire'[j - 1] = w[j]
    BY <1>2, <2>4
  <2>6. QED
    BY <2>2, <2>5
<1>10. QED
  BY <1>5, <1>6, <1>7, <1>8, <1>9 DEF RInv

\* A stanza that is no presence leaves the rosters as they are.
LEMMA OtherRead ==
  ASSUME RInv, wire # <<>>, Head(wire).kind # "presence", UNCHANGED rosterVars
  PROVE  /\ Listed' <=> (join' \in [Rooms -> {"caps", "enter", "entered", "failed"}])
         /\ \A r \in Rooms : RoomPresences'[r] = Read(RoomPresences[r], r, Head(wire))
         /\ RoomsConnected \subseteq RoomsConnected'
         /\ \A r \in Rooms : ~About(Head(wire), r, Nick)
BY DEF RInv, Types, Listed, rosterVars, Read, About

LEMMA RecvPresenceKeeps == RInv /\ RecvPresence => RInv'
<1> SUFFICES ASSUME RInv, RecvPresence PROVE RInv'
  OBVIOUS
<1>1. /\ wire # <<>> /\ Head(wire).kind = "presence" /\ wire' = Tail(wire)
      /\ UNCHANGED <<serverVars, join>> /\ UNCHANGED <<probeVars, verdicts>>
  BY DEF RecvPresence, Received
<1>2. PICK s \in Stanzas : s = Head(wire) /\ s.kind = "presence"
  <2>1. wire \in Seq(Stanzas)
    BY DEF RInv, Types, Wired
  <2>2. QED
    BY <1>1, <2>1, Tailed
<1>3. s.room \in Rooms
  BY <1>2 DEF Stanzas
<1>4. /\ RoomsConnected' = IF OwnPresence(s) THEN RoomsConnected \cup {s.room} ELSE RoomsConnected
      /\ RoomPresences' = [RoomPresences EXCEPT ![s.room] = Updated(@, s)]
  BY <1>2 DEF RecvPresence
<1>5. RoomPresences \in [Rooms -> Rosters]
  BY DEF RInv, Types, Listed
<1>6. \A r \in Rooms : RoomPresences'[r] = Read(RoomPresences[r], r, s)
  BY <1>2, <1>3, <1>4, <1>5 DEF Read
<1>7. RoomPresences' \in [Rooms -> Rosters]
  <2>1. Read(RoomPresences[s.room], s.room, s) \in Rosters
    <3>1. PICK roster \in Rosters : roster = RoomPresences[s.room]
      BY <1>3, <1>5
    <3>2. Nick \in Nicks /\ "out" \in Affs
      BY DEF Nicks, Affs
    <3>3. QED
      BY <1>3, <3>1, <3>2, ReadIn
  <2>2. Updated(RoomPresences[s.room], s) \in Rosters
    BY <1>2, <2>1 DEF Read
  <2>3. QED
    BY <1>3, <1>4, <1>5, <2>2
<1>8. Listed'
  BY <1>1, <1>3, <1>4, <1>7 DEF RInv, Types, Listed
<1>9. Probed' /\ Judged'
  BY <1>1 DEF RInv, Types, Probed, Judged, AdminRight, probeVars
<1>10. /\ RoomsConnected \subseteq RoomsConnected'
       /\ \A r \in Rooms : About(s, r, Nick) /\ s.plain => r \in RoomsConnected'
  BY <1>4 DEF OwnPresence, About
<1>11. QED
  BY <1>1, <1>2, <1>6, <1>8, <1>9, <1>10, ReadKeeps

LEMMA RecvOtherKeeps == RInv /\ (RecvError \/ RecvFeatures) => RInv'
<1> SUFFICES ASSUME RInv, RecvError \/ RecvFeatures PROVE RInv'
  OBVIOUS
<1>1. /\ wire # <<>> /\ Head(wire).kind \in {"error", "features"} /\ wire' = Tail(wire)
      /\ UNCHANGED <<serverVars, join>> /\ UNCHANGED <<rosterVars, LastMucActivity, pinged, verdicts>>
  BY DEF RecvError, RecvFeatures, Received, probeVars
<1>2. MucCapsList' \subseteq Rooms
  <2>1. CASE RecvError
    BY <2>1 DEF RecvError, RInv, Types, Probed, probeVars
  <2>2. CASE RecvFeatures
    <3>1. wire \in Seq(Stanzas)
      BY DEF RInv, Types, Wired
    <3>2. Head(wire) \in Stanzas
      BY <1>1, <3>1, Tailed
    <3>3. Head(wire).room \in Rooms
      BY <3>2 DEF Stanzas
    <3>4. QED
      BY <2>2, <3>3 DEF RecvFeatures, RInv, Types, Probed
  <2>3. QED
    BY <2>1, <2>2
<1>3. Probed' /\ Judged'
  BY <1>1, <1>2 DEF RInv, Types, Probed, Judged, AdminRight
<1>4. Head(wire).kind # "presence"
  BY <1>1
<1>5. join' \in [Rooms -> {"caps", "enter", "entered", "failed"}]
  BY <1>1 DEF RInv, Types, Listed
<1>6. /\ Listed'
      /\ \A r \in Rooms : RoomPresences'[r] = Read(RoomPresences[r], r, Head(wire))
      /\ RoomsConnected \subseteq RoomsConnected'
      /\ \A r \in Rooms : ~About(Head(wire), r, Nick)
  BY <1>1, <1>4, <1>5, OtherRead
<1>7. QED
  BY <1>1, <1>3, <1>6, ReadKeeps

\* isMucAdmin tells what the stream tells until the command: it is read next.
LEMMA RecvCommandKeeps == RInv /\ RecvCommand => RInv'
<1> SUFFICES ASSUME RInv, RecvCommand PROVE RInv'
  OBVIOUS
<1>1. /\ wire # <<>> /\ Head(wire).kind = "command" /\ wire' = Tail(wire)
      /\ UNCHANGED <<serverVars, join>> /\ UNCHANGED <<rosterVars, MucCapsList, pinged>>
  BY DEF RecvCommand, Received
<1>2. PICK w \in Seq(Stanzas) : w = wire /\ w # <<>>
  BY <1>1 DEF RInv, Types, Wired
<1>3. PICK s \in Stanzas : s = Head(w) /\ s = w[1] /\ s.kind = "command" /\ 1 \in 1 .. Len(w)
  BY <1>1, <1>2, Tailed
<1>4. s.room \in Rooms /\ s.nick \in Nicks /\ s.aff \in {"member", "admin"}
  BY <1>3 DEF Stanzas, Nicks
<1>5. Told(w, RoomPresences[s.room], s.room, s.nick, 1, s.aff)
  BY <1>2, <1>3 DEF RInv, Commands, CommandsOf
<1>6. In(RoomPresences[s.room], s.nick, s.aff)
  <2>1. \A j \in 1 .. 1 : ~About(w[j], s.room, s.nick)
    BY <1>3 DEF About
  <2>2. QED
    BY <1>5, <2>1 DEF Told
<1>7. IsMucAdmin(s.room, s.nick) = (s.aff = "admin")
  BY <1>4, <1>6 DEF In, IsMucAdmin
<1>8. /\ verdicts' = {[told |-> IsMucAdmin(s.room, s.nick), right |-> s.aff = "admin"]}
      /\ LastMucActivity' = LastMucActivity \cup {Address(s.room, s.nick)}
  BY <1>2, <1>3 DEF RecvCommand
<1>9. Judged'
  BY <1>7, <1>8 DEF Judged, AdminRight
<1>10. Probed'
  BY <1>1, <1>4, <1>8 DEF RInv, Types, Probed
<1>11. Head(wire).kind # "presence"
  BY <1>1
<1>12. join' \in [Rooms -> {"caps", "enter", "entered", "failed"}]
  BY <1>1 DEF RInv, Types, Listed
<1>13. /\ Listed'
       /\ \A r \in Rooms : RoomPresences'[r] = Read(RoomPresences[r], r, Head(wire))
       /\ RoomsConnected \subseteq RoomsConnected'
       /\ \A r \in Rooms : ~About(Head(wire), r, Nick)
  BY <1>1, <1>11, <1>12, OtherRead
<1>14. QED
  BY <1>1, <1>9, <1>10, <1>13, ReadKeeps

\* What is noted is the address of an occupant, never that of a room.
LEMMA ProbeKeeps == RInv /\ ProbeMUC => RInv'
<1> SUFFICES ASSUME RInv, ProbeMUC PROVE RInv'
  OBVIOUS
<1>1. /\ UNCHANGED <<renamed, occupants, asked, wire, join, RoomsConnected, RoomPresences>>
      /\ UNCHANGED <<MucCapsList, LastMucActivity, verdicts>>
  BY DEF ProbeMUC, serverVars, rosterVars
<1>2. \A r \in Rooms : Bare(r) \notin LastMucActivity
  BY DEF RInv, Types, Probed, Bare, Address
<1>3. Probed'
  BY <1>1, <1>2 DEF ProbeMUC, RInv, Types, Probed, Listed
<1>4. Types'
  BY <1>1, <1>3 DEF RInv, Types, Served, Unused, BotNick, Wired, Listed, Judged, AdminRight
<1>5. \A r \in Rooms : BotIn(r)' = BotIn(r)
  BY <1>1, SameBot
<1>6. Before'
  BY <1>1, <1>5 DEF RInv, Before, Silent
<1>7. Consistent' /\ Commands' /\ Known'
  BY <1>1, <1>5 DEF RInv, Consistent, Commands, Known
<1>8. QED
  BY <1>4, <1>6, <1>7 DEF RInv

LEMMA RInvNext == RInv /\ [Next]_vars => RInv'
<1> SUFFICES ASSUME RInv, [Next]_vars PROVE RInv'
  OBVIOUS
<1>1. ASSUME NEW r \in Rooms, RoomStep(r) PROVE RInv'
  <2>1. CASE SendFeatures(r)
    BY <2>1, FeaturesKeep
  <2>2. CASE Admit(r)
    BY <2>2, AdmitKeeps
  <2>3. CASE Refuse(r)
    BY <2>3, RefuseKeeps
  <2>4. CASE OwnStatus(r)
    BY <2>4, StatusKeeps
  <2>5. CASE Remove(r)
    BY <2>5, RemoveKeeps
  <2>6. CASE \E n \in People : Peer(r, n) \/ Say(r, n)
    BY <2>6, PeerKeeps, SayKeeps
  <2>7. QED
    BY <1>1, <2>1, <2>2, <2>3, <2>4, <2>5, <2>6 DEF RoomStep
<1>2. CASE \E r \in Rooms : JoinMUC(r) \/ JoinEntered(r) \/ JoinTimeout(r)
  BY <1>2, JoinKeeps
<1>3. CASE Recv
  BY <1>3, RecvPresenceKeeps, RecvOtherKeeps, RecvCommandKeeps DEF Recv
<1>4. CASE ProbeMUC
  BY <1>4, ProbeKeeps
<1>5. CASE UNCHANGED vars
  <2>1. /\ UNCHANGED <<renamed, occupants, asked, wire, join, RoomsConnected, RoomPresences>>
        /\ UNCHANGED <<MucCapsList, LastMucActivity, pinged, verdicts>>
    BY <1>5 DEF vars, serverVars, rosterVars, probeVars
  <2>2. Types'
    BY <2>1 DEF RInv, Types, Served, Unused, BotNick, Wired, Listed, Probed, Judged, AdminRight
  <2>3. \A r \in Rooms : BotIn(r)' = BotIn(r)
    BY <2>1, SameBot
  <2>4. Before'
    BY <2>1, <2>3 DEF RInv, Before, Silent
  <2>5. Consistent' /\ Commands' /\ Known'
    BY <2>1, <2>3 DEF RInv, Consistent, Commands, Known
  <2>6. QED
    BY <2>2, <2>4, <2>5 DEF RInv
<1>6. QED
  BY <1>1, <1>2, <1>3, <1>4, <1>5 DEF Next

LEMMA RInvAlways == Spec => []RInv
<1>1. Init => RInv
  BY RInvInit
<1>2. RInv /\ [Next]_vars => RInv'
  BY RInvNext
<1>3. QED
  BY <1>1, <1>2, PTL DEF Spec

-----------------------------------------------------------------------------
(***************************************************************************)
(* The theorems                                                            *)
(***************************************************************************)

\* Types.
THEOREM TypesHold == Spec => []TypeOK
<1>1. RInv => TypeOK
  BY DEF RInv, Types, Served, Wired, Listed, Probed, Judged, TypeOK, Rosters, Affs
<1>2. QED
  BY <1>1, RInvAlways, PTL

\* Once the presences of a room the bot is in are read, its roster is the
\* room's, whatever other rooms sent in between (event_parser.go:547-596).
THEOREM RostersSettle == Spec => []RosterSettles
<1>1. RInv => RosterSettles
  <2>1. SUFFICES ASSUME RInv, NEW r \in Rooms, BotIn(r), Heard(r)
                 PROVE  RoomPresences[r] = {[nick |-> n, aff |-> occupants[r][n]] :
                                              n \in {m \in Nicks : occupants[r][m] # "out"}}
    BY DEF RosterSettles
  <2>2. \A n \in Nicks : In(RoomPresences[r], n, occupants[r][n])
    <3>1. SUFFICES ASSUME NEW n \in Nicks PROVE In(RoomPresences[r], n, occupants[r][n])
      OBVIOUS
    <3>2. Told(wire, RoomPresences[r], r, n, Len(wire), occupants[r][n])
      BY <2>1 DEF RInv, Consistent
    <3>3. \A j \in 1 .. Len(wire) : ~About(wire[j], r, n)
      BY <2>1 DEF Heard, About, RInv, Types, Wired
    <3>4. QED
      BY <3>2, <3>3 DEF Told
  <2>3. RoomPresences[r] \subseteq [nick : Nicks, aff : {"member", "admin"}]
    <3>1. RoomPresences \in [Rooms -> Rosters]
      BY <2>1 DEF RInv, Types, Listed
    <3>2. RoomPresences[r] \in Rosters
      BY <3>1
    <3>3. QED
      BY <3>2 DEF Rosters
  <2>4. \A p \in RoomPresences[r] : /\ p.nick \in Nicks /\ occupants[r][p.nick] # "out"
                                    /\ p = [nick |-> p.nick, aff |-> occupants[r][p.nick]]
    <3>1. SUFFICES ASSUME NEW p \in RoomPresences[r]
                   PROVE  /\ p.nick \in Nicks /\ occupants[r][p.nick] # "out"
                          /\ p = [nick |-> p.nick, aff |-> occupants[r][p.nick]]
      OBVIOUS
    <3>2. p.nick \in Nicks /\ p = [nick |-> p.nick, aff |-> p.aff]
      BY <2>3
    <3>3. occupants[r][p.nick] # "out" /\ p.aff = occupants[r][p.nick]
      BY <2>2, <3>2 DEF In
    <3>4. QED
      BY <3>2, <3>3
  <2>5. \A n \in Nicks : occupants[r][n] # "out" =>
          [nick |-> n, aff |-> occupants[r][n]] \in RoomPresences[r]
    BY <2>2 DEF In
  <2>6. QED
    BY <2>4, <2>5
<1>2. QED
  BY <1>1, RInvAlways, PTL

\* A command is obeyed exactly if its sender was an administrator of the room
\* when it spoke (commands.go:113-214, lib.go:390-416).
THEOREM AdminsObeyed == Spec => []AdminRight
<1>1. RInv => AdminRight
  BY DEF RInv, Types, Judged
<1>2. QED
  BY <1>1, RInvAlways, PTL

\* A room the bot is in under its general nick is in RoomsConnected once its
\* presences are read (event_parser.go:532-543).
THEOREM OwnRoomsListed == Spec => []OwnRoomsKnown
<1>1. RInv => OwnRoomsKnown
  <2>1. SUFFICES ASSUME RInv, NEW r \in Rooms \ renamed, BotIn(r), Heard(r)
                 PROVE  r \in RoomsConnected
    BY DEF OwnRoomsKnown
  <2>2. \A j \in 1 .. Len(wire) : ~About(wire[j], r, Nick)
    BY <2>1 DEF Heard, About, RInv, Types, Wired
  <2>3. QED
    BY <2>1, <2>2 DEF RInv, Known
<1>2. QED
  BY <1>1, RInvAlways, PTL

\* No room is ever pinged, so one that removed the bot silently stays in
\* RoomsConnected and is not entered again: times are noted under the addresses
\* of occupants and looked up under those of rooms (event_parser.go:55,
\* lib.go:241).
THEOREM NeverPinged == Spec => [](pinged = {} /\ \A r \in Rooms : Bare(r) \notin LastMucActivity)
<1>1. RInv => pinged = {} /\ \A r \in Rooms : Bare(r) \notin LastMucActivity
  BY DEF RInv, Types, Probed, Bare, Address
<1>2. QED
  BY <1>1, RInvAlways, PTL
=============================================================================
