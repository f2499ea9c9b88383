---------------------------------- MODULE Relay ----------------------------------
(***************************************************************************)
(* What is said in the rooms and what is said back: ParseEvent and cmd()   *)
(* publish a phrase to Redis with a flag that asks for an answer           *)
(* (internal/jabber/event_parser.go:25-80, commands.go), the other         *)
(* services answer into the channel of the bot, and every RedisLoop posts  *)
(* what it reads there (redis.go).  main() starts a RedisLoop over a       *)
(* subscription of its own in every generation (main.go:70-89) and ends    *)
(* none, so an answer is read once per generation.                         *)
(*                                                                         *)
(* The model starts in a session that is up.  The rooms show every         *)
(* occupant what anybody posts, to the bot its own posts too.  Of a text   *)
(* the model keeps its form and which nicks it contains:                   *)
(*   talk      no command, or one that nothing knows                       *)
(*   command   a simple command, one with a key, a drink for the sender    *)
(*   karma     one line that ends in ++ or --                              *)
(*   plugin    a command of a plugin that a room may switch off            *)
(*   help      help, or an administrator's command                         *)
(*   drink     a drink for a nick; drinkFull, for a room/nick              *)
(***************************************************************************)
EXTENDS Integers, Sequences, FiniteSets

CONSTANTS
  Rooms,        \* Config.Jabber.Channels
  People,       \* others who speak, in rooms and in private
  Nick, Alias,  \* Config.Jabber.Nick, and the nick in a renamed room
  Channel,      \* the From of the answers, a Redis channel
  MaxPhrases,   \* bound: phrases of others
  MaxGen        \* bound: generations

ASSUME RelayAssumption ==
  /\ Nick # Alias /\ {Nick, Alias} \cap People = {}
  /\ Channel \notin Rooms
  /\ MaxPhrases \in Nat /\ MaxGen \in Nat \ {0}

VARIABLES
  renamed,    \* rooms that the configuration gives the nick Alias
  phrase,     \* the phrases of others, in the order they were said
  wire,       \* messages the server has sent and Recv has not returned
  brain,      \* what was published and not answered yet
  subs,       \* generations whose subscription is in force
  queue,      \* per generation, answers its RedisLoop has not read
  gen,        \* generations started
  session,    \* the generation that dialed last
  conn,       \* "up", or "down" since the socket broke
  tomb,       \* "alive" or "dying"
  Shutdown,
  ended,      \* RedisLoops that have returned
  posted,     \* per phrase, where answers went and how many copies
  sent,       \* per phrase, to how many subscriptions the answer went
  faults      \* something was lost since the start

linkVars  == <<gen, session, conn, tomb>>
redisVars == <<brain, subs, queue>>
pastVars  == <<phrase, posted, sent, faults>>
vars      == <<renamed, wire, linkVars, redisVars, pastVars, Shutdown, ended>>

\* Phrases are numbered as they are said; 0 is what the bot says.
Ids  == 0 .. MaxPhrases
Gens == 1 .. MaxGen

Texts ==
  [form : {"talk", "command", "karma", "drink", "drinkFull"}, names : SUBSET {Nick, Alias}]
  \cup [form : {"plugin", "help"}, names : {{}}]

\* getBotNickFromRoomConfig
BotNick(r) == IF r \in renamed THEN Alias ELSE Nick

Init ==
  /\ renamed \in SUBSET Rooms
  /\ phrase = <<>> /\ wire = <<>> /\ brain = {}
  /\ gen = 1 /\ session = 1 /\ conn = "up" /\ tomb = "alive"
  /\ subs = {} /\ queue = [g \in Gens |-> <<>>]
  /\ Shutdown = FALSE /\ ended = {}
  /\ posted = [i \in Ids |-> [to |-> {}, copies |-> 0]]
  /\ sent = [i \in Ids |-> 0]
  /\ faults = FALSE

-----------------------------------------------------------------------------
(***************************************************************************)
(* The others                                                              *)
(***************************************************************************)

Says(type, place, nick, text) ==
  [type |-> type, id |-> Len(phrase) + 1, place |-> place, nick |-> nick, text |-> text]

Speak(m) ==
  /\ conn = "up" /\ Len(phrase) < MaxPhrases
  /\ phrase' = Append(phrase, m) /\ wire' = Append(wire, m)
  /\ UNCHANGED <<renamed, linkVars, redisVars, posted, sent, faults, Shutdown, ended>>

\* In a room anybody may have any nick but the bot's.
SpeakInRoom ==
  \E r \in Rooms, t \in Texts : \E n \in (People \cup {Nick, Alias}) \ {BotNick(r)} :
    Speak(Says("groupchat", r, n, t))

\* Over a room; what comes over the roster differs in the address only.
SpeakInPrivate == \E r \in Rooms, p \in People, t \in Texts : Speak(Says("chat", r, p, t))

-----------------------------------------------------------------------------
(***************************************************************************)
(* The receive loop                                                        *)
(***************************************************************************)

\* A room shows the bot what the bot said, under the nick it has there: the
\* worst text, a command that names it.
Shown(r) ==
  [type |-> "groupchat", id |-> 0, place |-> r, nick |-> BotNick(r),
   text |-> [form |-> "command", names |-> {Nick, Alias}]]

\* Talk.Send of an answer to phrase i, when messages still wait in w; the
\* write may fail before Recv notices that the socket is broken.
Post(i, to, w) ==
  /\ conn = "up"
  /\ posted' = [posted EXCEPT ![i] = [to |-> @.to \cup {to}, copies |-> @.copies + 1]]
  /\ wire' = (IF to \in Rooms THEN Append(w, Shown(to)) ELSE w)
  /\ UNCHANGED faults

WriteFails(w) == wire' = w /\ faults' = TRUE /\ UNCHANGED posted

\* Mutant: the general nick.
Own_General(m) == m.type = "groupchat" /\ m.nick = Nick

\* "Skipping message from myself"
Own(m) == m.type = "groupchat" /\ m.nick = BotNick(m.place)

\* Mutant: the general nick is looked for in the text.
Asks_General(m) ==
  m.type = "groupchat" =>
    \/ m.text.form \in {"command", "karma", "plugin", "drinkFull"}
    \/ Nick \in m.text.names

\* message.Misc.Answer = 1
Asks(m) ==
  m.type = "groupchat" =>
    \/ m.text.form \in {"command", "karma", "plugin", "drinkFull"}
    \/ BotNick(m.place) \in m.text.names

\* Mutant: what is said in private over a room is answered in the room.
Message_Room(m) ==
  [id |-> m.id, answer |-> Asks(m), chatid |-> m.place, mode |-> "public"]

\* What is published of it.  The address of a private phrase is room/nick.
Message(m) ==
  [id |-> m.id, answer |-> Asks(m),
   chatid |-> IF m.type = "groupchat" THEN m.place ELSE <<m.place, m.nick>>,
   mode   |-> IF m.type = "groupchat" THEN "public" ELSE "private"]

\* RedisClient.Publish; if it fails ParseEvent kills the tomb.
Publish(m) ==
  /\ \/ brain' = brain \cup {Message(m)} /\ UNCHANGED <<tomb, faults>>
     \/ tomb' = "dying" /\ faults' = TRUE /\ UNCHANGED brain
  /\ wire' = Tail(wire) /\ UNCHANGED posted

\* Mutant: a command that is answered goes on to the services.
AnswerHere_GoesOn(m) ==
  \/ /\ Post(m.id, m.place, Tail(wire)) /\ brain' = brain \cup {Message(m)}
     /\ UNCHANGED tomb
  \/ WriteFails(Tail(wire)) /\ tomb' = "dying" /\ UNCHANGED brain

\* The answer of cmd() itself, in the room; an error kills the tomb.
AnswerHere(m) ==
  /\ \/ Post(m.id, m.place, Tail(wire)) /\ UNCHANGED tomb
     \/ WriteFails(Tail(wire)) /\ tomb' = "dying"
  /\ UNCHANGED brain

Ignore == wire' = Tail(wire) /\ UNCHANGED <<brain, tomb, posted, faults>>

\* A plugin that is off says nothing.  A drink for somebody is published if
\* the name is among those of getMucNames, which are room/nick: for a bare
\* nick the barman sees nobody.
Recv ==
  /\ wire # <<>>
  /\ LET m == Head(wire)
         Command(forms) == m.type = "groupchat" /\ m.text.form \in forms
     IN IF Own(m) THEN Ignore
        ELSE \/ Command({"help", "drink", "drinkFull"}) /\ AnswerHere(m)
             \/ Command({"plugin"}) /\ Ignore
             \/ ~Command({"help", "drink"}) /\ Publish(m)
  /\ UNCHANGED <<renamed, gen, session, conn, subs, queue, phrase, sent, Shutdown, ended>>

-----------------------------------------------------------------------------
(***************************************************************************)
(* Redis and the services behind it                                        *)
(***************************************************************************)

AnswerTo(m, whole) ==
  [id |-> m.id, chatid |-> m.chatid, answer |-> m.answer, mode |-> m.mode,
   from |-> Channel, whole |-> whole]

\* Somebody answers a phrase, copying where it came from and its flag, into
\* the queue of every subscription, whole or with a field missing.
Reply(m) ==
  /\ m \in brain /\ brain' = brain \ {m}
  /\ \E whole \in BOOLEAN :
       /\ queue' = [g \in Gens |->
            IF g \in subs THEN Append(queue[g], AnswerTo(m, whole)) ELSE queue[g]]
       /\ faults' = (faults \/ ~whole \/ subs = {})
  /\ sent' = [sent EXCEPT ![m.id] = Cardinality(subs)]
  /\ UNCHANGED <<renamed, wire, linkVars, subs, phrase, posted, Shutdown, ended>>

\* The subscription of a generation takes effect some time after Subscribe()
\* returns; the client renews one that it lost.
Subscribe(g) ==
  /\ g <= gen /\ g \notin subs /\ subs' = subs \cup {g}
  /\ UNCHANGED <<renamed, wire, linkVars, brain, queue, pastVars, Shutdown, ended>>

LoseSubscription(g) ==
  /\ g \in subs /\ subs' = subs \ {g} /\ faults' = TRUE
  /\ UNCHANGED <<renamed, wire, linkVars, brain, queue, phrase, posted, sent, Shutdown, ended>>

\* Mutant: the message stays in the channel.
Take_Kept(g) == UNCHANGED queue

Take(g) == queue' = [queue EXCEPT ![g] = Tail(@)]

\* Mutant: the flag is not looked at.
Valid_AnyAnswer(a) == a.whole

\* The fields are there and the answer is asked for.
Valid(a) == a.whole /\ a.answer

\* One round of RedisLoop: nothing is posted after Shutdown; an answer of the
\* mode private goes to its From; a write that fails is logged.
RedisLoop(g) ==
  /\ g \notin ended /\ queue[g] # <<>> /\ Take(g)
  /\ LET a == Head(queue[g]) IN
       IF Shutdown
       THEN ended' = ended \cup {g} /\ UNCHANGED <<wire, posted, faults>>
       ELSE /\ UNCHANGED ended
            /\ IF Valid(a)
               THEN \/ Post(a.id, IF a.mode = "public" THEN a.chatid ELSE a.from, wire)
                    \/ WriteFails(wire)
               ELSE UNCHANGED <<wire, posted, faults>>
  /\ UNCHANGED <<renamed, linkVars, brain, subs, phrase, sent, Shutdown>>

-----------------------------------------------------------------------------
(***************************************************************************)
(* Sessions                                                                *)
(***************************************************************************)

\* The socket breaks, with what was unread; Recv returns an error.
Break ==
  /\ conn = "up" /\ conn' = "down" /\ wire' = <<>>
  /\ tomb' = "dying" /\ faults' = TRUE
  /\ UNCHANGED <<renamed, gen, session, redisVars, phrase, posted, sent, Shutdown, ended>>

\* The next turn of main(): a new client of Redis and a new RedisLoop.
NextGeneration ==
  /\ tomb = "dying" /\ gen < MaxGen
  /\ gen' = gen + 1 /\ tomb' = "alive"
  /\ UNCHANGED <<renamed, wire, session, conn, redisVars, pastVars, Shutdown, ended>>

\* EstablishConnection: a new connection, also in place of one that works.
Dial ==
  /\ session < gen /\ session' = gen /\ conn' = "up" /\ wire' = <<>> /\ faults' = TRUE
  /\ UNCHANGED <<renamed, gen, tomb, redisVars, phrase, posted, sent, Shutdown, ended>>

Interrupt ==
  /\ ~Shutdown /\ Shutdown' = TRUE /\ faults' = TRUE
  /\ UNCHANGED <<renamed, wire, linkVars, redisVars, phrase, posted, sent, ended>>

Next ==
  \/ SpeakInRoom \/ SpeakInPrivate \/ Recv
  \/ \E m \in brain : Reply(m)
  \/ \E g \in Gens : Subscribe(g) \/ LoseSubscription(g) \/ RedisLoop(g)
  \/ Break \/ NextGeneration \/ Dial \/ Interrupt

Spec == Init /\ [][Next]_vars

\* The loops are scheduled, and the services answer.
FairSpec ==
  /\ Spec /\ WF_vars(Recv) /\ WF_vars(\E m \in brain : Reply(m))
  /\ \A g \in Gens : WF_vars(RedisLoop(g))

-----------------------------------------------------------------------------
(***************************************************************************)
(* Properties                                                              *)
(***************************************************************************)

\* The bot never takes up what it said itself, whatever it said and under
\* whichever nick the room knows it (event_parser.go:40): neither published
\* nor answered, so nothing it posts leads to another post.
NoEcho ==
  /\ \A m \in brain : m.id # 0
  /\ \A g \in Gens : \A i \in DOMAIN queue[g] : queue[g][i].id # 0
  /\ posted[0].copies = 0

\* In a room the bot answers only a command, a change of karma, or a phrase
\* that contains the nick it has in that room (commands.go:326): the rest goes
\* to Redis too, and its answers must not come back.
OnlyAsked == \A i \in DOMAIN phrase :
  posted[i].copies > 0 /\ phrase[i].type = "groupchat" =>
    phrase[i].text.form # "talk" \/ BotNick(phrase[i].place) \in phrase[i].text.names

\* An answer goes to the room of its phrase, and never to a room if the phrase
\* was said in private.
InPlace == \A i \in DOMAIN phrase :
  posted[i].to \cap Rooms \subseteq
    IF phrase[i].type = "groupchat" THEN {phrase[i].place} ELSE {}

\* However many RedisLoops run, an answer is posted once for each subscription
\* that was in force when it was sent, so once until the first reconnect.
OncePerSubscription == \A i \in DOMAIN phrase :
  posted[i].copies <= IF sent[i] = 0 THEN 1 ELSE sent[i]

\* Where a phrase is: on its way to the receive loop, with the services, in
\* the queues of these generations.
Holds(s, i) == \E k \in DOMAIN s : s[k].id = i
InBrain(i)  == \E m \in brain : m.id = i
Waiting(i)  == {g \in Gens : Holds(queue[g], i)}

stage == [i \in Ids \ {0} |->
  IF i \notin DOMAIN phrase THEN "unsaid" ELSE
  IF Holds(wire, i) THEN "said" ELSE IF InBrain(i) THEN "asked" ELSE "done"]
owed  == [i \in Ids \ {0} |-> Cardinality(Waiting(i))]
given == [i \in Ids \ {0} |-> posted[i].copies]

Exchange == INSTANCE Exchange WITH Phrases <- Ids \ {0}, MostLoops <- MaxGen

\* Through losses, reconnects and any number of loops, a phrase is published at
\* most once, answered by the bot itself or by the services but never by both,
\* and every other post uses up one answer that a subscription got.
ImplementsExchange == Exchange!ExchangeSpec

\* While nothing fails, a phrase that asks is answered, through the receive
\* loop, Redis and the RedisLoop.
Asked(i) ==
  /\ i \in DOMAIN phrase /\ phrase[i].type = "groupchat"
  /\ \/ phrase[i].text.form \in {"command", "karma", "help"}
     \/ BotNick(phrase[i].place) \in phrase[i].text.names /\ phrase[i].text.form = "talk"

AskedIsAnswered == \A i \in Ids \ {0} :
  Asked(i) ~> (posted[i].copies > 0 \/ faults)
=============================================================================
