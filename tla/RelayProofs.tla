------------------------------ MODULE RelayProofs ------------------------------
(***************************************************************************)
(* Where answers go, and how often, for any number of rooms, people,       *)
(* phrases and generations.                                                *)
(***************************************************************************)
EXTENDS Relay, FiniteSetTheorems, TLAPS

-----------------------------------------------------------------------------
(***************************************************************************)
(* The inductive invariant: everything on its way is about a phrase that   *)
(* was said, or is something the bot said, and is marked as such.          *)
(***************************************************************************)

Said ==
  [type : {"groupchat", "chat"}, id : Nat, place : Rooms,
   nick : People \cup {Nick, Alias}, text : Texts]

PhraseOK ==
  /\ phrase \in Seq(Said) /\ Len(phrase) <= MaxPhrases
  /\ \A i \in DOMAIN phrase : phrase[i].id = i

\* What can be on its way: to the receive loop, to the services, and back.
OnWire    == {Shown(r) : r \in Rooms} \cup {phrase[i] : i \in DOMAIN phrase}
Published == {Message(phrase[i]) : i \in DOMAIN phrase}
Answers   == {AnswerTo(m, whole) : m \in Published, whole \in BOOLEAN}

WireOK  == wire \in Seq(OnWire)
BrainOK == brain \subseteq Published
QueueOK == queue \in [Gens -> Seq(Answers)]

Nowhere == [to |-> {}, copies |-> 0]

PostedOK ==
  /\ posted \in [Ids -> [to : SUBSET (Rooms \cup {Channel}), copies : Nat]]
  /\ \A i \in Ids : i \notin DOMAIN phrase => posted[i] = Nowhere

RInv == PhraseOK /\ WireOK /\ BrainOK /\ QueueOK /\ PostedOK /\ OnlyAsked /\ InPlace

\* An answer to phrase i may be posted to this address.
Deserves(i) ==
  phrase[i].type = "groupchat" =>
    phrase[i].text.form # "talk" \/ BotNick(phrase[i].place) \in phrase[i].text.names

Admissible(i, to) ==
  /\ Deserves(i)
  /\ to \in Rooms => phrase[i].type = "groupchat" /\ to = phrase[i].place

-----------------------------------------------------------------------------
(***************************************************************************)
(* Lemmas                                                                  *)
(***************************************************************************)

\* The numbers of the phrases that were said.
LEMMA PhraseIds == PhraseOK => DOMAIN phrase \subseteq Ids \ {0}
BY RelayAssumption DEF PhraseOK, Ids

\* A message that the bot does not take for its own is a phrase.
LEMMA NotOwn ==
  ASSUME NEW m \in OnWire, ~Own(m)
  PROVE  \E i \in DOMAIN phrase : m = phrase[i]
BY DEF OnWire, Own, Shown

\* What asks for an answer deserves one.
LEMMA AsksDeserves ==
  ASSUME NEW i \in DOMAIN phrase, Asks(phrase[i])
  PROVE  Deserves(i)
BY DEF Asks, Deserves

\* Of an answer that is valid, the address it is posted to is admissible.
LEMMA ValidAdmissible ==
  ASSUME NEW a \in Answers, Valid(a)
  PROVE  \E i \in DOMAIN phrase :
           /\ a.id = phrase[i].id
           /\ Admissible(i, IF a.mode = "public" THEN a.chatid ELSE a.from)
<1>1. PICK i \in DOMAIN phrase, whole \in BOOLEAN : a = AnswerTo(Message(phrase[i]), whole)
  BY DEF Answers, Published
<1>2. /\ a.id = phrase[i].id /\ a.answer = Asks(phrase[i]) /\ a.from = Channel
      /\ phrase[i].type = "groupchat" => a.mode = "public" /\ a.chatid = phrase[i].place
      /\ phrase[i].type # "groupchat" => a.mode = "private"
  BY <1>1 DEF AnswerTo, Message
<1>3. Deserves(i)
  BY <1>2, AsksDeserves DEF Valid
<1>4. QED
  BY <1>2, <1>3, RelayAssumption DEF Admissible

\* More phrases only add to what may be on its way.
LEMMA Growing ==
  PhraseOK /\ renamed' = renamed
  /\ (phrase' = phrase \/ \E m \in Said : phrase' = Append(phrase, m))
  => OnWire \subseteq OnWire' /\ Published \subseteq Published' /\ Answers \subseteq Answers'
<1> SUFFICES ASSUME PhraseOK, renamed' = renamed,
                    phrase' = phrase \/ \E m \in Said : phrase' = Append(phrase, m)
             PROVE  OnWire \subseteq OnWire' /\ Published \subseteq Published' /\ Answers \subseteq Answers'
  OBVIOUS
<1>1. \A i \in DOMAIN phrase : i \in DOMAIN phrase' /\ phrase'[i] = phrase[i]
  BY DEF PhraseOK
<1>2. \A r \in Rooms : Shown(r)' = Shown(r)
  BY DEF Shown, BotNick
<1>3. \A i \in DOMAIN phrase : Message(phrase[i])' = Message(phrase[i])
  BY <1>1 DEF Message, Asks, BotNick
<1>4. OnWire \subseteq OnWire'
  BY <1>1, <1>2 DEF OnWire
<1>5. Published \subseteq Published'
  BY <1>1, <1>3 DEF Published
<1>6. Answers \subseteq Answers'
  BY <1>5 DEF Answers, AnswerTo
<1>7. QED
  BY <1>4, <1>5, <1>6

\* Nothing is said, and no answer is posted.
LEMMA Quiet ==
  RInv /\ UNCHANGED <<renamed, phrase, posted>> => (PhraseOK /\ PostedOK /\ OnlyAsked /\ InPlace)'
BY DEF RInv, PhraseOK, PostedOK, OnlyAsked, InPlace, BotNick

\* What may be on its way stays the same while nothing is said.
LEMMA SameWay ==
  UNCHANGED <<renamed, phrase>> => UNCHANGED <<OnWire, Published, Answers>>
BY DEF OnWire, Published, Answers, Shown, BotNick, Message, Asks, AnswerTo

\* One post to an admissible address.
LEMMA PostKeeps ==
  ASSUME NEW i, NEW to \in Rooms \cup {Channel}
  PROVE  /\ RInv /\ i \in DOMAIN phrase /\ Admissible(i, to)
         /\ UNCHANGED <<renamed, phrase>>
         /\ posted' = [posted EXCEPT ![i] = [to |-> @.to \cup {to}, copies |-> @.copies + 1]]
         => (PhraseOK /\ PostedOK /\ OnlyAsked /\ InPlace)'
<1> SUFFICES ASSUME RInv, i \in DOMAIN phrase, Admissible(i, to),
                    UNCHANGED <<renamed, phrase>>,
                    posted' = [posted EXCEPT ![i] = [to |-> @.to \cup {to}, copies |-> @.copies + 1]]
             PROVE  (PhraseOK /\ PostedOK /\ OnlyAsked /\ InPlace)'
  OBVIOUS
<1>1. DOMAIN phrase \subseteq Ids
  BY PhraseIds DEF RInv
<1>2. PhraseOK'
  BY DEF RInv, PhraseOK
<1>3. posted[i] \in [to : SUBSET (Rooms \cup {Channel}), copies : Nat]
  BY <1>1 DEF RInv, PostedOK
<1>4. /\ posted'[i] = [to |-> posted[i].to \cup {to}, copies |-> posted[i].copies + 1]
      /\ \A k \in Ids \ {i} : posted'[k] = posted[k]
  BY <1>1 DEF RInv, PostedOK
<1>5. PostedOK'
  <2>1. [to |-> posted[i].to \cup {to}, copies |-> posted[i].copies + 1]
          \in [to : SUBSET (Rooms \cup {Channel}), copies : Nat]
    BY <1>3
  <2>2. posted' \in [Ids -> [to : SUBSET (Rooms \cup {Channel}), copies : Nat]]
    BY <2>1 DEF RInv, PostedOK
  <2>3. \A k \in Ids : k \notin DOMAIN phrase' => posted'[k] = Nowhere
    BY <1>4 DEF RInv, PostedOK
  <2>4. QED
    BY <2>2, <2>3 DEF PostedOK
<1>6. OnlyAsked'
  BY <1>1, <1>4 DEF RInv, OnlyAsked, Admissible, Deserves, BotNick
<1>7. InPlace'
  BY <1>1, <1>4 DEF RInv, InPlace, Admissible
<1>8. QED
  BY <1>2, <1>5, <1>6, <1>7

-----------------------------------------------------------------------------
(***************************************************************************)
(* The steps                                                               *)
(***************************************************************************)

LEMMA RInvInit == Init => RInv
<1> SUFFICES ASSUME Init PROVE RInv
  OBVIOUS
<1>1. PhraseOK
  BY RelayAssumption DEF Init, PhraseOK
<1>2. WireOK /\ BrainOK /\ QueueOK
  BY DEF Init, WireOK, BrainOK, QueueOK
<1>3. PostedOK
  BY DEF Init, PostedOK, Nowhere
<1>4. OnlyAsked /\ InPlace
  BY DEF Init, OnlyAsked, InPlace
<1>5. QED
  BY <1>1, <1>2, <1>3, <1>4 DEF RInv

\* Somebody says something.
LEMMA SpeakKeeps == RInv /\ (SpeakInRoom \/ SpeakInPrivate) => RInv'
<1> SUFFICES ASSUME RInv, SpeakInRoom \/ SpeakInPrivate PROVE RInv'
  OBVIOUS
<1>1. PICK m \in Said : m.id = Len(phrase) + 1 /\ Speak(m)
  <2>1. Len(phrase) + 1 \in Nat
    BY DEF RInv, PhraseOK
  <2>2. CASE SpeakInRoom
    BY <2>1, <2>2 DEF SpeakInRoom, Says, Said
  <2>3. CASE SpeakInPrivate
    BY <2>1, <2>3 DEF SpeakInPrivate, Says, Said
  <2>4. QED
    BY <2>2, <2>3
<1>2. /\ phrase' = Append(phrase, m) /\ wire' = Append(wire, m) /\ Len(phrase) < MaxPhrases
      /\ UNCHANGED <<renamed, brain, queue, posted>>
  BY <1>1 DEF Speak, linkVars, redisVars
<1>3. /\ phrase \in Seq(Said) /\ MaxPhrases \in Nat
      /\ DOMAIN phrase' = DOMAIN phrase \cup {Len(phrase) + 1}
      /\ \A i \in DOMAIN phrase : phrase'[i] = phrase[i]
      /\ phrase'[Len(phrase) + 1] = m
  BY <1>2, RelayAssumption DEF RInv, PhraseOK
<1>4. PhraseOK'
  BY <1>1, <1>2, <1>3 DEF RInv, PhraseOK
<1>5. OnWire \subseteq OnWire' /\ Published \subseteq Published' /\ Answers \subseteq Answers'
  BY <1>2, Growing DEF RInv
<1>6. m \in OnWire'
  BY <1>3 DEF OnWire
<1>7. WireOK'
  BY <1>2, <1>5, <1>6 DEF RInv, WireOK
<1>8. BrainOK' /\ QueueOK'
  BY <1>2, <1>5 DEF RInv, BrainOK, QueueOK
<1>9. PostedOK'
  BY <1>2, <1>3 DEF RInv, PostedOK
<1>10. posted[Len(phrase) + 1] = Nowhere
  BY <1>2, <1>3 DEF RInv, PostedOK, Ids
<1>11. OnlyAsked' /\ InPlace'
  BY <1>2, <1>3, <1>10 DEF RInv, OnlyAsked, InPlace, Nowhere, BotNick
<1>12. QED
  BY <1>4, <1>7, <1>8, <1>9, <1>11 DEF RInv

\* An answer is posted, as Post says, while w is what waits.
LEMMA PostOnWire ==
  ASSUME NEW i, NEW to, NEW w \in Seq(OnWire), Post(i, to, w)
  PROVE  wire' \in Seq(OnWire)
<1>1. to \in Rooms => Shown(to) \in OnWire
  BY DEF OnWire
<1>2. QED
  BY <1>1 DEF Post

LEMMA RecvKeeps == RInv /\ Recv => RInv'
<1> SUFFICES ASSUME RInv, Recv PROVE RInv'
  OBVIOUS
<1>1. wire # <<>> /\ UNCHANGED <<renamed, phrase, queue>>
  BY DEF Recv
<1>2. PICK m \in OnWire, w \in Seq(OnWire) : m = Head(wire) /\ w = Tail(wire)
  <2>1. wire \in Seq(OnWire)
    BY DEF RInv, WireOK
  <2>2. Head(wire) \in OnWire
    BY <1>1, <2>1
  <2>3. Tail(wire) \in Seq(OnWire)
    BY <1>1, <2>1
  <2>4. QED
    BY <2>2, <2>3
<1>3. UNCHANGED <<OnWire, Published, Answers>>
  BY <1>1, SameWay
<1>4. QueueOK'
  BY <1>1, <1>3 DEF RInv, QueueOK
<1>5. CASE Ignore
  <2>1. WireOK' /\ BrainOK'
    BY <1>2, <1>3, <1>5 DEF Ignore, RInv, WireOK, BrainOK
  <2>2. QED
    BY <1>1, <1>4, <1>5, <2>1, Quiet DEF Ignore, RInv
<1>6. CASE ~Own(m) /\ m.type = "groupchat" /\ m.text.form \in {"help", "drink", "drinkFull"}
           /\ AnswerHere(m)
  <2>1. PICK i \in DOMAIN phrase : m = phrase[i] /\ m.id = i
    BY <1>6, NotOwn DEF RInv, PhraseOK
  <2>2. brain' = brain
    BY <1>6 DEF AnswerHere
  <2>3. BrainOK'
    BY <1>3, <2>2 DEF RInv, BrainOK
  <2>4. CASE Post(m.id, m.place, Tail(wire))
    <3>1. PICK to \in Rooms : to = m.place
      <4>1. phrase[i] \in Said
        BY DEF RInv, PhraseOK
      <4>2. QED
        BY <2>1, <4>1 DEF Said
    <3>2. Post(i, to, w)
      BY <1>2, <2>1, <2>4, <3>1
    <3>3. WireOK'
      BY <1>3, <3>2, PostOnWire DEF WireOK
    <3>4. Admissible(i, to)
      BY <1>6, <2>1, <3>1 DEF Admissible, Deserves
    <3>5. posted' = [posted EXCEPT ![i] = [to |-> @.to \cup {to}, copies |-> @.copies + 1]]
      BY <3>2 DEF Post
    <3>6. (PhraseOK /\ PostedOK /\ OnlyAsked /\ InPlace)'
      BY <1>1, <2>1, <3>1, <3>4, <3>5, PostKeeps
    <3>7. QED
      BY <1>4, <2>3, <3>3, <3>6 DEF RInv
  <2>5. CASE WriteFails(Tail(wire))
    <3>1. WireOK'
      BY <1>2, <1>3, <2>5 DEF WriteFails, WireOK
    <3>2. QED
      BY <1>1, <1>4, <2>3, <2>5, <3>1, Quiet DEF WriteFails, RInv
  <2>6. QED
    BY <1>6, <2>4, <2>5 DEF AnswerHere
<1>7. CASE ~Own(m) /\ Publish(m)
  <2>1. PICK i \in DOMAIN phrase : m = phrase[i]
    BY <1>7, NotOwn
  <2>2. Message(m) \in Published
    BY <2>1 DEF Published
  <2>3. wire' = w /\ posted' = posted /\ brain' \subseteq brain \cup {Message(m)}
    BY <1>2, <1>7 DEF Publish
  <2>4. WireOK' /\ BrainOK'
    BY <1>3, <2>2, <2>3 DEF RInv, WireOK, BrainOK
  <2>5. QED
    BY <1>1, <1>4, <2>3, <2>4, Quiet DEF RInv
<1>8. QED
  BY <1>2, <1>5, <1>6, <1>7 DEF Recv

\* A service answers: what it copies is about the same phrase.
LEMMA ReplyKeeps == ASSUME NEW m PROVE RInv /\ Reply(m) => RInv'
<1> SUFFICES ASSUME RInv, Reply(m) PROVE RInv'
  OBVIOUS
<1>1. UNCHANGED <<renamed, wire, phrase, posted>> /\ brain' \subseteq brain /\ m \in Published
  BY DEF Reply, RInv, BrainOK
<1>2. UNCHANGED <<OnWire, Published, Answers>>
  BY <1>1, SameWay
<1>3. PICK whole \in BOOLEAN :
        queue' = [g \in Gens |->
          IF g \in subs THEN Append(queue[g], AnswerTo(m, whole)) ELSE queue[g]]
  BY DEF Reply
<1>4. AnswerTo(m, whole) \in Answers
  BY <1>1 DEF Answers
<1>5. \A g \in Gens : queue[g] \in Seq(Answers)
  BY DEF RInv, QueueOK
<1>6. QueueOK'
  BY <1>2, <1>3, <1>4, <1>5 DEF QueueOK
<1>7. WireOK' /\ BrainOK'
  BY <1>1, <1>2 DEF RInv, WireOK, BrainOK
<1>8. QED
  BY <1>1, <1>6, <1>7, Quiet DEF RInv

LEMMA LoopKeeps == ASSUME NEW g \in Gens PROVE RInv /\ RedisLoop(g) => RInv'
<1> SUFFICES ASSUME RInv, RedisLoop(g) PROVE RInv'
  OBVIOUS
<1>1. queue[g] # <<>> /\ Take(g) /\ UNCHANGED <<renamed, brain, phrase>>
  BY DEF RedisLoop
<1>2. UNCHANGED <<OnWire, Published, Answers>>
  BY <1>1, SameWay
<1>3. queue[g] \in Seq(Answers)
  BY DEF RInv, QueueOK
<1>4. PICK a \in Answers : a = Head(queue[g])
  BY <1>1, <1>3
<1>5. QueueOK'
  <2>1. Tail(queue[g]) \in Seq(Answers)
    BY <1>1, <1>3
  <2>2. QED
    BY <1>1, <1>2, <2>1 DEF Take, RInv, QueueOK
<1>6. BrainOK'
  BY <1>1, <1>2 DEF RInv, BrainOK
<1>7. CASE UNCHANGED <<wire, posted>>
  <2>1. WireOK'
    BY <1>2, <1>7 DEF RInv, WireOK
  <2>2. QED
    BY <1>1, <1>5, <1>6, <1>7, <2>1, Quiet DEF RInv
<1>8. CASE Valid(a) /\ Post(a.id, IF a.mode = "public" THEN a.chatid ELSE a.from, wire)
  <2>1. PICK i \in DOMAIN phrase :
          /\ a.id = phrase[i].id
          /\ Admissible(i, IF a.mode = "public" THEN a.chatid ELSE a.from)
    BY <1>8, ValidAdmissible
  <2>2. a.id = i
    BY <2>1 DEF RInv, PhraseOK
  <2>3. PICK to \in Rooms \cup {Channel} : to = IF a.mode = "public" THEN a.chatid ELSE a.from
    <3>1. PICK k \in DOMAIN phrase, whole \in BOOLEAN : a = AnswerTo(Message(phrase[k]), whole)
      BY DEF Answers, Published
    <3>2. phrase[k] \in Said
      BY <3>1 DEF RInv, PhraseOK
    <3>3. a.from = Channel /\ (a.mode = "public" => a.chatid = phrase[k].place)
      BY <3>1 DEF AnswerTo, Message
    <3>4. QED
      BY <3>2, <3>3 DEF Said
  <2>4. Post(i, to, wire) /\ Admissible(i, to)
    BY <1>8, <2>1, <2>2, <2>3
  <2>5. posted' = [posted EXCEPT ![i] = [to |-> @.to \cup {to}, copies |-> @.copies + 1]]
    BY <2>4 DEF Post
  <2>6. (PhraseOK /\ PostedOK /\ OnlyAsked /\ InPlace)'
    BY <1>1, <2>1, <2>4, <2>5, PostKeeps
  <2>7. PICK w \in Seq(OnWire) : w = wire
    BY DEF RInv, WireOK
  <2>8. wire' \in Seq(OnWire)
    BY <2>4, <2>7, PostOnWire
  <2>9. QED
    BY <1>2, <1>5, <1>6, <2>6, <2>8 DEF RInv, WireOK
<1>9. QED
  BY <1>4, <1>7, <1>8 DEF RedisLoop, WriteFails

\* The steps that say, post and take nothing; a break empties the wire.
LEMMA OthersKeep ==
  /\ RInv /\ UNCHANGED <<renamed, brain, queue, phrase, posted>>
  /\ (wire' = wire \/ wire' = <<>>)
  => RInv'
<1> SUFFICES ASSUME RInv, UNCHANGED <<renamed, brain, queue, phrase, posted>>,
                    wire' = wire \/ wire' = <<>>
             PROVE  RInv'
  OBVIOUS
<1>1. UNCHANGED <<OnWire, Published, Answers>>
  BY SameWay
<1>2. WireOK'
  <2>1. wire \in Seq(OnWire) /\ <<>> \in Seq(OnWire)
    BY DEF RInv, WireOK
  <2>2. wire' \in Seq(OnWire)
    BY <2>1
  <2>3. QED
    BY <1>1, <2>2 DEF WireOK
<1>3. BrainOK' /\ QueueOK'
  BY <1>1 DEF RInv, BrainOK, QueueOK
<1>4. QED
  BY <1>2, <1>3, Quiet DEF RInv

LEMMA RInvNext == RInv /\ [Next]_vars => RInv'
<1> SUFFICES ASSUME RInv, [Next]_vars PROVE RInv'
  OBVIOUS
<1>1. CASE SpeakInRoom \/ SpeakInPrivate
  BY <1>1, SpeakKeeps
<1>2. CASE Recv
  BY <1>2, RecvKeeps
<1>3. CASE \E m \in brain : Reply(m)
  BY <1>3, ReplyKeeps
<1>4. CASE \E g \in Gens : RedisLoop(g)
  BY <1>4, LoopKeeps
<1>5. CASE \E g \in Gens : Subscribe(g) \/ LoseSubscription(g)
  BY <1>5, OthersKeep DEF Subscribe, LoseSubscription, pastVars
<1>6. CASE Break \/ NextGeneration \/ Dial \/ Interrupt
  BY <1>6, OthersKeep DEF Break, NextGeneration, Dial, Interrupt, redisVars, pastVars
<1>7. CASE UNCHANGED vars
  BY <1>7, OthersKeep DEF vars, redisVars, pastVars
<1>8. QED
  BY <1>1, <1>2, <1>3, <1>4, <1>5, <1>6, <1>7 DEF Next

LEMMA RInvAlways == Spec => []RInv
BY RInvInit, RInvNext, PTL DEF Spec

LEMMA RInvNoEcho == RInv => NoEcho
<1> SUFFICES ASSUME RInv PROVE NoEcho
  OBVIOUS
<1>1. DOMAIN phrase \subseteq Ids \ {0} /\ \A i \in DOMAIN phrase : phrase[i].id = i
  BY PhraseIds DEF RInv, PhraseOK
<1>2. \A m \in Published : m.id # 0
  BY <1>1 DEF Published, Message
<1>3. \A a \in Answers : a.id # 0
  BY <1>2 DEF Answers, AnswerTo
<1>4. \A m \in brain : m.id # 0
  BY <1>2 DEF RInv, BrainOK
<1>5. \A g \in Gens : \A i \in DOMAIN queue[g] : queue[g][i].id # 0
  <2>1. SUFFICES ASSUME NEW g \in Gens, NEW i \in DOMAIN queue[g] PROVE queue[g][i] \in Answers
    BY <1>3
  <2>2. queue[g] \in Seq(Answers)
    BY DEF RInv, QueueOK
  <2>3. QED
    BY <2>1, <2>2
<1>6. posted[0].copies = 0
  BY <1>1, RelayAssumption DEF RInv, PostedOK, Nowhere, Ids
<1>7. QED
  BY <1>4, <1>5, <1>6 DEF NoEcho

-----------------------------------------------------------------------------
(***************************************************************************)
(* How often an answer is posted.  A phrase is on the wire, or with the    *)
(* services, or in the queues; in each place there is one of it.           *)
(***************************************************************************)

HoldsOne(s, i) == \A k, l \in DOMAIN s : s[k].id = i /\ s[l].id = i => k = l

\* What is waiting is part of what was sent, and so is what was posted.
Counted(i) ==
  /\ sent[i] \in Nat
  /\ i \notin DOMAIN phrase => sent[i] = 0
  /\ Holds(wire, i) => ~InBrain(i)
  /\ Holds(wire, i) \/ InBrain(i) => sent[i] = 0 /\ posted[i].copies = 0
  /\ sent[i] = 0 => Waiting(i) = {} /\ posted[i].copies <= 1
  /\ sent[i] # 0 => posted[i].copies + Cardinality(Waiting(i)) <= sent[i]

Singles ==
  /\ subs \subseteq Gens
  /\ \A i \in Ids \ {0} : HoldsOne(wire, i) /\ \A g \in Gens : HoldsOne(queue[g], i)

OnceInv == RInv /\ Singles /\ sent \in [Ids -> Nat] /\ \A i \in Ids \ {0} : Counted(i)

\* Sequences of items that have an id.
LEMMA HoldsAppend ==
  ASSUME NEW S, NEW s \in Seq(S), NEW x, NEW i
  PROVE  /\ Holds(Append(s, x), i) <=> Holds(s, i) \/ x.id = i
         /\ HoldsOne(s, i) /\ ~(Holds(s, i) /\ x.id = i) => HoldsOne(Append(s, x), i)
<1>1. /\ DOMAIN Append(s, x) = DOMAIN s \cup {Len(s) + 1} /\ Len(s) + 1 \notin DOMAIN s
      /\ \A k \in DOMAIN s : Append(s, x)[k] = s[k]
      /\ Append(s, x)[Len(s) + 1] = x
  OBVIOUS
<1>2. Holds(Append(s, x), i) <=> Holds(s, i) \/ x.id = i
  BY <1>1 DEF Holds
<1>3. HoldsOne(s, i) /\ ~(Holds(s, i) /\ x.id = i) => HoldsOne(Append(s, x), i)
  BY <1>1 DEF Holds, HoldsOne
<1>4. QED
  BY <1>2, <1>3

LEMMA HoldsTail ==
  ASSUME NEW S, NEW s \in Seq(S), s # <<>>, NEW i, HoldsOne(s, i)
  PROVE  /\ HoldsOne(Tail(s), i)
         /\ Holds(Tail(s), i) <=> Holds(s, i) /\ Head(s).id # i
<1>1. /\ DOMAIN s = 1 .. Len(s) /\ DOMAIN Tail(s) = 1 .. Len(s) - 1
      /\ Len(s) \in Nat /\ Len(s) >= 1 /\ Head(s) = s[1]
      /\ \A k \in 1 .. Len(s) - 1 : Tail(s)[k] = s[k + 1]
  OBVIOUS
<1>2. HoldsOne(Tail(s), i)
  <2>1. SUFFICES ASSUME NEW k \in DOMAIN Tail(s), NEW l \in DOMAIN Tail(s),
                        Tail(s)[k].id = i, Tail(s)[l].id = i
                 PROVE  k = l
    BY DEF HoldsOne
  <2>2. s[k + 1].id = i /\ s[l + 1].id = i /\ k + 1 \in DOMAIN s /\ l + 1 \in DOMAIN s
    BY <1>1, <2>1
  <2>3. k + 1 = l + 1
    BY <2>2 DEF HoldsOne
  <2>4. QED
    BY <1>1, <2>3
<1>3. ASSUME Holds(Tail(s), i) PROVE Holds(s, i) /\ Head(s).id # i
  <2>1. PICK k \in DOMAIN Tail(s) : Tail(s)[k].id = i
    BY <1>3 DEF Holds
  <2>2. s[k + 1].id = i /\ k + 1 \in DOMAIN s /\ k + 1 # 1
    BY <1>1, <2>1
  <2>3. 1 \in DOMAIN s
    BY <1>1
  <2>4. QED
    BY <1>1, <2>2, <2>3 DEF Holds, HoldsOne
<1>4. ASSUME Holds(s, i), Head(s).id # i PROVE Holds(Tail(s), i)
  <2>1. PICK k \in DOMAIN s : s[k].id = i
    BY <1>4 DEF Holds
  <2>2. k # 1
    BY <1>1, <1>4, <2>1
  <2>3. k - 1 \in DOMAIN Tail(s) /\ Tail(s)[k - 1] = s[k]
    BY <1>1, <2>2
  <2>4. QED
    BY <2>1, <2>3 DEF Holds
<1>5. QED
  BY <1>2, <1>3, <1>4

\* Nothing is in the empty sequence.
LEMMA HoldsNothing == ASSUME NEW i PROVE ~Holds(<<>>, i) /\ HoldsOne(<<>>, i)
BY DEF Holds, HoldsOne

\* The queues in which an answer waits can be counted.
LEMMA WaitingCount == ASSUME NEW i PROVE IsFiniteSet(Waiting(i)) /\ Cardinality(Waiting(i)) \in Nat
<1>1. IsFiniteSet(Gens)
  BY FS_Interval, RelayAssumption DEF Gens
<1>2. Waiting(i) \subseteq Gens
  BY DEF Waiting
<1>3. QED
  BY <1>1, <1>2, FS_Subset, FS_CardinalityType

\* Only phrases are with the services, and one message of each.
LEMMA BrainOnce ==
  ASSUME RInv, NEW m \in brain, NEW n \in brain
  PROVE  /\ m.id \in DOMAIN phrase
         /\ m.id = n.id => m = n
<1>1. PICK i \in DOMAIN phrase, j \in DOMAIN phrase : m = Message(phrase[i]) /\ n = Message(phrase[j])
  BY DEF RInv, BrainOK, Published
<1>2. m.id = i /\ n.id = j
  BY <1>1 DEF RInv, PhraseOK, Message
<1>3. QED
  BY <1>1, <1>2

\* Nothing else is on the wire, but what the bot said.
LEMMA WireIds == ASSUME RInv, NEW i \in Ids \ {0}, Holds(wire, i) PROVE i \in DOMAIN phrase
<1>1. PICK k \in DOMAIN wire : wire[k].id = i
  BY DEF Holds
<1>2. wire[k] \in OnWire
  BY DEF RInv, WireOK
<1>3. QED
  BY <1>1, <1>2 DEF OnWire, Shown, RInv, PhraseOK

\* A phrase that is not touched, or only goes on from where it waits.
LEMMA CountedStays ==
  ASSUME NEW i, Counted(i),
         Holds(wire', i) => Holds(wire, i), InBrain(i)' => InBrain(i),
         Waiting(i)' = Waiting(i), sent'[i] = sent[i],
         posted'[i].copies = posted[i].copies,
         i \in DOMAIN phrase => i \in DOMAIN phrase'
  PROVE  Counted(i)'
BY DEF Counted

\* What the bot says itself is not counted.
LEMMA WireShown ==
  ASSUME NEW w \in Seq(OnWire), NEW i \in Ids \ {0}, NEW r \in Rooms, HoldsOne(w, i)
  PROVE  /\ HoldsOne(Append(w, Shown(r)), i)
         /\ Holds(Append(w, Shown(r)), i) <=> Holds(w, i)
<1>1. Shown(r).id # i
  BY DEF Shown
<1>2. QED
  BY <1>1, HoldsAppend

\* The wire after Recv has taken its head, and the bot perhaps said something.
LEMMA WireTaken ==
  ASSUME RInv, Singles, wire # <<>>, NEW i \in Ids \ {0},
         wire' = Tail(wire) \/ \E r \in Rooms : wire' = Append(Tail(wire), Shown(r))
  PROVE  /\ HoldsOne(wire', i)
         /\ Holds(wire', i) <=> Holds(wire, i) /\ Head(wire).id # i
<1>1. wire \in Seq(OnWire) /\ HoldsOne(wire, i)
  BY DEF RInv, WireOK, Singles
<1>2. /\ Tail(wire) \in Seq(OnWire) /\ HoldsOne(Tail(wire), i)
      /\ Holds(Tail(wire), i) <=> Holds(wire, i) /\ Head(wire).id # i
  BY <1>1, HoldsTail
<1>3. CASE wire' = Tail(wire)
  BY <1>2, <1>3
<1>4. CASE \E r \in Rooms : wire' = Append(Tail(wire), Shown(r))
  BY <1>2, <1>4, WireShown
<1>5. QED
  BY <1>3, <1>4

\* A phrase is said.
LEMMA SpeakOnce ==
  ASSUME OnceInv, RInv', SpeakInRoom \/ SpeakInPrivate PROVE OnceInv'
<1>1. PICK m : m.id = Len(phrase) + 1 /\ Speak(m)
  BY DEF SpeakInRoom, SpeakInPrivate, Says
<1>2. /\ phrase' = Append(phrase, m) /\ wire' = Append(wire, m)
      /\ UNCHANGED <<brain, queue, subs, posted, sent>>
  BY <1>1 DEF Speak, linkVars, redisVars
<1>3. /\ DOMAIN phrase' = DOMAIN phrase \cup {m.id} /\ m.id \notin DOMAIN phrase
      /\ wire \in Seq(OnWire)
  BY <1>1, <1>2 DEF OnceInv, RInv, PhraseOK, WireOK
<1>4. ASSUME NEW i \in Ids \ {0} PROVE HoldsOne(wire', i) /\ Counted(i)'
  <2>1. Counted(i) /\ HoldsOne(wire, i)
    BY DEF OnceInv, Singles
  <2>2. ~(Holds(wire, i) /\ m.id = i)
    BY <1>3, WireIds DEF OnceInv
  <2>3. HoldsOne(wire', i) /\ (Holds(wire', i) <=> Holds(wire, i) \/ m.id = i)
    BY <1>2, <1>3, <2>1, <2>2, HoldsAppend
  <2>4. CASE m.id # i
    <3>1. InBrain(i)' = InBrain(i) /\ Waiting(i)' = Waiting(i)
      BY <1>2 DEF InBrain, Waiting
    <3>2. QED
      BY <1>2, <1>3, <2>1, <2>3, <2>4, <3>1, CountedStays
  <2>5. CASE m.id = i
    <3>1. ~InBrain(i)
      BY <1>3, <2>5, BrainOnce DEF InBrain, OnceInv
    <3>2. posted[i].copies = 0
      BY <1>3, <2>5 DEF OnceInv, RInv, PostedOK, Nowhere
    <3>3. sent[i] = 0
      BY <1>3, <2>1, <2>5 DEF Counted
    <3>4. ~InBrain(i)' /\ Waiting(i)' = Waiting(i)
      BY <1>2, <3>1 DEF InBrain, Waiting
    <3>5. QED
      BY <1>2, <2>1, <2>3, <3>2, <3>3, <3>4 DEF Counted
  <2>6. QED
    BY <2>3, <2>4, <2>5
<1>5. Singles'
  BY <1>2, <1>4 DEF OnceInv, Singles
<1>6. sent' \in [Ids -> Nat]
  BY <1>2 DEF OnceInv
<1>7. QED
  BY <1>4, <1>5, <1>6 DEF OnceInv

\* The receive loop takes the phrase at the head of the wire, and that only.
LEMMA RecvTakes ==
  ASSUME OnceInv, Recv
  PROVE  /\ Holds(wire, Head(wire).id)
         /\ \A i \in Ids \ {0} :
              HoldsOne(wire', i) /\ (Holds(wire', i) <=> Holds(wire, i) /\ Head(wire).id # i)
<1>1. wire # <<>>
  BY DEF Recv
<1>2. wire' = Tail(wire) \/ \E r \in Rooms : wire' = Append(Tail(wire), Shown(r))
  BY DEF Recv, Ignore, AnswerHere, Post, WriteFails, Publish
<1>3. \A i \in Ids \ {0} :
        HoldsOne(wire', i) /\ (Holds(wire', i) <=> Holds(wire, i) /\ Head(wire).id # i)
  BY <1>1, <1>2, WireTaken DEF OnceInv
<1>4. Holds(wire, Head(wire).id)
  <2>1. wire \in Seq(OnWire)
    BY DEF OnceInv, RInv, WireOK
  <2>2. 1 \in DOMAIN wire /\ Head(wire) = wire[1]
    BY <1>1, <2>1
  <2>3. QED
    BY <2>2 DEF Holds
<1>5. QED
  BY <1>3, <1>4

\* It answers the phrase itself, publishes it, or does nothing.
LEMMA RecvOnce == ASSUME OnceInv, RInv', Recv PROVE OnceInv'
<1>1. UNCHANGED <<phrase, queue, subs, sent>>
  BY DEF Recv
<1>2. Holds(wire, Head(wire).id)
  BY RecvTakes
<1>3. \A i \in Ids \ {0} :
        HoldsOne(wire', i) /\ (Holds(wire', i) <=> Holds(wire, i) /\ Head(wire).id # i)
  BY RecvTakes
<1>4. ASSUME NEW i \in Ids \ {0} PROVE Counted(i)'
  <2>1. Counted(i) /\ Waiting(i)' = Waiting(i)
    BY <1>1 DEF OnceInv, Waiting
  <2>2. posted[i].copies \in Nat /\ posted \in [Ids -> [to : SUBSET (Rooms \cup {Channel}), copies : Nat]]
    BY DEF OnceInv, RInv, PostedOK
  <2>3. CASE UNCHANGED <<brain, posted>>
    <3>1. InBrain(i)' = InBrain(i)
      BY <2>3 DEF InBrain
    <3>2. QED
      BY <1>1, <1>3, <2>1, <2>3, <3>1, CountedStays
  <2>4. CASE brain' = brain /\ Post(Head(wire).id, Head(wire).place, Tail(wire))
    <3>1. InBrain(i)' = InBrain(i)
      BY <2>4 DEF InBrain
    <3>2. CASE Head(wire).id # i
      <4>1. posted'[i] = posted[i]
        BY <2>2, <2>4, <3>2 DEF Post
      <4>2. QED
        BY <1>1, <1>3, <2>1, <3>1, <4>1, CountedStays
    <3>3. CASE Head(wire).id = i
      <4>1. Holds(wire, i) /\ ~Holds(wire', i)
        BY <1>2, <1>3, <3>3
      <4>2. ~InBrain(i)' /\ sent'[i] = 0 /\ posted[i].copies = 0
        BY <1>1, <2>1, <3>1, <4>1 DEF Counted
      <4>3. posted'[i].copies = 1
        BY <2>2, <2>4, <3>3, <4>2 DEF Post
      <4>4. QED
        BY <1>1, <2>1, <4>1, <4>2, <4>3 DEF Counted
    <3>4. QED
      BY <3>2, <3>3
  <2>5. CASE brain' = brain \cup {Message(Head(wire))} /\ UNCHANGED posted
    <3>1. Message(Head(wire)).id = Head(wire).id
      BY DEF Message
    <3>2. InBrain(i)' <=> InBrain(i) \/ Head(wire).id = i
      BY <2>5, <3>1 DEF InBrain
    <3>3. CASE Head(wire).id # i
      BY <1>1, <1>3, <2>1, <2>5, <3>2, <3>3, CountedStays
    <3>4. CASE Head(wire).id = i
      <4>1. Holds(wire, i) /\ ~Holds(wire', i)
        BY <1>2, <1>3, <3>4
      <4>2. QED
        BY <1>1, <2>1, <2>5, <4>1 DEF Counted
    <3>5. QED
      BY <3>3, <3>4
  <2>6. QED
    BY <2>3, <2>4, <2>5 DEF Recv, Ignore, AnswerHere, WriteFails, Publish
<1>5. Singles'
  BY <1>1, <1>3 DEF OnceInv, Singles
<1>6. sent' \in [Ids -> Nat]
  BY <1>1 DEF OnceInv
<1>7. QED
  BY <1>4, <1>5, <1>6 DEF OnceInv

\* The subscriptions can be counted.
LEMMA SubsCount == OnceInv => IsFiniteSet(subs) /\ Cardinality(subs) \in 0 .. MaxGen
<1>1. OnceInv => subs \subseteq 1 .. MaxGen
  BY DEF OnceInv, Singles, Gens
<1>2. IsFiniteSet(1 .. MaxGen) /\ Cardinality(1 .. MaxGen) = MaxGen
  BY FS_Interval, RelayAssumption
<1>3. QED
  BY <1>1, <1>2, FS_Subset, FS_CardinalityType

\* A service answers into every queue that is subscribed.
LEMMA ReplyFills ==
  ASSUME OnceInv, NEW m \in brain, Reply(m)
  PROVE  /\ m.id \in DOMAIN phrase /\ m.id \in Ids \ {0}
         /\ \A i \in Ids \ {0} :
              /\ \A g \in Gens : HoldsOne(queue'[g], i)
              /\ Waiting(i)' = IF m.id = i THEN subs ELSE Waiting(i)
              /\ InBrain(i)' <=> InBrain(i) /\ m.id # i
<1>1. brain' = brain \ {m}
  BY DEF Reply
<1>2. PICK whole \in BOOLEAN :
        queue' = [g \in Gens |->
          IF g \in subs THEN Append(queue[g], AnswerTo(m, whole)) ELSE queue[g]]
  BY DEF Reply
<1>3. m.id \in DOMAIN phrase /\ m.id \in Ids \ {0}
  BY BrainOnce, PhraseIds DEF OnceInv, RInv
<1>4. AnswerTo(m, whole).id = m.id
  BY DEF AnswerTo
<1>5. Waiting(m.id) = {} /\ subs \subseteq Gens
  BY <1>3 DEF OnceInv, Counted, InBrain, Singles
<1>6. ASSUME NEW g \in Gens, NEW i \in Ids \ {0}
      PROVE  /\ HoldsOne(queue'[g], i)
             /\ Holds(queue'[g], i) <=> Holds(queue[g], i) \/ (g \in subs /\ m.id = i)
  <2>1. queue[g] \in Seq(Answers) /\ HoldsOne(queue[g], i)
    BY DEF OnceInv, RInv, QueueOK, Singles
  <2>2. ~(Holds(queue[g], i) /\ m.id = i)
    BY <1>5 DEF Waiting
  <2>3. CASE g \in subs
    <3>1. queue'[g] = Append(queue[g], AnswerTo(m, whole))
      BY <1>2, <2>3
    <3>2. QED
      BY <1>4, <2>1, <2>2, <2>3, <3>1, HoldsAppend
  <2>4. CASE g \notin subs
    BY <1>2, <2>1, <2>4
  <2>5. QED
    BY <2>3, <2>4
<1>7. ASSUME NEW i \in Ids \ {0}
      PROVE  Waiting(i)' = IF m.id = i THEN subs ELSE Waiting(i)
  BY <1>5, <1>6 DEF Waiting
<1>8. ASSUME NEW i \in Ids \ {0} PROVE InBrain(i)' <=> InBrain(i) /\ m.id # i
  BY <1>1, BrainOnce DEF InBrain, OnceInv
<1>9. QED
  BY <1>3, <1>6, <1>7, <1>8

LEMMA ReplyOnce == ASSUME OnceInv, RInv', NEW m \in brain, Reply(m) PROVE OnceInv'
<1>1. /\ sent' = [sent EXCEPT ![m.id] = Cardinality(subs)]
      /\ UNCHANGED <<wire, phrase, posted, subs>>
  BY DEF Reply
<1>2. m.id \in DOMAIN phrase /\ m.id \in Ids \ {0}
  BY ReplyFills
<1>3. IsFiniteSet(subs) /\ Cardinality(subs) \in Nat
  BY SubsCount
<1>4. sent \in [Ids -> Nat] /\ sent' \in [Ids -> Nat]
  BY <1>1, <1>2, <1>3 DEF OnceInv
<1>5. posted[m.id].copies = 0 /\ ~Holds(wire, m.id)
  BY <1>2 DEF OnceInv, Counted, InBrain
<1>6. \A i \in Ids \ {0} :
        /\ \A g \in Gens : HoldsOne(queue'[g], i)
        /\ Waiting(i)' = IF m.id = i THEN subs ELSE Waiting(i)
        /\ InBrain(i)' <=> InBrain(i) /\ m.id # i
  BY ReplyFills
<1>7. ASSUME NEW i \in Ids \ {0} PROVE Counted(i)'
  <2>1. Counted(i)
    BY DEF OnceInv
  <2>2. CASE i # m.id
    <3>1. sent'[i] = sent[i]
      BY <1>1, <1>4, <2>2
    <3>2. QED
      BY <1>1, <1>6, <2>1, <2>2, <3>1, CountedStays
  <2>3. CASE i = m.id
    <3>1. Waiting(i)' = subs /\ ~InBrain(i)'
      BY <1>6, <2>3
    <3>2. sent'[i] = Cardinality(subs)
      BY <1>1, <1>4, <2>3
    <3>3. posted'[i].copies = 0 /\ ~Holds(wire', i) /\ i \in DOMAIN phrase'
      BY <1>1, <1>2, <1>5, <2>3
    <3>4. Cardinality(subs) = 0 => subs = {}
      BY <1>3, FS_EmptySet
    <3>5. QED
      BY <1>3, <3>1, <3>2, <3>3, <3>4 DEF Counted
  <2>4. QED
    BY <2>2, <2>3
<1>8. Singles'
  BY <1>1, <1>6 DEF OnceInv, Singles
<1>9. QED
  BY <1>4, <1>7, <1>8 DEF OnceInv

\* A RedisLoop takes the answer at the head of its queue, and that only.
LEMMA LoopTakes ==
  ASSUME OnceInv, NEW g \in Gens, RedisLoop(g)
  PROVE  \E a \in Answers :
           /\ g \in Waiting(a.id)
           /\ UNCHANGED <<wire, posted>> \/ \E to : Post(a.id, to, wire)
           /\ \A i \in Ids \ {0} :
                /\ \A h \in Gens : HoldsOne(queue'[h], i)
                /\ Waiting(i)' = IF i = a.id THEN Waiting(i) \ {g} ELSE Waiting(i)
                /\ HoldsOne(wire', i) /\ (Holds(wire', i) <=> Holds(wire, i))
<1>1. queue[g] # <<>> /\ Take(g)
  BY DEF RedisLoop
<1>2. queue \in [Gens -> Seq(Answers)] /\ queue' = [queue EXCEPT ![g] = Tail(queue[g])]
  BY <1>1 DEF Take, OnceInv, RInv, QueueOK
<1>3. PICK a \in Answers : a = Head(queue[g]) /\ Holds(queue[g], a.id)
  <2>1. queue[g] \in Seq(Answers)
    BY <1>2
  <2>2. Head(queue[g]) \in Answers /\ 1 \in DOMAIN queue[g] /\ Head(queue[g]) = queue[g][1]
    BY <1>1, <2>1
  <2>3. QED
    BY <2>2 DEF Holds
<1>4. ASSUME NEW i \in Ids \ {0}
      PROVE  /\ \A h \in Gens : HoldsOne(queue'[h], i)
             /\ Waiting(i)' = IF i = a.id THEN Waiting(i) \ {g} ELSE Waiting(i)
  <2>1. queue[g] \in Seq(Answers) /\ \A h \in Gens : HoldsOne(queue[h], i)
    BY <1>2 DEF OnceInv, Singles
  <2>2. /\ HoldsOne(Tail(queue[g]), i)
        /\ Holds(Tail(queue[g]), i) <=> Holds(queue[g], i) /\ a.id # i
    BY <1>1, <1>3, <2>1, HoldsTail
  <2>3. queue'[g] = Tail(queue[g]) /\ \A h \in Gens \ {g} : queue'[h] = queue[h]
    BY <1>2
  <2>4. \A h \in Gens : HoldsOne(queue'[h], i)
    BY <2>1, <2>2, <2>3
  <2>5. Waiting(i)' = IF i = a.id THEN Waiting(i) \ {g} ELSE Waiting(i)
    BY <2>2, <2>3 DEF Waiting
  <2>6. QED
    BY <2>4, <2>5
<1>5. UNCHANGED <<wire, posted>> \/ \E to : Post(a.id, to, wire)
  BY <1>3 DEF RedisLoop, WriteFails
<1>6. ASSUME NEW i \in Ids \ {0}
      PROVE  HoldsOne(wire', i) /\ (Holds(wire', i) <=> Holds(wire, i))
  <2>1. wire \in Seq(OnWire) /\ HoldsOne(wire, i)
    BY DEF OnceInv, RInv, WireOK, Singles
  <2>2. wire' = wire \/ \E r \in Rooms : wire' = Append(wire, Shown(r))
    BY <1>5 DEF Post
  <2>3. QED
    BY <2>1, <2>2, WireShown
<1>7. g \in Waiting(a.id)
  BY <1>3 DEF Waiting
<1>8. QED
  BY <1>4, <1>5, <1>6, <1>7

\* What a post does to the copies of a phrase.
LEMMA PostCounts ==
  ASSUME RInv, NEW i \in Ids, NEW j, NEW to, NEW w, Post(j, to, w)
  PROVE  posted'[i].copies = IF i = j THEN posted[i].copies + 1 ELSE posted[i].copies
<1>1. posted \in [Ids -> [to : SUBSET (Rooms \cup {Channel}), copies : Nat]]
  BY DEF RInv, PostedOK
<1>2. CASE i = j
  <2>1. posted'[i] = [to |-> posted[i].to \cup {to}, copies |-> posted[i].copies + 1]
    BY <1>1, <1>2 DEF Post
  <2>2. QED
    BY <1>2, <2>1
<1>3. CASE i # j
  <2>1. posted'[i] = posted[i]
    BY <1>1, <1>3 DEF Post
  <2>2. QED
    BY <1>3, <2>1
<1>4. QED
  BY <1>2, <1>3

\* Taking an answer pays for the post that may follow.
LEMMA LoopOnce == ASSUME OnceInv, RInv', NEW g \in Gens, RedisLoop(g) PROVE OnceInv'
<1>1. UNCHANGED <<brain, phrase, sent, subs>>
  BY DEF RedisLoop
<1>2. PICK a \in Answers :
        /\ g \in Waiting(a.id)
        /\ UNCHANGED <<wire, posted>> \/ \E to : Post(a.id, to, wire)
        /\ \A i \in Ids \ {0} :
             /\ \A h \in Gens : HoldsOne(queue'[h], i)
             /\ Waiting(i)' = IF i = a.id THEN Waiting(i) \ {g} ELSE Waiting(i)
             /\ HoldsOne(wire', i) /\ (Holds(wire', i) <=> Holds(wire, i))
  BY LoopTakes
<1>3. ASSUME NEW i \in Ids \ {0} PROVE Counted(i)'
  <2>1. Counted(i) /\ InBrain(i)' = InBrain(i)
    BY <1>1 DEF OnceInv, InBrain
  <2>2. posted[i].copies \in Nat
    BY DEF OnceInv, RInv, PostedOK
  <2>3. CASE i # a.id
    <3>1. posted'[i].copies = posted[i].copies
      BY <1>2, <2>3, PostCounts DEF OnceInv
    <3>2. QED
      BY <1>1, <1>2, <2>1, <2>3, <3>1, CountedStays
  <2>4. CASE i = a.id
    <3>1. g \in Waiting(i)
      BY <1>2, <2>4
    <3>2. sent[i] # 0 /\ sent[i] \in Nat
      BY <2>1, <3>1 DEF Counted
    <3>3. ~Holds(wire, i) /\ ~InBrain(i)
      BY <2>1, <3>2 DEF Counted
    <3>4. posted'[i].copies = posted[i].copies \/ posted'[i].copies = posted[i].copies + 1
      BY <1>2, <2>4, PostCounts DEF OnceInv
    <3>5. /\ Cardinality(Waiting(i)) \in Nat
          /\ Cardinality(Waiting(i) \ {g}) = Cardinality(Waiting(i)) - 1
      BY <3>1, WaitingCount, FS_RemoveElement
    <3>6. Waiting(i)' = Waiting(i) \ {g}
      BY <1>2, <2>4
    <3>7. posted'[i].copies + Cardinality(Waiting(i) \ {g}) <= sent[i]
      BY <2>1, <2>2, <3>2, <3>4, <3>5 DEF Counted
    <3>8. QED
      BY <1>1, <1>2, <2>1, <3>2, <3>3, <3>6, <3>7 DEF Counted
  <2>5. QED
    BY <2>3, <2>4
<1>4. Singles'
  BY <1>1, <1>2 DEF OnceInv, Singles
<1>5. sent' \in [Ids -> Nat]
  BY <1>1 DEF OnceInv
<1>6. QED
  BY <1>3, <1>4, <1>5 DEF OnceInv

\* The steps that say, post and take nothing.
LEMMA OthersOnce ==
  ASSUME OnceInv, RInv', UNCHANGED <<brain, queue, phrase, posted, sent>>,
         subs' \subseteq Gens, wire' = wire \/ wire' = <<>>
  PROVE  OnceInv'
<1>1. ASSUME NEW i \in Ids \ {0}
      PROVE  HoldsOne(wire', i) /\ (Holds(wire', i) => Holds(wire, i))
  BY HoldsNothing DEF OnceInv, Singles
<1>2. ASSUME NEW i \in Ids \ {0} PROVE Counted(i)'
  <2>1. Counted(i) /\ InBrain(i)' = InBrain(i) /\ Waiting(i)' = Waiting(i)
    BY DEF OnceInv, InBrain, Waiting
  <2>2. QED
    BY <1>1, <2>1, CountedStays
<1>3. Singles'
  BY <1>1 DEF OnceInv, Singles
<1>4. QED
  BY <1>2, <1>3 DEF OnceInv

LEMMA OnceInit == Init => OnceInv
<1> SUFFICES ASSUME Init PROVE OnceInv
  OBVIOUS
<1>1. RInv
  BY RInvInit
<1>2. ASSUME NEW i \in Ids \ {0}
      PROVE  HoldsOne(wire, i) /\ (\A g \in Gens : HoldsOne(queue[g], i)) /\ Counted(i)
  <2>1. ~Holds(wire, i) /\ HoldsOne(wire, i) /\ ~InBrain(i)
    BY HoldsNothing DEF Init, InBrain
  <2>2. \A g \in Gens : ~Holds(queue[g], i) /\ HoldsOne(queue[g], i)
    BY HoldsNothing DEF Init
  <2>3. Waiting(i) = {} /\ sent[i] = 0 /\ posted[i].copies = 0
    BY <2>2 DEF Init, Waiting
  <2>4. QED
    BY <2>1, <2>2, <2>3 DEF Counted
<1>3. Singles /\ sent \in [Ids -> Nat]
  BY <1>2 DEF Init, Singles
<1>4. QED
  BY <1>1, <1>2, <1>3 DEF OnceInv

LEMMA OnceNext == OnceInv /\ [Next]_vars => OnceInv'
<1> SUFFICES ASSUME OnceInv, [Next]_vars PROVE OnceInv'
  OBVIOUS
<1>1. RInv'
  BY RInvNext DEF OnceInv
<1>2. CASE SpeakInRoom \/ SpeakInPrivate
  BY <1>1, <1>2, SpeakOnce
<1>3. CASE Recv
  BY <1>1, <1>3, RecvOnce
<1>4. CASE \E m \in brain : Reply(m)
  BY <1>1, <1>4, ReplyOnce
<1>5. CASE \E g \in Gens : RedisLoop(g)
  BY <1>1, <1>5, LoopOnce
<1>6. CASE \E g \in Gens : Subscribe(g) \/ LoseSubscription(g)
  <2>1. subs' \subseteq Gens
    BY <1>6 DEF Subscribe, LoseSubscription, OnceInv, Singles
  <2>2. QED
    BY <1>1, <1>6, <2>1, OthersOnce DEF Subscribe, LoseSubscription, pastVars
<1>7. CASE Break \/ NextGeneration \/ Dial \/ Interrupt \/ UNCHANGED vars
  <2>1. subs' \subseteq Gens
    BY <1>7 DEF Break, NextGeneration, Dial, Interrupt, vars, redisVars, OnceInv, Singles
  <2>2. QED
    BY <1>1, <1>7, <2>1, OthersOnce
       DEF Break, NextGeneration, Dial, Interrupt, vars, redisVars, pastVars
<1>8. QED
  BY <1>2, <1>3, <1>4, <1>5, <1>6, <1>7 DEF Next

-----------------------------------------------------------------------------
(***************************************************************************)
(* The relay implements the exchange                                       *)
(***************************************************************************)

\* A function that differs from another at one point only.
LEMMA DiffersAt ==
  ASSUME NEW P, NEW f, NEW h, NEW j \in P, NEW v,
         f = [i \in P |-> f[i]], h = [i \in P |-> h[i]],
         h[j] = v, \A i \in P : i # j => h[i] = f[i]
  PROVE  h = [f EXCEPT ![j] = v]
OBVIOUS

LEMMA SameFunction ==
  ASSUME NEW P, NEW f, NEW h, f = [i \in P |-> f[i]], h = [i \in P |-> h[i]],
         \A i \in P : h[i] = f[i]
  PROVE  h = f
OBVIOUS

\* The three are functions of the phrases.
LEMMA Functions ==
  /\ stage = [i \in Ids \ {0} |-> stage[i]] /\ stage' = [i \in Ids \ {0} |-> stage'[i]]
  /\ owed = [i \in Ids \ {0} |-> owed[i]] /\ owed' = [i \in Ids \ {0} |-> owed'[i]]
  /\ given = [i \in Ids \ {0} |-> given[i]] /\ given' = [i \in Ids \ {0} |-> given'[i]]
<1>1. stage = [i \in Ids \ {0} |-> stage[i]] /\ stage' = [i \in Ids \ {0} |-> stage'[i]]
  BY DEF stage
<1>2. owed = [i \in Ids \ {0} |-> owed[i]] /\ owed' = [i \in Ids \ {0} |-> owed'[i]]
  BY DEF owed
<1>3. given = [i \in Ids \ {0} |-> given[i]] /\ given' = [i \in Ids \ {0} |-> given'[i]]
  BY DEF given
<1>4. QED
  BY <1>1, <1>2, <1>3

\* What they are of one phrase.
LEMMA Values ==
  ASSUME NEW i \in Ids \ {0}
  PROVE  /\ stage[i] = IF i \notin DOMAIN phrase THEN "unsaid" ELSE
                       IF Holds(wire, i) THEN "said" ELSE IF InBrain(i) THEN "asked" ELSE "done"
         /\ stage'[i] = IF i \notin DOMAIN phrase' THEN "unsaid" ELSE
                        IF Holds(wire', i) THEN "said" ELSE IF InBrain(i)' THEN "asked" ELSE "done"
         /\ owed[i] = Cardinality(Waiting(i)) /\ owed'[i] = Cardinality(Waiting(i)')
         /\ given[i] = posted[i].copies /\ given'[i] = posted'[i].copies
<1>1. /\ stage[i] = IF i \notin DOMAIN phrase THEN "unsaid" ELSE
                    IF Holds(wire, i) THEN "said" ELSE IF InBrain(i) THEN "asked" ELSE "done"
      /\ stage'[i] = IF i \notin DOMAIN phrase' THEN "unsaid" ELSE
                     IF Holds(wire', i) THEN "said" ELSE IF InBrain(i)' THEN "asked" ELSE "done"
  BY DEF stage, Holds, InBrain
<1>2. owed[i] = Cardinality(Waiting(i)) /\ owed'[i] = Cardinality(Waiting(i)')
  BY DEF owed, Waiting
<1>3. given[i] = posted[i].copies /\ given'[i] = posted'[i].copies
  BY DEF given
<1>4. QED
  BY <1>1, <1>2, <1>3

\* No queue and no post, no change.
LEMMA SameOwed == UNCHANGED queue => owed' = owed
BY DEF owed, Waiting

LEMMA SameGiven == UNCHANGED posted => given' = given
BY DEF given

\* Somebody speaks: a phrase is said.
LEMMA SpeakIsSay ==
  ASSUME OnceInv, SpeakInRoom \/ SpeakInPrivate
  PROVE  \E j \in Ids \ {0} : Exchange!Say(j)
<1>1. PICK m : m.id = Len(phrase) + 1 /\ Speak(m)
  BY DEF SpeakInRoom, SpeakInPrivate, Says
<1>2. /\ phrase' = Append(phrase, m) /\ wire' = Append(wire, m) /\ Len(phrase) < MaxPhrases
      /\ UNCHANGED <<brain, queue, posted>>
  BY <1>1 DEF Speak, linkVars, redisVars
<1>3. /\ DOMAIN phrase' = DOMAIN phrase \cup {m.id} /\ m.id \notin DOMAIN phrase
      /\ wire \in Seq(OnWire) /\ m.id \in Ids \ {0}
  BY <1>1, <1>2, RelayAssumption DEF OnceInv, RInv, PhraseOK, WireOK, Ids
<1>4. \A i \in Ids \ {0} : Holds(wire', i) <=> Holds(wire, i) \/ m.id = i
  BY <1>2, <1>3, HoldsAppend
<1>5. \A i \in Ids \ {0} : InBrain(i)' = InBrain(i)
  BY <1>2 DEF InBrain
<1>6. stage[m.id] = "unsaid" /\ stage'[m.id] = "said"
  BY <1>3, <1>4, Values
<1>7. \A i \in Ids \ {0} : i # m.id => stage'[i] = stage[i]
  BY <1>3, <1>4, <1>5, Values
<1>8. stage' = [stage EXCEPT ![m.id] = "said"]
  BY <1>3, <1>6, <1>7, Functions, DiffersAt
<1>9. owed' = owed /\ given' = given
  BY <1>2, SameOwed, SameGiven
<1>10. QED
  BY <1>3, <1>6, <1>8, <1>9 DEF Exchange!Say, Exchange!Move

\* Phrases that are no longer on the wire, and nowhere else, are forgotten.
LEMMA LossIsForget ==
  ASSUME OnceInv, UNCHANGED <<phrase, brain, queue, posted>>,
         \A i \in Ids \ {0} : Holds(wire', i) => Holds(wire, i)
  PROVE  \E I \in SUBSET (Ids \ {0}) : Exchange!Forget(I)
<1> DEFINE I == {i \in Ids \ {0} : Holds(wire, i) /\ ~Holds(wire', i)}
<1>1. \A i \in Ids \ {0} : InBrain(i)' = InBrain(i)
  BY DEF InBrain
<1>2. \A i \in Ids \ {0} : Holds(wire, i) => i \in DOMAIN phrase /\ ~InBrain(i)
  BY WireIds DEF OnceInv, Counted
<1>3. \A i \in I : stage[i] = "said" /\ stage'[i] = "done"
  BY <1>1, <1>2, Values
<1>4. \A i \in Ids \ {0} : i \notin I => stage'[i] = stage[i]
  BY <1>1, Values
<1>5. stage' = [i \in Ids \ {0} |-> IF i \in I THEN "done" ELSE stage[i]]
  <2>1. \A i \in Ids \ {0} : stage'[i] = IF i \in I THEN "done" ELSE stage[i]
    BY <1>3, <1>4
  <2> HIDE DEF I
  <2>2. QED
    BY <2>1, Functions
<1>6. owed' = owed /\ given' = given
  BY SameOwed, SameGiven
<1>7. Exchange!Forget(I)
  BY <1>3, <1>5, <1>6 DEF Exchange!Forget
<1>8. QED
  BY <1>7

\* Recv asks the services, answers at once, or forgets.
LEMMA RecvMaps ==
  ASSUME OnceInv, Recv
  PROVE  \/ \E j \in Ids \ {0} : Exchange!Ask(j) \/ Exchange!AnswerAtOnce(j)
         \/ \E I \in SUBSET (Ids \ {0}) : Exchange!Forget(I)
<1>1. wire # <<>> /\ UNCHANGED <<phrase, queue>>
  BY DEF Recv
<1>2. /\ Holds(wire, Head(wire).id)
      /\ \A i \in Ids \ {0} : Holds(wire', i) <=> Holds(wire, i) /\ Head(wire).id # i
  BY RecvTakes
<1>3. CASE UNCHANGED <<brain, posted>>
  BY <1>1, <1>2, <1>3, LossIsForget
<1>4. PICK m : m = Head(wire)
  OBVIOUS
<1>5. CASE ~Own(m) /\ ~UNCHANGED <<brain, posted>>
  <2>1. m \in OnWire
    <3>1. wire \in Seq(OnWire)
      BY DEF OnceInv, RInv, WireOK
    <3>2. QED
      BY <1>1, <1>4, <3>1
  <2>2. m.id \in DOMAIN phrase /\ m.id \in Ids \ {0}
    BY <1>5, <2>1, NotOwn, PhraseIds DEF OnceInv, RInv, PhraseOK
  <2>3. ~InBrain(m.id) /\ posted[m.id].copies = 0
    BY <1>2, <1>4, <2>2 DEF OnceInv, Counted
  <2>4. stage[m.id] = "said" /\ owed' = owed
    BY <1>1, <1>2, <1>4, <2>2, Values, SameOwed
  <2>5. CASE brain' = brain /\ Post(m.id, m.place, Tail(wire))
    <3>1. \A i \in Ids \ {0} : InBrain(i)' = InBrain(i)
      BY <2>5 DEF InBrain
    <3>2. stage'[m.id] = "done" /\ \A i \in Ids \ {0} : i # m.id => stage'[i] = stage[i]
      BY <1>1, <1>2, <1>4, <2>2, <2>3, <3>1, Values
    <3>3. stage' = [stage EXCEPT ![m.id] = "done"]
      BY <2>2, <3>2, Functions, DiffersAt
    <3>4. given'[m.id] = 1 /\ \A i \in Ids \ {0} : i # m.id => given'[i] = given[i]
      BY <2>2, <2>3, <2>5, PostCounts, Values DEF OnceInv
    <3>5. given' = [given EXCEPT ![m.id] = 1]
      BY <2>2, <3>4, Functions, DiffersAt
    <3>6. Exchange!AnswerAtOnce(m.id)
      BY <2>4, <3>3, <3>5 DEF Exchange!AnswerAtOnce, Exchange!Move
    <3>7. QED
      BY <2>2, <3>6
  <2>6. CASE brain' = brain \cup {Message(m)} /\ UNCHANGED posted
    <3>1. Message(m).id = m.id
      BY DEF Message
    <3>2. \A i \in Ids \ {0} : InBrain(i)' <=> InBrain(i) \/ m.id = i
      BY <2>6, <3>1 DEF InBrain
    <3>3. stage'[m.id] = "asked" /\ \A i \in Ids \ {0} : i # m.id => stage'[i] = stage[i]
      BY <1>1, <1>2, <1>4, <2>2, <3>2, Values
    <3>4. stage' = [stage EXCEPT ![m.id] = "asked"]
      BY <2>2, <3>3, Functions, DiffersAt
    <3>5. Exchange!Ask(m.id)
      BY <2>4, <2>6, <3>4, SameGiven DEF Exchange!Ask, Exchange!Move
    <3>6. QED
      BY <2>2, <3>5
  <2>7. QED
    BY <1>4, <1>5, <2>5, <2>6 DEF Recv, Ignore, AnswerHere, WriteFails, Publish
<1>6. QED
  BY <1>3, <1>4, <1>5 DEF Recv, Ignore

\* A reply to a message owes one answer to every subscription.
LEMMA ReplyIsOwe ==
  ASSUME OnceInv, NEW m \in brain, Reply(m)
  PROVE  \E j \in Ids \ {0}, n \in 0 .. MaxGen : Exchange!Owe(j, n)
<1>1. UNCHANGED <<wire, phrase, posted>>
  BY DEF Reply
<1>2. /\ m.id \in DOMAIN phrase /\ m.id \in Ids \ {0}
      /\ \A i \in Ids \ {0} :
           /\ Waiting(i)' = IF m.id = i THEN subs ELSE Waiting(i)
           /\ InBrain(i)' <=> InBrain(i) /\ m.id # i
  BY ReplyFills
<1>3. ~Holds(wire, m.id) /\ InBrain(m.id)
  BY <1>2 DEF OnceInv, Counted, InBrain
<1>4. stage[m.id] = "asked" /\ stage'[m.id] = "done"
  BY <1>1, <1>2, <1>3, Values
<1>5. \A i \in Ids \ {0} : i # m.id => stage'[i] = stage[i]
  BY <1>1, <1>2, Values
<1>6. stage' = [stage EXCEPT ![m.id] = "done"]
  BY <1>2, <1>4, <1>5, Functions, DiffersAt
<1>7. owed'[m.id] = Cardinality(subs) /\ \A i \in Ids \ {0} : i # m.id => owed'[i] = owed[i]
  BY <1>2, Values
<1>8. owed' = [owed EXCEPT ![m.id] = Cardinality(subs)]
  BY <1>2, <1>7, Functions, DiffersAt
<1>9. Exchange!Owe(m.id, Cardinality(subs))
  BY <1>1, <1>4, <1>6, <1>8, SameGiven DEF Exchange!Owe, Exchange!Move
<1>10. QED
  BY <1>2, <1>9, SubsCount

\* A round of a RedisLoop pays, or declines to.
LEMMA LoopIsPay ==
  ASSUME OnceInv, NEW g \in Gens, RedisLoop(g)
  PROVE  \E j \in Ids \ {0} : Exchange!Pay(j)
<1>1. UNCHANGED <<brain, phrase>>
  BY DEF RedisLoop
<1>2. PICK a \in Answers :
        /\ g \in Waiting(a.id)
        /\ UNCHANGED <<wire, posted>> \/ \E to : Post(a.id, to, wire)
        /\ \A i \in Ids \ {0} :
             /\ Waiting(i)' = IF i = a.id THEN Waiting(i) \ {g} ELSE Waiting(i)
             /\ Holds(wire', i) <=> Holds(wire, i)
  BY LoopTakes
<1>3. a.id \in Ids \ {0}
  BY PhraseIds DEF Answers, Published, AnswerTo, Message, OnceInv, RInv, PhraseOK
<1>4. \A i \in Ids \ {0} : InBrain(i)' = InBrain(i)
  BY <1>1 DEF InBrain
<1>5. stage' = stage
  <2>1. \A i \in Ids \ {0} : stage'[i] = stage[i]
    BY <1>1, <1>2, <1>4, Values
  <2>2. QED
    BY <2>1, Functions, SameFunction
<1>6. /\ owed[a.id] \in Nat /\ owed[a.id] > 0 /\ owed'[a.id] = owed[a.id] - 1
      /\ \A i \in Ids \ {0} : i # a.id => owed'[i] = owed[i]
  <2>1. Cardinality(Waiting(a.id)) \in Nat /\ IsFiniteSet(Waiting(a.id))
    BY WaitingCount
  <2>2. Cardinality(Waiting(a.id) \ {g}) = Cardinality(Waiting(a.id)) - 1
    BY <1>2, <2>1, FS_RemoveElement
  <2>3. Cardinality(Waiting(a.id) \ {g}) \in Nat
    BY <2>1, FS_Subset, FS_CardinalityType
  <2>4. owed[a.id] = Cardinality(Waiting(a.id)) /\ owed'[a.id] = Cardinality(Waiting(a.id) \ {g})
    BY <1>2, <1>3, Values
  <2>5. \A i \in Ids \ {0} : i # a.id => owed'[i] = owed[i]
    BY <1>2, Values
  <2>6. QED
    BY <2>1, <2>2, <2>3, <2>4, <2>5
<1>7. owed' = [owed EXCEPT ![a.id] = @ - 1]
  BY <1>3, <1>6, Functions, DiffersAt
<1>8. given' \in {given, [given EXCEPT ![a.id] = @ + 1]}
  <2>1. CASE UNCHANGED posted
    BY <2>1, SameGiven
  <2>2. CASE \E to : Post(a.id, to, wire)
    <3>1. /\ given'[a.id] = given[a.id] + 1
          /\ \A i \in Ids \ {0} : i # a.id => given'[i] = given[i]
      BY <1>3, <2>2, PostCounts, Values DEF OnceInv
    <3>2. QED
      BY <1>3, <3>1, Functions, DiffersAt
  <2>3. QED
    BY <1>2, <2>1, <2>2
<1>9. Exchange!Pay(a.id)
  BY <1>5, <1>6, <1>7, <1>8 DEF Exchange!Pay
<1>10. QED
  BY <1>3, <1>9

LEMMA NextMaps == OnceInv /\ [Next]_vars => [Exchange!ExchangeNext]_(Exchange!exchangeVars)
<1> SUFFICES ASSUME OnceInv, [Next]_vars
             PROVE  Exchange!ExchangeNext \/ UNCHANGED Exchange!exchangeVars
  OBVIOUS
<1>1. CASE SpeakInRoom \/ SpeakInPrivate
  BY <1>1, SpeakIsSay DEF Exchange!ExchangeNext
<1>2. CASE Recv
  BY <1>2, RecvMaps DEF Exchange!ExchangeNext
<1>3. CASE \E m \in brain : Reply(m)
  BY <1>3, ReplyIsOwe DEF Exchange!ExchangeNext
<1>4. CASE \E g \in Gens : RedisLoop(g)
  BY <1>4, LoopIsPay DEF Exchange!ExchangeNext
<1>5. CASE /\ UNCHANGED <<phrase, brain, queue, posted>>
           /\ wire' = wire \/ wire' = <<>>
  <2>1. \A i \in Ids \ {0} : Holds(wire', i) => Holds(wire, i)
    BY <1>5, HoldsNothing
  <2>2. QED
    BY <1>5, <2>1, LossIsForget DEF Exchange!ExchangeNext
<1>6. QED
  BY <1>1, <1>2, <1>3, <1>4, <1>5
     DEF Next, Subscribe, LoseSubscription, Break, NextGeneration, Dial, Interrupt,
         vars, redisVars, pastVars

LEMMA InitMaps == Init => Exchange!ExchangeInit
<1> SUFFICES ASSUME Init PROVE Exchange!ExchangeInit
  OBVIOUS
<1>1. \A i \in Ids \ {0} : Waiting(i) = {}
  BY HoldsNothing DEF Init, Waiting
<1>2. stage = [i \in Ids \ {0} |-> "unsaid"]
  BY DEF Init, stage
<1>3. owed = [i \in Ids \ {0} |-> 0]
  BY <1>1, FS_EmptySet DEF owed
<1>4. given = [i \in Ids \ {0} |-> 0]
  BY DEF Init, given
<1>5. QED
  BY <1>2, <1>3, <1>4 DEF Exchange!ExchangeInit

-----------------------------------------------------------------------------
(***************************************************************************)
(* The theorems                                                            *)
(***************************************************************************)

\* Nothing the bot says is taken up by the bot, so it never talks to itself.
THEOREM NeverEchoes == Spec => []NoEcho
BY RInvAlways, RInvNoEcho, PTL

\* In a room nothing is posted that was not asked for.
THEOREM AnswersAsked == Spec => []OnlyAsked
<1>1. RInv => OnlyAsked
  BY DEF RInv
<1>2. QED
  BY RInvAlways, <1>1, PTL

\* Nothing is posted in a room that is not about a phrase of that room.
THEOREM AnswersInPlace == Spec => []InPlace
<1>1. RInv => InPlace
  BY DEF RInv
<1>2. QED
  BY RInvAlways, <1>1, PTL

\* An answer is posted at most once for each subscription that it reached,
\* however many loops there are and whatever is lost.
THEOREM OncePerLoop == Spec => []OncePerSubscription
<1>1. OnceInv => OncePerSubscription
  <2> SUFFICES ASSUME OnceInv, NEW i \in DOMAIN phrase
               PROVE  posted[i].copies <= IF sent[i] = 0 THEN 1 ELSE sent[i]
    BY DEF OncePerSubscription
  <2>1. i \in Ids \ {0}
    BY PhraseIds DEF OnceInv, RInv
  <2>2. Counted(i) /\ posted[i].copies \in Nat
    BY <2>1 DEF OnceInv, RInv, PostedOK
  <2>3. QED
    BY <2>2, WaitingCount DEF Counted
<1>2. QED
  BY OnceInit, OnceNext, <1>1, PTL DEF Spec

\* The relay implements the exchange: each phrase is asked about or answered at
\* once, and every other post is owed.
THEOREM Implements == Spec => ImplementsExchange
BY OnceInit, OnceNext, InitMaps, NextMaps, PTL
   DEF Spec, ImplementsExchange, Exchange!ExchangeSpec
=============================================================================
