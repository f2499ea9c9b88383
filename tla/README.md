# aleesa-jabber-go in TLA+

aleesa-jabber-go is a bridge between jabber conference rooms and the message
bus of a chat bot (Redis).  It keeps one XMPP session, joins the configured
rooms, forwards what is said there to Redis, writes what comes from Redis back,
answers service queries and keeps a few settings per room.

This directory holds the TLA+ models of that program, the TLC configurations
that check them on small instances, and proofs that TLAPS checks.

    tlc -workers 2 -config session_overlap.cfg Session.tla      # any run below
    tlapm SessionProofs.tla                                     # the proofs

## 1. The system

### Components and their state

| component | source | state | operations |
|---|---|---|---|
| main loop | `cmd/aleesa-jabber-go/main.go` | `SigChan`, `Talk`, `Options`, `GTomb`, `RedisClient`, `Subscriber`, all overwritten in every turn | start `SigHandler`, `RedisLoop`, `myLoop`; wait until the tomb is dying; sleep; again |
| session (`myLoop`, `EstablishConnection`) | `main.go`, `lib.go` | `connecting`, `IsConnected`, the lists of capabilities and rooms, `ServerPingTimestamp{Rx,Tx}` | dial, authenticate, start the background goroutines, receive and parse events |
| tomb | `vendor/gopkg.in/tomb.v2` | number of goroutines alive, channels dying and dead | `Go`, `Kill`, `Dying`, end of a goroutine |
| background goroutines | `lib.go` | none of their own | `joinMuc`, `RotateStatus`, `ProbeServerLiveness`, `ProbeMUCLiveness` |
| event parser | `event_parser.go` | `RoomsConnected`, `RoomPresences`, `MucCapsList`, `ServerCapsList`, `Last*Activity` | messages, IQ get / result / set / error, presences, disco results |
| commands | `commands.go` | none of its own | which message is answered at once, which is forwarded and how |
| settings store | `settings-db-util.go` | `settingsDB`, a pebble database per room | `getSetting`, `saveSetting` |
| Redis bridge | `redis.go` | none of its own | validate a message, send it to a room or a user |
| signal handler | `sighandler.go` | `Shutdown` | unsubscribe, close, exit |
| IQ responder | `event_parser.go:83-492`, go-xmpp's `Recv` | `LastActivity`, `ServerPingTimestampRx`, `ServerCapsList` | answer, note a pong, give up pinging |
| config | `read_config.go`, `main.go:36-108` | `Config`, `Options` | find, parse, validate, fill in defaults; choose the transport |
| log | `log.go` | the level, the pipe `Writer`, the scanner of `readIoPipe` | print; copy the stanzas into the log |
| collections | `anycollection.go` | a `sync.Map` | get, set, delete |

### How they interact

Everything is shared through package globals without locks, except the
collections (`sync.Map`) and the tomb (a mutex).  `myLoop` calls `ParseEvent`
directly, which calls `cmd`, which uses the settings and publishes to Redis.
The background goroutines and `RedisLoop` write stanzas through whatever `Talk`
is at that moment; go-xmpp writes all of them to **one** package variable,
`StanzaWriter`, which every `NewClient` replaces.  A goroutine that fails
returns an error to the tomb, or kills it; the tomb's `Dying` channel wakes
`main`, which starts a new *generation* of goroutines over the same globals and
never waits for the old one.

### What is hard, and what should hold

* *Overlapping generations.*  The old `RedisLoop`, `SigHandler`,
  `ProbeMUCLiveness`, and any loop or probe that did not fail itself, run on.
  One goroutine at a time should establish the connection (`globals.go:30`; two
  flags without a lock do not see to it, and the models say how far they get);
  stanzas should go where the answers are read; the tomb should count its own
  goroutines.
* *Failure and retry.*  Every end of a session should lead to another attempt.
* *Timeouts.*  A dead connection should be found, a live one kept.
* *Shutdown.*  A signal should end the process, from any state.
* *Partial failure and crashes in the settings store.*  What was answered
  should be what is stored; a database that does not open should not do harm.
* *Messages.*  What is said goes to Redis and what is said back comes through
  another channel, possibly to several loops; the bot hears itself.  It should
  answer what asks, where it was asked, and never itself.
* *IQ stanzas.*  go-xmpp and `ParseEvent` both answer; anybody may send
  anything.  A query should be answered once, and nobody but the server should
  be able to stop the pings or pass for a pong.
* *Configuration.*  Defaults depend on each other and on the transport.
* *Log.*  With the loglevel debug every goroutine that touches the stream waits
  for the reader of one pipe.
* *Room membership.*  The list of rooms and the roster should follow the
  presences the server sends; a room the bot was removed from should be found
  out.

`PROJECT.json` lists every hazard with its line and the property that covers it,
or the reason why none does.

## 2. The modules

| module | models | lines of code |
|---|---|---|
| `Tomb` | operators on the value of a `tomb.Tomb` | `tomb.go` |
| `ConnSlot` | abstract: the slot that `connecting` and `IsConnected` stand for | `globals.go:30-34`, `lib.go:19-64` |
| `Session` | main, myLoop, EstablishConnection, the background goroutines, signals, the network; extends `Tomb`, instantiates `ConnSlot` | `main.go`, `lib.go`, parts of `event_parser.go`, `redis.go`, `sighandler.go` |
| `SessionProofs` | theorems about `Session` | |
| `SettingsStore` | settings commands, the map of databases, the signal handler, kill and restart | `commands.go:134-235`, `settings-db-util.go`, `sighandler.go` |
| `SettingsProofs` | theorems about `SettingsStore` | |
| `ServerPing` | the liveness probe with a clock | `lib.go:140-228`, `event_parser.go:342-346, 409-487, 599-618` |
| `ServerPingProofs` | theorems about `ServerPing` | |
| `Rooms` | entering rooms, the list of rooms, the rosters, administrators, the probe of the rooms | `lib.go:67-136, 231-292, 390-416, 445-453`, `event_parser.go:25-57, 494-637` |
| `Relay` | messages from the rooms to Redis and back, over generations | `event_parser.go:25-80`, `commands.go`, `redis.go`, `main.go:70-89` |
| `Exchange` | what the relay is there for, abstractly: a phrase is asked about or answered, once, and answers are owed and paid | `event_parser.go:25-80`, `commands.go:77-221, 340-375`, `redis.go` |
| `RelayProofs` | theorems about `Relay` | |
| `RoomsProofs` | theorems about `Rooms` | |
| `IqResponder` | what is answered to which IQ stanza, and what it does to the liveness state | `event_parser.go:83-492, 600-618`, go-xmpp `xmpp.go:1174-1361` |
| `IqProofs` | theorems about `IqResponder` | |
| `Config` | the search for a configuration, its checks and defaults, the transport | `read_config.go`, `main.go:36-108` |
| `ConfigProofs` | theorems about `Config` | |
| `LogPipe` | the copy of the stream in the log | `log.go`, `main.go:78-83` |
| `LogProofs` | theorems about `LogPipe` | |

### Session

A step is what a goroutine does between two blocking calls (a sleep, a network
read or write, a channel).  Goroutines are indexed by the generation that
started them; generation `g` has at most one `myLoop` (`loop[g]` is its program
counter), one probe, one `RedisLoop`, one `SigHandler`, and one `joinMuc` and
`RotateStatus` per room.  `EstablishConnection` is a path through the program
counters of the loop:

    reset -> guard (-> test) -> mark -> clear -> dial -> auth -> keepalive
          -> join -> flags -> up -> disco -> spawn -> poll <-> recv -> done

`connecting` and `IsConnected` have no lock, so each test and each write of one
is a step: the two operands of line 22 of `lib.go` are `guard` and `test`, the
writes of lines 27, 28, 52 and 53 are the steps from `mark`, `clear`, `flags` and
`up`.  The loops between 27 and 53 are those `Inside`; the history variable
`overtaken` says that line 27 was once reached with another one inside.

`ConnSlot` is what the flags do achieve, stated without the program: a slot that
somebody enters, marks, unmarks and leaves connected, or loses for good, and that
a second goroutine gets into only while the first is entering or leaving
(`contested`, from where nothing more is promised).  `ImplementsSlot` is the
refinement, over every interleaving of the tests and writes.

`StanzaWriter`, `conn` and `Talk` are kept apart on purpose: a client is the
number of its connection, `Talk = Blank` is `new(xmpp.Client)` and `Talk = Nil`
what a failed `NewClient` returns, so that a use of the wrong one is a step of
its own, `Crash`, whose cause `proc` records.  The tomb of an old generation
has no variable: nobody holds a pointer to it, since `GTomb` is a value that
`main` overwrites in place, and a goroutine started under the old value
returns into the new one.

Abstractions: an incoming stanza is one of the things it can do to the session: a
write that may fail, a kill of the tomb, a look at `Talk.JID()`, a presence of
the bot, or a failure of `Recv` while the socket is up (what it cannot decode, or
an answer of its own that it cannot write).  A write to a broken connection may
succeed or fail.  The probe may give its verdict on any connection, for `Session`
has no times; `ServerPing` has them.  `RoomsConnected` is a set.  Sleeps take any
time.  The stream negotiation is one step after the dial (`auth`), because in it
`StanzaWriter` is new and `Talk` still old.

### SettingsStore

One setting stands for the two of a room: the code treats them alike, and
they share the database.  `disk` is what pebble has on disk: `Set` with
`pebble.Sync` returns after the write, and ends the process if it cannot write,
so there is no failed write to model.  `Open` fails when this process holds the
directory already, or, with `OpenFails`, for reasons of the file system; with
`ReadFails` a `Get` may fail too, which `getSetting` reports as the empty
string, the same as no record.  A range over a Go map may or may not meet an entry added meanwhile (`Put`), and a
map read beside a write may end the process (`MapRace`).  `Kill` is a death
without the handler, at any point; `Restart` what the service manager does.

### ServerPing

Time is whole seconds as `time.Now().Unix()` gives them.  A sleep of `Delay`
seconds and a random part below `Splay` seconds ends at `Delay .. Delay + Splay`
by that clock.  `Answer` is how long an answer of a live server takes to reach the
receive loop, and `Answer < Delay` says that a ping is answered before the next
one.  The peer may fall silent for ever at any moment.

A live server may answer a ping in three ways, each an action: with a pong, with
an error that quotes the ping and comes from `Config.Jabber.Server`, which ends
the pings (`Refused`), and with any other error, which reaches
`event_parser.go:484-487` and changes nothing (`ErrorIgnored`).  Of a server that
answers in the last way the program makes a dead one: `lib.go:183` looks at the
pongs alone.  A list of features, of the server or of anybody who calls himself
one (`Features`, `event_parser.go:600-618`), turns the pings on, also after a
refusal, when the last pong may already be too old.  `NoFalseStall` therefore
speaks of a server whose last answer was a pong (`last`), whatever came before.
`since` is when the pings were last turned on.

### Rooms

One session, from `LoopReset` of `Session` on: what the bot keeps of its rooms
against who really is in them.  The rooms are the environment (the first half
of the module): they let the bot in or refuse it, people come, go, are promoted
and demoted, the bot is removed with or without a presence.  What they send
goes through one queue, `wire`, which the receive loop reads in order; whatever
they may do meanwhile is in the interleaving.  `renamed` is the part of the
configuration that matters here, and any.  An address is a pair of a room and a
nick, or a room alone, since which of the two is used decides whether a room is
ever pinged (`IdleRoomIsPinged`, `NeverPinged`).  An affiliation is "admin" (owner or admin) or "member"; a presence with
the role none has "out".  `plain` is an empty show and status, by which
`ParseEvent` takes a presence for the bot's own.  `verdicts` records, for the
last administrator's command, what `isMucAdmin` said and what the sender was
when it spoke.

Two loops over one roster (after a reconnect) are not modelled here; nor is the
rejoin at `event_parser.go:436-460`, which is the answer to a ping that is never
sent.

### Relay

A phrase goes through three queues: `wire`, what the server has sent and `Recv`
not returned; `brain`, what is published and not answered; and `queue[g]`, what
the `RedisLoop` of generation `g` has not read.  `Recv` is one message through
`ParseEvent` and `cmd()`: ignored, answered in the room, or published with the
flag `Misc.Answer` (`Asks`).  `RedisLoop(g)` is one message through
`redisMsgParser`.  A text is its form (what `cmd()` branches on) and the nicks it
contains, the two things the code looks at.  A room shows the bot what the bot
posts (`Shown`), always as the worst text: a command that names it.  The other
services (`Reply`, external) copy the fields of a phrase into the answer,
possibly with one missing.  `sent` and `posted` are history: to how many
subscriptions an answer went, and where it was posted; `faults` says that
something was lost.  The lists of plugins a room has switched off are in
`SettingsStore`; here a plugin may be off.

`Exchange` is the abstract specification of `Relay`: it has no connections, rooms
or queues, only the `stage` of a phrase (unsaid, said, asked, done), the answers
`owed` to subscriptions and those `given`.  `ImplementsExchange` is the
refinement: `stage` is where the phrase is in `Relay`, `owed` the number of queues
that hold an answer to it, `given` the copies posted.  So a phrase that the bot
has answered by itself is never published as well, none is published twice,
nothing brings a lost one back, and every post of a `RedisLoop` uses up one queued
answer.

### IqResponder

The last stanza of an endless stream, as `Recv` (external, with the stanzas
that go-xmpp answers or swallows) and `ParseEvent` treat it.  `Answer` is the
dispatch of `event_parser.go:83-492`, by the element in the stanza; `replies` is
what was sent back by both.  `IsPong` and `Refuses` are the two conditions under
which a stanza of the server changes what the liveness probe of `ServerPing` looks at,
`Announces` the one under which a stanza of anybody does: a result of disco#info
comes out of `Recv` as one, and the code does not look at who sent it (a TODO at
`event_parser.go:608`).  It can turn the pings on, never off.
`phase` and `tomb` are as much of a generation as matters here: the reset that
`myLoop` makes while a loop of the generation before still answers.

### Config

One step per location.  A file is what `ReadConfig` checks or completes: which
required strings and lists it has, `ssl`, `starttls`, `ssl_verify`, the port, a
delay, the rooms.  The strings with a default are one string (`csign`) and the
delays one delay, being treated alike.  `Outcome` are the checks in their order,
`Completed` the defaults, `Transport` what `main.go:92-108` and go-xmpp make of
the result.  The `~` of two of the four locations is never expanded, so that
there is never a file; the model allows one everywhere.

### LogPipe

`io.Pipe` (a write has a lock and returns when its bytes are read) and
`bufio.Scanner` (a buffer of `Limit`) are external; their user `readIoPipe` is
`Scan` and `TooLong`.  Bytes are units, a newline or a block without one.

The types of the variables of these four modules are stated beside them, and
proved where a theorem needs them.

## 3. What is checked

Passing runs (TLC explores every state of the instance):

| run | instance | properties | what it shows |
|---|---|---|---|
| `session_first` | 1 generation, 1 room, rotation, 1 MUC ping, SIGINT, fairness | `TombInv` (with `TypeOK` and `TombAccounting`), `FirstSessionCrashFree`, `InterruptExits` | no path of the first session forgets or doubles a tracked goroutine; only a write before the first stream panics; a delivered SIGINT ends the process |
| `session_overlap` | 2 generations, fairness | `WriterFollowsTalk`, `TombAccounting`, `ImplementsSlot`, `BrokenSessionRedials` | unless two loops were let in at a time, stanzas go to the connection that is read; the counter is off by exactly the inherited goroutines; the flags implement `ConnSlot`; a session that had connected and is ended, by its socket, a publish or the probe, is followed by a dial |
| `settings` | 2 rooms, 1 loop, 2 handlers, failing opens, kills, no failing reads, fairness | `TypeOK`, `OnIsStored`, `HandleKept`, `SettingsCrashFree`, `OnlyOffTurnsOff`, `InterruptEnds` | "on" is answered only if stored; a setting never goes off by itself; no handle is lost; when a command may panic; a taken signal ends the process |
| `ping` | delays 3, 1, 2; answer within 2; 30 seconds | `NoFalseStall`, `StallIsFound` | a server that answers, the last time with a pong, is not declared dead; a silent one is found in time |
| `rooms` | 1 room with either nick, 2 people | `TypeOK`, `RosterSettles`, `AdminRight`, `OwnRoomsKnown` | once its presences are read the roster is the room's; a command is judged by what its sender was; a room under the general nick becomes known |
| `relay` | 2 rooms with either nick, 1 other person, 1 phrase, 2 generations, fairness | `NoEcho`, `OnlyAsked`, `InPlace`, `OncePerSubscription`, `ImplementsExchange`, `AskedIsAnswered` | the bot does not talk to itself; in a room it answers what asks, there, once per subscription, and does answer while nothing is lost; it implements `Exchange` |
| `iq` | the server and 1 peer, 3 seconds, fairness | `AnswerCount`, `LastSinceStart`, `ProbeTrustsServer`, `AdvertisedIsAnswered` | one answer to a query, but two to a ping; seconds since 1970 only after a reset; only the server stops the pings or passes for a pong, while anybody's features may start them; what disco advertises is answered |
| `config` | 4 locations, up to 2 rooms, every combination of settings | `Sound`, `PortFitsTransport`, `FirstFileDecides` | what is loaded is complete; the default port fits the transport of a file without ssl and starttls both; the first file decides |
| `log` | 2 writers, a buffer of 3 units, fairness | `InOrder`, `StuckByLongLine`, `WriteReturns` | nothing is lost; a write returns until a line fills the buffer, and then none does |

Every property of these runs has a mutant in the module (an operator named
`X_SomeBug` beside `X`): with it in place of `X`, TLC finds the property
violated.

Three runs show a disagreement between the code and what the repository says:

| run | property | what the code does |
|---|---|---|
| `session_redial` | `FailureRedials` | after a failed `NewClient` (or first keepalive) `connecting` stays set and `IsConnected` clear; every later `EstablishConnection` returns nil at once, the bot never connects again |
| `session_fight` | `DialExclusive` | `globals.go:30` says that `connecting` is there against a fight over the connection; it is tested at `lib.go:22` and written at 27 and 52 without a lock, so a loop that tests it between the older loop's lines 52 and 53, or before its line 27, connects beside it |
| `rooms_pinged` | `IdleRoomIsPinged` | `globals.go:55-56` and `data/sample_config.json:49` say that a silent room is pinged; the last activity is noted under the address of a sender and looked up under that of the room, so none ever is |

Others are in the models as the code has them, most of them as the named
exception of a property that holds:

* Goroutines of an overwritten tomb count down the new one (`main.go:68`), which
  may close `Dead` while its own goroutines run, although `tomb.go:141-143` says
  that all tracked goroutines have returned then; the next `Go` panics.
  `TombAccounting` says by how much the counter is off.
* `IsConnected` is not cleared when a session ends, and a loop may read from the
  blank client of the next generation, which panics: `FirstSessionCrashFree`
  claims the first session only.
* The nil handle of a failed `pebble.Open` stays in the map
  (`settings-db-util.go:62, 73`), and the next use panics; for a room without a
  record one `admin oboobs` is enough, for it reads and then saves
  (`SettingsCrashFree`).
* The last activity is noted under the address of a sender and looked up under
  that of the room (`rooms_pinged`): no room is ever
  pinged, and a silent removal is never noticed (`NeverPinged`).  The rejoin
  at `event_parser.go:436-460`, which would answer such a ping, is therefore
  never reached, and would compare the wrong part of the address if it were.
* `Shutdown` is set before `IsConnected && !Shutdown` is tested
  (`SettingsStore!SigNetwork`), so the handler never closes the jabber
  connection, although `sighandler.go:11` says it does.
* The test of the server's last activity is commented out (`lib.go:155-159`), so
  `ServerPing` pings after every sleep, although `data/sample_config.json:46`
  says only after a quiet time.
* With `ssl` and `starttls` both set the default port is 5222 (`read_config.go:106`)
  and `main.go:96` with go-xmpp starts TLS with the first byte, while
  `data/sample_config.json:20` gives 5223 to bare ssl and 5222 to plain
  connections and starttls; `PortFitsTransport` claims nothing of such a file.
  `starttls` alone, which go-xmpp would do, is cleared; `ssl_verify` is cleared
  unless both are set (`read_config.go:121`), so TLS from the first byte is not
  verified.
* An error that answers a ping and does not quote it is neither a pong nor a
  refusal (`event_parser.go:484-487`), so a live server that sends it is declared
  dead; and a list of features of anybody undoes a refusal
  (`event_parser.go:608-616`), with the same end if the last pong is too old.
  `NoFalseStall` excepts a server whose last answer was an error.
* A negative `ping_splay_delay` gets through (`Sound` excludes zero, as the code
  does), and `rand.Int63n` panics on it at `lib.go:148`.  An empty list ends
  `ReadConfig` in a panic instead of a default (`Outcome`).
* The answer to a private phrase goes to the `From` of the message, which is the
  name of a Redis channel (`redis.go:128`): it reaches nobody (`InPlace`).
* The barman looks for a nick among full names `room/nick` (`commands.go:281`),
  so a drink for a nick is always refused.
* A ping is answered by go-xmpp and by `ParseEvent` (`AnswerCount`).

Small ones that no model has: the result of `slices.Compact` is dropped
(`event_parser.go:543`), so `RoomsConnected` grows by empty strings, which name
no room; a room whose features never arrive is joined after the timeout all the
same (`lib.go:89`), which `Rooms` and `Session` allow.

### Bounds

* `MaxGen`: one generation shows the program without overlap; with two, each of
  the tests and writes of the flags by a loop meets each of the other's, and a
  failure what follows it.  The theorems about the slot, the tomb and the first
  session cover every number.
* Constant `Rooms` of `Session`: one room in `session_first`.  Rooms do not interact in `Session`
  but by the tomb's counter; the runs about several generations leave them out
  and keep `RotateStatus("")`, which has the same failures.
* `MaxPings = 1`: a MUC ping only adds a goroutine to the counter and may meet
  a bad client.
* `SettingsStore`: two rooms, so that a handler closes one database while a
  command uses the other; two handlers, as after a reconnect, that race each
  other and the loop.  One loop, since with two `OnIsStored` and `HandleKept` are
  false (the hazards in `PROJECT.json` say so); what holds for any number of
  loops (`SettingsCrashFree`) is proved for it.
* Module `Rooms`: one room, since rooms share the stream and nothing else; two people,
  so that entries of a roster are edited in any order; nothing is sent while
  two stanzas are unread, so that a command may be behind a change of
  affiliation and a presence behind a removal (a room that lets the bot in
  sends its whole list at once, and may go over by it).
* `Relay`: one phrase of somebody else, since phrases meet only in queues, which
  keep their order; two rooms, so that an answer could go to the wrong one, each
  under either nick; two generations, so that two loops read one channel.  The
  proofs cover any number of each.
* `IqResponder`: every type, element and class of id; one stanza is kept at a
  time, for an answer depends on nothing older but `LastActivity`.
  `Horizon = 3` is before, at and after a phrase or a connection.
* `Config`: every combination at each of four locations; a list of rooms of
  length 0, 1 and 2; one given and one missing value of the rest.
* `LogPipe`: writes (`MaxChunk = 2`) shorter than the buffer (`Limit = 3`), so
  that a full line is made of several writes; `MaxUnits = 6` is two full
  buffers.
* `Horizon = 30` is six to ten sleeps, and twice the timeout (12) twice over;
  the proofs cover every value.

`CHECK_DEADLOCK FALSE` is set for `Session` (the process may end) and for
`ServerPing` (its clock stops at the horizon) and for `Rooms` (nobody has to do
anything).  So it is for `Relay`, whose phrases are bounded, `Config`, which
loads once, and `LogPipe`, whose units are bounded and where a stuck scanner
stops everything.  `SettingsStore` restarts and `IqResponder` goes on, and in
both deadlock is checked.

### Fairness

`FairSpec` of `Session` assumes weak fairness of `main`, of every receive loop,
every probe and every signal handler: the Go scheduler runs a goroutine that
can run, and a sleep ends.  The step of the stream negotiation is among them
only while the connection is `up` or `broken`: a stalled one may hold the loop
for ever, as in the code, where nothing has a deadline.  Nothing is assumed of
stanzas, Redis messages, failures or signals, and nothing of the goroutines
whose progress no property needs.  `SettingsStore` assumes only that a signal
handler that took a signal is scheduled; `IqResponder` only that the receive
loop is, and `Rooms` that the receive loop and the probe of the rooms are, which
only `rooms_pinged` needs: without it nothing would have to be pinged.  `Relay` assumes that the receive loop and every
`RedisLoop` are scheduled and that the services answer in the end.  `LogPipe`
assumes that `readIoPipe` and a writer that has been read go on, and strong
fairness of the lock of the pipe, a Go mutex, which does not starve a waiter.

## 4. What is proved

TLAPS checks these for every value of the constants.

| theorem | statement | assumes |
|---|---|---|
| `SessionProofs!TypeCorrect` | `Spec => []TypeOK` | |
| `SessionProofs!TombCorrect` | `Spec => []TombInv` | |
| `SessionProofs!Accounted` | `Spec => []TombAccounting` | |
| `SessionProofs!FirstCorrect` | `Spec => []FirstInv` | |
| `SessionProofs!FirstIsSpared` | `Spec => []FirstSessionCrashFree` | |
| `SessionProofs!SlotCorrect` | `Spec => []SlotInv` | |
| `SessionProofs!WriterFollows` | `Spec => []WriterFollowsTalk` | |
| `SessionProofs!Implements` | `Spec => ImplementsSlot`, that is `Slot!SlotSpec` | |
| `ServerPingProofs!TypesHold` | `Spec => []TypeOK` | |
| `ServerPingProofs!NeverFalse` | `Spec => []NoFalseStall` | |
| `ServerPingProofs!AlwaysFound` | `Spec => []StallIsFound` | |
| `RelayProofs!NeverEchoes` | `Spec => []NoEcho` | |
| `RelayProofs!AnswersAsked` | `Spec => []OnlyAsked` | |
| `RelayProofs!AnswersInPlace` | `Spec => []InPlace` | |
| `RelayProofs!OncePerLoop` | `Spec => []OncePerSubscription` | |
| `RelayProofs!Implements` | `Spec => ImplementsExchange`, that is `Exchange!ExchangeSpec` | |
| `IqProofs!AnsweredOnce` | `Spec => []AnswerCount` | |
| `IqProofs!ToldSinceStart` | `Spec => []LastSinceStart` | |
| `IqProofs!OnlyServerTrusted` | `Spec => ProbeTrustsServer` | |
| `ConfigProofs!LoadedIsSound` | `Spec => []Sound` | |
| `ConfigProofs!PortFits` | `Spec => []PortFitsTransport` | |
| `ConfigProofs!FirstDecides` | `Spec => FirstFileDecides` | |
| `RoomsProofs!TypesHold` | `Spec => []TypeOK` | |
| `RoomsProofs!RostersSettle` | `Spec => []RosterSettles` | |
| `RoomsProofs!AdminsObeyed` | `Spec => []AdminRight` | |
| `RoomsProofs!OwnRoomsListed` | `Spec => []OwnRoomsKnown` | |
| `RoomsProofs!NeverPinged` | `Spec => [](pinged = {} /\ \A r \in Rooms : Bare(r) \notin LastMucActivity)` | |
| `SettingsProofs!TypesHold` | `Spec => []TypeOK` | |
| `SettingsProofs!CrashesExplained` | `Spec => []SettingsCrashFree` | |
| `SettingsProofs!OnIsTrue` | `Spec => []OnIsStored` | `OneLoop` |
| `SettingsProofs!HandlesKept` | `Spec => []HandleKept` | `OneLoop` |
| `SettingsProofs!OffTurnsOff` | `Spec => OnlyOffTurnsOff` | `OneLoop`, `~ReadFails` |
| `LogProofs!NothingLost` | `Spec => []InOrder` | |
| `LogProofs!OnlyLongLinesStop` | `Spec => []StuckByLongLine` | |

besides the named assumptions on the constants (`SessionAssumption` and so on),
which TLC evaluates.

*Session.*  What the flags are depends on where the loops are, and the invariant
says how (`Place`): a loop past line 27 has set `connecting`, one that dials has
cleared `IsConnected` as well, so that the test at `lib.go:22` refuses everybody
else; one at line 53 has `IsConnected` still clear; and from the start of the
stream `StanzaWriter` is the connection of that loop, and `Talk` its client or
the blank one of a later turn of `main`.  Each of these is true only while one
loop at most is inside, and nothing in the code keeps a second one out before
line 27 or after line 52; so `SlotInv` says them until `overtaken`, the moment at
which somebody does get in (`SlotEnter`).  `DialExclusive` is a part of what holds
until then, and false after it, which is what `session_fight` shows.  The proof
has one step per action; the actions that touch neither flags nor clients are
handled together (`SlotFrame`, `SlotMove`).  For `Implements`, `phase` and `owner`
are first shown to be functions of who is inside (`SlotShown`), then every step is
an `Enter`, `Mark`, `Unmark`, `Connect`, `Lose` or `Contest` of the slot, or leaves
both alone (`LoopShows`, `StepShows`).  Nothing is assumed of the scheduler.

*The tomb.*  `TombAccounting` equates a counter with the size of six sets of
goroutines, and is not inductive either: a `Go` adds one to the counter, and one
to the sets only if the goroutine it starts was not running.  `SpawnInv` says
why it was not: where `main` is tells what of its generation is still to be
started (`Fresh`), and where a loop is, what that loop has not started yet
(`Stages`); a join starts the rotation of its room as its last act, and the MUC
pings are only a number.  Then every action is one of three: it moves
nobody in or out (`NoneMoves`), it starts one goroutine and counts it, or one
ends and is counted off (`Tally`, `TombCounts`, `ReturnCounts`; `OneMoves` and
the `Count` lemmas are the cardinalities).  `inherited` is what makes the
equation survive `main.go:68`, where the counter starts anew and the sets do
not.

*The first session.*  `FirstInv` is built on it.  The signal handler of the first
turn never returns, so by `TombAccounting`, with nothing inherited, the counter
is at least 1 for as long as the turn lasts; a tomb dies when its counter
becomes 0, so it does not, and no `Go` panics (`HandlerCounts`, `StaysAlive`).
`FirstClient` says that whatever uses the client was started by the loop after
it had one (`Quiet` until then), and that before the second turn nobody takes
it away: only `NewClient` assigns `Talk`, and it fails before anything was
started.  Neither argument holds from the second turn on, which is where
`FirstSessionCrashFree` ends and the panics of the list above begin.  The proof
assumes nothing of the rooms or of the pings.

*ServerPing.*  The answers of a live server are never overdue, and a ping is
answered before the next wake-up (`InTime`).  So at a wake-up of a server whose
last answer was a pong, either that pong answered the last ping and the probe has
slept once since, or no ping was sent yet (`LastPong`); both are within twice the
timeout.  If the last answer was an error nothing of the kind holds, and nothing
is claimed.  `Bounded` says until when the probe can sleep, counted from the last
pong or from when the pings were turned on, which is `StallIsFound`.

*Relay.*  `RInv` says of everything on its way that it is about a phrase that
was said: `wire` holds phrases and what the bot posted, marked by the nick the
bot has there (which is why `Own` recognises it, and why `NoEcho` is not
inductive alone); `brain` holds their `Message`, the queues answers to those.
Reading from a queue keeps it there, speaking only adds to what is possible
(`Growing`), and the one step that posts does so to an admissible address
(`PostKeeps`, `ValidAdmissible`).

`OncePerSubscription` needs to know where a phrase is.  `Counted(i)` says it: phrase
`i` is on the wire, or with the services, or waits in the queues, in this order
and never in two of these places, and what was posted of it and what still waits
are together no more than what was sent.  `Singles` says that no place has it
twice, so that the head a loop takes is the only one there: taking it makes the
set of queues in which it waits (`Waiting`) smaller by one, and pays for the post
that may follow.  An answer that `cmd()` gives at once is posted from the wire,
where nothing was sent and nothing posted.  TLC checked `OnceInv` on the instance
of `relay` and on one of two phrases before it was proved.

The refinement rests on the same invariant.  Each step of `Relay` moves one
phrase or none (`DiffersAt`, `SameFunction`), except that a connection that breaks
or is replaced loses every phrase on the wire at once (`Forget`).  That the bot's
own posts go onto the same wire changes nothing, as they are about no phrase;
`Singles` makes the head of a wire or a queue the only place of its phrase, so
that what is read there is done with, or one answer less is owed; and `Counted`
makes a phrase that the services answer one that waits in no queue yet, so that
what is owed then is the number of subscriptions.

*Rooms.*  `RosterSettles` and `AdminRight` say what holds when the stream has
been read, and the invariant has to say it of a stream that has not.  `Told(w,
roster, r, n, k, a)` is that: once the first `k` stanzas of `w` are read, the
roster of `r` says that `n` is `a`, by the last presence of `n` among them, or,
if there is none, by what the roster says already.  `Consistent` is `Told` of
the whole stream for everybody in a room the bot is in; `Commands` is `Told` of
what precedes each command on the stream, for its sender.  Sending keeps them
(`ToldLater`, `ToldNew`), and so does reading, whatever the stanza is and
whichever room it is of (`ToldTail`, `CommandsTail`); when a command is read
first, what precedes it is the roster.  `Before` says that the bot hears
nothing of a room before it is let in, so that the presences it gets then fill
an empty roster; `Known` that its own presence has been read or will be.  Being
admitted is the one step that adds many stanzas (`PresentedAll`, `AdmitKeeps`).

*SettingsStore.*  `SInv` holds for any number of loops: a call is the one its
command makes (`Calls`), a loop that uses a database found it in the map
(`Mapped`), and only a handler closes one (`Closers`).  The rest needs
`OneLoop`, that all elements of `Loops` are equal: two loops may both find a
room absent, the second `pebble.Open` fails over the first, and its nil takes
the place of the only handle.  With one, what is being opened is absent and not
held (`Opening`), and "admin oboobs" stores its default over nothing
(`Defaults`), unless a read failed.

*IqResponder.*  `LastActivity` is at least 1 while the flags are set; what was
told is what it was then.  `AnswerCount` is inductive: a stanza takes its replies
with it, and what Recv writes (`Library`) and what `ParseEvent` writes (`Answer`)
is one reply each at most, the second only to a query (`ShortReplies`,
`RoundArrives`).  `ProbeTrustsServer` needs of the invariant only that
`pings` is a Boolean: of the steps that change it or the last pong, `Connected` and
`Reset` change the phase or the tomb, `Parse` does so for a stanza of the server
(`IsPong`, `Refuses`), and `RecvKeeps` only turns the pings on.

*Config.*  `CInv`: the configuration is the completed file and the search is
over.  The rest is about one file (`LoadedHas`, `NicksComplete`,
`CompletedSound`, `CompletedPort`), whatever is in it.

*LogPipe.*  `LogInv` adds to `InOrder` that one goroutine has the pipe and that
the unfinished line has no newline; so a full buffer is a run of `Limit` blocks
in what was written (`FullLine`), which stays one (`LongerLine`).

*Only model-checked.*  The liveness properties (`InterruptExits`,
`BrokenSessionRedials`, `InterruptEnds`, `AskedIsAnswered`,
`AdvertisedIsAnswered`, `WriteReturns`), which are beyond TLAPS, as is
`ENABLED`.  So are the three properties that the code does not have
(`FailureRedials`, `DialExclusive`, `IdleRoomIsPinged`), for which TLC has the
counterexample.  Every invariant, every action property and both refinements that
a passing run checks is stated by a theorem of the table.

## 5. Not modelled, and the plan

| order | module | what it will say |
|---|---|---|
| 1 | `Rooms` | two loops over one roster, as after a reconnect |
| 2 | `SettingsProofs` | what remains true of the settings with two loops |

Left out for good: the wrappers around the logger and the collections (no
behaviour of their own), the XML parser and the stream negotiation of go-xmpp,
pebble and the Redis client except for what their callers can observe, the texts
of answers; stanzas that a service sends from a bare address where an occupant's
is expected (`event_parser.go:38, 444, 529`), on which the program panics.
