---------------------------- MODULE SettingsStore ----------------------------
(***************************************************************************)
(* The per-room settings: cmd() runs the admin commands of a room in the   *)
(* receive loop (internal/jabber/commands.go:134-233), getSetting and      *)
(* saveSetting open the pebble database of the room on first use and keep  *)
(* it in the map settingsDB (settings-db-util.go), and SigHandler closes   *)
(* what is in the map before it exits (sighandler.go).                     *)
(*                                                                         *)
(* One setting stands for the two that a room's database holds.  Loops are *)
(* the receive loops that run: one, and one more for each generation that  *)
(* main() left behind (module Session); Handlers likewise.  A database is  *)
(* pebble's: one open handle per directory, a panic when a nil or a closed *)
(* one is used, writes on disk when they return, for a commit that fails   *)
(* ends the process (Kill).  A step is what runs between two accesses to   *)
(* the map, the disk or the network; the map has no lock, and the Go       *)
(* runtime may end the process when an access meets a write.               *)
(***************************************************************************)
CONSTANTS
  Chats,        \* the rooms
  Loops,        \* the receive loops
  Handlers,     \* the signal handlers
  OpenFails,    \* pebble.Open may fail for a reason of the file system
  ReadFails,    \* and so may Get of an open database
  Connected     \* IsConnected when the signal comes

ASSUME SettingsAssumption ==
  Chats # {} /\ Loops # {} /\ {OpenFails, ReadFails, Connected} \subseteq BOOLEAN

VARIABLES
  disk,         \* what the database of a room holds, "" for no record
  settingsDB,   \* the map
  held,         \* the directories this process holds pebble's lock on
  job,          \* per loop, the command it runs and where in it it is
  sig, left,    \* per handler, where it is and the map entries still to close
  Shutdown,
  Subscriber, Talk,   \* "open" or "closed"
  proc          \* "up", "exited", "killed", or why it panicked

mapVars == <<settingsDB, held>>
sigVars == <<sig, left, Shutdown, Subscriber, Talk>>
rest    == <<disk, mapVars, job, sigVars>>
vars    == <<rest, proc>>

Commands == {"show", "on", "off", "use"}
Idle     == [pc |-> "idle"]

Init ==
  /\ disk = [c \in Chats |-> ""]
  /\ settingsDB = [c \in Chats |-> "absent"] /\ held = {}
  /\ job = [l \in Loops |-> Idle]
  /\ sig = [h \in Handlers |-> "range"] /\ left = [h \in Handlers |-> {}]
  /\ Shutdown = FALSE /\ Subscriber = "open" /\ Talk = "open"
  /\ proc = "up"

Crash(cause) == proc' = cause /\ UNCHANGED rest

-----------------------------------------------------------------------------
(***************************************************************************)
(* A command in a receive loop                                             *)
(***************************************************************************)

At(l, here)  == job[l].pc = here
Go(l, there) == job' = [job EXCEPT ![l] = there]

\* Somebody else is about to assign to the map.
MapBusy(l) == \E k \in Loops \ {l} : At(k, "put")
MapRace(l) == MapBusy(l) /\ Crash("mapRace")

\* What a command calls first: getSetting, or saveSetting of a value.
Call(cmd) == CASE cmd = "on" -> "1" [] cmd = "off" -> "0" [] OTHER -> "get"

Command(l) ==
  /\ At(l, "idle")
  /\ \E m \in Commands, c \in Chats :
       Go(l, [pc |-> "look", cmd |-> m, chat |-> c, call |-> Call(m)])
  /\ UNCHANGED <<disk, mapVars, sigVars, proc>>

\* Its call goes on, with what pebble.Open returned in the last case.
Doing(l, there) ==
  Go(l, [pc |-> there, cmd |-> job[l].cmd, chat |-> job[l].chat, call |-> job[l].call])
Opened(l, db) ==
  Go(l, [pc |-> "put", cmd |-> job[l].cmd, chat |-> job[l].chat, call |-> job[l].call, db |-> db])

\* Mutants: the map is not consulted; saveSetting takes the database for open.
Look_Never(l) ==
  /\ At(l, "look") /\ Doing(l, "open")
  /\ UNCHANGED <<disk, mapVars, sigVars, proc>>

Look_SaveOpened(l) ==
  /\ At(l, "look")
  /\ \/ MapRace(l)
     \/ /\ Doing(l, IF job[l].call = "get" /\ settingsDB[job[l].chat] = "absent"
                    THEN "open" ELSE "data")
        /\ UNCHANGED <<disk, mapVars, sigVars, proc>>

\* if _, ok := settingsDB[database]; !ok
Look(l) ==
  /\ At(l, "look")
  /\ \/ MapRace(l)
     \/ /\ Doing(l, IF settingsDB[job[l].chat] = "absent" THEN "open" ELSE "data")
        /\ UNCHANGED <<disk, mapVars, sigVars, proc>>

\* pebble.Open: an error if this process has the directory open already.
OpenDB(l) ==
  /\ At(l, "open")
  /\ LET c == job[l].chat IN
       \/ /\ c \notin held
          /\ held' = held \cup {c}
          /\ Opened(l, "open")
       \/ /\ OpenFails \/ c \in held
          /\ Opened(l, "nil")
          /\ UNCHANGED held
  /\ UNCHANGED <<disk, settingsDB, sigVars, proc>>

\* Mutants: the error of saveSetting is ignored; the default is stored
\* whenever the setting is not off.
OnAnswer_Blind(got) == "on"
NoRecord_NotOff(got) == got \in {"", "1"}

\* cmd() after saveSetting(room, ..., "1"), and the case "" of its switch.
OnAnswer(got) == IF got = "error" THEN "stillOff" ELSE "on"
NoRecord(got) == got = ""

\* What cmd() does with the result of its call: `got' is a value, or "error".
Answer(l, got) ==
  LET j == job[l]
      Say(a) == [pc |-> "reply", cmd |-> j.cmd, chat |-> j.chat, answer |-> a]
  IN CASE j.cmd = "on"  -> Say(OnAnswer(got))
       [] j.cmd = "off" -> Say("off")
       [] j.cmd = "use" -> Say(IF got = "1" THEN "forwarded" ELSE "none")
       [] j.cmd = "show" /\ j.call = "get" /\ NoRecord(got) ->
            [pc |-> "look", cmd |-> j.cmd, chat |-> j.chat, call |-> "0"]
       [] OTHER -> Say(IF got = "1" THEN "on" ELSE "off")

\* The assignment to the map, of nil too; after a failure getSetting returns
\* "" and saveSetting the error.  A range over the map that is under way may
\* meet the new entry or not.
Put(l) ==
  /\ At(l, "put")
  /\ \/ MapRace(l)
     \/ /\ settingsDB' = [settingsDB EXCEPT ![job[l].chat] = job[l].db]
        /\ IF job[l].db = "open"
           THEN Doing(l, "data")
           ELSE Go(l, Answer(l, IF job[l].call = "get" THEN "" ELSE "error"))
        /\ \E S \in SUBSET {h \in Handlers : sig[h] = "dbs"} :
             left' = [h \in Handlers |->
                        IF h \in S /\ settingsDB[job[l].chat] = "absent"
                        THEN left[h] \cup {job[l].chat} ELSE left[h]]
        /\ UNCHANGED <<disk, held, sig, Shutdown, Subscriber, Talk, proc>>

\* Mutant: the value and the name of the setting are swapped.
StoreKV_Swapped(c, v) == disk' = [disk EXCEPT ![c] = "oboobs"]

StoreKV(c, v) == disk' = [disk EXCEPT ![c] = v]

\* FetchV returns "" for no record, and for a read that failed.
FetchV(c) == IF ReadFails THEN {disk[c], ""} ELSE {disk[c]}

\* FetchV or StoreKV of what the map holds now.
Data(l) ==
  /\ At(l, "data")
  /\ LET c == job[l].chat IN
       \/ MapRace(l)
       \/ settingsDB[c] \in {"absent", "nil"} /\ Crash("nilDB")
       \/ settingsDB[c] = "closed" /\ Crash("closedDB")
       \/ /\ settingsDB[c] = "open"
          /\ IF job[l].call = "get"
             THEN (\E got \in FetchV(c) : Go(l, Answer(l, got))) /\ UNCHANGED disk
             ELSE Go(l, Answer(l, "ok")) /\ StoreKV(c, job[l].call)
          /\ UNCHANGED <<mapVars, sigVars, proc>>

\* The answer goes to the room, or the message to Redis.
Reply(l) ==
  /\ At(l, "reply") /\ Go(l, Idle)
  /\ UNCHANGED <<disk, mapVars, sigVars, proc>>

LoopStep(l) == Command(l) \/ Look(l) \/ OpenDB(l) \/ Put(l) \/ Data(l) \/ Reply(l)

-----------------------------------------------------------------------------
(***************************************************************************)
(* SIGINT                                                                  *)
(***************************************************************************)

SigTo(h, here, there) == sig[h] = here /\ sig' = [sig EXCEPT ![h] = there]

SigTake(h) ==
  /\ SigTo(h, "range", "redis") /\ Shutdown' = TRUE
  /\ UNCHANGED <<disk, mapVars, job, left, Subscriber, Talk, proc>>

\* Unsubscribe and Close; their errors are logged.
SigRedis(h) ==
  /\ SigTo(h, "redis", "network") /\ Subscriber' = "closed"
  /\ UNCHANGED <<disk, mapVars, job, left, Shutdown, Talk, proc>>

\* if IsConnected && !Shutdown { ... Talk.Close() }, with Shutdown set since
\* SigTake: the handler closes no connection to the jabber server.
SigNetwork(h) ==
  /\ SigTo(h, "network", "list")
  /\ Talk' = IF Connected /\ ~Shutdown THEN "closed" ELSE Talk
  /\ UNCHANGED <<disk, mapVars, job, left, Shutdown, Subscriber, proc>>

\* for _, db := range settingsDB
SigList(h) ==
  /\ sig[h] = "list"
  /\ \/ /\ (\E l \in Loops : At(l, "put")) /\ Crash("mapRace")
     \/ /\ SigTo(h, "list", "dbs")
        /\ left' = [left EXCEPT ![h] = {c \in Chats : settingsDB[c] # "absent"}]
        /\ UNCHANGED <<disk, mapVars, job, Shutdown, Subscriber, Talk, proc>>

\* Close of the next database in it: it panics on nil and on a closed one.
SigClose(h) ==
  /\ sig[h] = "dbs"
  /\ \E c \in left[h] :
       \/ (\E l \in Loops : At(l, "put")) /\ Crash("mapRace")
       \/ settingsDB[c] = "nil" /\ Crash("nilDB")
       \/ settingsDB[c] = "closed" /\ Crash("closedDB")
       \/ /\ settingsDB[c] = "open"
          /\ settingsDB' = [settingsDB EXCEPT ![c] = "closed"]
          /\ held' = held \ {c}
          /\ left' = [left EXCEPT ![h] = @ \ {c}]
          /\ UNCHANGED <<disk, job, sig, Shutdown, Subscriber, Talk, proc>>

\* Mutant: the handler waits for the next signal instead of os.Exit.
SigExit_Goes(h) ==
  /\ left[h] = {} /\ SigTo(h, "dbs", "range")
  /\ UNCHANGED <<disk, mapVars, job, left, Shutdown, Subscriber, Talk, proc>>

SigExit(h) ==
  /\ sig[h] = "dbs" /\ left[h] = {}
  /\ proc' = "exited" /\ UNCHANGED rest

SigStep(h) == SigRedis(h) \/ SigNetwork(h) \/ SigList(h) \/ SigClose(h) \/ SigExit(h)

-----------------------------------------------------------------------------
(***************************************************************************)
(* The process dies, of a SIGTERM or of a panic elsewhere, and the service *)
(* starts it again over the same directories.                              *)
(***************************************************************************)

Kill == proc' = "killed" /\ UNCHANGED rest

Restart ==
  /\ proc # "up" /\ proc' = "up"
  /\ settingsDB' = [c \in Chats |-> "absent"] /\ held' = {}
  /\ job' = [l \in Loops |-> Idle]
  /\ sig' = [h \in Handlers |-> "range"] /\ left' = [h \in Handlers |-> {}]
  /\ Shutdown' = FALSE /\ Subscriber' = "open" /\ Talk' = "open"
  /\ UNCHANGED disk

Next ==
  \/ /\ proc = "up"
     /\ \/ \E l \in Loops : LoopStep(l)
        \/ \E h \in Handlers : SigTake(h) \/ SigStep(h)
        \/ Kill
  \/ Restart

Spec == Init /\ [][Next]_vars

\* A handler that took a signal is scheduled.  Nothing is assumed of the
\* loops, the users or the service manager.
FairSpec == Spec /\ \A h \in Handlers : WF_vars(proc = "up" /\ SigStep(h))

-----------------------------------------------------------------------------
(***************************************************************************)
(* Properties                                                              *)
(***************************************************************************)

Jobs ==
  {Idle}
  \cup [pc : {"look", "open", "data"}, cmd : Commands, chat : Chats, call : {"get", "0", "1"}]
  \cup [pc : {"put"}, cmd : Commands, chat : Chats, call : {"get", "0", "1"},
        db : {"open", "nil"}]
  \cup [pc : {"reply"}, cmd : Commands, chat : Chats,
        answer : {"on", "off", "stillOff", "forwarded", "none"}]

\* Type invariant; the disk holds the values that the commands store.
TypeOK ==
  /\ disk \in [Chats -> {"", "0", "1"}]
  /\ settingsDB \in [Chats -> {"absent", "nil", "open", "closed"}]
  /\ held \subseteq Chats
  /\ job \in [Loops -> Jobs]
  /\ sig \in [Handlers -> {"range", "redis", "network", "list", "dbs"}]
  /\ left \in [Handlers -> SUBSET Chats]
  /\ Shutdown \in BOOLEAN
  /\ {Subscriber, Talk} \subseteq {"open", "closed"}
  /\ proc \in {"up", "exited", "killed", "mapRace", "nilDB", "closedDB"}

\* "Plugin on" is answered only when the setting is stored as on, whatever
\* failed on the way (commands.go:140-162).
OnIsStored == \A l \in Loops :
  At(l, "reply") /\ job[l].answer \in {"on", "forwarded"} => disk[job[l].chat] = "1"

\* A setting goes from on to off by an off command only: the default that
\* "admin oboobs" stores when it reads nothing never replaces an answer to
\* somebody else's "on", if no read fails.
OnlyOffTurnsOff ==
  [][\A c \in Chats : disk[c] = "1" /\ disk'[c] # "1" =>
       \E l \in Loops : At(l, "data") /\ job[l].cmd = "off" /\ job[l].chat = c]_vars

\* The map never loses the only handle to a directory the process holds.
HandleKept == \A c \in held :
  settingsDB[c] = "open" \/ \E l \in Loops : At(l, "put") /\ job[l].chat = c

\* Using a setting panics only on a database of this map that failed to open
\* before, or that the handler closed first.
SettingsCrashFree ==
  /\ proc = "nilDB" => \E c \in Chats : settingsDB[c] = "nil"
  /\ ~Shutdown => proc # "closedDB"

\* A signal that was taken ends the process.
InterruptEnds == \A h \in Handlers : sig[h] # "range" ~> proc # "up"
=============================================================================
