---------------------------- MODULE SettingsProofs ----------------------------
(***************************************************************************)
(* The settings for any number of rooms and handlers: what holds whatever  *)
(* loops there are, and what holds while one receive loop runs.            *)
(***************************************************************************)
EXTENDS SettingsStore, TLAPS

-----------------------------------------------------------------------------
(***************************************************************************)
(* The inductive invariants                                                *)
(***************************************************************************)

\* A call is the first of its command, or the default that "admin oboobs"
\* stores.
Sound(j) == j.pc \in {"look", "open", "put", "data"} =>
  \/ j.cmd = "on" /\ j.call = "1"
  \/ j.cmd = "off" /\ j.call = "0"
  \/ j.cmd = "use" /\ j.call = "get"
  \/ j.cmd = "show" /\ j.call \in {"get", "0"}

Calls == \A l \in Loops : Sound(job[l])

\* Nothing leaves the map while the process lives.
Mapped ==
  /\ \A l \in Loops : At(l, "data") => settingsDB[job[l].chat] # "absent"
  /\ \A h \in Handlers : \A c \in left[h] : settingsDB[c] # "absent"

\* Only a handler closes databases.
Closers ==
  /\ \A h \in Handlers : sig[h] # "range" => Shutdown
  /\ \A c \in Chats : settingsDB[c] = "closed" => Shutdown

SInv == TypeOK /\ Calls /\ Mapped /\ Closers /\ SettingsCrashFree

\* The process has one receive loop, as it does until a tomb dies.
OneLoop == \A k, l \in Loops : k = l

\* If no read fails the default is stored over nothing, or the call ends in a
\* panic.
Defaults == ~ReadFails => \A l \in Loops :
  job[l].pc \in {"look", "open", "put", "data"} /\ job[l].cmd = "show" /\ job[l].call = "0" =>
    disk[job[l].chat] = "" \/ settingsDB[job[l].chat] = "nil"

\* What is being opened is not in the map, and pebble refused it only if the
\* process has no handle to it.
Opening == \A l \in Loops :
  /\ job[l].pc \in {"open", "put"} => settingsDB[job[l].chat] = "absent"
  /\ At(l, "put") /\ job[l].db = "nil" => job[l].chat \notin held

OneInv == SInv /\ Defaults /\ Opening /\ OnIsStored /\ HandleKept

-----------------------------------------------------------------------------
(***************************************************************************)
(* Lemmas about jobs                                                       *)
(***************************************************************************)

LEMMA JobFields ==
  ASSUME NEW j \in Jobs
  PROVE  /\ j.pc \in {"idle", "look", "open", "put", "data", "reply"}
         /\ j.pc \in {"look", "open", "put", "data"} =>
              j.cmd \in Commands /\ j.chat \in Chats /\ j.call \in {"get", "0", "1"}
         /\ j.pc = "put" => j.db \in {"open", "nil"}
         /\ j.pc = "reply" => j.chat \in Chats
BY DEF Jobs, Idle

LEMMA Goes ==
  ASSUME NEW l \in Loops, NEW there \in Jobs
  PROVE  TypeOK /\ Go(l, there) =>
           /\ job' \in [Loops -> Jobs] /\ job'[l] = there
           /\ \A k \in Loops \ {l} : job'[k] = job[k]
BY DEF TypeOK, Go

\* A call goes on for the same command.
LEMMA Does ==
  ASSUME NEW l \in Loops, NEW pc \in {"look", "open", "data"},
         TypeOK, job[l].pc \in {"look", "open", "put", "data"}, Doing(l, pc)
  PROVE  /\ job' \in [Loops -> Jobs] /\ \A k \in Loops \ {l} : job'[k] = job[k]
         /\ job'[l].pc = pc /\ job'[l].cmd = job[l].cmd /\ job'[l].chat = job[l].chat
         /\ job'[l].call = job[l].call
<1> DEFINE there == [pc |-> pc, cmd |-> job[l].cmd, chat |-> job[l].chat, call |-> job[l].call]
<1>1. job[l].cmd \in Commands /\ job[l].chat \in Chats /\ job[l].call \in {"get", "0", "1"}
  BY JobFields DEF TypeOK
<1>2. there \in [pc : {"look", "open", "data"}, cmd : Commands, chat : Chats, call : {"get", "0", "1"}]
  BY <1>1
<1>3. there \in Jobs
  BY <1>2 DEF Jobs
<1>4. /\ there.pc = pc /\ there.cmd = job[l].cmd /\ there.chat = job[l].chat
      /\ there.call = job[l].call
  OBVIOUS
<1>5. Go(l, there)
  BY DEF Doing
<1> HIDE DEF there
<1>6. QED
  BY <1>3, <1>4, <1>5, Goes

LEMMA Opens ==
  ASSUME NEW l \in Loops, NEW db \in {"open", "nil"}, TypeOK, At(l, "open"), Opened(l, db)
  PROVE  /\ job' \in [Loops -> Jobs] /\ \A k \in Loops \ {l} : job'[k] = job[k]
         /\ job'[l].pc = "put" /\ job'[l].cmd = job[l].cmd /\ job'[l].chat = job[l].chat
         /\ job'[l].call = job[l].call /\ job'[l].db = db
<1> DEFINE there == [pc |-> "put", cmd |-> job[l].cmd, chat |-> job[l].chat,
                     call |-> job[l].call, db |-> db]
<1>1. job[l].cmd \in Commands /\ job[l].chat \in Chats /\ job[l].call \in {"get", "0", "1"}
  BY JobFields DEF TypeOK, At
<1>2. there \in [pc : {"put"}, cmd : Commands, chat : Chats, call : {"get", "0", "1"},
                 db : {"open", "nil"}]
  BY <1>1
<1>3. there \in Jobs
  BY <1>2 DEF Jobs
<1>4. /\ there.pc = "put" /\ there.cmd = job[l].cmd /\ there.chat = job[l].chat
      /\ there.call = job[l].call /\ there.db = db
  OBVIOUS
<1>5. Go(l, there)
  BY DEF Opened
<1> HIDE DEF there
<1>6. QED
  BY <1>3, <1>4, <1>5, Goes

LEMMA ReplyIsJob ==
  ASSUME NEW cmd \in Commands, NEW c \in Chats,
         NEW a \in {"on", "off", "stillOff", "forwarded", "none"}
  PROVE  LET j == [pc |-> "reply", cmd |-> cmd, chat |-> c, answer |-> a]
         IN  j \in Jobs /\ j.pc = "reply" /\ j.chat = c /\ j.answer = a
BY DEF Jobs

LEMMA DefaultIsJob ==
  ASSUME NEW c \in Chats
  PROVE  LET j == [pc |-> "look", cmd |-> "show", chat |-> c, call |-> "0"]
         IN  j \in Jobs /\ j.pc = "look" /\ j.cmd = "show" /\ j.chat = c /\ j.call = "0"
BY DEF Jobs, Commands

\* What a command does with the result of its call.
LEMMA Answers ==
  ASSUME NEW l \in Loops, NEW got, TypeOK, Sound(job[l]), job[l].pc \in {"put", "data"}
  PROVE  /\ Answer(l, got) \in Jobs /\ Answer(l, got).chat = job[l].chat
         /\ \/ Answer(l, got).pc = "reply"
            \/ /\ Answer(l, got).pc = "look" /\ Answer(l, got).cmd = "show"
               /\ Answer(l, got).call = "0"
               /\ job[l].cmd = "show" /\ job[l].call = "get" /\ got = ""
         /\ Answer(l, got).pc = "reply" /\ Answer(l, got).answer \in {"on", "forwarded"} =>
              \/ got = "1"
              \/ job[l].cmd = "on" /\ got # "error"
<1> DEFINE j == job[l]
           Say(a) == [pc |-> "reply", cmd |-> j.cmd, chat |-> j.chat, answer |-> a]
<1>1. j.cmd \in Commands /\ j.chat \in Chats /\ j.call \in {"get", "0", "1"}
  BY JobFields DEF TypeOK
<1>2. \A a \in {"on", "off", "stillOff", "forwarded", "none"} :
        Say(a) \in Jobs /\ Say(a).pc = "reply" /\ Say(a).chat = j.chat /\ Say(a).answer = a
  BY <1>1, ReplyIsJob
<1>3. CASE j.cmd = "on"
  <2>1. Answer(l, got) = Say(OnAnswer(got))
    BY <1>3 DEF Answer
  <2>2. OnAnswer(got) \in {"on", "stillOff"} /\ (OnAnswer(got) = "on" => got # "error")
    BY DEF OnAnswer
  <2>3. QED
    BY <1>2, <1>3, <2>1, <2>2
<1>4. CASE j.cmd = "off"
  <2>1. Answer(l, got) = Say("off")
    BY <1>4 DEF Answer
  <2>2. QED
    BY <1>2, <2>1
<1>5. CASE j.cmd = "use"
  <2>1. Answer(l, got) = Say(IF got = "1" THEN "forwarded" ELSE "none")
    BY <1>5 DEF Answer
  <2>2. QED
    BY <1>2, <2>1
<1>6. CASE j.cmd = "show" /\ j.call = "get" /\ got = ""
  <2>1. Answer(l, got) = [pc |-> "look", cmd |-> "show", chat |-> j.chat, call |-> "0"]
    BY <1>6 DEF Answer, NoRecord
  <2>2. PICK d \in Jobs : /\ d = [pc |-> "look", cmd |-> "show", chat |-> j.chat, call |-> "0"]
                          /\ d.pc = "look" /\ d.cmd = "show" /\ d.chat = j.chat /\ d.call = "0"
    BY <1>1, DefaultIsJob
  <2>3. QED
    BY <1>6, <2>1, <2>2
<1>7. CASE j.cmd = "show" /\ ~(j.call = "get" /\ got = "")
  <2>1. Answer(l, got) = Say(IF got = "1" THEN "on" ELSE "off")
    BY <1>7 DEF Answer, NoRecord
  <2>2. QED
    BY <1>2, <2>1
<1>8. QED
  BY <1>1, <1>3, <1>4, <1>5, <1>6, <1>7 DEF Commands

-----------------------------------------------------------------------------
(***************************************************************************)
(* Any number of loops                                                     *)
(***************************************************************************)

LEMMA SInvInit == Init => SInv
<1> SUFFICES ASSUME Init PROVE SInv
  OBVIOUS
<1>1. TypeOK
  BY DEF Init, TypeOK, Jobs
<1>2. Calls /\ Mapped /\ Closers /\ SettingsCrashFree
  BY DEF Init, Calls, Sound, Idle, Mapped, Closers, SettingsCrashFree, At
<1>3. QED
  BY <1>1, <1>2 DEF SInv

\* A panic changes nothing but the process.
LEMMA CrashKeeps ==
  ASSUME NEW cause \in {"mapRace", "nilDB", "closedDB"}
  PROVE  /\ SInv /\ Crash(cause)
         /\ cause = "nilDB" => \E c \in Chats : settingsDB[c] = "nil"
         /\ cause = "closedDB" => Shutdown
         => SInv'
<1> SUFFICES ASSUME SInv, Crash(cause),
                    cause = "nilDB" => \E c \in Chats : settingsDB[c] = "nil",
                    cause = "closedDB" => Shutdown
             PROVE  SInv'
  OBVIOUS
<1>1. /\ UNCHANGED <<disk, settingsDB, held, job, sig, left, Shutdown, Subscriber, Talk>>
      /\ proc' = cause
  BY DEF Crash, rest, mapVars, sigVars
<1>2. TypeOK'
  BY <1>1 DEF SInv, TypeOK
<1>3. Calls' /\ Mapped' /\ Closers'
  BY <1>1 DEF SInv, Calls, Sound, Mapped, Closers, At
<1>4. SettingsCrashFree'
  BY <1>1 DEF SettingsCrashFree
<1>5. QED
  BY <1>2, <1>3, <1>4 DEF SInv

\* A loop goes on, and may open a database, which is not in the map yet.
LEMMA MoveKeeps ==
  ASSUME NEW l \in Loops
  PROVE  /\ SInv /\ UNCHANGED <<disk, settingsDB, sigVars, proc>> /\ held' \subseteq Chats
         /\ job' \in [Loops -> Jobs] /\ \A k \in Loops \ {l} : job'[k] = job[k]
         /\ Sound(job'[l])
         /\ job'[l].pc = "data" => settingsDB[job'[l].chat] # "absent"
         => SInv'
<1> SUFFICES ASSUME SInv, UNCHANGED <<disk, settingsDB, sigVars, proc>>, held' \subseteq Chats,
                    job' \in [Loops -> Jobs], \A k \in Loops \ {l} : job'[k] = job[k],
                    Sound(job'[l]),
                    job'[l].pc = "data" => settingsDB[job'[l].chat] # "absent"
             PROVE  SInv'
  OBVIOUS
<1>1. TypeOK'
  BY DEF SInv, TypeOK, sigVars
<1>2. Calls'
  BY DEF SInv, Calls, Sound
<1>3. Mapped' /\ Closers' /\ SettingsCrashFree'
  BY DEF SInv, Mapped, Closers, SettingsCrashFree, At, sigVars
<1>4. QED
  BY <1>1, <1>2, <1>3 DEF SInv

LEMMA RaceKeeps == ASSUME NEW l \in Loops PROVE SInv /\ MapRace(l) => SInv'
BY CrashKeeps DEF MapRace

LEMMA CommandKeeps == ASSUME NEW l \in Loops PROVE SInv /\ Command(l) => SInv'
<1> SUFFICES ASSUME SInv, Command(l) PROVE SInv'
  OBVIOUS
<1>1. PICK m \in Commands, c \in Chats :
        Go(l, [pc |-> "look", cmd |-> m, chat |-> c, call |-> Call(m)])
  BY DEF Command
<1> DEFINE there == [pc |-> "look", cmd |-> m, chat |-> c, call |-> Call(m)]
<1>2. there.pc = "look" /\ there.cmd = m /\ there.call = Call(m) /\ Call(m) \in {"get", "0", "1"}
  BY DEF Call
<1>3. there \in Jobs
  <2>1. there \in [pc : {"look", "open", "data"}, cmd : Commands, chat : Chats,
                  call : {"get", "0", "1"}]
    BY <1>2
  <2>2. QED
    BY <2>1 DEF Jobs
<1>4. Sound(there)
  BY <1>2 DEF Sound, Call, Commands
<1>5. Go(l, there)
  BY <1>1
<1> HIDE DEF there
<1>6. /\ job' \in [Loops -> Jobs] /\ job'[l] = there
      /\ \A k \in Loops \ {l} : job'[k] = job[k]
  BY <1>3, <1>5, Goes DEF SInv
<1>7. held' \subseteq Chats /\ UNCHANGED <<disk, settingsDB, sigVars, proc>>
  BY DEF Command, SInv, TypeOK, mapVars
<1>8. QED
  BY <1>2, <1>4, <1>6, <1>7, MoveKeeps

LEMMA LookKeeps == ASSUME NEW l \in Loops PROVE SInv /\ Look(l) => SInv'
<1> SUFFICES ASSUME SInv, Look(l) PROVE SInv'
  OBVIOUS
<1>1. CASE MapRace(l)
  BY <1>1, RaceKeeps
<1>2. ASSUME NEW pc \in {"look", "open", "data"}, Doing(l, pc),
             pc = "data" => settingsDB[job[l].chat] # "absent",
             UNCHANGED <<disk, mapVars, sigVars, proc>>
      PROVE  SInv'
  <2>1. job[l].pc = "look" /\ TypeOK
    BY DEF Look, At, SInv
  <2>2. /\ job' \in [Loops -> Jobs] /\ \A k \in Loops \ {l} : job'[k] = job[k]
        /\ job'[l].pc = pc /\ job'[l].cmd = job[l].cmd /\ job'[l].chat = job[l].chat
        /\ job'[l].call = job[l].call
    BY <1>2, <2>1, Does
  <2>3. Sound(job'[l])
    BY <2>1, <2>2 DEF SInv, Calls, Sound
  <2>4. held' \subseteq Chats /\ UNCHANGED <<disk, settingsDB, sigVars, proc>>
    BY <1>2 DEF SInv, TypeOK, mapVars
  <2>5. QED
    BY <1>2, <2>2, <2>3, <2>4, MoveKeeps
<1>3. QED
  BY <1>1, <1>2 DEF Look

LEMMA OpenKeeps == ASSUME NEW l \in Loops PROVE SInv /\ OpenDB(l) => SInv'
<1> SUFFICES ASSUME SInv, OpenDB(l) PROVE SInv'
  OBVIOUS
<1>1. PICK db \in {"open", "nil"} : Opened(l, db)
  BY DEF OpenDB
<1>2. At(l, "open") /\ TypeOK /\ Sound(job[l]) /\ job[l].pc = "open"
  BY DEF OpenDB, At, SInv, Calls
<1>3. /\ job' \in [Loops -> Jobs] /\ \A k \in Loops \ {l} : job'[k] = job[k]
      /\ job'[l].pc = "put" /\ job'[l].cmd = job[l].cmd /\ job'[l].call = job[l].call
  BY <1>1, <1>2, Opens
<1>4. Sound(job'[l])
  BY <1>2, <1>3 DEF Sound
<1>5. held' \subseteq Chats
  <2>1. job[l].chat \in Chats
    BY <1>2, JobFields DEF TypeOK
  <2>2. QED
    BY <1>2, <2>1 DEF OpenDB, TypeOK
<1>6. UNCHANGED <<disk, settingsDB, sigVars, proc>>
  BY DEF OpenDB
<1>7. QED
  BY <1>3, <1>4, <1>5, <1>6, MoveKeeps

LEMMA ReplyKeeps == ASSUME NEW l \in Loops PROVE SInv /\ Reply(l) => SInv'
<1> SUFFICES ASSUME SInv, Reply(l) PROVE SInv'
  OBVIOUS
<1>1. Idle \in Jobs /\ Sound(Idle) /\ Idle.pc = "idle"
  BY DEF Jobs, Idle, Sound
<1>2. /\ job' \in [Loops -> Jobs] /\ job'[l] = Idle
      /\ \A k \in Loops \ {l} : job'[k] = job[k]
  BY <1>1, Goes DEF Reply, SInv
<1>3. held' \subseteq Chats /\ UNCHANGED <<disk, settingsDB, sigVars, proc>>
  BY DEF Reply, SInv, TypeOK, mapVars
<1>4. QED
  BY <1>1, <1>2, <1>3, MoveKeeps

\* A loop in a call: what its job says.
LEMMA InCall ==
  ASSUME NEW l \in Loops, SInv, job[l].pc \in {"put", "data"}
  PROVE  /\ TypeOK /\ Sound(job[l]) /\ job[l].chat \in Chats
         /\ job[l].call \in {"get", "0", "1"}
         /\ job[l].pc = "put" => job[l].db \in {"open", "nil"}
BY JobFields DEF SInv, TypeOK, Calls

\* What an answer becomes, for any number of loops.
LEMMA AnswerGoes ==
  ASSUME NEW l \in Loops, NEW got, SInv, job[l].pc \in {"put", "data"}, Go(l, Answer(l, got))
  PROVE  /\ job' \in [Loops -> Jobs] /\ job'[l] = Answer(l, got)
         /\ \A k \in Loops \ {l} : job'[k] = job[k]
         /\ Sound(job'[l]) /\ job'[l].pc \in {"look", "reply"}
<1>1. TypeOK /\ Sound(job[l])
  BY InCall
<1>2. /\ Answer(l, got) \in Jobs /\ Answer(l, got).chat = job[l].chat
      /\ \/ Answer(l, got).pc = "reply"
         \/ /\ Answer(l, got).pc = "look" /\ Answer(l, got).cmd = "show"
            /\ Answer(l, got).call = "0"
            /\ job[l].cmd = "show" /\ job[l].call = "get" /\ got = ""
      /\ Answer(l, got).pc = "reply" /\ Answer(l, got).answer \in {"on", "forwarded"} =>
           \/ got = "1"
           \/ job[l].cmd = "on" /\ got # "error"
  BY <1>1, Answers
<1>3. /\ job' \in [Loops -> Jobs] /\ job'[l] = Answer(l, got)
      /\ \A k \in Loops \ {l} : job'[k] = job[k]
  BY <1>1, <1>2, Goes
<1>4. QED
  BY <1>2, <1>3 DEF Sound

LEMMA PutKeeps == ASSUME NEW l \in Loops PROVE SInv /\ proc = "up" /\ Put(l) => SInv'
<1> SUFFICES ASSUME SInv, proc = "up", Put(l), ~MapRace(l) PROVE SInv'
  BY RaceKeeps
<1>1. /\ job[l].pc = "put" /\ TypeOK /\ job[l].chat \in Chats /\ job[l].db \in {"open", "nil"}
      /\ Sound(job[l])
  BY InCall DEF Put, At
<1>2. /\ settingsDB' = [settingsDB EXCEPT ![job[l].chat] = job[l].db]
      /\ IF job[l].db = "open"
         THEN Doing(l, "data")
         ELSE Go(l, Answer(l, IF job[l].call = "get" THEN "" ELSE "error"))
      /\ UNCHANGED <<disk, held, sig, Shutdown, Subscriber, Talk, proc>>
  BY DEF Put
<1>3. PICK S \in SUBSET {h \in Handlers : sig[h] = "dbs"} :
        left' = [h \in Handlers |->
                   IF h \in S /\ settingsDB[job[l].chat] = "absent"
                   THEN left[h] \cup {job[l].chat} ELSE left[h]]
  BY DEF Put
<1>4. /\ job' \in [Loops -> Jobs] /\ \A k \in Loops \ {l} : job'[k] = job[k]
      /\ Sound(job'[l])
      /\ job'[l].pc = "data" => job'[l].chat = job[l].chat
  <2>1. CASE job[l].db = "open"
    <3>1. /\ job' \in [Loops -> Jobs] /\ \A k \in Loops \ {l} : job'[k] = job[k]
          /\ job'[l].pc = "data" /\ job'[l].cmd = job[l].cmd /\ job'[l].chat = job[l].chat
          /\ job'[l].call = job[l].call
      BY <1>1, <1>2, <2>1, Does
    <3>2. QED
      BY <1>1, <3>1 DEF Sound
  <2>2. CASE job[l].db # "open"
    BY <1>1, <1>2, <2>2, AnswerGoes
  <2>3. QED
    BY <2>1, <2>2
<1>5. /\ settingsDB' \in [Chats -> {"absent", "nil", "open", "closed"}]
      /\ settingsDB'[job[l].chat] \in {"nil", "open"}
      /\ \A c \in Chats \ {job[l].chat} : settingsDB'[c] = settingsDB[c]
  BY <1>1, <1>2 DEF TypeOK
<1>6. /\ left' \in [Handlers -> SUBSET Chats]
      /\ \A h \in Handlers : left'[h] \subseteq left[h] \cup {job[l].chat}
  BY <1>1, <1>3 DEF TypeOK
<1>7. TypeOK'
  BY <1>1, <1>2, <1>4, <1>5, <1>6 DEF TypeOK
<1>8. Calls'
  BY <1>4 DEF SInv, Calls, Sound
<1>9. Mapped'
  <2>1. \A k \in Loops : job'[k].pc = "data" => job'[k].chat \in Chats
    BY <1>4, JobFields
  <2>2. \A k \in Loops : job'[k].pc = "data" => settingsDB'[job'[k].chat] # "absent"
    BY <1>4, <1>5, <2>1 DEF SInv, Mapped, At
  <2>3. \A h \in Handlers : \A c \in left'[h] : settingsDB'[c] # "absent"
    BY <1>5, <1>6 DEF SInv, Mapped, TypeOK
  <2>4. QED
    BY <2>2, <2>3 DEF Mapped, At
<1>10. Closers'
  BY <1>2, <1>5 DEF SInv, Closers
<1>11. SettingsCrashFree'
  BY <1>2, <1>5 DEF SInv, SettingsCrashFree
<1>12. QED
  BY <1>7, <1>8, <1>9, <1>10, <1>11 DEF SInv

LEMMA DataKeeps == ASSUME NEW l \in Loops PROVE SInv /\ Data(l) => SInv'
<1> SUFFICES ASSUME SInv, Data(l), ~MapRace(l) PROVE SInv'
  BY RaceKeeps
<1>1. /\ job[l].pc = "data" /\ TypeOK /\ job[l].chat \in Chats
      /\ job[l].call \in {"get", "0", "1"} /\ settingsDB[job[l].chat] # "absent"
  BY InCall DEF Data, At, SInv, Mapped
<1>2. CASE Crash("nilDB") /\ settingsDB[job[l].chat] \in {"absent", "nil"}
  BY <1>1, <1>2, CrashKeeps
<1>3. CASE Crash("closedDB") /\ settingsDB[job[l].chat] = "closed"
  <2>1. Shutdown
    BY <1>1, <1>3 DEF SInv, Closers
  <2>2. QED
    BY <1>3, <2>1, CrashKeeps
<1>4. ASSUME NEW got, Go(l, Answer(l, got)), UNCHANGED <<mapVars, sigVars, proc>>,
             disk' \in [Chats -> {"", "0", "1"}]
      PROVE  SInv'
  <2>1. /\ job' \in [Loops -> Jobs] /\ \A k \in Loops \ {l} : job'[k] = job[k]
        /\ Sound(job'[l]) /\ job'[l].pc \in {"look", "reply"}
    BY <1>1, <1>4, AnswerGoes
  <2>2. TypeOK'
    BY <1>1, <1>4, <2>1 DEF TypeOK, mapVars, sigVars
  <2>3. Calls'
    BY <2>1 DEF SInv, Calls, Sound
  <2>4. Mapped' /\ Closers' /\ SettingsCrashFree'
    BY <1>4, <2>1 DEF SInv, Mapped, Closers, SettingsCrashFree, At, mapVars, sigVars
  <2>5. QED
    BY <2>2, <2>3, <2>4 DEF SInv
<1>5. CASE /\ settingsDB[job[l].chat] = "open"
           /\ IF job[l].call = "get"
              THEN (\E got \in FetchV(job[l].chat) : Go(l, Answer(l, got))) /\ UNCHANGED disk
              ELSE Go(l, Answer(l, "ok")) /\ StoreKV(job[l].chat, job[l].call)
           /\ UNCHANGED <<mapVars, sigVars, proc>>
  <2>1. disk' \in [Chats -> {"", "0", "1"}]
    BY <1>1, <1>5 DEF TypeOK, StoreKV
  <2>2. QED
    BY <1>4, <1>5, <2>1
<1>6. QED
  BY <1>2, <1>3, <1>5 DEF Data

LEMMA SigTakeKeeps == ASSUME NEW h \in Handlers PROVE SInv /\ SigTake(h) => SInv'
<1> SUFFICES ASSUME SInv, SigTake(h) PROVE SInv'
  OBVIOUS
<1>1. /\ UNCHANGED <<disk, settingsDB, held, job, left, Subscriber, Talk, proc>>
      /\ Shutdown' = TRUE /\ sig' = [sig EXCEPT ![h] = "redis"]
  BY DEF SigTake, SigTo, mapVars
<1>2. TypeOK'
  BY <1>1 DEF SInv, TypeOK
<1>3. Calls' /\ Mapped' /\ Closers' /\ SettingsCrashFree'
  BY <1>1 DEF SInv, Calls, Sound, Mapped, Closers, SettingsCrashFree, At
<1>4. QED
  BY <1>2, <1>3 DEF SInv

LEMMA SigStepKeeps == ASSUME NEW h \in Handlers PROVE SInv /\ proc = "up" /\ SigStep(h) => SInv'
<1> SUFFICES ASSUME SInv, proc = "up", SigStep(h) PROVE SInv'
  OBVIOUS
<1> USE DEF SInv, TypeOK, Calls, Sound, Mapped, Closers, SettingsCrashFree, At, mapVars
<1>1. CASE SigRedis(h)
  BY <1>1 DEF SigRedis, SigTo
<1>2. CASE SigNetwork(h)
  BY <1>2 DEF SigNetwork, SigTo
<1>3. CASE SigList(h)
  <2>1. CASE Crash("mapRace")
    BY <2>1, CrashKeeps
  <2>2. CASE ~Crash("mapRace")
    <3>1. /\ UNCHANGED <<disk, settingsDB, held, job, Shutdown, Subscriber, Talk, proc>>
          /\ sig[h] = "list" /\ sig' = [sig EXCEPT ![h] = "dbs"]
          /\ left' = [left EXCEPT ![h] = {c \in Chats : settingsDB[c] # "absent"}]
      BY <1>3, <2>2 DEF SigList, SigTo
    <3>2. TypeOK'
      BY <3>1
    <3>3. Mapped'
      BY <3>1
    <3>4. Calls' /\ Closers' /\ SettingsCrashFree'
      BY <3>1
    <3>5. QED
      BY <3>2, <3>3, <3>4
  <2>3. QED
    BY <2>1, <2>2
<1>4. CASE SigClose(h)
  <2>1. PICK c \in left[h] :
          \/ Crash("mapRace")
          \/ settingsDB[c] = "nil" /\ Crash("nilDB")
          \/ settingsDB[c] = "closed" /\ Crash("closedDB")
          \/ /\ settingsDB[c] = "open"
             /\ settingsDB' = [settingsDB EXCEPT ![c] = "closed"]
             /\ held' = held \ {c}
             /\ left' = [left EXCEPT ![h] = @ \ {c}]
             /\ UNCHANGED <<disk, job, sig, Shutdown, Subscriber, Talk, proc>>
    BY <1>4 DEF SigClose
  <2>2. c \in Chats /\ Shutdown
    BY <1>4 DEF SigClose
  <2>3. CASE Crash("mapRace")
    BY <2>3, CrashKeeps
  <2>4. CASE settingsDB[c] = "nil" /\ Crash("nilDB")
    BY <2>2, <2>4, CrashKeeps
  <2>5. CASE settingsDB[c] = "closed" /\ Crash("closedDB")
    BY <2>2, <2>5, CrashKeeps
  <2>6. CASE /\ settingsDB[c] = "open"
             /\ settingsDB' = [settingsDB EXCEPT ![c] = "closed"]
             /\ held' = held \ {c}
             /\ left' = [left EXCEPT ![h] = @ \ {c}]
             /\ UNCHANGED <<disk, job, sig, Shutdown, Subscriber, Talk, proc>>
    <3>1. TypeOK'
      BY <2>2, <2>6
    <3>2. \A d \in Chats : settingsDB'[d] = "absent" => settingsDB[d] = "absent"
      BY <2>2, <2>6
    <3>3. \A k \in Loops : job[k].pc = "data" => job[k].chat \in Chats
      BY JobFields
    <3>4. Mapped'
      <4>1. \A k \in Loops : job[k].pc = "data" => settingsDB'[job[k].chat] # "absent"
        BY <3>2, <3>3
      <4>2. \A g \in Handlers : \A d \in left'[g] : d \in Chats /\ d \in left[g]
        BY <2>6
      <4>3. \A g \in Handlers : \A d \in left'[g] : settingsDB'[d] # "absent"
        BY <3>2, <4>2
      <4>4. QED
        BY <2>6, <4>1, <4>3
    <3>5. Calls' /\ Closers' /\ SettingsCrashFree'
      BY <2>2, <2>6
    <3>6. QED
      BY <3>1, <3>4, <3>5
  <2>7. QED
    BY <2>1, <2>3, <2>4, <2>5, <2>6
<1>5. CASE SigExit(h)
  BY <1>5 DEF SigExit, rest, sigVars
<1>6. QED
  BY <1>1, <1>2, <1>3, <1>4, <1>5 DEF SigStep

LEMMA RestartKeeps == SInv /\ Restart => SInv'
<1> SUFFICES ASSUME SInv, Restart PROVE SInv'
  OBVIOUS
<1>1. TypeOK'
  BY DEF SInv, TypeOK, Restart, Jobs
<1>2. Calls' /\ Mapped' /\ Closers' /\ SettingsCrashFree'
  BY DEF Restart, Calls, Sound, Idle, Mapped, Closers, SettingsCrashFree, At
<1>3. QED
  BY <1>1, <1>2 DEF SInv

LEMMA SInvNext == SInv /\ [Next]_vars => SInv'
<1> SUFFICES ASSUME SInv, [Next]_vars PROVE SInv'
  OBVIOUS
<1>1. ASSUME proc = "up", NEW l \in Loops, LoopStep(l) PROVE SInv'
  BY <1>1, CommandKeeps, LookKeeps, OpenKeeps, PutKeeps, DataKeeps, ReplyKeeps DEF LoopStep
<1>2. ASSUME proc = "up", NEW h \in Handlers, SigTake(h) \/ SigStep(h) PROVE SInv'
  BY <1>2, SigTakeKeeps, SigStepKeeps
<1>3. CASE Kill
  BY <1>3 DEF Kill, SInv, TypeOK, Calls, Sound, Mapped, Closers, SettingsCrashFree, At, rest,
              mapVars, sigVars
<1>4. CASE Restart
  BY <1>4, RestartKeeps
<1>5. CASE UNCHANGED vars
  BY <1>5 DEF vars, SInv, TypeOK, Calls, Sound, Mapped, Closers, SettingsCrashFree, At, rest,
              mapVars, sigVars
<1>6. QED
  BY <1>1, <1>2, <1>3, <1>4, <1>5 DEF Next

LEMMA SInvAlways == Spec => []SInv
<1>1. SInv /\ [Next]_vars => SInv'
  BY SInvNext
<1>2. QED
  BY <1>1, SInvInit, PTL DEF Spec

-----------------------------------------------------------------------------
(***************************************************************************)
(* One loop                                                                *)
(***************************************************************************)

LEMMA OneInit == Init => OneInv
<1> SUFFICES ASSUME Init PROVE OneInv
  OBVIOUS
<1>1. SInv
  BY SInvInit
<1>2. Defaults /\ Opening /\ OnIsStored /\ HandleKept
  BY DEF Init, Defaults, Opening, OnIsStored, HandleKept, Idle, At
<1>3. QED
  BY <1>1, <1>2 DEF OneInv

\* What leaves the settings and the loop alone.
LEMMA OneSame ==
  OneInv /\ SInv' /\ UNCHANGED <<disk, settingsDB, held, job>> => OneInv'
<1> SUFFICES ASSUME OneInv, SInv', UNCHANGED <<disk, settingsDB, held, job>> PROVE OneInv'
  OBVIOUS
<1>1. Defaults' /\ Opening'
  BY DEF OneInv, Defaults, Opening, At
<1>2. OnIsStored'
  BY DEF OneInv, OnIsStored, At
<1>3. HandleKept'
  BY DEF OneInv, HandleKept, At
<1>4. QED
  BY <1>1, <1>2, <1>3 DEF OneInv

LEMMA CrashSame == ASSUME NEW cause, Crash(cause) PROVE UNCHANGED <<disk, settingsDB, held, job>>
BY DEF Crash, rest, mapVars

\* The loop does anything but open, store or answer.
LEMMA OneMove ==
  ASSUME OneLoop, NEW l \in Loops
  PROVE  /\ OneInv /\ SInv' /\ UNCHANGED <<disk, settingsDB, held>> /\ job[l].pc # "put"
         /\ job'[l].pc \in {"idle", "look", "open", "data"}
         /\ job'[l].pc = "open" => settingsDB[job'[l].chat] = "absent"
         /\ job'[l].pc # "idle" /\ job'[l].cmd = "show" /\ job'[l].call = "0" =>
              ReadFails \/ disk[job'[l].chat] = "" \/ settingsDB[job'[l].chat] = "nil"
         => OneInv'
<1> SUFFICES ASSUME
      OneInv, SInv', UNCHANGED <<disk, settingsDB, held>>, job[l].pc # "put",
      job'[l].pc \in {"idle", "look", "open", "data"},
      job'[l].pc = "open" => settingsDB[job'[l].chat] = "absent",
      job'[l].pc # "idle" /\ job'[l].cmd = "show" /\ job'[l].call = "0" =>
        ReadFails \/ disk[job'[l].chat] = "" \/ settingsDB[job'[l].chat] = "nil"
    PROVE OneInv'
  OBVIOUS
<1>1. \A k \in Loops : k = l
  BY DEF OneLoop
<1>2. Defaults'
  BY <1>1 DEF Defaults
<1>3. Opening' /\ OnIsStored'
  BY <1>1 DEF Opening, OnIsStored, At
<1>4. HandleKept'
  BY <1>1 DEF OneInv, HandleKept, At
<1>5. QED
  BY <1>2, <1>3, <1>4 DEF OneInv

LEMMA OneCommand == ASSUME OneLoop, NEW l \in Loops PROVE OneInv /\ SInv' /\ Command(l) => OneInv'
<1> SUFFICES ASSUME OneInv, SInv', Command(l) PROVE OneInv'
  OBVIOUS
<1>1. PICK m \in Commands, c \in Chats :
        Go(l, [pc |-> "look", cmd |-> m, chat |-> c, call |-> Call(m)])
  BY DEF Command
<1> DEFINE there == [pc |-> "look", cmd |-> m, chat |-> c, call |-> Call(m)]
<1>2. there.pc = "look" /\ (there.cmd = "show" => there.call = "get")
  BY DEF Call
<1>3. job'[l] = there
  BY <1>1 DEF Go, OneInv, SInv, TypeOK
<1> HIDE DEF there
<1>4. UNCHANGED <<disk, settingsDB, held>> /\ job[l].pc = "idle"
  BY DEF Command, mapVars, At
<1>5. QED
  BY <1>2, <1>3, <1>4, OneMove

LEMMA OneLook == ASSUME OneLoop, NEW l \in Loops PROVE OneInv /\ SInv' /\ Look(l) => OneInv'
<1> SUFFICES ASSUME OneInv, SInv', Look(l) PROVE OneInv'
  OBVIOUS
<1>1. CASE MapRace(l)
  BY <1>1, CrashSame, OneSame DEF MapRace
<1>2. ASSUME NEW pc \in {"look", "open", "data"}, Doing(l, pc), pc \in {"open", "data"},
             pc = "open" => settingsDB[job[l].chat] = "absent",
             UNCHANGED <<disk, mapVars, sigVars, proc>>
      PROVE  OneInv'
  <2>1. job[l].pc = "look" /\ TypeOK
    BY DEF Look, At, OneInv, SInv
  <2>2. /\ job'[l].pc = pc /\ job'[l].cmd = job[l].cmd /\ job'[l].chat = job[l].chat
        /\ job'[l].call = job[l].call
    BY <1>2, <2>1, Does
  <2>3. UNCHANGED <<disk, settingsDB, held>>
    BY <1>2 DEF mapVars
  <2>4. job[l].cmd = "show" /\ job[l].call = "0" =>
          ReadFails \/ disk[job[l].chat] = "" \/ settingsDB[job[l].chat] = "nil"
    BY <2>1 DEF OneInv, Defaults
  <2>5. QED
    BY <1>2, <2>1, <2>2, <2>3, <2>4, OneMove
<1>3. QED
  BY <1>1, <1>2 DEF Look

LEMMA OneReply == ASSUME OneLoop, NEW l \in Loops PROVE OneInv /\ SInv' /\ Reply(l) => OneInv'
<1> SUFFICES ASSUME OneInv, SInv', Reply(l) PROVE OneInv'
  OBVIOUS
<1>1. job[l].pc = "reply" /\ UNCHANGED <<disk, settingsDB, held>>
  BY DEF Reply, At, mapVars
<1>2. job'[l].pc = "idle"
  BY DEF Reply, Go, Idle, OneInv, SInv, TypeOK
<1>3. QED
  BY <1>1, <1>2, OneMove

\* pebble refuses a directory that is open; then it is in the map.
LEMMA OneOpen == ASSUME OneLoop, NEW l \in Loops PROVE OneInv /\ SInv' /\ OpenDB(l) => OneInv'
<1> SUFFICES ASSUME OneInv, SInv', OpenDB(l) PROVE OneInv'
  OBVIOUS
<1>1. PICK db \in {"open", "nil"} :
        /\ Opened(l, db)
        /\ db = "open" => held' = held \cup {job[l].chat}
        /\ db = "nil" => held' = held
  BY DEF OpenDB
<1>2. TypeOK /\ At(l, "open") /\ job[l].pc = "open" /\ UNCHANGED <<disk, settingsDB>>
  BY DEF OpenDB, At, OneInv, SInv
<1>3. /\ job'[l].pc = "put" /\ job'[l].cmd = job[l].cmd /\ job'[l].chat = job[l].chat
      /\ job'[l].call = job[l].call /\ job'[l].db = db
  BY <1>1, <1>2, Opens
<1>4. settingsDB[job[l].chat] = "absent"
  BY <1>2 DEF OneInv, Opening
<1>5. \A c \in held : settingsDB[c] = "open"
  BY <1>2 DEF OneLoop, OneInv, HandleKept, At
<1>6. job[l].chat \notin held
  BY <1>4, <1>5
<1>7. Opening'
  BY <1>1, <1>2, <1>3, <1>4, <1>6 DEF OneLoop, Opening, At
<1>8. HandleKept'
  BY <1>1, <1>2, <1>3, <1>5 DEF HandleKept, At
<1>9. Defaults'
  <2>1. job[l].cmd = "show" /\ job[l].call = "0" /\ ~ReadFails => disk[job[l].chat] = ""
    BY <1>2, <1>4 DEF OneInv, Defaults
  <2>2. QED
    BY <1>2, <1>3, <2>1 DEF OneLoop, Defaults
<1>10. OnIsStored'
  BY <1>3 DEF OneLoop, OnIsStored, At
<1>11. QED
  BY <1>7, <1>8, <1>9, <1>10 DEF OneInv

LEMMA OnePut == ASSUME OneLoop, NEW l \in Loops PROVE OneInv /\ SInv' /\ Put(l) => OneInv'
<1> SUFFICES ASSUME OneInv, SInv', Put(l) PROVE OneInv'
  OBVIOUS
<1>1. CASE MapRace(l)
  BY <1>1, CrashSame, OneSame DEF MapRace
<1>2. CASE ~MapRace(l)
  <2>1. /\ job[l].pc = "put" /\ TypeOK /\ SInv /\ Sound(job[l]) /\ job[l].chat \in Chats
        /\ job[l].db \in {"open", "nil"}
    BY InCall DEF Put, At, OneInv
  <2>2. /\ settingsDB' = [settingsDB EXCEPT ![job[l].chat] = job[l].db]
        /\ IF job[l].db = "open"
           THEN Doing(l, "data")
           ELSE Go(l, Answer(l, IF job[l].call = "get" THEN "" ELSE "error"))
        /\ UNCHANGED <<disk, held>>
    BY <1>2 DEF Put
  <2>3. /\ settingsDB'[job[l].chat] = job[l].db
        /\ \A c \in Chats \ {job[l].chat} : settingsDB'[c] = settingsDB[c]
    BY <2>1, <2>2 DEF TypeOK
  <2>4. /\ settingsDB[job[l].chat] = "absent"
        /\ job[l].db = "nil" => job[l].chat \notin held
    BY <2>1 DEF OneInv, Opening, At
  <2>5. \A c \in held \ {job[l].chat} : settingsDB[c] = "open" /\ c \in Chats
    BY <2>1 DEF OneLoop, OneInv, HandleKept, TypeOK
  <2>6. HandleKept'
    BY <2>1, <2>2, <2>3, <2>4, <2>5 DEF HandleKept
  <2>7. CASE job[l].db = "open"
    <3>1. /\ job'[l].pc = "data" /\ job'[l].cmd = job[l].cmd /\ job'[l].chat = job[l].chat
          /\ job'[l].call = job[l].call
      BY <2>1, <2>2, <2>7, Does
    <3>2. job[l].cmd = "show" /\ job[l].call = "0" /\ ~ReadFails => disk[job[l].chat] = ""
      BY <2>1, <2>4 DEF OneInv, Defaults
    <3>3. Defaults' /\ Opening' /\ OnIsStored'
      BY <2>2, <3>1, <3>2 DEF OneLoop, Defaults, Opening, OnIsStored, At
    <3>4. QED
      BY <2>6, <3>3 DEF OneInv
  <2>8. CASE job[l].db = "nil"
    <3>1. PICK got : /\ got = IF job[l].call = "get" THEN "" ELSE "error"
                     /\ Go(l, Answer(l, got))
      BY <2>2, <2>8
    <3>2. /\ Answer(l, got) \in Jobs /\ Answer(l, got).chat = job[l].chat
          /\ \/ Answer(l, got).pc = "reply"
             \/ /\ Answer(l, got).pc = "look" /\ Answer(l, got).cmd = "show"
                /\ Answer(l, got).call = "0"
                /\ job[l].cmd = "show" /\ job[l].call = "get" /\ got = ""
          /\ Answer(l, got).pc = "reply" /\ Answer(l, got).answer \in {"on", "forwarded"} =>
               \/ got = "1"
               \/ job[l].cmd = "on" /\ got # "error"
      BY <2>1, Answers
    <3>3. job'[l] = Answer(l, got)
      BY <2>1, <3>1, <3>2, Goes
    <3>4. job[l].cmd = "on" => got = "error"
      BY <2>1, <3>1 DEF Sound
    <3>5. ~(job'[l].pc = "reply" /\ job'[l].answer \in {"on", "forwarded"})
      BY <3>1, <3>2, <3>3, <3>4
    <3>6. job'[l].pc \in {"look", "reply"} /\ settingsDB'[job'[l].chat] = "nil"
      BY <2>3, <2>8, <3>2, <3>3
    <3>7. Defaults' /\ Opening' /\ OnIsStored'
      BY <3>5, <3>6 DEF OneLoop, Defaults, Opening, OnIsStored, At
    <3>8. QED
      BY <2>6, <3>7 DEF OneInv
  <2>9. QED
    BY <2>1, <2>7, <2>8
<1>3. QED
  BY <1>1, <1>2

\* What an open database returns or stores, and what is answered then.
DataDone(l, got) ==
  /\ settingsDB[job[l].chat] = "open" /\ Go(l, Answer(l, got))
  /\ IF job[l].call = "get" THEN got \in FetchV(job[l].chat) /\ UNCHANGED disk
     ELSE got = "ok" /\ StoreKV(job[l].chat, job[l].call)
  /\ UNCHANGED <<settingsDB, held>>

LEMMA DataCases ==
  ASSUME NEW l \in Loops, Data(l)
  PROVE  (\E got : DataDone(l, got)) \/ UNCHANGED <<disk, settingsDB, held, job>>
<1>1. CASE MapRace(l) \/ Crash("nilDB") \/ Crash("closedDB")
  BY <1>1, CrashSame DEF MapRace
<1>2. CASE /\ settingsDB[job[l].chat] = "open"
           /\ IF job[l].call = "get"
              THEN (\E got \in FetchV(job[l].chat) : Go(l, Answer(l, got))) /\ UNCHANGED disk
              ELSE Go(l, Answer(l, "ok")) /\ StoreKV(job[l].chat, job[l].call)
           /\ UNCHANGED <<mapVars, sigVars, proc>>
  BY <1>2 DEF DataDone, mapVars
<1>3. QED
  BY <1>1, <1>2 DEF Data

LEMMA OneData == ASSUME OneLoop, NEW l \in Loops PROVE OneInv /\ SInv' /\ Data(l) => OneInv'
<1> SUFFICES ASSUME OneInv, SInv', Data(l), NEW got, DataDone(l, got) PROVE OneInv'
  BY DataCases, OneSame
<1>1. /\ job[l].pc = "data" /\ TypeOK /\ SInv /\ Sound(job[l]) /\ job[l].chat \in Chats
      /\ job[l].call \in {"get", "0", "1"}
  BY InCall DEF Data, At, OneInv
<1>2. /\ Answer(l, got) \in Jobs /\ Answer(l, got).chat = job[l].chat
      /\ \/ Answer(l, got).pc = "reply"
         \/ /\ Answer(l, got).pc = "look" /\ Answer(l, got).cmd = "show"
            /\ Answer(l, got).call = "0"
            /\ job[l].cmd = "show" /\ job[l].call = "get" /\ got = ""
      /\ Answer(l, got).pc = "reply" /\ Answer(l, got).answer \in {"on", "forwarded"} =>
           \/ got = "1"
           \/ job[l].cmd = "on" /\ got # "error"
  BY <1>1, Answers
<1>3. job'[l] = Answer(l, got) /\ UNCHANGED <<settingsDB, held>>
  BY <1>1, <1>2, Goes DEF DataDone
<1>4. job'[l].pc = "reply" /\ job'[l].answer \in {"on", "forwarded"} => disk'[job'[l].chat] = "1"
  <2>1. CASE job[l].call = "get"
    BY <1>1, <1>2, <1>3, <2>1 DEF DataDone, FetchV, Sound
  <2>2. CASE job[l].call # "get"
    <3>1. disk'[job[l].chat] = job[l].call /\ got = "ok"
      BY <1>1, <2>2 DEF DataDone, StoreKV, TypeOK
    <3>2. QED
      BY <1>1, <1>2, <1>3, <3>1 DEF Sound
  <2>3. QED
    BY <2>1, <2>2
<1>5. job'[l].pc = "look" /\ ~ReadFails => disk'[job'[l].chat] = ""
  BY <1>2, <1>3 DEF DataDone, FetchV
<1>6. Defaults' /\ Opening' /\ OnIsStored'
  BY <1>2, <1>3, <1>4, <1>5 DEF OneLoop, Defaults, Opening, OnIsStored, At
<1>7. HandleKept'
  BY <1>1, <1>3 DEF OneLoop, OneInv, HandleKept, At
<1>8. QED
  BY <1>6, <1>7 DEF OneInv

\* A handler closes what is in the map and open.
LEMMA OneClose == ASSUME NEW h \in Handlers PROVE OneInv /\ SInv' /\ SigClose(h) => OneInv'
<1> SUFFICES ASSUME OneInv, SInv', SigClose(h) PROVE OneInv'
  OBVIOUS
<1>1. PICK c \in left[h] :
        \/ Crash("mapRace") \/ Crash("nilDB") \/ Crash("closedDB")
        \/ /\ settingsDB[c] = "open"
           /\ settingsDB' = [settingsDB EXCEPT ![c] = "closed"]
           /\ held' = held \ {c}
           /\ UNCHANGED <<disk, job>>
  BY DEF SigClose
<1>2. CASE Crash("mapRace") \/ Crash("nilDB") \/ Crash("closedDB")
  BY <1>2, CrashSame, OneSame
<1>3. CASE /\ settingsDB[c] = "open"
           /\ settingsDB' = [settingsDB EXCEPT ![c] = "closed"]
           /\ held' = held \ {c}
           /\ UNCHANGED <<disk, job>>
  <2>1. settingsDB \in [Chats -> {"absent", "nil", "open", "closed"}] /\ held \subseteq Chats
    BY DEF OneInv, SInv, TypeOK
  <2>2. \A d \in Chats \ {c} : settingsDB'[d] = settingsDB[d]
    BY <1>3, <2>1
  <2>3. \A k \in Loops : job[k].pc \in {"look", "open", "put", "data"} => job[k].chat \in Chats
    BY JobFields DEF OneInv, SInv, TypeOK
  <2>4. Opening'
    BY <1>3, <2>2, <2>3 DEF OneInv, Opening, At
  <2>5. Defaults'
    BY <1>3, <2>2, <2>3 DEF OneInv, Defaults
  <2>6. OnIsStored'
    BY <1>3 DEF OneInv, OnIsStored, At
  <2>7. HandleKept'
    BY <1>3, <2>1, <2>2 DEF OneInv, HandleKept, At
  <2>8. QED
    BY <2>4, <2>5, <2>6, <2>7 DEF OneInv
<1>4. QED
  BY <1>1, <1>2, <1>3

LEMMA OneNext == ASSUME OneLoop PROVE OneInv /\ [Next]_vars => OneInv'
<1> SUFFICES ASSUME OneInv, [Next]_vars PROVE OneInv'
  OBVIOUS
<1>1. SInv'
  BY SInvNext DEF OneInv
<1>2. ASSUME NEW l \in Loops, LoopStep(l) PROVE OneInv'
  BY <1>1, <1>2, OneCommand, OneLook, OneOpen, OnePut, OneData, OneReply DEF LoopStep
<1>3. ASSUME NEW h \in Handlers, SigTake(h) \/ SigStep(h) PROVE OneInv'
  <2>1. CASE SigClose(h)
    BY <1>1, <2>1, OneClose
  <2>2. CASE ~SigClose(h)
    <3>1. UNCHANGED <<disk, settingsDB, held, job>>
      BY <1>3, <2>2, CrashSame
         DEF SigStep, SigTake, SigRedis, SigNetwork, SigList, SigExit, rest, mapVars
    <3>2. QED
      BY <1>1, <3>1, OneSame
  <2>3. QED
    BY <2>1, <2>2
<1>4. CASE Kill \/ UNCHANGED vars
  <2>1. UNCHANGED <<disk, settingsDB, held, job>>
    BY <1>4 DEF Kill, vars, rest, mapVars
  <2>2. QED
    BY <1>1, <2>1, OneSame
<1>5. CASE Restart
  <2>1. \A l \in Loops : job'[l].pc = "idle"
    BY <1>5 DEF Restart, Idle
  <2>2. Defaults' /\ Opening' /\ OnIsStored'
    BY <2>1 DEF Defaults, Opening, OnIsStored, At
  <2>3. HandleKept'
    BY <1>5 DEF Restart, HandleKept
  <2>4. QED
    BY <1>1, <2>2, <2>3 DEF OneInv
<1>6. QED
  BY <1>2, <1>3, <1>4, <1>5 DEF Next

LEMMA OneAlways == ASSUME OneLoop PROVE Spec => []OneInv
<1>1. OneInv /\ [Next]_vars => OneInv'
  BY OneNext
<1>2. QED
  BY <1>1, OneInit, PTL DEF Spec

-----------------------------------------------------------------------------
(***************************************************************************)
(* The theorems                                                            *)
(***************************************************************************)

\* Types: the disk never holds anything but what a command stores.
THEOREM TypesHold == Spec => []TypeOK
<1>1. SInv => TypeOK
  BY DEF SInv
<1>2. QED
  BY <1>1, SInvAlways, PTL

\* Whatever loops and handlers run, a setting is used in a panic only if its
\* database failed to open, or was closed by a handler
\* (settings-db-util.go:55-92, sighandler.go:70-80).
THEOREM CrashesExplained == Spec => []SettingsCrashFree
<1>1. SInv => SettingsCrashFree
  BY DEF SInv
<1>2. QED
  BY <1>1, SInvAlways, PTL

\* With one loop, "on" is answered only when it is stored
\* (commands.go:140-162).
THEOREM OnIsTrue == ASSUME OneLoop PROVE Spec => []OnIsStored
<1>1. OneInv => OnIsStored
  BY DEF OneInv
<1>2. QED
  BY <1>1, OneAlways, PTL

\* With one loop, no handle is lost: every directory that is locked is in the
\* map, or about to be (settings-db-util.go:55-69, 103-118).
THEOREM HandlesKept == ASSUME OneLoop PROVE Spec => []HandleKept
<1>1. OneInv => HandleKept
  BY DEF OneInv
<1>2. QED
  BY <1>1, OneAlways, PTL

\* With one loop, and if no read fails, only an off command turns a setting
\* off: the default is stored over nothing (commands.go:134-150).
THEOREM OffTurnsOff == ASSUME OneLoop, ~ReadFails PROVE Spec => OnlyOffTurnsOff
<1> DEFINE Justified == \A c \in Chats : disk[c] = "1" /\ disk'[c] # "1" =>
             \E l \in Loops : At(l, "data") /\ job[l].cmd = "off" /\ job[l].chat = c
<1>1. ASSUME OneInv, [Next]_vars PROVE [Justified]_vars
  <2>1. ASSUME NEW l \in Loops, Data(l) PROVE Justified
    <3>1. CASE UNCHANGED <<disk, settingsDB, held, job>>
      BY <3>1
    <3>2. ASSUME NEW got, DataDone(l, got) PROVE Justified
      <4>1. /\ job[l].pc = "data" /\ Sound(job[l]) /\ job[l].chat \in Chats
            /\ job[l].call \in {"get", "0", "1"} /\ TypeOK
        BY <1>1, <2>1, InCall DEF Data, At, OneInv
      <4>2. SUFFICES ASSUME NEW c \in Chats, disk[c] = "1", disk'[c] # "1"
                     PROVE  At(l, "data") /\ job[l].cmd = "off" /\ job[l].chat = c
        OBVIOUS
      <4>3. /\ job[l].call # "get" /\ disk' = [disk EXCEPT ![job[l].chat] = job[l].call]
            /\ settingsDB[job[l].chat] = "open"
        BY <3>2, <4>2 DEF DataDone, StoreKV
      <4>4. c = job[l].chat /\ job[l].call # "1"
        BY <4>1, <4>2, <4>3 DEF TypeOK
      <4>5. ~(job[l].cmd = "show" /\ job[l].call = "0")
        BY <1>1, <4>1, <4>2, <4>3, <4>4 DEF OneInv, Defaults
      <4>6. QED
        BY <4>1, <4>3, <4>4, <4>5 DEF Sound, At
    <3>3. QED
      BY <2>1, <3>1, <3>2, DataCases
  <2>2. CASE \A l \in Loops : ~Data(l)
    <3>1. disk' = disk
      BY <1>1, <2>2, CrashSame
         DEF Next, LoopStep, Command, Look, OpenDB, Put, Reply, MapRace, SigTake, SigStep,
             SigRedis, SigNetwork, SigList, SigClose, SigExit, Kill, Restart, vars, rest
    <3>2. QED
      BY <3>1
  <2>3. QED
    BY <2>1, <2>2
<1>2. QED
  BY <1>1, OneAlways, PTL DEF Spec, OnlyOffTurnsOff
=============================================================================
