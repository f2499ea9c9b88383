------------------------------ MODULE Session -------------------------------
(***************************************************************************)
(* The life of the XMPP session: main() starts one generation of           *)
(* goroutines per turn of its loop (cmd/aleesa-jabber-go/main.go:62-117),  *)
(* waits until the tomb is dying, sleeps ReconnectDelay and starts the     *)
(* next one over the same globals, without waiting for the goroutines of   *)
(* the previous generation, which keep running.                            *)
(*                                                                         *)
(* Goroutines are indexed by the generation that started them.  The flags  *)
(* of EstablishConnection have no lock: each test and each write of one is *)
(* a step of its own, in program order (they are single bytes, so no value *)
(* is ever torn).  What else a goroutine does with the globals between two *)
(* blocking calls is one step.                                             *)
(* Connection g is the socket myLoop of generation g opened; a client is   *)
(* the number of its connection.                                           *)
(***************************************************************************)
EXTENDS Integers, FiniteSets, Tomb

CONSTANTS
  MaxGen,       \* bound: turns of the loop of main()
  Rooms,        \* Config.Jabber.Channels
  Server,       \* the recipient of a presence without a To
  Rotation,     \* Config.Jabber.RuntimeStatus.RotationTime # 0
  Interrupts,   \* the user may send SIGINT
  MaxPings      \* bound: MUC pings in flight

ASSUME SessionAssumption ==
  /\ MaxGen \in Nat \ {0}
  /\ MaxPings \in Nat
  /\ IsFiniteSet(Rooms) /\ Server \notin Rooms
  /\ {Rotation, Interrupts} \subseteq BOOLEAN

Gens  == 1 .. MaxGen
Nil   == -1              \* Talk after a NewClient that failed
Blank == 0               \* new(xmpp.Client): no socket, no decoder
Causes == {"nilClient", "blankClient", "nilWriter", "deadTomb"}

VARIABLES
  main, gen,                      \* main(): where it is, its current turn
  GTomb, inherited,               \* the tomb; tracked goroutines alive when it was reset
  connecting, IsConnected,        \* guards of EstablishConnection
  overtaken,                      \* history: they once let in two loops at a time
  Talk, StanzaWriter, conn,       \* the client, where stanzas are written, the sockets
  RoomsConnected,                 \* as a set
  loop, recvOn,                   \* myLoop, the client Recv reads, 0 outside it
  probe, mucProbe, pings,         \* liveness probes of the server and the rooms
  join, rotate, redis,            \* joinMuc, RotateStatus, RedisLoop
  SigChan, sig, Shutdown,         \* signal channels, SigHandler
  proc                            \* "up", "exited", or why it panicked

mainVars == <<main, gen>>
tombVars == <<GTomb, inherited>>
linkVars == <<connecting, IsConnected, overtaken, Talk, StanzaWriter>>
loopVars == <<loop, recvOn>>
bgVars   == <<probe, mucProbe, pings, join, rotate, redis>>
sigVars  == <<SigChan, sig, Shutdown>>
rest     == <<mainVars, tombVars, linkVars, conn, RoomsConnected, loopVars,
              bgVars, sigVars>>
vars     == <<rest, proc>>

Init ==
  /\ main = "reset" /\ gen = 0
  /\ GTomb = NewTomb /\ inherited = 0
  /\ connecting = FALSE /\ IsConnected = FALSE /\ overtaken = FALSE
  /\ Talk = Nil /\ StanzaWriter = 0
  /\ conn = [g \in Gens |-> "none"]
  /\ RoomsConnected = {}
  /\ loop = [g \in Gens |-> "off"] /\ recvOn = [g \in Gens |-> 0]
  /\ probe = [g \in Gens |-> "off"] /\ mucProbe = [g \in Gens |-> FALSE]
  /\ pings = 0
  /\ join = [g \in Gens |-> [r \in Rooms |-> "off"]]
  /\ rotate = [g \in Gens |-> [r \in Rooms \cup {Server} |-> "off"]]
  /\ redis = [g \in Gens |-> "off"]
  /\ SigChan = [g \in Gens |-> "none"] /\ sig = [g \in Gens |-> "off"]
  /\ Shutdown = FALSE
  /\ proc = "up"

-----------------------------------------------------------------------------
(***************************************************************************)
(* Helpers: panics, writes, tracked goroutines.                            *)
(***************************************************************************)

Crash(cause) == proc' = cause /\ UNCHANGED rest

\* What a method that only writes to StanzaWriter does before it can write.
SendFault == IF StanzaWriter = 0 THEN "nilWriter" ELSE "none"

\* The same with Talk.JID() among the arguments: c.jid of a nil client.
JidFault == IF Talk = Nil THEN "nilClient" ELSE SendFault

\* Recv and SendKeepAlive use the fields p and conn of the client itself.
ClientFault == IF Talk = Nil THEN "nilClient"
               ELSE IF Talk = Blank THEN "blankClient" ELSE "none"

\* A write succeeds, also into a connection nobody answers on; on a broken
\* one it may fail.
WriteResults(c) == IF conn[c] = "broken" THEN BOOLEAN ELSE {TRUE}

\* The tracked goroutines that have not returned.
LoopLive   == {g \in Gens : loop[g] \notin {"off", "done"}}
ProbeLive  == {g \in Gens : probe[g] \notin {"off", "done"}}
RedisLive  == {g \in Gens : redis[g] = "range"}
SigLive    == {g \in Gens : sig[g] # "off"}
JoinLive   == {x \in Gens \X Rooms : join[x[1]][x[2]] \notin {"off", "done"}}
RotateLive == {x \in Gens \X (Rooms \cup {Server}) :
                 rotate[x[1]][x[2]] \notin {"off", "done"}}
Live == Cardinality(LoopLive) + Cardinality(ProbeLive) + Cardinality(RedisLive)
      + Cardinality(SigLive) + Cardinality(JoinLive) + Cardinality(RotateLive)
      + pings

\* GTomb.Go: either the tomb is dead and the caller panics, or the tomb
\* counts one more goroutine and `started' says which.
Go(started) ==
  \/ TombGoPanics(GTomb) /\ Crash("deadTomb")
  \/ /\ ~TombGoPanics(GTomb)
     /\ GTomb' = TombGo(GTomb)
     /\ started
     /\ UNCHANGED <<inherited, proc>>

\* The end of a tracked goroutine.
Return(failed) == GTomb' = TombReturn(GTomb, failed) /\ UNCHANGED inherited

\* Where the goroutines of joinMuc and RotateStatus of a room go next.
JoinTo(g, r, there) == join' = [join EXCEPT ![g] = [@ EXCEPT ![r] = there]]
RotateTo(g, r, there) == rotate' = [rotate EXCEPT ![g] = [@ EXCEPT ![r] = there]]

-----------------------------------------------------------------------------
(***************************************************************************)
(* main()                                                                  *)
(***************************************************************************)

\* A turn of the loop starts: a blank client replaces the one before, which
\* is not closed, and IsConnected keeps its value.
MainTalk ==
  /\ main = "reset" /\ gen < MaxGen
  /\ gen' = gen + 1 /\ Talk' = Blank /\ main' = "tomb"
  /\ UNCHANGED <<tombVars, connecting, IsConnected, overtaken, StanzaWriter, conn,
                 RoomsConnected, loopVars, bgVars, sigVars, proc>>

\* GTomb is overwritten, whatever still runs.
MainTomb ==
  /\ main = "tomb"
  /\ GTomb' = NewTomb /\ inherited' = Live /\ main' = "sig"
  /\ UNCHANGED <<gen, linkVars, conn, RoomsConnected, loopVars, bgVars, sigVars,
                 proc>>

MainGoSig ==
  /\ main = "sig"
  /\ Go(/\ sig' = [sig EXCEPT ![gen] = "range"]
        /\ SigChan' = [SigChan EXCEPT ![gen] = "empty"]
        /\ main' = "redis"
        /\ UNCHANGED <<gen, linkVars, conn, RoomsConnected, loopVars, bgVars,
                       Shutdown>>)

MainGoRedis ==
  /\ main = "redis"
  /\ Go(/\ redis' = [redis EXCEPT ![gen] = "range"]
        /\ main' = "loop"
        /\ UNCHANGED <<gen, linkVars, conn, RoomsConnected, loopVars, probe,
                       mucProbe, pings, join, rotate, sigVars>>)

MainGoLoop ==
  /\ main = "loop"
  /\ Go(/\ loop' = [loop EXCEPT ![gen] = "reset"]
        /\ main' = "dying"
        /\ UNCHANGED <<gen, linkVars, conn, RoomsConnected, recvOn, bgVars,
                       sigVars>>)

\* <-GTomb.Dying(), then the sleep of ReconnectDelay.
MainDying ==
  /\ main = "dying" /\ TombDying(GTomb)
  /\ main' = "sleep"
  /\ UNCHANGED <<gen, tombVars, linkVars, conn, RoomsConnected, loopVars,
                 bgVars, sigVars, proc>>

MainWake ==
  /\ main = "sleep" /\ main' = "reset"
  /\ UNCHANGED <<gen, tombVars, linkVars, conn, RoomsConnected, loopVars,
                 bgVars, sigVars, proc>>

MainStep == MainTalk \/ MainTomb \/ MainGoSig \/ MainGoRedis \/ MainGoLoop
            \/ MainDying \/ MainWake

-----------------------------------------------------------------------------
(***************************************************************************)
(* myLoop() and EstablishConnection()                                      *)
(***************************************************************************)

LoopAt(g, here, there) == loop[g] = here /\ loop' = [loop EXCEPT ![g] = there]

LoopReturn(g, failed) ==
  loop' = [loop EXCEPT ![g] = "done"] /\ Return(failed)

\* The globals at the head of myLoop.
LoopReset(g) ==
  /\ LoopAt(g, "reset", "guard")
  /\ RoomsConnected' = {}
  /\ UNCHANGED <<mainVars, tombVars, linkVars, conn, recvOn, bgVars, sigVars,
                 proc>>

\* A loop is between lines 27 and 53 of lib.go: before the flags are both set,
\* while they are, and after the first of them is taken back.
Entering(g) == loop[g] \in {"mark", "clear"}
Dialing(g)  == loop[g] \in {"dial", "auth", "keepalive", "join", "flags"}
Leaving(g)  == loop[g] = "up"
Inside(g)   == Entering(g) \/ Dialing(g) \/ Leaving(g)

\* Line 27 is reached, perhaps with another loop still on its way to line 53.
Enter(g, here) ==
  /\ LoopAt(g, here, "mark")
  /\ overtaken' = (overtaken \/ \E h \in Gens \ {g} : Inside(h))

\* if connecting && !IsConnected { return nil }: the first operand ...
LoopGuard(g) ==
  /\ IF connecting THEN LoopAt(g, "guard", "test") /\ UNCHANGED overtaken
                   ELSE Enter(g, "guard")
  /\ UNCHANGED <<mainVars, tombVars, connecting, IsConnected, Talk, StanzaWriter,
                 conn, RoomsConnected, recvOn, bgVars, sigVars, proc>>

\* ... and the second.
LoopTest(g) ==
  /\ IF IsConnected THEN Enter(g, "test")
                    ELSE LoopAt(g, "test", "spawn") /\ UNCHANGED overtaken
  /\ UNCHANGED <<mainVars, tombVars, connecting, IsConnected, Talk, StanzaWriter,
                 conn, RoomsConnected, recvOn, bgVars, sigVars, proc>>

\* Mutant: connecting is left as it was.
LoopMark_Unmarked(g) ==
  /\ LoopAt(g, "mark", "clear")
  /\ UNCHANGED <<mainVars, tombVars, linkVars, conn, RoomsConnected, recvOn, bgVars,
                 sigVars, proc>>

LoopMark(g) ==
  /\ LoopAt(g, "mark", "clear") /\ connecting' = TRUE
  /\ UNCHANGED <<mainVars, tombVars, IsConnected, overtaken, Talk, StanzaWriter,
                 conn, RoomsConnected, recvOn, bgVars, sigVars, proc>>

\* Mutant: IsConnected is left as it was.
LoopClear_StillConnected(g) ==
  /\ LoopAt(g, "clear", "dial") /\ RoomsConnected' = {}
  /\ UNCHANGED <<mainVars, tombVars, linkVars, conn, recvOn, bgVars, sigVars, proc>>

LoopClear(g) ==
  /\ LoopAt(g, "clear", "dial") /\ IsConnected' = FALSE /\ RoomsConnected' = {}
  /\ UNCHANGED <<mainVars, tombVars, connecting, overtaken, Talk, StanzaWriter,
                 conn, recvOn, bgVars, sigVars, proc>>

\* NewClient() fails: Talk is nil, connecting stays TRUE, the error kills.
ClientFails(g) ==
  /\ Talk' = Nil /\ LoopReturn(g, TRUE)
  /\ UNCHANGED <<mainVars, connecting, IsConnected, overtaken, StanzaWriter, conn,
                 RoomsConnected, recvOn, bgVars, sigVars, proc>>

\* The TCP connection and TLS; from here on every stanza goes to it.
LoopDial(g) ==
  \/ /\ LoopAt(g, "dial", "auth")
     /\ conn' = [conn EXCEPT ![g] = "up"] /\ StanzaWriter' = g
     /\ UNCHANGED <<mainVars, tombVars, connecting, IsConnected, overtaken, Talk,
                    RoomsConnected, recvOn, bgVars, sigVars, proc>>
  \/ loop[g] = "dial" /\ ClientFails(g)

\* Mutant: NewClient's result goes to a local variable (Talk, err := ...).
LoopAuth_Shadowed(g) ==
  \/ /\ LoopAt(g, "auth", "keepalive") /\ conn[g] = "up"
     /\ UNCHANGED <<mainVars, tombVars, linkVars, conn, RoomsConnected, recvOn,
                    bgVars, sigVars, proc>>
  \/ loop[g] = "auth" /\ conn[g] # "stalled" /\ ClientFails(g)

\* The stream is negotiated; no read of it has a deadline.
LoopAuth(g) ==
  \/ /\ LoopAt(g, "auth", "keepalive") /\ conn[g] = "up"
     /\ Talk' = g
     /\ UNCHANGED <<mainVars, tombVars, connecting, IsConnected, overtaken,
                    StanzaWriter, conn, RoomsConnected, recvOn, bgVars, sigVars,
                    proc>>
  \/ loop[g] = "auth" /\ conn[g] # "stalled" /\ ClientFails(g)

LoopKeepAlive(g) ==
  /\ loop[g] = "keepalive"
  /\ IF ClientFault # "none" THEN Crash(ClientFault)
     ELSE /\ \E ok \in WriteResults(Talk) :
               IF ok THEN LoopAt(g, "keepalive", "join") /\ UNCHANGED tombVars
                     ELSE LoopReturn(g, TRUE)
          /\ UNCHANGED <<mainVars, linkVars, conn, RoomsConnected, recvOn, bgVars,
                         sigVars, proc>>

\* One joinMuc per configured room, then RotateStatus("").
LoopGoJoin(g) ==
  /\ loop[g] = "join"
  /\ \E r \in Rooms :
       /\ join[g][r] = "off"
       /\ Go(/\ JoinTo(g, r, "disco")
             /\ UNCHANGED <<mainVars, linkVars, conn, RoomsConnected, loopVars,
                            probe, mucProbe, pings, rotate, redis, sigVars>>)

LoopGoRotate(g) ==
  /\ loop[g] = "join" /\ \A r \in Rooms : join[g][r] # "off"
  /\ Go(/\ RotateTo(g, Server, "send")
        /\ loop' = [loop EXCEPT ![g] = "flags"]
        /\ UNCHANGED <<mainVars, linkVars, conn, RoomsConnected, recvOn, probe,
                       mucProbe, pings, join, redis, sigVars>>)

\* connecting is taken back ...
LoopFlags(g) ==
  /\ LoopAt(g, "flags", "up") /\ connecting' = FALSE
  /\ UNCHANGED <<mainVars, tombVars, IsConnected, overtaken, Talk, StanzaWriter,
                 conn, RoomsConnected, recvOn, bgVars, sigVars, proc>>

\* ... and the line after it says what is connected.
LoopUp(g) ==
  /\ LoopAt(g, "up", "disco") /\ IsConnected' = TRUE
  /\ UNCHANGED <<mainVars, tombVars, connecting, overtaken, Talk, StanzaWriter,
                 conn, RoomsConnected, recvOn, bgVars, sigVars, proc>>

LoopDisco(g) ==
  /\ loop[g] = "disco"
  /\ IF JidFault # "none" THEN Crash(JidFault)
     ELSE /\ \E ok \in WriteResults(StanzaWriter) :
               IF ok THEN LoopAt(g, "disco", "spawn") /\ UNCHANGED tombVars
                     ELSE LoopReturn(g, TRUE)
          /\ UNCHANGED <<mainVars, linkVars, conn, RoomsConnected, recvOn, bgVars,
                         sigVars, proc>>

\* Mutant: the probe is started with a plain go.
LoopSpawn_Untracked(g) ==
  /\ loop[g] = "spawn"
  /\ loop' = [loop EXCEPT ![g] = "poll"]
  /\ probe' = [probe EXCEPT ![g] = "top"]
  /\ mucProbe' = [mucProbe EXCEPT ![g] = TRUE]
  /\ UNCHANGED <<mainVars, tombVars, linkVars, conn, RoomsConnected, recvOn, pings,
                 join, rotate, redis, sigVars, proc>>

\* GTomb.Go(ProbeServerLiveness), go ProbeMUCLiveness().
LoopSpawn(g) ==
  /\ loop[g] = "spawn"
  /\ Go(/\ loop' = [loop EXCEPT ![g] = "poll"]
        /\ probe' = [probe EXCEPT ![g] = "top"]
        /\ mucProbe' = [mucProbe EXCEPT ![g] = TRUE]
        /\ UNCHANGED <<mainVars, linkVars, conn, RoomsConnected, recvOn, pings,
                       join, rotate, redis, sigVars>>)

\* The head of the receive loop: break on Shutdown, sleep while not
\* connected, otherwise Recv() of whatever client Talk is now.
LoopPoll(g) ==
  /\ loop[g] = "poll"
  /\ \/ /\ Shutdown /\ LoopReturn(g, FALSE)
        /\ UNCHANGED <<mainVars, linkVars, conn, RoomsConnected, recvOn, bgVars,
                       sigVars, proc>>
     \/ ~Shutdown /\ IsConnected /\ ClientFault # "none" /\ Crash(ClientFault)
     \/ /\ ~Shutdown /\ IsConnected /\ ClientFault = "none"
        /\ LoopAt(g, "poll", "recv") /\ recvOn' = [recvOn EXCEPT ![g] = Talk]
        /\ UNCHANGED <<mainVars, tombVars, linkVars, conn, RoomsConnected, bgVars,
                       sigVars, proc>>

\* Recv returns an error, and so does myLoop.
RecvFails(g) ==
  /\ LoopReturn(g, TRUE) /\ recvOn' = [recvOn EXCEPT ![g] = 0]
  /\ UNCHANGED <<mainVars, linkVars, conn, RoomsConnected, bgVars, sigVars, proc>>

\* Mutant: myLoop returns nil when Recv fails.
LoopRecvError_Nil(g) ==
  /\ loop[g] = "recv" /\ conn[recvOn[g]] = "broken"
  /\ LoopReturn(g, FALSE) /\ recvOn' = [recvOn EXCEPT ![g] = 0]
  /\ UNCHANGED <<mainVars, linkVars, conn, RoomsConnected, bgVars, sigVars, proc>>

LoopRecvError(g) ==
  loop[g] = "recv" /\ conn[recvOn[g]] = "broken" /\ RecvFails(g)

\* ParseEvent: an error while answering kills the tomb and is not returned,
\* so the receive loop goes on.
Handled(g, ok) ==
  /\ LoopAt(g, "recv", "poll") /\ recvOn' = [recvOn EXCEPT ![g] = 0]
  /\ GTomb' = IF ok THEN GTomb ELSE TombKill(GTomb)
  /\ UNCHANGED <<mainVars, inherited, linkVars, conn, bgVars, sigVars, proc>>

\* The presence of the bot in a room.
OwnPresence(g) ==
  \E r \in Rooms : Handled(g, TRUE) /\ RoomsConnected' = RoomsConnected \cup {r}

\* A stanza arrives: a query answered through StanzaWriter, a command whose
\* Redis publish may fail, an IQ result compared with Talk.JID(), the presence
\* of the bot in a room, or one that Recv fails on while the socket is up
\* (it cannot be decoded, or Recv's own answer to it cannot be written).
LoopRecv(g) ==
  /\ loop[g] = "recv" /\ conn[recvOn[g]] = "up"
  /\ \/ \E ok \in WriteResults(StanzaWriter) :
          Handled(g, ok) /\ UNCHANGED RoomsConnected
     \/ \E ok \in BOOLEAN : Handled(g, ok) /\ UNCHANGED RoomsConnected
     \/ Talk = Nil /\ Crash("nilClient")
     \/ OwnPresence(g)
     \/ RecvFails(g)

\* What the loop does by itself, without an event from the server.
LoopStep(g) ==
  \/ LoopReset(g) \/ LoopGuard(g) \/ LoopTest(g) \/ LoopMark(g) \/ LoopClear(g)
  \/ LoopDial(g) \/ LoopAuth(g) \/ LoopKeepAlive(g) \/ LoopGoJoin(g)
  \/ LoopGoRotate(g) \/ LoopFlags(g) \/ LoopUp(g) \/ LoopDisco(g) \/ LoopSpawn(g) \/ LoopPoll(g) \/ LoopRecvError(g)

-----------------------------------------------------------------------------
(***************************************************************************)
(* The goroutines beside it.                                               *)
(***************************************************************************)

\* ProbeServerLiveness: the Shutdown check before the sleep ...
ProbeTop(g) ==
  /\ probe[g] = "top"
  /\ IF Shutdown
     THEN probe' = [probe EXCEPT ![g] = "done"] /\ Return(FALSE)
     ELSE probe' = [probe EXCEPT ![g] = "sleep"] /\ UNCHANGED tombVars
  /\ UNCHANGED <<mainVars, linkVars, conn, RoomsConnected, loopVars, mucProbe,
                 pings, join, rotate, redis, sigVars, proc>>

ProbeAgain(g, failed) ==
  /\ IF failed
     THEN probe' = [probe EXCEPT ![g] = "done"] /\ Return(TRUE)
     ELSE probe' = [probe EXCEPT ![g] = "top"] /\ UNCHANGED tombVars
  /\ UNCHANGED <<mainVars, linkVars, conn, RoomsConnected, loopVars, mucProbe,
                 pings, join, rotate, redis, sigVars, proc>>

\* ... and the probe after it: nothing unless IsConnected; a ping, or the
\* verdict that no pong came for too long, on whatever connection (module
\* ServerPing has the times); or a whitespace of the client Talk.
ProbeWake(g) ==
  /\ probe[g] = "sleep"
  /\ \/ ~IsConnected /\ ProbeAgain(g, FALSE)
     \/ IsConnected /\ JidFault # "none" /\ Crash(JidFault)
     \/ /\ IsConnected /\ JidFault = "none"
        /\ \E ok \in WriteResults(StanzaWriter) : ProbeAgain(g, ~ok)
     \/ IsConnected /\ ProbeAgain(g, TRUE)
     \/ IsConnected /\ ClientFault # "none" /\ Crash(ClientFault)
     \/ /\ IsConnected /\ ClientFault = "none"
        /\ \E ok \in WriteResults(Talk) : ProbeAgain(g, ~ok)

\* ProbeMUCLiveness never ends: it starts a tracked goroutine per ping.  Which
\* room is due for one is left open here; module Rooms has the condition.
MucPingGo(g) ==
  /\ mucProbe[g] /\ RoomsConnected # {} /\ pings < MaxPings
  /\ Go(/\ pings' = pings + 1
        /\ UNCHANGED <<mainVars, linkVars, conn, RoomsConnected, loopVars, probe,
                       mucProbe, join, rotate, redis, sigVars>>)

MucPingSend ==
  /\ pings > 0
  /\ IF JidFault # "none" THEN Crash(JidFault)
     ELSE /\ pings' = pings - 1 /\ Return(FALSE)
          /\ UNCHANGED <<mainVars, linkVars, conn, RoomsConnected, loopVars,
                         probe, mucProbe, join, rotate, redis, sigVars, proc>>

\* joinMuc and RotateStatus: one goroutine leaves its state and may return.
JoinSend(g, r, here, there) ==
  /\ join[g][r] = here
  /\ \E ok \in WriteResults(StanzaWriter) :
       IF ok THEN JoinTo(g, r, there) /\ UNCHANGED tombVars
             ELSE JoinTo(g, r, "done") /\ Return(TRUE)
  /\ UNCHANGED <<mainVars, linkVars, conn, RoomsConnected, loopVars, probe,
                 mucProbe, pings, rotate, redis, sigVars, proc>>

JoinDisco(g, r) ==
  IF JidFault # "none" THEN join[g][r] = "disco" /\ Crash(JidFault)
  ELSE JoinSend(g, r, "disco", "caps")

\* After the wait for the features of the room (found, or timed out).
JoinMUC(g, r) ==
  IF SendFault # "none" THEN join[g][r] = "caps" /\ Crash(SendFault)
  ELSE JoinSend(g, r, "caps", "enter")

\* Mutant: joinMuc starts RotateStatus and its own end is not counted.
JoinEntered_NoReturn(g, r) ==
  /\ join[g][r] = "enter" /\ r \in RoomsConnected
  /\ ~TombGoPanics(GTomb)
  /\ GTomb' = TombGo(GTomb)
  /\ JoinTo(g, r, "done")
  /\ RotateTo(g, r, "send")
  /\ UNCHANGED <<mainVars, inherited, linkVars, conn, RoomsConnected,
                 loopVars, probe, mucProbe, pings, redis, sigVars, proc>>

\* The room shows up in RoomsConnected within 20 * ConnectionTimeout polls.
JoinEntered(g, r) ==
  /\ join[g][r] = "enter" /\ r \in RoomsConnected
  /\ \/ TombGoPanics(GTomb) /\ Crash("deadTomb")
     \/ /\ ~TombGoPanics(GTomb)
        /\ GTomb' = TombReturn(TombGo(GTomb), FALSE)
        /\ JoinTo(g, r, "done")
        /\ RotateTo(g, r, "send")
        /\ UNCHANGED <<mainVars, inherited, linkVars, conn, RoomsConnected,
                       loopVars, probe, mucProbe, pings, redis, sigVars, proc>>

\* The same end without an error: the features ask for a password, or the room
\* does not show up in time.
JoinGivesUp(g, r) ==
  /\ join[g][r] \in {"caps", "enter"} /\ JoinTo(g, r, "done") /\ Return(FALSE)
  /\ UNCHANGED <<mainVars, linkVars, conn, RoomsConnected, loopVars, probe,
                 mucProbe, pings, rotate, redis, sigVars, proc>>

RotateSend(g, r) ==
  /\ rotate[g][r] = "send"
  /\ IF SendFault # "none" THEN Crash(SendFault)
     ELSE /\ \E ok \in WriteResults(StanzaWriter) :
               IF ok /\ Rotation
               THEN RotateTo(g, r, "sleep") /\ UNCHANGED tombVars
               ELSE RotateTo(g, r, "done") /\ Return(~ok)
          /\ UNCHANGED <<mainVars, linkVars, conn, RoomsConnected, loopVars,
                         probe, mucProbe, pings, join, redis, sigVars, proc>>

RotateWake(g, r) ==
  /\ rotate[g][r] = "sleep" /\ RotateTo(g, r, "send")
  /\ UNCHANGED <<mainVars, tombVars, linkVars, conn, RoomsConnected, loopVars,
                 probe, mucProbe, pings, join, redis, sigVars, proc>>

\* RedisLoop gets a message: it returns on Shutdown, otherwise writes the
\* message to StanzaWriter, and an error of that is only logged.
RedisMessage(g) ==
  /\ redis[g] = "range"
  /\ \/ /\ Shutdown /\ redis' = [redis EXCEPT ![g] = "done"] /\ Return(FALSE)
        /\ UNCHANGED <<mainVars, linkVars, conn, RoomsConnected, loopVars, probe,
                       mucProbe, pings, join, rotate, sigVars, proc>>
     \/ ~Shutdown /\ SendFault # "none" /\ Crash(SendFault)

-----------------------------------------------------------------------------
(***************************************************************************)
(* Signals and the network.                                                *)
(***************************************************************************)

\* SIGINT reaches every channel given to signal.Notify (each holds one);
\* before the first Notify it ends the process.
Interrupt ==
  /\ Interrupts
  /\ SigChan' = [g \in Gens |-> IF SigChan[g] = "none" THEN "none" ELSE "full"]
  /\ proc' = IF \A g \in Gens : SigChan[g] = "none" THEN "exited" ELSE proc
  /\ UNCHANGED <<mainVars, tombVars, linkVars, conn, RoomsConnected, loopVars,
                 bgVars, sig, Shutdown>>

\* Mutant: the handler goes back to its channel without an exit.
SigTake_Resumes(g) ==
  /\ sig[g] = "range" /\ SigChan[g] = "full"
  /\ SigChan' = [SigChan EXCEPT ![g] = "empty"]
  /\ Shutdown' = TRUE
  /\ UNCHANGED <<mainVars, tombVars, linkVars, conn, RoomsConnected, loopVars,
                 bgVars, sig, proc>>

SigTake(g) ==
  /\ sig[g] = "range" /\ SigChan[g] = "full"
  /\ sig' = [sig EXCEPT ![g] = "closing"]
  /\ SigChan' = [SigChan EXCEPT ![g] = "empty"]
  /\ Shutdown' = TRUE
  /\ UNCHANGED <<mainVars, tombVars, linkVars, conn, RoomsConnected, loopVars,
                 bgVars, proc>>

\* os.Exit(0), after the closing that module SettingsStore models.
SigExit(g) ==
  /\ sig[g] = "closing" /\ proc' = "exited" /\ UNCHANGED rest

SigStep(g) == SigTake(g) \/ SigExit(g)

\* The server or the path to it stops answering, or the socket fails.
ConnFails(g) ==
  /\ \/ conn[g] = "up" /\ conn' = [conn EXCEPT ![g] = "stalled"]
     \/ conn[g] \in {"up", "stalled"} /\ conn' = [conn EXCEPT ![g] = "broken"]
  /\ UNCHANGED <<mainVars, tombVars, linkVars, RoomsConnected, loopVars, bgVars,
                 sigVars, proc>>

RoomStep(g, r) == JoinDisco(g, r) \/ JoinMUC(g, r) \/ JoinEntered(g, r)
                  \/ JoinGivesUp(g, r)

StatusStep(g, r) == RotateSend(g, r) \/ RotateWake(g, r)

Next ==
  /\ proc = "up"
  /\ \/ MainStep
     \/ \E g \in Gens :
          \/ LoopStep(g) \/ LoopRecv(g)
          \/ ProbeTop(g) \/ ProbeWake(g) \/ MucPingGo(g)
          \/ \E r \in Rooms : RoomStep(g, r)
          \/ \E r \in Rooms \cup {Server} : StatusStep(g, r)
          \/ RedisMessage(g) \/ SigStep(g) \/ ConnFails(g)
     \/ MucPingSend
     \/ Interrupt

Spec == Init /\ [][Next]_vars

\* The Go scheduler runs every goroutine that can run, a sleep ends, and a
\* dial or a handshake with a peer that answers ends.  Nothing is assumed
\* of the server, of Redis messages or of the user.
Fairness ==
  /\ WF_vars(proc = "up" /\ MainStep)
  /\ \A g \in Gens :
       /\ WF_vars(proc = "up" /\ LoopStep(g))
       /\ WF_vars(proc = "up" /\ (ProbeTop(g) \/ ProbeWake(g)))
       /\ WF_vars(proc = "up" /\ SigStep(g))

FairSpec == Spec /\ Fairness

-----------------------------------------------------------------------------
(***************************************************************************)
(* Properties                                                              *)
(***************************************************************************)

LoopPC == {"off", "reset", "guard", "test", "mark", "clear", "dial", "auth",
           "keepalive", "join", "flags", "up", "disco", "spawn", "poll", "recv",
           "done"}

TypeMain ==
  /\ main \in {"reset", "tomb", "sig", "redis", "loop", "dying", "sleep"}
  /\ gen \in 0 .. MaxGen

TypeTomb == GTomb \in TombType /\ inherited \in Nat

TypeLink ==
  /\ connecting \in BOOLEAN /\ IsConnected \in BOOLEAN /\ overtaken \in BOOLEAN
  /\ Talk \in {Nil, Blank} \cup Gens /\ StanzaWriter \in {0} \cup Gens

TypeConn == conn \in [Gens -> {"none", "up", "stalled", "broken"}]

TypeLoop == loop \in [Gens -> LoopPC] /\ recvOn \in [Gens -> {0} \cup Gens]

TypeBg ==
  /\ probe \in [Gens -> {"off", "top", "sleep", "done"}]
  /\ mucProbe \in [Gens -> BOOLEAN] /\ pings \in 0 .. MaxPings
  /\ join \in [Gens -> [Rooms -> {"off", "disco", "caps", "enter", "done"}]]
  /\ rotate \in [Gens -> [Rooms \cup {Server} -> {"off", "send", "sleep", "done"}]]
  /\ redis \in [Gens -> {"off", "range", "done"}]

TypeSig ==
  /\ SigChan \in [Gens -> {"none", "empty", "full"}]
  /\ sig \in [Gens -> {"off", "range", "closing"}] /\ Shutdown \in BOOLEAN

TypeProc == proc \in {"up", "exited"} \cup Causes

\* Type invariant of the session state, one part per group of variables.
TypeOK == /\ TypeMain /\ TypeTomb /\ TypeLink /\ TypeConn /\ RoomsConnected \subseteq Rooms
          /\ TypeLoop /\ TypeBg /\ TypeSig /\ TypeProc

\* `connecting' is there so that nobody fights over the connection
\* (globals.go:30): one loop at a time is between line 27 and line 53 of lib.go.
DialExclusive == \A g, h \in Gens : Inside(g) /\ Inside(h) => g = h

\* Stanzas are written through a package global, not through the client: unless
\* two loops have been let in at a time, the connection they go to while
\* IsConnected is the one the receive loop reads, or main() has just put a
\* blank client into Talk.
WriterFollowsTalk ==
  IsConnected /\ ~overtaken => StanzaWriter # 0 /\ Talk \in {Blank, StanzaWriter}

\* The tomb's counter is short by exactly the goroutines that main() left
\* running when it overwrote the tomb: no path forgets or doubles a Go.
TombAccounting == GTomb.alive = Live - inherited

\* What makes every Go start a goroutine that is not running yet, so that the
\* count is exact: where main() is tells which goroutines of its generation
\* are still to come, and where a loop is which ones it has started.
Fresh(g) ==
  /\ g > gen \/ (g = gen /\ main \in {"tomb", "sig"}) => sig[g] = "off"
  /\ g > gen \/ (g = gen /\ main \in {"tomb", "sig", "redis"}) => redis[g] = "off"
  /\ g > gen \/ (g = gen /\ main \in {"tomb", "sig", "redis", "loop"}) => loop[g] = "off"

BeforeJoin == {"off", "reset", "guard", "test", "mark", "clear", "dial", "auth",
               "keepalive"}

Stages(g) ==
  /\ loop[g] \in BeforeJoin => \A r \in Rooms : join[g][r] = "off"
  /\ loop[g] \in BeforeJoin \cup {"join"} => rotate[g][Server] = "off"
  /\ loop[g] \in BeforeJoin \cup {"join", "flags", "up", "disco", "spawn"}
       => probe[g] = "off" /\ ~mucProbe[g]
  /\ \A r \in Rooms : join[g][r] # "done" => rotate[g][r] = "off"

SpawnInv ==
  /\ main # "reset" => gen \in Gens
  /\ \A g \in Gens : Fresh(g) /\ Stages(g)

\* The inductive invariant of the count.
TombInv == TypeOK /\ SpawnInv /\ TombAccounting

\* The first session never dereferences a client that is nil or blank and
\* never calls Go on a dead tomb; these crashes need a second generation.
FirstSessionCrashFree == proc \in Causes \ {"nilWriter"} => gen > 1

\* The slot for the connection, as the flags and the loops show it.
phase == IF overtaken THEN "contested"
         ELSE IF \E g \in Gens : Entering(g) THEN "entering"
         ELSE IF \E g \in Gens : Dialing(g) THEN "dialing"
         ELSE IF \E g \in Gens : Leaving(g) THEN "leaving"
         ELSE IF IsConnected THEN "connected"
         ELSE IF connecting THEN "wedged" ELSE "idle"
owner == IF ~overtaken /\ \E g \in Gens : Inside(g)
         THEN CHOOSE g \in Gens : Inside(g) ELSE 0

Slot == INSTANCE ConnSlot WITH Owners <- Gens

\* The program implements the slot: once a loop has marked it and until it
\* takes the mark off nobody else gets in, whatever the interleaving of the
\* unlocked tests and writes, and once lost the slot is lost for ever.
ImplementsSlot == Slot!SlotSpec

\* What is about to end the turn of main(): the tomb is dying, whoever killed
\* it, or the loop of this turn reads a socket that broke.
Ending ==
  \/ main = "dying" /\ TombDying(GTomb)
  \/ gen \in Gens /\ loop[gen] = "recv" /\ conn[recvOn[gen]] = "broken"

\* A session that had connected and is ended, by its socket, by a publish that
\* failed or by the verdict of a probe, is followed by an attempt to connect
\* again, unless the program is stopped or has crashed.
BrokenSessionRedials ==
  (gen < MaxGen /\ IsConnected /\ (\A g \in Gens : ~Inside(g)) /\ ~Shutdown /\ Ending)
  ~> ((\E g \in Gens : loop[g] = "dial") \/ Shutdown \/ proc # "up")

\* SIGINT delivered to a handler ends the process.
InterruptExits == (\E g \in Gens : SigChan[g] = "full") ~> proc # "up"

\* Whatever ended the attempt or the session, the program connects again
\* after reconnect_delay (data/sample_config.json:42).
FailureRedials ==
  \A g \in 1 .. MaxGen - 1 :
    (loop[g] = "done" /\ ~Shutdown)
    ~> ((\E h \in Gens : h > g /\ loop[h] = "dial") \/ Shutdown \/ proc # "up")
=============================================================================
