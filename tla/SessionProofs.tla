--------------------------- MODULE SessionProofs ----------------------------
(***************************************************************************)
(* Proofs about Session for every number of generations and every set of   *)
(* rooms.                                                                  *)
(***************************************************************************)
EXTENDS Session, FiniteSetTheorems, TLAPS

\* The operators on tombs yield tombs.
LEMMA TombTypes ==
  /\ NewTomb \in TombType
  /\ \A t \in TombType : /\ TombGo(t) \in TombType /\ TombKill(t) \in TombType
                         /\ \A b \in BOOLEAN : TombReturn(t, b) \in TombType
BY DEF TombType, NewTomb, TombGo, TombKill, TombReturn

\* The sets the goroutines are counted in are finite.
LEMMA Finite ==
  /\ IsFiniteSet(Gens) /\ IsFiniteSet(Gens \X Rooms)
  /\ IsFiniteSet(Gens \X (Rooms \cup {Server}))
<1>. DEFINE RS == Rooms \cup {Server}
<1>1. IsFiniteSet(Gens)
  BY FS_Interval, SessionAssumption DEF Gens
<1>2. IsFiniteSet(RS)
  BY FS_Union, FS_Singleton, SessionAssumption
<1>. HIDE DEF RS
<1>3. IsFiniteSet(Gens \X Rooms) /\ IsFiniteSet(Gens \X RS)
  BY <1>1, <1>2, FS_Product, SessionAssumption
<1>. QED  BY <1>1, <1>3 DEF RS

\* Each kind of goroutine has a natural number of live ones.
LEMMA CountNat ==
  /\ Cardinality(LoopLive) \in Nat /\ Cardinality(ProbeLive) \in Nat
  /\ Cardinality(RedisLive) \in Nat /\ Cardinality(SigLive) \in Nat
  /\ Cardinality(JoinLive) \in Nat /\ Cardinality(RotateLive) \in Nat
<1>1. ASSUME NEW S, IsFiniteSet(S), NEW T \in SUBSET S PROVE Cardinality(T) \in Nat
  BY <1>1, FS_Subset, FS_CardinalityType
<1>2. /\ LoopLive \in SUBSET Gens /\ ProbeLive \in SUBSET Gens
      /\ RedisLive \in SUBSET Gens /\ SigLive \in SUBSET Gens
  BY DEF LoopLive, ProbeLive, RedisLive, SigLive
<1>3. JoinLive \in SUBSET (Gens \X Rooms)
  BY DEF JoinLive
<1>4. RotateLive \in SUBSET (Gens \X (Rooms \cup {Server}))
  BY DEF RotateLive
<1>. QED  BY <1>1, <1>2, <1>3, <1>4, Finite

\* The number of live tracked goroutines is a natural number.
LEMMA LiveNat == ASSUME TypeOK PROVE Live \in Nat
<1>1. pings \in Nat
  BY SessionAssumption DEF TypeOK, TypeBg
<1>. QED  BY <1>1, CountNat DEF Live

-----------------------------------------------------------------------------
(***************************************************************************)
(* Type correctness                                                        *)
(***************************************************************************)

\* The initial state is well typed.
LEMMA InitType == Init => TypeOK
<1>. SUFFICES ASSUME Init PROVE TypeOK  OBVIOUS
<1>. USE DEF Init
<1>1. TypeMain  BY SessionAssumption DEF TypeMain
<1>2. TypeTomb  BY TombTypes DEF TypeTomb
<1>3. TypeLink  BY DEF TypeLink
<1>4. TypeConn /\ RoomsConnected \subseteq Rooms  BY DEF TypeConn
<1>5. TypeLoop  BY DEF TypeLoop, LoopPC
<1>6. TypeBg
  <2>1. /\ probe \in [Gens -> {"off", "top", "sleep", "done"}]
        /\ redis \in [Gens -> {"off", "range", "done"}]
        /\ pings \in 0 .. MaxPings
    BY SessionAssumption
  <2>2. mucProbe \in [Gens -> BOOLEAN]
    OBVIOUS
  <2>3. /\ join \in [Gens -> [Rooms -> {"off", "disco", "caps", "enter", "done"}]]
        /\ rotate \in [Gens -> [Rooms \cup {Server} -> {"off", "send", "sleep", "done"}]]
    OBVIOUS
  <2>. QED  BY <2>1, <2>2, <2>3 DEF TypeBg
<1>7. TypeSig  BY DEF TypeSig
<1>8. TypeProc  BY DEF TypeProc
<1>. QED  BY <1>1, <1>2, <1>3, <1>4, <1>5, <1>6, <1>7, <1>8 DEF TypeOK

\* A group of variables that a step leaves alone keeps its type.
LEMMA Frame ==
  ASSUME TypeOK
  PROVE  /\ UNCHANGED mainVars => TypeMain'
         /\ UNCHANGED tombVars => TypeTomb'
         /\ UNCHANGED linkVars => TypeLink'
         /\ UNCHANGED conn => TypeConn'
         /\ UNCHANGED loopVars => TypeLoop'
         /\ UNCHANGED bgVars => TypeBg'
         /\ UNCHANGED sigVars => TypeSig'
         /\ UNCHANGED proc => TypeProc'
<1>. USE DEF TypeOK
<1>1. UNCHANGED mainVars => TypeMain'  BY DEF TypeMain, mainVars
<1>2. UNCHANGED tombVars => TypeTomb'  BY DEF TypeTomb, tombVars
<1>3. UNCHANGED linkVars => TypeLink'  BY DEF TypeLink, linkVars
<1>4. UNCHANGED conn => TypeConn'  BY DEF TypeConn
<1>5. UNCHANGED loopVars => TypeLoop'  BY DEF TypeLoop, loopVars
<1>6. UNCHANGED bgVars => TypeBg'  BY DEF TypeBg, bgVars
<1>7. UNCHANGED sigVars => TypeSig'  BY DEF TypeSig, sigVars
<1>8. UNCHANGED proc => TypeProc'  BY DEF TypeProc
<1>. QED  BY <1>1, <1>2, <1>3, <1>4, <1>5, <1>6, <1>7, <1>8

\* A panic changes nothing but proc.
LEMMA CrashType == ASSUME TypeOK, NEW c \in Causes, Crash(c) PROVE TypeOK'
<1>1. TypeProc'  BY DEF Crash, TypeProc
<1>. QED  BY <1>1, Frame DEF Crash, rest, TypeOK

\* One goroutine of a room moves.
LEMMA JoinMove ==
  ASSUME TypeOK, NEW g \in Gens, NEW r \in Rooms,
         NEW s \in {"off", "disco", "caps", "enter", "done"}, JoinTo(g, r, s)
  PROVE  join' \in [Gens -> [Rooms -> {"off", "disco", "caps", "enter", "done"}]]
BY DEF TypeOK, TypeBg, JoinTo

\* One status goroutine of a room moves.
LEMMA RotateMove ==
  ASSUME TypeOK, NEW g \in Gens, NEW r \in Rooms \cup {Server},
         NEW s \in {"off", "send", "sleep", "done"}, RotateTo(g, r, s)
  PROVE  rotate' \in [Gens -> [Rooms \cup {Server} -> {"off", "send", "sleep", "done"}]]
BY DEF TypeOK, TypeBg, RotateTo

\* Tracked goroutines come and go.
LEMMA TombStep ==
  ASSUME TypeOK, inherited' = inherited,
         \/ GTomb' = TombGo(GTomb)
         \/ GTomb' = TombKill(GTomb)
         \/ \E b \in BOOLEAN : GTomb' = TombReturn(GTomb, b)
  PROVE  TypeTomb'
BY TombTypes DEF TypeOK, TypeTomb

\* What a write or a client may fail with is a cause of a panic.
LEMMA FaultCauses ==
  /\ SendFault # "none" => SendFault \in Causes
  /\ JidFault # "none" => JidFault \in Causes
  /\ ClientFault # "none" => ClientFault \in Causes
  /\ {"deadTomb", "nilClient"} \subseteq Causes
BY DEF SendFault, JidFault, ClientFault, Causes

\* The steps of main() keep the types.
LEMMA MainType == ASSUME TypeOK, MainStep PROVE TypeOK'
<1>. USE Frame DEF TypeOK
<1>1. CASE MainTalk
  <2>1. TypeMain'  BY <1>1, SessionAssumption DEF MainTalk, TypeMain
  <2>2. TypeLink'  BY <1>1 DEF MainTalk, TypeLink
  <2>. QED  BY <1>1, <2>1, <2>2 DEF MainTalk
<1>2. CASE MainTomb
  <2>1. TypeMain'  BY <1>2 DEF MainTomb, TypeMain
  <2>2. TypeTomb'  BY <1>2, TombTypes, LiveNat DEF MainTomb, TypeTomb
  <2>. QED  BY <1>2, <2>1, <2>2 DEF MainTomb
<1>3. CASE MainGoSig
  <2>. SUFFICES ASSUME ~Crash("deadTomb") PROVE TypeOK'
    BY CrashType, FaultCauses
  <2>1. TypeMain'  BY <1>3 DEF MainGoSig, Go, TypeMain
  <2>2. TypeTomb'  BY <1>3, TombStep DEF MainGoSig, Go
  <2>3. TypeSig'  BY <1>3 DEF MainGoSig, Go, TypeSig
  <2>. QED  BY <1>3, <2>1, <2>2, <2>3 DEF MainGoSig, Go
<1>4. CASE MainGoRedis
  <2>. SUFFICES ASSUME ~Crash("deadTomb") PROVE TypeOK'
    BY CrashType, FaultCauses
  <2>1. TypeMain'  BY <1>4 DEF MainGoRedis, Go, TypeMain
  <2>2. TypeTomb'  BY <1>4, TombStep DEF MainGoRedis, Go
  <2>3. TypeBg'  BY <1>4 DEF MainGoRedis, Go, TypeBg
  <2>. QED  BY <1>4, <2>1, <2>2, <2>3 DEF MainGoRedis, Go
<1>5. CASE MainGoLoop
  <2>. SUFFICES ASSUME ~Crash("deadTomb") PROVE TypeOK'
    BY CrashType, FaultCauses
  <2>1. TypeMain'  BY <1>5 DEF MainGoLoop, Go, TypeMain
  <2>2. TypeTomb'  BY <1>5, TombStep DEF MainGoLoop, Go
  <2>3. TypeLoop'  BY <1>5 DEF MainGoLoop, Go, TypeLoop, LoopPC
  <2>. QED  BY <1>5, <2>1, <2>2, <2>3 DEF MainGoLoop, Go
<1>6. CASE MainDying \/ MainWake
  <2>1. TypeMain'  BY <1>6 DEF MainDying, MainWake, TypeMain
  <2>. QED  BY <1>6, <2>1 DEF MainDying, MainWake
<1>. QED  BY MainStep, <1>1, <1>2, <1>3, <1>4, <1>5, <1>6 DEF MainStep

\* A NewClient() that fails keeps the types.
LEMMA ClientFailsType ==
  ASSUME TypeOK, NEW g \in Gens, ClientFails(g) PROVE TypeOK'
<1>. USE DEF ClientFails, LoopReturn, Return
<1>1. TypeLink'  BY DEF TypeOK, TypeLink
<1>2. TypeLoop'  BY DEF TypeOK, TypeLoop, LoopPC
<1>3. TypeTomb'  BY TombStep
<1>. QED  BY <1>1, <1>2, <1>3, Frame DEF TypeOK

\* The steps of the receive loop keep the types.
LEMMA LoopType ==
  ASSUME TypeOK, NEW g \in Gens, LoopStep(g) \/ LoopRecv(g) PROVE TypeOK'
<1>. USE Frame DEF TypeOK
<1>1. CASE LoopReset(g)
  <2>1. TypeLoop'  BY <1>1 DEF LoopReset, LoopAt, TypeLoop, LoopPC
  <2>. QED  BY <1>1, <2>1 DEF LoopReset
<1>2. CASE LoopGuard(g) \/ LoopTest(g) \/ LoopMark(g) \/ LoopClear(g)
  <2>. USE <1>2 DEF LoopGuard, LoopTest, LoopMark, LoopClear, Enter
  <2>1. TypeLoop'  BY DEF LoopAt, TypeLoop, LoopPC
  <2>2. TypeLink'  BY DEF TypeLink
  <2>. QED  BY <2>1, <2>2
<1>3. CASE LoopDial(g)
  <2>. SUFFICES ASSUME ~ClientFails(g) PROVE TypeOK'
    BY ClientFailsType
  <2>1. TypeLoop'  BY <1>3 DEF LoopDial, LoopAt, TypeLoop, LoopPC
  <2>2. TypeLink'  BY <1>3 DEF LoopDial, TypeLink
  <2>3. TypeConn'  BY <1>3 DEF LoopDial, TypeConn
  <2>. QED  BY <1>3, <2>1, <2>2, <2>3 DEF LoopDial
<1>4. CASE LoopAuth(g)
  <2>. SUFFICES ASSUME ~ClientFails(g) PROVE TypeOK'
    BY ClientFailsType
  <2>1. TypeLoop'  BY <1>4 DEF LoopAuth, LoopAt, TypeLoop, LoopPC
  <2>2. TypeLink'  BY <1>4 DEF LoopAuth, TypeLink
  <2>. QED  BY <1>4, <2>1, <2>2 DEF LoopAuth
<1>5. CASE LoopKeepAlive(g)
  <2>1. CASE ClientFault # "none"
    BY <1>5, <2>1, CrashType, FaultCauses DEF LoopKeepAlive
  <2>2. CASE ClientFault = "none"
    <3>1. TypeLoop'
      BY <1>5, <2>2 DEF LoopKeepAlive, LoopAt, LoopReturn, TypeLoop, LoopPC
    <3>2. TypeTomb'
      BY <1>5, <2>2, TombStep DEF LoopKeepAlive, LoopReturn, Return
    <3>. QED  BY <1>5, <2>2, <3>1, <3>2 DEF LoopKeepAlive
  <2>. QED  BY <2>1, <2>2
<1>6. CASE LoopGoJoin(g) \/ LoopGoRotate(g)
  <2>. SUFFICES ASSUME ~Crash("deadTomb") PROVE TypeOK'
    BY CrashType, FaultCauses
  <2>1. TypeTomb'  BY <1>6, TombStep DEF LoopGoJoin, LoopGoRotate, Go
  <2>2. CASE LoopGoJoin(g)
    <3>1. TypeBg'  BY <2>2, JoinMove DEF LoopGoJoin, Go, TypeBg
    <3>. QED  BY <2>1, <2>2, <3>1 DEF LoopGoJoin, Go
  <2>3. CASE LoopGoRotate(g)
    <3>1. TypeLoop'  BY <2>3 DEF LoopGoRotate, Go, TypeLoop, LoopPC
    <3>2. TypeBg'  BY <2>3, RotateMove DEF LoopGoRotate, Go, TypeBg
    <3>. QED  BY <2>1, <2>3, <3>1, <3>2 DEF LoopGoRotate, Go
  <2>. QED  BY <1>6, <2>2, <2>3
<1>7. CASE LoopFlags(g) \/ LoopUp(g)
  <2>1. TypeLoop'  BY <1>7 DEF LoopFlags, LoopUp, LoopAt, TypeLoop, LoopPC
  <2>2. TypeLink'  BY <1>7 DEF LoopFlags, LoopUp, TypeLink
  <2>. QED  BY <1>7, <2>1, <2>2 DEF LoopFlags, LoopUp
<1>8. CASE LoopDisco(g)
  <2>1. CASE JidFault # "none"
    BY <1>8, <2>1, CrashType, FaultCauses DEF LoopDisco
  <2>2. CASE JidFault = "none"
    <3>1. TypeLoop'
      BY <1>8, <2>2 DEF LoopDisco, LoopAt, LoopReturn, TypeLoop, LoopPC
    <3>2. TypeTomb'
      BY <1>8, <2>2, TombStep DEF LoopDisco, LoopReturn, Return
    <3>. QED  BY <1>8, <2>2, <3>1, <3>2 DEF LoopDisco
  <2>. QED  BY <2>1, <2>2
<1>9. CASE LoopSpawn(g)
  <2>. SUFFICES ASSUME ~Crash("deadTomb") PROVE TypeOK'
    BY CrashType, FaultCauses
  <2>1. TypeLoop'  BY <1>9 DEF LoopSpawn, Go, TypeLoop, LoopPC
  <2>2. TypeTomb'  BY <1>9, TombStep DEF LoopSpawn, Go
  <2>3. TypeBg'  BY <1>9 DEF LoopSpawn, Go, TypeBg
  <2>. QED  BY <1>9, <2>1, <2>2, <2>3 DEF LoopSpawn, Go
<1>10. CASE LoopPoll(g)
  <2>1. CASE ClientFault # "none" /\ Crash(ClientFault)
    BY <2>1, CrashType, FaultCauses
  <2>2. CASE ~(ClientFault # "none" /\ Crash(ClientFault))
    <3>1. TypeLoop'
      <4>1. ClientFault = "none" => Talk \in Gens
        BY DEF ClientFault, TypeLink
      <4>2. loop' \in [Gens -> LoopPC]
        BY <1>10, <2>2 DEF LoopPoll, LoopAt, LoopReturn, TypeLoop, LoopPC
      <4>3. recvOn' \in [Gens -> {0} \cup Gens]
        BY <1>10, <2>2, <4>1 DEF LoopPoll, TypeLoop
      <4>. QED  BY <4>2, <4>3 DEF TypeLoop
    <3>2. TypeTomb'  BY <1>10, <2>2, TombStep DEF LoopPoll, LoopReturn, Return
    <3>. QED  BY <1>10, <2>2, <3>1, <3>2 DEF LoopPoll
  <2>. QED  BY <2>1, <2>2
<1>11. ASSUME RecvFails(g) PROVE TypeOK'
  <2>1. TypeLoop'  BY <1>11 DEF RecvFails, LoopReturn, TypeLoop, LoopPC
  <2>2. TypeTomb'  BY <1>11, TombStep DEF RecvFails, LoopReturn, Return
  <2>. QED  BY <1>11, <2>1, <2>2 DEF RecvFails
<1>12. CASE LoopRecv(g)
  <2>1. CASE Crash("nilClient")  BY <2>1, CrashType, FaultCauses
  <2>2. ASSUME NEW ok \in BOOLEAN, Handled(g, ok), RoomsConnected' \subseteq Rooms
        PROVE  TypeOK'
    <3>1. TypeLoop'  BY <2>2 DEF Handled, LoopAt, TypeLoop, LoopPC
    <3>2. TypeTomb'
      <4>1. GTomb' = GTomb \/ GTomb' = TombKill(GTomb)  BY <2>2 DEF Handled
      <4>. QED  BY <4>1, <2>2, TombStep DEF Handled, tombVars
    <3>. QED  BY <2>2, <3>1, <3>2 DEF Handled
  <2>. QED  BY <1>11, <1>12, <2>1, <2>2 DEF LoopRecv, OwnPresence, WriteResults
<1>. QED  BY <1>1, <1>2, <1>3, <1>4, <1>5, <1>6, <1>7, <1>8, <1>9, <1>10, <1>11,
             <1>12 DEF LoopStep, LoopRecvError

\* The liveness probe of the server keeps the types.
LEMMA ProbeType ==
  ASSUME TypeOK, NEW g \in Gens, ProbeTop(g) \/ ProbeWake(g) PROVE TypeOK'
<1>. USE Frame DEF TypeOK
<1>1. CASE ProbeTop(g)
  <2>1. TypeBg'  BY <1>1 DEF ProbeTop, TypeBg
  <2>2. TypeTomb'  BY <1>1, TombStep DEF ProbeTop, Return, tombVars
  <2>. QED  BY <1>1, <2>1, <2>2 DEF ProbeTop
<1>2. ASSUME NEW b \in BOOLEAN, ProbeAgain(g, b) PROVE TypeOK'
  <2>1. TypeBg'  BY <1>2 DEF ProbeAgain, TypeBg
  <2>2. TypeTomb'  BY <1>2, TombStep DEF ProbeAgain, Return, tombVars
  <2>. QED  BY <1>2, <2>1, <2>2 DEF ProbeAgain
<1>3. CASE ProbeWake(g)
  <2>1. ASSUME NEW c \in Causes, Crash(c) PROVE TypeOK'
    BY <2>1, CrashType
  <2>. QED  BY <1>2, <1>3, <2>1, FaultCauses DEF ProbeWake, WriteResults
<1>. QED  BY <1>1, <1>3

\* The pings to the rooms keep the types.
LEMMA PingType ==
  ASSUME TypeOK, MucPingSend \/ \E g \in Gens : MucPingGo(g) PROVE TypeOK'
<1>. USE Frame DEF TypeOK
<1>1. ASSUME NEW c \in Causes, Crash(c) PROVE TypeOK'
  BY <1>1, CrashType
<1>2. ASSUME NEW g \in Gens, MucPingGo(g), ~Crash("deadTomb") PROVE TypeOK'
  <2>1. TypeBg'
    <3>1. pings' \in 0 .. MaxPings
      BY <1>2, SessionAssumption DEF MucPingGo, Go, TypeBg
    <3>. QED  BY <1>2, <3>1 DEF MucPingGo, Go, TypeBg
  <2>2. TypeTomb'  BY <1>2, TombStep DEF MucPingGo, Go
  <2>. QED  BY <1>2, <2>1, <2>2 DEF MucPingGo, Go
<1>3. ASSUME MucPingSend, JidFault = "none" PROVE TypeOK'
  <2>1. TypeBg'
    <3>1. pings' \in 0 .. MaxPings
      BY <1>3, SessionAssumption DEF MucPingSend, TypeBg
    <3>. QED  BY <1>3, <3>1 DEF MucPingSend, TypeBg
  <2>2. TypeTomb'  BY <1>3, TombStep DEF MucPingSend, Return
  <2>. QED  BY <1>3, <2>1, <2>2 DEF MucPingSend
<1>. QED  BY <1>1, <1>2, <1>3, FaultCauses DEF MucPingSend

\* Joining a room keeps the types.
LEMMA RoomType ==
  ASSUME TypeOK, NEW g \in Gens, NEW r \in Rooms, RoomStep(g, r) PROVE TypeOK'
<1>. USE Frame DEF TypeOK
<1>1. ASSUME NEW c \in Causes, Crash(c) PROVE TypeOK'
  BY <1>1, CrashType
<1>2. ASSUME NEW h, NEW t \in {"caps", "enter"}, JoinSend(g, r, h, t) PROVE TypeOK'
  <2>1. TypeBg'  BY <1>2, JoinMove DEF JoinSend, TypeBg
  <2>2. TypeTomb'  BY <1>2, TombStep DEF JoinSend, Return, tombVars
  <2>. QED  BY <1>2, <2>1, <2>2 DEF JoinSend
<1>3. CASE JoinDisco(g, r) \/ JoinMUC(g, r)
  BY <1>1, <1>2, <1>3, FaultCauses DEF JoinDisco, JoinMUC
<1>4. CASE JoinEntered(g, r)
  <2>. SUFFICES ASSUME ~Crash("deadTomb") PROVE TypeOK'
    BY <1>1, FaultCauses
  <2>1. TypeBg'  BY <1>4, JoinMove, RotateMove DEF JoinEntered, TypeBg
  <2>2. TypeTomb'  BY <1>4, TombTypes DEF JoinEntered, TypeTomb
  <2>. QED  BY <1>4, <2>1, <2>2 DEF JoinEntered
<1>5. CASE JoinGivesUp(g, r)
  <2>1. TypeBg'  BY <1>5, JoinMove DEF JoinGivesUp, TypeBg
  <2>2. TypeTomb'  BY <1>5, TombStep DEF JoinGivesUp, Return
  <2>. QED  BY <1>5, <2>1, <2>2 DEF JoinGivesUp
<1>. QED  BY <1>3, <1>4, <1>5 DEF RoomStep

\* The status goroutines keep the types.
LEMMA StatusType ==
  ASSUME TypeOK, NEW g \in Gens, NEW r \in Rooms \cup {Server}, StatusStep(g, r)
  PROVE  TypeOK'
<1>. USE Frame DEF TypeOK
<1>1. CASE SendFault # "none" /\ Crash(SendFault)
  BY <1>1, CrashType, FaultCauses
<1>2. CASE RotateSend(g, r) /\ SendFault = "none"
  <2>1. TypeBg'  BY <1>2, RotateMove DEF RotateSend, TypeBg
  <2>2. TypeTomb'  BY <1>2, TombStep DEF RotateSend, Return, tombVars
  <2>. QED  BY <1>2, <2>1, <2>2 DEF RotateSend
<1>3. CASE RotateWake(g, r)
  <2>1. TypeBg'  BY <1>3, RotateMove DEF RotateWake, TypeBg
  <2>. QED  BY <1>3, <2>1 DEF RotateWake
<1>. QED  BY <1>1, <1>2, <1>3 DEF StatusStep, RotateSend

\* Redis, the signals and the network keep the types.
LEMMA EnvType ==
  ASSUME TypeOK, NEW g \in Gens,
         RedisMessage(g) \/ SigStep(g) \/ ConnFails(g) \/ Interrupt
  PROVE  TypeOK'
<1>. USE Frame DEF TypeOK
<1>1. CASE RedisMessage(g)
  <2>. SUFFICES ASSUME ~(SendFault # "none" /\ Crash(SendFault)) PROVE TypeOK'
    BY CrashType, FaultCauses
  <2>1. TypeBg'  BY <1>1 DEF RedisMessage, TypeBg
  <2>2. TypeTomb'  BY <1>1, TombStep DEF RedisMessage, Return
  <2>. QED  BY <1>1, <2>1, <2>2 DEF RedisMessage
<1>2. CASE SigTake(g)
  <2>1. TypeSig'  BY <1>2 DEF SigTake, TypeSig
  <2>. QED  BY <1>2, <2>1 DEF SigTake
<1>3. CASE SigExit(g)
  <2>1. TypeProc'  BY <1>3 DEF SigExit, TypeProc
  <2>. QED  BY <1>3, <2>1 DEF SigExit, rest
<1>4. CASE ConnFails(g)
  <2>1. TypeConn'  BY <1>4 DEF ConnFails, TypeConn
  <2>. QED  BY <1>4, <2>1 DEF ConnFails
<1>5. CASE Interrupt
  <2>1. TypeSig'  BY <1>5 DEF Interrupt, TypeSig
  <2>2. TypeProc'  BY <1>5 DEF Interrupt, TypeProc
  <2>. QED  BY <1>5, <2>1, <2>2 DEF Interrupt
<1>. QED  BY <1>1, <1>2, <1>3, <1>4, <1>5 DEF SigStep

\* Every reachable state is well typed, whatever the number of generations
\* and rooms.
THEOREM TypeCorrect == Spec => []TypeOK
<1>1. TypeOK /\ [Next]_vars => TypeOK'
  <2>. SUFFICES ASSUME TypeOK, [Next]_vars PROVE TypeOK'
    OBVIOUS
  <2>1. CASE Next
    <3>1. 1 \in Gens  BY SessionAssumption DEF Gens
    <3>. QED
      BY <2>1, <3>1, MainType, LoopType, ProbeType, PingType, RoomType, StatusType,
         EnvType DEF Next
  <2>2. CASE UNCHANGED vars
    BY <2>2, Frame DEF vars, rest, TypeOK
  <2>. QED  BY <2>1, <2>2
<1>. QED  BY InitType, <1>1, PTL DEF Spec

-----------------------------------------------------------------------------
(***************************************************************************)
(* The tomb counts the goroutines of this turn                             *)
(***************************************************************************)

\* What a goroutine in this state contributes to the count.
Weight(s) == IF s \in {"off", "done"} THEN 0 ELSE 1

\* Two sets that agree but for one element.
LEMMA OneMoves ==
  ASSUME NEW I, IsFiniteSet(I), NEW A \in SUBSET I, NEW B \in SUBSET I, NEW i \in I,
         \A x \in I : x # i => (x \in A <=> x \in B)
  PROVE  /\ (i \in A <=> i \in B) => Cardinality(B) = Cardinality(A)
         /\ i \notin A /\ i \in B => Cardinality(B) = Cardinality(A) + 1
         /\ i \in A /\ i \notin B => Cardinality(B) = Cardinality(A) - 1
<1>1. IsFiniteSet(A)
  BY FS_Subset
<1>2. (i \in A <=> i \in B) => A = B
  OBVIOUS
<1>3. i \notin A /\ i \in B => B = A \cup {i}
  OBVIOUS
<1>4. i \in A /\ i \notin B => B = A \ {i}
  OBVIOUS
<1>5. i \notin A => Cardinality(A \cup {i}) = Cardinality(A) + 1
  BY <1>1, FS_AddElement
<1>6. i \in A => Cardinality(A \ {i}) = Cardinality(A) - 1
  BY <1>1, FS_RemoveElement
<1>. QED  BY <1>2, <1>3, <1>4, <1>5, <1>6

\* The same for each kind of goroutine: one of them moves to s.
LEMMA LoopCount ==
  ASSUME TypeOK, NEW g \in Gens, NEW s, loop' = [loop EXCEPT ![g] = s]
  PROVE  Cardinality(LoopLive') = Cardinality(LoopLive) + Weight(s) - Weight(loop[g])
<1>1. loop'[g] = s /\ \A h \in Gens : h # g => loop'[h] = loop[h]
  BY DEF TypeOK, TypeLoop
<1>2. /\ LoopLive \in SUBSET Gens /\ LoopLive' \in SUBSET Gens
      /\ \A h \in Gens : h # g => (h \in LoopLive <=> h \in LoopLive')
  BY <1>1 DEF LoopLive
<1>3. /\ Weight(loop[g]) = IF g \in LoopLive THEN 1 ELSE 0
      /\ Weight(s) = IF g \in LoopLive' THEN 1 ELSE 0
  BY <1>1 DEF LoopLive, Weight, TypeOK, TypeLoop
<1>4. /\ (g \in LoopLive <=> g \in LoopLive') => Cardinality(LoopLive') = Cardinality(LoopLive)
      /\ g \notin LoopLive /\ g \in LoopLive' => Cardinality(LoopLive') = Cardinality(LoopLive) + 1
      /\ g \in LoopLive /\ g \notin LoopLive' => Cardinality(LoopLive') = Cardinality(LoopLive) - 1
  BY <1>2, OneMoves, Finite
<1>. QED  BY <1>3, <1>4, CountNat

LEMMA ProbeCount ==
  ASSUME TypeOK, NEW g \in Gens, NEW s, probe' = [probe EXCEPT ![g] = s]
  PROVE  Cardinality(ProbeLive') = Cardinality(ProbeLive) + Weight(s) - Weight(probe[g])
<1>1. probe'[g] = s /\ \A h \in Gens : h # g => probe'[h] = probe[h]
  BY DEF TypeOK, TypeBg
<1>2. /\ ProbeLive \in SUBSET Gens /\ ProbeLive' \in SUBSET Gens
      /\ \A h \in Gens : h # g => (h \in ProbeLive <=> h \in ProbeLive')
  BY <1>1 DEF ProbeLive
<1>3. /\ Weight(probe[g]) = IF g \in ProbeLive THEN 1 ELSE 0
      /\ Weight(s) = IF g \in ProbeLive' THEN 1 ELSE 0
  BY <1>1 DEF ProbeLive, Weight, TypeOK, TypeBg
<1>4. /\ (g \in ProbeLive <=> g \in ProbeLive') => Cardinality(ProbeLive') = Cardinality(ProbeLive)
      /\ g \notin ProbeLive /\ g \in ProbeLive' => Cardinality(ProbeLive') = Cardinality(ProbeLive) + 1
      /\ g \in ProbeLive /\ g \notin ProbeLive' => Cardinality(ProbeLive') = Cardinality(ProbeLive) - 1
  BY <1>2, OneMoves, Finite
<1>. QED  BY <1>3, <1>4, CountNat

LEMMA RedisCount ==
  ASSUME TypeOK, NEW g \in Gens, NEW s \in {"range", "done"}, redis' = [redis EXCEPT ![g] = s]
  PROVE  Cardinality(RedisLive') = Cardinality(RedisLive) + Weight(s) - Weight(redis[g])
<1>1. redis'[g] = s /\ \A h \in Gens : h # g => redis'[h] = redis[h]
  BY DEF TypeOK, TypeBg
<1>2. /\ RedisLive \in SUBSET Gens /\ RedisLive' \in SUBSET Gens
      /\ \A h \in Gens : h # g => (h \in RedisLive <=> h \in RedisLive')
  BY <1>1 DEF RedisLive
<1>3. /\ Weight(redis[g]) = IF g \in RedisLive THEN 1 ELSE 0
      /\ Weight(s) = IF g \in RedisLive' THEN 1 ELSE 0
  BY <1>1 DEF RedisLive, Weight, TypeOK, TypeBg
<1>4. /\ (g \in RedisLive <=> g \in RedisLive') => Cardinality(RedisLive') = Cardinality(RedisLive)
      /\ g \notin RedisLive /\ g \in RedisLive' => Cardinality(RedisLive') = Cardinality(RedisLive) + 1
      /\ g \in RedisLive /\ g \notin RedisLive' => Cardinality(RedisLive') = Cardinality(RedisLive) - 1
  BY <1>2, OneMoves, Finite
<1>. QED  BY <1>3, <1>4, CountNat

LEMMA SigCount ==
  ASSUME TypeOK, NEW g \in Gens, NEW s \in {"range", "closing"}, sig' = [sig EXCEPT ![g] = s]
  PROVE  Cardinality(SigLive') = Cardinality(SigLive) + Weight(s) - Weight(sig[g])
<1>1. sig'[g] = s /\ \A h \in Gens : h # g => sig'[h] = sig[h]
  BY DEF TypeOK, TypeSig
<1>2. /\ SigLive \in SUBSET Gens /\ SigLive' \in SUBSET Gens
      /\ \A h \in Gens : h # g => (h \in SigLive <=> h \in SigLive')
  BY <1>1 DEF SigLive
<1>3. /\ Weight(sig[g]) = IF g \in SigLive THEN 1 ELSE 0
      /\ Weight(s) = IF g \in SigLive' THEN 1 ELSE 0
  BY <1>1 DEF SigLive, Weight, TypeOK, TypeSig
<1>4. /\ (g \in SigLive <=> g \in SigLive') => Cardinality(SigLive') = Cardinality(SigLive)
      /\ g \notin SigLive /\ g \in SigLive' => Cardinality(SigLive') = Cardinality(SigLive) + 1
      /\ g \in SigLive /\ g \notin SigLive' => Cardinality(SigLive') = Cardinality(SigLive) - 1
  BY <1>2, OneMoves, Finite
<1>. QED  BY <1>3, <1>4, CountNat

LEMMA JoinCount ==
  ASSUME TypeOK, NEW g \in Gens, NEW r \in Rooms, NEW s, JoinTo(g, r, s)
  PROVE  Cardinality(JoinLive') = Cardinality(JoinLive) + Weight(s) - Weight(join[g][r])
<1>. DEFINE I == Gens \X Rooms
            i == <<g, r>>
<1>1. \A k \in Gens, q \in Rooms :
        join'[k][q] = IF k = g /\ q = r THEN s ELSE join[k][q]
  BY DEF TypeOK, TypeBg, JoinTo
<1>2. /\ i \in I /\ JoinLive \in SUBSET I /\ JoinLive' \in SUBSET I
      /\ \A x \in I : x # i => (x \in JoinLive <=> x \in JoinLive')
  BY <1>1 DEF JoinLive
<1>3. /\ Weight(join[g][r]) = IF i \in JoinLive THEN 1 ELSE 0
      /\ Weight(s) = IF i \in JoinLive' THEN 1 ELSE 0
  BY <1>1 DEF JoinLive, Weight
<1>4. IsFiniteSet(I)  BY Finite
<1>. HIDE DEF I, i
<1>5. /\ (i \in JoinLive <=> i \in JoinLive') => Cardinality(JoinLive') = Cardinality(JoinLive)
      /\ i \notin JoinLive /\ i \in JoinLive' => Cardinality(JoinLive') = Cardinality(JoinLive) + 1
      /\ i \in JoinLive /\ i \notin JoinLive' => Cardinality(JoinLive') = Cardinality(JoinLive) - 1
  BY <1>2, <1>4, OneMoves
<1>. QED  BY <1>3, <1>5, CountNat

LEMMA RotateCount ==
  ASSUME TypeOK, NEW g \in Gens, NEW r \in Rooms \cup {Server}, NEW s, RotateTo(g, r, s)
  PROVE  Cardinality(RotateLive') = Cardinality(RotateLive) + Weight(s) - Weight(rotate[g][r])
<1>. DEFINE I == Gens \X (Rooms \cup {Server})
            i == <<g, r>>
<1>1. \A k \in Gens, q \in Rooms \cup {Server} :
        rotate'[k][q] = IF k = g /\ q = r THEN s ELSE rotate[k][q]
  BY DEF TypeOK, TypeBg, RotateTo
<1>2. /\ i \in I /\ RotateLive \in SUBSET I /\ RotateLive' \in SUBSET I
      /\ \A x \in I : x # i => (x \in RotateLive <=> x \in RotateLive')
  BY <1>1 DEF RotateLive
<1>3. /\ Weight(rotate[g][r]) = IF i \in RotateLive THEN 1 ELSE 0
      /\ Weight(s) = IF i \in RotateLive' THEN 1 ELSE 0
  BY <1>1 DEF RotateLive, Weight
<1>4. IsFiniteSet(I)  BY Finite
<1>. HIDE DEF I, i
<1>5. /\ (i \in RotateLive <=> i \in RotateLive') => Cardinality(RotateLive') = Cardinality(RotateLive)
      /\ i \notin RotateLive /\ i \in RotateLive' => Cardinality(RotateLive') = Cardinality(RotateLive) + 1
      /\ i \in RotateLive /\ i \notin RotateLive' => Cardinality(RotateLive') = Cardinality(RotateLive) - 1
  BY <1>2, <1>4, OneMoves
<1>. QED  BY <1>3, <1>5, CountNat

\* Goroutines of a kind that does not move keep their count.
LEMMA Steady ==
  /\ UNCHANGED loop => Cardinality(LoopLive') = Cardinality(LoopLive)
  /\ UNCHANGED probe => Cardinality(ProbeLive') = Cardinality(ProbeLive)
  /\ UNCHANGED redis => Cardinality(RedisLive') = Cardinality(RedisLive)
  /\ UNCHANGED sig => Cardinality(SigLive') = Cardinality(SigLive)
  /\ UNCHANGED join => Cardinality(JoinLive') = Cardinality(JoinLive)
  /\ UNCHANGED rotate => Cardinality(RotateLive') = Cardinality(RotateLive)
BY DEF LoopLive, ProbeLive, RedisLive, SigLive, JoinLive, RotateLive


\* A step of tomb and goroutines that is balanced keeps the account.
LEMMA Tally ==
  ASSUME TypeOK, TombAccounting, inherited' = inherited
  PROVE  /\ GTomb'.alive = GTomb.alive + 1 /\ Live' = Live + 1 => TombAccounting'
         /\ GTomb'.alive = GTomb.alive - 1 /\ Live' = Live - 1 => TombAccounting'
         /\ GTomb'.alive = GTomb.alive /\ Live' = Live => TombAccounting'
BY LiveNat DEF TombAccounting, TypeOK, TypeTomb, TombType

\* What a step that calls the tomb does to its counter.
LEMMA TombCounts ==
  ASSUME TypeOK
  PROVE  /\ GTomb' = NewTomb => GTomb'.alive = 0
         /\ GTomb' = TombGo(GTomb) => GTomb'.alive = GTomb.alive + 1
         /\ GTomb' = TombKill(GTomb) => GTomb'.alive = GTomb.alive
         /\ GTomb' = TombReturn(TombGo(GTomb), FALSE) => GTomb'.alive = GTomb.alive
BY DEF TypeOK, TypeTomb, TombType, NewTomb, TombGo, TombKill, TombReturn

LEMMA ReturnCounts ==
  ASSUME TypeOK, NEW b \in BOOLEAN, Return(b)
  PROVE  GTomb'.alive = GTomb.alive - 1 /\ inherited' = inherited
BY DEF TypeOK, TypeTomb, TombType, TombReturn, Return

\* One goroutine moves and nothing else does.
LEMMA LoopOnly ==
  ASSUME TypeOK, NEW g \in Gens, NEW s, loop' = [loop EXCEPT ![g] = s],
         UNCHANGED <<probe, redis, sig, join, rotate, pings>>
  PROVE  Live' = Live + Weight(s) - Weight(loop[g])
<1>1. Cardinality(LoopLive') = Cardinality(LoopLive) + Weight(s) - Weight(loop[g])
  BY LoopCount
<1>2. /\ Cardinality(ProbeLive') = Cardinality(ProbeLive)
      /\ Cardinality(RedisLive') = Cardinality(RedisLive)
      /\ Cardinality(SigLive') = Cardinality(SigLive)
      /\ Cardinality(JoinLive') = Cardinality(JoinLive)
      /\ Cardinality(RotateLive') = Cardinality(RotateLive)
  BY Steady
<1>3. Weight(s) \in Int /\ Weight(loop[g]) \in Int
  BY DEF Weight
<1>4. pings' = pings /\ pings \in Int
  BY DEF TypeOK, TypeBg
<1>. QED  BY <1>1, <1>2, <1>3, <1>4, CountNat DEF Live

LEMMA ProbeOnly ==
  ASSUME TypeOK, NEW g \in Gens, NEW s, probe' = [probe EXCEPT ![g] = s],
         UNCHANGED <<loop, redis, sig, join, rotate, pings>>
  PROVE  Live' = Live + Weight(s) - Weight(probe[g])
<1>1. Cardinality(ProbeLive') = Cardinality(ProbeLive) + Weight(s) - Weight(probe[g])
  BY ProbeCount
<1>2. /\ Cardinality(LoopLive') = Cardinality(LoopLive)
      /\ Cardinality(RedisLive') = Cardinality(RedisLive)
      /\ Cardinality(SigLive') = Cardinality(SigLive)
      /\ Cardinality(JoinLive') = Cardinality(JoinLive)
      /\ Cardinality(RotateLive') = Cardinality(RotateLive)
  BY Steady
<1>3. Weight(s) \in Int /\ Weight(probe[g]) \in Int
  BY DEF Weight
<1>4. pings' = pings /\ pings \in Int
  BY DEF TypeOK, TypeBg
<1>. QED  BY <1>1, <1>2, <1>3, <1>4, CountNat DEF Live

LEMMA RedisOnly ==
  ASSUME TypeOK, NEW g \in Gens, NEW s \in {"range", "done"}, redis' = [redis EXCEPT ![g] = s],
         UNCHANGED <<loop, probe, sig, join, rotate, pings>>
  PROVE  Live' = Live + Weight(s) - Weight(redis[g])
<1>1. Cardinality(RedisLive') = Cardinality(RedisLive) + Weight(s) - Weight(redis[g])
  BY RedisCount
<1>2. /\ Cardinality(LoopLive') = Cardinality(LoopLive)
      /\ Cardinality(ProbeLive') = Cardinality(ProbeLive)
      /\ Cardinality(SigLive') = Cardinality(SigLive)
      /\ Cardinality(JoinLive') = Cardinality(JoinLive)
      /\ Cardinality(RotateLive') = Cardinality(RotateLive)
  BY Steady
<1>3. Weight(s) \in Int /\ Weight(redis[g]) \in Int
  BY DEF Weight
<1>4. pings' = pings /\ pings \in Int
  BY DEF TypeOK, TypeBg
<1>. QED  BY <1>1, <1>2, <1>3, <1>4, CountNat DEF Live

LEMMA SigOnly ==
  ASSUME TypeOK, NEW g \in Gens, NEW s \in {"range", "closing"}, sig' = [sig EXCEPT ![g] = s],
         UNCHANGED <<loop, probe, redis, join, rotate, pings>>
  PROVE  Live' = Live + Weight(s) - Weight(sig[g])
<1>1. Cardinality(SigLive') = Cardinality(SigLive) + Weight(s) - Weight(sig[g])
  BY SigCount
<1>2. /\ Cardinality(LoopLive') = Cardinality(LoopLive)
      /\ Cardinality(ProbeLive') = Cardinality(ProbeLive)
      /\ Cardinality(RedisLive') = Cardinality(RedisLive)
      /\ Cardinality(JoinLive') = Cardinality(JoinLive)
      /\ Cardinality(RotateLive') = Cardinality(RotateLive)
  BY Steady
<1>3. Weight(s) \in Int /\ Weight(sig[g]) \in Int
  BY DEF Weight
<1>4. pings' = pings /\ pings \in Int
  BY DEF TypeOK, TypeBg
<1>. QED  BY <1>1, <1>2, <1>3, <1>4, CountNat DEF Live

LEMMA JoinOnly ==
  ASSUME TypeOK, NEW g \in Gens, NEW r \in Rooms, NEW s, JoinTo(g, r, s),
         UNCHANGED <<loop, probe, redis, sig, rotate, pings>>
  PROVE  Live' = Live + Weight(s) - Weight(join[g][r])
<1>1. Cardinality(JoinLive') = Cardinality(JoinLive) + Weight(s) - Weight(join[g][r])
  BY JoinCount
<1>2. /\ Cardinality(LoopLive') = Cardinality(LoopLive)
      /\ Cardinality(ProbeLive') = Cardinality(ProbeLive)
      /\ Cardinality(RedisLive') = Cardinality(RedisLive)
      /\ Cardinality(SigLive') = Cardinality(SigLive)
      /\ Cardinality(RotateLive') = Cardinality(RotateLive)
  BY Steady
<1>3. Weight(s) \in Int /\ Weight(join[g][r]) \in Int
  BY DEF Weight
<1>4. pings' = pings /\ pings \in Int
  BY DEF TypeOK, TypeBg
<1>. QED  BY <1>1, <1>2, <1>3, <1>4, CountNat DEF Live

LEMMA RotateOnly ==
  ASSUME TypeOK, NEW g \in Gens, NEW r \in Rooms \cup {Server}, NEW s, RotateTo(g, r, s),
         UNCHANGED <<loop, probe, redis, sig, join, pings>>
  PROVE  Live' = Live + Weight(s) - Weight(rotate[g][r])
<1>1. Cardinality(RotateLive') = Cardinality(RotateLive) + Weight(s) - Weight(rotate[g][r])
  BY RotateCount
<1>2. /\ Cardinality(LoopLive') = Cardinality(LoopLive)
      /\ Cardinality(ProbeLive') = Cardinality(ProbeLive)
      /\ Cardinality(RedisLive') = Cardinality(RedisLive)
      /\ Cardinality(SigLive') = Cardinality(SigLive)
      /\ Cardinality(JoinLive') = Cardinality(JoinLive)
  BY Steady
<1>3. Weight(s) \in Int /\ Weight(rotate[g][r]) \in Int
  BY DEF Weight
<1>4. pings' = pings /\ pings \in Int
  BY DEF TypeOK, TypeBg
<1>. QED  BY <1>1, <1>2, <1>3, <1>4, CountNat DEF Live

LEMMA NoneMoves ==
  ASSUME UNCHANGED <<loop, probe, redis, sig, join, rotate, pings>>
  PROVE  Live' = Live
BY Steady DEF Live

\* A step that moves none of the counted goroutines, nor main().
LEMMA SpawnFrame ==
  ASSUME SpawnInv, UNCHANGED <<mainVars, loop, probe, mucProbe, join, rotate, redis, sig>>
  PROVE  SpawnInv'
BY DEF SpawnInv, Fresh, Stages, mainVars

\* A panic changes nothing that is counted.
LEMMA CrashTomb == ASSUME TombInv, NEW c, Crash(c) PROVE SpawnInv' /\ TombAccounting'
<1>1. UNCHANGED <<mainVars, tombVars, loop, probe, mucProbe, join, rotate, redis, sig, pings>>
  BY DEF Crash, rest, loopVars, bgVars, sigVars
<1>2. SpawnInv'  BY <1>1, SpawnFrame DEF TombInv
<1>3. Live' = Live  BY <1>1, NoneMoves
<1>. QED  BY <1>1, <1>2, <1>3 DEF TombInv, TombAccounting, tombVars

\* A loop that moves on among the states that have started as much.
LEMMA LoopSpawn1 ==
  ASSUME SpawnInv, TypeOK, NEW g \in Gens, NEW s, loop' = [loop EXCEPT ![g] = s], loop[g] # "off",
         s \in BeforeJoin => loop[g] \in BeforeJoin,
         s = "join" => loop[g] \in BeforeJoin \cup {"join"},
         s \in {"flags", "up", "disco", "spawn"}
           => loop[g] \in BeforeJoin \cup {"join", "flags", "up", "disco", "spawn"},
         UNCHANGED <<mainVars, probe, mucProbe, join, rotate, redis, sig>>
  PROVE  SpawnInv'
<1>1. loop'[g] = s /\ \A h \in Gens : h # g => loop'[h] = loop[h]
  BY DEF TypeOK, TypeLoop
<1>2. ASSUME NEW h \in Gens PROVE Fresh(h)'
  BY <1>1 DEF SpawnInv, Fresh, mainVars
<1>3. ASSUME NEW h \in Gens PROVE Stages(h)'
  BY <1>1 DEF SpawnInv, Stages, BeforeJoin
<1>. QED  BY <1>2, <1>3 DEF SpawnInv, mainVars

\* The steps of main() keep the account.
LEMMA MainTombInv == ASSUME TombInv, TypeOK', MainStep PROVE SpawnInv' /\ TombAccounting'
<1>. USE DEF TombInv
<1>. SUFFICES ASSUME ~Crash("deadTomb") PROVE SpawnInv' /\ TombAccounting'
  BY CrashTomb
<1>1. CASE MainTalk \/ MainDying \/ MainWake
  <2>1. UNCHANGED <<loop, probe, mucProbe, join, rotate, redis, sig, pings, tombVars>>
    BY <1>1 DEF MainTalk, MainDying, MainWake, loopVars, bgVars, sigVars
  <2>2. TombAccounting'
    BY <2>1, NoneMoves DEF TombAccounting, tombVars
  <2>3. SpawnInv'
    <3>1. CASE MainTalk
      BY <1>1, <2>1, <3>1 DEF MainTalk, SpawnInv, Fresh, Stages, TypeOK, TypeMain, Gens
    <3>2. CASE MainDying \/ MainWake
      BY <1>1, <2>1, <3>2 DEF MainDying, MainWake, SpawnInv, Fresh, Stages
    <3>. QED  BY <1>1, <3>1, <3>2
  <2>. QED  BY <2>2, <2>3
<1>2. CASE MainTomb
  <2>1. UNCHANGED <<loop, probe, mucProbe, join, rotate, redis, sig, pings>>
    BY <1>2 DEF MainTomb, loopVars, bgVars, sigVars
  <2>2. TombAccounting'
    <3>1. Live' = Live /\ GTomb'.alive = 0 /\ inherited' = Live
      BY <1>2, <2>1, NoneMoves, TombCounts DEF MainTomb
    <3>. QED  BY <3>1, LiveNat DEF TombAccounting
  <2>3. SpawnInv'
    BY <1>2, <2>1 DEF MainTomb, SpawnInv, Fresh, Stages
  <2>. QED  BY <2>2, <2>3
<1>3. CASE MainGoSig
  <2>1. /\ gen \in Gens /\ sig[gen] = "off" /\ sig' = [sig EXCEPT ![gen] = "range"]
        /\ main = "sig" /\ main' = "redis" /\ inherited' = inherited /\ GTomb' = TombGo(GTomb)
        /\ UNCHANGED <<gen, loop, probe, mucProbe, join, rotate, redis, pings>>
    BY <1>3 DEF MainGoSig, Go, SpawnInv, Fresh, loopVars, bgVars
  <2>2. Live' = Live + Weight("range") - Weight("off")
    BY <2>1, SigOnly
  <2>3. Live' = Live + 1
    BY <2>2, LiveNat DEF Weight
  <2>4. TombAccounting'
    BY <2>1, <2>3, TombCounts, Tally
  <2>5. SpawnInv'
    <3>1. \A h \in Gens : h # gen => sig'[h] = sig[h]
      BY <2>1 DEF TypeOK, TypeSig
    <3>. QED  BY <2>1, <3>1 DEF SpawnInv, Fresh, Stages, TypeOK, TypeMain, Gens
  <2>. QED  BY <2>4, <2>5
<1>4. CASE MainGoRedis
  <2>1. /\ gen \in Gens /\ redis[gen] = "off" /\ redis' = [redis EXCEPT ![gen] = "range"]
        /\ main = "redis" /\ main' = "loop" /\ inherited' = inherited /\ GTomb' = TombGo(GTomb)
        /\ UNCHANGED <<gen, loop, probe, mucProbe, join, rotate, sig, pings>>
    BY <1>4 DEF MainGoRedis, Go, SpawnInv, Fresh, loopVars, sigVars
  <2>2. Live' = Live + Weight("range") - Weight("off")
    BY <2>1, RedisOnly
  <2>3. Live' = Live + 1
    BY <2>2, LiveNat DEF Weight
  <2>4. TombAccounting'
    BY <2>1, <2>3, TombCounts, Tally
  <2>5. SpawnInv'
    <3>1. \A h \in Gens : h # gen => redis'[h] = redis[h]
      BY <2>1 DEF TypeOK, TypeBg
    <3>. QED  BY <2>1, <3>1 DEF SpawnInv, Fresh, Stages, TypeOK, TypeMain, Gens
  <2>. QED  BY <2>4, <2>5
<1>5. CASE MainGoLoop
  <2>1. /\ gen \in Gens /\ loop[gen] = "off" /\ loop' = [loop EXCEPT ![gen] = "reset"]
        /\ main = "loop" /\ main' = "dying" /\ inherited' = inherited /\ GTomb' = TombGo(GTomb)
        /\ UNCHANGED <<gen, redis, probe, mucProbe, join, rotate, sig, pings>>
    BY <1>5 DEF MainGoLoop, Go, SpawnInv, Fresh, bgVars, sigVars
  <2>2. Live' = Live + Weight("reset") - Weight("off")
    BY <2>1, LoopOnly
  <2>3. Live' = Live + 1
    BY <2>2, LiveNat DEF Weight
  <2>4. TombAccounting'
    BY <2>1, <2>3, TombCounts, Tally
  <2>5. SpawnInv'
    <3>1. loop'[gen] = "reset" /\ \A h \in Gens : h # gen => loop'[h] = loop[h]
      BY <2>1 DEF TypeOK, TypeLoop
    <3>2. ASSUME NEW h \in Gens PROVE Fresh(h)'
      BY <2>1, <3>1 DEF SpawnInv, Fresh, TypeOK, TypeMain, Gens
    <3>3. ASSUME NEW h \in Gens PROVE Stages(h)'
      BY <2>1, <3>1 DEF SpawnInv, Stages, BeforeJoin
    <3>. QED  BY <2>1, <3>2, <3>3 DEF SpawnInv
  <2>. QED  BY <2>4, <2>5
<1>. QED  BY <1>1, <1>2, <1>3, <1>4, <1>5 DEF MainStep

\* A loop that goes on, among the states that have started as much.
LEMMA LoopGoesOn ==
  ASSUME TombInv, NEW g \in Gens, NEW s, loop' = [loop EXCEPT ![g] = s],
         loop[g] \notin {"off", "done"}, s \notin {"off", "done"},
         s \in BeforeJoin => loop[g] \in BeforeJoin,
         s = "join" => loop[g] \in BeforeJoin \cup {"join"},
         s \in {"flags", "up", "disco", "spawn"}
           => loop[g] \in BeforeJoin \cup {"join", "flags", "up", "disco", "spawn"},
         UNCHANGED <<mainVars, bgVars, sig, inherited>>,
         GTomb' = GTomb \/ GTomb' = TombKill(GTomb)
  PROVE  SpawnInv' /\ TombAccounting'
<1>. USE DEF TombInv
<1>1. UNCHANGED <<probe, mucProbe, join, rotate, redis, pings>>  BY DEF bgVars
<1>2. SpawnInv'  BY <1>1, LoopSpawn1
<1>3. Live' = Live + Weight(s) - Weight(loop[g])  BY <1>1, LoopOnly
<1>4. Live' = Live  BY <1>3, LiveNat DEF Weight
<1>5. GTomb'.alive = GTomb.alive
  BY TombCounts
<1>. QED  BY <1>2, <1>4, <1>5, Tally

\* A loop that returns.
LEMMA LoopReturns ==
  ASSUME TombInv, NEW g \in Gens, loop[g] \notin {"off", "done"}, NEW b \in BOOLEAN, LoopReturn(g, b),
         UNCHANGED <<mainVars, bgVars, sig>>
  PROVE  SpawnInv' /\ TombAccounting'
<1>. USE DEF TombInv
<1>1. UNCHANGED <<probe, mucProbe, join, rotate, redis, pings>>  BY DEF bgVars
<1>2. loop' = [loop EXCEPT ![g] = "done"] /\ Return(b)
  BY DEF LoopReturn
<1>3. SpawnInv'  BY <1>1, <1>2, LoopSpawn1 DEF BeforeJoin
<1>4. Live' = Live + Weight("done") - Weight(loop[g])  BY <1>1, <1>2, LoopOnly
<1>5. Live' = Live - 1  BY <1>4, LiveNat DEF Weight
<1>6. GTomb'.alive = GTomb.alive - 1 /\ inherited' = inherited
  BY <1>2, ReturnCounts
<1>. QED  BY <1>3, <1>5, <1>6, Tally

\* The steps of the receive loop keep the account.
LEMMA LoopTombInv ==
  ASSUME TombInv, TypeOK', NEW g \in Gens, LoopStep(g) \/ LoopRecv(g)
  PROVE  SpawnInv' /\ TombAccounting'
<1>. SUFFICES ASSUME \A c : ~Crash(c) PROVE SpawnInv' /\ TombAccounting'
  BY CrashTomb
<1>. USE DEF LoopAt
<1>1. CASE LoopReset(g)
  BY <1>1, LoopGoesOn DEF LoopReset, BeforeJoin, sigVars, tombVars
<1>2. CASE LoopGuard(g) \/ LoopTest(g) \/ LoopMark(g) \/ LoopClear(g)
  BY <1>2, LoopGoesOn DEF LoopGuard, LoopTest, LoopMark, LoopClear, Enter, BeforeJoin, sigVars,
                          tombVars
<1>3. ASSUME loop[g] \in {"dial", "auth"}, ClientFails(g) PROVE SpawnInv' /\ TombAccounting'
  BY <1>3, LoopReturns DEF ClientFails, sigVars
<1>4. CASE LoopDial(g)
  BY <1>3, <1>4, LoopGoesOn DEF LoopDial, BeforeJoin, sigVars, tombVars
<1>5. CASE LoopAuth(g)
  BY <1>3, <1>5, LoopGoesOn DEF LoopAuth, BeforeJoin, sigVars, tombVars
<1>6. CASE LoopKeepAlive(g)
  BY <1>6, LoopGoesOn, LoopReturns DEF LoopKeepAlive, BeforeJoin, sigVars, tombVars
<1>7. CASE LoopFlags(g) \/ LoopUp(g)
  BY <1>7, LoopGoesOn DEF LoopFlags, LoopUp, BeforeJoin, sigVars, tombVars
<1>8. CASE LoopDisco(g)
  BY <1>8, LoopGoesOn, LoopReturns DEF LoopDisco, BeforeJoin, sigVars, tombVars
<1>9. CASE LoopPoll(g)
  BY <1>9, LoopGoesOn, LoopReturns DEF LoopPoll, BeforeJoin, sigVars, tombVars
<1>10. ASSUME loop[g] = "recv", RecvFails(g) PROVE SpawnInv' /\ TombAccounting'
  BY <1>10, LoopReturns DEF RecvFails, sigVars
<1>11. ASSUME NEW ok \in BOOLEAN, Handled(g, ok) PROVE SpawnInv' /\ TombAccounting'
  BY <1>11, LoopGoesOn DEF Handled, BeforeJoin, sigVars
<1>12. CASE LoopRecv(g) \/ LoopRecvError(g)
  BY <1>10, <1>11, <1>12 DEF LoopRecv, LoopRecvError, OwnPresence, WriteResults
<1>13. CASE LoopGoJoin(g)
  <2>1. PICK r \in Rooms :
          /\ join[g][r] = "off" /\ JoinTo(g, r, "disco")
          /\ loop[g] = "join" /\ GTomb' = TombGo(GTomb)
          /\ UNCHANGED <<mainVars, loop, inherited, sig, probe, mucProbe, pings, rotate, redis>>
    BY <1>13 DEF LoopGoJoin, Go, loopVars, sigVars
  <2>2. Live' = Live + Weight("disco") - Weight("off")
    BY <2>1, JoinOnly DEF TombInv
  <2>3. Live' = Live + 1
    BY <2>2, LiveNat DEF Weight, TombInv
  <2>4. TombAccounting'
    BY <2>1, <2>3, TombCounts, Tally DEF TombInv
  <2>5. SpawnInv'
    <3>1. \A h \in Gens, q \in Rooms : join'[h][q] = IF h = g /\ q = r THEN "disco" ELSE join[h][q]
      BY <2>1 DEF JoinTo, TombInv, TypeOK, TypeBg
    <3>2. ASSUME NEW h \in Gens PROVE Stages(h)'
      BY <2>1, <3>1 DEF TombInv, SpawnInv, Stages, BeforeJoin
    <3>3. ASSUME NEW h \in Gens PROVE Fresh(h)'
      BY <2>1 DEF TombInv, SpawnInv, Fresh, mainVars
    <3>. QED  BY <2>1, <3>2, <3>3 DEF TombInv, SpawnInv, mainVars
  <2>. QED  BY <2>4, <2>5
<1>14. CASE LoopGoRotate(g)
  <2>1. /\ RotateTo(g, Server, "send") /\ loop' = [loop EXCEPT ![g] = "flags"]
        /\ loop[g] = "join" /\ GTomb' = TombGo(GTomb) /\ rotate[g][Server] = "off"
        /\ UNCHANGED <<mainVars, inherited, sig, probe, mucProbe, pings, join, redis>>
    BY <1>14 DEF LoopGoRotate, Go, sigVars, TombInv, SpawnInv, Stages
  <2>2. /\ Cardinality(LoopLive') = Cardinality(LoopLive) + Weight("flags") - Weight("join")
        /\ Cardinality(RotateLive') = Cardinality(RotateLive) + Weight("send") - Weight("off")
    BY <2>1, LoopCount, RotateCount DEF TombInv
  <2>3. /\ Cardinality(LoopLive') = Cardinality(LoopLive)
        /\ Cardinality(RotateLive') = Cardinality(RotateLive) + 1
    BY <2>2, CountNat DEF Weight
  <2>4. Live' = Live + 1
    <3>1. /\ Cardinality(ProbeLive') = Cardinality(ProbeLive)
          /\ Cardinality(RedisLive') = Cardinality(RedisLive)
          /\ Cardinality(SigLive') = Cardinality(SigLive)
          /\ Cardinality(JoinLive') = Cardinality(JoinLive)
      BY <2>1, Steady
    <3>2. pings' = pings /\ pings \in Int
      BY <2>1 DEF TombInv, TypeOK, TypeBg
    <3>. QED  BY <2>3, <3>1, <3>2, CountNat DEF Live
  <2>5. TombAccounting'
    BY <2>1, <2>4, TombCounts, Tally DEF TombInv
  <2>6. SpawnInv'
    <3>1. \A h \in Gens, q \in Rooms : rotate'[h][q] = rotate[h][q]
      BY <2>1, SessionAssumption DEF RotateTo, TombInv, TypeOK, TypeBg
    <3>2. \A h \in Gens : h # g => loop'[h] = loop[h] /\ rotate'[h][Server] = rotate[h][Server]
      BY <2>1 DEF RotateTo, TombInv, TypeOK, TypeBg, TypeLoop
    <3>3. loop'[g] = "flags"
      BY <2>1 DEF TombInv, TypeOK, TypeLoop
    <3>4. ASSUME NEW h \in Gens PROVE Stages(h)'
      BY <2>1, <3>1, <3>2, <3>3 DEF TombInv, SpawnInv, Stages, BeforeJoin
    <3>5. ASSUME NEW h \in Gens PROVE Fresh(h)'
      BY <2>1, <3>2, <3>3 DEF TombInv, SpawnInv, Fresh, mainVars
    <3>. QED  BY <2>1, <3>4, <3>5 DEF TombInv, SpawnInv, mainVars
  <2>. QED  BY <2>5, <2>6
<1>15. CASE LoopSpawn(g)
  <2>1. /\ probe' = [probe EXCEPT ![g] = "top"] /\ loop' = [loop EXCEPT ![g] = "poll"]
        /\ mucProbe' = [mucProbe EXCEPT ![g] = TRUE]
        /\ loop[g] = "spawn" /\ GTomb' = TombGo(GTomb) /\ probe[g] = "off"
        /\ UNCHANGED <<mainVars, inherited, sig, rotate, pings, join, redis>>
    BY <1>15 DEF LoopSpawn, Go, sigVars, TombInv, SpawnInv, Stages
  <2>2. /\ Cardinality(LoopLive') = Cardinality(LoopLive) + Weight("poll") - Weight("spawn")
        /\ Cardinality(ProbeLive') = Cardinality(ProbeLive) + Weight("top") - Weight("off")
    BY <2>1, LoopCount, ProbeCount DEF TombInv
  <2>3. /\ Cardinality(LoopLive') = Cardinality(LoopLive)
        /\ Cardinality(ProbeLive') = Cardinality(ProbeLive) + 1
    BY <2>2, CountNat DEF Weight
  <2>4. Live' = Live + 1
    <3>1. /\ Cardinality(RedisLive') = Cardinality(RedisLive)
          /\ Cardinality(SigLive') = Cardinality(SigLive)
          /\ Cardinality(JoinLive') = Cardinality(JoinLive)
          /\ Cardinality(RotateLive') = Cardinality(RotateLive)
      BY <2>1, Steady
    <3>2. pings' = pings /\ pings \in Int
      BY <2>1 DEF TombInv, TypeOK, TypeBg
    <3>. QED  BY <2>3, <3>1, <3>2, CountNat DEF Live
  <2>5. TombAccounting'
    BY <2>1, <2>4, TombCounts, Tally DEF TombInv
  <2>6. SpawnInv'
    <3>1. \A h \in Gens : h # g => /\ loop'[h] = loop[h] /\ probe'[h] = probe[h]
                                   /\ mucProbe'[h] = mucProbe[h]
      BY <2>1 DEF TombInv, TypeOK, TypeBg, TypeLoop
    <3>2. loop'[g] = "poll"
      BY <2>1 DEF TombInv, TypeOK, TypeLoop
    <3>3. ASSUME NEW h \in Gens PROVE Stages(h)'
      BY <2>1, <3>1, <3>2 DEF TombInv, SpawnInv, Stages, BeforeJoin
    <3>4. ASSUME NEW h \in Gens PROVE Fresh(h)'
      BY <2>1, <3>1, <3>2 DEF TombInv, SpawnInv, Fresh, mainVars
    <3>. QED  BY <2>1, <3>3, <3>4 DEF TombInv, SpawnInv, mainVars
  <2>. QED  BY <2>5, <2>6
<1>. QED
  BY <1>1, <1>2, <1>4, <1>5, <1>6, <1>7, <1>8, <1>9, <1>10, <1>12, <1>13, <1>14, <1>15
  DEF LoopStep

\* A goroutine of joinMuc that goes on, or returns.
LEMMA JoinGoesOn ==
  ASSUME TombInv, NEW g \in Gens, NEW r \in Rooms,
         NEW h \in {"disco", "caps", "enter"}, NEW t \in {"caps", "enter"}, JoinSend(g, r, h, t)
  PROVE  SpawnInv' /\ TombAccounting'
<1>. USE DEF TombInv
<1>1. /\ join[g][r] = h
      /\ UNCHANGED <<mainVars, loop, probe, mucProbe, pings, rotate, redis, sig>>
      /\ \/ JoinTo(g, r, t) /\ UNCHANGED tombVars
         \/ JoinTo(g, r, "done") /\ Return(TRUE)
  BY DEF JoinSend, loopVars, sigVars
<1>2. PICK s \in {"caps", "enter", "done"} :
        /\ JoinTo(g, r, s)
        /\ s # "done" => UNCHANGED tombVars
        /\ s = "done" => Return(TRUE)
  BY <1>1
<1>3. Live' = Live + Weight(s) - Weight(join[g][r])
  BY <1>1, <1>2, JoinOnly
<1>5. TombAccounting'
  <2>1. CASE s = "done"
    <3>1. Live' = Live - 1  BY <1>1, <1>3, <2>1, LiveNat DEF Weight
    <3>2. GTomb'.alive = GTomb.alive - 1 /\ inherited' = inherited
      BY <1>2, <2>1, ReturnCounts
    <3>. QED  BY <3>1, <3>2, Tally
  <2>2. CASE s # "done"
    <3>1. Live' = Live  BY <1>1, <1>2, <1>3, <2>2, LiveNat DEF Weight
    <3>2. GTomb'.alive = GTomb.alive /\ inherited' = inherited
      BY <1>2, <2>2 DEF tombVars
    <3>. QED  BY <3>1, <3>2, Tally
  <2>. QED  BY <2>1, <2>2
<1>6. SpawnInv'
  <2>1. \A k \in Gens, q \in Rooms : join'[k][q] = IF k = g /\ q = r THEN s ELSE join[k][q]
    BY <1>2 DEF JoinTo, TypeOK, TypeBg
  <2>2. ASSUME NEW k \in Gens PROVE Stages(k)'
    BY <1>1, <1>2, <2>1 DEF SpawnInv, Stages
  <2>3. ASSUME NEW k \in Gens PROVE Fresh(k)'
    BY <1>1 DEF SpawnInv, Fresh, mainVars
  <2>. QED  BY <1>1, <2>2, <2>3 DEF SpawnInv, mainVars
<1>. QED  BY <1>5, <1>6

\* Joining a room keeps the account.
LEMMA RoomTombInv ==
  ASSUME TombInv, TypeOK', NEW g \in Gens, NEW r \in Rooms, RoomStep(g, r)
  PROVE  SpawnInv' /\ TombAccounting'
<1>. SUFFICES ASSUME \A c : ~Crash(c) PROVE SpawnInv' /\ TombAccounting'
  BY CrashTomb
<1>. USE DEF TombInv
<1>1. CASE JoinDisco(g, r) \/ JoinMUC(g, r)
  BY <1>1, JoinGoesOn DEF JoinDisco, JoinMUC
<1>2. CASE JoinGivesUp(g, r)
  <2>1. /\ join[g][r] \in {"caps", "enter"} /\ JoinTo(g, r, "done")
        /\ Return(FALSE)
        /\ UNCHANGED <<mainVars, loop, probe, mucProbe, pings, rotate, redis, sig>>
    BY <1>2 DEF JoinGivesUp, loopVars, sigVars
  <2>2. Live' = Live + Weight("done") - Weight(join[g][r])
    BY <2>1, JoinOnly
  <2>3. Live' = Live - 1
    BY <2>1, <2>2, LiveNat DEF Weight
  <2>4. TombAccounting'
    BY <2>1, <2>3, ReturnCounts, Tally
  <2>5. SpawnInv'
    <3>1. \A k \in Gens, q \in Rooms : join'[k][q] = IF k = g /\ q = r THEN "done" ELSE join[k][q]
      BY <2>1 DEF JoinTo, TypeOK, TypeBg
    <3>2. ASSUME NEW k \in Gens PROVE Stages(k)'
      BY <2>1, <3>1 DEF SpawnInv, Stages
    <3>3. ASSUME NEW k \in Gens PROVE Fresh(k)'
      BY <2>1 DEF SpawnInv, Fresh, mainVars
    <3>. QED  BY <2>1, <3>2, <3>3 DEF SpawnInv, mainVars
  <2>. QED  BY <2>4, <2>5
<1>3. CASE JoinEntered(g, r)
  <2>1. /\ join[g][r] = "enter" /\ JoinTo(g, r, "done") /\ RotateTo(g, r, "send")
        /\ GTomb' = TombReturn(TombGo(GTomb), FALSE) /\ inherited' = inherited
        /\ UNCHANGED <<mainVars, loop, probe, mucProbe, pings, redis, sig>>
    BY <1>3 DEF JoinEntered, loopVars, sigVars
  <2>2. rotate[g][r] = "off"
    BY <2>1 DEF SpawnInv, Stages
  <2>3. /\ Cardinality(JoinLive') = Cardinality(JoinLive) + Weight("done") - Weight("enter")
        /\ Cardinality(RotateLive') = Cardinality(RotateLive) + Weight("send") - Weight("off")
    BY <2>1, <2>2, JoinCount, RotateCount
  <2>4. Live' = Live
    <3>1. /\ Cardinality(LoopLive') = Cardinality(LoopLive)
          /\ Cardinality(ProbeLive') = Cardinality(ProbeLive)
          /\ Cardinality(RedisLive') = Cardinality(RedisLive)
          /\ Cardinality(SigLive') = Cardinality(SigLive)
      BY <2>1, Steady
    <3>2. /\ Cardinality(JoinLive') = Cardinality(JoinLive) - 1
          /\ Cardinality(RotateLive') = Cardinality(RotateLive) + 1
      BY <2>3, CountNat DEF Weight
    <3>3. pings' = pings /\ pings \in Int
      BY <2>1 DEF TypeOK, TypeBg
    <3>. QED  BY <3>1, <3>2, <3>3, CountNat DEF Live
  <2>5. GTomb'.alive = GTomb.alive
    BY <2>1, TombCounts
  <2>6. TombAccounting'
    BY <2>1, <2>4, <2>5, Tally
  <2>7. SpawnInv'
    <3>1. \A k \in Gens, q \in Rooms : join'[k][q] = IF k = g /\ q = r THEN "done" ELSE join[k][q]
      BY <2>1 DEF JoinTo, TypeOK, TypeBg
    <3>2. \A k \in Gens, q \in Rooms \cup {Server} :
            rotate'[k][q] = IF k = g /\ q = r THEN "send" ELSE rotate[k][q]
      BY <2>1 DEF RotateTo, TypeOK, TypeBg
    <3>3. ASSUME NEW k \in Gens PROVE Stages(k)'
      BY <2>1, <3>1, <3>2, SessionAssumption DEF SpawnInv, Stages
    <3>4. ASSUME NEW k \in Gens PROVE Fresh(k)'
      BY <2>1 DEF SpawnInv, Fresh, mainVars
    <3>. QED  BY <2>1, <3>3, <3>4 DEF SpawnInv, mainVars
  <2>. QED  BY <2>6, <2>7
<1>. QED  BY <1>1, <1>2, <1>3 DEF RoomStep

\* The status goroutines keep the account.
LEMMA StatusTombInv ==
  ASSUME TombInv, TypeOK', NEW g \in Gens, NEW r \in Rooms \cup {Server}, StatusStep(g, r)
  PROVE  SpawnInv' /\ TombAccounting'
<1>. SUFFICES ASSUME \A c : ~Crash(c) PROVE SpawnInv' /\ TombAccounting'
  BY CrashTomb
<1>. USE DEF TombInv
<1>1. PICK s \in {"send", "sleep", "done"} :
        /\ RotateTo(g, r, s) /\ rotate[g][r] \in {"send", "sleep"}
        /\ UNCHANGED <<mainVars, loop, probe, mucProbe, pings, join, redis, sig>>
        /\ s # "done" => UNCHANGED tombVars
        /\ s = "done" => \E b \in BOOLEAN : Return(b)
  BY DEF StatusStep, RotateSend, RotateWake, loopVars, sigVars, WriteResults
<1>2. Live' = Live + Weight(s) - Weight(rotate[g][r])
  BY <1>1, RotateOnly
<1>4. TombAccounting'
  <2>1. CASE s = "done"
    <3>1. Live' = Live - 1  BY <1>1, <1>2, <2>1, LiveNat DEF Weight
    <3>2. GTomb'.alive = GTomb.alive - 1 /\ inherited' = inherited
      BY <1>1, <2>1, ReturnCounts
    <3>. QED  BY <3>1, <3>2, Tally
  <2>2. CASE s # "done"
    <3>1. Live' = Live  BY <1>1, <1>2, <2>2, LiveNat DEF Weight
    <3>2. GTomb'.alive = GTomb.alive /\ inherited' = inherited
      BY <1>1, <2>2 DEF tombVars
    <3>. QED  BY <3>1, <3>2, Tally
  <2>. QED  BY <2>1, <2>2
<1>5. SpawnInv'
  <2>1. \A k \in Gens, q \in Rooms \cup {Server} :
          rotate'[k][q] = IF k = g /\ q = r THEN s ELSE rotate[k][q]
    BY <1>1 DEF RotateTo, TypeOK, TypeBg
  <2>2. ASSUME NEW k \in Gens PROVE Stages(k)'
    BY <1>1, <2>1 DEF SpawnInv, Stages
  <2>3. ASSUME NEW k \in Gens PROVE Fresh(k)'
    BY <1>1 DEF SpawnInv, Fresh, mainVars
  <2>. QED  BY <1>1, <2>2, <2>3 DEF SpawnInv, mainVars
<1>. QED  BY <1>4, <1>5

\* The liveness probe of the server keeps the account.
LEMMA ProbeTombInv ==
  ASSUME TombInv, TypeOK', NEW g \in Gens, ProbeTop(g) \/ ProbeWake(g)
  PROVE  SpawnInv' /\ TombAccounting'
<1>. SUFFICES ASSUME \A c : ~Crash(c) PROVE SpawnInv' /\ TombAccounting'
  BY CrashTomb
<1>. USE DEF TombInv
<1>1. PICK s \in {"top", "sleep", "done"} :
        /\ probe' = [probe EXCEPT ![g] = s] /\ probe[g] \in {"top", "sleep"}
        /\ UNCHANGED <<mainVars, loop, mucProbe, pings, join, rotate, redis, sig>>
        /\ s # "done" => UNCHANGED tombVars
        /\ s = "done" => \E b \in BOOLEAN : Return(b)
  BY DEF ProbeTop, ProbeWake, ProbeAgain, loopVars, sigVars
<1>2. Live' = Live + Weight(s) - Weight(probe[g])
  BY <1>1, ProbeOnly
<1>4. TombAccounting'
  <2>1. CASE s = "done"
    <3>1. Live' = Live - 1  BY <1>1, <1>2, <2>1, LiveNat DEF Weight
    <3>2. GTomb'.alive = GTomb.alive - 1 /\ inherited' = inherited
      BY <1>1, <2>1, ReturnCounts
    <3>. QED  BY <3>1, <3>2, Tally
  <2>2. CASE s # "done"
    <3>1. Live' = Live  BY <1>1, <1>2, <2>2, LiveNat DEF Weight
    <3>2. GTomb'.alive = GTomb.alive /\ inherited' = inherited
      BY <1>1, <2>2 DEF tombVars
    <3>. QED  BY <3>1, <3>2, Tally
  <2>. QED  BY <2>1, <2>2
<1>5. SpawnInv'
  <2>1. probe[g] # "off" /\ \A k \in Gens : k # g => probe'[k] = probe[k]
    BY <1>1 DEF TypeOK, TypeBg
  <2>2. ASSUME NEW k \in Gens PROVE Stages(k)'
    BY <1>1, <2>1 DEF SpawnInv, Stages
  <2>3. ASSUME NEW k \in Gens PROVE Fresh(k)'
    BY <1>1 DEF SpawnInv, Fresh, mainVars
  <2>. QED  BY <1>1, <2>2, <2>3 DEF SpawnInv, mainVars
<1>. QED  BY <1>4, <1>5

\* The pings to the rooms keep the account.
LEMMA PingTombInv ==
  ASSUME TombInv, TypeOK', MucPingSend \/ \E g \in Gens : MucPingGo(g)
  PROVE  SpawnInv' /\ TombAccounting'
<1>. SUFFICES ASSUME \A c : ~Crash(c) PROVE SpawnInv' /\ TombAccounting'
  BY CrashTomb
<1>. USE DEF TombInv
<1>1. /\ UNCHANGED <<mainVars, loop, probe, mucProbe, join, rotate, redis, sig>>
      /\ \/ pings' = pings + 1 /\ GTomb' = TombGo(GTomb) /\ inherited' = inherited
         \/ pings' = pings - 1 /\ Return(FALSE)
  BY DEF MucPingSend, MucPingGo, Go, loopVars, sigVars
<1>2. SpawnInv'  BY <1>1, SpawnFrame
<1>3. /\ Cardinality(LoopLive') = Cardinality(LoopLive)
      /\ Cardinality(ProbeLive') = Cardinality(ProbeLive)
      /\ Cardinality(RedisLive') = Cardinality(RedisLive)
      /\ Cardinality(SigLive') = Cardinality(SigLive)
      /\ Cardinality(JoinLive') = Cardinality(JoinLive)
      /\ Cardinality(RotateLive') = Cardinality(RotateLive)
  BY <1>1, Steady
<1>4. pings \in Int  BY DEF TypeOK, TypeBg
<1>5. ASSUME pings' = pings + 1 PROVE Live' = Live + 1
  BY <1>3, <1>4, <1>5, CountNat DEF Live
<1>6. ASSUME pings' = pings - 1 PROVE Live' = Live - 1
  BY <1>3, <1>4, <1>6, CountNat DEF Live
<1>7. TombAccounting'
  <2>1. CASE pings' = pings + 1 /\ GTomb' = TombGo(GTomb) /\ inherited' = inherited
    BY <1>5, <2>1, TombCounts, Tally
  <2>2. CASE pings' = pings - 1 /\ Return(FALSE)
    BY <1>6, <2>2, ReturnCounts, Tally
  <2>. QED  BY <1>1, <2>1, <2>2
<1>. QED  BY <1>2, <1>7

\* Redis, the signals and the network keep the account.
LEMMA EnvTombInv ==
  ASSUME TombInv, TypeOK', NEW g \in Gens,
         RedisMessage(g) \/ SigStep(g) \/ ConnFails(g) \/ Interrupt
  PROVE  SpawnInv' /\ TombAccounting'
<1>. SUFFICES ASSUME \A c : ~Crash(c) PROVE SpawnInv' /\ TombAccounting'
  BY CrashTomb
<1>. USE DEF TombInv
<1>1. CASE RedisMessage(g)
  <2>1. /\ redis[g] = "range" /\ redis' = [redis EXCEPT ![g] = "done"]
        /\ Return(FALSE)
        /\ UNCHANGED <<mainVars, loop, probe, mucProbe, join, rotate, sig, pings>>
    BY <1>1 DEF RedisMessage, loopVars, sigVars
  <2>2. Live' = Live + Weight("done") - Weight("range")
    BY <2>1, RedisOnly
  <2>3. Live' = Live - 1
    BY <2>2, LiveNat DEF Weight
  <2>4. \A h \in Gens : redis[h] = "off" => redis'[h] = "off"
    BY <2>1 DEF TypeOK, TypeBg
  <2>5. SpawnInv'  BY <2>1, <2>4 DEF SpawnInv, Fresh, Stages, mainVars
  <2>. QED  BY <2>1, <2>3, <2>5, ReturnCounts, Tally
<1>2. CASE SigTake(g)
  <2>1. /\ sig[g] = "range" /\ sig' = [sig EXCEPT ![g] = "closing"]
        /\ UNCHANGED <<mainVars, tombVars, loop, probe, mucProbe, join, rotate, redis, pings>>
    BY <1>2 DEF SigTake, loopVars, bgVars
  <2>2. Live' = Live + Weight("closing") - Weight("range")
    BY <2>1, SigOnly
  <2>3. Live' = Live
    BY <2>2, LiveNat DEF Weight
  <2>4. \A h \in Gens : sig[h] = "off" => sig'[h] = "off"
    BY <2>1 DEF TypeOK, TypeSig
  <2>5. SpawnInv'  BY <2>1, <2>4 DEF SpawnInv, Fresh, Stages, mainVars
  <2>. QED  BY <2>1, <2>3, <2>5 DEF TombAccounting, tombVars
<1>3. CASE SigExit(g) \/ ConnFails(g) \/ Interrupt
  <2>1. UNCHANGED <<mainVars, tombVars, loop, probe, mucProbe, join, rotate, redis, sig, pings>>
    BY <1>3 DEF SigExit, ConnFails, Interrupt, rest, loopVars, bgVars, sigVars
  <2>. QED  BY <2>1, SpawnFrame, NoneMoves DEF TombAccounting, tombVars
<1>. QED  BY <1>1, <1>2, <1>3 DEF SigStep

\* The account is right when the program starts.
LEMMA TombInit == Init => TombInv
<1>. SUFFICES ASSUME Init PROVE TombInv  OBVIOUS
<1>1. TypeOK  BY InitType
<1>2. SpawnInv  BY SessionAssumption DEF Init, SpawnInv, Fresh, Stages
<1>3. TombAccounting
  <2>1. LoopLive = {} /\ ProbeLive = {} /\ RedisLive = {} /\ SigLive = {}
    BY DEF Init, LoopLive, ProbeLive, RedisLive, SigLive
  <2>2. JoinLive = {} /\ RotateLive = {}
    BY DEF Init, JoinLive, RotateLive
  <2>3. Live = 0
    BY <2>1, <2>2, FS_EmptySet DEF Init, Live
  <2>. QED  BY <2>3 DEF Init, TombAccounting, NewTomb
<1>. QED  BY <1>1, <1>2, <1>3 DEF TombInv

\* Every step keeps the account.
LEMMA TombInvStep == ASSUME TombInv, TypeOK', [Next]_vars PROVE TombInv'
<1>1. CASE Next
  <2>1. 1 \in Gens  BY SessionAssumption DEF Gens
  <2>2. SpawnInv' /\ TombAccounting'
    BY <1>1, <2>1, MainTombInv, LoopTombInv, ProbeTombInv, PingTombInv, RoomTombInv,
       StatusTombInv, EnvTombInv DEF Next
  <2>. QED  BY <2>2 DEF TombInv
<1>2. CASE UNCHANGED vars
  <2>1. UNCHANGED <<mainVars, tombVars, loop, probe, mucProbe, join, rotate, redis, sig, pings>>
    BY <1>2 DEF vars, rest, loopVars, bgVars, sigVars
  <2>. QED  BY <2>1, SpawnFrame, NoneMoves DEF TombInv, TombAccounting, tombVars
<1>. QED  BY <1>1, <1>2

\* Every Go starts a goroutine that was not running, so the account is exact,
\* whatever the number of turns, rooms and pings.
THEOREM TombCorrect == Spec => []TombInv
<1>1. TombInv /\ TypeOK' /\ [Next]_vars => TombInv'
  BY TombInvStep
<1>. QED  BY TombInit, TypeCorrect, <1>1, PTL DEF Spec

\* The tomb's counter is short by exactly the goroutines main() left behind.
THEOREM Accounted == Spec => []TombAccounting
<1>1. TombInv => TombAccounting  BY DEF TombInv
<1>. QED  BY TombCorrect, <1>1, PTL

-----------------------------------------------------------------------------
(***************************************************************************)
(* What the first session cannot die of                                    *)
(***************************************************************************)

\* No goroutine of generation g runs.
AllOff(g) ==
  /\ loop[g] = "off" /\ redis[g] = "off" /\ sig[g] = "off" /\ probe[g] = "off"
  /\ ~mucProbe[g]
  /\ \A r \in Rooms : join[g][r] = "off"
  /\ \A r \in Rooms \cup {Server} : rotate[g][r] = "off"

\* What the goroutines of generation g do.
GoroutineStep(g) ==
  \/ LoopStep(g) \/ LoopRecv(g)
  \/ ProbeTop(g) \/ ProbeWake(g) \/ MucPingGo(g)
  \/ \E r \in Rooms : RoomStep(g, r)
  \/ \E r \in Rooms \cup {Server} : StatusStep(g, r)
  \/ RedisMessage(g) \/ SigStep(g)

\* A turn main() has not begun, or has only begun, has no goroutines.
LEMMA NotStarted ==
  ASSUME TombInv, NEW g \in Gens, g > gen \/ (g = gen /\ main \in {"tomb", "sig"})
  PROVE  AllOff(g)
<1>1. loop[g] = "off" /\ redis[g] = "off" /\ sig[g] = "off"
  BY DEF TombInv, SpawnInv, Fresh
<1>2. /\ probe[g] = "off" /\ ~mucProbe[g] /\ rotate[g][Server] = "off"
      /\ \A r \in Rooms : join[g][r] = "off"
      /\ \A r \in Rooms : rotate[g][r] = "off"
  BY <1>1 DEF TombInv, SpawnInv, Stages, BeforeJoin
<1>. QED  BY <1>1, <1>2 DEF AllOff

\* Goroutines that do not run take no step.
LEMMA OffIsStill == ASSUME NEW g \in Gens, AllOff(g) PROVE ~GoroutineStep(g)
<1>. USE DEF AllOff
<1>1. ~LoopStep(g) /\ ~LoopRecv(g)
  BY DEF LoopStep, LoopAt, LoopReset, LoopGuard, LoopTest, LoopMark, LoopClear, Enter,
         LoopDial, LoopAuth, LoopKeepAlive, LoopGoJoin, LoopGoRotate, LoopFlags, LoopUp,
         LoopDisco, LoopSpawn, LoopPoll, LoopRecvError, LoopRecv
<1>2. ~ProbeTop(g) /\ ~ProbeWake(g) /\ ~MucPingGo(g) /\ ~RedisMessage(g) /\ ~SigStep(g)
  BY DEF ProbeTop, ProbeWake, MucPingGo, RedisMessage, SigStep, SigTake, SigExit
<1>3. \A r \in Rooms : ~RoomStep(g, r)
  BY DEF RoomStep, JoinDisco, JoinMUC, JoinSend, JoinEntered, JoinGivesUp
<1>4. \A r \in Rooms \cup {Server} : ~StatusStep(g, r)
  BY DEF StatusStep, RotateSend, RotateWake
<1>. QED  BY <1>1, <1>2, <1>3, <1>4 DEF GoroutineStep

\* Who takes a step.
LEMMA Steppers ==
  ASSUME Next
  PROVE  \/ MainStep \/ MucPingSend \/ Interrupt
         \/ \E g \in Gens : ConnFails(g) \/ GoroutineStep(g)
BY DEF Next, GoroutineStep

\* A tracked goroutine that runs is counted.
LEMMA HandlerCounts == ASSUME TypeOK, 1 \in Gens, sig[1] # "off" PROVE Live >= 1
<1>1. 1 \in SigLive /\ SigLive \in SUBSET Gens
  BY DEF SigLive
<1>2. IsFiniteSet(SigLive)
  BY <1>1, Finite, FS_Subset
<1>3. Cardinality(SigLive) # 0
  BY <1>1, <1>2, FS_EmptySet
<1>4. Cardinality(SigLive) >= 1
  BY <1>3, CountNat
<1>5. pings \in Nat
  BY SessionAssumption DEF TypeOK, TypeBg
<1>. QED  BY <1>4, <1>5, CountNat DEF Live

\* A tomb that the end of a goroutine leaves with others is not dead by it.
LEMMA ReturnDead ==
  ASSUME NEW t \in TombType, NEW b \in BOOLEAN, t.state # "dead", TombReturn(t, b).alive >= 1
  PROVE  TombReturn(t, b).state # "dead"
<1>1. t.alive \in Int  BY DEF TombType
<1>2. TombReturn(t, b).alive = t.alive - 1  BY DEF TombReturn
<1>3. t.alive # 1  BY <1>1, <1>2
<1>. QED  BY <1>3 DEF TombReturn

\* All a step other than MainTomb does to the tomb.
TombOp ==
  /\ inherited' = inherited
  /\ \/ GTomb' = GTomb \/ GTomb' = TombGo(GTomb) \/ GTomb' = TombKill(GTomb)
     \/ \E b \in BOOLEAN : GTomb' = TombReturn(GTomb, b)
     \/ GTomb' = TombReturn(TombGo(GTomb), FALSE)

\* A tomb that still counts somebody after a step is not dead because of it.
LEMMA StaysAlive ==
  ASSUME TypeOK, TombOp, GTomb.state # "dead", GTomb'.alive >= 1
  PROVE  GTomb'.state # "dead"
<1>1. GTomb \in TombType /\ TombGo(GTomb) \in TombType
  BY TombTypes DEF TypeOK, TypeTomb
<1>2. TombGo(GTomb).state # "dead" /\ TombKill(GTomb).state # "dead"
  BY DEF TombGo, TombKill
<1>3. ASSUME NEW b \in BOOLEAN, GTomb' = TombReturn(GTomb, b) PROVE GTomb'.state # "dead"
  BY <1>1, <1>3, ReturnDead
<1>4. ASSUME GTomb' = TombReturn(TombGo(GTomb), FALSE) PROVE GTomb'.state # "dead"
  BY <1>1, <1>2, <1>4, ReturnDead
<1>. QED  BY <1>2, <1>3, <1>4 DEF TombOp

\* Every other step does one of these to the tomb.
LEMMA TombOps == ASSUME [Next]_vars, ~MainTomb PROVE TombOp
<1>1. UNCHANGED tombVars => TombOp  BY DEF tombVars, TombOp
<1>2. \A c : Crash(c) => UNCHANGED tombVars  BY DEF Crash, rest
<1>3. \A b \in BOOLEAN : Return(b) => TombOp  BY DEF Return, TombOp
<1>4. GTomb' = TombGo(GTomb) /\ inherited' = inherited => TombOp  BY DEF TombOp
<1>5. GTomb' = TombReturn(TombGo(GTomb), FALSE) /\ inherited' = inherited => TombOp
  BY DEF TombOp
<1>6. GTomb' = TombKill(GTomb) /\ inherited' = inherited => TombOp  BY DEF TombOp
<1>7. GTomb' = GTomb /\ inherited' = inherited => TombOp  BY DEF TombOp
<1>8. CASE UNCHANGED vars  BY <1>1, <1>8 DEF vars, rest
<1>9. CASE MainStep
  BY <1>1, <1>2, <1>4, <1>9 DEF MainStep, MainTalk, MainGoSig, MainGoRedis, MainGoLoop, MainDying,
                                MainWake, Go
<1>10. CASE MucPingSend
  BY <1>2, <1>1, <1>3, <1>10 DEF MucPingSend
<1>11. ASSUME NEW g \in Gens, ConnFails(g) \/ Interrupt \/ SigStep(g) PROVE TombOp
  BY <1>1, <1>11 DEF ConnFails, Interrupt, SigStep, SigTake, SigExit, rest
<1>12. ASSUME NEW g \in Gens, LoopStep(g) PROVE TombOp
  <2>1. CASE \/ LoopReset(g) \/ LoopGuard(g) \/ LoopTest(g) \/ LoopMark(g) \/ LoopClear(g)
             \/ LoopFlags(g) \/ LoopUp(g)
    BY <1>1, <2>1 DEF LoopReset, LoopGuard, LoopTest, LoopMark, LoopClear, LoopFlags, LoopUp
  <2>2. CASE LoopDial(g) \/ LoopAuth(g)
    BY <1>1, <1>3, <2>2 DEF LoopDial, LoopAuth, ClientFails, LoopReturn
  <2>3. CASE LoopKeepAlive(g) \/ LoopDisco(g) \/ LoopPoll(g) \/ LoopRecvError(g)
    BY <1>1, <1>2, <1>3, <2>3 DEF LoopKeepAlive, LoopDisco, LoopPoll, LoopRecvError,
                                              RecvFails, LoopReturn
  <2>4. CASE LoopGoJoin(g) \/ LoopGoRotate(g) \/ LoopSpawn(g)
    BY <1>1, <1>2, <1>4, <2>4 DEF LoopGoJoin, LoopGoRotate, LoopSpawn, Go
  <2>. QED  BY <1>12, <2>1, <2>2, <2>3, <2>4 DEF LoopStep
<1>13. ASSUME NEW g \in Gens, LoopRecv(g) PROVE TombOp
  BY <1>1, <1>2, <1>3, <1>6, <1>7, <1>13
     DEF LoopRecv, OwnPresence, Handled, RecvFails, LoopReturn
<1>14. ASSUME NEW g \in Gens, ProbeTop(g) \/ ProbeWake(g) \/ MucPingGo(g) \/ RedisMessage(g)
       PROVE  TombOp
  BY <1>1, <1>2, <1>3, <1>4, <1>14 DEF ProbeTop, ProbeWake, ProbeAgain, MucPingGo, RedisMessage, Go
<1>15. ASSUME NEW g \in Gens, NEW r \in Rooms, RoomStep(g, r) PROVE TombOp
  BY <1>1, <1>2, <1>3, <1>5, <1>15
     DEF RoomStep, JoinDisco, JoinMUC, JoinSend, JoinEntered, JoinGivesUp
<1>16. ASSUME NEW g \in Gens, NEW r \in Rooms \cup {Server}, StatusStep(g, r) PROVE TombOp
  BY <1>1, <1>2, <1>3, <1>16 DEF StatusStep, RotateSend, RotateWake, WriteResults
<1>17. 1 \in Gens  BY SessionAssumption DEF Gens
<1>. QED
  BY <1>8, <1>9, <1>10, <1>11, <1>12, <1>13, <1>14, <1>15, <1>16, <1>17 DEF Next

-----------------------------------------------------------------------------
(***************************************************************************)
(* The first session does not crash                                        *)
(***************************************************************************)

\* Before the loop of the first session has a client.
PreClient == {"off", "reset", "guard", "test", "mark", "clear", "dial", "auth"}

\* Nothing runs yet that uses it.
Quiet ==
  /\ loop[1] \notin {"keepalive", "join", "flags", "up", "disco", "spawn", "poll", "recv"}
  /\ probe[1] = "off" /\ ~mucProbe[1] /\ pings = 0
  /\ \A r \in Rooms : join[1][r] = "off"
  /\ ~IsConnected

\* The inductive invariant.  The signal handler never returns, so the tomb of
\* the first turn does not run empty; whatever uses the client is started by
\* the loop that has it, and nobody takes it away before the second turn.
FirstTomb ==
  /\ inherited = 0 /\ GTomb.state # "dead"
  /\ gen = 0 => main = "reset"
  /\ gen = 1 /\ main \notin {"tomb", "sig"} => sig[1] # "off"

FirstClient ==
  /\ loop[1] # "test"
  /\ loop[1] \in {"off", "reset", "guard", "mark"} => ~connecting
  /\ loop[1] \in PreClient => Quiet
  /\ Talk = 1 \/ Quiet

FirstInv ==
  gen \in 0 .. 1 => FirstTomb /\ FirstClient /\ proc \notin Causes \ {"nilWriter"}

\* A panic the first session is spared.
Spared(p) == p \in Causes \ {"nilWriter"}

\* Where something runs that uses the client, Talk is that client.
LEMMA FirstTalk ==
  ASSUME FirstClient, ~Quiet
  PROVE  /\ Talk = 1 /\ loop[1] \notin PreClient
         /\ ClientFault = "none" /\ JidFault \in {"nilWriter", "none"}
BY DEF FirstClient, PreClient, ClientFault, JidFault, SendFault, Nil, Blank

\* ... and it stays so while Talk does.
LEMMA FirstKept ==
  ASSUME FirstClient, ~Quiet, Talk' = Talk, loop'[1] \notin PreClient
  PROVE  FirstClient'
BY FirstTalk DEF FirstClient, PreClient

\* A step that touches nothing the client part of the invariant speaks of.
LEMMA FirstStill ==
  ASSUME FirstClient,
         UNCHANGED <<Talk, connecting, IsConnected, loop, probe, mucProbe, pings, join>>
  PROVE  FirstClient'
BY DEF FirstClient, Quiet

\* A panic that is not spared keeps the client part, and a step that is no
\* panic keeps proc.
LEMMA FirstCrash ==
  ASSUME FirstClient, NEW c, Crash(c), ~Spared(c) PROVE FirstClient' /\ ~Spared(proc')
<1>1. UNCHANGED <<Talk, connecting, IsConnected, loop, probe, mucProbe, pings, join>> /\ proc' = c
  BY DEF Crash, rest, linkVars, loopVars, bgVars
<1>. QED  BY <1>1, FirstStill

\* Before the first loop has a client.
LEMMA FirstLoopEarly ==
  ASSUME TypeOK, proc = "up", FirstClient, LoopStep(1) \/ LoopRecv(1), 1 \in Gens,
         loop[1] \in PreClient
  PROVE  FirstClient' /\ ~Spared(proc')
<1>. USE DEF LoopAt, PreClient
<1>1. Quiet /\ loop[1] # "test" /\ (loop[1] \in {"off", "reset", "guard", "mark"} => ~connecting)
  BY DEF FirstClient
<1>2. \A s : loop' = [loop EXCEPT ![1] = s] => loop'[1] = s
  BY DEF TypeOK, TypeLoop
<1>3. ASSUME UNCHANGED bgVars, ~IsConnected', loop'[1] \in {"guard", "mark", "clear", "dial", "auth", "done"},
             loop'[1] \in {"guard", "mark"} => ~connecting'
      PROVE  FirstClient'
  BY <1>1, <1>3 DEF FirstClient, Quiet, bgVars
<1>4. ~Spared("up")  BY DEF Spared, Causes
<1>5. CASE LoopReset(1)
  BY <1>1, <1>2, <1>3, <1>4, <1>5 DEF LoopReset, linkVars, Quiet
<1>6. CASE LoopGuard(1)
  BY <1>1, <1>2, <1>3, <1>4, <1>6 DEF LoopGuard, Enter, Quiet
<1>7. CASE LoopMark(1) \/ LoopClear(1)
  BY <1>1, <1>2, <1>3, <1>4, <1>7 DEF LoopMark, LoopClear, linkVars, Quiet
<1>8. CASE ClientFails(1)
  BY <1>1, <1>2, <1>3, <1>4, <1>8 DEF ClientFails, LoopReturn, Quiet
<1>9. CASE LoopDial(1) /\ ~ClientFails(1)
  BY <1>1, <1>2, <1>3, <1>4, <1>9 DEF LoopDial, Quiet
<1>10. CASE LoopAuth(1) /\ ~ClientFails(1)
  <2>1. loop'[1] = "keepalive" /\ Talk' = 1 /\ proc' = proc
    BY <1>2, <1>10 DEF LoopAuth
  <2>. QED  BY <1>4, <2>1 DEF FirstClient
<1>11. \/ LoopReset(1) \/ LoopGuard(1) \/ LoopMark(1) \/ LoopClear(1) \/ LoopDial(1)
       \/ LoopAuth(1)
  BY <1>1 DEF LoopStep, LoopTest, Enter, LoopKeepAlive, LoopGoJoin, LoopGoRotate, LoopFlags,
              LoopUp, LoopDisco, LoopSpawn, LoopPoll, LoopRecvError, LoopRecv
<1>. QED  BY <1>5, <1>6, <1>7, <1>8, <1>9, <1>10, <1>11

\* Once it has one.
LEMMA FirstLoopLate ==
  ASSUME TypeOK, proc = "up", FirstClient, LoopStep(1) \/ LoopRecv(1), 1 \in Gens,
         loop[1] \notin PreClient, GTomb.state # "dead"
  PROVE  FirstClient' /\ ~Spared(proc')
<1>. USE DEF LoopAt
<1>1. ~Spared("up") /\ ~Spared("nilWriter")  BY DEF Spared, Causes
<1>2. \A s : loop' = [loop EXCEPT ![1] = s] => loop'[1] = s
  BY DEF TypeOK, TypeLoop
<1>3. ~TombGoPanics(GTomb)  BY DEF TombGoPanics
<1>4. loop[1] \in {"keepalive", "join", "flags", "up", "disco", "spawn", "poll", "recv"}
  BY DEF PreClient, LoopStep, LoopReset, LoopGuard, LoopTest, LoopMark, LoopClear, Enter,
         LoopDial, LoopAuth, LoopKeepAlive, LoopGoJoin, LoopGoRotate, LoopFlags, LoopUp,
         LoopDisco, LoopSpawn, LoopPoll, LoopRecvError, LoopRecv
<1>5. ~Quiet  BY <1>4 DEF Quiet
<1>6. Talk = 1 /\ ClientFault = "none" /\ JidFault \in {"nilWriter", "none"}
  BY <1>5, FirstTalk
<1>7. ASSUME Talk' = Talk, proc' = proc, loop'[1] \notin PreClient
      PROVE  FirstClient' /\ ~Spared(proc')
  BY <1>1, <1>5, <1>7, FirstKept
<1>8. ASSUME Talk' = Talk, proc' = proc, loop' = loop
      PROVE  FirstClient' /\ ~Spared(proc')
  BY <1>7, <1>8
<1>9. ASSUME Talk' = Talk, proc' = proc,
             NEW s \in {"join", "flags", "up", "disco", "spawn", "poll", "recv", "done"},
             loop' = [loop EXCEPT ![1] = s]
      PROVE  FirstClient' /\ ~Spared(proc')
  BY <1>2, <1>7, <1>9 DEF PreClient
<1>10. CASE LoopKeepAlive(1)
  BY <1>6, <1>9, <1>10 DEF LoopKeepAlive, LoopReturn, linkVars
<1>11. CASE LoopGoJoin(1)
  BY <1>3, <1>8, <1>11 DEF LoopGoJoin, Go, linkVars, loopVars
<1>12. CASE LoopGoRotate(1) \/ LoopSpawn(1)
  BY <1>3, <1>9, <1>12 DEF LoopGoRotate, LoopSpawn, Go, linkVars
<1>13. CASE LoopFlags(1) \/ LoopUp(1)
  BY <1>9, <1>13 DEF LoopFlags, LoopUp
<1>14. CASE LoopDisco(1)
  <2>1. CASE JidFault = "none"  BY <1>9, <1>14, <2>1 DEF LoopDisco, LoopReturn, linkVars
  <2>2. CASE JidFault = "nilWriter"
    BY <1>1, <1>14, <2>2, FirstCrash DEF LoopDisco
  <2>. QED  BY <1>6, <2>1, <2>2
<1>15. CASE LoopPoll(1) \/ RecvFails(1)
  BY <1>6, <1>9, <1>15 DEF LoopPoll, RecvFails, LoopReturn, linkVars
<1>16. ASSUME NEW ok \in BOOLEAN, Handled(1, ok) PROVE FirstClient' /\ ~Spared(proc')
  BY <1>9, <1>16 DEF Handled, linkVars
<1>17. CASE LoopRecv(1)
  <2>1. Talk # Nil  BY <1>6 DEF Nil
  <2>. QED  BY <1>15, <1>16, <1>17, <2>1 DEF LoopRecv, OwnPresence, WriteResults
<1>18. ~(\/ LoopReset(1) \/ LoopGuard(1) \/ LoopTest(1) \/ LoopMark(1) \/ LoopClear(1)
         \/ LoopDial(1) \/ LoopAuth(1))
  BY <1>4 DEF LoopReset, LoopGuard, LoopTest, LoopMark, LoopClear, Enter, LoopDial, LoopAuth
<1>. QED
  BY <1>10, <1>11, <1>12, <1>13, <1>14, <1>15, <1>17, <1>18 DEF LoopStep, LoopRecvError

\* The goroutines beside it.
LEMMA FirstBeside ==
  ASSUME TypeOK, proc = "up", FirstClient, 1 \in Gens, GTomb.state # "dead",
         GoroutineStep(1) \/ MucPingSend, ~(LoopStep(1) \/ LoopRecv(1))
  PROVE  FirstClient' /\ ~Spared(proc')
<1>1. ~Spared("up") /\ ~Spared("nilWriter") /\ ~Spared("exited")  BY DEF Spared, Causes
<1>2. ~TombGoPanics(GTomb)  BY DEF TombGoPanics
<1>3. SendFault \in {"nilWriter", "none"}  BY DEF SendFault
<1>4. Crash("nilWriter") => FirstClient' /\ ~Spared(proc')
  BY <1>1, FirstCrash
<1>5. ASSUME ~Quiet, UNCHANGED <<linkVars, loop, proc>> PROVE FirstClient' /\ ~Spared(proc')
  BY <1>1, <1>5, FirstTalk, FirstKept DEF linkVars
<1>6. ASSUME UNCHANGED <<linkVars, loop, proc, probe, mucProbe, pings, join>>
      PROVE  FirstClient' /\ ~Spared(proc')
  BY <1>1, <1>6, FirstStill DEF linkVars
<1>7. CASE ProbeTop(1)
  BY <1>5, <1>7 DEF ProbeTop, Quiet, loopVars
<1>8. CASE ProbeWake(1)
  <2>1. ~Quiet  BY <1>8 DEF ProbeWake, Quiet
  <2>2. \A b : ProbeAgain(1, b) => FirstClient' /\ ~Spared(proc')
    BY <1>5, <2>1 DEF ProbeAgain, loopVars
  <2>. QED  BY <1>4, <1>8, <2>1, <2>2, FirstTalk DEF ProbeWake
<1>9. CASE MucPingGo(1)
  <2>1. ~Quiet  BY <1>9 DEF MucPingGo, Quiet
  <2>. QED  BY <1>2, <1>5, <1>9, <2>1 DEF MucPingGo, Go, loopVars
<1>10. CASE MucPingSend
  <2>1. ~Quiet  BY <1>10 DEF MucPingSend, Quiet
  <2>. QED  BY <1>4, <1>5, <1>10, <2>1, FirstTalk DEF MucPingSend, loopVars
<1>11. ASSUME NEW r \in Rooms, RoomStep(1, r) PROVE FirstClient' /\ ~Spared(proc')
  <2>1. ~Quiet
    BY <1>11 DEF RoomStep, JoinDisco, JoinMUC, JoinSend, JoinEntered, JoinGivesUp, Quiet
  <2>2. \A h, t : JoinSend(1, r, h, t) => FirstClient' /\ ~Spared(proc')
    BY <1>5, <2>1 DEF JoinSend, loopVars
  <2>3. CASE JoinDisco(1, r) \/ JoinMUC(1, r)
    BY <1>3, <1>4, <2>1, <2>2, <2>3, FirstTalk DEF JoinDisco, JoinMUC
  <2>4. CASE JoinEntered(1, r) \/ JoinGivesUp(1, r)
    BY <1>2, <1>5, <2>1, <2>4 DEF JoinEntered, JoinGivesUp, loopVars
  <2>. QED  BY <1>11, <2>3, <2>4 DEF RoomStep
<1>12. ASSUME NEW r \in Rooms \cup {Server}, StatusStep(1, r) PROVE FirstClient' /\ ~Spared(proc')
  BY <1>3, <1>4, <1>6, <1>12 DEF StatusStep, RotateSend, RotateWake, loopVars
<1>13. CASE RedisMessage(1)
  BY <1>3, <1>4, <1>6, <1>13 DEF RedisMessage, loopVars
<1>14. CASE SigTake(1)
  BY <1>6, <1>14 DEF SigTake, loopVars, bgVars
<1>15. CASE SigExit(1)
  <2>1. UNCHANGED <<Talk, connecting, IsConnected, loop, probe, mucProbe, pings, join>>
    BY <1>15 DEF SigExit, rest, linkVars, loopVars, bgVars
  <2>. QED  BY <1>1, <1>15, <2>1, FirstStill DEF SigExit
<1>. QED
  BY <1>7, <1>8, <1>9, <1>10, <1>11, <1>12, <1>13, <1>14, <1>15 DEF GoroutineStep, SigStep

\* main(), signals and the network.
LEMMA FirstOutside ==
  ASSUME TypeOK, proc = "up", FirstClient, 1 \in Gens, GTomb.state # "dead", gen = 1,
         \/ MainGoSig \/ MainGoRedis \/ MainGoLoop \/ MainDying \/ MainWake \/ MainTomb
         \/ Interrupt \/ \E g \in Gens : ConnFails(g),
         MainGoLoop => loop[1] = "off"
  PROVE  FirstClient' /\ ~Spared(proc')
<1>1. ~Spared("up") /\ ~Spared("exited")  BY DEF Spared, Causes
<1>2. ~TombGoPanics(GTomb)  BY DEF TombGoPanics
<1>3. CASE MainGoLoop
  <2>1. /\ loop'[1] = "reset" /\ proc' = proc
        /\ UNCHANGED <<Talk, connecting, IsConnected, probe, mucProbe, pings, join>>
    BY <1>2, <1>3 DEF MainGoLoop, Go, TypeOK, TypeLoop, linkVars, bgVars
  <2>. QED  BY <1>1, <1>3, <2>1 DEF FirstClient, PreClient, Quiet
<1>4. CASE ~MainGoLoop
  <2>1. /\ UNCHANGED <<Talk, connecting, IsConnected, loop, probe, mucProbe, pings, join>>
        /\ proc' \in {proc, "exited"}
    BY <1>2, <1>4 DEF MainTomb, MainGoSig, MainGoRedis, MainDying, MainWake, Interrupt, ConnFails, Go,
                      linkVars, loopVars, bgVars
  <2>. QED  BY <1>1, <2>1, FirstStill
<1>. QED  BY <1>3, <1>4

\* Handlers do not return.
LEMMA HandlerStays ==
  ASSUME TypeOK, Next, NEW g \in Gens, sig[g] # "off" PROVE sig'[g] # "off"
<1>. USE DEF TypeOK, TypeSig
<1>1. UNCHANGED sig => sig'[g] # "off"  OBVIOUS
<1>2. \A c : Crash(c) => UNCHANGED sig  BY DEF Crash, rest, sigVars
<1>3. CASE MainStep
  BY <1>1, <1>2, <1>3 DEF MainStep, MainTalk, MainTomb, MainGoSig, MainGoRedis, MainGoLoop,
                          MainDying, MainWake, Go, sigVars
<1>4. CASE MucPingSend \/ Interrupt
  BY <1>1, <1>2, <1>4 DEF MucPingSend, Interrupt, sigVars
<1>5. ASSUME NEW h \in Gens, ConnFails(h) \/ SigStep(h) PROVE sig'[g] # "off"
  BY <1>1, <1>5 DEF ConnFails, SigStep, SigTake, SigExit, rest, sigVars
<1>6. ASSUME NEW h \in Gens, LoopStep(h) \/ LoopRecv(h) PROVE sig'[g] # "off"
  BY <1>1, <1>2, <1>6
     DEF LoopStep, LoopReset, LoopGuard, LoopTest, LoopMark, LoopClear, Enter,
         LoopDial, LoopAuth, ClientFails, LoopKeepAlive, LoopGoJoin, LoopGoRotate, LoopFlags,
         LoopUp, LoopDisco, LoopSpawn, LoopPoll, LoopRecvError, LoopRecv, RecvFails,
         OwnPresence, Handled, Go, sigVars
<1>7. ASSUME NEW h \in Gens,
             ProbeTop(h) \/ ProbeWake(h) \/ MucPingGo(h) \/ RedisMessage(h)
      PROVE  sig'[g] # "off"
  BY <1>1, <1>2, <1>7 DEF ProbeTop, ProbeWake, ProbeAgain, MucPingGo, RedisMessage, Go, sigVars
<1>8. ASSUME NEW h \in Gens, NEW r \in Rooms, RoomStep(h, r) PROVE sig'[g] # "off"
  BY <1>1, <1>2, <1>8 DEF RoomStep, JoinDisco, JoinMUC, JoinSend, JoinEntered, JoinGivesUp, sigVars
<1>9. ASSUME NEW h \in Gens, NEW r \in Rooms \cup {Server}, StatusStep(h, r)
      PROVE  sig'[g] # "off"
  BY <1>1, <1>2, <1>9 DEF StatusStep, RotateSend, RotateWake, sigVars
<1>. QED  BY <1>3, <1>4, <1>5, <1>6, <1>7, <1>8, <1>9 DEF Next

\* Only main() moves main() and gen.
LEMMA MainAlone == ASSUME Next, ~MainStep PROVE UNCHANGED mainVars
<1>1. \A c : Crash(c) => UNCHANGED mainVars  BY DEF Crash, rest
<1>2. CASE MucPingSend \/ Interrupt
  BY <1>1, <1>2 DEF MucPingSend, Interrupt
<1>3. ASSUME NEW h \in Gens, ConnFails(h) \/ SigStep(h) PROVE UNCHANGED mainVars
  BY <1>3 DEF ConnFails, SigStep, SigTake, SigExit, rest
<1>4. ASSUME NEW h \in Gens, LoopStep(h) \/ LoopRecv(h) PROVE UNCHANGED mainVars
  BY <1>1, <1>4
     DEF LoopStep, LoopReset, LoopGuard, LoopTest, LoopMark, LoopClear, Enter,
         LoopDial, LoopAuth, ClientFails, LoopKeepAlive, LoopGoJoin, LoopGoRotate, LoopFlags,
         LoopUp, LoopDisco, LoopSpawn, LoopPoll, LoopRecvError, LoopRecv, RecvFails,
         OwnPresence, Handled, Go
<1>5. ASSUME NEW h \in Gens,
             ProbeTop(h) \/ ProbeWake(h) \/ MucPingGo(h) \/ RedisMessage(h)
      PROVE  UNCHANGED mainVars
  BY <1>1, <1>5 DEF ProbeTop, ProbeWake, ProbeAgain, MucPingGo, RedisMessage, Go
<1>6. ASSUME NEW h \in Gens, NEW r \in Rooms, RoomStep(h, r) PROVE UNCHANGED mainVars
  BY <1>1, <1>6 DEF RoomStep, JoinDisco, JoinMUC, JoinSend, JoinEntered, JoinGivesUp
<1>7. ASSUME NEW h \in Gens, NEW r \in Rooms \cup {Server}, StatusStep(h, r)
      PROVE  UNCHANGED mainVars
  BY <1>1, <1>7 DEF StatusStep, RotateSend, RotateWake
<1>. QED  BY <1>2, <1>3, <1>4, <1>5, <1>6, <1>7 DEF Next

\* Nothing runs before the first turn has started its handler.
LEMMA NobodyRuns ==
  ASSUME TombInv, FirstInv, gen = 0 \/ (gen = 1 /\ main \in {"tomb", "sig"})
  PROVE  /\ Live = 0 /\ pings = 0
         /\ \A g \in Gens : AllOff(g)
<1>1. \A g \in Gens : AllOff(g)
  BY NotStarted DEF Gens
<1>2. 1 \in Gens  BY SessionAssumption DEF Gens
<1>3. pings = 0
  BY <1>1, <1>2 DEF FirstInv, FirstClient, PreClient, AllOff, Quiet
<1>4. LoopLive = {} /\ ProbeLive = {} /\ RedisLive = {} /\ SigLive = {}
  BY <1>1 DEF AllOff, LoopLive, ProbeLive, RedisLive, SigLive
<1>5. JoinLive = {} /\ RotateLive = {}
  BY <1>1 DEF AllOff, JoinLive, RotateLive
<1>6. Live = 0
  BY <1>3, <1>4, <1>5, FS_EmptySet DEF Live
<1>. QED  BY <1>1, <1>3, <1>6

\* Steps before the first handler runs.
LEMMA FirstEarly ==
  ASSUME TombInv, FirstInv, Next, gen' \in 0 .. 1,
         gen = 0 \/ (gen = 1 /\ main \in {"tomb", "sig"})
  PROVE  FirstInv'
<1>1. /\ Live = 0 /\ pings = 0 /\ proc = "up"
      /\ \A g \in Gens : AllOff(g)
  BY NobodyRuns DEF Next
<1>2. FirstTomb /\ FirstClient /\ ~TombGoPanics(GTomb)
  BY DEF FirstInv, FirstTomb, TombGoPanics
<1>3. 1 \in Gens  BY SessionAssumption DEF Gens
<1>4. MainTalk \/ MainTomb \/ MainGoSig \/ Interrupt \/ \E g \in Gens : ConnFails(g)
  <2>1. ~MucPingSend /\ \A g \in Gens : ~GoroutineStep(g)
    BY <1>1, OffIsStill DEF MucPingSend
  <2>2. main \in {"reset", "tomb", "sig"}  BY <1>2 DEF FirstTomb
  <2>3. ~MainGoRedis /\ ~MainGoLoop /\ ~MainDying /\ ~MainWake
    BY <2>2 DEF MainGoRedis, MainGoLoop, MainDying, MainWake
  <2>. QED  BY <2>1, <2>3, Steppers DEF MainStep
<1>5. CASE MainTalk
  <2>1. /\ gen = 0 /\ gen' = 1 /\ main' = "tomb" /\ proc' = "up"
        /\ UNCHANGED <<tombVars, connecting, IsConnected, loop, probe, mucProbe, pings, join>>
    BY <1>1, <1>2, <1>5 DEF MainTalk, FirstTomb, loopVars, bgVars
  <2>2. Quiet  BY <1>1, <1>3 DEF AllOff, FirstInv, FirstClient, PreClient
  <2>. QED
    BY <1>2, <2>1, <2>2 DEF FirstInv, FirstTomb, FirstClient, Quiet, Causes, tombVars
<1>6. CASE MainTomb
  <2>1. /\ gen' = gen /\ gen = 1 /\ main' = "sig" /\ proc' = "up"
        /\ inherited' = 0 /\ GTomb' = NewTomb
        /\ UNCHANGED <<Talk, connecting, IsConnected, loop, probe, mucProbe, pings, join>>
    BY <1>1, <1>2, <1>6 DEF MainTomb, FirstTomb, linkVars, loopVars, bgVars
  <2>2. FirstClient'  BY <1>2, <2>1, FirstStill
  <2>. QED  BY <2>1, <2>2 DEF FirstInv, FirstTomb, NewTomb, Causes
<1>7. CASE MainGoSig
  <2>1. /\ gen' = gen /\ gen = 1 /\ main' = "redis" /\ proc' = "up"
        /\ inherited' = inherited /\ GTomb' = TombGo(GTomb)
        /\ sig' = [sig EXCEPT ![gen] = "range"]
        /\ UNCHANGED <<Talk, connecting, IsConnected, loop, probe, mucProbe, pings, join>>
    BY <1>1, <1>2, <1>7 DEF MainGoSig, Go, FirstTomb, linkVars, loopVars, bgVars
  <2>2. FirstClient'  BY <1>2, <2>1, FirstStill
  <2>3. sig'[1] # "off"  BY <1>3, <2>1 DEF TombInv, TypeOK, TypeSig
  <2>4. GTomb'.state # "dead"  BY <1>2, <2>1 DEF TombGo, FirstTomb
  <2>. QED  BY <1>2, <2>1, <2>2, <2>3, <2>4 DEF FirstInv, FirstTomb, Causes
<1>8. CASE Interrupt \/ \E g \in Gens : ConnFails(g)
  <2>1. /\ UNCHANGED <<mainVars, tombVars, sig>> /\ proc' \in {"up", "exited"}
        /\ UNCHANGED <<Talk, connecting, IsConnected, loop, probe, mucProbe, pings, join>>
    BY <1>1, <1>8 DEF Interrupt, ConnFails, linkVars, loopVars, bgVars, sigVars
  <2>2. FirstClient'  BY <1>2, <2>1, FirstStill
  <2>. QED  BY <1>2, <2>1, <2>2 DEF FirstInv, FirstTomb, mainVars, tombVars, Causes
<1>. QED  BY <1>4, <1>5, <1>6, <1>7, <1>8

\* The running handler counts in the state a step leads to.
LEMMA AfterHandler ==
  (TypeOK /\ 1 \in Gens /\ sig[1] # "off")' => (Live >= 1 /\ Live \in Nat)'
<1>1. (TypeOK /\ 1 \in Gens /\ sig[1] # "off") => (Live >= 1 /\ Live \in Nat)
  BY HandlerCounts, LiveNat
<1>. QED  BY <1>1, PTL

\* Steps while it runs.
LEMMA FirstLate ==
  ASSUME TombInv, TombInv', FirstInv, Next, gen' \in 0 .. 1,
         gen = 1, main \notin {"tomb", "sig"}
  PROVE  FirstInv'
<1>1. FirstTomb /\ FirstClient /\ proc = "up" /\ TypeOK /\ TypeOK'
  BY DEF FirstInv, Next, TombInv
<1>2. 1 \in Gens  BY SessionAssumption DEF Gens
<1>3. ~MainTalk /\ ~MainTomb  BY DEF MainTalk, MainTomb
<1>4. gen' = 1 /\ main' \notin {"tomb"} /\ sig'[1] # "off"
  <2>1. UNCHANGED mainVars \/ (gen' = gen /\ main' # "tomb")
    BY <1>3, MainAlone
       DEF MainStep, MainGoSig, MainGoRedis, MainGoLoop, MainDying, MainWake, Go, Crash, rest,
           mainVars
  <2>2. sig'[1] # "off"  BY <1>1, <1>2, HandlerStays DEF FirstTomb
  <2>. QED  BY <2>1, <2>2 DEF mainVars
<1>5. FirstTomb'
  <2>1. TombOp  BY <1>3, TombOps
  <2>2. inherited' = 0  BY <1>1, <2>1 DEF TombOp, FirstTomb
  <2>3. Live' >= 1 /\ Live' \in Nat
    BY <1>1, <1>2, <1>4, AfterHandler DEF Gens
  <2>4. GTomb'.alive = Live' - inherited'
    BY DEF TombInv, TombAccounting
  <2>5. GTomb'.alive >= 1
    <3>1. ASSUME NEW n \in Nat, n >= 1, NEW a, a = n - inherited' PROVE a >= 1
      BY <2>2, <3>1
    <3>. QED  BY <2>3, <2>4, <3>1
  <2>6. GTomb'.state # "dead"
    BY <1>1, <2>1, <2>5, StaysAlive DEF FirstTomb
  <2>. QED  BY <1>4, <2>2, <2>6 DEF FirstTomb
<1>6. FirstClient' /\ ~Spared(proc')
  <2>1. GTomb.state # "dead"  BY <1>1 DEF FirstTomb
  <2>2. ASSUME NEW g \in Gens, GoroutineStep(g) PROVE g = 1
    <3>1. g # 1 => AllOff(g)  BY NotStarted DEF Gens
    <3>. QED  BY <2>2, <3>1, OffIsStill
  <2>3. CASE LoopStep(1) \/ LoopRecv(1)
    BY <1>1, <1>2, <2>1, <2>3, FirstLoopEarly, FirstLoopLate
  <2>4. CASE (GoroutineStep(1) \/ MucPingSend) /\ ~(LoopStep(1) \/ LoopRecv(1))
    BY <1>1, <1>2, <2>1, <2>4, FirstBeside
  <2>5. CASE MainStep \/ Interrupt \/ \E g \in Gens : ConnFails(g)
    <3>1. MainGoLoop => loop[1] = "off"
      BY <1>2 DEF MainGoLoop, TombInv, SpawnInv, Fresh
    <3>. QED  BY <1>1, <1>2, <1>3, <2>1, <2>5, <3>1, FirstOutside DEF MainStep
  <2>. QED  BY <2>2, <2>3, <2>4, <2>5, Steppers
<1>. QED  BY <1>5, <1>6 DEF FirstInv, Spared

\* The invariant of the first session holds, whatever the rooms and pings.
THEOREM FirstCorrect == Spec => []FirstInv
<1>1. Init => FirstInv
  <2>. SUFFICES ASSUME Init PROVE FirstInv  OBVIOUS
  <2>1. 1 \in Gens  BY SessionAssumption DEF Gens
  <2>2. Quiet  BY <2>1 DEF Init, Quiet
  <2>. QED
    BY <2>1, <2>2 DEF Init, FirstInv, FirstTomb, FirstClient, NewTomb, Causes
<1>2. TombInv /\ TombInv' /\ FirstInv /\ [Next]_vars => FirstInv'
  <2>. SUFFICES ASSUME TombInv, TombInv', FirstInv, [Next]_vars PROVE FirstInv'
    OBVIOUS
  <2>1. CASE UNCHANGED vars
    <3>1. UNCHANGED <<mainVars, tombVars, linkVars, loopVars, bgVars, sigVars, proc>>
      BY <2>1 DEF vars, rest
    <3>. QED
      BY <3>1 DEF FirstInv, FirstTomb, FirstClient, Quiet, mainVars, tombVars, linkVars, loopVars,
                  bgVars, sigVars
  <2>2. CASE Next /\ gen' \in 0 .. 1
    <3>1. gen \in 0 .. 1
      <4>1. gen' = gen \/ gen' = gen + 1
        BY <2>2, MainAlone
           DEF MainStep, MainTalk, MainTomb, MainGoSig, MainGoRedis, MainGoLoop, MainDying, MainWake,
               Go, Crash, rest, mainVars
      <4>2. gen \in Nat  BY DEF TombInv, TypeOK, TypeMain
      <4>. QED  BY <2>2, <4>1, <4>2
    <3>. QED  BY <2>2, <3>1, FirstEarly, FirstLate
  <2>3. CASE gen' \notin 0 .. 1  BY <2>3 DEF FirstInv
  <2>. QED  BY <2>1, <2>2, <2>3
<1>. QED  BY TombCorrect, <1>1, <1>2, PTL DEF Spec

\* Only a second turn can meet a nil client, a blank one or a dead tomb.
THEOREM FirstIsSpared == Spec => []FirstSessionCrashFree
<1>1. TypeOK /\ FirstInv => FirstSessionCrashFree
  BY DEF FirstInv, FirstSessionCrashFree, TypeOK, TypeMain
<1>. QED  BY TypeCorrect, FirstCorrect, <1>1, PTL

-----------------------------------------------------------------------------
(***************************************************************************)
(* What the flags of EstablishConnection achieve                           *)
(***************************************************************************)

\* From the start of the stream to line 53, stanzas go to the connection of
\* the loop that establishes it; Talk is that client, or a blank one if main()
\* has moved on.
Negotiating(g) == loop[g] \in {"auth", "keepalive", "join", "flags", "up"}
HasClient(g)   == loop[g] \in {"keepalive", "join", "flags", "up"}

\* What the place of one loop says of the flags, the writer and the client.
Place(g) ==
  /\ loop[g] = "clear" => connecting
  /\ Dialing(g) => connecting /\ ~IsConnected
  /\ Leaving(g) => ~IsConnected
  /\ Negotiating(g) => StanzaWriter = g
  /\ HasClient(g) => Talk \in {Blank, g}

\* The inductive invariant: as long as no loop has been let in while another
\* was inside, one loop at most is inside, the flags are set while it dials,
\* and both are still as they should be when it leaves.
Fair == DialExclusive /\ (\A g \in Gens : Place(g)) /\ WriterFollowsTalk

SlotInv == TypeOK /\ (~overtaken => Fair)

\* The inductive invariant holds when the program starts.
LEMMA SlotInit == Init => SlotInv
<1>. SUFFICES ASSUME Init PROVE SlotInv  OBVIOUS
<1>1. TypeOK  BY InitType
<1>2. \A g \in Gens : loop[g] = "off"  BY DEF Init
<1>. QED
  BY <1>1, <1>2 DEF Init, SlotInv, Fair, DialExclusive, Inside, Entering, Dialing, Leaving,
                    Place, Negotiating, HasClient, WriterFollowsTalk

\* A step that leaves the flags, the clients and the loops alone.
LEMMA SlotFrame ==
  ASSUME SlotInv, TypeOK', UNCHANGED <<loop, linkVars>> PROVE SlotInv'
BY DEF SlotInv, linkVars, Fair, DialExclusive, Inside, Entering, Dialing, Leaving, Place,
       Negotiating, HasClient, WriterFollowsTalk

\* A loop that moves on, or returns, without touching the flags and clients,
\* and does not come inside or to a later place there by doing so.
LEMMA SlotMove ==
  ASSUME SlotInv, TypeOK', UNCHANGED linkVars, NEW g \in Gens, NEW there,
         loop' = [loop EXCEPT ![g] = there],
         there \notin {"mark", "clear", "dial", "auth", "up"},
         there \in {"keepalive", "join", "flags"} => Dialing(g) /\ HasClient(g)
  PROVE  SlotInv'
<1>. SUFFICES ASSUME ~overtaken' PROVE Fair'
  BY DEF SlotInv
<1>1. Fair  BY DEF SlotInv, linkVars
<1>2. loop'[g] = there /\ \A h \in Gens : h # g => loop'[h] = loop[h]
  BY DEF SlotInv, TypeOK, TypeLoop
<1>3. \A h \in Gens : Inside(h)' => Inside(h)
  BY <1>2 DEF Inside, Entering, Dialing, Leaving
<1>4. DialExclusive'  BY <1>1, <1>3 DEF Fair, DialExclusive
<1>5. ASSUME NEW h \in Gens PROVE Place(h)'
  BY <1>1, <1>2 DEF Fair, Place, Dialing, Leaving, Negotiating, HasClient, linkVars
<1>6. WriterFollowsTalk'  BY <1>1 DEF Fair, WriterFollowsTalk, linkVars
<1>. QED  BY <1>4, <1>5, <1>6 DEF Fair

\* main() changes Talk, to a blank client only, and starts a loop that does
\* not run yet.
LEMMA SlotMain == ASSUME SlotInv, TombInv, TypeOK', MainStep PROVE SlotInv'
<1>1. CASE MainTalk
  <2>1. Talk' = Blank /\ UNCHANGED <<connecting, IsConnected, overtaken, StanzaWriter, loop>>
    BY <1>1 DEF MainTalk, loopVars
  <2>. QED  BY <2>1 DEF SlotInv, Fair, DialExclusive, Inside, Entering, Dialing, Leaving, Place,
                        Negotiating, HasClient, WriterFollowsTalk
<1>2. CASE MainGoLoop /\ ~Crash("deadTomb")
  <2>1. gen \in Gens /\ UNCHANGED linkVars /\ loop' = [loop EXCEPT ![gen] = "reset"]
    BY <1>2 DEF MainGoLoop, Go, TombInv, SpawnInv
  <2>. QED  BY <2>1, SlotMove
<1>3. CASE UNCHANGED <<loop, linkVars>>
  BY <1>3, SlotFrame
<1>4. Crash("deadTomb") => UNCHANGED <<loop, linkVars>>
  BY DEF Crash, rest, loopVars
<1>. QED
  BY <1>1, <1>2, <1>3, <1>4 DEF MainStep, MainTomb, MainGoSig, MainGoRedis, MainDying,
                                MainWake, Go, loopVars

\* A loop that comes to line 27: another one inside makes it an overtaking.
LEMMA SlotEnter ==
  ASSUME SlotInv, TypeOK', NEW g \in Gens, NEW here \in {"guard", "test"}, Enter(g, here),
         UNCHANGED <<connecting, IsConnected, Talk, StanzaWriter>>
  PROVE  SlotInv'
<1>. SUFFICES ASSUME ~overtaken' PROVE Fair'
  BY DEF SlotInv
<1>1. Fair /\ ~overtaken /\ \A h \in Gens : h # g => ~Inside(h)
  BY DEF Enter, SlotInv
<1>2. loop'[g] = "mark" /\ \A h \in Gens : h # g => loop'[h] = loop[h]
  BY DEF Enter, LoopAt, SlotInv, TypeOK, TypeLoop
<1>3. \A h \in Gens : Inside(h)' => h = g
  BY <1>1, <1>2 DEF Inside, Entering, Dialing, Leaving
<1>4. ASSUME NEW h \in Gens PROVE Place(h)'
  BY <1>1, <1>2 DEF Fair, Place, Dialing, Leaving, Negotiating, HasClient
<1>. QED  BY <1>1, <1>3, <1>4 DEF Fair, DialExclusive, WriterFollowsTalk

\* The loop inside takes a step that others do not see: it stays inside or
\* goes out, and what it wrote suits its next place.
LEMMA SlotOwner ==
  ASSUME SlotInv, TypeOK', NEW g \in Gens, Inside(g), NEW there,
         loop' = [loop EXCEPT ![g] = there], UNCHANGED overtaken,
         ~overtaken /\ Fair => Place(g)' /\ WriterFollowsTalk'
  PROVE  SlotInv'
<1>. SUFFICES ASSUME ~overtaken' PROVE Fair'
  BY DEF SlotInv
<1>1. Fair /\ \A h \in Gens : h # g => ~Inside(h)
  BY DEF SlotInv, Fair, DialExclusive
<1>2. \A h \in Gens : h # g => loop'[h] = loop[h]
  BY DEF SlotInv, TypeOK, TypeLoop
<1>3. \A h \in Gens : Inside(h)' => h = g
  BY <1>1, <1>2 DEF Inside, Entering, Dialing, Leaving
<1>4. ASSUME NEW h \in Gens, h # g PROVE Place(h)'
  BY <1>1, <1>2, <1>4 DEF Place, Inside, Entering, Dialing, Leaving, Negotiating, HasClient
<1>. QED  BY <1>1, <1>3, <1>4 DEF Fair, DialExclusive

\* The steps of a loop.
LEMMA SlotLoop ==
  ASSUME SlotInv, TypeOK', NEW g \in Gens, LoopStep(g) \/ LoopRecv(g)
  PROVE  SlotInv'
<1>. USE DEF LoopAt
<1>0. \A s : loop' = [loop EXCEPT ![g] = s] => loop'[g] = s
  BY DEF SlotInv, TypeOK, TypeLoop
<1>1. CASE LoopReset(g)
  BY <1>1, SlotMove DEF LoopReset
<1>2. CASE LoopGuard(g) \/ LoopTest(g)
  BY <1>2, SlotMove, SlotEnter DEF LoopGuard, LoopTest, linkVars
<1>3. CASE LoopMark(g)
  <2>1. /\ loop[g] = "mark" /\ loop' = [loop EXCEPT ![g] = "clear"]
        /\ connecting' = TRUE /\ UNCHANGED <<IsConnected, overtaken, Talk, StanzaWriter>>
    BY <1>3 DEF LoopMark
  <2>2. Fair /\ ~overtaken => Place(g)' /\ WriterFollowsTalk'
    BY <1>0, <2>1
       DEF Fair, Place, Dialing, Leaving, Negotiating, HasClient, WriterFollowsTalk
  <2>. QED  BY <2>1, <2>2, SlotOwner DEF Inside, Entering
<1>4. CASE LoopClear(g)
  <2>1. /\ loop[g] = "clear" /\ loop' = [loop EXCEPT ![g] = "dial"]
        /\ IsConnected' = FALSE /\ UNCHANGED <<connecting, overtaken, Talk, StanzaWriter>>
    BY <1>4 DEF LoopClear
  <2>2. Fair /\ ~overtaken => Place(g)' /\ WriterFollowsTalk'
    BY <1>0, <2>1
       DEF Fair, Place, Dialing, Leaving, Negotiating, HasClient, WriterFollowsTalk
  <2>. QED  BY <2>1, <2>2, SlotOwner DEF Inside, Entering
<1>5. ASSUME Dialing(g), ClientFails(g) PROVE SlotInv'
  <2>1. /\ loop' = [loop EXCEPT ![g] = "done"]
        /\ UNCHANGED <<connecting, IsConnected, overtaken, StanzaWriter>>
    BY <1>5 DEF ClientFails, LoopReturn
  <2>2. Fair /\ ~overtaken => Place(g)' /\ WriterFollowsTalk'
    BY <1>0, <1>5, <2>1
       DEF Fair, Place, Dialing, Leaving, Negotiating, HasClient, WriterFollowsTalk
  <2>. QED  BY <1>5, <2>1, <2>2, SlotOwner DEF Inside
<1>6. CASE LoopDial(g) /\ ~ClientFails(g)
  <2>1. /\ loop[g] = "dial" /\ loop' = [loop EXCEPT ![g] = "auth"]
        /\ StanzaWriter' = g /\ UNCHANGED <<connecting, IsConnected, overtaken, Talk>>
    BY <1>6 DEF LoopDial
  <2>2. Fair /\ ~overtaken => Place(g)' /\ WriterFollowsTalk'
    BY <1>0, <2>1
       DEF Fair, Place, Dialing, Leaving, Negotiating, HasClient, WriterFollowsTalk
  <2>. QED  BY <2>1, <2>2, SlotOwner DEF Inside, Dialing
<1>7. CASE LoopAuth(g) /\ ~ClientFails(g)
  <2>1. /\ loop[g] = "auth" /\ loop' = [loop EXCEPT ![g] = "keepalive"]
        /\ Talk' = g /\ UNCHANGED <<connecting, IsConnected, overtaken, StanzaWriter>>
    BY <1>7 DEF LoopAuth
  <2>2. Fair /\ ~overtaken => Place(g)' /\ WriterFollowsTalk'
    BY <1>0, <2>1
       DEF Fair, Place, Dialing, Leaving, Negotiating, HasClient, WriterFollowsTalk
  <2>. QED  BY <2>1, <2>2, SlotOwner DEF Inside, Dialing
<1>8. CASE LoopFlags(g)
  <2>1. /\ loop[g] = "flags" /\ loop' = [loop EXCEPT ![g] = "up"]
        /\ UNCHANGED <<IsConnected, overtaken, Talk, StanzaWriter>>
    BY <1>8 DEF LoopFlags
  <2>2. Fair /\ ~overtaken => Place(g)' /\ WriterFollowsTalk'
    BY <1>0, <2>1
       DEF Fair, Place, Dialing, Leaving, Negotiating, HasClient, WriterFollowsTalk
  <2>. QED  BY <2>1, <2>2, SlotOwner DEF Inside, Dialing
<1>9. CASE LoopUp(g)
  <2>1. /\ loop[g] = "up" /\ loop' = [loop EXCEPT ![g] = "disco"] /\ g # 0
        /\ UNCHANGED <<overtaken, Talk, StanzaWriter>>
    BY <1>9 DEF LoopUp, Gens
  <2>2. Fair /\ ~overtaken => Place(g)' /\ WriterFollowsTalk'
    BY <1>0, <2>1
       DEF Fair, Place, Dialing, Leaving, Negotiating, HasClient, WriterFollowsTalk
  <2>. QED  BY <2>1, <2>2, SlotOwner DEF Inside, Leaving
<1>10. CASE \E c \in Causes : Crash(c)
  BY <1>10, SlotFrame DEF Crash, rest, loopVars
<1>11. ASSUME ~\E c \in Causes : Crash(c), LoopKeepAlive(g) PROVE SlotInv'
  BY <1>11, SlotMove, FaultCauses DEF LoopKeepAlive, LoopReturn, Dialing, HasClient
<1>12. ASSUME ~\E c \in Causes : Crash(c), LoopGoJoin(g) PROVE SlotInv'
  BY <1>12, SlotFrame, FaultCauses DEF LoopGoJoin, Go, loopVars
<1>13. ASSUME ~\E c \in Causes : Crash(c), LoopGoRotate(g) PROVE SlotInv'
  BY <1>13, SlotMove, FaultCauses DEF LoopGoRotate, Go, Dialing, HasClient
<1>14. ASSUME ~\E c \in Causes : Crash(c), LoopDisco(g) \/ LoopSpawn(g) PROVE SlotInv'
  BY <1>14, SlotMove, FaultCauses DEF LoopDisco, LoopSpawn, LoopReturn, Go
<1>15. ASSUME RecvFails(g) PROVE SlotInv'
  BY <1>15, SlotMove DEF RecvFails, LoopReturn
<1>16. ASSUME ~\E c \in Causes : Crash(c), LoopPoll(g) PROVE SlotInv'
  BY <1>16, SlotMove, FaultCauses DEF LoopPoll, LoopReturn
<1>17. ASSUME ~\E c \in Causes : Crash(c), LoopRecv(g) PROVE SlotInv'
  BY <1>15, <1>17, SlotMove, FaultCauses DEF LoopRecv, OwnPresence, Handled
<1>. QED
  BY <1>1, <1>2, <1>3, <1>4, <1>5, <1>6, <1>7, <1>8, <1>9, <1>10, <1>11, <1>12, <1>13,
     <1>14, <1>15, <1>16, <1>17 DEF LoopStep, LoopRecvError, LoopDial, LoopAuth, Dialing

\* The other goroutines and the network touch none of it.
LEMMA Others ==
  ASSUME [Next]_vars
  PROVE  \/ MainStep
         \/ \E g \in Gens : LoopStep(g) \/ LoopRecv(g)
         \/ UNCHANGED <<loop, linkVars>>
<1>4. ASSUME NEW c, Crash(c) PROVE UNCHANGED <<loop, linkVars>>
  BY <1>4 DEF Crash, rest, loopVars
<1>5. ASSUME NEW g \in Gens, ProbeTop(g) \/ ProbeWake(g) \/ MucPingGo(g) \/ MucPingSend
      PROVE  UNCHANGED <<loop, linkVars>>
  BY <1>4, <1>5 DEF ProbeTop, ProbeWake, ProbeAgain, MucPingGo, MucPingSend, Go, loopVars
<1>6. ASSUME NEW g \in Gens, NEW r \in Rooms, RoomStep(g, r)
      PROVE  UNCHANGED <<loop, linkVars>>
  BY <1>4, <1>6 DEF RoomStep, JoinDisco, JoinMUC, JoinSend, JoinEntered, JoinGivesUp,
                    loopVars
<1>7. ASSUME NEW g \in Gens, NEW r \in Rooms \cup {Server}, StatusStep(g, r)
      PROVE  UNCHANGED <<loop, linkVars>>
  BY <1>4, <1>7 DEF StatusStep, RotateSend, RotateWake, loopVars
<1>8. ASSUME NEW g \in Gens, RedisMessage(g) \/ SigStep(g) \/ ConnFails(g) \/ Interrupt
      PROVE  UNCHANGED <<loop, linkVars>>
  BY <1>4, <1>8 DEF RedisMessage, SigStep, SigTake, SigExit, ConnFails, Interrupt,
                    rest, loopVars
<1>9. UNCHANGED vars => UNCHANGED <<loop, linkVars>>
  BY DEF vars, rest, loopVars
<1>10. 1 \in Gens  BY SessionAssumption DEF Gens
<1>. QED  BY <1>5, <1>6, <1>7, <1>8, <1>9, <1>10 DEF Next

\* Every step of the program keeps the inductive invariant.
LEMMA SlotStep == ASSUME SlotInv, TombInv, TypeOK', [Next]_vars PROVE SlotInv'
BY Others, SlotMain, SlotLoop, SlotFrame

\* The inductive invariant holds for every number of generations and rooms.
THEOREM SlotCorrect == Spec => []SlotInv
<1>1. SlotInv /\ TombInv /\ TypeOK' /\ [Next]_vars => SlotInv'
  BY SlotStep
<1>. QED  BY SlotInit, TypeCorrect, TombCorrect, <1>1, PTL DEF Spec

\* Unless two loops were let in at a time, stanzas go where the client reads
\* while IsConnected (xmpp.go:60).
THEOREM WriterFollows == Spec => []WriterFollowsTalk
<1>1. SlotInv => WriterFollowsTalk  BY DEF SlotInv, Fair, WriterFollowsTalk
<1>. QED  BY SlotCorrect, <1>1, PTL

-----------------------------------------------------------------------------
(***************************************************************************)
(* The program implements the slot                                         *)
(***************************************************************************)

\* What the refinement mapping shows, case by case, without CHOOSE.
Free ==
  /\ owner = 0
  /\ phase = IF IsConnected THEN "connected" ELSE IF connecting THEN "wedged" ELSE "idle"

Shown ==
  /\ overtaken => phase = "contested" /\ owner = 0
  /\ ~overtaken =>
       /\ \A g \in Gens : /\ Entering(g) => phase = "entering" /\ owner = g
                          /\ Dialing(g) => phase = "dialing" /\ owner = g
                          /\ Leaving(g) => phase = "leaving" /\ owner = g
       /\ (\A g \in Gens : ~Inside(g)) => Free

\* It does so wherever the inductive invariant holds.
LEMMA SlotShown == SlotInv => Shown
<1>. SUFFICES ASSUME SlotInv PROVE Shown  OBVIOUS
<1>1. overtaken => phase = "contested" /\ owner = 0
  BY DEF phase, owner
<1>2. ASSUME ~overtaken, NEW g \in Gens, Inside(g)
      PROVE  /\ owner = g
             /\ Entering(g) => phase = "entering"
             /\ Dialing(g) => phase = "dialing"
             /\ Leaving(g) => phase = "leaving"
  <2>1. \A h \in Gens : Inside(h) => h = g
    BY <1>2 DEF SlotInv, Fair, DialExclusive
  <2>2. owner = g  BY <1>2, <2>1 DEF owner
  <2>3. \A h \in Gens : h # g => ~Entering(h) /\ ~Dialing(h) /\ ~Leaving(h)
    BY <2>1 DEF Inside
  <2>4. Entering(g) => phase = "entering"
    BY <1>2 DEF phase
  <2>5. Dialing(g) => phase = "dialing"
    <3>1. Dialing(g) => ~Entering(g)  BY DEF Dialing, Entering
    <3>. QED  BY <1>2, <2>3, <3>1 DEF phase
  <2>6. Leaving(g) => phase = "leaving"
    <3>1. Leaving(g) => ~Entering(g) /\ ~Dialing(g)  BY DEF Leaving, Dialing, Entering
    <3>. QED  BY <1>2, <2>3, <3>1 DEF phase
  <2>. QED  BY <2>2, <2>4, <2>5, <2>6
<1>3. ASSUME ~overtaken, \A g \in Gens : ~Inside(g) PROVE Free
  BY <1>3 DEF Free, phase, owner, Inside
<1>. QED  BY <1>1, <1>2, <1>3 DEF Shown, Inside

SlotMoves == [Slot!SlotNext]_<<phase, owner>>

\* A step after which the same loops are at the same places inside, and the
\* flags are as they were, is invisible.
LEMMA SlotStutter ==
  ASSUME Shown, Shown', UNCHANGED <<connecting, IsConnected, overtaken>>,
         \A g \in Gens : /\ Entering(g)' <=> Entering(g)
                         /\ Dialing(g)' <=> Dialing(g)
                         /\ Leaving(g)' <=> Leaving(g)
  PROVE  SlotMoves
<1>1. UNCHANGED <<phase, owner>>
  <2>1. CASE overtaken  BY <2>1 DEF Shown
  <2>2. CASE ~overtaken /\ \E g \in Gens : Inside(g)  BY <2>2 DEF Shown, Inside
  <2>3. CASE ~overtaken /\ \A g \in Gens : ~Inside(g)  BY <2>3 DEF Shown, Inside, Free
  <2>. QED  BY <2>1, <2>2, <2>3
<1>. QED  BY <1>1 DEF SlotMoves

\* Once contested, nothing is shown any more.
LEMMA SlotContested == ASSUME Shown, Shown', overtaken, overtaken' PROVE SlotMoves
BY DEF Shown, SlotMoves

\* A loop comes to line 27, alone or behind another one.
LEMMA EnterShows ==
  ASSUME SlotInv, Shown, Shown', ~overtaken, NEW g \in Gens, NEW here \in {"guard", "test"},
         Enter(g, here), ~connecting \/ IsConnected
  PROVE  SlotMoves
<1>1. loop[g] = here /\ loop'[g] = "mark"
  BY DEF Enter, LoopAt, SlotInv, TypeOK, TypeLoop
<1>2. ~Inside(g) /\ Entering(g)'
  BY <1>1 DEF Inside, Entering, Dialing, Leaving
<1>3. CASE overtaken'
  <2>1. PICK h \in Gens : Inside(h)  BY <1>3 DEF Enter
  <2>2. ~Dialing(h)  BY DEF SlotInv, Fair, Place
  <2>3. Slot!Contest
    BY <1>3, <2>1, <2>2 DEF Shown, Inside, Slot!Contest
  <2>. QED  BY <2>3 DEF SlotMoves, Slot!SlotNext
<1>4. CASE ~overtaken'
  <2>1. \A h \in Gens : ~Inside(h)  BY <1>2, <1>4 DEF Enter
  <2>2. Free  BY <2>1 DEF Shown
  <2>3. Slot!Enter(g)
    BY <1>2, <1>4, <2>2 DEF Shown, Free, Slot!Enter
  <2>. QED  BY <2>3 DEF SlotMoves, Slot!SlotNext
<1>. QED  BY <1>3, <1>4

\* The loop inside fails: nobody is inside any more, and the flags say so for
\* ever.
LEMMA LoseShows ==
  ASSUME SlotInv, SlotInv', ~overtaken, NEW g \in Gens, Dialing(g),
         loop' = [loop EXCEPT ![g] = "done"], UNCHANGED <<connecting, IsConnected, overtaken>>
  PROVE  SlotMoves
<1>1. Shown /\ Shown'  BY SlotShown, PTL
<1>2. \A h \in Gens : ~Inside(h)'
  <2>1. loop'[g] = "done" /\ \A h \in Gens : h # g => loop'[h] = loop[h]
    BY DEF SlotInv, TypeOK, TypeLoop
  <2>. QED
    BY <2>1 DEF SlotInv, Fair, DialExclusive, Inside, Entering, Dialing, Leaving
<1>3. connecting' /\ ~IsConnected'
  BY DEF SlotInv, Fair, Place
<1>4. Slot!Lose
  BY <1>1, <1>2, <1>3 DEF Shown, Free, Slot!Lose
<1>. QED  BY <1>4 DEF SlotMoves, Slot!SlotNext

\* What a step of loop g does to the slot, if it is not a panic.
LEMMA LoopShows ==
  ASSUME SlotInv, SlotInv', ~overtaken, NEW g \in Gens, LoopStep(g) \/ LoopRecv(g),
         ~UNCHANGED <<loop, linkVars>>
  PROVE  SlotMoves
<1>. USE DEF LoopAt
<1>1. Shown /\ Shown'  BY SlotShown, PTL
<1>2. \A s : loop' = [loop EXCEPT ![g] = s] =>
            loop'[g] = s /\ \A h \in Gens : h # g => loop'[h] = loop[h]
  BY DEF SlotInv, TypeOK, TypeLoop
<1>3. ASSUME NEW s, loop' = [loop EXCEPT ![g] = s],
             UNCHANGED <<connecting, IsConnected, overtaken>>,
             s \in {"mark", "clear"} <=> Entering(g),
             s \in {"dial", "auth", "keepalive", "join", "flags"} <=> Dialing(g),
             s = "up" <=> Leaving(g)
      PROVE  SlotMoves
  <2>1. \A h \in Gens : /\ Entering(h)' <=> Entering(h)
                        /\ Dialing(h)' <=> Dialing(h)
                        /\ Leaving(h)' <=> Leaving(h)
    BY <1>2, <1>3 DEF Entering, Dialing, Leaving
  <2>. QED  BY <1>1, <1>3, <2>1, SlotStutter
<1>4. ASSUME NEW s, loop' = [loop EXCEPT ![g] = s],
             UNCHANGED <<connecting, IsConnected, overtaken>>, ~Inside(g),
             s \notin {"mark", "clear", "dial", "auth", "keepalive", "join", "flags", "up"}
      PROVE  SlotMoves
  BY <1>3, <1>4 DEF Inside
<1>5. CASE LoopGuard(g)
  <2>1. CASE connecting
    BY <1>4, <1>5, <2>1 DEF LoopGuard, Inside, Entering, Dialing, Leaving
  <2>2. CASE ~connecting
    BY <1>1, <1>5, <2>2, EnterShows DEF LoopGuard
  <2>. QED  BY <2>1, <2>2
<1>6. CASE LoopTest(g)
  <2>1. CASE IsConnected
    BY <1>1, <1>6, <2>1, EnterShows DEF LoopTest
  <2>2. CASE ~IsConnected
    BY <1>4, <1>6, <2>2 DEF LoopTest, Inside, Entering, Dialing, Leaving
  <2>. QED  BY <2>1, <2>2
<1>7. CASE LoopMark(g)
  <2>1. Entering(g) /\ Entering(g)' /\ ~overtaken'
    BY <1>2, <1>7 DEF LoopMark, Entering
  <2>. QED  BY <1>1, <2>1 DEF Shown, SlotMoves
<1>8. CASE LoopClear(g)
  <2>1. Entering(g) /\ Dialing(g)' /\ ~overtaken'
    BY <1>2, <1>8 DEF LoopClear, Entering, Dialing
  <2>2. Slot!Mark  BY <1>1, <2>1 DEF Shown, Slot!Mark
  <2>. QED  BY <2>2 DEF SlotMoves, Slot!SlotNext
<1>9. CASE LoopFlags(g)
  <2>1. Dialing(g) /\ Leaving(g)' /\ ~overtaken'
    BY <1>2, <1>9 DEF LoopFlags, Dialing, Leaving
  <2>2. Slot!Unmark  BY <1>1, <2>1 DEF Shown, Slot!Unmark
  <2>. QED  BY <2>2 DEF SlotMoves, Slot!SlotNext
<1>10. CASE LoopUp(g)
  <2>1. Leaving(g) /\ ~overtaken' /\ IsConnected'
    BY <1>10 DEF LoopUp, Leaving
  <2>2. \A h \in Gens : ~Inside(h)'
    <3>1. loop'[g] = "disco" /\ \A h \in Gens : h # g => loop'[h] = loop[h]
      BY <1>2, <1>10 DEF LoopUp
    <3>. QED
      BY <2>1, <3>1 DEF SlotInv, Fair, DialExclusive, Inside, Entering, Dialing, Leaving
  <2>3. Slot!Connect  BY <1>1, <2>1, <2>2 DEF Shown, Free, Slot!Connect
  <2>. QED  BY <2>3 DEF SlotMoves, Slot!SlotNext
<1>11. CASE LoopReset(g)
  BY <1>4, <1>11 DEF LoopReset, linkVars, Inside, Entering, Dialing, Leaving
<1>12. ASSUME Dialing(g), ClientFails(g) PROVE SlotMoves
  BY <1>12, LoseShows DEF ClientFails, LoopReturn
<1>13. CASE LoopDial(g) \/ LoopAuth(g)
  BY <1>3, <1>12, <1>13 DEF LoopDial, LoopAuth, Entering, Dialing, Leaving
<1>14. \A c : ~Crash(c)
  BY DEF Crash, rest, loopVars
<1>15. CASE LoopKeepAlive(g)
  BY <1>3, <1>14, <1>15, LoseShows
     DEF LoopKeepAlive, LoopReturn, linkVars, Entering, Dialing, Leaving
<1>16. CASE LoopGoJoin(g) \/ LoopGoRotate(g)
  BY <1>3, <1>14, <1>16
     DEF LoopGoJoin, LoopGoRotate, Go, loopVars, linkVars, Entering, Dialing, Leaving
<1>17. CASE LoopDisco(g) \/ LoopSpawn(g)
  BY <1>4, <1>14, <1>17
     DEF LoopDisco, LoopSpawn, LoopReturn, Go, linkVars, Inside, Entering, Dialing, Leaving
<1>18. CASE LoopPoll(g) \/ LoopRecvError(g) \/ LoopRecv(g)
  BY <1>4, <1>14, <1>18
     DEF LoopPoll, LoopRecvError, LoopRecv, RecvFails, OwnPresence, LoopReturn, Handled,
         linkVars, Inside, Entering, Dialing, Leaving
<1>. QED
  BY <1>5, <1>6, <1>7, <1>8, <1>9, <1>10, <1>11, <1>13, <1>15, <1>16, <1>17, <1>18
     DEF LoopStep

\* An overtaking is never forgotten.
LEMMA ContestedStays == ASSUME [Next]_vars, overtaken PROVE overtaken'
<1>1. CASE UNCHANGED <<loop, linkVars>>  BY <1>1 DEF linkVars
<1>2. ASSUME NEW c, Crash(c) PROVE overtaken'  BY <1>2 DEF Crash, rest, linkVars
<1>3. CASE MainStep
  BY <1>2, <1>3 DEF MainStep, MainTalk, MainTomb, MainGoSig, MainGoRedis, MainGoLoop,
                    MainDying, MainWake, Go, linkVars
<1>4. ASSUME NEW g \in Gens, LoopStep(g) \/ LoopRecv(g) PROVE overtaken'
  BY <1>2, <1>4
     DEF LoopStep, LoopReset, LoopGuard, LoopTest, LoopMark, LoopClear, Enter,
         LoopDial, LoopAuth, ClientFails, LoopKeepAlive, LoopGoJoin, LoopGoRotate, LoopFlags,
         LoopUp, LoopDisco, LoopSpawn, LoopPoll, LoopRecvError, LoopRecv, RecvFails,
         OwnPresence, Handled, Go, linkVars
<1>. QED  BY <1>1, <1>3, <1>4, Others

\* Every step of the program is a step of the slot, or invisible to it.
LEMMA StepShows ==
  ASSUME SlotInv, SlotInv', TombInv, [Next]_vars PROVE SlotMoves
<1>1. Shown /\ Shown'  BY SlotShown, PTL
<1>2. CASE overtaken
  BY <1>1, <1>2, ContestedStays, SlotContested
<1>3. CASE UNCHANGED <<loop, linkVars>>
  BY <1>1, <1>3, SlotStutter DEF linkVars, Entering, Dialing, Leaving
<1>4. CASE MainStep
  <2>1. UNCHANGED <<connecting, IsConnected, overtaken>>
    BY <1>4 DEF MainStep, MainTalk, MainTomb, MainGoSig, MainGoRedis, MainGoLoop,
                MainDying, MainWake, Go, Crash, rest, linkVars
  <2>2. loop' = loop \/ (MainGoLoop /\ loop' = [loop EXCEPT ![gen] = "reset"])
    BY <1>4 DEF MainStep, MainTalk, MainTomb, MainGoSig, MainGoRedis, MainGoLoop,
                MainDying, MainWake, Go, Crash, rest, loopVars
  <2>3. \A g \in Gens : /\ Entering(g)' <=> Entering(g)
                        /\ Dialing(g)' <=> Dialing(g)
                        /\ Leaving(g)' <=> Leaving(g)
    <3>1. MainGoLoop => gen \in Gens /\ loop[gen] = "off"
      BY DEF MainGoLoop, TombInv, SpawnInv, Fresh
    <3>2. \A g \in Gens : loop'[g] # loop[g] => loop[g] = "off" /\ loop'[g] = "reset"
      BY <2>2, <3>1 DEF SlotInv, TypeOK, TypeLoop
    <3>. QED  BY <3>2 DEF Entering, Dialing, Leaving
  <2>. QED  BY <1>1, <2>1, <2>3, SlotStutter
<1>5. CASE ~overtaken /\ \E g \in Gens : LoopStep(g) \/ LoopRecv(g)
  BY <1>3, <1>5, LoopShows
<1>. QED  BY <1>2, <1>3, <1>4, <1>5, Others

\* The program implements the slot: with it marked nobody else comes in, and
\* lost it is lost for ever.
THEOREM Implements == Spec => ImplementsSlot
<1>1. Init => Slot!SlotInit
  <2>. SUFFICES ASSUME Init PROVE Slot!SlotInit  OBVIOUS
  <2>1. Shown  BY SlotInit, SlotShown
  <2>2. ~overtaken /\ \A g \in Gens : ~Inside(g)
    BY DEF Init, Inside, Entering, Dialing, Leaving
  <2>. QED  BY <2>1, <2>2 DEF Init, Shown, Free, Slot!SlotInit
<1>2. SlotInv /\ SlotInv' /\ TombInv /\ [Next]_vars => [Slot!SlotNext]_(Slot!slotVars)
  BY StepShows DEF SlotMoves, Slot!slotVars
<1>. QED  BY <1>1, <1>2, SlotCorrect, TombCorrect, PTL DEF Spec, ImplementsSlot, Slot!SlotSpec

=============================================================================
