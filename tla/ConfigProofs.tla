----------------------------- MODULE ConfigProofs -----------------------------
(***************************************************************************)
(* What is loaded is complete and fits together, for any number of         *)
(* locations and rooms and whatever a file may say.                        *)
(***************************************************************************)
EXTENDS Config, TLAPS

-----------------------------------------------------------------------------
(***************************************************************************)
(* One file                                                                *)
(***************************************************************************)

\* What a file must have to be loaded, read off the checks of read_config.go.
LEMMA LoadedHas ==
  ASSUME NEW f \in Files, Outcome(f) = "loaded"
  PROVE  /\ f.set = Required /\ f.lists = Lists
         /\ f.rooms # <<>> /\ \A i \in DOMAIN f.rooms : f.rooms[i].named
<1>1. /\ {"channel", "my_channel", "nick"} \subseteq f.set
      /\ "bot_masters" \in f.lists
      /\ ~(f.rooms = <<>> \/ (\E i \in DOMAIN f.rooms : ~f.rooms[i].named))
      /\ {"startup_status", "text"} \subseteq f.lists
      /\ "data_dir" \in f.set
  BY DEF Outcome
<1>2. f.set \subseteq Required /\ f.lists \subseteq Lists
  BY DEF Files
<1>3. QED
  BY <1>1, <1>2 DEF Required, Lists

\* A list of rooms is a function on an initial segment of the numbers.
LEMMA RoomList ==
  ASSUME NEW f \in Files
  PROVE  \E n \in 0 .. MaxRooms : f.rooms \in [1 .. n -> [named : BOOLEAN, nick : {"", Alias}]]
BY DEF Files, Rooms

\* Completing the nicks keeps the list and leaves no nick empty.
LEMMA NicksComplete ==
  ASSUME NEW f \in Files, f.rooms # <<>>, \A i \in DOMAIN f.rooms : f.rooms[i].named
  PROVE  /\ Nicks(f.rooms) # <<>>
         /\ \A i \in DOMAIN Nicks(f.rooms) :
              Nicks(f.rooms)[i].named /\ Nicks(f.rooms)[i].nick # ""
<1>1. PICK n \in 0 .. MaxRooms : f.rooms \in [1 .. n -> [named : BOOLEAN, nick : {"", Alias}]]
  BY RoomList
<1>2. n # 0
  <2>1. SUFFICES ASSUME n = 0 PROVE FALSE
    OBVIOUS
  <2>2. f.rooms \in [{} -> [named : BOOLEAN, nick : {"", Alias}]]
    <3>1. 1 .. 0 = {}
      OBVIOUS
    <3>2. QED
      BY <1>1, <2>1, <3>1
  <2>3. f.rooms = <<>>
    BY <2>2
  <2>4. QED
    BY <2>3
<1>3. n \in Nat /\ 1 \in 1 .. n
  <2>1. MaxRooms \in Nat
    BY ConfigAssumption
  <2>2. n \in Nat
    BY <2>1
  <2>3. QED
    BY <1>2, <2>2
<1>4. DOMAIN Nicks(f.rooms) = 1 .. n
  BY <1>1 DEF Nicks
<1>5. Nicks(f.rooms) # <<>>
  BY <1>3, <1>4
<1>6. ASSUME NEW i \in DOMAIN Nicks(f.rooms)
      PROVE  Nicks(f.rooms)[i].named /\ Nicks(f.rooms)[i].nick # ""
  <2>1. i \in DOMAIN f.rooms /\ i \in 1 .. n
    BY <1>1, <1>6 DEF Nicks
  <2>2. f.rooms[i] \in [named : BOOLEAN, nick : {"", Alias}]
    BY <1>1, <2>1
  <2>3. Nicks(f.rooms)[i] = [f.rooms[i] EXCEPT !.nick = OrElse(f.rooms[i].nick, "", Nick)]
    BY <2>1 DEF Nicks
  <2>4. Nicks(f.rooms)[i].named
    BY <2>1, <2>2, <2>3
  <2>5. Nicks(f.rooms)[i].nick = OrElse(f.rooms[i].nick, "", Nick)
    BY <2>2, <2>3
  <2>6. OrElse(f.rooms[i].nick, "", Nick) # ""
    BY ConfigAssumption DEF OrElse
  <2>7. QED
    BY <2>4, <2>5, <2>6
<1>7. QED
  BY <1>5, <1>6

\* What Sound says of one configuration.
SoundAt(c) ==
  /\ c.set = Required /\ c.lists = Lists
  /\ c.rooms # <<>> /\ \A i \in DOMAIN c.rooms : c.rooms[i].named /\ c.rooms[i].nick # ""
  /\ c.csign # "" /\ c.delay # 0 /\ c.port # 0
  /\ c.starttls \/ c.ssl_verify => c.ssl

LEMMA CompletedSound ==
  ASSUME NEW f \in Files, Outcome(f) = "loaded"
  PROVE  SoundAt(Completed(f))
<1> DEFINE c == Completed(f)
<1>1. /\ f.set = Required /\ f.lists = Lists
      /\ f.rooms # <<>> /\ \A i \in DOMAIN f.rooms : f.rooms[i].named
  BY LoadedHas
<1>2. c.set = Required /\ c.lists = Lists
  BY <1>1 DEF Completed
<1>3. c.rooms # <<>> /\ \A i \in DOMAIN c.rooms : c.rooms[i].named /\ c.rooms[i].nick # ""
  <2>1. c.rooms = Nicks(f.rooms)
    BY DEF Completed
  <2>2. QED
    BY <1>1, <2>1, NicksComplete
<1>4. c.csign # "" /\ c.delay # 0 /\ c.port # 0
  <2>1. c.csign = OrElse(f.csign, "", "!") /\ c.delay = OrElse(f.delay, 0, 3)
        /\ c.port = OrElse(f.port, 0, DefaultPort(f))
    BY DEF Completed
  <2>2. OrElse(f.csign, "", "!") # ""
    BY DEF OrElse
  <2>3. OrElse(f.delay, 0, 3) # 0
    BY DEF OrElse
  <2>4. OrElse(f.port, 0, DefaultPort(f)) # 0
    <3>1. DefaultPort(f) \in {5222, 5223}
      BY DEF DefaultPort
    <3>2. QED
      BY <3>1 DEF OrElse
  <2>5. QED
    BY <2>1, <2>2, <2>3, <2>4
<1>5. c.starttls \/ c.ssl_verify => c.ssl
  BY DEF Completed
<1>6. QED
  BY <1>2, <1>3, <1>4, <1>5 DEF SoundAt

\* The default port against the transport of the completed configuration.
LEMMA CompletedPort ==
  ASSUME NEW f \in Files, f.port = 0, ~(f.ssl /\ f.starttls)
  PROVE  Completed(f).port = 5223 <=> Transport(Completed(f)) = "tls"
<1> DEFINE c == Completed(f)
<1>1. c.ssl = f.ssl /\ c.starttls = (f.starttls /\ f.ssl)
  BY DEF Completed
<1>2. c.port = DefaultPort(f)
  BY DEF Completed, OrElse
<1>3. f.ssl \in BOOLEAN /\ f.starttls \in BOOLEAN
  BY DEF Files
<1>4. QED
  BY <1>1, <1>2, <1>3 DEF DefaultPort, Transport

-----------------------------------------------------------------------------
(***************************************************************************)
(* The search                                                              *)
(***************************************************************************)

\* The inductive invariant: the configuration is the completed file, there is
\* one only when loaded, and a file is the end of the search.
FromFile == \A c \in Config :
  \E f \in file : f \in Files /\ Outcome(f) = "loaded" /\ c = Completed(f)

FileEnds == file # {} => outcome # "reading"

BlankUnlessLoaded == Config # {} => outcome = "loaded"

CInv == FromFile /\ FileEnds /\ BlankUnlessLoaded

LEMMA CInvInit == Init => CInv
BY DEF Init, CInv, FromFile, FileEnds, BlankUnlessLoaded

LEMMA CInvNext == CInv /\ [Next]_vars => CInv'
<1> SUFFICES ASSUME CInv, [Next]_vars PROVE CInv'
  OBVIOUS
<1> USE DEF CInv, FromFile, FileEnds, BlankUnlessLoaded
<1>1. CASE Skip
  BY <1>1 DEF Skip
<1>2. CASE Decode
  <2>1. PICK f \in Files :
          /\ file' = {f} /\ outcome' = Outcome(f)
          /\ Config' = IF Outcome(f) = "loaded" THEN {Completed(f)} ELSE Config
    BY <1>2 DEF Decode
  <2>2. Config = {}
    BY <1>2 DEF Decode
  <2>3. Outcome(f) \in {"loaded", "refused", "panic"}
    BY DEF Outcome
  <2>4. FromFile'
    BY <2>1, <2>2
  <2>5. FileEnds'
    BY <2>1, <2>3
  <2>6. BlankUnlessLoaded'
    BY <2>1, <2>2
  <2>7. QED
    BY <2>4, <2>5, <2>6
<1>3. CASE Exhausted
  BY <1>3 DEF Exhausted
<1>4. CASE UNCHANGED vars
  BY <1>4 DEF vars
<1>5. QED
  BY <1>1, <1>2, <1>3, <1>4 DEF Next

LEMMA CInvAlways == Spec => []CInv
BY CInvInit, CInvNext, PTL DEF Spec

LEMMA CInvSound == CInv => Sound
<1> SUFFICES ASSUME CInv, NEW c \in Config PROVE SoundAt(c)
  BY DEF Sound, SoundAt
<1>1. PICK f \in file : f \in Files /\ Outcome(f) = "loaded" /\ c = Completed(f)
  BY DEF CInv, FromFile
<1>2. QED
  BY <1>1, CompletedSound

LEMMA CInvPort == CInv => PortFitsTransport
<1> SUFFICES ASSUME CInv, NEW c \in Config,
                    \A f \in file : f.port = 0 /\ ~(f.ssl /\ f.starttls)
             PROVE  c.port = 5223 <=> Transport(c) = "tls"
  BY DEF PortFitsTransport
<1>1. PICK f \in file : f \in Files /\ Outcome(f) = "loaded" /\ c = Completed(f)
  BY DEF CInv, FromFile
<1>2. QED
  BY <1>1, CompletedPort

-----------------------------------------------------------------------------
(***************************************************************************)
(* The theorems                                                            *)
(***************************************************************************)

\* Whatever files there are, the configuration that the program runs with has
\* what it takes for granted.
THEOREM LoadedIsSound == Spec => []Sound
BY CInvAlways, CInvSound, PTL

\* A default port fits the transport, unless ssl and starttls are both set.
THEOREM PortFits == Spec => []PortFitsTransport
BY CInvAlways, CInvPort, PTL

\* Nothing is read after the first file that could be decoded.
THEOREM FirstDecides == Spec => FirstFileDecides
<1>1. CInv /\ [Next]_vars => [file # {} => UNCHANGED <<at, file, Config>>]_vars
  BY DEF CInv, FileEnds, Next, Skip, Decode, Exhausted, vars
<1>2. QED
  BY CInvAlways, <1>1, PTL DEF Spec, FirstFileDecides
=============================================================================
