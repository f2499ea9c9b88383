--------------------------------- MODULE Config ---------------------------------
(***************************************************************************)
(* From the configuration files to the options of the first dial:          *)
(* ReadConfig (internal/jabber/read_config.go) goes through the known      *)
(* locations, refuses or completes the first file it can decode, and main  *)
(* turns the result into xmpp.Options (main.go:40-108), from which         *)
(* NewClient decides when TLS starts (go-xmpp, xmpp.go:275-300, 955-969).  *)
(*                                                                         *)
(* What lies at a location is chosen when ReadConfig looks.  Of a file the *)
(* model keeps what is checked or completed:                               *)
(*   set         the required strings that are not empty                   *)
(*   lists       the lists of strings that are not empty                   *)
(*   ssl, starttls, ssl_verify                                             *)
(*   port        0 if not given                                            *)
(*   delay       any of the six delays and timeouts, which are treated     *)
(*               alike: 0 if not given                                     *)
(*   rooms       for each, whether it has a name, and its nick             *)
(*   csign       the other strings with a default are treated like it      *)
(***************************************************************************)
EXTENDS Integers, Sequences

CONSTANTS
  Locations,   \* number of ConfigLocations
  Ports,       \* port numbers a file may give
  Delays,      \* delays a file may give
  Nick, Alias, \* Config.Jabber.Nick, and the nick that a room may give
  MaxRooms     \* bound: rooms in a file

ASSUME ConfigAssumption ==
  /\ Locations \in Nat /\ MaxRooms \in Nat
  /\ Ports \subseteq Int /\ Delays \subseteq Int
  /\ Nick # "" /\ Alias # ""

VARIABLES
  at,       \* the location that is next
  file,     \* {} or the file that was decoded
  Config,   \* {} while blank, or the configuration
  outcome   \* "reading"; "loaded"; "refused", an error; "panic"

vars == <<at, file, Config, outcome>>

Required == {"channel", "my_channel", "nick", "data_dir"}
Lists    == {"bot_masters", "startup_status", "text"}

Rooms(nicks) == UNION {[1 .. n -> [named : BOOLEAN, nick : nicks]] : n \in 0 .. MaxRooms}

Files ==
  [set : SUBSET Required, lists : SUBSET Lists,
   ssl : BOOLEAN, starttls : BOOLEAN, ssl_verify : BOOLEAN,
   port : Ports \cup {0}, delay : Delays \cup {0},
   rooms : Rooms({"", Alias}), csign : {"", "!"}]

-----------------------------------------------------------------------------
(***************************************************************************)
(* One file                                                                *)
(***************************************************************************)

\* The checks, in order.  An empty list is to get one element by an assignment
\* to its index 0, which is out of range.
Outcome(f) ==
  CASE ~({"channel", "my_channel", "nick"} \subseteq f.set) -> "refused"
    [] "bot_masters" \notin f.lists -> "panic"
    [] f.rooms = <<>> \/ (\E i \in DOMAIN f.rooms : ~f.rooms[i].named) -> "refused"
    [] ~({"startup_status", "text"} \subseteq f.lists) -> "panic"
    [] "data_dir" \notin f.set -> "refused"
    [] OTHER -> "loaded"

OrElse(given, none, default) == IF given = none THEN default ELSE given

\* Mutant: the nick goes to the loop's copy of the room.
Nicks_OfCopy(rooms) == rooms

\* A room without a nick gets the general one.
Nicks(rooms) == [i \in DOMAIN rooms |-> [rooms[i] EXCEPT !.nick = OrElse(@, "", Nick)]]

\* Mutant: ssl is not looked at.
DefaultPort_StartTLS(f) == IF f.starttls THEN 5222 ELSE 5223

DefaultPort(f) == IF f.ssl /\ ~f.starttls THEN 5223 ELSE 5222

\* Without ssl there is no starttls, and without either no verification.
Completed(f) ==
  [set |-> f.set, lists |-> f.lists,
   ssl |-> f.ssl, starttls |-> f.starttls /\ f.ssl,
   ssl_verify |-> f.ssl_verify /\ f.ssl /\ f.starttls,
   port |-> OrElse(f.port, 0, DefaultPort(f)),
   delay |-> OrElse(f.delay, 0, 3),
   rooms |-> Nicks(f.rooms), csign |-> OrElse(f.csign, "", "!")]

\* When TLS starts: at once unless NoTLS = !Ssl; else after <starttls/>, if
\* StartTLS is set; else never (unless the server insists).
Transport(c) ==
  IF c.ssl THEN "tls" ELSE IF c.starttls THEN "starttls" ELSE "plain"

-----------------------------------------------------------------------------
(***************************************************************************)
(* The search                                                              *)
(***************************************************************************)

Init == at = 1 /\ file = {} /\ Config = {} /\ outcome = "reading"

\* There is no file; or it is too long, or cannot be read or decoded.
Skip ==
  /\ outcome = "reading" /\ at <= Locations
  /\ at' = at + 1 /\ UNCHANGED <<file, Config, outcome>>

\* Mutant: a file that is refused gives way to the next location.
Decode_Next ==
  /\ outcome = "reading" /\ at <= Locations
  /\ \E f \in Files :
       /\ file' = {f}
       /\ outcome' = IF Outcome(f) = "refused" THEN "reading" ELSE Outcome(f)
       /\ Config' = IF Outcome(f) = "loaded" THEN {Completed(f)} ELSE Config
       /\ at' = at + 1

\* The file is decoded: it decides.
Decode ==
  /\ outcome = "reading" /\ at <= Locations
  /\ \E f \in Files :
       /\ file' = {f} /\ outcome' = Outcome(f)
       /\ Config' = IF Outcome(f) = "loaded" THEN {Completed(f)} ELSE Config
  /\ UNCHANGED at

\* "config was not loaded!"
Exhausted ==
  /\ outcome = "reading" /\ at > Locations
  /\ outcome' = "refused" /\ UNCHANGED <<at, file, Config>>

Next == Skip \/ Decode \/ Exhausted

Spec == Init /\ [][Next]_vars

-----------------------------------------------------------------------------
(***************************************************************************)
(* Properties                                                              *)
(***************************************************************************)

\* What the rest of the program takes for granted of Config: Redis channels
\* and a directory, no empty list (main.go:106), no room without a name or a
\* nick (an empty nick is found in every text, commands.go:329), no empty
\* command sign (every text would be a command, commands.go:70), no delay of
\* zero (lib.go:148 panics on a splay of zero), and no certificate checked
\* without TLS.
Sound == \A c \in Config :
  /\ c.set = Required /\ c.lists = Lists
  /\ c.rooms # <<>> /\ \A i \in DOMAIN c.rooms : c.rooms[i].named /\ c.rooms[i].nick # ""
  /\ c.csign # "" /\ c.delay # 0 /\ c.port # 0
  /\ c.starttls \/ c.ssl_verify => c.ssl

\* The first file that can be decoded decides (README.md:24-25): neither a
\* file that is refused, nor the one that is loaded, is followed by another.
FirstFileDecides ==
  [][file # {} => UNCHANGED <<at, file, Config>>]_vars

\* A port that is not given fits the transport that main and go-xmpp derive
\* from the same file: 5223 for TLS from the first byte, 5222 for a plain start
\* (data/sample_config.json:20).  Nothing is claimed of a file with ssl and
\* starttls both, where read_config.go:106 and main.go:96 go different ways.
PortFitsTransport ==
  outcome = "loaded" /\ (\A f \in file : f.port = 0 /\ ~(f.ssl /\ f.starttls)) =>
    \A c \in Config : c.port = 5223 <=> Transport(c) = "tls"
=============================================================================
