-------------------------------- MODULE LogPipe --------------------------------
(***************************************************************************)
(* The debug log of the stanzas (internal/log/log.go).  With the loglevel  *)
(* debug, go-xmpp copies all it reads and writes into log.Writer, the      *)
(* writing end of an io.Pipe (main.go:78-83, xmpp.go:1014-1020), and       *)
(* readIoPipe turns what comes out into lines of the log.  A write to the  *)
(* pipe returns when all of it is read, so the receive loop and everybody  *)
(* who sends a stanza wait for readIoPipe.  A bufio.Scanner gives up for   *)
(* good when its buffer is full without a newline, and the stanzas of a    *)
(* stream need not have any between them.                                  *)
(*                                                                         *)
(* Bytes are grouped into units: a newline, or a block without one.        *)
(***************************************************************************)
EXTENDS Integers, Sequences

CONSTANTS
  Levels,     \* values of Config.Loglevel
  Writers,    \* goroutines that read the stream or write to it
  Limit,      \* bufio.MaxScanTokenSize, in units
  MaxChunk,   \* bound: units of one write
  MaxUnits    \* bound: no write begins after as many units

ASSUME LogAssumption ==
  /\ "debug" \in Levels
  /\ Limit \in Nat \ {0} /\ MaxChunk \in Nat \ {0} /\ MaxUnits \in Nat

VARIABLES
  level,      \* what Init was given
  calling,    \* per writer, what its write has left to give, <<>> when it has none
  holder,     \* {} or the writer that has the lock of the pipe
  buffer,     \* the unfinished line in the scanner
  scanner,    \* "scan", or "stuck" in the loop that logs the error
  logged,     \* what has been logged
  written     \* what was put into the pipe since the start

vars == <<level, calling, holder, buffer, scanner, logged, written>>

Units  == {"block", "newline"}
Chunks == UNION {[1 .. n -> Units] : n \in 1 .. MaxChunk}

\* GetLevel() = "debug"; a level that Init does not know is info.
Verbose == level = "debug"

Init ==
  /\ level \in Levels
  /\ calling = [w \in Writers |-> <<>>] /\ holder = {}
  /\ buffer = <<>> /\ scanner = "scan"
  /\ logged = <<>> /\ written = <<>>

\* The socket has given or taken some bytes, and the copy is written: a
\* writer waits until the pipe is free.  Without debug there is no copy.
Write(w) ==
  /\ Verbose /\ calling[w] = <<>> /\ w \notin holder
  /\ Len(written) < MaxUnits
  /\ \E c \in Chunks : calling' = [calling EXCEPT ![w] = c]
  /\ UNCHANGED <<level, holder, buffer, scanner, logged, written>>

Enter(w) ==
  /\ calling[w] # <<>> /\ holder = {}
  /\ holder' = {w} /\ written' = written \o calling[w]
  /\ UNCHANGED <<level, calling, buffer, scanner, logged>>

\* The write has been read: it returns.
Leave(w) ==
  /\ w \in holder /\ calling[w] = <<>>
  /\ holder' = holder \ {w}
  /\ UNCHANGED <<level, calling, buffer, scanner, logged, written>>

\* Mutant: full one unit too early.
Full_Early == Len(buffer) + 1 >= Limit

Full == Len(buffer) = Limit

\* Mutant: the unfinished line is dropped when a line is logged.
Logs_LineOnly(u) == logged' = Append(logged, u)

\* A newline ends the line, which is logged.
Logs(u) == logged' = logged \o Append(buffer, u)

\* Mutant: it reads a single line.
Scan_Once(w) ==
  /\ logged = <<>> /\ scanner = "scan" /\ ~Full /\ w \in holder /\ calling[w] # <<>>
  /\ calling' = [calling EXCEPT ![w] = Tail(@)]
  /\ LET u == Head(calling[w]) IN
       IF u = "newline"
       THEN Logs(u) /\ buffer' = <<>>
       ELSE buffer' = Append(buffer, u) /\ UNCHANGED logged
  /\ UNCHANGED <<level, holder, scanner, written>>

\* The scanner reads from the write that is in the pipe.
Scan(w) ==
  /\ scanner = "scan" /\ ~Full /\ w \in holder /\ calling[w] # <<>>
  /\ calling' = [calling EXCEPT ![w] = Tail(@)]
  /\ LET u == Head(calling[w]) IN
       IF u = "newline"
       THEN Logs(u) /\ buffer' = <<>>
       ELSE buffer' = Append(buffer, u) /\ UNCHANGED logged
  /\ UNCHANGED <<level, holder, scanner, written>>

\* ErrTooLong: the buffer is given out as a last line, and from then on Scan
\* is false, Err is not nil nor io.EOF, and the loop only logs the error.
TooLong ==
  /\ scanner = "scan" /\ Full
  /\ scanner' = "stuck" /\ logged' = logged \o buffer /\ buffer' = <<>>
  /\ UNCHANGED <<level, calling, holder, written>>

ReadIoPipe == TooLong \/ \E w \in Writers : Scan(w)

Next == ReadIoPipe \/ \E w \in Writers : Write(w) \/ Enter(w) \/ Leave(w)

Spec == Init /\ [][Next]_vars

\* readIoPipe and the writers are scheduled; the lock is not starved.
FairSpec ==
  /\ Spec /\ WF_vars(ReadIoPipe)
  /\ \A w \in Writers : WF_vars(Leave(w)) /\ SF_vars(Enter(w))

-----------------------------------------------------------------------------
(***************************************************************************)
(* Properties                                                              *)
(***************************************************************************)

\* What is in the pipe and not read yet.
Unread == IF \E w \in holder : TRUE THEN calling[CHOOSE w \in holder : TRUE] ELSE <<>>

\* Nothing that was written is lost, doubled or out of order, whoever wrote
\* it and however the scanner fared: the log, the unfinished line and the rest
\* of the write are what was written (log.go:81-84).
InOrder == logged \o buffer \o Unread = written

\* The scanner gives up only after as many units without a newline as its
\* buffer holds.  No single write has as many here: those of several
\* goroutines add up.
StuckByLongLine ==
  scanner = "stuck" =>
    \E i \in 1 .. Len(written) - Limit + 1 :
      \A k \in i .. i + Limit - 1 : written[k] = "block"

\* Until the scanner gives up a write returns, whatever the others write; from
\* then on whoever writes waits for ever.
Writing(w) == calling[w] # <<>> \/ w \in holder

WriteReturns == \A w \in Writers : Writing(w) ~> (~Writing(w) \/ scanner = "stuck")
=============================================================================
