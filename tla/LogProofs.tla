------------------------------ MODULE LogProofs ------------------------------
(***************************************************************************)
(* Nothing that is written into the log's pipe is lost, for any number of  *)
(* goroutines and writes of any length.                                    *)
(***************************************************************************)
EXTENDS LogPipe, TLAPS

-----------------------------------------------------------------------------
(***************************************************************************)
(* The inductive invariant                                                 *)
(***************************************************************************)

\* One goroutine at a time has the pipe, and its rest is what is unread.
OneHolder == holder = {} \/ \E w \in Writers : holder = {w}

Lines == logged \in Seq(Units) /\ buffer \in Seq(Units) /\ written \in Seq(Units)

Calls == calling \in [Writers -> Seq(Units)]

\* The unfinished line has no newline.
Unbroken == \A k \in DOMAIN buffer : buffer[k] = "block"

LogInv == OneHolder /\ Lines /\ Calls /\ Unbroken /\ InOrder /\ StuckByLongLine

-----------------------------------------------------------------------------
(***************************************************************************)
(* Lemmas                                                                  *)
(***************************************************************************)

\* What is unread is the rest of the write that is in the pipe.
LEMMA UnreadOf == ASSUME NEW w \in Writers PROVE holder = {w} => Unread = calling[w]
BY DEF Unread

LEMMA UnreadNone == holder = {} => Unread = <<>>
BY DEF Unread

\* A unit that goes from the front of the unread to the end of the read.
LEMMA MoveOver ==
  ASSUME NEW s \in Seq(Units), NEW t \in Seq(Units), NEW u \in Seq(Units), u # <<>>
  PROVE  (s \o Append(t, Head(u))) \o Tail(u) = (s \o t) \o u
OBVIOUS
\* A run of blocks stays one when more is written.
LEMMA LongerLine ==
  ASSUME NEW s \in Seq(Units), NEW t \in Seq(Units),
         \E i \in 1 .. Len(s) - Limit + 1 : \A k \in i .. i + Limit - 1 : s[k] = "block"
  PROVE  \E i \in 1 .. Len(s \o t) - Limit + 1 :
           \A k \in i .. i + Limit - 1 : (s \o t)[k] = "block"
<1>1. PICK i \in 1 .. Len(s) - Limit + 1 : \A k \in i .. i + Limit - 1 : s[k] = "block"
  OBVIOUS
<1>2. Limit \in Nat \ {0}
  BY LogAssumption
<1>3. i \in 1 .. Len(s \o t) - Limit + 1
  BY <1>2
<1>4. ASSUME NEW k \in i .. i + Limit - 1 PROVE (s \o t)[k] = "block"
  <2>1. k \in 1 .. Len(s)
    BY <1>2
  <2>2. (s \o t)[k] = s[k]
    BY <2>1
  <2>3. QED
    BY <1>1, <2>2
<1>5. QED
  BY <1>3, <1>4

\* What is joined is as long as its parts.
LEMMA Joined ==
  ASSUME NEW s \in Seq(Units), NEW t \in Seq(Units)
  PROVE  s \o t \in Seq(Units) /\ Len(s \o t) = Len(s) + Len(t)
OBVIOUS

\* A full line that has been read is a run of blocks in what was written.
LEMMA FullLine ==
  ASSUME NEW a \in Seq(Units), NEW b \in Seq(Units), NEW c \in Seq(Units),
         Len(b) = Limit, \A k \in DOMAIN b : b[k] = "block"
  PROVE  \E i \in 1 .. Len(a \o b \o c) - Limit + 1 :
           \A k \in i .. i + Limit - 1 : (a \o b \o c)[k] = "block"
<1>1. Limit \in Nat \ {0}
  BY LogAssumption
<1>2. /\ a \o b \in Seq(Units) /\ Len(a \o b) = Len(a) + Limit
      /\ Len(a \o b \o c) = Len(a) + Limit + Len(c)
  <2>1. a \o b \in Seq(Units) /\ Len(a \o b) = Len(a) + Len(b)
    BY Joined
  <2>2. Len((a \o b) \o c) = Len(a \o b) + Len(c)
    BY <2>1, Joined
  <2>3. QED
    BY <2>1, <2>2
<1>3. Len(a) + 1 \in 1 .. Len(a \o b \o c) - Limit + 1
  BY <1>1, <1>2
<1>4. ASSUME NEW k \in Len(a) + 1 .. Len(a) + Limit
      PROVE  (a \o b \o c)[k] = "block"
  <2>1. k \in 1 .. Len(a \o b) /\ k - Len(a) \in 1 .. Len(b)
    BY <1>1, <1>2
  <2>2. (a \o b \o c)[k] = (a \o b)[k]
    BY <1>2, <2>1
  <2>3. (a \o b)[k] = b[k - Len(a)]
    BY <1>1, <1>2, <2>1
  <2>4. QED
    BY <2>1, <2>2, <2>3
<1>5. Len(a) + Limit = (Len(a) + 1) + Limit - 1
  BY <1>1
<1>6. QED
  BY <1>3, <1>4, <1>5

-----------------------------------------------------------------------------
(***************************************************************************)
(* The steps                                                               *)
(***************************************************************************)

LEMMA LogInvInit == Init => LogInv
<1> SUFFICES ASSUME Init PROVE LogInv
  OBVIOUS
<1>1. OneHolder /\ Lines /\ Calls /\ Unbroken /\ StuckByLongLine
  BY DEF Init, OneHolder, Lines, Calls, Unbroken, StuckByLongLine
<1>2. Unread = <<>>
  BY UnreadNone DEF Init
<1>3. InOrder
  BY <1>2 DEF Init, InOrder
<1>4. QED
  BY <1>1, <1>3 DEF LogInv

\* A write begins: it is not in the pipe yet.
LEMMA WriteKeeps == ASSUME NEW w \in Writers PROVE LogInv /\ Write(w) => LogInv'
<1> SUFFICES ASSUME LogInv, Write(w) PROVE LogInv'
  OBVIOUS
<1>1. PICK c \in Seq(Units) : calling' = [calling EXCEPT ![w] = c]
  <2>1. PICK c \in Chunks : calling' = [calling EXCEPT ![w] = c]
    BY DEF Write
  <2>2. PICK n \in 1 .. MaxChunk : c \in [1 .. n -> Units]
    BY <2>1 DEF Chunks
  <2>3. n \in Nat
    BY <2>2, LogAssumption
  <2>4. c \in Seq(Units)
    BY <2>2, <2>3
  <2>5. QED
    BY <2>1, <2>4
<1>2. w \notin holder /\ UNCHANGED <<holder, buffer, scanner, logged, written>>
  BY DEF Write
<1>3. OneHolder' /\ Lines' /\ Calls' /\ Unbroken' /\ StuckByLongLine'
  BY <1>1, <1>2 DEF LogInv, OneHolder, Lines, Calls, Unbroken, StuckByLongLine
<1>4. Unread' = Unread
  BY <1>1, <1>2 DEF LogInv, OneHolder, Calls, Unread
<1>5. InOrder'
  BY <1>2, <1>4 DEF LogInv, InOrder
<1>6. QED
  BY <1>3, <1>5 DEF LogInv

\* What is written is what is unread then.
LEMMA EnterKeeps == ASSUME NEW w \in Writers PROVE LogInv /\ Enter(w) => LogInv'
<1> SUFFICES ASSUME LogInv, Enter(w) PROVE LogInv'
  OBVIOUS
<1>1. /\ holder = {} /\ holder' = {w} /\ written' = written \o calling[w]
      /\ UNCHANGED <<calling, buffer, scanner, logged>>
  BY DEF Enter
<1>2. calling[w] \in Seq(Units) /\ logged \in Seq(Units) /\ buffer \in Seq(Units)
      /\ written \in Seq(Units)
  BY DEF LogInv, Calls, Lines
<1>3. OneHolder' /\ Lines' /\ Calls' /\ Unbroken'
  BY <1>1, <1>2 DEF LogInv, OneHolder, Lines, Calls, Unbroken
<1>4. InOrder'
  <2>1. logged \o buffer = written
    BY <1>1, <1>2, UnreadNone DEF LogInv, InOrder
  <2>2. Unread' = calling[w]
    BY <1>1, UnreadOf DEF Unread
  <2>3. QED
    BY <1>1, <2>1, <2>2 DEF InOrder
<1>5. StuckByLongLine'
  BY <1>1, <1>2, LongerLine DEF LogInv, StuckByLongLine
<1>6. QED
  BY <1>3, <1>4, <1>5 DEF LogInv

LEMMA LeaveKeeps == ASSUME NEW w \in Writers PROVE LogInv /\ Leave(w) => LogInv'
<1> SUFFICES ASSUME LogInv, Leave(w) PROVE LogInv'
  OBVIOUS
<1>1. /\ w \in holder /\ calling[w] = <<>> /\ holder' = holder \ {w}
      /\ UNCHANGED <<calling, buffer, scanner, logged, written>>
  BY DEF Leave
<1>2. holder = {w} /\ holder' = {}
  BY <1>1 DEF LogInv, OneHolder
<1>3. Unread = <<>> /\ Unread' = <<>>
  BY <1>1, <1>2, UnreadOf DEF Unread
<1>4. InOrder'
  BY <1>1, <1>3 DEF LogInv, InOrder
<1>5. OneHolder' /\ Lines' /\ Calls' /\ Unbroken' /\ StuckByLongLine'
  BY <1>1, <1>2 DEF LogInv, OneHolder, Lines, Calls, Unbroken, StuckByLongLine
<1>6. QED
  BY <1>4, <1>5 DEF LogInv

\* The scanner takes one unit.
LEMMA ScanKeeps == ASSUME NEW w \in Writers PROVE LogInv /\ Scan(w) => LogInv'
<1> SUFFICES ASSUME LogInv, Scan(w) PROVE LogInv'
  OBVIOUS
<1>1. /\ w \in holder /\ calling[w] # <<>>
      /\ calling' = [calling EXCEPT ![w] = Tail(@)]
      /\ UNCHANGED <<holder, scanner, written>>
  BY DEF Scan
<1>2. PICK c \in Seq(Units), u \in Units : c = calling[w] /\ u = Head(c) /\ c # <<>>
  <2>1. calling[w] \in Seq(Units)
    BY DEF LogInv, Calls
  <2>2. Head(calling[w]) \in Units
    BY <1>1, <2>1
  <2>3. QED
    BY <1>1, <2>1, <2>2
<1>3. \/ u = "newline" /\ logged' = logged \o Append(buffer, u) /\ buffer' = <<>>
      \/ u = "block" /\ logged' = logged /\ buffer' = Append(buffer, u)
  BY <1>2 DEF Scan, Logs, Units
<1>4. logged \in Seq(Units) /\ buffer \in Seq(Units) /\ written \in Seq(Units)
  BY DEF LogInv, Lines
<1>5. holder = {w}
  BY <1>1 DEF LogInv, OneHolder
<1>6. Unread = c /\ Unread' = Tail(c)
  <2>1. Unread = c
    BY <1>2, <1>5, UnreadOf
  <2>2. Unread' = calling'[w]
    BY <1>1, <1>5 DEF Unread
  <2>3. QED
    BY <1>1, <1>2, <2>1, <2>2 DEF LogInv, Calls
<1>7. InOrder'
  <2>1. (logged \o Append(buffer, Head(c))) \o Tail(c) = (logged \o buffer) \o c
    BY <1>2, <1>4, MoveOver
  <2>2. (logged' \o buffer') = logged \o Append(buffer, u)
    <3>1. Append(buffer, u) \in Seq(Units)
      BY <1>2, <1>4
    <3>2. logged \o Append(buffer, u) \in Seq(Units)
      BY <1>4, <3>1
    <3>3. (logged \o Append(buffer, u)) \o <<>> = logged \o Append(buffer, u)
      BY <3>2
    <3>4. QED
      BY <1>3, <3>3
  <2>3. QED
    BY <1>1, <1>2, <1>6, <2>1, <2>2 DEF LogInv, InOrder
<1>8. Lines'
  <2>1. Append(buffer, u) \in Seq(Units)
    BY <1>2, <1>4
  <2>2. logged \o Append(buffer, u) \in Seq(Units)
    BY <1>4, <2>1
  <2>3. QED
    <3>1. <<>> \in Seq(Units)
      OBVIOUS
    <3>2. QED
      BY <1>1, <1>3, <1>4, <2>1, <2>2, <3>1 DEF Lines
<1>9. Calls'
  <2>1. Tail(c) \in Seq(Units)
    BY <1>2
  <2>2. QED
    BY <1>1, <1>2, <2>1 DEF LogInv, Calls
<1>10. Unbroken'
  <2>1. CASE buffer' = <<>>
    BY <2>1 DEF Unbroken
  <2>2. CASE u = "block" /\ buffer' = Append(buffer, u)
    <3>1. \A k \in 1 .. Len(buffer) : buffer[k] = "block"
      BY <1>4 DEF LogInv, Unbroken
    <3>2. \A k \in 1 .. Len(buffer) + 1 : Append(buffer, u)[k] = "block"
      BY <1>4, <2>2, <3>1
    <3>3. DOMAIN Append(buffer, u) = 1 .. Len(buffer) + 1
      BY <1>4
    <3>4. QED
      BY <2>2, <3>2, <3>3 DEF Unbroken
  <2>3. QED
    BY <1>3, <2>1, <2>2
<1>11. OneHolder' /\ StuckByLongLine'
  BY <1>1 DEF LogInv, OneHolder, StuckByLongLine
<1>12. QED
  BY <1>7, <1>8, <1>9, <1>10, <1>11 DEF LogInv

\* The scanner gives up over a full line.
LEMMA TooLongKeeps == LogInv /\ TooLong => LogInv'
<1> SUFFICES ASSUME LogInv, TooLong PROVE LogInv'
  OBVIOUS
<1>1. /\ Len(buffer) = Limit /\ logged' = logged \o buffer /\ buffer' = <<>>
      /\ UNCHANGED <<calling, holder, written>>
  BY DEF TooLong, Full
<1>2. logged \in Seq(Units) /\ buffer \in Seq(Units) /\ written \in Seq(Units)
  BY DEF LogInv, Lines
<1>3. Unread' = Unread
  BY <1>1 DEF Unread
<1>4. Unread \in Seq(Units)
  <2>1. CASE holder = {}
    <3>1. Unread = <<>>
      BY <2>1, UnreadNone
    <3>2. QED
      BY <3>1
  <2>2. CASE \E w \in Writers : holder = {w}
    <3>1. PICK w \in Writers : holder = {w}
      BY <2>2
    <3>2. Unread = calling[w]
      BY <3>1, UnreadOf
    <3>3. QED
      BY <3>2 DEF LogInv, Calls
  <2>3. QED
    BY <2>1, <2>2 DEF LogInv, OneHolder
<1>5. logged \o buffer \in Seq(Units)
  BY <1>2
<1>6. InOrder'
  <2>1. (logged \o buffer) \o <<>> = logged \o buffer
    BY <1>5
  <2>2. QED
    BY <1>1, <1>3, <2>1 DEF LogInv, InOrder
<1>7. StuckByLongLine'
  <2>1. PICK a \in Seq(Units), b \in Seq(Units), c \in Seq(Units) :
          a = logged /\ b = buffer /\ c = Unread
    BY <1>2, <1>4
  <2>2. a \o b \o c = written
    BY <2>1 DEF LogInv, InOrder
  <2>3. Len(b) = Limit /\ \A k \in DOMAIN b : b[k] = "block"
    BY <1>1, <2>1 DEF LogInv, Unbroken
  <2>4. \E i \in 1 .. Len(a \o b \o c) - Limit + 1 :
          \A k \in i .. i + Limit - 1 : (a \o b \o c)[k] = "block"
    BY <2>3, FullLine
  <2>5. QED
    BY <1>1, <2>2, <2>4 DEF StuckByLongLine
<1>8. OneHolder' /\ Lines' /\ Calls' /\ Unbroken'
  BY <1>1, <1>2, <1>5 DEF LogInv, OneHolder, Lines, Calls, Unbroken
<1>9. QED
  BY <1>6, <1>7, <1>8 DEF LogInv

LEMMA LogInvNext == LogInv /\ [Next]_vars => LogInv'
<1> SUFFICES ASSUME LogInv, [Next]_vars PROVE LogInv'
  OBVIOUS
<1>1. CASE UNCHANGED vars
  BY <1>1 DEF vars, LogInv, OneHolder, Lines, Calls, Unbroken, InOrder, Unread, StuckByLongLine
<1>2. QED
  BY <1>1, WriteKeeps, EnterKeeps, LeaveKeeps, ScanKeeps, TooLongKeeps DEF Next, ReadIoPipe

LEMMA LogInvAlways == Spec => []LogInv
BY LogInvInit, LogInvNext, PTL DEF Spec

-----------------------------------------------------------------------------
(***************************************************************************)
(* The theorems                                                            *)
(***************************************************************************)

\* The log, the unfinished line and what is unread are what was written.
THEOREM NothingLost == Spec => []InOrder
<1>1. LogInv => InOrder
  BY DEF LogInv
<1>2. QED
  BY LogInvAlways, <1>1, PTL

\* The scanner gives up only over as long a line as its buffer holds.
THEOREM OnlyLongLinesStop == Spec => []StuckByLongLine
<1>1. LogInv => StuckByLongLine
  BY DEF LogInv
<1>2. QED
  BY LogInvAlways, <1>1, PTL
=============================================================================
