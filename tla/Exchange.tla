------------------------------ MODULE Exchange ------------------------------
(***************************************************************************)
(* What module Relay is there for, without connections, queues and rooms:  *)
(* a phrase is said, perhaps asked of the services, and done with, once    *)
(* and in this order.  The bot answers it at once, or it owes an answer to *)
(* each subscription that the services reached, and pays at most that.     *)
(***************************************************************************)
EXTENDS Integers

CONSTANTS Phrases,   \* the phrases that may be said
          MostLoops  \* the largest number of subscriptions

VARIABLES stage,     \* of each phrase: "unsaid", "said", "asked" or "done"
          owed,      \* answers that were sent and not looked at yet
          given      \* answers posted

exchangeVars == <<stage, owed, given>>

ExchangeInit ==
  /\ stage = [i \in Phrases |-> "unsaid"]
  /\ owed = [i \in Phrases |-> 0] /\ given = [i \in Phrases |-> 0]

Move(i, from, to) == stage[i] = from /\ stage' = [stage EXCEPT ![i] = to]

Say(i) == Move(i, "unsaid", "said") /\ UNCHANGED <<owed, given>>

Ask(i) == Move(i, "said", "asked") /\ UNCHANGED <<owed, given>>

AnswerAtOnce(i) ==
  /\ Move(i, "said", "done") /\ given' = [given EXCEPT ![i] = 1]
  /\ UNCHANGED owed

\* Phrases that call for nothing, that cannot be answered, or are lost.
Forget(I) ==
  /\ \A i \in I : stage[i] = "said"
  /\ stage' = [i \in Phrases |-> IF i \in I THEN "done" ELSE stage[i]]
  /\ UNCHANGED <<owed, given>>

\* The services answer, into n queues.
Owe(i, n) ==
  /\ Move(i, "asked", "done") /\ owed' = [owed EXCEPT ![i] = n]
  /\ UNCHANGED given

\* An answer is posted, or cannot be or must not be.
Pay(i) ==
  /\ owed[i] > 0 /\ owed' = [owed EXCEPT ![i] = @ - 1]
  /\ given' \in {given, [given EXCEPT ![i] = @ + 1]}
  /\ UNCHANGED stage

ExchangeNext ==
  \/ \E i \in Phrases : Say(i) \/ Ask(i) \/ AnswerAtOnce(i) \/ Pay(i)
  \/ \E i \in Phrases, n \in 0 .. MostLoops : Owe(i, n)
  \/ \E I \in SUBSET Phrases : Forget(I)

ExchangeSpec == ExchangeInit /\ [][ExchangeNext]_exchangeVars
=============================================================================
