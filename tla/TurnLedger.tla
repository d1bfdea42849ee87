------------------------------ MODULE TurnLedger ------------------------------
(***************************************************************************)
(* What the scheduler promises to the holders of its handles, without      *)
(* queues, workers, tasks or pools: an accepted Turn waits, executes alone *)
(* in its conversation or is merged into the Turn that executes there, and *)
(* is settled once.  Only an executing Turn yields an outcome, and a merged*)
(* one can only share its host's.                                          *)
(***************************************************************************)
EXTENDS Naturals, FiniteSets

CONSTANTS Conversations, MaxTurns

VARIABLES
  stage,    \* "new" | "waiting" | "executing" | "merged" | "settled"
  result,   \* for a settled Turn: the Turn whose outcome it got, or 0
  home      \* the conversation of each accepted Turn

ledger == <<stage, result, home>>

Turns == 1 .. MaxTurns
NoHome == "none"

Init ==
  /\ stage = [t \in Turns |-> "new"]
  /\ result = [t \in Turns |-> 0]
  /\ home = [t \in Turns |-> NoHome]

\* The executing Turns of a conversation: never more than one.
Executing(c) == {t \in Turns : home[t] = c /\ stage[t] = "executing"}

Accept(t, c) ==
  /\ stage[t] = "new"
  /\ stage' = [stage EXCEPT ![t] = "waiting"]
  /\ home' = [home EXCEPT ![t] = c]
  /\ UNCHANGED result

\* Waiting Turns are given up without an outcome: cancel, /stop, shutdown.
Withdraw(S) ==
  /\ \A t \in S : stage[t] = "waiting"
  /\ stage' = [t \in Turns |-> IF t \in S THEN "settled" ELSE stage[t]]
  /\ UNCHANGED <<result, home>>

\* Waiting Turns join the one that executes in their conversation.
Merge(S, c) ==
  /\ Executing(c) # {}
  /\ \A t \in S : stage[t] = "waiting" /\ home[t] = c
  /\ stage' = [t \in Turns |-> IF t \in S THEN "merged" ELSE stage[t]]
  /\ UNCHANGED <<result, home>>

\* All Turns merged into the host settle together: with its outcome or none.
SettleMerged(host, v) ==
  LET S == {t \in Turns : stage[t] = "merged" /\ home[t] = home[host]}
  IN  /\ stage[host] = "executing"
      /\ v \in {host, 0}
      /\ stage' = [t \in Turns |-> IF t \in S THEN "settled" ELSE stage[t]]
      /\ result' = [t \in Turns |-> IF t \in S THEN v ELSE result[t]]
      /\ UNCHANGED home

\* The conversation goes on: what executed settles, and at most one waiting
\* Turn starts.  No merged Turn is left behind.
Advance(c, next) ==
  /\ \A t \in Turns : ~(stage[t] = "merged" /\ home[t] = c)
  /\ \A t \in next : stage[t] = "waiting" /\ home[t] = c
  /\ \A t, u \in next : t = u
  /\ stage' = [t \in Turns |-> CASE t \in next -> "executing"
                                 [] t \in Executing(c) -> "settled"
                                 [] OTHER -> stage[t]]
  /\ \E v \in [Executing(c) -> Turns \cup {0}] :
       /\ \A t \in Executing(c) : v[t] \in {t, 0}
       /\ result' = [t \in Turns |-> IF t \in Executing(c) THEN v[t] ELSE result[t]]
  /\ UNCHANGED home

Next ==
  \/ \E t \in Turns, c \in Conversations : Accept(t, c)
  \/ \E S \in SUBSET Turns : Withdraw(S)
  \/ \E S \in SUBSET Turns, c \in Conversations : Merge(S, c)
  \/ \E host \in Turns, v \in Turns \cup {0} : SettleMerged(host, v)
  \/ \E c \in Conversations, next \in SUBSET Turns : Advance(c, next)

Spec == Init /\ [][Next]_ledger
=============================================================================
