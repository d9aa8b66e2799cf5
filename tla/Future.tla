------------------------------- MODULE Future -------------------------------
(***************************************************************************)
(* What pkg/promise promises, without its queue, cache, channels and       *)
(* goroutines: cells that are written once, and subscribers that are told  *)
(* of a value, never of a failure and never before the cell is written.    *)
(***************************************************************************)
CONSTANTS Cells, Subscribers, FutureValues, NoCell, NoResult

VARIABLES
  cell,     \* "none", "pending", "resolved" or "rejected"
  value,    \* the value of a resolved cell
  sub,      \* "off", "waiting", "told" or "dropped"
  on        \* the cell a subscriber waits for

futureVars == <<cell, value, sub, on>>

FutureInit ==
  /\ cell = [c \in Cells |-> "none"]
  /\ value = [c \in Cells |-> NoResult]
  /\ sub = [s \in Subscribers |-> "off"]
  /\ on = [s \in Subscribers |-> NoCell]

Start(c) ==
  /\ cell[c] = "none"
  /\ cell' = [cell EXCEPT ![c] = "pending"]
  /\ UNCHANGED <<value, sub, on>>

Write(c) ==
  /\ cell[c] = "pending"
  /\ \/ \E v \in FutureValues :
          /\ cell' = [cell EXCEPT ![c] = "resolved"]
          /\ value' = [value EXCEPT ![c] = v]
     \/ /\ cell' = [cell EXCEPT ![c] = "rejected"]
        /\ UNCHANGED value
  /\ UNCHANGED <<sub, on>>

Subscribe(s, c) ==
  /\ sub[s] = "off"
  /\ cell[c] # "none"
  /\ sub' = [sub EXCEPT ![s] = "waiting"]
  /\ on' = [on EXCEPT ![s] = c]
  /\ UNCHANGED <<cell, value>>

Notify(s) ==
  /\ sub[s] = "waiting"
  /\ \/ cell[on[s]] = "resolved" /\ sub' = [sub EXCEPT ![s] = "told"]
     \/ cell[on[s]] = "rejected" /\ sub' = [sub EXCEPT ![s] = "dropped"]
  /\ UNCHANGED <<cell, value, on>>

Leave(s) ==
  /\ sub[s] \in {"told", "dropped"}
  /\ sub' = [sub EXCEPT ![s] = "off"]
  /\ on' = [on EXCEPT ![s] = NoCell]
  /\ UNCHANGED <<cell, value>>

\* A subscriber gives up before it is told anything.
GiveUp(s) ==
  /\ sub[s] = "waiting"
  /\ sub' = [sub EXCEPT ![s] = "off"]
  /\ on' = [on EXCEPT ![s] = NoCell]
  /\ UNCHANGED <<cell, value>>

\* A written cell that nobody waits for may be collected.
Collect(c) ==
  /\ cell[c] \in {"resolved", "rejected"}
  /\ \A s \in Subscribers : on[s] # c
  /\ cell' = [cell EXCEPT ![c] = "none"]
  /\ value' = [value EXCEPT ![c] = NoResult]
  /\ UNCHANGED <<sub, on>>

FutureNext ==
  \/ \E c \in Cells : Start(c) \/ Write(c) \/ Collect(c)
  \/ \E s \in Subscribers :
       Notify(s) \/ Leave(s) \/ \E c \in Cells : Subscribe(s, c)

FutureSpec == FutureInit /\ [][FutureNext]_futureVars

\* For users whose subscribers do not wait for ever.
ImpatientNext == FutureNext \/ \E s \in Subscribers : GiveUp(s)

ImpatientSpec == FutureInit /\ [][ImpatientNext]_futureVars
=============================================================================
