--------------------------- MODULE PromiseFuture ---------------------------
(***************************************************************************)
(* The task runner implements write-once cells with subscribers: a task is *)
(* a cell, written when its channel is closed, and a watcher a subscriber. *)
(***************************************************************************)
EXTENDS Promise

CellOf(t) ==
  IF phase[t] = "none" THEN "none"
  ELSE IF done[t] = "open" THEN "pending"
  ELSE IF err[t] THEN "rejected" ELSE "resolved"

ValueOf(t) == IF CellOf(t) = "resolved" THEN result[t] ELSE NoValue

SubOf(w) ==
  CASE wstate[w] = "off" -> "off"
    [] wstate[w] \in {"spawned", "waiting", "stuck"} -> "waiting"
    [] wstate[w] = "fired" -> "told"
    [] wstate[w] = "skipped" -> "dropped"

F == INSTANCE Future WITH
       Cells <- Calls, Subscribers <- Watchers, FutureValues <- Values,
       NoCell <- NoTask, NoResult <- NoValue,
       cell <- [t \in Calls |-> CellOf(t)],
       value <- [t \in Calls |-> ValueOf(t)],
       sub <- [w \in Watchers |-> SubOf(w)],
       on <- wtask

\* Every behaviour of the runner is one of write-once cells: whoever holds a
\* task sees it pending and then, for good, either one value of some run of
\* the function or a failure; and no callback is told anything else.
ImplementsFuture == F!FutureSpec
=============================================================================
