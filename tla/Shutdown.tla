------------------------------ MODULE Shutdown ------------------------------
(***************************************************************************)
(* main.go, pkg/graceful and pkg/httpsrv: the life of the process.  Main   *)
(* starts a worker for each app that needs one and a last one that shuts   *)
(* the HTTP server down, serves, and after an interrupt waits for the      *)
(* workers, but not longer than a grace period.                            *)
(*                                                                         *)
(* Worker.err and Main share wgContext.err without a lock: to append to it *)
(* is to read it and to write it, and others may do so in between.         *)
(***************************************************************************)
EXTENDS Naturals, Sequences, FiniteSets

CONSTANTS
  Order,      \* the workers in the order main starts them, the last is HTTP
  Fallible,   \* workers that may end by themselves: the XMPP client
  Requests,
  Main

Workers == {Order[i] : i \in DOMAIN Order}
Http == Order[Len(Order)]

ASSUME ShutdownAssumption ==
  /\ Order \in Seq(Workers) /\ Len(Order) > 0
  /\ \A i, j \in DOMAIN Order : Order[i] = Order[j] => i = j
  /\ {"canceled", "deadline", "grace"} \cap Workers = {}
  /\ Fallible \subseteq Workers \ {Http}
  /\ Main \notin Workers

VARIABLES
  mpc,      \* where main is
  wpc,      \* wpc[w]: where worker w is
  ctx,      \* the context has been cancelled
  sig,      \* what the next interrupt will do
  listen,   \* the listener: "none", "open" or "closed"
  active,   \* requests in progress
  err,      \* wgContext.err, the set of the errors in it
  old,      \* old[w]: the error that w has read and will append to
  result,   \* what main returns from run
  exit,     \* history: why the process ended
  ended,    \* history: the errors that workers ended with
  raced     \* history: two were appending to err at once

vars == <<mpc, wpc, ctx, sig, listen, active, err, old, result, exit, ended,
          raced>>
errVars == <<err, old, ended, raced>>

Errors == Workers \cup {"canceled", "deadline", "grace"}

TypeOK ==
  /\ mpc \in {"start", "listen", "serve", "wait", "append", "select",
              "expired", "return", "gone"}
  /\ wpc \in [Workers -> {"off", "run", "drain", "ended", "append", "done"}]
  /\ ctx \in BOOLEAN
  /\ sig \in {"armed", "caught", "cancelled", "default"}
  /\ listen \in {"none", "open", "closed"}
  /\ active \subseteq Requests
  /\ err \subseteq Errors /\ ended \subseteq Errors /\ result \subseteq Errors
  /\ old \in [Workers \cup {Main} -> SUBSET Errors]
  /\ exit \in {"none", "failed", "returned", "killed"}
  /\ raced \in BOOLEAN

Init ==
  /\ mpc = "start"
  /\ wpc = [w \in Workers |-> "off"]
  /\ ctx = FALSE /\ sig = "armed"
  /\ listen = "none" /\ active = {}
  /\ err = {} /\ old = [w \in Workers \cup {Main} |-> {}]
  /\ result = {} /\ exit = "none" /\ ended = {} /\ raced = FALSE

Up == mpc # "gone"

MGoto(from, to) == mpc = from /\ mpc' = to
WGoto(w, from, to) == Up /\ wpc[w] = from /\ wpc' = [wpc EXCEPT ![w] = to]

Appending ==
  {w \in Workers : wpc[w] = "append"}
    \cup (IF mpc \in {"append", "expired"} THEN {Main} ELSE {})

\* w reads wg.err; multierr.Append makes the rest of it ...
ReadErr(w) ==
  /\ old' = [old EXCEPT ![w] = err]
  /\ raced' = (raced \/ Appending # {})
  /\ UNCHANGED <<err, ended>>

\* A fault: a nil error is taken for an error of w.
WriteErrNil(w, e) ==
  /\ err' = old[w] \cup e \cup {w}
  /\ UNCHANGED <<old, ended, raced>>

\* ... and w stores the outcome, even if it had nothing to add.
WriteErr(w, e) ==
  /\ err' = old[w] \cup e
  /\ UNCHANGED <<old, ended, raced>>

-----------------------------------------------------------------------------
(* Faults: forms that a definition below would take after a slip in the    *)
(* code.  No specification uses them; the properties tell them apart.      *)

\* Listening does not ask whether the server has been shut down.
ListenAnyway ==
  /\ MGoto("listen", "serve")
  /\ listen' = "open"
  /\ UNCHANGED <<wpc, ctx, sig, active, errVars, result, exit>>

\* The server is closed without waiting for its connections.
ShutdownIdleNow ==
  /\ WGoto(Http, "drain", "ended")
  /\ UNCHANGED <<mpc, ctx, sig, listen, active, errVars, result, exit>>

\* The group is done as soon as the functions have returned.
DrainedEarly ==
  /\ MGoto("select", "return")
  /\ \A w \in Workers : wpc[w] \in {"ended", "append", "done"}
  /\ UNCHANGED <<wpc, ctx, sig, listen, active, errVars, result, exit>>

-----------------------------------------------------------------------------
(* WithInterupt *)

\* SIGINT is caught once; while the goroutine is busy with it another one has
\* no effect, and afterwards the default takes over again.
Interrupt ==
  /\ Up
  /\ \/ sig = "armed" /\ sig' = "caught" /\ UNCHANGED <<mpc, exit>>
     \/ sig = "default" /\ mpc' = "gone" /\ exit' = "killed" /\ UNCHANGED sig
  /\ UNCHANGED <<wpc, ctx, listen, active, errVars, result>>

\* SIGTERM is never caught.
Terminate ==
  /\ Up
  /\ mpc' = "gone" /\ exit' = "killed"
  /\ UNCHANGED <<wpc, ctx, sig, listen, active, errVars, result>>

Cancel ==
  /\ Up /\ sig = "caught"
  /\ ctx' = TRUE /\ sig' = "cancelled"
  /\ UNCHANGED <<mpc, wpc, listen, active, errVars, result, exit>>

StopNotify ==
  /\ Up /\ sig = "cancelled"
  /\ sig' = "default"
  /\ UNCHANGED <<mpc, wpc, ctx, listen, active, errVars, result, exit>>

-----------------------------------------------------------------------------
(* run: start the apps, serve, wait *)

\* The New of the next app, which calls wg.Go.
Launch ==
  /\ mpc = "start"
  /\ \E i \in DOMAIN Order :
       /\ wpc[Order[i]] = "off"
       /\ \A j \in 1..(i - 1) : wpc[Order[j]] # "off"
       /\ wpc' = [wpc EXCEPT ![Order[i]] = "run"]
       /\ mpc' = IF i = Len(Order) THEN "listen" ELSE "start"
  /\ UNCHANGED <<ctx, sig, listen, active, errVars, result, exit>>

\* New or ListenAndServe fails: run returns at once, and nobody is waited for.
Fail ==
  /\ mpc \in {"start", "listen", "serve"}
  /\ mpc' = "gone" /\ exit' = "failed"
  /\ UNCHANGED <<wpc, ctx, sig, listen, active, errVars, result>>

\* A server that was shut down before does not listen any more.
Listen ==
  /\ \/ listen = "none" /\ MGoto("listen", "serve") /\ listen' = "open"
     \/ listen = "closed" /\ MGoto("listen", "wait") /\ UNCHANGED listen
  /\ UNCHANGED <<wpc, ctx, sig, active, errVars, result, exit>>

\* ListenAndServe returns when Shutdown begins, not when it ends.
ServeEnds ==
  /\ listen = "closed" /\ MGoto("serve", "wait")
  /\ UNCHANGED <<wpc, ctx, sig, listen, active, errVars, result, exit>>

WaitForCtx ==
  /\ ctx /\ MGoto("wait", "append")
  /\ ReadErr(Main)
  /\ UNCHANGED <<wpc, ctx, sig, listen, active, result, exit>>

AppendCtxErr ==
  /\ MGoto("append", "select")
  /\ WriteErr(Main, {"canceled"})
  /\ UNCHANGED <<wpc, ctx, sig, listen, active, result, exit>>

\* All workers have called Done.
Drained ==
  /\ MGoto("select", "return")
  /\ \A w \in Workers : wpc[w] = "done"
  /\ UNCHANGED <<wpc, ctx, sig, listen, active, errVars, result, exit>>

\* The five seconds are over.
GraceExpires ==
  /\ MGoto("select", "expired")
  /\ ReadErr(Main)
  /\ UNCHANGED <<wpc, ctx, sig, listen, active, result, exit>>

AppendGraceErr ==
  /\ MGoto("expired", "return")
  /\ WriteErr(Main, {"grace"})
  /\ UNCHANGED <<wpc, ctx, sig, listen, active, result, exit>>

\* The process exits, with whatever is in progress.
Return ==
  /\ MGoto("return", "gone")
  /\ result' = err /\ exit' = "returned"
  /\ UNCHANGED <<wpc, ctx, sig, listen, active, errVars>>

-----------------------------------------------------------------------------
(* The workers *)

\* A watcher returns nil when the context is done; so does the XMPP client.
Finish(w) ==
  /\ ctx /\ w # Http
  /\ WGoto(w, "run", "ended")
  /\ UNCHANGED <<mpc, ctx, sig, listen, active, errVars, result, exit>>

\* Or it fails, at any time.
Break(w) ==
  /\ w \in Fallible
  /\ WGoto(w, "run", "ended")
  /\ ended' = ended \cup {w}
  /\ UNCHANGED <<mpc, ctx, sig, listen, active, err, old, raced, result, exit>>

\* Server.Shutdown closes the listener ...
ShutdownBegins ==
  /\ ctx
  /\ WGoto(Http, "run", "drain")
  /\ listen' = "closed"
  /\ UNCHANGED <<mpc, ctx, sig, active, errVars, result, exit>>

\* ... and returns when no request is in progress ...
ShutdownIdle ==
  /\ active = {}
  /\ WGoto(Http, "drain", "ended")
  /\ UNCHANGED <<mpc, ctx, sig, listen, active, errVars, result, exit>>

\* ... or after ten seconds, with an error.
ShutdownLate ==
  /\ WGoto(Http, "drain", "ended")
  /\ ended' = ended \cup {"deadline"}
  /\ UNCHANGED <<mpc, ctx, sig, listen, active, err, old, raced, result, exit>>

ErrorOf(w) == ended \cap (IF w = Http THEN {"deadline"} ELSE {w})

BeginAppend(w) ==
  /\ WGoto(w, "ended", "append")
  /\ ReadErr(w)
  /\ UNCHANGED <<mpc, ctx, sig, listen, active, result, exit>>

EndWorker(w) ==
  /\ WGoto(w, "append", "done")
  /\ WriteErr(w, ErrorOf(w))
  /\ UNCHANGED <<mpc, ctx, sig, listen, active, result, exit>>

-----------------------------------------------------------------------------
(* The world outside *)

Accept(r) ==
  /\ mpc = "serve" /\ listen = "open" /\ r \notin active
  /\ active' = active \cup {r}
  /\ UNCHANGED <<mpc, wpc, ctx, sig, listen, errVars, result, exit>>

Answer(r) ==
  /\ Up /\ r \in active
  /\ active' = active \ {r}
  /\ UNCHANGED <<mpc, wpc, ctx, sig, listen, errVars, result, exit>>

\* systemd starts the program again.
Restart ==
  /\ mpc = "gone"
  /\ mpc' = "start" /\ wpc' = [w \in Workers |-> "off"]
  /\ ctx' = FALSE /\ sig' = "armed" /\ listen' = "none" /\ active' = {}
  /\ err' = {} /\ old' = [w \in Workers \cup {Main} |-> {}]
  /\ result' = {} /\ exit' = "none" /\ ended' = {} /\ raced' = FALSE

MainStep ==
  \/ Launch \/ Listen \/ ServeEnds \/ WaitForCtx \/ AppendCtxErr
  \/ Drained \/ AppendGraceErr \/ Return

WorkerStep(w) ==
  \/ Finish(w) \/ BeginAppend(w) \/ EndWorker(w)

HttpStep == ShutdownBegins \/ ShutdownIdle \/ ShutdownLate

Next ==
  \/ Interrupt \/ Terminate \/ Cancel \/ StopNotify
  \/ MainStep \/ Fail \/ GraceExpires
  \/ \E w \in Workers : WorkerStep(w) \/ Break(w)
  \/ HttpStep
  \/ \E r \in Requests : Accept(r) \/ Answer(r)
  \/ Restart

Spec == Init /\ [][Next]_vars

\* Goroutines go on and timers fire; requests may take for ever, and workers
\* other than the HTTP one may not notice the context.
FairSpec ==
  /\ Spec
  /\ WF_vars(Cancel) /\ WF_vars(MainStep) /\ WF_vars(GraceExpires)
  /\ WF_vars(ShutdownBegins)

-----------------------------------------------------------------------------
(* Properties *)

Returned == mpc = "gone" /\ exit = "returned"

\* When run returns, and neither the grace period nor the deadline of Shutdown
\* had to end the wait, no request is cut off: ListenAndServe returns before
\* they are answered (httpsrv/server.go:40), and it is the worker of line 24
\* that holds the process (graceful/with-interrupt.go:105-118).
NoRequestCut ==
  Returned /\ active # {} =>
    "grace" \in result \/ "deadline" \in ended \/ raced

\* What run returns holds the cancellation, so that it is never nil and main
\* exits with 1 (main.go:72-75), the errors of all workers that are done, and
\* without the grace period those of all workers - unless two appended to
\* wgContext.err at once (graceful/with-interrupt.go:85, 112, 120: no lock).
ErrorsReported ==
  Returned /\ ~raced =>
    /\ "canceled" \in result
    /\ "grace" \notin result => ended \subseteq result
    /\ \A w \in Workers : wpc[w] = "done" => ErrorOf(w) \subseteq result

\* Once the context is cancelled, the process ends, whatever main was doing
\* then, even if it had not begun to listen, and though requests and workers
\* may hang (main.go:167-177).
EndsAfterInterrupt == ctx ~> mpc = "gone"
=============================================================================
