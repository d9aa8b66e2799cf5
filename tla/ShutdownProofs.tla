--------------------------- MODULE ShutdownProofs ---------------------------
(***************************************************************************)
(* Proofs about Shutdown, for any number of workers and requests.          *)
(***************************************************************************)
EXTENDS Shutdown, TLAPS

\* Until two append at once, there is one at most, and nothing has been
\* written since it read.
AppendsAlone ==
  \A a \in Appending : old[a] = err /\ \A b \in Appending : a = b

\* The errors that are in wgContext.err, then: those of the workers that are
\* done, the cancellation once Wait goes on to select, and that of the grace
\* period if Wait returns before the workers are done.
ErrorsSoFar ==
  /\ \A w \in Workers : wpc[w] = "done" => ErrorOf(w) \subseteq err
  /\ mpc \in {"select", "expired", "return"} => "canceled" \in err
  /\ mpc = "return" => "grace" \in err \/ \A w \in Workers : wpc[w] = "done"

\* The HTTP worker ends after the last request, or at its deadline, and no
\* request comes in when it has begun to shut the server down.
ServerDrains ==
  /\ wpc[Http] \in {"drain", "ended", "append", "done"} => listen = "closed"
  /\ wpc[Http] \in {"ended", "append", "done"} =>
       active = {} \/ "deadline" \in ended

EndedBy == ended \subseteq (Workers \ {Http}) \cup {"deadline"}

IInv ==
  /\ TypeOK
  /\ EndedBy
  /\ ServerDrains
  /\ ~raced => AppendsAlone
  /\ ~raced /\ Up => ErrorsSoFar
  /\ NoRequestCut /\ ErrorsReported

LEMMA HttpIsWorker ==
  /\ Http \in Workers /\ Main \notin Workers
  /\ \A i \in DOMAIN Order : Order[i] \in Workers
  /\ "deadline" \notin Workers
  BY ShutdownAssumption DEF Http, Workers

LEMMA InitInv == Init => IInv
  BY HttpIsWorker
     DEF Init, IInv, TypeOK, EndedBy, ServerDrains, AppendsAlone, Appending,
         ErrorsSoFar, Up, NoRequestCut, ErrorsReported, Returned, Errors

LEMMA RestartInv == ASSUME IInv, Restart PROVE IInv'
  BY HttpIsWorker
     DEF Restart, IInv, TypeOK, EndedBy, ServerDrains, AppendsAlone, Appending,
         ErrorsSoFar, Up, NoRequestCut, ErrorsReported, Returned, Errors

\* Steps that change neither a worker nor a list of errors.
LEMMA CalmInv ==
  ASSUME IInv, TypeOK', UNCHANGED <<wpc, errVars, result>>,
         Appending' \subseteq Appending,
         active' \subseteq active \/ listen = "open",
         listen = "closed" => listen' = "closed",
         Up, mpc' \in {mpc, "start", "listen", "serve", "wait"} \/ ~Up',
         Up' \/ exit' # "returned"
  PROVE  IInv'
<1>1. EndedBy' /\ ServerDrains'
  BY DEF IInv, EndedBy, ServerDrains, errVars
<1>2. ~raced' => AppendsAlone'
  BY DEF IInv, AppendsAlone, errVars
<1>3. ~raced' /\ Up' => ErrorsSoFar'
  BY DEF IInv, ErrorsSoFar, errVars, Up, ErrorOf
<1>4. NoRequestCut' /\ ErrorsReported'
  BY DEF NoRequestCut, ErrorsReported, Returned, Up
<1> QED BY <1>1, <1>2, <1>3, <1>4 DEF IInv

LEMMA OutsideInv ==
  ASSUME IInv,
         \/ Interrupt \/ Terminate \/ Cancel \/ StopNotify
         \/ Fail \/ Listen \/ ServeEnds
         \/ \E r \in Requests : Accept(r) \/ Answer(r)
  PROVE  IInv'
<1>1. /\ UNCHANGED <<wpc, errVars, result>> /\ Up
      /\ mpc' \in {mpc, "start", "listen", "serve", "wait"} \/ ~Up'
      /\ Up' \/ exit' # "returned"
  BY DEF Interrupt, Terminate, Cancel, StopNotify, Fail, Listen, ServeEnds,
         Accept, Answer, MGoto, Up
<1>2. /\ active' \subseteq active \/ listen = "open"
      /\ listen = "closed" => listen' = "closed"
  BY DEF Interrupt, Terminate, Cancel, StopNotify, Fail, Listen, ServeEnds,
         Accept, Answer
<1>3. TypeOK'
  <2>1. CASE Interrupt \/ Terminate \/ Cancel \/ StopNotify
    BY <2>1 DEF Interrupt, Terminate, Cancel, StopNotify, IInv, TypeOK, errVars
  <2>2. CASE Fail \/ Listen \/ ServeEnds
    BY <2>2 DEF Fail, Listen, ServeEnds, MGoto, IInv, TypeOK, errVars
  <2>3. CASE \E r \in Requests : Accept(r) \/ Answer(r)
    BY <2>3 DEF Accept, Answer, IInv, TypeOK, errVars
  <2> QED BY <2>1, <2>2, <2>3
<1>4. Appending' \subseteq Appending
  BY DEF Interrupt, Terminate, Cancel, StopNotify, Fail, Listen, ServeEnds,
         Accept, Answer, MGoto, Appending
<1> QED BY <1>1, <1>2, <1>3, <1>4, CalmInv

\* A worker is started, or it stops and has not yet reported an error.
LEMMA MoveInv ==
  ASSUME IInv, NEW w \in Workers, TypeOK', EndedBy', ServerDrains', Up,
         wpc[w] \notin {"append", "done"},
         NEW s \in {"run", "drain", "ended"},
         wpc' = [wpc EXCEPT ![w] = s],
         \A v \in Workers \ {w} : ErrorOf(v)' = ErrorOf(v),
         UNCHANGED <<err, old, raced>>,
         mpc' = mpc \/ mpc' \in {"start", "listen"}
  PROVE  IInv'
<1>1. \A v \in Workers : /\ wpc'[v] = "append" <=> wpc[v] = "append"
                         /\ wpc'[v] = "done" <=> wpc[v] = "done"
  BY DEF IInv, TypeOK
<1>2. Appending' \subseteq Appending
  BY <1>1 DEF Appending
<1>3. ~raced' => AppendsAlone'
  BY <1>2 DEF IInv, AppendsAlone
<1>4. ~raced' /\ Up' => ErrorsSoFar'
  BY <1>1 DEF IInv, ErrorsSoFar, Up
<1>5. NoRequestCut' /\ ErrorsReported'
  BY DEF NoRequestCut, ErrorsReported, Returned, Up
<1> QED BY <1>3, <1>4, <1>5 DEF IInv

LEMMA LaunchInv == ASSUME IInv, Launch PROVE IInv'
<1>1. PICK i \in DOMAIN Order :
        /\ wpc[Order[i]] = "off" /\ wpc' = [wpc EXCEPT ![Order[i]] = "run"]
        /\ mpc' = IF i = Len(Order) THEN "listen" ELSE "start"
  BY DEF Launch
<1>2. Order[i] \in Workers
  BY HttpIsWorker
<1>3. TypeOK'
  BY <1>1, <1>2 DEF Launch, IInv, TypeOK, errVars
<1>4. ServerDrains' /\ EndedBy' /\ Up
  BY <1>1, <1>2, HttpIsWorker
     DEF Launch, IInv, TypeOK, ServerDrains, EndedBy, errVars, Up
<1>5. UNCHANGED <<err, old, raced, ended>>
  BY DEF Launch, errVars
<1> QED BY <1>1, <1>2, <1>3, <1>4, <1>5, MoveInv DEF ErrorOf

LEMMA StopInv ==
  ASSUME IInv, NEW w \in Workers, Finish(w) \/ Break(w) PROVE IInv'
<1>1. /\ wpc[w] = "run" /\ wpc' = [wpc EXCEPT ![w] = "ended"] /\ w # Http
      /\ UNCHANGED <<mpc, listen, active, err, old, raced>> /\ Up
      /\ ended' \in {ended, ended \cup {w}}
  BY ShutdownAssumption DEF Finish, Break, WGoto, errVars
<1>2. TypeOK'
  BY <1>1 DEF Finish, Break, WGoto, IInv, TypeOK, Errors, errVars
<1>3. ServerDrains' /\ EndedBy'
  BY <1>1, HttpIsWorker DEF IInv, TypeOK, ServerDrains, EndedBy
<1>4. \A v \in Workers \ {w} : ErrorOf(v)' = ErrorOf(v)
  BY <1>1, HttpIsWorker DEF ErrorOf
<1> QED BY <1>1, <1>2, <1>3, <1>4, MoveInv

LEMMA HttpInv == ASSUME IInv, HttpStep PROVE IInv'
<1>1. PICK s \in {"drain", "ended"} :
        /\ wpc[Http] \in {"run", "drain"} /\ wpc' = [wpc EXCEPT ![Http] = s]
        /\ Up /\ UNCHANGED <<mpc, active, err, old, raced>>
        /\ ended' \in {ended, ended \cup {"deadline"}}
        /\ wpc[Http] = "run" => s = "drain" /\ listen' = "closed"
        /\ wpc[Http] = "drain" => listen' = listen
        /\ s = "ended" => active = {} \/ "deadline" \in ended'
  BY DEF HttpStep, ShutdownBegins, ShutdownIdle, ShutdownLate, WGoto, errVars
<1>2. TypeOK'
  <2>1. /\ listen' \in {listen, "closed"}
        /\ UNCHANGED <<mpc, ctx, sig, active, err, old, raced, result, exit>>
    BY DEF HttpStep, ShutdownBegins, ShutdownIdle, ShutdownLate, errVars
  <2>2. wpc' \in [Workers ->
                   {"off", "run", "drain", "ended", "append", "done"}]
    BY <1>1 DEF IInv, TypeOK
  <2>3. ended' \subseteq Errors
    BY <1>1 DEF IInv, TypeOK, Errors
  <2> QED BY <2>1, <2>2, <2>3 DEF IInv, TypeOK
<1>3. ServerDrains' /\ EndedBy'
  <2>1. wpc'[Http] = s
    BY <1>1, HttpIsWorker DEF IInv, TypeOK
  <2>2. EndedBy'
    BY <1>1 DEF IInv, EndedBy
  <2>3. CASE wpc[Http] = "run"
    <3>1. wpc'[Http] = "drain" /\ listen' = "closed"
      BY <1>1, <2>1, <2>3
    <3> QED BY <2>2, <3>1 DEF ServerDrains
  <2>4. CASE wpc[Http] = "drain"
    <3>1. listen' = "closed"
      BY <1>1, <2>4 DEF IInv, ServerDrains
    <3>2. s = "ended" => active' = {} \/ "deadline" \in ended'
      BY <1>1
    <3> QED BY <2>1, <2>2, <3>1, <3>2 DEF ServerDrains
  <2> QED BY <1>1, <2>2, <2>3, <2>4
<1>4. \A v \in Workers \ {Http} : ErrorOf(v)' = ErrorOf(v)
  BY <1>1, HttpIsWorker DEF ErrorOf
<1> QED BY <1>1, <1>2, <1>3, <1>4, HttpIsWorker, MoveInv

\* A begins to append.
LEMMA ReadInv ==
  ASSUME IInv, NEW a \in Workers \cup {Main}, ReadErr(a), Up, Up',
         Appending' = Appending \cup {a}, TypeOK',
         \A w \in Workers : wpc'[w] \in {"done", "drain"} => wpc'[w] = wpc[w],
         wpc'[Http] \in {"ended", "append", "done"} =>
           wpc[Http] \in {"ended", "append", "done"},
         mpc' = mpc \/ (mpc' = "append" \/ (mpc' = "expired" /\ mpc = "select")),
         \A w \in Workers : wpc[w] = "done" => wpc'[w] = "done",
         UNCHANGED <<listen, active>>
  PROVE  IInv'
<1>1. /\ UNCHANGED <<err, ended>> /\ old' = [old EXCEPT ![a] = err]
      /\ raced' = (raced \/ Appending # {})
  BY DEF ReadErr
<1>2. EndedBy' /\ ServerDrains'
  BY <1>1, HttpIsWorker DEF IInv, EndedBy, ServerDrains
<1>3. ~raced' => AppendsAlone'
  BY <1>1 DEF AppendsAlone, IInv, TypeOK
<1>4. ~raced' /\ Up' => ErrorsSoFar'
  BY <1>1 DEF IInv, ErrorsSoFar, Up, ErrorOf
<1>5. NoRequestCut' /\ ErrorsReported'
  BY DEF NoRequestCut, ErrorsReported, Returned, Up
<1> QED BY <1>2, <1>3, <1>4, <1>5 DEF IInv

\* ... and ends.
LEMMA WriteInv ==
  ASSUME IInv, NEW a \in Workers \cup {Main}, NEW e, WriteErr(a, e), Up, Up',
         a \in Appending, Appending' = Appending \ {a}, TypeOK',
         \A w \in Workers : wpc'[w] = wpc[w] \/
           (w = a /\ wpc[w] = "append" /\ wpc'[w] = "done" /\ e = ErrorOf(w)),
         \/ mpc' = mpc
         \/ mpc' = "select" /\ e = {"canceled"}
         \/ mpc' = "return" /\ mpc = "expired" /\ e = {"grace"},
         UNCHANGED <<listen, active>>
  PROVE  IInv'
<1>1. UNCHANGED <<old, ended, raced>> /\ err' = old[a] \cup e
  BY DEF WriteErr
<1>2. EndedBy' /\ ServerDrains'
  BY <1>1, HttpIsWorker DEF IInv, EndedBy, ServerDrains
<1>3. ~raced => Appending = {a} /\ err' = err \cup e
  BY <1>1 DEF IInv, AppendsAlone
<1>4. ~raced' => AppendsAlone'
  BY <1>1, <1>3 DEF AppendsAlone
<1>5. ~raced' /\ Up' => ErrorsSoFar'
  <2> SUFFICES ASSUME ~raced PROVE ErrorsSoFar'
    BY <1>1
  <2>1. ErrorsSoFar /\ err' = err \cup e
    BY <1>3 DEF IInv
  <2>2. \A w \in Workers : wpc'[w] = "done" => ErrorOf(w)' \subseteq err'
    BY <1>1, <2>1 DEF ErrorsSoFar, ErrorOf
  <2>3. mpc' \in {"select", "expired", "return"} => "canceled" \in err'
    BY <2>1 DEF ErrorsSoFar
  <2>4. mpc' = "return" => "grace" \in err' \/ \A w \in Workers : wpc'[w] = "done"
    BY <2>1 DEF ErrorsSoFar
  <2> QED BY <2>2, <2>3, <2>4 DEF ErrorsSoFar
<1>6. NoRequestCut' /\ ErrorsReported'
  BY DEF NoRequestCut, ErrorsReported, Returned, Up
<1> QED BY <1>2, <1>4, <1>5, <1>6 DEF IInv

LEMMA WaitInv ==
  ASSUME IInv, WaitForCtx \/ GraceExpires PROVE IInv'
<1>1. /\ ReadErr(Main) /\ UNCHANGED <<wpc, listen, active>> /\ Up /\ Up'
      /\ mpc' = "append" \/ (mpc' = "expired" /\ mpc = "select")
  BY DEF WaitForCtx, GraceExpires, MGoto, Up
<1>2. TypeOK'
  BY DEF WaitForCtx, GraceExpires, MGoto, ReadErr, IInv, TypeOK
<1>3. Appending' = Appending \cup {Main}
  BY <1>1 DEF Appending, WaitForCtx, GraceExpires, MGoto
<1> QED BY <1>1, <1>2, <1>3, ReadInv

LEMMA ReportInv ==
  ASSUME IInv, AppendCtxErr \/ AppendGraceErr PROVE IInv'
<1>1. PICK e \in {{"canceled"}, {"grace"}} :
        /\ WriteErr(Main, e) /\ UNCHANGED <<wpc, listen, active>> /\ Up /\ Up'
        /\ \/ mpc' = "select" /\ e = {"canceled"}
           \/ mpc' = "return" /\ mpc = "expired" /\ e = {"grace"}
  BY DEF AppendCtxErr, AppendGraceErr, MGoto, Up
<1>2. TypeOK'
  BY DEF AppendCtxErr, AppendGraceErr, MGoto, WriteErr, IInv, TypeOK, Errors
<1>3. Main \in Appending /\ Appending' = Appending \ {Main}
  BY <1>1, HttpIsWorker DEF Appending, AppendCtxErr, AppendGraceErr, MGoto
<1> QED BY <1>1, <1>2, <1>3, WriteInv

LEMMA BeginInv ==
  ASSUME IInv, NEW w \in Workers, BeginAppend(w) PROVE IInv'
<1>1. /\ ReadErr(w) /\ UNCHANGED <<mpc, listen, active>> /\ Up /\ Up'
      /\ wpc[w] = "ended" /\ wpc' = [wpc EXCEPT ![w] = "append"]
  BY DEF BeginAppend, WGoto, Up
<1>2. TypeOK'
  BY <1>1 DEF BeginAppend, ReadErr, IInv, TypeOK
<1>3. Appending' = Appending \cup {w}
  BY <1>1 DEF Appending, IInv, TypeOK
<1>4. /\ \A v \in Workers : wpc'[v] \in {"done", "drain"} => wpc'[v] = wpc[v]
      /\ \A v \in Workers : wpc[v] = "done" => wpc'[v] = "done"
      /\ wpc'[Http] \in {"ended", "append", "done"} =>
           wpc[Http] \in {"ended", "append", "done"}
  BY <1>1, HttpIsWorker DEF IInv, TypeOK
<1> QED BY <1>1, <1>2, <1>3, <1>4, ReadInv

LEMMA EndInv ==
  ASSUME IInv, NEW w \in Workers, EndWorker(w) PROVE IInv'
<1>1. /\ WriteErr(w, ErrorOf(w)) /\ UNCHANGED <<mpc, listen, active>>
      /\ Up /\ Up' /\ wpc[w] = "append" /\ wpc' = [wpc EXCEPT ![w] = "done"]
  BY DEF EndWorker, WGoto, Up
<1>2. TypeOK'
  BY <1>1 DEF EndWorker, WriteErr, ErrorOf, IInv, TypeOK
<1>3. w \in Appending /\ Appending' = Appending \ {w}
  BY <1>1, HttpIsWorker DEF Appending, IInv, TypeOK
<1>4. \A v \in Workers : wpc'[v] = wpc[v] \/
        (v = w /\ wpc[v] = "append" /\ wpc'[v] = "done")
  BY <1>1 DEF IInv, TypeOK
<1> QED BY <1>1, <1>2, <1>3, <1>4, WriteInv

LEMMA DrainedInv == ASSUME IInv, Drained PROVE IInv'
<1>1. /\ mpc = "select" /\ mpc' = "return" /\ Up /\ Up'
      /\ UNCHANGED <<wpc, listen, active, errVars, ctx, sig, result, exit>>
      /\ \A w \in Workers : wpc[w] = "done"
  BY DEF Drained, MGoto, Up
<1>2. TypeOK' /\ EndedBy' /\ ServerDrains'
  BY <1>1 DEF IInv, TypeOK, EndedBy, ServerDrains, errVars
<1>3. ~raced' => AppendsAlone'
  BY <1>1 DEF IInv, AppendsAlone, Appending, errVars
<1>4. ~raced' /\ Up' => ErrorsSoFar'
  BY <1>1 DEF IInv, ErrorsSoFar, ErrorOf, errVars
<1>5. NoRequestCut' /\ ErrorsReported'
  BY <1>1 DEF NoRequestCut, ErrorsReported, Returned
<1> QED BY <1>2, <1>3, <1>4, <1>5 DEF IInv

LEMMA ReturnInv == ASSUME IInv, Return PROVE IInv'
<1>1. /\ mpc = "return" /\ mpc' = "gone" /\ Up /\ ~Up'
      /\ UNCHANGED <<wpc, listen, active, errVars, ctx, sig>>
      /\ result' = err /\ exit' = "returned"
  BY DEF Return, MGoto, Up
<1>2. TypeOK' /\ EndedBy' /\ ServerDrains'
  BY <1>1 DEF IInv, TypeOK, EndedBy, ServerDrains, errVars
<1>3. ~raced' => AppendsAlone'
  BY <1>1 DEF IInv, AppendsAlone, Appending, errVars
<1>4. ~raced => ErrorsSoFar
  BY <1>1 DEF IInv
<1>5. NoRequestCut'
  <2>1. ~raced /\ "grace" \notin err => wpc[Http] = "done"
    BY <1>1, <1>4, HttpIsWorker DEF ErrorsSoFar
  <2> QED BY <1>1, <2>1 DEF NoRequestCut, IInv, ServerDrains, errVars
<1>6. ErrorsReported'
  <2> SUFFICES ASSUME ~raced
               PROVE  /\ "canceled" \in err
                      /\ "grace" \notin err => ended \subseteq err
                      /\ \A w \in Workers : wpc[w] = "done" => ErrorOf(w) \subseteq err
    BY <1>1 DEF ErrorsReported, errVars, ErrorOf
  <2>1. ErrorsSoFar
    BY <1>4
  <2>2. ASSUME "grace" \notin err PROVE ended \subseteq err
    <3>1. \A w \in Workers : ErrorOf(w) \subseteq err
      BY <1>1, <2>1, <2>2 DEF ErrorsSoFar
    <3> QED BY <3>1, HttpIsWorker DEF IInv, EndedBy, ErrorOf
  <2> QED BY <1>1, <2>1, <2>2 DEF ErrorsSoFar
<1> QED BY <1>2, <1>3, <1>5, <1>6, <1>1 DEF IInv

LEMMA StepInv == IInv /\ [Next]_vars => IInv'
<1> SUFFICES ASSUME IInv, [Next]_vars PROVE IInv'
  OBVIOUS
<1>1. CASE UNCHANGED vars
  BY <1>1 DEF vars, IInv, TypeOK, EndedBy, ServerDrains, AppendsAlone,
              Appending, ErrorsSoFar, ErrorOf, Up, NoRequestCut,
              ErrorsReported, Returned
<1>2. CASE \E w \in Workers : WorkerStep(w) \/ Break(w)
  BY <1>2, StopInv, BeginInv, EndInv DEF WorkerStep
<1>3. CASE MainStep
  BY <1>3, LaunchInv, OutsideInv, WaitInv, ReportInv, DrainedInv, ReturnInv
     DEF MainStep
<1> QED BY <1>1, <1>2, <1>3, OutsideInv, WaitInv, HttpInv, RestartInv DEF Next

\* The invariant of the process: run, the workers and the lock-free list of
\* errors (main.go:112-178, graceful/with-interrupt.go:77-122).
THEOREM ProcessInvariant == Spec => []IInv
  BY InitInv, StepInv, PTL DEF Spec

\* Every field keeps its type.
THEOREM TypeCorrect == Spec => []TypeOK
<1>1. IInv => TypeOK
  BY DEF IInv
<1> QED BY <1>1, ProcessInvariant, PTL

\* No request is cut off without the grace period, the deadline of Shutdown or
\* a lost update of wgContext.err (httpsrv/server.go:20-46).
THEOREM RequestsFinish == Spec => []NoRequestCut
<1>1. IInv => NoRequestCut
  BY DEF IInv
<1> QED BY <1>1, ProcessInvariant, PTL

\* Errors are reported unless two append at once
\* (graceful/with-interrupt.go:85, 112, 120).
THEOREM ErrorsSound == Spec => []ErrorsReported
<1>1. IInv => ErrorsReported
  BY DEF IInv
<1> QED BY <1>1, ProcessInvariant, PTL

-----------------------------------------------------------------------------
(* The way to the exit.  EndsAfterInterrupt needs the fairness of FairSpec; *)
(* proved here is what it rests on: no step leads back, and after the       *)
(* cancellation there is always one of the steps that fairness grants.      *)

\* The workers are started in their order, and Http is the last of them.
Launched(n) == \A i \in DOMAIN Order : wpc[Order[i]] = "off" <=> i > n

StartsInOrder ==
  \E n \in 0..Len(Order) :
    /\ Launched(n)
    /\ mpc = "start" => n < Len(Order)
    /\ mpc \notin {"start", "gone"} => n = Len(Order)

\* The listener is open until the HTTP worker has noticed the context, and main
\* goes past it only then.
ListensUntilDone ==
  /\ wpc[Http] \in {"off", "run"} => listen # "closed"
  /\ listen = "closed" => ctx
  /\ mpc \in {"start", "listen"} => listen # "open"
  /\ mpc = "serve" => listen # "none"
  /\ mpc \in {"wait", "append", "select", "expired", "return"} =>
       listen = "closed"

PathInv == IInv /\ StartsInOrder /\ ListensUntilDone

LEMMA LengthOfOrder ==
  /\ Len(Order) \in Nat \ {0} /\ DOMAIN Order = 1..Len(Order)
  /\ Http = Order[Len(Order)]
  BY ShutdownAssumption DEF Http

LEMMA PathInit == Init => PathInv
<1> SUFFICES ASSUME Init PROVE PathInv
  OBVIOUS
<1>1. Launched(0)
  BY HttpIsWorker, LengthOfOrder DEF Init, Launched
<1>2. StartsInOrder
  BY <1>1, LengthOfOrder DEF Init, StartsInOrder
<1>3. ListensUntilDone
  BY DEF Init, ListensUntilDone
<1> QED BY <1>2, <1>3, InitInv DEF PathInv

\* A step that starts no worker leaves the order of the start alone, if main
\* does not get past it.
LEMMA StartedStay ==
  ASSUME StartsInOrder,
         \A w \in Workers : wpc'[w] = "off" <=> wpc[w] = "off",
         mpc' = "start" => mpc = "start",
         mpc' \notin {"start", "gone"} => mpc \notin {"start", "gone"}
  PROVE  StartsInOrder'
<1>1. PICK n \in 0..Len(Order) :
        /\ Launched(n)
        /\ mpc = "start" => n < Len(Order)
        /\ mpc \notin {"start", "gone"} => n = Len(Order)
  BY DEF StartsInOrder
<1>2. Launched(n)'
  BY <1>1, HttpIsWorker DEF Launched
<1> QED BY <1>1, <1>2 DEF StartsInOrder

LEMMA LaunchPath == ASSUME PathInv, Launch PROVE PathInv'
<1>1. PICK i \in DOMAIN Order :
        /\ wpc[Order[i]] = "off" /\ wpc' = [wpc EXCEPT ![Order[i]] = "run"]
        /\ \A j \in 1..(i - 1) : wpc[Order[j]] # "off"
        /\ mpc' = IF i = Len(Order) THEN "listen" ELSE "start"
  BY DEF Launch
<1>2. PICK n \in 0..Len(Order) : Launched(n) /\ n < Len(Order)
  BY DEF PathInv, StartsInOrder, Launch
<1>3. i \in 1..Len(Order) /\ Len(Order) \in Nat
  BY LengthOfOrder
<1>4. i = n + 1
  <2>1. i > n
    BY <1>1, <1>2 DEF Launched
  <2>2. ~(n + 1 < i)
    <3>1. SUFFICES ASSUME n + 1 < i PROVE FALSE
      OBVIOUS
    <3>2. n + 1 \in 1..(i - 1) /\ n + 1 \in DOMAIN Order
      BY <1>3, <3>1, LengthOfOrder
    <3> QED BY <1>1, <1>2, <3>2 DEF Launched
  <2> QED BY <1>3, <2>1, <2>2
<1>5. Launched(i)'
  <2> SUFFICES ASSUME NEW j \in DOMAIN Order
               PROVE  wpc'[Order[j]] = "off" <=> j > i
    BY DEF Launched
  <2>1. Order[j] \in Workers /\ Order[i] \in Workers /\ j \in Nat
    BY HttpIsWorker, LengthOfOrder
  <2>2. CASE j = i
    BY <1>1, <2>1, <2>2 DEF PathInv, IInv, TypeOK
  <2>3. CASE j # i
    <3>1. wpc'[Order[j]] = wpc[Order[j]]
      BY <1>1, <2>1, <2>3, ShutdownAssumption DEF PathInv, IInv, TypeOK
    <3>2. wpc[Order[j]] = "off" <=> j > n
      BY <1>2 DEF Launched
    <3> QED BY <1>2, <1>3, <1>4, <2>1, <2>3, <3>1, <3>2
  <2> QED BY <2>2, <2>3
<1>6. StartsInOrder'
  <2>1. i \in 0..Len(Order)
    BY <1>3
  <2>2. mpc' = "start" => i < Len(Order)
    BY <1>1, <1>3
  <2>3. mpc' \notin {"start", "gone"} => i = Len(Order)
    BY <1>1
  <2> QED BY <1>5, <2>1, <2>2, <2>3 DEF StartsInOrder
<1>7. ListensUntilDone'
  <2>1. listen' = listen /\ ctx' = ctx /\ mpc' \in {"start", "listen"}
    BY <1>1 DEF Launch
  <2>2. listen # "open" /\ (listen = "closed" => ctx)
    BY DEF PathInv, ListensUntilDone, Launch
  <2>3. wpc'[Http] \in {"off", "run"} => wpc[Http] \in {"off", "run"}
    BY <1>1, HttpIsWorker DEF PathInv, IInv, TypeOK
  <2> QED BY <2>1, <2>2, <2>3 DEF PathInv, ListensUntilDone
<1> QED BY <1>6, <1>7, StepInv DEF PathInv, Next, MainStep

LEMMA MainPath ==
  ASSUME PathInv, Up,
         UNCHANGED <<wpc, ctx>>,
         \/ UNCHANGED <<mpc, listen>>
         \/ UNCHANGED listen /\ mpc' = "gone"
         \/ Listen \/ ServeEnds
         \/ /\ UNCHANGED listen
            /\ mpc \in {"wait", "append", "select", "expired"}
            /\ mpc' \in {"append", "select", "expired", "return"}
  PROVE  StartsInOrder' /\ ListensUntilDone'
<1>1. /\ mpc' = "start" => mpc = "start"
      /\ mpc' \notin {"start", "gone"} => mpc \notin {"start", "gone"}
  BY DEF Up, Listen, ServeEnds, MGoto
<1>2. StartsInOrder'
  BY <1>1, StartedStay DEF PathInv
<1>3. ListensUntilDone'
  <2>1. CASE Listen
    <3>1. CASE listen = "none" /\ listen' = "open" /\ mpc' = "serve"
      BY <3>1 DEF PathInv, ListensUntilDone
    <3>2. CASE listen = "closed" /\ listen' = "closed" /\ mpc' = "wait"
      BY <3>2 DEF PathInv, ListensUntilDone
    <3> QED BY <2>1, <3>1, <3>2 DEF Listen, MGoto
  <2>2. CASE ServeEnds
    BY <2>2 DEF ServeEnds, MGoto, PathInv, ListensUntilDone
  <2> QED BY <2>1, <2>2 DEF PathInv, ListensUntilDone
<1> QED BY <1>2, <1>3

LEMMA WorkerPath ==
  ASSUME PathInv, Up, UNCHANGED mpc,
         \/ HttpStep
         \/ \E w \in Workers : WorkerStep(w) \/ Break(w)
  PROVE  StartsInOrder' /\ ListensUntilDone'
<1>1. PICK w \in Workers, t \in {"drain", "ended", "append", "done"} :
        /\ wpc[w] \notin {"off"} /\ wpc' = [wpc EXCEPT ![w] = t]
        /\ UNCHANGED ctx
        /\ \/ UNCHANGED listen /\ (w = Http => wpc[w] # "run")
           \/ ctx /\ listen' = "closed" /\ w = Http
  BY HttpIsWorker, ShutdownAssumption
     DEF HttpStep, ShutdownBegins, ShutdownIdle, ShutdownLate, WorkerStep,
         Finish, Break, BeginAppend, EndWorker, WGoto
<1>2. \A v \in Workers : wpc'[v] = "off" <=> wpc[v] = "off"
  BY <1>1 DEF PathInv, IInv, TypeOK
<1>3. StartsInOrder'
  BY <1>2, StartedStay DEF PathInv
<1>4. wpc'[Http] \in {"off", "run"} => wpc[Http] \in {"off", "run"} /\ w # Http
  BY <1>1, HttpIsWorker DEF PathInv, IInv, TypeOK
<1>5. CASE UNCHANGED listen
  BY <1>1, <1>3, <1>4, <1>5 DEF PathInv, ListensUntilDone
<1>6. CASE ctx /\ listen' = "closed" /\ w = Http
  BY <1>1, <1>3, <1>4, <1>6 DEF PathInv, ListensUntilDone
<1> QED BY <1>1, <1>5, <1>6

LEMMA PathStep == PathInv /\ [Next]_vars => PathInv'
<1> SUFFICES ASSUME PathInv, [Next]_vars PROVE PathInv'
  OBVIOUS
<1>1. IInv'
  BY StepInv DEF PathInv
<1>2. CASE Launch
  BY <1>2, LaunchPath
<1>3. CASE Restart
  <2>1. Launched(0)' /\ mpc' = "start"
    BY <1>3, HttpIsWorker, LengthOfOrder DEF Restart, Launched
  <2>2. StartsInOrder'
    BY <2>1, LengthOfOrder DEF StartsInOrder
  <2>3. ListensUntilDone'
    BY <1>3 DEF Restart, ListensUntilDone
  <2> QED BY <1>1, <2>2, <2>3 DEF PathInv
<1>4. CASE HttpStep \/ \E w \in Workers : WorkerStep(w) \/ Break(w)
  <2>1. Up /\ UNCHANGED mpc
    BY <1>4 DEF HttpStep, ShutdownBegins, ShutdownIdle, ShutdownLate,
                WorkerStep, Finish, Break, BeginAppend, EndWorker, WGoto
  <2> QED BY <1>1, <1>4, <2>1, WorkerPath DEF PathInv
<1>5. CASE Cancel
  <2>1. StartsInOrder'
    BY <1>5, StartedStay DEF Cancel, PathInv
  <2>2. ListensUntilDone'
    BY <1>5 DEF Cancel, PathInv, ListensUntilDone
  <2> QED BY <1>1, <2>1, <2>2 DEF PathInv
<1>6. CASE \/ Interrupt \/ Terminate \/ StopNotify \/ Fail \/ GraceExpires
           \/ MainStep /\ ~Launch
           \/ \E r \in Requests : Accept(r) \/ Answer(r)
  <2>1. UNCHANGED <<wpc, ctx>> /\ Up
    BY <1>6 DEF Interrupt, Terminate, StopNotify, Fail, GraceExpires, MainStep,
                Listen, ServeEnds, WaitForCtx, AppendCtxErr, Drained,
                AppendGraceErr, Return, Accept, Answer, MGoto, Up
  <2>2. \/ UNCHANGED <<mpc, listen>>
        \/ UNCHANGED listen /\ mpc' = "gone"
        \/ Listen \/ ServeEnds
        \/ /\ UNCHANGED listen
           /\ mpc \in {"wait", "append", "select", "expired"}
           /\ mpc' \in {"append", "select", "expired", "return"}
    BY <1>6 DEF Interrupt, Terminate, StopNotify, Fail, GraceExpires, MainStep,
                WaitForCtx, AppendCtxErr, Drained, AppendGraceErr, Return,
                Accept, Answer, MGoto
  <2> QED BY <1>1, <2>1, <2>2, MainPath DEF PathInv
<1>7. CASE UNCHANGED vars
  <2>1. StartsInOrder' /\ ListensUntilDone'
    BY <1>7, StartedStay DEF vars, PathInv, ListensUntilDone
  <2> QED BY <1>1, <2>1 DEF PathInv
<1> QED BY <1>2, <1>3, <1>4, <1>5, <1>6, <1>7 DEF Next

\* What is next on the way from the cancellation to the exit, by the guard of
\* a step that FairSpec grants: the next worker is started; the listener is
\* opened or found closed; the HTTP worker shuts it; and then neither requests
\* nor workers can hold main.
WayOut ==
  \/ /\ mpc = "start"
     /\ \E i \in DOMAIN Order :
          wpc[Order[i]] = "off" /\ \A j \in 1..(i - 1) : wpc[Order[j]] # "off"
  \/ mpc = "listen" /\ listen \in {"none", "closed"}
  \/ mpc = "serve" /\ (wpc[Http] = "run" \/ listen = "closed")
  \/ mpc = "wait" /\ ctx
  \/ mpc \in {"append", "select", "expired", "return"}

\* Whatever main was doing when the context was cancelled, there is a step of
\* main, of a timer or of the HTTP worker that brings it nearer to the exit
\* (main.go:167-177, httpsrv/server.go:20-46); main waits for the context only
\* when it has been cancelled, whatever hangs.
ThereIsAWayOut == Up /\ (ctx \/ mpc # "serve") => WayOut

THEOREM NothingHoldsMain == Spec => []ThereIsAWayOut
<1>1. PathInv => ThereIsAWayOut
  <2> SUFFICES ASSUME PathInv, Up, ctx \/ mpc # "serve" PROVE WayOut
    BY DEF ThereIsAWayOut
  <2>1. PICK n \in 0..Len(Order) :
          /\ Launched(n)
          /\ mpc = "start" => n < Len(Order)
          /\ mpc \notin {"start", "gone"} => n = Len(Order)
    BY DEF PathInv, StartsInOrder
  <2>2. CASE mpc = "start"
    <3>1. n + 1 \in DOMAIN Order /\ n \in Nat
      BY <2>1, <2>2, LengthOfOrder
    <3>2. wpc[Order[n + 1]] = "off"
      BY <2>1, <3>1 DEF Launched
    <3>3. \A j \in 1..((n + 1) - 1) : wpc[Order[j]] # "off"
      <4> SUFFICES ASSUME NEW j \in 1..((n + 1) - 1) PROVE wpc[Order[j]] # "off"
        OBVIOUS
      <4>1. j \in DOMAIN Order /\ ~(j > n)
        BY <3>1, LengthOfOrder
      <4> QED BY <2>1, <4>1 DEF Launched
    <3> QED BY <2>2, <3>1, <3>2, <3>3 DEF WayOut
  <2>3. CASE mpc = "serve"
    <3>1. wpc[Http] # "off"
      BY <2>1, <2>3, LengthOfOrder DEF Launched
    <3>2. wpc[Http] = "run" \/ listen = "closed"
      BY <3>1, HttpIsWorker DEF PathInv, IInv, TypeOK, ServerDrains
    <3> QED BY <2>3, <3>2 DEF WayOut
  <2>4. CASE mpc \in {"listen", "wait"}
    BY <2>4 DEF PathInv, ListensUntilDone, WayOut, IInv, TypeOK
  <2> QED BY <2>2, <2>3, <2>4 DEF WayOut, PathInv, IInv, TypeOK, Up
<1> QED BY <1>1, PathInit, PathStep, PTL DEF Spec

\* How far main, a worker and the handling of the interrupt are.
MainPlaces == [start |-> 0, listen |-> 1, serve |-> 2, wait |-> 3, append |-> 4,
               select |-> 5, expired |-> 6, return |-> 7, gone |-> 8]
WorkerPlaces == [off |-> 0, run |-> 1, drain |-> 2, ended |-> 3, append |-> 4,
                 done |-> 5]
SigPlaces == [armed |-> 0, caught |-> 1, cancelled |-> 2, default |-> 3]

\* Nobody goes back, and somebody goes on, or a request comes or goes.
GoesOn ==
  /\ Up
  /\ MainPlaces[mpc'] >= MainPlaces[mpc]
  /\ \A w \in Workers : WorkerPlaces[wpc'[w]] >= WorkerPlaces[wpc[w]]
  /\ SigPlaces[sig'] >= SigPlaces[sig]
  /\ ctx => ctx'
  /\ listen = "closed" => listen' = "closed"
  /\ \/ MainPlaces[mpc'] > MainPlaces[mpc]
     \/ \E w \in Workers : WorkerPlaces[wpc'[w]] > WorkerPlaces[wpc[w]]
     \/ SigPlaces[sig'] > SigPlaces[sig]
     \/ \E r \in Requests : Accept(r) \/ Answer(r)

GoesOnOrRestarts == GoesOn \/ Restart

LEMMA MainGoesOn ==
  ASSUME TypeOK, Up, UNCHANGED wpc,
         \/ Terminate \/ Fail \/ GraceExpires
         \/ Listen \/ ServeEnds \/ WaitForCtx \/ AppendCtxErr
         \/ Drained \/ AppendGraceErr \/ Return
  PROVE  GoesOn
<1>1. /\ UNCHANGED <<wpc, sig, ctx>>
      /\ listen = "closed" => listen' = "closed"
  BY DEF Terminate, Fail, GraceExpires, Listen, ServeEnds, WaitForCtx,
         AppendCtxErr, Drained, AppendGraceErr, Return
<1>2. MainPlaces[mpc'] > MainPlaces[mpc] /\ MainPlaces[mpc'] >= MainPlaces[mpc]
  <2>1. CASE mpc' = "gone"
    BY <2>1 DEF MainPlaces, TypeOK, Up
  <2>2. CASE mpc' # "gone"
    BY <2>2 DEF MainPlaces, Terminate, Fail, GraceExpires, Listen, ServeEnds,
                WaitForCtx, AppendCtxErr, Drained, AppendGraceErr, Return, MGoto
  <2> QED BY <2>1, <2>2
<1>3. \A w \in Workers : WorkerPlaces[wpc[w]] >= WorkerPlaces[wpc[w]]
  BY DEF TypeOK, WorkerPlaces
<1>4. SigPlaces[sig] >= SigPlaces[sig]
  BY DEF TypeOK, SigPlaces
<1> QED BY <1>1, <1>2, <1>3, <1>4 DEF GoesOn

LEMMA WorkerGoesOn ==
  ASSUME TypeOK,
         Launch \/ HttpStep \/ \E w \in Workers : WorkerStep(w) \/ Break(w)
  PROVE  GoesOn
<1>1. PICK w \in Workers, t \in {"run", "drain", "ended", "append", "done"} :
        /\ wpc' = [wpc EXCEPT ![w] = t]
        /\ WorkerPlaces[t] > WorkerPlaces[wpc[w]]
  <2>1. CASE Launch
    <3>1. PICK i \in DOMAIN Order :
            wpc[Order[i]] = "off" /\ wpc' = [wpc EXCEPT ![Order[i]] = "run"]
      BY <2>1 DEF Launch
    <3>2. Order[i] \in Workers /\ WorkerPlaces["run"] > WorkerPlaces["off"]
      BY HttpIsWorker DEF WorkerPlaces
    <3> QED BY <3>1, <3>2
  <2>2. CASE HttpStep
    BY <2>2, HttpIsWorker DEF HttpStep, ShutdownBegins, ShutdownIdle,
       ShutdownLate, WGoto, WorkerPlaces
  <2>3. CASE \E w \in Workers : WorkerStep(w) \/ Break(w)
    BY <2>3 DEF WorkerStep, Finish, Break, BeginAppend, EndWorker, WGoto,
                WorkerPlaces
  <2> QED BY <2>1, <2>2, <2>3
<1>2. /\ UNCHANGED <<sig, ctx>> /\ Up
      /\ mpc' = mpc \/ (mpc = "start" /\ mpc' = "listen")
      /\ listen = "closed" => listen' = "closed"
  <2>1. CASE Launch
    BY <2>1 DEF Launch, Up
  <2>2. CASE HttpStep
    BY <2>2 DEF HttpStep, ShutdownBegins, ShutdownIdle, ShutdownLate, WGoto
  <2>3. CASE \E v \in Workers : WorkerStep(v) \/ Break(v)
    BY <2>3 DEF WorkerStep, Finish, Break, BeginAppend, EndWorker, WGoto
  <2> QED BY <2>1, <2>2, <2>3
<1>3. /\ wpc'[w] = t
      /\ \A v \in Workers \ {w} : wpc'[v] = wpc[v]
  BY <1>1 DEF TypeOK
<1>4. \A v \in Workers : WorkerPlaces[wpc'[v]] >= WorkerPlaces[wpc[v]]
  <2> SUFFICES ASSUME NEW v \in Workers
               PROVE  WorkerPlaces[wpc'[v]] >= WorkerPlaces[wpc[v]]
    OBVIOUS
  <2>1. CASE v = w
    BY <1>1, <1>3, <2>1 DEF TypeOK, WorkerPlaces
  <2>2. CASE v # w
    BY <1>3, <2>2 DEF TypeOK, WorkerPlaces
  <2> QED BY <2>1, <2>2
<1>5. MainPlaces[mpc'] >= MainPlaces[mpc] /\ SigPlaces[sig'] >= SigPlaces[sig]
  BY <1>2 DEF TypeOK, MainPlaces, SigPlaces
<1> QED BY <1>1, <1>2, <1>3, <1>4, <1>5 DEF GoesOn

LEMMA OutsideGoesOn ==
  ASSUME TypeOK,
         \/ Interrupt \/ Cancel \/ StopNotify
         \/ \E r \in Requests : Accept(r) \/ Answer(r)
  PROVE  GoesOn
<1>1. UNCHANGED <<wpc, listen>> /\ (ctx => ctx') /\ Up
  BY DEF Interrupt, Cancel, StopNotify, Accept, Answer, Up
<1>2. \A w \in Workers : WorkerPlaces[wpc[w]] >= WorkerPlaces[wpc[w]]
  BY DEF TypeOK, WorkerPlaces
<1>3. /\ MainPlaces[mpc'] >= MainPlaces[mpc]
      /\ SigPlaces[sig'] >= SigPlaces[sig]
  BY DEF Interrupt, Cancel, StopNotify, Accept, Answer, TypeOK, MainPlaces,
         SigPlaces
<1>4. \/ MainPlaces[mpc'] > MainPlaces[mpc] \/ SigPlaces[sig'] > SigPlaces[sig]
      \/ \E r \in Requests : Accept(r) \/ Answer(r)
  BY DEF Interrupt, Cancel, StopNotify, TypeOK, MainPlaces, SigPlaces, Up
<1> QED BY <1>1, <1>2, <1>3, <1>4 DEF GoesOn

\* The other half: until systemd restarts it the process only goes forward
\* (main.go:112-178, graceful/with-interrupt.go:20-122); the context stays
\* cancelled and the listener closed, and every step takes somebody further but
\* for those of the requests, which the way out does not wait for.
THEOREM ProcessOnlyGoesOn == Spec => [][GoesOnOrRestarts]_vars
<1>1. IInv /\ [Next]_vars => [GoesOnOrRestarts]_vars
  <2> SUFFICES ASSUME IInv, Next PROVE GoesOn \/ Restart
    BY DEF GoesOnOrRestarts
  <2>1. TypeOK
    BY DEF IInv
  <2>2. CASE Terminate \/ Fail \/ GraceExpires \/ (MainStep /\ ~Launch)
    <3>1. UNCHANGED wpc /\ Up
      BY <2>2 DEF Terminate, Fail, GraceExpires, MainStep, Listen, ServeEnds,
                  WaitForCtx, AppendCtxErr, Drained, AppendGraceErr, Return,
                  MGoto, Up
    <3> QED BY <2>1, <2>2, <3>1, MainGoesOn DEF MainStep
  <2> QED BY <2>1, <2>2, WorkerGoesOn, OutsideGoesOn DEF Next
<1> QED BY <1>1, ProcessInvariant, PTL DEF Spec
=============================================================================
