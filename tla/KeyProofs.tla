----------------------------- MODULE KeyProofs -----------------------------
(***************************************************************************)
(* pkg/app/keyproofs: the handler of GET /id/{id}, on top of the task      *)
(* runner.  A handler h serves one request.  It runs a task for the        *)
(* entity, asks for two callbacks that run the tasks for its style and its *)
(* proofs, waits for the entity at most two seconds, and builds a page     *)
(* from what the cache has by then.                                        *)
(*                                                                         *)
(* The call that h, or a callback of h, makes for key k is <<h, k>>; the   *)
(* goroutine of a callback is the watcher <<h, "style">> or <<h,           *)
(* "proofs">>.  The tasks and callbacks of a request outlive its page: the *)
(* browser loads the page again after a second, under another name, and    *)
(* meets them.  A name is free for another request when nothing of the     *)
(* last one is left but callbacks that wait for ever.                      *)
(***************************************************************************)
EXTENDS Promise, Sequences

CONSTANTS
  Handlers,    \* names of requests
  Visitors,    \* bound: the number of browsers that have a page on its way
  Callbacks,   \* bound: which of the two callbacks, "style" and "proofs", run
  Ids,         \* what may follow /id/
  EntityOf,    \* EntityOf[i]: the entity that the key server has for id i
  EntityKey,   \* EntityKey[i]: entity.Key(i)
  StyleKey,    \* StyleKey[e]: style.Key of the primary address of entity e
  ProofKeys,   \* ProofKeys[e]: the sequence of ProofKey of e's proofs
  Style,       \* the value of every style task
  ProofBy      \* ProofBy[e]: a proof checked against the fingerprint of e

Entities == {EntityOf[i] : i \in Ids}
ProofKeySet(e) == {ProofKeys[e][n] : n \in 1..Len(ProofKeys[e])}
PageKeys(e) == {StyleKey[e]} \cup ProofKeySet(e)

ASSUME KeyProofsAssumption ==
  /\ Calls = Handlers \X Keys
  /\ Visitors \in Nat
  /\ Callbacks \subseteq {"style", "proofs"}
  /\ Watchers = Handlers \X Callbacks
  /\ EntityKey \in [Ids -> Keys]
  /\ \A e \in Entities :
       /\ StyleKey[e] \in Keys /\ ProofKeys[e] \in Seq(Keys)
       /\ \A i \in Ids : EntityKey[i] \notin PageKeys(e)
       /\ e \in Values /\ ProofBy[e] \in Values
       /\ Style \in ValuesOf[StyleKey[e]]
       /\ \A k \in ProofKeySet(e) : ProofBy[e] \in ValuesOf[k]
  /\ \A i \in Ids : ValuesOf[EntityKey[i]] = {EntityOf[i]}

VARIABLES
  hpc,      \* hpc[h]: where handler h is
  id,       \* id[h]: the id requested
  chan,     \* chan[h]: the channel that select got from Await, or nil
  failed,   \* failed[h]: page.Err is set
  entity,   \* entity[h]: page.Entity
  todo,     \* todo[h]: the keys of the page that are still to be looked up
  found     \* found[h]: what the page has found in the cache, by key

pageVars == <<id, chan, failed, entity, todo, found>>
allVars  == <<vars, hpc, pageVars>>

NoneFound == [k \in {} |-> NoValue]

HandlerTypeOK ==
  /\ TypeOK
  /\ hpc \in [Handlers -> {"idle", "reload", "run", "proofs", "select", "wait",
                           "lookup", "forget", "page", "evict", "shown"}]
  /\ id \in [Handlers -> Ids]
  /\ chan \in [Handlers -> {"none", "open", "nil"}]
  /\ failed \in [Handlers -> BOOLEAN]
  /\ entity \in [Handlers -> Entities \cup {NoValue}]
  /\ todo \in [Handlers -> Seq(Keys)]
  /\ found = [h \in Handlers |-> found[h]]
  /\ \A h \in Handlers : /\ DOMAIN found[h] \subseteq Keys
                         /\ found[h] \in [DOMAIN found[h] -> Values]

HInit ==
  /\ Init
  /\ hpc = [h \in Handlers |-> "idle"]
  /\ id \in [Handlers -> Ids]
  /\ chan = [h \in Handlers |-> "none"]
  /\ failed = [h \in Handlers |-> FALSE]
  /\ entity = [h \in Handlers |-> NoValue]
  /\ todo = [h \in Handlers |-> <<>>]
  /\ found = [h \in Handlers |-> NoneFound]

EntityCall(h) == <<h, EntityKey[id[h]]>>
Task(h) == handle[EntityCall(h)]

\* The handler serves nobody: the browser has its page, or is to load it again.
Resting(h) == hpc[h] \in {"idle", "reload"}

HGoto(h, from, to) ==
  /\ hpc[h] = from
  /\ hpc' = [hpc EXCEPT ![h] = to]

\* What is left to look up for a page about e.
PageFor(h, e) ==
  /\ entity' = [entity EXCEPT ![h] = e]
  /\ todo' = [todo EXCEPT ![h] = <<StyleKey[e]>> \o ProofKeys[e]]

-----------------------------------------------------------------------------
(* Faults: forms that a definition below would take after a slip in the    *)
(* code.  No specification uses them; the properties tell them apart.      *)

\* The proof is checked against the fingerprint of some entity at hand.
ValueForAny(c) ==
  LET e == EntityOf[id[c[1]]]
  IN IF key[c] = EntityKey[id[c[1]]] THEN e
     ELSE IF key[c] = StyleKey[e] THEN Style
     ELSE ProofBy[CHOOSE f \in Entities : TRUE]

\* A callback ends when the limiter makes it wait.
CallbackEndEarly(w) ==
  /\ WatcherEnd(w)
  /\ UNCHANGED <<hpc, pageVars>>

\* The deadline is looked at only by those who have the channel.
SelectDeadlineOpen(h) ==
  /\ chan[h] = "open"
  /\ HGoto(h, "wait", "lookup")
  /\ UNCHANGED <<vars, pageVars>>

\* Any entity in the cache will do.
LookupAnyEntity(h) ==
  /\ \/ \E i \in Ids :
          /\ Fresh(EntityKey[i])
          /\ HGoto(h, "lookup", "page")
          /\ PageFor(h, cache[EntityKey[i]].val)
     \/ HGoto(h, "lookup", "shown") /\ UNCHANGED <<entity, todo>>
  /\ UNCHANGED <<vars, id, chan, failed, found>>

\* The page takes the item for its value.
LookupNextItem(h) ==
  /\ todo[h] # <<>>
  /\ HGoto(h, "page", "page")
  /\ todo' = [todo EXCEPT ![h] = Tail(todo[h])]
  /\ found' = [found EXCEPT ![h] = [j \in (DOMAIN @) \cup {Head(todo[h])} |->
                 IF j = Head(todo[h]) THEN cache[j] ELSE @[j]]]
  /\ UNCHANGED <<vars, id, chan, failed, entity>>

-----------------------------------------------------------------------------
(* getProofs: run the entity task, ask for the callbacks *)

\* A name is free when no goroutine but a stuck one works for its last request.
Free(h) ==
  /\ \A k \in Keys : pc[<<h, k>>] = "idle"
  /\ \A s \in Callbacks : wstate[<<h, s>>] = "off"

\* A request arrives.
Request(h, i) ==
  /\ Cardinality({g \in Handlers : hpc[g] # "idle"}) < Visitors
  /\ HGoto(h, "idle", "run")
  /\ Free(h)
  /\ id' = [id EXCEPT ![h] = i]
  /\ UNCHANGED <<vars, chan, failed, entity, todo, found>>

\* A page that is not complete makes the browser load it again, a second
\* later, whatever the tasks of the first request h are still doing ...
Refresh(h, g) ==
  /\ hpc[h] = "reload"
  /\ hpc[g] = "idle" \/ g = h
  /\ Free(g)
  /\ hpc' = [hpc EXCEPT ![h] = "idle", ![g] = "run"]
  /\ id' = [id EXCEPT ![g] = id[h]]
  /\ UNCHANGED <<vars, chan, failed, entity, todo, found>>

\* ... or its user goes somewhere else.
Leave(h) ==
  /\ HGoto(h, "reload", "idle")
  /\ UNCHANGED <<vars, pageVars>>

RunEntity(h) ==
  /\ hpc[h] = "run"
  /\ RunLookup(EntityCall(h), EntityKey[id[h]])
  /\ UNCHANGED <<hpc, pageVars>>

\* task.After twice.  A callback that Callbacks leaves out is not followed.
AfterOf(h, s) ==
  \/ s \in Callbacks /\ After(<<h, s>>, EntityCall(h))
  \/ s \notin Callbacks /\ pc[EntityCall(h)] = "returned" /\ UNCHANGED vars

AfterStyle(h) ==
  /\ HGoto(h, "run", "proofs")
  /\ AfterOf(h, "style")
  /\ UNCHANGED pageVars

AfterProofs(h) ==
  /\ HGoto(h, "proofs", "select")
  /\ AfterOf(h, "proofs")
  /\ UNCHANGED pageVars

\* The callbacks: one Run for the style, one after the other for the proofs.
CallbackKeys(w) ==
  LET e == result[wtask[w]]
  IN IF w[2] = "style" THEN <<StyleKey[e]>> ELSE ProofKeys[e]

CallbackRun(w) ==
  /\ wstate[w] = "fired"
  /\ \E n \in 1..Len(CallbackKeys(w)) :
       LET ks == CallbackKeys(w)
       IN /\ \A m \in 1..(n-1) : pc[<<w[1], ks[m]>>] = "returned"
          /\ RunLookup(<<w[1], ks[n]>>, ks[n])
  /\ UNCHANGED <<hpc, pageVars>>

CallbackEnd(w) ==
  /\ wstate[w] = "fired" =>
       \A n \in 1..Len(CallbackKeys(w)) :
         pc[<<w[1], CallbackKeys(w)[n]>>] = "returned"
  /\ WatcherEnd(w)
  /\ UNCHANGED <<hpc, pageVars>>

\* What the functions of the tasks resolve to.  A proof is checked against
\* the fingerprint of the entity whose callback made the task.
ValueFor(c) ==
  LET e == EntityOf[id[c[1]]]
  IN IF key[c] = EntityKey[id[c[1]]] THEN e
     ELSE IF key[c] = StyleKey[e] THEN Style ELSE ProofBy[e]

-----------------------------------------------------------------------------
(* getProofs: wait, build the page *)

\* Evaluating the cases of select: Await returns the channel, or nil.
Select(h) ==
  /\ HGoto(h, "select", "wait")
  /\ chan' = [chan EXCEPT
       ![h] = IF done[Task(h)] = "nil" THEN "nil" ELSE "open"]
  /\ UNCHANGED <<vars, id, failed, entity, todo, found>>

SelectTask(h) ==
  /\ chan[h] = "open"
  /\ done[Task(h)] # "open"
  /\ IF err[Task(h)]
     THEN /\ HGoto(h, "wait", "shown")
          /\ failed' = [failed EXCEPT ![h] = TRUE]
          /\ UNCHANGED <<entity, todo>>
     ELSE /\ HGoto(h, "wait", "page")
          /\ PageFor(h, result[Task(h)])
          /\ UNCHANGED failed
  /\ UNCHANGED <<vars, id, chan, found>>

SelectDeadline(h) ==
  /\ HGoto(h, "wait", "lookup")
  /\ UNCHANGED <<vars, pageVars>>

\* After the deadline, an entity in the cache will do.
LookupEntity(h) ==
  /\ LET k == EntityKey[id[h]]
     IN \/ /\ Fresh(k)
           /\ HGoto(h, "lookup", "page")
           /\ PageFor(h, cache[k].val)
        \/ Absent(k) /\ HGoto(h, "lookup", "shown") /\ UNCHANGED <<entity, todo>>
        \/ Stale(k) /\ HGoto(h, "lookup", "forget") /\ UNCHANGED <<entity, todo>>
  /\ UNCHANGED <<vars, id, chan, failed, found>>

ForgetEntity(h) ==
  /\ HGoto(h, "forget", "shown")
  /\ Remove(EntityKey[id[h]])
  /\ UNCHANGED <<runVars, queue, taskVars, watchVars, pageVars>>

\* The page takes its style and its proofs from the cache, one by one.
LookupNext(h) ==
  /\ todo[h] # <<>>
  /\ LET k == Head(todo[h])
     IN \/ /\ ~Stale(k)
           /\ HGoto(h, "page", "page")
           /\ todo' = [todo EXCEPT ![h] = Tail(todo[h])]
           /\ found' = IF Fresh(k)
                       THEN [found EXCEPT ![h] = [j \in (DOMAIN @) \cup {k} |->
                               IF j = k THEN cache[k].val ELSE @[j]]]
                       ELSE found
        \/ /\ Stale(k)
           /\ HGoto(h, "page", "evict")
           /\ UNCHANGED <<todo, found>>
  /\ UNCHANGED <<vars, id, chan, failed, entity>>

EvictNext(h) ==
  /\ HGoto(h, "evict", "page")
  /\ Remove(Head(todo[h]))
  /\ todo' = [todo EXCEPT ![h] = Tail(todo[h])]
  /\ UNCHANGED <<runVars, queue, taskVars, watchVars>>
  /\ UNCHANGED <<id, chan, failed, entity, found>>

Show(h) ==
  /\ todo[h] = <<>>
  /\ HGoto(h, "page", "shown")
  /\ UNCHANGED <<vars, pageVars>>

\* page.IsComplete
IsComplete(h) ==
  \/ failed[h]
  \/ entity[h] # NoValue /\ PageKeys(entity[h]) \subseteq DOMAIN found[h]

Finish(h) ==
  /\ HGoto(h, "shown", IF IsComplete(h) THEN "idle" ELSE "reload")
  /\ chan' = [chan EXCEPT ![h] = "none"]
  /\ failed' = [failed EXCEPT ![h] = FALSE]
  /\ entity' = [entity EXCEPT ![h] = NoValue]
  /\ found' = [found EXCEPT ![h] = NoneFound]
  /\ UNCHANGED <<vars, id, todo>>

-----------------------------------------------------------------------------
(* The runner, with the functions that getProofs gives it.  Those for the  *)
(* style and the proofs always resolve, whatever happens to them.          *)

TaskGoesOn(t) ==
  /\ \/ ProbeHit(t) \/ ProbeMiss(t) \/ ProbeEvict(t)
     \/ phase[t] = "compute" /\ Resolve(t, ValueFor(t))
     \/ t = EntityCall(t[1]) /\ Reject(t)
     \/ FinishClose(t) \/ FinishClear(t) \/ Store(t) \/ Retire(t)
  /\ UNCHANGED <<hpc, pageVars>>

RunGoesOn(c) == RunStep(c) /\ UNCHANGED <<hpc, pageVars>>

CallbackWaits(w) ==
  /\ Await(w) \/ Wake(w)
  /\ UNCHANGED <<hpc, pageVars>>

\* Nothing refers to the call any more.
ReleaseCall(c) ==
  /\ Resting(c[1])
  /\ \A s \in Callbacks : wstate[<<c[1], s>>] = "off"
  /\ Release(c)
  /\ UNCHANGED <<hpc, pageVars>>

\* A callback that waits on nil never does anything again.
Abandon(w) ==
  /\ wstate[w] = "stuck"
  /\ Resting(w[1])
  /\ wstate' = [wstate EXCEPT ![w] = "off"]
  /\ wtask' = [wtask EXCEPT ![w] = NoTask]
  /\ UNCHANGED <<runVars, queue, taskVars, cache, hpc, pageVars>>

HandlerStep(h) ==
  \/ RunEntity(h) \/ AfterStyle(h) \/ AfterProofs(h)
  \/ Select(h) \/ SelectTask(h) \/ SelectDeadline(h)
  \/ LookupEntity(h) \/ ForgetEntity(h)
  \/ LookupNext(h) \/ EvictNext(h) \/ Show(h)

CallbackStep(w) == CallbackWaits(w) \/ CallbackRun(w) \/ CallbackEnd(w)

\* What a browser does with the page of h, and asks h for.
BrowserStep(h) ==
  \/ Finish(h) \/ Leave(h)
  \/ \E i \in Ids : Request(h, i)
  \/ \E g \in Handlers : Refresh(h, g)

\* Everything but the passing of time.
SteadyNext ==
  \/ \E h \in Handlers : HandlerStep(h) \/ BrowserStep(h)
  \/ \E c \in Calls : RunGoesOn(c) \/ TaskGoesOn(c) \/ ReleaseCall(c)
  \/ \E w \in Watchers : CallbackStep(w) \/ Abandon(w)

HNext ==
  \/ SteadyNext
  \/ Time /\ UNCHANGED <<hpc, pageVars>>

KeyProofsSpec == HInit /\ [][HNext]_allVars

\* The items of a page stay fresh for 20 minutes, longer than it takes.
SteadyKeyProofs == HInit /\ [][SteadyNext]_allVars

\* What the goroutine that serves a request does until its page is written.
AnswerStep(h) == HandlerStep(h) \/ RunGoesOn(EntityCall(h))

-----------------------------------------------------------------------------
(* Properties *)

\* A page is about the entity of the id that was asked for, whether it came
\* from the task or, after the deadline, from the cache.
PageIsAboutId ==
  \A h \in Handlers : entity[h] \in {NoValue, EntityOf[id[h]]}

\* template.go:265: a verified proof proves ownership of an account.  So what
\* a page says of a proof was found out with the fingerprint of the entity
\* that the page is about.
ProofsAreOfEntity ==
  \A h \in Handlers : entity[h] # NoValue =>
    \A k \in (DOMAIN found[h]) \cap ProofKeySet(entity[h]) :
      found[h][k] = ProofBy[entity[h]]

\* Every request gets its page although select may wait on a channel that is
\* nil, whether the request started the task for its entity or joined one: the
\* goroutine that serves it has to be scheduled and the deadline to pass, and
\* no task and no callback has to go on at all.  Which case of select is taken
\* when both are ready is left open.
RequestAnswered ==
  \A h \in Handlers :
    WF_allVars(AnswerStep(h)) => (hpc[h] = "run" ~> hpc[h] = "shown")

OnItsWay(k) == Fresh(k) \/ \E c \in Calls : key[c] = k /\ (pc[c] = "create" \/ Live(c))

\* A browser is told to load a page again only for what the next page can have
\* (app.go:92-201, template.go:24).  While items do not expire, whatever a page
\* is missing is in the cache by now or on its way there, in a task of this
\* request or in one of an earlier request that its callback joined, or the
\* callback has yet to end; unless the callback waits on a nil channel or found
\* that the task for the entity had failed.
MissingIsOnItsWay ==
  \A h \in Handlers : \A s \in Callbacks :
    entity[h] # NoValue /\ ~err[Task(h)] /\ wstate[<<h, s>>] = "off" =>
      \A k \in IF s = "style" THEN {StyleKey[entity[h]]} ELSE ProofKeySet(entity[h]) :
        OnItsWay(k)
=====================
