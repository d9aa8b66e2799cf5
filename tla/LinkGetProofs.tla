--------------------------- MODULE LinkGetProofs ---------------------------
(***************************************************************************)
(* Proofs about Links and LinkGet, for any directory, links and queue.     *)
(***************************************************************************)
EXTENDS LinkGet, SequenceTheorems, TLAPS

Elements(s) == {s[i] : i \in DOMAIN s}
Queued(n) == \E i \in DOMAIN events : events[i].name = n
InJob(n) == job # NoJob /\ job.name = n
Linked(n) == \A l \in LinkSet(n) : link[l] = n

\* Only a watching app has events, and only it removes links.
Phases ==
  /\ phase # "on" => events = <<>> /\ lost = {}
  /\ phase = "walk" /\ job # NoJob => job.op = "create"
  /\ phase # "walk" => todo = {}

\* The last event of a name tells whether its file is there, unless a later
\* one was lost ...
LastEventTells ==
  phase = "on" =>
    \A i \in DOMAIN events :
      \/ events[i].name \in lost
      \/ \E j \in DOMAIN events : i < j /\ events[j].name = events[i].name
      \/ events[i].op = "create" <=> events[i].name \in files

\* ... and so does the event at work, if none of its name is left.
JobTells ==
  phase = "on" /\ job # NoJob =>
    \/ job.name \in lost \/ Queued(job.name)
    \/ job.op = "create" <=> job.name \in files

\* createLinks keeps what it has made, and has left nothing out until a system
\* call fails.
JobMakes ==
  job # NoJob /\ job.op = "create" /\ job.name \notin doubt /\ ~Clashes(job.name) =>
    \A l \in LinkSet(job.name) : l \in Elements(job.left) \/ link[l] = job.name

\* A file whose changes are not lost has its links, or is going to be visited.
FilesAreSeen ==
  \A n \in files \ (doubt \cup lost) :
    Clashes(n) \/ n \in todo \/ Queued(n) \/ InJob(n) \/ Linked(n)

LinksInv ==
  TypeOK /\ Phases /\ LastEventTells /\ JobTells /\ JobMakes /\ FilesAreSeen

-----------------------------------------------------------------------------
(* Facts about the constants and about sequences *)

LEMMA LinkSetOf ==
  ASSUME TypeOK, NEW n \in Possible
  PROVE  /\ LinkSet(n) = Elements(LinksOf[app][n])
         /\ LinkSet(n) \subseteq Hashes
         /\ LinksOf[app][n] \in Seq(LinkSet(n))
         /\ n \in Names /\ n # NoFile
<1>1. app \in Apps /\ n \in DOMAIN LinksOf[app]
  BY DEF TypeOK, Possible
<1>2. LinkSet(n) = Elements(LinksOf[app][n])
  BY <1>1 DEF LinkSet, LinkSets, Elements
<1>3. LinksOf[app][n] \in Seq(Hashes)
  BY <1>1, LinksAssumption
<1>4. LinksOf[app][n] \in [1..Len(LinksOf[app][n]) -> Hashes]
  BY <1>3, LenProperties
<1>5. LinksOf[app][n] \in [1..Len(LinksOf[app][n]) -> LinkSet(n)]
  BY <1>2, <1>4 DEF Elements
<1>6. LinksOf[app][n] \in Seq(LinkSet(n))
  <2>1. Len(LinksOf[app][n]) \in Nat
    BY <1>3, LenProperties
  <2> QED BY <1>5, <2>1, SeqDef
<1> QED BY <1>1, <1>2, <1>4, <1>6, LinksAssumption DEF Elements

\* Two files with one link clash.
LEMMA Clash ==
  ASSUME TypeOK, NEW n \in Possible, NEW m \in Possible, m # n,
         NEW l, l \in LinkSet(n), l \in LinkSet(m)
  PROVE  Clashes(n)
  BY DEF TypeOK, Clashes, Clashing, LinkSet, Possible

LEMMA JobForIsJob ==
  ASSUME TypeOK, NEW n \in Possible, NEW op \in {"create", "remove"}
  PROVE  /\ JobFor(op, n) \in Job /\ JobFor(op, n) # NoJob
         /\ JobFor(op, n).op = op /\ JobFor(op, n).name = n
         /\ JobFor(op, n).left \in Seq(LinkSet(n))
         /\ LinkSet(n) = Elements(JobFor(op, n).left)
<1>1. LinksOf[app][n] \in Seq(Hashes) /\ n \in Names
  BY LinksAssumption DEF TypeOK, Possible
<1> QED BY <1>1, LinkSetOf, LinksAssumption DEF JobFor, Job

LEMMA TailElements ==
  ASSUME NEW S, NEW s \in Seq(S), s # <<>>
  PROVE  /\ Head(s) \in S /\ Tail(s) \in Seq(S)
         /\ Elements(s) = Elements(Tail(s)) \cup {Head(s)}
         /\ Len(s) \in Nat \ {0} /\ Len(Tail(s)) = Len(s) - 1
         /\ DOMAIN s = 1..Len(s) /\ DOMAIN Tail(s) = 1..(Len(s) - 1)
         /\ Head(s) = s[1] /\ \A i \in DOMAIN Tail(s) : Tail(s)[i] = s[i + 1]
<1>1. /\ Head(s) \in S /\ Tail(s) \in Seq(S) /\ Head(s) = s[1]
      /\ Len(Tail(s)) = Len(s) - 1
      /\ \A i \in 1..Len(Tail(s)) : Tail(s)[i] = s[i + 1]
  BY HeadTailProperties
<1>2. Len(s) \in Nat \ {0} /\ DOMAIN s = 1..Len(s)
  BY EmptySeq, LenProperties
<1>3. DOMAIN Tail(s) = 1..(Len(s) - 1)
  BY <1>1, LenProperties
<1>4. Elements(s) = Elements(Tail(s)) \cup {Head(s)}
  <2>1. ASSUME NEW i \in 1..Len(s), i # 1 PROVE s[i] \in Elements(Tail(s))
    <3>1. i - 1 \in DOMAIN Tail(s) /\ Tail(s)[i - 1] = s[i]
      BY <2>1, <1>1, <1>2, <1>3
    <3> QED BY <3>1 DEF Elements
  <2>2. Elements(s) \subseteq Elements(Tail(s)) \cup {Head(s)}
    BY <2>1, <1>1, <1>2 DEF Elements
  <2>3. Elements(Tail(s)) \subseteq Elements(s)
    <3>1. ASSUME NEW i \in DOMAIN Tail(s) PROVE Tail(s)[i] \in Elements(s)
      <4>1. i + 1 \in DOMAIN s /\ Tail(s)[i] = s[i + 1]
        BY <1>1, <1>2, <1>3
      <4> QED BY <4>1 DEF Elements
    <3> QED BY <3>1 DEF Elements
  <2>4. Head(s) \in Elements(s)
    BY <1>1, <1>2 DEF Elements
  <2> QED BY <2>2, <2>3, <2>4
<1> QED BY <1>1, <1>2, <1>3, <1>4

\* What the job at work does to link l: made, kept, taken from another file,
\* removed, or missed.
Moves(l) ==
  LET n == job.name
      next == job' = [job EXCEPT !.left = Tail(@)]
  IN \/ job.op = "create" /\ link[l] = NoFile /\ link' = [link EXCEPT ![l] = n] /\ next
     \/ job.op = "create" /\ link[l] = n /\ link' = link /\ next
     \/ /\ job.op = "create" /\ link[l] \notin {n, NoFile}
        /\ link' = [link EXCEPT ![l] = NoFile] /\ job' = job
     \/ /\ job.op = "remove" /\ link[l] # NoFile
        /\ link' = [link EXCEPT ![l] = NoFile] /\ next
     \/ job.op = "remove" /\ link[l] = NoFile /\ link' = link /\ job' = NoJob

LEMMA JobStepMoves ==
  ASSUME TypeOK, JobStep, NEW l, l = Head(job.left)
  PROVE  /\ job # NoJob /\ job.left # <<>> /\ job.name \in Possible
         /\ l \in LinkSet(job.name) /\ l \in Hashes
         /\ UNCHANGED <<phase, files, todo, events, doubt, lost>>
         /\ Moves(l)
<1>1. /\ job # NoJob /\ job.left # <<>> /\ job.name \in Possible
      /\ job.left \in Seq(LinkSet(job.name))
  BY DEF JobStep, TypeOK
<1>2. l \in LinkSet(job.name) /\ LinkSet(job.name) \subseteq Hashes
  BY <1>1, TailElements, LinkSetOf
<1> QED BY <1>1, <1>2
        DEF JobStep, Moves, MakeLink, KeepLink, Relink, RemoveLink, RemoveMissing

\* The job after one link.
LEMMA TailJob ==
  ASSUME TypeOK, job # NoJob, job.left # <<>>,
         NEW j, j = [job EXCEPT !.left = Tail(@)]
  PROVE  /\ j \in Job /\ j # NoJob /\ j.op = job.op /\ j.name = job.name
         /\ j.left \in Seq(LinkSet(job.name))
         /\ Elements(job.left) = Elements(j.left) \cup {Head(job.left)}
<1>1. /\ job \in Job /\ job.left \in Seq(Hashes)
      /\ job.left \in Seq(LinkSet(job.name))
  BY DEF TypeOK, Job
<1>2. /\ Tail(job.left) \in Seq(Hashes)
      /\ Tail(job.left) \in Seq(LinkSet(job.name))
      /\ Elements(job.left) = Elements(Tail(job.left)) \cup {Head(job.left)}
  BY <1>1, TailElements
<1>3. j.left = Tail(job.left) /\ j \in Job /\ j.op = job.op /\ j.name = job.name
  BY <1>1, <1>2 DEF Job
<1> QED BY <1>2, <1>3, LinksAssumption

-----------------------------------------------------------------------------
(* Types *)

\* What is left to show of a step that leaves the links alone.
LEMMA FrameTypeOK ==
  ASSUME TypeOK, UNCHANGED <<app, link>>,
         phase' \in {"off", "walk", "on"}, files' \subseteq Possible,
         todo' \subseteq Possible, doubt' \subseteq Possible,
         lost' \subseteq Possible,
         events' \in Seq(Event), Len(events') <= MaxEvents[app],
         job' \in Job \cup {NoJob},
         job' # NoJob => /\ phase' # "off" /\ job'.name \in Possible
                         /\ job'.left \in Seq(LinkSet(job'.name))
  PROVE  TypeOK'
  BY DEF TypeOK, LinkSet, Possible, Event

LEMMA EventsTypeOK ==
  ASSUME TypeOK
  PROVE  /\ events \in Seq(Event) /\ Len(events) \in Nat /\ MaxEvents[app] \in Nat
         /\ DOMAIN events = 1..Len(events)
         /\ \A i \in DOMAIN events : events[i] \in Event
         /\ <<>> \in Seq(Event) /\ Len(<<>>) <= MaxEvents[app]
<1>1. events \in Seq(Event) /\ MaxEvents[app] \in Nat
  BY LinksAssumption DEF TypeOK
<1>2. Len(events) \in Nat /\ events \in [1..Len(events) -> Event]
  BY <1>1, LenProperties
<1>3. <<>> \in Seq(Event) /\ Len(<<>>) = 0
  BY EmptySeq
<1> QED BY <1>1, <1>2, <1>3

LEMMA ReportTypeOK ==
  ASSUME TypeOK, NEW n \in Possible, NEW op \in {"create", "remove"},
         Report(op, n)
  PROVE  /\ events' \in Seq(Event) /\ Len(events') <= MaxEvents[app]
         /\ doubt' \subseteq Possible /\ lost' \subseteq Possible
<1>1. doubt' \subseteq Possible /\ lost' \subseteq Possible
  BY DEF TypeOK, Report
<1>2. CASE UNCHANGED events
  BY <1>1, <1>2 DEF TypeOK
<1>3. CASE Len(events) < MaxEvents[app]
           /\ events' = Append(events, [op |-> op, name |-> n])
  <2>1. [op |-> op, name |-> n] \in Event
    BY DEF Event
  <2>2. events' \in Seq(Event) /\ Len(events') = Len(events) + 1
    BY <1>3, <2>1, EventsTypeOK
  <2> QED BY <1>1, <1>3, <2>2, EventsTypeOK
<1> QED BY <1>2, <1>3 DEF Report

LEMMA StepTypeOK ==
  ASSUME TypeOK, UNCHANGED app,
         \/ \E n \in Possible : AddFile(n) \/ DropFile(n)
         \/ \E n \in Names : Visit(n)
         \/ Start \/ WalkFails \/ Watch \/ PassOver \/ JobFails \/ JobDone
         \/ Take \/ Skip \/ Stop
  PROVE  TypeOK'
<1> USE EventsTypeOK
<1>1. CASE \E n \in Possible : AddFile(n) \/ DropFile(n)
  <2>1. PICK n \in Possible, op \in {"create", "remove"} :
          /\ Report(op, n) /\ files' \in {files \cup {n}, files \ {n}}
          /\ UNCHANGED <<phase, link, todo, job>>
    BY <1>1 DEF AddFile, DropFile
  <2> QED BY <2>1, ReportTypeOK, FrameTypeOK DEF TypeOK
<1>2. CASE \E n \in Names : Visit(n)
  <2>1. PICK n \in todo : /\ phase = "walk" /\ job' = JobFor("create", n)
                          /\ todo' = todo \ {n}
                          /\ UNCHANGED <<phase, files, link, events, doubt, lost>>
    BY <1>2 DEF Visit
  <2>2. n \in Possible
    BY <2>1 DEF TypeOK
  <2> QED BY <2>1, <2>2, JobForIsJob, FrameTypeOK DEF TypeOK
<1>3. CASE Start \/ Watch
  BY <1>3, FrameTypeOK DEF Start, Watch, TypeOK
<1>4. CASE JobDone
  BY <1>4, FrameTypeOK DEF JobDone, TypeOK
<1>5. CASE Take \/ Skip
  <2>1. /\ Tail(events) \in Seq(Event) /\ Len(Tail(events)) <= MaxEvents[app]
        /\ Head(events) \in Event
    BY <1>5, TailElements DEF Take, Skip, TypeOK
  <2>2. CASE Take
    <3>1. Head(events).name \in Possible /\ Head(events).op \in {"create", "remove"}
      BY <2>1 DEF Event
    <3> QED BY <2>1, <2>2, <3>1, JobForIsJob, FrameTypeOK DEF Take, TypeOK
  <2>3. CASE Skip
    BY <2>1, <2>3, FrameTypeOK DEF Skip, TypeOK
  <2> QED BY <1>5, <2>2, <2>3
<1>6. CASE WalkFails \/ Stop
  <2>1. Pending \subseteq Possible
    BY DEF Pending, TypeOK, Event
  <2> QED BY <1>6, <2>1, FrameTypeOK DEF WalkFails, Stop, Down, TypeOK
<1>7. CASE PassOver
  <2>1. /\ job.name \in Possible /\ job' \in Job /\ job'.name = job.name
        /\ job'.left \in Seq(LinkSet(job.name)) /\ phase # "off"
    BY <1>7, TailJob DEF PassOver, TypeOK
  <2> QED BY <1>7, <2>1, FrameTypeOK DEF PassOver, TypeOK
<1>8. CASE JobFails
  <2>1. Pending \subseteq Possible /\ job.name \in Possible
    BY <1>8 DEF Pending, JobFails, TypeOK, Event
  <2> QED BY <1>8, <2>1, FrameTypeOK DEF JobFails, Down, TypeOK
<1> QED BY <1>1, <1>2, <1>3, <1>4, <1>5, <1>6, <1>7, <1>8

LEMMA JobStepTypeOK == ASSUME TypeOK, JobStep, UNCHANGED app PROVE TypeOK'
<1> DEFINE l == Head(job.left)
<1>1. /\ job # NoJob /\ job.left # <<>> /\ job.name \in Possible
      /\ l \in LinkSet(job.name) /\ l \in Hashes
      /\ UNCHANGED <<phase, files, todo, events, doubt, lost>>
      /\ Moves(l)
  BY JobStepMoves
<1> HIDE DEF l
<1>2. /\ job' \in Job \cup {NoJob}
      /\ job' # NoJob => /\ job'.name = job.name
                         /\ job'.left \in Seq(LinkSet(job.name))
  BY <1>1, TailJob DEF Moves, TypeOK
<1>3. /\ link' \in [Hashes -> Possible \cup {NoFile}]
      /\ \A k \in Hashes : link'[k] # NoFile => k \in LinkSet(link'[k])
  BY <1>1 DEF Moves, TypeOK
<1>4. LinkSet(job.name)' = LinkSets[app][job'.name] /\ Possible' = Possible
  BY DEF LinkSet, Possible
<1>5. \A n \in Possible : LinkSet(n)' = LinkSet(n)
  BY DEF LinkSet
<1> QED BY <1>1, <1>2, <1>3, <1>5 DEF TypeOK, LinkSet, Possible, Event

-----------------------------------------------------------------------------
(* Steps of the app and of the directory *)

LEMMA JobStepInv == ASSUME LinksInv, JobStep, UNCHANGED app PROVE LinksInv'
<1> DEFINE l == Head(job.left)
           n == job.name
<1>1. /\ job # NoJob /\ job.left # <<>> /\ n \in Possible
      /\ l \in LinkSet(n) /\ l \in Hashes
      /\ UNCHANGED <<phase, files, todo, events, doubt, lost>>
      /\ Moves(l)
  BY JobStepMoves DEF LinksInv
<1>2. TypeOK /\ TypeOK'
  BY JobStepTypeOK DEF LinksInv
<1>3. job' # NoJob =>
        /\ job'.op = job.op /\ job'.name = n
        /\ \/ job' = job /\ link'[l] = NoFile /\ link[l] \notin {n, NoFile}
           \/ /\ Elements(job.left) = Elements(job'.left) \cup {l}
              /\ job.op = "create" => link'[l] = n
  <2>1. CASE job' = [job EXCEPT !.left = Tail(@)]
    BY <1>1, <1>2, <2>1, TailJob DEF Moves, TypeOK
  <2> QED BY <1>1, <1>2, <2>1 DEF Moves, TypeOK
<1>4. \A k \in Hashes : k # l => link'[k] = link[k]
  BY <1>1, <1>2 DEF Moves, TypeOK
<1>5. \A m \in Possible : m # n /\ l \in LinkSet(m) => Clashes(m) /\ Clashes(n)
  BY <1>1, <1>2, Clash
<1>6. job' = NoJob => job.op = "remove"
  BY <1>1, <1>2, TailJob DEF Moves
<1> HIDE DEF l, n
<1>7. Phases' /\ LastEventTells' /\ JobTells'
  BY <1>1, <1>3 DEF LinksInv, Phases, LastEventTells, JobTells, Queued, n
<1>8. JobMakes'
  <2> SUFFICES ASSUME job' # NoJob, job'.op = "create", ~Clashes(n),
                      n \notin doubt, NEW k \in LinkSet(n)
               PROVE  k \in Elements(job'.left) \/ link'[k] = n
    BY <1>1, <1>3 DEF JobMakes, LinkSet, Clashes
  <2>1. link[l] \in {n, NoFile}
    BY <1>1, <1>2, <1>5 DEF TypeOK
  <2>2. k \in Hashes /\ (k \in Elements(job.left) \/ link[k] = n)
    BY <1>1, <1>2, <1>3, LinkSetOf DEF LinksInv, JobMakes, n
  <2> QED BY <1>3, <1>4, <2>1, <2>2
<1>9. FilesAreSeen'
  <2> SUFFICES ASSUME NEW m \in files \ (doubt \cup lost), ~Clashes(m),
                      m \notin todo, ~Queued(m)
               PROVE  InJob(m)' \/ Linked(m)'
    BY <1>1 DEF FilesAreSeen, Clashes, Queued
  <2>1. m \in Possible /\ LinkSet(m) \subseteq Hashes
    BY <1>2, LinkSetOf DEF TypeOK
  <2>2. CASE m = n
    <3>1. job.op = "remove" => phase = "on"
      BY <1>1, <1>2 DEF LinksInv, Phases, TypeOK
    <3>2. job.op = "remove" => n \notin files
      BY <1>1, <2>2, <3>1 DEF LinksInv, JobTells, n
    <3>3. job' # NoJob
      BY <1>6, <2>2, <3>2
    <3> QED BY <1>3, <2>2, <3>3 DEF InJob
  <2>3. CASE m # n
    <3>1. l \notin LinkSet(m)
      BY <1>5, <2>1, <2>3
    <3>2. Linked(m)
      BY <2>3 DEF LinksInv, FilesAreSeen, InJob, n
    <3> QED BY <1>4, <2>1, <3>1, <3>2 DEF Linked, LinkSet
  <2> QED BY <2>2, <2>3
<1> QED BY <1>2, <1>7, <1>8, <1>9 DEF LinksInv

LEMMA JobDoneInv == ASSUME LinksInv, JobDone, UNCHANGED app PROVE LinksInv'
<1>1. /\ job # NoJob /\ job.left = <<>> /\ job' = NoJob
      /\ UNCHANGED <<phase, files, link, todo, events, lost>>
      /\ doubt' = IF job.op = "remove" THEN doubt \ {job.name} ELSE doubt
      /\ TypeOK
  BY DEF JobDone, LinksInv
<1>2. TypeOK'
  BY <1>1, StepTypeOK
<1>3. Phases' /\ LastEventTells' /\ JobTells' /\ JobMakes'
  BY <1>1 DEF LinksInv, Phases, LastEventTells, JobTells, JobMakes
<1>4. FilesAreSeen'
  <2> SUFFICES ASSUME NEW m \in files, m \notin doubt', m \notin lost,
                      ~Clashes(m), m \notin todo, ~Queued(m)
               PROVE  Linked(m)'
    BY <1>1 DEF FilesAreSeen, Clashes, Queued
  <2>1. CASE m = job.name
    <3>1. job.op = "create"
      BY <1>1, <2>1 DEF LinksInv, Phases, JobTells, TypeOK, Job
    <3>2. Elements(job.left) = {}
      BY <1>1 DEF Elements
    <3>3. Linked(m)
      BY <1>1, <2>1, <3>1, <3>2 DEF LinksInv, JobMakes, Linked
    <3> QED BY <1>1, <3>3 DEF Linked, LinkSet
  <2>2. CASE m # job.name
    <3>1. Linked(m)
      BY <1>1, <2>2 DEF LinksInv, FilesAreSeen, InJob
    <3> QED BY <1>1, <3>1 DEF Linked, LinkSet
  <2> QED BY <2>1, <2>2
<1> QED BY <1>2, <1>3, <1>4 DEF LinksInv

\* The watcher goes on after an error.
DropsJob ==
  /\ phase = "on" /\ job # NoJob /\ job' = NoJob
  /\ doubt' = doubt \cup {job.name}
  /\ UNCHANGED <<phase, files, link, todo, events, lost>>

LEMMA FailsHow == ASSUME JobFails PROVE DropsJob \/ Stop
  BY DEF JobFails, DropsJob, Stop

LEMMA DropsJobInv ==
  ASSUME LinksInv, JobFails, DropsJob, UNCHANGED app PROVE LinksInv'
<1>1. TypeOK'
  BY StepTypeOK DEF LinksInv
<1>2. Phases' /\ LastEventTells' /\ JobTells' /\ JobMakes'
  BY DEF DropsJob, LinksInv, Phases, LastEventTells, JobTells, JobMakes
<1>3. FilesAreSeen'
  BY DEF DropsJob, LinksInv, FilesAreSeen, Clashes, Queued, InJob, Linked, LinkSet
<1> QED BY <1>1, <1>2, <1>3 DEF LinksInv

LEMMA PassOverInv == ASSUME LinksInv, PassOver, UNCHANGED app PROVE LinksInv'
<1>1. /\ job # NoJob /\ job' # NoJob /\ job'.op = job.op /\ job'.name = job.name
      /\ job.op = "create" /\ doubt' = doubt \cup {job.name}
      /\ UNCHANGED <<phase, files, link, todo, events, lost>>
  BY TailJob DEF PassOver, LinksInv
<1>2. TypeOK'
  BY StepTypeOK DEF LinksInv
<1>3. Phases' /\ LastEventTells' /\ JobTells' /\ JobMakes'
  BY <1>1 DEF LinksInv, Phases, LastEventTells, JobTells, JobMakes, Queued
<1>4. FilesAreSeen'
  BY <1>1 DEF LinksInv, FilesAreSeen, Clashes, Queued, InJob, Linked, LinkSet
<1> QED BY <1>2, <1>3, <1>4 DEF LinksInv

LEMMA WalkInv ==
  ASSUME LinksInv, UNCHANGED app,
         Start \/ Watch \/ (\E n \in Names : Visit(n)) \/ WalkFails \/ Stop
  PROVE  LinksInv'
<1>1. TypeOK /\ TypeOK'
  BY StepTypeOK DEF LinksInv
<1>2. /\ UNCHANGED <<files, link>> /\ events' = <<>> /\ lost' = {}
      /\ DOMAIN events' = {}
  BY DEF Start, Watch, Visit, WalkFails, Stop, Down, LinksInv, Phases
<1>3. Phases' /\ JobTells' /\ JobMakes'
  <2>1. CASE \E n \in Names : Visit(n)
    <3>1. PICK n \in todo : phase = "walk" /\ phase' = "walk" /\ job' = JobFor("create", n)
      BY <2>1 DEF Visit
    <3>2. n \in Possible
      BY <1>1, <3>1 DEF TypeOK
    <3>3. /\ job'.op = "create" /\ job'.name = n
          /\ LinkSet(n) = Elements(job'.left)
      BY <1>1, <3>1, <3>2, JobForIsJob
    <3>4. Phases' /\ JobTells'
      BY <1>2, <3>1, <3>3 DEF Phases, JobTells
    <3>5. JobMakes'
      BY <3>3 DEF JobMakes, LinkSet
    <3> QED BY <3>4, <3>5
  <2>2. CASE Start \/ Watch \/ WalkFails \/ Stop
    <3>1. job' = NoJob /\ (phase' = "walk" \/ todo' = {})
      BY <1>1, <2>2 DEF Start, Watch, WalkFails, Stop, Down, TypeOK
    <3> QED BY <1>2, <3>1 DEF Phases, JobTells, JobMakes
  <2> QED BY <2>1, <2>2
<1>4. LastEventTells'
  BY <1>2 DEF LastEventTells
<1>5. FilesAreSeen'
  <2> SUFFICES ASSUME NEW m \in files, m \notin doubt', ~Clashes(m)
               PROVE  m \in todo' \/ InJob(m)' \/ Linked(m)
    BY <1>2 DEF FilesAreSeen, Clashes, Linked, LinkSet
  <2>1. CASE Start
    BY <2>1, <1>1 DEF Start, LinksInv, FilesAreSeen, Queued, InJob, Phases, TypeOK
  <2>2. CASE Watch
    BY <2>2 DEF Watch, LinksInv, FilesAreSeen, Queued, InJob, Phases
  <2>3. CASE \E n \in Names : Visit(n)
    <3>1. PICK n \in todo : /\ phase = "walk" /\ job' = JobFor("create", n)
                            /\ job = NoJob /\ todo' = todo \ {n} /\ doubt' = doubt
      BY <2>3 DEF Visit
    <3>2. job' # NoJob /\ job'.name = n
      BY <1>1, <3>1, JobForIsJob DEF TypeOK
    <3>3. m \in todo \/ Linked(m)
      BY <3>1 DEF LinksInv, FilesAreSeen, Queued, InJob, Phases
    <3> QED BY <3>1, <3>2, <3>3 DEF InJob
  <2>4. CASE WalkFails \/ Stop
    BY <2>4 DEF WalkFails, Stop, LinksInv, FilesAreSeen, Queued, InJob, Phases,
                Pending
  <2> QED BY <2>1, <2>2, <2>3, <2>4
<1> QED BY <1>1, <1>3, <1>4, <1>5 DEF LinksInv

\* The first event leaves the queue.
LEMMA FirstEvent ==
  ASSUME LinksInv, phase = "on", events # <<>>, events' = Tail(events),
         UNCHANGED <<app, phase, files, lost>>,
         NEW h, h = Head(events)
  PROVE  /\ h.name \in Possible /\ h.op \in {"create", "remove"}
         /\ LastEventTells'
         /\ \A n : Queued(n) => Queued(n)' \/ n = h.name
         /\ \/ h.name \in lost \/ Queued(h.name)'
            \/ h.op = "create" <=> h.name \in files
<1> DEFINE N == Len(events)
<1>1. /\ h \in Event /\ N \in Nat \ {0} /\ h = events[1]
      /\ DOMAIN events = 1..N /\ DOMAIN events' = 1..(N - 1)
      /\ \A i \in 1..(N - 1) : events'[i] = events[i + 1]
  BY TailElements DEF LinksInv, TypeOK
<1>2. ASSUME NEW j \in 1..N, j # 1
      PROVE  j - 1 \in 1..(N - 1) /\ events'[j - 1] = events[j]
  BY <1>1, <1>2
<1> HIDE DEF N
<1>3. \A n : Queued(n) => Queued(n)' \/ n = h.name
  BY <1>1, <1>2 DEF Queued
<1>4. LastEventTells
  BY DEF LinksInv
<1>5. LastEventTells'
  <2> SUFFICES ASSUME NEW i \in 1..(N - 1), events'[i].name \notin lost,
                      \A j \in 1..(N - 1) : i < j => events'[j].name # events'[i].name
               PROVE  events'[i].op = "create" <=> events'[i].name \in files
    BY <1>1 DEF LastEventTells
  <2>1. i + 1 \in 1..N /\ events[i + 1] = events'[i]
    BY <1>1
  <2>2. ASSUME NEW j \in 1..N, i + 1 < j PROVE events[j].name # events'[i].name
    <3>1. j # 1 /\ i < j - 1
      BY <1>1, <2>2
    <3> QED BY <1>2, <3>1
  <2> QED BY <1>1, <1>4, <2>1, <2>2 DEF LastEventTells
<1>6. \/ h.name \in lost \/ Queued(h.name)'
      \/ h.op = "create" <=> h.name \in files
  <2>1. 1 \in 1..N
    BY <1>1
  <2>2. ASSUME NEW j \in 1..N, 1 < j, events[j].name = h.name PROVE Queued(h.name)'
    <3>1. j # 1
      BY <1>1, <2>2
    <3>2. j - 1 \in DOMAIN events' /\ events'[j - 1].name = h.name
      BY <1>1, <1>2, <2>2, <3>1
    <3> QED BY <3>2 DEF Queued
  <2> QED BY <1>1, <1>4, <2>1, <2>2 DEF LastEventTells
<1>7. h.name \in Possible /\ h.op \in {"create", "remove"}
  BY <1>1 DEF Event
<1> QED BY <1>3, <1>5, <1>6, <1>7

LEMMA TakeInv == ASSUME LinksInv, Take \/ Skip, UNCHANGED app PROVE LinksInv'
<1> PICK h : h = Head(events)
  OBVIOUS
<1>1. /\ phase = "on" /\ events # <<>> /\ events' = Tail(events)
      /\ UNCHANGED <<phase, files, link, todo, lost>>
      /\ doubt' = doubt \/ (Take /\ doubt' = doubt \ {h.name})
  BY DEF Take, Skip
<1>2. /\ h.name \in Possible /\ h.op \in {"create", "remove"}
      /\ LastEventTells'
      /\ \A n : Queued(n) => Queued(n)' \/ n = h.name
      /\ \/ h.name \in lost \/ Queued(h.name)'
         \/ h.op = "create" <=> h.name \in files
  BY <1>1, FirstEvent
<1>3. TypeOK /\ TypeOK'
  BY StepTypeOK DEF LinksInv
<1>4. Phases'
  BY <1>1 DEF LinksInv, Phases
<1>5. CASE Take
  <2>1. job = NoJob /\ job' = JobFor(h.op, h.name)
    BY <1>5 DEF Take
  <2>2. /\ job' # NoJob /\ job'.op = h.op /\ job'.name = h.name
        /\ LinkSet(h.name) = Elements(job'.left)
    BY <1>2, <1>3, <2>1, JobForIsJob
  <2>3. JobTells'
    BY <1>1, <1>2, <2>2 DEF JobTells, Queued
  <2>4. JobMakes'
    BY <2>2 DEF JobMakes, LinkSet
  <2>5. FilesAreSeen'
    BY <1>1, <1>2, <2>1, <2>2
       DEF LinksInv, FilesAreSeen, InJob, Clashes, Linked, LinkSet
  <2> QED BY <1>2, <1>3, <1>4, <2>3, <2>4, <2>5 DEF LinksInv
<1>6. CASE Skip
  <2>1. /\ h.op = "create" /\ h.name \notin files
        /\ job' = job /\ doubt' = doubt
    BY <1>6 DEF Skip
  <2>2. JobTells'
    BY <1>1, <1>2, <2>1 DEF LinksInv, JobTells, Queued
  <2>3. JobMakes'
    BY <1>1, <2>1 DEF LinksInv, JobMakes, LinkSet, Clashes
  <2>4. FilesAreSeen'
    BY <1>1, <1>2, <2>1
       DEF LinksInv, FilesAreSeen, InJob, Clashes, Linked, LinkSet
  <2> QED BY <1>2, <1>3, <1>4, <2>2, <2>3, <2>4 DEF LinksInv
<1> QED BY <1>5, <1>6

\* A file comes or goes, and this is reported, put in doubt, or lost.
LEMMA FileInv ==
  ASSUME LinksInv, UNCHANGED app, NEW n \in Possible, AddFile(n) \/ DropFile(n)
  PROVE  LinksInv'
<1>1. PICK op \in {"create", "remove"} :
        /\ Report(op, n) /\ UNCHANGED <<phase, link, todo, job>>
        /\ files' = IF op = "create" THEN files \cup {n} ELSE files \ {n}
  BY DEF AddFile, DropFile
<1>2. TypeOK /\ TypeOK'
  BY StepTypeOK DEF LinksInv
<1>3. JobMakes'
  <2>1. doubt \subseteq doubt'
    BY <1>1 DEF Report
  <2> QED BY <1>1, <2>1 DEF LinksInv, JobMakes, LinkSet, Clashes
<1>4. CASE events' = events
  <2>1. /\ phase # "on" => n \in doubt' /\ lost' = lost
        /\ phase = "on" => n \in lost'
        /\ doubt \subseteq doubt' /\ lost \subseteq lost' /\ lost' \subseteq lost \cup {n}
    <3>1. ~(Len(events) < MaxEvents[app] /\ phase = "on")
      <4>1. Len(events) \in Nat /\ events \in Seq(Event)
        BY <1>2, EventsTypeOK
      <4>2. [op |-> op, name |-> n] \in Event
        BY DEF Event
      <4>3. Append(events, [op |-> op, name |-> n]) # events
        BY <4>1, <4>2
      <4> QED BY <1>1, <1>4, <4>3 DEF Report
    <3> QED BY <1>1, <3>1 DEF Report
  <2>2. Phases' /\ LastEventTells' /\ JobTells'
    BY <1>1, <1>4, <2>1
       DEF LinksInv, Phases, LastEventTells, JobTells, Queued
  <2>3. FilesAreSeen'
    BY <1>1, <1>4, <2>1
       DEF LinksInv, FilesAreSeen, Queued, InJob, Clashes, Linked, LinkSet
  <2> QED BY <1>2, <1>3, <2>2, <2>3 DEF LinksInv
<1>5. CASE events' # events
  <2> DEFINE N == Len(events)
             e == [op |-> op, name |-> n]
  <2>1. /\ phase = "on" /\ events' = Append(events, e)
        /\ doubt' = doubt \cup (lost \cap {n}) /\ lost' = lost \ {n}
    BY <1>1, <1>5 DEF Report
  <2>2. events \in Seq(Event) /\ e \in Event /\ N \in Nat /\ DOMAIN events = 1..N
    BY <1>2, EventsTypeOK DEF Event
  <2>3. /\ DOMAIN events' = 1..(N + 1) /\ events'[N + 1] = e
        /\ \A i \in 1..N : events'[i] = events[i]
    BY <2>1, <2>2
  <2> HIDE DEF N
  <2>4. Queued(n)' /\ \A m : Queued(m) => Queued(m)'
    BY <2>2, <2>3 DEF Queued
  <2>5. Phases'
    BY <1>1, <2>1 DEF LinksInv, Phases
  <2>6. LastEventTells'
    <3> SUFFICES ASSUME NEW i \in 1..(N + 1), events'[i].name \notin lost',
                        \A j \in 1..(N + 1) : i < j => events'[j].name # events'[i].name
                 PROVE  events'[i].op = "create" <=> events'[i].name \in files'
      BY <2>3 DEF LastEventTells
    <3>1. CASE i = N + 1
      BY <1>1, <2>3, <3>1
    <3>2. CASE i # N + 1
      <4>1. i \in 1..N /\ N + 1 \in 1..(N + 1) /\ i < N + 1
        BY <2>2, <3>2
      <4>2. events'[i] = events[i] /\ events[i].name # n
        BY <2>3, <4>1
      <4>3. \A j \in 1..N : i < j => events[j].name # events[i].name
        BY <2>2, <2>3, <4>1
      <4>4. events[i].op = "create" <=> events[i].name \in files
        BY <2>1, <2>2, <4>1, <4>2, <4>3 DEF LinksInv, LastEventTells
      <4> QED BY <1>1, <4>2, <4>4
    <3> QED BY <3>1, <3>2
  <2>7. JobTells'
    BY <1>1, <2>1, <2>4 DEF LinksInv, JobTells
  <2>8. FilesAreSeen'
    BY <1>1, <2>1, <2>4
       DEF LinksInv, FilesAreSeen, InJob, Clashes, Linked, LinkSet
  <2> QED BY <1>2, <1>3, <2>5, <2>6, <2>7, <2>8 DEF LinksInv
<1> QED BY <1>4, <1>5

-----------------------------------------------------------------------------
(* The two together *)

GetInv ==
  /\ LinksInv /\ GetTypeOK /\ CalmFileIsServed
  /\ get = "open" => asked \in Hashes /\ calm \subseteq Undisturbed(asked)

LEMMA LinksInvImplies ==
  ASSUME LinksInv
  PROVE  /\ FilesAreLinked
         /\ \A l \in Hashes : \A n \in Undisturbed(l) : link[l] = n /\ n \in files
<1>1. \A n \in files : Handled(n) /\ ~Clashes(n) => Linked(n)
  BY DEF LinksInv, Phases, FilesAreSeen, Handled, Pending, Queued, InJob
<1> QED BY <1>1 DEF FilesAreLinked, Undisturbed, Linked

LEMMA GetInitInv == GetInit => GetInv
<1> SUFFICES ASSUME GetInit PROVE GetInv
  OBVIOUS
<1>1. /\ events = <<>> /\ job = NoJob /\ todo = {} /\ lost = {} /\ phase = "off"
      /\ doubt = files /\ app \in Apps /\ files \subseteq Possible
      /\ link = [l \in Hashes |-> NoFile]
      /\ get = "idle" /\ asked = NoFile /\ calm = {}
  BY DEF GetInit, Init
<1>2. TypeOK
  <2>1. <<>> \in Seq(Event) /\ Len(<<>>) = 0 /\ MaxEvents[app] \in Nat
    BY <1>1, EmptySeq, LinksAssumption
  <2> QED BY <1>1, <2>1 DEF TypeOK
<1>3. LinksInv
  BY <1>1, <1>2
     DEF LinksInv, Phases, LastEventTells, JobTells, JobMakes, FilesAreSeen
<1> QED BY <1>1, <1>2, <1>3 DEF GetInv, GetTypeOK, CalmFileIsServed, Answers

LEMMA LinksStepInv == ASSUME LinksInv, Next PROVE LinksInv'
  BY FileInv, WalkInv, JobStepInv, PassOverInv, FailsHow, DropsJobInv, JobDoneInv,
     TakeInv DEF Next, AppStep

LEMMA LinkStepInv == ASSUME GetInv, LinkStep PROVE GetInv'
<1>1. LinksInv' /\ UNCHANGED <<app, get, asked, served>>
  BY LinksStepInv DEF GetInv, LinkStep, Next
<1>2. /\ get = "open" => calm' \subseteq Undisturbed(asked)' /\ calm' \subseteq calm
      /\ get # "open" => calm' = calm
  BY DEF LinkStep
<1>3. TypeOK' /\ Possible' = Possible /\ LinkSet(served)' = LinkSet(served)
  BY <1>1 DEF LinksInv, Possible, LinkSet
<1>4. GetTypeOK'
  BY <1>1, <1>2, <1>3 DEF GetInv, GetTypeOK, Possible, LinkSet
<1>5. CalmFileIsServed'
  BY <1>1, <1>2 DEF GetInv, CalmFileIsServed, Answers
<1> QED BY <1>1, <1>2, <1>4, <1>5 DEF GetInv

LEMMA GetStepInv == ASSUME GetInv, GetStep PROVE GetInv'
<1>1. UNCHANGED vars /\ UNCHANGED <<app, phase, files, link, todo, events, job, doubt, lost>>
  BY DEF GetStep, vars
<1>2. TypeOK /\ LinksInv /\ LinksInv'
  BY <1>1 DEF GetInv, LinksInv, TypeOK, Event, LinkSet, Possible, Phases,
              LastEventTells, JobTells, JobMakes, FilesAreSeen, Queued, InJob,
              Linked, Clashes
<1>3. \A l \in Hashes :
        /\ \A n \in Undisturbed(l) : link[l] = n /\ n \in files /\ n \in Possible
        /\ Leads(l) => link[l] \in Possible /\ l \in LinkSet(link[l])
        /\ Undisturbed(l)' = Undisturbed(l)
  <2>1. files \subseteq Possible /\ NoFile \notin files
    BY <1>2, LinkSetOf DEF TypeOK
  <2>2. ASSUME NEW l \in Hashes PROVE Undisturbed(l)' = Undisturbed(l)
    BY <1>1 DEF Undisturbed, Handled, Pending, Clashes, LinkSet
  <2> QED BY <1>2, <2>1, <2>2, LinksInvImplies DEF TypeOK, Leads
<1>4. \A l \in LooksFor[app] : l \in Hashes
  BY <1>2, LinkGetAssumption DEF TypeOK
<1>5. GetTypeOK' /\ CalmFileIsServed'
      /\ (get' = "open" => asked' \in Hashes /\ calm' \subseteq Undisturbed(asked'))
  <2>1. Possible' = Possible /\ LinkSets[app'] = LinkSets[app] /\ TypeOK'
    BY <1>1, <1>2 DEF Possible, LinksInv
  <2>2. CASE \E l \in LooksFor[app] : Test(l) \/ Look(l)
    <3>1. PICK l \in Hashes : Test(l) \/ Look(l)
      BY <1>4, <2>2
    <3>2. CASE Test(l)
      <4>1. /\ asked' = l /\ calm' = Undisturbed(l)
            /\ get' = IF Leads(l) THEN "open" ELSE "default"
        BY <3>2 DEF Test
      <4>2. get' = "default" => calm' = {}
        BY <1>3, <4>1 DEF Leads
      <4> QED BY <1>3, <2>1, <4>1, <4>2
              DEF GetTypeOK, CalmFileIsServed, Answers
    <3>3. CASE Look(l)
      <4>1. /\ asked' = l /\ calm' = Undisturbed(l)
            /\ \/ Leads(l) /\ get' = "file" /\ served' = link[l]
               \/ ~Leads(l) /\ get' = "unopened"
        BY <3>3 DEF Look
      <4>2. get' = "unopened" => calm' = {}
        BY <1>3, <4>1 DEF Leads
      <4> QED BY <1>3, <2>1, <4>1, <4>2
              DEF GetTypeOK, CalmFileIsServed, Answers, LinkSet
    <3> QED BY <3>1, <3>2, <3>3
  <2>3. CASE Open
    <3>1. /\ get = "open" /\ asked' = asked /\ calm' = calm
          /\ asked \in Hashes /\ calm \subseteq Undisturbed(asked)
          /\ \/ Leads(asked) /\ get' = "file" /\ served' = link[asked]
             \/ ~Leads(asked) /\ get' = "unopened"
      BY <2>3 DEF Open, GetInv
    <3>2. get' = "unopened" => calm' = {}
      BY <1>3, <3>1 DEF Leads
    <3> QED BY <1>3, <2>1, <3>1, <3>2
            DEF GetTypeOK, CalmFileIsServed, Answers, LinkSet
  <2>4. CASE FailGet
    BY <2>1, <2>4 DEF FailGet, GetInv, GetTypeOK, CalmFileIsServed, Answers
  <2> QED BY <2>2, <2>3, <2>4 DEF GetStep
<1>6. get' = "open" => Undisturbed(asked)' = Undisturbed(asked')
  BY <1>1, <1>5 DEF Undisturbed, Handled, Pending, Clashes, LinkSet
<1> QED BY <1>2, <1>5, <1>6 DEF GetInv

LEMMA GetNextInv == GetInv /\ [GetNext]_getVars => GetInv'
<1> SUFFICES ASSUME GetInv, [GetNext]_getVars PROVE GetInv'
  OBVIOUS
<1>1. CASE UNCHANGED getVars
  BY <1>1 DEF getVars, vars, request, GetInv, LinksInv, TypeOK, Event, LinkSet,
              Possible, Phases, LastEventTells, JobTells, JobMakes, FilesAreSeen,
              Queued, InJob, Linked, Clashes, GetTypeOK, CalmFileIsServed,
              Answers, Undisturbed, Handled, Pending
<1> QED BY <1>1, GetStepInv, LinkStepInv DEF GetNext

\* No link of a file that clashes with no other is taken from it.
Steals ==
  \A l \in Hashes : link[l] # NoFile /\ link'[l] # link[l] =>
    \/ Clashes(link[l])
    \/ job.op = "remove" /\ job.name = link[l]

LEMMA StepsSteal == GetInv /\ [GetNext]_getVars => [Steals]_vars
<1> SUFFICES ASSUME GetInv, Next, NEW l \in Hashes,
                    link[l] # NoFile, link'[l] # link[l]
             PROVE  Clashes(link[l]) \/ (job.op = "remove" /\ job.name = link[l])
  BY DEF GetNext, GetStep, LinkStep, getVars, Steals
<1>1. TypeOK /\ UNCHANGED app
  BY DEF GetInv, LinksInv, Next
<1>2. JobStep
  BY DEF Next, AppStep, AddFile, DropFile, Start, Visit, WalkFails, Watch,
         PassOver, JobFails, JobDone, Take, Skip, Stop, Down
<1>3. PICK h \in Hashes : /\ h \in LinkSet(job.name) /\ job.name \in Possible
                          /\ Moves(h)
  BY <1>1, <1>2, JobStepMoves
<1>4. l = h /\ link[l] \in Possible /\ l \in LinkSet(link[l])
  BY <1>1, <1>3 DEF Moves, TypeOK
<1>5. CASE link[l] # job.name
  BY <1>1, <1>3, <1>4, <1>5, Clash
<1>6. CASE link[l] = job.name
  BY <1>3, <1>4, <1>6 DEF Moves
<1> QED BY <1>5, <1>6

-----------------------------------------------------------------------------
(* Links are tidy: no name has lost some of its links only *)

Unsure == doubt \cup lost
Whole(n) == Linked(n) \/ \A l \in LinkSet(n) : link[l] # n

\* A file is there when the walk begins with it.
WalkedIsThere ==
  phase = "walk" /\ job # NoJob => job.name \in files \cup doubt

\* removeLinks leaves none behind, unless it stops ...
JobRemoves ==
  job # NoJob /\ job.op = "remove" =>
    \A l \in LinkSet(job.name) : link[l] = job.name => l \in Elements(job.left)

\* ... and it stops at the first link or not at all.
JobIsWhole ==
  job # NoJob =>
    /\ \A i, j \in DOMAIN job.left : job.left[i] = job.left[j] => i = j
    /\ job.op = "remove" =>
         \/ job.name \in Unsure \/ Clashes(job.name)
         \/ \A l \in Elements(job.left) : link[l] = job.name
         \/ \A l \in Elements(job.left) : link[l] # job.name

FilesAreWhole ==
  \A n \in Possible \ Unsure : Clashes(n) \/ n \in todo \/ InJob(n) \/ Whole(n)

\* A link dangles only while the removal of its file is on its way.
RemovalComes ==
  \A l \in Hashes : link[l] # NoFile /\ link[l] \notin Unsure \cup files =>
    Queued(link[l]) \/ InJob(link[l]) \/ Spoiled(link[l])

Tidy ==
  WalkedIsThere /\ JobRemoves /\ JobIsWhole /\ FilesAreWhole /\ RemovalComes

LEMMA OneLink ==
  ASSUME TypeOK, NEW n \in Possible, Clashes(n), ~Spoiled(n),
         NEW k \in LinkSet(n), NEW l \in LinkSet(n)
  PROVE  k = l
<1>1. LinksOf[app][n] \in Seq(LinkSet(n)) /\ LinkSet(n) = Elements(LinksOf[app][n])
  BY LinkSetOf
<1>2. /\ Len(LinksOf[app][n]) \in Nat /\ Len(LinksOf[app][n]) <= 1
      /\ DOMAIN LinksOf[app][n] = 1..Len(LinksOf[app][n])
  BY <1>1, LenProperties DEF Spoiled
<1>3. \A i, j \in DOMAIN LinksOf[app][n] : i = j
  BY <1>2
<1> QED BY <1>1, <1>3 DEF Elements

\* Files come and go, and an event is skipped.
LEMMA QuietTidy ==
  ASSUME LinksInv, Tidy, UNCHANGED app,
         Skip \/ \E n \in Possible : AddFile(n) \/ DropFile(n)
  PROVE  Tidy'
<1>1. TypeOK /\ UNCHANGED <<phase, link, todo, job>>
  BY DEF LinksInv, Skip, AddFile, DropFile
<1>2. CASE Skip
  <2> PICK h : h = Head(events)
    OBVIOUS
  <2>1. /\ phase = "on" /\ events # <<>> /\ events' = Tail(events)
        /\ h.op = "create" /\ h.name \notin files
        /\ UNCHANGED <<files, doubt, lost>>
    BY <1>2 DEF Skip
  <2>2. /\ \A n : Queued(n) => Queued(n)' \/ n = h.name
        /\ h.name \in lost \/ Queued(h.name)'
    BY <1>1, <2>1, FirstEvent
  <2>3. RemovalComes'
    BY <1>1, <2>1, <2>2 DEF Tidy, RemovalComes, Unsure, InJob, Spoiled, Clashes
  <2> QED BY <1>1, <2>1, <2>3
          DEF Tidy, WalkedIsThere, JobRemoves, JobIsWhole, FilesAreWhole, Unsure,
              Possible, Whole, Linked, LinkSet, Clashes, InJob
<1>3. CASE \E n \in Possible : AddFile(n) \/ DropFile(n)
  <2>1. PICK n \in Possible, op \in {"create", "remove"} :
          /\ Report(op, n)
          /\ files' = IF op = "create" THEN files \cup {n} ELSE files \ {n}
    BY <1>3 DEF AddFile, DropFile
  <2>2. /\ Unsure \subseteq Unsure' /\ (phase # "on" => doubt' = doubt \cup {n})
        /\ n \in Unsure' \/ Queued(n)'
        /\ \A m : Queued(m) => Queued(m)'
    <3>1. CASE phase = "on" /\ Len(events) < MaxEvents[app]
      <4>1. /\ events' = Append(events, [op |-> op, name |-> n])
            /\ Unsure \subseteq Unsure'
        BY <2>1, <3>1 DEF Report, Unsure
      <4>2. events \in Seq(Event) /\ Len(events) \in Nat /\ DOMAIN events = 1..Len(events)
        BY <1>1, EventsTypeOK
      <4>3. /\ DOMAIN events' = 1..(Len(events) + 1)
            /\ events'[Len(events) + 1].name = n
            /\ \A i \in 1..Len(events) : events'[i] = events[i]
        BY <4>1, <4>2
      <4>4. \A i \in 1..Len(events) : i \in 1..(Len(events) + 1)
        BY <4>2
      <4>5. Len(events) + 1 \in 1..(Len(events) + 1)
        BY <4>2
      <4> QED BY <3>1, <4>1, <4>2, <4>3, <4>4, <4>5 DEF Queued
    <3>2. CASE ~(phase = "on" /\ Len(events) < MaxEvents[app])
      BY <2>1, <3>2 DEF Report, Unsure, Queued
    <3> QED BY <3>1, <3>2
  <2>3. RemovalComes'
    BY <1>1, <2>1, <2>2 DEF Tidy, RemovalComes, InJob, Spoiled, Clashes
  <2>4. WalkedIsThere'
    BY <1>1, <2>1, <2>2 DEF Tidy, WalkedIsThere
  <2> QED BY <1>1, <2>2, <2>3, <2>4
          DEF Tidy, JobRemoves, JobIsWhole, FilesAreWhole,
              Possible, Whole, Linked, LinkSet, Clashes, InJob
<1> QED BY <1>2, <1>3

\* Nothing is at work afterwards.
LEMMA FreeTidy ==
  ASSUME LinksInv, Tidy, UNCHANGED app,
         Start \/ Watch \/ WalkFails \/ Stop \/ JobDone
  PROVE  Tidy'
<1>1. TypeOK /\ UNCHANGED <<files, link>> /\ job' = NoJob
  BY DEF LinksInv, TypeOK, Start, Watch, WalkFails, Stop, Down, JobDone
<1>2. WalkedIsThere' /\ JobRemoves' /\ JobIsWhole'
  BY <1>1 DEF WalkedIsThere, JobRemoves, JobIsWhole
<1>3. UNCHANGED <<Possible, Clashing, LinkSets>>
  BY DEF Possible, Clashing, LinkSets
<1>4. CASE Start \/ Watch \/ WalkFails \/ Stop
  <2>1. ASSUME NEW n \in Possible \ Unsure', ~Clashes(n)
        PROVE  n \in todo' \/ Whole(n)
    <3>1. \/ n \in todo'
          \/ n \notin Unsure /\ n \notin todo /\ ~InJob(n)
      BY <1>1, <1>4, <2>1
         DEF Start, Watch, WalkFails, Stop, Down, Unsure, Pending, InJob, TypeOK,
             LinksInv, Phases
    <3> QED BY <2>1, <3>1 DEF Tidy, FilesAreWhole
  <2>2. ASSUME NEW n \in Possible, n \notin Unsure' \cup files
        PROVE  n \notin Unsure /\ ~InJob(n) /\ (Queued(n) => Queued(n)')
    <3>1. n \notin Unsure /\ ~InJob(n)
      BY <1>1, <1>4, <2>2
         DEF Start, Watch, WalkFails, Stop, Down, Unsure, Pending, InJob, TypeOK
    <3>2. CASE Start \/ Watch
      BY <3>1, <3>2 DEF Start, Watch, Queued
    <3>3. CASE WalkFails \/ Stop
      BY <3>1, <3>3, <2>2
         DEF WalkFails, Stop, Down, Unsure, Pending, Queued, LinksInv, Phases
    <3> QED BY <1>4, <3>1, <3>2, <3>3
  <2>3. FilesAreWhole'
    BY <1>1, <2>1 DEF FilesAreWhole, Possible, Whole, Linked, LinkSet, Clashes
  <2>4. RemovalComes'
    BY <1>1, <2>2 DEF Tidy, RemovalComes, Spoiled, Clashes, InJob, TypeOK
  <2> QED BY <1>2, <2>3, <2>4 DEF Tidy
<1>5. CASE JobDone
  <2> DEFINE n == job.name
  <2>1. /\ job # NoJob /\ job.left = <<>> /\ n \in Possible
        /\ job.op \in {"create", "remove"}
        /\ UNCHANGED <<phase, todo, events, lost>>
        /\ doubt' = IF job.op = "remove" THEN doubt \ {n} ELSE doubt
    BY <1>1, <1>5 DEF JobDone, TypeOK, Job
  <2>2. Elements(job.left) = {} /\ n # NoFile /\ phase \in {"walk", "on"}
    BY <1>1, <2>1, LinkSetOf DEF Elements, TypeOK
  <2>3. /\ job.op = "create" /\ n \notin doubt /\ ~Clashes(n) => Linked(n)
        /\ job.op = "remove" => \A l \in LinkSet(n) : link[l] # n
    BY <2>1, <2>2 DEF LinksInv, JobMakes, Tidy, JobRemoves, Linked
  <2>4. Clashes(n) \/ Whole(n) \/ n \in Unsure'
    BY <2>1, <2>3 DEF Whole, Unsure
  <2>5. n \in Unsure' \cup files \/ Queued(n) \/ job.op = "remove"
    BY <2>1, <2>2 DEF LinksInv, JobTells, Tidy, WalkedIsThere, Unsure
  <2>6. \A m : m # n => ~InJob(m)
    BY DEF InJob
  <2> HIDE DEF n
  <2>7. FilesAreWhole'
    <3>1. ASSUME NEW m \in Possible \ Unsure', ~Clashes(m), m \notin todo
          PROVE  Whole(m)
      <4>1. m = n \/ m \notin Unsure
        BY <2>1 DEF Unsure
      <4> QED BY <2>4, <2>6, <3>1, <4>1 DEF Tidy, FilesAreWhole
    <3> QED BY <1>1, <2>1, <3>1
            DEF FilesAreWhole, Possible, Whole, Linked, LinkSet, Clashes
  <2>8. RemovalComes'
    <3>1. ASSUME NEW l \in Hashes, link[l] # NoFile,
                 link[l] \notin Unsure' \cup files
          PROVE  Queued(link[l]) \/ Spoiled(link[l])
      <4>1. l \in LinkSet(link[l])
        BY <1>1, <3>1 DEF TypeOK
      <4>2. CASE link[l] = n
        BY <2>3, <2>5, <3>1, <4>1, <4>2
      <4>3. CASE link[l] # n
        <5>1. link[l] \notin Unsure \cup files
          BY <2>1, <3>1, <4>3 DEF Unsure
        <5> QED BY <2>6, <3>1, <4>3, <5>1 DEF Tidy, RemovalComes
      <4> QED BY <4>2, <4>3
    <3> QED BY <1>1, <2>1, <3>1 DEF RemovalComes, Queued, Spoiled, Clashes
  <2> QED BY <1>2, <2>7, <2>8 DEF Tidy
<1> QED BY <1>4, <1>5

\* The links of a name begin to be made or removed.
LEMMA BeginTidy ==
  ASSUME LinksInv, Tidy, UNCHANGED app, Take \/ \E n \in Names : Visit(n)
  PROVE  Tidy'
<1>1. TypeOK /\ UNCHANGED <<phase, files, link, lost>> /\ job = NoJob
  BY DEF LinksInv, Take, Visit
<1>2. PICK n \in Possible, op \in {"create", "remove"} :
        /\ job' = JobFor(op, n)
        /\ \A m : Queued(m) => Queued(m)' \/ m = n
        /\ \A m : m \in todo => m \in todo' \/ m = n
        /\ phase = "walk" => n \in files
        /\ op = "remove" => phase = "on" /\ doubt' = doubt
        /\ doubt' \in {doubt, doubt \ {n}}
  <2>1. CASE Take
    <3> PICK h : h = Head(events)
      OBVIOUS
    <3>1. /\ phase = "on" /\ events # <<>> /\ events' = Tail(events)
          /\ job' = JobFor(h.op, h.name) /\ todo' = todo
          /\ doubt' = IF h.op = "create" THEN doubt \ {h.name} ELSE doubt
      BY <2>1 DEF Take
    <3>2. /\ h.name \in Possible /\ h.op \in {"create", "remove"}
          /\ \A m : Queued(m) => Queued(m)' \/ m = h.name
      BY <1>1, <3>1, FirstEvent
    <3> QED BY <3>1, <3>2
  <2>2. CASE \E n \in Names : Visit(n)
    <3>1. PICK n \in todo : /\ phase = "walk" /\ job' = JobFor("create", n)
                            /\ n \in files /\ todo' = todo \ {n}
                            /\ events' = events /\ doubt' = doubt
      BY <2>2 DEF Visit
    <3>2. n \in Possible
      BY <1>1, <3>1 DEF TypeOK
    <3>3. \A m : Queued(m) => Queued(m)'
      BY <3>1 DEF Queued
    <3> QED BY <3>1, <3>2, <3>3
  <2> QED BY <2>1, <2>2
<1>3. /\ job' # NoJob /\ job'.op = op /\ job'.name = n
      /\ LinkSet(n) = Elements(job'.left) /\ job'.left = LinksOf[app][n]
  BY <1>1, <1>2, JobForIsJob DEF JobFor
<1>4. WalkedIsThere'
  BY <1>1, <1>2, <1>3 DEF WalkedIsThere
<1>5. JobRemoves'
  BY <1>3 DEF JobRemoves, LinkSet
<1>6. JobIsWhole'
  <2>1. \A i, j \in DOMAIN LinksOf[app][n] :
          LinksOf[app][n][i] = LinksOf[app][n][j] => i = j
    BY <1>1, LinksAssumption DEF TypeOK, Possible
  <2>2. ASSUME op = "remove", n \notin Unsure, ~Clashes(n) PROVE Whole(n)
    <3>1. n \notin todo /\ ~InJob(n)
      BY <1>1, <1>2, <2>2 DEF LinksInv, Phases, InJob
    <3> QED BY <2>2, <3>1 DEF Tidy, FilesAreWhole
  <2>3. op = "remove" => Unsure' = Unsure
    BY <1>1, <1>2 DEF Unsure
  <2> QED BY <1>1, <1>3, <2>1, <2>2, <2>3
          DEF JobIsWhole, Clashes, Whole, Linked
<1>7. FilesAreWhole'
  BY <1>1, <1>2, <1>3 DEF Tidy, FilesAreWhole, Unsure, Possible, Whole, Linked,
                          LinkSet, Clashes, InJob
<1>8. RemovalComes'
  BY <1>1, <1>2, <1>3 DEF Tidy, RemovalComes, Unsure, InJob, Spoiled, Clashes
<1> QED BY <1>4, <1>5, <1>6, <1>7, <1>8 DEF Tidy

LEMMA TailDistinct ==
  ASSUME NEW S, NEW s \in Seq(S), s # <<>>,
         \A i, j \in DOMAIN s : s[i] = s[j] => i = j
  PROVE  /\ Head(s) \notin Elements(Tail(s))
         /\ \A i, j \in DOMAIN Tail(s) : Tail(s)[i] = Tail(s)[j] => i = j
<1>1. /\ Len(s) \in Nat \ {0} /\ DOMAIN s = 1..Len(s)
      /\ DOMAIN Tail(s) = 1..(Len(s) - 1) /\ Head(s) = s[1]
      /\ \A i \in DOMAIN Tail(s) : Tail(s)[i] = s[i + 1]
  BY TailElements
<1>2. /\ 1 \in DOMAIN s
      /\ \A i \in DOMAIN Tail(s) : i \in Nat /\ i + 1 \in DOMAIN s /\ i + 1 # 1
  BY <1>1
<1>3. Head(s) \notin Elements(Tail(s))
  BY <1>1, <1>2 DEF Elements
<1>4. ASSUME NEW i \in DOMAIN Tail(s), NEW j \in DOMAIN Tail(s),
             Tail(s)[i] = Tail(s)[j]
      PROVE  i = j
  <2>1. i + 1 = j + 1
    BY <1>1, <1>2, <1>4
  <2> QED BY <1>2, <2>1
<1> QED BY <1>3, <1>4

\* A name of which a call fails is in doubt from then on.
LEMMA FailTidy ==
  ASSUME LinksInv, Tidy, UNCHANGED app, PassOver \/ (JobFails /\ DropsJob)
  PROVE  Tidy'
<1>1. /\ UNCHANGED <<phase, files, link, todo, events, lost>> /\ job # NoJob
      /\ doubt' = doubt \cup {job.name}
  BY DEF PassOver, DropsJob
<1>2. \/ job' = NoJob
      \/ /\ job' # NoJob /\ job'.op = "create" /\ job'.name = job.name
         /\ job'.left = Tail(job.left) /\ job.left # <<>>
         /\ job.left \in Seq(LinkSet(job.name))
  <2>1. CASE PassOver
    BY <2>1, TailJob DEF PassOver, LinksInv, TypeOK, Job
  <2> QED BY <2>1 DEF DropsJob
<1>3. WalkedIsThere' /\ JobRemoves'
  BY <1>1, <1>2 DEF Tidy, WalkedIsThere, JobRemoves
<1>4. JobIsWhole'
  <2>1. \A i, j \in DOMAIN job.left : job.left[i] = job.left[j] => i = j
    BY <1>1 DEF Tidy, JobIsWhole
  <2> QED BY <1>2, <2>1, TailDistinct DEF JobIsWhole
<1>5. \A n : n \notin Unsure' => n \notin Unsure /\ n # job.name /\ ~InJob(n)
  BY <1>1 DEF Unsure, InJob
<1>6. FilesAreWhole'
  BY <1>1, <1>5 DEF Tidy, FilesAreWhole, Possible, Whole, Linked, LinkSet, Clashes
<1>7. RemovalComes'
  BY <1>1, <1>5 DEF Tidy, RemovalComes, Queued, Spoiled, Clashes
<1> QED BY <1>3, <1>4, <1>6, <1>7 DEF Tidy

LEMMA JobStepTidy ==
  ASSUME LinksInv, Tidy, JobStep, UNCHANGED app
  PROVE  Tidy'
<1> DEFINE l == Head(job.left)
           n == job.name
<1>1. /\ job # NoJob /\ job.left # <<>> /\ n \in Possible
      /\ l \in LinkSet(n) /\ l \in Hashes /\ n # NoFile
      /\ UNCHANGED <<phase, files, todo, events, doubt, lost>>
      /\ Moves(l)
  BY JobStepMoves, LinkSetOf DEF LinksInv
<1>2. TypeOK /\ job.left \in Seq(LinkSet(n)) /\ l \in Elements(job.left)
  <2>1. TypeOK /\ job.left \in Seq(LinkSet(n))
    BY <1>1 DEF LinksInv, TypeOK
  <2> QED BY <1>1, <2>1, TailElements
<1>3. job' # NoJob =>
        /\ job'.op = job.op /\ job'.name = n
        /\ \/ job' = job /\ job.op = "create"
           \/ /\ job'.left = Tail(job.left)
              /\ Elements(job.left) = Elements(job'.left) \cup {l}
              /\ job.op = "remove" => link'[l] = NoFile
  <2>1. CASE job' = [job EXCEPT !.left = Tail(@)]
    BY <1>1, <1>2, <2>1, TailJob DEF Moves, TypeOK, Job
  <2> QED BY <1>1, <1>2, <2>1 DEF Moves, TypeOK
<1>4. \A k \in Hashes : /\ k # l => link'[k] = link[k]
                        /\ link'[k] \in {link[k], n, NoFile}
  BY <1>1, <1>2 DEF Moves, TypeOK
<1>5. job' = NoJob => job.op = "remove" /\ link[l] = NoFile /\ link' = link
  BY <1>1, <1>2, TailJob DEF Moves
<1>6. \A m \in Possible : m # n /\ l \in LinkSet(m) => Clashes(m)
  BY <1>1, <1>2, Clash
<1>7. /\ l \notin Elements(Tail(job.left))
      /\ \A i, j \in DOMAIN Tail(job.left) :
           Tail(job.left)[i] = Tail(job.left)[j] => i = j
  BY <1>1, <1>2, TailDistinct DEF Tidy, JobIsWhole
<1>8. \A m \in Possible : LinkSet(m) \subseteq Hashes /\ LinkSet(m)' = LinkSet(m)
  BY <1>2, LinkSetOf DEF LinkSet
<1>9. ASSUME job' = NoJob, n \notin Unsure, ~Clashes(n)
      PROVE  \A k \in LinkSet(n) : link[k] # n
  <2>1. \A k \in Elements(job.left) : link[k] # n
    BY <1>1, <1>2, <1>5, <1>9 DEF Tidy, JobIsWhole
  <2> QED BY <1>1, <1>5, <1>9, <2>1 DEF Tidy, JobRemoves
<1>10. Elements(job.left) \subseteq LinkSet(n)
  BY <1>2, ElementOfSeq DEF Elements
<1> HIDE DEF l, n
<1>11. WalkedIsThere'
  BY <1>1, <1>3 DEF Tidy, WalkedIsThere, n
<1>12. JobRemoves'
  BY <1>1, <1>3, <1>4, <1>8 DEF Tidy, JobRemoves, n
<1>13. JobIsWhole'
  <2>1. CASE job' = job /\ job.op = "create"
    BY <2>1 DEF Tidy, JobIsWhole
  <2>2. CASE /\ job' # NoJob /\ job'.left = Tail(job.left)
             /\ Elements(job.left) = Elements(job'.left) \cup {l}
    <3>1. \A k \in Elements(job'.left) : link'[k] = link[k]
      BY <1>1, <1>4, <1>7, <1>8, <1>10, <2>2
    <3> QED BY <1>1, <1>3, <1>7, <2>2, <3>1
            DEF Tidy, JobIsWhole, Unsure, Clashes, n
  <2> QED BY <1>3, <2>1, <2>2 DEF JobIsWhole
<1>14. FilesAreWhole'
  <2> SUFFICES ASSUME NEW m \in Possible, m \notin Unsure, ~Clashes(m),
                      m \notin todo, ~InJob(m)'
               PROVE  Whole(m)'
    BY <1>1 DEF FilesAreWhole, Unsure, Possible, Clashes
  <2>1. CASE m = n
    <3>1. job' = NoJob
      BY <1>3, <2>1 DEF InJob
    <3> QED BY <1>5, <1>8, <1>9, <2>1, <3>1 DEF Whole
  <2>2. CASE m # n
    <3>1. Whole(m) /\ l \notin LinkSet(m)
      BY <1>6, <2>2 DEF Tidy, FilesAreWhole, InJob, n
    <3> QED BY <1>4, <1>8, <3>1 DEF Whole, Linked
  <2> QED BY <2>1, <2>2
<1>15. RemovalComes'
  <2> SUFFICES ASSUME NEW k \in Hashes, NEW m, m = link'[k], m # NoFile,
                      m \notin Unsure \cup files,
                      ~Queued(m), ~Spoiled(m), ~InJob(m)'
               PROVE  FALSE
    BY <1>1 DEF RemovalComes, Unsure, Queued, Spoiled, Clashes, InJob
  <2>1. CASE m = n
    <3>1. job' = NoJob
      BY <1>3, <2>1 DEF InJob
    <3>2. link[k] = n /\ k \in LinkSet(n) /\ link[l] = NoFile
      BY <1>1, <1>2, <1>5, <2>1, <3>1 DEF TypeOK
    <3>3. Clashes(n)
      BY <1>9, <2>1, <3>1, <3>2
    <3>4. k = l
      BY <1>1, <1>2, <2>1, <3>2, <3>3, OneLink
    <3> QED BY <1>1, <3>2, <3>4
  <2>2. CASE m # n
    <3>1. m = link[k] /\ ~InJob(m)
      BY <1>4, <2>2 DEF InJob, n
    <3> QED BY <3>1 DEF Tidy, RemovalComes
  <2> QED BY <2>1, <2>2
<1> QED BY <1>11, <1>12, <1>13, <1>14, <1>15 DEF Tidy

LEMMA TidyInit == GetInit => Tidy
<1> SUFFICES ASSUME GetInit PROVE Tidy
  OBVIOUS
<1>1. GetInv /\ job = NoJob /\ link = [l \in Hashes |-> NoFile]
  BY GetInitInv DEF GetInit, Init
<1>2. \A n \in Possible : n # NoFile /\ LinkSet(n) \subseteq Hashes
  BY <1>1, LinkSetOf DEF GetInv, LinksInv
<1> QED BY <1>1, <1>2 DEF Tidy, WalkedIsThere, JobRemoves, JobIsWhole,
                          FilesAreWhole, Whole, RemovalComes

LEMMA TidyNext == GetInv /\ Tidy /\ [GetNext]_getVars => Tidy'
<1> SUFFICES ASSUME GetInv, Tidy, [GetNext]_getVars PROVE Tidy'
  OBVIOUS
<1>1. CASE Next
  BY <1>1, QuietTidy, FreeTidy, BeginTidy, JobStepTidy, FailTidy, FailsHow
     DEF GetInv, Next, AppStep
<1>2. CASE UNCHANGED vars
  BY <1>2 DEF vars, Tidy, WalkedIsThere, JobRemoves, JobIsWhole, FilesAreWhole,
              RemovalComes, Unsure, Possible, Whole, Linked, LinkSet, Clashes,
              InJob, Queued, Spoiled
<1> QED BY <1>1, <1>2 DEF GetNext, GetStep, LinkStep, getVars

LEMMA TidyImplies == GetInv /\ Tidy => NoDanglingLink
<1> SUFFICES ASSUME GetInv, Tidy, NEW l \in Hashes, link[l] # NoFile,
                    Handled(link[l])
             PROVE  link[l] \in files \/ Spoiled(link[l])
  BY DEF NoDanglingLink
<1> DEFINE n == link[l]
<1>1. n \notin Unsure /\ ~Queued(n) /\ ~InJob(n)
  BY DEF Handled, Pending, Unsure, Queued, InJob
<1> QED BY <1>1 DEF Tidy, RemovalComes

-----------------------------------------------------------------------------
(* Theorems *)

\* The invariant of the links, the queue, the watcher and one request.
THEOREM LinkInvariant == GetSpec => []GetInv
  BY GetInitInv, GetNextInv, PTL DEF GetSpec

\* A link names only a file it is made from, and what is served has a name
\* that was asked for (wkd/app.go:199-214, avatar.go:149-199).
THEOREM TypeCorrect == GetSpec => []GetTypeOK
<1>1. GetInv => GetTypeOK
  BY DEF GetInv
<1> QED BY <1>1, LinkInvariant, PTL

\* A file whose changes were all seen and handled has its links, unless it
\* clashes, for any number of files and links and a queue of any length.
THEOREM FilesLinked == GetSpec => []FilesAreLinked
<1>1. GetInv => FilesAreLinked
  BY LinksInvImplies DEF GetInv
<1> QED BY <1>1, LinkInvariant, PTL

\* No link names a file that is gone, unless its name shares several links with
\* another, or an error left its links undone: apart from that, links are made
\* and removed whole, whatever stops or is lost in between (wkd/app.go:225-239,
\* avatar.go:256-274).
THEOREM NothingDangles == GetSpec => []NoDanglingLink
<1>1. GetSpec => []Tidy
  BY LinkInvariant, TidyInit, TidyNext, PTL DEF GetSpec
<1> QED BY <1>1, LinkInvariant, TidyImplies, PTL

\* Such a file is served, whatever happens to others between the two looks of
\* the handler at the directory (avatar.go:149-199).
THEOREM CalmFilesServed == GetSpec => []CalmFileIsServed
<1>1. GetInv => CalmFileIsServed
  BY DEF GetInv
<1> QED BY <1>1, LinkInvariant, PTL

\* Only a removal of the file, or a file that clashes, takes a link from it.
THEOREM LinksKept == GetSpec => OnlyClashesSteal
<1>1. OnlyClashesSteal <=> [][Steals]_vars
  BY DEF OnlyClashesSteal, Steals
<1> QED BY <1>1, LinkInvariant, StepsSteal, PTL DEF GetSpec

-----------------------------------------------------------------------------
(* The way of a file to its links.  FileGetsLinks needs the fairness of     *)
(* GetSpec; proved here is that the file is never forgotten on the way, and *)
(* that every step of the watcher brings it nearer to its links.            *)

Noticed(n) == phase = "on" /\ n \in files \ (doubt \cup lost) /\ ~Clashes(n)
Places(n) == {i \in DOMAIN events : events[i].name = n}
Settled(n) == ~Queued(n) /\ ~InJob(n) /\ Linked(n)

\* An event of n is still to come, or its links are being made, or are there.
Known(n) == Queued(n) \/ (InJob(n) /\ job.op = "create") \/ Settled(n)

\* Every event is one place nearer; the first is at work, or is of a file that
\* has gone.
QueueMoves(n) ==
  /\ events # <<>> /\ Places(n)' = {i - 1 : i \in Places(n)} \ {0}
  /\ 1 \in Places(n) => InJob(n)'

\* The job has one link less to do, or takes one from another file in order to
\* make it, or is over.
JobMoves ==
  /\ job # NoJob
  /\ \/ job.left # <<>> /\ job' = [job EXCEPT !.left = Tail(@)]
     \/ /\ job.left # <<>> /\ job' = job
        /\ link[Head(job.left)] \notin {job.name, NoFile}
        /\ link'[Head(job.left)] = NoFile
     \/ job' = NoJob

\* Another file comes or goes.
OthersMove(n) ==
  /\ UNCHANGED <<link, job>>
  /\ n \in files' /\ files' # files

FileComesNearer(n) ==
  Noticed(n) =>
    /\ Known(n)
    /\ \/ phase' # "on" \/ n \notin files' \/ n \in doubt' \cup lost'
       \/ /\ Noticed(n)' /\ Known(n)'
          /\ Settled(n) => Settled(n)'
          /\ \/ QueueMoves(n)
             \/ Places(n)' = Places(n) /\ JobMoves
             \/ Places(n)' = Places(n) /\ OthersMove(n)

FilesComeNearer == \A n \in Names : FileComesNearer(n)

\* What is known of a file that was noticed.
LEMMA NoticedIsKnown ==
  ASSUME LinksInv, NEW n, Noticed(n)
  PROVE  /\ Known(n) /\ n \in Possible /\ n \in files /\ n \notin lost
         /\ ~Queued(n) /\ InJob(n) => job.op = "create"
         /\ LinkSet(n) \subseteq Hashes
<1>1. /\ n \in Possible /\ n \in files /\ n \notin lost /\ todo = {}
      /\ phase = "on"
  BY DEF Noticed, LinksInv, TypeOK, Phases
<1>2. ~Queued(n) /\ InJob(n) => job.op = "create"
  BY <1>1 DEF LinksInv, JobTells, InJob
<1>3. Queued(n) \/ InJob(n) \/ Linked(n)
  BY <1>1 DEF Noticed, LinksInv, FilesAreSeen
<1>4. LinkSet(n) \subseteq Hashes
  BY <1>1, LinkSetOf DEF LinksInv
<1> QED BY <1>1, <1>2, <1>3, <1>4 DEF Known, Settled

LEMMA LaterKnown ==
  ASSUME NEW n PROVE LinksInv' /\ Noticed(n)' => Known(n)'
<1>1. LinksInv /\ Noticed(n) => Known(n)
  BY NoticedIsKnown
<1> QED BY <1>1, PTL

\* A link of a file that clashes with none is touched by no job but its own.
LEMMA LinkedStay ==
  ASSUME LinksInv, JobStep, UNCHANGED app, NEW n, Noticed(n), Linked(n),
         ~InJob(n)
  PROVE  Linked(n)'
<1>1. PICK h \in Hashes : /\ h \in LinkSet(job.name) /\ job.name \in Possible
                          /\ Moves(h) /\ job # NoJob
  BY JobStepMoves DEF LinksInv
<1>2. n \in Possible /\ LinkSet(n) \subseteq Hashes /\ n # job.name
  BY <1>1, NoticedIsKnown DEF InJob
<1>3. h \notin LinkSet(n)
  BY <1>1, <1>2, Clash DEF Noticed, LinksInv
<1>4. \A l \in LinkSet(n) : link'[l] = link[l]
  BY <1>1, <1>2, <1>3 DEF Moves, LinksInv, TypeOK
<1> QED BY <1>4 DEF Linked, LinkSet

LEMMA JobComesNearer ==
  ASSUME LinksInv, JobStep \/ JobDone \/ PassOver \/ DropsJob, UNCHANGED app,
         NEW n, Noticed(n), n \notin doubt'
  PROVE  /\ Noticed(n)' /\ (Settled(n) => Settled(n)')
         /\ Places(n)' = Places(n) /\ JobMoves
<1>1. /\ UNCHANGED <<phase, files, events, lost>> /\ job # NoJob
      /\ TypeOK
  BY DEF JobStep, JobDone, PassOver, DropsJob, LinksInv
<1>2. Noticed(n)' /\ Places(n)' = Places(n) /\ Queued(n)' = Queued(n)
  BY <1>1 DEF Noticed, Places, Queued, Clashes
<1>3. JobMoves
  <2>1. CASE JobStep
    <3> DEFINE h == Head(job.left)
    <3>1. /\ job # NoJob /\ job.left # <<>> /\ h \in Hashes /\ Moves(h)
          /\ link \in [Hashes -> Possible \cup {NoFile}]
      BY <1>1, <2>1, JobStepMoves DEF TypeOK
    <3> QED BY <3>1 DEF JobMoves, Moves
  <2>2. CASE JobDone \/ PassOver \/ DropsJob
    BY <2>2 DEF JobDone, PassOver, DropsJob, JobMoves
  <2> QED BY <2>1, <2>2
<1>4. Settled(n) => Settled(n)'
  <2> SUFFICES ASSUME Settled(n) PROVE Settled(n)'
    OBVIOUS
  <2>1. Linked(n)'
    <3>1. CASE JobStep
      BY <3>1, LinkedStay DEF Settled
    <3>2. CASE JobDone \/ PassOver \/ DropsJob
      BY <3>2 DEF JobDone, PassOver, DropsJob, Settled, Linked, LinkSet
    <3> QED BY <3>1, <3>2
  <2>2. ~InJob(n)'
    BY <1>1, <1>3, TailJob DEF JobMoves, Settled, InJob
  <2> QED BY <1>2, <2>1, <2>2 DEF Settled
<1> QED BY <1>2, <1>3, <1>4

LEMMA QueueComesNearer ==
  ASSUME LinksInv, Take \/ Skip, UNCHANGED app, NEW n, Noticed(n)
  PROVE  /\ Noticed(n)' /\ (Settled(n) => Settled(n)') /\ QueueMoves(n)
<1>1. /\ UNCHANGED <<phase, files, link, lost>> /\ events # <<>>
      /\ doubt' \subseteq doubt
      /\ events' = Tail(events) /\ events \in Seq(Event)
  BY DEF Take, Skip, LinksInv, TypeOK
<1>2. /\ DOMAIN events = 1..Len(events) /\ Len(events) \in Nat \ {0}
      /\ DOMAIN events' = 1..(Len(events) - 1) /\ Head(events) = events[1]
      /\ \A i \in DOMAIN events' : events'[i] = events[i + 1]
      /\ Head(events) \in Event
  BY <1>1, TailElements
<1>3. Noticed(n)'
  BY <1>1 DEF Noticed, Clashes
<1>4. Places(n)' = {i - 1 : i \in Places(n)} \ {0}
  <2>1. ASSUME NEW i \in Places(n)' PROVE i \in {j - 1 : j \in Places(n)} \ {0}
    <3>1. i + 1 \in Places(n) /\ i \in Nat \ {0} /\ (i + 1) - 1 = i
      BY <1>2, <2>1 DEF Places
    <3> QED BY <3>1
  <2>2. ASSUME NEW j \in Places(n), j - 1 # 0 PROVE j - 1 \in Places(n)'
    <3>1. j \in 1..Len(events) /\ j - 1 \in 1..(Len(events) - 1)
      BY <1>2, <2>2 DEF Places
    <3>2. events'[j - 1] = events[(j - 1) + 1] /\ (j - 1) + 1 = j
      BY <1>2, <3>1
    <3> QED BY <1>2, <2>2, <3>1, <3>2 DEF Places
  <2> QED BY <2>1, <2>2
<1>5. 1 \in Places(n) => InJob(n)'
  <2> SUFFICES ASSUME 1 \in Places(n) PROVE InJob(n)'
    OBVIOUS
  <2>1. Head(events).name = n /\ n \in files
    BY <1>2, NoticedIsKnown DEF Places
  <2>2. Take
    BY <2>1 DEF Skip
  <2> QED BY <1>2, <2>1, <2>2, JobForIsJob, NoticedIsKnown
          DEF Take, InJob, Event, LinksInv
<1>6. Settled(n) => Settled(n)'
  <2> SUFFICES ASSUME Settled(n) PROVE Settled(n)'
    OBVIOUS
  <2>1. Places(n) = {} /\ Head(events).name # n
    BY <1>2 DEF Settled, Queued, Places
  <2>2. ~Queued(n)'
    BY <1>4, <2>1 DEF Queued, Places
  <2>3. ~InJob(n)'
    <3>1. CASE Take
      BY <1>2, <2>1, <3>1, JobForIsJob DEF Take, InJob, Event, LinksInv
    <3>2. CASE Skip
      BY <3>2 DEF Skip, InJob, Settled
    <3> QED BY <3>1, <3>2
  <2>4. Linked(n)'
    BY <1>1 DEF Settled, Linked, LinkSet
  <2> QED BY <2>2, <2>3, <2>4 DEF Settled
<1> QED BY <1>1, <1>3, <1>4, <1>5, <1>6 DEF QueueMoves

LEMMA DirectoryComesNearer ==
  ASSUME LinksInv, UNCHANGED app, NEW n, Noticed(n),
         NEW m \in Possible, AddFile(m) \/ DropFile(m),
         n \in files', n \notin lost'
  PROVE  /\ Noticed(n)' /\ (Settled(n) => Settled(n)')
         /\ Places(n)' = Places(n) /\ OthersMove(n)
<1>1. /\ UNCHANGED <<phase, link, job>> /\ phase = "on" /\ m # n
      /\ n \in files /\ files' # files /\ n \notin doubt \cup lost
  BY DEF AddFile, DropFile, Noticed
<1>2. PICK op \in {"create", "remove"} : Report(op, m)
  BY DEF AddFile, DropFile
<1>3. /\ doubt' \subseteq doubt \cup {m}
      /\ \/ events' = events
         \/ events' = Append(events, [op |-> op, name |-> m])
  BY <1>1, <1>2 DEF Report
<1>4. Noticed(n)'
  BY <1>1, <1>3 DEF Noticed, Clashes
<1>5. Places(n)' = Places(n)
  <2>1. CASE events' = events
    BY <2>1 DEF Places
  <2>2. CASE events' = Append(events, [op |-> op, name |-> m])
    <3> DEFINE e == [op |-> op, name |-> m]
    <3>1. /\ e \in Event /\ events \in Seq(Event) /\ Len(events) \in Nat
          /\ DOMAIN events = 1..Len(events)
      BY EventsTypeOK DEF Event, LinksInv
    <3>2. /\ DOMAIN events' = 1..(Len(events) + 1)
          /\ \A i \in 1..Len(events) : events'[i] = events[i]
          /\ events'[Len(events) + 1].name # n
      BY <1>1, <2>2, <3>1, AppendProperties
    <3> QED BY <3>1, <3>2 DEF Places
  <2> QED BY <1>3, <2>1, <2>2
<1>6. Settled(n) => Settled(n)'
  BY <1>1, <1>5 DEF Settled, Queued, Places, InJob, Linked, LinkSet
<1> QED BY <1>1, <1>4, <1>5, <1>6 DEF OthersMove

\* The safety half of FileGetsLinks (wkd/app.go:53-84, avatar.go:54-85): a file
\* the watcher is to notice is not forgotten; each step of the watcher brings
\* its events nearer to the head of the queue or shortens the job before it; its
\* own job ends with all of its links in place; and there they stay - unless the
\* process ends, the file goes, a change of it is lost, or a system call fails
\* over one of its links, which the watcher logs and then forgets
\* (wkd/app.go:68-70, avatar.go:69-71).
THEOREM FilesMoveOn == GetSpec => [][FilesComeNearer]_vars
<1>1. GetInv /\ [GetNext]_getVars => [FilesComeNearer]_vars
  <2> SUFFICES ASSUME GetInv, Next, NEW n \in Names, Noticed(n)
               PROVE  FileComesNearer(n)
    BY DEF GetNext, GetStep, LinkStep, getVars, FilesComeNearer, FileComesNearer
  <2>1. LinksInv /\ UNCHANGED app
    BY DEF GetInv, Next
  <2>2. Known(n)
    BY <2>1, NoticedIsKnown
  <2> SUFFICES ASSUME phase' = "on", n \in files', n \notin doubt' \cup lost'
               PROVE  FileComesNearer(n)
    BY <2>2 DEF FileComesNearer
  <2>3. phase = "on"
    BY DEF Noticed
  <2>4. Noticed(n)' => Known(n)'
    BY <2>1, LinksStepInv, LaterKnown
  <2>5. CASE JobStep \/ JobDone \/ PassOver \/ DropsJob
    BY <2>1, <2>2, <2>4, <2>5, JobComesNearer DEF FileComesNearer
  <2>6. CASE Take \/ Skip
    BY <2>1, <2>2, <2>4, <2>6, QueueComesNearer DEF FileComesNearer
  <2>7. CASE \E m \in Possible : AddFile(m) \/ DropFile(m)
    BY <2>1, <2>2, <2>4, <2>7, DirectoryComesNearer DEF FileComesNearer
  <2>8. ~Start /\ ~WalkFails /\ ~Watch /\ ~Stop /\ \A m \in Names : ~Visit(m)
    BY <2>3 DEF Start, WalkFails, Watch, Stop, Down, Visit
  <2>9. JobFails => DropsJob
    BY <2>8, FailsHow
  <2> QED BY <2>5, <2>6, <2>7, <2>8, <2>9 DEF Next, AppStep
<1> QED BY <1>1, LinkInvariant, PTL DEF GetSpec
=============================================================================
