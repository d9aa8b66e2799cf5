------------------------------- MODULE Links -------------------------------
(***************************************************************************)
(* pkg/app/wkd and pkg/app/avatar: the hashed links to the files of one    *)
(* directory.  New makes links for the files it finds and then watches the *)
(* directory; from then on each file event changes links.  Links outlive   *)
(* the process, events do not.  Files whose name has no @ have no links    *)
(* and are left out.                                                       *)
(*                                                                         *)
(* The two apps differ in the number of links of a file (wkd: the hash of  *)
(* the local part; avatar: MD5 and SHA-256 of the name), and in that the   *)
(* walk of avatar skips the directory it starts from, and so all files     *)
(* (avatar.go:105-111).  Their directories are apart, and a behaviour is   *)
(* that of one of them.                                                    *)
(***************************************************************************)
EXTENDS Naturals, Sequences, FiniteSets

CONSTANTS
  Apps,      \* the apps that keep links
  Walking,   \* those of them whose CheckFiles gets to the files
  Names,     \* file names
  Hashes,    \* names of links
  LinksOf,   \* LinksOf[a][n]: the links a keeps of file n, in the order of
             \* their making; a can have the files in the domain of LinksOf[a]
  MaxEvents, \* MaxEvents[a]: the length of the queue of inotify
  NoFile, NoJob

Job == [op : {"create", "remove"}, name : Names, left : Seq(Hashes)]

ASSUME LinksAssumption ==
  /\ Walking \subseteq Apps
  /\ \A a \in Apps : /\ DOMAIN LinksOf[a] \subseteq Names
                     /\ LinksOf[a] \in [DOMAIN LinksOf[a] -> Seq(Hashes)]
                     /\ \A n \in DOMAIN LinksOf[a] : \A i, j \in DOMAIN LinksOf[a][n] :
                          LinksOf[a][n][i] = LinksOf[a][n][j] => i = j
  /\ MaxEvents \in [Apps -> Nat]
  /\ NoFile \notin Names /\ NoJob \notin Job

VARIABLES
  app,      \* the app, chosen once
  phase,    \* of the app: "off", "walk" or "on"
  files,    \* the names in the directory
  link,     \* link[l]: the file that link l names, or NoFile
  todo,     \* the files that the walk has still to visit
  events,   \* what the watcher has not looked at yet
  job,      \* the links being made or removed: createLinks, removeLinks
  doubt,    \* history: names changed while nobody was to notice, or of which
            \* a link could not be made or removed, until they are done anew
  lost      \* history: names whose last event did not fit into the queue

vars == <<app, phase, files, link, todo, events, job, doubt, lost>>

Possible == DOMAIN LinksOf[app]
LinkSets ==
  [a \in Apps |-> [n \in DOMAIN LinksOf[a] |->
                    {LinksOf[a][n][i] : i \in DOMAIN LinksOf[a][n]}]]
LinkSet(n) == LinkSets[app][n]
Event == [op : {"create", "remove"}, name : Possible]

\* A link names only a file that it is a link of.
TypeOK ==
  /\ app \in Apps
  /\ phase \in {"off", "walk", "on"}
  /\ files \subseteq Possible
  /\ link \in [Hashes -> Possible \cup {NoFile}]
  /\ \A l \in Hashes : link[l] # NoFile => l \in LinkSet(link[l])
  /\ todo \subseteq Possible
  /\ events \in Seq(Event) /\ Len(events) <= MaxEvents[app]
  /\ job \in Job \cup {NoJob}
  /\ job # NoJob => /\ phase # "off" /\ job.name \in Possible
                    /\ job.left \in Seq(LinkSet(job.name))
  /\ doubt \subseteq Possible /\ lost \subseteq Possible

Init ==
  /\ app \in Apps
  /\ phase = "off"
  /\ files \in SUBSET Possible
  /\ link = [l \in Hashes |-> NoFile]
  /\ todo = {} /\ events = <<>> /\ job = NoJob
  /\ doubt = files /\ lost = {}

\* A fault: one name is hashed for all files.
JobForOne(op, n) ==
  [op |-> op, name |-> n, left |-> LinksOf[app][CHOOSE m \in Possible : TRUE]]

JobFor(op, n) == [op |-> op, name |-> n, left |-> LinksOf[app][n]]
Pending == {events[i].name : i \in DOMAIN events}
             \cup (IF job = NoJob THEN {} ELSE {job.name})

\* The process ends; whoever restarts it begins at Start.
Down ==
  /\ phase' = "off"
  /\ todo' = {} /\ events' = <<>> /\ job' = NoJob /\ lost' = {}

-----------------------------------------------------------------------------
(* Faults: forms that a definition below would take after a slip in the    *)
(* code.  No specification uses them; the properties tell them apart.      *)

\* Removals fall to the default case.
TakeCreates ==
  /\ phase = "on" /\ job = NoJob /\ events # <<>>
  /\ events' = Tail(events)
  /\ job' = IF Head(events).op = "create" THEN JobFor("create", Head(events).name)
            ELSE NoJob
  /\ doubt' = IF Head(events).op = "create" THEN doubt \ {Head(events).name} ELSE doubt
  /\ UNCHANGED <<phase, files, link, todo, lost>>

\* The loop ends with the first error of removeLinks.
RemoveMissingEnds(l) ==
  /\ link[l] = NoFile
  /\ UNCHANGED <<job, link>>

\* The arguments of os.Symlink are swapped.
MakeLinkSwapped(l, n) ==
  /\ link[l] = NoFile
  /\ link' = [link EXCEPT ![l] = l]
  /\ job' = [job EXCEPT !.left = Tail(@)]

\* createLinks returns after the first link.
MakeLinkOnce(l, n) ==
  /\ link[l] = NoFile
  /\ link' = [link EXCEPT ![l] = n]
  /\ job' = [job EXCEPT !.left = <<>>]

-----------------------------------------------------------------------------
(* The directory: whoever has access to it *)

\* inotify reports a change when the directory is watched.  When its queue is
\* full the change is lost: the overflow is an error that is only logged.
Report(op, n) ==
  IF phase # "on"
  THEN doubt' = doubt \cup {n} /\ UNCHANGED <<events, lost>>
  ELSE IF Len(events) < MaxEvents[app]
  THEN /\ events' = Append(events, [op |-> op, name |-> n])
       /\ doubt' = doubt \cup (lost \cap {n}) /\ lost' = lost \ {n}
  ELSE lost' = lost \cup {n} /\ UNCHANGED <<events, doubt>>

AddFile(n) ==
  /\ n \notin files
  /\ files' = files \cup {n}
  /\ Report("create", n)
  /\ UNCHANGED <<phase, link, todo, job>>

\* Removed, or renamed: the watcher treats both the same.
DropFile(n) ==
  /\ n \in files
  /\ files' = files \ {n}
  /\ Report("remove", n)
  /\ UNCHANGED <<phase, link, todo, job>>

-----------------------------------------------------------------------------
(* New: walk the directory, then watch it *)

\* CheckFiles reads the names in the directory.
Start ==
  /\ phase = "off"
  /\ phase' = "walk"
  /\ todo' = IF app \in Walking THEN files ELSE {}
  /\ doubt' = IF app \in Walking THEN doubt \ files ELSE doubt
  /\ UNCHANGED <<files, link, events, job, lost>>

Visit(n) ==
  /\ phase = "walk" /\ job = NoJob /\ n \in todo
  /\ n \in files
  /\ todo' = todo \ {n}
  /\ job' = JobFor("create", n)
  /\ UNCHANGED <<phase, files, link, events, doubt, lost>>

\* A file has gone since its name was read: the walk fails, New fails, and
\* the process ends.
WalkFails ==
  /\ phase = "walk" /\ job = NoJob
  /\ \E n \in todo : n \notin files
  /\ Down
  /\ doubt' = doubt \cup todo \cup lost
  /\ UNCHANGED <<files, link>>

\* The watch begins after the walk.
Watch ==
  /\ phase = "walk" /\ job = NoJob /\ todo = {}
  /\ phase' = "on"
  /\ UNCHANGED <<files, link, todo, events, job, doubt, lost>>

-----------------------------------------------------------------------------
(* createLinks, removeLinks and replaceLink, link after link *)

\* The link is missing: os.Symlink.
MakeLink(l, n) ==
  /\ link[l] = NoFile
  /\ link' = [link EXCEPT ![l] = n]
  /\ job' = [job EXCEPT !.left = Tail(@)]

KeepLink(l, n) ==
  /\ link[l] = n
  /\ job' = [job EXCEPT !.left = Tail(@)]
  /\ UNCHANGED link

\* The link names another file: os.Remove, and os.Symlink afterwards.
Relink(l, n) ==
  /\ link[l] \notin {n, NoFile}
  /\ link' = [link EXCEPT ![l] = NoFile]
  /\ UNCHANGED job

\* os.Remove takes the link away whatever it names.
RemoveLink(l) ==
  /\ link[l] # NoFile
  /\ link' = [link EXCEPT ![l] = NoFile]
  /\ job' = [job EXCEPT !.left = Tail(@)]

\* removeLinks returns with the first link it misses.
RemoveMissing(l) ==
  /\ link[l] = NoFile
  /\ job' = NoJob
  /\ UNCHANGED link

JobStep ==
  /\ job # NoJob /\ job.left # <<>>
  /\ LET l == Head(job.left)
         n == job.name
     IN \/ /\ job.op = "create"
           /\ MakeLink(l, n) \/ KeepLink(l, n) \/ Relink(l, n)
        \/ /\ job.op = "remove"
           /\ RemoveLink(l) \/ RemoveMissing(l)
  /\ UNCHANGED <<phase, files, todo, events, doubt, lost>>

\* os.Readlink fails for a reason other than a missing link: replaceLink makes
\* no link and returns no error.
PassOver ==
  /\ job # NoJob /\ job.left # <<>> /\ job.op = "create"
  /\ job' = [job EXCEPT !.left = Tail(@)]
  /\ doubt' = doubt \cup {job.name}
  /\ UNCHANGED <<phase, files, link, todo, events, lost>>

\* os.Symlink or os.Remove fails.  The watcher logs it and goes on to the next
\* event; in the walk New fails, and the process ends.
JobFails ==
  /\ job # NoJob /\ job.left # <<>>
  /\ \/ job.op = "create" /\ link[Head(job.left)] # job.name
     \/ job.op = "remove" /\ link[Head(job.left)] # NoFile
  /\ \/ /\ phase = "on"
        /\ job' = NoJob
        /\ doubt' = doubt \cup {job.name}
        /\ UNCHANGED <<phase, todo, events, lost>>
     \/ /\ phase = "walk"
        /\ Down
        /\ doubt' = doubt \cup Pending \cup todo \cup lost
  /\ UNCHANGED <<files, link>>

\* All links are done.  A name whose links have been removed is not in doubt.
JobDone ==
  /\ job # NoJob /\ job.left = <<>>
  /\ job' = NoJob
  /\ doubt' = IF job.op = "remove" THEN doubt \ {job.name} ELSE doubt
  /\ UNCHANGED <<phase, files, link, todo, events, lost>>

-----------------------------------------------------------------------------
(* The loop of the watcher *)

Take ==
  /\ phase = "on" /\ job = NoJob /\ events # <<>>
  /\ events' = Tail(events)
  /\ job' = JobFor(Head(events).op, Head(events).name)
  /\ doubt' = IF Head(events).op = "create" THEN doubt \ {Head(events).name} ELSE doubt
  /\ UNCHANGED <<phase, files, link, todo, lost>>

\* fsnotify keeps back the creation of a file that has gone again.
Skip ==
  /\ phase = "on" /\ events # <<>>
  /\ Head(events).op = "create" /\ Head(events).name \notin files
  /\ events' = Tail(events)
  /\ UNCHANGED <<phase, files, link, todo, job, doubt, lost>>

\* Interrupted or killed: what is pending is lost.
Stop ==
  /\ phase # "off"
  /\ Down
  /\ doubt' = doubt \cup Pending \cup todo \cup lost
  /\ UNCHANGED <<files, link>>

AppStep ==
  \/ \E n \in Names : Visit(n)
  \/ WalkFails \/ Watch \/ JobStep \/ PassOver \/ JobFails \/ JobDone \/ Take

Next ==
  /\ \/ \E n \in Possible : AddFile(n) \/ DropFile(n)
     \/ Start \/ AppStep \/ Skip \/ Stop
  /\ UNCHANGED app

Spec == Init /\ [][Next]_vars

-----------------------------------------------------------------------------
(* Properties *)

\* Every change of n was seen by the walk or the watcher and has been handled,
\* and no system call failed over it.
Handled(n) == phase = "on" /\ n \notin doubt \cup lost \cup Pending

\* Another file has a link with the same name: for wkd, all addresses with
\* one local part (hashHuman, wkd/app.go:216-223); for avatar, names that
\* differ in case.
Clashing ==
  [a \in Apps |->
    {n \in DOMAIN LinksOf[a] : \E m \in DOMAIN LinksOf[a] \ {n} :
                                LinkSets[a][m] \cap LinkSets[a][n] # {}}]
Clashes(n) == n \in Clashing[app]

\* Every file has its links as soon as its own changes are handled, whatever
\* came, went and came again, and whatever happens to others that do not clash
\* with it: wkd/app.go:55-84 and 199-214, avatar.go:56-85 and 234-254.
FilesAreLinked ==
  \A n \in files : Handled(n) /\ ~Clashes(n) =>
    \A l \in LinkSet(n) : link[l] = n

\* A name that clashes over several links.  removeLinks stops at the first
\* that it misses and may leave the rest (avatar.go:256-274).
Spoiled(n) == Clashes(n) /\ Len(LinksOf[app][n]) > 1

\* And no link is left that names a file that is gone, even where names clash
\* over one link (removeLinks, wkd/app.go:225-239 and avatar.go:256-274).
NoDanglingLink ==
  \A l \in Hashes : link[l] # NoFile /\ Handled(link[l]) =>
    link[l] \in files \/ Spoiled(link[l])

\* A file loses a link only when it is removed itself, or to a file that
\* clashes with it; for wkd anyone with the same local part does, since
\* os.Remove does not ask what the link names (wkd/app.go:233 and 251).
OnlyClashesSteal ==
  [][\A l \in Hashes : link[l] # NoFile /\ link'[l] # link[l] =>
       \/ Clashes(link[l])
       \/ job.op = "remove" /\ job.name = link[l]]_vars

\* A file whose creation is noticed gets its links, whatever comes and goes
\* besides, unless the process ends, the file goes, a change of it is lost, or a
\* system call fails over it: an error of os.Symlink or os.Remove is only logged
\* (wkd/app.go:68-70 and 241-262, avatar.go:69-71), one of os.Readlink not even
\* that, and nothing tries again.
FileGetsLinks ==
  \A n \in Names :
    (phase = "on" /\ n \in files \ (doubt \cup lost) /\ ~Clashes(n)
       ~> \/ phase # "on" \/ n \notin files \/ n \in doubt \cup lost
          \/ \A l \in LinkSet(n) : link[l] = n)
=============================================================================
