------------------------------ MODULE LinkGet ------------------------------
(***************************************************************************)
(* pkg/app/avatar and pkg/app/wkd: the GET handlers, which look a file up  *)
(* under the name of its link while module Links makes, changes and        *)
(* removes the links.  One request; requests change nothing.               *)
(***************************************************************************)
EXTENDS Links

CONSTANTS
  Testing,   \* the apps whose handler asks for the file before it opens it
  LooksFor   \* LooksFor[a]: the names of links that the handler of a looks for

ASSUME LinkGetAssumption ==
  /\ Testing \subseteq Apps
  /\ \A a \in Apps : LooksFor[a] \subseteq Hashes

VARIABLES
  get,      \* the handler: "idle", "open", or what it answered
  asked,    \* the name of the link it looks for
  served,   \* the file that was served, or NoFile
  calm      \* history: files with that link that nothing happened to meanwhile

request == <<get, asked, served, calm>>
getVars == <<vars, request>>

Answers == {"file", "default", "unopened", "failed"}

Undisturbed(l) ==
  {n \in files : Handled(n) /\ ~Clashes(n) /\ l \in LinkSet(n)}

\* What is served has a name that the request asked for.
GetTypeOK ==
  /\ TypeOK
  /\ get \in {"idle", "open"} \cup Answers
  /\ asked \in Hashes \cup {NoFile}
  /\ get = "file" => served \in Possible /\ asked \in LinkSet(served)
  /\ calm \subseteq Possible

GetInit ==
  /\ Init
  /\ get = "idle" /\ asked = NoFile /\ served = NoFile /\ calm = {}

\* The file behind the link is there.
Leads(l) == link[l] \in files

-----------------------------------------------------------------------------
(* Faults: forms that a definition below would take after a slip in the    *)
(* code.  No specification uses them; the properties tell them apart.      *)

\* The answer of fileExists is turned round.
TestInverted(l) ==
  /\ get = "idle" /\ phase = "on" /\ app \in Testing
  /\ asked' = l /\ calm' = Undisturbed(l)
  /\ get' = IF Leads(l) THEN "default" ELSE "open"
  /\ UNCHANGED served

-----------------------------------------------------------------------------
(* The handler *)

\* avatar: without a file the answer is a picture made up for the hash.
Test(l) ==
  /\ get = "idle" /\ phase = "on" /\ app \in Testing
  /\ asked' = l /\ calm' = Undisturbed(l)
  /\ get' = IF Leads(l) THEN "open" ELSE "default"
  /\ UNCHANGED served

\* wkd: what is asked for is opened at once.
Look(l) ==
  /\ get = "idle" /\ phase = "on" /\ app \notin Testing
  /\ asked' = l /\ calm' = Undisturbed(l)
  /\ IF Leads(l) THEN get' = "file" /\ served' = link[l]
     ELSE get' = "unopened" /\ UNCHANGED served

Open ==
  /\ get = "open"
  /\ IF Leads(asked) THEN get' = "file" /\ served' = link[asked]
     ELSE get' = "unopened" /\ UNCHANGED served
  /\ UNCHANGED <<asked, calm>>

\* os.Stat fails for a reason other than a missing file: fileExists panics, the
\* router recovers.  Or the file is no picture that could be resized.
FailGet ==
  /\ \/ get = "open"
     \/ get = "idle" /\ phase = "on" /\ app \in Testing /\ LooksFor[app] # {}
  /\ get' = "failed" /\ calm' = {}
  /\ UNCHANGED <<asked, served>>

GetStep ==
  /\ (\E l \in LooksFor[app] : Test(l) \/ Look(l)) \/ Open \/ FailGet
  /\ UNCHANGED vars

\* Meanwhile the links change.
LinkStep ==
  /\ Next
  /\ UNCHANGED <<get, asked, served>>
  /\ calm' = IF get = "open" THEN calm \cap Undisturbed(asked)' ELSE calm

GetNext == GetStep \/ LinkStep

\* The goroutine of the watcher goes on; files come and go as they like.
GetSpec ==
  /\ GetInit /\ [][GetNext]_getVars
  /\ WF_getVars(LinkStep /\ AppStep /\ UNCHANGED app)

-----------------------------------------------------------------------------
(* Properties *)

\* A file that is in place, and whose own changes are handled, is what a
\* request for any of its links gets, whatever happens to others between
\* fileExists and Open (avatar.go:149-199).
CalmFileIsServed ==
  get \in Answers => \A n \in calm : get = "file" /\ served = n
=============================================================================
