---------------------------- MODULE ProofCheck ----------------------------
(***************************************************************************)
(* pkg/app/keyproofs/proofs.go: the tasks that check one proof.  NewProof  *)
(* chooses a resolver by the form of the URI, the resolver asks a remote   *)
(* service and looks for the fingerprint, and whatever comes of it is      *)
(* stored in the cache, to be shown until it expires.                      *)
(*                                                                         *)
(* The owner of the account may publish and withdraw the fingerprint at    *)
(* any time, also between two requests of one check.                       *)
(***************************************************************************)
EXTENDS Naturals, Sequences

CONSTANTS
  Uris,      \* the proofs of a key, described by what NewProof looks at
  BaseUrl, DnsUrl, XmppUrl,   \* configuration: BASE_URL, DNS_URL, XMPP_URL
  Remote,    \* an address derived from the URI
  None

\* parts is the number of parts of the path between slashes, counting the
\* empty one in front of the first.
Forms == [parses : BOOLEAN,
          scheme : {"dns", "xmpp", "https", "other"},
          host : {"twitter", "hackernews", "devto", "reddit", "gist",
                  "lobsters", "any"},
          path : {"gitlab_proof", "gitea_proof", "conv", "twt", "any"},
          parts : Nat]

ASSUME ProofCheckAssumption ==
  /\ Uris \subseteq Forms
  /\ None \notin Uris

VARIABLES
  uri,      \* the proof, chosen once
  posted,   \* the fingerprint is published under the URI
  pc,       \* where the task is, or "idle"
  status,   \* Proof.Status
  at,       \* history: where the first request of the task goes
  has,      \* the answer being read has the fingerprint
  heard,    \* history: how the requests went, "all", "none" or "cut" short
  was,      \* history: the values of posted since the task began
  cached    \* what is stored under ProofKey, or None

taskVars == <<status, at, has, heard, was>>
vars == <<uri, posted, pc, taskVars, cached>>

Statuses == {"Checking", "Error", "Invalid", "Verified"}
Item == [status : Statuses, heard : {"all", "none", "cut"},
         was : SUBSET BOOLEAN]

TypeOK ==
  /\ uri \in Uris /\ posted \in BOOLEAN
  /\ pc \in {"idle", "http", "scan", "users", "projects", "twts", "resolve",
             "panic"}
  /\ status \in Statuses
  /\ at \in {BaseUrl, DnsUrl, XmppUrl, Remote, None}
  /\ has \in BOOLEAN
  /\ cached \in Item \cup {None}
  /\ [status |-> status, heard |-> heard, was |-> was] \in Item

Init ==
  /\ uri \in Uris /\ posted \in BOOLEAN
  /\ pc = "idle" /\ status = "Checking" /\ at = None
  /\ has = FALSE /\ heard = "all" /\ was = {posted}
  /\ cached = None

-----------------------------------------------------------------------------
(* NewProof *)

Least(m, n) == IF m < n THEN m ELSE n

\* The cases of the switch: strings.SplitN(path, "/", split), the least length
\* that the case asks for, and the last element that it uses.
Case(split, least, last) == [split |-> split, least |-> least, last |-> last]

\* Faults: guards that are off by one.
HostCaseLax ==
  [twitter |-> Case(3, 2, 1), hackernews |-> Case(1, 1, 0),
   devto |-> Case(3, 2, 2), reddit |-> Case(6, 5, 5),
   gist |-> Case(3, 3, 2), lobsters |-> Case(3, 3, 2)]

HostCase ==
  [twitter |-> Case(3, 2, 1), hackernews |-> Case(1, 1, 0),
   devto |-> Case(3, 2, 2), reddit |-> Case(6, 6, 5),
   gist |-> Case(3, 3, 2), lobsters |-> Case(3, 3, 2)]

PathCase ==
  [gitlab_proof |-> Case(3, 2, 1), gitea_proof |-> Case(3, 3, 1),
   conv |-> Case(3, 3, 2), twt |-> Case(3, 3, 2), any |-> Case(3, 2, 1)]

HttpsCase(u) == IF u.host = "any" THEN PathCase[u.path] ELSE HostCase[u.host]
Pieces(u) == Least(u.parts, HttpsCase(u).split)

\* The case matches but leaves the URI to the resolver that does nothing.
TooShort(u) == Pieces(u) < HttpsCase(u).least

\* The case indexes the pieces beyond their end.
Overruns(u) ==
  u.scheme = "https" /\ ~TooShort(u) /\ Pieces(u) <= HttpsCase(u).last

Supported(u) ==
  /\ u.parses
  /\ \/ u.scheme \in {"dns", "xmpp"}
     \/ u.scheme = "https" /\ ~TooShort(u)

IsGitlab(u) ==
  u.scheme = "https" /\ u.host = "any" /\ u.path = "gitlab_proof"
IsTwtxt(u) == u.scheme = "https" /\ u.host = "any" /\ u.path = "conv"

\* dns and xmpp proofs are asked of this program's own endpoints.
Target(u) == IF u.scheme \in {"dns", "xmpp"} THEN BaseUrl ELSE Remote

Goto(from, to) == pc = from /\ pc' = to

-----------------------------------------------------------------------------
(* Faults: forms that a definition below would take after a slip in the    *)
(* code.  No specification uses them; the properties tell them apart.      *)

\* The error of the request is not told from a page without the fingerprint.
HttpFailsInvalid ==
  /\ Goto("http", "resolve")
  /\ status' = "Invalid" /\ heard' = "none"
  /\ UNCHANGED <<uri, posted, at, has, was, cached>>

\* The status is set before the projects are looked at.
ProjectsTrusted ==
  /\ Goto("projects", "resolve")
  /\ status' = "Verified"
  /\ UNCHANGED <<uri, posted, at, has, heard, was, cached>>

\* The resolvers set the status Checking again when they begin.
ResolveBegun ==
  /\ Goto("resolve", "idle")
  /\ cached' = [status |-> IF heard = "all" THEN status ELSE "Checking",
                heard |-> heard, was |-> was]
  /\ UNCHANGED <<uri, posted, taskVars>>

\* The number of the status is stored, not the proof.
ResolveStatus ==
  /\ Goto("resolve", "idle")
  /\ cached' = [status |-> at, heard |-> heard, was |-> was]
  /\ UNCHANGED <<uri, posted, taskVars>>

-----------------------------------------------------------------------------
(* The task *)

\* A task is run for a proof that is not in the cache: NewProof.
Check ==
  /\ pc = "idle" /\ cached = None
  /\ has' = FALSE /\ heard' = "all" /\ was' = {posted}
  /\ \/ /\ ~Supported(uri)
        /\ pc' = "resolve" /\ status' = "Checking" /\ at' = None
     \/ /\ Supported(uri) /\ Overruns(uri)
        /\ pc' = "panic" /\ status' = "Checking" /\ at' = None
     \/ /\ Supported(uri) /\ ~Overruns(uri)
        /\ at' = Target(uri)
        /\ \/ IsGitlab(uri) /\ pc' = "users" /\ status' = "Invalid"
           \/ IsTwtxt(uri) /\ pc' = "twts" /\ status' = "Invalid"
           \/ /\ ~IsGitlab(uri) /\ ~IsTwtxt(uri)
              /\ pc' = "http" /\ status' = "Checking"
  /\ UNCHANGED <<uri, posted, cached>>

\* checkHTTP: the request fails, or the thirty seconds are over ...
HttpFails ==
  /\ Goto("http", "resolve")
  /\ status' = "Error" /\ heard' = "none"
  /\ UNCHANGED <<uri, posted, at, has, was, cached>>

\* ... or there is an answer, whatever its status code.
HttpOpens ==
  /\ Goto("http", "scan")
  /\ has' = posted
  /\ UNCHANGED <<uri, posted, status, at, heard, was, cached>>

\* A line with the fingerprint, in upper or lower case.
ScanMatch ==
  /\ has /\ Goto("scan", "resolve")
  /\ status' = "Verified"
  /\ UNCHANGED <<uri, posted, at, has, heard, was, cached>>

\* The end of the page, or what Scanner takes for it: a line too long, or the
\* end of the thirty seconds.  Scanner.Err is not asked.
ScanEnds ==
  /\ Goto("scan", "resolve")
  /\ status' = "Invalid"
  /\ \/ ~has /\ UNCHANGED heard
     \/ heard' = "cut"
  /\ UNCHANGED <<uri, posted, at, has, was, cached>>

\* gitlabResolve: the user's number, and then the user's projects.  When a
\* request fails the status stays Invalid.
Users ==
  /\ \/ Goto("users", "projects") /\ UNCHANGED heard
     \/ Goto("users", "resolve") /\ ~posted /\ UNCHANGED heard
     \/ Goto("users", "resolve") /\ heard' = "none"
  /\ UNCHANGED <<uri, posted, status, at, has, was, cached>>

\* The answer has the fingerprint, or has not, or there is none.
Answer ==
  \/ posted /\ status' = "Verified" /\ UNCHANGED heard
  \/ ~posted /\ UNCHANGED <<status, heard>>
  \/ heard' = "none" /\ UNCHANGED status

Projects ==
  /\ Goto("projects", "resolve")
  /\ Answer
  /\ UNCHANGED <<uri, posted, at, has, was, cached>>

\* twtxtResolve: the first twt of the conversation.
Twts ==
  /\ Goto("twts", "resolve")
  /\ Answer
  /\ UNCHANGED <<uri, posted, at, has, was, cached>>

\* q.Resolve: the proof is stored whether or not there was an error.
Resolve ==
  /\ Goto("resolve", "idle")
  /\ cached' = [status |-> status, heard |-> heard, was |-> was]
  /\ UNCHANGED <<uri, posted, taskVars>>

\* log.Panic in the deferred function of Run ends the process.
Crash ==
  /\ Goto("panic", "idle")
  /\ UNCHANGED <<uri, posted, taskVars, cached>>

\* Twenty minutes later.
Expire ==
  /\ cached # None /\ cached' = None
  /\ UNCHANGED <<uri, posted, pc, taskVars>>

\* The owner of the account publishes or withdraws the fingerprint.
Publish ==
  /\ posted' = ~posted
  /\ was' = was \cup {posted'}
  /\ UNCHANGED <<uri, pc, status, at, has, heard, cached>>

TaskStep ==
  \/ HttpFails \/ HttpOpens \/ ScanMatch \/ ScanEnds \/ Users \/ Projects
  \/ Twts \/ Resolve \/ Crash

Next == Check \/ TaskStep \/ Expire \/ Publish

Spec == Init /\ [][Next]_vars

-----------------------------------------------------------------------------
(* Properties *)

\* A verdict is about the time of its check: Verified only if the fingerprint
\* was published at some moment of it, Invalid from a complete answer only if
\* it was not at some moment, though a check makes up to two requests and the
\* account changes meanwhile (proofs.go:285-365, 399-406).
VerdictIsOfItsCheck ==
  cached # None =>
    /\ cached.status = "Verified" => TRUE \in cached.was
    /\ cached.status = "Invalid" /\ cached.heard = "all" => FALSE \in cached.was

\* An answer that never came is told from one without the fingerprint - but not
\* for gitlab and twtxt, which begin with Invalid (proofs.go:287 and 340), nor
\* for a page that breaks off (proofs.go:400).
FailureIsNoVerdict ==
  cached # None =>
    /\ cached.status = "Error" => cached.heard = "none"
    /\ cached.heard = "none" =>
         cached.status = "Error" \/ IsGitlab(uri) \/ IsTwtxt(uri)

\* The status Checking is final exactly for URIs that no resolver supports
\* (proofs.go:247-252 and 325): a task that has ended leaves no other proof in
\* it, whatever happens on the way.
CheckingIsUnsupported ==
  cached # None => (cached.status = "Checking" <=> ~Supported(uri))

\* Of all cases of NewProof only the one for dev.to indexes the pieces of the
\* path beyond their end, namely for a path of one segment (proofs.go:128-133).
OverrunsOnlyForDevTo == pc = "panic" => uri.host = "devto" /\ uri.parts = 2

\* What example.env says of DNS_URL (line 43) and XMPP_URL (line 38).
OwnEndpointsConfigured ==
  at # None =>
    /\ uri.scheme = "dns" => at = DnsUrl
    /\ uri.scheme = "xmpp" => at = XmppUrl
=============================================================================
