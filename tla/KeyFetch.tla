------------------------------ MODULE KeyFetch ------------------------------
(***************************************************************************)
(* pkg/opgp: GetKey looks for the key of an id.  A fingerprint is asked of *)
(* the key server; an address of the directory of its domain, of the same  *)
(* under its advanced name, and of the key server, until one of them gives *)
(* a key that can be read.  Module Entity is GetOne, which makes an entity *)
(* of the ring.  All of it shares the time of the task that runs it.       *)
(***************************************************************************)
EXTENDS Entity, Sequences

VARIABLES
  kind,     \* what the id is
  at,       \* the place of the source whose turn it is
  stage,    \* "ask", "wait", "body", "read", "found" or "error"
  late,     \* the context of the task is over
  sent,     \* history: the sources that were sent a request
  refused   \* history: the sources that had their say, and gave no key

fetch   == <<kind, at, stage, late, sent, refused>>
allVars == <<vars, fetch>>

\* The sources for an id, in the order in which they are asked; none for an
\* id that is neither a fingerprint nor an address.
Sources ==
  [fingerprint |-> <<"by-fingerprint">>,
   address     |-> <<"direct", "advanced", "by-email">>,
   neither     |-> <<>>]

Asked == Sources[kind]
Places == 1..Len(Asked)

FetchTypeOK ==
  /\ TypeOK
  /\ kind \in DOMAIN Sources
  /\ stage \in {"ask", "wait", "body", "read", "found", "error"}
  /\ at \in Places \/ stage = "error"
  /\ late \in BOOLEAN
  /\ sent \subseteq {Asked[p] : p \in Places}
  /\ refused \subseteq sent

FetchInit ==
  /\ Init /\ ids = {} /\ addr = [i \in Idents |-> NoAddr]
  /\ kind \in DOMAIN Sources
  /\ at = 1 /\ late = FALSE /\ sent = {} /\ refused = {}
  /\ stage = IF Asked = <<>> THEN "error" ELSE "ask"

\* The error of a source is dropped unless it is the last one.
NextSource ==
  IF at < Len(Asked)
  THEN at' = at + 1 /\ stage' = "ask"
  ELSE at' = at /\ stage' = "error"

-----------------------------------------------------------------------------
(* Faults: forms that a definition below would take after a slip in the    *)
(* code.  No specification uses them; the properties tell them apart.      *)

\* One entity is filled by the rings of all sources.
BeginUsed(someIds, someAddr, someFlagged, someSigned) ==
  /\ ids' = someIds /\ addr' = someAddr
  /\ flagged' = someFlagged /\ signed' = someSigned
  /\ left' = someIds /\ pc' = "loop"
  /\ UNCHANGED <<primary, emails, sig, proofs, picked>>

\* Every request has a time of its own.
ExpiredAlone ==
  /\ stage \in {"wait", "body"} /\ late
  /\ NextSource
  /\ late' = FALSE
  /\ UNCHANGED <<vars, kind, sent, refused>>

\* The context bounds the request, but not the reading of the body.
ExpiredWaiting ==
  /\ stage = "wait" /\ late
  /\ NextSource
  /\ UNCHANGED <<vars, kind, late, sent, refused>>

-----------------------------------------------------------------------------
(* One source *)

\* GetOne begins with an empty entity, and with this ring.
Begin(someIds, someAddr, someFlagged, someSigned) ==
  /\ ids' = someIds /\ addr' = someAddr
  /\ flagged' = someFlagged /\ signed' = someSigned
  /\ left' = someIds
  /\ primary' = NoAddr /\ emails' = {} /\ sig' = 0 /\ proofs' = {}
  /\ pc' = "loop" /\ picked' = {}

\* A request is sent, unless there is no time left.
Send ==
  /\ stage = "ask" /\ ~late
  /\ stage' = "wait"
  /\ sent' = sent \cup {Asked[at]}
  /\ UNCHANGED <<vars, kind, at, late, refused>>

Respond ==
  /\ stage = "wait"
  /\ stage' = "body"
  /\ UNCHANGED <<vars, kind, at, late, sent, refused>>

\* The source has no key to give.
Refused ==
  /\ refused' = refused \cup {Asked[at]}
  /\ NextSource
  /\ UNCHANGED <<kind, late, sent>>

\* No connection, or a status other than 200.
Refuse ==
  /\ stage = "wait"
  /\ Refused
  /\ UNCHANGED vars

\* The body is no key ring, or it breaks off.
BodyFails ==
  /\ stage = "body"
  /\ Refused
  /\ UNCHANGED vars

\* The client sends no request, and gives up one, or the reading of a body,
\* when the context is over.
Expired ==
  /\ stage \in {"ask", "wait", "body"} /\ late
  /\ NextSource
  /\ UNCHANGED <<vars, kind, late, sent, refused>>

\* The body is a key ring: one with any key, or one without.
ReadKey ==
  /\ stage = "body"
  /\ \E someIds \in SUBSET Idents :
       \E names \in [someIds -> Addresses \cup {NoAddr}] :
         \E f, s \in SUBSET someIds :
           Begin(someIds,
                 [i \in Idents |-> IF i \in someIds THEN names[i] ELSE NoAddr],
                 f, s)
  /\ stage' = "read"
  /\ UNCHANGED <<kind, at, late, sent, refused>>

GetOneStep ==
  /\ stage = "read"
  /\ Next
  /\ UNCHANGED fetch

Found ==
  /\ stage = "read" /\ pc = "done"
  /\ stage' = "found"
  /\ UNCHANGED <<vars, kind, at, late, sent, refused>>

\* The entity that GetOne returns with an error is dropped.
Unusable ==
  /\ stage = "read" /\ pc = "error"
  /\ Refused
  /\ Begin({}, [i \in Idents |-> NoAddr], {}, {})

\* The time of the task is over.
Deadline ==
  /\ stage \in {"ask", "wait", "body"} /\ ~late
  /\ late' = TRUE
  /\ UNCHANGED <<vars, kind, at, stage, sent, refused>>

ClientStep == Send \/ Expired \/ GetOneStep \/ Found \/ Unusable

FetchNext == ClientStep \/ Respond \/ Refuse \/ BodyFails \/ ReadKey \/ Deadline

\* The goroutine of the task goes on and its timer fires; a server owes nothing.
FetchSpec ==
  /\ FetchInit /\ [][FetchNext]_allVars
  /\ WF_allVars(ClientStep) /\ WF_allVars(Deadline)

-----------------------------------------------------------------------------
(* Properties *)

Passed(p) == p < at \/ stage = "error"

\* A key comes from the first source that has one, never from a later source
\* because an earlier one was slow: a source is passed over only when it gave
\* no key itself or the time of the whole search was up, and then nobody behind
\* it is asked any more.  So the key server speaks for a domain only when the
\* domain has no key to give; and a source that hangs costs the search all the
\* sources behind it, which are never asked (util.go:22-55).
SourcesHaveTheirSay ==
  \A p \in Places : Passed(p) /\ Asked[p] \notin refused =>
    late /\ \A q \in Places : q > p => Asked[q] \notin sent

\* GetKey returns, although a server may accept a request and never answer it,
\* or send part of a key: every request carries the context of the task
\* (util.go:47).
FetchEnds == <>(stage \in {"found", "error"})
=============================================================================
