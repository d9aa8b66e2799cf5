---------------------------- MODULE PageService ----------------------------
(***************************************************************************)
(* What GET /id/{id} promises a browser, without tasks, callbacks, cache   *)
(* and clock: one answer to each request, given in one piece.  It is an    *)
(* error, a page without entity, or a page about the entity of the id that *)
(* shows some of what its checks have found, and nothing of anybody else.  *)
(* The browser is to load a page again exactly when the page is not an     *)
(* error and something of it is missing.                                   *)
(***************************************************************************)
CONSTANTS
  Requests,
  PageIds,
  About,      \* About[i]: the entity of id i
  Accounts,   \* Accounts[e]: the accounts that entity e claims
  Verdict,    \* Verdict[e]: what a check with the fingerprint of e finds
  NoEntity,
  NoPage

VARIABLES
  turn,       \* turn[b]: "rest", "asked", "answered", or "again" to load again
  asked,      \* asked[b]: the id asked for last
  page        \* page[b]: the page that is shown

serviceVars == <<turn, asked, page>>

ServiceInit ==
  /\ turn = [b \in Requests |-> "rest"]
  /\ asked \in [Requests -> PageIds]
  /\ page = [b \in Requests |-> NoPage]

\* No entity: the task failed, or did not end in time.
BarePage(isError) ==
  [failed |-> isError, entity |-> NoEntity, styled |-> FALSE,
   verdicts |-> [a \in {} |-> NoEntity]]

\* What the checks of some of the accounts have found.
Findings(e) == {[a \in shown |-> Verdict[e]] : shown \in SUBSET Accounts[e]}

PagesAbout(e) ==
  [failed : {FALSE}, entity : {e}, styled : BOOLEAN, verdicts : Findings(e)]

Complete(p) ==
  \/ p.failed
  \/ p.entity # NoEntity /\ p.styled /\ DOMAIN p.verdicts = Accounts[p.entity]

Ask(b, i) ==
  /\ turn[b] = "rest"
  /\ turn' = [turn EXCEPT ![b] = "asked"]
  /\ asked' = [asked EXCEPT ![b] = i]
  /\ UNCHANGED page

Answer(b) ==
  /\ turn[b] = "asked"
  /\ turn' = [turn EXCEPT ![b] = "answered"]
  /\ \E p \in {BarePage(TRUE), BarePage(FALSE)} \cup PagesAbout(About[asked[b]]) :
       page' = [page EXCEPT ![b] = p]
  /\ UNCHANGED asked

\* The page of request b is loaded again, as request c, or given up.
AskAgain(b, c) ==
  /\ turn[b] = "again"
  /\ turn[c] = "rest" \/ c = b
  /\ turn' = [turn EXCEPT ![b] = "rest", ![c] = "asked"]
  /\ asked' = [asked EXCEPT ![c] = asked[b]]
  /\ UNCHANGED page

GiveUp(b) ==
  /\ turn[b] = "again"
  /\ turn' = [turn EXCEPT ![b] = "rest"]
  /\ UNCHANGED <<asked, page>>

Close(b) ==
  /\ turn[b] = "answered"
  /\ turn' = [turn EXCEPT ![b] = IF Complete(page[b]) THEN "rest" ELSE "again"]
  /\ page' = [page EXCEPT ![b] = NoPage]
  /\ UNCHANGED asked

ServiceNext ==
  \E b \in Requests :
    \/ Answer(b) \/ Close(b) \/ GiveUp(b)
    \/ \E i \in PageIds : Ask(b, i)
    \/ \E c \in Requests : AskAgain(b, c)

ServiceSpec == ServiceInit /\ [][ServiceNext]_serviceVars
=============================================================================
