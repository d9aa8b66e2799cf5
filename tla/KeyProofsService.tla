-------------------------- MODULE KeyProofsService --------------------------
(***************************************************************************)
(* The handlers of /id/{id} implement PageService: the browser sees a page *)
(* from the moment its handler writes it (app.go:201-224).                 *)
(***************************************************************************)
EXTENDS KeyProofs

TurnOf(h) ==
  CASE hpc[h] = "idle" -> "rest"
    [] hpc[h] = "reload" -> "again"
    [] hpc[h] = "shown" -> "answered"
    [] OTHER -> "asked"

\* What the page says once it is written.
Verdicts(h) ==
  IF entity[h] = NoValue THEN NoneFound
  ELSE [k \in (DOMAIN found[h]) \cap ProofKeySet(entity[h]) |-> found[h][k]]

Styled(h) == entity[h] # NoValue /\ StyleKey[entity[h]] \in DOMAIN found[h]

NoPageYet == [failed |-> FALSE]

Written(h) ==
  IF hpc[h] # "shown" THEN NoPageYet
  ELSE [failed |-> failed[h], entity |-> entity[h],
        styled |-> Styled(h), verdicts |-> Verdicts(h)]

Service == INSTANCE PageService WITH
       Requests <- Handlers, PageIds <- Ids, About <- EntityOf,
       Accounts <- [e \in Entities |-> ProofKeySet(e)], Verdict <- ProofBy,
       NoEntity <- NoValue, NoPage <- NoPageYet,
       turn <- [h \in Handlers |-> TurnOf(h)],
       asked <- id,
       page <- [h \in Handlers |-> Written(h)]

\* app.go:92-224: whatever tasks and callbacks of whichever request filled the
\* cache, what a browser gets is one answer, about what it asked for, with no
\* finding but those made with the fingerprint of that entity; and it is told
\* to load the page again exactly when something of it is missing.
ImplementsService == Service!ServiceSpec
=============================================================================
