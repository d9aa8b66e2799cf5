--------------------------- MODULE KeyFetchProofs ---------------------------
(***************************************************************************)
(* Proofs about KeyFetch: the loop invariant of GetOne holds for whatever  *)
(* ring any of the sources gives, and no source is preferred to a slow one.*)
(***************************************************************************)
EXTENDS KeyFetch, EntityProofs

\* Requests are sent in turn, and what answers has been sent one.
SentInTurn ==
  /\ \A p \in Places : Asked[p] \in sent => p <= at
  /\ stage \in {"wait", "body", "read"} => Asked[at] \in sent

FInv ==
  /\ IInv /\ FetchTypeOK /\ SentInTurn /\ SourcesHaveTheirSay

\* The sources of an id are different ones.
LEMMA PlacesOf ==
  ASSUME kind \in DOMAIN Sources
  PROVE  /\ Len(Asked) \in Nat /\ Places = 1..Len(Asked)
         /\ (Len(Asked) = 0 <=> Asked = <<>>)
         /\ \A p, q \in Places : Asked[p] = Asked[q] => p = q
<1>1. CASE kind = "fingerprint"
  BY <1>1 DEF Asked, Sources, Places
<1>2. CASE kind = "address"
  <2>1. /\ Len(Asked) = 3 /\ Places = 1..3
        /\ Asked[1] = "direct" /\ Asked[2] = "advanced" /\ Asked[3] = "by-email"
    BY <1>2 DEF Asked, Sources, Places
  <2> QED BY <2>1, <1>2 DEF Asked, Sources
<1>3. CASE kind = "neither"
  BY <1>3 DEF Asked, Sources, Places
<1> QED BY <1>1, <1>2, <1>3 DEF Sources

LEMMA FetchInitInv == FetchInit => FInv
<1> SUFFICES ASSUME FetchInit PROVE FInv
  OBVIOUS
<1>1. IInv
  BY InitInv DEF FetchInit
<1>2. kind \in DOMAIN Sources
  BY DEF FetchInit
<1>3. FetchTypeOK
  <2>1. at \in Places \/ stage = "error"
    BY <1>2, PlacesOf DEF FetchInit
  <2>2. stage \in {"ask", "error"} /\ sent = {} /\ refused = {} /\ late \in BOOLEAN
    BY DEF FetchInit
  <2> QED BY <1>1, <1>2, <2>1, <2>2 DEF FetchTypeOK, IInv
<1>4. SentInTurn /\ SourcesHaveTheirSay
  <2>1. \A p \in Places : ~Passed(p)
    BY <1>2, PlacesOf DEF FetchInit, Passed
  <2> QED BY <2>1 DEF FetchInit, SentInTurn, SourcesHaveTheirSay
<1> QED BY <1>1, <1>3, <1>4 DEF FInv

\* A ring that has just been read is a state in which the loop may begin.
LEMMA BeginInv ==
  ASSUME NEW i \in SUBSET Idents, NEW a \in [Idents -> Addresses \cup {NoAddr}],
         NEW f \in SUBSET i, NEW s \in SUBSET i, Begin(i, a, f, s)
  PROVE  IInv'
<1>1. Init'
  BY DEF Begin, Init
<1> QED BY <1>1, InitInv, PTL

\* Going on to the next source, of those that had no say only late.
LEMMA NextInv ==
  ASSUME FInv, stage \in {"ask", "wait", "body", "read"}, NextSource, IInv',
         UNCHANGED <<kind, late, sent>>,
         refused' \subseteq sent, refused \subseteq refused',
         Asked[at] \in refused' \/ late
  PROVE  FInv'
<1>1. Asked' = Asked /\ Places' = Places
  BY DEF Asked, Places
<1>2. /\ Len(Asked) \in Nat /\ Places = 1..Len(Asked) /\ at \in Places
      /\ late \in BOOLEAN /\ kind \in DOMAIN Sources
  BY PlacesOf DEF FInv, FetchTypeOK
<1>3. /\ stage' \in {"ask", "error"} /\ at' \in Places /\ at <= at'
      /\ \A p \in Places : Passed(p)' => p <= at
  <2>1. CASE at < Len(Asked)
    BY <1>2, <2>1 DEF NextSource, Passed
  <2>2. CASE ~(at < Len(Asked))
    BY <1>2, <2>2 DEF NextSource, Passed
  <2> QED BY <2>1, <2>2
<1>4. FetchTypeOK'
  BY <1>1, <1>2, <1>3 DEF FInv, FetchTypeOK, IInv
<1>5. SentInTurn'
  BY <1>1, <1>2, <1>3 DEF FInv, SentInTurn
<1>6. SourcesHaveTheirSay'
  <2> SUFFICES ASSUME NEW p \in Places, Passed(p)', Asked[p] \notin refused'
               PROVE  late /\ \A q \in Places : q > p => Asked[q] \notin sent
    BY <1>1 DEF SourcesHaveTheirSay
  <2>1. CASE p = at
    BY <1>2, <2>1 DEF FInv, SentInTurn
  <2>2. CASE p < at
    BY <2>2 DEF FInv, SourcesHaveTheirSay, Passed
  <2> QED BY <1>2, <1>3, <2>1, <2>2
<1> QED BY <1>4, <1>5, <1>6 DEF FInv

\* A step that leaves the source at hand where it is.
LEMMA StayInv ==
  ASSUME FInv, IInv', UNCHANGED <<kind, at, refused>>,
         late' \in BOOLEAN, late => late',
         stage \in {"ask", "wait", "body", "read"},
         stage' \in {"ask", "wait", "body", "read", "found"},
         \/ sent' = sent /\ (stage' \in {"wait", "body", "read"} => stage # "ask")
         \/ sent' = sent \cup {Asked[at]} /\ ~late
  PROVE  FInv'
<1>1. Asked' = Asked /\ Places' = Places
  BY DEF Asked, Places
<1>2. /\ Len(Asked) \in Nat /\ Places = 1..Len(Asked) /\ at \in Places
      /\ late \in BOOLEAN /\ kind \in DOMAIN Sources
      /\ \A p, q \in Places : Asked[p] = Asked[q] => p = q
  BY PlacesOf DEF FInv, FetchTypeOK
<1>3. \A p \in Places : Passed(p)' <=> Passed(p)
  BY DEF Passed
<1>4. FetchTypeOK'
  BY <1>1, <1>2 DEF FInv, FetchTypeOK, IInv
<1>5. SentInTurn'
  BY <1>1, <1>2 DEF FInv, SentInTurn
<1>6. SourcesHaveTheirSay'
  BY <1>1, <1>3 DEF FInv, SourcesHaveTheirSay
<1> QED BY <1>4, <1>5, <1>6 DEF FInv

LEMMA FetchStepInv == FInv /\ [FetchNext]_allVars => FInv'
<1> SUFFICES ASSUME FInv, [FetchNext]_allVars PROVE FInv'
  OBVIOUS
<1>0. /\ IInv /\ FetchTypeOK /\ late \in BOOLEAN
      /\ Asked[at] \in sent \/ stage \notin {"wait", "body", "read"}
      /\ refused \subseteq sent
  BY DEF FInv, FetchTypeOK, SentInTurn
<1>1. CASE Expired \/ Refuse \/ BodyFails
  <2>1. IInv'
    BY <1>0, <1>1, StepInv DEF Expired, Refuse, BodyFails
  <2> QED BY <1>0, <1>1, <2>1, NextInv DEF Expired, Refuse, BodyFails, Refused
<1>2. CASE Unusable
  <2>1. IInv'
    BY <1>2, BeginInv DEF Unusable
  <2> QED BY <1>0, <1>2, <2>1, NextInv DEF Unusable, Refused
<1>3. CASE GetOneStep
  <2>1. IInv'
    BY <1>0, <1>3, StepInv DEF GetOneStep
  <2> QED BY <1>0, <1>3, <2>1, StayInv DEF GetOneStep, fetch
<1>4. CASE ReadKey
  <2>1. PICK i \in SUBSET Idents :
          \E names \in [i -> Addresses \cup {NoAddr}] : \E f, s \in SUBSET i :
            Begin(i, [j \in Idents |-> IF j \in i THEN names[j] ELSE NoAddr],
                  f, s)
    BY <1>4 DEF ReadKey
  <2> PICK names \in [i -> Addresses \cup {NoAddr}], f \in SUBSET i,
           s \in SUBSET i :
        Begin(i, [j \in Idents |-> IF j \in i THEN names[j] ELSE NoAddr], f, s)
    BY <2>1
  <2>2. [j \in Idents |-> IF j \in i THEN names[j] ELSE NoAddr]
          \in [Idents -> Addresses \cup {NoAddr}]
    OBVIOUS
  <2>3. IInv'
    BY <2>2, BeginInv
  <2> QED BY <1>0, <1>4, <2>3, StayInv DEF ReadKey
<1>5. CASE Found \/ Send \/ Respond \/ Deadline
  <2>1. UNCHANGED vars /\ IInv'
    BY <1>0, <1>5, StepInv DEF Found, Send, Respond, Deadline
  <2> QED BY <1>0, <1>5, <2>1, StayInv DEF Found, Send, Respond, Deadline
<1>6. CASE UNCHANGED allVars
  <2>1. UNCHANGED vars /\ UNCHANGED fetch
    BY <1>6 DEF allVars
  <2>2. IInv' /\ Asked' = Asked /\ Places' = Places
    BY <1>0, <2>1, StepInv DEF fetch, Asked, Places
  <2> QED BY <1>0, <2>1, <2>2
          DEF FInv, FetchTypeOK, SentInTurn, SourcesHaveTheirSay, Passed, IInv, fetch
<1> QED BY <1>1, <1>2, <1>3, <1>4, <1>5, <1>6 DEF FetchNext, ClientStep

\* The invariant of GetKey: that of the loop of GetOne (entity.go:47-80) for
\* the ring being read, and the record of the sources (util.go:22-41).
THEOREM FetchInvariant == FetchSpec => []FInv
  BY FetchInitInv, FetchStepInv, PTL DEF FetchSpec

\* The search and the entity under construction keep their types.
THEOREM FetchTypeCorrect == FetchSpec => []FetchTypeOK
<1>1. FInv => FetchTypeOK
  BY DEF FInv
<1> QED BY <1>1, FetchInvariant, PTL

\* util.go:22-55: no source is passed over in favour of a later one, for any ids,
\* keys and answers: what came before the key that is found had no key to give,
\* and when the time is up nobody else is asked.
THEOREM SourcesSound == FetchSpec => []SourcesHaveTheirSay
<1>1. FInv => SourcesHaveTheirSay
  BY DEF FInv
<1> QED BY <1>1, FetchInvariant, PTL

\* What GetOne returns for the ring of any source: the primary address is that
\* of a flagged identity if there is one.
THEOREM FetchedFlagSound == FetchSpec => []PrimaryIsFlagged
<1>1. FInv => PrimaryIsFlagged
  BY DEF FInv, IInv, PrimaryIsFlagged
<1> QED BY <1>1, FetchInvariant, PTL

\* The proofs are those of all signed identities of the ring that was found, and
\* none of a ring that was given up before it.
THEOREM FetchedProofsSound == FetchSpec => []ProofsAreAll
<1>1. FInv => ProofsAreAll
  BY DEF FInv, IInv, ProofsAreAll, ProofsSoFar, Visited, TypeOK
<1> QED BY <1>1, FetchInvariant, PTL

\* An address that is lost has been Primary.
THEOREM FetchedLossSound == FetchSpec => []LostWasPrimary
<1>1. FInv => LostWasPrimary
  BY DEF FInv, IInv, LostWasPrimary, NamesSoFar, Visited
<1> QED BY <1>1, FetchInvariant, PTL

-----------------------------------------------------------------------------
(* How far the search has come.  FetchEnds itself needs the fairness of     *)
(* FetchSpec; that no step leads back holds without it, and it is what makes *)
(* each of the steps that fairness grants count.                            *)

Searching == stage \in {"ask", "wait", "body", "read"}

Stages == [ask |-> 0, wait |-> 1, body |-> 2, read |-> 3, found |-> 4, error |-> 4]

\* The loop of GetOne visits an identity, or is left.
ReadsOn ==
  \/ pc' = pc /\ left' \subseteq left /\ left' # left
  \/ pc = "loop" /\ pc' # "loop" /\ left' = left

\* The time of the task runs out, or the next source is asked, or this one is
\* further on, or there is less of its ring to read.
Advances ==
  /\ Searching
  /\ \/ ~late /\ late' /\ at' = at /\ stage' = stage /\ left' = left /\ pc' = pc
     \/ /\ late' = late
        /\ \/ at' = at + 1 /\ stage' = "ask" /\ at' \in Places
           \/ at' = at /\ Stages[stage'] > Stages[stage]
           \/ at' = at /\ stage' = stage /\ stage = "read" /\ ReadsOn

LEMMA NextAdvances ==
  ASSUME FetchTypeOK, Searching, NextSource, UNCHANGED <<kind, late>>
  PROVE  Advances
<1>1. Len(Asked) \in Nat /\ Places = 1..Len(Asked) /\ at \in Places
  BY PlacesOf DEF FetchTypeOK, Searching
<1>2. CASE at < Len(Asked)
  BY <1>1, <1>2 DEF NextSource, Advances
<1>3. CASE ~(at < Len(Asked))
  <2>1. at' = at /\ stage' = "error"
    BY <1>3 DEF NextSource
  <2>2. Stages["error"] > Stages[stage]
    BY DEF Stages, Searching
  <2> QED BY <2>1, <2>2 DEF Advances
<1> QED BY <1>2, <1>3

LEMMA GetOneAdvances ==
  ASSUME FInv, GetOneStep
  PROVE  Advances
<1>1. UNCHANGED fetch /\ stage = "read"
  BY DEF GetOneStep
<1>2. CASE \E i \in Idents : Visit(i)
  BY <1>1, <1>2 DEF Visit, Advances, Searching, ReadsOn, fetch
<1>3. CASE (\E i \in Idents : Fail(i)) \/ Done
  BY <1>1, <1>3 DEF Fail, Done, Advances, Searching, ReadsOn, fetch
<1> QED BY <1>2, <1>3 DEF GetOneStep, Next

LEMMA FetchStepAdvances == FInv /\ [FetchNext]_allVars => [Advances]_allVars
<1> SUFFICES ASSUME FInv, FetchNext PROVE Advances
  OBVIOUS
<1>1. FetchTypeOK /\ late \in BOOLEAN
  BY DEF FInv, FetchTypeOK
<1>2. CASE Expired \/ Refuse \/ BodyFails \/ Unusable
  BY <1>1, <1>2, NextAdvances
     DEF Expired, Refuse, BodyFails, Unusable, Refused, Searching
<1>3. CASE GetOneStep
  BY <1>3, GetOneAdvances
<1>4. CASE Found \/ Send \/ Respond \/ ReadKey
  <2>1. at' = at /\ late' = late /\ Searching
    BY <1>4 DEF Found, Send, Respond, ReadKey, Searching
  <2>2. Stages[stage'] > Stages[stage]
    BY <1>4 DEF Found, Send, Respond, ReadKey, Stages
  <2> QED BY <2>1, <2>2 DEF Advances
<1>5. CASE Deadline
  BY <1>5 DEF Deadline, Advances, Searching, vars
<1> QED BY <1>2, <1>3, <1>4, <1>5 DEF FetchNext, ClientStep

\* The safety half of FetchEnds (util.go:22-41): no step of GetKey leads back.
\* Each one uses up the time of the task, or goes on to the next of the sources,
\* or gets further with the one at hand, or leaves less of its ring to be read;
\* and a search that has ended takes no step at all.
THEOREM SearchOnlyAdvances == FetchSpec => [][Advances]_allVars
  BY FetchInvariant, FetchStepAdvances, PTL DEF FetchSpec
=============================================================================
