-------------------------- MODULE ProofCheckProofs --------------------------
(***************************************************************************)
(* Proofs about ProofCheck, for any set of URIs with paths of any length.  *)
(***************************************************************************)
EXTENDS ProofCheck, TLAPS

\* Which resolver is at work, for which kind of URI.
Resolver ==
  /\ pc \in {"http", "scan", "users", "projects", "twts"} =>
       Supported(uri) /\ heard = "all"
  /\ pc \in {"users", "projects"} => IsGitlab(uri) /\ status = "Invalid"
  /\ pc = "twts" => IsTwtxt(uri) /\ status = "Invalid"
  /\ pc = "panic" => Supported(uri) /\ Overruns(uri)

\* What the task knows of the account was true at some moment of the check.
Witnessed ==
  /\ posted \in was
  /\ pc = "scan" => has \in was
  /\ pc = "resolve" /\ status = "Verified" => TRUE \in was
  /\ pc = "resolve" /\ status = "Invalid" /\ heard = "all" => FALSE \in was

\* What Resolve is about to store.
Outcome ==
  pc = "resolve" =>
    /\ status = "Error" => heard = "none"
    /\ heard = "none" => status = "Error" \/ IsGitlab(uri) \/ IsTwtxt(uri)
    /\ status = "Checking" <=> ~Supported(uri)

IInv ==
  /\ TypeOK /\ Resolver /\ Witnessed /\ Outcome
  /\ VerdictIsOfItsCheck /\ FailureIsNoVerdict /\ CheckingIsUnsupported

\* Only dev.to is matched with fewer pieces than it uses.
LEMMA DevToOverruns ==
  ASSUME NEW u \in Forms, Supported(u), Overruns(u)
  PROVE  u.host = "devto" /\ u.parts = 2
<1> DEFINE c == HttpsCase(u)
<1>1. u.parts \in Nat
  BY DEF Forms
<1>2. /\ u.host = "devto" => c = Case(3, 2, 2)
      /\ u.host # "devto" =>
           c \in {Case(3, 2, 1), Case(1, 1, 0), Case(6, 6, 5), Case(3, 3, 2),
                 Case(3, 3, 1)}
  <2>1. u.host # "any" => c = HostCase[u.host]
    BY DEF HttpsCase
  <2>2. u.host = "any" => c = PathCase[u.path]
    BY DEF HttpsCase
  <2>3. /\ u.host \in {"twitter", "hackernews", "devto", "reddit", "gist",
                       "lobsters", "any"}
        /\ u.path \in {"gitlab_proof", "gitea_proof", "conv", "twt", "any"}
    BY DEF Forms
  <2>4. u.host = "any" => c \in {Case(3, 2, 1), Case(3, 3, 1), Case(3, 3, 2)}
    BY <2>2, <2>3 DEF PathCase
  <2> QED BY <2>1, <2>3, <2>4 DEF HostCase
<1>3. c.least <= Pieces(u) /\ Pieces(u) <= c.last
  <2>1. ~(Pieces(u) < c.least) /\ Pieces(u) <= c.last
    BY DEF Supported, Overruns, TooShort
  <2>2. Pieces(u) \in Nat /\ c.least \in Nat
    BY <1>1, <1>2 DEF Pieces, Least, Case
  <2> QED BY <2>1, <2>2
<1>4. u.host = "devto" /\ c = Case(3, 2, 2)
  <2>1. u.host # "devto" => ~(c.least <= c.last)
    BY <1>2 DEF Case
  <2>2. Pieces(u) \in Nat /\ c.least \in Nat /\ c.last \in Nat
    BY <1>1, <1>2 DEF Pieces, Least, Case
  <2> QED BY <1>2, <1>3, <2>1, <2>2
<1>5. Least(u.parts, 3) = 2
  BY <1>1, <1>3, <1>4 DEF Pieces, Case, Least
<1> QED BY <1>1, <1>4, <1>5 DEF Least

LEMMA InitInv == Init => IInv
  BY ProofCheckAssumption
     DEF Init, IInv, TypeOK, Item, Statuses, Resolver, Witnessed, Outcome,
         VerdictIsOfItsCheck, FailureIsNoVerdict, CheckingIsUnsupported

\* Where the task goes from here, with what.
LEMMA CheckInv == ASSUME IInv, Check PROVE IInv'
<1>1. /\ UNCHANGED <<uri, posted, cached>> /\ cached = None
      /\ has' = FALSE /\ heard' = "all" /\ was' = {posted}
      /\ \/ pc' = "resolve" /\ status' = "Checking" /\ ~Supported(uri)
         \/ pc' = "panic" /\ status' = "Checking" /\ Supported(uri) /\ Overruns(uri)
         \/ pc' = "users" /\ status' = "Invalid" /\ Supported(uri) /\ IsGitlab(uri)
         \/ pc' = "twts" /\ status' = "Invalid" /\ Supported(uri) /\ IsTwtxt(uri)
         \/ pc' = "http" /\ status' = "Checking" /\ Supported(uri)
      /\ at' \in {None, BaseUrl, Remote}
  BY DEF Check, Target
<1>2. TypeOK'
  BY <1>1 DEF IInv, TypeOK, Item, Statuses
<1>3. Resolver' /\ Witnessed' /\ Outcome'
  BY <1>1 DEF Resolver, Witnessed, Outcome, Supported, IsGitlab, IsTwtxt,
              Overruns
<1>4. VerdictIsOfItsCheck' /\ FailureIsNoVerdict' /\ CheckingIsUnsupported'
  BY <1>1 DEF VerdictIsOfItsCheck, FailureIsNoVerdict, CheckingIsUnsupported
<1> QED BY <1>2, <1>3, <1>4 DEF IInv

\* The steps of the resolvers: the cache stays as it is.
LEMMA ResolverInv ==
  ASSUME IInv, HttpFails \/ HttpOpens \/ ScanMatch \/ ScanEnds \/ Users
                 \/ Projects \/ Twts \/ Crash
  PROVE  IInv'
<1>1. UNCHANGED <<uri, posted, cached, was>>
  BY DEF HttpFails, HttpOpens, ScanMatch, ScanEnds, Users, Projects, Twts,
         Crash, taskVars
<1>2. TypeOK'
  BY <1>1 DEF HttpFails, HttpOpens, ScanMatch, ScanEnds, Users, Projects, Twts,
              Crash, Answer, Goto, taskVars, IInv, TypeOK, Item, Statuses
<1>3. Resolver' /\ Outcome'
  <2>1. Resolver' /\ (pc' = "resolve" => Supported(uri))
    BY <1>1 DEF HttpFails, HttpOpens, ScanMatch, ScanEnds, Users, Projects,
                Twts, Crash, Answer, Goto, taskVars, IInv, Resolver
  <2>2. pc' = "resolve" =>
          /\ status' \in {"Error", "Invalid", "Verified"}
          /\ status' = "Error" => heard' = "none"
          /\ heard' = "none" =>
               status' = "Error" \/ IsGitlab(uri) \/ IsTwtxt(uri)
    BY DEF HttpFails, HttpOpens, ScanMatch, ScanEnds, Users, Projects, Twts,
           Crash, Answer, Goto, taskVars, IInv, Resolver
  <2> QED BY <1>1, <2>1, <2>2 DEF Outcome
<1>4. Witnessed'
  BY <1>1 DEF HttpFails, HttpOpens, ScanMatch, ScanEnds, Users, Projects, Twts,
              Crash, Answer, Goto, taskVars, IInv, TypeOK, Resolver, Witnessed
<1>5. VerdictIsOfItsCheck' /\ FailureIsNoVerdict' /\ CheckingIsUnsupported'
  BY <1>1 DEF IInv, VerdictIsOfItsCheck, FailureIsNoVerdict,
              CheckingIsUnsupported
<1> QED BY <1>2, <1>3, <1>4, <1>5 DEF IInv

LEMMA ResolveInv == ASSUME IInv, Resolve PROVE IInv'
<1>1. /\ pc = "resolve" /\ pc' = "idle"
      /\ UNCHANGED <<uri, posted, status, at, has, heard, was>>
      /\ cached' = [status |-> status, heard |-> heard, was |-> was]
  BY DEF Resolve, Goto, taskVars
<1>2. TypeOK'
  BY <1>1 DEF IInv, TypeOK
<1>3. Resolver' /\ Witnessed' /\ Outcome'
  BY <1>1 DEF IInv, Resolver, Witnessed, Outcome
<1>4. VerdictIsOfItsCheck' /\ FailureIsNoVerdict' /\ CheckingIsUnsupported'
  BY <1>1 DEF IInv, Witnessed, Outcome, VerdictIsOfItsCheck,
              FailureIsNoVerdict, CheckingIsUnsupported
<1> QED BY <1>2, <1>3, <1>4 DEF IInv

\* The cache and the account change under the task.
LEMMA OutsideInv == ASSUME IInv, Expire \/ Publish PROVE IInv'
<1>1. /\ UNCHANGED <<uri, pc, status, at, has, heard>>
      /\ was' \in {was, was \cup {posted'}} /\ cached' \in {cached, None}
      /\ posted' \in BOOLEAN /\ posted' \in was'
  BY DEF Expire, Publish, taskVars, IInv, TypeOK, Witnessed
<1>2. TypeOK'
  BY <1>1 DEF IInv, TypeOK, Item
<1>3. Resolver' /\ Witnessed' /\ Outcome'
  BY <1>1 DEF IInv, Resolver, Witnessed, Outcome
<1>4. VerdictIsOfItsCheck' /\ FailureIsNoVerdict' /\ CheckingIsUnsupported'
  BY <1>1 DEF IInv, VerdictIsOfItsCheck, FailureIsNoVerdict,
              CheckingIsUnsupported
<1> QED BY <1>2, <1>3, <1>4 DEF IInv

LEMMA StepInv == IInv /\ [Next]_vars => IInv'
<1> SUFFICES ASSUME IInv, [Next]_vars PROVE IInv'
  OBVIOUS
<1>1. CASE UNCHANGED vars
  <2>1. UNCHANGED <<uri, posted, pc, status, at, has, heard, was, cached>>
    BY <1>1 DEF vars, taskVars
  <2>2. TypeOK'
    BY <2>1 DEF IInv, TypeOK, Item
  <2>3. Resolver' /\ Witnessed' /\ Outcome'
    BY <2>1 DEF IInv, Resolver, Witnessed, Outcome
  <2>4. VerdictIsOfItsCheck' /\ FailureIsNoVerdict' /\ CheckingIsUnsupported'
    BY <2>1 DEF IInv, VerdictIsOfItsCheck, FailureIsNoVerdict,
                CheckingIsUnsupported
  <2> QED BY <2>2, <2>3, <2>4 DEF IInv
<1> QED BY <1>1, CheckInv, ResolverInv, ResolveInv, OutsideInv DEF Next, TaskStep

\* The invariant of the task (proofs.go:60-406).
THEOREM TaskInvariant == Spec => []IInv
  BY InitInv, StepInv, PTL DEF Spec

\* Every field keeps its type.
THEOREM TypeCorrect == Spec => []TypeOK
<1>1. IInv => TypeOK
  BY DEF IInv
<1> QED BY <1>1, TaskInvariant, PTL

\* A verdict in the cache was true at some moment of its check, however often
\* the account changes (proofs.go:285-365, 399-406).
THEOREM VerdictSound == Spec => []VerdictIsOfItsCheck
<1>1. IInv => VerdictIsOfItsCheck
  BY DEF IInv
<1> QED BY <1>1, TaskInvariant, PTL

\* A failed request becomes no verdict, gitlab and twtxt apart.
THEOREM FailureSound == Spec => []FailureIsNoVerdict
<1>1. IInv => FailureIsNoVerdict
  BY DEF IInv
<1> QED BY <1>1, TaskInvariant, PTL

\* Checking stays in the cache exactly for URIs without a resolver.
THEOREM CheckingSound == Spec => []CheckingIsUnsupported
<1>1. IInv => CheckingIsUnsupported
  BY DEF IInv
<1> QED BY <1>1, TaskInvariant, PTL

\* Whatever the number of segments of a path, only that of dev.to is indexed
\* beyond its end (proofs.go:110-230).
THEOREM OverrunSound == Spec => []OverrunsOnlyForDevTo
<1>1. IInv => OverrunsOnlyForDevTo
  BY DevToOverruns, ProofCheckAssumption
     DEF IInv, TypeOK, Resolver, OverrunsOnlyForDevTo
<1> QED BY <1>1, TaskInvariant, PTL
=============================================================================
