---------------------------- MODULE EntityProofs ----------------------------
(***************************************************************************)
(* Proofs about Entity, for keys with any number of identities.            *)
(***************************************************************************)
EXTENDS Entity, TLAPS

Visited == ids \ left

\* What the loop knows about the identities it has visited: Primary is the
\* address of one of them, of a flagged one if there was one.
PrimarySoFar ==
  /\ Visited = {} => primary = NoAddr
  /\ Visited # {} =>
       /\ primary \in picked
       /\ \E i \in Visited : primary = addr[i]
       /\ Visited \cap flagged # {} =>
            \E i \in Visited \cap flagged : primary = addr[i]

ProofsSoFar ==
  /\ proofs = Visited \cap signed
  /\ sig = 0 <=> proofs = {}

NamesSoFar ==
  \A i \in Visited : addr[i] # NoAddr /\ addr[i] \in emails \cup picked

IInv ==
  /\ TypeOK
  /\ pc = "loop" => PrimarySoFar
  /\ ProofsSoFar
  /\ NamesSoFar
  /\ pc = "done" => left = {} /\ PrimaryIsFlagged
  /\ pc = "error" => \E i \in ids : addr[i] = NoAddr

LEMMA InitInv == Init => IInv
  BY EntityAssumption
     DEF Init, IInv, TypeOK, Visited, PrimarySoFar, ProofsSoFar, NamesSoFar,
         PrimaryIsFlagged

\* The type of what a visit assigns.
LEMMA VisitType ==
  ASSUME IInv, NEW i \in Idents, Visit(i)
  PROVE  /\ TypeOK'
         /\ Visited' = Visited \cup {i}
         /\ i \in ids /\ i \notin Visited
         /\ PrimaryWith(i) \in Addresses
         /\ addr[i] \in Addresses
<1>1. /\ addr[i] \in Addresses /\ i \in ids /\ i \in left
  BY DEF IInv, TypeOK, Visit
<1>2. primary # NoAddr => primary \in Addresses
  <2>1. SUFFICES ASSUME primary # NoAddr PROVE primary \in Addresses
    OBVIOUS
  <2>2. PICK j \in Visited : primary = addr[j]
    BY <2>1 DEF IInv, PrimarySoFar, Visit
  <2>3. j \in Idents
    BY <2>2 DEF Visited, IInv, TypeOK
  <2> QED BY <2>1, <2>2, <2>3 DEF IInv, TypeOK
<1>3. PrimaryWith(i) \in Addresses
  BY <1>1, <1>2 DEF PrimaryWith
<1>4. /\ UNCHANGED key /\ left' = left \ {i} /\ primary' = PrimaryWith(i)
      /\ emails' = emails \cup OtherWith(i) /\ UNCHANGED pc
      /\ picked' = picked \cup {primary'} /\ ReadNotations(i)
  BY DEF Visit
<1>5. OtherWith(i) \subseteq Addresses
  BY <1>1 DEF OtherWith
<1>6. sig' \in ids' \cup {0} /\ proofs' \subseteq ids'
  BY <1>1, <1>4 DEF ReadNotations, key, IInv, TypeOK
<1>7. TypeOK'
  BY <1>1, <1>3, <1>4, <1>5, <1>6 DEF IInv, TypeOK, key
<1>8. Visited' = Visited \cup {i}
  BY <1>1, <1>4 DEF Visited, key
<1> QED BY <1>1, <1>3, <1>7, <1>8 DEF Visited

LEMMA VisitInv ==
  ASSUME IInv, NEW i \in Idents, Visit(i)
  PROVE  IInv'
<1>1. /\ TypeOK' /\ Visited' = Visited \cup {i}
      /\ i \in ids /\ i \notin Visited
      /\ PrimaryWith(i) \in Addresses /\ addr[i] \in Addresses
  BY VisitType
<1>2. /\ UNCHANGED <<ids, addr, flagged, signed>> /\ primary' = PrimaryWith(i)
      /\ emails' = emails \cup OtherWith(i) /\ pc' = pc /\ pc = "loop"
      /\ picked' = picked \cup {primary'} /\ ReadNotations(i)
  BY DEF Visit, key
<1>3. PrimarySoFar /\ ProofsSoFar /\ NamesSoFar
  BY <1>2 DEF IInv
<1>4. NoAddr \notin Addresses
  BY EntityAssumption
<1>5. PrimarySoFar'
  <2>1. CASE primary = NoAddr \/ i \in flagged
    <3>1. primary' = addr[i]
      BY <1>2, <2>1 DEF PrimaryWith
    <3>2. i \notin flagged => Visited = {}
      <4>1. SUFFICES ASSUME i \notin flagged, Visited # {} PROVE FALSE
        OBVIOUS
      <4>2. \E j \in Visited : primary = addr[j]
        BY <1>3, <4>1 DEF PrimarySoFar
      <4> QED BY <2>1, <4>1, <4>2, <1>3 DEF NamesSoFar
    <3> QED BY <1>1, <1>2, <3>1, <3>2 DEF PrimarySoFar
  <2>2. CASE primary # NoAddr /\ i \notin flagged
    <3>1. primary' = primary /\ Visited # {}
      BY <1>2, <1>3, <2>2 DEF PrimaryWith, PrimarySoFar
    <3> QED BY <1>1, <1>2, <1>3, <2>2, <3>1 DEF PrimarySoFar
  <2> QED BY <2>1, <2>2
<1>6. ProofsSoFar'
  <2>1. i # 0
    BY EntityAssumption
  <2>2. CASE i \in signed
    BY <1>1, <1>2, <1>3, <2>1, <2>2 DEF ReadNotations, ProofsSoFar
  <2>3. CASE i \notin signed
    BY <1>1, <1>2, <1>3, <2>3 DEF ReadNotations, ProofsSoFar
  <2> QED BY <2>2, <2>3
<1>7. NamesSoFar'
  <2>1. addr[i] \in emails' \cup picked'
    <3>1. CASE primary = NoAddr \/ i \in flagged
      BY <1>2, <3>1 DEF PrimaryWith
    <3>2. CASE primary # NoAddr /\ i \notin flagged
      <4>1. addr[i] = primary \/ addr[i] \in OtherWith(i)
        BY <3>2 DEF OtherWith, PrimaryWith
      <4>2. primary' = primary
        BY <1>2, <3>2 DEF PrimaryWith
      <4> QED BY <1>2, <4>1, <4>2
    <3> QED BY <3>1, <3>2
  <2> QED BY <1>1, <1>2, <1>3, <1>4, <2>1 DEF NamesSoFar
<1> QED BY <1>1, <1>2, <1>5, <1>6, <1>7 DEF IInv

LEMMA FailInv ==
  ASSUME IInv, NEW i \in Idents, Fail(i)
  PROVE  IInv'
<1>1. /\ UNCHANGED <<ids, addr, flagged, signed, left, primary, emails, sig,
                     proofs, picked>>
      /\ pc' = "error" /\ addr[i] = NoAddr /\ i \in left
  BY DEF Fail, key
<1>2. TypeOK' /\ ProofsSoFar' /\ NamesSoFar' /\ i \in ids
  BY <1>1 DEF IInv, TypeOK, ProofsSoFar, NamesSoFar, Visited
<1> QED BY <1>1, <1>2 DEF IInv

LEMMA DoneInv ==
  ASSUME IInv, Done
  PROVE  IInv'
<1>1. /\ UNCHANGED <<ids, addr, flagged, signed, left, emails, sig, proofs,
                     picked>>
      /\ pc = "loop" /\ pc' = "done" /\ left = {}
      /\ primary' = IF primary = NoAddr THEN Nobody ELSE primary
  BY DEF Done, key
<1>2. TypeOK'
  BY <1>1 DEF IInv, TypeOK
<1>3. ProofsSoFar' /\ NamesSoFar' /\ Visited = ids
  BY <1>1 DEF IInv, ProofsSoFar, NamesSoFar, Visited
<1>4. PrimaryIsFlagged'
  <2>1. CASE ids = {}
    BY <1>1, <1>3, <2>1 DEF IInv, PrimarySoFar, PrimaryIsFlagged, TypeOK
  <2>2. CASE ids # {}
    <3>1. PICK j \in ids : primary = addr[j]
      BY <1>1, <1>3, <2>2 DEF IInv, PrimarySoFar
    <3>2. primary' = primary
      BY <1>1, <1>3, <3>1 DEF IInv, NamesSoFar
    <3>3. flagged # {} => \E i \in flagged : primary = addr[i]
      BY <1>1, <1>3, <2>2 DEF IInv, PrimarySoFar, TypeOK
    <3> QED BY <1>1, <2>2, <3>1, <3>2, <3>3 DEF PrimaryIsFlagged
  <2> QED BY <2>1, <2>2
<1> QED BY <1>1, <1>2, <1>3, <1>4 DEF IInv

LEMMA StepInv == IInv /\ [Next]_vars => IInv'
<1> SUFFICES ASSUME IInv, [Next]_vars PROVE IInv'
  OBVIOUS
<1>1. ASSUME NEW i \in Idents, Visit(i) PROVE IInv'
  BY <1>1, VisitInv
<1>2. ASSUME NEW i \in Idents, Fail(i) PROVE IInv'
  BY <1>2, FailInv
<1>3. CASE Done
  BY <1>3, DoneInv
<1>4. CASE UNCHANGED vars
  BY <1>4 DEF vars, key, IInv, TypeOK, PrimarySoFar, ProofsSoFar, NamesSoFar,
              Visited, PrimaryIsFlagged
<1> QED BY <1>1, <1>2, <1>3, <1>4 DEF Next

\* The invariant of the loop of GetOne (entity.go:47-80).
THEOREM LoopInvariant == Spec => []IInv
  BY InitInv, StepInv, PTL DEF Spec

\* Every field keeps its type, for every key.
THEOREM TypeCorrect == Spec => []TypeOK
<1>1. IInv => TypeOK
  BY DEF IInv
<1> QED BY <1>1, LoopInvariant, PTL

\* A flagged identity gives the primary address, in whatever order a key with
\* any number of identities is visited.
THEOREM FlagSound == Spec => []PrimaryIsFlagged
<1>1. IInv => PrimaryIsFlagged
  BY DEF IInv, PrimaryIsFlagged
<1> QED BY <1>1, LoopInvariant, PTL

\* GetOne collects the proofs of all signed identities, in whatever order.
THEOREM ProofsSound == Spec => []ProofsAreAll
<1>1. IInv => ProofsAreAll
  BY DEF IInv, ProofsAreAll, ProofsSoFar, Visited, TypeOK
<1> QED BY <1>1, LoopInvariant, PTL

\* GetOne fails exactly for keys with a name that has no address.
THEOREM ErrorSound == Spec => []ErrorNeedsBadName
<1>1. IInv => ErrorNeedsBadName
  BY DEF IInv, ErrorNeedsBadName, NamesSoFar, Visited
<1> QED BY <1>1, LoopInvariant, PTL

\* An address that GetOne loses has been Primary.
THEOREM LossSound == Spec => []LostWasPrimary
<1>1. IInv => LostWasPrimary
  BY DEF IInv, LostWasPrimary, NamesSoFar, Visited
<1> QED BY <1>1, LoopInvariant, PTL
=============================================================================
