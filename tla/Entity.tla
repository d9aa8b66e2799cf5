------------------------------- MODULE Entity -------------------------------
(***************************************************************************)
(* pkg/opgp/entity: GetOne makes an entity of the first usable key of a    *)
(* ring.  It ranges over the identities of the key, which are in a Go map: *)
(* every call may see them in another order.                               *)
(***************************************************************************)
EXTENDS Naturals, FiniteSets

CONSTANTS
  Idents,     \* identities, numbered in the order the key has them
  Addresses,  \* what mail.ParseAddress may give
  NoAddr, Nobody

ASSUME EntityAssumption ==
  /\ Idents \subseteq Nat \ {0}
  /\ Nobody \notin Addresses /\ NoAddr \notin Addresses
  /\ NoAddr # Nobody

VARIABLES
  ids,       \* the identities of the key, none when the ring has no key
  addr,      \* addr[i]: the address in the name of identity i, or NoAddr
  flagged,   \* identities whose self signature says that they are primary
  signed,    \* identities whose self signature has notations
  left,      \* identities the loop has still to visit
  primary,   \* Entity.Primary
  emails,    \* Entity.Emails
  sig,       \* the identity that Entity.SelfSignature is of, 0 for nil
  proofs,    \* the identities whose proofs are in Entity.Proofs
  pc,        \* "loop", "done" or "error"
  picked     \* history: the addresses that were Primary for some time

key  == <<ids, addr, flagged, signed>>
vars == <<key, left, primary, emails, sig, proofs, pc, picked>>

TypeOK ==
  /\ ids \subseteq Idents
  /\ addr \in [Idents -> Addresses \cup {NoAddr}]
  /\ flagged \subseteq ids /\ signed \subseteq ids
  /\ left \subseteq ids
  /\ primary \in Addresses \cup {NoAddr, Nobody}
  /\ emails \subseteq Addresses
  /\ sig \in ids \cup {0}
  /\ proofs \subseteq ids
  /\ pc \in {"loop", "done", "error"}
  /\ picked \subseteq Addresses

Init ==
  /\ ids \in SUBSET Idents
  /\ addr \in [Idents -> Addresses \cup {NoAddr}]
  /\ flagged \in SUBSET ids
  /\ signed \in SUBSET ids
  /\ left = ids
  /\ primary = NoAddr /\ emails = {} /\ sig = 0 /\ proofs = {}
  /\ pc = "loop" /\ picked = {}

-----------------------------------------------------------------------------
(* Faults: forms that a definition below would take after a slip in the    *)
(* code.  No specification uses them; the properties tell them apart.      *)

\* The first identity is always taken.
PrimaryFirst(i) == IF primary = NoAddr THEN addr[i] ELSE primary

\* An identity is not looked at for proofs when it is the primary one.
ReadOthers(i) ==
  IF i \in signed \ flagged
  THEN sig' = i /\ proofs' = proofs \cup {i}
  ELSE UNCHANGED <<sig, proofs>>

\* Only signed identities get into Emails.
OtherSigned(i) ==
  IF i \in flagged \/ i \notin signed THEN {} ELSE {addr[i]}

\* The name is stored as it is, without parsing the address.
PrimaryRaw(i) == i

-----------------------------------------------------------------------------
(* The loop over the identities *)

\* The first identity of the loop, or one that is flagged.
PrimaryWith(i) ==
  IF primary = NoAddr \/ i \in flagged THEN addr[i] ELSE primary

\* What visiting i adds to Emails.
OtherWith(i) ==
  IF i \in flagged THEN {} ELSE {addr[i]} \ {PrimaryWith(i)}

ReadNotations(i) ==
  IF i \in signed
  THEN sig' = i /\ proofs' = proofs \cup {i}
  ELSE UNCHANGED <<sig, proofs>>

Visit(i) ==
  /\ pc = "loop" /\ i \in left
  /\ addr[i] # NoAddr
  /\ left' = left \ {i}
  /\ primary' = PrimaryWith(i)
  /\ emails' = emails \cup OtherWith(i)
  /\ ReadNotations(i)
  /\ picked' = picked \cup {primary'}
  /\ UNCHANGED <<key, pc>>

\* The name of the identity has no address: GetOne returns the error.
Fail(i) ==
  /\ pc = "loop" /\ i \in left
  /\ addr[i] = NoAddr
  /\ pc' = "error"
  /\ UNCHANGED <<key, left, primary, emails, sig, proofs, picked>>

Done ==
  /\ pc = "loop" /\ left = {}
  /\ pc' = "done"
  /\ primary' = IF primary = NoAddr THEN Nobody ELSE primary
  /\ UNCHANGED <<key, left, emails, sig, proofs, picked>>

Next == (\E i \in Idents : Visit(i) \/ Fail(i)) \/ Done

Spec == Init /\ [][Next]_vars

-----------------------------------------------------------------------------
(* Properties *)

\* Whatever the order: an identity that is marked primary gives the primary
\* address when there is one (entity.go:55-61), so that a key with one such
\* identity has always the same name.
PrimaryIsFlagged ==
  pc = "done" => IF flagged # {} THEN \E i \in flagged : primary = addr[i]
                 ELSE IF ids # {} THEN \E i \in ids : primary = addr[i]
                 ELSE primary = Nobody

\* Whatever the order: the proofs are those of all signed identities, and there
\* is a self signature exactly if there are notations (entity.go:72-79).
ProofsAreAll ==
  pc = "done" => proofs = signed /\ (sig = 0 <=> signed = {})

\* Whatever the order: an error if and only if some name has no address
\* (entity.go:49-67).
ErrorNeedsBadName ==
  /\ pc = "error" => \E i \in ids : addr[i] = NoAddr
  /\ pc = "done" => \A i \in ids : addr[i] # NoAddr

\* Whatever the order: an address that is in neither Primary nor Emails was
\* Primary before a flagged identity took its place (entity.go:49-69 does not
\* put it back).
LostWasPrimary ==
  pc = "done" =>
    \A i \in ids : addr[i] \in emails \cup picked
=============================================================================
