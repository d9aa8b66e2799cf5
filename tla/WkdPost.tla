------------------------------ MODULE WkdPost ------------------------------
(***************************************************************************)
(* pkg/app/wkd, POST /pks/add: the handler looks for the key file of the   *)
(* address, compares what it finds with the key posted, and writes the     *)
(* file.  Handlers run concurrently, nothing is locked, and each of these  *)
(* is a system call of its own.  The process may crash and be restarted;   *)
(* the files stay.  A request whose body is no key changes nothing and is  *)
(* left out.                                                               *)
(***************************************************************************)
EXTENDS Naturals

CONSTANTS
  Posters,
  Addrs,
  Keys,      \* what can be posted, each a ring with one entity at most
  AddrOf,    \* AddrOf[k]: what entity.Primary.Address may be
  Fpr,       \* Fpr[k]: entity.Fingerprint, NoFpr when the ring is empty
  Made,      \* Made[k]: what entity.SelfSignature.CreationTime may be
  NoKey, NoFpr, NoTime, NoFile

ASSUME WkdPostAssumption ==
  /\ AddrOf \in [Keys -> (SUBSET Addrs) \ {{}}]
  /\ Made \in [Keys -> ((SUBSET Nat) \ {{}}) \cup {{NoTime}}]
  /\ NoTime \notin Nat
  /\ NoKey \notin Keys
  /\ NoFile \notin [whole : BOOLEAN, of : SUBSET Keys]
  /\ \A k \in Keys : Fpr[k] = NoFpr => Made[k] = {NoTime}

VARIABLES
  pc,      \* pc[p]: where poster p is
  req,     \* req[p]: the key it posts, and what GetOne has made of it
  file,    \* file[a]: the file of address a
  torn,    \* history: when p opened the file or later, another was writing it
  kept,    \* history, kept[a]: the last key that was in the file whole
  hurt,    \* history: a writer failed, or two wrote at once
  mixed    \* history: a poster that was torn has written to the file

vars == <<pc, req, file, torn, kept, hurt, mixed>>

\* GetOne goes over the identities of a key in the random order of a map: the
\* self signature is that of the last one with notations, the address that of
\* the first one or of the last one flagged.  Two readings of a key may differ.
Entities(k) == [key : {k}, to : AddrOf[k], made : Made[k]]
Posted == UNION {Entities(k) : k \in Keys}

\* A file holds one key whole, or parts of the keys in 'of'.
Contents == [whole : BOOLEAN, of : SUBSET Keys]
Whole(k) == [whole |-> TRUE, of |-> {k}]
Empty == [whole |-> FALSE, of |-> {}]
Parts(s) == [whole |-> FALSE, of |-> s]

TypeOK ==
  /\ pc \in [Posters -> {"idle", "open", "read", "create", "write", "rest"}]
  /\ req \in [Posters -> Posted]
  /\ file \in [Addrs -> Contents \cup {NoFile}]
  /\ \A a \in Addrs :
       file[a] # NoFile => \A k \in file[a].of : a \in AddrOf[k]
  /\ torn \in [Posters -> BOOLEAN]
  /\ kept \in [Addrs -> Keys \cup {NoKey}]
  /\ hurt \in [Addrs -> BOOLEAN]
  /\ mixed \in [Addrs -> BOOLEAN]

Init ==
  /\ pc = [p \in Posters |-> "idle"]
  /\ req \in [Posters -> Posted]
  /\ file = [a \in Addrs |-> NoFile]
  /\ torn = [p \in Posters |-> FALSE]
  /\ kept = [a \in Addrs |-> NoKey]
  /\ hurt = [a \in Addrs |-> FALSE]
  /\ mixed = [a \in Addrs |-> FALSE]

Addr(p) == req[p].to
Key(p) == req[p].key

Goto(p, from, to) ==
  /\ pc[p] = from
  /\ pc' = [pc EXCEPT ![p] = to]

\* Another poster is writing the file of p.
BeingWritten(p) ==
  \E q \in Posters \ {p} : Addr(q) = Addr(p) /\ pc[q] \in {"write", "rest"}

\* A fault: every path is the same file.
TouchAll(p, c) ==
  /\ file' = [a \in Addrs |-> c]
  /\ UNCHANGED <<torn, mixed>>

\* The file of p becomes c; whoever else has it open will notice or suffer.
Touch(p, c) ==
  /\ file' = [file EXCEPT ![Addr(p)] = c]
  /\ torn' = [q \in Posters |->
                torn[q] \/ (q # p /\ pc[q] # "idle" /\ Addr(q) = Addr(p))]
  /\ mixed' = [mixed EXCEPT ![Addr(p)] = @ \/ torn[p]]

\* What ReadKeyRing and GetOne make of the parts of key k: the entity with or
\* without the signature, no entity, or an error.
Views(k) == [fpr : {Fpr[k]}, made : Made[k]]
Unsigned(k) == [fpr |-> Fpr[k], made |-> NoTime]
NoEntity == [fpr |-> NoFpr, made |-> NoTime]
Unreadable == [fpr |-> NoFpr, made |-> 0]

PartViews(s) ==
  {NoEntity} \cup (IF s = {} THEN {} ELSE {Unreadable})
    \cup UNION {Views(k) \cup {Unsigned(k)} : k \in s}

Readings(p) ==
  LET f == file[Addr(p)]
  IN IF torn[p] THEN PartViews({k \in Keys : Addr(p) \in AddrOf[k]})
     ELSE IF f.whole THEN UNION {Views(k) : k \in f.of}
     ELSE PartViews(f.of)

-----------------------------------------------------------------------------
(* Faults: forms that a definition below would take after a slip in the    *)
(* code.  No specification uses them; the properties tell them apart.      *)

\* The fingerprints are not compared.
AcceptsAnyOwner(e, v) ==
  /\ v # Unreadable
  /\ e.made # NoTime /\ v.made # NoTime
  /\ v.made < e.made

\* A file without a key is taken for a missing one.
AcceptsEmpty(e, v) ==
  \/ v = NoEntity /\ Fpr[e.key] # NoFpr
  \/ /\ v # Unreadable
     /\ Fpr[e.key] = v.fpr
     /\ e.made # NoTime /\ v.made # NoTime
     /\ v.made < e.made

\* The entity posted replaces what was read.
Accepts(e, v) ==
  /\ v # Unreadable
  /\ Fpr[e.key] = v.fpr
  /\ e.made # NoTime /\ v.made # NoTime
  /\ v.made < e.made

\* The file is opened with O_TRUNC, so that looking empties it.
OpenTruncates(p) ==
  /\ \/ file[Addr(p)] = NoFile /\ Goto(p, "open", "create")
     \/ file[Addr(p)] # NoFile /\ Goto(p, "open", "read")
  /\ file' = [file EXCEPT ![Addr(p)] = IF @ = NoFile THEN @ ELSE Empty]
  /\ torn' = [torn EXCEPT ![p] = BeingWritten(p)]
  /\ UNCHANGED <<req, kept, hurt, mixed>>

-----------------------------------------------------------------------------
(* The handler *)

Post(p, k) ==
  /\ Goto(p, "idle", "open")
  /\ \E e \in Entities(k) : req' = [req EXCEPT ![p] = e]
  /\ torn' = [torn EXCEPT ![p] = FALSE]
  /\ UNCHANGED <<file, kept, hurt, mixed>>

\* os.Open: without a file the comparison is skipped.
Open(p) ==
  /\ \/ file[Addr(p)] = NoFile /\ Goto(p, "open", "create")
     \/ file[Addr(p)] # NoFile /\ Goto(p, "open", "read")
  /\ torn' = [torn EXCEPT ![p] = BeingWritten(p)]
  /\ UNCHANGED <<req, file, kept, hurt, mixed>>

\* Read what is there; refuse with an error, or go on.
Compare(p) ==
  /\ pc[p] = "read"
  /\ \E v \in Readings(p) :
       \/ Accepts(req[p], v) /\ Goto(p, "read", "create")
       \/ ~Accepts(req[p], v) /\ Goto(p, "read", "idle")
  /\ UNCHANGED <<req, file, torn, kept, hurt, mixed>>

\* os.Create truncates the file or makes an empty one.
Create(p) ==
  /\ Goto(p, "create", "write")
  /\ Touch(p, Empty)
  /\ UNCHANGED <<req, kept, hurt>>

\* os.Open or os.Create fails; nothing has been done.
OpenFails(p) ==
  /\ Goto(p, "open", "idle") \/ Goto(p, "create", "idle")
  /\ UNCHANGED <<req, file, torn, kept, hurt, mixed>>

\* Serialize writes packet after packet.
Write(p) ==
  /\ Fpr[Key(p)] # NoFpr
  /\ Goto(p, "write", "rest")
  /\ Touch(p, Parts(file[Addr(p)].of \cup {Key(p)}))
  /\ UNCHANGED <<req, kept, hurt>>

\* The last packet.  After others have written the file too, it may be whole
\* or a mixture, depending on offsets and lengths.
WriteRest(p) ==
  /\ Goto(p, "rest", "idle")
  /\ \/ /\ Touch(p, Whole(Key(p)))
        /\ kept' = [kept EXCEPT ![Addr(p)] = Key(p)]
        /\ UNCHANGED hurt
     \/ /\ torn[p]
        /\ Touch(p, Parts(file[Addr(p)].of \cup {Key(p)}))
        /\ hurt' = [hurt EXCEPT ![Addr(p)] = TRUE]
        /\ UNCHANGED kept
  /\ UNCHANGED req

\* Serialize fails, or panics because the ring had no entity; the file is
\* neither removed nor restored.
WriteFails(p) ==
  /\ Goto(p, "write", "idle") \/ Goto(p, "rest", "idle")
  /\ hurt' = [hurt EXCEPT ![Addr(p)] = TRUE]
  /\ UNCHANGED <<req, file, torn, kept, mixed>>

\* The process dies and is started again.
Crash ==
  /\ \E p \in Posters : pc[p] # "idle"
  /\ pc' = [p \in Posters |-> "idle"]
  /\ hurt' = [a \in Addrs |->
                \/ hurt[a]
                \/ \E p \in Posters : Addr(p) = a /\ pc[p] \in {"write", "rest"}]
  /\ UNCHANGED <<req, file, torn, kept, mixed>>

Steps(p) ==
  \/ Open(p) \/ Compare(p) \/ Create(p) \/ OpenFails(p)
  \/ Write(p) \/ WriteRest(p) \/ WriteFails(p)

Next ==
  \/ \E p \in Posters :
       \/ \E k \in Keys : Post(p, k)
       \/ Steps(p)
  \/ Crash

Spec == Init /\ [][Next]_vars

-----------------------------------------------------------------------------
(* Properties *)

\* Every reading of a key of owner f sees the same time.
Settled(f) ==
  \A k \in Keys : Fpr[k] = f => \A t, u \in Made[k] : t = u

Supersedes(k, old) ==
  /\ Fpr[k] = Fpr[old]
  /\ NoTime \notin Made[old] \cup Made[k]
  /\ Settled(Fpr[k]) => \A u \in Made[old], t \in Made[k] : u < t

KeyChanges(a) == kept[a] # NoKey /\ kept'[a] # kept[a]

\* Until a handler writes that has been overtaken - the file was being written
\* when it opened it, or has been changed since (wkd/app.go:313 is far from 315
\* and 372) - the stored key of an address gives way only to a signed key of the
\* same owner, whatever crashes and failed writes leave behind: the comparison
\* in wkd/app.go:352-370 needs no more than what is in the file.  The key is
\* newer too if the keys of that owner have one signature time each; a key whose
\* identities were signed at different times may be taken for newer than one
\* that it is older than, and the other way round (entity.go:49-69).
KeysMoveForward ==
  [][\A a \in Addrs :
       KeyChanges(a) => Supersedes(kept'[a], kept[a]) \/ mixed'[a]]_vars

Quiet(a) == \A p \in Posters : pc[p] = "idle" \/ Addr(p) # a

\* When nobody is at work on an address, its file is whole or missing, unless
\* a write failed, the process died, or two wrote at once: requests that are
\* refused leave no trace.
BrokenNeedsCause ==
  \A a \in Addrs : Quiet(a) /\ ~hurt[a] =>
    \/ file[a] = NoFile
    \/ kept[a] # NoKey /\ file[a] = Whole(kept[a])

\* Nobody is about to write the empty file of a.
Stuck(a) ==
  /\ file[a] = Empty
  /\ \A p \in Posters : Addr(p) = a =>
       pc[p] \in {"idle", "open"} \/ (pc[p] = "read" /\ ~torn[p])

\* An empty file, as a crash between os.Create and Serialize leaves it
\* (wkd/app.go:315 and 372), is for good: every later post to its address is
\* refused (ERR FINGERPRINT or ERR SIGNATURE, wkd/app.go:352-361).
EmptyIsForGood == [][\A a \in Addrs : Stuck(a) => Stuck(a)']_vars
=============================================================================
