--------------------------- MODULE WkdPostProofs ---------------------------
(***************************************************************************)
(* Proofs about WkdPost, for any number of posters, addresses and keys.    *)
(***************************************************************************)
EXTENDS WkdPost, TLAPS

Writers(a) == {p \in Posters : Addr(p) = a /\ pc[p] \in {"write", "rest"}}

\* A file that is missing has never been written.
MissingIsNew ==
  \A a \in Addrs : file[a] = NoFile => kept[a] = NoKey /\ Writers(a) = {}

\* Whoever reads a file undisturbed has it for itself.
ReadersAlone ==
  \A p \in Posters : pc[p] = "read" =>
    /\ file[Addr(p)] # NoFile
    /\ ~torn[p] => Writers(Addr(p)) = {}

WholeAtRest ==
  \A a \in Addrs : Writers(a) = {} /\ ~hurt[a] =>
    \/ file[a] = NoFile
    \/ kept[a] # NoKey /\ file[a] = Whole(kept[a])

\* Whoever is past the comparison has a key that supersedes the last whole one,
\* or has been overtaken.
WritersAhead ==
  \A p \in Posters : pc[p] \in {"create", "write", "rest"} =>
    \/ torn[p] \/ mixed[Addr(p)] \/ kept[Addr(p)] = NoKey
    \/ Supersedes(Key(p), kept[Addr(p)])

\* What failed writes leave in a file is of the last whole key or newer.
KeptOrNewer ==
  \A a \in Addrs : ~mixed[a] /\ kept[a] # NoKey /\ file[a] # NoFile =>
    \A k \in file[a].of : k = kept[a] \/ Supersedes(k, kept[a])

IInv ==
  /\ TypeOK
  /\ MissingIsNew
  /\ ReadersAlone
  /\ WholeAtRest
  /\ WritersAhead
  /\ KeptOrNewer

LEMMA EntityType ==
  ASSUME NEW e \in Posted
  PROVE  /\ e.key \in Keys /\ e.to \in Addrs
         /\ e.to \in AddrOf[e.key] /\ e.made \in Made[e.key]
  BY WkdPostAssumption DEF Posted, Entities

LEMMA AddrType ==
  ASSUME TypeOK, NEW p \in Posters
  PROVE  /\ Addr(p) \in Addrs /\ Key(p) \in Keys
         /\ Addr(p) \in AddrOf[Key(p)] /\ req[p].made \in Made[Key(p)]
  BY EntityType DEF TypeOK, Addr, Key

LEMMA InitInv == Init => IInv
<1> SUFFICES ASSUME Init PROVE IInv
  OBVIOUS
<1>1. TypeOK
  BY DEF Init, TypeOK
<1>2. \A a \in Addrs : Writers(a) = {}
  BY DEF Init, Writers
<1> QED
  BY <1>1, <1>2, AddrType
     DEF Init, IInv, MissingIsNew, ReadersAlone, WholeAtRest, WritersAhead,
         KeptOrNewer

-----------------------------------------------------------------------------
(* Steps that leave the files alone and make no writer *)

\* Only p changes, and it is no writer before or after.
Looks(p) ==
  /\ UNCHANGED <<file, kept, hurt, mixed>>
  /\ pc[p] \notin {"write", "rest"} /\ pc'[p] \notin {"write", "rest"}
  /\ \A q \in Posters \ {p} :
       pc'[q] = pc[q] /\ req'[q] = req[q] /\ torn'[q] = torn[q]

LEMMA LooksWriters ==
  ASSUME TypeOK, NEW p \in Posters, Looks(p)
  PROVE  \A a : Writers(a)' = Writers(a)
  BY DEF Looks, Writers, Addr, TypeOK

\* What is left to show after such a step is about p alone.
LEMMA LooksInv ==
  ASSUME IInv, TypeOK', NEW p \in Posters, Looks(p),
         pc'[p] = "read" =>
           /\ file[Addr(p)'] # NoFile
           /\ ~torn'[p] => Writers(Addr(p)') = {},
         pc'[p] = "create" =>
           \/ torn'[p] \/ mixed[Addr(p)'] \/ kept[Addr(p)'] = NoKey
           \/ Supersedes(Key(p)', kept[Addr(p)'])
  PROVE  IInv'
<1>1. TypeOK /\ UNCHANGED <<file, kept, hurt, mixed>>
  BY DEF IInv, Looks
<1>2. \A a : Writers(a)' = Writers(a)
  BY <1>1, LooksWriters
<1>3. \A q \in Posters \ {p} :
        /\ pc'[q] = pc[q] /\ req'[q] = req[q] /\ torn'[q] = torn[q]
        /\ Addr(q)' = Addr(q) /\ Key(q)' = Key(q)
  BY <1>1 DEF Looks, Addr, Key
<1>4. MissingIsNew' /\ WholeAtRest' /\ KeptOrNewer'
  BY <1>1, <1>2 DEF IInv, MissingIsNew, WholeAtRest, KeptOrNewer, Supersedes
<1>5. ReadersAlone'
  BY <1>1, <1>2, <1>3 DEF IInv, ReadersAlone
<1>6. WritersAhead'
  <2> SUFFICES ASSUME NEW q \in Posters, pc'[q] \in {"create", "write", "rest"}
               PROVE  \/ torn'[q] \/ mixed'[Addr(q)'] \/ kept'[Addr(q)'] = NoKey
                      \/ Supersedes(Key(q)', kept'[Addr(q)'])
    BY DEF WritersAhead, Supersedes
  <2>1. CASE q = p
    BY <1>1, <2>1 DEF Looks
  <2>2. CASE q # p
    BY <1>1, <1>3, <2>2 DEF IInv, WritersAhead
  <2> QED BY <2>1, <2>2
<1> QED BY <1>4, <1>5, <1>6 DEF IInv

LEMMA PostInv ==
  ASSUME IInv, NEW p \in Posters, NEW k \in Keys, Post(p, k)
  PROVE  IInv'
<1>1. TypeOK'
  <2>1. Entities(k) \subseteq Posted
    BY DEF Posted
  <2> QED BY <2>1 DEF IInv, TypeOK, Post, Goto
<1>2. Looks(p) /\ pc'[p] = "open"
  BY DEF IInv, TypeOK, Post, Goto, Looks
<1> QED BY <1>1, <1>2, LooksInv

LEMMA OpenInv ==
  ASSUME IInv, NEW p \in Posters, Open(p)
  PROVE  IInv'
<1>1. TypeOK'
  BY DEF IInv, TypeOK, Open, Goto, BeingWritten
<1>2. Looks(p) /\ req' = req /\ torn'[p] = BeingWritten(p) /\ pc[p] = "open"
  BY DEF IInv, TypeOK, Open, Goto, Looks
<1>3. Addr(p)' = Addr(p) /\ Addr(p) \in Addrs
  BY <1>2, AddrType DEF Addr, IInv
<1>4. pc'[p] = "read" => file[Addr(p)] # NoFile
  BY DEF IInv, TypeOK, Open, Goto
<1>5. ~torn'[p] => Writers(Addr(p)) = {}
  BY <1>2 DEF BeingWritten, Writers
<1>6. pc'[p] = "create" => kept[Addr(p)] = NoKey
  <2>1. pc'[p] = "create" => file[Addr(p)] = NoFile
    BY DEF IInv, TypeOK, Open, Goto
  <2> QED BY <2>1, <1>3 DEF IInv, MissingIsNew
<1> QED BY <1>1, <1>2, <1>3, <1>4, <1>5, <1>6, LooksInv

LEMMA ContentsType ==
  /\ Empty \in Contents
  /\ \A k \in Keys : Whole(k) \in Contents /\ Whole(k).of = {k}
  /\ \A s \in SUBSET Keys : Parts(s) \in Contents /\ Parts(s).of = s
  /\ \A c \in Contents : c # NoFile /\ c.of \in SUBSET Keys
  BY WkdPostAssumption DEF Contents, Empty, Whole, Parts

LEMMA SupersedesTransitive ==
  ASSUME NEW i \in Keys, NEW j \in Keys, NEW k \in Keys,
         Supersedes(i, j), Supersedes(j, k)
  PROVE  Supersedes(i, k)
<1>1. /\ Fpr[i] = Fpr[k] /\ NoTime \notin Made[k] \cup Made[i]
      /\ Fpr[j] = Fpr[i] /\ NoTime \notin Made[j]
  BY DEF Supersedes
<1>2. /\ Made[i] \in SUBSET Nat /\ Made[k] \in SUBSET Nat
      /\ Made[j] \in (SUBSET Nat) \ {{}}
  BY <1>1, WkdPostAssumption
<1>3. ASSUME Settled(Fpr[i]), NEW u \in Made[k], NEW t \in Made[i]
      PROVE  u < t
  <2>1. PICK v \in Made[j] : v \in Nat
    BY <1>2
  <2>2. u < v /\ v < t
    BY <1>1, <1>3, <2>1 DEF Supersedes
  <2> QED BY <1>2, <2>1, <2>2
<1> QED BY <1>1, <1>3 DEF Supersedes

\* What is accepted supersedes some key in the file: the owner is the same, and
\* the times compared are all there are if the owner's keys are settled.
LEMMA AcceptedIsNewer ==
  ASSUME TypeOK, NEW p \in Posters, file[Addr(p)] # NoFile, ~torn[p],
         NEW v \in Readings(p), Accepts(req[p], v)
  PROVE  \E k \in file[Addr(p)].of : Supersedes(Key(p), k)
<1> DEFINE f == file[Addr(p)]
<1>1. v.made # NoTime /\ v # Unreadable
  BY DEF Accepts
<1>2. v \in PartViews(f.of) \/ v \in UNION {Views(k) : k \in f.of}
  BY DEF Readings
<1>3. PICK k \in f.of : v \in Views(k)
  BY <1>1, <1>2 DEF PartViews, NoEntity, Unsigned
<1>4. v.fpr = Fpr[k] /\ v.made \in Made[k]
  BY <1>3 DEF Views
<1>5. k \in Keys /\ Key(p) \in Keys /\ req[p].made \in Made[Key(p)]
  BY AddrType, ContentsType DEF TypeOK
<1>6. Fpr[Key(p)] = Fpr[k] /\ req[p].made # NoTime /\ v.made < req[p].made
  BY <1>4 DEF Accepts, Key
<1>7. NoTime \notin Made[k] \cup Made[Key(p)]
  BY <1>1, <1>4, <1>5, <1>6, WkdPostAssumption
<1>8. ASSUME Settled(Fpr[Key(p)]) PROVE \A u \in Made[k], t \in Made[Key(p)] : u < t
  <2>1. \A u \in Made[k], t \in Made[Key(p)] : u = v.made /\ t = req[p].made
    BY <1>4, <1>5, <1>6, <1>8 DEF Settled
  <2> QED BY <1>6, <2>1
<1> QED BY <1>6, <1>7, <1>8 DEF Supersedes

\* Whoever has the file for itself goes on only with a key that supersedes some
\* key in it, and so the last whole one.
LEMMA CompareInv ==
  ASSUME IInv, NEW p \in Posters, Compare(p)
  PROVE  IInv'
<1>1. TypeOK'
  BY DEF IInv, TypeOK, Compare, Goto
<1>2. /\ Looks(p) /\ UNCHANGED <<req, torn, file>> /\ pc[p] = "read"
      /\ pc'[p] # "read"
  BY DEF IInv, TypeOK, Compare, Goto, Looks
<1>3. Addr(p)' = Addr(p) /\ Key(p)' = Key(p) /\ Addr(p) \in Addrs
  BY <1>2, AddrType DEF Addr, Key, IInv
<1>4. ASSUME pc'[p] = "create", ~torn[p], ~mixed[Addr(p)],
             kept[Addr(p)] # NoKey
      PROVE  Supersedes(Key(p), kept[Addr(p)])
  <2>1. TypeOK /\ file[Addr(p)] # NoFile
    BY <1>2 DEF IInv, ReadersAlone
  <2>2. PICK v \in Readings(p) : Accepts(req[p], v)
    BY <1>4 DEF IInv, TypeOK, Compare, Goto
  <2>3. PICK k \in file[Addr(p)].of : Supersedes(Key(p), k)
    BY <1>4, <2>1, <2>2, AcceptedIsNewer
  <2>4. k = kept[Addr(p)] \/ Supersedes(k, kept[Addr(p)])
    BY <1>3, <1>4, <2>1, <2>3 DEF IInv, KeptOrNewer
  <2>5. k \in Keys /\ Key(p) \in Keys /\ kept[Addr(p)] \in Keys
    BY <1>3, <1>4, <2>1, <2>3, AddrType, ContentsType DEF TypeOK
  <2> QED BY <2>3, <2>4, <2>5, SupersedesTransitive
<1> QED BY <1>1, <1>2, <1>3, <1>4, LooksInv

LEMMA OpenFailsInv ==
  ASSUME IInv, NEW p \in Posters, OpenFails(p)
  PROVE  IInv'
<1>1. TypeOK'
  BY DEF IInv, TypeOK, OpenFails, Goto
<1>2. Looks(p) /\ pc'[p] = "idle"
  BY DEF IInv, TypeOK, OpenFails, Goto, Looks
<1> QED BY <1>1, <1>2, LooksInv

-----------------------------------------------------------------------------
(* Steps that change the file of their poster *)

Touches(p) ==
  /\ UNCHANGED req
  /\ pc[p] \in {"create", "write", "rest"}
  /\ \A q \in Posters \ {p} : pc'[q] = pc[q]
  /\ file'[Addr(p)] # NoFile
  /\ torn' = [q \in Posters |->
                torn[q] \/ (q # p /\ pc[q] # "idle" /\ Addr(q) = Addr(p))]
  /\ mixed' = [mixed EXCEPT ![Addr(p)] = @ \/ torn[p]]
  /\ \A a \in Addrs \ {Addr(p)} :
       file'[a] = file[a] /\ kept'[a] = kept[a] /\ hurt'[a] = hurt[a]

\* Whoever else has the file open is torn, so that the writer must only account
\* for the file and for itself.
LEMMA TouchesInv ==
  ASSUME IInv, TypeOK', NEW p \in Posters, Touches(p),
         \/ pc'[p] \in {"write", "rest"}
         \/ hurt'[Addr(p)]
         \/ kept'[Addr(p)] # NoKey /\ file'[Addr(p)] = Whole(kept'[Addr(p)]),
         \/ pc'[p] = "idle"
         \/ /\ pc'[p] \in {"write", "rest"}
            /\ kept'[Addr(p)] = kept[Addr(p)],
         ~mixed[Addr(p)] /\ ~torn[p] /\ kept'[Addr(p)] # NoKey =>
           \A k \in file'[Addr(p)].of :
             k = kept'[Addr(p)] \/ Supersedes(k, kept'[Addr(p)])
  PROVE  IInv'
<1>1. TypeOK /\ Addr(p) \in Addrs /\ \A q \in Posters : Addr(q)' = Addr(q)
  BY AddrType DEF IInv, Touches, Addr
<1>2. \A a \in Addrs \ {Addr(p)} : Writers(a)' = Writers(a)
  BY <1>1 DEF Touches, Writers
<1>3. \A q \in Posters \ {p} :
        pc'[q] # "idle" /\ Addr(q) = Addr(p) => torn'[q]
  BY DEF Touches
<1>4. \A q \in Posters : torn[q] => torn'[q]
  BY DEF Touches
<1>5. pc'[p] \in {"write", "rest"} => Writers(Addr(p))' # {}
  BY <1>1 DEF Writers
<1>6. /\ mixed'[Addr(p)] <=> mixed[Addr(p)] \/ torn[p]
      /\ \A a \in Addrs \ {Addr(p)} : mixed'[a] = mixed[a]
  BY <1>1 DEF Touches, TypeOK
<1>7. MissingIsNew'
  BY <1>1, <1>2 DEF Touches, IInv, MissingIsNew
<1>8. ReadersAlone'
  BY <1>1, <1>2, <1>3, <1>4, AddrType DEF Touches, IInv, ReadersAlone
<1>9. WholeAtRest'
  BY <1>1, <1>2, <1>5 DEF Touches, IInv, WholeAtRest
<1>10. WritersAhead'
  <2> SUFFICES ASSUME NEW q \in Posters, pc'[q] \in {"create", "write", "rest"}
               PROVE  \/ torn'[q] \/ mixed'[Addr(q)] \/ kept'[Addr(q)] = NoKey
                      \/ Supersedes(Key(q), kept'[Addr(q)])
    BY <1>1 DEF WritersAhead, Supersedes, Touches, Key
  <2>1. CASE q = p
    BY <1>4, <1>6, <2>1 DEF Touches, IInv, WritersAhead
  <2>2. CASE q # p
    BY <1>1, <1>3, <1>4, <1>6, <2>2, AddrType DEF Touches, IInv, WritersAhead
  <2> QED BY <2>1, <2>2
<1>11. KeptOrNewer'
  <2> SUFFICES ASSUME NEW a \in Addrs, ~mixed'[a], kept'[a] # NoKey,
                      file'[a] # NoFile, NEW k \in file'[a].of
               PROVE  k = kept'[a] \/ Supersedes(k, kept'[a])
    BY DEF KeptOrNewer, Supersedes
  <2>1. CASE a = Addr(p)
    BY <1>6, <2>1
  <2>2. CASE a # Addr(p)
    BY <1>6, <2>2 DEF Touches, IInv, KeptOrNewer
  <2> QED BY <2>1, <2>2
<1> QED BY <1>7, <1>8, <1>9, <1>10, <1>11 DEF IInv

LEMMA CreateInv ==
  ASSUME IInv, NEW p \in Posters, Create(p)
  PROVE  IInv'
<1>1. TypeOK /\ Addr(p) \in Addrs /\ Addr(p)' = Addr(p) /\ pc[p] = "create"
  BY AddrType DEF IInv, Create, Goto, Addr
<1>2. TypeOK'
  BY <1>1, ContentsType DEF TypeOK, Create, Goto, Touch, Empty
<1>3. Touches(p) /\ pc'[p] = "write" /\ UNCHANGED <<kept, hurt>>
  BY <1>1, ContentsType DEF TypeOK, Create, Goto, Touch, Touches
<1>4. file'[Addr(p)].of = {}
  BY <1>1 DEF TypeOK, Create, Touch, Empty
<1> QED BY <1>2, <1>3, <1>4, TouchesInv

LEMMA WriteInv ==
  ASSUME IInv, NEW p \in Posters, Write(p)
  PROVE  IInv'
<1>1. TypeOK /\ Addr(p) \in Addrs /\ Addr(p)' = Addr(p) /\ pc[p] = "write"
  BY AddrType DEF IInv, Write, Goto, Addr
<1> DEFINE s == file[Addr(p)].of \cup {Key(p)}
<1>2. file[Addr(p)] # NoFile
  BY <1>1 DEF IInv, MissingIsNew, Writers
<1>3. s \in SUBSET Keys /\ \A k \in s : Addr(p) \in AddrOf[k]
  BY <1>1, <1>2, AddrType, ContentsType DEF TypeOK
<1>4. file' = [file EXCEPT ![Addr(p)] = Parts(s)]
  BY DEF Write, Touch
<1> HIDE DEF s
<1>5. TypeOK'
  <2>1. file' \in [Addrs -> Contents \cup {NoFile}]
    BY <1>1, <1>3, <1>4, ContentsType DEF TypeOK
  <2>2. \A a \in Addrs :
          file'[a] # NoFile => \A k \in file'[a].of : a \in AddrOf[k]
    BY <1>1, <1>3, <1>4, ContentsType DEF TypeOK
  <2> QED BY <1>1, <2>1, <2>2 DEF TypeOK, Write, Goto, Touch
<1>6. Touches(p) /\ pc'[p] = "rest" /\ UNCHANGED <<kept, hurt>>
  BY <1>1, <1>3, <1>4, ContentsType DEF TypeOK, Write, Goto, Touch, Touches
<1>7. file'[Addr(p)].of = s
  BY <1>1, <1>3, <1>4, ContentsType DEF TypeOK
<1>8. ASSUME ~mixed[Addr(p)], ~torn[p], kept[Addr(p)] # NoKey, NEW k \in s
      PROVE  k = kept[Addr(p)] \/ Supersedes(k, kept[Addr(p)])
  BY <1>1, <1>2, <1>8 DEF s, IInv, WritersAhead, KeptOrNewer
<1> QED BY <1>5, <1>6, <1>7, <1>8, TouchesInv

LEMMA WriteRestInv ==
  ASSUME IInv, NEW p \in Posters, WriteRest(p)
  PROVE  IInv'
<1>1. TypeOK /\ Addr(p) \in Addrs /\ Addr(p)' = Addr(p) /\ pc[p] = "rest"
  BY AddrType DEF IInv, WriteRest, Goto, Addr
<1> DEFINE s == file[Addr(p)].of \cup {Key(p)}
<1>2. file[Addr(p)] # NoFile
  BY <1>1 DEF IInv, MissingIsNew, Writers
<1>3. s \in SUBSET Keys /\ \A k \in s : Addr(p) \in AddrOf[k]
  BY <1>1, <1>2, AddrType, ContentsType DEF TypeOK
<1>4. Key(p) \in Keys /\ Addr(p) \in AddrOf[Key(p)]
  BY <1>1, AddrType
<1>5. PICK c \in Contents :
        /\ \A k \in c.of : Addr(p) \in AddrOf[k]
        /\ Touch(p, c)
        /\ \/ /\ c = Whole(Key(p))
              /\ kept' = [kept EXCEPT ![Addr(p)] = Key(p)]
              /\ UNCHANGED hurt
           \/ /\ torn[p]
              /\ hurt' = [hurt EXCEPT ![Addr(p)] = TRUE]
              /\ UNCHANGED kept
  <2>1. CASE Touch(p, Whole(Key(p)))
    BY <2>1, <1>3, <1>4, ContentsType DEF WriteRest
  <2>2. CASE Touch(p, Parts(s))
    BY <2>2, <1>3, <1>4, ContentsType DEF WriteRest
  <2> QED BY <2>1, <2>2 DEF WriteRest
<1>6. file' = [file EXCEPT ![Addr(p)] = c]
  BY <1>5 DEF Touch
<1>7. TypeOK'
  <2>1. file' \in [Addrs -> Contents \cup {NoFile}]
    BY <1>1, <1>5, <1>6 DEF TypeOK
  <2>2. \A a \in Addrs :
          file'[a] # NoFile => \A k \in file'[a].of : a \in AddrOf[k]
    BY <1>1, <1>5, <1>6 DEF TypeOK
  <2>3. kept' \in [Addrs -> Keys \cup {NoKey}] /\ hurt' \in [Addrs -> BOOLEAN]
    BY <1>1, <1>4, <1>5 DEF TypeOK
  <2> QED
    BY <1>1, <1>5, <2>1, <2>2, <2>3 DEF TypeOK, WriteRest, Goto, Touch
<1>8. pc'[p] = "idle" /\ UNCHANGED req
  BY <1>1 DEF TypeOK, WriteRest, Goto
<1>9. Touches(p)
  <2>1. file'[Addr(p)] = c /\ c # NoFile
    BY <1>1, <1>6, ContentsType DEF TypeOK
  <2>2. \A a \in Addrs \ {Addr(p)} :
          file'[a] = file[a] /\ kept'[a] = kept[a] /\ hurt'[a] = hurt[a]
    BY <1>1, <1>5, <1>6 DEF TypeOK
  <2> QED
    BY <1>1, <1>5, <1>8, <2>1, <2>2 DEF TypeOK, WriteRest, Goto, Touch, Touches
<1>10. \/ hurt'[Addr(p)]
       \/ kept'[Addr(p)] # NoKey /\ file'[Addr(p)] = Whole(kept'[Addr(p)])
  BY <1>1, <1>4, <1>5, <1>6, WkdPostAssumption DEF TypeOK
<1>11. ~torn[p] => file'[Addr(p)].of = {kept'[Addr(p)]}
  BY <1>1, <1>4, <1>5, <1>6, ContentsType DEF TypeOK
<1> QED BY <1>7, <1>8, <1>9, <1>10, <1>11, TouchesInv

\* The file of a writer that fails stays as it is, and is marked as hurt.
LEMMA WriteFailsInv ==
  ASSUME IInv, NEW p \in Posters, WriteFails(p)
  PROVE  IInv'
<1>1. TypeOK /\ Addr(p) \in Addrs /\ \A q : Addr(q)' = Addr(q)
  BY AddrType DEF IInv, WriteFails, Addr
<1>2. TypeOK'
  BY <1>1 DEF TypeOK, WriteFails, Goto
<1>3. /\ pc'[p] = "idle" /\ \A q \in Posters \ {p} : pc'[q] = pc[q]
      /\ hurt'[Addr(p)] /\ \A a \in Addrs \ {Addr(p)} : hurt'[a] = hurt[a]
      /\ UNCHANGED <<req, file, torn, kept, mixed>>
  BY <1>1 DEF TypeOK, WriteFails, Goto
<1>4. \A a \in Addrs : /\ Writers(a)' \subseteq Writers(a)
                       /\ a # Addr(p) => Writers(a)' = Writers(a)
  BY <1>1, <1>3 DEF Writers
<1>5. MissingIsNew' /\ ReadersAlone'
  BY <1>1, <1>3, <1>4, AddrType DEF IInv, MissingIsNew, ReadersAlone
<1>6. WholeAtRest' /\ KeptOrNewer'
  BY <1>3, <1>4 DEF IInv, WholeAtRest, KeptOrNewer, Supersedes
<1>7. WritersAhead'
  <2> SUFFICES ASSUME NEW q \in Posters, pc'[q] \in {"create", "write", "rest"}
               PROVE  \/ torn[q] \/ mixed[Addr(q)] \/ kept[Addr(q)] = NoKey
                      \/ Supersedes(Key(q), kept[Addr(q)])
    BY <1>1, <1>3 DEF WritersAhead, Supersedes, Key
  <2> QED
    BY <1>1, <1>3, AddrType DEF IInv, WritersAhead
<1> QED BY <1>2, <1>5, <1>6, <1>7 DEF IInv

LEMMA CrashInv ==
  ASSUME IInv, Crash
  PROVE  IInv'
<1>1. TypeOK /\ \A p \in Posters : pc'[p] = "idle"
  BY DEF IInv, Crash
<1>2. TypeOK'
  BY <1>1 DEF TypeOK, Crash
<1>3. \A a \in Addrs : Writers(a)' = {} /\ (~hurt'[a] => ~hurt[a])
  BY <1>1 DEF Writers, Crash
<1>4. \A a \in Addrs : ~hurt'[a] => Writers(a) = {}
  BY <1>1 DEF Writers, Crash
<1>5. MissingIsNew' /\ WholeAtRest' /\ KeptOrNewer'
  BY <1>3, <1>4
     DEF IInv, MissingIsNew, WholeAtRest, KeptOrNewer, Supersedes, Crash
<1>6. ReadersAlone' /\ WritersAhead'
  BY <1>1 DEF ReadersAlone, WritersAhead
<1> QED BY <1>2, <1>5, <1>6 DEF IInv

LEMMA StepInv == IInv /\ [Next]_vars => IInv'
<1> SUFFICES ASSUME IInv, [Next]_vars PROVE IInv'
  OBVIOUS
<1>1. CASE UNCHANGED vars
  BY <1>1 DEF vars, IInv, TypeOK, MissingIsNew, ReadersAlone, WholeAtRest,
              WritersAhead, KeptOrNewer, Writers, Addr, Key, Supersedes
<1>2. CASE Crash
  BY <1>2, CrashInv
<1>3. ASSUME NEW p \in Posters, NEW k \in Keys, Post(p, k) PROVE IInv'
  BY <1>3, PostInv
<1>4. ASSUME NEW p \in Posters, Steps(p) PROVE IInv'
  BY <1>4, OpenInv, CompareInv, CreateInv, OpenFailsInv, WriteInv,
     WriteRestInv, WriteFailsInv DEF Steps
<1> QED BY <1>1, <1>2, <1>3, <1>4 DEF Next

\* A run of the handlers keeps the files, the posters and the history related
\* as IInv says (wkd/app.go:281-378).
THEOREM HandlersInvariant == Spec => []IInv
  BY InitInv, StepInv, PTL DEF Spec

\* The files hold keys of their own address only, and every variable has its
\* type (wkd/app.go:308-315).
THEOREM TypeCorrect == Spec => []TypeOK
  BY HandlersInvariant, PTL DEF IInv

\* A refused request leaves no trace in a file (wkd/app.go:313-378).
THEOREM BrokenSound == Spec => []BrokenNeedsCause
<1>1. IInv => BrokenNeedsCause
  BY DEF IInv, WholeAtRest, BrokenNeedsCause, Quiet, Writers
<1> QED BY <1>1, HandlersInvariant, PTL

\* Until a poster writes that has been overtaken, the key of an address gives way
\* only to a signed key of its owner, newer if his keys have one time each,
\* through any crashes and failed writes (wkd/app.go:313, 315, 352-370, 372;
\* entity.go:49-69).
THEOREM ForwardSound == Spec => KeysMoveForward
<1>1. ASSUME IInv, Next, NEW a \in Addrs, KeyChanges(a), ~mixed'[a]
      PROVE  Supersedes(kept'[a], kept[a])
  <2>1. kept'[a] # kept[a] /\ kept[a] # NoKey
    BY <1>1 DEF KeyChanges
  <2>2. PICK p \in Posters : WriteRest(p)
    BY <1>1, <2>1 DEF Next, Steps, Crash, Post, Open, Compare, Create,
                      OpenFails, Write, WriteFails
  <2>3. pc[p] = "rest" /\ Addr(p) \in Addrs
    BY <2>2, <1>1, AddrType DEF WriteRest, Goto, IInv
  <2>4. kept' = [kept EXCEPT ![Addr(p)] = Key(p)]
    BY <2>1, <2>2 DEF WriteRest
  <2>5. a = Addr(p) /\ kept'[a] = Key(p)
    BY <2>1, <2>4, <1>1 DEF IInv, TypeOK
  <2>6. mixed' = [mixed EXCEPT ![Addr(p)] = @ \/ torn[p]]
    BY <2>2 DEF WriteRest, Touch
  <2>7. ~mixed[a] /\ ~torn[p]
    BY <1>1, <2>3, <2>5, <2>6 DEF IInv, TypeOK
  <2> QED BY <1>1, <2>1, <2>3, <2>5, <2>7 DEF IInv, WritersAhead
<1>2. IInv /\ [Next]_vars =>
        [\A a \in Addrs :
           KeyChanges(a) => Supersedes(kept'[a], kept[a]) \/ mixed'[a]]_vars
  BY <1>1
<1> QED BY <1>2, HandlersInvariant, PTL DEF Spec, KeysMoveForward

-----------------------------------------------------------------------------
(* A file without a key *)

LEMMA EmptyReading ==
  ASSUME TypeOK, NEW p \in Posters, file[Addr(p)] = Empty, ~torn[p],
         NEW v \in Readings(p)
  PROVE  ~Accepts(req[p], v)
  BY WkdPostAssumption
     DEF Readings, Empty, PartViews, NoEntity, Accepts, TypeOK

\* Nothing the handlers do fills a file that a crash left empty
\* (wkd/app.go:352-361).
THEOREM EmptySound == Spec => EmptyIsForGood
<1>1. ASSUME IInv, Next, NEW a \in Addrs, Stuck(a) PROVE Stuck(a)'
  <2> USE <1>1
  <2>1. TypeOK /\ file[a] = Empty /\ Empty # NoFile
    BY ContentsType DEF IInv, Stuck, Contents
  <2>2. \A p \in Posters : Addr(p) = a =>
          pc[p] \in {"idle", "open"} \/ (pc[p] = "read" /\ ~torn[p])
    BY DEF Stuck
  <2>3. CASE Crash
    BY <2>1, <2>3 DEF Crash, Stuck
  <2>4. ASSUME NEW p \in Posters, NEW k \in Keys, Post(p, k) PROVE Stuck(a)'
    BY <2>1, <2>2, <2>4 DEF Post, Goto, Stuck, Addr, TypeOK
  <2>5. ASSUME NEW p \in Posters, Open(p) PROVE Stuck(a)'
    <3>1. ~BeingWritten(p) \/ Addr(p) # a
      BY <2>2 DEF BeingWritten
    <3> QED
      BY <2>1, <2>2, <2>5, <3>1 DEF Open, Goto, Stuck, Addr, TypeOK
  <2>6. ASSUME NEW p \in Posters, Compare(p) PROVE Stuck(a)'
    <3>1. Addr(p) = a => pc'[p] = "idle"
      BY <2>1, <2>2, <2>6, EmptyReading DEF Compare, Goto, TypeOK
    <3> QED
      BY <2>1, <2>2, <2>6, <3>1 DEF Compare, Goto, Stuck, Addr, TypeOK
  <2>7. ASSUME NEW p \in Posters, OpenFails(p) PROVE Stuck(a)'
    BY <2>1, <2>2, <2>7 DEF OpenFails, Goto, Stuck, Addr, TypeOK
  <2>8. ASSUME NEW p \in Posters, Create(p) \/ Write(p) \/ WriteRest(p)
        PROVE  Stuck(a)'
    <3>1. Addr(p) # a
      BY <2>2, <2>8 DEF Create, Write, WriteRest, Goto
    <3>2. PICK c : Touch(p, c)
      BY <2>8 DEF Create, Write, WriteRest
    <3>3. file'[a] = Empty
      BY <2>1, <3>1, <3>2 DEF Touch, TypeOK
    <3>4. \A q \in Posters : Addr(q) = a => pc'[q] = pc[q]
      BY <2>1, <2>8, <3>1 DEF Create, Write, WriteRest, Goto, TypeOK
    <3>5. \A q \in Posters : Addr(q) = a => (torn'[q] => torn[q])
      BY <3>1, <3>2 DEF Touch
    <3>6. req' = req
      BY <2>8 DEF Create, Write, WriteRest
    <3> QED
      BY <2>2, <3>3, <3>4, <3>5, <3>6 DEF Stuck, Addr
  <2>9. ASSUME NEW p \in Posters, WriteFails(p) PROVE Stuck(a)'
    BY <2>1, <2>2, <2>9 DEF WriteFails, Goto, Stuck, Addr, TypeOK
  <2> QED
    BY <2>3, <2>4, <2>5, <2>6, <2>7, <2>8, <2>9 DEF Next, Steps
<1>2. ASSUME UNCHANGED vars, NEW a \in Addrs, Stuck(a) PROVE Stuck(a)'
  BY <1>2 DEF vars, Stuck, Addr
<1>3. IInv /\ [Next]_vars => [\A a \in Addrs : Stuck(a) => Stuck(a)']_vars
  BY <1>1, <1>2
<1> QED BY <1>3, HandlersInvariant, PTL DEF Spec, EmptyIsForGood

=============================================================================
