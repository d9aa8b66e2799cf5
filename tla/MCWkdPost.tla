----------------------------- MODULE MCWkdPost -----------------------------
(* Values for checking WkdPost on small instances. *)
EXTENDS WkdPost, TLC

CONSTANTS p1, p2, ann, bob, annNew, annOld, both, twice, none, fA, fB

\* Two keys of one owner, who signs once; two keys of another, one of them with
\* identities signed before and after the other, which has two addresses; and a
\* ring without a key.
MCKeys == {annNew, annOld, both, twice, none}
MCAddrOf == [k \in MCKeys |-> IF k = both THEN {ann, bob}
                              ELSE IF k = none THEN {bob} ELSE {ann}]
MCFpr == annNew :> fA @@ annOld :> fA @@ both :> fB @@ twice :> fB
           @@ none :> NoFpr
MCMade == annNew :> {2} @@ annOld :> {1} @@ both :> {2} @@ twice :> {1, 3}
            @@ none :> {NoTime}

MCAddrs == {ann, bob}
MCPosters == {p1, p2}
=============================================================================
