----------------------------- MODULE MCLinkGet -----------------------------
(* Values for checking Links, and LinkGet over it, on small instances.  Each *)
(* stands for one directory with two names that can be in it.                *)
EXTENDS LinkGet, TLC

CONSTANTS clashing, apart, avatar, cases, ann, bob, la, lb, lad, md5, sha, md5b, shab

MCApps == {clashing, apart, avatar, cases}
MCHashes == {la, lb, lad, md5, sha, md5b, shab}

\* wkd with two addresses that have the same local part, wkd with two that do
\* not, and avatar, where a name has two links, with two names that differ and
\* with two that differ only in case.
MCLinksOf ==
  clashing :> (ann :> <<la>> @@ bob :> <<la>>)
    @@ apart :> (ann :> <<la>> @@ bob :> <<lb>>)
    @@ avatar :> (ann :> <<md5, sha>> @@ bob :> <<md5b, shab>>)
    @@ cases :> (ann :> <<md5, sha>> @@ bob :> <<md5, sha>>)

\* wkd looks for a name with the domain in it, avatar for a link: the one made
\* and removed last.  Where all names clash nothing is said of what is served,
\* so nothing is looked for.
MCLooksFor == clashing :> {} @@ apart :> {lad} @@ avatar :> {sha} @@ cases :> {}

MCMaxEvents == clashing :> 2 @@ apart :> 2 @@ avatar :> 1 @@ cases :> 1
=============================================================================
