---------------------------- MODULE MCProofCheck ----------------------------
(* Values for checking ProofCheck: every form of URI that NewProof can tell *)
(* from another, with up to seven parts in the path.                        *)
EXTENDS ProofCheck

CONSTANTS base, dnsUrl, xmppUrl, remote

Form(p, s, h, t, n) ==
  [parses |-> p, scheme |-> s, host |-> h, path |-> t, parts |-> n]

MCUris ==
  {Form(FALSE, "other", "any", "any", 1)}
    \cup {Form(TRUE, s, "any", "any", 1) : s \in {"dns", "xmpp", "other"}}
    \cup {Form(TRUE, "https", h, "any", n) :
            h \in {"twitter", "hackernews", "devto", "reddit", "gist",
                   "lobsters", "any"}, n \in 1..7}
    \cup {Form(TRUE, "https", "any", t, n) :
            t \in {"gitlab_proof", "gitea_proof"}, n \in 2..4}
    \cup {Form(TRUE, "https", "any", t, n) : t \in {"conv", "twt"}, n \in 3..4}
=============================================================================
