----------------------------- MODULE MCShutdown -----------------------------
(* Values for checking Shutdown on small instances. *)
EXTENDS Shutdown

CONSTANTS wkd, xmpp, http

\* A watcher, the XMPP client and the HTTP server.
MCOrder == <<wkd, xmpp, http>>
MCFallible == {xmpp}
=============================================================================
