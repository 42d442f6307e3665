-------------------------- MODULE MCRequestStream ---------------------------
(* Small instances of the request stream for TLC. *)
EXTENDS RequestStream

\* Both routes, one with a query, one nobody serves and one that is too long.
MCPaths == {<<"/">>, <<"/", "users">>, <<"/", "?", "users">>, <<"/", "x">>,
            <<"/", "x", "x", "x", "x">>}

\* The network cuts nowhere, or anywhere.
Nowhere == {}
Anywhere == {"GET", "/", "?", "users", "x", "SP", "HDR", "CRLF"}
=============================================================================
