--------------------------- MODULE MCRequestPath ----------------------------
(***************************************************************************)
(* A small instance of RequestPath: two clients that share a key, a window *)
(* of four units and seconds of three, so that a Retry-After is rounded up *)
(* and may exceed the client's own maximum.                                *)
(***************************************************************************)
EXTENDS RequestPath, TLC

CONSTANTS a, b, shared, read, write

MCKeyOf == (a :> shared) @@ (b :> shared)

Reader == {<<"db", "read">>}
Family == {<<"db", "*">>}

\* What auth.validate gives; an API key's identity has no scopes.
MCGrants == {{}, Reader, Family}
MCScopes == (read :> Reader) @@ (write :> {<<"db", "read">>, <<"db", "write">>})
=============================================================================
