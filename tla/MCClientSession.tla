-------------------------- MODULE MCClientSession ---------------------------
(* ClientSession for TLC. *)
EXTENDS ClientSession

\* An empty text, and one with a word that a STREAM takes for its end.
MCDocs == {<<>>, <<"w", "STREAM_COMPLETE">>}

MCShort == {<<"w">>}

=============================================================================
