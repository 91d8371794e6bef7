--------------------------- MODULE MCEntryRuntime ----------------------------
(***************************************************************************)
(* Instances of EntryRuntime for TLC.                                      *)
(***************************************************************************)
EXTENDS EntryRuntime

\* No line, the line, and a last line that has no end.
Files == {<<>>, <<HostKey, NL>>, <<Torn>>}
=============================================================================
