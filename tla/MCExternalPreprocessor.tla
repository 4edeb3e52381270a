----------------------- MODULE MCExternalPreprocessor -----------------------
(***************************************************************************)
(* ExternalPreprocessor with a limit of one byte, and a child and a        *)
(* descendant that write one to each stream: under the limit, at it from   *)
(* either stream, over it from both, with full pipes.  Reads, waits and    *)
(* the spawn of /bin/kill may fail.                                        *)
(***************************************************************************)
EXTENDS ExternalPreprocessor

MCFaults == {"read", "wait", "kill"}

=============================================================================
