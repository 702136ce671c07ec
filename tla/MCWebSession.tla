--------------------------- MODULE MCWebSession ---------------------------
(***************************************************************************)
(* Small instances of a session: a header is one unit, a payload another.  *)
(***************************************************************************)
EXTENDS WebSession

Units == [part : {"hdr", "pay"}, p : Kind, n : 0..MaxMsgs]
=============================================================================
