---------------------------- MODULE MCComponents ----------------------------
(***************************************************************************)
(* Small instances of the components: what Components.cfg cannot express.  *)
(***************************************************************************)
EXTENDS Components

\* A delimiter that overlaps itself, and one that does not
MCDelimiters == {<<1, 1>>, <<0, 1>>}
=============================================================================
