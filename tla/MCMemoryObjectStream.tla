------------------------ MODULE MCMemoryObjectStream ------------------------
(***************************************************************************)
(* Instances of MemoryObjectStream: senders that are alike, and receivers  *)
(* that are alike.                                                         *)
(***************************************************************************)
EXTENDS MemoryObjectStream

MCAlike == Permutations(Sender) \union Permutations(Receiver)
=============================================================================
