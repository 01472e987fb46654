---------------------- MODULE MCSentenceParagraphs ----------------------
(***************************************************************************)
(* Instances of SentenceParagraphs for TLC.                                *)
(***************************************************************************)
EXTENDS SentenceParagraphs

CONSTANTS de, en

TwoLanguages == {de, en}

=============================================================================
