---------------------------- MODULE MCAiLauncher ----------------------------
(* AiLauncher's constants for TLC. *)
EXTENDS AiLauncher
CONSTANTS LetterA, LetterQ
MCLetters == {LetterA, LetterQ}
=============================================================================
