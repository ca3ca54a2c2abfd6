------------------------------- MODULE MCShell -------------------------------
(***************************************************************************)
(* One shell, a keyboard with a letter, backspace, enter and a key with no *)
(* printable character, and a buffer that two characters fill.             *)
(***************************************************************************)
EXTENDS Shell

MCKeymap ==
  [k \in Key |-> CASE k = "a"  -> (0 :> "a" @@ 1 :> "A")
                   [] k = "bs" -> (0 :> "bs" @@ 1 :> "bs")
                   [] k = "nl" -> (0 :> "nl" @@ 1 :> "nl")
                   [] OTHER    -> (0 :> "nul" @@ 1 :> "nul")]
=============================================================================
