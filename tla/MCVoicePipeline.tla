--------------------------- MODULE MCVoicePipeline ---------------------------
(***************************************************************************)
(* VoicePipeline for TLC: four entities, of which the first layer sees     *)
(* one, and the settings that differ.                                      *)
(***************************************************************************)
EXTENDS VoicePipeline

MCRegex == [e \in Entity |-> IF e = "Acme Corp" THEN "ORG" ELSE ""]

MCConfig ==
  {c \in [voice : BOOLEAN, tts : BOOLEAN, webhook : BOOLEAN, shield : BOOLEAN] :
     ~c.voice => ~c.tts /\ ~c.webhook}

MCText ==
  {[names |-> n, intent |-> i] : n \in {{}, {"Acme Corp", "Mike"}, {"Mike", "Jane"}, {"Sue"}}, i \in Intent}

=============================================================================
