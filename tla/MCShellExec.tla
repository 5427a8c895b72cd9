---------------------------- MODULE MCShellExec -----------------------------
(***************************************************************************)
(* Small instances of ShellExec.  Left out of the passing instance: a job  *)
(* that never stops writing (MCChatty), a Ctrl+C that arrives while lim is *)
(* not blocked (MCLate), and output with NUL bytes (MCNul).                *)
(***************************************************************************)
EXTENDS ShellExec

MCQuiet == {{"job", "early", "ctrlC"}, {"job", "away", "ctrlC"}, {"job", "closes", "ctrlC"},
            {"closes", "early"}}

MCLate == {{"ctrlC", "late"}}

MCEarly == {{"early"}}

MCNul == {{"nul"}}

MCChatty == {{"job", "chatty"}}
=============================================================================
