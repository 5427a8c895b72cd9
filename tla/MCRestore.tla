----------------------------- MODULE MCRestore ------------------------------
(***************************************************************************)
(* Small instances of Restore: which features meet in one behaviour.       *)
(* Left out of the passing instance: a canary of no more tokens than the   *)
(* rollback window (MCShort), /continue behind a /save (MCContinue), a     *)
(* save with tokens behind its last checkpoint (MCTail), a canary over a   *)
(* save without checkpoints, and a load that is cancelled when the canary  *)
(* has judged it corrupt or its cached state could not be set.             *)
(***************************************************************************)
EXTENDS Restore

MCScenarios ==
    {{"crash", "bare", "fail", "full", "pressure"}, {"mirror", "corrupt", "fail"},
     {"mirror", "note"}, {"cancel", "checkpoints"}}

MCShort == {{"mirror", "short"}}

MCContinue == {{"continue", "tail"}}

MCTail == {{"note", "tail"}}
=============================================================================
