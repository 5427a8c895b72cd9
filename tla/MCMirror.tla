------------------------------ MODULE MCMirror ------------------------------
(***************************************************************************)
(* Small instances of Mirror.  Three behaviours are left out of the        *)
(* passing one: the note of a load (MCNote); a mirror that is re-armed by  *)
(* /undo after a correction overtook the rows it had when the main cache   *)
(* was exhausted (MCOvertaken); and one that is re-armed after a feed was  *)
(* too long while the mirror had rows of rejected drafts ahead of the main *)
(* cache, which was refilled since (MCOversize).                           *)
(***************************************************************************)
EXTENDS Mirror, TLC

MCSymmetry == Permutations(Token)

MCScenarios ==
    {{"exhaust", "load", "undo"}, {"correct", "undo"}, {"exhaust", "correct"}, {"low"},
     {"oversize", "correct", "load"}}

MCNote == {{"load", "note"}}

MCOvertaken == {{"exhaust", "correct", "undo"}}

MCOversize == {{"oversize", "undo"}}
=============================================================================
