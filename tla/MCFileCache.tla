----------------------------- MODULE MCFileCache -----------------------------
(***************************************************************************)
(* Small instances of FileCache: two spellings of one file and a second    *)
(* file, two texts of one size and one of another.  Left out of the        *)
(* passing instance: that a path whose content did not reach the context   *)
(* is read again while the file is as it was (MCLarge, MCCut), and changes *)
(* that the fingerprint cannot show (MCQuick, MCBetween).                  *)
(***************************************************************************)
EXTENDS FileCache, TLC

CONSTANTS a, b, c, x, y

MCName == {"x", "./x", "y"}

MCFileOf == [n \in MCName |-> IF n = "y" THEN y ELSE x]

MCText == {a, b, c}

MCSize == [t \in MCText \cup {Torn} |-> IF t = Torn THEN 0 ELSE IF t = c THEN 2 ELSE 1]

MCSymmetry == Permutations({a, b})

MCScenarios == {{"outside", "undo"}, {"outside", "write"}, {"undo", "write", "full"},
                {"large", "cut", "outside"}}

MCLarge == {{"large", "again"}}

MCCut == {{"cut", "again"}}

MCQuick == {{"outside", "quick"}}

MCBetween == {{"outside", "between"}}
=============================================================================
