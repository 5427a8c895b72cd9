--------------------------- MODULE MCServerStart ----------------------------
(***************************************************************************)
(* Small instances of ServerStart: which faults meet in one behaviour.     *)
(* Left out of the passing instance: a lim that starts next to a server    *)
(* that is starting kills it (MCRace); a /tmp that is cleaned while a lim  *)
(* is live, and lims of different ports beside a cleaned /tmp, beside a    *)
(* foreign program or racing; a viewer with a crash, a race or a slow      *)
(* server.                                                                 *)
(***************************************************************************)
EXTENDS ServerStart

MCScenarios ==
    {{"crash", "port"}, {"crash", "foreign"}, {"crash", "clean"}, {"crash", "slow"}, {"race"},
     {"client", "port"}, {"stuck", "port"}}

MCRace == {{"race"}}
=============================================================================
