--------------------------- MODULE MCGotthSession ---------------------------
EXTENDS GotthSession, TLC

\* Two regions and three pages: one region changes, or the other, or both.
MCPage ==
    {("count" :> 0) @@ ("list" :> 0),
     ("count" :> 1) @@ ("list" :> 0),
     ("count" :> 1) @@ ("list" :> 1)}
=============================================================================
