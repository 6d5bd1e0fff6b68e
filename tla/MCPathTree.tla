----------------------------- MODULE MCPathTree -----------------------------
(***************************************************************************)
(* An instance of PathTreeSpec for TLC: routes of up to three segments.    *)
(***************************************************************************)
EXTENDS PathTreeSpec

CONSTANTS a, b, c, px, py, w

\* c is in request paths only.  Every shape of conflict: static and parameter siblings, parameters with
\* different names, wildcards next to others and before other segments.
MCRoutes ==
    {<<>>, <<a>>, <<b>>, <<px>>, <<w>>, <<a, b>>, <<a, px>>, <<a, py>>, <<a, w>>,
     <<px, a>>, <<px, b>>, <<w, a>>, <<a, px, b>>, <<a, b, b>>, <<b, a, b>>,
     <<py>>, <<b, w>>, <<px, px>>}
=============================================================================
