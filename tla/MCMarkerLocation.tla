--------------------------- MODULE MCMarkerLocation ---------------------------
EXTENDS MarkerLocation, TLC

\* Three lines: the first is similar to the second and the second to the third, and the
\* third has less than half in common with the first.
ChainOfLines == "a" :> {1, 2, 3} @@ "b" :> {2, 3, 4} @@ "c" :> {3, 4, 5}

================================================================================
