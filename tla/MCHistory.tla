------------------------------- MODULE MCHistory -------------------------------
EXTENDS History

OneSlice == <<"c1", "c2">>
TwoSlices == <<"c1", "c2", "c3">>

\* n messages from a token on, at distances that take turns: every remainder by four
\* occurs where a page ends.
Regular(n, first, near, far) ==
    {first + (i \div 2) * (near + far) + (i % 2) * near : i \in 0..(n - 1)}

\* Nothing, no more than a batch, a page beyond it, more, too much.
Various ==
    {Regular(n, first, near, far) :
        n \in {0, 1, 4, 5, 7}, first \in {1, 2}, near \in {3, 4}, far \in {3, 4}}

Few == {{}, {1, 4}}

================================================================================
