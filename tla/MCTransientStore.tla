--------------------------- MODULE MCTransientStore ---------------------------
\* Three Persist calls on the transient store: for three transactions at one height, and for
\* one transaction at two heights, twice at one of them.
EXTENDS TransientStore

Calls ==
    {<< <<1, 1>>, <<2, 1>>, <<3, 1>> >>,
     << <<1, 1>>, <<1, 2>>, <<1, 1>> >>}
=============================================================================
