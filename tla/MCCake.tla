------------------------------- MODULE MCCake -------------------------------
(* Model checking Cake.                                                    *)
EXTENDS Cake

U(kind, end) == [kind |-> kind, end |-> end]

MCMovies == {
    <<U("headers", 2), U("data", 4), U("audio", 5), U("frame", 6), U("audio", 7),
      U("data", 12), U("frame", 13), U("frame", 14)>>,
    <<U("headers", 4), U("audio", 5), U("audio", 6), U("dropped frame", 7), U("frame", 8),
      U("audio", 9), U("frame", 10)>>,
    <<U("headers", 3), U("data", 4), U("dropped frame", 5), U("bad", 7), U("frame", 8)>>,
    <<U("data", 1), U("bad", 2), U("headers", 4), U("frame", 5)>>,
    <<U("data", 2)>>}

Attach(a, b) == [s \in {0, 1} |-> IF s = 0 THEN a ELSE b]
MCAttachments == {Attach(0, 0), Attach(1, 0), Attach(0, 1), Attach(1, 1),
                  Attach(1, 2), Attach(2, 0), Attach(2, 1)}
=============================================================================
