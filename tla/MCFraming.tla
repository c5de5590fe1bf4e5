----------------------------- MODULE MCFraming -----------------------------
(* Model checking the container: small movies, and audio packets of every  *)
(* few bytes there are.                                                    *)
EXTENDS Framing

P(type, stream, data) == [type |-> type, stream |-> stream, data |-> data]
Movie(video, streams, packets) == [video |-> video, streams |-> streams, packets |-> packets]

AudioBytes == {s \in BoundedSeq({0, 1, 254}, 4) : s # <<>>}
    \cup {<<0, 0, 1, 0, 0, 1>>, <<0, 0, 1, 254, 0, 0, 1>>, <<0, 0, 1, 0, 0, 1, 254>>}

AudioMovies == {Movie(RoQ, 1, <<P(AudioFrame, 0, s), P(AudioSync, 0, <<8>>), P(VideoSync, 0, <<9>>)>>) :
                    s \in AudioBytes}

MCFragile == {
    Movie(M1V, 2, <<P(VideoParameters, 0, <<7>>), P(VideoData, 0, <<1, 2, 3>>),
                    P(AudioFrame, 1, <<0, 0, 1>>), P(AudioSync, 0, <<8>>),
                    P(VideoSync, 0, <<9>>)>>),
    Movie(RoQ, 0, <<P(VideoData, 0, <<1, 2, 3, 4>>), P(VideoSync, 0, <<9>>)>>),
    Movie(RoQ, 1, <<P(VideoData, 0, <<1, 2>>), P(AudioFrame, 0, <<1, 0, 0, 1, 5>>),
                    P(AudioSync, 0, <<8>>), P(VideoSync, 0, <<9>>)>>)}

MCMovies == MCFragile \cup AudioMovies
=============================================================================
