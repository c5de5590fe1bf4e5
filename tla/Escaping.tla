------------------------------ MODULE Escaping ------------------------------
(***************************************************************************)
(* The escaping of packet data.  lwmux puts a marker after every 0 0 1 in  *)
(* the audio it writes (src/lwmux/lwmux_escape.cpp), so that no MPEG start *)
(* code appears in it; the demultiplexer takes the markers out again.      *)
(***************************************************************************)
EXTENDS Integers, Sequences, SequencesExt

Marker == 254
StartCode == <<0, 0, 1>>

EndsStartCode(s, i) == i >= 3 /\ SubSeq(s, i - 2, i) = StartCode

\* lwmGenerateEscapedBytes.
Escape(s) ==
    FlattenSeq([i \in DOMAIN s |->
        IF EndsStartCode(s, i) THEN <<s[i], Marker>> ELSE <<s[i]>>])

\* UnescapePacket.  It looks at the last four bytes of its input, and copies
\* what is shorter than that.
Unescape(s) ==
    FlattenSeq([i \in DOMAIN s |->
        IF i >= 4 /\ SubSeq(s, i - 3, i) = Append(StartCode, Marker)
        THEN <<>> ELSE <<s[i]>>])
=============================================================================
