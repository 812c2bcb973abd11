--------------------------- MODULE MCTrackStorage ---------------------------
(* Track ids, keys and names for TLC: every path of up to three elements,   *)
(* and the keys of all objects, also as a sloppy caller would write them.   *)
EXTENDS TrackStorage

MCWords == {"raw", "a", "ab", "files"}
MCLonger == {<<"ab", "a">>}
Elements == {"", ".", "..", " ", "a", "ab"}
MCIds == UNION {[1 .. n -> Elements] : n \in 1 .. 3} \cup {<<"a b">>}
Stored == {<<"raw", w, ext>> : w \in {"a", "ab"}, ext \in {".mp3", ".wav", ".m4a"}}
MCKeys == Stored
          \cup {<<"">> \o k : k \in Stored}
          \cup {<<"", "">> \o k : k \in Stored}
          \cup {<<".", "raw", "..">> \o k : k \in Stored}
          \cup {<<"">>, <<"", "..">>, <<" ">>, <<"raw", "a">>}
\* "/files/", as in https://host/files/
MCBasePath == <<"", "files", "">>
=============================================================================
