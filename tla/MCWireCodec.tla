----------------------------- MODULE MCWireCodec -----------------------------
EXTENDS WireCodec

(* No header, every value of up to two symbols under a plain key, and every *)
(* key of one symbol, alone.                                                *)
Symbols == {"BS", "LF", "CR", ":", "n", "VT"}
SmallHeaders ==
    {<<>>} \cup {(<<"k">> :> v) : v \in BoundedSeq(Symbols, 2)}
           \cup {(<<x>> :> <<"a">>) : x \in Symbols}

SmallBodies == {<<>>, <<"a">>, <<"LF", "e'">>, <<"NUL", "a">>, <<"a", "NUL">>}

(* No blank line, no colon, an unknown and an unfinished escape, a length   *)
(* that is not the body's, no command.                                      *)
SmallGarbage ==
    {<<"a">>,
     <<"MESSAGE", "LF", "k", "LF", "LF", "NUL">>,
     <<"MESSAGE", "LF", "k", ":", "BS", "a", "LF", "LF", "NUL">>,
     <<"MESSAGE", "LF", "k", ":", "BS", "LF", "LF", "NUL">>,
     <<"MESSAGE", "LF", "content-length", ":", "2", "LF", "LF", "a", "NUL">>,
     <<"LF", "k", ":", "a", "LF", "LF", "NUL">>}
=============================================================================
