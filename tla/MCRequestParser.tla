-------------------------- MODULE MCRequestParser ---------------------------
(* Requests with every kind of character in every field that takes it, with  *)
(* no, one or two headers, folded or not, for TLC.                           *)
EXTENDS RequestParser

H(name, lines) == [name |-> name, lines |-> lines]

MCMethods == {<<"x">>, <<"H", "1", "T">>}
MCUris == {<<"/">>, <<"/", "x">>, <<"/", "/", "high">>, <<"/", "<", ":", "/", "P", "/", "1">>}
MCNumbers == {<<"1">>, <<"1", "1">>}
MCHeaders == {
    << >>,
    << H(<<"x">>, << <<>> >>) >>,
    << H(<<"x", "1">>, << <<"space", ":", "x">> >>), H(<<"T">>, << <<"/", "high">> >>) >>,
    << H(<<"T">>, << <<"x">>, <<>>, <<"1", "space">> >>), H(<<"x">>, << <<>>, <<"x">> >>) >>}
MCBodies == {<< >>, <<"x", "cr", "ctl">>}

MCRequests == [method : MCMethods, uri : MCUris, major : MCNumbers, minor : MCNumbers,
               headers : MCHeaders, body : MCBodies]
=============================================================================
