--------------------------- MODULE MCCandidateSearch ---------------------------
(***************************************************************************)
(* A small instance of CandidateSearch.  Titles and names have two or three *)
(* letters; "lv" is the alias of the keyword live.                          *)
(***************************************************************************)
EXTENDS CandidateSearch

Letters   == {"a", "b", "l", "v"}
CaseOf    == [A |-> "a", B |-> "b"]
Aliases   == [live |-> {<<"l", "v">>, <<"l">>}, mono |-> {<<"v">>}]
InOrder   == <<"musicbrainz", "wikidata", "acoustid">>

Title   == <<"a", "b">>
Shouted == <<"-", "A", "B", "!">>        \* normalises to Title
Concert == <<"a", "b", "(", "l", "v", ")">>
Away    == <<"b", "-", "l">>             \* similarity 1/3 to Title
Ann     == <<"A">>
Bob     == <<"b">>
Sign    == <<"*">>                       \* normalises to nothing

Observed(title, duration, fingerprint) ==
    [title |-> title, artists |-> <<Ann>>, album |-> Title, duration |-> duration,
     fingerprint |-> fingerprint]
TwoObservations == {Observed(Shouted, 100000, TRUE), Observed(Concert, None, TRUE)}

Found(id, title, artists, isrc, release, duration, payload) ==
    [id |-> id, title |-> title, artists |-> artists, isrc |-> isrc, release |-> release,
     duration |-> duration, payload |-> payload]

Album  == [id |-> "r", title |-> Title]
Live   == [id |-> "s", title |-> Away]
MB1    == Found("x", Title, <<Ann>>, None, Live, 109000, "p1")
MB2    == Found("y", Concert, <<Bob, Ann>>, <<"a">>, Album, 101000, "p1")
MB3    == Found("z", Concert, <<Bob, Sign>>, <<"A">>, Album, None, "p1")
Double == Found("x", Title, <<Ann, Ann>>, None, None, None, "p2")
WD1    == Found("q", Title, <<>>, None, None, None, "p3")
AC1    == Found("x", Title, <<Ann>>, None, None, 150000, "p4")
AC2    == Found("w", Shouted, <<Ann>>, None, Album, 150000, "p4")

SomeAnswers ==
    [musicbrainz |-> {<<MB1>>, <<MB2, MB3>>, <<Double>>},
     wikidata    |-> {<<>>, <<WD1>>, <<WD1, WD1>>},
     acoustid    |-> {<<AC1, AC2>>}]

Ids8 == <<"musicbrainz", "x">> :> 5 @@ <<"musicbrainz", "y">> :> 2 @@ <<"musicbrainz", "z">> :> 7
        @@ <<"wikidata", "q">> :> 4 @@ <<"acoustid", "x">> :> 1 @@ <<"acoustid", "w">> :> 6

OldOnes   == {<<"musicbrainz", MB2>>}
OneImport == {[id |-> 3, title |-> Title, artists |-> <<Bob>>, duration |-> None, isrc |-> None]}
===============================================================================
