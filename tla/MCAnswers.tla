------------------------------ MODULE MCAnswers ------------------------------
(* Bounded inputs for Answers. *)
EXTENDS Answers

Row(c, d, loc, hid, stack, lib, as, ts, dir) ==
    [created |-> c, day |-> d, located |-> loc, hidden |-> hid, stackChild |-> stack, inHiddenLibrary |-> lib,
     albums |-> as, tags |-> ts, lon |-> c, dir |-> dir]

\* Rows that differ in what the queries look at, two of them equal but for their ID.
MCRows ==
    { Row(1, 1, TRUE,  FALSE, FALSE, FALSE, {"x"},      {"t"}, <<"/", "a">>),
      Row(2, 1, TRUE,  FALSE, FALSE, FALSE, {},         {"t"}, <<"/", "a", "b">>),
      Row(1, 2, FALSE, FALSE, FALSE, FALSE, {"x"},      {},    <<"/", "a">>),
      Row(2, 0, TRUE,  TRUE,  FALSE, FALSE, {"x", "y"}, {},    <<"/">>),
      Row(1, 2, TRUE,  FALSE, FALSE, FALSE, {"y"},      {"t"}, <<"b">>),
      Row(2, 2, FALSE, TRUE,  FALSE, FALSE, {"y"},      {"t"}, <<>>),
      Row(1, 1, TRUE,  FALSE, TRUE,  FALSE, {"x"},      {"t"}, <<"/", "a">>),
      Row(2, 1, TRUE,  FALSE, FALSE, TRUE,  {"x"},      {"t"}, <<"/", "c">>) }

MCDbs == {db \in [1..3 -> MCRows] : db[3].day = 1 /\ db[3].located}

MCFilters ==
    [album : {"any", "x"}, tag : {"any", "t"}, gps : {"all", "with-gps"}, hidden : {"visible", "all"},
     start : {0, 2}, end : {0}]
    \union [album : {"any", "x"}, tag : {"any"}, gps : {"no-gps"}, hidden : {"hidden", "all"},
            start : {0, 1}, end : {1}]

MCConfigured == <<"here", "google">>
MCZones == {-3, 0, 2}

MCPhotos ==
    [time : {0, 12, 49}, lon : {4, 6, 15}, inAlbum : BOOLEAN, label : {"none"},
     usable : {TRUE}, dated : {TRUE}]
    \union [time : {0}, lon : {5}, inAlbum : {TRUE}, label : {"p", "q"}, usable : {TRUE}, dated : BOOLEAN]

MCPhotoSets == {S \in kSubset(3, MCPhotos) : \E p \in S : p.time = 0}

\* Tracks in UTC and in the clocks of two zones, one further off than the look-up reaches.
MCPoints == [time : {0, 1, 4, 6}, lon : {1}, timed : {TRUE}, offset : {0}]
            \union {[time |-> 3, lon |-> 4, timed |-> TRUE, offset |-> 2],
                    [time |-> 4, lon |-> 4, timed |-> TRUE, offset |-> -2],
                    [time |-> 2, lon |-> 7, timed |-> FALSE, offset |-> 0]}
MCPointLists == [1..3 -> MCPoints]
MCTrackPhotos == [clock : -3..8, naive : {TRUE}, offset : {0}] \union [clock : -3..8, naive : {FALSE}, offset : {0, 3}]

MCEntries == [place : {"p", "q", "r"}, valid : {TRUE}, dated : {TRUE}, at : {0}]
             \union {[place |-> "p", valid |-> FALSE, dated |-> FALSE, at |-> 0]}
MCStored == UNION {[1..n -> [place : {"p", "q"}, valid : BOOLEAN, dated : {TRUE}, at : {-1, 2}]
                            \union {[place |-> "r", valid |-> TRUE, dated |-> FALSE, at |-> 0]}] : n \in 0..2}
==============================================================================
