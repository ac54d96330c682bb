---------------------------- MODULE SearchHistory ----------------------------
(***************************************************************************)
(* The places searched for before (searchHistory.ts): a list in            *)
(* localStorage, cleaned when it is read.  An entry has a place, which is  *)
(* its coordinates to three decimals, and the time it was saved.  What is  *)
(* stored may be anything another version of the program left there.       *)
(***************************************************************************)
EXTENDS Integers, SequencesExt, Ranking

CONSTANTS MaxHistory,   \* PLACE_SEARCH_HISTORY_MAX_ITEMS
          TimeToLive    \* PLACE_SEARCH_HISTORY_TTL_MS

ASSUME HistoryLimits == MaxHistory \in Nat \ {0} /\ TimeToLive \in Nat

\* isTHistoryEntry and normalizeEntry; an entry without a time was saved now.
ValidEntry(e) == e.valid
SavedAt(e, now) == IF e.dated THEN Max({0, e.at}) ELSE now

\* cleanHistory: the first of every place, unless it is too old; a later one may follow it.
CleanHistory(list, now) ==
    LET fresh == {i \in DOMAIN list : ValidEntry(list[i]) /\ now - SavedAt(list[i], now) <= TimeToLive}
        kept == InOrder({i \in fresh : \A j \in fresh : j < i => list[j].place # list[i].place})
    IN  [k \in 1..Min({MaxHistory, Len(kept)}) |->
           [list[kept[k]] EXCEPT !.at = SavedAt(list[kept[k]], now), !.dated = TRUE]]

\* Mutant of SaveToHistory: the place stays where it was, and is saved again.
SaveAgain(list, e, now) ==
    LET next == <<[e EXCEPT !.at = now, !.dated = TRUE]>> \o CleanHistory(list, now)
    IN  SubSeq(next, 1, Min({MaxHistory, Len(next)}))

\* saveToHistory, serializeHistory; an entry that is not valid is not saved.
SaveToHistory(list, e, now) ==
    LET clean == CleanHistory(list, now)
        others == InOrder({i \in DOMAIN clean : clean[i].place # e.place})
        next == <<[e EXCEPT !.at = now, !.dated = TRUE]>> \o [k \in DOMAIN others |-> clean[others[k]]]
    IN  IF ValidEntry(e) THEN SubSeq(next, 1, Min({MaxHistory, Len(next)})) ELSE list
==============================================================================
