----------------------------- MODULE Suggestions -----------------------------
(***************************************************************************)
(* The places suggested for a photo: suggestionService.go and the queries  *)
(* of database.go it asks, and what useSuggestions.ts makes of the answer. *)
(* A photo is a record of its time (in hours), one coordinate (in tenths   *)
(* of a cell), its album, its label and whether it is suggested from.      *)
(* Where the code depends on the order of a Go map, or on an unstable      *)
(* sort, the result is a set of possible answers.                          *)
(***************************************************************************)
EXTENDS Integers, SequencesExt, Ranking

CONSTANTS MaxClusters,   \* maxClusterResults
          MaxNeighbors,  \* neighborLimit
          MaxSuggested,  \* SUGGESTION_PANEL_MAX_ITEMS
          MaxFrequent    \* SUGGESTION_PANEL_FREQUENT_MAX_ITEMS

ASSUME SuggestionLimits == {MaxClusters, MaxNeighbors, MaxSuggested, MaxFrequent} \subseteq Nat \ {0}

Distance(a, b) == IF a > b THEN a - b ELSE b - a

\* math.Round of a coordinate, or of the average of several, to the cell it is in.
RoundCoordinate(sum, count) == (sum + 5 * count) \div (10 * count)

\* getSameDayAssets, and filterByHourRange for the narrower windows.
WithinHours(photos, ref, hours) == {p \in photos : p.usable /\ p.dated /\ Distance(p.time, ref) <= hours}

\* getGeolocatedAssetsByAlbum
OfTheAlbum(photos) == {p \in photos : p.usable /\ p.inAlbum}

SumOf(ps) == MapThenFoldSet(+, 0, LAMBDA p : p.lon, LAMBDA S : CHOOSE x \in S : TRUE, ps)

\* mostFrequentLabel: the names the most photos have; without any the coordinates.
MostFrequentLabels(ps) ==
    LET named == {p \in ps : p.label # "none"}
        hits(l) == Cardinality({p \in named : p.label = l})
        all == {p.label : p \in named}
    IN  IF all = {} THEN {"coords"} ELSE {l \in all : \A m \in all : hits(l) >= hits(m)}

\* One cluster: the average of the photos whose coordinates round alike, and its label.
Clusters(ps) == [sum : {SumOf(ps)}, count : {Cardinality(ps)}, label : MostFrequentLabels(ps)]

\* clusterAssets: the biggest clusters, in some order among equals.
ClusterAssets(ps) ==
    LET cells == {RoundCoordinate(p.lon, 1) : p \in ps}
        of(c) == {p \in ps : RoundCoordinate(p.lon, 1) = c}
        n == Min({MaxClusters, Cardinality(cells)})
        orders == {o \in [1..n -> cells] :
                     /\ \A i, j \in 1..n : i < j => o[i] # o[j] /\ Cardinality(of(o[i])) >= Cardinality(of(o[j]))
                     /\ \A c \in cells \ {o[i] : i \in 1..n} : \A i \in 1..n : Cardinality(of(o[i])) >= Cardinality(of(c))}
    IN  UNION {{s \in [1..n -> UNION {Clusters(of(c)) : c \in cells}] : \A i \in 1..n : s[i] \in Clusters(of(o[i]))}
               : o \in orders}

\* getNeighborAssets and buildNeighborPoints: the closest photos, not the photo itself.
NeighborPoints(photos, self, hours) ==
    LET near == WithinHours(photos \ {self}, self.time, hours)
        n == Min({MaxNeighbors, Cardinality(near)})
    IN  {s \in [1..n -> near] :
           /\ \A i, j \in 1..n : i < j => s[i] # s[j]
                                          /\ Distance(s[i].time, self.time) <= Distance(s[j].time, self.time)
           /\ \A p \in near \ {s[i] : i \in 1..n} : \A i \in 1..n :
                Distance(p.time, self.time) >= Distance(s[i].time, self.time)}

\* getSuggestions; an album is given or not.
GetSuggestions(photos, self, album) ==
    [sameDay : ClusterAssets(WithinHours(photos, self.time, 12)),
     twoDay : ClusterAssets(WithinHours(photos, self.time, 48)),
     weekly : ClusterAssets(WithinHours(photos, self.time, 168)),
     album : IF album THEN ClusterAssets(OfTheAlbum(photos)) ELSE {<<>>}]

------------------------------------------------------------------------------
\* useSuggestions.ts

ClusterKey(c) == RoundCoordinate(c.sum, c.count)
Keys(clusters) == {ClusterKey(c) : c \in ToSet(clusters)}

Score(r, key) ==
    (CASE key \in Keys(r.sameDay) -> 6
       [] key \notin Keys(r.sameDay) /\ key \in Keys(r.twoDay) -> 4
       [] key \notin Keys(r.sameDay) \union Keys(r.twoDay) /\ key \in Keys(r.weekly) -> 2
       [] OTHER -> 0) + (IF key \in Keys(r.album) THEN 1 ELSE 0)

\* buildSuggested: of every place the cluster that comes first, by score, then by count.
BuildSuggested(r) ==
    LET all == r.album \o r.sameDay \o r.twoDay \o r.weekly
        firsts == {i \in DOMAIN all : \A j \in 1..i-1 : ClusterKey(all[j]) # ClusterKey(all[i])}
        scored == {[cluster |-> all[i], score |-> Score(r, ClusterKey(all[i])), at |-> i] : i \in firsts}
        above(x, y) == \/ x.score > y.score
                       \/ /\ x.score = y.score
                          /\ x.cluster.count > y.cluster.count \/ (x.cluster.count = y.cluster.count /\ x.at < y.at)
        order == Sorted(scored, {p \in scored \X scored : above(p[1], p[2])})
    IN  [i \in 1..Min({MaxSuggested, Len(order)}) |-> order[i].cluster]

(***************************************************************************)
(* buildCategories and useSuggestionState: the tabs that have something    *)
(* and what each may show; of the windows only the narrowest.  Neighbours  *)
(* and frequent places are given, the latter not while an album is open.   *)
(***************************************************************************)
BuildCategories(r, neighbors, frequent, albumOpen) ==
    LET tabs == [suggested |-> BuildSuggested(r),
                 neighbor |-> neighbors,
                 album |-> r.album,
                 sameDay |-> r.sameDay,
                 twoDay |-> IF r.sameDay = <<>> THEN r.twoDay ELSE <<>>,
                 weekly |-> IF r.sameDay = <<>> /\ r.twoDay = <<>> THEN r.weekly ELSE <<>>,
                 frequent |-> IF albumOpen THEN <<>> ELSE frequent]
    IN  [t \in {t \in DOMAIN tabs : tabs[t] # <<>>} |-> tabs[t]]

\* resolveMaxItemsForCategory and the slice of SuggestionsPill.
ShownInTab(tabs, t) ==
    LET most == CASE t = "frequent" -> MaxFrequent [] t = "neighbor" -> MaxNeighbors [] OTHER -> MaxSuggested
    IN  SubSeq(tabs[t], 1, Min({most, Len(tabs[t])}))

\* suggestionCount: the different clusters in front of each tab, the frequent ones aside.
SuggestionCount(tabs) ==
    Cardinality(UNION {ToSet(SubSeq(tabs[t], 1, Min({MaxSuggested, Len(tabs[t])}))) :
                       t \in DOMAIN tabs \ {"frequent"}})
==============================================================================
