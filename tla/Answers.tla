------------------------------- MODULE Answers -------------------------------
(***************************************************************************)
(* The questions a screen asks and what it makes of the answers: pages of  *)
(* a list until the last one, the page of a marker, the places for a       *)
(* photo, the track of a day, the history of searches; and what the client *)
(* and the backend make of each other's calls and answers.  The operators  *)
(* are those of the modules below; here each is asked with every bounded   *)
(* input and its answer compared with what the others say of the same.     *)
(***************************************************************************)
EXTENDS AssetQueries, Suggestions, TrackMatching, SearchHistory, Geocoding, WireContract

CONSTANTS Dbs,         \* functions from asset IDs to rows
          Filters,     \* the filters asked with
          Albums, Tags, PageSize,
          PhotoSets,   \* sets of photos to suggest from
          PointLists, TrackPhotos, Zones, MaxGap,
          Stored,      \* what localStorage may hold of the search history
          Entries, MaxTime

ASSUME AnswersAssumption ==
    /\ PageSize \in Nat \ {0} /\ MaxGap \in Nat /\ MaxTime \in Nat
    /\ {NoFilter, NoAlbum} \intersect (Albums \union Tags) = {}

\* The columns of the tables that the queries look at.
Rows == [created : Int, day : Nat, located : BOOLEAN, hidden : BOOLEAN, stackChild : BOOLEAN,
         inHiddenLibrary : BOOLEAN, albums : SUBSET Albums, tags : SUBSET Tags, lon : Int, dir : Seq(STRING)]

ASSUME DbsAssumption ==
    /\ \A db \in Dbs : IsFiniteSet(DOMAIN db) /\ DOMAIN db \subseteq Nat /\ db \in [DOMAIN db -> Rows]
    /\ Filters \subseteq [album : Albums \union {NoFilter}, tag : Tags \union {NoFilter},
                          gps : {"all", "with-gps", "no-gps"}, hidden : {"all", "visible", "hidden"},
                          start : Nat, end : Nat]

ASSUME PlacesAssumption ==
    /\ \A photos \in PhotoSets :
         /\ IsFiniteSet(photos)
         /\ photos \subseteq [time : Int, lon : Int, inAlbum : BOOLEAN, label : STRING,
                              usable : BOOLEAN, dated : BOOLEAN]
    /\ PointLists \subseteq Seq([time : Int, offset : Int, lon : Int, timed : BOOLEAN])
    /\ TrackPhotos \subseteq [clock : Int, naive : BOOLEAN, offset : Int] /\ Zones \subseteq Int
    /\ Stored \subseteq Seq([place : STRING, valid : BOOLEAN, dated : BOOLEAN, at : Int])
    /\ Entries \subseteq [place : STRING, valid : BOOLEAN, dated : BOOLEAN, at : Int]

VARIABLES kind,       \* which question is asked
          question,   \* its input
          answer,     \* what was answered so far
          step        \* pages asked, entries saved, ...: counts up from 0
answersVars == <<kind, question, answer, step>>

------------------------------------------------------------------------------
\* A list, read page by page as long as the answer says that there is another one.
InitPages ==
    /\ kind = "pages" /\ answer = <<>>
    /\ \E db \in Dbs, f \in Filters : question = [db |-> db, f |-> f, more |-> TRUE]

AskPage ==
    /\ kind = "pages" /\ question.more
    /\ LET a == GetAssets(question.db, question.f, step + 1, PageSize)
       IN  /\ answer' = Append(answer, a.items)
           /\ question' = [question EXCEPT !.more = a.hasNextPage]
    /\ step' = step + 1
    /\ UNCHANGED kind

\* A marker of the map is looked up in the grid.
InitFocus ==
    /\ kind = "focus" /\ answer = <<>>
    /\ \E db \in Dbs, album \in Albums \union {NoFilter}, tag \in Tags \union {NoFilter}, mode \in BOOLEAN :
         \E id \in Markers(db, [album |-> album, tag |-> tag, start |-> NoDay, end |-> NoDay]) :
           question = [db |-> db, id |-> id, album |-> album, tag |-> tag, albumMode |-> mode]

AskFocus ==
    /\ kind = "focus" /\ step = 0
    /\ LET target == FocusTarget(question.db, question.id, question.albumMode, question.album, question.tag, PageSize)
       IN  answer' = [items |-> GetAssets(question.db,
                                          [album |-> target.album, tag |-> question.tag, gps |-> "with-gps",
                                           hidden |-> "all", start |-> NoDay, end |-> NoDay],
                                          target.page, PageSize).items]
    /\ step' = 1
    /\ UNCHANGED <<kind, question>>

------------------------------------------------------------------------------
\* The places suggested for a photo.
InitSuggest ==
    /\ kind = "suggest" /\ answer = <<>>
    /\ \E photos \in PhotoSets : \E self \in photos, album \in BOOLEAN :
         question = [photos |-> photos, self |-> self, album |-> album]

AskSuggest ==
    /\ kind = "suggest" /\ step = 0
    /\ \E r \in GetSuggestions(question.photos, question.self, question.album),
          n \in NeighborPoints(question.photos, question.self, 12) :
         answer' = [r |-> r, tabs |-> BuildCategories(r, n, <<>>, question.album)]
    /\ step' = 1
    /\ UNCHANGED <<kind, question>>

\* A photo on a track; a second preview has it with another gap, or not at all.
InitMatch ==
    /\ kind = "match" /\ answer = <<>>
    /\ \E points \in PointLists, photo \in TrackPhotos, zone \in Zones :
         \E track \in ParseGPX(points) :
           /\ Usable(track)
           /\ question = [track |-> track, photo |-> photo, zone |-> zone]

AskMatch ==
    /\ kind = "match" /\ step = 0
    /\ LET m == PreviewPhoto(question.photo, question.track, MaxGap, question.zone)
       IN  \E other \in {Nowhere} \union {Place(0, 1, g) : g \in 0..MaxGap} :
             answer' = [match |-> m, other |-> other, merged |-> MergeMatches(<<m, other>>)]
    /\ step' = 1
    /\ UNCHANGED <<kind, question>>

------------------------------------------------------------------------------
\* The history: what is stored, read and saved again, with time passing.
InitHistory ==
    /\ kind = "history" /\ answer = <<>>
    /\ \E s \in Stored : question = [stored |-> s, saved |-> <<>>, now |-> 0]

Save ==
    /\ kind = "history" /\ step < MaxTime
    /\ \E e \in Entries, wait \in 0..1 :
         /\ question' = [stored |-> SaveToHistory(question.stored, e, step + wait),
                         saved |-> (IF ValidEntry(e) THEN <<[place |-> e.place, at |-> step + wait]>> ELSE <<>>)
                                     \o question.saved,
                         now |-> step + wait]
         /\ answer' = CleanHistory(question'.stored, step + wait)
    /\ step' = step + 1
    /\ UNCHANGED kind

\* A place is searched: by the clients of the chain, twice if the first search fails.
InitGeocode ==
    /\ kind = "geocode" /\ answer = <<>>
    /\ \E first, second \in ForwardAnswers, reverse \in ReverseAnswers, gone \in BOOLEAN :
         question = [first |-> first, second |-> second, reverse |-> reverse, gone |-> gone]

AskGeocoders ==
    /\ kind = "geocode" /\ step = 0
    /\ answer' = [label |-> ReverseGeocode(question.reverse),
                  found |-> GeocodeSearch(question.first, question.second, question.gone)]
    /\ step' = 1
    /\ UNCHANGED <<kind, question>>

\* A call is made, or an answer of some shape comes: what the other side does not take.
InitCall ==
    /\ kind \in {"call", "shape"} /\ answer = <<>>
    /\ \E x \in DOMAIN IF kind = "call" THEN Calls ELSE Guards : question = x

AskCall ==
    /\ kind \in {"call", "shape"} /\ step = 0
    /\ answer' = IF kind = "call" THEN Misunderstood(question) ELSE Refused(question)
    /\ step' = 1
    /\ UNCHANGED <<kind, question>>

AnswersInit ==
    /\ step = 0
    /\ InitPages \/ InitFocus \/ InitSuggest \/ InitMatch \/ InitHistory \/ InitGeocode \/ InitCall

AnswersNext == AskPage \/ AskFocus \/ AskSuggest \/ AskMatch \/ Save \/ AskGeocoders \/ AskCall

AnswersSpec == AnswersInit /\ [][AnswersNext]_answersVars

------------------------------------------------------------------------------
(***************************************************************************)
(* The counts shown beside a list - of albums, tags, days, markers,        *)
(* folders, photos without a place - are the totals of the lists they      *)
(* open, which other queries compute.                                      *)
(***************************************************************************)
Total(db, f) == GetAssets(db, f, 1, PageSize).total

CountsAgree(db, f) ==
    /\ \A a \in DOMAIN GetAlbums(db, Albums, f) :
         GetAlbums(db, Albums, f)[a].filteredCount
           = Total(db, [f EXCEPT !.album = a, !.tag = NoFilter, !.hidden = "all"])
    /\ \A t \in Tags :
         GetTags(db, Tags)[t] = Total(db, [album |-> NoFilter, tag |-> t, gps |-> "all", hidden |-> "all",
                                           start |-> NoDay, end |-> NoDay])
    /\ \A d \in DOMAIN DayCounts(db, f) : DayCounts(db, f)[d] = Total(db, [f EXCEPT !.start = d, !.end = d])
    /\ Cardinality(Markers(db, f)) = Total(db, [f EXCEPT !.gps = "with-gps", !.hidden = "all"])
    /\ MissingLocationCount(db, f) + Total(db, [f EXCEPT !.gps = "with-gps"]) = Total(db, [f EXCEPT !.gps = "all"])
    /\ \A d \in DOMAIN FolderTree(db, f) : FolderTree(db, f)[d] = Cardinality(FolderAssets(db, d, f))
    /\ \A id \in Matching(db, f) : AssetFolder(db[id]) # <<>> => id \in FolderAssets(db, AssetFolder(db[id]), f)

(***************************************************************************)
(* The pages of a list show each of its photos once, in its order, none of *)
(* them is empty unless the list is, and the counts agree.  The page a     *)
(* click on a marker opens is one the photo is on, whatever album, tag or  *)
(* view the click found, when nothing is filtered by date or hidden        *)
(* (getAssetPageInfo does not look at those).                              *)
(***************************************************************************)
ListsAgree ==
    /\ kind = "pages" =>
         /\ \A i \in DOMAIN answer : i > 1 => answer[i] # <<>>
         /\ ~question.more => FlattenSeq(answer) = Ordered(question.db, Matching(question.db, question.f))
         /\ ~question.more => CountsAgree(question.db, question.f)
    /\ kind = "focus" /\ step = 1 => question.id \in ToSet(answer.items)

\* Suggestions name a place once, those of the same day first, in one tab of the day's.
SuggestedIsSound(r, tabs) ==
    LET s == BuildSuggested(r)
        day == Keys(r.sameDay)
    IN  /\ \A i, j \in DOMAIN s : i < j => /\ ClusterKey(s[i]) # ClusterKey(s[j])
                                           /\ ClusterKey(s[j]) \in day => ClusterKey(s[i]) \in day
        /\ r.sameDay # <<>> => s # <<>> /\ ClusterKey(s[1]) \in day
        /\ \A t \in {"sameDay", "twoDay", "weekly"} \intersect DOMAIN tabs :
             \A u \in {"sameDay", "twoDay", "weekly"} \intersect DOMAIN tabs : t = u
        /\ SuggestionCount(tabs) <= Cardinality(question.photos) * Cardinality(DOMAIN tabs)

\* The clock of the photo is not further from those of the track than the look-up reaches.
Reached(q) ==
    LET ahead == Ahead(q.photo, q.zone)
    IN  /\ ahead - q.track[1].offset >= -Padding
        /\ ahead - q.track[Len(q.track)].offset <= Padding

\* A match is on the track, at the closest time and at most MaxGap away; there is none only if
\* the track has nothing to say of that time, or the clocks are too far apart.
MatchIsSound(q, m) ==
    LET t == AssetTime(q.photo, q.zone)
        gaps == {Distance(q.track[i].time, t) : i \in DOMAIN q.track}
        pause == \E i \in 1..Len(q.track)-1 : /\ q.track[i].time < t /\ t <= q.track[i+1].time
                                              /\ q.track[i+1].time - q.track[i].time > MaxGap
        lons == {q.track[i].lon : i \in DOMAIN q.track}
    IN  IF m = Nowhere THEN Reached(q) => Min(gaps) > MaxGap \/ pause
        ELSE /\ m.gap = Min(gaps) /\ m.gap <= MaxGap /\ ~pause
             /\ Min(lons) * m.den <= m.num /\ m.num <= Max(lons) * m.den
             /\ m.gap = 0 => \E i \in DOMAIN q.track : q.track[i].time = t /\ m.num = q.track[i].lon * m.den

\* A name or a place any geocoder of the chain gives is not lost to the others, nor by a retry.
GeocodersHelp(q, a) ==
    /\ (\E i \in DOMAIN q.reverse : Strong(q.reverse[i])) => a.label = "name"
    /\ (\E i \in DOMAIN q.first : q.first[i] = "places") => a.found = "places"
    /\ (\E i \in DOMAIN q.second : q.second[i] = "places") /\ ~q.gone => a.found \in {"places", "nothing"}

\* The places saved last, each once.
Recent(saved, now) ==
    LET firsts == {i \in DOMAIN saved : /\ now - saved[i].at <= TimeToLive
                                        /\ \A j \in 1..i-1 : saved[j].place # saved[i].place}
        order == InOrder(firsts)
    IN  [k \in 1..Min({MaxHistory, Len(order)}) |-> saved[order[k]].place]

\* Whatever was stored, the history that is read names a place once and is not too long;
\* the places saved last are in front, in the order they were saved in.
HistoryIsSound(q, history) ==
    /\ Len(history) <= MaxHistory
    /\ \A i, j \in DOMAIN history : i # j => history[i].place # history[j].place
    /\ IsPrefix(Recent(q.saved, q.now), [i \in DOMAIN history |-> history[i].place])

(***************************************************************************)
(* The places a photo is offered are sound: those of suggestions, those a  *)
(* track gives - the look-up in the database, which compares clocks, loses *)
(* none whose clock is at most the padding off; of several previews the    *)
(* closest match is kept - those of the geocoders, and those of the        *)
(* history of searches.                                                    *)
(***************************************************************************)
PlacesAreSound ==
    /\ kind = "suggest" /\ step = 1 => SuggestedIsSound(answer.r, answer.tabs)
    /\ kind = "match" /\ step = 1 =>
         /\ MatchIsSound(question, answer.match)
         /\ {answer.match, answer.other} # {Nowhere} =>
              /\ answer.merged \in {answer.match, answer.other} \ {Nowhere}
              /\ \A m \in {answer.match, answer.other} \ {Nowhere} : answer.merged.gap <= m.gap
    /\ kind = "geocode" /\ step = 1 => GeocodersHelp(question, answer)
    /\ kind = "history" /\ step > 0 => HistoryIsSound(question, answer)

\* Whatever the tables hold, the guards of the client take every answer the handlers can encode -
\* an empty list is not null, a missing value is one the guard knows of - and a handler reads all
\* that its call says, and is told all that it insists on.
CallsAreUnderstood == kind \in {"call", "shape"} /\ step = 1 => answer = {}
==============================================================================
