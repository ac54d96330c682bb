---------------------------- MODULE TrackMatching ----------------------------
(***************************************************************************)
(* Photos placed along a recorded track: gpxService.go, the two preview    *)
(* handlers that call it (handlersGPX.go, handlersDawarich.go), and the    *)
(* merge of several previews in GPXImportPanel.tsx.  A track is a sequence *)
(* of points with a time, the offset it is written with (any, in a file;   *)
(* Dawarich's are UTC) and one coordinate.  A photo has the time on its    *)
(* clock, which is of the offset it says, or of a zone it does not say.    *)
(***************************************************************************)
EXTENDS Integers, SequencesExt

CONSTANT Padding       \* tzPadding: fifteen hours
ASSUME PaddingAssumption == Padding \in Nat

\* parseGPX: the points that have a time, in its order - sort.Slice leaves those of the same
\* time in some order - of which two are needed.
ParseGPX(points) ==
    LET timed == {i \in DOMAIN points : points[i].timed}
        n == Cardinality(timed)
        orders == {o \in [1..n -> timed] :
                     \A i, j \in 1..n : i < j => o[i] # o[j] /\ points[o[i]].time <= points[o[j]].time}
    IN  {[k \in 1..n |-> points[o[k]]] : o \in orders}
Usable(track) == Len(track) >= 2

\* resolveTimezone: the zone of the middle point, as the offset of its clock.
Middle(track) == track[(Len(track) \div 2) + 1]

\* The time of a photo: a naive one is read in the zone of the track.
Ahead(photo, zone) == IF photo.naive THEN zone ELSE photo.offset
AssetTime(photo, zone) == photo.clock - Ahead(photo, zone)

(***************************************************************************)
(* getAssetsWithTimestamps compares the text of the times: the clock of    *)
(* the photo with the clocks that the ends of the track are written in.    *)
(***************************************************************************)
Clock(point) == point.time + point.offset
InWindow(photo, track, maxGap, padding) ==
    /\ photo.clock >= Clock(track[1]) - maxGap - padding
    /\ photo.clock <= Clock(track[Len(track)]) + maxGap + padding

Nowhere == [at |-> "nowhere"]
Place(num, den, gap) == [at |-> "place", num |-> num, den |-> den, gap |-> gap]

\* Mutant of MatchAsset: between two points the gap of the photo to the first one counts.
MatchBefore(time, track, maxGap) ==
    LET n == Len(track)
        idx == Min({i \in 1..n : track[i].time >= time} \union {n + 1})
        before == track[idx - 1]
        after == track[idx]
    IN  CASE time < track[1].time - maxGap \/ time > track[n].time + maxGap -> Nowhere
          [] time >= track[1].time - maxGap /\ idx = 1 -> Place(track[1].lon, 1, track[1].time - time)
          [] time <= track[n].time + maxGap /\ idx > n -> Place(track[n].lon, 1, time - track[n].time)
          [] OTHER -> IF after.time - before.time > maxGap THEN Nowhere
                      ELSE Place(before.lon * (after.time - before.time)
                                   + (time - before.time) * (after.lon - before.lon),
                                 after.time - before.time, time - before.time)

(***************************************************************************)
(* matchAssetsToTrack, one photo: its ends reach maxGap beyond the track;  *)
(* between two points that are not further apart it is on the line between *)
(* them, as a fraction, and its gap is that to the closer one.             *)
(***************************************************************************)
MatchAsset(time, track, maxGap) ==
    LET n == Len(track)
        idx == Min({i \in 1..n : track[i].time >= time} \union {n + 1})
        before == track[idx - 1]
        after == track[idx]
    IN  CASE time < track[1].time - maxGap \/ time > track[n].time + maxGap -> Nowhere
          [] time >= track[1].time - maxGap /\ idx = 1 -> Place(track[1].lon, 1, track[1].time - time)
          [] time <= track[n].time + maxGap /\ idx > n -> Place(track[n].lon, 1, time - track[n].time)
          [] OTHER -> IF after.time - before.time > maxGap THEN Nowhere
                      ELSE Place(before.lon * (after.time - before.time)
                                   + (time - before.time) * (after.lon - before.lon),
                                 after.time - before.time,
                                 Min({time - before.time, after.time - time}))

\* handleGPXPreview and handleDawarichPreview: one photo, looked up and matched.
PreviewPhoto(photo, track, maxGap, zone) ==
    IF InWindow(photo, track, maxGap, Padding)
    THEN MatchAsset(AssetTime(photo, zone), track, maxGap)
    ELSE Nowhere

\* buildTrackSummary: at most max points, evenly spaced from the first to the last.
TrackSummary(track, max) ==
    IF Len(track) <= max THEN track
    ELSE [i \in 1..max |-> track[1 + ((i - 1) * (Len(track) - 1)) \div (max - 1)]]

\* mergeAndDeduplicateMatches: of several previews the match with the smallest gap, the
\* first among equals.
MergeMatches(matches) ==
    LET placed == {i \in DOMAIN matches : matches[i] # Nowhere}
        best == {i \in placed : \A j \in placed : matches[i].gap <= matches[j].gap}
    IN  IF placed = {} THEN Nowhere ELSE matches[Min(best)]

\* matchesGPXStatusFilter
OfStatus(filter, applied, existing) ==
    CASE filter = "all" -> TRUE
      [] filter = "alreadySet" -> applied
      [] filter = "new" -> ~applied /\ ~existing
      [] filter = "edited" -> ~applied /\ existing
==============================================================================
