------------------------ MODULE SelectionFlow_proofs ------------------------
(***************************************************************************)
(* The selection, its undo history and the save, for any photos, places,   *)
(* depth of the history and number of edits and failures: the history      *)
(* loses nothing, what counts as saved or as applied is so at the backend, *)
(* and after a save that failed in part the next one sends what failed.    *)
(***************************************************************************)
EXTENDS SelectionFlow, SequenceTheorems, FiniteSetTheorems, TLAPS

------------------------------------------------------------------------------
(* Stacks.  What holds of every entry is said by the set S they are from.   *)

\* The history is no longer than MaxUndo, and has no entries but old ones and the new one.
LEMMA PushedTimesBounds ==
    ASSUME NEW S, NEW s \in Seq(S), NEW e \in S, NEW n \in Nat
    PROVE  PushedTimes(s, e, n) \in Seq(S) /\ Len(PushedTimes(s, e, n)) \in 0..MaxUndo
<1> DEFINE more == [i \in 1..n |-> e]
           all == s \o more
           surplus == IF Len(all) > MaxUndo THEN Len(all) - MaxUndo ELSE 0
<1>1. more \in Seq(S)
  BY SeqDef
<1>2. all \in Seq(S)
  BY <1>1, ConcatProperties
<1>3. Len(all) \in Nat /\ surplus \in Nat /\ Len(all) - surplus \in 0..MaxUndo
  BY <1>2, LenProperties, UndoAssumption
<1>4. \A i \in (surplus + 1)..Len(all) : all[i] \in S
  <2>1. \A i \in (surplus + 1)..Len(all) : i \in 1..Len(all)
    BY <1>3
  <2> QED
    BY <1>2, <2>1, ElementOfSeq
<1>5. PushedTimes(s, e, n) = SubSeq(all, surplus + 1, Len(all))
  BY DEF PushedTimes
<1> HIDE DEF all, surplus
<1>6. /\ SubSeq(all, surplus + 1, Len(all)) \in Seq(S)
      /\ Len(SubSeq(all, surplus + 1, Len(all))) =
           IF surplus + 1 <= Len(all) THEN Len(all) - (surplus + 1) + 1 ELSE 0
  <2>1. surplus + 1 \in Int /\ Len(all) \in Int
    BY <1>3
  <2> QED
    BY <1>4, <2>1, SubSeqProperties
<1> QED
  BY <1>3, <1>5, <1>6, UndoAssumption

\* A stack that is not full takes an entry and drops none.
LEMMA PushedFits ==
    ASSUME NEW S, NEW s \in Seq(S), NEW e \in S, Len(s) < MaxUndo
    PROVE  Pushed(s, e) = Append(s, e) /\ Pushed(s, e) \in Seq(S) /\ Len(Pushed(s, e)) = Len(s) + 1
<1>1. Append(s, e) \in Seq(S) /\ Len(Append(s, e)) = Len(s) + 1 /\ Len(s) \in Nat
  BY AppendProperties, LenProperties
<1>2. ~(Len(Append(s, e)) > MaxUndo)
  BY <1>1, UndoAssumption
<1> QED
  BY <1>1, <1>2 DEF Pushed

\* A stack is its top on what is below it.
LEMMA Popped ==
    ASSUME NEW S, NEW s \in Seq(S), s # <<>>
    PROVE  /\ Front(s) \in Seq(S) /\ Last(s) \in S
           /\ Len(Front(s)) = Len(s) - 1 /\ Len(s) \in Nat \ {0}
           /\ Front(s) \o <<Last(s)>> = s
<1>1. Len(s) \in Nat \ {0}
  BY EmptySeq
<1>2. Last(s) \in S
  BY <1>1, ElementOfSeq DEF Last
<1>3. Front(s) \in Seq(S) /\ Len(Front(s)) = Len(s) - 1
  <2>1. \A i \in 1..(Len(s) - 1) : s[i] \in S
    BY <1>1, ElementOfSeq
  <2>2. 1 \in Int /\ Len(s) - 1 \in Int
    BY <1>1
  <2>3. /\ SubSeq(s, 1, Len(s) - 1) \in Seq(S)
        /\ Len(SubSeq(s, 1, Len(s) - 1)) =
             IF 1 <= Len(s) - 1 THEN (Len(s) - 1) - 1 + 1 ELSE 0
    BY <2>1, <2>2, SubSeqProperties
  <2>4. Front(s) = SubSeq(s, 1, Len(s) - 1)
    BY DEF Front
  <2>5. (IF 1 <= Len(s) - 1 THEN (Len(s) - 1) - 1 + 1 ELSE 0) = Len(s) - 1
    <3> DEFINE n == Len(s)
    <3>1. n \in Nat \ {0}
      BY <1>1
    <3> HIDE DEF n
    <3>2. (IF 1 <= n - 1 THEN (n - 1) - 1 + 1 ELSE 0) = n - 1
      BY <3>1
    <3> QED
      BY <3>2 DEF n
  <2> QED
    BY <2>3, <2>4, <2>5
<1>4. Front(s) \o <<Last(s)>> = s
  <2>1. 1 \in 1..Len(s) /\ Len(s) \in 1..Len(s)
    BY <1>1
  <2>2. SubSeq(s, 1, Len(s)) = SubSeq(s, 1, Len(s) - 1) \o <<s[Len(s)]>>
    BY <2>1, SubSeqRecursiveSecond
  <2> QED
    BY <2>2, SubSeqFull DEF Front, Last
<1> QED
  BY <1>1, <1>2, <1>3, <1>4

LEMMA ReversedAppend ==
    ASSUME NEW S, NEW s \in Seq(S), NEW e \in S
    PROVE  Reverse(s) \in Seq(S) /\ Reverse(Append(s, e)) = <<e>> \o Reverse(s)
<1> DEFINE r == Reverse(s)
           t == Append(s, e)
           u == Reverse(t)
<1>0. Len(s) \in Nat
  BY LenProperties
<1>1. r \in Seq(S) /\ Len(r) = Len(s) /\ \A i \in 1..Len(s) : r[i] = s[Len(s) - i + 1]
  <2>1. r = [i \in 1..Len(s) |-> s[Len(s) - i + 1]]
    BY DEF Reverse
  <2>2. \A i \in 1..Len(s) : s[Len(s) - i + 1] \in S
    BY <1>0, ElementOfSeq
  <2>3. r \in Seq(S)
    BY <1>0, <2>1, <2>2, SeqDef
  <2> HIDE DEF r
  <2>4. DOMAIN r = 1..Len(s) /\ DOMAIN r = 1..Len(r) /\ Len(r) \in Nat
    BY <2>1, <2>3, LenProperties
  <2> QED
    BY <1>0, <2>1, <2>3, <2>4
<1>2. /\ t \in Seq(S) /\ Len(t) = Len(s) + 1
      /\ \A i \in 1..Len(s) : t[i] = s[i]
      /\ t[Len(s) + 1] = e
  BY AppendProperties
<1>3. u \in Seq(S) /\ Len(u) = Len(t) /\ \A i \in 1..Len(t) : u[i] = t[Len(t) - i + 1]
  <2>0. Len(t) \in Nat
    BY <1>0, <1>2
  <2>1. u = [i \in 1..Len(t) |-> t[Len(t) - i + 1]]
    BY DEF Reverse
  <2> HIDE DEF t
  <2>2. \A i \in 1..Len(t) : t[Len(t) - i + 1] \in S
    BY <2>0, <1>2, ElementOfSeq
  <2>3. u \in Seq(S)
    BY <2>0, <2>1, <2>2, SeqDef
  <2> HIDE DEF u
  <2>4. DOMAIN u = 1..Len(t) /\ DOMAIN u = 1..Len(u) /\ Len(u) \in Nat
    BY <2>1, <2>3, LenProperties
  <2> QED
    BY <2>0, <2>1, <2>3, <2>4
<1>4. <<e>> \in Seq(S) /\ Len(<<e>>) = 1 /\ <<e>>[1] = e
  OBVIOUS
<1> HIDE DEF r, t, u
<1>5. /\ <<e>> \o r \in Seq(S) /\ Len(<<e>> \o r) = 1 + Len(s)
      /\ \A i \in 1..(1 + Len(s)) : (<<e>> \o r)[i] = IF i <= 1 THEN <<e>>[i] ELSE r[i - 1]
  BY <1>1, <1>4, ConcatProperties
<1>6. ASSUME NEW i \in 1..Len(u) PROVE u[i] = (<<e>> \o r)[i]
  <2>1. CASE i = 1
    BY <1>0, <1>2, <1>3, <1>4, <1>5, <2>1
  <2>2. CASE i # 1
    <3>1. i - 1 \in 1..Len(s) /\ Len(t) - i + 1 \in 1..Len(s) /\ i \in 1..(1 + Len(s)) /\ ~(i <= 1)
      BY <1>0, <1>2, <1>3, <2>2
    <3>2. r[i - 1] = s[Len(s) - (i - 1) + 1] /\ u[i] = t[Len(t) - i + 1]
      BY <1>1, <1>3, <3>1
    <3>3. Len(s) - (i - 1) + 1 = Len(t) - i + 1
      BY <1>0, <1>2, <3>1
    <3> QED
      BY <1>2, <1>5, <3>1, <3>2, <3>3
  <2> QED
    BY <2>1, <2>2
<1>7. Len(u) = Len(<<e>> \o r)
  BY <1>0, <1>2, <1>3, <1>5
<1>8. u = <<e>> \o r
  BY <1>3, <1>5, <1>6, <1>7, SeqEqual
<1> QED
  BY <1>1, <1>8 DEF r, t, u

------------------------------------------------------------------------------
(* Types                                                                   *)

SaveRecords ==
    [phase : {"idle", "sending", "refresh"}, pending : [Assets -> Locations],
     fallback : Locations, selected : SUBSET Assets, first : SUBSET Assets,
     again : SUBSET Assets, done : SUBSET Assets, failed : SUBSET Assets]

LEMMA LocationTyped ==
    ASSUME NEW p \in Places \union {NoPlace}, NEW source \in Sources, NEW applied \in BOOLEAN
    PROVE  Location(p, source, applied) \in Locations
BY DEF Location, Locations

LEMMA MatchTyped ==
    ASSUME NEW p \in Places \union {NoPlace}, NEW applied \in BOOLEAN,
           NEW original \in Places \union {NoPlace}
    PROVE  /\ Match(p, applied, original) \in Locations
           /\ Match(p, applied, original) = [at |-> p, source |-> "gpx", applied |-> applied,
                                            original |-> original]
BY DEF Match, Location, Locations, Sources

LEMMA NothingTyped ==
    NoLoc \in Locations /\ NoLocs \in [Assets -> Locations] /\ NoSave \in SaveRecords
<1>1. NoLoc \in Locations
  BY DEF NoLoc, Location, Locations
<1>2. NoLocs \in [Assets -> Locations]
  BY <1>1 DEF NoLocs
<1> QED
  BY <1>1, <1>2 DEF NoSave, SaveRecords

LEMMA MergedTyped ==
    ASSUME NEW old \in Locations, NEW new \in Locations
    PROVE  Merged(old, new) \in Locations
<1> DEFINE moved == old.applied /\ new.at # old.at
           said == IF new.source = "gpx" THEN new ELSE old
           left == said.applied /\ ~moved
<1>1. /\ left \in BOOLEAN /\ new.at \in Places \union {NoPlace}
      /\ said.original \in Places \union {NoPlace}
  BY DEF Locations
<1>2. Merged(old, new) \in {new, Match(new.at, left, said.original)}
  BY DEF Merged
<1> HIDE DEF left, said
<1> QED
  BY <1>1, <1>2, MatchTyped

LEMMA WithoutTyped ==
    ASSUME NEW locs \in [Assets -> Locations], NEW T
    PROVE  Without(locs, T) \in [Assets -> Locations]
BY NothingTyped DEF Without

LEMMA SnapshotFields ==
    ASSUME Snapshot \in Snapshots
    PROVE  /\ selected \in SUBSET Assets /\ marker \in Locations
           /\ pending \in [Assets -> Locations] /\ saved \in [Assets -> Locations]
<1>1. /\ Snapshot.selected = selected /\ Snapshot.marker = marker
      /\ Snapshot.pending = pending /\ Snapshot.saved = saved
  BY DEF Snapshot
<1>2. /\ Snapshot.selected \in SUBSET Assets /\ Snapshot.marker \in Locations
      /\ Snapshot.pending \in [Assets -> Locations] /\ Snapshot.saved \in [Assets -> Locations]
  BY DEF Snapshots
<1> QED
  BY <1>1, <1>2

\* What is shown before and after a step.
LEMMA SnapshotTyped ==
    ASSUME selected' \in SUBSET Assets, marker' \in Locations,
           pending' \in [Assets -> Locations], saved' \in [Assets -> Locations]
    PROVE  Snapshot' \in Snapshots
BY DEF Snapshot, Snapshots

\* TypeOK, by its parts.
Shown == Snapshot \in Snapshots
Backend == server \in [Assets -> Places \union {NoPlace}] /\ touched \subseteq Assets /\ stored \subseteq Assets
Bounded == edits \in 0..MaxEdits /\ failures \in 0..MaxFailures
Stacks(S) ==
    /\ undoStack \in Seq(S) /\ redoStack \in Seq(S)
    /\ Len(undoStack) + Len(redoStack) <= MaxUndo

LEMMA TypeParts ==
    /\ TypeOK <=> Shown /\ Backend /\ Bounded /\ Stacks(Snapshots) /\ save \in SaveRecords
    /\ TypeOK' <=> Shown' /\ Backend' /\ Bounded' /\ Stacks(Snapshots)' /\ save' \in SaveRecords
BY DEF TypeOK, Shown, Backend, Bounded, Stacks, SaveRecords, Snapshots, Locations

\* Every edit of places is setLocation, so many times in one event, for some photos; what
\* it calls applied is where the photo is.
Edits ==
    \/ \E a \in Assets : GoTo(a)
    \/ \E p \in Places : \/ Choose({}, p) \/ DragPin(p)
                         \/ \E a \in Assets : Choose({a}, p) \/ MoveMarker(a, p)
                         \/ \E T \in Some : ImportGPX(T, p)
    \/ \E T \in Some : \/ RemoveLocation(T)
                       \/ \E to \in [T -> Places] : MoveGroup(T, to)
                       \/ \E emptied \in BOOLEAN : ResetPosition(T, emptied)

\* What a location calls applied is where the photo is, and so is what it remembers of it.
Told(a, loc) ==
    /\ loc.applied => loc.at = server[a]
    /\ loc.original # NoPlace => loc.original = server[a]

\* It is so in a map of pending locations until a save has a request for the photo.
Placed(locs) == \A a \in Assets \ stored : Told(a, locs[a])

Sets(n, targets, loc, pin) ==
    /\ SetTimes(n, targets, loc, pin)
    /\ selected' \in SUBSET Assets
    /\ \A b \in targets : loc[b] \in Locations /\ (Placed(pending) /\ b \notin stored => Told(b, loc[b]))

LEMMA EditSets ==
    ASSUME TypeOK, Edits
    PROVE  \E n \in Nat, targets \in SUBSET Assets, pin \in Locations : \E loc :
               Sets(n, targets, loc, pin)
<1> DEFINE Goal == \E n \in Nat, targets \in SUBSET Assets, pin \in Locations : \E loc :
                       Sets(n, targets, loc, pin)
<1> SUFFICES Goal
  OBVIOUS
<1>0. /\ selected \in SUBSET Assets /\ server \in [Assets -> Places \union {NoPlace}]
      /\ NoLoc \in Locations /\ 1 \in Nat
      /\ "chosen" \in Sources /\ "drag" \in Sources /\ "goto" \in Sources /\ "gpx" \in Sources
      /\ "remove" \in Sources
  BY TypeParts, SnapshotFields, NothingTyped DEF Shown, Backend, Sources
<1>1. ASSUME NEW n \in Nat, NEW targets \in SUBSET Assets, NEW loc, NEW pin \in Locations,
             SetTimes(n, targets, loc, pin), selected' \in SUBSET Assets,
             \A b \in targets : loc[b] \in Locations /\ (Placed(pending) /\ b \notin stored => Told(b, loc[b]))
      PROVE  Goal
  BY <1>1 DEF Sets
<1>2. ASSUME NEW targets \in SUBSET Assets, NEW q \in Places \union {NoPlace},
             NEW source \in Sources, NEW pin \in Locations,
             SetLocations(targets, [b \in Assets |-> Location(q, source, FALSE)], pin),
             selected' \in SUBSET Assets
      PROVE  Goal
  <2> DEFINE loc == [b \in Assets |-> Location(q, source, FALSE)]
  <2>1. \A b \in targets : loc[b] \in Locations /\ Told(b, loc[b])
    BY LocationTyped DEF Location, Told
  <2> HIDE DEF loc, Goal
  <2> QED
    BY <1>0, <1>1, <1>2, <2>1 DEF SetLocations, loc
<1> HIDE DEF Goal
<1>3. ASSUME NEW a \in Assets, GoTo(a) PROVE Goal
  BY <1>0, <1>2, <1>3 DEF GoTo
<1>4. ASSUME NEW p \in Places, DragPin(p) PROVE Goal
  <2>1. Location(p, "drag", FALSE) \in Locations
    BY <1>0, LocationTyped
  <2>2. SetTimes(1, {}, NoLocs, Location(p, "drag", FALSE)) /\ selected' \in SUBSET Assets
    BY <1>0, <1>4 DEF DragPin, SetLocations
  <2>3. {} \in SUBSET Assets /\ \A b \in {} : NoLocs[b] \in Locations /\ Told(b, NoLocs[b])
    OBVIOUS
  <2> QED
    BY <1>0, <1>1, <2>1, <2>2, <2>3
<1>5. ASSUME NEW T \in SUBSET Assets, NEW p \in Places, Choose(T, p) PROVE Goal
  <2>1. Location(p, "chosen", FALSE) \in Locations
    BY <1>0, LocationTyped
  <2> QED
    BY <1>0, <1>2, <1>5, <2>1 DEF Choose
<1>6. ASSUME NEW a \in Assets, NEW p \in Places, MoveMarker(a, p) PROVE Goal
  <2>1. PICK targets \in {{a}} \union (IF a \in selected THEN {selected} ELSE {}) :
           SetLocations(targets, [b \in Assets |-> Location(p, "drag", FALSE)], NoLoc)
    BY <1>6 DEF MoveMarker
  <2>2. targets \in SUBSET Assets /\ p \in Places \union {NoPlace} /\ selected' \in SUBSET Assets
    BY <1>0, <1>6 DEF MoveMarker
  <2> QED
    BY <1>0, <1>2, <2>1, <2>2
<1>7. ASSUME NEW T \in SUBSET Assets, NEW p \in Places, ImportGPX(T, p) PROVE Goal
  <2> DEFINE loc == [b \in Assets |-> Match(p, server[b] = p, server[b])]
  <2>1. ASSUME NEW b \in T PROVE loc[b] \in Locations /\ Told(b, loc[b])
    <3> DEFINE here == server[b] = p
    <3>1. here \in BOOLEAN /\ loc[b] = Match(p, here, server[b]) /\ server[b] \in Places \union {NoPlace}
      BY <1>0
    <3>2. here => p = server[b]
      OBVIOUS
    <3> HIDE DEF here, loc
    <3>3. /\ loc[b] \in Locations
          /\ loc[b] = [at |-> p, source |-> "gpx", applied |-> here, original |-> server[b]]
      BY <1>0, <3>1, MatchTyped
    <3> QED
      BY <3>2, <3>3 DEF Told
  <2>2. SetTimes(1, T, loc, NoLoc) /\ selected' \in SUBSET Assets
    BY <1>0, <1>7 DEF ImportGPX, SetLocations
  <2> HIDE DEF loc
  <2> QED
    BY <1>0, <1>1, <2>1, <2>2
<1>8. ASSUME NEW T \in SUBSET Assets, NEW to \in [T -> Places], MoveGroup(T, to) PROVE Goal
  <2> DEFINE loc == [b \in Assets |-> IF b \in T THEN Location(to[b], "drag", FALSE) ELSE NoLoc]
  <2>1. ASSUME NEW b \in T PROVE loc[b] \in Locations /\ Told(b, loc[b])
    <3>1. loc[b] = Location(to[b], "drag", FALSE) /\ to[b] \in Places
      OBVIOUS
    <3> QED
      BY <1>0, <3>1, LocationTyped DEF Location, Told
  <2>2. Cardinality(T) \in Nat
    BY AssetsAssumption, FS_Subset, FS_CardinalityType
  <2>3. SetTimes(Cardinality(T), T, loc, NoLoc) /\ selected' \in SUBSET Assets
    BY <1>0, <1>8 DEF MoveGroup
  <2> HIDE DEF loc
  <2> QED
    BY <1>0, <1>1, <2>1, <2>2, <2>3
<1>9. ASSUME NEW T \in SUBSET Assets, RemoveLocation(T) PROVE Goal
  BY <1>0, <1>2, <1>9 DEF RemoveLocation
<1>10. ASSUME NEW T \in SUBSET Assets, NEW emptied \in BOOLEAN, ResetPosition(T, emptied) PROVE Goal
  <2> DEFINE loc == [b \in Assets |-> Match(pending[b].original, TRUE, pending[b].original)]
  <2>1. ASSUME NEW b \in T PROVE loc[b] \in Locations /\ (Placed(pending) /\ b \notin stored => Told(b, loc[b]))
    <3>1. pending[b].original \in Places \union {NoPlace} /\ pending[b].original # NoPlace
      <4>1. pending[b] \in Locations
        BY TypeParts, SnapshotFields DEF Shown
      <4> QED
        BY <1>10, <4>1 DEF ResetPosition, Locations
    <3>2. Placed(pending) /\ b \notin stored => pending[b].original = server[b]
      BY <3>1 DEF Placed, Told
    <3>3. loc[b] = Match(pending[b].original, TRUE, pending[b].original)
      OBVIOUS
    <3> HIDE DEF loc
    <3>4. /\ loc[b] \in Locations
          /\ loc[b] = [at |-> pending[b].original, source |-> "gpx", applied |-> TRUE,
                       original |-> pending[b].original]
      BY <3>1, <3>3, MatchTyped
    <3> QED
      BY <3>2, <3>4 DEF Told
  <2>2. SetTimes(1, T, loc, NoLoc) /\ selected' \in SUBSET Assets
    BY <1>0, <1>10 DEF ResetPosition, SetLocations
  <2> HIDE DEF loc
  <2> QED
    BY <1>0, <1>1, <2>1, <2>2
<1> QED
  BY <1>3, <1>4, <1>5, <1>6, <1>7, <1>8, <1>9, <1>10 DEF Edits, Some

\* What an edit of places does to the history; S is what is known of its entries.
LEMMA SetsKeepStacks ==
    ASSUME NEW S, Snapshot \in S, Stacks(S), NEW n \in Nat, NEW targets, NEW loc, NEW pin,
           SetTimes(n, targets, loc, pin)
    PROVE  Stacks(S)'
<1>1. undoStack' = PushedTimes(undoStack, Snapshot, n) /\ redoStack' = <<>>
  BY DEF SetTimes
<1>2. undoStack' \in Seq(S) /\ Len(undoStack') \in 0..MaxUndo
  BY <1>1, PushedTimesBounds DEF Stacks
<1>3. redoStack' \in Seq(S) /\ Len(redoStack') = 0
  BY <1>1
<1> QED
  BY <1>2, <1>3, UndoAssumption DEF Stacks

\* Undo and Redo: the states before and after, with the stacks around them, read the same.
LEMMA UndoAndRedo ==
    ASSUME NEW S \in SUBSET Snapshots, Snapshot \in S, Stacks(S), Undo \/ Redo
    PROVE  Stacks(S)' /\ Snapshot' \in S /\ Timeline' = Timeline
<1> DEFINE c == Snapshot
           u == undoStack
           r == redoStack
<1>0. u \in Seq(S) /\ r \in Seq(S) /\ c \in S /\ Len(u) \in Nat /\ Len(r) \in Nat
      /\ Len(u) + Len(r) <= MaxUndo /\ MaxUndo \in Nat /\ <<c>> \in Seq(S)
  BY LenProperties, UndoAssumption DEF Stacks
<1>1. ASSUME NEW x \in S, Apply(x) PROVE Snapshot' = x
  BY <1>1 DEF Apply, Snapshot, Snapshots
<1>2. CASE Undo
  <2>1. u # <<>> /\ Apply(Last(u)) /\ undoStack' = Front(u) /\ redoStack' = Pushed(r, c)
    BY <1>2 DEF Undo
  <2>2. /\ Front(u) \in Seq(S) /\ Last(u) \in S /\ Len(Front(u)) = Len(u) - 1
        /\ Len(u) \in Nat \ {0} /\ Front(u) \o <<Last(u)>> = u
    BY <1>0, <2>1, Popped
  <2>3. Len(r) < MaxUndo
    BY <1>0, <2>2
  <2>4. Pushed(r, c) = Append(r, c) /\ Pushed(r, c) \in Seq(S) /\ Len(Pushed(r, c)) = Len(r) + 1
    BY <1>0, <2>3, PushedFits
  <2>5. Stacks(S)'
    <3>1. (Len(u) - 1) + (Len(r) + 1) <= MaxUndo
      BY <1>0, <2>2
    <3> QED
      BY <2>1, <2>2, <2>4, <3>1 DEF Stacks
  <2>6. Snapshot' = Last(u)
    BY <1>1, <2>1, <2>2
  <2>7. Reverse(r) \in Seq(S) /\ Reverse(Append(r, c)) = <<c>> \o Reverse(r)
    BY <1>0, ReversedAppend
  <2>8. Timeline' = u \o (<<c>> \o Reverse(r))
    BY <2>1, <2>2, <2>4, <2>6, <2>7 DEF Timeline
  <2>9. Timeline = u \o (<<c>> \o Reverse(r))
    BY <1>0, <2>7, ConcatAssociative DEF Timeline
  <2> QED
    BY <2>2, <2>5, <2>6, <2>8, <2>9
<1>3. CASE Redo
  <2>1. r # <<>> /\ Apply(Last(r)) /\ redoStack' = Front(r) /\ undoStack' = Pushed(u, c)
    BY <1>3 DEF Redo
  <2>2. /\ Front(r) \in Seq(S) /\ Last(r) \in S /\ Len(Front(r)) = Len(r) - 1
        /\ Len(r) \in Nat \ {0} /\ Front(r) \o <<Last(r)>> = r
    BY <1>0, <2>1, Popped
  <2>3. Len(u) < MaxUndo
    BY <1>0, <2>2
  <2>4. Pushed(u, c) = Append(u, c) /\ Pushed(u, c) \in Seq(S) /\ Len(Pushed(u, c)) = Len(u) + 1
    BY <1>0, <2>3, PushedFits
  <2>5. Stacks(S)'
    <3>1. (Len(u) + 1) + (Len(r) - 1) <= MaxUndo
      BY <1>0, <2>2
    <3> QED
      BY <2>1, <2>2, <2>4, <3>1 DEF Stacks
  <2>6. Snapshot' = Last(r)
    BY <1>1, <2>1, <2>2
  <2>7. Append(Front(r), Last(r)) = r /\ Append(u, c) = u \o <<c>>
    BY <1>0, <2>2, AppendIsConcat
  <2>8. /\ Reverse(Front(r)) \in Seq(S)
        /\ Reverse(r) = <<Last(r)>> \o Reverse(Front(r))
    BY <2>2, <2>7, ReversedAppend
  <2>9. Timeline' = ((u \o <<c>>) \o <<Last(r)>>) \o Reverse(Front(r))
    BY <2>1, <2>4, <2>6, <2>7 DEF Timeline
  <2>10. Timeline = (u \o <<c>>) \o (<<Last(r)>> \o Reverse(Front(r)))
    BY <2>8 DEF Timeline
  <2>11. u \o <<c>> \in Seq(S) /\ <<Last(r)>> \in Seq(S)
    BY <1>0, <2>2, ConcatProperties
  <2>12. Timeline' = Timeline
    BY <2>8, <2>9, <2>10, <2>11, ConcatAssociative
  <2> QED
    BY <2>2, <2>5, <2>6, <2>12
<1> QED
  BY <1>2, <1>3

LEMMA TypeInit == Init => TypeOK
<1> SUFFICES ASSUME Init PROVE TypeOK
  OBVIOUS
<1>1. Shown
  BY NothingTyped DEF Init, Shown, Snapshot, Snapshots
<1>2. Stacks(Snapshots)
  BY UndoAssumption DEF Init, Stacks
<1>3. Backend /\ Bounded /\ save \in SaveRecords
  BY NothingTyped, BoundsAssumption DEF Init, Backend, Bounded
<1> QED
  BY <1>1, <1>2, <1>3, TypeParts

LEMMA EditBounds ==
    ASSUME Bounded, Edit, UNCHANGED failures
    PROVE  Bounded'
BY BoundsAssumption DEF Bounded, Edit

LEMMA TouchTyped ==
    ASSUME Backend, NEW T \in SUBSET Assets, Touch(T), UNCHANGED <<server, stored>>
    PROVE  Backend'
BY DEF Backend, Touch

LEMMA SetsTyped ==
    ASSUME TypeOK, NEW n \in Nat, NEW targets \in SUBSET Assets, NEW pin \in Locations, NEW loc,
           Sets(n, targets, loc, pin)
    PROVE  TypeOK'
<1>0. /\ Shown /\ Backend /\ Bounded /\ Stacks(Snapshots) /\ save \in SaveRecords
      /\ SetTimes(n, targets, loc, pin) /\ selected' \in SUBSET Assets
      /\ \A b \in targets : loc[b] \in Locations
  BY TypeParts DEF Sets
<1>1. Stacks(Snapshots)'
  BY <1>0, SetsKeepStacks DEF Shown
<1>2. Shown'
  <2>1. pending \in [Assets -> Locations] /\ saved \in [Assets -> Locations]
    BY <1>0, SnapshotFields DEF Shown
  <2>2. ASSUME NEW b \in Assets
        PROVE  (IF b \in targets THEN Merged(pending[b], loc[b]) ELSE pending[b]) \in Locations
    BY <1>0, <2>1, MergedTyped
  <2>3. pending' = [b \in Assets |-> IF b \in targets THEN Merged(pending[b], loc[b]) ELSE pending[b]]
    BY <1>0 DEF SetTimes
  <2>4. pending' \in [Assets -> Locations]
    BY <2>2, <2>3
  <2>5. saved' \in [Assets -> Locations] /\ marker' \in Locations
    BY <1>0, <2>1, WithoutTyped DEF SetTimes
  <2> QED
    BY <1>0, <2>4, <2>5, SnapshotTyped DEF Shown
<1>3. Backend'
  <2>1. UNCHANGED <<server, stored>> /\ \E T \in SUBSET Assets : Touch(T)
    BY <1>0 DEF SetTimes
  <2> QED
    BY <1>0, <2>1, TouchTyped
<1>4. Bounded'
  BY <1>0, EditBounds DEF SetTimes
<1>5. save' \in SaveRecords
  BY <1>0 DEF SetTimes
<1> QED
  BY <1>1, <1>2, <1>3, <1>4, <1>5, TypeParts

\* Selecting, clearing and cancelling: the history stays or is emptied.
Selects ==
    \/ \E a \in Assets : SelectOne(a)
    \/ \E T \in SUBSET Assets : SelectMore(T)
    \/ ClearSelection \/ ClearMarker \/ Cancel

LEMMA EmptyStacks ==
    ASSUME NEW S, Stacks(S),
           UNCHANGED history \/ (undoStack' = <<>> /\ redoStack' = <<>>)
    PROVE  Stacks(S)'
<1>1. CASE UNCHANGED history
  BY <1>1 DEF history, Stacks
<1>2. CASE undoStack' = <<>> /\ redoStack' = <<>>
  BY <1>2, UndoAssumption DEF Stacks
<1> QED
  BY <1>1, <1>2

LEMMA SelectsTyped ==
    ASSUME TypeOK, Selects
    PROVE  TypeOK'
<1>0. /\ Shown /\ Backend /\ Bounded /\ Stacks(Snapshots) /\ save \in SaveRecords
  BY TypeParts
<1>1. /\ selected \in SUBSET Assets /\ marker \in Locations
      /\ pending \in [Assets -> Locations] /\ saved \in [Assets -> Locations]
  BY <1>0, SnapshotFields DEF Shown
<1>2. /\ Edit /\ UNCHANGED <<server, stored, save, failures>>
      /\ \E U \in SUBSET Assets : Touch(U)
      /\ UNCHANGED history \/ (undoStack' = <<>> /\ redoStack' = <<>>)
  BY DEF Selects, SelectOne, SelectMore, ClearSelection, ClearMarker, Cancel, history
<1>3. /\ selected' \in SUBSET Assets /\ marker' \in {marker, NoLoc}
      /\ pending' \in {pending, NoLocs} /\ saved' \in {saved, NoLocs}
  BY <1>1 DEF Selects, SelectOne, SelectMore, ClearSelection, ClearMarker, Cancel, history
<1>4. Shown'
  BY <1>1, <1>3, NothingTyped, SnapshotTyped DEF Shown
<1>5. Backend' /\ Bounded'
  BY <1>0, <1>2, TouchTyped, EditBounds
<1>6. Stacks(Snapshots)'
  BY <1>0, <1>2, EmptyStacks
<1> QED
  BY <1>0, <1>2, <1>4, <1>5, <1>6, TypeParts

LEMMA HistoryTyped ==
    ASSUME TypeOK, Undo \/ Redo
    PROVE  TypeOK'
<1>0. /\ Shown /\ Backend /\ Bounded /\ Stacks(Snapshots) /\ save \in SaveRecords
  BY TypeParts
<1>1. Stacks(Snapshots)' /\ Shown'
  BY <1>0, UndoAndRedo DEF Shown
<1>2. Edit /\ Touch(Assets) /\ UNCHANGED <<server, stored, save, failures>>
  BY DEF Undo, Redo
<1> QED
  BY <1>0, <1>1, <1>2, TouchTyped, EditBounds, TypeParts

LEMMA SavePlaceTyped ==
    ASSUME save \in SaveRecords, NEW a \in Assets
    PROVE  SavePlace(a) \in Places \union {NoPlace}
BY DEF SavePlace, LocationOf, SaveRecords, Locations

LEMMA ReachesTyped ==
    ASSUME Backend, save \in SaveRecords, NEW a \in Assets, UNCHANGED touched,
           Reaches(a) \/ UNCHANGED <<server, stored>>
    PROVE  Backend'
BY SavePlaceTyped DEF Backend, Reaches

LEMMA MovedToSavedTyped ==
    ASSUME save \in SaveRecords, saved \in [Assets -> Locations]
    PROVE  MovedToSaved \in [Assets -> Locations]
<1>1. ASSUME NEW a \in Assets
      PROVE  save.pending[a] \in Locations /\ save.fallback \in Locations /\ saved[a] \in Locations
  BY DEF SaveRecords
<1> QED
  BY <1>1 DEF MovedToSaved

\* One request of a save.
Sends(a) == FirstPass(a) \/ RetryPass(a)

LEMMA SendsTyped ==
    ASSUME TypeOK, NEW a \in Assets, Sends(a)
    PROVE  TypeOK'
<1>0. /\ Shown /\ Backend /\ Bounded /\ Stacks(Snapshots) /\ save \in SaveRecords
  BY TypeParts
<1>1. /\ Reaches(a) \/ UNCHANGED <<server, stored>>
      /\ UNCHANGED <<selected, marker, pending, saved, undoStack, redoStack, touched, edits>>
      /\ Fails \/ UNCHANGED failures
  BY DEF Sends, FirstPass, RetryPass, View, history
<1>2. save' \in SaveRecords
  <2>1. /\ save.first \ {a} \in SUBSET Assets /\ save.again \ {a} \in SUBSET Assets
        /\ save.done \union {a} \in SUBSET Assets /\ save.again \union {a} \in SUBSET Assets
        /\ save.failed \union {a} \in SUBSET Assets
    BY <1>0 DEF SaveRecords
  <2>2. PICK S \in SUBSET Assets, R \in SUBSET Assets :
           \/ save' = [save EXCEPT !.first = S, !.done = R]
           \/ save' = [save EXCEPT !.first = S, !.again = R]
           \/ save' = [save EXCEPT !.again = S, !.done = R]
           \/ save' = [save EXCEPT !.again = S, !.failed = R]
    <3>1. CASE FirstPass(a)
      BY <2>1, <3>1 DEF FirstPass
    <3>2. CASE RetryPass(a)
      BY <2>1, <3>2 DEF RetryPass
    <3> QED
      BY <3>1, <3>2 DEF Sends
  <2> QED
    BY <1>0, <2>2 DEF SaveRecords
<1>3. Shown' /\ Stacks(Snapshots)'
  BY <1>0, <1>1 DEF Shown, Snapshot, Stacks
<1>4. Backend'
  BY <1>0, <1>1, ReachesTyped
<1>5. Bounded'
  BY <1>0, <1>1, BoundsAssumption DEF Bounded, Fails
<1> QED
  BY <1>2, <1>3, <1>4, <1>5, TypeParts

LEMMA SaveTyped ==
    ASSUME TypeOK, Save
    PROVE  TypeOK'
<1>0. /\ Shown /\ Backend /\ Bounded /\ Stacks(Snapshots) /\ save \in SaveRecords
  BY TypeParts
<1>1. /\ pending \in [Assets -> Locations] /\ marker \in Locations /\ selected \in SUBSET Assets
  BY <1>0, SnapshotFields DEF Shown
<1>2. Payload(selected, marker, pending) \in SUBSET Assets
  BY <1>1 DEF Payload, Resolved, Pending
<1>3. save' \in SaveRecords
  BY <1>1, <1>2, NothingTyped DEF Save, SaveRecords
<1>4. /\ UNCHANGED <<server, selected, marker, pending, saved, undoStack, redoStack, stored>>
      /\ touched' = {} /\ Edit /\ UNCHANGED failures
  BY DEF Save, history
<1>5. Shown' /\ Stacks(Snapshots)' /\ Backend'
  BY <1>0, <1>4 DEF Shown, Snapshot, Stacks, Backend
<1> QED
  BY <1>0, <1>3, <1>4, <1>5, EditBounds, TypeParts

\* What ends a save, and the markers that catch up with it.
Ends ==
    \/ FinishPartial \/ BeginRefresh \/ RefreshSucceeds \/ RefreshFails
    \/ \E a \in Assets : MarkerCatchesUp(a)

LEMMA EndsTyped ==
    ASSUME TypeOK, Ends
    PROVE  TypeOK'
<1>0. /\ Shown /\ Backend /\ Bounded /\ Stacks(Snapshots) /\ save \in SaveRecords
  BY TypeParts
<1>1. /\ selected \in SUBSET Assets /\ marker \in Locations
      /\ pending \in [Assets -> Locations] /\ saved \in [Assets -> Locations]
  BY <1>0, SnapshotFields DEF Shown
<1>2. UNCHANGED <<server, undoStack, redoStack, touched, stored, edits>> /\ (Fails \/ UNCHANGED failures)
  BY DEF Ends, FinishPartial, BeginRefresh, RefreshSucceeds, RefreshFails, MarkerCatchesUp, Rest
<1>3. save' \in {save, NoSave, [save EXCEPT !.phase = "refresh"]}
  BY DEF Ends, FinishPartial, BeginRefresh, RefreshSucceeds, RefreshFails, MarkerCatchesUp
<1>4. /\ selected' \in {selected, {}, save.selected \intersect save.failed}
      /\ marker' \in {marker, NoLoc}
      /\ pending' \in {pending, NoLocs, Without(pending, Assets \ save.failed)}
      /\ saved' \in {saved, MovedToSaved} \union {Without(saved, {a}) : a \in Assets}
  BY DEF Ends, FinishPartial, BeginRefresh, RefreshSucceeds, RefreshFails, MarkerCatchesUp
<1>5. save' \in SaveRecords
  BY <1>0, <1>3, NothingTyped DEF SaveRecords
<1>6. Shown'
  <2>1. save.selected \in SUBSET Assets
    BY <1>0 DEF SaveRecords
  <2>2. selected' \in SUBSET Assets /\ marker' \in Locations
    BY <1>1, <1>4, <2>1, NothingTyped
  <2>3. pending' \in [Assets -> Locations]
    BY <1>1, <1>4, NothingTyped, WithoutTyped
  <2>4. saved' \in [Assets -> Locations]
    <3>1. MovedToSaved \in [Assets -> Locations]
      BY <1>0, <1>1, MovedToSavedTyped
    <3>2. \A a \in Assets : Without(saved, {a}) \in [Assets -> Locations]
      BY <1>1, WithoutTyped
    <3> QED
      BY <1>1, <1>4, <3>1, <3>2
  <2> QED
    BY <2>2, <2>3, <2>4, SnapshotTyped DEF Shown
<1>7. Backend' /\ Stacks(Snapshots)' /\ Bounded'
  BY <1>0, <1>2, BoundsAssumption DEF Backend, Stacks, Bounded, Fails
<1> QED
  BY <1>5, <1>6, <1>7, TypeParts

\* The steps, by the groups above.
LEMMA Steps ==
    ASSUME TypeOK, Next
    PROVE  \/ \E n \in Nat, targets \in SUBSET Assets, pin \in Locations : \E loc :
                  Sets(n, targets, loc, pin)
           \/ Selects \/ Undo \/ Redo \/ Save
           \/ \E a \in Assets : Sends(a)
           \/ Ends
<1> DEFINE Group ==
       Edits \/ Selects \/ Undo \/ Redo \/ Save \/ (\E a \in Assets : Sends(a)) \/ Ends
<1>1. Group
  <2>1. SaveStep => Group
    BY DEF SaveStep, Sends, Ends
  <2>2. ASSUME NEW a \in Assets
        PROVE  /\ SelectOne(a) => Group
               /\ GoTo(a) => Group
               /\ MarkerCatchesUp(a) => Group
    BY DEF Selects, Edits, Ends
  <2>3. ASSUME NEW T \in SUBSET Assets PROVE SelectMore(T) => Group
    BY DEF Selects
  <2>4. ASSUME NEW p \in Places
        PROVE  /\ Choose({}, p) => Group
               /\ DragPin(p) => Group
               /\ \A a \in Assets : (Choose({a}, p) => Group) /\ (MoveMarker(a, p) => Group)
               /\ \A T \in Some : ImportGPX(T, p) => Group
    BY DEF Edits
  <2>5. ASSUME NEW T \in Some
        PROVE  /\ RemoveLocation(T) => Group
               /\ \A to \in [T -> Places] : MoveGroup(T, to) => Group
               /\ \A emptied \in BOOLEAN : ResetPosition(T, emptied) => Group
    <3>1. RemoveLocation(T) => Edits
      BY DEF Edits
    <3>2. ASSUME NEW to \in [T -> Places], MoveGroup(T, to) PROVE Edits
      BY <3>2 DEF Edits
    <3>3. ASSUME NEW emptied \in BOOLEAN, ResetPosition(T, emptied) PROVE Edits
      BY <3>3 DEF Edits
    <3> QED
      BY <3>1, <3>2, <3>3
  <2>6. ClearSelection \/ ClearMarker \/ Cancel \/ Undo \/ Redo \/ Save => Group
    BY DEF Selects
  <2> HIDE DEF Group
  <2> QED
    BY <2>1, <2>2, <2>3, <2>4, <2>5, <2>6 DEF Next
<1> QED
  BY <1>1, EditSets

LEMMA TypeStep == TypeOK /\ [Next]_vars => TypeOK'
<1>1. ASSUME TypeOK, UNCHANGED vars PROVE TypeOK'
  BY <1>1 DEF vars, TypeOK, Snapshot, history
<1>2. ASSUME TypeOK, Next PROVE TypeOK'
  BY <1>2, Steps, SetsTyped, SelectsTyped, HistoryTyped, SaveTyped, SendsTyped, EndsTyped
<1> QED
  BY <1>1, <1>2

\* What the frontend holds is well formed, and its history within bounds.
THEOREM TypeCorrect == Spec => []TypeOK
BY TypeInit, TypeStep, PTL DEF Spec

------------------------------------------------------------------------------
(* The history                                                             *)

\* Undo and redo (pushUndo, undo, redo): what can be undone, what is shown and what can be
\* redone stay one line of states, of which nothing is lost.
THEOREM TimelineKeptHolds == Spec => TimelineKept
<1>1. TypeOK /\ [Next]_vars => [Undo \/ Redo => Timeline' = Timeline]_vars
  BY TypeParts, UndoAndRedo DEF Shown
<1> QED
  BY <1>1, TypeInit, TypeStep, PTL DEF Spec, TimelineKept

------------------------------------------------------------------------------
(* What counts as applied                                                  *)

PlacedSnapshots == {s \in Snapshots : Placed(s.pending)}

\* So it is with what is shown and with every entry of the history.
AppliedInv == TypeOK /\ Snapshot \in PlacedSnapshots /\ Stacks(PlacedSnapshots)

LEMMA AppliedInvInit == Init => AppliedInv
<1> SUFFICES ASSUME Init PROVE AppliedInv
  OBVIOUS
<1>1. TypeOK
  BY TypeInit
<1>2. Placed(pending)
  BY DEF Init, Placed, Told, NoLocs, NoLoc, Location
<1>3. Snapshot \in PlacedSnapshots
  BY <1>1, <1>2, TypeParts DEF Shown, PlacedSnapshots, Snapshot
<1>4. Stacks(PlacedSnapshots)
  BY UndoAssumption DEF Init, Stacks
<1> QED
  BY <1>1, <1>3, <1>4 DEF AppliedInv

\* A save changes what the backend has for photos that it has a request for.
LEMMA PlacedStays ==
    ASSUME stored \subseteq stored', \A a \in Assets \ stored' : server'[a] = server[a],
           NEW locs, Placed(locs)
    PROVE  \A a \in Assets \ stored' : Told(a, locs[a])'
BY DEF Placed, Told

LEMMA PlacedSnapshotsStay ==
    ASSUME stored \subseteq stored', \A a \in Assets \ stored' : server'[a] = server[a]
    PROVE  PlacedSnapshots \subseteq PlacedSnapshots'
<1>1. \A s \in PlacedSnapshots : s \in Snapshots /\ Placed(s.pending)
  BY DEF PlacedSnapshots
<1>2. ASSUME NEW s \in PlacedSnapshots
      PROVE  \A a \in Assets \ stored' : Told(a, s.pending[a])'
  BY <1>1, PlacedStays
<1> QED
  BY <1>1, <1>2 DEF PlacedSnapshots, Placed, Told, Snapshots, Locations

\* An edit calls applied what is where the photo is; what it merges with, only if it
\* does not move it.  What is remembered of the photo is of one of the two.
LEMMA MergedPlaced ==
    ASSUME NEW a, NEW old \in Locations, NEW new \in Locations, Told(a, old), Told(a, new)
    PROVE  Told(a, Merged(old, new))
<1> DEFINE moved == old.applied /\ new.at # old.at
           said == IF new.source = "gpx" THEN new ELSE old
           left == said.applied /\ ~moved
<1>1. Merged(old, new) = new \/ Merged(old, new) = Match(new.at, left, said.original)
  BY DEF Merged
<1>2. /\ left => new.at = server[a]
      /\ said.original # NoPlace => said.original = server[a]
  BY DEF Locations, Told
<1>3. /\ left \in BOOLEAN /\ new.at \in Places \union {NoPlace}
      /\ said.original \in Places \union {NoPlace}
  BY DEF Locations
<1> HIDE DEF left, said
<1> QED
  BY <1>1, <1>2, <1>3, MatchTyped DEF Told

LEMMA SetsPlace ==
    ASSUME TypeOK, Placed(pending), NEW n, NEW targets \in SUBSET Assets, NEW pin, NEW loc,
           Sets(n, targets, loc, pin)
    PROVE  Placed(pending)'
<1>0. /\ pending \in [Assets -> Locations] /\ UNCHANGED <<server, stored>>
      /\ \A b \in targets : loc[b] \in Locations /\ (b \notin stored => Told(b, loc[b]))
      /\ pending' = [b \in Assets |->
                        IF b \in targets THEN Merged(pending[b], loc[b]) ELSE pending[b]]
  BY TypeParts, SnapshotFields DEF Sets, SetTimes, Shown
<1>1. ASSUME NEW b \in Assets \ stored
      PROVE  Told(b, pending'[b])
  <2>1. pending[b] \in Locations /\ Told(b, pending[b])
    BY <1>0 DEF Placed
  <2>2. CASE b \in targets
    BY <1>0, <2>1, <2>2, MergedPlaced
  <2>3. CASE b \notin targets
    BY <1>0, <2>1, <2>3
  <2> QED
    BY <2>2, <2>3
<1> QED
  BY <1>0, <1>1 DEF Placed, Told

LEMMA AppliedInvStep == AppliedInv /\ [Next]_vars => AppliedInv'
<1> SUFFICES ASSUME AppliedInv, [Next]_vars PROVE AppliedInv'
  OBVIOUS
<1>1. PICK S : S = PlacedSnapshots
  OBVIOUS
<1>2. /\ TypeOK /\ TypeOK' /\ Snapshot \in S /\ Stacks(S) /\ S \in SUBSET Snapshots
      /\ Shown /\ Shown' /\ Backend /\ save \in SaveRecords
  BY <1>1, TypeStep, TypeParts DEF AppliedInv, PlacedSnapshots
<1>3. Placed(pending)
  <2>1. Snapshot.pending = pending
    BY DEF Snapshot
  <2> QED
    BY <1>1, <1>2, <2>1 DEF PlacedSnapshots
<1>4. stored \subseteq stored' /\ \A a \in Assets \ stored' : server'[a] = server[a]
  <2>1. CASE UNCHANGED <<server, stored>>
    BY <2>1
  <2>2. ASSUME NEW a \in Assets, Sends(a) PROVE Reaches(a) \/ UNCHANGED <<server, stored>>
    BY <2>2 DEF Sends, FirstPass, RetryPass
  <2>3. ASSUME NEW a \in Assets, Reaches(a)
        PROVE  stored \subseteq stored' /\ \A b \in Assets \ stored' : server'[b] = server[b]
    BY <1>2, <2>3 DEF Reaches, Backend
  <2>4. Selects \/ Undo \/ Redo \/ Save \/ Ends => UNCHANGED <<server, stored>>
    BY DEF Selects, SelectOne, SelectMore, ClearSelection, ClearMarker, Cancel, Undo, Redo, Save,
           Ends, FinishPartial, BeginRefresh, RefreshSucceeds, RefreshFails, MarkerCatchesUp, Rest
  <2>5. ASSUME NEW n, NEW targets, NEW loc, NEW pin, Sets(n, targets, loc, pin)
        PROVE  UNCHANGED <<server, stored>>
    BY <2>5 DEF Sets, SetTimes
  <2>6. CASE UNCHANGED vars
    BY <2>6 DEF vars
  <2> QED
    BY <1>2, <2>1, <2>2, <2>3, <2>4, <2>5, <2>6, Steps
<1>5. ASSUME Stacks(S)', Snapshot' \in S \/ Placed(pending)'
      PROVE  AppliedInv'
  <2>1. S \subseteq PlacedSnapshots'
    BY <1>1, <1>4, PlacedSnapshotsStay
  <2>2. Stacks(PlacedSnapshots)'
    BY <1>5, <2>1, SeqMonotonic DEF Stacks
  <2>3. Placed(pending)' => Snapshot' \in PlacedSnapshots'
    <3>1. Snapshot'.pending = pending'
      BY DEF Snapshot
    <3>2. PlacedSnapshots' = {s \in Snapshots : Placed(s.pending)'}
      BY DEF PlacedSnapshots, Snapshots, Locations
    <3> QED
      BY <1>2, <3>1, <3>2 DEF Shown, Placed
  <2> QED
    BY <1>2, <1>5, <2>1, <2>2, <2>3 DEF AppliedInv
<1>6. ASSUME NEW n \in Nat, NEW targets \in SUBSET Assets, NEW pin \in Locations, NEW loc,
             Sets(n, targets, loc, pin)
      PROVE  AppliedInv'
  <2>1. Stacks(S)'
    BY <1>2, <1>6, SetsKeepStacks DEF Sets
  <2>2. Placed(pending)'
    BY <1>2, <1>3, <1>6, SetsPlace
  <2> QED
    BY <1>5, <2>1, <2>2
<1>7. CASE Undo \/ Redo
  BY <1>2, <1>5, <1>7, UndoAndRedo
<1>8. ASSUME UNCHANGED history \/ (undoStack' = <<>> /\ redoStack' = <<>>),
             \A a \in Assets : pending'[a] \in {pending[a], NoLoc}
      PROVE  AppliedInv'
  <2>1. Stacks(S)'
    BY <1>2, <1>8, EmptyStacks
  <2>2. ~NoLoc.applied /\ NoLoc.original = NoPlace
    BY DEF NoLoc, Location
  <2>3. ASSUME NEW a \in Assets \ stored' PROVE Told(a, pending[a])'
    <3>1. Told(a, pending[a]) /\ server'[a] = server[a]
      BY <1>3, <1>4 DEF Placed
    <3>2. pending'[a] = pending[a] \/ pending'[a] = NoLoc
      BY <1>8
    <3> QED
      BY <2>2, <3>1, <3>2 DEF Told
  <2>4. Placed(pending)'
    BY <2>3 DEF Placed
  <2> QED
    BY <1>5, <2>1, <2>4
<1>9. CASE Selects
  BY <1>8, <1>9 DEF Selects, SelectOne, SelectMore, ClearSelection, ClearMarker, Cancel, history, NoLocs
<1>10. CASE Save \/ Ends
  BY <1>8, <1>10 DEF Save, Ends, FinishPartial, BeginRefresh, RefreshSucceeds, RefreshFails,
     MarkerCatchesUp, Rest, history, NoLocs, Without
<1>11. ASSUME NEW a \in Assets, Sends(a) PROVE AppliedInv'
  BY <1>8, <1>11 DEF Sends, FirstPass, RetryPass, View, history
<1>12. CASE UNCHANGED vars
  BY <1>8, <1>12 DEF vars, history
<1> QED
  BY <1>2, <1>6, <1>7, <1>9, <1>10, <1>11, <1>12, Steps

\* Merged entries, batches, GPX imports, resets, undo and redo: what is called applied, and is
\* therefore not sent by a save, is where the photo is.
THEOREM AppliedIsInPlaceHolds == Spec => []AppliedIsInPlace
<1>1. AppliedInv => AppliedIsInPlace
  <2>1. Snapshot.pending = pending
    BY DEF Snapshot
  <2> QED
    BY <2>1 DEF AppliedInv, PlacedSnapshots, Placed, Told, AppliedIsInPlace
<1> QED
  BY <1>1, AppliedInvInit, AppliedInvStep, PTL DEF Spec

------------------------------------------------------------------------------
(* What counts as saved                                                    *)

SaveInv == TypeOK /\ SavedIsStored

LEMMA SaveInvInit == Init => SaveInv
BY TypeInit DEF Init, SaveInv, SavedIsStored, Saving, NoSave

\* A request for one photo: it is stored before it counts, and what was stored for the
\* others stays.
LEMMA RequestKeepsSaveInv ==
    ASSUME SaveInv, NEW a \in Assets, Sends(a)
    PROVE  SavedIsStored'
<1>0. save \in SaveRecords /\ server \in [Assets -> Places \union {NoPlace}]
  BY TypeParts DEF SaveInv, Backend
<1>1. /\ \/ Reaches(a) /\ save'.done = save.done \union {a}
         \/ (Reaches(a) \/ UNCHANGED server) /\ save'.done = save.done
      /\ save'.pending = save.pending /\ save'.fallback = save.fallback /\ Saving
  BY <1>0 DEF Sends, FirstPass, RetryPass, SaveRecords, Saving
<1>2. \A b \in Assets : SavePlace(b)' = SavePlace(b)
  BY <1>1 DEF SavePlace, LocationOf, NoLoc, Location
<1>3. /\ \A b \in Assets \ {a} : server'[b] = server[b]
      /\ Reaches(a) => server'[a] = SavePlace(a)
      /\ UNCHANGED server => server'[a] = server[a]
  BY <1>0, <1>1 DEF Reaches
<1>4. save.done \subseteq Assets /\ \A b \in save.done : server[b] = SavePlace(b)
  BY <1>0, <1>1 DEF SaveInv, SavedIsStored, SaveRecords
<1>5. \A b \in save'.done : b \in Assets /\ server'[b] = SavePlace(b)
  BY <1>1, <1>3, <1>4
<1> QED
  BY <1>2, <1>5 DEF SavedIsStored

\* Nothing else reaches the backend; a save begins with nothing done.
LEMMA SaveInvStep == SaveInv /\ [Next]_vars => SaveInv'
<1> SUFFICES ASSUME SaveInv, [Next]_vars PROVE SaveInv'
  OBVIOUS
<1>0. TypeOK /\ TypeOK' /\ save \in SaveRecords
  BY TypeStep, TypeParts DEF SaveInv
<1>1. CASE UNCHANGED <<server, save>>
  BY <1>0, <1>1 DEF SaveInv, SavedIsStored, Saving, SavePlace, LocationOf, NoLoc, Location
<1>2. ASSUME NEW a \in Assets, Sends(a) PROVE SaveInv'
  BY <1>0, <1>2, RequestKeepsSaveInv DEF SaveInv
<1>3. CASE save'.done = {}
  BY <1>0, <1>3 DEF SaveInv, SavedIsStored
<1>4. CASE BeginRefresh
  <2>1. /\ UNCHANGED server /\ Saving /\ save'.done = save.done
        /\ save'.pending = save.pending /\ save'.fallback = save.fallback
    BY <1>0, <1>4 DEF BeginRefresh, AllSent, Rest, Saving, SaveRecords
  <2>2. \A b \in Assets : SavePlace(b)' = SavePlace(b)
    BY <2>1 DEF SavePlace, LocationOf, NoLoc, Location
  <2>3. save.done \subseteq Assets
    BY <1>0 DEF SaveRecords
  <2> QED
    BY <1>0, <2>1, <2>2, <2>3 DEF SaveInv, SavedIsStored
<1>5. CASE Save \/ FinishPartial \/ RefreshSucceeds \/ RefreshFails
  <2>1. CASE Save
    BY <2>1, <1>3 DEF Save, NoSave
  <2>2. CASE FinishPartial \/ RefreshSucceeds \/ RefreshFails
    <3>1. save' = NoSave /\ NoSave.done = {}
      BY <2>2 DEF FinishPartial, RefreshSucceeds, RefreshFails, NoSave
    <3> QED
      BY <3>1, <1>3
  <2> QED
    BY <1>5, <2>1, <2>2
<1>6. CASE Selects \/ Undo \/ Redo \/ \E a \in Assets : MarkerCatchesUp(a)
  <2>1. UNCHANGED <<server, save>>
    BY <1>6 DEF Selects, SelectOne, SelectMore, ClearSelection, ClearMarker, Cancel, Undo, Redo,
       MarkerCatchesUp, Rest
  <2> QED
    BY <1>1, <2>1
<1>7. ASSUME NEW n, NEW targets, NEW loc, NEW pin, Sets(n, targets, loc, pin) PROVE SaveInv'
  BY <1>1, <1>7 DEF Sets, SetTimes
<1>8. CASE UNCHANGED vars
  BY <1>1, <1>8 DEF vars
<1> QED
  BY <1>0, <1>2, <1>4, <1>5, <1>6, <1>7, <1>8, Steps DEF Ends

\* SavedIsStored: for a photo that a save counts as saved, the backend has the location that
\* was pending when Save was pressed.
THEOREM SavedIsStoredHolds == Spec => []SavedIsStored
<1>1. SaveInv => SavedIsStored
  BY DEF SaveInv
<1> QED
  BY <1>1, SaveInvInit, SaveInvStep, PTL DEF Spec

------------------------------------------------------------------------------
(* The save after one that failed in part                                  *)

\* A save is of its payload, and each photo is in one place of it.
Parted ==
    /\ save.first \union save.again \union save.done \union save.failed
         \subseteq Payload(save.selected, save.fallback, save.pending)
    /\ save.first \intersect (save.again \union save.done \union save.failed) = {}
    /\ save.again \intersect (save.done \union save.failed) = {}
    /\ save.done \intersect save.failed = {}

\* For a photo whose save nobody interfered with, the panel is still as it was when Save
\* was pressed.
Undisturbed ==
    Saving => \A a \in Assets \ touched :
        /\ pending[a] = save.pending[a]
        /\ marker = save.fallback
        /\ Pending(save.pending) = {} => Pending(pending) = {}

RetryInv == TypeOK /\ Parted /\ Undisturbed

LEMMA NothingParted ==
    ASSUME save' = NoSave
    PROVE  Parted' /\ Undisturbed'
BY DEF NoSave, Parted, Undisturbed, Saving

LEMMA RetryInvInit == Init => RetryInv
BY TypeInit DEF Init, RetryInv, Parted, Undisturbed, Saving, NoSave

LEMMA SendsKeepRetryInv ==
    ASSUME RetryInv, NEW a \in Assets, Sends(a)
    PROVE  Parted' /\ Undisturbed'
<1>0. save \in SaveRecords /\ Parted /\ Undisturbed
  BY TypeParts DEF RetryInv
<1>1. /\ save'.pending = save.pending /\ save'.fallback = save.fallback
      /\ save'.selected = save.selected /\ Saving
      /\ UNCHANGED <<selected, marker, pending, touched>>
  BY <1>0 DEF Sends, FirstPass, RetryPass, SaveRecords, Saving, View
<1>2. \/ /\ a \in save.first /\ save'.first = save.first \ {a}
         /\ \/ /\ save'.done = save.done \union {a}
               /\ save'.again = save.again /\ save'.failed = save.failed
            \/ /\ save'.again = save.again \union {a}
               /\ save'.done = save.done /\ save'.failed = save.failed
      \/ /\ a \in save.again /\ save'.again = save.again \ {a} /\ save'.first = save.first
         /\ \/ save'.done = save.done \union {a} /\ save'.failed = save.failed
            \/ save'.failed = save.failed \union {a} /\ save'.done = save.done
  BY <1>0 DEF Sends, FirstPass, RetryPass, SaveRecords
<1>3. Payload(save.selected, save.fallback, save.pending)' = Payload(save.selected, save.fallback, save.pending)
  BY <1>1 DEF Payload, Resolved, Pending, LocationOf, NoLoc, Location
<1>4. Parted'
  BY <1>0, <1>2, <1>3 DEF Parted
<1>5. Undisturbed'
  BY <1>0, <1>1 DEF Undisturbed, Saving, Pending, NoLoc, Location
<1> QED
  BY <1>4, <1>5

LEMMA SaveMakesRetryInv ==
    ASSUME RetryInv, Save
    PROVE  Parted' /\ Undisturbed'
<1>1. /\ save'.pending = pending /\ save'.fallback = marker /\ save'.selected = selected
      /\ save'.first = Payload(selected, marker, pending)
      /\ save'.again = {} /\ save'.done = {} /\ save'.failed = {}
      /\ UNCHANGED <<marker, pending>>
  BY DEF Save, NoSave
<1>2. Payload(save.selected, save.fallback, save.pending)' = Payload(selected, marker, pending)
  BY <1>1 DEF Payload, Resolved, Pending, LocationOf, NoLoc, Location
<1> QED
  BY <1>1, <1>2 DEF Parted, Undisturbed, Pending, NoLoc, Location

\* An edit interferes with the photos it is for, and with all when it changes what the
\* save fell back on.
LEMMA SetsKeepRetryInv ==
    ASSUME RetryInv, NEW n, NEW targets \in SUBSET Assets, NEW loc, NEW pin,
           Sets(n, targets, loc, pin)
    PROVE  Undisturbed'
<1>0. /\ save' = save /\ Undisturbed
      /\ marker' = pin
      /\ pending' = [a \in Assets |->
                        IF a \in targets THEN Merged(pending[a], loc[a]) ELSE pending[a]]
      /\ Touch(IF pin = marker /\ (Pending(pending) = {} => targets = {}) THEN targets ELSE Assets)
  BY DEF Sets, SetTimes, RetryInv
<1> SUFFICES ASSUME Saving', NEW a \in Assets \ touched'
             PROVE  /\ pending'[a] = save'.pending[a]
                    /\ marker' = save'.fallback
                    /\ Pending(save'.pending) = {} => Pending(pending') = {}
  BY DEF Undisturbed, Pending, NoLoc, Location
<1>1. Saving
  BY <1>0 DEF Saving
<1>2. /\ pin = marker /\ (Pending(pending) = {} => targets = {})
      /\ a \notin targets /\ a \notin touched
  BY <1>0, <1>1 DEF Touch
<1>3. /\ pending[a] = save.pending[a] /\ marker = save.fallback
      /\ Pending(save.pending) = {} => Pending(pending) = {}
  BY <1>0, <1>1, <1>2 DEF Undisturbed
<1>4. ASSUME Pending(pending) = {} PROVE Pending(pending') = {}
  BY <1>0, <1>2, <1>4 DEF Pending
<1> QED
  BY <1>0, <1>2, <1>3, <1>4

LEMMA RetryInvStep == RetryInv /\ [Next]_vars => RetryInv'
<1> SUFFICES ASSUME RetryInv, [Next]_vars PROVE RetryInv'
  OBVIOUS
<1>0. TypeOK /\ TypeOK' /\ save \in SaveRecords /\ Parted /\ Undisturbed
  BY TypeStep, TypeParts DEF RetryInv
<1>1. ASSUME UNCHANGED save PROVE Parted'
  BY <1>0, <1>1 DEF Parted
<1>2. ASSUME UNCHANGED <<save, marker, pending, touched>> PROVE RetryInv'
  <2>1. Undisturbed'
    BY <1>0, <1>2 DEF Undisturbed, Saving, Pending, NoLoc, Location
  <2> QED
    BY <1>0, <1>1, <1>2, <2>1 DEF RetryInv
<1>3. ASSUME UNCHANGED save, Touch(Assets) PROVE RetryInv'
  <2>1. Undisturbed'
    BY <1>3 DEF Undisturbed, Saving, Touch
  <2> QED
    BY <1>0, <1>1, <1>3, <2>1 DEF RetryInv
<1>4. ASSUME UNCHANGED <<save, marker, pending>>, Touch({}) PROVE RetryInv'
  <2>1. Undisturbed'
    BY <1>0, <1>4 DEF Undisturbed, Saving, Pending, NoLoc, Location, Touch
  <2> QED
    BY <1>0, <1>1, <1>4, <2>1 DEF RetryInv
<1>5. CASE Selects
  BY <1>3, <1>4, <1>5 DEF Selects, SelectOne, SelectMore, ClearSelection, ClearMarker, Cancel
<1>6. CASE Undo \/ Redo
  BY <1>3, <1>6 DEF Undo, Redo
<1>7. CASE Save
  BY <1>0, <1>7, SaveMakesRetryInv DEF RetryInv
<1>8. ASSUME NEW a \in Assets, Sends(a) PROVE RetryInv'
  BY <1>0, <1>8, SendsKeepRetryInv DEF RetryInv
<1>9. ASSUME NEW n, NEW targets \in SUBSET Assets, NEW loc, NEW pin, Sets(n, targets, loc, pin)
      PROVE  RetryInv'
  <2>1. UNCHANGED save
    BY <1>9 DEF Sets, SetTimes
  <2> QED
    BY <1>0, <1>1, <1>9, <2>1, SetsKeepRetryInv DEF RetryInv
<1>10. CASE FinishPartial \/ RefreshSucceeds \/ RefreshFails
  BY <1>0, <1>10, NothingParted DEF FinishPartial, RefreshSucceeds, RefreshFails, RetryInv
<1>11. CASE BeginRefresh
  <2>1. /\ save'.pending = save.pending /\ save'.fallback = save.fallback
        /\ save'.selected = save.selected /\ Saving
        /\ save'.first = save.first /\ save'.again = save.again
        /\ save'.done = save.done /\ save'.failed = save.failed
        /\ UNCHANGED <<marker, pending, touched>>
    BY <1>0, <1>11 DEF BeginRefresh, AllSent, Rest, Saving, SaveRecords
  <2>2. Payload(save.selected, save.fallback, save.pending)' = Payload(save.selected, save.fallback, save.pending)
    BY <2>1 DEF Payload, Resolved, Pending, LocationOf, NoLoc, Location
  <2>3. Parted'
    BY <1>0, <2>1, <2>2 DEF Parted
  <2>4. Undisturbed'
    BY <1>0, <2>1 DEF Undisturbed, Pending, NoLoc, Location
  <2> QED
    BY <1>0, <2>3, <2>4 DEF RetryInv
<1>12. ASSUME NEW a \in Assets, MarkerCatchesUp(a) PROVE RetryInv'
  BY <1>2, <1>12 DEF MarkerCatchesUp, Rest
<1>13. CASE UNCHANGED vars
  BY <1>2, <1>13 DEF vars
<1> QED
  BY <1>0, <1>5, <1>6, <1>7, <1>8, <1>9, <1>10, <1>11, <1>12, <1>13, Steps DEF Ends

\* keepFailedSelection and resolveSaveAssetIDs: whatever failed in a save, and whatever the
\* user did meanwhile to other photos, the next save is of the photos that failed, for the
\* same places, and of none that were saved.
THEOREM RetrySendsWhatFailedHolds == Spec => RetrySendsWhatFailed
<1> DEFINE Again == Payload(selected', marker', pending')
           Kept == \A a \in Assets \ touched :
               /\ a \in save.failed => /\ a \in Again
                                       /\ LocationOf(a, marker', pending').at = SavePlace(a)
               /\ a \in save.done => a \notin Again
<1>1. ASSUME RetryInv, FinishPartial PROVE Kept
  <2>0. /\ save \in SaveRecords /\ Parted /\ Undisturbed /\ Saving
        /\ pending \in [Assets -> Locations]
    BY <1>1, TypeParts, SnapshotFields DEF RetryInv, Shown, FinishPartial, AllSent, Saving
  <2>1. /\ pending' = [b \in Assets |-> IF b \in Assets \ save.failed THEN NoLoc ELSE pending[b]]
        /\ selected' = save.selected \intersect save.failed
        /\ marker' = marker
    BY <1>1 DEF FinishPartial, Without
  <2> SUFFICES ASSUME NEW a \in Assets \ touched PROVE
               /\ a \in save.failed => /\ a \in Again
                                       /\ LocationOf(a, marker', pending').at = SavePlace(a)
               /\ a \in save.done => a \notin Again
    OBVIOUS
  <2>2. /\ pending[a] = save.pending[a] /\ marker = save.fallback
        /\ Pending(save.pending) = {} => Pending(pending) = {}
    BY <2>0 DEF Undisturbed
  <2>3. CASE a \in save.failed
    <3>1. /\ a \in Resolved(save.selected, save.fallback, save.pending)
          /\ ~LocationOf(a, save.fallback, save.pending).applied
          /\ a \notin save.done
      BY <2>0, <2>3 DEF Parted, Payload
    <3>2. pending'[a] = save.pending[a] /\ marker' = save.fallback
      BY <2>1, <2>2, <2>3
    <3>3. LocationOf(a, marker', pending') = LocationOf(a, save.fallback, save.pending)
      BY <3>2 DEF LocationOf
    <3>4. a \in Resolved(selected', marker', pending')
      <4>1. CASE Pending(save.pending) # {}
        <5>1. a \in Pending(save.pending)
          BY <3>1, <4>1 DEF Resolved
        <5>2. a \in Pending(pending')
          BY <3>2, <5>1 DEF Pending
        <5> QED
          BY <5>2 DEF Resolved
      <4>2. CASE Pending(save.pending) = {}
        <5>1. a \in save.selected /\ save.fallback # NoLoc
          BY <3>1, <4>2 DEF Resolved
        <5>2. Pending(pending') = {}
          BY <2>1, <2>2, <4>2 DEF Pending
        <5> QED
          BY <2>1, <2>3, <3>2, <5>1, <5>2 DEF Resolved
      <4> QED
        BY <4>1, <4>2
    <3> QED
      BY <3>1, <3>3, <3>4 DEF Payload, SavePlace
  <2>4. CASE a \notin save.failed
    <3>1. pending'[a] = NoLoc /\ a \notin selected'
      BY <2>1, <2>4
    <3>2. a \notin Resolved(selected', marker', pending')
      BY <3>1 DEF Resolved, Pending
    <3> QED
      BY <2>4, <3>2 DEF Payload
  <2> QED
    BY <2>3, <2>4
<1>2. RetryInv /\ [Next]_vars => [FinishPartial => Kept]_vars
  BY <1>1
<1> QED
  BY <1>2, RetryInvInit, RetryInvStep, PTL DEF Spec, RetrySendsWhatFailed
=============================================================================
