-------------------------- MODULE GlobalPatchProofs --------------------------
(***************************************************************************)
(* Global patch allocation: the ranges of frames that share global patches *)
(* cover all frames; the tracks within a range follow the matches packing  *)
(* left; a finished range is that of before in another order, with its     *)
(* global patches first and all at one place; and nothing overlaps in it.  *)
(***************************************************************************)
EXTENDS GlobalPatch, PackingProofs, DataLemmas

-----------------------------------------------------------------------------
(***************************************************************************)
(* Where the loop over the frames is.                                      *)
(***************************************************************************)
\* The last frame that is finished.
LastDone == IF subs = <<>> THEN 0 ELSE subs[Len(subs)].hi

\* The steps of the growth of a subcontext.
Growing == {"track", "union", "frame", "pack", "decide"}

\* The frames that are finished, accepted and packed follow each other.
Control ==
  /\ step \in Steps /\ at \in Nat \ {0} /\ first \in Nat
  /\ IsSeq(pre) /\ IsSeq(packed) /\ IsSeq(subs) /\ LastDone \in Nat
  /\ step \notin Growing => first = 0 /\ pre = <<>> /\ packed = <<>> /\ tracks = <<>>
  /\ step \in Growing =>
       first = LastDone + 1 /\ Len(pre) \in Nat \ {0} /\ at = first + Len(pre)
  /\ step \in {"track", "union"} => packed = <<>>
  /\ step \in {"frame", "pack"} => first + Len(packed) <= at
  /\ step = "decide" =>
       /\ packed # <<>>
       /\ first + Len(packed) = at + 1 \/ packed[Len(packed)].height > MinV

\* The frames of the subcontexts and of the one under way leave no gap.
TileInv == Control /\ SubContextsTile

\* Finishing the frames lo .. at' - 1 leaves no gap.
LEMMA CloseTiles ==
  ASSUME TileInv, NEW lo, NEW ps, IsSeq(ps), Len(ps) > 0, lo = LastDone + 1,
         Close(lo, ps), at' = lo + Len(ps)
  PROVE  TileInv'
<1> DEFINE sub == [lo |-> lo, hi |-> lo + Len(ps) - 1,
                   globals |-> [k \in DOMAIN ps |-> ps[k].globals]]
<1>1. /\ subs' = Append(subs, sub) /\ step' = "start" /\ first' = 0
      /\ tracks' = <<>> /\ packed' = <<>> /\ pre' = <<>>
  BY DEF Close
<1>2. LastDone \in Nat /\ Len(ps) \in Nat \ {0} /\ IsSeq(subs) /\ Len(subs) \in Nat
  BY DEF TileInv, Control, IsSeq
<1>3. sub.lo = LastDone + 1 /\ sub.hi = LastDone + Len(ps)
  BY <1>2
<1> HIDE DEF sub
<1>4. /\ IsSeq(subs') /\ Len(subs') = Len(subs) + 1 /\ subs' # <<>>
      /\ \A s \in 1 .. Len(subs) : subs'[s] = subs[s]
      /\ subs'[Len(subs) + 1] = sub
  BY <1>1, <1>2, AppendIs
<1>5. LastDone' = LastDone + Len(ps)
  BY <1>3, <1>4 DEF LastDone
<1>6. Control'
  BY <1>1, <1>2, <1>4, <1>5, EmptyIsSeq DEF Control, Steps, Growing
<1>7. SubContextsTile'
  <2>1. DOMAIN subs = 1 .. Len(subs) /\ DOMAIN subs' = 1 .. Len(subs) + 1
    BY <1>2, <1>4 DEF IsSeq
  <2>2. ASSUME NEW s \in DOMAIN subs'
        PROVE  /\ subs'[s].lo = IF s = 1 THEN 1 ELSE subs'[s - 1].hi + 1
               /\ subs'[s].lo <= subs'[s].hi
    <3>1. CASE s \in 1 .. Len(subs)
      <4>1. s # 1 => s - 1 \in 1 .. Len(subs)
        BY <1>2, <3>1
      <4> QED
        BY <1>4, <2>1, <3>1, <4>1 DEF TileInv, SubContextsTile
    <3>2. CASE s = Len(subs) + 1
      <4>1. subs'[s].lo <= subs'[s].hi
        BY <1>2, <1>3, <1>4, <3>2
      <4>2. CASE Len(subs) = 0
        <5>1. LastDone = 0
          BY <1>2, <4>2 DEF LastDone, IsSeq
        <5> QED
          BY <1>3, <1>4, <3>2, <4>1, <4>2, <5>1
      <4>3. CASE Len(subs) # 0
        <5>1. s # 1 /\ s - 1 = Len(subs) /\ Len(subs) \in 1 .. Len(subs)
          BY <1>2, <3>2, <4>3
        <5>2. LastDone = subs[Len(subs)].hi
          BY <4>3 DEF LastDone
        <5> QED
          BY <1>3, <1>4, <3>2, <4>1, <5>1, <5>2
      <4> QED
        BY <4>2, <4>3
    <3> QED
      BY <1>2, <2>1, <3>1, <3>2
  <2>3. at' = 1 + LastDone' + Len(pre')
    BY <1>1, <1>2, <1>5
  <2> QED
    BY <2>2, <2>3 DEF SubContextsTile, LastDone
<1> QED
  BY <1>6, <1>7 DEF TileInv

\* A step that finishes no subcontext.
LEMMA OthersTile ==
  ASSUME TileInv, UNCHANGED subs, Control',
         at' - Len(pre') = at - Len(pre), at' \in Nat, Len(pre') \in Nat
  PROVE  TileInv'
<1>1. at \in Nat /\ Len(pre) \in Nat /\ LastDone \in Nat
  BY DEF TileInv, Control, IsSeq
<1>2. at = 1 + LastDone + Len(pre)
  BY DEF TileInv, SubContextsTile, LastDone
<1>3. at' = 1 + LastDone + Len(pre')
  BY <1>1, <1>2
<1> QED
  BY <1>3 DEF TileInv, SubContextsTile, LastDone

\* A roll back finishes the frames before the one that could not be added.
LEMMA RollBackTiles ==
  ASSUME TileInv, step \in Growing, RollBack
  PROVE  TileInv'
<1>1. /\ IsSeq(pre) /\ Len(pre) > 0 /\ first = LastDone + 1
      /\ at = first + Len(pre)
  BY DEF TileInv, Control
<1>2. Close(first, pre) /\ at' = at
  BY DEF RollBack, Restart
<1> QED
  BY <1>1, <1>2, CloseTiles

\* The first frame of a subcontext, which may be the last of all.
LEMMA FirstLaidTiles == ASSUME TileInv, FirstLaid PROVE TileInv'
<1>0. /\ step = "first" /\ at' = at + 1
  BY DEF FirstLaid
<1>1. /\ at \in Nat \ {0} /\ pre = <<>> /\ first = 0 /\ LastDone \in Nat
      /\ packed = <<>> /\ IsSeq(subs)
  BY <1>0 DEF TileInv, Control, Growing
<1>2. at = LastDone + 1
  BY <1>1 DEF TileInv, SubContextsTile, LastDone
<1> DEFINE p == AsPacked(at, patches, DOMAIN patches)
<1>3. IsSeq(<<p>>) /\ Len(<<p>>) = 1
  BY DEF IsSeq
<1>4. CASE at = PackFrames
  <2>1. Close(at, <<p>>)
    BY <1>4 DEF FirstLaid
  <2> HIDE DEF p
  <2>2. Len(<<p>>) > 0 /\ at' = at + Len(<<p>>)
    BY <1>0, <1>3
  <2> QED
    BY <1>2, <1>3, <2>1, <2>2, CloseTiles
<1>5. CASE at # PackFrames
  <2>1. /\ pre' = <<p>> /\ first' = at /\ step' = "track"
        /\ UNCHANGED <<packed, subs>>
    BY <1>5 DEF FirstLaid
  <2> HIDE DEF p
  <2>2. Control'
    BY <1>0, <1>1, <1>2, <1>3, <2>1, EmptyIsSeq DEF Control, Steps, Growing, LastDone
  <2>3. at' - Len(pre') = at - Len(pre) /\ at' \in Nat /\ Len(pre') \in Nat
    BY <1>0, <1>1, <1>3, <2>1
  <2> QED
    BY <2>1, <2>2, <2>3, OthersTile
<1> QED
  BY <1>4, <1>5

\* One frame more of the subcontext is packed.
LEMMA FrameLaidTiles == ASSUME TileInv, FrameLaid PROVE TileInv'
<1>1. /\ step = "pack" /\ step' \in {"decide", "frame"}
      /\ UNCHANGED <<at, first, tracks, pre, subs>>
      /\ step' = IF canvas.height > MinV \/ Current = at THEN "decide" ELSE "frame"
  BY DEF FrameLaid
<1>2. PICK p : packed' = Append(packed, p) /\ p.height = canvas.height
  <2>1. PICK items : packed' = Append(packed, AsPacked(Current, items, GlobalsOf(Current)))
    BY DEF FrameLaid
  <2>2. AsPacked(Current, items, GlobalsOf(Current)).height = canvas.height
    BY DEF AsPacked
  <2> QED
    BY <2>1, <2>2
<1>3. /\ IsSeq(packed) /\ Len(packed) \in Nat /\ first + Len(packed) <= at
      /\ first \in Nat /\ at \in Nat
  BY <1>1 DEF TileInv, Control, IsSeq
<1>4. /\ IsSeq(packed') /\ Len(packed') = Len(packed) + 1 /\ packed' # <<>>
      /\ packed'[Len(packed')] = p
  BY <1>2, <1>3, AppendIs
<1>5. Current = first + Len(packed)
  BY <1>1 DEF Current
<1>6. Control'
  <2>1. /\ first = LastDone + 1 /\ Len(pre) \in Nat \ {0} /\ at = first + Len(pre)
        /\ IsSeq(pre) /\ IsSeq(subs) /\ LastDone \in Nat /\ LastDone' = LastDone
        /\ at \in Nat \ {0}
    BY <1>1 DEF TileInv, Control, Growing, LastDone
  <2>2. step' = "frame" => first' + Len(packed') <= at'
    BY <1>1, <1>3, <1>4, <1>5
  <2>3. step' = "decide" =>
          first' + Len(packed') = at' + 1 \/ packed'[Len(packed')].height > MinV
    BY <1>1, <1>2, <1>3, <1>4, <1>5
  <2> QED
    BY <1>1, <1>3, <1>4, <2>1, <2>2, <2>3 DEF Control, Steps, Growing
<1>7. at' - Len(pre') = at - Len(pre) /\ at' \in Nat /\ Len(pre') \in Nat
  BY <1>1 DEF TileInv, Control, IsSeq
<1> QED
  BY <1>1, <1>6, <1>7, OthersTile

\* The frame is added, and finished when it is the last.
LEMMA AcceptTiles == ASSUME TileInv, Accept PROVE TileInv'
<1>1. /\ step = "decide" /\ ~BadPacking /\ at' = at + 1
  BY DEF Accept
<1>2. /\ IsSeq(packed) /\ Len(packed) \in Nat /\ first \in Nat /\ at \in Nat \ {0}
      /\ first = LastDone + 1 /\ Len(pre) \in Nat \ {0} /\ at = first + Len(pre)
      /\ packed # <<>>
  BY <1>1 DEF TileInv, Control, IsSeq, Growing
<1>3. first + Len(packed) = at + 1
  BY <1>1 DEF TileInv, Control, BadPacking
<1>4. Len(packed) > 0
  BY <1>2, <1>3
<1>5. CASE at = PackFrames
  <2>1. Close(first, packed)
    BY <1>5 DEF Accept
  <2> QED
    <3>1. at' = first + Len(packed)
      BY <1>1, <1>3
    <3> QED
      BY <1>2, <1>4, <2>1, <3>1, CloseTiles
<1>6. CASE at # PackFrames
  <2>1. /\ pre' = packed /\ packed' = <<>> /\ step' = "track"
        /\ UNCHANGED <<first, subs, tracks>>
    BY <1>6 DEF Accept, Accepted
  <2>0. IsSeq(subs) /\ LastDone' = LastDone /\ LastDone \in Nat
    BY <2>1 DEF TileInv, Control, LastDone
  <2>2. Control'
    BY <1>1, <1>2, <1>3, <1>4, <2>0, <2>1, EmptyIsSeq
    DEF Control, Steps, Growing
  <2>3. at' - Len(pre') = at - Len(pre) /\ at' \in Nat /\ Len(pre') \in Nat
    <3>1. Len(pre') = Len(packed)
      BY <2>1
    <3>2. at - Len(pre) = first /\ at + 1 - Len(packed) = first
      BY <1>2, <1>3
    <3>3. at' = at + 1 /\ at \in Nat /\ Len(packed) \in Nat
      BY <1>1, <1>2
    <3>4. at' - Len(pre') = at + 1 - Len(packed)
      BY <3>1, <3>3
    <3>5. at' \in Nat /\ Len(pre') \in Nat
      BY <3>1, <3>3
    <3> QED
      BY <3>2, <3>4, <3>5
  <2>4. UNCHANGED subs
    BY <2>1
  <2> HIDE DEF Control, TileInv
  <2> QED
    BY <2>2, <2>3, <2>4, OthersTile
<1> QED
  BY <1>5, <1>6

\* No step leaves a gap.
LEMMA TileNext == TileInv /\ [GpaNext]_gpaVars => TileInv'
<1> SUFFICES ASSUME TileInv, [GpaNext]_gpaVars PROVE TileInv'
  OBVIOUS
<1>1. CASE FirstLaid
  BY <1>1, FirstLaidTiles
<1>2. CASE FrameLaid
  BY <1>2, FrameLaidTiles
<1>3. CASE Accept
  BY <1>3, AcceptTiles
<1>4. CASE GiveUp
  BY <1>4, RollBackTiles DEF GiveUp, Growing
<1>5. CASE Reject
  BY <1>5, RollBackTiles DEF Reject, Growing
<1>6. CASE PackStep \/ LayPatch \/ LayMissed \/ LayGrow \/ GpaEnds \/ UNCHANGED gpaVars
  <2>1. UNCHANGED <<step, at, first, tracks, packed, pre, subs>>
    BY <1>6 DEF PackStep, LayPatch, LayMissed, LayGrow, GpaEnds, gpaVars
  <2>2. Control'
    BY <2>1 DEF TileInv, Control, LastDone
  <2> QED
    BY <2>1, <2>2 DEF TileInv, SubContextsTile
<1>7. CASE StartSubContext \/ Track \/ Unite \/ BeginFrame
  <2>1. UNCHANGED <<at, first, packed, pre, subs>>
    BY <1>7 DEF StartSubContext, Track, Unite, BeginFrame
  <2>0. /\ at \in Nat \ {0} /\ first \in Nat /\ LastDone \in Nat /\ LastDone' = LastDone
        /\ IsSeq(pre) /\ IsSeq(packed) /\ IsSeq(subs)
    BY <2>1 DEF TileInv, Control, LastDone
  <2>2. ASSUME StartSubContext PROVE Control'
    <3>1. step = "start" /\ step' = "first" /\ UNCHANGED tracks
      BY <2>2 DEF StartSubContext
    <3> QED
      BY <2>0, <2>1, <3>1 DEF TileInv, Control, Growing, Steps
  <2>3. ASSUME Track \/ Unite \/ BeginFrame PROVE Control'
    <3>1. /\ step \in Growing /\ step' \in Growing /\ step \in {"track", "union", "frame"}
          /\ step' \in {"union", "frame", "pack"} /\ step' \in Steps
          /\ step' = "union" => step = "track"
          /\ step' = "frame" => step = "union"
          /\ step' = "pack" => step = "frame"
      BY <2>3 DEF Track, Unite, BeginFrame, Growing, Steps
    <3>2. first = LastDone + 1 /\ Len(pre) \in Nat \ {0} /\ at = first + Len(pre)
      BY <3>1 DEF TileInv, Control
    <3>3. step \in {"track", "union"} => packed = <<>>
      BY DEF TileInv, Control
    <3>4. step' \in {"frame", "pack"} => first + Len(packed) <= at
      <4>1. packed = <<>> => first + Len(packed) <= at
        BY <2>0, <3>2
      <4> QED
        BY <3>1, <3>3, <4>1 DEF TileInv, Control
    <3> HIDE DEF Growing, Steps
    <3>5. step' \notin {"start", "first", "track", "decide"}
      BY <3>1
    <3> QED
      BY <2>0, <2>1, <3>1, <3>2, <3>3, <3>4, <3>5 DEF Control
  <2>6. Control'
    BY <1>7, <2>2, <2>3
  <2> QED
    BY <2>1, <2>6 DEF TileInv, SubContextsTile
<1> QED
  BY <1>1, <1>2, <1>3, <1>4, <1>5, <1>6, <1>7 DEF GpaNext

\* The subcontexts cover the frames one after the other: a roll back loses no
\* frame and adds none to two of them.
THEOREM SubContextsCover == GpaSpec => []SubContextsTile
<1>1. GpaInit => TileInv
  <2> SUFFICES ASSUME GpaInit PROVE TileInv
    OBVIOUS
  <2>1. LastDone = 0
    BY DEF GpaInit, LastDone
  <2> QED
    BY <2>1, EmptyIsSeq DEF GpaInit, TileInv, Control, SubContextsTile, Steps, Growing
<1>2. TileInv /\ [GpaNext]_gpaVars => TileInv'
  BY TileNext
<1>3. TileInv => SubContextsTile
  BY DEF TileInv
<1> QED
  BY <1>1, <1>2, <1>3, PTL DEF GpaSpec

-----------------------------------------------------------------------------
(***************************************************************************)
(* Matches between two frames that are not finished.                       *)
(***************************************************************************)
\* All frames are packed with a look at the frame before.
MatchedBefore == \A o \in Options : o.constrained

\* Missed points patches are packed into the image, if at all, and then no
\* patch makes the canvas wider than it is at least.
MissedSound ==
  \/ MissedSizes \subseteq {<<>>}
  \/ \A o \in Options : IF o.separate THEN o.strategy # 2
                        ELSE \A s \in Shapes : s.w < MinU

\* The lists of patches of the frames.
Patches == [f \in 1 .. PackFrames |-> frames[f].patches]

\* The patch of the frame before that patch i of frame f is matched to.
Named(P, f, i) == P[f][i].match + 1

\* The matched patches come first, in the order of their matches.
Rising(cur) ==
  \A i, j \in 1 .. Len(cur) :
    i < j /\ cur[j].match # Invalid =>
      cur[i].match # Invalid /\ cur[i].match < cur[j].match

\* A match names a patch of the frame before, of the same view.
Linked(P, f) ==
  \A i \in 1 .. Len(P[f]) :
    \/ P[f][i].match = Invalid
    \/ /\ Named(P, f, i) \in 1 .. Len(P[f - 1])
       /\ P[f - 1][Named(P, f, i)].shape.view = P[f][i].shape.view

\* A patch overlaps the one it is matched to.
Overlapping(P, f) ==
  \A i \in 1 .. Len(P[f]) :
    P[f][i].match # Invalid =>
      Overlap(P[f - 1][Named(P, f, i)], P[f][i]) > Threshold

\* What packing ensures of a frame and the one before.
Chained(P, f) ==
  /\ Linked(P, f) /\ Rising(P[f]) /\ Overlapping(P, f)
  /\ NoneBetter(P[f - 1], P[f], Len(P[f - 1]))

-----------------------------------------------------------------------------
(***************************************************************************)
(* Tracks of length n that begin in frame lo.                              *)
(***************************************************************************)
TrackOK(P, t, i, lo, n) ==
  /\ IsSeq(t) /\ Len(t) = n /\ t[1] = i
  /\ \A k \in 1 .. n : t[k] \in 1 .. Len(P[lo + k - 1])
  /\ \A k \in 2 .. n : Named(P, lo + k - 1, t[k]) = t[k - 1]

\* The tracks that go on.
AliveIn(ts) == {i \in 1 .. Len(ts) : ts[i] # <<>>}

\* A track for each patch of frame lo; no two meet or cross, and those that go
\* on have the first patches of the last frame.
TracksOK(P, ts, lo, n) ==
  /\ IsSeq(ts) /\ Len(ts) = Len(P[lo])
  /\ \A i \in AliveIn(ts) : TrackOK(P, ts[i], i, lo, n)
  /\ \A i, j \in AliveIn(ts) : i < j => \A k \in 1 .. n : ts[i][k] < ts[j][k]
  /\ \A i \in AliveIn(ts) : \A m \in 1 .. ts[i][n] :
       \E j \in AliveIn(ts) : ts[j][n] = m

\* The global patches of a frame are matched to those of the frame before.
Chain(P, lo, ps) ==
  /\ \A k \in 2 .. Len(ps) :
       /\ \A i \in ps[k].globals :
            /\ Named(P, lo + k - 1, i) \in ps[k - 1].globals
            /\ SamePlace(ps[k].items[i], ps[k - 1].items[Named(P, lo + k - 1, i)])
       /\ \A j \in ps[k - 1].globals :
            \E i \in ps[k].globals : Named(P, lo + k - 1, i) = j
  /\ \A i \in ps[Len(ps)].globals : 1 .. i \subseteq ps[Len(ps)].globals

\* A patch has these fields and no others.
IsPatch(p) ==
  p = [shape |-> p.shape, match |-> p.match, u0 |-> p.u0, v0 |-> p.v0,
       turn |-> p.turn]

\* The frames a track that goes on has been through.
TrackLength == at - first + (IF step = "track" THEN 0 ELSE 1)

\* Nothing is allocated before all frames are packed.
Untouched ==
  /\ step = "start" /\ at = 1 /\ first = 0 /\ tracks = <<>>
  /\ unions = NoUnions /\ packed = <<>> /\ pre = <<>> /\ subs = <<>>

-----------------------------------------------------------------------------
(***************************************************************************)
(* Lists of the indices of patches.                                        *)
(***************************************************************************)
\* Ascending does what it says.
LEMMA AscendingLists ==
  ASSUME NEW n \in Nat, NEW S \in SUBSET (1 .. n)
  PROVE  Lists(Ascending(S), S) /\ Len(Ascending(S)) = Cardinality(S)
         /\ IsFiniteSet(S) /\ Cardinality(S) \in Nat
<1>1. IsFiniteSet(S) /\ Cardinality(S) \in Nat
  BY ListExists, FS_CardinalityType
<1>2. PICK c \in Nat : c = Cardinality(S)
  BY <1>1
<1>3. \E s \in [1 .. c -> S] :
        /\ {s[i] : i \in DOMAIN s} = S
        /\ \A i, j \in DOMAIN s : i < j => s[i] < s[j]
  BY <1>2, ListExists
<1>4. PICK s : s = Ascending(S)
  OBVIOUS
<1>5. /\ s \in [1 .. c -> S]
      /\ {s[i] : i \in DOMAIN s} = S
      /\ \A i, j \in DOMAIN s : i < j => s[i] < s[j]
  BY <1>2, <1>3, <1>4 DEF Ascending
<1>6. s \in Seq(S) /\ Len(s) = c /\ DOMAIN s = 1 .. c
  BY <1>5, FunctionIsSeq
<1>7. IsSeq(s)
  BY <1>5, <1>6 DEF IsSeq
<1>8. \A x \in S : \E i \in 1 .. c : s[i] = x
  BY <1>5, <1>6
<1> QED
  BY <1>1, <1>2, <1>4, <1>5, <1>6, <1>7, <1>8 DEF Lists

-----------------------------------------------------------------------------
(***************************************************************************)
(* What packing leaves to the allocation, besides PackInv.                 *)
(***************************************************************************)
OverlapsIn(prev, cur) ==
  \A i \in 1 .. Len(cur) :
    cur[i].match # Invalid => Overlap(prev[cur[i].match + 1], cur[i]) > Threshold

\* A frame that is packed.
FrameExtra(f) ==
  /\ Len(f.patches) >= 1 /\ Len(f.missed) <= 1
  /\ ~opt.separate => f.laid = Len(f.missed)
  /\ MissedSound /\ opt.separate => f.laid = 0
  /\ MissedSizes \subseteq {<<>>} => f.missed = <<>>

\* The frame that is being packed.
InHand ==
  /\ Len(patches) >= 1 /\ Len(missed) <= 1
  /\ MissedSizes \subseteq {<<>>} => missed = <<>>
  /\ frames # <<>> => OverlapsIn(Prev, patches)
  /\ phase = "missed" => missed # <<>> /\ (MissedSound => ~opt.separate)

\* What is known of all frames while the group is packed.
PackExtra ==
  /\ \A f \in 1 .. Len(frames) : FrameExtra(frames[f])
  /\ \A f \in 2 .. Len(frames) : OverlapsIn(frames[f - 1].patches, frames[f].patches)
  /\ phase # "segment" => InHand

\* A frame that is added has been in hand.
LEMMA FrameDoneExtra ==
  ASSUME PackInv, PackExtra, phase # "segment", NEW laid, NEW c,
         UNCHANGED <<opt, missed>>, FrameDone(laid, c),
         ~opt.separate => laid = Len(missed),
         MissedSound /\ opt.separate => laid = 0
  PROVE  PackExtra'
<1>1. PICK f : /\ frames' = Append(frames, f)
               /\ f = [patches |-> patches, matches |-> Len(matched), missed |-> missed',
                       laid |-> laid, width |-> c.width, height |-> c.height]
  BY DEF FrameDone
<1>2. f.patches = patches /\ f.missed = missed /\ f.laid = laid
  BY <1>1
<1>3. InHand /\ frames \in Seq(FrameSet) /\ Len(frames) \in Nat
  BY TypeFacts DEF PackExtra
<1>4. FrameExtra(f)'
  BY <1>2, <1>3 DEF FrameExtra, InHand, MissedSound
<1>5. /\ Len(frames') = Len(frames) + 1 /\ frames'[Len(frames) + 1] = f
      /\ \A k \in 1 .. Len(frames) : frames'[k] = frames[k]
  BY <1>1, <1>3
<1>6. \A k \in 1 .. Len(frames') : k \in 1 .. Len(frames) \/ k = Len(frames) + 1
  BY <1>3, <1>5
<1>7. \A k \in 1 .. Len(frames) : FrameExtra(frames[k])'
  <2> TAKE k \in 1 .. Len(frames)
  <2>1. FrameExtra(frames[k]) /\ frames'[k] = frames[k] /\ opt' = opt
    BY <1>5 DEF PackExtra
  <2> QED
    BY <2>1 DEF FrameExtra, MissedSound
<1>8. ASSUME NEW k \in 2 .. Len(frames')
      PROVE  OverlapsIn(frames'[k - 1].patches, frames'[k].patches)
  <2>1. CASE k \in 2 .. Len(frames)
    <3>1. k - 1 \in 1 .. Len(frames) /\ k \in 1 .. Len(frames)
      BY <1>3, <2>1
    <3> QED
      BY <1>5, <2>1, <3>1 DEF PackExtra
  <2>2. CASE k = Len(frames) + 1
    <3>1. Len(frames) \in 1 .. Len(frames) /\ frames # <<>> /\ k - 1 = Len(frames)
      BY <1>3, <2>2
    <3>2. OverlapsIn(Prev, patches)
      BY <1>3, <3>1 DEF InHand
    <3> QED
      BY <1>2, <1>5, <2>2, <3>1, <3>2 DEF Prev
  <2> QED
    BY <1>3, <1>5, <2>1, <2>2
<1>9. phase' = "segment"
  BY DEF FrameDone
<1>10. \A k \in 1 .. Len(frames') : FrameExtra(frames[k])'
  <2> TAKE k \in 1 .. Len(frames')
  <2>1. CASE k \in 1 .. Len(frames)
    BY <1>7, <2>1
  <2>2. CASE k = Len(frames) + 1
    <3>1. frames'[k] = f
      BY <1>5, <2>2
    <3> QED
      BY <1>4, <3>1 DEF FrameExtra, MissedSound
  <2> QED
    BY <1>6, <2>1, <2>2
<1> QED
  BY <1>8, <1>9, <1>10 DEF PackExtra, OverlapsIn, Overlap

\* As long as no frame is added only the one in hand can change.
LEMMA InHandExtra ==
  ASSUME PackExtra, UNCHANGED <<opt, frames>>, InHand'
  PROVE  PackExtra'
BY DEF PackExtra, FrameExtra, MissedSound, OverlapsIn, Overlap

\* Packing a frame keeps it.
LEMMA PackStepExtra ==
  ASSUME PackInv, PackExtra, PackStep
  PROVE  PackExtra'
<1>0. /\ frames \in Seq(FrameSet) /\ Len(frames) \in Nat
      /\ patches \in Seq(PatchSet) /\ matched \in Seq(DOMAIN patches)
      /\ missed \in Seq(MissedSet) /\ opt \in Options /\ id \in Nat /\ placed \in Nat
  BY TypeFacts
<1>1. ASSUME NEW n \in 1 .. MaxInFrame, NEW sizes \in MissedSizes,
             NEW shapes \in [1 .. n -> Shapes], Segment(shapes, sizes)
      PROVE  PackExtra'
  <2>1. n \in Nat /\ n >= 1 /\ DOMAIN shapes = 1 .. n
    BY ConstantsType
  <2>2. shapes # <<>>
    <3>1. 1 \in DOMAIN shapes
      BY <2>1
    <3> QED
      BY <3>1
  <2>3. /\ patches' = [i \in 1 .. n |-> FreshPatch(shapes[i])]
        /\ UNCHANGED <<opt, frames>> /\ phase' \in {"place", "match"}
        /\ missed' = [i \in DOMAIN sizes |->
                  [size |-> sizes[i], w |-> 0, h |-> 0, u0 |-> 0, v0 |-> 0]]
    BY <1>1, <2>1, <2>2 DEF Segment
  <2>4. Len(patches') = n
    BY <2>1, <2>3
  <2>5. sizes \in Seq(Nat \ {0}) /\ Len(sizes) <= 1
    BY ConstantsType, GlobalPatchAssumption
  <2>6. Len(missed') = Len(sizes)
    BY <2>3, <2>5
  <2>7. sizes = <<>> => missed' = <<>>
    BY <2>3
  <2>8. \A i \in 1 .. n : patches'[i].match = Invalid
    BY <2>3 DEF FreshPatch
  <2>9. InHand'
    BY <2>1, <2>3, <2>4, <2>5, <2>6, <2>7, <2>8 DEF InHand, OverlapsIn
  <2> QED
    BY <2>3, <2>9, InHandExtra
<1>2. ASSUME MatchOne PROVE PackExtra'
  <2>1. UNCHANGED <<opt, frames, phase, missed>> /\ phase = "match" /\ id < Len(Prev)
    BY <1>2 DEF MatchOne
  <2>2. InHand /\ frames # <<>>
    BY <2>1, TypeFacts DEF PackExtra, MatchInv, Matching
  <2>3. CASE \E i \in DOMAIN patches :
              /\ IsBest(Prev[id + 1], i)
              /\ patches' = [patches EXCEPT ![i].match = id]
    <3>1. PICK i \in DOMAIN patches :
              /\ IsBest(Prev[id + 1], i)
              /\ patches' = [patches EXCEPT ![i].match = id]
      BY <2>3
    <3>2. /\ DOMAIN patches = 1 .. Len(patches) /\ Len(patches) \in Nat
          /\ Len(patches') = Len(patches)
      BY <1>0, <3>1
    <3>3. \A k \in 1 .. Len(patches) : k # i => patches'[k] = patches[k]
      BY <3>1, <3>2
    <3>4. patches[i] = [shape |-> patches[i].shape, match |-> patches[i].match,
                        u0 |-> patches[i].u0, v0 |-> patches[i].v0,
                        turn |-> patches[i].turn]
      BY <1>0, <3>2, PatchFields
    <3>5. patches'[i].match = id /\ patches'[i].shape = patches[i].shape
      BY <3>1, <3>2, <3>4
    <3>6. Overlap(Prev[id + 1], patches'[i]) > Threshold
      BY <3>1, <3>5 DEF IsBest, Overlap
    <3>7. OverlapsIn(Prev, patches')
      BY <2>2, <3>2, <3>3, <3>5, <3>6 DEF InHand, OverlapsIn, Overlap
    <3>8. Prev' = Prev
      BY <2>1 DEF Prev
    <3>9. InHand'
      BY <2>1, <2>2, <3>2, <3>7, <3>8 DEF InHand
    <3> QED
      BY <2>1, <3>9, InHandExtra
  <2>4. CASE UNCHANGED patches
    <3>1. InHand'
      BY <2>1, <2>2, <2>4 DEF InHand, OverlapsIn, Overlap, Prev, MissedSound
    <3> QED
      BY <2>1, <3>1, InHandExtra
  <2> QED
    BY <1>2, <2>3, <2>4 DEF MatchOne
<1>3. ASSUME Reorder PROVE PackExtra'
  <2>1. UNCHANGED <<opt, frames, missed>> /\ phase = "match" /\ phase' = "place"
    BY <1>3 DEF Reorder
  <2>2. InHand
    BY <2>1 DEF PackExtra
  <2>3. PICK order \in [DOMAIN patches -> DOMAIN patches] :
          patches' = [i \in DOMAIN patches |-> patches[order[i]]]
    BY <1>3 DEF Reorder
  <2>4. DOMAIN patches = 1 .. Len(patches) /\ Len(patches) \in Nat
    BY <1>0
  <2>5. Len(patches') = Len(patches)
    BY <2>3, <2>4
  <2>6. \A i \in 1 .. Len(patches) : order[i] \in 1 .. Len(patches) /\ patches'[i] = patches[order[i]]
    BY <2>3, <2>4
  <2>7. Prev' = Prev
    BY <2>1 DEF Prev
  <2>9. ASSUME frames # <<>> PROVE OverlapsIn(Prev, patches')
    <3>1. OverlapsIn(Prev, patches)
      BY <2>2, <2>9 DEF InHand
    <3>2. \A i \in 1 .. Len(patches) :
            patches'[i].match # Invalid =>
              Overlap(Prev[patches'[i].match + 1], patches'[i]) > Threshold
      BY <2>6, <3>1 DEF OverlapsIn
    <3> QED
      BY <2>5, <3>2 DEF OverlapsIn
  <2>8. InHand'
    <3>1. OverlapsIn(Prev, patches') <=> OverlapsIn(Prev, patches)'
      BY <2>7 DEF OverlapsIn, Overlap
    <3> QED
      BY <2>1, <2>2, <2>5, <2>9, <3>1 DEF InHand
  <2> QED
    BY <2>1, <2>8, InHandExtra
<1>4. ASSUME Place PROVE PackExtra'
  <2>1. UNCHANGED <<opt, frames, missed, phase>> /\ phase = "place" /\ placed < Len(patches)
    BY <1>4 DEF Place
  <2>2. InHand
    BY <2>1 DEF PackExtra
  <2>3. PICK t : patches' = [patches EXCEPT ![placed + 1] = Located(patches[placed + 1], t)]
    BY <1>4 DEF Place
  <2>4. /\ DOMAIN patches = 1 .. Len(patches) /\ Len(patches) \in Nat
        /\ placed + 1 \in 1 .. Len(patches)
    BY <1>0, <2>1
  <2>5. Len(patches') = Len(patches)
    BY <1>0, <2>3
  <2>6. PICK p : p = patches[placed + 1]
    OBVIOUS
  <2>7. p = [shape |-> p.shape, match |-> p.match, u0 |-> p.u0, v0 |-> p.v0, turn |-> p.turn]
    BY <1>0, <2>4, <2>6, PatchFields
  <2>8. Located(p, t).match = p.match /\ Located(p, t).shape = p.shape
    BY <2>7 DEF Located
  <2>9. \A i \in 1 .. Len(patches) : patches'[i].match = patches[i].match
                                     /\ patches'[i].shape = patches[i].shape
    BY <2>3, <2>4, <2>6, <2>8
  <2>10. Prev' = Prev
    BY <2>1 DEF Prev
  <2>11. InHand'
    BY <2>1, <2>2, <2>5, <2>9, <2>10 DEF InHand, OverlapsIn, Overlap
  <2> QED
    BY <2>1, <2>11, InHandExtra
<1>5. ASSUME Grow \/ GrowMissed PROVE PackExtra'
  <2>1. UNCHANGED <<opt, frames, phase, patches, missed>> /\ phase # "segment"
    BY <1>5 DEF Grow, GrowMissed
  <2>2. InHand'
    BY <2>1 DEF PackExtra, InHand, OverlapsIn, Overlap, Prev, MissedSound
  <2> QED
    BY <2>1, <2>2, InHandExtra
<1>6. ASSUME PlacedAll PROVE PackExtra'
  <2>1. phase = "place" /\ opt' = opt /\ InHand
    BY <1>6 DEF PlacedAll, PackExtra
  <2>2. CASE PacksMissed
    <3>1. UNCHANGED <<frames, patches, missed>> /\ phase' = "missed" /\ missed # <<>>
      BY <1>6, <2>2 DEF PlacedAll, PacksMissed
    <3>2. MissedSound => ~opt.separate
      BY <1>0, <2>1, <2>2, <3>1 DEF MissedSound, InHand, PacksMissed
    <3>3. InHand'
      BY <2>1, <3>1, <3>2 DEF InHand, OverlapsIn, Overlap, Prev, MissedSound
    <3> QED
      BY <2>1, <3>1, <3>3, InHandExtra
  <2>3. CASE ~PacksMissed
    <3>1. UNCHANGED missed /\ FrameDone(0, canvas)
      BY <1>6, <2>3 DEF PlacedAll
    <3>2. ~opt.separate => 0 = Len(missed)
      BY <2>3 DEF PacksMissed
    <3> QED
      BY <2>1, <3>1, <3>2, FrameDoneExtra
  <2> QED
    BY <2>2, <2>3
<1>7. ASSUME PlaceMissed PROVE PackExtra'
  <2>1. UNCHANGED <<opt, frames, phase, patches>> /\ phase = "missed" /\ placed < Len(missed)
    BY <1>7 DEF PlaceMissed
  <2>2. PICK n : missed' = [missed EXCEPT ![placed + 1] = n]
    BY <1>7 DEF PlaceMissed
  <2>3. InHand
    BY <2>1 DEF PackExtra
  <2>4. Len(missed') = Len(missed) /\ Len(missed) \in Nat /\ Len(missed) > 0
    BY <1>0, <2>1, <2>2
  <2>5. missed # <<>> /\ missed' # <<>>
    <3>1. Len(<<>>) = 0
      OBVIOUS
    <3> QED
      BY <2>4, <3>1
  <2>6. InHand'
    BY <2>1, <2>3, <2>4, <2>5 DEF InHand, OverlapsIn, Overlap, Prev, MissedSound
  <2> QED
    BY <2>1, <2>6, InHandExtra
<1>8. ASSUME PlacedMissed PROVE PackExtra'
  <2>1. /\ phase = "missed" /\ UNCHANGED <<opt, missed>> /\ FrameDone(Len(missed), canvas)
    BY <1>8 DEF PlacedMissed
  <2>2. MissedSound => ~opt.separate
    BY <2>1 DEF PackExtra, InHand
  <2> QED
    BY <2>1, <2>2, FrameDoneExtra
<1>9. ASSUME PackEnds PROVE PackExtra'
  BY <1>9 DEF PackEnds, packVars, PackExtra, FrameExtra, InHand, Prev, MissedSound,
              OverlapsIn, Overlap
<1> QED
  BY <1>1, <1>2, <1>3, <1>4, <1>5, <1>6, <1>7, <1>8, <1>9 DEF PackStep

-----------------------------------------------------------------------------
(***************************************************************************)
(* Tracks follow the matches.                                              *)
(***************************************************************************)
\* Frames f - 1 and f are as packing left them.
PackedPair(f) ==
  /\ f \in 2 .. PackFrames
  /\ frames[f].patches \in Seq(PatchSet) /\ frames[f - 1].patches \in Seq(PatchSet)
  /\ Chained(Patches, f)

\* The patches of frame f that are matched to patch k of the frame before.
MatchedTo(P, f, k) == {x \in 1 .. Len(P[f]) : P[f][x].match = k - 1}

\* What packing knows of two frames in a row.
LEMMA PairFacts ==
  ASSUME NEW f, PackedPair(f)
  PROVE  LET cur == frames[f].patches
             prev == frames[f - 1].patches
         IN  /\ f \in Nat /\ Len(cur) \in Nat /\ Len(prev) \in Nat
             /\ DOMAIN cur = 1 .. Len(cur) /\ DOMAIN prev = 1 .. Len(prev)
             /\ Patches[f] = cur /\ Patches[f - 1] = prev
             /\ \A i \in 1 .. Len(cur) :
                  /\ cur[i].match \in Int
                  /\ \A k \in 1 .. Len(prev) : Overlap(prev[k], cur[i]) \in Nat
             /\ \A i \in 1 .. Len(cur) :
                  cur[i].match # Invalid =>
                    /\ cur[i].match + 1 \in 1 .. Len(prev)
                    /\ prev[cur[i].match + 1].shape.view = cur[i].shape.view
                    /\ Overlap(prev[cur[i].match + 1], cur[i]) > Threshold
             /\ \A i, j \in 1 .. Len(cur) :
                  i < j /\ cur[j].match # Invalid =>
                    cur[i].match # Invalid /\ cur[i].match < cur[j].match
             /\ \A k \in 1 .. Len(prev), i \in 1 .. Len(cur) :
                  /\ prev[k].shape.view = cur[i].shape.view
                  /\ Overlap(prev[k], cur[i]) > Threshold
                  => \/ cur[i].match \in 0 .. k - 1
                     \/ \E j \in 1 .. Len(cur) :
                          /\ cur[j].match = k - 1
                          /\ Overlap(prev[k], cur[j]) >= Overlap(prev[k], cur[i])
<1> DEFINE cur == frames[f].patches
           prev == frames[f - 1].patches
<1>1. /\ f \in 2 .. PackFrames /\ cur \in Seq(PatchSet) /\ prev \in Seq(PatchSet)
      /\ Chained(Patches, f) /\ PackFrames \in Nat
  BY ConstantsType DEF PackedPair
<1>2. Patches[f] = cur /\ Patches[f - 1] = prev /\ f \in Nat
  <2>1. f \in 1 .. PackFrames /\ f - 1 \in 1 .. PackFrames /\ f \in Nat
    BY <1>1
  <2> QED
    BY <2>1 DEF Patches
<1>3. /\ Len(cur) \in Nat /\ Len(prev) \in Nat
      /\ DOMAIN cur = 1 .. Len(cur) /\ DOMAIN prev = 1 .. Len(prev)
      /\ \A i \in 1 .. Len(cur) : cur[i] \in PatchSet
      /\ \A i \in 1 .. Len(prev) : prev[i] \in PatchSet
  BY <1>1
<1> HIDE DEF cur, prev
<1>4. \A i \in 1 .. Len(cur) :
        /\ cur[i].match \in Int
        /\ \A k \in 1 .. Len(prev) : Overlap(prev[k], cur[i]) \in Nat
  BY <1>3, PatchFields, OverlapType
<1>5. \A i \in 1 .. Len(cur) :
        cur[i].match # Invalid =>
          /\ cur[i].match + 1 \in 1 .. Len(prev)
          /\ prev[cur[i].match + 1].shape.view = cur[i].shape.view
          /\ Overlap(prev[cur[i].match + 1], cur[i]) > Threshold
  BY <1>1, <1>2 DEF Chained, Linked, Overlapping, Named
<1>6. Rising(cur) /\ NoneBetter(prev, cur, Len(prev))
  BY <1>1, <1>2 DEF Chained
<1>7. \A i, j \in 1 .. Len(cur) :
        i < j /\ cur[j].match # Invalid =>
          cur[i].match # Invalid /\ cur[i].match < cur[j].match
  BY <1>6 DEF Rising
<1>8. \A k \in 1 .. Len(prev), i \in 1 .. Len(cur) :
        /\ prev[k].shape.view = cur[i].shape.view
        /\ Overlap(prev[k], cur[i]) > Threshold
        => \/ cur[i].match \in 0 .. k - 1
           \/ \E j \in 1 .. Len(cur) :
                /\ cur[j].match = k - 1
                /\ Overlap(prev[k], cur[j]) >= Overlap(prev[k], cur[i])
  BY <1>3, <1>6 DEF NoneBetter
<1> QED
  BY <1>2, <1>3, <1>4, <1>5, <1>7, <1>8 DEF cur, prev

\* At most one patch is matched to another.
LEMMA MatchedOnce ==
  ASSUME NEW f, PackedPair(f), NEW x \in 1 .. Len(frames[f].patches),
         NEW y \in 1 .. Len(frames[f].patches),
         frames[f].patches[x].match # Invalid,
         frames[f].patches[x].match = frames[f].patches[y].match
  PROVE  x = y
<1>1. x \in Int /\ y \in Int /\ frames[f].patches[x].match \in Int
  BY PairFacts
<1>2. ~(x < y) /\ ~(y < x)
  BY <1>1, PairFacts
<1> QED
  BY <1>1, <1>2

\* With the matched patches of the tracks before taken, the patch a track
\* takes is the one that is matched to its last patch.
LEMMA BestIsMatch ==
  ASSUME NEW f, PackedPair(f), NEW k \in 1 .. Len(frames[f - 1].patches), NEW taken,
         \A y \in 1 .. Len(frames[f].patches) :
           frames[f].patches[y].match \in 0 .. k - 2 => y \in taken,
         \A y \in taken : frames[f].patches[y].match # k - 1
  PROVE  Best(frames[f - 1].patches[k], f, taken) = MatchedTo(Patches, f, k)
<1> DEFINE cur == frames[f].patches
           q == frames[f - 1].patches[k]
           free == {i \in DOMAIN cur \ taken : cur[i].shape.view = q.shape.view}
<1>1. /\ k \in Nat /\ k >= 1 /\ Len(cur) \in Nat /\ DOMAIN cur = 1 .. Len(cur)
      /\ Patches[f] = cur
      /\ \A i \in 1 .. Len(cur) : cur[i].match \in Int /\ Overlap(q, cur[i]) \in Nat
  BY PairFacts
<1>2. \A i \in 1 .. Len(cur) : cur[i].match = k - 1 =>
        q.shape.view = cur[i].shape.view /\ Overlap(q, cur[i]) > Threshold
  <2> SUFFICES ASSUME NEW i \in 1 .. Len(cur), cur[i].match = k - 1
               PROVE  q.shape.view = cur[i].shape.view /\ Overlap(q, cur[i]) > Threshold
    OBVIOUS
  <2>1. cur[i].match # Invalid /\ cur[i].match + 1 = k
    BY <1>1 DEF Invalid
  <2> QED
    BY <2>1, PairFacts
<1>3. \A i \in 1 .. Len(cur) :
        /\ q.shape.view = cur[i].shape.view
        /\ Overlap(q, cur[i]) > Threshold
        => \/ cur[i].match \in 0 .. k - 1
           \/ \E j \in 1 .. Len(cur) :
                /\ cur[j].match = k - 1
                /\ Overlap(q, cur[j]) >= Overlap(q, cur[i])
  BY PairFacts
<1>4. \A i, j \in 1 .. Len(cur) : i < j /\ cur[j].match = k - 1 => cur[i].match \in 0 .. k - 2
  <2> TAKE i, j \in 1 .. Len(cur)
  <2> SUFFICES ASSUME i < j, cur[j].match = k - 1 PROVE cur[i].match \in 0 .. k - 2
    OBVIOUS
  <2>1. cur[j].match # Invalid
    BY <1>1 DEF Invalid
  <2>2. cur[i].match # Invalid /\ cur[i].match < cur[j].match
    BY <2>1, PairFacts
  <2>3. cur[i].match + 1 >= 1
    BY <2>2, PairFacts
  <2> QED
    BY <1>1, <2>2, <2>3
<1>5. Best(q, f, taken) =
        {i \in free : /\ Overlap(q, cur[i]) > Threshold
                      /\ \A j \in free :
                           \/ Overlap(q, cur[j]) < Overlap(q, cur[i])
                           \/ Overlap(q, cur[j]) = Overlap(q, cur[i]) /\ i <= j}
  BY DEF Best
<1>6. \A i \in free : i \in 1 .. Len(cur) /\ i \notin taken /\ cur[i].shape.view = q.shape.view
  BY <1>1
<1>7. \A i \in 1 .. Len(cur) : i \notin taken /\ cur[i].shape.view = q.shape.view => i \in free
  BY <1>1
<1>8. Threshold \in Nat
  BY PackingAssumption
<1>9. \A y \in 1 .. Len(cur) : cur[y].match \in 0 .. k - 2 => y \in taken
  OBVIOUS
<1>10. \A y \in taken : cur[y].match # k - 1
  OBVIOUS
<1>11. \A x, y \in 1 .. Len(cur) : cur[x].match = k - 1 /\ cur[y].match = k - 1 => x = y
  BY <1>1, MatchedOnce DEF Invalid
<1> HIDE DEF cur, q, free
<1>12. \A i \in free : i \in Int /\ cur[i].match \in Int /\ Overlap(q, cur[i]) \in Nat
  BY <1>1, <1>6
\* The matched patch beats every other free one.
<1>13. ASSUME NEW x \in 1 .. Len(cur), cur[x].match = k - 1, NEW y \in free
       PROVE  \/ Overlap(q, cur[y]) < Overlap(q, cur[x])
              \/ Overlap(q, cur[y]) = Overlap(q, cur[x]) /\ x <= y
  <2>1. CASE Overlap(q, cur[y]) > Threshold
    <3>1. cur[y].match \notin 0 .. k - 2
      BY <1>6, <1>9
    <3>2. Overlap(q, cur[x]) >= Overlap(q, cur[y])
      <4>1. CASE cur[y].match \in 0 .. k - 1
        <5>1. cur[y].match = k - 1
          BY <1>1, <3>1, <4>1
        <5>2. y = x
          BY <1>6, <1>11, <1>13, <5>1
        <5> QED
          BY <1>12, <5>2
      <4>2. CASE \E j \in 1 .. Len(cur) :
                   /\ cur[j].match = k - 1
                   /\ Overlap(q, cur[j]) >= Overlap(q, cur[y])
        BY <1>11, <1>13, <4>2
      <4> QED
        BY <1>3, <1>6, <2>1, <4>1, <4>2
    <3>3. ~(y < x)
      BY <1>4, <1>6, <1>13, <3>1
    <3>4. x \in Int /\ Overlap(q, cur[x]) \in Nat
      BY <1>1
    <3> QED
      BY <1>12, <3>2, <3>3, <3>4
  <2>2. CASE ~(Overlap(q, cur[y]) > Threshold)
    <3>1. Overlap(q, cur[x]) > Threshold /\ Overlap(q, cur[x]) \in Nat
      BY <1>1, <1>2, <1>13
    <3> QED
      BY <1>8, <1>12, <2>2, <3>1
  <2> QED
    BY <2>1, <2>2
<1>14. ASSUME NEW x \in MatchedTo(Patches, f, k) PROVE x \in Best(q, f, taken)
  <2>1. x \in 1 .. Len(cur) /\ cur[x].match = k - 1
    BY <1>1 DEF MatchedTo
  <2>2. x \in free /\ Overlap(q, cur[x]) > Threshold
    BY <1>2, <1>7, <1>10, <2>1
  <2> QED
    BY <1>5, <1>13, <2>1, <2>2
<1>15. ASSUME NEW y \in Best(q, f, taken) PROVE y \in MatchedTo(Patches, f, k)
  <2>1. /\ y \in free /\ Overlap(q, cur[y]) > Threshold
        /\ \A j \in free : \/ Overlap(q, cur[j]) < Overlap(q, cur[y])
                           \/ Overlap(q, cur[j]) = Overlap(q, cur[y]) /\ y <= j
    BY <1>5
  <2>2. y \in 1 .. Len(cur) /\ cur[y].match \notin 0 .. k - 2
    BY <1>6, <1>9, <2>1
  <2>3. \/ cur[y].match \in 0 .. k - 1
        \/ \E j \in 1 .. Len(cur) : cur[j].match = k - 1
    BY <1>3, <1>6, <2>1
  <2>4. PICK x \in 1 .. Len(cur) : cur[x].match = k - 1
    BY <1>1, <2>2, <2>3
  <2>5. x \in free /\ Overlap(q, cur[x]) \in Nat /\ x \in Int
    BY <1>1, <1>2, <1>7, <1>10, <2>4
  <2>6. \/ Overlap(q, cur[y]) < Overlap(q, cur[x])
        \/ Overlap(q, cur[y]) = Overlap(q, cur[x]) /\ x <= y
    BY <1>13, <2>1, <2>4
  <2>7. x = y
    BY <1>12, <2>1, <2>5, <2>6
  <2> QED
    BY <1>1, <2>2, <2>4, <2>7 DEF MatchedTo
<1>16. Best(q, f, taken) = MatchedTo(Patches, f, k)
  BY <1>14, <1>15
<1> QED
  BY <1>16 DEF q

-----------------------------------------------------------------------------
\* A track with the patch that is matched to its last one, if there is one.
Longer(P, t, f, n) ==
  LET next == IF t = <<>> THEN {} ELSE MatchedTo(P, f, t[n])
  IN  IF next = {} THEN <<>> ELSE Append(t, CHOOSE x \in next : TRUE)

\* The patches of frame f matched to the last patches of the first i tracks.
TakenBy(P, ts, f, n, i) ==
  UNION {MatchedTo(P, f, ts[j][n]) : j \in {j \in 1 .. i : ts[j] # <<>>}}

\* The tables from which Tracked takes the last entry.
TrackTable(h, f) ==
  h = [i \in 0 .. Len(tracks) |->
        IF i = 0 THEN [tracks |-> <<>>, taken |-> {}]
        ELSE LET was == h[i - 1]
                 t == tracks[i]
                 best == IF t = <<>> THEN {}
                         ELSE Best(frames[f - 1].patches[t[f - first]], f,
                                   was.taken)
             IN  [tracks |-> Append(was.tracks,
                                    IF best = {} THEN <<>>
                                    ELSE Append(t, CHOOSE i2 \in best : TRUE)),
                  taken |-> was.taken \cup best]]

\* Two such tables are the same.
LEMMA TrackTableOnce ==
  ASSUME NEW f, NEW g, NEW h, Len(tracks) \in Nat, TrackTable(g, f), TrackTable(h, f)
  PROVE  g[Len(tracks)] = h[Len(tracks)]
<1> DEFINE entry(was, i) ==
      LET t == tracks[i]
          best == IF t = <<>> THEN {}
                  ELSE Best(frames[f - 1].patches[t[f - first]], f, was.taken)
      IN  [tracks |-> Append(was.tracks,
                             IF best = {} THEN <<>>
                             ELSE Append(t, CHOOSE i2 \in best : TRUE)),
           taken |-> was.taken \cup best]
<1>1. /\ g = [i \in 0 .. Len(tracks) |-> IF i = 0 THEN [tracks |-> <<>>, taken |-> {}]
                                         ELSE entry(g[i - 1], i)]
      /\ h = [i \in 0 .. Len(tracks) |-> IF i = 0 THEN [tracks |-> <<>>, taken |-> {}]
                                         ELSE entry(h[i - 1], i)]
  BY Zenon DEF TrackTable
<1> HIDE DEF entry
<1> DEFINE S == {i \in Nat : i <= Len(tracks) => h[i] = g[i]}
<1>a. \A i \in 0 .. Len(tracks) :
        /\ g[i] = IF i = 0 THEN [tracks |-> <<>>, taken |-> {}] ELSE entry(g[i - 1], i)
        /\ h[i] = IF i = 0 THEN [tracks |-> <<>>, taken |-> {}] ELSE entry(h[i - 1], i)
  <2>1. \A G : G = [i \in 0 .. Len(tracks) |-> IF i = 0 THEN [tracks |-> <<>>, taken |-> {}]
                                         ELSE entry(G[i - 1], i)] =>
         \A i \in 0 .. Len(tracks) :
            G[i] = IF i = 0 THEN [tracks |-> <<>>, taken |-> {}] ELSE entry(G[i - 1], i)
    OBVIOUS
  <2> QED
    BY <1>1, <2>1
<1>4. 0 \in S
  BY <1>a
<1>5. ASSUME NEW i \in S PROVE i + 1 \in S
  <2> SUFFICES ASSUME i + 1 <= Len(tracks) PROVE h[i + 1] = g[i + 1]
    OBVIOUS
  <2>1. i + 1 \in 0 .. Len(tracks) /\ i + 1 # 0 /\ (i + 1) - 1 = i /\ h[i] = g[i]
    OBVIOUS
  <2> QED
    BY <1>a, <2>1
<1>6. S \in SUBSET Nat
  OBVIOUS
<1> HIDE DEF S
<1>7. S = Nat
  BY <1>4, <1>5, <1>6, SetInduction
<1> QED
  BY <1>7 DEF S

\* Tracked makes each track longer by the patch that is matched to its last.
LEMMA TrackedIs ==
  ASSUME NEW n \in Nat \ {0}, first \in Nat \ {0}, PackedPair(first + n),
         TracksOK(Patches, tracks, first, n)
  PROVE  Tracked(first + n) =
           [i \in 1 .. Len(tracks) |-> Longer(Patches, tracks[i], first + n, n)]
<1> DEFINE f == first + n
           M == Len(tracks)
           h == [i \in 0 .. M |->
                  [tracks |-> [j \in 1 .. i |-> Longer(Patches, tracks[j], f, n)],
                   taken |-> TakenBy(Patches, tracks, f, n, i)]]
<1>1. f \in Nat /\ f - first = n /\ f - 1 = first + n - 1 /\ M \in Nat
  BY DEF TracksOK, IsSeq
<1>2. \A i \in 1 .. M : tracks[i] # <<>> =>
        tracks[i][n] \in 1 .. Len(frames[f - 1].patches) /\ tracks[i][n] \in Nat
  <2>1. Patches[f - 1] = frames[f - 1].patches /\ Len(frames[f - 1].patches) \in Nat
    BY PairFacts
  <2> QED
    BY <1>1, <2>1 DEF TracksOK, AliveIn, TrackOK
<1>3. \A i, j \in 1 .. M : tracks[i] # <<>> /\ tracks[j] # <<>> /\ i < j =>
        tracks[i][n] < tracks[j][n]
  BY DEF TracksOK, AliveIn
<1>4. \A i \in 1 .. M : tracks[i] # <<>> =>
        \A m \in 1 .. tracks[i][n] : \E j \in 1 .. M : tracks[j] # <<>> /\ tracks[j][n] = m
  BY DEF TracksOK, AliveIn
<1>5. /\ Len(frames[f].patches) \in Nat /\ Patches[f] = frames[f].patches
      /\ \A x \in 1 .. Len(frames[f].patches) : frames[f].patches[x].match \in Int
  BY PairFacts
<1>6. PackedPair(f)
  OBVIOUS
<1> HIDE DEF f
<1>7. ASSUME NEW i \in 1 .. M, tracks[i] # <<>>
      PROVE  Best(frames[f - 1].patches[tracks[i][f - first]], f,
                  TakenBy(Patches, tracks, f, n, i - 1))
               = MatchedTo(Patches, f, tracks[i][n])
  <2> DEFINE k == tracks[i][n]
             taken == TakenBy(Patches, tracks, f, n, i - 1)
  <2>1. k \in 1 .. Len(frames[f - 1].patches) /\ k \in Nat
    BY <1>2, <1>7
  <2>2. ASSUME NEW y \in 1 .. Len(frames[f].patches), frames[f].patches[y].match \in 0 .. k - 2
        PROVE  y \in taken
    <3>0. PICK z : z = frames[f].patches[y].match
      OBVIOUS
    <3>1. frames[f].patches[y].match + 1 \in 1 .. k /\ frames[f].patches[y].match + 1 # k
      <4>1. PICK l \in Nat : l = k
        BY <2>1
      <4>2. z \in 0 .. l - 2
        BY <2>2, <3>0, <4>1
      <4>3. z + 1 \in 1 .. l /\ z + 1 # l
        BY <4>2
      <4> QED
        BY <3>0, <4>1, <4>3
    <3>2. PICK j \in 1 .. M : tracks[j] # <<>> /\ tracks[j][n] = frames[f].patches[y].match + 1
      BY <1>4, <1>7, <3>1
    <3>3. j < i
      <4>1. j # i
        BY <3>1, <3>2
      <4>2. ~(i < j)
        BY <1>3, <1>7, <2>1, <3>1, <3>2
      <4> QED
        BY <1>1, <4>1, <4>2
    <3>4. j \in 1 .. i - 1
      BY <1>1, <3>3
    <3>5. y \in MatchedTo(Patches, f, tracks[j][n])
      BY <1>5, <2>2, <3>2 DEF MatchedTo
    <3> QED
      BY <3>2, <3>4, <3>5 DEF TakenBy
  <2>3. ASSUME NEW y \in taken PROVE frames[f].patches[y].match # k - 1
    <3>1. PICK j \in 1 .. i - 1 : tracks[j] # <<>> /\ y \in MatchedTo(Patches, f, tracks[j][n])
      BY DEF TakenBy
    <3>2. j \in 1 .. M /\ j < i
      BY <1>1
    <3>3. tracks[j][n] < k /\ tracks[j][n] \in Nat
      BY <1>2, <1>3, <1>7, <3>1, <3>2
    <3>4. frames[f].patches[y].match = tracks[j][n] - 1
      BY <1>5, <3>1 DEF MatchedTo
    <3> QED
      BY <2>1, <3>3, <3>4
  <2> HIDE DEF k, taken
  <2>4. Best(frames[f - 1].patches[k], f, taken) = MatchedTo(Patches, f, k)
    BY <1>6, <2>1, <2>2, <2>3, BestIsMatch
  <2> QED
    BY <1>1, <2>4 DEF k, taken
<1>8. \A i \in 1 .. M :
        TakenBy(Patches, tracks, f, n, i) =
          TakenBy(Patches, tracks, f, n, i - 1)
            \cup (IF tracks[i] = <<>> THEN {} ELSE MatchedTo(Patches, f, tracks[i][n]))
  <2> TAKE i \in 1 .. M
  <2>1. \A j : j \in 1 .. i <=> j \in 1 .. i - 1 \/ j = i
    BY <1>1
  <2> QED
    BY <2>1 DEF TakenBy
<1>9. TakenBy(Patches, tracks, f, n, 0) = {}
  BY DEF TakenBy
<1>10. \A i \in 1 .. M :
         [j \in 1 .. i |-> Longer(Patches, tracks[j], f, n)]
           = Append([j \in 1 .. i - 1 |-> Longer(Patches, tracks[j], f, n)],
                    Longer(Patches, tracks[i], f, n))
  <2> TAKE i \in 1 .. M
  <2> DEFINE s == [j \in 1 .. i - 1 |-> Longer(Patches, tracks[j], f, n)]
             r == [j \in 1 .. i |-> Longer(Patches, tracks[j], f, n)]
             x == Longer(Patches, tracks[i], f, n)
  <2>1. i - 1 \in Nat /\ i \in Nat /\ i - 1 + 1 = i
    BY <1>1
  <2>2. IsSeq(s) /\ Len(s) = i - 1
    BY <2>1 DEF IsSeq
  <2>3. IsSeq(r) /\ Len(r) = i
    BY <2>1 DEF IsSeq
  <2>4. /\ \A j \in 1 .. i - 1 : r[j] = s[j]
        /\ r[i] = x
    BY <2>1
  <2> HIDE DEF s, r, x
  <2>5. /\ IsSeq(Append(s, x)) /\ Len(Append(s, x)) = i
        /\ \A j \in 1 .. i - 1 : Append(s, x)[j] = s[j]
        /\ Append(s, x)[i] = x
    BY <2>1, <2>2, AppendIs
  <2>6. \A j \in 1 .. i : j \in 1 .. i - 1 \/ j = i
    BY <2>1
  <2>7. \A j \in 1 .. i : r[j] = Append(s, x)[j]
    BY <2>4, <2>5, <2>6
  <2>8. r = Append(s, x)
    BY <2>3, <2>5, <2>7 DEF IsSeq
  <2> QED
    BY <2>8 DEF r, s, x
<1> DEFINE entry(was, i) ==
      LET t == tracks[i]
          best == IF t = <<>> THEN {}
                  ELSE Best(frames[f - 1].patches[t[f - first]], f, was.taken)
      IN  [tracks |-> Append(was.tracks,
                             IF best = {} THEN <<>>
                             ELSE Append(t, CHOOSE i2 \in best : TRUE)),
           taken |-> was.taken \cup best]
<1>11. ASSUME NEW i \in 1 .. M PROVE h[i] = entry(h[i - 1], i)
  <2> DEFINE was == h[i - 1]
             best == IF tracks[i] = <<>> THEN {}
                     ELSE Best(frames[f - 1].patches[tracks[i][f - first]], f, was.taken)
  <2>1. i - 1 \in 0 .. M /\ i \in 0 .. M
    BY <1>1
  <2>2. /\ was.taken = TakenBy(Patches, tracks, f, n, i - 1)
        /\ was.tracks = [j \in 1 .. i - 1 |-> Longer(Patches, tracks[j], f, n)]
    BY <2>1
  <2>3. /\ h[i].taken = TakenBy(Patches, tracks, f, n, i)
        /\ h[i].tracks = [j \in 1 .. i |-> Longer(Patches, tracks[j], f, n)]
        /\ h[i] = [tracks |-> h[i].tracks, taken |-> h[i].taken]
    BY <2>1
  <2> HIDE DEF h
  <2>4. best = IF tracks[i] = <<>> THEN {} ELSE MatchedTo(Patches, f, tracks[i][n])
    BY <1>7, <2>2
  <2>5. Longer(Patches, tracks[i], f, n) =
          IF best = {} THEN <<>> ELSE Append(tracks[i], CHOOSE i2 \in best : TRUE)
    <3> HIDE DEF best
    <3>1. Longer(Patches, tracks[i], f, n) =
            IF (IF tracks[i] = <<>> THEN {} ELSE MatchedTo(Patches, f, tracks[i][n])) = {}
            THEN <<>>
            ELSE Append(tracks[i],
                        CHOOSE i2 \in IF tracks[i] = <<>> THEN {}
                                      ELSE MatchedTo(Patches, f, tracks[i][n]) : TRUE)
      BY Zenon DEF Longer
    <3> QED
      BY <2>4, <3>1, Zenon
  <2>6. entry(h[i - 1], i) =
          [tracks |-> Append(was.tracks, IF best = {} THEN <<>>
                             ELSE Append(tracks[i], CHOOSE i2 \in best : TRUE)),
           taken |-> was.taken \cup best]
    OBVIOUS
  <2> HIDE DEF best, was, entry
  <2>7. h[i].taken = was.taken \cup best
    BY <1>8, <2>2, <2>3, <2>4
  <2>8. h[i].tracks = Append(was.tracks, Longer(Patches, tracks[i], f, n))
    BY <1>10, <2>2, <2>3
  <2> QED
    BY <2>3, <2>5, <2>6, <2>7, <2>8
<1>12. h[0] = [tracks |-> <<>>, taken |-> {}]
  <2>1. 0 \in 0 .. M /\ 1 .. 0 = {}
    BY <1>1
  <2>2. [j \in 1 .. 0 |-> Longer(Patches, tracks[j], f, n)] = <<>>
    BY <2>1
  <2> QED
    BY <1>9, <2>1, <2>2
<1>13. TrackTable(h, f)
  <2>1. \A i \in 0 .. M : h[i] = IF i = 0 THEN [tracks |-> <<>>, taken |-> {}]
                                 ELSE entry(h[i - 1], i)
    <3> TAKE i \in 0 .. M
    <3>1. i # 0 => i \in 1 .. M
      BY <1>1
    <3> HIDE DEF h, entry
    <3> QED
      BY <1>11, <1>12, <3>1
  <2>2. h = [i \in 0 .. M |-> h[i]]
    OBVIOUS
  <2> HIDE DEF h
  <2>3. h = [i \in 0 .. M |-> IF i = 0 THEN [tracks |-> <<>>, taken |-> {}]
                              ELSE entry(h[i - 1], i)]
    <3> HIDE DEF entry
    <3> QED
      BY <2>1, <2>2
  <2> QED
    BY <2>3, Zenon DEF TrackTable
<1>14. h[M].tracks = [j \in 1 .. M |-> Longer(Patches, tracks[j], f, n)]
  <2>1. M \in 0 .. M
    BY <1>1
  <2> QED
    BY <2>1
<1> HIDE DEF h, M
<1> DEFINE g == CHOOSE g : TrackTable(g, f)
<1>15. TrackTable(g, f)
  BY <1>13
<1>16. Tracked(f) = g[Len(tracks)].tracks
  BY Zenon DEF Tracked, TrackTable
<1> HIDE DEF g
<1>17. g[Len(tracks)] = h[Len(tracks)]
  BY <1>1, <1>13, <1>15, TrackTableOnce DEF M
<1>18. Tracked(f) = [j \in 1 .. Len(tracks) |-> Longer(Patches, tracks[j], f, n)]
  BY <1>14, <1>16, <1>17 DEF M
<1> QED
  BY <1>18 DEF f

\* A track that goes on.
LEMMA LongerTrack ==
  ASSUME NEW n \in Nat \ {0}, first \in Nat \ {0}, PackedPair(first + n),
         NEW t, NEW i, TrackOK(Patches, t, i, first, n)
  PROVE  LET r == Longer(Patches, t, first + n, n)
         IN  r # <<>> =>
               /\ TrackOK(Patches, r, i, first, n + 1)
               /\ r[n + 1] \in 1 .. Len(Patches[first + n])
               /\ Patches[first + n][r[n + 1]].match = t[n] - 1
               /\ t # <<>> /\ \A k \in 1 .. n : r[k] = t[k]
<1> DEFINE r == Longer(Patches, t, first + n, n)
           next == MatchedTo(Patches, first + n, t[n])
           x == CHOOSE x \in next : TRUE
<1> SUFFICES ASSUME r # <<>>
             PROVE  /\ TrackOK(Patches, r, i, first, n + 1)
                    /\ r[n + 1] \in 1 .. Len(Patches[first + n])
                    /\ Patches[first + n][r[n + 1]].match = t[n] - 1
                    /\ t # <<>> /\ \A k \in 1 .. n : r[k] = t[k]
  BY Zenon
<1>1. t # <<>> /\ next # {} /\ r = Append(t, x)
  <2>1. r = IF (IF t = <<>> THEN {} ELSE next) = {} THEN <<>>
            ELSE Append(t, CHOOSE x2 \in IF t = <<>> THEN {} ELSE next : TRUE)
    BY Zenon DEF Longer
  <2> HIDE DEF r, next
  <2>2. t # <<>> /\ next # {}
    BY <2>1
  <2>3. (IF t = <<>> THEN {} ELSE next) = next
    BY <2>2
  <2> QED
    BY <2>1, <2>2, <2>3, Zenon
<1>2. x \in next
  BY <1>1
<1> HIDE DEF x
<1>3. x \in 1 .. Len(Patches[first + n]) /\ Patches[first + n][x].match = t[n] - 1
  BY <1>2 DEF MatchedTo
<1>4. /\ Patches[first + n] = frames[first + n].patches
      /\ Patches[first + n - 1] = frames[first + n - 1].patches
      /\ Len(Patches[first + n - 1]) \in Nat
  BY PairFacts
<1>5. /\ IsSeq(t) /\ Len(t) = n /\ t[1] = i
      /\ \A k \in 1 .. n : t[k] \in 1 .. Len(Patches[first + k - 1])
      /\ \A k \in 2 .. n : Named(Patches, first + k - 1, t[k]) = t[k - 1]
  BY DEF TrackOK
<1> HIDE DEF r, next
<1>6. /\ IsSeq(r) /\ Len(r) = n + 1
      /\ \A k \in 1 .. n : r[k] = t[k]
      /\ r[n + 1] = x
  BY <1>1, <1>5, AppendIs
<1>7. t[n] \in Int
  <2>1. n \in 1 .. n
    OBVIOUS
  <2> QED
    BY <1>4, <1>5, <2>1
<1>8. Named(Patches, first + (n + 1) - 1, r[n + 1]) = r[n + 1 - 1]
  <2>1. first + (n + 1) - 1 = first + n /\ n + 1 - 1 = n /\ n \in 1 .. n
    OBVIOUS
  <2> QED
    BY <1>3, <1>6, <1>7, <2>1 DEF Named
<1>9. \A k \in 1 .. n + 1 : k \in 1 .. n \/ k = n + 1
  OBVIOUS
<1>10. \A k \in 1 .. n + 1 : r[k] \in 1 .. Len(Patches[first + k - 1])
  <2> TAKE k \in 1 .. n + 1
  <2>1. CASE k \in 1 .. n
    BY <1>5, <1>6, <2>1
  <2>2. CASE k = n + 1
    <3>1. first + k - 1 = first + n
      BY <2>2
    <3> QED
      BY <1>3, <1>6, <2>2, <3>1
  <2> QED
    BY <1>9, <2>1, <2>2
<1>11. \A k \in 2 .. n + 1 : Named(Patches, first + k - 1, r[k]) = r[k - 1]
  <2> TAKE k \in 2 .. n + 1
  <2>1. CASE k \in 2 .. n
    <3>1. k \in 1 .. n /\ k - 1 \in 1 .. n
      BY <2>1
    <3> QED
      BY <1>5, <1>6, <2>1, <3>1
  <2>2. CASE k = n + 1
    BY <1>8, <2>2
  <2> QED
    BY <2>1, <2>2
<1>12. r[1] = i
  <2>1. 1 \in 1 .. n
    OBVIOUS
  <2> QED
    BY <1>5, <1>6, <2>1
<1>13. TrackOK(Patches, r, i, first, n + 1)
  BY <1>6, <1>10, <1>11, <1>12 DEF TrackOK
<1> QED
  BY <1>1, <1>3, <1>6, <1>13

\* Tracks with the patches that are matched to their last ones.
LEMMA LongerTracks ==
  ASSUME NEW n \in Nat \ {0}, first \in Nat \ {0}, PackedPair(first + n),
         TracksOK(Patches, tracks, first, n)
  PROVE  TracksOK(Patches, Tracked(first + n), first, n + 1)
<1> DEFINE f == first + n
           M == Len(tracks)
           new == [i \in 1 .. M |-> Longer(Patches, tracks[i], f, n)]
<1>1. Tracked(first + n) = new
  BY TrackedIs
<1>2. M \in Nat /\ IsSeq(tracks) /\ M = Len(Patches[first])
  BY DEF TracksOK, IsSeq
<1>3. IsSeq(new) /\ Len(new) = M
  BY <1>2 DEF IsSeq
<1>4. \A i \in 1 .. M : new[i] = Longer(Patches, tracks[i], f, n)
  OBVIOUS
<1>5. \A i \in AliveIn(tracks) : TrackOK(Patches, tracks[i], i, first, n)
  BY DEF TracksOK
<1> HIDE DEF new
<1>6. \A i \in AliveIn(new) : i \in 1 .. M /\ new[i] # <<>>
  BY <1>3 DEF AliveIn
<1>7. \A i \in AliveIn(new) : i \in AliveIn(tracks)
  <2> TAKE i \in AliveIn(new)
  <2>1. Longer(Patches, tracks[i], f, n) # <<>>
    BY <1>4, <1>6
  <2>2. tracks[i] # <<>>
    BY <2>1, Zenon DEF Longer
  <2> QED
    BY <1>6, <2>2 DEF AliveIn
<1>8. \A i \in AliveIn(new) :
        /\ TrackOK(Patches, new[i], i, first, n + 1)
        /\ new[i][n + 1] \in 1 .. Len(Patches[f])
        /\ Patches[f][new[i][n + 1]].match = tracks[i][n] - 1
        /\ \A k \in 1 .. n : new[i][k] = tracks[i][k]
  <2> TAKE i \in AliveIn(new)
  <2>1. TrackOK(Patches, tracks[i], i, first, n)
    BY <1>5, <1>7
  <2>2. new[i] = Longer(Patches, tracks[i], f, n) /\ new[i] # <<>>
    BY <1>4, <1>6
  <2> QED
    BY <2>1, <2>2, LongerTrack
<1>9. /\ Len(Patches[f]) \in Nat /\ Patches[f] = frames[f].patches
      /\ Len(Patches[f - 1]) \in Nat /\ Patches[f - 1] = frames[f - 1].patches
  BY PairFacts
<1>17. \A x \in 1 .. Len(Patches[f]) : x \in Int /\ Patches[f][x].match \in Int
  BY <1>9, PairFacts
<1>18. \A x \in 1 .. Len(Patches[f]) :
         Patches[f][x].match # Invalid => Patches[f][x].match + 1 >= 1
  BY <1>9, PairFacts
<1>19. \A x, y \in 1 .. Len(Patches[f]) :
         x < y /\ Patches[f][y].match # Invalid =>
           Patches[f][x].match # Invalid /\ Patches[f][x].match < Patches[f][y].match
  BY <1>9, PairFacts
<1>10. \A i \in AliveIn(new) : tracks[i][n] \in Nat \ {0}
  <2> TAKE i \in AliveIn(new)
  <2>1. n \in 1 .. n /\ first + n - 1 = f - 1
    OBVIOUS
  <2>2. tracks[i][n] \in 1 .. Len(Patches[f - 1])
    BY <1>5, <1>7, <2>1 DEF TrackOK
  <2> QED
    BY <1>9, <2>2
<1>11. PackedPair(f)
  OBVIOUS
<1> HIDE DEF f
<1>12. \A x, y \in 1 .. Len(Patches[f]) :
         Patches[f][x].match # Invalid /\ Patches[f][x].match = Patches[f][y].match => x = y
  BY <1>9, <1>11, MatchedOnce
<1>13. ASSUME NEW i \in AliveIn(new), NEW j \in AliveIn(new), i < j, NEW k \in 1 .. n + 1
       PROVE  new[i][k] < new[j][k]
  <2>0. \A l \in 1 .. n : tracks[i][l] < tracks[j][l]
    BY <1>7, <1>13 DEF TracksOK
  <2>1. CASE k \in 1 .. n
    BY <1>8, <2>0, <2>1
  <2>2. CASE k = n + 1
    <3> DEFINE x == new[i][n + 1]
               y == new[j][n + 1]
    <3>1. /\ x \in 1 .. Len(Patches[f]) /\ y \in 1 .. Len(Patches[f])
          /\ Patches[f][x].match = tracks[i][n] - 1 /\ Patches[f][y].match = tracks[j][n] - 1
      BY <1>8
    <3>2. tracks[i][n] < tracks[j][n]
      BY <2>0
    <3>3. tracks[i][n] \in Nat \ {0} /\ tracks[j][n] \in Nat \ {0}
      BY <1>10
    <3> HIDE DEF x, y
    <3>4. Patches[f][x].match < Patches[f][y].match /\ Patches[f][x].match # Invalid
      BY <3>1, <3>2, <3>3 DEF Invalid
    <3>5. x \in Int /\ y \in Int /\ Patches[f][x].match \in Int /\ Patches[f][y].match \in Int
      BY <1>17, <3>1
    <3>6. x # y /\ ~(y < x)
      BY <1>19, <3>1, <3>4, <3>5
    <3>7. x < y
      BY <3>5, <3>6
    <3> QED
      BY <2>2, <3>7 DEF x, y
  <2> QED
    BY <2>1, <2>2
<1>14. ASSUME NEW i \in AliveIn(new), NEW m \in 1 .. new[i][n + 1]
       PROVE  \E j \in AliveIn(new) : new[j][n + 1] = m
  <2> DEFINE x == new[i][n + 1]
  <2>1. x \in 1 .. Len(Patches[f]) /\ Patches[f][x].match = tracks[i][n] - 1
    BY <1>8
  <2>2. tracks[i][n] \in Nat \ {0}
    BY <1>10
  <2>3. m \in 1 .. Len(Patches[f]) /\ (m = x \/ m < x)
    BY <1>9, <1>17, <2>1
  <2> HIDE DEF x
  <2>4. CASE m = x
    BY <2>4 DEF x
  <2>5. CASE m < x
    <3>1. Patches[f][x].match # Invalid
      BY <2>1, <2>2 DEF Invalid
    <3>2. Patches[f][m].match # Invalid /\ Patches[f][m].match < Patches[f][x].match
      BY <1>19, <2>1, <2>3, <2>5, <3>1
    <3>3. PICK z : z = Patches[f][m].match
      OBVIOUS
    <3>4. z \in Int /\ z + 1 >= 1 /\ z < tracks[i][n] - 1
      BY <1>17, <1>18, <2>1, <2>2, <2>3, <3>2, <3>3
    <3>5. z + 1 \in 1 .. tracks[i][n]
      BY <2>2, <3>4
    <3>6. PICK j \in AliveIn(tracks) : tracks[j][n] = z + 1
      BY <1>7, <3>5 DEF TracksOK
    <3>7. m \in MatchedTo(Patches, f, tracks[j][n])
      BY <2>3, <3>3, <3>4, <3>6 DEF MatchedTo
    <3>8. Longer(Patches, tracks[j], f, n) # <<>>
      <4>1. tracks[j] # <<>> /\ j \in 1 .. M /\ IsSeq(tracks[j])
        BY <1>5 DEF AliveIn, TrackOK
      <4>2. (IF tracks[j] = <<>> THEN {} ELSE MatchedTo(Patches, f, tracks[j][n])) # {}
        BY <3>7, <4>1
      <4>3. PICK b : b = IF tracks[j] = <<>> THEN {} ELSE MatchedTo(Patches, f, tracks[j][n])
        OBVIOUS
      <4>4. Longer(Patches, tracks[j], f, n) =
              IF (IF tracks[j] = <<>> THEN {} ELSE MatchedTo(Patches, f, tracks[j][n])) = {}
              THEN <<>>
              ELSE Append(tracks[j],
                     CHOOSE x2 \in IF tracks[j] = <<>> THEN {}
                                   ELSE MatchedTo(Patches, f, tracks[j][n]) : TRUE)
        BY Zenon DEF Longer
      <4>5. PICK y : Longer(Patches, tracks[j], f, n) = Append(tracks[j], y)
        BY <4>2, <4>4, Zenon
      <4> QED
        BY <4>1, <4>5, AppendIs
    <3>9. j \in AliveIn(new)
      <4>1. j \in 1 .. M
        BY DEF AliveIn
      <4> QED
        BY <1>3, <1>4, <3>8, <4>1 DEF AliveIn
    <3>10. /\ new[j][n + 1] \in 1 .. Len(Patches[f])
           /\ Patches[f][new[j][n + 1]].match = tracks[j][n] - 1
      BY <1>8, <3>9
    <3>11. Patches[f][new[j][n + 1]].match = Patches[f][m].match
      BY <3>3, <3>4, <3>6, <3>10
    <3>12. new[j][n + 1] = m
      BY <1>12, <2>3, <3>2, <3>10, <3>11
    <3> QED
      BY <3>9, <3>12
  <2> QED
    BY <2>3, <2>4, <2>5
<1>15. \A i \in AliveIn(new) : TrackOK(Patches, new[i], i, first, n + 1)
  BY <1>8
<1>16. TracksOK(Patches, new, first, n + 1)
  BY <1>2, <1>3, <1>13, <1>14, <1>15 DEF TracksOK
<1> QED
  BY <1>1, <1>16

\* A track of every patch of the first frame of a subcontext.
LEMMA FirstTracks ==
  ASSUME NEW lo \in 1 .. PackFrames, NEW ts, IsSeq(ts), Len(ts) = Len(Patches[lo]),
         \A i \in 1 .. Len(ts) : ts[i] = <<i>>
  PROVE  TracksOK(Patches, ts, lo, 1)
<1>1. \A i \in AliveIn(ts) : i \in 1 .. Len(ts) /\ ts[i] = <<i>> /\ ts[i][1] = i
  BY DEF AliveIn
<1>2. \A i \in 1 .. Len(ts) : i \in AliveIn(ts)
  <2> TAKE i \in 1 .. Len(ts)
  <2>1. <<i>> # <<>>
    <3>1. Len(<<i>>) = 1 /\ Len(<<>>) = 0
      OBVIOUS
    <3> QED
      BY <3>1
  <2> QED
    BY <2>1 DEF AliveIn
<1>3. lo + 1 - 1 = lo /\ lo \in Nat /\ Len(ts) \in Nat
  BY ConstantsType DEF IsSeq
<1>4. ASSUME NEW i \in AliveIn(ts) PROVE TrackOK(Patches, ts[i], i, lo, 1)
  <2>1. IsSeq(ts[i]) /\ Len(ts[i]) = 1
    <3>1. IsSeq(<<i>>) /\ Len(<<i>>) = 1
      BY DEF IsSeq
    <3> QED
      BY <1>1, <3>1
  <2>2. \A k \in 1 .. 1 : k = 1
    OBVIOUS
  <2>3. \A k \in 1 .. 1 : ts[i][k] \in 1 .. Len(Patches[lo + k - 1])
    BY <1>1, <1>3, <2>2
  <2> QED
    BY <1>1, <2>1, <2>3 DEF TrackOK
<1>5. \A i, j \in AliveIn(ts) : i < j => \A k \in 1 .. 1 : ts[i][k] < ts[j][k]
  BY <1>1
<1>6. ASSUME NEW i \in AliveIn(ts), NEW m \in 1 .. ts[i][1]
      PROVE  \E j \in AliveIn(ts) : ts[j][1] = m
  <2>1. m \in 1 .. Len(ts)
    BY <1>1, <1>3
  <2> QED
    BY <1>1, <1>2, <2>1
<1> QED
  BY <1>4, <1>5, <1>6 DEF TracksOK

-----------------------------------------------------------------------------
(***************************************************************************)
(* The frames that are not in a finished subcontext are as packing left    *)
(* them, and the tracks follow their matches.                              *)
(***************************************************************************)
IsFrame(f) ==
  f = [patches |-> f.patches, matches |-> f.matches, missed |-> f.missed,
       laid |-> f.laid, width |-> f.width, height |-> f.height]

\* Frames that are not in a finished subcontext are as packing left them, and
\* the tracks follow their matches.
OpenInv ==
  /\ phase = "segment" /\ IsSeq(frames) /\ Len(frames) = PackFrames
  /\ at <= PackFrames + 1 /\ (step \in {"first"} \cup Growing => at <= PackFrames)
  /\ \A f \in LastDone + 1 .. PackFrames :
       /\ IsFrame(frames[f])
       /\ frames[f].patches \in Seq(PatchSet) /\ Len(frames[f].patches) >= 1
  /\ \A f \in LastDone + 2 .. PackFrames : Chained(Patches, f)
  /\ step = "first" => DOMAIN patches = DOMAIN frames[at].patches
  /\ step \in Growing => TracksOK(Patches, tracks, first, TrackLength)

\* The invariant of the tracks: that of packing until all frames are packed,
\* then OpenInv.
FollowInv ==
  /\ TileInv
  /\ IF AllPacked THEN OpenInv ELSE Untouched /\ PackInv /\ PackExtra

\* A packed frame and the one before it.
LEMMA PackedChained ==
  ASSUME MatchedBefore, PackInv, PackExtra, Len(frames) = PackFrames,
         NEW f \in 2 .. PackFrames
  PROVE  Chained(Patches, f)
<1>1. /\ frames \in Seq(FrameSet) /\ opt \in Options /\ MatchingValid /\ NoBetterLeft
      /\ PackFrames \in Nat
  BY TypeFacts, ConstantsType
<1>2. opt.constrained
  BY <1>1 DEF MatchedBefore
<1> DEFINE cur == frames[f].patches
           prev == frames[f - 1].patches
           n == frames[f].matches
<1>3. f \in DOMAIN frames /\ f - 1 \in DOMAIN frames /\ f \in 1 .. PackFrames /\ f - 1 \in 1 .. PackFrames
  BY <1>1
<1>4. frames[f] \in FrameSet /\ frames[f - 1] \in FrameSet
  BY <1>1, <1>3
<1>5. /\ cur \in Seq(PatchSet) /\ prev \in Seq(PatchSet) /\ n \in Nat
  BY <1>4 DEF FrameSet
<1>6. Patches[f] = cur /\ Patches[f - 1] = prev
  BY <1>3 DEF Patches
<1>7. MatchesValid(f, cur, n)
  BY <1>1, <1>3 DEF MatchingValid
<1>8. NoneBetter(prev, cur, Len(prev))
  BY <1>1, <1>2 DEF NoBetterLeft
<1>9. OverlapsIn(prev, cur)
  BY <1>1 DEF PackExtra
<1>10. /\ Len(cur) \in Nat /\ Len(prev) \in Nat
       /\ DOMAIN cur = 1 .. Len(cur) /\ DOMAIN prev = 1 .. Len(prev)
       /\ \A i \in 1 .. Len(cur) : cur[i].match \in Int
  <2>1. \A i \in 1 .. Len(cur) : cur[i] \in PatchSet
    BY <1>5
  <2> QED
    BY <1>5, <2>1, PatchFields
<1> HIDE DEF cur, n
<1>11. \A i \in 1 .. Len(cur) : cur[i].match # Invalid => i \in 1 .. n
  <2> TAKE i \in 1 .. Len(cur)
  <2>1. ~(i \in n + 1 .. Len(cur)) => i \in 1 .. n
    BY <1>5, <1>10
  <2> QED
    BY <1>7, <2>1 DEF MatchesValid
<1>12. n \in 0 .. Len(cur)
  BY <1>7 DEF MatchesValid
<1>13. \A i \in 1 .. n :
         /\ cur[i].match + 1 \in 1 .. Len(prev)
         /\ prev[cur[i].match + 1].shape.view = cur[i].shape.view
  BY <1>7, <1>10 DEF MatchesValid
<1>14. Linked(Patches, f)
  BY <1>6, <1>11, <1>13 DEF Linked, Named
<1>15. Rising(cur)
  <2> SUFFICES ASSUME NEW i \in 1 .. Len(cur), NEW j \in 1 .. Len(cur), i < j,
                      cur[j].match # Invalid
               PROVE  cur[i].match # Invalid /\ cur[i].match < cur[j].match
    BY DEF Rising
  <2>1. j \in 1 .. n
    BY <1>11
  <2>2. i \in 1 .. n
    BY <1>5, <1>10, <2>1
  <2>3. cur[i].match < cur[j].match
    BY <1>7, <2>1, <2>2 DEF MatchesValid
  <2>4. cur[i].match + 1 >= 1 /\ cur[i].match \in Int
    BY <1>10, <1>13, <2>2
  <2> QED
    BY <2>3, <2>4 DEF Invalid
<1>16. Overlapping(Patches, f)
  BY <1>6, <1>9 DEF Overlapping, OverlapsIn, Named
<1> QED
  BY <1>6, <1>8, <1>14, <1>15, <1>16 DEF Chained

\* What packing hands over.
LEMMA PackedOpen ==
  ASSUME MatchedBefore, PackInv, PackExtra, AllPacked, Untouched
  PROVE  OpenInv
<1>1. /\ frames \in Seq(FrameSet) /\ PackFrames \in Nat \ {0}
      /\ phase = "segment" /\ Len(frames) = PackFrames
  BY TypeFacts, ConstantsType DEF AllPacked
<1>2. LastDone = 0 /\ at = 1 /\ step = "start"
  BY DEF Untouched, LastDone
<1>3. IsSeq(frames)
  <2>1. frames = [i \in 1 .. Len(frames) |-> frames[i]]
    BY <1>1
  <2> QED
    BY <1>1, <2>1 DEF IsSeq
<1>4. ASSUME NEW f \in 1 .. PackFrames
      PROVE  /\ IsFrame(frames[f])
             /\ frames[f].patches \in Seq(PatchSet) /\ Len(frames[f].patches) >= 1
  <2>1. frames[f] \in FrameSet
    BY <1>1
  <2>2. FrameExtra(frames[f])
    BY <1>1 DEF PackExtra
  <2> QED
    BY <2>1, <2>2 DEF FrameSet, IsFrame, FrameExtra
<1>5. \A f \in 2 .. PackFrames : Chained(Patches, f)
  BY <1>1, PackedChained
<1>6. at <= PackFrames + 1 /\ step \notin {"first"} \cup Growing
  BY <1>1, <1>2 DEF Growing
<1> HIDE DEF Growing
<1> QED
  BY <1>1, <1>2, <1>3, <1>4, <1>5, <1>6 DEF OpenInv

\* Packing is over before the allocation starts.
LEMMA StepsBefore ==
  ASSUME Untouched, ~AllPacked, GpaNext
  PROVE  PackStep
BY DEF GpaNext, Untouched, StartSubContext, FirstLaid, Track, GiveUp, Unite, BeginFrame,
       FrameLaid, Reject, Accept, LayPatch, Laying, LayMissed, LayingMissed, LayGrow, GpaEnds

\* A step of packing is one of Packing.
LEMMA PackStepNext ==
  ASSUME PackStep
  PROVE  PackNext
<1>1. MaxInFrame \in Nat /\ 1 .. MaxInFrame \subseteq 0 .. MaxInFrame
  BY ConstantsType
<1>2. (\E n \in 1 .. MaxInFrame, sizes \in MissedSizes :
          \E shapes \in [1 .. n -> Shapes] : Segment(shapes, sizes)) => SegmentSome
  BY <1>1 DEF SegmentSome
<1> QED
  BY <1>2 DEF PackStep, PackNext

\* As long as no frame is finished.
LEMMA OpenKept ==
  ASSUME OpenInv, UNCHANGED <<phase, subs>>, IsSeq(frames'), Len(frames') = Len(frames),
         \A f \in 1 .. PackFrames : frames'[f].patches = frames[f].patches,
         \A f \in LastDone + 1 .. PackFrames : IsFrame(frames'[f]),
         at' <= PackFrames + 1, step' \in {"first"} \cup Growing => at' <= PackFrames,
         step' = "first" => DOMAIN patches' = DOMAIN frames[at'].patches /\ at' \in 1 .. PackFrames,
         step' \in Growing => TracksOK(Patches, tracks', first', TrackLength'),
         LastDone \in Nat
  PROVE  OpenInv'
<1>1. LastDone' = LastDone
  BY DEF LastDone
<1>2. Patches' = Patches
  BY DEF Patches
<1>3. \A f \in LastDone + 1 .. PackFrames : f \in 1 .. PackFrames
  BY ConstantsType
<1>4. \A f \in LastDone + 1 .. PackFrames :
       /\ IsFrame(frames'[f])
       /\ frames'[f].patches \in Seq(PatchSet) /\ Len(frames'[f].patches) >= 1
  BY <1>3 DEF OpenInv
<1>5. \A f \in LastDone + 2 .. PackFrames : Chained(Patches, f)
  BY DEF OpenInv
<1>6. (\A f \in LastDone + 2 .. PackFrames : Chained(Patches, f))'
  <2>1. \A f \in LastDone + 2 .. PackFrames : Chained(Patches', f)
    BY <1>2, <1>5
  <2>2. ASSUME NEW f, Chained(Patches', f) PROVE Chained(Patches, f)'
    BY <2>2 DEF Chained, Linked, Rising, Overlapping, NoneBetter, Named, Overlap
  <2> QED
    BY <1>1, <2>1, <2>2
<1>7. step' \in Growing => TracksOK(Patches, tracks, first, TrackLength)'
  <2>1. TracksOK(Patches, tracks', first', TrackLength')
          <=> TracksOK(Patches, tracks, first, TrackLength)'
    BY <1>2 DEF TracksOK, AliveIn, TrackOK, Named
  <2> QED
    BY <2>1
<1>8. /\ phase' = "segment" /\ Len(frames') = PackFrames
  BY DEF OpenInv
<1> HIDE DEF Growing
<1>9. (\A f \in LastDone + 1 .. PackFrames :
       /\ IsFrame(frames[f])
       /\ frames[f].patches \in Seq(PatchSet) /\ Len(frames[f].patches) >= 1)'
  BY <1>1, <1>4 DEF IsFrame, PatchSet
<1>10. Growing' = Growing
  BY DEF Growing
<1> QED
  BY <1>6, <1>7, <1>8, <1>9, <1>10 DEF OpenInv

\* A finished subcontext ends with its last frame; the other frames stay.
LEMMA CloseDone ==
  ASSUME IsSeq(subs), IsSeq(frames), NEW lo \in Nat, NEW ps, Len(ps) \in Nat, Close(lo, ps)
  PROVE  /\ LastDone' = lo + Len(ps) - 1
         /\ IsSeq(frames') /\ Len(frames') = Len(frames)
         /\ \A f \in 1 .. Len(frames) : f > LastDone' => frames'[f] = frames[f]
         /\ \A f \in 1 .. Len(frames) : f < lo => frames'[f] = frames[f]
         /\ step' = "start"
<1> DEFINE sub == [lo |-> lo, hi |-> lo + Len(ps) - 1,
                   globals |-> [k \in DOMAIN ps |-> ps[k].globals]]
<1>1. subs' = Append(subs, sub) /\ step' = "start" /\ frames' = Update(frames, lo, ps)
  BY DEF Close
<1>2. sub.hi = lo + Len(ps) - 1
  OBVIOUS
<1> HIDE DEF sub
<1>3. subs' # <<>> /\ Len(subs') = Len(subs) + 1 /\ subs'[Len(subs) + 1] = sub
  BY <1>1, AppendIs
<1>4. LastDone' = lo + Len(ps) - 1
  BY <1>2, <1>3 DEF LastDone
<1>5. DOMAIN frames = 1 .. Len(frames) /\ Len(frames) \in Nat
  BY DEF IsSeq
<1> DEFINE hi == lo + Len(ps) - 1
           done == Finished(SubSeq(frames, lo, hi), ps)
<1>6. frames' = [f \in 1 .. Len(frames) |-> IF f \in lo .. hi THEN done[f - lo + 1] ELSE frames[f]]
  BY <1>1, <1>5 DEF Update
<1> HIDE DEF done
<1>7. IsSeq(frames') /\ Len(frames') = Len(frames)
  BY <1>5, <1>6 DEF IsSeq
<1>8. \A f \in 1 .. Len(frames) : f > hi \/ f < lo => frames'[f] = frames[f]
  BY <1>6
<1> QED
  BY <1>1, <1>4, <1>7, <1>8

\* What Chained says of a frame depends on that frame and the one before only.
LEMMA ChainedSame ==
  ASSUME NEW P, NEW Q, NEW f, Chained(P, f), Q[f] = P[f], Q[f - 1] = P[f - 1]
  PROVE  Chained(Q, f)
<1>1. PICK cur, prev : cur = P[f] /\ prev = P[f - 1]
  OBVIOUS
<1>2. Linked(Q, f) /\ Overlapping(Q, f)
  BY <1>1 DEF Chained, Linked, Overlapping, Named
<1> QED
  BY <1>2 DEF Chained

\* Finishing a subcontext leaves the frames after it alone.
LEMMA OpenClosed ==
  ASSUME OpenInv, Control, NEW lo, lo = LastDone + 1, NEW ps, IsSeq(ps), Len(ps) >= 1,
         Close(lo, ps), UNCHANGED phase, at' <= PackFrames + 1
  PROVE  OpenInv'
<1>1. /\ IsSeq(frames) /\ Len(frames) = PackFrames /\ phase' = "segment"
      /\ IsSeq(subs) /\ lo \in Nat /\ LastDone \in Nat /\ Len(ps) \in Nat /\ PackFrames \in Nat
  BY ConstantsType DEF OpenInv, Control, IsSeq
<1>2. /\ LastDone' = lo + Len(ps) - 1
      /\ IsSeq(frames') /\ Len(frames') = Len(frames)
      /\ \A f \in 1 .. Len(frames) : f > LastDone' => frames'[f] = frames[f]
      /\ step' = "start"
  BY <1>1, CloseDone
<1>3. \A f \in LastDone' + 1 .. PackFrames :
        f \in LastDone + 1 .. PackFrames /\ frames'[f] = frames[f] /\ f \in 1 .. PackFrames
  BY <1>1, <1>2
<1>4. \A f \in LastDone' + 1 .. PackFrames :
       /\ IsFrame(frames'[f])
       /\ frames'[f].patches \in Seq(PatchSet) /\ Len(frames'[f].patches) >= 1
  BY <1>3 DEF OpenInv
<1>5. ASSUME NEW f \in LastDone' + 2 .. PackFrames
      PROVE  Chained(Patches', f)
  <2>1. f \in LastDone' + 1 .. PackFrames /\ f - 1 \in LastDone' + 1 .. PackFrames
    BY <1>1, <1>2
  <2>2. Patches'[f] = Patches[f] /\ Patches'[f - 1] = Patches[f - 1]
    BY <1>3, <2>1 DEF Patches
  <2>3. f \in LastDone + 2 .. PackFrames
    BY <1>1, <1>2
  <2>4. Chained(Patches, f)
    BY <2>3 DEF OpenInv
  <2>5. PICK P, Q : P = Patches /\ Q = Patches'
    OBVIOUS
  <2> QED
    BY <2>2, <2>4, <2>5, ChainedSame
<1>6. ASSUME NEW f, Chained(Patches', f) PROVE Chained(Patches, f)'
  BY <1>6 DEF Chained, Linked, Rising, Overlapping, NoneBetter, Named, Overlap
<1>7. (\A f \in LastDone + 2 .. PackFrames : Chained(Patches, f))'
  BY <1>5, <1>6
<1>8. (\A f \in LastDone + 1 .. PackFrames :
       /\ IsFrame(frames[f])
       /\ frames[f].patches \in Seq(PatchSet) /\ Len(frames[f].patches) >= 1)'
  BY <1>4 DEF IsFrame, PatchSet
<1>9. step' \notin {"first"} \cup Growing
  BY <1>2 DEF Growing
<1>10. Growing' = Growing
  BY DEF Growing
<1> HIDE DEF Growing
<1> QED
  BY <1>1, <1>2, <1>7, <1>8, <1>9, <1>10 DEF OpenInv

\* A roll back.
LEMMA OpenRollBack ==
  ASSUME OpenInv, TileInv, step \in Growing, RollBack
  PROVE  OpenInv'
<1>1. /\ IsSeq(pre) /\ Len(pre) \in Nat \ {0} /\ first = LastDone + 1
  BY DEF TileInv, Control
<1>2. Close(first, pre) /\ at' = at /\ phase' = phase
  BY DEF RollBack, Restart
<1> QED
  BY <1>1, <1>2, OpenClosed DEF OpenInv, TileInv

\* A subcontext starts with a track for each patch.
LEMMA OpenFirstLaid ==
  ASSUME OpenInv, TileInv, FirstLaid
  PROVE  OpenInv'
<1>1. step = "first" /\ at' = at + 1 /\ phase' = phase
  BY DEF FirstLaid
<1>2. /\ at \in Nat \ {0} /\ LastDone \in Nat /\ IsSeq(subs) /\ at = LastDone + 1
      /\ PackFrames \in Nat
  BY <1>1, ConstantsType DEF TileInv, Control, SubContextsTile, LastDone, Growing
<1>3. at <= PackFrames /\ DOMAIN patches = DOMAIN frames[at].patches
  BY <1>1 DEF OpenInv
<1>4. CASE at = PackFrames
  <2> DEFINE p == AsPacked(at, patches, DOMAIN patches)
  <2>1. Close(at, <<p>>)
    BY <1>4 DEF FirstLaid
  <2> HIDE DEF p
  <2>2. IsSeq(<<p>>) /\ Len(<<p>>) >= 1
    BY DEF IsSeq
  <2>3. PICK ps : ps = <<p>>
    OBVIOUS
  <2>4. IsSeq(ps) /\ Len(ps) >= 1 /\ Close(at, ps)
    BY <2>1, <2>2, <2>3
  <2>5. at' <= PackFrames + 1
    BY <1>1, <1>2, <1>3
  <2> QED
    BY <1>1, <1>2, <2>4, <2>5, OpenClosed DEF TileInv
<1>5. CASE at # PackFrames
  <2>1. /\ first' = at /\ step' = "track" /\ tracks' = [i \in DOMAIN patches |-> <<i>>]
        /\ UNCHANGED <<frames, phase, subs>>
    BY <1>5 DEF FirstLaid
  <2>2. at \in LastDone + 1 .. PackFrames /\ at \in 1 .. PackFrames
    BY <1>2, <1>3
  <2>3. frames[at].patches \in Seq(PatchSet)
    BY <2>2 DEF OpenInv
  <2>4. Patches[at] = frames[at].patches
    BY <2>2 DEF Patches
  <2>5. IsSeq(tracks') /\ Len(tracks') = Len(Patches[at])
        /\ \A i \in 1 .. Len(tracks') : tracks'[i] = <<i>>
    <3>1. tracks' = [i \in 1 .. Len(Patches[at]) |-> <<i>>] /\ Len(Patches[at]) \in Nat
      BY <1>3, <2>1, <2>3, <2>4
    <3> QED
      BY <3>1 DEF IsSeq
  <2>6. TracksOK(Patches, tracks', at, 1)
    BY <2>2, <2>5, FirstTracks
  <2>7. TrackLength' = 1
    BY <1>1, <1>2, <2>1 DEF TrackLength
  <2>8. at' <= PackFrames
    BY <1>1, <1>2, <1>3, <1>5
  <2> QED
    BY <1>1, <1>2, <2>1, <2>6, <2>7, <2>8, OpenKept DEF OpenInv
<1> QED
  BY <1>4, <1>5

\* The tracks are continued to the frame that is added.
LEMMA OpenTrack ==
  ASSUME OpenInv, TileInv, Track
  PROVE  OpenInv'
<1>1. /\ step = "track" /\ step' = "union" /\ tracks' = Tracked(at)
      /\ UNCHANGED <<frames, phase, at, first, subs>>
  BY DEF Track
<1>2. /\ at \in Nat \ {0} /\ LastDone \in Nat /\ first = LastDone + 1
      /\ Len(pre) \in Nat \ {0} /\ at = first + Len(pre) /\ PackFrames \in Nat
  BY <1>1, ConstantsType DEF TileInv, Control, Growing
<1> DEFINE n == Len(pre)
<1>3. n \in Nat \ {0} /\ first \in Nat \ {0} /\ at = first + n
  BY <1>2
<1>4. step \in Growing /\ step' \in Growing /\ step' # "first"
  BY <1>1 DEF Growing
<1>5. at <= PackFrames /\ TracksOK(Patches, tracks, first, TrackLength)
  BY <1>4 DEF OpenInv
<1>6. TrackLength = n /\ TrackLength' = n + 1
  BY <1>1, <1>2 DEF TrackLength
<1>7. PackedPair(first + n)
  <2>1. /\ at \in 2 .. PackFrames /\ at \in LastDone + 1 .. PackFrames
        /\ at - 1 \in LastDone + 1 .. PackFrames /\ at \in LastDone + 2 .. PackFrames
    BY <1>2, <1>5
  <2> QED
    BY <1>3, <2>1 DEF PackedPair, OpenInv
<1> HIDE DEF n, Growing
<1>8. TracksOK(Patches, tracks', first', TrackLength')
  BY <1>1, <1>3, <1>5, <1>6, <1>7, LongerTracks
<1> QED
  BY <1>1, <1>2, <1>4, <1>5, <1>8, OpenKept DEF OpenInv

\* The frame is added.
LEMMA OpenAccept ==
  ASSUME OpenInv, TileInv, Accept
  PROVE  OpenInv'
<1>1. /\ step = "decide" /\ ~BadPacking /\ at' = at + 1 /\ phase' = phase
  BY DEF Accept
<1>2. /\ IsSeq(packed) /\ Len(packed) \in Nat /\ first \in Nat /\ at \in Nat \ {0}
      /\ first = LastDone + 1 /\ Len(pre) \in Nat \ {0} /\ at = first + Len(pre)
      /\ packed # <<>> /\ LastDone \in Nat /\ PackFrames \in Nat
  BY <1>1, ConstantsType DEF TileInv, Control, IsSeq, Growing
<1>3. first + Len(packed) = at + 1
  BY <1>1 DEF TileInv, Control, BadPacking
<1>4. at <= PackFrames /\ TracksOK(Patches, tracks, first, TrackLength)
  BY <1>1 DEF OpenInv, Growing
<1>5. CASE at = PackFrames
  <2>1. Close(first, packed)
    BY <1>5 DEF Accept
  <2> QED
    BY <1>1, <1>2, <1>3, <1>4, <2>1, OpenClosed DEF TileInv
<1>6. CASE at # PackFrames
  <2>1. /\ step' = "track" /\ UNCHANGED <<frames, phase, first, subs, tracks>>
    BY <1>1, <1>6 DEF Accept
  <2>2. TrackLength' = TrackLength
    BY <1>1, <1>2, <2>1 DEF TrackLength
  <2>3. TracksOK(Patches, tracks', first', TrackLength')
    BY <1>4, <2>1, <2>2
  <2> QED
    BY <1>1, <1>2, <1>4, <1>6, <2>1, <2>3, OpenKept DEF OpenInv
<1> QED
  BY <1>5, <1>6

\* A frame that is packed again is one that is not finished, and keeps its
\* patches.
LEMMA OpenLayMissed ==
  ASSUME OpenInv, TileInv, LayMissed
  PROVE  OpenInv'
<1>1. /\ step \in {"first", "pack"}
      /\ UNCHANGED <<phase, step, at, first, tracks, packed, pre, subs, patches>>
  BY DEF LayMissed, LayingMissed
<1>2. PICK n : frames' = [frames EXCEPT ![Current].missed = <<n>>]
  BY DEF LayMissed
<1>3. IsSeq(frames) /\ DOMAIN frames = 1 .. PackFrames /\ PackFrames \in Nat
      /\ Len(frames) = PackFrames
  BY ConstantsType DEF OpenInv, IsSeq
<1>4. IsSeq(frames') /\ Len(frames') = PackFrames
  <2>1. DOMAIN frames' = 1 .. PackFrames /\ frames' = [f \in 1 .. PackFrames |-> frames'[f]]
    BY <1>2, <1>3
  <2>2. PICK g : g = frames'
    OBVIOUS
  <2>3. g = [f \in 1 .. PackFrames |-> g[f]]
    BY <2>1, <2>2
  <2>4. Len(g) = PackFrames
    BY <1>3, <2>3
  <2> QED
    BY <1>3, <2>2, <2>3, <2>4 DEF IsSeq
<1>5. Current \in Nat /\ Current >= LastDone + 1 /\ LastDone \in Nat
  <2>1. /\ step = "first" => at = LastDone + 1
        /\ step = "pack" => first = LastDone + 1 /\ Len(packed) \in Nat
        /\ LastDone \in Nat
    BY <1>1 DEF TileInv, Control, SubContextsTile, LastDone, Growing, IsSeq
  <2> QED
    BY <1>1, <2>1 DEF Current
<1>6. ASSUME NEW f \in 1 .. PackFrames
      PROVE  /\ frames'[f].patches = frames[f].patches
             /\ f >= LastDone + 1 => IsFrame(frames'[f])
  <2>1. CASE f = Current
    <3>1. f \in LastDone + 1 .. PackFrames
      BY <1>5, <2>1
    <3>2. PICK r : r = frames[f]
      OBVIOUS
    <3>3. IsFrame(r)
      BY <3>1, <3>2 DEF OpenInv
    <3>4. frames'[f] = [r EXCEPT !.missed = <<n>>]
      BY <1>2, <1>3, <2>1, <3>2
    <3>5. frames'[f] = [patches |-> r.patches, matches |-> r.matches, missed |-> <<n>>,
                        laid |-> r.laid, width |-> r.width, height |-> r.height]
      BY <3>3, <3>4 DEF IsFrame
    <3> QED
      BY <3>2, <3>5 DEF IsFrame
  <2>2. CASE f # Current
    <3>1. frames'[f] = frames[f]
      BY <1>2, <1>3, <2>2
    <3>2. f >= LastDone + 1 => f \in LastDone + 1 .. PackFrames
      BY <1>5
    <3> QED
      BY <3>1, <3>2 DEF OpenInv
  <2> QED
    BY <2>1, <2>2
<1>7. \A f \in LastDone + 1 .. PackFrames : IsFrame(frames'[f])
  BY <1>5, <1>6
<1>8. step' = "first" => DOMAIN patches' = DOMAIN frames[at'].patches /\ at' \in 1 .. PackFrames
  BY <1>1, <1>3 DEF OpenInv, TileInv, Control
<1>9. TrackLength' = TrackLength
  BY <1>1 DEF TrackLength
<1>10. step' \in Growing => TracksOK(Patches, tracks', first', TrackLength')
  BY <1>1, <1>9 DEF OpenInv
<1>11. at' <= PackFrames + 1 /\ (step' \in {"first"} \cup Growing => at' <= PackFrames)
  BY <1>1 DEF OpenInv
<1> QED
  BY <1>1, <1>3, <1>4, <1>5, <1>6, <1>7, <1>8, <1>10, <1>11, OpenKept

\* A step of the allocation that leaves the frames as they are, and the tracks.
LEMMA OpenSame ==
  ASSUME OpenInv, TileInv, UNCHANGED <<frames, phase, subs, at, first, tracks>>,
         step' \in Growing => step \in Growing /\ (step = "track" <=> step' = "track"),
         step' = "first" => DOMAIN patches' = DOMAIN frames[at].patches /\ at <= PackFrames
  PROVE  OpenInv'
<1>1. IsSeq(frames) /\ Len(frames) = PackFrames /\ at \in Nat \ {0} /\ LastDone \in Nat
  BY DEF OpenInv, TileInv, Control
<1>2. step' \in Growing => TrackLength' = TrackLength
  BY DEF TrackLength
<1>3. step' \in Growing => TracksOK(Patches, tracks', first', TrackLength')
  BY <1>2 DEF OpenInv
<1>4. at' <= PackFrames + 1 /\ (step' \in {"first"} \cup Growing => at' <= PackFrames)
  BY DEF OpenInv
<1>5. \A f \in LastDone + 1 .. PackFrames : IsFrame(frames'[f])
  BY DEF OpenInv
<1>6. step' = "first" => DOMAIN patches' = DOMAIN frames[at'].patches /\ at' \in 1 .. PackFrames
  BY <1>1, ConstantsType
<1>7. IsSeq(frames') /\ Len(frames') = Len(frames)
  BY <1>1
<1>8. \A f \in 1 .. PackFrames : frames'[f].patches = frames[f].patches
  OBVIOUS
<1> HIDE DEF Growing
<1> QED
  BY <1>1, <1>3, <1>4, <1>5, <1>6, <1>7, <1>8, OpenKept

\* No step of the allocation changes a frame that is not finished.
LEMMA OpenNext ==
  ASSUME OpenInv, TileInv, AllPacked, [GpaNext]_gpaVars
  PROVE  OpenInv' /\ AllPacked'
<1>1. OpenInv'
  <2>1. CASE FirstLaid
    BY <2>1, OpenFirstLaid
  <2>2. CASE Track
    BY <2>2, OpenTrack
  <2>3. CASE Accept
    BY <2>3, OpenAccept
  <2>4. CASE LayMissed
    BY <2>4, OpenLayMissed
  <2>5. CASE GiveUp \/ Reject
    BY <2>5, OpenRollBack DEF GiveUp, Reject, Growing
  <2>6. CASE StartSubContext
    BY <2>6, OpenSame DEF StartSubContext, Begin, Growing
  <2>7. CASE Unite \/ BeginFrame \/ FrameLaid
    <3>1. UNCHANGED <<frames, phase, subs, at, first, tracks>>
      BY <2>7 DEF Unite, BeginFrame, FrameLaid
    <3>2. step \in Growing /\ step # "track" /\ step' # "track" /\ step' # "first"
      BY <2>7 DEF Unite, BeginFrame, FrameLaid, Growing
    <3> QED
      BY <3>1, <3>2, OpenSame
  <2>8. CASE LayPatch \/ LayGrow
    <3>1. UNCHANGED <<frames, phase, subs, at, first, tracks, step>>
      BY <2>8 DEF LayPatch, LayGrow
    <3>2. DOMAIN patches' = DOMAIN patches
      BY <2>8 DEF LayPatch, LayGrow
    <3>3. step' = "first" => DOMAIN patches' = DOMAIN frames[at].patches /\ at <= PackFrames
      BY <3>1, <3>2 DEF OpenInv
    <3> QED
      BY <3>1, <3>3, OpenSame
  <2>9. CASE GpaEnds \/ UNCHANGED gpaVars
    <3>1. UNCHANGED <<frames, phase, subs, at, first, tracks, step, patches>>
      BY <2>9 DEF GpaEnds, gpaVars, packVars
    <3>2. step' = "first" => DOMAIN patches' = DOMAIN frames[at].patches /\ at <= PackFrames
      BY <3>1 DEF OpenInv
    <3> QED
      BY <3>1, <3>2, OpenSame
  <2>10. ~PackStep
    BY DEF PackStep
  <2> QED
    BY <2>1, <2>2, <2>3, <2>4, <2>5, <2>6, <2>7, <2>8, <2>9, <2>10 DEF GpaNext
<1>2. AllPacked'
  BY <1>1 DEF OpenInv, AllPacked
<1> QED
  BY <1>1, <1>2

\* The invariant of the tracks is inductive.
LEMMA FollowNext ==
  ASSUME MatchedBefore, FollowInv, [GpaNext]_gpaVars
  PROVE  FollowInv'
<1>1. TileInv /\ TileInv'
  BY TileNext DEF FollowInv
<1>2. CASE AllPacked
  BY <1>1, <1>2, OpenNext DEF FollowInv
<1>3. CASE ~AllPacked
  <2>1. Untouched /\ PackInv /\ PackExtra
    BY <1>3 DEF FollowInv
  <2>2. Untouched' /\ PackInv' /\ PackExtra'
    <3>1. CASE GpaNext
      <4>1. PackStep
        BY <1>3, <2>1, <3>1, StepsBefore
      <4>2. Untouched'
        BY <2>1, <4>1 DEF PackStep, Untouched, NoUnions
      <4> QED
        BY <2>1, <4>1, <4>2, PackStepNext, NextInv, PackStepExtra
    <3>2. CASE UNCHANGED gpaVars
      <4>1. UNCHANGED packVars /\ Untouched'
        BY <2>1, <3>2 DEF gpaVars, Untouched, NoUnions
      <4>2. PackInv'
        BY <2>1, <4>1, NextInv
      <4>3. PackExtra'
        BY <2>1, <4>1 DEF packVars, PackExtra, InHand, Prev, FrameExtra, MissedSound, OverlapsIn, Overlap
      <4> QED
        BY <4>1, <4>2, <4>3
    <3> QED
      BY <3>1, <3>2
  <2>3. AllPacked' => OpenInv'
    <3>1. ASSUME PackInv', PackExtra', AllPacked', Untouched' PROVE OpenInv'
      BY <3>1, PackedOpen, PTL
    <3> QED
      BY <2>2, <3>1
  <2> QED
    BY <1>1, <2>2, <2>3 DEF FollowInv
<1> QED
  BY <1>2, <1>3

\* Before anything is packed.
LEMMA FollowInit ==
  ASSUME GpaInit
  PROVE  FollowInv
<1>1. LastDone = 0
  BY DEF GpaInit, LastDone
<1>2. TileInv
  BY <1>1, EmptyIsSeq DEF GpaInit, TileInv, Control, SubContextsTile, Steps, Growing
<1>3. frames = <<>> /\ phase = "segment" /\ PackInit
  BY DEF GpaInit, PackInit
<1>4. ~AllPacked
  BY <1>3, ConstantsType DEF AllPacked
<1>5. PackInv
  BY <1>3, InitInv
<1>6. PackExtra
  BY <1>3 DEF PackExtra
<1>7. Untouched
  BY DEF GpaInit, Untouched
<1> QED
  BY <1>2, <1>4, <1>5, <1>6, <1>7 DEF FollowInv

\* Tracks that follow the matches of frames that are not finished.
LEMMA TracksAreMatches ==
  ASSUME FollowInv
  PROVE  TracksFollowMatches
<1>1. CASE step \notin Growing
  <2>1. tracks = <<>>
    BY <1>1 DEF FollowInv, TileInv, Control
  <2> QED
    BY <2>1 DEF TracksFollowMatches
<1>2. CASE step \in Growing
  <2>1. AllPacked /\ OpenInv
    BY <1>2 DEF FollowInv, Untouched, Growing
  <2>2. /\ TracksOK(Patches, tracks, first, TrackLength) /\ at <= PackFrames
        /\ first = LastDone + 1 /\ LastDone \in Nat /\ at \in Nat /\ PackFrames \in Nat
        /\ Len(pre) \in Nat \ {0} /\ at = first + Len(pre)
    BY <1>2, <2>1, ConstantsType DEF OpenInv, FollowInv, TileInv, Control
  <2>3. DOMAIN tracks = 1 .. Len(tracks) /\ TrackLength \in Nat \ {0}
    BY <2>2 DEF TracksOK, IsSeq, TrackLength
  <2>4. TrackLength <= at - first + 1
    BY <2>2 DEF TrackLength
  <2>5. SUFFICES ASSUME NEW i \in 1 .. Len(tracks)
                 PROVE  /\ Len(tracks[i]) \in {0, TrackLength}
                        /\ \A k \in 2 .. Len(tracks[i]) :
                             frames[first + k - 1].patches[tracks[i][k]].match
                               = tracks[i][k - 1] - 1
    BY <2>3 DEF TracksFollowMatches, TrackLength
  <2>6. CASE tracks[i] = <<>>
    BY <2>6
  <2>7. CASE tracks[i] # <<>>
    <3>1. TrackOK(Patches, tracks[i], i, first, TrackLength)
      BY <2>2, <2>7 DEF TracksOK, AliveIn
    <3>2. PICK t : t = tracks[i]
      OBVIOUS
    <3>3. /\ Len(t) = TrackLength
          /\ \A k \in 1 .. TrackLength : t[k] \in 1 .. Len(Patches[first + k - 1])
          /\ \A k \in 2 .. TrackLength : Named(Patches, first + k - 1, t[k]) = t[k - 1]
      BY <3>1, <3>2 DEF TrackOK
    <3>4. ASSUME NEW k \in 2 .. TrackLength
          PROVE  frames[first + k - 1].patches[t[k]].match = t[k - 1] - 1
      <4>1. /\ k \in 1 .. TrackLength /\ first + k - 1 \in LastDone + 1 .. PackFrames
            /\ first + k - 1 \in 1 .. PackFrames
        BY <2>2, <2>3, <2>4
      <4>2. PICK g : g = first + k - 1
        OBVIOUS
      <4>3. Patches[g] = frames[g].patches /\ frames[g].patches \in Seq(PatchSet)
        BY <2>1, <4>1, <4>2 DEF Patches, OpenInv
      <4>4. frames[g].patches[t[k]] \in PatchSet
        BY <3>3, <4>1, <4>2, <4>3
      <4>5. frames[g].patches[t[k]].match \in Int
        BY <4>4, PatchFields
      <4>6. frames[g].patches[t[k]].match + 1 = t[k - 1]
        BY <3>3, <4>2, <4>3 DEF Named
      <4> QED
        BY <4>2, <4>5, <4>6
    <3> QED
      BY <3>2, <3>3, <3>4
  <2> QED
    BY <2>6, <2>7
<1> QED
  BY <1>1, <1>2

\* When every frame is packed with a look at the one before, the tracks of a
\* subcontext go from a patch to the patch that is matched to it: matching the
\* patches of the tracks only comes to the same result.
THEOREM TracksFollowMatchesHolds ==
  ASSUME MatchedBefore PROVE GpaSpec => []TracksFollowMatches
<1>1. GpaInit => FollowInv
  BY FollowInit
<1>2. FollowInv /\ [GpaNext]_gpaVars => FollowInv'
  BY FollowNext
<1>3. FollowInv => TracksFollowMatches
  BY TracksAreMatches
<1> QED
  BY <1>1, <1>2, <1>3, PTL DEF GpaSpec

-----------------------------------------------------------------------------
(***************************************************************************)
(* The order of the patches of a finished frame.                           *)
(***************************************************************************)
\* The members of G in their order, then the other numbers up to N in theirs.
GlobalsFirst(N, G) == Ascending(G) \o Ascending((1 .. N) \ G)

\* ord has the c members of G first, and both parts rise.
IsOrder(ord, N, G, c) ==
  /\ IsSeq(ord) /\ Len(ord) = N /\ c \in 0 .. N
  /\ \A j \in 1 .. c : ord[j] \in G
  /\ \A j \in c + 1 .. N : ord[j] \in (1 .. N) \ G
  /\ \A x \in G : \E j \in 1 .. c : ord[j] = x
  /\ \A x \in (1 .. N) \ G : \E j \in c + 1 .. N : ord[j] = x
  /\ \A i, j \in 1 .. c : i < j => ord[i] < ord[j]
  /\ \A i, j \in c + 1 .. N : i < j => ord[i] < ord[j]

\* A list of a set of T's members is a sequence of T.
LEMMA ListsSeq ==
  ASSUME NEW s, NEW S, NEW T, S \subseteq T, Lists(s, S)
  PROVE  s \in Seq(T)
<1>1. Len(s) \in Nat /\ s = [i \in 1 .. Len(s) |-> s[i]] /\ \A i \in 1 .. Len(s) : s[i] \in S
  BY DEF Lists, IsSeq
<1>2. s \in [1 .. Len(s) -> T]
  BY <1>1
<1> QED
  BY <1>1, <1>2, FunctionIsSeq

\* The elements of two sequences in a row.
LEMMA ConcatIs ==
  ASSUME NEW T, NEW s \in Seq(T), NEW t \in Seq(T)
  PROVE  /\ IsSeq(s \o t) /\ Len(s \o t) = Len(s) + Len(t)
         /\ \A i \in 1 .. Len(s) : (s \o t)[i] = s[i]
         /\ \A i \in Len(s) + 1 .. Len(s) + Len(t) : (s \o t)[i] = t[i - Len(s)]
<1>0. s \o t \in Seq(T)
  BY ConcatProperties
<1>1. PICK r \in Seq(T) : r = s \o t
  BY <1>0
<1>2. Len(r) = Len(s) + Len(t)
  BY <1>1
<1>3. IsSeq(r)
  BY DEF IsSeq
<1>4. \A i \in 1 .. Len(s) : r[i] = s[i]
  BY <1>1
<1>5. \A i \in Len(s) + 1 .. Len(s) + Len(t) : r[i] = t[i - Len(s)]
  BY <1>1
<1> QED
  BY <1>1, <1>2, <1>3, <1>4, <1>5

\* What is at which place of the order.
LEMMA OrderIs ==
  ASSUME NEW N \in Nat, NEW G \in SUBSET (1 .. N)
  PROVE  /\ IsOrder(GlobalsFirst(N, G), N, G, Cardinality(G))
         /\ Lists(Ascending(G), G) /\ Len(Ascending(G)) = Cardinality(G)
         /\ \A j \in 1 .. Cardinality(G) : GlobalsFirst(N, G)[j] = Ascending(G)[j]
<1> DEFINE R == (1 .. N) \ G
           s == Ascending(G)
           t == Ascending(R)
           ord == GlobalsFirst(N, G)
<1>1. Lists(s, G) /\ Len(s) = Cardinality(G) /\ IsFiniteSet(G) /\ Cardinality(G) \in Nat
  BY AscendingLists
<1>2. Lists(t, R) /\ Len(t) = Cardinality(R) /\ Cardinality(R) \in Nat
  <2>1. R \in SUBSET (1 .. N)
    OBVIOUS
  <2> HIDE DEF R
  <2> QED
    BY <2>1, AscendingLists
<1>3. Cardinality(R) = N - Cardinality(G)
  <2>1. IsFiniteSet(1 .. N) /\ Cardinality(1 .. N) = N
    BY FS_Interval
  <2>2. PICK S : S = 1 .. N
    OBVIOUS
  <2>3. S \cap G = G /\ R = S \ G
    BY <2>2
  <2> HIDE DEF R
  <2>4. Cardinality(R) = Cardinality(S) - Cardinality(S \cap G)
    BY <2>1, <2>2, <2>3, FS_Difference
  <2> QED
    BY <2>1, <2>2, <2>3, <2>4
<1>4. s \in Seq(Int) /\ t \in Seq(Int)
  <2>1. G \subseteq Int /\ R \subseteq Int
    OBVIOUS
  <2> HIDE DEF s, t, R
  <2> QED
    BY <1>1, <1>2, <2>1, ListsSeq
<1>5. ord = s \o t
  BY DEF GlobalsFirst
<1>6. PICK c \in Nat : c = Cardinality(G)
  BY <1>1
<1> HIDE DEF s, t, ord
<1>7. /\ IsSeq(ord) /\ Len(ord) = Len(s) + Len(t)
      /\ \A i \in 1 .. Len(s) : ord[i] = s[i]
      /\ \A i \in Len(s) + 1 .. Len(s) + Len(t) : ord[i] = t[i - Len(s)]
  BY <1>4, <1>5, ConcatIs
<1>8. Len(s) = c /\ Len(t) = N - c /\ Len(s) + Len(t) = N /\ c \in 0 .. N
  BY <1>1, <1>2, <1>3, <1>6
<1>9. \A j \in 1 .. c : ord[j] = s[j] /\ ord[j] \in G
  BY <1>1, <1>7, <1>8 DEF Lists
<1>10. \A j \in c + 1 .. N : j - c \in 1 .. N - c /\ ord[j] = t[j - c]
  BY <1>7, <1>8
<1>11. \A j \in c + 1 .. N : ord[j] \in R
  BY <1>2, <1>8, <1>10 DEF Lists
<1>12. \A x \in G : \E j \in 1 .. c : ord[j] = x
  BY <1>1, <1>7, <1>8 DEF Lists
<1>13. ASSUME NEW x \in R PROVE \E j \in c + 1 .. N : ord[j] = x
  <2>1. PICK i \in 1 .. N - c : t[i] = x
    BY <1>2, <1>8 DEF Lists
  <2>2. i + c \in c + 1 .. N /\ (i + c) - c = i
    BY <1>8
  <2> QED
    BY <1>10, <2>1, <2>2
<1>14. \A i, j \in 1 .. c : i < j => ord[i] < ord[j]
  BY <1>1, <1>8, <1>9 DEF Lists
<1>15. ASSUME NEW i \in c + 1 .. N, NEW j \in c + 1 .. N, i < j PROVE ord[i] < ord[j]
  <2>1. i - c \in 1 .. Len(t) /\ j - c \in 1 .. Len(t) /\ i - c < j - c
    BY <1>8, <1>10, <1>15
  <2>2. t[i - c] < t[j - c]
    BY <1>2, <2>1 DEF Lists
  <2> QED
    BY <1>10, <2>2
<1> QED
  <2>1. IsOrder(ord, N, G, c)
    BY <1>7, <1>8, <1>9, <1>11, <1>12, <1>13, <1>14, <1>15 DEF IsOrder
  <2>2. \A j \in 1 .. c : ord[j] = s[j]
    BY <1>9
  <2> QED
    BY <1>1, <1>6, <2>1, <2>2 DEF s, ord

\* It takes every number once.
LEMMA OrderOnce ==
  ASSUME NEW N \in Nat, NEW G \in SUBSET (1 .. N),
         NEW i \in 1 .. N, NEW j \in 1 .. N, GlobalsFirst(N, G)[i] = GlobalsFirst(N, G)[j]
  PROVE  i = j
<1> DEFINE c == Cardinality(G)
<1>1. PICK ord : ord = GlobalsFirst(N, G)
  OBVIOUS
<1>2. /\ c \in 0 .. N
      /\ \A k \in 1 .. c : ord[k] \in G
      /\ \A k \in c + 1 .. N : ord[k] \in (1 .. N) \ G
      /\ \A k, l \in 1 .. c : k < l => ord[k] < ord[l]
      /\ \A k, l \in c + 1 .. N : k < l => ord[k] < ord[l]
  BY <1>1, OrderIs DEF IsOrder
<1> HIDE DEF c
<1>3. /\ \A k \in 1 .. c : ord[k] \in Int /\ ord[k] \in G
      /\ \A k \in c + 1 .. N : ord[k] \in Int /\ ord[k] \notin G
  <2>1. \A x : x \in G => x \in Int
    OBVIOUS
  <2>2. \A x : x \in (1 .. N) \ G => x \in Int /\ x \notin G
    OBVIOUS
  <2>3. ASSUME NEW k \in 1 .. c PROVE ord[k] \in Int /\ ord[k] \in G
    <3>1. ord[k] \in G
      BY <1>2
    <3> QED
      BY <2>1, <3>1
  <2>4. ASSUME NEW k \in c + 1 .. N PROVE ord[k] \in Int /\ ord[k] \notin G
    <3>1. ord[k] \in (1 .. N) \ G
      BY <1>2
    <3> QED
      BY <2>2, <3>1
  <2> QED
    BY <2>3, <2>4
<1>4. ord[i] = ord[j]
  BY <1>1
<1>5. (i \in 1 .. c /\ j \in 1 .. c) \/ (i \in c + 1 .. N /\ j \in c + 1 .. N)
  BY <1>2, <1>3, <1>4
<1>6. ~(i < j) /\ ~(j < i)
  BY <1>2, <1>3, <1>4, <1>5
<1> QED
  BY <1>6

\* Numbers that come first anyway stay where they are.
LEMMA OrderIdentity ==
  ASSUME NEW N \in Nat, NEW G \in SUBSET (1 .. N), \A i \in G : 1 .. i \subseteq G
  PROVE  \A j \in 1 .. N : GlobalsFirst(N, G)[j] = j
<1> DEFINE c == Cardinality(G)
<1>1. PICK ord : ord = GlobalsFirst(N, G)
  OBVIOUS
<1>2. /\ IsSeq(ord) /\ Len(ord) = N /\ c \in 0 .. N
      /\ \A k \in 1 .. c : ord[k] \in G
      /\ \A k \in c + 1 .. N : ord[k] \in (1 .. N) \ G
      /\ \A x \in G : \E l \in 1 .. c : ord[l] = x
      /\ \A x \in (1 .. N) \ G : \E l \in c + 1 .. N : ord[l] = x
      /\ \A k, l \in 1 .. c : k < l => ord[k] < ord[l]
      /\ \A k, l \in c + 1 .. N : k < l => ord[k] < ord[l]
  <2>1. IsOrder(ord, N, G, c)
    BY <1>1, OrderIs
  <2> HIDE DEF c
  <2> QED
    BY <2>1 DEF IsOrder
<1> HIDE DEF c
<1>3. \A k \in 1 .. N : k \in 1 .. c \/ k \in c + 1 .. N
  BY <1>2
<1>4. \A k \in 1 .. Len(ord) : ord[k] \in 1 .. N
  BY <1>2, <1>3
<1>5. \A x \in 1 .. N : \E j \in 1 .. Len(ord) : ord[j] = x
  <2> TAKE x \in 1 .. N
  <2>1. PICK j : (j \in 1 .. c \/ j \in c + 1 .. N) /\ ord[j] = x
    BY <1>2
  <2>2. j \in 1 .. N
    BY <1>2, <2>1
  <2> QED
    BY <1>2, <2>1, <2>2
<1>6. ASSUME NEW k \in 1 .. Len(ord), NEW l \in 1 .. Len(ord), k < l
      PROVE  ord[k] < ord[l]
  <2>1. CASE k \in 1 .. c /\ l \in c + 1 .. N
    <3>1. ord[k] \in G /\ ord[l] \notin G /\ ord[l] \in 1 .. N /\ ord[k] \in 1 .. N
      BY <1>2, <2>1
    <3>2. ~(ord[l] \in 1 .. ord[k])
      BY <3>1
    <3> QED
      BY <3>1, <3>2
  <2>2. CASE ~(k \in 1 .. c /\ l \in c + 1 .. N)
    <3>1. (k \in 1 .. c /\ l \in 1 .. c) \/ (k \in c + 1 .. N /\ l \in c + 1 .. N)
      BY <1>2, <1>3, <1>6, <2>2
    <3> QED
      BY <1>2, <1>6, <3>1
  <2> QED
    BY <2>1, <2>2
<1>7. Lists(ord, 1 .. N)
  BY <1>2, <1>4, <1>5, <1>6 DEF Lists
<1> QED
  BY <1>1, <1>7, ListsIdentity

-----------------------------------------------------------------------------
(***************************************************************************)
(* What a finished subcontext makes of its frames.                         *)
(***************************************************************************)
\* The packing p is one of the patches cur.
ItemsLike(cur, p) ==
  /\ IsSeq(p.items) /\ Len(p.items) = Len(cur)
  /\ p.globals \subseteq 1 .. Len(cur)
  /\ \A i \in 1 .. Len(cur) :
       /\ p.items[i].shape.view = cur[i].shape.view
       /\ p.items[i].shape.at = cur[i].shape.at

\* Packings of the frames from lo on, whose global patches are chained.
ReadyFor(lo, ps) ==
  /\ IsSeq(ps) /\ Len(ps) >= 1 /\ lo + Len(ps) - 1 <= PackFrames
  /\ \A k \in 1 .. Len(ps) : ItemsLike(frames[lo + k - 1].patches, ps[k])
  /\ Chain(Patches, lo, ps)
  /\ Len(ps) = 1 => ps[1].globals = 1 .. Len(ps[1].items)

\* The frames from lo on are as packing left them.
OpenFrom(lo) ==
  /\ lo \in Nat \ {0} /\ IsSeq(frames) /\ Len(frames) = PackFrames
  /\ \A f \in lo .. PackFrames :
       IsFrame(frames[f]) /\ frames[f].patches \in Seq(PatchSet)
  /\ \A f \in lo + 1 .. PackFrames : Chained(Patches, f)

\* The elements of a part of a sequence.
LEMMA SubSeqIs ==
  ASSUME NEW s, IsSeq(s), NEW m \in Nat, NEW n \in Nat, 1 <= m, m <= n, n <= Len(s)
  PROVE  /\ Len(SubSeq(s, m, n)) = n - m + 1 /\ DOMAIN SubSeq(s, m, n) = 1 .. n - m + 1
         /\ \A i \in 1 .. n - m + 1 : SubSeq(s, m, n)[i] = s[m + i - 1]
<1> DEFINE T == {s[i] : i \in 1 .. Len(s)}
<1>1. Len(s) \in Nat /\ s = [i \in 1 .. Len(s) |-> s[i]]
  BY DEF IsSeq
<1>2. \A i \in 1 .. Len(s) : s[i] \in T
  OBVIOUS
<1> HIDE DEF T
<1>3. s \in [1 .. Len(s) -> T]
  BY <1>1, <1>2
<1>4. s \in Seq(T)
  BY <1>1, <1>3, FunctionIsSeq
<1> QED
  BY <1>1, <1>4

\* The frames of a subcontext.
LEMMA SubFrames ==
  ASSUME NEW lo, OpenFrom(lo), NEW ps, ReadyFor(lo, ps)
  PROVE  LET fs == SubSeq(frames, lo, lo + Len(ps) - 1)
         IN  /\ Len(ps) \in Nat \ {0}
             /\ Len(fs) = Len(ps) /\ DOMAIN fs = 1 .. Len(ps)
             /\ \A k \in 1 .. Len(ps) :
                  /\ fs[k] = frames[lo + k - 1] /\ Patches[lo + k - 1] = frames[lo + k - 1].patches
                  /\ lo + k - 1 \in lo .. PackFrames /\ lo + k - 1 \in 1 .. PackFrames
             /\ \A k \in 2 .. Len(ps) :
                  /\ lo + k - 1 \in lo + 1 .. PackFrames /\ k - 1 \in 1 .. Len(ps) /\ k \in 1 .. Len(ps)
                  /\ (lo + k - 1) - 1 = lo + (k - 1) - 1
                  /\ PackedPair(lo + k - 1)
<1>1. /\ lo \in Nat /\ lo >= 1 /\ Len(ps) \in Nat /\ Len(ps) >= 1
      /\ PackFrames \in Nat /\ lo + Len(ps) - 1 <= PackFrames
      /\ IsSeq(frames) /\ Len(frames) = PackFrames
  BY ConstantsType DEF OpenFrom, ReadyFor, IsSeq
<1> DEFINE n == lo + Len(ps) - 1
<1>2. n \in Nat /\ lo <= n /\ n <= Len(frames) /\ n - lo + 1 = Len(ps)
  BY <1>1
<1>3. /\ Len(SubSeq(frames, lo, n)) = n - lo + 1 /\ DOMAIN SubSeq(frames, lo, n) = 1 .. n - lo + 1
      /\ \A i \in 1 .. n - lo + 1 : SubSeq(frames, lo, n)[i] = frames[lo + i - 1]
  BY <1>1, <1>2, SubSeqIs
<1>4. ASSUME NEW k \in 1 .. Len(ps)
      PROVE  lo + k - 1 \in lo .. PackFrames /\ lo + k - 1 \in 1 .. PackFrames
  BY <1>1
<1>5. \A k \in 1 .. Len(ps) : Patches[lo + k - 1] = frames[lo + k - 1].patches
  BY <1>4 DEF Patches
<1>6. ASSUME NEW k \in 2 .. Len(ps)
      PROVE  /\ lo + k - 1 \in lo + 1 .. PackFrames /\ k - 1 \in 1 .. Len(ps) /\ k \in 1 .. Len(ps)
             /\ (lo + k - 1) - 1 = lo + (k - 1) - 1
             /\ PackedPair(lo + k - 1)
  <2>1. /\ lo + k - 1 \in lo + 1 .. PackFrames /\ k - 1 \in 1 .. Len(ps) /\ k \in 1 .. Len(ps)
        /\ (lo + k - 1) - 1 = lo + (k - 1) - 1
    BY <1>1
  <2>2. PICK f : f = lo + k - 1
    OBVIOUS
  <2>3. f \in lo + 1 .. PackFrames /\ f \in lo .. PackFrames /\ f - 1 \in lo .. PackFrames
        /\ f \in 2 .. PackFrames
    BY <1>1, <2>1, <2>2
  <2>4. PackedPair(f)
    BY <2>3 DEF PackedPair, OpenFrom
  <2> QED
    BY <2>1, <2>2, <2>4
<1> QED
  BY <1>1, <1>2, <1>3, <1>4, <1>5, <1>6

\* The global patches of a frame are matched, in their order, to those of the
\* frame before.
LEMMA GlobalsMatched ==
  ASSUME NEW lo, OpenFrom(lo), NEW ps, ReadyFor(lo, ps), NEW k \in 2 .. Len(ps)
  PROVE  LET s == Ascending(ps[k].globals)
             t == Ascending(ps[k - 1].globals)
         IN  /\ Len(t) = Len(s) /\ Len(s) \in Nat
             /\ \A i \in 1 .. Len(s) :
                  /\ s[i] \in ps[k].globals /\ t[i] \in ps[k - 1].globals
                  /\ t[i] = Named(Patches, lo + k - 1, s[i])
<1> DEFINE G == ps[k].globals
           H == ps[k - 1].globals
           f == lo + k - 1
           g == [x \in G |-> Named(Patches, f, x)]
<1>1. /\ PackedPair(f) /\ k - 1 \in 1 .. Len(ps) /\ k \in 1 .. Len(ps)
      /\ f - 1 = lo + (k - 1) - 1
      /\ Patches[f] = frames[f].patches /\ Patches[f - 1] = frames[f - 1].patches
  BY SubFrames
<1>2. /\ Len(Patches[f]) \in Nat /\ Len(Patches[f - 1]) \in Nat
  BY <1>1, PairFacts
<1>3. G \subseteq 1 .. Len(Patches[f]) /\ H \subseteq 1 .. Len(Patches[f - 1])
  BY <1>1 DEF ReadyFor, ItemsLike
<1>4. \A x \in G : g[x] \in H
  BY DEF ReadyFor, Chain
<1>5. \A y \in H : \E x \in G : g[x] = y
  BY DEF ReadyFor, Chain
<1>6. ASSUME NEW x \in G, NEW y \in G, x < y PROVE g[x] < g[y]
  <2>1. x \in 1 .. Len(Patches[f]) /\ y \in 1 .. Len(Patches[f])
    BY <1>3
  <2>2. g[y] \in 1 .. Len(Patches[f - 1])
    BY <1>3, <1>4
  <2>3. g[y] = Patches[f][y].match + 1 /\ g[x] = Patches[f][x].match + 1
    BY DEF Named
  <2>4. Patches[f][y].match \in Int /\ Patches[f][x].match \in Int
    BY <1>1, <2>1, PairFacts
  <2>5. Patches[f][y].match # Invalid
    BY <2>2, <2>3, <2>4 DEF Invalid
  <2>6. Patches[f][x].match < Patches[f][y].match
    BY <1>1, <1>6, <2>1, <2>5, PairFacts
  <2> QED
    BY <2>3, <2>4, <2>6
<1>7. \A x \in G : g[x] = Named(Patches, f, x)
  OBVIOUS
<1> HIDE DEF G, H, g
<1>8. G \subseteq Int /\ H \subseteq Int
  BY <1>2, <1>3
<1>9. PICK s : s = Ascending(G)
  OBVIOUS
<1>10. PICK t : t = Ascending(H)
  OBVIOUS
<1>11. Lists(s, G) /\ Lists(t, H)
  BY <1>2, <1>3, <1>9, <1>10, AscendingLists
<1>12. Len(t) = Len(s) /\ \A i \in 1 .. Len(s) : t[i] = g[s[i]]
  <2>1. Rises(g, G, H)
    BY <1>4, <1>5, <1>6 DEF Rises
  <2>2. IsImage(g, s, t)
    BY <1>8, <1>11, <2>1, ListsMapped
  <2> QED
    BY <2>2 DEF IsImage
<1>13. /\ Len(s) \in Nat /\ \A i \in 1 .. Len(s) : s[i] \in G
       /\ \A i \in 1 .. Len(t) : t[i] \in H
  BY <1>11 DEF Lists, IsSeq
<1> QED
  BY <1>7, <1>9, <1>10, <1>12, <1>13 DEF G, H

\* Every frame of a subcontext has the same number of them.
LEMMA SameCount ==
  ASSUME NEW lo, OpenFrom(lo), NEW ps, ReadyFor(lo, ps)
  PROVE  /\ \A k \in 1 .. Len(ps) :
              /\ Cardinality(ps[k].globals) = Cardinality(ps[1].globals)
              /\ Len(Ascending(ps[k].globals)) = Cardinality(ps[k].globals)
         /\ Cardinality(ps[1].globals) \in Nat
<1>1. Len(ps) \in Nat \ {0} /\ \A k \in 1 .. Len(ps) : lo + k - 1 \in lo .. PackFrames
  BY SubFrames
<1>2. ASSUME NEW k \in 1 .. Len(ps)
      PROVE  /\ Len(Ascending(ps[k].globals)) = Cardinality(ps[k].globals)
             /\ Cardinality(ps[k].globals) \in Nat
  <2>1. frames[lo + k - 1].patches \in Seq(PatchSet)
    BY <1>1 DEF OpenFrom
  <2>2. PICK n \in Nat : n = Len(frames[lo + k - 1].patches)
    BY <2>1
  <2>3. ps[k].globals \in SUBSET (1 .. n)
    BY <2>2 DEF ReadyFor, ItemsLike
  <2> QED
    BY <2>3, AscendingLists
<1> DEFINE S == {k \in Nat : k + 1 <= Len(ps) =>
                               Cardinality(ps[k + 1].globals) = Cardinality(ps[1].globals)}
<1>3. 0 \in S
  OBVIOUS
<1>4. ASSUME NEW k \in S PROVE k + 1 \in S
  <2> SUFFICES ASSUME k + 1 + 1 <= Len(ps)
               PROVE  Cardinality(ps[k + 1 + 1].globals) = Cardinality(ps[1].globals)
    OBVIOUS
  <2>1. k + 1 \in 1 .. Len(ps) /\ k + 1 + 1 \in 2 .. Len(ps) /\ (k + 1 + 1) - 1 = k + 1
        /\ k + 1 + 1 \in 1 .. Len(ps)
    BY <1>1
  <2>2. Cardinality(ps[k + 1].globals) = Cardinality(ps[1].globals)
    BY <1>1, <2>1
  <2>3. Len(Ascending(ps[k + 1].globals)) = Len(Ascending(ps[k + 1 + 1].globals))
    BY <2>1, GlobalsMatched
  <2> QED
    BY <1>2, <2>1, <2>2, <2>3
<1>5. S = Nat
  <2>1. S \in SUBSET Nat
    OBVIOUS
  <2> HIDE DEF S
  <2> QED
    BY <1>3, <1>4, <2>1, SetInduction
<1>6. ASSUME NEW k \in 1 .. Len(ps)
      PROVE  Cardinality(ps[k].globals) = Cardinality(ps[1].globals)
  <2>1. k - 1 \in Nat /\ (k - 1) + 1 = k /\ k <= Len(ps)
    BY <1>1
  <2>2. k - 1 \in S
    BY <1>5, <2>1
  <2> QED
    BY <2>1, <2>2
<1>7. 1 \in 1 .. Len(ps)
  BY <1>1
<1> QED
  BY <1>2, <1>6, <1>7

-----------------------------------------------------------------------------
(***************************************************************************)
(* A finished subcontext, frame by frame.                                  *)
(***************************************************************************)
Order(ps, k) == GlobalsFirst(Len(ps[k].items), ps[k].globals)

\* A missed points patch moves to the row of the packing.
MissedMoved(m, p) ==
  IF m = <<>> \/ opt.separate THEN m ELSE <<[m[1] EXCEPT !.v0 = p.row]>>

\* The patch p takes the place of the item q.
PlacedAs(p, q) == [shape |-> q.shape, match |-> p.match,
                   u0 |-> q.u0, v0 |-> q.v0, turn |-> q.turn]

\* new is the frame old with the packing p.
IsTaken(new, old, p) ==
  /\ IsFrame(new)
  /\ new.laid = old.laid /\ new.matches = old.matches
  /\ new.width = p.width /\ new.height = p.height
  /\ new.missed = MissedMoved(old.missed, p)
  /\ new.patches = [i \in 1 .. Len(old.patches) |-> PlacedAs(old.patches[i], p.items[i])]
  /\ IsSeq(new.patches) /\ Len(new.patches) = Len(old.patches)
  /\ DOMAIN new.patches = 1 .. Len(old.patches)

\* A frame with the places of a packing.
LEMMA TakenIs ==
  ASSUME NEW old, IsFrame(old), old.patches \in Seq(PatchSet),
         NEW p, ItemsLike(old.patches, p)
  PROVE  IsTaken(Taken(old, p), old, p)
<1> DEFINE cur == old.patches
           list == [i \in DOMAIN cur |->
                      [cur[i] EXCEPT !.shape = p.items[i].shape, !.u0 = p.items[i].u0,
                                     !.v0 = p.items[i].v0, !.turn = p.items[i].turn]]
           made == [i \in 1 .. Len(cur) |-> PlacedAs(cur[i], p.items[i])]
<1>1. DOMAIN cur = 1 .. Len(cur) /\ Len(cur) \in Nat
      /\ \A i \in 1 .. Len(cur) : cur[i] \in PatchSet
  OBVIOUS
<1>2. ASSUME NEW i \in 1 .. Len(cur)
      PROVE  [cur[i] EXCEPT !.shape = p.items[i].shape, !.u0 = p.items[i].u0,
                            !.v0 = p.items[i].v0, !.turn = p.items[i].turn]
               = PlacedAs(cur[i], p.items[i])
  <2>1. PICK q \in PatchSet : q = cur[i]
    BY <1>1
  <2>3. PICK it : it = p.items[i]
    OBVIOUS
  <2>4. [q EXCEPT !.shape = it.shape, !.u0 = it.u0, !.v0 = it.v0, !.turn = it.turn]
          = PlacedAs(q, it)
    <3>1. PICK r : r = [q EXCEPT !.shape = it.shape, !.u0 = it.u0, !.v0 = it.v0,
                                 !.turn = it.turn]
      OBVIOUS
    <3>2. r \in [shape : {it.shape}, match : {q.match}, u0 : {it.u0}, v0 : {it.v0},
                 turn : {it.turn}]
      BY <2>1, <3>1 DEF PatchSet
    <3>3. r = PlacedAs(q, it)
      BY <3>2 DEF PlacedAs
    <3> QED
      BY <3>1, <3>3
  <2> QED
    BY <2>1, <2>3, <2>4
<1>3. list = made
  BY <1>1, <1>2
<1>4. made \in [1 .. Len(cur) -> {PlacedAs(cur[i], p.items[i]) : i \in 1 .. Len(cur)}]
  OBVIOUS
<1>5. IsSeq(made) /\ Len(made) = Len(cur) /\ DOMAIN made = 1 .. Len(cur)
  <2>1. Len(made) = Len(cur) /\ DOMAIN made = 1 .. Len(cur)
    BY <1>1, <1>4, FunctionIsSeq
  <2> QED
    BY <1>1, <2>1 DEF IsSeq
<1>6. Taken(old, p) = [old EXCEPT !.patches = list, !.width = p.width, !.height = p.height,
                                  !.missed = MissedMoved(old.missed, p)]
  BY DEF Taken, MissedMoved, IsFrame
<1> HIDE DEF list, made
<1>7. Taken(old, p) = [patches |-> list, matches |-> old.matches,
                       missed |-> MissedMoved(old.missed, p), laid |-> old.laid,
                       width |-> p.width, height |-> p.height]
  BY <1>6 DEF IsFrame
<1>8. PICK new : new = Taken(old, p)
  OBVIOUS
<1>9. IsFrame(new) /\ new.patches = made /\ new.laid = old.laid /\ new.matches = old.matches
      /\ new.width = p.width /\ new.height = p.height
      /\ new.missed = MissedMoved(old.missed, p)
  BY <1>3, <1>7, <1>8 DEF IsFrame
<1> QED
  BY <1>5, <1>8, <1>9 DEF IsTaken, made

\* The patches of the frames of a subcontext that is finished.
TakenOf(lo, ps) ==
  [k \in 1 .. Len(ps) |-> Taken(frames[lo + k - 1], ps[k])]

\* The frames of a subcontext with the places of their packings.
LEMMA TakenFrames ==
  ASSUME NEW lo, OpenFrom(lo), NEW ps, ReadyFor(lo, ps), NEW k \in 1 .. Len(ps)
  PROVE  /\ IsTaken(TakenOf(lo, ps)[k], frames[lo + k - 1], ps[k])
         /\ Len(ps[k].items) = Len(frames[lo + k - 1].patches)
         /\ Len(ps[k].items) \in Nat
         /\ ps[k].globals \in SUBSET (1 .. Len(ps[k].items))
         /\ DOMAIN TakenOf(lo, ps)[k].patches = 1 .. Len(ps[k].items)
         /\ \A i \in 1 .. Len(ps[k].items) :
              TakenOf(lo, ps)[k].patches[i].match = frames[lo + k - 1].patches[i].match
<1>1. lo + k - 1 \in lo .. PackFrames
  BY SubFrames
<1>2. PICK old : old = frames[lo + k - 1]
  OBVIOUS
<1>3. PICK p : p = ps[k]
  OBVIOUS
<1>4. IsFrame(old) /\ old.patches \in Seq(PatchSet)
  BY <1>1, <1>2 DEF OpenFrom
<1>5. ItemsLike(old.patches, p)
  BY <1>2, <1>3 DEF ReadyFor
<1>6. PICK new : new = Taken(old, p)
  OBVIOUS
<1>7. IsTaken(new, old, p)
  BY <1>4, <1>5, <1>6, TakenIs
<1>8. TakenOf(lo, ps)[k] = new
  BY <1>2, <1>3, <1>6 DEF TakenOf
<1>9. Len(p.items) = Len(old.patches) /\ p.globals \subseteq 1 .. Len(old.patches)
      /\ Len(old.patches) \in Nat
  BY <1>4, <1>5 DEF ItemsLike
<1>10. DOMAIN new.patches = 1 .. Len(p.items)
  BY <1>7, <1>9 DEF IsTaken
<1>11. \A i \in 1 .. Len(p.items) : new.patches[i].match = old.patches[i].match
  BY <1>7, <1>9 DEF IsTaken, PlacedAs
<1> QED
  BY <1>2, <1>3, <1>7, <1>8, <1>9, <1>10, <1>11

\* Two patches do not name the same patch of the frame before.
LEMMA SameNamed ==
  ASSUME NEW f, PackedPair(f), NEW x \in 1 .. Len(frames[f].patches),
         NEW y \in 1 .. Len(frames[f].patches),
         Named(Patches, f, x) = Named(Patches, f, y), Named(Patches, f, x) # 0
  PROVE  x = y
<1>1. /\ frames[f].patches[x].match \in Int /\ frames[f].patches[y].match \in Int
      /\ Patches[f] = frames[f].patches
  BY PairFacts
<1>2. /\ frames[f].patches[x].match = frames[f].patches[y].match
      /\ frames[f].patches[x].match # Invalid
  BY <1>1 DEF Named, Invalid
<1> QED
  BY <1>2, MatchedOnce

\* The new order of the patches of a frame of a subcontext.
LEMMA NewOrderIs ==
  ASSUME NEW lo, OpenFrom(lo), NEW ps, ReadyFor(lo, ps), NEW k \in 1 .. Len(ps)
  PROVE  NewOrder(TakenOf(lo, ps), ps, k) = Order(ps, k)
<1> DEFINE taken == TakenOf(lo, ps)
           N == Len(ps[k].items)
           G == ps[k].globals
           f == lo + k - 1
<1>1. DOMAIN taken[k].patches = 1 .. N
      /\ \A i \in 1 .. N : taken[k].patches[i].match = frames[f].patches[i].match
  BY TakenFrames
<1>2. N \in Nat /\ G \in SUBSET (1 .. N)
  BY TakenFrames
<1>3. CASE k = 1
  BY <1>1, <1>3 DEF NewOrder, Order, GlobalsFirst
<1>4. CASE k # 1
  <2> DEFINE H == ps[k - 1].globals
             of(m) == {i \in G : taken[k].patches[i].match = m - 1}
             D == DOMAIN taken[k - 1].patches
             heads == Ascending({m \in D : of(m) # {}})
             s == Ascending(G)
             list == [j \in DOMAIN heads |-> CHOOSE i \in of(heads[j]) :
                                               \A l \in of(heads[j]) : i <= l]
  <2>1. k \in 2 .. Len(ps) /\ k - 1 \in 1 .. Len(ps)
    BY <1>4, SubFrames
  <2>2. /\ PackedPair(f) /\ f - 1 = lo + (k - 1) - 1
        /\ Patches[f] = frames[f].patches
    BY <2>1, SubFrames
  <2>3. /\ D = 1 .. Len(ps[k - 1].items) /\ H \subseteq D
    BY <2>1, TakenFrames
  <2>4. \A i \in G : Named(Patches, f, i) \in H /\ frames[f].patches[i].match \in Int
    <3>1. \A i \in G : Named(Patches, f, i) \in H
      BY <2>1 DEF ReadyFor, Chain
    <3>2. Len(ps[k].items) = Len(frames[f].patches)
      BY TakenFrames
    <3>3. \A i \in 1 .. N : frames[f].patches[i].match \in Int
      BY <2>2, <3>2, PairFacts
    <3> QED
      BY <1>2, <3>1, <3>3
  <2>5. ASSUME NEW i \in G, NEW m \in Int
        PROVE  i \in of(m) <=> Named(Patches, f, i) = m
    <3>1. PICK x \in Int : x = frames[f].patches[i].match
      BY <2>4
    <3>2. taken[k].patches[i].match = x /\ Named(Patches, f, i) = x + 1
      BY <1>1, <1>2, <2>2, <3>1 DEF Named
    <3>3. x = m - 1 <=> x + 1 = m
      OBVIOUS
    <3> QED
      BY <3>2, <3>3
  <2>6. D \subseteq Int
    BY <2>3
  <2>7. {m \in D : of(m) # {}} = H
    <3> HIDE DEF G, H, D
    <3>1. \A m \in H : m \in D /\ \E i \in G : Named(Patches, f, i) = m
      BY <2>1, <2>3 DEF ReadyFor, Chain, G, H
    <3>2. \A m \in H : of(m) # {}
      <4> TAKE m \in H
      <4>1. PICK i \in G : Named(Patches, f, i) = m
        BY <3>1
      <4>2. m \in Int
        BY <2>6, <3>1
      <4>3. i \in of(m)
        BY <2>5, <4>1, <4>2
      <4> QED
        BY <4>3
    <3>3. ASSUME NEW m \in D, of(m) # {} PROVE m \in H
      <4>1. PICK i : i \in of(m)
        BY <3>3
      <4>2. i \in G
        BY <4>1
      <4>3. Named(Patches, f, i) = m
        BY <2>5, <2>6, <4>1, <4>2
      <4> QED
        BY <2>4, <4>2, <4>3
    <3>4. \A m \in {m \in D : of(m) # {}} : m \in H
      BY <3>3
    <3>5. \A m \in H : m \in {m2 \in D : of(m2) # {}}
      BY <3>1, <3>2
    <3> QED
      BY <3>4, <3>5
  <2>8. heads = Ascending(H)
    BY <2>7
  <2>9. /\ Len(heads) = Len(s) /\ Len(s) \in Nat
        /\ \A j \in 1 .. Len(s) : s[j] \in G /\ heads[j] \in H /\ heads[j] = Named(Patches, f, s[j])
    <3>1. LET a == Ascending(ps[k].globals)
              b == Ascending(ps[k - 1].globals)
          IN  /\ Len(b) = Len(a) /\ Len(a) \in Nat
              /\ \A i \in 1 .. Len(a) :
                   /\ a[i] \in ps[k].globals /\ b[i] \in ps[k - 1].globals
                   /\ b[i] = Named(Patches, lo + k - 1, a[i])
      BY <2>1, GlobalsMatched
    <3>2. heads = Ascending(ps[k - 1].globals)
      BY <2>8
    <3> HIDE DEF heads
    <3> QED
      BY <3>1, <3>2
  <2>10. IsSeq(s) /\ IsSeq(heads)
    <3>1. Lists(s, G)
      BY <1>2, AscendingLists
    <3>2. PICK n \in Nat : D = 1 .. n
      BY <2>1, <2>3, TakenFrames
    <3>3. H \in SUBSET (1 .. n)
      BY <2>3, <3>2
    <3>4. Lists(Ascending(H), H)
      BY <3>3, AscendingLists
    <3> QED
      BY <2>8, <3>1, <3>4 DEF Lists
  <2>11. DOMAIN heads = 1 .. Len(s) /\ s = [j \in 1 .. Len(s) |-> s[j]]
    BY <2>9, <2>10 DEF IsSeq
  <2>12. ASSUME NEW j \in 1 .. Len(s)
         PROVE  (CHOOSE i \in of(heads[j]) : \A l \in of(heads[j]) : i <= l) = s[j]
    <3>1. s[j] \in G /\ heads[j] \in H /\ heads[j] = Named(Patches, f, s[j])
      BY <2>9
    <3>2. heads[j] \in Int /\ heads[j] \in D
      BY <2>3, <2>6, <3>1
    <3>3. s[j] \in of(heads[j])
      BY <2>5, <3>1, <3>2
    <3>4. ASSUME NEW i \in of(heads[j]) PROVE i = s[j]
      <4>1. i \in G /\ Named(Patches, f, i) = heads[j]
        <5>1. i \in G
          OBVIOUS
        <5> QED
          BY <2>5, <3>2, <5>1
      <4>2. Named(Patches, f, i) = Named(Patches, f, s[j])
        BY <3>1, <4>1
      <4>3. i \in 1 .. Len(frames[f].patches) /\ s[j] \in 1 .. Len(frames[f].patches)
        BY <1>2, <3>1, <4>1, TakenFrames
      <4>4. heads[j] # 0
        BY <2>3, <3>2
      <4> QED
        BY <2>2, <4>1, <4>2, <4>3, <4>4, SameNamed
    <3>5. s[j] \in Int
      BY <1>2, <3>1
    <3> HIDE DEF of, s, heads
    <3>6. PICK S : S = of(heads[j])
      OBVIOUS
    <3>7. S = {s[j]} /\ s[j] <= s[j]
      BY <3>3, <3>4, <3>5, <3>6
    <3>8. (CHOOSE i \in S : \A l \in S : i <= l) = s[j]
      BY <3>7
    <3> QED
      BY <3>6, <3>8
  <2>13. list = s
    <3> HIDE DEF of, s, heads
    <3>1. list = [j \in 1 .. Len(s) |-> s[j]]
      BY <2>11, <2>12
    <3> QED
      BY <2>11, <3>1
  <2>14. NewOrder(taken, ps, k) = list \o Ascending(1 .. N \ G)
    BY <1>1, <1>4 DEF NewOrder
  <2> QED
    BY <2>13, <2>14 DEF Order, GlobalsFirst
<1> QED
  BY <1>3, <1>4

-----------------------------------------------------------------------------
(***************************************************************************)
(* The frames of a finished subcontext, as they are then.                  *)
(***************************************************************************)
\* An item with a match.
WithMatch(q, x) == [shape |-> q.shape, match |-> x, u0 |-> q.u0, v0 |-> q.v0, turn |-> q.turn]

\* The global patches of each frame of the subcontext.
GlobalCount(ps) == Cardinality(ps[1].globals)

\* The match of the patch that comes to place j of frame k.
MatchAt(lo, ps, k, j) ==
  IF k = 1 THEN Invalid
  ELSE NewMatch(frames[lo + k - 1].patches[Order(ps, k)[j]].match, j,
                GlobalCount(ps), Order(ps, k - 1))

\* The patches of frame k when the subcontext is finished.
Renewed(lo, ps, k) ==
  [j \in 1 .. Len(ps[k].items) |->
     WithMatch(ps[k].items[Order(ps, k)[j]], MatchAt(lo, ps, k, j))]

\* new is frame k when the subcontext is finished.
IsFinished(lo, ps, k, new) ==
  /\ IsFrame(new)
  /\ new.laid = frames[lo + k - 1].laid
  /\ new.width = ps[k].width /\ new.height = ps[k].height
  /\ new.missed = MissedMoved(frames[lo + k - 1].missed, ps[k])
  /\ new.patches = Renewed(lo, ps, k)
  /\ new.matches = IF k = 1 THEN 0
                   ELSE GlobalCount(ps)
                          + Cardinality({i \in GlobalCount(ps) + 1 .. Len(new.patches) :
                                           new.patches[i].match # Invalid})

\* A patch at its place that is given a match.
LEMMA MatchGiven ==
  ASSUME NEW p, NEW q, NEW x
  PROVE  [PlacedAs(p, q) EXCEPT !.match = x] = WithMatch(q, x)
<1>1. PICK r : r = PlacedAs(p, q)
  OBVIOUS
<1>2. PICK s : s = [r EXCEPT !.match = x]
  OBVIOUS
<1>3. r \in [shape : {q.shape}, match : {p.match}, u0 : {q.u0}, v0 : {q.v0}, turn : {q.turn}]
  BY <1>1 DEF PlacedAs
<1>4. s \in [shape : {q.shape}, match : {x}, u0 : {q.u0}, v0 : {q.v0}, turn : {q.turn}]
  BY <1>2, <1>3
<1>5. s = WithMatch(q, x)
  BY <1>4 DEF WithMatch
<1> QED
  BY <1>1, <1>2, <1>5

\* Every number is at one place of the order.
LEMMA OrderRange ==
  ASSUME NEW lo, OpenFrom(lo), NEW ps, ReadyFor(lo, ps), NEW k \in 1 .. Len(ps)
  PROVE  /\ IsOrder(Order(ps, k), Len(ps[k].items), ps[k].globals, GlobalCount(ps))
         /\ Len(ps[k].items) \in Nat /\ GlobalCount(ps) \in 0 .. Len(ps[k].items)
         /\ DOMAIN Order(ps, k) = 1 .. Len(ps[k].items)
         /\ \A j \in 1 .. Len(ps[k].items) : Order(ps, k)[j] \in 1 .. Len(ps[k].items)
<1>1. Len(ps[k].items) \in Nat /\ ps[k].globals \in SUBSET (1 .. Len(ps[k].items))
  BY TakenFrames
<1>2. Cardinality(ps[k].globals) = GlobalCount(ps)
  BY SameCount DEF GlobalCount
<1>3. PICK N \in Nat : N = Len(ps[k].items)
  BY <1>1
<1>4. PICK ord : ord = Order(ps, k)
  OBVIOUS
<1>5. IsOrder(ord, N, ps[k].globals, GlobalCount(ps))
  BY <1>1, <1>2, <1>3, <1>4, OrderIs DEF Order
<1>6. DOMAIN ord = 1 .. N /\ GlobalCount(ps) \in 0 .. N
  BY <1>5 DEF IsOrder, IsSeq
<1>7. \A j \in 1 .. N : ord[j] \in 1 .. N
  <2> TAKE j \in 1 .. N
  <2>1. CASE j \in 1 .. GlobalCount(ps)
    BY <1>1, <1>3, <1>5, <2>1 DEF IsOrder
  <2>2. CASE j \in GlobalCount(ps) + 1 .. N
    BY <1>5, <2>2 DEF IsOrder
  <2> QED
    BY <1>6, <2>1, <2>2
<1> QED
  BY <1>3, <1>4, <1>5, <1>6, <1>7

\* A subcontext of more than one frame.
LEMMA ReorderedIs ==
  ASSUME NEW lo, OpenFrom(lo), NEW ps, ReadyFor(lo, ps), NEW k \in 1 .. Len(ps)
  PROVE  IsFinished(lo, ps, k, Reordered(TakenOf(lo, ps), ps, k))
<1> DEFINE taken == TakenOf(lo, ps)
           N == Len(ps[k].items)
           ord == Order(ps, k)
           count == Cardinality(ps[Len(ps)].globals)
           new == [i \in DOMAIN ord |->
                     [taken[k].patches[ord[i]] EXCEPT
                        !.match = IF k = 1 THEN Invalid
                                  ELSE NewMatch(@, i, count, NewOrder(taken, ps, k - 1))]]
<1>1. Len(ps) \in Nat \ {0}
  BY SubFrames
<1>2. count = GlobalCount(ps)
  <2>1. Len(ps) \in 1 .. Len(ps)
    BY <1>1
  <2> QED
    BY <2>1, SameCount DEF GlobalCount
<1>3. PICK old : old = frames[lo + k - 1]
  OBVIOUS
<1>4. PICK t : t = taken[k]
  OBVIOUS
<1>5. IsTaken(t, old, ps[k]) /\ N = Len(old.patches) /\ N \in Nat
  BY <1>3, <1>4, TakenFrames
<1>6. DOMAIN ord = 1 .. N /\ \A j \in 1 .. N : ord[j] \in 1 .. N
  BY OrderRange
<1>7. k # 1 => NewOrder(taken, ps, k - 1) = Order(ps, k - 1)
  <2>1. k # 1 => k - 1 \in 1 .. Len(ps)
    BY <1>1
  <2> QED
    BY <2>1, NewOrderIs
<1>8. \A i \in 1 .. N : t.patches[i] = PlacedAs(old.patches[i], ps[k].items[i])
  BY <1>5 DEF IsTaken
<1>9. ASSUME NEW j \in 1 .. N
      PROVE  [t.patches[ord[j]] EXCEPT
                !.match = IF k = 1 THEN Invalid
                          ELSE NewMatch(@, j, count, NewOrder(taken, ps, k - 1))]
               = WithMatch(ps[k].items[ord[j]], MatchAt(lo, ps, k, j))
  <2>1. PICK i \in 1 .. N : i = ord[j]
    BY <1>6
  <2>2. t.patches[i] = PlacedAs(old.patches[i], ps[k].items[i])
    BY <1>8
  <2>3. t.patches[i].match = old.patches[i].match
    BY <2>2 DEF PlacedAs
  <2>4. (IF k = 1 THEN Invalid
         ELSE NewMatch(t.patches[i].match, j, count, NewOrder(taken, ps, k - 1)))
          = MatchAt(lo, ps, k, j)
    BY <1>2, <1>3, <1>7, <2>1, <2>3 DEF MatchAt
  <2>5. PICK x : x = MatchAt(lo, ps, k, j)
    OBVIOUS
  <2>6. [t.patches[i] EXCEPT !.match = x] = WithMatch(ps[k].items[i], x)
    BY <2>2, MatchGiven
  <2> QED
    BY <2>1, <2>4, <2>5, <2>6
<1>10. new = Renewed(lo, ps, k)
  BY <1>4, <1>6, <1>9 DEF Renewed
<1>11. Len(new) = N
  <2>1. Renewed(lo, ps, k) \in
          [1 .. N -> {WithMatch(ps[k].items[ord[j]], MatchAt(lo, ps, k, j)) : j \in 1 .. N}]
    BY DEF Renewed
  <2> HIDE DEF new
  <2> QED
    BY <1>5, <1>10, <2>1, FunctionIsSeq
<1> DEFINE matches == IF k = 1 THEN 0
                      ELSE count + Cardinality({i \in count + 1 .. Len(new) :
                                                  new[i].match # Invalid})
<1>12. NewOrder(taken, ps, k) = ord
  BY NewOrderIs
<1>13. Reordered(taken, ps, k) = [taken[k] EXCEPT !.patches = new, !.matches = matches]
  BY <1>12 DEF Reordered
<1> HIDE DEF new, taken, matches, ord
<1>14. PICK a, b, c, d, e, g :
         t = [patches |-> a, matches |-> b, missed |-> c, laid |-> d, width |-> e, height |-> g]
  BY <1>5 DEF IsTaken, IsFrame
<1>15. PICK r : r = [t EXCEPT !.patches = new, !.matches = matches]
  OBVIOUS
<1>16. r = Reordered(taken, ps, k)
  BY <1>4, <1>13, <1>15
<1>17. r \in [patches : {new}, matches : {matches}, missed : {t.missed}, laid : {t.laid},
             width : {t.width}, height : {t.height}]
  BY <1>14, <1>15
<1>18. IsFrame(r) /\ r.patches = new /\ r.matches = matches /\ r.missed = t.missed
       /\ r.laid = t.laid /\ r.width = t.width /\ r.height = t.height
  BY <1>17 DEF IsFrame
<1>19. matches = IF k = 1 THEN 0
                 ELSE GlobalCount(ps)
                        + Cardinality({i \in GlobalCount(ps) + 1 .. Len(r.patches) :
                                         r.patches[i].match # Invalid})
  BY <1>2, <1>18 DEF matches
<1>20. IsFinished(lo, ps, k, r)
  BY <1>3, <1>5, <1>10, <1>18, <1>19 DEF IsFinished, IsTaken
<1> QED
  BY <1>16, <1>20 DEF taken

\* A subcontext of a single frame.
LEMMA SingleIs ==
  ASSUME NEW lo, OpenFrom(lo), NEW ps, ReadyFor(lo, ps), Len(ps) = 1, NEW r,
         r = [TakenOf(lo, ps)[1] EXCEPT
               !.patches = [i \in DOMAIN @ |-> [@[i] EXCEPT !.match = Invalid]],
               !.matches = 0]
  PROVE  IsFinished(lo, ps, 1, r)
<1>0. 1 \in 1 .. Len(ps) /\ lo + 1 - 1 = lo
  BY DEF OpenFrom
<1> DEFINE N == Len(ps[1].items)
<1>1. PICK old : old = frames[lo]
  OBVIOUS
<1>2. PICK t : t = TakenOf(lo, ps)[1]
  OBVIOUS
<1>3. IsTaken(t, old, ps[1]) /\ N = Len(old.patches) /\ N \in Nat
      /\ ps[1].globals \in SUBSET (1 .. N)
  BY <1>0, <1>1, <1>2, TakenFrames
<1>4. ps[1].globals = 1 .. N
  BY DEF ReadyFor
<1>5. \A j \in 1 .. N : Order(ps, 1)[j] = j
  <2>1. \A i \in 1 .. N : 1 .. i \subseteq 1 .. N
    BY <1>3
  <2> QED
    BY <1>3, <1>4, <2>1, OrderIdentity DEF Order
<1>6. \A i \in 1 .. N : [t.patches[i] EXCEPT !.match = Invalid]
                          = WithMatch(ps[1].items[i], Invalid)
  BY <1>3, MatchGiven DEF IsTaken
<1> DEFINE new == [i \in DOMAIN t.patches |-> [t.patches[i] EXCEPT !.match = Invalid]]
<1>7. new = Renewed(lo, ps, 1)
  <2>1. DOMAIN t.patches = 1 .. N
    BY <1>3 DEF IsTaken
  <2> QED
    BY <1>5, <1>6, <2>1 DEF Renewed, MatchAt
<1>8. r = [t EXCEPT !.patches = new, !.matches = 0]
  BY <1>2
<1> HIDE DEF new
<1>14. PICK a, b, c, d, e, g :
         t = [patches |-> a, matches |-> b, missed |-> c, laid |-> d, width |-> e, height |-> g]
  BY <1>3 DEF IsTaken, IsFrame
<1>9. PICK s : s = r
  OBVIOUS
<1>15. s \in [patches : {new}, matches : {0}, missed : {t.missed}, laid : {t.laid},
             width : {t.width}, height : {t.height}]
  BY <1>8, <1>9, <1>14
<1>18. IsFrame(s) /\ s.patches = new /\ s.matches = 0 /\ s.missed = t.missed
       /\ s.laid = t.laid /\ s.width = t.width /\ s.height = t.height
  BY ONLY <1>15 DEF IsFrame
<1>19. IsFinished(lo, ps, 1, s)
  BY <1>0, <1>1, <1>3, <1>7, <1>18 DEF IsFinished, IsTaken
<1> QED
  BY <1>9, <1>19

\* What Close does to the frames.
LEMMA FinishedIs ==
  ASSUME NEW lo, OpenFrom(lo), NEW ps, ReadyFor(lo, ps)
  PROVE  LET up == Update(frames, lo, ps)
         IN  /\ IsSeq(up) /\ Len(up) = PackFrames
             /\ \A k \in 1 .. Len(ps) : IsFinished(lo, ps, k, up[lo + k - 1])
             /\ \A f \in 1 .. PackFrames : f \notin lo .. lo + Len(ps) - 1 => up[f] = frames[f]
<1> DEFINE hi == lo + Len(ps) - 1
           fs == SubSeq(frames, lo, hi)
           taken == [k \in DOMAIN fs |-> Taken(fs[k], ps[k])]
           done == Finished(fs, ps)
           up == Update(frames, lo, ps)
<1>1. /\ Len(ps) \in Nat \ {0} /\ Len(fs) = Len(ps) /\ DOMAIN fs = 1 .. Len(ps)
      /\ \A k \in 1 .. Len(ps) : fs[k] = frames[lo + k - 1] /\ lo + k - 1 \in 1 .. PackFrames
  BY SubFrames
<1>2. DOMAIN frames = 1 .. PackFrames /\ PackFrames \in Nat /\ lo \in Nat \ {0}
      /\ lo + Len(ps) - 1 <= PackFrames
  BY ConstantsType DEF OpenFrom, IsSeq, ReadyFor
<1>3. taken = TakenOf(lo, ps)
  BY <1>1 DEF TakenOf
<1>4. \A k \in 1 .. Len(ps) : IsFinished(lo, ps, k, done[k])
  <2> TAKE k \in 1 .. Len(ps)
  <2>1. CASE Len(ps) = 1
    <3>1. PICK r : r = [TakenOf(lo, ps)[1] EXCEPT
                         !.patches = [i \in DOMAIN @ |-> [@[i] EXCEPT !.match = Invalid]],
                         !.matches = 0]
      OBVIOUS
    <3>2. done = <<r>>
      <4>1. taken[1] = TakenOf(lo, ps)[1]
        BY <1>3
      <4>2. done = <<[taken[1] EXCEPT
                        !.patches = [i \in DOMAIN @ |-> [@[i] EXCEPT !.match = Invalid]],
                        !.matches = 0]>>
        BY <1>1, <2>1 DEF Finished
      <4> HIDE DEF taken, done
      <4> QED
        BY <3>1, <4>1, <4>2
    <3>3. k = 1 /\ done[1] = r
      BY <2>1, <3>2
    <3>4. IsFinished(lo, ps, 1, r)
      BY <2>1, <3>1, SingleIs
    <3> QED
      BY <3>3, <3>4
  <2>2. CASE Len(ps) # 1
    <3>1. done = [i \in 1 .. Len(ps) |-> Reordered(TakenOf(lo, ps), ps, i)]
      BY <1>1, <1>3, <2>2 DEF Finished
    <3>2. done[k] = Reordered(TakenOf(lo, ps), ps, k)
      BY <3>1
    <3>3. IsFinished(lo, ps, k, Reordered(TakenOf(lo, ps), ps, k))
      BY ReorderedIs
    <3> QED
      BY <3>2, <3>3
  <2> QED
    BY <2>1, <2>2
<1>5. up = [f \in 1 .. PackFrames |-> IF f \in lo .. hi THEN done[f - lo + 1] ELSE frames[f]]
  BY <1>2 DEF Update
<1> HIDE DEF done, up
<1>6. IsSeq(up) /\ Len(up) = PackFrames
  <2>1. up \in [1 .. PackFrames -> {up[f] : f \in 1 .. PackFrames}]
    BY <1>5
  <2>2. Len(up) = PackFrames
    BY <1>2, <2>1, FunctionIsSeq
  <2>3. up = [f \in 1 .. PackFrames |-> up[f]]
    BY <1>5
  <2> QED
    BY <1>2, <2>2, <2>3 DEF IsSeq
<1>7. ASSUME NEW k \in 1 .. Len(ps) PROVE up[lo + k - 1] = done[k]
  <2>1. PICK f \in 1 .. PackFrames : f = lo + k - 1
    BY <1>1
  <2>2. f \in lo .. hi /\ f - lo + 1 = k
    BY <1>1, <1>2, <2>1
  <2> QED
    BY <1>5, <2>1, <2>2
<1>8. \A f \in 1 .. PackFrames : f \notin lo .. hi => up[f] = frames[f]
  BY <1>5
<1> QED
  BY <1>4, <1>6, <1>7, <1>8 DEF up

-----------------------------------------------------------------------------
(***************************************************************************)
(* The matches of a finished subcontext name the same patches as before.   *)
(***************************************************************************)
\* The match of the patch at place j of frame k before it was finished.
MatchWas(lo, ps, k, j) == frames[lo + k - 1].patches[Order(ps, k)[j]].match

\* What becomes of it.
Renumbered(lo, ps, k, j) ==
  /\ j <= GlobalCount(ps) =>
       /\ MatchAt(lo, ps, k, j) = j - 1
       /\ Order(ps, k)[j] \in ps[k].globals
       /\ MatchWas(lo, ps, k, j) # Invalid
  /\ MatchWas(lo, ps, k, j) = Invalid => MatchAt(lo, ps, k, j) = Invalid
  /\ MatchWas(lo, ps, k, j) # Invalid =>
       /\ MatchAt(lo, ps, k, j) + 1 \in 1 .. Len(ps[k - 1].items)
       /\ MatchAt(lo, ps, k, j) \in Nat
       /\ Order(ps, k - 1)[MatchAt(lo, ps, k, j) + 1] = Named(Patches, lo + k - 1, Order(ps, k)[j])
       /\ j > GlobalCount(ps) => MatchAt(lo, ps, k, j) >= GlobalCount(ps)

\* The match names the same patch as before.
LEMMA RenumberedIs ==
  ASSUME NEW lo, OpenFrom(lo), NEW ps, ReadyFor(lo, ps), NEW k \in 2 .. Len(ps),
         NEW j \in 1 .. Len(ps[k].items)
  PROVE  Renumbered(lo, ps, k, j)
<1> DEFINE f == lo + k - 1
           c == GlobalCount(ps)
           ord == Order(ps, k)
           was == Order(ps, k - 1)
           N == Len(ps[k].items)
           M == Len(ps[k - 1].items)
           x == frames[f].patches[ord[j]].match
           m == MatchAt(lo, ps, k, j)
<1>1. /\ k - 1 \in 1 .. Len(ps) /\ k \in 1 .. Len(ps) /\ k # 1
      /\ PackedPair(f) /\ f - 1 = lo + (k - 1) - 1
      /\ Patches[f] = frames[f].patches
  <2>1. k # 1
    BY SubFrames
  <2> QED
    BY <2>1, SubFrames
<1>2. /\ IsOrder(ord, N, ps[k].globals, c) /\ N \in Nat /\ c \in 0 .. N
      /\ \A l \in 1 .. N : ord[l] \in 1 .. N
  BY <1>1, OrderRange
<1>3. /\ IsOrder(was, M, ps[k - 1].globals, c) /\ M \in Nat /\ c \in 0 .. M
      /\ DOMAIN was = 1 .. M /\ \A l \in 1 .. M : was[l] \in 1 .. M
  BY <1>1, OrderRange
<1>4. N = Len(frames[f].patches) /\ M = Len(frames[f - 1].patches)
  <2>1. N = Len(frames[f].patches)
    BY <1>1, TakenFrames
  <2>2. M = Len(frames[lo + (k - 1) - 1].patches)
    BY <1>1, TakenFrames
  <2> QED
    BY <1>1, <2>1, <2>2
<1>5. x \in Int /\ (x # Invalid => x + 1 \in 1 .. M)
  <2>1. ord[j] \in 1 .. Len(frames[f].patches)
    BY <1>2, <1>4
  <2>2. /\ \A i \in 1 .. Len(frames[f].patches) : frames[f].patches[i].match \in Int
        /\ \A i \in 1 .. Len(frames[f].patches) :
             frames[f].patches[i].match # Invalid =>
                    frames[f].patches[i].match + 1 \in 1 .. Len(frames[f - 1].patches)
    BY <1>1, PairFacts
  <2> QED
    BY <1>4, <2>1, <2>2
<1>6. Named(Patches, f, ord[j]) = x + 1 /\ MatchWas(lo, ps, k, j) = x
  BY <1>1 DEF Named, MatchWas
<1>7. m = NewMatch(x, j, c, was)
  BY <1>1 DEF MatchAt
<1>8. \A i \in 1 .. c : was[i] = Named(Patches, f, ord[i])
  <2>1. LET a == Ascending(ps[k].globals)
            b == Ascending(ps[k - 1].globals)
        IN  /\ Len(b) = Len(a) /\ Len(a) \in Nat
            /\ \A i \in 1 .. Len(a) : b[i] = Named(Patches, f, a[i])
    BY GlobalsMatched
  <2>2. /\ ps[k].globals \in SUBSET (1 .. N) /\ ps[k - 1].globals \in SUBSET (1 .. M)
        /\ Cardinality(ps[k].globals) = c /\ Cardinality(ps[k - 1].globals) = c
    BY <1>1, TakenFrames, SameCount DEF GlobalCount
  <2>3. /\ Len(Ascending(ps[k].globals)) = c
        /\ \A i \in 1 .. c : ord[i] = Ascending(ps[k].globals)[i]
    BY <1>2, <2>2, OrderIs DEF Order
  <2>4. \A i \in 1 .. c : was[i] = Ascending(ps[k - 1].globals)[i]
    BY <1>3, <2>2, OrderIs DEF Order
  <2> QED
    BY <2>1, <2>3, <2>4
<1>9. CASE j <= c
  <2>1. j \in 1 .. c /\ c \in 0 .. M
    BY <1>2, <1>3, <1>9
  <2>2. m = j - 1
    BY <1>7, <1>9 DEF NewMatch
  <2>3. m + 1 = j /\ m + 1 \in 1 .. M /\ m \in Nat
    BY <1>3, <2>1, <2>2
  <2>4. was[m + 1] = x + 1
    BY <1>6, <1>8, <2>1, <2>3
  <2>5. ord[j] \in ps[k].globals
    BY <1>2, <2>1 DEF IsOrder
  <2>6. x # Invalid
    <3>1. was[m + 1] \in 1 .. M
      BY <1>3, <2>3
    <3> QED
      BY <1>5, <2>4, <3>1 DEF Invalid
  <2>7. ~(j > c)
    BY <1>2, <1>9
  <2> HIDE DEF m, c, ord, was, x
  <2> QED
    BY <1>6, <1>9, <2>2, <2>3, <2>4, <2>5, <2>6, <2>7 DEF Renumbered, m, c, ord, was
<1>10. CASE j > c
  <2> DEFINE named == {l \in 1 .. M : l > c /\ was[l] = x + 1}
  <2>1. m = IF named = {} THEN x ELSE (CHOOSE l \in named : TRUE) - 1
    <3>1. ~(j <= c)
      BY <1>2, <1>10
    <3> HIDE DEF was, c, x, m
    <3> QED
      BY <1>3, <1>7, <3>1 DEF NewMatch
  <2>2. x = Invalid => m = Invalid
    <3>1. x = Invalid => \A l \in 1 .. M : was[l] # x + 1
      BY <1>3 DEF Invalid
    <3>2. x = Invalid => named = {}
      BY <3>1
    <3> QED
      BY <2>1, <3>2
  <2>3. ASSUME x # Invalid
        PROVE  m + 1 \in 1 .. M /\ m \in Nat /\ m >= c /\ was[m + 1] = x + 1
    <3>1. x + 1 \notin ps[k - 1].globals
      <4>1. SUFFICES ASSUME x + 1 \in ps[k - 1].globals PROVE FALSE
        OBVIOUS
      <4>2. PICK i \in ps[k].globals : Named(Patches, f, i) = x + 1
        BY <4>1 DEF ReadyFor, Chain
      <4>3. i \in 1 .. N /\ ord[j] \in 1 .. N
        BY <1>1, <1>2, TakenFrames
      <4>4. x + 1 # 0
        BY <1>5, <2>3
      <4>5. i = ord[j]
        BY <1>1, <1>4, <1>6, <4>2, <4>3, <4>4, SameNamed
      <4>6. ord[j] \in (1 .. N) \ ps[k].globals
        <5>1. j \in c + 1 .. N
          BY <1>2, <1>10
        <5> QED
          BY <1>2, <5>1 DEF IsOrder
      <4> QED
        BY <4>2, <4>5, <4>6
    <3>2. x + 1 \in (1 .. M) \ ps[k - 1].globals
      BY <1>5, <2>3, <3>1
    <3>3. PICK l \in c + 1 .. M : was[l] = x + 1
      BY <1>3, <3>2 DEF IsOrder
    <3>4. l \in named
      BY <1>3, <3>3
    <3> HIDE DEF named, m
    <3>5. PICK n : n = CHOOSE l2 \in named : TRUE
      OBVIOUS
    <3>6. n \in named /\ m = n - 1
      BY <2>1, <3>4, <3>5
    <3>7. n \in 1 .. M /\ n > c /\ was[n] = x + 1
      BY <3>6 DEF named
    <3>8. n - 1 + 1 = n /\ n - 1 \in Nat /\ n - 1 >= c
      BY <1>3, <3>7
    <3> QED
      BY <3>6, <3>7, <3>8
  <2>4. ~(j <= c)
    BY <1>2, <1>10
  <2> HIDE DEF m, c, ord, was, x, named
  <2> QED
    BY <1>6, <2>2, <2>3, <2>4 DEF Renumbered, m, c, ord, was
<1> QED
  BY <1>2, <1>9, <1>10

-----------------------------------------------------------------------------
(***************************************************************************)
(* Finishing only reorders.                                                *)
(***************************************************************************)
\* The patch of frame f at place j is the one that was at place i before.
RemainsAs(up, f, i, j) ==
  /\ up[f].patches[j].shape.view = frames[f].patches[i].shape.view
  /\ up[f].patches[j].shape.at = frames[f].patches[i].shape.at

\* The patches that come to a place.
LEMMA PatchAt ==
  ASSUME NEW lo, OpenFrom(lo), NEW ps, ReadyFor(lo, ps), NEW k \in 1 .. Len(ps),
         NEW j \in 1 .. Len(ps[k].items), NEW up, up = Update(frames, lo, ps)
  PROVE  /\ up[lo + k - 1].patches[j] = WithMatch(ps[k].items[Order(ps, k)[j]], MatchAt(lo, ps, k, j))
         /\ DOMAIN up[lo + k - 1].patches = 1 .. Len(ps[k].items)
         /\ IsSeq(up[lo + k - 1].patches)
         /\ Len(up[lo + k - 1].patches) = Len(ps[k].items)
         /\ RemainsAs(up, lo + k - 1, Order(ps, k)[j], j)
<1>1. IsFinished(lo, ps, k, up[lo + k - 1])
  BY FinishedIs
<1>2. up[lo + k - 1].patches = Renewed(lo, ps, k)
  BY <1>1 DEF IsFinished
<1>3. /\ Len(ps[k].items) \in Nat /\ Order(ps, k)[j] \in 1 .. Len(ps[k].items)
  BY OrderRange
<1>4. PICK N \in Nat : N = Len(ps[k].items)
  BY <1>3
<1>5. PICK new : new = up[lo + k - 1].patches
  OBVIOUS
<1>6. new = [l \in 1 .. N |-> WithMatch(ps[k].items[Order(ps, k)[l]], MatchAt(lo, ps, k, l))]
  BY <1>2, <1>4, <1>5 DEF Renewed
<1>7. IsSeq(new) /\ Len(new) = N /\ DOMAIN new = 1 .. N
  <2>1. new \in [1 .. N -> {new[l] : l \in 1 .. N}]
    BY <1>6
  <2>2. Len(new) = N
    BY <2>1, FunctionIsSeq
  <2> QED
    BY <1>4, <1>6, <2>2 DEF IsSeq
<1>8. new[j] = WithMatch(ps[k].items[Order(ps, k)[j]], MatchAt(lo, ps, k, j))
  BY <1>4, <1>6
<1>9. new[j].shape = ps[k].items[Order(ps, k)[j]].shape
  BY <1>8 DEF WithMatch
<1>10. /\ \A i \in 1 .. N : /\ ps[k].items[i].shape.view = frames[lo + k - 1].patches[i].shape.view
                            /\ ps[k].items[i].shape.at = frames[lo + k - 1].patches[i].shape.at
  <2>1. ItemsLike(frames[lo + k - 1].patches, ps[k])
    BY DEF ReadyFor
  <2> QED
    BY <1>4, <2>1 DEF ItemsLike
<1>11. RemainsAs(up, lo + k - 1, Order(ps, k)[j], j)
  BY <1>3, <1>4, <1>5, <1>9, <1>10 DEF RemainsAs
<1> QED
  BY <1>4, <1>5, <1>7, <1>8, <1>11

\* A way from the old list to the new one.
IsWay(lo, ps, up, k, order) ==
  LET f == lo + k - 1
  IN  /\ {order[i] : i \in DOMAIN order} = DOMAIN up[f].patches
      /\ \A i \in DOMAIN order :
           LET old == frames[f].patches[i].match
               new == up[f].patches[order[i]].match
           IN  /\ RemainsAs(up, f, i, order[i])
               /\ k > 1 /\ old # Invalid => RemainsAs(up, f - 1, old + 1, new + 1)
      /\ k = Len(ps) => \A i \in DOMAIN order : order[i] = i

\* Each frame that is finished is the one before in another order.
LEMMA FinishedWay ==
  ASSUME NEW lo, OpenFrom(lo), NEW ps, ReadyFor(lo, ps), NEW k \in 1 .. Len(ps),
         NEW up, up = Update(frames, lo, ps)
  PROVE  \E order \in [DOMAIN frames[lo + k - 1].patches -> DOMAIN up[lo + k - 1].patches] :
           IsWay(lo, ps, up, k, order)
<1> DEFINE f == lo + k - 1
           ord == Order(ps, k)
           N == Len(ps[k].items)
           order == [i \in 1 .. N |-> CHOOSE j \in 1 .. N : ord[j] = i]
<1>1. /\ IsOrder(ord, N, ps[k].globals, GlobalCount(ps)) /\ N \in Nat
      /\ \A j \in 1 .. N : ord[j] \in 1 .. N
      /\ GlobalCount(ps) \in 0 .. N
  BY OrderRange
<1>2. ps[k].globals \in SUBSET (1 .. N) /\ N = Len(frames[f].patches)
  BY TakenFrames
<1>3. f \in lo .. PackFrames /\ Len(ps) \in Nat
  BY SubFrames
<1>4. DOMAIN frames[f].patches = 1 .. N
  <2>1. frames[f].patches \in Seq(PatchSet)
    BY <1>3 DEF OpenFrom
  <2> QED
    BY <1>2, <2>1
<1>5. ASSUME NEW i \in 1 .. N
      PROVE  order[i] \in 1 .. N /\ ord[order[i]] = i
  <2>1. \E j \in 1 .. N : ord[j] = i
    <3>1. CASE i \in ps[k].globals
      <4>1. PICK j \in 1 .. GlobalCount(ps) : ord[j] = i
        BY <1>1, <3>1 DEF IsOrder
      <4>2. j \in 1 .. N
        BY <1>1
      <4> QED
        BY <4>1, <4>2
    <3>2. CASE i \notin ps[k].globals
      <4>1. PICK j \in GlobalCount(ps) + 1 .. N : ord[j] = i
        BY <1>1, <3>2 DEF IsOrder
      <4>2. j \in 1 .. N
        BY <1>1
      <4> QED
        BY <4>1, <4>2
    <3> QED
      BY <3>1, <3>2
  <2> HIDE DEF ord, N
  <2> QED
    BY <2>1
<1>6. ASSUME NEW j \in 1 .. N PROVE order[ord[j]] = j /\ ord[j] \in 1 .. N
  <2>1. ord[j] \in 1 .. N
    BY <1>1
  <2>2. order[ord[j]] \in 1 .. N /\ ord[order[ord[j]]] = ord[j]
    BY <1>5, <2>1
  <2> HIDE DEF order
  <2>3. order[ord[j]] = j
    BY <1>1, <1>2, <2>2, OrderOnce DEF Order
  <2> QED
    BY <2>1, <2>3
<1>7. DOMAIN up[f].patches = 1 .. N
  <2>1. IsFinished(lo, ps, k, up[f])
    BY FinishedIs
  <2> QED
    BY <2>1 DEF IsFinished, Renewed
<1>8. order \in [1 .. N -> 1 .. N] /\ DOMAIN order = 1 .. N
  BY <1>5
<1> HIDE DEF order
<1>9. {order[i] : i \in DOMAIN order} = DOMAIN up[f].patches
  <2> DEFINE S == {order[i] : i \in 1 .. N}
  <2>1. \A j \in S : j \in 1 .. N
    BY <1>5
  <2>2. \A j \in 1 .. N : j \in S
    BY <1>6
  <2> HIDE DEF S
  <2>3. S = 1 .. N
    BY <2>1, <2>2
  <2> QED
    BY <1>7, <1>8, <2>3 DEF S
<1>10. ASSUME NEW i \in 1 .. N
       PROVE  LET old == frames[f].patches[i].match
                  new == up[f].patches[order[i]].match
              IN  /\ RemainsAs(up, f, i, order[i])
                  /\ k > 1 /\ old # Invalid => RemainsAs(up, f - 1, old + 1, new + 1)
  <2>1. PICK j \in 1 .. N : j = order[i] /\ ord[j] = i
    BY <1>5
  <2>2. RemainsAs(up, f, i, j)
    BY <2>1, PatchAt
  <2>3. up[f].patches[j].match = MatchAt(lo, ps, k, j)
    <3>1. up[f].patches[j] = WithMatch(ps[k].items[ord[j]], MatchAt(lo, ps, k, j))
      BY PatchAt
    <3> QED
      BY <3>1 DEF WithMatch
  <2>4. ASSUME k > 1, frames[f].patches[i].match # Invalid
        PROVE  RemainsAs(up, f - 1, frames[f].patches[i].match + 1, MatchAt(lo, ps, k, j) + 1)
    <3>1. k \in 2 .. Len(ps)
      BY <1>3, <2>4
    <3>2. Renumbered(lo, ps, k, j)
      BY <3>1, RenumberedIs
    <3>3. MatchWas(lo, ps, k, j) = frames[f].patches[i].match
      BY <2>1 DEF MatchWas
    <3>4. /\ k - 1 \in 1 .. Len(ps) /\ f - 1 = lo + (k - 1) - 1 /\ Patches[f] = frames[f].patches
      BY <3>1, SubFrames
    <3>5. PICK m : m = MatchAt(lo, ps, k, j) + 1
      OBVIOUS
    <3>6. m \in 1 .. Len(ps[k - 1].items) /\ Order(ps, k - 1)[m] = Named(Patches, f, ord[j])
      BY <2>4, <3>2, <3>3, <3>5 DEF Renumbered
    <3>7. Named(Patches, f, ord[j]) = frames[f].patches[i].match + 1
      BY <2>1, <3>4 DEF Named
    <3>8. RemainsAs(up, lo + (k - 1) - 1, Order(ps, k - 1)[m], m)
      BY <3>4, <3>6, PatchAt
    <3> QED
      BY <3>4, <3>5, <3>6, <3>7, <3>8
  <2> QED
    BY <2>1, <2>2, <2>3, <2>4
<1>11. ASSUME k = Len(ps), NEW i \in 1 .. N PROVE order[i] = i
  <2>1. \A x \in ps[k].globals : 1 .. x \subseteq ps[k].globals
    BY <1>11 DEF ReadyFor, Chain
  <2>2. ord[i] = i
    BY <1>1, <1>2, <2>1, OrderIdentity DEF Order
  <2> QED
    BY <1>6, <2>2
<1>12. IsWay(lo, ps, up, k, order)
  BY <1>8, <1>9, <1>10, <1>11 DEF IsWay
<1>13. order \in [DOMAIN frames[f].patches -> DOMAIN up[f].patches]
  BY <1>4, <1>7, <1>8
<1> QED
  BY <1>12, <1>13

-----------------------------------------------------------------------------
(***************************************************************************)
(* The global patches of a finished subcontext lie at one place.           *)
(***************************************************************************)
\* The first n patches of frame f and of the one before are a pair each.
AlignedAt(F, n, f) ==
  /\ n <= Len(F[f].patches)
  /\ \A i \in 1 .. n :
       LET p == F[f].patches[i]
           q == F[f - 1].patches[i]
       IN  /\ <<p.u0, p.v0, p.turn>> = <<q.u0, q.v0, q.turn>>
           /\ <<p.shape.w, p.shape.h>> = <<q.shape.w, q.shape.h>>
           /\ p.match = i - 1
           /\ Overlap(q, p) > Threshold

\* The global patches of two frames in a row, once finished.
LEMMA FinishedAligned ==
  ASSUME NEW lo, OpenFrom(lo), NEW ps, ReadyFor(lo, ps), NEW k \in 2 .. Len(ps),
         NEW up, up = Update(frames, lo, ps)
  PROVE  AlignedAt(up, GlobalCount(ps), lo + k - 1)
<1> DEFINE f == lo + k - 1
           c == GlobalCount(ps)
           ord == Order(ps, k)
           was == Order(ps, k - 1)
<1>1. /\ k - 1 \in 1 .. Len(ps) /\ k \in 1 .. Len(ps) /\ PackedPair(f)
      /\ f - 1 = lo + (k - 1) - 1 /\ Patches[f] = frames[f].patches
  BY SubFrames
<1>2. /\ c \in 0 .. Len(ps[k].items) /\ Len(ps[k].items) \in Nat
      /\ \A j \in 1 .. Len(ps[k].items) : ord[j] \in 1 .. Len(ps[k].items)
      /\ Len(ps[k].items) = Len(frames[f].patches)
  BY <1>1, OrderRange, TakenFrames
<1>3. Len(up[f].patches) = Len(ps[k].items)
  <2>1. IsFinished(lo, ps, k, up[f])
    BY <1>1, FinishedIs
  <2>2. up[f].patches = Renewed(lo, ps, k)
    BY <2>1 DEF IsFinished
  <2>3. Renewed(lo, ps, k) \in
          [1 .. Len(ps[k].items) -> {Renewed(lo, ps, k)[j] : j \in 1 .. Len(ps[k].items)}]
    BY DEF Renewed
  <2> QED
    BY <1>2, <2>2, <2>3, FunctionIsSeq
<1>4. ASSUME NEW i \in 1 .. c
      PROVE  LET p == up[f].patches[i]
                 q == up[f - 1].patches[i]
             IN  /\ <<p.u0, p.v0, p.turn>> = <<q.u0, q.v0, q.turn>>
                 /\ <<p.shape.w, p.shape.h>> = <<q.shape.w, q.shape.h>>
                 /\ p.match = i - 1
                 /\ Overlap(q, p) > Threshold
  <2>1. i \in 1 .. Len(ps[k].items) /\ i <= c /\ i \in Nat
    BY <1>2
  <2>2. Renumbered(lo, ps, k, i)
    BY <2>1, RenumberedIs
  <2>3. PICK m : m = MatchAt(lo, ps, k, i)
    OBVIOUS
  <2>4. /\ m = i - 1 /\ ord[i] \in ps[k].globals
        /\ MatchWas(lo, ps, k, i) # Invalid
        /\ m + 1 \in 1 .. Len(ps[k - 1].items)
        /\ was[m + 1] = Named(Patches, f, ord[i])
    BY <2>1, <2>2, <2>3 DEF Renumbered
  <2>5. m + 1 = i
    BY <2>1, <2>4
  <2>6. i \in 1 .. Len(ps[k - 1].items) /\ was[i] = Named(Patches, f, ord[i])
    BY <2>4, <2>5
  <2>7. PICK p : p = up[f].patches[i]
    OBVIOUS
  <2>8. PICK q : q = up[f - 1].patches[i]
    OBVIOUS
  <2>9. p = WithMatch(ps[k].items[ord[i]], m) /\ RemainsAs(up, f, ord[i], i)
    BY <1>1, <2>1, <2>3, <2>7, PatchAt
  <2>10. /\ q = WithMatch(ps[k - 1].items[was[i]], MatchAt(lo, ps, k - 1, i))
         /\ RemainsAs(up, f - 1, was[i], i)
    <3>1. /\ up[lo + (k - 1) - 1].patches[i]
               = WithMatch(ps[k - 1].items[was[i]], MatchAt(lo, ps, k - 1, i))
          /\ RemainsAs(up, lo + (k - 1) - 1, was[i], i)
      BY <1>1, <2>6, PatchAt
    <3> QED
      BY <1>1, <2>8, <3>1
  <2>11. SamePlace(ps[k].items[ord[i]], ps[k - 1].items[was[i]])
    BY <2>4, <2>6 DEF ReadyFor, Chain
  <2>12. /\ p.u0 = q.u0 /\ p.v0 = q.v0 /\ p.turn = q.turn
         /\ p.shape.w = q.shape.w /\ p.shape.h = q.shape.h /\ p.match = i - 1
    <3>1. PICK a : a = ps[k].items[ord[i]]
      OBVIOUS
    <3>2. PICK b : b = ps[k - 1].items[was[i]]
      OBVIOUS
    <3> QED
      BY <2>4, <2>9, <2>10, <2>11, <3>1, <3>2 DEF WithMatch, SamePlace
  <2>13. Overlap(q, p) > Threshold
    <3>1. /\ ord[i] \in 1 .. Len(frames[f].patches)
          /\ frames[f].patches[ord[i]].match # Invalid
          /\ was[i] = frames[f].patches[ord[i]].match + 1
      BY <1>1, <1>2, <2>1, <2>4, <2>6 DEF MatchWas, Named
    <3>2. \A j \in 1 .. Len(frames[f].patches) :
            frames[f].patches[j].match # Invalid =>
              Overlap(frames[f - 1].patches[frames[f].patches[j].match + 1],
                      frames[f].patches[j]) > Threshold
      BY <1>1, PairFacts
    <3>3. Overlap(frames[f - 1].patches[was[i]], frames[f].patches[ord[i]]) > Threshold
      BY <3>1, <3>2
    <3>4. /\ p.shape.at = frames[f].patches[ord[i]].shape.at
          /\ q.shape.at = frames[f - 1].patches[was[i]].shape.at
      BY <2>7, <2>8, <2>9, <2>10 DEF RemainsAs
    <3> QED
      BY <3>3, <3>4 DEF Overlap
  <2> QED
    BY <2>7, <2>8, <2>12, <2>13
<1> QED
  BY <1>2, <1>3, <1>4 DEF AlignedAt

-----------------------------------------------------------------------------
(***************************************************************************)
(* The packings at hand are those of the frames of the subcontext.         *)
(***************************************************************************)
SubsBelow ==
  \A s \in 1 .. Len(subs) :
    subs[s].lo \in Nat \ {0} /\ subs[s].hi \in Nat /\ subs[s].hi <= LastDone

\* The list that is laid is that of the patches cur[which[j]].
LaidFor(cur, which) ==
  /\ IsSeq(patches) /\ Len(patches) = Len(which)
  /\ \A j \in 1 .. Len(patches) :
       IsPatch(patches[j]) /\ patches[j].shape = cur[which[j]].shape

\* What is laid is the frame that is added first, or the others of a frame.
LyingLike ==
  /\ step = "first" =>
       LaidFor(frames[at].patches, [i \in 1 .. Len(frames[at].patches) |-> i])
  /\ step = "pack" => LaidFor(frames[Current].patches, Others(Current))

\* The packings of a grown subcontext, with the unions' places.
PackedLike ==
  /\ first + Len(packed) <= at + 1
  /\ \A k \in 1 .. Len(packed) :
       /\ ItemsLike(frames[first + k - 1].patches, packed[k])
       /\ packed[k].globals = GlobalsOf(first + k - 1)
       /\ \A t \in Alive : SamePlace(packed[k].items[tracks[t][k]], unions.of[t])

\* The invariant of the finished subcontexts and of what is to become one.
AlignInv ==
  /\ FollowInv /\ GlobalsAligned /\ SubsBelow /\ LyingLike
  /\ step \in Growing => ReadyFor(first, pre)
  /\ step \in {"frame", "pack", "decide"} => PackedLike

\* The frames that are not finished.
LEMMA OpenFrames ==
  ASSUME FollowInv, AllPacked
  PROVE  /\ OpenFrom(LastDone + 1) /\ LastDone \in Nat /\ LastDone <= PackFrames
         /\ Len(pre) \in Nat /\ at = 1 + LastDone + Len(pre) /\ at <= PackFrames + 1
         /\ IsSeq(subs) /\ Len(subs) \in Nat /\ DOMAIN subs = 1 .. Len(subs)
<1>1. /\ OpenInv /\ Control /\ SubContextsTile /\ PackFrames \in Nat
  BY ConstantsType DEF FollowInv, TileInv
<1>2. LastDone \in Nat /\ Len(pre) \in Nat /\ IsSeq(subs) /\ Len(subs) \in Nat
      /\ DOMAIN subs = 1 .. Len(subs)
  BY <1>1 DEF Control, IsSeq
<1>3. at = 1 + LastDone + Len(pre) /\ at <= PackFrames + 1
  BY <1>1 DEF SubContextsTile, LastDone, OpenInv
<1>4. LastDone <= PackFrames
  BY <1>1, <1>2, <1>3
<1>5. PICK lo \in Nat \ {0} : lo = LastDone + 1
  BY <1>2
<1>6. LastDone + 2 = lo + 1
  BY <1>2, <1>5
<1>7. OpenFrom(lo)
  BY <1>1, <1>5, <1>6 DEF OpenInv, OpenFrom
<1> QED
  BY <1>2, <1>3, <1>4, <1>5, <1>7

\* Frames that are finished stay as they are.
LEMMA AlignedKept ==
  ASSUME FollowInv, AllPacked, GlobalsAligned, SubsBelow, NEW s \in 1 .. Len(subs),
         NEW F, \A f \in 1 .. LastDone : F[f].patches = frames[f].patches,
         NEW f \in subs[s].lo + 1 .. subs[s].hi
  PROVE  /\ Cardinality(subs[s].globals[f - subs[s].lo + 1]) = Cardinality(subs[s].globals[1])
         /\ AlignedAt(F, Cardinality(subs[s].globals[1]), f)
<1>1. /\ subs[s].lo \in Nat \ {0} /\ subs[s].hi \in Nat /\ subs[s].hi <= LastDone
      /\ LastDone \in Nat /\ s \in DOMAIN subs
  BY OpenFrames DEF SubsBelow
<1>2. f \in 1 .. LastDone /\ f - 1 \in 1 .. LastDone
  BY <1>1
<1>3. F[f].patches = frames[f].patches /\ F[f - 1].patches = frames[f - 1].patches
  BY <1>2
<1>4. /\ Cardinality(subs[s].globals[f - subs[s].lo + 1]) = Cardinality(subs[s].globals[1])
      /\ AlignedAt(frames, Cardinality(subs[s].globals[1]), f)
  BY <1>1 DEF GlobalsAligned, AlignedAt
<1> QED
  BY <1>3, <1>4 DEF AlignedAt

\* A step that finishes no subcontext and takes no patch from a frame.
LEMMA AlignSame ==
  ASSUME FollowInv, AllPacked, GlobalsAligned, SubsBelow, UNCHANGED subs,
         \A f \in 1 .. PackFrames : frames'[f].patches = frames[f].patches
  PROVE  GlobalsAligned' /\ SubsBelow'
<1>1. LastDone' = LastDone
  BY DEF LastDone
<1>2. SubsBelow'
  BY <1>1 DEF SubsBelow
<1>3. /\ DOMAIN subs = 1 .. Len(subs) /\ LastDone \in Nat /\ LastDone <= PackFrames
      /\ PackFrames \in Nat
  BY OpenFrames, ConstantsType
<1>4. PICK F : F = frames'
  OBVIOUS
<1>5. \A f \in 1 .. LastDone : F[f].patches = frames[f].patches
  BY <1>3, <1>4
<1>6. \A s \in 1 .. Len(subs) : \A f \in subs[s].lo + 1 .. subs[s].hi :
        /\ Cardinality(subs[s].globals[f - subs[s].lo + 1]) = Cardinality(subs[s].globals[1])
        /\ AlignedAt(F, Cardinality(subs[s].globals[1]), f)
  BY <1>5, AlignedKept
<1>7. \A s \in DOMAIN subs' : \A f \in subs'[s].lo + 1 .. subs'[s].hi :
        /\ Cardinality(subs'[s].globals[f - subs'[s].lo + 1]) = Cardinality(subs'[s].globals[1])
        /\ AlignedAt(frames', Cardinality(subs'[s].globals[1]), f)
  BY <1>3, <1>4, <1>6
<1>8. GlobalsAligned'
  BY <1>7 DEF GlobalsAligned, AlignedAt, Overlap
<1> QED
  BY <1>2, <1>8

\* A packing stays one of the frames.
LEMMA ReadyNow ==
  ASSUME NEW lo, NEW ps, ReadyFor(lo, ps), first' = lo, pre' = ps,
         lo \in Nat \ {0},
         \A f \in 1 .. PackFrames : frames'[f].patches = frames[f].patches
  PROVE  ReadyFor(first, pre)'
<1>1. Patches' = Patches
  BY DEF Patches
<1>2. /\ IsSeq(ps) /\ Len(ps) >= 1 /\ lo + Len(ps) - 1 <= PackFrames
      /\ \A k \in 1 .. Len(ps) : ItemsLike(frames[lo + k - 1].patches, ps[k])
      /\ Chain(Patches, lo, ps)
      /\ Len(ps) = 1 => ps[1].globals = 1 .. Len(ps[1].items)
  BY DEF ReadyFor
<1>3. Len(ps) \in Nat /\ PackFrames \in Nat
  BY <1>2, ConstantsType DEF IsSeq
<1>4. \A k \in 1 .. Len(ps) : lo + k - 1 \in 1 .. PackFrames
  BY <1>2, <1>3
<1>5. \A k \in 1 .. Len(ps) : ItemsLike(frames'[lo + k - 1].patches, ps[k])
  BY <1>2, <1>4
<1>6. Chain(Patches', lo, ps)
  BY <1>1, <1>2
<1>7. Chain(Patches, first, pre)'
  <2>2. ASSUME NEW P, NEW a, NEW b, a = lo, b = ps, Chain(P, lo, ps) PROVE Chain(P, a, b)
    BY <2>2
  <2>3. Chain(Patches', first', pre')
    BY <1>6, <2>2
  <2> QED
    BY <2>3 DEF Chain, Named, SamePlace
<1>8. (\A k \in 1 .. Len(pre) : ItemsLike(frames[first + k - 1].patches, pre[k]))'
  BY <1>5 DEF ItemsLike, IsSeq
<1> QED
  BY <1>2, <1>7, <1>8 DEF ReadyFor, IsSeq

\* Finishing a subcontext.
LEMMA AlignClose ==
  ASSUME AlignInv, AllPacked, NEW lo, NEW ps, ReadyFor(lo, ps), lo = LastDone + 1,
         Close(lo, ps)
  PROVE  GlobalsAligned' /\ SubsBelow' /\ step' = "start" /\ packed' = <<>>
<1> DEFINE sub == [lo |-> lo, hi |-> lo + Len(ps) - 1,
                   globals |-> [k \in DOMAIN ps |-> ps[k].globals]]
<1>1. /\ subs' = Append(subs, sub) /\ step' = "start" /\ packed' = <<>>
      /\ frames' = Update(frames, lo, ps)
  BY DEF Close
<1>2. /\ OpenFrom(lo) /\ LastDone \in Nat /\ LastDone <= PackFrames
      /\ IsSeq(subs) /\ Len(subs) \in Nat /\ DOMAIN subs = 1 .. Len(subs)
      /\ FollowInv /\ GlobalsAligned /\ SubsBelow
  BY OpenFrames DEF AlignInv
<1>3. Len(ps) \in Nat \ {0} /\ lo \in Nat \ {0} /\ DOMAIN ps = 1 .. Len(ps)
      /\ PackFrames \in Nat /\ lo + Len(ps) - 1 <= PackFrames
  BY <1>2, SubFrames, ConstantsType DEF OpenFrom, ReadyFor, IsSeq
<1>4. /\ sub.lo = lo /\ sub.hi = lo + Len(ps) - 1
      /\ \A k \in 1 .. Len(ps) : sub.globals[k] = ps[k].globals
  BY <1>3
<1> HIDE DEF sub
<1>5. /\ IsSeq(subs') /\ Len(subs') = Len(subs) + 1 /\ subs' # <<>>
      /\ \A s \in 1 .. Len(subs) : subs'[s] = subs[s]
      /\ subs'[Len(subs) + 1] = sub
  BY <1>1, <1>2, AppendIs
<1>6. LastDone' = lo + Len(ps) - 1 /\ LastDone' >= LastDone
  BY <1>2, <1>3, <1>4, <1>5 DEF LastDone
<1>7. SubsBelow'
  <2>1. ASSUME NEW s \in 1 .. Len(subs')
        PROVE  subs'[s].lo \in Nat \ {0} /\ subs'[s].hi \in Nat /\ subs'[s].hi <= LastDone'
    <3>1. CASE s \in 1 .. Len(subs)
      <4>1. subs[s].lo \in Nat \ {0} /\ subs[s].hi \in Nat /\ subs[s].hi <= LastDone
        BY <1>2, <3>1 DEF SubsBelow
      <4>2. PICK d \in Nat : d = LastDone'
        BY <1>3, <1>6
      <4>3. subs[s].hi <= d
        BY <1>2, <1>6, <4>1, <4>2
      <4> QED
        BY <1>5, <3>1, <4>1, <4>2, <4>3
    <3>2. CASE s = Len(subs) + 1
      <4>1. lo + Len(ps) - 1 \in Nat
        BY <1>3
      <4> QED
        BY <1>3, <1>4, <1>5, <1>6, <3>2, <4>1
    <3> QED
      BY <1>2, <1>5, <3>1, <3>2
  <2> QED
    BY <2>1 DEF SubsBelow
<1>8. PICK F : F = frames'
  OBVIOUS
<1>9. \A f \in 1 .. LastDone : F[f].patches = frames[f].patches
  <2>1. \A f \in 1 .. PackFrames : f \notin lo .. lo + Len(ps) - 1 => F[f] = frames[f]
    BY <1>1, <1>2, <1>8, FinishedIs
  <2> TAKE f \in 1 .. LastDone
  <2>2. f \in 1 .. PackFrames /\ f \notin lo .. lo + Len(ps) - 1
    BY <1>2, <1>3
  <2> QED
    BY <2>1, <2>2
<1>10. ASSUME NEW s \in 1 .. Len(subs) + 1, NEW f \in subs'[s].lo + 1 .. subs'[s].hi
       PROVE  /\ Cardinality(subs'[s].globals[f - subs'[s].lo + 1])
                   = Cardinality(subs'[s].globals[1])
              /\ AlignedAt(F, Cardinality(subs'[s].globals[1]), f)
  <2>1. CASE s \in 1 .. Len(subs)
    <3>1. subs'[s] = subs[s] /\ f \in subs[s].lo + 1 .. subs[s].hi
      BY <1>5, <2>1
    <3> QED
      BY <1>2, <1>9, <2>1, <3>1, AlignedKept
  <2>2. CASE s = Len(subs) + 1
    <3>1. subs'[s] = sub /\ f \in lo + 1 .. lo + Len(ps) - 1
      BY <1>4, <1>5, <2>2
    <3>2. PICK k : k = f - lo + 1
      OBVIOUS
    <3>3. k \in 2 .. Len(ps) /\ k \in 1 .. Len(ps) /\ f = lo + k - 1 /\ 1 \in 1 .. Len(ps)
      BY <1>3, <3>1, <3>2
    <3>4. AlignedAt(F, GlobalCount(ps), f)
      BY <1>1, <1>2, <1>8, <3>3, FinishedAligned
    <3>5. Cardinality(ps[k].globals) = GlobalCount(ps)
      BY <1>2, <3>3, SameCount DEF GlobalCount
    <3>6. /\ subs'[s].globals[f - subs'[s].lo + 1] = ps[k].globals
          /\ subs'[s].globals[1] = ps[1].globals
      BY <1>4, <3>1, <3>2, <3>3
    <3> QED
      BY <3>4, <3>5, <3>6 DEF GlobalCount
  <2> QED
    BY <1>2, <2>1, <2>2
<1>11. DOMAIN subs' = 1 .. Len(subs) + 1
  BY <1>5 DEF IsSeq
<1>12. \A s \in DOMAIN subs' : \A f \in subs'[s].lo + 1 .. subs'[s].hi :
        /\ Cardinality(subs'[s].globals[f - subs'[s].lo + 1]) = Cardinality(subs'[s].globals[1])
        /\ AlignedAt(frames', Cardinality(subs'[s].globals[1]), f)
  BY <1>8, <1>10, <1>11
<1>13. GlobalsAligned'
  BY <1>12 DEF GlobalsAligned, AlignedAt, Overlap
<1> QED
  BY <1>1, <1>7, <1>13

-----------------------------------------------------------------------------
(***************************************************************************)
(* The steps of an attempt.                                                *)
(***************************************************************************)
\* The packing of the first frame of a subcontext.
LEMMA FirstReady ==
  ASSUME AlignInv, AllPacked, step = "first"
  PROVE  /\ ReadyFor(at, <<AsPacked(at, patches, DOMAIN patches)>>)
         /\ at = LastDone + 1 /\ at \in Nat \ {0}
<1>1. /\ FollowInv /\ LaidFor(frames[at].patches, [i \in 1 .. Len(frames[at].patches) |-> i])
  BY DEF AlignInv, LyingLike
<1>2. at <= PackFrames /\ pre = <<>>
  BY <1>1 DEF FollowInv, OpenInv, TileInv, Control, Growing
<1>3. /\ OpenFrom(LastDone + 1) /\ at = LastDone + 1 /\ at \in Nat \ {0}
      /\ PackFrames \in Nat /\ at \in 1 .. PackFrames
  BY <1>1, <1>2, OpenFrames, ConstantsType
<1>4. PICK cur : cur = frames[at].patches
  OBVIOUS
<1>5. cur \in Seq(PatchSet) /\ Len(cur) \in Nat
  BY <1>2, <1>3, <1>4 DEF OpenFrom
<1>6. PICK p : p = AsPacked(at, patches, DOMAIN patches)
  OBVIOUS
<1>7. p.items = patches /\ p.globals = DOMAIN patches
  BY <1>6 DEF AsPacked
<1>8. PICK s : s = [i \in 1 .. Len(cur) |-> i]
  OBVIOUS
<1>9. Len(s) = Len(cur) /\ \A i \in 1 .. Len(cur) : s[i] = i
  <2>1. s \in [1 .. Len(cur) -> 1 .. Len(cur)]
    BY <1>8
  <2> QED
    BY <1>5, <1>8, <2>1, FunctionIsSeq
<1>10. /\ IsSeq(patches) /\ Len(patches) = Len(cur)
       /\ \A j \in 1 .. Len(cur) : patches[j].shape = cur[j].shape
  <2>1. LaidFor(cur, s)
    BY <1>1, <1>4, <1>8
  <2> QED
    BY <1>9, <2>1 DEF LaidFor
<1>11. DOMAIN patches = 1 .. Len(cur)
  BY <1>10 DEF IsSeq
<1>12. ItemsLike(cur, p)
  BY <1>7, <1>10, <1>11 DEF ItemsLike
<1>13. PICK ps : ps = <<p>>
  OBVIOUS
<1>14. IsSeq(ps) /\ Len(ps) = 1 /\ ps[1] = p
  BY <1>13 DEF IsSeq
<1>15. Chain(Patches, at, ps)
  <2>1. \A i \in ps[1].globals : 1 .. i \subseteq ps[1].globals
    BY <1>5, <1>7, <1>11, <1>14
  <2>2. 2 .. Len(ps) = {}
    BY <1>14
  <2> QED
    BY <1>14, <2>1, <2>2 DEF Chain
<1>16. \A k \in 1 .. Len(ps) : ItemsLike(frames[at + k - 1].patches, ps[k])
  BY <1>3, <1>4, <1>12, <1>14
<1>17. ps[1].globals = 1 .. Len(ps[1].items)
  BY <1>7, <1>10, <1>11, <1>14
<1>18. at + Len(ps) - 1 <= PackFrames
  BY <1>2, <1>3, <1>14
<1>19. ReadyFor(at, ps)
  BY <1>14, <1>15, <1>16, <1>17, <1>18 DEF ReadyFor
<1> QED
  BY <1>3, <1>6, <1>13, <1>19

\* The tracks of an attempt.
LEMMA TrackFacts ==
  ASSUME FollowInv, AllPacked, step \in {"union", "frame", "pack", "decide"}
  PROVE  /\ OpenFrom(first) /\ first = LastDone + 1 /\ first \in Nat \ {0}
         /\ at \in Nat /\ first < at /\ at <= PackFrames /\ PackFrames \in Nat
         /\ \A t \in Alive, k \in 1 .. at - first + 1 :
              tracks[t][k] \in 1 .. Len(frames[first + k - 1].patches)
         /\ \A t \in Alive, k \in 2 .. at - first + 1 :
              Named(Patches, first + k - 1, tracks[t][k]) = tracks[t][k - 1]
         /\ \A s, t \in Alive, k \in 1 .. at - first + 1 :
              tracks[s][k] = tracks[t][k] => s = t
         /\ \A t \in Alive : \A m \in 1 .. tracks[t][at - first + 1] :
              \E s \in Alive : tracks[s][at - first + 1] = m
         /\ \A k \in 1 .. at - first + 1 :
              /\ GlobalsOf(first + k - 1) = {tracks[t][k] : t \in Alive}
              /\ GlobalsOf(first + k - 1) \subseteq 1 .. Len(frames[first + k - 1].patches)
              /\ first + k - 1 \in first .. PackFrames /\ first + k - 1 \in 1 .. PackFrames
<1> DEFINE n == at - first + 1
<1>1. step \in Growing /\ step # "track"
  BY DEF Growing
<1>2. /\ Control /\ OpenInv /\ PackFrames \in Nat
  BY ConstantsType DEF FollowInv, TileInv
<1>3. /\ first = LastDone + 1 /\ Len(pre) \in Nat \ {0} /\ at = first + Len(pre)
      /\ LastDone \in Nat
  BY <1>1, <1>2 DEF Control
<1>4. at <= PackFrames /\ TracksOK(Patches, tracks, first, n)
  BY <1>1, <1>2 DEF OpenInv, TrackLength
<1>5. /\ OpenFrom(first) /\ first \in Nat \ {0} /\ at \in Nat /\ first < at
  BY <1>3, OpenFrames
<1>6. \A k \in 1 .. n : first + k - 1 \in first .. PackFrames /\ first + k - 1 \in 1 .. PackFrames
  BY <1>2, <1>4, <1>5
<1>7. AliveIn(tracks) = Alive
  BY <1>4 DEF TracksOK, IsSeq, AliveIn, Alive
<1> HIDE DEF n
<1>8. \A t \in Alive : TrackOK(Patches, tracks[t], t, first, n)
  BY <1>4, <1>7 DEF TracksOK
<1>9. \A k \in 1 .. n : Patches[first + k - 1] = frames[first + k - 1].patches
  BY <1>6 DEF Patches
<1>10. \A t \in Alive, k \in 1 .. n :
         tracks[t][k] \in 1 .. Len(frames[first + k - 1].patches)
  BY <1>8, <1>9 DEF TrackOK
<1>11. \A t \in Alive, k \in 2 .. n :
         Named(Patches, first + k - 1, tracks[t][k]) = tracks[t][k - 1]
  BY <1>8 DEF TrackOK
<1>12. ASSUME NEW s \in Alive, NEW t \in Alive, NEW k \in 1 .. n, tracks[s][k] = tracks[t][k]
       PROVE  s = t
  <2>1. \A a, b \in Alive : a < b => tracks[a][k] < tracks[b][k]
    BY <1>4, <1>7 DEF TracksOK
  <2>2. tracks[s][k] \in Int /\ s \in Int /\ t \in Int
    <3>1. tracks[s][k] \in 1 .. Len(frames[first + k - 1].patches)
      BY <1>10
    <3>2. s \in 1 .. Len(tracks) /\ t \in 1 .. Len(tracks)
      BY <1>7 DEF AliveIn
    <3> QED
      BY <3>1, <3>2
  <2>3. ~(s < t) /\ ~(t < s)
    BY <1>12, <2>1, <2>2
  <2> QED
    BY <2>2, <2>3
<1>13. \A t \in Alive : \A m \in 1 .. tracks[t][n] : \E s \in Alive : tracks[s][n] = m
  BY <1>4, <1>7 DEF TracksOK
<1>14. ASSUME NEW k \in 1 .. n
       PROVE  /\ GlobalsOf(first + k - 1) = {tracks[t][k] : t \in Alive}
              /\ GlobalsOf(first + k - 1) \subseteq 1 .. Len(frames[first + k - 1].patches)
  <2>1. (first + k - 1) - first + 1 = k
    BY <1>5
  <2>2. GlobalsOf(first + k - 1) = {tracks[t][k] : t \in Alive}
    BY <2>1 DEF GlobalsOf
  <2> QED
    BY <1>10, <2>2
<1> QED
  BY <1>2, <1>3, <1>4, <1>5, <1>6, <1>10, <1>11, <1>12, <1>13, <1>14 DEF n

\* The frames of a grown subcontext, all packed.
LEMMA AcceptReady ==
  ASSUME AlignInv, AllPacked, step = "decide", ~BadPacking
  PROVE  ReadyFor(first, packed) /\ first = LastDone + 1 /\ first \in Nat \ {0}
<1> DEFINE n == at - first + 1
<1>1. /\ FollowInv /\ PackedLike /\ Control
  BY DEF AlignInv, FollowInv, TileInv
<1>2. /\ IsSeq(packed) /\ Len(packed) \in Nat /\ first + Len(packed) = at + 1
  BY <1>1 DEF Control, BadPacking, IsSeq
<1>3. /\ first = LastDone + 1 /\ first \in Nat \ {0}
      /\ at \in Nat /\ first < at /\ at <= PackFrames /\ PackFrames \in Nat
  BY <1>1, TrackFacts
<1>4. Len(packed) = n /\ n >= 2 /\ n \in Nat
  BY <1>2, <1>3
<1> HIDE DEF n
<1>5. /\ \A t \in Alive, k \in 2 .. n :
           Named(Patches, first + k - 1, tracks[t][k]) = tracks[t][k - 1]
      /\ \A t \in Alive : \A m \in 1 .. tracks[t][n] :
           \E s \in Alive : tracks[s][n] = m
      /\ \A k \in 1 .. n : GlobalsOf(first + k - 1) = {tracks[t][k] : t \in Alive}
  BY <1>1, TrackFacts DEF n
<1>6. /\ \A k \in 1 .. n : ItemsLike(frames[first + k - 1].patches, packed[k])
      /\ \A k \in 1 .. n : packed[k].globals = {tracks[t][k] : t \in Alive}
      /\ \A k \in 1 .. n : \A t \in Alive :
           SamePlace(packed[k].items[tracks[t][k]], unions.of[t])
  BY <1>1, <1>4, <1>5 DEF PackedLike
<1>7. ASSUME NEW k \in 2 .. n
      PROVE  /\ \A i \in packed[k].globals :
                  /\ Named(Patches, first + k - 1, i) \in packed[k - 1].globals
                  /\ SamePlace(packed[k].items[i],
                               packed[k - 1].items[Named(Patches, first + k - 1, i)])
             /\ \A j \in packed[k - 1].globals :
                  \E i \in packed[k].globals : Named(Patches, first + k - 1, i) = j
  <2>1. k \in 1 .. n /\ k - 1 \in 1 .. n
    BY <1>4
  <2>2. \A t \in Alive : Named(Patches, first + k - 1, tracks[t][k]) = tracks[t][k - 1]
    BY <1>5
  <2>3. /\ packed[k].globals = {tracks[t][k] : t \in Alive}
        /\ packed[k - 1].globals = {tracks[t][k - 1] : t \in Alive}
    BY <1>6, <2>1
  <2>4. \A t \in Alive : SamePlace(packed[k].items[tracks[t][k]],
                                   packed[k - 1].items[tracks[t][k - 1]])
    <3> TAKE t \in Alive
    <3>1. SamePlace(packed[k].items[tracks[t][k]], unions.of[t])
      BY <1>6, <2>1
    <3>2. SamePlace(packed[k - 1].items[tracks[t][k - 1]], unions.of[t])
      BY <1>6, <2>1
    <3> QED
      BY <3>1, <3>2 DEF SamePlace
  <2>5. \A i \in packed[k].globals :
          /\ Named(Patches, first + k - 1, i) \in packed[k - 1].globals
          /\ SamePlace(packed[k].items[i],
                       packed[k - 1].items[Named(Patches, first + k - 1, i)])
    <3> TAKE i \in packed[k].globals
    <3>1. PICK t \in Alive : i = tracks[t][k]
      BY <2>3
    <3> QED
      BY <2>2, <2>3, <2>4, <3>1
  <2>6. \A j \in packed[k - 1].globals :
          \E i \in packed[k].globals : Named(Patches, first + k - 1, i) = j
    <3> TAKE j \in packed[k - 1].globals
    <3>1. PICK t \in Alive : j = tracks[t][k - 1]
      BY <2>3
    <3>2. tracks[t][k] \in packed[k].globals
      BY <2>3
    <3> QED
      BY <2>2, <3>1, <3>2
  <2> QED
    BY <2>5, <2>6
<1>8. \A i \in packed[n].globals : 1 .. i \subseteq packed[n].globals
  <2>1. n \in 1 .. n
    BY <1>4
  <2>2. packed[n].globals = {tracks[t][n] : t \in Alive}
    BY <1>6, <2>1
  <2> TAKE i \in packed[n].globals
  <2>3. PICK t \in Alive : i = tracks[t][n]
    BY <2>2
  <2>4. \A m \in 1 .. i : \E s \in Alive : tracks[s][n] = m
    BY <1>5, <2>3
  <2>5. \A m \in 1 .. i : m \in packed[n].globals
    BY <2>2, <2>4
  <2> QED
    BY <2>5
<1>9. Chain(Patches, first, packed)
  BY <1>4, <1>7, <1>8 DEF Chain
<1>10. first + Len(packed) - 1 <= PackFrames /\ Len(packed) >= 1 /\ Len(packed) # 1
  BY <1>2, <1>3, <1>4
<1> QED
  BY <1>2, <1>3, <1>4, <1>6, <1>9, <1>10 DEF ReadyFor

\* Laying a patch keeps the list.
LEMMA LaidKept ==
  ASSUME NEW cur, NEW which, LaidFor(cur, which), NEW n, NEW t,
         patches' = [patches EXCEPT ![n] = Located(@, t)]
  PROVE  LaidFor(cur, which)'
<1>1. PICK s : s = patches
  OBVIOUS
<1>2. PICK r : r = patches'
  OBVIOUS
<1>3. /\ IsSeq(s) /\ Len(s) = Len(which) /\ Len(s) \in Nat /\ DOMAIN s = 1 .. Len(s)
      /\ \A j \in 1 .. Len(s) : IsPatch(s[j]) /\ s[j].shape = cur[which[j]].shape
  BY <1>1 DEF LaidFor, IsSeq
<1>4. r = [s EXCEPT ![n] = Located(s[n], t)]
  BY <1>1, <1>2
<1>5. DOMAIN r = 1 .. Len(s)
  BY <1>3, <1>4
<1>6. r \in [1 .. Len(s) -> {r[j] : j \in 1 .. Len(s)}]
  <2>1. r = [j \in 1 .. Len(s) |-> r[j]]
    BY <1>3, <1>4
  <2> QED
    BY <2>1
<1>7. IsSeq(r) /\ Len(r) = Len(s)
  <2>1. Len(r) = Len(s)
    BY <1>3, <1>6, FunctionIsSeq
  <2> QED
    BY <1>3, <1>6, <2>1 DEF IsSeq
<1>8. ASSUME NEW j \in 1 .. Len(s)
      PROVE  IsPatch(r[j]) /\ r[j].shape = cur[which[j]].shape
  <2>1. PICK p : p = s[j]
    OBVIOUS
  <2>2. IsPatch(p) /\ p.shape = cur[which[j]].shape
    BY <1>3, <2>1
  <2>3. CASE j = n
    <3>1. PICK q : q = Located(p, t)
      OBVIOUS
    <3>2. q \in [shape : {p.shape}, match : {p.match}, u0 : {t.u}, v0 : {t.v}, turn : {t.turn}]
      <4>1. PICK a, b, c, d, e : p = [shape |-> a, match |-> b, u0 |-> c, v0 |-> d, turn |-> e]
        BY <2>2 DEF IsPatch
      <4> QED
        BY <3>1, <4>1 DEF Located
    <3>3. IsPatch(q) /\ q.shape = p.shape
      BY <3>2 DEF IsPatch
    <3>4. r[j] = q
      BY <1>3, <1>4, <2>1, <2>3, <3>1
    <3> QED
      BY <2>2, <3>3, <3>4
  <2>4. CASE j # n
    BY <1>3, <1>4, <2>1, <2>2, <2>4
  <2> QED
    BY <2>3, <2>4
<1>9. \A j \in 1 .. Len(r) : IsPatch(r[j]) /\ r[j].shape = cur[which[j]].shape
  BY <1>7, <1>8
<1> QED
  BY <1>2, <1>3, <1>7, <1>9 DEF LaidFor, IsPatch, IsSeq

\* The patches of a frame are patches.
LEMMA AsPatch ==
  ASSUME NEW p \in PatchSet
  PROVE  IsPatch(p)
BY DEF PatchSet, IsPatch

\* A global patch of a frame, and its place.
LEMMA GlobalItemIs ==
  ASSUME NEW p \in PatchSet, NEW u
  PROVE  /\ SamePlace(GlobalItem(p, u), u)
         /\ GlobalItem(p, u).shape.view = p.shape.view
         /\ GlobalItem(p, u).shape.at = p.shape.at
<1>1. PICK q : q = GlobalItem(p, u)
  OBVIOUS
<1>2. PICK w, h, u0, v0, turn :
        w = u.shape.w /\ h = u.shape.h /\ u0 = u.u0 /\ v0 = u.v0 /\ turn = u.turn
  OBVIOUS
<1>3. q = [p EXCEPT !.shape = [p.shape EXCEPT !.w = w, !.h = h],
                    !.u0 = u0, !.v0 = v0, !.turn = turn]
  <2>1. p = [p EXCEPT !.shape = p.shape]
    BY DEF PatchSet
  <2> QED
    BY <1>1, <1>2, <2>1 DEF GlobalItem, PatchSet
<1>4. PICK s : s = [p.shape EXCEPT !.w = w, !.h = h]
  OBVIOUS
<1>5. p.shape \in Shapes
  BY DEF PatchSet
<1>6. p.shape \in [w : Nat \ {0}, h : Nat \ {0}, occ : SUBSET (Nat \X Nat),
                   view : Nat, at : Nat]
  BY <1>5, PackingAssumption
<1>7. s.w = w /\ s.h = h /\ s.view = p.shape.view /\ s.at = p.shape.at
  BY <1>4, <1>6
<1>8. q.shape = s /\ q.u0 = u0 /\ q.v0 = v0 /\ q.turn = turn
  BY <1>3, <1>4 DEF PatchSet
<1> QED
  BY <1>1, <1>2, <1>7, <1>8 DEF SamePlace

\* What is left to show of a step that finishes no subcontext.
LEMMA AlignOthers ==
  ASSUME AlignInv, AllPacked, FollowInv', UNCHANGED subs,
         \A f \in 1 .. PackFrames : frames'[f].patches = frames[f].patches,
         LyingLike', step' \in Growing => ReadyFor(first, pre)',
         step' \in {"frame", "pack", "decide"} => PackedLike'
  PROVE  AlignInv'
<1>1. GlobalsAligned' /\ SubsBelow'
  BY AlignSame DEF AlignInv
<1>2. Growing' = Growing
  BY DEF Growing
<1> QED
  BY <1>1, <1>2 DEF AlignInv

\* The packing of the frames before stays.
LEMMA ReadyStays ==
  ASSUME AlignInv, AllPacked, step \in Growing, UNCHANGED <<first, pre>>,
         \A f \in 1 .. PackFrames : frames'[f].patches = frames[f].patches
  PROVE  ReadyFor(first, pre)'
<1>1. first = LastDone + 1 /\ LastDone \in Nat
  BY DEF AlignInv, FollowInv, TileInv, Control
<1>2. ReadyFor(first, pre) /\ first \in Nat \ {0}
  BY <1>1 DEF AlignInv
<1> QED
  BY <1>2, ReadyNow

\* The first frame of a subcontext is packed.
LEMMA AlignFirstLaid ==
  ASSUME AlignInv, AllPacked, FollowInv', FirstLaid
  PROVE  AlignInv'
<1>1. step = "first"
  BY DEF FirstLaid
<1> DEFINE p == AsPacked(at, patches, DOMAIN patches)
<1>2. ReadyFor(at, <<p>>) /\ at = LastDone + 1 /\ at \in Nat \ {0}
  BY <1>1, FirstReady
<1>3. CASE at = PackFrames
  <2>1. Close(at, <<p>>)
    BY <1>3 DEF FirstLaid
  <2> HIDE DEF p
  <2>2. GlobalsAligned' /\ SubsBelow' /\ step' = "start"
    BY <1>2, <2>1, AlignClose
  <2> QED
    BY <2>2 DEF AlignInv, LyingLike, Growing
<1>4. CASE at # PackFrames
  <2>1. pre' = <<p>> /\ first' = at /\ step' = "track" /\ UNCHANGED <<frames, subs>>
    BY <1>4 DEF FirstLaid
  <2> HIDE DEF p
  <2>2. ReadyFor(first, pre)'
    BY <1>2, <2>1, ReadyNow
  <2>3. LyingLike'
    BY <2>1 DEF LyingLike
  <2> QED
    BY <2>1, <2>2, <2>3, AlignOthers
<1> QED
  BY <1>3, <1>4

\* A roll back finishes what was accepted.
LEMMA AlignRollBack ==
  ASSUME AlignInv, AllPacked, FollowInv', step \in Growing, RollBack
  PROVE  AlignInv'
<1>1. Close(first, pre)
  BY DEF RollBack
<1>2. first = LastDone + 1
  BY DEF AlignInv, FollowInv, TileInv, Control
<1>3. ReadyFor(first, pre)
  BY DEF AlignInv
<1>4. GlobalsAligned' /\ SubsBelow' /\ step' = "start"
  BY <1>1, <1>2, <1>3, AlignClose
<1> QED
  BY <1>4 DEF AlignInv, LyingLike, Growing

\* A grown subcontext is accepted.
LEMMA AlignAccept ==
  ASSUME AlignInv, AllPacked, FollowInv', Accept
  PROVE  AlignInv'
<1>1. step = "decide" /\ ~BadPacking
  BY DEF Accept
<1>2. ReadyFor(first, packed) /\ first = LastDone + 1 /\ first \in Nat \ {0}
  BY <1>1, AcceptReady
<1>3. CASE at = PackFrames
  <2>1. Close(first, packed)
    BY <1>3 DEF Accept
  <2>2. GlobalsAligned' /\ SubsBelow' /\ step' = "start"
    BY <1>2, <2>1, AlignClose
  <2> QED
    BY <2>2 DEF AlignInv, LyingLike, Growing
<1>4. CASE at # PackFrames
  <2>1. pre' = packed /\ first' = first /\ step' = "track" /\ UNCHANGED <<frames, subs>>
    BY <1>4 DEF Accept, Accepted
  <2>2. ReadyFor(first, pre)'
    BY <1>2, <2>1, ReadyNow
  <2>3. LyingLike'
    BY <2>1 DEF LyingLike
  <2> QED
    BY <2>1, <2>2, <2>3, AlignOthers
<1> QED
  BY <1>3, <1>4

\* A new subcontext lays the patches of its first frame.
LEMMA AlignStart ==
  ASSUME AlignInv, AllPacked, FollowInv', StartSubContext
  PROVE  AlignInv'
<1>1. /\ step = "start" /\ step' = "first" /\ patches' = frames[at].patches
      /\ UNCHANGED <<frames, subs, at>> /\ at <= PackFrames
  BY DEF StartSubContext, Begin
<1>2. /\ OpenFrom(LastDone + 1) /\ at = 1 + LastDone + Len(pre) /\ LastDone \in Nat
      /\ pre = <<>>
  BY <1>1, OpenFrames DEF AlignInv, FollowInv, TileInv, Control, Growing
<1>3. at \in LastDone + 1 .. PackFrames
  BY <1>1, <1>2, ConstantsType
<1>4. PICK cur : cur = frames[at].patches
  OBVIOUS
<1>5. cur \in Seq(PatchSet) /\ Len(cur) \in Nat
  BY <1>2, <1>3, <1>4 DEF OpenFrom
<1>6. IsSeq(cur) /\ \A j \in 1 .. Len(cur) : IsPatch(cur[j])
  <2>1. cur = [j \in 1 .. Len(cur) |-> cur[j]]
    BY <1>5
  <2> QED
    BY <1>5, <2>1, AsPatch DEF IsSeq
<1>7. PICK s : s = [i \in 1 .. Len(cur) |-> i]
  OBVIOUS
<1>8. Len(s) = Len(cur) /\ \A i \in 1 .. Len(cur) : s[i] = i
  <2>1. s \in [1 .. Len(cur) -> 1 .. Len(cur)]
    BY <1>7
  <2> QED
    BY <1>5, <1>7, <2>1, FunctionIsSeq
<1>9. LaidFor(cur, s)'
  BY <1>1, <1>4, <1>6, <1>8 DEF LaidFor, IsSeq, IsPatch
<1>10. frames'[at'].patches = cur /\ s = [i \in 1 .. Len(frames'[at'].patches) |-> i]
  BY <1>1, <1>4, <1>7
<1>11. LyingLike'
  BY <1>1, <1>9, <1>10 DEF LyingLike
<1>12. step' \notin Growing
  BY <1>1 DEF Growing
<1> QED
  BY <1>1, <1>11, <1>12, AlignOthers

\* Steps that take or lay no patch of a frame.
LEMMA AlignBetween ==
  ASSUME AlignInv, AllPacked, FollowInv', Track \/ Unite
  PROVE  AlignInv'
<1>1. /\ step \in Growing /\ step \in {"track", "union"} /\ step' \in {"union", "frame"}
      /\ UNCHANGED <<frames, subs, first, pre, packed>>
  BY DEF Track, Unite, Growing
<1>2. packed = <<>>
  BY <1>1 DEF AlignInv, FollowInv, TileInv, Control
<1>3. step' = "frame" => PackedLike'
  <2> SUFFICES ASSUME step' = "frame" PROVE PackedLike'
    OBVIOUS
  <2>1. Len(packed') = 0
    BY <1>1, <1>2
  <2>2. at' = at /\ first' = first /\ at \in Nat /\ first \in Nat /\ first < at
    <3>1. step = "union"
      BY DEF Track, Unite
    <3>2. at' = at
      BY DEF Track, Unite
    <3> QED
      BY <1>1, <3>1, <3>2, TrackFacts DEF AlignInv
  <2> QED
    BY <2>1, <2>2 DEF PackedLike
<1>4. ReadyFor(first, pre)'
  BY <1>1, ReadyStays
<1>5. LyingLike'
  BY <1>1 DEF LyingLike
<1> QED
  BY <1>1, <1>3, <1>4, <1>5, AlignOthers

\* Nothing that was packed changes.
LEMMA PackedSame ==
  ASSUME PackedLike, UNCHANGED <<packed, first, at, tracks, unions>>, FollowInv, AllPacked,
         step \in {"frame", "pack", "decide"},
         \A f \in 1 .. PackFrames : frames'[f].patches = frames[f].patches
  PROVE  PackedLike'
<1>1. \A k \in 1 .. Len(packed) : first + k - 1 \in 1 .. PackFrames
  <2>1. /\ \A k \in 1 .. at - first + 1 : first + k - 1 \in 1 .. PackFrames
        /\ first \in Nat /\ at \in Nat
    BY TrackFacts
  <2>2. IsSeq(packed) /\ Len(packed) \in Nat /\ first + Len(packed) <= at + 1
    BY DEF FollowInv, TileInv, Control, IsSeq, PackedLike
  <2> QED
    BY <2>1, <2>2
<1>3. Alive' = Alive
  BY DEF Alive
<1>4. \A k \in 1 .. Len(packed) :
        /\ ItemsLike(frames'[first + k - 1].patches, packed[k])
        /\ packed[k].globals = GlobalsOf(first + k - 1)
        /\ \A t \in Alive : SamePlace(packed[k].items[tracks[t][k]], unions.of[t])
  BY <1>1 DEF PackedLike
<1>5. \A k \in 1 .. Len(packed) : GlobalsOf(first + k - 1)' = GlobalsOf(first + k - 1)
  BY <1>3 DEF GlobalsOf
<1>6. first' + Len(packed') <= at' + 1
  BY DEF PackedLike
<1>7. PICK F : F = frames'
  OBVIOUS
<1>8. \A k \in 1 .. Len(packed) :
        /\ ItemsLike(F[first' + k - 1].patches, packed'[k])
        /\ packed'[k].globals = GlobalsOf(first + k - 1)'
        /\ \A t \in Alive' : SamePlace(packed'[k].items[tracks'[t][k]], unions'.of[t])
  BY <1>3, <1>4, <1>5, <1>7
<1>9. \A k \in 1 .. Len(packed') :
        /\ ItemsLike(frames'[first' + k - 1].patches, packed'[k])
        /\ packed'[k].globals = GlobalsOf(first + k - 1)'
        /\ \A t \in Alive' : SamePlace(packed'[k].items[tracks'[t][k]], unions'.of[t])
  BY <1>7, <1>8
<1> QED
  BY <1>6, <1>9 DEF PackedLike, ItemsLike, IsSeq, SamePlace

\* Laying the patches of the first frame, of the unions or of a frame.
LEMMA AlignLayPatch ==
  ASSUME AlignInv, AllPacked, FollowInv', LayPatch
  PROVE  AlignInv'
<1>1. /\ UNCHANGED <<frames, subs, step, at, first, tracks, unions, packed, pre>>
      /\ step \in {"first", "union", "pack"}
  BY DEF LayPatch, Laying
<1>2. PICK t : patches' = [patches EXCEPT ![placed + 1] = Located(@, t)]
  BY DEF LayPatch
<1>3. step = "pack" => PackedLike'
  BY <1>1, PackedSame DEF AlignInv
<1>4. step \in Growing => ReadyFor(first, pre)'
  BY <1>1, ReadyStays
<1>5. LyingLike'
  <2>1. step = "first" => LaidFor(frames[at].patches, [i \in 1 .. Len(frames[at].patches) |-> i])'
    <3>1. PICK s : s = [i \in 1 .. Len(frames[at].patches) |-> i]
      OBVIOUS
    <3>2. PICK cur : cur = frames[at].patches
      OBVIOUS
    <3>3. step = "first" => LaidFor(cur, s)'
      BY <1>2, <3>1, <3>2, LaidKept DEF AlignInv, LyingLike
    <3>4. s = [i \in 1 .. Len(frames'[at'].patches) |-> i] /\ cur = frames'[at'].patches
      BY <1>1, <3>1, <3>2
    <3> QED
      BY <3>3, <3>4 DEF LaidFor
  <2>2. step = "pack" => LaidFor(frames[Current].patches, Others(Current))'
    <3>1. PICK s : s = Others(Current)
      OBVIOUS
    <3>2. PICK cur : cur = frames[Current].patches
      OBVIOUS
    <3>3. step = "pack" => LaidFor(cur, s)'
      BY <1>2, <3>1, <3>2, LaidKept DEF AlignInv, LyingLike
    <3>4. Current' = Current /\ Alive' = Alive
      BY <1>1 DEF Current, Alive
    <3>5. Others(Current)' = Others(Current)
      BY <1>1, <3>4 DEF Others, GlobalsOf
    <3>6. s = Others(Current)' /\ cur = frames'[Current'].patches
      BY <1>1, <3>1, <3>2, <3>4, <3>5
    <3> QED
      BY <3>3, <3>6 DEF LaidFor
  <2> QED
    BY <1>1, <2>1, <2>2 DEF LyingLike
<1> QED
  BY <1>1, <1>3, <1>4, <1>5, AlignOthers DEF Growing

\* A step that leaves the patches of the frames and the list alone.
LEMMA AlignStay ==
  ASSUME AlignInv, AllPacked, FollowInv',
         UNCHANGED <<patches, subs, step, at, first, tracks, unions, packed, pre>>,
         \A f \in 1 .. PackFrames : frames'[f].patches = frames[f].patches
  PROVE  AlignInv'
<1>1. step \in {"frame", "pack", "decide"} => PackedLike'
  BY PackedSame DEF AlignInv
<1>2. step \in Growing => ReadyFor(first, pre)'
  BY ReadyStays
<1>3. LyingLike'
  <2>1. step = "first" => at \in 1 .. PackFrames
    <3>1. FollowInv /\ PackFrames \in Nat
      BY ConstantsType DEF AlignInv
    <3>2. step = "first" => at <= PackFrames /\ at \in Nat \ {0}
      BY <3>1 DEF FollowInv, OpenInv, TileInv, Control
    <3> QED
      BY <3>1, <3>2
  <2>2. step = "pack" => Current \in 1 .. PackFrames
    <3>1. SUFFICES ASSUME step = "pack" PROVE Current \in 1 .. PackFrames
      OBVIOUS
    <3>2. Current = first + Len(packed)
      BY <3>1 DEF Current
    <3>3. /\ first \in Nat \ {0} /\ at \in Nat /\ first < at /\ at <= PackFrames
          /\ PackFrames \in Nat
      BY <3>1, TrackFacts DEF AlignInv
    <3>4. Len(packed) \in Nat /\ first + Len(packed) <= at
      BY <3>1 DEF AlignInv, FollowInv, TileInv, Control, IsSeq
    <3> QED
      BY <3>2, <3>3, <3>4
  <2>3. Current' = Current /\ Alive' = Alive
    BY DEF Current, Alive
  <2>4. step = "pack" => Others(Current)' = Others(Current)
    BY <2>2, <2>3 DEF Others, GlobalsOf
  <2>5. step = "first" => frames'[at'].patches = frames[at].patches
    BY <2>1
  <2>6. step = "pack" => frames'[Current'].patches = frames[Current].patches
    BY <2>2, <2>3
  <2> QED
    BY <2>3, <2>4, <2>5, <2>6 DEF AlignInv, LyingLike, LaidFor, IsSeq, IsPatch
<1> QED
  BY <1>1, <1>2, <1>3, AlignOthers DEF AlignInv

\* The frame that is packed, and what is laid around its global patches.
LEMMA CurrentFacts ==
  ASSUME FollowInv, AllPacked, step \in {"frame", "pack"}
  PROVE  LET cur == frames[Current].patches
         IN  /\ Current = first + Len(packed) /\ Current \in first .. PackFrames
             /\ Len(packed) \in Nat /\ IsSeq(packed) /\ first + (Len(packed) + 1) - 1 = Current
             /\ first + Len(packed) <= at /\ Len(packed) + 1 \in 1 .. at - first + 1
             /\ cur \in Seq(PatchSet) /\ Len(cur) \in Nat /\ DOMAIN cur = 1 .. Len(cur)
             /\ \A i \in 1 .. Len(cur) : cur[i] \in PatchSet
             /\ GlobalsOf(Current) \subseteq 1 .. Len(cur)
             /\ GlobalsOf(Current) = {tracks[t][Len(packed) + 1] : t \in Alive}
             /\ Lists(Others(Current), (1 .. Len(cur)) \ GlobalsOf(Current))
<1>1. /\ Len(packed) \in Nat /\ first + Len(packed) <= at /\ IsSeq(packed)
  BY DEF FollowInv, TileInv, Control, IsSeq
<1>2. Current = first + Len(packed)
  BY DEF Current
<1>3. /\ OpenFrom(first) /\ first \in Nat \ {0} /\ at \in Nat /\ first < at
      /\ at <= PackFrames /\ PackFrames \in Nat
  BY TrackFacts
<1>4. PICK n : n = Len(packed) + 1
  OBVIOUS
<1>5. n \in 1 .. at - first + 1 /\ first + n - 1 = Current
  BY <1>1, <1>2, <1>3, <1>4
<1>6. /\ GlobalsOf(first + n - 1) = {tracks[t][n] : t \in Alive}
      /\ GlobalsOf(first + n - 1) \subseteq 1 .. Len(frames[first + n - 1].patches)
      /\ first + n - 1 \in first .. PackFrames
  BY <1>5, TrackFacts
<1>7. PICK f : f = Current
  OBVIOUS
<1>8. f \in first .. PackFrames /\ GlobalsOf(f) = {tracks[t][n] : t \in Alive}
      /\ GlobalsOf(f) \subseteq 1 .. Len(frames[f].patches)
  BY <1>5, <1>6, <1>7
<1>9. frames[f].patches \in Seq(PatchSet)
  BY <1>3, <1>8 DEF OpenFrom
<1>10. PICK cur \in Seq(PatchSet) : cur = frames[f].patches
  BY <1>9
<1>11. Len(cur) \in Nat /\ DOMAIN cur = 1 .. Len(cur) /\ \A i \in 1 .. Len(cur) : cur[i] \in PatchSet
  BY <1>10
<1>12. Lists(Others(f), (1 .. Len(cur)) \ GlobalsOf(f))
  <2>1. PICK R : R = (1 .. Len(cur)) \ GlobalsOf(f)
    OBVIOUS
  <2>2. R \in SUBSET (1 .. Len(cur))
    BY <2>1
  <2>3. Others(f) = Ascending(R)
    BY <1>10, <1>11, <2>1 DEF Others
  <2> QED
    BY <1>11, <2>1, <2>2, <2>3, AscendingLists
<1> QED
  BY <1>1, <1>2, <1>4, <1>5, <1>7, <1>8, <1>10, <1>11, <1>12

\* The patches that have no track are to be laid around the others.
LEMMA AlignBeginFrame ==
  ASSUME AlignInv, AllPacked, FollowInv', BeginFrame
  PROVE  AlignInv'
<1>1. /\ step = "frame" /\ step' = "pack" /\ FollowInv
      /\ UNCHANGED <<frames, subs, at, first, tracks, unions, packed, pre>>
  BY DEF BeginFrame, AlignInv
<1>2. PICK f : f = Current
  OBVIOUS
<1>3. PICK others : others = Others(f)
  OBVIOUS
<1>4. patches' = [j \in DOMAIN others |-> Items(f)[others[j]]]
  BY <1>2, <1>3 DEF BeginFrame, Begin
<1>5. PICK cur : cur = frames[f].patches
  OBVIOUS
<1>6. /\ DOMAIN cur = 1 .. Len(cur) /\ \A i \in 1 .. Len(cur) : cur[i] \in PatchSet
      /\ Lists(others, (1 .. Len(cur)) \ GlobalsOf(f))
  BY <1>1, <1>2, <1>3, <1>5, CurrentFacts
<1>7. /\ IsSeq(others) /\ Len(others) \in Nat /\ DOMAIN others = 1 .. Len(others)
      /\ \A j \in 1 .. Len(others) : others[j] \in 1 .. Len(cur) /\ others[j] \notin GlobalsOf(f)
  BY <1>6 DEF Lists, IsSeq
<1>8. PICK r : r = patches'
  OBVIOUS
<1>9. r = [j \in 1 .. Len(others) |-> cur[others[j]]]
  <2>1. \A j \in 1 .. Len(others) : Items(f)[others[j]] = cur[others[j]]
    BY <1>5, <1>6, <1>7 DEF Items
  <2> QED
    BY <1>4, <1>7, <1>8, <2>1
<1>10. r \in [1 .. Len(others) -> PatchSet]
  BY <1>6, <1>7, <1>9
<1>11. IsSeq(r) /\ Len(r) = Len(others)
  <2>1. Len(r) = Len(others)
    BY <1>7, <1>10, FunctionIsSeq
  <2> QED
    BY <1>7, <1>9, <2>1 DEF IsSeq
<1>12. \A j \in 1 .. Len(r) : IsPatch(r[j]) /\ r[j].shape = cur[others[j]].shape
  BY <1>9, <1>10, <1>11, AsPatch
<1>13. Current' = Current /\ Alive' = Alive
  BY <1>1 DEF Current, Alive
<1>14. others = Others(Current)' /\ cur = frames'[Current'].patches
  BY <1>1, <1>2, <1>3, <1>5, <1>13 DEF Others, GlobalsOf
<1>15. LyingLike'
  <2>1. LaidFor(cur, others)'
    BY <1>8, <1>11, <1>12 DEF LaidFor, IsSeq, IsPatch
  <2> QED
    BY <1>1, <1>14, <2>1 DEF LyingLike, LaidFor
<1>16. PackedLike'
  BY <1>1, PackedSame DEF AlignInv
<1>17. ReadyFor(first, pre)'
  BY <1>1, ReadyStays DEF Growing
<1> QED
  BY <1>1, <1>15, <1>16, <1>17, AlignOthers

\* The items of a frame that is packed are its patches, the global ones at the
\* place of their union.
LEMMA FrameItems ==
  ASSUME AlignInv, AllPacked, step = "pack", NEW items,
         items = [i \in DOMAIN frames[Current].patches |->
                    IF i \in GlobalsOf(Current) THEN Items(Current)[i]
                    ELSE patches[CHOOSE j \in DOMAIN Others(Current) :
                                   Others(Current)[j] = i]],
         NEW p, p.items = items, p.globals = GlobalsOf(Current)
  PROVE  /\ ItemsLike(frames[Current].patches, p)
         /\ \A t \in Alive :
              SamePlace(items[tracks[t][Len(packed) + 1]], unions.of[t])
<1>1. FollowInv
  BY DEF AlignInv
<1>2. PICK f : f = Current
  OBVIOUS
<1>3. PICK others : others = Others(f)
  OBVIOUS
<1>4. PICK cur : cur = frames[f].patches
  OBVIOUS
<1>5. PICK G : G = GlobalsOf(f)
  OBVIOUS
<1>6. PICK n : n = Len(packed) + 1
  OBVIOUS
<1>7. /\ Len(cur) \in Nat /\ DOMAIN cur = 1 .. Len(cur)
      /\ \A i \in 1 .. Len(cur) : cur[i] \in PatchSet
      /\ Lists(others, (1 .. Len(cur)) \ G)
      /\ G \subseteq 1 .. Len(cur) /\ G = {tracks[t][n] : t \in Alive}
      /\ n \in 1 .. at - first + 1 /\ f = first + n - 1
  BY <1>1, <1>2, <1>3, <1>4, <1>5, <1>6, CurrentFacts
<1>8. /\ first \in Nat
      /\ \A s, t \in Alive : tracks[s][n] = tracks[t][n] => s = t
  BY <1>1, <1>7, TrackFacts
<1>9. items = [i \in 1 .. Len(cur) |->
                 IF i \in G THEN Items(f)[i]
                 ELSE patches[CHOOSE j \in DOMAIN others : others[j] = i]]
  BY <1>2, <1>3, <1>4, <1>5, <1>7
<1>10. IsSeq(items) /\ Len(items) = Len(cur)
  <2>1. items \in [1 .. Len(cur) -> {items[i] : i \in 1 .. Len(cur)}]
    BY <1>9
  <2>2. Len(items) = Len(cur)
    BY <1>7, <2>1, FunctionIsSeq
  <2> QED
    BY <1>7, <1>9, <2>2 DEF IsSeq
<1>11. ASSUME NEW t \in Alive
       PROVE  LET i == tracks[t][n]
              IN  /\ i \in 1 .. Len(cur) /\ items[i] = GlobalItem(cur[i], unions.of[t])
  <2>1. PICK i : i = tracks[t][n]
    OBVIOUS
  <2>2. i \in G /\ i \in 1 .. Len(cur)
    BY <1>7, <2>1
  <2>3. f - first + 1 = n
    BY <1>7, <1>8
  <2>4. (CHOOSE s \in Alive : tracks[s][n] = i) = t
    BY <1>8, <2>1
  <2>5. Items(f)[i] = GlobalItem(cur[i], unions.of[t])
    <3>1. PICK c : c = CHOOSE s \in Alive : tracks[s][f - first + 1] = i
      OBVIOUS
    <3>2. c = t
      BY <2>3, <2>4, <3>1
    <3>3. Items(f)[i] = GlobalItem(cur[i], unions.of[c])
      BY <1>4, <1>5, <1>7, <2>2, <3>1 DEF Items
    <3> QED
      BY <3>2, <3>3
  <2> QED
    BY <1>9, <2>1, <2>2, <2>5
<1>12. \A t \in Alive : SamePlace(items[tracks[t][n]], unions.of[t])
  <2> TAKE t \in Alive
  <2>1. PICK i : i = tracks[t][n]
    OBVIOUS
  <2>2. i \in 1 .. Len(cur) /\ items[i] = GlobalItem(cur[i], unions.of[t])
    BY <1>11, <2>1
  <2>3. PICK c \in PatchSet : c = cur[i]
    BY <1>7, <2>2
  <2>4. SamePlace(GlobalItem(c, unions.of[t]), unions.of[t])
    BY GlobalItemIs
  <2> QED
    BY <2>1, <2>2, <2>3, <2>4
<1>13. ASSUME NEW i \in 1 .. Len(cur)
       PROVE  /\ items[i].shape.view = cur[i].shape.view
              /\ items[i].shape.at = cur[i].shape.at
  <2>1. CASE i \in G
    <3>1. PICK t \in Alive : i = tracks[t][n]
      BY <1>7, <2>1
    <3>2. items[i] = GlobalItem(cur[i], unions.of[t])
      BY <1>11, <3>1
    <3> QED
      BY <1>7, <3>2, GlobalItemIs
  <2>2. CASE i \notin G
    <3>1. i \in (1 .. Len(cur)) \ G
      BY <2>2
    <3>2. DOMAIN others = 1 .. Len(others) /\ \E j \in 1 .. Len(others) : others[j] = i
      BY <1>7, <3>1 DEF Lists, IsSeq
    <3>3. PICK j : j = CHOOSE j2 \in DOMAIN others : others[j2] = i
      OBVIOUS
    <3>4. j \in 1 .. Len(others) /\ others[j] = i
      BY <3>2, <3>3
    <3>5. items[i] = patches[j]
      BY <1>9, <2>2, <3>3
    <3>6. LaidFor(cur, others)
      BY <1>2, <1>3, <1>4 DEF AlignInv, LyingLike
    <3>7. patches[j].shape = cur[i].shape
      BY <3>4, <3>6 DEF LaidFor
    <3> QED
      BY <3>5, <3>7
  <2> QED
    BY <2>1, <2>2
<1>14. ItemsLike(cur, p)
  <2>1. p.items = items /\ p.globals = G
    BY <1>2, <1>5
  <2>2. p.globals \subseteq 1 .. Len(p.items)
    BY <1>7, <1>10, <2>1
  <2>3. IsSeq(p.items) /\ Len(p.items) = Len(cur)
    BY <1>10, <2>1
  <2>4. \A i \in 1 .. Len(cur) : /\ p.items[i].shape.view = cur[i].shape.view
                                 /\ p.items[i].shape.at = cur[i].shape.at
    BY <1>13, <2>1
  <2> QED
    BY <1>7, <2>2, <2>3, <2>4 DEF ItemsLike
<1> QED
  BY <1>2, <1>4, <1>6, <1>12, <1>14

\* The packing of one frame more.
LEMMA AlignFrameLaid ==
  ASSUME AlignInv, AllPacked, FollowInv', FrameLaid
  PROVE  AlignInv'
<1>1. /\ step = "pack" /\ step' \in {"decide", "frame"} /\ FollowInv
      /\ UNCHANGED <<frames, subs, at, first, tracks, unions, pre>>
  BY DEF FrameLaid, AlignInv
<1>2. PICK items :
        items = [i \in DOMAIN frames[Current].patches |->
                    IF i \in GlobalsOf(Current) THEN Items(Current)[i]
                    ELSE patches[CHOOSE j \in DOMAIN Others(Current) :
                                   Others(Current)[j] = i]]
  OBVIOUS
<1>3. PICK p : p = AsPacked(Current, items, GlobalsOf(Current))
  OBVIOUS
<1>4. packed' = Append(packed, p)
  BY <1>2, <1>3 DEF FrameLaid
<1>5. p.items = items /\ p.globals = GlobalsOf(Current)
  BY <1>3 DEF AsPacked
<1>6. PICK n \in Nat : n = Len(packed)
  BY <1>1, CurrentFacts
<1>7. /\ ItemsLike(frames[Current].patches, p)
      /\ \A t \in Alive : SamePlace(items[tracks[t][n + 1]], unions.of[t])
  BY <1>1, <1>2, <1>5, <1>6, FrameItems
<1>8. /\ IsSeq(packed) /\ Current = first + (n + 1) - 1 /\ first + n <= at
      /\ at \in Nat /\ first \in Nat
  BY <1>1, <1>6, CurrentFacts, TrackFacts
<1>9. /\ Len(packed') = n + 1 /\ packed'[n + 1] = p
      /\ \A k \in 1 .. n : packed'[k] = packed[k]
  BY <1>4, <1>6, <1>8, AppendIs
<1>10. PICK q : q = packed'
  OBVIOUS
<1>11. ASSUME NEW k \in 1 .. n + 1
       PROVE  /\ ItemsLike(frames[first + k - 1].patches, q[k])
              /\ q[k].globals = GlobalsOf(first + k - 1)
              /\ \A t \in Alive : SamePlace(q[k].items[tracks[t][k]], unions.of[t])
  <2>1. CASE k \in 1 .. n
    BY <1>1, <1>6, <1>9, <1>10, <2>1 DEF AlignInv, PackedLike
  <2>2. CASE k = n + 1
    BY <1>5, <1>7, <1>8, <1>9, <1>10, <2>2
  <2> QED
    BY <2>1, <2>2
<1>12. Alive' = Alive
  BY <1>1 DEF Alive
<1>13. \A k \in 1 .. n + 1 : GlobalsOf(first + k - 1)' = GlobalsOf(first + k - 1)
  BY <1>1, <1>12 DEF GlobalsOf
<1>14. first' + Len(packed') <= at' + 1
  BY <1>1, <1>8, <1>9
<1>15. \A k \in 1 .. Len(packed') :
         /\ ItemsLike(frames'[first' + k - 1].patches, packed'[k])
         /\ packed'[k].globals = GlobalsOf(first + k - 1)'
         /\ \A t \in Alive' : SamePlace(packed'[k].items[tracks'[t][k]], unions'.of[t])
  BY <1>1, <1>9, <1>10, <1>11, <1>12, <1>13
<1>16. PackedLike'
  BY <1>14, <1>15 DEF PackedLike, ItemsLike, IsSeq, SamePlace
<1>17. ReadyFor(first, pre)'
  BY <1>1, ReadyStays DEF Growing
<1>18. LyingLike'
  BY <1>1 DEF LyingLike
<1> QED
  BY <1>1, <1>16, <1>17, <1>18, AlignOthers

\* Before the allocation there is no subcontext.
LEMMA UntouchedAligned ==
  ASSUME FollowInv, Untouched
  PROVE  AlignInv
<1>1. subs = <<>> /\ step = "start"
  BY DEF Untouched
<1>2. GlobalsAligned
  BY <1>1 DEF GlobalsAligned
<1>3. SubsBelow
  BY <1>1 DEF SubsBelow
<1> QED
  BY <1>1, <1>2, <1>3 DEF AlignInv, LyingLike, Growing

\* While the group is packed there is no subcontext.
LEMMA UntouchedStays ==
  ASSUME FollowInv, ~AllPacked, [GpaNext]_gpaVars
  PROVE  Untouched'
<1>1. Untouched
  BY DEF FollowInv
<1>2. CASE GpaNext
  <2>1. PackStep
    BY <1>1, <1>2, StepsBefore
  <2> QED
    BY <1>1, <2>1 DEF PackStep, Untouched, NoUnions
<1>3. CASE UNCHANGED gpaVars
  BY <1>1, <1>3 DEF gpaVars, Untouched, NoUnions
<1> QED
  BY <1>2, <1>3

\* A missed points patch that is packed again leaves the patches alone.
LEMMA AlignLayMissed ==
  ASSUME AlignInv, AllPacked, FollowInv', LayMissed
  PROVE  AlignInv'
<1>1. UNCHANGED <<patches, subs, step, at, first, tracks, unions, packed, pre>>
  BY DEF LayMissed
<1>2. PICK n : frames' = [frames EXCEPT ![Current].missed = <<n>>]
  BY DEF LayMissed
<1>3. IsSeq(frames) /\ DOMAIN frames = 1 .. PackFrames
  BY DEF AlignInv, FollowInv, OpenInv, IsSeq
<1>4. ASSUME NEW f \in 1 .. PackFrames
      PROVE  frames'[f].patches = frames[f].patches
  <2>1. CASE f = Current
    <3>1. PICK r : r = frames[f]
      OBVIOUS
    <3>2. frames'[f] = [r EXCEPT !.missed = <<n>>]
      BY <1>2, <1>3, <2>1, <3>1
    <3>3. [r EXCEPT !.missed = <<n>>].patches = r.patches
      OBVIOUS
    <3> QED
      BY <3>1, <3>2, <3>3
  <2>2. CASE f # Current
    BY <1>2, <1>3, <2>2
  <2> QED
    BY <2>1, <2>2
<1> QED
  BY <1>1, <1>4, AlignStay

\* The invariant of the subcontexts is inductive.
LEMMA AlignNext ==
  ASSUME MatchedBefore, AlignInv, [GpaNext]_gpaVars
  PROVE  AlignInv'
<1>1. FollowInv /\ FollowInv'
  BY FollowNext DEF AlignInv
<1>2. CASE ~AllPacked
  <2>1. Untouched'
    BY <1>1, <1>2, UntouchedStays
  <2>2. ASSUME FollowInv', Untouched' PROVE AlignInv'
    BY <2>2, UntouchedAligned, PTL
  <2> QED
    BY <1>1, <2>1, <2>2
<1>3. CASE AllPacked
  <2>1. CASE FirstLaid
    BY <1>1, <1>3, <2>1, AlignFirstLaid
  <2>2. CASE Accept
    BY <1>1, <1>3, <2>2, AlignAccept
  <2>3. CASE GiveUp \/ Reject
    BY <1>1, <1>3, <2>3, AlignRollBack DEF GiveUp, Reject, Growing
  <2>4. CASE StartSubContext
    BY <1>1, <1>3, <2>4, AlignStart
  <2>5. CASE Track \/ Unite
    BY <1>1, <1>3, <2>5, AlignBetween
  <2>6. CASE BeginFrame
    BY <1>1, <1>3, <2>6, AlignBeginFrame
  <2>7. CASE FrameLaid
    BY <1>1, <1>3, <2>7, AlignFrameLaid
  <2>8. CASE LayPatch
    BY <1>1, <1>3, <2>8, AlignLayPatch
  <2>9. CASE LayMissed
    BY <1>1, <1>3, <2>9, AlignLayMissed
  <2>10. CASE LayGrow \/ GpaEnds \/ UNCHANGED gpaVars
    <3>1. UNCHANGED <<frames, patches, subs, step, at, first, tracks, unions, packed, pre>>
      BY <2>10 DEF LayGrow, GpaEnds, gpaVars, packVars
    <3> QED
      BY <1>1, <1>3, <3>1, AlignStay
  <2>11. ~PackStep
    BY <1>3 DEF PackStep
  <2> QED
    BY <2>1, <2>2, <2>3, <2>4, <2>5, <2>6, <2>7, <2>8, <2>9, <2>10, <2>11 DEF GpaNext
<1> QED
  BY <1>2, <1>3

\* Before anything is packed.
LEMMA AlignInit ==
  ASSUME GpaInit
  PROVE  AlignInv
<1>1. FollowInv
  BY FollowInit
<1>2. Untouched
  BY DEF GpaInit, Untouched
<1> QED
  BY <1>1, <1>2, UntouchedAligned

\* In every finished subcontext the global patches come first in every frame,
\* in one order: those at the same place of the list lie in boxes of one size
\* at one place of the canvas, and each is matched to the one before.
THEOREM GlobalsAlignedHolds ==
  ASSUME MatchedBefore PROVE GpaSpec => []GlobalsAligned
<1>1. GpaInit => AlignInv
  BY AlignInit
<1>2. AlignInv /\ [GpaNext]_gpaVars => AlignInv'
  BY AlignNext
<1>3. AlignInv => GlobalsAligned
  BY DEF AlignInv
<1> QED
  BY <1>1, <1>2, <1>3, PTL DEF GpaSpec

-----------------------------------------------------------------------------
(***************************************************************************)
(* Finishing a subcontext loses no patch and no match.                     *)
(***************************************************************************)
\* The frames of s are those before, in another order.
SubKept(s, up) ==
  \A f \in s.lo .. s.hi :
    \E order \in [DOMAIN frames[f].patches -> DOMAIN up[f].patches] :
      /\ {order[i] : i \in DOMAIN order} = DOMAIN up[f].patches
      /\ \A i \in DOMAIN order :
           LET old == frames[f].patches[i].match
               new == up[f].patches[order[i]].match
           IN  /\ RemainsAs(up, f, i, order[i])
               /\ f > s.lo /\ old # Invalid => RemainsAs(up, f - 1, old + 1, new + 1)
      /\ f = s.hi => \A i \in DOMAIN order : order[i] = i

\* A subcontext that is finished has lost nothing.
LEMMA CloseKeeps ==
  ASSUME AlignInv, AllPacked, NEW lo, NEW ps, ReadyFor(lo, ps), lo = LastDone + 1,
         Close(lo, ps)
  PROVE  SubKept(subs'[Len(subs')], frames')
<1>1. /\ OpenFrom(lo) /\ IsSeq(subs) /\ lo \in Nat
  BY OpenFrames DEF AlignInv
<1>2. Len(ps) \in Nat \ {0}
  BY <1>1, SubFrames
<1>3. PICK up : up = frames'
  OBVIOUS
<1>4. up = Update(frames, lo, ps)
  BY <1>3 DEF Close
<1>5. PICK s : s = subs'[Len(subs')]
  OBVIOUS
<1>6. s.lo = lo /\ s.hi = lo + Len(ps) - 1
  <2>1. PICK sub : sub = [lo |-> lo, hi |-> lo + Len(ps) - 1,
                          globals |-> [k \in DOMAIN ps |-> ps[k].globals]]
    OBVIOUS
  <2>2. subs' = Append(subs, sub)
    BY <2>1 DEF Close
  <2>3. s = sub
    BY <1>1, <1>5, <2>2, AppendIs DEF IsSeq
  <2> QED
    BY <2>1, <2>3
<1>7. ASSUME NEW f \in lo .. lo + Len(ps) - 1
      PROVE  \E order \in [DOMAIN frames[f].patches -> DOMAIN up[f].patches] :
               /\ {order[i] : i \in DOMAIN order} = DOMAIN up[f].patches
               /\ \A i \in DOMAIN order :
                    LET old == frames[f].patches[i].match
                        new == up[f].patches[order[i]].match
                    IN  /\ RemainsAs(up, f, i, order[i])
                        /\ f > lo /\ old # Invalid =>
                             RemainsAs(up, f - 1, old + 1, new + 1)
               /\ f = lo + Len(ps) - 1 => \A i \in DOMAIN order : order[i] = i
  <2>1. PICK k : k = f - lo + 1
    OBVIOUS
  <2>2. /\ k \in 1 .. Len(ps) /\ lo + k - 1 = f
        /\ f > lo <=> k > 1
        /\ f = lo + Len(ps) - 1 <=> k = Len(ps)
    <3>1. PICK n \in Nat \ {0} : n = Len(ps)
      BY <1>2
    <3>2. f \in lo .. lo + n - 1
      BY <3>1
    <3>3. k \in 1 .. n /\ lo + k - 1 = f
      BY <1>1, <2>1, <3>1, <3>2
    <3>4. (f > lo <=> k > 1) /\ (f = lo + n - 1 <=> k = n)
      BY <1>1, <2>1, <3>1, <3>2
    <3> QED
      BY <3>1, <3>3, <3>4
  <2>3. \E order \in [DOMAIN frames[lo + k - 1].patches -> DOMAIN up[lo + k - 1].patches] :
          IsWay(lo, ps, up, k, order)
    BY <1>1, <1>4, <2>2, FinishedWay
  <2>4. PICK order \in [DOMAIN frames[f].patches -> DOMAIN up[f].patches] :
          IsWay(lo, ps, up, k, order)
    BY <2>2, <2>3
  <2>5. /\ {order[i] : i \in DOMAIN order} = DOMAIN up[f].patches
        /\ \A i \in DOMAIN order :
             /\ RemainsAs(up, f, i, order[i])
             /\ k > 1 /\ frames[f].patches[i].match # Invalid =>
                  RemainsAs(up, f - 1, frames[f].patches[i].match + 1,
                            up[f].patches[order[i]].match + 1)
        /\ k = Len(ps) => \A i \in DOMAIN order : order[i] = i
    BY <2>2, <2>4 DEF IsWay
  <2> QED
    BY <2>2, <2>4, <2>5
<1>8. SubKept(s, up)
  BY <1>6, <1>7 DEF SubKept
<1> QED
  BY <1>3, <1>5, <1>8

\* Every step that finishes a subcontext is one of those.
LEMMA KeptNext ==
  ASSUME AlignInv, [GpaNext]_gpaVars, subs' # subs
  PROVE  SubKept(subs'[Len(subs')], frames')
<1>1. FollowInv
  BY DEF AlignInv
<1>2. AllPacked
  <2>1. ~AllPacked => subs' = subs
    BY <1>1, UntouchedStays DEF FollowInv, Untouched
  <2> QED
    BY <2>1
<1>3. FirstLaid \/ Accept \/ GiveUp \/ Reject
  BY DEF GpaNext, PackStep, StartSubContext, Track, Unite, BeginFrame, FrameLaid,
         LayPatch, LayMissed, LayGrow, GpaEnds, gpaVars
<1>4. CASE FirstLaid
  <2>1. step = "first"
    BY <1>4 DEF FirstLaid
  <2> DEFINE p == AsPacked(at, patches, DOMAIN patches)
  <2>2. Close(at, <<p>>)
    BY <1>4 DEF FirstLaid
  <2>3. ReadyFor(at, <<p>>) /\ at = LastDone + 1
    BY <1>2, <2>1, FirstReady
  <2> HIDE DEF p
  <2> QED
    BY <1>2, <2>2, <2>3, CloseKeeps
<1>5. CASE Accept
  <2>1. Close(first, packed) /\ step = "decide" /\ ~BadPacking
    BY <1>5 DEF Accept
  <2> QED
    BY <1>2, <2>1, AcceptReady, CloseKeeps
<1>6. CASE GiveUp \/ Reject
  <2>1. Close(first, pre) /\ step \in Growing
    BY <1>6 DEF GiveUp, Reject, RollBack, Growing
  <2>2. ReadyFor(first, pre)
    BY <2>1 DEF AlignInv
  <2>3. first = LastDone + 1
    BY <1>1, <2>1 DEF FollowInv, TileInv, Control
  <2> QED
    BY <1>2, <2>1, <2>2, <2>3, CloseKeeps
<1> QED
  BY <1>3, <1>4, <1>5, <1>6

\* Finishing a subcontext only reorders the patches of its frames, and the
\* patch a match names is still the same one.
THEOREM NothingLostHolds ==
  ASSUME MatchedBefore PROVE GpaSpec => NothingLost
<1>1. GpaInit => AlignInv
  BY AlignInit
<1>2. AlignInv /\ [GpaNext]_gpaVars => AlignInv'
  BY AlignNext
<1>3. AlignInv /\ [GpaNext]_gpaVars =>
        [subs' # subs =>
           LET s == subs'[Len(subs')]
           IN  \A f \in s.lo .. s.hi :
                 \E order \in [DOMAIN frames[f].patches -> DOMAIN frames'[f].patches] :
                   /\ {order[i] : i \in DOMAIN order} = DOMAIN frames'[f].patches
                   /\ \A i \in DOMAIN order :
                        LET old == frames[f].patches[i].match
                            new == frames'[f].patches[order[i]].match
                        IN  /\ Remains(f, i, order[i])
                            /\ f > s.lo /\ old # Invalid =>
                                 Remains(f - 1, old + 1, new + 1)
                   /\ f = s.hi => \A i \in DOMAIN order : order[i] = i]_gpaVars
  BY KeptNext DEF SubKept, RemainsAs, Remains
<1> QED
  BY <1>1, <1>2, <1>3, PTL DEF GpaSpec, NothingLost

-----------------------------------------------------------------------------
(***************************************************************************)
(* A packing of a frame that is kept until its subcontext is finished.     *)
(***************************************************************************)
\* Of two patches the one that was laid first: global patches before others,
\* and of each kind in the order of the list.
Prior(G, i, j) == IF i \in G THEN j \notin G \/ i < j ELSE j \notin G /\ i < j

LaidOut(p, row) ==
  /\ \A i \in 1 .. Len(p.items) :
       Box(p.items[i]) \subseteq (0 .. p.width - 1) \X (0 .. row - 1)
  /\ \A i, j \in 1 .. Len(p.items) :
       Prior(p.globals, i, j) => Occ(p.items[i]) \cap Box(p.items[j]) = {}

\* A missed points patch that keeps its size when it is packed again.
MissedStays(m) ==
  /\ m.w \in 1 .. MinU /\ m.h \in Nat \ {0} /\ m.u0 = 0
  /\ m.h = CeilDiv(m.w * m.h, MinU) /\ m.w = CeilDiv(m.w * m.h, m.h)

\* It has its place below row in an image of this size.
MissedBelow(m, row, width, height) ==
  MissedStays(m) /\ m.w <= width /\ row + m.h <= height

\* The packing p of a frame in which the missed points patches ms are laid.
PackingIs(p, ms) ==
  /\ IsSeq(p.items) /\ \A i \in 1 .. Len(p.items) : Solid(p.items[i])
  /\ p.width \in Nat /\ p.height \in Nat
  /\ \E row \in 0 .. p.height :
       /\ LaidOut(p, row)
       /\ ms # <<>> => p.row = row /\ MissedBelow(ms[1], row, p.width, p.height)

\* The missed points patches of frame f that are laid.
ToLay(f) == IF opt.separate THEN <<>> ELSE frames[f].missed

PackingsOK(lo, ps) == \A k \in 1 .. Len(ps) : PackingIs(ps[k], ToLay(lo + k - 1))

-----------------------------------------------------------------------------
(***************************************************************************)
(* The frames.                                                             *)
(***************************************************************************)
\* A frame that is not finished, when missed points are or are not separate.
MissedOpen(fr, separate) ==
  /\ fr.missed \in Seq(MissedSet) /\ Len(fr.missed) <= 1
  /\ fr.laid = IF separate THEN 0 ELSE Len(fr.missed)
  /\ MissedSizes \subseteq {<<>>} => fr.missed = <<>>
  /\ ~separate /\ fr.missed # <<>> => fr.missed[1].w > 0 /\ fr.missed[1].h > 0

FinishedOK(fr) ==
  /\ IsSeq(fr.patches) /\ \A i \in 1 .. Len(fr.patches) : Solid(fr.patches[i])
  /\ ApartIn(fr) /\ InImage(fr) /\ OwnersRightIn(fr)

\* The matches of a list name members of B.
MatchedIn(ps, B) ==
  \A i \in 1 .. Len(ps) : ps[i].match = Invalid \/ ps[i].match + 1 \in 1 .. Len(B)

FramesPart ==
  /\ opt \in Options
  /\ \A f \in 1 .. LastDone : FinishedOK(frames[f])
  /\ \A f \in LastDone + 1 .. PackFrames : MissedOpen(frames[f], opt.separate)
  /\ LastDone \in 1 .. PackFrames - 1 =>
       MatchedIn(frames[LastDone + 1].patches, frames[LastDone].patches)

-----------------------------------------------------------------------------
(***************************************************************************)
(* Laying.                                                                 *)
(***************************************************************************)
\* No patch makes the canvas wider than it is at least.
Narrow == \A s \in Shapes : s.w < MinU

\* p has all that is occupied in the patches of the track t.
HoldsTrack(p, t) ==
  /\ Narrow => p.shape.w < MinU
  /\ \A k \in 1 .. at - first + 1 : TrackPatch(t, k).shape.occ \subseteq p.shape.occ

\* What lies on the canvas before anything of the list does.
Ground ==
  IF step = "pack" THEN {Items(Current)[i] : i \in GlobalsOf(Current)} ELSE {}

\* What the list that is laid is matched to.
Behind ==
  IF step = "pack" /\ packed # <<>> THEN packed[Len(packed)].items
  ELSE frames[LastDone].patches

\* The missed points patch lies below all patches.
MissedLies ==
  ToLay(Current) # <<>> =>
    /\ placed = Len(patches)
    /\ ToLay(Current)[1].v0 = canvas.row
    /\ MissedBelow(ToLay(Current)[1], canvas.row, canvas.width, canvas.height)

MissedInv ==
  IF step = "union" THEN missed = <<>>
  ELSE missed = ToLay(Current) \/ (missed = <<>> /\ MissedLies)

UnionList ==
  /\ Len(patches) = Len(Ascending(Alive))
  /\ \A i \in 1 .. Len(patches) : HoldsTrack(patches[i], tracks[Ascending(Alive)[i]])

ListOK(ps) == IsSeq(ps) /\ \A i \in 1 .. Len(ps) : IsPatch(ps[i]) /\ Solid(ps[i])

LayingInv ==
  /\ CanvasOK(canvas) /\ (step # "union" /\ Narrow => canvas.U = MinU)
  /\ ListOK(patches) /\ placed \in 0 .. Len(patches)
  /\ LiesOn(patches, placed, Ground, canvas)
  /\ Current # 1 => MatchedIn(patches, Behind)
  /\ step = "union" => UnionList
  /\ MissedInv

-----------------------------------------------------------------------------
(***************************************************************************)
(* The attempt under way.                                                  *)
(***************************************************************************)
UnionInv ==
  /\ unions.height \in Nat
  /\ \A t \in Alive :
       /\ Solid(unions.of[t]) /\ HoldsTrack(unions.of[t], tracks[t])
       /\ Box(unions.of[t]) \subseteq Nat \X Nat
  /\ \A s, t \in Alive : s < t => Occ(unions.of[s]) \cap Box(unions.of[t]) = {}

LayPart == step \in {"first", "union", "pack"} => LayingInv
PrePart == step \in Growing => PackingsOK(first, pre)
PackedPart == step \in {"frame", "pack", "decide"} => UnionInv /\ PackingsOK(first, packed)

LayoutInv == AlignInv /\ (AllPacked => FramesPart /\ LayPart /\ PrePart /\ PackedPart)

\* While the group is packed the invariant of packing goes on to hold.
LEMMA PackingGoesOn ==
  ASSUME FollowInv, ~AllPacked, [GpaNext]_gpaVars
  PROVE  Untouched' /\ PackInv' /\ PackExtra'
<1>1. Untouched /\ PackInv /\ PackExtra
  BY DEF FollowInv
<1>2. CASE GpaNext
  <2>1. PackStep
    BY <1>1, <1>2, StepsBefore
  <2>2. Untouched'
    BY <1>1, <2>1 DEF PackStep, Untouched, NoUnions
  <2> QED
    BY <1>1, <2>1, <2>2, PackStepNext, NextInv, PackStepExtra
<1>3. CASE UNCHANGED gpaVars
  <2>1. UNCHANGED packVars /\ Untouched'
    BY <1>1, <1>3 DEF gpaVars, Untouched, NoUnions
  <2>2. PackInv'
    BY <1>1, <2>1, NextInv
  <2>3. PackExtra'
    BY <1>1, <2>1 DEF packVars, PackExtra, InHand, Prev, FrameExtra, MissedSound, OverlapsIn, Overlap
  <2> QED
    BY <2>1, <2>2, <2>3
<1> QED
  BY <1>2, <1>3

\* What packing leaves of the missed points patches.
LEMMA PackedMissed ==
  ASSUME MissedSound, PackInv, PackExtra, NEW f \in 1 .. Len(frames)
  PROVE  MissedOpen(frames[f], opt.separate)
<1>1. frames[f] \in FrameSet /\ FrameLayout(frames[f]) /\ opt \in Options
  BY TypeFacts DEF FramesLayout
<1>2. FrameExtra(frames[f])
  BY DEF PackExtra
<1>3. PICK m, k : m = frames[f].missed /\ k = frames[f].laid
  OBVIOUS
<1>4. m \in Seq(MissedSet) /\ Len(m) <= 1 /\ Len(m) \in Nat /\ k \in Nat
  BY <1>1, <1>2, <1>3 DEF FrameSet, FrameExtra
<1>5. opt.separate \in BOOLEAN
  BY <1>1, OptionsType
<1>6. k = IF opt.separate THEN 0 ELSE Len(m)
  BY <1>2, <1>3, <1>5 DEF FrameExtra
<1>7. MissedSizes \subseteq {<<>>} => m = <<>>
  BY <1>2, <1>3 DEF FrameExtra
<1>8. ~opt.separate /\ m # <<>> => m[1].w > 0 /\ m[1].h > 0
  <2> SUFFICES ASSUME ~opt.separate, m # <<>> PROVE m[1].w > 0 /\ m[1].h > 0
    OBVIOUS
  <2>1. Len(m) # 0
    BY <1>4
  <2>2. 1 \in 1 .. k
    BY <1>4, <1>6, <2>1
  <2>3. m[1].w \in Nat \ {0} /\ m[1].h \in Nat \ {0}
    BY <1>1, <1>3, <2>2 DEF FrameLayout, Layout
  <2> QED
    BY <2>3
<1> QED
  BY <1>3, <1>4, <1>6, <1>7, <1>8 DEF MissedOpen

\* The allocation starts with nothing finished and nothing under way.
LEMMA PackedFrames ==
  ASSUME MissedSound, PackInv, PackExtra, AllPacked, Untouched
  PROVE  FramesPart /\ LayPart /\ PrePart /\ PackedPart
<1>1. LastDone = 0 /\ step = "start"
  BY DEF Untouched, LastDone
<1>2. LayPart /\ PrePart /\ PackedPart
  BY <1>1 DEF LayPart, PrePart, PackedPart, Growing
<1>3. \A f \in LastDone + 1 .. PackFrames : MissedOpen(frames[f], opt.separate)
  BY <1>1, PackedMissed DEF AllPacked
<1>4. LastDone \notin 1 .. PackFrames - 1 /\ \A f \in 1 .. LastDone : FALSE
  BY <1>1, ConstantsType
<1>5. opt \in Options
  BY TypeFacts
<1> QED
  BY <1>2, <1>3, <1>4, <1>5 DEF FramesPart

-----------------------------------------------------------------------------
(***************************************************************************)
(* What a step leaves alone.                                               *)
(***************************************************************************)
LEMMA FramesPartKept ==
  ASSUME FramesPart, UNCHANGED <<opt, frames, subs>>
  PROVE  FramesPart'
<1>1. LastDone' = LastDone
  BY DEF LastDone
<1>2. FramesPart' <=>
        /\ opt \in Options
        /\ \A f \in 1 .. LastDone : FinishedOK(frames[f])
        /\ \A f \in LastDone + 1 .. PackFrames : MissedOpen(frames[f], opt.separate)
        /\ LastDone \in 1 .. PackFrames - 1 =>
             MatchedIn(frames[LastDone + 1].patches, frames[LastDone].patches)
  BY <1>1 DEF FramesPart
<1> QED
  BY <1>2 DEF FramesPart

\* So do the accepted packings.
LEMMA PrePartKept ==
  ASSUME PrePart, UNCHANGED <<opt, frames, first, pre>>, step' \in Growing => step \in Growing
  PROVE  PrePart'
<1> SUFFICES ASSUME step' \in Growing PROVE PackingsOK(first, pre)'
  BY DEF PrePart
<1>1. PackingsOK(first, pre)
  BY DEF PrePart
<1> QED
  BY <1>1 DEF PackingsOK, ToLay

\* And what has been packed in the attempt under way.
LEMMA PackedPartKept ==
  ASSUME PackedPart, UNCHANGED <<opt, frames, at, first, tracks, unions, packed>>,
         step' \in {"frame", "pack", "decide"} => step \in {"frame", "pack", "decide"}
  PROVE  PackedPart'
<1> SUFFICES ASSUME step' \in {"frame", "pack", "decide"}
             PROVE  UnionInv' /\ PackingsOK(first, packed)'
  BY DEF PackedPart
<1>1. UnionInv /\ PackingsOK(first, packed)
  BY DEF PackedPart
<1>2. PackingsOK(first, packed)'
  BY <1>1 DEF PackingsOK, ToLay
<1>3. UnionInv'
  BY <1>1 DEF UnionInv, HoldsTrack, TrackPatch, Alive
<1> QED
  BY <1>2, <1>3

\* Missed points are packed into the image only when no patch is wide.
LEMMA NarrowWhenLaid ==
  ASSUME MissedSound, FramesPart, NEW f \in LastDone + 1 .. PackFrames, ToLay(f) # <<>>
  PROVE  /\ Narrow /\ ~opt.separate /\ ToLay(f) = frames[f].missed
         /\ Len(frames[f].missed) = 1 /\ frames[f].laid = 1
         /\ frames[f].missed = <<frames[f].missed[1]>>
         /\ frames[f].missed[1] \in MissedSet
         /\ frames[f].missed[1].w \in Nat \ {0} /\ frames[f].missed[1].h \in Nat \ {0}
<1>1. opt \in Options /\ MissedOpen(frames[f], opt.separate)
  BY DEF FramesPart
<1>2. ~opt.separate /\ ToLay(f) = frames[f].missed
  BY DEF ToLay
<1>3. ~(MissedSizes \subseteq {<<>>})
  BY <1>1, <1>2 DEF MissedOpen
<1>4. Narrow
  BY <1>1, <1>2, <1>3 DEF MissedSound, Narrow
<1>5. PICK m : m = frames[f].missed
  OBVIOUS
<1>6. m \in Seq(MissedSet) /\ Len(m) <= 1 /\ m # <<>> /\ m[1].w > 0 /\ m[1].h > 0
      /\ frames[f].laid = Len(m)
  BY <1>1, <1>2, <1>5 DEF MissedOpen
<1>7. Len(m) = 1
  <2>1. Len(m) \in Nat /\ Len(m) # 0 /\ Len(m) <= 1
    BY <1>6
  <2>2. \A l \in Nat : l # 0 /\ l <= 1 => l = 1
    OBVIOUS
  <2> QED
    BY <2>1, <2>2, Zenon
<1>8. m[1] \in MissedSet /\ m = <<m[1]>>
  BY <1>6, <1>7
<1>9. m[1].w \in Nat \ {0} /\ m[1].h \in Nat \ {0}
  BY <1>6, <1>8 DEF MissedSet
<1> QED
  BY <1>2, <1>4, <1>5, <1>6, <1>7, <1>8, <1>9

\* A new subcontext starts with an empty canvas.
LEMMA LayStart ==
  ASSUME AlignInv, AllPacked, FramesPart, FollowInv', StartSubContext
  PROVE  FramesPart' /\ LayPart' /\ PrePart' /\ PackedPart'
<1>1. /\ step = "start" /\ step' = "first" /\ at <= PackFrames
      /\ UNCHANGED <<opt, frames, at, first, subs, packed>>
      /\ patches' = frames[at].patches /\ placed' = 0
      /\ canvas' = StartCanvas(frames[at].patches)
      /\ missed' = IF opt.separate THEN <<>> ELSE frames[at].missed
  BY DEF StartSubContext, Begin
<1>2. FramesPart'
  BY <1>1, FramesPartKept
<1>3. PrePart' /\ PackedPart'
  BY <1>1 DEF PrePart, PackedPart, Growing
<1>4. /\ OpenFrom(LastDone + 1) /\ LastDone \in Nat /\ at = 1 + LastDone + Len(pre)
      /\ OpenInv /\ Control
  BY OpenFrames DEF AlignInv, FollowInv, TileInv
<1>5. at = LastDone + 1
  BY <1>1, <1>4 DEF Control, Growing
<1>6. PICK ps : ps = frames[at].patches
  OBVIOUS
<1>7. ps \in Seq(PatchSet) /\ Len(ps) >= 1
  BY <1>1, <1>4, <1>5, <1>6, ConstantsType DEF OpenInv
<1>8. Len(ps) \in Nat /\ DOMAIN ps = 1 .. Len(ps) /\ IsSeq(ps)
      /\ \A i \in 1 .. Len(ps) : ps[i] \in PatchSet
  BY <1>7 DEF IsSeq
<1>9. ListOK(ps)
  BY <1>8, AsPatch, PatchFields DEF ListOK
<1>10. \A i \in 1 .. Len(ps) : ps[i].shape \in Shapes /\ ps[i].shape.w \in Nat \ {0}
  BY <1>8, PatchFields
<1>11. StartU(ps) \in Nat \ {0} /\ (Narrow => StartU(ps) = MinU)
  <2>1. Narrow => \A i \in 1 .. Len(ps) : ps[i].shape.w < MinU
    BY <1>10 DEF Narrow
  <2> QED
    BY <1>8, <1>10, <2>1, StartUIs
<1>12. StartV(ps) \in Nat
  <2>1. ps # <<>>
    BY <1>7
  <2> QED
    BY <1>7, <2>1, StartVType
<1>13. CanvasOK(canvas') /\ canvas'.U = StartU(ps)
  BY <1>1, <1>6, <1>11, <1>12, CanvasEmpty DEF StartCanvas
<1>14. Current' = at /\ Ground' = {} /\ Behind' = frames[LastDone].patches
  BY <1>1 DEF Current, Ground, Behind, LastDone
<1>15. LiesOn(patches', placed', Ground', canvas')
  BY <1>1, <1>14, LiesNone
<1>16. at # 1 => MatchedIn(ps, frames[LastDone].patches)
  <2> SUFFICES ASSUME at # 1 PROVE MatchedIn(ps, frames[LastDone].patches)
    OBVIOUS
  <2>1. LastDone \in 1 .. PackFrames - 1
    BY <1>1, <1>4, <1>5, ConstantsType
  <2> QED
    BY <1>5, <1>6, <2>1 DEF FramesPart
<1>17. missed' = ToLay(Current)'
  BY <1>1, <1>14 DEF ToLay
<1>18. LayingInv'
  <2>1. placed' \in 0 .. Len(patches')
    BY <1>1, <1>6, <1>8
  <2>2. CanvasOK(canvas)' /\ (step' # "union" /\ Narrow => canvas'.U = MinU)
    BY <1>11, <1>13
  <2>3. MissedInv'
    BY <1>1, <1>17 DEF MissedInv
  <2> QED
    BY <1>1, <1>6, <1>9, <1>14, <1>15, <1>16, <2>1, <2>2, <2>3 DEF LayingInv
<1> QED
  BY <1>2, <1>3, <1>18 DEF LayPart

\* The frame whose patches are laid.
LEMMA LayFacts ==
  ASSUME AlignInv, AllPacked, step \in {"first", "union", "pack"}
  PROVE  /\ LastDone \in Nat /\ PackFrames \in Nat /\ at \in Nat /\ at <= PackFrames
         /\ Current \in LastDone + 1 .. PackFrames /\ Current \in 1 .. PackFrames
         /\ step = "first" => Current = at /\ at = LastDone + 1
         /\ step # "first" => first = LastDone + 1 /\ Current = first + Len(packed)
                                /\ IsSeq(packed) /\ Len(packed) \in Nat /\ Current <= at
         /\ step = "union" => packed = <<>> /\ Current = first
         /\ packed = <<>> => Current = LastDone + 1
         /\ LastDone # 0 /\ LastDone + 1 <= PackFrames => LastDone \in 1 .. PackFrames - 1
<1>1. /\ LastDone \in Nat /\ at = 1 + LastDone + Len(pre) /\ Len(pre) \in Nat
      /\ OpenInv /\ Control /\ PackFrames \in Nat
  BY OpenFrames, ConstantsType DEF AlignInv, FollowInv, TileInv
<1>2. at \in Nat /\ at <= PackFrames
  BY <1>1 DEF OpenInv, Growing
<1>3. ASSUME step = "first"
      PROVE  Current = at /\ at = LastDone + 1
  <2>1. Current = at /\ pre = <<>>
    BY <1>1, <1>3 DEF Current, Control, Growing
  <2> QED
    BY <1>1, <2>1
<1>4. ASSUME step # "first"
      PROVE  /\ first = LastDone + 1 /\ Current = first + Len(packed) /\ Current <= at
             /\ IsSeq(packed) /\ Len(packed) \in Nat
             /\ step = "union" => packed = <<>> /\ Current = first
             /\ packed = <<>> => Current = first
  <2>1. /\ first = LastDone + 1 /\ Current = first + Len(packed) /\ IsSeq(packed)
        /\ step = "union" => packed = <<>>
        /\ step = "pack" => first + Len(packed) <= at
        /\ Len(pre) \in Nat \ {0} /\ at = first + Len(pre)
    BY <1>1, <1>4 DEF Current, Control, Growing
  <2>2. Len(packed) \in Nat
    BY <2>1 DEF IsSeq
  <2>3. packed = <<>> => Current = first
    BY <1>1, <2>1
  <2>4. Current <= at
    <3>1. step = "pack" \/ step = "union"
      BY <1>4
    <3>2. step = "union" => Current <= at
      BY <1>1, <2>1, <2>3
    <3> QED
      BY <2>1, <3>1, <3>2
  <2> QED
    BY <2>1, <2>2, <2>3, <2>4
<1>5. Current \in LastDone + 1 .. PackFrames
  <2>1. CASE step = "first"
    BY <1>1, <1>2, <1>3, <2>1
  <2>2. CASE step # "first"
    BY <1>1, <1>2, <1>4, <2>2
  <2> QED
    BY <2>1, <2>2
<1>6. Current \in 1 .. PackFrames
  BY <1>1, <1>5
<1>7. packed = <<>> => Current = LastDone + 1
  BY <1>3, <1>4
<1>8. LastDone # 0 /\ LastDone + 1 <= PackFrames => LastDone \in 1 .. PackFrames - 1
  BY <1>1
<1> QED
  BY <1>1, <1>2, <1>3, <1>4, <1>5, <1>6, <1>7, <1>8

\* What the patches that are laid are matched to has been placed.
LEMMA BehindSolid ==
  ASSUME AlignInv, AllPacked, FramesPart, PackedPart, step \in {"first", "union", "pack"},
         Current # 1
  PROVE  \A i \in 1 .. Len(Behind) : Solid(Behind[i])
<1>1. CASE step = "pack" /\ packed # <<>>
  <2>1. Behind = packed[Len(packed)].items
    BY <1>1 DEF Behind
  <2>2. Len(packed) \in 1 .. Len(packed)
    <3>1. IsSeq(packed) /\ Len(packed) \in Nat
      BY <1>1, LayFacts
    <3>2. Len(packed) # 0
      BY <1>1, <3>1 DEF IsSeq
    <3> QED
      BY <3>1, <3>2
  <2>3. PackingIs(packed[Len(packed)], ToLay(first + Len(packed) - 1))
    BY <1>1, <2>2 DEF PackedPart, PackingsOK
  <2> QED
    BY <2>1, <2>3 DEF PackingIs
<1>2. CASE ~(step = "pack" /\ packed # <<>>)
  <2>1. Behind = frames[LastDone].patches
    BY <1>2 DEF Behind
  <2>2. LastDone \in 1 .. LastDone
    BY <1>2, LayFacts
  <2>3. FinishedOK(frames[LastDone])
    BY <2>2 DEF FramesPart
  <2> QED
    BY <2>1, <2>3 DEF FinishedOK
<1> QED
  BY <1>1, <1>2

\* Where a patch is tried.
LEMMA GpaTriesType ==
  ASSUME AlignInv, AllPacked, FramesPart, PackedPart, LayingInv,
         step \in {"first", "union", "pack"}, NEW i \in 1 .. Len(patches), NEW p, p = patches[i],
         NEW t \in GpaTries(p, canvas)
  PROVE  IsTry(t)
<1>1. opt \in Options /\ opt.guard \in Nat /\ canvas.U \in Int /\ canvas.V \in Int
  BY OptionsType DEF FramesPart, LayingInv, CanvasOK
<1>2. CASE p.match = Invalid \/ (step = "union" /\ first = 1) \/ Current = 1
  <2>1. step = "union" => Current = first
    BY LayFacts
  <2>2. t \in FlexibleFreeTries(p, canvas)
    BY <1>2, <2>1 DEF GpaTries, UnionTries, UnionFreeTries
  <2> QED
    BY <1>1, <2>2, FlexibleTurnsType, RowByRowType DEF FlexibleFreeTries
<1>3. CASE ~(p.match = Invalid \/ (step = "union" /\ first = 1) \/ Current = 1)
  <2>1. PICK q : q = Behind[p.match + 1]
    OBVIOUS
  <2>2. p.match + 1 \in 1 .. Len(Behind)
    BY <1>3 DEF LayingInv, MatchedIn
  <2>3. Solid(q)
    BY <1>3, <2>1, <2>2, BehindSolid
  <2>4. /\ LastDone \in Nat
        /\ step = "first" => at - 1 = LastDone /\ Current = at
        /\ step # "first" => first - 1 = LastDone /\ Current = first + Len(packed) /\ Len(packed) \in Nat
    BY LayFacts
  <2>5. CASE step = "union"
    <3>1. q = frames[first - 1].patches[p.match + 1]
      BY <2>1, <2>4, <2>5 DEF Behind
    <3>2. t \in RowByRow(<<q.turn>>, canvas.U - 1, canvas.V - 1)
      BY <1>3, <2>5, <3>1 DEF GpaTries, UnionTries
    <3>3. \A k \in DOMAIN <<q.turn>> : <<q.turn>>[k] \in Turns
      BY <2>3 DEF Solid
    <3> QED
      BY <1>1, <3>2, <3>3, RowByRowType
  <2>6. CASE step = "first"
    <3>1. q = MatchOf(at, p)
      BY <2>1, <2>4, <2>6 DEF Behind, MatchOf
    <3>2. t \in Follow(q, 0, canvas)
      BY <1>3, <2>4, <2>6, <3>1 DEF GpaTries
    <3> QED
      BY <1>1, <2>3, <3>2, FollowTries
  <2>7. CASE step = "pack"
    <3>1. q = MatchOf(Current, p)
      <4>1. CASE packed = <<>>
        <5>1. Current = first
          BY <2>4, <2>7, <4>1, LayFacts
        <5>2. Behind = frames[first - 1].patches
          BY <2>4, <2>7, <4>1 DEF Behind
        <5> QED
          BY <2>1, <5>1, <5>2 DEF MatchOf
      <4>2. CASE packed # <<>>
        <5>1. Current # first
          <6>1. Len(packed) # 0
            <7>1. IsSeq(packed)
              BY <2>7, LayFacts
            <7> QED
              BY <4>2, <7>1 DEF IsSeq
          <6>2. first \in Nat
            BY <2>4, <2>7, LayFacts
          <6> QED
            BY <2>4, <2>7, <6>1, <6>2
        <5>2. Behind = packed[Len(packed)].items
          BY <2>7, <4>2 DEF Behind
        <5> QED
          BY <2>1, <2>7, <5>1, <5>2 DEF MatchOf
      <4> QED
        BY <4>1, <4>2
    <3>2. t \in Follow(q, opt.guard, canvas)
      BY <1>3, <2>7, <3>1 DEF GpaTries
    <3> QED
      BY <1>1, <2>3, <3>2, FollowTries
  <2> QED
    BY <2>5, <2>6, <2>7
<1> QED
  BY <1>2, <1>3

\* What the invariant of laying refers to besides the list and the canvas.
LEMMA LayingSame ==
  ASSUME UNCHANGED <<frames, step, at, first, tracks, unions, packed, subs>>
  PROVE  /\ Current' = Current /\ Ground' = Ground /\ Behind' = Behind
         /\ Ascending(Alive)' = Ascending(Alive)
<1>1. Current' = Current /\ Alive' = Alive
  BY DEF Current, Alive
<1>2. Behind' = Behind
  BY DEF Behind, LastDone
<1>3. Ground' = Ground
  BY DEF Ground, Items, GlobalsOf, Current, Alive
<1>4. Ascending(Alive)' = Ascending(Alive)
  BY <1>1 DEF Ascending
<1> QED
  BY <1>1, <1>2, <1>3, <1>4

\* One patch more is laid.
LEMMA LayingPatch ==
  ASSUME AlignInv, AllPacked, FramesPart, LayPart, PackedPart, LayPatch
  PROVE  LayingInv'
<1>1. /\ Laying /\ placed' = placed + 1
      /\ UNCHANGED <<opt, frames, missed, step, at, first, tracks, unions, packed, subs>>
  BY DEF LayPatch
<1>2. step \in {"first", "union", "pack"} /\ placed < Len(patches)
  BY <1>1 DEF Laying
<1>3. LayingInv
  BY <1>2 DEF LayPart
<1>4. /\ CanvasOK(canvas) /\ IsSeq(patches) /\ placed \in 0 .. Len(patches)
      /\ LiesOn(patches, placed, Ground, canvas)
      /\ \A i \in 1 .. Len(patches) : IsPatch(patches[i]) /\ Solid(patches[i])
  BY <1>3 DEF LayingInv, ListOK
<1>5. PICK n, p : n = placed + 1 /\ p = patches[n]
  OBVIOUS
<1>6. Len(patches) \in Nat /\ placed \in Nat /\ n \in 1 .. Len(patches) /\ n = placed + 1
  BY <1>2, <1>4, <1>5 DEF IsSeq
<1>7. PICK t \in GpaTries(p, canvas) :
        /\ Fits(Located(p, t), canvas, t.guard)
        /\ patches' = [patches EXCEPT ![n] = Located(p, t)]
        /\ canvas' = Extended(canvas, Located(p, t))
  <2>1. PICK t \in GpaFitting :
          /\ patches' = [patches EXCEPT ![n] = Located(@, t)]
          /\ canvas' = Extended(canvas, Located(patches[n], t))
    BY <1>5 DEF LayPatch
  <2>2. t \in GpaTries(p, canvas) /\ Fits(Located(p, t), canvas, t.guard)
    BY <1>5, <2>1 DEF GpaFitting
  <2>3. patches' = [patches EXCEPT ![n] = Located(p, t)]
    BY <1>5, <2>1
  <2> QED
    BY <1>5, <2>1, <2>2, <2>3
<1>8. IsTry(t)
  BY <1>2, <1>3, <1>5, <1>6, GpaTriesType
<1>9. PICK q : q = Located(p, t)
  OBVIOUS
<1>10. Solid(q) /\ IsPatch(q) /\ q.shape = p.shape /\ q.match = p.match
  <2>1. Solid(p) /\ IsPatch(p)
    BY <1>4, <1>5, <1>6
  <2>2. p = [shape |-> p.shape, match |-> p.match, u0 |-> p.u0, v0 |-> p.v0, turn |-> p.turn]
    BY <2>1 DEF IsPatch
  <2>3. /\ Solid(q) /\ q.shape = p.shape /\ q.match = p.match
        /\ q = [shape |-> q.shape, match |-> q.match, u0 |-> q.u0, v0 |-> q.v0, turn |-> q.turn]
    BY <1>8, <1>9, <2>1, <2>2, LocatedSolid
  <2> QED
    BY <2>3 DEF IsPatch
<1>11. patches' = [patches EXCEPT ![n] = q] /\ canvas' = Extended(canvas, q)
  BY <1>7, <1>9
<1>12. /\ IsSeq(patches') /\ Len(patches') = Len(patches) /\ patches'[n] = q
       /\ \A i \in 1 .. Len(patches) : i # n => patches'[i] = patches[i]
  <2>1. PICK ps : ps = patches
    OBVIOUS
  <2>2. IsSeq(ps) /\ n \in 1 .. Len(ps)
    BY <1>4, <1>6, <2>1
  <2>3. /\ IsSeq([ps EXCEPT ![n] = q]) /\ Len([ps EXCEPT ![n] = q]) = Len(ps)
        /\ [ps EXCEPT ![n] = q][n] = q
        /\ \A i \in 1 .. Len(ps) : i # n => [ps EXCEPT ![n] = q][i] = ps[i]
    BY <2>2, ReplaceIs
  <2> QED
    BY <1>11, <2>1, <2>3
<1>13. /\ CanvasOK(canvas') /\ LiesOn(patches', n, Ground, canvas') /\ canvas'.U = canvas.U
  <2>1. t.guard \in Nat /\ Fits(q, canvas, t.guard)
    BY <1>7, <1>8, <1>9 DEF IsTry
  <2>2. patches'[placed + 1] = q /\ \A i \in 1 .. placed : patches'[i] = patches[i]
    BY <1>6, <1>12
  <2>3. PICK B, c, g, ps, qs, m :
          B = Ground /\ c = canvas /\ g = t.guard /\ ps = patches /\ qs = patches' /\ m = placed
    OBVIOUS
  <2>4. m \in Nat /\ CanvasOK(c) /\ g \in Nat /\ Fits(q, c, g) /\ LiesOn(ps, m, B, c)
    BY <1>4, <1>6, <2>1, <2>3
  <2>5. qs[m + 1] = q /\ \A i \in 1 .. m : qs[i] = ps[i]
    BY <2>2, <2>3
  <2>6. /\ CanvasOK(Extended(c, q)) /\ Extended(c, q).U = c.U
        /\ LiesOn(qs, m + 1, B, Extended(c, q))
    BY <1>10, <2>4, <2>5, LayOne
  <2> QED
    BY <1>6, <1>11, <2>3, <2>6
<1>14. \A i \in 1 .. Len(patches) :
         /\ IsPatch(patches'[i]) /\ Solid(patches'[i])
         /\ patches'[i].shape = patches[i].shape /\ patches'[i].match = patches[i].match
  BY <1>4, <1>5, <1>10, <1>12
<1>15. /\ Current' = Current /\ Ground' = Ground /\ Behind' = Behind
       /\ Ascending(Alive)' = Ascending(Alive)
  BY <1>1, LayingSame
<1>16. (Current # 1 => MatchedIn(patches, Behind))'
  <2>1. Current # 1 => MatchedIn(patches, Behind)
    BY <1>3 DEF LayingInv
  <2> QED
    BY <1>12, <1>14, <1>15, <2>1 DEF MatchedIn
<1>17. step' = "union" => UnionList'
  <2> SUFFICES ASSUME step = "union" PROVE UnionList'
    BY <1>1
  <2>1. UnionList
    BY <1>3 DEF LayingInv
  <2>2. Len(patches') = Len(Ascending(Alive)')
    BY <1>12, <1>15, <2>1 DEF UnionList
  <2>3. ASSUME NEW i \in 1 .. Len(patches)
        PROVE  HoldsTrack(patches[i], tracks[Ascending(Alive)[i]])'
    <3>1. HoldsTrack(patches[i], tracks[Ascending(Alive)[i]])
      BY <2>1 DEF UnionList
    <3>2. PICK x, t1 : x = Ascending(Alive)[i] /\ t1 = tracks[x]
      OBVIOUS
    <3>3. HoldsTrack(patches[i], t1)
      BY <3>1, <3>2
    <3>4. patches'[i].shape = patches[i].shape
      BY <1>14
    <3>5. HoldsTrack(patches[i], t1)'
      BY <1>1, <3>3, <3>4 DEF HoldsTrack, TrackPatch
    <3>6. tracks[Ascending(Alive)[i]]' = t1
      BY <1>1, <1>15, <3>2
    <3> QED
      BY <3>5, <3>6
  <2> QED
    BY <1>12, <2>2, <2>3 DEF UnionList
<1>18. MissedInv'
  <2>1. MissedInv /\ ToLay(Current)' = ToLay(Current)
    BY <1>1, <1>3, <1>15 DEF LayingInv, ToLay
  <2>2. MissedLies => ToLay(Current) = <<>>
    BY <1>2 DEF MissedLies
  <2>3. ToLay(Current) = <<>> => MissedLies'
    BY <2>1 DEF MissedLies
  <2> QED
    BY <1>1, <2>1, <2>2, <2>3 DEF MissedInv
<1>19. placed' \in 0 .. Len(patches') /\ placed' = n
  BY <1>1, <1>6, <1>12
<1>20. step' # "union" /\ Narrow => canvas'.U = MinU
  BY <1>1, <1>3, <1>13 DEF LayingInv
<1> QED
  BY <1>13, <1>12, <1>14, <1>15, <1>16, <1>17, <1>18, <1>19, <1>20 DEF LayingInv, ListOK

\* A canvas of twice the height has the same patches on it.
LEMMA LayingGrown ==
  ASSUME AlignInv, AllPacked, LayPart, LayGrow
  PROVE  LayingInv'
<1>1. /\ canvas' = Doubled(canvas) /\ step \in {"first", "union", "pack"}
      /\ UNCHANGED <<opt, frames, patches, placed, missed, step, at, first, tracks, unions, packed, subs>>
  BY DEF LayGrow, Laying, LayingMissed
<1>2. LayingInv
  BY <1>1 DEF LayPart
<1>3. CanvasOK(canvas)
  BY <1>2 DEF LayingInv
<1>4. /\ IsRecord(canvas') /\ canvas'.V = 2 * canvas.V
      /\ canvas'.U = canvas.U /\ canvas'.occ = canvas.occ
      /\ canvas'.width = canvas.width /\ canvas'.height = canvas.height
      /\ canvas'.row = canvas.row
  BY <1>1, <1>3, DoubledFields DEF CanvasOK
<1>5. CanvasOK(canvas')
  <2>1. canvas'.V \in Nat
    BY <1>3, <1>4 DEF CanvasOK
  <2> QED
    BY <1>3, <1>4, <2>1 DEF CanvasOK
<1>6. /\ Current' = Current /\ Ground' = Ground /\ Behind' = Behind
      /\ Ascending(Alive)' = Ascending(Alive)
  BY <1>1, LayingSame
<1>7. LiesOn(patches', placed', Ground', canvas')
  <2>1. LiesOn(patches, placed, Ground, canvas)
    BY <1>2 DEF LayingInv
  <2> QED
    BY <1>1, <1>4, <1>6, <2>1 DEF LiesOn, OnCanvas
<1>8. (Current # 1 => MatchedIn(patches, Behind))'
  BY <1>1, <1>2, <1>6 DEF LayingInv, MatchedIn
<1>9. (step = "union" => UnionList)'
  <2>1. step = "union" => UnionList
    BY <1>2 DEF LayingInv
  <2> QED
    BY <1>1, <1>6, <2>1 DEF UnionList, HoldsTrack, TrackPatch
<1>10. MissedInv'
  <2>1. MissedInv /\ ToLay(Current)' = ToLay(Current)
    BY <1>1, <1>2, <1>6 DEF LayingInv, ToLay
  <2>2. MissedLies => MissedLies'
    BY <1>1, <1>4, <2>1 DEF MissedLies
  <2> QED
    BY <1>1, <2>1, <2>2 DEF MissedInv
<1>11. ListOK(patches)' /\ (placed \in 0 .. Len(patches))'
  BY <1>1, <1>2 DEF LayingInv, ListOK
<1>12. (step # "union" /\ Narrow => canvas.U = MinU)'
  BY <1>1, <1>2, <1>4 DEF LayingInv
<1> QED
  BY <1>5, <1>7, <1>8, <1>9, <1>10, <1>11, <1>12 DEF LayingInv

-----------------------------------------------------------------------------
\* The first place that is tried for a missed points patch that is no wider
\* than the canvas is free when the canvas is high enough for any place.
LEMMA LeastMissed ==
  ASSUME NEW c, CanvasOK(c), NEW m \in MissedSet, m.w \in 1 .. c.U, m.h \in Nat \ {0},
         NEW t \in MissedTries(c), Fits(Located(MissedPatch(m), t), c, 0),
         \A s \in MissedTries(c) : Fits(Located(MissedPatch(m), s), c, 0) => t.rank <= s.rank
  PROVE  t.u = 0 /\ t.v = c.row /\ t.turn = DEFAULT
<1>1. /\ c.U \in Nat \ {0} /\ c.V \in Nat /\ c.width \in Nat /\ c.row \in Nat
      /\ c.occ \subseteq (0 .. c.width - 1) \X (0 .. c.row - 1)
  BY DEF CanvasOK
<1>2. PICK u \in 0 .. c.U, v \in c.row .. c.V : t = Try(u, v, DEFAULT, 0, v * (c.U + 1) + u)
  BY DEF MissedTries
<1>3. t.u = u /\ t.v = v /\ t.turn = DEFAULT /\ t.rank = v * (c.U + 1) + u
  BY <1>2 DEF Try
<1>4. PICK r, s : r = c.row /\ s = Try(0, r, DEFAULT, 0, r * (c.U + 1))
  OBVIOUS
<1>5. s.u = 0 /\ s.v = r /\ s.turn = DEFAULT /\ s.rank = r * (c.U + 1)
  BY <1>4 DEF Try
<1>6. s \in MissedTries(c)
  <2>1. 0 \in 0 .. c.U /\ r \in c.row .. c.V /\ r * (c.U + 1) + 0 = r * (c.U + 1)
    BY <1>1, <1>4
  <2>2. s = Try(0, r, DEFAULT, 0, r * (c.U + 1) + 0)
    BY <1>4, <2>1
  <2> QED
    BY <2>1, <2>2 DEF MissedTries
<1>7. PICK p : p = Located(MissedPatch(m), t)
  OBVIOUS
<1>8. PICK q : q = Located(MissedPatch(m), s)
  OBVIOUS
<1>9. /\ Solid(p) /\ p.v0 = v /\ BoxH(p) = m.h
      /\ Solid(q) /\ q.u0 = 0 /\ q.v0 = r /\ BoxW(q) = m.w /\ BoxH(q) = m.h
      /\ q.turn = DEFAULT /\ q.shape.w = m.w /\ q.shape.h = m.h
  <2>1. PICK x : x = MissedPatch(m)
    OBVIOUS
  <2>2. x = [shape |-> MissedShape(m), match |-> Invalid, u0 |-> m.u0, v0 |-> m.v0, turn |-> DEFAULT]
    <3>1. MissedPatch(m) = [[shape |-> MissedShape(m), match |-> Invalid,
                             u0 |-> 0, v0 |-> 0, turn |-> DEFAULT]
                              EXCEPT !.u0 = m.u0, !.v0 = m.v0]
      BY Zenon DEF MissedPatch, FreshPatch
    <3> QED
      BY <2>1, <3>1, RecordMoved
  <2>3. /\ x = [shape |-> x.shape, match |-> x.match, u0 |-> x.u0, v0 |-> x.v0, turn |-> x.turn]
        /\ x.shape.w = m.w /\ x.shape.h = m.h /\ Solid(x)
    <3>1. m.w \in Nat \ {0}
      BY <1>1
    <3>2. Solid(x)
      BY <2>1, <3>1, MissedSolid
    <3> QED
      BY <2>2, <3>2 DEF MissedShape
  <2>4. IsTry(t) /\ IsTry(s)
    BY <1>1, <1>2, <1>4, <1>5, OrientationsType DEF IsTry, Try
  <2>5. /\ Solid(p) /\ p.shape = x.shape /\ p.v0 = t.v /\ p.turn = t.turn
        /\ Solid(q) /\ q.shape = x.shape /\ q.u0 = s.u /\ q.v0 = s.v /\ q.turn = s.turn
    BY <1>7, <1>8, <2>1, <2>3, <2>4, LocatedSolid
  <2>6. ~DEFAULT.swap
    BY DEF DEFAULT, Turn
  <2> QED
    BY <1>3, <1>5, <2>3, <2>5, <2>6 DEF BoxW, BoxH
<1>10. v + m.h <= c.V
  <2>1. p.v0 + BoxH(p) \in 1 .. c.V
    BY <1>1, <1>7, <1>9, FitsExtent
  <2> QED
    BY <1>1, <1>9, <2>1
<1>11. Fits(q, c, 0)
  <2> SUFFICES ASSUME NEW a \in -0 .. q.shape.w - 1 + 0, NEW b \in -0 .. q.shape.h - 1 + 0
               PROVE  /\ CanvasBlock(q, a, b) \in (0 .. c.U - 1) \X (0 .. c.V - 1)
                      /\ CanvasBlock(q, a, b) \notin c.occ
    BY DEF Fits
  <2>1. CanvasBlock(q, a, b) = <<0 + a, r + b>>
    <3>1. ~DEFAULT.swap /\ ~DEFAULT.flipX /\ ~DEFAULT.flipY
      BY DEF DEFAULT, Turn
    <3> QED
      BY <1>9, <3>1 DEF CanvasBlock
  <2>2. 0 + a \in 0 .. c.U - 1 /\ r + b \in 0 .. c.V - 1 /\ r + b \notin 0 .. c.row - 1
    BY <1>1, <1>4, <1>9, <1>10
  <2>3. <<0 + a, r + b>> \notin (0 .. c.width - 1) \X (0 .. c.row - 1)
    BY <2>2
  <2> QED
    BY <1>1, <2>1, <2>2, <2>3
<1>12. t.rank <= s.rank
  BY <1>6, <1>8, <1>11
<1>13. v * (c.U + 1) + u <= r * (c.U + 1)
  BY <1>3, <1>5, <1>12
<1>14. v = r /\ u = 0
  <2>1. PICK d : d = v - r
    OBVIOUS
  <2>2. d \in Nat /\ v = r + d
    BY <1>1, <1>4, <2>1
  <2>3. v * (c.U + 1) = r * (c.U + 1) + d * (c.U + 1)
    BY <1>1, <1>4, <2>2
  <2>4. d * (c.U + 1) + u <= 0
    <3>1. v * (c.U + 1) \in Int /\ r * (c.U + 1) \in Int /\ d * (c.U + 1) \in Int
      BY <1>1, <1>4, <2>2
    <3> QED
      BY <1>1, <1>13, <2>3, <3>1
  <2>5. d = 0
    <3> SUFFICES ASSUME d # 0 PROVE FALSE
      OBVIOUS
    <3>1. d * (c.U + 1) >= c.U + 1
      BY <1>1, <2>2
    <3> QED
      BY <1>1, <2>2, <2>4, <3>1
  <2> QED
    BY <1>1, <1>4, <2>2, <2>4, <2>5
<1> QED
  BY <1>3, <1>4, <1>14

\* A frame whose missed points patch is moved.
LEMMA MissedFrame ==
  ASSUME IsSeq(frames), Len(frames) = PackFrames, NEW f \in 1 .. PackFrames, IsFrame(frames[f]),
         NEW n, frames' = [frames EXCEPT ![f].missed = <<n>>]
  PROVE  /\ \A g \in 1 .. PackFrames : g # f => frames'[g] = frames[g]
         /\ \A g \in 1 .. PackFrames : frames'[g].patches = frames[g].patches
         /\ frames'[f].missed = <<n>> /\ frames'[f].laid = frames[f].laid
<1>1. DOMAIN frames = 1 .. PackFrames
  BY DEF IsSeq
<1>2. \A g \in 1 .. PackFrames : g # f => frames'[g] = frames[g]
  BY <1>1
<1>3. PICK r : r = frames[f]
  OBVIOUS
<1>4. frames'[f] = [r EXCEPT !.missed = <<n>>]
  BY <1>1, <1>3
<1>5. frames'[f] = [patches |-> r.patches, matches |-> r.matches, missed |-> <<n>>,
                    laid |-> r.laid, width |-> r.width, height |-> r.height]
  BY <1>3, <1>4 DEF IsFrame
<1>6. frames'[f].missed = <<n>> /\ frames'[f].laid = frames[f].laid
      /\ frames'[f].patches = frames[f].patches
  BY <1>3, <1>5
<1>7. \A g \in 1 .. PackFrames : frames'[g].patches = frames[g].patches
  BY <1>2, <1>6
<1> QED
  BY <1>2, <1>6, <1>7

\* A packing keeps when its missed points patch is placed again.
LEMMA PackingAgain ==
  ASSUME NEW p, NEW m, PackingIs(p, <<m>>), NEW n, MissedStays(n),
         n.h = CeilDiv(m.w * m.h, MinU), n.w = CeilDiv(m.w * m.h, n.h)
  PROVE  PackingIs(p, <<n>>)
<1>1. PICK row \in 0 .. p.height :
        LaidOut(p, row) /\ p.row = row /\ MissedBelow(m, row, p.width, p.height)
  BY DEF PackingIs
<1>2. m.h = CeilDiv(m.w * m.h, MinU) /\ m.w = CeilDiv(m.w * m.h, m.h)
  BY <1>1 DEF MissedBelow, MissedStays
<1>3. n.h = m.h /\ n.w = m.w
  BY <1>2
<1>4. MissedBelow(n, row, p.width, p.height)
  BY <1>1, <1>3 DEF MissedBelow
<1> QED
  BY <1>1, <1>4 DEF PackingIs

\* The missed points patch is laid where it stays.
MissedLaid(n) ==
  /\ frames' = [frames EXCEPT ![Current].missed = <<n>>]
  /\ canvas' = [canvas EXCEPT !.height = MaxOf(@, n.v0 + n.h)]
  /\ n \in MissedSet /\ MissedStays(n) /\ n.v0 = canvas.row
  /\ \E m \in MissedSet :
       /\ frames[Current].missed = <<m>>
       /\ n.h = CeilDiv(m.w * m.h, MinU) /\ n.w = CeilDiv(m.w * m.h, n.h)
  /\ frames[Current].laid = 1 /\ ~opt.separate /\ missed # <<>>
  /\ ~(MissedSizes \subseteq {<<>>}) /\ canvas.U = MinU

\* Where it comes to lie follows from the canvas alone: right below the patches.
LEMMA MissedPlace ==
  ASSUME MissedSound, AlignInv, AllPacked, FramesPart, LayPart, LayMissed
  PROVE  \E n : MissedLaid(n)
<1>1. /\ step \in {"first", "pack"} /\ missed # <<>> /\ LayingInv
  BY DEF LayMissed, LayingMissed, LayPart
<1>2. missed = ToLay(Current) /\ ToLay(Current) # <<>>
  BY <1>1 DEF LayingInv, MissedInv
<1>3. Current \in LastDone + 1 .. PackFrames
  BY <1>1, LayFacts
<1>4. /\ Narrow /\ ~opt.separate /\ missed = frames[Current].missed /\ frames[Current].laid = 1
      /\ missed = <<missed[1]>> /\ missed[1] \in MissedSet
      /\ missed[1].w \in Nat \ {0} /\ missed[1].h \in Nat \ {0}
  BY <1>2, <1>3, NarrowWhenLaid
<1>5. ~(MissedSizes \subseteq {<<>>})
  BY <1>1, <1>3, <1>4 DEF FramesPart, MissedOpen
<1>6. canvas.U = MinU /\ CanvasOK(canvas) /\ MinU \in Nat \ {0}
  BY <1>1, <1>4, ConstantsType DEF LayingInv
<1>7. PICK m : m = missed[1]
  OBVIOUS
<1>8. m \in MissedSet /\ m.w \in Nat \ {0} /\ m.h \in Nat \ {0} /\ missed = <<m>>
  BY <1>4, <1>7
<1>9. PICK a : a = AgainSized(m, canvas)
  OBVIOUS
<1>10. PICK v, w : v = CeilDiv(m.w * m.h, MinU) /\ w = CeilDiv(m.w * m.h, v)
  OBVIOUS
<1>11. /\ w \in 1 .. MinU /\ v \in Nat \ {0}
       /\ v = CeilDiv(w * v, MinU) /\ w = CeilDiv(w * v, v)
  <2>1. m.w * m.h \in Nat \ {0}
    BY <1>8
  <2> QED
    BY <1>6, <1>10, <2>1, SizedOnce
<1>12. a \in MissedSet /\ a.w = w /\ a.h = v
  <2>1. a = [m EXCEPT !.w = w, !.h = v]
    BY <1>6, <1>9, <1>10 DEF AgainSized
  <2>2. w \in Nat /\ v \in Nat
    BY <1>11
  <2> QED
    BY <1>8, <2>1, <2>2 DEF MissedSet
<1>13. PICK t \in MissedTries(canvas) :
         /\ Fits(Located(MissedPatch(a), t), canvas, 0)
         /\ \A s \in MissedTries(canvas) :
              Fits(Located(MissedPatch(a), s), canvas, 0) => t.rank <= s.rank
         /\ frames' = [frames EXCEPT ![Current].missed = <<[a EXCEPT !.u0 = t.u, !.v0 = t.v]>>]
         /\ canvas' = [canvas EXCEPT
              !.height = MaxOf(@, [a EXCEPT !.u0 = t.u, !.v0 = t.v].v0 + [a EXCEPT !.u0 = t.u, !.v0 = t.v].h)]
  <2>1. PICK t \in MissedAgainFitting :
          /\ \A s \in MissedAgainFitting : t.rank <= s.rank
          /\ frames' = [frames EXCEPT ![Current].missed = <<[AgainSized(missed[1], canvas) EXCEPT !.u0 = t.u, !.v0 = t.v]>>]
          /\ canvas' = [canvas EXCEPT
               !.height = MaxOf(@, [AgainSized(missed[1], canvas) EXCEPT !.u0 = t.u, !.v0 = t.v].v0
                                     + [AgainSized(missed[1], canvas) EXCEPT !.u0 = t.u, !.v0 = t.v].h)]
    BY Zenon DEF LayMissed
  <2>2. AgainSized(missed[1], canvas) = a
    BY <1>7, <1>9
  <2>3. \A s : s \in MissedAgainFitting <=>
                 s \in MissedTries(canvas) /\ Fits(Located(MissedPatch(a), s), canvas, 0)
    BY <2>2 DEF MissedAgainFitting
  <2>4. /\ frames' = [frames EXCEPT ![Current].missed = <<[a EXCEPT !.u0 = t.u, !.v0 = t.v]>>]
        /\ canvas' = [canvas EXCEPT
             !.height = MaxOf(@, [a EXCEPT !.u0 = t.u, !.v0 = t.v].v0 + [a EXCEPT !.u0 = t.u, !.v0 = t.v].h)]
    BY <2>1, <2>2
  <2> QED
    BY <2>1, <2>3, <2>4, Zenon
<1>14. t.u = 0 /\ t.v = canvas.row /\ t.turn = DEFAULT
  BY <1>6, <1>11, <1>12, <1>13, LeastMissed
<1>15. PICK n : n = [a EXCEPT !.u0 = t.u, !.v0 = t.v]
  OBVIOUS
<1>16. n \in MissedSet /\ n.w = w /\ n.h = v /\ n.u0 = 0 /\ n.v0 = canvas.row
  <2>1. t.u \in Int /\ t.v \in Int
    BY <1>6, <1>14 DEF CanvasOK
  <2>2. n \in MissedSet /\ n.w = a.w /\ n.h = a.h /\ n.u0 = t.u /\ n.v0 = t.v
    BY <1>12, <1>14, <1>15, <2>1, MovedMissed
  <2> QED
    BY <1>12, <1>14, <2>2
<1>17. MissedStays(n)
  BY <1>11, <1>16 DEF MissedStays
<1>18. frames' = [frames EXCEPT ![Current].missed = <<n>>]
       /\ canvas' = [canvas EXCEPT !.height = MaxOf(@, n.v0 + n.h)]
  BY <1>13, <1>15
<1> QED
  BY <1>1, <1>4, <1>5, <1>6, <1>8, <1>10, <1>16, <1>17, <1>18 DEF MissedLaid

\* Only the frame that is packed changes, and only in its missed points patch.
LEMMA LayMissedFrames ==
  ASSUME AlignInv, AllPacked, step \in {"first", "pack"}, NEW n, MissedLaid(n)
  PROVE  /\ \A g \in 1 .. PackFrames : g # Current => frames'[g] = frames[g]
         /\ \A g \in 1 .. PackFrames : frames'[g].patches = frames[g].patches
         /\ frames'[Current].missed = <<n>> /\ frames'[Current].laid = frames[Current].laid
<1>1. OpenFrom(LastDone + 1)
  BY OpenFrames DEF AlignInv
<1>2. Current \in LastDone + 1 .. PackFrames /\ Current \in 1 .. PackFrames
  BY LayFacts
<1>3. PICK f : f = Current
  OBVIOUS
<1>4. IsSeq(frames) /\ Len(frames) = PackFrames /\ f \in 1 .. PackFrames /\ IsFrame(frames[f])
  BY <1>1, <1>2, <1>3 DEF OpenFrom
<1>5. frames' = [frames EXCEPT ![f].missed = <<n>>]
  BY <1>3 DEF MissedLaid
<1> QED
  BY <1>3, <1>4, <1>5, MissedFrame

\* The frames stay right when missed points are laid.
LEMMA MissedFramesPart ==
  ASSUME AlignInv, AllPacked, FramesPart, LayMissed, NEW n, MissedLaid(n)
  PROVE  FramesPart'
<1>1. step \in {"first", "pack"} /\ UNCHANGED <<opt, subs>>
  BY DEF LayMissed, LayingMissed
<1>2. LastDone' = LastDone
  BY <1>1 DEF LastDone
<1>3. /\ \A g \in 1 .. PackFrames : g # Current => frames'[g] = frames[g]
      /\ \A g \in 1 .. PackFrames : frames'[g].patches = frames[g].patches
      /\ frames'[Current].missed = <<n>> /\ frames'[Current].laid = frames[Current].laid
  BY <1>1, LayMissedFrames
<1>4. Current \in LastDone + 1 .. PackFrames /\ LastDone \in Nat /\ PackFrames \in Nat
  BY <1>1, LayFacts
<1>5. \A f \in 1 .. LastDone : FinishedOK(frames'[f])
  <2>1. \A f \in 1 .. LastDone : f \in 1 .. PackFrames /\ f # Current
    BY <1>4
  <2> QED
    BY <1>3, <2>1 DEF FramesPart
<1>6. \A f \in LastDone + 1 .. PackFrames : MissedOpen(frames'[f], opt.separate)
  <2> SUFFICES ASSUME NEW f \in LastDone + 1 .. PackFrames
               PROVE  MissedOpen(frames'[f], opt.separate)
    OBVIOUS
  <2>1. CASE f # Current
    <3>1. f \in 1 .. PackFrames
      BY <1>4
    <3> QED
      BY <1>3, <2>1, <3>1 DEF FramesPart
  <2>2. CASE f = Current
    <3>1. n \in MissedSet /\ n.w > 0 /\ n.h > 0 /\ ~(MissedSizes \subseteq {<<>>})
          /\ ~opt.separate /\ frames[f].laid = 1
      BY <2>2 DEF MissedLaid, MissedStays
    <3>2. frames'[f].missed = <<n>> /\ frames'[f].laid = 1
      BY <1>3, <2>2, <3>1
    <3>3. PICK r : r = frames'[f]
      OBVIOUS
    <3>4. <<n>> \in Seq(MissedSet) /\ Len(<<n>>) = 1 /\ <<n>>[1] = n
      BY <3>1
    <3> QED
      BY <3>1, <3>2, <3>3, <3>4 DEF MissedOpen
  <2> QED
    BY <2>1, <2>2
<1>7. LastDone \in 1 .. PackFrames - 1 =>
        MatchedIn(frames'[LastDone + 1].patches, frames'[LastDone].patches)
  <2>1. LastDone \in 1 .. PackFrames - 1 => LastDone \in 1 .. PackFrames /\ LastDone + 1 \in 1 .. PackFrames
    BY <1>4
  <2> QED
    BY <1>3, <2>1 DEF FramesPart
<1>8. FramesPart' <=>
        /\ opt \in Options
        /\ \A f \in 1 .. LastDone : FinishedOK(frames'[f])
        /\ \A f \in LastDone + 1 .. PackFrames : MissedOpen(frames'[f], opt.separate)
        /\ LastDone \in 1 .. PackFrames - 1 =>
             MatchedIn(frames'[LastDone + 1].patches, frames'[LastDone].patches)
  BY <1>1, <1>2 DEF FramesPart
<1> QED
  BY <1>5, <1>6, <1>7, <1>8 DEF FramesPart

\* What is being laid stays right when missed points are laid.
LEMMA MissedLayPart ==
  ASSUME AlignInv, AllPacked, FramesPart, LayPart, LayMissed, NEW n, MissedLaid(n)
  PROVE  LayPart'
<1>1. /\ step \in {"first", "pack"} /\ placed = Len(patches) /\ missed' = <<>>
      /\ UNCHANGED <<opt, subs, patches, placed, step, at, first, tracks, unions, packed>>
  BY DEF LayMissed, LayingMissed
<1>2. LayingInv
  BY <1>1 DEF LayPart
<1>3. /\ \A g \in 1 .. PackFrames : g # Current => frames'[g] = frames[g]
      /\ \A g \in 1 .. PackFrames : frames'[g].patches = frames[g].patches
      /\ frames'[Current].missed = <<n>> /\ frames'[Current].laid = frames[Current].laid
  BY <1>1, LayMissedFrames
<1>4. /\ Current \in LastDone + 1 .. PackFrames /\ LastDone \in Nat /\ PackFrames \in Nat
      /\ Current \in 1 .. PackFrames
  BY <1>1, LayFacts
<1>5. /\ n \in MissedSet /\ MissedStays(n) /\ n.v0 = canvas.row /\ ~opt.separate
      /\ canvas.U = MinU /\ canvas' = [canvas EXCEPT !.height = MaxOf(@, n.v0 + n.h)]
  BY DEF MissedLaid
<1>6. CanvasOK(canvas) /\ LiesOn(patches, placed, Ground, canvas)
  BY <1>2 DEF LayingInv
<1>7. /\ canvas' = [U |-> canvas.U, V |-> canvas.V, occ |-> canvas.occ, horizon |-> canvas.horizon,
                    width |-> canvas.width, height |-> MaxOf(canvas.height, n.v0 + n.h), row |-> canvas.row]
  <2>1. PICK c : c = canvas
    OBVIOUS
  <2>2. c = [U |-> c.U, V |-> c.V, occ |-> c.occ, horizon |-> c.horizon,
             width |-> c.width, height |-> c.height, row |-> c.row]
    BY <1>6, <2>1 DEF CanvasOK, IsRecord
  <2>3. canvas' = [c EXCEPT !.height = MaxOf(c.height, n.v0 + n.h)]
    BY <1>5, <2>1
  <2>4. canvas' = [U |-> c.U, V |-> c.V, occ |-> c.occ, horizon |-> c.horizon,
                   width |-> c.width, height |-> MaxOf(c.height, n.v0 + n.h), row |-> c.row]
    BY <2>2, <2>3
  <2> QED
    BY <2>1, <2>4
<1>8. /\ canvas'.U = canvas.U /\ canvas'.V = canvas.V /\ canvas'.occ = canvas.occ
      /\ canvas'.width = canvas.width /\ canvas'.row = canvas.row
      /\ canvas'.height = MaxOf(canvas.height, n.v0 + n.h) /\ IsRecord(canvas')
  BY <1>7 DEF IsRecord
<1>9. /\ canvas'.height \in Nat /\ canvas.height <= canvas'.height
      /\ canvas.row + n.h <= canvas'.height /\ n.w <= canvas.width
  <2>1. /\ canvas.height \in Nat /\ canvas.row \in Nat /\ canvas.width \in Nat
        /\ MinU <= canvas.width /\ MinU \in Nat /\ n.h \in Nat /\ n.w \in 1 .. MinU
    BY <1>5, <1>6, ConstantsType DEF CanvasOK, MissedStays
  <2> QED
    BY <1>5, <1>8, <2>1 DEF MaxOf
<1>10. CanvasOK(canvas')
  <2>1. canvas'.row \in 0 .. canvas'.height
    BY <1>6, <1>8, <1>9 DEF CanvasOK
  <2> QED
    BY <1>6, <1>8, <1>9, <2>1 DEF CanvasOK
<1>11. Current' = Current
  BY <1>1 DEF Current
<1>12. Ground' = Ground
  <2>1. CASE step = "pack"
    <3>1. PICK f : f = Current
      OBVIOUS
    <3>2. frames'[f].patches = frames[f].patches
      BY <1>3, <1>4, <3>1
    <3>3. Items(f)' = Items(f) /\ GlobalsOf(f)' = GlobalsOf(f)
      BY <1>1, <3>2 DEF Items, GlobalsOf, Alive
    <3>4. Ground' = {Items(f)'[i] : i \in GlobalsOf(f)'}
      BY <1>1, <1>11, <2>1, <3>1 DEF Ground
    <3>5. Ground = {Items(f)[i] : i \in GlobalsOf(f)}
      BY <2>1, <3>1 DEF Ground
    <3> QED
      BY <3>3, <3>4, <3>5
  <2>2. CASE step # "pack"
    BY <1>1, <2>2 DEF Ground
  <2> QED
    BY <2>1, <2>2
<1>13. LiesOn(patches', placed', Ground', canvas')
  BY <1>1, <1>6, <1>8, <1>12 DEF LiesOn, OnCanvas
<1>14. (Current # 1 => MatchedIn(patches, Behind))'
  <2> SUFFICES ASSUME Current # 1 PROVE MatchedIn(patches', Behind')
    BY <1>11 DEF MatchedIn
  <2>1. MatchedIn(patches, Behind)
    BY <1>2 DEF LayingInv
  <2>2. Behind' = Behind
    <3>1. CASE step = "pack" /\ packed # <<>>
      BY <1>1, <3>1 DEF Behind
    <3>2. CASE ~(step = "pack" /\ packed # <<>>)
      <4>1. Behind = frames[LastDone].patches /\ Behind' = frames'[LastDone].patches
        BY <1>1, <3>2 DEF Behind, LastDone
      <4>2. LastDone # 0
        BY <1>1, <3>2, LayFacts
      <4>3. LastDone \in 1 .. PackFrames
        <5>1. LastDone + 1 <= PackFrames
          BY <1>4
        <5> QED
          BY <1>4, <4>2, <5>1
      <4> QED
        BY <1>3, <4>1, <4>3
    <3> QED
      BY <3>1, <3>2
  <2> QED
    BY <1>1, <2>1, <2>2
<1>15. MissedInv'
  <2>1. ToLay(Current)' = <<n>>
    BY <1>1, <1>3, <1>5, <1>11 DEF ToLay
  <2>2. MissedBelow(n, canvas.row, canvas.width, canvas'.height)
    BY <1>5, <1>9 DEF MissedBelow
  <2>3. <<n>>[1] = n
    OBVIOUS
  <2>4. MissedLies'
    BY <1>1, <1>5, <1>8, <2>1, <2>2, <2>3 DEF MissedLies
  <2> QED
    BY <1>1, <2>4 DEF MissedInv
<1>16. ListOK(patches)' /\ (placed \in 0 .. Len(patches))'
  BY <1>1, <1>2 DEF LayingInv, ListOK
<1>17. LayingInv'
  <2>1. step' # "union"
    BY <1>1
  <2>2. CanvasOK(canvas)' /\ (step # "union" /\ Narrow => canvas.U = MinU)'
    BY <1>5, <1>8, <1>10
  <2> QED
    BY <1>13, <1>14, <1>15, <1>16, <2>1, <2>2 DEF LayingInv
<1> QED
  BY <1>17 DEF LayPart

\* The missed points patches that are laid, before and after one of them is.
LEMMA MissedToLay ==
  ASSUME AlignInv, AllPacked, step \in {"first", "pack"}, NEW n, MissedLaid(n), opt' = opt,
         NEW f \in 1 .. PackFrames
  PROVE  /\ f # Current => ToLay(f)' = ToLay(f)
         /\ \A p : PackingIs(p, ToLay(f)) => PackingIs(p, ToLay(f)')
<1>1. /\ \A g \in 1 .. PackFrames : g # Current => frames'[g] = frames[g]
      /\ frames'[Current].missed = <<n>>
  BY LayMissedFrames
<1>2. f # Current => ToLay(f)' = ToLay(f)
  BY <1>1 DEF ToLay
<1>3. CASE f = Current
  <2>1. PICK m \in MissedSet :
          /\ frames[Current].missed = <<m>>
          /\ n.h = CeilDiv(m.w * m.h, MinU) /\ n.w = CeilDiv(m.w * m.h, n.h)
    BY DEF MissedLaid
  <2>2. ~opt.separate /\ MissedStays(n)
    BY DEF MissedLaid
  <2>3. ToLay(f) = <<m>> /\ ToLay(f)' = <<n>>
    BY <1>1, <1>3, <2>1, <2>2 DEF ToLay
  <2>4. \A p : PackingIs(p, <<m>>) => PackingIs(p, <<n>>)
    BY <2>1, <2>2, PackingAgain
  <2> QED
    BY <1>3, <2>3, <2>4
<1> QED
  BY <1>2, <1>3

\* The frames of a subcontext are frames of the group.
LEMMA PreFrames ==
  ASSUME AlignInv, AllPacked, step \in Growing
  PROVE  /\ \A k \in 1 .. Len(pre) : first + k - 1 \in 1 .. PackFrames
         /\ Len(pre) \in Nat /\ first \in Nat \ {0}
<1>1. ReadyFor(first, pre) /\ first \in Nat \ {0} /\ Len(pre) \in Nat /\ PackFrames \in Nat
  BY ConstantsType DEF AlignInv, FollowInv, TileInv, Control
<1>2. first + Len(pre) - 1 <= PackFrames
  BY <1>1 DEF ReadyFor
<1> QED
  BY <1>1, <1>2

\* The frames packed so far lie before the one that is added.
LEMMA PackedBefore ==
  ASSUME AlignInv, AllPacked, step \in {"frame", "pack"}
  PROVE  /\ \A k \in 1 .. Len(packed) : first + k - 1 \in 1 .. PackFrames /\ first + k - 1 # Current
         /\ Len(packed) \in Nat /\ first \in Nat \ {0}
<1>1. /\ Current = first + Len(packed) /\ Current \in first .. PackFrames
      /\ Len(packed) \in Nat
  BY CurrentFacts DEF AlignInv
<1>2. first \in Nat \ {0} /\ PackFrames \in Nat
  BY TrackFacts DEF AlignInv
<1> QED
  BY <1>1, <1>2

\* A union holds the patches of its track as long as these stay.
LEMMA UnionsKept ==
  ASSUME AlignInv, AllPacked, step \in {"frame", "pack", "decide"}, UnionInv,
         UNCHANGED <<at, first, tracks, unions>>,
         \A g \in 1 .. PackFrames : frames'[g].patches = frames[g].patches
  PROVE  UnionInv'
<1>1. Alive' = Alive
  BY DEF Alive
<1>2. ASSUME NEW t \in Alive
      PROVE  HoldsTrack(unions.of[t], tracks[t])'
  <2>1. HoldsTrack(unions.of[t], tracks[t])
    BY DEF UnionInv
  <2>2. \A k \in 1 .. at - first + 1 : first + k - 1 \in 1 .. PackFrames
    BY TrackFacts DEF AlignInv
  <2>3. \A k \in 1 .. at - first + 1 : TrackPatch(tracks[t], k)' = TrackPatch(tracks[t], k)
    BY <2>2 DEF TrackPatch
  <2> QED
    BY <2>1, <2>3 DEF HoldsTrack
<1> QED
  BY <1>1, <1>2 DEF UnionInv

\* The invariant is kept when missed points are laid.
LEMMA LayMissedKeeps ==
  ASSUME MissedSound, AlignInv, AllPacked, FramesPart, LayPart, PrePart, PackedPart, LayMissed
  PROVE  FramesPart' /\ LayPart' /\ PrePart' /\ PackedPart'
<1>1. PICK n : MissedLaid(n)
  BY MissedPlace
<1>2. /\ step \in {"first", "pack"}
      /\ UNCHANGED <<opt, step, at, first, tracks, unions, packed, pre>>
  BY DEF LayMissed, LayingMissed
<1>3. FramesPart' /\ LayPart'
  BY <1>1, MissedFramesPart, MissedLayPart
<1>4. PrePart'
  <2> SUFFICES ASSUME step \in Growing, NEW k \in 1 .. Len(pre)
               PROVE  PackingIs(pre[k], ToLay(first + k - 1)')
    BY <1>2 DEF PrePart, PackingsOK, ToLay
  <2>1. PICK f \in 1 .. PackFrames : f = first + k - 1
    BY PreFrames
  <2>2. PackingIs(pre[k], ToLay(f))
    BY <2>1 DEF PrePart, PackingsOK
  <2>3. PackingIs(pre[k], ToLay(f)')
    BY <1>1, <1>2, <2>2, MissedToLay
  <2>4. ToLay(f)' = ToLay(first + k - 1)'
    BY <1>2, <2>1 DEF ToLay
  <2> QED
    BY <2>3, <2>4
<1>5. PackedPart'
  <2> SUFFICES ASSUME step = "pack" PROVE UnionInv' /\ PackingsOK(first, packed)'
    BY <1>2 DEF PackedPart
  <2>1. UnionInv /\ PackingsOK(first, packed)
    BY DEF PackedPart
  <2>2. UnionInv'
    <3>1. \A g \in 1 .. PackFrames : frames'[g].patches = frames[g].patches
      BY <1>1, <1>2, LayMissedFrames
    <3> QED
      BY <1>2, <2>1, <3>1, UnionsKept
  <2>3. ASSUME NEW k \in 1 .. Len(packed)
        PROVE  PackingIs(packed[k], ToLay(first + k - 1)')
    <3>1. PICK f \in 1 .. PackFrames : f = first + k - 1
      BY PackedBefore
    <3>2. PackingIs(packed[k], ToLay(f))
      BY <2>1, <3>1 DEF PackingsOK
    <3>3. PackingIs(packed[k], ToLay(f)')
      BY <1>1, <1>2, <3>2, MissedToLay
    <3>4. ToLay(f)' = ToLay(first + k - 1)'
      BY <1>2, <3>1 DEF ToLay
    <3> QED
      BY <3>3, <3>4
  <2> QED
    BY <1>2, <2>2, <2>3 DEF PackingsOK, ToLay
<1> QED
  BY <1>3, <1>4, <1>5

\* So it is when a patch is laid or the canvas grows.
LEMMA LayingKeeps ==
  ASSUME AlignInv, AllPacked, FramesPart, LayPart, PrePart, PackedPart, LayPatch \/ LayGrow
  PROVE  FramesPart' /\ LayPart' /\ PrePart' /\ PackedPart'
<1>1. UNCHANGED <<opt, frames, subs, step, at, first, tracks, unions, packed, pre>>
  BY DEF LayPatch, LayGrow
<1>2. LayingInv'
  BY LayingPatch, LayingGrown
<1> QED
  BY <1>1, <1>2, FramesPartKept, PrePartKept, PackedPartKept DEF LayPart

\* And when nothing happens.
LEMMA StayKeeps ==
  ASSUME FramesPart, LayPart, PrePart, PackedPart, UNCHANGED gpaVars
  PROVE  FramesPart' /\ LayPart' /\ PrePart' /\ PackedPart'
<1>1. UNCHANGED <<opt, frames, patches, placed, missed, canvas, subs, step, at, first,
                  tracks, unions, packed, pre>>
  BY DEF gpaVars, packVars
<1>2. FramesPart' /\ PrePart' /\ PackedPart'
  BY <1>1, FramesPartKept, PrePartKept, PackedPartKept
<1>3. LayPart'
  <2> SUFFICES ASSUME step \in {"first", "union", "pack"} PROVE LayingInv'
    BY <1>1 DEF LayPart
  <2>1. LayingInv
    BY DEF LayPart
  <2>2. /\ Current' = Current /\ Ground' = Ground /\ Behind' = Behind
        /\ Ascending(Alive)' = Ascending(Alive)
    BY <1>1, LayingSame
  <2>3. MissedInv'
    BY <1>1, <2>1, <2>2 DEF LayingInv, MissedInv, MissedLies, ToLay
  <2>4. (step = "union" => UnionList)'
    BY <1>1, <2>1, <2>2 DEF LayingInv, UnionList, HoldsTrack, TrackPatch
  <2> QED
    BY <1>1, <2>1, <2>2, <2>3, <2>4 DEF LayingInv, ListOK, MatchedIn, LiesOn, OnCanvas
<1> QED
  BY <1>2, <1>3

\* T has what f gives for 1 .. n.
Gives(f, n, T) ==
  /\ \A k \in 1 .. n : f[k] \in Nat \ {0} /\ f[k] \in T
  /\ \A y \in T : \E k \in 1 .. n : y = f[k]

\* The largest of what the patches of a track have in one field.
LEMMA LargestField ==
  ASSUME NEW n \in Nat \ {0}, NEW f, NEW T, Gives(f, n, T)
  PROVE  /\ LargestOf(T) \in Nat \ {0} /\ \A k \in 1 .. n : f[k] <= LargestOf(T)
         /\ \E k \in 1 .. n : LargestOf(T) = f[k]
<1>0. /\ \A k \in 1 .. n : f[k] \in Nat \ {0} /\ f[k] \in T
      /\ \A y \in T : \E k \in 1 .. n : y = f[k]
  BY DEF Gives
<1>1. PICK g : g = [k \in 1 .. n |-> f[k]]
  OBVIOUS
<1>2. g \in Surjection(1 .. n, T)
  BY <1>0, <1>1 DEF Surjection
<1>3. PICK G : G = 1 .. n
  OBVIOUS
<1>4. IsFiniteSet(G) /\ g \in Surjection(G, T) /\ \A y \in T : y \in Nat
  <2>1. IsFiniteSet(1 .. n)
    BY FS_Interval
  <2> QED
    BY <1>0, <1>2, <1>3, <2>1
<1>5. PICK a : a = f[1]
  OBVIOUS
<1>6. a \in T /\ a \in Nat
  BY <1>0, <1>5
<1>7. PICK S : S = {a} \cup T
  OBVIOUS
<1>8. S = T
  BY <1>6, <1>7
<1>9. LargestOf(S) \in S /\ \A y \in S : y <= LargestOf(S)
  BY <1>4, <1>6, <1>7, LargestImage
<1>10. PICK L : L = LargestOf(T)
  OBVIOUS
<1>11. L \in T /\ \A y \in T : y <= L
  BY <1>8, <1>9, <1>10
<1> QED
  BY <1>0, <1>10, <1>11

\* A union has room for all patches of its track, and no more.
LEMMA UnionIs ==
  ASSUME NEW t, NEW n \in Nat \ {0}, DOMAIN t = 1 .. n,
         \A k \in 1 .. n : TrackPatch(t, k) \in PatchSet
  PROVE  /\ IsPatch(UnionOf(t)) /\ Solid(UnionOf(t))
         /\ UnionOf(t).match = TrackPatch(t, 1).match
         /\ Narrow => UnionOf(t).shape.w < MinU
         /\ \A k \in 1 .. n : TrackPatch(t, k).shape.occ \subseteq UnionOf(t).shape.occ
         /\ UnionOf(t).shape.w \in Nat \ {0} /\ UnionOf(t).shape.h \in Nat \ {0}
<1> DEFINE shapes == {TrackPatch(t, k).shape : k \in DOMAIN t}
           WS == {s.w : s \in shapes}
           HS == {s.h : s \in shapes}
           occ == UNION {s.occ : s \in shapes}
           head == TrackPatch(t, 1)
<1>1. PICK W, H, O : W = LargestOf(WS) /\ H = LargestOf(HS) /\ O = occ
  OBVIOUS
<1>2. PICK u : u = UnionOf(t)
  OBVIOUS
<1>3. u = [shape |-> [w |-> W, h |-> H, occ |-> O, view |-> head.shape.view, at |-> head.shape.at],
           match |-> head.match, u0 |-> 0, v0 |-> 0, turn |-> DEFAULT]
  BY <1>1, <1>2 DEF UnionOf
<1>4. ASSUME NEW k \in 1 .. n
      PROVE  /\ TrackPatch(t, k).shape \in Shapes
             /\ TrackPatch(t, k).shape.w \in Nat \ {0} /\ TrackPatch(t, k).shape.h \in Nat \ {0}
             /\ TrackPatch(t, k).shape.occ \subseteq
                  (0 .. TrackPatch(t, k).shape.w - 1) \X (0 .. TrackPatch(t, k).shape.h - 1)
  BY PatchFields
<1>5. PICK S : S = [k \in 1 .. n |-> TrackPatch(t, k).shape]
  OBVIOUS
<1>6. /\ shapes = {S[k] : k \in 1 .. n}
      /\ \A k \in 1 .. n : /\ S[k] = TrackPatch(t, k).shape
                           /\ S[k] \in Shapes /\ S[k].w \in Nat \ {0} /\ S[k].h \in Nat \ {0}
                           /\ S[k].occ \subseteq (0 .. S[k].w - 1) \X (0 .. S[k].h - 1)
  BY <1>4, <1>5
<1> HIDE DEF shapes
<1>7. /\ W \in Nat \ {0} /\ \A k \in 1 .. n : S[k].w <= W
      /\ \E k \in 1 .. n : W = S[k].w
  <2>1. PICK f, T : f = [k \in 1 .. n |-> S[k].w] /\ T = WS
    OBVIOUS
  <2>2. \A k \in 1 .. n : f[k] \in Nat \ {0} /\ f[k] \in T /\ f[k] = S[k].w
    BY <1>6, <2>1
  <2>3. \A y \in T : \E k \in 1 .. n : y = f[k]
    BY <1>6, <2>1
  <2>4. /\ LargestOf(T) \in Nat \ {0} /\ \A k \in 1 .. n : f[k] <= LargestOf(T)
        /\ \E k \in 1 .. n : LargestOf(T) = f[k]
    <3>1. Gives(f, n, T)
      BY <2>2, <2>3 DEF Gives
    <3> QED
      BY <3>1, LargestField
  <2> QED
    BY <1>1, <2>1, <2>2, <2>4
<1>8. /\ H \in Nat \ {0} /\ \A k \in 1 .. n : S[k].h <= H
  <2>1. PICK f, T : f = [k \in 1 .. n |-> S[k].h] /\ T = HS
    OBVIOUS
  <2>2. \A k \in 1 .. n : f[k] \in Nat \ {0} /\ f[k] \in T /\ f[k] = S[k].h
    BY <1>6, <2>1
  <2>3. \A y \in T : \E k \in 1 .. n : y = f[k]
    BY <1>6, <2>1
  <2>4. /\ LargestOf(T) \in Nat \ {0} /\ \A k \in 1 .. n : f[k] <= LargestOf(T)
    <3>1. Gives(f, n, T)
      BY <2>2, <2>3 DEF Gives
    <3> QED
      BY <3>1, LargestField
  <2> QED
    BY <1>1, <2>1, <2>2, <2>4
<1>9. \A k \in 1 .. n : S[k].occ \subseteq O
  BY <1>1, <1>6
<1>10. O \subseteq (0 .. W - 1) \X (0 .. H - 1)
  <2> SUFFICES ASSUME NEW b \in O PROVE b \in (0 .. W - 1) \X (0 .. H - 1)
    OBVIOUS
  <2>1. PICK k \in 1 .. n : b \in S[k].occ
    BY <1>1, <1>6
  <2>2. PICK w, h : w = S[k].w /\ h = S[k].h
    OBVIOUS
  <2>3. b \in (0 .. w - 1) \X (0 .. h - 1) /\ w \in Nat /\ h \in Nat /\ w <= W /\ h <= H
    BY <1>6, <1>7, <1>8, <2>1, <2>2
  <2>4. 0 .. w - 1 \subseteq 0 .. W - 1 /\ 0 .. h - 1 \subseteq 0 .. H - 1
    BY <1>7, <1>8, <2>3
  <2> QED
    BY <2>3, <2>4
<1>11. Narrow => W < MinU
  BY <1>6, <1>7 DEF Narrow
<1>12. /\ u.shape.w = W /\ u.shape.h = H /\ u.shape.occ = O /\ u.match = head.match
       /\ u.u0 = 0 /\ u.v0 = 0 /\ u.turn = DEFAULT
       /\ u = [shape |-> u.shape, match |-> u.match, u0 |-> u.u0, v0 |-> u.v0, turn |-> u.turn]
  BY <1>3
<1>13. Solid(u)
  BY <1>7, <1>8, <1>10, <1>12, OrientationsType DEF Solid
<1> QED
  BY <1>2, <1>6, <1>7, <1>8, <1>9, <1>11, <1>12, <1>13 DEF IsPatch

\* The canvas of the unions.
LEMMA UnionCanvas ==
  ASSUME NEW ps, NEW n \in Nat, DOMAIN ps = 1 .. n,
         \A i \in 1 .. n : ps[i].shape.w \in Nat \ {0} /\ ps[i].shape.h \in Nat \ {0}
  PROVE  CanvasOK(Canvas(StartU(ps), LargestOf({0} \cup {ps[i].shape.h + 1 : i \in DOMAIN ps})))
<1> DEFINE f == [i \in 1 .. n |-> ps[i].shape.h + 1]
           T == {ps[i].shape.h + 1 : i \in DOMAIN ps}
<1>1. f \in Surjection(1 .. n, T) /\ (\A y \in T : y \in Nat)
  BY DEF Surjection
<1> HIDE DEF f, T
<1>2. PICK G, S : G = 1 .. n /\ S = {0} \cup T
  OBVIOUS
<1>3. LargestOf(S) \in S
  <2>1. IsFiniteSet(G) /\ f \in Surjection(G, T)
    BY <1>1, <1>2, FS_Interval
  <2> QED
    BY <1>1, <1>2, <2>1, LargestImage
<1>4. LargestOf(S) \in Nat
  BY <1>1, <1>2, <1>3
<1>5. StartU(ps) \in Nat \ {0}
  BY StartUIs
<1>6. CanvasOK(Canvas(StartU(ps), LargestOf(S)))
  BY <1>4, <1>5, CanvasEmpty
<1> QED
  BY <1>2, <1>6 DEF T

\* The tracks that go on, when a frame is added.
LEMMA TrackNow ==
  ASSUME AlignInv, AllPacked, FollowInv', Track
  PROVE  /\ step' = "union" /\ at - first + 1 \in Nat \ {0} /\ first = LastDone + 1
         /\ LastDone \in Nat /\ first \in Nat \ {0} /\ first <= PackFrames
         /\ TracksOK(Patches, tracks', first, at - first + 1)
         /\ \A k \in 1 .. at - first + 1 :
              first + k - 1 \in 1 .. PackFrames /\ frames[first + k - 1].patches \in Seq(PatchSet)
<1>1. /\ step = "track" /\ step' = "union"
      /\ UNCHANGED <<frames, phase, at, first, subs>>
  BY DEF Track
<1>2. /\ OpenFrom(LastDone + 1) /\ LastDone \in Nat /\ PackFrames \in Nat
      /\ first = LastDone + 1 /\ Len(pre) \in Nat \ {0} /\ at = first + Len(pre)
  BY <1>1, OpenFrames, ConstantsType DEF AlignInv, FollowInv, TileInv, Control, Growing
<1>3. AllPacked'
  BY <1>1 DEF AllPacked
<1>4. OpenInv'
  BY <1>3 DEF FollowInv
<1>5. at <= PackFrames /\ TracksOK(Patches, tracks', first, at - first + 1)
  <2>1. Patches' = Patches
    BY <1>1 DEF Patches
  <2>2. TrackLength' = at - first + 1
    BY <1>1 DEF TrackLength
  <2>3. at' <= PackFrames /\ TracksOK(Patches', tracks', first', TrackLength')
    BY <1>1, <1>4 DEF OpenInv, Growing
  <2> QED
    BY <1>1, <2>1, <2>2, <2>3
<1>6. ASSUME NEW k \in 1 .. at - first + 1
      PROVE  first + k - 1 \in 1 .. PackFrames /\ frames[first + k - 1].patches \in Seq(PatchSet)
  <2>1. first + k - 1 \in LastDone + 1 .. PackFrames
    BY <1>2, <1>5
  <2> QED
    BY <1>2, <2>1 DEF OpenFrom
<1> QED
  BY <1>1, <1>2, <1>5, <1>6

\* One of them.
LEMMA AliveTrack ==
  ASSUME NEW P, NEW ts, NEW lo, NEW n \in Nat \ {0}, TracksOK(P, ts, lo, n),
         NEW i \in 1 .. Len(ts), ts[i] # <<>>
  PROVE  /\ DOMAIN ts[i] = 1 .. n
         /\ \A k \in 1 .. n : ts[i][k] \in 1 .. Len(P[lo + k - 1])
<1>1. TrackOK(P, ts[i], i, lo, n)
  BY DEF TracksOK, AliveIn
<1>2. PICK t : t = ts[i]
  OBVIOUS
<1>3. IsSeq(t) /\ Len(t) = n /\ \A k \in 1 .. n : t[k] \in 1 .. Len(P[lo + k - 1])
  BY <1>1, <1>2 DEF TrackOK
<1> QED
  BY <1>2, <1>3 DEF IsSeq

\* Its patches.
LEMMA TrackPatches ==
  ASSUME AlignInv, AllPacked, FollowInv', Track, NEW i \in 1 .. Len(tracks'),
         NEW t, t = tracks'[i], t # <<>>, NEW u, u = UnionOf(t)
  PROVE  /\ IsPatch(u) /\ Solid(u) /\ HoldsTrack(u, t)'
         /\ u.shape.w \in Nat \ {0} /\ u.shape.h \in Nat \ {0}
         /\ t[1] \in 1 .. Len(frames[first].patches)
         /\ u.match = frames[first].patches[t[1]].match
<1>1. /\ at - first + 1 \in Nat \ {0} /\ first \in Nat \ {0}
      /\ TracksOK(Patches, tracks', first, at - first + 1)
      /\ \A k \in 1 .. at - first + 1 :
           first + k - 1 \in 1 .. PackFrames /\ frames[first + k - 1].patches \in Seq(PatchSet)
  BY TrackNow
<1>2. PICK n, ts : n = at - first + 1 /\ ts = tracks'
  OBVIOUS
<1>3. n \in Nat \ {0} /\ TracksOK(Patches, ts, first, n) /\ i \in 1 .. Len(ts) /\ ts[i] # <<>>
      /\ t = ts[i]
  BY <1>1, <1>2
<1>4. DOMAIN t = 1 .. n /\ \A k \in 1 .. n : t[k] \in 1 .. Len(Patches[first + k - 1])
  BY <1>3, AliveTrack
<1>5. \A k \in 1 .. n : /\ t[k] \in 1 .. Len(frames[first + k - 1].patches)
                        /\ TrackPatch(t, k) \in PatchSet
  <2> TAKE k \in 1 .. n
  <2>1. PICK f \in 1 .. PackFrames : f = first + k - 1 /\ frames[f].patches \in Seq(PatchSet)
    BY <1>1, <1>2
  <2>2. Patches[f] = frames[f].patches
    BY DEF Patches
  <2>3. t[k] \in 1 .. Len(frames[f].patches)
    BY <1>4, <2>1, <2>2
  <2>4. frames[f].patches[t[k]] \in PatchSet
    BY <2>1, <2>3
  <2> QED
    BY <2>1, <2>3, <2>4 DEF TrackPatch
<1>6. /\ IsPatch(UnionOf(t)) /\ Solid(UnionOf(t))
      /\ UnionOf(t).match = TrackPatch(t, 1).match
      /\ Narrow => UnionOf(t).shape.w < MinU
      /\ \A k \in 1 .. n : TrackPatch(t, k).shape.occ \subseteq UnionOf(t).shape.occ
      /\ UnionOf(t).shape.w \in Nat \ {0} /\ UnionOf(t).shape.h \in Nat \ {0}
  BY <1>3, <1>4, <1>5, UnionIs
<1>7. first + 1 - 1 = first /\ 1 \in 1 .. n
  BY <1>1, <1>3
<1>8. t[1] \in 1 .. Len(frames[first].patches) /\ TrackPatch(t, 1) = frames[first].patches[t[1]]
  BY <1>5, <1>7 DEF TrackPatch
<1>9. HoldsTrack(u, t)'
  <2>1. UNCHANGED <<frames, at, first>>
    BY DEF Track
  <2> QED
    BY <1>2, <1>6, <2>1 DEF HoldsTrack, TrackPatch
<1> QED
  BY <1>6, <1>8, <1>9

\* The unions that are laid are those of the tracks that go on.
LEMMA TrackKeeps ==
  ASSUME AlignInv, AllPacked, FramesPart, PrePart, FollowInv', Track
  PROVE  FramesPart' /\ LayPart' /\ PrePart' /\ PackedPart'
<1>1. /\ step = "track" /\ step' = "union"
      /\ UNCHANGED <<opt, frames, at, first, unions, packed, pre, subs>>
  BY DEF Track
<1>2. FramesPart' /\ PrePart' /\ PackedPart'
  BY <1>1, FramesPartKept, PrePartKept DEF PackedPart, Growing
<1>3. packed = <<>>
  BY <1>1 DEF AlignInv, FollowInv, TileInv, Control
<1>4. /\ at - first + 1 \in Nat \ {0} /\ first = LastDone + 1
      /\ LastDone \in Nat /\ first \in Nat \ {0} /\ first <= PackFrames
      /\ TracksOK(Patches, tracks', first, at - first + 1)
  BY TrackNow
<1>5. PICK ts : ts = tracks'
  OBVIOUS
<1>6. PICK S : S = {i \in DOMAIN ts : ts[i] # <<>>}
  OBVIOUS
<1>7. PICK ids : ids = Ascending(S)
  OBVIOUS
<1>8. PICK all : all = [i \in DOMAIN ids |-> UnionOf(ts[ids[i]])]
  OBVIOUS
<1>9. /\ patches' = all /\ placed' = 0 /\ missed' = <<>>
      /\ canvas' = Canvas(StartU(all), LargestOf({0} \cup {all[i].shape.h + 1 : i \in DOMAIN all}))
  BY <1>5, <1>6, <1>7, <1>8 DEF Track, Begin
<1>10. DOMAIN ts = 1 .. Len(ts) /\ Len(ts) \in Nat
  BY <1>4, <1>5 DEF TracksOK, IsSeq
<1>11. Lists(ids, S)
  BY <1>6, <1>7, <1>10, AscendingLists
<1>12. PICK n : n = Len(ids)
  OBVIOUS
<1>13. /\ n \in Nat /\ DOMAIN ids = 1 .. n
       /\ \A i \in 1 .. n : ids[i] \in 1 .. Len(ts) /\ ts[ids[i]] # <<>>
  BY <1>6, <1>10, <1>11, <1>12 DEF Lists, IsSeq
<1>14. DOMAIN all = 1 .. n /\ IsSeq(all) /\ Len(all) = n
  <2>1. all = [i \in 1 .. n |-> all[i]] /\ DOMAIN all = 1 .. n
    BY <1>8, <1>13
  <2>2. Len(all) = n
    BY <1>13, <2>1
  <2> QED
    BY <1>13, <2>1, <2>2 DEF IsSeq
<1>15. ASSUME NEW i \in 1 .. n
       PROVE  /\ IsPatch(all[i]) /\ Solid(all[i]) /\ HoldsTrack(all[i], ts[ids[i]])'
              /\ all[i].shape.w \in Nat \ {0} /\ all[i].shape.h \in Nat \ {0}
              /\ \E x \in 1 .. Len(frames[first].patches) :
                   all[i].match = frames[first].patches[x].match
  <2>1. PICK x \in 1 .. Len(ts) : x = ids[i] /\ ts[x] # <<>>
    BY <1>13
  <2>2. PICK t, u : t = ts[x] /\ u = UnionOf(t)
    OBVIOUS
  <2>3. x \in 1 .. Len(tracks') /\ t = tracks'[x] /\ t # <<>>
    BY <1>5, <2>1, <2>2
  <2>4. /\ IsPatch(u) /\ Solid(u) /\ HoldsTrack(u, t)'
        /\ u.shape.w \in Nat \ {0} /\ u.shape.h \in Nat \ {0}
        /\ t[1] \in 1 .. Len(frames[first].patches)
        /\ u.match = frames[first].patches[t[1]].match
    BY <2>2, <2>3, TrackPatches
  <2>5. all[i] = u /\ ts[ids[i]] = t
    BY <1>8, <1>13, <2>1, <2>2
  <2> QED
    BY <2>4, <2>5
<1>16. CanvasOK(canvas')
  BY <1>9, <1>13, <1>14, <1>15, UnionCanvas
<1>17. Current' = first /\ Behind' = frames[LastDone].patches /\ Ground' = {}
  <2>1. Current' = first + 0
    BY <1>1, <1>3 DEF Current
  <2>2. Behind' = frames[LastDone].patches /\ Ground' = {}
    BY <1>1 DEF Behind, LastDone, Ground
  <2> QED
    BY <1>4, <2>1, <2>2
<1>18. LiesOn(patches', placed', Ground', canvas')
  BY <1>9, <1>17, LiesNone
<1>19. Current' # 1 => MatchedIn(all, Behind')
  <2> SUFFICES ASSUME first # 1, NEW i \in 1 .. n
               PROVE  all[i].match = Invalid \/ all[i].match + 1 \in 1 .. Len(frames[LastDone].patches)
    BY <1>14, <1>17 DEF MatchedIn
  <2>1. LastDone \in 1 .. PackFrames - 1
    BY <1>4, ConstantsType
  <2>2. MatchedIn(frames[first].patches, frames[LastDone].patches)
    BY <1>4, <2>1 DEF FramesPart
  <2>3. PICK x \in 1 .. Len(frames[first].patches) : all[i].match = frames[first].patches[x].match
    BY <1>15
  <2> QED
    BY <2>2, <2>3 DEF MatchedIn
<1>20. UnionList'
  <2>1. Alive' = S
    BY <1>5, <1>6 DEF Alive
  <2>2. Ascending(Alive)' = ids
    BY <1>7, <2>1 DEF Ascending
  <2>3. ASSUME NEW i \in 1 .. n
        PROVE  HoldsTrack(patches[i], tracks[ids[i]])'
    <3>1. HoldsTrack(all[i], ts[ids[i]])'
      BY <1>15
    <3>2. PICK u, t : u = all[i] /\ t = ts[ids[i]]
      OBVIOUS
    <3>3. HoldsTrack(u, t)'
      BY <3>1, <3>2
    <3>4. u = patches'[i] /\ t = tracks'[ids[i]]
      BY <1>5, <1>9, <3>2
    <3> QED
      BY <3>3, <3>4 DEF HoldsTrack, TrackPatch
  <2>4. Len(patches') = n /\ Len(Ascending(Alive)') = n
    BY <1>9, <1>12, <1>14, <2>2
  <2> QED
    BY <2>2, <2>3, <2>4 DEF UnionList
<1>21. LayingInv'
  <2>1. ListOK(patches)' /\ (placed \in 0 .. Len(patches))'
    BY <1>9, <1>13, <1>14, <1>15 DEF ListOK
  <2>2. MissedInv'
    BY <1>1, <1>9 DEF MissedInv
  <2>3. (Current # 1 => MatchedIn(patches, Behind))'
    BY <1>9, <1>19
  <2>4. CanvasOK(canvas)' /\ (step # "union" /\ Narrow => canvas.U = MinU)'
    BY <1>1, <1>16
  <2> QED
    BY <1>18, <1>20, <2>1, <2>2, <2>3, <2>4 DEF LayingInv
<1> QED
  BY <1>2, <1>21 DEF LayPart

\* The list of the tracks that go on.
LEMMA AliveList ==
  ASSUME AlignInv, AllPacked, step \in Growing
  PROVE  Lists(Ascending(Alive), Alive) /\ Alive \subseteq Nat
<1>1. IsSeq(tracks)
  BY DEF AlignInv, FollowInv, OpenInv, TracksOK
<1>2. PICK n, S : n = Len(tracks) /\ S = Alive
  OBVIOUS
<1>3. n \in Nat /\ S \in SUBSET (1 .. n)
  BY <1>1, <1>2 DEF IsSeq, Alive
<1>4. Lists(Ascending(S), S)
  BY <1>3, AscendingLists
<1> QED
  BY <1>2, <1>3, <1>4

\* What has been laid for a track becomes its union.
LEMMA UniteKeeps ==
  ASSUME AlignInv, AllPacked, FramesPart, LayPart, PrePart, Unite
  PROVE  FramesPart' /\ LayPart' /\ PrePart' /\ PackedPart'
<1>1. /\ step = "union" /\ step' = "frame" /\ placed = Len(patches)
      /\ UNCHANGED <<opt, frames, at, first, tracks, packed, pre, subs>>
  BY DEF Unite, Laid
<1>2. FramesPart' /\ PrePart' /\ LayPart'
  BY <1>1, FramesPartKept, PrePartKept DEF LayPart, Growing
<1>3. packed = <<>>
  BY <1>1 DEF AlignInv, FollowInv, TileInv, Control
<1>4. LayingInv /\ UnionList
  BY <1>1 DEF LayPart, LayingInv
<1>5. /\ CanvasOK(canvas) /\ IsSeq(patches) /\ LiesOn(patches, Len(patches), Ground, canvas)
      /\ \A i \in 1 .. Len(patches) : Solid(patches[i])
  BY <1>1, <1>4 DEF LayingInv, ListOK
<1>6. PICK ids : ids = Ascending(Alive)
  OBVIOUS
<1>7. Lists(ids, Alive) /\ Alive \subseteq Nat
  BY <1>1, <1>6, AliveList DEF Growing
<1>8. /\ Len(ids) = Len(patches) /\ DOMAIN ids = 1 .. Len(patches) /\ Len(patches) \in Nat
      /\ \A i \in 1 .. Len(patches) : HoldsTrack(patches[i], tracks[ids[i]])
  BY <1>4, <1>5, <1>6, <1>7 DEF UnionList, Lists, IsSeq
<1>9. PICK of : of = [t \in Alive |-> patches[CHOOSE i \in DOMAIN ids : ids[i] = t]]
  OBVIOUS
<1>10. unions' = [of |-> of, height |-> canvas.height]
  BY <1>6, <1>9 DEF Unite
<1>11. ASSUME NEW t \in Alive
       PROVE  \E i \in 1 .. Len(patches) : ids[i] = t /\ of[t] = patches[i]
  <2>1. \E i \in DOMAIN ids : ids[i] = t
    BY <1>7, <1>8 DEF Lists
  <2>2. PICK i : i = CHOOSE j \in DOMAIN ids : ids[j] = t
    OBVIOUS
  <2>3. i \in DOMAIN ids /\ ids[i] = t
    BY <2>1, <2>2, Zenon
  <2>4. of[t] = patches[i]
    BY <1>9, <2>2
  <2> QED
    BY <1>8, <2>3, <2>4
<1>12. ASSUME NEW t \in Alive
       PROVE  /\ Solid(of[t]) /\ HoldsTrack(of[t], tracks[t])
              /\ Box(of[t]) \subseteq Nat \X Nat
  <2>1. PICK i \in 1 .. Len(patches) : ids[i] = t /\ of[t] = patches[i]
    BY <1>11
  <2>2. OnCanvas(patches[i], canvas) /\ canvas.width \in Nat /\ canvas.row \in Nat
    BY <1>5 DEF LiesOn, CanvasOK
  <2>3. 0 .. canvas.width - 1 \subseteq Nat /\ 0 .. canvas.row - 1 \subseteq Nat
    BY <2>2
  <2>4. Box(of[t]) \subseteq Nat \X Nat
    BY <2>1, <2>2, <2>3 DEF OnCanvas
  <2> QED
    BY <1>5, <1>8, <2>1, <2>4
<1>13. ASSUME NEW s \in Alive, NEW t \in Alive, s < t
       PROVE  Occ(of[s]) \cap Box(of[t]) = {}
  <2>1. PICK i \in 1 .. Len(patches) : ids[i] = s /\ of[s] = patches[i]
    BY <1>11
  <2>2. PICK j \in 1 .. Len(patches) : ids[j] = t /\ of[t] = patches[j]
    BY <1>11
  <2>3. i < j
    <3>1. j < i => t < s
      BY <1>7, <1>8, <2>1, <2>2 DEF Lists
    <3>2. i # j
      BY <1>7, <1>13, <2>1, <2>2
    <3>3. ~(t < s)
      BY <1>7, <1>13
    <3> QED
      BY <1>8, <3>1, <3>2, <3>3
  <2> QED
    BY <1>5, <2>1, <2>2, <2>3 DEF LiesOn
<1>14. UnionInv'
  <2>1. unions'.of = of /\ unions'.height = canvas.height
    BY <1>10
  <2>2. Alive' = Alive
    BY <1>1 DEF Alive
  <2>3. canvas.height \in Nat
    BY <1>5 DEF CanvasOK
  <2>4. ASSUME NEW t \in Alive
        PROVE  HoldsTrack(unions.of[t], tracks[t])'
    BY <1>1, <1>12, <2>1, <2>4 DEF HoldsTrack, TrackPatch
  <2> QED
    BY <1>12, <1>13, <2>1, <2>2, <2>3, <2>4 DEF UnionInv
<1>15. PackingsOK(first, packed)'
  <2>1. packed' = <<>> /\ Len(<<>>) = 0
    BY <1>1, <1>3
  <2> QED
    BY <2>1 DEF PackingsOK
<1> QED
  BY <1>2, <1>14, <1>15 DEF PackedPart

\* S has a and what g gives for the members of I.
Over(S, a, I, g) == S = {a} \cup {g[i] : i \in I} /\ \A i \in I : g[i] \in Nat

\* The largest of a number and of what a function gives.
LEMMA LargestOver ==
  ASSUME NEW a \in Nat, NEW I, IsFiniteSet(I), NEW g, NEW S, Over(S, a, I, g)
  PROVE  /\ LargestOf(S) \in Nat /\ a <= LargestOf(S)
         /\ \A i \in I : g[i] <= LargestOf(S)
         /\ LargestOf(S) = a \/ \E i \in I : LargestOf(S) = g[i]
<1>0. S = {a} \cup {g[i] : i \in I} /\ \A i \in I : g[i] \in Nat
  BY DEF Over
<1>1. PICK T, h : T = {g[i] : i \in I} /\ h = [i \in I |-> g[i]]
  OBVIOUS
<1>2. h \in Surjection(I, T) /\ (\A y \in T : y \in Nat) /\ S = {a} \cup T
  BY <1>0, <1>1 DEF Surjection
<1>3. LargestOf(S) \in S /\ \A y \in S : y <= LargestOf(S)
  BY <1>2, LargestImage
<1>4. PICK L : L = LargestOf(S)
  OBVIOUS
<1>5. L \in S /\ (\A y \in S : y <= L) /\ \A y : y \in S <=> y = a \/ \E i \in I : y = g[i]
  BY <1>1, <1>2, <1>3, <1>4
<1> QED
  BY <1>0, <1>4, <1>5

\* A canvas on which global patches lie.
LEMMA WithGlobalsIs ==
  ASSUME NEW U \in Nat \ {0}, NEW V \in Nat, NEW I, IsFiniteSet(I), NEW items,
         \A i \in I : Solid(items[i]) /\ Box(items[i]) \subseteq Nat \X Nat,
         NEW G, G = {items[i] : i \in I}, NEW c, c = WithGlobals(Canvas(U, V), G)
  PROVE  CanvasOK(c) /\ c.U = U /\ \A p \in G : OnCanvas(p, c)
<1>1. PICK fx, fy : /\ fx = [i \in I |-> items[i].u0 + BoxW(items[i])]
                    /\ fy = [i \in I |-> items[i].v0 + BoxH(items[i])]
  OBVIOUS
<1>2. PICK SX, SY, SZ : /\ SX = {U} \cup {p.u0 + BoxW(p) : p \in G}
                        /\ SY = {V} \cup {p.v0 + BoxH(p) : p \in G}
                        /\ SZ = {0} \cup {p.v0 + BoxH(p) : p \in G}
  OBVIOUS
<1>3. /\ SX = {U} \cup {fx[i] : i \in I}
      /\ SY = {V} \cup {fy[i] : i \in I}
      /\ SZ = {0} \cup {fy[i] : i \in I}
  BY <1>1, <1>2
<1>4. ASSUME NEW i \in I
      PROVE  fx[i] \in Nat /\ fy[i] \in Nat
  <2>1. PICK p : p = items[i]
    OBVIOUS
  <2>2. Solid(p) /\ Box(p) \subseteq Nat \X Nat
    BY <2>1
  <2>3. <<p.u0 + BoxW(p) - 1, p.v0 + BoxH(p) - 1>> \in Nat \X Nat
    BY <2>2, BoxCorner
  <2>4. p.u0 + BoxW(p) - 1 \in Nat /\ p.v0 + BoxH(p) - 1 \in Nat
    BY <2>3
  <2>5. p.u0 \in Int /\ p.v0 \in Int /\ BoxW(p) \in Nat /\ BoxH(p) \in Nat
    BY <2>2, BoxBounds DEF Solid
  <2>6. p.u0 + BoxW(p) \in Nat /\ p.v0 + BoxH(p) \in Nat
    BY <2>4, <2>5
  <2> QED
    BY <1>1, <2>1, <2>6
<1>5. PICK W, H, R : W = LargestOf(SX) /\ H = LargestOf(SY) /\ R = LargestOf(SZ)
  OBVIOUS
<1>6. W \in Nat /\ U <= W /\ \A i \in I : fx[i] <= W
  <2>1. Over(SX, U, I, fx)
    BY <1>3, <1>4 DEF Over
  <2> QED
    BY <1>5, <2>1, LargestOver
<1>7. H \in Nat /\ V <= H /\ \A i \in I : fy[i] <= H
  <2>1. Over(SY, V, I, fy)
    BY <1>3, <1>4 DEF Over
  <2> QED
    BY <1>5, <2>1, LargestOver
<1>8. R \in Nat /\ (\A i \in I : fy[i] <= R) /\ (R = 0 \/ \E i \in I : R = fy[i])
  <2>1. Over(SZ, 0, I, fy)
    BY <1>3, <1>4 DEF Over
  <2> QED
    BY <1>5, <2>1, LargestOver
<1>9. R <= H
  BY <1>7, <1>8
<1>10. PICK O : O = UNION {Occ(p) : p \in G}
  OBVIOUS
<1>11. c = [U |-> U, V |-> V, occ |-> O, horizon |-> c.horizon, width |-> W, height |-> H, row |-> R]
  <2>1. PICK d : d = Canvas(U, V)
    OBVIOUS
  <2>2. PICK hz : hz = [x \in 0 .. U - 1 |-> 0]
    OBVIOUS
  <2>3. d = [U |-> U, V |-> V, occ |-> {}, horizon |-> hz, width |-> U, height |-> V, row |-> 0]
    BY <2>1, <2>2 DEF Canvas
  <2>4. c = [d EXCEPT !.occ = O, !.width = W, !.height = H, !.row = R]
    BY <1>2, <1>5, <1>10, <2>1, <2>3 DEF WithGlobals
  <2> QED
    BY <2>3, <2>4
<1>12. /\ IsRecord(c) /\ c.U = U /\ c.V = V /\ c.occ = O
       /\ c.width = W /\ c.height = H /\ c.row = R
  <2>1. PICK hz : c = [U |-> U, V |-> V, occ |-> O, horizon |-> hz, width |-> W, height |-> H, row |-> R]
    BY <1>11
  <2>2. /\ c.U = U /\ c.V = V /\ c.occ = O /\ c.horizon = hz
        /\ c.width = W /\ c.height = H /\ c.row = R
    BY <2>1
  <2> QED
    BY <2>1, <2>2 DEF IsRecord
<1>13. ASSUME NEW i \in I
       PROVE  Box(items[i]) \subseteq (0 .. W - 1) \X (0 .. R - 1)
  <2>1. PICK p : p = items[i]
    OBVIOUS
  <2>2. Solid(p) /\ Box(p) \subseteq Nat \X Nat
    BY <2>1
  <2>3. PICK x, y : x = p.u0 + BoxW(p) /\ y = p.v0 + BoxH(p)
    OBVIOUS
  <2>4. /\ x \in Nat /\ y \in Nat /\ x <= W /\ y <= R
    BY <1>1, <1>4, <1>6, <1>8, <2>1, <2>3
  <2>5. PICK a, b : a = p.u0 /\ b = p.v0
    OBVIOUS
  <2>6. a \in Int /\ b \in Int /\ Box(p) \subseteq (a .. x - 1) \X (b .. y - 1)
    BY <2>2, <2>3, <2>5, BoxBounds DEF Solid
  <2> SUFFICES ASSUME NEW e \in Box(p) PROVE e \in (0 .. W - 1) \X (0 .. R - 1)
    BY <2>1
  <2>7. e[1] \in Nat /\ e[2] \in Nat /\ e = <<e[1], e[2]>>
    BY <2>2, InProduct
  <2>8. e[1] \in a .. x - 1 /\ e[2] \in b .. y - 1
    <3>1. e \in (a .. x - 1) \X (b .. y - 1)
      BY <2>6
    <3> QED
      BY <3>1, InProduct
  <2>9. e[1] \in 0 .. W - 1 /\ e[2] \in 0 .. R - 1
    BY <1>6, <1>8, <2>4, <2>6, <2>7, <2>8
  <2> QED
    BY <2>7, <2>9
<1>14. \A p \in G : OnCanvas(p, c)
  <2> SUFFICES ASSUME NEW i \in I PROVE OnCanvas(items[i], c)
    OBVIOUS
  <2>1. Occ(items[i]) \subseteq O
    BY <1>10
  <2> QED
    BY <1>12, <1>13, <2>1 DEF OnCanvas
<1>15. O \subseteq (0 .. W - 1) \X (0 .. R - 1)
  <2>1. \A i \in I : Occ(items[i]) \subseteq (0 .. W - 1) \X (0 .. R - 1)
    BY <1>13, OccInBox
  <2> QED
    BY <1>10, <2>1
<1>16. CanvasOK(c)
  <2>1. R \in 0 .. H
    BY <1>7, <1>8, <1>9
  <2> QED
    BY <1>6, <1>7, <1>12, <1>15, <2>1 DEF CanvasOK
<1> QED
  BY <1>12, <1>14, <1>16

\* A global patch has the place of its union, which holds it.
LEMMA GlobalItemSolid ==
  ASSUME NEW p \in PatchSet, NEW u, Solid(u), p.shape.occ \subseteq u.shape.occ,
         NEW g, g = GlobalItem(p, u)
  PROVE  /\ Solid(g) /\ IsPatch(g) /\ g.match = p.match /\ SamePlace(g, u)
         /\ g.shape.occ = p.shape.occ /\ g.shape.w = u.shape.w
         /\ Box(g) = Box(u) /\ Occ(g) \subseteq Occ(u)
<1>1. SamePlace(g, u)
  BY GlobalItemIs
<1>2. PICK s : s = p.shape
  OBVIOUS
<1>3. /\ s \in [w : Nat \ {0}, h : Nat \ {0}, occ : SUBSET (Nat \X Nat), view : Nat, at : Nat]
      /\ p = [shape |-> s, match |-> p.match, u0 |-> p.u0, v0 |-> p.v0, turn |-> p.turn]
  BY <1>2, PatchFields, PackingAssumption
<1>4. PICK r : r = [s EXCEPT !.w = u.shape.w, !.h = u.shape.h]
  OBVIOUS
<1>5. r.occ = s.occ /\ r.w = u.shape.w /\ r.h = u.shape.h
  BY <1>3, <1>4
<1>6. g = [shape |-> r, match |-> p.match, u0 |-> u.u0, v0 |-> u.v0, turn |-> u.turn]
  BY <1>2, <1>3, <1>4 DEF GlobalItem
<1>7. /\ g.shape = r /\ g.match = p.match /\ g.u0 = u.u0 /\ g.v0 = u.v0 /\ g.turn = u.turn
      /\ g = [shape |-> g.shape, match |-> g.match, u0 |-> g.u0, v0 |-> g.v0, turn |-> g.turn]
  BY <1>6
<1>8. Solid(g)
  BY <1>2, <1>5, <1>7 DEF Solid
<1>9. Box(g) = Box(u) /\ Occ(g) \subseteq Occ(u)
  BY <1>1, <1>2, <1>5, <1>7, SameBox
<1> QED
  BY <1>1, <1>2, <1>5, <1>7, <1>8, <1>9 DEF IsPatch

\* g, the patch i of the frame that is packed, lies in the union of its track.
InUnion(g, i) ==
  /\ Box(g) \subseteq Nat \X Nat
  /\ \E t \in Alive : /\ tracks[t][Len(packed) + 1] = i
                      /\ Box(g) = Box(unions.of[t]) /\ Occ(g) \subseteq Occ(unions.of[t])

\* The patches of the frame that is packed, the global ones in their unions.
LEMMA ItemsAre ==
  ASSUME AlignInv, AllPacked, step \in {"frame", "pack"}, UnionInv,
         NEW i \in 1 .. Len(frames[Current].patches), NEW p, p = frames[Current].patches[i],
         NEW g, g = Items(Current)[i]
  PROVE  /\ Solid(g) /\ IsPatch(g) /\ g.match = p.match
         /\ g.shape.w \in Nat \ {0} /\ (Narrow => g.shape.w < MinU)
         /\ i \notin GlobalsOf(Current) => g = p
         /\ i \in GlobalsOf(Current) => InUnion(g, i)
<1>1. FollowInv
  BY DEF AlignInv
<1>2. PICK f, cur, G, n : /\ f = Current /\ cur = frames[f].patches
                          /\ G = GlobalsOf(f) /\ n = Len(packed) + 1
  OBVIOUS
<1>3. /\ Len(cur) \in Nat /\ DOMAIN cur = 1 .. Len(cur)
      /\ \A j \in 1 .. Len(cur) : cur[j] \in PatchSet
      /\ G \subseteq 1 .. Len(cur) /\ G = {tracks[t][n] : t \in Alive}
      /\ n \in 1 .. at - first + 1 /\ f = first + n - 1
  BY <1>1, <1>2, CurrentFacts
<1>4. /\ first \in Nat \ {0} /\ at \in Nat
      /\ \A s, t \in Alive : tracks[s][n] = tracks[t][n] => s = t
  BY <1>1, <1>3, TrackFacts
<1>5. p \in PatchSet /\ p = cur[i] /\ i \in 1 .. Len(cur)
  BY <1>2, <1>3
<1>6. Solid(p) /\ IsPatch(p) /\ p.shape \in Shapes /\ p.shape.w \in Nat \ {0}
  BY <1>5, AsPatch, PatchFields
<1>7. CASE i \notin G
  <2>1. g = p
    BY <1>2, <1>3, <1>5, <1>7 DEF Items
  <2> QED
    BY <1>2, <1>6, <1>7, <2>1 DEF Narrow
<1>8. CASE i \in G
  <2>1. PICK t \in Alive : tracks[t][n] = i
    BY <1>3, <1>8
  <2>2. f - first + 1 = n
    BY <1>3, <1>4
  <2>3. PICK c : c = CHOOSE s \in Alive : tracks[s][f - first + 1] = i
    OBVIOUS
  <2>4. c = t
    <3>1. c \in Alive /\ tracks[c][n] = i
      <4>1. \E s \in Alive : tracks[s][f - first + 1] = i
        BY <2>1, <2>2
      <4>2. c \in Alive /\ tracks[c][f - first + 1] = i
        BY <2>3, <4>1, Zenon
      <4> QED
        BY <2>2, <4>2
    <3> QED
      BY <1>4, <2>1, <3>1
  <2>5. PICK u : u = unions.of[t]
    OBVIOUS
  <2>6. g = GlobalItem(p, u)
    <3>1. Items(f)[i] = GlobalItem(cur[i], unions.of[c])
      BY <1>2, <1>3, <1>5, <1>8, <2>3 DEF Items
    <3> QED
      BY <1>2, <1>5, <2>4, <2>5, <3>1
  <2>7. Solid(u) /\ HoldsTrack(u, tracks[t]) /\ Box(u) \subseteq Nat \X Nat
    BY <2>5 DEF UnionInv
  <2>8. p.shape.occ \subseteq u.shape.occ
    <3>1. TrackPatch(tracks[t], n) = p
      BY <1>2, <1>3, <1>5, <2>1 DEF TrackPatch
    <3> QED
      BY <1>3, <2>7, <3>1 DEF HoldsTrack
  <2>9. /\ Solid(g) /\ IsPatch(g) /\ g.match = p.match /\ g.shape.w = u.shape.w
        /\ Box(g) = Box(u) /\ Occ(g) \subseteq Occ(u)
    BY <1>5, <2>6, <2>7, <2>8, GlobalItemSolid
  <2>10. u.shape.w \in Nat \ {0} /\ (Narrow => u.shape.w < MinU)
    BY <2>7 DEF Solid, HoldsTrack
  <2>11. InUnion(g, i)
    BY <1>2, <2>1, <2>5, <2>7, <2>9 DEF InUnion
  <2> QED
    BY <1>2, <1>8, <2>9, <2>10, <2>11
<1> QED
  BY <1>7, <1>8

\* What the patches of a frame are matched to.
LEMMA CurrentMatched ==
  ASSUME AlignInv, AllPacked, FramesPart, step \in {"frame", "pack"}, Current # 1
  PROVE  MatchedIn(frames[Current].patches,
                   IF packed # <<>> THEN packed[Len(packed)].items ELSE frames[LastDone].patches)
<1>1. FollowInv /\ PackedLike
  BY DEF AlignInv
<1>2. /\ Current = first + Len(packed) /\ Current \in first .. PackFrames
      /\ Len(packed) \in Nat /\ IsSeq(packed)
  BY <1>1, CurrentFacts
<1>3. first = LastDone + 1 /\ first \in Nat \ {0} /\ LastDone \in Nat /\ PackFrames \in Nat
      /\ OpenFrom(first)
  BY <1>1, TrackFacts, OpenFrames
<1>4. CASE packed = <<>>
  <2>1. Len(packed) = 0
    BY <1>4
  <2>2. Current = LastDone + 1 /\ LastDone \in 1 .. PackFrames - 1
    BY <1>2, <1>3, <2>1
  <2> QED
    BY <1>4, <2>2 DEF FramesPart
<1>5. CASE packed # <<>>
  <2>1. PICK m : m = Len(packed)
    OBVIOUS
  <2>2. m \in Nat /\ m # 0
    BY <1>2, <1>5, <2>1 DEF IsSeq
  <2>3. PICK f : f = Current
    OBVIOUS
  <2>4. /\ f \in first + 1 .. PackFrames /\ f - 1 = first + m - 1 /\ m \in 1 .. Len(packed)
        /\ f \in 1 .. PackFrames /\ f - 1 \in 1 .. PackFrames
    BY <1>2, <1>3, <2>1, <2>2, <2>3
  <2>5. Linked(Patches, f)
    BY <1>3, <2>4 DEF OpenFrom, Chained
  <2>6. Patches[f] = frames[f].patches /\ Patches[f - 1] = frames[f - 1].patches
    BY <2>4 DEF Patches
  <2>7. PICK q : q = packed[m]
    OBVIOUS
  <2>8. Len(q.items) = Len(frames[f - 1].patches)
    BY <1>1, <2>4, <2>7 DEF PackedLike, ItemsLike
  <2>9. ASSUME NEW i \in 1 .. Len(frames[f].patches)
        PROVE  \/ frames[f].patches[i].match = Invalid
               \/ frames[f].patches[i].match + 1 \in 1 .. Len(q.items)
    BY <2>5, <2>6, <2>8 DEF Linked, Named
  <2>10. MatchedIn(frames[f].patches, q.items)
    BY <2>9 DEF MatchedIn
  <2> QED
    BY <1>5, <2>1, <2>3, <2>7, <2>10
<1> QED
  BY <1>4, <1>5

\* Around the global patches of a frame the others are laid.
LEMMA BeginFrameKeeps ==
  ASSUME AlignInv, AllPacked, FramesPart, PrePart, PackedPart, BeginFrame
  PROVE  FramesPart' /\ LayPart' /\ PrePart' /\ PackedPart'
<1>1. /\ step = "frame" /\ step' = "pack" /\ FollowInv
      /\ UNCHANGED <<opt, frames, subs, at, first, tracks, unions, packed, pre>>
  BY DEF BeginFrame, AlignInv
<1>2. FramesPart' /\ PrePart' /\ PackedPart'
  BY <1>1, FramesPartKept, PrePartKept, PackedPartKept DEF Growing
<1>3. UnionInv /\ PackingsOK(first, packed)
  BY <1>1 DEF PackedPart
<1>4. PICK f, items, others, G, cur : /\ f = Current /\ items = Items(f) /\ others = Others(f)
                                      /\ G = GlobalsOf(f) /\ cur = frames[f].patches
  OBVIOUS
<1>5. /\ patches' = [j \in DOMAIN others |-> items[others[j]]] /\ placed' = 0
      /\ canvas' = WithGlobals(Canvas(StartU(items), unions.height), {items[i] : i \in G})
      /\ missed' = IF opt.separate THEN <<>> ELSE frames[f].missed
  BY <1>4 DEF BeginFrame, Begin
<1>6. /\ Len(cur) \in Nat /\ DOMAIN cur = 1 .. Len(cur) /\ G \in SUBSET (1 .. Len(cur))
      /\ Lists(others, (1 .. Len(cur)) \ G)
  BY <1>1, <1>4, CurrentFacts
<1>7. /\ IsSeq(others) /\ Len(others) \in Nat /\ DOMAIN others = 1 .. Len(others)
      /\ \A j \in 1 .. Len(others) : others[j] \in 1 .. Len(cur) /\ others[j] \notin G
  BY <1>6 DEF Lists, IsSeq
<1>8. DOMAIN items = 1 .. Len(cur)
  BY <1>4, <1>6 DEF Items
<1>9. ASSUME NEW i \in 1 .. Len(cur)
      PROVE  /\ Solid(items[i]) /\ IsPatch(items[i]) /\ items[i].match = cur[i].match
             /\ items[i].shape.w \in Nat \ {0} /\ (Narrow => items[i].shape.w < MinU)
             /\ i \in G => Box(items[i]) \subseteq Nat \X Nat
  <2>1. PICK p, g : p = cur[i] /\ g = items[i]
    OBVIOUS
  <2>2. /\ Solid(g) /\ IsPatch(g) /\ g.match = p.match
        /\ g.shape.w \in Nat \ {0} /\ (Narrow => g.shape.w < MinU)
        /\ i \in G => InUnion(g, i)
    BY <1>1, <1>3, <1>4, <2>1, ItemsAre
  <2> QED
    BY <2>1, <2>2 DEF InUnion
<1>10. StartU(items) \in Nat \ {0} /\ (Narrow => StartU(items) = MinU)
  BY <1>6, <1>8, <1>9, StartUIs
<1>11. PICK B, c : B = {items[i] : i \in G} /\ c = canvas'
  OBVIOUS
<1>12. CanvasOK(c) /\ c.U = StartU(items) /\ \A p \in B : OnCanvas(p, c)
  <2>1. IsFiniteSet(G)
    BY <1>6, AscendingLists
  <2>2. \A i \in G : Solid(items[i]) /\ Box(items[i]) \subseteq Nat \X Nat
    BY <1>6, <1>9
  <2>3. unions.height \in Nat
    BY <1>3 DEF UnionInv
  <2>4. c = WithGlobals(Canvas(StartU(items), unions.height), B)
    BY <1>5, <1>11
  <2> QED
    BY <1>10, <1>11, <2>1, <2>2, <2>3, <2>4, WithGlobalsIs
<1>13. Current' = f
  BY <1>1, <1>4 DEF Current
<1>14. Ground' = B
  <2>1. Alive' = Alive
    BY <1>1 DEF Alive
  <2>2. GlobalsOf(Current)' = G /\ Items(Current)' = items
    BY <1>1, <1>4, <1>13, <2>1 DEF GlobalsOf, Items
  <2> QED
    BY <1>1, <1>11, <2>2 DEF Ground
<1>15. Behind' = IF packed # <<>> THEN packed[Len(packed)].items ELSE frames[LastDone].patches
  BY <1>1 DEF Behind, LastDone
<1>16. PICK r : r = patches'
  OBVIOUS
<1>17. r = [j \in 1 .. Len(others) |-> items[others[j]]]
  BY <1>5, <1>7, <1>16
<1>18. IsSeq(r) /\ Len(r) = Len(others)
  <2>1. r \in [1 .. Len(others) -> {items[i] : i \in 1 .. Len(cur)}]
    BY <1>7, <1>17
  <2>2. Len(r) = Len(others)
    BY <1>7, <2>1, FunctionIsSeq
  <2> QED
    BY <1>7, <1>17, <2>2 DEF IsSeq
<1>19. ListOK(r)
  BY <1>7, <1>9, <1>17, <1>18 DEF ListOK
<1>20. f # 1 => MatchedIn(r, Behind')
  <2> SUFFICES ASSUME f # 1 PROVE MatchedIn(r, Behind')
    OBVIOUS
  <2>1. PICK D : D = Behind'
    OBVIOUS
  <2>2. MatchedIn(cur, D)
    BY <1>1, <1>4, <1>15, <2>1, CurrentMatched
  <2>3. \A j \in 1 .. Len(r) : r[j].match = cur[others[j]].match /\ others[j] \in 1 .. Len(cur)
    BY <1>7, <1>9, <1>17, <1>18
  <2>4. MatchedIn(r, D)
    BY <2>2, <2>3 DEF MatchedIn
  <2> QED
    BY <2>1, <2>4
<1>21. LiesOn(r, 0, B, c)
  BY <1>12 DEF LiesOn
<1>22. missed' = ToLay(Current)'
  BY <1>1, <1>4, <1>5, <1>13 DEF ToLay
<1>23. LayingInv'
  <2>1. CanvasOK(canvas)' /\ (step' # "union" /\ Narrow => canvas'.U = MinU)
    BY <1>10, <1>11, <1>12
  <2>2. ListOK(patches)' /\ placed' \in 0 .. Len(patches')
    BY <1>5, <1>7, <1>16, <1>18, <1>19 DEF ListOK
  <2>3. LiesOn(patches', placed', Ground', canvas')
    BY <1>5, <1>11, <1>14, <1>16, <1>21
  <2>4. Current' # 1 => MatchedIn(patches', Behind')
    BY <1>13, <1>16, <1>20
  <2>5. MissedInv'
    BY <1>1, <1>22 DEF MissedInv
  <2> QED
    BY <1>1, <2>1, <2>2, <2>3, <2>4, <2>5 DEF LayingInv
<1> QED
  BY <1>2, <1>23 DEF LayPart

\* What has been laid on the canvas, with the missed points patch below it, is
\* a packing.
LEMMA PackedAs ==
  ASSUME CanvasOK(canvas), NEW f, NEW items, NEW G, IsSeq(items),
         \A i \in 1 .. Len(items) : Solid(items[i]) /\ OnCanvas(items[i], canvas),
         \A i, j \in 1 .. Len(items) :
           Prior(G, i, j) => Occ(items[i]) \cap Box(items[j]) = {},
         f = Current, MissedInv, step # "union", placed = Len(patches), missed = <<>>,
         NEW p, p = AsPacked(f, items, G)
  PROVE  PackingIs(p, ToLay(f))
<1>1. /\ p.items = items /\ p.globals = G /\ p.width = canvas.width /\ p.height = canvas.height
      /\ p.row = IF frames[f].missed = <<>> THEN 0 ELSE frames[f].missed[1].v0
  BY DEF AsPacked
<1>2. canvas.width \in Nat /\ canvas.height \in Nat /\ canvas.row \in 0 .. canvas.height
  BY DEF CanvasOK
<1>3. LaidOut(p, canvas.row)
  <2>1. PICK its, w, row : its = p.items /\ w = p.width /\ row = canvas.row
    OBVIOUS
  <2>2. its = items /\ w = canvas.width
    BY <1>1, <2>1
  <2>3. \A i \in 1 .. Len(its) : Box(its[i]) \subseteq (0 .. w - 1) \X (0 .. row - 1)
    BY <2>1, <2>2 DEF OnCanvas
  <2>5. \A i \in 1 .. Len(p.items) : Box(p.items[i]) \subseteq (0 .. p.width - 1) \X (0 .. row - 1)
    BY <2>1, <2>3
  <2>6. \A i, j \in 1 .. Len(p.items) :
          Prior(p.globals, i, j) => Occ(p.items[i]) \cap Box(p.items[j]) = {}
    <3> SUFFICES ASSUME NEW i \in 1 .. Len(p.items), NEW j \in 1 .. Len(p.items),
                        Prior(p.globals, i, j)
                 PROVE  Occ(p.items[i]) \cap Box(p.items[j]) = {}
      OBVIOUS
    <3>1. Prior(G, i, j)
      BY <1>1, Zenon
    <3> QED
      BY <1>1, <3>1
  <2>7. LaidOut(p, row)
    BY <2>5, <2>6 DEF LaidOut
  <2> QED
    BY <2>1, <2>7
<1>4. ASSUME ToLay(f) # <<>>
      PROVE  p.row = canvas.row /\ MissedBelow(ToLay(f)[1], canvas.row, p.width, p.height)
  <2>1. ToLay(f) = frames[f].missed
    BY <1>4 DEF ToLay
  <2>2. ToLay(f)[1].v0 = canvas.row
        /\ MissedBelow(ToLay(f)[1], canvas.row, canvas.width, canvas.height)
    BY <1>4 DEF MissedInv, MissedLies
  <2> QED
    BY <1>1, <1>4, <2>1, <2>2
<1> QED
  BY <1>1, <1>2, <1>3, <1>4 DEF PackingIs

\* Of the global patches of a frame, those of earlier tracks come first.
LEMMA GlobalsPrior ==
  ASSUME AlignInv, AllPacked, step \in {"frame", "pack"}, NEW s \in Alive, NEW t \in Alive,
         tracks[s][Len(packed) + 1] < tracks[t][Len(packed) + 1]
  PROVE  s < t
<1>1. PICK n : n = Len(packed) + 1
  OBVIOUS
<1>2. FollowInv /\ n \in 1 .. at - first + 1
  BY <1>1, CurrentFacts DEF AlignInv
<1>3. TracksOK(Patches, tracks, first, at - first + 1)
  BY <1>2 DEF FollowInv, OpenInv, Growing, TrackLength
<1>4. DOMAIN tracks = 1 .. Len(tracks) /\ Len(tracks) \in Nat
  BY <1>3 DEF TracksOK, IsSeq
<1>5. s \in AliveIn(tracks) /\ t \in AliveIn(tracks) /\ s \in Nat /\ t \in Nat
  BY <1>4 DEF Alive, AliveIn
<1>6. tracks[s][n] \in Nat /\ tracks[t][n] \in Nat
  <2>1. \A u \in Alive : tracks[u][n] \in 1 .. Len(frames[first + n - 1].patches)
    BY <1>2, TrackFacts
  <2>2. tracks[s][n] \in 1 .. Len(frames[first + n - 1].patches)
        /\ tracks[t][n] \in 1 .. Len(frames[first + n - 1].patches)
    BY <2>1
  <2> QED
    BY <2>2
<1>7. s # t
  <2>1. PICK a \in Nat, b \in Nat : a = tracks[s][n] /\ b = tracks[t][n]
    BY <1>6
  <2>2. a < b
    BY <1>1, <2>1
  <2>3. a # b
    BY <2>2
  <2> QED
    BY <2>1, <2>3
<1>8. ~(t < s)
  <2>1. t < s => tracks[t][n] < tracks[s][n]
    BY <1>2, <1>3, <1>5 DEF TracksOK
  <2>2. ~(tracks[t][n] < tracks[s][n])
    BY <1>1, <1>6
  <2> QED
    BY <2>1, <2>2
<1> QED
  BY <1>5, <1>7, <1>8

\* The items of a frame that is packed, and what lies on the canvas.
LEMMA PackedItems ==
  ASSUME AlignInv, AllPacked, step = "pack", UnionInv, LayingInv, placed = Len(patches),
         NEW items,
         items = [i \in DOMAIN frames[Current].patches |->
                    IF i \in GlobalsOf(Current) THEN Items(Current)[i]
                    ELSE patches[CHOOSE j \in DOMAIN Others(Current) :
                                   Others(Current)[j] = i]]
  PROVE  /\ IsSeq(items)
         /\ \A i \in 1 .. Len(items) : Solid(items[i]) /\ OnCanvas(items[i], canvas)
         /\ \A i, j \in 1 .. Len(items) :
              Prior(GlobalsOf(Current), i, j) => Occ(items[i]) \cap Box(items[j]) = {}
<1>1. FollowInv
  BY DEF AlignInv
<1>2. PICK f, others, G, cur, its, n :
        /\ f = Current /\ others = Others(f) /\ G = GlobalsOf(f) /\ cur = frames[f].patches
        /\ its = Items(f) /\ n = Len(packed) + 1
  OBVIOUS
<1>3. /\ Len(cur) \in Nat /\ DOMAIN cur = 1 .. Len(cur) /\ G \in SUBSET (1 .. Len(cur))
      /\ Lists(others, (1 .. Len(cur)) \ G)
  BY <1>1, <1>2, CurrentFacts
<1>4. items = [i \in 1 .. Len(cur) |->
                 IF i \in G THEN its[i]
                 ELSE patches[CHOOSE j \in DOMAIN others : others[j] = i]]
  BY <1>2, <1>3
<1>5. IsSeq(items) /\ Len(items) = Len(cur)
  <2>1. items \in [1 .. Len(cur) -> {items[i] : i \in 1 .. Len(cur)}]
    BY <1>4
  <2>2. Len(items) = Len(cur)
    BY <1>3, <2>1, FunctionIsSeq
  <2> QED
    BY <1>3, <1>4, <2>2 DEF IsSeq
<1>6. /\ LiesOn(patches, Len(patches), Ground, canvas)
      /\ \A j \in 1 .. Len(patches) : Solid(patches[j])
      /\ IsSeq(patches) /\ Len(patches) = Len(others) /\ Len(others) \in Nat
      /\ DOMAIN others = 1 .. Len(others)
  <2>1. Len(patches) = Len(others)
    BY <1>2 DEF AlignInv, LyingLike, LaidFor
  <2> QED
    BY <1>3, <2>1 DEF LayingInv, ListOK, Lists, IsSeq
<1>7. Ground = {its[i] : i \in G}
  BY <1>2 DEF Ground
<1>8. ASSUME NEW i \in G
      PROVE  /\ items[i] = its[i] /\ items[i] \in Ground /\ Solid(items[i])
             /\ \E t \in Alive : /\ tracks[t][n] = i
                                 /\ Box(items[i]) = Box(unions.of[t])
                                 /\ Occ(items[i]) \subseteq Occ(unions.of[t])
  <2>1. PICK p, g : p = cur[i] /\ g = its[i]
    OBVIOUS
  <2>2. i \in 1 .. Len(cur)
    BY <1>3
  <2>3. /\ Solid(g)
        /\ \E t \in Alive : /\ tracks[t][n] = i
                            /\ Box(g) = Box(unions.of[t]) /\ Occ(g) \subseteq Occ(unions.of[t])
    <3>1. /\ i \in 1 .. Len(frames[Current].patches) /\ p = frames[Current].patches[i]
          /\ g = Items(Current)[i] /\ i \in GlobalsOf(Current) /\ step \in {"frame", "pack"}
      BY <1>2, <2>1, <2>2
    <3>2. Solid(g) /\ InUnion(g, i)
      BY <3>1, ItemsAre
    <3> QED
      BY <1>2, <3>2 DEF InUnion
  <2>4. items[i] = g /\ g \in Ground
    BY <1>4, <1>7, <2>1, <2>2
  <2> QED
    BY <2>1, <2>3, <2>4
<1>9. ASSUME NEW i \in (1 .. Len(cur)) \ G
      PROVE  \E j \in 1 .. Len(patches) : others[j] = i /\ items[i] = patches[j]
  <2>1. \E j \in DOMAIN others : others[j] = i
    BY <1>3, <1>6 DEF Lists
  <2>2. PICK j : j = CHOOSE k \in DOMAIN others : others[k] = i
    OBVIOUS
  <2>3. j \in DOMAIN others /\ others[j] = i
    BY <2>1, <2>2, Zenon
  <2>4. items[i] = patches[j]
    BY <1>4, <2>2
  <2> QED
    BY <1>6, <2>3, <2>4
<1>10. ASSUME NEW i \in 1 .. Len(cur)
       PROVE  Solid(items[i]) /\ OnCanvas(items[i], canvas)
  <2>1. CASE i \in G
    BY <1>6, <1>8, <2>1 DEF LiesOn
  <2>2. CASE i \notin G
    <3>1. PICK j \in 1 .. Len(patches) : items[i] = patches[j]
      BY <1>9, <2>2
    <3> QED
      BY <1>6, <3>1 DEF LiesOn
  <2> QED
    BY <2>1, <2>2
<1>11. ASSUME NEW i \in 1 .. Len(cur), NEW j \in 1 .. Len(cur), Prior(G, i, j)
       PROVE  Occ(items[i]) \cap Box(items[j]) = {}
  <2>1. CASE i \in G /\ j \in G
    <3>1. i < j
      BY <1>11, <2>1 DEF Prior
    <3>2. PICK s \in Alive : /\ tracks[s][n] = i /\ Occ(items[i]) \subseteq Occ(unions.of[s])
      BY <1>8, <2>1
    <3>3. PICK t \in Alive : /\ tracks[t][n] = j /\ Box(items[j]) = Box(unions.of[t])
      BY <1>8, <2>1
    <3>4. s < t
      BY <1>2, <3>1, <3>2, <3>3, GlobalsPrior
    <3>5. Occ(unions.of[s]) \cap Box(unions.of[t]) = {}
      BY <3>4 DEF UnionInv
    <3> QED
      BY <3>2, <3>3, <3>5
  <2>2. CASE i \in G /\ j \notin G
    <3>1. PICK l \in 1 .. Len(patches) : items[j] = patches[l]
      BY <1>9, <2>2
    <3>2. items[i] \in Ground
      BY <1>8, <2>2
    <3> QED
      BY <1>6, <3>1, <3>2 DEF LiesOn
  <2>3. CASE i \notin G
    <3>1. j \notin G /\ i < j
      BY <1>11, <2>3 DEF Prior
    <3>2. PICK k \in 1 .. Len(patches) : others[k] = i /\ items[i] = patches[k]
      BY <1>9, <2>3
    <3>3. PICK l \in 1 .. Len(patches) : others[l] = j /\ items[j] = patches[l]
      BY <1>9, <3>1
    <3>4. k < l
      <4>1. l < k => others[l] < others[k]
        BY <1>3, <1>6 DEF Lists
      <4>2. ~(others[l] < others[k]) /\ k # l
        BY <3>1, <3>2, <3>3
      <4> QED
        BY <1>6, <4>1, <4>2
    <3> QED
      BY <1>6, <3>2, <3>3, <3>4 DEF LiesOn
  <2> QED
    BY <2>1, <2>2, <2>3
<1> QED
  BY <1>2, <1>5, <1>10, <1>11

\* The packing of a frame is put away when all is laid.
LEMMA FrameLaidKeeps ==
  ASSUME AlignInv, AllPacked, FramesPart, LayPart, PrePart, PackedPart, FrameLaid
  PROVE  FramesPart' /\ LayPart' /\ PrePart' /\ PackedPart'
<1>1. /\ step = "pack" /\ step' \in {"decide", "frame"} /\ FollowInv
      /\ placed = Len(patches) /\ missed = <<>>
      /\ UNCHANGED <<opt, frames, subs, at, first, tracks, unions, pre>>
  BY DEF FrameLaid, Laid, AlignInv
<1>2. FramesPart' /\ PrePart' /\ LayPart'
  BY <1>1, FramesPartKept, PrePartKept DEF Growing, LayPart
<1>3. UnionInv /\ PackingsOK(first, packed) /\ LayingInv
  BY <1>1 DEF PackedPart, LayPart
<1>4. PICK items :
        items = [i \in DOMAIN frames[Current].patches |->
                    IF i \in GlobalsOf(Current) THEN Items(Current)[i]
                    ELSE patches[CHOOSE j \in DOMAIN Others(Current) :
                                   Others(Current)[j] = i]]
  OBVIOUS
<1>5. PICK f, G, p, n : /\ f = Current /\ G = GlobalsOf(f) /\ n = Len(packed)
                        /\ p = AsPacked(f, items, G)
  OBVIOUS
<1>6. packed' = Append(packed, p)
  BY <1>4, <1>5 DEF FrameLaid
<1>7. PackingIs(p, ToLay(f))
  <2>1. /\ IsSeq(items)
        /\ \A i \in 1 .. Len(items) : Solid(items[i]) /\ OnCanvas(items[i], canvas)
        /\ \A i, j \in 1 .. Len(items) :
             Prior(GlobalsOf(Current), i, j) => Occ(items[i]) \cap Box(items[j]) = {}
    BY <1>1, <1>3, <1>4, PackedItems
  <2>2. \A i, j \in 1 .. Len(items) : Prior(G, i, j) => Occ(items[i]) \cap Box(items[j]) = {}
    BY <1>5, <2>1
  <2>3. CanvasOK(canvas) /\ MissedInv
    BY <1>3 DEF LayingInv
  <2> QED
    BY <1>1, <1>5, <2>1, <2>2, <2>3, PackedAs
<1>8. /\ IsSeq(packed) /\ n \in Nat /\ f = first + (n + 1) - 1
  BY <1>1, <1>5, CurrentFacts
<1>9. /\ Len(packed') = n + 1 /\ packed'[n + 1] = p
      /\ \A k \in 1 .. n : packed'[k] = packed[k]
  BY <1>5, <1>6, <1>8, AppendIs
<1>10. PICK q : q = packed'
  OBVIOUS
<1>11. ASSUME NEW k \in 1 .. n + 1
       PROVE  PackingIs(q[k], ToLay(first + k - 1))
  <2>1. CASE k \in 1 .. n
    BY <1>3, <1>5, <1>9, <1>10, <2>1 DEF PackingsOK
  <2>2. CASE k = n + 1
    BY <1>7, <1>8, <1>9, <1>10, <2>2
  <2> QED
    BY <1>8, <2>1, <2>2
<1>12. PackingsOK(first, packed)'
  <2>1. PackingsOK(first, q)
    BY <1>9, <1>10, <1>11 DEF PackingsOK
  <2> QED
    BY <1>1, <1>10, <2>1 DEF PackingsOK, ToLay
<1>13. UnionInv'
  BY <1>1, <1>3, UnionsKept
<1> QED
  BY <1>2, <1>12, <1>13 DEF PackedPart

\* The packing of the first frame of a subcontext.
LEMMA FirstPacking ==
  ASSUME AlignInv, AllPacked, LayPart, step = "first", Laid
  PROVE  PackingsOK(at, <<AsPacked(at, patches, DOMAIN patches)>>)
<1>1. LayingInv /\ placed = Len(patches) /\ missed = <<>>
  BY DEF LayPart, Laid
<1>2. at = Current /\ Ground = {} /\ at \in Nat
  BY FirstReady DEF Current, Ground
<1>3. PICK p, G : G = DOMAIN patches /\ p = AsPacked(at, patches, G)
  OBVIOUS
<1>4. /\ IsSeq(patches) /\ Len(patches) \in Nat /\ G = 1 .. Len(patches)
      /\ \A i \in 1 .. Len(patches) : Solid(patches[i])
      /\ LiesOn(patches, Len(patches), Ground, canvas) /\ CanvasOK(canvas) /\ MissedInv
  BY <1>1, <1>3 DEF LayingInv, ListOK, IsSeq
<1>5. \A i \in 1 .. Len(patches) : Solid(patches[i]) /\ OnCanvas(patches[i], canvas)
  BY <1>4 DEF LiesOn
<1>6. \A i, j \in 1 .. Len(patches) : Prior(G, i, j) => Occ(patches[i]) \cap Box(patches[j]) = {}
  BY <1>4 DEF LiesOn, Prior
<1>7. PackingIs(p, ToLay(at))
  BY <1>1, <1>2, <1>3, <1>4, <1>5, <1>6, PackedAs
<1>8. PICK ps : ps = <<p>>
  OBVIOUS
<1>9. Len(ps) = 1 /\ ps[1] = p
  BY <1>8
<1>10. PackingsOK(at, ps)
  <2> SUFFICES ASSUME NEW k \in 1 .. Len(ps) PROVE PackingIs(ps[k], ToLay(at + k - 1))
    BY DEF PackingsOK
  <2>1. k = 1 /\ at + 1 - 1 = at
    BY <1>2, <1>9
  <2> QED
    BY <1>7, <1>9, <2>1
<1> QED
  BY <1>3, <1>8, <1>10

\* A patch that only gets another match stays where it is.
LEMMA SameWithMatch ==
  ASSUME NEW q, Solid(q), NEW x, NEW r, r = WithMatch(q, x)
  PROVE  Solid(r) /\ Box(r) = Box(q) /\ Occ(r) \subseteq Occ(q)
<1>1. r.shape = q.shape /\ r.u0 = q.u0 /\ r.v0 = q.v0 /\ r.turn = q.turn
  BY DEF WithMatch
<1>2. Solid(r)
  BY <1>1 DEF Solid
<1>3. SamePlace(r, q) /\ r.shape.occ \subseteq q.shape.occ
  BY <1>1 DEF SamePlace
<1> QED
  BY <1>2, <1>3, SameBox

\* The new order keeps what was laid before something else before it.
LEMMA OrderPrior ==
  ASSUME NEW N \in Nat, NEW G, NEW c, NEW ord, IsOrder(ord, N, G, c),
         NEW i \in 1 .. N, NEW j \in 1 .. N, i < j
  PROVE  Prior(G, ord[i], ord[j])
<1>1. c \in 0 .. N
  BY DEF IsOrder
<1>2. CASE i \in 1 .. c /\ j \in 1 .. c
  BY <1>2 DEF IsOrder, Prior
<1>3. CASE i \in 1 .. c /\ j \in c + 1 .. N
  BY <1>3 DEF IsOrder, Prior
<1>4. CASE i \in c + 1 .. N /\ j \in c + 1 .. N
  BY <1>4 DEF IsOrder, Prior
<1>5. \/ i \in 1 .. c /\ j \in 1 .. c
      \/ i \in 1 .. c /\ j \in c + 1 .. N
      \/ i \in c + 1 .. N /\ j \in c + 1 .. N
  BY <1>1
<1> QED
  BY <1>2, <1>3, <1>4, <1>5

\* The missed points patch m that moves to the row of the packing.
LEMMA MissedMoves ==
  ASSUME NEW m \in MissedSet, NEW row \in Nat, NEW width \in Nat, NEW height \in Nat,
         MissedBelow(m, row, width, height), NEW n, n = [m EXCEPT !.v0 = row]
  PROVE  /\ n \in MissedSet /\ n.w \in Nat \ {0} /\ n.h \in Nat \ {0}
         /\ Box(MissedPatch(n)) \subseteq (0 .. width - 1) \X (row .. height - 1)
<1>1. /\ m.w \in Nat \ {0} /\ m.h \in Nat \ {0} /\ m.u0 = 0
      /\ m.w <= width /\ row + m.h <= height
  BY ConstantsType DEF MissedBelow, MissedStays
<1>2. n \in MissedSet /\ n.w = m.w /\ n.h = m.h /\ n.u0 = 0 /\ n.v0 = row
  BY <1>1 DEF MissedSet
<1>3. PICK p : p = MissedPatch(n)
  OBVIOUS
<1>4. Solid(p) /\ p.u0 = 0 /\ p.v0 = row /\ BoxW(p) = m.w /\ BoxH(p) = m.h
  BY <1>1, <1>2, <1>3, MissedSolid
<1>5. PICK w, h : w = m.w /\ h = m.h
  OBVIOUS
<1>6. Box(p) \subseteq (0 .. 0 + w - 1) \X (row .. row + h - 1)
  BY <1>4, <1>5, BoxBounds
<1>7. 0 .. 0 + w - 1 \subseteq 0 .. width - 1 /\ row .. row + h - 1 \subseteq row .. height - 1
  BY <1>1, <1>5
<1>8. PICK A, B, C, D : /\ A = 0 .. 0 + w - 1 /\ B = row .. row + h - 1
                        /\ C = 0 .. width - 1 /\ D = row .. height - 1
  OBVIOUS
<1>9. Box(p) \subseteq C \X D
  <2>1. Box(p) \subseteq A \X B /\ A \subseteq C /\ B \subseteq D
    BY <1>6, <1>7, <1>8
  <2> QED
    BY <2>1
<1> QED
  BY <1>1, <1>2, <1>3, <1>8, <1>9

\* A frame of a finished subcontext.
LEMMA FinishedFrame ==
  ASSUME opt \in Options, NEW lo, OpenFrom(lo), NEW ps, ReadyFor(lo, ps),
         NEW k \in 1 .. Len(ps), NEW f, f = lo + k - 1, PackingIs(ps[k], ToLay(f)),
         MissedOpen(frames[f], opt.separate), NEW new, new = Update(frames, lo, ps)[f]
  PROVE  FinishedOK(new) /\ Len(new.patches) = Len(ps[k].items)
<1>1. PICK p, up, G, c, ord, N, old :
        /\ p = ps[k] /\ up = Update(frames, lo, ps) /\ G = ps[k].globals
        /\ c = GlobalCount(ps) /\ ord = Order(ps, k) /\ N = Len(ps[k].items) /\ old = frames[f]
  OBVIOUS
<1>2. IsOrder(ord, N, G, c) /\ N \in Nat /\ \A j \in 1 .. N : ord[j] \in 1 .. N
  BY <1>1, OrderRange
<1>3. IsFinished(lo, ps, k, new)
  BY FinishedIs
<1>4. /\ new.laid = old.laid /\ new.width = p.width /\ new.height = p.height
      /\ new.missed = MissedMoved(old.missed, p) /\ new.patches = Renewed(lo, ps, k)
  BY <1>1, <1>3 DEF IsFinished
<1>5. PICK qs, its : qs = new.patches /\ its = p.items
  OBVIOUS
<1>6. qs = [j \in 1 .. N |-> WithMatch(its[ord[j]], MatchAt(lo, ps, k, j))]
  BY <1>1, <1>4, <1>5 DEF Renewed
<1>7. IsSeq(qs) /\ Len(qs) = N /\ DOMAIN qs = 1 .. N
  <2>1. qs \in [1 .. N -> {qs[l] : l \in 1 .. N}]
    BY <1>6
  <2>2. Len(qs) = N
    BY <1>2, <2>1, FunctionIsSeq
  <2> QED
    BY <1>2, <1>6, <2>2 DEF IsSeq
<1>8. /\ \A i \in 1 .. N : Solid(its[i])
      /\ p.width \in Nat /\ p.height \in Nat
  BY <1>1, <1>5 DEF PackingIs
<1>9. PICK row \in 0 .. p.height :
        /\ LaidOut(p, row)
        /\ ToLay(f) # <<>> => p.row = row /\ MissedBelow(ToLay(f)[1], row, p.width, p.height)
  BY <1>1 DEF PackingIs
<1>10. /\ \A i \in 1 .. N : Box(its[i]) \subseteq (0 .. p.width - 1) \X (0 .. row - 1)
       /\ \A i, j \in 1 .. N : Prior(G, i, j) => Occ(its[i]) \cap Box(its[j]) = {}
  BY <1>1, <1>5, <1>9 DEF LaidOut
<1>11. ASSUME NEW j \in 1 .. N
       PROVE  /\ ord[j] \in 1 .. N /\ Solid(qs[j]) /\ Box(qs[j]) = Box(its[ord[j]])
              /\ Occ(qs[j]) \subseteq Occ(its[ord[j]])
  <2>1. PICK q, x : q = its[ord[j]] /\ x = MatchAt(lo, ps, k, j)
    OBVIOUS
  <2>2. Solid(q) /\ qs[j] = WithMatch(q, x) /\ ord[j] \in 1 .. N
    BY <1>2, <1>6, <1>8, <2>1
  <2> QED
    BY <2>1, <2>2, SameWithMatch
<1>12. \A j \in 1 .. N : Box(qs[j]) \subseteq (0 .. p.width - 1) \X (0 .. row - 1)
  BY <1>10, <1>11
<1>13. ASSUME NEW i \in 1 .. N, NEW j \in 1 .. N, i < j
       PROVE  Occ(qs[i]) \cap Box(qs[j]) = {}
  <2>1. Prior(G, ord[i], ord[j])
    BY <1>2, <1>13, OrderPrior
  <2>2. Occ(its[ord[i]]) \cap Box(its[ord[j]]) = {}
    BY <1>10, <1>11, <2>1
  <2> QED
    BY <1>11, <2>2
<1>14. PICK ms, l : ms = new.missed /\ l = new.laid
  OBVIOUS
<1>15. /\ l \in {0, 1}
       /\ l = 1 => /\ ms[1] \in MissedSet /\ ms[1].w \in Nat \ {0} /\ ms[1].h \in Nat \ {0}
                   /\ Box(MissedPatch(ms[1])) \subseteq (0 .. p.width - 1) \X (row .. p.height - 1)
  <2>1. /\ old.missed \in Seq(MissedSet) /\ Len(old.missed) <= 1
        /\ l = IF opt.separate THEN 0 ELSE Len(old.missed)
    BY <1>1, <1>4, <1>14 DEF MissedOpen
  <2>2. l \in {0, 1}
    <3>1. PICK L \in Nat : L = Len(old.missed)
      BY <2>1
    <3>2. L <= 1 => L \in {0, 1}
      OBVIOUS
    <3>3. L <= 1 /\ (l = 0 \/ l = L)
      BY <2>1, <3>1
    <3> QED
      BY <3>2, <3>3
  <2>3. ASSUME l = 1
        PROVE  /\ ms[1] \in MissedSet /\ ms[1].w \in Nat \ {0} /\ ms[1].h \in Nat \ {0}
               /\ Box(MissedPatch(ms[1])) \subseteq (0 .. p.width - 1) \X (row .. p.height - 1)
    <3>1. ~opt.separate /\ Len(old.missed) = 1
      BY <2>1, <2>3
    <3>2. PICK m : m = old.missed[1]
      OBVIOUS
    <3>3. m \in MissedSet /\ old.missed # <<>>
      BY <2>1, <3>1, <3>2
    <3>4. ToLay(f) = old.missed /\ ToLay(f)[1] = m
      BY <1>1, <3>1, <3>2 DEF ToLay
    <3>5. p.row = row /\ MissedBelow(m, row, p.width, p.height)
      BY <1>9, <3>3, <3>4
    <3>6. PICK n : n = [m EXCEPT !.v0 = row]
      OBVIOUS
    <3>7. ms = <<n>>
      BY <1>4, <1>14, <3>1, <3>2, <3>3, <3>5, <3>6 DEF MissedMoved
    <3>8. row \in Nat
      BY <1>8
    <3>9. /\ n \in MissedSet /\ n.w \in Nat \ {0} /\ n.h \in Nat \ {0}
          /\ Box(MissedPatch(n)) \subseteq (0 .. p.width - 1) \X (row .. p.height - 1)
      BY <1>8, <3>3, <3>5, <3>6, <3>8, MissedMoves
    <3>10. ms[1] = n
      BY <3>7
    <3> QED
      BY <3>9, <3>10
  <2> QED
    BY <2>2, <2>3
<1>16. Layout(qs, N, ms, l, p.width, row, p.height)
  <2>1. \A i \in 1 .. l : i = 1 /\ l = 1
    BY <1>15
  <2>2. \A i, j \in 1 .. l : ~(i < j)
    BY <1>15
  <2> QED
    BY <1>12, <1>13, <1>15, <2>1, <2>2 DEF Layout
<1>17. ApartIn(new) /\ InImage(new) /\ OwnersRightIn(new)
  <2>1. /\ Len(new.patches) \in Nat /\ DOMAIN new.patches = 1 .. Len(new.patches)
        /\ \A i \in 1 .. Len(new.patches) : Solid(new.patches[i])
    BY <1>2, <1>5, <1>7, <1>11
  <2>2. new.laid \in Nat /\ new.width \in Nat /\ new.height \in Nat /\ row \in 0 .. new.height
    BY <1>4, <1>8, <1>14, <1>15
  <2>3. \A i \in 1 .. new.laid : new.missed[i] \in MissedSet
    BY <1>14, <1>15
  <2>4. Layout(new.patches, Len(new.patches), new.missed, new.laid, new.width, row, new.height)
    BY <1>4, <1>5, <1>7, <1>14, <1>16
  <2> QED
    BY <2>1, <2>2, <2>3, <2>4, LayoutSound
<1> QED
  BY <1>1, <1>5, <1>7, <1>11, <1>17 DEF FinishedOK

\* A finished subcontext leaves frames that are right.
LEMMA CloseLayout ==
  ASSUME AlignInv, AllPacked, FramesPart, NEW lo, NEW ps, ReadyFor(lo, ps), lo = LastDone + 1,
         Close(lo, ps), PackingsOK(lo, ps), opt' = opt
  PROVE  FramesPart' /\ LayPart' /\ PrePart' /\ PackedPart'
<1>1. /\ OpenFrom(lo) /\ LastDone \in Nat /\ lo \in Nat \ {0} /\ PackFrames \in Nat
      /\ IsSeq(subs) /\ IsSeq(frames) /\ Len(frames) = PackFrames
  BY OpenFrames, ConstantsType DEF AlignInv, OpenFrom
<1>2. IsSeq(ps) /\ Len(ps) \in Nat \ {0} /\ lo + Len(ps) - 1 <= PackFrames
  BY DEF ReadyFor, IsSeq
<1>3. PICK hi : hi = lo + Len(ps) - 1
  OBVIOUS
<1>4. hi \in Nat \ {0} /\ lo <= hi /\ hi <= PackFrames
  BY <1>1, <1>2, <1>3
<1>5. /\ LastDone' = hi /\ step' = "start"
      /\ \A f \in 1 .. PackFrames : f > hi => frames'[f] = frames[f]
      /\ \A f \in 1 .. PackFrames : f < lo => frames'[f] = frames[f]
  BY <1>1, <1>2, <1>3, CloseDone
<1>6. PICK up : up = frames'
  OBVIOUS
<1>7. up = Update(frames, lo, ps)
  BY <1>6 DEF Close
<1>8. ASSUME NEW k \in 1 .. Len(ps)
      PROVE  FinishedOK(up[lo + k - 1]) /\ Len(up[lo + k - 1].patches) = Len(ps[k].items)
  <2>1. PICK f, new : f = lo + k - 1 /\ new = up[f]
    OBVIOUS
  <2>2. PackingIs(ps[k], ToLay(f))
    BY <2>1 DEF PackingsOK
  <2>3. f \in LastDone + 1 .. PackFrames
    BY <1>1, <1>2, <2>1
  <2>4. opt \in Options /\ MissedOpen(frames[f], opt.separate)
    BY <2>3 DEF FramesPart
  <2>5. new = Update(frames, lo, ps)[f]
    BY <1>7, <2>1
  <2>6. FinishedOK(new) /\ Len(new.patches) = Len(ps[k].items)
    BY <1>1, <2>1, <2>2, <2>4, <2>5, FinishedFrame
  <2> QED
    BY <2>1, <2>6
<1>9. ASSUME NEW f \in 1 .. hi
      PROVE  FinishedOK(up[f])
  <2>1. CASE f < lo
    <3>1. up[f] = frames[f] /\ f \in 1 .. LastDone
      BY <1>1, <1>4, <1>5, <1>6, <2>1
    <3> QED
      BY <3>1 DEF FramesPart
  <2>2. CASE f >= lo
    <3>1. PICK k : k = f - lo + 1
      OBVIOUS
    <3>2. k \in 1 .. Len(ps) /\ f = lo + k - 1
      BY <1>1, <1>2, <1>3, <2>2, <3>1
    <3> QED
      BY <1>8, <3>2
  <2> QED
    BY <1>1, <1>4, <2>1, <2>2
<1>10. ASSUME NEW f \in hi + 1 .. PackFrames
       PROVE  up[f] = frames[f] /\ MissedOpen(up[f], opt.separate)
  <2>1. f \in 1 .. PackFrames /\ f > hi /\ f \in LastDone + 1 .. PackFrames
    BY <1>1, <1>4
  <2>2. up[f] = frames[f]
    BY <1>5, <1>6, <2>1
  <2> QED
    BY <2>1, <2>2 DEF FramesPart
<1>11. ASSUME hi \in 1 .. PackFrames - 1
       PROVE  MatchedIn(up[hi + 1].patches, up[hi].patches)
  <2>1. PICK k, f : k = Len(ps) /\ f = hi + 1
    OBVIOUS
  <2>2. /\ k \in 1 .. Len(ps) /\ hi = lo + k - 1 /\ f \in lo + 1 .. PackFrames
        /\ f - 1 = hi /\ hi \in 1 .. PackFrames /\ f \in 1 .. PackFrames
        /\ f \in hi + 1 .. PackFrames
    BY <1>1, <1>2, <1>3, <1>4, <1>11, <2>1
  <2>3. Linked(Patches, f)
    BY <2>2, <1>1 DEF OpenFrom, Chained
  <2>4. Patches[f] = frames[f].patches /\ Patches[f - 1] = frames[hi].patches
    BY <2>2 DEF Patches
  <2>5. PICK cur, old, new : cur = frames[f].patches /\ old = frames[hi].patches /\ new = up[hi].patches
    OBVIOUS
  <2>6. Len(new) = Len(old)
    <3>1. ItemsLike(frames[hi].patches, ps[k])
      BY <2>2 DEF ReadyFor
    <3>2. Len(ps[k].items) = Len(old)
      BY <2>5, <3>1 DEF ItemsLike
    <3> QED
      BY <1>8, <2>2, <2>5, <3>2
  <2>7. \A i \in 1 .. Len(cur) : cur[i].match = Invalid \/ cur[i].match + 1 \in 1 .. Len(old)
    BY <2>3, <2>4, <2>5 DEF Linked, Named
  <2>8. MatchedIn(cur, new)
    BY <2>6, <2>7 DEF MatchedIn
  <2>9. up[f] = frames[f]
    BY <1>10, <2>2
  <2> QED
    BY <2>1, <2>5, <2>8, <2>9
<1>12. FramesPart'
  <2>1. opt' \in Options
    BY DEF FramesPart
  <2>2. \A f \in 1 .. LastDone' : FinishedOK(frames'[f])
    BY <1>5, <1>6, <1>9
  <2>3. \A f \in LastDone' + 1 .. PackFrames : MissedOpen(frames'[f], opt'.separate)
    BY <1>5, <1>6, <1>10
  <2>4. LastDone' \in 1 .. PackFrames - 1 =>
          MatchedIn(frames'[LastDone' + 1].patches, frames'[LastDone'].patches)
    BY <1>5, <1>6, <1>11
  <2> QED
    BY <2>1, <2>2, <2>3, <2>4 DEF FramesPart
<1>13. LayPart' /\ PrePart' /\ PackedPart'
  BY <1>5 DEF LayPart, PrePart, PackedPart, Growing
<1> QED
  BY <1>12, <1>13

\* What is kept from the first frame, from a subcontext that grew, and when it
\* could not.
LEMMA FirstLaidKeeps ==
  ASSUME AlignInv, AllPacked, FramesPart, LayPart, FirstLaid
  PROVE  FramesPart' /\ LayPart' /\ PrePart' /\ PackedPart'
<1>1. step = "first" /\ Laid /\ opt' = opt
  BY DEF FirstLaid
<1>2. PICK ps : ps = <<AsPacked(at, patches, DOMAIN patches)>>
  OBVIOUS
<1>3. ReadyFor(at, ps) /\ at = LastDone + 1 /\ PackingsOK(at, ps)
  BY <1>1, <1>2, FirstReady, FirstPacking
<1>4. CASE at = PackFrames
  <2>1. Close(at, ps)
    BY <1>2, <1>4 DEF FirstLaid
  <2> QED
    BY <1>1, <1>3, <2>1, CloseLayout
<1>5. CASE at # PackFrames
  <2>1. pre' = ps /\ first' = at /\ step' = "track" /\ UNCHANGED <<opt, frames, subs>>
    BY <1>1, <1>2, <1>5 DEF FirstLaid
  <2>2. FramesPart'
    BY <2>1, FramesPartKept
  <2>3. PrePart'
    BY <1>3, <2>1 DEF PrePart, PackingsOK, ToLay
  <2> QED
    BY <2>1, <2>2, <2>3 DEF LayPart, PackedPart
<1> QED
  BY <1>4, <1>5

\* What is kept when the subcontext could not grow.
LEMMA RollBackKeeps ==
  ASSUME AlignInv, AllPacked, FramesPart, PrePart, step \in Growing, RollBack
  PROVE  FramesPart' /\ LayPart' /\ PrePart' /\ PackedPart'
<1>1. Close(first, pre) /\ opt' = opt
  BY DEF RollBack
<1>2. first = LastDone + 1
  BY DEF AlignInv, FollowInv, TileInv, Control
<1>3. ReadyFor(first, pre) /\ PackingsOK(first, pre)
  BY DEF AlignInv, PrePart
<1> QED
  BY <1>1, <1>2, <1>3, CloseLayout

\* What is kept when it grew.
LEMMA AcceptKeeps ==
  ASSUME AlignInv, AllPacked, FramesPart, PackedPart, Accept
  PROVE  FramesPart' /\ LayPart' /\ PrePart' /\ PackedPart'
<1>1. step = "decide" /\ ~BadPacking /\ opt' = opt
  BY DEF Accept
<1>2. ReadyFor(first, packed) /\ first = LastDone + 1 /\ PackingsOK(first, packed)
  BY <1>1, AcceptReady DEF PackedPart
<1>3. PICK lo, ps : lo = first /\ ps = packed
  OBVIOUS
<1>4. CASE at = PackFrames
  <2>1. Close(lo, ps)
    BY <1>3, <1>4 DEF Accept
  <2> QED
    BY <1>1, <1>2, <1>3, <2>1, CloseLayout
<1>5. CASE at # PackFrames
  <2>1. pre' = ps /\ first' = first /\ step' = "track" /\ UNCHANGED <<opt, frames, subs>>
    BY <1>1, <1>3, <1>5 DEF Accept, Accepted
  <2>2. FramesPart'
    BY <2>1, FramesPartKept
  <2>3. PrePart'
    BY <1>2, <1>3, <2>1 DEF PrePart, PackingsOK, ToLay
  <2> QED
    BY <2>1, <2>2, <2>3 DEF LayPart, PackedPart
<1> QED
  BY <1>4, <1>5

\* The parts of the invariant that concern the layout.
LayoutParts == FramesPart /\ LayPart /\ PrePart /\ PackedPart

\* They hold when all frames are packed and nothing else has happened.
LEMMA LayoutPacked ==
  MissedSound /\ PackInv /\ PackExtra /\ AllPacked /\ Untouched => LayoutParts
BY PackedFrames DEF LayoutParts

\* Every step keeps the invariant.
LEMMA LayoutNext ==
  ASSUME MatchedBefore, MissedSound, LayoutInv, [GpaNext]_gpaVars
  PROVE  LayoutInv'
<1>1. AlignInv /\ AlignInv' /\ FollowInv /\ FollowInv'
  BY AlignNext, FollowNext DEF LayoutInv, AlignInv
<1>2. CASE ~AllPacked
  <2>1. Untouched' /\ PackInv' /\ PackExtra'
    BY <1>1, <1>2, PackingGoesOn
  <2>2. ASSUME PackInv', PackExtra', Untouched', AllPacked'
        PROVE  LayoutParts'
    <3>1. MissedSound'
      BY DEF MissedSound
    <3> QED
      BY <2>2, <3>1, LayoutPacked, PTL
  <2>3. (AllPacked => FramesPart /\ LayPart /\ PrePart /\ PackedPart)'
    BY <2>1, <2>2 DEF LayoutParts
  <2> QED
    BY <1>1, <2>3 DEF LayoutInv
<1>3. CASE AllPacked
  <2>1. FramesPart /\ LayPart /\ PrePart /\ PackedPart
    BY <1>3 DEF LayoutInv
  <2>2. FramesPart' /\ LayPart' /\ PrePart' /\ PackedPart'
    <3>1. CASE FirstLaid
      BY <1>1, <1>3, <2>1, <3>1, FirstLaidKeeps
    <3>2. CASE Accept
      BY <1>1, <1>3, <2>1, <3>2, AcceptKeeps
    <3>3. CASE GiveUp \/ Reject
      BY <1>1, <1>3, <2>1, <3>3, RollBackKeeps DEF GiveUp, Reject, Growing
    <3>4. CASE StartSubContext
      BY <1>1, <1>3, <2>1, <3>4, LayStart
    <3>5. CASE Track
      BY <1>1, <1>3, <2>1, <3>5, TrackKeeps
    <3>6. CASE Unite
      BY <1>1, <1>3, <2>1, <3>6, UniteKeeps
    <3>7. CASE BeginFrame
      BY <1>1, <1>3, <2>1, <3>7, BeginFrameKeeps
    <3>8. CASE FrameLaid
      BY <1>1, <1>3, <2>1, <3>8, FrameLaidKeeps
    <3>9. CASE LayPatch \/ LayGrow
      BY <1>1, <1>3, <2>1, <3>9, LayingKeeps
    <3>10. CASE LayMissed
      BY <1>1, <1>3, <2>1, <3>10, LayMissedKeeps
    <3>11. CASE GpaEnds \/ UNCHANGED gpaVars
      BY <2>1, <3>11, StayKeeps DEF GpaEnds
    <3>12. ~PackStep
      BY <1>3 DEF PackStep
    <3> QED
      BY <3>1, <3>2, <3>3, <3>4, <3>5, <3>6, <3>7, <3>8, <3>9, <3>10, <3>11, <3>12 DEF GpaNext
  <2> QED
    BY <1>1, <2>2 DEF LayoutInv
<1> QED
  BY <1>2, <1>3

\* At first no frame is packed.
LEMMA LayoutInit ==
  ASSUME GpaInit
  PROVE  LayoutInv
<1>1. AlignInv
  BY AlignInit
<1>2. ~AllPacked
  <2>1. Len(frames) = 0
    BY DEF GpaInit, PackInit
  <2> QED
    BY <2>1, ConstantsType DEF AllPacked
<1> QED
  BY <1>1, <1>2 DEF LayoutInv

\* Every frame of a finished subcontext is right.
LEMMA FinalRight ==
  ASSUME LayoutInv
  PROVE  \A f \in Final : FinishedOK(frames[f])
<1>1. CASE AllPacked
  <2>1. \A f \in 1 .. LastDone : FinishedOK(frames[f])
    BY <1>1 DEF LayoutInv, FramesPart
  <2> QED
    BY <2>1 DEF Final, LastDone
<1>2. CASE ~AllPacked
  <2>1. subs = <<>>
    BY <1>2 DEF LayoutInv, AlignInv, FollowInv, Untouched
  <2> QED
    BY <2>1 DEF Final
<1> QED
  BY <1>1, <1>2

\* In every finished subcontext nothing overlaps and all lies in the image.
THEOREM FinalLayoutHolds ==
  ASSUME MatchedBefore, MissedSound PROVE GpaSpec => []FinalLayout
<1>1. GpaInit => LayoutInv
  BY LayoutInit
<1>2. LayoutInv /\ [GpaNext]_gpaVars => LayoutInv'
  BY LayoutNext
<1>3. LayoutInv => FinalLayout
  BY FinalRight DEF FinalLayout, FinishedOK
<1> QED
  BY <1>1, <1>2, <1>3, PTL DEF GpaSpec

\* Both sides find the owner of every block of a finished subcontext.
THEOREM FinalOwnersHolds ==
  ASSUME MatchedBefore, MissedSound PROVE GpaSpec => []FinalOwners
<1>1. GpaInit => LayoutInv
  BY LayoutInit
<1>2. LayoutInv /\ [GpaNext]_gpaVars => LayoutInv'
  BY LayoutNext
<1>3. LayoutInv => FinalOwners
  BY FinalRight DEF FinalOwners, FinishedOK
<1> QED
  BY <1>1, <1>2, <1>3, PTL DEF GpaSpec
=============================================================================
