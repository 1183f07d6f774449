---------------------------- MODULE GlobalPatch ----------------------------
(***************************************************************************)
(* Global patch allocation: once all frames of the group are packed, runs  *)
(* of frames (subcontexts) are formed in which patches that match from     *)
(* frame to frame are given one common place.  A subcontext grows frame by *)
(* frame; each growth packs all its frames anew, and when the result is    *)
(* bad the attempt is rolled back and a new subcontext starts at the same  *)
(* frame.  A finished subcontext overwrites the patches of its frames, puts*)
(* the global ones first and renumbers the matches.                        *)
(*                                                                         *)
(* Frames are counted from 1.  The packing strategy is not the anchor, and *)
(* a frame has at most one missed points patch.                            *)
(***************************************************************************)
EXTENDS Packing, FiniteSets

ASSUME GlobalPatchAssumption ==
  /\ \A o \in Options : o.strategy # 0
  /\ \A s \in MissedSizes : Len(s) <= 1

VARIABLES
  step,    \* what is being done
  at,      \* the frame that is next to be added
  first,   \* first frame of the subcontext, 0 when a new one is to start
  tracks,  \* per patch of that frame, the patches that continue it; <<>>: none
  unions,  \* per track that goes on, the union of its patches, placed
  turned,  \* whether the union that is being laid has an orientation left
           \* from a search that failed
  packed,  \* per frame of the grown subcontext, its packing
  pre,     \* per frame of the subcontext, the last packing that was accepted
  subs     \* the finished subcontexts

\* While patches are laid, the variables of Packing hold the list of them, how
\* many lie, the canvas and the missed points patch that comes last.
laying == <<patches, placed, missed, canvas>>
gpaVars ==
  <<step, at, first, subs, packed, tracks, unions, turned, pre, packVars>>

Steps == {"start", "first", "track", "union", "frame", "pack", "decide"}
NoUnions == [of |-> <<>>, height |-> 0]

GpaInit ==
  /\ PackInit
  /\ step = "start" /\ at = 1 /\ first = 0
  /\ tracks = <<>> /\ unions = NoUnions
  /\ turned = FALSE
  /\ packed = <<>> /\ pre = <<>> /\ subs = <<>>

\* The members of a set of indices, in their order.
Ascending(S) ==
  CHOOSE s \in [1 .. Cardinality(S) -> S] :
    /\ {s[i] : i \in DOMAIN s} = S
    /\ \A i, j \in DOMAIN s : i < j => s[i] < s[j]

AllPacked == phase = "segment" /\ Len(frames) = PackFrames

-----------------------------------------------------------------------------
(***************************************************************************)
(* Tracks.  Each takes of the patches of the new frame that no track has   *)
(* taken yet the first with the largest overlap; without one it ends.      *)
(***************************************************************************)
\* A mistake: a patch may be in two tracks.
BestTaken(q, f, taken) ==
  LET cur == frames[f].patches
      free == {i \in DOMAIN cur : cur[i].shape.view = q.shape.view}
  IN  {i \in free : /\ Overlap(q, cur[i]) > Threshold
                    /\ \A j \in free :
                         \/ Overlap(q, cur[j]) < Overlap(q, cur[i])
                         \/ Overlap(q, cur[j]) = Overlap(q, cur[i]) /\ i <= j}

Best(q, f, taken) ==
  LET cur == frames[f].patches
      free == {i \in DOMAIN cur \ taken : cur[i].shape.view = q.shape.view}
  IN  {i \in free : /\ Overlap(q, cur[i]) > Threshold
                    /\ \A j \in free :
                         \/ Overlap(q, cur[j]) < Overlap(q, cur[i])
                         \/ Overlap(q, cur[j]) = Overlap(q, cur[i]) /\ i <= j}

Tracked(f) ==
  LET go[i \in 0 .. Len(tracks)] ==
        IF i = 0 THEN [tracks |-> <<>>, taken |-> {}]
        ELSE LET was == go[i - 1]
                 t == tracks[i]
                 best == IF t = <<>> THEN {}
                         ELSE Best(frames[f - 1].patches[t[f - first]], f,
                                   was.taken)
             IN  [tracks |-> Append(was.tracks,
                                    IF best = {} THEN <<>>
                                    ELSE Append(t, CHOOSE i2 \in best : TRUE)),
                  taken |-> was.taken \cup best]
  IN  go[Len(tracks)].tracks

Alive == {i \in DOMAIN tracks : tracks[i] # <<>>}

(***************************************************************************)
(* The union of a track holds all its patches, laid corner to corner.      *)
(***************************************************************************)
TrackPatch(t, k) == frames[first + k - 1].patches[t[k]]

UnionOf(t) ==
  LET shapes == {TrackPatch(t, k).shape : k \in DOMAIN t}
      head == TrackPatch(t, 1)
  IN  [shape |-> [w |-> LargestOf({s.w : s \in shapes}),
                  h |-> LargestOf({s.h : s \in shapes}),
                  occ |-> UNION {s.occ : s \in shapes},
                  view |-> head.shape.view, at |-> head.shape.at],
       match |-> head.match, u0 |-> 0, v0 |-> 0, turn |-> DEFAULT]

-----------------------------------------------------------------------------
(***************************************************************************)
(* Laying patches one after the other.  The first frame of a subcontext is *)
(* packed alone, always with the flexible strategy.  Unions are packed in  *)
(* the order of their tracks.  A frame of a grown subcontext has its       *)
(* global patches where their unions lie, the others are laid around them. *)
(***************************************************************************)
GlobalsOf(f) == {tracks[t][f - first + 1] : t \in Alive}

GlobalItem(p, u) ==
  [p EXCEPT !.shape.w = u.shape.w, !.shape.h = u.shape.h,
            !.u0 = u.u0, !.v0 = u.v0, !.turn = u.turn]

\* The patches of frame f, the global ones with the place of their union.
Items(f) ==
  [i \in DOMAIN frames[f].patches |->
     IF i \in GlobalsOf(f)
     THEN GlobalItem(frames[f].patches[i],
                     unions.of[CHOOSE t \in Alive :
                                 tracks[t][f - first + 1] = i])
     ELSE frames[f].patches[i]]
Others(f) == Ascending(DOMAIN frames[f].patches \ GlobalsOf(f))

\* The place that is tried first is that of the match in the frame before: as
\* it is now, or within the subcontext as it has just been packed.
MatchOf(f, p) ==
  IF step # "pack" \/ f = first THEN frames[f - 1].patches[p.match + 1]
  ELSE packed[Len(packed)].items[p.match + 1]

Current == IF step = "first" THEN at ELSE first + Len(packed)

\* A union without a match is tried in each orientation at the first place
\* only.  From then on, at every other place and after the canvas has grown,
\* the orientation that was tried last counts as the one it must have.
UnionFreeTries(p, c) ==
  {t \in FlexibleFreeTries(p, c) :
     \/ t.turn = FlexibleTurns(p)[TurnCount]
     \/ ~turned /\ t.u = 0 /\ t.v = 0}

UnionTries(p, c) ==
  IF first = 1 THEN FlexibleFreeTries(p, c)
  ELSE IF p.match = Invalid THEN UnionFreeTries(p, c)
  ELSE RowByRow(<<frames[first - 1].patches[p.match + 1].turn>>,
                c.U - 1, c.V - 1)

GpaTries(p, c) ==
  IF step = "union" THEN UnionTries(p, c)
  ELSE IF p.match = Invalid \/ Current = 1 THEN FlexibleFreeTries(p, c)
  ELSE Follow(MatchOf(Current, p), IF step = "first" THEN 0 ELSE opt.guard, c)

GpaFitting ==
  LET p == patches[placed + 1]
  IN  {t \in GpaTries(p, canvas) : Fits(Located(p, t), canvas, t.guard)}

Laying == step \in {"first", "union", "pack"} /\ placed < Len(patches)

LayPatch ==
  /\ Laying
  /\ LET fitting == GpaFitting
     IN  \E t \in fitting :
           /\ \A s \in fitting : t.rank <= s.rank
           /\ patches' = [patches EXCEPT ![placed + 1] = Located(@, t)]
           /\ canvas' = Extended(canvas, Located(patches[placed + 1], t))
  /\ placed' = placed + 1 /\ turned' = FALSE
  /\ UNCHANGED <<opt, frames, phase, matched, id, missed, step, at, first,
                 tracks, unions, packed, pre, subs>>

\* A missed points patch that is packed again has grown to fill its box.
AgainSized(m, c) ==
  LET v == CeilDiv(m.w * m.h, c.U)
  IN  [m EXCEPT !.w = CeilDiv(m.w * m.h, v), !.h = v]

LayingMissed ==
  step \in {"first", "pack"} /\ placed = Len(patches) /\ missed # <<>>

MissedAgainFitting ==
  {t \in MissedTries(canvas) :
     Fits(Located(MissedPatch(AgainSized(missed[1], canvas)), t), canvas, 0)}

\* It stays where an attempt puts it, also when that is rolled back.
LayMissed ==
  /\ LayingMissed
  /\ LET fitting == MissedAgainFitting
     IN  \E t \in fitting :
           LET n == [AgainSized(missed[1], canvas) EXCEPT !.u0 = t.u, !.v0 = t.v]
           IN  /\ \A s \in fitting : t.rank <= s.rank
               /\ frames' = [frames EXCEPT ![Current].missed = <<n>>]
               /\ canvas' = [canvas EXCEPT !.height = MaxOf(@, n.v0 + n.h)]
  /\ missed' = <<>>
  /\ UNCHANGED <<opt, phase, patches, matched, id, placed, step, at, first,
                 tracks, unions, turned, packed, pre, subs>>

LayGrow ==
  /\ \/ Laying /\ GpaFitting = {}
     \/ LayingMissed /\ MissedAgainFitting = {}
  /\ 2 * canvas.V <= MaxV
  /\ canvas' = Doubled(canvas)
  /\ turned' = (step = "union")
  /\ UNCHANGED <<opt, frames, phase, patches, matched, id, placed, missed,
                 step, at, first, tracks, unions, packed, pre, subs>>

\* Everything is laid, and what has been laid is put away.
Laid == step \in {"first", "union", "pack"} /\ placed = Len(patches)
          /\ missed = <<>>

Begin(list, c, extra) ==
  /\ patches' = list /\ placed' = 0 /\ canvas' = c
  /\ missed' = IF opt.separate THEN <<>> ELSE extra
Idle == Begin(<<>>, NoCanvas, <<>>)

-----------------------------------------------------------------------------
(***************************************************************************)
(* A finished subcontext: the accepted packing becomes that of its frames. *)
(***************************************************************************)
Taken(frame, p) ==
  [frame EXCEPT
    !.patches = [i \in DOMAIN @ |->
                   [@[i] EXCEPT !.shape = p.items[i].shape, !.u0 = p.items[i].u0,
                                !.v0 = p.items[i].v0, !.turn = p.items[i].turn]],
    !.width = p.width, !.height = p.height,
    !.missed = IF @ = <<>> \/ opt.separate THEN @
               ELSE <<[@[1] EXCEPT !.v0 = p.row]>>]

\* A mistake: the patches stay where they are.
NewOrderKept(fs, ps, k) == Ascending(DOMAIN fs[k].patches)

\* The order of the patches of frame k of the subcontext: in the first frame
\* the global patches, in a later one the patch for each match that is global;
\* then the others.
NewOrder(fs, ps, k) ==
  LET cur == fs[k].patches
      of(m) == {i \in ps[k].globals : cur[i].match = m - 1}
      heads == Ascending({m \in DOMAIN fs[k - 1].patches : of(m) # {}})
  IN  (IF k = 1 THEN Ascending(ps[k].globals)
       ELSE [j \in DOMAIN heads |-> CHOOSE i \in of(heads[j]) :
                                      \A l \in of(heads[j]) : i <= l])
      \o Ascending(DOMAIN cur \ ps[k].globals)

\* A mistake: the matches of the others are not renumbered.
NewMatchStale(old, i, count, order) ==
  IF i <= count THEN i - 1 ELSE old

\* A global patch is matched to the one at its place in the frame before, the
\* match of another follows the patch it names.
NewMatch(old, i, count, order) ==
  IF i <= count THEN i - 1
  ELSE LET named == {j \in DOMAIN order : j > count /\ order[j] = old + 1}
       IN  IF named = {} THEN old ELSE (CHOOSE j \in named : TRUE) - 1

Reordered(fs, ps, k) ==
  LET order == NewOrder(fs, ps, k)
      count == Cardinality(ps[Len(ps)].globals)
      match(i) == fs[k].patches[order[i]].match
      new == [i \in DOMAIN order |->
                [fs[k].patches[order[i]] EXCEPT
                  !.match = IF k = 1 THEN Invalid
                            ELSE NewMatch(@, i, count, NewOrder(fs, ps, k - 1))]]
  IN  [fs[k] EXCEPT
        !.patches = new,
        !.matches = IF k = 1 THEN 0
                    ELSE count + Cardinality({i \in count + 1 .. Len(new) :
                                                new[i].match # Invalid})]

\* fs: the frames of the subcontext, ps: what was accepted for them.
Finished(fs, ps) ==
  LET taken == [k \in DOMAIN fs |-> Taken(fs[k], ps[k])]
  IN  IF Len(fs) = 1
      THEN <<[taken[1] EXCEPT
               !.patches = [i \in DOMAIN @ |-> [@[i] EXCEPT !.match = Invalid]],
               !.matches = 0]>>
      ELSE [k \in DOMAIN fs |-> Reordered(taken, ps, k)]

\* Frames with those of the subcontext finished.
Update(fs, lo, ps) ==
  LET hi == lo + Len(ps) - 1
      done == Finished(SubSeq(fs, lo, hi), ps)
  IN  [f \in DOMAIN fs |-> IF f \in lo .. hi THEN done[f - lo + 1] ELSE fs[f]]

-----------------------------------------------------------------------------
(***************************************************************************)
(* The loop over the frames.                                               *)
(***************************************************************************)
\* The row of the missed points patch is kept with the packing.
AsPacked(f, items, globals) ==
  [items |-> items, globals |-> globals,
   width |-> canvas.width, height |-> canvas.height,
   row |-> IF frames[f].missed = <<>> THEN 0 ELSE frames[f].missed[1].v0]

\* The subcontext is finished with the packing ps of its frames.
Close(lo, ps) ==
  /\ frames' = Update(frames, lo, ps)
  /\ subs' = Append(subs, [lo |-> lo, hi |-> lo + Len(ps) - 1,
                           globals |-> [k \in DOMAIN ps |-> ps[k].globals]])
  /\ step' = "start" /\ first' = 0
  /\ tracks' = <<>> /\ unions' = NoUnions /\ packed' = <<>> /\ pre' = <<>>

StartSubContext ==
  /\ AllPacked /\ step = "start" /\ at <= PackFrames
  /\ step' = "first"
  /\ Begin(frames[at].patches, StartCanvas(frames[at].patches),
           frames[at].missed)
  /\ UNCHANGED <<opt, frames, phase, matched, id, at, first, tracks, unions,
                 turned, packed, pre, subs>>

FirstLaid ==
  /\ step = "first" /\ Laid
  /\ LET p == AsPacked(at, patches, DOMAIN patches)
     IN  IF at = PackFrames THEN Close(at, <<p>>)
         ELSE /\ pre' = <<p>> /\ first' = at /\ step' = "track"
              /\ tracks' = [i \in DOMAIN patches |-> <<i>>]
              /\ UNCHANGED <<frames, unions, packed, subs>>
  /\ at' = at + 1
  /\ Idle
  /\ UNCHANGED <<opt, phase, matched, id, turned>>

Track ==
  /\ step = "track"
  /\ tracks' = Tracked(at)
  /\ step' = "union"
  /\ LET ids == Ascending({i \in DOMAIN tracks' : tracks'[i] # <<>>})
         all == [i \in DOMAIN ids |-> UnionOf(tracks'[ids[i]])]
     IN  Begin(all, Canvas(StartU(all),
                           LargestOf({0} \cup {all[i].shape.h + 1 :
                                                 i \in DOMAIN all})), <<>>)
  /\ UNCHANGED <<opt, frames, phase, matched, id, at, first, unions, packed,
                 turned, pre, subs>>

\* A mistake: after a roll back the loop goes on at the first frame.
RestartFirst == first

\* The new subcontext starts at the frame that could not be added.
Restart == at

RollBack ==
  /\ Close(first, pre)
  /\ at' = Restart
  /\ Idle
  /\ UNCHANGED <<opt, phase, matched, id, turned>>

BadPatchCount == 100 * Cardinality(Alive) < 15 * Len(tracks)

\* Too few tracks go on, or their unions do not fit the image.
GiveUp ==
  /\ step = "union" /\ Laid
  /\ BadPatchCount \/ canvas.height > MinV
  /\ RollBack

Unite ==
  /\ step = "union" /\ Laid
  /\ ~BadPatchCount /\ canvas.height <= MinV
  /\ LET ids == Ascending(Alive)
     IN  unions' = [of |-> [t \in Alive |->
                              patches[CHOOSE i \in DOMAIN ids : ids[i] = t]],
                    height |-> canvas.height]
  /\ step' = "frame"
  /\ Idle
  /\ UNCHANGED <<opt, frames, phase, matched, id, at, first, tracks, packed,
                 turned, pre, subs>>

\* A mistake: the global patches are not marked on the canvas.
WithGlobalsUnmarked(c, G) == c

WithGlobals(c, G) ==
  [c EXCEPT !.occ = UNION {Occ(p) : p \in G},
            !.width = LargestOf({@} \cup {p.u0 + BoxW(p) : p \in G}),
            !.height = LargestOf({@} \cup {p.v0 + BoxH(p) : p \in G}),
            !.row = LargestOf({@} \cup {p.v0 + BoxH(p) : p \in G})]

BeginFrame ==
  /\ step = "frame"
  /\ LET f == Current
         items == Items(f)
         others == Others(f)
     IN  Begin([j \in DOMAIN others |-> items[others[j]]],
               WithGlobals(Canvas(StartU(items), unions.height),
                           {items[i] : i \in GlobalsOf(f)}),
               frames[f].missed)
  /\ step' = "pack"
  /\ UNCHANGED <<opt, frames, phase, matched, id, at, first, tracks, unions,
                 turned, packed, pre, subs>>

FrameLaid ==
  /\ step = "pack" /\ Laid
  /\ LET f == Current
         others == Others(f)
         items == [i \in DOMAIN frames[f].patches |->
                     IF i \in GlobalsOf(f) THEN Items(f)[i]
                     ELSE patches[CHOOSE j \in DOMAIN others : others[j] = i]]
     IN  /\ packed' = Append(packed, AsPacked(f, items, GlobalsOf(f)))
         /\ step' = IF canvas.height > MinV \/ f = at THEN "decide" ELSE "frame"
  /\ Idle
  /\ UNCHANGED <<opt, frames, phase, matched, id, at, first, tracks, unions,
                 turned, pre, subs>>

Higher(k) == 10 * packed[k].height >= 11 * frames[first + k - 1].height
BadPacking ==
  \/ packed[Len(packed)].height > MinV
  \/ Cardinality({k \in DOMAIN packed : Higher(k)}) > 2

Reject == step = "decide" /\ BadPacking /\ RollBack

\* What a roll back returns to.
Accepted == packed

Accept ==
  /\ step = "decide" /\ ~BadPacking
  /\ IF at = PackFrames THEN Close(first, packed)
     ELSE /\ pre' = Accepted /\ packed' = <<>> /\ unions' = NoUnions
          /\ step' = "track"
          /\ UNCHANGED <<frames, first, tracks, subs>>
  /\ at' = at + 1
  /\ UNCHANGED <<opt, phase, matched, id, turned, laying>>

\* No orientation in which a patch is tried leaves it and the safeguard on
\* the width of the canvas: a union that is higher than the canvas is wide and
\* has to keep an orientation that exchanges the axes, or a patch that follows
\* such a match.
GpaTooWide ==
  /\ Laying
  /\ \A t \in GpaTries(patches[placed + 1], canvas) :
       t.rank >= 0 =>
         BoxW(Located(patches[placed + 1], t)) + 2 * t.guard > canvas.U

GpaEnds ==
  /\ AllPacked
  /\ \/ at > PackFrames
     \/ GpaTooWide /\ 2 * canvas.V > MaxV
  /\ UNCHANGED gpaVars

\* Packing of the group comes first; a frame without a patch is not allowed.
PackStep ==
  /\ ~AllPacked
  /\ \/ \E n \in 1 .. MaxInFrame, sizes \in MissedSizes :
          \E shapes \in [1 .. n -> Shapes] : Segment(shapes, sizes)
     \/ MatchOne \/ Reorder \/ Place \/ Grow \/ PlacedAll
     \/ PlaceMissed \/ GrowMissed \/ PlacedMissed \/ PackEnds
  /\ UNCHANGED <<step, at, first, tracks, unions, turned, packed, pre, subs>>

GpaNext ==
  \/ PackStep
  \/ StartSubContext \/ FirstLaid \/ Track \/ GiveUp \/ Unite
  \/ BeginFrame \/ FrameLaid \/ Reject \/ Accept
  \/ LayPatch \/ LayMissed \/ LayGrow
  \/ GpaEnds
GpaSpec == GpaInit /\ [][GpaNext]_gpaVars
FairGpaSpec == GpaSpec /\ WF_gpaVars(GpaNext)

-----------------------------------------------------------------------------
(***************************************************************************)
(* Properties.                                                             *)
(***************************************************************************)
\* The subcontexts cover the frames, one after the other: a roll back loses
\* no frame and adds none to two of them.
SubContextsTile ==
  /\ \A s \in DOMAIN subs :
       /\ subs[s].lo = IF s = 1 THEN 1 ELSE subs[s - 1].hi + 1
       /\ subs[s].lo <= subs[s].hi
  /\ at = 1 + (IF subs = <<>> THEN 0 ELSE subs[Len(subs)].hi) + Len(pre)

\* A track that goes on reaches the frame that is added, from a patch to the
\* patch that is matched to it: matching all patches of a frame, which was done
\* before, and matching only those that are in a track come to the same result
\* for the patches of the tracks.
TracksFollowMatches ==
  \A i \in DOMAIN tracks :
    /\ Len(tracks[i]) \in {0, at - first + (IF step = "track" THEN 0 ELSE 1)}
    /\ \A k \in 2 .. Len(tracks[i]) :
         frames[first + k - 1].patches[tracks[i][k]].match
           = tracks[i][k - 1] - 1

\* Finishing a subcontext only reorders the patches of a frame, and the
\* patch a match names is still the same one; the last frame keeps its order,
\* since the next frame already names its patches.
Remains(f, i, j) ==
  /\ frames'[f].patches[j].shape.view = frames[f].patches[i].shape.view
  /\ frames'[f].patches[j].shape.at = frames[f].patches[i].shape.at
NothingLost ==
  [][subs' # subs =>
       LET s == subs'[Len(subs')]
       IN  \A f \in s.lo .. s.hi :
             \E order \in [DOMAIN frames[f].patches -> DOMAIN frames'[f].patches] :
               /\ {order[i] : i \in DOMAIN order} = DOMAIN frames'[f].patches
               /\ \A i \in DOMAIN order :
                    LET old == frames[f].patches[i].match
                        new == frames'[f].patches[order[i]].match
                    IN  /\ Remains(f, i, order[i])
                        /\ f > s.lo /\ old # Invalid =>
                             Remains(f - 1, old + 1, new + 1)
               /\ f = s.hi => \A i \in DOMAIN order : order[i] = i]_gpaVars

\* In a finished subcontext the global patches come first in every frame, in
\* one order: those at the same place of the list lie at the same place of
\* the canvas, in a box of the same size, and overlap from frame to frame.
GlobalsAligned ==
  \A s \in DOMAIN subs :
    LET n == Cardinality(subs[s].globals[1])
    IN  \A f \in subs[s].lo + 1 .. subs[s].hi :
          /\ Cardinality(subs[s].globals[f - subs[s].lo + 1]) = n
          /\ n <= Len(frames[f].patches)
          /\ \A i \in 1 .. n :
               LET p == frames[f].patches[i]
                   q == frames[f - 1].patches[i]
               IN  /\ <<p.u0, p.v0, p.turn>> = <<q.u0, q.v0, q.turn>>
                   /\ <<p.shape.w, p.shape.h>> = <<q.shape.w, q.shape.h>>
                   /\ p.match = i - 1
                   /\ Overlap(q, p) > Threshold

\* In a finished subcontext nothing overlaps, everything lies in the image and
\* both sides find the owner of every block, although the global patches were
\* placed without a look at the canvas and the lists were reordered since.
Final == 1 .. (IF subs = <<>> THEN 0 ELSE subs[Len(subs)].hi)
FinalLayout ==
  \A f \in Final : ApartIn(frames[f]) /\ InImage(frames[f])
FinalOwners == \A f \in Final : OwnersRightIn(frames[f])

\* The loop ends with every frame in a subcontext, unless a patch or a union
\* is tried only in orientations in which it is wider than the canvas: then
\* the height is doubled for ever, and after the first failure a union without
\* a match keeps whatever orientation was tried last (PCCEncoder.cpp:3977).
AllocationEnds == <>(at > PackFrames) \/ <>[](TooWide \/ GpaTooWide)
=============================================================================
