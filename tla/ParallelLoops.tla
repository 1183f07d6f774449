--------------------------- MODULE ParallelLoops ---------------------------
(***************************************************************************)
(* The tbb::parallel_for loops over the points of a cloud.  A loop hands   *)
(* each index to some thread, which works through the body of the loop     *)
(* read by read while the others do the same; task_arena::execute returns  *)
(* when all indices are done, and what follows it is sequential.  A pass   *)
(* that reads its neighbours writes to an array of its own, which a        *)
(* second loop or a swap brings into place.                                *)
(***************************************************************************)
EXTENDS LoopBodies

CONSTANTS
  Threads,  \* of the arena: nbThread
  NoPoint   \* the index of a thread without one

ASSUME ThreadAssumption == Threads # {} /\ NoPoint \notin Points

VARIABLES
  in, round, partition, position, boundary, color,  \* as in PassByPass
  loop,           \* the loop at work, or the sequential step that is next
  todo,           \* indices no thread has taken yet
  task,           \* of each thread: its index, what is left to read, what it read
  tempPartition,  \* refineSegmentation: the next orientations
  scoresSmooth,   \* refineSegmentation: neighbours per orientation
  temp            \* smoothing: the next positions, then the next colours

vars == <<in, round, partition, position, boundary, color, loop, todo, task,
          tempPartition, scoresSmooth, temp>>

NoScores == [j \in Orients |-> 0]
Nothing == [n \in {} |-> 0]
Idle == [at |-> NoPoint, left |-> {}, got |-> Nothing]
NoTasks == [t \in Threads |-> Idle]

Init ==
  /\ in \in Inputs
  /\ round = 0
  /\ partition = [i \in Points |-> 0]
  /\ position = in.position /\ boundary = in.boundary /\ color = in.color
  /\ loop = FirstPass(in)
  /\ todo = Points /\ task = NoTasks
  /\ tempPartition = [i \in Points |-> 0]
  /\ scoresSmooth = [i \in Points |-> NoScores]
  /\ temp = [i \in Points |-> 0]

Loops == {"initial", "count", "choose", "smooth", "move",
          "presmooth", "repaint", "color", "paint"}

-----------------------------------------------------------------------------
(***************************************************************************)
(* The body of a loop.  Taking an index, a thread clears what it will      *)
(* count in and finds the neighbours it has to read.                       *)
(***************************************************************************)
Neighbours(i) ==
  CASE loop = "count" -> in.adj[i]
    [] loop = "smooth" -> Near(position, i)
    [] loop \in {"presmooth", "color"} -> Seen(loop, position, boundary, i)
    [] OTHER -> {}

Take(t) ==
  /\ loop \in Loops
  /\ task[t].at = NoPoint
  /\ \E i \in todo :
       /\ todo' = todo \ {i}
       /\ task' = [task EXCEPT ![t] =
                     [at |-> i, left |-> Neighbours(i), got |-> Nothing]]
       /\ scoresSmooth' = IF loop = "count"
                          THEN [scoresSmooth EXCEPT ![i] = NoScores]
                          ELSE scoresSmooth
  /\ UNCHANGED <<in, round, partition, position, boundary, color, loop,
                 tempPartition, temp>>

With(got, n, v) == [m \in DOMAIN got \union {n} |-> IF m = n THEN v ELSE got[m]]

CountNeighbour(t) ==
  /\ loop = "count"
  /\ task[t].at # NoPoint
  /\ \E n \in task[t].left :
       /\ task' = [task EXCEPT ![t] =
                     [at |-> @.at, left |-> @.left \ {n}, got |-> @.got]]
       /\ scoresSmooth' =
            [scoresSmooth EXCEPT ![task[t].at][partition[n]] = @ + 1]
  /\ UNCHANGED <<in, round, partition, position, boundary, color, loop, todo,
                 tempPartition, temp>>

ReadNeighbour(t) ==
  /\ loop \in {"smooth", "presmooth", "color"}
  /\ task[t].at # NoPoint
  /\ \E n \in task[t].left :
       task' = [task EXCEPT ![t] =
         [at |-> @.at, left |-> @.left \ {n},
          got |-> With(@.got, n,
                       IF loop = "smooth" THEN position[n] ELSE color[n])]]
  /\ UNCHANGED <<in, round, partition, position, boundary, color, loop, todo,
                 tempPartition, scoresSmooth, temp>>

(***************************************************************************)
(* The end of a body: what is computed of what was read is written at the  *)
(* thread's own index.                                                     *)
(***************************************************************************)
Ending(t, name) ==
  /\ loop = name
  /\ task[t].at # NoPoint
  /\ task[t].left = {}
  /\ task' = [task EXCEPT ![t] = Idle]

StartPartition(t) ==
  /\ Ending(t, "initial")
  /\ LET i == task[t].at IN partition' = [partition EXCEPT ![i] = First(in, i)]
  /\ UNCHANGED <<in, round, position, boundary, color, loop, todo,
                 tempPartition, scoresSmooth, temp>>

EndCount(t) ==
  /\ Ending(t, "count")
  /\ UNCHANGED <<in, round, partition, position, boundary, color, loop, todo,
                 tempPartition, scoresSmooth, temp>>

\* A mistake: the next orientations are written over the present ones.
ChooseInPlace(t) ==
  /\ Ending(t, "choose")
  /\ LET i == task[t].at
     IN  partition' = [partition EXCEPT ![i] =
                         Choice(in, i, @, scoresSmooth[i])]
  /\ UNCHANGED <<in, round, position, boundary, color, loop, todo,
                 tempPartition, scoresSmooth, temp>>

Choose(t) ==
  /\ Ending(t, "choose")
  /\ LET i == task[t].at
     IN  tempPartition' = [tempPartition EXCEPT ![i] =
                             Choice(in, i, partition[i], scoresSmooth[i])]
  /\ UNCHANGED <<in, round, partition, position, boundary, color, loop, todo,
                 scoresSmooth, temp>>

\* A mistake: a point is moved while others still read it.
MoveAtOnce(t) ==
  /\ Ending(t, "smooth")
  /\ LET i == task[t].at
         got == task[t].got
         to == Moved(in, i, got, position[i])
     IN  /\ temp' = [temp EXCEPT ![i] = to]
         /\ position' = [position EXCEPT ![i] = to]
         /\ boundary' = [boundary EXCEPT ![i] = Marked(in, i, got, @)]
         /\ color' = [color EXCEPT ![i] = Reddened(in, i, got, position[i], @)]
  /\ UNCHANGED <<in, round, partition, loop, todo, tempPartition, scoresSmooth>>

SmoothPoint(t) ==
  /\ Ending(t, "smooth")
  /\ LET i == task[t].at
         got == task[t].got
     IN  /\ temp' = [temp EXCEPT ![i] = Moved(in, i, got, position[i])]
         /\ boundary' = [boundary EXCEPT ![i] = Marked(in, i, got, @)]
         /\ color' = [color EXCEPT ![i] = Reddened(in, i, got, position[i], @)]
  /\ UNCHANGED <<in, round, partition, position, loop, todo, tempPartition,
                 scoresSmooth>>

MovePoint(t) ==
  /\ Ending(t, "move")
  /\ LET i == task[t].at IN position' = [position EXCEPT ![i] = temp[i]]
  /\ UNCHANGED <<in, round, partition, boundary, color, loop, todo,
                 tempPartition, scoresSmooth, temp>>

BlendColor(t, name) ==
  /\ Ending(t, name)
  /\ LET i == task[t].at
     IN  temp' = [temp EXCEPT ![i] =
                    Blended(in, name, i, task[t].got, color[i])]
  /\ UNCHANGED <<in, round, partition, position, boundary, color, loop, todo,
                 tempPartition, scoresSmooth>>

PaintPoint(t, name) ==
  /\ Ending(t, name)
  /\ LET i == task[t].at IN color' = [color EXCEPT ![i] = temp[i]]
  /\ UNCHANGED <<in, round, partition, position, boundary, loop, todo,
                 tempPartition, scoresSmooth, temp>>

-----------------------------------------------------------------------------
(***************************************************************************)
(* Between the loops.                                                      *)
(***************************************************************************)
\* A mistake: the next loop begins when all indices are taken, not done.
NoBarrier(from, to) ==
  /\ loop = from /\ loop' = to
  /\ todo = {} /\ todo' = Points
  /\ UNCHANGED task

AllDone(from, to) ==
  /\ loop = from /\ loop' = to
  /\ todo = {} /\ todo' = Points
  /\ task = NoTasks /\ UNCHANGED task

EndPass(from, to) ==
  /\ AllDone(from, to)
  /\ UNCHANGED <<in, round, partition, position, boundary, color,
                 tempPartition, scoresSmooth, temp>>

Iterate ==
  /\ loop = "refine" /\ round < Iterations
  /\ loop' = "count"
  /\ UNCHANGED <<in, round, partition, position, boundary, color, todo, task,
                 tempPartition, scoresSmooth, temp>>

SwapPartitions ==
  /\ AllDone("choose", "refine")
  /\ partition' = tempPartition /\ tempPartition' = partition
  /\ round' = round + 1
  /\ UNCHANGED <<in, position, boundary, color, scoresSmooth, temp>>

Rebuild ==
  /\ loop = "refine" /\ round = Iterations
  /\ loop' = "smooth"
  /\ UNCHANGED <<in, round, partition, position, boundary, color, todo, task,
                 tempPartition, scoresSmooth, temp>>

\* The loop that blends colours starts from a copy of them.
Recolor(from, given, to) ==
  /\ loop = from /\ loop' = to
  /\ color' = given /\ temp' = given
  /\ UNCHANGED <<in, round, partition, position, boundary, todo, task,
                 tempPartition, scoresSmooth>>

Body(t) ==
  \/ Take(t) \/ CountNeighbour(t) \/ ReadNeighbour(t)
  \/ StartPartition(t) \/ EndCount(t) \/ Choose(t)
  \/ SmoothPoint(t) \/ MovePoint(t)
  \/ BlendColor(t, "presmooth") \/ PaintPoint(t, "repaint")
  \/ BlendColor(t, "color") \/ PaintPoint(t, "paint")

Between ==
  \/ EndPass("initial", "refine")
  \/ Iterate \/ EndPass("count", "choose") \/ SwapPartitions
  \/ Rebuild
  \/ EndPass("smooth", "move")
  \/ EndPass("move", AfterSmooth(in))
  \/ Recolor("transfer", in.transferred, "presmooth")
  \/ EndPass("presmooth", "repaint")
  \/ EndPass("repaint", "decode")
  \/ Recolor("decode", in.decoded, "color")
  \/ EndPass("color", "paint")
  \/ EndPass("paint", "done")

Terminated == loop = "done" /\ UNCHANGED vars

Next == (\E t \in Threads : Body(t)) \/ Between \/ Terminated

Spec == Init /\ [][Next]_vars
\* Neither a thread with an index nor the program between two loops waits.
FairSpec == Spec /\ WF_vars(Next)

-----------------------------------------------------------------------------
(***************************************************************************)
(* Inside a loop.                                                          *)
(***************************************************************************)
Busy == {t \in Threads : task[t].at # NoPoint}
Done == {i \in Points \ todo : \A t \in Busy : task[t].at # i}

LoopTypeOK ==
  /\ in \in Inputs
  /\ round \in 0 .. Iterations
  /\ loop \in Loops \union {"refine", "transfer", "decode", "done"}
  /\ todo \subseteq Points
  /\ scoresSmooth \in [Points -> [Orients -> Nat]]
  /\ \A a \in {partition, position, boundary, color, tempPartition, temp} :
       IsArray(a)

\* Each index has one thread, and between two loops nobody is at work.
TasksOK ==
  /\ task = [t \in Threads |-> [at |-> task[t].at, left |-> task[t].left,
                                got |-> task[t].got]]
  /\ loop \notin Loops => todo = Points /\ task = NoTasks
  /\ \A t \in Busy :
       /\ task[t].at \in Points \ todo
       /\ task[t].left \subseteq Neighbours(task[t].at)
       /\ \A u \in Busy \ {t} : task[u].at # task[t].at

HasRead(i, left) == Neighbours(i) \ left

SegmentsOK ==
  /\ loop = "initial" => \A i \in Done : partition[i] = First(in, i)
  /\ loop = "count" =>
       /\ \A i \in Done : scoresSmooth[i] = Counts(in, partition, i)
       /\ \A t \in Busy, j \in Orients :
            scoresSmooth[task[t].at][j] =
              Cardinality({n \in HasRead(task[t].at, task[t].left) :
                             partition[n] = j})
  /\ loop = "choose" =>
       /\ \A i \in Points : scoresSmooth[i] = Counts(in, partition, i)
       /\ \A i \in Done : tempPartition[i] =
                          Choice(in, i, partition[i], Counts(in, partition, i))

SmoothingOK ==
  /\ loop \in {"initial", "refine", "count", "choose", "smooth"} =>
       position = in.position
  /\ loop \in {"initial", "refine", "count", "choose"} =>
       boundary = in.boundary /\ color = in.color
  /\ loop = "smooth" =>
       /\ \A t \in Busy :
            task[t].got =
              Values(position, HasRead(task[t].at, task[t].left))
       /\ \A i \in Points \ Done :
            boundary[i] = in.boundary[i] /\ color[i] = in.color[i]
       /\ \A i \in Done :
            LET got == Values(position, Near(position, i))
            IN  /\ temp[i] = Moved(in, i, got, position[i])
                /\ boundary[i] = Marked(in, i, got, in.boundary[i])
                /\ color[i] = Reddened(in, i, got, position[i], in.color[i])
  /\ loop = "move" => \A i \in Done : position[i] = temp[i]

ColorsOK ==
  /\ loop \in {"presmooth", "color"} =>
       /\ \A t \in Busy :
            task[t].got = Values(color, HasRead(task[t].at, task[t].left))
       /\ \A i \in Done :
            temp[i] = Blended(in, loop, i,
                              Values(color, Seen(loop, position, boundary, i)),
                              color[i])
  /\ loop \in {"repaint", "paint"} => \A i \in Done : color[i] = temp[i]

\* Half way through a loop, each point that is done has what its pass makes of
\* the cloud as it was before the loop, and each thread at work has read the
\* cloud as it was before the loop.
PartialResults ==
  LoopTypeOK /\ TasksOK /\ SegmentsOK /\ SmoothingOK /\ ColorsOK

-----------------------------------------------------------------------------
(***************************************************************************)
(* As the cloud looks pass by pass: a pass counts as done when its first   *)
(* loop is, and until then nothing of it is visible.                       *)
(***************************************************************************)
PassOf ==
  CASE loop \in {"count", "choose"} -> "refine"
    [] loop = "move" -> AfterSmooth(in)
    [] loop = "repaint" -> "decode"
    [] loop = "paint" -> "done"
    [] OTHER -> loop

Unsegmented == [i \in Points |-> 0]

Abstract == INSTANCE PassByPass WITH
  pass <- PassOf,
  partition <- IF loop = "initial" THEN Unsegmented ELSE partition,
  position <- IF loop = "move" THEN temp ELSE position,
  boundary <- IF loop = "smooth" THEN in.boundary ELSE boundary,
  color <- IF loop = "smooth" THEN in.color
           ELSE IF loop \in {"repaint", "paint"} THEN temp ELSE color

\* The loops implement the passes, whatever the threads and their order: no
\* body reads what another body of its loop writes, no loop begins before the
\* one before has ended, and every cloud gets through all passes.
ImplementsPasses == Abstract!Spec
=============================================================================
