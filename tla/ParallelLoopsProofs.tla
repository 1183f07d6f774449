------------------------ MODULE ParallelLoopsProofs ------------------------
(***************************************************************************)
(* Proofs about the parallel loops, for every cloud and any number of      *)
(* threads: inside a loop everything done and read belongs to the pass     *)
(* before it, and the loops are the passes of PassByPass.                  *)
(***************************************************************************)
EXTENDS ParallelLoops, FiniteSetTheorems, TLAPS

-----------------------------------------------------------------------------
(***************************************************************************)
(* The inductive invariant.  What the run checks is inductive but for the  *)
(* count of the iterations.                                                *)
(***************************************************************************)
\* An iteration that has begun is one of those to be done.
RoundLeft == loop \in {"count", "choose"} => round < Iterations

LoopInv == PartialResults /\ RoundLeft

LEMMA Arrays ==
  ASSUME LoopTypeOK
  PROVE  /\ IsArray(partition) /\ IsArray(position) /\ IsArray(boundary)
         /\ IsArray(color) /\ IsArray(tempPartition) /\ IsArray(temp)
  BY DEF LoopTypeOK

LEMMA InputArrays ==
  ASSUME NEW x \in Inputs
  PROVE  /\ IsArray(x.position) /\ IsArray(x.boundary) /\ IsArray(x.color)
         /\ IsArray(x.transferred) /\ IsArray(x.decoded)
  BY LoopAssumption

LEMMA SameArray ==
  ASSUME NEW a, NEW b, IsArray(a), IsArray(b), \A i \in Points : a[i] = b[i]
  PROVE  a = b
  BY DEF IsArray

-----------------------------------------------------------------------------
(***************************************************************************)
(* Threads and their indices.                                              *)
(***************************************************************************)
LEMMA NeighboursKept ==
  ASSUME \A j \in Points : Neighbours(j)' = Neighbours(j),
         NEW t \in Threads, task'[t].at \in Points
  PROVE  Neighbours(task[t].at)' = Neighbours(task'[t].at)
  BY DEF Neighbours

LEMMA Begun ==
  ASSUME TasksOK, NEW t \in Threads, task[t].at = NoPoint, NEW i \in todo,
         todo \subseteq Points, NEW left, left \subseteq Neighbours(i),
         \A j \in Points : Neighbours(j)' = Neighbours(j),
         loop \in Loops, loop' = loop,
         todo' = todo \ {i},
         task' = [task EXCEPT ![t] = [at |-> i, left |-> left, got |-> Nothing]]
  PROVE  /\ TasksOK'
         /\ task'[t] = [at |-> i, left |-> left, got |-> Nothing]
         /\ \A u \in Threads \ {t} : task'[u] = task[u]
         /\ Busy' = Busy \union {t} /\ Done' = Done
<1>1. DOMAIN task = Threads
  BY DEF TasksOK
<1>2. task'[t] = [at |-> i, left |-> left, got |-> Nothing]
  BY <1>1
<1>3. \A u \in Threads \ {t} : task'[u] = task[u]
  BY <1>1
<1>4. i \in Points /\ i # NoPoint
  BY ThreadAssumption
<1>5. Busy' = Busy \union {t}
  BY <1>2, <1>3, <1>4 DEF Busy
<1>6. t \notin Busy
  BY DEF Busy
<1>7. Done' = Done
  BY <1>2, <1>3, <1>4, <1>5, <1>6 DEF Done, Busy
<1>8. \A u \in Threads :
        task'[u] = [at |-> task'[u].at, left |-> task'[u].left,
                    got |-> task'[u].got]
  <2>1. \A u \in Threads :
          task[u] = [at |-> task[u].at, left |-> task[u].left,
                     got |-> task[u].got]
    BY DEF TasksOK
  <2> QED
    BY <2>1, <1>2, <1>3
<1>9. task' = [u \in Threads |-> [at |-> task'[u].at, left |-> task'[u].left,
                                  got |-> task'[u].got]]
  <2>1. task' = [u \in Threads |-> task'[u]]
    BY <1>1
  <2> QED
    BY <2>1, <1>8
<1>10. \A u \in Busy :
         /\ task[u].at \in Points \ todo
         /\ task[u].left \subseteq Neighbours(task[u].at)
         /\ \A w \in Busy \ {u} : task[w].at # task[u].at
  BY DEF TasksOK
<1>11. \A u \in Busy' :
         /\ task'[u].at \in Points \ todo'
         /\ task'[u].left \subseteq Neighbours(task[u].at)'
         /\ \A w \in Busy' \ {u} : task'[w].at # task'[u].at
  <2>1. \A u \in Busy : u \in Threads \ {t}
    BY <1>6 DEF Busy
  <2> QED
    BY <1>2, <1>3, <1>4, <1>5, <1>10, <2>1, NeighboursKept
<1> QED
  BY <1>2, <1>3, <1>5, <1>7, <1>9, <1>11 DEF TasksOK

LEMMA GoneOn ==
  ASSUME TasksOK, NEW t \in Threads, task[t].at # NoPoint,
         NEW left, left \subseteq task[t].left, NEW got,
         \A j \in Points : Neighbours(j)' = Neighbours(j),
         loop \in Loops, loop' = loop, todo' = todo,
         task' = [task EXCEPT ![t] =
                    [at |-> task[t].at, left |-> left, got |-> got]]
  PROVE  /\ TasksOK'
         /\ task'[t] = [at |-> task[t].at, left |-> left, got |-> got]
         /\ \A u \in Threads \ {t} : task'[u] = task[u]
         /\ Busy' = Busy /\ t \in Busy /\ Done' = Done
<1>1. DOMAIN task = Threads
  BY DEF TasksOK
<1>2. task'[t] = [at |-> task[t].at, left |-> left, got |-> got]
  BY <1>1
<1>3. \A u \in Threads \ {t} : task'[u] = task[u]
  BY <1>1
<1>4. Busy' = Busy /\ t \in Busy
  BY <1>2, <1>3 DEF Busy
<1>5. \A u \in Threads : task'[u].at = task[u].at
  BY <1>2, <1>3
<1>6. Done' = Done
  BY <1>4, <1>5 DEF Done, Busy
<1>7. task' = [u \in Threads |-> [at |-> task'[u].at, left |-> task'[u].left,
                                  got |-> task'[u].got]]
  <2>1. \A u \in Threads :
          task[u] = [at |-> task[u].at, left |-> task[u].left,
                     got |-> task[u].got]
    BY DEF TasksOK
  <2>2. task' = [u \in Threads |-> task'[u]]
    BY <1>1
  <2> QED
    BY <2>1, <2>2, <1>2, <1>3
<1>8. \A u \in Busy :
        /\ task[u].at \in Points \ todo
        /\ task[u].left \subseteq Neighbours(task[u].at)
        /\ \A w \in Busy \ {u} : task[w].at # task[u].at
  BY DEF TasksOK
<1>9. \A u \in Busy' :
        /\ task'[u].at \in Points \ todo'
        /\ task'[u].left \subseteq Neighbours(task[u].at)'
        /\ \A w \in Busy' \ {u} : task'[w].at # task'[u].at
  <2>1. \A u \in Busy : u \in Threads
    BY DEF Busy
  <2> QED
    BY <1>2, <1>3, <1>4, <1>5, <1>8, <2>1, NeighboursKept
<1> QED
  BY <1>2, <1>3, <1>4, <1>6, <1>7, <1>9 DEF TasksOK

LEMMA Ended ==
  ASSUME TasksOK, NEW t \in Threads, NEW name, Ending(t, name),
         \A j \in Points : Neighbours(j)' = Neighbours(j),
         loop \in Loops, loop' = loop, todo' = todo
  PROVE  /\ TasksOK'
         /\ \A u \in Threads \ {t} : task'[u] = task[u]
         /\ t \in Busy /\ Busy' = Busy \ {t}
         /\ task[t].at \in Points \ Done
         /\ Done' = Done \union {task[t].at}
         /\ HasRead(task[t].at, task[t].left) = Neighbours(task[t].at)
<1>1. DOMAIN task = Threads
  BY DEF TasksOK
<1>2. task'[t] = Idle /\ task[t].at # NoPoint /\ task[t].left = {}
  BY <1>1 DEF Ending
<1>3. \A u \in Threads \ {t} : task'[u] = task[u]
  BY <1>1 DEF Ending
<1>4. Busy' = Busy \ {t} /\ t \in Busy
  BY <1>2, <1>3 DEF Busy, Idle
<1>5. \A u \in Busy :
        /\ task[u].at \in Points \ todo
        /\ task[u].left \subseteq Neighbours(task[u].at)
        /\ \A w \in Busy \ {u} : task[w].at # task[u].at
  BY DEF TasksOK
<1>6. \A u \in Busy' : u \in Threads /\ u \in Busy /\ task'[u] = task[u]
  BY <1>3, <1>4 DEF Busy
<1>7. task[t].at \in Points \ Done
  BY <1>4, <1>5 DEF Done
<1>8. Done' = Done \union {task[t].at}
  BY <1>4, <1>5, <1>6 DEF Done
<1>9. task' = [u \in Threads |-> [at |-> task'[u].at, left |-> task'[u].left,
                                  got |-> task'[u].got]]
  <2>1. \A u \in Threads :
          task[u] = [at |-> task[u].at, left |-> task[u].left,
                     got |-> task[u].got]
    BY DEF TasksOK
  <2>2. task' = [u \in Threads |-> task'[u]]
    BY <1>1 DEF Ending
  <2> QED
    BY <2>1, <2>2, <1>2, <1>3 DEF Idle
<1>10. \A u \in Busy' :
         /\ task'[u].at \in Points \ todo'
         /\ task'[u].left \subseteq Neighbours(task[u].at)'
         /\ \A w \in Busy' \ {u} : task'[w].at # task'[u].at
  BY <1>5, <1>6, NeighboursKept
<1> QED
  BY <1>2, <1>3, <1>4, <1>7, <1>8, <1>9, <1>10 DEF TasksOK, HasRead

\* Between two loops, or at a barrier, nobody is at work.
LEMMA AtRest ==
  ASSUME task = NoTasks
  PROVE  /\ Busy = {}
         /\ todo = {} => Done = Points
         /\ todo = Points => Done = {}
  BY DEF NoTasks, Idle, Busy, Done

LEMMA RestTasks ==
  ASSUME task' = NoTasks, todo' = Points
  PROVE  TasksOK'
<1>1. \A t \in Threads : task'[t] = Idle
  BY DEF NoTasks
<1>2. Busy' = {}
  BY <1>1 DEF Busy, Idle
<1>3. task' = [t \in Threads |-> [at |-> task'[t].at, left |-> task'[t].left,
                                  got |-> task'[t].got]]
  BY <1>1 DEF NoTasks, Idle
<1> QED
  BY <1>2, <1>3 DEF TasksOK

-----------------------------------------------------------------------------
(***************************************************************************)
(* Threads take indices and read.                                          *)
(***************************************************************************)
LEMMA TakeKeeps ==
  ASSUME LoopInv, NEW t \in Threads, Take(t)
  PROVE  LoopInv'
<1> USE DEF LoopInv, PartialResults
<1>1. PICK i \in todo :
        /\ todo' = todo \ {i}
        /\ task' = [task EXCEPT ![t] =
                      [at |-> i, left |-> Neighbours(i), got |-> Nothing]]
        /\ scoresSmooth' = IF loop = "count"
                           THEN [scoresSmooth EXCEPT ![i] = NoScores]
                           ELSE scoresSmooth
  BY DEF Take
<1>2. /\ loop \in Loops /\ task[t].at = NoPoint
      /\ UNCHANGED <<in, round, partition, position, boundary, color, loop,
                     tempPartition, temp>>
  BY DEF Take
<1>3. i \in Points /\ todo \subseteq Points
  BY DEF LoopTypeOK
<1>4. \A j \in Points : Neighbours(j)' = Neighbours(j)
  BY <1>2 DEF Neighbours, Seen, Near
<1>5. /\ TasksOK'
      /\ task'[t] = [at |-> i, left |-> Neighbours(i), got |-> Nothing]
      /\ \A u \in Threads \ {t} : task'[u] = task[u]
      /\ Busy' = Busy \union {t} /\ Done' = Done
  BY <1>1, <1>2, <1>3, <1>4, Begun
<1>6. LoopTypeOK'
  <2>1. scoresSmooth' \in [Points -> [Orients -> Nat]]
    BY <1>1, <1>3 DEF LoopTypeOK, NoScores
  <2>2. todo' \subseteq Points
    BY <1>1, <1>3
  <2>3. \A a \in {partition, position, boundary, color, tempPartition, temp}' :
          IsArray(a)
    BY <1>2 DEF LoopTypeOK
  <2> QED
    BY <2>1, <2>2, <2>3, <1>2 DEF LoopTypeOK
<1>7. /\ i \notin Done
      /\ \A u \in Busy : u \in Threads \ {t} /\ task[u].at \in Points \ {i}
  BY <1>2, ThreadAssumption DEF Done, Busy, TasksOK
<1>8. SegmentsOK'
  <2>1. CASE loop = "initial"
    BY <2>1, <1>2, <1>5 DEF SegmentsOK
  <2>2. CASE loop = "count"
    <3>1. \A k \in Done : scoresSmooth'[k] = scoresSmooth[k]
      BY <2>2, <1>1, <1>7 DEF Done, LoopTypeOK
    <3>2. \A u \in Busy : scoresSmooth'[task'[u].at] = scoresSmooth[task[u].at]
      BY <2>2, <1>1, <1>5, <1>7 DEF LoopTypeOK
    <3>3. \A j \in Orients : scoresSmooth'[i][j] = 0
      BY <2>2, <1>1, <1>3 DEF LoopTypeOK, NoScores
    <3>4. \A j \in Orients :
            Cardinality({n \in HasRead(task[t].at, task[t].left)' :
                           partition[n] = j}) = 0
      <4>1. HasRead(task[t].at, task[t].left)' = {}
        BY <1>2, <1>5, <2>2 DEF HasRead, Neighbours
      <4> QED
        BY <4>1, FS_EmptySet
    <3>5. \A u \in Busy : HasRead(task[u].at, task[u].left)'
                            = HasRead(task[u].at, task[u].left)
      BY <1>2, <1>5, <1>7, <2>2 DEF HasRead, Neighbours
    <3> QED
      BY <2>2, <1>2, <1>5, <3>1, <3>2, <3>3, <3>4, <3>5 DEF SegmentsOK, Counts
  <2>3. CASE loop = "choose"
    BY <2>3, <1>1, <1>2, <1>5 DEF SegmentsOK, Counts
  <2>4. CASE loop \notin {"initial", "count", "choose"}
    BY <2>4, <1>2 DEF SegmentsOK
  <2> QED
    BY <2>1, <2>2, <2>3, <2>4
<1>9. SmoothingOK'
  <2>1. CASE loop = "smooth"
    <3>1. task'[t].got = Values(position', HasRead(task[t].at, task[t].left)')
      BY <1>2, <1>5, <2>1 DEF HasRead, Neighbours, Values, Nothing
    <3>2. \A u \in Busy : task'[u].got =
                Values(position', HasRead(task[u].at, task[u].left)')
      BY <1>2, <1>5, <1>7, <2>1 DEF HasRead, Neighbours, SmoothingOK
    <3> QED
      BY <2>1, <1>2, <1>5, <3>1, <3>2 DEF SmoothingOK, Near
  <2>2. CASE loop # "smooth"
    BY <2>2, <1>2, <1>5 DEF SmoothingOK
  <2> QED
    BY <2>1, <2>2
<1>10. ColorsOK'
  <2>1. CASE loop \in {"presmooth", "color"}
    <3>1. task'[t].got = Values(color', HasRead(task[t].at, task[t].left)')
      BY <1>2, <1>5, <2>1 DEF HasRead, Neighbours, Values, Nothing
    <3>2. \A u \in Busy : task'[u].got =
                Values(color', HasRead(task[u].at, task[u].left)')
      BY <1>2, <1>5, <1>7, <2>1 DEF HasRead, Neighbours, ColorsOK
    <3> QED
      BY <2>1, <1>2, <1>5, <3>1, <3>2 DEF ColorsOK, Seen, Near
  <2>2. CASE loop \notin {"presmooth", "color"}
    BY <2>2, <1>2, <1>5 DEF ColorsOK
  <2> QED
    BY <2>1, <2>2
<1> QED
  BY <1>2, <1>5, <1>6, <1>8, <1>9, <1>10 DEF RoundLeft

\* Reading one more neighbour adds it to those that have been read.
LEMMA ReadOneMore ==
  ASSUME TasksOK, NEW t \in Busy, NEW n \in task[t].left
  PROVE  /\ n \in Neighbours(task[t].at)
         /\ n \notin HasRead(task[t].at, task[t].left)
         /\ HasRead(task[t].at, task[t].left \ {n})
              = HasRead(task[t].at, task[t].left) \union {n}
  BY DEF TasksOK, HasRead

LEMMA OneCounted ==
  ASSUME NEW f \in [Orients -> Nat], NEW j
  PROVE  [f EXCEPT ![j] = @ + 1] \in [Orients -> Nat]
<1> DEFINE g == [f EXCEPT ![j] = @ + 1]
<1>1. j \in Orients => f[j] + 1 \in Nat
  OBVIOUS
<1>2. \A k \in Orients : g[k] = IF k = j THEN f[j] + 1 ELSE f[k]
  OBVIOUS
<1>3. g = [k \in Orients |-> g[k]]
  OBVIOUS
<1>4. \A k \in Orients : g[k] \in Nat
  BY <1>1, <1>2
<1>5. g \in [Orients -> Nat]
  <2> HIDE DEF g
  <2> QED
    BY <1>3, <1>4
<1> QED
  BY <1>5

LEMMA CountNeighbourKeeps ==
  ASSUME LoopInv, NEW t \in Threads, CountNeighbour(t)
  PROVE  LoopInv'
<1> USE DEF LoopInv, PartialResults
<1> DEFINE i == task[t].at
           old == HasRead(i, task[t].left)
<1>1. PICK n \in task[t].left :
        /\ task' = [task EXCEPT ![t] =
                      [at |-> @.at, left |-> @.left \ {n}, got |-> @.got]]
        /\ scoresSmooth' =
             [scoresSmooth EXCEPT ![task[t].at][partition[n]] = @ + 1]
  BY DEF CountNeighbour
<1>2. /\ loop = "count" /\ task[t].at # NoPoint
      /\ UNCHANGED <<in, round, partition, position, boundary, color, loop,
                     todo, tempPartition, temp>>
  BY DEF CountNeighbour
<1>3. \A j \in Points : Neighbours(j)' = Neighbours(j)
  BY <1>2 DEF Neighbours
<1>4. DOMAIN task = Threads
  BY DEF TasksOK
<1>5. task' = [task EXCEPT ![t] = [at |-> task[t].at, left |-> task[t].left \ {n},
                                   got |-> task[t].got]]
  BY <1>1, <1>4
<1>6. /\ TasksOK'
      /\ task'[t] = [at |-> i, left |-> task[t].left \ {n}, got |-> task[t].got]
      /\ \A u \in Threads \ {t} : task'[u] = task[u]
      /\ Busy' = Busy /\ t \in Busy /\ Done' = Done
  <2>1. task[t].left \ {n} \subseteq task[t].left /\ loop \in Loops
    BY <1>2 DEF Loops
  <2> HIDE DEF LoopInv, PartialResults
  <2> QED
    BY <1>2, <1>3, <1>5, <2>1, GoneOn DEF LoopInv, PartialResults
<1>7. i \in Points /\ \A u \in Busy \ {t} : u \in Threads /\ task[u].at # i
  BY <1>6 DEF TasksOK, Busy
<1>8. \A k \in Points \ {i} : scoresSmooth'[k] = scoresSmooth[k]
  BY <1>1, <1>7 DEF LoopTypeOK
<1>9. scoresSmooth'[i] = [scoresSmooth[i] EXCEPT ![partition[n]] = @ + 1]
  BY <1>1, <1>7 DEF LoopTypeOK
<1>10. LoopTypeOK'
  <2>1. scoresSmooth[i] \in [Orients -> Nat]
    BY <1>7 DEF LoopTypeOK
  <2>2. scoresSmooth'[i] \in [Orients -> Nat]
    BY <1>9, <2>1, OneCounted
  <2>3. scoresSmooth' \in [Points -> [Orients -> Nat]]
    <3>1. scoresSmooth \in [Points -> [Orients -> Nat]]
      BY DEF LoopTypeOK
    <3>2. scoresSmooth' = [k \in Points |-> scoresSmooth'[k]]
      BY <1>1, <3>1
    <3>3. \A k \in Points : scoresSmooth'[k] \in [Orients -> Nat]
      BY <1>8, <2>2, <3>1
    <3> HIDE DEF LoopInv, PartialResults
    <3> QED
      BY <3>2, <3>3
  <2>4. \A a \in {partition, position, boundary, color, tempPartition, temp}' :
          IsArray(a)
    BY <1>2 DEF LoopTypeOK
  <2> QED
    BY <2>3, <2>4, <1>2 DEF LoopTypeOK
<1>11. SegmentsOK'
  <2>1. HasRead(task[t].at, task[t].left)' = old \union {n} /\ n \notin old
    <3>1. HasRead(i, task[t].left \ {n}) = old \union {n} /\ n \notin old
      BY <1>6, ReadOneMore
    <3> QED
      BY <3>1, <1>2, <1>6 DEF HasRead, Neighbours
  <2>2. IsFiniteSet(old)
    <3>1. old \subseteq Points
      BY <1>2, <1>7, LoopAssumption DEF HasRead, Neighbours, LoopTypeOK
    <3> QED
      BY <3>1, FS_Subset, LoopAssumption
  <2>3. ASSUME NEW j \in Orients
        PROVE  scoresSmooth'[i][j] =
                 Cardinality({m \in old \union {n} : partition[m] = j})
    <3> DEFINE S == {m \in old : partition[m] = j}
    <3>1. scoresSmooth[i][j] = Cardinality(S)
      BY <1>2, <1>6 DEF SegmentsOK
    <3>2. IsFiniteSet(S) /\ n \notin S
      BY <2>1, <2>2, FS_Subset
    <3>3. scoresSmooth[i] \in [Orients -> Nat]
      BY <1>7 DEF LoopTypeOK
    <3>4. CASE partition[n] = j
      <4>1. {m \in old \union {n} : partition[m] = j} = S \union {n}
        BY <3>4
      <4>2. Cardinality(S \union {n}) = Cardinality(S) + 1
        BY <3>2, FS_AddElement
      <4>3. scoresSmooth'[i][j] = scoresSmooth[i][j] + 1
        BY <1>9, <3>3, <3>4
      <4> QED
        BY <4>1, <4>2, <4>3, <3>1
    <3>5. CASE partition[n] # j
      <4>1. {m \in old \union {n} : partition[m] = j} = S
        BY <3>5
      <4>2. scoresSmooth'[i][j] = scoresSmooth[i][j]
        BY <1>9, <3>3, <3>5
      <4> QED
        BY <4>1, <4>2, <3>1
    <3> QED
      BY <3>4, <3>5
  <2>4. \A u \in Busy \ {t} :
          /\ scoresSmooth'[task'[u].at] = scoresSmooth[task[u].at]
          /\ HasRead(task[u].at, task[u].left)'
               = HasRead(task[u].at, task[u].left)
    BY <1>2, <1>6, <1>7, <1>8 DEF HasRead, Neighbours, TasksOK
  <2>5. \A k \in Done : k # i
    BY <1>6 DEF Done
  <2>6. \A k \in Done : scoresSmooth'[k] = scoresSmooth[k]
    BY <1>8, <2>5 DEF Done
  <2> QED
    BY <1>2, <1>6, <2>1, <2>3, <2>4, <2>6 DEF SegmentsOK, Counts
<1>12. SmoothingOK' /\ ColorsOK'
  BY <1>2 DEF SmoothingOK, ColorsOK
<1> QED
  BY <1>2, <1>6, <1>10, <1>11, <1>12 DEF RoundLeft

\* What is read of an array and what has been read of it before.
LEMMA WithOneMore ==
  ASSUME NEW a, NEW S, NEW n
  PROVE  With(Values(a, S), n, a[n]) = Values(a, S \union {n})
  BY DEF With, Values

LEMMA ReadNeighbourKeeps ==
  ASSUME LoopInv, NEW t \in Threads, ReadNeighbour(t)
  PROVE  LoopInv'
<1> USE DEF LoopInv, PartialResults
<1> DEFINE i == task[t].at
           old == HasRead(i, task[t].left)
           a == IF loop = "smooth" THEN position ELSE color
<1>1. PICK n \in task[t].left :
        task' = [task EXCEPT ![t] =
          [at |-> @.at, left |-> @.left \ {n},
           got |-> With(@.got, n,
                        IF loop = "smooth" THEN position[n] ELSE color[n])]]
  BY DEF ReadNeighbour
<1>2. /\ loop \in {"smooth", "presmooth", "color"} /\ task[t].at # NoPoint
      /\ UNCHANGED <<in, round, partition, position, boundary, color, loop,
                     todo, tempPartition, scoresSmooth, temp>>
  BY DEF ReadNeighbour
<1>3. \A j \in Points : Neighbours(j)' = Neighbours(j)
  BY <1>2 DEF Neighbours, Seen, Near
<1>4. DOMAIN task = Threads
  BY DEF TasksOK
<1>5. task' = [task EXCEPT ![t] = [at |-> task[t].at, left |-> task[t].left \ {n},
                                   got |-> With(task[t].got, n, a[n])]]
  BY <1>1, <1>4
<1>6. /\ TasksOK'
      /\ task'[t] = [at |-> i, left |-> task[t].left \ {n},
                     got |-> With(task[t].got, n, a[n])]
      /\ \A u \in Threads \ {t} : task'[u] = task[u]
      /\ Busy' = Busy /\ t \in Busy /\ Done' = Done
  <2>1. task[t].left \ {n} \subseteq task[t].left /\ loop \in Loops
    BY <1>2 DEF Loops
  <2> HIDE DEF LoopInv, PartialResults, a
  <2> QED
    BY <1>2, <1>3, <1>5, <2>1, GoneOn DEF LoopInv, PartialResults
<1>7. i \in Points /\ \A u \in Busy \ {t} : u \in Threads /\ task[u].at \in Points
  BY <1>6 DEF TasksOK, Busy
<1>8. LoopTypeOK'
  BY <1>2 DEF LoopTypeOK
<1>9. HasRead(task[t].at, task[t].left)' = old \union {n}
  <2>1. HasRead(i, task[t].left \ {n}) = old \union {n}
    BY <1>6, ReadOneMore
  <2> QED
    BY <2>1, <1>2, <1>6 DEF HasRead, Neighbours, Seen, Near
<1>10. task[t].got = Values(a, old)
  BY <1>2, <1>6 DEF SmoothingOK, ColorsOK
<1>11. task'[t].got = Values(a, HasRead(task[t].at, task[t].left)')
  <2>1. With(Values(a, old), n, a[n]) = Values(a, old \union {n})
    <3> HIDE DEF a, old
    <3> QED
      BY WithOneMore
  <2>2. task'[t].got = With(task[t].got, n, a[n])
    BY <1>6
  <2> HIDE DEF a, old, LoopInv, PartialResults
  <2> QED
    BY <1>9, <1>10, <2>1, <2>2
<1>12. \A u \in Busy \ {t} :
         /\ task'[u] = task[u]
         /\ HasRead(task[u].at, task[u].left)' = HasRead(task[u].at, task[u].left)
  BY <1>2, <1>6, <1>7 DEF HasRead, Neighbours, Seen, Near
<1>13. SegmentsOK'
  BY <1>2 DEF SegmentsOK
<1>14. SmoothingOK'
  <2>1. CASE loop = "smooth"
    <3>1. \A u \in Busy' : task'[u].got =
                Values(position', HasRead(task[u].at, task[u].left)')
      BY <1>2, <1>6, <1>11, <1>12, <2>1 DEF SmoothingOK
    <3> QED
      BY <2>1, <1>2, <1>6, <3>1 DEF SmoothingOK, Near
  <2>2. CASE loop # "smooth"
    BY <2>2, <1>2 DEF SmoothingOK
  <2> QED
    BY <2>1, <2>2
<1>15. ColorsOK'
  <2>1. CASE loop # "smooth"
    <3>1. \A u \in Busy' : task'[u].got =
                Values(color', HasRead(task[u].at, task[u].left)')
      BY <1>2, <1>6, <1>11, <1>12, <2>1 DEF ColorsOK
    <3> QED
      BY <2>1, <1>2, <1>6, <3>1 DEF ColorsOK, Seen, Near
  <2>2. CASE loop = "smooth"
    BY <2>2, <1>2 DEF ColorsOK
  <2> QED
    BY <2>1, <2>2
<1> QED
  BY <1>2, <1>6, <1>8, <1>13, <1>14, <1>15 DEF RoundLeft

-----------------------------------------------------------------------------
(***************************************************************************)
(* The end of a body.                                                      *)
(***************************************************************************)
LEMMA TypesKept ==
  ASSUME LoopTypeOK, UNCHANGED <<in, round, loop, todo, scoresSmooth>>,
         IsArray(partition'), IsArray(position'), IsArray(boundary'),
         IsArray(color'), IsArray(tempPartition'), IsArray(temp')
  PROVE  LoopTypeOK'
<1>1. \A a \in {partition, position, boundary, color, tempPartition, temp}' :
        IsArray(a)
  OBVIOUS
<1> QED
  BY <1>1 DEF LoopTypeOK

LEMMA StartPartitionKeeps ==
  ASSUME LoopInv, NEW t \in Threads, StartPartition(t)
  PROVE  LoopInv'
<1> USE DEF LoopInv, PartialResults
<1> DEFINE i == task[t].at
<1>1. /\ loop = "initial" /\ loop \in Loops /\ Ending(t, "initial")
      /\ partition' = [partition EXCEPT ![i] = First(in, i)]
      /\ UNCHANGED <<in, round, position, boundary, color, loop, todo,
                     tempPartition, scoresSmooth, temp>>
  BY DEF StartPartition, Ending, Loops
<1>2. \A j \in Points : Neighbours(j)' = Neighbours(j)
  BY <1>1 DEF Neighbours
<1>3. /\ TasksOK' /\ i \in Points \ Done
      /\ Done' = Done \union {i}
  BY <1>1, <1>2, Ended
<1>4. /\ IsArray(partition') /\ partition'[i] = First(in, i)
      /\ \A j \in Points \ {i} : partition'[j] = partition[j]
  BY <1>1, <1>3, Arrays DEF IsArray
<1>5. LoopTypeOK'
  <2> HIDE DEF LoopInv
  <2> QED
    BY <1>1, <1>4, Arrays, TypesKept DEF LoopInv
<1>6. SegmentsOK'
  BY <1>1, <1>3, <1>4 DEF SegmentsOK, Done
<1> QED
  BY <1>1, <1>3, <1>5, <1>6 DEF SmoothingOK, ColorsOK, RoundLeft

LEMMA EndCountKeeps ==
  ASSUME LoopInv, NEW t \in Threads, EndCount(t)
  PROVE  LoopInv'
<1> USE DEF LoopInv, PartialResults
<1> DEFINE i == task[t].at
<1>1. /\ loop = "count" /\ loop \in Loops /\ Ending(t, "count")
      /\ UNCHANGED <<in, round, partition, position, boundary, color, loop,
                     todo, tempPartition, scoresSmooth, temp>>
  BY DEF EndCount, Ending, Loops
<1>2. \A j \in Points : Neighbours(j)' = Neighbours(j)
  BY <1>1 DEF Neighbours
<1>3. /\ TasksOK' /\ i \in Points \ Done /\ t \in Busy
      /\ \A u \in Threads \ {t} : task'[u] = task[u]
      /\ Busy' = Busy \ {t} /\ Done' = Done \union {i}
      /\ HasRead(i, task[t].left) = Neighbours(i)
  BY <1>1, <1>2, Ended
<1>4. LoopTypeOK'
  BY <1>1, Arrays DEF LoopTypeOK
<1>5. SegmentsOK'
  <2>1. scoresSmooth[i] = Counts(in, partition, i)
    <3>1. HasRead(i, task[t].left) = in.adj[i]
      BY <1>1, <1>3 DEF Neighbours
    <3>2. \A j \in Orients :
            scoresSmooth[i][j] =
                  Cardinality({n \in in.adj[i] : partition[n] = j})
      BY <1>1, <1>3, <3>1 DEF SegmentsOK
    <3>3. scoresSmooth[i] \in [Orients -> Nat]
      BY <1>3 DEF LoopTypeOK
    <3>4. scoresSmooth[i] = [j \in Orients |-> scoresSmooth[i][j]]
      BY <3>3
    <3> HIDE DEF LoopInv, PartialResults
    <3> QED
      BY <3>2, <3>4 DEF Counts
  <2>2. \A u \in Busy' : /\ u \in Busy /\ task'[u] = task[u]
                         /\ HasRead(task[u].at, task[u].left)'
                              = HasRead(task[u].at, task[u].left)
    BY <1>1, <1>3 DEF Busy, HasRead, Neighbours
  <2>3. \A k \in Done' : scoresSmooth'[k] = Counts(in, partition, k)
    BY <1>1, <1>3, <2>1 DEF SegmentsOK
  <2>4. \A u \in Busy', j \in Orients :
          scoresSmooth'[task'[u].at][j] =
            Cardinality({n \in HasRead(task[u].at, task[u].left)' : partition'[n] = j})
    BY <1>1, <2>2 DEF SegmentsOK
  <2> QED
    BY <1>1, <2>3, <2>4 DEF SegmentsOK, Counts
<1> QED
  BY <1>1, <1>3, <1>4, <1>5 DEF SmoothingOK, ColorsOK, RoundLeft

LEMMA ChooseKeeps ==
  ASSUME LoopInv, NEW t \in Threads, Choose(t)
  PROVE  LoopInv'
<1> USE DEF LoopInv, PartialResults
<1> DEFINE i == task[t].at
<1>1. /\ loop = "choose" /\ loop \in Loops /\ Ending(t, "choose")
      /\ tempPartition' = [tempPartition EXCEPT ![i] =
                             Choice(in, i, partition[i], scoresSmooth[i])]
      /\ UNCHANGED <<in, round, partition, position, boundary, color, loop,
                     todo, scoresSmooth, temp>>
  BY DEF Choose, Ending, Loops
<1>2. \A j \in Points : Neighbours(j)' = Neighbours(j)
  BY <1>1 DEF Neighbours
<1>3. /\ TasksOK' /\ i \in Points \ Done
      /\ Done' = Done \union {i}
  BY <1>1, <1>2, Ended
<1>4. /\ IsArray(tempPartition')
      /\ tempPartition'[i] = Choice(in, i, partition[i], scoresSmooth[i])
      /\ \A j \in Points \ {i} : tempPartition'[j] = tempPartition[j]
  BY <1>1, <1>3, Arrays DEF IsArray
<1>5. LoopTypeOK'
  <2> HIDE DEF LoopInv
  <2> QED
    BY <1>1, <1>4, Arrays, TypesKept DEF LoopInv
<1>6. SegmentsOK'
  <2>1. scoresSmooth[i] = Counts(in, partition, i)
    BY <1>1, <1>3 DEF SegmentsOK
  <2>2. \A k \in Done' :
          tempPartition'[k]
                = Choice(in, k, partition[k], Counts(in, partition, k))
    <3>1. \A k \in Done : k \in Points \ {i}
      BY <1>3 DEF Done
    <3>2. \A k \in Done :
            tempPartition[k]
                  = Choice(in, k, partition[k], Counts(in, partition, k))
      BY <1>1 DEF SegmentsOK
    <3> HIDE DEF LoopInv, PartialResults
    <3> QED
      BY <1>3, <1>4, <2>1, <3>1, <3>2
  <2> QED
    BY <1>1, <2>2 DEF SegmentsOK, Counts
<1> QED
  BY <1>1, <1>3, <1>5, <1>6 DEF SmoothingOK, ColorsOK, RoundLeft

LEMMA SmoothPointKeeps ==
  ASSUME LoopInv, NEW t \in Threads, SmoothPoint(t)
  PROVE  LoopInv'
<1> USE DEF LoopInv, PartialResults
<1> DEFINE i == task[t].at
           got(k) == Values(position, Near(position, k))
<1>1. /\ loop = "smooth" /\ loop \in Loops /\ Ending(t, "smooth")
      /\ temp' = [temp EXCEPT ![i] = Moved(in, i, task[t].got, position[i])]
      /\ boundary' = [boundary EXCEPT ![i] =
                        Marked(in, i, task[t].got, boundary[i])]
      /\ color' = [color EXCEPT ![i] =
                     Reddened(in, i, task[t].got, position[i], color[i])]
      /\ UNCHANGED <<in, round, partition, position, loop, todo,
                     tempPartition, scoresSmooth>>
  <2>1. DOMAIN boundary = Points /\ DOMAIN color = Points
    BY Arrays DEF IsArray
  <2> QED
    BY <2>1 DEF SmoothPoint, Ending, Loops
<1>2. \A j \in Points : Neighbours(j)' = Neighbours(j)
  BY <1>1 DEF Neighbours, Near
<1>3. /\ TasksOK' /\ i \in Points \ Done /\ t \in Busy
      /\ \A u \in Threads \ {t} : task'[u] = task[u]
      /\ Busy' = Busy \ {t} /\ Done' = Done \union {i}
      /\ HasRead(i, task[t].left) = Neighbours(i)
  BY <1>1, <1>2, Ended
<1>4. /\ IsArray(temp') /\ IsArray(boundary') /\ IsArray(color')
      /\ temp'[i] = Moved(in, i, task[t].got, position[i])
      /\ boundary'[i] = Marked(in, i, task[t].got, boundary[i])
      /\ color'[i] = Reddened(in, i, task[t].got, position[i], color[i])
      /\ \A k \in Points \ {i} : /\ temp'[k] = temp[k]
                                 /\ boundary'[k] = boundary[k]
                                 /\ color'[k] = color[k]
  BY <1>1, <1>3, Arrays DEF IsArray
<1>5. LoopTypeOK'
  <2> HIDE DEF LoopInv
  <2> QED
    BY <1>1, <1>4, Arrays, TypesKept DEF LoopInv
<1>6. SmoothingOK'
  <2>1. task[t].got = got(i)
    <3>1. HasRead(i, task[t].left) = Near(position, i)
      BY <1>1, <1>3 DEF Neighbours
    <3> QED
      BY <1>1, <1>3, <3>1 DEF SmoothingOK
  <2>2. boundary[i] = in.boundary[i] /\ color[i] = in.color[i]
    BY <1>1, <1>3 DEF SmoothingOK
  <2>3. \A u \in Busy' :
          task'[u].got = Values(position', HasRead(task[u].at, task[u].left)')
    BY <1>1, <1>3 DEF SmoothingOK, HasRead, Neighbours, Busy
  <2>4. \A k \in Points \ Done' :
          boundary'[k] = in.boundary[k] /\ color'[k] = in.color[k]
    BY <1>1, <1>3, <1>4 DEF SmoothingOK
  <2>5. \A k \in Done' :
          /\ temp'[k] = Moved(in, k, got(k), position[k])
          /\ boundary'[k] = Marked(in, k, got(k), in.boundary[k])
          /\ color'[k] = Reddened(in, k, got(k), position[k], in.color[k])
    <3>1. \A k \in Done : k \in Points \ {i}
      BY <1>3 DEF Done
    <3>2. \A k \in Done :
            /\ temp[k] = Moved(in, k, got(k), position[k])
            /\ boundary[k] = Marked(in, k, got(k), in.boundary[k])
            /\ color[k] = Reddened(in, k, got(k), position[k], in.color[k])
      BY <1>1 DEF SmoothingOK
    <3> HIDE DEF LoopInv, PartialResults, got
    <3> QED
      BY <1>3, <1>4, <2>1, <2>2, <3>1, <3>2
  <2> QED
    BY <1>1, <2>3, <2>4, <2>5 DEF SmoothingOK, Near
<1> QED
  BY <1>1, <1>3, <1>5, <1>6 DEF SegmentsOK, ColorsOK, RoundLeft

LEMMA MovePointKeeps ==
  ASSUME LoopInv, NEW t \in Threads, MovePoint(t)
  PROVE  LoopInv'
<1> USE DEF LoopInv, PartialResults
<1> DEFINE i == task[t].at
<1>1. /\ loop = "move" /\ loop \in Loops /\ Ending(t, "move")
      /\ position' = [position EXCEPT ![i] = temp[i]]
      /\ UNCHANGED <<in, round, partition, boundary, color, loop, todo,
                     tempPartition, scoresSmooth, temp>>
  BY DEF MovePoint, Ending, Loops
<1>2. \A j \in Points : Neighbours(j)' = Neighbours(j)
  BY <1>1 DEF Neighbours
<1>3. /\ TasksOK' /\ i \in Points \ Done
      /\ Done' = Done \union {i}
  BY <1>1, <1>2, Ended
<1>4. /\ IsArray(position') /\ position'[i] = temp[i]
      /\ \A j \in Points \ {i} : position'[j] = position[j]
  BY <1>1, <1>3, Arrays DEF IsArray
<1>5. LoopTypeOK'
  <2> HIDE DEF LoopInv
  <2> QED
    BY <1>1, <1>4, Arrays, TypesKept DEF LoopInv
<1>6. SmoothingOK'
  BY <1>1, <1>3, <1>4 DEF SmoothingOK, Done
<1> QED
  BY <1>1, <1>3, <1>5, <1>6 DEF SegmentsOK, ColorsOK, RoundLeft

LEMMA BlendColorKeeps ==
  ASSUME LoopInv, NEW t \in Threads, NEW name \in {"presmooth", "color"},
         BlendColor(t, name)
  PROVE  LoopInv'
<1> USE DEF LoopInv, PartialResults
<1> DEFINE i == task[t].at
           got(k) == Values(color, Seen(name, position, boundary, k))
<1>1. /\ loop = name /\ loop \in Loops /\ Ending(t, name)
      /\ temp' = [temp EXCEPT ![i] =
                    Blended(in, name, i, task[t].got, color[i])]
      /\ UNCHANGED <<in, round, partition, position, boundary, color, loop,
                     todo, tempPartition, scoresSmooth>>
  BY DEF BlendColor, Ending, Loops
<1>2. \A j \in Points : Neighbours(j)' = Neighbours(j)
  BY <1>1 DEF Neighbours, Seen, Near
<1>3. /\ TasksOK' /\ i \in Points \ Done /\ t \in Busy
      /\ \A u \in Threads \ {t} : task'[u] = task[u]
      /\ Busy' = Busy \ {t} /\ Done' = Done \union {i}
      /\ HasRead(i, task[t].left) = Neighbours(i)
  BY <1>1, <1>2, Ended
<1>4. /\ IsArray(temp')
      /\ temp'[i] = Blended(in, name, i, task[t].got, color[i])
      /\ \A k \in Points \ {i} : temp'[k] = temp[k]
  BY <1>1, <1>3, Arrays DEF IsArray
<1>5. LoopTypeOK'
  <2> HIDE DEF LoopInv
  <2> QED
    BY <1>1, <1>4, Arrays, TypesKept DEF LoopInv
<1>6. ColorsOK'
  <2>1. task[t].got = got(i)
    <3>1. HasRead(i, task[t].left) = Seen(name, position, boundary, i)
      BY <1>1, <1>3 DEF Neighbours
    <3> QED
      BY <1>1, <1>3, <3>1 DEF ColorsOK
  <2>2. \A u \in Busy' :
          task'[u].got = Values(color', HasRead(task[u].at, task[u].left)')
    BY <1>1, <1>3 DEF ColorsOK, HasRead, Neighbours, Busy, Seen, Near
  <2>3. \A k \in Done' : temp'[k] = Blended(in, name, k, got(k), color[k])
    <3>1. \A k \in Done : k \in Points \ {i}
      BY <1>3 DEF Done
    <3>2. \A k \in Done : temp[k] = Blended(in, name, k, got(k), color[k])
      BY <1>1 DEF ColorsOK
    <3> HIDE DEF LoopInv, PartialResults, got
    <3> QED
      BY <1>3, <1>4, <2>1, <3>1, <3>2
  <2> QED
    BY <1>1, <2>2, <2>3 DEF ColorsOK, Seen, Near
<1> QED
  BY <1>1, <1>3, <1>5, <1>6 DEF SegmentsOK, SmoothingOK, RoundLeft

LEMMA PaintPointKeeps ==
  ASSUME LoopInv, NEW t \in Threads, NEW name \in {"repaint", "paint"},
         PaintPoint(t, name)
  PROVE  LoopInv'
<1> USE DEF LoopInv, PartialResults
<1> DEFINE i == task[t].at
<1>1. /\ loop = name /\ loop \in Loops /\ Ending(t, name)
      /\ color' = [color EXCEPT ![i] = temp[i]]
      /\ UNCHANGED <<in, round, partition, position, boundary, loop, todo,
                     tempPartition, scoresSmooth, temp>>
  BY DEF PaintPoint, Ending, Loops
<1>2. \A j \in Points : Neighbours(j)' = Neighbours(j)
  BY <1>1 DEF Neighbours
<1>3. /\ TasksOK' /\ i \in Points \ Done
      /\ Done' = Done \union {i}
  BY <1>1, <1>2, Ended
<1>4. /\ IsArray(color') /\ color'[i] = temp[i]
      /\ \A j \in Points \ {i} : color'[j] = color[j]
  BY <1>1, <1>3, Arrays DEF IsArray
<1>5. LoopTypeOK'
  <2> HIDE DEF LoopInv
  <2> QED
    BY <1>1, <1>4, Arrays, TypesKept DEF LoopInv
<1>6. ColorsOK'
  BY <1>1, <1>3, <1>4 DEF ColorsOK, Done
<1> QED
  BY <1>1, <1>3, <1>5, <1>6 DEF SegmentsOK, SmoothingOK, RoundLeft

-----------------------------------------------------------------------------
(***************************************************************************)
(* Between the loops.                                                      *)
(***************************************************************************)
\* Where a loop ends: everybody is done, and the next one has everything to do.
LEMMA Barrier ==
  ASSUME NEW from, NEW to, AllDone(from, to)
  PROVE  /\ loop = from /\ loop' = to
         /\ Busy = {} /\ Done = Points
         /\ TasksOK' /\ Busy' = {} /\ Done' = {}
         /\ todo' = Points
<1>1. /\ loop = from /\ loop' = to /\ todo = {} /\ todo' = Points
      /\ task = NoTasks /\ task' = NoTasks
  BY DEF AllDone
<1>2. /\ Busy = {} /\ Done = Points
  BY <1>1, AtRest
<1>3. \A t \in Threads : task'[t] = Idle
  BY <1>1 DEF NoTasks
<1>4. Busy' = {} /\ Done' = {}
  BY <1>1, <1>3 DEF Busy, Idle, Done
<1> QED
  BY <1>1, <1>2, <1>4, RestTasks

LEMMA EndPassKeeps ==
  ASSUME LoopInv, NEW from \in Loops, NEW to, EndPass(from, to),
         << from, to >> \in {<<"initial", "refine">>, <<"count", "choose">>,
           <<"smooth", "move">>, <<"move", AfterSmooth(in)>>,
           <<"presmooth", "repaint">>, <<"repaint", "decode">>,
           <<"color", "paint">>, <<"paint", "done">>}
  PROVE  LoopInv'
<1> USE DEF LoopInv, PartialResults
<1>1. /\ loop = from /\ loop' = to
      /\ Busy = {} /\ Done = Points
      /\ TasksOK' /\ Busy' = {} /\ Done' = {} /\ todo' = Points
  <2>1. AllDone(from, to)
    BY DEF EndPass
  <2> HIDE DEF LoopInv, PartialResults
  <2> QED
    BY <2>1, Barrier
<1>2. UNCHANGED <<in, round, partition, position, boundary, color,
                  tempPartition, scoresSmooth, temp>>
  BY DEF EndPass
<1>3. to \in Loops \union {"refine", "transfer", "decode", "done"}
  BY DEF Loops, AfterSmooth
<1>4. LoopTypeOK'
  BY <1>1, <1>2, <1>3 DEF LoopTypeOK
<1>5. SegmentsOK'
  <2>1. to \in {"initial", "count"} => FALSE
    BY DEF AfterSmooth
  <2>2. CASE to = "choose"
    <3>1. from = "count"
      BY <2>2 DEF AfterSmooth
    <3> QED
      BY <1>1, <1>2, <2>2, <3>1 DEF SegmentsOK, Counts
  <2> QED
    BY <1>1, <2>1, <2>2 DEF SegmentsOK
<1>6. SmoothingOK'
  <2>1. to = "smooth" => FALSE
    BY DEF AfterSmooth
  <2>2. to \in {"initial", "refine", "count", "choose"} =>
          from \in {"initial", "count"}
    BY DEF AfterSmooth
  <2> QED
    BY <1>1, <1>2, <2>1, <2>2 DEF SmoothingOK
<1>7. ColorsOK'
  <2>1. to \in {"presmooth", "color"} => FALSE
    BY DEF AfterSmooth
  <2> QED
    BY <1>1, <2>1 DEF ColorsOK
<1>8. RoundLeft'
  <2>1. to = "choose" => from = "count"
    BY DEF AfterSmooth
  <2>2. to # "count"
    BY DEF AfterSmooth
  <2> QED
    BY <1>1, <1>2, <2>1, <2>2 DEF RoundLeft
<1> QED
  BY <1>1, <1>4, <1>5, <1>6, <1>7, <1>8

\* A step between two loops that only names the next one, or gives an array.
LEMMA AtRestOutside ==
  ASSUME TasksOK, loop \notin Loops, UNCHANGED <<todo, task>>
  PROVE  TasksOK' /\ Busy' = {} /\ Done' = {} /\ todo' = Points
<1>1. todo' = Points /\ task' = NoTasks
  BY DEF TasksOK
<1>2. \A t \in Threads : task'[t] = Idle
  BY <1>1 DEF NoTasks
<1>3. Busy' = {} /\ Done' = {}
  BY <1>1, <1>2 DEF Busy, Idle, Done
<1> QED
  BY <1>1, <1>3, RestTasks

LEMMA IterateKeeps == LoopInv /\ Iterate => LoopInv'
<1> SUFFICES ASSUME LoopInv, Iterate PROVE LoopInv'
  OBVIOUS
<1> USE DEF LoopInv, PartialResults
<1>1. /\ loop = "refine" /\ loop' = "count" /\ round < Iterations
      /\ UNCHANGED <<in, round, partition, position, boundary, color, todo,
                     task, tempPartition, scoresSmooth, temp>>
  BY DEF Iterate
<1>2. TasksOK' /\ Busy' = {} /\ Done' = {} /\ todo' = Points
  BY <1>1, AtRestOutside DEF Loops
<1>3. LoopTypeOK'
  BY <1>1 DEF LoopTypeOK, Loops
<1>4. SegmentsOK' /\ SmoothingOK' /\ ColorsOK' /\ RoundLeft'
  BY <1>1, <1>2 DEF SegmentsOK, SmoothingOK, ColorsOK, RoundLeft
<1> QED
  BY <1>2, <1>3, <1>4

LEMMA SwapPartitionsKeeps == LoopInv /\ SwapPartitions => LoopInv'
<1> SUFFICES ASSUME LoopInv, SwapPartitions PROVE LoopInv'
  OBVIOUS
<1> USE DEF LoopInv, PartialResults
<1>1. /\ loop = "choose" /\ loop' = "refine"
      /\ TasksOK' /\ todo' = Points
  <2>1. AllDone("choose", "refine")
    BY DEF SwapPartitions
  <2> HIDE DEF LoopInv, PartialResults
  <2> QED
    BY <2>1, Barrier
<1>2. /\ partition' = tempPartition /\ tempPartition' = partition
      /\ round' = round + 1
      /\ UNCHANGED <<in, position, boundary, color, scoresSmooth, temp>>
  BY DEF SwapPartitions
<1>3. round' \in 0 .. Iterations
  BY <1>1, <1>2, LoopAssumption DEF LoopTypeOK, RoundLeft
<1>4. \A a \in {partition, position, boundary, color, tempPartition, temp}' :
        IsArray(a)
  BY <1>2 DEF LoopTypeOK
<1>5. LoopTypeOK'
  BY <1>1, <1>2, <1>3, <1>4 DEF LoopTypeOK
<1>6. SegmentsOK' /\ SmoothingOK' /\ ColorsOK' /\ RoundLeft'
  BY <1>1, <1>2 DEF SegmentsOK, SmoothingOK, ColorsOK, RoundLeft
<1> QED
  BY <1>1, <1>5, <1>6

LEMMA RebuildKeeps == LoopInv /\ Rebuild => LoopInv'
<1> SUFFICES ASSUME LoopInv, Rebuild PROVE LoopInv'
  OBVIOUS
<1> USE DEF LoopInv, PartialResults
<1>1. /\ loop = "refine" /\ loop' = "smooth"
      /\ UNCHANGED <<in, round, partition, position, boundary, color, todo,
                     task, tempPartition, scoresSmooth, temp>>
  BY DEF Rebuild
<1>2. TasksOK' /\ Busy' = {} /\ Done' = {} /\ todo' = Points
  BY <1>1, AtRestOutside DEF Loops
<1>3. LoopTypeOK'
  BY <1>1 DEF LoopTypeOK, Loops
<1>4. SegmentsOK' /\ SmoothingOK' /\ ColorsOK' /\ RoundLeft'
  BY <1>1, <1>2 DEF SegmentsOK, SmoothingOK, ColorsOK, RoundLeft
<1> QED
  BY <1>2, <1>3, <1>4

LEMMA RecolorKeeps ==
  ASSUME LoopInv, NEW from, NEW given, NEW to, Recolor(from, given, to),
         << from, given, to >> \in {<<"transfer", in.transferred, "presmooth">>,
                                    <<"decode", in.decoded, "color">>}
  PROVE  LoopInv'
<1> USE DEF LoopInv, PartialResults
<1>1. /\ loop = from /\ loop' = to /\ color' = given /\ temp' = given
      /\ UNCHANGED <<in, round, partition, position, boundary, todo, task,
                     tempPartition, scoresSmooth>>
  BY DEF Recolor
<1>2. TasksOK' /\ Busy' = {} /\ Done' = {} /\ todo' = Points
  BY <1>1, AtRestOutside DEF Loops
<1>3. IsArray(given)
  <2>1. in \in Inputs
    BY DEF LoopTypeOK
  <2> QED
    BY <2>1, InputArrays
<1>4. \A a \in {partition, position, boundary, color, tempPartition, temp}' :
        IsArray(a)
  BY <1>1, <1>3 DEF LoopTypeOK
<1>5. LoopTypeOK'
  BY <1>1, <1>4 DEF LoopTypeOK, Loops
<1>6. SegmentsOK' /\ SmoothingOK' /\ ColorsOK' /\ RoundLeft'
  BY <1>1, <1>2 DEF SegmentsOK, SmoothingOK, ColorsOK, RoundLeft
<1> QED
  BY <1>2, <1>5, <1>6

LEMMA InitLoopInv == Init => LoopInv
<1> SUFFICES ASSUME Init PROVE LoopInv
  OBVIOUS
<1>1. /\ IsArray(in.position) /\ IsArray(in.boundary) /\ IsArray(in.color)
  BY InputArrays DEF Init
<1>2. IsArray(partition) /\ IsArray(tempPartition) /\ IsArray(temp)
  BY DEF Init, IsArray
<1>3. \A a \in {partition, position, boundary, color, tempPartition, temp} :
        IsArray(a)
  BY <1>1, <1>2 DEF Init
<1>4. scoresSmooth \in [Points -> [Orients -> Nat]]
  BY DEF Init, NoScores
<1>5. loop \in {"initial", "smooth"}
  BY DEF Init, FirstPass
<1>6. LoopTypeOK
  BY <1>3, <1>4, <1>5, LoopAssumption DEF Init, LoopTypeOK, Loops
<1>7. Busy = {} /\ Done = {}
  BY AtRest DEF Init
<1>8. TasksOK
  BY <1>7 DEF Init, TasksOK, NoTasks, Idle
<1>9. SegmentsOK /\ SmoothingOK /\ ColorsOK /\ RoundLeft
  BY <1>5, <1>7 DEF Init, SegmentsOK, SmoothingOK, ColorsOK, RoundLeft
<1> QED
  BY <1>6, <1>8, <1>9 DEF LoopInv, PartialResults

-----------------------------------------------------------------------------
(***************************************************************************)
(* The theorems.                                                           *)
(***************************************************************************)
LEMMA BodyKeeps == ASSUME LoopInv, NEW t \in Threads, Body(t) PROVE LoopInv'
<1>1. CASE Take(t)
  BY <1>1, TakeKeeps
<1>2. CASE CountNeighbour(t)
  BY <1>2, CountNeighbourKeeps
<1>3. CASE ReadNeighbour(t)
  BY <1>3, ReadNeighbourKeeps
<1>4. CASE StartPartition(t)
  BY <1>4, StartPartitionKeeps
<1>5. CASE EndCount(t)
  BY <1>5, EndCountKeeps
<1>6. CASE Choose(t)
  BY <1>6, ChooseKeeps
<1>7. CASE SmoothPoint(t)
  BY <1>7, SmoothPointKeeps
<1>8. CASE MovePoint(t)
  BY <1>8, MovePointKeeps
<1>9. CASE BlendColor(t, "presmooth") \/ BlendColor(t, "color")
  BY <1>9, BlendColorKeeps
<1>10. CASE PaintPoint(t, "repaint") \/ PaintPoint(t, "paint")
  BY <1>10, PaintPointKeeps
<1> QED
  BY <1>1, <1>2, <1>3, <1>4, <1>5, <1>6, <1>7, <1>8, <1>9, <1>10 DEF Body

LEMMA BetweenKeeps == ASSUME LoopInv, Between PROVE LoopInv'
<1>1. CASE \/ EndPass("initial", "refine") \/ EndPass("count", "choose")
           \/ EndPass("smooth", "move") \/ EndPass("move", AfterSmooth(in))
           \/ EndPass("presmooth", "repaint") \/ EndPass("repaint", "decode")
           \/ EndPass("color", "paint") \/ EndPass("paint", "done")
  BY <1>1, EndPassKeeps DEF Loops
<1>2. CASE Iterate
  BY <1>2, IterateKeeps
<1>3. CASE SwapPartitions
  BY <1>3, SwapPartitionsKeeps
<1>4. CASE Rebuild
  BY <1>4, RebuildKeeps
<1>5. CASE \/ Recolor("transfer", in.transferred, "presmooth")
           \/ Recolor("decode", in.decoded, "color")
  BY <1>5, RecolorKeeps
<1> QED
  BY <1>1, <1>2, <1>3, <1>4, <1>5 DEF Between

LEMMA StandsStill == ASSUME LoopInv, UNCHANGED vars PROVE LoopInv'
<1>1. LoopTypeOK' /\ RoundLeft'
  BY DEF LoopInv, PartialResults, LoopTypeOK, RoundLeft, vars
<1>2. Busy' = Busy /\ Done' = Done
  BY DEF Busy, Done, vars
<1>3. TasksOK'
  BY <1>2 DEF LoopInv, PartialResults, TasksOK, vars, Neighbours, Seen, Near
<1>4. SegmentsOK'
  BY <1>2 DEF LoopInv, PartialResults, SegmentsOK, vars, HasRead, Neighbours,
              Seen, Near
<1>5. SmoothingOK'
  BY <1>2 DEF LoopInv, PartialResults, SmoothingOK, vars, HasRead, Neighbours,
              Seen, Near
<1>6. ColorsOK'
  BY <1>2 DEF LoopInv, PartialResults, ColorsOK, vars, HasRead, Neighbours,
              Seen, Near
<1> QED
  BY <1>1, <1>3, <1>4, <1>5, <1>6 DEF LoopInv, PartialResults

LEMMA NextKeeps == LoopInv /\ [Next]_vars => LoopInv'
<1> SUFFICES ASSUME LoopInv, [Next]_vars PROVE LoopInv'
  OBVIOUS
<1>1. CASE \E t \in Threads : Body(t)
  BY <1>1, BodyKeeps
<1>2. CASE Between
  BY <1>2, BetweenKeeps
<1>3. CASE Terminated \/ UNCHANGED vars
  BY <1>3, StandsStill DEF Terminated
<1> QED
  BY <1>1, <1>2, <1>3 DEF Next

LEMMA LoopInvAlways == Spec => []LoopInv
  BY InitLoopInv, NextKeeps, PTL DEF Spec

\* At every point of every loop, whatever the number of points and threads,
\* what is done and what is read is of the pass before
\* (PCCPatchSegmenter.cpp, PCCCodec.cpp: the bodies of the parallel loops).
THEOREM PartialResultsHold == Spec => []PartialResults
<1>1. LoopInv => PartialResults
  BY DEF LoopInv
<1> QED
  BY <1>1, LoopInvAlways, PTL

-----------------------------------------------------------------------------
(***************************************************************************)
(* The loops implement the passes.  The operators of PassByPass are those  *)
(* of LoopBodies.                                                          *)
(***************************************************************************)
LEMMA SameCardinality ==
  ASSUME NEW S PROVE Abstract!Cardinality(S) = Cardinality(S)
  BY DEF Abstract!Cardinality, Cardinality

LEMMA SameSums ==
  ASSUME NEW got
  PROVE  Abstract!Sum(got) = Sum(got) /\ Abstract!Mean(got) = Mean(got)
<1>1. Abstract!Sum(got) = Sum(got)
  BY DEF Abstract!Sum, Sum, Abstract!MapThenSumSet, MapThenSumSet,
         Abstract!MapThenFoldSet, MapThenFoldSet
<1> QED
  BY <1>1, SameCardinality DEF Abstract!Mean, Mean

LEMMA SameSegmentation ==
  ASSUME NEW x, NEW part, NEW i, NEW old, NEW counts
  PROVE  /\ Abstract!First(x, i) = First(x, i)
         /\ Abstract!Counts(x, part, i) = Counts(x, part, i)
         /\ Abstract!Choice(x, i, old, counts) = Choice(x, i, old, counts)
<1>1. Abstract!First(x, i) = First(x, i)
  BY DEF Abstract!First, First, Abstract!LeastOf, LeastOf
<1>2. Abstract!Counts(x, part, i) = Counts(x, part, i)
  BY SameCardinality DEF Abstract!Counts, Counts
<1>3. Abstract!Choice(x, i, old, counts) = Choice(x, i, old, counts)
  BY DEF Abstract!Choice, Choice, Abstract!LeastOf, LeastOf
<1> QED
  BY <1>1, <1>2, <1>3

LEMMA SameSmoothing ==
  ASSUME NEW x, NEW i, NEW got, NEW old, NEW col
  PROVE  /\ Abstract!Moved(x, i, got, old) = Moved(x, i, got, old)
         /\ Abstract!Marked(x, i, got, old) = Marked(x, i, got, old)
         /\ Abstract!Reddened(x, i, got, old, col) = Reddened(x, i, got, old, col)
<1>1. \A near : Abstract!OtherPatch(x, near, i) <=> OtherPatch(x, near, i)
  BY DEF Abstract!OtherPatch, OtherPatch
<1>2. Abstract!Far(got, old) <=> Far(got, old)
  BY SameSums, SameCardinality DEF Abstract!Far, Far
<1>3. Abstract!Moves(x, i, got, old) <=> Moves(x, i, got, old)
  BY <1>1, <1>2 DEF Abstract!Moves, Moves
<1> QED
  BY <1>1, <1>3, SameSums DEF Abstract!Moved, Moved, Abstract!Marked, Marked,
                             Abstract!Reddened, Reddened

LEMMA SameNear ==
  ASSUME NEW pos, NEW i PROVE Abstract!Near(pos, i) = Near(pos, i)
  BY DEF Abstract!Near, Near, Abstract!Dist, Dist

LEMMA SameValues ==
  ASSUME NEW a, NEW S PROVE Abstract!Values(a, S) = Values(a, S)
  BY DEF Abstract!Values, Values

LEMMA SameBlending ==
  ASSUME NEW x, NEW stage, NEW i, NEW got, NEW old
  PROVE  Abstract!Blended(x, stage, i, got, old) = Blended(x, stage, i, got, old)
  BY SameSums, SameCardinality
     DEF Abstract!Blended, Blended, Abstract!OtherPatch, OtherPatch,
         Abstract!Dist, Dist

LEMMA SameSeen ==
  ASSUME NEW stage, NEW pos, NEW bound, NEW i
  PROVE  Abstract!Seen(stage, pos, bound, i) = Seen(stage, pos, bound, i)
  BY SameNear DEF Abstract!Seen, Seen, Abstract!Wanted, Wanted

LEMMA InitImplements == Init => Abstract!Init
<1> SUFFICES ASSUME Init PROVE Abstract!Init
  OBVIOUS
<1>1. loop = FirstPass(in) /\ loop \in {"initial", "smooth"}
  BY DEF Init, FirstPass
<1>2. PassOf = loop
  BY <1>1 DEF PassOf
<1>3. Abstract!FirstPass(in) = FirstPass(in)
  BY DEF Abstract!FirstPass, FirstPass
<1> QED
  BY <1>1, <1>2, <1>3 DEF Init, Abstract!Init, Unsegmented

\* Inside a loop nothing visible changes: what a body writes is hidden until
\* its pass is done, or is there already.
LEMMA BodyHidden ==
  ASSUME LoopInv, NEW t \in Threads, Body(t)
  PROVE  UNCHANGED Abstract!vars
<1>1. UNCHANGED <<in, round, loop>>
  BY DEF Body, Take, CountNeighbour, ReadNeighbour, StartPartition, EndCount,
         Choose, SmoothPoint, MovePoint, BlendColor, PaintPoint
<1>2. PassOf' = PassOf
  BY <1>1 DEF PassOf
<1>3. loop # "initial" => partition' = partition
  BY DEF Body, Take, CountNeighbour, ReadNeighbour, StartPartition, EndCount,
         Choose, SmoothPoint, MovePoint, BlendColor, PaintPoint, Ending
<1>4. /\ loop # "move" => position' = position
      /\ loop = "move" => temp' = temp
  BY DEF Body, Take, CountNeighbour, ReadNeighbour, StartPartition, EndCount,
         Choose, SmoothPoint, MovePoint, BlendColor, PaintPoint, Ending
<1>5. loop # "smooth" => boundary' = boundary
  BY DEF Body, Take, CountNeighbour, ReadNeighbour, StartPartition, EndCount,
         Choose, SmoothPoint, MovePoint, BlendColor, PaintPoint, Ending
<1>6. /\ loop \notin {"smooth", "repaint", "paint"} => color' = color
      /\ loop \in {"repaint", "paint"} => temp' = temp
  BY DEF Body, Take, CountNeighbour, ReadNeighbour, StartPartition, EndCount,
         Choose, SmoothPoint, MovePoint, BlendColor, PaintPoint, Ending
<1> QED
  BY <1>1, <1>2, <1>3, <1>4, <1>5, <1>6 DEF Abstract!vars, Unsegmented

\* The end of the loop over the normals is the first segmentation.
LEMMA SegmentImplements ==
  ASSUME LoopInv, EndPass("initial", "refine") PROVE Abstract!Segment
<1>1. /\ loop = "initial" /\ loop' = "refine" /\ Done = Points
  BY Barrier DEF EndPass
<1>2. UNCHANGED <<in, round, partition, position, boundary, color, temp>>
  BY DEF EndPass
<1>3. partition = [i \in Points |-> First(in, i)]
  <2>1. \A i \in Points : partition[i] = First(in, i)
    BY <1>1 DEF LoopInv, PartialResults, SegmentsOK
  <2>2. partition = [i \in Points |-> partition[i]]
    BY Arrays DEF LoopInv, PartialResults, IsArray
  <2> QED
    BY <2>1, <2>2
<1>4. PassOf = "initial" /\ PassOf' = "refine"
  BY <1>1 DEF PassOf
<1> QED
  BY <1>1, <1>2, <1>3, <1>4, SameSegmentation DEF Abstract!Segment

\* The exchange of the arrays after the second loop is one refinement.
LEMMA RefineImplements ==
  ASSUME LoopInv, SwapPartitions PROVE Abstract!Refine
<1>1. /\ loop = "choose" /\ loop' = "refine" /\ Done = Points
  BY Barrier DEF SwapPartitions
<1>2. /\ partition' = tempPartition /\ round' = round + 1
      /\ UNCHANGED <<in, position, boundary, color, temp>>
  BY DEF SwapPartitions
<1>3. tempPartition = [i \in Points |->
        Choice(in, i, partition[i], Counts(in, partition, i))]
  <2>1. \A i \in Points :
          tempPartition[i]
                = Choice(in, i, partition[i], Counts(in, partition, i))
    BY <1>1 DEF LoopInv, PartialResults, SegmentsOK
  <2>2. tempPartition = [i \in Points |-> tempPartition[i]]
    BY Arrays DEF LoopInv, PartialResults, IsArray
  <2> QED
    BY <2>1, <2>2
<1>4. PassOf = "refine" /\ PassOf' = "refine"
  BY <1>1 DEF PassOf
<1>5. round < Iterations
  BY <1>1 DEF LoopInv, RoundLeft
<1> QED
  BY <1>1, <1>2, <1>3, <1>4, <1>5, SameSegmentation DEF Abstract!Refine

\* The end of the loop that smooths is the whole pass; the loop that moves the
\* points only makes it visible.
LEMMA SmoothImplements ==
  ASSUME LoopInv, EndPass("smooth", "move") PROVE Abstract!Smooth
<1> DEFINE got(i) == Values(position, Near(position, i))
<1>1. /\ loop = "smooth" /\ loop' = "move" /\ Done = Points
  BY Barrier DEF EndPass
<1>2. UNCHANGED <<in, round, partition, position, boundary, color, temp>>
  BY DEF EndPass
<1>3. /\ temp = [i \in Points |-> Moved(in, i, got(i), position[i])]
      /\ boundary = [i \in Points |-> Marked(in, i, got(i), in.boundary[i])]
      /\ color = [i \in Points |->
                    Reddened(in, i, got(i), position[i], in.color[i])]
  <2>1. \A i \in Points :
          /\ temp[i] = Moved(in, i, got(i), position[i])
          /\ boundary[i] = Marked(in, i, got(i), in.boundary[i])
          /\ color[i] = Reddened(in, i, got(i), position[i], in.color[i])
    BY <1>1 DEF LoopInv, PartialResults, SmoothingOK
  <2>2. /\ temp = [i \in Points |-> temp[i]]
        /\ boundary = [i \in Points |-> boundary[i]]
        /\ color = [i \in Points |-> color[i]]
    BY Arrays DEF LoopInv, PartialResults, IsArray
  <2> HIDE DEF got
  <2> QED
    BY <2>1, <2>2
<1>4. PassOf = "smooth" /\ PassOf' = Abstract!AfterSmooth(in)
  BY <1>1, <1>2 DEF PassOf, AfterSmooth, Abstract!AfterSmooth
<1>5. /\ temp = [i \in Points |-> Abstract!Moved(in, i, got(i), position[i])]
      /\ boundary = [i \in Points |->
                       Abstract!Marked(in, i, got(i), in.boundary[i])]
      /\ color = [i \in Points |->
                    Abstract!Reddened(in, i, got(i), position[i], in.color[i])]
  <2>1. \A i \in Points :
          /\ Moved(in, i, got(i), position[i])
               = Abstract!Moved(in, i, got(i), position[i])
          /\ Marked(in, i, got(i), in.boundary[i])
               = Abstract!Marked(in, i, got(i), in.boundary[i])
          /\ Reddened(in, i, got(i), position[i], in.color[i])
               = Abstract!Reddened(in, i, got(i), position[i], in.color[i])
    BY SameSmoothing
  <2> HIDE DEF got
  <2> QED
    BY <1>3, <2>1
<1>6. \A i \in Points : Abstract!Values(position, Abstract!Near(position, i)) = got(i)
  BY SameNear, SameValues
<1>7. [i \in Points |-> Abstract!Values(position, Abstract!Near(position, i))]
        = [i \in Points |-> got(i)]
  <2> HIDE DEF got
  <2> QED
    BY <1>6
<1> HIDE DEF got
<1> QED
  BY <1>1, <1>2, <1>4, <1>5, <1>7 DEF Abstract!Smooth

LEMMA SmoothColorImplements ==
  ASSUME LoopInv, NEW from, NEW to, NEW pass, EndPass(from, to),
         << from, to, pass >> \in {<<"presmooth", "repaint", "decode">>,
                                   <<"color", "paint", "done">>}
  PROVE  Abstract!SmoothColor(from, pass)
<1> DEFINE got(i) == Values(color, Seen(from, position, boundary, i))
<1>1. /\ loop = from /\ loop' = to /\ Done = Points
  BY Barrier DEF EndPass
<1>2. UNCHANGED <<in, round, partition, position, boundary, color, temp>>
  BY DEF EndPass
<1>3. temp = [i \in Points |-> Blended(in, from, i, got(i), color[i])]
  <2>1. \A i \in Points : temp[i] = Blended(in, from, i, got(i), color[i])
    BY <1>1 DEF LoopInv, PartialResults, ColorsOK
  <2>2. temp = [i \in Points |-> temp[i]]
    BY Arrays DEF LoopInv, PartialResults, IsArray
  <2> HIDE DEF got
  <2> QED
    BY <2>1, <2>2
<1>4. PassOf = from /\ PassOf' = pass
  BY <1>1 DEF PassOf
<1>5. temp = [i \in Points |-> Abstract!Blended(in, from, i, got(i), color[i])]
  <2> HIDE DEF got
  <2> QED
    BY <1>3, SameBlending
<1>6. \A i \in Points :
        Abstract!Values(color, Abstract!Seen(from, position, boundary, i)) = got(i)
  BY SameSeen, SameValues
<1>7. temp = [i \in Points |->
                Abstract!Blended(in, from, i,
                  Abstract!Values(color, Abstract!Seen(from, position, boundary, i)),
                  color[i])]
  <2> HIDE DEF got
  <2> QED
    BY <1>5, <1>6
<1> HIDE DEF got
<1> QED
  BY <1>1, <1>2, <1>4, <1>7 DEF Abstract!SmoothColor

\* The loops that copy have nothing left to show when they end.
LEMMA CopyHidden ==
  ASSUME LoopInv, NEW from, NEW to, EndPass(from, to),
         << from, to >> \in {<<"count", "choose">>, <<"move", AfterSmooth(in)>>,
                             <<"repaint", "decode">>, <<"paint", "done">>}
  PROVE  UNCHANGED Abstract!vars
<1>1. /\ loop = from /\ loop' = to /\ Done = Points
  BY Barrier DEF EndPass
<1>2. UNCHANGED <<in, round, partition, position, boundary, color, temp>>
  BY DEF EndPass
<1>3. loop = "move" => position = temp
  <2>1. loop = "move" => \A i \in Points : position[i] = temp[i]
    BY <1>1 DEF LoopInv, PartialResults, SmoothingOK
  <2> QED
    BY <2>1, Arrays, SameArray DEF LoopInv, PartialResults
<1>4. loop \in {"repaint", "paint"} => color = temp
  <2>1. loop \in {"repaint", "paint"} => \A i \in Points : color[i] = temp[i]
    BY <1>1 DEF LoopInv, PartialResults, ColorsOK
  <2> QED
    BY <2>1, Arrays, SameArray DEF LoopInv, PartialResults
<1>5. PassOf' = PassOf
  BY <1>1, <1>2 DEF PassOf, AfterSmooth
<1> QED
  BY <1>1, <1>2, <1>3, <1>4, <1>5 DEF Abstract!vars, AfterSmooth, Unsegmented

LEMMA RecolorImplements ==
  ASSUME LoopInv, NEW from, NEW given, NEW to, Recolor(from, given, to),
         << from, to >> \in {<<"transfer", "presmooth">>, <<"decode", "color">>}
  PROVE  Abstract!Recolor(from, given, to)
<1>1. /\ loop = from /\ loop' = to /\ color' = given
      /\ UNCHANGED <<in, round, partition, position, boundary>>
  BY DEF Recolor
<1>2. PassOf = from /\ PassOf' = to
  BY <1>1 DEF PassOf
<1> QED
  BY <1>1, <1>2 DEF Abstract!Recolor

LEMMA BetweenImplements ==
  ASSUME LoopInv, Between
  PROVE  Abstract!Next \/ UNCHANGED Abstract!vars
<1>1. CASE EndPass("initial", "refine")
  BY <1>1, SegmentImplements DEF Abstract!Next
<1>2. CASE SwapPartitions
  BY <1>2, RefineImplements DEF Abstract!Next
<1>3. CASE EndPass("smooth", "move")
  BY <1>3, SmoothImplements DEF Abstract!Next
<1>4. CASE EndPass("presmooth", "repaint")
  BY <1>4, SmoothColorImplements DEF Abstract!Next
<1>5. CASE EndPass("color", "paint")
  BY <1>5, SmoothColorImplements DEF Abstract!Next
<1>6. CASE \/ EndPass("count", "choose") \/ EndPass("move", AfterSmooth(in))
           \/ EndPass("repaint", "decode") \/ EndPass("paint", "done")
  BY <1>6, CopyHidden
<1>7. CASE Iterate
  BY <1>7 DEF Iterate, Abstract!vars, PassOf, Unsegmented
<1>8. CASE Rebuild
  <2>1. /\ loop = "refine" /\ loop' = "smooth" /\ round = Iterations
        /\ UNCHANGED <<in, round, partition, position, boundary, color>>
    BY <1>8 DEF Rebuild
  <2>2. PassOf = "refine" /\ PassOf' = "smooth"
    BY <2>1 DEF PassOf
  <2>3. boundary = in.boundary /\ color = in.color
    BY <2>1 DEF LoopInv, PartialResults, SmoothingOK
  <2> QED
    BY <2>1, <2>2, <2>3 DEF Abstract!Rebuild, Abstract!Next
<1>9. CASE Recolor("transfer", in.transferred, "presmooth")
  BY <1>9, RecolorImplements DEF Abstract!Next
<1>10. CASE Recolor("decode", in.decoded, "color")
  BY <1>10, RecolorImplements DEF Abstract!Next
<1> QED
  BY <1>1, <1>2, <1>3, <1>4, <1>5, <1>6, <1>7, <1>8, <1>9, <1>10 DEF Between

\* Every step of the loops is a step of the passes or is hidden (the safety
\* part of ImplementsPasses): what a cloud becomes depends neither on the
\* number of threads nor on their order.
THEOREM LoopsArePasses == Spec => Abstract!Steps
<1>1. LoopInv /\ [Next]_vars => [Abstract!Next]_(Abstract!vars)
  <2> SUFFICES ASSUME LoopInv, [Next]_vars
               PROVE  Abstract!Next \/ UNCHANGED Abstract!vars
    OBVIOUS
  <2>1. CASE \E t \in Threads : Body(t)
    BY <2>1, BodyHidden
  <2>2. CASE Between
    BY <2>2, BetweenImplements
  <2>3. CASE Terminated \/ UNCHANGED vars
    BY <2>3 DEF Terminated, vars, Abstract!vars, PassOf, Unsegmented
  <2> QED
    BY <2>1, <2>2, <2>3 DEF Next
<1> QED
  BY <1>1, InitImplements, LoopInvAlways, PTL DEF Spec, Abstract!Steps
=============================================================================
