-------------------------------- MODULE BitIO --------------------------------
(***************************************************************************)
(* The bit buffer and the codes in it.  Fields of a few bits are ORed into *)
(* zeroed bytes; videos are copied at byte positions; the buffer grows     *)
(* when the next field comes close to its end, and reading checks nothing. *)
(* The writer writes the container header and a group of units, the reader *)
(* reads them back by the same syntax.                                     *)
(***************************************************************************)
EXTENDS Integers, Sequences, FiniteSetsExt, Bits

CONSTANTS
  Word,     \* bits of a uint32_t
  Page,     \* bytes the buffer grows by, 4096
  Margin,   \* bytes a field stays away from the end, 16
  Fields,   \* fields of the parameter set and of the patch data
  Videos,   \* sizes of videos and the positions of their bits that are 1
  MaxFields \* bound: fields of each of the two units

Item(code, n, v) == [code |-> code, n |-> n, v |-> v]

ASSUME BitAssumption ==
  /\ Word \in Nat /\ Word % 8 = 0 /\ Word > 0
  /\ Page \in Nat \ {0} /\ Margin \in Nat /\ MaxFields \in [{1, 2} -> Nat]
  /\ 2 * Page > Word
  /\ \A f \in Fields : /\ f.code \in {"u", "s", "ue", "se"}
                       /\ f.v \in Int
                       /\ f.n \in 0 .. Word
                       /\ f.code = "u" => f.v \in 0 .. Pow2[f.n] - 1
                       /\ f.code = "s" => /\ f.n > 0
                                          /\ f.v + Pow2[f.n - 1] \in 0 .. Pow2[f.n] - 1
                       /\ f.code = "ue" => f.v \in 0 .. Pow2[Word] - 2
                       /\ f.code = "se" => f.v + Pow2[Word - 1] \in 1 .. Pow2[Word] - 1
  /\ Videos \subseteq [size : 0 .. Pow2[Word] - 1, ones : SUBSET Nat]
  /\ \A w \in Videos : w.ones \subseteq 0 .. 8 * w.size - 1

VARIABLES
  data,    \* positions of the bits that are 1
  size,    \* of the buffer, bytes
  at,      \* position of the writer, bits
  sizeAt,  \* totalSizeIterator_
  unit,    \* index of the unit at work; 0 is the container header
  count,   \* items written of it
  written, \* items written in all
  readAt,  \* position of the reader, bits
  got      \* items read

vars == <<data, size, at, sizeAt, unit, count, written, readAt, got>>

Init ==
  /\ data = {} /\ size = 0 /\ at = 0 /\ sizeAt = 0
  /\ unit = 0 /\ count = 0
  /\ written = <<>>
  /\ readAt = 0 /\ got = <<>>

-----------------------------------------------------------------------------
(***************************************************************************)
(* Writing.  A buffer is its bits, its size and a position.                *)
(***************************************************************************)
Buffer == [data |-> data, size |-> size, at |-> at]

IsSet(v, k) == k < Word /\ (v \div Pow2[k]) % 2 = 1
Ones(p, v, n) == {p + i : i \in {i \in 0 .. n - 1 : IsSet(v, n - 1 - i)}}

\* The size of a field is compared in bytes although it counts bits.
Put(b, v, n) ==
  [data |-> b.data \union Ones(b.at, v, n),
   size |-> IF b.at \div 8 + n + Margin >= b.size THEN b.size + 2 * Page ELSE b.size,
   at |-> b.at + n]

PutS(b, v, n) ==
  Put(b, IF v >= 0 THEN v ELSE (v % Pow2[n - 1]) + Pow2[n - 1], n)

BitLength(v) == CHOOSE n \in 1 .. Word : Pow2[n - 1] <= v /\ v < Pow2[n]
PutUvlc(b, v) ==
  LET n == BitLength(v + 1) IN Put(Put(b, 0, n - 1), v + 1, n)
PutSvlc(b, v) == PutUvlc(b, IF v <= 0 THEN -2 * v ELSE 2 * v - 1)

ZerosToByte(b) ==
  IF b.at % 8 = 0 THEN b ELSE [Put(b, 0, 1) EXCEPT !.at = 8 * (b.at \div 8 + 1)]

\* A mistake: a position at the border of a byte takes no bit.
PutAlignmentIfNeeded(b) == IF b.at % 8 = 0 THEN b ELSE ZerosToByte(Put(b, 1, 1))

\* One 1, then zeros up to a byte.
PutAlignment(b) == ZerosToByte(Put(b, 1, 1))

\* A mistake: a buffer that holds whole pages only.
GrownPages(b, bytes) == [b EXCEPT !.size = @ + (bytes \div Page) * Page]

Grown(b, bytes) == [b EXCEPT !.size = @ + (bytes \div Page + 1) * Page]

\* The copy goes to the byte of the position and leaves its bits as they are.
PutVideo(b, w) ==
  LET sized == Put(Grown(b, w.size), w.size, Word)
      byte == 8 * (sized.at \div 8)
  IN  [data |-> (sized.data \ (byte .. byte + 8 * w.size - 1)) \union {byte + o : o \in w.ones},
       size |-> sized.size,
       at |-> sized.at + 8 * w.size]

PutItem(b, x) ==
  CASE x.code \in {"u", "size"} -> Put(b, x.v, x.n)
    [] x.code = "s" -> PutS(b, x.v, x.n)
    [] x.code = "ue" -> PutUvlc(b, x.v)
    [] x.code = "se" -> PutSvlc(b, x.v)
    [] x.code = "align" -> PutAlignment(b)
    [] x.code = "video" -> PutVideo(b, x.v)

Store(b) == data' = b.data /\ size' = b.size /\ at' = b.at

WriteItem(x) == Store(PutItem(Buffer, x)) /\ written' = Append(written, x)

-----------------------------------------------------------------------------
(***************************************************************************)
(* The container header, the units of a group, and the size of it all.     *)
(***************************************************************************)
Order == <<"SPS", "PDG", "OVD", "GVD", "AVD">>
VideoCounts == [OVD |-> {1}, GVD |-> 1 .. 3, AVD |-> 0 .. 2]
OfFields == unit \in {1, 2}
OfVideos == unit \in {3, 4, 5}
Closed == Len(Order) + 1

WriteHeader ==
  /\ unit = 0
  /\ LET major == Item("u", Word, 1)
         minor == Item("u", Word, 0)
         total == Item("size", 2 * Word, 0)
     IN  /\ Store(PutItem(PutItem(PutItem(Buffer, major), minor), total))
         /\ written' = <<major, minor, total>>
  /\ sizeAt' = 2 * Word
  /\ unit' = 1 /\ count' = 0
  /\ UNCHANGED <<readAt, got>>

\* A word whatever the type, which takes the first five bits.
WriteUnitHeader ==
  /\ OfFields \/ OfVideos
  /\ count = 0
  /\ WriteItem(Item("u", Word, (unit - 1) * Pow2[Word - 5]))
  /\ count' = 1
  /\ UNCHANGED <<sizeAt, unit, readAt, got>>

WriteField ==
  /\ OfFields
  /\ count \in 1 .. MaxFields[unit]
  /\ \E f \in Fields : WriteItem(f)
  /\ count' = count + 1
  /\ UNCHANGED <<sizeAt, unit, readAt, got>>

EndFields ==
  /\ OfFields
  /\ count > 0
  /\ WriteItem(Item("align", 0, 0))
  /\ unit' = unit + 1 /\ count' = 0
  /\ UNCHANGED <<sizeAt, readAt, got>>

WriteVideo ==
  /\ OfVideos
  /\ count > 0
  /\ \E n \in VideoCounts[Order[unit]] : count <= n
  /\ \E w \in Videos : WriteItem(Item("video", 0, w))
  /\ count' = count + 1
  /\ UNCHANGED <<sizeAt, unit, readAt, got>>

EndVideos ==
  /\ OfVideos
  /\ count - 1 \in VideoCounts[Order[unit]]
  /\ unit' = unit + 1 /\ count' = 0
  /\ UNCHANGED <<data, size, at, sizeAt, written, readAt, got>>

\* 64 bits of a 32 bit value: what a shift by more than its width leaves in
\* the upper half is undefined, nothing or the value again.
WriteSize ==
  /\ unit = Closed
  /\ \E upper \in {0, at \div 8} :
       data' = data \union Ones(sizeAt, upper, Word)
                    \union Ones(sizeAt + Word, at \div 8, Word)
  /\ size' = Put([Buffer EXCEPT !.at = sizeAt], 0, 2 * Word).size
  /\ unit' = unit + 1
  /\ UNCHANGED <<at, sizeAt, count, written, readAt, got>>

-----------------------------------------------------------------------------
(***************************************************************************)
(* Reading.  No one looks at the size of the stream.                       *)
(***************************************************************************)
Get(p, n) ==
  Value([i \in 1 .. n |-> IF p + i - 1 \in data THEN 1 ELSE 0])

GetS(p, n) ==
  LET code == Get(p, n) IN IF code < Pow2[n - 1] THEN code ELSE code - Pow2[n]

\* The zeros before the first 1.
Zeros(p) == IF p \in data THEN 0 ELSE Min({q \in data : q > p}) - p

GetUvlc(p) == Get(p + Zeros(p) + 1, Zeros(p)) + Pow2[Zeros(p)] - 1

GetSvlc(p) ==
  LET code == GetUvlc(p)
  IN  IF code % 2 = 1 THEN code \div 2 + 1 ELSE -(code \div 2)

GetVideo(p) ==
  LET n == Get(p, Word)
      byte == 8 * ((p + Word) \div 8)
  IN  [size |-> n, ones |-> {o \in 0 .. 8 * n - 1 : byte + o \in data}]

Read(code, n) ==
  CASE code = "u" -> [v |-> Get(readAt, n), at |-> readAt + n]
    [] code = "size" -> [v |-> 0, at |-> readAt + n]
    [] code = "s" -> [v |-> GetS(readAt, n), at |-> readAt + n]
    [] code = "ue" -> [v |-> GetUvlc(readAt), at |-> readAt + 2 * Zeros(readAt) + 1]
    [] code = "se" -> [v |-> GetSvlc(readAt), at |-> readAt + 2 * Zeros(readAt) + 1]
    [] code = "align" -> [v |-> 0, at |-> 8 * (readAt \div 8 + 1)]
    [] code = "video" -> [v |-> GetVideo(readAt),
                          at |-> readAt + Word + 8 * GetVideo(readAt).size]

ReadItem ==
  /\ unit > Closed
  /\ Len(got) < Len(written)
  /\ LET x == written[Len(got) + 1]
         r == Read(x.code, x.n)
     IN  got' = Append(got, r.v) /\ readAt' = r.at
  /\ UNCHANGED <<data, size, at, sizeAt, unit, count, written>>

Terminated == unit > Closed /\ Len(got) = Len(written) /\ UNCHANGED vars

Next ==
  \/ WriteHeader \/ WriteUnitHeader
  \/ WriteField \/ EndFields
  \/ WriteVideo \/ EndVideos
  \/ WriteSize
  \/ ReadItem
  \/ Terminated

Spec == Init /\ [][Next]_vars

-----------------------------------------------------------------------------
\* Nothing is written behind the end of the buffer, though a copied video may
\* leave fewer bytes behind it than it found: as few videos follow each other
\* as a unit has, the margin of the fields between them is enough.
InBuffer == at <= 8 * size /\ data \subseteq 0 .. at - 1

\* What is read is what was written, item by item and up to the last bit: no
\* field touches a bit of another, the size patched in at the end touches its
\* own place only, and each video starts where a byte starts.
ReadBack ==
  /\ \A k \in DOMAIN got : got[k] = written[k].v
  /\ unit > Closed /\ Len(got) = Len(written) => readAt = at
=============================================================================
