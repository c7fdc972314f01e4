--------------------------- MODULE TimelineProofs ---------------------------
(***************************************************************************)
(* The numbers, the tail, the pages and the goals of a timeline, for any   *)
(* ids, files, windows, chunk sizes and failures.                          *)
(***************************************************************************)
EXTENDS Timeline, SelectionProofs, WellFoundedInduction, TLAPS

\* A nonempty set of naturals has a least member.
LEMMA LeastNatural ==
    ASSUME NEW T \in SUBSET Nat, T # {}
    PROVE  \E x \in T : \A y \in T : x <= y
<1>1. PICK x \in T : \A y \in T : <<y, x>> \notin OpToRel(<, Nat)
  BY NatLessThanWellFounded, WFMin
<1>2. \A y \in T : ~ (y < x) BY <1>1 DEF OpToRel
<1> QED BY <1>2

\* A set that holds 0 and, with every number up to n, the next one, holds them all.
LEMMA UpTo ==
    ASSUME NEW n \in Nat, NEW T, 0 \in T, \A m \in 1 .. n : m - 1 \in T => m \in T
    PROVE  0 .. n \subseteq T
<1> DEFINE Bad == {m \in 0 .. n : m \notin T}
<1> SUFFICES ASSUME Bad # {} PROVE FALSE OBVIOUS
<1>1. PICK m \in Bad : \A y \in Bad : m <= y
  <2>1. Bad \subseteq Nat OBVIOUS
  <2> HIDE DEF Bad
  <2> QED BY <2>1, LeastNatural
<1>2. m \in 1 .. n /\ m \notin T OBVIOUS
<1>3. m - 1 \in 0 .. n /\ ~ (m <= m - 1) BY <1>2
<1>4. m - 1 \in T BY <1>1, <1>3
<1> QED BY <1>2, <1>4

\* The scan of a file finds a number no line exceeds and, unless it is 0, some
\* line has (nextSeqLocked).
LEMMA HighestBounds ==
    ASSUME NEW lines \in Seq(Line)
    PROVE  /\ Highest(lines) \in 0 .. MaxSeq
           /\ \A i \in DOMAIN lines : lines[i].seq <= Highest(lines)
           /\ Highest(lines) = 0 \/ \E i \in DOMAIN lines : lines[i].seq = Highest(lines)
<1>1. MaxSeq \in Nat BY TimelineAssumption
<1>2. \A i \in DOMAIN lines : lines[i].seq \in 1 .. MaxSeq
  <2>1. \A i \in DOMAIN lines : lines[i] \in Line OBVIOUS
  <2> QED BY <2>1 DEF Line
<1> DEFINE bounds == {m \in 0 .. MaxSeq : \A i \in DOMAIN lines : lines[i].seq <= m}
<1>3. MaxSeq \in bounds BY <1>1, <1>2
<1>4. PICK m \in bounds : \A y \in bounds : m <= y
  <2>1. bounds \subseteq Nat BY <1>1
  <2> HIDE DEF bounds
  <2> QED BY <1>3, <2>1, LeastNatural
<1>5. m = 0 \/ \E i \in DOMAIN lines : lines[i].seq = m
  <2> SUFFICES ASSUME m # 0, \A i \in DOMAIN lines : lines[i].seq # m PROVE FALSE OBVIOUS
  <2>1. m - 1 \in bounds BY <1>1, <1>2
  <2> QED BY <1>1, <1>4, <2>1
<1> QED BY <1>5 DEF Highest

-----------------------------------------------------------------------------
(* A file: only its last line may lack its newline, and the numbers of one id *)
(* rise along it.                                                             *)

InOrder(lines) ==
    /\ \A i \in 1 .. Len(lines) - 1 : lines[i].ended
    /\ \A i, j \in DOMAIN lines :
          i < j /\ lines[i].npc = lines[j].npc => lines[i].seq < lines[j].seq

\* A write leaves the lines before the last one as they are, and ends with the new
\* one, which an unended last line becomes part of (appendLocked).
LEMMA PutShape ==
    ASSUME NEW lines \in Seq(Line), NEW line \in Line, InOrder(lines)
    PROVE  LET out == Put(lines, line) IN
           /\ out \in Seq(Line)
           /\ Len(out) \in Nat /\ Len(out) > 0
           /\ LET last == out[Len(out)]
              IN  /\ last.npc = line.npc /\ last.seq = line.seq /\ last.ended = line.ended
                  /\ last.kind = line.kind /\ last.goal = line.goal
                  /\ last.whole => Len(out) = Len(lines) + 1
           /\ \A i \in 1 .. Len(out) - 1 : /\ i \in DOMAIN lines
                                          /\ out[i] = lines[i]
                                          /\ lines[i].ended
<1> DEFINE joined == [line EXCEPT !.whole = FALSE]
<1>1. /\ joined \in Line /\ joined.npc = line.npc /\ joined.seq = line.seq
      /\ joined.kind = line.kind /\ joined.goal = line.goal
      /\ joined.ended = line.ended /\ ~ joined.whole
  BY DEF Line
<1> HIDE DEF joined
<1>2. CASE lines # << >> /\ ~ lines[Len(lines)].ended
  <2> DEFINE out == [lines EXCEPT ![Len(lines)] = joined]
  <2>1. Len(lines) \in Nat /\ Len(lines) > 0 BY <1>2
  <2>2. out \in Seq(Line) /\ Len(out) = Len(lines) BY <1>1, <2>1
  <2>3. out[Len(out)] = joined BY <2>1, <2>2
  <2>4. \A i \in 1 .. Len(out) - 1 : i \in DOMAIN lines /\ out[i] = lines[i] /\ lines[i].ended
    <3> SUFFICES ASSUME NEW i \in 1 .. Len(out) - 1
                 PROVE  i \in DOMAIN lines /\ out[i] = lines[i] /\ lines[i].ended
      OBVIOUS
    <3>1. i \in 1 .. Len(lines) - 1 BY <2>2
    <3>2. i \in DOMAIN lines /\ i # Len(lines) BY <2>1, <3>1
    <3>3. lines[i].ended BY <3>1 DEF InOrder
    <3> QED BY <3>2, <3>3
  <2>5. Put(lines, line) = out BY <1>2 DEF Put, joined
  <2> QED BY <1>1, <2>1, <2>2, <2>3, <2>4, <2>5
<1>3. CASE ~ (lines # << >> /\ ~ lines[Len(lines)].ended)
  <2> DEFINE out == Append(lines, line)
  <2>1. out \in Seq(Line) /\ Len(out) = Len(lines) + 1 /\ out[Len(out)] = line
        /\ \A i \in 1 .. Len(lines) : out[i] = lines[i]
    OBVIOUS
  <2>2. \A i \in 1 .. Len(lines) : lines[i].ended BY <1>3 DEF InOrder
  <2>3. Put(lines, line) = out BY <1>3 DEF Put
  <2> QED BY <2>1, <2>2, <2>3
<1> QED BY <1>2, <1>3

\* What the cache must not fall behind: the complete lines of its id.
Covers(number, n, lines) ==
    \A i \in DOMAIN lines :
        lines[i].npc = n /\ (i < Len(lines) \/ lines[i].ended) => lines[i].seq <= number

Shape ==
    /\ fileOf \in [Npcs -> Files]
    /\ files \in [Files -> Seq(Line)]
    /\ lastSeq \in [Npcs -> 0 .. MaxSeq \cup {None}]
    /\ draft = None \/ draft.npc \in Npcs

\* An unbroken run of numbers, which the cache continues.
Tight(store, cache) ==
    \A n \in Npcs : Alone(n) =>
        LET lines == store[fileOf[n]] IN
        /\ \A i \in 1 .. Len(lines) - 1 :
              lines[i].whole /\ lines[i + 1].whole => lines[i + 1].seq = lines[i].seq + 1
        /\ cache[n] # None /\ lines # << >> /\ lines[Len(lines)].ended
              => cache[n] = lines[Len(lines)].seq

Numbered(store, cache) ==
    /\ \A f \in Files : /\ InOrder(store[f])
                       /\ \A i \in DOMAIN store[f] : fileOf[store[f][i].npc] = f
    /\ \A n \in Npcs : cache[n] # None => Covers(cache[n], n, store[fileOf[n]])
    /\ Tight(store, cache)

IInv == Shape /\ Numbered(files, lastSeq)

\* The number the next event of an id is told to follow is one no complete line of
\* that id exceeds, cached or found by a scan (nextSeqLocked).
LEMMA LastCovers ==
    ASSUME IInv, NEW n \in Npcs
    PROVE  LastOf(n) \in 0 .. MaxSeq /\ Covers(LastOf(n), n, files[fileOf[n]])
<1>1. files[fileOf[n]] \in Seq(Line) BY DEF IInv, Shape
<1>2. CASE lastSeq[n] = None
  BY <1>1, <1>2, HighestBounds DEF LastOf, Covers
<1>3. CASE lastSeq[n] # None
  BY <1>3 DEF LastOf, IInv, Shape, Numbered
<1> QED BY <1>2, <1>3

\* In a file of one id the next number follows the last line, cached or found by a
\* scan (nextSeqLocked).
LEMMA LastIsExact ==
    ASSUME IInv, NEW n \in Npcs, Alone(n),
           files[fileOf[n]] # << >>, files[fileOf[n]][Len(files[fileOf[n]])].ended
    PROVE  LastOf(n) = files[fileOf[n]][Len(files[fileOf[n]])].seq
<1> DEFINE lines == files[fileOf[n]]
           last == lines[Len(lines)]
<1>1. lines \in Seq(Line) /\ InOrder(lines) BY DEF IInv, Shape, Numbered
<1>2. Len(lines) \in Nat /\ Len(lines) > 0 BY <1>1
<1>3. CASE lastSeq[n] = None
  <2>1. \A i \in DOMAIN lines : lines[i].seq \in 1 .. MaxSeq /\ lines[i].npc = n
    <3>1. \A i \in DOMAIN lines : lines[i] \in Line BY <1>1
    <3>2. \A i \in DOMAIN lines : fileOf[lines[i].npc] = fileOf[n] BY DEF IInv, Shape, Numbered
    <3> QED BY <3>1, <3>2 DEF Line, Alone
  <2>2. \A i \in DOMAIN lines : lines[i].seq <= last.seq
    <3> SUFFICES ASSUME NEW i \in DOMAIN lines, i # Len(lines) PROVE lines[i].seq <= last.seq
      BY <1>2, <2>1
    <3>1. i < Len(lines) /\ Len(lines) \in DOMAIN lines BY <1>1, <1>2
    <3>2. lines[i].seq < last.seq BY <1>1, <2>1, <3>1 DEF InOrder
    <3> QED BY <2>1, <3>1, <3>2
  <2>3. /\ Highest(lines) \in 0 .. MaxSeq
        /\ \A i \in DOMAIN lines : lines[i].seq <= Highest(lines)
        /\ Highest(lines) = 0 \/ \E i \in DOMAIN lines : lines[i].seq = Highest(lines)
    BY <1>1, HighestBounds
  <2>4. last.seq \in 1 .. MaxSeq /\ last.seq <= Highest(lines) BY <1>2, <2>1, <2>3
  <2>5. PICK i \in DOMAIN lines : lines[i].seq = Highest(lines)
    BY <2>3, <2>4, TimelineAssumption
  <2>6. Highest(lines) <= last.seq BY <2>2, <2>5
  <2>7. Highest(lines) = last.seq BY <2>3, <2>4, <2>6, TimelineAssumption
  <2> QED BY <1>3, <2>7 DEF LastOf
<1>4. CASE lastSeq[n] # None
  BY <1>4 DEF LastOf, IInv, Numbered, Tight
<1> QED BY <1>3, <1>4

\* A written line, whole or torn, with the next number keeps the file in order;
\* the cache may be set to that number, to what the scan found if the line has
\* no newline, or be lost (appendLocked, a crash).
LEMMA WriteKeeps ==
    ASSUME IInv, NEW n \in Npcs, NEW line \in Line,
           line.npc = n, line.seq = NextSeq(n),
           NEW cache, cache \in [Npcs -> 0 .. MaxSeq \cup {None}],
           \A m \in Npcs \ {n} : cache[m] \in {lastSeq[m], None},
           cache[n] \in {NextSeq(n), None} \/ (~ line.ended /\ cache[n] = LastOf(n)),
           NEW store, store = [files EXCEPT ![fileOf[n]] = Put(@, line)]
    PROVE  store \in [Files -> Seq(Line)] /\ Numbered(store, cache)
<1> DEFINE f == fileOf[n]
           lines == files[f]
           out == Put(lines, line)
           size == Len(out)
<1>1. f \in Files /\ lines \in Seq(Line) /\ InOrder(lines) BY DEF IInv, Shape, Numbered
<1>2. /\ out \in Seq(Line) /\ size \in Nat /\ size > 0
      /\ out[size].npc = n /\ out[size].seq = NextSeq(n) /\ out[size].ended = line.ended
      /\ out[size].whole => size = Len(lines) + 1
      /\ \A i \in 1 .. size - 1 : i \in DOMAIN lines /\ out[i] = lines[i] /\ lines[i].ended
  BY <1>1, PutShape
<1>3. LastOf(n) \in 0 .. MaxSeq /\ Covers(LastOf(n), n, lines) BY LastCovers
<1>4. store[f] = out /\ \A g \in Files \ {f} : store[g] = files[g] BY <1>1 DEF IInv, Shape
<1> HIDE DEF out
<1>5. DOMAIN out = 1 .. size BY <1>2
<1> HIDE DEF size, lines, f
<1>6. \A i \in 1 .. size - 1 : out[i].npc = n => out[i].seq < NextSeq(n)
  <2> SUFFICES ASSUME NEW i \in 1 .. size - 1, out[i].npc = n PROVE out[i].seq < NextSeq(n)
    OBVIOUS
  <2>1. out[i].seq <= LastOf(n) BY <1>2, <1>3 DEF Covers
  <2>2. out[i].seq \in Nat
    <3>1. out[i] \in Line BY <1>2, <1>5
    <3> QED BY <3>1 DEF Line
  <2> QED BY <1>3, <2>1, <2>2 DEF NextSeq
<1>7. InOrder(out)
  <2>1. \A i \in 1 .. Len(out) - 1 : out[i].ended BY <1>2 DEF size
  <2>2. ASSUME NEW i \in DOMAIN out, NEW j \in DOMAIN out, i < j, out[i].npc = out[j].npc
        PROVE  out[i].seq < out[j].seq
    <3>1. i \in 1 .. size - 1 BY <1>2, <1>5, <2>2
    <3>2. CASE j = size BY <1>2, <1>6, <2>2, <3>1, <3>2
    <3>3. CASE j # size
      <4>1. j \in 1 .. size - 1 BY <1>2, <1>5, <3>3
      <4> QED BY <1>1, <1>2, <2>2, <3>1, <4>1 DEF InOrder
    <3> QED BY <3>2, <3>3
  <2> QED BY <2>1, <2>2 DEF InOrder
<1>8. \A i \in DOMAIN out : fileOf[out[i].npc] = f
  <2> SUFFICES ASSUME NEW i \in DOMAIN out PROVE fileOf[out[i].npc] = f OBVIOUS
  <2>1. CASE i = size BY <1>2, <2>1 DEF f
  <2>2. CASE i # size
    <3>1. i \in 1 .. size - 1 BY <1>2, <1>5, <2>2
    <3>2. \A k \in DOMAIN lines : fileOf[lines[k].npc] = f BY <1>1 DEF IInv, Numbered, lines
    <3> QED BY <1>2, <3>1, <3>2
  <2> QED BY <2>1, <2>2
<1>9. ASSUME NEW m \in Npcs, cache[m] # None PROVE Covers(cache[m], m, store[fileOf[m]])
  <2>1. CASE m = n
    <3>1. cache[n] = NextSeq(n) \/ (~ line.ended /\ cache[n] = LastOf(n)) BY <1>9, <2>1
    <3>2. store[fileOf[m]] = out BY <1>4, <2>1 DEF f
    <3>3. LastOf(n) <= NextSeq(n) /\ NextSeq(n) \in Nat /\ LastOf(n) \in Nat BY <1>3 DEF NextSeq
    <3>4. ASSUME NEW i \in DOMAIN out, out[i].npc = n, i < Len(out) \/ out[i].ended
          PROVE  out[i].seq <= cache[n]
      <4>1. CASE i = size BY <1>2, <3>1, <3>3, <3>4, <4>1 DEF size
      <4>2. CASE i # size
        <5>1. i \in 1 .. size - 1 BY <1>2, <1>5, <4>2
        <5>2. out[i].seq <= LastOf(n) BY <1>2, <1>3, <3>4, <5>1 DEF Covers
        <5>3. out[i].seq \in Nat
          <6>1. out[i] \in Line BY <1>2
          <6> QED BY <6>1 DEF Line
        <5> QED BY <3>1, <3>3, <5>2, <5>3
      <4> QED BY <4>1, <4>2
    <3> QED BY <2>1, <3>2, <3>4 DEF Covers
  <2>2. CASE m # n
    <3>1. cache[m] = lastSeq[m] BY <1>9, <2>2
    <3>2. Covers(lastSeq[m], m, files[fileOf[m]]) BY <1>9, <3>1 DEF IInv, Numbered
    <3>3. CASE fileOf[m] # f
      <4>1. store[fileOf[m]] = files[fileOf[m]] BY <1>4, <3>3 DEF IInv, Shape
      <4> QED BY <3>1, <3>2, <4>1
    <3>4. CASE fileOf[m] = f
      <4>1. store[fileOf[m]] = out BY <1>4, <3>4
      <4>2. ASSUME NEW i \in DOMAIN out, out[i].npc = m PROVE out[i].seq <= lastSeq[m]
        <5>1. i \in 1 .. size - 1 BY <1>2, <1>5, <2>2, <4>2
        <5> QED BY <1>2, <3>2, <3>4, <4>2, <5>1 DEF Covers, lines
      <4> QED BY <3>1, <4>1, <4>2 DEF Covers
    <3> QED BY <3>3, <3>4
  <2> QED BY <2>1, <2>2
<1>10. store \in [Files -> Seq(Line)] BY <1>1, <1>2 DEF IInv, Shape, out, lines, f
<1>11. \A g \in Files : InOrder(store[g]) /\ \A i \in DOMAIN store[g] : fileOf[store[g][i].npc] = g
  BY <1>4, <1>7, <1>8 DEF IInv, Numbered
<1>12. ASSUME NEW m \in Npcs, Alone(m)
       PROVE  LET mine == store[fileOf[m]] IN
              /\ \A i \in 1 .. Len(mine) - 1 :
                    mine[i].whole /\ mine[i + 1].whole => mine[i + 1].seq = mine[i].seq + 1
              /\ cache[m] # None /\ mine # << >> /\ mine[Len(mine)].ended
                    => cache[m] = mine[Len(mine)].seq
  <2>1. CASE m = n
    <3>1. store[fileOf[m]] = out BY <1>4, <2>1 DEF f
    <3>2. ASSUME NEW i \in 1 .. size - 1, out[i].whole, out[i + 1].whole
          PROVE  out[i + 1].seq = out[i].seq + 1
      <4>1. i \in DOMAIN lines /\ out[i] = lines[i] /\ lines[i].ended BY <1>2
      <4>2. CASE i = size - 1
        <5>1. size = Len(lines) + 1 /\ out[i + 1].seq = NextSeq(n) BY <1>2, <3>2, <4>2
        <5>2. i = Len(lines) /\ lines # << >> BY <1>1, <4>1, <4>2, <5>1
        <5>3. LastOf(n) = lines[i].seq BY <2>1, <1>12, <4>1, <5>2, LastIsExact DEF lines, f
        <5> QED BY <4>1, <5>1, <5>3 DEF NextSeq
      <4>3. CASE i # size - 1
        <5>1. i + 1 \in 1 .. size - 1 BY <1>2, <4>3
        <5>2. i + 1 \in DOMAIN lines /\ out[i + 1] = lines[i + 1] BY <1>2, <5>1
        <5>3. i \in 1 .. Len(lines) - 1 BY <1>1, <4>1, <5>2
        <5> QED BY <1>12, <2>1, <3>2, <4>1, <5>2, <5>3 DEF IInv, Numbered, Tight, lines, f
      <4> QED BY <4>2, <4>3
    <3>3. cache[n] # None /\ out[size].ended => cache[n] = out[size].seq BY <1>2
    <3> QED BY <2>1, <3>1, <3>2, <3>3 DEF size
  <2>2. CASE m # n
    <3>1. fileOf[m] # f BY <1>12, <2>2 DEF Alone, f
    <3>2. store[fileOf[m]] = files[fileOf[m]] BY <1>4, <3>1 DEF IInv, Shape
    <3>3. cache[m] # None => cache[m] = lastSeq[m] BY <2>2
    <3> QED BY <1>12, <3>2, <3>3 DEF IInv, Numbered, Tight
  <2> QED BY <2>1, <2>2
<1> QED BY <1>9, <1>10, <1>11, <1>12 DEF Numbered, Tight

-----------------------------------------------------------------------------
(* The steps. *)

\* The event of any kind an id writes next.
LEMMA NewEventIsLine ==
    ASSUME IInv, NEW n \in Npcs, NEW kind \in Kinds, NEW goal \in Goals \cup {NoGoal},
           NextSeq(n) <= MaxSeq
    PROVE  LET line == NewEvent(n, NextSeq(n), kind, goal) IN
           /\ line \in Line /\ line.npc = n /\ line.seq = NextSeq(n)
           /\ \A torn \in Torn(line) : /\ torn \in Line /\ torn.npc = n
                                      /\ torn.seq = NextSeq(n) /\ ~ torn.ended
<1>1. LastOf(n) \in 0 .. MaxSeq BY LastCovers
<1>2. NextSeq(n) \in 1 .. MaxSeq BY <1>1, TimelineAssumption DEF NextSeq
<1> QED BY <1>2 DEF NewEvent, Line, Torn

\* An append that is written, whatever number the event came with (appendLocked).
LEMMA WrittenKeeps ==
    ASSUME IInv, NEW n \in Npcs, NEW s, NEW kind \in Kinds, NEW goal \in Goals \cup {NoGoal},
           Written(n, s, kind, goal)
    PROVE  /\ files' \in [Files -> Seq(Line)] /\ lastSeq' \in [Npcs -> 0 .. MaxSeq \cup {None}]
           /\ Numbered(files', lastSeq')
<1> DEFINE line == NewEvent(n, NextSeq(n), kind, goal)
<1>1. Repaired(n, s) = NextSeq(n) BY DEF Repaired
<1>2. NextSeq(n) <= MaxSeq BY DEF Written, HasRoom
<1>3. line \in Line /\ line.npc = n /\ line.seq = NextSeq(n) BY <1>2, NewEventIsLine
<1>4. files' = [files EXCEPT ![fileOf[n]] = Put(@, line)] /\ lastSeq' = [lastSeq EXCEPT ![n] = NextSeq(n)]
  BY <1>1 DEF Written
<1>5. LastOf(n) \in 0 .. MaxSeq BY LastCovers
<1>6. lastSeq' \in [Npcs -> 0 .. MaxSeq \cup {None}]
  BY <1>2, <1>4, <1>5, TimelineAssumption DEF IInv, Shape, NextSeq
<1> HIDE DEF line
<1>7. /\ \A m \in Npcs \ {n} : lastSeq'[m] \in {lastSeq[m], None}
      /\ lastSeq'[n] \in {NextSeq(n), None}
  BY <1>4 DEF IInv, Shape
<1>8. files' \in [Files -> Seq(Line)] /\ Numbered(files', lastSeq')
  BY <1>3, <1>4, <1>6, <1>7, WriteKeeps
<1> QED BY <1>6, <1>8

\* An append that returns an error, and whatever it leaves behind (appendLocked).
LEMMA NotWrittenKeeps ==
    ASSUME IInv, NEW n \in Npcs, NEW s, NEW kind \in Kinds, NEW goal \in Goals \cup {NoGoal},
           NotWritten(n, s, kind, goal)
    PROVE  /\ files' \in [Files -> Seq(Line)] /\ lastSeq' \in [Npcs -> 0 .. MaxSeq \cup {None}]
           /\ Numbered(files', lastSeq')
<1> DEFINE line == NewEvent(n, NextSeq(n), kind, goal)
<1>1. Repaired(n, s) = NextSeq(n) BY DEF Repaired
<1>2. LastOf(n) \in 0 .. MaxSeq /\ Covers(LastOf(n), n, files[fileOf[n]]) BY LastCovers
<1>3. CASE UNCHANGED <<files, lastSeq>> BY <1>3 DEF IInv, Shape
<1>4. CASE lastSeq' = Scanned(n) /\ UNCHANGED files
  <2>1. lastSeq' \in [Npcs -> 0 .. MaxSeq \cup {None}] BY <1>2, <1>4 DEF IInv, Shape, Scanned
  <2>2. Tight(files', lastSeq')
    BY <1>4, LastIsExact DEF IInv, Shape, Numbered, Tight, Scanned
  <2>3. Numbered(files', lastSeq')
    BY <1>2, <1>4, <2>2 DEF IInv, Shape, Numbered, Scanned
  <2> QED BY <1>4, <2>1, <2>3 DEF IInv, Shape
<1>5. CASE /\ HasRoom(n) /\ lastSeq' = Scanned(n)
           /\ \E torn \in Torn(line) : files' = [files EXCEPT ![fileOf[n]] = Put(@, torn)]
  <2>1. NextSeq(n) <= MaxSeq BY <1>5 DEF HasRoom
  <2>2. PICK torn \in Torn(line) : files' = [files EXCEPT ![fileOf[n]] = Put(@, torn)] BY <1>5
  <2>3. torn \in Line /\ torn.npc = n /\ torn.seq = NextSeq(n) /\ ~ torn.ended
    BY <2>1, NewEventIsLine
  <2>4. lastSeq' \in [Npcs -> 0 .. MaxSeq \cup {None}] BY <1>2, <1>5 DEF IInv, Shape, Scanned
  <2>5. /\ \A m \in Npcs \ {n} : lastSeq'[m] \in {lastSeq[m], None}
        /\ lastSeq'[n] = LastOf(n)
    BY <1>5 DEF IInv, Shape, Scanned
  <2>6. files' \in [Files -> Seq(Line)] /\ Numbered(files', lastSeq')
    BY <2>2, <2>3, <2>4, <2>5, WriteKeeps
  <2> QED BY <2>4, <2>6
<1> QED BY <1>1, <1>3, <1>4, <1>5 DEF NotWritten

\* A crash loses every cache, and may leave the line behind (a new process).
LEMMA CrashKeeps ==
    ASSUME IInv, NEW n \in Npcs, CrashInWrite(n)
    PROVE  /\ files' \in [Files -> Seq(Line)] /\ lastSeq' \in [Npcs -> 0 .. MaxSeq \cup {None}]
           /\ Numbered(files', lastSeq')
<1> DEFINE line == NewEvent(n, NextSeq(n), "fact", NoGoal)
<1>1. NextSeq(n) <= MaxSeq BY DEF CrashInWrite, HasRoom
<1>2. PICK rest \in Torn(line) \cup {line} : files' = [files EXCEPT ![fileOf[n]] = Put(@, rest)]
  BY DEF CrashInWrite
<1>3. "fact" \in Kinds BY DEF Kinds
<1>4. rest \in Line /\ rest.npc = n /\ rest.seq = NextSeq(n) BY <1>1, <1>3, NewEventIsLine
<1>5. lastSeq' = [m \in Npcs |-> None] BY DEF CrashInWrite, Restart
<1> HIDE DEF line
<1>6. /\ lastSeq' \in [Npcs -> 0 .. MaxSeq \cup {None}]
      /\ \A m \in Npcs : lastSeq'[m] = None
  BY <1>5
<1>7. files' \in [Files -> Seq(Line)] /\ Numbered(files', lastSeq')
  BY <1>2, <1>4, <1>6, WriteKeeps
<1> QED BY <1>6, <1>7

\* Delete empties the file of an id and of every id that shares it, and leaves
\* their caches, which are then ahead of it (Delete).
LEMMA RemoveKeeps ==
    ASSUME IInv, NEW n \in Npcs, RemoveFile(n)
    PROVE  files' \in [Files -> Seq(Line)] /\ Numbered(files', lastSeq)
<1>1. files' = [files EXCEPT ![fileOf[n]] = << >>] BY DEF RemoveFile
<1>2. files' \in [Files -> Seq(Line)] BY <1>1 DEF IInv, Shape
<1>3. \A f \in Files : files'[f] = files[f] \/ files'[f] = << >> BY <1>1 DEF IInv, Shape
<1>4. InOrder(<< >>) /\ \A m : Covers(m, n, << >>) /\ \A k \in Npcs : Covers(m, k, << >>)
  BY DEF InOrder, Covers
<1>5. \A f \in Files : InOrder(files'[f]) /\ \A i \in DOMAIN files'[f] : fileOf[files'[f][i].npc] = f
  BY <1>3, <1>4 DEF IInv, Numbered
<1>6. \A m \in Npcs : lastSeq[m] # None => Covers(lastSeq[m], m, files'[fileOf[m]])
  BY <1>3, <1>4 DEF IInv, Shape, Numbered
<1>7. ASSUME NEW m \in Npcs, Alone(m)
      PROVE  LET mine == files'[fileOf[m]] IN
             /\ \A i \in 1 .. Len(mine) - 1 :
                   mine[i].whole /\ mine[i + 1].whole => mine[i + 1].seq = mine[i].seq + 1
             /\ lastSeq[m] # None /\ mine # << >> /\ mine[Len(mine)].ended
                   => lastSeq[m] = mine[Len(mine)].seq
  <2>1. fileOf[m] \in Files BY DEF IInv, Shape
  <2>2. CASE files'[fileOf[m]] = << >>
    <3>1. 1 .. Len(<< >>) - 1 = {} OBVIOUS
    <3> QED BY <2>2, <3>1
  <2>3. CASE files'[fileOf[m]] = files[fileOf[m]] BY <1>7, <2>3 DEF IInv, Numbered, Tight
  <2> QED BY <1>3, <2>1, <2>2, <2>3
<1> QED BY <1>2, <1>5, <1>6, <1>7 DEF Numbered, Tight

\* Every method of the store, a crash and a restart keep the numbers so.
LEMMA StepKeeps ==
    ASSUME IInv, Step, UNCHANGED fileOf
    PROVE  IInv'
<1>1. \A store, cache :
        /\ files' = store /\ lastSeq' = cache
        /\ store \in [Files -> Seq(Line)] /\ cache \in [Npcs -> 0 .. MaxSeq \cup {None}]
        /\ Numbered(store, cache)
        /\ draft' = None \/ draft'.npc \in Npcs
        => IInv'
  BY DEF IInv, Shape, Numbered, Tight, Alone
<1>2. "fact" \in Kinds /\ NoGoal \in Goals \cup {NoGoal} /\ GoalKinds \subseteq Kinds
  BY DEF Kinds
<1>3. ASSUME NEW n \in Npcs, DraftEvent(n) PROVE IInv'
  <2>1. LastOf(n) \in 0 .. MaxSeq /\ Covers(LastOf(n), n, files[fileOf[n]]) BY LastCovers
  <2>2. draft'.npc = n /\ files' = files /\ lastSeq' = [lastSeq EXCEPT ![n] = LastOf(n)]
    BY <1>3 DEF DraftEvent, Scanned
  <2>3. lastSeq' \in [Npcs -> 0 .. MaxSeq \cup {None}] BY <2>1, <2>2 DEF IInv, Shape
  <2>4. Tight(files', lastSeq') BY <2>2, LastIsExact DEF IInv, Shape, Numbered, Tight
  <2>5. Numbered(files', lastSeq') BY <2>1, <2>2, <2>4 DEF IInv, Shape, Numbered
  <2> QED BY <1>1, <2>2, <2>3, <2>5 DEF IInv, Shape
<1>4. ASSUME NEW n \in Npcs, AppendEvent(n) PROVE IInv'
  BY <1>1, <1>2, <1>4, WrittenKeeps, NotWrittenKeeps DEF AppendEvent, IInv, Shape
<1>5. ASSUME NEW n \in Npcs, RemoveFile(n) PROVE IInv'
  BY <1>1, <1>5, RemoveKeeps DEF RemoveFile, IInv, Shape
<1>6. ASSUME NEW n \in Npcs, CrashInWrite(n) PROVE IInv'
  BY <1>1, <1>6, CrashKeeps DEF CrashInWrite, Restart
<1>7. ASSUME NEW n \in Agents, NEW g \in Goals, SetGoal(n, g) PROVE IInv'
  <2>1. n \in Npcs BY TimelineAssumption
  <2>2. PICK kind \in GoalKinds : Written(n, NextSeq(n), kind, g) \/ NotWritten(n, NextSeq(n), kind, g)
    BY <1>7 DEF SetGoal, GoalKinds
  <2> QED BY <1>1, <1>2, <1>7, <2>1, <2>2, WrittenKeeps, NotWrittenKeeps DEF SetGoal, IInv, Shape
<1>8. ASSUME NEW n \in Agents, CompleteGoal(n) PROVE IInv'
  <2>1. n \in Npcs /\ "GOAL_COMPLETED" \in Kinds BY <1>2, TimelineAssumption DEF GoalKinds
  <2> QED BY <1>1, <1>2, <1>8, <2>1, WrittenKeeps, NotWrittenKeeps DEF CompleteGoal, IInv, Shape
<1>9. ASSUME NEW n \in Agents, Touch(n) PROVE IInv'
  BY <1>9 DEF Touch, IInv, Shape, Numbered, Tight, Alone
<1>10. CASE AppendDraft
  <2>1. draft.npc \in Npcs BY <1>10 DEF AppendDraft, IInv, Shape
  <2> QED BY <1>1, <1>2, <1>10, <2>1, WrittenKeeps, NotWrittenKeeps DEF AppendDraft
<1>11. CASE ForgetSeq
  <2>1. lastSeq' = [lastSeq EXCEPT ![removing] = None] /\ files' = files /\ draft' = draft
    BY <1>11 DEF ForgetSeq
  <2>2. lastSeq' \in [Npcs -> 0 .. MaxSeq \cup {None}] BY <2>1 DEF IInv, Shape
  <2>3. \A n \in Npcs : lastSeq'[n] # None => lastSeq'[n] = lastSeq[n] BY <2>1 DEF IInv, Shape
  <2> QED BY <2>1, <2>2, <2>3 DEF IInv, Shape, Numbered, Tight, Alone
<1>12. CASE Stop BY <1>12 DEF Stop, Restart, IInv, Shape, Numbered, Tight, Alone
<1> QED BY <1>3, <1>4, <1>5, <1>6, <1>7, <1>8, <1>9, <1>10, <1>11, <1>12 DEF Step

\* The numbers are so in every reachable state.
LEMMA AlwaysNumbered == Spec => []IInv
<1>1. Init => IInv
  <2> SUFFICES ASSUME Init PROVE IInv OBVIOUS
  <2>1. << >> \in Seq(Line) OBVIOUS
  <2>2. files = [f \in Files |-> << >>] /\ lastSeq = [n \in Npcs |-> None] BY DEF Init
  <2>3. Shape BY <2>1, <2>2 DEF Init, Shape
  <2>4. InOrder(<< >>) BY DEF InOrder
  <2>5. DOMAIN << >> = {} OBVIOUS
  <2>6. Numbered(files, lastSeq) BY <2>2, <2>3, <2>4, <2>5 DEF Numbered, Tight, Shape
  <2> QED BY <2>3, <2>6 DEF IInv
<1>2. IInv /\ [Next]_vars => IInv'
  <2> SUFFICES ASSUME IInv, [Next]_vars PROVE IInv' OBVIOUS
  <2>1. CASE Next BY <2>1, StepKeeps DEF Next
  <2>2. CASE UNCHANGED vars BY <2>2 DEF vars, IInv, Shape, Numbered, Tight, Alone
  <2> QED BY <2>1, <2>2
<1> QED BY <1>1, <1>2, PTL DEF Spec

\* The later of two events of one id has the larger number, in every file and after
\* any torn writes, crashes, deletions and writes of other ids of the same file: the
\* cache, the scan of a new process and appendLocked's repair never give a number
\* twice (nextSeqLocked, appendLocked).
THEOREM NumbersIncrease == Spec => []OwnNumbersIncrease
<1>1. IInv => OwnNumbersIncrease BY DEF IInv, Numbered, InOrder, OwnNumbersIncrease
<1> QED BY <1>1, AlwaysNumbered, PTL

\* In the file of one id, neighbouring events have neighbouring numbers: neither a
\* failed write, nor a crash, nor a restart, nor a Delete leaves a gap between two
\* events that can be read (nextSeqLocked, appendLocked).
THEOREM NumbersAreTight == Spec => []NoGaps
<1>1. IInv => NoGaps BY DEF IInv, Numbered, Tight, NoGaps
<1> QED BY <1>1, AlwaysNumbered, PTL

-----------------------------------------------------------------------------
(* What a torn write costs: a file whose last line is open has a tear nobody  *)
(* has paid for yet, and the append that is joined to it pays.                *)

Complete(lines) == {i \in DOMAIN lines : lines[i].whole /\ lines[i].ended}
Open(lines) == IF lines # << >> /\ ~ lines[Len(lines)].ended THEN 1 ELSE 0

Balanced(store, written, torn) ==
    /\ written \in [Files -> Nat]
    /\ torn \in Nat
    /\ \A f \in Files : written[f] + Open(store[f]) <= Cardinality(Complete(store[f])) + torn

\* The complete lines of a file are a finite set of its indices.
LEMMA CompleteIsFinite ==
    ASSUME NEW lines \in Seq(Line)
    PROVE  /\ IsFiniteSet(Complete(lines)) /\ Cardinality(Complete(lines)) \in Nat
           /\ Open(lines) \in {0, 1}
           /\ LET whole == {i \in DOMAIN lines : lines[i].whole} IN
              Cardinality(Complete(lines)) <= Cardinality(whole) /\ Cardinality(whole) \in Nat
<1> DEFINE whole == {i \in DOMAIN lines : lines[i].whole}
<1>1. IsFiniteSet(1 .. Len(lines)) BY FS_Interval
<1>2. IsFiniteSet(whole)
  <2>1. whole \in SUBSET (1 .. Len(lines)) OBVIOUS
  <2> QED BY <1>1, <2>1, FS_Subset
<1>3. Complete(lines) \in SUBSET whole BY DEF Complete
<1> HIDE DEF whole
<1>4. IsFiniteSet(Complete(lines)) /\ Cardinality(Complete(lines)) <= Cardinality(whole)
  BY <1>2, <1>3, FS_Subset
<1>5. Cardinality(Complete(lines)) \in Nat /\ Cardinality(whole) \in Nat
  BY <1>2, <1>4, FS_CardinalityType
<1> QED BY <1>4, <1>5 DEF whole, Open

\* A write never loses a complete line; one that is complete adds itself, or
\* closes an open line (appendLocked).
LEMMA PutBalances ==
    ASSUME NEW lines \in Seq(Line), NEW line \in Line
    PROVE  LET out == Put(lines, line) IN
           /\ out \in Seq(Line)
           /\ Cardinality(Complete(lines)) <= Cardinality(Complete(out))
           /\ line.whole /\ line.ended =>
                Cardinality(Complete(lines)) + 1 + Open(out)
                    <= Cardinality(Complete(out)) + Open(lines)
<1> DEFINE joined == [line EXCEPT !.whole = FALSE]
<1>1. joined \in Line /\ joined.ended = line.ended /\ ~ joined.whole BY DEF Line
<1> HIDE DEF joined
<1>2. IsFiniteSet(Complete(lines)) /\ Cardinality(Complete(lines)) \in Nat BY CompleteIsFinite
<1>3. CASE lines # << >> /\ ~ lines[Len(lines)].ended
  <2> DEFINE out == [lines EXCEPT ![Len(lines)] = joined]
  <2>1. Len(lines) \in Nat /\ Len(lines) > 0 BY <1>3
  <2>2. out \in Seq(Line) /\ Len(out) = Len(lines) /\ DOMAIN out = DOMAIN lines BY <1>1, <2>1
  <2>3. out[Len(out)] = joined /\ \A i \in DOMAIN lines : i # Len(lines) => out[i] = lines[i]
    BY <2>1, <2>2
  <2>4. Complete(out) = Complete(lines) BY <1>1, <1>3, <2>2, <2>3 DEF Complete
  <2>5. Open(lines) = 1 /\ (line.ended => Open(out) = 0) BY <1>1, <1>3, <2>3 DEF Open
  <2>6. Put(lines, line) = out BY <1>3 DEF Put, joined
  <2> HIDE DEF out
  <2> QED BY <1>2, <2>2, <2>4, <2>5, <2>6
<1>4. CASE ~ (lines # << >> /\ ~ lines[Len(lines)].ended)
  <2> DEFINE out == Append(lines, line)
             last == Len(lines) + 1
  <2>1. /\ out \in Seq(Line) /\ Len(out) = last /\ out[Len(out)] = line
        /\ DOMAIN out = 1 .. last /\ DOMAIN lines = 1 .. Len(lines) /\ Len(lines) \in Nat
        /\ \A i \in 1 .. Len(lines) : out[i] = lines[i]
    OBVIOUS
  <2>2. Put(lines, line) = out BY <1>4 DEF Put
  <2> HIDE DEF out
  <2>3. last \notin Complete(lines) BY <2>1 DEF Complete
  <2>4. CASE line.whole /\ line.ended
    <3>1. Complete(out) = Complete(lines) \cup {last} BY <2>1, <2>4 DEF Complete
    <3>2. Cardinality(Complete(out)) = Cardinality(Complete(lines)) + 1
      BY <1>2, <2>3, <3>1, FS_AddElement
    <3>3. Open(lines) = 0 /\ Open(out) = 0 BY <1>4, <2>1, <2>4 DEF Open
    <3> QED BY <1>2, <2>1, <2>2, <3>2, <3>3
  <2>5. CASE ~ (line.whole /\ line.ended)
    <3>1. Complete(out) = Complete(lines) BY <2>1, <2>5 DEF Complete
    <3> QED BY <1>2, <2>1, <2>2, <2>5, <3>1
  <2> QED BY <2>4, <2>5
<1> QED BY <1>3, <1>4

\* An append that is written and acknowledged keeps the balance of its file.
LEMMA WrittenBalances ==
    ASSUME IInv, Balanced(files, acked, tears), NEW n \in Npcs, NEW s,
           NEW kind \in Kinds, NEW goal \in Goals \cup {NoGoal},
           Written(n, s, kind, goal)
    PROVE  Balanced(files', acked', tears')
<1> DEFINE f == fileOf[n]
           line == NewEvent(n, NextSeq(n), kind, goal)
<1>1. Repaired(n, s) = NextSeq(n) BY DEF Repaired
<1>2. line \in Line BY NewEventIsLine DEF Written, HasRoom
<1>3. line.whole /\ line.ended BY DEF NewEvent
<1>4. /\ files' = [files EXCEPT ![f] = Put(@, line)]
      /\ acked' = [acked EXCEPT ![f] = @ + 1] /\ tears' = tears
  BY <1>1 DEF Written
<1>5. f \in Files /\ files[f] \in Seq(Line) BY DEF IInv, Shape
<1> HIDE DEF f, line
<1>6. files'[f] = Put(files[f], line) /\ \A g \in Files \ {f} : files'[g] = files[g]
  BY <1>4, <1>5 DEF IInv, Shape
<1>7. /\ acked' \in [Files -> Nat] /\ acked'[f] = acked[f] + 1
      /\ \A g \in Files \ {f} : acked'[g] = acked[g]
  BY <1>4, <1>5 DEF Balanced
<1>8. files'[f] \in Seq(Line)
      /\ Cardinality(Complete(files[f])) + 1 + Open(files'[f])
             <= Cardinality(Complete(files'[f])) + Open(files[f])
  BY <1>2, <1>3, <1>5, <1>6, PutBalances
<1>9. acked'[f] + Open(files'[f]) <= Cardinality(Complete(files'[f])) + tears'
  <2>1. Cardinality(Complete(files[f])) \in Nat /\ Open(files[f]) \in {0, 1}
        /\ Cardinality(Complete(files'[f])) \in Nat /\ Open(files'[f]) \in {0, 1}
    BY <1>5, <1>8, CompleteIsFinite
  <2>2. acked[f] + Open(files[f]) <= Cardinality(Complete(files[f])) + tears
        /\ acked[f] \in Nat /\ tears \in Nat
    BY <1>5 DEF Balanced
  <2> QED BY <1>4, <1>7, <1>8, <2>1, <2>2
<1> QED BY <1>4, <1>6, <1>7, <1>9 DEF Balanced

\* A write of any line that is not acknowledged is paid for by one more tear.
LEMMA TornBalances ==
    ASSUME IInv, Balanced(files, acked, tears), NEW f \in Files, NEW line \in Line,
           files' = [files EXCEPT ![f] = Put(@, line)], tears' = tears + 1, acked' = acked
    PROVE  Balanced(files', acked', tears')
<1>1. files[f] \in Seq(Line) BY DEF IInv, Shape
<1>2. files'[f] = Put(files[f], line) /\ \A g \in Files \ {f} : files'[g] = files[g]
  BY DEF IInv, Shape
<1>3. files'[f] \in Seq(Line)
      /\ Cardinality(Complete(files[f])) <= Cardinality(Complete(files'[f]))
  BY <1>1, <1>2, PutBalances
<1>4. ASSUME NEW g \in Files
      PROVE  acked[g] + Open(files'[g]) <= Cardinality(Complete(files'[g])) + tears + 1
  <2>1. files[g] \in Seq(Line) /\ files'[g] \in Seq(Line)
    BY <1>2, <1>3 DEF IInv, Shape
  <2>2. Cardinality(Complete(files[g])) \in Nat /\ Open(files[g]) \in {0, 1}
        /\ Cardinality(Complete(files'[g])) \in Nat /\ Open(files'[g]) \in {0, 1}
    BY <2>1, CompleteIsFinite
  <2>3. acked[g] + Open(files[g]) <= Cardinality(Complete(files[g])) + tears
        /\ acked[g] \in Nat /\ tears \in Nat
    BY DEF Balanced
  <2>4. Cardinality(Complete(files[g])) <= Cardinality(Complete(files'[g]))
    <3>1. CASE g = f BY <1>3, <3>1
    <3>2. CASE g # f BY <1>2, <2>2, <3>2
    <3> QED BY <3>1, <3>2
  <2> QED BY <2>2, <2>3, <2>4
<1>5. tears + 1 \in Nat /\ acked \in [Files -> Nat] BY DEF Balanced
<1>6. \A g \in Files : acked'[g] + Open(files'[g]) <= Cardinality(Complete(files'[g])) + tears'
  <2> TAKE g \in Files
  <2>1. acked[g] + Open(files'[g]) <= Cardinality(Complete(files'[g])) + tears + 1 BY <1>4
  <2>2. Cardinality(Complete(files'[g])) \in Nat /\ tears \in Nat
    <3>1. files'[g] \in Seq(Line) BY <1>2, <1>3 DEF IInv, Shape
    <3> QED BY <3>1, CompleteIsFinite DEF Balanced
  <2> QED BY <2>1, <2>2
<1> QED BY <1>5, <1>6 DEF Balanced

\* An append that returns an error leaves nothing, or a torn line (appendLocked).
LEMMA NotWrittenBalances ==
    ASSUME IInv, Balanced(files, acked, tears), NEW n \in Npcs, NEW s,
           NEW kind \in Kinds, NEW goal \in Goals \cup {NoGoal},
           NotWritten(n, s, kind, goal)
    PROVE  Balanced(files', acked', tears')
<1>1. Repaired(n, s) = NextSeq(n) BY DEF Repaired
<1>2. CASE UNCHANGED <<files, acked, tears>> BY <1>2
<1>3. CASE /\ HasRoom(n) /\ tears' = tears + 1 /\ acked' = acked
           /\ \E torn \in Torn(NewEvent(n, NextSeq(n), kind, goal)) :
                 files' = [files EXCEPT ![fileOf[n]] = Put(@, torn)]
  <2>1. PICK torn \in Torn(NewEvent(n, NextSeq(n), kind, goal)) :
            files' = [files EXCEPT ![fileOf[n]] = Put(@, torn)]
    BY <1>3
  <2>2. torn \in Line BY <1>3, <2>1, NewEventIsLine DEF HasRoom
  <2>3. fileOf[n] \in Files BY DEF IInv, Shape
  <2> QED BY <1>3, <2>1, <2>2, <2>3, TornBalances
<1> QED BY <1>1, <1>2, <1>3 DEF NotWritten

\* Every method of the store, a crash and a restart keep the balance.
LEMMA StepBalances ==
    ASSUME IInv, Balanced(files, acked, tears), Step
    PROVE  Balanced(files', acked', tears')
<1>1. "fact" \in Kinds /\ NoGoal \in Goals \cup {NoGoal} /\ GoalKinds \subseteq Kinds
  BY DEF Kinds
<1>2. CASE UNCHANGED <<files, acked, tears>> BY <1>2
<1>3. ASSUME NEW n \in Npcs, AppendEvent(n) PROVE Balanced(files', acked', tears')
  BY <1>1, <1>3, WrittenBalances, NotWrittenBalances DEF AppendEvent
<1>4. ASSUME NEW n \in Npcs, RemoveFile(n) PROVE Balanced(files', acked', tears')
  <2>1. /\ files' = [files EXCEPT ![fileOf[n]] = << >>]
        /\ acked' = [acked EXCEPT ![fileOf[n]] = 0] /\ tears' = tears
    BY <1>4 DEF RemoveFile
  <2>2. << >> \in Seq(Line) OBVIOUS
  <2>3. Cardinality(Complete(<< >>)) \in Nat BY <2>2, CompleteIsFinite
  <2>4. Open(<< >>) = 0 BY DEF Open
  <2>5. ASSUME NEW f \in Files
        PROVE  (files'[f] = << >> /\ acked'[f] = 0) \/ (files'[f] = files[f] /\ acked'[f] = acked[f])
    <3>1. files \in [Files -> Seq(Line)] /\ acked \in [Files -> Nat] BY DEF IInv, Shape, Balanced
    <3>2. CASE f = fileOf[n] BY <2>1, <3>1, <3>2
    <3>3. CASE f # fileOf[n] BY <2>1, <3>1, <3>3
    <3> QED BY <3>2, <3>3
  <2>6. acked' \in [Files -> Nat] BY <2>1 DEF Balanced
  <2> QED BY <2>1, <2>3, <2>4, <2>5, <2>6 DEF Balanced
<1>5. ASSUME NEW n \in Npcs, CrashInWrite(n) PROVE Balanced(files', acked', tears')
  <2> DEFINE line == NewEvent(n, NextSeq(n), "fact", NoGoal)
  <2>1. PICK rest \in Torn(line) \cup {line} : files' = [files EXCEPT ![fileOf[n]] = Put(@, rest)]
    BY <1>5 DEF CrashInWrite
  <2>2. NextSeq(n) <= MaxSeq /\ tears' = tears + 1 /\ acked' = acked
    BY <1>5 DEF CrashInWrite, HasRoom
  <2>3. rest \in Line BY <1>1, <2>1, <2>2, NewEventIsLine
  <2>4. fileOf[n] \in Files BY DEF IInv, Shape
  <2> QED BY <2>1, <2>2, <2>3, <2>4, TornBalances
<1>6. ASSUME NEW n \in Agents, NEW g \in Goals, SetGoal(n, g)
      PROVE  Balanced(files', acked', tears')
  <2>1. n \in Npcs BY TimelineAssumption
  <2>2. PICK kind \in GoalKinds : Written(n, NextSeq(n), kind, g) \/ NotWritten(n, NextSeq(n), kind, g)
    BY <1>6 DEF SetGoal, GoalKinds
  <2> QED BY <1>1, <2>1, <2>2, WrittenBalances, NotWrittenBalances
<1>7. ASSUME NEW n \in Agents, CompleteGoal(n) PROVE Balanced(files', acked', tears')
  <2>1. n \in Npcs /\ "GOAL_COMPLETED" \in Kinds BY <1>1, TimelineAssumption DEF GoalKinds
  <2> QED BY <1>1, <1>7, <2>1, WrittenBalances, NotWrittenBalances DEF CompleteGoal
<1>8. CASE AppendDraft
  <2>1. draft.npc \in Npcs BY <1>8 DEF AppendDraft, IInv, Shape
  <2> QED BY <1>1, <1>8, <2>1, WrittenBalances, NotWrittenBalances DEF AppendDraft
<1> QED BY <1>2, <1>3, <1>4, <1>5, <1>6, <1>7, <1>8
        DEF Step, DraftEvent, Touch, ForgetSeq, Stop

\* Every torn write costs at most one acknowledged event, whatever is written,
\* cut, deleted and restarted in between (appendLocked opens the file to append).
THEOREM TearsCostOneEach == Spec => []LossIsBounded
<1>1. Init => Balanced(files, acked, tears)
  <2> SUFFICES ASSUME Init PROVE Balanced(files, acked, tears) OBVIOUS
  <2>1. files = [f \in Files |-> << >>] /\ acked = [f \in Files |-> 0] /\ tears = 0 BY DEF Init
  <2>2. << >> \in Seq(Line) OBVIOUS
  <2>3. Cardinality(Complete(<< >>)) \in Nat BY <2>2, CompleteIsFinite
  <2>4. Open(<< >>) = 0 BY DEF Open
  <2> QED BY <2>1, <2>3, <2>4 DEF Balanced
<1>2. IInv /\ Balanced(files, acked, tears) /\ [Next]_vars => Balanced(files, acked, tears)'
  <2> SUFFICES ASSUME IInv, Balanced(files, acked, tears), [Next]_vars
               PROVE  Balanced(files', acked', tears')
    BY DEF Balanced
  <2>1. CASE Next BY <2>1, StepBalances DEF Next
  <2>2. CASE UNCHANGED vars BY <2>2 DEF vars
  <2> QED BY <2>1, <2>2
<1>3. IInv /\ Balanced(files, acked, tears) => LossIsBounded
  <2> SUFFICES ASSUME IInv, Balanced(files, acked, tears), NEW f \in Files
               PROVE  acked[f] <= Cardinality({i \in DOMAIN files[f] : files[f][i].whole}) + tears
    BY DEF LossIsBounded
  <2> DEFINE whole == {i \in DOMAIN files[f] : files[f][i].whole}
  <2>1. files[f] \in Seq(Line) BY DEF IInv, Shape
  <2>2. /\ Cardinality(Complete(files[f])) \in Nat /\ Open(files[f]) \in {0, 1}
        /\ Cardinality(Complete(files[f])) <= Cardinality(whole) /\ Cardinality(whole) \in Nat
    BY <2>1, CompleteIsFinite
  <2>3. acked[f] + Open(files[f]) <= Cardinality(Complete(files[f])) + tears
        /\ acked[f] \in Nat /\ tears \in Nat
    BY DEF Balanced
  <2> HIDE DEF whole
  <2>4. acked[f] <= Cardinality(whole) + tears BY <2>2, <2>3
  <2> QED BY <2>4 DEF whole
<1> QED BY <1>1, <1>2, <1>3, AlwaysNumbered, PTL DEF Spec

-----------------------------------------------------------------------------
(* Reading from the end. *)

\* The ends of the lines of a file, in bytes, are natural numbers.
LEMMA EndsExist ==
    ASSUME NEW lines \in Seq(Line)
    PROVE  \A i \in 0 .. Len(lines) : EndOf(lines)[i] \in Nat
<1> DEFINE size == Len(lines)
           Rule(f, i) == IF i = 0 THEN 0 ELSE f[i - 1] + Width(lines[i])
           Good(f, m) == f = [i \in 0 .. m |-> Rule(f, i)]
<1>1. size \in Nat OBVIOUS
<1>2. \A i \in DOMAIN lines : Width(lines[i]) \in Nat BY DEF Width
<1> HIDE DEF size
<1> DEFINE T == {m \in Nat : \E f : Good(f, m)}
<1>3. 0 .. size \subseteq T
  <2>1. 0 \in T
    <3>1. Good([i \in 0 .. 0 |-> 0], 0) OBVIOUS
    <3> QED BY <3>1
  <2>2. ASSUME NEW m \in 1 .. size, m - 1 \in T PROVE m \in T
    <3>1. PICK f : Good(f, m - 1) BY <2>2
    <3>2. m \in Nat /\ m # 0 BY <1>1
    <3> DEFINE g == [i \in 0 .. m |-> IF i = m THEN Rule(f, m) ELSE f[i]]
    <3>3. \A i \in 0 .. m : g[i] = Rule(g, i)
      <4> SUFFICES ASSUME NEW i \in 0 .. m PROVE g[i] = Rule(g, i) OBVIOUS
      <4>1. CASE i = 0
        <5>1. g[0] = f[0] BY <3>2, <4>1
        <5>2. f[0] = 0 BY <3>1, <3>2
        <5> QED BY <4>1, <5>1, <5>2
      <4>2. CASE i # 0
        <5>1. i - 1 \in 0 .. m /\ i - 1 # m BY <3>2, <4>2
        <5>2. g[i - 1] = f[i - 1] BY <5>1
        <5>3. CASE i = m BY <3>2, <5>2, <5>3
        <5>4. CASE i # m
          <6>1. i \in 0 .. m - 1 BY <3>2, <5>4
          <6>2. f[i] = Rule(f, i) BY <3>1, <6>1
          <6> QED BY <4>2, <5>2, <5>4, <6>2
        <5> QED BY <5>3, <5>4
      <4> QED BY <4>1, <4>2
    <3>4. g = [i \in 0 .. m |-> g[i]] OBVIOUS
    <3> HIDE DEF g
    <3>5. Good(g, m) BY <3>3, <3>4
    <3> QED BY <3>2, <3>5
  <2> HIDE DEF T
  <2> QED BY <1>1, <2>1, <2>2, UpTo
<1> DEFINE end == EndOf(lines)
<1>4. end = CHOOSE f : Good(f, size) BY DEF EndOf, size
<1>5. Good(end, size)
  <2>1. size \in 0 .. size BY <1>1
  <2>2. \E f : Good(f, size) BY <1>3, <2>1
  <2> HIDE DEF Good
  <2> QED BY <1>4, <2>2
<1> HIDE DEF end
<1>6. \A i \in 0 .. size : end[i] \in Nat
  <2> DEFINE U == {i \in 0 .. size : end[i] \in Nat}
  <2>1. 0 \in U
    <3>1. end[0] = Rule(end, 0) BY <1>1, <1>5
    <3> QED BY <1>1, <3>1
  <2>2. ASSUME NEW m \in 1 .. size, m - 1 \in U PROVE m \in U
    <3>1. m \in 0 .. size /\ m # 0 /\ end[m - 1] \in Nat BY <1>1, <2>2
    <3>2. end[m] = Rule(end, m) BY <1>5, <3>1
    <3>3. m \in DOMAIN lines BY <2>2 DEF size
    <3> QED BY <1>2, <3>1, <3>2, <3>3
  <2> HIDE DEF U
  <2>3. 0 .. size \subseteq U BY <1>1, <2>1, <2>2, UpTo
  <2> QED BY <2>3 DEF U
<1> QED BY <1>6 DEF end, size

\* A nonempty bounded set of naturals has a greatest member.
LEMMA GreatestNatural ==
    ASSUME NEW m \in Nat, NEW T \in SUBSET (0 .. m), T # {}
    PROVE  Most(T) \in T /\ \A y \in T : Most(T) >= y
<1> DEFINE U == {m - x : x \in T}
<1>1. U \subseteq Nat OBVIOUS
<1>2. U # {}
  <2>1. PICK x \in T : TRUE OBVIOUS
  <2>2. m - x \in U OBVIOUS
  <2> QED BY <2>2
<1> HIDE DEF U
<1>3. PICK u \in U : \A y \in U : u <= y BY <1>1, <1>2, LeastNatural
<1>4. PICK x \in T : u = m - x BY <1>3 DEF U
<1>5. \A y \in T : x >= y
  <2> SUFFICES ASSUME NEW y \in T PROVE x >= y OBVIOUS
  <2>1. m - y \in U BY DEF U
  <2>2. m - x <= m - y BY <1>3, <1>4, <2>1
  <2> QED BY <2>2
<1> QED BY <1>5 DEF Most

\* The bytes read at last start where the file does, or hold more newlines than
\* lines are wanted (tailNonEmptyLines).
LEMMA ReadsEnough ==
    ASSUME NEW lines \in Seq(Line), NEW limit \in Nat
    PROVE  LET p == ReadFrom(lines, limit) IN p = 0 \/ (p \in Nat /\ Newlines(lines, p) > limit)
<1> DEFINE size == EndOf(lines)[Len(lines)]
           Start(c) == IF c * Chunk >= size THEN 0 ELSE size - c * Chunk
           reads == {Start(c) : c \in 0 .. size}
           T == {p \in reads : p = 0 \/ Newlines(lines, p) > limit}
<1>1. size \in Nat
  <2>1. Len(lines) \in 0 .. Len(lines) OBVIOUS
  <2> QED BY <2>1, EndsExist
<1>2. ReadFrom(lines, limit) = Most(T) BY DEF ReadFrom
<1> HIDE DEF size
<1>3. Chunk \in Nat /\ Chunk > 0 BY TimelineAssumption
<1>4. reads \subseteq 0 .. size BY <1>1, <1>3
<1>5. 0 \in reads
  <2>1. size * Chunk >= size BY <1>1, <1>3
  <2>2. size \in 0 .. size BY <1>1
  <2>3. Start(size) = 0 BY <2>1
  <2> QED BY <2>2, <2>3
<1> HIDE DEF reads
<1>6. T \subseteq 0 .. size /\ 0 \in T BY <1>4, <1>5
<1>7. Most(T) \in T
  <2> HIDE DEF T
  <2> QED BY <1>1, <1>6, GreatestNatural
<1>8. Most(T) \in Nat BY <1>1, <1>6, <1>7
<1> QED BY <1>2, <1>7, <1>8

\* Reading backwards in chunks finds the lines a scan of the file ends with.
LEMMA TailIsTheEnd ==
    ASSUME NEW lines \in Seq(Line), NEW limit \in Nat \ {0}
    PROVE  TailLines(lines, limit) =
             SubSeq(lines, IF Len(lines) > limit THEN Len(lines) - limit + 1 ELSE 1, Len(lines))
<1> DEFINE p     == ReadFrom(lines, limit)
           bytes == Touched(lines, p)
           first == IF p = 0 THEN 1 ELSE 1 + Least(bytes)
           keep  == IF Len(lines) > limit THEN Len(lines) - limit + 1 ELSE 1
<1>1. Len(lines) \in Nat /\ keep \in Nat /\ keep >= 1 OBVIOUS
<1>2. first \in Nat /\ first <= keep
  <2>1. CASE p = 0 BY <1>1, <2>1
  <2>2. CASE p # 0
    <3> DEFINE ended == {i \in bytes : lines[i].ended}
    <3>1. Cardinality(ended) > limit BY <2>2, ReadsEnough DEF Newlines
    <3>2. bytes \subseteq 1 .. Len(lines) BY DEF Touched
    <3>3. ended \subseteq bytes OBVIOUS
    <3> HIDE DEF bytes, ended
    <3>4. /\ IsFiniteSet(bytes) /\ Cardinality(bytes) \in Nat
          /\ Cardinality(ended) <= Cardinality(bytes) /\ Cardinality(ended) \in Nat
      <4>1. IsFiniteSet(1 .. Len(lines)) BY <1>1, FS_Interval
      <4>2. IsFiniteSet(bytes) BY <3>2, <4>1, FS_Subset
      <4> QED BY <3>3, <4>2, FS_Subset, FS_CardinalityType
    <3>5. bytes # {} BY <3>1, <3>4, FS_EmptySet
    <3>6. Least(bytes) \in bytes /\ \A y \in bytes : Least(bytes) <= y
      <4>1. bytes \subseteq Nat BY <3>2
      <4> QED BY <3>5, <4>1, LeastNatural DEF Least
    <3>7. PICK t \in 1 .. Len(lines) : t = Least(bytes) BY <3>2, <3>6
    <3>8. bytes \subseteq t .. Len(lines) BY <1>1, <3>2, <3>6, <3>7
    <3>9. Cardinality(bytes) <= Len(lines) - t + 1
      <4>1. IsFiniteSet(t .. Len(lines)) /\ Cardinality(t .. Len(lines)) = Len(lines) - t + 1
        BY <1>1, FS_Interval
      <4> QED BY <3>8, <4>1, FS_Subset
    <3>10. limit < Len(lines) - t + 1 BY <1>1, <3>1, <3>4, <3>9
    <3> QED BY <1>1, <2>2, <3>7, <3>10
  <2> QED BY <2>1, <2>2
<1>3. (IF keep > first THEN keep ELSE first) = keep BY <1>1, <1>2
<1>4. TailLines(lines, limit) = SubSeq(lines, IF keep > first THEN keep ELSE first, Len(lines))
  BY DEF TailLines
<1> QED BY <1>3, <1>4

\* Wherever the chunks are cut, RecentEvents reads the lines the file ends with
\* (tailNonEmptyLines).
THEOREM ChunksFindTheTail == Spec => []TailIsSuffix
<1>1. IInv => TailIsSuffix
  <2> SUFFICES ASSUME IInv, NEW f \in Files, NEW limit \in 1 .. Window + 1
               PROVE  TailLines(files[f], limit) =
                        SubSeq(files[f], IF Len(files[f]) > limit THEN Len(files[f]) - limit + 1
                                         ELSE 1, Len(files[f]))
    BY DEF TailIsSuffix
  <2>1. files[f] \in Seq(Line) /\ limit \in Nat \ {0} BY TimelineAssumption DEF IInv, Shape
  <2> QED BY <2>1, TailIsTheEnd
<1> QED BY <1>1, AlwaysNumbered, PTL

-----------------------------------------------------------------------------
(* Two pages of a timeline. *)

\* A filter with one bound and no limit takes the lines within the bound (Grab).
LEMMA PageLines ==
    ASSUME NEW n \in Npcs, files[fileOf[n]] \in Seq(Line), AllEvents(n) # None, NEW s \in Nat \ {0}
    PROVE  LET lines == files[fileOf[n]] IN
           /\ AllEvents(n) = lines
           /\ GrabTimeline(n, [All EXCEPT !.before = s + 1])
                 = Picked(lines, {i \in DOMAIN lines : lines[i].seq < s + 1})
           /\ GrabTimeline(n, [All EXCEPT !.since = s])
                 = Picked(lines, {i \in DOMAIN lines : lines[i].seq > s})
<1> DEFINE lines  == files[fileOf[n]]
           before == [All EXCEPT !.before = s + 1]
           since  == [All EXCEPT !.since = s]
<1>1. AllEvents(n) = lines BY DEF AllEvents
<1>2. /\ before.names = {} /\ before.tags = {} /\ before.minimum = 0 /\ before.since = 0
      /\ before.limit = 0 /\ before.before = s + 1
  BY DEF All
<1>3. /\ since.names = {} /\ since.tags = {} /\ since.minimum = 0 /\ since.before = 0
      /\ since.limit = 0 /\ since.since = s
  BY DEF All
<1>4. s > 0 /\ s + 1 > 0 /\ ~ (0 > 0) OBVIOUS
<1> HIDE DEF before, since, lines
<1>5. \A e : Passes(e, before) <=> e.seq < s + 1 BY <1>2, <1>4 DEF Passes
<1>6. \A e : Passes(e, since) <=> e.seq > s BY <1>3, <1>4 DEF Passes
<1>7. {i \in DOMAIN lines : Passes(lines[i], before)} = {i \in DOMAIN lines : lines[i].seq < s + 1}
  BY <1>5
<1>8. {i \in DOMAIN lines : Passes(lines[i], since)} = {i \in DOMAIN lines : lines[i].seq > s}
  BY <1>6
<1>9. GrabTimeline(n, before) = Picked(lines, {i \in DOMAIN lines : lines[i].seq < s + 1})
  BY <1>1, <1>2, <1>4, <1>7 DEF GrabTimeline
<1>10. GrabTimeline(n, since) = Picked(lines, {i \in DOMAIN lines : lines[i].seq > s})
  BY <1>1, <1>3, <1>4, <1>8 DEF GrabTimeline
<1> QED BY <1>1, <1>9, <1>10 DEF before, since, lines

\* What came before a number and what came since make up the timeline, once and in
\* order, whatever was torn or deleted (Grab with BeforeSeq and with SinceSeq).
THEOREM PagesMakeTheTimeline == Spec => []PagesJoin
<1>1. IInv => PagesJoin
  <2> SUFFICES ASSUME IInv, NEW n \in Npcs, Alone(n), AllEvents(n) # None, NEW s \in 1 .. MaxSeq
               PROVE  GrabTimeline(n, [All EXCEPT !.before = s + 1])
                        \o GrabTimeline(n, [All EXCEPT !.since = s]) = AllEvents(n)
    BY DEF PagesJoin
  <2> DEFINE lines == files[fileOf[n]]
             K == {i \in DOMAIN lines : lines[i].seq < s + 1}
             R == {i \in DOMAIN lines : lines[i].seq > s}
  <2>1. fileOf[n] \in Files /\ lines \in Seq(Line) /\ s \in Nat \ {0}
    BY TimelineAssumption DEF IInv, Shape
  <2>2. \A i \in DOMAIN lines : lines[i].npc = n /\ lines[i].seq \in Nat
    <3>1. \A i \in DOMAIN lines : lines[i] \in Line BY <2>1
    <3>2. \A i \in DOMAIN lines : lines[i].npc \in Npcs /\ lines[i].seq \in Nat
      BY <3>1, TimelineAssumption DEF Line
    <3> QED BY <2>1, <3>2 DEF IInv, Numbered, Alone
  <2>3. \A i, j \in DOMAIN lines : i < j => lines[i].seq < lines[j].seq
    BY <2>1, <2>2 DEF IInv, Numbered, InOrder
  <2> HIDE DEF lines
  <2>4. K \in SUBSET DOMAIN lines /\ R = DOMAIN lines \ K BY <2>1, <2>2
  <2>5. \A i \in K, j \in R : i < j
    <3> SUFFICES ASSUME NEW i \in K, NEW j \in R, ~ (i < j) PROVE FALSE OBVIOUS
    <3>1. i \in Nat /\ j \in Nat BY <2>1
    <3>2. i = j \/ j < i BY <3>1
    <3>3. lines[j].seq <= lines[i].seq BY <2>2, <2>3, <3>2
    <3> QED BY <2>1, <2>2, <3>3
  <2> HIDE DEF K, R
  <2>6. Picked(lines, K) \o Picked(lines, R) = lines BY <2>1, <2>4, <2>5, PickedHalves
  <2> QED BY <2>1, <2>6, PageLines DEF lines, K, R
<1> QED BY <1>1, AlwaysNumbered, PTL

-----------------------------------------------------------------------------
(* The goal a new process finds. *)

\* The goal an NPC has after a goal event.
GoalOf(line) == IF line.kind = "GOAL_COMPLETED" THEN NoGoal ELSE line.goal

InWindow(lines, i) == Len(lines) < i + Window
Legible(lines) == \A i \in DOMAIN lines : InWindow(lines, i) => lines[i].whole

\* A goal event that every line from it on leaves in force and readable.
LastMark(lines, i) ==
    /\ lines[i].kind \in GoalKinds
    /\ \A j \in DOMAIN lines : j >= i => lines[j].whole /\ lines[j].ended
    /\ \A j \in DOMAIN lines : j > i => lines[j].kind \notin GoalKinds

Remembers(lines, goal) ==
    \A i \in DOMAIN lines : InWindow(lines, i) /\ LastMark(lines, i) => goal = GoalOf(lines[i])

\* What was torn was torn after the last goal event.
MarksFirst(lines) ==
    \A i, j \in DOMAIN lines :
        /\ lines[i].kind \in GoalKinds /\ lines[i].whole /\ lines[i].ended
        /\ ~ lines[j].whole
        => i < j

\* The goal in memory is the one the file tells, unless the process found a torn
\* line in the window, in which case nothing is written until the file is deleted.
\* As long as it has not looked, no goal event follows a line torn by it.
Agrees(lines, cache, goal) ==
    /\ goal = None /\ cache # None => MarksFirst(lines)
    /\ goal # None => Remembers(lines, goal) \/ (cache = None /\ ~ Legible(lines))

GInv == \A n \in Agents : Alone(n) => Agrees(files[fileOf[n]], lastSeq[n], held[n])

\* A process that numbers an event has read the file, or written all that is new.
LEMMA ScanAgrees ==
    ASSUME NEW lines \in Seq(Line), NEW cache, NEW goal, Agrees(lines, cache, goal),
           cache # None \/ Readable(lines), NEW new
    PROVE  Agrees(lines, new, goal)
  BY DEF Agrees, MarksFirst, Legible, Readable

\* A cache that is dropped promises nothing (Delete).
LEMMA ForgetAgrees ==
    ASSUME NEW lines, NEW cache, NEW goal, Agrees(lines, cache, goal)
    PROVE  Agrees(lines, None, goal)
  BY DEF Agrees

\* An empty file tells of no goal.
LEMMA EmptyAgrees ==
    ASSUME NEW cache, NEW goal
    PROVE  Agrees(<< >>, cache, goal)
<1>1. DOMAIN << >> = {} OBVIOUS
<1> QED BY <1>1 DEF Agrees, Remembers, MarksFirst

\* A fact, or a line of any kind without its newline, changes no goal (appendLocked).
LEMMA FactAgrees ==
    ASSUME NEW lines \in Seq(Line), InOrder(lines), NEW cache, NEW goal,
           Agrees(lines, cache, goal), cache # None \/ Readable(lines),
           NEW line \in Line, line.kind \notin GoalKinds \/ ~ line.ended, NEW new
    PROVE  Agrees(Put(lines, line), new, goal)
<1> DEFINE out == Put(lines, line)
           size == Len(out)
<1>1. /\ out \in Seq(Line) /\ size \in Nat /\ size > 0
      /\ out[size].kind = line.kind /\ out[size].ended = line.ended
      /\ out[size].whole => size = Len(lines) + 1
      /\ \A i \in 1 .. size - 1 : i \in DOMAIN lines /\ out[i] = lines[i]
  BY PutShape
<1>2. DOMAIN out = 1 .. size /\ size \in DOMAIN out BY <1>1
<1>3. DOMAIN lines = 1 .. Len(lines) /\ Len(lines) \in Nat OBVIOUS
<1> HIDE DEF out, size
<1>4. ASSUME goal = None PROVE MarksFirst(out)
  <2> SUFFICES ASSUME NEW i \in DOMAIN out, NEW j \in DOMAIN out, out[i].kind \in GoalKinds,
                      out[i].whole, out[i].ended, ~ out[j].whole
               PROVE  i < j
    BY DEF MarksFirst
  <2>1. i # size BY <1>1
  <2>2. i \in 1 .. size - 1 BY <1>1, <1>2, <2>1
  <2>3. CASE j = size BY <1>1, <2>2, <2>3
  <2>4. CASE j # size
    <3>1. j \in 1 .. size - 1 BY <1>1, <1>2, <2>4
    <3>2. MarksFirst(lines) BY <1>4 DEF Agrees, MarksFirst, Readable
    <3> QED BY <1>1, <2>2, <3>1, <3>2 DEF MarksFirst
  <2> QED BY <2>3, <2>4
<1>5. ASSUME goal # None PROVE Remembers(out, goal)
  <2> SUFFICES ASSUME NEW i \in DOMAIN out, Len(out) < i + Window, LastMark(out, i)
               PROVE  goal = GoalOf(out[i])
    BY DEF Remembers, InWindow
  <2>1. i \in 1 .. size BY <1>2
  <2>2. out[size].whole /\ out[size].ended BY <1>1, <1>2, <2>1 DEF LastMark
  <2>3. size = Len(lines) + 1 /\ i # size BY <1>1, <2>2 DEF LastMark
  <2>4. i \in 1 .. size - 1 BY <1>1, <2>1, <2>3
  <2>5. \A j \in DOMAIN lines : j \in DOMAIN out /\ out[j] = lines[j] BY <1>1, <1>2, <1>3, <2>3
  <2>6. LastMark(lines, i) BY <1>1, <2>4, <2>5 DEF LastMark
  <2>7. Len(lines) < i + Window BY <1>1, <1>3, <2>3, <2>4, TimelineAssumption DEF size
  <2>8. Remembers(lines, goal) BY <1>5 DEF Agrees, Legible, Readable
  <2> QED BY <1>1, <2>4, <2>6, <2>7, <2>8 DEF Remembers, InWindow
<1> QED BY <1>4, <1>5 DEF Agrees, out

\* A goal event that is written sets the goal it tells (executeDecision, reactToEvent).
LEMMA MarkAgrees ==
    ASSUME NEW lines \in Seq(Line), InOrder(lines), NEW line \in Line,
           line.kind \in GoalKinds, NEW cache
    PROVE  Agrees(Put(lines, line), cache, GoalOf(line))
<1> DEFINE out == Put(lines, line)
           size == Len(out)
<1>1. /\ out \in Seq(Line) /\ size \in Nat /\ size > 0
      /\ out[size].kind = line.kind /\ out[size].goal = line.goal
  BY PutShape
<1>2. DOMAIN out = 1 .. size /\ size \in DOMAIN out BY <1>1
<1> HIDE DEF out, size
<1>3. GoalOf(line) # None BY TimelineAssumption DEF GoalOf, Line
<1>4. ASSUME NEW i \in DOMAIN out, LastMark(out, i) PROVE GoalOf(line) = GoalOf(out[i])
  <2>1. i = size BY <1>1, <1>2, <1>4 DEF LastMark
  <2> QED BY <1>1, <2>1 DEF GoalOf
<1> QED BY <1>3, <1>4 DEF Agrees, Remembers, out

\* The window: what RecentEvents decodes, line by line.
LEMMA WindowLines ==
    ASSUME NEW lines \in Seq(Line)
    PROVE  LET recent == TailLines(lines, Window)
               skip   == IF Len(lines) > Window THEN Len(lines) - Window ELSE 0
           IN  /\ recent \in Seq(Line) /\ skip \in Nat
               /\ DOMAIN recent = 1 .. Len(lines) - skip
               /\ \A k \in DOMAIN recent : /\ k + skip \in DOMAIN lines
                                          /\ recent[k] = lines[k + skip]
                                          /\ InWindow(lines, k + skip)
               /\ \A i \in DOMAIN lines : InWindow(lines, i) => i - skip \in DOMAIN recent
<1> DEFINE skip == IF Len(lines) > Window THEN Len(lines) - Window ELSE 0
           recent == SubSeq(lines, skip + 1, Len(lines))
<1>1. Len(lines) \in Nat /\ DOMAIN lines = 1 .. Len(lines) /\ Window \in Nat \ {0}
  BY TimelineAssumption
<1>2. skip \in Nat /\ skip <= Len(lines) BY <1>1
<1>3. (IF Len(lines) > Window THEN Len(lines) - Window + 1 ELSE 1) = skip + 1 BY <1>1
<1>4. TailLines(lines, Window) = recent BY <1>1, <1>3, TailIsTheEnd
<1>5. \A i \in DOMAIN lines : InWindow(lines, i) <=> i > skip BY <1>1 DEF InWindow
<1> HIDE DEF skip
<1>6. /\ recent \in Seq(Line) /\ DOMAIN recent = 1 .. Len(lines) - skip
      /\ \A k \in 1 .. Len(lines) - skip : recent[k] = lines[k + skip]
  <2>1. /\ Len(recent) = Len(lines) - skip
        /\ \A k \in 1 .. Len(lines) - skip : recent[k] = lines[skip + 1 + k - 1]
    BY <1>1, <1>2
  <2>2. \A k \in 1 .. Len(lines) - skip : skip + 1 + k - 1 = k + skip BY <1>2
  <2>3. recent \in Seq(Line) BY <1>1, <1>2
  <2> QED BY <2>1, <2>2, <2>3
<1> HIDE DEF recent
<1>7. \A k \in DOMAIN recent : k + skip \in DOMAIN lines /\ k + skip > skip BY <1>1, <1>2, <1>6
<1>8. \A i \in DOMAIN lines : InWindow(lines, i) => i - skip \in DOMAIN recent
  BY <1>1, <1>2, <1>5, <1>6
<1> QED BY <1>2, <1>4, <1>5, <1>6, <1>7, <1>8 DEF skip

\* A new process finds the goal of the last mark in a window it can read, and a goal
\* or none in any case (agentStateLocked).
LEMMA RehydratesLast ==
    ASSUME NEW n \in Npcs, files[fileOf[n]] \in Seq(Line)
    PROVE  LET lines == files[fileOf[n]] IN
           /\ Rehydrated(n) \in Goals \cup {NoGoal}
           /\ RecentEvents(n, Window) # None <=> Legible(lines)
           /\ RecentEvents(n, Window) # None =>
                 \A k \in DOMAIN RecentEvents(n, Window) :
                    \E i \in DOMAIN lines : InWindow(lines, i) /\ lines[i] = RecentEvents(n, Window)[k]
           /\ Legible(lines) =>
                 \A i \in DOMAIN lines :
                    /\ InWindow(lines, i) /\ lines[i].kind \in GoalKinds
                    /\ \A j \in DOMAIN lines : j > i => lines[j].kind \notin GoalKinds
                    => Rehydrated(n) = GoalOf(lines[i])
<1> DEFINE lines == files[fileOf[n]]
           recent == TailLines(lines, Window)
           skip == IF Len(lines) > Window THEN Len(lines) - Window ELSE 0
           marks == {k \in DOMAIN recent : recent[k].kind \in GoalKinds}
<1>1. /\ recent \in Seq(Line) /\ skip \in Nat /\ DOMAIN recent = 1 .. Len(lines) - skip
      /\ \A k \in DOMAIN recent : /\ k + skip \in DOMAIN lines
                                 /\ recent[k] = lines[k + skip]
                                 /\ InWindow(lines, k + skip)
      /\ \A i \in DOMAIN lines : InWindow(lines, i) => i - skip \in DOMAIN recent
  BY WindowLines
<1>2. lines \in Seq(Line) /\ Len(lines) \in Nat /\ DOMAIN lines = 1 .. Len(lines) OBVIOUS
<1>3. recent # None BY <1>1, NoneAssumption
<1>4. RecentEvents(n, Window) = IF Readable(recent) THEN recent ELSE None BY DEF RecentEvents
<1>5. Rehydrated(n) =
        IF ~ Readable(recent) \/ marks = {} \/ recent[Most(marks)].kind = "GOAL_COMPLETED"
        THEN NoGoal ELSE recent[Most(marks)].goal
  BY <1>3, <1>4 DEF Rehydrated
<1> HIDE DEF lines, recent, skip
<1>6. \A i \in DOMAIN lines : InWindow(lines, i) =>
          i - skip \in DOMAIN recent /\ recent[i - skip] = lines[i]
  <2> SUFFICES ASSUME NEW i \in DOMAIN lines, InWindow(lines, i)
               PROVE  i - skip \in DOMAIN recent /\ recent[i - skip] = lines[i]
    OBVIOUS
  <2>1. (i - skip) + skip = i BY <1>1, <1>2
  <2> QED BY <1>1, <2>1
<1>7. Readable(recent) <=> Legible(lines) BY <1>1, <1>6 DEF Readable, Legible
<1>8. marks # {} => Most(marks) \in marks /\ \A y \in marks : Most(marks) >= y
  <2>1. Len(lines) - skip \in Nat \/ DOMAIN recent = {} BY <1>1, <1>2
  <2>2. CASE Len(lines) - skip \in Nat
    <3>1. marks \subseteq 0 .. Len(lines) - skip BY <1>1, <2>2
    <3> HIDE DEF marks
    <3> QED BY <2>2, <3>1, GreatestNatural
  <2>3. CASE DOMAIN recent = {} BY <2>3
  <2> QED BY <2>1, <2>2, <2>3
<1>9. Rehydrated(n) \in Goals \cup {NoGoal}
  <2>1. \A k \in DOMAIN recent : recent[k] \in Line BY <1>1
  <2>2. \A k \in DOMAIN recent : recent[k].goal \in Goals \cup {NoGoal} BY <2>1 DEF Line
  <2> QED BY <1>5, <1>8, <2>2
<1>10. ASSUME Legible(lines), NEW i \in DOMAIN lines, InWindow(lines, i),
              lines[i].kind \in GoalKinds,
              \A j \in DOMAIN lines : j > i => lines[j].kind \notin GoalKinds
       PROVE  Rehydrated(n) = GoalOf(lines[i])
  <2>1. i - skip \in marks BY <1>6, <1>10
  <2>2. PICK k \in marks : k = Most(marks) BY <1>8, <2>1
  <2>3. k >= i - skip BY <1>8, <2>1, <2>2
  <2>4. k + skip >= i BY <1>1, <1>2, <2>2, <2>3
  <2>5. k + skip \in DOMAIN lines /\ lines[k + skip] = recent[k] BY <1>1, <2>2
  <2>6. ~ (k + skip > i) BY <1>10, <2>2, <2>5
  <2>7. k + skip = i BY <1>2, <2>4, <2>5, <2>6
  <2>8. Rehydrated(n) = IF recent[k].kind = "GOAL_COMPLETED" THEN NoGoal ELSE recent[k].goal
    BY <1>5, <1>7, <1>10, <2>1, <2>2
  <2> QED BY <2>5, <2>7, <2>8 DEF GoalOf
<1>11. RecentEvents(n, Window) # None =>
         \A k \in DOMAIN RecentEvents(n, Window) :
            \E i \in DOMAIN lines : InWindow(lines, i) /\ lines[i] = RecentEvents(n, Window)[k]
  BY <1>1, <1>4
<1> QED BY <1>3, <1>4, <1>7, <1>9, <1>10, <1>11 DEF lines

\* On first use the goal in memory becomes the one the file tells (agentStateLocked).
LEMMA FirstUseAgrees ==
    ASSUME NEW n \in Npcs, files[fileOf[n]] \in Seq(Line),
           NEW cache, Agrees(files[fileOf[n]], cache, None)
    PROVE  Agrees(files[fileOf[n]], cache, Rehydrated(n))
<1> DEFINE lines == files[fileOf[n]]
<1>1. Rehydrated(n) # None BY RehydratesLast, TimelineAssumption
<1>2. CASE Legible(lines)
  <2>1. \A i \in DOMAIN lines : InWindow(lines, i) /\ LastMark(lines, i) =>
           Rehydrated(n) = GoalOf(lines[i])
    BY <1>2, RehydratesLast DEF LastMark
  <2> QED BY <1>1, <2>1 DEF Agrees, Remembers
<1>3. CASE ~ Legible(lines) /\ cache = None BY <1>1, <1>3 DEF Agrees
<1>4. CASE ~ Legible(lines) /\ cache # None
  <2>1. PICK j \in DOMAIN lines : ~ lines[j].whole BY <1>4 DEF Legible
  <2>2. MarksFirst(lines) BY <1>4 DEF Agrees
  <2>3. \A i \in DOMAIN lines : ~ LastMark(lines, i)
    <3> SUFFICES ASSUME NEW i \in DOMAIN lines, LastMark(lines, i) PROVE FALSE OBVIOUS
    <3>1. i \in Nat /\ j \in Nat BY <2>1
    <3>2. lines[i].kind \in GoalKinds /\ lines[i].whole /\ lines[i].ended BY <3>1 DEF LastMark
    <3>3. i < j BY <2>1, <2>2, <3>2 DEF MarksFirst
    <3> QED BY <2>1, <3>1, <3>3 DEF LastMark
  <2> QED BY <1>1, <2>3 DEF Agrees, Remembers
<1> QED BY <1>2, <1>3, <1>4

-----------------------------------------------------------------------------
(* The steps, for the goal. *)

\* Another id, of another file, writes, deletes and is numbered beside this one.
LEMMA ElsewhereAgrees ==
    ASSUME IInv, NEW a \in Agents, Alone(a), NEW n \in Npcs, n # a,
           NEW lines, files' = [files EXCEPT ![fileOf[n]] = lines] \/ files' = files
    PROVE  files'[fileOf[a]] = files[fileOf[a]]
<1>1. a \in Npcs /\ fileOf[n] # fileOf[a] BY TimelineAssumption DEF Alone
<1> QED BY <1>1 DEF IInv, Shape

\* An append that is written agrees with a goal its event does not change.
LEMMA WrittenAgrees ==
    ASSUME IInv, NEW a \in Agents, Alone(a), NEW goal, Agrees(files[fileOf[a]], lastSeq[a], goal),
           NEW n \in Npcs, NEW s, NEW kind \in Kinds, NEW g \in Goals \cup {NoGoal},
           kind = "fact" \/ n # a, Written(n, s, kind, g)
    PROVE  Agrees(files'[fileOf[a]], lastSeq'[a], goal)
<1> DEFINE line == NewEvent(n, NextSeq(n), kind, g)
<1>1. Repaired(n, s) = NextSeq(n) BY DEF Repaired
<1>2. line \in Line BY NewEventIsLine DEF Written, HasRoom
<1>3. /\ files' = [files EXCEPT ![fileOf[n]] = Put(@, line)]
      /\ lastSeq' = [lastSeq EXCEPT ![n] = NextSeq(n)]
  BY <1>1 DEF Written
<1>4. CASE n = a
  <2>1. line.kind \notin GoalKinds BY <1>4 DEF NewEvent, GoalKinds
  <2> HIDE DEF line
  <2>2. files[fileOf[a]] \in Seq(Line) /\ InOrder(files[fileOf[a]]) /\ a \in Npcs
    BY TimelineAssumption DEF IInv, Shape, Numbered
  <2>3. files'[fileOf[a]] = Put(files[fileOf[a]], line) BY <1>3, <1>4, <2>2 DEF IInv, Shape
  <2>4. lastSeq[a] # None \/ Readable(files[fileOf[a]]) BY <1>4 DEF Written, Refuses
  <2> QED BY <1>2, <2>1, <2>2, <2>3, <2>4, FactAgrees
<1>5. CASE n # a
  <2>1. files'[fileOf[a]] = files[fileOf[a]] BY <1>3, <1>5, ElsewhereAgrees
  <2>2. lastSeq'[a] = lastSeq[a] BY <1>3, <1>5, TimelineAssumption DEF IInv, Shape
  <2> QED BY <2>1, <2>2
<1> QED BY <1>4, <1>5

\* An append that fails agrees with the goal before it.
LEMMA NotWrittenAgrees ==
    ASSUME IInv, NEW a \in Agents, Alone(a), NEW goal, Agrees(files[fileOf[a]], lastSeq[a], goal),
           NEW n \in Npcs, NEW s, NEW kind \in Kinds, NEW g \in Goals \cup {NoGoal},
           NotWritten(n, s, kind, g)
    PROVE  Agrees(files'[fileOf[a]], lastSeq'[a], goal)
<1> DEFINE line == NewEvent(n, NextSeq(n), kind, g)
<1>1. Repaired(n, s) = NextSeq(n) BY DEF Repaired
<1>2. files[fileOf[a]] \in Seq(Line) /\ InOrder(files[fileOf[a]]) /\ a \in Npcs
  BY TimelineAssumption DEF IInv, Shape, Numbered
<1>3. CASE UNCHANGED <<files, lastSeq>> BY <1>3
<1>4. CASE ~ Refuses(n) /\ lastSeq' = Scanned(n) /\ files' = files
  <2>1. CASE n = a
    <3>1. lastSeq[a] # None \/ Readable(files[fileOf[a]]) BY <1>4, <2>1 DEF Refuses
    <3> QED BY <1>2, <1>4, <3>1, ScanAgrees
  <2>2. CASE n # a
    <3>1. lastSeq'[a] = lastSeq[a] BY <1>2, <1>4, <2>2 DEF IInv, Shape, Scanned
    <3> QED BY <1>4, <3>1
  <2> QED BY <2>1, <2>2
<1>5. CASE /\ ~ Refuses(n) /\ HasRoom(n) /\ lastSeq' = Scanned(n)
           /\ \E torn \in Torn(line) : files' = [files EXCEPT ![fileOf[n]] = Put(@, torn)]
  <2>1. PICK torn \in Torn(line) : files' = [files EXCEPT ![fileOf[n]] = Put(@, torn)] BY <1>5
  <2>2. torn \in Line /\ ~ torn.ended BY <1>5, <2>1, NewEventIsLine DEF HasRoom
  <2>3. CASE n = a
    <3>1. lastSeq[a] # None \/ Readable(files[fileOf[a]]) BY <1>5, <2>3 DEF Refuses
    <3>2. files'[fileOf[a]] = Put(files[fileOf[a]], torn) BY <1>2, <2>1, <2>3 DEF IInv, Shape
    <3> QED BY <1>2, <2>2, <3>1, <3>2, FactAgrees
  <2>4. CASE n # a
    <3>1. files'[fileOf[a]] = files[fileOf[a]] BY <2>1, <2>4, ElsewhereAgrees
    <3>2. lastSeq'[a] = lastSeq[a] BY <1>2, <1>5, <2>4 DEF IInv, Shape, Scanned
    <3> QED BY <3>1, <3>2
  <2> QED BY <2>3, <2>4
<1> QED BY <1>1, <1>3, <1>4, <1>5 DEF NotWritten

\* A goal event of this NPC that is written sets its goal.
LEMMA GoalWrittenAgrees ==
    ASSUME IInv, NEW a \in Agents, NEW s, NEW kind \in GoalKinds, NEW g \in Goals \cup {NoGoal},
           Written(a, s, kind, g)
    PROVE  Agrees(files'[fileOf[a]], lastSeq'[a], IF kind = "GOAL_COMPLETED" THEN NoGoal ELSE g)
<1> DEFINE line == NewEvent(a, NextSeq(a), kind, g)
<1>1. Repaired(a, s) = NextSeq(a) BY DEF Repaired
<1>2. a \in Npcs /\ files[fileOf[a]] \in Seq(Line) /\ InOrder(files[fileOf[a]])
  BY TimelineAssumption DEF IInv, Shape, Numbered
<1>3. line \in Line BY <1>2, NewEventIsLine DEF Written, HasRoom, Kinds
<1>4. line.kind = kind /\ line.goal = g BY DEF NewEvent
<1>5. files' = [files EXCEPT ![fileOf[a]] = Put(@, line)] BY <1>1 DEF Written
<1> HIDE DEF line
<1>6. files'[fileOf[a]] = Put(files[fileOf[a]], line) BY <1>2, <1>5 DEF IInv, Shape
<1>7. GoalOf(line) = IF kind = "GOAL_COMPLETED" THEN NoGoal ELSE g BY <1>4 DEF GoalOf
<1> QED BY <1>2, <1>3, <1>4, <1>6, <1>7, MarkAgrees

\* What the process knows of its NPCs once it has looked for the goal of one.
LEMMA KnownAgrees ==
    ASSUME IInv, GInv, held \in [Agents -> Goals \cup {NoGoal, None}],
           NEW n \in Agents, NEW a \in Agents, Alone(a)
    PROVE  Agrees(files[fileOf[a]], lastSeq[a], Known(n)[a])
<1>1. a \in Npcs /\ files[fileOf[a]] \in Seq(Line) BY TimelineAssumption DEF IInv, Shape
<1>2. Agrees(files[fileOf[a]], lastSeq[a], held[a]) BY DEF GInv
<1>3. CASE a = n /\ held[n] = None
  <2>1. Known(n)[a] = Rehydrated(a) BY <1>3 DEF Known
  <2> QED BY <1>1, <1>2, <1>3, <2>1, FirstUseAgrees
<1>4. CASE ~ (a = n /\ held[n] = None)
  <2>1. Known(n)[a] = held[a] BY <1>4 DEF Known
  <2> QED BY <1>2, <2>1
<1> QED BY <1>3, <1>4

-----------------------------------------------------------------------------
(* The types. *)

TInv == IInv /\ TypeOK

\* A goal that is looked for is a goal, or none.
LEMMA KnownTypes ==
    ASSUME TInv, NEW n \in Agents
    PROVE  Known(n) \in [Agents -> Goals \cup {NoGoal, None}] /\ Known(n)[n] # None
<1>1. n \in Npcs /\ files[fileOf[n]] \in Seq(Line) BY TimelineAssumption DEF TInv, IInv, Shape
<1>2. Rehydrated(n) \in Goals \cup {NoGoal} BY <1>1, RehydratesLast
<1>3. Rehydrated(n) # None BY <1>2, TimelineAssumption
<1> QED BY <1>2, <1>3 DEF TInv, TypeOK, Known

\* The counters of an append.
LEMMA AppendTypes ==
    ASSUME TInv, NEW n \in Npcs, NEW s, NEW kind, NEW g,
           Written(n, s, kind, g) \/ NotWritten(n, s, kind, g)
    PROVE  tears' \in 0 .. MaxTears /\ acked' \in [Files -> Nat]
<1>1. /\ tears \in 0 .. MaxTears /\ acked \in [Files -> Nat] /\ MaxTears \in Nat
      /\ fileOf[n] \in Files
  BY TimelineAssumption DEF TInv, TypeOK
<1>2. CASE Written(n, s, kind, g) BY <1>1, <1>2 DEF Written
<1>3. CASE NotWritten(n, s, kind, g)
  <2>1. acked' = acked /\ (tears' = tears \/ (tears < MaxTears /\ tears' = tears + 1))
    BY <1>3 DEF NotWritten
  <2> QED BY <1>1, <2>1
<1> QED BY <1>2, <1>3

\* Every step keeps the types of what the numbers do not depend on.
LEMMA StepTypes ==
    ASSUME TInv, IInv', Step, UNCHANGED fileOf
    PROVE  TypeOK'
<1>1. \A h, d, r :
        /\ held' = h /\ draft' = d /\ removing' = r
        /\ h \in [Agents -> Goals \cup {NoGoal, None}]
        /\ d \in [npc : Npcs, seq : 1 .. MaxSeq] \cup {None}
        /\ r \in Npcs \cup {None}
        /\ tears' \in 0 .. MaxTears /\ acked' \in [Files -> Nat]
        => TypeOK'
  BY DEF IInv, Shape, TypeOK
<1>2. /\ held \in [Agents -> Goals \cup {NoGoal, None}]
      /\ draft \in [npc : Npcs, seq : 1 .. MaxSeq] \cup {None}
      /\ removing \in Npcs \cup {None}
      /\ tears \in 0 .. MaxTears /\ acked \in [Files -> Nat]
  BY DEF TInv, TypeOK
<1>3. ASSUME NEW n \in Npcs, DraftEvent(n) PROVE TypeOK'
  <2>1. LastOf(n) \in 0 .. MaxSeq BY LastCovers DEF TInv
  <2>2. NextSeq(n) \in 1 .. MaxSeq BY <1>3, <2>1, TimelineAssumption DEF DraftEvent, NextSeq
  <2>3. draft' \in [npc : Npcs, seq : 1 .. MaxSeq] BY <1>3, <2>2 DEF DraftEvent
  <2> QED BY <1>1, <1>2, <1>3, <2>3 DEF DraftEvent
<1>4. ASSUME NEW n \in Npcs, AppendEvent(n) PROVE TypeOK'
  BY <1>1, <1>2, <1>4, AppendTypes DEF AppendEvent
<1>5. ASSUME NEW n \in Npcs, RemoveFile(n) PROVE TypeOK'
  <2>1. acked' \in [Files -> Nat] /\ tears' = tears BY <1>2, <1>5 DEF RemoveFile
  <2> QED BY <1>1, <1>2, <1>5, <2>1 DEF RemoveFile
<1>6. ASSUME NEW n \in Npcs, CrashInWrite(n) PROVE TypeOK'
  <2>1. tears' \in 0 .. MaxTears /\ acked' = acked
    BY <1>2, <1>6, TimelineAssumption DEF CrashInWrite
  <2>2. held' \in [Agents -> Goals \cup {NoGoal, None}] BY <1>6 DEF CrashInWrite, Restart
  <2> QED BY <1>1, <1>2, <1>6, <2>1, <2>2 DEF CrashInWrite, Restart
<1>7. ASSUME NEW n \in Agents, NEW g \in Goals, SetGoal(n, g) PROVE TypeOK'
  <2>1. n \in Npcs BY TimelineAssumption
  <2>2. Known(n) \in [Agents -> Goals \cup {NoGoal, None}] BY KnownTypes
  <2>3. held' \in [Agents -> Goals \cup {NoGoal, None}] BY <1>7, <2>2 DEF SetGoal
  <2>4. tears' \in 0 .. MaxTears /\ acked' \in [Files -> Nat]
    BY <1>7, <2>1, AppendTypes DEF SetGoal
  <2> QED BY <1>1, <1>2, <1>7, <2>3, <2>4 DEF SetGoal
<1>8. ASSUME NEW n \in Agents, CompleteGoal(n) PROVE TypeOK'
  <2>1. n \in Npcs BY TimelineAssumption
  <2>2. held' \in [Agents -> Goals \cup {NoGoal, None}] BY <1>2, <1>8 DEF CompleteGoal
  <2>3. tears' \in 0 .. MaxTears /\ acked' \in [Files -> Nat]
    BY <1>8, <2>1, AppendTypes DEF CompleteGoal
  <2> QED BY <1>1, <1>2, <1>8, <2>2, <2>3 DEF CompleteGoal
<1>9. ASSUME NEW n \in Agents, Touch(n) PROVE TypeOK'
  BY <1>1, <1>2, <1>9, KnownTypes DEF Touch
<1>10. CASE AppendDraft
  <2>1. draft.npc \in Npcs BY <1>10 DEF AppendDraft, TInv, IInv, Shape
  <2>2. tears' \in 0 .. MaxTears /\ acked' \in [Files -> Nat]
    BY <1>10, <2>1, AppendTypes DEF AppendDraft
  <2> QED BY <1>1, <1>2, <1>10, <2>2 DEF AppendDraft
<1>11. CASE ForgetSeq BY <1>1, <1>2, <1>11 DEF ForgetSeq
<1>12. CASE Stop
  <2>1. held' \in [Agents -> Goals \cup {NoGoal, None}] BY <1>12 DEF Stop, Restart
  <2> QED BY <1>1, <1>2, <1>12, <2>1 DEF Stop, Restart
<1> QED BY <1>3, <1>4, <1>5, <1>6, <1>7, <1>8, <1>9, <1>10, <1>11, <1>12 DEF Step

\* The store's state keeps its types: whatever is torn, joined, deleted or lost, files
\* hold lines with numbers in range, and an NPC's goal is a goal or none.
THEOREM TypeCorrect == Spec => []TypeOK
<1>1. Init => TypeOK
  <2> SUFFICES ASSUME Init PROVE TypeOK OBVIOUS
  <2>1. << >> \in Seq(Line) OBVIOUS
  <2>2. files \in [Files -> Seq(Line)] BY <2>1 DEF Init
  <2>3. tears \in 0 .. MaxTears BY TimelineAssumption DEF Init
  <2> QED BY <2>2, <2>3 DEF Init, TypeOK
<1>2. TypeOK /\ IInv /\ IInv' /\ [Next]_vars => TypeOK'
  <2> SUFFICES ASSUME TypeOK, IInv, IInv', [Next]_vars PROVE TypeOK' OBVIOUS
  <2>1. CASE Next BY <2>1, StepTypes DEF Next, TInv
  <2>2. CASE UNCHANGED vars BY <2>2 DEF vars, TypeOK
  <2> QED BY <2>1, <2>2
<1> QED BY <1>1, <1>2, AlwaysNumbered, PTL DEF Spec

-----------------------------------------------------------------------------
(* The goal across restarts. *)

\* Every step keeps the goals in memory and on file in agreement.
LEMMA StepAgrees ==
    ASSUME IInv, TypeOK, GInv, Step, UNCHANGED fileOf
    PROVE  GInv'
<1> SUFFICES ASSUME NEW a \in Agents, Alone(a)
             PROVE  Agrees(files'[fileOf[a]], lastSeq'[a], held'[a])
  BY DEF GInv, Alone
<1>1. Agrees(files[fileOf[a]], lastSeq[a], held[a]) BY DEF GInv
<1>2. a \in Npcs /\ files[fileOf[a]] \in Seq(Line) BY TimelineAssumption DEF IInv, Shape
<1>3. "fact" \in Kinds /\ NoGoal \in Goals \cup {NoGoal} /\ GoalKinds \subseteq Kinds
  BY DEF Kinds
<1>4. held \in [Agents -> Goals \cup {NoGoal, None}] BY DEF TypeOK
<1>5. ASSUME NEW n \in Npcs, DraftEvent(n) PROVE Agrees(files'[fileOf[a]], lastSeq'[a], held'[a])
  <2>1. files' = files /\ held' = held BY <1>5 DEF DraftEvent
  <2>2. CASE n = a
    <3>1. lastSeq[a] # None \/ Readable(files[fileOf[a]]) BY <1>5, <2>2 DEF DraftEvent, Refuses
    <3> QED BY <1>1, <1>2, <2>1, <3>1, ScanAgrees
  <2>3. CASE n # a
    <3>1. lastSeq'[a] = lastSeq[a] BY <1>2, <1>5, <2>3 DEF DraftEvent, Scanned, IInv, Shape
    <3> QED BY <1>1, <2>1, <3>1
  <2> QED BY <2>2, <2>3
<1>6. ASSUME NEW n \in Npcs, AppendEvent(n) PROVE Agrees(files'[fileOf[a]], lastSeq'[a], held'[a])
  BY <1>1, <1>3, <1>6, WrittenAgrees, NotWrittenAgrees DEF AppendEvent
<1>7. ASSUME NEW n \in Npcs, RemoveFile(n) PROVE Agrees(files'[fileOf[a]], lastSeq'[a], held'[a])
  <2>1. /\ files' = [files EXCEPT ![fileOf[n]] = << >>] /\ held' = held /\ lastSeq' = lastSeq
    BY <1>7 DEF RemoveFile
  <2>2. CASE n = a
    <3>1. files'[fileOf[a]] = << >> BY <1>2, <2>1, <2>2 DEF IInv, Shape
    <3> QED BY <3>1, EmptyAgrees
  <2>3. CASE n # a BY <1>1, <2>1, <2>3, ElsewhereAgrees
  <2> QED BY <2>2, <2>3
<1>8. ASSUME lastSeq' = [n \in Npcs |-> None], held' = [n \in Agents |-> None]
      PROVE  Agrees(files'[fileOf[a]], lastSeq'[a], held'[a])
  BY <1>2, <1>8 DEF Agrees
<1>9. ASSUME NEW n \in Agents, NEW g \in Goals, SetGoal(n, g)
      PROVE  Agrees(files'[fileOf[a]], lastSeq'[a], held'[a])
  <2>1. n \in Npcs /\ Agrees(files[fileOf[a]], lastSeq[a], Known(n)[a])
    BY <1>4, KnownAgrees, TimelineAssumption
  <2>2. Known(n) \in [Agents -> Goals \cup {NoGoal, None}] BY KnownTypes DEF TInv
  <2>3. PICK kind \in {"GOAL_CREATED", "GOAL_CHANGED"} :
           \/ Written(n, NextSeq(n), kind, g) /\ held' = [Known(n) EXCEPT ![n] = g]
           \/ NotWritten(n, NextSeq(n), kind, g) /\ held' = Known(n)
    BY <1>9 DEF SetGoal
  <2>4. kind \in GoalKinds /\ kind \in Kinds /\ kind # "GOAL_COMPLETED" BY <2>3 DEF GoalKinds, Kinds
  <2>5. CASE NotWritten(n, NextSeq(n), kind, g) /\ held' = Known(n)
    BY <2>1, <2>4, <2>5, NotWrittenAgrees
  <2>6. CASE n = a /\ Written(n, NextSeq(n), kind, g) /\ held' = [Known(n) EXCEPT ![n] = g]
    <3>1. held'[a] = g BY <2>2, <2>6
    <3> QED BY <2>4, <2>6, <3>1, GoalWrittenAgrees
  <2>7. CASE n # a /\ Written(n, NextSeq(n), kind, g) /\ held' = [Known(n) EXCEPT ![n] = g]
    <3>1. held'[a] = Known(n)[a] BY <2>2, <2>7
    <3> QED BY <2>1, <2>4, <2>7, <3>1, WrittenAgrees
  <2> QED BY <2>3, <2>5, <2>6, <2>7
<1>10. ASSUME NEW n \in Agents, CompleteGoal(n)
       PROVE  Agrees(files'[fileOf[a]], lastSeq'[a], held'[a])
  <2>1. n \in Npcs /\ "GOAL_COMPLETED" \in Kinds /\ "GOAL_COMPLETED" \in GoalKinds
    BY TimelineAssumption DEF GoalKinds, Kinds
  <2>2. CASE NotWritten(n, NextSeq(n), "GOAL_COMPLETED", NoGoal) /\ held' = held
    BY <1>1, <1>3, <2>1, <2>2, NotWrittenAgrees
  <2>3. CASE /\ n = a /\ Written(n, NextSeq(n), "GOAL_COMPLETED", NoGoal)
             /\ held' = [held EXCEPT ![n] = NoGoal]
    <3>1. held'[a] = NoGoal BY <1>4, <2>3
    <3> QED BY <1>3, <2>1, <2>3, <3>1, GoalWrittenAgrees
  <2>4. CASE /\ n # a /\ Written(n, NextSeq(n), "GOAL_COMPLETED", NoGoal)
             /\ held' = [held EXCEPT ![n] = NoGoal]
    <3>1. held'[a] = held[a] BY <1>4, <2>4
    <3> QED BY <1>1, <1>3, <2>1, <2>4, <3>1, WrittenAgrees
  <2> QED BY <1>10, <2>2, <2>3, <2>4 DEF CompleteGoal
<1>11. ASSUME NEW n \in Agents, Touch(n) PROVE Agrees(files'[fileOf[a]], lastSeq'[a], held'[a])
  BY <1>4, <1>11, KnownAgrees DEF Touch
<1>12. CASE AppendDraft
  <2>1. draft.npc \in Npcs /\ held' = held BY <1>12 DEF AppendDraft, IInv, Shape
  <2> QED BY <1>1, <1>3, <1>12, <2>1, WrittenAgrees, NotWrittenAgrees DEF AppendDraft
<1>13. CASE ForgetSeq
  <2>1. lastSeq' = [lastSeq EXCEPT ![removing] = None] /\ files' = files /\ held' = held
    BY <1>13 DEF ForgetSeq
  <2>2. lastSeq'[a] = lastSeq[a] \/ lastSeq'[a] = None BY <1>2, <2>1 DEF IInv, Shape
  <2> QED BY <1>1, <2>1, <2>2, ForgetAgrees
<1> QED BY <1>5, <1>6, <1>7, <1>8, <1>9, <1>10, <1>11, <1>12, <1>13
        DEF Step, Stop, CrashInWrite, Restart

\* The largest of some indices of a file.
LEMMA LastIndex ==
    ASSUME NEW lines \in Seq(Line), NEW S \in SUBSET DOMAIN lines, S # {}
    PROVE  \E i \in S : \A j \in S : i >= j
<1>1. S \in SUBSET (0 .. Len(lines)) /\ Len(lines) \in Nat OBVIOUS
<1> QED BY <1>1, GreatestNatural

\* A restart never brings back a goal the NPC no longer has, nor loses one whose event
\* is still in the window, whatever writes failed, were cut by a crash or joined, and
\* whenever the process first looked (agentStateLocked, executeDecision, reactToEvent).
THEOREM GoalsSurviveRestarts == Spec => []RestartKeepsGoal
<1>1. Init => GInv BY TimelineAssumption DEF Init, GInv, Agrees
<1>2. GInv /\ IInv /\ TypeOK /\ [Next]_vars => GInv'
  <2> SUFFICES ASSUME GInv, IInv, TypeOK, [Next]_vars PROVE GInv' OBVIOUS
  <2>1. CASE Next BY <2>1, StepAgrees DEF Next
  <2>2. CASE UNCHANGED vars BY <2>2 DEF vars, GInv, Alone
  <2> QED BY <2>1, <2>2
<1>3. GInv /\ IInv => RestartKeepsGoal
  <2> SUFFICES ASSUME GInv, IInv, NEW n \in Agents, Alone(n), held[n] # None,
                      NEW lines, lines = files[fileOf[n]],
                      lines # << >>, lines[Len(lines)].ended,
                      RecentEvents(n, Window) # None,
                      NEW k \in DOMAIN RecentEvents(n, Window),
                      RecentEvents(n, Window)[k].kind \in GoalKinds
               PROVE  Rehydrated(n) = held[n]
    BY DEF RestartKeepsGoal
  <2>1. n \in Npcs /\ lines \in Seq(Line) /\ InOrder(lines)
    BY TimelineAssumption DEF IInv, Shape, Numbered
  <2>2. Legible(lines) BY <2>1, RehydratesLast
  <2> DEFINE marks == {i \in DOMAIN lines : InWindow(lines, i) /\ lines[i].kind \in GoalKinds}
  <2>3. PICK m \in DOMAIN lines : InWindow(lines, m) /\ lines[m] = RecentEvents(n, Window)[k]
    BY <2>1, RehydratesLast
  <2>4. marks # {} BY <2>3
  <2>5. PICK i \in marks : \A j \in marks : i >= j BY <2>1, <2>4, LastIndex
  <2>6. /\ Len(lines) \in Nat /\ DOMAIN lines = 1 .. Len(lines) /\ Window \in Nat
        /\ i \in DOMAIN lines /\ Len(lines) < i + Window
    BY <2>1, TimelineAssumption DEF InWindow
  <2>7. \A j \in DOMAIN lines : j >= i => InWindow(lines, j) BY <2>6 DEF InWindow
  <2>8. \A j \in DOMAIN lines : j > i => lines[j].kind \notin GoalKinds BY <2>5, <2>6, <2>7
  <2>9. \A j \in DOMAIN lines : lines[j].ended
    <3>1. \A j \in DOMAIN lines : j = Len(lines) \/ j \in 1 .. Len(lines) - 1 BY <2>6
    <3> QED BY <2>1, <3>1 DEF InOrder
  <2>10. LastMark(lines, i) BY <2>2, <2>7, <2>8, <2>9 DEF LastMark, Legible
  <2>11. held[n] = GoalOf(lines[i])
    BY <2>2, <2>6, <2>10 DEF GInv, Agrees, Remembers, InWindow
  <2>12. Rehydrated(n) = GoalOf(lines[i]) BY <2>1, <2>2, <2>5, <2>8, RehydratesLast
  <2> QED BY <2>11, <2>12
<1> QED BY <1>1, <1>2, <1>3, AlwaysNumbered, TypeCorrect, PTL DEF Spec
=============================================================================
