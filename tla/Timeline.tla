------------------------------ MODULE Timeline ------------------------------
(***************************************************************************)
(* The append-only timeline store of the Go runtime                        *)
(* (runtime-go/internal/timeline/store.go): one JSONL file for each        *)
(* sanitised NPC id, a cache of the last sequence number for each NPC id,  *)
(* and the readers built on the file.  Writes may fail or be cut by a      *)
(* crash and leave a torn line; a restart loses the cache.  On top of it,  *)
(* the one thing the runtime reads back after a restart: an NPC's goal.    *)
(***************************************************************************)
EXTENDS Naturals, Sequences, FiniteSets, Selection

CONSTANTS
    Npcs,       \* NPC ids
    Files,      \* timeline file names
    Agents,     \* those among them whose goal is modelled
    Goals,      \* the goals a decision may set
    NoGoal,     \* a nil CurrentGoal
    None,       \* an id with no cache entry, an NPC with no state, no draft
    Window,     \* how many events the goal is looked for in (50 in the code)
    Chunk,      \* the bytes read at a time from the end (64 KiB in the code)
    MaxSeq,     \* bound: the largest sequence number
    MaxLines,   \* bound: the lines of all files together
    MaxTears    \* bound: the writes that fail or are cut by a crash

ASSUME TimelineAssumption ==
    /\ Agents \subseteq Npcs
    /\ NoGoal \notin Goals /\ None \notin Goals \cup {NoGoal} \cup Npcs \cup Nat
    /\ Window \in Nat \ {0} /\ Chunk \in Nat \ {0} /\ MaxSeq \in Nat
    /\ MaxLines \in Nat /\ MaxTears \in Nat

VARIABLES
    fileOf,     \* PathFor: the file of each id; it never changes, and two ids
                \* that differ in characters PathFor replaces share one
    files,      \* the lines of each file; an absent file has none
    lastSeq,    \* Store.lastSeq
    draft,      \* an event numbered by NextSeq that is not appended yet
    removing,   \* the id whose Delete has removed the file but not its cache entry
    held,       \* CurrentGoal of each NPC the process has a state for
    tears,      \* writes that left something other than their line
    acked       \* history: the appends to each file that returned no error

vars == <<fileOf, files, lastSeq, draft, removing, held, tears, acked>>

-----------------------------------------------------------------------------
(* Events and lines. *)

\* The event names the goal depends on; every other event is a fact.
GoalKinds == {"GOAL_CREATED", "GOAL_CHANGED", "GOAL_COMPLETED"}
Kinds == GoalKinds \cup {"fact"}

Line == [npc : Npcs, seq : 1 .. MaxSeq, kind : Kinds, goal : Goals \cup {NoGoal},
         whole : BOOLEAN, ended : BOOLEAN]

ASSUME NoneAssumption == None \notin Seq(Line)

NewEvent(n, s, k, g) ==
    [npc |-> n, seq |-> s, kind |-> k, goal |-> g, whole |-> TRUE, ended |-> TRUE]

\* Seeded fault: the file is opened without O_APPEND, and each write starts it anew.
PutAtStart(lines, line) == <<line>>

\* What a write adds at the end of a file.  Whatever follows a line that has no
\* newline yet becomes part of it, and the two together are not JSON.
Put(lines, line) ==
    IF lines # << >> /\ ~ lines[Len(lines)].ended
    THEN [lines EXCEPT ![Len(lines)] = [line EXCEPT !.whole = FALSE]]
    ELSE Append(lines, line)

\* What is left of a line by a write that stops early: part of it, or all of it
\* but the newline.
Torn(line) == {[line EXCEPT !.whole = w, !.ended = FALSE] : w \in BOOLEAN}

-----------------------------------------------------------------------------
(* Readers. *)

\* decodeEventLine accepts every line: readEvents returns events, not an error.
Readable(lines) == \A i \in DOMAIN lines : lines[i].whole

\* The first lines of a file that the bytes from p on touch, and how many
\* newlines they hold.
Width(line) == IF line.kind = "fact" THEN 2 ELSE 3
EndOf(lines) ==
    LET end[i \in 0 .. Len(lines)] == IF i = 0 THEN 0 ELSE end[i - 1] + Width(lines[i])
    IN  end
Touched(lines, p) == {i \in DOMAIN lines : EndOf(lines)[i] > p}
Newlines(lines, p) == Cardinality({i \in Touched(lines, p) : lines[i].ended})

Least(S) == CHOOSE x \in S : \A y \in S : x <= y
Most(S) == CHOOSE x \in S : \A y \in S : x >= y
\* Seeded fault: the loop leaves one newline too early.
ReadFromShort(lines, limit) ==
    LET size  == EndOf(lines)[Len(lines)]
        reads == {IF c * Chunk >= size THEN 0 ELSE size - c * Chunk : c \in 0 .. size}
    IN  Most({p \in reads : p = 0 \/ Newlines(lines, p) >= limit})

\* The chunks of tailNonEmptyLines end where the file begins, or as soon as they
\* hold more newlines than lines are wanted.
ReadFrom(lines, limit) ==
    LET size  == EndOf(lines)[Len(lines)]
        reads == {IF c * Chunk >= size THEN 0 ELSE size - c * Chunk : c \in 0 .. size}
    IN  Most({p \in reads : p = 0 \/ Newlines(lines, p) > limit})

\* The lines RecentEvents decodes: the first line read may be cut, and is dropped.
TailLines(lines, limit) ==
    LET p     == ReadFrom(lines, limit)
        first == IF p = 0 THEN 1 ELSE 1 + Least(Touched(lines, p))
        keep  == IF Len(lines) > limit THEN Len(lines) - limit + 1 ELSE 1
    IN  SubSeq(lines, IF keep > first THEN keep ELSE first, Len(lines))

\* RecentEvents: None stands for its error.
RecentEvents(n, limit) ==
    LET lines == TailLines(files[fileOf[n]], limit)
    IN  IF Readable(lines) THEN lines ELSE None

AllEvents(n) == IF Readable(files[fileOf[n]]) THEN files[fileOf[n]] ELSE None

\* The tags and the importance the runtime gives its events; 0 is none.
TagsOf(e) == IF e.kind \in {"GOAL_CREATED", "GOAL_CHANGED"} THEN {"goal"} ELSE {}
Importance(e) == IF e.kind \in {"GOAL_CREATED", "GOAL_CHANGED"} THEN 4 ELSE 0

\* Seeded fault: SinceSeq keeps the event with that number.
PassesSince(e, filter) ==
    /\ filter.names # {} => e.kind \in filter.names
    /\ filter.tags # {} => filter.tags \cap TagsOf(e) # {}
    /\ filter.minimum > 0 => Importance(e) >= filter.minimum
    /\ filter.since > 0 => e.seq >= filter.since
    /\ filter.before > 0 => e.seq < filter.before

\* One event against a GrabFilter: fields compose with AND, names and tags with
\* OR; an event without an importance fails any minimum.
Passes(e, filter) ==
    /\ filter.names # {} => e.kind \in filter.names
    /\ filter.tags # {} => filter.tags \cap TagsOf(e) # {}
    /\ filter.minimum > 0 => Importance(e) >= filter.minimum
    /\ filter.since > 0 => e.seq > filter.since
    /\ filter.before > 0 => e.seq < filter.before

GrabTimeline(n, filter) ==
    LET lines   == AllEvents(n)
        matches == Picked(lines, {i \in DOMAIN lines : Passes(lines[i], filter)})
    IN  IF filter.limit > 0 /\ Len(matches) > filter.limit
        THEN SubSeq(matches, Len(matches) - filter.limit + 1, Len(matches))
        ELSE matches

\* Seeded fault: the search does not stop at a completed goal.
RehydratedCompleted(n) ==
    LET recent == RecentEvents(n, Window)
        marks  == {i \in DOMAIN recent : recent[i].kind \in GoalKinds \ {"GOAL_COMPLETED"}}
    IN  IF recent = None \/ marks = {} THEN NoGoal ELSE recent[Most(marks)].goal

\* The goal agentStateLocked finds, from the newest event backwards: the last one
\* set, unless it was completed since; none when the window cannot be read.
Rehydrated(n) ==
    LET recent == RecentEvents(n, Window)
        marks  == {i \in DOMAIN recent : recent[i].kind \in GoalKinds}
    IN  IF recent = None \/ marks = {} \/ recent[Most(marks)].kind = "GOAL_COMPLETED"
        THEN NoGoal ELSE recent[Most(marks)].goal

-----------------------------------------------------------------------------
(* Sequence numbers and appends. *)

\* The highest number of a file, 0 when it has no line.
Highest(lines) ==
    CHOOSE m \in 0 .. MaxSeq :
        /\ \A i \in DOMAIN lines : lines[i].seq <= m
        /\ m = 0 \/ \E i \in DOMAIN lines : lines[i].seq = m

\* nextSeqLocked fails only when it has to scan a file it cannot read.
Refuses(n) == lastSeq[n] = None /\ ~ Readable(files[fileOf[n]])
LastOf(n) == IF lastSeq[n] = None THEN Highest(files[fileOf[n]]) ELSE lastSeq[n]
NextSeq(n) == LastOf(n) + 1

\* Seeded fault: the number is taken although nothing is written with it.
ScannedAhead(n) == [lastSeq EXCEPT ![n] = NextSeq(n)]

\* The cache after a scan that no write followed.
Scanned(n) == [lastSeq EXCEPT ![n] = LastOf(n)]

\* The bounds of the model on what a write may add.
LineCount == Cardinality(UNION {{f} \X DOMAIN files[f] : f \in Files})
HasRoom(n) == NextSeq(n) <= MaxSeq /\ LineCount < MaxLines

Init ==
    /\ fileOf \in [Npcs -> Files]
    /\ files = [f \in Files |-> << >>]
    /\ lastSeq = [n \in Npcs |-> None]
    /\ draft = None
    /\ removing = None
    /\ held = [n \in Agents |-> None]
    /\ tears = 0
    /\ acked = [f \in Files |-> 0]

\* Seeded fault: an event keeps the number it came with.
Kept(n, s) == s

\* appendLocked replaces a number that is not the next one.
Repaired(n, s) == IF s # NextSeq(n) THEN NextSeq(n) ELSE s

\* An append of an event that came with number s and is written: the cache follows.
Written(n, s, kind, goal) ==
    LET f == fileOf[n] IN
    /\ ~ Refuses(n)
    /\ HasRoom(n)
    /\ files' = [files EXCEPT ![f] = Put(@, NewEvent(n, Repaired(n, s), kind, goal))]
    /\ lastSeq' = [lastSeq EXCEPT ![n] = Repaired(n, s)]
    /\ acked' = [acked EXCEPT ![f] = @ + 1]
    /\ UNCHANGED tears

\* An append that returns an error: refused, or its write failed and left
\* nothing, or left a torn line.  The cache keeps what the scan found.
NotWritten(n, s, kind, goal) ==
    LET f == fileOf[n] IN
    /\ UNCHANGED acked
    /\ \/ /\ Refuses(n)
          /\ UNCHANGED <<files, lastSeq, tears>>
       \/ /\ ~ Refuses(n)
          /\ lastSeq' = Scanned(n)
          /\ UNCHANGED <<files, tears>>
       \/ /\ ~ Refuses(n)
          /\ tears < MaxTears /\ HasRoom(n)
          /\ tears' = tears + 1
          /\ lastSeq' = Scanned(n)
          /\ \E line \in Torn(NewEvent(n, Repaired(n, s), kind, goal)) :
                files' = [files EXCEPT ![f] = Put(@, line)]

\* Seeded fault: the 0 of a failed NextSeq is taken for a number.
DraftEventUnchecked(n) ==
    /\ draft = None
    /\ draft' = [npc |-> n, seq |-> IF Refuses(n) THEN 0 ELSE NextSeq(n)]
    /\ lastSeq' = IF Refuses(n) THEN lastSeq ELSE Scanned(n)
    /\ UNCHANGED <<files, removing, held, tears, acked>>

\* A handler numbers an event with NextSeq before it validates it; the store is
\* not locked until Append.  A failed NextSeq gives 0, which no event accepts.
DraftEvent(n) ==
    /\ draft = None
    /\ ~ Refuses(n)
    /\ NextSeq(n) <= MaxSeq
    /\ draft' = [npc |-> n, seq |-> NextSeq(n)]
    /\ lastSeq' = Scanned(n)
    /\ UNCHANGED <<files, removing, held, tears, acked>>

\* Store.Append of that event: a number that is no longer the next one is
\* repaired.
AppendDraft ==
    /\ draft # None
    /\ draft' = None
    /\ \/ Written(draft.npc, draft.seq, "fact", NoGoal)
       \/ NotWritten(draft.npc, draft.seq, "fact", NoGoal)
    /\ UNCHANGED <<removing, held>>

\* Store.AppendEvent numbers, builds and writes in one critical section.
AppendEvent(n) ==
    /\ Written(n, NextSeq(n), "fact", NoGoal) \/ NotWritten(n, NextSeq(n), "fact", NoGoal)
    /\ UNCHANGED <<draft, removing, held>>

-----------------------------------------------------------------------------
(* The NPC's goal. *)

\* agentStateLocked, on first use.
Known(n) == IF held[n] = None THEN [held EXCEPT ![n] = Rehydrated(n)] ELSE held

\* executeDecision sets a new goal once its event is on the timeline.
SetGoal(n, g) ==
    LET kind == IF Known(n)[n] = NoGoal THEN "GOAL_CREATED" ELSE "GOAL_CHANGED" IN
    /\ Known(n)[n] # g
    /\ \/ Written(n, NextSeq(n), kind, g) /\ held' = [Known(n) EXCEPT ![n] = g]
       \/ NotWritten(n, NextSeq(n), kind, g) /\ held' = Known(n)
    /\ UNCHANGED <<draft, removing>>

\* A GOAL_COMPLETED event reaches reactToEvent only when it was appended.
CompleteGoal(n) ==
    /\ \/ /\ Written(n, NextSeq(n), "GOAL_COMPLETED", NoGoal)
          /\ held' = [held EXCEPT ![n] = NoGoal]
       \/ NotWritten(n, NextSeq(n), "GOAL_COMPLETED", NoGoal) /\ UNCHANGED held
    /\ UNCHANGED <<draft, removing>>

\* Runtime.State and every handler create the state of an NPC on first use.
Touch(n) ==
    /\ held[n] = None
    /\ held' = Known(n)
    /\ UNCHANGED <<files, lastSeq, draft, removing, tears, acked>>

-----------------------------------------------------------------------------
(* Delete, and the end of the process. *)

\* Delete removes the file before it takes the lock ...
RemoveFile(n) ==
    /\ removing = None
    /\ removing' = n
    /\ files' = [files EXCEPT ![fileOf[n]] = << >>]
    /\ acked' = [acked EXCEPT ![fileOf[n]] = 0]
    /\ UNCHANGED <<lastSeq, draft, held, tears>>

\* ... and drops the cache entry of that id once it has it.
ForgetSeq ==
    /\ removing # None
    /\ removing' = None
    /\ lastSeq' = [lastSeq EXCEPT ![removing] = None]
    /\ UNCHANGED <<files, draft, held, tears, acked>>

\* A new process has the files and nothing else.
Restart ==
    /\ lastSeq' = [n \in Npcs |-> None]
    /\ held' = [n \in Agents |-> None]
    /\ draft' = None
    /\ removing' = None

Stop == Restart /\ UNCHANGED <<files, tears, acked>>

\* A crash in the middle of a write: the line is cut, or whole but unacknowledged.
CrashInWrite(n) ==
    /\ ~ Refuses(n)
    /\ tears < MaxTears /\ HasRoom(n)
    /\ tears' = tears + 1
    /\ LET line == NewEvent(n, NextSeq(n), "fact", NoGoal)
       IN  \E rest \in Torn(line) \cup {line} :
              files' = [files EXCEPT ![fileOf[n]] = Put(@, rest)]
    /\ Restart
    /\ UNCHANGED acked

Step ==
    \/ \E n \in Npcs :
        \/ DraftEvent(n)
        \/ AppendEvent(n)
        \/ RemoveFile(n)
        \/ CrashInWrite(n)
    \/ \E n \in Agents :
        \/ \E g \in Goals : SetGoal(n, g)
        \/ CompleteGoal(n)
        \/ Touch(n)
    \/ AppendDraft
    \/ ForgetSeq
    \/ Stop

Next == Step /\ UNCHANGED fileOf

Spec == Init /\ [][Next]_vars

-----------------------------------------------------------------------------
(* Properties. *)

TypeOK ==
    /\ fileOf \in [Npcs -> Files]
    /\ files \in [Files -> Seq(Line)]
    /\ lastSeq \in [Npcs -> 0 .. MaxSeq \cup {None}]
    /\ draft \in [npc : Npcs, seq : 1 .. MaxSeq] \cup {None}
    /\ removing \in Npcs \cup {None}
    /\ held \in [Agents -> Goals \cup {NoGoal, None}]
    /\ tears \in 0 .. MaxTears
    /\ acked \in [Files -> Nat]

\* An id that shares its file with no other.
Alone(n) == \A m \in Npcs : fileOf[m] = fileOf[n] => m = n

\* The later of two events of one NPC has the larger number, whatever was torn,
\* joined, deleted in between, or written by another id of the same file: the
\* order SinceSeq and BeforeSeq rely on (appendLocked's repair, the cache, and
\* the scan of a new process agree on what comes next).
OwnNumbersIncrease ==
    \A f \in Files : \A i, j \in DOMAIN files[f] :
        /\ i < j
        /\ files[f][i].npc = files[f][j].npc
        /\ files[f][i].whole /\ files[f][j].whole
        => files[f][i].seq < files[f][j].seq

\* "so the timeline stays linear": in the file of one NPC, neighbouring events
\* have neighbouring numbers, also when Delete or a restart dropped the cache.
NoGaps ==
    \A n \in Npcs : Alone(n) =>
        LET lines == files[fileOf[n]] IN
        \A i \in 1 .. Len(lines) - 1 :
            lines[i].whole /\ lines[i + 1].whole => lines[i + 1].seq = lines[i].seq + 1

\* A torn write costs at most one event whose append returned no error: the one
\* that is joined to the torn line, never the ones before it or behind it.
LossIsBounded ==
    \A f \in Files :
        acked[f] <= Cardinality({i \in DOMAIN files[f] : files[f][i].whole}) + tears

\* Reading backwards in chunks finds the lines a scan of the file ends with,
\* wherever the chunks are cut (tailNonEmptyLines).
TailIsSuffix ==
    \A f \in Files : \A limit \in 1 .. Window + 1 :
        TailLines(files[f], limit) =
            SubSeq(files[f], IF Len(files[f]) > limit THEN Len(files[f]) - limit + 1 ELSE 1,
                   Len(files[f]))

\* A reader that asks for what came before a number and then for what came since
\* gets the timeline, once and in order (GrabTimeline's two bounds).
All == [names |-> {}, tags |-> {}, minimum |-> 0, since |-> 0, before |-> 0, limit |-> 0]
PagesJoin ==
    \A n \in Npcs : Alone(n) /\ AllEvents(n) # None =>
        \A s \in 1 .. MaxSeq :
            GrabTimeline(n, [All EXCEPT !.before = s + 1])
              \o GrabTimeline(n, [All EXCEPT !.since = s]) = AllEvents(n)

\* A restart never brings back a goal the NPC no longer has, nor loses one whose
\* event is still in the window: wherever the window holds a goal event, it holds
\* the goal in memory ("so a runtime restart does not silently discard the NPC's
\* active intention").
RestartKeepsGoal ==
    \A n \in Agents :
        LET lines  == files[fileOf[n]]
            recent == RecentEvents(n, Window)
        IN  /\ Alone(n) /\ held[n] # None
            /\ lines # << >> /\ lines[Len(lines)].ended
            /\ recent # None
            /\ \E i \in DOMAIN recent : recent[i].kind \in GoalKinds
            => Rehydrated(n) = held[n]
=============================================================================
