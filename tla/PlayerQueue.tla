----------------------------- MODULE PlayerQueue -----------------------------
(***************************************************************************)
(* The play queue of the web client: the zustand store of                  *)
(* feishin/src/renderer/store/player.store.ts.                             *)
(*                                                                         *)
(* A song in the queue is the unique id it got when it was added.  The     *)
(* order on the screen is queue.default; while shuffle is on, playback     *)
(* follows queue.shuffled, an array of positions in queue.default, and     *)
(* player.index is a position in THAT array.  Which of the two the index   *)
(* counts in is nowhere recorded: every operation has to know.             *)
(*                                                                         *)
(* Arrays are counted from 0 as in the source, see At.  Volume, speed,     *)
(* mute, crossfade settings and the requests to seek are left out.         *)
(***************************************************************************)
EXTENDS Integers, FiniteSets, Sequences, SequencesExt, Functions

CONSTANTS
    Ids,         \* unique ids (nanoid) of queued songs
    NoSong,      \* undefined
    MaxSongs,    \* bound on the length of the queue
    MaxAdded,    \* bound on the songs one operation adds
    MaxOrder,    \* bound on queue.shuffled, which setQueue leaves as it was, and on the index
    NaN          \* an integer that stands for JavaScript's NaN

ASSUME PlayerQueueAssumption ==
    /\ NoSong \notin Ids
    /\ MaxSongs \in Nat \ {0} /\ MaxAdded \in Nat \ {0} /\ MaxOrder \in Nat
    /\ MaxAdded <= MaxSongs /\ MaxSongs <= MaxOrder
    /\ NaN \in Int /\ NaN < -1

VARIABLES
    player,      \* state.player: index, playerNum, repeat, shuffle, status, pauseOnNextSongEnd
    queue,       \* state.queue: default, shuffled, songs (the ids that have an entry)
    timestamp    \* the timestamp store, as far as mediaPrevious looks at it

vars == <<player, queue, timestamp>>

Repeats == {"none", "one", "all"}
Timestamps == {0, 11}    \* up to and beyond the ten seconds of mediaPrevious

TypeOK ==
    /\ player \in [index : {NaN, -1} \cup Nat, playerNum : {1, 2}, repeat : Repeats,
                   shuffle : {"none", "track"}, status : {"playing", "paused"},
                   pauseOnNextSongEnd : BOOLEAN]
    /\ queue.songs \subseteq Ids
    /\ Range(queue.default) \subseteq queue.songs
    /\ IsInjective(queue.default) /\ Len(queue.default) <= MaxSongs
    /\ Range(queue.shuffled) \subseteq {NaN} \cup Nat
    /\ timestamp \in Timestamps

-----------------------------------------------------------------------------
(* JavaScript arrays and numbers.                                          *)

Plus(x, n) == IF x = NaN THEN NaN ELSE x + n
AtMost(n, x) == IF x = NaN \/ x < n THEN x ELSE n       \* Math.min
AtLeast(n, x) == IF x = NaN \/ x > n THEN x ELSE n      \* Math.max
At(s, i) == IF i \in 0 .. Len(s) - 1 THEN s[i + 1] ELSE NoSong
NumAt(s, i) == IF i \in 0 .. Len(s) - 1 THEN s[i + 1] ELSE NaN
Find(s, x) == SelectInSeq(s, LAMBDA y : y = x) - 1      \* findIndex
Upto(s, n) == IF n = NaN THEN <<>> ELSE SubSeq(s, 1, IF n < Len(s) THEN n ELSE Len(s))
From(s, n) == IF n = NaN THEN s ELSE SubSeq(s, n + 1, Len(s))
Count(from, n) == [i \in 1 .. n |-> Plus(from, i - 1)]

\* filter: the elements of s that are in T, in their order.  It is SelectSeq, by
\* ranks instead of recursion, which is what a proof can use.
Ranked(s, T) ==
    LET places == {i \in DOMAIN s : s[i] \in T}
        rank(i) == Cardinality({j \in places : j <= i})
    IN  [k \in 1 .. Cardinality(places) |-> s[CHOOSE i \in places : rank(i) = k]]

Keep(s, T) == IF Range(s) \subseteq T THEN s ELSE Ranked(s, T)

\* shuffleInPlace: any order of the elements.
Orders(s) == {[i \in DOMAIN s |-> s[f[i]]] : f \in Bijection(DOMAIN s, DOMAIN s)}

-----------------------------------------------------------------------------
(* What the store computes from its state.                                 *)

isShuffleEnabled(p, q) == p.shuffle = "track" /\ q.shuffled # <<>>

mapShuffledToQueueIndex(i, shuffled) ==
    IF i \in 0 .. Len(shuffled) - 1 THEN NumAt(shuffled, i) ELSE i

getQueueOrder(q) == Keep(q.default, q.songs)

QueueIndex(p, q) ==
    IF isShuffleEnabled(p, q) THEN mapShuffledToQueueIndex(p.index, q.shuffled) ELSE p.index

getCurrentSong(p, q) == At(getQueueOrder(q), QueueIndex(p, q))

calculateNextSong(i, items, repeat) ==
    CASE items = <<>> -> NoSong
      [] items # <<>> /\ repeat = "one" -> At(items, i)
      [] items # <<>> /\ repeat = "all" /\ i = Len(items) - 1 -> At(items, 0)
      [] OTHER -> At(items, Plus(i, 1))

NextSong(p, q) ==
    LET items == getQueueOrder(q)
        next == p.index + 1
    IN  IF isShuffleEnabled(p, q) /\ p.repeat # "one"
        THEN CASE p.index # NaN /\ next < Len(q.shuffled) -> At(items, NumAt(q.shuffled, next))
               [] p.repeat = "all" /\ ~(p.index # NaN /\ next < Len(q.shuffled)) ->
                    At(items, NumAt(q.shuffled, 0))
               [] OTHER -> NoSong
        ELSE calculateNextSong(QueueIndex(p, q), items, p.repeat)

PreviousSong(p, q) ==
    LET items == getQueueOrder(q)
        prev == p.index - 1
    IN  IF isShuffleEnabled(p, q)
        THEN CASE p.index # NaN /\ prev >= 0 -> At(items, NumAt(q.shuffled, prev))
               [] p.repeat = "all" /\ ~(p.index # NaN /\ prev >= 0) ->
                    At(items, NumAt(q.shuffled, Len(q.shuffled) - 1))
               [] OTHER -> NoSong
        ELSE IF QueueIndex(p, q) > 0 THEN At(items, QueueIndex(p, q) - 1) ELSE NoSong

\* The song each of the two web players has loaded.
getDualPlayerSongs(num, current, next, repeat) ==
    [n \in {1, 2} |-> IF n = num THEN current ELSE IF repeat = "one" THEN NoSong ELSE next]

getPlayerData(p, q) ==
    [current |-> getCurrentSong(p, q), next |-> NextSong(p, q), previous |-> PreviousSong(p, q),
     decks |-> getDualPlayerSongs(p.playerNum, getCurrentSong(p, q), NextSong(p, q), p.repeat)]

-----------------------------------------------------------------------------
(* Helpers that several operations share.                                  *)

\* Mutant: the index at the place of insertion is not moved.
AdjustBeyondPosition(shuffled, position, count) ==
    [i \in DOMAIN shuffled |->
        IF position # NaN /\ shuffled[i] > position THEN shuffled[i] + count ELSE shuffled[i]]

adjustShuffledIndexesForInsertion(shuffled, position, count) ==
    [i \in DOMAIN shuffled |->
        IF position # NaN /\ shuffled[i] >= position THEN shuffled[i] + count ELSE shuffled[i]]

addIndexesToShuffled(shuffled, i, new) ==
    {Upto(shuffled, Plus(i, 1)) \o rest : rest \in Orders(From(shuffled, Plus(i, 1)) \o new)}

generateShuffledIndexes(n) == Orders(Count(0, n))

\* Mutant: the last track is looked for one position too late.
NextIndexPastEnd(i, length, repeat) ==
    LET isLast == i = length
    IN  CASE repeat = "one" -> [next |-> i, pause |-> FALSE]
          [] repeat = "all" -> [next |-> IF isLast THEN 0 ELSE Plus(i, 1), pause |-> FALSE]
          [] OTHER -> [next |-> IF isLast THEN i ELSE Plus(i, 1), pause |-> isLast]

calculateNextIndex(i, length, repeat) ==
    LET isLast == i = length - 1
    IN  CASE repeat = "one" -> [next |-> i, pause |-> FALSE]
          [] repeat = "all" -> [next |-> IF isLast THEN 0 ELSE Plus(i, 1), pause |-> FALSE]
          [] OTHER -> [next |-> IF isLast THEN i ELSE Plus(i, 1), pause |-> isLast]

\* The index under which playback finds the song at a position of the queue.
PlaybackIndex(p, q, position) ==
    IF isShuffleEnabled(p, q) /\ Find(q.shuffled, position) # -1
    THEN Find(q.shuffled, position) ELSE position

cleanupOrphanedSongs(q) == [q EXCEPT !.songs = @ \cap Range(q.default)]

\* Mutant: the index is left where it was.
IndexLeftAlone(p, default) == p

\* The position of the song that was current before the operation, always in
\* the order on the screen: state.getCurrentSong reads the committed state.
recalculatePlayerIndex(p, default) ==
    IF getCurrentSong(player, queue) = NoSong THEN p
    ELSE [p EXCEPT !.index = AtLeast(0, Find(default, getCurrentSong(player, queue)))]

\* toQueueSong: up to MaxAdded songs, under ids no entry has.
Replacements == UNION {{s \in [1 .. n -> Ids \ queue.songs] : IsInjective(s)} : n \in 0 .. MaxAdded}
NewItems == {s \in Replacements : /\ Len(queue.default) + Len(s) <= MaxSongs
                                  /\ Len(queue.shuffled) + Len(s) <= MaxOrder
                                  /\ player.index + Len(s) <= MaxOrder}

Without(s, sel) == Keep(s, Range(s) \ sel)
Selected(sel) == Keep(queue.default, sel)
Selections == SUBSET Range(queue.default) \ {{}}

-----------------------------------------------------------------------------
(* addToQueueByType.                                                       *)

Inserted(position, ids) == Upto(queue.default, position) \o ids \o From(queue.default, position)

AddLast(ids) ==
    /\ \E new \in Orders(Count(Len(queue.default), Len(ids))) :
          queue' = [default |-> queue.default \o ids, songs |-> queue.songs \cup Range(ids),
                    shuffled |-> IF isShuffleEnabled(player, queue)
                                 THEN queue.shuffled \o new ELSE queue.shuffled]
    /\ UNCHANGED <<player, timestamp>>

AddLastShuffle(items) ==
    /\ \E ids \in Orders(items), new \in Orders(Count(Len(queue.default), Len(items))) :
          queue' = [default |-> queue.default \o ids, songs |-> queue.songs \cup Range(ids),
                    shuffled |-> IF player.shuffle = "track"
                                 THEN queue.shuffled \o new ELSE queue.shuffled]
    /\ UNCHANGED <<player, timestamp>>

InsertNext(ids, position) ==
    \E new \in Orders(Count(position, Len(ids))) :
        LET adjusted == adjustShuffledIndexesForInsertion(queue.shuffled, position, Len(ids))
            here == Plus(player.index, 1)
        IN  queue' = [default |-> Inserted(position, ids), songs |-> queue.songs \cup Range(ids),
                      shuffled |-> IF isShuffleEnabled(player, queue)
                                   THEN Upto(adjusted, here) \o new \o From(adjusted, here)
                                   ELSE queue.shuffled]

AddNext(ids) ==
    /\ InsertNext(ids, IF player.shuffle = "track"
                       THEN Plus(NumAt(queue.shuffled, player.index), 1)
                       ELSE Plus(player.index, 1))
    /\ UNCHANGED <<player, timestamp>>

AddNextShuffle(items) ==
    /\ \E ids \in Orders(items) :
          InsertNext(ids, IF isShuffleEnabled(player, queue)
                          THEN Plus(NumAt(queue.shuffled, player.index), 1)
                          ELSE Plus(player.index, 1))
    /\ UNCHANGED <<player, timestamp>>

\* emitPlayerPlayEvent, and the same lines in addToQueueByUniqueId: start at target.
PlayTarget(p, q, target) ==
    IF target = NoSong \/ Find(getQueueOrder(q), target) = -1 THEN p
    ELSE [p EXCEPT !.index = PlaybackIndex(p, q, Find(getQueueOrder(q), target)),
                   !.status = "playing"]

FirstOf(i, n) == {<<i>> \o rest : rest \in Orders(Without(Count(0, n), {i}))}

Restarted == [player EXCEPT !.index = 0, !.status = "playing", !.playerNum = 1]

PlayNow(ids, target) ==
    /\ \E order \in IF target = NoSong THEN generateShuffledIndexes(Len(ids))
                    ELSE FirstOf(Find(ids, target), Len(ids)) :
          /\ queue' = [default |-> ids, songs |-> queue.songs \cup Range(ids),
                       shuffled |-> IF player.shuffle = "track" THEN order ELSE queue.shuffled]
          /\ player' = PlayTarget(Restarted, queue', target)
    /\ timestamp' = 0

PlayShuffle(items, target) ==
    /\ \E ids \in Orders(items), order \in generateShuffledIndexes(Len(items)) :
          /\ queue' = [default |-> ids, songs |-> queue.songs \cup Range(ids), shuffled |-> order]
          /\ player' = PlayTarget(Restarted, queue', target)
    /\ timestamp' = 0

addToQueueByType ==
    \/ \E ids \in NewItems : AddLast(ids) \/ AddLastShuffle(ids) \/ AddNext(ids) \/ AddNextShuffle(ids)
    \/ \E ids \in Replacements : \E target \in {NoSong} \cup Range(ids) :
            PlayNow(ids, target) \/ PlayShuffle(ids, target)

\* Dropping songs above or below a song of the queue, or on the empty queue.
addToQueueByUniqueId(ids, at, target) ==
    LET n == Len(ids)
        default == Inserted(at, ids)
        added == [queue EXCEPT !.default = default, !.songs = @ \cup Range(ids)]
        current == getCurrentSong(player, queue)
        adjusted == adjustShuffledIndexesForInsertion(queue.shuffled, at, n)
        shifted == IF at <= player.index THEN [player EXCEPT !.index = @ + n] ELSE player
    IN  /\ \E order \in CASE player.shuffle # "track" -> {queue.shuffled}
                          [] player.shuffle = "track" /\ current # NoSong ->
                               addIndexesToShuffled(adjusted, player.index, Count(at, n))
                          [] OTHER -> generateShuffledIndexes(Len(default)) :
              LET q == [added EXCEPT !.shuffled = order]
                  p == CASE player.shuffle # "track" -> recalculatePlayerIndex(shifted, default)
                         [] player.shuffle = "track" /\ current # NoSong /\ Find(order, Find(default, current)) # -1 ->
                              [player EXCEPT !.index = Find(order, Find(default, current))]
                         [] OTHER -> player
              IN  queue' = q /\ player' = PlayTarget(p, q, target)
        /\ timestamp' = IF target = NoSong THEN timestamp ELSE 0

DropPositions == 0 .. Len(queue.default)

-----------------------------------------------------------------------------
(* Removing and reordering.                                                *)

clearQueue ==
    /\ player' = [player EXCEPT !.index = -1]
    /\ queue' = [default |-> <<>>, shuffled |-> <<>>, songs |-> {}]
    /\ UNCHANGED timestamp

clearSelected(sel) ==
    LET removed == {i \in 0 .. Len(queue.default) - 1 : At(queue.default, i) \in sel}
        left == Without(queue.shuffled, removed)
        remap(i) == Plus(i, -Cardinality({r \in removed : r < i}))
    IN  /\ queue' = cleanupOrphanedSongs(
                        [queue EXCEPT !.default = Without(@, sel),
                                      !.shuffled = IF isShuffleEnabled(player, queue)
                                                   THEN [k \in DOMAIN left |-> remap(left[k])]
                                                   ELSE <<>>])
        /\ player' = recalculatePlayerIndex(player, Without(queue.default, sel))
        /\ UNCHANGED timestamp

Reorder(default) ==
    /\ queue' = [queue EXCEPT !.default = default]
    /\ player' = recalculatePlayerIndex(player, default)
    /\ UNCHANGED timestamp

\* Mutant: the moved songs are not taken out below the drop target.
MoveKeepsCopies(sel, at) ==
    Reorder(Without(Upto(queue.default, at), sel) \o Selected(sel) \o From(queue.default, at))

moveSelectedTo(sel, at) ==
    Reorder(Without(Upto(queue.default, at), sel) \o Selected(sel)
            \o Without(From(queue.default, at), sel))

moveSelectedToBottom(sel) == Reorder(Without(queue.default, sel) \o Selected(sel))

moveSelectedToTop(sel) == Reorder(Selected(sel) \o Without(queue.default, sel))

moveSelectedToNext(sel) ==
    LET before == {i \in 0 .. Len(queue.default) - 1 : At(queue.default, i) \in sel /\ i < player.index}
        insert == Plus(player.index, 1 - Cardinality(before))
        rest == Without(queue.default, sel)
    IN  Reorder(Upto(rest, insert) \o Selected(sel) \o From(rest, insert))

\* Restoring the queue saved on the server.
setQueue(ids, i) ==
    /\ queue' = [queue EXCEPT !.default = ids, !.songs = @ \cup Range(ids)]
    /\ player' = [player EXCEPT !.index = i, !.status = "playing", !.playerNum = 1]
    /\ UNCHANGED timestamp

-----------------------------------------------------------------------------
(* Shuffling.                                                              *)

Unshuffled ==
    /\ queue' = [queue EXCEPT !.shuffled = <<>>]
    /\ player' = [player EXCEPT !.shuffle = "none",
                    !.index = IF player.shuffle = "track" /\ @ \in 0 .. Len(queue.shuffled) - 1
                              THEN NumAt(queue.shuffled, @) ELSE @]

setShuffle(shuffle) ==
    /\ \/ /\ shuffle = "track"
          /\ \E order \in generateShuffledIndexes(Len(queue.default)) :
                /\ queue' = cleanupOrphanedSongs([queue EXCEPT !.shuffled = order])
                /\ player' = [player EXCEPT !.shuffle = "track",
                                !.index = IF @ \in 0 .. Len(queue.default) - 1
                                          THEN Find(order, @) ELSE @]
       \/ /\ shuffle = "none"
          /\ queue' = cleanupOrphanedSongs([queue EXCEPT !.shuffled = <<>>])
          /\ player' = [player EXCEPT !.shuffle = "none",
                          !.index = IF player.shuffle = "track" /\ @ \in 0 .. Len(queue.shuffled) - 1
                                    THEN NumAt(queue.shuffled, @) ELSE @]
    /\ UNCHANGED timestamp

\* Mutant: the index stays a position of the queue when shuffle goes on.
ToggleWithoutReset ==
    /\ \/ player.shuffle = "track" /\ Unshuffled
       \/ /\ player.shuffle = "none"
          /\ LET n == Len(queue.default)
             IN  \E order \in IF player.index \in 0 .. n - 1 THEN FirstOf(player.index, n)
                              ELSE generateShuffledIndexes(n) :
                    queue' = [queue EXCEPT !.shuffled = order]
          /\ player' = [player EXCEPT !.shuffle = "track"]
    /\ UNCHANGED timestamp

toggleShuffle ==
    /\ \/ player.shuffle = "track" /\ Unshuffled
       \/ /\ player.shuffle = "none"
          /\ LET n == Len(queue.default)
                 playing == player.index \in 0 .. n - 1
             IN  /\ \E order \in IF playing THEN FirstOf(player.index, n)
                                 ELSE generateShuffledIndexes(n) :
                       queue' = [queue EXCEPT !.shuffled = order]
                 /\ player' = [player EXCEPT !.shuffle = "track", !.index = IF playing THEN 0 ELSE @]
    /\ UNCHANGED timestamp

shuffle ==
    /\ player.shuffle = "track"
    /\ \E order \in generateShuffledIndexes(Len(queue.default)) :
          queue' = [queue EXCEPT !.shuffled = order]
    /\ UNCHANGED <<player, timestamp>>

regenerateShuffledIndexesIfNeeded(default) ==
    \E order \in IF isShuffleEnabled(player, queue)
                 THEN generateShuffledIndexes(Len(default)) ELSE {queue.shuffled} :
        queue' = [queue EXCEPT !.default = default, !.shuffled = order]

shuffleAll ==
    LET i == Find(queue.default, At(getQueueOrder(queue), player.index))
    IN  /\ \E default \in
              IF i # -1
              THEN {b \o <<At(queue.default, i)>> \o a :
                      b \in Orders(Upto(queue.default, i)), a \in Orders(From(queue.default, i + 1))}
              ELSE Orders(queue.default) :
              regenerateShuffledIndexesIfNeeded(default)
        /\ UNCHANGED <<player, timestamp>>

shuffleSelected(sel) ==
    /\ \E order \in Orders(Selected(sel)) :
          regenerateShuffledIndexesIfNeeded(
              [i \in DOMAIN queue.default |->
                  IF queue.default[i] \in sel
                  THEN order[Find(Selected(sel), queue.default[i]) + 1] ELSE queue.default[i]])
    /\ UNCHANGED <<player, timestamp>>

-----------------------------------------------------------------------------
(* Playback.                                                               *)

AutoNextIndex(p, q) ==
    calculateNextIndex(p.index,
        IF isShuffleEnabled(p, q) THEN Len(q.shuffled) ELSE Len(getQueueOrder(q)), p.repeat)

\* Mutant: the other web player never takes over.
SamePlayerGoesOn(p, q) ==
    LET step == AutoNextIndex(p, q)
        paused == step.pause \/ p.pauseOnNextSongEnd
    IN  [p EXCEPT !.index = step.next, !.status = IF paused THEN "paused" ELSE "playing",
                  !.pauseOnNextSongEnd = FALSE]

AfterAutoNext(p, q) ==
    LET step == AutoNextIndex(p, q)
        paused == step.pause \/ p.pauseOnNextSongEnd
        keep == paused \/ (p.repeat = "one" /\ step.next = p.index)
    IN  [p EXCEPT !.index = step.next, !.status = IF paused THEN "paused" ELSE "playing",
                  !.playerNum = IF keep THEN @ ELSE 3 - @, !.pauseOnNextSongEnd = FALSE]

\* The end of a track, which the engine reports of a track it has loaded.
mediaAutoNext ==
    /\ getCurrentSong(player, queue) # NoSong
    /\ player' = AfterAutoNext(player, queue)
    /\ timestamp' = 0
    /\ UNCHANGED queue

MoveTo(i) ==
    /\ player' = [player EXCEPT !.index = i, !.playerNum = 1]
    /\ timestamp' = 0
    /\ UNCHANGED queue

mediaNext ==
    LET n == Len(getQueueOrder(queue))
        isLast == player.index = n - 1
    IN  MoveTo(CASE player.repeat = "all" /\ isLast -> 0
                 [] player.repeat = "none" /\ isLast -> player.index
                 [] OTHER -> AtMost(n - 1, Plus(player.index, 1)))

mediaPrevious ==
    LET isFirst == player.index = 0
    IN  IF timestamp > 10 THEN UNCHANGED vars    \* only asks the engine to seek to the start
        ELSE MoveTo(CASE player.repeat = "all" /\ isFirst -> Len(getQueueOrder(queue)) - 1
                      [] player.repeat = "none" /\ isFirst -> player.index
                      [] OTHER -> AtLeast(0, Plus(player.index, -1)))

mediaPlay(id) ==
    LET i == Find(getQueueOrder(queue), id)
    IN  /\ player' = [player EXCEPT !.status = "playing",
                                    !.index = IF i = -1 THEN @ ELSE PlaybackIndex(player, queue, i)]
        /\ timestamp' = IF i = -1 THEN timestamp ELSE 0
        /\ UNCHANGED queue

mediaPlayByIndex(i) ==
    /\ IF i = -1 \/ i >= Len(getQueueOrder(queue))
       THEN player' = [player EXCEPT !.status = "paused"] /\ UNCHANGED timestamp
       ELSE /\ player' = [player EXCEPT !.status = "playing", !.index = PlaybackIndex(player, queue, i)]
            /\ timestamp' = 0
    /\ UNCHANGED queue

mediaPause == player' = [player EXCEPT !.status = "paused"] /\ UNCHANGED <<queue, timestamp>>

mediaStop == player' = [player EXCEPT !.status = "paused"] /\ timestamp' = 0 /\ UNCHANGED queue

mediaTogglePlayPause ==
    /\ player' = [player EXCEPT !.status = IF @ = "playing" THEN "paused" ELSE "playing"]
    /\ UNCHANGED <<queue, timestamp>>

\* Seeking, and the engine's progress reports.
mediaSeekToTimestamp(t) == timestamp' = t /\ UNCHANGED <<player, queue>>

setRepeat(r) == player' = [player EXCEPT !.repeat = r] /\ UNCHANGED <<queue, timestamp>>

toggleRepeat ==
    setRepeat(CASE player.repeat = "none" -> "one" [] player.repeat = "one" -> "all" [] OTHER -> "none")

setPauseOnNextSongEnd(b) ==
    player' = [player EXCEPT !.pauseOnNextSongEnd = b] /\ UNCHANGED <<queue, timestamp>>

-----------------------------------------------------------------------------
Init ==
    /\ player = [index |-> -1, playerNum |-> 1, repeat |-> "none", shuffle |-> "none",
                 status |-> "paused", pauseOnNextSongEnd |-> FALSE]
    /\ queue = [default |-> <<>>, shuffled |-> <<>>, songs |-> {}]
    /\ timestamp = 0

DropSongs == \E ids \in NewItems, at \in DropPositions :
                \E target \in {NoSong} \cup Range(ids) : addToQueueByUniqueId(ids, at, target)

Moves ==
    \E sel \in Selections :
        \/ \E at \in DropPositions : moveSelectedTo(sel, at)
        \/ moveSelectedToBottom(sel) \/ moveSelectedToTop(sel) \/ moveSelectedToNext(sel)

RemoveSongs == clearQueue \/ \E sel \in Selections : clearSelected(sel)

RestoreQueue ==
    \E ids \in Replacements :
        \E i \in IF ids = <<>> THEN {0} ELSE 0 .. Len(ids) - 1 : setQueue(ids, i)

Shuffling ==
    \/ toggleShuffle \/ shuffle \/ shuffleAll
    \/ \E s \in {"none", "track"} : setShuffle(s)
    \/ \E sel \in Selections : shuffleSelected(sel)

Navigate ==
    \/ mediaNext \/ mediaPrevious
    \/ \E id \in Range(queue.default) \cup {NoSong} : mediaPlay(id)
    \/ \E i \in -1 .. Len(queue.default) : mediaPlayByIndex(i)

Controls ==
    \/ mediaPause \/ mediaStop \/ mediaTogglePlayPause \/ toggleRepeat
    \/ \E t \in Timestamps : mediaSeekToTimestamp(t)
    \/ \E r \in Repeats : setRepeat(r)
    \/ \E b \in BOOLEAN : setPauseOnNextSongEnd(b)

Next ==
    \/ addToQueueByType \/ DropSongs \/ RemoveSongs \/ Moves \/ RestoreQueue
    \/ Shuffling \/ mediaAutoNext \/ Navigate \/ Controls

Spec == Init /\ [][Next]_vars

-----------------------------------------------------------------------------
Current == getCurrentSong(player, queue)

\* A song is current, and while shuffle is on queue.shuffled lists every
\* position of the queue once.
Aligned ==
    /\ player.index \in 0 .. Len(queue.default) - 1
    /\ player.shuffle = "track" => /\ Len(queue.shuffled) = Len(queue.default)
                                   /\ Range(queue.shuffled) = 0 .. Len(queue.default) - 1

Additions ==
    \E ids \in NewItems :
        \/ AddLast(ids) \/ AddLastShuffle(ids) \/ AddNext(ids) \/ AddNextShuffle(ids)
        \/ \E at \in DropPositions : addToQueueByUniqueId(ids, at, NoSong)

(* Adding songs to the queue, at the end, after the current song or at a place  *)
(* where they are dropped (addToQueueByType, addToQueueByUniqueId), leaves the  *)
(* current song current and, under shuffle, every song of the queue in the      *)
(* playback order once.                                                         *)
AddingKeepsPlaying == [][Aligned /\ Additions => Aligned' /\ Current' = Current]_vars

(* Switching shuffle on or off (toggleShuffle, setShuffle) changes the meaning  *)
(* of player.index under a song that is playing: it is still the current song   *)
(* afterwards.                                                                  *)
ShuffleSwitchKeepsPlaying ==
    [][Aligned /\ player.shuffle # player.shuffle' => Aligned' /\ Current' = Current]_vars

(* Without shuffle, reordering the queue (the four moves, shuffleAll) or        *)
(* removing other songs from it (clearSelected) leaves the current song current.*)
EditingKeepsPlaying ==
    [][/\ Aligned /\ player.shuffle = "none"
       /\ Moves \/ shuffleAll \/ \E sel \in Selections : Current \notin sel /\ clearSelected(sel)
       => Current' = Current]_vars

(* When a track ends and playback goes on (mediaAutoNext), the web player that  *)
(* takes over is one that already has the song loaded which becomes current:    *)
(* what makes playback gapless.                                                 *)
HandOver ==
    [][Aligned /\ mediaAutoNext /\ player'.status = "playing"
       => /\ Current' # NoSong
          /\ getPlayerData(player, queue).decks[player'.playerNum] = Current']_vars

\* The player after k ends of tracks and nothing else.
lap[k \in 0 .. Len(queue.default)] == IF k = 0 THEN player ELSE AfterAutoNext(lap[k - 1], queue)

(* With repeat on, the ends of tracks alone (mediaAutoNext) lead through every  *)
(* song of the queue, shuffled or not, before one is heard again.               *)
LapPlaysAll ==
    Aligned /\ player.repeat = "all" =>
        {getCurrentSong(lap[k], queue) : k \in 1 .. Len(queue.default)} = Range(queue.default)
=============================================================================
