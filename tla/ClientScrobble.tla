--------------------------- MODULE ClientScrobble ---------------------------
(***************************************************************************)
(* The scrobble hook of the client (features/player/hooks/use-scrobble.ts) *)
(* between the player store, whose subscribers it is one of, and the       *)
(* server's scrobble API as the controllers of renderer/api call it.       *)
(*                                                                         *)
(* The hook does not hear the music.  It sees the position the player      *)
(* polls into the timestamp store, and the store is also written by seeks, *)
(* by song changes and by commands that leave the playhead where it is.    *)
(* From the differences it computes how long the current song was heard.   *)
(*                                                                         *)
(* Positions are whole seconds, as the player rounds them.  Every song has *)
(* the same length.  What the reports carry besides the song (position,    *)
(* rate, media type) and the desktop notification are left out.            *)
(***************************************************************************)
EXTENDS Integers

CONSTANTS
    Songs, NoSong,
    Servers,        \* the kinds of server the song may come from
    Length,         \* where the playhead ends
    Duration,       \* duration of the song as the server has it, 0 if unknown
    Begin,          \* SCROBBLE_TRACK_BEGIN_SEC
    RestartMin,     \* SCROBBLE_RESTART_PREVIOUS_MIN_SEC
    MaxDelta,       \* MAX_LISTEN_DELTA_SEC
    AtPercentage, AtDuration,   \* scrobbleAtPercentage, scrobbleAtDuration
    MaxCredit       \* bound: seconds heard in one play-through

VARIABLES
    server,
    song, status, pos,    \* the player: current song, status, playhead
    clock,                \* the timestamp store
    mounted,              \* scrobbling is enabled and private mode is off
    refs,                 \* isCurrentSongScrobbled, listenedMs, lastListenSampleTime
    previousSong,         \* previousSongRef
    own, orphan,          \* the pending song change timeout of the hook, and of the hook
                          \* unmounted before it
    late,                 \* a position the player was asked for before a command moved the
                          \* playhead, its answer still on the way; or Null
    told,                 \* what the server shows as playing
    credit,               \* history: seconds heard of the play-through, and the forward
                          \* jumps of at most MaxDelta the hook takes for hearing
    sent,                 \* history: submissions of the play-through
    lapse                 \* history: the server was not told, or told otherwise, since
                          \* the song came up

playerVars == <<song, status, pos, clock>>
pending == <<own, orphan, late>>
history == <<credit, sent>>
vars == <<server, playerVars, mounted, refs, previousSong, pending, told, history, lapse>>

(* checkScrobbleConditions, in percent and seconds.                        *)
checkScrobbleConditions(l) ==
    \/ Duration # 0 /\ 100 * l >= AtPercentage * Duration
    \/ l >= AtDuration

ASSUME ScrobbleAssumption ==
    /\ Length \in Nat /\ Duration \in Nat /\ AtPercentage \in Nat /\ AtDuration \in Nat
    /\ MaxDelta \in Nat /\ Begin \in Nat \ {0} /\ RestartMin \in Nat /\ MaxCredit \in Nat
    /\ Begin <= RestartMin
    /\ Servers \subseteq {"plain", "reporting", "jellyfin"}
    /\ NoSong \notin Songs

\* The settings ask for some listening.
ASSUME ThresholdAssumption == ~checkScrobbleConditions(0)

Null == -1
FreshRefs == [scrobbled |-> FALSE, listened |-> 0, sample |-> Null]

Changes == [cur : Songs \cup {NoSong}, prev : Songs \cup {NoSong}]

TypeOK ==
    /\ server \in Servers
    /\ song \in Songs \cup {NoSong} /\ previousSong \in Songs \cup {NoSong}
    /\ status \in {"playing", "paused"}
    /\ pos \in 0 .. Length /\ clock \in 0 .. Length
    /\ mounted \in BOOLEAN /\ lapse \in BOOLEAN
    /\ refs \in [scrobbled : BOOLEAN, listened : Nat, sample : {Null} \cup 0 .. Length]
    /\ late \in {Null} \cup 0 .. Length
    /\ own \subseteq Changes /\ orphan \subseteq Changes
    /\ told \in Songs \cup {NoSong}
    /\ credit \in Nat /\ sent \in Nat

--------------------------------------------------------------------------------
(* The server's picture of the client.  A server that takes playback       *)
(* reports drops a song that was stopped; to a plain Subsonic server every *)
(* report that is no submission says "now playing"; Jellyfin is told of a  *)
(* submission by stopping the song.                                        *)
Stopped(known, s) == IF known = s THEN NoSong ELSE known

subsonicScrobble(known, event, s) ==
    CASE event = "submit" -> known
      [] event = "stop" /\ server = "reporting" -> Stopped(known, s)
      [] OTHER -> s

jellyfinScrobble(known, event, s) ==
    IF event \in {"submit", "stop"} THEN Stopped(known, s) ELSE s

scrobble(known, event, s) ==
    IF server = "jellyfin" THEN jellyfinScrobble(known, event, s) ELSE subsonicScrobble(known, event, s)

hasPlaybackReport == server # "plain"

--------------------------------------------------------------------------------
(* handleScrobbleFromProgress: the position went from prev to now.         *)
Restarted(now, prev) == now < prev /\ now < Begin /\ prev >= RestartMin

JumpedBack(r, now) == now < r.sample /\ now < Begin /\ r.sample >= Begin

\* Mutants: the gap between two positions is not bounded; it may be negative.
CountsJumps(r, now, prev) ==
    LET from == IF r.sample = Null THEN prev ELSE r.sample
        gain == IF now > from THEN now - from ELSE 0
    IN  IF r.sample # Null /\ JumpedBack(r, now)
        THEN [scrobbled |-> FALSE, listened |-> 0, sample |-> now]
        ELSE [r EXCEPT !.listened = @ + gain, !.sample = now]

CountsBackwards(r, now, prev) ==
    LET from == IF r.sample = Null THEN prev ELSE r.sample
        gain == IF now - from <= MaxDelta THEN now - from ELSE 0
    IN  IF r.sample # Null /\ JumpedBack(r, now)
        THEN [scrobbled |-> FALSE, listened |-> 0, sample |-> now]
        ELSE [r EXCEPT !.listened = @ + gain, !.sample = now]

Counted(r, now, prev) ==
    LET from == IF r.sample = Null THEN prev ELSE r.sample
        gain == IF now > from /\ now - from <= MaxDelta THEN now - from ELSE 0
    IN  IF r.sample # Null /\ JumpedBack(r, now)
        THEN [scrobbled |-> FALSE, listened |-> 0, sample |-> now]
        ELSE [r EXCEPT !.listened = @ + gain, !.sample = now]

\* Mutants: the flag is not set; the conditions are checked before the time is counted.
FlagNotSet(r, now, prev) ==
    IF status # "playing" THEN [r EXCEPT !.sample = now]
    ELSE IF Restarted(now, prev) THEN FreshRefs
    ELSE Counted(r, now, prev)

ChecksFirst(r, now, prev) ==
    IF status # "playing" THEN [r EXCEPT !.sample = now]
    ELSE IF Restarted(now, prev) THEN FreshRefs
    ELSE [Counted(r, now, prev) EXCEPT !.scrobbled = @ \/ checkScrobbleConditions(r.listened)]

handleScrobbleFromProgress(r, now, prev) ==
    IF status # "playing" THEN [r EXCEPT !.sample = now]
    ELSE IF Restarted(now, prev) THEN FreshRefs
    ELSE LET c == Counted(r, now, prev)
         IN  [c EXCEPT !.scrobbled = @ \/ checkScrobbleConditions(c.listened)]

\* The timestamp store becomes t: the hook is told unless it already was t.
Hears(t) == mounted /\ song # NoSong /\ t # clock
Progressed(t) == IF Hears(t) THEN handleScrobbleFromProgress(refs, t, clock) ELSE refs

Submits(t) ==
    /\ Hears(t) /\ status = "playing" /\ ~Restarted(t, clock)
    /\ ~Counted(refs, t, clock).scrobbled
    /\ checkScrobbleConditions(Counted(refs, t, clock).listened)

AfterProgress(t) == IF Submits(t) THEN scrobble(told, "submit", song) ELSE told

(* handleScrobbleFromSeek on the refs the progress event left.             *)
handleScrobbleFromSeek(r, t) ==
    IF t < Begin /\ (r.sample = Null \/ r.sample >= Begin)
    THEN [scrobbled |-> FALSE, listened |-> 0, sample |-> t]
    ELSE [r EXCEPT !.sample = t]

\* Mutant: only pauses are reported.
ReportsPauses(known, s, old, new) ==
    IF mounted /\ s # NoSong /\ hasPlaybackReport /\ old # new /\ new = "paused"
    THEN scrobble(known, "pause", s)
    ELSE known

(* handleScrobbleFromStatus, for the song current after the change.        *)
handleScrobbleFromStatus(known, s, old, new) ==
    IF mounted /\ s # NoSong /\ hasPlaybackReport /\ old # new
    THEN scrobble(known, IF new = "paused" THEN "pause" ELSE "unpause", s)
    ELSE known

--------------------------------------------------------------------------------
(* History.  A play-through starts over when the position seen while       *)
(* playing goes back to the start of the track.                            *)
Returned(t) == status = "playing" /\ song # NoSong /\ t < Begin /\ clock >= Begin

\* The jumps the hook cannot tell from listening (MAX_LISTEN_DELTA_SEC).
Jump(d) == IF 0 < d /\ d <= MaxDelta THEN d ELSE 0

Account(new, submits, gain) ==
    /\ credit' = (IF new THEN 0 ELSE credit) + gain
    /\ sent' = IF submits THEN sent + 1 ELSE IF new THEN 0 ELSE sent

Lapsed(submits) == lapse' = (lapse \/ (submits /\ server = "jellyfin"))

\* The interval of the mpv player asks for the position and writes it when the answer
\* comes, whatever happened to the playhead in between.
Overtakes == late' \in {late} \cup (IF status = "playing" /\ song # NoSong THEN {pos} ELSE {})

--------------------------------------------------------------------------------
Init ==
    /\ server \in Servers
    /\ song \in Songs \cup {NoSong} /\ status = "paused" /\ pos = 0 /\ clock = 0
    /\ mounted = TRUE /\ refs = FreshRefs /\ previousSong = NoSong
    /\ own = {} /\ orphan = {} /\ late = Null /\ told = NoSong
    /\ credit = 0 /\ sent = 0 /\ lapse = FALSE

\* A second of the song is heard.
Hear ==
    /\ song # NoSong /\ status = "playing" /\ pos < Length /\ credit < MaxCredit
    /\ pos' = pos + 1
    /\ Account(FALSE, FALSE, 1)
    /\ late' = Null                 \* bound: an answer takes less than a second
    /\ UNCHANGED <<server, song, status, clock, mounted, refs, previousSong, own, orphan, told, lapse>>

\* The interval of the player copies the playhead into the store.
Poll ==
    /\ song # NoSong /\ clock # pos
    /\ clock' = pos
    /\ refs' = Progressed(pos)
    /\ told' = AfterProgress(pos)
    /\ Account(Returned(pos), Submits(pos), 0)
    /\ Lapsed(Submits(pos))
    /\ UNCHANGED <<server, song, status, pos, mounted, previousSong, pending>>

\* The answer to a poll that a seek, a stop or a song change overtook: the store takes a
\* position the playhead has left, and the next poll goes back to the real one.
LatePoll ==
    /\ late # Null
    /\ LET gain == (IF status = "playing" THEN Jump(late - clock) ELSE 0) + Jump(pos - late)
       IN  /\ credit + gain <= MaxCredit
           /\ Account(Returned(late), Submits(late), gain)
    /\ clock' = late /\ late' = Null
    /\ refs' = Progressed(late)
    /\ told' = AfterProgress(late)
    /\ Lapsed(Submits(late))
    /\ UNCHANGED <<server, song, status, pos, mounted, previousSong, own, orphan>>

\* mediaSeekToTimestamp and the skips: the store is written first, then the seek is
\* told.  Seeks are reported once a second at most.
Seek(t) ==
    /\ song # NoSong /\ credit + MaxDelta <= MaxCredit
    /\ clock' = t /\ pos' = t
    /\ refs' = IF mounted THEN handleScrobbleFromSeek(Progressed(t), t) ELSE refs
    /\ \E reported \in IF mounted /\ hasPlaybackReport THEN BOOLEAN ELSE {FALSE} :
          told' = IF reported THEN scrobble(AfterProgress(t), "unpause", song) ELSE AfterProgress(t)
    /\ Account(Returned(t), Submits(t), IF status = "playing" THEN Jump(t - clock) ELSE 0)
    /\ Lapsed(Submits(t))
    /\ Overtakes
    /\ UNCHANGED <<server, song, status, mounted, previousSong, own, orphan>>

\* mediaNext on the last song and mediaPrevious on the first: the store goes to 0 and
\* nothing else need happen, unless the other deck takes over.
Stay(p) ==
    /\ song # NoSong /\ credit + MaxDelta <= MaxCredit
    /\ clock' = 0 /\ pos' = p
    /\ refs' = Progressed(0)
    /\ told' = AfterProgress(0)
    /\ Account(Returned(0), Submits(0), Jump(p))
    /\ Lapsed(Submits(0))
    /\ UNCHANGED <<server, song, status, mounted, previousSong, pending>>

\* mediaStop and the end of the queue: the store goes to 0 and the player is paused;
\* mediaStop also seeks.
Halt(seeks) ==
    /\ song # NoSong
    /\ clock' = 0 /\ pos' = 0 /\ status' = "paused"
    /\ refs' = IF mounted /\ seeks THEN handleScrobbleFromSeek(Progressed(0), 0) ELSE Progressed(0)
    /\ \E reported \in IF mounted /\ hasPlaybackReport /\ seeks THEN BOOLEAN ELSE {FALSE} :
          LET known == handleScrobbleFromStatus(AfterProgress(0), song, status, "paused")
          IN  told' = IF reported THEN scrobble(known, "pause", song) ELSE known
    /\ Account(Returned(0), Submits(0), 0)
    /\ Lapsed(Submits(0))
    /\ Overtakes
    /\ UNCHANGED <<server, song, mounted, previousSong, own, orphan>>

\* mediaPlay, mediaPause, mediaTogglePlayPause.
SetStatus(st) ==
    /\ status # st
    /\ status' = st
    /\ told' = handleScrobbleFromStatus(told, song, status, st)
    /\ UNCHANGED <<server, song, pos, clock, mounted, refs, previousSong, pending, history, lapse>>

--------------------------------------------------------------------------------
\* Whatever makes another queue entry current: handleScrobbleFromSongChange.  The store
\* goes to 0 while the old song is still current, or stays where it is (clearQueue,
\* clearSelected); the status may change with the song.
ChangeSong(s, t, st) ==
    /\ song # NoSong \/ s # NoSong
    /\ song' = s /\ status' = st /\ clock' = t /\ pos' = 0
    /\ told' = handleScrobbleFromStatus(AfterProgress(t), s, status, st)
    /\ refs' = IF mounted THEN FreshRefs ELSE refs
    /\ previousSong' = IF mounted THEN s ELSE previousSong
    /\ own' = IF mounted THEN {[cur |-> s, prev |-> previousSong]} ELSE own
    /\ Account(TRUE, Submits(t), 0)
    /\ lapse' = ~mounted
    /\ Overtakes
    /\ UNCHANGED <<server, mounted, orphan>>

\* The timeout of a song change: start, then stop.
Fires(due) ==
    /\ LET started == IF status = "playing" /\ due.cur # NoSong
                      THEN scrobble(told, "start", due.cur) ELSE told
       IN  told' = IF due.prev # NoSong THEN scrobble(started, "stop", due.prev) ELSE started
    /\ lapse' = (lapse \/ due.prev = due.cur)
    /\ own' = (IF orphan = {} THEN {} ELSE own) /\ orphan' = {}
    /\ UNCHANGED <<server, playerVars, mounted, refs, previousSong, late, history>>

\* Repeat one: the song starts over, in the element (the position is back at the start)
\* or through mediaAutoNext.  handleScrobbleFromRepeat hears of it.
Repeat(st) ==
    /\ song # NoSong /\ status = "playing" /\ pos = Length
    /\ clock' = 0 /\ pos' = 0 /\ status' = st
    /\ LET known == handleScrobbleFromStatus(AfterProgress(0), song, status, st)
           repeated == mounted /\ st = "playing"
       IN  /\ refs' = IF repeated THEN FreshRefs ELSE Progressed(0)
           /\ told' = IF repeated THEN scrobble(known, "start", song) ELSE known
           /\ Account(Returned(0) \/ repeated, Submits(0), 0)
    /\ Lapsed(Submits(0))
    /\ UNCHANGED <<server, song, mounted, previousSong, pending>>

\* The element loops and no progress event falls into the first part of the song.
LoopUnseen ==
    /\ song # NoSong /\ status = "playing" /\ pos = Length /\ Length > 0
    /\ pos' = 0
    /\ UNCHANGED <<server, song, status, clock, mounted, refs, previousSong, pending, told, history, lapse>>

--------------------------------------------------------------------------------
\* The buttons of the scrobble status: forceSubmitScrobble, resetListenedState.
ForceSubmit ==
    /\ mounted /\ song # NoSong
    /\ refs' = [refs EXCEPT !.scrobbled = TRUE]
    /\ told' = scrobble(told, "submit", song)
    /\ Lapsed(TRUE)
    /\ UNCHANGED <<server, playerVars, mounted, previousSong, pending, history>>

ResetListened ==
    /\ mounted /\ song # NoSong
    /\ refs' = [scrobbled |-> FALSE, listened |-> 0, sample |-> clock]
    /\ Account(TRUE, FALSE, Jump(pos - clock))
    /\ UNCHANGED <<server, playerVars, mounted, previousSong, pending, told, lapse>>

\* Private mode, or scrobbling switched off: the hook unmounts.  Its timeouts run on.
Unmount ==
    /\ mounted
    /\ orphan = {}                  \* bound: one mode switch per timeout
    /\ mounted' = FALSE
    /\ orphan' = own /\ own' = {}
    /\ UNCHANGED <<server, playerVars, refs, previousSong, late, told, history, lapse>>

Mount ==
    /\ ~mounted
    /\ mounted' = TRUE /\ refs' = FreshRefs /\ previousSong' = NoSong
    /\ lapse' = TRUE
    /\ Account(TRUE, FALSE, Jump(pos - clock))
    /\ UNCHANGED <<server, playerVars, pending, told>>

--------------------------------------------------------------------------------
Seeking == \E t \in 0 .. Length : Seek(t)
Staying == \E p \in {0, pos} : Stay(p)
Halting == \E seeks \in BOOLEAN : Halt(seeks)
Switching == \E st \in {"playing", "paused"} : SetStatus(st)
Changing == \E s \in Songs \cup {NoSong}, t \in {0, clock}, st \in {"playing", "paused"} :
                ChangeSong(s, t, st)
\* Timeouts of equal length fire in the order they were set.
TimerFires == \E due \in IF orphan # {} THEN orphan ELSE own : Fires(due)
Repeating == \E st \in {"playing", "paused"} : Repeat(st)

Next ==
    \/ Hear \/ Poll \/ LatePoll \/ Seeking \/ Staying \/ Halting \/ Switching
    \/ Changing \/ TimerFires \/ Repeating \/ LoopUnseen
    \/ ForceSubmit \/ ResetListened \/ Unmount \/ Mount

Spec == Init /\ [][Next]_vars

--------------------------------------------------------------------------------
\* What the hook promises to the play counts.
Report == INSTANCE PlayReport
          WITH Enough <- {l \in Nat : checkScrobbleConditions(l)}, Slack <- 2 * MaxDelta

\* A play-through is submitted at most once and only when the hook's listening time,
\* at most what was heard and jumps of up to MaxDelta, makes it count: whatever polls,
\* seeks, song changes, repeats and status changes come in whatever order
\* (handleScrobbleFromProgress, handleScrobbleFromSeek, handleScrobbleFromRepeat).
SubmitsPlays == Report!Spec

\* The listening time accumulated is at most the seconds heard of the play-through and the
\* forward jumps of the position of at most MaxDelta each, with what the next poll will
\* add already on the way.  Such a jump does count, whoever makes it: a short seek, the
\* answer to an overtaken poll, a store set to 0 while the playhead stays.  No longer jump
\* and no jump back ever counts, and nothing is counted twice
\* (handleScrobbleFromProgress, MAX_LISTEN_DELTA_SEC).
OnlyShortJumpsCount ==
    mounted =>
        /\ refs.listened <= credit
        /\ pos - clock \in 0 .. MaxDelta => refs.listened + (pos - clock) <= credit

\* No play that counts is left unsubmitted: as soon as the time accumulated meets the
\* conditions the submission has gone out.
CountedIsSubmitted ==
    mounted /\ checkScrobbleConditions(refs.listened) => refs.scrobbled

\* Once the timeout of the song change is over, a server that takes playback reports
\* shows the song that is playing.
ServerKnows ==
    mounted /\ hasPlaybackReport /\ song # NoSong /\ status = "playing" /\ own = {} /\ orphan = {} /\ ~lapse
        => told = song

\* After the stop report for the previous song, which is no longer playing, no server
\* shows it as playing (the timeout of handleScrobbleFromSongChange).
StopEndsSong ==
    [][\A due \in own \cup orphan :
          Fires(due) /\ due.prev \notin {NoSong, due.cur} => told' # due.prev]_vars

\* Seeks re-baseline the next sample without counting the jump as listen time: a seek adds
\* no more than what was heard since the last poll (the header of use-scrobble.ts).
JumpsUncounted ==
    [][\A t \in 0 .. Length :
          Seek(t) => refs'.listened <= refs.listened + (IF pos > clock THEN pos - clock ELSE 0)]_vars

\* What is inductive: samples are positions of the store, a play without a sample is a
\* fresh one, and a submission sets the flag.
SamplesCurrent ==
    mounted =>
        /\ song # NoSong => refs.sample \in {Null, clock}
        /\ refs.sample = Null => refs.listened = 0 /\ sent = 0

SentIsFlagged == sent <= 1 /\ (mounted /\ sent = 1 => refs.scrobbled)

HookInv ==
    TypeOK /\ OnlyShortJumpsCount /\ CountedIsSubmitted /\ SamplesCurrent /\ SentIsFlagged
=============================================================================
