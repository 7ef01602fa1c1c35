----------------------------- MODULE WebPlayback -----------------------------
(***************************************************************************)
(* The web player of the client: the component                             *)
(* features/player/audio-player/web-player.tsx with its engine             *)
(* engine/web-player-engine.tsx, on top of the player store.               *)
(*                                                                         *)
(* Two audio elements, the decks, take turns: one holds the current song,  *)
(* the other has the next one loaded so that it can start before the       *)
(* current one ends.  Three things run on their own: the store, whose      *)
(* subscribers are called inside every change; React, which commits the    *)
(* component's own state (isTransitioning, localPlayerStatus) some time    *)
(* after it was set, so that a handler sees what was committed last; and   *)
(* the elements with their events, fade intervals and retry timers.        *)
(*                                                                         *)
(* The position in a track is before, or within reach of its end: the last *)
(* crossfadeDuration seconds, or the last two of a gapless transition.     *)
(***************************************************************************)
EXTENDS PlayerQueue

CONSTANTS
    Settings,     \* what is fixed for a run of the client: transitionType,
                  \* audioFadeOnStatusChange and MAX_NETWORK_RETRIES
    MaxErrors     \* bound on the errors of the audio elements

ASSUME WebPlaybackAssumption ==
    /\ Settings \subseteq [style : {"crossfade", "gapless"}, fades : BOOLEAN, maxRetries : Nat]
    /\ MaxErrors \in Nat

VARIABLES
    settings,
    web,          \* the component: its state, decks, volumes, fade and retries
    seen,         \* isTransitioning and localPlayerStatus as last committed
    used          \* errors so far

webVars == <<player, queue, timestamp, settings, web, seen, used>>

Decks == {1, 2}
NoDeck == [song |-> NoSong, ok |-> FALSE, on |-> FALSE, at |-> "start"]
Transitions == {"no", "gapless", "player1", "player2"}
PlayerName(d) == IF d = 1 THEN "player1" ELSE "player2"

WebTypeOK ==
    /\ settings \in Settings
    /\ web \in [trans : Transitions, local : {"playing", "paused"},
                deck : [Decks -> [song : Ids \cup {NoSong}, ok : BOOLEAN, on : BOOLEAN,
                                  at : {"start", "late"}]],
                full : [Decks -> BOOLEAN], fade : {"none", "in", "out"},
                retry : [Decks -> 0 .. settings.maxRetries], timer : [Decks -> 0 .. MaxErrors]]
    /\ seen \in [trans : Transitions, local : {"playing", "paused"}]
    /\ used \in 0 .. MaxErrors
    /\ \A d \in Decks : web.deck[d].on => web.deck[d].ok /\ web.deck[d].song # NoSong

-----------------------------------------------------------------------------
(* The audio elements and what the engine does with them.                  *)

\* play() on an element that has nothing to play is without effect here; once loaded it is
\* the playing prop that starts it (LoadDeck).
PlayElement(k) ==
    IF k.song = NoSong \/ ~k.ok THEN k
    ELSE [k EXCEPT !.on = TRUE]

PauseElement(k) == [k EXCEPT !.on = FALSE]

PlayDeck(w, d) == [w EXCEPT !.deck[d] = PlayElement(@)]
PauseDeck(w, d) == [w EXCEPT !.deck[d] = PauseElement(@)]
pauseBothPlayers(w) == PauseDeck(PauseDeck(w, 1), 2)
setVolume(w, full) == [w EXCEPT !.full = [d \in Decks |-> full]]

\* Back to one deck in the middle of a crossfade.
DropOther(w, num) == PauseDeck([w EXCEPT !.full = [d \in Decks |-> d = num]], 3 - num)

-----------------------------------------------------------------------------
(* React.  A store change is committed at once, the component's own state  *)
(* by a later Render.                                                      *)

PlayingProp(p, s, d) == p.playerNum = d /\ s.local = "playing"

\* react-player: a new url replaces what the element had, a changed prop
\* plays or pauses it.
UpdateDeck(k, song, was, is) ==
    CASE k.song # NoSong /\ k.song # song -> NoDeck
      [] k.song = song /\ ~was /\ is -> PlayElement(k)
      [] k.song = song /\ was /\ ~is -> PauseElement(k)
      [] OTHER -> k

\* Mutant: the deck that is not active is left alone.
NothingEnsured(w, p, s) == w

\* "When not transitioning, ensure only the active player can play"
EnsureOnlyActive(w, p, s) ==
    CASE s.trans # "no" -> w
      [] s.trans = "no" /\ s.local = "playing" -> PauseDeck(w, 3 - p.playerNum)
      [] OTHER -> pauseBothPlayers(w)

EffectRuns(p, s, p1, s1) ==
    p.playerNum # p1.playerNum \/ s.local # s1.local \/ (s.trans = "no") # (s1.trans = "no")

\* From the props of p and s to those of p1, q1 and s1.
Committed(w, p, s, p1, q1, s1) ==
    LET songs == getPlayerData(p1, q1).decks
        decks == [d \in Decks |-> UpdateDeck(w.deck[d], songs[d], PlayingProp(p, s, d), PlayingProp(p1, s1, d))]
        fresh == \E d \in Decks : decks[d].song # w.deck[d].song
        w1 == [w EXCEPT !.deck = decks, !.retry = IF fresh THEN [d \in Decks |-> 0] ELSE @]
    IN  IF EffectRuns(p, s, p1, s1) THEN EnsureOnlyActive(w1, p1, s1) ELSE w1

-----------------------------------------------------------------------------
(* usePlayerEvents: the subscribers, in the order they subscribe, with the *)
(* player number and the transition of the last commit.                    *)

onCurrentSongChange(w) == [w EXCEPT !.trans = "no"]

onPlayerSeekToTimestamp(w, at) ==
    LET num == player.playerNum
        w1 == [w EXCEPT !.trans = "no"]
        w2 == IF seen.trans # "no" /\ settings.style = "crossfade" THEN DropOther(w1, num) ELSE w1
    IN  IF ~w.deck[num].ok THEN w2 ELSE [w2 EXCEPT !.deck[num].at = at]

\* Mutant: the status that is faded in is not set.
FadesOnly(w, status) ==
    IF status = "paused" THEN [setVolume(w, TRUE) EXCEPT !.fade = "out"]
    ELSE [setVolume(w, FALSE) EXCEPT !.fade = "in"]

\* A new fade replaces the one in progress, whose promise then never resolves.
fadeAndSetStatus(w, status) ==
    IF status = "paused" THEN [setVolume(w, TRUE) EXCEPT !.fade = "out"]
    ELSE [setVolume(w, FALSE) EXCEPT !.fade = "in", !.local = "playing"]

onPlayerStatus(w, status) ==
    LET w1 == [w EXCEPT !.trans = "no"]
        w2 == IF status = "paused" /\ seen.trans # "no" /\ settings.style = "crossfade"
              THEN DropOther(w1, player.playerNum) ELSE w1
    IN  IF settings.fades THEN fadeAndSetStatus(w2, status)
        ELSE [setVolume(w2, TRUE) EXCEPT !.local = status]

\* The component after the store's change to p1 and q1; a seek comes with it
\* unless at is "none".
Notified(w, p1, q1, at) ==
    LET w1 == IF getCurrentSong(p1, q1) # getCurrentSong(player, queue) THEN onCurrentSongChange(w) ELSE w
        w2 == IF at = "none" THEN w1 ELSE onPlayerSeekToTimestamp(w1, at)
        w3 == IF p1.status # player.status THEN onPlayerStatus(w2, p1.status) ELSE w2
    IN  Committed(w3, player, seen, p1, q1, seen)

Store(at) ==
    /\ web' = Notified(web, player', queue', at)
    /\ UNCHANGED <<settings, seen, used>>

Render ==
    LET s1 == [trans |-> web.trans, local |-> web.local]
    IN  /\ seen # s1
        /\ seen' = s1
        /\ web' = Committed(web, player, seen, player, queue, s1)
        /\ UNCHANGED <<player, queue, timestamp, settings, used>>

-----------------------------------------------------------------------------
(* What the user does.                                                     *)

Commands ==
    \/ (mediaNext \/ mediaPause \/ mediaPlay(NoSong) \/ mediaTogglePlayPause) /\ Store("none")
    \/ \E r \in Repeats : setRepeat(r) /\ Store("none")
    \/ \E b \in BOOLEAN : setPauseOnNextSongEnd(b) /\ Store("none")
    \/ \E id \in Range(queue.default) : mediaPlay(id) /\ Store("none")
    \/ mediaPrevious /\ Store("none")
    \/ mediaStop /\ Store("start")
    \/ \E at \in {"start", "late"} : mediaSeekToTimestamp(0) /\ Store(at)

\* clearQueue, and mediaStop by the subscriber onQueueCleared.
ClearAndStop ==
    /\ queue.default # <<>>
    /\ queue' = [default |-> <<>>, shuffled |-> <<>>, songs |-> {}]
    /\ player' = [player EXCEPT !.index = -1, !.status = "paused"]
    /\ timestamp' = 0
    /\ Store("start")

Refill == queue.default = <<>> /\ (\E ids \in Replacements : Len(ids) = MaxAdded /\ PlayNow(ids, NoSong)) /\ Store("none")

-----------------------------------------------------------------------------
(* What the decks do on their own.                                         *)

\* The stream URL is there and the element can play.
LoadDeck(d) ==
    LET song == getPlayerData(player, queue).decks[d]
        fresh == [song |-> song, ok |-> TRUE, on |-> FALSE, at |-> "start"]
    IN  /\ song # NoSong /\ web.deck[d].song # song
        /\ web' = [web EXCEPT !.deck[d] = IF PlayingProp(player, seen, d) THEN PlayElement(fresh) ELSE fresh,
                              !.retry = [e \in Decks |-> 0]]
        /\ UNCHANGED <<player, queue, timestamp, settings, seen, used>>

\* The track comes within reach of its end.
NearEnd(d) ==
    /\ web.deck[d].on /\ web.deck[d].at = "start"
    /\ web' = [web EXCEPT !.deck[d].at = "late"]
    /\ UNCHANGED <<player, queue, timestamp, settings, seen, used>>

crossfadeHandler(w, d, hasNextSong) ==
    CASE ~hasNextSong -> [DropOther(w, d) EXCEPT !.trans = IF seen.trans # "no" THEN "no" ELSE @]
      [] hasNextSong /\ seen.trans = "no" /\ w.deck[d].at = "late" /\ ~player.pauseOnNextSongEnd ->
            [PlayDeck([w EXCEPT !.full[3 - d] = FALSE], 3 - d) EXCEPT !.trans = PlayerName(d)]
      [] hasNextSong /\ seen.trans # "no" /\ (seen.trans = PlayerName(d) \/ player.playerNum = d) -> setVolume(w, FALSE)
      [] OTHER -> w

\* Within durationPadding of the end or not yet: both may be.
gaplessHandler(w, d, hasNextSong) ==
    CASE hasNextSong /\ seen.trans = "no" /\ w.deck[d].at = "late" -> {[w EXCEPT !.trans = "gapless"]}
      [] hasNextSong /\ seen.trans # "no" /\ w.deck[d].at = "late" /\ ~player.pauseOnNextSongEnd ->
            {w, PlayDeck(w, 3 - d)}
      [] OTHER -> {w}

\* onProgressPlayer1 and 2; with repeat one only handleRepeatOne, see RepeatOne.
onProgress(d) ==
    LET hasNextSong == getPlayerData(player, queue).decks[3 - d] # NoSong
    IN  /\ web.deck[d].on /\ player.repeat # "one"
        /\ web' \in IF settings.style = "crossfade" THEN {crossfadeHandler(web, d, hasNextSong)}
                    ELSE gaplessHandler(web, d, hasNextSong)
        /\ web' # web
        /\ UNCHANGED <<player, queue, timestamp, settings, seen, used>>

Loops(d) == player.repeat = "one" /\ player.playerNum = d

\* The element loops, and handleRepeatOne notices.
RepeatOne(d) ==
    /\ web.deck[d].on /\ web.deck[d].at = "late" /\ Loops(d)
    /\ web' = [web EXCEPT !.deck[d].at = "start"]
    /\ timestamp' = 0
    /\ UNCHANGED <<player, queue, settings, seen, used>>

\* The continuation of handleOnEndedPlayer1 and 2, after the commit.
AfterEnded(w, d, p1) ==
    LET w1 == PauseDeck(w, d)
    IN  [(IF p1.status = "paused" THEN pauseBothPlayers(w1) ELSE setVolume(w1, TRUE)) EXCEPT !.trans = "no"]

handleOnEnded(w, d) ==
    /\ player' = AfterAutoNext(player, queue)
    /\ timestamp' = 0
    /\ web' = AfterEnded(Notified(w, player', queue, "none"), d, player')
    /\ UNCHANGED <<queue, settings, seen>>

Ended(d) ==
    /\ web.deck[d].on /\ web.deck[d].at = "late" /\ ~Loops(d)
    /\ handleOnEnded([web EXCEPT !.deck[d].on = FALSE, !.deck[d].at = "start"], d)
    /\ UNCHANGED used

\* Mutant: the volume stays where the fade ended.
FadeEndsQuiet ==
    /\ web.fade # "none"
    /\ web' = [setVolume(web, web.fade = "in") EXCEPT !.fade = "none", !.local = IF web.fade = "out" THEN "paused" ELSE @]
    /\ UNCHANGED <<player, queue, timestamp, settings, seen, used>>

\* The last step of the interval of fadeAndSetStatus and what awaited it.
FadeEnds ==
    /\ web.fade # "none"
    /\ web' = [setVolume(web, TRUE) EXCEPT !.fade = "none", !.local = IF web.fade = "out" THEN "paused" ELSE @]
    /\ UNCHANGED <<player, queue, timestamp, settings, seen, used>>

-----------------------------------------------------------------------------
(* handleOnError.                                                          *)

Failed(d) == [web EXCEPT !.deck[d].ok = FALSE, !.deck[d].on = FALSE, !.deck[d].at = "start"]
Fails(d) == web.deck[d].song # NoSong /\ web.deck[d].ok /\ used < MaxErrors /\ used' = used + 1

NetworkError(d) ==
    /\ Fails(d)
    /\ \/ /\ web.retry[d] < settings.maxRetries
          /\ web' = [Failed(d) EXCEPT !.retry[d] = @ + 1, !.timer[d] = @ + 1]
          /\ UNCHANGED <<player, queue, timestamp>>
       \/ /\ web.retry[d] = settings.maxRetries
          /\ mediaPause
          /\ web' = Notified(pauseBothPlayers(Failed(d)), player', queue, "none")
    /\ UNCHANGED <<settings, seen>>

DecodeError(d) == Fails(d) /\ handleOnEnded(pauseBothPlayers(Failed(d)), d)

\* Two seconds after the error, whatever has happened since.
RetryFires(d) ==
    /\ web.timer[d] > 0
    /\ LET w == [pauseBothPlayers(web) EXCEPT !.timer[d] = @ - 1]
       IN  web' = IF w.deck[d].song = NoSong THEN w
                  ELSE [w EXCEPT !.deck[d].ok = TRUE, !.deck[d].on = TRUE, !.deck[d].at = "start"]
    /\ UNCHANGED <<player, queue, timestamp, settings, seen, used>>

-----------------------------------------------------------------------------
WebInit ==
    /\ Init
    /\ settings \in Settings
    /\ web = [trans |-> "no", local |-> "paused", deck |-> [d \in Decks |-> NoDeck],
              full |-> [d \in Decks |-> TRUE], fade |-> "none",
              retry |-> [d \in Decks |-> 0], timer |-> [d \in Decks |-> 0]]
    /\ seen = [trans |-> "no", local |-> "paused"]
    /\ used = 0

Progressing == \E d \in Decks : onProgress(d)
Ending == \E d \in Decks : Ended(d) \/ RepeatOne(d)
Loading == \E d \in Decks : LoadDeck(d)
Failing == \E d \in Decks : NetworkError(d) \/ DecodeError(d)
Retrying == \E d \in Decks : RetryFires(d)

Commanding == Commands \/ ClearAndStop \/ Refill

WebNext ==
    \/ Commanding \/ Render \/ FadeEnds
    \/ Loading \/ (\E d \in Decks : NearEnd(d)) \/ Progressing \/ Ending \/ Failing \/ Retrying

WebSpec == WebInit /\ [][WebNext]_webVars

-----------------------------------------------------------------------------
(* Outside a transition the other deck is silent, and once a pause is committed *)
(* both are; a pause of the store is one of the component, if need be after a   *)
(* fade.                                                                        *)
OneSounds ==
    /\ player.status = "paused" => web.local = "paused" \/ web.fade = "out"
    /\ seen.trans = "no" /\ web.trans = "no" => ~web.deck[3 - player.playerNum].on
    /\ seen.trans = "no" /\ seen.local = "paused" => \A d \in Decks : ~web.deck[d].on

(* A retry is for a deck that is not the one to be heard now. *)
StrayRetry(d) == RetryFires(d) /\ (d # player.playerNum \/ seen.local = "paused")

(* A command comes after a transition was started and before that is committed. *)
Overtaking == Commanding /\ seen.trans = "no" /\ web.trans # "no"

(* The effect of the engine, the react-player props and the handlers' own calls *)
(* agree on who sounds: no step ends OneSounds but the two that do so in the    *)
(* code, a stray retry and an overtaking command.  Late commits of anything     *)
(* else, ends, errors, seeks, skips and fades in any order do not.              *)
OnlyActive == [][OneSounds => OneSounds' \/ Overtaking \/ \E d \in Decks : StrayRetry(d)]_webVars

(* While the store says playing so does the component, and once that is        *)
(* committed the active deck sounds if it can play.                             *)
Sounding ==
    player.status = "playing" =>
        /\ web.local = "playing"
        /\ seen.local = "playing" /\ web.deck[player.playerNum].ok => web.deck[player.playerNum].on

(* The inactive deck ends, or is started again by a retry. *)
OtherActs == LET d == 3 - player.playerNum IN Ended(d) \/ RetryFires(d)

(* Play is pressed when the deck is silent already and the pause is not yet     *)
(* committed or still fading out: nothing is left to commit that would start it. *)
LatePlay ==
    /\ Commanding
    /\ player.status = "paused" /\ seen.local = "playing" /\ ~web.deck[player.playerNum].on

(* No step makes a player that says it is playing silent but the two that do so *)
(* in the code, OtherActs and LatePlay: not the end of the active deck, an error *)
(* of the other, a skip, a seek, a fade, the decks' change of sides or a commit *)
(* that comes late.  (A deck that an error has stopped cannot play.)            *)
PlaysWhenLoaded == [][Sounding => Sounding' \/ OtherActs \/ LatePlay]_webVars

(* Without crossfade the active deck is at full volume whenever no fade runs:   *)
(* a cancelled fade leaves nothing behind.                                      *)
FullVolume == settings.style = "gapless" /\ web.fade = "none" => web.full[player.playerNum]
=============================================================================
