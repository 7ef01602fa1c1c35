-------------------------- MODULE WebPlaybackProofs --------------------------
(***************************************************************************)
(* Proofs about WebPlayback: which deck sounds, for any queue, any setting *)
(* and any number of errors.  Of the store underneath only the number of   *)
(* the active deck and the status matter; what the queue computes (songs,  *)
(* indices, playback order) stays opaque.                                  *)
(***************************************************************************)
EXTENDS WebPlayback, TLAPS

Statuses == {"playing", "paused"}

\* Elements and components by their fields; the song of a deck may be anything.
Element(k) ==
    /\ DOMAIN k = {"song", "ok", "on", "at"}
    /\ k.ok \in BOOLEAN /\ k.on \in BOOLEAN

\* What is loaded is a song.
Loaded(k) == k.ok => k.song # NoSong

Component(w) ==
    /\ DOMAIN w = {"trans", "local", "deck", "full", "fade", "retry", "timer"}
    /\ w.trans \in Transitions /\ w.local \in Statuses /\ w.fade \in {"none", "in", "out"}
    /\ DOMAIN w.deck = Decks /\ DOMAIN w.full = Decks
    /\ \A d \in Decks : Element(w.deck[d]) /\ Loaded(w.deck[d])

StoreShape(p) ==
    /\ DOMAIN p = {"index", "playerNum", "repeat", "shuffle", "status", "pauseOnNextSongEnd"}
    /\ p.playerNum \in Decks /\ p.status \in Statuses

Committable(s) == s \in [trans : Transitions, local : Statuses]

-----------------------------------------------------------------------------
(* The elements.                                                           *)

\* play() starts an element that can play and changes nothing else.
LEMMA PlayFacts ==
    ASSUME NEW k, Element(k), Loaded(k)
    PROVE  /\ Element(PlayElement(k)) /\ Loaded(PlayElement(k))
           /\ PlayElement(k).song = k.song /\ PlayElement(k).ok = k.ok
           /\ PlayElement(k).on <=> k.on \/ k.ok
<1>1. CASE k.song = NoSong \/ ~k.ok
  BY <1>1 DEF Element, Loaded, PlayElement
<1>2. CASE ~(k.song = NoSong \/ ~k.ok)
  BY <1>2 DEF Element, Loaded, PlayElement
<1> QED BY <1>1, <1>2

LEMMA PauseFacts ==
    ASSUME NEW k, Element(k), Loaded(k)
    PROVE  /\ Element(PauseElement(k)) /\ Loaded(PauseElement(k))
           /\ PauseElement(k).song = k.song /\ PauseElement(k).ok = k.ok
           /\ ~PauseElement(k).on
BY DEF Element, Loaded, PauseElement

\* Everything of a component but its decks.
SameAside(w, v) ==
    /\ v.trans = w.trans /\ v.local = w.local /\ v.fade = w.fade /\ v.full = w.full

LEMMA PlayDeckFacts ==
    ASSUME NEW w, Component(w), NEW d \in Decks
    PROVE  /\ Component(PlayDeck(w, d)) /\ SameAside(w, PlayDeck(w, d))
           /\ PlayDeck(w, d).deck[d] = PlayElement(w.deck[d])
           /\ \A e \in Decks \ {d} : PlayDeck(w, d).deck[e] = w.deck[e]
<1> DEFINE v == PlayDeck(w, d)
<1>1. /\ DOMAIN v = DOMAIN w /\ SameAside(w, v)
      /\ v.deck = [w.deck EXCEPT ![d] = PlayElement(w.deck[d])]
  BY DEF Component, PlayDeck, SameAside
<1>2. Element(PlayElement(w.deck[d])) /\ Loaded(PlayElement(w.deck[d]))
  BY PlayFacts DEF Component
<1> QED BY <1>1, <1>2 DEF Component, SameAside

LEMMA PauseDeckFacts ==
    ASSUME NEW w, Component(w), NEW d \in Decks
    PROVE  /\ Component(PauseDeck(w, d)) /\ SameAside(w, PauseDeck(w, d))
           /\ PauseDeck(w, d).deck[d] = PauseElement(w.deck[d])
           /\ \A e \in Decks \ {d} : PauseDeck(w, d).deck[e] = w.deck[e]
<1> DEFINE v == PauseDeck(w, d)
<1>1. /\ DOMAIN v = DOMAIN w /\ SameAside(w, v)
      /\ v.deck = [w.deck EXCEPT ![d] = PauseElement(w.deck[d])]
  BY DEF Component, PauseDeck, SameAside
<1>2. Element(PauseElement(w.deck[d])) /\ Loaded(PauseElement(w.deck[d]))
  BY PauseFacts DEF Component
<1> QED BY <1>1, <1>2 DEF Component, SameAside

LEMMA PauseBothFacts ==
    ASSUME NEW w, Component(w)
    PROVE  /\ Component(pauseBothPlayers(w)) /\ SameAside(w, pauseBothPlayers(w))
           /\ \A d \in Decks : pauseBothPlayers(w).deck[d] = PauseElement(w.deck[d])
<1>1. 1 \in Decks /\ 2 \in Decks /\ Decks \ {1} = {2} /\ Decks \ {2} = {1}
  BY DEF Decks
<1> DEFINE v == PauseDeck(w, 1)
<1>2. Component(v) /\ SameAside(w, v) /\ v.deck[1] = PauseElement(w.deck[1]) /\ v.deck[2] = w.deck[2]
  BY <1>1, PauseDeckFacts
<1> HIDE DEF v
<1> DEFINE u == PauseDeck(v, 2)
<1>3. Component(u) /\ SameAside(v, u) /\ u.deck[2] = PauseElement(v.deck[2]) /\ u.deck[1] = v.deck[1]
  BY <1>1, <1>2, PauseDeckFacts
<1>4. u = pauseBothPlayers(w)
  BY DEF u, v, pauseBothPlayers
<1> HIDE DEF u
<1> QED BY <1>2, <1>3, <1>4 DEF SameAside, Decks

LEMMA VolumeFacts ==
    ASSUME NEW w, Component(w), NEW b \in BOOLEAN
    PROVE  /\ Component(setVolume(w, b)) /\ setVolume(w, b).deck = w.deck
           /\ setVolume(w, b).trans = w.trans /\ setVolume(w, b).local = w.local
           /\ setVolume(w, b).fade = w.fade
           /\ \A d \in Decks : setVolume(w, b).full[d] = b
BY DEF Component, setVolume

\* The prop of a deck and the song it is to play decide what an element does next.
LEMMA UpdateFacts ==
    ASSUME NEW k, Element(k), Loaded(k), NEW song, NEW was \in BOOLEAN, NEW is \in BOOLEAN
    PROVE  LET u == UpdateDeck(k, song, was, is)
           IN  /\ Element(u) /\ Loaded(u) /\ u.song \in {NoSong, song}
               /\ u.ok => k.ok
               /\ ~is /\ u.on => k.on
               /\ is /\ u.ok /\ (~was \/ k.on) => u.on
<1> DEFINE u == UpdateDeck(k, song, was, is)
<1>1. CASE k.song # NoSong /\ k.song # song
  <2>1. u = NoDeck
    BY <1>1 DEF UpdateDeck
  <2>2. Element(NoDeck) /\ ~NoDeck.ok /\ ~NoDeck.on /\ NoDeck.song = NoSong
    BY DEF Element, NoDeck
  <2> QED BY <2>1, <2>2 DEF Loaded
<1>2. CASE k.song = song /\ ~was /\ is
  <2>1. u = PlayElement(k)
    BY <1>2 DEF UpdateDeck
  <2> QED BY <1>2, <2>1, PlayFacts
<1>3. CASE k.song = song /\ was /\ ~is
  <2>1. u = PauseElement(k)
    BY <1>3 DEF UpdateDeck
  <2> QED BY <1>3, <2>1, PauseFacts
<1>4. CASE ~(k.song # NoSong /\ k.song # song) /\ ~(k.song = song /\ ~was /\ is) /\ ~(k.song = song /\ was /\ ~is)
  <2>1. u = k
    BY <1>4 DEF UpdateDeck
  <2>2. k.song # song => k.song = NoSong /\ ~k.ok
    BY <1>4 DEF Loaded
  <2> QED BY <1>4, <2>1, <2>2
<1> QED BY <1>1, <1>2, <1>3, <1>4

-----------------------------------------------------------------------------
(* A commit: what it leaves playing.                                       *)

SongsOf(p, q) == getPlayerData(p, q).decks

\* The two stages of a commit: the props reach the decks, then the effect runs.
Propped(w, p, s, p1, q1, s1, v) ==
    /\ Component(v) /\ SameAside(w, v)
    /\ \A d \in Decks :
         LET u == UpdateDeck(w.deck[d], SongsOf(p1, q1)[d], PlayingProp(p, s, d), PlayingProp(p1, s1, d))
         IN  v.deck[d] = u

LEMMA PropsReach ==
    ASSUME NEW w, Component(w), NEW p, NEW s, NEW p1, NEW q1, NEW s1
    PROVE  \E v : /\ Propped(w, p, s, p1, q1, s1, v)
                  /\ Committed(w, p, s, p1, q1, s1) =
                       IF EffectRuns(p, s, p1, s1) THEN EnsureOnlyActive(v, p1, s1) ELSE v
<1> DEFINE songs == SongsOf(p1, q1)
           U(d) == UpdateDeck(w.deck[d], songs[d], PlayingProp(p, s, d), PlayingProp(p1, s1, d))
           decks == [d \in Decks |-> U(d)]
           fresh == \E d \in Decks : decks[d].song # w.deck[d].song
           v == [w EXCEPT !.deck = decks, !.retry = IF fresh THEN [d \in Decks |-> 0] ELSE @]
<1>1. Committed(w, p, s, p1, q1, s1) = IF EffectRuns(p, s, p1, s1) THEN EnsureOnlyActive(v, p1, s1) ELSE v
  BY DEF Committed, SongsOf
<1>2. \A d \in Decks : PlayingProp(p, s, d) \in BOOLEAN /\ PlayingProp(p1, s1, d) \in BOOLEAN
  BY DEF PlayingProp
<1>3. \A d \in Decks : Element(U(d)) /\ Loaded(U(d))
  BY <1>2, UpdateFacts DEF Component
<1> HIDE DEF fresh, U
<1>4. /\ DOMAIN v = DOMAIN w /\ v.deck = decks
      /\ v.trans = w.trans /\ v.local = w.local /\ v.fade = w.fade /\ v.full = w.full
  BY DEF Component
<1> HIDE DEF v
<1>5. Component(v) /\ SameAside(w, v) /\ \A d \in Decks : v.deck[d] = U(d)
  BY <1>3, <1>4 DEF Component, SameAside
<1>6. Propped(w, p, s, p1, q1, s1, v)
  BY <1>5 DEF Propped, U
<1> QED BY <1>1, <1>6

LEMMA OtherDeck ==
    ASSUME NEW d \in Decks
    PROVE  /\ 3 - d \in Decks /\ 3 - d # d /\ 3 - (3 - d) = d
           /\ \A e \in Decks : e # d => e = 3 - d
BY DEF Decks

\* The effect pauses, and never the active deck while the player plays.
LEMMA EnsureFacts ==
    ASSUME NEW w, Component(w), NEW p, StoreShape(p), NEW s, Committable(s)
    PROVE  LET v == EnsureOnlyActive(w, p, s)
           IN  /\ Component(v) /\ SameAside(w, v)
               /\ \A d \in Decks : /\ v.deck[d].song = w.deck[d].song /\ v.deck[d].ok = w.deck[d].ok
                                   /\ v.deck[d].on => w.deck[d].on
               /\ s.trans = "no" => ~v.deck[3 - p.playerNum].on
               /\ s.trans = "no" /\ s.local = "paused" => \A d \in Decks : ~v.deck[d].on
               /\ s.local = "playing" => v.deck[p.playerNum] = w.deck[p.playerNum]
<1> DEFINE v == EnsureOnlyActive(w, p, s)
           a == p.playerNum
<1>1. a \in Decks /\ 3 - a \in Decks /\ 3 - a # a /\ (\A e \in Decks : e # a => e = 3 - a)
  BY OtherDeck DEF StoreShape
<1>2. \A d \in Decks : Element(w.deck[d]) /\ Loaded(w.deck[d])
  BY DEF Component
<1> HIDE DEF a
<1>3. CASE s.trans # "no"
  <2>1. v = w
    BY <1>3 DEF EnsureOnlyActive
  <2> QED BY <1>3, <2>1 DEF SameAside, a
<1>4. CASE s.trans = "no" /\ s.local = "playing"
  <2>1. v = PauseDeck(w, 3 - a)
    BY <1>4 DEF EnsureOnlyActive, a
  <2>2. /\ Component(v) /\ SameAside(w, v) /\ v.deck[3 - a] = PauseElement(w.deck[3 - a])
        /\ v.deck[a] = w.deck[a]
    BY <1>1, <2>1, PauseDeckFacts
  <2>3. /\ v.deck[3 - a].song = w.deck[3 - a].song /\ v.deck[3 - a].ok = w.deck[3 - a].ok
        /\ ~v.deck[3 - a].on
    BY <1>1, <1>2, <2>2, PauseFacts
  <2> QED BY <1>1, <1>4, <2>2, <2>3 DEF a
<1>5. CASE s.trans = "no" /\ s.local # "playing"
  <2>1. v = pauseBothPlayers(w)
    BY <1>5 DEF EnsureOnlyActive
  <2>2. /\ Component(v) /\ SameAside(w, v)
        /\ \A d \in Decks : v.deck[d] = PauseElement(w.deck[d])
    BY <2>1, PauseBothFacts
  <2>3. \A d \in Decks : /\ v.deck[d].song = w.deck[d].song /\ v.deck[d].ok = w.deck[d].ok
                         /\ ~v.deck[d].on
    BY <1>2, <2>2, PauseFacts
  <2> QED BY <1>1, <1>5, <2>2, <2>3 DEF a
<1> QED BY <1>3, <1>4, <1>5

\* A commit gives the decks their songs, starts the active deck if its prop has
\* turned on, and starts nothing else.
LEMMA CommitFacts ==
    ASSUME NEW w, Component(w), NEW p, NEW s, NEW p1, StoreShape(p1), NEW q1,
           NEW s1, Committable(s1)
    PROVE  LET c == Committed(w, p, s, p1, q1, s1)
               a == p1.playerNum
           IN  /\ Component(c) /\ SameAside(w, c)
               /\ \A d \in Decks : c.deck[d].song \in {NoSong, SongsOf(p1, q1)[d]} /\ (c.deck[d].ok => w.deck[d].ok)
               /\ \A d \in Decks : (d # a \/ s1.local = "paused") /\ c.deck[d].on => w.deck[d].on
               /\ EffectRuns(p, s, p1, s1) /\ s1.trans = "no" =>
                     ~c.deck[3 - a].on /\ (s1.local = "paused" => \A d \in Decks : ~c.deck[d].on)
               /\ s1.local = "playing" /\ c.deck[a].ok /\ (~PlayingProp(p, s, a) \/ w.deck[a].on) => c.deck[a].on
<1> DEFINE c == Committed(w, p, s, p1, q1, s1)
           a == p1.playerNum
<1>1. PICK v : /\ Propped(w, p, s, p1, q1, s1, v)
               /\ c = IF EffectRuns(p, s, p1, s1) THEN EnsureOnlyActive(v, p1, s1) ELSE v
  BY PropsReach
<1>2. Component(v) /\ SameAside(w, v)
  BY <1>1 DEF Propped
<1>3. a \in Decks
  BY DEF StoreShape
<1>4. ASSUME NEW d \in Decks
      PROVE  /\ v.deck[d].song \in {NoSong, SongsOf(p1, q1)[d]} /\ (v.deck[d].ok => w.deck[d].ok)
             /\ ~PlayingProp(p1, s1, d) /\ v.deck[d].on => w.deck[d].on
             /\ PlayingProp(p1, s1, d) /\ v.deck[d].ok /\ (~PlayingProp(p, s, d) \/ w.deck[d].on) => v.deck[d].on
  <2>1. PlayingProp(p, s, d) \in BOOLEAN /\ PlayingProp(p1, s1, d) \in BOOLEAN
    BY DEF PlayingProp
  <2>2. Element(w.deck[d]) /\ Loaded(w.deck[d])
    BY DEF Component
  <2>3. v.deck[d] = UpdateDeck(w.deck[d], SongsOf(p1, q1)[d], PlayingProp(p, s, d), PlayingProp(p1, s1, d))
    BY <1>1 DEF Propped
  <2> QED BY <2>1, <2>2, <2>3, UpdateFacts
<1>5. /\ PlayingProp(p1, s1, a) <=> s1.local = "playing"
      /\ \A d \in Decks : (d # a \/ s1.local = "paused") => ~PlayingProp(p1, s1, d)
  BY DEF PlayingProp
<1>6. s1.local \in Statuses
  BY DEF Committable
<1> HIDE DEF c, a
<1>7. CASE ~EffectRuns(p, s, p1, s1)
  <2>1. c = v
    BY <1>1, <1>7
  <2> QED BY <1>2, <1>3, <1>4, <1>5, <1>7, <2>1 DEF c, a
<1>8. CASE EffectRuns(p, s, p1, s1)
  <2>1. c = EnsureOnlyActive(v, p1, s1)
    BY <1>1, <1>8
  <2>2. /\ Component(c) /\ SameAside(v, c)
        /\ \A d \in Decks : /\ c.deck[d].song = v.deck[d].song /\ c.deck[d].ok = v.deck[d].ok
                            /\ c.deck[d].on => v.deck[d].on
        /\ s1.trans = "no" => ~c.deck[3 - a].on
        /\ s1.trans = "no" /\ s1.local = "paused" => \A d \in Decks : ~c.deck[d].on
        /\ s1.local = "playing" => c.deck[a] = v.deck[a]
    BY <1>2, <2>1, EnsureFacts DEF a
  <2>3. SameAside(w, c)
    BY <1>2, <2>2 DEF SameAside
  <2> QED BY <1>3, <1>4, <1>5, <2>2, <2>3 DEF c, a
<1> QED BY <1>7, <1>8

-----------------------------------------------------------------------------
(* The subscribers: they pause, fade and end transitions.                  *)

\* Full volume, or on the way there.
VolumeUp(w) == w.fade = "in" \/ \A d \in Decks : w.full[d]

\* From w to v nothing starts, the deck that was active goes on, and a gapless
\* player keeps its volume.
Heard(w, v) ==
    /\ Component(v)
    /\ v.trans \in {w.trans, "no"}
    /\ \A d \in Decks : /\ v.deck[d].song = w.deck[d].song /\ v.deck[d].ok = w.deck[d].ok
                        /\ v.deck[d].on => w.deck[d].on
    /\ w.deck[player.playerNum].on => v.deck[player.playerNum].on
    /\ settings.style = "gapless" /\ VolumeUp(w) => VolumeUp(v)

SameStatus(w, v) == v.local = w.local /\ v.fade = w.fade

LEMMA HeardTwice ==
    ASSUME NEW u, NEW v, NEW w, Heard(u, v), Heard(v, w)
    PROVE  Heard(u, w)
BY DEF Heard

LEMMA DropFacts ==
    ASSUME NEW w, Component(w), NEW num \in Decks
    PROVE  LET v == DropOther(w, num)
           IN  /\ Component(v) /\ SameStatus(w, v) /\ v.trans = w.trans
               /\ v.deck[num] = w.deck[num]
               /\ v.deck[3 - num] = PauseElement(w.deck[3 - num])
<1> DEFINE u == [w EXCEPT !.full = [d \in Decks |-> d = num]]
<1>1. /\ DOMAIN u = DOMAIN w /\ u.deck = w.deck /\ u.trans = w.trans /\ u.local = w.local
      /\ u.fade = w.fade /\ DOMAIN u.full = Decks
  BY DEF Component
<1>2. DropOther(w, num) = PauseDeck(u, 3 - num)
  BY DEF DropOther
<1> HIDE DEF u
<1>3. Component(u)
  BY <1>1 DEF Component
<1>4. 3 - num \in Decks /\ 3 - num # num
  BY OtherDeck
<1> DEFINE v == PauseDeck(u, 3 - num)
<1>5. /\ Component(v) /\ SameAside(u, v) /\ v.deck[num] = u.deck[num]
      /\ v.deck[3 - num] = PauseElement(u.deck[3 - num])
  BY <1>3, <1>4, PauseDeckFacts
<1> QED BY <1>1, <1>2, <1>5 DEF SameAside, SameStatus

LEMMA DropHeard ==
    ASSUME NEW w, Component(w), StoreShape(player), settings.style = "crossfade"
    PROVE  Heard(w, DropOther(w, player.playerNum)) /\ SameStatus(w, DropOther(w, player.playerNum))
<1> DEFINE num == player.playerNum
           v == DropOther(w, num)
<1>1. num \in Decks /\ \A d \in Decks : d # num => d = 3 - num
  BY OtherDeck DEF StoreShape
<1> HIDE DEF num
<1>2. /\ Component(v) /\ SameStatus(w, v) /\ v.trans = w.trans
      /\ v.deck[num] = w.deck[num] /\ v.deck[3 - num] = PauseElement(w.deck[3 - num])
  BY <1>1, DropFacts
<1> HIDE DEF v
<1>3. ASSUME NEW d \in Decks
      PROVE  /\ v.deck[d].song = w.deck[d].song /\ v.deck[d].ok = w.deck[d].ok
             /\ v.deck[d].on => w.deck[d].on
  BY <1>1, <1>2, PauseFacts DEF Component
<1> QED BY <1>1, <1>2, <1>3 DEF Heard, v, num

\* A subscriber ends the transition.
LEMMA StopTransition ==
    ASSUME NEW w, Component(w)
    PROVE  LET v == [w EXCEPT !.trans = "no"]
           IN  Heard(w, v) /\ SameStatus(w, v) /\ v.trans = "no"
<1> DEFINE v == [w EXCEPT !.trans = "no"]
<1>1. /\ DOMAIN v = DOMAIN w /\ v.deck = w.deck /\ v.trans = "no" /\ v.local = w.local
      /\ v.fade = w.fade /\ v.full = w.full
  BY DEF Component
<1> HIDE DEF v
<1>2. Component(v)
  BY <1>1 DEF Component, Transitions
<1>3. Heard(w, v)
  BY <1>1, <1>2 DEF Heard, VolumeUp
<1> QED BY <1>1, <1>3 DEF SameStatus, v

LEMMA SeekHeard ==
    ASSUME NEW w, Component(w), StoreShape(player), settings.style \in {"crossfade", "gapless"}, NEW at
    PROVE  LET v == onPlayerSeekToTimestamp(w, at)
           IN  Heard(w, v) /\ SameStatus(w, v)
<1> DEFINE num == player.playerNum
           w1 == [w EXCEPT !.trans = "no"]
           w2 == IF seen.trans # "no" /\ settings.style = "crossfade" THEN DropOther(w1, num) ELSE w1
           w3 == [w2 EXCEPT !.deck[num].at = at]
<1>1. Heard(w, w1) /\ SameStatus(w, w1)
  BY StopTransition
<1>2. Component(w1)
  BY <1>1 DEF Heard
<1> HIDE DEF w1
<1>3. Heard(w, w2) /\ SameStatus(w, w2)
  BY <1>1, <1>2, DropHeard, HeardTwice DEF SameStatus
<1>4. Component(w2)
  BY <1>3 DEF Heard
<1>5. onPlayerSeekToTimestamp(w, at) = IF ~w.deck[num].ok THEN w2 ELSE w3
  BY DEF onPlayerSeekToTimestamp, w1
<1> HIDE DEF w2
<1>6. num \in Decks
  BY DEF StoreShape
<1> HIDE DEF num
<1>7. Heard(w2, w3) /\ SameStatus(w2, w3)
  <2> DEFINE k == [w2.deck[num] EXCEPT !.at = at]
  <2>1. /\ DOMAIN w3 = DOMAIN w2 /\ w3.deck = [w2.deck EXCEPT ![num] = k] /\ w3.trans = w2.trans
        /\ w3.local = w2.local /\ w3.fade = w2.fade /\ w3.full = w2.full
    BY <1>4 DEF Component
  <2>2. DOMAIN w2.deck = Decks /\ \A d \in Decks : Element(w2.deck[d]) /\ Loaded(w2.deck[d])
    BY <1>4 DEF Component
  <2>3. /\ Element(k) /\ Loaded(k) /\ k.song = w2.deck[num].song /\ k.ok = w2.deck[num].ok
        /\ k.on = w2.deck[num].on
    BY <1>6, <2>2 DEF Element, Loaded
  <2> HIDE DEF k, w3
  <2>4. /\ DOMAIN w3.deck = Decks /\ w3.deck[num] = k
        /\ \A d \in Decks : d # num => w3.deck[d] = w2.deck[d]
    BY <1>6, <2>1, <2>2
  <2>5. ASSUME NEW d \in Decks
        PROVE  /\ w3.deck[d].song = w2.deck[d].song /\ w3.deck[d].ok = w2.deck[d].ok
               /\ w3.deck[d].on = w2.deck[d].on /\ Element(w3.deck[d]) /\ Loaded(w3.deck[d])
    BY <2>2, <2>3, <2>4
  <2>6. Component(w3)
    BY <1>4, <2>1, <2>4, <2>5 DEF Component
  <2> QED BY <1>6, <2>1, <2>5, <2>6 DEF Heard, SameStatus, VolumeUp, num
<1>8. Heard(w, w3) /\ SameStatus(w, w3)
  BY <1>3, <1>7, HeardTwice DEF SameStatus
<1> QED BY <1>3, <1>5, <1>8

\* How far the component is with a status the store has: it shows it, or fades to it.
Follows(w, status) ==
    /\ status = "playing" => w.local = "playing" /\ w.fade # "out"
    /\ status = "paused" => w.fade # "in" /\ (w.fade = "out" \/ w.local = "paused")

FadesOff(w) == ~settings.fades => w.fade = "none"

LEMMA FadeFacts ==
    ASSUME NEW w, Component(w), NEW status \in Statuses
    PROVE  LET v == fadeAndSetStatus(w, status)
           IN  /\ Component(v) /\ v.deck = w.deck /\ v.trans = w.trans
               /\ VolumeUp(v) /\ Follows(v, status)
<1>1. CASE status = "paused"
  <2> DEFINE u == setVolume(w, TRUE)
             v == [u EXCEPT !.fade = "out"]
  <2>1. /\ Component(u) /\ u.deck = w.deck /\ u.trans = w.trans /\ u.local = w.local
        /\ \A d \in Decks : u.full[d]
    BY VolumeFacts
  <2> HIDE DEF u
  <2>2. /\ DOMAIN v = DOMAIN u /\ v.deck = u.deck /\ v.trans = u.trans /\ v.local = u.local
        /\ v.fade = "out" /\ v.full = u.full
    BY <2>1 DEF Component
  <2> HIDE DEF v
  <2>3. Component(v)
    BY <2>1, <2>2 DEF Component
  <2>4. VolumeUp(v) /\ Follows(v, status)
    BY <1>1, <2>1, <2>2 DEF VolumeUp, Follows
  <2>5. fadeAndSetStatus(w, status) = v
    BY <1>1 DEF fadeAndSetStatus, u, v
  <2> QED BY <2>1, <2>2, <2>3, <2>4, <2>5
<1>2. CASE status = "playing"
  <2> DEFINE u == setVolume(w, FALSE)
             v == [u EXCEPT !.fade = "in", !.local = "playing"]
  <2>1. Component(u) /\ u.deck = w.deck /\ u.trans = w.trans
    BY VolumeFacts
  <2> HIDE DEF u
  <2>2. /\ DOMAIN v = DOMAIN u /\ v.deck = u.deck /\ v.trans = u.trans /\ v.local = "playing"
        /\ v.fade = "in" /\ v.full = u.full
    BY <2>1 DEF Component
  <2> HIDE DEF v
  <2>3. Component(v)
    BY <2>1, <2>2 DEF Component, Statuses
  <2>4. VolumeUp(v) /\ Follows(v, status)
    BY <1>2, <2>1, <2>2 DEF VolumeUp, Follows
  <2>5. fadeAndSetStatus(w, status) = v
    BY <1>2 DEF fadeAndSetStatus, u, v
  <2> QED BY <2>1, <2>2, <2>3, <2>4, <2>5
<1> QED BY <1>1, <1>2 DEF Statuses

LEMMA StatusHeard ==
    ASSUME NEW w, Component(w), StoreShape(player), settings.style \in {"crossfade", "gapless"},
           settings.fades \in BOOLEAN, FadesOff(w), NEW status \in Statuses
    PROVE  LET v == onPlayerStatus(w, status)
           IN  Heard(w, v) /\ Follows(v, status) /\ FadesOff(v)
<1> DEFINE num == player.playerNum
           w1 == [w EXCEPT !.trans = "no"]
           w2 == IF status = "paused" /\ seen.trans # "no" /\ settings.style = "crossfade"
                 THEN DropOther(w1, num) ELSE w1
           v == onPlayerStatus(w, status)
<1>1. Heard(w, w1) /\ SameStatus(w, w1)
  BY StopTransition
<1>2. Component(w1)
  BY <1>1 DEF Heard
<1>3. v = IF settings.fades THEN fadeAndSetStatus(w2, status)
          ELSE [setVolume(w2, TRUE) EXCEPT !.local = status]
  BY DEF onPlayerStatus
<1> HIDE DEF w1
<1>4. Heard(w, w2) /\ SameStatus(w, w2)
  BY <1>1, <1>2, DropHeard, HeardTwice DEF SameStatus
<1>5. Component(w2)
  BY <1>4 DEF Heard
<1> HIDE DEF w2, v
<1>6. CASE settings.fades
  <2>1. Component(v) /\ v.deck = w2.deck /\ v.trans = w2.trans /\ VolumeUp(v) /\ Follows(v, status)
    BY <1>3, <1>5, <1>6, FadeFacts
  <2>2. Heard(w2, v)
    BY <2>1 DEF Heard
  <2> QED BY <1>4, <1>6, <2>1, <2>2, HeardTwice DEF FadesOff, v
<1>7. CASE ~settings.fades
  <2> DEFINE u == setVolume(w2, TRUE)
  <2>1. /\ Component(u) /\ u.deck = w2.deck /\ u.trans = w2.trans /\ u.fade = w2.fade
        /\ \A d \in Decks : u.full[d]
    BY <1>5, VolumeFacts
  <2>2. v = [u EXCEPT !.local = status]
    BY <1>3, <1>7
  <2> HIDE DEF u
  <2>3. /\ DOMAIN v = DOMAIN u /\ v.deck = u.deck /\ v.trans = u.trans /\ v.local = status
        /\ v.fade = u.fade /\ v.full = u.full
    BY <2>1, <2>2 DEF Component
  <2>4. Component(v)
    BY <2>1, <2>3 DEF Component
  <2>5. Heard(w2, v)
    BY <2>1, <2>3, <2>4 DEF Heard, VolumeUp
  <2>6. v.fade = "none"
    BY <1>4, <1>7, <2>1, <2>3 DEF SameStatus, FadesOff
  <2> QED BY <1>4, <2>3, <2>5, <2>6, HeardTwice DEF Follows, FadesOff, v
<1> QED BY <1>6, <1>7

-----------------------------------------------------------------------------
(* A change of the store with its subscribers and its commit.              *)

LEMMA NotifiedFacts ==
    ASSUME NEW w, Component(w), StoreShape(player), Committable(seen),
           settings.style \in {"crossfade", "gapless"}, settings.fades \in BOOLEAN,
           FadesOff(w), Follows(w, player.status), NEW p1, StoreShape(p1), NEW q1, NEW at
    PROVE  LET v == Notified(w, p1, q1, at)
               a == p1.playerNum
           IN  /\ Component(v) /\ v.trans \in {w.trans, "no"}
               /\ FadesOff(v) /\ Follows(v, p1.status)
               /\ settings.style = "gapless" /\ VolumeUp(w) => VolumeUp(v)
               /\ \A d \in Decks : v.deck[d].song \in {NoSong, SongsOf(p1, q1)[d]} /\ (v.deck[d].ok => w.deck[d].ok)
               /\ \A d \in Decks : (d # a \/ seen.local = "paused") /\ v.deck[d].on => w.deck[d].on
               /\ a # player.playerNum /\ seen.trans = "no" => ~v.deck[3 - a].on
               /\ /\ seen.local = "playing" /\ v.deck[a].ok
                  /\ a # player.playerNum \/ w.deck[a].on
                  => v.deck[a].on
<1> DEFINE w1 == IF getCurrentSong(p1, q1) # getCurrentSong(player, queue) THEN onCurrentSongChange(w) ELSE w
           w2 == IF at = "none" THEN w1 ELSE onPlayerSeekToTimestamp(w1, at)
           w3 == IF p1.status # player.status THEN onPlayerStatus(w2, p1.status) ELSE w2
           v == Committed(w3, player, seen, p1, q1, seen)
           a == p1.playerNum
<1>1. Notified(w, p1, q1, at) = v
  BY DEF Notified
<1>2. Heard(w, w) /\ SameStatus(w, w)
  BY DEF Heard, SameStatus
<1>3. Heard(w, w1) /\ SameStatus(w, w1)
  BY <1>2, StopTransition DEF onCurrentSongChange
<1>4. Component(w1)
  BY <1>3 DEF Heard
<1> HIDE DEF w1
<1>5. Heard(w, w2) /\ SameStatus(w, w2)
  BY <1>3, <1>4, SeekHeard, HeardTwice DEF SameStatus
<1>6. Component(w2) /\ FadesOff(w2) /\ Follows(w2, player.status)
  BY <1>5 DEF Heard, SameStatus, FadesOff, Follows
<1> HIDE DEF w2
<1>7. Heard(w, w3) /\ FadesOff(w3) /\ Follows(w3, p1.status)
  <2>1. CASE p1.status # player.status
    <3>1. p1.status \in Statuses
      BY DEF StoreShape
    <3>2. Heard(w2, w3) /\ Follows(w3, p1.status) /\ FadesOff(w3)
      BY <1>6, <2>1, <3>1, StatusHeard
    <3> QED BY <1>5, <3>2, HeardTwice
  <2>2. CASE p1.status = player.status
    BY <1>5, <1>6, <2>2
  <2> QED BY <2>1, <2>2
<1>8. Component(w3)
  BY <1>7 DEF Heard
<1> HIDE DEF w3
<1>9. /\ Component(v) /\ SameAside(w3, v)
      /\ \A d \in Decks : v.deck[d].song \in {NoSong, SongsOf(p1, q1)[d]} /\ (v.deck[d].ok => w3.deck[d].ok)
      /\ \A d \in Decks : (d # a \/ seen.local = "paused") /\ v.deck[d].on => w3.deck[d].on
      /\ EffectRuns(player, seen, p1, seen) /\ seen.trans = "no" => ~v.deck[3 - a].on
      /\ /\ seen.local = "playing" /\ v.deck[a].ok
         /\ ~PlayingProp(player, seen, a) \/ w3.deck[a].on
         => v.deck[a].on
  BY <1>8, CommitFacts
<1> HIDE DEF v
<1>10. a # player.playerNum => EffectRuns(player, seen, p1, seen) /\ ~PlayingProp(player, seen, a)
  BY DEF EffectRuns, PlayingProp
<1>11. a \in Decks
  BY DEF StoreShape
<1> HIDE DEF a
<1>12. FadesOff(v) /\ Follows(v, p1.status) /\ v.trans \in {w.trans, "no"}
  BY <1>7, <1>9 DEF Heard, SameAside, FadesOff, Follows
<1>13. settings.style = "gapless" /\ VolumeUp(w) => VolumeUp(v)
  BY <1>7, <1>9 DEF Heard, SameAside, VolumeUp
<1>14. \A d \in Decks : w3.deck[d].ok = w.deck[d].ok /\ (w3.deck[d].on => w.deck[d].on)
  BY <1>7 DEF Heard
<1>15. a = player.playerNum /\ w.deck[a].on => w3.deck[a].on
  BY <1>7 DEF Heard
<1> QED BY <1>1, <1>9, <1>10, <1>11, <1>12, <1>13, <1>14, <1>15 DEF a

-----------------------------------------------------------------------------
(* The inductive invariant.                                                *)

\* A deck holds the song the store wants on it, or none.
SongsLoaded(w, p, q) == \A d \in Decks : w.deck[d].song \in {NoSong, SongsOf(p, q)[d]}

Shapes ==
    /\ settings.style \in {"crossfade", "gapless"} /\ settings.fades \in BOOLEAN
    /\ StoreShape(player) /\ Component(web) /\ Committable(seen)

Followed ==
    /\ FadesOff(web) /\ Follows(web, player.status)
    /\ settings.style = "gapless" => VolumeUp(web)

WebIInv == Shapes /\ Followed /\ SongsLoaded(web, player, queue)

-----------------------------------------------------------------------------
(* What the steps keep.  These are no invariants: a stray retry, say, ends *)
(* the first two.                                                          *)

\* Outside a transition the other deck is silent.
OtherSilent == seen.trans = "no" /\ web.trans = "no" => ~web.deck[3 - player.playerNum].on

\* Once a pause is committed, both are.
PausedSilent == seen.trans = "no" /\ seen.local = "paused" => \A d \in Decks : ~web.deck[d].on

\* While the store and the committed state say playing, what is loaded sounds.
ActiveSounds ==
    seen.local = "playing" /\ player.status = "playing" /\ web.deck[player.playerNum].ok
        => web.deck[player.playerNum].on

OneKept == OtherSilent /\ PausedSilent => OtherSilent' /\ PausedSilent'
SoundKept == ActiveSounds => ActiveSounds'
Kept == WebIInv' /\ OneKept /\ SoundKept

\* A command of the user, with what the subscribers and the commit make of it.
LEMMA StoreStep ==
    ASSUME WebIInv, StoreShape(player'), NEW at, Store(at)
    PROVE  /\ WebIInv'
           /\ OneKept \/ (seen.trans = "no" /\ web.trans # "no")
           /\ SoundKept \/ (/\ player.status = "paused" /\ seen.local = "playing"
                            /\ ~web.deck[player.playerNum].on)
<1> DEFINE a == player'.playerNum
           n == player.playerNum
<1>0. /\ Shapes /\ Followed
      /\ web' = Notified(web, player', queue', at) /\ settings' = settings /\ seen' = seen
  BY DEF WebIInv, Store
<1>1. /\ Component(web') /\ web'.trans \in {web.trans, "no"}
      /\ FadesOff(web') /\ Follows(web', player'.status)
      /\ settings.style = "gapless" /\ VolumeUp(web) => VolumeUp(web')
      /\ \A d \in Decks : web'.deck[d].song \in {NoSong, SongsOf(player', queue')[d]} /\ (web'.deck[d].ok => web.deck[d].ok)
      /\ \A d \in Decks : (d # a \/ seen.local = "paused") /\ web'.deck[d].on => web.deck[d].on
      /\ a # n /\ seen.trans = "no" => ~web'.deck[3 - a].on
      /\ seen.local = "playing" /\ web'.deck[a].ok /\ (a # n \/ web.deck[a].on) => web'.deck[a].on
  BY <1>0, NotifiedFacts DEF Shapes, Followed
<1>2. a \in Decks /\ n \in Decks /\ 3 - a \in Decks /\ 3 - a # a
  BY <1>0, OtherDeck DEF Shapes, StoreShape
<1>3. Shapes'
  BY <1>0, <1>1 DEF Shapes
<1>4. Followed'
  BY <1>0, <1>1 DEF Followed, FadesOff, Follows, VolumeUp
<1>5. SongsLoaded(web, player, queue)'
  BY <1>1 DEF SongsLoaded
<1> HIDE DEF a, n
<1>6. ASSUME OtherSilent, ~(seen.trans = "no" /\ web.trans # "no")
      PROVE  OtherSilent'
  <2>1. SUFFICES ASSUME seen.trans = "no"  PROVE ~web'.deck[3 - a].on
    BY <1>0 DEF OtherSilent, a
  <2>2. ~web.deck[3 - n].on
    BY <1>6, <2>1 DEF OtherSilent, n
  <2> QED BY <1>1, <1>2, <2>1, <2>2
<1>7. ASSUME PausedSilent
      PROVE  PausedSilent'
  BY <1>0, <1>1, <1>7 DEF PausedSilent
<1>8. ASSUME ActiveSounds, ~(player.status = "paused" /\ seen.local = "playing" /\ ~web.deck[n].on)
      PROVE  ActiveSounds'
  <2>1. SUFFICES ASSUME seen.local = "playing", player'.status = "playing", web'.deck[a].ok
                 PROVE  web'.deck[a].on
    BY <1>0 DEF ActiveSounds, a
  <2>2. a = n => web.deck[a].on
    <3>1. player.status \in Statuses
      BY <1>0 DEF Shapes, StoreShape
    <3>2. CASE player.status = "playing"
      BY <1>1, <1>2, <1>8, <2>1, <3>2 DEF ActiveSounds, n
    <3>3. CASE player.status = "paused"
      BY <1>8, <2>1, <3>3
    <3> QED BY <3>1, <3>2, <3>3 DEF Statuses
  <2> QED BY <1>1, <2>1, <2>2
<1> QED BY <1>3, <1>4, <1>5, <1>6, <1>7, <1>8 DEF WebIInv, OneKept, SoundKept, n

\* What a command leaves of the store.
LEMMA CommandShape ==
    ASSUME WebIInv, Commands \/ ClearAndStop \/ Refill
    PROVE  StoreShape(player') /\ \E at \in {"none", "start", "late"} : Store(at)
<1>0. StoreShape(player)
  BY DEF WebIInv, Shapes
<1>1. ASSUME NEW i, MoveTo(i)
      PROVE  StoreShape(player')
  BY <1>0, <1>1 DEF MoveTo, StoreShape, Decks
<1>2. ASSUME mediaNext \/ mediaPrevious
      PROVE  StoreShape(player')
  <2>1. UNCHANGED player \/ \E i : MoveTo(i)
    BY <1>2 DEF mediaNext, mediaPrevious, vars
  <2> QED BY <1>0, <1>1, <2>1
<1>3. ASSUME NEW id, mediaPlay(id)
      PROVE  StoreShape(player')
  <2> DEFINE i == IF Find(getQueueOrder(queue), id) = -1 THEN player.index
                  ELSE PlaybackIndex(player, queue, Find(getQueueOrder(queue), id))
  <2>1. player' = [player EXCEPT !.status = "playing", !.index = i]
    BY <1>3 DEF mediaPlay
  <2> HIDE DEF i
  <2> QED BY <1>0, <2>1 DEF StoreShape, Statuses
<1>4. ASSUME mediaPause \/ mediaStop \/ mediaTogglePlayPause
      PROVE  StoreShape(player')
  BY <1>0, <1>4 DEF mediaPause, mediaStop, mediaTogglePlayPause, StoreShape, Statuses
<1>5. ASSUME NEW r, setRepeat(r)
      PROVE  StoreShape(player')
  BY <1>0, <1>5 DEF setRepeat, StoreShape
<1>6. ASSUME NEW b, setPauseOnNextSongEnd(b)
      PROVE  StoreShape(player')
  BY <1>0, <1>6 DEF setPauseOnNextSongEnd, StoreShape
<1>7. ASSUME mediaSeekToTimestamp(0)
      PROVE  StoreShape(player')
  BY <1>0, <1>7 DEF mediaSeekToTimestamp
<1>8. CASE Commands
  BY <1>8, <1>2, <1>3, <1>4, <1>5, <1>6, <1>7 DEF Commands
<1>9. CASE ClearAndStop
  BY <1>0, <1>9 DEF ClearAndStop, StoreShape, Statuses
<1>10. CASE Refill
  <2>1. PICK ids : PlayNow(ids, NoSong) /\ Store("none")
    BY <1>10 DEF Refill
  <2>2. player' = Restarted
    BY <2>1 DEF PlayNow, PlayTarget
  <2> QED BY <1>0, <2>1, <2>2 DEF Restarted, StoreShape, Statuses, Decks
<1> QED BY <1>8, <1>9, <1>10

\* React commits what the component has set.
LEMMA RenderStep ==
    ASSUME WebIInv, Render
    PROVE  Kept
<1> DEFINE s1 == [trans |-> web.trans, local |-> web.local]
           a == player.playerNum
<1>0. /\ Shapes /\ Followed
      /\ seen # s1 /\ seen' = s1 /\ web' = Committed(web, player, seen, player, queue, s1)
      /\ UNCHANGED <<player, queue, settings>>
  BY DEF WebIInv, Render
<1>1. s1 \in [trans : Transitions, local : Statuses] /\ s1.trans = web.trans /\ s1.local = web.local
  BY <1>0 DEF Shapes, Component
<1>2. Committable(s1) /\ Committable(seen)
  BY <1>0, <1>1 DEF Shapes, Committable
<1>3. seen.trans # s1.trans \/ seen.local # s1.local
  <2>1. seen = [trans |-> seen.trans, local |-> seen.local]
    BY <1>2 DEF Committable
  <2> QED BY <1>0, <2>1
<1> HIDE DEF s1
<1>4. /\ Component(web') /\ SameAside(web, web')
      /\ \A d \in Decks : web'.deck[d].song \in {NoSong, SongsOf(player, queue)[d]} /\ (web'.deck[d].ok => web.deck[d].ok)
      /\ EffectRuns(player, seen, player, s1) /\ s1.trans = "no" =>
            ~web'.deck[3 - a].on /\ (s1.local = "paused" => \A d \in Decks : ~web'.deck[d].on)
      /\ s1.local = "playing" /\ web'.deck[a].ok /\ (~PlayingProp(player, seen, a) \/ web.deck[a].on) => web'.deck[a].on
  BY <1>0, <1>2, CommitFacts DEF Shapes
<1>5. s1.trans = "no" => EffectRuns(player, seen, player, s1)
  BY <1>3 DEF EffectRuns
<1>6. a \in Decks
  BY <1>0 DEF Shapes, StoreShape
<1>7. Shapes'
  BY <1>0, <1>2, <1>4 DEF Shapes
<1>8. Followed'
  BY <1>0, <1>4 DEF Followed, FadesOff, Follows, VolumeUp, SameAside
<1>9. SongsLoaded(web, player, queue)'
  BY <1>0, <1>4 DEF SongsLoaded
<1>10. OtherSilent' /\ PausedSilent'
  BY <1>0, <1>4, <1>5 DEF OtherSilent, PausedSilent
<1>11. ASSUME ActiveSounds
       PROVE  ActiveSounds'
  <2>1. SUFFICES ASSUME s1.local = "playing", player.status = "playing", web'.deck[a].ok
                 PROVE  web'.deck[a].on
    BY <1>0 DEF ActiveSounds
  <2>2. CASE seen.local = "playing"
    BY <1>4, <1>6, <1>11, <2>1, <2>2 DEF ActiveSounds
  <2>3. CASE seen.local # "playing"
    BY <1>4, <2>1, <2>3 DEF PlayingProp
  <2> QED BY <2>2, <2>3
<1> QED BY <1>7, <1>8, <1>9, <1>10, <1>11 DEF WebIInv, Kept, OneKept, SoundKept

-----------------------------------------------------------------------------
(* What the decks do on their own.                                         *)

\* The steps that leave the store and what is committed alone.
Alone == UNCHANGED <<player, queue, settings, seen>>

LEMMA DeckReplaced ==
    ASSUME NEW w, Component(w), NEW d \in Decks, NEW k, Element(k), Loaded(k), NEW v,
           DOMAIN v = DOMAIN w, SameAside(w, v), DOMAIN v.deck = Decks, v.deck[d] = k,
           \A e \in Decks : e # d => v.deck[e] = w.deck[e]
    PROVE  Component(v)
BY DEF Component, SameAside

\* Only the position of a deck changes.
LEMMA PositionMoves ==
    ASSUME NEW w, Component(w), NEW d \in Decks, NEW at
    PROVE  LET v == [w EXCEPT !.deck[d].at = at]
           IN  /\ Component(v) /\ SameAside(w, v)
               /\ \A e \in Decks : /\ v.deck[e].song = w.deck[e].song /\ v.deck[e].ok = w.deck[e].ok
                                   /\ v.deck[e].on = w.deck[e].on
<1> DEFINE v == [w EXCEPT !.deck[d].at = at]
           k == [w.deck[d] EXCEPT !.at = at]
<1>1. DOMAIN v = DOMAIN w /\ SameAside(w, v) /\ v.deck = [w.deck EXCEPT ![d] = k] /\ DOMAIN w.deck = Decks
  BY DEF Component, SameAside
<1>2. /\ Element(k) /\ Loaded(k) /\ k.song = w.deck[d].song /\ k.ok = w.deck[d].ok
      /\ k.on = w.deck[d].on
  BY DEF Component, Element, Loaded
<1> HIDE DEF k, v
<1>3. DOMAIN v.deck = Decks /\ v.deck[d] = k /\ \A e \in Decks : e # d => v.deck[e] = w.deck[e]
  BY <1>1
<1>4. Component(v)
  BY <1>1, <1>2, <1>3, DeckReplaced
<1> QED BY <1>1, <1>2, <1>3, <1>4 DEF v

\* A step of the component that starts at most the deck of a transition, and stops
\* at most a deck that is not the active one or has nothing loaded.
LEMMA DeckStep ==
    ASSUME WebIInv, Alone, Component(web'), SameStatus(web, web'),
           settings.style = "gapless" => web'.full = web.full,
           \A e \in Decks : web'.deck[e].song = web.deck[e].song /\ (web'.deck[e].ok => web.deck[e].ok),
           seen.trans = "no" /\ web'.trans = "no" =>
               web.trans = "no" /\ \A e \in Decks : web'.deck[e].on => web.deck[e].on,
           seen.trans = "no" /\ (\A e \in Decks : ~web.deck[e].on) => \A e \in Decks : ~web'.deck[e].on,
           web.deck[player.playerNum].on /\ web'.deck[player.playerNum].ok => web'.deck[player.playerNum].on
    PROVE  Kept
<1> DEFINE n == player.playerNum
<1>1. n \in Decks /\ 3 - n \in Decks
  BY OtherDeck DEF WebIInv, Shapes, StoreShape
<1>2. Shapes' /\ Followed'
  BY DEF WebIInv, Shapes, Followed, FadesOff, Follows, VolumeUp, SameStatus, Alone
<1>3. SongsLoaded(web, player, queue)'
  BY DEF WebIInv, SongsLoaded, Alone
<1>4. OtherSilent => OtherSilent'
  BY <1>1 DEF OtherSilent, Alone
<1>5. PausedSilent => PausedSilent'
  BY DEF PausedSilent, Alone
<1>6. ActiveSounds => ActiveSounds'
  BY <1>1 DEF ActiveSounds, Alone
<1> QED BY <1>2, <1>3, <1>4, <1>5, <1>6 DEF WebIInv, Kept, OneKept, SoundKept

LEMMA PositionStep ==
    ASSUME WebIInv, NEW d \in Decks, NearEnd(d) \/ RepeatOne(d)
    PROVE  Kept
<1>1. PICK at : web' = [web EXCEPT !.deck[d].at = at]
  BY DEF NearEnd, RepeatOne
<1>2. Alone
  BY DEF NearEnd, RepeatOne, Alone
<1>3. /\ Component(web') /\ SameAside(web, web')
      /\ \A e \in Decks : /\ web'.deck[e].song = web.deck[e].song /\ web'.deck[e].ok = web.deck[e].ok
                          /\ web'.deck[e].on = web.deck[e].on
  BY <1>1, PositionMoves DEF WebIInv, Shapes
<1>4. player.playerNum \in Decks
  BY DEF WebIInv, Shapes, StoreShape
<1>5. SameStatus(web, web') /\ web'.trans = web.trans /\ web'.full = web.full
  BY <1>3 DEF SameAside, SameStatus
<1> QED BY <1>2, <1>3, <1>4, <1>5, DeckStep

\* A deck has loaded its song; it sounds if its prop is on.
LEMMA LoadStep ==
    ASSUME WebIInv, NEW d \in Decks, LoadDeck(d)
    PROVE  Kept
<1> DEFINE song == SongsOf(player, queue)[d]
           fresh == [song |-> song, ok |-> TRUE, on |-> FALSE, at |-> "start"]
           k == IF PlayingProp(player, seen, d) THEN PlayElement(fresh) ELSE fresh
           a == player.playerNum
<1>0. Shapes /\ Followed /\ SongsLoaded(web, player, queue) /\ Alone
  BY DEF WebIInv, LoadDeck, Alone
<1>1. song # NoSong /\ web' = [web EXCEPT !.deck[d] = k, !.retry = [e \in Decks |-> 0]]
  BY DEF LoadDeck, SongsOf
<1>2. Element(fresh) /\ Loaded(fresh) /\ fresh.song = song /\ ~fresh.on /\ fresh.ok
  BY <1>1 DEF Element, Loaded
<1> HIDE DEF fresh
<1>3. Element(k) /\ Loaded(k) /\ k.song = song /\ k.ok /\ (k.on <=> PlayingProp(player, seen, d))
  BY <1>2, PlayFacts
<1> HIDE DEF k, song
<1>4. DOMAIN web' = DOMAIN web /\ SameAside(web, web') /\ web'.deck = [web.deck EXCEPT ![d] = k]
  BY <1>0, <1>1 DEF Shapes, Component, SameAside
<1>5. /\ Component(web') /\ web'.deck[d] = k
      /\ \A e \in Decks : e # d => web'.deck[e] = web.deck[e]
  <2>1. Component(web) /\ DOMAIN web.deck = Decks
    BY <1>0 DEF Shapes, Component
  <2>2. /\ DOMAIN web'.deck = Decks /\ web'.deck[d] = k
        /\ \A e \in Decks : e # d => web'.deck[e] = web.deck[e]
    BY <1>4, <2>1
  <2>3. Component(web')
    BY <1>3, <1>4, <2>1, <2>2, DeckReplaced
  <2> QED BY <2>2, <2>3
<1>6. a \in Decks /\ 3 - a \in Decks /\ 3 - a # a
  BY <1>0, OtherDeck DEF Shapes, StoreShape
<1>7. PlayingProp(player, seen, d) <=> d = a /\ seen.local = "playing"
  BY DEF PlayingProp
<1>8. Shapes' /\ Followed'
  BY <1>0, <1>4, <1>5 DEF Shapes, Followed, FadesOff, Follows, VolumeUp, SameAside, Alone
<1>9. SongsLoaded(web, player, queue)'
  BY <1>0, <1>3, <1>5 DEF SongsLoaded, Alone, song
<1> HIDE DEF a
<1>10. OtherSilent => OtherSilent'
  BY <1>0, <1>3, <1>4, <1>5, <1>6, <1>7 DEF OtherSilent, SameAside, Alone, a
<1>11. PausedSilent => PausedSilent'
  BY <1>0, <1>3, <1>5, <1>7 DEF PausedSilent, Alone
<1>12. ActiveSounds => ActiveSounds'
  BY <1>0, <1>3, <1>5, <1>6, <1>7 DEF ActiveSounds, Alone, a
<1> QED BY <1>8, <1>9, <1>10, <1>11, <1>12 DEF WebIInv, Kept, OneKept, SoundKept

LEMMA FadeStep ==
    ASSUME WebIInv, FadeEnds
    PROVE  Kept
<1> DEFINE u == setVolume(web, TRUE)
           l == IF web.fade = "out" THEN "paused" ELSE web.local
<1>0. Shapes /\ Followed /\ SongsLoaded(web, player, queue) /\ Alone /\ web.fade # "none"
  BY DEF WebIInv, FadeEnds, Alone
<1>1. /\ Component(u) /\ u.deck = web.deck /\ u.trans = web.trans /\ u.local = web.local
      /\ \A d \in Decks : u.full[d]
  BY <1>0, VolumeFacts DEF Shapes
<1>2. web' = [u EXCEPT !.fade = "none", !.local = IF web.fade = "out" THEN "paused" ELSE @]
  BY DEF FadeEnds
<1> HIDE DEF u
<1>3. /\ DOMAIN web' = DOMAIN u /\ web'.deck = web.deck /\ web'.trans = web.trans
      /\ web'.local = l /\ web'.fade = "none" /\ web'.full = u.full
  BY <1>1, <1>2 DEF Component
<1>4. l \in Statuses
  BY <1>1 DEF Component, Statuses
<1>5. Component(web')
  BY <1>1, <1>3, <1>4 DEF Component
<1>6. Shapes'
  BY <1>0, <1>5 DEF Shapes, Alone
<1>7. Followed'
  BY <1>0, <1>1, <1>3 DEF Followed, FadesOff, Follows, VolumeUp, Alone, Component
<1>8. SongsLoaded(web, player, queue)' /\ OneKept /\ SoundKept
  BY <1>0, <1>3 DEF SongsLoaded, OneKept, SoundKept, OtherSilent, PausedSilent, ActiveSounds, Alone
<1> QED BY <1>6, <1>7, <1>8 DEF WebIInv, Kept

\* The progress handler of the crossfade.
LEMMA CrossfadeStep ==
    ASSUME WebIInv, NEW d \in Decks, Alone, web.deck[d].on, settings.style = "crossfade",
           web' = crossfadeHandler(web, d, SongsOf(player, queue)[3 - d] # NoSong)
    PROVE  Kept
<1> DEFINE has == SongsOf(player, queue)[3 - d] # NoSong
           n == player.playerNum
<1>0. /\ Shapes /\ SongsLoaded(web, player, queue) /\ Component(web)
      /\ \A e \in Decks : Element(web.deck[e]) /\ Loaded(web.deck[e])
  BY DEF WebIInv, Shapes, Component
<1>1. /\ n \in Decks /\ 3 - d \in Decks /\ 3 - d # d
      /\ \A e \in Decks : e # d => e = 3 - d
  BY <1>0, OtherDeck DEF Shapes, StoreShape
<1> HIDE DEF has
<1>2. CASE ~has
  <2> DEFINE u == DropOther(web, d)
             t == IF seen.trans # "no" THEN "no" ELSE web.trans
  <2>1. /\ Component(u) /\ SameStatus(web, u) /\ u.trans = web.trans
        /\ u.deck[d] = web.deck[d] /\ u.deck[3 - d] = PauseElement(web.deck[3 - d])
    BY <1>0, DropFacts
  <2>2. web' = [u EXCEPT !.trans = IF seen.trans # "no" THEN "no" ELSE @]
    BY <1>2 DEF crossfadeHandler, has
  <2> HIDE DEF u
  <2>3. /\ DOMAIN web' = DOMAIN u /\ web'.deck = u.deck /\ web'.trans = t /\ web'.local = u.local
        /\ web'.fade = u.fade /\ web'.full = u.full
    BY <2>1, <2>2 DEF Component
  <2>4. Component(web')
    BY <2>1, <2>3 DEF Component, Transitions
  <2>5. ASSUME NEW e \in Decks
        PROVE  /\ web'.deck[e].song = web.deck[e].song /\ web'.deck[e].ok = web.deck[e].ok
               /\ web'.deck[e].on => web.deck[e].on
    BY <1>0, <1>1, <2>1, <2>3, PauseFacts
  <2>6. web.deck[n].on /\ web'.deck[n].ok => web'.deck[n].on
    <3>1. n = 3 - d => ~web.deck[n].ok
      BY <1>0, <1>1, <1>2 DEF SongsLoaded, Loaded, has
    <3> QED BY <1>1, <2>1, <2>3, <2>5, <3>1
  <2>7. SameStatus(web, web')
    BY <2>1, <2>3 DEF SameStatus
  <2> QED BY <2>3, <2>4, <2>5, <2>6, <2>7, DeckStep
<1>3. CASE has /\ seen.trans = "no" /\ web.deck[d].at = "late" /\ ~player.pauseOnNextSongEnd
  <2> DEFINE w1 == [web EXCEPT !.full[3 - d] = FALSE]
             u == PlayDeck(w1, 3 - d)
  <2>1. /\ DOMAIN w1 = DOMAIN web /\ w1.deck = web.deck /\ w1.trans = web.trans /\ w1.local = web.local
        /\ w1.fade = web.fade /\ w1.full = [web.full EXCEPT ![3 - d] = FALSE]
    BY <1>0 DEF Component
  <2>2. web' = [u EXCEPT !.trans = PlayerName(d)]
    BY <1>3 DEF crossfadeHandler, has
  <2> HIDE DEF w1
  <2>3. Component(w1)
    BY <1>0, <2>1 DEF Component
  <2>4. /\ Component(u) /\ SameAside(w1, u)
        /\ u.deck[3 - d] = PlayElement(web.deck[3 - d]) /\ u.deck[d] = web.deck[d]
    BY <1>1, <2>1, <2>3, PlayDeckFacts
  <2> HIDE DEF u
  <2>5. /\ DOMAIN web' = DOMAIN u /\ web'.deck = u.deck /\ web'.trans = PlayerName(d)
        /\ web'.local = u.local /\ web'.fade = u.fade /\ web'.full = u.full
    BY <2>2, <2>4 DEF Component
  <2>6. PlayerName(d) \in Transitions /\ PlayerName(d) # "no"
    BY DEF PlayerName, Transitions
  <2>7. Component(web')
    BY <2>4, <2>5, <2>6 DEF Component
  <2>8. ASSUME NEW e \in Decks
        PROVE  /\ web'.deck[e].song = web.deck[e].song /\ web'.deck[e].ok = web.deck[e].ok
               /\ web.deck[e].on => web'.deck[e].on
    BY <1>0, <1>1, <2>4, <2>5, PlayFacts
  <2>9. SameStatus(web, web')
    BY <2>1, <2>4, <2>5 DEF SameStatus, SameAside
  <2> QED BY <1>1, <2>5, <2>6, <2>7, <2>8, <2>9, DeckStep
<1>4. CASE has /\ seen.trans # "no" /\ (seen.trans = PlayerName(d) \/ player.playerNum = d)
  <2>1. web' = setVolume(web, FALSE)
    BY <1>4 DEF crossfadeHandler, has
  <2> DEFINE u == setVolume(web, FALSE)
  <2>2. /\ Component(u) /\ u.deck = web.deck /\ u.trans = web.trans
        /\ u.local = web.local /\ u.fade = web.fade
    BY <1>0, VolumeFacts
  <2>3. /\ Component(web') /\ web'.deck = web.deck /\ SameStatus(web, web') /\ web'.trans = web.trans
    BY <2>1, <2>2 DEF SameStatus
  <2> QED BY <1>1, <1>4, <2>3, DeckStep
<1>5. CASE /\ has
           /\ ~(seen.trans = "no" /\ web.deck[d].at = "late" /\ ~player.pauseOnNextSongEnd)
           /\ ~(seen.trans # "no" /\ (seen.trans = PlayerName(d) \/ player.playerNum = d))
  <2>1. web' = web
    BY <1>5 DEF crossfadeHandler, has
  <2> QED BY <1>0, <1>1, <2>1, DeckStep DEF SameStatus
<1> QED BY <1>2, <1>3, <1>4, <1>5

\* The progress handler of gapless playback.
LEMMA GaplessStep ==
    ASSUME WebIInv, NEW d \in Decks, Alone, web.deck[d].on,
           web' \in gaplessHandler(web, d, SongsOf(player, queue)[3 - d] # NoSong)
    PROVE  Kept
<1>0. /\ Shapes /\ Component(web) /\ \A e \in Decks : Element(web.deck[e]) /\ Loaded(web.deck[e])
  BY DEF WebIInv, Shapes, Component
<1>1. /\ player.playerNum \in Decks /\ 3 - d \in Decks /\ 3 - d # d
      /\ \A e \in Decks : e # d => e = 3 - d
  BY <1>0, OtherDeck DEF Shapes, StoreShape
<1>2. \/ web' = [web EXCEPT !.trans = "gapless"]
      \/ web' = web
      \/ seen.trans # "no" /\ web' = PlayDeck(web, 3 - d)
  BY DEF gaplessHandler
<1>3. CASE web' = [web EXCEPT !.trans = "gapless"]
  <2>1. /\ DOMAIN web' = DOMAIN web /\ web'.deck = web.deck /\ web'.trans = "gapless"
        /\ web'.local = web.local /\ web'.fade = web.fade /\ web'.full = web.full
    BY <1>0, <1>3 DEF Component
  <2>2. Component(web') /\ SameStatus(web, web')
    BY <1>0, <2>1 DEF Component, SameStatus, Transitions
  <2> QED BY <1>1, <2>1, <2>2, DeckStep
<1>4. CASE web' = web
  BY <1>0, <1>1, <1>4, DeckStep DEF SameStatus
<1>5. CASE seen.trans # "no" /\ web' = PlayDeck(web, 3 - d)
  <2>1. /\ Component(web') /\ SameAside(web, web')
        /\ web'.deck[3 - d] = PlayElement(web.deck[3 - d]) /\ web'.deck[d] = web.deck[d]
    BY <1>0, <1>1, <1>5, PlayDeckFacts
  <2>2. ASSUME NEW e \in Decks
        PROVE  /\ web'.deck[e].song = web.deck[e].song /\ web'.deck[e].ok = web.deck[e].ok
               /\ web.deck[e].on => web'.deck[e].on
    BY <1>0, <1>1, <2>1, PlayFacts
  <2>3. SameStatus(web, web') /\ web'.full = web.full
    BY <2>1 DEF SameAside, SameStatus
  <2> QED BY <1>1, <1>5, <2>1, <2>2, <2>3, DeckStep
<1> QED BY <1>2, <1>3, <1>4, <1>5

-----------------------------------------------------------------------------
(* The end of a track.                                                     *)

\* mediaAutoNext: the other deck takes over, unless the player pauses or repeats.
LEMMA AutoNextFacts ==
    ASSUME StoreShape(player)
    PROVE  LET p1 == AfterAutoNext(player, queue)
           IN  /\ StoreShape(p1)
               /\ p1.playerNum \in {player.playerNum, 3 - player.playerNum}
               /\ p1.status = "playing" /\ player.repeat # "one" => p1.playerNum = 3 - player.playerNum
<1> DEFINE step == AutoNextIndex(player, queue)
           paused == step.pause \/ player.pauseOnNextSongEnd
           keep == paused \/ (player.repeat = "one" /\ step.next = player.index)
           p1 == [player EXCEPT !.index = step.next, !.status = IF paused THEN "paused" ELSE "playing",
                     !.playerNum = IF keep THEN @ ELSE 3 - @, !.pauseOnNextSongEnd = FALSE]
<1>1. AfterAutoNext(player, queue) = p1
  BY DEF AfterAutoNext
<1>2. keep <=> paused \/ (player.repeat = "one" /\ step.next = player.index)
  OBVIOUS
<1> HIDE DEF step, paused, keep
<1>3. /\ DOMAIN p1 = DOMAIN player /\ p1.status = IF paused THEN "paused" ELSE "playing"
      /\ p1.playerNum = IF keep THEN player.playerNum ELSE 3 - player.playerNum
  BY DEF StoreShape
<1> HIDE DEF p1
<1>4. player.playerNum \in Decks /\ 3 - player.playerNum \in Decks
  BY OtherDeck DEF StoreShape
<1>5. StoreShape(p1)
  BY <1>3, <1>4 DEF StoreShape, Statuses
<1> QED BY <1>1, <1>2, <1>3, <1>5

\* What the handler does after the commit: d stops, and in a pause both do.
Finished(w, d, status, v) ==
    /\ Component(v) /\ v.trans = "no" /\ SameStatus(w, v) /\ (VolumeUp(w) => VolumeUp(v))
    /\ \A e \in Decks : /\ v.deck[e].song = w.deck[e].song /\ v.deck[e].ok = w.deck[e].ok
                        /\ v.deck[e].on => w.deck[e].on
    /\ ~v.deck[d].on
    /\ status = "paused" => \A e \in Decks : ~v.deck[e].on
    /\ status # "paused" => \A e \in Decks : e # d => v.deck[e] = w.deck[e]

LEMMA AfterEndedFacts ==
    ASSUME NEW w, Component(w), NEW d \in Decks, NEW p1
    PROVE  Finished(w, d, p1.status, AfterEnded(w, d, p1))
<1> DEFINE w1 == PauseDeck(w, d)
           w2 == IF p1.status = "paused" THEN pauseBothPlayers(w1) ELSE setVolume(w1, TRUE)
           v == AfterEnded(w, d, p1)
<1>1. /\ Component(w1) /\ SameAside(w, w1) /\ w1.deck[d] = PauseElement(w.deck[d])
      /\ \A e \in Decks : e # d => w1.deck[e] = w.deck[e]
  BY PauseDeckFacts
<1>2. v = [w2 EXCEPT !.trans = "no"]
  BY DEF AfterEnded
<1> HIDE DEF w1
<1>3. \A e \in Decks : Element(w.deck[e]) /\ Loaded(w.deck[e]) /\ Element(w1.deck[e]) /\ Loaded(w1.deck[e])
  BY <1>1 DEF Component
<1>4. ASSUME NEW e \in Decks
      PROVE  /\ w1.deck[e].song = w.deck[e].song /\ w1.deck[e].ok = w.deck[e].ok
             /\ (w1.deck[e].on => w.deck[e].on) /\ (e = d => ~w1.deck[e].on)
  BY <1>1, <1>3, PauseFacts
<1>5. CASE p1.status = "paused"
  <2>1. /\ Component(w2) /\ SameAside(w1, w2) /\ \A e \in Decks : w2.deck[e] = PauseElement(w1.deck[e])
    BY <1>1, <1>5, PauseBothFacts
  <2>2. ASSUME NEW e \in Decks
        PROVE  w2.deck[e].song = w1.deck[e].song /\ w2.deck[e].ok = w1.deck[e].ok /\ ~w2.deck[e].on
    BY <1>3, <2>1, PauseFacts
  <2> HIDE DEF w2
  <2>3. Heard(w2, v) /\ SameStatus(w2, v) /\ v.trans = "no" /\ v.deck = w2.deck /\ v.full = w2.full
    BY <1>2, <2>1, StopTransition DEF Component
  <2>4. Component(v) /\ SameStatus(w, v) /\ (VolumeUp(w) => VolumeUp(v))
    BY <1>1, <2>1, <2>3 DEF Heard, SameAside, SameStatus, VolumeUp
  <2> QED BY <1>4, <1>5, <2>2, <2>3, <2>4 DEF Finished
<1>6. CASE p1.status # "paused"
  <2> DEFINE u == setVolume(w1, TRUE)
  <2>1. /\ Component(u) /\ u.deck = w1.deck /\ u.local = w1.local /\ u.fade = w1.fade
        /\ \A e \in Decks : u.full[e]
    BY <1>1, VolumeFacts
  <2>2. w2 = u
    BY <1>6
  <2> HIDE DEF w2, u
  <2>3. Heard(w2, v) /\ SameStatus(w2, v) /\ v.trans = "no" /\ v.deck = w2.deck /\ v.full = w2.full
    BY <1>2, <2>1, <2>2, StopTransition DEF Component
  <2>4. Component(v) /\ SameStatus(w, v) /\ VolumeUp(v)
    BY <1>1, <2>1, <2>2, <2>3 DEF Heard, SameAside, SameStatus, VolumeUp
  <2> QED BY <1>1, <1>4, <1>6, <2>1, <2>2, <2>3, <2>4 DEF Finished
<1> QED BY <1>5, <1>6

\* A deck has ended, or has been made to: w is the component when its handler runs.
LEMMA EndedStep ==
    ASSUME WebIInv, NEW d \in Decks, NEW w, Component(w), handleOnEnded(w, d), SameStatus(web, w),
           settings.style = "gapless" => w.full = web.full,
           \A e \in Decks : w.deck[e].on => web.deck[e].on,
           \/ ~Loops(d)
           \/ ~w.deck[d].ok /\ \A e \in Decks : ~w.deck[e].on
    PROVE  /\ WebIInv' /\ OneKept
           /\ SoundKept \/ (d # player.playerNum /\ (w.deck[d].ok \/ player.repeat = "one"))
<1> DEFINE p1 == AfterAutoNext(player, queue)
           v == Notified(w, p1, queue, "none")
           n == player.playerNum
           a == p1.playerNum
<1>0. /\ Shapes /\ Followed
      /\ player' = p1 /\ queue' = queue /\ settings' = settings /\ seen' = seen
      /\ web' = AfterEnded(v, d, p1)
  BY DEF WebIInv, handleOnEnded
<1>1. /\ StoreShape(p1) /\ a \in {n, 3 - n}
      /\ p1.status = "playing" /\ player.repeat # "one" => a = 3 - n
  BY <1>0, AutoNextFacts DEF Shapes
<1> HIDE DEF p1
<1>2. /\ FadesOff(w) /\ Follows(w, player.status) /\ (settings.style = "gapless" => VolumeUp(w))
  BY <1>0 DEF Followed, FadesOff, Follows, VolumeUp, SameStatus
<1>3. /\ Component(v) /\ FadesOff(v) /\ Follows(v, p1.status)
      /\ settings.style = "gapless" => VolumeUp(v)
      /\ \A e \in Decks : v.deck[e].song \in {NoSong, SongsOf(p1, queue)[e]} /\ (v.deck[e].ok => w.deck[e].ok)
      /\ \A e \in Decks : (e # a \/ seen.local = "paused") /\ v.deck[e].on => w.deck[e].on
      /\ a # n /\ seen.trans = "no" => ~v.deck[3 - a].on
      /\ seen.local = "playing" /\ v.deck[a].ok /\ (a # n \/ w.deck[a].on) => v.deck[a].on
  BY <1>0, <1>1, <1>2, NotifiedFacts DEF Shapes
<1> HIDE DEF v
<1>4. /\ Component(web') /\ web'.trans = "no" /\ SameStatus(v, web') /\ (VolumeUp(v) => VolumeUp(web'))
      /\ \A e \in Decks : /\ web'.deck[e].song = v.deck[e].song /\ web'.deck[e].ok = v.deck[e].ok
                          /\ web'.deck[e].on => v.deck[e].on
      /\ ~web'.deck[d].on
      /\ p1.status = "paused" => \A e \in Decks : ~web'.deck[e].on
      /\ p1.status # "paused" => \A e \in Decks : e # d => web'.deck[e] = v.deck[e]
  <2>1. Finished(v, d, p1.status, AfterEnded(v, d, p1))
    BY <1>3, AfterEndedFacts
  <2>2. Finished(v, d, p1.status, web')
    BY <1>0, <2>1
  <2> QED BY <2>2 DEF Finished
<1>5. /\ n \in Decks /\ a \in Decks /\ 3 - n \in Decks /\ 3 - n # n /\ 3 - (3 - n) = n
      /\ 3 - a \in Decks /\ 3 - a # a /\ p1.status \in Statuses
  BY <1>0, <1>1, OtherDeck DEF Shapes, StoreShape
<1>6. d # n => d = 3 - n
  BY <1>0, OtherDeck DEF Shapes, StoreShape
<1>7. Loops(d) <=> player.repeat = "one" /\ n = d
  BY DEF Loops
<1>8. Shapes' /\ Followed'
  BY <1>0, <1>1, <1>3, <1>4 DEF Shapes, Followed, FadesOff, Follows, VolumeUp, SameStatus
<1>9. SongsLoaded(web, player, queue)'
  BY <1>0, <1>3, <1>4 DEF SongsLoaded
<1> HIDE DEF n, a
<1>10. OtherSilent'
  <2>1. SUFFICES ASSUME seen.trans = "no"  PROVE ~web'.deck[3 - a].on
    BY <1>0 DEF OtherSilent, a
  <2>2. CASE p1.status = "paused"
    BY <1>4, <1>5, <2>2
  <2>3. CASE a # n
    BY <1>3, <1>4, <1>5, <2>1, <2>3
  <2>4. CASE p1.status # "paused" /\ a = n
    <3>1. player.repeat = "one"
      BY <1>1, <1>5, <2>4 DEF Statuses
    <3>2. CASE d = n
      BY <1>3, <1>4, <1>5, <1>7, <3>1, <3>2
    <3>3. CASE d # n
      BY <1>4, <1>6, <2>4, <3>3
    <3> QED BY <3>2, <3>3
  <2> QED BY <2>2, <2>3, <2>4
<1>11. PausedSilent => PausedSilent'
  BY <1>0, <1>3, <1>4 DEF PausedSilent
<1>12. d = n => ActiveSounds'
  <2>1. SUFFICES ASSUME d = n, seen.local = "playing", p1.status = "playing", web'.deck[a].ok
                 PROVE  web'.deck[a].on
    BY <1>0 DEF ActiveSounds, a
  <2>2. CASE a = 3 - n
    BY <1>3, <1>4, <1>5, <2>1, <2>2
  <2>3. CASE a # 3 - n
    <3>1. a = n /\ Loops(d)
      BY <1>1, <1>5, <1>7, <2>1, <2>3
    <3> QED BY <1>3, <1>4, <1>5, <2>1, <3>1
  <2> QED BY <2>2, <2>3
<1>13. d # n /\ ~w.deck[d].ok /\ player.repeat # "one" => ActiveSounds'
  <2>1. SUFFICES ASSUME d # n, ~w.deck[d].ok, player.repeat # "one", p1.status = "playing"
                 PROVE  ~web'.deck[a].ok
    BY <1>0 DEF ActiveSounds, a
  <2>2. a = d
    BY <1>1, <1>6, <2>1
  <2> QED BY <1>3, <1>4, <2>1, <2>2
<1> QED BY <1>8, <1>9, <1>10, <1>11, <1>12, <1>13 DEF WebIInv, OneKept, SoundKept, n

LEMMA EndStep ==
    ASSUME WebIInv, NEW d \in Decks, Ended(d)
    PROVE  WebIInv' /\ OneKept /\ (SoundKept \/ d # player.playerNum)
<1> DEFINE w == [web EXCEPT !.deck[d].on = FALSE, !.deck[d].at = "start"]
           k == [web.deck[d] EXCEPT !.on = FALSE, !.at = "start"]
<1>0. Component(web) /\ DOMAIN web.deck = Decks /\ \A e \in Decks : Element(web.deck[e]) /\ Loaded(web.deck[e])
  BY DEF WebIInv, Shapes, Component
<1>1. /\ DOMAIN w = DOMAIN web /\ SameAside(web, w) /\ DOMAIN w.deck = Decks
      /\ w.deck[d] = k /\ \A e \in Decks : e # d => w.deck[e] = web.deck[e]
  BY <1>0 DEF Component, SameAside
<1>2. Element(k) /\ Loaded(k) /\ ~k.on
  BY <1>0 DEF Element, Loaded
<1>3. handleOnEnded(w, d) /\ ~Loops(d)
  BY DEF Ended
<1> HIDE DEF w, k
<1>4. Component(w)
  BY <1>0, <1>1, <1>2, DeckReplaced
<1>5. SameStatus(web, w) /\ w.full = web.full
  BY <1>1 DEF SameAside, SameStatus
<1>6. \A e \in Decks : w.deck[e].on => web.deck[e].on
  BY <1>1, <1>2
<1> QED BY <1>3, <1>4, <1>5, <1>6, EndedStep

-----------------------------------------------------------------------------
(* Errors and retries.                                                     *)

LEMMA FailedFacts ==
    ASSUME WebIInv, NEW d \in Decks
    PROVE  /\ Component(Failed(d)) /\ SameAside(web, Failed(d))
           /\ ~Failed(d).deck[d].ok /\ ~Failed(d).deck[d].on /\ Failed(d).deck[d].song = web.deck[d].song
           /\ \A e \in Decks : e # d => Failed(d).deck[e] = web.deck[e]
<1> DEFINE w == Failed(d)
           k == [web.deck[d] EXCEPT !.ok = FALSE, !.on = FALSE, !.at = "start"]
<1>0. Component(web) /\ DOMAIN web.deck = Decks /\ \A e \in Decks : Element(web.deck[e]) /\ Loaded(web.deck[e])
  BY DEF WebIInv, Shapes, Component
<1>1. /\ DOMAIN w = DOMAIN web /\ SameAside(web, w) /\ DOMAIN w.deck = Decks
      /\ w.deck[d] = k /\ \A e \in Decks : e # d => w.deck[e] = web.deck[e]
  BY <1>0 DEF Component, SameAside, Failed
<1>2. Element(k) /\ Loaded(k) /\ ~k.on /\ ~k.ok /\ k.song = web.deck[d].song
  BY <1>0 DEF Element, Loaded
<1> HIDE DEF w, k
<1>3. Component(w)
  BY <1>0, <1>1, <1>2, DeckReplaced
<1> QED BY <1>1, <1>2, <1>3 DEF w

\* The error handler pauses both decks.
LEMMA StoppedFacts ==
    ASSUME WebIInv, NEW d \in Decks
    PROVE  LET w == pauseBothPlayers(Failed(d))
           IN  /\ Component(w) /\ SameAside(web, w) /\ ~w.deck[d].ok
               /\ \A e \in Decks : ~w.deck[e].on
<1> DEFINE f == Failed(d)
           w == pauseBothPlayers(f)
<1>1. Component(f) /\ SameAside(web, f) /\ ~f.deck[d].ok
  BY FailedFacts
<1> HIDE DEF f
<1>2. Component(w) /\ SameAside(f, w) /\ \A e \in Decks : w.deck[e] = PauseElement(f.deck[e])
  BY <1>1, PauseBothFacts
<1>3. \A e \in Decks : ~w.deck[e].on /\ w.deck[e].ok = f.deck[e].ok
  BY <1>1, <1>2, PauseFacts DEF Component
<1> QED BY <1>1, <1>2, <1>3 DEF SameAside, f

LEMMA NetworkStep ==
    ASSUME WebIInv, NEW d \in Decks, NetworkError(d)
    PROVE  Kept
<1>0. Shapes /\ Followed /\ Component(web)
  BY DEF WebIInv, Shapes
<1>1. CASE /\ web' = [Failed(d) EXCEPT !.retry[d] = @ + 1, !.timer[d] = @ + 1]
           /\ UNCHANGED <<player, queue, settings, seen>>
  <2> DEFINE f == Failed(d)
  <2>1. /\ Component(f) /\ SameAside(web, f) /\ ~f.deck[d].ok /\ ~f.deck[d].on
        /\ f.deck[d].song = web.deck[d].song
        /\ \A e \in Decks : e # d => f.deck[e] = web.deck[e]
    BY FailedFacts
  <2>2. web' = [f EXCEPT !.retry[d] = @ + 1, !.timer[d] = @ + 1]
    BY <1>1
  <2> HIDE DEF f
  <2>3. DOMAIN web' = DOMAIN f /\ web'.deck = f.deck /\ SameAside(f, web')
    BY <2>1, <2>2 DEF Component, SameAside
  <2>4. Component(web') /\ SameStatus(web, web') /\ web'.full = web.full /\ web'.trans = web.trans
    BY <2>1, <2>3 DEF Component, SameAside, SameStatus
  <2>5. \A e \in Decks : /\ web'.deck[e].song = web.deck[e].song /\ (web'.deck[e].ok => web.deck[e].ok)
                         /\ web'.deck[e].on => web.deck[e].on
                         /\ web.deck[e].on /\ web'.deck[e].ok => web'.deck[e].on
    BY <2>1, <2>3
  <2>6. player.playerNum \in Decks
    BY <1>0 DEF Shapes, StoreShape
  <2>7. Alone
    BY <1>1 DEF Alone
  <2> QED BY <2>4, <2>5, <2>6, <2>7, DeckStep
<1>2. CASE /\ mediaPause
           /\ web' = Notified(pauseBothPlayers(Failed(d)), player', queue, "none")
           /\ UNCHANGED <<settings, seen>>
  <2> DEFINE w == pauseBothPlayers(Failed(d))
             a == player'.playerNum
  <2>1. Component(w) /\ SameAside(web, w) /\ \A e \in Decks : ~w.deck[e].on
    BY StoppedFacts
  <2>2. web' = Notified(w, player', queue, "none")
    BY <1>2
  <2> HIDE DEF w
  <2>3. StoreShape(player') /\ player'.status = "paused" /\ a = player.playerNum /\ queue' = queue
    BY <1>0, <1>2 DEF mediaPause, Shapes, StoreShape, Statuses
  <2>4. FadesOff(w) /\ Follows(w, player.status) /\ (settings.style = "gapless" => VolumeUp(w))
    BY <1>0, <2>1 DEF Followed, FadesOff, Follows, VolumeUp, SameAside
  <2>5. /\ Component(web') /\ FadesOff(web') /\ Follows(web', player'.status)
        /\ settings.style = "gapless" => VolumeUp(web')
        /\ \A e \in Decks : web'.deck[e].song \in {NoSong, SongsOf(player', queue)[e]}
        /\ \A e \in Decks : (e # a \/ seen.local = "paused") /\ web'.deck[e].on => w.deck[e].on
    BY <1>0, <2>1, <2>2, <2>3, <2>4, NotifiedFacts DEF Shapes
  <2>6. a \in Decks /\ 3 - a \in Decks /\ 3 - a # a
    BY <2>3, OtherDeck DEF StoreShape
  <2>7. Shapes' /\ Followed'
    BY <1>0, <1>2, <2>3, <2>5 DEF Shapes, Followed, FadesOff, Follows, VolumeUp
  <2>8. SongsLoaded(web, player, queue)'
    BY <2>3, <2>5 DEF SongsLoaded
  <2> HIDE DEF a
  <2>9. OtherSilent' /\ PausedSilent' /\ ActiveSounds'
    BY <1>2, <2>1, <2>3, <2>5, <2>6 DEF OtherSilent, PausedSilent, ActiveSounds, a
  <2> QED BY <2>7, <2>8, <2>9 DEF WebIInv, Kept, OneKept, SoundKept
<1> QED BY <1>1, <1>2 DEF NetworkError

\* Under repeat one the other deck has no song that could fail.
LEMMA DecodeStep ==
    ASSUME WebIInv, NEW d \in Decks, DecodeError(d)
    PROVE  Kept
<1> DEFINE w == pauseBothPlayers(Failed(d))
<1>1. Component(w) /\ SameAside(web, w) /\ ~w.deck[d].ok /\ \A e \in Decks : ~w.deck[e].on
  BY StoppedFacts
<1>2. handleOnEnded(w, d) /\ web.deck[d].song # NoSong
  BY DEF DecodeError, Fails
<1> HIDE DEF w
<1>3. SameStatus(web, w) /\ w.full = web.full
  BY <1>1 DEF SameAside, SameStatus
<1>4. d # player.playerNum => player.repeat # "one"
  <2>1. SongsOf(player, queue)[d] # NoSong
    BY <1>2 DEF WebIInv, SongsLoaded
  <2>2. SongsOf(player, queue)[d] = IF d = player.playerNum THEN getCurrentSong(player, queue)
                                    ELSE IF player.repeat = "one" THEN NoSong ELSE NextSong(player, queue)
    BY DEF SongsOf, getPlayerData, getDualPlayerSongs, Decks
  <2> QED BY <2>1, <2>2
<1>5. WebIInv' /\ OneKept /\ (SoundKept \/ (d # player.playerNum /\ (w.deck[d].ok \/ player.repeat = "one")))
  BY <1>1, <1>2, <1>3, EndedStep
<1> QED BY <1>1, <1>4, <1>5 DEF Kept

LEMMA RetryStep ==
    ASSUME WebIInv, NEW d \in Decks, RetryFires(d)
    PROVE  /\ WebIInv'
           /\ OneKept \/ d # player.playerNum \/ seen.local = "paused"
           /\ SoundKept \/ d # player.playerNum
<1> DEFINE u == pauseBothPlayers(web)
           w == [u EXCEPT !.timer[d] = @ - 1]
           k == [w.deck[d] EXCEPT !.ok = TRUE, !.on = TRUE, !.at = "start"]
<1>0. Shapes /\ Followed /\ SongsLoaded(web, player, queue) /\ Component(web)
  BY DEF WebIInv, Shapes
<1>1. Component(u) /\ SameAside(web, u) /\ \A e \in Decks : u.deck[e] = PauseElement(web.deck[e])
  BY <1>0, PauseBothFacts
<1>2. \A e \in Decks : u.deck[e].song = web.deck[e].song /\ ~u.deck[e].on
  BY <1>0, <1>1, PauseFacts DEF Component
<1>3. /\ web' = IF w.deck[d].song = NoSong THEN w
                ELSE [w EXCEPT !.deck[d].ok = TRUE, !.deck[d].on = TRUE, !.deck[d].at = "start"]
      /\ UNCHANGED <<player, queue, settings, seen>>
  BY DEF RetryFires
<1> HIDE DEF u
<1>4. DOMAIN w = DOMAIN u /\ w.deck = u.deck /\ SameAside(u, w)
  BY <1>1 DEF Component, SameAside
<1> HIDE DEF w
<1>5. /\ Component(w) /\ SameAside(web, w)
      /\ \A e \in Decks : w.deck[e].song = web.deck[e].song /\ ~w.deck[e].on
  BY <1>1, <1>2, <1>4 DEF Component, SameAside
<1>6. /\ Component(web') /\ SameAside(web, web') /\ \A e \in Decks : web'.deck[e].song = web.deck[e].song
      /\ \A e \in Decks : e # d => ~web'.deck[e].on
      /\ web'.deck[d].ok => web'.deck[d].on
  <2>1. CASE w.deck[d].song = NoSong
    <3>1. ~w.deck[d].ok
      BY <1>5, <2>1 DEF Component, Loaded
    <3> QED BY <1>3, <1>5, <2>1, <3>1
  <2>2. CASE w.deck[d].song # NoSong
    <3>1. DOMAIN w.deck = Decks /\ Element(w.deck[d])
      BY <1>5 DEF Component
    <3>2. /\ DOMAIN web' = DOMAIN w /\ SameAside(w, web') /\ DOMAIN web'.deck = Decks
          /\ web'.deck[d] = k /\ \A e \in Decks : e # d => web'.deck[e] = w.deck[e]
      BY <1>3, <1>5, <2>2, <3>1 DEF Component, SameAside
    <3>3. Element(k) /\ Loaded(k) /\ k.song = w.deck[d].song /\ k.on
      BY <2>2, <3>1 DEF Element, Loaded
    <3> HIDE DEF k
    <3>4. Component(web')
      BY <1>5, <3>2, <3>3, DeckReplaced
    <3> QED BY <1>5, <3>2, <3>3, <3>4 DEF SameAside
  <2> QED BY <2>1, <2>2
<1>7. Shapes' /\ Followed' /\ SongsLoaded(web, player, queue)'
  BY <1>0, <1>3, <1>6 DEF Shapes, Followed, FadesOff, Follows, VolumeUp, SameAside, SongsLoaded
<1>8. player.playerNum \in Decks /\ 3 - player.playerNum \in Decks /\ 3 - player.playerNum # player.playerNum
  BY <1>0, OtherDeck DEF Shapes, StoreShape
<1>9. ASSUME d = player.playerNum, seen.local # "paused"
      PROVE  OtherSilent' /\ PausedSilent'
  BY <1>3, <1>6, <1>8, <1>9 DEF OtherSilent, PausedSilent
<1>10. ASSUME d = player.playerNum
       PROVE  ActiveSounds'
  BY <1>3, <1>6, <1>10 DEF ActiveSounds
<1> QED BY <1>7, <1>9, <1>10 DEF WebIInv, OneKept, SoundKept

-----------------------------------------------------------------------------
(* The theorems.                                                           *)

LEMMA WebStart == WebInit => WebIInv
<1> SUFFICES ASSUME WebInit PROVE WebIInv
  OBVIOUS
<1>1. settings.style \in {"crossfade", "gapless"} /\ settings.fades \in BOOLEAN
  BY WebPlaybackAssumption DEF WebInit
<1>2. StoreShape(player) /\ player.status = "paused"
  BY DEF WebInit, Init, StoreShape, Decks, Statuses
<1>3. Element(NoDeck) /\ Loaded(NoDeck) /\ ~NoDeck.on /\ ~NoDeck.ok /\ NoDeck.song = NoSong
  BY DEF Element, Loaded, NoDeck
<1>4. /\ DOMAIN web = {"trans", "local", "deck", "full", "fade", "retry", "timer"}
      /\ web.trans = "no" /\ web.local = "paused" /\ web.fade = "none"
      /\ web.deck = [d \in Decks |-> NoDeck] /\ web.full = [d \in Decks |-> TRUE]
  BY DEF WebInit
<1>5. Component(web)
  BY <1>3, <1>4 DEF Component, Transitions, Statuses
<1>6. Committable(seen) /\ seen.local = "paused"
  BY DEF WebInit, Committable, Transitions, Statuses
<1>7. Shapes
  BY <1>1, <1>2, <1>5, <1>6 DEF Shapes, WebInit
<1>8. Followed
  BY <1>2, <1>4 DEF Followed, FadesOff, Follows, VolumeUp
<1>9. SongsLoaded(web, player, queue)
  BY <1>3, <1>4 DEF SongsLoaded
<1> QED BY <1>7, <1>8, <1>9 DEF WebIInv

\* What every step keeps, and the steps that keep less.
LEMMA WebStep ==
    ASSUME WebIInv, [WebNext]_webVars
    PROVE  /\ WebIInv'
           /\ OneKept \/ Overtaking \/ \E d \in Decks : StrayRetry(d)
           /\ SoundKept \/ OtherActs \/ LatePlay
<1>0. \A d \in Decks : d # player.playerNum => d = 3 - player.playerNum
  BY OtherDeck DEF WebIInv, Shapes, StoreShape
<1>1. CASE Commanding
  <2>1. StoreShape(player') /\ \E at \in {"none", "start", "late"} : Store(at)
    BY <1>1, CommandShape DEF Commanding
  <2>2. /\ WebIInv'
        /\ OneKept \/ (seen.trans = "no" /\ web.trans # "no")
        /\ SoundKept \/ (/\ player.status = "paused" /\ seen.local = "playing"
                         /\ ~web.deck[player.playerNum].on)
    BY <2>1, StoreStep
  <2> QED BY <1>1, <2>2 DEF Overtaking, LatePlay
<1>2. CASE Render
  BY <1>2, RenderStep DEF Kept
<1>3. CASE FadeEnds
  BY <1>3, FadeStep DEF Kept
<1>4. CASE Loading
  BY <1>4, LoadStep DEF Loading, Kept
<1>5. CASE \E d \in Decks : NearEnd(d)
  BY <1>5, PositionStep DEF Kept
<1>6. CASE Progressing
  <2>1. PICK d \in Decks : onProgress(d)
    BY <1>6 DEF Progressing
  <2>2. Alone /\ web.deck[d].on
    BY <2>1 DEF onProgress, Alone
  <2>3. CASE settings.style = "crossfade"
    <3>1. web' = crossfadeHandler(web, d, SongsOf(player, queue)[3 - d] # NoSong)
      BY <2>1, <2>3 DEF onProgress, SongsOf
    <3> QED BY <2>2, <2>3, <3>1, CrossfadeStep DEF Kept
  <2>4. CASE settings.style # "crossfade"
    <3>1. web' \in gaplessHandler(web, d, SongsOf(player, queue)[3 - d] # NoSong)
      BY <2>1, <2>4 DEF onProgress, SongsOf
    <3> QED BY <2>2, <3>1, GaplessStep DEF Kept
  <2> QED BY <2>3, <2>4
<1>7. CASE Ending
  <2>1. PICK d \in Decks : Ended(d) \/ RepeatOne(d)
    BY <1>7 DEF Ending
  <2>2. CASE Ended(d)
    BY <1>0, <2>2, EndStep DEF OtherActs
  <2>3. CASE RepeatOne(d)
    BY <2>3, PositionStep DEF Kept
  <2> QED BY <2>1, <2>2, <2>3
<1>8. CASE Failing
  <2>1. PICK d \in Decks : NetworkError(d) \/ DecodeError(d)
    BY <1>8 DEF Failing
  <2>2. CASE NetworkError(d)
    BY <2>2, NetworkStep DEF Kept
  <2>3. CASE DecodeError(d)
    BY <2>3, DecodeStep DEF Kept
  <2> QED BY <2>1, <2>2, <2>3
<1>9. CASE Retrying
  <2>1. PICK d \in Decks : RetryFires(d)
    BY <1>9 DEF Retrying
  <2> QED BY <1>0, <2>1, RetryStep DEF OtherActs, StrayRetry
<1>10. CASE UNCHANGED webVars
  <2>1. Alone /\ web' = web
    BY <1>10 DEF webVars, Alone
  <2> QED BY <2>1 DEF WebIInv, Shapes, Followed, FadesOff, Follows, VolumeUp, SongsLoaded, OneKept,
             SoundKept, OtherSilent, PausedSilent, ActiveSounds, Alone
<1> QED BY <1>1, <1>2, <1>3, <1>4, <1>5, <1>6, <1>7, <1>8, <1>9, <1>10 DEF WebNext

LEMMA WebInvariance == WebSpec => []WebIInv
BY WebStart, WebStep, PTL DEF WebSpec

\* Store changes, commits, events of the elements, errors and fades in any order: as long
\* as only the active deck sounds outside a transition and none once a pause is committed,
\* no step changes that but a retry for another deck than the one to be heard and a command
\* before the start of a transition is committed, which do so in the code (handlers of
\* web-player.tsx, effect of web-player-engine.tsx).
THEOREM OneDeckSounds == WebSpec => OnlyActive
<1>1. WebIInv /\ [WebNext]_webVars =>
        [OneSounds => OneSounds' \/ Overtaking \/ \E d \in Decks : StrayRetry(d)]_webVars
  <2> SUFFICES ASSUME WebIInv, [WebNext]_webVars, OneSounds
               PROVE  OneSounds' \/ Overtaking \/ \E d \in Decks : StrayRetry(d)
    OBVIOUS
  <2>1. WebIInv' /\ (OneKept \/ Overtaking \/ \E d \in Decks : StrayRetry(d))
    BY WebStep
  <2>2. OtherSilent /\ PausedSilent
    BY DEF OneSounds, OtherSilent, PausedSilent
  <2>3. ASSUME OtherSilent', PausedSilent'
        PROVE  OneSounds'
    BY <2>1, <2>3 DEF WebIInv, Followed, Follows, OneSounds, OtherSilent, PausedSilent
  <2> QED BY <2>1, <2>2, <2>3 DEF OneKept
<1> QED BY <1>1, WebInvariance, PTL DEF WebSpec, OnlyActive

\* No step makes a player that says it is playing silent while its active deck can play,
\* but the two that do so in the code: the inactive deck ends or is retried, or play is
\* pressed when the deck is silent and the pause not yet committed or still fading (the
\* playing prop, mediaAutoNext, the handlers after it and handleOnError).
THEOREM LoadedDeckSounds == WebSpec => PlaysWhenLoaded
<1>1. WebIInv /\ [WebNext]_webVars => [Sounding => Sounding' \/ OtherActs \/ LatePlay]_webVars
  <2> SUFFICES ASSUME WebIInv, [WebNext]_webVars, Sounding
               PROVE  Sounding' \/ OtherActs \/ LatePlay
    OBVIOUS
  <2>1. WebIInv' /\ (SoundKept \/ OtherActs \/ LatePlay)
    BY WebStep
  <2>2. ActiveSounds
    BY DEF Sounding, ActiveSounds
  <2>3. ASSUME ActiveSounds'
        PROVE  Sounding'
    BY <2>1, <2>3 DEF WebIInv, Followed, Follows, Sounding, ActiveSounds
  <2> QED BY <2>1, <2>2, <2>3 DEF SoundKept
<1> QED BY <1>1, WebInvariance, PTL DEF WebSpec, PlaysWhenLoaded

\* Without crossfade a fade that was cancelled leaves no deck quiet: when none runs the
\* active deck is at the user's volume (fadeAndSetStatus, setVolume).
THEOREM VolumeRestored == WebSpec => []FullVolume
<1>1. WebIInv => FullVolume
  BY DEF WebIInv, Shapes, StoreShape, Followed, VolumeUp, FullVolume
<1> QED BY <1>1, WebInvariance, PTL
=============================================================================
