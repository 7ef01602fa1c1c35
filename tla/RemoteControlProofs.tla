------------------------- MODULE RemoteControlProofs -------------------------
(***************************************************************************)
(* Proofs about RemoteControl, for any number of pages, sockets, songs and *)
(* inputs.  First, player and main process come to hold the same facts;    *)
(* for this what the pages do matters only through the commands they send, *)
(* whose contents may be anything.  Then, a page that has read what is on  *)
(* the way to it shows what the main process knows.                        *)
(***************************************************************************)
EXTENDS RemoteControl, SequenceTheorems, NaturalsInduction, WellFoundedInduction, TLAPS

Facts == {"status", "volume", "song"}

\* Message m decides fact f; the favourite, of song s, is decided by a report
\* of any song too.  "request" stands for a volume asked for by a page.
About(m, f, s) ==
    \/ f = "status" /\ m.event = "update-playback"
    \/ f = "volume" /\ m.event = "update-volume"
    \/ f = "song" /\ m.event = "update-song"
    \/ f = "fav" /\ (m.event = "update-song" \/ (m.event = "update-favorite" /\ m.data.song = s))
    \/ f = "request" /\ m.event = "request-volume"

\* The last message of mail about a fact is m.
Says(mail, f, s, m) ==
    \E i \in 1 .. Len(mail) :
        /\ mail[i] = m /\ About(m, f, s)
        /\ \A j \in 1 .. Len(mail) : j > i => ~About(mail[j], f, s)

Silent(mail, f, s) == \A i \in 1 .. Len(mail) : ~About(mail[i], f, s)

-----------------------------------------------------------------------------
(* Sequences of messages.                                                  *)
IsSeq(q) == \E S : q \in Seq(S)

LEMMA AppendFacts ==
    ASSUME NEW q, IsSeq(q), NEW m
    PROVE  /\ IsSeq(Append(q, m)) /\ Len(q) \in Nat /\ Len(Append(q, m)) = Len(q) + 1
           /\ Append(q, m)[Len(q) + 1] = m
           /\ \A i \in 1 .. Len(q) : Append(q, m)[i] = q[i]
<1>1. PICK S : q \in Seq(S)
  BY DEF IsSeq
<1>2. q \in Seq(S \union {m}) /\ m \in S \union {m}
  BY <1>1
<1>3. Append(q, m) \in Seq(S \union {m})
  BY <1>2
<1> QED BY <1>2, <1>3 DEF IsSeq

LEMMA TailFacts ==
    ASSUME NEW q, IsSeq(q), q # <<>>
    PROVE  /\ IsSeq(Tail(q)) /\ Len(q) \in Nat \ {0} /\ Len(Tail(q)) = Len(q) - 1
           /\ Head(q) = q[1]
           /\ \A i \in 1 .. Len(q) - 1 : Tail(q)[i] = q[i + 1]
<1>1. PICK S : q \in Seq(S)
  BY DEF IsSeq
<1>2. Tail(q) \in Seq(S)
  BY <1>1
<1> QED BY <1>1, <1>2 DEF IsSeq

\* A sequence without its i-th element: what is left stood in it, in one place each.
LEMMA RemoveFacts ==
    ASSUME NEW q, IsSeq(q), NEW i \in DOMAIN q
    PROVE  /\ IsSeq(RemoveAt(q, i)) /\ Len(q) \in Nat /\ i \in 1 .. Len(q)
           /\ Len(RemoveAt(q, i)) = Len(q) - 1
           /\ \A j \in 1 .. Len(q) - 1 :
                RemoveAt(q, i)[j] = IF j < i THEN q[j] ELSE q[j + 1]
<1>1. PICK S : q \in Seq(S)
  BY DEF IsSeq
<1>2. Len(q) \in Nat /\ DOMAIN q = 1 .. Len(q) /\ i \in 1 .. Len(q)
  BY <1>1
<1> DEFINE a == SubSeq(q, 1, i - 1)  b == SubSeq(q, i + 1, Len(q))
<1>3. a \in Seq(S) /\ Len(a) = i - 1 /\ \A j \in 1 .. i - 1 : a[j] = q[j]
  BY <1>1, <1>2
<1>4. b \in Seq(S) /\ Len(b) = Len(q) - i /\ \A j \in 1 .. Len(q) - i : b[j] = q[j + i]
  BY <1>1, <1>2
<1>5. RemoveAt(q, i) = a \o b
  BY DEF RemoveAt
<1> HIDE DEF a, b
<1>6. /\ a \o b \in Seq(S) /\ Len(a \o b) = Len(q) - 1
      /\ \A j \in 1 .. Len(q) - 1 : (a \o b)[j] = IF j <= Len(a) THEN a[j] ELSE b[j - Len(a)]
  <2>1. a \o b \in Seq(S) /\ Len(a \o b) = Len(a) + Len(b)
    BY <1>3, <1>4, ConcatProperties
  <2>2. \A j \in 1 .. Len(a) + Len(b) : (a \o b)[j] = IF j <= Len(a) THEN a[j] ELSE b[j - Len(a)]
    BY <1>3, <1>4
  <2>3. Len(a) + Len(b) = Len(q) - 1
    BY <1>2, <1>3, <1>4
  <2> QED BY <2>1, <2>2, <2>3
<1>7. ASSUME NEW j \in 1 .. Len(q) - 1
      PROVE  (a \o b)[j] = IF j < i THEN q[j] ELSE q[j + 1]
  <2>1. CASE j < i
    BY <1>2, <1>3, <1>6, <2>1
  <2>2. CASE ~(j < i)
    <3>1. (a \o b)[j] = b[j - (i - 1)] /\ j - (i - 1) \in 1 .. Len(q) - i
      BY <1>2, <1>3, <1>6, <2>2
    <3>2. b[j - (i - 1)] = q[(j - (i - 1)) + i] /\ (j - (i - 1)) + i = j + 1
      BY <1>2, <1>4, <3>1
    <3> QED BY <2>2, <3>1, <3>2
  <2> QED BY <2>1, <2>2
<1> QED BY <1>2, <1>5, <1>6, <1>7 DEF IsSeq

\* The message appended is the last word, if it is about the fact at all.
LEMMA SaysAppend ==
    ASSUME NEW q, IsSeq(q), NEW m, NEW f, NEW s, NEW x
    PROVE  /\ Says(Append(q, m), f, s, x) <=> IF About(m, f, s) THEN x = m ELSE Says(q, f, s, x)
           /\ Silent(Append(q, m), f, s) <=> Silent(q, f, s) /\ ~About(m, f, s)
<1> DEFINE r == Append(q, m)
<1>1. /\ Len(q) \in Nat /\ Len(r) = Len(q) + 1 /\ r[Len(q) + 1] = m
      /\ \A i \in 1 .. Len(q) : r[i] = q[i]
  BY AppendFacts
<1> HIDE DEF r
<1>2. Silent(r, f, s) <=> Silent(q, f, s) /\ ~About(m, f, s)
  BY <1>1 DEF Silent
<1>3. ASSUME Says(r, f, s, x)
      PROVE  IF About(m, f, s) THEN x = m ELSE Says(q, f, s, x)
  BY <1>1, <1>3 DEF Says
<1>4. ASSUME IF About(m, f, s) THEN x = m ELSE Says(q, f, s, x)
      PROVE  Says(r, f, s, x)
  <2>1. CASE About(m, f, s)
    BY <1>1, <1>4, <2>1 DEF Says
  <2>2. CASE ~About(m, f, s)
    <3>1. PICK i \in 1 .. Len(q) : /\ q[i] = x /\ About(x, f, s)
                                   /\ \A j \in 1 .. Len(q) : j > i => ~About(q[j], f, s)
      BY <1>4, <2>2 DEF Says
    <3>2. i \in 1 .. Len(r) /\ r[i] = x
      BY <1>1, <3>1
    <3>3. ASSUME NEW j \in 1 .. Len(r), j > i PROVE ~About(r[j], f, s)
      BY <1>1, <2>2, <3>1, <3>3
    <3> QED BY <3>1, <3>2, <3>3 DEF Says
  <2> QED BY <2>1, <2>2
<1> QED BY <1>2, <1>3, <1>4 DEF r

\* The first message is the last word only when nothing after it is about the fact.
LEMMA SaysTail ==
    ASSUME NEW q, IsSeq(q), q # <<>>, NEW f, NEW s, NEW x
    PROVE  /\ Says(Tail(q), f, s, x) => Says(q, f, s, x)
           /\ Says(q, f, s, x) => Says(Tail(q), f, s, x) \/ (x = Head(q) /\ About(x, f, s))
           /\ Silent(Tail(q), f, s) => IF About(Head(q), f, s) THEN Says(q, f, s, Head(q))
                                       ELSE Silent(q, f, s)
<1> DEFINE r == Tail(q)
<1>1. /\ Len(q) \in Nat \ {0} /\ Len(r) = Len(q) - 1 /\ Head(q) = q[1]
      /\ \A i \in 1 .. Len(q) - 1 : r[i] = q[i + 1]
  BY TailFacts
<1> HIDE DEF r
<1>2. \A i \in 1 .. Len(q) : i = 1 \/ (i - 1 \in 1 .. Len(r) /\ q[i] = r[i - 1])
  <2> TAKE i \in 1 .. Len(q)
  <2>1. CASE i # 1
    <3>1. i - 1 \in 1 .. Len(q) - 1 /\ (i - 1) + 1 = i
      BY <1>1, <2>1
    <3> QED BY <1>1, <3>1
  <2> QED BY <2>1
<1>3. ASSUME Says(r, f, s, x) PROVE Says(q, f, s, x)
  <2>1. PICK i \in 1 .. Len(r) : /\ r[i] = x /\ About(x, f, s)
                                 /\ \A j \in 1 .. Len(r) : j > i => ~About(r[j], f, s)
    BY <1>3 DEF Says
  <2>2. i + 1 \in 1 .. Len(q) /\ q[i + 1] = x
    BY <1>1, <2>1
  <2>3. ASSUME NEW j \in 1 .. Len(q), j > i + 1 PROVE ~About(q[j], f, s)
    BY <1>1, <1>2, <2>1, <2>3
  <2> QED BY <2>1, <2>2, <2>3 DEF Says
<1>4. ASSUME Says(q, f, s, x) PROVE Says(r, f, s, x) \/ (x = Head(q) /\ About(x, f, s))
  <2>1. PICK i \in 1 .. Len(q) : /\ q[i] = x /\ About(x, f, s)
                                 /\ \A j \in 1 .. Len(q) : j > i => ~About(q[j], f, s)
    BY <1>4 DEF Says
  <2>2. CASE i = 1
    BY <1>1, <2>1, <2>2
  <2>3. CASE i # 1
    <3>1. i - 1 \in 1 .. Len(r) /\ r[i - 1] = x
      BY <1>2, <2>1, <2>3
    <3>2. ASSUME NEW j \in 1 .. Len(r), j > i - 1 PROVE ~About(r[j], f, s)
      <4>1. j \in 1 .. Len(q) - 1 /\ j + 1 \in 1 .. Len(q) /\ j + 1 > i
        BY <1>1, <3>2
      <4> QED BY <1>1, <2>1, <4>1
    <3> QED BY <2>1, <3>1, <3>2 DEF Says
  <2> QED BY <2>2, <2>3
<1>5. ASSUME Silent(r, f, s), About(Head(q), f, s) PROVE Says(q, f, s, Head(q))
  <2>1. 1 \in 1 .. Len(q) /\ q[1] = Head(q)
    BY <1>1
  <2>2. ASSUME NEW j \in 1 .. Len(q), j > 1 PROVE ~About(q[j], f, s)
    BY <1>2, <1>5, <2>2 DEF Silent
  <2> QED BY <1>5, <2>1, <2>2 DEF Says
<1>6. ASSUME Silent(r, f, s), ~About(Head(q), f, s) PROVE Silent(q, f, s)
  BY <1>1, <1>2, <1>6 DEF Silent
<1> QED BY <1>3, <1>4, <1>5, <1>6 DEF r

-----------------------------------------------------------------------------
(* The inductive invariant.                                                *)
Requested(v) == \E m : Says(toPlayer, "request", NoSong, m) /\ m.data.volume = v

\* The last report of a fact on the way to the main process is the player's
\* value; when there is none the main process has it, or has a volume that
\* the last request on the way to the player asks for.
Agrees(f) ==
    f \notin unsaid =>
        /\ \A m : Says(toMain, f, NoSong, m) => m.data[f] = player[f]
        /\ Silent(toMain, f, NoSong) =>
             \/ currentState[f] = player[f]
             \/ f = "volume" /\ Requested(currentState.volume)

FavouriteAgrees ==
    ("song" \notin unsaid /\ player.song \in Songs \ doubtful) =>
        /\ \A m : Says(toMain, "fav", player.song, m) => m.data.fav = player.fav[player.song]
        /\ Silent(toMain, "fav", player.song) => currentState.fav = player.fav[player.song]

\* Of a song that never had two requests at once, the unanswered one is what
\* the player shows.
MarksCurrent ==
    /\ IsSeq(marks)
    /\ \A i \in 1 .. Len(marks) :
         marks[i].song \in Songs \ doubtful => player.fav[marks[i].song] = marks[i].fav
    /\ \A i, j \in 1 .. Len(marks) :
         i # j /\ marks[i].song = marks[j].song => marks[i].song \in doubtful
    /\ \A i \in 1 .. Len(marks) : reporting \/ marks[i].song \in doubtful

Records ==
    /\ DOMAIN player = {"song", "fav", "status", "volume"} /\ DOMAIN player.fav = Songs
    /\ DOMAIN currentState = {"song", "fav", "status", "volume"}

Switching == {"settings on", "settings off", "enable", "disable"}

Reported == {"update-playback", "update-volume", "update-song", "update-favorite"} \union Switching

Mail == IsSeq(toMain) /\ \A i \in 1 .. Len(toMain) : toMain[i].event \in Reported

Asked == {"request-volume", "request-favorite", "play", "pause", "next"}

Requests == IsSeq(toPlayer) /\ \A i \in 1 .. Len(toPlayer) : toPlayer[i].event \in Asked

AgreeInv == Records /\ Mail /\ (\A f \in Facts : Agrees(f)) /\ FavouriteAgrees /\ MarksCurrent

RemoteIInv == AgreeInv /\ Requests

-----------------------------------------------------------------------------
(* The reports of the player.                                              *)

\* No request is lost, but one whose volume the player takes over.
RequestsKept == \A m : Says(toPlayer, "request", NoSong, m) => Says(toPlayer', "request", NoSong, m)

LEMMA MailAppend ==
    ASSUME Mail, NEW m, m.event \in Reported, toMain' = Append(toMain, m)
    PROVE  Mail'
<1>1. /\ IsSeq(toMain') /\ Len(toMain) \in Nat /\ Len(toMain') = Len(toMain) + 1
      /\ toMain'[Len(toMain) + 1] = m
      /\ \A i \in 1 .. Len(toMain) : toMain'[i] = toMain[i]
  BY AppendFacts DEF Mail
<1>2. ASSUME NEW i \in 1 .. Len(toMain') PROVE toMain'[i].event \in Reported
  <2>1. i \in 1 .. Len(toMain) \/ i = Len(toMain) + 1
    BY <1>1
  <2> QED BY <1>1, <2>1 DEF Mail
<1> QED BY <1>1, <1>2 DEF Mail

\* A report of fact f leaves no doubt about it.
LEMMA ReportedFact ==
    ASSUME IsSeq(toMain), NEW f \in Facts, NEW m, About(m, f, NoSong), m.data[f] = player[f]',
           toMain' = Append(toMain, m)
    PROVE  Agrees(f)'
<1>1. ~Silent(toMain', f, NoSong) /\ \A x : Says(toMain', f, NoSong, x) => x = m
  BY SaysAppend
<1> QED BY <1>1 DEF Agrees

\* A report of something else changes nothing about fact f.
LEMMA OtherFact ==
    ASSUME IsSeq(toMain), NEW f \in Facts, NEW m, ~About(m, f, NoSong), Agrees(f),
           player[f]' = player[f], currentState' = currentState,
           f \notin unsaid' => f \notin unsaid, RequestsKept,
           toMain' = Append(toMain, m)
    PROVE  Agrees(f)'
<1>1. /\ Silent(toMain', f, NoSong) => Silent(toMain, f, NoSong)
      /\ \A x : Says(toMain', f, NoSong, x) => Says(toMain, f, NoSong, x)
  BY SaysAppend
<1>2. Requested(currentState.volume) => Requested(currentState.volume)'
  BY DEF Requested, RequestsKept
<1> QED BY <1>1, <1>2 DEF Agrees

\* No report at all.
LEMMA SameFact ==
    ASSUME NEW f \in Facts, Agrees(f), player[f]' = player[f],
           currentState[f]' = currentState[f], currentState.volume' = currentState.volume,
           unsaid' = unsaid, RequestsKept, toMain' = toMain
    PROVE  Agrees(f)'
<1>1. Requested(currentState.volume) => Requested(currentState.volume)'
  BY DEF Requested, RequestsKept
<1> QED BY <1>1 DEF Agrees

\* Nothing is reported: what changes is counted among the unsaid facts, or the
\* doubtful songs.
LEMMA Unreported ==
    ASSUME AgreeInv, toMain' = toMain, currentState' = currentState,
           unsaid \subseteq unsaid', doubtful \subseteq doubtful', Records', MarksCurrent',
           \A g \in Facts \ unsaid' : player[g]' = player[g],
           "song" \notin unsaid' /\ player.song \in Songs \ doubtful' =>
                player.fav'[player.song] = player.fav[player.song],
           "volume" \notin unsaid' => RequestsKept
    PROVE  AgreeInv'
<1>1. Mail'
  BY DEF AgreeInv, Mail
<1>2. FavouriteAgrees'
  <2>1. "song" \notin unsaid' => player.song' = player.song
    BY DEF Facts
  <2> QED BY <2>1 DEF AgreeInv, FavouriteAgrees
<1>3. ASSUME NEW f \in Facts, f \notin unsaid' PROVE Agrees(f)'
  <2>1. Agrees(f) /\ f \notin unsaid /\ player[f]' = player[f]
    BY <1>3 DEF AgreeInv
  <2>2. f = "volume" /\ Requested(currentState.volume) => Requested(currentState.volume)'
    BY <1>3 DEF Requested, RequestsKept
  <2> QED BY <2>1, <2>2 DEF Agrees
<1>4. \A f \in Facts : Agrees(f)'
  BY <1>3 DEF Agrees
<1> QED BY <1>1, <1>2, <1>4 DEF AgreeInv

LEMMA ChangedStep ==
    ASSUME AgreeInv, reporting' = reporting, NEW field, NEW v, NEW event, Changed(field, v, event),
           <<field, event>> \in {<<"status", "update-playback">>, <<"volume", "update-volume">>},
           currentState' = currentState,
           \A m : Says(toPlayer, "request", NoSong, m) =>
                     \/ Says(toPlayer', "request", NoSong, m)
                     \/ field = "volume" /\ m.data.volume = v
    PROVE  AgreeInv'
<1> DEFINE m == Msg(event, [Empty EXCEPT ![field] = v])
<1>1. /\ field \in {"status", "volume"} /\ event \in Reported
      /\ (field = "status" => event = "update-playback")
      /\ (field = "volume" => event = "update-volume")
  BY DEF Reported
<1>2. /\ player' = [player EXCEPT ![field] = v] /\ player[field]' = v
      /\ Records' /\ player.song' = player.song /\ player.fav' = player.fav
      /\ \A f \in Facts \ {field} : player[f]' = player[f]
  BY <1>1 DEF Changed, AgreeInv, Records, Facts
<1>3. marks' = marks /\ doubtful' = doubtful /\ MarksCurrent'
  BY <1>2 DEF Changed, AgreeInv, MarksCurrent
<1>4. IsSeq(toMain) /\ Mail /\ FavouriteAgrees /\ \A f \in Facts : Agrees(f)
  BY DEF AgreeInv, Mail
<1>5. CASE v = player[field]
  <2>1. toMain' = toMain /\ unsaid' = unsaid
    BY <1>5 DEF Changed
  <2>2. Mail' /\ FavouriteAgrees'
    BY <1>2, <1>3, <1>4, <2>1 DEF Mail, FavouriteAgrees
  <2>3. ASSUME NEW f \in Facts PROVE Agrees(f)'
    <3>1. player[f]' = player[f]
      BY <1>2, <1>5
    <3>2. CASE field = "volume" /\ f = "volume"
      BY <1>4, <1>5, <2>1, <3>1, <3>2 DEF Agrees, Requested
    <3>3. CASE field # "volume" \/ f # "volume"
      BY <1>4, <1>5, <2>1, <3>1, <3>3 DEF Agrees, Requested
    <3> QED BY <3>2, <3>3
  <2> QED BY <1>2, <1>3, <2>2, <2>3 DEF AgreeInv
<1>6. CASE v # player[field] /\ ~reporting
  <2>1. toMain' = toMain /\ unsaid' = unsaid \union {field}
    BY <1>6 DEF Changed, Report
  <2>2. "volume" \notin unsaid' => RequestsKept
    BY <1>1, <2>1 DEF RequestsKept
  <2> QED BY <1>2, <1>3, <2>1, <2>2, Unreported
<1>7. CASE v # player[field] /\ reporting
  <2>1. /\ toMain' = Append(toMain, m) /\ unsaid' = unsaid \ {field}
        /\ m.event = event /\ m.data[field] = v
    BY <1>1, <1>7 DEF Changed, Report, Msg, Empty
  <2> HIDE DEF m
  <2>2. Mail'
    BY <1>1, <1>4, <2>1, MailAppend
  <2>3. ~About(m, "fav", player.song)
    BY <1>1, <2>1 DEF About
  <2>4. FavouriteAgrees'
    <3>1. \A x : /\ Says(toMain', "fav", player.song, x) => Says(toMain, "fav", player.song, x)
                 /\ Silent(toMain', "fav", player.song) => Silent(toMain, "fav", player.song)
      BY <1>4, <2>1, <2>3, SaysAppend
    <3>2. "song" \in unsaid' <=> "song" \in unsaid
      BY <1>1, <2>1
    <3> QED BY <1>2, <1>3, <1>4, <3>1, <3>2 DEF FavouriteAgrees
  <2>5. ASSUME NEW f \in Facts PROVE Agrees(f)'
    <3>1. CASE f = field
      <4>1. About(m, f, NoSong)
        BY <1>1, <2>1, <3>1 DEF About
      <4> QED BY <1>2, <1>4, <2>1, <3>1, <4>1, ReportedFact
    <3>2. CASE f # field
      <4>1. ~About(m, f, NoSong)
        BY <1>1, <2>1, <3>2 DEF About, Facts
      <4>2. /\ \A x : Says(toMain', f, NoSong, x) => Says(toMain, f, NoSong, x)
            /\ Silent(toMain', f, NoSong) => Silent(toMain, f, NoSong)
        BY <1>4, <2>1, <4>1, SaysAppend
      <4>3. player[f]' = player[f] /\ (f \in unsaid' <=> f \in unsaid)
        BY <1>2, <2>1, <3>2
      <4>4. f = "volume" /\ Requested(currentState.volume) => Requested(currentState.volume)'
        BY <3>2 DEF Requested
      <4> QED BY <1>4, <4>2, <4>3, <4>4 DEF Agrees
    <3> QED BY <3>1, <3>2
  <2> QED BY <1>2, <1>3, <2>2, <2>4, <2>5 DEF AgreeInv
<1> QED BY <1>5, <1>6, <1>7

\* The song is reported, whether it has changed or not.
LEMMA SongReported ==
    ASSUME AgreeInv, Records', player.fav' = player.fav,
           \A g \in Facts \ {"song"} : player[g]' = player[g],
           toMain' = Append(toMain, SongMsg(player')), unsaid' = unsaid \ {"song"},
           UNCHANGED <<marks, doubtful, reporting, currentState>>, RequestsKept
    PROVE  AgreeInv'
<1> DEFINE m == SongMsg(player')  s == player.song'
<1>1. /\ player.song' = s /\ player.fav' = player.fav
      /\ Records' /\ player.status' = player.status /\ player.volume' = player.volume
  BY DEF Facts
<1>2. /\ toMain' = Append(toMain, m) /\ unsaid' = unsaid \ {"song"}
      /\ marks' = marks /\ doubtful' = doubtful
  OBVIOUS
<1>3. /\ m.event = "update-song" /\ m.data.song = s
      /\ s \in Songs => m.data.fav = player.fav'[s]
  BY <1>1, SongsAssumption DEF SongMsg, Msg, Empty
<1> HIDE DEF m, s
<1>4. IsSeq(toMain) /\ Mail /\ \A f \in Facts : Agrees(f)
  BY DEF AgreeInv, Mail
<1>5. Mail'
  BY <1>2, <1>3, <1>4, MailAppend DEF Reported
<1>6. MarksCurrent'
  BY <1>1, <1>2 DEF AgreeInv, MarksCurrent
<1>7. FavouriteAgrees'
  <2>1. About(m, "fav", s)
    BY <1>3 DEF About
  <2>2. ~Silent(toMain', "fav", s) /\ \A x : Says(toMain', "fav", s, x) => x = m
    BY <1>2, <1>4, <2>1, SaysAppend
  <2> QED BY <1>1, <1>3, <2>2 DEF FavouriteAgrees
<1>8. ASSUME NEW f \in Facts PROVE Agrees(f)'
  <2>1. CASE f = "song"
    BY <1>1, <1>2, <1>3, <1>4, <2>1, ReportedFact DEF About
  <2>2. CASE f # "song"
    <3>1. ~About(m, f, NoSong) /\ player[f]' = player[f] /\ (f \notin unsaid' => f \notin unsaid)
      BY <1>1, <1>2, <1>3, <2>2 DEF About, Facts
    <3> QED BY <1>2, <1>4, <3>1, OtherFact
  <2> QED BY <2>1, <2>2
<1> QED BY <1>1, <1>5, <1>6, <1>7, <1>8 DEF AgreeInv

LEMMA SongStep ==
    ASSUME AgreeInv, reporting' = reporting, NEW s, ChangeSong(s), currentState' = currentState,
           RequestsKept
    PROVE  AgreeInv'
<1>1. player' = [player EXCEPT !.song = s] /\ marks' = marks /\ doubtful' = doubtful
  BY DEF ChangeSong
<1>2. CASE reporting
  <2>1. toMain' = Append(toMain, SongMsg(player')) /\ unsaid' = unsaid \ {"song"}
    BY <1>2 DEF ChangeSong, Report
  <2>2. /\ Records' /\ player.fav' = player.fav
        /\ \A g \in Facts \ {"song"} : player[g]' = player[g]
    BY <1>1 DEF AgreeInv, Records, Facts
  <2> QED BY <1>1, <2>1, <2>2, SongReported
<1>3. CASE ~reporting
  <2>1. toMain' = toMain /\ unsaid' = unsaid \union {"song"}
    BY <1>3 DEF ChangeSong, Report
  <2>2. /\ Records' /\ MarksCurrent' /\ player.fav' = player.fav
        /\ \A g \in Facts \ {"song"} : player[g]' = player[g]
    BY <1>1 DEF AgreeInv, Records, MarksCurrent, Facts
  <2> QED BY <1>1, <2>1, <2>2, Unreported
<1> QED BY <1>2, <1>3

\* A favourite is reported: nothing else is in question.
LEMMA FavouriteReported ==
    ASSUME AgreeInv, NEW s, NEW f, toMain' = Append(toMain, FavoriteMsg(s, f)),
           s \in Songs \ doubtful' => player.fav[s]' = f,
           \A t \in Songs \ {s} : player.fav[t]' = player.fav[t],
           \A g \in Facts : player[g]' = player[g], Records', MarksCurrent',
           doubtful \subseteq doubtful', unsaid' = unsaid,
           currentState' = currentState, RequestsKept
    PROVE  AgreeInv'
<1> DEFINE m == FavoriteMsg(s, f)
<1>1. m.event = "update-favorite" /\ m.data.song = s /\ m.data.fav = f
  BY DEF FavoriteMsg, Msg, Empty
<1> HIDE DEF m
<1>2. IsSeq(toMain) /\ Mail /\ FavouriteAgrees /\ \A g \in Facts : Agrees(g)
  BY DEF AgreeInv, Mail
<1>3. toMain' = Append(toMain, m)
  BY DEF m
<1>4. Mail'
  BY <1>1, <1>2, <1>3, MailAppend DEF Reported
<1>5. ASSUME NEW g \in Facts PROVE Agrees(g)'
  <2>1. ~About(m, g, NoSong)
    BY <1>1 DEF About, Facts
  <2> QED BY <1>2, <1>3, <2>1, OtherFact
<1>6. FavouriteAgrees'
  <2> SUFFICES ASSUME "song" \notin unsaid, player.song \in Songs \ doubtful'
               PROVE  /\ \A x : Says(toMain', "fav", player.song, x) => x.data.fav = player.fav'[player.song]
                      /\ Silent(toMain', "fav", player.song) => currentState.fav = player.fav'[player.song]
    BY DEF FavouriteAgrees, Facts
  <2>1. /\ \A x : Says(toMain', "fav", player.song, x) <=>
                    IF About(m, "fav", player.song) THEN x = m ELSE Says(toMain, "fav", player.song, x)
        /\ Silent(toMain', "fav", player.song) <=>
                    Silent(toMain, "fav", player.song) /\ ~About(m, "fav", player.song)
    BY <1>2, <1>3, SaysAppend
  <2>2. CASE s = player.song
    BY <1>1, <2>1, <2>2 DEF About
  <2>3. CASE s # player.song
    <3>1. ~About(m, "fav", player.song)
      BY <1>1, <2>3 DEF About
    <3>2. player.fav'[player.song] = player.fav[player.song]
      BY <2>3
    <3> QED BY <1>2, <2>1, <3>1, <3>2 DEF FavouriteAgrees
  <2> QED BY <2>2, <2>3
<1> QED BY <1>4, <1>5, <1>6 DEF AgreeInv

LEMMA FavoriteStep ==
    ASSUME AgreeInv, reporting' = reporting, NEW s, NEW f, Favorite(s, f),
           currentState' = currentState, RequestsKept
    PROVE  AgreeInv'
<1>1. /\ player' = [player EXCEPT !.fav[s] = f] /\ unsaid' = unsaid
      /\ marks' = Append(marks, [song |-> s, fav |-> f])
      /\ doubtful' = IF ~reporting \/ \E i \in DOMAIN marks : marks[i].song = s
                     THEN doubtful \union {s} ELSE doubtful
  BY DEF Favorite, Report
<1>2. /\ Records' /\ player.fav' = [player.fav EXCEPT ![s] = f]
      /\ \A g \in Facts : player[g]' = player[g]
  BY <1>1 DEF AgreeInv, Records, Facts
<1>3. /\ s \in Songs => player.fav'[s] = f
      /\ \A t \in Songs \ {s} : player.fav'[t] = player.fav[t]
      /\ doubtful \subseteq doubtful'
  BY <1>1, <1>2 DEF AgreeInv, Records
<1>4. MarksCurrent'
  <2> DEFINE k == [song |-> s, fav |-> f]  n == Len(marks)
  <2>1. /\ IsSeq(marks') /\ n \in Nat /\ Len(marks') = n + 1 /\ marks'[n + 1] = k
        /\ \A i \in 1 .. n : marks'[i] = marks[i]
    BY <1>1, AppendFacts DEF AgreeInv, MarksCurrent
  <2>2. DOMAIN marks = 1 .. n
    BY DEF AgreeInv, MarksCurrent, IsSeq
  <2>3. k.song = s /\ k.fav = f
    OBVIOUS
  <2> HIDE DEF k, n
  <2>4. \A i \in 1 .. n + 1 : i \in 1 .. n \/ i = n + 1
    BY <2>1
  <2>5. \A i \in 1 .. n : marks[i].song = s => s \in doubtful'
    BY <1>1, <2>2
  <2>6. ASSUME NEW i \in 1 .. n + 1, marks'[i].song \in Songs \ doubtful'
        PROVE  player.fav'[marks'[i].song] = marks'[i].fav
    <3>1. CASE i = n + 1
      BY <1>3, <2>1, <2>3, <2>6, <3>1
    <3>2. CASE i \in 1 .. n
      <4>1. marks'[i] = marks[i] /\ marks[i].song # s /\ marks[i].song \in Songs \ doubtful
        BY <1>3, <2>1, <2>5, <2>6, <3>2
      <4>2. player.fav[marks[i].song] = marks[i].fav
        BY <3>2, <4>1 DEF AgreeInv, MarksCurrent, n
      <4> QED BY <1>3, <4>1, <4>2
    <3> QED BY <2>4, <3>1, <3>2
  <2>7. ASSUME NEW i \in 1 .. n + 1, NEW j \in 1 .. n + 1, i # j, marks'[i].song = marks'[j].song
        PROVE  marks'[i].song \in doubtful'
    <3>1. CASE i \in 1 .. n /\ j \in 1 .. n
      BY <1>3, <2>1, <2>7, <3>1 DEF AgreeInv, MarksCurrent, n
    <3>2. CASE i = n + 1 /\ j \in 1 .. n
      BY <2>1, <2>3, <2>5, <2>7, <3>2
    <3>3. CASE i \in 1 .. n /\ j = n + 1
      BY <2>1, <2>3, <2>5, <2>7, <3>3
    <3> QED BY <2>4, <2>7, <3>1, <3>2, <3>3
  <2>8. ASSUME NEW i \in 1 .. n + 1, ~reporting PROVE marks'[i].song \in doubtful'
    <3>1. CASE i = n + 1
      BY <1>1, <2>1, <2>3, <2>8, <3>1
    <3>2. CASE i \in 1 .. n
      BY <1>3, <2>1, <2>8, <3>2 DEF AgreeInv, MarksCurrent, n
    <3> QED BY <2>4, <3>1, <3>2
  <2> QED BY <2>1, <2>6, <2>7, <2>8 DEF MarksCurrent
<1>5. CASE reporting
  <2>1. toMain' = Append(toMain, FavoriteMsg(s, f))
    BY <1>5 DEF Favorite, Report
  <2> QED BY <1>1, <1>2, <1>3, <1>4, <2>1, FavouriteReported
<1>6. CASE ~reporting
  <2>1. toMain' = toMain /\ s \in doubtful'
    BY <1>1, <1>6 DEF Favorite, Report
  <2>2. player.song \in Songs \ doubtful' => player.fav'[player.song] = player.fav[player.song]
    BY <1>3, <2>1
  <2> QED BY <1>1, <1>2, <1>3, <1>4, <2>1, <2>2, Unreported
<1> QED BY <1>5, <1>6

LEMMA AnsweredStep ==
    ASSUME AgreeInv, reporting' = reporting, NEW i \in DOMAIN marks, NEW ok \in BOOLEAN,
           Answered(i, ok), currentState' = currentState, RequestsKept
    PROVE  AgreeInv'
<1> DEFINE s == marks[i].song
           f == IF ok THEN marks[i].fav ELSE Flip(marks[i].fav)
           n == Len(marks)
<1>1. /\ player' = IF ok THEN player ELSE [player EXCEPT !.fav[s] = f]
      /\ marks' = RemoveAt(marks, i)
      /\ doubtful' = doubtful /\ unsaid' = unsaid
      /\ toMain' = IF reporting THEN Append(toMain, FavoriteMsg(s, f)) ELSE toMain
  BY DEF Answered, Report
<1>2. /\ Records' /\ player.fav' = IF ok THEN player.fav ELSE [player.fav EXCEPT ![s] = f]
      /\ \A g \in Facts : player[g]' = player[g]
  BY <1>1 DEF AgreeInv, Records, Facts
<1>3. /\ IsSeq(marks') /\ n \in Nat /\ i \in 1 .. n /\ Len(marks') = n - 1
      /\ \A j \in 1 .. n - 1 : marks'[j] = IF j < i THEN marks[j] ELSE marks[j + 1]
  BY <1>1, RemoveFacts DEF AgreeInv, MarksCurrent
<1>4. /\ \A j \in 1 .. n : marks[j].song \in Songs \ doubtful => player.fav[marks[j].song] = marks[j].fav
      /\ \A j, k \in 1 .. n : j # k /\ marks[j].song = marks[k].song => marks[j].song \in doubtful
      /\ \A j \in 1 .. n : reporting \/ marks[j].song \in doubtful
  BY DEF AgreeInv, MarksCurrent
<1>5. s \in Songs \ doubtful => player.fav'[s] = f
  <2>1. CASE ok
    BY <1>2, <1>3, <1>4, <2>1
  <2>2. CASE ~ok
    BY <1>2, <2>2 DEF AgreeInv, Records
  <2> QED BY <2>1, <2>2
<1>6. \A t \in Songs \ {s} : player.fav'[t] = player.fav[t]
  BY <1>2 DEF AgreeInv, Records
<1> DEFINE at(j) == IF j < i THEN j ELSE j + 1
<1>7. \A j \in 1 .. n - 1 : at(j) \in 1 .. n /\ at(j) # i /\ marks'[j] = marks[at(j)]
  BY <1>3
<1>8. \A j, k \in 1 .. n - 1 : j # k => at(j) # at(k)
  BY <1>3
<1> HIDE DEF f, n, at
<1>9. MarksCurrent'
  <2>1. ASSUME NEW j \in 1 .. n - 1, marks'[j].song \in Songs \ doubtful
        PROVE  player.fav'[marks'[j].song] = marks'[j].fav
    <3>1. marks'[j] = marks[at(j)] /\ at(j) \in 1 .. n /\ at(j) # i
      BY <1>7
    <3>2. marks[at(j)].song # s
      BY <1>3, <1>4, <2>1, <3>1
    <3> QED BY <1>4, <1>6, <2>1, <3>1, <3>2
  <2>2. ASSUME NEW j \in 1 .. n - 1, NEW k \in 1 .. n - 1, j # k, marks'[j].song = marks'[k].song
        PROVE  marks'[j].song \in doubtful
    BY <1>4, <1>7, <1>8, <2>2
  <2>3. \A j \in 1 .. n - 1 : reporting \/ marks'[j].song \in doubtful
    BY <1>4, <1>7
  <2> QED BY <1>1, <1>3, <2>1, <2>2, <2>3 DEF MarksCurrent
<1>10. CASE reporting
  <2>1. toMain' = Append(toMain, FavoriteMsg(s, f))
    BY <1>1, <1>10
  <2> QED BY <1>1, <1>2, <1>5, <1>6, <1>9, <2>1, FavouriteReported
<1>11. CASE ~reporting
  <2>1. toMain' = toMain /\ s \in doubtful
    BY <1>1, <1>3, <1>4, <1>11
  <2>2. player.song \in Songs \ doubtful => player.fav'[player.song] = player.fav[player.song]
    BY <1>6, <2>1
  <2> QED BY <1>1, <1>2, <1>9, <2>1, <2>2, Unreported
<1> QED BY <1>10, <1>11

\* The last word of mail on a fact is the song of player p.
Introduces(mail, p, f, s) ==
    /\ ~Silent(mail, f, s)
    /\ \A x : Says(mail, f, s, x) => x.data.song = p.song /\ x.data.fav = p.fav[p.song]

\* What a renderer sends first settles what it does not count as unsaid.
LEMMA MountedFacts ==
    ASSUME NEW q, IsSeq(q), \A i \in 1 .. Len(q) : q[i].event \in Reported,
           NEW p, NEW r, r = Mounted(q, p)
    PROVE  /\ IsSeq(r) /\ \A i \in 1 .. Len(r) : r[i].event \in Reported
           /\ "song" \notin UnsaidAtStart(p) =>
                Introduces(r, p, "song", NoSong) /\ Introduces(r, p, "fav", p.song)
<1> DEFINE told == Append(q, Setup)  m == SongMsg(p)
<1>1. IsSeq(told) /\ \A i \in 1 .. Len(told) : told[i].event \in Reported
  <2>1. /\ IsSeq(told) /\ Len(q) \in Nat /\ Len(told) = Len(q) + 1
        /\ told[Len(q) + 1] = Setup /\ \A i \in 1 .. Len(q) : told[i] = q[i]
    BY AppendFacts
  <2>2. Setup.event \in Reported
    BY DEF Setup, Msg, Reported, Switching
  <2> HIDE DEF told
  <2>3. \A i \in 1 .. Len(told) : i \in 1 .. Len(q) \/ i = Len(q) + 1
    BY <2>1
  <2> QED BY <2>1, <2>2, <2>3
<1>2. CASE ~enabled \/ p.song = NoSong
  <2>1. r = told /\ "song" \in UnsaidAtStart(p)
    BY <1>2 DEF Mounted, UnsaidAtStart
  <2> HIDE DEF told
  <2> QED BY <1>1, <2>1
<1>3. CASE enabled /\ p.song # NoSong
  <2>1. r = Append(told, m)
    BY <1>3 DEF Mounted
  <2>2. m.event = "update-song" /\ m.data.song = p.song /\ m.data.fav = p.fav[p.song]
    BY <1>3 DEF SongMsg, Msg, Empty
  <2> HIDE DEF told, m
  <2>3. /\ IsSeq(r) /\ Len(told) \in Nat /\ Len(r) = Len(told) + 1
        /\ r[Len(told) + 1] = m /\ \A i \in 1 .. Len(told) : r[i] = told[i]
    BY <1>1, <2>1, AppendFacts
  <2>4. About(m, "song", NoSong) /\ About(m, "fav", p.song)
    BY <2>2 DEF About
  <2>5. \A f, s : About(m, f, s) => ~Silent(r, f, s) /\ \A x : Says(r, f, s, x) => x = m
    BY <1>1, <2>1, SaysAppend
  <2>6. \A i \in 1 .. Len(r) : i \in 1 .. Len(told) \/ i = Len(told) + 1
    BY <2>3
  <2>7. \A i \in 1 .. Len(r) : r[i].event \in Reported
    BY <1>1, <2>2, <2>3, <2>6 DEF Reported
  <2>8. Introduces(r, p, "song", NoSong) /\ Introduces(r, p, "fav", p.song)
    BY <2>2, <2>4, <2>5 DEF Introduces
  <2> QED BY <2>3, <2>7, <2>8
<1> QED BY <1>2, <1>3

LEMMA ReloadStep ==
    ASSUME RemoteIInv, RendererReload
    PROVE  RemoteIInv'
<1>1. PICK s \in {player.song, NoSong} : player' = [player EXCEPT !.status = "paused", !.song = s]
  BY DEF RendererReload
<1>2. /\ marks' = <<>> /\ toPlayer' = <<>> /\ currentState' = currentState /\ doubtful' = doubtful
      /\ toMain' = Mounted(toMain, player') /\ unsaid' = UnsaidAtStart(player')
  BY DEF RendererReload, MainVars
<1>3. Records'
  BY <1>1, <1>2 DEF RemoteIInv, AgreeInv, Records
<1>4. MarksCurrent' /\ Requests'
  <2>1. <<>> \in Seq({}) /\ Len(<<>>) = 0
    OBVIOUS
  <2> QED BY <1>2, <2>1 DEF MarksCurrent, Requests, IsSeq
<1> DEFINE p == player'  r == toMain'
<1>5. /\ IsSeq(r) /\ \A i \in 1 .. Len(r) : r[i].event \in Reported
      /\ "song" \notin unsaid' =>
            Introduces(r, p, "song", NoSong) /\ Introduces(r, p, "fav", p.song)
  <2>1. r = Mounted(toMain, p) /\ unsaid' = UnsaidAtStart(p)
    BY <1>2
  <2>2. IsSeq(toMain) /\ \A i \in 1 .. Len(toMain) : toMain[i].event \in Reported
    BY DEF RemoteIInv, AgreeInv, Mail
  <2> HIDE DEF p, r
  <2> QED BY <2>1, <2>2, MountedFacts
<1>6. {"status", "volume"} \subseteq unsaid'
  BY <1>2 DEF UnsaidAtStart
<1>7. Mail' /\ FavouriteAgrees'
  BY <1>5 DEF Mail, FavouriteAgrees, Introduces
<1>8. ASSUME NEW f \in Facts PROVE Agrees(f)'
  BY <1>5, <1>6 DEF Agrees, Facts, Introduces
<1> QED BY <1>3, <1>4, <1>7, <1>8 DEF RemoteIInv, AgreeInv

\* A message that reports nothing leaves everything as it is.
LEMMA SettingStep ==
    ASSUME RemoteIInv, SetRemoteEnabled
    PROVE  RemoteIInv'
<1>1. PICK on \in BOOLEAN : toMain' = Append(toMain, Msg(IF on THEN "enable" ELSE "disable", Empty))
  BY DEF SetRemoteEnabled
<1> DEFINE m == Msg(IF on THEN "enable" ELSE "disable", Empty)
<1>2. m.event \in Switching
  BY DEF Msg, Switching
<1>3. UNCHANGED <<player, marks, unsaid, doubtful, reporting, currentState, toPlayer>>
  BY DEF SetRemoteEnabled, Elsewhere, Settings, MainVars
<1> HIDE DEF m
<1>4. toMain' = Append(toMain, m)
  BY <1>1 DEF m
<1>5. Mail /\ IsSeq(toMain) /\ FavouriteAgrees /\ \A f \in Facts : Agrees(f)
  BY DEF RemoteIInv, AgreeInv, Mail
<1>6. \A f, s : ~About(m, f, s)
  BY <1>2 DEF About, Switching
<1>7. Mail'
  BY <1>2, <1>4, <1>5, MailAppend DEF Reported
<1>8. Records' /\ MarksCurrent' /\ Requests' /\ RequestsKept
  BY <1>3 DEF RemoteIInv, AgreeInv, Records, MarksCurrent, Requests, RequestsKept
<1>9. \A f \in Facts : Agrees(f)'
  BY <1>3, <1>4, <1>5, <1>6, <1>8, OtherFact
<1>10. FavouriteAgrees'
  <2>1. /\ Silent(toMain', "fav", player.song) => Silent(toMain, "fav", player.song)
        /\ \A x : Says(toMain', "fav", player.song, x) => Says(toMain, "fav", player.song, x)
    BY <1>4, <1>5, <1>6, SaysAppend
  <2> QED BY <1>3, <1>5, <2>1 DEF FavouriteAgrees
<1> QED BY <1>7, <1>8, <1>9, <1>10 DEF RemoteIInv, AgreeInv

-----------------------------------------------------------------------------
(* The main process takes the reports in.                                  *)
LEMMA MainStep ==
    ASSUME RemoteIInv, MainReceives
    PROVE  RemoteIInv'
<1> DEFINE h == Head(toMain)  d == Head(toMain).data
<1>1. /\ toMain # <<>> /\ toMain' = Tail(toMain)
      /\ player' = player /\ marks' = marks /\ toPlayer' = toPlayer
      /\ unsaid' = unsaid /\ doubtful' = doubtful /\ reporting' = reporting
  BY DEF MainReceives
<1>2. /\ IsSeq(toMain') /\ Len(toMain) \in Nat \ {0} /\ Len(toMain') = Len(toMain) - 1
      /\ h = toMain[1] /\ \A i \in 1 .. Len(toMain) - 1 : toMain'[i] = toMain[i + 1]
  BY <1>1, TailFacts DEF RemoteIInv, AgreeInv, Mail
<1>3. h.event \in Reported /\ Mail'
  BY <1>2 DEF RemoteIInv, AgreeInv, Mail
<1>4. ASSUME NEW f, NEW t
      PROVE  /\ \A x : Says(toMain', f, t, x) => Says(toMain, f, t, x)
             /\ Silent(toMain', f, t) => IF About(h, f, t) THEN Says(toMain, f, t, h)
                                         ELSE Silent(toMain, f, t)
  BY <1>1, SaysTail DEF RemoteIInv, AgreeInv, Mail
<1>5. /\ h.event = "update-playback" =>
            currentState' = [currentState EXCEPT !.status = d.status]
      /\ h.event = "update-volume" =>
            currentState' = [currentState EXCEPT !.volume = d.volume]
      /\ h.event = "update-song" =>
            currentState' = [currentState EXCEPT !.song = d.song, !.fav = d.fav]
      /\ h.event = "update-favorite" =>
            currentState' = IF currentState.song = d.song
                            THEN [currentState EXCEPT !.fav = d.fav] ELSE currentState
      /\ h.event \in Switching => currentState' = currentState
  BY DEF MainReceives, updatePlayback, updateVolume, updateSong, updateFavorite, Switching,
         enableServer, shutdownServer
<1> HIDE DEF h, d
<1>6. Records'
  BY <1>1, <1>3, <1>5 DEF RemoteIInv, AgreeInv, Records, Reported, Switching
<1>7. d = h.data
  BY DEF d, h
<1>8. ASSUME NEW f \in Facts PROVE Agrees(f)'
  <2>1. Agrees(f)
    BY DEF RemoteIInv, AgreeInv
  <2>2. currentState'[f] = IF About(h, f, NoSong) THEN h.data[f] ELSE currentState[f]
    BY <1>3, <1>5, <1>7 DEF RemoteIInv, AgreeInv, Records, Reported, Switching, About, Facts
  <2>3. Requested(currentState.volume)' <=> Requested(currentState'.volume)
    BY <1>1 DEF Requested
  <2> QED BY <1>1, <1>4, <2>1, <2>2, <2>3 DEF Agrees
<1>9. FavouriteAgrees'
  <2> SUFFICES ASSUME "song" \notin unsaid, player.song \in Songs \ doubtful
               PROVE  /\ \A x : Says(toMain', "fav", player.song, x) => x.data.fav = player.fav[player.song]
                      /\ Silent(toMain', "fav", player.song) => currentState'.fav = player.fav[player.song]
    BY <1>1 DEF FavouriteAgrees
  <2>1. /\ \A x : Says(toMain, "fav", player.song, x) => x.data.fav = player.fav[player.song]
        /\ Silent(toMain, "fav", player.song) => currentState.fav = player.fav[player.song]
    BY DEF RemoteIInv, AgreeInv, FavouriteAgrees
  <2>2. ASSUME Silent(toMain', "fav", player.song)
        PROVE  currentState'.fav = player.fav[player.song]
    <3>1. CASE h.event = "update-song"
      <4>1. About(h, "fav", player.song)
        BY <3>1 DEF About
      <4>2. h.data.fav = player.fav[player.song]
        BY <1>4, <2>1, <2>2, <4>1
      <4> QED BY <1>5, <1>7, <3>1, <4>2 DEF RemoteIInv, AgreeInv, Records
    <3>2. CASE h.event # "update-song"
      <4>1. ~About(h, "song", NoSong)
        BY <3>2 DEF About
      <4>2. Silent(toMain', "song", NoSong)
        BY <2>2 DEF Silent, About
      <4>3. currentState.song = player.song
        BY <1>4, <4>1, <4>2 DEF RemoteIInv, AgreeInv, Agrees, Facts
      <4>4. CASE h.event = "update-favorite" /\ d.song = player.song
        <5>1. About(h, "fav", player.song)
          BY <1>7, <4>4 DEF About
        <5>2. h.data.fav = player.fav[player.song]
          BY <1>4, <2>1, <2>2, <5>1
        <5> QED BY <1>5, <1>7, <4>3, <4>4, <5>2 DEF RemoteIInv, AgreeInv, Records
      <4>5. CASE ~(h.event = "update-favorite" /\ d.song = player.song)
        <5>1. ~About(h, "fav", player.song)
          BY <1>7, <3>2, <4>5 DEF About
        <5>2. currentState'.fav = currentState.fav
          BY <1>3, <1>5, <3>2, <4>3, <4>5 DEF RemoteIInv, AgreeInv, Records, Reported, Switching
        <5> QED BY <1>4, <2>1, <2>2, <5>1, <5>2
      <4> QED BY <4>4, <4>5
    <3> QED BY <3>1, <3>2
  <2> QED BY <1>4, <2>1, <2>2
<1>10. MarksCurrent' /\ Requests'
  BY <1>1 DEF RemoteIInv, AgreeInv, MarksCurrent, Requests
<1> QED BY <1>3, <1>6, <1>8, <1>9, <1>10 DEF RemoteIInv, AgreeInv

-----------------------------------------------------------------------------
(* The requests of the pages.                                              *)

\* What the invariant is about.
Concerned == <<player, marks, toMain, currentState, unsaid, doubtful, reporting>>

LEMMA SameStep ==
    ASSUME AgreeInv, UNCHANGED Concerned, RequestsKept
    PROVE  AgreeInv'
<1>1. \A f \in Facts : Agrees(f)'
  BY SameFact DEF AgreeInv, Concerned
<1>2. Records' /\ Mail' /\ FavouriteAgrees' /\ MarksCurrent'
  BY DEF AgreeInv, Concerned, Records, Mail, FavouriteAgrees, MarksCurrent
<1> QED BY <1>1, <1>2 DEF AgreeInv

LEMMA QuietStep ==
    ASSUME RemoteIInv, UNCHANGED Concerned, toPlayer' = toPlayer
    PROVE  RemoteIInv'
<1>1. RequestsKept /\ Requests'
  BY DEF RemoteIInv, RequestsKept, Requests
<1> QED BY <1>1, SameStep DEF RemoteIInv

LEMMA RequestAppend ==
    ASSUME Requests, NEW event \in Asked, NEW data, Request(event, data)
    PROVE  /\ Requests'
           /\ event # "request-volume" => RequestsKept
           /\ event = "request-volume" => Requested(data.volume)'
<1> DEFINE m == Msg(event, data)
<1>1. /\ IsSeq(toPlayer') /\ Len(toPlayer) \in Nat /\ Len(toPlayer') = Len(toPlayer) + 1
      /\ toPlayer'[Len(toPlayer) + 1] = m
      /\ \A i \in 1 .. Len(toPlayer) : toPlayer'[i] = toPlayer[i]
  BY AppendFacts DEF Requests, Request
<1>2. m.event = event /\ m.data = data /\ toPlayer' = Append(toPlayer, m)
  BY DEF Msg, Request
<1> HIDE DEF m
<1>3. \A i \in 1 .. Len(toPlayer') : i \in 1 .. Len(toPlayer) \/ i = Len(toPlayer) + 1
  BY <1>1
<1>4. Requests'
  BY <1>1, <1>2, <1>3 DEF Requests
<1>5. About(m, "request", NoSong) <=> event = "request-volume"
  BY <1>2 DEF About
<1>6. \A x : Says(toPlayer', "request", NoSong, x) <=>
               IF About(m, "request", NoSong) THEN x = m ELSE Says(toPlayer, "request", NoSong, x)
  BY <1>2, SaysAppend DEF Requests
<1>7. event # "request-volume" => RequestsKept
  BY <1>5, <1>6 DEF RequestsKept
<1>8. event = "request-volume" => Requested(data.volume)'
  <2>1. event = "request-volume" => Says(toPlayer', "request", NoSong, m)
    BY <1>5, <1>6
  <2> QED BY <1>2, <2>1 DEF Requested
<1> QED BY <1>4, <1>7, <1>8

LEMMA CommandStep ==
    ASSUME RemoteIInv, NEW s, NEW K, NEW m, Command(s, K, m),
           UNCHANGED <<player, marks, toMain, unsaid, doubtful, reporting>>
    PROVE  RemoteIInv'
<1>1. CASE m.event = "volume"
  <2>1. /\ currentState' = [currentState EXCEPT !.volume = m.data.volume]
        /\ Request("request-volume", m.data)
    BY <1>1 DEF Command
  <2>2. Requests' /\ Requested(m.data.volume)'
    BY <2>1, RequestAppend DEF RemoteIInv, Asked
  <2>3. /\ Records' /\ currentState'.volume = m.data.volume
        /\ currentState'.fav = currentState.fav
        /\ \A f \in Facts \ {"volume"} : currentState'[f] = currentState[f]
    BY <2>1 DEF RemoteIInv, AgreeInv, Records, Facts
  <2>4. Mail' /\ MarksCurrent' /\ FavouriteAgrees'
    BY <2>3 DEF RemoteIInv, AgreeInv, Mail, MarksCurrent, FavouriteAgrees
  <2>5. ASSUME NEW f \in Facts PROVE Agrees(f)'
    <3>1. Agrees(f)
      BY DEF RemoteIInv, AgreeInv
    <3>2. CASE f = "volume"
      <4>1. Requested(currentState.volume)'
        BY <2>2, <2>3 DEF Requested
      <4> QED BY <3>1, <3>2, <4>1 DEF Agrees
    <3>3. CASE f # "volume"
      BY <2>3, <3>1, <3>3 DEF Agrees
    <3> QED BY <3>2, <3>3
  <2> QED BY <2>2, <2>3, <2>4, <2>5 DEF RemoteIInv, AgreeInv
<1>2. CASE m.event = "favorite"
  <2>1. CASE m.data.song = currentState.song
    <3>1. Request("request-favorite", m.data) /\ UNCHANGED Concerned
      BY <1>2, <2>1 DEF Command, Concerned
    <3>2. Requests' /\ RequestsKept
      BY <3>1, RequestAppend DEF RemoteIInv, Asked
    <3> QED BY <3>1, <3>2, SameStep DEF RemoteIInv
  <2>2. CASE m.data.song # currentState.song
    <3>1. toPlayer' = toPlayer /\ UNCHANGED Concerned
      BY <1>2, <2>2 DEF Command, Concerned
    <3> QED BY <3>1, QuietStep
  <2> QED BY <2>1, <2>2
<1>3. CASE m.event \in {"play", "pause", "next"}
  <2>1. Request(m.event, Empty) /\ UNCHANGED Concerned
    BY <1>3 DEF Command, Concerned
  <2>2. Requests' /\ RequestsKept
    BY <1>3, <2>1, RequestAppend DEF RemoteIInv, Asked
  <2> QED BY <2>1, <2>2, SameStep DEF RemoteIInv
<1>4. CASE m.event \notin {"volume", "favorite", "play", "pause", "next"}
  <2>1. toPlayer' = toPlayer /\ UNCHANGED Concerned
    BY <1>4 DEF Command, Concerned
  <2> QED BY <2>1, QuietStep
<1> QED BY <1>1, <1>2, <1>3, <1>4

LEMMA SocketStep ==
    ASSUME RemoteIInv, NEW s \in Sockets, SocketReceives(s)
    PROVE  RemoteIInv'
<1> DEFINE m == Head(sock[s].up)
           K == [sock EXCEPT ![s].up = Tail(@)]
<1>1. UNCHANGED <<player, marks, toMain, unsaid, doubtful, reporting>>
  BY DEF SocketReceives, PlayerVars, Settings
<1>2. \/ UNCHANGED <<toPlayer, currentState>>
      \/ Command(s, K, m)
  BY DEF SocketReceives
<1>3. CASE UNCHANGED <<toPlayer, currentState>>
  BY <1>1, <1>3, QuietStep DEF Concerned
<1>4. CASE Command(s, K, m)
  <2> HIDE DEF K, m
  <2> QED BY <1>1, <1>4, CommandStep
<1> QED BY <1>2, <1>3, <1>4

\* The player takes the next request: what else is asked for stays.
LEMMA RequestTaken ==
    ASSUME Requests, toPlayer # <<>>, toPlayer' = Tail(toPlayer)
    PROVE  /\ Requests' /\ Head(toPlayer).event \in Asked
           /\ \A m : Says(toPlayer, "request", NoSong, m) =>
                        \/ Says(toPlayer', "request", NoSong, m)
                        \/ m = Head(toPlayer) /\ m.event = "request-volume"
<1>1. /\ IsSeq(toPlayer') /\ Len(toPlayer) \in Nat \ {0} /\ Len(toPlayer') = Len(toPlayer) - 1
      /\ Head(toPlayer) = toPlayer[1]
      /\ \A i \in 1 .. Len(toPlayer) - 1 : toPlayer'[i] = toPlayer[i + 1]
  BY TailFacts DEF Requests
<1>2. Requests' /\ Head(toPlayer).event \in Asked
  BY <1>1 DEF Requests
<1>3. \A m : Says(toPlayer, "request", NoSong, m) =>
               \/ Says(toPlayer', "request", NoSong, m)
               \/ m = Head(toPlayer) /\ About(m, "request", NoSong)
  BY SaysTail DEF Requests
<1>4. \A m : About(m, "request", NoSong) => m.event = "request-volume"
  BY DEF About
<1> QED BY <1>2, <1>3, <1>4

LEMMA PlayerStep ==
    ASSUME RemoteIInv, PlayerReceives
    PROVE  RemoteIInv'
<1> DEFINE h == Head(toPlayer)
<1>1. /\ toPlayer # <<>> /\ toPlayer' = Tail(toPlayer)
      /\ currentState' = currentState /\ reporting' = reporting
  BY DEF PlayerReceives, MainVars, Settings
<1>2. /\ Requests' /\ h.event \in Asked
      /\ \A m : Says(toPlayer, "request", NoSong, m) =>
                   \/ Says(toPlayer', "request", NoSong, m)
                   \/ m = h /\ m.event = "request-volume"
  BY <1>1, RequestTaken DEF RemoteIInv
<1>3. h.event # "request-volume" => RequestsKept
  BY <1>2 DEF RequestsKept
<1>4. /\ h.event = "request-volume" => setVolume(h.data.volume) \/ Unheard({"volume"})
      /\ h.event = "request-favorite" => Favorite(h.data.song, h.data.fav) \/ Unheard({})
      /\ h.event = "play" => setStatus("playing")
      /\ h.event = "pause" => setStatus("paused")
      /\ h.event = "next" => \/ \E s \in Songs : ChangeSong(s)
                             \/ Unheard({})
  BY DEF PlayerReceives
<1> HIDE DEF h
<1>5. AgreeInv
  BY DEF RemoteIInv
<1>6. ASSUME NEW facts, Unheard(facts), h.event = "request-volume" => "volume" \in facts
      PROVE  AgreeInv'
  <2>1. UNCHANGED <<player, toMain, marks, doubtful>> /\ unsaid' = unsaid \union facts
    BY <1>6 DEF Unheard
  <2>2. Records' /\ MarksCurrent'
    BY <1>1, <1>5, <2>1 DEF AgreeInv, Records, MarksCurrent
  <2> QED BY <1>1, <1>3, <1>5, <1>6, <2>1, <2>2, Unreported
<1>7. CASE h.event = "request-volume"
  <2>1. CASE setVolume(h.data.volume)
    <3>1. Changed("volume", h.data.volume, "update-volume")
      BY <2>1 DEF setVolume
    <3> QED BY <1>1, <1>2, <1>5, <3>1, ChangedStep DEF RemoteIInv
  <2>2. CASE Unheard({"volume"})
    BY <1>2, <1>6, <2>2 DEF RemoteIInv
  <2> QED BY <1>4, <1>7, <2>1, <2>2
<1>8. CASE h.event \in {"play", "pause"}
  <2>1. PICK v : Changed("status", v, "update-playback")
    BY <1>4, <1>8 DEF setStatus
  <2> QED BY <1>1, <1>2, <1>3, <1>5, <1>8, <2>1, ChangedStep DEF RemoteIInv, RequestsKept
<1>9. CASE h.event = "request-favorite"
  BY <1>1, <1>2, <1>3, <1>4, <1>5, <1>6, <1>9, FavoriteStep DEF RemoteIInv
<1>10. CASE h.event = "next"
  BY <1>1, <1>2, <1>3, <1>4, <1>5, <1>6, <1>10, SongStep DEF RemoteIInv
<1> QED BY <1>2, <1>7, <1>8, <1>9, <1>10 DEF Asked

LEMMA UserStep ==
    ASSUME RemoteIInv, UserAtPlayer \/ Response
    PROVE  RemoteIInv'
<1>1. currentState' = currentState /\ toPlayer' = toPlayer /\ reporting' = reporting
  BY DEF UserAtPlayer, Response, Elsewhere, MainVars, Settings
<1>2. RequestsKept /\ Requests' /\ AgreeInv
  BY <1>1 DEF RequestsKept, RemoteIInv, Requests
<1>3. \/ \E v : Changed("status", v, "update-playback")
      \/ \E v : Changed("volume", v, "update-volume")
      \/ \E s : ChangeSong(s)
      \/ \E s, f : Favorite(s, f)
      \/ \E i \in DOMAIN marks : \E ok \in BOOLEAN : Answered(i, ok)
  BY DEF UserAtPlayer, Response, setStatus, setVolume
<1>4. AgreeInv'
  <2>1. ASSUME NEW v, Changed("status", v, "update-playback") PROVE AgreeInv'
    BY <1>1, <1>2, <2>1, ChangedStep DEF RequestsKept
  <2>2. ASSUME NEW v, Changed("volume", v, "update-volume") PROVE AgreeInv'
    BY <1>1, <1>2, <2>2, ChangedStep DEF RequestsKept
  <2> QED BY <1>1, <1>2, <1>3, <2>1, <2>2, SongStep, FavoriteStep, AnsweredStep
<1> QED BY <1>2, <1>4 DEF RemoteIInv

-----------------------------------------------------------------------------
\* The setting is answered: the song may be reported, nothing else.
LEMMA SwitchedStep ==
    ASSUME RemoteIInv, RemoteSwitched
    PROVE  RemoteIInv'
<1>1. UNCHANGED <<player, marks, doubtful, reporting, toPlayer, currentState>>
  BY DEF RemoteSwitched, MainVars
<1>2. Requests' /\ RequestsKept /\ AgreeInv
  BY <1>1 DEF RemoteIInv, Requests, RequestsKept
<1>3. CASE UNCHANGED <<toMain, unsaid>>
  BY <1>1, <1>3, QuietStep DEF Concerned
<1>4. CASE toMain' = Append(toMain, SongMsg(player)) /\ unsaid' = unsaid \ {"song"}
  <2>1. Records' /\ player' = player
    BY <1>1, <1>2 DEF AgreeInv, Records
  <2>2. AgreeInv'
    BY <1>1, <1>2, <1>4, <2>1, SongReported
  <2> QED BY <1>2, <2>2 DEF RemoteIInv
<1> QED BY <1>3, <1>4 DEF RemoteSwitched

-----------------------------------------------------------------------------
LEMMA RemoteInitial == RemoteInit => RemoteIInv
<1> SUFFICES ASSUME RemoteInit PROVE RemoteIInv
  OBVIOUS
<1>1. PICK s \in Songs :
        player = [song |-> s, fav |-> [t \in Songs |-> "off"], status |-> "paused",
                  volume |-> CHOOSE v \in Volumes : TRUE]
  BY DEF RemoteInit
<1>2. /\ toMain = Mounted(<<>>, player) /\ unsaid = UnsaidAtStart(player)
      /\ marks = <<>> /\ toPlayer = <<>> /\ currentState = Empty /\ doubtful = {}
  BY DEF RemoteInit
<1>3. IsSeq(<<>>) /\ Len(<<>>) = 0
  <2>1. <<>> \in Seq({}) /\ Len(<<>>) = 0
    OBVIOUS
  <2> QED BY <2>1 DEF IsSeq
<1>4. Records
  BY <1>1, <1>2 DEF Records, Empty
<1>5. /\ IsSeq(toMain) /\ \A i \in 1 .. Len(toMain) : toMain[i].event \in Reported
      /\ "song" \notin unsaid =>
            Introduces(toMain, player, "song", NoSong) /\ Introduces(toMain, player, "fav", player.song)
  BY <1>2, <1>3, <1>4, MountedFacts
<1>6. MarksCurrent /\ Requests
  BY <1>2, <1>3 DEF MarksCurrent, Requests
<1>7. {"status", "volume"} \subseteq unsaid
  BY <1>2 DEF UnsaidAtStart
<1>8. Mail /\ FavouriteAgrees
  BY <1>5 DEF Mail, FavouriteAgrees, Introduces
<1>9. ASSUME NEW f \in Facts PROVE Agrees(f)
  BY <1>5, <1>7 DEF Agrees, Facts, Introduces
<1> QED BY <1>4, <1>6, <1>8, <1>9 DEF RemoteIInv, AgreeInv

LEMMA RemoteStep == RemoteIInv /\ [RemoteNext]_vars => RemoteIInv'
<1> SUFFICES ASSUME RemoteIInv, [RemoteNext]_vars PROVE RemoteIInv'
  OBVIOUS
<1>1. CASE UNCHANGED vars
  BY <1>1, QuietStep DEF vars, Concerned
<1>2. CASE UserAtPlayer \/ Response
  BY <1>2, UserStep
<1>3. CASE PlayerReceives
  BY <1>3, PlayerStep
<1>4. CASE MainReceives
  BY <1>4, MainStep
<1>5. CASE RendererReload
  BY <1>5, ReloadStep
<1>6. ASSUME NEW s \in Sockets, SocketReceives(s) PROVE RemoteIInv'
  BY <1>6, SocketStep
<1>7. ASSUME NEW s \in Sockets, Connect(s) PROVE RemoteIInv'
  BY <1>7, QuietStep DEF Connect, PlayerVars, Settings, Concerned
<1>8. ASSUME NEW s \in Sockets, Refused(s) \/ Lost(s) PROVE RemoteIInv'
  BY <1>8, QuietStep DEF Refused, Lost, Gone, PageOnly, PlayerVars, Settings, MainVars, Concerned
<1>9. ASSUME NEW s \in Sockets, PageReceives(s) PROVE RemoteIInv'
  <2>1. PageOnly
    BY <1>9 DEF PageReceives
  <2> QED BY <2>1, QuietStep DEF PageOnly, PlayerVars, Settings, MainVars, Concerned
<1>10. ASSUME NEW s \in Sockets, AuthTimeout(s) \/ Pong(s) PROVE RemoteIInv'
  BY <1>10, QuietStep DEF AuthTimeout, Pong, PlayerVars, Settings, MainVars, Concerned
<1>11. CASE RemotePassword \/ heartBeat
  BY <1>11, QuietStep DEF RemotePassword, heartBeat, PlayerVars, Settings, Concerned
<1>12. ASSUME NEW c \in Clients, NewSocket(c) \/ Reconnect(c) \/ PageReload(c) \/ UserAtRemote(c)
       PROVE  RemoteIInv'
  <2>1. PageOnly
    BY <1>12 DEF NewSocket, Reconnect, PageReload, UserAtRemote
  <2> QED BY <2>1, QuietStep DEF PageOnly, PlayerVars, Settings, MainVars, Concerned
<1>13. CASE SetRemoteEnabled \/ RemoteSwitched
  BY <1>13, SettingStep, SwitchedStep
<1> QED BY <1>1, <1>2, <1>3, <1>4, <1>5, <1>6, <1>7, <1>8, <1>9, <1>10, <1>11, <1>12, <1>13
       DEF RemoteNext, Working

(***************************************************************************)
(* Whenever nothing is under way between the player (use-remote.tsx) and   *)
(* the main process (remote/index.ts), both hold the same status, volume,  *)
(* song and favourite, whoever changed them and in whatever order the      *)
(* reports and requests crossed.  Excepted are the facts the player has    *)
(* not reported: status and volume until they change after a start, what   *)
(* changes in a renderer loaded with the remote off, whose handlers never  *)
(* report, and a volume asked for while the remote was off; and favourites *)
(* set twice at once or by a player that does not report.                  *)
(***************************************************************************)
THEOREM BothEndsAgree == RemoteSpec => []PlayerAgrees
<1>1. RemoteIInv => PlayerAgrees
  <2> SUFFICES ASSUME RemoteIInv, toMain = <<>>, toPlayer = <<>>
               PROVE  /\ \A f \in Facts \ unsaid : currentState[f] = player[f]
                      /\ ("song" \notin unsaid /\ player.song \in Songs \ doubtful)
                            => currentState.fav = player.fav[player.song]
    BY DEF PlayerAgrees, Facts
  <2>1. \A f, s : Silent(toMain, f, s)
    BY DEF Silent
  <2>2. ~Requested(currentState.volume)
    BY DEF Requested, Says
  <2>3. \A f \in Facts \ unsaid : currentState[f] = player[f]
    BY <2>1, <2>2 DEF RemoteIInv, AgreeInv, Agrees
  <2>4. ("song" \notin unsaid /\ player.song \in Songs \ doubtful)
           => currentState.fav = player.fav[player.song]
    BY <2>1 DEF RemoteIInv, AgreeInv, FavouriteAgrees
  <2> QED BY <2>3, <2>4
<1> QED BY <1>1, RemoteInitial, RemoteStep, PTL DEF RemoteSpec

-----------------------------------------------------------------------------
(* What a page shows after a number of messages.                           *)

\* Every set of natural numbers has a least one.
LEMMA LeastOf == ASSUME NEW T \in SUBSET Nat, T # {} PROVE \E x \in T : \A y \in T : x <= y
<1> DEFINE Less == {p \in Nat \X Nat : p[1] < p[2]}
<1>1. IsWellFoundedOn(Less, Nat)
  BY NatLessThanWellFounded DEF OpToRel
<1>2. PICK x \in T : \A y \in T : <<y, x>> \notin Less
  <2> HIDE DEF Less
  <2> QED BY <1>1, WFMin
<1>3. \A y \in T : y \in Nat /\ x \in Nat /\ ~(y < x)
  BY <1>2
<1> QED BY <1>3

\* Induction up to n: the least number outside T would have a predecessor in T.
LEMMA OneByOne ==
    ASSUME NEW n \in Nat, NEW T, 0 \in T, \A k \in 0 .. n - 1 : k \in T => k + 1 \in T
    PROVE  \A k \in 0 .. n : k \in T
<1> DEFINE U == {k \in 0 .. n : k \notin T}
<1> SUFFICES ASSUME U # {} PROVE FALSE
  OBVIOUS
<1>1. U \in SUBSET Nat
  OBVIOUS
<1>2. PICK x \in U : \A y \in U : x <= y
  BY <1>1, LeastOf
<1>3. x \in 0 .. n /\ x \notin T /\ x # 0
  BY <1>2
<1>4. x - 1 \in 0 .. n - 1 /\ x - 1 \in 0 .. n /\ (x - 1) + 1 = x /\ ~(x <= x - 1)
  BY <1>3
<1>5. x - 1 \in T
  BY <1>2, <1>4
<1> QED BY <1>3, <1>4, <1>5

\* f[k] is what the page shows after k messages of mail.
IsReading(f, info, mail, n) ==
    f = [k \in 0 .. n |-> IF k = 0 THEN info ELSE Apply(f[k - 1], mail[k])]

LEMMA ReadingExists == ASSUME NEW n \in Nat, NEW info, NEW mail PROVE \E f : IsReading(f, info, mail, n)
<1> DEFINE T == {m \in 0 .. n : \E f : IsReading(f, info, mail, m)}
<1>1. 0 \in T
  <2> DEFINE f == [k \in 0 .. 0 |-> info]
  <2>1. f = [k \in 0 .. 0 |-> IF k = 0 THEN info ELSE Apply(f[k - 1], mail[k])]
    OBVIOUS
  <2> HIDE DEF f
  <2>2. IsReading(f, info, mail, 0) /\ 0 \in 0 .. n
    BY <2>1 DEF IsReading
  <2> QED BY <2>2
<1>2. ASSUME NEW m \in 0 .. n - 1, m \in T PROVE m + 1 \in T
  <2>1. PICK f : IsReading(f, info, mail, m)
    BY <1>2
  <2>2. \A k \in 0 .. m : f[k] = IF k = 0 THEN info ELSE Apply(f[k - 1], mail[k])
    BY ONLY <2>1 DEF IsReading
  <2> DEFINE g == [k \in 0 .. m + 1 |-> IF k <= m THEN f[k] ELSE Apply(f[m], mail[m + 1])]
  <2>3. ASSUME NEW k \in 0 .. m + 1
        PROVE  g[k] = IF k = 0 THEN info ELSE Apply(g[k - 1], mail[k])
    <3>1. CASE k = 0
      BY <2>2, <3>1
    <3>2. CASE k # 0 /\ k <= m
      <4>1. k \in 0 .. m /\ k - 1 \in 0 .. m + 1 /\ k - 1 <= m /\ g[k] = f[k] /\ g[k - 1] = f[k - 1]
        BY <3>2
      <4>2. f[k] = IF k = 0 THEN info ELSE Apply(f[k - 1], mail[k])
        BY <2>2, <4>1
      <4> QED BY <3>2, <4>1, <4>2
    <3>3. CASE k = m + 1
      <4>1. k # 0 /\ k - 1 = m /\ g[k] = Apply(f[m], mail[m + 1]) /\ g[m] = f[m]
        BY <3>3
      <4> QED BY <3>3, <4>1
    <3> QED BY <3>1, <3>2, <3>3
  <2>4. g = [k \in 0 .. m + 1 |-> g[k]]
    OBVIOUS
  <2> HIDE DEF g
  <2>5. IsReading(g, info, mail, m + 1)
    <3>1. [k \in 0 .. m + 1 |-> g[k]]
            = [k \in 0 .. m + 1 |-> IF k = 0 THEN info ELSE Apply(g[k - 1], mail[k])]
      BY <2>3
    <3> QED BY <2>4, <3>1 DEF IsReading
  <2> QED BY <2>5
<1> HIDE DEF T
<1>3. n \in T
  BY <1>1, <1>2, OneByOne
<1> QED BY <1>3 DEF T

\* Read is the last value of a reading.
LEMMA ReadFacts ==
    ASSUME NEW mail, IsSeq(mail), NEW info
    PROVE  \E f : /\ f[0] = info /\ Read(info, mail) = f[Len(mail)]
                  /\ \A k \in 1 .. Len(mail) : f[k] = Apply(f[k - 1], mail[k])
<1>1. Len(mail) \in Nat
  BY DEF IsSeq
<1> DEFINE f == CHOOSE g : IsReading(g, info, mail, Len(mail))
<1>2. Read(info, mail) = f[Len(mail)]
  BY DEF Read, IsReading
<1>3. IsReading(f, info, mail, Len(mail))
  BY <1>1, ReadingExists
<1> HIDE DEF f
<1>4. \A k \in 0 .. Len(mail) : f[k] = IF k = 0 THEN info ELSE Apply(f[k - 1], mail[k])
  BY ONLY <1>3 DEF IsReading
<1>5. f[0] = info
  BY <1>1, <1>4
<1>6. \A k \in 1 .. Len(mail) : f[k] = Apply(f[k - 1], mail[k])
  <2> TAKE k \in 1 .. Len(mail)
  <2>1. k \in 0 .. Len(mail) /\ k # 0
    BY <1>1
  <2> QED BY <1>4, <2>1
<1> QED BY <1>2, <1>5, <1>6

\* One message more is applied to what the page shows without it.
LEMMA ReadAppend ==
    ASSUME NEW q, IsSeq(q), NEW info, NEW m
    PROVE  Read(info, Append(q, m)) = Apply(Read(info, q), m)
<1> DEFINE n == Len(q)  r == Append(q, m)
<1>1. /\ IsSeq(r) /\ n \in Nat /\ Len(r) = n + 1 /\ r[n + 1] = m
      /\ \A i \in 1 .. n : r[i] = q[i]
  BY AppendFacts
<1> HIDE DEF r
<1>2. PICK f : /\ f[0] = info /\ Read(info, q) = f[n]
               /\ \A k \in 1 .. n : f[k] = Apply(f[k - 1], q[k])
  BY ReadFacts
<1>3. PICK g : /\ g[0] = info /\ Read(info, r) = g[Len(r)]
               /\ \A k \in 1 .. Len(r) : g[k] = Apply(g[k - 1], r[k])
  BY <1>1, ReadFacts
<1> HIDE DEF n
<1> DEFINE T == {k \in 0 .. n : g[k] = f[k]}
<1>4. 0 \in T
  BY <1>1, <1>2, <1>3
<1>5. ASSUME NEW k \in 0 .. n - 1, k \in T PROVE k + 1 \in T
  <2>1. k + 1 \in 1 .. n /\ k + 1 \in 1 .. Len(r) /\ (k + 1) - 1 = k /\ k + 1 \in 0 .. n
    BY <1>1
  <2>2. g[k + 1] = Apply(g[k], r[k + 1]) /\ f[k + 1] = Apply(f[k], q[k + 1]) /\ r[k + 1] = q[k + 1]
    BY <1>1, <1>2, <1>3, <2>1
  <2>3. g[k] = f[k]
    BY <1>5
  <2> QED BY <2>1, <2>2, <2>3
<1> HIDE DEF T
<1>6. n \in T
  BY <1>1, <1>4, <1>5, OneByOne
<1>7. g[n + 1] = Apply(g[n], m) 
  <2>1. n + 1 \in 1 .. Len(r) /\ (n + 1) - 1 = n
    BY <1>1
  <2> QED BY <1>1, <1>3, <2>1
<1> QED BY <1>1, <1>2, <1>3, <1>6, <1>7 DEF T, r

\* Reading a message leaves what the page shows in the end.
LEMMA ReadTail ==
    ASSUME NEW q, IsSeq(q), q # <<>>, NEW info
    PROVE  Read(Apply(info, Head(q)), Tail(q)) = Read(info, q)
<1> DEFINE n == Len(q) - 1  r == Tail(q)
<1>1. /\ IsSeq(r) /\ n \in Nat /\ Len(r) = n /\ Len(q) = n + 1 /\ Head(q) = q[1]
      /\ \A i \in 1 .. n : r[i] = q[i + 1]
  BY TailFacts
<1> HIDE DEF r
<1>2. PICK f : /\ f[0] = info /\ Read(info, q) = f[Len(q)]
               /\ \A k \in 1 .. Len(q) : f[k] = Apply(f[k - 1], q[k])
  BY ReadFacts
<1> DEFINE next == Apply(info, q[1])
<1> HIDE DEF n, next
<1>3. PICK g : /\ g[0] = next /\ Read(next, r) = g[Len(r)]
               /\ \A k \in 1 .. Len(r) : g[k] = Apply(g[k - 1], r[k])
  <2>1. IsSeq(r)
    BY <1>1
  <2> QED BY ONLY <2>1, ReadFacts
<1> DEFINE T == {k \in 0 .. n : g[k] = f[k + 1]}
<1>4. 0 \in T
  <2>1. 1 \in 1 .. Len(q) /\ 1 - 1 = 0 /\ 0 + 1 = 1 /\ 0 \in 0 .. n
    BY <1>1
  <2>2. f[1] = Apply(f[0], q[1])
    BY <1>2, <2>1
  <2> QED BY <1>2, <1>3, <2>1, <2>2 DEF next
<1>5. ASSUME NEW k \in 0 .. n - 1, k \in T PROVE k + 1 \in T
  <2>1. /\ k + 1 \in 1 .. Len(r) /\ (k + 1) - 1 = k /\ k + 1 \in 0 .. n /\ k + 1 \in 1 .. n
        /\ (k + 1) + 1 \in 1 .. Len(q) /\ ((k + 1) + 1) - 1 = k + 1
    BY <1>1
  <2>2. g[k + 1] = Apply(g[k], r[k + 1]) /\ f[(k + 1) + 1] = Apply(f[k + 1], q[(k + 1) + 1])
    BY <1>2, <1>3, <2>1
  <2>3. g[k] = f[k + 1] /\ r[k + 1] = q[(k + 1) + 1]
    BY <1>1, <1>5, <2>1
  <2> QED BY <2>1, <2>2, <2>3
<1> HIDE DEF T
<1>6. n \in T
  BY <1>1, <1>4, <1>5, OneByOne
<1> QED BY <1>1, <1>2, <1>3, <1>6 DEF T, r, next

\* Two messages.
LEMMA ReadTwo == ASSUME NEW info, NEW a, NEW b PROVE Read(info, <<a, b>>) = Apply(Apply(info, a), b)
<1> DEFINE q == <<a, b>>
<1>1. q \in Seq({a, b}) /\ Len(q) = 2 /\ q[1] = a /\ q[2] = b
  OBVIOUS
<1> HIDE DEF q
<1>2. IsSeq(q)
  BY <1>1 DEF IsSeq
<1>3. PICK f : /\ f[0] = info /\ Read(info, q) = f[Len(q)]
               /\ \A k \in 1 .. Len(q) : f[k] = Apply(f[k - 1], q[k])
  BY <1>2, ReadFacts
<1>4. f[1] = Apply(f[1 - 1], q[1]) /\ f[2] = Apply(f[2 - 1], q[2])
  BY <1>1, <1>3
<1>5. 1 - 1 = 0 /\ 2 - 1 = 1
  OBVIOUS
<1> QED BY <1>1, <1>3, <1>4, <1>5 DEF q
-----------------------------------------------------------------------------
(* What the main process is told about favourites.                         *)

\* A song is one of the queue or none, which is no favourite; a favourite is
\* of some song.
Sane(m) ==
    /\ m.event = "update-song" => /\ m.data.song \in Songs \union {NoSong}
                                  /\ m.data.song = NoSong => m.data.fav = Unset
    /\ m.event \in {"update-favorite", "request-favorite", "favorite"} => m.data.song # NoSong

AllSane(q) == IsSeq(q) /\ \A i \in 1 .. Len(q) : Sane(q[i])

Names(m, s) == m.event \in {"update-song", "update-favorite"} /\ m.data.song = s

\* In the messages before place j, the last to name song s told its favourite as
\* fav; if none names it and it is the song of the main process, that has fav.
Told(q, j, s, fav, state) ==
    /\ \A i \in 1 .. j - 1 :
         Names(q[i], s) /\ (\A k \in 1 .. j - 1 : k > i => ~Names(q[k], s)) => q[i].data.fav = fav
    /\ (\A k \in 1 .. j - 1 : ~Names(q[k], s)) /\ state.song = s => state.fav = fav

\* A song reported again comes with the favourite told last, and so does what the
\* player shows.
Consistent(q, s, fav, state) ==
    /\ \A j \in 1 .. Len(q) : q[j].event = "update-song" /\ q[j].data.song = s
                                => Told(q, j, s, q[j].data.fav, state)
    /\ Told(q, Len(q) + 1, s, fav, state)

Story ==
    /\ player.song \in Songs \union {NoSong} /\ currentState.song \in Songs \union {NoSong}
    /\ currentState.song = NoSong => currentState.fav = Unset
    /\ AllSane(toMain) /\ AllSane(toPlayer)
    /\ \A i \in 1 .. Len(marks) : marks[i].song # NoSong
    /\ \A s \in Songs \ doubtful : Consistent(toMain, s, player.fav[s], currentState)

LEMMA SaneAppend ==
    ASSUME NEW q, AllSane(q), NEW m, Sane(m)
    PROVE  AllSane(Append(q, m))
<1> DEFINE r == Append(q, m)
<1>1. /\ IsSeq(r) /\ Len(q) \in Nat /\ Len(r) = Len(q) + 1 /\ r[Len(q) + 1] = m
      /\ \A i \in 1 .. Len(q) : r[i] = q[i]
  BY AppendFacts DEF AllSane
<1> HIDE DEF r
<1>2. ASSUME NEW i \in 1 .. Len(r) PROVE Sane(r[i])
  <2>1. i \in 1 .. Len(q) \/ i = Len(q) + 1
    BY <1>1
  <2> QED BY <1>1, <2>1 DEF AllSane
<1> QED BY <1>1, <1>2 DEF AllSane, r

LEMMA SaneTail ==
    ASSUME NEW q, AllSane(q), q # <<>>
    PROVE  AllSane(Tail(q)) /\ Sane(Head(q))
<1> DEFINE r == Tail(q)
<1>1. /\ IsSeq(r) /\ Len(q) \in Nat \ {0} /\ Len(r) = Len(q) - 1 /\ Head(q) = q[1]
      /\ \A i \in 1 .. Len(q) - 1 : r[i] = q[i + 1]
  BY TailFacts DEF AllSane
<1> HIDE DEF r
<1>2. ASSUME NEW i \in 1 .. Len(r) PROVE Sane(r[i])
  <2>1. i \in 1 .. Len(q) - 1 /\ i + 1 \in 1 .. Len(q)
    BY <1>1
  <2> QED BY <1>1, <2>1 DEF AllSane
<1>3. Sane(q[1])
  BY <1>1 DEF AllSane
<1> QED BY <1>1, <1>2, <1>3 DEF AllSane, r

LEMMA SaneEmpty == AllSane(<<>>)
<1>1. <<>> \in Seq({}) /\ Len(<<>>) = 0
  OBVIOUS
<1> QED BY <1>1 DEF AllSane, IsSeq

\* Told depends on the messages before the place only.
LEMMA ToldSame ==
    ASSUME NEW q, NEW r, NEW j, NEW s, NEW fav, NEW state, \A i \in 1 .. j - 1 : r[i] = q[i],
           Told(q, j, s, fav, state)
    PROVE  Told(r, j, s, fav, state)
BY DEF Told

\* A report of a song repeats what was told; a favourite is told anew.
LEMMA ConsistentAppend ==
    ASSUME NEW q, IsSeq(q), NEW m, NEW s, NEW old, NEW fav, NEW state,
           Consistent(q, s, old, state),
           Names(m, s) => m.data.fav = fav,
           ~Names(m, s) \/ m.event = "update-song" => fav = old
    PROVE  Consistent(Append(q, m), s, fav, state)
<1> DEFINE r == Append(q, m)  n == Len(q)
<1>1. /\ n \in Nat /\ Len(r) = n + 1 /\ r[n + 1] = m
      /\ \A i \in 1 .. n : r[i] = q[i]
  BY AppendFacts
<1> HIDE DEF r, n
<1>2. /\ \A j \in 1 .. n : q[j].event = "update-song" /\ q[j].data.song = s
                             => Told(q, j, s, q[j].data.fav, state)
      /\ Told(q, n + 1, s, old, state)
  BY DEF Consistent, n
<1>3. Told(r, n + 1, s, old, state)
  <2>1. \A i \in 1 .. (n + 1) - 1 : r[i] = q[i]
    BY <1>1
  <2> QED BY <1>2, <2>1, ToldSame
<1>4. ASSUME NEW j \in 1 .. n + 1, r[j].event = "update-song", r[j].data.song = s
      PROVE  Told(r, j, s, r[j].data.fav, state)
  <2>1. CASE j = n + 1
    <3>1. m.event = "update-song" /\ Names(m, s) /\ r[j] = m
      BY <1>1, <1>4, <2>1 DEF Names
    <3>2. m.data.fav = old
      BY <3>1
    <3> QED BY <1>3, <2>1, <3>1, <3>2
  <2>2. CASE j # n + 1
    <3>1. j \in 1 .. n /\ r[j] = q[j] /\ \A i \in 1 .. j - 1 : r[i] = q[i]
      BY <1>1, <2>2
    <3>2. Told(q, j, s, q[j].data.fav, state)
      BY <1>2, <1>4, <3>1
    <3> QED BY <3>1, <3>2, ToldSame
  <2> QED BY <2>1, <2>2
<1>5. Told(r, (n + 1) + 1, s, fav, state)
  <2>1. ((n + 1) + 1) - 1 = n + 1 /\ (n + 1) - 1 = n
    BY <1>1
  <2>2. CASE Names(m, s)
    <3>1. ASSUME NEW i \in 1 .. n + 1, Names(r[i], s), \A k \in 1 .. n + 1 : k > i => ~Names(r[k], s)
          PROVE  r[i].data.fav = fav
      <4>1. i = n + 1
        BY <1>1, <2>2, <3>1
      <4> QED BY <1>1, <2>2, <4>1
    <3>2. ~(\A k \in 1 .. n + 1 : ~Names(r[k], s))
      BY <1>1, <2>2
    <3> QED BY <2>1, <3>1, <3>2 DEF Told
  <2>3. CASE ~Names(m, s)
    <3>1. fav = old
      BY <2>3
    <3>2. ASSUME NEW i \in 1 .. n + 1, Names(r[i], s), \A k \in 1 .. n + 1 : k > i => ~Names(r[k], s)
          PROVE  r[i].data.fav = fav
      <4>1. i \in 1 .. n
        BY <1>1, <2>3, <3>2
      <4>2. \A k \in 1 .. n : k > i => ~Names(r[k], s)
        BY <1>1, <3>2
      <4> QED BY <1>3, <2>1, <3>1, <3>2, <4>1, <4>2 DEF Told
    <3>3. (\A k \in 1 .. n + 1 : ~Names(r[k], s)) => \A k \in 1 .. n : ~Names(r[k], s)
      BY <1>1
    <3>4. (\A k \in 1 .. n + 1 : ~Names(r[k], s)) /\ state.song = s => state.fav = fav
      BY <1>3, <2>1, <3>1, <3>3 DEF Told
    <3> QED BY <2>1, <3>2, <3>4 DEF Told
  <2> QED BY <2>2, <2>3
<1> QED BY <1>1, <1>4, <1>5 DEF Consistent, r

\* Taking the first message in: what it told is what the main process has now.
LEMMA ToldTail ==
    ASSUME NEW q, IsSeq(q), q # <<>>, NEW j \in 1 .. Len(q), NEW s, NEW fav, NEW state, NEW new,
           Told(q, j + 1, s, fav, state),
           Names(Head(q), s) /\ new.song = s => new.fav = Head(q).data.fav,
           ~Names(Head(q), s) /\ new.song = s => state.song = s /\ new.fav = state.fav
    PROVE  Told(Tail(q), j, s, fav, new)
<1> DEFINE r == Tail(q)  n == Len(q)
<1>1. /\ n \in Nat \ {0} /\ Len(r) = n - 1 /\ Head(q) = q[1]
      /\ \A i \in 1 .. n - 1 : r[i] = q[i + 1]
  BY TailFacts
<1> HIDE DEF r
<1>2. (j + 1) - 1 = j /\ j \in Nat /\ j \in 1 .. n
  BY <1>1
<1>3. /\ \A i \in 1 .. j :
           Names(q[i], s) /\ (\A k \in 1 .. j : k > i => ~Names(q[k], s)) => q[i].data.fav = fav
      /\ (\A k \in 1 .. j : ~Names(q[k], s)) /\ state.song = s => state.fav = fav
  BY <1>2 DEF Told
<1> HIDE DEF n
<1>4. \A k \in 1 .. j : k = 1 \/ (k - 1 \in 1 .. j - 1 /\ q[k] = r[k - 1])
  <2> TAKE k \in 1 .. j
  <2>1. k # 1 => k - 1 \in 1 .. n - 1 /\ (k - 1) + 1 = k /\ k - 1 \in 1 .. j - 1
    BY <1>1, <1>2
  <2> QED BY <1>1, <2>1
<1>5. ASSUME NEW i \in 1 .. j - 1, Names(r[i], s), \A k \in 1 .. j - 1 : k > i => ~Names(r[k], s)
      PROVE  r[i].data.fav = fav
  <2>1. i + 1 \in 1 .. j /\ i \in 1 .. n - 1
    BY <1>1, <1>2
  <2>2. r[i] = q[i + 1]
    BY <1>1, <2>1
  <2>3. ASSUME NEW k \in 1 .. j, k > i + 1 PROVE ~Names(q[k], s)
    <3>1. k # 1 /\ k - 1 > i
      BY <1>2, <2>3
    <3> QED BY <1>4, <1>5, <3>1
  <2> QED BY <1>3, <1>5, <2>1, <2>2, <2>3
<1>6. ASSUME \A k \in 1 .. j - 1 : ~Names(r[k], s), new.song = s
      PROVE  new.fav = fav
  <2>1. \A k \in 1 .. j : k > 1 => ~Names(q[k], s)
    BY <1>2, <1>4, <1>6
  <2>2. 1 \in 1 .. j
    BY <1>2
  <2>3. CASE Names(q[1], s)
    BY <1>1, <1>3, <1>6, <2>1, <2>2, <2>3
  <2>4. CASE ~Names(q[1], s)
    <3>1. \A k \in 1 .. j : ~Names(q[k], s)
      BY <1>4, <1>6, <2>4
    <3> QED BY <1>1, <1>3, <1>6, <2>4, <3>1
  <2> QED BY <2>3, <2>4
<1> QED BY <1>5, <1>6 DEF Told, r

LEMMA ConsistentTail ==
    ASSUME NEW q, IsSeq(q), q # <<>>, NEW s, NEW fav, NEW state, NEW new,
           Consistent(q, s, fav, state),
           Names(Head(q), s) /\ new.song = s => new.fav = Head(q).data.fav,
           ~Names(Head(q), s) /\ new.song = s => state.song = s /\ new.fav = state.fav
    PROVE  Consistent(Tail(q), s, fav, new)
<1> DEFINE r == Tail(q)  n == Len(q)
<1>1. /\ n \in Nat \ {0} /\ Len(r) = n - 1 /\ \A i \in 1 .. n - 1 : r[i] = q[i + 1]
  BY TailFacts
<1>2. /\ \A j \in 1 .. n : q[j].event = "update-song" /\ q[j].data.song = s
                             => Told(q, j, s, q[j].data.fav, state)
      /\ Told(q, n + 1, s, fav, state)
  BY DEF Consistent
<1>3. Told(r, n, s, fav, new)
  BY <1>1, <1>2, ToldTail
<1>4. ASSUME NEW j \in 1 .. n - 1, r[j].event = "update-song", r[j].data.song = s
      PROVE  Told(r, j, s, r[j].data.fav, new)
  <2>1. r[j] = q[j + 1] /\ j + 1 \in 1 .. n /\ j \in 1 .. n
    BY <1>1
  <2> HIDE DEF r
  <2>2. Told(q, j + 1, s, r[j].data.fav, state)
    BY <1>2, <1>4, <2>1
  <2> QED BY <2>1, <2>2, ToldTail DEF r
<1> HIDE DEF r, n
<1>5. Len(r) + 1 = n
  BY <1>1
<1> QED BY <1>1, <1>3, <1>4, <1>5 DEF Consistent, r

\* What the player tells next keeps the story, whatever it is about.
LEMMA StoryAppend ==
    ASSUME Story, NEW m, Sane(m), NEW q, AllSane(q), NEW fav, NEW over,
           \A s \in Songs \ over :
              /\ s \notin doubtful
              /\ Names(m, s) => m.data.fav = fav[s]
              /\ ~Names(m, s) \/ m.event = "update-song" => fav[s] = player.fav[s],
           \A s \in Songs \ doubtful : Consistent(q, s, player.fav[s], currentState)
    PROVE  /\ AllSane(Append(q, m))
           /\ \A s \in Songs \ over : Consistent(Append(q, m), s, fav[s], currentState)
<1>1. AllSane(Append(q, m)) /\ IsSeq(q)
  BY SaneAppend DEF AllSane
<1>2. ASSUME NEW s \in Songs \ over PROVE Consistent(Append(q, m), s, fav[s], currentState)
  <2>1. s \in Songs \ doubtful /\ Consistent(q, s, player.fav[s], currentState)
    OBVIOUS
  <2> QED BY <1>1, <2>1, ConsistentAppend
<1> QED BY <1>1, <1>2

LEMMA StorySame ==
    ASSUME Story, UNCHANGED <<player, marks, toMain, doubtful>>, AllSane(toPlayer'),
           currentState'.song = currentState.song, currentState'.fav = currentState.fav
    PROVE  Story'
<1>1. ASSUME NEW s \in Songs \ doubtful PROVE Consistent(toMain, s, player.fav[s], currentState')
  BY DEF Story, Consistent, Told
<1> QED BY <1>1 DEF Story

\* Nothing is told, and only favourites of doubtful songs change.
LEMMA StoryUntold ==
    ASSUME Story, toMain' = toMain, currentState' = currentState, AllSane(toPlayer'),
           doubtful \subseteq doubtful', player'.song \in Songs \union {NoSong},
           \A t \in Songs \ doubtful' : player'.fav[t] = player.fav[t],
           \A i \in 1 .. Len(marks') : marks'[i].song # NoSong
    PROVE  Story'
<1>1. ASSUME NEW t \in Songs \ doubtful' PROVE Consistent(toMain', t, player'.fav[t], currentState')
  <2>1. Consistent(toMain, t, player.fav[t], currentState)
    BY DEF Story
  <2> QED BY <2>1
<1> QED BY <1>1 DEF Story

LEMMA StoryChanged ==
    ASSUME Story, Records, NEW field \in {"status", "volume"}, NEW v,
           NEW event \in {"update-playback", "update-volume"}, Changed(field, v, event),
           currentState' = currentState, AllSane(toPlayer')
    PROVE  Story'
<1> DEFINE m == Msg(event, [Empty EXCEPT ![field] = v])
<1>1. /\ player'.song = player.song /\ player'.fav = player.fav
      /\ marks' = marks /\ doubtful' = doubtful
      /\ toMain' = toMain \/ toMain' = Append(toMain, m)
  BY DEF Changed, Report, Records
<1>2. m.event = event
  BY DEF Msg
<1> HIDE DEF m
<1>3. Sane(m) /\ \A s : ~Names(m, s)
  BY <1>2 DEF Sane, Names
<1>4. CASE toMain' = toMain
  BY <1>1, <1>4 DEF Story
<1>5. CASE toMain' = Append(toMain, m)
  <2>1. /\ AllSane(toMain')
        /\ \A s \in Songs \ doubtful : Consistent(toMain', s, player.fav[s], currentState)
    BY <1>2, <1>3, <1>5, StoryAppend DEF Story
  <2> QED BY <1>1, <2>1 DEF Story
<1> QED BY <1>1, <1>4, <1>5

\* The song reported, with the favourite the player shows.
LEMMA SongMsgFacts ==
    ASSUME NEW p, p.song \in Songs \union {NoSong}
    PROVE  /\ Sane(SongMsg(p)) /\ SongMsg(p).event = "update-song"
           /\ \A s \in Songs : Names(SongMsg(p), s) => SongMsg(p).data.fav = p.fav[s]
<1> DEFINE m == SongMsg(p)
<1>1. /\ m.event = "update-song" /\ m.data.song = p.song
      /\ m.data.fav = IF p.song = NoSong THEN Unset ELSE p.fav[p.song]
  BY DEF SongMsg, Msg, Empty
<1> HIDE DEF m
<1>2. Sane(m) /\ \A s \in Songs : Names(m, s) => m.data.fav = p.fav[s]
  BY <1>1, SongsAssumption DEF Sane, Names
<1> QED BY <1>1, <1>2 DEF m

LEMMA StorySongTold ==
    ASSUME Story, player'.song \in Songs \union {NoSong}, player'.fav = player.fav,
           toMain' = Append(toMain, SongMsg(player')),
           UNCHANGED <<marks, doubtful, currentState>>, AllSane(toPlayer')
    PROVE  Story'
<1> DEFINE m == SongMsg(player')
<1>1. toMain' = Append(toMain, m)
  OBVIOUS
<1>2. /\ Sane(m) /\ m.event = "update-song"
      /\ \A t \in Songs : Names(m, t) => m.data.fav = player.fav[t]
  BY SongMsgFacts
<1> HIDE DEF m
<1>3. /\ AllSane(toMain')
      /\ \A t \in Songs \ doubtful : Consistent(toMain', t, player.fav[t], currentState)
  BY <1>1, <1>2, StoryAppend DEF Story
<1> QED BY <1>3 DEF Story

LEMMA StorySong ==
    ASSUME Story, Records, NEW s \in Songs \union {NoSong}, ChangeSong(s),
           currentState' = currentState, AllSane(toPlayer')
    PROVE  Story'
<1>1. /\ player'.song = s /\ player'.fav = player.fav
      /\ marks' = marks /\ doubtful' = doubtful
      /\ toMain' = toMain \/ toMain' = Append(toMain, SongMsg(player'))
  BY DEF ChangeSong, Report, Records
<1>2. CASE toMain' = toMain
  <2>1. \A i \in 1 .. Len(marks') : marks'[i].song # NoSong
    BY <1>1 DEF Story
  <2> QED BY <1>1, <1>2, <2>1, StoryUntold
<1>3. CASE toMain' = Append(toMain, SongMsg(player'))
  BY <1>1, <1>3, StorySongTold
<1> QED BY <1>1, <1>2, <1>3

LEMMA FavoriteMsgFacts ==
    ASSUME NEW s, s # NoSong, NEW f
    PROVE  /\ Sane(FavoriteMsg(s, f)) /\ FavoriteMsg(s, f).event = "update-favorite"
           /\ FavoriteMsg(s, f).data.fav = f /\ \A t : Names(FavoriteMsg(s, f), t) <=> t = s
<1> DEFINE m == FavoriteMsg(s, f)
<1>1. m.event = "update-favorite" /\ m.data.song = s /\ m.data.fav = f
  BY DEF FavoriteMsg, Msg, Empty
<1> HIDE DEF m
<1>2. Sane(m) /\ \A t : Names(m, t) <=> t = s
  BY <1>1 DEF Sane, Names
<1> QED BY <1>1, <1>2 DEF m

LEMMA StoryFavorite ==
    ASSUME Story, Records, IsSeq(marks), NEW s, s # NoSong, NEW f, Favorite(s, f),
           currentState' = currentState, AllSane(toPlayer')
    PROVE  Story'
<1> DEFINE m == FavoriteMsg(s, f)
<1>1. /\ player' = [player EXCEPT !.fav[s] = f]
      /\ toMain' = Append(toMain, m) \/ (toMain' = toMain /\ s \in doubtful')
      /\ doubtful' = doubtful \/ doubtful' = doubtful \union {s}
  BY DEF Favorite, Report
<1>2. /\ player'.song = player.song
      /\ \A t \in Songs : player'.fav[t] = IF t = s THEN f ELSE player.fav[t]
  BY <1>1 DEF Records
<1>3. /\ Sane(m) /\ m.event = "update-favorite" /\ m.data.fav = f /\ \A t : Names(m, t) <=> t = s
  BY FavoriteMsgFacts
<1> HIDE DEF m
<1> DEFINE fav == player'.fav  over == doubtful'
<1>4. ASSUME NEW t \in Songs \ over
      PROVE  /\ t \notin doubtful
             /\ Names(m, t) => m.data.fav = fav[t]
             /\ ~Names(m, t) \/ m.event = "update-song" => fav[t] = player.fav[t]
  BY <1>1, <1>2, <1>3
<1> HIDE DEF fav, over
<1>5. ASSUME NEW i \in 1 .. Len(marks') PROVE marks'[i].song # NoSong
  <2>1. marks' = Append(marks, [song |-> s, fav |-> f])
    BY DEF Favorite
  <2>2. /\ Len(marks) \in Nat /\ Len(marks') = Len(marks) + 1
        /\ marks'[Len(marks) + 1] = [song |-> s, fav |-> f]
        /\ \A j \in 1 .. Len(marks) : marks'[j] = marks[j]
    BY <2>1, AppendFacts
  <2>3. i \in 1 .. Len(marks) \/ i = Len(marks) + 1
    BY <2>2
  <2> QED BY <2>2, <2>3 DEF Story
<1>6. CASE toMain' = toMain /\ s \in doubtful'
  <2>1. player'.song \in Songs \union {NoSong} /\ doubtful \subseteq doubtful'
    BY <1>1, <1>2 DEF Story
  <2>2. \A t \in Songs \ doubtful' : player'.fav[t] = player.fav[t]
    BY <1>2, <1>6
  <2> QED BY <1>5, <1>6, <2>1, <2>2, StoryUntold
<1>7. CASE toMain' = Append(toMain, m)
  <2>1. /\ AllSane(toMain')
        /\ \A t \in Songs \ over : Consistent(toMain', t, fav[t], currentState)
    BY <1>3, <1>4, <1>7, StoryAppend DEF Story
  <2> QED BY <1>2, <1>5, <2>1 DEF Story, fav, over
<1> QED BY <1>1, <1>6, <1>7

LEMMA StoryAnswered ==
    ASSUME Story, Records, MarksCurrent, NEW i \in DOMAIN marks, NEW ok \in BOOLEAN, Answered(i, ok),
           currentState' = currentState, AllSane(toPlayer')
    PROVE  Story'
<1> DEFINE s == marks[i].song
           f == IF ok THEN marks[i].fav ELSE Flip(marks[i].fav)
           m == FavoriteMsg(s, f)
<1>1. /\ player' = IF ok THEN player ELSE [player EXCEPT !.fav[s] = f]
      /\ doubtful' = doubtful /\ marks' = RemoveAt(marks, i)
      /\ toMain' = IF reporting THEN Append(toMain, m) ELSE toMain
  BY DEF Answered, Report
<1>2. /\ Len(marks) \in Nat /\ i \in 1 .. Len(marks) /\ Len(marks') = Len(marks) - 1
      /\ \A j \in 1 .. Len(marks) - 1 : marks'[j] = IF j < i THEN marks[j] ELSE marks[j + 1]
  BY <1>1, RemoveFacts DEF MarksCurrent
<1>3. /\ s # NoSong /\ (s \in Songs \ doubtful => player.fav[s] = marks[i].fav)
      /\ reporting \/ s \in doubtful
  BY <1>2 DEF Story, MarksCurrent
<1>4. ok => f = marks[i].fav
  OBVIOUS
<1> HIDE DEF f, s
<1>5. /\ Sane(m) /\ m.event = "update-favorite" /\ m.data.fav = f /\ \A t : Names(m, t) <=> t = s
  BY <1>3, FavoriteMsgFacts
<1> HIDE DEF m
<1>6. /\ player'.song = player.song
      /\ \A t \in Songs : player'.fav[t] = IF t = s /\ ~ok THEN f ELSE player.fav[t]
  BY <1>1 DEF Records
<1> DEFINE fav == player'.fav
<1>7. ASSUME NEW t \in Songs \ doubtful
      PROVE  /\ Names(m, t) => m.data.fav = fav[t]
             /\ ~Names(m, t) \/ m.event = "update-song" => fav[t] = player.fav[t]
  BY <1>3, <1>4, <1>5, <1>6
<1> HIDE DEF fav
<1>8. ASSUME NEW j \in 1 .. Len(marks') PROVE marks'[j].song # NoSong
  <2>1. j \in 1 .. Len(marks) - 1 /\ j \in 1 .. Len(marks) /\ j + 1 \in 1 .. Len(marks)
    BY <1>2
  <2> QED BY <1>2, <2>1 DEF Story
<1>9. CASE reporting
  <2>1. toMain' = Append(toMain, m)
    BY <1>1, <1>9
  <2>2. /\ AllSane(toMain')
        /\ \A t \in Songs \ doubtful : Consistent(toMain', t, fav[t], currentState)
    BY <1>5, <1>7, <2>1, StoryAppend DEF Story
  <2> QED BY <1>1, <1>6, <1>8, <2>2 DEF Story, fav
<1>10. CASE ~reporting
  <2>1. toMain' = toMain /\ doubtful' = doubtful /\ s \in doubtful
    BY <1>1, <1>3, <1>10
  <2>2. \A t \in Songs \ doubtful : player'.fav[t] = player.fav[t]
    BY <1>6, <2>1
  <2>3. player'.song \in Songs \union {NoSong}
    BY <1>6 DEF Story
  <2> QED BY <1>8, <2>1, <2>2, <2>3, StoryUntold
<1> QED BY <1>9, <1>10

\* A renderer that starts adds its settings and maybe its song.
LEMMA StoryMounted ==
    ASSUME NEW q, AllSane(q), NEW p, p.song \in Songs \union {NoSong}, NEW fav, p.fav = fav,
           NEW over, NEW state, NEW r, r = Mounted(q, p),
           \A t \in Songs \ over : Consistent(q, t, fav[t], state)
    PROVE  AllSane(r) /\ \A t \in Songs \ over : Consistent(r, t, fav[t], state)
<1> DEFINE m == Setup  n == SongMsg(p)  told == Append(q, m)
<1>1. Sane(m) /\ m.event \in Switching /\ \A t : ~Names(m, t)
  BY DEF Setup, Msg, Sane, Names, Switching
<1>2. /\ Sane(n) /\ n.event = "update-song" /\ \A t \in Songs : Names(n, t) => n.data.fav = fav[t]
  BY SongMsgFacts
<1>3. r = told \/ r = Append(told, n)
  BY DEF Mounted
<1> HIDE DEF m, n
<1>4. AllSane(told) /\ IsSeq(q) /\ \A t \in Songs \ over : Consistent(told, t, fav[t], state)
  BY <1>1, SaneAppend, ConsistentAppend DEF AllSane
<1> HIDE DEF told
<1>5. /\ AllSane(Append(told, n)) /\ IsSeq(told)
      /\ \A t \in Songs \ over : Consistent(Append(told, n), t, fav[t], state)
  BY <1>2, <1>4, SaneAppend, ConsistentAppend DEF AllSane
<1> QED BY <1>3, <1>4, <1>5

LEMMA StoryReload ==
    ASSUME Story, Records, RendererReload
    PROVE  Story'
<1>1. PICK s \in {player.song, NoSong} : player' = [player EXCEPT !.status = "paused", !.song = s]
  BY DEF RendererReload
<1>2. /\ player'.song = s /\ player'.fav = player.fav /\ s \in Songs \union {NoSong}
      /\ marks' = <<>> /\ toPlayer' = <<>> /\ doubtful' = doubtful /\ currentState' = currentState
      /\ toMain' = Mounted(toMain, player')
  BY <1>1 DEF RendererReload, MainVars, Records, Story
<1>3. /\ AllSane(toMain')
      /\ \A t \in Songs \ doubtful : Consistent(toMain', t, player.fav[t], currentState)
  <2> DEFINE p == player'  r == toMain'
  <2>1. p.song \in Songs \union {NoSong} /\ p.fav = player.fav /\ r = Mounted(toMain, p)
    BY <1>2
  <2>2. AllSane(toMain) /\ \A t \in Songs \ doubtful : Consistent(toMain, t, player.fav[t], currentState)
    BY DEF Story
  <2> HIDE DEF p, r
  <2>3. AllSane(r) /\ \A t \in Songs \ doubtful : Consistent(r, t, player.fav[t], currentState)
    BY <2>1, <2>2, StoryMounted
  <2> QED BY <2>3 DEF r
<1>4. AllSane(toPlayer') /\ Len(marks') = 0
  BY <1>2, SaneEmpty
<1> QED BY <1>2, <1>3, <1>4 DEF Story

LEMMA StorySetting ==
    ASSUME Story, SetRemoteEnabled
    PROVE  Story'
<1>1. PICK on \in BOOLEAN : toMain' = Append(toMain, Msg(IF on THEN "enable" ELSE "disable", Empty))
  BY DEF SetRemoteEnabled
<1> DEFINE m == Msg(IF on THEN "enable" ELSE "disable", Empty)
<1>2. m.event \in Switching
  BY DEF Msg, Switching
<1>3. UNCHANGED <<player, marks, doubtful, currentState, toPlayer>>
  BY DEF SetRemoteEnabled, Elsewhere, MainVars
<1> HIDE DEF m
<1>4. toMain' = Append(toMain, m)
  BY <1>1 DEF m
<1>5. Sane(m) /\ \A t : ~Names(m, t)
  BY <1>2 DEF Sane, Names, Switching
<1>6. /\ AllSane(toMain')
      /\ \A t \in Songs \ doubtful : Consistent(toMain', t, player.fav[t], currentState)
  BY <1>4, <1>5, StoryAppend DEF Story
<1> QED BY <1>3, <1>6 DEF Story

LEMMA StorySwitched ==
    ASSUME Story, RemoteSwitched
    PROVE  Story'
<1>1. UNCHANGED <<player, marks, doubtful, currentState, toPlayer>>
  BY DEF RemoteSwitched, MainVars
<1>2. CASE toMain' = toMain
  BY <1>1, <1>2, StorySame DEF Story
<1>3. CASE toMain' = Append(toMain, SongMsg(player))
  BY <1>1, <1>3, StorySongTold DEF Story
<1> QED BY <1>2, <1>3 DEF RemoteSwitched

\* The main process takes a report in.
LEMMA StoryReceives ==
    ASSUME Story, Records, Mail, MainReceives
    PROVE  Story'
<1> DEFINE h == Head(toMain)  d == h.data
<1>1. /\ toMain # <<>> /\ toMain' = Tail(toMain)
      /\ UNCHANGED <<player, marks, toPlayer, doubtful>>
  BY DEF MainReceives
<1>2. IsSeq(toMain) /\ AllSane(toMain') /\ Sane(h)
  BY <1>1, SaneTail DEF Story, AllSane
<1>3. h.event \in Reported
  BY <1>1, TailFacts DEF Mail
<1>4. /\ h.event = "update-playback" => updatePlayback(d)
      /\ h.event = "update-volume" => updateVolume(d)
      /\ h.event = "update-song" => updateSong(d)
      /\ h.event = "update-favorite" => updateFavorite(d)
      /\ h.event \in Switching => currentState' = currentState
  BY DEF MainReceives, enableServer, shutdownServer, Switching
<1> HIDE DEF h
<1> DEFINE new == currentState'
<1>5. IF h.event = "update-song" THEN new.song = d.song /\ new.fav = d.fav
      ELSE /\ new.song = currentState.song
           /\ new.fav = IF h.event = "update-favorite" /\ currentState.song = d.song
                        THEN d.fav ELSE currentState.fav
  <2>1. CASE h.event = "update-playback"
    BY <1>4, <2>1 DEF updatePlayback, Records
  <2>2. CASE h.event = "update-volume"
    BY <1>4, <2>2 DEF updateVolume, Records
  <2>3. CASE h.event = "update-song"
    BY <1>4, <2>3 DEF updateSong, Records
  <2>4. CASE h.event = "update-favorite"
    BY <1>4, <2>4 DEF updateFavorite, Records
  <2>5. CASE h.event \in Switching
    BY <1>4, <2>5 DEF Switching
  <2> QED BY <1>3, <2>1, <2>2, <2>3, <2>4, <2>5 DEF Reported
<1> HIDE DEF new
<1>6. /\ new.song \in Songs \union {NoSong}
      /\ new.song = NoSong => new.fav = Unset
  BY <1>2, <1>5 DEF Story, Sane
<1>7. ASSUME NEW s \in Songs \ doubtful
      PROVE  Consistent(toMain', s, player.fav[s], new)
  <2>1. /\ Names(h, s) /\ new.song = s => new.fav = d.fav
        /\ ~Names(h, s) /\ new.song = s => currentState.song = s /\ new.fav = currentState.fav
    BY <1>5 DEF Names
  <2>2. Consistent(toMain, s, player.fav[s], currentState)
    BY DEF Story
  <2> QED BY <1>1, <1>2, <2>1, <2>2, ConsistentTail DEF h
<1> QED BY <1>1, <1>2, <1>6, <1>7 DEF Story, new
-----------------------------------------------------------------------------
(* The sockets and what the pages are told.                                *)

\* A socket: nobody's is unused, one its page holds belongs to a page, and one
\* the page neither holds nor has seen closed was closed by the page.
SocketOK(k) ==
    /\ DOMAIN k = DOMAIN Unused
    /\ k.owner = "nobody" => k.near = "none" /\ k.far = "none" /\ k.down = <<>> /\ k.up = <<>>
    /\ Held(k) => k.owner \in Clients /\ IsSeq(k.down)
    /\ ~Held(k) /\ k.near # "closed" => k.owner = "nobody" \/ k.natural
    /\ AllSane(k.up)

\* A page that is not leaky holds no socket but its own.
OneSocket ==
    \A s \in Sockets : Held(sock[s]) /\ ~page[sock[s].owner].leaky => page[sock[s].owner].socket = s

SocketsOK == DOMAIN sock = Sockets /\ \A s \in Sockets : SocketOK(sock[s])

PagesOK == /\ DOMAIN page = Clients
           /\ \A c \in Clients : DOMAIN page[c] = {"info", "connected", "socket", "fetching", "leaky"}

Wires ==
    /\ SocketsOK /\ PagesOK /\ OneSocket
    /\ clients \subseteq Sockets /\ \A s \in clients : sock[s].owner # "nobody"

\* Info, told all but the facts of missed, agrees with the main process.
Matches(info, missed, state, over) ==
    /\ DOMAIN info = Fields
    /\ \A f \in Fields \ missed :
         \/ f = "fav" /\ ("song" \in missed \/ state.song \in over)
         \/ info[f] = state[f]

InSync == \A s \in clients : Follows(s) => Matches(Shown(s), sock[s].missed, currentState, doubtful)

PagesInv == Story /\ Wires /\ InSync

\* A message of the server takes a page from one state of the main process to
\* the next; a page that is not sent it is behind on what it reports.
LEMMA MessageMatches ==
    ASSUME NEW info, NEW missed, NEW state, NEW over, Matches(info, missed, state, over),
           DOMAIN state = Fields,
           NEW m, m.event \in {"song", "favorite", "playback", "volume"},
           m.event = "favorite" => state.song = m.data.song
    PROVE  /\ Matches(info, missed \union Reports(m), Apply(state, m), over)
           /\ m.event = "favorite" /\ "song" \in missed
                => Matches(Apply(info, m), missed, Apply(state, m), over)
           /\ ~(m.event = "favorite" /\ "song" \in missed)
                => Matches(Apply(info, m), missed \ Reports(m), Apply(state, m), over)
<1>1. /\ Fields = {"song", "fav", "status", "volume"} /\ DOMAIN info = Fields
      /\ \A f \in Fields \ missed : \/ f = "fav" /\ ("song" \in missed \/ state.song \in over)
                                    \/ info[f] = state[f]
  BY DEF Fields, Empty, Matches
<1>2. CASE m.event = "song"
  BY <1>1, <1>2 DEF Matches, Apply, Reports
<1>3. CASE m.event = "favorite"
  BY <1>1, <1>3 DEF Matches, Apply, Reports
<1>4. CASE m.event = "playback"
  BY <1>1, <1>4 DEF Matches, Apply, Reports
<1>5. CASE m.event = "volume"
  BY <1>1, <1>5 DEF Matches, Apply, Reports
<1> QED BY <1>2, <1>3, <1>4, <1>5

-----------------------------------------------------------------------------
(* One socket.                                                             *)

\* Socket k becomes l: it is not given to another page or taken up again.
Later(k, l) ==
    /\ SocketOK(l) /\ (l.owner = "nobody" => k.owner = "nobody")
    /\ Held(l) => Held(k) /\ l.owner = k.owner

\* As long as it is open, nothing is sent or missed.
Alike(k, l) == Held(l) /\ l.far = "open" => k.far = "open" /\ l.down = k.down /\ l.missed = k.missed

LEMMA SocketFields == DOMAIN Unused = {"owner", "near", "natural", "far", "auth", "alive", "down", "up", "missed"}
BY DEF Unused

LEMMA LaterSelf == ASSUME NEW k, SocketOK(k) PROVE Later(k, k) /\ Alike(k, k)
BY DEF Later, Alike

LEMMA SendLater ==
    ASSUME NEW k, SocketOK(k), NEW m
    PROVE  /\ Later(k, send(k, m)) /\ send(k, m).owner = k.owner /\ send(k, m).far = k.far
           /\ send(k, m).near = k.near
           /\ Held(k) /\ k.far = "open" =>
                \/ /\ send(k, m).down = Append(k.down, m)
                   /\ send(k, m).missed = IF m.event = "favorite" /\ "song" \in k.missed
                                          THEN k.missed ELSE k.missed \ Reports(m)
                \/ /\ send(k, m).down = k.down
                   /\ send(k, m).missed = k.missed \union Reports(m)
<1> DEFINE l == send(k, m)
<1>1. DOMAIN k = {"owner", "near", "natural", "far", "auth", "alive", "down", "up", "missed"}
  BY SocketFields DEF SocketOK
<1>2. /\ DOMAIN l = DOMAIN k /\ l.owner = k.owner /\ l.far = k.far /\ l.near = k.near
      /\ l.natural = k.natural /\ l.up = k.up
      /\ l.down = k.down \/ (k.far = "open" /\ Held(k) /\ l.down = Append(k.down, m))
      /\ Held(k) /\ k.far = "open" =>
                \/ /\ l.down = Append(k.down, m)
                   /\ l.missed = IF m.event = "favorite" /\ "song" \in k.missed
                                 THEN k.missed ELSE k.missed \ Reports(m)
                \/ /\ l.down = k.down
                   /\ l.missed = k.missed \union Reports(m)
  BY <1>1 DEF send
<1> HIDE DEF l
<1>3. Held(l) <=> Held(k)
  BY <1>2 DEF Held
<1>4. Held(l) => IsSeq(l.down)
  <2>1. Held(k) => IsSeq(k.down)
    BY DEF SocketOK
  <2>2. Held(k) => IsSeq(Append(k.down, m))
    BY <2>1, AppendFacts
  <2> QED BY <1>2, <1>3, <2>1, <2>2
<1>5. SocketOK(l)
  BY <1>2, <1>3, <1>4 DEF SocketOK
<1> QED BY <1>2, <1>3, <1>5 DEF Later, l

LEMMA CloseLater ==
    ASSUME NEW k, SocketOK(k), NEW event
    PROVE  Later(k, CloseWith(k, event)) /\ Alike(k, CloseWith(k, event))
<1>1. CASE k.far # "open"
  BY <1>1, LaterSelf DEF CloseWith
<1>2. CASE k.far = "open"
  <2> DEFINE l == CloseWith(k, event)
  <2>1. DOMAIN k = {"owner", "near", "natural", "far", "auth", "alive", "down", "up", "missed"}
    BY SocketFields DEF SocketOK
  <2>2. /\ DOMAIN l = DOMAIN k /\ l.owner = k.owner /\ l.far = "closing" /\ l.near = k.near
        /\ l.natural = k.natural /\ l.up = k.up /\ l.down = Append(k.down, Msg(event, Empty))
    BY <1>2, <2>1 DEF CloseWith
  <2> HIDE DEF l
  <2>3. (Held(l) <=> Held(k)) /\ k.owner # "nobody"
    BY <1>2, <2>2 DEF Held, SocketOK
  <2>4. Held(l) => IsSeq(l.down)
    BY <2>2, <2>3, AppendFacts DEF SocketOK
  <2>5. SocketOK(l)
    BY <2>2, <2>3, <2>4 DEF SocketOK
  <2> QED BY <2>2, <2>3, <2>5 DEF Later, Alike, l
<1> QED BY <1>1, <1>2

LEMMA SaneClose == Sane(Msg("close", Empty))
BY DEF Sane, Msg

LEMMA AbandonLater ==
    ASSUME NEW k, SocketOK(k), Held(k)
    PROVE  Later(k, Abandon(k)) /\ ~Held(Abandon(k))
<1> DEFINE l == Abandon(k)
<1>1. DOMAIN k = {"owner", "near", "natural", "far", "auth", "alive", "down", "up", "missed"}
  BY SocketFields DEF SocketOK
<1>2. /\ DOMAIN l = DOMAIN k /\ l.owner = k.owner /\ l.near = "closing" /\ l.natural = TRUE
      /\ l.up = k.up \/ l.up = Append(k.up, Msg("close", Empty))
  BY <1>1 DEF Abandon
<1> HIDE DEF l
<1>3. ~Held(l) /\ k.owner # "nobody"
  BY <1>2, ClientsAssumption DEF Held, SocketOK
<1>4. AllSane(l.up)
  BY <1>2, SaneAppend, SaneClose DEF SocketOK
<1>5. SocketOK(l)
  BY <1>2, <1>3, <1>4 DEF SocketOK
<1> QED BY <1>2, <1>3, <1>5 DEF Later, l

LEMMA TerminateLater ==
    ASSUME NEW k, SocketOK(k), k.owner # "nobody"
    PROVE  Later(k, Terminate(k)) /\ Alike(k, Terminate(k))
<1> DEFINE l == Terminate(k)
<1>1. DOMAIN k = {"owner", "near", "natural", "far", "auth", "alive", "down", "up", "missed"}
  BY SocketFields DEF SocketOK
<1>2. /\ DOMAIN l = DOMAIN k /\ l.owner = k.owner /\ l.near = k.near /\ l.natural = k.natural
      /\ l.far = "closed" /\ l.up = <<>>
      /\ Held(k) => l.down = Append(k.down, Msg("close", Empty))
  BY <1>1 DEF Terminate
<1> HIDE DEF l
<1>3. Held(l) <=> Held(k)
  BY <1>2 DEF Held
<1>4. Held(l) => IsSeq(l.down)
  BY <1>2, <1>3, AppendFacts DEF SocketOK
<1>5. SocketOK(l)
  BY <1>2, <1>3, <1>4, SaneEmpty DEF SocketOK
<1> QED BY <1>2, <1>3, <1>5 DEF Later, Alike, l

\* Tidying up takes only what is closed.
LEMMA TidyLater ==
    ASSUME NEW K, NEW t \in Sockets, NEW k, Later(k, K[t])
    PROVE  /\ DOMAIN Tidy(K) = Sockets /\ Later(k, Tidy(K)[t])
           /\ (Held(Tidy(K)[t]) => Tidy(K)[t] = K[t])
<1> DEFINE l == [Unused EXCEPT !.owner = "gone", !.near = "closed", !.far = "closed"]
<1>1. DOMAIN Tidy(K) = Sockets /\ (Tidy(K)[t] = l \/ Tidy(K)[t] = K[t])
  BY DEF Tidy
<1>2. /\ DOMAIN l = DOMAIN Unused /\ l.owner = "gone" /\ l.near = "closed" /\ l.up = <<>>
  BY DEF Unused
<1> HIDE DEF l
<1>3. ~Held(l)
  BY <1>2 DEF Held
<1>4. SocketOK(l)
  BY <1>2, <1>3, SaneEmpty DEF SocketOK
<1> QED BY <1>1, <1>2, <1>3, <1>4 DEF Later

-----------------------------------------------------------------------------
(* All sockets.                                                            *)

\* Every socket of L is what became of one of sock.
AllLater(L) == DOMAIN L = Sockets /\ \A t \in Sockets : Later(sock[t], L[t])

AllAlike(L) == \A t \in Sockets : Alike(sock[t], L[t])

LEMMA TidyAll ==
    ASSUME NEW K, AllLater(K)
    PROVE  AllLater(Tidy(K)) /\ (AllAlike(K) => AllAlike(Tidy(K)))
<1>1. DOMAIN Tidy(K) = Sockets
  BY DEF Tidy
<1>2. \A t \in Sockets : Later(sock[t], Tidy(K)[t]) /\ (Held(Tidy(K)[t]) => Tidy(K)[t] = K[t])
  BY TidyLater DEF AllLater
<1>3. ASSUME AllAlike(K), NEW t \in Sockets PROVE Alike(sock[t], Tidy(K)[t])
  BY <1>2, <1>3 DEF AllAlike, Alike
<1> QED BY <1>1, <1>2, <1>3 DEF AllLater, AllAlike

\* One socket changes.
LEMMA OneLater ==
    ASSUME SocketsOK, NEW s \in Sockets, NEW l, Later(sock[s], l)
    PROVE  /\ AllLater([sock EXCEPT ![s] = l])
           /\ Alike(sock[s], l) => AllAlike([sock EXCEPT ![s] = l])
BY LaterSelf DEF SocketsOK, AllLater, AllAlike

LEMMA SameLater == ASSUME SocketsOK PROVE AllLater(sock) /\ AllAlike(sock)
BY LaterSelf DEF SocketsOK, AllLater, AllAlike

\* The pages keep their sockets, and so the wires are in order.
LEMMA WiresKept ==
    ASSUME Wires, AllLater(sock'), PagesOK',
           \A c \in Clients : page'[c].socket = page[c].socket /\ page'[c].leaky = page[c].leaky,
           \A s \in clients' : s \in clients \/ (s \in Sockets /\ sock[s].owner # "nobody")
    PROVE  Wires'
<1>1. SocketsOK'
  BY DEF AllLater, Later, SocketsOK
<1>2. ASSUME NEW s \in Sockets, Held(sock'[s]), ~page'[sock'[s].owner].leaky
      PROVE  page'[sock'[s].owner].socket = s
  <2>1. Held(sock[s]) /\ sock'[s].owner = sock[s].owner /\ sock[s].owner \in Clients
    BY <1>2 DEF AllLater, Later, Wires, SocketsOK, SocketOK
  <2> QED BY <1>2, <2>1 DEF Wires, OneSocket
<1>3. clients' \subseteq Sockets /\ \A s \in clients' : sock'[s].owner # "nobody"
  BY DEF Wires, AllLater, Later
<1>4. OneSocket'
  BY <1>2 DEF OneSocket
<1> QED BY <1>1, <1>3, <1>4 DEF Wires

\* Nothing a page is shown in the end changes.
LEMMA SyncKept ==
    ASSUME InSync, currentState' = currentState, doubtful \subseteq doubtful',
           \A t \in clients' : Follows(t)' =>
              t \in clients /\ Follows(t) /\ Shown(t)' = Shown(t) /\ sock'[t].missed = sock[t].missed
    PROVE  InSync'
BY DEF InSync, Matches

LEMMA FollowsKept ==
    ASSUME Wires, NEW t \in Sockets, Later(sock[t], sock'[t]), Alike(sock[t], sock'[t]), Follows(t)',
           sock[t].owner \in Clients /\ Held(sock[t]) =>
              /\ page'[sock[t].owner].info = page[sock[t].owner].info
              /\ page'[sock[t].owner].socket = t => page[sock[t].owner].socket = t
              /\ ~page'[sock[t].owner].leaky => ~page[sock[t].owner].leaky
    PROVE  Follows(t) /\ Shown(t)' = Shown(t) /\ sock'[t].missed = sock[t].missed
<1>1. Held(sock'[t]) /\ sock'[t].far = "open"
  BY DEF Follows
<1>2. Held(sock[t]) /\ sock'[t].owner = sock[t].owner /\ sock[t].owner \in Clients
  BY <1>1 DEF Later, Wires, SocketsOK, SocketOK
<1>3. sock[t].far = "open" /\ sock'[t].down = sock[t].down /\ sock'[t].missed = sock[t].missed
  BY <1>1 DEF Alike
<1> QED BY <1>2, <1>3 DEF Follows, Shown

\* A step that sends nothing to the pages and leaves what they show.
LEMMA StillStep ==
    ASSUME Wires, InSync, AllLater(sock'), AllAlike(sock'), PagesOK',
           \A c \in Clients : /\ page'[c].socket = page[c].socket /\ page'[c].leaky = page[c].leaky
                              /\ page'[c].info = page[c].info,
           clients' \subseteq clients, currentState' = currentState, doubtful \subseteq doubtful'
    PROVE  Wires' /\ InSync'
<1>1. Wires'
  BY WiresKept
<1>2. ASSUME NEW t \in clients', Follows(t)'
      PROVE  t \in clients /\ Follows(t) /\ Shown(t)' = Shown(t) /\ sock'[t].missed = sock[t].missed
  <2>1. t \in Sockets /\ Later(sock[t], sock'[t]) /\ Alike(sock[t], sock'[t])
    BY DEF Wires, AllLater, AllAlike
  <2> QED BY <1>2, <2>1, FollowsKept
<1> QED BY <1>1, <1>2, SyncKept

LEMMA LaterTrans ==
    ASSUME NEW k, NEW l, NEW n, Later(k, l), Later(l, n)
    PROVE  Later(k, n) /\ (Alike(k, l) /\ Alike(l, n) => Alike(k, n))
BY DEF Later, Alike

\* What the page has sent, the log-in and the ping make no difference.
LEMMA SmallChange ==
    ASSUME NEW k, SocketOK(k), k.owner # "nobody", NEW l, DOMAIN l = DOMAIN k, l.owner = k.owner,
           l.near = k.near, l.far = k.far, l.natural = k.natural, l.down = k.down,
           l.missed = k.missed, AllSane(l.up)
    PROVE  Later(k, l) /\ Alike(k, l)
<1>1. Held(l) <=> Held(k)
  BY DEF Held
<1>2. SocketOK(l)
  BY <1>1 DEF SocketOK
<1> QED BY <1>1, <1>2 DEF Later, Alike

LEMMA FieldsOf ==
    ASSUME SocketsOK, NEW s \in Sockets
    PROVE  /\ SocketOK(sock[s]) /\ DOMAIN sock = Sockets
           /\ DOMAIN sock[s] = {"owner", "near", "natural", "far", "auth", "alive", "down", "up", "missed"}
BY SocketFields DEF SocketsOK, SocketOK

\* Nothing happens to sockets and pages.
LEMMA NoWires ==
    ASSUME Wires, InSync, UNCHANGED <<sock, page, currentState>>, clients' \subseteq clients,
           doubtful \subseteq doubtful'
    PROVE  Wires' /\ InSync'
<1>1. AllLater(sock') /\ AllAlike(sock') /\ PagesOK'
  BY SameLater DEF Wires, PagesOK
<1> QED BY <1>1, StillStep

LEMMA HeartBeatStep ==
    ASSUME Wires, InSync, heartBeat, doubtful' = doubtful
    PROVE  Wires' /\ InSync'
<1> DEFINE L == [s \in Sockets |->
                       IF s \notin clients THEN sock[s]
                       ELSE IF sock[s].alive THEN [sock[s] EXCEPT !.alive = FALSE]
                       ELSE Terminate(sock[s])]
<1>1. sock' = Tidy(L) /\ clients' \subseteq clients /\ UNCHANGED <<page, currentState>>
  BY DEF heartBeat
<1>2. ASSUME NEW t \in Sockets PROVE Later(sock[t], L[t]) /\ Alike(sock[t], L[t])
  <2>1. SocketOK(sock[t]) /\ (t \in clients => sock[t].owner # "nobody")
    BY DEF Wires, SocketsOK
  <2>2. CASE t \notin clients
    BY <2>1, <2>2, LaterSelf
  <2>3. CASE t \in clients /\ sock[t].alive
    <3> DEFINE l == [sock[t] EXCEPT !.alive = FALSE]
    <3>1. L[t] = l
      BY <2>3
    <3>2. /\ DOMAIN l = DOMAIN sock[t] /\ l.owner = sock[t].owner
          /\ l.near = sock[t].near /\ l.far = sock[t].far /\ l.natural = sock[t].natural
          /\ l.down = sock[t].down /\ l.missed = sock[t].missed /\ l.up = sock[t].up
      BY FieldsOf DEF Wires
    <3> HIDE DEF l, L
    <3>3. AllSane(l.up)
      BY <2>1, <3>2 DEF SocketOK
    <3> QED BY <2>1, <2>3, <3>1, <3>2, <3>3, SmallChange
  <2>4. CASE t \in clients /\ ~sock[t].alive
    BY <2>1, <2>4, TerminateLater
  <2> QED BY <2>2, <2>3, <2>4
<1>3. DOMAIN L = Sockets
  OBVIOUS
<1> HIDE DEF L
<1>4. AllLater(sock') /\ AllAlike(sock')
  BY <1>1, <1>2, <1>3, TidyAll DEF AllLater, AllAlike
<1>5. PagesOK'
  BY <1>1 DEF PagesOK, Wires
<1> QED BY <1>1, <1>4, <1>5, StillStep

\* One socket is closed by the server, or answers.
LEMMA OneStill ==
    ASSUME Wires, InSync, NEW s \in Sockets, NEW l, Later(sock[s], l), Alike(sock[s], l),
           sock' = [sock EXCEPT ![s] = l], UNCHANGED <<page, currentState>>,
           clients' \subseteq clients, doubtful' = doubtful
    PROVE  Wires' /\ InSync'
<1>1. AllLater(sock') /\ AllAlike(sock') /\ PagesOK'
  BY OneLater DEF Wires, PagesOK
<1> QED BY <1>1, StillStep

LEMMA AuthTimeoutStep ==
    ASSUME Wires, InSync, NEW s \in Sockets, AuthTimeout(s)
    PROVE  Wires' /\ InSync'
<1> DEFINE l == CloseWith(sock[s], "close")
<1>1. /\ sock' = [sock EXCEPT ![s] = l] /\ UNCHANGED <<page, currentState, clients, doubtful>>
  BY DEF AuthTimeout, PlayerVars, MainVars
<1>2. Later(sock[s], l) /\ Alike(sock[s], l)
  BY CloseLater DEF Wires, SocketsOK
<1> HIDE DEF l
<1> QED BY <1>1, <1>2, OneStill

LEMMA PongStep ==
    ASSUME Wires, InSync, NEW s \in Sockets, Pong(s)
    PROVE  Wires' /\ InSync'
<1> DEFINE l == [sock[s] EXCEPT !.alive = TRUE]
<1>1. /\ sock' = [sock EXCEPT ![s] = l] /\ UNCHANGED <<page, currentState, clients, doubtful>>
  BY DEF Pong, PlayerVars, MainVars
<1>2. /\ SocketOK(sock[s]) /\ sock[s].owner # "nobody"
  BY ClientsAssumption DEF Pong, Wires, SocketsOK, SocketOK, Held
<1>3. /\ DOMAIN l = DOMAIN sock[s] /\ l.owner = sock[s].owner
      /\ l.near = sock[s].near /\ l.far = sock[s].far /\ l.natural = sock[s].natural
      /\ l.down = sock[s].down /\ l.missed = sock[s].missed /\ l.up = sock[s].up
  BY FieldsOf DEF Wires
<1> HIDE DEF l
<1>4. AllSane(l.up)
  BY <1>2, <1>3 DEF SocketOK
<1>5. Later(sock[s], l) /\ Alike(sock[s], l)
  BY <1>2, <1>3, <1>4, SmallChange
<1> QED BY <1>1, <1>5, OneStill

LEMMA CloseAllStep ==
    ASSUME Wires, InSync, NEW event, sock' = CloseAll(event) \/ sock' = sock,
           UNCHANGED <<page, currentState, doubtful>>, clients' \subseteq clients
    PROVE  Wires' /\ InSync'
<1> DEFINE L == CloseAll(event)
<1>1. DOMAIN L = Sockets /\ \A t \in Sockets : L[t] = CloseWith(sock[t], event) \/ L[t] = sock[t]
  BY DEF CloseAll
<1> HIDE DEF L
<1>2. \A t \in Sockets : Later(sock[t], L[t]) /\ Alike(sock[t], L[t])
  BY <1>1, CloseLater, LaterSelf DEF Wires, SocketsOK
<1>3. AllLater(L) /\ AllAlike(L)
  BY <1>1, <1>2 DEF AllLater, AllAlike
<1>4. AllLater(sock') /\ AllAlike(sock')
  BY <1>3, SameLater DEF L, Wires
<1>5. PagesOK'
  BY DEF PagesOK, Wires
<1> QED BY <1>4, <1>5, StillStep

-----------------------------------------------------------------------------
(* What the server sends.                                                  *)

\* The message goes to all clients that get any, after something was read from a
\* socket at most.
LEMMA BroadcastStep ==
    ASSUME Wires, InSync, NEW K, AllLater(K),
           \A t \in Sockets : /\ K[t].owner = sock[t].owner /\ K[t].near = sock[t].near
                              /\ K[t].far = sock[t].far /\ K[t].down = sock[t].down
                              /\ K[t].missed = sock[t].missed,
           NEW m, m.event \in {"song", "favorite", "playback", "volume"},
           m.event = "favorite" => currentState.song = m.data.song,
           DOMAIN currentState = Fields,
           sock' = broadcast(K, m), currentState' = Apply(currentState, m),
           UNCHANGED <<page, clients, doubtful>>
    PROVE  Wires' /\ InSync'
<1>1. /\ DOMAIN sock' = Sockets
      /\ \A t \in Sockets : sock'[t] = IF t \in clients THEN send(K[t], m) ELSE K[t]
  BY DEF broadcast
<1>2. \A t \in Sockets : SocketOK(K[t]) /\ Later(sock[t], K[t])
  BY DEF AllLater, Later
<1>3. ASSUME NEW t \in Sockets PROVE Later(K[t], sock'[t])
  <2>1. SocketOK(K[t])
    BY <1>2
  <2>2. CASE t \in clients
    <3>1. Later(K[t], send(K[t], m))
      BY <2>1, SendLater
    <3>2. sock'[t] = send(K[t], m)
      BY <1>1, <2>2
    <3> QED BY <3>1, <3>2
  <2>3. CASE t \notin clients
    BY <1>1, <2>1, <2>3, LaterSelf
  <2> QED BY <2>2, <2>3
<1>4. AllLater(sock')
  BY <1>1, <1>2, <1>3, LaterTrans DEF AllLater
<1>5. PagesOK'
  BY DEF PagesOK, Wires
<1>6. Wires'
  BY <1>4, <1>5, WiresKept
<1>7. ASSUME NEW t \in clients, Follows(t)'
      PROVE  Matches(Shown(t)', sock'[t].missed, currentState', doubtful)
  <2> DEFINE k == K[t]  l == sock'[t]  info == page[sock[t].owner].info
  <2>1. t \in Sockets /\ l = send(k, m) /\ SocketOK(k)
    BY <1>1, <1>2 DEF Wires
  <2>2. /\ k.owner = sock[t].owner /\ k.near = sock[t].near /\ k.far = sock[t].far
        /\ k.down = sock[t].down /\ k.missed = sock[t].missed
    BY <2>1
  <2> HIDE DEF k, l
  <2>3. /\ l.owner = k.owner /\ l.far = k.far /\ l.near = k.near
        /\ Held(k) /\ k.far = "open" =>
                \/ /\ l.down = Append(k.down, m)
                   /\ l.missed = IF m.event = "favorite" /\ "song" \in k.missed
                                 THEN k.missed ELSE k.missed \ Reports(m)
                \/ l.down = k.down /\ l.missed = k.missed \union Reports(m)
    BY <2>1, SendLater
  <2>4. /\ sock[t].far = "open" /\ Held(sock[t]) /\ Held(k)
        /\ page[sock[t].owner].socket = t /\ ~page[sock[t].owner].leaky
    BY <1>7, <2>2, <2>3 DEF Follows, Held, l
  <2>5. /\ Shown(t)' = Read(info, l.down) /\ Shown(t) = Read(info, k.down) /\ IsSeq(k.down)
    BY <2>1, <2>2, <2>3, <2>4 DEF Shown, l, SocketOK
  <2>6. Matches(Shown(t), k.missed, currentState, doubtful)
    BY <2>2, <2>4 DEF InSync, Follows
  <2> HIDE DEF info
  <2>7. Read(info, Append(k.down, m)) = Apply(Shown(t), m)
    BY <2>5, ReadAppend
  <2>8. /\ Matches(Shown(t), k.missed \union Reports(m), currentState', doubtful)
        /\ m.event = "favorite" /\ "song" \in k.missed
             => Matches(Apply(Shown(t), m), k.missed, currentState', doubtful)
        /\ ~(m.event = "favorite" /\ "song" \in k.missed)
             => Matches(Apply(Shown(t), m), k.missed \ Reports(m), currentState', doubtful)
    BY <2>6, MessageMatches
  <2>9. Matches(Read(info, l.down), l.missed, currentState', doubtful)
    <3>1. CASE l.down = k.down /\ l.missed = k.missed \union Reports(m)
      BY <2>5, <2>8, <3>1
    <3>2. CASE l.down = Append(k.down, m)
      BY <2>2, <2>3, <2>4, <2>5, <2>7, <2>8, <3>2
    <3> QED BY <2>2, <2>3, <2>4, <3>1, <3>2
  <2> QED BY <2>5, <2>9 DEF l
<1>8. InSync'
  BY <1>7 DEF InSync
<1> QED BY <1>6, <1>8

LEMMA SameSockets ==
    ASSUME Wires
    PROVE  /\ AllLater(sock)
           /\ \A t \in Sockets : /\ sock[t].owner = sock[t].owner /\ sock[t].near = sock[t].near
                                 /\ sock[t].far = sock[t].far /\ sock[t].down = sock[t].down
                                 /\ sock[t].missed = sock[t].missed
BY SameLater DEF Wires

\* The reports of the player are passed on.
LEMMA PassedOn ==
    ASSUME Story, Wires, InSync, Records, Mail, MainReceives
    PROVE  Wires' /\ InSync'
<1> DEFINE h == Head(toMain)  d == h.data
<1>1. /\ toMain # <<>> /\ UNCHANGED <<page, doubtful>>
  BY DEF MainReceives
<1>2. IsSeq(toMain) /\ Sane(h) /\ Len(toMain) \in Nat \ {0} /\ h = toMain[1] /\ h.event \in Reported
  BY <1>1, SaneTail, TailFacts DEF Story, AllSane, Mail
<1>3. /\ h.event = "update-playback" => updatePlayback(d)
      /\ h.event = "update-volume" => updateVolume(d)
      /\ h.event = "update-song" => updateSong(d)
      /\ h.event = "update-favorite" => updateFavorite(d)
      /\ h.event \in Switching => /\ UNCHANGED currentState /\ clients' \subseteq clients
                                  /\ sock' = CloseAll("close") \/ sock' = sock
  BY DEF MainReceives, enableServer, shutdownServer, Switching
<1>4. DOMAIN currentState = Fields
  BY DEF Records, Fields, Empty
<1> HIDE DEF h
<1>5. CASE h.event = "update-playback"
  <2> DEFINE m == Msg("playback", d)
  <2>1. m.event = "playback" /\ currentState' = Apply(currentState, m) /\ sock' = broadcast(sock, m)
        /\ UNCHANGED clients
    BY <1>3, <1>5 DEF updatePlayback, Apply, Msg
  <2> HIDE DEF m
  <2> QED BY <1>1, <1>4, <2>1, SameSockets, BroadcastStep
<1>6. CASE h.event = "update-volume"
  <2> DEFINE m == Msg("volume", d)
  <2>1. m.event = "volume" /\ currentState' = Apply(currentState, m) /\ sock' = broadcast(sock, m)
        /\ UNCHANGED clients
    BY <1>3, <1>6 DEF updateVolume, Apply, Msg
  <2> HIDE DEF m
  <2> QED BY <1>1, <1>4, <2>1, SameSockets, BroadcastStep
<1>7. CASE h.event = "update-song" /\ d.song # currentState.song
  <2> DEFINE m == Msg("song", d)
  <2>1. m.event = "song" /\ currentState' = Apply(currentState, m) /\ sock' = broadcast(sock, m)
        /\ UNCHANGED clients
    BY <1>3, <1>7 DEF updateSong, Apply, Msg
  <2> HIDE DEF m
  <2> QED BY <1>1, <1>4, <2>1, SameSockets, BroadcastStep
<1>8. CASE h.event = "update-favorite" /\ currentState.song = d.song
  <2> DEFINE m == Msg("favorite", d)
  <2>1. m.event = "favorite" /\ currentState' = Apply(currentState, m) /\ sock' = broadcast(sock, m)
        /\ UNCHANGED clients /\ currentState.song = m.data.song
    BY <1>3, <1>8 DEF updateFavorite, Apply, Msg
  <2> HIDE DEF m
  <2> QED BY <1>1, <1>4, <2>1, SameSockets, BroadcastStep
<1>9. CASE h.event = "update-favorite" /\ currentState.song # d.song
  <2>1. UNCHANGED <<currentState, sock, clients>>
    BY <1>3, <1>9 DEF updateFavorite
  <2> QED BY <1>1, <2>1, NoWires
<1>10. CASE h.event \in Switching
  BY <1>1, <1>3, <1>10, CloseAllStep
<1>11. CASE h.event = "update-song" /\ d.song = currentState.song
  <2>1. /\ currentState' = [currentState EXCEPT !.song = d.song, !.fav = d.fav]
        /\ UNCHANGED <<sock, clients>>
    BY <1>3, <1>11 DEF updateSong
  <2>2. currentState.song \in doubtful \/ d.fav = currentState.fav
    <3>1. CASE currentState.song = NoSong
      BY <1>2, <1>11, <3>1 DEF Story, Sane
    <3>2. CASE currentState.song \in Songs \ doubtful
      <4>1. 1 \in 1 .. Len(toMain) /\ 1 - 1 = 0
        BY <1>2
      <4>2. Told(toMain, 1, currentState.song, d.fav, currentState)
        BY <1>2, <1>11, <3>2, <4>1 DEF Story, Consistent
      <4>3. \A k \in 1 .. 1 - 1 : ~Names(toMain[k], currentState.song)
        BY <4>1
      <4> QED BY <4>2, <4>3 DEF Told
    <3> QED BY <3>1, <3>2 DEF Story
  <2>3. /\ currentState'.song = currentState.song
        /\ \A f \in Fields : \/ f = "fav" /\ currentState.song \in doubtful
                             \/ currentState'[f] = currentState[f]
    BY <1>4, <1>11, <2>1, <2>2 DEF Fields, Empty
  <2>4. Wires'
    BY <1>1, <2>1 DEF Wires, SocketsOK, PagesOK, OneSocket
  <2>5. InSync'
    <3> SUFFICES ASSUME NEW s \in clients, Follows(s)
                 PROVE  Matches(Shown(s), sock[s].missed, currentState', doubtful)
      BY <1>1, <2>1 DEF InSync, Follows, Shown
    <3>1. Matches(Shown(s), sock[s].missed, currentState, doubtful)
      BY DEF InSync
    <3> QED BY <2>3, <3>1 DEF Matches
  <2> QED BY <2>4, <2>5
<1> QED BY <1>2, <1>5, <1>6, <1>7, <1>8, <1>9, <1>10, <1>11 DEF Reported

\* A new connection gets the whole state.
LEMMA ConnectStep ==
    ASSUME Wires, InSync, Records, NEW s \in Sockets, Connect(s)
    PROVE  Wires' /\ InSync'
<1> DEFINE k == sock[s]
           a == Msg("open", Empty)
           b == Msg("state", currentState)
           l == [k EXCEPT !.far = "open", !.alive = TRUE, !.auth = ~secured, !.down = <<a, b>>]
<1>1. /\ k.near = "connecting" /\ k.far = "none" /\ sock' = [sock EXCEPT ![s] = l]
      /\ clients' = clients \union {s} /\ UNCHANGED <<page, currentState, doubtful>>
  BY DEF Connect, PlayerVars
<1>2. SocketOK(k) /\ DOMAIN sock = Sockets
      /\ DOMAIN k = {"owner", "near", "natural", "far", "auth", "alive", "down", "up", "missed"}
  BY FieldsOf DEF Wires
<1>3. Held(k) /\ k.owner \in Clients /\ k.owner # "nobody"
  BY <1>1, <1>2, ClientsAssumption DEF Held, SocketOK
<1>4. /\ DOMAIN l = DOMAIN k /\ l.owner = k.owner /\ l.near = k.near /\ l.natural = k.natural
      /\ l.up = k.up /\ l.down = <<a, b>> /\ l.missed = k.missed
  BY <1>2
<1>5. /\ a.event = "open" /\ b.event = "state" /\ b.data = currentState
  BY DEF Msg
<1> HIDE DEF a, b, l
<1>6. IsSeq(l.down)
  <2>1. <<a, b>> \in Seq({a, b})
    OBVIOUS
  <2> QED BY <1>4, <2>1 DEF IsSeq
<1>7. Later(k, l)
  <2>1. Held(l)
    BY <1>3, <1>4 DEF Held
  <2>2. SocketOK(l)
    BY <1>2, <1>3, <1>4, <1>6, <2>1 DEF SocketOK
  <2> QED BY <1>3, <1>4, <2>2 DEF Later
<1>8. AllLater(sock') /\ PagesOK'
  BY <1>1, <1>7, OneLater DEF Wires, PagesOK
<1>9. Wires'
  BY <1>1, <1>3, <1>8, WiresKept
<1>10. ASSUME NEW t \in clients', Follows(t)'
       PROVE  Matches(Shown(t)', sock'[t].missed, currentState, doubtful)
  <2>1. CASE t = s
    <3>1. sock'[t] = l
      BY <1>1, <1>2, <2>1
    <3>2. Shown(t)' = Read(page[k.owner].info, <<a, b>>)
      BY <1>1, <1>4, <3>1 DEF Shown
    <3>3. Read(page[k.owner].info, <<a, b>>) = currentState
      <4> DEFINE info == page[k.owner].info
      <4> HIDE DEF info
      <4>1. Read(info, <<a, b>>) = Apply(Apply(info, a), b)
        BY ReadTwo
      <4>2. Apply(Apply(info, a), b) = currentState
        BY <1>5 DEF Apply
      <4> QED BY <4>1, <4>2 DEF info
    <3>4. DOMAIN currentState = Fields
      BY DEF Records, Fields, Empty
    <3> QED BY <3>2, <3>3, <3>4 DEF Matches
  <2>2. CASE t # s
    <3>1. t \in clients /\ sock'[t] = sock[t]
      BY <1>1, <1>2, <2>2 DEF Wires
    <3>2. Follows(t) /\ Shown(t)' = Shown(t)
      BY <1>1, <1>10, <3>1 DEF Follows, Shown
    <3> QED BY <3>1, <3>2 DEF InSync
  <2> QED BY <2>1, <2>2
<1>11. InSync'
  BY <1>1, <1>10 DEF InSync
<1> QED BY <1>9, <1>11

-----------------------------------------------------------------------------
(* What the server receives from a page.                                   *)
LEMMA RequestSane ==
    ASSUME AllSane(toPlayer), NEW event, NEW data, Request(event, data),
           event # "update-song" /\ event # "update-favorite" /\ event # "favorite",
           event = "request-favorite" => data.song # NoSong
    PROVE  AllSane(toPlayer')
<1> DEFINE m == Msg(event, data)
<1>1. m.event = event /\ m.data = data /\ toPlayer' = Append(toPlayer, m)
  BY DEF Msg, Request
<1> HIDE DEF m
<1>2. Sane(m)
  BY <1>1 DEF Sane
<1> QED BY <1>1, <1>2, SaneAppend

LEMMA SocketMail ==
    ASSUME Story, Wires, InSync, Records, NEW s \in Sockets, SocketReceives(s)
    PROVE  Story' /\ Wires' /\ InSync'
<1> DEFINE k == sock[s]
           m == Head(k.up)
           k1 == [k EXCEPT !.up = Tail(k.up)]
           K == [sock EXCEPT ![s].up = Tail(@)]
<1>1. /\ k.up # <<>> /\ UNCHANGED <<player, marks, toMain, unsaid, doubtful, page>>
  BY DEF SocketReceives, PlayerVars, Settings
<1>2. /\ \/ /\ sock' = Tidy([K EXCEPT ![s].far = "closed"]) /\ clients' = clients \ {s}
            /\ UNCHANGED <<toPlayer, currentState>>
         \/ Command(s, K, m)
         \/ /\ \/ sock' = [K EXCEPT ![s].auth = TRUE]
               \/ sock' = [K EXCEPT ![s] = CloseWith(@, "close")]
            /\ UNCHANGED <<toPlayer, currentState, clients>>
         \/ sock' = K /\ UNCHANGED <<toPlayer, currentState, clients>>
  BY DEF SocketReceives
<1>3. SocketOK(k) /\ DOMAIN sock = Sockets
      /\ DOMAIN k = {"owner", "near", "natural", "far", "auth", "alive", "down", "up", "missed"}
  BY FieldsOf DEF Wires
<1>4. k.owner # "nobody" /\ AllSane(Tail(k.up)) /\ Sane(m)
  BY <1>1, <1>3, SaneTail DEF SocketOK
<1>5. /\ DOMAIN k1 = DOMAIN k /\ k1.owner = k.owner /\ k1.near = k.near /\ k1.far = k.far
      /\ k1.natural = k.natural /\ k1.down = k.down /\ k1.missed = k.missed /\ k1.up = Tail(k.up)
  BY <1>3
<1>6. K = [sock EXCEPT ![s] = k1]
  BY <1>3
<1> HIDE DEF k1, m, K
<1>7. Later(k, k1) /\ Alike(k, k1)
  BY <1>3, <1>4, <1>5, SmallChange
<1>8. SocketOK(k1)
  BY <1>7 DEF Later
<1>9. /\ AllLater(K)
      /\ \A t \in Sockets : /\ K[t].owner = sock[t].owner /\ K[t].near = sock[t].near
                            /\ K[t].far = sock[t].far /\ K[t].down = sock[t].down
                            /\ K[t].missed = sock[t].missed
  <2>1. AllLater(K)
    BY <1>6, <1>7, OneLater DEF Wires
  <2> QED BY <1>3, <1>5, <1>6, <2>1
<1>10. ASSUME NEW l, Later(k1, l), Alike(k1, l)
       PROVE  AllLater([sock EXCEPT ![s] = l]) /\ AllAlike([sock EXCEPT ![s] = l])
  <2>1. Later(k, l) /\ Alike(k, l)
    BY <1>7, <1>10, LaterTrans
  <2> QED BY <2>1, OneLater DEF Wires
<1>11. \A l : [K EXCEPT ![s] = l] = [sock EXCEPT ![s] = l]
  BY <1>3, <1>6
<1>12. K[s] = k1 /\ DOMAIN K = Sockets
  BY <1>3, <1>6
<1>13. /\ AllLater(K) /\ AllAlike(K)
  <2>1. Later(k1, k1) /\ Alike(k1, k1)
    BY <1>8, LaterSelf
  <2> QED BY <1>6, <1>10, <2>1
<1>14. ASSUME AllLater(sock'), AllAlike(sock'), currentState' = currentState, clients' \subseteq clients,
              AllSane(toPlayer')
       PROVE  Story' /\ Wires' /\ InSync'
  <2>1. PagesOK'
    BY <1>1 DEF Wires, PagesOK
  <2>2. Wires' /\ InSync'
    BY <1>1, <1>14, <2>1, StillStep
  <2>3. Story'
    BY <1>1, <1>14, StorySame
  <2> QED BY <2>2, <2>3
<1>15. AllSane(toPlayer)
  BY DEF Story
<1>16. CASE /\ sock' = Tidy([K EXCEPT ![s].far = "closed"]) /\ clients' = clients \ {s}
            /\ UNCHANGED <<toPlayer, currentState>>
  <2> DEFINE l == [k1 EXCEPT !.far = "closed"]
  <2>1. [K EXCEPT ![s].far = "closed"] = [sock EXCEPT ![s] = l]
    BY <1>11, <1>12
  <2>2. /\ DOMAIN l = DOMAIN k /\ l.owner = k.owner /\ l.near = k.near /\ l.far = "closed"
        /\ l.natural = k.natural /\ l.down = k.down /\ l.up = k1.up
    BY <1>3, <1>5
  <2> HIDE DEF l
  <2>3. Later(k1, l) /\ Alike(k1, l)
    <3>1. Held(l) <=> Held(k1)
      BY <1>5, <2>2 DEF Held
    <3>2. SocketOK(l)
      BY <1>4, <1>5, <1>8, <2>2, <3>1 DEF SocketOK
    <3> QED BY <1>4, <1>5, <2>2, <3>1, <3>2 DEF Later, Alike
  <2>4. AllLater(sock') /\ AllAlike(sock')
    BY <1>10, <1>16, <2>1, <2>3, TidyAll
  <2> QED BY <1>14, <1>15, <1>16, <2>4
<1>17. CASE /\ \/ sock' = [K EXCEPT ![s].auth = TRUE]
               \/ sock' = [K EXCEPT ![s] = CloseWith(@, "close")]
            /\ UNCHANGED <<toPlayer, currentState, clients>>
  <2>1. CASE sock' = [K EXCEPT ![s] = CloseWith(@, "close")]
    <3>1. sock' = [sock EXCEPT ![s] = CloseWith(k1, "close")]
      BY <1>11, <1>12, <2>1
    <3>2. Later(k1, CloseWith(k1, "close")) /\ Alike(k1, CloseWith(k1, "close"))
      BY <1>8, CloseLater
    <3>3. AllLater(sock') /\ AllAlike(sock')
      BY <1>10, <3>1, <3>2
    <3> QED BY <1>14, <1>15, <1>17, <3>3
  <2>2. CASE sock' = [K EXCEPT ![s].auth = TRUE]
    <3> DEFINE l == [k1 EXCEPT !.auth = TRUE]
    <3>1. sock' = [sock EXCEPT ![s] = l]
      BY <1>11, <1>12, <2>2
    <3>2. /\ DOMAIN l = DOMAIN k1 /\ l.owner = k1.owner /\ l.near = k1.near /\ l.far = k1.far
          /\ l.natural = k1.natural /\ l.down = k1.down /\ l.missed = k1.missed /\ l.up = k1.up
      BY <1>3, <1>5
    <3> HIDE DEF l
    <3>3. Later(k1, l) /\ Alike(k1, l)
      BY <1>4, <1>5, <1>8, <3>2, SmallChange
    <3>4. AllLater(sock') /\ AllAlike(sock')
      BY <1>10, <3>1, <3>3
    <3> QED BY <1>14, <1>15, <1>17, <3>4
  <2> QED BY <1>17, <2>1, <2>2
<1>18. CASE sock' = K /\ UNCHANGED <<toPlayer, currentState, clients>>
  BY <1>13, <1>14, <1>15, <1>18
<1>19. CASE Command(s, K, m)
  <2>1. CASE m.event = "volume"
    <3> DEFINE v == Msg("volume", m.data)
    <3>1. /\ v.event = "volume" /\ sock' = broadcast(K, v) /\ UNCHANGED clients
          /\ currentState' = Apply(currentState, v) /\ Request("request-volume", m.data)
          /\ currentState' = [currentState EXCEPT !.volume = m.data.volume]
      BY <1>19, <2>1 DEF Command, Apply, Msg
    <3> HIDE DEF v
    <3>2. AllSane(toPlayer')
      BY <1>15, <3>1, RequestSane
    <3>3. currentState'.song = currentState.song /\ currentState'.fav = currentState.fav
          /\ DOMAIN currentState = Fields
      BY <3>1 DEF Records, Fields, Empty
    <3>4. Story'
      BY <1>1, <3>2, <3>3, StorySame
    <3>5. Wires' /\ InSync'
      <4>1. /\ v.event \in {"song", "favorite", "playback", "volume"}
            /\ v.event = "favorite" => currentState.song = v.data.song
        BY <3>1
      <4>2. UNCHANGED <<page, clients, doubtful>> /\ sock' = broadcast(K, v)
            /\ currentState' = Apply(currentState, v)
        BY <1>1, <3>1
      <4> QED BY <1>9, <3>3, <4>1, <4>2, BroadcastStep
    <3> QED BY <3>4, <3>5
  <2>2. CASE m.event # "volume"
    <3>1. sock' = K /\ UNCHANGED <<currentState, clients>>
      BY <1>19, <2>2 DEF Command
    <3>2. AllSane(toPlayer')
      <4>1. CASE toPlayer' = toPlayer
        BY <1>15, <4>1
      <4>2. CASE m.event = "favorite" /\ Request("request-favorite", m.data)
        BY <1>4, <1>15, <4>2, RequestSane DEF Sane
      <4>3. CASE m.event \in {"play", "pause", "next"} /\ Request(m.event, Empty)
        BY <1>15, <4>3, RequestSane
      <4> QED BY <1>19, <2>2, <4>1, <4>2, <4>3 DEF Command
    <3> QED BY <1>13, <1>14, <3>1, <3>2
  <2> QED BY <2>1, <2>2
<1> QED BY <1>2, <1>16, <1>17, <1>18, <1>19

-----------------------------------------------------------------------------
(* The pages.                                                              *)

\* A page's socket is gone, and the page with it has forgotten what it showed: it
\* was its only one, or the page is leaky.
LEMMA ClosedStep ==
    ASSUME Wires, InSync, NEW s \in Sockets, Held(sock[s]), AllLater(sock'), AllAlike(sock'),
           ~Held(sock'[s]), NEW P, page' = [page EXCEPT ![sock[s].owner] = P],
           P.socket = page[sock[s].owner].socket, P.leaky = page[sock[s].owner].leaky,
           DOMAIN P = DOMAIN page[sock[s].owner],
           UNCHANGED <<clients, currentState, doubtful>>
    PROVE  Wires' /\ InSync'
<1> DEFINE c == sock[s].owner
<1>1. c \in Clients
  BY DEF Wires, SocketsOK, SocketOK
<1>2. /\ DOMAIN page' = Clients /\ page'[c] = P
      /\ \A d \in Clients \ {c} : page'[d] = page[d]
  BY <1>1 DEF Wires, PagesOK
<1>3. PagesOK'
  BY <1>1, <1>2 DEF Wires, PagesOK
<1>4. \A d \in Clients : page'[d].socket = page[d].socket /\ page'[d].leaky = page[d].leaky
  BY <1>2
<1>5. Wires'
  BY <1>3, <1>4, WiresKept
<1>6. ASSUME NEW t \in clients', Follows(t)'
      PROVE  t \in clients /\ Follows(t) /\ Shown(t)' = Shown(t) /\ sock'[t].missed = sock[t].missed
  <2>1. t \in Sockets /\ t \in clients /\ Later(sock[t], sock'[t]) /\ Alike(sock[t], sock'[t])
    BY DEF Wires, AllLater, AllAlike
  <2>2. /\ Held(sock'[t]) /\ page'[sock'[t].owner].socket = t /\ ~page'[sock'[t].owner].leaky
    BY <1>6 DEF Follows
  <2>3. t # s /\ Held(sock[t]) /\ sock'[t].owner = sock[t].owner
    BY <2>1, <2>2 DEF Later
  <2>4. sock[t].owner # c
    BY <1>1, <1>4, <2>2, <2>3 DEF Wires, OneSocket
  <2>5. sock[t].owner \in Clients => page'[sock[t].owner] = page[sock[t].owner]
    BY <1>2, <2>4
  <2> QED BY <1>6, <2>1, <2>5, FollowsKept
<1> QED BY <1>5, <1>6, SyncKept

LEMMA GoneStep ==
    ASSUME Wires, InSync, NEW s \in Sockets, Held(sock[s]), Gone(s)
    PROVE  Wires' /\ InSync'
<1> DEFINE k == sock[s]
           l == [k EXCEPT !.near = "closed", !.missed = {}, !.up = <<>>, !.down = <<>>]
           P == Cleared(page[k.owner])
<1>1. /\ sock' = Tidy([sock EXCEPT ![s] = l]) /\ page' = [page EXCEPT ![k.owner] = P]
      /\ UNCHANGED <<clients, currentState, doubtful>>
  BY DEF Gone, PageOnly, PlayerVars, MainVars
<1>2. SocketOK(k) /\ DOMAIN sock = Sockets
      /\ DOMAIN k = {"owner", "near", "natural", "far", "auth", "alive", "down", "up", "missed"}
  BY FieldsOf DEF Wires
<1>3. k.owner \in Clients /\ k.owner # "nobody"
  BY <1>2, ClientsAssumption DEF SocketOK
<1>4. /\ DOMAIN l = DOMAIN k /\ l.owner = k.owner /\ l.near = "closed" /\ l.up = <<>>
  BY <1>2
<1>5. P.socket = page[k.owner].socket /\ P.leaky = page[k.owner].leaky
      /\ DOMAIN P = DOMAIN page[k.owner]
  BY <1>3 DEF Cleared, Wires, PagesOK
<1> HIDE DEF l, P
<1>6. ~Held(l)
  BY <1>4 DEF Held
<1>7. Later(k, l) /\ Alike(k, l)
  <2>1. SocketOK(l)
    BY <1>2, <1>3, <1>4, <1>6, SaneEmpty DEF SocketOK
  <2> QED BY <1>3, <1>4, <1>6, <2>1 DEF Later, Alike
<1> DEFINE L == [sock EXCEPT ![s] = l]
<1>8. AllLater(L) /\ AllAlike(L) /\ L[s] = l
  BY <1>2, <1>7, OneLater DEF Wires
<1> HIDE DEF L
<1>9. AllLater(sock') /\ AllAlike(sock')
  BY <1>1, <1>8, TidyAll DEF L
<1>10. ~Held(sock'[s])
  <2>1. Later(k, L[s])
    BY <1>7, <1>8
  <2>2. Held(Tidy(L)[s]) => Tidy(L)[s] = L[s]
    BY <2>1, TidyLater
  <2> QED BY <1>1, <1>6, <1>8, <2>2 DEF L
<1> QED BY <1>1, <1>5, <1>9, <1>10, ClosedStep

\* The page is reloaded: all its sockets are closed.
LEMMA ReloadedStep ==
    ASSUME Wires, InSync, NEW c, NEW K, AllLater(K), AllAlike(K), sock' = Tidy(AbandonAll(K, c)),
           PagesOK', \A d \in Clients \ {c} : page'[d] = page[d],
           UNCHANGED <<clients, currentState, doubtful>>
    PROVE  Wires' /\ InSync'
<1> DEFINE A == AbandonAll(K, c)
<1>1. /\ DOMAIN A = Sockets
      /\ \A t \in Sockets : A[t] = IF K[t].owner = c /\ Held(K[t]) THEN Abandon(K[t]) ELSE K[t]
  BY DEF AbandonAll
<1>2. \A t \in Sockets : Later(sock[t], K[t]) /\ Alike(sock[t], K[t])
  BY DEF AllLater, AllAlike
<1> HIDE DEF A
<1>3. ASSUME NEW t \in Sockets
      PROVE  /\ Later(sock[t], A[t]) /\ Alike(sock[t], A[t])
             /\ Held(A[t]) => A[t].owner # c
  <2>1. CASE K[t].owner = c /\ Held(K[t])
    <3>1. SocketOK(K[t]) /\ A[t] = Abandon(K[t])
      BY <1>1, <1>2, <2>1 DEF Later
    <3>2. Later(K[t], A[t]) /\ ~Held(A[t])
      BY <2>1, <3>1, AbandonLater
    <3>3. Later(sock[t], A[t])
      BY <1>2, <3>2, LaterTrans
    <3> QED BY <3>2, <3>3 DEF Alike
  <2>2. CASE ~(K[t].owner = c /\ Held(K[t]))
    <3>1. A[t] = K[t]
      BY <1>1, <2>2
    <3> QED BY <1>2, <2>2, <3>1
  <2> QED BY <2>1, <2>2
<1>4. AllLater(A) /\ AllAlike(A)
  BY <1>1, <1>3 DEF AllLater, AllAlike
<1>5. AllLater(sock') /\ AllAlike(sock')
  BY <1>4, TidyAll DEF A
<1>6. ASSUME NEW t \in Sockets, Held(sock'[t])
      PROVE  sock'[t].owner = sock[t].owner /\ sock[t].owner \in Clients \ {c} /\ Held(sock[t])
  <2>1. sock' = Tidy(A) /\ Later(sock[t], A[t])
    BY <1>3 DEF A
  <2>2. sock'[t] = A[t]
    BY <1>6, <2>1, TidyLater
  <2>3. Held(sock[t]) /\ A[t].owner = sock[t].owner
    BY <1>6, <2>1, <2>2 DEF Later
  <2> QED BY <1>3, <1>6, <2>2, <2>3 DEF Wires, SocketsOK, SocketOK
<1>7. SocketsOK'
  BY <1>5 DEF AllLater, Later, SocketsOK
<1>8. OneSocket'
  BY <1>6 DEF OneSocket, Wires
<1>9. \A t \in clients : sock'[t].owner # "nobody"
  BY <1>5 DEF AllLater, Later, Wires
<1>10. Wires'
  BY <1>7, <1>8, <1>9 DEF Wires
<1>11. ASSUME NEW t \in clients', Follows(t)'
       PROVE  t \in clients /\ Follows(t) /\ Shown(t)' = Shown(t) /\ sock'[t].missed = sock[t].missed
  <2>1. t \in Sockets /\ t \in clients /\ Later(sock[t], sock'[t]) /\ Alike(sock[t], sock'[t])
    BY <1>5 DEF Wires, AllLater, AllAlike
  <2>2. Held(sock'[t])
    BY <1>11 DEF Follows
  <2>3. page'[sock[t].owner] = page[sock[t].owner]
    BY <1>6, <2>1, <2>2
  <2> QED BY <1>11, <2>1, <2>3, FollowsKept
<1> QED BY <1>10, <1>11, SyncKept

LEMMA PageReloadStep ==
    ASSUME Wires, InSync, NEW c \in Clients, PageReload(c)
    PROVE  Wires' /\ InSync'
<1> DEFINE P == Reloaded(page[c])
<1>1. /\ page' = [page EXCEPT ![c] = P] /\ sock' = Tidy(AbandonAll(sock, c))
      /\ UNCHANGED <<clients, currentState, doubtful>>
  BY DEF PageReload, PageOnly, PlayerVars, MainVars
<1>2. DOMAIN P = DOMAIN page[c]
  BY DEF Reloaded
<1> HIDE DEF P
<1>3. PagesOK' /\ \A d \in Clients \ {c} : page'[d] = page[d]
  BY <1>1, <1>2 DEF Wires, PagesOK
<1>4. AllLater(sock) /\ AllAlike(sock)
  BY SameLater DEF Wires
<1> QED BY <1>1, <1>3, <1>4, ReloadedStep

LEMMA ReconnectStep ==
    ASSUME Wires, InSync, NEW c \in Clients, Reconnect(c)
    PROVE  Wires' /\ InSync'
<1> DEFINE x == page[c].socket  L == [sock EXCEPT ![x] = Abandon(sock[x])]
<1>1. /\ page' = [page EXCEPT ![c].fetching = @ + 1]
      /\ UNCHANGED <<clients, currentState, doubtful>>
      /\ sock' = IF x \in Sockets /\ Held(sock[x]) THEN Tidy(L) ELSE sock
  BY DEF Reconnect, PageOnly, PlayerVars, MainVars
<1>2. PagesOK' /\ \A d \in Clients : /\ page'[d].socket = page[d].socket
                                     /\ page'[d].leaky = page[d].leaky
                                     /\ page'[d].info = page[d].info
  BY <1>1 DEF Wires, PagesOK
<1>3. CASE x \in Sockets /\ Held(sock[x])
  <2>1. Later(sock[x], Abandon(sock[x])) /\ Alike(sock[x], Abandon(sock[x]))
    BY <1>3, AbandonLater DEF Wires, SocketsOK, Alike
  <2>2. AllLater(L) /\ AllAlike(L)
    BY <1>3, <2>1, OneLater DEF Wires
  <2>3. AllLater(sock') /\ AllAlike(sock')
    BY <1>1, <1>3, <2>2, TidyAll
  <2> QED BY <1>1, <1>2, <2>3, StillStep
<1>4. CASE ~(x \in Sockets /\ Held(sock[x]))
  <2>1. AllLater(sock') /\ AllAlike(sock')
    BY <1>1, <1>4, SameLater DEF Wires
  <2> QED BY <1>1, <1>2, <2>1, StillStep
<1> QED BY <1>3, <1>4

LEMMA ControlsSane == ASSUME NEW info, NEW m \in Controls(info) PROVE Sane(m)
<1>1. m.event \in {"volume", "next", "favorite", "play", "pause"}
  BY DEF Controls, Msg
<1> DEFINE d == [Empty EXCEPT !.song = info.song, !.fav = Flip(info.fav)]
<1>2. d.song = info.song
  BY DEF Empty
<1>3. m.event # "favorite" \/ (info.song # NoSong /\ m = Msg("favorite", d))
  BY DEF Controls, Msg
<1> HIDE DEF d
<1>4. m.event = "favorite" => m.data.song # NoSong
  BY <1>2, <1>3 DEF Msg
<1> QED BY <1>1, <1>4 DEF Sane

LEMMA UserAtRemoteStep ==
    ASSUME Wires, InSync, NEW c \in Clients, UserAtRemote(c)
    PROVE  Wires' /\ InSync'
<1> DEFINE s == page[c].socket  k == sock[s]
<1>1. PICK m \in Controls(page[c].info) : sock' = [sock EXCEPT ![s].up = Append(@, m)]
  BY DEF UserAtRemote
<1>2. s \in Sockets /\ k.near = "open" /\ UNCHANGED <<page, clients, currentState, doubtful>>
  BY DEF UserAtRemote, PageOnly, PlayerVars, MainVars
<1> DEFINE l == [k EXCEPT !.up = Append(@, m)]
<1>3. sock' = [sock EXCEPT ![s] = l]
  BY <1>1
<1>4. /\ SocketOK(k) /\ DOMAIN sock = Sockets
      /\ DOMAIN k = {"owner", "near", "natural", "far", "auth", "alive", "down", "up", "missed"}
  BY <1>2, FieldsOf DEF Wires
<1>5. k.owner # "nobody" /\ AllSane(k.up)
  BY <1>2, <1>4 DEF SocketOK
<1>6. /\ DOMAIN l = DOMAIN k /\ l.owner = k.owner /\ l.near = k.near /\ l.far = k.far
      /\ l.natural = k.natural /\ l.down = k.down /\ l.missed = k.missed /\ l.up = Append(k.up, m)
  BY <1>4
<1> HIDE DEF l
<1>7. AllSane(l.up)
  BY <1>5, <1>6, SaneAppend, ControlsSane
<1>8. Later(k, l) /\ Alike(k, l)
  BY <1>4, <1>5, <1>6, <1>7, SmallChange
<1> QED BY <1>2, <1>3, <1>8, OneStill

LEMMA NewSocketStep ==
    ASSUME Wires, InSync, NEW c \in Clients, NewSocket(c)
    PROVE  Wires' /\ InSync'
<1>1. PICK s \in Fresh :
        /\ sock' = [sock EXCEPT ![s].owner = c, ![s].near = "connecting"]
        /\ page' = [page EXCEPT ![c].fetching = @ - 1, ![c].socket = s,
                       ![c].leaky = \E t \in Sockets : sock[t].owner = c /\ Held(sock[t])]
  BY DEF NewSocket
<1>2. UNCHANGED <<clients, currentState, doubtful>>
  BY DEF NewSocket, PageOnly, PlayerVars, MainVars
<1> DEFINE k == sock[s]  l == [k EXCEPT !.owner = c, !.near = "connecting"]
<1>3. s \in Sockets /\ k.owner = "nobody"
  BY DEF Fresh
<1>4. /\ SocketOK(k) /\ DOMAIN sock = Sockets
      /\ DOMAIN k = {"owner", "near", "natural", "far", "auth", "alive", "down", "up", "missed"}
  BY <1>3, FieldsOf DEF Wires
<1>5. /\ DOMAIN l = DOMAIN k /\ l.owner = c /\ l.near = "connecting" /\ l.down = k.down /\ l.up = k.up
  BY <1>4
<1>6. /\ DOMAIN sock' = Sockets /\ sock'[s] = l
      /\ \A t \in Sockets \ {s} : sock'[t] = sock[t]
  BY <1>1, <1>3, <1>4
<1> HIDE DEF l
<1>7. SocketOK(l)
  <2>1. <<>> \in Seq({})
    OBVIOUS
  <2>2. Held(l) /\ IsSeq(l.down) /\ AllSane(l.up) /\ c # "nobody"
    BY <1>3, <1>4, <1>5, <2>1, ClientsAssumption DEF Held, SocketOK, IsSeq
  <2> QED BY <1>4, <1>5, <2>2 DEF SocketOK
<1>8. SocketsOK'
  BY <1>6, <1>7 DEF Wires, SocketsOK
<1>9. /\ page'[c].socket = s
      /\ page'[c].leaky = \E t \in Sockets : sock[t].owner = c /\ Held(sock[t])
      /\ DOMAIN page' = Clients /\ DOMAIN page'[c] = DOMAIN page[c]
      /\ \A d \in Clients \ {c} : page'[d] = page[d]
  BY <1>1 DEF Wires, PagesOK
<1>10. PagesOK'
  BY <1>9 DEF Wires, PagesOK
<1>11. s \notin clients
  BY <1>3 DEF Wires
<1>12. ASSUME NEW t \in Sockets, Held(sock'[t]), ~page'[sock'[t].owner].leaky
       PROVE  page'[sock'[t].owner].socket = t
  <2>1. CASE t = s
    BY <1>5, <1>6, <1>9, <2>1
  <2>2. CASE t # s
    <3>1. sock'[t] = sock[t] /\ sock[t].owner \in Clients
      BY <1>6, <1>12, <2>2 DEF Wires, SocketsOK, SocketOK
    <3>2. sock[t].owner # c
      BY <1>9, <1>12, <3>1
    <3> QED BY <1>9, <1>12, <3>1, <3>2 DEF Wires, OneSocket
  <2> QED BY <2>1, <2>2
<1>13. OneSocket'
  BY <1>12 DEF OneSocket
<1>14. Wires'
  BY <1>2, <1>6, <1>8, <1>10, <1>11, <1>13 DEF Wires
<1>15. ASSUME NEW t \in clients', Follows(t)'
       PROVE  t \in clients /\ Follows(t) /\ Shown(t)' = Shown(t) /\ sock'[t].missed = sock[t].missed
  <2>1. t \in clients /\ t \in Sockets /\ t # s /\ sock'[t] = sock[t]
    BY <1>2, <1>6, <1>11 DEF Wires
  <2>2. /\ Held(sock[t]) /\ page'[sock[t].owner].socket = t
    BY <1>15, <2>1 DEF Follows
  <2>3. sock[t].owner \in Clients \ {c}
    BY <1>9, <2>1, <2>2 DEF Wires, SocketsOK, SocketOK
  <2>4. page'[sock[t].owner] = page[sock[t].owner]
    BY <1>9, <2>3
  <2> QED BY <1>15, <2>1, <2>4 DEF Follows, Shown
<1> QED BY <1>2, <1>14, <1>15, SyncKept

\* The page reads the next message: what it shows in the end is the same.
LEMMA ReadStep ==
    ASSUME Wires, InSync, NEW s \in Sockets, Held(sock[s]), sock[s].down # <<>>,
           NEW l, DOMAIN l = DOMAIN sock[s], l.owner = sock[s].owner, l.far = sock[s].far,
           l.missed = sock[s].missed, Held(l), l.down = Tail(sock[s].down), AllSane(l.up),
           sock' = [sock EXCEPT ![s] = l],
           NEW P, page' = [page EXCEPT ![sock[s].owner] = P],
           P.socket = page[sock[s].owner].socket, P.leaky = page[sock[s].owner].leaky,
           DOMAIN P = DOMAIN page[sock[s].owner],
           P.info = Apply(page[sock[s].owner].info, Head(sock[s].down)),
           UNCHANGED <<clients, currentState, doubtful>>
    PROVE  Wires' /\ InSync'
<1> DEFINE k == sock[s]  c == k.owner
<1>1. SocketOK(k) /\ DOMAIN sock = Sockets
  BY FieldsOf DEF Wires
<1>2. c \in Clients /\ c # "nobody" /\ IsSeq(k.down)
  BY <1>1, ClientsAssumption DEF SocketOK
<1>3. IsSeq(l.down)
  BY <1>2, TailFacts
<1>4. SocketOK(l)
  BY <1>1, <1>2, <1>3 DEF SocketOK
<1>5. Later(k, l)
  BY <1>4 DEF Later
<1>6. AllLater(sock') /\ sock'[s] = l /\ \A t \in Sockets \ {s} : sock'[t] = sock[t]
  BY <1>1, <1>5, OneLater DEF Wires
<1>7. /\ DOMAIN page' = Clients /\ page'[c] = P
      /\ \A d \in Clients \ {c} : page'[d] = page[d]
  BY <1>2 DEF Wires, PagesOK
<1>8. PagesOK'
  BY <1>2, <1>7 DEF Wires, PagesOK
<1>9. \A d \in Clients : page'[d].socket = page[d].socket /\ page'[d].leaky = page[d].leaky
  BY <1>7
<1>10. Wires'
  BY <1>6, <1>8, <1>9, WiresKept
<1>11. ASSUME NEW t \in clients', Follows(t)'
       PROVE  t \in clients /\ Follows(t) /\ Shown(t)' = Shown(t) /\ sock'[t].missed = sock[t].missed
  <2>1. t \in clients /\ t \in Sockets
    BY DEF Wires
  <2>2. CASE t = s
    <3>1. Follows(t)
      BY <1>2, <1>6, <1>9, <1>11, <2>2 DEF Follows
    <3>2. Shown(t)' = Read(P.info, Tail(k.down)) /\ Shown(t) = Read(page[c].info, k.down)
      BY <1>6, <1>7, <2>2 DEF Shown
    <3>3. Read(P.info, Tail(k.down)) = Read(page[c].info, k.down)
      BY <1>2, ReadTail
    <3> QED BY <1>6, <2>1, <2>2, <3>1, <3>2, <3>3
  <2>3. CASE t # s
    <3>1. sock'[t] = sock[t]
      BY <1>6, <2>1, <2>3
    <3>2. /\ Held(sock[t]) /\ page'[sock[t].owner].socket = t /\ ~page'[sock[t].owner].leaky
      BY <1>11, <3>1 DEF Follows
    <3>3. sock[t].owner \in Clients /\ sock[t].owner # c
      BY <1>2, <1>9, <2>1, <2>3, <3>2 DEF Wires, OneSocket, SocketsOK, SocketOK
    <3>4. page'[sock[t].owner] = page[sock[t].owner]
      BY <1>7, <3>3
    <3> QED BY <1>11, <2>1, <3>1, <3>4 DEF Follows, Shown
  <2> QED BY <2>2, <2>3
<1> QED BY <1>10, <1>11, SyncKept

LEMMA PageClosedStep ==
    ASSUME Wires, InSync, NEW s \in Sockets, sock[s].down # <<>>, sock[s].near # "closed", NEW m,
           Closed(s, [sock EXCEPT ![s].down = Tail(@)], m),
           UNCHANGED <<clients, currentState, doubtful>>
    PROVE  Wires' /\ InSync'
<1> DEFINE k == sock[s]
           c == k.owner
           P == IF k.natural THEN page[c] ELSE Cleared(page[c])
           l == [k EXCEPT !.down = Tail(k.down), !.near = "closed", !.missed = {},
                          !.up = IF k.far = "closing" THEN Append(k.up, Msg("close", Empty)) ELSE k.up]
           Done == [sock EXCEPT ![s] = l]
<1>1. SocketOK(k) /\ DOMAIN sock = Sockets
      /\ DOMAIN k = {"owner", "near", "natural", "far", "auth", "alive", "down", "up", "missed"}
  BY FieldsOf DEF Wires
<1>2. IF m.event = "close 4002"
      THEN page' = [page EXCEPT ![c] = Reloaded(P)] /\ sock' = Tidy(AbandonAll(Done, c))
      ELSE page' = [page EXCEPT ![c] = P] /\ sock' = Tidy(Done)
  <2> DEFINE K == [sock EXCEPT ![s].down = Tail(@)]
             D == [K EXCEPT ![s].near = "closed", ![s].missed = {},
                            ![s].up = IF k.far = "closing" THEN Append(@, Msg("close", Empty)) ELSE @]
  <2>1. D = Done
    BY <1>1
  <2>2. IF m.event = "close 4002"
        THEN page' = [page EXCEPT ![c] = Reloaded(P)] /\ sock' = Tidy(AbandonAll(D, c))
        ELSE page' = [page EXCEPT ![c] = P] /\ sock' = Tidy(D)
    BY DEF Closed
  <2> HIDE DEF D, Done
  <2> QED BY <2>1, <2>2
<1>3. /\ DOMAIN l = DOMAIN k /\ l.owner = k.owner /\ l.near = "closed"
      /\ l.up = k.up \/ l.up = Append(k.up, Msg("close", Empty))
  BY <1>1
<1>4. c \in Clients => /\ P.socket = page[c].socket /\ P.leaky = page[c].leaky
                       /\ DOMAIN P = DOMAIN page[c] /\ DOMAIN Reloaded(P) = DOMAIN page[c]
  BY DEF Wires, PagesOK, Cleared, Reloaded
<1>5. k.natural => P = page[c]
  OBVIOUS
<1> HIDE DEF l, P
<1>6. ~Held(l) /\ k.owner # "nobody"
  BY <1>1, <1>3 DEF Held, SocketOK
<1>7. Later(k, l) /\ Alike(k, l)
  <2>1. AllSane(l.up)
    BY <1>1, <1>3, SaneAppend, SaneClose DEF SocketOK
  <2>2. SocketOK(l)
    BY <1>1, <1>3, <1>6, <2>1 DEF SocketOK
  <2> QED BY <1>3, <1>6, <2>2 DEF Later, Alike
<1>8. AllLater(Done) /\ AllAlike(Done) /\ Done[s] = l
  BY <1>1, <1>7, OneLater DEF Wires
<1> HIDE DEF Done
<1>9. CASE m.event = "close 4002"
  <2>1. /\ page' = [page EXCEPT ![c] = Reloaded(P)] /\ sock' = Tidy(AbandonAll(Done, c))
    BY <1>2, <1>9
  <2>2. PagesOK' /\ \A d \in Clients \ {c} : page'[d] = page[d]
    BY <1>4, <2>1 DEF Wires, PagesOK
  <2> QED BY <1>8, <2>1, <2>2, ReloadedStep
<1>10. CASE m.event # "close 4002"
  <2>1. page' = [page EXCEPT ![c] = P] /\ sock' = Tidy(Done)
    BY <1>2, <1>10
  <2>2. AllLater(sock') /\ AllAlike(sock')
    BY <1>8, <2>1, TidyAll
  <2>3. CASE Held(k)
    <3>1. c \in Clients
      BY <1>1, <2>3 DEF SocketOK
    <3>2. ~Held(sock'[s])
      <4>1. Later(k, Done[s])
        BY <1>7, <1>8
      <4>2. Held(Tidy(Done)[s]) => Tidy(Done)[s] = Done[s]
        BY <4>1, TidyLater
      <4> QED BY <1>6, <1>8, <2>1, <4>2
    <3> QED BY <1>4, <2>1, <2>2, <2>3, <3>1, <3>2, ClosedStep
  <2>4. CASE ~Held(k)
    <3>1. P = page[c]
      BY <1>1, <1>5, <1>6, <2>4 DEF SocketOK
    <3>2. PagesOK' /\ \A d \in Clients : page'[d] = page[d]
      BY <2>1, <3>1 DEF Wires, PagesOK
    <3> QED BY <2>2, <3>2, StillStep
  <2> QED BY <2>3, <2>4
<1> QED BY <1>9, <1>10

LEMMA PageReceivesStep ==
    ASSUME Wires, InSync, NEW s \in Sockets, PageReceives(s)
    PROVE  Wires' /\ InSync'
<1> DEFINE k == sock[s]
           c == k.owner
           m == Head(k.down)
           K == [sock EXCEPT ![s].down = Tail(@)]
<1>1. k.down # <<>> /\ UNCHANGED <<clients, currentState, doubtful>>
  BY DEF PageReceives, PageOnly, PlayerVars, MainVars
<1>2. \/ m.event \in Closes /\ k.near # "closed" /\ Closed(s, K, m)
      \/ m.event = "open" /\ Held(k) /\ Opened(s, K)
      \/ /\ m.event \notin Closes \union {"open"} /\ Held(k) /\ sock' = K
         /\ page' = [page EXCEPT ![c].info = Apply(@, m)]
      \/ /\ ~(m.event \in Closes /\ k.near # "closed") /\ ~(m.event = "open" /\ Held(k))
         /\ ~(m.event \notin Closes \union {"open"} /\ Held(k))
         /\ sock' = Tidy(K) /\ page' = page
  BY DEF PageReceives
<1>3. SocketOK(k) /\ DOMAIN sock = Sockets
      /\ DOMAIN k = {"owner", "near", "natural", "far", "auth", "alive", "down", "up", "missed"}
  BY FieldsOf DEF Wires
<1>4. k.owner # "nobody" /\ AllSane(k.up) /\ (Held(k) => c \in Clients)
  BY <1>1, <1>3 DEF SocketOK
<1> DEFINE k1 == [k EXCEPT !.down = Tail(k.down)]
<1>5. /\ DOMAIN k1 = DOMAIN k /\ k1.owner = k.owner /\ k1.near = k.near /\ k1.far = k.far
      /\ k1.natural = k.natural /\ k1.missed = k.missed /\ k1.down = Tail(k.down) /\ k1.up = k.up
  BY <1>3
<1>6. K = [sock EXCEPT ![s] = k1]
  BY <1>3
<1>7. CASE m.event \in Closes /\ k.near # "closed" /\ Closed(s, K, m)
  BY <1>1, <1>7, PageClosedStep
<1>8. CASE m.event = "open" /\ Held(k) /\ Opened(s, K)
  <2>1. PICK login \in BOOLEAN :
          sock' = [K EXCEPT ![s].near = "open",
                            ![s].up = IF login THEN Append(@, Msg("authenticate", Empty)) ELSE @]
    BY <1>8 DEF Opened
  <2> DEFINE l == [k EXCEPT !.down = Tail(k.down), !.near = "open",
                            !.up = IF login THEN Append(k.up, Msg("authenticate", Empty)) ELSE k.up]
             P == [page[c] EXCEPT !.connected = TRUE]
  <2>2. sock' = [sock EXCEPT ![s] = l]
    BY <1>3, <2>1
  <2>3. page' = [page EXCEPT ![c] = P]
    BY <1>8 DEF Opened
  <2>4. /\ DOMAIN l = DOMAIN k /\ l.owner = k.owner /\ l.near = "open" /\ l.far = k.far
        /\ l.missed = k.missed /\ l.down = Tail(k.down)
        /\ l.up = k.up \/ l.up = Append(k.up, Msg("authenticate", Empty))
    BY <1>3
  <2>5. /\ P.socket = page[c].socket /\ P.leaky = page[c].leaky
        /\ DOMAIN P = DOMAIN page[c] /\ P.info = page[c].info
    BY <1>4, <1>8 DEF Wires, PagesOK
  <2> HIDE DEF l, P, m
  <2>6. Sane(Msg("authenticate", Empty))
    BY DEF Sane, Msg
  <2>7. Held(l) /\ AllSane(l.up)
    BY <1>4, <2>4, <2>6, SaneAppend DEF Held
  <2>8. P.info = Apply(page[c].info, m)
    BY <1>8, <2>5 DEF Apply
  <2> QED BY <1>1, <1>8, <2>2, <2>3, <2>4, <2>5, <2>7, <2>8, ReadStep DEF m
<1>9. CASE /\ m.event \notin Closes \union {"open"} /\ Held(k) /\ sock' = K
           /\ page' = [page EXCEPT ![c].info = Apply(@, m)]
  <2> DEFINE P == [page[c] EXCEPT !.info = Apply(@, m)]
  <2>1. page' = [page EXCEPT ![c] = P]
    BY <1>9
  <2>2. /\ P.socket = page[c].socket /\ P.leaky = page[c].leaky
        /\ DOMAIN P = DOMAIN page[c] /\ P.info = Apply(page[c].info, m)
    BY <1>4, <1>9 DEF Wires, PagesOK
  <2>3. Held(k1) /\ AllSane(k1.up) /\ sock' = [sock EXCEPT ![s] = k1]
    BY <1>4, <1>5, <1>6, <1>9 DEF Held
  <2> HIDE DEF P, k1
  <2> QED BY <1>1, <1>5, <1>9, <2>1, <2>2, <2>3, ReadStep
<1>10. CASE /\ ~(m.event \in Closes /\ k.near # "closed") /\ ~(m.event = "open" /\ Held(k))
            /\ ~(m.event \notin Closes \union {"open"} /\ Held(k))
            /\ sock' = Tidy(K) /\ page' = page
  <2> HIDE DEF k1
  <2>1. ~Held(k)
    BY <1>10 DEF Held
  <2>2. ~Held(k1)
    BY <1>5, <2>1 DEF Held
  <2>3. SocketOK(k1)
    BY <1>3, <1>4, <1>5, <2>1, <2>2 DEF SocketOK
  <2>4. Later(k, k1) /\ Alike(k, k1)
    BY <1>5, <2>2, <2>3 DEF Later, Alike
  <2>5. AllLater(sock') /\ AllAlike(sock')
    BY <1>6, <1>10, <2>4, OneLater, TidyAll DEF Wires
  <2>6. PagesOK'
    BY <1>10 DEF Wires, PagesOK
  <2> QED BY <1>1, <1>10, <2>5, <2>6, StillStep
<1> QED BY <1>2, <1>7, <1>8, <1>9, <1>10

-----------------------------------------------------------------------------
(* The player goes on without the pages.                                   *)
LEMMA PlayerStory ==
    ASSUME Story, AgreeInv, AllSane(toPlayer'), currentState' = currentState,
           \/ \E v : Changed("status", v, "update-playback")
           \/ \E v : Changed("volume", v, "update-volume")
           \/ \E s \in Songs \union {NoSong} : ChangeSong(s)
           \/ \E s, f : s # NoSong /\ Favorite(s, f)
           \/ \E i \in DOMAIN marks : \E ok \in BOOLEAN : Answered(i, ok)
           \/ UNCHANGED <<player, toMain, marks, doubtful>>
    PROVE  Story' /\ doubtful \subseteq doubtful'
<1>1. Records /\ MarksCurrent /\ IsSeq(marks)
  BY DEF AgreeInv, MarksCurrent
<1>2. ASSUME NEW v, Changed("status", v, "update-playback") PROVE Story'
  BY <1>1, <1>2, StoryChanged
<1>3. ASSUME NEW v, Changed("volume", v, "update-volume") PROVE Story'
  BY <1>1, <1>3, StoryChanged
<1>4. ASSUME NEW s \in Songs \union {NoSong}, ChangeSong(s) PROVE Story'
  BY <1>1, <1>4, StorySong
<1>5. ASSUME NEW s, s # NoSong, NEW f, Favorite(s, f) PROVE Story'
  BY <1>1, <1>5, StoryFavorite
<1>6. ASSUME NEW i \in DOMAIN marks, NEW ok \in BOOLEAN, Answered(i, ok) PROVE Story'
  BY <1>1, <1>6, StoryAnswered
<1>7. CASE UNCHANGED <<player, toMain, marks, doubtful>>
  BY <1>7, StorySame
<1>8. doubtful \subseteq doubtful'
  BY DEF Changed, ChangeSong, Favorite, Answered
<1> QED BY <1>2, <1>3, <1>4, <1>5, <1>6, <1>7, <1>8

LEMMA PlayerPages ==
    ASSUME PagesInv, RemoteIInv, UserAtPlayer \/ Response \/ PlayerReceives
    PROVE  PagesInv'
<1>1. UNCHANGED <<sock, page, currentState, clients>>
  BY DEF UserAtPlayer, Response, PlayerReceives, Elsewhere, MainVars
<1>2. Story /\ Wires /\ InSync /\ AgreeInv /\ AllSane(toPlayer) /\ Requests
  BY DEF PagesInv, RemoteIInv, Story
<1>3. CASE UserAtPlayer \/ Response
  <2>1. toPlayer' = toPlayer
    BY <1>3 DEF UserAtPlayer, Response, Elsewhere
  <2>2. \/ \E v : Changed("status", v, "update-playback")
        \/ \E v : Changed("volume", v, "update-volume")
        \/ \E s \in Songs \union {NoSong} : ChangeSong(s)
        \/ \E s, f : s # NoSong /\ Favorite(s, f)
        \/ \E i \in DOMAIN marks : \E ok \in BOOLEAN : Answered(i, ok)
    BY <1>3, SongsAssumption DEF UserAtPlayer, Response, setStatus, setVolume
  <2>3. Story' /\ doubtful \subseteq doubtful'
    BY <1>1, <1>2, <2>1, <2>2, PlayerStory
  <2> QED BY <1>1, <1>2, <2>3, NoWires DEF PagesInv
<1>4. CASE PlayerReceives
  <2> DEFINE h == Head(toPlayer)
  <2>1. toPlayer # <<>> /\ toPlayer' = Tail(toPlayer)
    BY <1>4 DEF PlayerReceives
  <2>2. AllSane(toPlayer') /\ Sane(h)
    BY <1>2, <2>1, SaneTail
  <2>3. h.event \in Asked
    BY <1>2, <2>1, RequestTaken
  <2>4. /\ h.event = "request-volume" => setVolume(h.data.volume) \/ Unheard({"volume"})
        /\ h.event = "request-favorite" => Favorite(h.data.song, h.data.fav) \/ Unheard({})
        /\ h.event = "play" => setStatus("playing")
        /\ h.event = "pause" => setStatus("paused")
        /\ h.event = "next" => \/ \E s \in Songs : ChangeSong(s)
                               \/ Unheard({})
    BY <1>4 DEF PlayerReceives
  <2> HIDE DEF h
  <2>5. h.event = "request-favorite" => h.data.song # NoSong
    BY <2>2 DEF Sane
  <2>6. \/ \E v : Changed("status", v, "update-playback")
        \/ \E v : Changed("volume", v, "update-volume")
        \/ \E s \in Songs \union {NoSong} : ChangeSong(s)
        \/ \E s, f : s # NoSong /\ Favorite(s, f)
        \/ UNCHANGED <<player, toMain, marks, doubtful>>
    BY <2>3, <2>4, <2>5 DEF Asked, setStatus, setVolume, Unheard
  <2>7. Story' /\ doubtful \subseteq doubtful'
    BY <1>1, <1>2, <2>2, <2>6, PlayerStory
  <2> QED BY <1>1, <1>2, <2>7, NoWires DEF PagesInv
<1> QED BY <1>3, <1>4

-----------------------------------------------------------------------------
LEMMA PagesInitial == RemoteInit => PagesInv
<1> SUFFICES ASSUME RemoteInit PROVE PagesInv
  OBVIOUS
<1>1. PICK s \in Songs :
        player = [song |-> s, fav |-> [t \in Songs |-> "off"], status |-> "paused",
                  volume |-> CHOOSE v \in Volumes : TRUE]
  BY DEF RemoteInit
<1>2. /\ marks = <<>> /\ toPlayer = <<>> /\ currentState = Empty /\ doubtful = {} /\ clients = {}
      /\ toMain = Mounted(<<>>, player)
      /\ sock = [t \in Sockets |-> Unused]
      /\ page = [c \in Clients |-> [info |-> Empty, connected |-> FALSE, socket |-> NoSocket,
                                    fetching |-> 1, leaky |-> FALSE]]
  BY DEF RemoteInit
<1>3. player.song = s
  BY <1>1
<1>4. currentState.song = NoSong /\ currentState.fav = Unset
  BY <1>2 DEF Empty
<1>5. IsSeq(<<>>) /\ Len(<<>>) = 0
  BY SaneEmpty DEF AllSane
<1>6. AllSane(toMain) /\ \A t \in Songs : Consistent(toMain, t, player.fav[t], currentState)
  <2>1. \A t \in Songs \ doubtful : Consistent(<<>>, t, player.fav[t], currentState)
    BY <1>4, <1>5, SongsAssumption DEF Consistent, Told
  <2> QED BY <1>2, <1>3, <2>1, SaneEmpty, StoryMounted
<1>7. Story
  BY <1>2, <1>3, <1>4, <1>5, <1>6, SaneEmpty DEF Story
<1>8. SocketOK(Unused) /\ ~Held(Unused)
  <2>1. ~Held(Unused)
    BY DEF Held, Unused
  <2>2. Unused.owner = "nobody" /\ Unused.near = "none" /\ Unused.far = "none"
        /\ Unused.down = <<>> /\ Unused.up = <<>>
    BY DEF Unused
  <2> QED BY <2>1, <2>2, SaneEmpty DEF SocketOK
<1>9. Wires
  BY <1>2, <1>8 DEF Wires, SocketsOK, PagesOK, OneSocket
<1>10. InSync
  BY <1>2 DEF InSync
<1> QED BY <1>7, <1>9, <1>10 DEF PagesInv

LEMMA PagesStep == PagesInv /\ RemoteIInv /\ [RemoteNext]_vars => PagesInv'
<1> SUFFICES ASSUME PagesInv, RemoteIInv, [RemoteNext]_vars PROVE PagesInv'
  OBVIOUS
<1>1. Story /\ Wires /\ InSync /\ Records /\ Mail /\ AllSane(toPlayer)
  BY DEF PagesInv, RemoteIInv, AgreeInv, Story
\* What the pages do leaves the story alone.
<1>2. ASSUME PageOnly \/ UNCHANGED <<player, marks, toMain, toPlayer, currentState, doubtful>>
      PROVE  Story'
  BY <1>1, <1>2, StorySame DEF PageOnly, PlayerVars, MainVars
<1>3. CASE UNCHANGED vars
  BY <1>1, <1>2, <1>3, NoWires DEF vars, PagesInv
<1>4. CASE UserAtPlayer \/ Response \/ PlayerReceives
  BY <1>4, PlayerPages
<1>5. CASE MainReceives
  BY <1>1, <1>5, StoryReceives, PassedOn DEF PagesInv
<1>6. CASE RendererReload
  <2>1. UNCHANGED <<sock, page, currentState, clients, doubtful>>
    BY <1>6 DEF RendererReload, MainVars
  <2> QED BY <1>1, <1>6, <2>1, StoryReload, NoWires DEF PagesInv
<1>7. ASSUME NEW s \in Sockets, SocketReceives(s) PROVE PagesInv'
  BY <1>1, <1>7, SocketMail DEF PagesInv
<1>8. ASSUME NEW s \in Sockets, Connect(s) PROVE PagesInv'
  <2>1. UNCHANGED <<player, marks, toMain, toPlayer, currentState, doubtful>>
    BY <1>8 DEF Connect, PlayerVars
  <2> QED BY <1>1, <1>2, <1>8, <2>1, ConnectStep DEF PagesInv
<1>9. ASSUME NEW s \in Sockets, Refused(s) \/ Lost(s) PROVE PagesInv'
  <2>1. PageOnly /\ Gone(s) /\ Held(sock[s])
    BY <1>9 DEF Refused, Lost, Gone, Held
  <2> QED BY <1>1, <1>2, <2>1, GoneStep DEF PagesInv
<1>10. ASSUME NEW s \in Sockets, PageReceives(s) PROVE PagesInv'
  <2>1. PageOnly
    BY <1>10 DEF PageReceives
  <2> QED BY <1>1, <1>2, <1>10, <2>1, PageReceivesStep DEF PagesInv
<1>11. ASSUME NEW s \in Sockets, AuthTimeout(s) \/ Pong(s) PROVE PagesInv'
  <2>1. UNCHANGED <<player, marks, toMain, toPlayer, currentState, doubtful>>
    BY <1>11 DEF AuthTimeout, Pong, PlayerVars, MainVars
  <2> QED BY <1>1, <1>2, <1>11, <2>1, AuthTimeoutStep, PongStep DEF PagesInv
<1>12. CASE RemotePassword
  <2>1. UNCHANGED <<player, marks, toMain, toPlayer, currentState, doubtful, page>>
    BY <1>12 DEF RemotePassword, PlayerVars
  <2>2. /\ \E event : sock' = CloseAll(event) \/ sock' = sock
        /\ clients' \subseteq clients
    BY <1>12 DEF RemotePassword
  <2> QED BY <1>1, <1>2, <2>1, <2>2, CloseAllStep DEF PagesInv
<1>13. CASE heartBeat
  <2>1. UNCHANGED <<player, marks, toMain, toPlayer, currentState, doubtful>>
    BY <1>13 DEF heartBeat, PlayerVars
  <2> QED BY <1>1, <1>2, <1>13, <2>1, HeartBeatStep DEF PagesInv
<1>14. ASSUME NEW c \in Clients, NewSocket(c) \/ Reconnect(c) \/ PageReload(c) \/ UserAtRemote(c)
       PROVE  PagesInv'
  <2>1. PageOnly
    BY <1>14 DEF NewSocket, Reconnect, PageReload, UserAtRemote
  <2>2. Wires' /\ InSync'
    BY <1>1, <1>14, NewSocketStep, ReconnectStep, PageReloadStep, UserAtRemoteStep
  <2> QED BY <1>2, <2>1, <2>2 DEF PagesInv
<1>15. CASE SetRemoteEnabled \/ RemoteSwitched
  <2>1. UNCHANGED <<sock, page, currentState, clients, doubtful>>
    BY <1>15 DEF SetRemoteEnabled, RemoteSwitched, Elsewhere, MainVars
  <2> QED BY <1>1, <1>15, <2>1, StorySetting, StorySwitched, NoWires DEF PagesInv
<1> QED BY <1>3, <1>4, <1>5, <1>6, <1>7, <1>8, <1>9, <1>10, <1>11, <1>12, <1>13, <1>14, <1>15
       DEF RemoteNext, Working

(***************************************************************************)
(* What a remote page shows, once it has read what is on the way to it, is *)
(* what the main process knows (remote/index.ts: the state sent on         *)
(* connecting and the broadcasts after it), but for the facts it was not   *)
(* sent while its ping was unanswered or it had not logged in: for any     *)
(* number of pages, sockets and songs, through reloads, lost connections,  *)
(* restarts and changed passwords.  It is about the sockets of the present *)
(* wsServer: a page left on one that was replaced gets nothing any more.   *)
(* Also excepted are pages with two sockets, and favourites that were set  *)
(* twice at once or that the player did not report.                        *)
(***************************************************************************)
THEOREM PagesFollow == RemoteSpec => []PagesInSync
<1>1. PagesInv => PagesInSync
  <2> SUFFICES ASSUME PagesInv, NEW s \in clients, Follows(s), NEW f \in Fields \ sock[s].missed
               PROVE  \/ f = "fav" /\ ("song" \in sock[s].missed \/ currentState.song \in doubtful)
                      \/ Shown(s)[f] = currentState[f]
    BY DEF PagesInSync
  <2>1. Matches(Shown(s), sock[s].missed, currentState, doubtful)
    BY DEF PagesInv, InSync
  <2> QED BY <2>1 DEF Matches
<1>2. RemoteInit => RemoteIInv /\ PagesInv
  BY RemoteInitial, PagesInitial
<1>3. (RemoteIInv /\ PagesInv) /\ [RemoteNext]_vars => (RemoteIInv /\ PagesInv)'
  BY RemoteStep, PagesStep
<1> QED BY <1>1, <1>2, <1>3, PTL DEF RemoteSpec
=============================================================================
