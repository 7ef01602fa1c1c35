---------------------------- MODULE RemoteControl ----------------------------
(***************************************************************************)
(* The remote control of the desktop client.  Three parties keep the same  *)
(* few facts: the player (renderer process), the remote server in the main *)
(* process (currentState) and every remote page (info).  The player and    *)
(* the server exchange IPC messages, the server and the pages WebSocket    *)
(* messages; all channels are first in, first out.  A page may open a      *)
(* second socket, be reloaded or lose its connection; the server pings its *)
(* sockets, can be switched off, change its password, or be set up again   *)
(* when the renderer is reloaded.                                          *)
(*                                                                         *)
(* The player reports what it does only if the remote was on when its      *)
(* renderer was loaded: the event handlers keep the setting of that        *)
(* moment.  A remote switched on later is told the song, once.             *)
(*                                                                         *)
(* Repeat, shuffle and the position are reported exactly as the status is, *)
(* and the rating as the favourite; they are left out.                     *)
(***************************************************************************)
EXTENDS Integers, Sequences, SequencesExt

CONSTANTS Clients,     \* the remote pages
          Sockets,     \* the connections they can open, each used once
          Songs,       \* the songs of the queue
          Volumes,     \* the volumes anyone sets
          MaxInputs    \* bound on what users and the network do

NoSong == "no song"

ASSUME InputsAssumption == MaxInputs \in Nat
ASSUME SongsAssumption == NoSong \notin Songs
ASSUME ClientsAssumption == {"nobody", "gone"} \intersect Clients = {}

VARIABLES player,        \* the player store: song, favourites, status, volume
          marks,         \* favourite requests the music server has not answered
          enabled,       \* the setting: the remote is on
          reporting,     \* the setting when the renderer was loaded
          introduced,    \* isInitializedRef: the song was sent to start with
          answers,       \* answers to remote-enable on the way to the settings
          toMain,        \* messages of the player to the main process
          toPlayer,      \* messages of the main process to the player
          currentState,  \* what the main process knows of the player
          serverUp,      \* wsServer accepts connections
          secured,       \* a user name or password is configured
          clients,       \* wsServer.clients
          sock,          \* the sockets, both ends and both directions
          page,          \* the store of every remote page
          inputs,        \* inputs so far
          unsaid,        \* facts the player has not reported: since its start,
                         \* since a change while it does not report, or since
                         \* a volume asked for while nobody listened
          doubtful       \* songs with two unanswered requests at once, or whose
                         \* favourite was set without a report

vars == <<player, marks, enabled, reporting, introduced, answers, toMain, toPlayer,
          currentState, serverUp, secured, clients, sock, page, inputs, unsaid, doubtful>>

Unset == "unset"
NoSocket == "no socket"
Statuses == {"playing", "paused"}
Flip(f) == IF f = "on" THEN "off" ELSE "on"

(***************************************************************************)
(* SongState with every field undefined; a message carries such a record.  *)
(***************************************************************************)
Empty == [song |-> NoSong, fav |-> Unset, status |-> Unset, volume |-> Unset]
Fields == DOMAIN Empty

Closes == {"close", "close 4002"}

Msg(event, data) == [event |-> event, data |-> data]

----------------------------------------------------------------------------
(* What a page does with a message of the server (the switch of the        *)
(* message listener).                                                      *)
Apply(info, m) ==
    CASE m.event = "state"    -> m.data
      [] m.event = "song"     -> [info EXCEPT !.song = m.data.song, !.fav = m.data.fav]
      [] m.event = "favorite" -> IF info.song = m.data.song
                                 THEN [info EXCEPT !.fav = m.data.fav] ELSE info
      [] m.event = "playback" -> [info EXCEPT !.status = m.data.status]
      [] m.event = "volume"   -> [info EXCEPT !.volume = m.data.volume]
      [] OTHER                -> info

(* The facts a message reports. *)
Reports(m) == CASE m.event = "song"     -> {"song", "fav"}
                [] m.event = "favorite" -> {"fav"}
                [] m.event = "playback" -> {"status"}
                [] OTHER                -> {"volume"}

(* send: nothing goes to a socket that is closing, has not answered the    *)
(* last ping or is not authenticated; missed notes the facts it is behind  *)
(* on (a favourite is of no use to a page that missed the song).  A page   *)
(* that has closed its end ignores what still arrives.                     *)
Held(k) == k.near \in {"connecting", "open"}

send(k, m) ==
    IF k.far = "open" /\ k.alive /\ k.auth
    THEN [k EXCEPT !.down = IF Held(k) THEN Append(@, m) ELSE @,
                   !.missed = IF m.event = "favorite" /\ "song" \in @
                              THEN @ ELSE @ \ Reports(m)]
    ELSE [k EXCEPT !.missed = IF Held(k) THEN @ \union Reports(m) ELSE @]

broadcast(K, m) == [s \in Sockets |-> IF s \in clients THEN send(K[s], m) ELSE K[s]]

(* client.close(code) on the server: the handshake is started, what was    *)
(* sent before still arrives.  A page is reloaded on code 4002; the other  *)
(* codes differ in the message they show only.                             *)
CloseWith(k, event) ==
    IF k.far = "open"
    THEN [k EXCEPT !.far = "closing", !.down = Append(@, Msg(event, Empty))]
    ELSE k

CloseAll(event) == [s \in Sockets |-> IF s \in clients THEN CloseWith(sock[s], event) ELSE sock[s]]

(* The page's end of a socket is closed by the page or goes with it: the   *)
(* server hears of it after what the page sent before, and of what is on   *)
(* the way only a close of the server still matters.                       *)
IsClose(m) == m.event \in Closes

Abandon(k) == [k EXCEPT !.near = "closing", !.natural = TRUE,
                        !.missed = {}, !.down = SelectSeq(@, IsClose),
                        !.up = IF k.far \in {"open", "closing"}
                               THEN Append(@, Msg("close", Empty)) ELSE @]

AbandonAll(K, c) == [s \in Sockets |-> IF K[s].owner = c /\ Held(K[s])
                                       THEN Abandon(K[s]) ELSE K[s]]

Unused == [owner |-> "nobody", near |-> "none", natural |-> FALSE, far |-> "none",
           auth |-> FALSE, alive |-> FALSE,
           down |-> <<>>, up |-> <<>>, missed |-> {}]

(* What remains of a socket that is closed at both ends makes no difference. *)
Tidy(K) == [s \in Sockets |->
              IF K[s].near \in {"closing", "closed"} /\ K[s].far \notin {"open", "closing"}
                 /\ K[s].down = <<>>
              THEN [Unused EXCEPT !.owner = "gone", !.near = "closed", !.far = "closed"]
              ELSE K[s]]

----------------------------------------------------------------------------
(* The player.                                                             *)
Input == inputs < MaxInputs /\ inputs' = inputs + 1

Settings == <<enabled, reporting, introduced, answers>>

(* The start of every handler of usePlayerEvents.  They are made once, when *)
(* the renderer is loaded, and the setting they look at is that of then.    *)
Report(m, facts) ==
    IF reporting
    THEN toMain' = Append(toMain, m) /\ unsaid' = unsaid \ facts
    ELSE unsaid' = unsaid \union facts /\ UNCHANGED toMain

(* subscribePlayerStatus and subscribePlayerVolume: a change is reported,  *)
(* setting the same value is not.                                          *)
Changed(field, v, event) ==
    /\ player' = [player EXCEPT ![field] = v]
    /\ IF v = player[field]
       THEN UNCHANGED <<toMain, unsaid>>
       ELSE Report(Msg(event, [Empty EXCEPT ![field] = v]), {field})
    /\ UNCHANGED <<marks, doubtful>>

setStatus(v) == Changed("status", v, "update-playback")
setVolume(v) == Changed("volume", v, "update-volume")

(* The song as the player sends it, with its own idea of the favourite. *)
SongMsg(p) == Msg("update-song", [Empty EXCEPT !.song = p.song,
                                               !.fav = IF p.song = NoSong THEN Unset
                                                       ELSE p.fav[p.song]])

(* onCurrentSongChange; the same song may follow itself in the queue. *)
ChangeSong(s) ==
    /\ s # NoSong \/ player.song # NoSong
    /\ player' = [player EXCEPT !.song = s]
    /\ Report(SongMsg(player'), {"song"})
    /\ UNCHANGED <<marks, doubtful>>

FavoriteMsg(s, f) == Msg("update-favorite", [Empty EXCEPT !.song = s, !.fav = f])

(* mutate of useCreateFavorite / useDeleteFavorite: onMutate shows the new *)
(* value at once, in the queue and on the remotes.                         *)
Favorite(s, f) ==
    /\ player' = [player EXCEPT !.fav[s] = f]
    /\ Report(FavoriteMsg(s, f), {})
    /\ marks' = Append(marks, [song |-> s, fav |-> f])
    /\ doubtful' = IF ~reporting \/ \E i \in DOMAIN marks : marks[i].song = s
                   THEN doubtful \union {s} ELSE doubtful

(* Mutant: a failed request is sent again, without end. *)
RetriesForEver(i, ok) ==
    /\ Report(FavoriteMsg(marks[i].song, marks[i].fav), {})
    /\ marks' = IF ok THEN RemoveAt(marks, i) ELSE marks
    /\ UNCHANGED <<player, doubtful>>

(* onSuccess reports the value again, onError the opposite one. *)
Answered(i, ok) ==
    LET f == IF ok THEN marks[i].fav ELSE Flip(marks[i].fav)
    IN /\ player' = IF ok THEN player ELSE [player EXCEPT !.fav[marks[i].song] = f]
       /\ Report(FavoriteMsg(marks[i].song, f), {})
       /\ marks' = RemoveAt(marks, i)
       /\ UNCHANGED doubtful

MainVars == <<currentState, serverUp, secured, clients>>
Elsewhere == UNCHANGED <<Settings, MainVars, toPlayer, sock, page>>

UserAtPlayer ==
    /\ Input
    /\ \/ \E v \in Statuses \ {player.status} : setStatus(v)
       \/ \E v \in Volumes \ {player.volume} : setVolume(v)
       \/ \E s \in Songs \union {NoSong} : ChangeSong(s)
       \/ \E s \in Songs : Favorite(s, Flip(player.fav[s]))
    /\ Elsewhere

Response ==
    /\ \E i \in DOMAIN marks : \E ok \in BOOLEAN : Answered(i, ok)
    /\ UNCHANGED inputs
    /\ Elsewhere

(* The listeners of useRemote, which are there while the remote is on, and *)
(* those of useMainPlayerListener.                                         *)
Unheard(facts) == unsaid' = unsaid \union facts /\ UNCHANGED <<player, toMain, marks, doubtful>>

PlayerReceives ==
    /\ toPlayer # <<>>
    /\ LET m == Head(toPlayer) IN
       CASE m.event = "request-volume"   -> IF enabled THEN setVolume(m.data.volume)
                                            ELSE Unheard({"volume"})
         [] m.event = "request-favorite" -> IF enabled THEN Favorite(m.data.song, m.data.fav)
                                            ELSE Unheard({})
         [] m.event = "play"             -> setStatus("playing")
         [] m.event = "pause"            -> setStatus("paused")
         [] m.event = "next"             -> \/ \E s \in Songs : ChangeSong(s)
                                            \/ Unheard({})
    /\ toPlayer' = Tail(toPlayer)
    /\ UNCHANGED <<Settings, MainVars, sock, page, inputs>>

(* What useRemote sends when it is mounted: its settings, and the song if  *)
(* the remote is on.                                                       *)
Setup == Msg(IF enabled THEN "settings on" ELSE "settings off", Empty)

Mounted(q, p) == LET told == Append(q, Setup)
                 IN  IF enabled /\ p.song # NoSong THEN Append(told, SongMsg(p)) ELSE told

UnsaidAtStart(p) == {"status", "volume"} \union (IF enabled /\ p.song # NoSong THEN {} ELSE {"song"})

(* The renderer is reloaded: the store comes back from disk without its    *)
(* status and, unless the queue is kept, without a song.                   *)
RendererReload ==
    /\ Input
    /\ \E s \in {player.song, NoSong} : player' = [player EXCEPT !.status = "paused", !.song = s]
    /\ toMain' = Mounted(toMain, player')
    /\ unsaid' = UnsaidAtStart(player')
    /\ reporting' = enabled /\ introduced' = enabled
    /\ answers' = <<>>
    /\ marks' = <<>>
    /\ toPlayer' = <<>>
    /\ UNCHANGED <<enabled, MainVars, sock, page, doubtful>>

(* The switch of the settings asks the main process first.  It is          *)
(* debounced: switched twice at once it asks for what there is.            *)
SetRemoteEnabled ==
    /\ Input
    /\ \E on \in BOOLEAN : toMain' = Append(toMain, Msg(IF on THEN "enable" ELSE "disable", Empty))
    /\ UNCHANGED <<player, marks, unsaid, doubtful>>
    /\ Elsewhere

(* The answer changes the setting.  With it the listeners for requests     *)
(* come or go, and the first time it is on the song is reported.           *)
RemoteSwitched ==
    /\ answers # <<>>
    /\ enabled' = Head(answers) /\ answers' = Tail(answers)
    /\ introduced' = (introduced \/ enabled')
    /\ IF enabled' /\ ~introduced /\ player.song # NoSong
       THEN toMain' = Append(toMain, SongMsg(player)) /\ unsaid' = unsaid \ {"song"}
       ELSE UNCHANGED <<toMain, unsaid>>
    /\ UNCHANGED <<player, marks, doubtful, reporting, toPlayer, MainVars, sock, page, inputs>>

----------------------------------------------------------------------------
(* The main process: the messages of the player.                           *)
updatePlayback(d) ==
    /\ currentState' = [currentState EXCEPT !.status = d.status]
    /\ sock' = broadcast(sock, Msg("playback", d))
    /\ UNCHANGED clients

(* Mutant: the volume is passed on but not kept. *)
VolumeNotKept(d) ==
    /\ sock' = broadcast(sock, Msg("volume", d))
    /\ UNCHANGED <<currentState, clients>>

updateVolume(d) ==
    /\ currentState' = [currentState EXCEPT !.volume = d.volume]
    /\ sock' = broadcast(sock, Msg("volume", d))
    /\ UNCHANGED clients

updateSong(d) ==
    /\ currentState' = [currentState EXCEPT !.song = d.song, !.fav = d.fav]
    /\ sock' = IF d.song # currentState.song THEN broadcast(sock, Msg("song", d)) ELSE sock
    /\ UNCHANGED clients

(* Mutant: the pages are not told of a favourite. *)
FavoriteUntold(d) ==
    /\ currentState' = IF currentState.song = d.song
                       THEN [currentState EXCEPT !.fav = d.fav] ELSE currentState
    /\ UNCHANGED <<sock, clients>>

updateFavorite(d) ==
    /\ IF currentState.song = d.song
       THEN /\ currentState' = [currentState EXCEPT !.fav = d.fav]
            /\ sock' = broadcast(sock, Msg("favorite", d))
       ELSE UNCHANGED <<currentState, sock>>
    /\ UNCHANGED clients

(* enableServer replaces wsServer; the sockets of the one before stay open *)
(* but are no longer clients.  It fails when it cannot listen.             *)
enableServer(up) == serverUp' = up /\ clients' = {} /\ UNCHANGED <<currentState, sock>>

shutdownServer ==
    /\ serverUp' = FALSE /\ clients' = {}
    /\ sock' = CloseAll("close")
    /\ UNCHANGED currentState

(* The answer to a renderer that is still there: one that was loaded after *)
(* it has sent its settings.                                               *)
Answer(on) == answers' = IF \E m \in Range(Tail(toMain)) : m.event \in {"settings on", "settings off"}
                         THEN answers ELSE Append(answers, on)

MainReceives ==
    /\ toMain # <<>>
    /\ LET m == Head(toMain) IN
       CASE m.event = "update-playback" -> updatePlayback(m.data) /\ UNCHANGED <<serverUp, answers>>
         [] m.event = "update-volume"   -> updateVolume(m.data) /\ UNCHANGED <<serverUp, answers>>
         [] m.event = "update-song"     -> updateSong(m.data) /\ UNCHANGED <<serverUp, answers>>
         [] m.event = "update-favorite" -> updateFavorite(m.data) /\ UNCHANGED <<serverUp, answers>>
         [] m.event = "settings on"     -> (\E up \in BOOLEAN : enableServer(up)) /\ UNCHANGED answers
         [] m.event = "settings off"    -> shutdownServer /\ UNCHANGED answers
         [] m.event = "enable"          -> \/ enableServer(TRUE) /\ Answer(TRUE)
                                           \/ enableServer(FALSE) /\ UNCHANGED answers
         [] m.event = "disable"         -> shutdownServer /\ Answer(FALSE)
    /\ toMain' = Tail(toMain)
    /\ UNCHANGED <<player, marks, enabled, reporting, introduced, toPlayer, secured, page,
                   inputs, unsaid, doubtful>>

----------------------------------------------------------------------------
(* The main process: sockets.                                              *)
PlayerVars == <<player, marks, Settings, unsaid, doubtful>>

(* wsServer.on('connection'): the whole state is sent at once. *)
Connect(s) ==
    /\ serverUp
    /\ sock[s].near = "connecting" /\ sock[s].far = "none"
    /\ sock' = [sock EXCEPT ![s].far = "open", ![s].alive = TRUE, ![s].auth = ~secured,
                            ![s].down = <<Msg("open", Empty), Msg("state", currentState)>>]
    /\ clients' = clients \union {s}
    /\ UNCHANGED <<PlayerVars, toMain, toPlayer, currentState, serverUp, secured, page, inputs>>

Request(event, data) == toPlayer' = Append(toPlayer, Msg(event, data))

(* An authenticated page's command. *)
Command(s, K, m) ==
    CASE m.event = "volume" ->
            /\ currentState' = [currentState EXCEPT !.volume = m.data.volume]
            /\ sock' = broadcast(K, Msg("volume", m.data))
            /\ Request("request-volume", m.data)
            /\ UNCHANGED clients
      [] m.event = "favorite" ->
            /\ IF m.data.song = currentState.song
               THEN Request("request-favorite", m.data) ELSE UNCHANGED toPlayer
            /\ sock' = K
            /\ UNCHANGED <<currentState, clients>>
      [] m.event \in {"play", "pause", "next"} ->
            /\ Request(m.event, Empty)
            /\ sock' = K
            /\ UNCHANGED <<currentState, clients>>
      [] OTHER ->
            /\ sock' = K
            /\ UNCHANGED <<toPlayer, currentState, clients>>

(* ws.on('message') and ws.on('close').  Whether credentials match is left *)
(* open: they may have changed since the page asked for them.              *)
SocketReceives(s) ==
    /\ sock[s].up # <<>>
    /\ LET m == Head(sock[s].up)
           K == [sock EXCEPT ![s].up = Tail(@)]
       IN CASE m.event = "close" ->
                  /\ sock' = Tidy([K EXCEPT ![s].far = "closed"])
                  /\ clients' = clients \ {s}
                  /\ UNCHANGED <<toPlayer, currentState>>
            [] m.event # "close" /\ sock[s].auth -> Command(s, K, m)
            [] m.event = "authenticate" /\ ~sock[s].auth ->
                  /\ \/ sock' = [K EXCEPT ![s].auth = TRUE]
                     \/ sock' = [K EXCEPT ![s] = CloseWith(@, "close")]
                  /\ UNCHANGED <<toPlayer, currentState, clients>>
            [] OTHER ->
                  /\ sock' = K
                  /\ UNCHANGED <<toPlayer, currentState, clients>>
    /\ UNCHANGED <<PlayerVars, toMain, serverUp, secured, page, inputs>>

(* The timer of ten seconds for authentication, long enough for a page     *)
(* that has credentials to have sent them.                                 *)
AuthTimeout(s) ==
    /\ sock[s].far = "open" /\ ~sock[s].auth
    /\ sock[s].near # "connecting" /\ sock[s].up = <<>>
    /\ sock' = [sock EXCEPT ![s] = CloseWith(@, "close")]
    /\ UNCHANGED <<PlayerVars, toMain, toPlayer, MainVars, page, inputs>>

(* heartBeat: who has not answered the last ping is terminated, the others *)
(* are pinged.  (What is on the way to a terminated page may be lost, but  *)
(* it forgets everything when its socket closes.)                          *)
Terminate(k) == [k EXCEPT !.far = "closed", !.up = <<>>,
                          !.down = IF Held(k) THEN Append(@, Msg("close", Empty)) ELSE @]

(* Mutant: a ping does not count as unanswered. *)
HeartBeatForgives ==
    /\ serverUp /\ clients # {}
    /\ sock' = [s \in Sockets |-> IF s \in clients /\ ~sock[s].alive
                                  THEN Terminate(sock[s]) ELSE sock[s]]
    /\ clients' = {s \in clients : sock[s].alive}
    /\ UNCHANGED <<PlayerVars, toMain, toPlayer, currentState, serverUp, secured, page, inputs>>

heartBeat ==
    /\ serverUp /\ clients # {}
    /\ sock' = Tidy([s \in Sockets |->
                       IF s \notin clients THEN sock[s]
                       ELSE IF sock[s].alive THEN [sock[s] EXCEPT !.alive = FALSE]
                       ELSE Terminate(sock[s])])
    /\ clients' = {s \in clients : sock[s].alive}
    /\ UNCHANGED <<PlayerVars, toMain, toPlayer, currentState, serverUp, secured, page, inputs>>

(* The browser answers the ping; ws.on('pong'). *)
Pong(s) ==
    /\ ~sock[s].alive /\ sock[s].near = "open" /\ sock[s].far # "closed"
    /\ sock' = [sock EXCEPT ![s].alive = TRUE]
    /\ UNCHANGED <<PlayerVars, toMain, toPlayer, MainVars, page, inputs>>

(* remote-password and remote-username: every page has to log in again. *)
RemotePassword ==
    /\ Input
    /\ secured' \in BOOLEAN
    /\ sock' = CloseAll("close 4002")
    /\ UNCHANGED <<PlayerVars, toMain, toPlayer, currentState, serverUp, clients, page>>

----------------------------------------------------------------------------
(* The remote page.                                                        *)
Fresh == {s \in Sockets : sock[s].owner = "nobody"}

PageOnly == UNCHANGED <<PlayerVars, toMain, toPlayer, MainVars>>

(* reconnect up to its await: an open socket is closed first. *)
Reconnect(c) ==
    /\ Input /\ Fresh # {}
    /\ sock' = IF page[c].socket \in Sockets /\ Held(sock[page[c].socket])
               THEN Tidy([sock EXCEPT ![page[c].socket] = Abandon(@)]) ELSE sock
    /\ page' = [page EXCEPT ![c].fetching = @ + 1]
    /\ PageOnly

(* reconnect once the credentials have been fetched, or could not be: a    *)
(* new socket, whatever was opened meanwhile (leaky notes that two are).   *)
NewSocket(c) ==
    /\ page[c].fetching > 0
    /\ \E s \in Fresh :
        /\ sock' = [sock EXCEPT ![s].owner = c, ![s].near = "connecting"]
        /\ page' = [page EXCEPT ![c].fetching = @ - 1, ![c].socket = s,
                       ![c].leaky = \E t \in Sockets : sock[t].owner = c /\ Held(sock[t])]
    /\ UNCHANGED inputs
    /\ PageOnly

(* The close listener; a natural close was asked for by reconnect. *)
Cleared(p) == [p EXCEPT !.connected = FALSE, !.info = Empty]

(* location.reload(): all sockets of the page go, and it connects again;   *)
(* the store is kept.                                                      *)
Reloaded(p) == [p EXCEPT !.socket = NoSocket, !.fetching = 1, !.leaky = FALSE]

Closed(s, K, m) ==
    LET c == sock[s].owner
        P == IF sock[s].natural THEN page[c] ELSE Cleared(page[c])
        Done == [K EXCEPT ![s].near = "closed", ![s].missed = {},
                          ![s].up = IF sock[s].far = "closing" THEN Append(@, Msg("close", Empty)) ELSE @]
    IN IF m.event = "close 4002"
       THEN /\ page' = [page EXCEPT ![c] = Reloaded(P)]
            /\ sock' = Tidy(AbandonAll(Done, c))
       ELSE /\ page' = [page EXCEPT ![c] = P]
            /\ sock' = Tidy(Done)

(* open: the page logs in when it has credentials. *)
Opened(s, K) ==
    /\ \E login \in (IF secured THEN BOOLEAN ELSE {FALSE}) :
         sock' = [K EXCEPT ![s].near = "open",
                           ![s].up = IF login THEN Append(@, Msg("authenticate", Empty)) ELSE @]
    /\ page' = [page EXCEPT ![sock[s].owner].connected = TRUE]

PageReceives(s) ==
    /\ sock[s].down # <<>>
    /\ LET m == Head(sock[s].down)
           K == [sock EXCEPT ![s].down = Tail(@)]
       IN CASE m.event \in Closes /\ sock[s].near # "closed" -> Closed(s, K, m)
            [] m.event = "open" /\ Held(sock[s])            -> Opened(s, K)
            [] m.event \notin Closes \union {"open"} /\ Held(sock[s]) ->
                  /\ page' = [page EXCEPT ![sock[s].owner].info = Apply(@, m)]
                  /\ sock' = K
            [] OTHER -> sock' = Tidy(K) /\ UNCHANGED page
    /\ UNCHANGED inputs
    /\ PageOnly

(* A connection that is refused, or breaks without the server noticing. *)
Gone(s) ==
    /\ page' = [page EXCEPT ![sock[s].owner] = Cleared(@)]
    /\ sock' = Tidy([sock EXCEPT ![s].near = "closed", ![s].missed = {},
                               ![s].up = <<>>, ![s].down = <<>>])
    /\ PageOnly

Refused(s) ==
    /\ ~serverUp
    /\ sock[s].near = "connecting" /\ sock[s].far = "none"
    /\ Gone(s)
    /\ UNCHANGED inputs

Lost(s) == Input /\ sock[s].near = "open" /\ Gone(s)

(* The user reloads the page. *)
PageReload(c) ==
    /\ Input /\ Fresh # {}
    /\ page' = [page EXCEPT ![c] = Reloaded(@)]
    /\ sock' = Tidy(AbandonAll(sock, c))
    /\ PageOnly

(* The controls of the page, which act on what it shows. *)
Controls(info) ==
    {Msg("volume", [Empty EXCEPT !.volume = v]) : v \in Volumes}
      \union (IF info.song = NoSong THEN {}
              ELSE {Msg("next", Empty),
                    Msg("favorite", [Empty EXCEPT !.song = info.song, !.fav = Flip(info.fav)])}
                   \union {Msg(e, Empty) : e \in {x \in {"play", "pause"} :
                              info.status = (IF x = "pause" THEN "playing" ELSE "paused")}})

UserAtRemote(c) ==
    /\ Input
    /\ page[c].connected /\ page[c].socket \in Sockets
    /\ sock[page[c].socket].near = "open"
    /\ \E m \in Controls(page[c].info) :
         sock' = [sock EXCEPT ![page[c].socket].up = Append(@, m)]
    /\ UNCHANGED page
    /\ PageOnly

----------------------------------------------------------------------------
(* The program starts with the remote on or off. *)
RemoteInit ==
    /\ enabled \in BOOLEAN
    /\ \E s \in Songs : player = [song |-> s, fav |-> [t \in Songs |-> "off"], status |-> "paused",
                               volume |-> CHOOSE v \in Volumes : TRUE]
    /\ toMain = Mounted(<<>>, player)
    /\ unsaid = UnsaidAtStart(player)
    /\ reporting = enabled /\ introduced = enabled
    /\ answers = <<>>
    /\ marks = <<>>
    /\ toPlayer = <<>>
    /\ currentState = Empty
    /\ serverUp = FALSE
    /\ secured = FALSE
    /\ clients = {}
    /\ sock = [s \in Sockets |-> Unused]
    /\ page = [c \in Clients |-> [info |-> Empty, connected |-> FALSE, socket |-> NoSocket,
                                  fetching |-> 1, leaky |-> FALSE]]
    /\ inputs = 0
    /\ doubtful = {}

Working == \/ Response \/ PlayerReceives \/ MainReceives \/ RemoteSwitched
           \/ \E c \in Clients : NewSocket(c)
           \/ \E s \in Sockets : Connect(s) \/ Refused(s) \/ SocketReceives(s) \/ PageReceives(s)

RemoteNext == \/ Working
              \/ UserAtPlayer \/ RendererReload \/ SetRemoteEnabled \/ RemotePassword \/ heartBeat
              \/ \E c \in Clients : Reconnect(c) \/ PageReload(c) \/ UserAtRemote(c)
              \/ \E s \in Sockets : AuthTimeout(s) \/ Pong(s) \/ Lost(s)

(* IPC and TCP deliver, requests are answered, and the heartbeat is a      *)
(* timer that does not stop.                                               *)
Fairness == /\ WF_vars(Response) /\ WF_vars(PlayerReceives) /\ WF_vars(MainReceives)
            /\ WF_vars(RemoteSwitched) /\ WF_vars(heartBeat)
            /\ \A s \in Sockets : /\ WF_vars(Connect(s) \/ Refused(s))
                                  /\ WF_vars(SocketReceives(s)) /\ WF_vars(PageReceives(s))

RemoteSpec == RemoteInit /\ [][RemoteNext]_vars /\ Fairness

----------------------------------------------------------------------------
(***************************************************************************)
(* A page shows, as soon as it has read what is on the way to it, what the *)
(* main process knows: every fact but those it was not sent because its    *)
(* ping was unanswered or it had not logged in yet.  The messages a page   *)
(* gets have to fit together: the state on connecting, the changes after   *)
(* it, favourites only of the song shown.                                  *)
(*                                                                         *)
(* This is about the sockets the server has, wsServer.clients.  Excepted   *)
(* are: sockets of a wsServer that was replaced (enableServer while it is  *)
(* up), which stay open, get nothing any more and go stale; pages with two *)
(* open sockets; and the favourite of songs that had two unanswered        *)
(* requests at once, or whose favourite a player that does not report has  *)
(* set: updateSong passes the new one on only with another song.           *)
(***************************************************************************)
Read(info, mail) ==
    LET shown[k \in 0 .. Len(mail)] == IF k = 0 THEN info ELSE Apply(shown[k - 1], mail[k])
    IN  shown[Len(mail)]

Shown(s) == Read(page[sock[s].owner].info, sock[s].down)

Follows(s) == /\ sock[s].far = "open" /\ Held(sock[s])
              /\ page[sock[s].owner].socket = s /\ ~page[sock[s].owner].leaky

PagesInSync ==
    \A s \in clients : Follows(s) =>
        \A f \in Fields \ sock[s].missed :
            \/ f = "fav" /\ ("song" \in sock[s].missed \/ currentState.song \in doubtful)
            \/ Shown(s)[f] = currentState[f]

(***************************************************************************)
(* The volume and the favourite are set from both ends at once, and a      *)
(* change at the player is reported back.  When nothing is under way       *)
(* between player and main process, both hold the same facts, whoever won: *)
(* a late report never leaves the remotes with a value the player has not. *)
(*                                                                         *)
(* Nothing is said of a fact the player has not reported (unsaid): status  *)
(* and volume until they change after a start, whatever changes while the  *)
(* player does not report because its renderer was loaded with the remote  *)
(* off, and the volume after a request that came while the remote was off. *)
(* So in a renderer loaded with the remote off this is about little more   *)
(* than the song it sends when the remote is switched on.                  *)
(***************************************************************************)
PlayerAgrees ==
    (toMain = <<>> /\ toPlayer = <<>>) =>
        /\ \A f \in {"status", "volume", "song"} \ unsaid : currentState[f] = player[f]
        /\ ("song" \notin unsaid /\ player.song \in Songs \ doubtful)
              => currentState.fav = player.fav[player.song]

(***************************************************************************)
(* Player, main process and pages do not answer each other for ever: once  *)
(* the users have stopped, all messages are consumed.                      *)
(***************************************************************************)
Quiet == /\ toMain = <<>> /\ toPlayer = <<>> /\ marks = <<>> /\ answers = <<>>
         /\ \A s \in Sockets : sock[s].up = <<>> /\ sock[s].down = <<>>

FeedbackEnds == <>[]Quiet

(***************************************************************************)
(* A page that has gone without a word is dropped from the server's        *)
(* clients by the heartbeat.  (Sockets of a replaced wsServer are none of  *)
(* its clients: nobody pings them.)                                        *)
(***************************************************************************)
DeadDropped == \A s \in Sockets : (sock[s].near = "closed") ~> (s \notin clients)
=============================================================================
