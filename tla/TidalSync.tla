------------------------------ MODULE TidalSync ------------------------------
(***************************************************************************)
(* The just-in-time sync of Tidal search results into the database         *)
(* (core/tidal/sync.go), as its callers run it: the REST middleware, the   *)
(* Subsonic search and the Subsonic album request. Every SQL statement of  *)
(* a sync commits on its own, so a step of this module is one statement;   *)
(* several requests, their asynchronous refreshes of the artist statistics *)
(* and the garbage collection of the library scan interleave freely.       *)
(*                                                                         *)
(* The virtual Tidal library exists already. Rows are identified by the    *)
(* Tidal IDs they are derived from.                                        *)
(***************************************************************************)
EXTENDS Naturals, Sequences, FiniteSets, SequencesExt

CONSTANTS
    Artists, Albums, Tracks,  \* Tidal's catalogue
    AlbumOf,                  \* the album of a track
    Credited,                 \* the artists of a track or album, primary first
    Queries,                  \* search texts
    Hits,                     \* what Tidal finds for a search text
    Handlers,                 \* requests served at the same time
    MaxRequests, MaxScans, MaxCuts  \* bounds: requests made, scans ended, syncs cut

VARIABLES
    rows,       \* IDs in the tables artist, album and media_file
    full,       \* albums stored with their full metadata
    credits,    \* media_file_artists and album_artists: <<item, artist>>
    stats,      \* library_artist: linked artist -> tracks counted for it
    seen,       \* the throttles: API -> queries synced recently
    hand,       \* the requests
    refresh,    \* RefreshStats calls: of each request and of the scanner
    made,       \* requests, scans and cuts so far
    torn,       \* history: items whose credits a cut or a purge may have broken
    cut         \* history: a sync was cut short and no refresh followed

db == <<rows, full, credits, stats>>
vars == <<rows, full, credits, stats, seen, hand, refresh, made, torn, cut>>

APIs == {"rest", "subsonic"}
Items == Albums \cup Tracks
Refreshers == Handlers \cup {"scanner"}

ASSUME CatalogueAssumption ==
    /\ IsFiniteSet(Tracks)
    /\ Artists \cap Albums = {} /\ Artists \cap Tracks = {} /\ Albums \cap Tracks = {}
    /\ AlbumOf \in [Tracks -> Albums]
    /\ Credited \in [Items -> Seq(Artists) \ {<<>>}]
    /\ Hits \in [Queries -> [artists : Seq(Artists), albums : Seq(Albums), tracks : Seq(Tracks)]]
    /\ "scanner" \notin Handlers
    /\ MaxRequests \in Nat /\ MaxScans \in Nat /\ MaxCuts \in Nat

CreditsOf(i) == Range(Credited[i])
TracksOf(a) == {t \in Tracks : <<t, a>> \in credits}

-----------------------------------------------------------------------------
(* The work of a sync: the hits one after the other, and of each hit the    *)
(* items that store it, its artists first.                                  *)

Put(kind, id) == [kind |-> kind, id |-> id]

EnsureArtists(refs) == [i \in DOMAIN refs |-> Put("artist", refs[i])]

\* A direct artist hit.
ArtistItems(a) == <<Put("artist", a)>>

\* A direct album hit, or the album of SyncAlbum.
AlbumItems(al) == EnsureArtists(Credited[al]) \o <<Put("full", al)>>

\* Only the primary artist of a track is ensured.
PrimaryOnly(t) == <<Put("artist", Head(Credited[t])), Put("ref", AlbumOf[t]), Put("track", t)>>

\* A track found by a search: credited artists, album, track.
TrackItems(t) == EnsureArtists(Credited[t]) \o <<Put("ref", AlbumOf[t]), Put("track", t)>>

\* A track of the album being synced.
AlbumTrackItems(t) == EnsureArtists(Credited[t]) \o <<Put("track", t)>>

EachOf(s, F(_)) == [i \in DOMAIN s |-> F(s[i])]

\* Each of the three parallel searches may fail.
Found(q, what) == [k \in {"artists", "albums", "tracks"} |-> IF k \in what THEN Hits[q][k] ELSE <<>>]

NextItem(todo) == todo[1][1]

\* The first statement of the next item.
Begin(todo) ==
    IF todo = <<>> THEN "end"
    ELSE IF NextItem(todo).kind \in {"artist", "ref"} THEN "exists" ELSE "update"

\* The next item is done.
Rest(todo) == IF Len(todo[1]) = 1 THEN Tail(todo) ELSE [todo EXCEPT ![1] = Tail(@)]

-----------------------------------------------------------------------------
Idle == [pc |-> "idle", api |-> "none", of |-> "none", todo |-> <<>>, stmt |-> "end",
         want |-> {}, owes |-> FALSE]

Request(api, of) == [Idle EXCEPT !.pc = "search", !.api = api, !.of = of]

Init ==
    /\ rows = {} /\ full = {} /\ credits = {}
    /\ stats = <<>>
    /\ seen = [api \in APIs |-> {}]
    /\ hand = [h \in Handlers |-> Idle]
    /\ refresh = [r \in Refreshers |-> [pc |-> "idle", ids |-> {}]]
    /\ made = [requests |-> 0, scans |-> 0, cuts |-> 0]
    /\ torn = {} /\ cut = FALSE

Becomes(h, request) == hand' = [hand EXCEPT ![h] = request]

\* A handler takes a new request. (Bounds: the number of requests, and one
\* unfinished refresh for each handler.)
Free(h) ==
    /\ hand[h].pc = "idle" /\ refresh[h].pc = "idle"
    /\ made.requests < MaxRequests
    /\ made' = [made EXCEPT !.requests = @ + 1]

\* A query synced before is throttled, unless its entry has passed its TTL.
Throttled(api, q) == {FALSE} \cup {q \in seen[api]}

\* The REST middleware: check and mark are one step under the throttle's mutex.
tidalJITMiddleware(h, q) ==
    /\ Free(h)
    /\ \E hot \in Throttled("rest", q) :
        Becomes(h, [Request("rest", q) EXCEPT !.pc = IF hot THEN "serve" ELSE "search"])
    /\ seen' = [seen EXCEPT !["rest"] = @ \cup {q}]
    /\ UNCHANGED <<db, refresh, torn, cut>>

WasSyncedRecently(h, q) ==
    /\ Free(h)
    /\ \E hot \in Throttled("subsonic", q) :
        Becomes(h, [Request("subsonic", q) EXCEPT !.pc = IF hot THEN "serve" ELSE "mark"])
    /\ UNCHANGED <<db, seen, refresh, torn, cut>>

MarkSynced(h) ==
    /\ hand[h].pc = "mark"
    /\ seen' = [seen EXCEPT !["subsonic"] = @ \cup {hand[h].of}]
    /\ Becomes(h, [hand[h] EXCEPT !.pc = "search"])
    /\ UNCHANGED <<db, refresh, torn, cut, made>>

\* getAlbum and getMusicDirectory of a stored Tidal album.
GetAlbum(h, al) ==
    /\ Free(h) /\ al \in rows
    /\ Becomes(h, Request("album", al))
    /\ UNCHANGED <<db, seen, refresh, torn, cut>>

Start(h, todo, want, owes) ==
    Becomes(h, [hand[h] EXCEPT !.pc = "sync", !.todo = todo, !.stmt = Begin(todo),
                               !.want = want, !.owes = owes])

\* Tidal has answered the searches of SyncSearchWithLibrary.
SyncSearch(h, what) ==
    /\ hand[h].pc = "search" /\ hand[h].api \in APIs
    /\ LET found == Found(hand[h].of, what)
       IN  Start(h, EachOf(found.artists, ArtistItems) \o EachOf(found.albums, AlbumItems)
                        \o EachOf(found.tracks, TrackItems),
                 Range(found.tracks),
                 found.tracks = <<>> /\ (found.artists # <<>> \/ found.albums # <<>>))
    /\ UNCHANGED <<db, seen, refresh, torn, cut, made>>

\* Tidal has answered SyncAlbum with the album and its tracks.
SyncAlbum(h) ==
    /\ hand[h].pc = "search" /\ hand[h].api = "album"
    /\ LET al == hand[h].of
           items == SetToSeq({t \in Tracks : AlbumOf[t] = al})
       IN  Start(h, <<AlbumItems(al)>> \o EachOf(items, AlbumTrackItems), Range(items), FALSE)
    /\ UNCHANGED <<db, seen, refresh, torn, cut, made>>

-----------------------------------------------------------------------------
(* The statements of an item *)

At(h, stmt) == hand[h].pc = "sync" /\ hand[h].stmt = stmt
Item(h) == NextItem(hand[h].todo)

GoTo(h, stmt) == Becomes(h, [hand[h] EXCEPT !.stmt = stmt])

\* The item is done; a saved track makes the statistics due.
Advance(h, imported) ==
    LET rest == Rest(hand[h].todo)
    IN  Becomes(h, [hand[h] EXCEPT !.todo = rest, !.stmt = Begin(rest), !.owes = @ \/ imported])

\* An artist exists only where it is linked to a library.
Exists(h) ==
    /\ At(h, "exists")
    /\ IF Item(h).id \in rows /\ (Item(h).kind = "artist" => Item(h).id \in DOMAIN stats)
       THEN Advance(h, FALSE) ELSE GoTo(h, "update")
    /\ UNCHANGED <<db, seen, refresh, torn, cut, made>>

\* After the row is written: link an artist, credit the artists of a track or
\* full album. An album built from a track's reference has no participants.
Written(h) ==
    /\ full' = CASE Item(h).kind = "full" -> full \cup {Item(h).id}
                 [] Item(h).kind = "ref"  -> full \ {Item(h).id}
                 [] OTHER                 -> full
    /\ CASE Item(h).kind = "artist" -> GoTo(h, "link")
         [] Item(h).kind = "ref"    -> Advance(h, FALSE)
         [] OTHER                   -> GoTo(h, "uncredit")

Update(h) ==
    /\ At(h, "update")
    /\ IF Item(h).id \in rows THEN Written(h) ELSE GoTo(h, "insert") /\ UNCHANGED full
    /\ UNCHANGED <<rows, credits, stats, seen, refresh, torn, cut, made>>

\* A lost race ends the whole sync.
InsertOrGiveUp(h) ==
    /\ At(h, "insert")
    /\ IF Item(h).id \in rows
       THEN Becomes(h, [hand[h] EXCEPT !.todo = <<>>, !.stmt = "end"]) /\ UNCHANGED <<rows, full>>
       ELSE Written(h) /\ rows' = rows \cup {Item(h).id}
    /\ UNCHANGED <<credits, stats, seen, refresh, torn, cut, made>>

\* Another request inserted the row first: the UNIQUE constraint fails and the
\* item is left to that request.
Insert(h) ==
    /\ At(h, "insert")
    /\ IF Item(h).id \in rows THEN Advance(h, FALSE) /\ UNCHANGED <<rows, full>>
                              ELSE Written(h) /\ rows' = rows \cup {Item(h).id}
    /\ UNCHANGED <<credits, stats, seen, refresh, torn, cut, made>>

\* A new link has no statistics yet. A purged artist fails the foreign key.
AddArtist(h) ==
    /\ At(h, "link")
    /\ LET linked == DOMAIN stats \cup ({Item(h).id} \cap rows)
       IN  stats' = [a \in linked |-> IF a \in DOMAIN stats THEN stats[a] ELSE 0]
    /\ Advance(h, FALSE)
    /\ UNCHANGED <<rows, full, credits, seen, refresh, torn, cut, made>>

DeleteParticipants(h) ==
    /\ At(h, "uncredit")
    /\ credits' = {c \in credits : c[1] # Item(h).id}
    /\ GoTo(h, "credit")
    /\ UNCHANGED <<rows, full, stats, seen, refresh, torn, cut, made>>

\* The artists are not joined.
InsertAllParticipants(h) ==
    /\ At(h, "credit")
    /\ credits' = credits \cup ({Item(h).id} \X CreditsOf(Item(h).id))
    /\ torn' = torn \ {Item(h).id}
    /\ Advance(h, Item(h).kind = "track")
    /\ UNCHANGED <<rows, full, stats, seen, refresh, cut, made>>

\* The statement joins the artist table: artists without a row are left out.
InsertParticipants(h) ==
    /\ At(h, "credit")
    /\ LET i == Item(h).id
           found == CreditsOf(i) \cap rows
       IN  /\ credits' = credits \cup IF i \in rows THEN {i} \X found ELSE {}
           /\ torn' = IF found = CreditsOf(i) THEN torn \ {i} ELSE torn
           /\ Advance(h, Item(h).kind = "track")
    /\ UNCHANGED <<rows, full, stats, seen, refresh, cut, made>>

-----------------------------------------------------------------------------
(* The end of a sync *)

StartRefresh(r) == refresh' = [refresh EXCEPT ![r].pc = "select"]

\* An album request leaves the statistics alone.
FinishQuietly(h) ==
    /\ At(h, "end")
    /\ IF hand[h].owes /\ hand[h].api # "album" THEN StartRefresh(h) ELSE UNCHANGED refresh
    /\ Becomes(h, [hand[h] EXCEPT !.pc = "serve"])
    /\ UNCHANGED <<db, seen, torn, cut, made>>

\* A search refreshes the statistics in the background, an album before it
\* answers.
Finish(h) ==
    /\ At(h, "end")
    /\ IF hand[h].owes THEN StartRefresh(h) ELSE UNCHANGED refresh
    /\ Becomes(h, [hand[h] EXCEPT !.pc =
                    IF hand[h].api = "album" /\ hand[h].owes THEN "refresh" ELSE "serve"])
    /\ UNCHANGED <<db, seen, torn, cut, made>>

Refreshed(h) ==
    /\ hand[h].pc = "refresh" /\ refresh[h].pc = "idle"
    /\ Becomes(h, [hand[h] EXCEPT !.pc = "serve"])
    /\ UNCHANGED <<db, seen, refresh, torn, cut, made>>

\* The client of a REST or album request goes away, the 6 seconds of a Subsonic
\* sync are over, or Tidal does not answer: every later statement of the sync
\* fails. Only a refresh in the background still runs.
Cancel(h) ==
    /\ hand[h].pc \in {"search", "sync", "refresh"}
    /\ made.cuts < MaxCuts /\ made' = [made EXCEPT !.cuts = @ + 1]
    /\ Becomes(h, [hand[h] EXCEPT !.pc = "serve", !.todo = <<>>, !.stmt = "end", !.want = {}])
    /\ refresh' = [refresh EXCEPT ![h].pc = IF hand[h].owes /\ hand[h].api # "album" THEN "select" ELSE "idle"]
    /\ torn' = IF hand[h].pc = "sync" /\ hand[h].stmt \in {"uncredit", "credit"}
               THEN torn \cup {Item(h).id} ELSE torn
    /\ cut' = (cut \/ hand[h].pc # "search")
    /\ UNCHANGED <<db, seen>>

\* The response is built from the database and sent.
Serve(h) ==
    /\ hand[h].pc = "serve"
    /\ Becomes(h, Idle)
    /\ UNCHANGED <<db, seen, refresh, torn, cut, made>>

-----------------------------------------------------------------------------
(* RefreshStats: three statements. The Tidal library is never scanned, so   *)
(* every artist counts as touched.                                          *)

SelectTouched(r) ==
    /\ refresh[r].pc = "select"
    /\ LET ids == rows \cap Artists
       IN  refresh' = [refresh EXCEPT ![r] = [pc |-> IF ids = {} THEN "idle" ELSE "update", ids |-> ids]]
    /\ UNCHANGED <<db, seen, hand, torn, cut, made>>

UpdateStats(r) ==
    /\ refresh[r].pc = "update"
    /\ LET ids == refresh[r].ids
       IN  /\ stats' = [a \in DOMAIN stats |-> IF a \in ids THEN Cardinality(TracksOf(a)) ELSE stats[a]]
           /\ cut' = (cut /\ ~(rows \cap Artists \subseteq ids))
    /\ refresh' = [refresh EXCEPT ![r] = [pc |-> "cleanup", ids |-> {}]]
    /\ UNCHANGED <<rows, full, credits, seen, hand, torn, made>>

CleanupEmpty(r) ==
    /\ refresh[r].pc = "cleanup"
    /\ stats' = [a \in {b \in DOMAIN stats : stats[b] # 0} |-> stats[a]]
    /\ refresh' = [refresh EXCEPT ![r].pc = "idle"]
    /\ UNCHANGED <<rows, full, credits, seen, hand, torn, cut, made>>

-----------------------------------------------------------------------------
\* A selective scan leaves the albums of other libraries alone.
EmptyAlbums(selective) ==
    {al \in Albums \cap rows : ~selective /\ \A t \in Tracks \cap rows : AlbumOf[t] # al}

\* Artists without album_artists rows, in all libraries.
Orphans(empty) == {a \in Artists \cap rows : \A al \in Albums \ empty : <<al, a>> \notin credits}

\* The end of a library scan that changed something: GC in one transaction, in
\* which foreign keys cascade, then the statistics. What else GC tidies is not
\* modelled.
GC(selective) ==
    LET empty == EmptyAlbums(selective)
        orphans == Orphans(empty)
    IN  /\ made.scans < MaxScans /\ made' = [made EXCEPT !.scans = @ + 1]
        /\ refresh["scanner"].pc = "idle"
        /\ rows' = rows \ (empty \cup orphans)
        /\ full' = full \ empty
        /\ credits' = {c \in credits : c[1] \notin empty /\ c[2] \notin orphans}
        /\ stats' = [a \in DOMAIN stats \ orphans |-> stats[a]]
        /\ torn' = torn \cup {i \in Items : CreditsOf(i) \cap orphans # {}}
        /\ StartRefresh("scanner")
        /\ UNCHANGED <<seen, hand, cut>>

-----------------------------------------------------------------------------
RequestSteps(h) ==
    \/ \E q \in Queries : tidalJITMiddleware(h, q) \/ WasSyncedRecently(h, q)
    \/ \E al \in Albums : GetAlbum(h, al)
    \/ MarkSynced(h)
    \/ \E what \in SUBSET {"artists", "albums", "tracks"} : SyncSearch(h, what)
    \/ SyncAlbum(h)
    \/ Exists(h) \/ Update(h) \/ Insert(h) \/ AddArtist(h)
    \/ DeleteParticipants(h) \/ InsertParticipants(h)
    \/ Finish(h) \/ Refreshed(h) \/ Cancel(h) \/ Serve(h)

Next ==
    \/ \E h \in Handlers : RequestSteps(h)
    \/ \E r \in Refreshers : SelectTouched(r) \/ UpdateStats(r) \/ CleanupEmpty(r)
    \/ \E selective \in BOOLEAN : GC(selective)

Spec == Init /\ [][Next]_vars

-----------------------------------------------------------------------------
(* Properties *)

Puts == [kind : {"artist"}, id : Artists] \cup [kind : {"full", "ref"}, id : Albums]
           \cup [kind : {"track"}, id : Tracks]
Statements == {"exists", "update", "insert", "link", "uncredit", "credit", "end"}

Requests == [pc : {"idle", "mark", "search", "sync", "refresh", "serve"},
             api : APIs \cup {"album", "none"}, of : Queries \cup Albums \cup {"none"},
             todo : Seq(Seq(Puts) \ {<<>>}), stmt : Statements,
             want : SUBSET Tracks, owes : BOOLEAN]

\* The types, and the foreign keys of the link and participant tables: the
\* statements of concurrent syncs never write a credit or a link of a row that
\* is not there (updateParticipants joins artist, AddArtist).
TypeOK ==
    /\ rows \subseteq Artists \cup Items
    /\ full \subseteq Albums \cap rows
    /\ credits \subseteq (Items \cap rows) \X (Artists \cap rows)
    /\ DOMAIN stats \subseteq Artists \cap rows /\ \A a \in DOMAIN stats : stats[a] \in Nat
    /\ seen \in [APIs -> SUBSET Queries]
    /\ hand \in [Handlers -> Requests]
    /\ refresh \in [Refreshers -> [pc : {"idle", "select", "update", "cleanup"}, ids : SUBSET Artists]]
    /\ made \in [requests : 0..MaxRequests, scans : 0..MaxScans, cuts : 0..MaxCuts]
    /\ torn \subseteq Items /\ cut \in BOOLEAN

\* Someone is between two statements of writing item i.
BeingWritten(i) ==
    \E h \in Handlers : hand[h].pc = "sync" /\ hand[h].stmt \in {"uncredit", "credit"} /\ Item(h).id = i

\* A stored track or full album that no sync is writing is credited to every
\* one of its artists, however syncs of the same item interleave and lose the
\* race for its row, unless a sync was cut half way through it or the garbage
\* collection took one of its artists ("ensure every credited artist exists,
\* not just the primary one"; ensureTidalArtistRefs, updateParticipants).
CreditsComplete ==
    \A i \in ((Tracks \cap rows) \cup full) \ torn :
        BeingWritten(i) \/ \A a \in CreditsOf(i) : <<i, a>> \in credits

Quiescent == (\A h \in Handlers : hand[h].pc = "idle") /\ \A r \in Refreshers : refresh[r].pc = "idle"

\* When all requests were answered and all refreshes are over, the statistics
\* of every linked artist count its stored tracks, whatever the order in which
\* concurrent refreshes read and wrote them (RefreshStats), unless a sync was
\* cut short before it got to its refresh.
StatsCurrent ==
    Quiescent /\ ~cut => \A a \in DOMAIN stats : stats[a] = Cardinality(TracksOf(a))

\* When a request is served whose own sync ran to its end, every track Tidal
\* found for it is in the database, also those another request was storing at
\* the same time ("visible in the SAME search response").
SameResponse == \A h \in Handlers : hand[h].pc = "serve" => hand[h].want \subseteq rows
=============================================================================
