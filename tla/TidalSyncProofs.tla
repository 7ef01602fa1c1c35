-------------------------- MODULE TidalSyncProofs --------------------------
EXTENDS TidalSync, FiniteSetTheorems, TLAPS

Works == Seq(Seq(Puts) \ {<<>>})

(* Position j of hit n of a list of work, other than its next item.          *)
IsLater(n, j) == n # 1 \/ j # 1
LastItem(todo) == todo[Len(todo)][Len(todo[Len(todo)])]

-----------------------------------------------------------------------------
(* The list of work.                                                         *)

\* A list of work that is not empty has a next item.
LEMMA WorkFacts ==
    ASSUME NEW todo \in Works, todo # <<>>
    PROVE  /\ Len(todo) \in Nat /\ Len(todo) >= 1 /\ DOMAIN todo = 1..Len(todo) /\ 1 \in DOMAIN todo
           /\ \A n \in DOMAIN todo : /\ todo[n] \in Seq(Puts) /\ todo[n] # <<>>
                                     /\ Len(todo[n]) \in Nat /\ Len(todo[n]) >= 1
                                     /\ DOMAIN todo[n] = 1..Len(todo[n])
                                     /\ \A j \in DOMAIN todo[n] : todo[n][j] \in Puts
           /\ 1 \in DOMAIN todo[1] /\ NextItem(todo) \in Puts
<1>1. Len(todo) \in Nat /\ Len(todo) >= 1 /\ DOMAIN todo = 1..Len(todo) /\ 1 \in DOMAIN todo
  BY DEF Works
<1>2. ASSUME NEW n \in DOMAIN todo
      PROVE  /\ todo[n] \in Seq(Puts) /\ todo[n] # <<>>
             /\ Len(todo[n]) \in Nat /\ Len(todo[n]) >= 1
             /\ DOMAIN todo[n] = 1..Len(todo[n])
             /\ \A j \in DOMAIN todo[n] : todo[n][j] \in Puts
  <2>1. todo[n] \in Seq(Puts) /\ todo[n] # <<>>
    BY <1>1, <1>2 DEF Works
  <2> HIDE DEF Works
  <2> QED
    BY <2>1
<1>3. 1 \in DOMAIN todo[1] /\ NextItem(todo) \in Puts
  BY <1>1, <1>2 DEF NextItem
<1> QED
  BY <1>1, <1>2, <1>3

\* When the next item is done, the items behind it are left, in their order.
LEMMA RestFacts ==
    ASSUME NEW todo \in Works, todo # <<>>
    PROVE  /\ Rest(todo) \in Works
           /\ \A n \in DOMAIN Rest(todo) : \A j \in DOMAIN Rest(todo)[n] :
                \E m \in DOMAIN todo : \E i \in DOMAIN todo[m] :
                    /\ IsLater(m, i) /\ Rest(todo)[n][j] = todo[m][i]
                    /\ \A l \in 1..(i - 1) : IsLater(m, l) =>
                          \E p \in 1..(j - 1) : Rest(todo)[n][p] = todo[m][l]
           /\ \A m \in DOMAIN todo : \A i \in DOMAIN todo[m] : IsLater(m, i) =>
                \E n \in DOMAIN Rest(todo) : \E j \in DOMAIN Rest(todo)[n] : Rest(todo)[n][j] = todo[m][i]
           /\ Rest(todo) # <<>> => LastItem(Rest(todo)) = LastItem(todo)
<1> DEFINE rest == Rest(todo)
<1> USE DEF IsLater
<1>1. /\ Len(todo) \in Nat /\ Len(todo) >= 1 /\ DOMAIN todo = 1..Len(todo) /\ 1 \in DOMAIN todo
      /\ \A n \in DOMAIN todo : /\ todo[n] \in Seq(Puts) /\ todo[n] # <<>>
                                /\ Len(todo[n]) \in Nat /\ Len(todo[n]) >= 1
                                /\ DOMAIN todo[n] = 1..Len(todo[n])
  BY WorkFacts
<1>2. CASE Len(todo[1]) = 1
  <2>1. rest = Tail(todo)
    BY <1>2 DEF Rest
  <2>2. /\ rest \in Works /\ Len(rest) = Len(todo) - 1 /\ DOMAIN rest = 1..(Len(todo) - 1)
        /\ \A n \in DOMAIN rest : rest[n] = todo[n + 1]
    BY <1>1, <2>1 DEF Works
  <2>3. ASSUME NEW n \in DOMAIN rest, NEW j \in DOMAIN rest[n]
        PROVE  \E m \in DOMAIN todo : \E i \in DOMAIN todo[m] :
                    /\ IsLater(m, i) /\ rest[n][j] = todo[m][i]
                    /\ \A l \in 1..(i - 1) : IsLater(m, l) => \E p \in 1..(j - 1) : rest[n][p] = todo[m][l]
    <3>1. n + 1 \in DOMAIN todo /\ n + 1 # 1 /\ rest[n] = todo[n + 1] /\ j \in DOMAIN todo[n + 1]
      BY <1>1, <2>2, <2>3
    <3> HIDE DEF rest
    <3> QED
      BY <3>1
  <2>4. ASSUME NEW m \in DOMAIN todo, NEW i \in DOMAIN todo[m], IsLater(m, i)
        PROVE  \E n \in DOMAIN rest : \E j \in DOMAIN rest[n] : rest[n][j] = todo[m][i]
    <3>1. m # 1
      BY <1>1, <1>2, <2>4
    <3>2. m - 1 \in DOMAIN rest /\ rest[m - 1] = todo[m]
      BY <1>1, <2>2, <3>1
    <3> HIDE DEF rest
    <3> QED
      BY <3>2
  <2>5. ASSUME rest # <<>> PROVE LastItem(rest) = LastItem(todo)
    <3>1. rest \in Seq(Seq(Puts) \ {<<>>})
      BY <2>2 DEF Works
    <3>1a. Len(rest) # 0
      <4> HIDE DEF rest
      <4> QED
        BY <2>5, <3>1
    <3>2. Len(rest) \in DOMAIN rest /\ rest[Len(rest)] = todo[Len(todo)]
      BY <1>1, <2>2, <3>1a
    <3> HIDE DEF rest
    <3> QED
      BY <3>2 DEF LastItem
  <2> QED
    BY <2>2, <2>3, <2>4, <2>5
<1>3. CASE Len(todo[1]) # 1
  <2> DEFINE first == Tail(todo[1])
  <2>1. rest = [todo EXCEPT ![1] = first]
    BY <1>3 DEF Rest
  <2>2. /\ first \in Seq(Puts) \ {<<>>} /\ Len(first) = Len(todo[1]) - 1
        /\ DOMAIN first = 1..(Len(todo[1]) - 1) /\ \A j \in DOMAIN first : first[j] = todo[1][j + 1]
    <3> DEFINE hit == todo[1]
    <3>1. hit \in Seq(Puts) /\ Len(hit) \in Nat /\ Len(hit) >= 1 /\ Len(hit) # 1
      BY <1>1, <1>3
    <3>2. Tail(hit) \in Seq(Puts) \ {<<>>} /\ Len(Tail(hit)) = Len(hit) - 1
          /\ DOMAIN Tail(hit) = 1..(Len(hit) - 1) /\ \A j \in DOMAIN Tail(hit) : Tail(hit)[j] = hit[j + 1]
      <4> HIDE DEF hit
      <4>1. Tail(hit) \in Seq(Puts) /\ Len(Tail(hit)) = Len(hit) - 1 /\ Len(Tail(hit)) # 0
        BY <3>1
      <4>2. DOMAIN Tail(hit) = 1..(Len(hit) - 1) /\ \A j \in 1..(Len(hit) - 1) : Tail(hit)[j] = hit[j + 1]
        BY <3>1
      <4>3. Tail(hit) # <<>>
        <5>1. Len(<<>>) = 0
          OBVIOUS
        <5> QED
          BY <4>1, <5>1, Zenon
      <4> QED
        BY <4>1, <4>2, <4>3
    <3> QED
      BY <3>2
  <2> HIDE DEF first
  <2>3. /\ rest \in Works /\ Len(rest) = Len(todo) /\ DOMAIN rest = DOMAIN todo
        /\ rest[1] = first /\ \A n \in DOMAIN rest \ {1} : rest[n] = todo[n]
    <3>1. todo \in [1..Len(todo) -> Seq(Puts) \ {<<>>}]
      BY DEF Works
    <3>2. rest \in [1..Len(todo) -> Seq(Puts) \ {<<>>}]
      BY <1>1, <2>1, <2>2, <3>1
    <3> QED
      BY <1>1, <2>1, <3>2 DEF Works
  <2> HIDE DEF rest
  <2>4. ASSUME NEW n \in DOMAIN rest, NEW j \in DOMAIN rest[n]
        PROVE  \E m \in DOMAIN todo : \E i \in DOMAIN todo[m] :
                    /\ IsLater(m, i) /\ rest[n][j] = todo[m][i]
                    /\ \A l \in 1..(i - 1) : IsLater(m, l) => \E p \in 1..(j - 1) : rest[n][p] = todo[m][l]
    <3>1. CASE n = 1
      <4>1. j + 1 \in DOMAIN todo[1] /\ j + 1 # 1 /\ rest[1][j] = todo[1][j + 1] /\ j \in Nat
        BY <1>1, <2>2, <2>3, <2>4, <3>1
      <4>2. ASSUME NEW l \in 1..((j + 1) - 1), IsLater(1, l) PROVE \E p \in 1..(j - 1) : rest[1][p] = todo[1][l]
        <5>1. l - 1 \in 1..(j - 1) /\ l - 1 \in DOMAIN first
          BY <1>1, <2>2, <2>3, <2>4, <3>1, <4>1, <4>2
        <5>2. first[l - 1] = todo[1][(l - 1) + 1] /\ (l - 1) + 1 = l
          BY <2>2, <5>1
        <5> QED
          BY <2>3, <5>1, <5>2
      <4> QED
        BY <1>1, <3>1, <4>1, <4>2
    <3>2. CASE n # 1
      BY <2>3, <2>4, <3>2
    <3> QED
      BY <3>1, <3>2
  <2>5. ASSUME NEW m \in DOMAIN todo, NEW i \in DOMAIN todo[m], IsLater(m, i)
        PROVE  \E n \in DOMAIN rest : \E j \in DOMAIN rest[n] : rest[n][j] = todo[m][i]
    <3>1. CASE m = 1
      <4>1. i - 1 \in DOMAIN first /\ first[i - 1] = todo[1][i]
        BY <1>1, <2>2, <2>5, <3>1
      <4> QED
        BY <1>1, <2>3, <3>1, <4>1
    <3>2. CASE m # 1
      BY <2>3, <2>5, <3>2
    <3> QED
      BY <3>1, <3>2
  <2>6. LastItem(rest) = LastItem(todo)
    <3>1. CASE Len(todo) = 1
      <4>1. Len(first) \in DOMAIN first /\ first[Len(first)] = todo[1][Len(todo[1])]
        BY <1>1, <1>3, <2>2, <3>1
      <4> QED
        BY <2>3, <3>1, <4>1 DEF LastItem
    <3>2. CASE Len(todo) # 1
      BY <1>1, <2>3, <3>2 DEF LastItem
    <3> QED
      BY <3>1, <3>2
  <2> QED
    BY <2>3, <2>4, <2>5, <2>6 DEF rest
<1> QED
  BY <1>2, <1>3

-----------------------------------------------------------------------------
(* What holds of a request k while the rows are R and the torn items T.      *)

HandOK(k) ==
    /\ k.api \in APIs => k.of \in Queries
    /\ k.api = "album" => k.of \in Albums
    /\ k.pc = "search" => k.api # "none"
    /\ k.pc = "mark" => k.api = "subsonic"
    /\ k.pc # "sync" => k.todo = <<>>
    /\ k.stmt = "end" <=> k.todo = <<>>
    /\ k.stmt = "exists" => NextItem(k.todo).kind \in {"artist", "ref"}
    /\ k.stmt = "link" => NextItem(k.todo).kind = "artist"
    /\ k.stmt \in {"uncredit", "credit"} => NextItem(k.todo).kind \in {"full", "track"}
    /\ k.pc \in {"idle", "mark", "search"} => ~k.owes /\ k.want = {}

HasTrack(todo, t) == \E n \in DOMAIN todo : \E j \in DOMAIN todo[n] : todo[n][j] = Put("track", t)

(* Every track the request wants is stored or still to be stored.            *)
HandStored(k, R) ==
    /\ k.stmt \in {"uncredit", "credit"} /\ NextItem(k.todo).kind = "track" => NextItem(k.todo).id \in R
    /\ \A t \in k.want : t \in R \/ HasTrack(k.todo, t)

(* An artist of the item at position j of hit n is stored, or is stored      *)
(* before the item.  The artist whose row is written and which is being      *)
(* linked no longer counts as to be stored.                                  *)
ArtistReady(k, R, n, j, a) ==
    \/ a \in R
    \/ \E l \in 1..(j - 1) : k.todo[n][l] = Put("artist", a) /\ (k.stmt = "link" => IsLater(n, l))

ArtistsReady(k, R, T) ==
    \A n \in DOMAIN k.todo : \A j \in DOMAIN k.todo[n] :
        (k.todo[n][j].kind \in {"full", "track"} /\ k.todo[n][j].id \notin T) =>
            \A a \in CreditsOf(k.todo[n][j].id) : ArtistReady(k, R, n, j, a)

(* Tidal answers the request for an album with at least one track.           *)
AlbumsHaveTracks == \A al \in Albums : \E t \in Tracks : AlbumOf[t] = al

(* Then a sync that has something to do ends with a track, or owes a refresh. *)
TrackLast(k) == AlbumsHaveTracks => k.owes \/ k.todo = <<>> \/ LastItem(k.todo).kind = "track"

HandInv(k, R, T) == HandOK(k) /\ HandStored(k, R) /\ ArtistsReady(k, R, T) /\ TrackLast(k)

\* Fields of a request and of the items.
LEMMA RequestFacts ==
    ASSUME NEW k \in Requests
    PROVE  k.todo \in Works /\ k.owes \in BOOLEAN /\ k.want \in SUBSET Tracks /\ k.stmt \in Statements
  BY DEF Requests, Works

LEMMA PutFacts ==
    ASSUME NEW p \in Puts
    PROVE  /\ p.kind \in {"artist", "full", "ref", "track"} /\ p = Put(p.kind, p.id)
           /\ p.kind = "artist" <=> p.id \in Artists
           /\ p.kind = "track" <=> p.id \in Tracks
           /\ p.kind \in {"full", "ref"} <=> p.id \in Albums
  BY CatalogueAssumption DEF Puts, Put

\* The next item is done (Advance): the artist it stored is there, the track too.
LEMMA AdvanceHand ==
    ASSUME NEW k \in Requests, NEW R, NEW T, HandInv(k, R, T), k.pc = "sync", k.todo # <<>>,
           NextItem(k.todo).kind = "artist" => NextItem(k.todo).id \in R \/ k.stmt = "link",
           NextItem(k.todo).kind = "track" => NextItem(k.todo).id \in R,
           NEW imported \in BOOLEAN, NEW c,
           c = [k EXCEPT !.todo = Rest(k.todo), !.stmt = Begin(Rest(k.todo)), !.owes = @ \/ imported]
    PROVE  c \in Requests /\ HandInv(c, R, T)
<1> DEFINE todo == k.todo  rest == Rest(k.todo)
<1>1. /\ c.pc = k.pc /\ c.api = k.api /\ c.of = k.of /\ c.todo = rest /\ c.stmt = Begin(rest)
      /\ c.want = k.want /\ c.owes = (k.owes \/ imported)
  BY DEF Requests
<1>2. todo \in Works /\ todo # <<>>
  BY RequestFacts
<1>3. rest \in Works
  BY <1>2, RestFacts
<1>4. Begin(rest) \in Statements
  BY DEF Begin, Statements
<1>5. c \in Requests
  BY <1>3, <1>4 DEF Requests, Works
<1>6. /\ Begin(rest) \notin {"link", "uncredit", "credit", "insert"} /\ (Begin(rest) = "end" <=> rest = <<>>)
      /\ Begin(rest) = "exists" => NextItem(rest).kind \in {"artist", "ref"}
  BY DEF Begin
<1>7. HandOK(c)
  BY <1>1, <1>6 DEF HandInv, HandOK
<1>8. NextItem(todo) \in Puts /\ NextItem(todo) = todo[1][1]
  BY <1>2, WorkFacts DEF NextItem
<1> HIDE DEF todo, rest
<1>9. HandStored(c, R)
  <2> SUFFICES ASSUME NEW t \in k.want, t \notin R PROVE HasTrack(rest, t)
    BY <1>1, <1>6 DEF HandStored
  <2>1. PICK n \in DOMAIN todo : \E j \in DOMAIN todo[n] : todo[n][j] = Put("track", t)
    BY DEF HandInv, HandStored, HasTrack, todo
  <2>2. PICK j \in DOMAIN todo[n] : todo[n][j] = Put("track", t)
    BY <2>1
  <2>3. IsLater(n, j)
    BY <1>8, <2>2 DEF IsLater, Put, todo
  <2>4. \E m \in DOMAIN rest : \E i \in DOMAIN rest[m] : rest[m][i] = todo[n][j]
    BY <1>2, <2>2, <2>3, RestFacts DEF rest, todo
  <2> QED
    BY <2>2, <2>4 DEF HasTrack
<1>10. ArtistsReady(c, R, T)
  <2> SUFFICES ASSUME NEW n \in DOMAIN rest, NEW j \in DOMAIN rest[n],
                      rest[n][j].kind \in {"full", "track"}, rest[n][j].id \notin T,
                      NEW a \in CreditsOf(rest[n][j].id), a \notin R
               PROVE  \E l \in 1..(j - 1) : rest[n][l] = Put("artist", a)
    BY <1>1, <1>6 DEF ArtistsReady, ArtistReady
  <2>1. PICK m \in DOMAIN todo : \E i \in DOMAIN todo[m] :
                    /\ IsLater(m, i) /\ rest[n][j] = todo[m][i]
                    /\ \A l \in 1..(i - 1) : IsLater(m, l) => \E p \in 1..(j - 1) : rest[n][p] = todo[m][l]
    BY <1>2, RestFacts DEF rest, todo
  <2>2. PICK i \in DOMAIN todo[m] :
                    /\ IsLater(m, i) /\ rest[n][j] = todo[m][i]
                    /\ \A l \in 1..(i - 1) : IsLater(m, l) => \E p \in 1..(j - 1) : rest[n][p] = todo[m][l]
    BY <2>1
  <2>3. PICK l \in 1..(i - 1) : todo[m][l] = Put("artist", a) /\ (k.stmt = "link" => IsLater(m, l))
    BY <2>2 DEF HandInv, ArtistsReady, ArtistReady, todo
  <2>4. IsLater(m, l)
    BY <1>8, <2>3 DEF IsLater, Put, todo
  <2> QED
    BY <2>2, <2>3, <2>4
<1>11. TrackLast(c)
  BY <1>1, <1>2, RestFacts DEF HandInv, TrackLast, todo, rest
<1> QED
  BY <1>5, <1>7, <1>9, <1>10, <1>11 DEF HandInv

\* The next statement of the same item (GoTo).
LEMMA GoToHand ==
    ASSUME NEW k \in Requests, NEW R, NEW T, HandInv(k, R, T), k.pc = "sync", k.todo # <<>>,
           NEW s \in Statements \ {"end", "exists"}, k.stmt # "link",
           s = "link" => NextItem(k.todo).kind = "artist" /\ NextItem(k.todo).id \in R,
           s \in {"uncredit", "credit"} => /\ NextItem(k.todo).kind \in {"full", "track"}
                                           /\ NextItem(k.todo).kind = "track" => NextItem(k.todo).id \in R,
           NEW c, c = [k EXCEPT !.stmt = s]
    PROVE  c \in Requests /\ HandInv(c, R, T)
<1>1. /\ c.pc = k.pc /\ c.api = k.api /\ c.of = k.of /\ c.todo = k.todo /\ c.stmt = s
      /\ c.want = k.want /\ c.owes = k.owes
  BY DEF Requests
<1>2. c \in Requests
  BY DEF Requests
<1>3. HandOK(c)
  BY <1>1 DEF HandInv, HandOK
<1>4. HandStored(c, R)
  BY <1>1 DEF HandInv, HandStored
<1>5. ArtistsReady(c, R, T)
  <2> SUFFICES ASSUME NEW n \in DOMAIN k.todo, NEW j \in DOMAIN k.todo[n],
                      k.todo[n][j].kind \in {"full", "track"}, k.todo[n][j].id \notin T,
                      NEW a \in CreditsOf(k.todo[n][j].id), a \notin R
               PROVE  \E l \in 1..(j - 1) : k.todo[n][l] = Put("artist", a) /\ (s = "link" => IsLater(n, l))
    BY <1>1 DEF ArtistsReady, ArtistReady
  <2>1. PICK l \in 1..(j - 1) : k.todo[n][l] = Put("artist", a)
    BY DEF HandInv, ArtistsReady, ArtistReady
  <2>2. s = "link" => IsLater(n, l)
    BY <2>1 DEF NextItem, IsLater, Put
  <2> QED
    BY <2>1, <2>2
<1>6. TrackLast(c)
  BY <1>1 DEF HandInv, TrackLast
<1> QED
  BY <1>2, <1>3, <1>4, <1>5, <1>6 DEF HandInv

\* A request another one works beside: no track is lost, and an item that is not torn
\* either was not before and lost no artist, or has all its artists.
LEMMA KeepHand ==
    ASSUME NEW k \in Requests, NEW R, NEW T, HandInv(k, R, T), NEW R2, NEW T2,
           Tracks \cap R \subseteq R2,
           \A i \in Items \ T2 : (i \notin T /\ CreditsOf(i) \cap R \subseteq R2) \/ CreditsOf(i) \subseteq R2
    PROVE  HandInv(k, R2, T2)
<1>1. k.todo \in Works /\ k.want \subseteq Tracks
  BY RequestFacts
<1>2. ASSUME k.todo # <<>>
      PROVE NextItem(k.todo) \in Puts /\ \A n \in DOMAIN k.todo : \A j \in DOMAIN k.todo[n] : k.todo[n][j] \in Puts
  BY <1>1, <1>2, WorkFacts
<1>3. HandStored(k, R2)
  <2>1. ASSUME k.stmt \in {"uncredit", "credit"}, NextItem(k.todo).kind = "track" PROVE NextItem(k.todo).id \in R2
    <3>1. k.todo # <<>>
      BY <2>1 DEF HandInv, HandOK
    <3> QED
      BY <1>2, <2>1, <3>1, PutFacts DEF HandInv, HandStored
  <2> QED
    BY <1>1, <2>1 DEF HandInv, HandStored
<1>4. ArtistsReady(k, R2, T2)
  <2> SUFFICES ASSUME NEW n \in DOMAIN k.todo, NEW j \in DOMAIN k.todo[n],
                      k.todo[n][j].kind \in {"full", "track"}, k.todo[n][j].id \notin T2,
                      NEW a \in CreditsOf(k.todo[n][j].id)
               PROVE  ArtistReady(k, R2, n, j, a)
    BY DEF ArtistsReady
  <2>0. k.todo # <<>>
    BY <1>1 DEF Works
  <2>1. k.todo[n][j].id \in Items
    BY <1>2, <2>0, PutFacts DEF Items
  <2>2. a \in R2 \/ (k.todo[n][j].id \notin T /\ (a \in R => a \in R2))
    BY <2>1
  <2>3. k.todo[n][j].id \notin T => ArtistReady(k, R, n, j, a)
    BY DEF HandInv, ArtistsReady
  <2> QED
    BY <2>2, <2>3 DEF ArtistReady
<1> QED
  BY <1>3, <1>4 DEF HandInv

-----------------------------------------------------------------------------
(* The hits of a sync.                                                       *)

(* An item of a hit comes after all artists it is credited to.               *)
GoodHit(g) ==
    /\ g \in Seq(Puts) \ {<<>>}
    /\ \A j \in DOMAIN g : g[j].kind \in {"full", "track"} =>
          \A a \in CreditsOf(g[j].id) : \E l \in 1..(j - 1) : g[l] = Put("artist", a)

\* ensureTidalArtistRefs for every artist an item is credited to.
LEMMA EnsureFacts ==
    ASSUME NEW i \in Items
    PROVE  /\ Len(Credited[i]) \in Nat
           /\ EnsureArtists(Credited[i]) \in Seq(Puts)
           /\ Len(EnsureArtists(Credited[i])) = Len(Credited[i])
           /\ \A n \in 1..Len(Credited[i]) : /\ EnsureArtists(Credited[i])[n].kind = "artist"
                                             /\ EnsureArtists(Credited[i])[n] \in Puts
           /\ \A a \in CreditsOf(i) : \E n \in 1..Len(Credited[i]) : EnsureArtists(Credited[i])[n] = Put("artist", a)
<1> DEFINE refs == Credited[i]
<1>1. refs \in Seq(Artists) /\ Len(refs) \in Nat /\ DOMAIN refs = 1..Len(refs)
  BY CatalogueAssumption
<1>2. \A n \in 1..Len(refs) : Put("artist", refs[n]) \in Puts /\ Put("artist", refs[n]).kind = "artist"
  BY <1>1 DEF Puts, Put
<1>3. EnsureArtists(refs) = [n \in 1..Len(refs) |-> Put("artist", refs[n])]
  BY <1>1 DEF EnsureArtists
<1>4. \A a \in CreditsOf(i) : \E n \in 1..Len(refs) : refs[n] = a
  BY <1>1 DEF CreditsOf, Range
<1> HIDE DEF refs
<1>5. EnsureArtists(refs) \in [1..Len(refs) -> Puts]
  BY <1>2, <1>3
<1>6. EnsureArtists(refs) \in Seq(Puts) /\ Len(EnsureArtists(refs)) = Len(refs)
  BY <1>1, <1>5
<1> QED
  BY <1>1, <1>2, <1>3, <1>4, <1>6 DEF refs

\* What comes behind the artists of item i: the item, for a track found by a search after
\* its album.
LEMMA HitFacts ==
    ASSUME NEW i \in Items, NEW tail \in Seq(Puts), tail # <<>>,
           \A j \in DOMAIN tail : tail[j].kind # "artist" /\ (tail[j].kind \in {"full", "track"} => tail[j].id = i),
           NEW g, g = EnsureArtists(Credited[i]) \o tail
    PROVE  /\ GoodHit(g) /\ Len(g) \in DOMAIN g /\ g[Len(g)] = tail[Len(tail)]
<1> DEFINE arts == EnsureArtists(Credited[i])
<1>1. /\ arts \in Seq(Puts) /\ Len(arts) \in Nat /\ \A n \in 1..Len(arts) : arts[n].kind = "artist"
      /\ \A a \in CreditsOf(i) : \E n \in 1..Len(arts) : arts[n] = Put("artist", a)
  BY EnsureFacts
<1> HIDE DEF arts
<1>2. Len(tail) \in Nat /\ Len(tail) >= 1 /\ DOMAIN tail = 1..Len(tail)
  OBVIOUS
<1>3. /\ g \in Seq(Puts) /\ Len(g) = Len(arts) + Len(tail) /\ DOMAIN g = 1..(Len(arts) + Len(tail))
      /\ \A n \in 1..Len(arts) : g[n] = arts[n]
      /\ \A n \in (Len(arts) + 1)..(Len(arts) + Len(tail)) : g[n] = tail[n - Len(arts)]
  BY <1>1, <1>2 DEF arts
<1>4. g # <<>>
  <2>1. Len(<<>>) = 0
    OBVIOUS
  <2> QED
    BY <1>1, <1>2, <1>3, <2>1
<1>5. ASSUME NEW j \in DOMAIN g, g[j].kind \in {"full", "track"}, NEW a \in CreditsOf(g[j].id)
      PROVE  \E l \in 1..(j - 1) : g[l] = Put("artist", a)
  <2>1. j \notin 1..Len(arts)
    BY <1>1, <1>3, <1>5
  <2>2. j - Len(arts) \in DOMAIN tail /\ g[j] = tail[j - Len(arts)] /\ 1..Len(arts) \subseteq 1..(j - 1)
    BY <1>1, <1>2, <1>3, <1>5, <2>1
  <2>3. PICK n \in 1..Len(arts) : arts[n] = Put("artist", a)
    BY <1>1, <1>5, <2>2
  <2> QED
    BY <1>3, <2>2, <2>3
<1>6. Len(g) \in DOMAIN g /\ g[Len(g)] = tail[Len(tail)]
  BY <1>1, <1>2, <1>3
<1> QED
  BY <1>3, <1>4, <1>5, <1>6 DEF GoodHit

LEMMA AlbumHit == ASSUME NEW al \in Albums PROVE GoodHit(AlbumItems(al))
<1> DEFINE tail == <<Put("full", al)>>
<1>1. tail \in Seq(Puts) /\ tail # <<>> /\ DOMAIN tail = {1} /\ tail[1] = Put("full", al)
  BY DEF Puts, Put
<1>2. Put("full", al).kind = "full" /\ Put("full", al).id = al
  BY DEF Put
<1>3. AlbumItems(al) = EnsureArtists(Credited[al]) \o tail
  BY DEF AlbumItems
<1> HIDE DEF tail
<1> QED
  BY <1>1, <1>2, <1>3, HitFacts DEF Items

LEMMA ArtistHit == ASSUME NEW a \in Artists PROVE GoodHit(ArtistItems(a))
  BY DEF GoodHit, ArtistItems, Puts, Put

\* The two forms of a track hit end with the track.
LEMMA TrackHits ==
    ASSUME NEW t \in Tracks, NEW g \in {TrackItems(t), AlbumTrackItems(t)}
    PROVE  GoodHit(g) /\ Len(g) \in DOMAIN g /\ g[Len(g)] = Put("track", t)
<1>0. t \in Items
  BY DEF Items
<1>1. CASE g = TrackItems(t)
  <2> DEFINE tail == <<Put("ref", AlbumOf[t]), Put("track", t)>>
  <2>1. Put("ref", AlbumOf[t]) \in Puts /\ Put("track", t) \in Puts
    BY CatalogueAssumption DEF Puts, Put
  <2>2. /\ Put("ref", AlbumOf[t]).kind = "ref"
        /\ Put("track", t).kind = "track" /\ Put("track", t).id = t
    BY DEF Put
  <2>3. g = EnsureArtists(Credited[t]) \o tail
    BY <1>1 DEF TrackItems
  <2>4. /\ tail \in Seq(Puts) /\ tail # <<>> /\ DOMAIN tail = {1, 2} /\ Len(tail) = 2
        /\ tail[1] = Put("ref", AlbumOf[t]) /\ tail[2] = Put("track", t)
    BY <2>1
  <2> HIDE DEF tail
  <2>5. \A j \in DOMAIN tail : tail[j].kind # "artist" /\ (tail[j].kind \in {"full", "track"} => tail[j].id = t)
    BY <2>2, <2>4
  <2>6. GoodHit(g) /\ Len(g) \in DOMAIN g /\ g[Len(g)] = tail[Len(tail)]
    BY <1>0, <2>3, <2>4, <2>5, HitFacts
  <2> QED
    BY <2>4, <2>6
<1>2. CASE g = AlbumTrackItems(t)
  <2> DEFINE tail == <<Put("track", t)>>
  <2>1. Put("track", t) \in Puts
    BY DEF Puts, Put
  <2>2. Put("track", t).kind = "track" /\ Put("track", t).id = t
    BY DEF Put
  <2>3. g = EnsureArtists(Credited[t]) \o tail
    BY <1>2 DEF AlbumTrackItems
  <2>4. tail \in Seq(Puts) /\ tail # <<>> /\ DOMAIN tail = {1} /\ Len(tail) = 1 /\ tail[1] = Put("track", t)
    BY <2>1
  <2> HIDE DEF tail
  <2>5. \A j \in DOMAIN tail : tail[j].kind # "artist" /\ (tail[j].kind \in {"full", "track"} => tail[j].id = t)
    BY <2>2, <2>4
  <2>6. GoodHit(g) /\ Len(g) \in DOMAIN g /\ g[Len(g)] = tail[Len(tail)]
    BY <1>0, <2>3, <2>4, <2>5, HitFacts
  <2> QED
    BY <2>4, <2>6
<1> QED
  BY <1>1, <1>2

GoodWork(todo) == todo \in Works /\ \A n \in DOMAIN todo : GoodHit(todo[n])

\* A hit for every element of a list.
LEMMA EachHit ==
    ASSUME NEW n \in Nat, NEW f, DOMAIN f = 1..n, f = [i \in 1..n |-> f[i]], \A i \in 1..n : GoodHit(f[i])
    PROVE  GoodWork(f) /\ Len(f) = n /\ (n = 0 => f = <<>>)
<1>1. f \in [1..n -> Seq(Puts) \ {<<>>}]
  BY DEF GoodHit
<1>2. f \in Works /\ Len(f) = n
  BY <1>1 DEF Works
<1>3. n = 0 => f = <<>>
  BY <1>2 DEF Works
<1> QED
  BY <1>2, <1>3 DEF GoodWork

\* One list of hits behind another.
LEMMA BothLists ==
    ASSUME NEW A, NEW B, GoodWork(A), GoodWork(B)
    PROVE  /\ GoodWork(A \o B)
           /\ \A t : HasTrack(B, t) => HasTrack(A \o B, t)
           /\ B # <<>> => A \o B # <<>> /\ LastItem(A \o B) = LastItem(B)
           /\ B = <<>> => A \o B = A
           /\ A \o B = <<>> => A = <<>> /\ B = <<>>
<1>1. /\ A \in Works /\ B \in Works /\ Len(A) \in Nat /\ Len(B) \in Nat
      /\ DOMAIN A = 1..Len(A) /\ DOMAIN B = 1..Len(B)
  BY DEF GoodWork, Works
<1>2. /\ A \o B \in Works /\ Len(A \o B) = Len(A) + Len(B) /\ DOMAIN (A \o B) = 1..(Len(A) + Len(B))
      /\ \A n \in 1..Len(A) : (A \o B)[n] = A[n]
      /\ \A n \in (Len(A) + 1)..(Len(A) + Len(B)) : (A \o B)[n] = B[n - Len(A)]
  BY <1>1 DEF Works
<1>3. \A n \in DOMAIN B : Len(A) + n \in DOMAIN (A \o B) /\ (A \o B)[Len(A) + n] = B[n]
  BY <1>1, <1>2
<1>4. \A n \in DOMAIN (A \o B) : \/ n \in DOMAIN A /\ (A \o B)[n] = A[n]
                                 \/ n - Len(A) \in DOMAIN B /\ (A \o B)[n] = B[n - Len(A)]
  BY <1>1, <1>2
<1>5. B = <<>> => A \o B = A
  BY <1>1 DEF Works
<1>6. A \o B = <<>> => A = <<>> /\ B = <<>>
  BY <1>1, <1>2 DEF Works
<1>7. B # <<>> => Len(B) # 0
  BY <1>1 DEF Works
<1> DEFINE C == A \o B
<1>8. Len(C) = Len(A) + Len(B) /\ C \in Works
  BY <1>2
<1> HIDE DEF C
<1>9. GoodWork(C)
  BY <1>4, <1>8 DEF GoodWork, C
<1>10. ASSUME NEW t, HasTrack(B, t) PROVE HasTrack(C, t)
  BY <1>3, <1>10 DEF HasTrack, C
<1>11. ASSUME B # <<>> PROVE LastItem(C) = LastItem(B)
  <2>1. Len(B) \in DOMAIN B /\ C[Len(A) + Len(B)] = B[Len(B)]
    BY <1>1, <1>3, <1>7, <1>11 DEF C
  <2> QED
    BY <1>8, <2>1 DEF LastItem
<1> QED
  BY <1>5, <1>6, <1>9, <1>10, <1>11 DEF C

\* The hits of a list of tracks.
LEMMA TrackWork ==
    ASSUME NEW s \in Seq(Tracks), NEW f,
           \/ f = EachOf(s, TrackItems)
           \/ f = EachOf(s, AlbumTrackItems)
    PROVE  /\ GoodWork(f) /\ (s = <<>> <=> f = <<>>)
           /\ \A t \in Range(s) : HasTrack(f, t)
           /\ f # <<>> => LastItem(f).kind = "track"
<1>1. Len(s) \in Nat /\ DOMAIN s = 1..Len(s) /\ \A i \in 1..Len(s) : s[i] \in Tracks
  OBVIOUS
<1>2. DOMAIN f = 1..Len(s) /\ f = [i \in 1..Len(s) |-> f[i]]
  BY <1>1 DEF EachOf
<1>3. \A i \in 1..Len(s) : f[i] = TrackItems(s[i]) \/ f[i] = AlbumTrackItems(s[i])
  BY <1>1 DEF EachOf
<1>4. \A i \in 1..Len(s) : GoodHit(f[i]) /\ Len(f[i]) \in DOMAIN f[i] /\ f[i][Len(f[i])] = Put("track", s[i])
  BY <1>1, <1>3, TrackHits
<1>5. GoodWork(f) /\ Len(f) = Len(s)
  BY <1>1, <1>2, <1>4, EachHit
<1>6. f \in Seq(Seq(Puts) \ {<<>>})
  BY <1>5 DEF GoodWork, Works
<1>7. s = <<>> <=> f = <<>>
  BY <1>5, <1>6
<1>8. ASSUME NEW t \in Range(s) PROVE HasTrack(f, t)
  <2>1. PICK i \in 1..Len(s) : s[i] = t
    BY <1>1, <1>8 DEF Range
  <2> QED
    BY <1>2, <1>4, <2>1 DEF HasTrack
<1>9. ASSUME f # <<>> PROVE LastItem(f).kind = "track"
  <2>1. Len(s) \in 1..Len(s)
    BY <1>1, <1>7, <1>9
  <2>2. LastItem(f) = f[Len(s)][Len(f[Len(s)])]
    BY <1>5 DEF LastItem
  <2>3. LastItem(f) = Put("track", s[Len(s)])
    BY <1>4, <2>1, <2>2
  <2> QED
    BY <2>3 DEF Put
<1> QED
  BY <1>5, <1>7, <1>8, <1>9

\* A sync starts with its list of work (Start).
LEMMA StartHand ==
    ASSUME NEW k \in Requests, NEW R, NEW T, HandInv(k, R, T), k.pc = "search",
           NEW todo, GoodWork(todo), NEW want \in SUBSET Tracks, \A t \in want : HasTrack(todo, t),
           NEW owes \in BOOLEAN, AlbumsHaveTracks => owes \/ todo = <<>> \/ LastItem(todo).kind = "track",
           NEW c, c = [k EXCEPT !.pc = "sync", !.todo = todo, !.stmt = Begin(todo), !.want = want, !.owes = owes]
    PROVE  c \in Requests /\ HandInv(c, R, T)
<1>1. /\ c.pc = "sync" /\ c.api = k.api /\ c.of = k.of /\ c.todo = todo /\ c.stmt = Begin(todo)
      /\ c.want = want /\ c.owes = owes
  BY DEF Requests
<1>2. /\ Begin(todo) \in Statements /\ Begin(todo) \notin {"link", "uncredit", "credit", "insert"}
      /\ (Begin(todo) = "end" <=> todo = <<>>)
      /\ Begin(todo) = "exists" => NextItem(todo).kind \in {"artist", "ref"}
  BY DEF Begin, Statements
<1>3. c \in Requests
  BY <1>2 DEF Requests, GoodWork, Works
<1>4. HandOK(c)
  BY <1>1, <1>2 DEF HandInv, HandOK
<1>5. HandStored(c, R)
  BY <1>1, <1>2 DEF HandStored
<1>6. ArtistsReady(c, R, T)
  <2> SUFFICES ASSUME NEW n \in DOMAIN todo, NEW j \in DOMAIN todo[n], todo[n][j].kind \in {"full", "track"},
                      NEW a \in CreditsOf(todo[n][j].id)
               PROVE  \E l \in 1..(j - 1) : todo[n][l] = Put("artist", a)
    BY <1>1, <1>2 DEF ArtistsReady, ArtistReady
  <2> QED
    BY DEF GoodWork, GoodHit
<1>7. TrackLast(c)
  BY <1>1 DEF TrackLast
<1> QED
  BY <1>3, <1>4, <1>5, <1>6, <1>7 DEF HandInv

\* The tracks of an album, each once.
LEMMA ListOf ==
    ASSUME NEW S, IsFiniteSet(S)
    PROVE  SetToSeq(S) \in Seq(S) /\ Range(SetToSeq(S)) = S
<1> DEFINE n == Cardinality(S)
<1>1. n \in Nat /\ ExistsBijection(1..n, S)
  BY FS_CardinalityType
<1>2. \E f \in [1..n -> S] : IsInjective(f)
  <2>1. PICK f : f \in Bijection(1..n, S)
    BY <1>1 DEF ExistsBijection
  <2> QED
    BY <2>1 DEF Bijection, Injection, IsInjective
<1> DEFINE s == SetToSeq(S)
<1>3. s \in [1..n -> S] /\ IsInjective(s)
  BY <1>2 DEF SetToSeq
<1>4. IsFiniteSet(1..n) /\ Cardinality(1..n) = n
  BY <1>1, FS_Interval
<1> HIDE DEF s, n
<1>5. s \in Injection(1..n, S)
  BY <1>3 DEF Injection, IsInjective
<1>6. s \in Surjection(1..n, S)
  BY <1>4, <1>5, FS_Injection DEF n
<1>7. s \in Seq(S) /\ DOMAIN s = 1..n
  BY <1>1, <1>3
<1>8. Range(s) = S
  BY <1>3, <1>6, <1>7 DEF Range, Surjection
<1> QED
  BY <1>7, <1>8 DEF s

-----------------------------------------------------------------------------
(* The steps of a request.                                                   *)

(* The refresh a request ends with has not begun while it works.             *)
RefreshQuiet == \A h \in Handlers : hand[h].pc \in {"mark", "search", "sync"} => refresh[h].pc = "idle"

WorkInv == TypeOK /\ RefreshQuiet /\ \A h \in Handlers : HandInv(hand[h], rows, torn)

(* What a step may do to the rows and the torn items beside the others.      *)
Beside ==
    /\ Tracks \cap rows \subseteq rows'
    /\ \A i \in Items \ torn' :
          (i \notin torn /\ CreditsOf(i) \cap rows \subseteq rows') \/ CreditsOf(i) \subseteq rows'

(* Handler h takes its request to a state in which the invariant holds.      *)
Moves(h) == \E c \in Requests : Becomes(h, c) /\ HandInv(c, rows', torn')

\* What the invariant says of the item a sync is at.
LEMMA AtItem ==
    ASSUME WorkInv, NEW h \in Handlers, hand[h].pc = "sync", hand[h].stmt # "end"
    PROVE  /\ hand[h] \in Requests /\ HandInv(hand[h], rows, torn) /\ hand[h].todo \in Works
           /\ hand[h].todo # <<>> /\ Item(h) = NextItem(hand[h].todo) /\ Item(h) \in Puts
           /\ Item(h).kind \in {"artist", "full", "ref", "track"}
           /\ Item(h).kind = "artist" <=> Item(h).id \in Artists
           /\ Item(h).kind = "track" <=> Item(h).id \in Tracks
           /\ Item(h).kind \in {"full", "ref"} <=> Item(h).id \in Albums
<1>1. hand[h] \in Requests /\ HandInv(hand[h], rows, torn)
  BY DEF WorkInv, TypeOK
<1>2. hand[h].todo \in Works /\ hand[h].todo # <<>>
  BY <1>1, RequestFacts DEF HandInv, HandOK
<1>3. Item(h) = NextItem(hand[h].todo) /\ Item(h) \in Puts
  BY <1>2, WorkFacts DEF Item
<1> QED
  BY <1>1, <1>2, <1>3, PutFacts

\* Requests are taken, throttled and answered without touching the database.
LEMMA QuietMoves ==
    ASSUME WorkInv, NEW h \in Handlers,
           \/ \E q \in Queries : tidalJITMiddleware(h, q) \/ WasSyncedRecently(h, q)
           \/ \E al \in Albums : GetAlbum(h, al)
           \/ MarkSynced(h) \/ Finish(h) \/ Refreshed(h) \/ Serve(h)
    PROVE  Moves(h) /\ UNCHANGED <<rows, torn>>
<1> DEFINE k == hand[h]
<1>1. k \in Requests /\ HandInv(k, rows, torn)
  BY DEF WorkInv, TypeOK
<1>2. UNCHANGED <<rows, torn>>
  BY DEF tidalJITMiddleware, WasSyncedRecently, GetAlbum, MarkSynced, Finish, Refreshed, Serve, db
<1>3. ASSUME NEW api \in APIs \cup {"album"}, NEW of, api \in APIs => of \in Queries, api = "album" => of \in Albums,
             NEW pc \in {"serve", "search", "mark"}, pc = "mark" => api = "subsonic",
             NEW c, c = [Request(api, of) EXCEPT !.pc = pc], Becomes(h, c)
      PROVE  Moves(h)
  <2>1. /\ c.pc = pc /\ c.api = api /\ c.of = of /\ c.todo = <<>> /\ c.stmt = "end" /\ c.want = {} /\ c.owes = FALSE
        /\ c = [pc |-> pc, api |-> api, of |-> of, todo |-> <<>>, stmt |-> "end", want |-> {}, owes |-> FALSE]
    BY <1>3 DEF Request, Idle
  <2>1a. of \in Queries \cup Albums /\ <<>> \in Seq(Seq(Puts) \ {<<>>}) /\ api \in APIs \cup {"album", "none"}
    BY <1>3
  <2>2. c \in Requests
    BY <1>3, <2>1, <2>1a DEF Requests, Statements
  <2>3. HandInv(c, rows, torn)
    BY <1>3, <2>1 DEF HandInv, HandOK, HandStored, ArtistsReady, TrackLast, APIs
  <2> QED
    BY <1>2, <1>3, <2>2, <2>3 DEF Moves
<1>4. ASSUME NEW q \in Queries, tidalJITMiddleware(h, q) PROVE Moves(h)
  BY <1>3, <1>4 DEF tidalJITMiddleware, APIs
<1>5. ASSUME NEW q \in Queries, WasSyncedRecently(h, q) PROVE Moves(h)
  BY <1>3, <1>5 DEF WasSyncedRecently, APIs
<1>6. ASSUME NEW al \in Albums, GetAlbum(h, al) PROVE Moves(h)
  <2>1. Request("album", al) = [Request("album", al) EXCEPT !.pc = "search"]
    BY DEF Request, Idle
  <2> QED
    BY <1>3, <1>6, <2>1 DEF GetAlbum, APIs
<1>7. ASSUME NEW pc \in {"serve", "search", "refresh"}, pc = "search" => k.pc = "mark",
             pc # "search" => k.pc \in {"sync", "refresh"}, k.todo = <<>>,
             NEW c, c = [k EXCEPT !.pc = pc], Becomes(h, c)
      PROVE  Moves(h)
  <2>1. /\ c.pc = pc /\ c.api = k.api /\ c.of = k.of /\ c.todo = k.todo /\ c.stmt = k.stmt
        /\ c.want = k.want /\ c.owes = k.owes
    BY <1>1, <1>7 DEF Requests
  <2>2. c \in Requests
    BY <1>1, <1>7 DEF Requests
  <2>3. HandOK(c)
    BY <1>1, <1>7, <2>1 DEF HandInv, HandOK
  <2>4. HandStored(c, rows)
    BY <1>1, <1>7, <2>1 DEF HandInv, HandStored
  <2>5. ArtistsReady(c, rows, torn) /\ TrackLast(c)
    BY <1>7, <2>1 DEF ArtistsReady, TrackLast
  <2> QED
    BY <1>2, <1>7, <2>2, <2>3, <2>4, <2>5 DEF Moves, HandInv
<1>8. ASSUME MarkSynced(h) \/ Finish(h) \/ Refreshed(h) PROVE Moves(h)
  <2>1. k.todo = <<>>
    BY <1>1, <1>8 DEF HandInv, HandOK, MarkSynced, Finish, Refreshed, At
  <2>2. CASE MarkSynced(h)
    BY <1>7, <2>1, <2>2 DEF MarkSynced
  <2>3. CASE Finish(h)
    BY <1>7, <2>1, <2>3 DEF Finish, At
  <2>4. CASE Refreshed(h)
    BY <1>7, <2>1, <2>4 DEF Refreshed
  <2> QED
    BY <1>8, <2>2, <2>3, <2>4
<1>9. ASSUME Serve(h) PROVE Moves(h)
  <2>1. Idle \in Requests
    BY DEF Idle, Requests, Statements
  <2>2. HandInv(Idle, rows, torn)
    BY DEF Idle, HandInv, HandOK, HandStored, ArtistsReady, TrackLast, APIs
  <2> QED
    BY <1>2, <1>9, <2>1, <2>2 DEF Moves, Serve
<1> QED
  BY <1>2, <1>4, <1>5, <1>6, <1>8, <1>9

\* Tidal has answered: the list of work is made.
LEMMA StartMoves ==
    ASSUME WorkInv, NEW h \in Handlers,
           SyncAlbum(h) \/ \E what \in SUBSET {"artists", "albums", "tracks"} : SyncSearch(h, what)
    PROVE  Moves(h) /\ UNCHANGED <<rows, torn>>
<1> DEFINE k == hand[h]
<1>1. k \in Requests /\ HandInv(k, rows, torn)
  BY DEF WorkInv, TypeOK
<1>2. UNCHANGED <<rows, torn>>
  BY DEF SyncAlbum, SyncSearch, db
<1>3. ASSUME NEW todo, GoodWork(todo), NEW want \in SUBSET Tracks, \A t \in want : HasTrack(todo, t),
             NEW owes \in BOOLEAN, AlbumsHaveTracks => owes \/ todo = <<>> \/ LastItem(todo).kind = "track",
             k.pc = "search", Start(h, todo, want, owes)
      PROVE  Moves(h)
  BY <1>1, <1>2, <1>3, StartHand DEF Start, Moves
<1>4. ASSUME SyncAlbum(h) PROVE Moves(h)
  <2> DEFINE al == k.of
             ours == {t \in Tracks : AlbumOf[t] = al}
             items == SetToSeq(ours)
             tracks == EachOf(items, AlbumTrackItems)
             album == <<AlbumItems(al)>>
  <2>1. al \in Albums /\ k.pc = "search" /\ Start(h, album \o tracks, Range(items), FALSE)
    BY <1>1, <1>4 DEF SyncAlbum, HandInv, HandOK
  <2>2. IsFiniteSet(ours)
    BY CatalogueAssumption, FS_Subset
  <2>3. items \in Seq(ours) /\ Range(items) = ours
    BY <2>2, ListOf
  <2>4. items \in Seq(Tracks)
    BY <2>3
  <2>5. GoodWork(album)
    <3>1. GoodHit(AlbumItems(al))
      BY <2>1, AlbumHit
    <3> QED
      BY <3>1 DEF GoodWork, Works, GoodHit
  <2>6. GoodWork(tracks) /\ (\A t \in Range(items) : HasTrack(tracks, t)) /\ (tracks # <<>> => LastItem(tracks).kind = "track")
        /\ (items = <<>> <=> tracks = <<>>)
    BY <2>4, TrackWork
  <2>7. Range(items) \in SUBSET Tracks
    BY <2>3
  <2>8. AlbumsHaveTracks => ours # {}
    BY <2>1 DEF AlbumsHaveTracks
  <2>9. AlbumsHaveTracks => items # <<>>
    <3>1. Range(<<>>) = {}
      BY DEF Range
    <3> QED
      BY <2>3, <2>8, <3>1
  <2> DEFINE todo == album \o tracks
  <2> HIDE DEF al, items, tracks, album, ours
  <2>10. /\ GoodWork(todo) /\ \A t \in Range(items) : HasTrack(todo, t)
         /\ AlbumsHaveTracks => LastItem(todo).kind = "track"
    BY <2>5, <2>6, <2>9, BothLists
  <2> HIDE DEF todo
  <2>11. Start(h, todo, Range(items), FALSE) /\ k.pc = "search"
    BY <2>1 DEF todo
  <2> QED
    BY <1>3, <2>7, <2>10, <2>11
<1>5. ASSUME NEW what \in SUBSET {"artists", "albums", "tracks"}, SyncSearch(h, what) PROVE Moves(h)
  <2> DEFINE found == Found(k.of, what)
             artists == EachOf(found.artists, ArtistItems)
             albums == EachOf(found.albums, AlbumItems)
             tracks == EachOf(found.tracks, TrackItems)
             owes == found.tracks = <<>> /\ (found.artists # <<>> \/ found.albums # <<>>)
             todo == artists \o albums \o tracks
  <2>1. k.of \in Queries /\ k.pc = "search" /\ Start(h, todo, Range(found.tracks), owes)
    BY <1>1, <1>5 DEF SyncSearch, HandInv, HandOK
  <2>2. found.artists \in Seq(Artists) /\ found.albums \in Seq(Albums) /\ found.tracks \in Seq(Tracks)
    BY <2>1, CatalogueAssumption DEF Found
  <2> HIDE DEF found
  <2>3. GoodWork(artists) /\ (found.artists = <<>> => artists = <<>>)
    <3>1. Len(found.artists) \in Nat /\ DOMAIN found.artists = 1..Len(found.artists)
      BY <2>2
    <3>2. \A i \in 1..Len(found.artists) : found.artists[i] \in Artists
      BY <2>2
    <3>3. /\ DOMAIN artists = 1..Len(found.artists) /\ artists = [i \in 1..Len(found.artists) |-> artists[i]]
          /\ \A i \in 1..Len(found.artists) : artists[i] = ArtistItems(found.artists[i])
      BY <3>1 DEF EachOf
    <3>4. found.artists = <<>> => Len(found.artists) = 0
      OBVIOUS
    <3> HIDE DEF artists
    <3> QED
      BY <3>1, <3>2, <3>3, <3>4, ArtistHit, EachHit
  <2>4. GoodWork(albums) /\ (found.albums = <<>> => albums = <<>>)
    <3>1. Len(found.albums) \in Nat /\ DOMAIN found.albums = 1..Len(found.albums)
      BY <2>2
    <3>2. \A i \in 1..Len(found.albums) : found.albums[i] \in Albums
      BY <2>2
    <3>3. /\ DOMAIN albums = 1..Len(found.albums) /\ albums = [i \in 1..Len(found.albums) |-> albums[i]]
          /\ \A i \in 1..Len(found.albums) : albums[i] = AlbumItems(found.albums[i])
      BY <3>1 DEF EachOf
    <3>4. found.albums = <<>> => Len(found.albums) = 0
      OBVIOUS
    <3> HIDE DEF albums
    <3> QED
      BY <3>1, <3>2, <3>3, <3>4, AlbumHit, EachHit
  <2>5. /\ GoodWork(tracks) /\ (found.tracks = <<>> <=> tracks = <<>>)
        /\ \A t \in Range(found.tracks) : HasTrack(tracks, t)
        /\ tracks # <<>> => LastItem(tracks).kind = "track"
    BY <2>2, TrackWork
  <2>6. Range(found.tracks) \in SUBSET Tracks
    BY <2>2 DEF Range
  <2>7. owes \in BOOLEAN /\ (owes <=> found.tracks = <<>> /\ (found.artists # <<>> \/ found.albums # <<>>))
    OBVIOUS
  <2> HIDE DEF artists, albums, tracks, owes
  <2>8. GoodWork(artists \o albums) /\ (artists = <<>> /\ albums = <<>> => artists \o albums = <<>>)
    BY <2>3, <2>4, BothLists
  <2>9. GoodWork(todo) /\ \A t \in Range(found.tracks) : HasTrack(todo, t)
    BY <2>5, <2>8, BothLists
  <2>10. owes \/ todo = <<>> \/ LastItem(todo).kind = "track"
    <3>1. CASE tracks # <<>>
      BY <2>5, <2>8, <3>1, BothLists
    <3>2. CASE tracks = <<>> /\ ~owes
      BY <2>3, <2>4, <2>5, <2>7, <2>8, <3>2, BothLists
    <3> QED
      BY <3>1, <3>2
  <2> HIDE DEF todo
  <2> QED
    BY <1>3, <2>1, <2>6, <2>7, <2>9, <2>10
<1> QED
  BY <1>2, <1>4, <1>5

\* The row of an item has been written (Written): on to the link or the credits.
LEMMA WrittenMoves ==
    ASSUME WorkInv, NEW h \in Handlers, hand[h].pc = "sync", hand[h].stmt \in {"update", "insert"},
           HandInv(hand[h], rows', torn'), Item(h).id \in rows', Written(h)
    PROVE  Moves(h)
<1>1. /\ hand[h] \in Requests /\ hand[h].todo # <<>> /\ Item(h) = NextItem(hand[h].todo)
      /\ Item(h).kind \in {"artist", "full", "ref", "track"}
  BY AtItem
<1>2. CASE Item(h).kind = "artist"
  <2>1. GoTo(h, "link")
    BY <1>2 DEF Written
  <2> QED
    BY <1>1, <1>2, <2>1, GoToHand DEF Moves, GoTo, Statements
<1>3. CASE Item(h).kind = "ref"
  <2>1. Advance(h, FALSE)
    BY <1>3 DEF Written
  <2> QED
    BY <1>1, <1>3, <2>1, AdvanceHand DEF Moves, Advance
<1>4. CASE Item(h).kind \in {"full", "track"}
  <2>1. GoTo(h, "uncredit")
    BY <1>4 DEF Written
  <2> QED
    BY <1>1, <1>4, <2>1, GoToHand DEF Moves, GoTo, Statements
<1> QED
  BY <1>1, <1>2, <1>3, <1>4

\* The statements of an item.
LEMMA StatementMoves ==
    ASSUME WorkInv, NEW h \in Handlers,
           Exists(h) \/ Update(h) \/ Insert(h) \/ AddArtist(h) \/ DeleteParticipants(h) \/ InsertParticipants(h)
    PROVE  Moves(h) /\ Beside
<1> DEFINE k == hand[h]
<1>1. k.pc = "sync" /\ k.stmt \in Statements \ {"end"}
  BY DEF Exists, Update, Insert, AddArtist, DeleteParticipants, InsertParticipants, At, Statements
<1>2. /\ k \in Requests /\ HandInv(k, rows, torn) /\ k.todo # <<>> /\ Item(h) = NextItem(k.todo) /\ Item(h) \in Puts
      /\ Item(h).kind \in {"artist", "full", "ref", "track"}
      /\ Item(h).kind = "artist" <=> Item(h).id \in Artists
      /\ Item(h).kind = "track" <=> Item(h).id \in Tracks
  BY <1>1, AtItem DEF Statements
<1>3. ASSUME UNCHANGED <<rows, torn>> PROVE Beside
  BY <1>3 DEF Beside
<1>4. CASE Exists(h)
  <2>1. UNCHANGED <<rows, torn>> /\ k.stmt = "exists"
    BY <1>4 DEF Exists, db, At
  <2>2. ASSUME Item(h).id \in rows, Advance(h, FALSE) PROVE Moves(h)
    BY <1>1, <1>2, <2>1, <2>2, AdvanceHand DEF Moves, Advance
  <2>3. ASSUME GoTo(h, "update") PROVE Moves(h)
    BY <1>1, <1>2, <2>1, <2>3, GoToHand DEF Moves, GoTo, Statements
  <2> QED
    BY <1>3, <1>4, <2>1, <2>2, <2>3 DEF Exists
<1>5. CASE Update(h)
  <2>1. UNCHANGED <<rows, torn>> /\ k.stmt = "update"
    BY <1>5 DEF Update, At
  <2>2. ASSUME Item(h).id \in rows, Written(h) PROVE Moves(h)
    BY <1>1, <1>2, <2>1, <2>2, WrittenMoves
  <2>3. ASSUME GoTo(h, "insert") PROVE Moves(h)
    BY <1>1, <1>2, <2>1, <2>3, GoToHand DEF Moves, GoTo, Statements
  <2> QED
    BY <1>3, <1>5, <2>1, <2>2, <2>3 DEF Update
<1>6. CASE Insert(h)
  <2>1. UNCHANGED torn /\ k.stmt = "insert" /\ rows \subseteq rows'
    BY <1>6 DEF Insert, At
  <2>2. Beside
    BY <2>1 DEF Beside
  <2>3. HandInv(k, rows', torn')
    BY <1>2, <2>1, KeepHand
  <2>4. ASSUME Item(h).id \in rows, Advance(h, FALSE), UNCHANGED rows PROVE Moves(h)
    BY <1>1, <1>2, <2>1, <2>4, AdvanceHand DEF Moves, Advance
  <2>5. ASSUME Written(h), rows' = rows \cup {Item(h).id} PROVE Moves(h)
    BY <1>1, <1>2, <2>1, <2>3, <2>5, WrittenMoves
  <2> QED
    BY <1>6, <2>2, <2>4, <2>5 DEF Insert
<1>7. CASE AddArtist(h)
  <2>1. UNCHANGED <<rows, torn>> /\ k.stmt = "link" /\ Advance(h, FALSE)
    BY <1>7 DEF AddArtist, At
  <2>2. Item(h).kind = "artist"
    BY <1>2, <2>1 DEF HandInv, HandOK
  <2> QED
    BY <1>1, <1>2, <1>3, <2>1, <2>2, AdvanceHand DEF Moves, Advance
<1>8. CASE DeleteParticipants(h)
  <2>1. UNCHANGED <<rows, torn>> /\ k.stmt = "uncredit" /\ GoTo(h, "credit")
    BY <1>8 DEF DeleteParticipants, At
  <2>2. Item(h).kind \in {"full", "track"} /\ (Item(h).kind = "track" => Item(h).id \in rows)
    BY <1>2, <2>1 DEF HandInv, HandOK, HandStored
  <2> QED
    BY <1>1, <1>2, <1>3, <2>1, <2>2, GoToHand DEF Moves, GoTo, Statements
<1>9. CASE InsertParticipants(h)
  <2> DEFINE i == Item(h).id  found == CreditsOf(i) \cap rows
  <2>1. /\ UNCHANGED rows /\ k.stmt = "credit" /\ Advance(h, Item(h).kind = "track")
        /\ torn' = IF found = CreditsOf(i) THEN torn \ {i} ELSE torn
    BY <1>9 DEF InsertParticipants, At
  <2>2. Item(h).kind \in {"full", "track"} /\ (Item(h).kind = "track" => Item(h).id \in rows)
    BY <1>2, <2>1 DEF HandInv, HandOK, HandStored
  <2>3. Beside
    BY <2>1 DEF Beside
  <2>4. HandInv(k, rows', torn')
    BY <1>2, <2>3, KeepHand DEF Beside
  <2>5. (Item(h).kind = "track") \in BOOLEAN
    OBVIOUS
  <2> QED
    BY <1>1, <1>2, <2>1, <2>2, <2>3, <2>4, <2>5, AdvanceHand DEF Moves, Advance
<1> QED
  BY <1>4, <1>5, <1>6, <1>7, <1>8, <1>9

\* A sync that is cut short.
LEMMA CancelMoves ==
    ASSUME WorkInv, NEW h \in Handlers, Cancel(h)
    PROVE  Moves(h) /\ Beside
<1> DEFINE k == hand[h]
           c == [k EXCEPT !.pc = "serve", !.todo = <<>>, !.stmt = "end", !.want = {}]
<1>1. k \in Requests /\ HandInv(k, rows, torn)
  BY DEF WorkInv, TypeOK
<1>2. rows' = rows /\ torn \subseteq torn' /\ Becomes(h, c)
  BY DEF Cancel, db
<1>3. /\ c.pc = "serve" /\ c.api = k.api /\ c.of = k.of /\ c.todo = <<>> /\ c.stmt = "end" /\ c.want = {}
      /\ c.owes = k.owes
  BY <1>1 DEF Requests
<1>3a. <<>> \in Seq(Seq(Puts) \ {<<>>}) /\ "end" \in Statements /\ {} \in SUBSET Tracks
  BY DEF Statements
<1>4. c \in Requests
  BY <1>1, <1>3a DEF Requests
<1> HIDE DEF c
<1>5. HandInv(c, rows', torn')
  BY <1>1, <1>3 DEF HandInv, HandOK, HandStored, ArtistsReady, TrackLast
<1>6. Beside
  BY <1>2 DEF Beside
<1> QED
  BY <1>2, <1>4, <1>5, <1>6 DEF Moves

\* Every step of a request takes it to a request the invariant holds of, and leaves the
\* others what they rely on.
LEMMA RequestMoves ==
    ASSUME WorkInv, NEW h \in Handlers, RequestSteps(h)
    PROVE  Moves(h) /\ Beside
<1>1. ASSUME UNCHANGED <<rows, torn>> PROVE Beside
  BY <1>1 DEF Beside
<1> QED
  BY <1>1, QuietMoves, StartMoves, StatementMoves, CancelMoves DEF RequestSteps

-----------------------------------------------------------------------------
(* Types.                                                                    *)

RefreshSteps(r) == SelectTouched(r) \/ UpdateStats(r) \/ CleanupEmpty(r)

\* The garbage collection takes no tracks, and tears the items whose artists it takes.
LEMMA GCBeside == ASSUME TypeOK, NEW selective \in BOOLEAN, GC(selective) PROVE Beside
<1> DEFINE empty == EmptyAlbums(selective)  orphans == Orphans(empty)
<1>1. rows' = rows \ (empty \cup orphans) /\ torn' = torn \cup {i \in Items : CreditsOf(i) \cap orphans # {}}
  BY DEF GC
<1>2. empty \subseteq Albums /\ orphans \subseteq Artists
  BY DEF EmptyAlbums, Orphans
<1>3. \A i \in Items : CreditsOf(i) \subseteq Artists
  BY CatalogueAssumption DEF CreditsOf, Range
<1> HIDE DEF empty, orphans
<1> QED
  BY <1>1, <1>2, <1>3, CatalogueAssumption DEF Beside

\* The requests stay requests for which the invariant holds.
LEMMA HandsStep ==
    ASSUME WorkInv, [Next]_vars
    PROVE  hand' \in [Handlers -> Requests] /\ \A h \in Handlers : HandInv(hand'[h], rows', torn')
<1>1. hand \in [Handlers -> Requests] /\ \A h \in Handlers : HandInv(hand[h], rows, torn)
  BY DEF WorkInv, TypeOK
<1>2. ASSUME UNCHANGED hand, Beside PROVE hand' \in [Handlers -> Requests] /\ \A h \in Handlers : HandInv(hand'[h], rows', torn')
  <2>1. \A h \in Handlers : HandInv(hand[h], rows', torn')
    BY <1>1, <1>2, KeepHand DEF Beside
  <2> QED
    BY <1>1, <1>2, <2>1
<1>3. ASSUME NEW h \in Handlers, RequestSteps(h)
      PROVE  hand' \in [Handlers -> Requests] /\ \A g \in Handlers : HandInv(hand'[g], rows', torn')
  <2>1. Moves(h) /\ Beside
    BY <1>3, RequestMoves
  <2>2. PICK c \in Requests : Becomes(h, c) /\ HandInv(c, rows', torn')
    BY <2>1 DEF Moves
  <2>3. hand' \in [Handlers -> Requests] /\ hand'[h] = c /\ \A g \in Handlers \ {h} : hand'[g] = hand[g]
    BY <1>1, <2>2 DEF Becomes
  <2>4. \A g \in Handlers : HandInv(hand[g], rows', torn')
    BY <1>1, <2>1, KeepHand DEF Beside
  <2> QED
    BY <2>2, <2>3, <2>4
<1>4. ASSUME NEW r \in Refreshers, RefreshSteps(r) PROVE UNCHANGED hand /\ Beside
  BY <1>4 DEF RefreshSteps, SelectTouched, UpdateStats, CleanupEmpty, db, Beside
<1>5. ASSUME NEW selective \in BOOLEAN, GC(selective) PROVE UNCHANGED hand /\ Beside
  BY <1>5, GCBeside DEF GC, WorkInv
<1>6. ASSUME UNCHANGED vars PROVE UNCHANGED hand /\ Beside
  BY <1>6 DEF vars, Beside
<1> QED
  BY <1>2, <1>3, <1>4, <1>5, <1>6 DEF Next, RefreshSteps

(* The tables of the database.                                               *)
TablesOK ==
    /\ rows \subseteq Artists \cup Items
    /\ full \subseteq Albums \cap rows
    /\ credits \subseteq (Items \cap rows) \X (Artists \cap rows)
    /\ DOMAIN stats \subseteq Artists \cap rows /\ \A a \in DOMAIN stats : stats[a] \in Nat
    /\ torn \subseteq Items

\* Who writes which table.
LEMMA RequestTables ==
    ASSUME WorkInv, NEW h \in Handlers, RequestSteps(h)
    PROVE  TablesOK'
<1>1. TablesOK
  BY DEF WorkInv, TypeOK, TablesOK
<1>2. ASSUME UNCHANGED <<rows, full, credits, stats, torn>> PROVE TablesOK'
  BY <1>1, <1>2 DEF TablesOK
<1>3. ASSUME hand[h].pc = "sync", hand[h].stmt \notin {"end"}
      PROVE  /\ Item(h).kind \in {"artist", "full", "ref", "track"}
             /\ Item(h).kind = "artist" <=> Item(h).id \in Artists
             /\ Item(h).kind = "track" <=> Item(h).id \in Tracks
             /\ Item(h).kind \in {"full", "ref"} <=> Item(h).id \in Albums
             /\ hand[h].stmt = "link" => Item(h).kind = "artist"
             /\ hand[h].stmt = "credit" => Item(h).kind \in {"full", "track"}
  BY <1>3, AtItem DEF HandInv, HandOK
<1>4. ASSUME Update(h) PROVE TablesOK'
  <2>1. hand[h].pc = "sync" /\ hand[h].stmt = "update" /\ UNCHANGED <<rows, credits, stats, torn>>
    BY <1>4 DEF Update, At
  <2>2. full' \subseteq Albums \cap rows
    BY <1>1, <1>3, <1>4, <2>1 DEF Update, Written, TablesOK
  <2> QED
    BY <1>1, <2>1, <2>2 DEF TablesOK
<1>5. ASSUME Insert(h) PROVE TablesOK'
  <2>1. hand[h].pc = "sync" /\ hand[h].stmt = "insert" /\ UNCHANGED <<credits, stats, torn>>
    BY <1>5 DEF Insert, At
  <2>2. rows \subseteq rows' /\ rows' \subseteq Artists \cup Items /\ full' \subseteq Albums \cap rows'
    BY <1>1, <1>3, <1>5, <2>1 DEF Insert, Written, TablesOK, Items
  <2> QED
    BY <1>1, <2>1, <2>2 DEF TablesOK
<1>6. ASSUME AddArtist(h) PROVE TablesOK'
  <2>1. /\ hand[h].pc = "sync" /\ hand[h].stmt = "link" /\ UNCHANGED <<rows, full, credits, torn>>
        /\ stats' = [a \in DOMAIN stats \cup ({Item(h).id} \cap rows) |-> IF a \in DOMAIN stats THEN stats[a] ELSE 0]
    BY <1>6 DEF AddArtist, At
  <2>2. DOMAIN stats' \subseteq Artists \cap rows /\ \A a \in DOMAIN stats' : stats'[a] \in Nat
    BY <1>1, <1>3, <2>1 DEF TablesOK
  <2> QED
    BY <1>1, <2>1, <2>2 DEF TablesOK
<1>7. ASSUME DeleteParticipants(h) PROVE TablesOK'
  BY <1>1, <1>7 DEF DeleteParticipants, TablesOK
<1>8. ASSUME InsertParticipants(h) PROVE TablesOK'
  <2>1. /\ hand[h].pc = "sync" /\ hand[h].stmt = "credit" /\ UNCHANGED <<rows, full, stats>>
        /\ credits' = credits \cup IF Item(h).id \in rows THEN {Item(h).id} \X (CreditsOf(Item(h).id) \cap rows) ELSE {}
        /\ torn' \subseteq torn
    BY <1>8 DEF InsertParticipants, At
  <2>2. Item(h).id \in Items /\ CreditsOf(Item(h).id) \subseteq Artists
    BY <1>3, <2>1, CatalogueAssumption DEF Items, CreditsOf, Range
  <2>3. credits' \subseteq (Items \cap rows) \X (Artists \cap rows)
    BY <1>1, <2>1, <2>2 DEF TablesOK
  <2> QED
    BY <1>1, <2>1, <2>3 DEF TablesOK
<1>9. ASSUME Cancel(h) PROVE TablesOK'
  <2>1. UNCHANGED <<rows, full, credits, stats>>
    BY <1>9 DEF Cancel, db
  <2>2. ASSUME hand[h].pc = "sync", hand[h].stmt \in {"uncredit", "credit"} PROVE Item(h).id \in Items
    BY <2>2, AtItem DEF Items, HandInv, HandOK
  <2>3. torn' \subseteq Items
    BY <1>1, <1>9, <2>2 DEF Cancel, TablesOK
  <2> QED
    BY <1>1, <2>1, <2>3 DEF TablesOK
<1>10. ASSUME \/ \E q \in Queries : tidalJITMiddleware(h, q) \/ WasSyncedRecently(h, q)
              \/ \E al \in Albums : GetAlbum(h, al)
              \/ MarkSynced(h) \/ Finish(h) \/ Refreshed(h) \/ Serve(h) \/ Exists(h)
              \/ SyncAlbum(h) \/ \E what \in SUBSET {"artists", "albums", "tracks"} : SyncSearch(h, what)
       PROVE  UNCHANGED <<rows, full, credits, stats, torn>>
  BY <1>10 DEF tidalJITMiddleware, WasSyncedRecently, GetAlbum, MarkSynced, Finish, Refreshed, Serve, Exists,
               SyncAlbum, SyncSearch, db
<1> QED
  BY <1>2, <1>4, <1>5, <1>6, <1>7, <1>8, <1>9, <1>10 DEF RequestSteps

\* The tracks of an artist are counted by a number.
LEMMA TracksCounted == \A a : Cardinality(TracksOf(a)) \in Nat
<1> SUFFICES ASSUME NEW a PROVE Cardinality(TracksOf(a)) \in Nat
  OBVIOUS
<1>1. IsFiniteSet(TracksOf(a))
  BY CatalogueAssumption, FS_Subset DEF TracksOf
<1> QED
  BY <1>1, FS_CardinalityType

LEMMA RefreshTables == ASSUME WorkInv, NEW r \in Refreshers, RefreshSteps(r) PROVE TablesOK'
<1>1. TablesOK
  BY DEF WorkInv, TypeOK, TablesOK
<1>2. UNCHANGED <<rows, full, credits, torn>>
  BY DEF RefreshSteps, SelectTouched, UpdateStats, CleanupEmpty, db
<1>3. DOMAIN stats' \subseteq DOMAIN stats /\ \A a \in DOMAIN stats' : stats'[a] \in Nat
  <2>1. CASE SelectTouched(r)
    BY <1>1, <2>1 DEF SelectTouched, TablesOK, db
  <2>2. CASE UpdateStats(r)
    BY <1>1, <2>2, TracksCounted DEF UpdateStats, TablesOK
  <2>3. CASE CleanupEmpty(r)
    BY <1>1, <2>3 DEF CleanupEmpty, TablesOK
  <2> QED
    BY <2>1, <2>2, <2>3 DEF RefreshSteps
<1> QED
  BY <1>1, <1>2, <1>3 DEF TablesOK

\* The foreign keys cascade when rows are taken.
LEMMA GCTables == ASSUME WorkInv, NEW selective \in BOOLEAN, GC(selective) PROVE TablesOK'
<1> DEFINE empty == EmptyAlbums(selective)  orphans == Orphans(empty)
<1>1. TablesOK
  BY DEF WorkInv, TypeOK, TablesOK
<1>2. /\ rows' = rows \ (empty \cup orphans) /\ full' = full \ empty
      /\ credits' = {c \in credits : c[1] \notin empty /\ c[2] \notin orphans}
      /\ stats' = [a \in DOMAIN stats \ orphans |-> stats[a]]
      /\ torn' \subseteq torn \cup Items
  BY DEF GC
<1>3. empty \subseteq Albums /\ orphans \subseteq Artists
  BY DEF EmptyAlbums, Orphans
<1> HIDE DEF empty, orphans
<1>4. rows' \subseteq Artists \cup Items /\ torn' \subseteq Items
  BY <1>1, <1>2 DEF TablesOK
<1>5. full' \subseteq Albums \cap rows'
  BY <1>1, <1>2, <1>3, CatalogueAssumption DEF TablesOK
<1>6. credits' \subseteq (Items \cap rows') \X (Artists \cap rows')
  <2> SUFFICES ASSUME NEW c \in credits' PROVE c \in (Items \cap rows') \X (Artists \cap rows')
    OBVIOUS
  <2>1. c \in (Items \cap rows) \X (Artists \cap rows) /\ c[1] \notin empty /\ c[2] \notin orphans
    BY <1>1, <1>2 DEF TablesOK
  <2>2. c[1] \notin orphans /\ c[2] \notin empty
    BY <1>3, <2>1, CatalogueAssumption DEF Items
  <2> QED
    BY <1>2, <2>1, <2>2
<1>7. DOMAIN stats' \subseteq Artists \cap rows' /\ \A a \in DOMAIN stats' : stats'[a] \in Nat
  <2>1. DOMAIN stats' = DOMAIN stats \ orphans /\ \A a \in DOMAIN stats' : stats'[a] = stats[a]
    BY <1>2
  <2> QED
    BY <1>1, <1>2, <1>3, <2>1, CatalogueAssumption DEF TablesOK
<1> QED
  BY <1>4, <1>5, <1>6, <1>7 DEF TablesOK

(* The throttles, the refreshes and the bounds.                              *)
RestOK ==
    /\ seen \in [APIs -> SUBSET Queries]
    /\ refresh \in [Refreshers -> [pc : {"idle", "select", "update", "cleanup"}, ids : SUBSET Artists]]
    /\ made \in [requests : 0..MaxRequests, scans : 0..MaxScans, cuts : 0..MaxCuts]
    /\ cut \in BOOLEAN

LEMMA RestStep ==
    ASSUME WorkInv, [Next]_vars
    PROVE  RestOK' /\ RefreshQuiet'
<1>1. RestOK /\ hand \in [Handlers -> Requests] /\ RefreshQuiet
  BY DEF WorkInv, TypeOK, RestOK
<1>2. hand' \in [Handlers -> Requests]
  BY HandsStep
<1>3. Handlers \subseteq Refreshers /\ "scanner" \in Refreshers /\ "scanner" \notin Handlers
  BY CatalogueAssumption DEF Refreshers
<1>4. ASSUME NEW h \in Handlers, Free(h), UNCHANGED <<refresh, cut>>, seen' \in [APIs -> SUBSET Queries],
             NEW c, Becomes(h, c)
      PROVE  RestOK' /\ RefreshQuiet'
  <2>1. made' \in [requests : 0..MaxRequests, scans : 0..MaxScans, cuts : 0..MaxCuts]
    <3>1. made' = [made EXCEPT !.requests = made.requests + 1] /\ made.requests < MaxRequests
      BY <1>4 DEF Free
    <3>2. made.requests \in 0..MaxRequests /\ MaxRequests \in Nat
      BY <1>1, CatalogueAssumption DEF RestOK
    <3>3. made.requests + 1 \in 0..MaxRequests
      BY <3>1, <3>2
    <3> QED
      BY <1>1, <3>1, <3>3 DEF RestOK
  <2>2. RefreshQuiet'
    BY <1>1, <1>4 DEF RefreshQuiet, Becomes, Free
  <2> QED
    BY <1>1, <1>4, <2>1, <2>2 DEF RestOK
<1>5. ASSUME NEW h \in Handlers, UNCHANGED <<refresh, cut, made, seen>>, NEW c \in Requests, Becomes(h, c),
             c.pc \in {"mark", "search", "sync"} => hand[h].pc \in {"mark", "search", "sync"}
      PROVE  RestOK' /\ RefreshQuiet'
  BY <1>1, <1>5 DEF RestOK, RefreshQuiet, Becomes
<1>6. ASSUME NEW h \in Handlers, RequestSteps(h) PROVE RestOK' /\ RefreshQuiet'
  <2>0. hand[h] \in Requests
    BY <1>1
  <2>1. ASSUME NEW q \in Queries, tidalJITMiddleware(h, q) \/ WasSyncedRecently(h, q) PROVE RestOK' /\ RefreshQuiet'
    <3>1. CASE tidalJITMiddleware(h, q)
      <4>1. Free(h) /\ UNCHANGED <<refresh, cut>> /\ \E c : Becomes(h, c)
        BY <3>1 DEF tidalJITMiddleware
      <4>2. seen' \in [APIs -> SUBSET Queries]
        BY <1>1, <3>1 DEF tidalJITMiddleware, RestOK
      <4> QED
        BY <1>4, <4>1, <4>2
    <3>2. CASE WasSyncedRecently(h, q)
      <4>1. Free(h) /\ UNCHANGED <<refresh, cut, seen>> /\ \E c : Becomes(h, c)
        BY <3>2 DEF WasSyncedRecently
      <4>2. seen' \in [APIs -> SUBSET Queries]
        BY <1>1, <4>1 DEF RestOK
      <4> QED
        BY <1>4, <4>1, <4>2
    <3> QED
      BY <2>1, <3>1, <3>2
  <2>2. ASSUME NEW al \in Albums, GetAlbum(h, al) PROVE RestOK' /\ RefreshQuiet'
    BY <1>1, <1>4, <2>2 DEF GetAlbum, RestOK
  <2>3. CASE MarkSynced(h)
    <3>1. hand[h].api = "subsonic" /\ hand[h].of \in Queries
      BY <2>3 DEF MarkSynced, WorkInv, HandInv, HandOK, APIs
    <3>2. seen' \in [APIs -> SUBSET Queries]
      BY <1>1, <2>3, <3>1 DEF MarkSynced, RestOK
    <3>3. RefreshQuiet'
      BY <1>1, <2>3 DEF MarkSynced, RefreshQuiet, Becomes
    <3> QED
      BY <1>1, <2>3, <3>2, <3>3 DEF MarkSynced, RestOK
  <2>4. CASE \/ SyncAlbum(h) \/ \E what \in SUBSET {"artists", "albums", "tracks"} : SyncSearch(h, what)
             \/ Exists(h) \/ Update(h) \/ Insert(h) \/ AddArtist(h) \/ DeleteParticipants(h) \/ InsertParticipants(h)
    <3>1. UNCHANGED <<refresh, cut, made, seen>> /\ hand[h].pc \in {"search", "sync"}
      BY <2>4 DEF SyncAlbum, SyncSearch, Exists, Update, Insert, AddArtist, DeleteParticipants, InsertParticipants, At
    <3>2. PICK c \in Requests : Becomes(h, c)
      BY <1>6, RequestMoves DEF Moves
    <3> QED
      BY <1>5, <3>1, <3>2
  <2>5. CASE Finish(h)
    <3>1. hand'[h].pc \in {"refresh", "serve"} /\ \A g \in Handlers \ {h} : hand'[g] = hand[g]
      BY <1>1, <2>0, <2>5 DEF Finish, Becomes, Requests
    <3>2. refresh' \in [Refreshers -> [pc : {"idle", "select", "update", "cleanup"}, ids : SUBSET Artists]]
      BY <1>1, <1>3, <2>5 DEF Finish, StartRefresh, RestOK
    <3>3. \A g \in Handlers \ {h} : refresh'[g] = refresh[g]
      BY <1>1, <1>3, <2>5 DEF Finish, StartRefresh, RestOK
    <3> QED
      BY <1>1, <2>5, <3>1, <3>2, <3>3 DEF Finish, RestOK, RefreshQuiet
  <2>6. CASE Refreshed(h) \/ Serve(h)
    <3>1. hand'[h].pc \in {"serve", "idle"} /\ \A g \in Handlers \ {h} : hand'[g] = hand[g]
      BY <1>1, <2>0, <2>6 DEF Refreshed, Serve, Becomes, Requests, Idle
    <3> QED
      BY <1>1, <2>6, <3>1 DEF Refreshed, Serve, RestOK, RefreshQuiet
  <2>7. CASE Cancel(h)
    <3>1. hand'[h].pc = "serve" /\ \A g \in Handlers \ {h} : hand'[g] = hand[g]
      BY <1>1, <2>0, <2>7 DEF Cancel, Becomes, Requests
    <3>2. refresh' \in [Refreshers -> [pc : {"idle", "select", "update", "cleanup"}, ids : SUBSET Artists]]
      BY <1>1, <1>3, <2>7 DEF Cancel, RestOK
    <3>3. \A g \in Handlers \ {h} : refresh'[g] = refresh[g]
      BY <1>1, <1>3, <2>7 DEF Cancel, RestOK
    <3>4. made' \in [requests : 0..MaxRequests, scans : 0..MaxScans, cuts : 0..MaxCuts]
      BY <1>1, <2>7, CatalogueAssumption DEF Cancel, RestOK
    <3>5. cut' \in BOOLEAN /\ seen' = seen
      BY <2>7 DEF Cancel
    <3> QED
      BY <1>1, <3>1, <3>2, <3>3, <3>4, <3>5 DEF RestOK, RefreshQuiet
  <2> QED
    BY <1>6, <2>1, <2>2, <2>3, <2>4, <2>5, <2>6, <2>7 DEF RequestSteps
<1>7. ASSUME NEW r \in Refreshers, RefreshSteps(r) PROVE RestOK' /\ RefreshQuiet'
  <2>1. UNCHANGED <<hand, seen, made>> /\ cut' \in BOOLEAN
    BY <1>1, <1>7 DEF RefreshSteps, SelectTouched, UpdateStats, CleanupEmpty, RestOK
  <2>2. refresh' \in [Refreshers -> [pc : {"idle", "select", "update", "cleanup"}, ids : SUBSET Artists]]
    <3>1. CASE SelectTouched(r)
      BY <1>1, <3>1 DEF SelectTouched, RestOK
    <3>2. CASE UpdateStats(r)
      BY <1>1, <3>2 DEF UpdateStats, RestOK
    <3>3. CASE CleanupEmpty(r)
      BY <1>1, <3>3 DEF CleanupEmpty, RestOK
    <3> QED
      BY <1>7, <3>1, <3>2, <3>3 DEF RefreshSteps
  <2>3. refresh[r].pc # "idle" /\ \A g \in Refreshers \ {r} : refresh'[g] = refresh[g]
    BY <1>1, <1>7 DEF RefreshSteps, SelectTouched, UpdateStats, CleanupEmpty, RestOK
  <2>4. RefreshQuiet'
    BY <1>1, <1>3, <2>1, <2>3 DEF RefreshQuiet
  <2> QED
    BY <1>1, <2>1, <2>2, <2>4 DEF RestOK
<1>8. ASSUME NEW selective \in BOOLEAN, GC(selective) PROVE RestOK' /\ RefreshQuiet'
  <2>1. refresh' = [refresh EXCEPT !["scanner"].pc = "select"] /\ UNCHANGED <<seen, hand, cut>>
    BY <1>8 DEF GC, StartRefresh
  <2>2. made' \in [requests : 0..MaxRequests, scans : 0..MaxScans, cuts : 0..MaxCuts]
    <3>1. made' = [made EXCEPT !.scans = made.scans + 1] /\ made.scans < MaxScans
      BY <1>8 DEF GC
    <3>2. made.scans \in 0..MaxScans /\ MaxScans \in Nat
      BY <1>1, CatalogueAssumption DEF RestOK
    <3>3. made.scans + 1 \in 0..MaxScans
      BY <3>1, <3>2
    <3> QED
      BY <1>1, <3>1, <3>3 DEF RestOK
  <2>3. refresh' \in [Refreshers -> [pc : {"idle", "select", "update", "cleanup"}, ids : SUBSET Artists]]
    BY <1>1, <1>3, <2>1 DEF RestOK
  <2>4. \A g \in Handlers : refresh'[g] = refresh[g]
    BY <1>1, <1>3, <2>1 DEF RestOK
  <2> QED
    BY <1>1, <2>1, <2>2, <2>3, <2>4 DEF RestOK, RefreshQuiet
<1>9. ASSUME UNCHANGED vars PROVE RestOK' /\ RefreshQuiet'
  BY <1>1, <1>9 DEF vars, RestOK, RefreshQuiet
<1> QED
  BY <1>6, <1>7, <1>8, <1>9 DEF Next, RefreshSteps

LEMMA WorkStep == WorkInv /\ [Next]_vars => WorkInv'
<1> SUFFICES ASSUME WorkInv, [Next]_vars PROVE WorkInv'
  OBVIOUS
<1>1. hand' \in [Handlers -> Requests] /\ \A h \in Handlers : HandInv(hand'[h], rows', torn')
  BY HandsStep
<1>2. RestOK' /\ RefreshQuiet'
  BY RestStep
<1>3. TablesOK'
  <2>1. ASSUME UNCHANGED vars PROVE TablesOK'
    BY <2>1 DEF vars, TablesOK, WorkInv, TypeOK
  <2> QED
    BY <2>1, RequestTables, RefreshTables, GCTables DEF Next, RefreshSteps
<1> QED
  BY <1>1, <1>2, <1>3 DEF WorkInv, TypeOK, TablesOK, RestOK

LEMMA WorkInit == Init => WorkInv
<1> SUFFICES ASSUME Init PROVE WorkInv
  OBVIOUS
<1>1. Idle \in Requests
  BY DEF Idle, Requests, Statements
<1>2. HandInv(Idle, rows, torn)
  BY DEF Idle, HandInv, HandOK, HandStored, ArtistsReady, TrackLast, APIs
<1>3. hand \in [Handlers -> Requests] /\ \A h \in Handlers : HandInv(hand[h], rows, torn)
  BY <1>1, <1>2 DEF Init
<1>4. RestOK /\ RefreshQuiet
  <2>1. seen \in [APIs -> SUBSET Queries] /\ cut \in BOOLEAN
    BY DEF Init
  <2>2. refresh \in [Refreshers -> [pc : {"idle", "select", "update", "cleanup"}, ids : SUBSET Artists]]
    BY DEF Init
  <2>3. made \in [requests : 0..MaxRequests, scans : 0..MaxScans, cuts : 0..MaxCuts]
    BY CatalogueAssumption DEF Init
  <2>4. RefreshQuiet
    BY DEF Init, RefreshQuiet, Idle
  <2> QED
    BY <2>1, <2>2, <2>3, <2>4 DEF RestOK
<1>5. TablesOK
  BY DEF Init, TablesOK
<1> QED
  BY <1>3, <1>4, <1>5 DEF WorkInv, TypeOK, TablesOK, RestOK

LEMMA WorkInvariance == Spec => []WorkInv
  BY WorkInit, WorkStep, PTL DEF Spec

\* The variables have their types, and no credit or link is ever written of a row that is
\* not there, for any catalogue and any number of requests at the same time
\* (updateParticipants, AddArtist and the garbage collection of a scan).
THEOREM TidalTypes == Spec => []TypeOK
  BY WorkInvariance, PTL DEF WorkInv

\* "visible in the SAME search response": when a request is answered whose sync was not
\* cut short, every track Tidal found for it is stored.
THEOREM FoundIsServed == Spec => []SameResponse
<1>1. WorkInv => SameResponse
  <2> SUFFICES ASSUME WorkInv, NEW h \in Handlers, hand[h].pc = "serve" PROVE hand[h].want \subseteq rows
    BY DEF SameResponse
  <2>1. hand[h].todo = <<>> /\ \A t \in hand[h].want : t \in rows \/ HasTrack(hand[h].todo, t)
    BY DEF WorkInv, HandInv, HandOK, HandStored
  <2> QED
    BY <2>1 DEF HasTrack
<1> QED
  BY <1>1, WorkInvariance, PTL

-----------------------------------------------------------------------------
(* Credits.                                                                  *)

Writing(k, i) == k.pc = "sync" /\ k.stmt \in {"uncredit", "credit"} /\ NextItem(k.todo).id = i
Complete(i) == \A a \in CreditsOf(i) : <<i, a>> \in credits
Stored == (Tracks \cap rows) \cup full

\* What other requests write stays being written.
LEMMA OthersWrite ==
    ASSUME WorkInv, NEW h \in Handlers, NEW c, Becomes(h, c), NEW i, BeingWritten(i)
    PROVE  Writing(hand[h], i) \/ BeingWritten(i)'
<1>1. hand \in [Handlers -> Requests]
  BY DEF WorkInv, TypeOK
<1>2. PICK g \in Handlers : Writing(hand[g], i)
  BY DEF BeingWritten, Writing, Item
<1>3. g # h => hand'[g] = hand[g]
  BY <1>1 DEF Becomes
<1> QED
  BY <1>2, <1>3 DEF BeingWritten, Writing, Item

LEMMA SelfWrites ==
    ASSUME WorkInv, NEW h \in Handlers, NEW s \in {"uncredit", "credit"}, hand[h].pc = "sync", GoTo(h, s),
           NEW i, Item(h).id = i
    PROVE  BeingWritten(i)'
<1>1. hand \in [Handlers -> Requests]
  BY DEF WorkInv, TypeOK
<1>2. hand'[h] = [hand[h] EXCEPT !.stmt = s]
  BY <1>1 DEF GoTo, Becomes
<1>3. hand'[h].pc = "sync" /\ hand'[h].stmt = s /\ hand'[h].todo = hand[h].todo
  BY <1>1, <1>2 DEF Requests
<1> QED
  BY <1>3 DEF BeingWritten, Item

\* CreditsComplete item by item.
LEMMA CreditsStep == WorkInv /\ CreditsComplete /\ [Next]_vars => CreditsComplete'
<1> SUFFICES ASSUME WorkInv, CreditsComplete, [Next]_vars, NEW i \in Stored', i \notin torn'
             PROVE  BeingWritten(i)' \/ Complete(i)'
  BY DEF CreditsComplete, Stored, Complete
<1>1. i \in Stored /\ i \notin torn => BeingWritten(i) \/ Complete(i)
  BY DEF CreditsComplete, Stored, Complete
<1>2. ASSUME i \in Stored, i \notin torn, \A a : <<i, a>> \in credits => <<i, a>> \in credits', BeingWritten(i) => BeingWritten(i)'
      PROVE  BeingWritten(i)' \/ Complete(i)'
  BY <1>1, <1>2 DEF Complete
<1>3. ASSUME NEW h \in Handlers, RequestSteps(h) PROVE BeingWritten(i)' \/ Complete(i)'
  <2>1. PICK c \in Requests : Becomes(h, c)
    BY <1>3, RequestMoves DEF Moves
  <2>2. ~Writing(hand[h], i) => (BeingWritten(i) => BeingWritten(i)')
    BY <2>1, OthersWrite
  <2>3. CASE \/ \E q \in Queries : tidalJITMiddleware(h, q) \/ WasSyncedRecently(h, q)
             \/ \E al \in Albums : GetAlbum(h, al)
             \/ MarkSynced(h) \/ Finish(h) \/ Refreshed(h) \/ Serve(h) \/ Exists(h) \/ AddArtist(h)
             \/ SyncAlbum(h) \/ \E what \in SUBSET {"artists", "albums", "tracks"} : SyncSearch(h, what)
    <3>1. UNCHANGED <<rows, full, credits, torn>>
      BY <2>3 DEF tidalJITMiddleware, WasSyncedRecently, GetAlbum, MarkSynced, Finish, Refreshed, Serve, Exists,
                  AddArtist, SyncAlbum, SyncSearch, db
    <3>2. ~Writing(hand[h], i)
      BY <2>3 DEF Writing, tidalJITMiddleware, WasSyncedRecently, GetAlbum, MarkSynced, Finish, Refreshed, Serve, Exists,
                  AddArtist, SyncAlbum, SyncSearch, At, Free
    <3> QED
      BY <1>2, <2>2, <3>1, <3>2 DEF Stored
  <2>4. CASE Update(h) \/ Insert(h)
    <3>1. /\ hand[h].pc = "sync" /\ hand[h].stmt \in {"update", "insert"} /\ UNCHANGED <<credits, torn>>
          /\ ~Writing(hand[h], i)
      BY <2>4 DEF Update, Insert, At, Writing
    <3>2. /\ Item(h).kind \in {"artist", "full", "ref", "track"}
          /\ Item(h).kind = "track" <=> Item(h).id \in Tracks
      BY <3>1, AtItem
    <3>3. CASE i \in Stored
      BY <1>2, <2>2, <3>1, <3>3
    <3>4. CASE i \notin Stored
      <4>1. Written(h) /\ Item(h).id = i /\ Item(h).kind \in {"full", "track"}
        BY <2>4, <3>2, <3>4 DEF Stored, Update, Insert, Written
      <4>2. GoTo(h, "uncredit")
        BY <4>1 DEF Written
      <4> QED
        BY <3>1, <4>1, <4>2, SelfWrites
    <3> QED
      BY <3>3, <3>4
  <2>5. CASE DeleteParticipants(h)
    <3>1. /\ hand[h].pc = "sync" /\ UNCHANGED <<rows, full, torn>> /\ GoTo(h, "credit")
          /\ credits' = {d \in credits : d[1] # Item(h).id}
      BY <2>5 DEF DeleteParticipants, At
    <3>2. CASE Item(h).id = i
      BY <3>1, <3>2, SelfWrites
    <3>3. CASE Item(h).id # i
      <4>1. ~Writing(hand[h], i)
        BY <3>3 DEF Writing, Item
      <4>2. \A a : <<i, a>> \in credits => <<i, a>> \in credits'
        BY <3>1, <3>3
      <4> QED
        BY <1>2, <2>2, <3>1, <4>1, <4>2 DEF Stored
    <3> QED
      BY <3>2, <3>3
  <2>6. CASE InsertParticipants(h)
    <3>1. /\ hand[h].pc = "sync" /\ hand[h].stmt = "credit" /\ UNCHANGED <<rows, full>>
          /\ credits' = credits \cup IF Item(h).id \in rows THEN {Item(h).id} \X (CreditsOf(Item(h).id) \cap rows) ELSE {}
          /\ torn' = IF CreditsOf(Item(h).id) \cap rows = CreditsOf(Item(h).id) THEN torn \ {Item(h).id} ELSE torn
      BY <2>6 DEF InsertParticipants, At
    <3>2. i \in Stored /\ i \in rows
      BY <3>1 DEF Stored, WorkInv, TypeOK
    <3>3. CASE Item(h).id # i
      <4>1. ~Writing(hand[h], i) /\ i \notin torn
        BY <3>1, <3>3 DEF Writing, Item
      <4> QED
        BY <1>2, <2>2, <3>1, <3>2, <4>1
    <3>4. CASE Item(h).id = i
      <4>1. CreditsOf(i) \subseteq rows
        <5>1. CASE i \in torn
          BY <3>1, <3>4, <5>1
        <5>2. CASE i \notin torn
          <6>1. /\ HandInv(hand[h], rows, torn) /\ hand[h].todo \in Works /\ hand[h].todo # <<>>
                /\ Item(h) = NextItem(hand[h].todo)
            BY <3>1, AtItem
          <6>2. 1 \in DOMAIN hand[h].todo /\ 1 \in DOMAIN hand[h].todo[1] /\ Item(h) = hand[h].todo[1][1]
            BY <6>1, WorkFacts DEF NextItem
          <6>3. Item(h).kind \in {"full", "track"}
            BY <3>1, <6>1 DEF HandInv, HandOK
          <6>4. \A a \in CreditsOf(i) : ArtistReady(hand[h], rows, 1, 1, a)
            BY <3>4, <5>2, <6>1, <6>2, <6>3 DEF HandInv, ArtistsReady
          <6> QED
            BY <6>4 DEF ArtistReady
        <5> QED
          BY <5>1, <5>2
      <4> QED
        BY <3>1, <3>2, <3>4, <4>1 DEF Complete
    <3> QED
      BY <3>3, <3>4
  <2>7. CASE Cancel(h)
    <3>1. UNCHANGED <<rows, full, credits>> /\ torn \subseteq torn'
      BY <2>7 DEF Cancel, db
    <3>2. ~Writing(hand[h], i)
      BY <2>7 DEF Cancel, Writing, Item
    <3> QED
      BY <1>2, <2>2, <3>1, <3>2 DEF Stored
  <2> QED
    BY <1>3, <2>3, <2>4, <2>5, <2>6, <2>7 DEF RequestSteps
<1>4. ASSUME UNCHANGED <<hand, rows, full, credits, torn>> PROVE BeingWritten(i)' \/ Complete(i)'
  BY <1>2, <1>4 DEF Stored, BeingWritten, Item
<1>5. ASSUME NEW r \in Refreshers, RefreshSteps(r) PROVE UNCHANGED <<hand, rows, full, credits, torn>>
  BY <1>5 DEF RefreshSteps, SelectTouched, UpdateStats, CleanupEmpty, db
<1>6. ASSUME NEW selective \in BOOLEAN, GC(selective) PROVE BeingWritten(i)' \/ Complete(i)'
  <2> DEFINE empty == EmptyAlbums(selective)  orphans == Orphans(empty)
  <2>1. /\ rows' = rows \ (empty \cup orphans) /\ full' = full \ empty
        /\ credits' = {c \in credits : c[1] \notin empty /\ c[2] \notin orphans}
        /\ torn' = torn \cup {j \in Items : CreditsOf(j) \cap orphans # {}} /\ UNCHANGED hand
    BY <1>6 DEF GC
  <2>2. empty \subseteq Albums
    BY DEF EmptyAlbums
  <2> HIDE DEF empty, orphans
  <2>3. i \in Stored /\ i \notin torn /\ i \notin empty /\ i \in Items
    BY <2>1, <2>2, CatalogueAssumption DEF Stored, Items, WorkInv, TypeOK
  <2>4. CreditsOf(i) \cap orphans = {}
    BY <2>1, <2>3
  <2>5. BeingWritten(i) => BeingWritten(i)'
    BY <2>1 DEF BeingWritten, Item
  <2>6. Complete(i) => Complete(i)'
    BY <2>1, <2>3, <2>4 DEF Complete
  <2> QED
    BY <1>1, <2>3, <2>5, <2>6
<1>7. ASSUME UNCHANGED vars PROVE UNCHANGED <<hand, rows, full, credits, torn>>
  BY <1>7 DEF vars
<1> QED
  BY <1>3, <1>4, <1>5, <1>6, <1>7 DEF Next, RefreshSteps

\* "ensure every credited artist exists, not just the primary one": however many syncs of
\* the same item interleave, a stored track or album that nobody is writing is credited
\* to all its artists, unless a sync was cut half way through it or the garbage
\* collection took one of its artists.
THEOREM CreditsEndComplete == Spec => []CreditsComplete
<1>1. Init => CreditsComplete
  BY DEF Init, CreditsComplete
<1> QED
  BY <1>1, WorkInvariance, CreditsStep, PTL DEF Spec

-----------------------------------------------------------------------------
(* Statistics.                                                               *)

(* The sync will owe a refresh: it does already, or has a track to store     *)
(* which it will not find stored by another request.                         *)
WillOwe(k, R) ==
    /\ k.pc = "sync"
    /\ \/ k.owes
       \/ \E n \in DOMAIN k.todo : \E j \in DOMAIN k.todo[n] :
             k.todo[n][j].kind = "track" /\ (IsLater(n, j) \/ k.stmt # "insert" \/ k.todo[n][j].id \notin R)

(* Someone will yet count the tracks of artist a.                            *)
Owed(a) ==
    \/ cut
    \/ \E r \in Refreshers : refresh[r].pc = "select" \/ (refresh[r].pc = "update" /\ a \in refresh[r].ids)
    \/ \E h \in Handlers : WillOwe(hand[h], rows)

Counted(a) == stats[a] = Cardinality(TracksOf(a))

StatsOwed == AlbumsHaveTracks => \A a \in DOMAIN stats : Counted(a) \/ Owed(a)

\* A sync goes on owing when it is done with an item that is not a track, with a track
\* that another request stored, or with a track it imported itself.
LEMMA OweAdvance ==
    ASSUME NEW k \in Requests, NEW R, WillOwe(k, R), k.todo # <<>>, NEW imported \in BOOLEAN,
           imported \/ NextItem(k.todo).kind # "track" \/ (k.stmt = "insert" /\ NextItem(k.todo).id \in R),
           NEW c, c = [k EXCEPT !.todo = Rest(k.todo), !.stmt = Begin(Rest(k.todo)), !.owes = @ \/ imported]
    PROVE  WillOwe(c, R)
<1> DEFINE todo == k.todo  rest == Rest(k.todo)
<1>1. /\ c.pc = k.pc /\ c.todo = rest /\ c.stmt = Begin(rest) /\ c.owes = (k.owes \/ imported)
  BY DEF Requests
<1>2. CASE k.owes \/ imported
  BY <1>1, <1>2 DEF WillOwe
<1>3. CASE ~(k.owes \/ imported)
  <2>1. PICK n \in DOMAIN todo : \E j \in DOMAIN todo[n] :
             todo[n][j].kind = "track" /\ (IsLater(n, j) \/ k.stmt # "insert" \/ todo[n][j].id \notin R)
    BY <1>3 DEF WillOwe
  <2>2. PICK j \in DOMAIN todo[n] :
             todo[n][j].kind = "track" /\ (IsLater(n, j) \/ k.stmt # "insert" \/ todo[n][j].id \notin R)
    BY <2>1
  <2>3. IsLater(n, j)
    BY <1>3, <2>2 DEF IsLater, NextItem
  <2>4. todo \in Works
    BY RequestFacts
  <2>5. \E m \in DOMAIN rest : \E i \in DOMAIN rest[m] : rest[m][i] = todo[n][j]
    BY <2>2, <2>3, <2>4, RestFacts
  <2>6. Begin(rest) # "insert"
    BY DEF Begin
  <2> HIDE DEF todo, rest
  <2> QED
    BY <1>1, <2>2, <2>5, <2>6 DEF WillOwe
<1> QED
  BY <1>2, <1>3

\* And when it goes on to another statement of the same item, unless it finds the track
\* stored when it comes to insert it.
LEMMA OweGoTo ==
    ASSUME NEW k \in Requests, NEW R, WillOwe(k, R), NEW s,
           s # "insert" \/ NextItem(k.todo).kind # "track" \/ NextItem(k.todo).id \notin R,
           NEW c, c = [k EXCEPT !.stmt = s]
    PROVE  WillOwe(c, R)
<1>1. c.pc = k.pc /\ c.todo = k.todo /\ c.stmt = s /\ c.owes = k.owes
  BY DEF Requests
<1> QED
  BY <1>1 DEF WillOwe, IsLater, NextItem

\* A request another one works beside, unless that one stores a track.
LEMMA OweBeside ==
    ASSUME NEW k \in Requests, NEW R, WillOwe(k, R), NEW R2, R2 \cap Tracks \subseteq R
    PROVE  WillOwe(k, R2)
<1>1. k.todo \in Works
  BY RequestFacts
<1>2. \A n \in DOMAIN k.todo : \A j \in DOMAIN k.todo[n] : k.todo[n][j].kind = "track" => k.todo[n][j].id \in Tracks
  <2> SUFFICES ASSUME NEW n \in DOMAIN k.todo, NEW j \in DOMAIN k.todo[n], k.todo[n][j].kind = "track"
               PROVE  k.todo[n][j].id \in Tracks
    OBVIOUS
  <2>1. k.todo # <<>>
    BY <1>1 DEF Works
  <2> QED
    BY <1>1, <2>1, WorkFacts, PutFacts
<1> QED
  BY <1>2 DEF WillOwe

\* A sync that links an artist will owe a refresh.
LEMMA LinkOwes ==
    ASSUME NEW k \in Requests, NEW R, NEW T, HandInv(k, R, T), AlbumsHaveTracks, k.pc = "sync", k.stmt = "link"
    PROVE  WillOwe(k, R)
<1>1. k.todo \in Works /\ k.todo # <<>> /\ NextItem(k.todo).kind = "artist"
  BY RequestFacts DEF HandInv, HandOK
<1>2. k.owes \/ LastItem(k.todo).kind = "track"
  BY <1>1 DEF HandInv, TrackLast
<1> DEFINE n == Len(k.todo)  j == Len(k.todo[n])
<1>3. n \in DOMAIN k.todo /\ j \in DOMAIN k.todo[n] /\ LastItem(k.todo) = k.todo[n][j]
  BY <1>1, WorkFacts DEF LastItem
<1> HIDE DEF n, j
<1> QED
  BY <1>2, <1>3 DEF WillOwe

\* A refresh that is owed stays owed through the steps of requests.
LEMMA OwedRequest ==
    ASSUME WorkInv, NEW h \in Handlers, RequestSteps(h), NEW a, Owed(a)
    PROVE  Owed(a)'
<1>0. /\ hand \in [Handlers -> Requests] /\ hand[h] \in Requests /\ HandInv(hand[h], rows, torn)
      /\ Handlers \subseteq Refreshers
      /\ refresh \in [Refreshers -> [pc : {"idle", "select", "update", "cleanup"}, ids : SUBSET Artists]]
  BY DEF WorkInv, TypeOK, Refreshers
<1>1. PICK c \in Requests : Becomes(h, c)
  BY RequestMoves DEF Moves
<1>2. hand'[h] = c /\ \A g \in Handlers \ {h} : hand'[g] = hand[g]
  BY <1>0, <1>1 DEF Becomes
<1>3. CASE Cancel(h)
  <2>1. CASE hand[h].pc # "search"
    BY <1>3, <2>1 DEF Cancel, Owed
  <2>2. CASE hand[h].pc = "search"
    <3>1. refresh[h].pc = "idle" /\ hand[h].owes = FALSE
      BY <1>0, <2>2 DEF WorkInv, RefreshQuiet, HandInv, HandOK, Requests
    <3>2. /\ refresh' = [refresh EXCEPT ![h].pc = IF hand[h].owes /\ hand[h].api # "album" THEN "select" ELSE "idle"]
          /\ rows' = rows /\ (cut => cut')
      BY <1>3 DEF Cancel, db
    <3>3. \A r \in Refreshers : refresh'[r].pc = refresh[r].pc /\ refresh'[r].ids = refresh[r].ids
      BY <1>0, <3>1, <3>2
    <3>4. ~WillOwe(hand[h], rows)
      BY <2>2 DEF WillOwe
    <3> QED
      BY <1>2, <3>2, <3>3, <3>4 DEF Owed
  <2> QED
    BY <2>1, <2>2
<1>4. CASE ~Cancel(h)
  <2>1. cut' = cut
    BY <1>4 DEF RequestSteps, tidalJITMiddleware, WasSyncedRecently, GetAlbum, MarkSynced, SyncSearch, SyncAlbum,
                Exists, Update, Insert, AddArtist, DeleteParticipants, InsertParticipants, Finish, Refreshed, Serve
  <2>2. refresh' = refresh \/ (Finish(h) /\ refresh' = [refresh EXCEPT ![h].pc = "select"])
    BY <1>4 DEF RequestSteps, tidalJITMiddleware, WasSyncedRecently, GetAlbum, MarkSynced, SyncSearch, SyncAlbum,
                Exists, Update, Insert, AddArtist, DeleteParticipants, InsertParticipants, Finish, Refreshed, Serve,
                StartRefresh
  <2>3. CASE refresh' # refresh
    <3>1. refresh'[h].pc = "select"
      BY <1>0, <2>2, <2>3
    <3> QED
      BY <1>0, <3>1 DEF Owed
  <2>4. CASE refresh' = refresh /\ (cut \/ \E r \in Refreshers : refresh[r].pc = "select" \/ (refresh[r].pc = "update" /\ a \in refresh[r].ids))
    BY <2>1, <2>4 DEF Owed
  <2>5. ASSUME NEW g \in Handlers, WillOwe(hand[g], rows), refresh' = refresh
        PROVE  \E f \in Handlers : WillOwe(hand'[f], rows')
    <3>1. CASE rows' \cap Tracks \subseteq rows /\ g # h
      BY <1>0, <1>2, <2>5, <3>1, OweBeside
    <3>2. CASE ~(rows' \cap Tracks \subseteq rows)
      <4>1. Insert(h) /\ hand[h].pc = "sync" /\ hand[h].stmt = "insert"
        BY <1>4, <3>2 DEF RequestSteps, tidalJITMiddleware, WasSyncedRecently, GetAlbum, MarkSynced, SyncSearch, SyncAlbum,
                Exists, Update, Insert, AddArtist, DeleteParticipants, InsertParticipants, Finish, Refreshed, Serve, db, At
      <4>2. Written(h) /\ Item(h).id \in Tracks
        BY <3>2, <4>1 DEF Insert
      <4>3. Item(h).kind = "track" /\ Item(h) = NextItem(hand[h].todo) /\ hand[h].todo \in Works /\ hand[h].todo # <<>>
        BY <4>1, <4>2, AtItem
      <4>4. GoTo(h, "uncredit")
        BY <4>2, <4>3 DEF Written
      <4>5. c = [hand[h] EXCEPT !.stmt = "uncredit"]
        BY <1>0, <1>2, <4>4 DEF GoTo, Becomes
      <4>6. c.pc = "sync" /\ c.stmt = "uncredit" /\ c.todo = hand[h].todo
        BY <1>0, <4>1, <4>5 DEF Requests
      <4>7. 1 \in DOMAIN c.todo /\ 1 \in DOMAIN c.todo[1] /\ c.todo[1][1].kind = "track"
        BY <4>3, <4>6, WorkFacts DEF NextItem
      <4> QED
        BY <1>2, <4>6, <4>7 DEF WillOwe
    <3>3. CASE rows' \cap Tracks \subseteq rows /\ g = h
      <4> SUFFICES WillOwe(c, rows)
        BY <1>1, <1>2, <3>3, OweBeside
      <4>0. hand[h].pc = "sync" /\ WillOwe(hand[h], rows) /\ (hand[h].stmt = "end" => hand[h].owes)
        BY <1>0, <2>5, <3>3 DEF WillOwe, HandInv, HandOK
      <4>1. hand[h].stmt # "end"
        <5>1. CASE Finish(h)
          <6>1. refresh' = [refresh EXCEPT ![h].pc = "select"] \/ hand[h].stmt # "end"
            BY <4>0, <5>1 DEF Finish, StartRefresh
          <6>2. refresh[h].pc = "idle"
            BY <4>0 DEF WorkInv, RefreshQuiet
          <6> QED
            BY <1>0, <2>5, <6>1, <6>2
        <5>2. CASE ~Finish(h)
          BY <1>4, <4>0, <5>2 DEF RequestSteps, tidalJITMiddleware, WasSyncedRecently, GetAlbum, MarkSynced, SyncSearch,
             SyncAlbum, Free, At, Exists, Update, Insert, AddArtist, DeleteParticipants, InsertParticipants, Refreshed, Serve
        <5> QED
          BY <5>1, <5>2
      <4>2. /\ hand[h].todo # <<>> /\ Item(h) = NextItem(hand[h].todo)
            /\ Item(h).kind \in {"artist", "full", "ref", "track"}
            /\ hand[h].stmt = "link" => Item(h).kind = "artist"
        BY <4>0, <4>1, AtItem DEF HandInv, HandOK
      <4>3. ASSUME NEW s, s # "insert" \/ Item(h).id \notin rows, GoTo(h, s) PROVE WillOwe(c, rows)
        <5>1. c = [hand[h] EXCEPT !.stmt = s]
          BY <1>0, <1>2, <4>3 DEF GoTo, Becomes
        <5> QED
          BY <1>0, <4>0, <4>2, <4>3, <5>1, OweGoTo
      <4>4. ASSUME NEW imported \in BOOLEAN, Advance(h, imported),
                   imported \/ Item(h).kind # "track" \/ (hand[h].stmt = "insert" /\ Item(h).id \in rows)
            PROVE  WillOwe(c, rows)
        <5>1. c = [hand[h] EXCEPT !.todo = Rest(hand[h].todo), !.stmt = Begin(Rest(hand[h].todo)), !.owes = @ \/ imported]
          BY <1>0, <1>2, <4>4 DEF Advance, Becomes
        <5> QED
          BY <1>0, <4>0, <4>2, <4>4, <5>1, OweAdvance
      <4>5. CASE Exists(h)
        <5>1. Item(h).kind # "track"
          BY <1>0, <4>2, <4>5 DEF Exists, At, HandInv, HandOK
        <5> QED
          BY <4>3, <4>4, <4>5, <5>1 DEF Exists
      <4>6. CASE Update(h)
        BY <4>2, <4>3, <4>4, <4>6 DEF Update, Written
      <4>7. CASE Insert(h)
        BY <4>2, <4>3, <4>4, <4>7 DEF Insert, Written, At
      <4>8. CASE AddArtist(h)
        BY <4>2, <4>4, <4>8 DEF AddArtist, At
      <4>9. CASE DeleteParticipants(h)
        BY <4>3, <4>9 DEF DeleteParticipants
      <4>10. CASE InsertParticipants(h)
        <5>1. Advance(h, Item(h).kind = "track") /\ (Item(h).kind = "track") \in BOOLEAN
          BY <4>10 DEF InsertParticipants
        <5> QED
          BY <4>4, <5>1
      <4> QED
        BY <1>4, <4>0, <4>1, <4>5, <4>6, <4>7, <4>8, <4>9, <4>10
           DEF RequestSteps, tidalJITMiddleware, WasSyncedRecently, GetAlbum, MarkSynced, SyncSearch,
               SyncAlbum, Free, At, Finish, Refreshed, Serve
    <3> QED
      BY <3>1, <3>2, <3>3
  <2> QED
    BY <2>3, <2>4, <2>5 DEF Owed
<1> QED
  BY <1>3, <1>4

\* Statistics that a request makes stale are owed by it: it links an artist, or deletes or
\* inserts the credits of a track.
LEMMA StatsRequest ==
    ASSUME WorkInv, AlbumsHaveTracks, StatsOwed, NEW h \in Handlers, RequestSteps(h), NEW a \in DOMAIN stats'
    PROVE  Counted(a)' \/ Owed(a)'
<1>0. hand \in [Handlers -> Requests] /\ hand[h] \in Requests /\ HandInv(hand[h], rows, torn)
  BY DEF WorkInv, TypeOK
<1>1. a \in DOMAIN stats => Counted(a) \/ Owed(a)'
  BY OwedRequest DEF StatsOwed
<1>2. ASSUME a \in DOMAIN stats, stats'[a] = stats[a], \A t \in Tracks : <<t, a>> \in credits' <=> <<t, a>> \in credits
      PROVE  Counted(a)' \/ Owed(a)'
  <2>1. TracksOf(a)' = TracksOf(a)
    BY <1>2 DEF TracksOf
  <2> QED
    BY <1>1, <1>2, <2>1 DEF Counted
<1>3. ASSUME WillOwe(hand'[h], rows') PROVE Owed(a)'
  BY <1>3 DEF Owed
<1>4. CASE AddArtist(h)
  <2>1. /\ hand[h].pc = "sync" /\ hand[h].stmt = "link" /\ UNCHANGED <<rows, credits>> /\ Advance(h, FALSE)
        /\ \A b \in DOMAIN stats : b \in DOMAIN stats' /\ stats'[b] = stats[b]
    BY <1>4 DEF AddArtist, At
  <2>2. CASE a \in DOMAIN stats
    BY <1>2, <2>1, <2>2
  <2>3. CASE a \notin DOMAIN stats
    <3>1. WillOwe(hand[h], rows)
      BY <1>0, <2>1, LinkOwes
    <3>2. hand[h].todo # <<>> /\ NextItem(hand[h].todo).kind = "artist"
      BY <1>0, <2>1 DEF HandInv, HandOK
    <3>3. hand'[h] = [hand[h] EXCEPT !.todo = Rest(hand[h].todo), !.stmt = Begin(Rest(hand[h].todo)), !.owes = @ \/ FALSE]
      BY <1>0, <2>1 DEF Advance, Becomes
    <3>4. WillOwe(hand'[h], rows)
      BY <1>0, <3>1, <3>2, <3>3, OweAdvance
    <3> QED
      BY <1>3, <2>1, <3>4
  <2> QED
    BY <2>2, <2>3
<1>5. CASE DeleteParticipants(h) \/ InsertParticipants(h)
  <2>1. hand[h].pc = "sync" /\ hand[h].stmt \in {"uncredit", "credit"} /\ UNCHANGED <<rows, stats>>
    BY <1>5 DEF DeleteParticipants, InsertParticipants, At
  <2>2. /\ hand[h].todo \in Works /\ hand[h].todo # <<>> /\ Item(h) = NextItem(hand[h].todo)
        /\ Item(h).kind = "track" <=> Item(h).id \in Tracks
    BY <2>1, AtItem
  <2>3. CASE Item(h).kind # "track"
    <3>1. \A t \in Tracks : <<t, a>> \in credits' <=> <<t, a>> \in credits
      <4>1. CASE DeleteParticipants(h)
        BY <2>2, <2>3, <4>1 DEF DeleteParticipants
      <4>2. CASE InsertParticipants(h)
        BY <2>2, <2>3, <4>2 DEF InsertParticipants
      <4> QED
        BY <1>5, <4>1, <4>2
    <3> QED
      BY <1>2, <2>1, <3>1
  <2>4. CASE Item(h).kind = "track"
    <3>1. CASE DeleteParticipants(h)
      <4>1. hand'[h] = [hand[h] EXCEPT !.stmt = "credit"]
        BY <1>0, <3>1 DEF DeleteParticipants, GoTo, Becomes
      <4>2. hand'[h].pc = "sync" /\ hand'[h].stmt = "credit" /\ hand'[h].todo = hand[h].todo
        BY <1>0, <2>1, <4>1 DEF Requests
      <4>3. 1 \in DOMAIN hand[h].todo /\ 1 \in DOMAIN hand[h].todo[1] /\ hand[h].todo[1][1].kind = "track"
        BY <2>2, <2>4, WorkFacts DEF NextItem
      <4> QED
        BY <1>3, <4>2, <4>3 DEF WillOwe
    <3>2. CASE InsertParticipants(h)
      <4>1. hand'[h] = [hand[h] EXCEPT !.todo = Rest(hand[h].todo), !.stmt = Begin(Rest(hand[h].todo)),
                                       !.owes = @ \/ (Item(h).kind = "track")]
        BY <1>0, <3>2 DEF InsertParticipants, Advance, Becomes
      <4>2. hand'[h].pc = "sync" /\ hand'[h].owes
        BY <1>0, <2>1, <2>4, <4>1 DEF Requests
      <4> QED
        BY <1>3, <4>2 DEF WillOwe
    <3> QED
      BY <1>5, <3>1, <3>2
  <2> QED
    BY <2>3, <2>4
<1>6. CASE ~(AddArtist(h) \/ DeleteParticipants(h) \/ InsertParticipants(h))
  <2>1. UNCHANGED <<credits, stats>>
    BY <1>6 DEF RequestSteps, tidalJITMiddleware, WasSyncedRecently, GetAlbum, MarkSynced, SyncSearch, SyncAlbum,
                Exists, Update, Insert, Finish, Refreshed, Serve, Cancel, db
  <2> QED
    BY <1>2, <2>1
<1> QED
  BY <1>4, <1>5, <1>6

\* A refresh counts what it owes, and the collection of garbage orders another one.
LEMMA StatsStep == WorkInv /\ StatsOwed /\ [Next]_vars => StatsOwed'
<1> SUFFICES ASSUME WorkInv, StatsOwed, [Next]_vars, AlbumsHaveTracks, NEW a \in DOMAIN stats'
             PROVE  Counted(a)' \/ Owed(a)'
  BY DEF StatsOwed
<1>0. /\ refresh \in [Refreshers -> [pc : {"idle", "select", "update", "cleanup"}, ids : SUBSET Artists]]
      /\ DOMAIN stats \subseteq Artists \cap rows
  BY DEF WorkInv, TypeOK
<1>1. a \in DOMAIN stats => Counted(a) \/ Owed(a)
  BY DEF StatsOwed
<1>2. ASSUME NEW h \in Handlers, RequestSteps(h) PROVE Counted(a)' \/ Owed(a)'
  BY <1>2, StatsRequest
<1>3. ASSUME NEW r \in Refreshers, RefreshSteps(r) PROVE Counted(a)' \/ Owed(a)'
  <2>1. UNCHANGED <<rows, credits, hand>> /\ \A q \in Refreshers \ {r} : refresh'[q] = refresh[q]
    BY <1>0, <1>3 DEF RefreshSteps, SelectTouched, UpdateStats, CleanupEmpty, db
  <2>2. TracksOf(a)' = TracksOf(a)
    BY <2>1 DEF TracksOf
  <2>3. CASE SelectTouched(r)
    <3>1. /\ UNCHANGED <<stats, cut>>
          /\ refresh' = [refresh EXCEPT ![r] = [pc |-> IF rows \cap Artists = {} THEN "idle" ELSE "update", ids |-> rows \cap Artists]]
      BY <2>3 DEF SelectTouched, db
    <3>2. a \in rows \cap Artists
      BY <1>0, <3>1
    <3>3. refresh'[r].pc = "update" /\ a \in refresh'[r].ids
      BY <1>0, <3>1, <3>2
    <3> QED
      BY <3>3 DEF Owed
  <2>4. CASE UpdateStats(r)
    <3>1. /\ a \in DOMAIN stats
          /\ stats'[a] = IF a \in refresh[r].ids THEN Cardinality(TracksOf(a)) ELSE stats[a]
          /\ cut' = (cut /\ ~(rows \cap Artists \subseteq refresh[r].ids))
      BY <2>4 DEF UpdateStats
    <3>2. CASE a \in refresh[r].ids
      BY <2>2, <3>1, <3>2 DEF Counted
    <3>3. CASE a \notin refresh[r].ids
      <4>1. stats'[a] = stats[a] /\ (cut => cut') /\ refresh[r].pc = "update"
        BY <1>0, <2>4, <3>1, <3>3 DEF UpdateStats
      <4>2. Owed(a) => Owed(a)'
        BY <2>1, <3>3, <4>1 DEF Owed
      <4> QED
        BY <1>1, <2>2, <3>1, <4>1, <4>2 DEF Counted
    <3> QED
      BY <3>2, <3>3
  <2>5. CASE CleanupEmpty(r)
    <3>1. a \in DOMAIN stats /\ stats'[a] = stats[a] /\ cut' = cut /\ refresh[r].pc = "cleanup"
      BY <2>5 DEF CleanupEmpty
    <3>2. Owed(a) => Owed(a)'
      BY <2>1, <3>1 DEF Owed
    <3> QED
      BY <1>1, <2>2, <3>1, <3>2 DEF Counted
  <2> QED
    BY <1>3, <2>3, <2>4, <2>5 DEF RefreshSteps
<1>4. ASSUME NEW selective \in BOOLEAN, GC(selective) PROVE Owed(a)'
  <2>1. refresh' = [refresh EXCEPT !["scanner"].pc = "select"]
    BY <1>4 DEF GC, StartRefresh
  <2>2. "scanner" \in Refreshers /\ refresh'["scanner"].pc = "select"
    BY <1>0, <2>1 DEF Refreshers
  <2> QED
    BY <2>2 DEF Owed
<1>5. ASSUME UNCHANGED vars PROVE Counted(a)' \/ Owed(a)'
  <2>1. Counted(a) => Counted(a)'
    BY <1>5 DEF vars, Counted, TracksOf
  <2>2. Owed(a) => Owed(a)'
    BY <1>5 DEF vars, Owed
  <2> QED
    BY <1>1, <1>5, <2>1, <2>2 DEF vars
<1> QED
  BY <1>2, <1>3, <1>4, <1>5 DEF Next, RefreshSteps

\* When all requests were answered and all refreshes are over, the statistics of every
\* linked artist count its stored tracks, in whatever order concurrent refreshes read and
\* wrote them, unless a sync was cut short.  Tidal is taken to answer the request for an
\* album with at least one track: SyncAlbum links the artists of an album without
\* refreshing their statistics when it has no track to import.
THEOREM StatsEndCurrent == ASSUME AlbumsHaveTracks PROVE Spec => []StatsCurrent
<1>1. Init => StatsOwed
  BY DEF Init, StatsOwed
<1>2. WorkInv /\ StatsOwed => StatsCurrent
  <2> SUFFICES ASSUME WorkInv, StatsOwed, Quiescent, ~cut, NEW a \in DOMAIN stats PROVE Counted(a)
    BY DEF StatsCurrent, Counted
  <2>1. ~Owed(a)
    BY DEF Owed, Quiescent, WillOwe
  <2> QED
    BY <2>1 DEF StatsOwed
<1> QED
  BY <1>1, <1>2, WorkInvariance, StatsStep, PTL DEF Spec
=============================================================================
