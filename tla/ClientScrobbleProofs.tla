------------------------ MODULE ClientScrobbleProofs ------------------------
EXTENDS ClientScrobble, TLAPS

\* The refs the hook keeps.
Refs == [scrobbled : BOOLEAN, listened : Nat, sample : {Null} \cup 0 .. Length]

\* With a sample that is the store's position, or none, the time counted is the length
\* of the jump, unless the position jumped back to the start.
LEMMA CountedCases ==
  ASSUME NEW r \in Refs, NEW t \in 0 .. Length, NEW p \in 0 .. Length,
         r.sample \in {Null, p}
  PROVE  /\ Counted(r, t, p) \in Refs
         /\ Counted(r, t, p).sample = t
         /\ r.sample # Null /\ JumpedBack(r, t) =>
              ~Counted(r, t, p).scrobbled /\ Counted(r, t, p).listened = 0
         /\ ~(r.sample # Null /\ JumpedBack(r, t)) =>
              /\ Counted(r, t, p).scrobbled = r.scrobbled
              /\ Counted(r, t, p).listened = r.listened + Jump(t - p)
PROOF
<1> DEFINE from == IF r.sample = Null THEN p ELSE r.sample
           gain == IF t > from /\ t - from <= MaxDelta THEN t - from ELSE 0
<1>1. from = p
  OBVIOUS
<1>2. gain = Jump(t - p)
  BY <1>1, ScrobbleAssumption DEF Jump
<1>3. gain \in Nat
  BY <1>1, ScrobbleAssumption
<1>4. Counted(r, t, p) = IF r.sample # Null /\ JumpedBack(r, t)
                         THEN [scrobbled |-> FALSE, listened |-> 0, sample |-> t]
                         ELSE [r EXCEPT !.listened = @ + gain, !.sample = t]
  BY DEF Counted
<1> HIDE DEF from, gain
<1>5. CASE r.sample # Null /\ JumpedBack(r, t)
  <2>1. Counted(r, t, p) = [scrobbled |-> FALSE, listened |-> 0, sample |-> t]
    BY <1>4, <1>5
  <2>2. Counted(r, t, p) \in Refs
    BY <2>1 DEF Refs
  <2>3. ~Counted(r, t, p).scrobbled /\ Counted(r, t, p).listened = 0 /\ Counted(r, t, p).sample = t
    BY <2>1
  <2> QED
    BY <1>5, <2>2, <2>3
<1>6. CASE ~(r.sample # Null /\ JumpedBack(r, t))
  <2>1. Counted(r, t, p) = [r EXCEPT !.listened = @ + gain, !.sample = t]
    BY <1>4, <1>6
  <2>2. Counted(r, t, p).sample = t /\ Counted(r, t, p).listened = r.listened + gain
    BY <2>1 DEF Refs
  <2>3. Counted(r, t, p).scrobbled = r.scrobbled
    BY <2>1 DEF Refs
  <2>4. Counted(r, t, p) \in Refs
    <3>1. r.listened + gain \in Nat
      BY <1>3 DEF Refs
    <3> QED
      BY <2>1, <3>1 DEF Refs
  <2> QED
    BY <1>2, <1>6, <2>2, <2>3, <2>4
<1> QED
  BY <1>5, <1>6

\* What one progress event may do to the refs: stated about the hook's state alone, so
\* that every action that writes the timestamp store can cite it.
LEMMA ProgressRefs ==
  ASSUME HookInv, NEW t \in 0 .. Length
  PROVE  /\ Progressed(t) \in Refs
         /\ Progressed(t).listened <= refs.listened + Jump(t - clock)
         /\ status # "playing" => Progressed(t).listened = refs.listened
         /\ mounted /\ song # NoSong => Progressed(t).sample \in {Null, t}
PROOF
<1> USE DEF HookInv, TypeOK, Null, Refs
<1>1. refs \in Refs /\ clock \in 0 .. Length /\ t \in Int /\ clock \in Int /\ MaxDelta \in Nat
  BY ScrobbleAssumption
<1>2. Jump(t - clock) \in Nat
  BY <1>1 DEF Jump
<1>3. CASE ~Hears(t)
  <2>1. Progressed(t) = refs
    BY <1>3 DEF Progressed
  <2>2. mounted /\ song # NoSong => refs.sample \in {Null, t}
    BY <1>3 DEF Hears, SamplesCurrent
  <2> QED
    BY <1>1, <1>2, <2>1, <2>2
<1>4. CASE Hears(t)
  <2>1. Progressed(t) = handleScrobbleFromProgress(refs, t, clock)
    BY <1>4 DEF Progressed
  <2>2. refs.sample \in {Null, clock}
    BY <1>4 DEF Hears, SamplesCurrent
  <2>3. CASE status # "playing"
    BY <1>1, <1>2, <2>1, <2>3 DEF handleScrobbleFromProgress
  <2>4. CASE status = "playing" /\ Restarted(t, clock)
    BY <1>1, <1>2, <2>1, <2>4 DEF handleScrobbleFromProgress, FreshRefs
  <2>5. CASE status = "playing" /\ ~Restarted(t, clock)
    <3> DEFINE c == Counted(refs, t, clock)
    <3>1. c \in Refs /\ c.listened <= refs.listened + Jump(t - clock) /\ c.sample = t
      <4>1. /\ c \in Refs /\ c.sample = t
            /\ c.listened = 0 \/ c.listened = refs.listened + Jump(t - clock)
        BY <1>1, <2>2, CountedCases
      <4> HIDE DEF c
      <4> QED
        BY <1>1, <1>2, <4>1
    <3>2. Progressed(t) = [c EXCEPT !.scrobbled = @ \/ checkScrobbleConditions(c.listened)]
      BY <2>1, <2>5 DEF handleScrobbleFromProgress
    <3> HIDE DEF c
    <3> QED
      BY <3>1, <3>2, <2>5
  <2> QED
    BY <2>3, <2>4, <2>5
<1> QED
  BY <1>3, <1>4

\* When a progress event clears the refs the play-through starts over, and when it
\* submits, the play-through goes on, was not submitted before and counts.
LEMMA ProgressFlags ==
  ASSUME HookInv, NEW t \in 0 .. Length, mounted
  PROVE  /\ Returned(t) => Progressed(t).listened = 0
         /\ checkScrobbleConditions(Progressed(t).listened) => Progressed(t).scrobbled
         /\ Progressed(t).sample = Null => Progressed(t).listened = 0 /\ (sent = 0 \/ Returned(t))
         /\ ~Returned(t) /\ refs.scrobbled => Progressed(t).scrobbled
         /\ Submits(t) => /\ ~Returned(t) /\ sent = 0
                          /\ Progressed(t).scrobbled /\ Progressed(t).sample # Null
                          /\ checkScrobbleConditions(Progressed(t).listened)
PROOF
<1>0. /\ refs \in Refs /\ clock \in 0 .. Length /\ t \in Int /\ clock \in Int /\ sent \in Nat
      /\ MaxDelta \in Nat /\ Begin \in Nat /\ RestartMin \in Nat /\ Begin <= RestartMin
      /\ ~checkScrobbleConditions(0)
  BY ScrobbleAssumption, ThresholdAssumption DEF HookInv, TypeOK, Refs
<1>1. /\ song # NoSong => refs.sample \in {Null, clock}
      /\ refs.sample = Null => refs.listened = 0 /\ sent = 0
      /\ checkScrobbleConditions(refs.listened) => refs.scrobbled
      /\ sent <= 1 /\ (sent = 1 => refs.scrobbled)
  BY DEF HookInv, SamplesCurrent, CountedIsSubmitted, SentIsFlagged
<1>2. CASE ~Hears(t)
  <2>1. Progressed(t) = refs /\ ~Submits(t) /\ ~Returned(t)
    BY <1>0, <1>2 DEF Progressed, Submits, Returned, Hears
  <2> QED
    BY <1>1, <2>1
<1>3. CASE Hears(t) /\ status # "playing"
  <2>1. Progressed(t) = [refs EXCEPT !.sample = t] /\ ~Submits(t) /\ ~Returned(t)
    BY <1>3 DEF Progressed, Submits, Returned, handleScrobbleFromProgress
  <2>2. /\ Progressed(t).listened = refs.listened /\ Progressed(t).scrobbled = refs.scrobbled
        /\ Progressed(t).sample = t /\ t # Null
    BY <1>0, <2>1 DEF Refs, Null
  <2> QED
    BY <1>1, <2>1, <2>2
<1>4. CASE Hears(t) /\ status = "playing" /\ Restarted(t, clock)
  <2>1. Progressed(t) = FreshRefs /\ ~Submits(t) /\ Returned(t)
    BY <1>0, <1>4 DEF Progressed, Submits, Returned, handleScrobbleFromProgress, Restarted, Hears
  <2>2. Progressed(t).listened = 0
    BY <2>1 DEF FreshRefs
  <2> QED
    BY <1>0, <2>1, <2>2
<1>5. CASE Hears(t) /\ status = "playing" /\ ~Restarted(t, clock)
  <2> DEFINE c == Counted(refs, t, clock)
             back == refs.sample # Null /\ JumpedBack(refs, t)
  <2>1. refs.sample \in {Null, clock} /\ song # NoSong
    BY <1>1, <1>5 DEF Hears
  <2>2. /\ c \in Refs /\ c.sample = t /\ t # Null
        /\ back => ~c.scrobbled /\ c.listened = 0
        /\ ~back => c.scrobbled = refs.scrobbled /\ c.listened = refs.listened + Jump(t - clock)
    BY <1>0, <2>1, CountedCases DEF Null
  <2>3. Progressed(t) = [c EXCEPT !.scrobbled = @ \/ checkScrobbleConditions(c.listened)]
    BY <1>5 DEF Progressed, handleScrobbleFromProgress
  <2>4. Submits(t) <=> ~c.scrobbled /\ checkScrobbleConditions(c.listened)
    BY <1>5 DEF Submits
  <2>5. back => Returned(t)
    BY <1>0, <1>5, <2>1 DEF JumpedBack, Returned
  <2>6. Returned(t) => c.listened = 0
    <3>1. CASE back
      BY <2>2, <3>1
    <3>2. CASE ~back /\ Returned(t)
      <4>1. refs.sample = Null
        BY <1>0, <2>1, <3>2 DEF JumpedBack, Returned
      <4>2. Jump(t - clock) = 0
        BY <1>0, <3>2 DEF Returned, Jump
      <4> QED
        BY <1>1, <2>2, <3>2, <4>1, <4>2
    <3> QED
      BY <3>1, <3>2
  <2> HIDE DEF c, back
  <2>7. /\ Progressed(t).listened = c.listened /\ Progressed(t).sample = t
        /\ Progressed(t).scrobbled = (c.scrobbled \/ checkScrobbleConditions(c.listened))
    BY <2>2, <2>3 DEF Refs
  <2>8. Submits(t) => ~back /\ ~Returned(t)
    BY <1>0, <2>2, <2>4, <2>6
  <2>9. Submits(t) => sent = 0
    <3>1. Submits(t) => ~refs.scrobbled
      BY <2>2, <2>4, <2>8
    <3> QED
      BY <1>0, <1>1, <3>1
  <2>10. ~Returned(t) /\ refs.scrobbled => c.scrobbled
    BY <2>2, <2>5
  <2> QED
    BY <2>2, <2>4, <2>6, <2>7, <2>8, <2>9, <2>10
<1> QED
  BY <1>2, <1>3, <1>4, <1>5

\* The history kept with a progress event.
LEMMA ProgressAccount ==
  ASSUME HookInv, NEW t \in 0 .. Length, NEW g \in Nat,
         Account(Returned(t), Submits(t), g)
  PROVE  /\ credit' \in Nat /\ sent' \in Nat /\ sent' <= 1
         /\ mounted => /\ sent' = 1 => Progressed(t).scrobbled
                       /\ Progressed(t).sample = Null => sent' = 0
         /\ mounted /\ Jump(t - clock) <= g => Progressed(t).listened <= credit'
         /\ mounted /\ status # "playing" => Progressed(t).listened <= credit'
PROOF
<1>0. /\ credit \in Nat /\ sent \in Nat /\ sent <= 1 /\ refs \in Refs /\ refs.listened \in Nat
      /\ mounted => refs.listened <= credit /\ (sent = 1 => refs.scrobbled)
  BY DEF HookInv, TypeOK, Refs, OnlyShortJumpsCount, SentIsFlagged
<1>1. /\ credit' = (IF Returned(t) THEN 0 ELSE credit) + g
      /\ sent' = IF Submits(t) THEN sent + 1 ELSE IF Returned(t) THEN 0 ELSE sent
  BY DEF Account
<1>2. ~mounted => ~Submits(t)
  BY DEF Submits, Hears
<1>3. /\ Progressed(t).listened \in Nat
      /\ Progressed(t).listened <= refs.listened + Jump(t - clock)
      /\ status # "playing" => Progressed(t).listened = refs.listened
  BY ProgressRefs DEF Refs
<1>4. Jump(t - clock) \in Nat
  BY ScrobbleAssumption DEF Jump, HookInv, TypeOK
<1>5. CASE ~mounted
  BY <1>0, <1>1, <1>2, <1>5
<1>6. CASE mounted
  <2>1. /\ Returned(t) => Progressed(t).listened = 0
        /\ Progressed(t).sample = Null => sent = 0 \/ Returned(t)
        /\ ~Returned(t) /\ refs.scrobbled => Progressed(t).scrobbled
        /\ Submits(t) => ~Returned(t) /\ sent = 0 /\ Progressed(t).scrobbled /\ Progressed(t).sample # Null
    BY <1>6, ProgressFlags
  <2>2. credit' \in Nat /\ sent' \in Nat /\ sent' <= 1
    BY <1>0, <1>1, <2>1
  <2>3. sent' = 1 => Progressed(t).scrobbled
    BY <1>0, <1>1, <1>6, <2>1
  <2>4. Progressed(t).sample = Null => sent' = 0
    BY <1>0, <1>1, <2>1
  <2>5. Jump(t - clock) <= g => Progressed(t).listened <= credit'
    BY <1>0, <1>1, <1>3, <1>4, <1>6, <2>1
  <2>6. status # "playing" => Progressed(t).listened <= credit'
    BY <1>0, <1>1, <1>3, <1>6, <2>1
  <2> QED
    BY <2>2, <2>3, <2>4, <2>5, <2>6
<1> QED
  BY <1>5, <1>6

\* A store that goes back to 0 never makes the hook submit.
LEMMA NoSubmitAtZero ==
  ASSUME HookInv
  PROVE  ~Submits(0) /\ ~Submits(clock)
PROOF
<1>1. ~Submits(clock)
  BY DEF Submits, Hears
<1>2. ASSUME Submits(0) PROVE FALSE
  <2>1. mounted /\ song # NoSong /\ status = "playing"
    BY <1>2 DEF Submits, Hears
  <2>2. /\ refs \in Refs /\ clock \in 0 .. Length /\ 0 \in 0 .. Length /\ refs.listened \in Nat
        /\ refs.sample \in {Null, clock}
        /\ checkScrobbleConditions(refs.listened) => refs.scrobbled
    BY <2>1, ScrobbleAssumption DEF HookInv, TypeOK, Refs, SamplesCurrent, CountedIsSubmitted
  <2>3. Jump(0 - clock) = 0
    BY <2>2, ScrobbleAssumption DEF Jump
  <2>4. \/ Counted(refs, 0, clock).listened = 0
        \/ /\ Counted(refs, 0, clock).scrobbled = refs.scrobbled
           /\ Counted(refs, 0, clock).listened = refs.listened
    BY <2>2, <2>3, CountedCases
  <2>5. /\ ~Counted(refs, 0, clock).scrobbled
        /\ checkScrobbleConditions(Counted(refs, 0, clock).listened)
    BY <1>2 DEF Submits
  <2> QED
    BY <2>2, <2>4, <2>5, ThresholdAssumption
<1> QED
  BY <1>1, <1>2

\* What a seek event does to the refs the progress event left.
LEMMA SeekRefs ==
  ASSUME NEW r \in Refs, NEW t \in 0 .. Length
  PROVE  /\ handleScrobbleFromSeek(r, t) \in Refs
         /\ handleScrobbleFromSeek(r, t).sample = t
         /\ \/ /\ handleScrobbleFromSeek(r, t).listened = 0
               /\ t < Begin /\ (r.sample = Null \/ r.sample >= Begin)
            \/ /\ handleScrobbleFromSeek(r, t).listened = r.listened
               /\ handleScrobbleFromSeek(r, t).scrobbled = r.scrobbled
PROOF
<1>1. CASE t < Begin /\ (r.sample = Null \/ r.sample >= Begin)
  <2>1. handleScrobbleFromSeek(r, t) = [scrobbled |-> FALSE, listened |-> 0, sample |-> t]
    BY <1>1 DEF handleScrobbleFromSeek
  <2>2. handleScrobbleFromSeek(r, t) \in Refs
    BY <2>1 DEF Refs
  <2>3. handleScrobbleFromSeek(r, t).sample = t /\ handleScrobbleFromSeek(r, t).listened = 0
    BY <2>1
  <2> QED
    BY <1>1, <2>2, <2>3
<1>2. CASE ~(t < Begin /\ (r.sample = Null \/ r.sample >= Begin))
  <2>1. handleScrobbleFromSeek(r, t) = [r EXCEPT !.sample = t]
    BY <1>2 DEF handleScrobbleFromSeek
  <2> QED
    BY <2>1 DEF Refs
<1> QED
  BY <1>1, <1>2

\* Whatever is reported, the server shows one of the songs or none.
LEMMA ScrobbleType ==
  ASSUME NEW k \in Songs \cup {NoSong}, NEW s \in Songs \cup {NoSong}, NEW e
  PROVE  scrobble(k, e, s) \in Songs \cup {NoSong}
  BY DEF scrobble, subsonicScrobble, jellyfinScrobble, Stopped

\* What the reports of a progress or status event leave the server with is a song or none.
LEMMA ReportTypes ==
  ASSUME TypeOK, NEW t, NEW k \in Songs \cup {NoSong}, NEW s \in Songs \cup {NoSong}, NEW a, NEW b
  PROVE  /\ AfterProgress(t) \in Songs \cup {NoSong}
         /\ handleScrobbleFromStatus(k, s, a, b) \in Songs \cup {NoSong}
  BY ScrobbleType DEF AfterProgress, handleScrobbleFromStatus, TypeOK

\* What a command overtakes is a position.
LEMMA OvertakesType == ASSUME TypeOK, Overtakes PROVE late' \in {Null} \cup 0 .. Length
  BY DEF TypeOK, Overtakes

\* Fresh refs satisfy what the invariant says of them.
LEMMA FreshOK ==
  /\ FreshRefs \in Refs /\ FreshRefs.listened = 0 /\ ~FreshRefs.scrobbled /\ FreshRefs.sample = Null
  BY DEF FreshRefs, Refs

\* The invariant after a step, from what the step left of the hook.
LEMMA InvFrom ==
  ASSUME TypeOK', sent' <= 1,
         mounted' =>
            /\ refs'.listened <= credit'
            /\ pos' - clock' \in 0 .. MaxDelta => refs'.listened + (pos' - clock') <= credit'
            /\ checkScrobbleConditions(refs'.listened) => refs'.scrobbled
            /\ song' # NoSong => refs'.sample \in {Null, clock'}
            /\ refs'.sample = Null => refs'.listened = 0 /\ sent' = 0
            /\ sent' = 1 => refs'.scrobbled
  PROVE  HookInv'
  BY DEF HookInv, OnlyShortJumpsCount, CountedIsSubmitted, SamplesCurrent, SentIsFlagged,
         checkScrobbleConditions

\* Types of the accounting, for the steps that start the play-through over.
LEMMA NewPlayAccount ==
  ASSUME NEW g \in Nat, Account(TRUE, FALSE, g)
  PROVE  credit' = g /\ sent' = 0
  BY DEF Account

\* The state at start-up satisfies the invariant.
LEMMA InitInv == Init => HookInv
PROOF
<1> SUFFICES ASSUME Init PROVE HookInv
  OBVIOUS
<1>1. TypeOK
  <2>1. refs \in Refs
    BY FreshOK DEF Init
  <2>2. pos \in 0 .. Length /\ clock \in 0 .. Length /\ credit \in Nat /\ sent \in Nat
    BY ScrobbleAssumption DEF Init
  <2>3. mounted \in BOOLEAN /\ lapse \in BOOLEAN /\ own = {} /\ orphan = {}
    BY DEF Init
  <2>4. /\ server \in Servers /\ song \in Songs \cup {NoSong} /\ status = "paused"
        /\ previousSong = NoSong /\ told = NoSong /\ late = Null
    BY DEF Init
  <2> QED
    BY <2>1, <2>2, <2>3, <2>4 DEF TypeOK, Refs
<1>2. refs = FreshRefs /\ credit = 0 /\ sent = 0 /\ pos = 0 /\ clock = 0
  BY DEF Init
<1> QED
  BY <1>1, <1>2, FreshOK, ThresholdAssumption
     DEF HookInv, OnlyShortJumpsCount, CountedIsSubmitted, SamplesCurrent, SentIsFlagged

\* A second heard adds to the credit what the next poll may count.
LEMMA HearInv == ASSUME HookInv, Hear PROVE HookInv'
PROOF
<1>1. /\ pos' = pos + 1 /\ pos < Length /\ credit' = credit + 1 /\ sent' = sent
      /\ late' = Null
      /\ UNCHANGED <<server, song, status, clock, mounted, refs, previousSong, own, orphan, told, lapse>>
  BY DEF Hear, Account
<1>2. TypeOK'
  BY <1>1, ScrobbleAssumption DEF HookInv, TypeOK, Changes
<1>3. /\ pos \in Nat /\ clock \in Nat /\ credit \in Nat /\ refs.listened \in Nat /\ MaxDelta \in Nat
      /\ sent <= 1
  BY ScrobbleAssumption DEF HookInv, TypeOK, SentIsFlagged
<1>4. ASSUME mounted PROVE /\ refs.listened <= credit
                           /\ pos - clock \in 0 .. MaxDelta => refs.listened + (pos - clock) <= credit
                           /\ checkScrobbleConditions(refs.listened) => refs.scrobbled
                           /\ song # NoSong => refs.sample \in {Null, clock}
                           /\ refs.sample = Null => refs.listened = 0 /\ sent = 0
                           /\ sent = 1 => refs.scrobbled
  BY <1>4 DEF HookInv, OnlyShortJumpsCount, CountedIsSubmitted, SamplesCurrent, SentIsFlagged
<1>5. mounted /\ pos' - clock \in 0 .. MaxDelta => refs.listened + (pos' - clock) <= credit'
  BY <1>1, <1>3, <1>4
<1>6. mounted => refs.listened <= credit'
  BY <1>1, <1>3, <1>4
<1> QED
  BY <1>1, <1>2, <1>3, <1>4, <1>5, <1>6, InvFrom

\* A poll counts no more than was heard since the last one (handleScrobbleFromProgress).
LEMMA PollInv == ASSUME HookInv, Poll PROVE HookInv' /\ (mounted => refs'.listened <= credit')
PROOF
<1>1. /\ song # NoSong /\ clock' = pos /\ refs' = Progressed(pos) /\ told' = AfterProgress(pos)
      /\ Account(Returned(pos), Submits(pos), 0) /\ Lapsed(Submits(pos))
      /\ UNCHANGED <<server, song, status, pos, mounted, previousSong, own, orphan, late>>
  BY DEF Poll, pending
<1>2. TypeOK /\ pos \in 0 .. Length /\ pos \in Nat /\ clock \in Nat /\ MaxDelta \in Nat
  BY ScrobbleAssumption DEF HookInv, TypeOK
<1>3. /\ credit' \in Nat /\ sent' \in Nat /\ sent' <= 1
      /\ mounted => /\ sent' = 1 => Progressed(pos).scrobbled
                    /\ Progressed(pos).sample = Null => sent' = 0
  BY <1>1, <1>2, ProgressAccount
<1>4. /\ Progressed(pos) \in Refs
      /\ Progressed(pos).listened <= refs.listened + Jump(pos - clock)
      /\ mounted => Progressed(pos).sample \in {Null, pos}
  BY <1>1, <1>2, ProgressRefs
<1>5. told' \in Songs \cup {NoSong} /\ lapse' \in BOOLEAN
  BY <1>1, <1>2, ReportTypes DEF Lapsed, TypeOK
<1>6. TypeOK'
  BY <1>1, <1>2, <1>3, <1>4, <1>5 DEF TypeOK, Refs, Changes
<1>7. ASSUME mounted PROVE Progressed(pos).listened <= credit'
  <2>1. /\ credit \in Nat /\ refs.listened \in Nat /\ refs.listened <= credit
        /\ pos - clock \in 0 .. MaxDelta => refs.listened + (pos - clock) <= credit
    BY <1>7 DEF HookInv, TypeOK, OnlyShortJumpsCount
  <2>2. refs.listened + Jump(pos - clock) <= credit
    BY <1>2, <2>1 DEF Jump
  <2>3. Progressed(pos).listened \in Nat
    BY <1>4 DEF Refs
  <2>4. Returned(pos) => Progressed(pos).listened = 0
    BY <1>2, <1>7, ProgressFlags
  <2>5. credit' = IF Returned(pos) THEN 0 ELSE credit
    BY <1>1, <2>1 DEF Account
  <2>6. Jump(pos - clock) \in Nat
    BY <1>2 DEF Jump
  <2> QED
    BY <1>4, <2>1, <2>2, <2>3, <2>4, <2>5, <2>6
<1>8. mounted => /\ checkScrobbleConditions(Progressed(pos).listened) => Progressed(pos).scrobbled
                 /\ Progressed(pos).sample = Null => Progressed(pos).listened = 0
  BY <1>2, ProgressFlags
<1>9. pos' - clock' = 0 /\ Progressed(pos).listened \in Nat
  BY <1>1, <1>2, <1>4 DEF Refs
<1>10. mounted /\ pos' - clock' \in 0 .. MaxDelta => refs'.listened + (pos' - clock') <= credit'
  BY <1>1, <1>7, <1>9
<1>11. HookInv'
  BY <1>1, <1>3, <1>4, <1>6, <1>7, <1>8, <1>10, InvFrom
<1> QED
  BY <1>1, <1>7, <1>11

\* The answer to an overtaken poll counts at most a short jump to where the playhead was,
\* and the next poll at most one to where it is.
LEMMA LatePollInv ==
  ASSUME HookInv, LatePoll
  PROVE  /\ HookInv' /\ (mounted => Progressed(late).listened <= credit')
         /\ late \in 0 .. Length
         /\ \E g \in 0 .. 2 * MaxDelta : Account(Returned(late), Submits(late), g)
PROOF
<1> DEFINE g == (IF status = "playing" THEN Jump(late - clock) ELSE 0) + Jump(pos - late)
           r == Progressed(late)
<1>1. /\ late # Null /\ clock' = late /\ late' = Null /\ refs' = r /\ told' = AfterProgress(late)
      /\ Account(Returned(late), Submits(late), g) /\ Lapsed(Submits(late))
      /\ UNCHANGED <<server, song, status, pos, mounted, previousSong, own, orphan>>
  BY DEF LatePoll
<1>2. /\ TypeOK /\ late \in 0 .. Length /\ late \in Nat /\ pos \in Nat /\ clock \in Nat
      /\ MaxDelta \in Nat /\ credit \in Nat /\ refs \in Refs /\ refs.listened \in Nat
  BY <1>1, ScrobbleAssumption DEF HookInv, TypeOK, Refs
<1>3. /\ Jump(late - clock) \in 0 .. MaxDelta /\ Jump(pos - late) \in 0 .. MaxDelta
      /\ pos - late \in 0 .. MaxDelta => Jump(pos - late) = pos - late
  BY <1>2 DEF Jump
<1>4. g \in 0 .. 2 * MaxDelta /\ g \in Nat /\ (status = "playing" => Jump(late - clock) <= g)
  BY <1>2, <1>3
<1>5. credit' = (IF Returned(late) THEN 0 ELSE credit) + g
  BY <1>1 DEF Account
<1>6. Jump(pos - late) <= g /\ (status = "playing" => Jump(late - clock) + Jump(pos - late) = g)
  BY <1>2, <1>3
<1> HIDE DEF g
<1>7. /\ credit' \in Nat /\ sent' \in Nat /\ sent' <= 1
      /\ mounted => /\ sent' = 1 => r.scrobbled
                    /\ r.sample = Null => sent' = 0
                    /\ r.listened <= credit'
  BY <1>1, <1>2, <1>4, ProgressAccount
<1>8. /\ r \in Refs
      /\ r.listened <= refs.listened + Jump(late - clock)
      /\ status # "playing" => r.listened = refs.listened
      /\ mounted /\ song # NoSong => r.sample \in {Null, late}
  BY <1>2, ProgressRefs
<1>9. mounted => /\ checkScrobbleConditions(r.listened) => r.scrobbled
                 /\ r.sample = Null => r.listened = 0
                 /\ Returned(late) => r.listened = 0
  BY <1>2, ProgressFlags
<1> HIDE DEF r
<1>10. told' \in Songs \cup {NoSong} /\ lapse' \in BOOLEAN
  BY <1>1, <1>2, ReportTypes DEF Lapsed, TypeOK
<1>11. TypeOK'
  BY <1>1, <1>2, <1>7, <1>8, <1>10 DEF TypeOK, Refs, Changes
<1>12. ASSUME mounted, pos - late \in 0 .. MaxDelta PROVE r.listened + (pos - late) <= credit'
  <2>1. refs.listened <= credit /\ r.listened \in Nat
    BY <1>8, <1>12 DEF HookInv, OnlyShortJumpsCount, Refs
  <2>2. CASE Returned(late)
    BY <1>2, <1>3, <1>4, <1>5, <1>6, <1>9, <1>12, <2>2
  <2>3. CASE ~Returned(late)
    BY <1>2, <1>3, <1>4, <1>5, <1>6, <1>8, <1>12, <2>1, <2>3
  <2> QED
    BY <2>2, <2>3
<1>13. HookInv'
  BY <1>1, <1>7, <1>8, <1>9, <1>11, <1>12, InvFrom
<1> QED
  BY <1>1, <1>2, <1>4, <1>7, <1>13 DEF r

\* A seek counts at most its own short jump and leaves the sample at the new position
\* (handleScrobbleFromSeek).
LEMMA SeekInv ==
  ASSUME HookInv, NEW t \in 0 .. Length, Seek(t)
  PROVE  HookInv' /\ (mounted => Progressed(t).listened <= credit')
PROOF
<1> DEFINE g == IF status = "playing" THEN Jump(t - clock) ELSE 0
           r == Progressed(t)
           q == handleScrobbleFromSeek(r, t)
<1>1. /\ song # NoSong /\ clock' = t /\ pos' = t
      /\ refs' = IF mounted THEN q ELSE refs
      /\ told' = scrobble(AfterProgress(t), "unpause", song) \/ told' = AfterProgress(t)
      /\ Account(Returned(t), Submits(t), g) /\ Lapsed(Submits(t)) /\ Overtakes
      /\ UNCHANGED <<server, song, status, mounted, previousSong, own, orphan>>
  BY DEF Seek
<1>2. TypeOK /\ clock \in Nat /\ t \in Nat /\ MaxDelta \in Nat /\ refs \in Refs
  BY ScrobbleAssumption DEF HookInv, TypeOK, Refs
<1>3. g \in Nat /\ (status = "playing" => Jump(t - clock) <= g)
  BY <1>2 DEF Jump
<1> HIDE DEF g
<1>4. /\ credit' \in Nat /\ sent' \in Nat /\ sent' <= 1
      /\ mounted => /\ sent' = 1 => r.scrobbled
                    /\ r.sample = Null => sent' = 0
                    /\ r.listened <= credit'
  BY <1>1, <1>3, ProgressAccount
<1>5. r \in Refs /\ (mounted => r.sample \in {Null, t})
  BY <1>1, ProgressRefs
<1>6. mounted => (checkScrobbleConditions(r.listened) => r.scrobbled)
  BY ProgressFlags
<1> HIDE DEF r
<1>7. /\ q \in Refs /\ q.sample = t
      /\ \/ q.listened = 0 /\ t < Begin /\ (r.sample = Null \/ r.sample >= Begin)
         \/ q.listened = r.listened /\ q.scrobbled = r.scrobbled
  BY <1>5, SeekRefs
<1> HIDE DEF q
<1>8. told' \in Songs \cup {NoSong} /\ lapse' \in BOOLEAN /\ late' \in {Null} \cup 0 .. Length
  <2>1. late' \in {Null} \cup 0 .. Length
    BY <1>1, <1>2, OvertakesType
  <2> QED
    BY <1>1, <1>2, <2>1, ReportTypes, ScrobbleType DEF Lapsed, TypeOK
<1>9. TypeOK'
  BY <1>1, <1>2, <1>4, <1>7, <1>8 DEF TypeOK, Refs, Changes
<1>10. ASSUME mounted PROVE /\ q.listened <= credit' /\ q.listened + (t - t) <= credit'
                            /\ checkScrobbleConditions(q.listened) => q.scrobbled
                            /\ sent' = 1 => q.scrobbled
                            /\ q.sample # Null
  <2>1. r.listened \in Nat /\ t # Null /\ Begin \in Nat
    BY <1>2, <1>5, ScrobbleAssumption DEF Refs, Null
  <2>2. CASE q.listened = 0 /\ t < Begin /\ (r.sample = Null \/ r.sample >= Begin)
    <3>1. r.sample = Null
      BY <1>2, <1>5, <1>10, <2>1, <2>2
    <3> QED
      BY <1>2, <1>4, <1>7, <1>10, <2>1, <2>2, <3>1, ThresholdAssumption
  <2>3. CASE q.listened = r.listened /\ q.scrobbled = r.scrobbled
    BY <1>2, <1>4, <1>6, <1>7, <1>10, <2>1, <2>3
  <2> QED
    BY <1>7, <2>2, <2>3
<1>11. HookInv'
  BY <1>1, <1>4, <1>7, <1>9, <1>10, InvFrom
<1> QED
  BY <1>4, <1>11 DEF r

\* A command that sets the store to 0 and leaves the playhead keeps the time within the credit.
LEMMA StayInv == ASSUME HookInv, NEW p \in {0, pos}, Stay(p) PROVE HookInv'
PROOF
<1> DEFINE r == Progressed(0)
<1>1. /\ song # NoSong /\ clock' = 0 /\ pos' = p /\ refs' = r /\ told' = AfterProgress(0)
      /\ Account(Returned(0), Submits(0), Jump(p)) /\ Lapsed(Submits(0))
      /\ UNCHANGED <<server, song, status, mounted, previousSong, own, orphan, late>>
  BY DEF Stay, pending
<1>2. /\ TypeOK /\ clock \in Nat /\ p \in 0 .. Length /\ p \in Nat /\ MaxDelta \in Nat /\ refs \in Refs
      /\ 0 \in 0 .. Length /\ refs.listened \in Nat
  BY ScrobbleAssumption DEF HookInv, TypeOK, Refs
<1>3. Jump(p) \in Nat /\ Jump(0 - clock) = 0 /\ (p \in 0 .. MaxDelta => Jump(p) = p)
  BY <1>2 DEF Jump
<1>4. /\ credit' \in Nat /\ sent' \in Nat /\ sent' <= 1
      /\ mounted => /\ sent' = 1 => r.scrobbled
                    /\ r.sample = Null => sent' = 0
                    /\ r.listened <= credit'
  BY <1>1, <1>2, <1>3, ProgressAccount
<1>5. r \in Refs /\ r.listened <= refs.listened + 0 /\ (mounted => r.sample \in {Null, 0})
  BY <1>1, <1>2, <1>3, ProgressRefs
<1>6. mounted => /\ checkScrobbleConditions(r.listened) => r.scrobbled
                 /\ r.sample = Null => r.listened = 0
                 /\ Returned(0) => r.listened = 0
  BY <1>2, ProgressFlags
<1> HIDE DEF r
<1>7. told' \in Songs \cup {NoSong} /\ lapse' \in BOOLEAN
  BY <1>1, <1>2, ReportTypes DEF Lapsed, TypeOK
<1>8. TypeOK'
  BY <1>1, <1>2, <1>4, <1>5, <1>7 DEF TypeOK, Refs, Changes
<1>9. ASSUME mounted, p - 0 \in 0 .. MaxDelta PROVE r.listened + (p - 0) <= credit'
  <2>1. refs.listened <= credit /\ credit \in Nat
    BY <1>9 DEF HookInv, TypeOK, OnlyShortJumpsCount
  <2>2. credit' = (IF Returned(0) THEN 0 ELSE credit) + p
    BY <1>1, <1>2, <1>3, <1>9 DEF Account
  <2>3. r.listened \in Nat
    BY <1>5 DEF Refs
  <2> QED
    BY <1>2, <1>5, <1>6, <1>9, <2>1, <2>2, <2>3
<1> QED
  BY <1>1, <1>4, <1>5, <1>6, <1>8, <1>9, InvFrom

\* mediaStop and the end of the queue keep the invariant.
LEMMA HaltInv == ASSUME HookInv, NEW seeks \in BOOLEAN, Halt(seeks) PROVE HookInv'
PROOF
<1> DEFINE r == Progressed(0)
           q == handleScrobbleFromSeek(r, 0)
           known == handleScrobbleFromStatus(AfterProgress(0), song, status, "paused")
<1>1. /\ song # NoSong /\ clock' = 0 /\ pos' = 0 /\ status' = "paused"
      /\ refs' = IF mounted /\ seeks THEN q ELSE r
      /\ told' = known \/ told' = scrobble(known, "pause", song)
      /\ Account(Returned(0), Submits(0), 0) /\ Lapsed(Submits(0)) /\ Overtakes
      /\ UNCHANGED <<server, song, mounted, previousSong, own, orphan>>
  BY DEF Halt
<1>2. /\ TypeOK /\ clock \in Nat /\ MaxDelta \in Nat /\ 0 \in 0 .. Length
  BY ScrobbleAssumption DEF HookInv, TypeOK
<1>3. Jump(0 - clock) <= 0
  BY <1>2 DEF Jump
<1>4. /\ credit' \in Nat /\ sent' \in Nat /\ sent' <= 1
      /\ mounted => /\ sent' = 1 => r.scrobbled
                    /\ r.sample = Null => sent' = 0
                    /\ r.listened <= credit'
  BY <1>1, <1>2, <1>3, ProgressAccount
<1>5. r \in Refs /\ (mounted => r.sample \in {Null, 0})
  BY <1>1, <1>2, ProgressRefs
<1>6. mounted => /\ checkScrobbleConditions(r.listened) => r.scrobbled
                 /\ r.sample = Null => r.listened = 0
  BY <1>2, ProgressFlags
<1> HIDE DEF r
<1>7. /\ q \in Refs /\ q.sample = 0
      /\ \/ q.listened = 0 /\ 0 < Begin /\ (r.sample = Null \/ r.sample >= Begin)
         \/ q.listened = r.listened /\ q.scrobbled = r.scrobbled
  BY <1>2, <1>5, SeekRefs
<1> HIDE DEF q
<1>8. told' \in Songs \cup {NoSong} /\ lapse' \in BOOLEAN /\ late' \in {Null} \cup 0 .. Length
  <2>1. AfterProgress(0) \in Songs \cup {NoSong} /\ song \in Songs \cup {NoSong}
    BY <1>2, ReportTypes DEF TypeOK
  <2>2. known \in Songs \cup {NoSong}
    BY <1>2, <2>1, ReportTypes
  <2>3. late' \in {Null} \cup 0 .. Length
    BY <1>1, <1>2, OvertakesType
  <2> HIDE DEF known
  <2> QED
    BY <1>1, <1>2, <2>1, <2>2, <2>3, ScrobbleType DEF Lapsed, TypeOK
<1>9. TypeOK'
  BY <1>1, <1>2, <1>4, <1>5, <1>7, <1>8 DEF TypeOK, Refs, Changes
<1>10. ASSUME mounted PROVE /\ q.listened <= credit'
                            /\ checkScrobbleConditions(q.listened) => q.scrobbled
                            /\ sent' = 1 => q.scrobbled
                            /\ q.sample # Null
  <2>1. r.listened \in Nat /\ 0 # Null /\ Begin \in Nat \ {0}
    BY <1>5, ScrobbleAssumption DEF Refs, Null
  <2>2. CASE q.listened = 0 /\ 0 < Begin /\ (r.sample = Null \/ r.sample >= Begin)
    <3>1. r.sample = Null
      BY <1>5, <1>10, <2>1, <2>2
    <3> QED
      BY <1>4, <1>7, <1>10, <2>1, <2>2, <3>1, ThresholdAssumption
  <2>3. CASE q.listened = r.listened /\ q.scrobbled = r.scrobbled
    BY <1>4, <1>6, <1>7, <1>10, <2>1, <2>3
  <2> QED
    BY <1>7, <2>2, <2>3
<1>11. pos' - clock' = 0 /\ refs'.listened \in Nat
  BY <1>1, <1>5, <1>7 DEF Refs
<1>12. CASE mounted /\ seeks
  <2>1. refs' = q
    BY <1>1, <1>12
  <2>2. refs'.listened + (pos' - clock') <= credit'
    BY <1>10, <1>11, <1>12, <2>1, <1>4
  <2> QED
    BY <1>1, <1>4, <1>7, <1>9, <1>10, <1>12, <2>1, <2>2, InvFrom
<1>13. CASE ~(mounted /\ seeks)
  <2>1. refs' = r
    BY <1>1, <1>13
  <2>2. mounted => refs'.listened + (pos' - clock') <= credit'
    BY <1>4, <1>11, <2>1
  <2> QED
    BY <1>1, <1>4, <1>5, <1>6, <1>9, <2>1, <2>2, InvFrom
<1> QED
  BY <1>12, <1>13

\* A change of the status touches neither the refs nor the history (handleScrobbleFromStatus).
LEMMA SetStatusInv ==
  ASSUME HookInv, NEW st \in {"playing", "paused"}, SetStatus(st) PROVE HookInv'
PROOF
<1>1. /\ status' = st /\ told' = handleScrobbleFromStatus(told, song, status, st)
      /\ UNCHANGED <<server, song, pos, clock, mounted, refs, previousSong, own, orphan, late, credit, sent, lapse>>
  BY DEF SetStatus, pending, history
<1>2. told' \in Songs \cup {NoSong}
  BY <1>1, ReportTypes DEF HookInv, TypeOK
<1>3. TypeOK'
  BY <1>1, <1>2 DEF HookInv, TypeOK, Changes
<1> QED
  BY <1>1, <1>3
     DEF HookInv, OnlyShortJumpsCount, CountedIsSubmitted, SamplesCurrent, SentIsFlagged

\* A song change starts a fresh play-through (handleScrobbleFromSongChange).
LEMMA ChangeSongInv ==
  ASSUME HookInv, NEW s \in Songs \cup {NoSong}, NEW t \in {0, clock},
         NEW st \in {"playing", "paused"}, ChangeSong(s, t, st)
  PROVE  HookInv' /\ credit' = 0 /\ sent' = 0
PROOF
<1>1. /\ song' = s /\ status' = st /\ clock' = t /\ pos' = 0
      /\ told' = handleScrobbleFromStatus(AfterProgress(t), s, status, st)
      /\ refs' = IF mounted THEN FreshRefs ELSE refs
      /\ previousSong' = IF mounted THEN s ELSE previousSong
      /\ own' = IF mounted THEN {[cur |-> s, prev |-> previousSong]} ELSE own
      /\ lapse' = ~mounted /\ Overtakes /\ UNCHANGED <<server, mounted, orphan>>
  BY DEF ChangeSong
<1>2. TypeOK /\ t \in 0 .. Length /\ refs \in Refs
  BY ScrobbleAssumption DEF HookInv, TypeOK, Refs
<1>3. credit' = 0 /\ sent' = 0
  <2>1. ~Submits(t)
    BY NoSubmitAtZero
  <2> QED
    BY <2>1 DEF ChangeSong, Account
<1>4. told' \in Songs \cup {NoSong}
  <2>1. AfterProgress(t) \in Songs \cup {NoSong}
    BY <1>2, ReportTypes DEF TypeOK
  <2> QED
    BY <1>1, <1>2, <2>1, ReportTypes
<1>5. own' \subseteq Changes
  BY <1>1, <1>2 DEF TypeOK, Changes
<1>6. /\ refs' \in Refs /\ lapse' \in BOOLEAN /\ previousSong' \in Songs \cup {NoSong}
      /\ pos' \in 0 .. Length /\ late' \in {Null} \cup 0 .. Length
  <2>1. late' \in {Null} \cup 0 .. Length
    BY <1>1, <1>2, OvertakesType
  <2> QED
    BY <1>1, <1>2, <2>1, FreshOK, ScrobbleAssumption DEF TypeOK
<1>7. TypeOK'
  BY <1>1, <1>2, <1>3, <1>4, <1>5, <1>6 DEF TypeOK, Refs
<1>8. ASSUME mounted', pos' - clock' \in 0 .. MaxDelta PROVE refs'.listened + (pos' - clock') <= credit'
  <2>1. clock' = 0
    BY <1>1, <1>2, <1>8, ScrobbleAssumption
  <2> QED
    BY <1>1, <1>3, <1>8, <2>1, FreshOK
<1> QED
  BY <1>1, <1>3, <1>7, <1>8, FreshOK, ThresholdAssumption, InvFrom

\* The timeout of a song change only reports.
LEMMA FiresInv == ASSUME HookInv, TimerFires PROVE HookInv' /\ UNCHANGED <<credit, sent>>
PROOF
<1>1. PICK due \in IF orphan # {} THEN orphan ELSE own : Fires(due)
  BY DEF TimerFires
<1>2. due \in Changes
  BY <1>1 DEF HookInv, TypeOK
<1>3. /\ own' = (IF orphan = {} THEN {} ELSE own) /\ orphan' = {}
      /\ lapse' = (lapse \/ due.prev = due.cur)
      /\ UNCHANGED <<server, song, status, pos, clock, mounted, refs, previousSong, late, credit, sent>>
  BY <1>1 DEF Fires, playerVars, history
<1>4. told' \in Songs \cup {NoSong}
  <2> DEFINE started == IF status = "playing" /\ due.cur # NoSong
                        THEN scrobble(told, "start", due.cur) ELSE told
  <2>1. due.cur \in Songs \cup {NoSong} /\ due.prev \in Songs \cup {NoSong} /\ told \in Songs \cup {NoSong}
    BY <1>2 DEF Changes, HookInv, TypeOK
  <2>2. started \in Songs \cup {NoSong}
    BY <2>1, ScrobbleType
  <2>3. told' = IF due.prev # NoSong THEN scrobble(started, "stop", due.prev) ELSE started
    BY <1>1 DEF Fires
  <2> HIDE DEF started
  <2> QED
    BY <2>1, <2>2, <2>3, ScrobbleType
<1>5. TypeOK'
  BY <1>3, <1>4 DEF HookInv, TypeOK, Changes
<1> QED
  BY <1>3, <1>5
     DEF HookInv, OnlyShortJumpsCount, CountedIsSubmitted, SamplesCurrent, SentIsFlagged

\* A repeat starts the play-through over (handleScrobbleFromRepeat).
LEMMA RepeatInv ==
  ASSUME HookInv, NEW st \in {"playing", "paused"}, Repeat(st)
  PROVE  HookInv' /\ (\/ credit' = 0 /\ sent' = 0
                      \/ credit' = credit /\ sent' = sent)
PROOF
<1> DEFINE r == Progressed(0)
           repeated == mounted /\ st = "playing"
           known == handleScrobbleFromStatus(AfterProgress(0), song, status, st)
<1>1. /\ song # NoSong /\ clock' = 0 /\ pos' = 0 /\ status' = st
      /\ refs' = IF repeated THEN FreshRefs ELSE r
      /\ told' = IF repeated THEN scrobble(known, "start", song) ELSE known
      /\ Account(Returned(0) \/ repeated, Submits(0), 0) /\ Lapsed(Submits(0))
      /\ UNCHANGED <<server, song, mounted, previousSong, own, orphan, late>>
  BY DEF Repeat, pending
<1>2. /\ TypeOK /\ clock \in Nat /\ MaxDelta \in Nat /\ 0 \in 0 .. Length /\ credit \in Nat /\ sent \in Nat
      /\ sent <= 1
  BY ScrobbleAssumption DEF HookInv, TypeOK, SentIsFlagged
<1>3. /\ credit' = IF Returned(0) \/ repeated THEN 0 ELSE credit
      /\ sent' = IF Returned(0) \/ repeated THEN 0 ELSE sent
      /\ ~Submits(0)
  BY <1>1, <1>2, NoSubmitAtZero DEF Account
<1>4. /\ r \in Refs /\ r.listened <= refs.listened + 0 /\ (mounted => r.sample \in {Null, 0})
  <2>1. Jump(0 - clock) = 0
    BY <1>2 DEF Jump
  <2> QED
    BY <1>1, <1>2, <2>1, ProgressRefs
<1>5. mounted => /\ checkScrobbleConditions(r.listened) => r.scrobbled
                 /\ r.sample = Null => r.listened = 0 /\ (sent = 0 \/ Returned(0))
                 /\ Returned(0) => r.listened = 0
                 /\ ~Returned(0) /\ refs.scrobbled => r.scrobbled
  BY <1>2, ProgressFlags
<1>6. told' \in Songs \cup {NoSong} /\ lapse' \in BOOLEAN
  <2>1. AfterProgress(0) \in Songs \cup {NoSong} /\ song \in Songs \cup {NoSong}
    BY <1>2, ReportTypes DEF TypeOK
  <2>2. known \in Songs \cup {NoSong}
    BY <1>2, <2>1, ReportTypes
  <2> HIDE DEF known
  <2> QED
    BY <1>1, <1>2, <2>1, <2>2, ScrobbleType DEF Lapsed, TypeOK
<1> HIDE DEF r, known
<1>7. refs' \in Refs /\ credit' \in Nat /\ sent' \in Nat /\ sent' <= 1
  BY <1>1, <1>2, <1>3, <1>4, FreshOK
<1>8. TypeOK'
  BY <1>1, <1>2, <1>6, <1>7 DEF TypeOK, Refs, Changes
<1>9. pos' - clock' = 0
  BY <1>1
<1>10. CASE repeated
  <2>1. refs' = FreshRefs /\ credit' = 0 /\ sent' = 0
    BY <1>1, <1>3, <1>10
  <2> QED
    BY <1>1, <1>8, <1>9, <2>1, FreshOK, ThresholdAssumption, InvFrom
<1>11. CASE ~repeated
  <2>1. refs' = r
    BY <1>1, <1>11
  <2>2. ASSUME mounted PROVE r.listened <= credit' /\ r.listened + 0 <= credit'
    <3>1. refs.listened \in Nat /\ refs.listened <= credit /\ r.listened \in Nat
      BY <1>4, <2>2 DEF HookInv, TypeOK, OnlyShortJumpsCount, Refs
    <3> QED
      BY <1>2, <1>3, <1>4, <1>5, <1>11, <2>2, <3>1
  <2>3. ASSUME mounted PROVE /\ r.sample = Null => r.listened = 0 /\ sent' = 0
                             /\ sent' = 1 => r.scrobbled
    <3>1. sent = 1 => refs.scrobbled
      BY <2>3 DEF HookInv, SentIsFlagged
    <3> QED
      BY <1>2, <1>3, <1>5, <1>11, <2>3, <3>1
  <2>4. HookInv'
    BY <1>1, <1>4, <1>5, <1>7, <1>8, <1>9, <2>1, <2>2, <2>3, InvFrom
  <2> QED
    BY <1>3, <2>4
<1> QED
  BY <1>10, <1>11

\* An element that loops unseen leaves refs and history alone.
LEMMA LoopUnseenInv == ASSUME HookInv, LoopUnseen PROVE HookInv' /\ UNCHANGED <<credit, sent>>
PROOF
<1>1. /\ pos' = 0
      /\ UNCHANGED <<server, song, status, clock, mounted, refs, previousSong, own, orphan, late, told, credit, sent, lapse>>
  BY DEF LoopUnseen, pending, history
<1>2. TypeOK'
  BY <1>1, ScrobbleAssumption DEF HookInv, TypeOK, Changes
<1>3. ASSUME mounted, 0 - clock \in 0 .. MaxDelta PROVE refs.listened + (0 - clock) <= credit
  <2>1. clock = 0 /\ refs.listened <= credit /\ refs.listened \in Nat
    BY <1>3, ScrobbleAssumption DEF HookInv, TypeOK, OnlyShortJumpsCount
  <2> QED
    BY <2>1
<1> QED
  BY <1>1, <1>2, <1>3
     DEF HookInv, OnlyShortJumpsCount, CountedIsSubmitted, SamplesCurrent, SentIsFlagged

\* forceSubmitScrobble sets the flag and no more.
LEMMA ForceSubmitInv == ASSUME HookInv, ForceSubmit PROVE HookInv' /\ UNCHANGED <<credit, sent>>
PROOF
<1>1. /\ mounted /\ refs' = [refs EXCEPT !.scrobbled = TRUE] /\ told' = scrobble(told, "submit", song)
      /\ lapse' = (lapse \/ (TRUE /\ server = "jellyfin"))
      /\ UNCHANGED <<server, song, status, pos, clock, mounted, previousSong, own, orphan, late, credit, sent>>
  BY DEF ForceSubmit, Lapsed, pending, history, playerVars
<1>2. refs \in Refs
  BY DEF HookInv, TypeOK, Refs
<1>3. refs' \in Refs /\ refs'.scrobbled /\ refs'.listened = refs.listened /\ refs'.sample = refs.sample
  BY <1>1, <1>2 DEF Refs
<1>4. told' \in Songs \cup {NoSong} /\ lapse' \in BOOLEAN
  BY <1>1, ScrobbleType DEF HookInv, TypeOK
<1>5. TypeOK'
  BY <1>1, <1>3, <1>4 DEF HookInv, TypeOK, Refs, Changes
<1>6. HookInv'
  BY <1>1, <1>3, <1>5
     DEF HookInv, OnlyShortJumpsCount, CountedIsSubmitted, SamplesCurrent, SentIsFlagged
<1> QED
  BY <1>1, <1>6

\* resetListenedState starts over with the store's position as its sample.
LEMMA ResetListenedInv ==
  ASSUME HookInv, ResetListened PROVE HookInv' /\ credit' \in 0 .. MaxDelta /\ sent' = 0
PROOF
<1>1. /\ refs' = [scrobbled |-> FALSE, listened |-> 0, sample |-> clock]
      /\ UNCHANGED <<server, song, status, pos, clock, mounted, previousSong, own, orphan, late, told, lapse>>
  BY DEF ResetListened, pending, playerVars
<1>2. clock \in 0 .. Length /\ clock \in Nat /\ pos \in Nat /\ MaxDelta \in Nat
  BY ScrobbleAssumption DEF HookInv, TypeOK
<1>3. /\ Jump(pos - clock) \in 0 .. MaxDelta
      /\ pos - clock \in 0 .. MaxDelta => Jump(pos - clock) = pos - clock
  BY <1>2 DEF Jump
<1>4. credit' = Jump(pos - clock) /\ sent' = 0
  <2>1. Account(TRUE, FALSE, Jump(pos - clock))
    BY DEF ResetListened
  <2>2. Jump(pos - clock) \in Nat
    BY <1>2, <1>3
  <2> QED
    BY <2>1, <2>2, NewPlayAccount
<1>5. refs' \in Refs /\ refs'.listened = 0 /\ refs'.sample = clock /\ clock # Null
  BY <1>1, <1>2 DEF Refs, Null
<1>6. TypeOK'
  BY <1>1, <1>2, <1>3, <1>4, <1>5 DEF HookInv, TypeOK, Refs, Changes
<1>7. pos' - clock' \in 0 .. MaxDelta => refs'.listened + (pos' - clock') <= credit'
  BY <1>1, <1>2, <1>3, <1>4, <1>5
<1>8. refs'.listened <= credit'
  BY <1>2, <1>3, <1>4, <1>5
<1> QED
  BY <1>1, <1>3, <1>4, <1>5, <1>6, <1>7, <1>8, ThresholdAssumption, InvFrom

\* Unmounting drops the hook's promises with the hook.
LEMMA UnmountInv == ASSUME HookInv, Unmount PROVE HookInv' /\ UNCHANGED <<credit, sent>>
PROOF
<1>1. /\ ~mounted' /\ mounted' \in BOOLEAN /\ orphan' = own /\ own' = {}
      /\ UNCHANGED <<server, song, status, pos, clock, refs, previousSong, late, told, credit, sent, lapse>>
  BY DEF Unmount, playerVars, history
<1>2. TypeOK'
  BY <1>1 DEF HookInv, TypeOK, Changes
<1>3. sent' <= 1
  BY <1>1 DEF HookInv, SentIsFlagged
<1> QED
  BY <1>1, <1>2, <1>3, InvFrom

\* A hook that mounts in the middle of a song starts a play-through of its own.
LEMMA MountInv == ASSUME HookInv, Mount PROVE HookInv' /\ credit' \in 0 .. MaxDelta /\ sent' = 0
PROOF
<1>1. /\ mounted' = TRUE /\ refs' = FreshRefs /\ previousSong' = NoSong /\ lapse' = TRUE
      /\ UNCHANGED <<server, song, status, pos, clock, own, orphan, late, told>>
  BY DEF Mount, pending, playerVars
<1>2. clock \in Nat /\ pos \in Nat /\ MaxDelta \in Nat
  BY ScrobbleAssumption DEF HookInv, TypeOK
<1>3. /\ Jump(pos - clock) \in 0 .. MaxDelta
      /\ pos - clock \in 0 .. MaxDelta => Jump(pos - clock) = pos - clock
  BY <1>2 DEF Jump
<1>4. credit' = Jump(pos - clock) /\ sent' = 0
  <2>1. Account(TRUE, FALSE, Jump(pos - clock))
    BY DEF Mount
  <2>2. Jump(pos - clock) \in Nat
    BY <1>2, <1>3
  <2> QED
    BY <2>1, <2>2, NewPlayAccount
<1>5. credit' \in Nat /\ sent' \in Nat /\ refs' \in Refs /\ mounted' \in BOOLEAN /\ lapse' \in BOOLEAN
  BY <1>1, <1>3, <1>4, FreshOK
<1>6. TypeOK'
  BY <1>1, <1>5 DEF HookInv, TypeOK, Refs, Changes
<1>7. refs'.listened = 0 /\ refs'.sample = Null
  BY <1>1, FreshOK
<1>8. refs'.listened <= credit' /\ (pos' - clock' \in 0 .. MaxDelta => refs'.listened + (pos' - clock') <= credit')
  BY <1>1, <1>2, <1>3, <1>4, <1>7
<1> QED
  BY <1>3, <1>4, <1>6, <1>7, <1>8, ThresholdAssumption, InvFrom

\* The invariant is preserved by every step of the hook and of the player.
LEMMA StepInv == HookInv /\ [Next]_vars => HookInv'
PROOF
<1> SUFFICES ASSUME HookInv, [Next]_vars PROVE HookInv'
  OBVIOUS
<1>1. CASE Hear
  BY <1>1, HearInv
<1>2. CASE Poll
  BY <1>2, PollInv
<1>16. CASE LatePoll
  BY <1>16, LatePollInv
<1>3. CASE Seeking
  BY <1>3, SeekInv DEF Seeking
<1>4. CASE Staying
  BY <1>4, StayInv DEF Staying
<1>5. CASE Halting
  BY <1>5, HaltInv DEF Halting
<1>6. CASE Switching
  BY <1>6, SetStatusInv DEF Switching
<1>7. CASE Changing
  BY <1>7, ChangeSongInv DEF Changing
<1>8. CASE TimerFires
  BY <1>8, FiresInv
<1>9. CASE Repeating
  BY <1>9, RepeatInv DEF Repeating
<1>10. CASE LoopUnseen
  BY <1>10, LoopUnseenInv
<1>11. CASE ForceSubmit
  BY <1>11, ForceSubmitInv
<1>12. CASE ResetListened
  BY <1>12, ResetListenedInv
<1>13. CASE Unmount
  BY <1>13, UnmountInv
<1>14. CASE Mount
  BY <1>14, MountInv
<1>15. CASE UNCHANGED vars
  <2>1. UNCHANGED <<server, song, status, pos, clock, mounted, refs, previousSong, own, orphan, late,
                    told, credit, sent, lapse>>
    BY <1>15 DEF vars, playerVars, pending, history
  <2> QED
    BY <2>1 DEF HookInv, TypeOK, OnlyShortJumpsCount, CountedIsSubmitted, SamplesCurrent,
                SentIsFlagged, Changes
<1> QED
  BY <1>1, <1>2, <1>3, <1>4, <1>5, <1>6, <1>7, <1>8, <1>9, <1>10, <1>11, <1>12, <1>13, <1>14,
     <1>15, <1>16 DEF Next

\* The inductive invariant of the hook, whatever the thresholds and the length of songs.
THEOREM HookInvariant == Spec => []HookInv
PROOF
<1>1. Init => HookInv
  BY InitInv
<1>2. HookInv /\ [Next]_vars => HookInv'
  BY StepInv
<1> QED
  BY <1>1, <1>2, PTL DEF Spec

\* The state of the hook, the player and the timeouts keeps its type.
THEOREM HookTypes == Spec => []TypeOK
PROOF
<1>1. HookInv => TypeOK
  BY DEF HookInv
<1> QED
  BY <1>1, HookInvariant, PTL

\* For any length, thresholds and order of events the time counted is at most what was
\* heard and the forward jumps of at most MaxDelta each, the next poll included; longer
\* jumps and jumps back never count (handleScrobbleFromProgress).
THEOREM NeverOvercounts == Spec => []OnlyShortJumpsCount
PROOF
<1>1. HookInv => OnlyShortJumpsCount
  BY DEF HookInv
<1> QED
  BY <1>1, HookInvariant, PTL

\* As soon as the listening time meets the conditions the flag is set: no poll leaves a
\* play that counts behind (checkScrobbleConditions).
THEOREM NothingLeftBehind == Spec => []CountedIsSubmitted
PROOF
<1>1. HookInv => CountedIsSubmitted
  BY DEF HookInv
<1> QED
  BY <1>1, HookInvariant, PTL

\* A step that writes the timestamp store is a step of the abstract report.
LEMMA ProgressReports ==
  ASSUME HookInv, NEW t \in 0 .. Length, NEW g \in 0 .. 2 * MaxDelta,
         Account(Returned(t), Submits(t), g),
         mounted => Progressed(t).listened <= credit'
  PROVE  Report!Next
PROOF
<1>1. /\ credit' = (IF Returned(t) THEN 0 ELSE credit) + g
      /\ sent' = IF Submits(t) THEN sent + 1 ELSE IF Returned(t) THEN 0 ELSE sent
  BY DEF Account
<1>2. credit \in Nat /\ sent \in Nat /\ MaxDelta \in Nat /\ g \in Nat
  BY ScrobbleAssumption DEF HookInv, TypeOK
<1>3. CASE Submits(t)
  <2>1. mounted
    BY <1>3 DEF Submits, Hears
  <2>2. ~Returned(t) /\ sent = 0 /\ checkScrobbleConditions(Progressed(t).listened)
    BY <1>3, <2>1, ProgressFlags
  <2>3. Progressed(t).listened \in Nat /\ Progressed(t).listened <= credit'
    BY <2>1, ProgressRefs DEF Refs
  <2>4. \E l \in 0 .. credit' : l \in {x \in Nat : checkScrobbleConditions(x)}
    <3>1. Progressed(t).listened \in 0 .. credit'
      BY <1>1, <1>2, <2>3
    <3> WITNESS Progressed(t).listened \in 0 .. credit'
    <3> QED
      BY <2>2, <2>3
  <2>5. sent' = 1 /\ credit' = credit + g
    BY <1>1, <1>3, <2>2
  <2>6. Report!Submit
    BY <2>2, <2>4, <2>5 DEF Report!Submit
  <2> QED
    BY <2>6 DEF Report!Next
<1>4. CASE ~Submits(t) /\ Returned(t)
  <2>1. Report!NewPlay
    BY <1>1, <1>2, <1>4 DEF Report!NewPlay
  <2> QED
    BY <2>1 DEF Report!Next
<1>5. CASE ~Submits(t) /\ ~Returned(t)
  <2>1. credit' = credit + g /\ sent' = sent /\ g \in 0 .. 2 * MaxDelta + 1
    BY <1>1, <1>2, <1>5
  <2>2. Report!Listen
    BY <2>1 DEF Report!Listen
  <2> QED
    BY <2>2 DEF Report!Next
<1> QED
  BY <1>3, <1>4, <1>5

\* A step that starts the play-through over is a step of the abstract report, and one that
\* leaves the history alone is a stutter.
LEMMA NewPlayReports ==
  ASSUME credit' \in 0 .. MaxDelta, sent' = 0 PROVE Report!Next
  BY ScrobbleAssumption DEF Report!Next, Report!NewPlay

\* Every step of the hook and of the player maps to a step of the abstract report.
LEMMA StepReports == HookInv /\ [Next]_vars => [Report!Next]_(Report!reportVars)
PROOF
<1> SUFFICES ASSUME HookInv, [Next]_vars
             PROVE  Report!Next \/ UNCHANGED <<credit, sent>>
  BY DEF Report!reportVars
<1>0. /\ MaxDelta \in Nat /\ credit \in Nat /\ 0 \in 0 .. Length /\ clock \in 0 .. Length
      /\ pos \in 0 .. Length
  BY ScrobbleAssumption DEF HookInv, TypeOK
<1>j. \A d \in Int : Jump(d) \in 0 .. MaxDelta
  BY <1>0 DEF Jump
<1>z. Jump(0 - clock) = 0
  BY <1>0 DEF Jump
<1>1. CASE Hear
  <2>1. credit' = credit + 1 /\ sent' = sent /\ 1 \in 0 .. 2 * MaxDelta + 1
    BY <1>0, <1>1 DEF Hear, Account
  <2> QED
    BY <2>1 DEF Report!Next, Report!Listen
<1>2. CASE Poll
  <2>1. /\ Account(Returned(pos), Submits(pos), 0) /\ 0 \in 0 .. 2 * MaxDelta
        /\ refs' = Progressed(pos)
    BY <1>0, <1>2 DEF Poll
  <2>2. mounted => Progressed(pos).listened <= credit'
    BY <1>2, <2>1, PollInv
  <2> QED
    BY <1>0, <2>1, <2>2, ProgressReports
<1>16. CASE LatePoll
  BY <1>16, LatePollInv, ProgressReports
<1>3. CASE Seeking
  <2>1. PICK t \in 0 .. Length : Seek(t)
    BY <1>3 DEF Seeking
  <2> DEFINE g == IF status = "playing" THEN Jump(t - clock) ELSE 0
  <2>2. g \in 0 .. 2 * MaxDelta
    BY <1>0, <1>j
  <2>3. Account(Returned(t), Submits(t), g)
    BY <2>1 DEF Seek
  <2> HIDE DEF g
  <2> QED
    BY <2>1, <2>2, <2>3, SeekInv, ProgressReports
<1>4. CASE Staying
  <2>1. PICK p \in {0, pos} : Stay(p)
    BY <1>4 DEF Staying
  <2>2. Jump(p) \in 0 .. 2 * MaxDelta /\ Jump(p) \in Nat /\ Jump(0 - clock) <= Jump(p)
    BY <1>0, <1>j, <1>z
  <2>3. Account(Returned(0), Submits(0), Jump(p))
    BY <2>1 DEF Stay
  <2>4. mounted => Progressed(0).listened <= credit'
    BY <1>0, <2>2, <2>3, ProgressAccount
  <2> QED
    BY <1>0, <2>2, <2>3, <2>4, ProgressReports
<1>5. CASE Halting
  <2>1. Account(Returned(0), Submits(0), 0) /\ 0 \in 0 .. 2 * MaxDelta /\ Jump(0 - clock) <= 0
    BY <1>0, <1>5, <1>z DEF Halting, Halt
  <2>2. mounted => Progressed(0).listened <= credit'
    BY <1>0, <2>1, ProgressAccount
  <2> QED
    BY <1>0, <2>1, <2>2, ProgressReports
<1>6. CASE Switching
  BY <1>6 DEF Switching, SetStatus, history
<1>7. CASE Changing
  <2>1. credit' = 0 /\ sent' = 0
    BY <1>7, ChangeSongInv DEF Changing
  <2> QED
    BY <1>0, <2>1, NewPlayReports
<1>8. CASE TimerFires
  BY <1>8, FiresInv
<1>9. CASE Repeating
  <2>1. PICK st \in {"playing", "paused"} : Repeat(st)
    BY <1>9 DEF Repeating
  <2>2. \/ credit' = 0 /\ sent' = 0
        \/ credit' = credit /\ sent' = sent
    BY <2>1, RepeatInv
  <2> QED
    BY <1>0, <2>2, NewPlayReports
<1>10. CASE LoopUnseen
  BY <1>10, LoopUnseenInv
<1>11. CASE ForceSubmit
  BY <1>11, ForceSubmitInv
<1>12. CASE ResetListened
  BY <1>12, ResetListenedInv, NewPlayReports
<1>13. CASE Unmount
  BY <1>13, UnmountInv
<1>14. CASE Mount
  BY <1>14, MountInv, NewPlayReports
<1>15. CASE UNCHANGED vars
  BY <1>15 DEF vars, history
<1> QED
  BY <1>1, <1>2, <1>3, <1>4, <1>5, <1>6, <1>7, <1>8, <1>9, <1>10, <1>11, <1>12, <1>13, <1>14,
     <1>15, <1>16 DEF Next

\* The hook implements the abstract report: a play-through is submitted at most once, and
\* only on listening time that makes it count and was heard, up to short jumps.
THEOREM ImplementsReport == Spec => SubmitsPlays
PROOF
<1>1. Init => Report!Init
  BY DEF Init, Report!Init
<1>2. HookInv /\ [Next]_vars => [Report!Next]_(Report!reportVars)
  BY StepReports
<1> QED
  BY <1>1, <1>2, HookInvariant, PTL DEF Spec, SubmitsPlays, Report!Spec

--------------------------------------------------------------------------------
(* What the server shows.  While a mounted hook has heard of the current song  *)
(* and nothing contradicted it since, its pending timeout is about that song,  *)
(* no timeout of an unmounted hook outlives it, and with no timeout pending    *)
(* the server shows the song as soon as it plays.                              *)
KnowsInv ==
    mounted /\ hasPlaybackReport /\ ~lapse =>
        /\ \A due \in own : due.cur = song
        /\ own = {} => /\ orphan = {}
                       /\ song # NoSong /\ status = "playing" => told = song

\* A server with playback reports shows the song of every report that is neither a
\* submission nor a stop, keeps it when another song stops, and is told of a submission
\* only if it is Jellyfin (subsonicScrobble and jellyfinScrobble).
LEMMA ReportFacts ==
  ASSUME TypeOK, NEW known, NEW s
  PROVE  /\ \A e \in {"start", "pause", "unpause"} : scrobble(known, e, s) = s
         /\ \A p : hasPlaybackReport /\ p # s => scrobble(s, "stop", p) = s
         /\ server # "jellyfin" => scrobble(known, "submit", s) = known
  BY ScrobbleAssumption
     DEF TypeOK, scrobble, subsonicScrobble, jellyfinScrobble, Stopped, hasPlaybackReport

\* A progress event changes what the server shows only through a submission to Jellyfin,
\* which counts as a lapse.
LEMMA ProgressKeepsTold ==
  ASSUME TypeOK, NEW t, Lapsed(Submits(t)), ~lapse'
  PROVE  ~lapse /\ AfterProgress(t) = told
  BY ReportFacts DEF Lapsed, AfterProgress

\* A mounted hook reports every change of status of a current song, and the server then
\* shows that song.
LEMMA StatusTells ==
  ASSUME TypeOK, NEW known, NEW s, NEW old, NEW new
  PROVE  /\ mounted /\ hasPlaybackReport /\ s # NoSong /\ old # new
              => handleScrobbleFromStatus(known, s, old, new) = s
         /\ old = new => handleScrobbleFromStatus(known, s, old, new) = known
  BY ReportFacts DEF handleScrobbleFromStatus

\* The timeout of a song change of the hook starts its song and stops another one, and
\* leaves a lapse otherwise; that of an unmounted hook leaves the other one pending.
LEMMA FiresKnows == ASSUME TypeOK, KnowsInv, TimerFires PROVE KnowsInv'
PROOF
<1>1. PICK due \in (IF orphan # {} THEN orphan ELSE own) : Fires(due)
  BY DEF TimerFires
<1>2. /\ own' = (IF orphan = {} THEN {} ELSE own) /\ orphan' = {}
      /\ lapse' = (lapse \/ due.prev = due.cur)
      /\ UNCHANGED <<server, song, status, mounted>>
  BY <1>1 DEF Fires, playerVars
<1>3. CASE orphan # {}
  BY <1>2, <1>3 DEF KnowsInv, hasPlaybackReport
<1>4. CASE orphan = {}
  <2> SUFFICES ASSUME mounted, hasPlaybackReport, ~lapse', song # NoSong, status = "playing"
               PROVE  told' = song
    BY <1>2, <1>4 DEF KnowsInv, hasPlaybackReport
  <2>1. due.cur = song /\ due.prev # song
    BY <1>2, <1>4 DEF KnowsInv
  <2>2. told' = IF due.prev # NoSong THEN scrobble(song, "stop", due.prev) ELSE song
    BY <1>1, <2>1, ReportFacts DEF Fires
  <2> QED
    BY <2>1, <2>2, ReportFacts
<1> QED
  BY <1>3, <1>4

\* Every step keeps it.
LEMMA StepKnows == TypeOK /\ KnowsInv /\ [Next]_vars => KnowsInv'
PROOF
<1> SUFFICES ASSUME TypeOK, KnowsInv, [Next]_vars PROVE KnowsInv'
  OBVIOUS
<1> USE DEF pending, playerVars, history
<1>1. CASE Hear
  BY <1>1 DEF Hear, KnowsInv, hasPlaybackReport
<1>2. CASE Poll
  BY <1>2, ProgressKeepsTold DEF Poll, KnowsInv, hasPlaybackReport
<1>16. CASE LatePoll
  BY <1>16, ProgressKeepsTold DEF LatePoll, KnowsInv, hasPlaybackReport
<1>3. CASE Seeking
  <2>1. PICK t \in 0 .. Length : Seek(t)
    BY <1>3 DEF Seeking
  <2>2. /\ told' \in {AfterProgress(t), scrobble(AfterProgress(t), "unpause", song)}
        /\ Lapsed(Submits(t)) /\ UNCHANGED <<server, song, status, mounted, own, orphan>>
    BY <2>1 DEF Seek
  <2> QED
    BY <2>2, ProgressKeepsTold, ReportFacts DEF KnowsInv, hasPlaybackReport
<1>4. CASE Staying
  BY <1>4, ProgressKeepsTold DEF Staying, Stay, KnowsInv, hasPlaybackReport
<1>5. CASE Halting
  BY <1>5, ProgressKeepsTold DEF Halting, Halt, KnowsInv, hasPlaybackReport
<1>6. CASE Switching
  BY <1>6, StatusTells DEF Switching, SetStatus, KnowsInv, hasPlaybackReport
<1>7. CASE Changing
  <2>1. PICK s \in Songs \cup {NoSong}, t \in {0, clock}, st \in {"playing", "paused"} :
          ChangeSong(s, t, st)
    BY <1>7 DEF Changing
  <2>2. /\ song' = s /\ mounted' = mounted /\ lapse' = ~mounted
        /\ mounted => own' = {[cur |-> s, prev |-> previousSong]}
    BY <2>1 DEF ChangeSong
  <2>3. mounted => own' # {} /\ \A due \in own' : due.cur = song'
    <3> DEFINE change == [cur |-> s, prev |-> previousSong]
    <3>1. change.cur = s
      OBVIOUS
    <3> HIDE DEF change
    <3>2. mounted => own' = {change}
      BY <2>2 DEF change
    <3> QED
      BY <2>2, <3>1, <3>2
  <2>4. mounted' /\ ~lapse' => mounted
    BY <2>2
  <2> QED
    BY <2>3, <2>4 DEF KnowsInv
<1>8. CASE TimerFires
  BY <1>8, FiresKnows
<1>9. CASE Repeating
  <2>1. PICK st \in {"playing", "paused"} : Repeat(st)
    BY <1>9 DEF Repeating
  <2> QED
    BY <2>1, ProgressKeepsTold, ReportFacts DEF Repeat, KnowsInv, hasPlaybackReport
<1>10. CASE LoopUnseen
  BY <1>10 DEF LoopUnseen, KnowsInv, hasPlaybackReport
<1>11. CASE ForceSubmit
  BY <1>11, ReportFacts DEF ForceSubmit, Lapsed, KnowsInv, hasPlaybackReport
<1>12. CASE ResetListened
  BY <1>12 DEF ResetListened, KnowsInv, hasPlaybackReport
<1>13. CASE Unmount
  BY <1>13 DEF Unmount, KnowsInv
<1>14. CASE Mount
  BY <1>14 DEF Mount, KnowsInv
<1>15. CASE UNCHANGED vars
  BY <1>15 DEF vars, KnowsInv, hasPlaybackReport
<1> QED
  BY <1>1, <1>2, <1>3, <1>4, <1>5, <1>6, <1>7, <1>8, <1>9, <1>10, <1>11, <1>12, <1>13, <1>14,
     <1>15, <1>16 DEF Next

\* Once the timeout of the song change is over, a server that takes playback reports
\* shows the song that is playing, whatever seeks, pauses, repeats, submissions and
\* remounts of the hook came between (handleScrobbleFromSongChange).
THEOREM ServerIsTold == Spec => []ServerKnows
PROOF
<1>1. Init => KnowsInv
  BY DEF Init, KnowsInv
<1>2. TypeOK /\ KnowsInv /\ [Next]_vars => KnowsInv'
  BY StepKnows
<1>3. KnowsInv => ServerKnows
  BY DEF KnowsInv, ServerKnows
<1> QED
  BY <1>1, <1>2, <1>3, HookTypes, PTL DEF Spec
=============================================================================
