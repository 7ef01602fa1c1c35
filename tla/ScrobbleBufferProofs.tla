------------------------ MODULE ScrobbleBufferProofs ------------------------
EXTENDS ScrobbleBuffer, WellFoundedInduction, FiniteSetTheorems, TLAPS

(* A runner has an entry in hand from the moment it read its row.            *)
Holds(r) == run[r].pc \in {"load", "send", "dequeue"}
Inserted == Range(enqueued)

-----------------------------------------------------------------------------
\* Every set of natural numbers that is not empty has a least element.
LEMMA LeastNatural == ASSUME NEW T \in SUBSET Nat, T # {} PROVE \E x \in T : \A y \in T : x <= y
<1> DEFINE Less == {p \in Nat \X Nat : p[1] < p[2]}
<1>1. IsWellFoundedOn(Less, Nat)
  BY NatLessThanWellFounded DEF OpToRel
<1>2. PICK x \in T : \A y \in T : <<y, x>> \notin Less
  <2> HIDE DEF Less
  <2> QED
    BY <1>1, WFMin
<1>3. \A y \in T : y \in Nat /\ x \in Nat /\ ~(y < x)
  BY <1>2
<1> QED
  BY <1>3

\* A row is appended behind the others (Enqueue inserts with the next rowid).
LEMMA AppendInserts ==
    ASSUME NEW s \in Seq(Entries), NEW e \in Entries
    PROVE  /\ Append(s, e) \in Seq(Entries) /\ Len(Append(s, e)) = Len(s) + 1
           /\ DOMAIN s = 1..Len(s) /\ DOMAIN Append(s, e) = 1..(Len(s) + 1)
           /\ \A i \in DOMAIN s : Append(s, e)[i] = s[i]
           /\ Append(s, e)[Len(s) + 1] = e
           /\ Range(Append(s, e)) = Range(s) \cup {e}
<1>1. /\ Append(s, e) \in Seq(Entries) /\ Len(Append(s, e)) = Len(s) + 1 /\ Len(s) \in Nat
      /\ DOMAIN s = 1..Len(s) /\ DOMAIN Append(s, e) = 1..(Len(s) + 1)
      /\ \A i \in DOMAIN s : Append(s, e)[i] = s[i]
      /\ Append(s, e)[Len(s) + 1] = e
  OBVIOUS
<1>2. Range(Append(s, e)) = Range(s) \cup {e}
  <2>1. \A x : x \in Range(Append(s, e)) <=> \E i \in 1..(Len(s) + 1) : Append(s, e)[i] = x
    BY <1>1 DEF Range
  <2>2. \A x : x \in Range(s) <=> \E i \in 1..Len(s) : s[i] = x
    BY <1>1 DEF Range
  <2>3. \A i \in 1..(Len(s) + 1) : i \in 1..Len(s) \/ i = Len(s) + 1
    BY <1>1
  <2>4. 1..Len(s) \subseteq 1..(Len(s) + 1) /\ Len(s) + 1 \in 1..(Len(s) + 1)
    BY <1>1
  <2> HIDE DEF Range
  <2> QED
    BY <1>1, <2>1, <2>2, <2>3, <2>4
<1> QED
  BY <1>1, <1>2

\* One query finds a row whenever there is one: the earliest play of the rows, and of
\* those played at the same time the one inserted first (Next).
LEMMA EarliestChosen ==
    ASSUME NEW rows, rows # {}, rows \subseteq Entries, rows \subseteq Inserted,
           enqueued \in Seq(Entries)
    PROVE  /\ Earliest(rows) \in rows
           /\ \A f \in rows \ {Earliest(rows)} :
                \/ PlayTime[Earliest(rows)] < PlayTime[f]
                \/ PlayTime[Earliest(rows)] = PlayTime[f] /\ InsertedBefore(Earliest(rows), f)
<1> DEFINE times == {PlayTime[e] : e \in rows}
<1>0. times # {} /\ times \in SUBSET Nat
  BY PlayTimeAssumption
<1>1. PICK first \in times : \A t \in times : first <= t
  <2> HIDE DEF times
  <2> QED
    BY <1>0, LeastNatural
<1> DEFINE places == {i \in DOMAIN enqueued : enqueued[i] \in rows /\ PlayTime[enqueued[i]] = first}
<1>2. places # {} /\ places \in SUBSET Nat
  BY DEF Inserted, Range
<1>3. PICK i \in places : \A j \in places : i <= j
  BY <1>2, LeastNatural
<1> DEFINE e == enqueued[i]
<1>4. e \in rows /\ PlayTime[e] = first /\ i \in DOMAIN enqueued
  OBVIOUS
<1>5. ASSUME NEW f \in rows \ {e}
      PROVE  PlayTime[e] < PlayTime[f] \/ (PlayTime[e] = PlayTime[f] /\ InsertedBefore(e, f))
  <2>1. PlayTime[f] \in Nat /\ first \in Nat /\ first <= PlayTime[f]
    BY <1>1, <1>4, PlayTimeAssumption
  <2>2. PICK j \in DOMAIN enqueued : enqueued[j] = f
    BY DEF Inserted, Range
  <2>3. CASE PlayTime[f] = first
    <3>1. j \in places /\ j # i /\ i \in Nat /\ j \in Nat
      BY <1>2, <1>5, <2>2, <2>3
    <3>2. i < j
      BY <1>3, <3>1
    <3> QED
      BY <1>4, <2>2, <2>3, <3>2 DEF InsertedBefore
  <2> QED
    BY <1>4, <2>1, <2>3
<1> HIDE DEF e
<1> QED
  BY <1>4, <1>5 DEF Earliest
-----------------------------------------------------------------------------
(* Types                                                                     *)

\* A step of a runner replaces its own record.
LEMMA RunnerTypes ==
    ASSUME TypeOK, buf \subseteq Inserted, NEW r \in Runners, runSteps(r)
    PROVE  /\ run' \in [Runners -> RunStates]
           /\ \A q \in Runners \ {r} : run'[q] = run[q]
           /\ run'[r].pc \in {"load", "send", "dequeue"} => run'[r].entry \in Entries
<1> USE DEF TypeOK
<1>1. run[r] \in RunStates
  OBVIOUS
<1>2. ASSUME NEW c \in RunStates, Becomes(r, c),
             c.pc \in {"load", "send", "dequeue"} => c.entry \in Entries
      PROVE  /\ run' \in [Runners -> RunStates]
             /\ \A q \in Runners \ {r} : run'[q] = run[q]
             /\ run'[r].pc \in {"load", "send", "dequeue"} => run'[r].entry \in Entries
  BY <1>2 DEF Becomes
<1>u. ASSUME GiveUp(r)
      PROVE  \E c \in RunStates : Becomes(r, c) /\ (c.pc \in {"load", "send", "dequeue"} => c.entry \in Entries)
  <2> DEFINE c == [run[r] EXCEPT !.pc = "user", !.ok = FALSE, !.entry = NoEntry]
  <2>1. c \in RunStates /\ c.pc = "user"
    BY <1>1 DEF RunStates
  <2> QED
    BY <1>u, <2>1 DEF GiveUp
<1>g. ASSUME NEW l \in {"users", "user", "dequeue", "wait", "done"}, Goto(r, l),
             l = "dequeue" => run[r].pc = "send"
      PROVE  \E c \in RunStates : Becomes(r, c) /\ (c.pc \in {"load", "send", "dequeue"} => c.entry \in Entries)
  <2> DEFINE c == [run[r] EXCEPT !.pc = l]
  <2>1. c \in RunStates /\ c.pc = l /\ c.entry = run[r].entry
    BY <1>1 DEF RunStates
  <2> QED
    BY <1>g, <2>1 DEF Goto
<1>3. CASE UserIDs(r)
  <2> DEFINE c == [run[r] EXCEPT !.pc = "user", !.ok = TRUE, !.users = {UserOf[e] : e \in buf}]
             d == [run[r] EXCEPT !.pc = "user", !.ok = FALSE, !.users = {}]
  <2>1. c \in RunStates /\ c.pc = "user" /\ d \in RunStates /\ d.pc = "user"
    BY <1>1 DEF RunStates, Users
  <2> HIDE DEF c, d
  <2>2. Becomes(r, c) \/ Becomes(r, d)
    BY <1>3 DEF UserIDs, c, d
  <2> QED
    BY <1>2, <2>1, <2>2
<1>4. CASE NextUser(r)
  <2>1. PICK u \in run[r].users : Becomes(r, [run[r] EXCEPT !.pc = "next", !.user = u, !.users = @ \ {u}])
    BY <1>4 DEF NextUser
  <2> DEFINE c == [run[r] EXCEPT !.pc = "next", !.user = u, !.users = @ \ {u}]
  <2>2. c \in RunStates /\ c.pc = "next"
    BY <1>1 DEF RunStates
  <2> QED
    BY <1>2, <2>1, <2>2
<1>5. CASE Next(r)
  <2> DEFINE rows == RowsOf(run[r].user)
             c == [run[r] EXCEPT !.pc = "load", !.entry = Earliest(rows)]
  <2>1. CASE rows # {} /\ Becomes(r, c)
    <3>1. Earliest(rows) \in Entries
      BY <2>1, EarliestChosen DEF RowsOf
    <3>2. c \in RunStates /\ c.entry \in Entries
      BY <1>1, <3>1 DEF RunStates
    <3> QED
      BY <1>2, <2>1, <3>2
  <2>2. CASE Goto(r, "user")
    BY <1>2, <1>g, <2>2
  <2> QED
    BY <1>2, <1>5, <1>u, <2>1, <2>2 DEF Next
<1>6. CASE Load(r)
  <2> DEFINE c == [run[r] EXCEPT !.pc = "send", !.inst = loads]
  <2>1. loads \in Nat
    BY BufferBoundsAssumption
  <2>2. c \in RunStates /\ c.entry = run[r].entry
    BY <1>1, <2>1 DEF RunStates
  <2> HIDE DEF c
  <2>3. (Becomes(r, c) /\ run[r].pc = "load") \/ GiveUp(r)
    BY <1>6 DEF Load, c
  <2> QED
    BY <1>2, <1>u, <2>2, <2>3
<1>7. CASE Accept(r) \/ Reject(r) \/ Broken(r) \/ RetryLater(r)
  <2>1. (run[r].pc = "send" /\ Goto(r, "dequeue")) \/ GiveUp(r)
    BY <1>7 DEF Accept, Reject, Broken, RetryLater, AfterRetryLater
  <2> QED
    BY <1>2, <1>g, <1>u, <2>1
<1>8. CASE Dequeue(r)
  <2> DEFINE c == [run[r] EXCEPT !.pc = "next", !.entry = NoEntry]
  <2>1. c \in RunStates /\ c.pc = "next"
    BY <1>1 DEF RunStates
  <2> HIDE DEF c
  <2>2. Becomes(r, c) \/ GiveUp(r)
    BY <1>8 DEF Dequeue, c
  <2> QED
    BY <1>2, <1>u, <2>1, <2>2
<1>9. CASE EndOfPass(r) \/ Wake(r) \/ Stopped(r)
  <2>1. Goto(r, "wait") \/ Goto(r, "users") \/ Goto(r, "done")
    BY <1>9 DEF EndOfPass, Wake, Stopped
  <2> QED
    BY <1>2, <1>g, <2>1
<1> QED
  BY <1>3, <1>4, <1>5, <1>6, <1>7, <1>8, <1>9 DEF runSteps
-----------------------------------------------------------------------------
(* What a step of a runner does, as far as the table and the service see it. *)

\* It reads the first row of a user.
Takes(r) ==
    /\ r \notin stopped /\ ~Holds(r) /\ run'[r].pc = "load"
    /\ RowsOf(run[r].user) # {} /\ run'[r].entry = Earliest(RowsOf(run[r].user))
    /\ UNCHANGED <<buf, accepted, rejected, errs>>

\* It keeps the entry it has.
Keeps(r) ==
    /\ run[r].pc = "load" /\ run'[r].pc = "send" /\ run'[r].entry = run[r].entry
    /\ UNCHANGED <<buf, accepted, rejected, errs>>

\* It has an answer of the service, or the call broke.
Answered(r) ==
    /\ run[r].pc = "send" /\ run'[r].pc = "dequeue" /\ run'[r].entry = run[r].entry
    /\ \/ accepted' = [accepted EXCEPT ![run[r].entry] = @ + 1] /\ UNCHANGED rejected
       \/ rejected' = rejected \cup {run[r].entry} /\ UNCHANGED accepted
       \/ (r \in stopped \/ ~Builtin) /\ UNCHANGED <<accepted, rejected>>
    /\ UNCHANGED <<buf, errs>>

\* It deletes the row.
Deletes(r) ==
    /\ run[r].pc = "dequeue" /\ r \notin stopped /\ ~Holds(r)'
    /\ buf' = buf \ {run[r].entry}
    /\ UNCHANGED <<accepted, rejected, errs>>

\* It lets go of what it had; a row it was to delete stays only if the statement failed.
LetsGo(r) ==
    /\ ~Holds(r)' /\ UNCHANGED <<buf, accepted, rejected>>
    /\ errs' \in {errs, errs + 1}
    /\ run[r].pc = "dequeue" => r \in stopped \/ errs' = errs + 1

RunnerMoves(r) == Takes(r) \/ Keeps(r) \/ Answered(r) \/ Deletes(r) \/ LetsGo(r)

\* Every step of the goroutine run is one of these, by a goroutine that has begun and not
\* ended, and touches neither the submissions nor the plugin.
LEMMA RunnerEffect ==
    ASSUME TypeOK, NEW r \in Runners, runSteps(r)
    PROVE  /\ RunnerMoves(r)
           /\ run[r].pc \notin {"off", "done"} /\ run'[r].pc # "off"
           /\ UNCHANGED <<enqueued, target, loaded, loads, active, stopped, crashes>>
           /\ busy' \in {busy, busy + 1} /\ errs' \in {errs, errs + 1}
           /\ wakeSignal' \in [Runners -> BOOLEAN] /\ timer' \in [Runners -> BOOLEAN]
<1> USE DEF Runner, pluginVars, submitVars, bounds, DBError, StatementFails, Cancelled
<1>0. run[r] \in RunStates /\ run \in [Runners -> RunStates]
  BY DEF TypeOK
<1>b. ASSUME NEW c, Becomes(r, c) PROVE run'[r] = c
  BY <1>0, <1>b DEF Becomes
<1>u. ASSUME GiveUp(r) PROVE run'[r].pc = "user"
  <2> DEFINE c == [run[r] EXCEPT !.pc = "user", !.ok = FALSE, !.entry = NoEntry]
  <2>1. c.pc = "user"
    BY <1>0 DEF RunStates
  <2> HIDE DEF c
  <2> QED
    BY <1>b, <1>u, <2>1 DEF GiveUp, c
<1>g. ASSUME NEW l, Goto(r, l) PROVE run'[r].pc = l /\ run'[r].entry = run[r].entry
  <2> DEFINE c == [run[r] EXCEPT !.pc = l]
  <2>1. c.pc = l /\ c.entry = run[r].entry
    BY <1>0 DEF RunStates
  <2> HIDE DEF c
  <2> QED
    BY <1>b, <1>g, <2>1 DEF Goto, c
<1>t. timer \in [Runners -> BOOLEAN] /\ wakeSignal \in [Runners -> BOOLEAN]
  BY DEF TypeOK
<1>3. CASE UserIDs(r)
  <2> DEFINE c == [run[r] EXCEPT !.pc = "user", !.ok = TRUE, !.users = {UserOf[e] : e \in buf}]
             d == [run[r] EXCEPT !.pc = "user", !.ok = FALSE, !.users = {}]
  <2>1. c.pc = "user" /\ d.pc = "user"
    BY <1>0 DEF RunStates
  <2> HIDE DEF c, d
  <2>2. run'[r] = c \/ run'[r] = d
    BY <1>3, <1>b DEF UserIDs, c, d
  <2>3. run'[r].pc = "user" /\ LetsGo(r)
    BY <1>3, <2>1, <2>2 DEF UserIDs, LetsGo, Holds
  <2> QED
    BY <1>3, <1>t, <2>3 DEF UserIDs, RunnerMoves
<1>4. CASE NextUser(r)
  <2>1. PICK u \in run[r].users : Becomes(r, [run[r] EXCEPT !.pc = "next", !.user = u, !.users = @ \ {u}])
    BY <1>4 DEF NextUser
  <2> DEFINE c == [run[r] EXCEPT !.pc = "next", !.user = u, !.users = @ \ {u}]
  <2>2. c.pc = "next" /\ run'[r] = c
    BY <1>0, <1>b, <2>1 DEF RunStates
  <2>3. run'[r].pc = "next" /\ LetsGo(r)
    BY <1>4, <2>2 DEF NextUser, LetsGo, Holds
  <2> QED
    BY <1>4, <1>t, <2>3 DEF NextUser, RunnerMoves
<1>5. CASE Next(r)
  <2> DEFINE rows == RowsOf(run[r].user)
             c == [run[r] EXCEPT !.pc = "load", !.entry = Earliest(rows)]
  <2>1. c.pc = "load" /\ c.entry = Earliest(rows)
    BY <1>0 DEF RunStates
  <2>2. CASE ~Cancelled(r) /\ UNCHANGED bounds /\ rows # {} /\ Becomes(r, c)
    <3>1. run'[r] = c
      BY <1>b, <2>2
    <3>2. run'[r].pc = "load" /\ run'[r].entry = Earliest(rows)
      BY <2>1, <3>1
    <3>3. Takes(r)
      BY <1>5, <2>2, <3>2 DEF Takes, Next, Holds
    <3> QED
      BY <1>5, <1>t, <2>2, <3>2, <3>3 DEF Next, RunnerMoves
  <2>3. CASE run'[r].pc = "user"
    BY <1>5, <1>t, <2>3 DEF Next, LetsGo, Holds, RunnerMoves
  <2> HIDE DEF rows, c
  <2>4. \/ ~Cancelled(r) /\ UNCHANGED bounds /\ rows # {} /\ Becomes(r, c)
        \/ Goto(r, "user") \/ GiveUp(r)
    BY <1>5 DEF Next, rows, c
  <2> QED
    BY <1>g, <1>u, <2>2, <2>3, <2>4
<1>6. CASE Load(r)
  <2> DEFINE c == [run[r] EXCEPT !.pc = "send", !.inst = loads]
  <2>1. c.pc = "send" /\ c.entry = run[r].entry
    BY <1>0 DEF RunStates
  <2> HIDE DEF c
  <2>2. run'[r] = c \/ run'[r].pc = "user"
    BY <1>6, <1>b, <1>u DEF Load, c
  <2>3. Keeps(r) \/ LetsGo(r)
    BY <1>6, <2>1, <2>2 DEF Load, Keeps, LetsGo, Holds
  <2> QED
    BY <1>6, <1>t, <2>1, <2>2, <2>3 DEF Load, RunnerMoves
<1>7. CASE Accept(r) \/ Reject(r) \/ Broken(r)
  <2>1. Goto(r, "dequeue")
    BY <1>7 DEF Accept, Reject, Broken
  <2>2. run'[r].pc = "dequeue" /\ run'[r].entry = run[r].entry
    BY <1>g, <2>1
  <2>3. Answered(r)
    BY <1>7, <2>2 DEF Accept, Reject, Broken, Answered
  <2> QED
    BY <1>7, <1>t, <2>2, <2>3 DEF Accept, Reject, Broken, RunnerMoves
<1>8. CASE RetryLater(r)
  <2>1. run'[r].pc = "user"
    BY <1>8, <1>u DEF RetryLater, AfterRetryLater
  <2> QED
    BY <1>8, <1>t, <2>1 DEF RetryLater, LetsGo, Holds, RunnerMoves
<1>9. CASE Dequeue(r)
  <2> DEFINE c == [run[r] EXCEPT !.pc = "next", !.entry = NoEntry]
  <2>1. c.pc = "next"
    BY <1>0 DEF RunStates
  <2> HIDE DEF c
  <2>2. \/ r \notin stopped /\ UNCHANGED bounds /\ buf' = buf \ {run[r].entry} /\ run'[r] = c
        \/ (r \in stopped \/ errs' = errs + 1) /\ run'[r].pc = "user" /\ UNCHANGED buf
    BY <1>9, <1>b, <1>u DEF Dequeue, RowsAfterDequeue, c
  <2>3. Deletes(r) \/ LetsGo(r)
    BY <1>9, <2>1, <2>2 DEF Dequeue, Deletes, LetsGo, Holds
  <2> QED
    BY <1>9, <1>t, <2>1, <2>2, <2>3 DEF Dequeue, RunnerMoves
<1>10. CASE EndOfPass(r) \/ Wake(r) \/ Stopped(r)
  <2>1. run'[r].pc \in {"wait", "users", "done"}
    BY <1>10, <1>g DEF EndOfPass, Wake, Stopped
  <2>2. wakeSignal' \in [Runners -> BOOLEAN] /\ timer' \in [Runners -> BOOLEAN]
    BY <1>10, <1>t DEF EndOfPass, RetryTimer, Wake, Stopped
  <2> QED
    BY <1>10, <2>1, <2>2 DEF EndOfPass, Wake, Stopped, LetsGo, Holds, RunnerMoves
<1> QED
  BY <1>3, <1>4, <1>5, <1>6, <1>7, <1>8, <1>9, <1>10 DEF runSteps

\* play_tracker starts a scrobbler, stops the one it has, or finds nothing to do.
LEMMA RefreshEffect ==
    ASSUME TypeOK, refreshPluginScrobblers
    PROVE  /\ run' \in [Runners -> RunStates]
           /\ \/ /\ active = NoRunner /\ stopped' = stopped /\ ~Builtin
                 /\ \E r \in Runners : /\ run[r].pc = "off" /\ active' = r /\ run'[r].pc = "users"
                                       /\ \A q \in Runners \ {r} : run'[q] = run[q]
              \/ /\ active # NoRunner /\ active' = NoRunner /\ stopped' = stopped \cup {active}
                 /\ run' = run /\ ~Builtin
              \/ UNCHANGED <<active, stopped, run>>
<1>0. run \in [Runners -> RunStates]
  BY DEF TypeOK
<1>1. ASSUME NEW r \in Runners, Fresh(r), Started(r)
      PROVE  /\ run' \in [Runners -> RunStates] /\ run[r].pc = "off" /\ run'[r].pc = "users"
             /\ \A q \in Runners \ {r} : run'[q] = run[q]
  <2> DEFINE c == [run[r] EXCEPT !.pc = "users"]
  <2>1. c \in RunStates /\ c.pc = "users"
    BY <1>0 DEF RunStates
  <2> HIDE DEF c
  <2>2. run' = [run EXCEPT ![r] = c]
    BY <1>1 DEF Started, Becomes, c
  <2> QED
    BY <1>0, <1>1, <2>1, <2>2 DEF Fresh
<1>2. CASE active = NoRunner /\ ~Builtin /\ stopped' = stopped
           /\ \E r \in Runners : Fresh(r) /\ active' = r /\ Started(r)
  BY <1>1, <1>2
<1>3. CASE active # NoRunner /\ ~Builtin /\ RemoveScrobbler
  BY <1>0, <1>3 DEF RemoveScrobbler
<1>4. CASE UNCHANGED <<active, stopped, run>>
  BY <1>0, <1>4
<1> QED
  BY <1>2, <1>3, <1>4 DEF refreshPluginScrobblers

\* A crash ends every goroutine; a built-in scrobbler is started anew.
LEMMA CrashEffect ==
    ASSUME TypeOK, Crash
    PROVE  /\ run' \in [Runners -> RunStates] /\ active' \in Runners \cup {NoRunner}
           /\ crashes' = crashes + 1 /\ target' \in [Entries -> {"new", "done"}]
           /\ \A e \in Entries : target'[e] = "new" <=> target[e] = "new"
           /\ wakeSignal' \in [Runners -> BOOLEAN] /\ timer' \in [Runners -> BOOLEAN]
           /\ \A r \in Runners : /\ run'[r].pc \in {"off", "users", "done"}
                                 /\ run'[r].pc = "users" => r = active'
                                 /\ run'[r].pc = "off" => run[r].pc = "off" /\ r # active'
                                 /\ r = active' => run[r].pc = "off"
<1> DEFINE gone == [r \in Runners |-> IF Fresh(r) THEN run[r] ELSE [Idle EXCEPT !.pc = "done"]]
           over == [Idle EXCEPT !.pc = "done"]
<1>1. over \in RunStates /\ over.pc = "done"
  BY DEF Idle, RunStates
<1> HIDE DEF over
<1>2. /\ gone \in [Runners -> RunStates]
      /\ \A r \in Runners : gone[r].pc = IF run[r].pc = "off" THEN "off" ELSE "done"
  <2>1. gone = [r \in Runners |-> IF Fresh(r) THEN run[r] ELSE over]
    BY DEF over
  <2> HIDE DEF gone
  <2> QED
    BY <1>1, <2>1 DEF Fresh, TypeOK
<1>3. /\ crashes' = crashes + 1 /\ wakeSignal' \in [Runners -> BOOLEAN] /\ timer' \in [Runners -> BOOLEAN]
      /\ target' \in [Entries -> {"new", "done"}]
      /\ \A e \in Entries : target'[e] = "new" <=> target[e] = "new"
  BY DEF Crash
<1>4. \/ \E r \in Runners : Fresh(r) /\ active' = r /\ run' = [gone EXCEPT ![r].pc = "users"]
      \/ active' = NoRunner /\ run' = gone
  BY DEF Crash
<1> HIDE DEF gone
<1>5. ASSUME NEW r \in Runners, Fresh(r), active' = r, run' = [gone EXCEPT ![r].pc = "users"]
      PROVE  /\ run' \in [Runners -> RunStates] /\ run'[r].pc = "users"
             /\ \A q \in Runners \ {r} : run'[q] = gone[q]
  <2> DEFINE c == [gone[r] EXCEPT !.pc = "users"]
  <2>1. c \in RunStates /\ c.pc = "users"
    BY <1>2 DEF RunStates
  <2>2. run' = [gone EXCEPT ![r] = c]
    BY <1>5
  <2> HIDE DEF c
  <2> QED
    BY <1>2, <2>1, <2>2
<1>6. CASE \E r \in Runners : Fresh(r) /\ active' = r /\ run' = [gone EXCEPT ![r].pc = "users"]
  <2>1. PICK r \in Runners : Fresh(r) /\ active' = r /\ run' = [gone EXCEPT ![r].pc = "users"]
    BY <1>6
  <2>2. /\ run' \in [Runners -> RunStates] /\ run'[r].pc = "users" /\ run[r].pc = "off"
        /\ \A q \in Runners \ {r} : run'[q] = gone[q]
    BY <1>5, <2>1 DEF Fresh
  <2>3. \A q \in Runners \ {r} : run'[q].pc = IF run[q].pc = "off" THEN "off" ELSE "done"
    BY <1>2, <2>2
  <2> QED
    BY <1>3, <2>1, <2>2, <2>3
<1>7. CASE active' = NoRunner /\ run' = gone
  BY <1>2, <1>3, <1>7, EntriesAssumption
<1> QED
  BY <1>4, <1>6, <1>7
-----------------------------------------------------------------------------
(* The inductive invariants                                                  *)

\* Goroutines that run are the active one and those stopped before it.
Lives ==
    /\ \A r \in Runners : run[r].pc \notin {"off", "done"} => r = active \/ r \in stopped
    /\ active # NoRunner => active \notin stopped /\ run[active].pc # "off"
    /\ \A r \in stopped : run[r].pc # "off"
    /\ IsFiniteSet(stopped)
    /\ Builtin => stopped = {}

\* An entry is inserted once, and the service hears of it only after that.
Submitted ==
    /\ buf \subseteq Inserted
    /\ \A i, j \in DOMAIN enqueued : enqueued[i] = enqueued[j] => i = j
    /\ \A e \in Entries : target[e] # "done" => e \notin Inserted
    /\ \A e \in Entries : e \notin Inserted => accepted[e] = 0 /\ e \notin rejected

\* What a runner has in hand was inserted, and the table holds no play that should go
\* before it.
HandFirst ==
    \A r \in Runners : Holds(r) =>
        run[r].entry \in Inserted /\ \A d \in buf : ~Earlier(d, run[r].entry)

BufferInv == TypeOK /\ Lives /\ Submitted /\ HandFirst /\ InOrder

\* The variables that no submission and no runner touches.
LEMMA TypeStep == BufferInv /\ [Step]_vars => TypeOK'
<1> SUFFICES ASSUME BufferInv, [Step]_vars PROVE TypeOK'
  OBVIOUS
<1>0. TypeOK /\ buf \subseteq Inserted /\ MaxLoads \in Nat
  BY BufferBoundsAssumption DEF BufferInv, Submitted
<1> USE DEF pluginVars, submitVars, bounds
<1>1. ASSUME NEW e \in Entries, getActiveScrobblers(e) PROVE TypeOK'
  <2>1. run' \in [Runners -> RunStates] /\ refreshPluginScrobblers
    BY <1>0, <1>1, RefreshEffect DEF getActiveScrobblers
  <2>2. active' \in Runners \cup {NoRunner} /\ stopped' \subseteq Runners
    BY <1>0, <2>1, RefreshEffect DEF TypeOK
  <2>3. \A r \in Runners : run'[r].pc \in {"load", "send", "dequeue"} => run'[r].entry \in Entries
    BY <1>0, <2>1, RefreshEffect DEF TypeOK
  <2>4. target' \in [Entries -> Runners \cup {"new", "done"}]
    BY <1>0, <1>1, <2>2 DEF getActiveScrobblers, TypeOK
  <2> QED
    BY <1>0, <1>1, <2>1, <2>2, <2>3, <2>4 DEF getActiveScrobblers, TypeOK
<1>2. ASSUME NEW e \in Entries, Scrobble(e) PROVE TypeOK'
  <2>1. buf' \subseteq Entries /\ enqueued' \in Seq(Entries) /\ wakeSignal' \in [Runners -> BOOLEAN]
    <3>1. CASE loaded
      <4>1. buf' = buf \cup {e} /\ enqueued' = Append(enqueued, e) /\ sendWakeSignal(target[e])
        BY <1>2, <3>1 DEF Scrobble
      <4>2. enqueued \in Seq(Entries) /\ buf \subseteq Entries /\ wakeSignal \in [Runners -> BOOLEAN]
        BY <1>0 DEF TypeOK
      <4> QED
        BY <4>1, <4>2, AppendInserts DEF sendWakeSignal
    <3>2. CASE ~loaded
      BY <1>0, <1>2, <3>2 DEF Scrobble, TypeOK
    <3> QED
      BY <3>1, <3>2
  <2>2. target' \in [Entries -> Runners \cup {"new", "done"}]
    BY <1>0, <1>2 DEF Scrobble, TypeOK
  <2> QED
    BY <1>0, <1>2, <2>1, <2>2 DEF Scrobble, TypeOK
<1>3. CASE dispatchNowPlaying
  <2>1. run' \in [Runners -> RunStates] /\ refreshPluginScrobblers
    BY <1>0, <1>3, RefreshEffect DEF dispatchNowPlaying
  <2>2. active' \in Runners \cup {NoRunner} /\ stopped' \subseteq Runners
    BY <1>0, <2>1, RefreshEffect DEF TypeOK
  <2>3. \A r \in Runners : run'[r].pc \in {"load", "send", "dequeue"} => run'[r].entry \in Entries
    BY <1>0, <2>1, RefreshEffect DEF TypeOK
  <2> QED
    BY <1>0, <1>3, <2>1, <2>2, <2>3 DEF dispatchNowPlaying, TypeOK
<1>4. CASE LoadPlugin
  <2>1. loads' \in 0..(MaxLoads + 1)
    BY <1>0, <1>4 DEF LoadPlugin, TypeOK
  <2> QED
    BY <1>0, <1>4, <2>1 DEF LoadPlugin, TypeOK
<1>5. CASE UnloadPlugin
  BY <1>0, <1>5 DEF UnloadPlugin, TypeOK
<1>6. CASE Crash
  <2>1. \A r \in Runners : run'[r].pc \notin {"load", "send", "dequeue"}
    BY <1>0, <1>6, CrashEffect
  <2>2. UNCHANGED <<buf, loaded, loads, stopped, enqueued, errs, busy, accepted, rejected>>
    BY <1>6 DEF Crash
  <2> QED
    BY <1>0, <1>6, <2>1, <2>2, CrashEffect DEF TypeOK
<1>7. ASSUME NEW r \in Runners, runSteps(r) PROVE TypeOK'
  <2>1. \A q \in Runners : run'[q].pc \in {"load", "send", "dequeue"} => run'[q].entry \in Entries
    BY <1>0, <1>7, RunnerTypes DEF TypeOK
  <2>2. /\ buf' \subseteq Entries /\ accepted' \in [Entries -> Nat] /\ rejected' \subseteq Entries
        /\ errs' \in Nat /\ busy' \in Nat
    <3>0. errs \in Nat /\ busy \in Nat /\ errs' \in {errs, errs + 1} /\ busy' \in {busy, busy + 1}
      BY <1>0, <1>7, RunnerEffect DEF TypeOK
    <3>1. CASE Answered(r)
      <4>1. run[r].entry \in Entries
        BY <1>0, <3>1 DEF Answered, TypeOK
      <4>2. accepted \in [Entries -> Nat] /\ rejected \subseteq Entries /\ buf \subseteq Entries /\ errs \in Nat
        BY <1>0 DEF TypeOK
      <4>3. [accepted EXCEPT ![run[r].entry] = @ + 1] \in [Entries -> Nat]
        BY <4>1, <4>2
      <4>4. accepted' \in [Entries -> Nat]
        BY <3>1, <4>2, <4>3 DEF Answered
      <4> QED
        BY <3>0, <3>1, <4>1, <4>2, <4>4 DEF Answered
    <3>2. CASE Takes(r) \/ Keeps(r) \/ Deletes(r) \/ LetsGo(r)
      BY <1>0, <3>0, <3>2 DEF Takes, Keeps, Deletes, LetsGo, TypeOK
    <3> QED
      BY <1>0, <1>7, <3>1, <3>2, RunnerEffect DEF RunnerMoves
  <2> QED
    BY <1>0, <1>7, <2>1, <2>2, RunnerTypes, RunnerEffect DEF TypeOK
<1>8. ASSUME NEW r \in Runners, TimerFires(r) PROVE TypeOK'
  BY <1>0, <1>8 DEF TimerFires, sendWakeSignal, TypeOK
<1>9. CASE UNCHANGED vars
  BY <1>0, <1>9 DEF vars, TypeOK
<1> QED
  BY <1>1, <1>2, <1>3, <1>4, <1>5, <1>6, <1>7, <1>8, <1>9 DEF Step

\* One goroutine at a time is active, and a stopped one never is again.
LEMMA LivesStep == BufferInv /\ [Step]_vars => Lives'
<1> SUFFICES ASSUME BufferInv, [Step]_vars PROVE Lives'
  OBVIOUS
<1>0. TypeOK /\ Lives /\ buf \subseteq Inserted
  BY DEF BufferInv, Submitted
<1>1. ASSUME refreshPluginScrobblers PROVE Lives'
  <2>1. CASE /\ active = NoRunner /\ stopped' = stopped /\ ~Builtin
             /\ \E r \in Runners : /\ run[r].pc = "off" /\ active' = r /\ run'[r].pc = "users"
                                   /\ \A q \in Runners \ {r} : run'[q] = run[q]
    <3>1. PICK r \in Runners : /\ run[r].pc = "off" /\ active' = r /\ run'[r].pc = "users"
                               /\ \A q \in Runners \ {r} : run'[q] = run[q]
      BY <2>1
    <3>2. r \notin stopped /\ stopped \subseteq Runners
      BY <1>0, <3>1 DEF Lives, TypeOK
    <3> QED
      BY <1>0, <2>1, <3>1, <3>2, EntriesAssumption DEF Lives
  <2>2. CASE active # NoRunner /\ active' = NoRunner /\ stopped' = stopped \cup {active} /\ run' = run /\ ~Builtin
    <3>1. IsFiniteSet(stopped')
      BY <1>0, <2>2, FS_AddElement DEF Lives
    <3> QED
      BY <1>0, <2>2, <3>1 DEF Lives
  <2>3. CASE UNCHANGED <<active, stopped, run>>
    BY <1>0, <2>3 DEF Lives
  <2> QED
    BY <1>0, <1>1, <2>1, <2>2, <2>3, RefreshEffect
<1>2. ASSUME UNCHANGED <<active, stopped, run>> PROVE Lives'
  BY <1>0, <1>2 DEF Lives
<1>3. CASE Crash
  <2>1. UNCHANGED stopped /\ stopped \subseteq Runners
    BY <1>0, <1>3 DEF Crash, TypeOK
  <2> QED
    BY <1>0, <1>3, <2>1, CrashEffect DEF Lives
<1>4. ASSUME NEW r \in Runners, runSteps(r) PROVE Lives'
  <2>1. /\ run[r].pc \notin {"off", "done"} /\ run'[r].pc # "off" /\ UNCHANGED <<active, stopped>>
        /\ \A q \in Runners \ {r} : run'[q] = run[q]
    BY <1>0, <1>4, RunnerTypes, RunnerEffect
  <2>2. stopped \subseteq Runners /\ active \in Runners \cup {NoRunner}
    BY <1>0 DEF TypeOK
  <2> QED
    BY <1>0, <2>1, <2>2 DEF Lives
<1>5. ASSUME NEW e \in Entries, getActiveScrobblers(e) \/ Scrobble(e) PROVE Lives'
  BY <1>1, <1>2, <1>5 DEF getActiveScrobblers, Scrobble, pluginVars
<1>6. CASE dispatchNowPlaying \/ LoadPlugin \/ UnloadPlugin
  BY <1>1, <1>2, <1>6 DEF dispatchNowPlaying, LoadPlugin, UnloadPlugin
<1>7. ASSUME NEW r \in Runners, TimerFires(r) PROVE Lives'
  BY <1>2, <1>7 DEF TimerFires, pluginVars
<1>8. CASE UNCHANGED vars
  BY <1>2, <1>8 DEF vars, pluginVars
<1> QED
  BY <1>3, <1>4, <1>5, <1>6, <1>7, <1>8 DEF Step
-----------------------------------------------------------------------------
(* Order                                                                     *)

\* What does not insert, send or hand out keeps the order.
LEMMA OrderKept ==
    ASSUME BufferInv, UNCHANGED <<enqueued, accepted, rejected>>, buf' \subseteq buf,
           \A e \in Entries : target'[e] # "done" => target[e] # "done",
           \A r \in Runners : Holds(r)' => Holds(r) /\ run'[r].entry = run[r].entry
    PROVE  (Submitted /\ HandFirst /\ InOrder)'
<1>1. \A d, e : Earlier(d, e)' <=> Earlier(d, e)
  BY DEF Earlier, InsertedBefore
<1>2. Inserted' = Inserted
  BY DEF Inserted
<1>3. Submitted'
  BY <1>2 DEF BufferInv, Submitted
<1>4. HandFirst'
  BY <1>1, <1>2 DEF BufferInv, HandFirst
<1>5. InOrder'
  BY <1>1 DEF BufferInv, InOrder
<1> QED
  BY <1>3, <1>4, <1>5

\* A new row stands behind every row there is, and its entry is one nobody has heard of.
LEMMA OrderScrobble ==
    ASSUME BufferInv, NEW e \in Entries, Scrobble(e)
    PROVE  (Submitted /\ HandFirst /\ InOrder)'
<1> USE DEF BufferInv
<1>1. /\ target[e] \in Runners /\ target' = [target EXCEPT ![e] = "done"]
      /\ UNCHANGED <<run, accepted, rejected>>
  BY DEF Scrobble
<1>2. e \notin Inserted
  BY <1>1, EntriesAssumption DEF Submitted
<1>3. target'[e] = "done" /\ \A f \in Entries \ {e} : target'[f] = target[f]
  BY <1>1 DEF TypeOK
<1>4. CASE ~loaded
  <2>1. UNCHANGED <<buf, enqueued>>
    BY <1>4 DEF Scrobble
  <2> QED
    BY <1>1, <1>3, <2>1, OrderKept DEF Holds
<1>5. CASE loaded
  <2>1. buf' = buf \cup {e} /\ enqueued' = Append(enqueued, e) /\ enqueued \in Seq(Entries)
    BY <1>5 DEF Scrobble, TypeOK
  <2> DEFINE n == Len(enqueued)
  <2>2. /\ n \in Nat /\ DOMAIN enqueued = 1..n /\ DOMAIN enqueued' = 1..(n + 1)
        /\ \A i \in 1..n : enqueued'[i] = enqueued[i]
        /\ enqueued'[n + 1] = e
        /\ Inserted' = Inserted \cup {e}
    BY <2>1, AppendInserts DEF Inserted
  <2>3. \A i \in 1..n : enqueued[i] # e
    BY <1>2, <2>2 DEF Inserted, Range
  <2> HIDE DEF n
  <2>4. \A d, f : f # e => (Earlier(d, f)' <=> Earlier(d, f)) /\ ~Earlier(e, f)'
    <3>1. \A d, f : f # e => (InsertedBefore(d, f)' <=> InsertedBefore(d, f)) /\ ~InsertedBefore(e, f)'
      <4> SUFFICES ASSUME NEW d, NEW f, f # e
                   PROVE  (InsertedBefore(d, f)' <=> InsertedBefore(d, f)) /\ ~InsertedBefore(e, f)'
        OBVIOUS
      <4>1. ASSUME NEW i \in 1..(n + 1), NEW j \in 1..(n + 1), i < j, enqueued'[j] = f
            PROVE  i \in 1..n /\ j \in 1..n
        <5>1. j # n + 1
          BY <2>2, <4>1
        <5> QED
          BY <2>2, <4>1, <5>1
      <4>2. 1..n \subseteq 1..(n + 1)
        BY <2>2
      <4>3. InsertedBefore(d, f)' => InsertedBefore(d, f)
        BY <2>2, <4>1 DEF InsertedBefore
      <4>4. InsertedBefore(d, f) => InsertedBefore(d, f)'
        BY <2>2, <4>2 DEF InsertedBefore
      <4>5. ~InsertedBefore(e, f)'
        BY <2>2, <2>3, <4>1 DEF InsertedBefore
      <4> QED
        BY <4>3, <4>4, <4>5
    <3> QED
      BY <3>1 DEF Earlier
  <2>5. Submitted'
    <3>1. \A i, j \in 1..(n + 1) : enqueued'[i] = enqueued'[j] => i = j
      <4>1. \A i \in 1..(n + 1) : i \in 1..n \/ i = n + 1
        BY <2>2
      <4> QED
        BY <2>2, <2>3, <4>1 DEF Submitted
    <3> QED
      BY <1>1, <1>3, <2>1, <2>2, <3>1 DEF Submitted
  <2>6. \A r \in Runners : Holds(r) => run[r].entry # e
    BY <1>2 DEF HandFirst
  <2>7. HandFirst'
    BY <1>1, <2>1, <2>2, <2>4, <2>6 DEF HandFirst, Holds
  <2>8. InOrder'
    <3>1. accepted[e] = 0 /\ e \notin rejected
      BY <1>2 DEF Submitted
    <3> QED
      BY <1>1, <2>1, <2>4, <3>1 DEF InOrder
  <2> QED
    BY <2>5, <2>7, <2>8
<1> QED
  BY <1>4, <1>5

\* A runner sends the first play of its user that waits.
LEMMA OrderRunner ==
    ASSUME BufferInv, NEW r \in Runners, runSteps(r)
    PROVE  (Submitted /\ HandFirst /\ InOrder)'
<1> USE DEF BufferInv
<1>0. /\ RunnerMoves(r) /\ UNCHANGED <<enqueued, target>> /\ \A q \in Runners \ {r} : run'[q] = run[q]
  BY RunnerTypes, RunnerEffect DEF Submitted
<1>1. \A d, e : Earlier(d, e)' <=> Earlier(d, e)
  BY <1>0 DEF Earlier, InsertedBefore
<1>2. Inserted' = Inserted
  BY <1>0 DEF Inserted
<1>3. CASE Keeps(r) \/ Deletes(r) \/ LetsGo(r)
  <2>1. \A q \in Runners : Holds(q)' => Holds(q) /\ run'[q].entry = run[q].entry
    BY <1>0, <1>3 DEF Keeps, Deletes, LetsGo, Holds
  <2> QED
    BY <1>0, <1>3, <2>1, OrderKept DEF Keeps, Deletes, LetsGo
<1>4. CASE Takes(r)
  <2> DEFINE rows == RowsOf(run[r].user)
             e == Earliest(rows)
  <2>1. rows # {} /\ rows \subseteq Entries /\ rows \subseteq Inserted /\ enqueued \in Seq(Entries)
    BY <1>4 DEF Takes, RowsOf, Submitted, TypeOK
  <2>2. e \in rows /\ \A f \in rows \ {e} : \/ PlayTime[e] < PlayTime[f]
                                            \/ PlayTime[e] = PlayTime[f] /\ InsertedBefore(e, f)
    <3> HIDE DEF rows
    <3> QED
      BY <2>1, EarliestChosen
  <2> HIDE DEF e
  <2>3. ASSUME NEW d \in buf, Earlier(d, e) PROVE FALSE
    <3>1. d \in rows /\ PlayTime[d] \in Nat /\ PlayTime[e] \in Nat
      BY <2>1, <2>2, <2>3, PlayTimeAssumption DEF Earlier, RowsOf, TypeOK
    <3>2. d # e
      <4>1. PICK i \in DOMAIN enqueued, j \in DOMAIN enqueued : i < j /\ enqueued[i] = d /\ enqueued[j] = e
        BY <2>3 DEF Earlier, InsertedBefore
      <4>2. i \in Nat /\ j \in Nat
        BY <2>1
      <4> QED
        BY <4>1, <4>2 DEF Submitted
    <3>3. InsertedBefore(e, d)
      BY <2>2, <2>3, <3>1, <3>2 DEF Earlier
    <3>4. PICK i, j, k, l \in DOMAIN enqueued :
            i < j /\ enqueued[i] = d /\ enqueued[j] = e /\ k < l /\ enqueued[k] = e /\ enqueued[l] = d
      BY <2>3, <3>3 DEF Earlier, InsertedBefore
    <3>5. i = l /\ j = k /\ i \in Nat /\ j \in Nat
      BY <2>1, <3>4 DEF Submitted
    <3> QED
      BY <3>4, <3>5
  <2>4. UNCHANGED <<buf, accepted, rejected>> /\ run'[r].entry = e
    BY <1>4 DEF Takes, e
  <2>5. Submitted'
    BY <1>0, <1>2, <2>4 DEF Submitted
  <2>6. HandFirst'
    BY <1>0, <1>1, <1>2, <2>1, <2>2, <2>3, <2>4 DEF HandFirst, Holds
  <2>7. InOrder'
    BY <1>1, <2>4 DEF InOrder
  <2> QED
    BY <2>5, <2>6, <2>7
<1>5. CASE Answered(r)
  <2> DEFINE e == run[r].entry
  <2>1. e \in Entries /\ e \in Inserted /\ (\A d \in buf : ~Earlier(d, e)) /\ buf' = buf
    BY <1>5 DEF Answered, TypeOK, HandFirst, Holds
  <2>2. \A q \in Runners : Holds(q)' => Holds(q) /\ run'[q].entry = run[q].entry
    BY <1>0, <1>5 DEF Answered, Holds
  <2>3. \A f \in Entries \ {e} : accepted'[f] = accepted[f] /\ (f \in rejected' <=> f \in rejected)
    BY <1>5 DEF Answered, TypeOK
  <2> HIDE DEF e
  <2>4. Submitted'
    BY <1>0, <1>2, <2>1, <2>3 DEF Submitted
  <2>5. HandFirst'
    BY <1>1, <1>2, <2>1, <2>2 DEF HandFirst
  <2>6. InOrder'
    BY <1>1, <2>1, <2>3 DEF InOrder
  <2> QED
    BY <2>4, <2>5, <2>6
<1> QED
  BY <1>0, <1>3, <1>4, <1>5 DEF RunnerMoves

\* Every step keeps the order.
LEMMA OrderStep == BufferInv /\ [Step]_vars => (Submitted /\ HandFirst /\ InOrder)'
<1> SUFFICES ASSUME BufferInv, [Step]_vars PROVE (Submitted /\ HandFirst /\ InOrder)'
  OBVIOUS
<1> USE DEF pluginVars, submitVars, bounds
<1>1. ASSUME refreshPluginScrobblers
      PROVE  \A r \in Runners : Holds(r)' => Holds(r) /\ run'[r].entry = run[r].entry
  BY <1>1, RefreshEffect DEF BufferInv, Holds
<1>2. ASSUME NEW e \in Entries, getActiveScrobblers(e) PROVE (Submitted /\ HandFirst /\ InOrder)'
  <2>1. \A f \in Entries : target'[f] # "done" => target[f] # "done"
    BY <1>2 DEF getActiveScrobblers, BufferInv, TypeOK
  <2> QED
    BY <1>1, <1>2, <2>1, OrderKept DEF getActiveScrobblers
<1>3. CASE dispatchNowPlaying
  BY <1>1, <1>3, OrderKept DEF dispatchNowPlaying
<1>4. CASE LoadPlugin \/ UnloadPlugin
  BY <1>4, OrderKept DEF LoadPlugin, UnloadPlugin, Holds
<1>5. CASE Crash
  <2>1. \A r \in Runners : ~Holds(r)'
    BY <1>5, CrashEffect DEF BufferInv, Holds
  <2>2. \A f \in Entries : target'[f] # "done" => target[f] # "done"
    BY <1>5, CrashEffect DEF BufferInv
  <2> QED
    BY <1>5, <2>1, <2>2, OrderKept DEF Crash
<1>6. ASSUME NEW r \in Runners, TimerFires(r) PROVE (Submitted /\ HandFirst /\ InOrder)'
  BY <1>6, OrderKept DEF TimerFires, Holds
<1>7. CASE UNCHANGED vars
  BY <1>7, OrderKept DEF vars, Holds
<1> QED
  BY <1>2, <1>3, <1>4, <1>5, <1>6, <1>7, OrderScrobble, OrderRunner DEF Step

\* The buffer starts empty, with at most the built-in goroutine.
LEMMA InitBuffer == Init => BufferInv
<1> SUFFICES ASSUME Init PROVE BufferInv
  OBVIOUS
<1>1. Idle \in RunStates /\ Idle.pc = "off"
  BY DEF Idle, RunStates
<1> DEFINE first == [Idle EXCEPT !.pc = "users"]
<1>2. first \in RunStates /\ first.pc = "users"
  BY DEF Idle, RunStates
<1>3. /\ run \in [Runners -> RunStates] /\ active \in Runners \cup {NoRunner}
      /\ \A r \in Runners : run[r].pc = IF r = active THEN "users" ELSE "off"
  <2>1. CASE Builtin
    <3>1. active \in Runners /\ run = [r \in Runners |-> IF r = active THEN first ELSE Idle]
      BY <2>1 DEF Init
    <3> HIDE DEF first
    <3> QED
      BY <1>1, <1>2, <3>1
  <2>2. CASE ~Builtin
    <3>1. active = NoRunner /\ run = [r \in Runners |-> Idle]
      BY <2>2 DEF Init
    <3> QED
      BY <1>1, <3>1, EntriesAssumption
  <2> QED
    BY <2>1, <2>2
<1>4. enqueued = <<>> /\ Inserted = {} /\ enqueued \in Seq(Entries)
  BY DEF Init, Inserted, Range
<1>5. TypeOK
  BY <1>3, <1>4, BufferBoundsAssumption DEF Init, TypeOK
<1>6. Lives
  <2>1. stopped = {} /\ IsFiniteSet(stopped)
    BY FS_EmptySet DEF Init
  <2> QED
    BY <1>3, <2>1 DEF Lives
<1>7. Submitted /\ HandFirst /\ InOrder
  BY <1>3, <1>4 DEF Init, Submitted, HandFirst, InOrder, Holds
<1> QED
  BY <1>5, <1>6, <1>7 DEF BufferInv

\* The invariant of the buffer holds in every state.
LEMMA BufferInvariance == Spec => []BufferInv
<1>1. BufferInv /\ [Step]_vars => BufferInv'
  BY TypeStep, LivesStep, OrderStep DEF BufferInv
<1> QED
  BY <1>1, InitBuffer, PTL DEF Spec

\* The table, the goroutines, the signals and the submissions keep their types, and a
\* goroutine between the read and the delete of a row has an entry in hand.
THEOREM BufferTypes == Spec => []TypeOK
  BY BufferInvariance, PTL DEF BufferInv

\* For any plays, users and play times, with any number of crashes, failing statements,
\* reloads of the plugin and goroutines that are stopped half way: while an older play of
\* a user waits in the table, the service has heard of none submitted after it (Next,
\* processUserQueue).
THEOREM SentInOrder == Spec => []InOrder
  BY BufferInvariance, PTL DEF BufferInv
-----------------------------------------------------------------------------
(* Losses and duplicates                                                     *)

\* A built-in scrobbler deletes a row only on an answer of the service.
AnsweredFirst ==
    \A r \in Runners : run[r].pc = "dequeue" => accepted[run[r].entry] > 0 \/ run[r].entry \in rejected

\* For a built-in scrobbler, with any number of crashes and failing statements: an entry
\* leaves the table only when the service took it or refused it for good (Dequeue).
THEOREM BuiltinLosesNothing == ASSUME Builtin PROVE Spec => []NothingLost
<1> DEFINE Inv == AnsweredFirst /\ NothingLost
<1>1. Init => Inv
  <2> SUFFICES ASSUME Init PROVE Inv
    OBVIOUS
  <2>1. BufferInv /\ Range(enqueued) = {}
    BY InitBuffer DEF Init, Range
  <2>2. \A r \in Runners : run[r].pc # "dequeue"
    BY DEF Init, Idle
  <2> QED
    BY <2>1, <2>2 DEF AnsweredFirst, NothingLost
<1>2. BufferInv /\ Inv /\ [Step]_vars => Inv'
  <2> SUFFICES ASSUME BufferInv, Inv, [Step]_vars PROVE Inv'
    OBVIOUS
  <2>0. TypeOK /\ buf \subseteq Inserted /\ stopped = {} /\ Range(enqueued) \subseteq Entries
    BY DEF BufferInv, Submitted, Lives, TypeOK, Range
  <2>1. ASSUME UNCHANGED <<buf, enqueued, accepted, rejected>>,
               \A r \in Runners : run'[r].pc = "dequeue" =>
                                     run[r].pc = "dequeue" /\ run'[r].entry = run[r].entry
        PROVE  Inv'
    BY <2>1 DEF AnsweredFirst, NothingLost
  <2>2. ASSUME NEW e \in Entries, getActiveScrobblers(e) PROVE Inv'
    BY <2>0, <2>1, <2>2, RefreshEffect DEF getActiveScrobblers
  <2>3. ASSUME NEW e \in Entries, Scrobble(e) PROVE Inv'
    <3>1. UNCHANGED <<run, accepted, rejected>>
      BY <2>3 DEF Scrobble
    <3>2. CASE loaded
      <4>1. buf' = buf \cup {e} /\ Range(enqueued') = Range(enqueued) \cup {e}
        BY <2>0, <2>3, <3>2, AppendInserts DEF Scrobble, TypeOK
      <4> QED
        BY <3>1, <4>1 DEF AnsweredFirst, NothingLost
    <3>3. CASE ~loaded
      BY <2>1, <2>3, <3>1, <3>3 DEF Scrobble
    <3> QED
      BY <3>2, <3>3
  <2>4. CASE dispatchNowPlaying
    BY <2>0, <2>1, <2>4, RefreshEffect DEF dispatchNowPlaying, submitVars
  <2>5. CASE LoadPlugin \/ UnloadPlugin
    BY <2>1, <2>5 DEF LoadPlugin, UnloadPlugin, submitVars
  <2>6. CASE Crash
    <3>1. \A r \in Runners : run'[r].pc # "dequeue"
      BY <2>0, <2>6, CrashEffect
    <3> QED
      BY <2>1, <2>6, <3>1 DEF Crash
  <2>7. ASSUME NEW r \in Runners, runSteps(r) PROVE Inv'
    <3>0. /\ RunnerMoves(r) /\ UNCHANGED enqueued
          /\ \A q \in Runners \ {r} : run'[q] = run[q]
      BY <2>0, <2>7, RunnerTypes, RunnerEffect
    <3>1. CASE Takes(r) \/ Keeps(r) \/ LetsGo(r)
      BY <2>1, <3>0, <3>1 DEF Takes, Keeps, LetsGo, Holds
    <3>2. CASE Deletes(r)
      <4>1. accepted[run[r].entry] > 0 \/ run[r].entry \in rejected
        BY <3>2 DEF Deletes, AnsweredFirst
      <4> QED
        BY <3>0, <3>2, <4>1 DEF Deletes, AnsweredFirst, NothingLost, Holds
    <3>3. CASE Answered(r)
      <4>1. run[r].entry \in Entries /\ accepted \in [Entries -> Nat]
        BY <2>0, <3>3 DEF Answered, TypeOK
      <4>2. accepted'[run[r].entry] > 0 \/ run[r].entry \in rejected'
        BY <2>0, <3>3, <4>1 DEF Answered
      <4>3. \A f \in Entries : /\ accepted[f] > 0 => accepted'[f] > 0
                               /\ f \in rejected => f \in rejected'
        BY <3>3, <4>1 DEF Answered
      <4>4. \A q \in Runners : run[q].pc = "dequeue" => run[q].entry \in Entries
        BY <2>0 DEF TypeOK
      <4>5. AnsweredFirst'
        BY <3>0, <3>3, <4>2, <4>3, <4>4 DEF Answered, AnsweredFirst
      <4>6. NothingLost'
        BY <2>0, <3>0, <3>3, <4>3 DEF Answered, NothingLost
      <4> QED
        BY <4>5, <4>6
    <3> QED
      BY <3>0, <3>1, <3>2, <3>3 DEF RunnerMoves
  <2>8. ASSUME NEW r \in Runners, TimerFires(r) PROVE Inv'
    BY <2>1, <2>8 DEF TimerFires, submitVars
  <2>9. CASE UNCHANGED vars
    BY <2>1, <2>9 DEF vars, submitVars
  <2> QED
    BY <2>2, <2>3, <2>4, <2>5, <2>6, <2>7, <2>8, <2>9 DEF Step
<1> QED
  BY <1>1, <1>2, BufferInvariance, PTL DEF Spec

\* The stopped goroutines that may still send e: each does so once at most, for it can
\* read no other row.
Lingering(e) == {r \in stopped : run[r].pc \in {"load", "send"} /\ run[r].entry = e}

\* Nobody but them will send e again: its row is gone, or about to be.
Settled(e) == e \notin buf \/ \E r \in Runners \ stopped : run[r].pc = "dequeue" /\ run[r].entry = e

\* What the active goroutine has in hand is in the table.
HandInTable == \A r \in Runners \ stopped : Holds(r) => run[r].entry \in buf

\* Reports are paid for by failures, crashes and goroutines that were stopped, with one
\* stopped goroutine kept for each one that lingers.
Paid(e) ==
    accepted[e] + Cardinality(Lingering(e))
        <= errs + crashes + Cardinality(stopped) + (IF Settled(e) THEN 1 ELSE 0)

DuplicatesInv == HandInTable /\ \A e \in Entries : Paid(e)

\* The numbers in Paid are natural numbers.
LEMMA PaidTypes ==
    ASSUME BufferInv, NEW e \in Entries
    PROVE  /\ accepted[e] \in Nat /\ errs \in Nat /\ crashes \in Nat
           /\ IsFiniteSet(Lingering(e)) /\ Cardinality(Lingering(e)) \in Nat
           /\ IsFiniteSet(stopped) /\ Cardinality(stopped) \in Nat
<1>1. IsFiniteSet(stopped) /\ Lingering(e) \subseteq stopped
  BY DEF BufferInv, Lives, Lingering
<1>2. IsFiniteSet(Lingering(e))
  BY <1>1, FS_Subset
<1> QED
  BY <1>1, <1>2, FS_CardinalityType DEF BufferInv, TypeOK

\* A step that reports nothing and stops nobody: what it unsettles it has paid for.
LEMMA StillPaid ==
    ASSUME BufferInv, NEW e \in Entries, Paid(e), accepted'[e] = accepted[e], stopped' = stopped,
           Lingering(e)' \subseteq Lingering(e),
           errs' \in {errs, errs + 1}, crashes' \in {crashes, crashes + 1},
           Settled(e) => Settled(e)' \/ errs' = errs + 1 \/ crashes' = crashes + 1
    PROVE  Paid(e)'
<1> DEFINE l == Cardinality(Lingering(e))
           m == Cardinality(Lingering(e)')
           c == Cardinality(stopped)
           p == IF Settled(e) THEN 1 ELSE 0
           q == IF Settled(e)' THEN 1 ELSE 0
<1>1. /\ accepted[e] \in Nat /\ errs \in Nat /\ crashes \in Nat /\ l \in Nat /\ c \in Nat
      /\ IsFiniteSet(Lingering(e))
  BY PaidTypes
<1>2. m \in Nat /\ m <= l
  BY <1>1, FS_Subset, FS_CardinalityType
<1>3. accepted[e] + l <= errs + crashes + c + p
  BY DEF Paid
<1>4. p \in {0, 1} /\ q \in {0, 1} /\ (p = 1 => q = 1 \/ errs' = errs + 1 \/ crashes' = crashes + 1)
  OBVIOUS
<1>5. Paid(e)' <=> accepted[e] + m <= errs' + crashes' + c + q
  BY DEF Paid
<1> HIDE DEF l, m, c, p, q
<1> QED
  BY <1>1, <1>2, <1>3, <1>4, <1>5

\* Stopping a goroutine pays for the one report it may still make, or whose row it can no
\* longer delete.
LEMMA StopPays ==
    ASSUME BufferInv, DuplicatesInv, NEW e \in Entries, active # NoRunner,
           stopped' = stopped \cup {active}, UNCHANGED <<run, buf, accepted, errs, crashes>>
    PROVE  Paid(e)'
<1> DEFINE l == Cardinality(Lingering(e))
           m == Cardinality(Lingering(e)')
           c == Cardinality(stopped)
           d == Cardinality(stopped')
           p == IF Settled(e) THEN 1 ELSE 0
           q == IF Settled(e)' THEN 1 ELSE 0
<1>0. active \in Runners /\ active \notin stopped /\ stopped \subseteq Runners
  BY DEF BufferInv, TypeOK, Lives
<1>1. /\ accepted[e] \in Nat /\ errs \in Nat /\ crashes \in Nat /\ l \in Nat /\ c \in Nat
      /\ IsFiniteSet(Lingering(e)) /\ IsFiniteSet(stopped)
  BY PaidTypes
<1>2. d = c + 1
  BY <1>0, <1>1, FS_AddElement
<1>3. accepted[e] + l <= errs + crashes + c + p /\ p \in {0, 1} /\ q \in {0, 1}
  BY DEF DuplicatesInv, Paid
<1>4. Paid(e)' <=> accepted[e] + m <= errs + crashes + d + q
  BY DEF Paid
<1>5. CASE run[active].pc \in {"load", "send"} /\ run[active].entry = e
  <2>1. Lingering(e)' = Lingering(e) \cup {active} /\ active \notin Lingering(e)
    BY <1>0, <1>5 DEF Lingering
  <2>2. m = l + 1
    BY <1>1, <2>1, FS_AddElement
  <2>3. p = 1 => q = 1
    BY <1>5 DEF Settled
  <2> HIDE DEF l, m, c, d, p, q
  <2> QED
    BY <1>1, <1>2, <1>3, <1>4, <2>2, <2>3
<1>6. CASE ~(run[active].pc \in {"load", "send"} /\ run[active].entry = e)
  <2>1. Lingering(e)' = Lingering(e)
    BY <1>6 DEF Lingering
  <2>2. m = l
    BY <2>1
  <2> HIDE DEF l, m, c, d, p, q
  <2> QED
    BY <1>1, <1>2, <1>3, <1>4, <2>2
<1> QED
  BY <1>5, <1>6

\* An active goroutine settles what it reports; a stopped one ceases to linger.
LEMMA ReportPays ==
    ASSUME BufferInv, BufferInv', DuplicatesInv, NEW r \in Runners, Answered(r),
           UNCHANGED <<stopped, crashes>>, \A q \in Runners \ {r} : run'[q] = run[q],
           NEW e \in Entries, e = run[r].entry, accepted'[e] = accepted[e] + 1
    PROVE  Paid(e)'
<1> DEFINE l == Cardinality(Lingering(e))
           m == Cardinality(Lingering(e)')
           c == Cardinality(stopped)
           p == IF Settled(e) THEN 1 ELSE 0
           q == IF Settled(e)' THEN 1 ELSE 0
<1>0. /\ run[r].pc = "send" /\ run'[r].pc = "dequeue" /\ run'[r].entry = e /\ UNCHANGED <<buf, errs>>
      /\ stopped \subseteq Runners
  BY DEF Answered, BufferInv, TypeOK
<1>1. /\ accepted[e] \in Nat /\ errs \in Nat /\ crashes \in Nat /\ l \in Nat /\ c \in Nat
      /\ IsFiniteSet(Lingering(e))
  BY PaidTypes
<1>2. accepted[e] + l <= errs + crashes + c + p /\ p \in {0, 1} /\ q \in {0, 1}
  BY DEF DuplicatesInv, Paid
<1>3. Paid(e)' <=> accepted[e] + 1 + m <= errs + crashes + c + q
  BY <1>0 DEF Paid
<1>4. CASE r \notin stopped
  <2>1. Lingering(e)' = Lingering(e)
    BY <1>0, <1>4 DEF Lingering
  <2>2. m = l /\ q = 1
    BY <1>0, <1>4, <2>1 DEF Settled
  <2>3. e \in buf
    BY <1>0, <1>4 DEF DuplicatesInv, HandInTable, Holds
  <2>4. \A s \in Runners \ stopped : run[s].pc = "dequeue" => s = r
    <3>1. r = active
      BY <1>0, <1>4 DEF BufferInv, Lives
    <3> QED
      BY <3>1 DEF BufferInv, Lives
  <2>5. p = 0
    BY <1>0, <2>3, <2>4 DEF Settled
  <2> HIDE DEF l, m, c, p, q
  <2> QED
    BY <1>1, <1>2, <1>3, <2>2, <2>5
<1>5. CASE r \in stopped
  <2>1. Lingering(e)' = Lingering(e) \ {r} /\ r \in Lingering(e)
    BY <1>0, <1>5 DEF Lingering
  <2>2. m = l - 1
    BY <1>1, <2>1, FS_RemoveElement
  <2>3. p = 1 => q = 1
    BY <1>0, <1>5 DEF Settled
  <2> HIDE DEF l, m, c, p, q
  <2> QED
    BY <1>1, <1>2, <1>3, <2>2, <2>3
<1> QED
  BY <1>4, <1>5

\* A submission, or the pass over the map of scrobblers that comes before it.
LEMMA DuplicatesRefresh ==
    ASSUME BufferInv, DuplicatesInv, refreshPluginScrobblers,
           UNCHANGED <<buf, accepted, errs, crashes>>
    PROVE  DuplicatesInv'
<1>0. TypeOK /\ Lives
  BY DEF BufferInv
<1>1. CASE /\ active = NoRunner /\ stopped' = stopped
           /\ \E r \in Runners : /\ run[r].pc = "off" /\ active' = r /\ run'[r].pc = "users"
                                 /\ \A q \in Runners \ {r} : run'[q] = run[q]
  <2>1. PICK r \in Runners : /\ run[r].pc = "off" /\ run'[r].pc = "users"
                             /\ \A q \in Runners \ {r} : run'[q] = run[q]
    BY <1>1
  <2>2. HandInTable'
    BY <1>1, <2>1 DEF DuplicatesInv, HandInTable, Holds
  <2>3. ASSUME NEW e \in Entries PROVE Paid(e)'
    <3>1. Lingering(e)' \subseteq Lingering(e) /\ (Settled(e) => Settled(e)')
      BY <1>0, <1>1, <2>1 DEF Lingering, Settled, TypeOK
    <3> QED
      BY <1>1, <3>1, StillPaid DEF DuplicatesInv
  <2> QED
    BY <2>2, <2>3 DEF DuplicatesInv
<1>2. CASE active # NoRunner /\ stopped' = stopped \cup {active} /\ run' = run
  <2>1. HandInTable'
    BY <1>2 DEF DuplicatesInv, HandInTable, Holds
  <2> QED
    BY <1>2, <2>1, StopPays DEF DuplicatesInv
<1>3. CASE UNCHANGED <<active, stopped, run>>
  BY <1>3 DEF DuplicatesInv, HandInTable, Holds, Paid, Lingering, Settled
<1> QED
  BY <1>0, <1>1, <1>2, <1>3, RefreshEffect

\* An entry that is inserted was never reported and is in nobody's hand.
LEMMA DuplicatesScrobble ==
    ASSUME BufferInv, DuplicatesInv, NEW e \in Entries, Scrobble(e)
    PROVE  DuplicatesInv'
<1>1. /\ UNCHANGED <<run, stopped, accepted, errs, crashes>>
      /\ buf' \in {buf, buf \cup {e}}
  BY DEF Scrobble, pluginVars, bounds
<1>2. HandInTable'
  BY <1>1 DEF DuplicatesInv, HandInTable, Holds
<1>3. ASSUME NEW f \in Entries, f # e \/ buf' = buf PROVE Paid(f)'
  <2>1. Lingering(f)' \subseteq Lingering(f) /\ (Settled(f) => Settled(f)')
    BY <1>1, <1>3 DEF Lingering, Settled
  <2> QED
    BY <1>1, <2>1, StillPaid DEF DuplicatesInv
<1>4. Paid(e)'
  <2>1. e \notin Inserted
    <3>1. target[e] \in Runners
      BY DEF Scrobble
    <3> QED
      BY <3>1, EntriesAssumption DEF BufferInv, Submitted
  <2>2. Lingering(e)' = {}
    BY <1>1, <2>1 DEF Lingering, BufferInv, TypeOK, HandFirst, Holds
  <2>3. Cardinality(Lingering(e)') = 0
    BY <2>2, FS_EmptySet
  <2>4. accepted[e] = 0
    BY <2>1 DEF BufferInv, Submitted
  <2>5. errs \in Nat /\ crashes \in Nat /\ Cardinality(stopped) \in Nat
    BY PaidTypes
  <2> QED
    BY <1>1, <2>3, <2>4, <2>5 DEF Paid
<1> QED
  BY <1>2, <1>3, <1>4 DEF DuplicatesInv

\* A runner pays for what it reports and for every row it fails to delete.
LEMMA DuplicatesRunner ==
    ASSUME BufferInv, BufferInv', DuplicatesInv, NEW r \in Runners, runSteps(r)
    PROVE  DuplicatesInv'
<1>0. /\ RunnerMoves(r) /\ UNCHANGED <<stopped, crashes>> /\ \A q \in Runners \ {r} : run'[q] = run[q]
      /\ stopped \subseteq Runners /\ run[r].pc \notin {"off", "done"} /\ errs' \in {errs, errs + 1}
  BY RunnerTypes, RunnerEffect DEF BufferInv, Submitted, TypeOK
<1>1. CASE Takes(r)
  <2>1. run'[r].entry \in buf
    <3>1. Earliest(RowsOf(run[r].user)) \in RowsOf(run[r].user)
      <4>1. /\ RowsOf(run[r].user) \subseteq Entries /\ RowsOf(run[r].user) \subseteq Inserted
            /\ RowsOf(run[r].user) # {} /\ enqueued \in Seq(Entries)
        BY <1>1 DEF Takes, RowsOf, BufferInv, Submitted, TypeOK
      <4> QED
        BY <4>1, EarliestChosen
    <3> QED
      BY <1>1, <3>1 DEF Takes, RowsOf
  <2>2. HandInTable'
    BY <1>0, <1>1, <2>1 DEF Takes, DuplicatesInv, HandInTable, Holds
  <2>3. ASSUME NEW e \in Entries PROVE Paid(e)'
    <3>1. Lingering(e)' \subseteq Lingering(e) /\ (Settled(e) => Settled(e)')
      BY <1>0, <1>1 DEF Takes, Lingering, Settled, Holds
    <3> QED
      BY <1>0, <1>1, <3>1, StillPaid DEF DuplicatesInv, Takes
  <2> QED
    BY <2>2, <2>3 DEF DuplicatesInv
<1>2. CASE Keeps(r)
  <2>1. HandInTable'
    BY <1>0, <1>2 DEF Keeps, DuplicatesInv, HandInTable, Holds
  <2>2. ASSUME NEW e \in Entries PROVE Paid(e)'
    <3>1. Lingering(e)' \subseteq Lingering(e) /\ (Settled(e) => Settled(e)')
      BY <1>0, <1>2 DEF Keeps, Lingering, Settled
    <3> QED
      BY <1>0, <1>2, <3>1, StillPaid DEF DuplicatesInv, Keeps
  <2> QED
    BY <2>1, <2>2 DEF DuplicatesInv
<1>3. CASE Answered(r)
  <2>1. HandInTable'
    BY <1>0, <1>3 DEF Answered, DuplicatesInv, HandInTable, Holds
  <2>2. ASSUME NEW e \in Entries PROVE Paid(e)'
    <3>1. CASE accepted'[e] = accepted[e]
      <4>1. Lingering(e)' \subseteq Lingering(e) /\ (Settled(e) => Settled(e)')
        BY <1>0, <1>3 DEF Answered, Lingering, Settled
      <4> QED
        BY <1>0, <1>3, <3>1, <4>1, StillPaid DEF DuplicatesInv, Answered
    <3>2. CASE accepted'[e] # accepted[e]
      <4>1. e = run[r].entry /\ accepted'[e] = accepted[e] + 1
        BY <1>3, <3>2 DEF Answered, BufferInv, TypeOK
      <4> QED
        BY <1>0, <1>3, <4>1, ReportPays
    <3> QED
      BY <3>1, <3>2
  <2> QED
    BY <2>1, <2>2 DEF DuplicatesInv
<1>4. CASE Deletes(r)
  <2>1. \A q \in Runners \ stopped : Holds(q) => q = r
    BY <1>0, <1>4 DEF Deletes, BufferInv, Lives, Holds
  <2>2. HandInTable'
    BY <1>0, <1>4, <2>1 DEF Deletes, HandInTable, Holds
  <2>3. ASSUME NEW e \in Entries PROVE Paid(e)'
    <3>1. Lingering(e)' \subseteq Lingering(e) /\ (Settled(e) => Settled(e)')
      BY <1>0, <1>4, <2>1 DEF Deletes, Lingering, Settled, Holds
    <3> QED
      BY <1>0, <1>4, <3>1, StillPaid DEF DuplicatesInv, Deletes
  <2> QED
    BY <2>2, <2>3 DEF DuplicatesInv
<1>5. CASE LetsGo(r)
  <2>1. HandInTable'
    BY <1>0, <1>5 DEF LetsGo, DuplicatesInv, HandInTable, Holds
  <2>2. ASSUME NEW e \in Entries PROVE Paid(e)'
    <3>1. /\ Lingering(e)' \subseteq Lingering(e)
          /\ Settled(e) => Settled(e)' \/ errs' = errs + 1
      BY <1>0, <1>5 DEF LetsGo, Lingering, Settled, Holds
    <3> QED
      BY <1>0, <1>5, <3>1, StillPaid DEF DuplicatesInv, LetsGo
  <2> QED
    BY <2>1, <2>2 DEF DuplicatesInv
<1> QED
  BY <1>0, <1>1, <1>2, <1>3, <1>4, <1>5 DEF RunnerMoves

\* Every step pays for its duplicates.
LEMMA DuplicatesStep == BufferInv /\ BufferInv' /\ DuplicatesInv /\ [Step]_vars => DuplicatesInv'
<1> SUFFICES ASSUME BufferInv, BufferInv', DuplicatesInv, [Step]_vars PROVE DuplicatesInv'
  OBVIOUS
<1> USE DEF pluginVars, submitVars, bounds
<1>1. ASSUME UNCHANGED <<run, stopped, buf, accepted, errs, crashes>> PROVE DuplicatesInv'
  BY <1>1 DEF DuplicatesInv, HandInTable, Holds, Paid, Lingering, Settled
<1>2. ASSUME NEW e \in Entries, getActiveScrobblers(e) PROVE DuplicatesInv'
  BY <1>2, DuplicatesRefresh DEF getActiveScrobblers
<1>3. CASE dispatchNowPlaying
  BY <1>3, DuplicatesRefresh DEF dispatchNowPlaying
<1>4. CASE LoadPlugin \/ UnloadPlugin
  BY <1>1, <1>4 DEF LoadPlugin, UnloadPlugin
<1>5. CASE Crash
  <2>1. /\ \A r \in Runners : run'[r].pc \in {"off", "users", "done"}
        /\ crashes' = crashes + 1 /\ UNCHANGED <<stopped, accepted, errs>> /\ stopped \subseteq Runners
    BY <1>5, CrashEffect DEF BufferInv, Crash, TypeOK
  <2>2. HandInTable'
    BY <2>1 DEF HandInTable, Holds
  <2>3. ASSUME NEW e \in Entries PROVE Paid(e)'
    <3>1. Lingering(e)' = {}
      BY <2>1 DEF Lingering
    <3> QED
      BY <2>1, <3>1, StillPaid DEF DuplicatesInv
  <2> QED
    BY <2>2, <2>3 DEF DuplicatesInv
<1>6. ASSUME NEW r \in Runners, TimerFires(r) PROVE DuplicatesInv'
  BY <1>1, <1>6 DEF TimerFires
<1>7. CASE UNCHANGED vars
  BY <1>1, <1>7 DEF vars
<1> QED
  BY <1>2, <1>3, <1>4, <1>5, <1>6, <1>7, DuplicatesScrobble, DuplicatesRunner DEF Step

\* For any number of entries, goroutines, reloads, failures and crashes: a play is
\* reported more than once only as often as a delete failed, the process crashed or a
\* goroutine was stopped while it had the play in hand (Dequeue, Stop).
THEOREM DuplicatesArePaidFor == Spec => []DuplicatesExplained
<1>1. Init => DuplicatesInv
  <2> SUFFICES ASSUME Init PROVE DuplicatesInv
    OBVIOUS
  <2>1. \A r \in Runners : run[r].pc \in {"off", "users"}
    BY DEF Init, Idle
  <2>2. HandInTable
    BY <2>1 DEF HandInTable, Holds
  <2>3. ASSUME NEW e \in Entries PROVE Paid(e)
    <3>1. Lingering(e) = {} /\ stopped = {} /\ accepted[e] = 0 /\ errs = 0 /\ crashes = 0
      BY DEF Init, Lingering
    <3>2. Cardinality(Lingering(e)) = 0 /\ Cardinality(stopped) = 0
      BY <3>1, FS_EmptySet
    <3> QED
      BY <3>1, <3>2 DEF Paid
  <2> QED
    BY <2>2, <2>3 DEF DuplicatesInv
<1>2. BufferInv /\ BufferInv' /\ DuplicatesInv /\ [Step]_vars => DuplicatesInv'
  BY DuplicatesStep
<1>3. BufferInv /\ DuplicatesInv => DuplicatesExplained
  <2> SUFFICES ASSUME BufferInv, DuplicatesInv, NEW e \in Entries
               PROVE  accepted[e] <= 1 + errs + crashes + Cardinality(stopped)
    BY DEF DuplicatesExplained
  <2> DEFINE l == Cardinality(Lingering(e))
             c == Cardinality(stopped)
             p == IF Settled(e) THEN 1 ELSE 0
  <2>1. accepted[e] \in Nat /\ errs \in Nat /\ crashes \in Nat /\ l \in Nat /\ c \in Nat
    BY PaidTypes
  <2>2. accepted[e] + l <= errs + crashes + c + p /\ p \in {0, 1}
    BY DEF DuplicatesInv, Paid
  <2> HIDE DEF l, c, p
  <2>3. accepted[e] <= 1 + errs + crashes + c
    BY <2>1, <2>2
  <2> QED
    BY <2>3 DEF c
<1> QED
  BY <1>1, <1>2, <1>3, BufferInvariance, PTL DEF Spec
=============================================================================
