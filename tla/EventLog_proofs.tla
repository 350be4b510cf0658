-------------------------- MODULE EventLog_proofs --------------------------
(***************************************************************************)
(* What the page shows is on disk, and is shown once, and it loses events  *)
(* in no ways but those that Lost names, for any number of threads,        *)
(* refreshes, events and restarts.                                         *)
(***************************************************************************)
EXTENDS EventLog, FiniteSetTheorems, TLAPS

\* An event has its line before the page can hear of it.
OnDisk ==
    /\ \A w \in Threads : recording[w].stage = "append" => recording[w].seq \in file
    /\ \A i \in DOMAIN buffer : buffer[i] \in file
    /\ \A r \in Refreshes : \A e \in refreshing[r].events : e.run = run => e.seq \in file
    /\ ShownIsOnDisk

\* Numbers, runs and stages belong together.
RunsAgree ==
    /\ run \in 0..Restarts
    /\ \A w \in Threads : recording[w].stage # "free" => recording[w].seq > 0
    /\ \A r \in Refreshes : \A e \in refreshing[r].events : e.run <= run
    /\ \A e \in shown : e.run <= run

LogInv == LogTypeOK /\ RunsAgree /\ OnDisk

\* While refreshes do not overlap there is one at a time, and it brings only
\* what is newer than all the page has shown.
OneAtATime ==
    /\ \A q, r \in Refreshes :
          refreshing[q].stage # "quiet" /\ refreshing[r].stage # "quiet" => q = r
    /\ \A r \in Refreshes :
          /\ refreshing[r].stage = "asked" => refreshing[r].since = lastSeq
          /\ refreshing[r].stage # "served" => refreshing[r].events = {}
          /\ \A e \in refreshing[r].events : e.seq > lastSeq
    /\ ~repeated

PageInv ==
    /\ \A e \in shown : e.seq <= lastSeq
    /\ ~overlapped => OneAtATime
-----------------------------------------------------------------------------
LEMMA LogInvInit == LogInit => LogInv /\ PageInv
<1> SUFFICES ASSUME LogInit PROVE LogInv /\ PageInv
  OBVIOUS
<1>. USE EventLogAssumption DEF LogInit
<1>1. LogTypeOK
  <2>1. buffer \in Seq(1..Events) /\ Len(buffer) <= Buffer
    OBVIOUS
  <2>2. repeated \in BOOLEAN /\ overlapped \in BOOLEAN
    OBVIOUS
  <2>3. refreshing \in [Refreshes -> [stage : {"quiet", "asked", "served"},
                                      since : 0..lastSeq, events : SUBSET Recorded]]
    BY DEF Quiet
  <2>4. recording \in [Threads -> [stage : {"free", "write", "append"}, seq : 0..Events]]
    BY DEF Free
  <2>. QED BY <2>1, <2>2, <2>3, <2>4 DEF LogTypeOK
<1>2. OnDisk
  BY DEF OnDisk, ShownIsOnDisk, Quiet, Free
<1>3. PageInv
  BY DEF PageInv, OneAtATime, Quiet
<1>. QED BY <1>1, <1>2, <1>3 DEF LogInv, RunsAgree, Quiet, Free

\* A deque with maxlen keeps what it has, but for the oldest.
LEMMA EnterFacts ==
    ASSUME NEW S, NEW q \in Seq(S), NEW e \in S, Len(q) <= Buffer
    PROVE  /\ Enter(q, e) \in Seq(S)
           /\ Len(Enter(q, e)) <= Buffer
           /\ \A i \in DOMAIN Enter(q, e) :
                 Enter(q, e)[i] = e \/ \E j \in DOMAIN q : Enter(q, e)[i] = q[j]
<1>. DEFINE full == Append(q, e)
<1>1. full \in Seq(S) /\ Len(full) = Len(q) + 1
      /\ \A i \in DOMAIN full : full[i] = e \/ \E j \in DOMAIN q : full[i] = q[j]
  OBVIOUS
<1>. HIDE DEF full
<1>2. /\ Tail(full) \in Seq(S) /\ Len(Tail(full)) = Len(full) - 1
      /\ \A i \in DOMAIN Tail(full) : i + 1 \in DOMAIN full /\ Tail(full)[i] = full[i + 1]
  BY <1>1
<1>3. Enter(q, e) = IF Len(full) > Buffer THEN Tail(full) ELSE full
  BY DEF Enter, full
<1>. QED BY <1>1, <1>2, <1>3, EventLogAssumption

\* The types, in the parts that the two sides change.
RecordTypes ==
    /\ drawn \in 0..Events
    /\ recording \in [Threads -> [stage : {"free", "write", "append"}, seq : 0..Events]]
    /\ file \subseteq 1..Events
    /\ buffer \in Seq(1..Events) /\ Len(buffer) <= Buffer
    /\ latest \in 0..Events /\ overtaken \subseteq 1..Events

PageTypes ==
    /\ lastSeq \in 0..Events /\ inherited \in 0..lastSeq
    /\ shown \subseteq Recorded
    /\ refreshing \in [Refreshes -> [stage : {"quiet", "asked", "served"},
                                     since : 0..lastSeq, events : SUBSET Recorded]]

LEMMA TypesInParts ==
    LogTypeOK <=> /\ RecordTypes /\ PageTypes
                  /\ repeated \in BOOLEAN /\ overlapped \in BOOLEAN
BY DEF LogTypeOK, RecordTypes, PageTypes

LEMMA RecordInv ==
    ASSUME LogInv, NEW w \in Threads, Draw(w) \/ RecordStep(w)
    PROVE  LogInv'
<1>0. UNCHANGED <<pageVars, inherited, overlapped, run>>
  BY DEF Draw, RecordStep, Write, AppendEvent
<1>a. PageTypes' /\ (repeated \in BOOLEAN /\ overlapped \in BOOLEAN)'
  BY <1>0, TypesInParts DEF LogInv, PageTypes, pageVars
<1>b. RecordTypes
  BY TypesInParts DEF LogInv
<1>1. CASE Draw(w)
  <2>1. RecordTypes'
    BY <1>1, <1>b, EventLogAssumption DEF Draw, RecordTypes
  <2>2. RunsAgree'
    BY <1>0, <1>1, <1>b DEF LogInv, RunsAgree, Draw, pageVars, RecordTypes
  <2>3. OnDisk'
    BY <1>0, <1>1, <1>b DEF LogInv, OnDisk, ShownIsOnDisk, Draw, pageVars, RecordTypes
  <2>. QED BY <1>a, <2>1, <2>2, <2>3 DEF LogInv, LogTypeOK, RecordTypes, PageTypes
<1>2. CASE Write(w)
  <2>1. RecordTypes'
    BY <1>2, <1>b DEF Write, RecordTypes, LogInv, RunsAgree
  <2>2. RunsAgree'
    BY <1>0, <1>2, <1>b DEF LogInv, RunsAgree, Write, pageVars, RecordTypes
  <2>3. OnDisk'
    BY <1>0, <1>2, <1>b DEF LogInv, OnDisk, ShownIsOnDisk, Write, pageVars, RecordTypes
  <2>. QED BY <1>a, <2>1, <2>2, <2>3 DEF LogInv, LogTypeOK, RecordTypes, PageTypes
<1>3. CASE AppendEvent(w)
  <2>. DEFINE e == recording[w].seq
  <2>0. e \in 1..Events /\ e \in file
    BY <1>3, <1>b DEF AppendEvent, LogInv, RunsAgree, OnDisk, RecordTypes
  <2>1. /\ buffer' \in Seq(1..Events) /\ Len(buffer') <= Buffer
        /\ \A i \in DOMAIN buffer' : buffer'[i] = e \/ \E j \in DOMAIN buffer : buffer'[i] = buffer[j]
    <3>. buffer' = Enter(buffer, e) /\ buffer \in Seq(1..Events) /\ Len(buffer) <= Buffer
      BY <1>3, <1>b DEF AppendEvent, RecordTypes
    <3>. DEFINE S == 1..Events
    <3>1. buffer \in Seq(S) /\ e \in S
      BY <2>0
    <3>. HIDE DEF e, S
    <3>2. /\ Enter(buffer, e) \in Seq(S) /\ Len(Enter(buffer, e)) <= Buffer
          /\ \A i \in DOMAIN Enter(buffer, e) :
                \/ Enter(buffer, e)[i] = e
                \/ \E j \in DOMAIN buffer : Enter(buffer, e)[i] = buffer[j]
      BY <3>1, EnterFacts
    <3>. QED BY <3>2 DEF S
  <2>5. /\ recording' \in [Threads -> [stage : {"free", "write", "append"}, seq : 0..Events]]
        /\ UNCHANGED <<drawn, file>>
    BY <1>3, <1>b, EventLogAssumption DEF AppendEvent, RecordTypes, Free
  <2>6. latest' \in 0..Events /\ overtaken' \subseteq 1..Events
    BY <1>3, <1>b, <2>0 DEF AppendEvent, RecordTypes
  <2>2. RecordTypes'
    BY <1>b, <2>1, <2>5, <2>6 DEF RecordTypes
  <2>3. RunsAgree'
    BY <1>0, <1>3, <1>b DEF LogInv, RunsAgree, AppendEvent, pageVars, RecordTypes, Free
  <2>4. OnDisk'
    BY <1>0, <1>3, <1>b, <2>0, <2>1
       DEF LogInv, OnDisk, ShownIsOnDisk, AppendEvent, pageVars, RecordTypes, Free
  <2>. QED BY <1>a, <2>2, <2>3, <2>4 DEF LogInv, LogTypeOK, RecordTypes, PageTypes
<1>. QED BY <1>1, <1>2, <1>3 DEF RecordStep

\* A reply names events of the buffer, all newer than what was asked for.
LEMMA EventsSinceFacts ==
    ASSUME NEW seq, NEW e \in EventsSince(seq)
    PROVE  e > seq /\ \E i \in DOMAIN buffer : buffer[i] = e
BY DEF EventsSince

\* What a refresh gets.
Reply(r) == { [run |-> run, seq |-> e] : e \in EventsSince(refreshing[r].since) }

LEMMA ReplyFacts ==
    ASSUME LogInv, NEW r \in Refreshes
    PROVE  /\ Reply(r) \subseteq Recorded
           /\ \A e \in Reply(r) : /\ e.run = run /\ e.seq \in file
                                  /\ e.seq > refreshing[r].since
<1>1. ASSUME NEW n \in EventsSince(refreshing[r].since)
      PROVE  n \in 1..Events /\ n \in file /\ n > refreshing[r].since
  <2>1. PICK i \in DOMAIN buffer : buffer[i] = n
    BY EventsSinceFacts
  <2>. QED BY <2>1, EventsSinceFacts DEF LogInv, LogTypeOK, OnDisk
<1>. QED BY <1>1 DEF Reply, Recorded, LogInv, RunsAgree

LEMMA ServeIsReply ==
    ASSUME NEW r, Serve(r)
    PROVE  /\ refreshing' = [refreshing EXCEPT ![r] =
                  IF Reply(r) = {} THEN Quiet
                  ELSE [stage |-> "served", since |-> 0, events |-> Reply(r)]]
           /\ UNCHANGED <<serverVars, lastSeq, shown, repeated, inherited, overlapped>>
BY DEF Serve, Reply

LEMMA RefreshInv ==
    ASSUME LogInv, NEW r \in Refreshes, RefreshStep(r)
    PROVE  LogInv'
<1>0. UNCHANGED serverVars
  BY ServeIsReply DEF RefreshStep, Ask, DrawEvents
<1>a. RecordTypes' /\ RecordTypes
  BY <1>0, TypesInParts DEF LogInv, RecordTypes, serverVars
<1>b. PageTypes /\ repeated \in BOOLEAN /\ overlapped \in BOOLEAN
  BY TypesInParts DEF LogInv
<1>1. CASE Ask(r)
  <2>1. PageTypes' /\ (repeated \in BOOLEAN)'
    BY <1>1, <1>b DEF Ask, PageTypes
  <2>2. overlapped' \in BOOLEAN
    BY <1>1 DEF Ask
  <2>3. RunsAgree' /\ OnDisk'
    BY <1>0, <1>1, <1>b
       DEF LogInv, RunsAgree, OnDisk, ShownIsOnDisk, Ask, serverVars, PageTypes
  <2>. QED BY <1>a, <2>1, <2>2, <2>3 DEF LogInv, LogTypeOK, RecordTypes, PageTypes
<1>2. CASE Serve(r)
  <2>1. PageTypes'
    BY <1>2, <1>b, ReplyFacts, ServeIsReply DEF PageTypes, Quiet
  <2>2. (repeated \in BOOLEAN)' /\ (overlapped \in BOOLEAN)'
    BY <1>2, <1>b DEF Serve
  <2>3. RunsAgree' /\ OnDisk'
    BY <1>0, <1>2, <1>b, ReplyFacts, ServeIsReply
       DEF LogInv, RunsAgree, OnDisk, ShownIsOnDisk, serverVars, PageTypes, Quiet
  <2>. QED BY <1>a, <2>1, <2>2, <2>3 DEF LogInv, LogTypeOK, RecordTypes, PageTypes
<1>3. CASE DrawEvents(r)
  <2>1. refreshing[r].events \subseteq Recorded
    BY <1>b DEF PageTypes
  <2>2. /\ lastSeq' \in 0..Events /\ lastSeq <= lastSeq'
        /\ inherited' \in {inherited, lastSeq'}
        /\ shown' = shown \cup refreshing[r].events
        /\ refreshing' = [refreshing EXCEPT ![r] = Quiet]
    BY <1>3, <2>1, <1>b DEF DrawEvents, PageTypes, Recorded
  <2>3. PageTypes'
    BY <2>1, <2>2, <1>b DEF PageTypes, Quiet
  <2>4. repeated' \in BOOLEAN /\ overlapped' \in BOOLEAN
    BY <1>3, <1>b DEF DrawEvents
  <2>5. RunsAgree' /\ OnDisk'
    BY <1>0, <2>1, <2>2, <1>b
       DEF LogInv, RunsAgree, OnDisk, ShownIsOnDisk, serverVars, PageTypes, Quiet
  <2>. QED BY <1>a, <2>3, <2>4, <2>5 DEF LogInv, LogTypeOK, RecordTypes, PageTypes
<1>. QED BY <1>1, <1>2, <1>3 DEF RefreshStep

LEMMA RestartInv ==
    ASSUME LogInv, Restart
    PROVE  LogInv'
<1>. USE EventLogAssumption DEF Restart
<1>b. RecordTypes /\ PageTypes /\ repeated \in BOOLEAN /\ overlapped \in BOOLEAN
  BY TypesInParts DEF LogInv
<1>1. RecordTypes'
  BY DEF RecordTypes, Free
<1>2. refreshing' \in [Refreshes -> [stage : {"quiet", "asked", "served"},
                                     since : 0..lastSeq, events : SUBSET Recorded]]
  BY <1>b DEF PageTypes, Quiet
<1>3. PageTypes'
  BY <1>b, <1>2 DEF PageTypes
<1>4. (repeated \in BOOLEAN)' /\ (overlapped \in BOOLEAN)'
  BY <1>b
<1>5. run' = run + 1 /\ run' \in 0..Restarts
  BY DEF LogInv, RunsAgree
<1>6. RunsAgree'
  BY <1>5, <1>b DEF LogInv, RunsAgree, Quiet, Free, PageTypes, Recorded
<1>7. OnDisk'
  BY <1>5, <1>b DEF LogInv, RunsAgree, OnDisk, ShownIsOnDisk, Quiet, Free, PageTypes,
       Recorded
<1>. QED BY <1>1, <1>3, <1>4, <1>6, <1>7 DEF LogInv, LogTypeOK, RecordTypes, PageTypes

LEMMA LogInvNext == LogInv /\ [LogNext]_logVars => LogInv'
<1>1. LogInv /\ UNCHANGED logVars => LogInv'
  BY DEF logVars, serverVars, pageVars, LogInv, LogTypeOK, RunsAgree, OnDisk, ShownIsOnDisk
<1>. QED BY <1>1, RecordInv, RefreshInv, RestartInv DEF LogNext

-----------------------------------------------------------------------------
\* Only the page's own steps touch what the page has shown.
LEMMA PageInvNext == LogInv /\ PageInv /\ [LogNext]_logVars => PageInv'
<1> SUFFICES ASSUME LogInv, PageInv, [LogNext]_logVars PROVE PageInv'
  OBVIOUS
<1>b. PageTypes
  BY TypesInParts DEF LogInv
<1>1. CASE UNCHANGED <<pageVars, overlapped>>
  BY <1>1 DEF PageInv, OneAtATime, pageVars
<1>2. CASE Restart
  BY <1>2, <1>b DEF Restart, PageInv, OneAtATime, PageTypes, Quiet
<1>3. ASSUME NEW r \in Refreshes, Ask(r) PROVE PageInv'
  <2>1. \A e \in shown' : e.seq <= lastSeq'
    BY <1>3 DEF Ask, PageInv
  <2>2. ASSUME ~overlapped' PROVE OneAtATime'
    BY <1>3, <1>b, <2>2 DEF Ask, PageInv, OneAtATime, PageTypes
  <2>. QED BY <2>1, <2>2 DEF PageInv
<1>4. ASSUME NEW r \in Refreshes, Serve(r) PROVE PageInv'
  <2>1. \A e \in shown' : e.seq <= lastSeq'
    BY <1>4 DEF Serve, PageInv
  <2>2. ASSUME ~overlapped' PROVE OneAtATime'
    <3>1. ~overlapped /\ OneAtATime /\ refreshing[r].stage = "asked"
      BY <1>4, <2>2 DEF Serve, PageInv
    <3>. QED BY <3>1, <1>4, <1>b, ReplyFacts, ServeIsReply DEF OneAtATime, PageTypes, Quiet
  <2>. QED BY <2>1, <2>2 DEF PageInv
<1>5. ASSUME NEW r \in Refreshes, DrawEvents(r) PROVE PageInv'
  <2>1. /\ refreshing[r].events \subseteq Recorded
        /\ lastSeq' \in Nat /\ lastSeq \in Nat /\ lastSeq <= lastSeq'
        /\ \A e \in refreshing[r].events : e.seq <= lastSeq'
        /\ shown \subseteq Recorded
    BY <1>5, <1>b, EventLogAssumption DEF DrawEvents, PageTypes, Recorded
  <2>2. \A e \in shown' : e.seq <= lastSeq'
    BY <1>5, <2>1 DEF DrawEvents, PageInv, Recorded
  <2>3. ASSUME ~overlapped' PROVE OneAtATime'
    <3>1. ~overlapped /\ OneAtATime /\ refreshing[r].stage = "served"
      BY <1>5, <2>3 DEF DrawEvents, PageInv
    <3>2. refreshing[r].events \cap shown = {}
      BY <3>1, <2>1 DEF OneAtATime, PageInv, Recorded
    <3>3. ~repeated'
      BY <3>1, <3>2, <1>5 DEF DrawEvents, OneAtATime
    <3>4. \A q \in Refreshes : q # r => refreshing[q].stage = "quiet"
      BY <3>1 DEF OneAtATime
    <3>. QED BY <3>1, <3>3, <3>4, <1>5, <1>b DEF OneAtATime, DrawEvents, PageTypes, Quiet
  <2>. QED BY <2>2, <2>3 DEF PageInv
<1>. QED
  BY <1>1, <1>2, <1>3, <1>4, <1>5
     DEF LogNext, Draw, RecordStep, Write, AppendEvent, RefreshStep, logVars

-----------------------------------------------------------------------------
\* An event of the buffer need not be brought to the page any more.
Heard(i) == Shown(run, i) \/ OnTheWay(i) \/ Lost(i)

\* The numbers drawn are different, and none has entered the buffer before its
\* thread is through.
NumbersOnce ==
    /\ latest <= drawn
    /\ \A w \in Threads : recording[w].stage # "free" =>
          /\ recording[w].seq <= drawn
          /\ recording[w].seq # latest
          /\ \A v \in Threads \ {w} :
                recording[v].stage # "free" => recording[v].seq # recording[w].seq

\* What the page knows of this controller has entered the buffer.
KnownEntered ==
    /\ \A i \in DOMAIN buffer : buffer[i] <= latest
    /\ \A r \in Refreshes : \A e \in refreshing[r].events : e.run = run => e.seq <= latest
    /\ lastSeq > inherited => lastSeq <= latest

\* A reply may be drawn at any time: nothing older is still to be heard of.
RepliesCover ==
    \A r \in Refreshes :
        /\ refreshing[r].stage # "served" => refreshing[r].events = {}
        /\ \A e \in refreshing[r].events : e.run = run =>
              \A i \in DOMAIN buffer : buffer[i] <= e.seq => Heard(i)

LossInv == NumbersOnce /\ KnownEntered /\ RepliesCover /\ NothingElseIsLost

\* The buffer holds numbers.
LEMMA BufferNumbers ==
    ASSUME LogInv, NEW i \in DOMAIN buffer
    PROVE  buffer[i] \in 1..Events /\ buffer[i] \in Nat
<1>1. buffer \in Seq(1..Events)
  BY DEF LogInv, LogTypeOK
<1>2. i \in 1..Len(buffer)
  BY <1>1
<1>3. \A S : buffer \in Seq(S) => buffer[i] \in S
  BY <1>2
<1>. QED BY <1>1, <1>3, EventLogAssumption

\* The deque moves the events that stay one place away from its end, or keeps
\* them where they were and grows.
LEMMA EnterPositions ==
    ASSUME NEW S, NEW q \in Seq(S), NEW e \in S, Len(q) <= Buffer,
           NEW i \in DOMAIN Enter(q, e)
    PROVE  \/ Enter(q, e)[i] = e
           \/ \E j \in DOMAIN q : /\ Enter(q, e)[i] = q[j]
                                  /\ Len(Enter(q, e)) - i = Len(q) - j + 1
<1>. DEFINE full == Append(q, e)
<1>1. full \in Seq(S) /\ Len(full) = Len(q) + 1 /\ Len(q) \in Nat
      /\ \A k \in DOMAIN full : full[k] = e \/ (k \in DOMAIN q /\ full[k] = q[k])
  OBVIOUS
<1>. HIDE DEF full
<1>2. CASE Len(full) > Buffer
  <2>1. Enter(q, e) = Tail(full) /\ Len(Tail(full)) = Len(full) - 1
    BY <1>1, <1>2, EventLogAssumption DEF Enter, full
  <2>2. i \in Nat /\ i + 1 \in DOMAIN full /\ Enter(q, e)[i] = full[i + 1]
    BY <1>1, <1>2, <2>1, EventLogAssumption
  <2>3. Len(Tail(full)) - i = Len(q) - (i + 1) + 1
    BY <1>1, <2>1, <2>2
  <2>. QED BY <1>1, <2>1, <2>2, <2>3
<1>3. CASE ~(Len(full) > Buffer)
  <2>1. Enter(q, e) = full
    BY <1>3 DEF Enter, full
  <2>2. i \in Nat /\ i \in DOMAIN full /\ Len(full) - i = Len(q) - i + 1
    BY <1>1, <2>1
  <2>. QED BY <1>1, <2>1, <2>2
<1>. QED BY <1>2, <1>3

\* What is heard of stays so where run and page stay and the buffer's history
\* only grows.
LEMMA StillHeard ==
    ASSUME LogInv, UNCHANGED <<buffer, run>>, Limit \in Nat,
           overtaken \subseteq overtaken', inherited' = inherited,
           shown \subseteq shown',
           \A r \in Refreshes : \A e \in refreshing[r].events :
               e \in shown' \/ e \in refreshing'[r].events,
           NEW i \in DOMAIN buffer, Heard(i)
    PROVE  Heard(i)'
<1>1. CASE Shown(run, i)
  BY <1>1 DEF Heard, Shown
<1>2. CASE OnTheWay(i)
  BY <1>2 DEF Heard, Shown, OnTheWay
<1>3. CASE Lost(i)
  BY <1>3 DEF Heard, Lost
<1>. QED BY <1>1, <1>2, <1>3 DEF Heard

LEMMA LossInit == LogInit => LossInv
BY EventLogAssumption
   DEF LogInit, LossInv, NumbersOnce, KnownEntered, RepliesCover, NothingElseIsLost, Free, Quiet

\* Drawing a number and writing the line concern nobody but the thread.
LEMMA DrawWriteLoss ==
    ASSUME LogInv, LossInv, NEW w \in Threads, Draw(w) \/ Write(w)
    PROVE  LossInv'
<1>1. /\ UNCHANGED <<buffer, run, latest, overtaken, pageVars, inherited>>
      /\ \/ drawn' = drawn
         \/ Draw(w) /\ drawn' = drawn + 1
  BY DEF Draw, Write
<1>2. RecordTypes
  BY TypesInParts DEF LogInv
<1>3. NumbersOnce'
  <2>1. CASE Draw(w)
    BY <1>1, <1>2, <2>1, EventLogAssumption DEF Draw, LossInv, NumbersOnce, RecordTypes
  <2>2. CASE Write(w)
    BY <1>1, <1>2, <2>2 DEF Write, LossInv, NumbersOnce, RecordTypes
  <2>. QED BY <2>1, <2>2
<1>4. KnownEntered' /\ RepliesCover' /\ NothingElseIsLost'
  BY <1>1 DEF LossInv, KnownEntered, RepliesCover, NothingElseIsLost, Heard, Shown, OnTheWay,
     Lost, pageVars
<1>. QED BY <1>3, <1>4 DEF LossInv

\* An event that enters the buffer is heard of already, or newer than what
\* anybody asks for; and it moves the others no nearer to its end.
LEMMA AppendLoss ==
    ASSUME LogInv, LossInv, NEW w \in Threads, AppendEvent(w)
    PROVE  LossInv'
<1>. DEFINE e == recording[w].seq
<1>0. /\ RecordTypes /\ PageTypes
      /\ UNCHANGED <<drawn, run, pageVars, inherited>>
      /\ recording' = [recording EXCEPT ![w] = Free]
      /\ recording[w].stage # "free" /\ buffer' = Enter(buffer, e)
  BY TypesInParts DEF LogInv, AppendEvent
<1>1. /\ e \in 1..Events /\ latest \in Nat /\ drawn \in Nat /\ e # latest /\ e <= drawn
      /\ Limit \in Nat /\ Events \in Nat /\ lastSeq \in Nat /\ inherited \in Nat
  BY <1>0, EventLogAssumption DEF LogInv, RunsAgree, RecordTypes, PageTypes, LossInv, NumbersOnce
<1>2. /\ e < latest => latest' = latest /\ overtaken' = overtaken \cup {e}
      /\ ~(e < latest) => latest' = e /\ overtaken' = overtaken
  BY DEF AppendEvent
<1>3. /\ latest <= latest' /\ e <= latest' /\ latest' \in Nat /\ latest' <= drawn
      /\ latest' \in {latest, e}
      /\ overtaken \subseteq overtaken' /\ (e < latest => e \in overtaken')
  BY <1>1, <1>2 DEF LossInv, NumbersOnce
<1>4. ASSUME NEW i \in DOMAIN buffer'
      PROVE  \/ buffer'[i] = e
             \/ \E j \in DOMAIN buffer : /\ buffer'[i] = buffer[j]
                                         /\ Len(buffer') - i = Len(buffer) - j + 1
  <2>. DEFINE S == 1..Events
  <2>1. buffer \in Seq(S) /\ e \in S /\ Len(buffer) <= Buffer /\ i \in DOMAIN Enter(buffer, e)
    BY <1>0, <1>1, <1>4 DEF RecordTypes
  <2>. HIDE DEF e, S
  <2>2. \/ Enter(buffer, e)[i] = e
        \/ \E j \in DOMAIN buffer : /\ Enter(buffer, e)[i] = buffer[j]
                                    /\ Len(Enter(buffer, e)) - i = Len(buffer) - j + 1
    BY <2>1, EnterPositions
  <2>. QED BY <1>0, <2>2
<1>5. ASSUME NEW i \in DOMAIN buffer', NEW j \in DOMAIN buffer, Heard(j),
             buffer'[i] = buffer[j], Len(buffer') - i = Len(buffer) - j + 1
      PROVE  Heard(i)'
  <2>1. Shown(run, j) => Shown(run, i)'
    BY <1>0, <1>5 DEF Shown, pageVars
  <2>2. OnTheWay(j) => OnTheWay(i)'
    BY <1>0, <1>5 DEF OnTheWay, pageVars
  <2>3. buffer \in Seq(1..Events) /\ buffer' \in Seq(1..Events)
    BY <1>0, RecordInv DEF LogInv, LogTypeOK, RecordStep
  <2>4. i \in Nat /\ j \in Nat /\ Len(buffer) \in Nat /\ Len(buffer') \in Nat
    BY <1>5, <2>3
  <2>5. j <= Len(buffer) - Limit => i <= Len(buffer') - Limit
    BY <1>1, <1>5, <2>4
  <2>6. Lost(j) => Lost(i)'
    BY <1>0, <1>3, <1>5, <2>5 DEF Lost
  <2>. QED BY <1>5, <2>1, <2>2, <2>6 DEF Heard
<1>6. ASSUME NEW i \in DOMAIN buffer', buffer'[i] = e, e <= latest
      PROVE  Heard(i)'
  BY <1>1, <1>3, <1>6 DEF Heard, Lost
<1>7. NumbersOnce'
  BY <1>0, <1>1, <1>3 DEF LossInv, NumbersOnce, RecordTypes, Free
<1>8. KnownEntered'
  <2>1. ASSUME NEW i \in DOMAIN buffer' PROVE buffer'[i] <= latest'
    <3>1. CASE buffer'[i] = e
      BY <1>3, <3>1
    <3>2. ASSUME NEW j \in DOMAIN buffer, buffer'[i] = buffer[j] PROVE buffer'[i] <= latest'
      <4>1. buffer[j] <= latest
        BY DEF LossInv, KnownEntered
      <4>2. buffer[j] \in 1..Events
        BY BufferNumbers
      <4>. QED BY <1>1, <1>3, <3>2, <4>1, <4>2
    <3>. QED BY <1>4, <3>1, <3>2
  <2>2. ASSUME NEW r \in Refreshes, NEW n \in refreshing'[r].events, n.run = run'
        PROVE  n.seq <= latest'
    <3>1. n \in refreshing[r].events /\ n.seq \in 1..Events
      BY <1>0, <2>2 DEF PageTypes, pageVars, Recorded
    <3>2. n.seq <= latest
      BY <1>0, <2>2, <3>1 DEF LossInv, KnownEntered
    <3>. QED BY <1>1, <1>3, <3>1, <3>2
  <2>3. lastSeq' > inherited' => lastSeq' <= latest'
    BY <1>0, <1>1, <1>3 DEF LossInv, KnownEntered, pageVars
  <2>. QED BY <2>1, <2>2, <2>3 DEF KnownEntered
<1>9. RepliesCover'
  <2>1. ASSUME NEW r \in Refreshes, NEW n \in refreshing'[r].events, n.run = run',
               NEW i \in DOMAIN buffer', buffer'[i] <= n.seq
        PROVE  Heard(i)'
    <3>1. n \in refreshing[r].events /\ n.run = run /\ n.seq \in 1..Events
      BY <1>0, <2>1 DEF PageTypes, pageVars, Recorded
    <3>2. n.seq <= latest
      BY <3>1 DEF LossInv, KnownEntered
    <3>3. CASE buffer'[i] = e
      BY <1>1, <1>6, <2>1, <3>1, <3>2, <3>3
    <3>4. ASSUME NEW j \in DOMAIN buffer, buffer'[i] = buffer[j],
                 Len(buffer') - i = Len(buffer) - j + 1
          PROVE  Heard(i)'
      BY <1>5, <2>1, <3>1, <3>4 DEF LossInv, RepliesCover
    <3>. QED BY <1>4, <3>3, <3>4
  <2>2. \A r \in Refreshes : refreshing'[r].stage # "served" => refreshing'[r].events = {}
    BY <1>0 DEF LossInv, RepliesCover, pageVars
  <2>. QED BY <2>1, <2>2 DEF RepliesCover
<1>10. NothingElseIsLost'
  <2>1. ASSUME NEW i \in DOMAIN buffer', buffer'[i] <= lastSeq' PROVE Heard(i)'
    <3>0. lastSeq' = lastSeq /\ inherited' = inherited
      BY <1>0 DEF pageVars
    <3>1. CASE buffer'[i] = e
      <4>1. CASE lastSeq > inherited
        <5>1. e <= latest
          BY <1>1, <2>1, <3>0, <3>1, <4>1 DEF LossInv, KnownEntered
        <5>. QED BY <1>6, <3>1, <5>1
      <4>2. CASE ~(lastSeq > inherited)
        BY <1>1, <2>1, <3>0, <3>1, <4>2 DEF Heard, Lost
      <4>. QED BY <4>1, <4>2
    <3>2. ASSUME NEW j \in DOMAIN buffer, buffer'[i] = buffer[j],
                 Len(buffer') - i = Len(buffer) - j + 1
          PROVE  Heard(i)'
      BY <1>5, <2>1, <3>0, <3>2 DEF LossInv, NothingElseIsLost, Heard
    <3>. QED BY <1>4, <3>1, <3>2
  <2>. QED BY <2>1 DEF NothingElseIsLost, Heard
<1>. QED BY <1>7, <1>8, <1>9, <1>10 DEF LossInv

\* Asking brings nothing and loses nothing.
LEMMA AskLoss ==
    ASSUME LogInv, LossInv, NEW r \in Refreshes, Ask(r)
    PROVE  LossInv'
<1>1. /\ PageTypes /\ Limit \in Nat
      /\ UNCHANGED <<serverVars, lastSeq, shown, inherited>>
      /\ refreshing' = [refreshing EXCEPT ![r] = [stage |-> "asked", since |-> lastSeq,
                                                  events |-> {}]]
      /\ refreshing[r].stage = "quiet"
  BY TypesInParts, EventLogAssumption DEF LogInv, Ask
<1>2. refreshing[r].events = {}
  BY <1>1 DEF LossInv, RepliesCover
<1>3. \A q \in Refreshes : refreshing'[q].events = refreshing[q].events
  BY <1>1, <1>2 DEF PageTypes
<1>4. \A i \in DOMAIN buffer : Heard(i) => Heard(i)'
  BY <1>1, <1>3, StillHeard DEF serverVars
<1>5. NumbersOnce' /\ KnownEntered'
  BY <1>1, <1>3 DEF LossInv, NumbersOnce, KnownEntered, serverVars
<1>6. RepliesCover'
  <2>1. \A q \in Refreshes : refreshing'[q].stage # "served" => refreshing'[q].events = {}
    BY <1>1 DEF LossInv, RepliesCover, PageTypes
  <2>. QED BY <1>1, <1>3, <1>4, <2>1 DEF LossInv, RepliesCover, serverVars
<1>7. NothingElseIsLost'
  BY <1>1, <1>4 DEF LossInv, NothingElseIsLost, Heard, serverVars
<1>. QED BY <1>5, <1>6, <1>7 DEF LossInv

\* What a reply leaves out has Limit newer ones after it.
LEMMA LeftOut ==
    ASSUME NEW seq \in Nat, buffer \in Seq(1..Events), Limit \in Nat,
           NEW i \in DOMAIN buffer, buffer[i] > seq, buffer[i] \notin EventsSince(seq)
    PROVE  i <= Len(buffer) - Limit
<1>1. Len(buffer) \in Nat /\ i \in 1..Len(buffer)
  OBVIOUS
<1>2. IsFiniteSet(After(seq, i)) /\ Cardinality(After(seq, i)) <= Len(buffer) - i
  <2>1. After(seq, i) \subseteq i + 1..Len(buffer)
    BY <1>1 DEF After
  <2>2. /\ IsFiniteSet(i + 1..Len(buffer))
        /\ Cardinality(i + 1..Len(buffer)) = Len(buffer) - i
    <3>1. i + 1 \in Int /\ Len(buffer) \in Int
      BY <1>1
    <3>2. /\ IsFiniteSet(i + 1..Len(buffer))
          /\ Cardinality(i + 1..Len(buffer)) =
                IF i + 1 > Len(buffer) THEN 0 ELSE Len(buffer) - (i + 1) + 1
      BY <3>1, FS_Interval
    <3>. QED BY <1>1, <3>2
  <2>. QED BY <2>1, <2>2, FS_Subset
<1>3. Cardinality(After(seq, i)) \in Nat
  BY <1>2, FS_CardinalityType
<1>4. ~(Cardinality(After(seq, i)) < Limit)
  BY DEF EventsSince
<1>. QED BY <1>1, <1>2, <1>3, <1>4

\* A reply brings what is newer than what was asked for, or that is too old.
LEMMA ServeLoss ==
    ASSUME LogInv, LossInv, NEW r \in Refreshes, Serve(r)
    PROVE  LossInv'
<1>1. /\ PageTypes /\ RecordTypes /\ Limit \in Nat
      /\ UNCHANGED <<serverVars, lastSeq, shown, inherited>>
      /\ refreshing[r].stage = "asked"
      /\ refreshing' = [refreshing EXCEPT ![r] =
                  IF Reply(r) = {} THEN Quiet
                  ELSE [stage |-> "served", since |-> 0, events |-> Reply(r)]]
  BY TypesInParts, EventLogAssumption, ServeIsReply DEF LogInv, Serve
<1>2. refreshing[r].events = {}
  BY <1>1 DEF LossInv, RepliesCover
<1>3. /\ refreshing'[r].events = Reply(r)
      /\ Reply(r) # {} => refreshing'[r].stage = "served"
      /\ \A q \in Refreshes \ {r} : refreshing'[q] = refreshing[q]
  BY <1>1 DEF PageTypes, Quiet
<1>4. \A i \in DOMAIN buffer : Heard(i) => Heard(i)'
  <2>1. \A q \in Refreshes : \A e \in refreshing[q].events : e \in refreshing'[q].events
    BY <1>2, <1>3
  <2>. QED BY <1>1, <2>1, StillHeard DEF serverVars
<1>5. \A e \in Reply(r) : \E i \in DOMAIN buffer : e.seq = buffer[i]
  BY EventsSinceFacts DEF Reply
<1>6. NumbersOnce' /\ KnownEntered'
  BY <1>1, <1>3, <1>5 DEF LossInv, NumbersOnce, KnownEntered, serverVars
<1>7. ASSUME NEW i \in DOMAIN buffer PROVE Heard(i)'
  <2>1. refreshing[r].since \in 0..lastSeq /\ lastSeq \in Nat /\ buffer[i] \in 1..Events
    BY <1>1, BufferNumbers DEF PageTypes
  <2>2. CASE buffer[i] <= lastSeq
    BY <1>4, <2>2 DEF LossInv, NothingElseIsLost, Heard
  <2>3. CASE buffer[i] \in EventsSince(refreshing[r].since)
    BY <1>1, <1>3, <2>3 DEF Heard, OnTheWay, Reply, serverVars
  <2>4. CASE ~(buffer[i] <= lastSeq) /\ buffer[i] \notin EventsSince(refreshing[r].since)
    <3>1. i <= Len(buffer) - Limit
      BY <1>1, <2>1, <2>4, LeftOut DEF RecordTypes
    <3>. QED BY <1>1, <3>1 DEF Heard, Lost, serverVars
  <2>. QED BY <2>2, <2>3, <2>4
<1>8. RepliesCover'
  <2>1. \A q \in Refreshes : refreshing'[q].stage # "served" => refreshing'[q].events = {}
    BY <1>3 DEF LossInv, RepliesCover
  <2>. QED BY <1>1, <1>7, <2>1 DEF RepliesCover, serverVars
<1>9. NothingElseIsLost'
  BY <1>1, <1>7 DEF NothingElseIsLost, Heard, serverVars
<1>. QED BY <1>6, <1>8, <1>9 DEF LossInv

\* Drawing a reply moves lastSeq over nothing but what was heard of, or over
\* the numbers of another controller.
LEMMA DrawLoss ==
    ASSUME LogInv, LossInv, NEW r \in Refreshes, DrawEvents(r)
    PROVE  LossInv'
<1>. DEFINE events == refreshing[r].events
<1>1. /\ PageTypes /\ RecordTypes /\ Limit \in Nat
      /\ UNCHANGED serverVars
      /\ shown' = shown \cup events
      /\ refreshing' = [refreshing EXCEPT ![r] = Quiet]
      /\ lastSeq' \in { e.seq : e \in events } \cup {lastSeq}
      /\ inherited' = IF \A e \in events : e.run = run THEN inherited ELSE lastSeq'
  BY TypesInParts, EventLogAssumption DEF LogInv, DrawEvents
<1>2. /\ refreshing'[r] = Quiet
      /\ \A q \in Refreshes \ {r} : refreshing'[q] = refreshing[q]
  BY <1>1 DEF PageTypes
<1>3. NumbersOnce'
  BY <1>1 DEF LossInv, NumbersOnce, serverVars
<1>4. ASSUME \A e \in events : e.run = run PROVE LossInv'
  <2>1. inherited' = inherited
    BY <1>1, <1>4
  <2>2. \A i \in DOMAIN buffer : Heard(i) => Heard(i)'
    <3>1. \A q \in Refreshes : \A e \in refreshing[q].events :
              e \in shown' \/ e \in refreshing'[q].events
      BY <1>1, <1>2
    <3>. QED BY <1>1, <2>1, <3>1, StillHeard DEF serverVars
  <2>3. KnownEntered'
    BY <1>1, <1>2, <1>4, <2>1 DEF LossInv, KnownEntered, serverVars, Quiet
  <2>4. RepliesCover'
    BY <1>1, <1>2, <2>2 DEF LossInv, RepliesCover, serverVars, Quiet
  <2>5. NothingElseIsLost'
    <3>1. ASSUME NEW i \in DOMAIN buffer, buffer[i] <= lastSeq' PROVE Heard(i)
      <4>1. CASE lastSeq' = lastSeq
        BY <3>1, <4>1 DEF LossInv, NothingElseIsLost, Heard
      <4>2. ASSUME NEW e \in events, lastSeq' = e.seq PROVE Heard(i)
        BY <1>4, <3>1, <4>2 DEF LossInv, RepliesCover
      <4>. QED BY <1>1, <4>1, <4>2
    <3>. QED BY <1>1, <2>2, <3>1 DEF NothingElseIsLost, Heard, serverVars
  <2>. QED BY <1>3, <2>3, <2>4, <2>5 DEF LossInv
<1>5. ASSUME ~(\A e \in events : e.run = run) PROVE LossInv'
  <2>1. inherited' = lastSeq' /\ lastSeq' \in Nat /\ lastSeq <= lastSeq'
    BY <1>1, <1>5 DEF PageTypes, Recorded, DrawEvents
  <2>2. ASSUME NEW i \in DOMAIN buffer, Heard(i) PROVE Heard(i)'
    <3>1. Shown(run, i) => Shown(run, i)'
      BY <1>1 DEF Shown, serverVars
    <3>2. OnTheWay(i) => OnTheWay(i)' \/ Shown(run, i)'
      BY <1>1, <1>2 DEF Shown, OnTheWay, serverVars
    <3>3. Lost(i) => Lost(i)'
      <4>1. inherited <= inherited' /\ inherited \in Nat /\ buffer[i] \in Nat
        BY <1>1, <2>1, BufferNumbers DEF PageTypes
      <4>. QED BY <1>1, <2>1, <4>1 DEF Lost, serverVars
    <3>. QED BY <2>2, <3>1, <3>2, <3>3 DEF Heard
  <2>3. KnownEntered'
    BY <1>1, <1>2, <2>1 DEF LossInv, KnownEntered, serverVars, Quiet
  <2>4. RepliesCover'
    BY <1>1, <1>2, <2>2 DEF LossInv, RepliesCover, serverVars, Quiet
  <2>5. NothingElseIsLost'
    BY <1>1, <2>1 DEF NothingElseIsLost, Lost, serverVars
  <2>. QED BY <1>3, <2>3, <2>4, <2>5 DEF LossInv
<1>. QED BY <1>4, <1>5

\* The restarted controller has an empty buffer, and what is still to come
\* of the old one is not its own.
LEMMA RestartLoss ==
    ASSUME LogInv, LossInv, Restart
    PROVE  LossInv'
<1>1. /\ PageTypes /\ run \in Nat /\ run' = run + 1
      /\ buffer' = <<>> /\ drawn' = 0 /\ latest' = 0
      /\ recording' = [w \in Threads |-> Free]
      /\ lastSeq' = lastSeq /\ inherited' = lastSeq /\ lastSeq \in Nat
      /\ refreshing' = [r \in Refreshes |->
                           IF refreshing[r].stage = "asked" THEN Quiet ELSE refreshing[r]]
  BY TypesInParts, EventLogAssumption DEF LogInv, RunsAgree, Restart, PageTypes
<1>2. DOMAIN buffer' = {}
  BY <1>1
<1>3. NumbersOnce'
  BY <1>1 DEF NumbersOnce, Free
<1>4. \A r \in Refreshes : \A e \in refreshing'[r].events : e.run # run'
  <2>1. ASSUME NEW r \in Refreshes, NEW e \in refreshing[r].events PROVE e.run <= run /\ e.run \in Nat
    BY <1>1 DEF LogInv, RunsAgree, PageTypes, Recorded
  <2>. QED BY <1>1, <2>1 DEF Quiet
<1>5. KnownEntered'
  BY <1>1, <1>2, <1>4 DEF KnownEntered
<1>6. RepliesCover'
  BY <1>1, <1>4 DEF LossInv, RepliesCover, Quiet
<1>7. NothingElseIsLost'
  BY <1>2 DEF NothingElseIsLost
<1>. QED BY <1>3, <1>5, <1>6, <1>7 DEF LossInv

LEMMA LossNext == LogInv /\ LossInv /\ [LogNext]_logVars => LossInv'
<1>1. LossInv /\ UNCHANGED logVars => LossInv'
  BY DEF logVars, serverVars, pageVars, LossInv, NumbersOnce, KnownEntered, RepliesCover,
     NothingElseIsLost, Heard, Shown, OnTheWay, Lost
<1>. QED BY <1>1, DrawWriteLoss, AppendLoss, AskLoss, ServeLoss, DrawLoss, RestartLoss
         DEF LogNext, RecordStep, RefreshStep

-----------------------------------------------------------------------------
\* The numbers, the buffer, the replies and what the page has shown fit
\* together, whoever records and refreshes beside whom, across restarts.
THEOREM LogInvariant == LogSpec => [](LogInv /\ PageInv)
<1>1. LogInit => LogInv /\ PageInv
  BY LogInvInit
<1>2. LogInv /\ PageInv /\ [LogNext]_logVars => (LogInv /\ PageInv)'
  BY LogInvNext, PageInvNext
<1>. QED BY <1>1, <1>2, PTL DEF LogSpec

\* The page shows nothing that the log on disk does not have, for a line is
\* written before its event enters the buffer (controller.py record).
THEOREM ShownAreOnDisk == LogSpec => []ShownIsOnDisk
<1>1. LogInv => ShownIsOnDisk
  BY DEF LogInv, OnDisk
<1>. QED BY <1>1, LogInvariant, PTL

\* While the page's refreshes do not overlap, no event is drawn twice, also
\* when the controller was restarted (dashboard.html refresh, drawEvents).
THEOREM EventsAreShownOnce == LogSpec => []ShownOnce
<1>1. PageInv => ShownOnce
  BY DEF PageInv, OneAtATime, ShownOnce
<1>. QED BY <1>1, LogInvariant, PTL

\* Whatever threads, refreshes and restarts do: an event the page passes over
\* entered the buffer after a newer one, was followed by too many, or has a
\* number the last controller had reached (controller.py record, events_since;
\* dashboard.html refresh, drawEvents).
THEOREM LossesAreNamed == LogSpec => []NothingElseIsLost
<1>1. LogInit => LogInv /\ LossInv
  BY LogInvInit, LossInit
<1>2. LogInv /\ LossInv /\ [LogNext]_logVars => (LogInv /\ LossInv)'
  BY LogInvNext, LossNext
<1>3. LossInv => NothingElseIsLost
  BY DEF LossInv
<1>. QED BY <1>1, <1>2, <1>3, PTL DEF LogSpec

\* The variables have their types; a reply asks for no more than has been
\* seen.
THEOREM LogTypes == LogSpec => []LogTypeOK
<1>1. LogInv => LogTypeOK
  BY DEF LogInv
<1>. QED BY <1>1, LogInvariant, PTL
=============================================================================
