------------------------------ MODULE EventLog ------------------------------
(***************************************************************************)
(* The event log (controller.py record, events_since) and the page that    *)
(* follows it (dashboard.html refresh, drawEvents).  Threads record events *)
(* without a lock: the number is drawn first, then the line is written,    *)
(* then the event enters the buffer.  The page asks for what is newer than *)
(* the newest number it has seen, on a timer and after every action of the *)
(* user, so several refreshes may be under way and their replies may       *)
(* arrive in any order.  A restarted controller numbers from 1 again, and  *)
(* the page does not know.                                                 *)
(***************************************************************************)
EXTENDS Naturals, Sequences, FiniteSets

CONSTANTS
    Threads,    \* the threads that record events
    Refreshes,  \* bound: the refreshes that may be under way at a time
    Buffer,     \* EVENT_BUFFER
    Limit,      \* the limit of events_since
    Events,     \* bound: the events a controller records
    Restarts    \* bound: how often the controller is restarted

ASSUME EventLogAssumption ==
    /\ {Buffer, Limit} \subseteq Nat \ {0}
    /\ {Events, Restarts} \subseteq Nat

VARIABLES
    drawn,       \* _event_seq: the last number drawn
    recording,   \* [Threads -> [stage, seq]]
    file,        \* the numbers of the lines in EVENT_LOG
    buffer,      \* event_log
    run,         \* the number of restarts
    latest,      \* history: the greatest number that has entered the buffer
    overtaken,   \* history: the numbers that entered it after a greater one
    lastSeq,     \* the page's lastSeq
    shown,       \* history: the events the page has drawn, [run, seq]
    repeated,    \* history: an event has been drawn again
    refreshing,  \* [Refreshes -> [stage, since, events]]
    inherited,   \* history: lastSeq when the controller was restarted
    overlapped   \* history: two refreshes have been under way at a time

serverVars == <<drawn, recording, file, buffer, run, latest, overtaken>>
pageVars == <<lastSeq, shown, repeated, refreshing>>
logVars == <<serverVars, pageVars, inherited, overlapped>>

-----------------------------------------------------------------------------
Free == [stage |-> "free", seq |-> 0]
Quiet == [stage |-> "quiet", since |-> 0, events |-> {}]

LogInit ==
    /\ drawn = 0
    /\ recording = [w \in Threads |-> Free]
    /\ file = {}
    /\ buffer = <<>>
    /\ run = 0
    /\ latest = 0
    /\ overtaken = {}
    /\ lastSeq = 0
    /\ shown = {}
    /\ repeated = FALSE
    /\ refreshing = [r \in Refreshes |-> Quiet]
    /\ inherited = 0
    /\ overlapped = FALSE

-----------------------------------------------------------------------------
\* record, statement by statement.
Draw(w) ==
    /\ recording[w].stage = "free"
    /\ drawn < Events
    /\ drawn' = drawn + 1
    /\ recording' = [recording EXCEPT ![w] = [stage |-> "write", seq |-> drawn']]
    /\ UNCHANGED <<file, buffer, run, latest, overtaken, pageVars, inherited, overlapped>>

\* Mutation: the log is buffered, and the line is not on disk when the event
\* enters the buffer.
WriteUnflushed(w) ==
    /\ recording[w].stage = "write"
    /\ recording' = [recording EXCEPT ![w].stage = "append"]
    /\ UNCHANGED <<drawn, file, buffer, run, latest, overtaken,
                   pageVars, inherited, overlapped>>

Write(w) ==
    /\ recording[w].stage = "write"
    /\ file' = file \cup {recording[w].seq}
    /\ recording' = [recording EXCEPT ![w].stage = "append"]
    /\ UNCHANGED <<drawn, buffer, run, latest, overtaken, pageVars, inherited, overlapped>>

\* A deque with maxlen drops the oldest.
Enter(q, e) == LET full == Append(q, e)
               IN  IF Len(full) > Buffer THEN Tail(full) ELSE full

AppendEvent(w) ==
    /\ recording[w].stage = "append"
    /\ buffer' = Enter(buffer, recording[w].seq)
    /\ IF recording[w].seq < latest
       THEN overtaken' = overtaken \cup {recording[w].seq} /\ UNCHANGED latest
       ELSE latest' = recording[w].seq /\ UNCHANGED overtaken
    /\ recording' = [recording EXCEPT ![w] = Free]
    /\ UNCHANGED <<drawn, file, run, pageVars, inherited, overlapped>>

\* events_since: the newest of the events after seq, the order of a reply
\* apart.
After(seq, i) == { j \in DOMAIN buffer : j > i /\ buffer[j] > seq }

\* Mutation: the next number is taken for seen.
EventsSinceNext(seq) ==
    { buffer[i] : i \in { j \in DOMAIN buffer : /\ buffer[j] > seq + 1
                                               /\ Cardinality(After(seq + 1, j)) < Limit } }

EventsSince(seq) ==
    { buffer[i] : i \in { j \in DOMAIN buffer : /\ buffer[j] > seq
                                               /\ Cardinality(After(seq, j)) < Limit } }

\* The controller is stopped and started: the file is emptied, the counter
\* begins at 1, and the calls it was serving fail.
Restart ==
    /\ run < Restarts
    /\ run' = run + 1
    /\ drawn' = 0
    /\ recording' = [w \in Threads |-> Free]
    /\ file' = {}
    /\ buffer' = <<>>
    /\ latest' = 0
    /\ overtaken' = {}
    /\ refreshing' = [r \in Refreshes |->
                         IF refreshing[r].stage = "asked" THEN Quiet ELSE refreshing[r]]
    /\ inherited' = lastSeq
    /\ UNCHANGED <<lastSeq, shown, repeated, overlapped>>

-----------------------------------------------------------------------------
\* refresh: lastSeq is read when the events are asked for.
Ask(r) ==
    /\ refreshing[r].stage = "quiet"
    /\ refreshing' = [refreshing EXCEPT ![r] = [stage |-> "asked", since |-> lastSeq,
                                                events |-> {}]]
    /\ overlapped' = (overlapped \/ \E q \in Refreshes \ {r} : refreshing[q].stage # "quiet")
    /\ UNCHANGED <<serverVars, lastSeq, shown, repeated, inherited>>

Serve(r) ==
    /\ refreshing[r].stage = "asked"
    /\ LET events == { [run |-> run, seq |-> e] : e \in EventsSince(refreshing[r].since) }
       IN  refreshing' = [refreshing EXCEPT ![r] =
               IF events = {} THEN Quiet
               ELSE [stage |-> "served", since |-> 0, events |-> events]]
    /\ UNCHANGED <<serverVars, lastSeq, shown, repeated, inherited, overlapped>>

\* Mutation: lastSeq is what one of the events says.
DrawEventsAny(r) ==
    LET events == refreshing[r].events
    IN  /\ refreshing[r].stage = "served"
        /\ \E e \in events : lastSeq' = e.seq
        /\ shown' = shown \cup events
        /\ repeated' = (repeated \/ events \cap shown # {})
        /\ refreshing' = [refreshing EXCEPT ![r] = Quiet]
        /\ inherited' = IF \A e \in events : e.run = run THEN inherited ELSE lastSeq'
        /\ UNCHANGED <<serverVars, overlapped>>

\* drawEvents.  An answer of the old controller may still come in.
DrawEvents(r) ==
    LET events == refreshing[r].events
        seqs   == { e.seq : e \in events } \cup {lastSeq}
    IN  /\ refreshing[r].stage = "served"
        /\ \E newest \in seqs : /\ \A n \in seqs : n <= newest
                                /\ lastSeq' = newest
        /\ shown' = shown \cup events
        /\ repeated' = (repeated \/ events \cap shown # {})
        /\ refreshing' = [refreshing EXCEPT ![r] = Quiet]
        /\ inherited' = IF \A e \in events : e.run = run THEN inherited ELSE lastSeq'
        /\ UNCHANGED <<serverVars, overlapped>>

RecordStep(w) == Write(w) \/ AppendEvent(w)
RefreshStep(r) == Ask(r) \/ Serve(r) \/ DrawEvents(r)

LogNext ==
    \/ \E w \in Threads : Draw(w) \/ RecordStep(w)
    \/ \E r \in Refreshes : RefreshStep(r)
    \/ Restart

LogSpec == LogInit /\ [][LogNext]_logVars

\* The timer asks again and again, and some refresh is always answered.
LogFairSpec == LogSpec /\ WF_logVars(\E r \in Refreshes : RefreshStep(r))

-----------------------------------------------------------------------------
Recorded == [run : 0..Restarts, seq : 1..Events]

LogTypeOK ==
    /\ drawn \in 0..Events
    /\ recording \in [Threads -> [stage : {"free", "write", "append"}, seq : 0..Events]]
    /\ file \subseteq 1..Events
    /\ buffer \in Seq(1..Events) /\ Len(buffer) <= Buffer
    /\ latest \in 0..Events /\ overtaken \subseteq 1..Events
    /\ repeated \in BOOLEAN /\ overlapped \in BOOLEAN
    /\ lastSeq \in 0..Events /\ inherited \in 0..lastSeq
    /\ shown \subseteq Recorded
    /\ refreshing \in [Refreshes -> [stage : {"quiet", "asked", "served"},
                                     since : 0..lastSeq, events : SUBSET Recorded]]

Buffered(e) == \E i \in DOMAIN buffer : buffer[i] = e

Shown(n, i) == [run |-> n, seq |-> buffer[i]] \in shown

OnTheWay(i) == \E r \in Refreshes :
    [run |-> run, seq |-> buffer[i]] \in refreshing[r].events

\* The three ways in which an event of the buffer is lost for the page: an
\* event with a later number entered the buffer first, too many have come
\* after it, or its number is one the last controller had reached.
Lost(i) ==
    \/ buffer[i] \in overtaken
    \/ i <= Len(buffer) - Limit
    \/ buffer[i] <= inherited

\* No other event is passed over: what is older than lastSeq has been shown,
\* or is in a reply (controller.py record, events_since; dashboard.html).
NothingElseIsLost ==
    \A i \in DOMAIN buffer :
        buffer[i] <= lastSeq => Shown(run, i) \/ OnTheWay(i) \/ Lost(i)

\* A page whose refreshes have not overlapped has shown no event twice, also
\* across a restart (dashboard.html refresh, drawEvents).
ShownOnce ==
    repeated => overlapped

\* The page never shows what the log on disk does not have
\* (controller.py record).
ShownIsOnDisk ==
    \A e \in shown : e.run = run => e.seq \in file

\* Every event that enters the buffer is shown, unless it is lost in one of
\* those ways or leaves the buffer first, pushed out or with its controller.
EventsReachThePage ==
    \A e \in 1..Events :
        Buffered(e) ~>
            \/ ~Buffered(e)
            \/ \E i \in DOMAIN buffer : buffer[i] = e /\ (Shown(run, i) \/ Lost(i))
=============================================================================
