------------------------- MODULE RunControl_proofs -------------------------
(***************************************************************************)
(* The safety properties of RunControl, for any number of clients and runs *)
(* and any bound, and those of WorldRuns, for any number of worlds and     *)
(* requests and whatever is edited, fails or is restarted.                 *)
(*                                                                         *)
(* RunControl: the lock makes start() exclusive (LineInv); one start at a  *)
(* time is then followed from the reset of the kernel to the publication   *)
(* (StartInv). WorldRuns: WorldRunsInv, in the second half.                *)
(***************************************************************************)
EXTENDS RunControl, WorldRuns, SequenceTheorems, Sums

\* A client stands in line once and only while its request is open; a start
\* past its first await holds the lock.
LineInv ==
    /\ \A i, j \in DOMAIN line : line[i] = line[j] => i = j
    /\ \A c \in Clients : request[c] = "none" =>
          \A i \in DOMAIN line : line[i] # c
    /\ \A c \in Clients : request[c] \in Stages => line # <<>> /\ line[1] = c

Loading == \E c \in Clients : request[c] = "loading"
Persisting == \E c \in Clients : request[c] = "persisting"

\* While a start loads, the kernel is empty; while it persists, the world it
\* has built is known to nobody and the kernel holds its events only. A run
\* that was abandoned is past, and so is every other in use.
StartInv ==
    /\ Loading => queued = {} /\ clock = 0 /\ abandoned = NoRun
    /\ Persisting =>
          /\ building \in started
          /\ building # state
          /\ building \notin decided
          /\ clock = 0
          /\ time[building] = 0
          /\ queued = EventsAtStart(building)
          /\ abandoned = NoRun
    /\ ~Persisting => building = NoRun
    /\ state # NoRun => state \in started
    /\ decided \subseteq started
    /\ \A r \in Runs \ started : time[r] = 0

ControlInv ==
    /\ TypeOK
    /\ LineInv
    /\ StartInv
    /\ EventsOfTheRun
    /\ ClockOfTheRun
    /\ WorldsOnlyWhileActive

-----------------------------------------------------------------------------

LEMMA NobodyInLine == <<>> \in Seq(Clients)
BY EmptySeq

\* The client that holds the lock is a client at the head of the line.
LEMMA AtHead ==
    ASSUME TypeOK, NEW c \in Clients, NEW what, Holds(c, what)
    PROVE  /\ line \in Seq(Clients)
           /\ line # <<>>
           /\ Len(line) \in Nat \ {0}
           /\ DOMAIN line = 1..Len(line)
           /\ line[1] = c
           /\ request[c] = what
<1>1. line \in Seq(Clients) /\ line # <<>> /\ Head(line) = c /\ request[c] = what
  BY DEF TypeOK, Holds
<1>2. Len(line) \in Nat \ {0} /\ Head(line) = line[1]
  BY <1>1, EmptySeq, LenProperties, HeadTailProperties
<1> QED
  BY <1>1, <1>2, LenProperties

\* Whoever holds the lock, no other client is inside start().
LEMMA OneStart ==
    ASSUME TypeOK, LineInv, NEW c \in Clients, NEW what, Holds(c, what)
    PROVE  \A d \in Clients : request[d] \in Stages => d = c
BY AtHead DEF LineInv

\* What passing the lock on does to the line.
LEMMA LinePassed ==
    ASSUME TypeOK, NEW c \in Clients, NEW what, Holds(c, what)
    PROVE  /\ Tail(line) \in Seq(Clients)
           /\ DOMAIN Tail(line) = 1..(Len(line) - 1)
           /\ \A i \in 1..(Len(line) - 1) : Tail(line)[i] = line[i + 1]
<1>1. line \in Seq(Clients) /\ line # <<>> /\ Len(line) \in Nat
  BY AtHead
<1>2. /\ Tail(line) \in Seq(Clients)
      /\ Len(Tail(line)) = Len(line) - 1
      /\ \A i \in 1..Len(Tail(line)) : Tail(line)[i] = line[i + 1]
  BY <1>1, HeadTailProperties
<1> QED
  BY <1>2, LenProperties

\* Who is in start() after the request of the holder has moved on.
LEMMA StageAfter ==
    ASSUME TypeOK, LineInv, NEW c \in Clients, NEW what, Holds(c, what),
           NEW next, request' = [request EXCEPT ![c] = next]
    PROVE  /\ Loading' <=> next = "loading"
           /\ Persisting' <=> next = "persisting"
           /\ Starting' <=> next \in Stages
           /\ Loading <=> what = "loading"
           /\ Persisting <=> what = "persisting"
           /\ Starting <=> what \in Stages
<1>1. request \in [Clients -> Requests \union Stages \union {"none"}]
  BY DEF TypeOK
<1>2. \A d \in Clients : d # c => request[d] \notin Stages
  BY OneStart
<1>3. request[c] = what
  BY DEF Holds
<1>4. \A d \in Clients : request'[d] = IF d = c THEN next ELSE request[d]
  BY <1>1
<1>5. "loading" \in Stages /\ "persisting" \in Stages
  BY DEF Stages
<1> QED
  BY <1>2, <1>3, <1>4, <1>5 DEF Loading, Persisting, Starting

\* A client that comes to the lock is not in start().
LEMMA StageAfterAsk ==
    ASSUME TypeOK, NEW c \in Clients, NEW what \in Requests, Ask(c, what)
    PROVE  (Loading' <=> Loading) /\ (Persisting' <=> Persisting)
           /\ (Starting' <=> Starting)
<1>1. request \in [Clients -> Requests \union Stages \union {"none"}]
  BY DEF TypeOK
<1>2. /\ request[c] = "none" /\ request' = [request EXCEPT ![c] = what]
      /\ what # "loading" /\ what # "persisting"
  BY DEF Ask, Requests
<1>3. \A d \in Clients : request'[d] = IF d = c THEN what ELSE request[d]
  BY <1>1, <1>2
<1> QED
  BY <1>2, <1>3 DEF Loading, Persisting, Starting, Stages

-----------------------------------------------------------------------------

LEMMA InitControl == Init => ControlInv
<1> SUFFICES ASSUME Init PROVE ControlInv
  OBVIOUS
<1>1. TypeOK
  BY NobodyInLine, RunAssumption DEF Init, TypeOK
<1>2. \A c \in Clients : request[c] = "none"
  BY DEF Init
<1>3. LineInv
  <2>1. line = <<>> /\ DOMAIN line = {}
    BY DEF Init
  <2>2. "none" \notin Stages
    BY DEF Stages
  <2> QED
    BY <1>2, <2>1, <2>2 DEF LineInv
<1>4. StartInv
  <2>1. ~Loading /\ ~Persisting
    BY <1>2 DEF Loading, Persisting
  <2> QED
    BY <2>1 DEF Init, StartInv
<1>5. EventsOfTheRun /\ ClockOfTheRun /\ WorldsOnlyWhileActive
  BY DEF Init, EventsOfTheRun, ClockOfTheRun, WorldsOnlyWhileActive
<1> QED
  BY <1>1, <1>3, <1>4, <1>5 DEF ControlInv

\* The line keeps its shape when somebody asks, answers or goes on.
LEMMA StepLine == TypeOK /\ LineInv /\ [Next]_vars => LineInv' /\ line' \in Seq(Clients)
<1> SUFFICES ASSUME TypeOK, LineInv, [Next]_vars
             PROVE  LineInv' /\ line' \in Seq(Clients)
  OBVIOUS
<1>0. /\ line \in Seq(Clients)
      /\ request \in [Clients -> Requests \union Stages \union {"none"}]
      /\ "none" \notin Stages
      /\ \A w \in Requests : w \notin Stages /\ w # "none"
      /\ Len(line) \in Nat /\ DOMAIN line = 1..Len(line)
  BY LenProperties DEF TypeOK, Stages, Requests
<1>1. ASSUME NEW c \in Clients, NEW what \in Requests, Ask(c, what)
      PROVE  LineInv' /\ line' \in Seq(Clients)
  <2>1. line' = Append(line, c) /\ request[c] = "none"
    BY <1>1 DEF Ask, Behind
  <2>2. request' = [request EXCEPT ![c] = what]
    BY <1>1 DEF Ask
  <2>3. /\ line' \in Seq(Clients)
        /\ Len(line') = Len(line) + 1
        /\ \A i \in 1..Len(line) : line'[i] = line[i]
        /\ line'[Len(line) + 1] = c
    BY <1>0, <2>1, AppendProperties
  <2>4. DOMAIN line' = 1..(Len(line) + 1)
    BY <2>3, LenProperties
  <2>5. \A i \in 1..Len(line) : line[i] # c
    BY <1>0, <2>1 DEF LineInv
  <2>6. \A i, j \in DOMAIN line' : line'[i] = line'[j] => i = j
    BY <1>0, <2>3, <2>4, <2>5 DEF LineInv
  <2>7. \A d \in Clients : request'[d] = IF d = c THEN what ELSE request[d]
    BY <1>0, <2>2
  <2>8. ASSUME NEW d \in Clients, request'[d] = "none", NEW i \in DOMAIN line'
        PROVE  line'[i] # d
    BY <1>0, <2>3, <2>4, <2>7, <2>8 DEF LineInv
  <2>9. ASSUME NEW d \in Clients, request'[d] \in Stages
        PROVE  line' # <<>> /\ line'[1] = d
    <3>1. request[d] \in Stages
      BY <1>0, <2>7, <2>9
    <3>2. line # <<>> /\ line[1] = d
      BY <3>1 DEF LineInv
    <3>3. Len(line) # 0
      BY <1>0, <3>2, EmptySeq
    <3> QED
      BY <1>0, <2>3, <3>2, <3>3, EmptySeq
  <2> QED
    BY <2>3, <2>6, <2>8, <2>9 DEF LineInv
<1>2. ASSUME NEW c \in Clients, NEW what, Holds(c, what), Answer(c)
      PROVE  LineInv' /\ line' \in Seq(Clients)
  <2>1. /\ line' \in Seq(Clients)
        /\ DOMAIN line' = 1..(Len(line) - 1)
        /\ \A i \in 1..(Len(line) - 1) : line'[i] = line[i + 1]
    BY <1>2, LinePassed DEF Answer
  <2>2. line[1] = c /\ Len(line) \in Nat \ {0}
    BY <1>2, AtHead
  <2>3. \A d \in Clients : request'[d] = IF d = c THEN "none" ELSE request[d]
    BY <1>0, <1>2 DEF Answer
  <2>4. \A d \in Clients : request'[d] \notin Stages
    BY <1>0, <1>2, <2>3, OneStart
  <2>5. ASSUME NEW i \in DOMAIN line', NEW j \in DOMAIN line', line'[i] = line'[j]
        PROVE  i = j
    <3>1. i + 1 \in DOMAIN line /\ j + 1 \in DOMAIN line
      BY <1>0, <2>1, <2>2
    <3>2. line[i + 1] = line[j + 1]
      BY <2>1, <2>5
    <3>3. i + 1 = j + 1
      BY <3>1, <3>2 DEF LineInv
    <3> QED
      BY <2>1, <2>2, <3>3
  <2>6. ASSUME NEW d \in Clients, request'[d] = "none", NEW i \in DOMAIN line'
        PROVE  line'[i] # d
    <3>1. line'[i] = line[i + 1] /\ i + 1 \in 1..Len(line) /\ i + 1 # 1
      BY <2>1, <2>2
    <3>2. CASE d = c
      <4>1. 1 \in DOMAIN line /\ i + 1 \in DOMAIN line
        BY <1>0, <2>2, <3>1
      <4>2. line[i + 1] = line[1] => i + 1 = 1
        BY <4>1 DEF LineInv
      <4> QED
        BY <2>2, <3>1, <3>2, <4>2
    <3>3. CASE d # c
      <4>1. request[d] = "none"
        BY <2>3, <2>6, <3>3
      <4>2. i + 1 \in DOMAIN line
        BY <1>0, <3>1
      <4>3. line[i + 1] # d
        BY <4>1, <4>2 DEF LineInv
      <4> QED
        BY <3>1, <4>3
    <3> QED
      BY <3>2, <3>3
  <2> QED
    BY <2>1, <2>4, <2>5, <2>6 DEF LineInv
<1>3. ASSUME NEW c \in Clients, NEW what, Holds(c, what), UNCHANGED line,
             NEW stage \in Stages, request' = [request EXCEPT ![c] = stage]
      PROVE  LineInv' /\ line' \in Seq(Clients)
  <2>1. line[1] = c /\ line # <<>>
    BY <1>3, AtHead
  <2>2. \A d \in Clients : request'[d] = IF d = c THEN stage ELSE request[d]
    BY <1>0, <1>3
  <2> QED
    BY <1>0, <1>3, <2>1, <2>2 DEF LineInv
<1>4. CASE UNCHANGED <<request, line>>
  BY <1>0, <1>4 DEF LineInv
<1>5. ASSUME NEW c \in Clients, Serve(c)
      PROVE  LineInv' /\ line' \in Seq(Clients)
  <2>1. CASE StartBegins(c)
    BY <1>3, <2>1 DEF StartBegins, Stages
  <2>2. CASE WorldBuilt(c)
    BY <1>3, <2>2 DEF WorldBuilt, Stages
  <2>3. CASE ~StartBegins(c) /\ ~WorldBuilt(c)
    <3>1. \E what : Holds(c, what) /\ Answer(c)
      BY <1>5, <2>3 DEF Serve, UnknownScenario, StartTimeRefused, BaselineMissing,
         BuildFails, StartEnds, Advance, AdvanceFails, Pause, Resume, Reset, Inject, Optimize, Refused
    <3> QED
      BY <1>2, <3>1
  <2> QED
    BY <2>1, <2>2, <2>3
<1> QED
  BY <1>1, <1>4, <1>5 DEF Next, vars, Decision

\* The attributes but for the line keep their shape.
FieldTypes ==
    /\ request \in [Clients -> Requests \union Stages \union {"none"}]
    /\ status \in {"IDLE", "RUNNING", "PAUSED"}
    /\ state \in Runs \union {NoRun}
    /\ building \in Runs \union {NoRun}
    /\ queued \subseteq QueuedEvent
    /\ clock \in 0..MaxTime
    /\ time \in [Runs -> 0..MaxTime]
    /\ decided \subseteq Runs
    /\ started \subseteq Runs
    /\ abandoned \in Runs \union {NoRun}

LEMMA StepTypes == TypeOK /\ LineInv /\ [Next]_vars => TypeOK'
<1> SUFFICES ASSUME TypeOK, LineInv, [Next]_vars PROVE TypeOK'
  OBVIOUS
<1>0. line' \in Seq(Clients)
  BY StepLine
<1>1. MaxTime \in Nat /\ NoRun \notin Runs
  BY RunAssumption
<1>2. FieldTypes
  BY DEF FieldTypes, TypeOK
<1>3. ASSUME NEW c \in Clients, NEW what \in Requests, Ask(c, what)
      PROVE  FieldTypes'
  BY <1>2, <1>3 DEF Ask, FieldTypes
<1>4. ASSUME NEW c \in Clients, Serve(c)
      PROVE  FieldTypes'
  <2>a. ASSUME TimePasses
        PROVE  clock' \in 0..MaxTime /\ time' \in [Runs -> 0..MaxTime]
    <3>1. clock + 1 \in 0..MaxTime /\ clock' = clock + 1
      BY <1>1, <1>2, <2>a DEF TimePasses, FieldTypes
    <3>2. time \in [Runs -> 0..MaxTime]
      BY <1>2 DEF FieldTypes
    <3>3. time' = [time EXCEPT ![state] = clock + 1]
      BY <2>a DEF TimePasses
    <3> QED
      BY <3>1, <3>2, <3>3
  <2>0. HasWorld => state \in Runs
    BY <1>2 DEF HasWorld, FieldTypes
  <2>1. CASE StartBegins(c)
    BY <1>1, <1>2, <2>1 DEF StartBegins, EmptyQueue, ClockAtStart, Stages, FieldTypes
  <2>2. CASE UnknownScenario(c)
    BY <1>1, <1>2, <2>2 DEF UnknownScenario, EmptyQueue, ClockAtStart, Answer, FieldTypes
  <2>3. CASE BaselineMissing(c)
    BY <1>2, <2>3 DEF BaselineMissing, Answer, FieldTypes
  <2>4. CASE WorldBuilt(c)
    BY <1>2, <2>4 DEF WorldBuilt, NotYetPublished, EventsAtStart, Recurring, Single,
       QueuedEvent, Stages, FieldTypes
  <2>5. CASE StartEnds(c)
    BY <1>2, <2>5 DEF StartEnds, Answer, FieldTypes
  <2>6. CASE Advance(c)
    <3>1. clock' \in 0..MaxTime /\ time' \in [Runs -> 0..MaxTime]
      BY <1>2, <2>a, <2>6 DEF Advance, FieldTypes
    <3>2. queued' \subseteq QueuedEvent
      BY <1>2, <2>0, <2>6 DEF Advance, Advancing, Single, QueuedEvent, FieldTypes
    <3> QED
      BY <1>2, <2>6, <3>1, <3>2 DEF Advance, Answer, FieldTypes
  <2>7. CASE AdvanceFails(c)
    <3>1. clock' \in 0..MaxTime /\ time' \in [Runs -> 0..MaxTime]
      BY <1>2, <2>a, <2>7 DEF AdvanceFails, FieldTypes
    <3>2. queued' \subseteq QueuedEvent
      BY <1>2, <2>0, <2>7 DEF AdvanceFails, Advancing, Single, QueuedEvent, FieldTypes
    <3> QED
      BY <1>2, <2>7, <3>1, <3>2 DEF AdvanceFails, Answer, FieldTypes
  <2>8. CASE Pause(c)
    BY <1>2, <2>8 DEF Pause, Answer, FieldTypes
  <2>9. CASE Resume(c)
    BY <1>2, <2>9 DEF Resume, Answer, FieldTypes
  <2>10. CASE Reset(c)
    BY <1>2, <2>10 DEF Reset, DroppedState, Answer, FieldTypes
  <2>11. CASE Inject(c)
    BY <1>2, <2>0, <2>11 DEF Inject, Single, QueuedEvent, Answer, FieldTypes
  <2>12. CASE Optimize(c)
    BY <1>2, <2>0, <2>12 DEF Optimize, Answer, FieldTypes
  <2>13. CASE Refused(c)
    BY <1>2, <2>13 DEF Refused, Answer, FieldTypes
  <2>14. CASE StartTimeRefused(c)
    BY <1>1, <1>2, <2>14 DEF StartTimeRefused, EmptyQueue, Answer, FieldTypes
  <2>15. CASE BuildFails(c)
    BY <1>2, <2>15 DEF BuildFails, Single, QueuedEvent, Answer, FieldTypes
  <2> QED
    BY <1>4, <2>1, <2>2, <2>3, <2>4, <2>5, <2>6, <2>7, <2>8, <2>9, <2>10, <2>11,
       <2>12, <2>13, <2>14, <2>15 DEF Serve
<1>5. ASSUME Decision PROVE FieldTypes'
  BY <1>2, <1>5 DEF Decision, HasWorld, FieldTypes
<1>6. ASSUME UNCHANGED vars PROVE FieldTypes'
  BY <1>2, <1>6 DEF vars, FieldTypes
<1>7. FieldTypes'
  BY <1>3, <1>4, <1>5, <1>6 DEF Next
<1> QED
  BY <1>0, <1>7 DEF FieldTypes, TypeOK

\* A request that start() has nothing to do with finds nobody in start() and
\* leaves it so.
LEMMA NoStart ==
    ASSUME TypeOK, LineInv, NEW c \in Clients, NEW what \in Requests,
           Holds(c, what), Answer(c)
    PROVE  ~Loading /\ ~Persisting /\ ~Starting /\ ~Loading' /\ ~Persisting' /\ ~Starting'
<1>1. request' = [request EXCEPT ![c] = "none"]
  BY DEF Answer
<1>2. what # "loading" /\ what # "persisting" /\ what \notin Stages
  BY DEF Requests, Stages
<1>3. "none" # "loading" /\ "none" # "persisting" /\ "none" \notin Stages
  BY DEF Stages
<1>4. /\ Loading' <=> "none" = "loading"
      /\ Persisting' <=> "none" = "persisting"
      /\ Starting' <=> "none" \in Stages
      /\ Loading <=> what = "loading"
      /\ Persisting <=> what = "persisting"
      /\ Starting <=> what \in Stages
  BY <1>1, StageAfter, Zenon
<1> QED
  BY <1>2, <1>3, <1>4

Kept == StartInv /\ EventsOfTheRun /\ ClockOfTheRun /\ WorldsOnlyWhileActive

LEMMA StepKept == ControlInv /\ [Next]_vars => Kept'
<1> SUFFICES ASSUME ControlInv, [Next]_vars PROVE Kept'
  OBVIOUS
<1>1. TypeOK /\ LineInv /\ Kept
  BY DEF ControlInv, Kept
<1>2. NoRun \notin Runs /\ MaxTime \in Nat
  BY RunAssumption
<1>t. FieldTypes
  BY <1>1 DEF TypeOK, FieldTypes
<1>3. ASSUME NEW c \in Clients, NEW what \in Requests, Ask(c, what)
      PROVE  Kept'
  <2>1. (Loading' <=> Loading) /\ (Persisting' <=> Persisting) /\ (Starting' <=> Starting)
    BY <1>1, <1>3, StageAfterAsk
  <2>2. UNCHANGED <<status, state, building, queued, clock, time, decided, started,
                     abandoned>>
    BY <1>3 DEF Ask
  <2> QED
    BY <1>1, <2>1, <2>2 DEF Kept, StartInv, EventsOfTheRun, ClockOfTheRun,
       WorldsOnlyWhileActive, EventsAtStart, Recurring, Single
<1>4. ASSUME NEW c \in Clients, Serve(c)
      PROVE  Kept'
  <2>s. /\ "start" \in Requests /\ "advance" \in Requests /\ "pause" \in Requests
        /\ "resume" \in Requests /\ "reset" \in Requests /\ "inject" \in Requests
        /\ "optimize" \in Requests
        /\ "none" \notin Stages /\ "start" \notin Stages
        /\ "loading" \in Stages /\ "persisting" \in Stages
    BY DEF Requests, Stages
  <2>1. CASE StartBegins(c)
    <3>1. Loading' /\ ~Persisting' /\ Starting' /\ ~Persisting
      BY <1>1, <2>1, <2>s, StageAfter DEF StartBegins
    <3> QED
      BY <1>1, <2>1, <3>1 DEF StartBegins, EmptyQueue, ClockAtStart, Kept, StartInv,
         EventsOfTheRun, ClockOfTheRun, WorldsOnlyWhileActive
  <2>2. CASE UnknownScenario(c) \/ StartTimeRefused(c)
    <3>1. ~Loading' /\ ~Persisting' /\ ~Starting' /\ ~Persisting
      BY <1>1, <2>2, <2>s, NoStart DEF UnknownScenario, StartTimeRefused
    <3>2. queued' = {} /\ abandoned' = NoRun
          /\ UNCHANGED <<status, state, building, time, decided, started>>
      BY <2>2 DEF UnknownScenario, StartTimeRefused, EmptyQueue
    <3> QED
      BY <1>1, <3>1, <3>2 DEF Kept, StartInv, EventsOfTheRun, ClockOfTheRun,
         WorldsOnlyWhileActive
  <2>3. CASE BaselineMissing(c)
    <3>1. Loading /\ ~Loading' /\ ~Persisting' /\ ~Starting' /\ ~Persisting
      BY <1>1, <2>3, <2>s, StageAfter DEF BaselineMissing, Answer
    <3> QED
      BY <1>1, <2>3, <3>1 DEF BaselineMissing, Kept, StartInv,
         EventsOfTheRun, ClockOfTheRun, WorldsOnlyWhileActive
  <2>4. CASE WorldBuilt(c)
    <3>1. Loading /\ ~Loading' /\ Persisting' /\ Starting'
      BY <1>1, <2>4, <2>s, StageAfter DEF WorldBuilt
    <3>2. PICK r \in Runs \ started :
             /\ started' = started \union {r}
             /\ building' = r
             /\ queued' = queued \union EventsAtStart(r)
             /\ state' = NotYetPublished(r)
      BY <2>4 DEF WorldBuilt
    <3>3. queued = {} /\ clock = 0 /\ abandoned = NoRun
      BY <1>1, <3>1 DEF Kept, StartInv
    <3>4. state' = state /\ UNCHANGED <<status, clock, time, decided, abandoned>>
      BY <2>4, <3>2 DEF WorldBuilt, NotYetPublished
    <3>5. r # state /\ r \notin decided /\ time[r] = 0
      BY <1>1, <1>2, <3>2 DEF Kept, StartInv
    <3>6. queued' = EventsAtStart(building')
      BY <3>2, <3>3 DEF EventsAtStart
    <3>7. StartInv'
      BY <1>1, <3>1, <3>2, <3>3, <3>4, <3>5, <3>6 DEF Kept, StartInv
    <3> QED
      BY <1>1, <3>1, <3>4, <3>7 DEF Kept, EventsOfTheRun, ClockOfTheRun,
         WorldsOnlyWhileActive
  <2>14. CASE BuildFails(c)
    <3>1. Loading /\ ~Loading' /\ ~Persisting' /\ ~Starting' /\ ~Persisting
      BY <1>1, <2>14, <2>s, StageAfter DEF BuildFails, Answer
    <3>2. PICK r \in Runs \ started :
             /\ started' = started \union {r}
             /\ abandoned' = r
             /\ queued' = queued \union {Single(r)}
      BY <2>14 DEF BuildFails
    <3>3. queued' = {Single(r)}
      BY <1>1, <3>1, <3>2 DEF Kept, StartInv
    <3>4. UNCHANGED <<status, state, building, clock, time, decided>>
      BY <2>14 DEF BuildFails
    <3>5. r # NoRun /\ (state # NoRun => r # state)
      BY <1>1, <1>2, <3>2 DEF Kept, StartInv
    <3>6. Single(r).run = r /\ Recurring(state) # Single(r)
      BY DEF Single, Recurring
    <3>7. StartInv'
      BY <1>1, <3>1, <3>2, <3>4 DEF Kept, StartInv
    <3>8. EventsOfTheRun'
      BY <3>2, <3>3, <3>4, <3>5, <3>6 DEF EventsOfTheRun, Recurring
    <3>9. ClockOfTheRun'
      BY <3>3, <3>4, <3>6 DEF ClockOfTheRun, Recurring
    <3> QED
      BY <1>1, <3>4, <3>7, <3>8, <3>9 DEF Kept, WorldsOnlyWhileActive
  <2>5. CASE StartEnds(c)
    <3>1. Persisting /\ ~Loading' /\ ~Persisting' /\ ~Starting'
      BY <1>1, <2>5, <2>s, StageAfter DEF StartEnds, Answer
    <3>2. /\ building \in started /\ clock = 0 /\ time[building] = 0
          /\ abandoned = NoRun
          /\ \A e \in queued : e.run = building
      BY <1>1, <3>1 DEF Kept, StartInv, EventsAtStart, Recurring, Single
    <3> QED
      BY <1>1, <2>5, <3>1, <3>2 DEF StartEnds, Kept, StartInv, EventsOfTheRun,
         ClockOfTheRun, WorldsOnlyWhileActive
  <2>6. ASSUME Holds(c, "advance"), Answer(c), Advancing,
               TimePasses \/ UNCHANGED <<clock, time>>,
               queued' \subseteq queued \union {Single(state)},
               UNCHANGED <<status, state, building, decided, started, abandoned>>
        PROVE  Kept'
    <3>1. ~Persisting /\ ~Starting /\ ~Loading' /\ ~Persisting' /\ ~Starting'
      BY <1>1, <2>6, <2>s, NoStart
    <3>2. state # NoRun /\ state \in started /\ state \in Runs
      BY <1>1, <1>t, <2>6 DEF Advancing, HasWorld, Kept, StartInv, FieldTypes
    <3>3. \/ UNCHANGED <<clock, time>>
          \/ clock' = clock + 1 /\ time' = [time EXCEPT ![state] = clock + 1]
      BY <2>6 DEF TimePasses
    <3>4. \A r \in Runs : r # state => time'[r] = time[r]
      BY <1>t, <3>3 DEF FieldTypes
    <3>5. StartInv'
      BY <1>1, <2>6, <3>1, <3>2, <3>4 DEF Kept, StartInv
    <3>7. Single(state).run = state /\ Recurring(state) # Single(state)
      BY DEF Single, Recurring
    <3>8. EventsOfTheRun'
      <4>1. \A e \in queued : e.run \in {state, abandoned}
        BY <1>1, <3>1, <3>2 DEF Kept, EventsOfTheRun
      <4>2. \A e \in queued' : e.run \in {state, abandoned}
        BY <2>6, <3>7, <4>1
      <4>3. abandoned # NoRun => abandoned # state /\ Recurring(state) \notin queued'
        BY <1>1, <2>6, <3>1, <3>2, <3>7 DEF Kept, EventsOfTheRun
      <4> QED
        BY <2>6, <4>2, <4>3 DEF EventsOfTheRun, Recurring
    <3>6. ClockOfTheRun'
      <4>1. CASE UNCHANGED <<clock, time>>
        <5>1. Recurring(state) \in queued' => Recurring(state) \in queued
          BY <2>6, <3>7
        <5> QED
          BY <1>1, <2>6, <3>1, <4>1, <5>1 DEF Kept, ClockOfTheRun, Recurring
      <4>2. CASE clock' = clock + 1 /\ time' = [time EXCEPT ![state] = clock + 1]
        <5>1. time'[state'] = clock'
          BY <1>t, <2>6, <3>2, <4>2 DEF FieldTypes
        <5> QED
          BY <5>1 DEF ClockOfTheRun
      <4> QED
        BY <3>3, <4>1, <4>2
    <3> QED
      BY <1>1, <2>6, <3>1, <3>5, <3>6, <3>8 DEF Kept, WorldsOnlyWhileActive
  <2>7. CASE Advance(c)
    <3>1. queued' \subseteq queued \union {Single(state)}
      BY <2>7 DEF Advance
    <3> QED
      BY <2>6, <2>7, <3>1 DEF Advance
  <2>8. CASE AdvanceFails(c)
    BY <2>6, <2>8 DEF AdvanceFails
  <2>9. CASE Pause(c) \/ Resume(c)
    <3>1. ~Persisting /\ ~Starting /\ ~Loading' /\ ~Persisting' /\ ~Starting'
      BY <1>1, <2>9, <2>s, NoStart DEF Pause, Resume
    <3>2. UNCHANGED <<state, building, queued, clock, time, decided, started, abandoned>>
          /\ status' \in {"RUNNING", "PAUSED"}
      BY <2>9 DEF Pause, Resume
    <3> QED
      BY <1>1, <3>1, <3>2 DEF Kept, StartInv, EventsOfTheRun, ClockOfTheRun,
         WorldsOnlyWhileActive
  <2>10. CASE Reset(c)
    <3>1. ~Persisting /\ ~Starting /\ ~Loading' /\ ~Persisting' /\ ~Starting'
      BY <1>1, <2>10, <2>s, NoStart DEF Reset
    <3> QED
      BY <1>1, <2>10, <3>1 DEF Reset, DroppedState, Kept, StartInv, EventsOfTheRun,
         ClockOfTheRun, WorldsOnlyWhileActive
  <2>11. CASE Inject(c)
    <3>1. ~Persisting /\ ~Starting /\ ~Loading' /\ ~Persisting' /\ ~Starting'
      BY <1>1, <2>11, <2>s, NoStart DEF Inject
    <3>2. /\ queued' = queued \union {Single(state)}
          /\ state # NoRun
          /\ UNCHANGED <<status, state, building, clock, time, decided, started, abandoned>>
      BY <2>11 DEF Inject, HasWorld
    <3>3. Single(state).run = state /\ Recurring(state) # Single(state)
      BY DEF Single, Recurring
    <3>4. \A e \in queued' : e.run \in {state, abandoned}
      BY <1>1, <3>1, <3>2, <3>3 DEF Kept, EventsOfTheRun
    <3>5. Recurring(state) \in queued' => Recurring(state) \in queued
      BY <3>2, <3>3
    <3>6. EventsOfTheRun'
      BY <1>1, <3>1, <3>2, <3>4, <3>5 DEF Kept, EventsOfTheRun, Recurring
    <3>7. ClockOfTheRun'
      BY <1>1, <3>1, <3>2, <3>5 DEF Kept, ClockOfTheRun, Recurring
    <3> QED
      BY <1>1, <3>1, <3>2, <3>6, <3>7 DEF Kept, StartInv, WorldsOnlyWhileActive
  <2>12. CASE Optimize(c)
    <3>1. ~Persisting /\ ~Starting /\ ~Loading' /\ ~Persisting' /\ ~Starting'
      BY <1>1, <2>12, <2>s, NoStart DEF Optimize
    <3> QED
      BY <1>1, <2>12, <3>1 DEF Optimize, HasWorld, Kept, StartInv, EventsOfTheRun,
         ClockOfTheRun, WorldsOnlyWhileActive
  <2>13. CASE Refused(c)
    <3>1. ~Persisting /\ ~Starting /\ ~Loading' /\ ~Persisting' /\ ~Starting'
      BY <1>1, <2>13, <2>s, NoStart DEF Refused
    <3> QED
      BY <1>1, <2>13, <3>1 DEF Refused, Kept, StartInv, EventsOfTheRun,
         ClockOfTheRun, WorldsOnlyWhileActive
  <2> QED
    BY <1>4, <2>1, <2>2, <2>3, <2>4, <2>5, <2>7, <2>8, <2>9, <2>10, <2>11, <2>12,
       <2>13, <2>14 DEF Serve
<1>5. ASSUME Decision PROVE Kept'
  <2>1. /\ state # NoRun
        /\ decided' = decided \union {state}
        /\ UNCHANGED <<request, status, state, building, queued, clock, time, started,
                       abandoned>>
    BY <1>5 DEF Decision, HasWorld
  <2>2. UNCHANGED <<Loading, Persisting, Starting>>
    BY <2>1 DEF Loading, Persisting, Starting
  <2>3. state \in started
    BY <1>1, <2>1 DEF Kept, StartInv
  <2> QED
    BY <1>1, <2>1, <2>2, <2>3 DEF Kept, StartInv, EventsOfTheRun, ClockOfTheRun,
       WorldsOnlyWhileActive, EventsAtStart, Recurring, Single
<1>6. ASSUME UNCHANGED vars PROVE Kept'
  BY <1>1, <1>6 DEF vars, Kept, StartInv, Loading, Persisting, Starting,
     EventsOfTheRun, ClockOfTheRun, WorldsOnlyWhileActive, EventsAtStart, Recurring, Single
<1> QED
  BY <1>3, <1>4, <1>5, <1>6 DEF Next

LEMMA StepControl == ControlInv /\ [Next]_vars => ControlInv'
BY StepTypes, StepLine, StepKept DEF ControlInv, Kept

LEMMA ControlInvariant == Spec => []ControlInv
<1>1. QED
  BY InitControl, StepControl, PTL DEF Spec

-----------------------------------------------------------------------------

\* The controller's attributes keep their shape, whatever is asked and
\* whatever fails.
THEOREM ControlTypeCorrect == Spec => []TypeOK
<1>1. ControlInv => TypeOK
  BY DEF ControlInv
<1> QED
  BY <1>1, ControlInvariant, PTL

\* No advance ever handles an event of another published run, however many
\* starts follow each other; those of a start that raised late are all that can
\* get in, and only in the place of the run's own recurring ones: EventsOfTheRun.
THEOREM RunsNeverMix == Spec => []EventsOfTheRun
<1>1. ControlInv => EventsOfTheRun
  BY DEF ControlInv
<1> QED
  BY <1>1, ControlInvariant, PTL

\* A world with its recurring events queued shows the clock's time, failed
\* advances included.
THEOREM ClocksAgree == Spec => []ClockOfTheRun
<1>1. ControlInv => ClockOfTheRun
  BY DEF ControlInv
<1> QED
  BY <1>1, ControlInvariant, PTL

\* A world being built is out of reach of the consumer, which takes no lock.
THEOREM NewWorldsStayClean == Spec => []NewWorldsAreClean
<1>1. ControlInv => NewWorldsAreClean
  <2> SUFFICES ASSUME ControlInv PROVE building \notin decided
    BY DEF NewWorldsAreClean
  <2>1. CASE Persisting
    BY <2>1 DEF ControlInv, StartInv
  <2>2. CASE ~Persisting
    <3>1. building = NoRun
      BY <2>2 DEF ControlInv, StartInv
    <3> QED
      BY <3>1, RunAssumption DEF ControlInv, TypeOK
  <2> QED
    BY <2>1, <2>2
<1> QED
  BY <1>1, ControlInvariant, PTL

\* An idle controller publishes no world, however its requests are mixed.
THEOREM IdleMeansNoWorld == Spec => []WorldsOnlyWhileActive
<1>1. ControlInv => WorldsOnlyWhileActive
  BY DEF ControlInv
<1> QED
  BY <1>1, ControlInvariant, PTL

-----------------------------------------------------------------------------
(***************************************************************************)
(* The line at the lock                                                    *)
(***************************************************************************)

\* A client that has asked stands in line: a part of OpenRequestsWait that is
\* inductive with LineInv.
AskedInLine ==
    \A c \in Clients : request[c] # "none" => \E i \in DOMAIN line : line[i] = c

\* The steps there are, for the line: it stays, one comes, the first goes.
LEMMA LineSteps ==
    ASSUME TypeOK, [Next]_vars
    PROVE  \/ /\ line' = line
              /\ \A c \in Clients : request'[c] # "none" => request[c] # "none"
           \/ \E c \in Clients :
                 /\ line' = Append(line, c) /\ request[c] = "none"
                 /\ \A d \in Clients : request'[d] # "none" => d = c \/ request[d] # "none"
           \/ \E c \in Clients :
                 /\ line # <<>> /\ Head(line) = c /\ line' = Tail(line)
                 /\ \A d \in Clients : request'[d] # "none" => d # c /\ request[d] # "none"
<1>0. request \in [Clients -> Requests \union Stages \union {"none"}]
  BY DEF TypeOK
<1> DEFINE Comes(c) == /\ line' = Append(line, c) /\ request[c] = "none"
                       /\ \A d \in Clients : request'[d] # "none" => d = c \/ request[d] # "none"
           Goes(c) == /\ line # <<>> /\ Head(line) = c /\ line' = Tail(line)
                      /\ \A d \in Clients : request'[d] # "none" => d # c /\ request[d] # "none"
           Stays == /\ line' = line
                    /\ \A c \in Clients : request'[c] # "none" => request[c] # "none"
<1>1. ASSUME NEW c \in Clients, NEW what \in Requests, Ask(c, what) PROVE Comes(c)
  <2>1. \A d \in Clients : d # c => request'[d] = request[d]
    BY <1>0, <1>1 DEF Ask
  <2>. QED
    BY <1>1, <2>1 DEF Ask, Behind
<1>2. ASSUME NEW c \in Clients, NEW what, Holds(c, what), Answer(c) PROVE Goes(c)
  <2>1. \A d \in Clients : IF d = c THEN request'[d] = "none" ELSE request'[d] = request[d]
    BY <1>0, <1>2 DEF Answer
  <2>. QED
    BY <1>2, <2>1 DEF Holds, Answer
<1>3. ASSUME NEW c \in Clients, NEW what, Holds(c, what), what # "none", line' = line,
             NEW next, request' = [request EXCEPT ![c] = next]
      PROVE  Stays
  <2>1. request[c] # "none"
    BY <1>3 DEF Holds
  <2>2. \A d \in Clients : d # c => request'[d] = request[d]
    BY <1>0, <1>3
  <2>. QED
    BY <1>3, <2>1, <2>2
<1>4. ASSUME UNCHANGED <<request, line>> PROVE Stays
  BY <1>4
<1>. HIDE DEF Comes, Goes, Stays
<1>5. ASSUME NEW c \in Clients, Serve(c) PROVE Goes(c) \/ Stays
  <2>1. CASE StartBegins(c)
    BY <1>3, <2>1 DEF StartBegins
  <2>2. CASE WorldBuilt(c)
    BY <1>3, <2>2 DEF WorldBuilt
  <2>3. CASE UnknownScenario(c) \/ StartTimeRefused(c) \/ BaselineMissing(c)
              \/ BuildFails(c) \/ StartEnds(c)
    BY <1>2, <2>3 DEF UnknownScenario, StartTimeRefused, BaselineMissing, BuildFails, StartEnds
  <2>4. CASE Advance(c) \/ AdvanceFails(c) \/ Pause(c) \/ Resume(c) \/ Reset(c)
    BY <1>2, <2>4 DEF Advance, AdvanceFails, Pause, Resume, Reset
  <2>5. CASE Inject(c) \/ Optimize(c) \/ Refused(c)
    BY <1>2, <2>5 DEF Inject, Optimize, Refused
  <2>. QED
    BY <1>5, <2>1, <2>2, <2>3, <2>4, <2>5 DEF Serve
<1>6. CASE Decision
  BY <1>4, <1>6 DEF Decision
<1>7. CASE UNCHANGED vars
  BY <1>4, <1>7 DEF vars
<1>8. CASE \E c \in Clients, what \in Requests : Ask(c, what)
  BY <1>1, <1>8 DEF Comes
<1>9. CASE \E c \in Clients : Serve(c)
  <2>1. PICK c \in Clients : Goes(c) \/ Stays
    BY <1>5, <1>9
  <2>. QED
    BY <2>1 DEF Goes, Stays
<1>10. CASE Stays
  BY <1>10 DEF Stays
<1>. QED
  BY <1>6, <1>7, <1>8, <1>9, <1>10 DEF Next

\* Where those that stay in line stand after a step.
LEMMA LineAppended ==
    ASSUME TypeOK, NEW c \in Clients
    PROVE  /\ DOMAIN line = 1..Len(line) /\ Len(line) \in Nat
           /\ DOMAIN Append(line, c) = 1..(Len(line) + 1)
           /\ Append(line, c)[Len(line) + 1] = c
           /\ \A i \in 1..Len(line) : Append(line, c)[i] = line[i]
<1>1. line \in Seq(Clients)
  BY DEF TypeOK
<1>. QED
  BY <1>1, AppendProperties, LenProperties

LEMMA LineShortened ==
    ASSUME TypeOK, line # <<>>
    PROVE  /\ DOMAIN line = 1..Len(line) /\ Len(line) \in Nat \ {0}
           /\ Head(line) = line[1]
           /\ DOMAIN Tail(line) = 1..(Len(line) - 1)
           /\ \A i \in 1..(Len(line) - 1) : Tail(line)[i] = line[i + 1]
<1>1. line \in Seq(Clients)
  BY DEF TypeOK
<1>2. /\ Head(line) = line[1] /\ Len(line) \in Nat \ {0}
      /\ Tail(line) \in Seq(Clients) /\ Len(Tail(line)) = Len(line) - 1
      /\ \A i \in 1..Len(Tail(line)) : Tail(line)[i] = line[i + 1]
  BY <1>1, EmptySeq, LenProperties, HeadTailProperties
<1>. QED
  BY <1>1, <1>2, LenProperties

LEMMA StepAsked == TypeOK /\ AskedInLine /\ [Next]_vars => AskedInLine'
<1> SUFFICES ASSUME TypeOK, AskedInLine, [Next]_vars,
                    NEW d \in Clients, request'[d] # "none"
             PROVE  \E i \in DOMAIN line' : line'[i] = d
  BY DEF AskedInLine
<1>1. CASE line' = line /\ request[d] # "none"
  BY <1>1 DEF AskedInLine
<1>2. ASSUME NEW c \in Clients, line' = Append(line, c), d = c \/ request[d] # "none"
      PROVE  \E i \in DOMAIN line' : line'[i] = d
  <2>1. CASE d = c
    BY <1>2, <2>1, LineAppended
  <2>2. CASE request[d] # "none"
    <3>1. PICK i \in DOMAIN line : line[i] = d
      BY <2>2 DEF AskedInLine
    <3>. QED
      BY <1>2, <3>1, LineAppended
  <2>. QED
    BY <1>2, <2>1, <2>2
<1>3. ASSUME NEW c \in Clients, line # <<>>, Head(line) = c, line' = Tail(line),
             d # c, request[d] # "none"
      PROVE  \E i \in DOMAIN line' : line'[i] = d
  <2>1. PICK i \in DOMAIN line : line[i] = d
    BY <1>3 DEF AskedInLine
  <2>2. i \in 2..Len(line) /\ i - 1 \in 1..(Len(line) - 1) /\ Len(line) \in Nat
    BY <1>3, <2>1, LineShortened
  <2>3. Tail(line)[i - 1] = d
    BY <1>3, <2>1, <2>2, LineShortened
  <2>. QED
    BY <1>3, <2>2, <2>3, LineShortened
<1>. QED
  BY <1>1, <1>2, <1>3, LineSteps

\* No request is forgotten at the lock and none stands there twice, whatever
\* fails: with the fairness of the event loop that is why each is answered.
THEOREM EverybodyWaits == Spec => []OpenRequestsWait
<1>1. Init => AskedInLine
  BY DEF Init, AskedInLine
<1>2. ControlInv => TypeOK
  BY DEF ControlInv
<1>3. ControlInv /\ AskedInLine => OpenRequestsWait
  BY DEF ControlInv, LineInv, AskedInLine, OpenRequestsWait
<1>. QED
  BY <1>1, <1>2, <1>3, StepAsked, ControlInvariant, PTL DEF Spec

\* Requests are served in the order they came: a client's place in line never
\* goes back.
THEOREM LineMovesForward == Spec => NobodyOvertakes
<1> DEFINE Forward == \A i \in DOMAIN line, j \in DOMAIN line' : line[i] = line'[j] => j <= i
<1>1. ControlInv /\ [Next]_vars => [Forward]_vars
  <2> SUFFICES ASSUME ControlInv, [Next]_vars PROVE Forward
    OBVIOUS
  <2>0. TypeOK /\ LineInv
    BY DEF ControlInv
  <2> SUFFICES ASSUME NEW i \in DOMAIN line, NEW j \in DOMAIN line', line[i] = line'[j]
               PROVE  j <= i
    OBVIOUS
  <2>1. /\ DOMAIN line = 1..Len(line) /\ Len(line) \in Nat
        /\ line[i] \in Clients
    <3>1. line \in Seq(Clients)
      BY <2>0 DEF TypeOK
    <3>. QED
      BY <3>1, LenProperties, ElementOfSeq
  <2>2. CASE line' = line
    BY <2>0, <2>1, <2>2 DEF LineInv
  <2>3. ASSUME NEW c \in Clients, line' = Append(line, c), request[c] = "none" PROVE j <= i
    <3>1. line[i] # c
      BY <2>0, <2>3 DEF LineInv
    <3>2. j \in 1..(Len(line) + 1) /\ j # Len(line) + 1
      BY <2>0, <2>3, <3>1, LineAppended
    <3>3. j \in DOMAIN line /\ line'[j] = line[j]
      BY <2>0, <2>1, <2>3, <3>2, LineAppended
    <3>. QED
      BY <2>0, <2>1, <3>3 DEF LineInv
  <2>4. ASSUME line # <<>>, line' = Tail(line) PROVE j <= i
    <3>1. j \in 1..(Len(line) - 1) /\ line'[j] = line[j + 1] /\ j + 1 \in DOMAIN line
      BY <2>0, <2>1, <2>4, LineShortened
    <3>2. j + 1 = i
      BY <2>0, <2>1, <3>1 DEF LineInv
    <3>. QED
      BY <2>1, <3>1, <3>2
  <2>. QED
    BY <2>0, <2>2, <2>3, <2>4, LineSteps
<1>. QED
  BY <1>1, ControlInvariant, PTL DEF Spec, NobodyOvertakes

-----------------------------------------------------------------------------
(***************************************************************************)
(* The refinement: start() is one step to whoever looks at the published   *)
(* world, the kernel's events and the clock.                               *)
(***************************************************************************)

\* With no world being built the mapping changes nothing.
LEMMA NothingBuilding ==
    ASSUME NEW q \in SUBSET QueuedEvent, NEW s \in SUBSET Runs
    PROVE  {e \in q : e.run # NoRun} = q /\ s \ {NoRun} = s
BY RunAssumption DEF QueuedEvent

\* Outside start() nothing is being built, before and after a request.
LEMMA AtomicMapping ==
    ASSUME ControlInv, TypeOK', ~Persisting, building' = building
    PROVE  /\ building = NoRun
           /\ {e \in queued : e.run # building} = queued
           /\ {e \in queued' : e.run # building'} = queued'
           /\ started \ {building} = started
           /\ started' \ {building'} = started'
<1>1. building = NoRun
  BY DEF ControlInv, StartInv
<1>2. /\ queued \in SUBSET QueuedEvent /\ queued' \in SUBSET QueuedEvent
      /\ started \in SUBSET Runs /\ started' \in SUBSET Runs
  BY DEF ControlInv, TypeOK
<1>. QED
  BY <1>1, <1>2, NothingBuilding

LEMMA StartEndsAtomic ==
    ASSUME ControlInv, TypeOK', NEW c \in Clients, StartEnds(c)
    PROVE  Atomic!Started
<1>1. /\ building \in Runs /\ building \in started /\ building \notin decided
      /\ clock = 0 /\ time[building] = 0
      /\ queued = EventsAtStart(building)
  <2>1. Persisting
    BY DEF StartEnds, Holds, Persisting
  <2>. QED
    BY <2>1 DEF ControlInv, StartInv, TypeOK
<1>2. /\ state' = building /\ status' = "RUNNING" /\ building' = NoRun
      /\ abandoned' = NoRun
      /\ UNCHANGED <<queued, clock, time, decided, started>>
  <2>1. Persisting
    BY DEF StartEnds, Holds, Persisting
  <2>. QED
    BY <2>1 DEF StartEnds, ControlInv, StartInv
<1>3. {e \in queued' : e.run # building'} = queued /\ started' \ {building'} = started
  <2>1. queued' \in SUBSET QueuedEvent /\ started' \in SUBSET Runs
    BY DEF TypeOK
  <2>. QED
    BY <1>2, <2>1, NothingBuilding
<1>4. building \in Runs \ (started \ {building})
      /\ started = (started \ {building}) \union {building}
  BY <1>1
<1>. QED
  BY <1>1, <1>2, <1>3, <1>4 DEF Atomic!Started, Atomic!Event, EventsAtStart, Recurring, Single

LEMMA WorldBuiltUnseen ==
    ASSUME ControlInv, TypeOK', NEW c \in Clients, WorldBuilt(c)
    PROVE  UNCHANGED Atomic!rvars
<1>1. ~Persisting /\ Loading
  <2>1. Holds(c, "loading") /\ TypeOK /\ LineInv /\ "loading" \in Stages
    BY DEF WorldBuilt, ControlInv, Stages
  <2>2. \A d \in Clients : request[d] \in Stages => d = c
    BY <2>1, OneStart
  <2>. QED
    BY <2>1, <2>2 DEF Holds, Loading, Persisting, Stages
<1>2. building = NoRun /\ queued = {} /\ started \in SUBSET Runs
  BY <1>1 DEF ControlInv, StartInv, TypeOK
<1>3. PICK r \in Runs \ started :
         /\ started' = started \union {r} /\ building' = r
         /\ queued' = queued \union EventsAtStart(r)
         /\ state' = state
  BY DEF WorldBuilt, NotYetPublished
<1>4. {e \in queued : e.run # building} = {} /\ {e \in queued' : e.run # building'} = {}
  <2>1. \A e \in EventsAtStart(r) : e.run = r
    BY DEF EventsAtStart, Recurring, Single
  <2>. QED
    BY <1>2, <1>3, <2>1
<1>5. started \ {building} = started /\ started' \ {building'} = started
  BY <1>2, <1>3, NothingBuilding
<1>. QED
  BY <1>3, <1>4, <1>5 DEF Atomic!rvars, WorldBuilt

\* A request other than the awaits of a start is a step of its own.
LEMMA ServeIsAtomic ==
    ASSUME ControlInv, TypeOK', NEW c \in Clients, Serve(c)
    PROVE  [Atomic!RNext]_(Atomic!rvars)
<1>0. TypeOK /\ LineInv /\ EventsOfTheRun
  BY DEF ControlInv
<1>s. /\ "start" \in Requests /\ "advance" \in Requests /\ "pause" \in Requests
      /\ "resume" \in Requests /\ "reset" \in Requests /\ "inject" \in Requests
      /\ "optimize" \in Requests
  BY DEF Requests
<1>n. ASSUME NEW what \in Requests, Holds(c, what) PROVE ~Persisting /\ ~Starting
  <2>1. what \notin Stages
    BY <1>n DEF Requests, Stages
  <2>2. \A d \in Clients : request[d] \notin Stages
    BY <1>0, <1>n, <2>1, OneStart DEF Holds
  <2>. QED
    BY <2>2 DEF Persisting, Starting, Stages
<1>1. CASE StartBegins(c) \/ UnknownScenario(c) \/ StartTimeRefused(c)
  <2>1. building' = building /\ ~Persisting /\ queued' = {} /\ clock' \in {0, clock}
        /\ abandoned' = NoRun /\ UNCHANGED <<status, state, time, decided, started>>
    BY <1>1, <1>s, <1>n DEF StartBegins, UnknownScenario, StartTimeRefused, EmptyQueue,
       ClockAtStart
  <2>2. Atomic!Emptied
    BY <2>1, AtomicMapping DEF Atomic!Emptied
  <2>. QED
    BY <2>2 DEF Atomic!RNext
<1>12. CASE BuildFails(c)
  <2>1. Loading /\ ~Persisting
    BY <1>0, <1>12, StageAfter DEF BuildFails, Answer
  <2>2. queued = {} /\ clock = 0
    BY <2>1 DEF ControlInv, StartInv
  <2>3. PICK r \in Runs \ started :
           /\ started' = started \union {r}
           /\ abandoned' = r
           /\ queued' = queued \union {Single(r)}
    BY <1>12 DEF BuildFails
  <2>4. UNCHANGED <<status, state, building, clock, time, decided>>
    BY <1>12 DEF BuildFails
  <2>5. Atomic!Abandoned
    BY <2>1, <2>2, <2>3, <2>4, AtomicMapping DEF Atomic!Abandoned, Atomic!Event, Single
  <2>. QED
    BY <2>5 DEF Atomic!RNext
<1>2. CASE BaselineMissing(c)
  <2>1. UNCHANGED Atomic!rvars
    BY <1>2 DEF BaselineMissing, Atomic!rvars
  <2>. QED
    BY <2>1
<1>3. CASE WorldBuilt(c)
  BY <1>3, WorldBuiltUnseen
<1>4. CASE StartEnds(c)
  BY <1>4, StartEndsAtomic DEF Atomic!RNext
<1>5. ASSUME Holds(c, "advance"), Advancing,
             TimePasses \/ UNCHANGED <<clock, time>>,
             queued' \subseteq queued \union {Single(state)},
             UNCHANGED <<status, state, building, decided, started, abandoned>>
      PROVE  Atomic!RNext
  <2>1. ~Persisting /\ ~Starting
    BY <1>s, <1>n, <1>5
  <2>2. state # NoRun /\ status = "RUNNING" 
        /\ \A e \in queued : e.run \in {state, abandoned}
    BY <1>0, <1>5, <2>1 DEF Advancing, HasWorld, EventsOfTheRun
  <2>3. Atomic!Advanced
    BY <1>5, <2>1, <2>2, AtomicMapping DEF Atomic!Advanced, Atomic!Event, Single, TimePasses
  <2>. QED
    BY <2>3 DEF Atomic!RNext
<1>6. CASE Advance(c) \/ AdvanceFails(c)
  <2>1. queued' \subseteq queued \union {Single(state)}
    BY <1>6 DEF Advance, AdvanceFails
  <2>. QED
    BY <1>5, <1>6, <2>1 DEF Advance, AdvanceFails
<1>7. CASE Pause(c) \/ Resume(c)
  <2>1. ~Persisting /\ status' \in {"PAUSED", "RUNNING"}
        /\ UNCHANGED <<state, building, queued, clock, time, decided, started, abandoned>>
    BY <1>s, <1>n, <1>7 DEF Pause, Resume
  <2>2. Atomic!Switched
    BY <2>1, AtomicMapping DEF Atomic!Switched
  <2>. QED
    BY <2>2 DEF Atomic!RNext
<1>8. CASE Reset(c)
  <2>1. Atomic!Dropped
    BY <1>8 DEF Reset, DroppedState, Atomic!Dropped
  <2>. QED
    BY <2>1 DEF Atomic!RNext
<1>9. CASE Inject(c)
  <2>1. ~Persisting /\ state # NoRun
        /\ queued' = queued \union {Single(state)}
        /\ UNCHANGED <<status, state, building, clock, time, decided, started, abandoned>>
    BY <1>s, <1>n, <1>9 DEF Inject, HasWorld
  <2>2. Atomic!Injected
    BY <2>1, AtomicMapping DEF Atomic!Injected, Atomic!Event, Single
  <2>. QED
    BY <2>2 DEF Atomic!RNext
<1>10. CASE Optimize(c)
  <2>1. Atomic!Decided
    BY <1>10 DEF Optimize, HasWorld, Atomic!Decided
  <2>. QED
    BY <2>1 DEF Atomic!RNext
<1>11. CASE Refused(c)
  <2>1. UNCHANGED Atomic!rvars
    BY <1>11 DEF Refused, Atomic!rvars
  <2>. QED
    BY <2>1
<1>. QED
  BY <1>1, <1>2, <1>3, <1>4, <1>6, <1>7, <1>8, <1>9, <1>10, <1>11, <1>12 DEF Serve

LEMMA StepIsAtomic ==
    ControlInv /\ TypeOK' /\ [Next]_vars => [Atomic!RNext]_(Atomic!rvars)
<1> SUFFICES ASSUME ControlInv, TypeOK', [Next]_vars PROVE [Atomic!RNext]_(Atomic!rvars)
  OBVIOUS
<1>1. ASSUME NEW c \in Clients, NEW what \in Requests, Ask(c, what)
      PROVE  UNCHANGED Atomic!rvars
  BY <1>1 DEF Ask, Atomic!rvars
<1>2. CASE Decision
  <2>1. Atomic!Decided
    BY <1>2 DEF Decision, HasWorld, Atomic!Decided
  <2>. QED
    BY <2>1 DEF Atomic!RNext
<1>3. CASE UNCHANGED vars
  <2>1. UNCHANGED Atomic!rvars
    BY <1>3 DEF vars, Atomic!rvars
  <2>. QED
    BY <2>1
<1>. QED
  BY <1>1, <1>2, <1>3, ServeIsAtomic DEF Next

\* The controller implements AtomicRuns: whatever is asked meanwhile, whoever
\* decides and wherever a start fails, each request takes place at one moment
\* and a start puts a whole new world in place; or it has taken the old run its
\* events and its time, and left it at most those of a run never published.
THEOREM StartsLookAtomic == Spec => StartsAreAtomic
<1>1. Init => Atomic!RInit
  <2> SUFFICES ASSUME Init PROVE Atomic!RInit
    OBVIOUS
  <2>1. {e \in queued : e.run # building} = {} /\ started \ {building} = {}
    BY DEF Init
  <2>. QED
    BY <2>1 DEF Init, Atomic!RInit
<1>2. ControlInv => TypeOK
  BY DEF ControlInv
<1>. QED
  BY <1>1, <1>2, StepIsAtomic, ControlInvariant, PTL DEF Spec, StartsAreAtomic, Atomic!RSpec

-----------------------------------------------------------------------------
(***************************************************************************)
(* WorldRuns. The invariant says of every request what its fields mean at  *)
(* its stage, and of the store that rows and the cache hold baselines that *)
(* were built, each once and as it was built: baselines and rows only come *)
(* in addition (Grown), so what a waiting request has read stays right     *)
(* while others build and save.                                            *)
(***************************************************************************)

\* A registry holds values that its parameters accept.
RegistryOK(reg) ==
    /\ reg = [plain |-> reg.plain, scoped |-> reg.scoped]
    /\ \A n \in DOMAIN reg.plain : Accepts(n, reg.plain[n])
    /\ \A k \in DOMAIN reg.scoped : k = <<k[1], k[2]>> /\ Accepts(k[1], reg.scoped[k])

AtStart == {"waiting", "loading", "asked again", "saving again", "fallen back", "persisting"}
AtSaving == {"saving", "saving again"}
AtLook == {"asked", "asked again"}

Sources == {"none", "rows", "cache", "fallback"}
Contents == [of : [world : Worlds \union {"none"}, version : Nat],
             parts : {{}, Built}, touched : BOOLEAN]
WorldRequest ==
    [kind : {"create", "force", "start", "none"}, world : Worlds \union {"none"},
     asked : Nat, scenario : StartWith \union {"none"},
     stage : AtStart \union {"asked", "saving", "answered"},
     id : Nat, newest : Nat, content : Contents, source : Sources,
     why : {"none", "scenario", "baseline"}]
PublishedRun ==
    [world : Worlds \union {"none"}, asked : Nat, baseline : Nat, content : Contents,
     source : Sources, newest : Nat, served : BOOLEAN]

BaselineOf == [world : Worlds, version : V1 .. MaxSecond]

\* What a run of a baseline starts with.
Fresh(id) == [of |-> made[id], parts |-> Built, touched |-> FALSE]

\* One row is not older than another.
NoOlder(newest, id) ==
    \E i, j \in DOMAIN rows : rows[i] = newest /\ rows[j] = id /\ i <= j

\* The baseline of a start, or of a run, is the one it should be.
IsRight(q, id) ==
    /\ id \in Ids
    /\ q.asked = NoId => made[id].world = q.world
    /\ q.asked = NoId /\ q.source = "rows" /\ q.newest # NoId => NoOlder(q.newest, id)

\* What the fields of a request mean at each of its stages.
RequestOK(q) ==
    /\ q.stage # "answered" => q.kind # "none" /\ q.world \in Worlds
    /\ q.stage \in AtStart => q.kind = "start"
    /\ q.stage \in AtSaving =>
          /\ q.id \in Ids /\ \A i \in DOMAIN rows : rows[i] # q.id
          /\ made[q.id].world = q.world
          /\ q.kind # "force" => made[q.id].version = V1
    /\ q.stage = "fallen back" =>
          q.id \in Ids /\ made[q.id] = [world |-> q.world, version |-> V1]
    /\ q.stage = "persisting" => IsRight(q, q.id) /\ q.content = Fresh(q.id)
    /\ q.newest # NoId =>
          \E i \in DOMAIN rows : rows[i] = q.newest /\ made[rows[i]].world = q.world

RowsOK == \A i, j \in DOMAIN rows : rows[i] = rows[j] => i = j

CacheOK ==
    \A i \in DOMAIN cache :
       /\ cache[i].id \in Ids
       /\ cache[i] = Entry(made[cache[i].id].world, made[cache[i].id].version, cache[i].id)

\* No two requests save one baseline.
SavesDiffer ==
    \A c, d \in DOMAIN requests :
       /\ requests[c].stage \in AtSaving /\ requests[d].stage \in AtSaving
       /\ requests[c].id = requests[d].id
       => c = d

RunOK ==
    run # NoWorld =>
       /\ run \in PublishedRun
       /\ IsRight(run, run.baseline)
       /\ ~run.served => run.content = Fresh(run.baseline)

StoreTypes ==
    /\ made \in Seq(BaselineOf) /\ rows \in Seq(Nat) /\ cache \in Seq(
          [world : Worlds, version : Nat, id : Nat, touched : BOOLEAN])
    /\ \A i \in DOMAIN rows : rows[i] \in Ids
    /\ second \in 1 .. MaxSecond

RequestTypes ==
    /\ requests \in Seq(WorldRequest)
    /\ lock \in DOMAIN requests \union {Nobody}
    /\ edits \in Nat /\ restarts \in Nat

WorldRunsInv ==
    /\ RegistryOK(base) /\ RegistryOK(mine)
    /\ StoreTypes /\ RowsOK /\ CacheOK
    /\ RequestTypes /\ SavesDiffer
    /\ \A c \in DOMAIN requests : RequestOK(requests[c])
    /\ RunOK

-----------------------------------------------------------------------------
\* The registries

LEMMA UpdatedOK ==
    ASSUME NEW reg, RegistryOK(reg), NEW new, \A n \in DOMAIN new : Accepts(n, new[n])
    PROVE  RegistryOK([reg EXCEPT !.plain = Updated(@, new)])
<1> DEFINE U == [reg EXCEPT !.plain = Updated(@, new)]
<1>1. reg = [plain |-> reg.plain, scoped |-> reg.scoped]
  BY DEF RegistryOK
<1>2. U = [plain |-> Updated(reg.plain, new), scoped |-> reg.scoped]
  BY <1>1
<1> HIDE DEF U
<1>3. U.plain = Updated(reg.plain, new) /\ U.scoped = reg.scoped
  BY <1>2
<1>4. \A n \in DOMAIN U.plain : Accepts(n, U.plain[n])
  BY <1>3 DEF RegistryOK, Updated
<1>5. RegistryOK(U)
  BY <1>2, <1>3, <1>4 DEF RegistryOK
<1> QED  BY <1>5 DEF U

LEMMA SetOK ==
    ASSUME NEW reg, RegistryOK(reg), NEW name, NEW value, NEW scope, Accepts(name, value)
    PROVE  RegistryOK(Set(reg, name, value, scope))
<1>1. CASE scope = NoScope
  <2>1. \A m \in DOMAIN [n \in {name} |-> value] : Accepts(m, [n \in {name} |-> value][m])
    OBVIOUS
  <2> QED  BY <1>1, <2>1, UpdatedOK DEF Set
<1>2. CASE scope # NoScope
  <2> DEFINE new == [k \in {<<name, scope>>} |-> value]
             U == [reg EXCEPT !.scoped = Updated(@, new)]
  <2>1. reg = [plain |-> reg.plain, scoped |-> reg.scoped]
    BY DEF RegistryOK
  <2>2. U = [plain |-> reg.plain, scoped |-> Updated(reg.scoped, new)]
    BY <2>1
  <2> HIDE DEF U
  <2>3. U.plain = reg.plain /\ U.scoped = Updated(reg.scoped, new)
    BY <2>2
  <2>4. \A k \in DOMAIN U.scoped : k = <<k[1], k[2]>> /\ Accepts(k[1], U.scoped[k])
    <3> SUFFICES ASSUME NEW k \in DOMAIN U.scoped
                 PROVE  k = <<k[1], k[2]>> /\ Accepts(k[1], U.scoped[k])
      OBVIOUS
    <3>1. CASE k = <<name, scope>>
      BY <3>1, <2>3 DEF Updated
    <3>2. CASE k # <<name, scope>>
      BY <3>2, <2>3 DEF Updated, RegistryOK
    <3> QED  BY <3>1, <3>2
  <2>5. RegistryOK(U)
    BY <2>2, <2>3, <2>4 DEF RegistryOK
  <2> QED  BY <1>2, <2>5 DEF Set, U
<1> QED  BY <1>1, <1>2

LEMMA UntouchedOK == RegistryOK(Untouched)
BY DEF RegistryOK, Untouched

-----------------------------------------------------------------------------
\* Places

LEMMA LastPlace ==
    ASSUME NEW n \in Nat, NEW S \in SUBSET (1 .. n), S # {}
    PROVE  Max(S) \in S /\ \A i \in S : i <= Max(S)
<1> DEFINE f == [i \in S |-> -i]
<1>1. IsFiniteSet(S)
  <2>1. IsFiniteSet(1 .. n)
    BY FS_Interval
  <2> QED  BY <2>1, FS_Subset
<1>2. \A i \in S : i \in Int /\ f[i] \in Int /\ f[i] = -i
  OBVIOUS
<1> HIDE DEF f
<1>3. PICK i \in S : \A j \in S : f[i] <= f[j]
  BY <1>1, <1>2, LeastExists
<1>4. \A j \in S : i >= j
  <2> SUFFICES ASSUME NEW j \in S PROVE i >= j
    OBVIOUS
  <2>1. f[i] <= f[j] /\ f[i] = -i /\ f[j] = -j /\ i \in Int /\ j \in Int
    BY <1>2, <1>3
  <2> QED  BY <2>1
<1>5. Max(S) \in S /\ \A j \in S : Max(S) >= j
  BY <1>4 DEF Max
<1> QED  BY <1>5, <1>2

LEMMA FirstPlace ==
    ASSUME NEW n \in Nat, NEW S \in SUBSET (1 .. n), S # {}
    PROVE  Min(S) \in S
<1> DEFINE f == [i \in S |-> i]
<1>1. IsFiniteSet(S)
  <2>1. IsFiniteSet(1 .. n)
    BY FS_Interval
  <2> QED  BY <2>1, FS_Subset
<1>2. \A i \in S : i \in Int /\ f[i] \in Int /\ f[i] = i
  OBVIOUS
<1> HIDE DEF f
<1>3. PICK i \in S : \A j \in S : f[i] <= f[j]
  BY <1>1, <1>2, LeastExists
<1>4. \A j \in S : i <= j
  BY <1>2, <1>3
<1> QED  BY <1>4 DEF Min

-----------------------------------------------------------------------------
\* Baselines and rows only come in addition.

Grown ==
    /\ Ids \subseteq Ids'
    /\ \A id \in Ids : made'[id] = made[id]
    /\ DOMAIN rows \subseteq (DOMAIN rows)'
    /\ \A i \in DOMAIN rows : rows'[i] = rows[i]

LEMMA StillRight ==
    ASSUME StoreTypes, Grown, NEW q, NEW id, IsRight(q, id)
    PROVE  IsRight(q, id)' /\ Fresh(id)' = Fresh(id)
<1>1. id \in Ids /\ id \in Ids' /\ made'[id] = made[id]
  BY DEF IsRight, Grown
<1>2. NoOlder(q.newest, id) => NoOlder(q.newest, id)'
  BY DEF NoOlder, Grown
<1> QED  BY <1>1, <1>2 DEF IsRight, Fresh

LEMMA StillOK ==
    ASSUME StoreTypes, Grown, NEW q, RequestOK(q),
           q.stage \in AtSaving => \A i \in (DOMAIN rows)' : rows'[i] # q.id
    PROVE  RequestOK(q)'
<1>1. q.stage = "persisting" => IsRight(q, q.id)' /\ q.content = Fresh(q.id)'
  BY StillRight DEF RequestOK
<1>2. q.stage \in AtSaving \/ q.stage = "fallen back"
         => q.id \in Ids /\ q.id \in Ids' /\ made'[q.id] = made[q.id]
  BY DEF RequestOK, Grown
<1>3. ASSUME q.newest # NoId
      PROVE \E i \in (DOMAIN rows)' : rows'[i] = q.newest /\ made'[rows'[i]].world = q.world
  <2>1. PICK i \in DOMAIN rows : rows[i] = q.newest /\ made[rows[i]].world = q.world
    BY <1>3 DEF RequestOK
  <2> QED  BY <2>1 DEF Grown, StoreTypes
<1> QED  BY <1>1, <1>2, <1>3 DEF RequestOK

LEMMA NothingGrows == UNCHANGED <<made, rows>> => Grown
BY DEF Grown, Ids

\* The run that is published stays what it is.
LEMMA RunStays ==
    ASSUME StoreTypes, Grown, RunOK, run' = run
    PROVE  RunOK'
<1>1. CASE run = NoWorld
  BY <1>1 DEF RunOK
<1>2. CASE run # NoWorld
  <2>1. IsRight(run, run.baseline)
    BY <1>2 DEF RunOK
  <2>2. ASSUME NEW r, IsRight(r, r.baseline)
        PROVE IsRight(r, r.baseline)' /\ Fresh(r.baseline)' = Fresh(r.baseline)
    BY <2>2, StillRight
  <2>3. PICK r : r = run
    OBVIOUS
  <2>4. IsRight(r, r.baseline)' /\ Fresh(r.baseline)' = Fresh(r.baseline)
    BY <2>1, <2>2, <2>3
  <2>5. IsRight(run, run.baseline)' /\ Fresh(run.baseline)' = Fresh(run.baseline)
    BY <2>3, <2>4 DEF IsRight, Fresh, NoOlder, Ids
  <2> QED  BY <1>2, <2>5 DEF RunOK
<1> QED  BY <1>1, <1>2

\* One request goes on to its next stage.
LEMMA OneGoesOn ==
    ASSUME WorldRunsInv, Grown, NEW c \in DOMAIN requests, NEW q \in WorldRequest,
           requests' = [requests EXCEPT ![c] = q],
           RequestOK(q)',
           \A d \in DOMAIN requests : d # c /\ requests[d].stage \in AtSaving =>
               /\ \A i \in (DOMAIN rows)' : rows'[i] # requests[d].id
               /\ q.stage \in AtSaving => requests[d].id # q.id
    PROVE  /\ requests' \in Seq(WorldRequest)
           /\ DOMAIN requests' = DOMAIN requests
           /\ SavesDiffer'
           /\ (\A d \in DOMAIN requests : RequestOK(requests[d]))'
<1>1. requests \in Seq(WorldRequest)
  BY DEF WorldRunsInv, RequestTypes
<1>2. requests' \in Seq(WorldRequest) /\ DOMAIN requests' = DOMAIN requests
  BY <1>1
<1>3. requests'[c] = q /\ \A d \in DOMAIN requests : d # c => requests'[d] = requests[d]
  BY <1>1
<1>4. ASSUME NEW d \in DOMAIN requests PROVE RequestOK(requests[d])'
  <2>1. CASE d = c
    BY <2>1, <1>3 DEF RequestOK, IsRight, Fresh, NoOlder, Ids
  <2>2. CASE d # c
    <3>1. ASSUME NEW r, r = requests[d] PROVE RequestOK(r)'
      BY <3>1, <2>2, StillOK DEF WorldRunsInv
    <3>2. PICK r : r = requests[d]
      OBVIOUS
    <3>3. RequestOK(r)' /\ requests'[d] = r
      BY <3>1, <3>2, <2>2, <1>3
    <3> QED  BY <3>3 DEF RequestOK, IsRight, Fresh, NoOlder, Ids
  <2> QED  BY <2>1, <2>2
<1>5. SavesDiffer'
  <2> SUFFICES ASSUME NEW d \in DOMAIN requests, NEW e \in DOMAIN requests,
                      requests'[d].stage \in AtSaving, requests'[e].stage \in AtSaving,
                      requests'[d].id = requests'[e].id
               PROVE  d = e
    BY <1>2 DEF SavesDiffer
  <2>1. CASE d # c /\ e # c
    BY <2>1, <1>3 DEF WorldRunsInv, SavesDiffer
  <2>2. CASE d = c /\ e # c
    BY <2>2, <1>3
  <2>3. CASE d # c /\ e = c
    BY <2>3, <1>3
  <2> QED  BY <2>1, <2>2, <2>3
<1> QED  BY <1>2, <1>4, <1>5

-----------------------------------------------------------------------------
\* The requests

LEMMA RequestFields ==
    ASSUME WorldRunsInv, NEW c \in DOMAIN requests
    PROVE  /\ requests \in Seq(WorldRequest) /\ requests[c] \in WorldRequest
           /\ RequestOK(requests[c])
BY DEF WorldRunsInv, RequestTypes

LEMMA AnsweredOK ==
    \A why \in {"none", "scenario", "baseline"} :
       /\ [Answered EXCEPT !.why = why] \in WorldRequest /\ Answered \in WorldRequest
       /\ [Answered EXCEPT !.why = why].stage = "answered" /\ Answered.stage = "answered"
       /\ RequestOK([Answered EXCEPT !.why = why]) /\ RequestOK(Answered)
<1> SUFFICES ASSUME NEW why \in {"none", "scenario", "baseline"}
             PROVE  /\ [Answered EXCEPT !.why = why] \in WorldRequest
                    /\ Answered \in WorldRequest
                    /\ [Answered EXCEPT !.why = why].stage = "answered"
                    /\ Answered.stage = "answered"
                    /\ RequestOK([Answered EXCEPT !.why = why]) /\ RequestOK(Answered)
  OBVIOUS
<1> DEFINE q(w) == [kind |-> "none", world |-> "none", asked |-> 0, scenario |-> "none",
                    stage |-> "answered", id |-> 0, newest |-> 0, content |-> NoContent,
                    source |-> "none", why |-> w]
<1>1. NoContent \in Contents
  BY DEF NoContent, Contents
<1>2. Answered = q("none") /\ [Answered EXCEPT !.why = why] = q(why)
  <2>1. Answered = q("none")
    BY DEF Answered, NoRequest, NoId
  <2>2. [q("none") EXCEPT !.why = why] = q(why)
    OBVIOUS
  <2> QED  BY <2>1, <2>2
<1>3. q("none") \in WorldRequest /\ q(why) \in WorldRequest
  BY <1>1 DEF WorldRequest, Sources
<1>4. RequestOK(q("none")) /\ RequestOK(q(why))
  BY DEF RequestOK, AtStart, AtSaving, NoId
<1> QED  BY <1>2, <1>3, <1>4

\* The stages of start() that a request goes through do not change what it asks.
LEMMA StageChanges ==
    ASSUME WorldRunsInv, NEW c \in DOMAIN requests,
           requests[c].kind = "start",
           requests[c].stage # "answered"
    PROVE  /\ [requests[c] EXCEPT !.stage = "asked"] \in WorldRequest
           /\ RequestOK([requests[c] EXCEPT !.stage = "asked"])
           /\ [requests[c] EXCEPT !.stage = "asked again"] \in WorldRequest
           /\ RequestOK([requests[c] EXCEPT !.stage = "asked again"])
           /\ [requests[c] EXCEPT !.stage = "loading", !.id = NoId] \in WorldRequest
           /\ RequestOK([requests[c] EXCEPT !.stage = "loading", !.id = NoId])
<1>1. requests[c] \in WorldRequest /\ RequestOK(requests[c])
  BY RequestFields
<1>2. ASSUME NEW q \in WorldRequest, NEW s \in {"asked", "asked again", "loading"},
             NEW id \in Nat, RequestOK(q), q.kind = "start", q.stage # "answered"
      PROVE  /\ [q EXCEPT !.stage = s, !.id = id] \in WorldRequest
             /\ RequestOK([q EXCEPT !.stage = s, !.id = id])
  <2> DEFINE r == [q EXCEPT !.stage = s, !.id = id]
  <2>1. r \in WorldRequest /\ r.stage = s /\ r.kind = q.kind /\ r.world = q.world
           /\ r.newest = q.newest
    BY <1>2 DEF WorldRequest, AtStart
  <2> HIDE DEF r
  <2>2. RequestOK(r)
    BY <1>2, <2>1 DEF RequestOK, AtStart, AtSaving
  <2> QED  BY <2>1, <2>2 DEF r
<1>3. requests[c].id \in Nat /\ NoId \in Nat
  BY <1>1 DEF WorldRequest, NoId
<1>4. ASSUME NEW s PROVE [requests[c] EXCEPT !.stage = s]
                            = [requests[c] EXCEPT !.stage = s, !.id = requests[c].id]
  BY <1>1 DEF WorldRequest
<1> QED  BY <1>1, <1>2, <1>3, <1>4

\* What a step leaves to show when one request goes on to its next stage.
LEMMA GoesOnOK ==
    ASSUME WorldRunsInv, Grown, NEW c \in DOMAIN requests, NEW q \in WorldRequest,
           requests' = [requests EXCEPT ![c] = q],
           RequestOK(q)',
           \A d \in DOMAIN requests : d # c /\ requests[d].stage \in AtSaving =>
               /\ \A i \in (DOMAIN rows)' : rows'[i] # requests[d].id
               /\ q.stage \in AtSaving => requests[d].id # q.id,
           StoreTypes', RowsOK', CacheOK', RunOK',
           RegistryOK(base)', RegistryOK(mine)',
           lock' \in DOMAIN requests \union {Nobody},
           edits' \in Nat, restarts' \in Nat
    PROVE  WorldRunsInv'
<1>1. /\ requests' \in Seq(WorldRequest) /\ DOMAIN requests' = DOMAIN requests
      /\ SavesDiffer' /\ (\A d \in DOMAIN requests : RequestOK(requests[d]))'
  BY OneGoesOn
<1>2. RequestTypes'
  BY <1>1 DEF RequestTypes
<1> QED  BY <1>1, <1>2 DEF WorldRunsInv

LEMMA StoreStays ==
    ASSUME WorldRunsInv, UNCHANGED <<made, rows, cache>>, second' \in 1 .. MaxSecond
    PROVE  Grown /\ StoreTypes' /\ RowsOK' /\ CacheOK'
<1>1. Grown
  BY NothingGrows
<1>2. Ids' = Ids
  BY DEF Ids
<1>3. StoreTypes'
  BY <1>2 DEF WorldRunsInv, StoreTypes
<1>4. RowsOK'
  BY DEF WorldRunsInv, RowsOK
<1>5. CacheOK'
  BY <1>2 DEF WorldRunsInv, CacheOK
<1> QED  BY <1>1, <1>3, <1>4, <1>5

LEMMA RegistriesStay ==
    ASSUME WorldRunsInv, UNCHANGED registries
    PROVE  RegistryOK(base)' /\ RegistryOK(mine)'
BY DEF WorldRunsInv, registries, RegistryOK

\* A request that does not save goes on, and no baseline is made or saved.
LEMMA GoesOnInPlace ==
    ASSUME WorldRunsInv, UNCHANGED store, NEW c \in DOMAIN requests, NEW q \in WorldRequest,
           requests' = [requests EXCEPT ![c] = q],
           RequestOK(q), q.stage \notin AtSaving,
           RunOK', RegistryOK(base)', RegistryOK(mine)',
           lock' \in DOMAIN requests \union {Nobody},
           second' \in 1 .. MaxSecond, edits' \in Nat, restarts' \in Nat
    PROVE  WorldRunsInv'
<1>1. UNCHANGED <<made, rows, cache>>
  BY DEF store
<1>2. Grown /\ StoreTypes' /\ RowsOK' /\ CacheOK'
  BY <1>1, StoreStays
<1>3. StoreTypes
  BY DEF WorldRunsInv
<1>4. RequestOK(q)'
  BY <1>2, <1>3, StillOK
<1>5. ASSUME NEW d \in DOMAIN requests, d # c, requests[d].stage \in AtSaving
      PROVE \A i \in (DOMAIN rows)' : rows'[i] # requests[d].id
  BY <1>1, <1>5 DEF WorldRunsInv, RequestOK
<1> QED  BY <1>2, <1>4, <1>5, GoesOnOK

\* ensure_world_baseline() returns.
LEMMA EnsuredOK ==
    ASSUME WorldRunsInv, NEW c \in DOMAIN requests, NEW id,
           requests[c].stage \in AtLook \union AtSaving,
           requests[c].stage \in AtStart =>
              id \in Ids /\ made[id] = [world |-> requests[c].world, version |-> V1],
           Ensured(c, id)
    PROVE  \E q \in WorldRequest :
              /\ requests' = [requests EXCEPT ![c] = q]
              /\ RequestOK(q) /\ q.stage \notin AtSaving
<1>1. requests[c] \in WorldRequest /\ RequestOK(requests[c]) /\ requests \in Seq(WorldRequest)
  BY RequestFields
<1>2. CASE requests[c].kind # "start"
  <2>1. requests' = [requests EXCEPT ![c] = Answered]
    <3>1. PICK a : a = [requests[c] EXCEPT !.stage = "loading", !.id = NoId]
      OBVIOUS
    <3>2. PICK b : b = [requests[c] EXCEPT !.stage = "fallen back", !.id = id]
      OBVIOUS
    <3> DEFINE first == requests[c].stage \in {"asked", "saving"}
               e == IF requests[c].kind # "start" THEN Answered
                    ELSE IF first THEN a ELSE b
    <3>3. requests' = [requests EXCEPT ![c] = e]
      BY <3>1, <3>2, Zenon DEF Ensured
    <3> HIDE DEF first
    <3>4. e = Answered
      BY <1>2
    <3> HIDE DEF e
    <3> QED  BY <3>3, <3>4
  <2>2. Answered \in WorldRequest /\ RequestOK(Answered) /\ Answered.stage = "answered"
    BY AnsweredOK
  <2> QED  BY <2>1, <2>2 DEF AtSaving
<1>3. CASE requests[c].kind = "start" /\ requests[c].stage \in {"asked", "saving"}
  <2> DEFINE q == [requests[c] EXCEPT !.stage = "loading", !.id = NoId]
  <2>1. requests' = [requests EXCEPT ![c] = q]
    BY <1>3 DEF Ensured
  <2>2. q \in WorldRequest /\ RequestOK(q)
    BY <1>3, StageChanges
  <2>3. q.stage = "loading"
    BY <1>1 DEF WorldRequest
  <2> HIDE DEF q
  <2> QED  BY <2>1, <2>2, <2>3 DEF AtSaving
<1>4. CASE requests[c].kind = "start" /\ requests[c].stage \in {"asked again", "saving again"}
  <2>0. id \in Ids /\ made[id] = [world |-> requests[c].world, version |-> V1]
    BY <1>4 DEF AtStart
  <2>1. PICK q : /\ q = [requests[c] EXCEPT !.stage = "fallen back", !.id = id]
                 /\ requests' = [requests EXCEPT ![c] = q]
    BY <1>4 DEF Ensured
  <2>2. id \in Nat
    <3>1. made \in Seq(BaselineOf)
      BY DEF WorldRunsInv, StoreTypes
    <3>2. Len(made) \in Nat
      BY <3>1, LenProperties
    <3> QED  BY <2>0, <3>2 DEF Ids
  <2>3. q \in WorldRequest /\ q.stage = "fallen back" /\ q.kind = "start"
          /\ q.world = requests[c].world /\ q.id = id /\ q.newest = requests[c].newest
    BY <1>1, <1>4, <2>1, <2>2 DEF WorldRequest, AtStart
  <2>4. RequestOK(q)
    BY <2>0, <2>3, <1>1, <1>4 DEF RequestOK, AtStart, AtSaving
  <2> QED  BY <2>1, <2>3, <2>4 DEF AtSaving
<1> QED  BY <1>2, <1>3, <1>4 DEF AtLook, AtSaving

\* A baseline is built.
LEMMA BuildOK ==
    ASSUME WorldRunsInv, NEW c \in DOMAIN requests, NEW version \in V1 .. MaxSecond,
           requests[c].stage \in AtLook,
           requests[c].kind # "force" => version = V1,
           Build(c, version), UNCHANGED <<registries, lock, run, edits, restarts>>,
           second' \in 1 .. MaxSecond
    PROVE  WorldRunsInv'
<1> DEFINE b == [world |-> requests[c].world, version |-> version]
           new == Len(made) + 1
<1>1. requests[c] \in WorldRequest /\ RequestOK(requests[c]) /\ requests \in Seq(WorldRequest)
  BY RequestFields
<1>2. StoreTypes /\ CacheOK /\ RowsOK
  BY DEF WorldRunsInv
<1>3. b \in BaselineOf
  BY <1>1 DEF RequestOK, BaselineOf, AtLook
<1>4. made \in Seq(BaselineOf) /\ made' = Append(made, b) /\ rows' = rows /\ cache' = cache
  BY <1>2 DEF StoreTypes, Build
<1> HIDE DEF b
<1>5. /\ made' \in Seq(BaselineOf) /\ new \in Nat /\ Ids' = 1 .. new /\ new \in Ids'
      /\ Ids \subseteq Ids' /\ new \notin Ids /\ made'[new] = b
      /\ \A id \in Ids : made'[id] = made[id]
  <2>1. Len(made) \in Nat /\ Ids = 1 .. Len(made)
    BY <1>4, LenProperties DEF Ids
  <2>2. made' \in Seq(BaselineOf) /\ Len(made') = new
    BY <1>3, <1>4, AppendProperties
  <2>3. Ids' = 1 .. new
    BY <2>2 DEF Ids
  <2>4. made'[new] = b /\ \A id \in 1 .. Len(made) : made'[id] = made[id]
    BY <1>3, <1>4, <2>1, AppendProperties
  <2> QED  BY <2>1, <2>2, <2>3, <2>4
<1>6. Grown
  BY <1>4, <1>5 DEF Grown
<1>7. StoreTypes'
  BY <1>2, <1>4, <1>5 DEF StoreTypes
<1>8. RowsOK'
  BY <1>2, <1>4 DEF RowsOK
<1>9. CacheOK'
  BY <1>2, <1>4, <1>5 DEF CacheOK
<1>10. RunOK'
  BY <1>2, <1>6, RunStays DEF WorldRunsInv
<1>11. Saving(c) \in AtSaving /\ (Saving(c) \in AtStart => requests[c].kind = "start")
  BY <1>1 DEF Saving, AtLook, AtSaving, AtStart, RequestOK
<1>12. PICK q : q = [requests[c] EXCEPT !.stage = Saving(c), !.id = new]
  OBVIOUS
<1>13. /\ q \in WorldRequest /\ q.stage = Saving(c) /\ q.id = new /\ q.kind = requests[c].kind
       /\ q.world = requests[c].world /\ q.newest = requests[c].newest
  BY <1>1, <1>5, <1>11, <1>12 DEF WorldRequest, AtSaving, AtStart
<1>14. requests' = [requests EXCEPT ![c] = q]
  BY <1>12 DEF Build
<1>15. RequestOK(q)'
  <2>1. q.kind # "none" /\ q.world \in Worlds
    BY <1>1, <1>13 DEF RequestOK, AtLook
  <2>2. q.stage \in AtStart => q.kind = "start"
    BY <1>11, <1>13
  <2>3. q.id \in Ids' /\ \A i \in (DOMAIN rows)' : rows'[i] # q.id
    BY <1>2, <1>4, <1>5, <1>13 DEF StoreTypes
  <2>4. made'[q.id].world = q.world /\ (q.kind # "force" => made'[q.id].version = V1)
    <3>1. b.world = requests[c].world /\ b.version = version
      BY DEF b
    <3>2. made'[q.id] = b
      BY <1>5, <1>13
    <3> QED  BY <3>1, <3>2, <1>13
  <2>5. q.newest # NoId =>
          \E i \in (DOMAIN rows)' : rows'[i] = q.newest /\ made'[rows'[i]].world = q.world
    BY <1>1, <1>2, <1>4, <1>5, <1>13 DEF RequestOK, StoreTypes
  <2>6. q.stage \in AtSaving
    BY <1>11, <1>13
  <2> QED  BY <2>1, <2>2, <2>3, <2>4, <2>5, <2>6 DEF RequestOK, AtSaving
<1>16. ASSUME NEW d \in DOMAIN requests, d # c, requests[d].stage \in AtSaving
       PROVE (\A i \in (DOMAIN rows)' : rows'[i] # requests[d].id) /\ requests[d].id # q.id
  <2>1. RequestOK(requests[d])
    BY DEF WorldRunsInv
  <2>2. requests[d].id \in Ids /\ \A i \in DOMAIN rows : rows[i] # requests[d].id
    BY <1>16, <2>1 DEF RequestOK
  <2>3. requests[d].id # q.id
    BY <1>5, <1>13, <2>2
  <2> QED  BY <1>4, <2>2, <2>3
<1>17. RegistryOK(base)' /\ RegistryOK(mine)'
  BY RegistriesStay
<1>18. lock' \in DOMAIN requests \union {Nobody} /\ edits' \in Nat /\ restarts' \in Nat
  BY DEF WorldRunsInv, RequestTypes
<1> QED  BY <1>6, <1>7, <1>8, <1>9, <1>10, <1>13, <1>14, <1>15, <1>16, <1>17, <1>18, GoesOnOK

LEMMA FreshOK ==
    ASSUME WorldRunsInv, NEW id \in Ids
    PROVE  /\ id \in Nat /\ id # NoId /\ made[id] \in BaselineOf
           /\ Fresh(id) \in Contents /\ Content(id) = Fresh(id)
<1>1. made \in Seq(BaselineOf)
  BY DEF WorldRunsInv, StoreTypes
<1>2. Len(made) \in Nat /\ id \in 1 .. Len(made) /\ made[id] \in BaselineOf
  BY <1>1, LenProperties, ElementOfSeq DEF Ids
<1>3. ReadBack(Written(Built)) = Built
  BY DEF ReadBack, Written, Built
<1>4. Content(id) = Fresh(id)
  BY <1>3 DEF Content, Fresh
<1>5. made[id] \in [world : Worlds \union {"none"}, version : Nat]
  <2>1. V1 .. MaxSecond \subseteq Nat
    BY WorldRunsAssumption DEF V1
  <2> QED  BY <1>2, <2>1 DEF BaselineOf
<1>6. Fresh(id) \in Contents
  BY <1>5 DEF Fresh, Contents
<1> QED  BY <1>2, <1>4, <1>6 DEF NoId

\* An entry of the cache holds what its baseline was seeded with.
LEMMA EntriesAreFresh ==
    ASSUME WorldRunsInv, NEW e \in Range(cache)
    PROVE  /\ e.id \in Ids /\ made[e.id] = [world |-> e.world, version |-> e.version]
           /\ ContentOf(e) = Fresh(e.id)
<1>1. PICK i \in DOMAIN cache : cache[i] = e
  BY DEF Range
<1>2. e.id \in Ids /\ e = Entry(made[e.id].world, made[e.id].version, e.id)
  BY <1>1 DEF WorldRunsInv, CacheOK
<1>3. e.world = made[e.id].world /\ e.version = made[e.id].version /\ e.touched = FALSE
  BY <1>2 DEF Entry
<1>4. made[e.id] \in BaselineOf
  BY <1>2, FreshOK
<1>5. made[e.id] = [world |-> e.world, version |-> e.version]
  BY <1>3, <1>4 DEF BaselineOf
<1>6. ReadBack(Written(Built)) = Built
  BY DEF ReadBack, Written, Built
<1> QED  BY <1>2, <1>3, <1>5, <1>6 DEF ContentOf, Fresh

\* A baseline is cloned.
LEMMA ClonedOK ==
    ASSUME WorldRunsInv, NEW c \in DOMAIN requests,
           requests[c].stage \in AtStart,
           NEW id \in Ids, NEW source \in Sources, NEW content, content = Fresh(id),
           requests[c].asked = NoId => made[id].world = requests[c].world,
           requests[c].asked = NoId /\ source = "rows" /\ requests[c].newest # NoId =>
               NoOlder(requests[c].newest, id),
           Cloned(c, id, content, source)
    PROVE  \E q \in WorldRequest :
              /\ requests' = [requests EXCEPT ![c] = q]
              /\ RequestOK(q) /\ q.stage \notin AtSaving
<1>1. requests[c] \in WorldRequest /\ RequestOK(requests[c])
  BY RequestFields
<1>2. PICK q : /\ q = [requests[c] EXCEPT !.stage = "persisting", !.id = id,
                                          !.content = content, !.source = source]
               /\ requests' = [requests EXCEPT ![c] = q]
  BY DEF Cloned
<1>3. id \in Nat /\ content \in Contents
  BY FreshOK
<1>4. /\ q \in WorldRequest /\ q.stage = "persisting" /\ q.kind = requests[c].kind
      /\ q.world = requests[c].world /\ q.id = id /\ q.newest = requests[c].newest
      /\ q.content = content /\ q.source = source /\ q.asked = requests[c].asked
  BY <1>1, <1>2, <1>3 DEF WorldRequest, AtStart
<1>5. requests[c].kind = "start" /\ requests[c].world \in Worlds
  BY <1>1 DEF RequestOK, AtStart
<1>6. IsRight(q, q.id) /\ q.content = Fresh(q.id)
  BY <1>4 DEF IsRight
<1>7. RequestOK(q)
  BY <1>1, <1>4, <1>5, <1>6 DEF RequestOK, AtStart, AtSaving
<1> QED  BY <1>2, <1>4, <1>7 DEF AtSaving

-----------------------------------------------------------------------------
\* The steps

\* A step in which a request that does not save goes on, and the rest stays.
LEMMA OneStep ==
    ASSUME WorldRunsInv, NEW c \in DOMAIN requests,
           \E q \in WorldRequest :
              /\ requests' = [requests EXCEPT ![c] = q]
              /\ RequestOK(q) /\ q.stage \notin AtSaving,
           UNCHANGED <<registries, store, run, clocks>>,
           lock' \in DOMAIN requests \union {Nobody}
    PROVE  WorldRunsInv'
<1>1. PICK q \in WorldRequest : /\ requests' = [requests EXCEPT ![c] = q]
                                /\ RequestOK(q) /\ q.stage \notin AtSaving
  OBVIOUS
<1>2. RegistryOK(base)' /\ RegistryOK(mine)'
  BY RegistriesStay
<1>3. UNCHANGED <<made, rows, cache>> /\ run' = run
  BY DEF store
<1>4. RunOK'
  BY <1>3, NothingGrows, RunStays DEF WorldRunsInv
<1>5. second' \in 1 .. MaxSecond /\ edits' \in Nat /\ restarts' \in Nat
  BY DEF WorldRunsInv, StoreTypes, RequestTypes, clocks
<1> QED  BY <1>1, <1>2, <1>4, <1>5, GoesOnInPlace

LEMMA LookOK ==
    ASSUME WorldRunsInv, NEW c \in DOMAIN requests, NEW answers \in BOOLEAN, Look(c, answers)
    PROVE  WorldRunsInv'
<1> DEFINE saved == V1RowsOf(requests[c].world)
           held == CachedV1(requests[c].world)
<1>1. requests[c].stage \in AtLook
  BY DEF Look, AtLook
<1>2. lock' \in DOMAIN requests \union {Nobody}
  BY DEF Look, WorldRunsInv, RequestTypes
<1>3. ASSUME NEW id \in Ids, made[id] = [world |-> requests[c].world, version |-> V1],
             Ensured(c, id), UNCHANGED store
      PROVE  WorldRunsInv'
  <2>1. \E q \in WorldRequest :
              /\ requests' = [requests EXCEPT ![c] = q]
              /\ RequestOK(q) /\ q.stage \notin AtSaving
    BY <1>1, <1>3, EnsuredOK
  <2> QED  BY <1>2, <1>3, <2>1, OneStep DEF Look
<1>4. CASE saved # {} /\ Ensured(c, rows[Max(saved)]) /\ UNCHANGED store
  <2>1. rows \in Seq(Nat) /\ Len(rows) \in Nat /\ saved \in SUBSET (1 .. Len(rows))
    BY LenProperties DEF WorldRunsInv, StoreTypes, V1RowsOf
  <2>2. Max(saved) \in saved
    BY <1>4, <2>1, LastPlace
  <2>3. rows[Max(saved)] \in Ids
    BY <2>2 DEF V1RowsOf, WorldRunsInv, StoreTypes
  <2>4. made[rows[Max(saved)]] = [world |-> requests[c].world, version |-> V1]
    BY <2>2 DEF V1RowsOf, IsV1
  <2> QED  BY <1>3, <1>4, <2>3, <2>4
<1>5. CASE held # {} /\ Ensured(c, (CHOOSE e \in held : TRUE).id) /\ UNCHANGED store
  <2>1. PICK e \in held : e = (CHOOSE x \in held : TRUE)
    BY <1>5
  <2>2. e \in Range(cache) /\ e.world = requests[c].world /\ e.version = V1
    BY DEF CachedV1
  <2>3. e.id \in Ids /\ made[e.id] = [world |-> requests[c].world, version |-> V1]
    BY <2>2, EntriesAreFresh
  <2> QED  BY <1>3, <1>5, <2>1, <2>3
<1>6. CASE Build(c, V1)
  <2>1. V1 \in V1 .. MaxSecond
    BY WorldRunsAssumption DEF V1
  <2>2. second' \in 1 .. MaxSecond /\ UNCHANGED <<edits, restarts>>
    BY DEF Look, clocks, WorldRunsInv, StoreTypes
  <2>3. UNCHANGED <<registries, lock, run>>
    BY DEF Look
  <2> QED  BY <1>1, <1>6, <2>1, <2>2, <2>3, BuildOK
<1> QED  BY <1>4, <1>5, <1>6 DEF Look

LEMMA ReseedOK ==
    ASSUME WorldRunsInv, NEW c \in DOMAIN requests, Reseed(c)
    PROVE  WorldRunsInv'
<1>1. requests[c].stage \in AtLook /\ requests[c].kind = "force"
  BY DEF Reseed, AtLook
<1>2. PICK s \in second .. MaxSecond : second' = s /\ Build(c, s)
  BY DEF Reseed
<1>3. s \in V1 .. MaxSecond /\ s \in 1 .. MaxSecond
  BY <1>2, WorldRunsAssumption DEF WorldRunsInv, StoreTypes, V1
<1>4. UNCHANGED <<registries, lock, run, edits, restarts>>
  BY DEF Reseed
<1> QED  BY <1>1, <1>2, <1>3, <1>4, BuildOK

CacheType == [world : Worlds, version : Nat, id : Nat, touched : BOOLEAN]

LEMMA CachedOK ==
    ASSUME WorldRunsInv, NEW id \in Ids
    PROVE  LET e == Entry(made[id].world, made[id].version, id)
           IN  /\ Cached(e) \in Seq(CacheType)
               /\ \A i \in DOMAIN Cached(e) : Cached(e)[i] = e \/ Cached(e)[i] \in Range(cache)
<1> DEFINE old == {i \in DOMAIN cache : /\ cache[i].world = made[id].world
                                        /\ cache[i].version = made[id].version}
<1>1. PICK e : e = Entry(made[id].world, made[id].version, id)
  OBVIOUS
<1>2. e.world = made[id].world /\ e.version = made[id].version
  BY <1>1 DEF Entry
<1>3. e \in CacheType
  <2>1. id \in Nat /\ made[id] \in BaselineOf
    BY FreshOK
  <2>2. V1 .. MaxSecond \subseteq Nat
    BY WorldRunsAssumption DEF V1
  <2> QED  BY <1>1, <2>1, <2>2 DEF Entry, CacheType, BaselineOf
<1>4. cache \in Seq(CacheType)
  BY DEF WorldRunsInv, StoreTypes, CacheType
<1>5. CASE old = {}
  <2>1. Cached(e) = Append(cache, e)
    BY <1>2, <1>5 DEF Cached
  <2>2. Cached(e) \in Seq(CacheType) /\ Len(cache) \in Nat
          /\ Cached(e)[Len(cache) + 1] = e /\ DOMAIN Cached(e) = 1 .. Len(cache) + 1
          /\ \A i \in 1 .. Len(cache) : Cached(e)[i] = cache[i] /\ i \in DOMAIN cache
    BY <2>1, <1>3, <1>4, AppendProperties, LenProperties
  <2>3. ASSUME NEW i \in DOMAIN Cached(e)
        PROVE Cached(e)[i] = e \/ Cached(e)[i] \in Range(cache)
    <3>1. i = Len(cache) + 1 \/ i \in 1 .. Len(cache)
      BY <2>2
    <3> QED  BY <2>2, <3>1 DEF Range
  <2> QED  BY <1>1, <2>2, <2>3
<1>6. CASE old # {}
  <2>1. PICK p \in old : p = CHOOSE i \in old : TRUE
    BY <1>6
  <2>2. Cached(e) = [cache EXCEPT ![p] = e]
    BY <1>2, <1>6, <2>1 DEF Cached
  <2>3. Cached(e) \in Seq(CacheType) /\ DOMAIN Cached(e) = DOMAIN cache
    BY <2>2, <1>3, <1>4
  <2>4. \A i \in DOMAIN cache : Cached(e)[i] = e \/ Cached(e)[i] = cache[i]
    BY <2>2, <1>4
  <2> QED  BY <1>1, <2>3, <2>4 DEF Range
<1> QED  BY <1>5, <1>6

LEMMA SaveOK ==
    ASSUME WorldRunsInv, NEW c \in DOMAIN requests, NEW commits \in BOOLEAN, Save(c, commits)
    PROVE  WorldRunsInv'
<1> DEFINE id == requests[c].id
           e == Entry(made[id].world, made[id].version, id)
<1>1. requests[c] \in WorldRequest /\ RequestOK(requests[c])
  BY RequestFields
<1>2. requests[c].stage \in AtSaving
  BY DEF Save, AtSaving
<1>3. /\ id \in Ids /\ \A i \in DOMAIN rows : rows[i] # id
      /\ made[id].world = requests[c].world
      /\ requests[c].kind # "force" => made[id].version = V1
  BY <1>1, <1>2 DEF RequestOK
<1>4. id \in Nat /\ made[id] \in BaselineOf
  BY <1>3, FreshOK
<1>5. requests[c].stage \in AtStart =>
         made[id] = [world |-> requests[c].world, version |-> V1]
  <2>1. ASSUME requests[c].stage \in AtStart
        PROVE made[id].world = requests[c].world /\ made[id].version = V1
    BY <1>1, <1>3, <2>1 DEF RequestOK
  <2> QED  BY <1>4, <2>1 DEF BaselineOf
<1>6. Ensured(c, id)
  BY DEF Save
<1>7. PICK q \in WorldRequest : /\ requests' = [requests EXCEPT ![c] = q]
                                /\ RequestOK(q) /\ q.stage \notin AtSaving
  BY <1>2, <1>3, <1>5, <1>6, EnsuredOK
<1>8. StoreTypes /\ RowsOK /\ SavesDiffer /\ CacheOK
  BY DEF WorldRunsInv
<1>9. /\ made' = made /\ cache' = Cached(e)
      /\ rows' = Append(rows, id) \/ rows' = rows
      /\ UNCHANGED <<registries, lock, run, clocks>>
  BY DEF Save
<1>10. rows \in Seq(Nat) /\ Len(rows) \in Nat /\ DOMAIN rows = 1 .. Len(rows)
  BY <1>8, LenProperties DEF StoreTypes
<1> HIDE DEF e
<1>11. /\ rows' \in Seq(Nat) /\ DOMAIN rows \subseteq (DOMAIN rows)'
       /\ \A i \in DOMAIN rows : rows'[i] = rows[i]
       /\ \A i \in (DOMAIN rows)' : i \in DOMAIN rows \/ rows'[i] = id
       /\ \A i, j \in (DOMAIN rows)' : i \notin DOMAIN rows /\ j \notin DOMAIN rows => i = j
  <2>1. CASE rows' = rows
    BY <2>1, <1>10
  <2>2. CASE rows' = Append(rows, id)
    <3>1. /\ rows' \in Seq(Nat) /\ (DOMAIN rows)' = 1 .. Len(rows) + 1
          /\ rows'[Len(rows) + 1] = id
          /\ \A i \in 1 .. Len(rows) : rows'[i] = rows[i]
      BY <2>2, <1>4, <1>10, AppendProperties, LenProperties
    <3>2. \A i \in 1 .. Len(rows) + 1 : i \in 1 .. Len(rows) \/ i = Len(rows) + 1
      BY <1>10
    <3> HIDE DEF id
    <3> QED  BY <1>10, <3>1, <3>2
  <2> QED  BY <1>9, <2>1, <2>2
<1>12. Ids' = Ids
  BY <1>9 DEF Ids
<1>13. Grown
  BY <1>9, <1>11, <1>12 DEF Grown
<1>14. RowsOK'
  <2> SUFFICES ASSUME NEW i \in (DOMAIN rows)', NEW j \in (DOMAIN rows)', rows'[i] = rows'[j]
               PROVE  i = j
    BY DEF RowsOK
  <2> HIDE DEF id
  <2>1. CASE i \in DOMAIN rows /\ j \in DOMAIN rows
    BY <2>1, <1>8, <1>11 DEF RowsOK
  <2>2. CASE i \notin DOMAIN rows /\ j \notin DOMAIN rows
    BY <2>2, <1>11
  <2>3. CASE i \in DOMAIN rows /\ j \notin DOMAIN rows
    BY <2>3, <1>3, <1>11
  <2>4. CASE i \notin DOMAIN rows /\ j \in DOMAIN rows
    BY <2>4, <1>3, <1>11
  <2> QED  BY <2>1, <2>2, <2>3, <2>4
<1>15. /\ cache' \in Seq(CacheType)
       /\ \A i \in DOMAIN cache' : cache'[i] = e \/ cache'[i] \in Range(cache)
  BY <1>3, <1>9, CachedOK DEF e
<1>16. StoreTypes'
  <2>1. \A i \in (DOMAIN rows)' : rows'[i] \in Ids
    BY <1>3, <1>8, <1>11 DEF StoreTypes
  <2>2. second' \in 1 .. MaxSecond
    BY <1>8, <1>9 DEF StoreTypes, clocks
  <2> QED  BY <1>8, <1>9, <1>11, <1>12, <1>15, <2>1, <2>2 DEF StoreTypes, CacheType
<1>17. CacheOK'
  <2> SUFFICES ASSUME NEW i \in (DOMAIN cache)'
               PROVE  /\ cache'[i].id \in Ids
                      /\ cache'[i] = Entry(made[cache'[i].id].world,
                                           made[cache'[i].id].version, cache'[i].id)
    BY <1>9, <1>12 DEF CacheOK
  <2>1. CASE cache'[i] = e
    <3>1. e.id = id /\ e = Entry(made[id].world, made[id].version, id)
      BY DEF e, Entry
    <3> HIDE DEF id
    <3> QED  BY <2>1, <3>1, <1>3
  <2>2. CASE cache'[i] \in Range(cache)
    BY <2>2, <1>8 DEF CacheOK, Range
  <2> QED  BY <1>15, <2>1, <2>2
<1>18. RunOK'
  BY <1>8, <1>9, <1>13, RunStays DEF WorldRunsInv
<1>19. RequestOK(q)'
  BY <1>7, <1>8, <1>13, StillOK
<1>20. ASSUME NEW d \in DOMAIN requests, d # c, requests[d].stage \in AtSaving
       PROVE \A i \in (DOMAIN rows)' : rows'[i] # requests[d].id
  <2>1. requests[d].id # id
    BY <1>2, <1>8, <1>20 DEF SavesDiffer
  <2>2. \A i \in DOMAIN rows : rows[i] # requests[d].id
    BY <1>20 DEF WorldRunsInv, RequestOK
  <2> HIDE DEF id
  <2> QED  BY <1>11, <2>1, <2>2
<1>21. RegistryOK(base)' /\ RegistryOK(mine)'
  BY <1>9, RegistriesStay
<1>22. lock' \in DOMAIN requests \union {Nobody} /\ edits' \in Nat /\ restarts' \in Nat
  BY <1>9 DEF WorldRunsInv, RequestTypes, clocks
<1> QED  BY <1>7, <1>13, <1>14, <1>16, <1>17, <1>18, <1>19, <1>20, <1>21, <1>22, GoesOnOK

LEMMA LoadOK ==
    ASSUME WorldRunsInv, NEW c \in DOMAIN requests, NEW answers \in BOOLEAN, Load(c, answers)
    PROVE  WorldRunsInv'
<1> DEFINE world == requests[c].world
           asked == requests[c].asked
<1>1. requests[c] \in WorldRequest /\ RequestOK(requests[c])
  BY RequestFields
<1>2. requests[c].stage = "loading" /\ requests[c].stage \in AtStart
  BY DEF Load, AtStart
<1>3. UNCHANGED <<registries, store, lock, run, clocks>>
        /\ lock' \in DOMAIN requests \union {Nobody}
  BY DEF Load, WorldRunsInv, RequestTypes
<1>4. ASSUME NEW id \in FoundRows(c), Cloned(c, id, Content(id), "rows")
      PROVE  WorldRunsInv'
  <2>1. /\ id \in Ids
        /\ asked = NoId => made[id].world = world
        /\ asked = NoId /\ requests[c].newest # NoId => NoOlder(requests[c].newest, id)
    <3>1. CASE asked # NoId
      <4>1. id \in Range(rows)
        BY <1>4, <3>1 DEF FoundRows
      <4> QED  BY <3>1, <4>1 DEF Range, WorldRunsInv, StoreTypes
    <3>2. CASE asked = NoId
      <4>1. RowsOf(world) # {} /\ id = rows[Max(RowsOf(world))]
        BY <1>4, <3>2 DEF FoundRows, NewestRowOf
      <4>2. rows \in Seq(Nat) /\ Len(rows) \in Nat /\ RowsOf(world) \in SUBSET (1 .. Len(rows))
        BY LenProperties DEF WorldRunsInv, StoreTypes, RowsOf
      <4>3. Max(RowsOf(world)) \in RowsOf(world) /\ \A i \in RowsOf(world) : i <= Max(RowsOf(world))
        BY <4>1, <4>2, LastPlace
      <4>4. id \in Ids /\ made[id].world = world
        BY <4>1, <4>3 DEF RowsOf, WorldRunsInv, StoreTypes
      <4>5. ASSUME requests[c].newest # NoId PROVE NoOlder(requests[c].newest, id)
        <5>1. PICK i \in DOMAIN rows : /\ rows[i] = requests[c].newest
                                       /\ made[rows[i]].world = world
          BY <1>1, <4>5 DEF RequestOK
        <5>2. i \in RowsOf(world)
          BY <5>1 DEF RowsOf
        <5>3. i <= Max(RowsOf(world)) /\ Max(RowsOf(world)) \in DOMAIN rows
          BY <4>3, <5>2 DEF RowsOf
        <5> QED  BY <4>1, <5>1, <5>3 DEF NoOlder
      <4> QED  BY <4>4, <4>5
    <3> QED  BY <3>1, <3>2
  <2>2. Content(id) = Fresh(id)
    BY <2>1, FreshOK
  <2>3. "rows" \in Sources
    BY DEF Sources
  <2>4. \E q \in WorldRequest : /\ requests' = [requests EXCEPT ![c] = q]
                                /\ RequestOK(q) /\ q.stage \notin AtSaving
    BY <1>2, <1>4, <2>1, <2>2, <2>3, ClonedOK
  <2> QED  BY <1>3, <2>4, OneStep
<1>5. ASSUME NEW e \in FoundEntries(c), Cloned(c, e.id, ContentOf(e), "cache")
      PROVE  WorldRunsInv'
  <2>1. e \in Range(cache) /\ (asked = NoId => e.world = world)
    <3> DEFINE named == {i \in DOMAIN cache : cache[i].id = asked}
    <3>1. cache \in Seq(CacheType) /\ Len(cache) \in Nat /\ DOMAIN cache = 1 .. Len(cache)
      BY LenProperties DEF WorldRunsInv, StoreTypes, CacheType
    <3>2. CASE named # {}
      <4>1. Min(named) \in named
        BY <3>1, <3>2, FirstPlace
      <4>2. e = cache[Min(named)]
        BY <1>5, <3>2 DEF FoundEntries
      <4>3. e.id \in Ids /\ e.id = asked
        BY <4>1, <4>2 DEF WorldRunsInv, CacheOK
      <4>4. asked # NoId
        BY <4>3, FreshOK
      <4> QED  BY <4>1, <4>2, <4>4 DEF Range
    <3>3. CASE named = {}
      <4>1. EntriesOf(world) # {} /\ e = cache[Min(EntriesOf(world))]
        BY <1>5, <3>3 DEF FoundEntries
      <4>2. EntriesOf(world) \in SUBSET (1 .. Len(cache))
        BY <3>1 DEF EntriesOf
      <4>3. Min(EntriesOf(world)) \in EntriesOf(world)
        BY <3>1, <4>1, <4>2, FirstPlace
      <4> QED  BY <4>1, <4>3 DEF EntriesOf, Range
    <3> QED  BY <3>2, <3>3
  <2>2. e.id \in Ids /\ made[e.id] = [world |-> e.world, version |-> e.version]
          /\ ContentOf(e) = Fresh(e.id)
    BY <2>1, EntriesAreFresh
  <2>3. asked = NoId => made[e.id].world = world
    BY <2>1, <2>2
  <2>4. "cache" \in Sources /\ "cache" # "rows"
    BY DEF Sources
  <2>5. \E q \in WorldRequest : /\ requests' = [requests EXCEPT ![c] = q]
                                /\ RequestOK(q) /\ q.stage \notin AtSaving
    BY <1>2, <1>5, <2>2, <2>3, <2>4, ClonedOK
  <2> QED  BY <1>3, <2>5, OneStep
<1>6. CASE requests' = [requests EXCEPT ![c].stage = "asked again"]
  <2>1. PICK q : q = [requests[c] EXCEPT !.stage = "asked again"]
    OBVIOUS
  <2>2. requests[c].kind = "start" /\ requests[c].stage # "answered"
    BY <1>1, <1>2 DEF RequestOK
  <2>3. q \in WorldRequest /\ RequestOK(q)
    BY <2>1, <2>2, StageChanges
  <2>4. q.stage = "asked again"
    BY <2>1, <1>1 DEF WorldRequest
  <2>5. requests' = [requests EXCEPT ![c] = q] /\ q.stage \notin AtSaving
    BY <1>6, <2>1, <2>4 DEF AtSaving
  <2> QED  BY <1>3, <2>3, <2>5, OneStep
<1> QED  BY <1>4, <1>5, <1>6 DEF Load

\* A request fails.
LEMMA FailsOK ==
    ASSUME WorldRunsInv, NEW c \in DOMAIN requests, NEW why \in {"none", "scenario", "baseline"},
           Fails(c, why), UNCHANGED <<registries, store, run, clocks>>
    PROVE  WorldRunsInv'
<1>1. PICK q : q = [Answered EXCEPT !.why = why]
  OBVIOUS
<1>2. q \in WorldRequest /\ q.stage = "answered" /\ RequestOK(q)
  BY <1>1, AnsweredOK
<1>3. requests' = [requests EXCEPT ![c] = q]
  BY <1>1 DEF Fails
<1>4. q.stage \notin AtSaving
  BY <1>2 DEF AtSaving
<1>5. lock' \in DOMAIN requests \union {Nobody}
  BY DEF Fails, Unlocked
<1> QED  BY <1>2, <1>3, <1>4, <1>5, OneStep

LEMMA FallBackOK ==
    ASSUME WorldRunsInv, NEW c \in DOMAIN requests, FallBack(c)
    PROVE  WorldRunsInv'
<1>1. requests[c] \in WorldRequest /\ RequestOK(requests[c])
  BY RequestFields
<1>2. requests[c].stage = "fallen back" /\ requests[c].stage \in AtStart
  BY DEF FallBack, AtStart
<1>3. UNCHANGED <<registries, store, run, clocks>>
  BY DEF FallBack, bounds
<1>4. CASE Fails(c, "baseline")
  BY <1>3, <1>4, FailsOK
<1>5. ASSUME NEW e \in CachedV1(requests[c].world),
             Cloned(c, requests[c].id, ContentOf(e), "fallback"), UNCHANGED lock
      PROVE  WorldRunsInv'
  <2>1. e \in Range(cache) /\ e.world = requests[c].world /\ e.version = V1
    BY DEF CachedV1
  <2>2. made[e.id] = [world |-> e.world, version |-> e.version] /\ ContentOf(e) = Fresh(e.id)
    BY <2>1, EntriesAreFresh
  <2>3. requests[c].id \in Ids
          /\ made[requests[c].id] = [world |-> requests[c].world, version |-> V1]
    BY <1>1, <1>2 DEF RequestOK
  <2>4. ContentOf(e) = Fresh(requests[c].id) /\ made[requests[c].id].world = requests[c].world
    BY <2>1, <2>2, <2>3 DEF Fresh
  <2>5. "fallback" \in Sources /\ "fallback" # "rows"
    BY DEF Sources
  <2>6. \E q \in WorldRequest : /\ requests' = [requests EXCEPT ![c] = q]
                                /\ RequestOK(q) /\ q.stage \notin AtSaving
    BY <1>2, <1>5, <2>3, <2>4, <2>5, ClonedOK
  <2>7. lock' \in DOMAIN requests \union {Nobody}
    BY <1>5 DEF WorldRunsInv, RequestTypes
  <2> QED  BY <1>3, <2>6, <2>7, OneStep
<1> QED  BY <1>4, <1>5 DEF FallBack

LEMMA BeginOK ==
    ASSUME WorldRunsInv, NEW c \in DOMAIN requests, Begin(c)
    PROVE  WorldRunsInv'
<1> DEFINE overrides == Scenarios[requests[c].scenario]
<1>1. requests[c] \in WorldRequest /\ RequestOK(requests[c])
  BY RequestFields
<1>2. UNCHANGED <<store, run, clocks>> /\ requests[c].stage = "waiting"
  BY DEF Begin, bounds
<1>3. CASE Fails(c, "scenario") /\ UNCHANGED registries
  BY <1>2, <1>3, FailsOK
<1>4. CASE /\ \A n \in DOMAIN overrides : Accepts(n, overrides[n])
           /\ mine' = Resolved(base, overrides)
           /\ base' = BaseAfter(overrides)
           /\ requests' = [requests EXCEPT ![c].stage = "asked"]
           /\ lock' = c
  <2>1. PICK q : q = [requests[c] EXCEPT !.stage = "asked"]
    OBVIOUS
  <2>2. requests[c].kind = "start" /\ requests[c].stage # "answered"
    BY <1>1, <1>2 DEF RequestOK, AtStart
  <2>3. q \in WorldRequest /\ RequestOK(q)
    BY <2>1, <2>2, StageChanges
  <2>4. q.stage = "asked"
    BY <2>1, <1>1 DEF WorldRequest
  <2>5. requests' = [requests EXCEPT ![c] = q] /\ q.stage \notin AtSaving
    BY <1>4, <2>1, <2>4 DEF AtSaving
  <2>6. RegistryOK(base)
    BY DEF WorldRunsInv
  <2>7. base' = base
    BY <1>4 DEF BaseAfter
  <2>8. RegistryOK(base)'
    BY <2>6, <2>7 DEF RegistryOK
  <2>9. PICK m : m = Resolved(base, overrides)
    OBVIOUS
  <2>10. RegistryOK(m)
    BY <1>4, <2>6, <2>9, UpdatedOK DEF Resolved
  <2>11. RegistryOK(mine)'
    BY <1>4, <2>9, <2>10 DEF RegistryOK
  <2>12. UNCHANGED <<made, rows, cache>> /\ run' = run
    BY <1>2 DEF store
  <2>13. RunOK'
    BY <2>12, NothingGrows, RunStays DEF WorldRunsInv
  <2>14. second' \in 1 .. MaxSecond /\ edits' \in Nat /\ restarts' \in Nat
    BY <1>2 DEF WorldRunsInv, StoreTypes, RequestTypes, clocks
  <2>15. lock' \in DOMAIN requests \union {Nobody}
    BY <1>4
  <2> QED  BY <1>2, <2>3, <2>5, <2>8, <2>11, <2>13, <2>14, <2>15, GoesOnInPlace
<1> QED  BY <1>3, <1>4 DEF Begin

LEMMA PublishOK ==
    ASSUME WorldRunsInv, NEW c \in DOMAIN requests, Publish(c)
    PROVE  WorldRunsInv'
<1>1. requests[c] \in WorldRequest /\ RequestOK(requests[c])
  BY RequestFields
<1>2. IsRight(requests[c], requests[c].id) /\ requests[c].content = Fresh(requests[c].id)
  BY <1>1 DEF RequestOK, Publish
<1>3. UNCHANGED <<registries, store, clocks>> /\ lock' = Nobody
  BY DEF Publish, bounds
<1>4. /\ run'.world = requests[c].world /\ run'.asked = requests[c].asked
      /\ run'.baseline = requests[c].id /\ run'.content = requests[c].content
      /\ run'.source = requests[c].source /\ run'.newest = requests[c].newest
      /\ run' \in PublishedRun
  BY <1>1 DEF Publish, PublishedRun, WorldRequest
<1>5. UNCHANGED <<made, rows, cache>>
  BY <1>3 DEF store
<1>6. IsRight(run, run.baseline)'
  BY <1>2, <1>4, <1>5 DEF IsRight, NoOlder, Ids
<1>7. run'.content = Fresh(run.baseline)'
  BY <1>2, <1>4, <1>5 DEF Fresh
<1>8. RunOK'
  BY <1>4, <1>6, <1>7 DEF RunOK
<1>9. requests' = [requests EXCEPT ![c] = Answered]
  BY DEF Publish
<1>10. Answered \in WorldRequest /\ RequestOK(Answered) /\ Answered.stage \notin AtSaving
  BY AnsweredOK DEF AtSaving
<1>11. PICK q \in WorldRequest : /\ requests' = [requests EXCEPT ![c] = q]
                                 /\ RequestOK(q) /\ q.stage \notin AtSaving
  BY <1>9, <1>10
<1>12. RegistryOK(base)' /\ RegistryOK(mine)'
  BY <1>3, RegistriesStay
<1>13. second' \in 1 .. MaxSecond /\ edits' \in Nat /\ restarts' \in Nat
  BY <1>3 DEF WorldRunsInv, StoreTypes, RequestTypes, clocks
<1> QED  BY <1>3, <1>8, <1>11, <1>12, <1>13, GoesOnInPlace

LEMMA SameRequest ==
    ASSUME NEW c \in DOMAIN requests, RequestOK(requests[c]), UNCHANGED <<made, rows>>,
           requests'[c] = requests[c]
    PROVE  RequestOK(requests[c])'
<1>1. ASSUME NEW q, RequestOK(q) PROVE RequestOK(q)'
  BY <1>1 DEF RequestOK, IsRight, Fresh, NoOlder, Ids
<1>2. PICK q : q = requests[c]
  OBVIOUS
<1>3. RequestOK(q)' /\ requests'[c] = q
  BY <1>1, <1>2
<1> QED  BY <1>3 DEF RequestOK, IsRight, Fresh, NoOlder, Ids

\* A step that leaves the store and the requests as they are.
LEMMA RestStays ==
    ASSUME WorldRunsInv, UNCHANGED <<store, requests, lock, second>>,
           RegistryOK(base)', RegistryOK(mine)', RunOK',
           edits' \in Nat, restarts' \in Nat
    PROVE  WorldRunsInv'
<1>1. UNCHANGED <<made, rows, cache>>
  BY DEF store
<1>2. second' \in 1 .. MaxSecond
  BY DEF WorldRunsInv, StoreTypes
<1>3. Grown /\ StoreTypes' /\ RowsOK' /\ CacheOK'
  BY <1>1, <1>2, StoreStays
<1>4. RequestTypes' /\ SavesDiffer'
  BY DEF WorldRunsInv, RequestTypes, SavesDiffer
<1>5. ASSUME NEW c \in DOMAIN requests PROVE RequestOK(requests[c])'
  BY <1>1 DEF WorldRunsInv, RequestOK, IsRight, Fresh, NoOlder, Ids
<1> QED  BY <1>3, <1>4, <1>5 DEF WorldRunsInv

LEMMA EditOK ==
    ASSUME WorldRunsInv, NEW e, Edit(e)
    PROVE  WorldRunsInv'
<1>1. RegistryOK(base) /\ RegistryOK(mine)
  BY DEF WorldRunsInv
<1>2. PICK b : b = base'
  OBVIOUS
<1>3. b = base \/ (Accepts(e.name, e.value) /\ b = Set(base, e.name, e.value, e.scope))
  BY <1>2 DEF Edit
<1>4. RegistryOK(b)
  BY <1>1, <1>3, SetOK
<1>5. RegistryOK(base)' /\ RegistryOK(mine)'
  BY <1>1, <1>2, <1>4 DEF Edit, RegistryOK
<1>6. UNCHANGED <<made, rows>> /\ run' = run
  BY DEF Edit, store
<1>7. RunOK'
  BY <1>6, NothingGrows, RunStays DEF WorldRunsInv
<1>8. edits' \in Nat /\ restarts' \in Nat
  BY DEF Edit, WorldRunsInv, RequestTypes
<1>9. UNCHANGED <<store, requests, lock, second>>
  BY DEF Edit
<1> QED  BY <1>5, <1>7, <1>8, <1>9, RestStays

LEMMA DisruptOK ==
    ASSUME WorldRunsInv, NEW overrides, Disrupt(overrides)
    PROVE  WorldRunsInv'
<1> DEFINE set == [n \in {m \in DOMAIN overrides : Accepts(m, overrides[m])} |-> overrides[n]]
<1>1. RegistryOK(base) /\ RegistryOK(mine)
  BY DEF WorldRunsInv
<1>2. \A n \in DOMAIN set : Accepts(n, set[n])
  OBVIOUS
<1>3. mine' = [mine EXCEPT !.plain = Updated(@, set)] /\ base' = base
  BY DEF Disrupt, BaseAfter
<1> HIDE DEF set
<1>4. PICK m : m = [mine EXCEPT !.plain = Updated(@, set)]
  OBVIOUS
<1>5. RegistryOK(m)
  BY <1>1, <1>2, <1>4, UpdatedOK
<1>6. RegistryOK(base)' /\ RegistryOK(mine)'
  BY <1>1, <1>3, <1>4, <1>5 DEF RegistryOK
<1>7. UNCHANGED <<store, requests, lock, run, bounds>>
  BY DEF Disrupt
<1>8. UNCHANGED <<made, rows>> /\ run' = run
  BY <1>7 DEF store
<1>9. RunOK'
  BY <1>8, NothingGrows, RunStays DEF WorldRunsInv
<1>10. edits' \in Nat /\ restarts' \in Nat /\ second' = second
  BY <1>7 DEF bounds, clocks, WorldRunsInv, RequestTypes
<1>11. UNCHANGED <<store, requests, lock, second>>
  BY <1>7, <1>10
<1> QED  BY <1>6, <1>9, <1>10, <1>11, RestStays

LEMMA GoOnOK ==
    ASSUME WorldRunsInv, GoOn
    PROVE  WorldRunsInv'
<1>1. run \in PublishedRun /\ IsRight(run, run.baseline)
  BY DEF GoOn, WorldRunsInv, RunOK
<1>2. UNCHANGED <<registries, made, rows, requests, lock, bounds>> /\ cache' = cache
  BY DEF GoOn, CacheAfterServing
<1>3. PICK content : content = [run.content EXCEPT !.touched = TRUE]
  OBVIOUS
<1>4. content \in Contents
  BY <1>1, <1>3 DEF PublishedRun, Contents
<1>5. run' = [run EXCEPT !.served = TRUE, !.content = content]
  BY <1>1, <1>3 DEF GoOn, PublishedRun
<1>6. /\ run' \in PublishedRun /\ run'.served = TRUE /\ run'.asked = run.asked
      /\ run'.world = run.world /\ run'.source = run.source /\ run'.newest = run.newest
      /\ run'.baseline = run.baseline
  BY <1>1, <1>4, <1>5 DEF PublishedRun
<1>7. IsRight(run, run.baseline)'
  BY <1>1, <1>2, <1>6 DEF IsRight, NoOlder, Ids
<1>8. RunOK'
  BY <1>6, <1>7 DEF RunOK
<1>9. RegistryOK(base)' /\ RegistryOK(mine)'
  BY <1>2, RegistriesStay
<1>10. edits' \in Nat /\ restarts' \in Nat
  BY <1>2 DEF bounds, clocks, WorldRunsInv, RequestTypes
<1>11. UNCHANGED <<store, requests, lock, second>>
  BY <1>2 DEF store, bounds, clocks
<1> QED  BY <1>8, <1>9, <1>10, <1>11, RestStays

\* A request comes in.
LEMMA AskedOK ==
    ASSUME WorldRunsInv, NEW q \in WorldRequest, requests' = Append(requests, q),
           RequestOK(q), q.stage \notin AtSaving,
           UNCHANGED <<registries, store, lock, run, bounds>>
    PROVE  WorldRunsInv'
<1>1. UNCHANGED <<made, rows, cache>> /\ run' = run
  BY DEF store
<1>2. second' \in 1 .. MaxSecond /\ edits' \in Nat /\ restarts' \in Nat
  BY DEF WorldRunsInv, StoreTypes, RequestTypes, bounds, clocks
<1>3. Grown /\ StoreTypes' /\ RowsOK' /\ CacheOK'
  BY <1>1, <1>2, StoreStays
<1>4. RunOK'
  BY <1>1, <1>3, RunStays DEF WorldRunsInv
<1>5. RegistryOK(base)' /\ RegistryOK(mine)'
  BY RegistriesStay
<1>6. requests \in Seq(WorldRequest) /\ Len(requests) \in Nat
        /\ DOMAIN requests = 1 .. Len(requests)
  BY LenProperties DEF WorldRunsInv, RequestTypes
<1>7. /\ requests' \in Seq(WorldRequest) /\ DOMAIN requests' = 1 .. Len(requests) + 1
      /\ requests'[Len(requests) + 1] = q
      /\ \A c \in 1 .. Len(requests) : requests'[c] = requests[c]
  BY <1>6, AppendProperties, LenProperties
<1>8. \A c \in DOMAIN requests' : \/ c = Len(requests) + 1 /\ requests'[c] = q
                                  \/ c \in DOMAIN requests /\ requests'[c] = requests[c]
  <2>1. \A c \in 1 .. Len(requests) + 1 : c = Len(requests) + 1 \/ c \in 1 .. Len(requests)
    BY <1>6
  <2> QED  BY <1>6, <1>7, <2>1
<1>9. RequestTypes'
  <2>1. DOMAIN requests \subseteq DOMAIN requests'
    BY <1>6, <1>7
  <2> QED  BY <1>2, <1>7, <2>1 DEF WorldRunsInv, RequestTypes
<1>10. SavesDiffer'
  BY <1>8 DEF WorldRunsInv, SavesDiffer
<1>11. ASSUME NEW c \in DOMAIN requests' PROVE RequestOK(requests[c])'
  <2>1. CASE requests'[c] = q
    BY <1>1, <2>1 DEF RequestOK, IsRight, Fresh, NoOlder, Ids
  <2>2. CASE c \in DOMAIN requests /\ requests'[c] = requests[c]
    BY <1>1, <2>2, SameRequest DEF WorldRunsInv
  <2> QED  BY <1>8, <2>1, <2>2
<1> QED  BY <1>3, <1>4, <1>5, <1>9, <1>10, <1>11 DEF WorldRunsInv

LEMMA AskWorldOK ==
    ASSUME WorldRunsInv, NEW kind \in {"create", "force"}, NEW world \in Worlds,
           AskWorld(kind, world)
    PROVE  WorldRunsInv'
<1>1. PICK q : q = [NoRequest EXCEPT !.kind = kind, !.world = world, !.stage = "asked"]
  OBVIOUS
<1>2. NoContent \in Contents
  BY DEF NoContent, Contents
<1>3. q \in WorldRequest /\ q.kind = kind /\ q.world = world /\ q.stage = "asked"
        /\ q.newest = NoId
  BY <1>1, <1>2 DEF NoRequest, NoId, WorldRequest, Sources
<1>4. RequestOK(q) /\ q.stage \notin AtSaving
  BY <1>3 DEF RequestOK, AtStart, AtSaving
<1>5. requests' = Append(requests, q) /\ UNCHANGED <<registries, store, lock, run, bounds>>
  BY <1>1 DEF AskWorld
<1> QED  BY <1>3, <1>4, <1>5, AskedOK

LEMMA AskStartOK ==
    ASSUME WorldRunsInv, NEW world \in Worlds, NEW scenario \in StartWith,
           NEW asked \in {NoId} \union Ids, AskStart(world, scenario, asked)
    PROVE  WorldRunsInv'
<1> DEFINE newest == IF asked # NoId \/ RowsOf(world) = {} THEN NoId
                     ELSE rows[Max(RowsOf(world))]
<1>1. PICK q : q = [NoRequest EXCEPT
              !.kind = "start", !.world = world, !.asked = asked,
              !.scenario = scenario, !.stage = "waiting", !.newest = newest]
  OBVIOUS
<1>2. requests' = Append(requests, q) /\ UNCHANGED <<registries, store, lock, run, bounds>>
  BY <1>1 DEF AskStart
<1>3. NoContent \in Contents
  BY DEF NoContent, Contents
<1>4. ASSUME newest # NoId
      PROVE  \E i \in DOMAIN rows : rows[i] = newest /\ made[rows[i]].world = world
  <2>1. RowsOf(world) # {} /\ newest = rows[Max(RowsOf(world))]
    BY <1>4
  <2>2. rows \in Seq(Nat) /\ Len(rows) \in Nat /\ RowsOf(world) \in SUBSET (1 .. Len(rows))
    BY LenProperties DEF WorldRunsInv, StoreTypes, RowsOf
  <2>3. Max(RowsOf(world)) \in RowsOf(world)
    BY <2>1, <2>2, LastPlace
  <2> QED  BY <2>1, <2>3 DEF RowsOf
<1>5. newest \in Nat
  <2>1. rows \in Seq(Nat)
    BY DEF WorldRunsInv, StoreTypes
  <2> QED  BY <1>4, <2>1, ElementOfSeq, LenProperties DEF NoId
<1>6. asked \in Nat
  BY FreshOK DEF NoId
<1> HIDE DEF newest
<1>7. /\ q \in WorldRequest /\ q.kind = "start" /\ q.world = world /\ q.stage = "waiting"
      /\ q.newest = newest
  BY <1>1, <1>3, <1>5, <1>6 DEF NoRequest, NoId, WorldRequest, Sources, AtStart
<1>8. RequestOK(q) /\ q.stage \notin AtSaving
  BY <1>4, <1>7 DEF RequestOK, AtStart, AtSaving
<1> QED  BY <1>2, <1>7, <1>8, AskedOK

LEMMA RestartOK ==
    ASSUME WorldRunsInv, Restart
    PROVE  WorldRunsInv'
<1>1. UNCHANGED <<made, rows, second, edits>> /\ cache' = <<>> /\ run' = NoWorld
        /\ lock' = Nobody
  BY DEF Restart
<1>2. RegistryOK(base)' /\ RegistryOK(mine)'
  BY UntouchedOK DEF Restart, RegistryOK
<1>3. Ids' = Ids /\ Grown
  BY <1>1, NothingGrows DEF Ids
<1>4. StoreTypes' /\ RowsOK' /\ CacheOK'
  <2>1. cache' \in Seq(CacheType) /\ DOMAIN cache' = {}
    BY <1>1
  <2> QED  BY <1>1, <1>3, <2>1 DEF WorldRunsInv, StoreTypes, RowsOK, CacheOK, CacheType
<1>5. RunOK'
  BY <1>1 DEF RunOK
<1>6. requests \in Seq(WorldRequest) /\ Len(requests) \in Nat
        /\ DOMAIN requests = 1 .. Len(requests)
  BY LenProperties DEF WorldRunsInv, RequestTypes
<1>7. requests' = [c \in DOMAIN requests |-> IF Underway(c) THEN Answered ELSE requests[c]]
  BY DEF Restart
<1>8. \A c \in DOMAIN requests : requests'[c] = Answered \/ requests'[c] = requests[c]
  BY <1>7
<1>9. \A c \in DOMAIN requests : requests'[c].stage = "answered"
  BY <1>7, AnsweredOK DEF Underway
<1>10. \A c \in DOMAIN requests : requests'[c] \in WorldRequest
  BY <1>6, <1>8, AnsweredOK, RequestFields
<1>11. requests' \in Seq(WorldRequest) /\ DOMAIN requests' = DOMAIN requests
  BY <1>6, <1>7, <1>10
<1>12. RequestTypes'
  BY <1>1, <1>11 DEF Restart, WorldRunsInv, RequestTypes
<1>13. SavesDiffer'
  BY <1>9, <1>11 DEF SavesDiffer, AtSaving
<1>14. ASSUME NEW c \in DOMAIN requests PROVE RequestOK(requests[c])'
  <2>1. CASE requests'[c] = Answered
    BY <1>1, <2>1, AnsweredOK DEF RequestOK, IsRight, Fresh, NoOlder, Ids
  <2>2. CASE requests'[c] = requests[c]
    BY <1>1, <2>2, SameRequest DEF WorldRunsInv
  <2> QED  BY <1>8, <2>1, <2>2
<1> QED  BY <1>2, <1>4, <1>5, <1>11, <1>12, <1>13, <1>14 DEF WorldRunsInv

LEMMA InitOK == WorldRunsInit => WorldRunsInv
<1> SUFFICES ASSUME WorldRunsInit PROVE WorldRunsInv
  OBVIOUS
<1>1. RegistryOK(base) /\ RegistryOK(mine)
  BY UntouchedOK DEF WorldRunsInit
<1>2. StoreTypes /\ RowsOK /\ CacheOK
  BY WorldRunsAssumption DEF WorldRunsInit, StoreTypes, RowsOK, CacheOK
<1>3. RequestTypes /\ SavesDiffer /\ \A c \in DOMAIN requests : RequestOK(requests[c])
  BY DEF WorldRunsInit, RequestTypes, SavesDiffer
<1>4. RunOK
  BY DEF WorldRunsInit, RunOK
<1> QED  BY <1>1, <1>2, <1>3, <1>4 DEF WorldRunsInv

LEMMA StepOK == WorldRunsInv /\ [WorldRunsNext]_worldRunsVars => WorldRunsInv'
<1> SUFFICES ASSUME WorldRunsInv, [WorldRunsNext]_worldRunsVars PROVE WorldRunsInv'
  OBVIOUS
<1>1. ASSUME NEW kind \in {"create", "force"}, NEW world \in Worlds, AskWorld(kind, world)
      PROVE  WorldRunsInv'
  BY <1>1, AskWorldOK
<1>2. ASSUME NEW world \in Worlds, NEW scenario \in StartWith,
             NEW asked \in {NoId} \union Ids, AskStart(world, scenario, asked)
      PROVE  WorldRunsInv'
  BY <1>2, AskStartOK
<1>3. ASSUME NEW c \in DOMAIN requests, Proceed(c)
      PROVE  WorldRunsInv'
  BY <1>3, BeginOK, LookOK, SaveOK, LoadOK, PublishOK, ReseedOK, FallBackOK DEF Proceed
<1>4. ASSUME NEW e \in Edits, Edit(e) PROVE WorldRunsInv'
  BY <1>4, EditOK
<1>5. ASSUME NEW o \in Overrides, Disrupt(o) PROVE WorldRunsInv'
  BY <1>5, DisruptOK
<1>6. CASE GoOn
  BY <1>6, GoOnOK
<1>7. CASE Restart
  BY <1>7, RestartOK
<1>8. CASE UNCHANGED worldRunsVars
  <2>1. UNCHANGED <<store, requests, lock, second>> /\ UNCHANGED <<made, rows>> /\ run' = run
    BY <1>8 DEF worldRunsVars, bounds, clocks, store
  <2>2. RegistryOK(base)' /\ RegistryOK(mine)'
    BY <1>8, RegistriesStay DEF worldRunsVars
  <2>3. RunOK'
    BY <2>1, NothingGrows, RunStays DEF WorldRunsInv
  <2>4. edits' \in Nat /\ restarts' \in Nat
    BY <1>8 DEF worldRunsVars, bounds, clocks, WorldRunsInv, RequestTypes
  <2> QED  BY <2>1, <2>2, <2>3, <2>4, RestStays
<1> QED  BY <1>1, <1>2, <1>3, <1>4, <1>5, <1>6, <1>7, <1>8 DEF WorldRunsNext

LEMMA WorldRunsInvariant == WorldRunsSpec => []WorldRunsInv
BY InitOK, StepOK, PTL DEF WorldRunsSpec

(***************************************************************************)
(* Every parameter of the process and of the run stays in its range, and   *)
(* rows, entries of the cache, the lock and the published run name only    *)
(* baselines and requests there are: WorldRunsTypeOK, for any number of    *)
(* requests, worlds, edits, failures and restarts, and any scenarios and   *)
(* overrides (ParameterRegistry.set(), clone_with(), PATCH /parameters).   *)
(***************************************************************************)
THEOREM WorldRunsTyped == WorldRunsSpec => []WorldRunsTypeOK
<1>1. WorldRunsInv => WorldRunsTypeOK
  <2> SUFFICES ASSUME WorldRunsInv PROVE WorldRunsTypeOK
    OBVIOUS
  <2>1. ASSUME NEW reg, RegistryOK(reg),
               NEW k \in {<<n, NoScope>> : n \in DOMAIN reg.plain} \union DOMAIN reg.scoped
        PROVE  /\ k[1] \in Names
               /\ "low" \in DOMAIN Table[k[1]] =>
                     Get(reg, k[1], k[2]) \in Table[k[1]].low .. Table[k[1]].high
    <3>1. CASE k \in DOMAIN reg.scoped
      <4>1. k = <<k[1], k[2]>> /\ Accepts(k[1], reg.scoped[k])
        BY <2>1, <3>1 DEF RegistryOK
      <4>2. Get(reg, k[1], k[2]) = reg.scoped[k]
        BY <3>1, <4>1 DEF Get
      <4> QED  BY <4>1, <4>2 DEF Accepts
    <3>2. CASE k \notin DOMAIN reg.scoped
      <4>1. PICK n \in DOMAIN reg.plain : k = <<n, NoScope>>
        BY <2>1, <3>2
      <4>2. k[1] = n /\ k[2] = NoScope /\ Accepts(n, reg.plain[n])
        BY <2>1, <4>1 DEF RegistryOK
      <4>3. Get(reg, k[1], k[2]) = reg.plain[n]
        BY <3>2, <4>1, <4>2 DEF Get
      <4> QED  BY <4>2, <4>3 DEF Accepts
    <3> QED  BY <3>1, <3>2
  <2>2. ASSUME NEW reg \in {base, mine} PROVE RegistryOK(reg)
    <3>1. RegistryOK(base) /\ RegistryOK(mine)
      BY DEF WorldRunsInv
    <3> QED  BY <3>1, <2>2
  <2>3. made \in Seq([world : Worlds, version : V1 .. MaxSecond])
    BY DEF WorldRunsInv, StoreTypes, BaselineOf
  <2>4. Range(rows) \subseteq Ids /\ \A e \in Range(cache) : e.id \in Ids
    BY EntriesAreFresh DEF WorldRunsInv, StoreTypes, Range
  <2>5. lock \in DOMAIN requests \union {Nobody}
    BY DEF WorldRunsInv, RequestTypes
  <2>6. run = NoWorld \/ run.baseline \in Ids
    BY DEF WorldRunsInv, RunOK, IsRight
  <2> QED  BY <2>1, <2>2, <2>3, <2>4, <2>5, <2>6 DEF WorldRunsTypeOK
<1> QED  BY <1>1, WorldRunsInvariant, PTL

(***************************************************************************)
(* A start that names no baseline runs in its own world, and from the      *)
(* database it takes none older than the newest that was saved when it was *)
(* asked for: RightBaseline, however forced reseeds, failing commits,      *)
(* other starts and restarts come between the awaits of                    *)
(* ensure_world_baseline() and _load_baseline().                           *)
(***************************************************************************)
THEOREM RightBaselineTaken == WorldRunsSpec => []RightBaseline
<1>1. WorldRunsInv => RightBaseline
  <2> SUFFICES ASSUME WorldRunsInv PROVE RightBaseline
    OBVIOUS
  <2>1. run # NoWorld => IsRight(run, run.baseline)
    BY DEF WorldRunsInv, RunOK
  <2>2. AskedWorld
    BY <2>1 DEF AskedWorld, IsRight
  <2>3. ASSUME run # NoWorld, run.asked = NoId, run.source = "rows", run.newest # NoId,
               NEW m, m = (CHOOSE i \in DOMAIN rows : rows[i] = run.baseline),
               NEW n, n = (CHOOSE i \in DOMAIN rows : rows[i] = run.newest)
        PROVE  m >= n
    <3>1. PICK i \in DOMAIN rows, j \in DOMAIN rows :
             rows[i] = run.newest /\ rows[j] = run.baseline /\ i <= j
      BY <2>1, <2>3 DEF IsRight, NoOlder
    <3>2. rows \in Seq(Nat)
      BY DEF WorldRunsInv, StoreTypes
    <3>3. i \in Nat /\ j \in Nat
      BY <3>2, LenProperties
    <3>4. \A a, b \in DOMAIN rows : rows[a] = rows[b] => a = b
      BY DEF WorldRunsInv, RowsOK
    <3>5. m \in DOMAIN rows /\ rows[m] = run.baseline
      BY <2>3, <3>1
    <3>6. n \in DOMAIN rows /\ rows[n] = run.newest
      BY <2>3, <3>1
    <3>7. m = j /\ n = i
      BY <3>1, <3>4, <3>5, <3>6
    <3> QED  BY <3>1, <3>3, <3>7
  <2>4. NewestSavedIsUsed
    BY <2>3 DEF NewestSavedIsUsed
  <2> QED  BY <2>2, <2>4 DEF RightBaseline
<1> QED  BY <1>1, WorldRunsInvariant, PTL

(***************************************************************************)
(* A run that has not moved yet has all that its baseline was built with   *)
(* and nothing of an earlier run: RunsStartAsSeeded. What                  *)
(* deserialize_baseline() and _clone_baseline() return is what             *)
(* build_baseline() made, from the database and from the cache alike.      *)
(***************************************************************************)
THEOREM RunsStartSeeded == WorldRunsSpec => []RunsStartAsSeeded
<1>1. WorldRunsInv => RunsStartAsSeeded
  BY DEF WorldRunsInv, RunOK, Fresh, RunsStartAsSeeded
<1> QED  BY <1>1, WorldRunsInvariant, PTL

(***************************************************************************)
(* A scenario and a disruption change the run's parameters alone, and an   *)
(* edit those of the process alone: RegistriesAreIsolated                  *)
(* (ParameterRegistry.clone_with(), resolve_for_run()).                    *)
(***************************************************************************)
THEOREM RegistriesIsolated == WorldRunsSpec => RegistriesAreIsolated
<1> DEFINE A == /\ base' # base => edits' # edits \/ restarts' # restarts
                /\ edits' # edits => mine' = mine
<1>1. WorldRunsInv /\ [WorldRunsNext]_worldRunsVars => [A]_worldRunsVars
  <2> SUFFICES ASSUME WorldRunsInv, WorldRunsNext PROVE A
    OBVIOUS
  <2>0. edits \in Nat /\ restarts \in Nat
    BY DEF WorldRunsInv, RequestTypes
  <2>1. ASSUME UNCHANGED <<base, edits>> PROVE A
    BY <2>1
  <2>2. ASSUME NEW kind, NEW world, AskWorld(kind, world) PROVE A
    BY <2>1, <2>2 DEF AskWorld, registries, bounds, clocks
  <2>3. ASSUME NEW world, NEW scenario, NEW asked, AskStart(world, scenario, asked) PROVE A
    BY <2>1, <2>3 DEF AskStart, registries, bounds, clocks
  <2>4. ASSUME NEW c \in DOMAIN requests, Proceed(c) PROVE A
    <3>1. CASE Begin(c)
      BY <2>1, <3>1 DEF Begin, BaseAfter, registries, bounds, clocks
    <3>2. ASSUME NEW works \in BOOLEAN, Look(c, works) PROVE A
      BY <2>1, <3>2 DEF Look, registries, clocks
    <3>3. ASSUME NEW works \in BOOLEAN, Save(c, works) PROVE A
      BY <2>1, <3>3 DEF Save, registries, clocks
    <3>4. ASSUME NEW works \in BOOLEAN, Load(c, works) PROVE A
      BY <2>1, <3>4 DEF Load, registries, clocks
    <3>5. CASE Publish(c)
      BY <2>1, <3>5 DEF Publish, registries, bounds, clocks
    <3>6. CASE Reseed(c)
      BY <2>1, <3>6 DEF Reseed, registries
    <3>7. CASE FallBack(c)
      BY <2>1, <3>7 DEF FallBack, registries, bounds, clocks
    <3> HIDE DEF A
    <3> QED  BY <2>4, <3>1, <3>2, <3>3, <3>4, <3>5, <3>6, <3>7 DEF Proceed
  <2>5. ASSUME NEW e, Edit(e) PROVE A
    BY <2>0, <2>5 DEF Edit
  <2>6. ASSUME NEW o, Disrupt(o) PROVE A
    BY <2>1, <2>6 DEF Disrupt, BaseAfter, bounds, clocks
  <2>7. CASE GoOn
    BY <2>1, <2>7 DEF GoOn, registries, bounds, clocks
  <2>8. CASE Restart
    BY <2>0, <2>8 DEF Restart
  <2> HIDE DEF A
  <2> QED  BY <2>2, <2>3, <2>4, <2>5, <2>6, <2>7, <2>8 DEF WorldRunsNext
<1> QED  BY <1>1, WorldRunsInvariant, PTL DEF WorldRunsSpec, RegistriesAreIsolated
=============================================================================
