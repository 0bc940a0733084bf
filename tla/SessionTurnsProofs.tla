------------------------- MODULE SessionTurnsProofs -------------------------
(***************************************************************************)
(* What a chat session promises, for any traffic, any commands and any     *)
(* number of tasks, in five layers:                                        *)
(*                                                                         *)
(*   - Basics: the types, and which task may own the guard or the slot;    *)
(*   - Placed: a message is in one place.  Contents names the places (the  *)
(*     slot, the burst buffer, the overflow, what was given to agents, the *)
(*     text that stands on each, and the input and interrupt of each task),*)
(*     and every handler pours, adds or removes;                           *)
(*   - ByItself, for a session without commands: only the owner works, the *)
(*     guard is its own, no text interrupts a run, and nothing waits       *)
(*     behind an idle guard;                                               *)
(*   - Copied, also without commands: only captions of photos are copied;  *)
(*   - LinedUp, also without commands: the texts of one sender lie in the  *)
(*     order of their arrival along agents, owner, slot and burst buffer.  *)
(*                                                                         *)
(* NothingStranded rests on Basics alone: only the end of a task or of a   *)
(* command brings a session to rest, and each hands on what it finds.      *)
(***************************************************************************)
EXTENDS SessionTurns, SequenceTheorems, FiniteSetTheorems, TLAPS

----------------------------------------------------------------------------
(* Sequences of distinct messages.                                         *)

LEMMA RangeEmpty ==
    /\ Range(<<>>) = {} /\ IsInjective(<<>>)
    /\ \A S : \A e \in Seq(S) : (e = <<>> <=> Range(e) = {}) /\ Range(e) \subseteq S
<1>1. DOMAIN <<>> = {} OBVIOUS
<1>2. ASSUME NEW S, NEW e \in Seq(S)
      PROVE  (e = <<>> <=> Range(e) = {}) /\ Range(e) \subseteq S
  <2>1. /\ Len(e) \in Nat /\ e \in [1..Len(e) -> S] /\ DOMAIN e = 1..Len(e)
        /\ e # <<>> => Len(e) \in Nat \ {0}
      BY LenProperties, EmptySeq
  <2>2. e # <<>> => e[1] \in Range(e) BY <2>1 DEF Range
  <2>3. e = <<>> => Range(e) = {} BY <1>1 DEF Range
  <2>4. Range(e) \subseteq S BY <2>1 DEF Range
  <2> QED BY <2>2, <2>3, <2>4
<1>3. Range(<<>>) = {} /\ IsInjective(<<>>) BY <1>1 DEF Range, IsInjective
<1> QED BY <1>2, <1>3

LEMMA Single ==
    ASSUME NEW S, NEW x \in S
    PROVE  /\ <<x>> \in Seq(S) /\ <<x>> # <<>>
           /\ Range(<<x>>) = {x} /\ IsInjective(<<x>>)
BY DEF Range, IsInjective

LEMMA Joined ==
    ASSUME NEW S, NEW a \in Seq(S), NEW b \in Seq(S)
    PROVE  /\ a \o b \in Seq(S)
           /\ Range(a \o b) = Range(a) \union Range(b)
           /\ a \o <<>> = a /\ <<>> \o a = a
           /\ a \o b = <<>> <=> a = <<>> /\ b = <<>>
<1>1. a \o b \in Seq(S) /\ Len(a \o b) = Len(a) + Len(b)
      /\ \A i \in 1..(Len(a) + Len(b)) :
             (a \o b)[i] = IF i <= Len(a) THEN a[i] ELSE b[i - Len(a)]
    BY ConcatProperties
<1>2. Len(a) \in Nat /\ Len(b) \in Nat /\ DOMAIN a = 1..Len(a) /\ DOMAIN b = 1..Len(b)
      /\ DOMAIN (a \o b) = 1..(Len(a) + Len(b))
    BY <1>1, LenProperties
<1> DEFINE c == a \o b
<1>3. Range(c) \subseteq Range(a) \union Range(b)
  <2> SUFFICES ASSUME NEW i \in 1..(Len(a) + Len(b)) PROVE c[i] \in Range(a) \union Range(b)
      BY <1>2 DEF Range
  <2>1. CASE i <= Len(a)
      <3>1. c[i] = a[i] /\ i \in DOMAIN a BY <2>1, <1>1, <1>2
      <3> QED BY <3>1 DEF Range
  <2>2. CASE ~(i <= Len(a))
      <3>1. c[i] = b[i - Len(a)] /\ i - Len(a) \in DOMAIN b BY <2>2, <1>1, <1>2
      <3> QED BY <3>1 DEF Range
  <2> QED BY <2>1, <2>2
<1>4. Range(a) \subseteq Range(c)
  <2> SUFFICES ASSUME NEW i \in 1..Len(a) PROVE a[i] \in Range(c)
      BY <1>2 DEF Range
  <2>1. c[i] = a[i] /\ i \in DOMAIN c BY <1>1, <1>2
  <2> QED BY <2>1 DEF Range
<1>5. Range(b) \subseteq Range(c)
  <2> SUFFICES ASSUME NEW i \in 1..Len(b) PROVE b[i] \in Range(c)
      BY <1>2 DEF Range
  <2>1. i + Len(a) \in DOMAIN c /\ ~(i + Len(a) <= Len(a)) /\ i + Len(a) - Len(a) = i
      BY <1>2
  <2>2. c[i + Len(a)] = b[i] BY <2>1, <1>1, <1>2
  <2> QED BY <2>1, <2>2 DEF Range
<1>6. /\ a \o <<>> = a /\ <<>> \o a = a
      /\ a \o b = <<>> <=> a = <<>> /\ b = <<>>
    BY ConcatEmptySeq, ConcatEqualIffEmpty
<1> QED BY <1>1, <1>3, <1>4, <1>5, <1>6

LEMMA JoinedInjective ==
    ASSUME NEW S, NEW a \in Seq(S), NEW b \in Seq(S),
           IsInjective(a), IsInjective(b), Range(a) \intersect Range(b) = {}
    PROVE  IsInjective(a \o b)
<1>1. \A i \in 1..(Len(a) + Len(b)) :
          (a \o b)[i] = IF i <= Len(a) THEN a[i] ELSE b[i - Len(a)]
    BY ConcatProperties
<1>2. Len(a) \in Nat /\ Len(b) \in Nat /\ DOMAIN a = 1..Len(a) /\ DOMAIN b = 1..Len(b)
      /\ DOMAIN (a \o b) = 1..(Len(a) + Len(b))
    BY ConcatProperties, LenProperties
<1> DEFINE c == a \o b
<1>3. SUFFICES ASSUME NEW i \in 1..(Len(a) + Len(b)), NEW j \in 1..(Len(a) + Len(b)),
                      c[i] = c[j]
               PROVE  i = j
    BY <1>2 DEF IsInjective
<1>4. \A k \in DOMAIN a, l \in DOMAIN b : a[k] # b[l]
    BY DEF Range
<1>5. \A k, l \in DOMAIN a : a[k] = a[l] => k = l
    BY DEF IsInjective
<1>6. \A k, l \in DOMAIN b : b[k] = b[l] => k = l
    BY DEF IsInjective
<1>7. \A k \in 1..(Len(a) + Len(b)) :
          \/ k \in DOMAIN a /\ k <= Len(a) /\ c[k] = a[k]
          \/ k - Len(a) \in DOMAIN b /\ k > Len(a) /\ c[k] = b[k - Len(a)]
    BY <1>1, <1>2
<1> HIDE DEF c
<1>8. CASE i <= Len(a) /\ j <= Len(a)
    BY <1>2, <1>3, <1>5, <1>7, <1>8
<1>9. CASE i > Len(a) /\ j > Len(a)
    <2>0. /\ i - Len(a) \in DOMAIN b /\ c[i] = b[i - Len(a)]
          /\ j - Len(a) \in DOMAIN b /\ c[j] = b[j - Len(a)]
        BY <1>2, <1>7, <1>9
    <2>1. i - Len(a) = j - Len(a) BY <1>3, <1>6, <2>0
    <2> QED BY <2>1, <1>2
<1>10. CASE i <= Len(a) /\ j > Len(a) BY <1>2, <1>3, <1>4, <1>7, <1>10
<1>11. CASE i > Len(a) /\ j <= Len(a) BY <1>2, <1>3, <1>4, <1>7, <1>11
<1> QED BY <1>2, <1>8, <1>9, <1>10, <1>11

LEMMA Beheaded ==
    ASSUME NEW S, NEW a \in Seq(S), a # <<>>
    PROVE  /\ Head(a) \in S /\ Tail(a) \in Seq(S)
           /\ a = <<Head(a)>> \o Tail(a)
           /\ Range(a) = {Head(a)} \union Range(Tail(a))
           /\ IsInjective(a) =>
                IsInjective(Tail(a)) /\ Head(a) \notin Range(Tail(a))
<1>1. /\ Head(a) \in S /\ Tail(a) \in Seq(S) /\ Len(Tail(a)) = Len(a) - 1
      /\ \A i \in 1..Len(Tail(a)) : Tail(a)[i] = a[i + 1]
      /\ Head(a) = a[1]
    BY HeadTailProperties
<1>2. Len(a) \in Nat \ {0} /\ DOMAIN a = 1..Len(a) /\ DOMAIN Tail(a) = 1..(Len(a) - 1)
    BY <1>1, EmptySeq, LenProperties
<1> DEFINE h == Head(a)
           t == Tail(a)
<1>3. <<h>> \in Seq(S) /\ Len(<<h>>) = 1 /\ <<h>>[1] = h BY <1>1
<1> DEFINE s == <<h>>
<1> HIDE DEF h, t, s
<1>4. /\ s \o t \in Seq(S) /\ Len(s \o t) = Len(s) + Len(t)
      /\ \A i \in 1..(Len(s) + Len(t)) :
             (s \o t)[i] = IF i <= Len(s) THEN s[i] ELSE t[i - Len(s)]
    <2>1. s \in Seq(S) /\ t \in Seq(S) BY <1>1, <1>3 DEF s, t, h
    <2> QED BY <2>1, ConcatProperties
<1>5. Len(s) = 1 /\ s[1] = a[1] /\ Len(t) = Len(a) - 1
      /\ \A i \in 1..(Len(a) - 1) : t[i] = a[i + 1]
    BY <1>1, <1>2, <1>3 DEF s, h, t
<1>6. Len(s \o t) = Len(a) /\ \A i \in 1..Len(a) : (s \o t)[i] = a[i]
    BY <1>2, <1>4, <1>5
<1>7. s \o t = a BY <1>4, <1>6, SeqEqual
<1>8. Range(a) = {h} \union Range(t)
    <2>1. s \in Seq(S) /\ t \in Seq(S) /\ Range(s) = {h}
        BY <1>1, <1>3, Single DEF s, t, h
    <2>2. Range(s \o t) = Range(s) \union Range(t) BY <2>1, Joined
    <2> QED BY <2>1, <2>2, <1>7
<1>9. ASSUME IsInjective(a) PROVE IsInjective(t) /\ h \notin Range(t)
    <2>1. \A i, j \in 1..Len(a) : a[i] = a[j] => i = j
        BY <1>2, <1>9 DEF IsInjective
    <2>2. DOMAIN t = 1..(Len(a) - 1) BY <1>2 DEF t
    <2>3. IsInjective(t)
        <3> SUFFICES ASSUME NEW i \in 1..(Len(a) - 1), NEW j \in 1..(Len(a) - 1), t[i] = t[j]
                     PROVE  i = j
            BY <2>2 DEF IsInjective
        <3>1. i + 1 = j + 1 BY <1>2, <1>5, <2>1
        <3> QED BY <3>1
    <2>4. h \notin Range(t)
        <3> SUFFICES ASSUME NEW i \in 1..(Len(a) - 1), t[i] = h PROVE FALSE
            BY <2>2 DEF Range
        <3>1. a[i + 1] = a[1] BY <1>1, <1>5 DEF h
        <3>2. i + 1 = 1 BY <1>2, <2>1, <3>1
        <3> QED BY <3>2
    <2> QED BY <2>3, <2>4
<1> QED BY <1>1, <1>7, <1>8, <1>9 DEF s, h, t

LEMMA Appended ==
    ASSUME NEW S, NEW a \in Seq(S), NEW x \in S
    PROVE  Append(a, x) = a \o <<x>>
<1>1. /\ Append(a, x) \in Seq(S) /\ Len(Append(a, x)) = Len(a) + 1
      /\ \A i \in 1..Len(a) : Append(a, x)[i] = a[i]
      /\ Append(a, x)[Len(a) + 1] = x
    BY AppendProperties
<1>2. <<x>> \in Seq(S) /\ Len(<<x>>) = 1 /\ <<x>>[1] = x OBVIOUS
<1> DEFINE s == <<x>>
           d == Append(a, x)
<1> HIDE DEF s, d
<1>3. /\ a \o s \in Seq(S) /\ Len(a \o s) = Len(a) + Len(s)
      /\ \A i \in 1..(Len(a) + Len(s)) :
             (a \o s)[i] = IF i <= Len(a) THEN a[i] ELSE s[i - Len(a)]
    BY <1>2, ConcatProperties DEF s
<1>4. Len(a) \in Nat BY LenProperties
<1>5. Len(d) = Len(a \o s) /\ \A i \in 1..Len(d) : d[i] = (a \o s)[i]
    BY <1>1, <1>2, <1>3, <1>4 DEF s, d
<1>6. d = a \o s BY <1>1, <1>3, <1>5, SeqEqual DEF d
<1> QED BY <1>6 DEF s, d

----------------------------------------------------------------------------
(* The types, with what the proofs need to know of every reachable state.  *)

Chosen == <<traffic, script>> \in Scenarios

Guards == 0..(MaxTasks + Len(script))
ScalarsOK ==
    /\ guard \in Guards
    /\ owner \in TaskIds \union {Nobody} /\ slot \in TaskIds \union {Nobody}
    /\ timer \in BOOLEAN /\ gen \in Nat /\ arrived \in 0..Len(traffic)
ContentsOK ==
    /\ pending \in Seq(Messages) /\ buffer \in Seq(Messages)
    /\ overflow \in Seq(Messages) /\ started \in Seq(Messages)
    /\ timer => buffer # <<>>
Records(M, n) == [at: Stages, input: Seq(M), gd: Nat, gen: 0..n,
                  depth: 0..MaxDepth, agent: Agents \union {NoAgent},
                  interrupt: Seq(M), copy: Seq(M)]
TaskRecords == Records(Messages, gen)
TasksOK == task \in [TaskIds -> TaskRecords]
Signals(M) == [interrupt: Seq(M), copy: Seq(M)]
SignalsOK == /\ signal \in [Agents -> Signals(Messages)]
             /\ cached \in Agents \union {NoAgent}
CommandOK ==
    /\ cmd \in [at: {"idle", "handling", "replying", "waiting"}, id: Guards,
               saved: Guards, target: TaskIds \union {Nobody},
               done: 0..Len(script), failed: BOOLEAN]
    /\ cmd.at # "idle" => cmd.done > 0

\* Tasks are created in the order of their numbers.
Allotted == \E n \in 0..MaxTasks : \A t \in TaskIds : task[t].at # "none" <=> t <= n

\* A task holds its input until the agent runs and again to hand it over; only
\* a run that returned has a text, and an agent exists from the run on.
HeldWhere ==
    \A t \in TaskIds :
        /\ task[t].at \notin {"starting", "setup", "handoff"} => task[t].input = <<>>
        /\ task[t].at # "returned" => task[t].interrupt = <<>>
        /\ task[t].at \in {"none", "starting", "setup"} => task[t].agent = NoAgent
        /\ task[t].at = "running" => task[t].agent \in Agents

\* The recorded owner has not exited, so no lock is ever healed.
OwnerLive == owner # Nobody => Live(owner)

Basics == /\ Chosen /\ ScalarsOK /\ ContentsOK /\ TasksOK /\ CommandOK
          /\ SignalsOK /\ Allotted /\ HeldWhere /\ OwnerLive

LEMMA BasicsTypes == Basics => SessionTypeOK
BY DEF Basics, SessionTypeOK, ScalarsOK, ContentsOK, TasksOK, TaskRecords, Records, Guards,
       SignalsOK, Signals

LEMMA Bounds == MaxTasks \in Nat \ {0} /\ MaxDepth \in Nat /\ MaxMessages \in Nat
BY SessionAssumption

LEMMA TrafficOK ==
    ASSUME Chosen
    PROVE  /\ traffic \in Seq([from: Senders, kind: {"text", "photo", "queue"}])
           /\ script \in Seq({"stop", "new"})
           /\ Len(traffic) \in Nat /\ Len(script) \in Nat
           /\ Messages = 1..Len(traffic)
<1>1. /\ traffic \in Seq([from: Senders, kind: {"text", "photo", "queue"}])
      /\ script \in Seq({"stop", "new"})
    BY SessionAssumption DEF Chosen
<1> QED BY <1>1, LenProperties DEF Messages

\* A new task gets a number that was never used.
LEMMA NextFree ==
    ASSUME Allotted
    PROVE  /\ NextTask \in Nat \ {0}
           /\ NextTask \in TaskIds => task[NextTask].at = "none"
           /\ \A t \in TaskIds : task[t].at # "none" <=> t < NextTask
<1>1. PICK n \in 0..MaxTasks : \A t \in TaskIds : task[t].at # "none" <=> t <= n
    BY DEF Allotted
<1>2. {t \in TaskIds : task[t].at # "none"} = 1..n
    BY <1>1, Bounds DEF TaskIds
<1>3. Cardinality(1..n) = n
    BY FS_Interval, Bounds
<1>4. NextTask = n + 1
  <2>1. NextTask = 1 + n BY <1>2, <1>3 DEF NextTask
  <2> QED BY <2>1, Bounds
<1> QED BY <1>1, <1>4, Bounds DEF TaskIds

LEMMA NewTaskIs ==
    ASSUME NEW e, NEW g
    PROVE  /\ NewTask(e, g).at = "starting" /\ NewTask(e, g).input = e
           /\ NewTask(e, g).gd = g /\ NewTask(e, g).interrupt = <<>>
           /\ NewTask(e, g).agent = NoAgent
BY DEF NewTask, NoTask

LEMMA NoTaskOK ==
    ASSUME NEW e \in Seq(Messages), NEW g \in Nat, gen \in Nat
    PROVE  NewTask(e, g) \in TaskRecords
<1>1. <<>> \in Seq(Messages) /\ 0 \in 0..MaxDepth /\ 0 \in 0..gen
    BY Bounds, EmptySeq
<1>2. NoTask \in TaskRecords BY <1>1 DEF NoTask, TaskRecords, Records, Stages
<1>3. "starting" \in Stages BY DEF Stages
<1> HIDE DEF NoTask
<1> QED BY <1>2, <1>3 DEF NewTask, TaskRecords, Records

LEMMA MergedText ==
    ASSUME NEW S, NEW a \in Seq(S), NEW b \in Seq(S)
    PROVE  Merged(a, b, TRUE) = a \o b
<1>1. CASE a = <<>> BY <1>1, Joined DEF Merged
<1>2. CASE a # <<>> BY <1>2 DEF Merged
<1> QED BY <1>1, <1>2

\* The debounce buffer joins the slot, or stays because the slot is another's.
LEMMA Flushed ==
    ASSUME ContentsOK
    PROVE  /\ FlushedPending = IF CanFlush THEN pending \o buffer ELSE pending
           /\ FlushedPending \in Seq(Messages) /\ FlushedBuffer \in Seq(Messages)
           /\ FlushedPending = <<>> => pending = <<>> /\ buffer = <<>> /\ FlushedBuffer = <<>>
           /\ pending = <<>> /\ buffer = <<>> =>
                FlushedPending = <<>> /\ FlushedBuffer = <<>>
<1>1. FlushedPending = IF CanFlush THEN pending \o buffer ELSE pending
    BY MergedText DEF ContentsOK, FlushedPending
<1>2. <<>> \in Seq(Messages) BY EmptySeq
<1>3. pending \o buffer \in Seq(Messages)
      /\ (pending \o buffer = <<>> <=> pending = <<>> /\ buffer = <<>>)
    BY Joined DEF ContentsOK
<1> QED BY <1>1, <1>2, <1>3 DEF ContentsOK, FlushedBuffer, CanFlush


----------------------------------------------------------------------------
(* What each step does to the tasks.                                       *)

KeptBut(T) == \A u \in TaskIds \ T : task'[u] = task[u]
Becomes(t, at, e, x) ==
    /\ task'[t].at = at /\ task'[t].input = e /\ task'[t].interrupt = x
    /\ task'[t].gd = task[t].gd
    /\ IF at = "running" THEN task'[t].agent \in Agents
                         ELSE task'[t].agent = task[t].agent
\* Task n is new, is given e, and works under guard g.
Born(n, e, g) ==
    /\ n = NextTask /\ n \in TaskIds /\ task[n].at = "none"
    /\ task'[n] = NewTask(e, g)
SameScenario == traffic' = traffic /\ script' = script

\* One task, or two, have changed.
LEMMA OneTask ==
    ASSUME TasksOK, NEW t \in TaskIds, NEW r, r \in TaskRecords',
           TaskRecords \subseteq TaskRecords', task' = [task EXCEPT ![t] = r]
    PROVE  TasksOK' /\ KeptBut({t}) /\ task'[t] = r
<1>1. task \in [TaskIds -> TaskRecords] BY DEF TasksOK
<1>2. task' \in [TaskIds -> TaskRecords'] /\ KeptBut({t}) /\ task'[t] = r
    BY <1>1 DEF KeptBut
<1> QED BY <1>2 DEF TasksOK, TaskIds

LEMMA TwoTasks ==
    ASSUME TasksOK, NEW t \in TaskIds, NEW u \in TaskIds, t # u,
           NEW r, r \in TaskRecords', NEW q, q \in TaskRecords',
           TaskRecords \subseteq TaskRecords', task' = [task EXCEPT ![t] = r, ![u] = q]
    PROVE  TasksOK' /\ KeptBut({t, u}) /\ task'[t] = r /\ task'[u] = q
<1>1. task \in [TaskIds -> TaskRecords] BY DEF TasksOK
<1>2. task' \in [TaskIds -> TaskRecords'] /\ KeptBut({t, u}) /\ task'[t] = r /\ task'[u] = q
    BY <1>1 DEF KeptBut
<1> QED BY <1>2 DEF TasksOK, TaskIds

LEMMA RecordsMade ==
    ASSUME NEW M, NEW n \in Nat, NEW k \in Nat, n <= k, NEW r \in Records(M, n),
           NEW a \in Stages, NEW e \in Seq(M), NEW x \in Seq(M), NEW y \in Seq(M),
           NEW g \in 0..k, NEW d \in 0..MaxDepth, NEW b \in Agents
    PROVE  /\ [r EXCEPT !.at = a] \in Records(M, k)
           /\ [r EXCEPT !.at = a, !.gen = g] \in Records(M, k)
           /\ [r EXCEPT !.at = a, !.input = e] \in Records(M, k)
           /\ [r EXCEPT !.at = a, !.input = e, !.agent = b] \in Records(M, k)
           /\ [r EXCEPT !.at = a, !.depth = d, !.agent = b, !.interrupt = x, !.copy = y]
                \in Records(M, k)
           /\ [r EXCEPT !.at = a, !.interrupt = x, !.copy = y] \in Records(M, k)
           /\ [r EXCEPT !.at = a, !.input = e, !.interrupt = x, !.copy = y] \in Records(M, k)
<1>1. 0..n \subseteq 0..k OBVIOUS
<1>2. r \in Records(M, k) BY <1>1 DEF Records
<1> QED BY <1>2 DEF Records

LEMMA TaskFields ==
    ASSUME TasksOK, NEW t \in TaskIds
    PROVE  /\ task[t] \in TaskRecords
           /\ task[t].at \in Stages /\ task[t].gd \in Nat
           /\ task[t].input \in Seq(Messages) /\ task[t].interrupt \in Seq(Messages)
           /\ task[t].gen \in 0..gen /\ task[t].depth \in 0..MaxDepth
           /\ task[t].agent \in Agents \union {NoAgent}
           /\ task[t].copy \in Seq(Messages)
BY DEF TasksOK, TaskRecords, Records

LEMMA RecordsKept ==
    ASSUME SameScenario, gen \in Nat, gen' \in Nat, gen <= gen'
    PROVE  TaskRecords \subseteq TaskRecords' /\ Messages' = Messages
<1>1. Messages' = Messages BY DEF SameScenario, Messages
<1>2. 0..gen \subseteq 0..gen' OBVIOUS
<1> QED BY <1>1, <1>2 DEF TaskRecords, Records

LEMMA TasksUntouched ==
    ASSUME Basics, SameScenario, gen' \in Nat, gen <= gen', UNCHANGED task
    PROVE  TasksOK'
BY RecordsKept DEF Basics, ScalarsOK, TasksOK, TaskIds

\* The record made of task t's is one of a task.
LEMMA MadeOf ==
    ASSUME Basics, SameScenario, gen' \in Nat, gen <= gen', NEW t \in TaskIds
    PROVE  /\ TaskRecords \subseteq TaskRecords' /\ Messages' = Messages
           /\ \A a \in Stages : [task[t] EXCEPT !.at = a] \in TaskRecords'
           /\ \A a \in Stages, g \in 0..gen' :
                [task[t] EXCEPT !.at = a, !.gen = g] \in TaskRecords'
           /\ \A a \in Stages, e \in Seq(Messages) :
                [task[t] EXCEPT !.at = a, !.input = e] \in TaskRecords'
           /\ \A a \in Stages, e \in Seq(Messages), b \in Agents :
                [task[t] EXCEPT !.at = a, !.input = e, !.agent = b] \in TaskRecords'
           /\ \A a \in Stages, d \in 0..MaxDepth, b \in Agents, x, y \in Seq(Messages) :
                [task[t] EXCEPT !.at = a, !.depth = d, !.agent = b, !.interrupt = x, !.copy = y]
                  \in TaskRecords'
           /\ \A a \in Stages, x, y \in Seq(Messages) :
                [task[t] EXCEPT !.at = a, !.interrupt = x, !.copy = y] \in TaskRecords'
           /\ \A a \in Stages, e, x, y \in Seq(Messages) :
                [task[t] EXCEPT !.at = a, !.input = e, !.interrupt = x, !.copy = y]
                  \in TaskRecords'
<1>1. TaskRecords \subseteq TaskRecords' /\ Messages' = Messages /\ gen \in Nat
      /\ task[t] \in TaskRecords
    BY RecordsKept, TaskFields DEF Basics, ScalarsOK
<1>2. TaskRecords' = Records(Messages, gen') /\ task[t] \in Records(Messages, gen)
    BY <1>1 DEF TaskRecords
<1>3. ASSUME NEW a \in Stages, NEW e \in Seq(Messages), NEW x \in Seq(Messages),
             NEW y \in Seq(Messages), NEW g \in 0..gen', NEW d \in 0..MaxDepth, NEW b \in Agents
      PROVE  /\ [task[t] EXCEPT !.at = a] \in TaskRecords'
             /\ [task[t] EXCEPT !.at = a, !.gen = g] \in TaskRecords'
             /\ [task[t] EXCEPT !.at = a, !.input = e] \in TaskRecords'
             /\ [task[t] EXCEPT !.at = a, !.input = e, !.agent = b] \in TaskRecords'
             /\ [task[t] EXCEPT !.at = a, !.depth = d, !.agent = b, !.interrupt = x, !.copy = y]
                  \in TaskRecords'
             /\ [task[t] EXCEPT !.at = a, !.interrupt = x, !.copy = y] \in TaskRecords'
             /\ [task[t] EXCEPT !.at = a, !.input = e, !.interrupt = x, !.copy = y] \in TaskRecords'
    BY <1>1, <1>2, RecordsMade
<1>4. "done" \in Stages /\ <<>> \in Seq(Messages) /\ 0 \in 0..gen' /\ 0 \in 0..MaxDepth
      /\ <<1, 0>> \in Agents
    BY EmptySeq, Bounds DEF Stages, Agents, TaskIds
<1> QED BY <1>1, <1>3, <1>4

\* The agent a run starts with is one of the agents.
LEMMA AgentIs ==
    ASSUME Basics, NEW t \in TaskIds, NEW d \in 0..MaxDepth, NEW a \in AgentOf(t, d)
    PROVE  a \in Agents
BY DEF Basics, SignalsOK, AgentOf, Agents

LEMMA NotAgent == NoAgent \notin Agents
BY Bounds DEF NoAgent, Agents, TaskIds

LEMMA ClaimTasks ==
    ASSUME Basics, NEW t \in TaskIds, Claim(t)
    PROVE  /\ TasksOK' /\ KeptBut({t})
           /\ Becomes(t, "setup", task[t].input, task[t].interrupt)
<1>1. SameScenario /\ gen' = gen + 1 /\ gen \in Nat
    BY DEF Claim, SameScenario, Basics, ScalarsOK
<1> DEFINE r == [task[t] EXCEPT !.at = "setup", !.gen = gen']
<1>2. "setup" \in Stages /\ gen' \in Nat /\ gen' \in 0..gen' /\ gen <= gen'
    BY <1>1 DEF Stages
<1>3. r \in TaskRecords' /\ TaskRecords \subseteq TaskRecords'
    BY <1>1, <1>2, MadeOf
<1>4. task' = [task EXCEPT ![t] = r] BY <1>1 DEF Claim
<1>5. r.at = "setup" /\ r.input = task[t].input /\ r.interrupt = task[t].interrupt
      /\ r.gd = task[t].gd /\ r.agent = task[t].agent
    BY TaskFields DEF Basics, TaskRecords, Records
<1> HIDE DEF r
<1>6. TasksOK' /\ KeptBut({t}) /\ task'[t] = r BY <1>3, <1>4, OneTask DEF Basics
<1> QED BY <1>5, <1>6 DEF Becomes


LEMMA BusyTasks ==
    ASSUME Basics, NEW t \in TaskIds, Busy(t)
    PROVE  /\ TasksOK' /\ KeptBut({t}) /\ slot \in TaskIds
           /\ Becomes(t, "delivering", <<>>, task[t].interrupt)
<1>1. SameScenario /\ gen' \in Nat /\ gen <= gen' /\ slot \in TaskIds /\ TasksOK
    BY DEF Busy, SameScenario, Basics, ScalarsOK
<1> DEFINE r == [task[t] EXCEPT !.at = "delivering", !.input = <<>>]
<1>2. "delivering" \in Stages /\ <<>> \in Seq(Messages) BY EmptySeq DEF Stages
<1>3. r \in TaskRecords' /\ TaskRecords \subseteq TaskRecords'
    BY <1>1, <1>2, MadeOf
<1>4. task' = [task EXCEPT ![t] = r] BY DEF Busy
<1>5. r.at = "delivering" /\ r.input = <<>> /\ r.interrupt = task[t].interrupt
      /\ r.gd = task[t].gd /\ r.agent = task[t].agent
    BY <1>1, TaskFields DEF TaskRecords, Records
<1> HIDE DEF r
<1>6. TasksOK' /\ KeptBut({t}) /\ task'[t] = r BY <1>1, <1>3, <1>4, OneTask
<1> QED BY <1>1, <1>5, <1>6 DEF Becomes

LEMMA RunStartsTasks ==
    ASSUME Basics, NEW t \in TaskIds, RunStarts(t)
    PROVE  /\ TasksOK' /\ KeptBut({t}) /\ cached' \in Agents
           /\ Becomes(t, "running", <<>>, task[t].interrupt)
<1>1. SameScenario /\ gen' \in Nat /\ gen <= gen' /\ TasksOK
    BY DEF RunStarts, SameScenario, Basics, ScalarsOK
<1>2. PICK a \in AgentOf(t, task[t].depth) :
         cached' = a /\ task' = [task EXCEPT ![t].at = "running", ![t].input = <<>>, ![t].agent = a]
    BY DEF RunStarts
<1> DEFINE r == [task[t] EXCEPT !.at = "running", !.input = <<>>, !.agent = a]
<1>3. "running" \in Stages /\ <<>> \in Seq(Messages) /\ a \in Agents
    BY <1>1, EmptySeq, AgentIs, TaskFields DEF Stages
<1>4. r \in TaskRecords' /\ TaskRecords \subseteq TaskRecords'
    BY <1>1, <1>3, MadeOf
<1>5. task' = [task EXCEPT ![t] = r] BY <1>2
<1>6. r.at = "running" /\ r.input = <<>> /\ r.interrupt = task[t].interrupt
      /\ r.gd = task[t].gd /\ r.agent = a
    BY <1>1, TaskFields DEF TaskRecords, Records
<1> HIDE DEF r
<1>7. TasksOK' /\ KeptBut({t}) /\ task'[t] = r BY <1>1, <1>4, <1>5, OneTask
<1> QED BY <1>2, <1>3, <1>6, <1>7 DEF Becomes

\* The texts of the agents, when one of them is interrupted or forgets.
LEMMA SignalSet ==
    ASSUME Basics, SameScenario, NEW a \in Agents, NEW x \in Signals(Messages),
           signal' = [signal EXCEPT ![a] = x], cached' \in Agents \union {NoAgent}
    PROVE  SignalsOK' /\ signal'[a] = x /\ \A b \in Agents \ {a} : signal'[b] = signal[b]
<1>1. signal \in [Agents -> Signals(Messages)] BY DEF Basics, SignalsOK
<1>2. Messages' = Messages BY DEF SameScenario, Messages
<1>3. signal' \in [Agents -> Signals(Messages)] /\ signal'[a] = x
      /\ \A b \in Agents \ {a} : signal'[b] = signal[b]
    BY <1>1
<1> QED BY <1>2, <1>3 DEF SignalsOK, Agents, TaskIds, Signals

LEMMA SignalsKept ==
    ASSUME Basics, SameScenario, UNCHANGED signal, cached' \in Agents \union {NoAgent}
    PROVE  SignalsOK'
<1>1. Messages' = Messages BY DEF SameScenario, Messages
<1> QED BY <1>1 DEF Basics, SignalsOK, Agents, TaskIds, Signals

LEMMA SignalFields ==
    ASSUME Basics, NEW a \in Agents
    PROVE  /\ signal[a].interrupt \in Seq(Messages) /\ signal[a].copy \in Seq(Messages)
           /\ Silent \in Signals(Messages) /\ Silent.interrupt = <<>> /\ Silent.copy = <<>>
BY EmptySeq DEF Basics, SignalsOK, Signals, Silent

\* The thread returns with the text its agent was interrupted with, or without.
LEMMA LoopEndsTasks ==
    ASSUME Basics, NEW t \in TaskIds, LoopEnds(t)
    PROVE  /\ TasksOK' /\ KeptBut({t}) /\ SignalsOK'
           /\ task[t].agent \in Agents /\ task[t].interrupt = <<>>
           /\ signal'[task[t].agent].interrupt = <<>>
           /\ \A b \in Agents \ {task[t].agent} : signal'[b] = signal[b]
           /\ \/ /\ Becomes(t, "returned", task[t].input, signal[task[t].agent].interrupt)
                 /\ UNCHANGED dropped
              \/ /\ Becomes(t, "returned", task[t].input, <<>>)
                 /\ Drop("unnoticed", Range(signal[task[t].agent].interrupt))
<1>1. SameScenario /\ gen' \in Nat /\ gen <= gen' /\ TasksOK
    BY DEF LoopEnds, SameScenario, Basics, ScalarsOK
<1> DEFINE a == task[t].agent
           r(x, y) == [task[t] EXCEPT !.at = "returned", !.interrupt = x, !.copy = y]
<1>2. a \in Agents /\ task[t].interrupt = <<>> BY DEF LoopEnds, Basics, HeldWhere
<1>3. /\ signal[a].interrupt \in Seq(Messages) /\ signal[a].copy \in Seq(Messages)
      /\ Silent \in Signals(Messages) /\ Silent.interrupt = <<>>
    BY <1>2, SignalFields
<1>4. SignalsOK' /\ signal'[a] = Silent /\ \A b \in Agents \ {a} : signal'[b] = signal[b]
  <2>1. signal' = [signal EXCEPT ![a] = Silent] /\ cached' \in Agents \union {NoAgent}
      BY DEF LoopEnds, Basics, SignalsOK
  <2> QED BY <1>1, <1>2, <1>3, <2>1, SignalSet
<1>5. "returned" \in Stages BY DEF Stages
<1>6. CASE /\ task' = [task EXCEPT ![t].at = "returned", ![t].interrupt = signal[a].interrupt,
                                   ![t].copy = signal[a].copy]
           /\ UNCHANGED dropped
  <2> DEFINE q == r(signal[a].interrupt, signal[a].copy)
  <2>1. task' = [task EXCEPT ![t] = q] BY <1>6
  <2>2. q \in TaskRecords' /\ TaskRecords \subseteq TaskRecords'
      BY <1>1, <1>3, <1>5, MadeOf
  <2>3. q.at = "returned" /\ q.input = task[t].input /\ q.interrupt = signal[a].interrupt
        /\ q.gd = task[t].gd /\ q.agent = task[t].agent
      BY <1>1, TaskFields DEF TaskRecords, Records
  <2> HIDE DEF q
  <2>4. TasksOK' /\ KeptBut({t}) /\ task'[t] = q BY <1>1, <2>1, <2>2, OneTask
  <2>5. Becomes(t, "returned", task[t].input, signal[a].interrupt) BY <2>3, <2>4 DEF Becomes
  <2> QED BY <1>2, <1>3, <1>4, <1>6, <2>4, <2>5
<1>7. CASE /\ task' = [task EXCEPT ![t].at = "returned"]
           /\ Drop("unnoticed", Range(signal[a].interrupt))
  <2> DEFINE q == [task[t] EXCEPT !.at = "returned"]
  <2>1. task' = [task EXCEPT ![t] = q] BY <1>7
  <2>2. q \in TaskRecords' /\ TaskRecords \subseteq TaskRecords'
      BY <1>1, <1>5, MadeOf
  <2>3. q.at = "returned" /\ q.input = task[t].input /\ q.interrupt = task[t].interrupt
        /\ q.gd = task[t].gd /\ q.agent = task[t].agent
      BY <1>1, TaskFields DEF TaskRecords, Records
  <2> HIDE DEF q
  <2>4. TasksOK' /\ KeptBut({t}) /\ task'[t] = q BY <1>1, <2>1, <2>2, OneTask
  <2>5. Becomes(t, "returned", task[t].input, <<>>) BY <1>2, <2>3, <2>4 DEF Becomes
  <2> QED BY <1>2, <1>3, <1>4, <1>7, <2>4, <2>5
<1> QED BY <1>6, <1>7 DEF LoopEnds

LEMMA RunTimesOutTasks ==
    ASSUME Basics, NEW t \in TaskIds, RunTimesOut(t)
    PROVE  /\ TasksOK' /\ KeptBut({t}) /\ SignalsOK'
           /\ Becomes(t, "delivering", task[t].input, task[t].interrupt)
           /\ task[t].agent \in Agents /\ signal'[task[t].agent].interrupt = <<>>
           /\ \A b \in Agents \ {task[t].agent} : signal'[b] = signal[b]
<1>1. SameScenario /\ gen' \in Nat /\ gen <= gen' /\ TasksOK
    BY DEF RunTimesOut, SameScenario, Basics, ScalarsOK
<1> DEFINE a == task[t].agent
           r == [task[t] EXCEPT !.at = "delivering"]
<1>2. a \in Agents BY DEF RunTimesOut, Basics, HeldWhere
<1>3. Silent \in Signals(Messages) /\ Silent.interrupt = <<>> BY <1>2, SignalFields
<1>4. SignalsOK' /\ signal'[a] = Silent /\ \A b \in Agents \ {a} : signal'[b] = signal[b]
  <2>1. signal' = [signal EXCEPT ![a] = Silent] /\ cached' \in Agents \union {NoAgent}
      BY DEF RunTimesOut, Basics, SignalsOK
  <2> QED BY <1>1, <1>2, <1>3, <2>1, SignalSet
<1>5. "delivering" \in Stages BY DEF Stages
<1>6. r \in TaskRecords' /\ TaskRecords \subseteq TaskRecords' BY <1>1, <1>5, MadeOf
<1>7. task' = [task EXCEPT ![t] = r] BY DEF RunTimesOut
<1>8. r.at = "delivering" /\ r.input = task[t].input /\ r.interrupt = task[t].interrupt
      /\ r.gd = task[t].gd /\ r.agent = task[t].agent
    BY <1>1, TaskFields DEF TaskRecords, Records
<1> HIDE DEF r
<1>9. TasksOK' /\ KeptBut({t}) /\ task'[t] = r BY <1>1, <1>6, <1>7, OneTask
<1> QED BY <1>2, <1>3, <1>4, <1>8, <1>9 DEF Becomes

LEMMA FollowUpTasks ==
    ASSUME Basics, NEW t \in TaskIds, FollowUp(t)
    PROVE  /\ TasksOK' /\ KeptBut({t}) /\ cached' \in Agents
           /\ Becomes(t, "running", task[t].input, <<>>)
<1>1. SameScenario /\ gen' \in Nat /\ gen <= gen' /\ TasksOK
    BY DEF FollowUp, SameScenario, Basics, ScalarsOK
<1> DEFINE d == task[t].depth + 1
<1>2. d \in 0..MaxDepth /\ <<>> \in Seq(Messages) /\ "running" \in Stages
    BY <1>1, EmptySeq, TaskFields, Bounds DEF FollowUp, Stages
<1>3. PICK a \in AgentOf(t, d) :
         /\ cached' = a
         /\ task' = [task EXCEPT ![t].at = "running", ![t].depth = d,
                        ![t].agent = a, ![t].interrupt = <<>>, ![t].copy = <<>>]
    BY DEF FollowUp
<1> DEFINE r == [task[t] EXCEPT !.at = "running", !.depth = d, !.agent = a,
                                !.interrupt = <<>>, !.copy = <<>>]
<1>4. task' = [task EXCEPT ![t] = r] BY <1>3
<1> HIDE DEF d
<1>5. a \in Agents BY <1>2, AgentIs
<1>6. r \in TaskRecords' /\ TaskRecords \subseteq TaskRecords'
    BY <1>1, <1>2, <1>5, MadeOf
<1>7. r.at = "running" /\ r.input = task[t].input /\ r.interrupt = <<>>
      /\ r.gd = task[t].gd /\ r.agent = a
    BY <1>1, TaskFields DEF TaskRecords, Records
<1> HIDE DEF r
<1>8. TasksOK' /\ KeptBut({t}) /\ task'[t] = r BY <1>1, <1>4, <1>6, OneTask
<1> QED BY <1>3, <1>5, <1>7, <1>8 DEF Becomes

LEMMA RunEndsTasks ==
    ASSUME Basics, NEW t \in TaskIds, RunEnds(t)
    PROVE  /\ TasksOK' /\ KeptBut({t})
           /\ Becomes(t, "delivering", task[t].input, <<>>)
<1>1. SameScenario /\ gen' \in Nat /\ gen <= gen' /\ TasksOK
  <2>1. SameScenario /\ gen' = gen BY DEF RunEnds, SameScenario
  <2> QED BY <2>1 DEF Basics, ScalarsOK
<1> DEFINE r == [task[t] EXCEPT !.at = "delivering", !.interrupt = <<>>, !.copy = <<>>]
<1>2. "delivering" \in Stages /\ <<>> \in Seq(Messages) BY EmptySeq DEF Stages
<1>3. r \in TaskRecords' /\ TaskRecords \subseteq TaskRecords'
    BY <1>1, <1>2, MadeOf
<1>4. task' = [task EXCEPT ![t] = r] BY DEF RunEnds
<1>5. r.at = "delivering" /\ r.input = task[t].input /\ r.interrupt = <<>>
      /\ r.gd = task[t].gd /\ r.agent = task[t].agent
    BY <1>1, TaskFields DEF TaskRecords, Records
<1> HIDE DEF r
<1>6. TasksOK' /\ KeptBut({t}) /\ task'[t] = r BY <1>1, <1>3, <1>4, OneTask
<1> QED BY <1>5, <1>6 DEF Becomes

LEMMA RunFailsTasks ==
    ASSUME Basics, NEW t \in TaskIds, RunFails(t)
    PROVE  /\ TasksOK' /\ KeptBut({t}) /\ Becomes(t, "cleanup", <<>>, <<>>)
<1>1. SameScenario /\ gen' \in Nat /\ gen <= gen' /\ TasksOK
    BY DEF RunFails, SameScenario, Basics, ScalarsOK
<1> DEFINE r == [task[t] EXCEPT !.at = "cleanup", !.input = <<>>, !.interrupt = <<>>,
                                !.copy = <<>>]
<1>2. "cleanup" \in Stages /\ <<>> \in Seq(Messages) BY EmptySeq DEF Stages
<1>3. r \in TaskRecords' /\ TaskRecords \subseteq TaskRecords'
    BY <1>1, <1>2, MadeOf
<1>4. task' = [task EXCEPT ![t] = r] BY DEF RunFails
<1>5. r.at = "cleanup" /\ r.input = <<>> /\ r.interrupt = <<>>
      /\ r.gd = task[t].gd /\ r.agent = task[t].agent
    BY <1>1, TaskFields DEF TaskRecords, Records
<1> HIDE DEF r
<1>6. TasksOK' /\ KeptBut({t}) /\ task'[t] = r BY <1>1, <1>3, <1>4, OneTask
<1> QED BY <1>5, <1>6 DEF Becomes


LEMMA DeliverTasks ==
    ASSUME Basics, NEW t \in TaskIds, Deliver(t)
    PROVE  /\ TasksOK' /\ KeptBut({t})
           /\ Becomes(t, IF FlushedPending = <<>> THEN "cleanup" ELSE "handoff",
                      FlushedPending, task[t].interrupt)
<1>1. SameScenario /\ gen' \in Nat /\ gen <= gen' /\ TasksOK
    BY DEF Deliver, SameScenario, Basics, ScalarsOK
<1> DEFINE a == IF FlushedPending = <<>> THEN "cleanup" ELSE "handoff"
           r == [task[t] EXCEPT !.at = a, !.input = FlushedPending]
<1>2. a \in Stages /\ FlushedPending \in Seq(Messages) /\ a # "running"
    BY Flushed DEF Basics, Stages
<1>3. task' = [task EXCEPT ![t] = r] BY DEF Deliver
<1> HIDE DEF a
<1>4. r \in TaskRecords' /\ TaskRecords \subseteq TaskRecords'
    BY <1>1, <1>2, MadeOf
<1>5. r.at = a /\ r.input = FlushedPending /\ r.interrupt = task[t].interrupt
      /\ r.gd = task[t].gd /\ r.agent = task[t].agent
    BY <1>1, TaskFields DEF TaskRecords, Records
<1> HIDE DEF r
<1>6. TasksOK' /\ KeptBut({t}) /\ task'[t] = r BY <1>1, <1>3, <1>4, OneTask
<1>7. Becomes(t, a, FlushedPending, task[t].interrupt)
    BY <1>2, <1>5, <1>6 DEF Becomes
<1> QED BY <1>6, <1>7 DEF a

LEMMA UnwindTasks ==
    ASSUME Basics, NEW t \in TaskIds, Unwind(t)
    PROVE  /\ TasksOK' /\ KeptBut({t})
           /\ Becomes(t, "cleanup", task[t].input, task[t].interrupt)
<1>1. SameScenario /\ gen' \in Nat /\ gen <= gen' /\ TasksOK
    BY DEF Unwind, SameScenario, Basics, ScalarsOK
<1> DEFINE r == [task[t] EXCEPT !.at = "cleanup"]
<1>2. "cleanup" \in Stages BY DEF Stages
<1>3. r \in TaskRecords' /\ TaskRecords \subseteq TaskRecords'
    BY <1>1, <1>2, MadeOf
<1>4. task' = [task EXCEPT ![t] = r] BY DEF Unwind
<1>5. r.at = "cleanup" /\ r.input = task[t].input /\ r.interrupt = task[t].interrupt
      /\ r.gd = task[t].gd /\ r.agent = task[t].agent
    BY <1>1, TaskFields DEF TaskRecords, Records
<1> HIDE DEF r
<1>6. TasksOK' /\ KeptBut({t}) /\ task'[t] = r BY <1>1, <1>3, <1>4, OneTask
<1> QED BY <1>5, <1>6 DEF Becomes

\* A task that takes over is new, and free to be.
LEMMA Takeover ==
    ASSUME Basics, SameScenario, gen' = gen, NEW e \in Seq(Messages), NEW g \in Nat,
           NextTask \in TaskIds, task' = [task EXCEPT ![NextTask] = NewTask(e, g)]
    PROVE  TasksOK' /\ KeptBut({NextTask}) /\ Born(NextTask, e, g)
<1>1. TasksOK /\ task[NextTask].at = "none" BY NextFree DEF Basics
<1>2. NewTask(e, g) \in TaskRecords' /\ TaskRecords \subseteq TaskRecords'
  <2>1. gen \in Nat /\ gen' \in Nat /\ gen <= gen' BY DEF Basics, ScalarsOK
  <2> QED BY <2>1, NoTaskOK, RecordsKept
<1>3. TasksOK' /\ KeptBut({NextTask}) /\ task'[NextTask] = NewTask(e, g)
    BY <1>1, <1>2, OneTask
<1> QED BY <1>1, <1>3 DEF Born

LEMMA GuardAdopted ==
    ASSUME Basics
    PROVE  AdoptedGuard \in Nat /\ (NextTask \in TaskIds => AdoptedGuard \in Guards)
           /\ AdoptedGuard # 0 /\ NextTask \in Nat
<1>1. NextTask \in Nat \ {0} /\ guard \in Guards BY NextFree DEF Basics, ScalarsOK
<1> QED BY <1>1, TrafficOK, Bounds DEF AdoptedGuard, Guards, TaskIds, Basics

LEMMA HandOffTasks ==
    ASSUME Basics, NEW t \in TaskIds, HandOff(t)
    PROVE  /\ TasksOK' /\ KeptBut({t, NextTask}) /\ t # NextTask
           /\ Becomes(t, "cleanup", <<>>, task[t].interrupt)
           /\ Born(NextTask, task[t].input, AdoptedGuard)
<1>1. SameScenario /\ gen' = gen /\ gen' \in Nat /\ gen <= gen' /\ TasksOK
    BY DEF HandOff, SameScenario, Basics, ScalarsOK
<1>2. NextTask \in TaskIds /\ task[NextTask].at = "none" /\ t # NextTask
    BY NextFree DEF HandOff, Basics
<1> DEFINE r == [task[t] EXCEPT !.at = "cleanup", !.input = <<>>]
           q == NewTask(task[t].input, AdoptedGuard)
<1>3. "cleanup" \in Stages /\ <<>> \in Seq(Messages) BY EmptySeq DEF Stages
<1>4. r \in TaskRecords' /\ TaskRecords \subseteq TaskRecords'
    BY <1>1, <1>3, MadeOf
<1>5. q \in TaskRecords' BY <1>1, <1>4, NoTaskOK, GuardAdopted, TaskFields DEF Basics
<1>6. task' = [task EXCEPT ![t] = r, ![NextTask] = q] BY DEF HandOff
<1>7. r.at = "cleanup" /\ r.input = <<>> /\ r.interrupt = task[t].interrupt
      /\ r.gd = task[t].gd /\ r.agent = task[t].agent
    BY <1>1, TaskFields DEF TaskRecords, Records
<1>8. Born(NextTask, task[t].input, AdoptedGuard) <=> task'[NextTask] = q
    BY <1>2 DEF Born
<1> HIDE DEF r, q
<1>9. TasksOK' /\ KeptBut({t, NextTask}) /\ task'[t] = r /\ task'[NextTask] = q
    BY <1>1, <1>2, <1>4, <1>5, <1>6, TwoTasks
<1> QED BY <1>2, <1>7, <1>8, <1>9 DEF Becomes

\* A task that is gone leaves the follow-up to a new one, or nothing.
CleanupTasks(t) ==
    \/ /\ KeptBut({t, NextTask}) /\ t # NextTask
       /\ FlushedPending # <<>> /\ owner \in {Nobody, t}
       /\ Born(NextTask, FlushedPending, AdoptedGuard)
       /\ pending' = <<>> /\ owner' = NextTask /\ guard' = AdoptedGuard
    \/ /\ KeptBut({t})
       /\ FlushedPending # <<>> /\ owner \notin {Nobody, t}
       /\ pending' = FlushedPending /\ UNCHANGED <<guard, owner>>
    \/ /\ KeptBut({t})
       /\ FlushedPending = <<>> /\ pending' = <<>>
       /\ owner' = IF owner = t THEN Nobody ELSE owner
       /\ guard' = IF owner = t /\ guard = task[t].gd THEN 0 ELSE guard

LEMMA CleanupEffect ==
    ASSUME Basics, NEW t \in TaskIds, Cleanup(t)
    PROVE  /\ TasksOK' /\ CleanupTasks(t)
           /\ Becomes(t, "done", task[t].input, task[t].interrupt)
<1>1. SameScenario /\ gen' = gen /\ gen' \in Nat /\ gen <= gen' /\ TasksOK
    BY DEF Cleanup, SameScenario, Basics, ScalarsOK
<1> DEFINE r == [task[t] EXCEPT !.at = "done"]
           q == NewTask(FlushedPending, AdoptedGuard)
<1>2. "done" \in Stages BY DEF Stages
<1>3. r \in TaskRecords' /\ TaskRecords \subseteq TaskRecords'
    BY <1>1, <1>2, MadeOf
<1>4. r.at = "done" /\ r.input = task[t].input /\ r.interrupt = task[t].interrupt
      /\ r.gd = task[t].gd /\ r.agent = task[t].agent
    BY <1>1, TaskFields DEF TaskRecords, Records
<1>5. CASE FlushedPending # <<>> /\ owner \in {Nobody, t}
  <2>1. /\ NextTask \in TaskIds /\ pending' = <<>> /\ owner' = NextTask
        /\ guard' = AdoptedGuard /\ task' = [task EXCEPT ![t] = r, ![NextTask] = q]
      BY <1>5 DEF Cleanup
  <2>2. task[NextTask].at = "none" /\ t # NextTask BY <2>1, NextFree DEF Basics, Cleanup
  <2>3. q \in TaskRecords'
      BY <1>1, <1>3, NoTaskOK, GuardAdopted, Flushed DEF Basics
  <2>4. Born(NextTask, FlushedPending, AdoptedGuard) <=> task'[NextTask] = q
      BY <2>1, <2>2 DEF Born
  <2> HIDE DEF r, q
  <2>5. TasksOK' /\ KeptBut({t, NextTask}) /\ task'[t] = r /\ task'[NextTask] = q
      BY <1>1, <1>3, <2>1, <2>2, <2>3, TwoTasks
  <2> QED BY <1>4, <1>5, <2>1, <2>2, <2>4, <2>5 DEF Becomes, CleanupTasks
<1>6. CASE ~(FlushedPending # <<>> /\ owner \in {Nobody, t})
  <2>1. task' = [task EXCEPT ![t] = r] BY <1>6 DEF Cleanup
  <2>2. \/ /\ FlushedPending # <<>> /\ owner \notin {Nobody, t}
           /\ pending' = FlushedPending /\ UNCHANGED <<guard, owner>>
        \/ /\ FlushedPending = <<>> /\ pending' = <<>>
           /\ owner' = IF owner = t THEN Nobody ELSE owner
           /\ guard' = IF owner = t /\ guard = task[t].gd THEN 0 ELSE guard
      BY <1>6 DEF Cleanup
  <2> HIDE DEF r
  <2>3. TasksOK' /\ KeptBut({t}) /\ task'[t] = r BY <1>1, <1>3, <2>1, OneTask
  <2> QED BY <1>4, <2>2, <2>3 DEF Becomes, CleanupTasks
<1> QED BY <1>5, <1>6

\* The cancelled owner unwinds, cleans up, ends, or swallows the cancellation.
LEMMA CancelledToIs ==
    ASSUME NEW at \in Stages, NEW next \in CancelledTo(at)
    PROVE  /\ next \in Stages /\ next \notin {"starting", "setup", "running", "returned"}
           /\ next = "handoff" <=> at = "handoff"
           /\ next = "none" <=> at = "none"
           /\ next \in {"handoff", "none", "done"} \union {"unwinding", "cleanup"}
<1>1. CASE at \in {"setup", "running", "returned"} BY <1>1 DEF CancelledTo, Stages
<1>2. CASE at \in {"starting", "delivering"} BY <1>2 DEF CancelledTo, Stages
<1>3. CASE at = "cleanup" BY <1>3 DEF CancelledTo, Stages
<1>4. CASE at \in {"none", "handoff", "unwinding", "done"} BY <1>4 DEF CancelledTo, Stages
<1> QED BY <1>1, <1>2, <1>3, <1>4 DEF Stages

LEMMA CommandCancelsTasks ==
    ASSUME Basics, CommandCancels
    PROVE  /\ TasksOK'
           /\ \/ owner = Nobody /\ UNCHANGED <<task, dropped>>
              \/ /\ owner \in TaskIds /\ Live(owner) /\ KeptBut({owner})
                 /\ \E next \in CancelledTo(task[owner].at) :
                       Becomes(owner, next,
                               IF task[owner].at = "handoff" THEN task[owner].input ELSE <<>>,
                               <<>>)
                 /\ Drop("command",
                         IF task[owner].at \in {"handoff", "cleanup"} THEN {}
                         ELSE Range(task[owner].input \o task[owner].interrupt))
<1>1. SameScenario /\ gen' \in Nat /\ gen <= gen' /\ TasksOK
  <2>1. SameScenario /\ gen' = gen BY DEF CommandCancels, SameScenario
  <2> QED BY <2>1 DEF Basics, ScalarsOK
<1>2. CASE owner = Nobody
    BY <1>1, <1>2, TasksUntouched DEF CommandCancels
<1>3. CASE owner # Nobody
  <2>1. owner \in TaskIds /\ Live(owner)
      BY <1>3 DEF Basics, ScalarsOK, OwnerLive
  <2> DEFINE e == IF task[owner].at = "handoff" THEN task[owner].input ELSE <<>>
  <2>2. PICK a \in CancelledTo(task[owner].at) :
           task' = [task EXCEPT ![owner].at = a, ![owner].input = e,
                                ![owner].interrupt = <<>>, ![owner].copy = <<>>]
      BY <1>3, <2>1 DEF CommandCancels
  <2> DEFINE r == [task[owner] EXCEPT !.at = a, !.input = e, !.interrupt = <<>>, !.copy = <<>>]
  <2>3. /\ a \in Stages /\ a # "running" /\ e \in Seq(Messages) /\ <<>> \in Seq(Messages)
        /\ task[owner].at \in Stages
      BY <1>1, <2>1, TaskFields, EmptySeq, CancelledToIs
  <2>4. task' = [task EXCEPT ![owner] = r] BY <2>2
  <2>5. Drop("command", IF task[owner].at \in {"handoff", "cleanup"} THEN {}
                        ELSE Range(task[owner].input \o task[owner].interrupt))
      BY <1>3, <2>1, RangeEmpty DEF CommandCancels
  <2> HIDE DEF e
  <2>6. r \in TaskRecords' /\ TaskRecords \subseteq TaskRecords'
      BY <1>1, <2>1, <2>3, MadeOf
  <2>7. r.at = a /\ r.input = e /\ r.interrupt = <<>>
        /\ r.gd = task[owner].gd /\ r.agent = task[owner].agent
      BY <1>1, <2>1, TaskFields DEF TaskRecords, Records
  <2> HIDE DEF r
  <2>8. TasksOK' /\ KeptBut({owner}) /\ task'[owner] = r
      BY <1>1, <2>1, <2>4, <2>6, OneTask
  <2>9. Becomes(owner, a, e, <<>>) BY <2>3, <2>7, <2>8 DEF Becomes
  <2> QED BY <2>1, <2>5, <2>8, <2>9 DEF e
<1> QED BY <1>2, <1>3


----------------------------------------------------------------------------
(* The basics are kept.                                                    *)

LEMMA NeverStale == ASSUME Basics PROVE ~Stale
BY DEF Basics, OwnerLive, Stale

LEMMA ChosenKept == ASSUME Basics, SameScenario PROVE Chosen' /\ Guards' = Guards /\ Messages' = Messages
BY DEF Basics, SameScenario, Chosen, Guards, Messages

\* Allotment and holdings when task t alone has changed.
LEMMA OneMoved ==
    ASSUME Basics, NEW t \in TaskIds, KeptBut({t}), NEW at \in Stages \ {"none"},
           NEW e, NEW x, Becomes(t, at, e, x), task[t].at # "none",
           at \notin {"starting", "setup", "handoff"} => e = <<>>,
           at # "returned" => x = <<>>,
           at \in {"starting", "setup"} => task[t].at \in {"starting", "setup"}
    PROVE  Allotted' /\ HeldWhere'
<1>1. \A u \in TaskIds : u # t => task'[u] = task[u] BY DEF KeptBut
<1>2. task'[t].at = at /\ task'[t].input = e /\ task'[t].interrupt = x
      /\ IF at = "running" THEN task'[t].agent \in Agents
                           ELSE task'[t].agent = task[t].agent
    BY DEF Becomes
<1>3. \A u \in TaskIds : task'[u].at # "none" <=> task[u].at # "none" BY <1>1, <1>2
<1>4. Allotted'
  <2>1. PICK n \in 0..MaxTasks : \A u \in TaskIds : task[u].at # "none" <=> u <= n
      BY DEF Basics, Allotted
  <2>2. \A u \in TaskIds : task'[u].at # "none" <=> u <= n BY <1>3, <2>1
  <2> QED BY <2>2 DEF Allotted, TaskIds
<1>5. HeldWhere'
  <2> SUFFICES ASSUME NEW u \in TaskIds
               PROVE  /\ task'[u].at \notin {"starting", "setup", "handoff"} => task'[u].input = <<>>
                      /\ task'[u].at # "returned" => task'[u].interrupt = <<>>
                      /\ task'[u].at \in {"none", "starting", "setup"} => task'[u].agent = NoAgent
                      /\ task'[u].at = "running" => task'[u].agent \in Agents
      BY DEF HeldWhere, TaskIds, Agents
  <2>1. /\ task[u].at \notin {"starting", "setup", "handoff"} => task[u].input = <<>>
        /\ task[u].at # "returned" => task[u].interrupt = <<>>
        /\ task[u].at \in {"none", "starting", "setup"} => task[u].agent = NoAgent
        /\ task[u].at = "running" => task[u].agent \in Agents
      BY DEF Basics, HeldWhere
  <2>2. CASE u = t BY <1>2, <2>1, <2>2
  <2>3. CASE u # t BY <1>1, <2>1, <2>3
  <2> QED BY <2>2, <2>3
<1> QED BY <1>4, <1>5

\* The same when a new task was made, beside the change of task t or without.
LEMMA OneBorn ==
    ASSUME Basics, NEW T \in SUBSET TaskIds, KeptBut(T \union {NextTask}),
           NEW i \in Seq(Messages), NEW g \in Nat, Born(NextTask, i, g),
           \A t \in T : /\ task[t].at # "none" /\ task'[t].at \in {"cleanup", "done"}
                        /\ task'[t].input = <<>> /\ task'[t].interrupt = <<>>
    PROVE  Allotted' /\ HeldWhere'
<1>1. \A u \in TaskIds : u \notin T /\ u # NextTask => task'[u] = task[u] BY DEF KeptBut
<1>2. NextTask \in TaskIds /\ NextTask \in Nat \ {0} /\ NextTask \notin T
      /\ \A t \in TaskIds : task[t].at # "none" <=> t < NextTask
    BY NextFree DEF Basics, Born
<1>3. /\ task'[NextTask].at = "starting" /\ task'[NextTask].interrupt = <<>>
      /\ task'[NextTask].agent = NoAgent
    BY NewTaskIs DEF Born
<1> DEFINE n == NextTask
<1> HIDE DEF n
<1>4. Allotted'
  <2>1. n \in 0..MaxTasks /\ n \in TaskIds BY <1>2, Bounds DEF n, TaskIds
  <2>2. \A u \in TaskIds : task'[u].at # "none" <=> u < n \/ u = n
      BY <1>1, <1>2, <1>3 DEF n
  <2>3. \A u \in TaskIds : task'[u].at # "none" <=> u <= n
      BY <2>1, <2>2, Bounds DEF TaskIds
  <2> QED BY <2>1, <2>3 DEF Allotted, TaskIds
<1>5. HeldWhere'
  <2> SUFFICES ASSUME NEW u \in TaskIds
               PROVE  /\ task'[u].at \notin {"starting", "setup", "handoff"} => task'[u].input = <<>>
                      /\ task'[u].at # "returned" => task'[u].interrupt = <<>>
                      /\ task'[u].at \in {"none", "starting", "setup"} => task'[u].agent = NoAgent
                      /\ task'[u].at = "running" => task'[u].agent \in Agents
      BY DEF HeldWhere, TaskIds, Agents
  <2>1. CASE u = n BY <1>3, <2>1 DEF n
  <2>2. CASE u \in T BY <2>2
  <2>3. CASE u \notin T /\ u # n BY <1>1, <2>3 DEF Basics, HeldWhere, n
  <2> QED BY <2>1, <2>2, <2>3
<1> QED BY <1>4, <1>5

\* ... and when no task has changed.
LEMMA NoneMoved ==
    ASSUME Basics, UNCHANGED task
    PROVE  Allotted' /\ HeldWhere' /\ (owner' \in {owner, Nobody} => OwnerLive')
<1>1. Allotted' BY DEF Basics, Allotted, TaskIds
<1>2. HeldWhere' BY DEF Basics, HeldWhere, TaskIds, Agents
<1>3. owner' \in {owner, Nobody} => OwnerLive' BY DEF Basics, OwnerLive, Live
<1> QED BY <1>1, <1>2, <1>3


LEMMA InitBasics == Init => Basics
<1> SUFFICES ASSUME Init PROVE Basics OBVIOUS
<1>1. PICK sc \in Scenarios : traffic = sc[1] /\ script = sc[2] BY DEF Init
<1>2. Chosen
  <2>1. sc = <<sc[1], sc[2]>> BY SessionAssumption
  <2> QED BY <1>1, <2>1 DEF Chosen
<1>3. /\ guard = 0 /\ owner = Nobody /\ slot = Nobody /\ gen = 0 /\ timer = FALSE
      /\ pending = <<>> /\ buffer = <<>> /\ overflow = <<>> /\ started = <<>>
      /\ task = [t \in TaskIds |-> NoTask] /\ cmd = Idle /\ arrived = 0
    BY DEF Init
<1>4. ScalarsOK
  <2>1. Len(traffic) \in Nat /\ Len(script) \in Nat BY <1>2, TrafficOK
  <2>2. timer \in BOOLEAN BY <1>3
  <2>3. guard \in Guards BY <1>3, <2>1, Bounds DEF Guards
  <2>4. arrived \in 0..Len(traffic) /\ gen \in Nat BY <1>3, <2>1
  <2>5. owner \in TaskIds \union {Nobody} /\ slot \in TaskIds \union {Nobody} BY <1>3
  <2> QED BY <2>2, <2>3, <2>4, <2>5 DEF ScalarsOK
<1>5. ContentsOK BY <1>3, EmptySeq DEF ContentsOK
<1>6. NoTask \in TaskRecords /\ NoTask.at = "none" /\ NoTask.input = <<>>
      /\ NoTask.interrupt = <<>> /\ NoTask.agent = NoAgent
  <2>1. <<>> \in Seq(Messages) /\ 0 \in 0..MaxDepth /\ 0 \in 0..gen
      BY <1>3, Bounds, EmptySeq
  <2> QED BY <2>1 DEF NoTask, TaskRecords, Records, Stages
<1>7. TasksOK BY <1>3, <1>6 DEF TasksOK
<1>8. CommandOK BY <1>2, <1>3, TrafficOK, Bounds DEF CommandOK, Idle, Guards, Nobody
<1>9. Allotted
  <2>1. \A t \in TaskIds : task[t].at # "none" <=> t <= 0
      BY <1>3, <1>6, Bounds DEF TaskIds
  <2> QED BY <2>1, Bounds DEF Allotted
<1>10. HeldWhere BY <1>3, <1>6 DEF HeldWhere
<1>11. OwnerLive BY <1>3 DEF OwnerLive
<1>12. SignalsOK
  <2>1. Silent \in Signals(Messages) BY EmptySeq DEF Silent, Signals
  <2> QED BY <2>1 DEF Init, SignalsOK
<1> QED BY <1>2, <1>4, <1>5, <1>7, <1>8, <1>9, <1>10, <1>11, <1>12 DEF Basics

\* A message arrives.
LEMMA ReceiveScalars ==
    ASSUME Basics, NEW m \in Messages, Receive(m)
    PROVE  /\ SameScenario /\ m \in Nat \ {0} /\ m = arrived + 1 /\ arrived' = m
           /\ arrived' \in 0..Len(traffic')
           /\ <<m>> \in Seq(Messages) /\ <<m>> # <<>>
<1>1. m = arrived + 1 /\ arrived' = m /\ SameScenario BY DEF Receive, SameScenario
<1>2. Messages = 1..Len(traffic) /\ Len(traffic) \in Nat BY TrafficOK DEF Basics
<1>3. arrived' \in 0..Len(traffic') BY <1>1, <1>2 DEF SameScenario
<1> QED BY <1>1, <1>2, <1>3, Single

\* The agent that is interrupted.
LEMMA InterruptedIs ==
    ASSUME Basics, slot # Nobody, task[slot].agent # NoAgent
    PROVE  slot \in TaskIds /\ task[slot].agent \in Agents
BY TaskFields DEF Basics, ScalarsOK

\* A message interrupts the agent in the slot, or it does not.
LEMMA ReceivePhotoSignal ==
    ASSUME Basics, NEW m \in Messages, ReceivePhoto(m)
    PROVE  /\ SignalsOK'
           /\ \/ UNCHANGED <<signal, dropped>>
              \/ \E a \in Agents :
                   /\ signal'[a].interrupt = <<>>
                   /\ \A b \in Agents \ {a} : signal'[b] = signal[b]
                   /\ Drop("superseded", Range(signal[a].interrupt))
<1>1. SameScenario /\ cached' \in Agents \union {NoAgent}
    BY DEF ReceivePhoto, Receive, SameScenario, Basics, SignalsOK
<1>2. CASE UNCHANGED <<signal, dropped>> BY <1>1, <1>2, SignalsKept
<1>3. CASE ~UNCHANGED <<signal, dropped>>
  <2> DEFINE a == task[slot].agent
  <2>1. slot # Nobody /\ a # NoAgent /\ Drop("superseded", Range(signal[a].interrupt))
      BY <1>3 DEF ReceivePhoto
  <2>2. PICK copy \in {<<>>, <<m>>} :
           signal' = [signal EXCEPT ![a] = [interrupt |-> <<>>, copy |-> copy]]
      BY <1>3 DEF ReceivePhoto
  <2>3. a \in Agents BY <2>1, InterruptedIs
  <2> DEFINE x == [interrupt |-> <<>>, copy |-> copy]
  <2>4. x \in Signals(Messages) /\ x.interrupt = <<>>
    <3>1. <<m>> \in Seq(Messages) /\ <<>> \in Seq(Messages) BY Single, EmptySeq
    <3> QED BY <3>1 DEF Signals
  <2> HIDE DEF x, a
  <2>5. signal' = [signal EXCEPT ![a] = x] BY <2>2 DEF x
  <2>6. SignalsOK' /\ signal'[a] = x /\ \A b \in Agents \ {a} : signal'[b] = signal[b]
      BY <1>1, <2>3, <2>4, <2>5, SignalSet
  <2> QED BY <2>1, <2>3, <2>4, <2>6
<1> QED BY <1>2, <1>3

\* The busy message interrupts the agent in the slot with itself.
BusyInterrupts(t) ==
    /\ slot # Nobody /\ task[slot].agent # NoAgent
    /\ signal' = [signal EXCEPT ![task[slot].agent] =
                     [interrupt |-> task[t].input, copy |-> <<>>]]
    /\ Drop("superseded", Range(signal[task[slot].agent].interrupt))
    /\ UNCHANGED pending

LEMMA BusyChoices ==
    ASSUME NEW t \in TaskIds, Busy(t)
    PROVE  \/ /\ pending' = Merged(pending, task[t].input, TRUE)
              /\ UNCHANGED <<signal, dropped>>
           \/ /\ pending' = Merged(pending, task[t].input, FALSE)
              /\ Drop("superseded", Range(pending) \ Range(pending')) /\ UNCHANGED signal
           \/ BusyInterrupts(t)
BY DEF Busy, BusyInterrupts

LEMMA BusySignal ==
    ASSUME Basics, NEW t \in TaskIds, Busy(t), BusyInterrupts(t)
    PROVE  /\ SignalsOK' /\ UNCHANGED pending
           /\ \E a \in Agents :
                /\ signal'[a].interrupt = task[t].input
                /\ \A b \in Agents \ {a} : signal'[b] = signal[b]
                /\ Drop("superseded", Range(signal[a].interrupt))
<1> DEFINE a == task[slot].agent
           x == [interrupt |-> task[t].input, copy |-> <<>>]
<1>1. SameScenario /\ cached' \in Agents \union {NoAgent}
    BY DEF Busy, SameScenario, Basics, SignalsOK
<1>2. /\ slot # Nobody /\ a # NoAgent /\ Drop("superseded", Range(signal[a].interrupt))
      /\ signal' = [signal EXCEPT ![a] = x] /\ UNCHANGED pending
    BY DEF BusyInterrupts
<1>3. a \in Agents BY <1>2, InterruptedIs
<1>4. x \in Signals(Messages) /\ x.interrupt = task[t].input
  <2>1. task[t].input \in Seq(Messages) /\ <<>> \in Seq(Messages)
      BY EmptySeq, TaskFields DEF Basics
  <2> QED BY <2>1 DEF Signals
<1> HIDE DEF x, a
<1>5. SignalsOK' /\ signal'[a] = x /\ \A b \in Agents \ {a} : signal'[b] = signal[b]
    BY <1>1, <1>2, <1>3, <1>4, SignalSet
<1> QED BY <1>2, <1>3, <1>4, <1>5

LEMMA PeekSignal ==
    ASSUME Basics, NEW t \in TaskIds, Peek(t)
    PROVE  /\ SignalsOK'
           /\ \E a \in Agents :
                /\ signal'[a].interrupt = <<>>
                /\ \A b \in Agents \ {a} : signal'[b] = signal[b]
                /\ Drop("superseded", Range(signal[a].interrupt))
<1> DEFINE a == task[t].agent
           x == [interrupt |-> <<>>, copy |-> pending]
<1>1. SameScenario /\ cached' \in Agents \union {NoAgent}
    BY DEF Peek, SameScenario, Basics, SignalsOK
<1>2. a \in Agents BY DEF Peek, Basics, HeldWhere
<1>3. signal' = [signal EXCEPT ![a] = x] /\ Drop("superseded", Range(signal[a].interrupt))
    BY DEF Peek
<1>4. x \in Signals(Messages) /\ x.interrupt = <<>>
  <2>1. pending \in Seq(Messages) /\ <<>> \in Seq(Messages)
      BY EmptySeq DEF Basics, ContentsOK
  <2> QED BY <2>1 DEF Signals
<1> HIDE DEF x, a
<1>5. SignalsOK' /\ signal'[a] = x /\ \A b \in Agents \ {a} : signal'[b] = signal[b]
    BY <1>1, <1>2, <1>3, <1>4, SignalSet
<1> QED BY <1>2, <1>3, <1>4, <1>5

\* A command interrupts the agent in the slot with a control reason.
CommandedAgents == IF slot # Nobody THEN {task[slot].agent} \ {NoAgent} ELSE {}

LEMMA CommandHandledSignal ==
    ASSUME Basics, CommandHandled
    PROVE  /\ SignalsOK'
           /\ \A b \in Agents : signal'[b] = IF b \in CommandedAgents THEN Silent ELSE signal[b]
<1>1. SameScenario /\ cached' \in Agents \union {NoAgent}
    BY DEF CommandHandled, SameScenario, Basics, SignalsOK
<1>2. signal' = [b \in Agents |-> IF b \in CommandedAgents THEN Silent ELSE signal[b]]
    BY DEF CommandHandled, CommandedAgents
<1>3. Silent \in Signals(Messages) BY EmptySeq DEF Silent, Signals
<1>4. signal \in [Agents -> Signals(Messages)] /\ Messages' = Messages
    BY <1>1 DEF Basics, SignalsOK, SameScenario, Messages
<1>5. signal' \in [Agents -> Signals(Messages)] BY <1>2, <1>3, <1>4
<1> QED BY <1>1, <1>2, <1>4, <1>5 DEF SignalsOK, Agents, TaskIds, Signals

\* The texts of the agents are of their type after any step.
LEMMA SignalsStep ==
    ASSUME Basics, [Next]_vars PROVE SignalsOK'
<1>1. CASE UNCHANGED vars
  <2>1. SameScenario /\ UNCHANGED <<signal, cached>> BY <1>1 DEF vars, SameScenario
  <2> QED BY <2>1, SignalsKept DEF Basics, SignalsOK
<1>2. ASSUME NEW m \in Messages,
             ReceiveIdle(m) \/ ReceivePhoto(m) \/ ReceiveText(m) \/ ReceiveQueue(m)
      PROVE  SignalsOK'
  <2>1. CASE ReceivePhoto(m) BY <2>1, ReceivePhotoSignal
  <2>2. CASE ReceiveIdle(m) \/ ReceiveText(m) \/ ReceiveQueue(m)
    <3>1. SameScenario /\ UNCHANGED <<signal, cached>>
        BY <2>2 DEF ReceiveIdle, ReceiveText, ReceiveQueue, Receive, SameScenario
    <3> QED BY <3>1, SignalsKept DEF Basics, SignalsOK
  <2> QED BY <1>2, <2>1, <2>2
<1>3. CASE TimerFires
  <2>1. SameScenario /\ UNCHANGED <<signal, cached>> BY <1>3 DEF TimerFires, SameScenario
  <2> QED BY <2>1, SignalsKept DEF Basics, SignalsOK
<1>4. ASSUME NEW t \in TaskIds, TaskStep(t) \/ Peek(t) PROVE SignalsOK'
  <2>1. CASE Busy(t)
    <3>1. CASE ~UNCHANGED signal BY <2>1, <3>1, BusyChoices, BusySignal
    <3>2. CASE UNCHANGED signal
      <4>1. SameScenario /\ UNCHANGED cached BY <2>1 DEF Busy, SameScenario
      <4> QED BY <3>2, <4>1, SignalsKept DEF Basics, SignalsOK
    <3> QED BY <3>1, <3>2
  <2>2. CASE RunStarts(t) \/ FollowUp(t)
    <3>1. SameScenario /\ UNCHANGED signal BY <2>2 DEF RunStarts, FollowUp, SameScenario
    <3>2. cached' \in Agents BY <2>2, RunStartsTasks, FollowUpTasks
    <3> QED BY <3>1, <3>2, SignalsKept
  <2>3. CASE LoopEnds(t) BY <2>3, LoopEndsTasks
  <2>4. CASE RunTimesOut(t) BY <2>4, RunTimesOutTasks
  <2>5. CASE Peek(t) BY <2>5, PeekSignal
  <2>6. CASE \/ Claim(t) \/ RunEnds(t) \/ RunFails(t) \/ Deliver(t) \/ HandOff(t)
             \/ Unwind(t) \/ Cleanup(t)
    <3>1. SameScenario /\ UNCHANGED <<signal, cached>>
        BY <2>6 DEF Claim, RunEnds, RunFails, Deliver, HandOff, Unwind, Cleanup, SameScenario
    <3> QED BY <3>1, SignalsKept DEF Basics, SignalsOK
  <2> QED BY <1>4, <2>1, <2>2, <2>3, <2>4, <2>5, <2>6 DEF TaskStep
<1>5. CASE CommandHandled BY <1>5, CommandHandledSignal
<1>6. CASE CommandArrives \/ CommandCancels \/ CommandDrains \/ CommandFails
  <2>1. SameScenario /\ UNCHANGED <<signal, cached>>
      BY <1>6 DEF CommandArrives, CommandCancels, CommandDrains, CommandFails, SameScenario
  <2> QED BY <2>1, SignalsKept DEF Basics, SignalsOK
<1> QED BY <1>1, <1>2, <1>3, <1>4, <1>5, <1>6 DEF Next, CommandContinues

LEMMA ReceiveIdleBasics ==
    ASSUME Basics, SignalsOK', NEW m \in Messages, ReceiveIdle(m)
    PROVE  /\ Basics' /\ KeptBut({NextTask}) /\ Born(NextTask, <<m>>, NextTask)
           /\ UNCHANGED <<dropped, pending, buffer>>
<1>1. /\ SameScenario /\ arrived' \in 0..Len(traffic') /\ <<m>> \in Seq(Messages)
    BY ReceiveScalars DEF ReceiveIdle
<1>2. /\ NextTask \in TaskIds /\ guard' = NextTask /\ owner' = NextTask
      /\ task' = [task EXCEPT ![NextTask] = NewTask(<<m>>, NextTask)]
      /\ UNCHANGED <<dropped, pending, buffer, timer, slot, overflow, gen, cmd, started>>
    BY NeverStale DEF ReceiveIdle, StartProcessing
<1>3. NextTask \in Nat BY <1>2, Bounds DEF TaskIds
<1>4. TasksOK' /\ KeptBut({NextTask}) /\ Born(NextTask, <<m>>, NextTask)
    BY <1>1, <1>2, <1>3, Takeover
<1>5. Chosen' /\ Guards' = Guards /\ Messages' = Messages BY <1>1, ChosenKept
<1>6. ScalarsOK'
  <2>1. NextTask \in Guards BY <1>2, TrafficOK, Bounds DEF Guards, TaskIds, Basics
  <2> QED BY <1>1, <1>2, <1>5, <2>1 DEF Basics, ScalarsOK, TaskIds
<1>7. ContentsOK' BY <1>2, <1>5 DEF Basics, ContentsOK
<1>8. CommandOK' BY <1>1, <1>2, <1>5 DEF Basics, CommandOK, TaskIds, SameScenario
<1>9. Allotted' /\ HeldWhere'
  <2>1. {} \in SUBSET TaskIds /\ {} \union {NextTask} = {NextTask} OBVIOUS
  <2> QED BY <1>1, <1>3, <1>4, <2>1, OneBorn
<1>10. OwnerLive'
  <2>1. task'[NextTask].at = "starting"
      BY <1>4, NewTaskIs DEF Born
  <2> QED BY <1>2, <2>1 DEF OwnerLive, Live
<1> QED BY <1>2, <1>4, <1>5, <1>6, <1>7, <1>8, <1>9, <1>10 DEF Basics


LEMMA CommandKept ==
    ASSUME Basics, SameScenario, UNCHANGED cmd
    PROVE  CommandOK'
BY ChosenKept DEF Basics, CommandOK, SameScenario, TaskIds

\* A step that changes no task.
LEMMA Undisturbed ==
    ASSUME Basics, SignalsOK', SameScenario, UNCHANGED task, gen' \in Nat, gen <= gen',
           ScalarsOK', ContentsOK', CommandOK', owner' \in {owner, Nobody}
    PROVE  Basics'
BY ChosenKept, TasksUntouched, NoneMoved DEF Basics

\* A step that moves one task and makes none.
LEMMA Progressed ==
    ASSUME Basics, SignalsOK', SameScenario, UNCHANGED cmd, NEW t \in TaskIds,
           TasksOK', KeptBut({t}), NEW at \in Stages \ {"none"}, NEW e, NEW x,
           Becomes(t, at, e, x), task[t].at # "none",
           at \notin {"starting", "setup", "handoff"} => e = <<>>,
           at # "returned" => x = <<>>,
           at \in {"starting", "setup"} => task[t].at \in {"starting", "setup"},
           ScalarsOK', ContentsOK', owner' \in {owner, Nobody},
           at = "done" => owner' # t
    PROVE  Basics'
<1>1. Chosen' /\ CommandOK' BY ChosenKept, CommandKept
<1>2. Allotted' /\ HeldWhere' BY OneMoved
<1>3. OwnerLive'
  <2>1. \A u \in TaskIds : u # t => task'[u] = task[u] BY DEF KeptBut
  <2>2. task'[t].at = at BY DEF Becomes
  <2>3. owner' # Nobody => owner' = owner /\ owner \in TaskIds
      BY DEF Basics, ScalarsOK
  <2> QED BY <2>1, <2>2, <2>3 DEF Basics, OwnerLive, Live
<1> QED BY <1>1, <1>2, <1>3 DEF Basics

LEMMA MessageArrives ==
    ASSUME Basics, SignalsOK', NEW m \in Messages, Receive(m), UNCHANGED <<task, cmd, guard, owner, slot, gen>>,
           timer' \in BOOLEAN, ContentsOK'
    PROVE  Basics'
<1>1. SameScenario /\ arrived' \in 0..Len(traffic') BY ReceiveScalars
<1>2. ScalarsOK' /\ gen' \in Nat /\ gen <= gen'
    BY <1>1, ChosenKept DEF Basics, ScalarsOK, TaskIds
<1>3. CommandOK' BY <1>1, CommandKept
<1> QED BY <1>1, <1>2, <1>3, Undisturbed

\* Where the messages are after an arrival.
LEMMA ReceivePhotoEffect ==
    ASSUME Basics, NEW m \in Messages, ReceivePhoto(m)
    PROVE  pending' = pending \o <<m>> /\ UNCHANGED <<buffer, overflow, started, task>>
<1>1. pending' = Merged(pending, <<m>>, FALSE) /\ traffic[m].kind = "photo"
    BY DEF ReceivePhoto
<1>2. IsPhoto(<<m>>) BY <1>1 DEF IsPhoto
<1>3. <<m>> \in Seq(Messages) BY Single
<1>4. pending = <<>> => pending' = pending \o <<m>> BY <1>1, <1>3, Joined DEF Merged
<1>5. pending # <<>> => pending' = pending \o <<m>> BY <1>1, <1>2 DEF Merged
<1> QED BY <1>4, <1>5 DEF ReceivePhoto

LEMMA ReceivePhotoBasics ==
    ASSUME Basics, SignalsOK', NEW m \in Messages, ReceivePhoto(m) PROVE Basics'
<1>1. /\ Receive(m) /\ UNCHANGED <<task, cmd, guard, owner, slot, gen, timer>>
      /\ UNCHANGED <<buffer, overflow, started>> /\ pending' = pending \o <<m>>
    BY ReceivePhotoEffect DEF ReceivePhoto
<1>2. Messages' = Messages /\ <<m>> \in Seq(Messages)
    BY <1>1, ReceiveScalars, ChosenKept
<1>3. pending \o <<m>> \in Seq(Messages) BY <1>2, Joined DEF Basics, ContentsOK
<1>4. ContentsOK' BY <1>1, <1>2, <1>3 DEF Basics, ContentsOK
<1> QED BY <1>1, <1>4, MessageArrives DEF Basics, ScalarsOK

LEMMA ReceiveTextEffect ==
    ASSUME Basics, NEW m \in Messages, ReceiveText(m)
    PROVE  \/ /\ buffer = <<>> \/ SameSender(buffer, <<m>>)
              /\ buffer' = buffer \o <<m>> /\ timer' = TRUE
              /\ UNCHANGED <<pending, dropped>>
           \/ /\ buffer # <<>> /\ CanFlush
              /\ pending' = pending \o buffer /\ buffer' = <<m>> /\ timer' = TRUE
              /\ UNCHANGED dropped
           \/ /\ buffer # <<>> /\ ~CanFlush /\ ~SameSender(buffer, <<m>>)
              /\ pending' = pending \o <<m>> /\ timer' = FALSE
              /\ UNCHANGED <<buffer, dropped>>
           \/ /\ Drop("third sender", {m}) /\ timer' = FALSE
              /\ UNCHANGED <<pending, buffer>>
<1>1. ContentsOK BY DEF Basics
<1>2. <<m>> \in Seq(Messages) BY Single
<1>3. Append(buffer, m) = buffer \o <<m>> BY <1>1, Appended DEF ContentsOK
<1>4. Merged(pending, <<m>>, TRUE) = pending \o <<m>>
    BY <1>1, <1>2, MergedText DEF ContentsOK
<1>5. CanFlush => FlushedPending = pending \o buffer BY <1>1, Flushed
<1>6. CASE buffer = <<>> \/ SameSender(buffer, <<m>>)
    BY <1>3, <1>6 DEF ReceiveText
<1>7. CASE buffer # <<>> /\ ~SameSender(buffer, <<m>>) /\ CanFlush
    BY <1>5, <1>7 DEF ReceiveText
<1>8. CASE buffer # <<>> /\ ~SameSender(buffer, <<m>>) /\ ~CanFlush
    BY <1>4, <1>8 DEF ReceiveText
<1> QED BY <1>6, <1>7, <1>8

LEMMA ReceiveTextBasics ==
    ASSUME Basics, SignalsOK', NEW m \in Messages, ReceiveText(m) PROVE Basics'
<1>1. /\ Receive(m) /\ UNCHANGED <<task, cmd, guard, owner, slot, gen>>
      /\ UNCHANGED <<overflow, started>>
    BY DEF ReceiveText
<1>2. Messages' = Messages /\ <<m>> \in Seq(Messages) /\ <<m>> # <<>>
    BY <1>1, ReceiveScalars, ChosenKept
<1>3. /\ pending \o <<m>> \in Seq(Messages) /\ buffer \o <<m>> \in Seq(Messages)
      /\ pending \o buffer \in Seq(Messages) /\ buffer \o <<m>> # <<>>
    BY <1>2, Joined DEF Basics, ContentsOK
<1>4. timer' \in BOOLEAN /\ ContentsOK'
    BY <1>1, <1>2, <1>3, ReceiveTextEffect DEF Basics, ContentsOK
<1> QED BY <1>1, <1>4, MessageArrives

LEMMA ReceiveQueueBasics ==
    ASSUME Basics, SignalsOK', NEW m \in Messages, ReceiveQueue(m) PROVE Basics'
<1>1. /\ Receive(m) /\ UNCHANGED <<task, cmd, guard, owner, slot, gen, timer>>
      /\ UNCHANGED <<buffer, started>>
      /\ \/ pending' = <<m>> /\ overflow' = overflow
         \/ overflow' = Append(overflow, m) /\ pending' = pending
    BY DEF ReceiveQueue
<1>2. Messages' = Messages /\ <<m>> \in Seq(Messages)
    BY <1>1, ReceiveScalars, ChosenKept
<1>3. Append(overflow, m) \in Seq(Messages)
    BY <1>2, Appended, Joined DEF Basics, ContentsOK
<1>4. ContentsOK' BY <1>1, <1>2, <1>3 DEF Basics, ContentsOK
<1> QED BY <1>1, <1>4, MessageArrives DEF Basics, ScalarsOK

LEMMA TimerFiresBasics ==
    ASSUME Basics, SignalsOK', TimerFires PROVE Basics'
<1>1. /\ SameScenario /\ UNCHANGED <<task, cmd, guard, owner, slot, gen, arrived>>
      /\ UNCHANGED <<overflow, started>> /\ timer' = FALSE
      /\ pending' = FlushedPending /\ buffer' = FlushedBuffer
    BY DEF TimerFires, SameScenario
<1>2. Messages' = Messages /\ Guards' = Guards BY <1>1, ChosenKept
<1>3. ContentsOK' BY <1>1, <1>2, Flushed DEF Basics, ContentsOK
<1>4. ScalarsOK' /\ gen' \in Nat /\ gen <= gen'
  <2>1. timer' \in BOOLEAN BY <1>1
  <2> QED BY <1>1, <1>2, <2>1 DEF Basics, ScalarsOK, TaskIds, SameScenario
<1>5. CommandOK' BY <1>1, CommandKept
<1> QED BY <1>1, <1>3, <1>4, <1>5, Undisturbed


LEMMA ClaimBasics ==
    ASSUME Basics, SignalsOK', NEW t \in TaskIds, Claim(t) PROVE Basics'
<1>1. /\ SameScenario /\ UNCHANGED <<cmd, guard, owner, timer, arrived>>
      /\ UNCHANGED <<pending, buffer, overflow, started>>
      /\ slot' = t /\ gen' = gen + 1 /\ task[t].at = "starting"
    BY DEF Claim, SameScenario
<1>2. Messages' = Messages /\ Guards' = Guards BY <1>1, ChosenKept
<1>3. ScalarsOK' /\ ContentsOK'
    BY <1>1, <1>2 DEF Basics, ScalarsOK, ContentsOK, TaskIds, SameScenario
<1>4. "setup" \in Stages \ {"none"} BY DEF Stages
<1>5. task[t].interrupt = <<>> BY <1>1 DEF Basics, HeldWhere
<1> QED BY <1>1, <1>3, <1>4, <1>5, ClaimTasks, Progressed

LEMMA BusyBasics ==
    ASSUME Basics, SignalsOK', NEW t \in TaskIds, Busy(t) PROVE Basics'
<1>1. /\ SameScenario /\ UNCHANGED <<cmd, guard, owner, timer, arrived, slot, gen>>
      /\ UNCHANGED <<buffer, overflow, started>>
      /\ task[t].at = "starting"
      /\ pending' \in {pending, Merged(pending, task[t].input, TRUE),
                       Merged(pending, task[t].input, FALSE)}
    BY DEF Busy, SameScenario
<1>2. Messages' = Messages /\ Guards' = Guards BY <1>1, ChosenKept
<1>3. \A b \in BOOLEAN : Merged(pending, task[t].input, b) \in Seq(Messages)
  <2>1. pending \in Seq(Messages) /\ task[t].input \in Seq(Messages)
      BY TaskFields DEF Basics, ContentsOK
  <2>2. pending \o task[t].input \in Seq(Messages) BY <2>1, Joined
  <2> QED BY <2>1, <2>2 DEF Merged
<1>4. ContentsOK' BY <1>1, <1>2, <1>3 DEF Basics, ContentsOK
<1>5. ScalarsOK' BY <1>1, <1>2 DEF Basics, ScalarsOK, TaskIds, SameScenario
<1>6. "delivering" \in Stages \ {"none"} BY DEF Stages
<1>7. task[t].interrupt = <<>> BY <1>1 DEF Basics, HeldWhere
<1> QED BY <1>1, <1>4, <1>5, <1>6, <1>7, BusyTasks, Progressed

LEMMA RunStartsBasics ==
    ASSUME Basics, SignalsOK', NEW t \in TaskIds, RunStarts(t) PROVE Basics'
<1>1. /\ SameScenario /\ UNCHANGED <<cmd, guard, owner, timer, arrived, gen>>
      /\ UNCHANGED <<pending, buffer, overflow>>
      /\ slot' \in {slot, t} /\ task[t].at = "setup" /\ started' = started \o task[t].input
    BY DEF RunStarts, SameScenario
<1>2. Messages' = Messages /\ Guards' = Guards BY <1>1, ChosenKept
<1>3. started \o task[t].input \in Seq(Messages)
    BY TaskFields, Joined DEF Basics, ContentsOK
<1>4. ScalarsOK' /\ ContentsOK'
    BY <1>1, <1>2, <1>3 DEF Basics, ScalarsOK, ContentsOK, TaskIds, SameScenario
<1>5. "running" \in Stages \ {"none"} BY DEF Stages
<1>6. task[t].interrupt = <<>> BY <1>1 DEF Basics, HeldWhere
<1> QED BY <1>1, <1>4, <1>5, <1>6, RunStartsTasks, Progressed

LEMMA LoopEndsBasics ==
    ASSUME Basics, SignalsOK', NEW t \in TaskIds, LoopEnds(t) PROVE Basics'
<1>1. /\ SameScenario /\ UNCHANGED <<cmd, guard, owner, timer, arrived, slot, gen>>
      /\ UNCHANGED <<pending, buffer, overflow, started>> /\ task[t].at = "running"
    BY DEF LoopEnds, SameScenario
<1>2. Messages' = Messages /\ Guards' = Guards BY <1>1, ChosenKept
<1>3. ScalarsOK' /\ ContentsOK'
    BY <1>1, <1>2 DEF Basics, ScalarsOK, ContentsOK, TaskIds, SameScenario
<1>4. "returned" \in Stages \ {"none"} BY DEF Stages
<1>5. task[t].input = <<>> BY <1>1 DEF Basics, HeldWhere
<1>6. PICK x : Becomes(t, "returned", <<>>, x) /\ TasksOK' /\ KeptBut({t})
    BY <1>5, LoopEndsTasks
<1> QED BY <1>1, <1>3, <1>4, <1>6, Progressed

LEMMA RunTimesOutBasics ==
    ASSUME Basics, SignalsOK', NEW t \in TaskIds, RunTimesOut(t) PROVE Basics'
<1>1. /\ SameScenario /\ UNCHANGED <<cmd, guard, owner, timer, arrived, gen>>
      /\ UNCHANGED <<pending, buffer, overflow, started>>
      /\ slot' = Nobody /\ task[t].at = "running"
    BY DEF RunTimesOut, SameScenario
<1>2. Messages' = Messages /\ Guards' = Guards BY <1>1, ChosenKept
<1>3. ScalarsOK' /\ ContentsOK'
    BY <1>1, <1>2 DEF Basics, ScalarsOK, ContentsOK, TaskIds, SameScenario
<1>4. "delivering" \in Stages \ {"none"} BY DEF Stages
<1>5. task[t].input = <<>> /\ task[t].interrupt = <<>> BY <1>1 DEF Basics, HeldWhere
<1> QED BY <1>1, <1>3, <1>4, <1>5, RunTimesOutTasks, Progressed

LEMMA PeekBasics ==
    ASSUME Basics, SignalsOK', NEW t \in TaskIds, Peek(t) PROVE Basics'
<1>1. /\ SameScenario /\ UNCHANGED <<task, cmd, guard, owner, timer, arrived, slot, gen>>
      /\ UNCHANGED <<pending, buffer, overflow, started>>
    BY DEF Peek, SameScenario
<1>2. Messages' = Messages /\ Guards' = Guards BY <1>1, ChosenKept
<1>3. ScalarsOK' /\ gen' \in Nat /\ gen <= gen' /\ ContentsOK'
    BY <1>1, <1>2 DEF Basics, ScalarsOK, ContentsOK, TaskIds, SameScenario
<1>4. CommandOK' BY <1>1, CommandKept
<1> QED BY <1>1, <1>3, <1>4, Undisturbed

\* What the finished run may take next, and what is left of the overflow.
LEMMA NextInputOK ==
    ASSUME Basics, NEW t \in TaskIds
    PROVE  /\ NextInput(t) \in Seq(Messages) /\ Promoted \in Seq(Messages)
           /\ Remaining \in Seq(Messages) /\ Requeued(t) \in Seq(Messages)
           /\ overflow = <<>> => Promoted = <<>> /\ Remaining = <<>>
           /\ overflow # <<>> => /\ overflow = <<Head(overflow)>> \o Remaining
                                 /\ <<Head(overflow)>> \in Seq(Messages)
                                 /\ Range(<<Head(overflow)>>) = {Head(overflow)}
<1>1. ContentsOK /\ task[t].interrupt \in Seq(Messages) /\ <<>> \in Seq(Messages)
    BY TaskFields, EmptySeq DEF Basics
<1>2. overflow # <<>> => /\ Head(overflow) \in Messages /\ Tail(overflow) \in Seq(Messages)
                         /\ overflow = <<Head(overflow)>> \o Tail(overflow)
                         /\ Range(<<Head(overflow)>>) = {Head(overflow)}
                         /\ <<Head(overflow)>> \in Seq(Messages)
    BY <1>1, Beheaded, Single DEF ContentsOK
<1>3. NextInput(t) \in Seq(Messages) /\ Promoted \in Seq(Messages) /\ Remaining \in Seq(Messages)
    BY <1>1, <1>2 DEF ContentsOK, NextInput, Promoted, Remaining
<1>4. Merged(Promoted, NextInput(t), FALSE) \in Seq(Messages)
    BY <1>3, Joined DEF Merged
<1>5. Requeued(t) \in Seq(Messages) BY <1>1, <1>4 DEF Requeued
<1> QED BY <1>2, <1>3, <1>5 DEF Promoted, Remaining

LEMMA FollowUpBasics ==
    ASSUME Basics, SignalsOK', NEW t \in TaskIds, FollowUp(t) PROVE Basics'
<1>1. /\ SameScenario /\ UNCHANGED <<cmd, guard, owner, timer, arrived, gen>>
      /\ UNCHANGED buffer /\ pending' = Promoted /\ overflow' = Remaining
      /\ slot' \in {slot, t} /\ task[t].at = "returned" /\ started' = started \o NextInput(t)
    BY DEF FollowUp, SameScenario
<1>2. Messages' = Messages /\ Guards' = Guards BY <1>1, ChosenKept
<1>3. started \o NextInput(t) \in Seq(Messages)
    BY NextInputOK, Joined DEF Basics, ContentsOK
<1>4. ContentsOK' BY <1>1, <1>2, <1>3, NextInputOK DEF Basics, ContentsOK
<1>5. ScalarsOK' BY <1>1, <1>2 DEF Basics, ScalarsOK, TaskIds, SameScenario
<1>6. "running" \in Stages \ {"none"} BY DEF Stages
<1>7. task[t].input = <<>> BY <1>1 DEF Basics, HeldWhere
<1> QED BY <1>1, <1>4, <1>5, <1>6, <1>7, FollowUpTasks, Progressed

LEMMA RunEndsBasics ==
    ASSUME Basics, SignalsOK', NEW t \in TaskIds, RunEnds(t) PROVE Basics'
<1>1. /\ SameScenario /\ UNCHANGED <<cmd, guard, owner, timer, arrived, gen>>
      /\ UNCHANGED <<buffer, started>> /\ pending' = Requeued(t) /\ overflow' = Remaining
      /\ slot' = Nobody /\ task[t].at = "returned"
    BY DEF RunEnds, SameScenario
<1>2. Messages' = Messages /\ Guards' = Guards BY <1>1, ChosenKept
<1>3. ContentsOK' BY <1>1, <1>2, NextInputOK DEF Basics, ContentsOK
<1>4. ScalarsOK' BY <1>1, <1>2 DEF Basics, ScalarsOK, TaskIds, SameScenario
<1>5. "delivering" \in Stages \ {"none"} BY DEF Stages
<1>6. task[t].input = <<>> BY <1>1 DEF Basics, HeldWhere
<1> QED BY <1>1, <1>3, <1>4, <1>5, <1>6, RunEndsTasks, Progressed

LEMMA RunFailsBasics ==
    ASSUME Basics, SignalsOK', NEW t \in TaskIds, RunFails(t) PROVE Basics'
<1>1. /\ SameScenario /\ UNCHANGED <<cmd, guard, owner, timer, arrived, gen>>
      /\ UNCHANGED <<pending, buffer, overflow, started>>
      /\ slot' = Nobody /\ task[t].at # "none"
    BY DEF RunFails, SameScenario
<1>2. Messages' = Messages /\ Guards' = Guards BY <1>1, ChosenKept
<1>3. ScalarsOK' /\ ContentsOK'
    BY <1>1, <1>2 DEF Basics, ScalarsOK, ContentsOK, TaskIds, SameScenario
<1>4. "cleanup" \in Stages \ {"none"} BY DEF Stages
<1> QED BY <1>1, <1>3, <1>4, RunFailsTasks, Progressed

LEMMA DeliverBasics ==
    ASSUME Basics, SignalsOK', NEW t \in TaskIds, Deliver(t) PROVE Basics'
<1>1. /\ SameScenario /\ UNCHANGED <<cmd, guard, owner, slot, arrived, gen>>
      /\ UNCHANGED <<overflow, started>> /\ timer' = FALSE
      /\ pending' = <<>> /\ buffer' = FlushedBuffer /\ task[t].at = "delivering"
    BY DEF Deliver, SameScenario
<1>2. Messages' = Messages /\ Guards' = Guards BY <1>1, ChosenKept
<1>3. <<>> \in Seq(Messages) BY EmptySeq
<1>4. ContentsOK' BY <1>1, <1>2, <1>3, Flushed DEF Basics, ContentsOK
<1>5. ScalarsOK'
  <2>1. timer' \in BOOLEAN BY <1>1
  <2> QED BY <1>1, <1>2, <2>1 DEF Basics, ScalarsOK, TaskIds, SameScenario
<1>6. "cleanup" \in Stages \ {"none"} /\ "handoff" \in Stages \ {"none"} BY DEF Stages
<1>7. task[t].interrupt = <<>> BY <1>1 DEF Basics, HeldWhere
<1>8. CASE FlushedPending = <<>>
  <2>1. Becomes(t, "cleanup", <<>>, <<>>) /\ TasksOK' /\ KeptBut({t})
      BY <1>7, <1>8, DeliverTasks
  <2> QED BY <1>1, <1>4, <1>5, <1>6, <2>1, Progressed
<1>9. CASE FlushedPending # <<>>
  <2>1. Becomes(t, "handoff", FlushedPending, <<>>) /\ TasksOK' /\ KeptBut({t})
      BY <1>7, <1>9, DeliverTasks
  <2> QED BY <1>1, <1>4, <1>5, <1>6, <2>1, Progressed
<1> QED BY <1>8, <1>9


\* A step that makes a task.
LEMMA TakenOver ==
    ASSUME Basics, SignalsOK', SameScenario, TasksOK', CommandOK', ScalarsOK', ContentsOK',
           NEW T \in SUBSET TaskIds, KeptBut(T \union {NextTask}),
           NEW i \in Seq(Messages), NEW g \in Nat, Born(NextTask, i, g),
           \A t \in T : /\ task[t].at # "none" /\ task'[t].at \in {"cleanup", "done"}
                        /\ task'[t].input = <<>> /\ task'[t].interrupt = <<>>,
           owner' = NextTask
    PROVE  Basics'
<1>1. Allotted' /\ HeldWhere' BY OneBorn
<1>2. task'[NextTask].at = "starting" BY NewTaskIs DEF Born
<1>3. OwnerLive' BY <1>2 DEF OwnerLive, Live
<1> QED BY <1>1, <1>3, ChosenKept DEF Basics

LEMMA HandOffBasics ==
    ASSUME Basics, SignalsOK', NEW t \in TaskIds, HandOff(t) PROVE Basics'
<1>1. /\ SameScenario /\ UNCHANGED <<cmd, slot, timer, arrived, gen>>
      /\ UNCHANGED <<pending, buffer, overflow, started>>
      /\ task[t].at = "handoff" /\ NextTask \in TaskIds
      /\ owner' = NextTask /\ guard' = AdoptedGuard
    BY DEF HandOff, SameScenario
<1>2. Messages' = Messages /\ Guards' = Guards BY <1>1, ChosenKept
<1>3. ScalarsOK' /\ ContentsOK'
    BY <1>1, <1>2, GuardAdopted
       DEF Basics, ScalarsOK, ContentsOK, TaskIds, SameScenario
<1>4. task[t].interrupt = <<>> BY <1>1 DEF Basics, HeldWhere
<1>5. /\ TasksOK' /\ KeptBut({t, NextTask}) /\ Becomes(t, "cleanup", <<>>, <<>>)
      /\ Born(NextTask, task[t].input, AdoptedGuard)
    BY <1>4, HandOffTasks
<1>6. {t, NextTask} = {t} \union {NextTask} /\ {t} \in SUBSET TaskIds OBVIOUS
<1>7. task[t].input \in Seq(Messages) /\ AdoptedGuard \in Nat
    BY TaskFields, GuardAdopted DEF Basics
<1>8. CommandOK' BY <1>1, CommandKept
<1>9. \A u \in {t} : /\ task[u].at # "none" /\ task'[u].at \in {"cleanup", "done"}
                     /\ task'[u].input = <<>> /\ task'[u].interrupt = <<>>
    BY <1>1, <1>5 DEF Becomes
<1> QED BY <1>1, <1>3, <1>5, <1>6, <1>7, <1>8, <1>9, TakenOver

LEMMA UnwindBasics ==
    ASSUME Basics, SignalsOK', NEW t \in TaskIds, Unwind(t) PROVE Basics'
<1>1. /\ SameScenario /\ UNCHANGED <<cmd, guard, owner, timer, arrived, gen>>
      /\ UNCHANGED <<pending, buffer, overflow, started>>
      /\ slot' = Nobody /\ task[t].at = "unwinding"
    BY DEF Unwind, SameScenario
<1>2. Messages' = Messages /\ Guards' = Guards BY <1>1, ChosenKept
<1>3. ScalarsOK' /\ ContentsOK'
    BY <1>1, <1>2 DEF Basics, ScalarsOK, ContentsOK, TaskIds, SameScenario
<1>4. "cleanup" \in Stages \ {"none"} BY DEF Stages
<1>5. task[t].input = <<>> /\ task[t].interrupt = <<>> BY <1>1 DEF Basics, HeldWhere
<1> QED BY <1>1, <1>3, <1>4, <1>5, UnwindTasks, Progressed

LEMMA CleanupBasics ==
    ASSUME Basics, SignalsOK', NEW t \in TaskIds, Cleanup(t) PROVE Basics'
<1>1. /\ SameScenario /\ UNCHANGED <<cmd, slot, arrived, gen>>
      /\ UNCHANGED <<overflow, started>> /\ timer' = FALSE
      /\ buffer' = FlushedBuffer /\ task[t].at = "cleanup"
    BY DEF Cleanup, SameScenario
<1>2. Messages' = Messages /\ Guards' = Guards BY <1>1, ChosenKept
<1>3. timer' \in BOOLEAN /\ <<>> \in Seq(Messages) BY <1>1, EmptySeq
<1>4. pending' \in {<<>>, FlushedPending} BY CleanupEffect DEF CleanupTasks
<1>5. ContentsOK' BY <1>1, <1>2, <1>3, <1>4, Flushed DEF Basics, ContentsOK
<1>6. TasksOK' /\ CleanupTasks(t) /\ Becomes(t, "done", <<>>, <<>>)
  <2>1. task[t].input = <<>> /\ task[t].interrupt = <<>> BY <1>1 DEF Basics, HeldWhere
  <2> QED BY <2>1, CleanupEffect
<1>7. CASE FlushedPending # <<>> /\ owner \in {Nobody, t}
  <2>1. /\ KeptBut({t, NextTask}) /\ Born(NextTask, FlushedPending, AdoptedGuard)
        /\ owner' = NextTask /\ guard' = AdoptedGuard
      BY <1>6, <1>7 DEF CleanupTasks
  <2>2. NextTask \in TaskIds BY <2>1 DEF Born
  <2>3. ScalarsOK'
      BY <1>1, <1>2, <1>3, <2>1, <2>2, GuardAdopted
         DEF Basics, ScalarsOK, TaskIds, SameScenario
  <2>4. {t, NextTask} = {t} \union {NextTask} /\ {t} \in SUBSET TaskIds OBVIOUS
  <2>5. FlushedPending \in Seq(Messages) /\ AdoptedGuard \in Nat
      BY Flushed, GuardAdopted DEF Basics
  <2>6. \A u \in {t} : /\ task[u].at # "none" /\ task'[u].at \in {"cleanup", "done"}
                       /\ task'[u].input = <<>> /\ task'[u].interrupt = <<>>
      BY <1>1, <1>6 DEF Becomes
  <2>7. CommandOK' BY <1>1, CommandKept
  <2> QED BY <1>1, <1>5, <1>6, <2>1, <2>3, <2>4, <2>5, <2>6, <2>7, TakenOver
<1>8. CASE ~(FlushedPending # <<>> /\ owner \in {Nobody, t})
  <2>1. /\ KeptBut({t}) /\ owner' \in {owner, Nobody} /\ owner' # t
        /\ guard' \in {guard, 0}
      BY <1>6, <1>8 DEF CleanupTasks, TaskIds, Nobody
  <2>2. 0 \in Guards BY TrafficOK, Bounds DEF Basics, Guards
  <2>3. ScalarsOK'
      BY <1>1, <1>2, <1>3, <2>1, <2>2 DEF Basics, ScalarsOK, TaskIds, SameScenario
  <2>4. "done" \in Stages \ {"none"} BY DEF Stages
  <2> QED BY <1>1, <1>5, <1>6, <2>1, <2>3, <2>4, Progressed
<1> QED BY <1>7, <1>8

LEMMA CommandArrivesBasics ==
    ASSUME Basics, SignalsOK', CommandArrives PROVE Basics'
<1>1. /\ SameScenario /\ UNCHANGED <<task, slot, owner, arrived, gen>>
      /\ UNCHANGED <<pending, overflow, started>> /\ timer' = FALSE /\ buffer' = <<>>
      /\ guard' = CommandId(cmd.done + 1) /\ cmd.at = "idle" /\ cmd.done < Len(script)
      /\ cmd' = [cmd EXCEPT !.at = "handling", !.id = CommandId(cmd.done + 1),
                            !.saved = guard, !.done = @ + 1]
    BY DEF CommandArrives, SameScenario
<1>2. Messages' = Messages /\ Guards' = Guards BY <1>1, ChosenKept
<1>3. timer' \in BOOLEAN /\ <<>> \in Seq(Messages) BY <1>1, EmptySeq
<1>4. cmd.done + 1 \in 0..Len(script) /\ cmd.done + 1 > 0
      /\ CommandId(cmd.done + 1) \in Guards
    BY <1>1, TrafficOK, Bounds DEF Basics, CommandOK, CommandId, Guards
<1>5. ScalarsOK' /\ gen' \in Nat /\ gen <= gen'
    BY <1>1, <1>2, <1>3, <1>4 DEF Basics, ScalarsOK, TaskIds, SameScenario
<1>6. ContentsOK' BY <1>1, <1>2, <1>3 DEF Basics, ContentsOK
<1>7. CommandOK'
    BY <1>1, <1>2, <1>4 DEF Basics, CommandOK, ScalarsOK, TaskIds, SameScenario
<1> QED BY <1>1, <1>5, <1>6, <1>7, Undisturbed

LEMMA CommandHandledBasics ==
    ASSUME Basics, SignalsOK', CommandHandled PROVE Basics'
<1>1. /\ SameScenario /\ UNCHANGED <<task, guard, owner, timer, arrived>>
      /\ UNCHANGED <<buffer, started>> /\ slot' = Nobody
      /\ pending' \in {<<>>, pending} /\ overflow' \in {<<>>, overflow}
      /\ cmd.at = "handling" /\ cmd' = [cmd EXCEPT !.at = "replying"]
      /\ gen' = gen + (IF slot # Nobody THEN 1 ELSE 0)
                    + (IF script[cmd.done] = "new" THEN 1 ELSE 0)
    BY DEF CommandHandled, SameScenario
<1>2. Messages' = Messages /\ Guards' = Guards BY <1>1, ChosenKept
<1>3. gen' \in Nat /\ gen <= gen'
    BY <1>1 DEF Basics, ScalarsOK
<1>4. ScalarsOK' BY <1>1, <1>2, <1>3 DEF Basics, ScalarsOK, TaskIds, SameScenario
<1>5. ContentsOK' BY <1>1, <1>2, EmptySeq DEF Basics, ContentsOK
<1>6. CommandOK'
    BY <1>1, <1>2 DEF Basics, CommandOK, TaskIds, SameScenario
<1> QED BY <1>1, <1>3, <1>4, <1>5, <1>6, Undisturbed

LEMMA CommandCancelsBasics ==
    ASSUME Basics, SignalsOK', CommandCancels PROVE Basics'
<1>1. /\ SameScenario /\ UNCHANGED <<guard, slot, timer, arrived, gen>>
      /\ UNCHANGED <<pending, buffer, overflow, started>> /\ owner' = Nobody
      /\ cmd.at = "replying" /\ cmd' = [cmd EXCEPT !.at = "waiting", !.target = owner]
    BY DEF CommandCancels, SameScenario
<1>2. Messages' = Messages /\ Guards' = Guards BY <1>1, ChosenKept
<1>3. ScalarsOK' /\ gen' \in Nat /\ gen <= gen' /\ ContentsOK'
    BY <1>1, <1>2 DEF Basics, ScalarsOK, ContentsOK, TaskIds, SameScenario
<1>4. CommandOK'
    BY <1>1, <1>2 DEF Basics, CommandOK, ScalarsOK, TaskIds, SameScenario
<1>5. OwnerLive' BY <1>1 DEF OwnerLive
<1>6. CASE owner = Nobody
  <2>1. UNCHANGED task /\ owner' \in {owner, Nobody} BY <1>1, <1>6 DEF CommandCancels
  <2> QED BY <1>1, <1>3, <1>4, <2>1, Undisturbed
<1>7. CASE owner # Nobody
  <2> DEFINE e == IF task[owner].at = "handoff" THEN task[owner].input ELSE <<>>
  <2>1. /\ TasksOK' /\ owner \in TaskIds /\ Live(owner) /\ KeptBut({owner})
        /\ \E next \in CancelledTo(task[owner].at) : Becomes(owner, next, e, <<>>)
      BY <1>7, CommandCancelsTasks
  <2>2. PICK at \in CancelledTo(task[owner].at) : Becomes(owner, at, e, <<>>) BY <2>1
  <2>3. /\ at \in Stages \ {"none"} /\ task[owner].at # "none"
        /\ (at \notin {"starting", "setup", "handoff"} => e = <<>>)
        /\ at \notin {"starting", "setup"}
      BY <2>1, TaskFields, CancelledToIs DEF Live, Basics
  <2> HIDE DEF e
  <2>4. Allotted' /\ HeldWhere' BY <2>1, <2>2, <2>3, OneMoved
  <2> QED BY <1>1, <1>3, <1>4, <1>5, <2>1, <2>4, ChosenKept DEF Basics
<1> QED BY <1>6, <1>7

LEMMA CommandDrainsBasics ==
    ASSUME Basics, SignalsOK', CommandDrains PROVE Basics'
<1>1. /\ SameScenario /\ UNCHANGED <<slot, arrived, gen>>
      /\ UNCHANGED <<overflow, started>> /\ pending' = <<>> /\ buffer' = FlushedBuffer
      /\ timer' = FALSE /\ cmd' = [Idle EXCEPT !.done = cmd.done, !.failed = cmd.failed]
    BY DEF CommandDrains, SameScenario
<1>2. Messages' = Messages /\ Guards' = Guards BY <1>1, ChosenKept
<1>3. timer' \in BOOLEAN /\ <<>> \in Seq(Messages) BY <1>1, EmptySeq
<1>4. ContentsOK' BY <1>1, <1>2, <1>3, Flushed DEF Basics, ContentsOK
<1>5. 0 \in Guards BY TrafficOK, Bounds DEF Basics, Guards
<1>6. CommandOK'
  <2>1. cmd' = [at |-> "idle", id |-> 0, saved |-> 0, target |-> 0,
                done |-> cmd.done, failed |-> cmd.failed]
      BY <1>1 DEF Idle
  <2>2. cmd.done \in 0..Len(script) /\ cmd.failed \in BOOLEAN BY DEF Basics, CommandOK
  <2>3. 0 \in Guards' /\ script' = script /\ 0 \in (TaskIds \union {Nobody})'
      BY <1>1, <1>2, <1>5 DEF SameScenario, Nobody
  <2> QED BY <2>1, <2>2, <2>3 DEF CommandOK
<1>7. CASE FlushedPending # <<>>
  <2>1. /\ NextTask \in TaskIds /\ guard' = NextTask /\ owner' = NextTask
        /\ task' = [task EXCEPT ![NextTask] = NewTask(FlushedPending, NextTask)]
      BY <1>7 DEF CommandDrains, StartProcessing
  <2>2. NextTask \in Nat /\ NextTask \in Guards
      BY <2>1, TrafficOK, Bounds DEF TaskIds, Guards, Basics
  <2>3. FlushedPending \in Seq(Messages) BY Flushed DEF Basics
  <2>4. TasksOK' /\ KeptBut({NextTask}) /\ Born(NextTask, FlushedPending, NextTask)
      BY <1>1, <2>1, <2>2, <2>3, Takeover
  <2>5. ScalarsOK'
      BY <1>1, <1>2, <1>3, <2>1, <2>2 DEF Basics, ScalarsOK, TaskIds, SameScenario
  <2>6. {} \in SUBSET TaskIds /\ {} \union {NextTask} = {NextTask} OBVIOUS
  <2> QED BY <1>1, <1>4, <1>6, <2>1, <2>2, <2>3, <2>4, <2>5, <2>6, TakenOver
<1>8. CASE FlushedPending = <<>>
  <2>1. guard' \in {guard, 0} /\ UNCHANGED <<owner, task>>
      BY <1>8 DEF CommandDrains
  <2>2. ScalarsOK' /\ gen' \in Nat /\ gen <= gen'
      BY <1>1, <1>2, <1>3, <1>5, <2>1 DEF Basics, ScalarsOK, TaskIds, SameScenario
  <2> QED BY <1>1, <1>4, <1>6, <2>1, <2>2, Undisturbed
<1> QED BY <1>7, <1>8

LEMMA CommandFailsBasics ==
    ASSUME Basics, SignalsOK', CommandFails PROVE Basics'
<1>1. /\ SameScenario /\ UNCHANGED <<task, slot, owner, timer, arrived, gen>>
      /\ UNCHANGED <<pending, buffer, overflow, started>>
      /\ guard' \in {guard, cmd.saved, 0}
      /\ cmd' = [Idle EXCEPT !.done = cmd.done, !.failed = TRUE]
    BY DEF CommandFails, SameScenario
<1>2. Messages' = Messages /\ Guards' = Guards BY <1>1, ChosenKept
<1>3. 0 \in Guards BY TrafficOK, Bounds DEF Basics, Guards
<1>4. ScalarsOK' /\ gen' \in Nat /\ gen <= gen' /\ ContentsOK'
    BY <1>1, <1>2, <1>3
       DEF Basics, ScalarsOK, ContentsOK, CommandOK, TaskIds, SameScenario
<1>5. CommandOK'
  <2>1. cmd' = [at |-> "idle", id |-> 0, saved |-> 0, target |-> 0,
                done |-> cmd.done, failed |-> TRUE]
      BY <1>1 DEF Idle
  <2>2. cmd.done \in 0..Len(script) /\ TRUE \in BOOLEAN BY DEF Basics, CommandOK
  <2>3. 0 \in Guards' /\ script' = script /\ 0 \in (TaskIds \union {Nobody})'
      BY <1>1, <1>2, <1>3 DEF SameScenario, Nobody
  <2> QED BY <2>1, <2>2, <2>3 DEF CommandOK
<1> QED BY <1>1, <1>4, <1>5, Undisturbed

\* Every reachable state is of these types, and the lock of a live owner only.
LEMMA BasicsStep == Basics /\ [Next]_vars => Basics'
<1> SUFFICES ASSUME Basics, [Next]_vars PROVE Basics' OBVIOUS
<1>0. SignalsOK' BY SignalsStep
<1>1. ASSUME NEW m \in Messages, ReceiveIdle(m) PROVE Basics'
    BY <1>0, <1>1, ReceiveIdleBasics
<1>2. ASSUME NEW m \in Messages, ReceivePhoto(m) PROVE Basics'
    BY <1>0, <1>2, ReceivePhotoBasics
<1>3. ASSUME NEW m \in Messages, ReceiveText(m) PROVE Basics'
    BY <1>0, <1>3, ReceiveTextBasics
<1>4. ASSUME NEW m \in Messages, ReceiveQueue(m) PROVE Basics'
    BY <1>0, <1>4, ReceiveQueueBasics
<1>5. CASE TimerFires BY <1>0, <1>5, TimerFiresBasics
<1>6. ASSUME NEW t \in TaskIds, TaskStep(t) \/ Peek(t) PROVE Basics'
    BY <1>0, <1>6, ClaimBasics, BusyBasics, RunStartsBasics, LoopEndsBasics,
       RunTimesOutBasics, PeekBasics, FollowUpBasics, RunEndsBasics,
       RunFailsBasics, DeliverBasics, HandOffBasics, UnwindBasics, CleanupBasics
       DEF TaskStep
<1>7. CASE CommandArrives BY <1>0, <1>7, CommandArrivesBasics
<1>8. CASE CommandContinues
    BY <1>0, <1>8, CommandHandledBasics, CommandCancelsBasics, CommandDrainsBasics,
       CommandFailsBasics DEF CommandContinues
<1>9. CASE UNCHANGED vars
  <2>1. SameScenario /\ UNCHANGED <<task, gen, owner, cmd>> /\ Messages' = Messages
      BY <1>9 DEF vars, SameScenario, Messages
  <2>2. gen' \in Nat /\ gen <= gen' /\ owner' \in {owner, Nobody}
      BY <2>1 DEF Basics, ScalarsOK
  <2>3. ScalarsOK' /\ ContentsOK' /\ CommandOK'
      BY <1>9, <2>1, CommandKept
         DEF vars, Basics, ScalarsOK, ContentsOK, Guards, TaskIds
  <2> QED BY <1>0, <2>1, <2>2, <2>3, Undisturbed
<1> QED BY <1>1, <1>2, <1>3, <1>4, <1>5, <1>6, <1>7, <1>8, <1>9 DEF Next

\* The types hold whatever the chat sends: nothing the tasks, the timers and
\* the commands hand to each other is ever of the wrong kind, and the recorded
\* owner of a session is always alive.
THEOREM SessionTypes == Spec => []SessionTypeOK
<1>1. Spec => []Basics BY InitBasics, BasicsStep, PTL DEF Spec
<1> QED BY <1>1, BasicsTypes, PTL


----------------------------------------------------------------------------
(* Where the messages are.                                                 *)

AtPending == <<0, "pending">>
AtBuffer == <<0, "buffer">>
AtOverflow == <<0, "overflow">>
AtStarted == <<0, "started">>
AtInput(t) == <<t, "input">>
AtInterrupt(t) == <<t, "interrupt">>
AtAgent(a) == <<a, "agent">>
Places == {AtPending, AtBuffer, AtOverflow, AtStarted}
            \union {AtInput(t) : t \in TaskIds} \union {AtInterrupt(t) : t \in TaskIds}
            \union {AtAgent(a) : a \in Agents}

Held(p) ==
    IF p = AtPending THEN pending ELSE IF p = AtBuffer THEN buffer
    ELSE IF p = AtOverflow THEN overflow ELSE IF p = AtStarted THEN started
    ELSE IF p[2] = "input" THEN task[p[1]].input
    ELSE IF p[2] = "interrupt" THEN task[p[1]].interrupt ELSE signal[p[1]].interrupt
Contents == [p \in Places |-> Held(p)]

All(C) == UNION {Range(C[p]) : p \in Places}

\* No message is at two places, nor twice at one.
Distinct(C) ==
    /\ \A p \in Places : IsInjective(C[p])
    /\ \A p, q \in Places : p # q => Range(C[p]) \intersect Range(C[q]) = {}

\* What the steps do to the contents: pour one place into another, add a
\* message, leave some of one place, move the head of one place to another.
Poured(C, s, d) ==
    [p \in Places |-> IF p = s THEN <<>> ELSE IF p = d THEN C[d] \o C[s] ELSE C[p]]
Added(C, d, x) == [p \in Places |-> IF p = d THEN C[d] \o <<x>> ELSE C[p]]
Left(C, d, e) == [p \in Places |-> IF p = d THEN e ELSE C[p]]
Beheading(C, s, d) ==
    [p \in Places |-> IF p = s THEN Tail(C[s])
                      ELSE IF p = d THEN C[d] \o <<Head(C[s])>> ELSE C[p]]

LEMMA PlacesApart ==
    /\ AtPending # AtBuffer /\ AtPending # AtOverflow /\ AtPending # AtStarted
    /\ AtBuffer # AtOverflow /\ AtBuffer # AtStarted /\ AtOverflow # AtStarted
    /\ \A t \in TaskIds, p \in {AtPending, AtBuffer, AtOverflow, AtStarted} :
         AtInput(t) # p /\ AtInterrupt(t) # p
    /\ \A a \in Agents, p \in {AtPending, AtBuffer, AtOverflow, AtStarted} : AtAgent(a) # p
    /\ \A t, u \in TaskIds : /\ AtInput(t) # AtInterrupt(u)
                             /\ AtInput(t) = AtInput(u) => t = u
                             /\ AtInterrupt(t) = AtInterrupt(u) => t = u
    /\ \A a \in Agents, t \in TaskIds : AtAgent(a) # AtInput(t) /\ AtAgent(a) # AtInterrupt(t)
    /\ \A a, b \in Agents : AtAgent(a) = AtAgent(b) => a = b
    /\ {AtPending, AtBuffer, AtOverflow, AtStarted} \subseteq Places
    /\ \A t \in TaskIds : AtInput(t) \in Places /\ AtInterrupt(t) \in Places
    /\ \A a \in Agents : AtAgent(a) \in Places
<1>1. ASSUME NEW a, NEW x
      PROVE  /\ AtAgent(a) # <<x, "pending">> /\ AtAgent(a) # <<x, "buffer">>
             /\ AtAgent(a) # <<x, "overflow">> /\ AtAgent(a) # <<x, "started">>
             /\ AtAgent(a) # <<x, "input">> /\ AtAgent(a) # <<x, "interrupt">>
             /\ \A b : AtAgent(a) = AtAgent(b) => a = b
    BY DEF AtAgent
<1>2. \A a \in Agents : AtAgent(a) \in Places BY DEF Places
<1> QED BY <1>1, <1>2, Bounds
        DEF AtPending, AtBuffer, AtOverflow, AtStarted, AtInput, AtInterrupt, Places, TaskIds

LEMMA ContentsAre ==
    /\ Contents[AtPending] = pending /\ Contents[AtBuffer] = buffer
    /\ Contents[AtOverflow] = overflow /\ Contents[AtStarted] = started
    /\ \A t \in TaskIds : /\ Contents[AtInput(t)] = task[t].input
                          /\ Contents[AtInterrupt(t)] = task[t].interrupt
    /\ \A a \in Agents : Contents[AtAgent(a)] = signal[a].interrupt
<1>1. \A p \in Places : Contents[p] = Held(p) BY DEF Contents
<1>2. /\ Held(AtPending) = pending /\ Held(AtBuffer) = buffer
      /\ Held(AtOverflow) = overflow /\ Held(AtStarted) = started
    BY PlacesApart DEF Held
<1>3. ASSUME NEW t \in TaskIds
      PROVE  Held(AtInput(t)) = task[t].input /\ Held(AtInterrupt(t)) = task[t].interrupt
  <2>1. /\ AtInput(t)[1] = t /\ AtInput(t)[2] = "input"
        /\ AtInterrupt(t)[1] = t /\ AtInterrupt(t)[2] = "interrupt"
      BY DEF AtInput, AtInterrupt
  <2>2. \A p \in {AtPending, AtBuffer, AtOverflow, AtStarted} :
            AtInput(t) # p /\ AtInterrupt(t) # p
      BY PlacesApart
  <2> QED BY <2>1, <2>2 DEF Held
<1>4. ASSUME NEW a \in Agents PROVE Held(AtAgent(a)) = signal[a].interrupt
  <2>1. AtAgent(a)[1] = a /\ AtAgent(a)[2] = "agent" BY DEF AtAgent
  <2>2. \A p \in {AtPending, AtBuffer, AtOverflow, AtStarted} : AtAgent(a) # p
      BY PlacesApart
  <2> QED BY <2>1, <2>2 DEF Held
<1> QED BY <1>1, <1>2, <1>3, <1>4, PlacesApart

\* The contents are known when they are known at every place.
LEMMA ContentsBecome ==
    ASSUME NEW D, D = [p \in Places |-> D[p]],
           D[AtPending] = pending', D[AtBuffer] = buffer',
           D[AtOverflow] = overflow', D[AtStarted] = started',
           \A t \in TaskIds : /\ D[AtInput(t)] = task'[t].input
                              /\ D[AtInterrupt(t)] = task'[t].interrupt,
           \A a \in Agents : D[AtAgent(a)] = signal'[a].interrupt
    PROVE  Contents' = D
<1>1. (/\ Contents[AtPending] = pending /\ Contents[AtBuffer] = buffer
       /\ Contents[AtOverflow] = overflow /\ Contents[AtStarted] = started
       /\ \A t \in TaskIds : /\ Contents[AtInput(t)] = task[t].input
                             /\ Contents[AtInterrupt(t)] = task[t].interrupt
       /\ \A a \in Agents : Contents[AtAgent(a)] = signal[a].interrupt)'
    BY ContentsAre, PTL
<1>2. Contents' = [p \in Places |-> Contents'[p]] BY DEF Contents, Places, TaskIds, Agents
<1>0. Agents' = Agents BY DEF Agents, TaskIds
<1>3. \A p \in Places : Contents'[p] = D[p]
    BY <1>0, <1>1 DEF Places, TaskIds
<1> QED BY <1>2, <1>3

LEMMA ContentsOf ==
    ASSUME Basics
    PROVE  Contents \in [Places -> Seq(Messages)]
<1>1. \A p \in Places : Contents[p] \in Seq(Messages)
    BY ContentsAre, TaskFields, SignalFields DEF Places, Basics, ContentsOK
<1> QED BY <1>1 DEF Contents

LEMMA PouredDistinct ==
    ASSUME NEW S, NEW C \in [Places -> Seq(S)], Distinct(C),
           NEW s \in Places, NEW d \in Places, s # d
    PROVE  /\ Poured(C, s, d) \in [Places -> Seq(S)] /\ Distinct(Poured(C, s, d))
           /\ All(Poured(C, s, d)) = All(C)
<1> DEFINE D == Poured(C, s, d)
<1>1. /\ D[s] = <<>> /\ D[d] = C[d] \o C[s]
      /\ \A p \in Places : p # s /\ p # d => D[p] = C[p]
      /\ D = [p \in Places |-> D[p]]
    BY DEF Poured
<1>2. /\ C[d] \o C[s] \in Seq(S) /\ Range(C[d] \o C[s]) = Range(C[d]) \union Range(C[s])
      /\ IsInjective(C[d] \o C[s])
    BY Joined, JoinedInjective DEF Distinct
<1>3. <<>> \in Seq(S) /\ Range(<<>>) = {} /\ IsInjective(<<>>)
    BY EmptySeq, RangeEmpty
<1> HIDE DEF D
<1>4. /\ \A p \in Places : D[p] \in Seq(S) /\ IsInjective(D[p])
      /\ Range(D[s]) = {} /\ Range(D[d]) = Range(C[d]) \union Range(C[s])
      /\ \A p \in Places : p # s /\ p # d => Range(D[p]) = Range(C[p])
    BY <1>1, <1>2, <1>3 DEF Distinct
<1>5. \A p, q \in Places : p # q => Range(D[p]) \intersect Range(D[q]) = {}
    BY <1>4 DEF Distinct
<1>6. \A x : (\E p \in Places : x \in Range(D[p])) <=> (\E p \in Places : x \in Range(C[p]))
    BY <1>4
<1>7. All(D) = All(C) BY <1>6 DEF All
<1> QED BY <1>1, <1>4, <1>5, <1>7 DEF Distinct, D

LEMMA AddedDistinct ==
    ASSUME NEW S, NEW C \in [Places -> Seq(S)], Distinct(C),
           NEW d \in Places, NEW x \in S, x \notin All(C)
    PROVE  /\ Added(C, d, x) \in [Places -> Seq(S)] /\ Distinct(Added(C, d, x))
           /\ All(Added(C, d, x)) = All(C) \union {x}
<1> DEFINE D == Added(C, d, x)
<1>1. /\ D[d] = C[d] \o <<x>> /\ \A p \in Places : p # d => D[p] = C[p]
      /\ D = [p \in Places |-> D[p]]
    BY DEF Added
<1>2. <<x>> \in Seq(S) /\ Range(<<x>>) = {x} /\ IsInjective(<<x>>) BY Single
<1>3. \A p \in Places : x \notin Range(C[p]) BY DEF All
<1>4. /\ C[d] \o <<x>> \in Seq(S) /\ Range(C[d] \o <<x>>) = Range(C[d]) \union {x}
      /\ IsInjective(C[d] \o <<x>>)
  <2> DEFINE e == <<x>>
  <2> HIDE DEF e
  <2>1. e \in Seq(S) /\ Range(e) = {x} /\ IsInjective(e) BY <1>2 DEF e
  <2>2. C[d] \in Seq(S) /\ IsInjective(C[d]) /\ Range(C[d]) \intersect Range(e) = {}
      BY <1>3, <2>1 DEF Distinct
  <2>3. C[d] \o e \in Seq(S) /\ Range(C[d] \o e) = Range(C[d]) \union Range(e)
      BY <2>1, <2>2, Joined
  <2>4. IsInjective(C[d] \o e) BY <2>1, <2>2, JoinedInjective
  <2> QED BY <2>1, <2>3, <2>4 DEF e
<1> HIDE DEF D
<1>5. /\ \A p \in Places : D[p] \in Seq(S) /\ IsInjective(D[p])
      /\ Range(D[d]) = Range(C[d]) \union {x}
      /\ \A p \in Places : p # d => Range(D[p]) = Range(C[p])
    BY <1>1, <1>4 DEF Distinct
<1>6. \A p, q \in Places : p # q => Range(D[p]) \intersect Range(D[q]) = {}
    BY <1>3, <1>5 DEF Distinct
<1>7. \A y : (\E p \in Places : y \in Range(D[p]))
               <=> (\E p \in Places : y \in Range(C[p])) \/ y = x
    BY <1>5
<1>8. All(D) = All(C) \union {x} BY <1>7 DEF All
<1> QED BY <1>1, <1>5, <1>6, <1>8 DEF Distinct, D

LEMMA LeftDistinct ==
    ASSUME NEW S, NEW C \in [Places -> Seq(S)], Distinct(C), NEW d \in Places,
           NEW e \in Seq(S), IsInjective(e), Range(e) \subseteq Range(C[d])
    PROVE  /\ Left(C, d, e) \in [Places -> Seq(S)] /\ Distinct(Left(C, d, e))
           /\ All(Left(C, d, e)) \subseteq All(C)
           /\ All(C) \subseteq All(Left(C, d, e)) \union (Range(C[d]) \ Range(e))
<1> DEFINE D == Left(C, d, e)
<1>1. /\ D[d] = e /\ \A p \in Places : p # d => D[p] = C[p]
      /\ D = [p \in Places |-> D[p]]
    BY DEF Left
<1> HIDE DEF D
<1>2. /\ \A p \in Places : D[p] \in Seq(S) /\ IsInjective(D[p])
      /\ \A p \in Places : Range(D[p]) \subseteq Range(C[p])
      /\ \A p \in Places : p # d => Range(D[p]) = Range(C[p])
    BY <1>1 DEF Distinct
<1>3. \A p, q \in Places : p # q => Range(D[p]) \intersect Range(D[q]) = {}
    BY <1>2 DEF Distinct
<1>4. All(D) \subseteq All(C) BY <1>2 DEF All
<1>5. All(C) \subseteq All(D) \union (Range(C[d]) \ Range(e))
    BY <1>1, <1>2 DEF All
<1> QED BY <1>1, <1>2, <1>3, <1>4, <1>5 DEF Distinct, D

LEMMA BeheadingDistinct ==
    ASSUME NEW S, NEW C \in [Places -> Seq(S)], Distinct(C),
           NEW s \in Places, NEW d \in Places, s # d, C[s] # <<>>
    PROVE  /\ Beheading(C, s, d) \in [Places -> Seq(S)] /\ Distinct(Beheading(C, s, d))
           /\ All(Beheading(C, s, d)) = All(C)
<1> DEFINE h == Head(C[s])
           D == Beheading(C, s, d)
           L == Left(C, s, Tail(C[s]))
<1>1. /\ h \in S /\ Tail(C[s]) \in Seq(S) /\ Range(C[s]) = {h} \union Range(Tail(C[s]))
      /\ IsInjective(Tail(C[s])) /\ h \notin Range(Tail(C[s]))
    BY Beheaded DEF Distinct
<1>2. /\ L \in [Places -> Seq(S)] /\ Distinct(L) /\ All(L) \subseteq All(C)
      /\ All(C) \subseteq All(L) \union (Range(C[s]) \ Range(Tail(C[s])))
    BY <1>1, LeftDistinct
<1>3. h \notin All(L) /\ h \in All(C)
  <2>1. \A p \in Places : L[p] = IF p = s THEN Tail(C[s]) ELSE C[p] BY DEF Left
  <2>2. \A p \in Places : h \notin Range(L[p]) BY <1>1, <2>1 DEF Distinct
  <2> QED BY <1>1, <2>2 DEF All
<1>4. D = Added(L, d, h)
  <2>1. \A p \in Places : L[p] = IF p = s THEN Tail(C[s]) ELSE C[p] BY DEF Left
  <2>2. \A p \in Places : D[p] = Added(L, d, h)[p] BY <2>1 DEF Beheading, Added
  <2> QED BY <2>2 DEF Beheading, Added
<1> HIDE DEF h, D, L
<1>5. D \in [Places -> Seq(S)] /\ Distinct(D) /\ All(D) = All(L) \union {h}
  <2>1. h \in S BY <1>1
  <2>2. L \in [Places -> Seq(S)] /\ Distinct(L) /\ h \notin All(L) BY <1>2, <1>3
  <2>3. /\ Added(L, d, h) \in [Places -> Seq(S)] /\ Distinct(Added(L, d, h))
        /\ All(Added(L, d, h)) = All(L) \union {h}
      BY <2>1, <2>2, AddedDistinct
  <2> QED BY <1>4, <2>3
<1>6. All(D) = All(C) BY <1>1, <1>2, <1>3, <1>5
<1> QED BY <1>5, <1>6 DEF D


----------------------------------------------------------------------------
(* Every message received is at one place, or was let go.                  *)

DropsOK == dropped = [why \in Reasons |-> dropped[why]]
Placed ==
    /\ Distinct(Contents) /\ All(Contents) \subseteq 1..arrived
    /\ 1..arrived \subseteq All(Contents) \union Gone
    /\ DropsOK

LEMMA Dropping ==
    ASSUME DropsOK, NEW why \in Reasons, NEW M, Drop(why, M)
    PROVE  /\ DropsOK' /\ Gone' = Gone \union M
           /\ dropped'[why] = dropped[why] \union M
           /\ \A w \in Reasons \ {why} : dropped'[w] = dropped[w]
<1>1. /\ dropped' = [w \in Reasons |-> dropped'[w]]
      /\ dropped'[why] = dropped[why] \union M
      /\ \A w \in Reasons \ {why} : dropped'[w] = dropped[w]
    BY DEF DropsOK, Drop
<1>2. DropsOK' BY <1>1 DEF DropsOK, Reasons
<1>3. \A x : (\E w \in Reasons : x \in dropped'[w])
               <=> (\E w \in Reasons : x \in dropped[w]) \/ x \in M
    BY <1>1
<1>4. Gone' = Gone \union M BY <1>3 DEF Gone, Reasons
<1> QED BY <1>1, <1>2, <1>4

LEMMA NotDropping ==
    ASSUME DropsOK, UNCHANGED dropped
    PROVE  DropsOK' /\ Gone' = Gone
BY DEF DropsOK, Gone, Reasons

\* Nothing arrives, and what leaves the contents is let go.
LEMMA StillPlaced ==
    ASSUME Placed, UNCHANGED arrived, DropsOK', Gone \subseteq Gone',
           NEW D, Contents' = D, Distinct(D), All(D) \subseteq All(Contents),
           All(Contents) \subseteq All(D) \union Gone'
    PROVE  Placed'
<1>1. Distinct(Contents)' /\ All(Contents)' = All(D)
    BY DEF Distinct, All, Places, TaskIds, Agents
<1>2. /\ All(Contents) \subseteq 1..arrived
      /\ 1..arrived \subseteq All(Contents) \union Gone
    BY DEF Placed
<1> QED BY <1>1, <1>2 DEF Placed

\* A message arrives.
LEMMA NowPlaced ==
    ASSUME Placed, NEW m, m = arrived + 1, arrived' = m, arrived \in Nat,
           DropsOK', Gone \subseteq Gone',
           NEW D, Contents' = D, Distinct(D), All(D) \subseteq All(Contents) \union {m},
           All(Contents) \union {m} \subseteq All(D) \union Gone'
    PROVE  Placed'
<1>1. Distinct(Contents)' /\ All(Contents)' = All(D)
    BY DEF Distinct, All, Places, TaskIds, Agents
<1>2. /\ All(Contents) \subseteq 1..arrived
      /\ 1..arrived \subseteq All(Contents) \union Gone
    BY DEF Placed
<1>3. 1..arrived' = 1..arrived \union {m} OBVIOUS
<1>4. All(Contents)' \subseteq 1..arrived' /\ 1..arrived' \subseteq All(Contents)' \union Gone'
    BY <1>1, <1>2, <1>3
<1> QED BY <1>1, <1>4 DEF Placed

\* A message that arrives is at no place yet.
LEMMA Unplaced ==
    ASSUME Basics, Placed, NEW m \in Messages, Receive(m)
    PROVE  m \notin All(Contents) /\ arrived \in Nat /\ m = arrived + 1 /\ arrived' = m
BY ReceiveScalars DEF Basics, ScalarsOK, Placed, Receive

\* The pieces of Basics and Placed that the lemmas on contents ask for.
LEMMA Known ==
    ASSUME Basics, Placed
    PROVE  /\ Contents \in [Places -> Seq(Messages)] /\ Distinct(Contents)
           /\ DropsOK /\ ContentsOK /\ TasksOK
           /\ \A p \in Places : Contents[p] \in Seq(Messages)
BY ContentsOf DEF Basics, Placed


\* What the contents are at each place after a pour, an addition, and so on.
LEMMA PouredAt ==
    ASSUME NEW C, NEW s \in Places, NEW d \in Places, s # d
    PROVE  /\ Poured(C, s, d) = [p \in Places |-> Poured(C, s, d)[p]]
           /\ Poured(C, s, d)[s] = <<>> /\ Poured(C, s, d)[d] = C[d] \o C[s]
           /\ \A p \in Places \ {s, d} : Poured(C, s, d)[p] = C[p]
BY DEF Poured

LEMMA AddedAt ==
    ASSUME NEW C, NEW d \in Places, NEW x
    PROVE  /\ Added(C, d, x) = [p \in Places |-> Added(C, d, x)[p]]
           /\ Added(C, d, x)[d] = C[d] \o <<x>>
           /\ \A p \in Places \ {d} : Added(C, d, x)[p] = C[p]
BY DEF Added

LEMMA LeftAt ==
    ASSUME NEW C, NEW d \in Places, NEW e
    PROVE  /\ Left(C, d, e) = [p \in Places |-> Left(C, d, e)[p]]
           /\ Left(C, d, e)[d] = e
           /\ \A p \in Places \ {d} : Left(C, d, e)[p] = C[p]
BY DEF Left

LEMMA BeheadingAt ==
    ASSUME NEW C, NEW s \in Places, NEW d \in Places, s # d
    PROVE  /\ Beheading(C, s, d) = [p \in Places |-> Beheading(C, s, d)[p]]
           /\ Beheading(C, s, d)[s] = Tail(C[s])
           /\ Beheading(C, s, d)[d] = C[d] \o <<Head(C[s])>>
           /\ \A p \in Places \ {s, d} : Beheading(C, s, d)[p] = C[p]
BY DEF Beheading

\* The contents after a flush of the debounce buffer.
FlushedContents == IF CanFlush THEN Poured(Contents, AtBuffer, AtPending) ELSE Contents

LEMMA FlushIs ==
    ASSUME Basics, Placed
    PROVE  /\ FlushedContents \in [Places -> Seq(Messages)] /\ Distinct(FlushedContents)
           /\ All(FlushedContents) = All(Contents)
           /\ FlushedContents[AtPending] = FlushedPending
           /\ FlushedContents[AtBuffer] = FlushedBuffer
           /\ \A p \in Places \ {AtPending, AtBuffer} : FlushedContents[p] = Contents[p]
<1>1. AtBuffer \in Places /\ AtPending \in Places /\ AtBuffer # AtPending
    BY PlacesApart
<1>2. CASE CanFlush
  <2> DEFINE D == Poured(Contents, AtBuffer, AtPending)
  <2>1. D \in [Places -> Seq(Messages)] /\ Distinct(D) /\ All(D) = All(Contents)
      BY <1>1, Known, PouredDistinct
  <2>2. /\ D[AtBuffer] = <<>> /\ D[AtPending] = Contents[AtPending] \o Contents[AtBuffer]
        /\ \A p \in Places \ {AtBuffer, AtPending} : D[p] = Contents[p]
      BY <1>1, PouredAt
  <2>3. FlushedPending = pending \o buffer /\ FlushedBuffer = <<>>
      BY <1>2, Flushed, Known DEF FlushedBuffer
  <2>4. D = FlushedContents BY <1>2 DEF FlushedContents
  <2> HIDE DEF D
  <2> QED BY <2>1, <2>2, <2>3, <2>4, ContentsAre
<1>3. CASE ~CanFlush
    BY <1>3, Known, Flushed, ContentsAre DEF FlushedContents, FlushedBuffer
<1> QED BY <1>2, <1>3

LEMMA SameContents ==
    ASSUME Placed, UNCHANGED <<pending, buffer, overflow, started, arrived, dropped, signal>>,
           \A t \in TaskIds : task'[t].input = task[t].input
                              /\ task'[t].interrupt = task[t].interrupt
    PROVE  Placed'
<1>1. Contents = [p \in Places |-> Contents[p]] BY DEF Contents
<1>2. Contents' = Contents BY <1>1, ContentsAre, ContentsBecome
<1>3. DropsOK' /\ Gone' = Gone BY NotDropping DEF Placed
<1> QED BY <1>2, <1>3, StillPlaced DEF Placed

LEMMA RunStartsPlaced ==
    ASSUME Basics, Placed, NEW t \in TaskIds, RunStarts(t) PROVE Placed'
<1> DEFINE D == Poured(Contents, AtInput(t), AtStarted)
<1>1. /\ UNCHANGED <<pending, buffer, overflow, arrived, dropped, signal>>
      /\ started' = started \o task[t].input
    BY DEF RunStarts
<1>2. /\ task'[t].input = <<>> /\ task'[t].interrupt = task[t].interrupt
      /\ \A u \in TaskIds : u # t => task'[u] = task[u]
    BY RunStartsTasks DEF Becomes, KeptBut
<1>3. AtInput(t) \in Places /\ AtStarted \in Places /\ AtInput(t) # AtStarted
    BY PlacesApart
<1>4. D \in [Places -> Seq(Messages)] /\ Distinct(D) /\ All(D) = All(Contents)
    BY <1>3, Known, PouredDistinct
<1>5. /\ D = [p \in Places |-> D[p]]
      /\ D[AtInput(t)] = <<>> /\ D[AtStarted] = started'
      /\ \A p \in Places \ {AtInput(t), AtStarted} : D[p] = Contents[p]
  <2>1. /\ D = [p \in Places |-> D[p]]
        /\ D[AtInput(t)] = <<>> /\ D[AtStarted] = Contents[AtStarted] \o Contents[AtInput(t)]
        /\ \A p \in Places \ {AtInput(t), AtStarted} : D[p] = Contents[p]
      BY <1>3, PouredAt
  <2> HIDE DEF D
  <2> QED BY <1>1, <2>1, ContentsAre
<1> HIDE DEF D
<1>6. Contents' = D
  <2>1. D[AtPending] = pending' /\ D[AtBuffer] = buffer' /\ D[AtOverflow] = overflow'
      BY <1>1, <1>5, PlacesApart, ContentsAre
  <2>2. \A u \in TaskIds : D[AtInput(u)] = task'[u].input /\ D[AtInterrupt(u)] = task'[u].interrupt
      BY <1>2, <1>5, PlacesApart, ContentsAre
  <2>3. \A a \in Agents : D[AtAgent(a)] = signal'[a].interrupt
      BY <1>1, <1>3, <1>5, PlacesApart, ContentsAre
  <2> QED BY <1>5, <2>1, <2>2, <2>3, ContentsBecome
<1>7. DropsOK' /\ Gone' = Gone BY <1>1, NotDropping DEF Placed
<1> QED BY <1>1, <1>4, <1>6, <1>7, StillPlaced


LEMMA MessageAdded ==
    ASSUME Basics, Placed, NEW m \in Messages, Receive(m), DropsOK', Gone \subseteq Gone',
           NEW C, C \in [Places -> Seq(Messages)], Distinct(C), All(C) \subseteq All(Contents),
           All(Contents) \subseteq All(C) \union Gone',
           NEW d \in Places, Contents' = Added(C, d, m)
    PROVE  Placed'
<1>1. m \notin All(Contents) /\ arrived \in Nat /\ m = arrived + 1 /\ arrived' = m
    BY Unplaced
<1> DEFINE D == Added(C, d, m)
<1>2. Distinct(D) /\ All(D) = All(C) \union {m}
    BY <1>1, AddedDistinct
<1>3. Contents' = D OBVIOUS
<1> HIDE DEF D
<1>4. /\ All(D) \subseteq All(Contents) \union {m}
      /\ All(Contents) \union {m} \subseteq All(D) \union Gone'
    BY <1>2
<1> QED BY <1>1, <1>2, <1>3, <1>4, NowPlaced

\* Task n, which is new, is given e.
LEMMA BornHolds ==
    ASSUME Basics, NEW e, NEW g, Born(NextTask, e, g)
    PROVE  /\ NextTask \in TaskIds /\ task[NextTask].input = <<>>
           /\ task[NextTask].interrupt = <<>>
           /\ task'[NextTask].input = e /\ task'[NextTask].interrupt = <<>>
           /\ task'[NextTask].at = "starting" /\ task'[NextTask].gd = g
           /\ task'[NextTask].agent = NoAgent
<1>1. NextTask \in TaskIds /\ task[NextTask].at = "none" /\ task'[NextTask] = NewTask(e, g)
    BY DEF Born
<1> QED BY <1>1, NewTaskIs DEF Basics, HeldWhere

LEMMA ReceiveIdlePlaced ==
    ASSUME Basics, Placed, NEW m \in Messages, ReceiveIdle(m) PROVE Placed'
<1> DEFINE n == NextTask
           D == Added(Contents, AtInput(n), m)
<1>1. /\ UNCHANGED <<pending, buffer, overflow, started, dropped, signal>> /\ Receive(m)
      /\ KeptBut({n}) /\ Born(n, <<m>>, n)
  <2>1. SignalsOK' BY SignalsStep DEF Next
  <2> QED BY <2>1, ReceiveIdleBasics, NeverStale DEF ReceiveIdle
<1>2. /\ n \in TaskIds /\ task[n].input = <<>> /\ task[n].interrupt = <<>>
      /\ task'[n].input = <<m>> /\ task'[n].interrupt = <<>>
    BY <1>1, BornHolds
<1>3. \A u \in TaskIds : u # n => task'[u] = task[u] BY <1>1 DEF KeptBut
<1> HIDE DEF n
<1>4. AtInput(n) \in Places BY <1>2, PlacesApart
<1>5. /\ D = [p \in Places |-> D[p]] /\ D[AtInput(n)] = <<m>>
      /\ \A p \in Places \ {AtInput(n)} : D[p] = Contents[p]
  <2>1. /\ D = [p \in Places |-> D[p]] /\ D[AtInput(n)] = Contents[AtInput(n)] \o <<m>>
        /\ \A p \in Places \ {AtInput(n)} : D[p] = Contents[p]
      BY <1>4, AddedAt
  <2>2. <<>> \o <<m>> = <<m>> BY Single, Joined
  <2> HIDE DEF D
  <2> QED BY <1>2, <2>1, <2>2, ContentsAre
<1> HIDE DEF D
<1>6. Contents' = D
  <2>1. /\ D[AtPending] = pending' /\ D[AtBuffer] = buffer'
        /\ D[AtOverflow] = overflow' /\ D[AtStarted] = started'
      BY <1>1, <1>2, <1>5, PlacesApart, ContentsAre
  <2>2. \A u \in TaskIds : D[AtInput(u)] = task'[u].input /\ D[AtInterrupt(u)] = task'[u].interrupt
      BY <1>2, <1>3, <1>5, PlacesApart, ContentsAre
  <2>3. \A a \in Agents : D[AtAgent(a)] = signal'[a].interrupt
      BY <1>1, <1>2, <1>5, PlacesApart, ContentsAre
  <2> QED BY <1>5, <2>1, <2>2, <2>3, ContentsBecome
<1>7. Contents \in [Places -> Seq(Messages)] /\ Distinct(Contents) BY Known
<1>8. DropsOK' /\ Gone' = Gone BY <1>1, NotDropping DEF Placed
<1> QED BY <1>1, <1>4, <1>6, <1>7, <1>8, MessageAdded DEF D

\* A message is added to C at one of the session's own places.
LEMMA AddedThere ==
    ASSUME Basics, Placed, NEW m \in Messages, Receive(m), UNCHANGED <<task, started>>,
           DropsOK', Gone \subseteq Gone',
           NEW C, C \in [Places -> Seq(Messages)], Distinct(C), All(C) \subseteq All(Contents),
           All(Contents) \subseteq All(C) \union Gone', C[AtStarted] = started,
           \A u \in TaskIds : C[AtInput(u)] = task[u].input /\ C[AtInterrupt(u)] = task[u].interrupt,
           \A a \in Agents : C[AtAgent(a)] = signal'[a].interrupt,
           NEW d \in {AtPending, AtBuffer, AtOverflow},
           pending' = IF d = AtPending THEN C[AtPending] \o <<m>> ELSE C[AtPending],
           buffer' = IF d = AtBuffer THEN C[AtBuffer] \o <<m>> ELSE C[AtBuffer],
           overflow' = IF d = AtOverflow THEN C[AtOverflow] \o <<m>> ELSE C[AtOverflow]
    PROVE  Placed'
<1> DEFINE D == Added(C, d, m)
<1>1. d \in Places BY PlacesApart
<1>2. /\ D = [p \in Places |-> D[p]] /\ D[d] = C[d] \o <<m>>
      /\ \A p \in Places \ {d} : D[p] = C[p]
    BY <1>1 DEF Added
<1> HIDE DEF D
<1>3. Contents' = D
  <2>1. D[AtPending] = pending' /\ D[AtBuffer] = buffer' /\ D[AtOverflow] = overflow'
      BY <1>2, PlacesApart
  <2>2. D[AtStarted] = started' BY <1>2, PlacesApart
  <2>3. \A u \in TaskIds : D[AtInput(u)] = task'[u].input /\ D[AtInterrupt(u)] = task'[u].interrupt
      BY <1>2, PlacesApart
  <2>4. \A a \in Agents : D[AtAgent(a)] = signal'[a].interrupt BY <1>2, PlacesApart
  <2> QED BY <1>2, <2>1, <2>2, <2>3, <2>4, ContentsBecome
<1> QED BY <1>1, <1>3, MessageAdded DEF D

\* Nothing but the message has come to the contents, or a burst was flushed.
LEMMA JustAdded ==
    ASSUME Basics, Placed, NEW m \in Messages, Receive(m),
           UNCHANGED <<dropped, task, started, signal>>,
           NEW C \in {Contents, FlushedContents},
           NEW d \in {AtPending, AtBuffer, AtOverflow},
           pending' = IF d = AtPending THEN C[AtPending] \o <<m>> ELSE C[AtPending],
           buffer' = IF d = AtBuffer THEN C[AtBuffer] \o <<m>> ELSE C[AtBuffer],
           overflow' = IF d = AtOverflow THEN C[AtOverflow] \o <<m>> ELSE C[AtOverflow]
    PROVE  Placed'
<1>1. /\ C \in [Places -> Seq(Messages)] /\ Distinct(C) /\ All(C) = All(Contents)
      /\ \A p \in Places \ {AtPending, AtBuffer} : C[p] = Contents[p]
    BY Known, FlushIs
<1>2. /\ C[AtStarted] = started
      /\ \A u \in TaskIds : C[AtInput(u)] = task[u].input /\ C[AtInterrupt(u)] = task[u].interrupt
      /\ \A a \in Agents : C[AtAgent(a)] = signal'[a].interrupt
    BY <1>1, PlacesApart, ContentsAre
<1>3. DropsOK' /\ Gone' = Gone BY NotDropping DEF Placed
<1> QED BY <1>1, <1>2, <1>3, AddedThere

\* The contents without the text agent a was interrupted with.
Unsignalled(a) == Left(Contents, AtAgent(a), <<>>)

LEMMA UnsignalledIs ==
    ASSUME Basics, Placed, NEW a \in Agents
    PROVE  LET C == Unsignalled(a)
           IN /\ C \in [Places -> Seq(Messages)] /\ Distinct(C)
              /\ All(C) \subseteq All(Contents)
              /\ All(Contents) \subseteq All(C) \union Range(signal[a].interrupt)
              /\ C = [p \in Places |-> C[p]] /\ C[AtAgent(a)] = <<>>
              /\ \A b \in Agents \ {a} : C[AtAgent(b)] = signal[b].interrupt
              /\ \A u \in TaskIds : C[AtInput(u)] = task[u].input
                                      /\ C[AtInterrupt(u)] = task[u].interrupt
              /\ C[AtPending] = pending /\ C[AtOverflow] = overflow
              /\ C[AtStarted] = started /\ C[AtBuffer] = buffer
<1> DEFINE C == Unsignalled(a)
           x == AtAgent(a)
<1>1. x \in Places /\ Contents[x] = signal[a].interrupt BY PlacesApart, ContentsAre
<1>2. <<>> \in Seq(Messages) /\ Range(<<>>) = {} /\ IsInjective(<<>>)
    BY EmptySeq, RangeEmpty
<1>3. Contents \in [Places -> Seq(Messages)] /\ Distinct(Contents) BY Known
<1>4. C = Left(Contents, x, <<>>) BY DEF Unsignalled
<1> HIDE DEF x
<1>5. /\ C \in [Places -> Seq(Messages)] /\ Distinct(C) /\ All(C) \subseteq All(Contents)
      /\ All(Contents) \subseteq All(C) \union Range(Contents[x])
  <2> DEFINE L == Left(Contents, x, <<>>)
  <2>1. /\ L \in [Places -> Seq(Messages)] /\ Distinct(L) /\ All(L) \subseteq All(Contents)
        /\ All(Contents) \subseteq All(L) \union Range(Contents[x])
      BY <1>1, <1>2, <1>3, LeftDistinct
  <2> QED BY <1>4, <2>1
<1>6. /\ C = [p \in Places |-> C[p]] /\ C[x] = <<>>
      /\ \A p \in Places \ {x} : C[p] = Contents[p]
    BY <1>1, <1>4 DEF Left
<1> HIDE DEF C
<1>7. /\ C[AtPending] = pending /\ C[AtOverflow] = overflow
      /\ C[AtStarted] = started /\ C[AtBuffer] = buffer
    BY <1>6, PlacesApart, ContentsAre DEF x
<1>8. \A u \in TaskIds : C[AtInput(u)] = task[u].input /\ C[AtInterrupt(u)] = task[u].interrupt
    BY <1>6, PlacesApart, ContentsAre DEF x
<1>9. \A b \in Agents \ {a} : C[AtAgent(b)] = signal[b].interrupt
    BY <1>6, PlacesApart, ContentsAre DEF x
<1> QED BY <1>1, <1>5, <1>6, <1>7, <1>8, <1>9 DEF x, C

\* An agent forgets its text, which is let go.
LEMMA AgentLetsGo ==
    ASSUME Basics, Placed, UNCHANGED <<pending, buffer, overflow, started, arrived>>,
           \A u \in TaskIds : task'[u].input = task[u].input
                              /\ task'[u].interrupt = task[u].interrupt,
           NEW a \in Agents, signal'[a].interrupt = <<>>,
           \A b \in Agents \ {a} : signal'[b] = signal[b],
           NEW why \in Reasons, Drop(why, Range(signal[a].interrupt))
    PROVE  Placed'
<1> DEFINE C == Unsignalled(a)
<1>1. /\ Distinct(C) /\ All(C) \subseteq All(Contents)
      /\ All(Contents) \subseteq All(C) \union Range(signal[a].interrupt)
      /\ C = [p \in Places |-> C[p]] /\ C[AtAgent(a)] = <<>>
      /\ \A b \in Agents \ {a} : C[AtAgent(b)] = signal[b].interrupt
      /\ \A u \in TaskIds : C[AtInput(u)] = task[u].input
                              /\ C[AtInterrupt(u)] = task[u].interrupt
      /\ C[AtPending] = pending /\ C[AtOverflow] = overflow
      /\ C[AtStarted] = started /\ C[AtBuffer] = buffer
    BY UnsignalledIs
<1> HIDE DEF C
<1>2. \A b \in Agents : C[AtAgent(b)] = signal'[b].interrupt BY <1>1
<1>3. Contents' = C BY <1>1, <1>2, ContentsBecome
<1>4. DropsOK' /\ Gone' = Gone \union Range(signal[a].interrupt) BY Dropping DEF Placed
<1> QED BY <1>1, <1>3, <1>4, StillPlaced

LEMMA ReceivePhotoPlaced ==
    ASSUME Basics, Placed, NEW m \in Messages, ReceivePhoto(m) PROVE Placed'
<1>1. /\ Receive(m) /\ UNCHANGED <<task, started, buffer, overflow>>
      /\ pending' = pending \o <<m>>
    BY ReceivePhotoEffect DEF ReceivePhoto
<1>2. CASE UNCHANGED <<signal, dropped>>
    BY <1>1, <1>2, PlacesApart, ContentsAre, JustAdded
<1>3. CASE ~UNCHANGED <<signal, dropped>>
  <2>1. PICK a \in Agents :
           /\ signal'[a].interrupt = <<>>
           /\ \A b \in Agents \ {a} : signal'[b] = signal[b]
           /\ Drop("superseded", Range(signal[a].interrupt))
      BY <1>3, ReceivePhotoSignal
  <2> DEFINE C == Unsignalled(a)
  <2>2. /\ C \in [Places -> Seq(Messages)] /\ Distinct(C) /\ All(C) \subseteq All(Contents)
        /\ All(Contents) \subseteq All(C) \union Range(signal[a].interrupt)
        /\ C[AtAgent(a)] = <<>>
        /\ \A b \in Agents \ {a} : C[AtAgent(b)] = signal[b].interrupt
        /\ \A u \in TaskIds : C[AtInput(u)] = task[u].input
                                /\ C[AtInterrupt(u)] = task[u].interrupt
        /\ C[AtPending] = pending /\ C[AtOverflow] = overflow
        /\ C[AtStarted] = started /\ C[AtBuffer] = buffer
      BY UnsignalledIs
  <2> HIDE DEF C
  <2>3. \A b \in Agents : C[AtAgent(b)] = signal'[b].interrupt BY <2>1, <2>2
  <2>4. DropsOK' /\ Gone' = Gone \union Range(signal[a].interrupt)
      BY <2>1, Dropping DEF Placed, Reasons
  <2>5. All(Contents) \subseteq All(C) \union Gone' BY <2>2, <2>4
  <2>6. AtPending # AtBuffer /\ AtPending # AtOverflow BY PlacesApart
  <2> QED BY <1>1, <2>2, <2>3, <2>4, <2>5, <2>6, AddedThere
<1> QED BY <1>2, <1>3

LEMMA ReceiveQueuePlaced ==
    ASSUME Basics, Placed, NEW m \in Messages, ReceiveQueue(m) PROVE Placed'
<1>1. /\ Receive(m) /\ UNCHANGED <<dropped, task, started, buffer, signal>>
      /\ \/ pending' = <<m>> /\ pending = <<>> /\ overflow' = overflow
         \/ overflow' = Append(overflow, m) /\ pending' = pending
    BY DEF ReceiveQueue
<1>3. <<>> \o <<m>> = <<m>> /\ Append(overflow, m) = overflow \o <<m>>
    BY Single, Joined, Appended DEF Basics, ContentsOK
<1>4. CASE pending' = <<m>> /\ pending = <<>> /\ overflow' = overflow
    BY <1>1, <1>3, <1>4, PlacesApart, ContentsAre, JustAdded
<1>5. CASE overflow' = Append(overflow, m) /\ pending' = pending
    BY <1>1, <1>3, <1>5, PlacesApart, ContentsAre, JustAdded
<1> QED BY <1>1, <1>4, <1>5

LEMMA ReceiveTextPlaced ==
    ASSUME Basics, Placed, NEW m \in Messages, ReceiveText(m) PROVE Placed'
<1>1. Receive(m) /\ UNCHANGED <<task, started, overflow, signal>> BY DEF ReceiveText
<1>2. Contents \in [Places -> Seq(Messages)] /\ Distinct(Contents) BY Known
<1>3. CASE buffer' = buffer \o <<m>> /\ UNCHANGED <<pending, dropped>>
    BY <1>1, <1>2, <1>3, PlacesApart, ContentsAre, JustAdded
<1>4. CASE CanFlush /\ pending' = pending \o buffer /\ buffer' = <<m>> /\ UNCHANGED dropped
  <2>1. FlushedBuffer = <<>> /\ FlushedPending = pending \o buffer
      BY <1>4, Flushed, Known DEF FlushedBuffer
  <2>2. <<>> \o <<m>> = <<m>> BY Single, Joined
  <2> QED BY <1>1, <1>4, <2>1, <2>2, FlushIs, PlacesApart, ContentsAre, JustAdded
<1>5. CASE pending' = pending \o <<m>> /\ UNCHANGED <<buffer, dropped>>
    BY <1>1, <1>2, <1>5, PlacesApart, ContentsAre, JustAdded
<1>6. CASE Drop("third sender", {m}) /\ UNCHANGED <<pending, buffer>>
  <2>1. Contents = [p \in Places |-> Contents[p]] BY DEF Contents
  <2>2. Contents' = Contents BY <1>1, <1>6, <2>1, ContentsAre, ContentsBecome
  <2>3. DropsOK' /\ Gone' = Gone \union {m}
      BY <1>6, Dropping DEF Placed, Reasons
  <2> QED BY <1>1, <1>2, <2>2, <2>3, Unplaced, NowPlaced
<1> QED BY <1>3, <1>4, <1>5, <1>6, ReceiveTextEffect


\* A step pours one place into another; what is missing was let go.
LEMMA PouredThere ==
    ASSUME Basics, Placed, UNCHANGED arrived, DropsOK', Gone \subseteq Gone',
           NEW C, C \in [Places -> Seq(Messages)], Distinct(C), All(C) \subseteq All(Contents),
           NEW s \in Places, NEW d \in Places, s # d, Contents' = Poured(C, s, d),
           All(Contents) \subseteq All(Poured(C, s, d)) \union Gone'
    PROVE  Placed'
<1> DEFINE D == Poured(C, s, d)
<1>1. Distinct(D) /\ All(D) = All(C) BY PouredDistinct
<1>2. Contents' = D /\ All(Contents) \subseteq All(D) \union Gone' OBVIOUS
<1> HIDE DEF D
<1> QED BY <1>1, <1>2, StillPlaced

\* The same when nothing is let go.
LEMMA JustPoured ==
    ASSUME Basics, Placed, UNCHANGED <<arrived, dropped>>,
           NEW C, C \in [Places -> Seq(Messages)], Distinct(C), All(C) = All(Contents),
           NEW s \in Places, NEW d \in Places, s # d, Contents' = Poured(C, s, d)
    PROVE  Placed'
<1>1. DropsOK' /\ Gone' = Gone BY NotDropping DEF Placed
<1>2. All(Poured(C, s, d)) = All(C) BY PouredDistinct
<1>3. All(Contents) \subseteq All(Poured(C, s, d)) \union Gone' BY <1>2
<1> QED BY <1>1, <1>3, PouredThere

LEMMA TimerFiresPlaced ==
    ASSUME Basics, Placed, TimerFires PROVE Placed'
<1>1. /\ UNCHANGED <<overflow, started, task, arrived, dropped, signal>>
      /\ pending' = FlushedPending /\ buffer' = FlushedBuffer
    BY DEF TimerFires
<1> DEFINE D == FlushedContents
<1> HIDE DEF D
<1>2. /\ Distinct(D) /\ All(D) = All(Contents) /\ D = [p \in Places |-> D[p]]
      /\ D[AtPending] = pending' /\ D[AtBuffer] = buffer'
      /\ \A p \in Places \ {AtPending, AtBuffer} : D[p] = Contents[p]
    BY <1>1, FlushIs DEF D
<1>3. D[AtOverflow] = overflow' /\ D[AtStarted] = started'
    BY <1>1, <1>2, PlacesApart, ContentsAre
<1>4. \A u \in TaskIds : D[AtInput(u)] = task'[u].input /\ D[AtInterrupt(u)] = task'[u].interrupt
    BY <1>1, <1>2, PlacesApart, ContentsAre
<1>7. \A a \in Agents : D[AtAgent(a)] = signal'[a].interrupt
    BY <1>1, <1>2, PlacesApart, ContentsAre
<1>5. Contents' = D BY <1>2, <1>3, <1>4, <1>7, ContentsBecome
<1>6. DropsOK' /\ Gone' = Gone BY <1>1, NotDropping DEF Placed
<1> QED BY <1>1, <1>2, <1>5, <1>6, StillPlaced

\* The slot, with the burst that was flushed into it, becomes task n's input.
LEMMA FlushedToTask ==
    ASSUME Basics, Placed, UNCHANGED <<arrived, dropped, overflow, started, signal>>,
           pending' = <<>>, buffer' = FlushedBuffer, NEW n \in TaskIds,
           task[n].input = <<>>, task'[n].input = FlushedPending,
           \A u \in TaskIds : u # n => task'[u].input = task[u].input,
           \A u \in TaskIds : task'[u].interrupt = task[u].interrupt
    PROVE  Placed'
<1> DEFINE D == Poured(FlushedContents, AtPending, AtInput(n))
<1>1. AtPending \in Places /\ AtInput(n) \in Places /\ AtPending # AtInput(n)
    BY PlacesApart
<1>2. /\ D = [p \in Places |-> D[p]] /\ D[AtPending] = <<>>
      /\ D[AtInput(n)] = FlushedContents[AtInput(n)] \o FlushedContents[AtPending]
      /\ \A p \in Places \ {AtPending, AtInput(n)} : D[p] = FlushedContents[p]
    BY <1>1 DEF Poured
<1> HIDE DEF D
<1>3. D[AtInput(n)] = FlushedPending
  <2>1. FlushedContents[AtInput(n)] = <<>> /\ FlushedContents[AtPending] = FlushedPending
      BY FlushIs, PlacesApart, ContentsAre
  <2>2. FlushedPending \in Seq(Messages) BY Flushed DEF Basics
  <2>3. <<>> \o FlushedPending = FlushedPending BY <2>2, Joined
  <2> QED BY <1>2, <2>1, <2>3
<1>4. D[AtBuffer] = buffer' /\ D[AtOverflow] = overflow' /\ D[AtStarted] = started'
    BY <1>2, FlushIs, PlacesApart, ContentsAre
<1>5. \A u \in TaskIds : D[AtInput(u)] = task'[u].input /\ D[AtInterrupt(u)] = task'[u].interrupt
    BY <1>2, <1>3, FlushIs, PlacesApart, ContentsAre
<1>6. \A a \in Agents : D[AtAgent(a)] = signal'[a].interrupt
    BY <1>2, FlushIs, PlacesApart, ContentsAre
<1>7. Contents' = D BY <1>2, <1>4, <1>5, <1>6, ContentsBecome
<1> QED BY <1>1, <1>7, FlushIs, JustPoured DEF D

LEMMA DeliverPlaced ==
    ASSUME Basics, Placed, NEW t \in TaskIds, Deliver(t) PROVE Placed'
<1>1. /\ UNCHANGED <<arrived, dropped, overflow, started, signal>>
      /\ pending' = <<>> /\ buffer' = FlushedBuffer /\ task[t].input = <<>>
    BY DEF Deliver, Basics, HeldWhere
<1>2. /\ task'[t].input = FlushedPending
      /\ \A u \in TaskIds : u # t => task'[u].input = task[u].input
      /\ \A u \in TaskIds : task'[u].interrupt = task[u].interrupt
    BY DeliverTasks DEF Becomes, KeptBut
<1> QED BY <1>1, <1>2, FlushedToTask

LEMMA CleanupPlaced ==
    ASSUME Basics, Placed, NEW t \in TaskIds, Cleanup(t) PROVE Placed'
<1>1. /\ UNCHANGED <<arrived, dropped, overflow, started, signal>> /\ buffer' = FlushedBuffer
    BY DEF Cleanup
<1>2. /\ CleanupTasks(t)
      /\ task'[t].input = task[t].input /\ task'[t].interrupt = task[t].interrupt
    BY CleanupEffect DEF Becomes
<1>3. CASE FlushedPending # <<>> /\ owner \in {Nobody, t}
  <2>1. KeptBut({t, NextTask}) /\ Born(NextTask, FlushedPending, AdoptedGuard) /\ pending' = <<>>
        /\ t # NextTask
      BY <1>2, <1>3 DEF CleanupTasks
  <2>2. /\ NextTask \in TaskIds /\ task[NextTask].input = <<>>
        /\ task[NextTask].interrupt = <<>>
        /\ task'[NextTask].input = FlushedPending /\ task'[NextTask].interrupt = <<>>
      BY <2>1, BornHolds
  <2>3. /\ \A u \in TaskIds : u # NextTask => task'[u].input = task[u].input
        /\ \A u \in TaskIds : task'[u].interrupt = task[u].interrupt
      BY <1>2, <2>1, <2>2 DEF KeptBut
  <2> QED BY <1>1, <2>1, <2>2, <2>3, FlushedToTask
<1>4. ASSUME KeptBut({t}) PROVE \A u \in TaskIds : task'[u].input = task[u].input
                                                  /\ task'[u].interrupt = task[u].interrupt
    BY <1>2, <1>4 DEF KeptBut
<1>5. CASE FlushedPending # <<>> /\ owner \notin {Nobody, t}
  <2>1. KeptBut({t}) /\ pending' = FlushedPending BY <1>2, <1>5 DEF CleanupTasks
  <2> DEFINE D == FlushedContents
  <2> HIDE DEF D
  <2>2. /\ Distinct(D) /\ All(D) = All(Contents) /\ D = [p \in Places |-> D[p]]
        /\ D[AtPending] = pending' /\ D[AtBuffer] = buffer'
        /\ \A p \in Places \ {AtPending, AtBuffer} : D[p] = Contents[p]
      BY <1>1, <2>1, FlushIs DEF D
  <2>3. D[AtOverflow] = overflow' /\ D[AtStarted] = started'
      BY <1>1, <2>2, PlacesApart, ContentsAre
  <2>4. \A u \in TaskIds : D[AtInput(u)] = task'[u].input /\ D[AtInterrupt(u)] = task'[u].interrupt
      BY <1>4, <2>1, <2>2, PlacesApart, ContentsAre
  <2>5. \A a \in Agents : D[AtAgent(a)] = signal'[a].interrupt
      BY <1>1, <2>2, PlacesApart, ContentsAre
  <2>6. Contents' = D BY <2>2, <2>3, <2>4, <2>5, ContentsBecome
  <2>7. DropsOK' /\ Gone' = Gone BY <1>1, NotDropping DEF Placed
  <2> QED BY <1>1, <2>2, <2>6, <2>7, StillPlaced
<1>6. CASE FlushedPending = <<>>
  <2>1. KeptBut({t}) /\ pending' = <<>> BY <1>2, <1>6 DEF CleanupTasks
  <2>2. pending = <<>> /\ buffer = <<>> /\ FlushedBuffer = <<>>
      BY <1>6, Flushed DEF Basics
  <2> QED BY <1>1, <1>4, <2>1, <2>2, SameContents
<1> QED BY <1>3, <1>5, <1>6

LEMMA HandOffPlaced ==
    ASSUME Basics, Placed, NEW t \in TaskIds, HandOff(t) PROVE Placed'
<1> DEFINE n == NextTask
           D == Poured(Contents, AtInput(t), AtInput(n))
<1>1. UNCHANGED <<arrived, dropped, pending, buffer, overflow, started, signal>> BY DEF HandOff
<1>2. /\ KeptBut({t, n}) /\ t # n /\ Born(n, task[t].input, AdoptedGuard)
      /\ task'[t].input = <<>> /\ task'[t].interrupt = task[t].interrupt
    BY HandOffTasks DEF Becomes
<1>3. /\ n \in TaskIds /\ task[n].input = <<>> /\ task[n].interrupt = <<>>
      /\ task'[n].input = task[t].input /\ task'[n].interrupt = <<>>
    BY <1>2, BornHolds
<1>4. \A u \in TaskIds : u # t /\ u # n => task'[u] = task[u] BY <1>2 DEF KeptBut
<1> HIDE DEF n
<1>5. AtInput(t) \in Places /\ AtInput(n) \in Places /\ AtInput(t) # AtInput(n)
    BY <1>2, <1>3, PlacesApart
<1>6. /\ D = [p \in Places |-> D[p]] /\ D[AtInput(t)] = <<>>
      /\ D[AtInput(n)] = Contents[AtInput(n)] \o Contents[AtInput(t)]
      /\ \A p \in Places \ {AtInput(t), AtInput(n)} : D[p] = Contents[p]
    BY <1>5 DEF Poured
<1> HIDE DEF D
<1>7. D[AtInput(n)] = task[t].input
  <2>1. Contents[AtInput(n)] = <<>> /\ Contents[AtInput(t)] = task[t].input
      BY <1>3, ContentsAre
  <2>2. <<>> \o task[t].input = task[t].input BY TaskFields, Joined DEF Basics
  <2> QED BY <1>6, <2>1, <2>2
<1>8. /\ D[AtPending] = pending' /\ D[AtBuffer] = buffer'
      /\ D[AtOverflow] = overflow' /\ D[AtStarted] = started'
    BY <1>1, <1>3, <1>6, PlacesApart, ContentsAre
<1>9. \A u \in TaskIds : D[AtInput(u)] = task'[u].input /\ D[AtInterrupt(u)] = task'[u].interrupt
    BY <1>2, <1>3, <1>4, <1>6, <1>7, PlacesApart, ContentsAre
<1>10. \A a \in Agents : D[AtAgent(a)] = signal'[a].interrupt
    BY <1>1, <1>3, <1>5, <1>6, PlacesApart, ContentsAre
<1>11. Contents' = D BY <1>6, <1>8, <1>9, <1>10, ContentsBecome
<1> QED BY <1>1, <1>5, <1>11, Known, JustPoured DEF D


LEMMA ClaimPlaced ==
    ASSUME Basics, Placed, NEW t \in TaskIds, Claim(t) PROVE Placed'
<1>1. UNCHANGED <<pending, buffer, overflow, started, arrived, dropped, signal>> BY DEF Claim
<1>2. \A u \in TaskIds : task'[u].input = task[u].input
                         /\ task'[u].interrupt = task[u].interrupt
    BY ClaimTasks DEF Becomes, KeptBut
<1> QED BY <1>1, <1>2, SameContents

LEMMA UnwindPlaced ==
    ASSUME Basics, Placed, NEW t \in TaskIds, Unwind(t) PROVE Placed'
<1>1. UNCHANGED <<pending, buffer, overflow, started, arrived, dropped, signal>> BY DEF Unwind
<1>2. \A u \in TaskIds : task'[u].input = task[u].input
                         /\ task'[u].interrupt = task[u].interrupt
    BY UnwindTasks DEF Becomes, KeptBut
<1> QED BY <1>1, <1>2, SameContents

\* A task lets go of what it held, or of some of it.
LEMMA TaskLetsGo ==
    ASSUME Basics, Placed, UNCHANGED <<pending, buffer, overflow, started, arrived, signal>>,
           NEW t \in TaskIds, DropsOK', Gone \subseteq Gone',
           \A u \in TaskIds : u # t => task'[u].input = task[u].input
                                       /\ task'[u].interrupt = task[u].interrupt,
           task'[t].input \in {<<>>, task[t].input},
           task'[t].interrupt \in {<<>>, task[t].interrupt},
           Range(task[t].input) \ Range(task'[t].input) \subseteq Gone',
           Range(task[t].interrupt) \ Range(task'[t].interrupt) \subseteq Gone'
    PROVE  Placed'
<1> DEFINE i == AtInput(t)
           x == AtInterrupt(t)
           e == task'[t].input
           f == task'[t].interrupt
           C == Left(Contents, i, e)
           D == Left(C, x, f)
<1>1. i \in Places /\ x \in Places /\ i # x BY PlacesApart
<1>2. /\ Contents \in [Places -> Seq(Messages)] /\ Distinct(Contents)
      /\ Contents[i] = task[t].input /\ Contents[x] = task[t].interrupt
    BY Known, ContentsAre
<1>3. /\ e \in Seq(Messages) /\ IsInjective(e) /\ Range(e) \subseteq Range(Contents[i])
      /\ f \in Seq(Messages) /\ IsInjective(f) /\ Range(f) \subseteq Range(Contents[x])
      /\ Range(Contents[i]) \ Range(e) \subseteq Gone'
      /\ Range(Contents[x]) \ Range(f) \subseteq Gone'
  <2>1. e \in {<<>>, Contents[i]} /\ f \in {<<>>, Contents[x]} BY <1>2
  <2>2. <<>> \in Seq(Messages) /\ Range(<<>>) = {} /\ IsInjective(<<>>)
      BY EmptySeq, RangeEmpty
  <2>3. /\ Contents[i] \in Seq(Messages) /\ Contents[x] \in Seq(Messages)
        /\ IsInjective(Contents[i]) /\ IsInjective(Contents[x])
      BY <1>1, <1>2 DEF Distinct
  <2>4. /\ Range(Contents[i]) \ Range(e) \subseteq Gone'
        /\ Range(Contents[x]) \ Range(f) \subseteq Gone'
      BY <1>2
  <2> HIDE DEF i, x, e, f
  <2> QED BY <2>1, <2>2, <2>3, <2>4
<1> HIDE DEF i, x, e, f
<1>4. /\ C \in [Places -> Seq(Messages)] /\ Distinct(C) /\ All(C) \subseteq All(Contents)
      /\ All(Contents) \subseteq All(C) \union (Range(Contents[i]) \ Range(e))
    BY <1>1, <1>2, <1>3, LeftDistinct
<1>5. C[x] = Contents[x] /\ C[i] = e /\ \A p \in Places \ {i} : C[p] = Contents[p]
    BY <1>1 DEF Left
<1> HIDE DEF C
<1>6. /\ Distinct(D) /\ All(D) \subseteq All(C)
      /\ All(C) \subseteq All(D) \union (Range(C[x]) \ Range(f))
    BY <1>1, <1>3, <1>4, <1>5, LeftDistinct
<1>7. /\ D = [p \in Places |-> D[p]] /\ D[x] = f /\ D[i] = e
      /\ \A p \in Places \ {i, x} : D[p] = Contents[p]
    BY <1>1, <1>5 DEF Left
<1> HIDE DEF D
<1>8. /\ D[AtPending] = pending' /\ D[AtBuffer] = buffer'
      /\ D[AtOverflow] = overflow' /\ D[AtStarted] = started'
    BY <1>7, PlacesApart, ContentsAre DEF i, x
<1>9. \A u \in TaskIds : D[AtInput(u)] = task'[u].input /\ D[AtInterrupt(u)] = task'[u].interrupt
  <2> SUFFICES ASSUME NEW u \in TaskIds
               PROVE  D[AtInput(u)] = task'[u].input /\ D[AtInterrupt(u)] = task'[u].interrupt
      OBVIOUS
  <2>1. CASE u = t BY <1>7, <2>1 DEF i, x, e, f
  <2>2. CASE u # t
    <3>1. AtInput(u) \in Places \ {i, x} /\ AtInterrupt(u) \in Places \ {i, x}
        BY <2>2, PlacesApart DEF i, x
    <3> QED BY <1>7, <2>2, <3>1, ContentsAre
  <2> QED BY <2>1, <2>2
<1>12. \A a \in Agents : D[AtAgent(a)] = signal'[a].interrupt
    BY <1>1, <1>7, PlacesApart, ContentsAre DEF i, x
<1>10. Contents' = D BY <1>7, <1>8, <1>9, <1>12, ContentsBecome
<1>11. All(D) \subseteq All(Contents) /\ All(Contents) \subseteq All(D) \union Gone'
    BY <1>3, <1>4, <1>5, <1>6
<1> QED BY <1>6, <1>10, <1>11, StillPlaced

LEMMA RunFailsPlaced ==
    ASSUME Basics, Placed, NEW t \in TaskIds, RunFails(t) PROVE Placed'
<1>1. /\ UNCHANGED <<pending, buffer, overflow, started, arrived, signal>>
      /\ Drop("failed", Range(task[t].input \o task[t].interrupt))
    BY DEF RunFails
<1>2. Range(task[t].input \o task[t].interrupt)
        = Range(task[t].input) \union Range(task[t].interrupt)
    BY TaskFields, Joined DEF Basics
<1>3. DropsOK' /\ Gone' = Gone \union Range(task[t].input) \union Range(task[t].interrupt)
  <2>1. "failed" \in Reasons BY DEF Reasons
  <2> QED BY <1>1, <1>2, <2>1, Dropping DEF Placed
<1>4. /\ task'[t].input = <<>> /\ task'[t].interrupt = <<>>
      /\ \A u \in TaskIds : u # t => task'[u] = task[u]
    BY RunFailsTasks DEF Becomes, KeptBut
<1> QED BY <1>1, <1>3, <1>4, TaskLetsGo

LEMMA BusyPlaced ==
    ASSUME Basics, Placed, NEW t \in TaskIds, Busy(t) PROVE Placed'
<1> DEFINE i == AtInput(t)
<1>1. /\ UNCHANGED <<buffer, overflow, started, arrived>>
      /\ task[t].at = "starting" /\ task[t].interrupt = <<>>
    BY DEF Busy, Basics, HeldWhere
<1>2. /\ task'[t].input = <<>> /\ task'[t].interrupt = <<>>
      /\ \A u \in TaskIds : u # t => task'[u] = task[u]
    BY <1>1, BusyTasks DEF Becomes, KeptBut
<1>3. /\ i \in Places /\ AtPending \in Places /\ i # AtPending
      /\ Contents \in [Places -> Seq(Messages)] /\ Distinct(Contents)
      /\ Contents[i] = task[t].input /\ Contents[AtPending] = pending
    BY PlacesApart, Known, ContentsAre
<1>4. task[t].input \in Seq(Messages) /\ pending \in Seq(Messages)
    BY TaskFields DEF Basics, ContentsOK
<1>5. <<>> \o task[t].input = task[t].input BY <1>4, Joined
<1>6. \* The slot takes the message: C is what it is added to.
      ASSUME UNCHANGED signal, DropsOK', Gone \subseteq Gone',
             NEW C, C \in [Places -> Seq(Messages)], Distinct(C), All(C) \subseteq All(Contents),
             \A p \in Places \ {AtPending} : C[p] = Contents[p],
             pending' = C[AtPending] \o task[t].input,
             All(Contents) \subseteq All(C) \union Gone' \union Range(pending')
      PROVE  Placed'
  <2> DEFINE D == Poured(C, i, AtPending)
  <2>1. /\ D = [p \in Places |-> D[p]] /\ D[i] = <<>>
        /\ D[AtPending] = C[AtPending] \o C[i]
        /\ \A p \in Places \ {i, AtPending} : D[p] = Contents[p]
      BY <1>3, <1>6 DEF Poured
  <2>2. All(D) = All(C) BY <1>3, <1>6, PouredDistinct
  <2>3. C[i] = task[t].input BY <1>3, <1>6
  <2> HIDE DEF D
  <2>4. D[AtPending] = pending' BY <1>6, <2>1, <2>3
  <2>5. D[AtBuffer] = buffer' /\ D[AtOverflow] = overflow' /\ D[AtStarted] = started'
      BY <1>1, <2>1, PlacesApart, ContentsAre
  <2>6. \A u \in TaskIds : D[AtInput(u)] = task'[u].input /\ D[AtInterrupt(u)] = task'[u].interrupt
      BY <1>1, <1>2, <2>1, PlacesApart, ContentsAre
  <2>7. \A a \in Agents : D[AtAgent(a)] = signal'[a].interrupt
      BY <1>6, <2>1, PlacesApart, ContentsAre
  <2>8. Contents' = D BY <2>1, <2>4, <2>5, <2>6, <2>7, ContentsBecome
  <2>9. Range(pending') \subseteq All(D) BY <1>3, <2>4 DEF All
  <2>10. All(Contents) \subseteq All(D) \union Gone' BY <1>6, <2>2, <2>9
  <2> QED BY <1>1, <1>3, <1>6, <2>8, <2>10, PouredThere DEF D
<1>7. CASE pending' = pending \o task[t].input /\ UNCHANGED signal
           /\ (UNCHANGED dropped \/ Drop("superseded", Range(pending) \ Range(pending')))
  <2>1. DropsOK' /\ Gone \subseteq Gone'
      BY <1>7, Dropping, NotDropping DEF Placed, Reasons
  <2> QED BY <1>3, <1>6, <1>7, <2>1
<1>8. CASE /\ pending' = task[t].input /\ UNCHANGED signal
           /\ Drop("superseded", Range(pending) \ Range(pending'))
  <2> DEFINE C == Left(Contents, AtPending, <<>>)
  <2>1. DropsOK' /\ Gone' = Gone \union (Range(pending) \ Range(pending'))
      BY <1>8, Dropping DEF Placed, Reasons
  <2>2. <<>> \in Seq(Messages) /\ Range(<<>>) = {} /\ IsInjective(<<>>)
      BY EmptySeq, RangeEmpty
  <2>3. /\ C \in [Places -> Seq(Messages)] /\ Distinct(C) /\ All(C) \subseteq All(Contents)
        /\ All(Contents) \subseteq All(C) \union Range(pending)
      BY <1>3, <2>2, LeftDistinct
  <2>4. C[AtPending] = <<>> /\ \A p \in Places \ {AtPending} : C[p] = Contents[p]
      BY <1>3, LeftAt
  <2> HIDE DEF C
  <2>5. pending' = C[AtPending] \o task[t].input BY <1>5, <1>8, <2>4
  <2>6. All(Contents) \subseteq All(C) \union Gone' \union Range(pending')
      BY <2>1, <2>3
  <2> QED BY <1>6, <1>8, <2>1, <2>3, <2>4, <2>5, <2>6
<1>9. CASE BusyInterrupts(t)
  <2>1. PICK a \in Agents :
           /\ signal'[a].interrupt = task[t].input
           /\ \A b \in Agents \ {a} : signal'[b] = signal[b]
           /\ Drop("superseded", Range(signal[a].interrupt))
      BY <1>9, BusySignal
  <2> DEFINE C == Unsignalled(a)
             x == AtAgent(a)
             D == Poured(C, i, x)
  <2>2. UNCHANGED pending BY <1>9, BusySignal
  <2>3. /\ C \in [Places -> Seq(Messages)] /\ Distinct(C) /\ All(C) \subseteq All(Contents)
        /\ All(Contents) \subseteq All(C) \union Range(signal[a].interrupt)
        /\ C[x] = <<>> /\ C[i] = task[t].input
        /\ \A b \in Agents \ {a} : C[AtAgent(b)] = signal[b].interrupt
        /\ \A u \in TaskIds : C[AtInput(u)] = task[u].input
                                /\ C[AtInterrupt(u)] = task[u].interrupt
        /\ C[AtPending] = pending /\ C[AtOverflow] = overflow
        /\ C[AtStarted] = started /\ C[AtBuffer] = buffer
      BY UnsignalledIs
  <2> HIDE DEF C
  <2>4. x \in Places /\ i # x BY PlacesApart
  <2>5. All(D) = All(C) BY <1>3, <2>3, <2>4, PouredDistinct
  <2>6. /\ D = [p \in Places |-> D[p]] /\ D[i] = <<>> /\ D[x] = C[x] \o C[i]
        /\ \A p \in Places \ {i, x} : D[p] = C[p]
      BY <1>3, <2>4 DEF Poured
  <2> HIDE DEF D
  <2>7. D[x] = task[t].input BY <1>5, <2>3, <2>6
  <2>8. /\ D[AtPending] = pending' /\ D[AtBuffer] = buffer'
        /\ D[AtOverflow] = overflow' /\ D[AtStarted] = started'
      BY <1>1, <2>2, <2>3, <2>6, PlacesApart
  <2>9. \A u \in TaskIds : D[AtInput(u)] = task'[u].input /\ D[AtInterrupt(u)] = task'[u].interrupt
      BY <1>1, <1>2, <2>3, <2>6, PlacesApart
  <2>10. \A b \in Agents : D[AtAgent(b)] = signal'[b].interrupt
      BY <2>1, <2>3, <2>6, <2>7, PlacesApart
  <2>11. Contents' = D BY <2>6, <2>8, <2>9, <2>10, ContentsBecome
  <2>12. DropsOK' /\ Gone' = Gone \union Range(signal[a].interrupt)
      BY <2>1, Dropping DEF Placed, Reasons
  <2>13. All(Contents) \subseteq All(D) \union Gone' BY <2>3, <2>5, <2>12
  <2> QED BY <1>1, <1>3, <2>3, <2>4, <2>11, <2>12, <2>13, PouredThere DEF D
<1>10. CASE /\ pending' = Merged(pending, task[t].input, TRUE)
            /\ UNCHANGED <<signal, dropped>>
  <2>1. Merged(pending, task[t].input, TRUE) = pending \o task[t].input BY <1>4, MergedText
  <2> QED BY <1>7, <1>10, <2>1
<1>11. CASE /\ pending' = Merged(pending, task[t].input, FALSE)
            /\ Drop("superseded", Range(pending) \ Range(pending')) /\ UNCHANGED signal
  <2>1. Merged(pending, task[t].input, FALSE) \in {pending \o task[t].input, task[t].input}
      BY DEF Merged
  <2> QED BY <1>7, <1>8, <1>11, <2>1
<1> QED BY <1>9, <1>10, <1>11, BusyChoices

\* The contents without the text that interrupted task t's run.
Uninterrupted(t) == Left(Contents, AtInterrupt(t), <<>>)

LEMMA UninterruptedIs ==
    ASSUME Basics, Placed, NEW t \in TaskIds
    PROVE  LET C == Uninterrupted(t)
           IN /\ C \in [Places -> Seq(Messages)] /\ Distinct(C)
              /\ All(C) \subseteq All(Contents)
              /\ All(Contents) \subseteq All(C) \union Range(task[t].interrupt)
              /\ C[AtInterrupt(t)] = <<>>
              /\ \A p \in Places \ {AtInterrupt(t)} : C[p] = Contents[p]
              /\ C[AtPending] = pending /\ C[AtOverflow] = overflow
              /\ C[AtStarted] = started /\ C[AtBuffer] = buffer
<1> DEFINE C == Uninterrupted(t)
           x == AtInterrupt(t)
<1>1. x \in Places /\ Contents[x] = task[t].interrupt BY PlacesApart, ContentsAre
<1>2. <<>> \in Seq(Messages) /\ Range(<<>>) = {} /\ IsInjective(<<>>)
    BY EmptySeq, RangeEmpty
<1>3. Contents \in [Places -> Seq(Messages)] /\ Distinct(Contents) BY Known
<1>4. C = Left(Contents, x, <<>>) BY DEF Uninterrupted
<1> HIDE DEF x
<1>5. /\ C \in [Places -> Seq(Messages)] /\ Distinct(C) /\ All(C) \subseteq All(Contents)
      /\ All(Contents) \subseteq All(C) \union Range(Contents[x])
  <2> DEFINE L == Left(Contents, x, <<>>)
  <2>1. /\ L \in [Places -> Seq(Messages)] /\ Distinct(L) /\ All(L) \subseteq All(Contents)
        /\ All(Contents) \subseteq All(L) \union Range(Contents[x])
      BY <1>1, <1>2, <1>3, LeftDistinct
  <2> QED BY <1>4, <2>1
<1>6. C[x] = <<>> /\ \A p \in Places \ {x} : C[p] = Contents[p]
    BY <1>1, <1>4 DEF Left
<1> HIDE DEF C
<1>7. /\ C[AtPending] = pending /\ C[AtOverflow] = overflow
      /\ C[AtStarted] = started /\ C[AtBuffer] = buffer
    BY <1>6, PlacesApart, ContentsAre DEF x
<1> QED BY <1>1, <1>2, <1>5, <1>6, <1>7 DEF x, C

\* The interrupting text gives way to whatever was queued.
LEMMA SupersededIs ==
    ASSUME Basics, Placed, NEW t \in TaskIds
    PROVE  /\ pending # <<>> \/ overflow # <<>> =>
                Superseded(t) = Range(task[t].interrupt)
           /\ pending = <<>> /\ overflow = <<>> => Superseded(t) = {}
<1>1. /\ Range(pending) \intersect Range(task[t].interrupt) = {}
      /\ Range(overflow) \intersect Range(task[t].interrupt) = {}
    BY PlacesApart, ContentsAre DEF Placed, Distinct
<1>2. pending # <<>> => Range(pending) # {} BY RangeEmpty DEF Basics, ContentsOK
<1>3. overflow # <<>> => /\ Range(<<Head(overflow)>>) = {Head(overflow)}
                         /\ Head(overflow) \in Range(overflow)
  <2>1. overflow \in Seq(Messages) BY DEF Basics, ContentsOK
  <2>2. overflow # <<>> => Range(overflow) = {Head(overflow)} \union Range(Tail(overflow))
      BY <2>1, Beheaded
  <2> QED BY <2>2, NextInputOK
<1>4. pending # <<>> => NextInput(t) # task[t].interrupt
    BY <1>1, <1>2 DEF NextInput
<1>5. pending = <<>> /\ overflow # <<>> => NextInput(t) # task[t].interrupt
    BY <1>1, <1>3 DEF NextInput
<1> QED BY <1>4, <1>5 DEF Superseded, NextInput

\* Task t alone has changed, and its interrupting text is gone.
LEMMA InterruptTaken ==
    ASSUME Basics, NEW t \in TaskIds, UNCHANGED <<buffer, signal>>,
           \A u \in TaskIds : u # t => task'[u] = task[u],
           task'[t].input = task[t].input, task'[t].interrupt = <<>>,
           NEW D, D = [p \in Places |-> D[p]],
           D[AtPending] = pending', D[AtOverflow] = overflow', D[AtStarted] = started',
           D[AtInterrupt(t)] = <<>>,
           \A p \in Places \ {AtPending, AtOverflow, AtStarted, AtInterrupt(t)} :
             D[p] = Contents[p]
    PROVE  Contents' = D
<1>1. D[AtBuffer] = buffer' BY PlacesApart, ContentsAre
<1>2. \A u \in TaskIds : D[AtInput(u)] = task'[u].input /\ D[AtInterrupt(u)] = task'[u].interrupt
    BY PlacesApart, ContentsAre
<1>3. \A a \in Agents : D[AtAgent(a)] = signal'[a].interrupt BY PlacesApart, ContentsAre
<1> QED BY <1>1, <1>2, <1>3, ContentsBecome

LEMMA FollowUpPlaced ==
    ASSUME Basics, Placed, NEW t \in TaskIds, FollowUp(t) PROVE Placed'
<1> DEFINE C == Uninterrupted(t)
           h == Head(overflow)
<1>1. /\ UNCHANGED <<buffer, arrived, signal>>
      /\ pending' = Promoted /\ overflow' = Remaining
      /\ started' = started \o NextInput(t) /\ Drop("superseded", Superseded(t))
    BY DEF FollowUp
<1>2. /\ task'[t].input = task[t].input /\ task'[t].interrupt = <<>>
      /\ \A u \in TaskIds : u # t => task'[u] = task[u]
    BY FollowUpTasks DEF Becomes, KeptBut
<1>3. DropsOK' /\ Gone' = Gone \union Superseded(t)
  <2>1. "superseded" \in Reasons BY DEF Reasons
  <2> QED BY <1>1, <2>1, Dropping DEF Placed
<1>4. /\ C \in [Places -> Seq(Messages)] /\ Distinct(C) /\ All(C) \subseteq All(Contents)
      /\ All(Contents) \subseteq All(C) \union Range(task[t].interrupt)
      /\ C[AtInterrupt(t)] = <<>>
      /\ \A p \in Places \ {AtInterrupt(t)} : C[p] = Contents[p]
      /\ C[AtPending] = pending /\ C[AtOverflow] = overflow /\ C[AtStarted] = started
    BY UninterruptedIs
<1>5. /\ AtPending \in Places /\ AtOverflow \in Places /\ AtStarted \in Places
      /\ AtInterrupt(t) \in Places
      /\ AtPending # AtStarted /\ AtOverflow # AtPending /\ AtOverflow # AtStarted
      /\ AtInterrupt(t) \notin {AtPending, AtOverflow, AtStarted}
    BY PlacesApart
<1>6. <<>> \o <<h>> = <<h>> BY Single, Joined
<1> HIDE DEF C
<1>7. CASE pending # <<>>
  <2> DEFINE E == Poured(C, AtPending, AtStarted)
             D == IF overflow = <<>> THEN E ELSE Beheading(E, AtOverflow, AtPending)
  <2>1. E \in [Places -> Seq(Messages)] /\ Distinct(E) /\ All(E) = All(C)
      BY <1>4, <1>5, PouredDistinct
  <2>2. /\ E = [p \in Places |-> E[p]] /\ E[AtPending] = <<>>
        /\ E[AtStarted] = started \o pending
        /\ \A p \in Places \ {AtPending, AtStarted} : E[p] = C[p]
      BY <1>4, <1>5 DEF Poured
  <2> HIDE DEF E
  <2>3. E[AtOverflow] = overflow BY <1>4, <1>5, <2>2
  <2>4. Distinct(D) /\ All(D) = All(C)
      BY <1>5, <2>1, <2>3, BeheadingDistinct
  <2>5. /\ D = [p \in Places |-> D[p]] /\ D[AtStarted] = started \o pending
        /\ D[AtOverflow] = Remaining /\ D[AtPending] = Promoted
        /\ D[AtInterrupt(t)] = <<>>
        /\ \A p \in Places \ {AtPending, AtOverflow, AtStarted, AtInterrupt(t)} :
             D[p] = Contents[p]
    <3>1. CASE overflow = <<>>
        BY <1>4, <1>5, <2>2, <2>3, <3>1 DEF Remaining, Promoted
    <3>2. CASE overflow # <<>>
      <4>1. /\ D = [p \in Places |-> D[p]] /\ D[AtOverflow] = Tail(overflow)
            /\ D[AtPending] = <<>> \o <<h>>
            /\ \A p \in Places \ {AtOverflow, AtPending} : D[p] = E[p]
          BY <1>5, <2>2, <2>3, <3>2 DEF Beheading
      <4> HIDE DEF D
      <4>2. Remaining = Tail(overflow) /\ Promoted = <<h>>
          BY <1>7, <3>2 DEF Remaining, Promoted
      <4> QED BY <1>4, <1>5, <1>6, <2>2, <4>1, <4>2
    <3> QED BY <3>1, <3>2
  <2>6. NextInput(t) = pending BY <1>7 DEF NextInput
  <2> HIDE DEF D
  <2>7. Contents' = D BY <1>1, <1>2, <2>5, <2>6, InterruptTaken
  <2>8. All(D) \subseteq All(Contents) /\ All(Contents) \subseteq All(D) \union Gone'
      BY <1>3, <1>4, <1>7, <2>4, SupersededIs
  <2> QED BY <1>1, <1>3, <2>4, <2>7, <2>8, StillPlaced
<1>8. CASE pending = <<>> /\ overflow # <<>>
  <2> DEFINE D == Beheading(C, AtOverflow, AtStarted)
  <2>1. Distinct(D) /\ All(D) = All(C) BY <1>4, <1>5, <1>8, BeheadingDistinct
  <2>2. /\ D = [p \in Places |-> D[p]] /\ D[AtOverflow] = Tail(overflow)
        /\ D[AtStarted] = started \o <<h>>
        /\ \A p \in Places \ {AtOverflow, AtStarted} : D[p] = C[p]
      BY <1>4, <1>5 DEF Beheading
  <2> HIDE DEF D
  <2>3. NextInput(t) = <<h>> /\ Remaining = Tail(overflow) /\ Promoted = <<>>
      BY <1>8 DEF NextInput, Remaining, Promoted
  <2>4. /\ D[AtPending] = <<>> /\ D[AtInterrupt(t)] = <<>>
        /\ \A p \in Places \ {AtPending, AtOverflow, AtStarted, AtInterrupt(t)} :
             D[p] = Contents[p]
      BY <1>4, <1>5, <1>8, <2>2
  <2>5. Contents' = D BY <1>1, <1>2, <2>2, <2>3, <2>4, InterruptTaken
  <2>6. All(D) \subseteq All(Contents) /\ All(Contents) \subseteq All(D) \union Gone'
      BY <1>3, <1>4, <1>8, <2>1, SupersededIs
  <2> QED BY <1>1, <1>3, <2>1, <2>5, <2>6, StillPlaced
<1>9. CASE pending = <<>> /\ overflow = <<>>
  <2> DEFINE x == AtInterrupt(t)
             D == Poured(Contents, x, AtStarted)
  <2>1. Distinct(D) /\ All(D) = All(Contents) BY <1>5, Known, PouredDistinct
  <2>2. /\ D = [p \in Places |-> D[p]] /\ D[x] = <<>>
        /\ D[AtStarted] = Contents[AtStarted] \o Contents[x]
        /\ \A p \in Places \ {x, AtStarted} : D[p] = Contents[p]
      BY <1>5 DEF Poured
  <2> HIDE DEF D
  <2>3. NextInput(t) = task[t].interrupt /\ Remaining = <<>> /\ Promoted = <<>>
      BY <1>9 DEF NextInput, Remaining, Promoted
  <2>4. /\ D[AtStarted] = started \o task[t].interrupt
        /\ D[AtPending] = <<>> /\ D[AtOverflow] = <<>>
      BY <1>5, <1>9, <2>2, ContentsAre
  <2>5. Contents' = D BY <1>1, <1>2, <2>2, <2>3, <2>4, InterruptTaken
  <2>6. Gone' = Gone BY <1>3, <1>9, SupersededIs
  <2> QED BY <1>1, <1>3, <2>1, <2>5, <2>6, StillPlaced
<1> QED BY <1>7, <1>8, <1>9


LEMMA RunEndsPlaced ==
    ASSUME Basics, Placed, NEW t \in TaskIds, RunEnds(t) PROVE Placed'
<1> DEFINE C == Uninterrupted(t)
           h == Head(overflow)
           R == Range(Promoted \o NextInput(t)) \ Range(Requeued(t))
<1>1. /\ UNCHANGED <<buffer, arrived, started, signal>>
      /\ pending' = Requeued(t) /\ overflow' = Remaining
      /\ dropped' = [dropped EXCEPT !["depth cap"] = @ \union R,
                                    !["superseded"] = @ \union Superseded(t)]
      /\ task[t].at = "returned" /\ task[t].input = <<>>
    BY DEF RunEnds, Basics, HeldWhere
<1>2. /\ task'[t].input = task[t].input /\ task'[t].interrupt = <<>>
      /\ \A u \in TaskIds : u # t => task'[u] = task[u]
    BY RunEndsTasks DEF Becomes, KeptBut
<1>3. DropsOK' /\ Gone' = Gone \union R \union Superseded(t)
  <2> HIDE DEF R
  <2>1. dropped = [w \in Reasons |-> dropped[w]] BY DEF Placed, DropsOK
  <2>2. "depth cap" \in Reasons /\ "superseded" \in Reasons BY DEF Reasons
  <2>3. /\ dropped' = [w \in Reasons |-> dropped'[w]]
        /\ dropped'["depth cap"] = dropped["depth cap"] \union R
        /\ dropped'["superseded"] = dropped["superseded"] \union Superseded(t)
        /\ \A w \in Reasons \ {"depth cap", "superseded"} : dropped'[w] = dropped[w]
      BY <1>1, <2>1, <2>2
  <2>4. \A x : (\E w \in Reasons : x \in dropped'[w])
                 <=> (\E w \in Reasons : x \in dropped[w]) \/ x \in R \/ x \in Superseded(t)
      BY <2>2, <2>3
  <2>5. DropsOK' BY <2>3 DEF DropsOK, Reasons
  <2>6. Gone' = Gone \union R \union Superseded(t) BY <2>4 DEF Gone
  <2> QED BY <2>5, <2>6
<1>4. /\ C \in [Places -> Seq(Messages)] /\ Distinct(C) /\ All(C) \subseteq All(Contents)
      /\ All(Contents) \subseteq All(C) \union Range(task[t].interrupt)
      /\ C[AtInterrupt(t)] = <<>>
      /\ \A p \in Places \ {AtInterrupt(t)} : C[p] = Contents[p]
      /\ C[AtPending] = pending /\ C[AtOverflow] = overflow /\ C[AtStarted] = started
    BY UninterruptedIs
<1>5. /\ AtPending \in Places /\ AtOverflow \in Places /\ AtStarted \in Places
      /\ AtInterrupt(t) \in Places
      /\ AtPending # AtStarted /\ AtOverflow # AtPending /\ AtOverflow # AtStarted
      /\ AtInterrupt(t) \notin {AtPending, AtOverflow, AtStarted}
    BY PlacesApart
<1>6. <<>> \o <<h>> = <<h>> /\ <<h>> # <<>> BY Single, Joined
<1>7. pending \in Seq(Messages) /\ overflow \in Seq(Messages) BY DEF Basics, ContentsOK
<1> HIDE DEF C
<1>8. CASE overflow # <<>>
  <2> DEFINE E == Beheading(C, AtOverflow, AtPending)
             r == Requeued(t)
             D == Left(E, AtPending, r)
  <2>1. E \in [Places -> Seq(Messages)] /\ Distinct(E) /\ All(E) = All(C)
      BY <1>4, <1>5, <1>8, BeheadingDistinct
  <2>2. /\ E[AtOverflow] = Tail(overflow) /\ E[AtPending] = pending \o <<h>>
        /\ \A p \in Places \ {AtOverflow, AtPending} : E[p] = C[p]
      BY <1>4, <1>5 DEF Beheading
  <2> HIDE DEF E
  <2>3. <<h>> \in Seq(Messages) /\ Range(<<h>>) = {h} BY <1>8, NextInputOK
  <2>4. Range(E[AtPending]) = Range(pending) \union {h} /\ IsInjective(E[AtPending])
    <3> DEFINE e == <<h>>
    <3>1. e \in Seq(Messages) BY <2>3
    <3> HIDE DEF e
    <3>2. Range(pending \o e) = Range(pending) \union Range(e)
        BY <1>7, <3>1, Joined
    <3>3. Range(pending \o <<h>>) = Range(pending) \union Range(<<h>>)
        BY <3>2 DEF e
    <3> QED BY <1>5, <2>1, <2>2, <2>3, <3>3 DEF Distinct
  <2>5. r \in Seq(Messages) BY NextInputOK
  <2>6. \/ pending # <<>> /\ r \in {<<h>> \o pending, pending}
           /\ Promoted = <<h>> /\ NextInput(t) = pending
        \/ pending = <<>> /\ r = <<h>> /\ Promoted = <<>> /\ NextInput(t) = <<h>>
      BY <1>8 DEF Requeued, Merged, Promoted, NextInput
  <2>7. \A x \in Range(<<h>> \o pending) : x \in Range(pending) \/ x = h
    <3> DEFINE e == <<h>>
    <3>1. e \in Seq(Messages) BY <2>3
    <3> HIDE DEF e
    <3>2. Range(e \o pending) = Range(e) \union Range(pending)
        BY <1>7, <3>1, Joined
    <3> QED BY <2>3, <3>2 DEF e
  <2>8. Range(r) \subseteq Range(E[AtPending])
      BY <2>3, <2>4, <2>6, <2>7
  <2>9. IsInjective(r)
    <3>1. h \notin Range(pending)
      <4>1. h \in Range(overflow) BY <1>7, <1>8, Beheaded
      <4>2. Range(pending) \intersect Range(overflow) = {}
          BY <1>5, ContentsAre DEF Placed, Distinct
      <4> QED BY <4>1, <4>2
    <3>2. IsInjective(<<h>>) BY Single
    <3>3. IsInjective(pending) BY <1>5, ContentsAre DEF Placed, Distinct
    <3>4. IsInjective(<<h>> \o pending)
      <4>1. Range(<<h>>) \intersect Range(pending) = {} BY <2>3, <3>1
      <4> QED BY <1>7, <2>3, <3>2, <3>3, <4>1, JoinedInjective
    <3> QED BY <2>6, <3>2, <3>3, <3>4
  <2>10. Range(E[AtPending]) \ Range(r) \subseteq R
    <3>1. Range(Promoted \o NextInput(t)) = Range(Promoted) \union Range(NextInput(t))
        BY NextInputOK, Joined
    <3> QED BY <2>3, <2>4, <2>6, <3>1, RangeEmpty
  <2> HIDE DEF r, R
  <2>11. /\ Distinct(D) /\ All(D) \subseteq All(E)
         /\ All(E) \subseteq All(D) \union (Range(E[AtPending]) \ Range(r))
      BY <1>5, <2>1, <2>5, <2>8, <2>9, LeftDistinct
  <2>12. /\ D = [p \in Places |-> D[p]] /\ D[AtPending] = r
         /\ D[AtOverflow] = Tail(overflow) /\ D[AtStarted] = started
         /\ D[AtInterrupt(t)] = <<>>
         /\ \A p \in Places \ {AtPending, AtOverflow, AtStarted, AtInterrupt(t)} :
              D[p] = Contents[p]
      BY <1>4, <1>5, <2>2 DEF Left
  <2> HIDE DEF D
  <2>13. Remaining = Tail(overflow) BY <1>8 DEF Remaining
  <2>14. Contents' = D BY <1>1, <1>2, <2>12, <2>13, InterruptTaken DEF r
  <2>15. Superseded(t) = Range(task[t].interrupt) BY <1>8, SupersededIs
  <2>16. /\ All(D) \subseteq All(Contents) /\ Gone \subseteq Gone'
         /\ All(Contents) \subseteq All(D) \union Gone'
      BY <1>3, <1>4, <2>1, <2>10, <2>11, <2>15
  <2> QED BY <1>1, <1>3, <2>11, <2>14, <2>16, StillPlaced
<1>9. CASE overflow = <<>>
  <2>1. /\ Promoted = <<>> /\ Remaining = <<>> /\ pending' = pending
        /\ NextInput(t) = IF pending # <<>> THEN pending ELSE task[t].interrupt
      BY <1>1, <1>9 DEF Requeued, Merged, Promoted, Remaining, NextInput
  <2>2. /\ C = [p \in Places |-> C[p]]
        /\ \A p \in Places \ {AtPending, AtOverflow, AtStarted, AtInterrupt(t)} :
             C[p] = Contents[p]
      BY <1>4
  <2>3. Contents' = C
      BY <1>1, <1>2, <1>4, <1>9, <2>1, <2>2, InterruptTaken
  <2>4. Range(task[t].interrupt) \subseteq R \union Superseded(t)
    <3>1. CASE pending # <<>> BY <3>1, SupersededIs
    <3>2. CASE pending = <<>>
      <4>1. <<>> \o task[t].interrupt = task[t].interrupt /\ Range(<<>>) = {}
          BY TaskFields, Joined, RangeEmpty DEF Basics
      <4>2. Requeued(t) = <<>> BY <1>9, <3>2 DEF Requeued
      <4> QED BY <2>1, <3>2, <4>1, <4>2
    <3> QED BY <3>1, <3>2
  <2> HIDE DEF R
  <2>5. /\ Gone \subseteq Gone' /\ All(Contents) \subseteq All(C) \union Gone'
      BY <1>3, <1>4, <2>4
  <2> QED BY <1>1, <1>3, <1>4, <2>3, <2>5, StillPlaced
<1> QED BY <1>8, <1>9

\* The buffer, the slot or the overflow is emptied, and what it held let go.
LEMMA PlaceEmptied ==
    ASSUME Basics, Placed, UNCHANGED <<task, started, arrived>>,
           pending' \in {<<>>, pending}, buffer' \in {<<>>, buffer},
           overflow' \in {<<>>, overflow}, NEW a \in Agents,
           signal'[a].interrupt \in {<<>>, signal[a].interrupt},
           \A b \in Agents \ {a} : signal'[b].interrupt = signal[b].interrupt,
           NEW M, Drop("command", M), Range(pending) \subseteq Range(pending') \union M,
           Range(buffer) \subseteq Range(buffer') \union M,
           Range(overflow) \subseteq Range(overflow') \union M,
           Range(signal[a].interrupt) \subseteq Range(signal'[a].interrupt) \union M
    PROVE  Placed'
<1> DEFINE e == signal'[a].interrupt
           B == Left(Contents, AtAgent(a), e)
           C == Left(B, AtPending, pending')
           E == Left(C, AtBuffer, buffer')
           D == Left(E, AtOverflow, overflow')
<1>1. /\ AtPending \in Places /\ AtOverflow \in Places /\ AtBuffer \in Places
      /\ AtPending # AtBuffer /\ AtOverflow # AtPending /\ AtOverflow # AtBuffer
      /\ AtAgent(a) \in Places /\ AtAgent(a) \notin {AtPending, AtBuffer, AtOverflow}
    BY PlacesApart
<1>2. /\ Contents \in [Places -> Seq(Messages)] /\ Distinct(Contents)
      /\ Contents[AtPending] = pending /\ Contents[AtBuffer] = buffer
      /\ Contents[AtOverflow] = overflow /\ Contents[AtAgent(a)] = signal[a].interrupt
    BY Known, ContentsAre
<1>3. <<>> \in Seq(Messages) /\ Range(<<>>) = {} /\ IsInjective(<<>>)
    BY EmptySeq, RangeEmpty
<1>4. /\ pending \in Seq(Messages) /\ buffer \in Seq(Messages) /\ overflow \in Seq(Messages)
      /\ IsInjective(pending) /\ IsInjective(buffer) /\ IsInjective(overflow)
      /\ signal[a].interrupt \in Seq(Messages) /\ IsInjective(signal[a].interrupt)
    BY <1>1, <1>2 DEF Distinct
<1>5. /\ pending' \in Seq(Messages) /\ IsInjective(pending') /\ Range(pending') \subseteq Range(pending)
      /\ buffer' \in Seq(Messages) /\ IsInjective(buffer') /\ Range(buffer') \subseteq Range(buffer)
      /\ overflow' \in Seq(Messages) /\ IsInjective(overflow')
      /\ Range(overflow') \subseteq Range(overflow)
      /\ e \in Seq(Messages) /\ IsInjective(e) /\ Range(e) \subseteq Range(signal[a].interrupt)
      /\ Range(signal[a].interrupt) \ Range(e) \subseteq M
    BY <1>3, <1>4
<1> HIDE DEF e
<1>0. /\ B \in [Places -> Seq(Messages)] /\ Distinct(B) /\ All(B) \subseteq All(Contents)
      /\ All(Contents) \subseteq All(B) \union M /\ B[AtAgent(a)] = e
      /\ B[AtPending] = pending /\ B[AtBuffer] = buffer /\ B[AtOverflow] = overflow
      /\ \A p \in Places : p # AtAgent(a) => B[p] = Contents[p]
  <2>1. /\ B \in [Places -> Seq(Messages)] /\ Distinct(B) /\ All(B) \subseteq All(Contents)
        /\ All(Contents) \subseteq All(B) \union (Range(Contents[AtAgent(a)]) \ Range(e))
      BY <1>1, <1>2, <1>5, LeftDistinct
  <2>2. B[AtAgent(a)] = e /\ \A p \in Places : p # AtAgent(a) => B[p] = Contents[p]
      BY <1>1 DEF Left
  <2> HIDE DEF B
  <2> QED BY <1>1, <1>2, <1>5, <2>1, <2>2
<1> HIDE DEF B
<1>6. /\ C \in [Places -> Seq(Messages)] /\ Distinct(C) /\ All(C) \subseteq All(Contents)
      /\ All(Contents) \subseteq All(C) \union M
  <2>1. /\ C \in [Places -> Seq(Messages)] /\ Distinct(C) /\ All(C) \subseteq All(B)
        /\ All(B) \subseteq All(C) \union (Range(B[AtPending]) \ Range(pending'))
      BY <1>0, <1>1, <1>5, LeftDistinct
  <2> HIDE DEF C
  <2> QED BY <1>0, <2>1
<1>7. C[AtBuffer] = buffer /\ C[AtOverflow] = overflow
      /\ \A p \in Places : p # AtPending => C[p] = B[p]
    BY <1>0, <1>1 DEF Left
<1>8. C = [p \in Places |-> C[p]] /\ C[AtPending] = pending' BY <1>1 DEF Left
<1> HIDE DEF C
<1>9. /\ E \in [Places -> Seq(Messages)] /\ Distinct(E) /\ All(E) \subseteq All(Contents)
      /\ All(Contents) \subseteq All(E) \union M
  <2>1. /\ E \in [Places -> Seq(Messages)] /\ Distinct(E) /\ All(E) \subseteq All(C)
        /\ All(C) \subseteq All(E) \union (Range(C[AtBuffer]) \ Range(buffer'))
      BY <1>1, <1>5, <1>6, <1>7, LeftDistinct
  <2> HIDE DEF E
  <2> QED BY <1>6, <1>7, <2>1
<1>10. /\ E[AtOverflow] = overflow /\ E[AtBuffer] = buffer' /\ E[AtPending] = pending'
       /\ \A p \in Places : p # AtPending /\ p # AtBuffer => E[p] = B[p]
    BY <1>1, <1>7, <1>8 DEF Left
<1> HIDE DEF E
<1>11. /\ Distinct(D) /\ All(D) \subseteq All(Contents)
       /\ All(Contents) \subseteq All(D) \union M
  <2>1. /\ Distinct(D) /\ All(D) \subseteq All(E)
        /\ All(E) \subseteq All(D) \union (Range(E[AtOverflow]) \ Range(overflow'))
      BY <1>1, <1>5, <1>9, <1>10, LeftDistinct
  <2> HIDE DEF D
  <2> QED BY <1>9, <1>10, <2>1
<1>12. /\ D = [p \in Places |-> D[p]]
       /\ D[AtPending] = pending' /\ D[AtBuffer] = buffer' /\ D[AtOverflow] = overflow'
       /\ \A p \in Places \ {AtPending, AtBuffer, AtOverflow} : D[p] = B[p]
    BY <1>1, <1>10 DEF Left
<1> HIDE DEF D
<1>13. D[AtStarted] = started' BY <1>0, <1>12, PlacesApart, ContentsAre
<1>14. \A u \in TaskIds : D[AtInput(u)] = task'[u].input /\ D[AtInterrupt(u)] = task'[u].interrupt
    BY <1>0, <1>12, PlacesApart, ContentsAre
<1>17. \A b \in Agents : D[AtAgent(b)] = signal'[b].interrupt
  <2>1. D[AtAgent(a)] = signal'[a].interrupt BY <1>0, <1>1, <1>12 DEF e
  <2>2. ASSUME NEW b \in Agents \ {a} PROVE D[AtAgent(b)] = signal'[b].interrupt
      BY <1>0, <1>12, PlacesApart, ContentsAre
  <2> QED BY <2>1, <2>2
<1>15. Contents' = D BY <1>12, <1>13, <1>14, <1>17, ContentsBecome
<1>16. DropsOK' /\ Gone' = Gone \union M BY Dropping DEF Placed, Reasons
<1> QED BY <1>11, <1>15, <1>16, StillPlaced

LEMMA CommandArrivesPlaced ==
    ASSUME Basics, Placed, CommandArrives PROVE Placed'
<1>1. /\ UNCHANGED <<task, started, arrived, pending, overflow, signal>>
      /\ buffer' = <<>> /\ Drop("command", Range(buffer))
    BY DEF CommandArrives
<1>2. <<1, 0>> \in Agents BY Bounds DEF Agents, TaskIds
<1> QED BY <1>1, <1>2, PlaceEmptied

LEMMA CommandHandledPlaced ==
    ASSUME Basics, Placed, CommandHandled PROVE Placed'
<1> DEFINE active == slot # Nobody
           new == script[cmd.done] = "new"
           M == (IF active THEN Range(pending) ELSE {})
                  \union (IF new THEN Range(overflow) ELSE {})
                  \union UNION {Range(signal[a].interrupt) : a \in CommandedAgents}
<1>1. /\ UNCHANGED <<task, started, arrived, buffer>>
      /\ pending' = IF active THEN <<>> ELSE pending
      /\ overflow' = IF new THEN <<>> ELSE overflow
      /\ Drop("command", M)
    BY DEF CommandHandled, CommandedAgents
<1>2. /\ Range(pending) \subseteq Range(pending') \union M
      /\ Range(overflow) \subseteq Range(overflow') \union M
    BY <1>1
<1>3. \A a \in CommandedAgents : Range(signal[a].interrupt) \subseteq M OBVIOUS
<1> HIDE DEF M, active, new
<1>4. /\ \A b \in Agents : signal'[b] = IF b \in CommandedAgents THEN Silent ELSE signal[b]
      /\ Silent.interrupt = <<>>
    BY CommandHandledSignal DEF Silent
<1>5. CASE CommandedAgents = {}
  <2>1. <<1, 0>> \in Agents BY Bounds DEF Agents, TaskIds
  <2> QED BY <1>1, <1>2, <1>4, <1>5, <2>1, PlaceEmptied
<1>6. CASE CommandedAgents # {}
  <2> DEFINE a == task[slot].agent
  <2>1. slot # Nobody /\ a # NoAgent /\ CommandedAgents = {a}
      BY <1>6 DEF CommandedAgents
  <2>2. a \in Agents BY <2>1, InterruptedIs
  <2>3. signal'[a].interrupt = <<>> /\ \A b \in Agents \ {a} : signal'[b] = signal[b]
      BY <1>4, <2>1, <2>2
  <2>4. Range(signal[a].interrupt) \subseteq M BY <1>3, <2>1
  <2> HIDE DEF a
  <2> QED BY <1>1, <1>2, <2>2, <2>3, <2>4, PlaceEmptied
<1> QED BY <1>5, <1>6

LEMMA CommandCancelsPlaced ==
    ASSUME Basics, Placed, CommandCancels PROVE Placed'
<1>1. UNCHANGED <<pending, buffer, overflow, started, arrived, signal>> BY DEF CommandCancels
<1>2. CASE owner = Nobody /\ UNCHANGED <<task, dropped>>
    BY <1>1, <1>2, SameContents
<1>3. CASE owner \in TaskIds /\ ~(owner = Nobody /\ UNCHANGED <<task, dropped>>)
  <2> DEFINE M == IF task[owner].at \in {"handoff", "cleanup"} THEN {}
                  ELSE Range(task[owner].input \o task[owner].interrupt)
             e == IF task[owner].at = "handoff" THEN task[owner].input ELSE <<>>
  <2>0. /\ KeptBut({owner}) /\ Drop("command", M)
        /\ \E next \in CancelledTo(task[owner].at) : Becomes(owner, next, e, <<>>)
      BY <1>3, CommandCancelsTasks
  <2>1. PICK next : KeptBut({owner}) /\ Drop("command", M) /\ Becomes(owner, next, e, <<>>)
      BY <2>0
  <2>2. /\ \A u \in TaskIds : u # owner => task'[u] = task[u]
        /\ task'[owner].input = e /\ task'[owner].interrupt = <<>>
      BY <2>1 DEF KeptBut, Becomes
  <2>3. DropsOK' /\ Gone' = Gone \union M BY <2>1, Dropping DEF Placed, Reasons
  <2>4. Range(task[owner].input \o task[owner].interrupt)
          = Range(task[owner].input) \union Range(task[owner].interrupt)
      BY <1>3, TaskFields, Joined DEF Basics
  <2>5. /\ task[owner].at \in {"handoff", "cleanup"} => task[owner].interrupt = <<>>
        /\ task[owner].at = "cleanup" => task[owner].input = <<>>
        /\ Range(<<>>) = {}
      BY <1>3, RangeEmpty DEF Basics, HeldWhere
  <2>6. /\ Range(task[owner].input) \ Range(task'[owner].input) \subseteq Gone'
        /\ Range(task[owner].interrupt) \ Range(task'[owner].interrupt) \subseteq Gone'
        /\ Gone \subseteq Gone'
    <3>1. CASE task[owner].at \in {"handoff", "cleanup"}
        BY <2>2, <2>3, <2>5, <3>1
    <3>2. CASE task[owner].at \notin {"handoff", "cleanup"}
        BY <2>3, <2>4, <3>2
    <3> QED BY <3>1, <3>2
  <2>7. /\ task'[owner].input \in {<<>>, task[owner].input}
        /\ task'[owner].interrupt \in {<<>>, task[owner].interrupt}
      BY <2>2
  <2> QED BY <1>1, <1>3, <2>2, <2>3, <2>6, <2>7, TaskLetsGo
<1> QED BY <1>2, <1>3, CommandCancelsTasks

LEMMA CommandDrainsPlaced ==
    ASSUME Basics, Placed, CommandDrains PROVE Placed'
<1>1. /\ UNCHANGED <<arrived, dropped, overflow, started, signal>>
      /\ pending' = <<>> /\ buffer' = FlushedBuffer
    BY DEF CommandDrains
<1>2. CASE FlushedPending # <<>>
  <2>1. NextTask \in TaskIds /\ task' = [task EXCEPT ![NextTask] = NewTask(FlushedPending, NextTask)]
      BY <1>2 DEF CommandDrains, StartProcessing
  <2>2. /\ SameScenario /\ gen' = gen /\ NextTask \in Nat /\ FlushedPending \in Seq(Messages)
      BY <2>1, Flushed, Bounds DEF CommandDrains, SameScenario, TaskIds, Basics
  <2>3. KeptBut({NextTask}) /\ Born(NextTask, FlushedPending, NextTask)
      BY <2>1, <2>2, Takeover
  <2>4. /\ task[NextTask].input = <<>> /\ task[NextTask].interrupt = <<>>
        /\ task'[NextTask].input = FlushedPending /\ task'[NextTask].interrupt = <<>>
      BY <2>3, BornHolds
  <2>5. /\ \A u \in TaskIds : u # NextTask => task'[u].input = task[u].input
        /\ \A u \in TaskIds : task'[u].interrupt = task[u].interrupt
      BY <2>3, <2>4 DEF KeptBut
  <2> QED BY <1>1, <2>1, <2>4, <2>5, FlushedToTask
<1>3. CASE FlushedPending = <<>>
  <2>1. UNCHANGED task BY <1>3 DEF CommandDrains
  <2>2. pending = <<>> /\ buffer = <<>> /\ FlushedBuffer = <<>>
      BY <1>3, Flushed DEF Basics
  <2> QED BY <1>1, <2>1, <2>2, SameContents
<1> QED BY <1>2, <1>3

LEMMA LoopEndsPlaced ==
    ASSUME Basics, Placed, NEW t \in TaskIds, LoopEnds(t) PROVE Placed'
<1> DEFINE a == task[t].agent
           y == AtAgent(a)
           x == AtInterrupt(t)
           D == Poured(Contents, y, x)
<1>1. UNCHANGED <<pending, buffer, overflow, started, arrived>> BY DEF LoopEnds
<1>2. /\ a \in Agents /\ task[t].interrupt = <<>> /\ signal'[a].interrupt = <<>>
      /\ \A b \in Agents \ {a} : signal'[b] = signal[b]
      /\ KeptBut({t})
    BY LoopEndsTasks
<1>3. \A u \in TaskIds : u # t => task'[u] = task[u] BY <1>2 DEF KeptBut
<1> HIDE DEF a
<1>4. CASE /\ Becomes(t, "returned", task[t].input, <<>>)
           /\ Drop("unnoticed", Range(signal[a].interrupt))
  <2>1. task'[t].input = task[t].input /\ task'[t].interrupt = task[t].interrupt
      BY <1>2, <1>4 DEF Becomes
  <2>2. "unnoticed" \in Reasons BY DEF Reasons
  <2> QED BY <1>1, <1>2, <1>3, <1>4, <2>1, <2>2, AgentLetsGo
<1>5. CASE /\ Becomes(t, "returned", task[t].input, signal[a].interrupt)
           /\ UNCHANGED dropped
  <2>1. task'[t].input = task[t].input /\ task'[t].interrupt = signal[a].interrupt
      BY <1>5 DEF Becomes
  <2>2. y \in Places /\ x \in Places /\ y # x BY <1>2, PlacesApart
  <2>3. Contents[y] = signal[a].interrupt /\ Contents[x] = <<>> BY <1>2, ContentsAre
  <2>4. <<>> \o signal[a].interrupt = signal[a].interrupt BY <1>2, SignalFields, Joined
  <2>5. /\ D = [p \in Places |-> D[p]] /\ D[y] = <<>> /\ D[x] = Contents[x] \o Contents[y]
        /\ \A p \in Places \ {y, x} : D[p] = Contents[p]
      BY <2>2, PouredAt
  <2> HIDE DEF D
  <2>6. D[x] = signal[a].interrupt BY <2>3, <2>4, <2>5
  <2>7. /\ D[AtPending] = pending' /\ D[AtBuffer] = buffer'
        /\ D[AtOverflow] = overflow' /\ D[AtStarted] = started'
      BY <1>1, <1>2, <2>5, PlacesApart, ContentsAre
  <2>8. \A u \in TaskIds : D[AtInput(u)] = task'[u].input /\ D[AtInterrupt(u)] = task'[u].interrupt
      BY <1>2, <1>3, <2>1, <2>5, <2>6, PlacesApart, ContentsAre
  <2>9. \A b \in Agents : D[AtAgent(b)] = signal'[b].interrupt
      BY <1>2, <2>5, PlacesApart, ContentsAre
  <2>10. Contents' = D BY <2>5, <2>7, <2>8, <2>9, ContentsBecome
  <2> QED BY <1>1, <1>5, <2>2, <2>10, Known, JustPoured DEF D
<1> QED BY <1>4, <1>5, LoopEndsTasks DEF a

LEMMA RunTimesOutPlaced ==
    ASSUME Basics, Placed, NEW t \in TaskIds, RunTimesOut(t) PROVE Placed'
<1> DEFINE a == task[t].agent
<1>1. /\ UNCHANGED <<pending, buffer, overflow, started, arrived>>
      /\ Drop("failed", Range(signal[a].interrupt))
    BY DEF RunTimesOut
<1>2. /\ a \in Agents /\ signal'[a].interrupt = <<>>
      /\ \A b \in Agents \ {a} : signal'[b] = signal[b]
      /\ KeptBut({t}) /\ Becomes(t, "delivering", task[t].input, task[t].interrupt)
    BY RunTimesOutTasks
<1>3. \A u \in TaskIds : task'[u].input = task[u].input /\ task'[u].interrupt = task[u].interrupt
    BY <1>2 DEF KeptBut, Becomes
<1>4. "failed" \in Reasons BY DEF Reasons
<1> HIDE DEF a
<1> QED BY <1>1, <1>2, <1>3, <1>4, AgentLetsGo

LEMMA PeekPlaced ==
    ASSUME Basics, Placed, NEW t \in TaskIds, Peek(t) PROVE Placed'
<1>1. UNCHANGED <<pending, buffer, overflow, started, arrived, task>> BY DEF Peek
<1>2. PICK a \in Agents : /\ signal'[a].interrupt = <<>>
                          /\ \A b \in Agents \ {a} : signal'[b] = signal[b]
                          /\ Drop("superseded", Range(signal[a].interrupt))
    BY PeekSignal
<1>3. "superseded" \in Reasons BY DEF Reasons
<1> QED BY <1>1, <1>2, <1>3, AgentLetsGo

LEMMA InitPlaced == Init => Placed
<1> SUFFICES ASSUME Init PROVE Placed OBVIOUS
<1>1. /\ pending = <<>> /\ buffer = <<>> /\ overflow = <<>> /\ started = <<>>
      /\ task = [t \in TaskIds |-> NoTask] /\ arrived = 0
      /\ dropped = [why \in Reasons |-> {}]
    BY DEF Init
<1>2. NoTask.input = <<>> /\ NoTask.interrupt = <<>> BY DEF NoTask
<1>6. \A a \in Agents : signal[a].interrupt = <<>> BY DEF Init, Silent
<1>3. \A p \in Places : Contents[p] = <<>>
    BY <1>1, <1>2, <1>6, ContentsAre DEF Places
<1>4. Distinct(Contents) /\ All(Contents) = {}
    BY <1>3, RangeEmpty DEF Distinct, All
<1>5. DropsOK BY <1>1 DEF DropsOK
<1> QED BY <1>1, <1>4, <1>5 DEF Placed

LEMMA PlacedStep == Basics /\ Placed /\ [Next]_vars => Placed'
<1> SUFFICES ASSUME Basics, Placed, [Next]_vars PROVE Placed' OBVIOUS
<1>1. ASSUME NEW m \in Messages,
             ReceiveIdle(m) \/ ReceivePhoto(m) \/ ReceiveText(m) \/ ReceiveQueue(m)
      PROVE  Placed'
    BY <1>1, ReceiveIdlePlaced, ReceivePhotoPlaced, ReceiveTextPlaced, ReceiveQueuePlaced
<1>2. CASE TimerFires BY <1>2, TimerFiresPlaced
<1>3. ASSUME NEW t \in TaskIds, TaskStep(t) \/ Peek(t) PROVE Placed'
    BY <1>3, ClaimPlaced, BusyPlaced, RunStartsPlaced, LoopEndsPlaced, RunTimesOutPlaced,
       PeekPlaced, FollowUpPlaced, RunEndsPlaced,
       RunFailsPlaced, DeliverPlaced, HandOffPlaced, UnwindPlaced, CleanupPlaced
       DEF TaskStep
<1>4. CASE CommandArrives BY <1>4, CommandArrivesPlaced
<1>5. CASE CommandFails \/ UNCHANGED vars
  <2>1. UNCHANGED <<pending, buffer, overflow, started, arrived, dropped, task, signal>>
      BY <1>5 DEF CommandFails, vars
  <2> QED BY <2>1, SameContents
<1>6. CASE CommandContinues
    BY <1>5, <1>6, CommandHandledPlaced, CommandCancelsPlaced, CommandDrainsPlaced
       DEF CommandContinues
<1> QED BY <1>1, <1>2, <1>3, <1>4, <1>5, <1>6 DEF Next

LEMMA PlacedMeans ==
    ASSUME Basics, Placed
    PROVE  /\ MessagesAccounted /\ IsInjective(started)
           /\ (Waiting \union Standing) \intersect Range(started) = {}
<1>1. \A t \in TaskIds : Range(task[t].input \o task[t].interrupt)
                           = Range(task[t].input) \union Range(task[t].interrupt)
    BY TaskFields, Joined DEF Basics
<1>2. \A x : (\E p \in Places : x \in Range(Contents[p])) =>
               \/ x \in Range(pending) \/ x \in Range(buffer) \/ x \in Range(overflow)
               \/ x \in Range(started)
               \/ \E t \in TaskIds : x \in Range(task[t].input) \union Range(task[t].interrupt)
               \/ \E a \in Agents : x \in Range(signal[a].interrupt)
    BY ContentsAre DEF Places
<1>3. \A x : x \in Waiting <=>
               \/ x \in Range(pending) \/ x \in Range(buffer) \/ x \in Range(overflow)
               \/ \E t \in TaskIds : x \in Range(task[t].input) \union Range(task[t].interrupt)
    BY <1>1 DEF Waiting
<1>4. \A x : x \in Standing <=> \E a \in Agents : x \in Range(signal[a].interrupt)
    BY DEF Standing
<1>5. MessagesAccounted
    BY <1>2, <1>3, <1>4 DEF Placed, All, MessagesAccounted
<1>6. AtStarted \in Places /\ Contents[AtStarted] = started BY PlacesApart, ContentsAre
<1>7. IsInjective(started) BY <1>6 DEF Placed, Distinct
<1>8. \A p \in Places \ {AtStarted} : Range(Contents[p]) \intersect Range(started) = {}
    BY <1>6 DEF Placed, Distinct
<1>9. /\ Range(pending) \intersect Range(started) = {}
      /\ Range(buffer) \intersect Range(started) = {}
      /\ Range(overflow) \intersect Range(started) = {}
    BY <1>8, PlacesApart, ContentsAre
<1>10. \A t \in TaskIds : /\ Range(task[t].input) \intersect Range(started) = {}
                          /\ Range(task[t].interrupt) \intersect Range(started) = {}
    BY <1>8, PlacesApart, ContentsAre
<1>11. \A a \in Agents : Range(signal[a].interrupt) \intersect Range(started) = {}
    BY <1>8, PlacesApart, ContentsAre
<1>12. (Waiting \union Standing) \intersect Range(started) = {}
    BY <1>3, <1>4, <1>9, <1>10, <1>11
<1> QED BY <1>5, <1>7, <1>12

LEMMA PlacedAlways == Spec => [](Basics /\ Placed)
<1>1. Init => Basics /\ Placed BY InitBasics, InitPlaced
<1>2. Basics /\ Placed /\ [Next]_vars => (Basics /\ Placed)'
    BY BasicsStep, PlacedStep
<1> QED BY <1>1, <1>2, PTL DEF Spec

\* A message received is waiting, stands on an agent it was to interrupt, was
\* given to an agent, or was let go where the code lets messages go: the
\* hand-overs between slot, buffer, overflow, tasks, agents and commands lose
\* none, however they interleave.
THEOREM AccountedTheorem == Spec => []MessagesAccounted
BY PlacedAlways, PlacedMeans, PTL

----------------------------------------------------------------------------
(* At rest.                                                                *)

\* Nothing is stranded while a task lives or a command runs, where nothing is
\* held, or behind a command that raised.
LEMMA NotAtRest ==
    ASSUME \/ cmd'.at # "idle" \/ \E t \in TaskIds : task'[t].at \notin {"none", "done"}
           \/ pending' = <<>> /\ buffer' = <<>>
           \/ cmd'.failed
    PROVE  NothingStranded'
BY DEF NothingStranded, Quiet, Live, TaskIds

\* A guarded session that is quiet has no owner: nobody will release it.
LEMMA QuietIsTrapped ==
    ASSUME Basics, Quiet, guard # 0 PROVE Trapped
BY DEF Basics, ScalarsOK, OwnerLive, Quiet, Trapped

\* What a message leaves behind at rest, it leaves behind a trapped guard.
LEMMA ArrivalStranding ==
    ASSUME Basics, guard # 0, UNCHANGED <<guard, owner, task, cmd>>
    PROVE  NothingStranded'
<1>1. CASE Quiet
  <2>1. Trapped BY <1>1, QuietIsTrapped
  <2>2. Trapped' BY <2>1 DEF Trapped, Quiet, Live, TaskIds, Nobody
  <2> QED BY <2>2 DEF NothingStranded
<1>2. CASE ~Quiet
  <2>1. ~Quiet' BY <1>2 DEF Quiet, Live, TaskIds
  <2> QED BY <2>1 DEF NothingStranded
<1> QED BY <1>1, <1>2

LEMMA MessagesStranding ==
    ASSUME Basics, NEW m \in Messages,
           ReceiveIdle(m) \/ ReceivePhoto(m) \/ ReceiveText(m) \/ ReceiveQueue(m)
    PROVE  NothingStranded'
<1>1. ASSUME ReceiveIdle(m) PROVE NothingStranded'
  <2>0. SignalsOK' BY <1>1, SignalsStep DEF Next
  <2>1. Born(NextTask, <<m>>, NextTask) BY <1>1, <2>0, ReceiveIdleBasics
  <2>2. NextTask \in TaskIds /\ task'[NextTask].at = "starting" BY <2>1, BornHolds
  <2> QED BY <2>2, NotAtRest
<1>2. ASSUME ReceivePhoto(m) PROVE NothingStranded'
    BY <1>2, ArrivalStranding DEF ReceivePhoto
<1>3. ASSUME ReceiveText(m) PROVE NothingStranded'
    BY <1>3, ArrivalStranding DEF ReceiveText
<1>4. ASSUME ReceiveQueue(m) PROVE NothingStranded'
    BY <1>4, ArrivalStranding DEF ReceiveQueue
<1> QED BY <1>1, <1>2, <1>3, <1>4

LEMMA TimerStranding ==
    ASSUME Basics, NothingStranded, TimerFires PROVE NothingStranded'
<1>1. UNCHANGED <<guard, owner, task, cmd>> BY DEF TimerFires
<1>2. pending' # <<>> \/ buffer' # <<>> => pending # <<>> \/ buffer # <<>>
    BY Flushed DEF Basics, TimerFires
<1>3. (Quiet <=> Quiet') /\ (Trapped <=> Trapped')
    BY <1>1 DEF Quiet, Trapped, Live, TaskIds, Nobody
<1> QED BY <1>1, <1>2, <1>3 DEF NothingStranded

\* Until its clean-up is over a task is alive after each of its steps.
LEMMA TaskStranding ==
    ASSUME Basics, NEW t \in TaskIds, TaskStep(t), ~Cleanup(t)
    PROVE  NothingStranded'
<1>1. task'[t].at \notin {"none", "done"}
    BY ClaimTasks, BusyTasks, RunStartsTasks, LoopEndsTasks, RunTimesOutTasks, FollowUpTasks, 
       RunEndsTasks, RunFailsTasks, DeliverTasks, HandOffTasks, UnwindTasks DEF TaskStep, Becomes
<1> QED BY <1>1, NotAtRest

LEMMA CleanupStranding ==
    ASSUME Basics, NEW t \in TaskIds, Cleanup(t) PROVE NothingStranded'
<1>1. CleanupTasks(t) /\ buffer' = FlushedBuffer BY CleanupEffect DEF Cleanup
<1>2. CASE Born(NextTask, FlushedPending, AdoptedGuard)
  <2>1. NextTask \in TaskIds /\ task'[NextTask].at = "starting" BY <1>2, BornHolds
  <2> QED BY <2>1, NotAtRest
<1>3. CASE KeptBut({t}) /\ owner \notin {Nobody, t}
  <2>1. owner \in TaskIds /\ Live(owner)
      BY <1>3 DEF Basics, ScalarsOK, OwnerLive
  <2>2. task'[owner].at \notin {"none", "done"} BY <1>3, <2>1 DEF KeptBut, Live
  <2> QED BY <2>1, <2>2, NotAtRest
<1>4. CASE FlushedPending = <<>> /\ pending' = <<>>
    BY <1>1, <1>4, Flushed, NotAtRest DEF Basics
<1> QED BY <1>1, <1>2, <1>3, <1>4 DEF CleanupTasks

LEMMA CommandStranding ==
    ASSUME Basics, CommandArrives \/ CommandContinues PROVE NothingStranded'
<1>1. CASE CommandArrives \/ CommandHandled \/ CommandCancels
  <2>1. CommandOK BY DEF Basics
  <2>2. CommandArrives => cmd'.at = "handling" BY <2>1 DEF CommandArrives, CommandOK
  <2>3. CommandHandled => cmd'.at = "replying" BY <2>1 DEF CommandHandled, CommandOK
  <2>4. CommandCancels => cmd'.at = "waiting" BY <2>1 DEF CommandCancels, CommandOK
  <2> QED BY <1>1, <2>2, <2>3, <2>4, NotAtRest
<1>2. CASE CommandDrains
  <2>1. CASE FlushedPending # <<>>
    <3>1. NextTask \in TaskIds /\ task' = [task EXCEPT ![NextTask] = NewTask(FlushedPending, NextTask)]
        BY <1>2, <2>1 DEF CommandDrains, StartProcessing
    <3>2. /\ SameScenario /\ gen' = gen /\ NextTask \in Nat /\ FlushedPending \in Seq(Messages)
        BY <1>2, <3>1, Flushed, Bounds DEF CommandDrains, SameScenario, TaskIds, Basics
    <3>3. Born(NextTask, FlushedPending, NextTask) BY <3>1, <3>2, Takeover
    <3>4. task'[NextTask].at = "starting" BY <3>3, BornHolds
    <3> QED BY <3>1, <3>4, NotAtRest
  <2>2. CASE FlushedPending = <<>>
    <3>1. pending' = <<>> /\ buffer' = FlushedBuffer BY <1>2 DEF CommandDrains
    <3>2. FlushedBuffer = <<>> BY <2>2, Flushed DEF Basics
    <3> QED BY <3>1, <3>2, NotAtRest
  <2> QED BY <2>1, <2>2
<1>3. CASE CommandFails
  <2>1. cmd'.failed BY <1>3 DEF CommandFails, Idle
  <2> QED BY <2>1, NotAtRest
<1> QED BY <1>1, <1>2, <1>3 DEF CommandContinues

LEMMA StrandedStep ==
    Basics /\ NothingStranded /\ [Next]_vars => NothingStranded'
<1> SUFFICES ASSUME Basics, NothingStranded, [Next]_vars PROVE NothingStranded' OBVIOUS
<1>1. ASSUME NEW m \in Messages,
             ReceiveIdle(m) \/ ReceivePhoto(m) \/ ReceiveText(m) \/ ReceiveQueue(m)
      PROVE  NothingStranded'
    BY <1>1, MessagesStranding
<1>2. CASE TimerFires BY <1>2, TimerStranding
<1>3. ASSUME NEW t \in TaskIds, TaskStep(t) PROVE NothingStranded'
    BY <1>3, TaskStranding, CleanupStranding
<1>6. ASSUME NEW t \in TaskIds, Peek(t) PROVE NothingStranded'
  <2>1. task'[t].at = "running" BY <1>6 DEF Peek
  <2> QED BY <2>1, NotAtRest
<1>4. CASE CommandArrives \/ CommandContinues BY <1>4, CommandStranding
<1>5. CASE UNCHANGED vars
    BY <1>5 DEF vars, NothingStranded, Quiet, Trapped, Live, TaskIds, Nobody
<1> QED BY <1>1, <1>2, <1>3, <1>4, <1>5, <1>6 DEF Next

\* At rest a message is held only behind a command that raised or a guard
\* without an owner: a task that ends, late, cancelled or not, hands on what
\* it finds or leaves it to a live owner, and so does a command.
THEOREM StrandedTheorem == Spec => []NothingStranded
<1>1. Init => NothingStranded BY DEF Init, NothingStranded
<1> QED BY <1>1, InitBasics, BasicsStep, StrandedStep, PTL DEF Spec


----------------------------------------------------------------------------
(* A session left alone: nobody types /stop or /new.                       *)

NoCommands == cmd = Idle
OnlyOwnerWorks == \A t \in TaskIds : Working(t) => owner = t
\* Guard and owner come and go together, and the owner will release the guard.
GuardIsOwners == /\ guard = 0 <=> owner = Nobody
                 /\ owner # Nobody => task[owner].gd = guard
\* The slot is held during a run only: no second handler finds it taken.
InRun == {"setup", "running", "returned"}
RunInSlot == slot # Nobody => task[slot].at \in InRun
NoneInterrupted == \A t \in TaskIds : task[t].interrupt = <<>>
NoneSignalled == \A a \in Agents : signal[a].interrupt = <<>>
NothingBehindIdle == guard = 0 => pending = <<>> /\ buffer = <<>>
NothingTaken ==
    dropped["command"] = {} /\ dropped["superseded"] = {} /\ dropped["unnoticed"] = {}

ByItself == /\ NoCommands /\ OnlyOwnerWorks /\ GuardIsOwners /\ RunInSlot
            /\ NoneInterrupted /\ NoneSignalled /\ NothingBehindIdle /\ NothingTaken
Alone == script = <<>> => ByItself

LEMMA TakesNothing ==
    ASSUME NothingTaken, UNCHANGED dropped PROVE NothingTaken'
BY DEF NothingTaken

LEMMA TakesOtherwise ==
    ASSUME Placed, NothingTaken, NEW why \in Reasons, NEW M, Drop(why, M),
           why \in {"command", "superseded", "unnoticed"} => M = {}
    PROVE  NothingTaken'
<1>1. "command" \in Reasons /\ "superseded" \in Reasons /\ "unnoticed" \in Reasons BY DEF Reasons
<1>2. /\ dropped'[why] = dropped[why] \union M
      /\ \A w \in Reasons \ {why} : dropped'[w] = dropped[w]
    BY Dropping DEF Placed
<1> QED BY <1>1, <1>2 DEF NothingTaken

\* The run in the slot is the owner's.
LEMMA SlotIsOwners ==
    ASSUME Basics, ByItself
    PROVE  /\ slot \in {owner, Nobody}
           /\ slot # Nobody => slot \in TaskIds /\ task[slot].at \in InRun
           /\ (\A t \in TaskIds : task[t].at \notin InRun) => slot = Nobody
<1>1. slot \in TaskIds \union {Nobody} BY DEF Basics, ScalarsOK
<1>2. slot # Nobody => slot \in TaskIds /\ task[slot].at \in InRun
    BY <1>1 DEF ByItself, RunInSlot
<1>3. slot # Nobody => owner = slot
    BY <1>2 DEF ByItself, OnlyOwnerWorks, Working, Live, InRun
<1> QED BY <1>2, <1>3

\* The messages received, held or flushed while the session is guarded.
LEMMA MovesMessages ==
    ASSUME ByItself, UNCHANGED <<guard, owner, task, cmd, slot>>, NothingTaken', NoneSignalled',
           guard # 0 \/ (pending' = <<>> /\ buffer' = <<>>)
    PROVE  ByItself'
BY DEF ByItself, NoCommands, OnlyOwnerWorks, GuardIsOwners, RunInSlot, NoneInterrupted,
       NothingBehindIdle, Working, Live, TaskIds, Nobody, Idle

\* The task at work goes on.
LEMMA MovesTask ==
    ASSUME Basics, ByItself, NEW t \in TaskIds, Working(t), KeptBut({t}),
           NEW at, NEW e, Becomes(t, at, e, <<>>), UNCHANGED <<guard, owner, cmd>>,
           slot' \in {slot, t, Nobody}, slot' = t => at \in InRun,
           at \notin {"none", "done"}, NothingTaken', NoneSignalled'
    PROVE  ByItself'
<1>1. owner = t /\ t # Nobody /\ guard # 0
    BY DEF ByItself, OnlyOwnerWorks, GuardIsOwners, TaskIds, Nobody
<1>2. slot' \in {t, Nobody} BY <1>1, SlotIsOwners
<1>3. NoCommands' BY DEF ByItself, NoCommands, Idle
<1>4. OnlyOwnerWorks'
    BY <1>1 DEF ByItself, OnlyOwnerWorks, KeptBut, Working, Live, TaskIds
<1>5. GuardIsOwners' BY <1>1 DEF ByItself, GuardIsOwners, Becomes, Nobody
<1>6. RunInSlot' BY <1>2 DEF RunInSlot, Becomes, Nobody
<1>7. NoneInterrupted' BY DEF ByItself, NoneInterrupted, KeptBut, Becomes, TaskIds
<1>8. NothingBehindIdle' BY <1>1 DEF NothingBehindIdle
<1> QED BY <1>3, <1>4, <1>5, <1>6, <1>7, <1>8 DEF ByItself

\* A new task takes the session over when none is at work.
LEMMA MovesOn ==
    ASSUME Basics, ByItself, NEW T \in SUBSET TaskIds, KeptBut(T \union {NextTask}),
           NEW i, NEW g \in Nat, Born(NextTask, i, g), g # 0, guard' = g, owner' = NextTask,
           UNCHANGED <<slot, cmd>>, NothingTaken', NoneSignalled',
           \A u \in TaskIds : task[u].at \notin InRun,
           \A u \in TaskIds \ T : ~Working(u),
           \A u \in T : task'[u].at \in {"cleanup", "done"} /\ task'[u].interrupt = <<>>
    PROVE  ByItself'
<1>1. /\ NextTask \in TaskIds /\ task'[NextTask].interrupt = <<>>
      /\ task'[NextTask].at = "starting" /\ task'[NextTask].gd = g
    BY BornHolds
<1>2. NextTask # Nobody BY <1>1 DEF TaskIds, Nobody
<1>3. NoCommands' BY DEF ByItself, NoCommands, Idle
<1>4. OnlyOwnerWorks'
  <2> SUFFICES ASSUME NEW u \in TaskIds, Working(u)' PROVE u = NextTask
      BY DEF OnlyOwnerWorks, TaskIds
  <2>1. u \notin T BY DEF Working, Live
  <2>2. u # NextTask => task'[u] = task[u] BY <2>1 DEF KeptBut
  <2> QED BY <2>1, <2>2 DEF Working, Live
<1>5. GuardIsOwners' BY <1>1, <1>2 DEF GuardIsOwners, Nobody
<1>6. RunInSlot' BY SlotIsOwners DEF RunInSlot, Nobody
<1>7. NoneInterrupted'
    BY <1>1 DEF ByItself, NoneInterrupted, KeptBut, TaskIds
<1>8. NothingBehindIdle' BY DEF NothingBehindIdle
<1> QED BY <1>3, <1>4, <1>5, <1>6, <1>7, <1>8 DEF ByItself

LEMMA MessagesAlone ==
    ASSUME Basics, Placed, ByItself, NoneSignalled', NEW m \in Messages,
           ReceiveIdle(m) \/ ReceivePhoto(m) \/ ReceiveText(m) \/ ReceiveQueue(m)
    PROVE  ByItself'
<1>1. NothingTaken BY DEF ByItself
<1>2. ASSUME ReceiveIdle(m) PROVE ByItself'
  <2>0. SignalsOK' BY <1>2, SignalsStep DEF Next
  <2>1. /\ KeptBut({NextTask}) /\ Born(NextTask, <<m>>, NextTask)
        /\ UNCHANGED <<dropped, pending, buffer>>
      BY <1>2, <2>0, ReceiveIdleBasics
  <2>2. guard = 0 /\ guard' = NextTask /\ owner' = NextTask /\ UNCHANGED <<slot, cmd>>
      BY <1>2, NeverStale DEF ReceiveIdle, StartProcessing
  <2>3. owner = Nobody BY <2>2 DEF ByItself, GuardIsOwners
  <2>4. \A u \in TaskIds : ~Working(u)
      BY <2>3 DEF ByItself, OnlyOwnerWorks, TaskIds, Nobody
  <2>5. NextTask \in Nat /\ NextTask # 0 /\ NothingTaken'
      BY <1>1, <2>1, TakesNothing, BornHolds DEF TaskIds
  <2>6. {} \in SUBSET TaskIds /\ {} \union {NextTask} = {NextTask} OBVIOUS
  <2>7. \A u \in TaskIds : task[u].at \notin InRun
      BY <2>4 DEF Working, Live, InRun
  <2> QED BY <2>1, <2>2, <2>4, <2>5, <2>6, <2>7, MovesOn
<1>3. ASSUME ReceivePhoto(m) PROVE ByItself'
  <2>1. NothingTaken'
    <3>1. CASE UNCHANGED dropped BY <1>1, <3>1, TakesNothing
    <3>2. CASE ~UNCHANGED dropped
      <4>1. PICK a \in Agents : Drop("superseded", Range(signal[a].interrupt))
          BY <1>3, <3>2, ReceivePhotoSignal
      <4>2. Range(signal[a].interrupt) = {} BY RangeEmpty DEF ByItself, NoneSignalled
      <4>3. "superseded" \in Reasons BY DEF Reasons
      <4> QED BY <1>1, <4>1, <4>2, <4>3, TakesOtherwise
    <3> QED BY <3>1, <3>2
  <2> QED BY <1>3, <2>1, MovesMessages DEF ReceivePhoto
<1>4. ASSUME ReceiveText(m) PROVE ByItself'
  <2>1. "third sender" \in Reasons BY DEF Reasons
  <2>2. UNCHANGED dropped \/ Drop("third sender", {m}) BY <1>4 DEF ReceiveText
  <2>3. NothingTaken' BY <1>1, <2>1, <2>2, TakesNothing, TakesOtherwise
  <2> QED BY <1>4, <2>3, MovesMessages DEF ReceiveText
<1>5. ASSUME ReceiveQueue(m) PROVE ByItself'
    BY <1>1, <1>5, TakesNothing, MovesMessages DEF ReceiveQueue
<1> QED BY <1>2, <1>3, <1>4, <1>5

LEMMA TimerAlone ==
    ASSUME Basics, Placed, ByItself, NoneSignalled', TimerFires PROVE ByItself'
<1>1. NothingTaken' BY TakesNothing DEF ByItself, TimerFires
<1>2. guard = 0 => pending' = <<>> /\ buffer' = <<>>
    BY Flushed DEF ByItself, NothingBehindIdle, Basics, TimerFires
<1> QED BY <1>1, <1>2, MovesMessages DEF TimerFires

\* A second handler never starts while the slot is taken.
LEMMA NeverBusy ==
    ASSUME Basics, ByItself, NEW t \in TaskIds PROVE ~Busy(t)
<1> SUFFICES ASSUME task[t].at = "starting", slot # Nobody PROVE FALSE
    BY DEF Busy
<1>1. owner = t BY DEF ByItself, OnlyOwnerWorks, Working, Live
<1>2. slot = t /\ task[t].at \in InRun BY <1>1, SlotIsOwners
<1> QED BY <1>2 DEF InRun

LEMMA RunsAlone ==
    ASSUME Basics, Placed, ByItself, NoneSignalled', NEW t \in TaskIds,
           \/ Claim(t) \/ RunStarts(t) \/ LoopEnds(t) \/ RunTimesOut(t) \/ FollowUp(t)
           \/ RunEnds(t) \/ RunFails(t) \/ Deliver(t) \/ Unwind(t)
    PROVE  ByItself'
<1>1. task[t].interrupt = <<>> /\ NothingTaken
    BY DEF ByItself, NoneInterrupted
<1>2. ASSUME Claim(t) PROVE ByItself'
  <2>1. Working(t) /\ UNCHANGED <<guard, owner, cmd, dropped>> /\ slot' = t
      BY <1>2 DEF Claim, Working, Live
  <2>2. NothingTaken' BY <1>1, <2>1, TakesNothing
  <2> QED BY <1>1, <1>2, <2>1, <2>2, ClaimTasks, MovesTask DEF InRun
<1>3. ASSUME RunStarts(t) PROVE ByItself'
  <2>1. Working(t) /\ UNCHANGED <<guard, owner, cmd, dropped>> /\ slot' \in {slot, t}
      BY <1>3 DEF RunStarts, Working, Live
  <2>2. NothingTaken' BY <1>1, <2>1, TakesNothing
  <2> QED BY <1>1, <1>3, <2>1, <2>2, RunStartsTasks, MovesTask DEF InRun
<1>9. ASSUME LoopEnds(t) PROVE ByItself'
  <2>1. /\ Working(t) /\ UNCHANGED <<guard, owner, cmd, slot>> /\ task[t].agent \in Agents
        /\ KeptBut({t})
      BY <1>9, LoopEndsTasks DEF LoopEnds, Working, Live
  <2>2. signal[task[t].agent].interrupt = <<>> BY <2>1 DEF ByItself, NoneSignalled
  <2>3. Becomes(t, "returned", task[t].input, <<>>) BY <1>9, <2>2, LoopEndsTasks
  <2> DEFINE M == Range(signal[task[t].agent].interrupt)
  <2>4. UNCHANGED dropped \/ Drop("unnoticed", M) BY <1>9, LoopEndsTasks
  <2>6. M = {} /\ "unnoticed" \in Reasons BY <2>2, RangeEmpty DEF Reasons
  <2> HIDE DEF M
  <2>5. NothingTaken' BY <1>1, <2>4, <2>6, TakesNothing, TakesOtherwise
  <2> QED BY <2>1, <2>3, <2>5, MovesTask DEF InRun
<1>10. ASSUME RunTimesOut(t) PROVE ByItself'
  <2>1. /\ Working(t) /\ UNCHANGED <<guard, owner, cmd>> /\ slot' = Nobody /\ t # Nobody
        /\ Drop("failed", Range(signal[task[t].agent].interrupt))
      BY <1>10 DEF RunTimesOut, Working, Live, TaskIds, Nobody
  <2>2. "failed" \in Reasons BY DEF Reasons
  <2>3. NothingTaken' BY <1>1, <2>1, <2>2, TakesOtherwise
  <2>4. KeptBut({t}) /\ Becomes(t, "delivering", task[t].input, <<>>)
      BY <1>1, <1>10, RunTimesOutTasks
  <2> QED BY <2>1, <2>3, <2>4, MovesTask
<1>4. ASSUME FollowUp(t) PROVE ByItself'
  <2>1. Working(t) /\ UNCHANGED <<guard, owner, cmd>> /\ slot' \in {slot, t}
        /\ Drop("superseded", Superseded(t))
      BY <1>4 DEF FollowUp, Working, Live
  <2>2. Superseded(t) = {} BY <1>1, RangeEmpty DEF Superseded
  <2>3. NothingTaken' BY <1>1, <2>1, <2>2, TakesOtherwise DEF Reasons
  <2> QED BY <1>4, <2>1, <2>3, FollowUpTasks, MovesTask DEF InRun
<1>5. ASSUME RunEnds(t) PROVE ByItself'
  <2>1. Working(t) /\ UNCHANGED <<guard, owner, cmd>> /\ slot' = Nobody /\ t # Nobody
    <3>1. task[t].at = "returned" /\ UNCHANGED <<guard, owner, cmd>> /\ slot' = Nobody
        BY <1>5 DEF RunEnds
    <3> QED BY <3>1 DEF Working, Live, TaskIds, Nobody
  <2>2. Superseded(t) = {} BY <1>1, RangeEmpty DEF Superseded
  <2>3. NothingTaken'
    <3> DEFINE R == Range(Promoted \o NextInput(t)) \ Range(Requeued(t))
    <3>1. dropped' = [dropped EXCEPT !["depth cap"] = @ \union R, !["superseded"] = @ \union {}]
        BY <1>5, <2>2 DEF RunEnds
    <3> HIDE DEF R
    <3>2. /\ dropped'["superseded"] = dropped["superseded"]
          /\ dropped'["command"] = dropped["command"]
          /\ dropped'["unnoticed"] = dropped["unnoticed"]
        BY <3>1 DEF Placed, DropsOK, Reasons
    <3> QED BY <1>1, <3>2 DEF NothingTaken
  <2> QED BY <1>5, <2>1, <2>3, RunEndsTasks, MovesTask
<1>6. ASSUME RunFails(t) PROVE ByItself'
  <2>1. Working(t) /\ UNCHANGED <<guard, owner, cmd>> /\ slot' = Nobody /\ t # Nobody
      BY <1>6 DEF RunFails, Working, Live, TaskIds, Nobody
  <2>2. "failed" \in Reasons /\ Drop("failed", Range(task[t].input \o task[t].interrupt))
      BY <1>6 DEF RunFails, Reasons
  <2>3. NothingTaken' BY <1>1, <2>2, TakesOtherwise
  <2> QED BY <1>6, <2>1, <2>3, RunFailsTasks, MovesTask
<1>7. ASSUME Deliver(t) PROVE ByItself'
  <2>1. Working(t) /\ UNCHANGED <<guard, owner, cmd, slot, dropped>>
        /\ task[t].at = "delivering" /\ t # Nobody
      BY <1>7 DEF Deliver, Working, Live, TaskIds, Nobody
  <2>2. NothingTaken' BY <1>1, <2>1, TakesNothing
  <2>3. slot # t BY <2>1, SlotIsOwners DEF InRun
  <2> DEFINE at == IF FlushedPending = <<>> THEN "cleanup" ELSE "handoff"
  <2>4. at \notin {"none", "done"} OBVIOUS
  <2>5. KeptBut({t}) /\ Becomes(t, at, FlushedPending, <<>>)
      BY <1>1, <1>7, DeliverTasks
  <2> HIDE DEF at
  <2> QED BY <2>1, <2>2, <2>3, <2>4, <2>5, MovesTask
<1>8. ASSUME Unwind(t) PROVE ByItself'
  <2>1. Working(t) /\ UNCHANGED <<guard, owner, cmd, dropped>> /\ slot' = Nobody /\ t # Nobody
      BY <1>8 DEF Unwind, Working, Live, TaskIds, Nobody
  <2>2. NothingTaken' BY <1>1, <2>1, TakesNothing
  <2> QED BY <1>1, <1>8, <2>1, <2>2, UnwindTasks, MovesTask
<1> QED BY <1>2, <1>3, <1>4, <1>5, <1>6, <1>7, <1>8, <1>9, <1>10

LEMMA HandOffAlone ==
    ASSUME Basics, Placed, ByItself, NoneSignalled', NEW t \in TaskIds, HandOff(t) PROVE ByItself'
<1>1. /\ KeptBut({t} \union {NextTask}) /\ task'[t].at = "cleanup"
      /\ task'[t].interrupt = task[t].interrupt /\ Born(NextTask, task[t].input, AdoptedGuard)
  <2>1. {t, NextTask} = {t} \union {NextTask} OBVIOUS
  <2> QED BY <2>1, HandOffTasks DEF Becomes
<1>2. /\ task[t].at = "handoff" /\ owner' = NextTask /\ guard' = AdoptedGuard
      /\ UNCHANGED <<slot, cmd, dropped>>
    BY DEF HandOff
<1>3. owner = t BY <1>2 DEF ByItself, OnlyOwnerWorks, Working, Live
<1>4. \A u \in TaskIds \ {t} : ~Working(u) BY <1>3 DEF ByItself, OnlyOwnerWorks
<1>5. \A u \in TaskIds : task[u].at \notin InRun
    BY <1>2, <1>4 DEF Working, Live, InRun
<1>6. NothingTaken' /\ task[t].interrupt = <<>>
    BY <1>2, TakesNothing DEF ByItself, NoneInterrupted
<1>7. AdoptedGuard \in Nat /\ AdoptedGuard # 0 BY GuardAdopted
<1>8. \A u \in {t} : task'[u].at \in {"cleanup", "done"} /\ task'[u].interrupt = <<>>
    BY <1>1, <1>6
<1>9. KeptBut({t} \union {NextTask}) /\ {t} \in SUBSET TaskIds BY <1>1
<1> DEFINE i == task[t].input
           g == AdoptedGuard
<1>10. Born(NextTask, i, g) /\ g \in Nat /\ g # 0 /\ guard' = g BY <1>1, <1>2, <1>7
<1>11. owner' = NextTask /\ UNCHANGED <<slot, cmd>> BY <1>2
<1>12. NothingTaken' BY <1>6
<1> HIDE DEF i, g
<1> QED BY <1>4, <1>5, <1>8, <1>9, <1>10, <1>11, <1>12, MovesOn

LEMMA CleanupAlone ==
    ASSUME Basics, Placed, ByItself, NoneSignalled', NEW t \in TaskIds, Cleanup(t) PROVE ByItself'
<1>1. CleanupTasks(t) /\ Becomes(t, "done", task[t].input, task[t].interrupt)
    BY CleanupEffect
<1>2. task[t].at = "cleanup" /\ UNCHANGED <<slot, cmd, dropped>> /\ buffer' = FlushedBuffer
    BY DEF Cleanup
<1>3. NothingTaken' /\ task[t].interrupt = <<>>
    BY <1>2, TakesNothing DEF ByItself, NoneInterrupted
<1>4. slot # t /\ t # Nobody BY <1>2, SlotIsOwners DEF TaskIds, Nobody, InRun
<1>5. ~Working(t) /\ ~Working(t)' BY <1>1, <1>2 DEF Working, Becomes, Live
<1>6. FlushedPending # <<>> => guard # 0
    BY Flushed DEF ByItself, NothingBehindIdle, Basics
<1>7. CASE /\ KeptBut({t, NextTask}) /\ FlushedPending # <<>> /\ owner \in {Nobody, t}
           /\ Born(NextTask, FlushedPending, AdoptedGuard)
           /\ owner' = NextTask /\ guard' = AdoptedGuard
  <2>1. owner = t BY <1>6, <1>7 DEF ByItself, GuardIsOwners
  <2>2. \A u \in TaskIds : ~Working(u)
      BY <1>5, <2>1 DEF ByItself, OnlyOwnerWorks
  <2>3. \A u \in TaskIds : task[u].at \notin InRun
      BY <2>2 DEF Working, Live, InRun
  <2>4. {t, NextTask} = {t} \union {NextTask} OBVIOUS
  <2>5. AdoptedGuard \in Nat /\ AdoptedGuard # 0 BY GuardAdopted
  <2>6. task'[t].at \in {"cleanup", "done"} /\ task'[t].interrupt = <<>>
      BY <1>1, <1>3 DEF Becomes
  <2> QED BY <1>2, <1>3, <1>7, <2>2, <2>3, <2>4, <2>5, <2>6, MovesOn
<1>8. ASSUME KeptBut({t}), NoCommands', OnlyOwnerWorks', GuardIsOwners', NothingBehindIdle'
      PROVE  ByItself'
  <2>1. RunInSlot'
    <3>1. slot # Nobody => slot \in TaskIds \ {t} /\ task[slot].at \in InRun
        BY <1>4, SlotIsOwners
    <3> QED BY <1>2, <1>8, <3>1 DEF RunInSlot, KeptBut, Nobody
  <2>2. NoneInterrupted'
      BY <1>1, <1>3, <1>8 DEF ByItself, NoneInterrupted, KeptBut, Becomes, TaskIds
  <2> QED BY <1>3, <1>8, <2>1, <2>2 DEF ByItself
<1>9. NoCommands' BY <1>2 DEF ByItself, NoCommands, Idle
<1>10. CASE KeptBut({t}) /\ owner \notin {Nobody, t} /\ UNCHANGED <<guard, owner>>
  <2>1. OnlyOwnerWorks'
      BY <1>5, <1>10 DEF ByItself, OnlyOwnerWorks, KeptBut, Working, Live, TaskIds
  <2>2. owner \in TaskIds \ {t} /\ guard # 0
      BY <1>10 DEF ByItself, GuardIsOwners, Basics, ScalarsOK
  <2>3. GuardIsOwners' BY <1>10, <2>2 DEF ByItself, GuardIsOwners, KeptBut, Nobody
  <2>4. NothingBehindIdle' BY <1>10, <2>2 DEF NothingBehindIdle
  <2> QED BY <1>8, <1>9, <1>10, <2>1, <2>3, <2>4
<1>11. CASE /\ KeptBut({t}) /\ FlushedPending = <<>> /\ pending' = <<>>
            /\ owner' = IF owner = t THEN Nobody ELSE owner
            /\ guard' = IF owner = t /\ guard = task[t].gd THEN 0 ELSE guard
  <2>1. NothingBehindIdle'
      BY <1>2, <1>11, Flushed DEF NothingBehindIdle, Basics
  <2>2. owner = t => guard = task[t].gd
      BY <1>4 DEF ByItself, GuardIsOwners
  <2>3. OnlyOwnerWorks'
    <3> SUFFICES ASSUME NEW u \in TaskIds, Working(u)' PROVE owner' = u
        BY DEF OnlyOwnerWorks, TaskIds
    <3>1. u # t BY <1>5
    <3>2. Working(u) BY <1>11, <3>1 DEF KeptBut, Working, Live
    <3>3. owner = u BY <3>2 DEF ByItself, OnlyOwnerWorks
    <3> QED BY <1>11, <3>1, <3>3
  <2>4. GuardIsOwners'
    <3>1. CASE owner = t BY <1>4, <1>11, <2>2, <3>1 DEF GuardIsOwners, Nobody
    <3>2. CASE owner # t
      <4>1. owner # Nobody => owner \in TaskIds \ {t}
          BY <3>2 DEF Basics, ScalarsOK
      <4> QED BY <1>11, <3>2, <4>1 DEF ByItself, GuardIsOwners, KeptBut, Nobody
    <3> QED BY <3>1, <3>2
  <2> QED BY <1>8, <1>9, <1>11, <2>1, <2>3, <2>4
<1> QED BY <1>1, <1>7, <1>10, <1>11 DEF CleanupTasks

LEMMA NoCommandMoves ==
    ASSUME script = <<>>, NoCommands PROVE ~CommandArrives /\ ~CommandContinues
<1>1. cmd.at = "idle" /\ cmd.done = 0 BY DEF NoCommands, Idle
<1>2. Len(script) = 0 BY EmptySeq
<1> QED BY <1>1, <1>2
    DEF CommandArrives, CommandContinues, CommandHandled, CommandCancels, CommandDrains,
        CommandFails

LEMMA InitAlone == Init => Alone
<1> SUFFICES ASSUME Init PROVE ByItself BY DEF Alone
<1>1. \A t \in TaskIds : task[t].interrupt = <<>> /\ task[t].at = "none"
    BY DEF Init, NoTask
<1>3. NoneSignalled BY DEF Init, NoneSignalled, Silent
<1>2. NothingTaken BY DEF Init, NothingTaken, Reasons
<1> QED BY <1>1, <1>2, <1>3
    DEF Init, ByItself, NoCommands, OnlyOwnerWorks, GuardIsOwners, RunInSlot,
        NoneInterrupted, NothingBehindIdle, Working, Live

LEMMA ScenarioKept == [Next]_vars => SameScenario
BY DEF SameScenario, Next, Receive, ReceiveIdle, ReceivePhoto, ReceiveText, ReceiveQueue,
       TimerFires, TaskStep, Claim, Busy, RunStarts, LoopEnds, RunTimesOut, Peek, FollowUp, 
       RunEnds, RunFails, Deliver, HandOff, Unwind, Cleanup, CommandArrives, CommandContinues, CommandHandled,
       CommandCancels, CommandDrains, CommandFails, vars

\* A running agent is shown the slot only while a command holds the guard.
LEMMA NeverPeeks ==
    ASSUME ByItself, NEW t PROVE ~Peek(t)
BY DEF ByItself, NoCommands, Idle, Peek

\* Nothing interrupts the agents but captions, which are copies.
LEMMA SignalledAlone ==
    ASSUME Basics, ByItself, script = <<>>, [Next]_vars PROVE NoneSignalled'
<1>1. /\ NoneSignalled /\ ~CommandArrives /\ ~CommandContinues
      /\ \A t \in TaskIds : ~Busy(t) /\ ~Peek(t)
    BY NoCommandMoves, NeverBusy, NeverPeeks DEF ByItself
<1>2. Agents' = Agents BY DEF Agents, TaskIds
<1>3. CASE UNCHANGED signal BY <1>1, <1>3 DEF NoneSignalled, Agents, TaskIds
<1>4. ASSUME NEW a \in Agents, signal'[a].interrupt = <<>>,
             \A b \in Agents \ {a} : signal'[b] = signal[b]
      PROVE  NoneSignalled'
    BY <1>1, <1>2, <1>4 DEF NoneSignalled
<1>5. ASSUME NEW m \in Messages, ReceivePhoto(m) PROVE NoneSignalled'
    BY <1>3, <1>4, <1>5, ReceivePhotoSignal
<1>6. ASSUME NEW t \in TaskIds, LoopEnds(t) \/ RunTimesOut(t) PROVE NoneSignalled'
    BY <1>4, <1>6, LoopEndsTasks, RunTimesOutTasks
<1>7. ASSUME NEW m \in Messages, ReceiveIdle(m) \/ ReceiveText(m) \/ ReceiveQueue(m)
      PROVE  UNCHANGED signal
    BY <1>7 DEF ReceiveIdle, ReceiveText, ReceiveQueue
<1>8. ASSUME NEW t \in TaskIds,
             \/ Claim(t) \/ RunStarts(t) \/ FollowUp(t) \/ RunEnds(t) \/ RunFails(t)
             \/ Deliver(t) \/ HandOff(t) \/ Unwind(t) \/ Cleanup(t)
      PROVE  UNCHANGED signal
    BY <1>8 DEF Claim, RunStarts, FollowUp, RunEnds, RunFails, Deliver, HandOff, Unwind, Cleanup
<1>9. TimerFires \/ UNCHANGED vars => UNCHANGED signal BY DEF TimerFires, vars
<1> QED BY <1>1, <1>3, <1>5, <1>6, <1>7, <1>8, <1>9 DEF Next, TaskStep

LEMMA AloneStep == Basics /\ Placed /\ Alone /\ [Next]_vars => Alone'
<1> SUFFICES ASSUME Basics, Placed, Alone, [Next]_vars, script' = <<>> PROVE ByItself'
    BY DEF Alone
<1>1. script = <<>> /\ ByItself BY ScenarioKept DEF Alone, SameScenario
<1>7. NoneSignalled' BY <1>1, SignalledAlone
<1>2. ASSUME NEW m \in Messages,
             ReceiveIdle(m) \/ ReceivePhoto(m) \/ ReceiveText(m) \/ ReceiveQueue(m)
      PROVE  ByItself'
    BY <1>1, <1>2, <1>7, MessagesAlone
<1>3. CASE TimerFires BY <1>1, <1>3, <1>7, TimerAlone
<1>4. ASSUME NEW t \in TaskIds, TaskStep(t) PROVE ByItself'
    BY <1>1, <1>4, <1>7, NeverBusy, RunsAlone, HandOffAlone, CleanupAlone DEF TaskStep
<1>8. \A t \in TaskIds : ~Peek(t) BY <1>1, NeverPeeks
<1>5. ~CommandArrives /\ ~CommandContinues BY <1>1, NoCommandMoves DEF ByItself
<1>6. CASE UNCHANGED vars
  <2>1. NothingTaken' BY <1>1, <1>6 DEF ByItself, NothingTaken, vars
  <2>2. guard # 0 \/ (pending' = <<>> /\ buffer' = <<>>)
      BY <1>1, <1>6 DEF ByItself, NothingBehindIdle, vars
  <2> QED BY <1>1, <1>6, <1>7, <2>1, <2>2, MovesMessages DEF vars
<1> QED BY <1>2, <1>3, <1>4, <1>5, <1>6, <1>8 DEF Next

LEMMA AloneAlways == Spec => [](Basics /\ Placed /\ Alone)
<1>1. Init => Alone BY InitAlone
<1> QED BY <1>1, PlacedAlways, AloneStep, PTL DEF Spec

LEMMA AloneMeans == Basics /\ Alone => OneTurnAtATime /\ NothingLostUnprompted
<1> SUFFICES ASSUME Basics, script = <<>>, ByItself
             PROVE  OneTurnAtATime /\ NothingLostUnprompted
    BY DEF Alone, OneTurnAtATime, NothingLostUnprompted
<1>1. \A t \in TaskIds : Working(t) => owner = t /\ guard # 0
    BY DEF ByItself, OnlyOwnerWorks, GuardIsOwners, TaskIds, Nobody
<1>2. OneTurnAtATime BY <1>1 DEF OneTurnAtATime
<1>3. NothingLostUnprompted
    BY DEF ByItself, NothingTaken, NothingLostUnprompted
<1> QED BY <1>2, <1>3

\* Left alone, a session has at most one task at work, and it is guarded: a
\* follow-up never runs beside the turn that hands over to it.
THEOREM OneTurnTheorem == Spec => []OneTurnAtATime
BY AloneAlways, AloneMeans, PTL

\* Left alone, a session loses no message to an interruption or to the healing
\* of its lock: the paths on which a command takes messages are never walked.
THEOREM NothingLostTheorem == Spec => []NothingLostUnprompted
BY AloneAlways, AloneMeans, PTL


----------------------------------------------------------------------------
(* What is copied, in a session left alone.                                *)

Photos(T, e) == \A x \in Range(e) : T[x].kind = "photo"
OnlyPhotosCopied ==
    /\ \A a \in Agents : Photos(traffic, signal[a].copy)
    /\ \A t \in TaskIds : Photos(traffic, task[t].copy)
    /\ \A m \in echoed : traffic[m].kind = "photo"
Copied == script = <<>> => OnlyPhotosCopied

LEMMA NoPhotos == \A T : Photos(T, <<>>)
BY RangeEmpty DEF Photos

\* Copies are kept or forgotten.
LEMMA CopiesKept ==
    ASSUME OnlyPhotosCopied, UNCHANGED <<traffic, echoed>>,
           \A a \in Agents : signal'[a].copy \in {<<>>, signal[a].copy},
           \A t \in TaskIds : task'[t].copy \in {<<>>, task[t].copy}
    PROVE  OnlyPhotosCopied'
<1>1. Agents' = Agents /\ TaskIds' = TaskIds BY DEF Agents, TaskIds
<1>2. \A a \in Agents : Photos(traffic, signal'[a].copy)
    BY NoPhotos DEF OnlyPhotosCopied
<1>3. \A t \in TaskIds : Photos(traffic, task'[t].copy)
    BY NoPhotos DEF OnlyPhotosCopied
<1> QED BY <1>1, <1>2, <1>3 DEF OnlyPhotosCopied

\* No step but the end of a loop gives a task a copy.
LEMMA TaskCopies ==
    ASSUME Basics, NEW t \in TaskIds, TaskStep(t), ~LoopEnds(t), NEW u \in TaskIds
    PROVE  task'[u].copy \in {<<>>, task[u].copy}
<1>1. task \in [TaskIds -> TaskRecords] BY DEF Basics, TasksOK
<1>2. \A e, g : NewTask(e, g).copy = <<>> BY DEF NewTask, NoTask
<1>3. CASE Claim(t) BY <1>1, <1>3 DEF Claim, TaskRecords, Records
<1>4. CASE Busy(t) BY <1>1, <1>4 DEF Busy, TaskRecords, Records
<1>5. CASE RunStarts(t) BY <1>1, <1>5 DEF RunStarts, TaskRecords, Records
<1>6. CASE RunTimesOut(t) BY <1>1, <1>6 DEF RunTimesOut, TaskRecords, Records
<1>7. CASE FollowUp(t) BY <1>1, <1>7 DEF FollowUp, TaskRecords, Records
<1>8. CASE RunEnds(t) BY <1>1, <1>8 DEF RunEnds, TaskRecords, Records
<1>9. CASE RunFails(t) BY <1>1, <1>9 DEF RunFails, TaskRecords, Records
<1>10. CASE Deliver(t) BY <1>1, <1>10 DEF Deliver, TaskRecords, Records
<1>11. CASE Unwind(t) BY <1>1, <1>11 DEF Unwind, TaskRecords, Records
<1>12. CASE HandOff(t)
  <2> DEFINE n == NewTask(task[t].input, AdoptedGuard)
  <2>1. task' = [task EXCEPT ![t].at = "cleanup", ![t].input = <<>>, ![NextTask] = n]
      BY <1>12 DEF HandOff
  <2>2. n.copy = <<>> BY <1>2
  <2> HIDE DEF n
  <2> QED BY <1>1, <2>1, <2>2 DEF TaskRecords, Records
<1>13. CASE Cleanup(t)
  <2> DEFINE n == NewTask(FlushedPending, AdoptedGuard)
  <2>1. \/ task' = [task EXCEPT ![t].at = "done"]
        \/ task' = [task EXCEPT ![t].at = "done", ![NextTask] = n]
      BY <1>13 DEF Cleanup
  <2>2. n.copy = <<>> BY <1>2
  <2>3. task[t] \in [at: Stages, input: Seq(Messages), gd: Nat, gen: 0..gen,
                     depth: 0..MaxDepth, agent: Agents \union {NoAgent},
                     interrupt: Seq(Messages), copy: Seq(Messages)]
      BY <1>1 DEF TaskRecords, Records
  <2> DEFINE q == [task[t] EXCEPT !.at = "done"]
  <2>4. q.copy = task[t].copy BY <2>3
  <2>5. \/ task' = [task EXCEPT ![t] = q]
        \/ task' = [task EXCEPT ![t] = q, ![NextTask] = n]
      BY <2>1
  <2> HIDE DEF n, q
  <2>6. task'[u] \in {task[u], n} \/ (u = t /\ task'[u] = q)
      BY <1>1, <2>5
  <2> QED BY <2>2, <2>4, <2>6
<1> QED BY <1>3, <1>4, <1>5, <1>6, <1>7, <1>8, <1>9, <1>10, <1>11, <1>12, <1>13 DEF TaskStep

\* A message is copied to an agent only as the caption of a photo.
LEMMA MessagesCopied ==
    ASSUME Basics, ByItself, OnlyPhotosCopied, NEW m \in Messages,
           ReceiveIdle(m) \/ ReceivePhoto(m) \/ ReceiveText(m) \/ ReceiveQueue(m)
    PROVE  OnlyPhotosCopied'
<1>1. UNCHANGED <<traffic, echoed>>
    BY DEF ReceiveIdle, ReceivePhoto, ReceiveText, ReceiveQueue, Receive
<1>2. task \in [TaskIds -> TaskRecords] BY DEF Basics, TasksOK
<1>3. CASE ReceiveIdle(m)
  <2> DEFINE n == NewTask(<<m>>, NextTask)
  <2>1. task' = [task EXCEPT ![NextTask] = n] /\ UNCHANGED signal
      BY <1>3 DEF ReceiveIdle, StartProcessing
  <2>2. n.copy = <<>> BY DEF NewTask, NoTask
  <2> HIDE DEF n
  <2>3. \A t \in TaskIds : task'[t].copy \in {<<>>, task[t].copy} BY <1>2, <2>1, <2>2
  <2> QED BY <1>1, <2>1, <2>3, CopiesKept
<1>4. CASE ReceiveText(m) \/ ReceiveQueue(m)
    BY <1>1, <1>4, CopiesKept DEF ReceiveText, ReceiveQueue
<1>5. CASE ReceivePhoto(m)
  <2>1. UNCHANGED task /\ traffic[m].kind = "photo" BY <1>5 DEF ReceivePhoto
  <2>2. CASE UNCHANGED signal BY <1>1, <2>1, <2>2, CopiesKept
  <2>3. CASE ~UNCHANGED signal
    <3> DEFINE a == task[slot].agent
    <3>1. /\ slot # Nobody /\ a # NoAgent
          /\ \E caption \in {<<>>, <<m>>} :
               signal' = [signal EXCEPT ![a] = [interrupt |-> <<>>, copy |-> caption]]
        BY <1>5, <2>3 DEF ReceivePhoto
    <3>2. a \in Agents BY <3>1, InterruptedIs
    <3> HIDE DEF a
    <3>3. PICK caption \in {<<>>, <<m>>} :
             signal' = [signal EXCEPT ![a] = [interrupt |-> <<>>, copy |-> caption]]
        BY <3>1
    <3>4. signal'[a].copy = caption /\ \A b \in Agents \ {a} : signal'[b] = signal[b]
        BY <3>2, <3>3 DEF Basics, SignalsOK
    <3>5. Photos(traffic, caption)
      <4>1. Range(<<m>>) = {m} BY Single
      <4> QED BY <2>1, <4>1, NoPhotos DEF Photos
    <3>6. \A b \in Agents : Photos(traffic, signal'[b].copy)
        BY <3>4, <3>5 DEF OnlyPhotosCopied
    <3>7. \A t \in TaskIds : Photos(traffic, task'[t].copy)
        BY <2>1 DEF OnlyPhotosCopied
    <3>8. Agents' = Agents /\ TaskIds' = TaskIds BY DEF Agents, TaskIds
    <3> QED BY <1>1, <3>6, <3>7, <3>8 DEF OnlyPhotosCopied
  <2> QED BY <2>2, <2>3
<1> QED BY <1>3, <1>4, <1>5

\* The result of a run carries what its agent was interrupted with.
LEMMA LoopEndsCopied ==
    ASSUME Basics, OnlyPhotosCopied, NEW t \in TaskIds, LoopEnds(t)
    PROVE  OnlyPhotosCopied'
<1> DEFINE a == task[t].agent
<1>1. a \in Agents BY LoopEndsTasks
<1>2. UNCHANGED <<traffic, echoed>> /\ signal' = [signal EXCEPT ![a] = Silent]
    BY DEF LoopEnds
<1>3. \/ task' = [task EXCEPT ![t].at = "returned", ![t].interrupt = signal[a].interrupt,
                              ![t].copy = signal[a].copy]
      \/ task' = [task EXCEPT ![t].at = "returned"]
    BY DEF LoopEnds
<1> HIDE DEF a
<1>4. \A u \in TaskIds : task'[u].copy \in {task[u].copy, signal[a].copy}
  <2> DEFINE q == [task[t] EXCEPT !.at = "returned", !.interrupt = signal[a].interrupt,
                                  !.copy = signal[a].copy]
             r == [task[t] EXCEPT !.at = "returned"]
  <2>1. task[t] \in [at: Stages, input: Seq(Messages), gd: Nat, gen: 0..gen,
                     depth: 0..MaxDepth, agent: Agents \union {NoAgent},
                     interrupt: Seq(Messages), copy: Seq(Messages)]
      BY DEF Basics, TasksOK, TaskRecords, Records
  <2>2. q.copy = signal[a].copy /\ r.copy = task[t].copy BY <2>1
  <2>3. task' = [task EXCEPT ![t] = q] \/ task' = [task EXCEPT ![t] = r] BY <1>3
  <2>4. task \in [TaskIds -> TaskRecords] BY DEF Basics, TasksOK
  <2> HIDE DEF q, r
  <2> QED BY <2>2, <2>3, <2>4
<1>5. Silent.copy = <<>> BY DEF Silent
<1>6. \A b \in Agents : signal'[b].copy \in {<<>>, signal[b].copy}
    BY <1>1, <1>2, <1>5 DEF Basics, SignalsOK
<1>7. /\ \A u \in TaskIds : Photos(traffic, task'[u].copy)
      /\ \A b \in Agents : Photos(traffic, signal'[b].copy)
    BY <1>1, <1>4, <1>6, NoPhotos DEF OnlyPhotosCopied
<1>8. Agents' = Agents /\ TaskIds' = TaskIds BY DEF Agents, TaskIds
<1> QED BY <1>2, <1>7, <1>8 DEF OnlyPhotosCopied

LEMMA TaskCopied ==
    ASSUME Basics, ByItself, OnlyPhotosCopied, NEW t \in TaskIds, TaskStep(t), ~LoopEnds(t)
    PROVE  OnlyPhotosCopied'
<1>1. \A u \in TaskIds : task'[u].copy \in {<<>>, task[u].copy} BY TaskCopies
<1>2. ~Busy(t) BY NeverBusy
<1>3. \A b \in Agents : signal'[b].copy \in {<<>>, signal[b].copy}
  <2>1. CASE RunTimesOut(t)
    <3>1. task[t].agent \in Agents BY <2>1, RunTimesOutTasks
    <3>2. signal' = [signal EXCEPT ![task[t].agent] = Silent] BY <2>1 DEF RunTimesOut
    <3>3. Silent.copy = <<>> BY DEF Silent
    <3> QED BY <3>1, <3>2, <3>3 DEF Basics, SignalsOK
  <2>2. CASE ~RunTimesOut(t)
    <3>1. UNCHANGED signal
        BY <1>2, <2>2 DEF TaskStep, Claim, RunStarts, FollowUp, RunEnds, RunFails, Deliver,
                          HandOff, Unwind, Cleanup
    <3> QED BY <3>1
  <2> QED BY <2>1, <2>2
<1>4. UNCHANGED traffic
    BY DEF TaskStep, Claim, Busy, RunStarts, LoopEnds, RunTimesOut, FollowUp, RunEnds,
           RunFails, Deliver, HandOff, Unwind, Cleanup
<1>5. CASE FollowUp(t)
  <2>1. echoed' = echoed \union Range(NextEcho(t)) BY <1>5 DEF FollowUp
  <2>2. Photos(traffic, NextEcho(t)) BY NoPhotos DEF NextEcho, OnlyPhotosCopied
  <2>3. \A m \in echoed' : traffic[m].kind = "photo"
      BY <2>1, <2>2 DEF OnlyPhotosCopied, Photos
  <2>4. /\ \A u \in TaskIds : Photos(traffic, task'[u].copy)
        /\ \A b \in Agents : Photos(traffic, signal'[b].copy)
      BY <1>1, <1>3, NoPhotos DEF OnlyPhotosCopied
  <2>5. Agents' = Agents /\ TaskIds' = TaskIds BY DEF Agents, TaskIds
  <2> QED BY <1>4, <2>3, <2>4, <2>5 DEF OnlyPhotosCopied
<1>6. CASE ~FollowUp(t)
  <2>1. UNCHANGED echoed
      BY <1>6 DEF TaskStep, Claim, Busy, RunStarts, LoopEnds, RunTimesOut, RunEnds,
                  RunFails, Deliver, HandOff, Unwind, Cleanup
  <2> QED BY <1>1, <1>3, <1>4, <2>1, CopiesKept
<1> QED BY <1>5, <1>6

LEMMA InitCopied == Init => Copied
<1>1. Init => /\ \A a \in Agents : signal[a].copy = <<>>
              /\ \A t \in TaskIds : task[t].copy = <<>>
    BY DEF Init, Silent, NoTask
<1> QED BY <1>1, NoPhotos DEF Init, Copied, OnlyPhotosCopied

LEMMA CopiedStep == Basics /\ Alone /\ Copied /\ [Next]_vars => Copied'
<1> SUFFICES ASSUME Basics, Alone, Copied, [Next]_vars, script' = <<>>
             PROVE  OnlyPhotosCopied'
    BY DEF Copied
<1>1. script = <<>> /\ ByItself /\ OnlyPhotosCopied
    BY ScenarioKept DEF Alone, Copied, SameScenario
<1>2. ASSUME NEW m \in Messages,
             ReceiveIdle(m) \/ ReceivePhoto(m) \/ ReceiveText(m) \/ ReceiveQueue(m)
      PROVE  OnlyPhotosCopied'
    BY <1>1, <1>2, MessagesCopied
<1>3. CASE TimerFires \/ UNCHANGED vars
  <2>1. UNCHANGED <<traffic, echoed, signal, task>> BY <1>3 DEF TimerFires, vars
  <2> QED BY <1>1, <2>1, CopiesKept
<1>4. ASSUME NEW t \in TaskIds, TaskStep(t) PROVE OnlyPhotosCopied'
    BY <1>1, <1>4, LoopEndsCopied, TaskCopied
<1>5. /\ ~CommandArrives /\ ~CommandContinues
      /\ \A t \in TaskIds : ~Peek(t)
    BY <1>1, NoCommandMoves, NeverPeeks DEF ByItself
<1> QED BY <1>2, <1>3, <1>4, <1>5 DEF Next

LEMMA AnsweredMeans == Basics /\ Placed /\ Copied => AnsweredOnce
<1> SUFFICES ASSUME Basics, Placed, Copied PROVE AnsweredOnce OBVIOUS
<1>1. IsInjective(started) /\ (Waiting \union Standing) \intersect Range(started) = {}
    BY PlacedMeans
<1>2. script = <<>> => \A m \in echoed : traffic[m].kind = "photo"
    BY DEF Copied, OnlyPhotosCopied
<1> QED BY <1>1, <1>2 DEF AnsweredOnce

\* No message is started twice, nor kept once it was started: by the in-band
\* drain, the late drain, the run's own dequeue, the interrupt, the command's
\* drain.  What is answered once more is a text an agent was interrupted with
\* that waited in the slot as well: without commands, a photo's caption.
THEOREM AnsweredTheorem == Spec => []AnsweredOnce
<1>1. Spec => []Copied BY InitCopied, AloneAlways, CopiedStep, PTL DEF Spec
<1> QED BY <1>1, AloneAlways, AnsweredMeans, PTL

----------------------------------------------------------------------------
(* The order of one sender's texts, in a session left alone.               *)

Texts(T, x, y) ==
    T[x].kind = "text" /\ T[y].kind = "text" /\ T[x].from = T[y].from
InLine(T, e) ==
    \A i, j \in DOMAIN e : i < j /\ Texts(T, e[i], e[j]) => e[i] < e[j]
Ahead(T, A, B) == \A x \in A, y \in B : Texts(T, x, y) => x < y

\* What was started, what the owner was given, what the slot holds and what
\* the buffer holds: texts of one sender are in line within each, and those of
\* an earlier place are older than those of a later one.
Queued(T, a, b, c, d) ==
    /\ InLine(T, a) /\ InLine(T, b) /\ InLine(T, c) /\ InLine(T, d)
    /\ Ahead(T, Range(a), Range(b)) /\ Ahead(T, Range(a), Range(c))
    /\ Ahead(T, Range(a), Range(d)) /\ Ahead(T, Range(b), Range(c))
    /\ Ahead(T, Range(b), Range(d)) /\ Ahead(T, Range(c), Range(d))

LEMMA EmptyInLine ==
    \A T : /\ InLine(T, <<>>) /\ \A x : InLine(T, <<x>>)
           /\ \A A : Ahead(T, {}, A) /\ Ahead(T, A, {})
BY DEF InLine, Ahead

LEMMA JoinedInLine ==
    ASSUME NEW T, NEW S, NEW a \in Seq(S), NEW b \in Seq(S),
           InLine(T, a), InLine(T, b), Ahead(T, Range(a), Range(b))
    PROVE  InLine(T, a \o b)
<1>1. \A i \in 1..(Len(a) + Len(b)) :
          (a \o b)[i] = IF i <= Len(a) THEN a[i] ELSE b[i - Len(a)]
    BY ConcatProperties
<1>2. Len(a) \in Nat /\ Len(b) \in Nat /\ DOMAIN a = 1..Len(a) /\ DOMAIN b = 1..Len(b)
      /\ DOMAIN (a \o b) = 1..(Len(a) + Len(b))
    BY ConcatProperties, LenProperties
<1> DEFINE c == a \o b
<1>3. SUFFICES ASSUME NEW i \in 1..(Len(a) + Len(b)), NEW j \in 1..(Len(a) + Len(b)),
                      i < j, Texts(T, c[i], c[j])
               PROVE  c[i] < c[j]
    BY <1>2 DEF InLine
<1>4. \A k \in 1..(Len(a) + Len(b)) :
          \/ k \in DOMAIN a /\ k <= Len(a) /\ c[k] = a[k]
          \/ k - Len(a) \in DOMAIN b /\ k > Len(a) /\ c[k] = b[k - Len(a)]
    BY <1>1, <1>2
<1>5. \A k \in DOMAIN a, l \in DOMAIN b : Texts(T, a[k], b[l]) => a[k] < b[l]
    BY DEF Ahead, Range
<1> HIDE DEF c
<1>6. CASE i <= Len(a) /\ j <= Len(a)
    BY <1>2, <1>3, <1>4, <1>6 DEF InLine
<1>7. CASE i > Len(a) /\ j > Len(a)
  <2> DEFINE k == i - Len(a)
             l == j - Len(a)
  <2>1. k \in DOMAIN b /\ c[i] = b[k] /\ l \in DOMAIN b /\ c[j] = b[l] /\ k < l
      BY <1>2, <1>3, <1>4, <1>7
  <2> HIDE DEF k, l
  <2> QED BY <1>3, <2>1 DEF InLine
<1>8. CASE i <= Len(a) /\ j > Len(a)
  <2>1. i \in DOMAIN a /\ c[i] = a[i] /\ j - Len(a) \in DOMAIN b /\ c[j] = b[j - Len(a)]
      BY <1>2, <1>4, <1>8
  <2> QED BY <1>3, <1>5, <2>1
<1> QED BY <1>2, <1>3, <1>6, <1>7, <1>8

\* The burst joins the slot.
LEMMA QueuedFlush ==
    ASSUME NEW T, NEW S, NEW a, NEW b, NEW c \in Seq(S), NEW d \in Seq(S),
           Queued(T, a, b, c, d)
    PROVE  Queued(T, a, b, c \o d, <<>>)
<1>1. InLine(T, c \o d) BY JoinedInLine DEF Queued
<1>2. Range(c \o d) = Range(c) \union Range(d) BY Joined
<1>3. Range(<<>>) = {} BY RangeEmpty
<1> QED BY <1>1, <1>2, <1>3, EmptyInLine DEF Queued, Ahead

\* The slot's messages are given to the owner.
LEMMA QueuedGive ==
    ASSUME NEW T, NEW a, NEW c, NEW d, Queued(T, a, <<>>, c, d)
    PROVE  Queued(T, a, c, <<>>, d)
<1>1. Range(<<>>) = {} BY RangeEmpty
<1> QED BY <1>1, EmptyInLine DEF Queued

\* The owner's run is started on what it was given.
LEMMA QueuedStart ==
    ASSUME NEW T, NEW S, NEW a \in Seq(S), NEW b \in Seq(S), NEW c, NEW d,
           Queued(T, a, b, c, d)
    PROVE  Queued(T, a \o b, <<>>, c, d)
<1>1. InLine(T, a \o b) BY JoinedInLine DEF Queued
<1>2. Range(a \o b) = Range(a) \union Range(b) BY Joined
<1>3. Range(<<>>) = {} BY RangeEmpty
<1> QED BY <1>1, <1>2, <1>3, EmptyInLine DEF Queued, Ahead

\* What the owner was given is let go.
LEMMA QueuedFail ==
    ASSUME NEW T, NEW a, NEW b, NEW c, NEW d, Queued(T, a, b, c, d)
    PROVE  Queued(T, a, <<>>, c, d)
<1>1. Range(<<>>) = {} BY RangeEmpty
<1> QED BY <1>1, EmptyInLine DEF Queued

\* The slot is left with some of its messages, and others that are no texts.
LEMMA QueuedAmong ==
    ASSUME NEW T, NEW a, NEW b, NEW c, NEW d, Queued(T, a, b, c, d),
           NEW e, NEW H, Range(e) \subseteq Range(c) \union H, InLine(T, e),
           \A h \in H : T[h].kind # "text"
    PROVE  Queued(T, a, b, e, d)
<1>1. Ahead(T, Range(a), Range(e)) BY DEF Queued, Ahead, Texts
<1>2. Ahead(T, Range(b), Range(e)) BY DEF Queued, Ahead, Texts
<1>3. Ahead(T, Range(e), Range(d)) BY DEF Queued, Ahead, Texts
<1> QED BY <1>1, <1>2, <1>3 DEF Queued

\* A message newer than all of them joins the buffer.
LEMMA QueuedBuffer ==
    ASSUME NEW T, NEW S, NEW a, NEW b, NEW c, NEW d \in Seq(S), Queued(T, a, b, c, d),
           NEW m \in S,
           \A x \in Range(a) \union Range(b) \union Range(c) \union Range(d) : x < m
    PROVE  Queued(T, a, b, c, d \o <<m>>)
<1> DEFINE e == <<m>>
<1>1. e \in Seq(S) /\ Range(e) = {m} /\ InLine(T, e) BY Single, EmptyInLine
<1> HIDE DEF e
<1>2. Ahead(T, Range(d), Range(e)) BY <1>1 DEF Ahead
<1>3. InLine(T, d \o e) BY <1>1, <1>2, JoinedInLine DEF Queued
<1>4. Range(d \o e) = Range(d) \union {m} BY <1>1, Joined
<1>5. Queued(T, a, b, c, d \o e) BY <1>3, <1>4 DEF Queued, Ahead
<1> QED BY <1>5 DEF e

\* It joins the slot, when the buffer holds nothing of its line.
LEMMA QueuedSlot ==
    ASSUME NEW T, NEW S, NEW a, NEW b, NEW c \in Seq(S), NEW d, Queued(T, a, b, c, d),
           NEW m \in S,
           \A x \in Range(a) \union Range(b) \union Range(c) : x < m,
           \A y \in Range(d) : ~Texts(T, m, y)
    PROVE  Queued(T, a, b, c \o <<m>>, d)
<1> DEFINE e == <<m>>
<1>1. e \in Seq(S) /\ Range(e) = {m} /\ InLine(T, e) BY Single, EmptyInLine
<1> HIDE DEF e
<1>2. Ahead(T, Range(c), Range(e)) BY <1>1 DEF Ahead
<1>3. InLine(T, c \o e) BY <1>1, <1>2, JoinedInLine DEF Queued
<1>4. Range(c \o e) = Range(c) \union {m} BY <1>1, Joined
<1>5. Queued(T, a, b, c \o e, d) BY <1>3, <1>4 DEF Queued, Ahead
<1> QED BY <1>5 DEF e


Given == IF owner = Nobody THEN <<>> ELSE task[owner].input
QueueOnly == \A x \in Range(overflow) : traffic[x].kind = "queue"
OneSender == \A x, y \in Range(buffer) : traffic[x].from = traffic[y].from
LinedUp == /\ Queued(traffic, started, Given, pending, buffer)
           /\ QueueOnly /\ OneSender
Line == script = <<>> => LinedUp

LEMMA NowLinedUp ==
    ASSUME LinedUp, UNCHANGED traffic,
           Queued(traffic, started', Given', pending', buffer'),
           Range(overflow') \subseteq Range(overflow), buffer' \in {<<>>, buffer}
    PROVE  LinedUp'
<1>1. QueueOnly' BY DEF LinedUp, QueueOnly
<1>2. OneSender' BY RangeEmpty DEF LinedUp, OneSender
<1> QED BY <1>1, <1>2 DEF LinedUp

LEMMA GivenIs ==
    ASSUME Basics, ByItself
    PROVE  /\ Given \in Seq(Messages)
           /\ \A t \in TaskIds : Working(t) => owner = t /\ Given = task[t].input
           /\ \A t \in TaskIds :
                task[t].at \in {"running", "returned", "delivering"} => owner = t /\ Given = <<>>
           /\ \A t \in TaskIds : task[t].at = "cleanup" /\ owner \in {Nobody, t} => Given = <<>>
<1>1. owner \in TaskIds \union {Nobody} BY DEF Basics, ScalarsOK
<1>2. Given \in Seq(Messages)
  <2>1. <<>> \in Seq(Messages) BY EmptySeq
  <2> QED BY <1>1, <2>1, TaskFields DEF Given, Basics
<1>3. ASSUME NEW t \in TaskIds, Working(t) PROVE owner = t /\ Given = task[t].input
    BY <1>3 DEF ByItself, OnlyOwnerWorks, Given, TaskIds, Nobody
<1>4. \A t \in TaskIds : task[t].at \in {"running", "returned", "delivering", "cleanup"}
                           => task[t].input = <<>>
    BY DEF Basics, HeldWhere
<1>5. \A t \in TaskIds : task[t].at \in {"running", "returned", "delivering"} => Working(t)
    BY DEF Working, Live
<1> QED BY <1>2, <1>3, <1>4, <1>5 DEF Given

LEMMA GivenKept ==
    ASSUME Basics, owner' = owner, owner # Nobody => task'[owner].input = task[owner].input
    PROVE  Given' = Given
BY DEF Given, Nobody

LEMMA Older ==
    ASSUME Basics, Placed, ByItself, NEW m \in Messages, Receive(m)
    PROVE  \A x \in Range(started) \union Range(Given) \union Range(pending)
                      \union Range(buffer) : x < m
<1>1. arrived \in Nat /\ m = arrived + 1 BY Unplaced
<1>2. \A p \in Places : Range(Contents[p]) \subseteq 1..arrived
    BY DEF Placed, All
<1>3. Range(started) \subseteq 1..arrived /\ Range(pending) \subseteq 1..arrived
      /\ Range(buffer) \subseteq 1..arrived
    BY <1>2, PlacesApart, ContentsAre
<1>4. \A t \in TaskIds : Range(task[t].input) \subseteq 1..arrived
    BY <1>2, PlacesApart, ContentsAre
<1>5. Range(Given) \subseteq 1..arrived
    BY <1>4, RangeEmpty DEF Given, Basics, ScalarsOK
<1>6. \A x \in 1..arrived : x < m BY <1>1
<1> QED BY <1>3, <1>5, <1>6

LEMMA FlushedLine ==
    ASSUME Basics, LinedUp
    PROVE  /\ Queued(traffic, started, Given, FlushedPending, FlushedBuffer)
           /\ FlushedBuffer \in {<<>>, buffer}
<1>1. pending \in Seq(Messages) /\ buffer \in Seq(Messages) BY DEF Basics, ContentsOK
<1>2. Queued(traffic, started, Given, pending \o buffer, <<>>)
    BY <1>1, QueuedFlush DEF LinedUp
<1>3. FlushedPending = IF CanFlush THEN pending \o buffer ELSE pending
    BY Flushed DEF Basics
<1> QED BY <1>2, <1>3 DEF FlushedBuffer, LinedUp

LEMMA PhotoQueueLine ==
    ASSUME Basics, Placed, ByItself, LinedUp, NEW m \in Messages,
           ReceivePhoto(m) \/ ReceiveQueue(m)
    PROVE  LinedUp'
<1>1. /\ Receive(m) /\ UNCHANGED <<traffic, started, buffer, owner, task>>
      /\ traffic[m].kind \in {"photo", "queue"}
    BY DEF ReceivePhoto, ReceiveQueue, Receive
<1>2. Given' = Given BY <1>1, GivenKept
<1>3. \A x \in Range(started) \union Range(Given) \union Range(pending) : x < m
    BY <1>1, Older
<1>4. pending \in Seq(Messages) /\ overflow \in Seq(Messages) BY DEF Basics, ContentsOK
<1>5. \A y \in Range(buffer) : ~Texts(traffic, m, y) BY <1>1 DEF Texts
<1>6. Queued(traffic, started, Given, pending \o <<m>>, buffer)
    BY <1>3, <1>4, <1>5, QueuedSlot DEF LinedUp
<1>7. ASSUME ReceivePhoto(m) PROVE LinedUp'
  <2>1. pending' = pending \o <<m>> /\ UNCHANGED overflow BY <1>7, ReceivePhotoEffect
  <2> QED BY <1>1, <1>2, <1>6, <2>1, NowLinedUp
<1>8. ASSUME ReceiveQueue(m), pending = <<>> PROVE LinedUp'
  <2>1. pending' = <<m>> /\ UNCHANGED overflow BY <1>8 DEF ReceiveQueue
  <2>2. <<>> \o <<m>> = <<m>> BY Single, Joined
  <2>3. pending' = pending \o <<m>> BY <1>8, <2>1, <2>2
  <2> QED BY <1>1, <1>2, <1>6, <2>1, <2>3, NowLinedUp
<1>9. ASSUME ReceiveQueue(m), pending # <<>> PROVE LinedUp'
  <2>1. overflow' = Append(overflow, m) /\ UNCHANGED pending /\ traffic[m].kind = "queue"
      BY <1>9 DEF ReceiveQueue
  <2>2. Range(overflow') = Range(overflow) \union {m}
    <3> DEFINE e == <<m>>
    <3>1. e \in Seq(Messages) /\ Range(e) = {m} /\ overflow' = overflow \o e
        BY <1>4, <2>1, Single, Appended
    <3> HIDE DEF e
    <3> QED BY <1>4, <3>1, Joined
  <2>3. QueueOnly' BY <1>1, <2>1, <2>2 DEF LinedUp, QueueOnly
  <2>4. OneSender' BY <1>1 DEF LinedUp, OneSender
  <2> QED BY <1>1, <1>2, <2>1, <2>3, <2>4 DEF LinedUp
<1> QED BY <1>7, <1>8, <1>9

\* A text of the buffer's sender joins it, another's takes its place, or
\* overtakes it into the slot.
LEMMA TextLine ==
    ASSUME Basics, Placed, ByItself, LinedUp, NEW m \in Messages, ReceiveText(m)
    PROVE  LinedUp'
<1>1. Receive(m) /\ UNCHANGED <<traffic, started, overflow, owner, task>>
    BY DEF ReceiveText, Receive
<1>2. Given' = Given BY <1>1, GivenKept
<1>3. \A x \in Range(started) \union Range(Given) \union Range(pending)
                \union Range(buffer) : x < m
    BY <1>1, Older
<1>4. pending \in Seq(Messages) /\ buffer \in Seq(Messages) BY DEF Basics, ContentsOK
<1>5. QueueOnly' BY <1>1 DEF LinedUp, QueueOnly
<1>6. Range(<<>>) = {} BY RangeEmpty
<1> DEFINE e == <<m>>
<1>7. e \in Seq(Messages) /\ Range(e) = {m} /\ e # <<>> /\ e[1] = m BY Single
<1>8. <<>> \o <<m>> = <<m>> BY Single, Joined
<1>9. buffer # <<>> => buffer[1] \in Range(buffer)
  <2>1. buffer # <<>> => 1 \in DOMAIN buffer BY <1>4, EmptySeq, LenProperties
  <2> QED BY <2>1 DEF Range
<1>10. ASSUME buffer = <<>> \/ SameSender(buffer, e), buffer' = buffer \o e, UNCHANGED pending
       PROVE  LinedUp'
  <2>1. Queued(traffic, started, Given, pending, buffer \o <<m>>)
      BY <1>3, <1>4, QueuedBuffer DEF LinedUp
  <2>2. Range(buffer') = Range(buffer) \union {m}
    <3> HIDE DEF e
    <3> QED BY <1>4, <1>7, <1>10, Joined
  <2>3. \A x \in Range(buffer) : traffic[x].from = traffic[m].from
    <3>1. CASE buffer = <<>> BY <1>6, <3>1
    <3>2. CASE SameSender(buffer, e)
        BY <1>7, <1>9, <3>2 DEF SameSender, LinedUp, OneSender
    <3> QED BY <1>10, <3>1, <3>2
  <2>4. OneSender' BY <1>1, <2>2, <2>3 DEF LinedUp, OneSender
  <2> QED BY <1>1, <1>2, <1>5, <1>10, <2>1, <2>4 DEF LinedUp
<1>11. ASSUME pending' = pending \o buffer, buffer' = e PROVE LinedUp'
  <2>1. Queued(traffic, started, Given, pending \o buffer, <<>>)
      BY <1>4, QueuedFlush DEF LinedUp
  <2>2. Range(pending \o buffer) = Range(pending) \union Range(buffer) BY <1>4, Joined
  <2>3. <<>> \in Seq(Messages) BY EmptySeq
  <2>4. Queued(traffic, started, Given, pending \o buffer, <<>> \o <<m>>)
      BY <1>3, <1>6, <2>1, <2>2, <2>3, QueuedBuffer
  <2>5. OneSender' BY <1>1, <1>7, <1>11 DEF OneSender
  <2> QED BY <1>1, <1>2, <1>5, <1>8, <1>11, <2>4, <2>5 DEF LinedUp
<1>12. ASSUME buffer # <<>>, ~SameSender(buffer, e), pending' = pending \o <<m>>,
              UNCHANGED buffer
       PROVE  LinedUp'
  <2>1. \A y \in Range(buffer) : traffic[y].from # traffic[m].from
      BY <1>7, <1>9, <1>12 DEF SameSender, LinedUp, OneSender
  <2>2. \A y \in Range(buffer) : ~Texts(traffic, m, y) BY <2>1 DEF Texts
  <2>3. Queued(traffic, started, Given, pending \o <<m>>, buffer)
      BY <1>3, <1>4, <2>2, QueuedSlot DEF LinedUp
  <2> QED BY <1>1, <1>2, <1>12, <2>3, NowLinedUp
<1>13. ASSUME UNCHANGED <<pending, buffer>> PROVE LinedUp'
    BY <1>1, <1>2, <1>13, NowLinedUp DEF LinedUp
<1> QED BY <1>10, <1>11, <1>12, <1>13, ReceiveTextEffect

LEMMA IdleLine ==
    ASSUME Basics, Placed, ByItself, LinedUp, NEW m \in Messages, ReceiveIdle(m)
    PROVE  LinedUp'
<1>1. /\ Receive(m) /\ guard = 0 /\ owner' = NextTask
      /\ UNCHANGED <<traffic, started, overflow>>
    BY NeverStale DEF ReceiveIdle, Receive, StartProcessing
<1>10. SignalsOK' BY SignalsStep DEF Next
<1>2. Born(NextTask, <<m>>, NextTask) /\ UNCHANGED <<pending, buffer>>
    BY <1>10, ReceiveIdleBasics
<1>3. pending = <<>> /\ buffer = <<>> /\ Given = <<>>
    BY <1>1 DEF ByItself, NothingBehindIdle, GuardIsOwners, Given
<1>4. Given' = <<m>> /\ NextTask # Nobody
    BY <1>1, <1>2, BornHolds DEF Given, TaskIds, Nobody
<1>5. \A x \in Range(started) \union Range(Given) \union Range(pending) : x < m
    BY <1>1, Older
<1>6. <<>> \in Seq(Messages) /\ Range(<<>>) = {} /\ <<>> \o <<m>> = <<m>>
    BY EmptySeq, RangeEmpty, Single, Joined
<1>7. \A y \in Range(buffer) : ~Texts(traffic, m, y) BY <1>3, <1>6
<1>8. Queued(traffic, started, <<>>, <<>> \o <<m>>, <<>>)
    BY <1>3, <1>5, <1>6, <1>7, QueuedSlot DEF LinedUp
<1>9. Queued(traffic, started, <<m>>, <<>>, <<>>) BY <1>6, <1>8, QueuedGive
<1> QED BY <1>1, <1>2, <1>3, <1>4, <1>9, NowLinedUp

LEMMA TimerLine ==
    ASSUME Basics, LinedUp, TimerFires PROVE LinedUp'
<1>1. /\ UNCHANGED <<traffic, started, overflow, owner, task>>
      /\ pending' = FlushedPending /\ buffer' = FlushedBuffer
    BY DEF TimerFires
<1>2. Given' = Given BY <1>1, GivenKept
<1> QED BY <1>1, <1>2, FlushedLine, NowLinedUp


LEMMA StartsLine ==
    ASSUME Basics, Placed, ByItself, LinedUp, NEW t \in TaskIds, RunStarts(t)
    PROVE  LinedUp'
<1>1. /\ UNCHANGED <<traffic, pending, buffer, overflow, owner>> /\ task[t].at = "setup"
      /\ started' = started \o task[t].input
    BY DEF RunStarts
<1>2. Working(t) BY <1>1 DEF Working, Live
<1>3. owner = t /\ Given = task[t].input /\ Given \in Seq(Messages) BY <1>2, GivenIs
<1>4. Given' = <<>> BY <1>1, <1>3, RunStartsTasks DEF Given, Becomes
<1>5. started \in Seq(Messages) BY DEF Basics, ContentsOK
<1>6. Queued(traffic, started \o Given, <<>>, pending, buffer)
    BY <1>3, <1>5, QueuedStart DEF LinedUp
<1> QED BY <1>1, <1>3, <1>4, <1>6, NowLinedUp

\* What is promoted from the overflow is a /queue message, and the overflow is
\* left without it.
LEMMA PromotedIs ==
    ASSUME Basics, LinedUp
    PROVE  /\ Range(Remaining) \subseteq Range(overflow)
           /\ overflow # <<>> => /\ traffic[Head(overflow)].kind = "queue"
                                 /\ <<Head(overflow)>> \in Seq(Messages)
                                 /\ Range(<<Head(overflow)>>) = {Head(overflow)}
                                 /\ <<Head(overflow)>> # <<>>
                                 /\ InLine(traffic, <<Head(overflow)>>)
<1>1. overflow \in Seq(Messages) BY DEF Basics, ContentsOK
<1>2. CASE overflow = <<>> BY <1>2 DEF Remaining
<1>3. CASE overflow # <<>>
  <2>1. Range(overflow) = {Head(overflow)} \union Range(Tail(overflow))
        /\ Head(overflow) \in Messages
      BY <1>1, <1>3, Beheaded
  <2>2. traffic[Head(overflow)].kind = "queue" BY <2>1 DEF LinedUp, QueueOnly
  <2>3. Range(Remaining) \subseteq Range(overflow) BY <1>3, <2>1 DEF Remaining
  <2> QED BY <2>1, <2>2, <2>3, Single, EmptyInLine
<1> QED BY <1>2, <1>3

LEMMA FollowUpLine ==
    ASSUME Basics, Placed, ByItself, LinedUp, NEW t \in TaskIds, FollowUp(t)
    PROVE  LinedUp'
<1> DEFINE h == Head(overflow)
<1>1. /\ UNCHANGED <<traffic, buffer, owner>> /\ task[t].at = "returned"
      /\ started' = started \o NextInput(t)
      /\ pending' = Promoted /\ overflow' = Remaining
    BY DEF FollowUp
<1>2. owner = t /\ Given = <<>> BY <1>1, GivenIs
<1>3. Given' = <<>>
  <2>1. task'[t].input = task[t].input BY FollowUpTasks DEF Becomes
  <2> QED BY <1>1, <1>2, <2>1, GivenKept
<1>4. started \in Seq(Messages) /\ pending \in Seq(Messages) BY DEF Basics, ContentsOK
<1>5. Range(overflow') \subseteq Range(overflow) BY <1>1, PromotedIs
<1>6. task[t].interrupt = <<>> BY DEF ByItself, NoneInterrupted
<1>7. Range(<<>>) = {} BY RangeEmpty
<1>8. CASE pending # <<>>
  <2>1. NextInput(t) = pending BY <1>8 DEF NextInput
  <2>2. Queued(traffic, started, pending, <<>>, buffer)
      BY <1>2, QueuedGive DEF LinedUp
  <2>3. Queued(traffic, started \o pending, <<>>, <<>>, buffer)
      BY <1>4, <2>2, QueuedStart
  <2>4. Queued(traffic, started', <<>>, Promoted, buffer)
    <3>1. CASE overflow = <<>> BY <1>1, <2>1, <2>3, <3>1 DEF Promoted
    <3>2. CASE overflow # <<>>
      <4>1. Promoted = <<h>> BY <1>8, <3>2 DEF Promoted
      <4> DEFINE e == <<h>>
      <4>2. Range(e) \subseteq Range(<<>>) \union {h} /\ InLine(traffic, e)
            /\ \A x \in {h} : traffic[x].kind # "text"
          BY <3>2, PromotedIs
      <4> HIDE DEF e
      <4>3. Queued(traffic, started \o pending, <<>>, e, buffer)
          BY <2>3, <4>2, QueuedAmong
      <4> QED BY <1>1, <2>1, <4>1, <4>3 DEF e
    <3> QED BY <3>1, <3>2
  <2> QED BY <1>1, <1>3, <1>5, <2>4, NowLinedUp
<1>10. CASE pending = <<>> /\ overflow = <<>>
  <2>1. NextInput(t) = <<>> /\ Promoted = <<>>
      BY <1>6, <1>10 DEF NextInput, Promoted
  <2>2. started' = started
    <3>1. <<>> \o <<>> = <<>> /\ started \o <<>> = started BY <1>4, EmptySeq, Joined
    <3> QED BY <1>1, <2>1, <3>1
  <2>3. Queued(traffic, started', <<>>, <<>>, buffer) BY <1>2, <1>10, <2>2 DEF LinedUp
  <2> QED BY <1>1, <1>3, <1>5, <2>1, <2>3, NowLinedUp
<1>9. CASE pending = <<>> /\ overflow # <<>>
  <2>1. overflow # <<>> /\ NextInput(t) = <<h>> BY <1>9 DEF NextInput
  <2>2. Promoted = <<>> BY <1>9 DEF Promoted
  <2> DEFINE e == <<h>>
  <2>3. Range(e) \subseteq Range(<<>>) \union {h} /\ InLine(traffic, e)
        /\ e \in Seq(Messages) /\ \A x \in {h} : traffic[x].kind # "text"
      BY <2>1, PromotedIs
  <2>4. NextInput(t) = e BY <2>1
  <2> HIDE DEF e
  <2>5. Queued(traffic, started, <<>>, e, buffer)
      BY <1>2, <1>9, <2>3, QueuedAmong DEF LinedUp
  <2>6. Queued(traffic, started, e, <<>>, buffer) BY <2>5, QueuedGive
  <2>7. Queued(traffic, started \o e, <<>>, <<>>, buffer)
      BY <1>4, <2>3, <2>6, QueuedStart
  <2> QED BY <1>1, <1>3, <1>5, <2>2, <2>4, <2>7, NowLinedUp
<1> QED BY <1>8, <1>9, <1>10

LEMMA RunEndsLine ==
    ASSUME Basics, Placed, ByItself, LinedUp, NEW t \in TaskIds, RunEnds(t)
    PROVE  LinedUp'
<1> DEFINE h == Head(overflow)
           H == IF overflow = <<>> THEN {} ELSE {h}
           e == Requeued(t)
<1>1. /\ UNCHANGED <<traffic, buffer, owner, started>> /\ task[t].at = "returned"
      /\ pending' = Requeued(t) /\ overflow' = Remaining
    BY DEF RunEnds
<1>2. owner = t BY <1>1, GivenIs
<1>3. Given' = Given
  <2>1. task'[t].input = task[t].input BY RunEndsTasks DEF Becomes
  <2> QED BY <1>1, <1>2, <2>1, GivenKept
<1>4. Range(overflow') \subseteq Range(overflow) BY <1>1, PromotedIs
<1>5. \A x \in H : traffic[x].kind # "text" BY PromotedIs
<1>6. pending \in Seq(Messages) /\ InLine(traffic, pending)
    BY DEF Basics, ContentsOK, LinedUp, Queued
<1>7. Range(<<>>) = {} /\ InLine(traffic, <<>>) BY RangeEmpty, EmptyInLine
<1>8. Range(e) \subseteq Range(pending) \union H /\ InLine(traffic, e)
  <2>1. CASE overflow = <<>>
    <3>1. e \in {<<>>, pending}
        BY <2>1 DEF Requeued, Merged, Promoted, NextInput
    <3> QED BY <1>6, <1>7, <3>1
  <2>2. CASE overflow # <<>>
    <3> DEFINE q == <<h>>
    <3>1. /\ q \in Seq(Messages) /\ Range(q) = {h} /\ InLine(traffic, q)
          /\ H = {h} /\ traffic[h].kind = "queue"
        BY <2>2, PromotedIs
    <3>2. \/ pending # <<>> /\ e \in {q \o pending, pending}
          \/ pending = <<>> /\ e = q
        BY <2>2 DEF Requeued, Merged, Promoted, NextInput
    <3> HIDE DEF q, h, H, e
    <3>3. Range(q \o pending) = Range(q) \union Range(pending) BY <1>6, <3>1, Joined
    <3>4. Ahead(traffic, Range(q), Range(pending)) BY <3>1 DEF Ahead, Texts
    <3>5. InLine(traffic, q \o pending) BY <1>6, <3>1, <3>4, JoinedInLine
    <3> QED BY <1>6, <3>1, <3>2, <3>3, <3>5
  <2> QED BY <2>1, <2>2
<1> HIDE DEF H
<1>9. Queued(traffic, started, Given, e, buffer)
    BY <1>5, <1>8, QueuedAmong DEF LinedUp
<1> QED BY <1>1, <1>3, <1>4, <1>9, NowLinedUp

LEMMA FailsLine ==
    ASSUME Basics, Placed, ByItself, LinedUp, NEW t \in TaskIds, RunFails(t)
    PROVE  LinedUp'
<1>1. /\ UNCHANGED <<traffic, started, pending, buffer, overflow, owner>>
      /\ task[t].at \in {"setup", "running", "returned"}
    BY DEF RunFails
<1>2. owner = t BY <1>1, GivenIs DEF Working, Live
<1>3. Given' = <<>> BY <1>1, <1>2, RunFailsTasks DEF Given, Becomes
<1>4. Queued(traffic, started, <<>>, pending, buffer) BY QueuedFail DEF LinedUp
<1> QED BY <1>1, <1>3, <1>4, NowLinedUp

\* The steps that hand nothing over.
LEMMA QuietLine ==
    ASSUME Basics, ByItself, LinedUp, NEW t \in TaskIds,
           Claim(t) \/ LoopEnds(t) \/ RunTimesOut(t) \/ Unwind(t)
    PROVE  LinedUp'
<1>1. UNCHANGED <<traffic, started, pending, buffer, overflow, owner>>
    BY DEF Claim, LoopEnds, RunTimesOut, Unwind
<1>2. \A u \in TaskIds : task'[u].input = task[u].input
    BY ClaimTasks, LoopEndsTasks, RunTimesOutTasks, UnwindTasks DEF KeptBut, Becomes
<1>3. Given' = Given
  <2>1. owner \in TaskIds \union {Nobody} BY DEF Basics, ScalarsOK
  <2> QED BY <1>1, <1>2, <2>1, GivenKept
<1> QED BY <1>1, <1>3, NowLinedUp DEF LinedUp

LEMMA DeliverLine ==
    ASSUME Basics, Placed, ByItself, LinedUp, NEW t \in TaskIds, Deliver(t)
    PROVE  LinedUp'
<1>1. /\ UNCHANGED <<traffic, started, overflow, owner>> /\ task[t].at = "delivering"
      /\ pending' = <<>> /\ buffer' = FlushedBuffer
    BY DEF Deliver
<1>2. owner = t /\ Given = <<>> BY <1>1, GivenIs
<1>3. Given' = FlushedPending
  <2>1. task'[t].input = FlushedPending BY DeliverTasks DEF Becomes
  <2>2. owner' = t /\ t # Nobody BY <1>1, <1>2 DEF TaskIds, Nobody
  <2> QED BY <2>1, <2>2 DEF Given, Nobody
<1>4. Queued(traffic, started, FlushedPending, <<>>, FlushedBuffer)
    BY <1>2, FlushedLine, QueuedGive
<1> QED BY <1>1, <1>3, <1>4, FlushedLine, NowLinedUp

LEMMA HandOffLine ==
    ASSUME Basics, Placed, ByItself, LinedUp, NEW t \in TaskIds, HandOff(t)
    PROVE  LinedUp'
<1>1. /\ UNCHANGED <<traffic, started, pending, buffer, overflow>>
      /\ task[t].at = "handoff" /\ owner' = NextTask
    BY DEF HandOff
<1>2. Given = task[t].input BY <1>1, GivenIs DEF Working, Live
<1>3. NextTask \in TaskIds /\ task'[NextTask].input = task[t].input
    BY HandOffTasks, BornHolds
<1>4. Given' = Given BY <1>1, <1>2, <1>3 DEF Given, TaskIds, Nobody
<1> QED BY <1>1, <1>4, NowLinedUp DEF LinedUp

LEMMA CleanupLine ==
    ASSUME Basics, Placed, ByItself, LinedUp, NEW t \in TaskIds, Cleanup(t)
    PROVE  LinedUp'
<1>1. /\ UNCHANGED <<traffic, started, overflow>> /\ task[t].at = "cleanup"
      /\ buffer' = FlushedBuffer
    BY DEF Cleanup
<1>2. CleanupTasks(t) BY CleanupEffect
<1>3. CASE /\ owner \in {Nobody, t} /\ Born(NextTask, FlushedPending, AdoptedGuard)
           /\ pending' = <<>> /\ owner' = NextTask
  <2>1. Given = <<>> BY <1>1, <1>3, GivenIs
  <2>2. NextTask \in TaskIds /\ task'[NextTask].input = FlushedPending
      BY <1>3, BornHolds
  <2>3. Given' = FlushedPending BY <1>3, <2>2 DEF Given, TaskIds, Nobody
  <2>4. Queued(traffic, started, FlushedPending, <<>>, FlushedBuffer)
      BY <2>1, FlushedLine, QueuedGive
  <2> QED BY <1>1, <1>3, <2>3, <2>4, FlushedLine, NowLinedUp
<1>4. CASE /\ KeptBut({t}) /\ owner \notin {Nobody, t} /\ pending' = FlushedPending
           /\ UNCHANGED owner
  <2>1. task'[owner].input = task[owner].input
      BY <1>4 DEF KeptBut, Basics, ScalarsOK
  <2>2. Given' = Given BY <1>4, <2>1, GivenKept
  <2> QED BY <1>1, <1>4, <2>2, FlushedLine, NowLinedUp
<1>5. CASE /\ KeptBut({t}) /\ FlushedPending = <<>> /\ pending' = <<>>
           /\ owner' = IF owner = t THEN Nobody ELSE owner
  <2>1. Given' = Given
    <3>1. CASE owner = t BY <1>1, <1>5, <3>1, GivenIs DEF Given, Nobody
    <3>2. CASE owner # t
      <4>1. owner # Nobody => task'[owner].input = task[owner].input
          BY <1>5, <3>2 DEF KeptBut, Basics, ScalarsOK
      <4> QED BY <1>5, <3>2, <4>1, GivenKept
    <3> QED BY <3>1, <3>2
  <2> QED BY <1>1, <1>5, <2>1, FlushedLine, NowLinedUp
<1> QED BY <1>2, <1>3, <1>4, <1>5 DEF CleanupTasks

LEMMA InitLine == Init => Line
<1> SUFFICES ASSUME Init PROVE LinedUp BY DEF Line
<1>1. started = <<>> /\ Given = <<>> /\ pending = <<>> /\ buffer = <<>> /\ overflow = <<>>
    BY DEF Init, Given
<1>2. Range(<<>>) = {} BY RangeEmpty
<1>3. Queued(traffic, <<>>, <<>>, <<>>, <<>>) BY <1>2, EmptyInLine DEF Queued
<1> QED BY <1>1, <1>2, <1>3 DEF LinedUp, QueueOnly, OneSender

LEMMA LineStep == Basics /\ Placed /\ Alone /\ Line /\ [Next]_vars => Line'
<1> SUFFICES ASSUME Basics, Placed, Alone, Line, [Next]_vars, script' = <<>> PROVE LinedUp'
    BY DEF Line
<1>1. script = <<>> /\ ByItself /\ LinedUp
    BY ScenarioKept DEF Alone, Line, SameScenario
<1>2. ASSUME NEW m \in Messages, ReceiveIdle(m) \/ ReceivePhoto(m) \/ ReceiveText(m)
                                   \/ ReceiveQueue(m)
      PROVE  LinedUp'
    BY <1>1, <1>2, IdleLine, PhotoQueueLine, TextLine
<1>3. CASE TimerFires BY <1>1, <1>3, TimerLine
<1>4. ASSUME NEW t \in TaskIds, TaskStep(t) PROVE LinedUp'
    BY <1>1, <1>4, NeverBusy, QuietLine, StartsLine, FollowUpLine, RunEndsLine, FailsLine,
       DeliverLine, HandOffLine, CleanupLine DEF TaskStep
<1>7. \A t \in TaskIds : ~Peek(t) BY <1>1, NeverPeeks
<1>5. ~CommandArrives /\ ~CommandContinues BY <1>1, NoCommandMoves DEF ByItself
<1>6. CASE UNCHANGED vars
  <2>1. UNCHANGED <<traffic, started, pending, buffer, overflow, owner, task>>
      BY <1>6 DEF vars
  <2>2. Given' = Given BY <2>1, GivenKept
  <2> QED BY <1>1, <2>1, <2>2, NowLinedUp DEF LinedUp
<1> QED BY <1>2, <1>3, <1>4, <1>5, <1>6, <1>7 DEF Next

LEMMA LineMeans == Line => TextsInOrder
BY DEF Line, LinedUp, Queued, InLine, Texts, TextsInOrder

\* Left alone, one sender's texts are given to agents in the order they were
\* sent: burst, slot, hand-over, late drain and overflow never let a later one
\* overtake an earlier one.
THEOREM InOrderTheorem == Spec => []TextsInOrder
<1>1. Init => Line BY InitLine
<1>2. Spec => []Line BY <1>1, AloneAlways, LineStep, PTL DEF Spec
<1> QED BY <1>2, LineMeans, PTL


=============================================================================
