--------------------------- MODULE ServicesProofs ---------------------------
(***************************************************************************)
(* Theorems about the smaller protocols, for any number of requests,       *)
(* questions, processes, agents, threads and ticks:                        *)
(*                                                                         *)
(*   - no command runs without a yes, no answer goes to one who left, and  *)
(*     no answer is taken back;                                            *)
(*   - the compression lock excludes;                                      *)
(*   - the end of a background process is announced once, and not to an    *)
(*     agent that has read of it;                                          *)
(*   - a due cron job is dispatched once;                                  *)
(*   - no chat message is taken for an answer nobody waits for;            *)
(*   - all six services, side by side, are well typed.                     *)
(***************************************************************************)
EXTENDS MCServices, KanbanNotifyProofs, FiniteSetTheorems

----------------------------------------------------------------------------
(* Consent (Approvals)                                                     *)

Yes == {"once", "session"}
Queued == {"asking", "waiting", "woken", "expired"}

\* A request that is queued, or has yet to be, has had no answer.
Unanswered ==
    \A r \in Requests :
      r \in waiting \/ asker[r] \in {"idle", "armed"} =>
        telling[r] = "none" /\ result[r] = "none" /\ ~event[r] /\ granted[r] = "none"

\* Every yes on its way, or arrived, is the user's.
YesGranted ==
    \A r \in Requests :
      /\ telling[r] \in Yes => granted[r] = telling[r]
      /\ result[r] \in Yes => granted[r] = result[r]

\* Once the event is set nobody writes any more.
Settled == \A r \in Requests : event[r] => telling[r] = "none"

\* A thread looks at its answer after its event.
WokenByEvent ==
    \A r \in Requests :
      /\ asker[r] \in {"woken", "approving"} => event[r]
      /\ asker[r] = "approving" => result[r] \in Yes

RememberedGranted ==
    \A p \in remembered : \E q \in Requests : Pattern[q] = p /\ granted[q] = "session"

ApprovalsInv ==
    /\ ApprovalsTypeOK /\ NoOrphanRequests /\ Unanswered /\ YesGranted /\ Settled
    /\ WokenByEvent /\ RememberedGranted /\ ConsentGiven

LEMMA ApprovalsInitInv == ApprovalsInit => ApprovalsInv
BY DEF ApprovalsInit, ApprovalsInv, ApprovalsTypeOK, NoOrphanRequests, Unanswered,
       YesGranted, Settled, WokenByEvent, RememberedGranted, ConsentGiven, Askers,
       Finished, Answers, Yes

\* What the user answered stays answered.
LEMMA GrantedStays ==
    ASSUME ApprovalsInv, ApprovalsNext, NEW r \in Requests, granted[r] # "none"
    PROVE  granted'[r] = granted[r]
<1>1. ASSUME NEW answer \in Answers, NEW R \in SUBSET Requests, Resolve(answer, R)
      PROVE  granted'[r] = granted[r]
  <2>1. R \subseteq waiting
    BY <1>1 DEF Resolve, Oldest
  <2>2. r \notin R
    BY <2>1 DEF ApprovalsInv, Unanswered
  <2> QED BY <1>1, <2>2 DEF Resolve
<1>2. ASSUME ~\E answer \in Answers, R \in SUBSET Requests : Resolve(answer, R)
      PROVE  granted' = granted
  BY <1>2 DEF ApprovalsNext, TurnBegins, TurnFinishes, Ask, AskerSteps, Enqueue, Notified,
              NotifyFails, Wakes, TimesOut, Decide, GoAhead, NewConversation, Tell,
              entryVars, sessionVars
<1> QED BY <1>1, <1>2

LEMMA ApprovalsTypeStep ==
    ASSUME ApprovalsTypeOK, ApprovalsNext
    PROVE  ApprovalsTypeOK'
<1> USE DEF ApprovalsTypeOK, Askers, Finished, Answers, Becomes, TakeOut, entryVars,
            sessionVars
<1>1. ASSUME NEW t \in ApprovalTurns, TurnBegins(t) \/ TurnFinishes(t)
      PROVE  ApprovalsTypeOK'
  BY <1>1 DEF TurnBegins, TurnFinishes
<1>2. ASSUME NEW r \in Requests, Ask(r) \/ Notified(r) \/ NotifyFails(r) \/ Wakes(r)
                                   \/ TimesOut(r) \/ Decide(r) \/ GoAhead(r)
      PROVE  ApprovalsTypeOK'
  BY <1>2 DEF Ask, Notified, NotifyFails, Wakes, TimesOut, Decide, Consents, GoAhead
<1>3. ASSUME NEW r \in Requests, Enqueue(r)
      PROVE  ApprovalsTypeOK'
  <2>1. Cardinality({q \in Requests : ticket[q] > 0}) \in Nat
    BY ApprovalsAssumption, FS_Subset, FS_CardinalityType
  <2> QED BY <1>3, <2>1 DEF Enqueue
<1>4. ASSUME NEW r \in Requests, Tell(r)
      PROVE  ApprovalsTypeOK'
  BY <1>4 DEF Tell
<1>5. ASSUME NEW answer \in Answers, NEW R \in SUBSET Requests, Resolve(answer, R)
      PROVE  ApprovalsTypeOK'
  BY <1>5 DEF Resolve
<1>6. CASE NewConversation
  BY <1>6 DEF NewConversation
<1> QED BY <1>1, <1>2, <1>3, <1>4, <1>5, <1>6 DEF ApprovalsNext, AskerSteps

\* Only approve_session adds to what is remembered.
LEMMA RememberedGrows ==
    ASSUME ApprovalsNext, NEW p \in remembered', p \notin remembered
    PROVE  \E r \in Requests : GoAhead(r) /\ result[r] = "session" /\ p = Pattern[r]
<1>1. ASSUME ~\E r \in Requests : GoAhead(r)
      PROVE  remembered' \subseteq remembered
  BY <1>1 DEF ApprovalsNext, AskerSteps, TurnBegins, TurnFinishes, Ask, Enqueue, Notified,
              NotifyFails, Wakes, TimesOut, Decide, Resolve, NewConversation, Tell,
              sessionVars
<1>2. PICK r \in Requests : GoAhead(r)
  BY <1>1
<1>3. result[r] = "session" /\ p = Pattern[r]
  BY <1>2 DEF GoAhead
<1> QED BY <1>2, <1>3

\* A command comes to run by what is remembered, or by its own answer.
LEMMA ApprovedBy ==
    ASSUME ApprovalsTypeOK, ApprovalsNext, NEW r \in Requests,
           asker[r] # "approved", asker'[r] = "approved"
    PROVE  (Ask(r) /\ Pattern[r] \in remembered) \/ GoAhead(r)
<1>1. asker \in [Requests -> Askers]
  BY DEF ApprovalsTypeOK
<1>2. PICK q \in Requests : Ask(q) \/ AskerSteps(q)
  BY <1>1 DEF ApprovalsNext, TurnBegins, TurnFinishes, Resolve, NewConversation, Tell
<1>3. CASE Ask(q)
  BY <1>1, <1>3 DEF Ask, Becomes
<1>4. CASE GoAhead(q)
  BY <1>1, <1>4 DEF GoAhead, Becomes
<1>5. CASE AskerSteps(q) /\ ~GoAhead(q)
  BY <1>1, <1>5 DEF AskerSteps, Enqueue, Notified, NotifyFails, Wakes, TimesOut, Decide,
                    Becomes
<1> QED BY <1>2, <1>3, <1>4, <1>5

LEMMA ApprovalsInvStep ==
    ASSUME ApprovalsInv, [ApprovalsNext]_approvalVars
    PROVE  ApprovalsInv'
<1> USE DEF ApprovalsInv, ApprovalsTypeOK, NoOrphanRequests, Unanswered, YesGranted,
            Settled, WokenByEvent, ConsentGiven, Answers, Yes, Becomes, TakeOut,
            entryVars, sessionVars
<1> DEFINE Others == NoOrphanRequests /\ Unanswered /\ YesGranted /\ Settled /\ WokenByEvent
<1>1. CASE UNCHANGED approvalVars
  BY <1>1 DEF approvalVars, RememberedGranted
<1>2. CASE ApprovalsNext
  <2>1. ApprovalsTypeOK'
    BY <1>2, ApprovalsTypeStep
  <2>2. ASSUME NEW t \in ApprovalTurns, TurnBegins(t)
        PROVE  Others' /\ UNCHANGED <<asker, granted, remembered>>
    BY <2>2 DEF TurnBegins
  <2>3. ASSUME NEW t \in ApprovalTurns, TurnFinishes(t)
        PROVE  Others' /\ UNCHANGED <<asker, granted, remembered>>
    BY <2>3 DEF TurnFinishes
  <2>4. ASSUME NEW r \in Requests, Ask(r)
        PROVE  Others'
    BY <2>4 DEF Ask
  <2>5. ASSUME NEW r \in Requests, Enqueue(r)
        PROVE  Others'
    BY <2>5 DEF Enqueue
  <2>6. ASSUME NEW r \in Requests, Notified(r) \/ NotifyFails(r) \/ Wakes(r) \/ TimesOut(r)
        PROVE  Others'
    BY <2>6 DEF Notified, NotifyFails, Wakes, TimesOut
  <2>7. ASSUME NEW r \in Requests, Decide(r)
        PROVE  Others'
    BY <2>7 DEF Decide, Consents
  <2>8. ASSUME NEW r \in Requests, GoAhead(r)
        PROVE  Others'
    BY <2>8 DEF GoAhead
  <2>9. ASSUME NEW r \in Requests, Tell(r)
        PROVE  Others'
    BY <2>9 DEF Tell
  <2>10. ASSUME NEW answer \in Answers, NEW R \in SUBSET Requests, Resolve(answer, R)
         PROVE  Others'
    <3>1. R \subseteq waiting
      BY <2>10 DEF Resolve, Oldest
    <3> QED BY <2>10, <3>1 DEF Resolve
  <2>11. ASSUME NewConversation
         PROVE  Others'
    BY <2>11 DEF NewConversation
  <2>12. Others'
    BY <1>2, <2>2, <2>3, <2>4, <2>5, <2>6, <2>7, <2>8, <2>9, <2>10, <2>11
       DEF ApprovalsNext, AskerSteps
  <2>13. RememberedGranted'
    <3> SUFFICES ASSUME NEW p \in remembered'
                 PROVE  \E q \in Requests : Pattern[q] = p /\ granted'[q] = "session"
      BY DEF RememberedGranted
    <3>1. CASE p \in remembered
      <4>1. PICK q \in Requests : Pattern[q] = p /\ granted[q] = "session"
        BY <3>1 DEF RememberedGranted
      <4> QED BY <1>2, <4>1, GrantedStays
    <3>2. CASE p \notin remembered
      <4>1. PICK r \in Requests : GoAhead(r) /\ result[r] = "session" /\ p = Pattern[r]
        BY <1>2, <3>2, RememberedGrows
      <4> QED BY <4>1 DEF GoAhead
    <3> QED BY <3>1, <3>2
  <2>14. ConsentGiven'
    <3> SUFFICES ASSUME NEW r \in Requests, asker'[r] = "approved"
                 PROVE  \/ granted'[r] \in {"once", "session"}
                        \/ \E q \in Requests : /\ Pattern[q] = Pattern[r]
                                               /\ granted'[q] = "session"
      OBVIOUS
    <3>1. CASE asker[r] = "approved"
      BY <1>2, <3>1, GrantedStays
    <3>2. CASE asker[r] # "approved"
      <4>1. (Ask(r) /\ Pattern[r] \in remembered) \/ GoAhead(r)
        BY <1>2, <3>2, ApprovedBy
      <4>2. CASE Ask(r) /\ Pattern[r] \in remembered
        BY <4>2 DEF Ask, RememberedGranted
      <4>3. CASE GoAhead(r)
        BY <4>3 DEF GoAhead
      <4> QED BY <4>1, <4>2, <4>3
    <3> QED BY <3>1, <3>2
  <2> QED BY <2>1, <2>12, <2>13, <2>14
<1> QED BY <1>1, <1>2

LEMMA ApprovalsAlwaysInv == ApprovalsSpec => []ApprovalsInv
<1>1. ApprovalsInit => ApprovalsInv
  BY ApprovalsInitInv
<1>2. ApprovalsInv /\ [ApprovalsNext]_approvalVars => ApprovalsInv'
  BY ApprovalsInvStep
<1> QED BY <1>1, <1>2, PTL DEF ApprovalsSpec

\* No command of check_all_command_guards runs unless the user said yes to it,
\* or yes for the session to another with its pattern.
THEOREM ConsentTheorem == ApprovalsSpec => []ConsentGiven
<1>1. ApprovalsInv => ConsentGiven
  BY DEF ApprovalsInv
<1> QED BY <1>1, ApprovalsAlwaysInv, PTL

\* /approve always finds requests whose threads still wait for it.
THEOREM NoOrphansTheorem == ApprovalsSpec => []NoOrphanRequests
<1>1. ApprovalsInv => NoOrphanRequests
  BY DEF ApprovalsInv
<1> QED BY <1>1, ApprovalsAlwaysInv, PTL

\* What a thread was told is never rewritten, by a second command, by the end of
\* a turn or by /new.
THEOREM OneAnswerTheorem == ApprovalsSpec => OneAnswerEach
<1>1. ASSUME ApprovalsInv, ApprovalsNext, NEW r \in Requests, event[r]
      PROVE  result'[r] = result[r]
  <2>1. CASE \E q \in Requests : Tell(q)
    BY <1>1, <2>1 DEF ApprovalsInv, ApprovalsTypeOK, Settled, Tell
  <2>2. ASSUME ~\E q \in Requests : Tell(q)
        PROVE  result' = result
    BY <1>1, <2>2 DEF ApprovalsNext, AskerSteps, TurnBegins, TurnFinishes, Ask, Enqueue,
       Notified, NotifyFails, Wakes, TimesOut, Decide, GoAhead, Resolve, NewConversation,
       entryVars
  <2> QED BY <2>1, <2>2
<1>2. ApprovalsInv /\ [ApprovalsNext]_approvalVars
        => [\A r \in Requests : event[r] => result'[r] = result[r]]_approvalVars
  BY <1>1 DEF approvalVars
<1> QED BY <1>2, ApprovalsAlwaysInv, PTL DEF ApprovalsSpec, OneAnswerEach

----------------------------------------------------------------------------
(* The lock of a compression (CompressionLock)                             *)

\* Whoever works within its lease still holds the lock it took, under the id it
\* took it for, though it may have rotated to another meanwhile.
HoldsWhileWorking ==
    \A a \in Agents :
      agent[a] \in Working /\ a \notin outlived =>
        holder[lockSid[a]] = a /\ lockSid[a] \notin expired

CompressionInv == CompressionTypeOK /\ HoldsWhileWorking

LEMMA CompressionInitInv == CompressionInit => CompressionInv
BY CompressionAssumption DEF CompressionInit, CompressionInv, CompressionTypeOK, HoldsWhileWorking, Working,
       AgentStages

LEMMA CompressionTypeStep ==
    ASSUME CompressionTypeOK, CompressionNext
    PROVE  CompressionTypeOK'
<1> USE DEF CompressionTypeOK, AgentStages, Working, AgentGoes, lockVars
<1>1. ASSUME NEW a \in Agents, Fills(a) \/ Aborts(a) \/ Compresses(a) \/ AgentFails(a)
      PROVE  CompressionTypeOK'
  BY <1>1 DEF Fills, Aborts, Compresses, AgentFails
<1>2. ASSUME NEW a \in Agents, Acquire(a)
      PROVE  CompressionTypeOK'
  BY <1>2 DEF Acquire, LockAcquired
<1>3. ASSUME NEW a \in Agents, Rotates(a)
      PROVE  CompressionTypeOK'
  BY <1>3 DEF Rotates
<1>4. ASSUME NEW a \in Agents, Release(a)
      PROVE  CompressionTypeOK'
  BY <1>4 DEF Release, LockReleased
<1>5. ASSUME NEW a \in Agents, Resumes(a)
      PROVE  CompressionTypeOK'
  BY <1>5 DEF Resumes
<1>6. ASSUME NEW s \in Sessions, Expires(s)
      PROVE  CompressionTypeOK'
  BY <1>6 DEF Expires
<1> QED BY <1>1, <1>2, <1>3, <1>4, <1>5, <1>6 DEF CompressionNext, AgentSteps

LEMMA CompressionInvStep ==
    ASSUME CompressionInv, [CompressionNext]_compressionVars
    PROVE  CompressionInv'
<1> USE DEF CompressionInv, CompressionTypeOK, HoldsWhileWorking, Working, AgentGoes,
            lockVars
<1>1. CASE UNCHANGED compressionVars
  BY <1>1 DEF compressionVars
<1>2. CASE CompressionNext
  <2>1. CompressionTypeOK'
    BY <1>2, CompressionTypeStep
  <2>2. ASSUME NEW a \in Agents, Fills(a) \/ Aborts(a) \/ Compresses(a) \/ AgentFails(a)
        PROVE  HoldsWhileWorking'
    BY <2>2 DEF Fills, Aborts, Compresses, AgentFails
  \* Nobody was working within a lease on a lock that is free or expired.
  <2>3. ASSUME NEW a \in Agents, Acquire(a)
        PROVE  HoldsWhileWorking'
    BY <2>3, NoHolderAssumption DEF Acquire, LockAcquired
  <2>4. ASSUME NEW a \in Agents, Rotates(a)
        PROVE  HoldsWhileWorking'
    BY <2>4 DEF Rotates
  \* It takes away a row of its own, so nobody else's.
  <2>5. ASSUME NEW a \in Agents, Release(a)
        PROVE  HoldsWhileWorking'
    BY <2>5 DEF Release, LockReleased
  <2>6. ASSUME NEW a \in Agents, Resumes(a)
        PROVE  HoldsWhileWorking'
    BY <2>6 DEF Resumes
  \* The holder outlives its lease, if it still works.
  <2>7. ASSUME NEW s \in Sessions, Expires(s)
        PROVE  HoldsWhileWorking'
    BY <2>7 DEF Expires
  <2> QED BY <1>2, <2>1, <2>2, <2>3, <2>4, <2>5, <2>6, <2>7
          DEF CompressionNext, AgentSteps
<1> QED BY <1>1, <1>2

\* Two agents are never inside compress_context for one session, unless one of
\* them has been there for longer than its lease.
THEOREM OneCompressorTheorem == CompressionSpec => []OneCompressorAtATime
<1>1. CompressionInit => CompressionInv
  BY CompressionInitInv
<1>2. CompressionInv /\ [CompressionNext]_compressionVars => CompressionInv'
  BY CompressionInvStep
<1>3. CompressionInv => OneCompressorAtATime
  BY DEF CompressionInv, HoldsWhileWorking, OneCompressorAtATime
<1> QED BY <1>1, <1>2, <1>3, PTL DEF CompressionSpec

----------------------------------------------------------------------------
(* The notice of an end (ProcessNotices)                                   *)

\* A thread that moved the process out of _running, and has yet to announce it.
Owes(f) == first[f] /\ finder[f] \in {"moved", "queueing"}

\* The notice is at one place: to come, with one thread, in the queue, on its way,
\* or told.
NoticeOnce ==
    /\ queue <= 1
    /\ running => queue = 0 /\ \A f \in Finders : ~Owes(f)
    /\ \A f \in Finders : Owes(f) => queue = 0
    /\ \A f, g \in Finders : Owes(f) /\ Owes(g) => f = g
    /\ spawning = "untracked" => ~running /\ queue = 0 /\ \A f \in Finders : ~Owes(f)

\* The command line is told by the queue only, the gateway by its watcher.
ToldOnce ==
    /\ spawning = "untracked" => told = 0 /\ underway = 0
    /\ spawning # "requested" => watcher = "none"
    /\ gateway => /\ told + underway <= 1
                  /\ watcher # "over" => told = 0 /\ underway = 0
    /\ ~gateway => /\ watcher = "none" /\ told + underway + queue <= 1
                   /\ running => told = 0 /\ underway = 0
                   /\ \A f \in Finders : Owes(f) => told = 0 /\ underway = 0

\* What the agent has read of is marked, until it is pruned.
ReadConsumed == read /\ ~forgotten => consumed
\* A notice passes the check only while the agent has not read of the end.
PassedUnread == underway > 0 => ~read \/ overtaken \/ forgotten

NoticeInv == NoticeTypeOK /\ NoticeOnce /\ ToldOnce /\ ReadConsumed /\ PassedUnread

LEMMA NoticeInitInv == NoticeInit => NoticeInv
<1>1. NoticeInit => NoticeTypeOK
  <2> SUFFICES ASSUME NoticeInit
               PROVE  NoticeTypeOK
    OBVIOUS
  <2>1. {gateway, alive, exited, running, finished, flag, consumed, read, overtaken,
         forgotten, missed, undelivered} \subseteq BOOLEAN
    BY Zenon DEF NoticeInit
  <2>2. /\ finder \in [Finders -> {"idle"}] /\ first \in [Finders -> BOOLEAN]
        /\ queue \in Nat /\ underway \in Nat /\ told \in Nat
    BY DEF NoticeInit
  <2> QED BY <2>1, <2>2 DEF NoticeInit, NoticeTypeOK
<1>2. NoticeInit => NoticeOnce /\ ToldOnce /\ ReadConsumed /\ PassedUnread
  BY DEF NoticeInit, NoticeOnce, ToldOnce, ReadConsumed, PassedUnread, Owes
<1> QED BY <1>1, <1>2 DEF NoticeInv

LEMMA NoticeInvStep ==
    ASSUME NoticeInv, [NoticeNext]_noticeVars
    PROVE  NoticeInv'
<1> USE DEF NoticeInv, NoticeTypeOK, NoticeOnce, ToldOnce, ReadConsumed, PassedUnread,
            Owes, Goes, heardVars, readVars, toldVars, tableVars, askVars
<1>1. CASE UNCHANGED noticeVars
  BY <1>1 DEF noticeVars
<1>2. CASE Track
  BY <1>2 DEF Track
<1>3. CASE RequestNotice
  BY <1>3 DEF RequestNotice
<1>4. CASE ChildEnds
  BY <1>4 DEF ChildEnds
<1>5. CASE ReaderEnds
  BY <1>5 DEF ReaderEnds, Finders
<1>6. ASSUME NEW f \in Callers, Reconcile(f) \/ Kill(f)
      PROVE  NoticeInv'
  <2>1. CASE Reconcile(f)
    BY <2>1 DEF Reconcile, Finders
  <2>2. CASE Kill(f)
    BY <2>2 DEF Kill, Finders
  <2> QED BY <1>6, <2>1, <2>2
<1>7. ASSUME NEW f \in Callers, Read(f)
      PROVE  NoticeInv'
  BY <1>7 DEF Read, Finders
<1>8. ASSUME NEW f \in Finders, Mark(f)
      PROVE  NoticeInv'
  BY <1>8 DEF Mark
\* The first to move the process takes the notice with it.
<1>9. ASSUME NEW f \in Finders, Move(f)
      PROVE  NoticeInv'
  BY <1>9 DEF Move
<1>10. ASSUME NEW f \in Finders, Announce(f)
       PROVE  NoticeInv'
  BY <1>10 DEF Announce, Announced, After
<1>11. CASE Drain
  BY <1>11 DEF Drain, Drained
<1>12. CASE Watch
  BY <1>12 DEF Watch
<1>13. CASE Look
  <2>1. CASE Tracked /\ ~consumed /\ underway' = underway + 1 /\ UNCHANGED undelivered
    BY <1>13, <2>1 DEF Look
  <2>2. CASE UNCHANGED underway
    BY <1>13, <2>2 DEF Look
  <2> QED BY <1>13, <2>1, <2>2 DEF Look
<1>14. CASE Prune
  BY <1>14 DEF Prune
<1>15. CASE Hear
  BY <1>15 DEF Hear
<1>16. CASE Discard
  BY <1>16 DEF Discard
<1> QED BY <1>1, <1>2, <1>3, <1>4, <1>5, <1>6, <1>7, <1>8, <1>9, <1>10, <1>11, <1>12,
           <1>13, <1>14, <1>15, <1>16 DEF NoticeNext, FinderSteps

LEMMA NoticeAlwaysInv == NoticeSpec => []NoticeInv
<1>1. NoticeInit => NoticeInv
  BY NoticeInitInv
<1>2. NoticeInv /\ [NoticeNext]_noticeVars => NoticeInv'
  BY NoticeInvStep
<1> QED BY <1>1, <1>2, PTL DEF NoticeSpec

\* However many of the reader, polls, waits and kills find out that the process is
\* over, the agent gets one notice.
THEOREM OneNoticeTheorem == NoticeSpec => []OneNotice
<1>1. NoticeInv => OneNotice
  BY DEF NoticeInv, NoticeTypeOK, ToldOnce, OneNotice
<1> QED BY <1>1, NoticeAlwaysInv, PTL

\* A notice reaches an agent that has read of the end only where it read while
\* the notice was underway, or the process was pruned.
THEOREM NotToldAgainTheorem == NoticeSpec => NotToldAgain
<1>1. ASSUME NoticeInv, NoticeNext, told' > told
      PROVE  ~read \/ overtaken \/ forgotten
  <2>1. CASE Hear
    BY <1>1, <2>1 DEF NoticeInv, PassedUnread, Hear
  <2>2. CASE ~Hear
    <3>1. told' = told
      BY <1>1, <2>2 DEF NoticeNext, Track, RequestNotice, ChildEnds, ReaderEnds, Reconcile,
         Kill, Read, FinderSteps, Mark, Move, Announce, Announced, Drain, Drained, Watch,
         Look, Discard, Prune, heardVars, toldVars
    <3> QED BY <1>1, <3>1 DEF NoticeInv, NoticeTypeOK
  <2> QED BY <2>1, <2>2
<1>2. NoticeInv /\ [NoticeNext]_noticeVars
        => [told' > told => ~read \/ overtaken \/ forgotten]_noticeVars
  BY <1>1
<1> QED BY <1>2, NoticeAlwaysInv, PTL DEF NoticeSpec, NotToldAgain

----------------------------------------------------------------------------
(* Ticks of one job (CronTicks)                                            *)

TickTypes == [at : {"idle", "selecting", "advancing", "dispatching", "joining"}, due : Int]
IoTypes == [op : {"none", "select", "advance", "mark"}, jobs : JobRecords]
EditTypes == [op : Edits \union {"none"}, jobs : JobRecords]

\* The type invariant, with every field of every process.
CronTypes ==
    /\ clock \in 0..MaxTime /\ edits \in 0..MaxEdits /\ crashes \in 0..MaxCrashes
    /\ kind \in JobKinds
    /\ job \in JobRecords
    /\ edit \in EditTypes
    /\ edit.op = "none" => edit = Nothing
    /\ tickLock \subseteq Tickers
    /\ ticker \in [Tickers -> TickTypes]
    /\ io \in [Tickers -> IoTypes]
    /\ run \in [Tickers -> {"none", "running", "marking", "releasing"}]
    /\ inFlight \in [Tickers -> BOOLEAN]
    /\ served \in [0..MaxTime -> Int] /\ torn \in BOOLEAN

LEMMA CronTypesOK == CronTypes => CronTypeOK
BY DEF CronTypes, CronTypeOK, TickTypes, IoTypes, EditTypes

LEMMA CronBounds ==
    /\ MaxTime \in Nat /\ MaxEdits \in Nat /\ MaxCrashes \in Nat
    /\ Period \in Nat /\ Period > 0 /\ Grace \in Nat /\ OneShotGrace \in Nat
    /\ \A k \in JobKinds : k \in {"once", "recurring"}
BY CronAssumption

\* The records the operations make are records of their kind.
LEMMA CronBlanks ==
    /\ Blank \in JobRecords /\ NoTick \in TickTypes
    /\ Nothing \in IoTypes /\ Nothing \in EditTypes
    /\ NoTick.at = "idle" /\ Nothing.op = "none" /\ Nothing.jobs = Blank
    /\ ~Blank.there /\ Blank.next = Never
BY DEF Blank, JobRecords, NoTick, TickTypes, Nothing, IoTypes, EditTypes, Never

LEMMA CronJobRecords ==
    \A j \in JobRecords, b, c \in BOOLEAN, n \in Int :
       /\ j.there \in BOOLEAN /\ j.enabled \in BOOLEAN /\ j.ran \in BOOLEAN /\ j.next \in Int
       /\ [j EXCEPT !.next = n] \in JobRecords
       /\ [j EXCEPT !.ran = b, !.next = n] \in JobRecords
       /\ [j EXCEPT !.enabled = b, !.paused = c] \in JobRecords
       /\ [j EXCEPT !.enabled = b, !.paused = c, !.next = n] \in JobRecords
BY DEF JobRecords

LEMMA CronTickRecords ==
    /\ \A t \in TickTypes, a \in {"idle", "selecting", "advancing", "dispatching", "joining"} :
          [t EXCEPT !.at = a] \in TickTypes
    /\ \A d \in Int : [at |-> "advancing", due |-> d] \in TickTypes
    /\ \A o \in {"select", "advance", "mark"}, j \in JobRecords :
          [op |-> o, jobs |-> j] \in IoTypes
    /\ \A o \in Edits, j \in JobRecords : [op |-> o, jobs |-> j] \in EditTypes
BY DEF TickTypes, IoTypes, EditTypes

\* What is computed for a record is a time.
LEMMA CronTimes ==
    ASSUME CronTypes
    PROVE  /\ clock \in Int /\ clock + Period \in Int
           /\ \A r \in BOOLEAN : NextRun(r) \in Int
           /\ \A j \in JobRecords : DueTime(j) \in Int
<1>1. clock \in Int /\ Period \in Int
  BY CronBounds DEF CronTypes
<1>2. \A j \in JobRecords : j.next \in Int
  BY DEF JobRecords
<1> QED BY <1>1, <1>2 DEF NextRun, RunAt, Never, DueTime

LEMMA CronInitTypes == CronInit => CronTypes
<1> SUFFICES ASSUME CronInit PROVE CronTypes
  OBVIOUS
<1>1. job \in JobRecords
  BY CronBounds DEF CronInit, JobRecords, RunAt
<1>2. clock \in 0..MaxTime /\ edits \in 0..MaxEdits /\ crashes \in 0..MaxCrashes
  BY CronBounds DEF CronInit
<1>3. /\ ticker \in [Tickers -> TickTypes] /\ io \in [Tickers -> IoTypes]
      /\ edit \in EditTypes
  BY CronBlanks DEF CronInit
<1>4. /\ run \in [Tickers -> {"none", "running", "marking", "releasing"}]
      /\ inFlight \in [Tickers -> BOOLEAN] /\ served \in [0..MaxTime -> Int]
  BY DEF CronInit
<1> QED BY <1>1, <1>2, <1>3, <1>4 DEF CronInit, CronTypes

\* An operation loads the jobs.
LEMMA CronLoadsTypes ==
    ASSUME CronTypes, NEW p \in Tickers,
           NEW o \in {"select", "advance", "mark"}, Enter(p, o)
    PROVE  CronTypes'
<1>1. io' \in [Tickers -> IoTypes]
  BY CronTickRecords DEF CronTypes, Enter
<1> QED BY <1>1 DEF CronTypes, Enter, boundVars, historyVars

LEMMA CronTickTypes ==
    ASSUME CronTypes, NEW p \in Tickers,
           TickBegins(p) \/ Joined(p) \/ RunEnds(p) \/ Releases(p) \/ Dispatches(p)
    PROVE  CronTypes'
<1> USE DEF boundVars, historyVars
<1>1. CASE TickBegins(p)
  <2>1. ticker' \in [Tickers -> TickTypes]
    BY <1>1, CronTickRecords DEF CronTypes, TickBegins
  <2> QED BY <1>1, <2>1 DEF CronTypes, TickBegins
<1>2. CASE Joined(p)
  <2>1. ticker' \in [Tickers -> TickTypes]
    BY <1>2, CronBlanks DEF CronTypes, Joined, TickOver
  <2> QED BY <1>2, <2>1 DEF CronTypes, Joined, TickOver
<1>3. CASE RunEnds(p)
  BY <1>3 DEF CronTypes, RunEnds
<1>4. CASE Releases(p)
  BY <1>4 DEF CronTypes, Releases, Released
<1>5. CASE Dispatches(p)
  <2>1. ticker' \in [Tickers -> TickTypes] /\ tickLock' \subseteq Tickers
    <3>1. ticker[p] \in TickTypes
      BY DEF CronTypes
    <3>2. [ticker[p] EXCEPT !.at = "joining"] \in TickTypes
      BY <3>1, CronTickRecords
    <3> QED BY <1>5, <3>2, CronBlanks DEF CronTypes, Dispatches, TickOver
  <2>2. /\ run' \in [Tickers -> {"none", "running", "marking", "releasing"}]
        /\ inFlight' \in [Tickers -> BOOLEAN]
    BY <1>5 DEF CronTypes, Dispatches
  <2>3. served' \in [0..MaxTime -> Int]
    BY <1>5 DEF CronTypes, Dispatches
  <2> QED BY <1>5, <2>1, <2>2, <2>3 DEF CronTypes, Dispatches
<1> QED BY <1>1, <1>2, <1>3, <1>4, <1>5

LEMMA CronSelectsTypes ==
    ASSUME CronTypes, NEW p \in Tickers, Selects(p)
    PROVE  CronTypes'
<1> USE DEF boundVars, historyVars
<1> DEFINE j == io[p].jobs
           next == IF Selectable(j) /\ TooLate(j) /\ DueTime(j) # Never
                   THEN clock + Period
                   ELSE IF Selectable(j) THEN DueTime(j) ELSE j.next
<1>1. j \in JobRecords /\ DueTime(j) \in Int /\ next \in Int
  <2>1. j \in JobRecords
    BY DEF CronTypes, IoTypes
  <2> QED BY <2>1, CronTimes, CronJobRecords
<1>2. job' \in JobRecords /\ torn' \in BOOLEAN
  <2>1. [j EXCEPT !.next = next] \in JobRecords
    BY <1>1, CronJobRecords
  <2> QED BY <2>1 DEF Selects, Save, CronTypes
<1>3. ticker' \in [Tickers -> TickTypes] /\ tickLock' \subseteq Tickers
  <2>1. [at |-> "advancing", due |-> DueTime(j)] \in TickTypes
    BY <1>1, CronTickRecords
  <2> HIDE DEF next
  <2> QED BY <2>1, CronBlanks DEF Selects, CronTypes, TickOver
<1>4. io' \in [Tickers -> IoTypes]
  BY CronBlanks DEF Selects, CronTypes, Leave
<1> QED BY <1>2, <1>3, <1>4 DEF Selects, CronTypes

LEMMA CronWritesTypes ==
    ASSUME CronTypes, NEW p \in Tickers, Advances(p) \/ Marks(p)
    PROVE  CronTypes'
<1> USE DEF boundVars, historyVars
<1> DEFINE j == io[p].jobs
<1>1. j \in JobRecords
  BY DEF CronTypes, IoTypes
<1>2. /\ [j EXCEPT !.next = clock + Period] \in JobRecords
      /\ [j EXCEPT !.ran = TRUE, !.next = NextRun(TRUE)] \in JobRecords
  BY <1>1, CronTimes, CronJobRecords
<1>3. job' \in JobRecords /\ torn' \in BOOLEAN
  BY <1>1, <1>2, CronBlanks DEF Advances, Advanced, Marks, Save, CronTypes
<1>4. io' \in [Tickers -> IoTypes]
  BY CronBlanks DEF Advances, Advanced, Marks, CronTypes, Leave
<1>5. ticker' \in [Tickers -> TickTypes]
  <2>1. ticker[p] \in TickTypes
    BY DEF CronTypes
  <2>2. [ticker[p] EXCEPT !.at = "dispatching"] \in TickTypes
    BY <2>1, CronTickRecords
  <2> QED BY <2>2 DEF Advances, Advanced, Marks, CronTypes
<1>6. run' \in [Tickers -> {"none", "running", "marking", "releasing"}]
  BY DEF Advances, Advanced, Marks, CronTypes
<1> QED BY <1>3, <1>4, <1>5, <1>6 DEF Advances, Advanced, Marks, CronTypes

LEMMA CronEditTypes ==
    ASSUME CronTypes, EditSaves \/ \E op \in Edits : EditLoads(op)
    PROVE  CronTypes'
<1> USE DEF boundVars, historyVars
<1>1. ASSUME NEW op \in Edits, EditLoads(op)
      PROVE  CronTypes'
  <2>1. edit' \in EditTypes /\ edit'.op # "none"
    BY <1>1, CronTickRecords DEF CronTypes, EditLoads, Edits
  <2>2. edits' \in 0..MaxEdits
    BY <1>1, CronBounds DEF CronTypes, EditLoads
  <2> QED BY <1>1, <2>1, <2>2 DEF CronTypes, EditLoads
<1>2. CASE EditSaves
  <2>1. edit.jobs \in JobRecords /\ edit.op \in Edits
    BY <1>2 DEF EditSaves, CronTypes, EditTypes
  <2>2. Edited(edit.jobs) \in JobRecords
    <3>1. /\ [edit.jobs EXCEPT !.enabled = FALSE, !.paused = TRUE] \in JobRecords
          /\ [edit.jobs EXCEPT !.enabled = TRUE, !.paused = FALSE, !.next = NextRun(FALSE)]
                \in JobRecords
          /\ [edit.jobs EXCEPT !.enabled = TRUE, !.paused = FALSE, !.next = clock]
                \in JobRecords
      BY <2>1, CronTimes, CronJobRecords
    <3> QED BY <2>1, <3>1, CronBlanks DEF Edited, Edits
  <2>3. served' \in [0..MaxTime -> Int]
    BY <1>2 DEF EditSaves, CronTypes
  <2>4. edit' = Nothing /\ job' = Edited(edit.jobs) /\ torn' \in BOOLEAN
    BY <1>2 DEF EditSaves, Save, CronTypes
  <2> QED BY <1>2, <2>2, <2>3, <2>4, CronBlanks DEF EditSaves, CronTypes
<1> QED BY <1>1, <1>2

LEMMA CronEndsTypes ==
    ASSUME CronTypes, Passes \/ \E p \in Tickers : Crashes(p)
    PROVE  CronTypes'
<1> USE DEF boundVars, historyVars
<1>1. ASSUME NEW p \in Tickers, Crashes(p)
      PROVE  CronTypes'
  <2>1. ticker' \in [Tickers -> TickTypes] /\ io' \in [Tickers -> IoTypes]
    BY <1>1, CronBlanks DEF CronTypes, Crashes, Leave
  <2>2. crashes' \in 0..MaxCrashes
    BY <1>1, CronBounds DEF CronTypes, Crashes
  <2> QED BY <1>1, <2>1, <2>2 DEF CronTypes, Crashes
<1>2. CASE Passes
  <2>1. clock' \in 0..MaxTime
    BY <1>2, CronBounds DEF CronTypes, Passes
  <2> QED BY <1>2, <2>1 DEF CronTypes, Passes
<1> QED BY <1>1, <1>2

LEMMA CronTypesStep ==
    ASSUME CronTypes, CronNext
    PROVE  CronTypes'
<1>1. ASSUME NEW p \in Tickers, SelectLoads(p) \/ AdvanceLoads(p) \/ MarkLoads(p)
      PROVE  CronTypes'
  <2>1. \E o \in {"select", "advance", "mark"} : Enter(p, o)
    BY <1>1 DEF SelectLoads, AdvanceLoads, MarkLoads
  <2> QED BY <2>1, CronLoadsTypes
<1> QED BY <1>1, CronTickTypes, CronSelectsTypes, CronWritesTypes, CronEditTypes,
           CronEndsTypes DEF CronNext, TickSteps, RunSteps


\* The process whose tick is under way holds the lock; it is inside the jobs'
\* lock for what its tick is at.
TickHoldsLock == \A p \in Tickers : ticker[p].at # "idle" => tickLock = {p}
IoOfTick ==
    \A p \in Tickers :
      /\ io[p].op = "select" => ticker[p].at = "selecting"
      /\ io[p].op = "advance" => ticker[p].at = "advancing"

\* A job that was removed has no next run, in the file and in what was loaded.
NoNextRun(j) == ~j.there => j.next = Never
RemovedNotDue ==
    /\ NoNextRun(job) /\ \A p \in Tickers : NoNextRun(io[p].jobs)
    /\ edit # Nothing => edit.jobs.there

\* Only what is due is dispatched, so that the future is not served.
DuePast ==
    \A p \in Tickers : ticker[p].at \in {"advancing", "dispatching"} => ticker[p].due <= clock
FutureUnserved == \A d \in 0..MaxTime : d > clock => served[d] <= 0

\* Who may still start a run for the due time d: a tick that is past advancing;
\* a tick that is about to advance a record which no longer says d; or whoever
\* reads d in the file, and the tick that has read it there.
StartingOf(p, d) == ticker[p].at = "dispatching" /\ ticker[p].due = d
PrivateOf(p, d) ==
    /\ ticker[p].at = "advancing" /\ ticker[p].due = d
    /\ io[p].op = "advance" /\ io[p].jobs.next # d
HoldsOf(p, d) ==
    \/ io[p].op = "select" /\ io[p].jobs.next = d
    \/ ticker[p].at = "advancing" /\ ticker[p].due = d
Starting(d) == \E p \in Tickers : StartingOf(p, d)
Private(d) == \E p \in Tickers : PrivateOf(p, d)
Open(d) == job.next = d \/ \E p \in Tickers : HoldsOf(p, d) /\ ~PrivateOf(p, d)

\* Each is one run to come; with the runs there were they are one at most.
Token(b) == IF b THEN 1 ELSE 0
Tokens(d) == served[d] + Token(Starting(d)) + Token(Private(d)) + Token(Open(d))
OneToken == kind = "recurring" /\ ~torn => \A d \in 0..MaxTime : Tokens(d) <= 1

CronInv ==
    /\ CronTypes /\ TickHoldsLock /\ IoOfTick /\ RemovedNotDue
    /\ DuePast /\ FutureUnserved /\ OneToken

LEMMA CronInitInv == CronInit => CronInv
<1> SUFFICES ASSUME CronInit PROVE CronInv
  OBVIOUS
<1>1. CronTypes
  BY CronInitTypes
<1>2. TickHoldsLock /\ IoOfTick /\ RemovedNotDue
  BY CronBlanks DEF CronInit, TickHoldsLock, IoOfTick, RemovedNotDue, NoNextRun
<1>3. DuePast /\ FutureUnserved
  BY CronBlanks DEF CronInit, DuePast, FutureUnserved
<1>4. \A d \in 0..MaxTime : Tokens(d) <= 1
  <2>1. ASSUME NEW d \in 0..MaxTime
        PROVE  served[d] = 0 /\ ~Starting(d) /\ ~Private(d)
    BY CronBlanks DEF CronInit, Starting, StartingOf, Private, PrivateOf
  <2> QED BY <2>1 DEF Tokens, Token
<1> QED BY <1>1, <1>2, <1>3, <1>4 DEF CronInv, OneToken

\* A tick under way is the only one, so that the tokens are its own.
LEMMA TokensOfTick ==
    \A p \in Tickers, d \in 0..MaxTime :
       TickHoldsLock /\ IoOfTick /\ ticker[p].at # "idle" =>
         /\ Starting(d) <=> StartingOf(p, d)
         /\ Private(d) <=> PrivateOf(p, d)
         /\ Open(d) <=> job.next = d \/ (HoldsOf(p, d) /\ ~PrivateOf(p, d))
<1> SUFFICES ASSUME NEW p \in Tickers, NEW d \in 0..MaxTime,
                    TickHoldsLock, IoOfTick, ticker[p].at # "idle"
             PROVE  /\ Starting(d) <=> StartingOf(p, d)
                    /\ Private(d) <=> PrivateOf(p, d)
                    /\ Open(d) <=> job.next = d \/ (HoldsOf(p, d) /\ ~PrivateOf(p, d))
  OBVIOUS
<1>1. ASSUME NEW q \in Tickers, ticker[q].at # "idle"
      PROVE  q = p
  BY <1>1 DEF TickHoldsLock
<1>2. ASSUME NEW q \in Tickers, StartingOf(q, d) \/ PrivateOf(q, d) \/ HoldsOf(q, d)
      PROVE  q = p
  BY <1>1, <1>2 DEF StartingOf, PrivateOf, HoldsOf, IoOfTick
<1> QED BY <1>2 DEF Starting, Private, Open

\* Without one there are only those of the file.
LEMMA TokensOfFile ==
    \A d \in 0..MaxTime :
       IoOfTick /\ (\A p \in Tickers : ticker[p].at = "idle") =>
         ~Starting(d) /\ ~Private(d) /\ (Open(d) <=> job.next = d)
BY DEF IoOfTick, Starting, StartingOf, Private, PrivateOf, Open, HoldsOf

LEMMA CronLockStep ==
    ASSUME CronInv, CronNext
    PROVE  TickHoldsLock' /\ IoOfTick'
<1> USE DEF CronInv, CronTypes, TickHoldsLock, IoOfTick, boundVars, historyVars
<1>1. ASSUME NEW p \in Tickers, TickBegins(p)
      PROVE  TickHoldsLock' /\ IoOfTick'
  BY <1>1 DEF TickBegins
<1>2. ASSUME NEW p \in Tickers, SelectLoads(p) \/ AdvanceLoads(p) \/ MarkLoads(p)
      PROVE  TickHoldsLock' /\ IoOfTick'
  BY <1>2 DEF SelectLoads, AdvanceLoads, MarkLoads, Enter
<1>3. ASSUME NEW p \in Tickers, Selects(p) \/ Advances(p) \/ Marks(p)
      PROVE  TickHoldsLock' /\ IoOfTick'
  BY <1>3, CronBlanks DEF Selects, Advances, Advanced, Marks, Leave, TickOver
<1>4. ASSUME NEW p \in Tickers, Dispatches(p) \/ Joined(p) \/ Crashes(p)
      PROVE  TickHoldsLock' /\ IoOfTick'
  <2>1. CASE Dispatches(p)
    <3>1. UNCHANGED io /\ ticker[p].at = "dispatching"
      BY <2>1 DEF Dispatches
    <3>2. \/ ticker' = [ticker EXCEPT ![p] = NoTick] /\ tickLock' = {}
          \/ ticker' = [ticker EXCEPT ![p].at = "joining"] /\ UNCHANGED tickLock
      BY <2>1 DEF Dispatches, TickOver
    <3> QED BY <1>4, <3>1, <3>2, CronBlanks
  <2>2. CASE Joined(p)
    BY <1>4, <2>2, CronBlanks DEF Joined, TickOver
  <2>3. CASE Crashes(p)
    BY <1>4, <2>3, CronBlanks DEF Crashes, Leave
  <2> QED BY <1>4, <2>1, <2>2, <2>3
<1>5. ASSUME UNCHANGED <<tickLock, ticker, io>>
      PROVE  TickHoldsLock' /\ IoOfTick'
  BY <1>5
<1> QED BY <1>1, <1>2, <1>3, <1>4, <1>5 DEF CronNext, TickSteps, RunSteps, RunEnds,
           Releases, Released, EditLoads, EditSaves, Passes

LEMMA CronRemovedStep ==
    ASSUME CronInv, CronNext
    PROVE  RemovedNotDue'
<1> USE DEF boundVars, historyVars
<1>0. /\ CronTypes /\ RemovedNotDue /\ job \in JobRecords
      /\ \A p \in Tickers : io[p].jobs \in JobRecords
      /\ edit.jobs \in JobRecords /\ io \in [Tickers -> IoTypes]
  BY DEF CronInv, CronTypes, IoTypes, EditTypes
<1>1. ASSUME NEW p \in Tickers, SelectLoads(p) \/ AdvanceLoads(p) \/ MarkLoads(p)
      PROVE  RemovedNotDue'
  BY <1>0, <1>1 DEF RemovedNotDue, SelectLoads, AdvanceLoads, MarkLoads, Enter
<1>2. NoNextRun(Blank)
  BY CronBlanks DEF NoNextRun
<1>3. ASSUME NEW p \in Tickers, Selects(p) \/ Advances(p) \/ Marks(p) \/ Crashes(p)
      PROVE  /\ io' = [io EXCEPT ![p] = Nothing] /\ UNCHANGED edit
             /\ NoNextRun(job)' => RemovedNotDue'
  <2>1. io' = [io EXCEPT ![p] = Nothing] /\ UNCHANGED edit
    BY <1>3 DEF Selects, Advances, Advanced, Marks, Crashes, Leave
  <2>2. \A q \in Tickers : NoNextRun(io'[q].jobs)
    BY <1>0, <1>2, <2>1, CronBlanks DEF RemovedNotDue
  <2> QED BY <1>0, <2>1, <2>2 DEF RemovedNotDue, NoNextRun
<1>4. ASSUME NEW j \in JobRecords, NEW n \in Int, j.there
      PROVE  /\ NoNextRun([j EXCEPT !.next = n])
             /\ NoNextRun([j EXCEPT !.ran = TRUE, !.next = n])
  BY <1>4 DEF NoNextRun, JobRecords
<1>5. ASSUME NEW p \in Tickers, Selects(p) \/ Advances(p) \/ Marks(p) \/ Crashes(p)
      PROVE  NoNextRun(job)'
  <2>1. CASE job' = job
    BY <1>0, <2>1 DEF RemovedNotDue, NoNextRun
  <2>2. CASE Selects(p) /\ job' # job
    <3>1. io[p].jobs.there /\ \E n \in Int : job' = [io[p].jobs EXCEPT !.next = n]
      BY <1>0, <2>2, CronTimes DEF Selects, Save, Selectable
    <3> QED BY <1>0, <1>4, <3>1 DEF NoNextRun
  <2>3. CASE Advances(p) /\ job' # job
    <3>1. io[p].jobs.there /\ \E n \in Int : job' = [io[p].jobs EXCEPT !.next = n]
      <4>1. io[p].jobs = [io[p].jobs EXCEPT !.next = io[p].jobs.next] /\ io[p].jobs.next \in Int
        BY <1>0 DEF JobRecords
      <4> QED BY <1>0, <2>3, <4>1, CronTimes DEF Advances, Advanced, Save
    <3> QED BY <1>0, <1>4, <3>1 DEF NoNextRun
  <2>4. CASE Marks(p) /\ job' # job
    <3>1. \/ job' = Blank
          \/ io[p].jobs.there /\ \E n \in Int : job' = [io[p].jobs EXCEPT !.ran = TRUE, !.next = n]
      BY <1>0, <2>4, CronTimes DEF Marks, Save
    <3> QED BY <1>0, <1>2, <1>4, <3>1 DEF NoNextRun
  <2> QED BY <1>5, <2>1, <2>2, <2>3, <2>4 DEF Crashes
<1>6. ASSUME NEW op \in Edits, EditLoads(op)
      PROVE  RemovedNotDue'
  BY <1>0, <1>6 DEF RemovedNotDue, EditLoads, NoNextRun
<1>7. CASE EditSaves
  <2>1. edit.op \in Edits /\ edit.jobs.there
    BY <1>0, <1>7 DEF EditSaves, RemovedNotDue, CronTypes, EditTypes
  <2>2. ASSUME NEW b \in BOOLEAN, NEW c \in BOOLEAN, NEW n \in Int
        PROVE  /\ NoNextRun([edit.jobs EXCEPT !.enabled = b, !.paused = c])
               /\ NoNextRun([edit.jobs EXCEPT !.enabled = b, !.paused = c, !.next = n])
    BY <1>0, <2>1 DEF NoNextRun, JobRecords
  <2>3. /\ NoNextRun([edit.jobs EXCEPT !.enabled = FALSE, !.paused = TRUE])
        /\ NoNextRun([edit.jobs EXCEPT !.enabled = TRUE, !.paused = FALSE, !.next = NextRun(FALSE)])
        /\ NoNextRun([edit.jobs EXCEPT !.enabled = TRUE, !.paused = FALSE, !.next = clock])
    BY <1>0, <2>2, CronTimes
  <2>4. NoNextRun(Edited(edit.jobs))
    BY <1>2, <2>1, <2>3 DEF Edited, Edits
  <2> QED BY <1>0, <1>7, <2>4 DEF EditSaves, Save, RemovedNotDue, NoNextRun
<1>8. ASSUME UNCHANGED <<job, io, edit>>
      PROVE  RemovedNotDue'
  BY <1>0, <1>8 DEF RemovedNotDue, NoNextRun
<1> QED BY <1>1, <1>3, <1>5, <1>6, <1>7, <1>8 DEF CronNext, TickSteps, RunSteps,
           TickBegins, Dispatches, Joined, RunEnds, Releases, Released, Passes


\* For a recurring job, what is due is what the record says, and is past.
LEMMA RecurringDue ==
    ASSUME CronTypes, kind = "recurring", NEW j \in JobRecords
    PROVE  /\ IsDue(j) => j.next # Never /\ DueTime(j) = j.next
           /\ j.next = Never => DueTime(j) = clock + Period
           /\ j.next # Never => DueTime(j) = j.next
           /\ clock + Period > clock /\ NextRun(TRUE) = clock + Period
           /\ NextRun(FALSE) = clock + Period
<1>1. clock \in Nat /\ Period \in Nat /\ Period > 0
  BY CronBounds DEF CronTypes
<1>2. j.next \in Int
  BY DEF JobRecords
<1> QED BY <1>1, <1>2 DEF IsDue, DueTime, NextRun, Never

LEMMA CronDueStep ==
    ASSUME CronInv, CronNext
    PROVE  DuePast' /\ FutureUnserved'
<1> USE DEF boundVars, historyVars
<1>0. /\ DuePast /\ FutureUnserved /\ clock \in Int /\ clock \in 0..MaxTime
      /\ ticker \in [Tickers -> TickTypes]
      /\ \A p \in Tickers : ticker[p].due \in Int /\ io[p].jobs \in JobRecords
      /\ served \in [0..MaxTime -> Int] /\ MaxTime \in Nat
      /\ DOMAIN ticker = Tickers
  BY CronTimes, CronBounds DEF CronInv, CronTypes, TickTypes, IoTypes
<1>a. ASSUME NEW p \in Tickers, NEW a \in {"selecting", "dispatching", "joining"}
      PROVE  [ticker[p] EXCEPT !.at = a].due = ticker[p].due /\ [ticker[p] EXCEPT !.at = a].at = a
  BY <1>0 DEF TickTypes
<1>1. ASSUME NEW p \in Tickers, Dispatches(p)
      PROVE  DuePast' /\ FutureUnserved'
  <2>1. DuePast'
    <3>1. /\ clock' = clock
          /\ \/ ticker' = [ticker EXCEPT ![p] = NoTick]
             \/ ticker' = [ticker EXCEPT ![p].at = "joining"]
      BY <1>1 DEF Dispatches, TickOver
    <3>2. ASSUME NEW q \in Tickers
          PROVE  ticker'[q] = ticker[q] \/ ticker'[q].at \in {"idle", "joining"}
      BY <1>0, <1>a, <3>1, CronBlanks
    <3> QED BY <1>0, <3>1, <3>2 DEF DuePast
  <2>2. \/ served' = served
        \/ served' = [served EXCEPT ![ticker[p].due] = @ + 1] /\ ticker[p].due <= clock
    BY <1>0, <1>1 DEF Dispatches, DuePast
  <2>3. clock' = clock
    BY <1>1 DEF Dispatches
  <2>4. ASSUME NEW d \in 0..MaxTime, d > clock
        PROVE  served'[d] <= 0
    <3>1. served'[d] = served[d]
      BY <1>0, <2>2, <2>4
    <3> QED BY <1>0, <2>4, <3>1 DEF FutureUnserved
  <2> QED BY <2>1, <2>3, <2>4 DEF FutureUnserved
<1>2. ASSUME NEW p \in Tickers, Selects(p)
      PROVE  DuePast' /\ FutureUnserved'
  <2>1. UNCHANGED <<clock, served>>
    BY <1>2 DEF Selects
  <2>2. \/ ticker' = [ticker EXCEPT ![p] = NoTick]
        \/ /\ ticker' = [ticker EXCEPT ![p] = [at |-> "advancing", due |-> DueTime(io[p].jobs)]]
           /\ DueTime(io[p].jobs) <= clock
    BY <1>2 DEF Selects, TickOver, IsDue
  <2> QED BY <1>0, <2>1, <2>2, CronBlanks DEF DuePast, FutureUnserved
<1>3. ASSUME NEW p \in Tickers, TickBegins(p) \/ Advances(p) \/ Joined(p) \/ Crashes(p)
      PROVE  DuePast' /\ FutureUnserved'
  <2>1. UNCHANGED <<clock, served>>
    BY <1>3 DEF TickBegins, Advances, Advanced, Joined, Crashes
  <2>2. \/ ticker' = [ticker EXCEPT ![p] = NoTick]
        \/ ticker' = [ticker EXCEPT ![p].at = "selecting"]
        \/ ticker' = [ticker EXCEPT ![p].at = "dispatching"] /\ ticker[p].at = "advancing"
    BY <1>3 DEF TickBegins, Advances, Advanced, Joined, Crashes, TickOver, CronInv, IoOfTick
  <2>3. DuePast'
    <3>1. ASSUME NEW q \in Tickers
          PROVE  \/ ticker'[q] = ticker[q] \/ ticker'[q].at \in {"idle", "selecting"}
                 \/ ticker[q].at = "advancing" /\ ticker'[q].due = ticker[q].due
      <4>1. /\ [ticker[p] EXCEPT !.at = "selecting"].at = "selecting"
            /\ [ticker[p] EXCEPT !.at = "dispatching"].due = ticker[p].due
        BY <1>a
      <4>2. q # p => ticker'[q] = ticker[q]
        BY <1>0, <2>2
      <4>3. CASE q = p
        BY <1>0, <2>2, <4>1, <4>3, CronBlanks
      <4> QED BY <4>2, <4>3
    <3> QED BY <1>0, <2>1, <3>1 DEF DuePast
  <2> QED BY <1>0, <2>1, <2>3 DEF FutureUnserved
<1>4. CASE EditSaves
  <2>1. UNCHANGED <<clock, ticker>>
    BY <1>4 DEF EditSaves
  <2>2. served' = served \/ served' = [served EXCEPT ![clock] = @ - 1]
    BY <1>4 DEF EditSaves
  <2>3. ASSUME NEW d \in 0..MaxTime, d > clock
        PROVE  served'[d] <= 0
    <3>1. served'[d] = served[d]
      BY <1>0, <2>2, <2>3
    <3> QED BY <1>0, <2>3, <3>1 DEF FutureUnserved
  <2> QED BY <1>0, <2>1, <2>3 DEF DuePast, FutureUnserved
<1>5. CASE Passes
  <2>1. clock' = clock + 1 /\ UNCHANGED <<served, ticker>>
    BY <1>5 DEF Passes
  <2>2. ASSUME NEW d \in 0..MaxTime, d > clock'
        PROVE  served'[d] <= 0
    <3>1. d > clock
      BY <1>0, <2>1, <2>2
    <3> QED BY <2>1, <2>2, <3>1, <1>0 DEF FutureUnserved
  <2>3. ASSUME NEW p \in Tickers, ticker[p].due <= clock
        PROVE  ticker[p].due <= clock'
    BY <1>0, <2>1, <2>3
  <2> QED BY <1>0, <2>1, <2>2, <2>3 DEF DuePast, FutureUnserved
<1>6. ASSUME UNCHANGED <<clock, served, ticker>>
      PROVE  DuePast' /\ FutureUnserved'
  BY <1>0, <1>6 DEF DuePast, FutureUnserved
<1> QED BY <1>1, <1>2, <1>3, <1>4, <1>5, <1>6 DEF CronNext, TickSteps, RunSteps,
           SelectLoads, AdvanceLoads, MarkLoads, Enter, RunEnds, Marks, Releases, Released,
           EditLoads


\* A step that saves nothing new for d, and starts no run for it, or one for a
\* token it gives up, leaves no more tokens.
LEMMA TokensOfTickNext ==
    \A p \in Tickers, d \in 0..MaxTime :
       TickHoldsLock' /\ IoOfTick' /\ ticker'[p].at # "idle" =>
         /\ Starting(d)' <=> StartingOf(p, d)'
         /\ Private(d)' <=> PrivateOf(p, d)'
         /\ Open(d)' <=> job'.next = d \/ (HoldsOf(p, d)' /\ ~PrivateOf(p, d)')
<1>1. (\A p \in Tickers, d \in 0..MaxTime :
       TickHoldsLock /\ IoOfTick /\ ticker[p].at # "idle" =>
         /\ Starting(d) <=> StartingOf(p, d)
         /\ Private(d) <=> PrivateOf(p, d)
         /\ Open(d) <=> job.next = d \/ (HoldsOf(p, d) /\ ~PrivateOf(p, d)))'
  BY TokensOfTick, PTL
<1> QED BY <1>1

LEMMA TokensOfFileNext ==
    \A d \in 0..MaxTime :
       IoOfTick' /\ (\A p \in Tickers : ticker'[p].at = "idle") =>
         ~Starting(d)' /\ ~Private(d)' /\ (Open(d)' <=> job'.next = d)
<1>1. (\A d \in 0..MaxTime :
       IoOfTick /\ (\A p \in Tickers : ticker[p].at = "idle") =>
         ~Starting(d) /\ ~Private(d) /\ (Open(d) <=> job.next = d))'
  BY TokensOfFile, PTL
<1> QED BY <1>1


\* The steps of other processes leave a tick's tokens alone.
LEMMA TokensKept ==
    ASSUME CronInv, NEW d \in 0..MaxTime, NEW P \in SUBSET Tickers,
           \A q \in Tickers \ P : UNCHANGED <<ticker[q]>>,
           \A q \in Tickers \ P :
              io'[q] = io[q] \/ {io'[q].op, io[q].op} \subseteq {"none", "mark"},
           \A q \in P : ticker'[q].at = "idle" /\ io'[q].op = "none"
    PROVE  /\ Starting(d)' => Starting(d)
           /\ Private(d)' => Private(d)
           /\ Open(d)' /\ ~Open(d) => job' # job /\ job'.next = d
<1>1. ASSUME NEW q \in P
      PROVE  ~StartingOf(q, d)' /\ ~PrivateOf(q, d)' /\ ~HoldsOf(q, d)'
  BY <1>1 DEF StartingOf, PrivateOf, HoldsOf
<1>2. ASSUME NEW q \in Tickers \ P
      PROVE  /\ StartingOf(q, d)' = StartingOf(q, d)
             /\ PrivateOf(q, d)' = PrivateOf(q, d)
             /\ HoldsOf(q, d)' = HoldsOf(q, d)
  BY <1>2 DEF StartingOf, PrivateOf, HoldsOf
<1> QED BY <1>1, <1>2 DEF Starting, Private, Open

LEMMA CronTokenStep ==
    ASSUME CronInv, CronNext, kind = "recurring", ~torn', NEW d \in 0..MaxTime
    PROVE  Tokens(d)' <= 1
<1> USE DEF boundVars, historyVars
<1>0. /\ CronTypes /\ TickHoldsLock /\ IoOfTick /\ RemovedNotDue
      /\ TickHoldsLock' /\ IoOfTick' /\ clock \in Int /\ d \in Int
      /\ served \in [0..MaxTime -> Int] /\ served[d] \in Int
      /\ ticker \in [Tickers -> TickTypes] /\ io \in [Tickers -> IoTypes]
      /\ job \in JobRecords /\ edit.jobs \in JobRecords
      /\ \A p \in Tickers : io[p].jobs \in JobRecords /\ ticker[p].due \in Int
      /\ \A p \in Tickers : ticker[p].at \in {"advancing", "dispatching"} => ticker[p].due <= clock
  BY CronLockStep, CronTimes, CronBounds
     DEF CronInv, CronTypes, EditTypes, IoTypes, TickTypes, DuePast
<1>1. served'[d] \in Int
  <2>1. CronTypes'
    BY <1>0, CronTypesStep
  <2> QED BY <2>1 DEF CronTypes
<1>2. ~torn => Tokens(d) <= 1 /\ (d > clock => served[d] <= 0)
  BY DEF CronInv, OneToken, FutureUnserved
<1>3. ASSUME torn' = torn, served'[d] = served[d], Starting(d)' => Starting(d),
             Private(d)' => Private(d), Open(d)' => Open(d)
      PROVE  Tokens(d)' <= 1
  BY <1>0, <1>1, <1>2, <1>3 DEF Tokens, Token
<1>4. ASSUME NEW p \in Tickers, TickBegins(p)
      PROVE  Tokens(d)' <= 1
  <2>1. \A q \in Tickers : ticker[q].at = "idle"
    BY <1>0, <1>4 DEF TickBegins, TickHoldsLock
  <2>2. ~Starting(d) /\ ~Private(d) /\ (Open(d) <=> job.next = d)
    BY <1>0, <2>1, TokensOfFile
  <2>3. ticker'[p].at = "selecting" /\ UNCHANGED <<job, io, served, torn>>
    BY <1>0, <1>4 DEF TickBegins, TickTypes
  <2>4. /\ Starting(d)' <=> StartingOf(p, d)'
        /\ Private(d)' <=> PrivateOf(p, d)'
        /\ Open(d)' <=> job'.next = d \/ (HoldsOf(p, d)' /\ ~PrivateOf(p, d)')
    BY <1>0, <2>3, TokensOfTickNext
  <2>5. ~StartingOf(p, d)' /\ ~PrivateOf(p, d)' /\ ~HoldsOf(p, d)'
    BY <1>0, <2>1, <2>3 DEF StartingOf, PrivateOf, HoldsOf, IoOfTick
  <2> QED BY <1>3, <2>2, <2>3, <2>4, <2>5
<1>5. ASSUME NEW p \in Tickers, SelectLoads(p) \/ AdvanceLoads(p)
      PROVE  Tokens(d)' <= 1
  <2>1. /\ UNCHANGED <<job, ticker, served, torn>> /\ ticker[p].at \in {"selecting", "advancing"}
        /\ io[p] = Nothing /\ io'[p].jobs = job
        /\ io'[p].op = "select" <=> ticker[p].at = "selecting"
        /\ io'[p].op = "advance" <=> ticker[p].at = "advancing"
    BY <1>0, <1>5 DEF SelectLoads, AdvanceLoads, Enter
  <2>2. /\ Starting(d) <=> StartingOf(p, d)
        /\ Private(d) <=> PrivateOf(p, d)
        /\ Open(d) <=> job.next = d \/ (HoldsOf(p, d) /\ ~PrivateOf(p, d))
    BY <1>0, <2>1, TokensOfTick
  <2>3. /\ Starting(d)' <=> StartingOf(p, d)'
        /\ Private(d)' <=> PrivateOf(p, d)'
        /\ Open(d)' <=> job'.next = d \/ (HoldsOf(p, d)' /\ ~PrivateOf(p, d)')
    BY <1>0, <2>1, TokensOfTickNext
  <2>4. /\ Starting(d)' = Starting(d) /\ ~Private(d)
        /\ Open(d)' => Open(d)
        /\ Private(d)' => Open(d) /\ ~Open(d)'
    <3>1. /\ StartingOf(p, d)' = StartingOf(p, d) /\ ~PrivateOf(p, d)
          /\ HoldsOf(p, d) <=> ticker[p].at = "advancing" /\ ticker[p].due = d
      BY <2>1, CronBlanks DEF StartingOf, PrivateOf, HoldsOf
    <3>2. /\ PrivateOf(p, d)' <=> HoldsOf(p, d) /\ job.next # d
          /\ HoldsOf(p, d)' => HoldsOf(p, d) \/ job.next = d
      BY <2>1, <3>1 DEF PrivateOf, HoldsOf
    <3>3. /\ Starting(d)' = Starting(d) /\ ~Private(d)
          /\ Open(d) <=> job.next = d \/ HoldsOf(p, d)
      BY <2>2, <2>3, <3>1 DEF Starting
    <3>4. /\ Private(d)' <=> HoldsOf(p, d) /\ job.next # d
          /\ Open(d)' <=> job.next = d \/ (HoldsOf(p, d)' /\ ~PrivateOf(p, d)')
      BY <2>1, <2>3, <3>2
    <3>5. ASSUME job.next # d, HoldsOf(p, d)
          PROVE  PrivateOf(p, d)'
      BY <3>2, <3>5
    <3> QED BY <3>2, <3>3, <3>4, <3>5
  <2> QED BY <1>0, <1>1, <1>2, <2>1, <2>4 DEF Tokens, Token
<1>6. ASSUME NEW p \in Tickers, Selects(p)
      PROVE  Tokens(d)' <= 1
  <2> DEFINE j == io[p].jobs
  <2>1. /\ ticker[p].at = "selecting" /\ io[p].op = "select" /\ io'[p] = Nothing
        /\ UNCHANGED <<served, clock>> /\ j \in JobRecords
    BY <1>0, <1>6 DEF Selects, IoOfTick, Leave
  <2>2. /\ ~Starting(d) /\ ~Private(d)
        /\ Open(d) <=> job.next = d \/ j.next = d
    BY <1>0, <2>1, TokensOfTick DEF StartingOf, PrivateOf, HoldsOf
  <2>3. /\ clock + Period > clock
        /\ j.next = Never => DueTime(j) = clock + Period
        /\ j.next # Never => DueTime(j) = j.next
    BY <1>0, <2>1, RecurringDue
  <2>4. \/ job' = job /\ torn' = torn
        \/ job' = [j EXCEPT !.next = clock + Period] /\ ~torn
    BY <1>6, <2>3 DEF Selects, Save
  <2>5. job'.next = d => job.next = d \/ d = clock + Period
    BY <2>1, <2>4 DEF JobRecords
  <2>6. CASE IsDue(j)
    <3>1. ticker'[p].at = "advancing" /\ ticker'[p].due = j.next
      <4>1. DueTime(j) = j.next
        BY <1>0, <2>1, <2>6, RecurringDue
      <4> QED BY <1>0, <1>6, <2>6, <4>1 DEF Selects
    <3>2. /\ ~Starting(d)' /\ ~Private(d)'
          /\ Open(d)' <=> job'.next = d \/ j.next = d
      BY <1>0, <2>1, <3>1, TokensOfTickNext, CronBlanks DEF StartingOf, PrivateOf, HoldsOf
    <3>3. job' = job /\ torn' = torn
      <4>1. Selectable(j) /\ ~TooLate(j) /\ DueTime(j) = j.next
        BY <1>0, <2>1, <2>6, RecurringDue DEF IsDue
      <4> QED BY <1>6, <4>1 DEF Selects
    <3> QED BY <1>3, <2>1, <2>2, <3>2, <3>3
  <2>7. CASE ~IsDue(j)
    <3>1. \A q \in Tickers : ticker'[q].at = "idle"
      BY <1>0, <1>6, <2>1, <2>7, CronBlanks DEF Selects, TickOver, TickHoldsLock
    <3>2. ~Starting(d)' /\ ~Private(d)' /\ (Open(d)' <=> job'.next = d)
      BY <1>0, <3>1, TokensOfFileNext
    <3>3. CASE job'.next = d /\ d = clock + Period /\ ~torn
      BY <1>0, <1>1, <1>2, <2>1, <2>3, <3>2, <3>3 DEF Tokens, Token
    <3> QED BY <1>0, <1>1, <1>2, <2>1, <2>2, <2>4, <2>5, <3>2, <3>3 DEF Tokens, Token
  <2> QED BY <2>6, <2>7
<1>7. ASSUME NEW p \in Tickers, Advances(p)
      PROVE  Tokens(d)' <= 1
  <2> DEFINE j == io[p].jobs
  <2>1. /\ ticker[p].at = "advancing" /\ io[p].op = "advance" /\ io'[p] = Nothing
        /\ ticker'[p].at = "dispatching" /\ ticker'[p].due = ticker[p].due
        /\ UNCHANGED <<served, clock>> /\ j \in JobRecords /\ ticker[p].due <= clock
    BY <1>0, <1>7 DEF Advances, Advanced, IoOfTick, Leave, TickTypes
  <2>2. /\ ~Starting(d)
        /\ Private(d) <=> ticker[p].due = d /\ j.next # d
        /\ Open(d) <=> job.next = d \/ (ticker[p].due = d /\ j.next = d)
    BY <1>0, <2>1, TokensOfTick DEF StartingOf, PrivateOf, HoldsOf
  <2>3. /\ Starting(d)' <=> ticker[p].due = d /\ ~Private(d)'
        /\ ~Private(d)' /\ (Open(d)' <=> job'.next = d)
    BY <1>0, <2>1, TokensOfTickNext, CronBlanks DEF StartingOf, PrivateOf, HoldsOf
  <2>4. clock + Period > clock /\ clock + Period \in Int
    BY <1>0, <2>1, RecurringDue, CronTimes
  <2>5. \/ job' = job /\ torn' = torn /\ (~j.there \/ j.next = clock + Period)
        \/ job = j /\ job' = [j EXCEPT !.next = clock + Period] /\ ~torn
    BY <1>7, <2>1 DEF Advances, Advanced, Save, JobRecords
  <2>6. CASE job' = job /\ torn' = torn /\ (~j.there \/ j.next = clock + Period)
    <3>1. ticker[p].due = d => j.next # d
      BY <1>0, <2>1, <2>4, <2>6, CronBounds DEF RemovedNotDue, NoNextRun, Never
    <3> QED BY <1>0, <1>1, <1>2, <2>1, <2>2, <2>3, <2>6, <3>1 DEF Tokens, Token
  <2>7. CASE job = j /\ job' = [j EXCEPT !.next = clock + Period] /\ ~torn
    <3>1. job'.next = clock + Period
      BY <2>1, <2>7 DEF JobRecords
    <3>2. CASE d = clock + Period
      BY <1>0, <1>1, <1>2, <2>1, <2>3, <2>4, <2>7, <3>2 DEF Tokens, Token
    <3>3. CASE d # clock + Period
      <4>1. ~Open(d)' /\ (Starting(d)' => Open(d) \/ Private(d))
        BY <2>2, <2>3, <3>1, <3>3
      <4> QED BY <1>0, <1>1, <1>2, <2>1, <2>2, <2>3, <2>7, <4>1 DEF Tokens, Token
    <3> QED BY <3>2, <3>3
  <2> QED BY <2>5, <2>6, <2>7
<1>8. ASSUME NEW p \in Tickers, Dispatches(p)
      PROVE  Tokens(d)' <= 1
  <2>1. /\ ticker[p].at = "dispatching" /\ ticker'[p].at \in {"idle", "joining"}
        /\ UNCHANGED <<job, io, torn>>
        /\ \/ served' = served
           \/ served' = [served EXCEPT ![ticker[p].due] = @ + 1]
    BY <1>0, <1>8, CronBlanks DEF Dispatches, TickOver, TickTypes
  <2>2. /\ Starting(d) <=> ticker[p].due = d
        /\ ~Private(d) /\ (Open(d) <=> job.next = d)
    BY <1>0, <2>1, TokensOfTick DEF StartingOf, PrivateOf, HoldsOf, IoOfTick
  <2>3. ~Starting(d)' /\ ~Private(d)' /\ (Open(d)' <=> job.next = d)
    <3>1. CASE ticker'[p].at = "joining"
      BY <1>0, <2>1, <3>1, TokensOfTickNext DEF StartingOf, PrivateOf, HoldsOf, IoOfTick
    <3>2. CASE ticker'[p].at = "idle"
      <4>1. \A q \in Tickers : ticker'[q].at = "idle"
        BY <1>0, <1>8, <2>1, <3>2, CronBlanks DEF Dispatches, TickOver, TickHoldsLock, TickTypes
      <4> QED BY <1>0, <2>1, <4>1, TokensOfFileNext
    <3> QED BY <2>1, <3>1, <3>2
  <2>4. served'[d] = served[d] \/ (ticker[p].due = d /\ served'[d] = served[d] + 1)
    BY <1>0, <2>1
  <2> QED BY <1>0, <1>1, <1>2, <2>1, <2>2, <2>3, <2>4 DEF Tokens, Token
<1>9. ASSUME NEW p \in Tickers, Joined(p) \/ Crashes(p)
      PROVE  Tokens(d)' <= 1
  <2>1. /\ UNCHANGED <<job, served, torn>>
        /\ ticker' = [ticker EXCEPT ![p] = NoTick]
        /\ io' = io \/ io' = [io EXCEPT ![p] = Nothing]
    BY <1>9 DEF Joined, Crashes, TickOver, Leave
  <2>2. /\ Starting(d)' => Starting(d)
        /\ Private(d)' => Private(d)
        /\ Open(d)' /\ ~Open(d) => job' # job /\ job'.next = d
    <3>1. io' = [io EXCEPT ![p] = Nothing] \/ io[p].op \in {"none", "mark"}
      BY <1>0, <1>9, <2>1 DEF Joined, Crashes, Leave, IoOfTick, IoTypes
    <3>2. CASE io' = [io EXCEPT ![p] = Nothing]
      BY <1>0, <2>1, <3>2, CronBlanks, TokensKept, {p} \in SUBSET Tickers
    <3>3. CASE io' = io /\ io[p].op \in {"none", "mark"}
      BY <1>0, <2>1, <3>3, CronBlanks
         DEF Starting, StartingOf, Private, PrivateOf, Open, HoldsOf
    <3> QED BY <2>1, <3>1, <3>2, <3>3
  <2> QED BY <1>3, <2>1, <2>2
<1>10. ASSUME NEW p \in Tickers, MarkLoads(p) \/ RunEnds(p) \/ Releases(p)
       PROVE  Tokens(d)' <= 1
  <2>1. /\ UNCHANGED <<job, served, torn, ticker>>
        /\ \/ io' = io
           \/ io[p] = Nothing /\ io' = [io EXCEPT ![p] = [op |-> "mark", jobs |-> job]]
    BY <1>10 DEF MarkLoads, Enter, RunEnds, Releases, Released
  <2>2. \A q \in Tickers : io'[q] = io[q] \/ {io'[q].op, io[q].op} \subseteq {"none", "mark"}
    BY <1>0, <2>1, CronBlanks
  <2> QED BY <1>0, <1>3, <2>1, <2>2, TokensKept, {} \in SUBSET Tickers
<1>11. ASSUME NEW p \in Tickers, Marks(p)
       PROVE  Tokens(d)' <= 1
  <2> DEFINE j == io[p].jobs
  <2>1. /\ UNCHANGED <<served, ticker, clock>> /\ j \in JobRecords
        /\ io[p].op = "mark" /\ io' = [io EXCEPT ![p] = Nothing]
    BY <1>0, <1>11 DEF Marks, Leave
  <2>2. clock + Period > clock /\ clock + Period \in Int /\ NextRun(TRUE) = clock + Period
    BY <1>0, <2>1, RecurringDue, CronTimes
  <2>3. \/ job' = job /\ torn' = torn
        \/ job' = [j EXCEPT !.ran = TRUE, !.next = clock + Period] /\ ~torn
    BY <1>11, <2>2 DEF Marks, Save
  <2>4. \A q \in Tickers : io'[q] = io[q] \/ {io'[q].op, io[q].op} \subseteq {"none", "mark"}
    BY <1>0, <2>1, CronBlanks
  <2>5. /\ Starting(d)' => Starting(d)
        /\ Private(d)' => Private(d)
        /\ Open(d)' /\ ~Open(d) => job' # job /\ job'.next = d
    BY <1>0, <2>1, <2>4, TokensKept, {} \in SUBSET Tickers
  <2>6. CASE d = clock + Period /\ ~torn
    <3>1. \A q \in Tickers : ~StartingOf(q, d) /\ ~PrivateOf(q, d)
      BY <1>0, <2>2, <2>6 DEF StartingOf, PrivateOf
    <3>2. ~Starting(d) /\ ~Private(d)
      BY <3>1 DEF Starting, Private
    <3> QED BY <1>0, <1>1, <1>2, <2>1, <2>2, <2>5, <2>6, <3>2 DEF Tokens, Token
  <2>7. CASE d # clock + Period \/ torn
    <3>1. Open(d)' => Open(d)
      BY <2>1, <2>3, <2>5, <2>7 DEF JobRecords
    <3> QED BY <1>0, <1>1, <1>2, <2>1, <2>3, <2>5, <3>1 DEF Tokens, Token
  <2> QED BY <2>6, <2>7
<1>12. CASE EditSaves
  <2>1. /\ UNCHANGED <<ticker, io, clock>> /\ ~torn /\ job = edit.jobs /\ job' = Edited(job)
        /\ edit.op \in Edits
    BY <1>0, <1>12 DEF EditSaves, Save, CronTypes, EditTypes
  <2>2. clock + Period > clock /\ NextRun(FALSE) = clock + Period
    BY <1>0, RecurringDue
  <2>3. \/ job'.next = job.next /\ edit.op # "trigger"
        \/ job'.next \in {clock + Period, Never} /\ edit.op # "trigger"
        \/ job'.next = clock /\ edit.op = "trigger"
    BY <1>0, <2>1, <2>2, CronBlanks DEF Edited, Edits, JobRecords
  <2>4. /\ Starting(d)' => Starting(d)
        /\ Private(d)' => Private(d)
        /\ Open(d)' /\ ~Open(d) => job' # job /\ job'.next = d
    BY <1>0, <2>1, TokensKept, {} \in SUBSET Tickers
  <2>5. served' = IF edit.op = "trigger" THEN [served EXCEPT ![clock] = @ - 1] ELSE served
    BY <1>12 DEF EditSaves
  <2>6. CASE edit.op = "trigger" /\ d = clock
    BY <1>0, <1>1, <1>2, <2>1, <2>4, <2>5, <2>6 DEF Tokens, Token
  <2>7. CASE edit.op # "trigger" /\ d = clock + Period
    <3>1. \A q \in Tickers : ~StartingOf(q, d) /\ ~PrivateOf(q, d)
      BY <1>0, <2>2, <2>7 DEF StartingOf, PrivateOf
    <3>2. ~Starting(d) /\ ~Private(d)
      BY <3>1 DEF Starting, Private
    <3> QED BY <1>0, <1>1, <1>2, <2>1, <2>2, <2>4, <2>5, <2>7, <3>2 DEF Tokens, Token
  <2>8. CASE ~(edit.op = "trigger" /\ d = clock) /\ ~(edit.op # "trigger" /\ d = clock + Period)
    <3>1. job'.next = d => job.next = d
      BY <1>0, <2>3, <2>8, CronBounds DEF Never
    <3>2. Open(d)' => Open(d)
      BY <2>4, <3>1 DEF Open
    <3>3. served'[d] = served[d]
      BY <1>0, <2>5, <2>8
    <3> QED BY <1>0, <1>1, <1>2, <2>1, <2>4, <3>2, <3>3 DEF Tokens, Token
  <2> QED BY <2>6, <2>7, <2>8
<1>13. ASSUME UNCHANGED <<job, ticker, io, served, torn>>
       PROVE  Tokens(d)' <= 1
  BY <1>0, <1>3, <1>13, TokensKept, {} \in SUBSET Tickers
<1> QED BY <1>4, <1>5, <1>6, <1>7, <1>8, <1>9, <1>10, <1>11, <1>12, <1>13
        DEF CronNext, TickSteps, RunSteps, EditLoads, Passes

LEMMA CronInvStep == CronInv /\ [CronNext]_cronVars => CronInv'
<1>1. ASSUME CronInv, CronNext
      PROVE  CronInv'
  <2>1. CronTypes' /\ TickHoldsLock' /\ IoOfTick' /\ RemovedNotDue' /\ DuePast' /\ FutureUnserved'
    BY <1>1, CronTypesStep, CronLockStep, CronRemovedStep, CronDueStep DEF CronInv
  <2>2. kind' = kind
    BY <1>1 DEF CronNext, TickSteps, RunSteps, TickBegins, SelectLoads, Enter, Selects,
          AdvanceLoads, Advances, Advanced, Dispatches, Joined, RunEnds, MarkLoads, Marks,
          Releases, Released, Crashes, EditLoads, EditSaves, Passes, boundVars
  <2>3. OneToken'
    BY <1>1, <2>2, CronTokenStep DEF OneToken
  <2> QED BY <2>1, <2>3 DEF CronInv
<1>2. ASSUME CronInv, UNCHANGED cronVars
      PROVE  CronInv'
  <2>1. CronTypes' /\ TickHoldsLock' /\ IoOfTick' /\ RemovedNotDue'
    BY <1>2 DEF CronInv, cronVars, CronTypes, TickHoldsLock, IoOfTick, RemovedNotDue, NoNextRun
  <2>2. DuePast' /\ FutureUnserved'
    BY <1>2 DEF CronInv, cronVars, DuePast, FutureUnserved
  <2>3. ASSUME NEW d \in 0..MaxTime
        PROVE  Tokens(d)' = Tokens(d)
    BY <1>2 DEF cronVars, Tokens, Starting, StartingOf, Private, PrivateOf, Open, HoldsOf
  <2>4. OneToken'
    BY <1>2, <2>3 DEF CronInv, cronVars, OneToken
  <2> QED BY <2>1, <2>2, <2>4 DEF CronInv
<1> QED BY <1>1, <1>2

\* At most once: however many processes tick, crash and edit, and whatever the
\* period and the graces: get_due_jobs and advance_next_run, under the tick's
\* lock, start no second run for a time that a run was started for, as long as
\* nobody's save was written over another's.
THEOREM AtMostOnceTheorem == CronSpec => []AtMostOnce
<1>1. CronInv => AtMostOnce
  <2> SUFFICES ASSUME CronInv, kind = "recurring", ~torn, NEW d \in 0..MaxTime
               PROVE  served[d] <= 1
    BY DEF AtMostOnce
  <2>1. Tokens(d) <= 1 /\ served[d] \in Int
    BY DEF CronInv, CronTypes, OneToken
  <2> QED BY <2>1 DEF Tokens, Token
<1> QED BY <1>1, CronInitInv, CronInvStep, PTL DEF CronSpec


----------------------------------------------------------------------------
(* Questions (ClarifyQuestions)                                            *)

\* A question takes the place after those that were asked before it.
LEMMA PlaceIsNat ==
    Cardinality({p \in Questions : place[p] > 0}) \in Nat
<1>1. IsFiniteSet({p \in Questions : place[p] > 0})
  BY ClarifyAssumption, FS_Subset, {p \in Questions : place[p] > 0} \subseteq Questions
<1> QED BY <1>1, FS_CardinalityType

ClarifyInv == ClarifyTypeOK /\ OpenQuestionsAwaited

LEMMA ClarifyInitInv == ClarifyInit => ClarifyInv
<1> SUFFICES ASSUME ClarifyInit PROVE ClarifyInv
  OBVIOUS
<1>1. landing \in [question : SUBSET Questions, answer : Responses]
  BY DEF ClarifyInit, NoLanding, Responses
<1>2. /\ place \in [Questions -> Nat]
      /\ poser \in [Questions -> {"idle", "returned"} \union OnTheWay]
  BY DEF ClarifyInit
<1>3. response \in [Questions -> Responses] /\ raised \in [Questions -> BOOLEAN]
  BY DEF ClarifyInit, Responses
<1> QED BY <1>1, <1>2, <1>3 DEF ClarifyInit, ClarifyInv, ClarifyTypeOK, OpenQuestionsAwaited

LEMMA ClarifyInvStep == ClarifyInv /\ [ClarifyNext]_clarifyVars => ClarifyInv'
<1> USE ClarifyAssumption DEF ClarifyInv, ClarifyTypeOK, OpenQuestionsAwaited, OnTheWay,
        questionVars, loopVars
<1> SUFFICES ASSUME ClarifyInv, [ClarifyNext]_clarifyVars PROVE ClarifyInv'
  OBVIOUS
<1>1. ASSUME NEW q \in Questions, Register(q)
      PROVE  ClarifyInv'
  <2>1. place' \in [Questions -> Nat]
    BY <1>1, PlaceIsNat DEF Register
  <2> QED BY <1>1, <2>1 DEF Register, Moves
<1>2. ASSUME NEW q \in Questions,
             Displayed(q) \/ Sent(q) \/ SendFails(q) \/ GivesUp(q) \/ Answered(q) \/ Return(q)
      PROVE  ClarifyInv'
  BY <1>2 DEF Displayed, Sent, SendFails, GivesUp, Answered, Return, Moves
<1>3. ASSUME NEW q \in Questions, Press(q) \/ PressOther(q) \/ Type(q)
      PROVE  ClarifyInv'
  <2>1. landing' \in [question : SUBSET Questions, answer : Responses]
    BY <1>3 DEF Press, PressOther, Type, LookUp, NoLanding, Responses
  <2> QED BY <1>3, <2>1 DEF Press, PressOther, Type
<1>4. ASSUME NEW q \in Questions, Land(q) \/ Cancel(q)
      PROVE  ClarifyInv'
  <2>1. response' \in [Questions -> Responses] /\ raised' \in [Questions -> BOOLEAN]
    BY <1>4 DEF Land, Cancel, Write, Responses
  <2>2. landing' \in [question : SUBSET Questions, answer : Responses]
    BY <1>4 DEF Land, Cancel, NoLanding, Responses
  <2> QED BY <1>4, <2>1, <2>2 DEF Land, Cancel
<1>5. CASE TurnEnded
  BY <1>5 DEF TurnEnded
<1>6. CASE UNCHANGED clarifyVars
  BY <1>6 DEF clarifyVars
<1> QED BY <1>1, <1>2, <1>3, <1>4, <1>5, <1>6 DEF ClarifyNext, PoserSteps

\* Whatever is typed, pressed, timed out and cleared, and however many questions
\* are asked at a time: a question that a message may be taken to answer has a
\* thread that will return with the answer; _entries and _session_index keep no
\* question whose asker left (wait_for_response, clear_session).
THEOREM OpenQuestionsAwaitedTheorem == ClarifySpec => []OpenQuestionsAwaited
BY ClarifyInitInv, ClarifyInvStep, PTL DEF ClarifySpec, ClarifyInv

----------------------------------------------------------------------------
(* The six together, as they are checked (MCServices)                      *)

ServicesInv ==
    /\ ApprovalsInv /\ ClarifyInv /\ CronInv /\ NotifyInv /\ NoticeInv /\ CompressionInv


LEMMA ServicesInitInv == ServicesInit => ServicesInv
BY ApprovalsInitInv, ClarifyInitInv, CronInitInv, NotifyInitInv, NoticeInitInv,
   CompressionInitInv DEF ServicesInit, ServicesInv

\* Each protocol keeps its invariant, whoever moves.
LEMMA ServicesInvStep == ServicesInv /\ [ServicesNext]_serviceVars => ServicesInv'
<1> SUFFICES ASSUME ServicesInv, [ServicesNext]_serviceVars PROVE ServicesInv'
  OBVIOUS
<1>1. /\ [ApprovalsNext]_approvalVars /\ [ClarifyNext]_clarifyVars /\ [CronNext]_cronVars
      /\ [NotifyNext]_notifyVars /\ [NoticeNext]_noticeVars
      /\ [CompressionNext]_compressionVars
  BY DEF ServicesNext, serviceVars
<1>2. ApprovalsInv' /\ ClarifyInv' /\ CronInv'
  BY <1>1, ApprovalsInvStep, ClarifyInvStep, CronInvStep DEF ServicesInv
<1>3. NotifyInv' /\ NoticeInv' /\ CompressionInv'
  BY <1>1, NotifyInvStep, NoticeInvStep, CompressionInvStep DEF ServicesInv
<1> QED BY <1>2, <1>3 DEF ServicesInv

\* The six specifications as they are checked together keep their types, for any
\* number of each of their participants.
THEOREM ServicesTypes == ServicesSpec => []ServicesTypeOK
<1>1. ServicesInv => ServicesTypeOK
  <2>1. ApprovalsInv => ApprovalsTypeOK
    BY DEF ApprovalsInv
  <2>2. ClarifyInv => ClarifyTypeOK
    BY DEF ClarifyInv
  <2>3. CronInv => CronTypeOK
    BY CronTypesOK DEF CronInv
  <2>4. NotifyInv => NotifyTypeOK
    BY NotifyTypeParts DEF NotifyInv
  <2>5. NoticeInv => NoticeTypeOK
    BY DEF NoticeInv
  <2>6. CompressionInv => CompressionTypeOK
    BY DEF CompressionInv
  <2> QED BY <2>1, <2>2, <2>3, <2>4, <2>5, <2>6 DEF ServicesInv, ServicesTypeOK
<1> QED BY <1>1, ServicesInitInv, ServicesInvStep, PTL DEF ServicesSpec


=============================================================================
