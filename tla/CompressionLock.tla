-------------------------- MODULE CompressionLock ---------------------------
(***************************************************************************)
(* Compression of a conversation by processes that share its session id:   *)
(* the agent of the turn and others that resumed the session by its id     *)
(* (agent/conversation_compression.py, the compression locks of            *)
(* hermes_state.py).  Whoever compresses holds a lease on the session,     *)
(* ends it and goes on under a new id, which the others learn from nobody. *)
(*                                                                         *)
(* Left out: the summary, the memory and context engines that are told, an *)
(* old class in memory that has no lock, titles, a row of a new session    *)
(* that is not written, which nobody could resume.  The fork that reviews  *)
(* in the background has no database, and so neither lock nor rotation.    *)
(***************************************************************************)
EXTENDS Integers

CONSTANTS
    Agents, TurnAgent,      \* those of one conversation; that of the turn
    Sessions, FirstSession  \* bound: the ids there are; the first of them

ASSUME CompressionAssumption == TurnAgent \in Agents /\ FirstSession \in Sessions

NoHolder == "none"
ASSUME NoHolderAssumption == NoHolder \notin Agents

VARIABLES
    sid,        \* agent.session_id
    lockSid,    \* _lock_sid, while it works
    agent,      \* what each agent is doing
    holder,     \* compression_locks: who holds each session's lock, or NoHolder
    expired,    \* the locks whose expires_at has passed
    used,       \* the ids in use
    outlived    \* history: agents whose lease has expired while they worked

compressionVars == <<sid, lockSid, agent, holder, expired, used, outlived>>
lockVars == <<holder, expired>>

\* absent: not started yet.  wanting: its context is full.
Working == {"compressing", "rotating", "releasing"}
AgentStages == {"absent", "idle", "wanting"} \union Working

CompressionInit ==
    /\ sid = [a \in Agents |-> FirstSession] /\ lockSid = sid
    /\ agent = [a \in Agents |-> IF a = TurnAgent THEN "idle" ELSE "absent"]
    /\ holder = [s \in Sessions |-> NoHolder] /\ expired = {}
    /\ used = {FirstSession} /\ outlived = {}

AgentGoes(a, stage) == agent' = [agent EXCEPT ![a] = stage]

\* Another process resumes the conversation by an id, any of those it had: one
\* whose messages are still in its row is taken as it is.
Resumes(a) ==
    /\ agent[a] = "absent"
    /\ AgentGoes(a, "idle")
    /\ \E s \in used : sid' = [sid EXCEPT ![a] = s]
    /\ UNCHANGED <<lockSid, lockVars, used, outlived>>

Fills(a) ==
    /\ agent[a] = "idle" /\ AgentGoes(a, "wanting")
    /\ UNCHANGED <<sid, lockSid, lockVars, used, outlived>>

\* try_acquire_compression_lock: an expired row is deleted, a live one stands.
LockAcquired(a, free) ==
    LET s == sid[a]
    IN /\ agent[a] = "wanting" /\ free
       /\ holder' = [holder EXCEPT ![s] = a]
       /\ expired' = expired \ {s}
       /\ lockSid' = [lockSid EXCEPT ![a] = s]
       /\ AgentGoes(a, "compressing")
       /\ UNCHANGED <<sid, used, outlived>>
\* Mutant of Acquire: nothing is reclaimed.
AcquireReleased(a) == LockAcquired(a, holder[sid[a]] = NoHolder)
\* An agent that does not get it goes on, and asks again.
Acquire(a) == LockAcquired(a, holder[sid[a]] = NoHolder \/ sid[a] \in expired)

\* The summary failed: the conversation stays as it is.
Aborts(a) ==
    /\ agent[a] = "compressing" /\ AgentGoes(a, "releasing")
    /\ UNCHANGED <<sid, lockSid, lockVars, used, outlived>>
Compresses(a) ==
    /\ agent[a] = "compressing" /\ AgentGoes(a, "rotating")
    /\ UNCHANGED <<sid, lockSid, lockVars, used, outlived>>

\* end_session, the new id, and its row, which may fail to be written.  An agent
\* that finds no id left hangs, as a slow one would.
Rotates(a) ==
    /\ agent[a] = "rotating" /\ AgentGoes(a, "releasing")
    /\ \E s \in Sessions \ used :
         sid' = [sid EXCEPT ![a] = s] /\ used' = used \union {s}
    /\ UNCHANGED <<lockSid, lockVars, outlived>>

LockReleased(a, mine) ==
    /\ agent[a] = "releasing" /\ AgentGoes(a, "idle")
    /\ IF mine THEN /\ holder' = [holder EXCEPT ![lockSid[a]] = NoHolder]
                    /\ expired' = expired \ {lockSid[a]}
               ELSE UNCHANGED lockVars
    /\ outlived' = outlived \ {a}
    /\ UNCHANGED <<sid, lockSid, used>>
\* Mutant of Release: the row goes, whoever holds it.
ReleaseAnyones(a) == LockReleased(a, TRUE)
\* release_compression_lock, under the old id.
Release(a) == LockReleased(a, holder[lockSid[a]] = a)

\* The process dies, which is to want nothing any more, or an exception after the
\* summary leaves the lock behind.
AgentFails(a) ==
    /\ agent[a] \in Working /\ AgentGoes(a, "idle")
    /\ outlived' = outlived \ {a}
    /\ UNCHANGED <<sid, lockSid, lockVars, used>>

\* expires_at passes; nothing renews it.
Expires(s) ==
    /\ holder[s] # NoHolder /\ s \notin expired
    /\ expired' = expired \union {s}
    /\ LET a == holder[s]
       IN outlived' = IF agent[a] \in Working /\ lockSid[a] = s
                      THEN outlived \union {a} ELSE outlived
    /\ UNCHANGED <<sid, lockSid, agent, holder, used>>

----------------------------------------------------------------------------
AgentSteps(a) == Acquire(a) \/ Aborts(a) \/ Compresses(a) \/ Rotates(a)
                   \/ Release(a)

CompressionNext ==
    \/ \E a \in Agents : Resumes(a) \/ Fills(a) \/ AgentSteps(a) \/ AgentFails(a)
    \/ \E s \in Sessions : Expires(s)

CompressionSpec == CompressionInit /\ [][CompressionNext]_compressionVars

\* Time passes; the conversation asks on every turn while its context is full,
\* and finds the lock free some time if it is free again and again.  Nobody else
\* need go on.
CompressionFairness ==
    /\ SF_compressionVars(Acquire(TurnAgent))
    /\ \A s \in Sessions : WF_compressionVars(Expires(s))

----------------------------------------------------------------------------
CompressionTypeOK ==
    /\ sid \in [Agents -> Sessions] /\ lockSid \in [Agents -> Sessions]
    /\ agent \in [Agents -> AgentStages]
    /\ holder \in [Sessions -> Agents \union {NoHolder}]
    /\ expired \subseteq Sessions
    /\ used \subseteq Sessions /\ outlived \subseteq Agents

\* Two agents never compress the same session at the same time, each ending it
\* and going on under an id of its own, unless one of them has outlived its lease.
OneCompressorAtATime ==
    \A a, b \in Agents :
      /\ agent[a] \in Working /\ agent[b] \in Working /\ lockSid[a] = lockSid[b]
      => a = b \/ a \in outlived \/ b \in outlived

\* The conversation can always be compressed again: neither a holder that died
\* nor one that came back late blocks it for ever.
CompressionNotBlocked == agent[TurnAgent] = "wanting" ~> agent[TurnAgent] # "wanting"

=============================================================================
