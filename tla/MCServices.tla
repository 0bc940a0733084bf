----------------------------- MODULE MCServices -----------------------------
(* Small instances of six protocols that share no state: a behaviour is one *)
(* of "part", and the variables of the others stay as they were.            *)
EXTENDS Approvals, ClarifyQuestions, CronTicks, KanbanNotify, ProcessNotices,
        CompressionLock

VARIABLE part

Parts == {"approvals", "clarify", "cron", "notify", "processes", "compression"}
serviceVars == <<part, approvalVars, clarifyVars, cronVars, notifyVars, noticeVars,
                 compressionVars>>

\* Both commands are instances of the same pattern.
OnePattern == [r \in Requests |-> "pattern"]

\* The parts that do not move need one initial state each.
ServicesInit ==
    /\ part \in Parts
    /\ ApprovalsInit /\ ClarifyInit /\ NotifyInit /\ CompressionInit
    /\ CronInit /\ (part # "cron" => kind = "once")
    /\ NoticeInit /\ (part # "processes" => gateway)

ServicesNext ==
    /\ UNCHANGED part
    /\ \/ /\ part = "approvals" /\ ApprovalsNext
          /\ UNCHANGED <<clarifyVars, cronVars, notifyVars, noticeVars, compressionVars>>
       \/ /\ part = "clarify" /\ ClarifyNext
          /\ UNCHANGED <<approvalVars, cronVars, notifyVars, noticeVars, compressionVars>>
       \/ /\ part = "cron" /\ CronNext
          /\ UNCHANGED <<approvalVars, clarifyVars, notifyVars, noticeVars, compressionVars>>
       \/ /\ part = "notify" /\ NotifyNext
          /\ UNCHANGED <<approvalVars, clarifyVars, cronVars, noticeVars, compressionVars>>
       \/ /\ part = "processes" /\ NoticeNext
          /\ UNCHANGED <<approvalVars, clarifyVars, cronVars, notifyVars, compressionVars>>
       \/ /\ part = "compression" /\ CompressionNext
          /\ UNCHANGED <<approvalVars, clarifyVars, cronVars, notifyVars, noticeVars>>

\* The fairness of each part.  Where another part moves, none of the fair actions
\* of this one is ever enabled, but for the gateway's ticks: CronFairness holds
\* where the ticks do.
ServicesFairness ==
    /\ ApprovalsFairness /\ NotifyFairness /\ NoticeFairness
    /\ CompressionFairness
    /\ \A p \in Tickers \ Sync : /\ SF_cronVars(part = "cron" /\ TickSteps(p))
                                 /\ SF_cronVars(part = "cron" /\ RunSteps(p))
    /\ \A p \in Sync : WF_cronVars(ContinuesTick(p) \/ RunSteps(p))

ServicesSpec == ServicesInit /\ [][ServicesNext]_serviceVars /\ ServicesFairness

ServicesTypeOK ==
    /\ ApprovalsTypeOK /\ ClarifyTypeOK /\ CronTypeOK /\ NotifyTypeOK /\ NoticeTypeOK
    /\ CompressionTypeOK

=============================================================================
